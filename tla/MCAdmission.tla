----------------------------- MODULE MCAdmission -----------------------------
(* Model checking of Admission. *)
EXTENDS Admission, TLC

CONSTANTS c1, c2, r1, r2, r3, r4

MCLimit == c1 :> 2 @@ c2 :> 0
MCTPM == c1 :> 0 @@ c2 :> 3
MCNewLimits == c1 :> {0} @@ c2 :> {}
MCAllowed == c1 :> {<<"a", "/", "*">>} @@ c2 :> {}
MCFree == {<<"a", "/", "*">>, <<"b">>}

Ask(c, chat, est, model, trait) ==
  [client |-> c, chat |-> chat, est |-> est, model |-> model, trait |-> trait]
Plainly(c, chat, est) == Ask(c, chat, est, <<"a", "/", "x">>, "plain")

\* A client with a budget; one with a token limit, whose token is generated; both,
\* with requests that a list or a guardrail stops.
Mixed == {
  r1 :> Plainly(c1, FALSE, 1) @@ r2 :> Plainly(c1, TRUE, 1) @@ r3 :> Plainly(c1, FALSE, 1),
  r1 :> Plainly(c2, FALSE, 2) @@ r2 :> Plainly(c2, TRUE, 1) @@ r3 :> Plainly(c2, FALSE, 2),
  r1 :> Ask(c1, FALSE, 0, <<"a", "/", "x", "/", "y">>, "plain")
    @@ r2 :> Plainly(c2, TRUE, 1)
    @@ r3 :> Ask(c1, TRUE, 1, <<"a", "/", "x">>, "injection"),
  r1 :> Ask(c1, TRUE, 1, <<"c">>, "plain") @@ r2 :> Ask(c2, TRUE, 9, <<"b">>, "plain")
    @@ r3 :> Ask(c2, FALSE, 1, <<"c">>, "plain") }

\* Which of r1 and r3 asks for what makes no difference: nothing else tells them apart.
MCMixes == Mixed \cup {[m EXCEPT ![r1] = m[r3], ![r3] = m[r1]] : m \in Mixed}
MCSymmetry == Permutations({r1, r3})

MCSame == {[r \in Requests |-> Plainly(c1, FALSE, 0)]}

=============================================================================
