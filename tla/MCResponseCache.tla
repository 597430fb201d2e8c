---------------------------- MODULE MCResponseCache ----------------------------
EXTENDS ResponseCache, TLC

CONSTANTS d1, d2, r1, r2, r3, q1, q2, q3

\* q2 lies between q1 and q3, which are too far from each other.
MCSim == q1 :> (q1 :> 3 @@ q2 :> 2 @@ q3 :> 1)
      @@ q2 :> (q1 :> 2 @@ q2 :> 3 @@ q3 :> 2)
      @@ q3 :> (q1 :> 1 @@ q2 :> 2 @@ q3 :> 3)
MCNear == q1 :> (q1 :> 3 @@ q2 :> 2) @@ q2 :> (q1 :> 2 @@ q2 :> 3)

Ask(d, p, t, c, s) == [rep |-> d, prompt |-> p, target |-> t, custom |-> c, skip |-> s]

\* A chain of near prompts on one replica; one prompt on two replicas, for two
\* targets; one custom key for unlike requests on two replicas.
MCMixes ==
  { r1 :> Ask(d1, q2, "t", NoKey, FALSE) @@ r2 :> Ask(d1, q1, "t", NoKey, FALSE)
      @@ r3 :> Ask(d1, q3, "t", NoKey, FALSE),
    r1 :> Ask(d1, q1, "t", NoKey, FALSE) @@ r2 :> Ask(d2, q1, "t", NoKey, FALSE)
      @@ r3 :> Ask(d2, q1, "u", NoKey, FALSE),
    r1 :> Ask(d1, q1, "t", <<"custom", "c">>, FALSE) @@ r2 :> Ask(d1, q3, "t", NoKey, TRUE)
      @@ r3 :> Ask(d2, q3, "u", <<"custom", "c">>, FALSE) }

=============================================================================
