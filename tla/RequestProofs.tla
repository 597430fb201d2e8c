----------------------------- MODULE RequestProofs -----------------------------
(***************************************************************************)
(* Theorems about Delivery's requests, for all that the two APIs define: a *)
(* provider is told the conversation, redacted and but for known losses,   *)
(* and the patterns have seen what it is told.                             *)
(*                                                                         *)
(* In order: sequences made into others element by element; blocks, raw    *)
(* contents and the items they are; what can be told of items; redaction;  *)
(* a user's and an assistant's turn, translated; the words of the items;   *)
(* chat completions made into messages; and the two theorems.              *)
(***************************************************************************)
EXTENDS DeliveryProofs

-----------------------------------------------------------------------------
(***************************************************************************)
(* The elements of a sequence one by one, and what they are made into.     *)
(***************************************************************************)

Nested(ss)  == Sequence(ss) /\ \A n \in 1 .. Len(ss) : Sequence(ss[n])
Map(g, s)  == [n \in DOMAIN s |-> g[s[n]]]
Bind(g, s) == FlattenSeq(Map(g, s))

LEMMA Mapped ==
  ASSUME NEW s, Sequence(s), NEW g
  PROVE  /\ Sequence(Map(g, s)) /\ Len(Map(g, s)) = Len(s) /\ DOMAIN Map(g, s) = DOMAIN s
         /\ \A n \in 1 .. Len(s) : Map(g, s)[n] = g[s[n]]
<1> DEFINE n == Len(s)
           f == [k \in DOMAIN s |-> g[s[k]]]
<1>1. n \in Nat /\ DOMAIN s = 1 .. n
  BY Elements
<1>2. DOMAIN f = 1 .. n /\ f = [k \in 1 .. n |-> f[k]] /\ \A k \in 1 .. n : f[k] = g[s[k]]
  <2> HIDE DEF n
  <2>1. QED
    BY <1>1
<1>3. f = Map(g, s)
  BY DEF Map
<1> HIDE DEF f, n
<1>4. Sequence(f) /\ Len(f) = n
  BY <1>1, <1>2, Listed
<1>5. QED
  BY <1>1, <1>2, <1>3, <1>4 DEF n

LEMMA MapNothing ==
  ASSUME NEW g
  PROVE  Map(g, <<>>) = <<>>
BY DEF Map

LEMMA MapJoined ==
  ASSUME NEW s, NEW t, Sequence(s), Sequence(t), NEW g
  PROVE  Map(g, s \o t) = Map(g, s) \o Map(g, t)
<1> DEFINE u == s \o t
           n == Len(s)
           m == Len(t)
           x == Map(g, u)
           y == Map(g, s) \o Map(g, t)
<1>1. /\ Sequence(u) /\ Len(u) = n + m
      /\ \A i \in 1 .. n : u[i] = s[i]
      /\ \A i \in 1 .. m : u[n + i] = t[i]
  BY Joined
<1>2. n \in Nat /\ m \in Nat
  BY Elements
<1>3. /\ Sequence(Map(g, s)) /\ Len(Map(g, s)) = n /\ \A i \in 1 .. n : Map(g, s)[i] = g[s[i]]
      /\ Sequence(Map(g, t)) /\ Len(Map(g, t)) = m /\ \A i \in 1 .. m : Map(g, t)[i] = g[t[i]]
  BY Mapped
<1>4. Sequence(x) /\ Len(x) = n + m /\ \A i \in 1 .. n + m : x[i] = g[u[i]]
  <2> HIDE DEF u
  <2>1. /\ Sequence(Map(g, u)) /\ Len(Map(g, u)) = Len(u)
        /\ \A i \in 1 .. Len(u) : Map(g, u)[i] = g[u[i]]
    BY <1>1, Mapped
  <2>2. QED
    BY <1>1, <2>1
<1>5. /\ Sequence(y) /\ Len(y) = n + m
      /\ \A i \in 1 .. n : y[i] = Map(g, s)[i]
      /\ \A i \in 1 .. m : y[n + i] = Map(g, t)[i]
  <2>1. /\ Sequence(y) /\ Len(y) = Len(Map(g, s)) + Len(Map(g, t))
        /\ \A i \in 1 .. Len(Map(g, s)) : y[i] = Map(g, s)[i]
        /\ \A i \in 1 .. Len(Map(g, t)) : y[Len(Map(g, s)) + i] = Map(g, t)[i]
    BY <1>3, Joined
  <2> HIDE DEF y
  <2>2. QED
    BY <1>3, <2>1
<1> HIDE DEF u, n, m, x, y
<1>6. ASSUME NEW i \in 1 .. n + m PROVE x[i] = y[i]
  <2>1. i \in 1 .. n \/ (i - n \in 1 .. m /\ n + (i - n) = i)
    BY <1>2
  <2>2. CASE i \in 1 .. n
    BY <1>1, <1>3, <1>4, <1>5, <2>2
  <2>3. CASE i - n \in 1 .. m /\ n + (i - n) = i
    <3>1. u[n + (i - n)] = t[i - n] /\ y[n + (i - n)] = g[t[i - n]]
      BY <1>1, <1>3, <1>5, <2>3
    <3>2. QED
      BY <1>4, <2>3, <3>1
  <2>4. QED
    BY <2>1, <2>2, <2>3
<1>7. x = y
  BY <1>4, <1>5, <1>6, SameSequence
<1>8. QED
  BY <1>7 DEF x, y, u

LEMMA MapMore ==
  ASSUME NEW s, Sequence(s), NEW e, NEW g
  PROVE  Map(g, Append(s, e)) = Append(Map(g, s), g[e])
<1>1. Sequence(<<e>>) /\ s \o <<e>> = Append(s, e)
  BY Listing, JoinedFew
<1>2. Map(g, <<e>>) = <<g[e]>>
  BY DEF Map
<1>3. Map(g, s \o <<e>>) = Map(g, s) \o <<g[e]>>
  <2>1. Map(g, s \o <<e>>) = Map(g, s) \o Map(g, <<e>>)
    BY <1>1, MapJoined
  <2>2. QED
    BY <1>2, <2>1, Zenon
<1>4. Sequence(Map(g, s))
  BY Mapped
<1>5. Map(g, s) \o <<g[e]>> = Append(Map(g, s), g[e])
  BY <1>4, JoinedFew
<1>6. QED
  BY <1>1, <1>3, <1>5

\* The lists that come first are lists.
LEMMA FirstLists ==
  ASSUME NEW ss, Nested(ss)
  PROVE  /\ \A k \in 0 .. Len(ss) : Nested(SubSeq(ss, 1, k)) /\ Sequence(FlattenSeq(SubSeq(ss, 1, k)))
         /\ Sequence(FlattenSeq(ss))
<1>1. Sequence(ss) /\ Len(ss) \in Nat
  BY Elements DEF Nested
<1>2. ASSUME NEW k \in 0 .. Len(ss)
      PROVE  Nested(SubSeq(ss, 1, k)) /\ Sequence(FlattenSeq(SubSeq(ss, 1, k)))
  <2> DEFINE t == SubSeq(ss, 1, k)
  <2>1. Sequence(t) /\ Len(t) = k /\ \A n \in 1 .. k : t[n] = ss[n]
    BY <1>1, Shorter
  <2>2. \A n \in 1 .. k : n \in 1 .. Len(ss)
    BY <1>1
  <2> HIDE DEF t
  <2>3. \A n \in 1 .. Len(t) : Sequence(t[n])
    BY <2>1, <2>2 DEF Nested
  <2>4. Sequence(FlattenSeq(t))
    BY <2>1, <2>3, FlatRange
  <2>5. QED
    BY <2>1, <2>3, <2>4 DEF Nested, t
<1>3. Sequence(FlattenSeq(ss))
  BY <1>1, FlatRange DEF Nested
<1>4. QED
  BY <1>2, <1>3

LEMMA ListsMore ==
  ASSUME NEW ss, Nested(ss), NEW e, Sequence(e)
  PROVE  Nested(Append(ss, e))
<1>1. Sequence(ss) /\ Len(ss) \in Nat
  BY Elements DEF Nested
<1>2. /\ Sequence(Append(ss, e)) /\ Len(Append(ss, e)) = Len(ss) + 1
      /\ Append(ss, e)[Len(ss) + 1] = e /\ \A n \in 1 .. Len(ss) : Append(ss, e)[n] = ss[n]
  BY <1>1, Longer
<1>3. \A n \in 1 .. Len(ss) + 1 : n \in 1 .. Len(ss) \/ n = Len(ss) + 1
  BY <1>1
<1>4. QED
  BY <1>2, <1>3 DEF Nested

LEMMA FlatJoined ==
  ASSUME NEW ss, NEW tt, Nested(ss), Nested(tt)
  PROVE  Nested(ss \o tt) /\ FlattenSeq(ss \o tt) = FlattenSeq(ss) \o FlattenSeq(tt)
<1>1. Sequence(ss) /\ Sequence(tt) /\ Len(tt) \in Nat /\ Len(ss) \in Nat
  BY Elements DEF Nested
<1> DEFINE Same(x) == Nested(ss \o x) /\ FlattenSeq(ss \o x) = FlattenSeq(ss) \o FlattenSeq(x)
           T == {x \in Firsts(tt) : Same(x)}
<1>2. <<>> \in T
  <2>1. <<>> \in Firsts(tt) /\ ss \o <<>> = ss
    BY <1>1, FirstsOf, JoinedFew
  <2>2. Sequence(FlattenSeq(ss))
    BY FirstLists
  <2>3. FlattenSeq(ss) \o <<>> = FlattenSeq(ss)
    BY <2>2, JoinedFew
  <2>4. Same(<<>>)
    BY <2>1, <2>3, FlatNothing
  <2>5. QED
    BY <2>1, <2>4
<1>3. ASSUME NEW k \in 1 .. Len(tt), SubSeq(tt, 1, k - 1) \in T
      PROVE  Append(SubSeq(tt, 1, k - 1), tt[k]) \in T
  <2> DEFINE q == SubSeq(tt, 1, k - 1)
             e == tt[k]
  <2>1. Append(q, e) \in Firsts(tt)
    BY <1>1, FirstsOf
  <2>2. k - 1 \in 0 .. Len(tt)
    BY <1>1
  <2>3. Sequence(q) /\ Sequence(e) /\ Sequence(FlattenSeq(q)) /\ Sequence(FlattenSeq(ss))
    BY <2>2, FirstLists DEF Nested
  <2>4. Same(q)
    BY <1>3
  <2> HIDE DEF q, e
  <2>5. ss \o Append(q, e) = Append(ss \o q, e)
    BY <1>1, <2>3, AppendJoined
  <2>6. FlattenSeq(Append(q, e)) = FlattenSeq(q) \o e
    BY <2>3, FlatMore
  <2>7. FlattenSeq(Append(ss \o q, e)) = FlattenSeq(ss \o q) \o e
    BY <2>3, <2>4, FlatMore DEF Nested
  <2>8. (FlattenSeq(ss) \o FlattenSeq(q)) \o e = FlattenSeq(ss) \o (FlattenSeq(q) \o e)
    BY <2>3, JoinedAgain, SMTT(60)
  <2>9. Nested(Append(ss \o q, e))
    BY <2>3, <2>4, ListsMore
  <2>10. Same(Append(q, e))
    BY <2>4, <2>5, <2>6, <2>7, <2>8, <2>9
  <2>11. QED
    BY <2>1, <2>10 DEF q, e
<1> HIDE DEF T
<1>4. tt \in T
  BY <1>1, <1>2, <1>3, BySteps
<1>5. QED
  BY <1>4 DEF T

\* Each element made into a list of its own.
LEMMA Bound ==
  ASSUME NEW s, Sequence(s), NEW g, \A x \in Range(s) : Sequence(g[x])
  PROVE  Nested(Map(g, s)) /\ Sequence(Bind(g, s))
<1>1. Sequence(Map(g, s)) /\ Len(Map(g, s)) = Len(s) /\ \A n \in 1 .. Len(s) : Map(g, s)[n] = g[s[n]]
  BY Mapped
<1>2. \A n \in 1 .. Len(s) : s[n] \in Range(s)
  BY Elements
<1>3. Nested(Map(g, s))
  <2> DEFINE f == Map(g, s)
  <2>1. Sequence(f) /\ Len(f) = Len(s) /\ \A n \in 1 .. Len(s) : f[n] = g[s[n]]
    BY <1>1
  <2> HIDE DEF f
  <2>2. Nested(f)
    BY <1>2, <2>1 DEF Nested
  <2>3. QED
    BY <2>2 DEF f
<1>4. Sequence(FlattenSeq(Map(g, s)))
  BY <1>3, FirstLists
<1>5. QED
  BY <1>3, <1>4 DEF Bind

LEMMA BindNothing ==
  ASSUME NEW g
  PROVE  Bind(g, <<>>) = <<>>
BY MapNothing, FlatNothing DEF Bind

LEMMA BindJoined ==
  ASSUME NEW s, NEW t, Sequence(s), Sequence(t), NEW g,
         \A x \in Range(s) \cup Range(t) : Sequence(g[x])
  PROVE  Bind(g, s \o t) = Bind(g, s) \o Bind(g, t)
<1>1. Nested(Map(g, s)) /\ Nested(Map(g, t))
  BY Bound
<1>2. Map(g, s \o t) = Map(g, s) \o Map(g, t)
  BY MapJoined
<1>3. FlattenSeq(Map(g, s) \o Map(g, t)) = FlattenSeq(Map(g, s)) \o FlattenSeq(Map(g, t))
  BY <1>1, FlatJoined
<1>4. QED
  BY <1>2, <1>3 DEF Bind

LEMMA BindOne ==
  ASSUME NEW e, NEW g, Sequence(g[e])
  PROVE  Bind(g, <<e>>) = g[e]
<1>1. Map(g, <<e>>) = Append(<<>>, g[e])
  <2>1. Map(g, Append(<<>>, e)) = Append(Map(g, <<>>), g[e])
    BY Nothing, MapMore
  <2>2. Append(<<>>, e) = <<e>>
    OBVIOUS
  <2>3. QED
    BY <2>1, <2>2, MapNothing
<1>2. FlattenSeq(Append(<<>>, g[e])) = <<>> \o g[e]
  <2>1. FlattenSeq(Append(<<>>, g[e])) = FlattenSeq(<<>>) \o g[e]
    BY Nothing, FlatMore
  <2>2. QED
    BY <2>1, FlatNothing
<1>3. <<>> \o g[e] = g[e]
  BY NothingJoined
<1>4. QED
  BY <1>1, <1>2, <1>3 DEF Bind

LEMMA BindMore ==
  ASSUME NEW s, Sequence(s), NEW e, NEW g, \A x \in Range(s) : Sequence(g[x]), Sequence(g[e])
  PROVE  Bind(g, Append(s, e)) = Bind(g, s) \o g[e]
<1>1. Sequence(<<e>>) /\ Range(<<e>>) = {e} /\ s \o <<e>> = Append(s, e)
  BY RangeOne, JoinedFew
<1>2. \A x \in Range(s) \cup Range(<<e>>) : Sequence(g[x])
  BY <1>1
<1>3. Bind(g, s \o <<e>>) = Bind(g, s) \o Bind(g, <<e>>)
  BY <1>1, <1>2, BindJoined
<1>4. Bind(g, <<e>>) = g[e]
  BY BindOne
<1>5. QED
  BY <1>1, <1>3, <1>4, Zenon

\* Nested are made into lists one by one: what is done to what they hold together is done
\* to each.
Parts(F, ss) == [n \in DOMAIN ss |-> F[ss[n]]]

LEMMA PartsOf ==
  ASSUME NEW ss, Nested(ss), NEW D, \A n \in 1 .. Len(ss) : ss[n] \in Seq(D),
         NEW F, F[<<>>] = <<>>, \A s \in Seq(D) : Sequence(F[s]),
         \A s, t \in Seq(D) : F[s \o t] = F[s] \o F[t]
  PROVE  /\ FlattenSeq(ss) \in Seq(D) /\ Nested(Parts(F, ss))
         /\ F[FlattenSeq(ss)] = FlattenSeq(Parts(F, ss))
<1>1. Sequence(ss) /\ Len(ss) \in Nat /\ Parts(F, ss) = Map(F, ss)
  BY Elements DEF Nested, Map, Parts
<1>2. /\ Sequence(Map(F, ss)) /\ Len(Map(F, ss)) = Len(ss)
      /\ \A n \in 1 .. Len(ss) : Map(F, ss)[n] = F[ss[n]]
  BY <1>1, Mapped
<1>3. Nested(Parts(F, ss))
  <2> DEFINE f == Map(F, ss)
  <2>1. Sequence(f) /\ Len(f) = Len(ss) /\ \A n \in 1 .. Len(ss) : f[n] = F[ss[n]]
    BY <1>2
  <2> HIDE DEF f
  <2>2. Nested(f)
    BY <2>1 DEF Nested
  <2>3. QED
    BY <1>1, <2>2 DEF f
<1> DEFINE Fits(x) == /\ FlattenSeq(x) \in Seq(D) /\ Nested(Map(F, x))
                      /\ F[FlattenSeq(x)] = FlattenSeq(Map(F, x))
           T == {x \in Firsts(ss) : Fits(x)}
<1>4. <<>> \in T
  <2>1. <<>> \in Firsts(ss) /\ <<>> \in Seq(D)
    BY <1>1, FirstsOf
  <2>2. Nested(<<>>)
    BY Nothing DEF Nested
  <2>3. Fits(<<>>)
    BY <2>1, <2>2, MapNothing, FlatNothing
  <2>4. QED
    BY <2>1, <2>3
<1>5. ASSUME NEW k \in 1 .. Len(ss), SubSeq(ss, 1, k - 1) \in T
      PROVE  Append(SubSeq(ss, 1, k - 1), ss[k]) \in T
  <2> DEFINE q == SubSeq(ss, 1, k - 1)
             e == ss[k]
  <2>1. Append(q, e) \in Firsts(ss)
    BY <1>1, FirstsOf
  <2>2. k - 1 \in 0 .. Len(ss)
    BY <1>1
  <2>3. Sequence(q) /\ Sequence(e) /\ e \in Seq(D)
    BY <2>2, FirstLists DEF Nested
  <2>4. Fits(q)
    BY <1>5
  <2> HIDE DEF q, e
  <2>5. FlattenSeq(Append(q, e)) = FlattenSeq(q) \o e
    BY <2>3, FlatMore
  <2>6. FlattenSeq(q) \o e \in Seq(D)
    BY <2>3, <2>4
  <2>7. F[FlattenSeq(q) \o e] = F[FlattenSeq(q)] \o F[e]
    BY <2>3, <2>4
  <2>8. Sequence(F[e])
    BY <2>3
  <2>9. Map(F, Append(q, e)) = Append(Map(F, q), F[e])
    BY <2>3, MapMore
  <2>10. FlattenSeq(Append(Map(F, q), F[e])) = FlattenSeq(Map(F, q)) \o F[e]
    BY <2>4, <2>8, FlatMore DEF Nested
  <2>11. Nested(Append(Map(F, q), F[e]))
    BY <2>4, <2>8, ListsMore
  <2>12. Fits(Append(q, e))
    BY <2>4, <2>5, <2>6, <2>7, <2>9, <2>10, <2>11
  <2>13. QED
    BY <2>1, <2>12 DEF q, e
<1> HIDE DEF T
<1>6. ss \in T
  BY <1>1, <1>4, <1>5, BySteps
<1>7. QED
  BY <1>1, <1>3, <1>6 DEF T

\* Of any lists, a set of what they hold.
LEMMA Held ==
  ASSUME NEW ss, Nested(ss)
  PROVE  \E D : D = Range(FlattenSeq(ss)) /\ \A n \in 1 .. Len(ss) : ss[n] \in Seq(D)
<1> DEFINE D == Range(FlattenSeq(ss))
<1>1. \A n \in 1 .. Len(ss) : Sequence(ss[n]) /\ Range(ss[n]) \subseteq D
  BY FlatRange DEF Nested
<1> HIDE DEF D
<1>2. ASSUME NEW n \in 1 .. Len(ss) PROVE ss[n] \in Seq(D)
  <2> DEFINE s == ss[n]
  <2>1. s \in Seq(Range(s)) /\ Range(s) \subseteq D
    BY <1>1 DEF Sequence
  <2> HIDE DEF s
  <2>2. s \in Seq(D)
    BY <2>1
  <2>3. QED
    BY <2>2 DEF s
<1>3. QED
  BY <1>2 DEF D

LEMMA IsWithin ==
  ASSUME NEW D, NEW s
  PROVE  s \in Seq(D) <=> Sequence(s) /\ Range(s) \subseteq D
<1>1. ASSUME s \in Seq(D) PROVE Sequence(s) /\ Range(s) \subseteq D
  BY <1>1, IsSequence DEF Range
<1>2. ASSUME Sequence(s), Range(s) \subseteq D PROVE s \in Seq(D)
  BY <1>2 DEF Sequence
<1>3. QED
  BY <1>1, <1>2

-----------------------------------------------------------------------------
(***************************************************************************)
(* The elements of a sequence that are in a set.                           *)
(***************************************************************************)

Those(Z, s) == Where(LAMBDA x : x \in Z, s)

Kept(Z, D) == [x \in D |-> IF x \in Z THEN <<x>> ELSE <<>>]

LEMMA ThoseBound ==
  ASSUME NEW Z, NEW D, NEW s \in Seq(D)
  PROVE  /\ Those(Z, s) = Bind(Kept(Z, D), s) /\ Sequence(s) /\ Range(s) \subseteq D
         /\ \A x \in D : Sequence(Kept(Z, D)[x]) /\ Range(Kept(Z, D)[x]) = {x} \cap Z
<1>1. Sequence(s) /\ Range(s) \subseteq D
  BY IsWithin
<1> DEFINE g == Kept(Z, D)
<1>2. \A x \in D : g[x] = IF x \in Z THEN <<x>> ELSE <<>>
  BY DEF Kept
<1>3. ASSUME NEW x \in D PROVE Sequence(g[x]) /\ Range(g[x]) = {x} \cap Z
  <2>1. Sequence(<<x>>) /\ Range(<<x>>) = {x} /\ Sequence(<<>>) /\ Range(<<>>) = {}
    BY RangeOne, Nothing DEF Range
  <2> HIDE DEF g
  <2>2. CASE x \in Z
    BY <1>2, <2>1, <2>2
  <2>3. CASE x \notin Z
    BY <1>2, <2>1, <2>3
  <2>4. QED
    BY <2>2, <2>3
<1> HIDE DEF g
<1>4. \A n \in DOMAIN s : s[n] \in D
  BY <1>1 DEF Range
<1>5. [n \in DOMAIN s |-> IF s[n] \in Z THEN <<s[n]>> ELSE <<>>] = [n \in DOMAIN s |-> g[s[n]]]
  BY <1>2, <1>4
<1>6. Those(Z, s) = FlattenSeq([n \in DOMAIN s |-> IF s[n] \in Z THEN <<s[n]>> ELSE <<>>])
  BY DEF Those, Where, Each
<1>7. Those(Z, s) = Bind(g, s)
  BY <1>5, <1>6 DEF Bind, Map
<1>8. QED
  BY <1>1, <1>3, <1>7 DEF g

LEMMA ThoseJoined ==
  ASSUME NEW Z, NEW s, NEW t, Sequence(s), Sequence(t)
  PROVE  Those(Z, s \o t) = Those(Z, s) \o Those(Z, t)
<1> DEFINE D == Range(s) \cup Range(t)
<1>1. Sequence(s \o t) /\ Range(s \o t) = D
  BY Joined, RangeJoined
<1>2. Range(s) \subseteq D /\ Range(t) \subseteq D
  OBVIOUS
<1> HIDE DEF D
<1>3. s \in Seq(D) /\ t \in Seq(D) /\ s \o t \in Seq(D)
  BY <1>1, <1>2, IsWithin
<1>4. /\ Those(Z, s) = Bind(Kept(Z, D), s) /\ Those(Z, t) = Bind(Kept(Z, D), t)
      /\ Those(Z, s \o t) = Bind(Kept(Z, D), s \o t)
      /\ \A x \in D : Sequence(Kept(Z, D)[x])
  BY <1>3, ThoseBound
<1>5. \A x \in Range(s) \cup Range(t) : Sequence(Kept(Z, D)[x])
  BY <1>2, <1>4
<1>6. Bind(Kept(Z, D), s \o t) = Bind(Kept(Z, D), s) \o Bind(Kept(Z, D), t)
  BY <1>5, BindJoined
<1>7. QED
  BY <1>4, <1>6

LEMMA ThoseNothing ==
  ASSUME NEW Z
  PROVE  Those(Z, <<>>) = <<>>
<1>1. <<>> \in Seq({})
  OBVIOUS
<1>2. Those(Z, <<>>) = Bind(Kept(Z, {}), <<>>)
  BY <1>1, ThoseBound
<1>3. QED
  BY <1>2, BindNothing

LEMMA ThoseOf ==
  ASSUME NEW Z, NEW s, Sequence(s)
  PROVE  Sequence(Those(Z, s)) /\ Range(Those(Z, s)) = Range(s) \cap Z
<1> DEFINE D == Range(s)
           g == Kept(Z, D)
<1>1. s \in Seq(D)
  BY DEF Sequence
<1>2. Those(Z, s) = Bind(g, s) /\ \A x \in D : Sequence(g[x]) /\ Range(g[x]) = {x} \cap Z
  <2> HIDE DEF D
  <2>1. QED
    BY <1>1, ThoseBound, Zenon
<1>3. /\ Len(s) \in Nat /\ DOMAIN s = 1 .. Len(s) /\ \A n \in 1 .. Len(s) : s[n] \in D
      /\ \A x : x \in D <=> \E n \in 1 .. Len(s) : x = s[n]
  BY Elements DEF Range
<1> HIDE DEF g, D
<1>4. Nested(Map(g, s)) /\ Sequence(Bind(g, s))
  BY <1>2, Bound DEF D
<1>5. Len(Map(g, s)) = Len(s) /\ \A n \in 1 .. Len(s) : Map(g, s)[n] = g[s[n]]
  BY Mapped
<1>6. \A x : x \in Range(FlattenSeq(Map(g, s))) <=> \E n \in 1 .. Len(Map(g, s)) : x \in Range(Map(g, s)[n])
  BY <1>4, FlatRange DEF Nested
<1>7. \A x : x \in Range(Bind(g, s)) <=> \E n \in 1 .. Len(s) : x \in Range(g[s[n]])
  BY <1>5, <1>6 DEF Bind
<1>8. \A x : x \in Range(Bind(g, s)) <=> \E n \in 1 .. Len(s) : x = s[n] /\ x \in Z
  BY <1>2, <1>3, <1>7
<1>9. Range(Bind(g, s)) = D \cap Z
  BY <1>3, <1>8
<1>10. QED
  BY <1>2, <1>4, <1>9 DEF D

LEMMA ThoseFlat ==
  ASSUME NEW Z, NEW ss, Nested(ss)
  PROVE  Those(Z, FlattenSeq(ss)) = FlattenSeq([n \in DOMAIN ss |-> Those(Z, ss[n])])
<1>1. PICK D : \A n \in 1 .. Len(ss) : ss[n] \in Seq(D)
  BY Held
<1> DEFINE F == [s \in Seq(D) |-> Those(Z, s)]
<1>2. \A s \in Seq(D) : F[s] = Those(Z, s) /\ Sequence(s)
  BY IsWithin
<1>3. <<>> \in Seq(D) /\ \A s, t \in Seq(D) : s \o t \in Seq(D)
  OBVIOUS
<1> HIDE DEF F
<1>4. F[<<>>] = <<>> /\ \A s \in Seq(D) : Sequence(F[s])
  <2>1. F[<<>>] = Those(Z, <<>>)
    BY <1>2, <1>3
  <2>2. \A s \in Seq(D) : Sequence(Those(Z, s))
    BY <1>2, ThoseOf, Zenon
  <2>3. QED
    BY <1>2, <2>1, <2>2, ThoseNothing
<1>5. ASSUME NEW s \in Seq(D), NEW t \in Seq(D) PROVE F[s \o t] = F[s] \o F[t]
  <2>1. Those(Z, s \o t) = Those(Z, s) \o Those(Z, t)
    BY <1>2, ThoseJoined, ZenonT(60)
  <2>2. QED
    BY <1>2, <1>3, <2>1
<1>6. FlattenSeq(ss) \in Seq(D) /\ F[FlattenSeq(ss)] = FlattenSeq(Parts(F, ss))
  BY <1>1, <1>4, <1>5, PartsOf
<1>7. DOMAIN ss = 1 .. Len(ss)
  BY Elements DEF Nested
<1>8. Parts(F, ss) = [n \in DOMAIN ss |-> Those(Z, ss[n])]
  BY <1>1, <1>2, <1>7 DEF Parts
<1>9. QED
  BY <1>2, <1>6, <1>8

LEMMA ThoseMore ==
  ASSUME NEW Z, NEW s, Sequence(s), NEW e
  PROVE  Those(Z, Append(s, e)) = IF e \in Z THEN Append(Those(Z, s), e) ELSE Those(Z, s)
<1>1. Sequence(<<e>>) /\ s \o <<e>> = Append(s, e) /\ Range(<<e>>) = {e}
  BY RangeOne, JoinedFew
<1>2. Those(Z, Append(s, e)) = Those(Z, s) \o Those(Z, <<e>>)
  <2>1. Those(Z, s \o <<e>>) = Those(Z, s) \o Those(Z, <<e>>)
    BY <1>1, ThoseJoined
  <2>2. QED
    BY <1>1, <2>1, Zenon
<1>3. <<e>> \in Seq({e})
  OBVIOUS
<1>4. Those(Z, <<e>>) = Bind(Kept(Z, {e}), <<e>>) /\ Sequence(Kept(Z, {e})[e])
  BY <1>3, ThoseBound
<1>5. Those(Z, <<e>>) = Kept(Z, {e})[e]
  BY <1>4, BindOne
<1>6. Kept(Z, {e})[e] = IF e \in Z THEN <<e>> ELSE <<>>
  BY DEF Kept
<1>7. Sequence(Those(Z, s))
  BY ThoseOf
<1>8. Those(Z, s) \o <<e>> = Append(Those(Z, s), e) /\ Those(Z, s) \o <<>> = Those(Z, s)
  BY <1>7, JoinedFew
<1>9. QED
  BY <1>2, <1>5, <1>6, <1>8

\* All, or none.
LEMMA ThoseAll ==
  ASSUME NEW Z, NEW s, Sequence(s)
  PROVE  /\ Range(s) \subseteq Z => Those(Z, s) = s
         /\ Range(s) \cap Z = {} => Those(Z, s) = <<>>
<1>1. ASSUME Range(s) \cap Z = {} PROVE Those(Z, s) = <<>>
  <2>1. Sequence(Those(Z, s)) /\ \A x : x \notin Range(Those(Z, s))
    BY <1>1, ThoseOf
  <2>2. QED
    BY <2>1, Hollow
<1>2. ASSUME Range(s) \subseteq Z PROVE Those(Z, s) = s
  <2> DEFINE T == {x \in Firsts(s) : Those(Z, x) = x}
  <2>1. <<>> \in T
    BY FirstsOf, ThoseNothing
  <2>2. ASSUME NEW k \in 1 .. Len(s), SubSeq(s, 1, k - 1) \in T
        PROVE  Append(SubSeq(s, 1, k - 1), s[k]) \in T
    <3> DEFINE q == SubSeq(s, 1, k - 1)
               e == s[k]
    <3>1. Append(q, e) \in Firsts(s) /\ Sequence(q)
      BY <2>2, FirstsOf
    <3>2. e \in Z /\ Those(Z, q) = q
      BY <1>2, <2>2, Elements
    <3> HIDE DEF q, e
    <3>3. Those(Z, Append(q, e)) = Append(q, e)
      BY <3>1, <3>2, ThoseMore
    <3>4. QED
      BY <3>1, <3>3 DEF q, e
  <2> HIDE DEF T
  <2>3. s \in T
    BY <2>1, <2>2, BySteps
  <2>4. QED
    BY <2>3 DEF T
<1>3. QED
  BY <1>1, <1>2

-----------------------------------------------------------------------------
(***************************************************************************)
(* Items, by class and redacted.                                           *)
(***************************************************************************)

LEMMA ClassedThose ==
  ASSUME NEW s, NEW C, NEW Z, \A it \in Range(s) : it \in Z <=> it.class \in C
  PROVE  OfClass(C, s) = Those(Z, s)
<1>1. \A n \in DOMAIN s : s[n] \in Z <=> s[n].class \in C
  BY DEF Range
<1>2. [n \in DOMAIN s |-> IF s[n].class \in C THEN <<s[n]>> ELSE <<>>]
        = [n \in DOMAIN s |-> IF s[n] \in Z THEN <<s[n]>> ELSE <<>>]
  BY <1>1
<1>3. OfClass(C, s) = FlattenSeq([n \in DOMAIN s |-> IF s[n].class \in C THEN <<s[n]>> ELSE <<>>])
  BY DEF OfClass, Where, Each
<1>4. Those(Z, s) = FlattenSeq([n \in DOMAIN s |-> IF s[n] \in Z THEN <<s[n]>> ELSE <<>>])
  BY DEF Those, Where, Each
<1>5. QED
  BY <1>2, <1>3, <1>4

LEMMA OfClassOf ==
  ASSUME NEW s, Sequence(s), NEW C
  PROVE  /\ Sequence(OfClass(C, s))
         /\ Range(OfClass(C, s)) = {it \in Range(s) : it.class \in C}
         /\ (\A it \in Range(s) : it.class \in C) => OfClass(C, s) = s
         /\ (\A it \in Range(s) : it.class \notin C) => OfClass(C, s) = <<>>
<1> DEFINE Z == {it \in Range(s) : it.class \in C}
<1>1. OfClass(C, s) = Those(Z, s)
  BY ClassedThose
<1>2. Sequence(Those(Z, s)) /\ Range(Those(Z, s)) = Range(s) \cap Z
  BY ThoseOf
<1>3. /\ Range(s) \subseteq Z => Those(Z, s) = s
      /\ Range(s) \cap Z = {} => Those(Z, s) = <<>>
  BY ThoseAll
<1>4. Range(s) \cap Z = {it \in Range(s) : it.class \in C}
  OBVIOUS
<1>5. /\ (\A it \in Range(s) : it.class \in C) => Range(s) \subseteq Z
      /\ (\A it \in Range(s) : it.class \notin C) => Range(s) \cap Z = {}
  OBVIOUS
<1> HIDE DEF Z
<1>6. QED
  BY <1>1, <1>2, <1>3, <1>4, <1>5

LEMMA OfClassJoined ==
  ASSUME NEW s, NEW t, Sequence(s), Sequence(t), NEW C
  PROVE  OfClass(C, s \o t) = OfClass(C, s) \o OfClass(C, t)
<1> DEFINE Z == {it \in Range(s) \cup Range(t) : it.class \in C}
<1>1. Range(s \o t) = Range(s) \cup Range(t)
  BY RangeJoined
<1>2. /\ \A it \in Range(s) : it \in Z <=> it.class \in C
      /\ \A it \in Range(t) : it \in Z <=> it.class \in C
      /\ \A it \in Range(s \o t) : it \in Z <=> it.class \in C
  BY <1>1
<1> HIDE DEF Z
<1>3. OfClass(C, s) = Those(Z, s) /\ OfClass(C, t) = Those(Z, t) /\ OfClass(C, s \o t) = Those(Z, s \o t)
  BY <1>2, ClassedThose
<1>4. Those(Z, s \o t) = Those(Z, s) \o Those(Z, t)
  BY ThoseJoined
<1>5. QED
  BY <1>3, <1>4

LEMMA OfClassFlat ==
  ASSUME NEW ss, Nested(ss), NEW C
  PROVE  /\ OfClass(C, FlattenSeq(ss)) = FlattenSeq([n \in DOMAIN ss |-> OfClass(C, ss[n])])
         /\ Sequence(FlattenSeq(ss))
<1>1. PICK D : D = Range(FlattenSeq(ss)) /\ \A n \in 1 .. Len(ss) : ss[n] \in Seq(D)
  BY Held
<1> DEFINE Z == {it \in D : it.class \in C}
<1>2. \A n \in 1 .. Len(ss) : Range(ss[n]) \subseteq D
  BY <1>1, IsWithin
<1>3. \A it \in D : it \in Z <=> it.class \in C
  OBVIOUS
<1> HIDE DEF Z
<1>4. OfClass(C, FlattenSeq(ss)) = Those(Z, FlattenSeq(ss))
  BY <1>1, <1>3, ClassedThose
<1>5. ASSUME NEW n \in 1 .. Len(ss) PROVE OfClass(C, ss[n]) = Those(Z, ss[n])
  <2>1. \A it \in Range(ss[n]) : it \in Z <=> it.class \in C
    BY <1>2, <1>3
  <2>2. QED
    BY <2>1, ClassedThose
<1>6. DOMAIN ss = 1 .. Len(ss)
  BY Elements DEF Nested
<1>7. [n \in DOMAIN ss |-> OfClass(C, ss[n])] = [n \in DOMAIN ss |-> Those(Z, ss[n])]
  BY <1>5, <1>6
<1>8. Those(Z, FlattenSeq(ss)) = FlattenSeq([n \in DOMAIN ss |-> Those(Z, ss[n])])
  BY ThoseFlat
<1>9. Sequence(FlattenSeq(ss))
  BY FirstLists
<1>10. QED
  BY <1>4, <1>7, <1>8, <1>9

LEMMA SameJoined ==
  ASSUME NEW s, NEW t, NEW u, NEW v, Sequence(s), Sequence(t), Sequence(u), Sequence(v),
         SameItems(s, t), SameItems(u, v)
  PROVE  SameItems(s \o u, t \o v)
<1> SUFFICES ASSUME NEW x \in Classes, NEW y \in Classes, {x, y} \notin Unordered
             PROVE  OfClass({x, y}, s \o u) = OfClass({x, y}, t \o v)
  BY DEF SameItems
<1>1. OfClass({x, y}, s) = OfClass({x, y}, t) /\ OfClass({x, y}, u) = OfClass({x, y}, v)
  BY DEF SameItems
<1> DEFINE C == {x, y}
<1> HIDE DEF C
<1>2. OfClass(C, s \o u) = OfClass(C, s) \o OfClass(C, u) /\ OfClass(C, t \o v) = OfClass(C, t) \o OfClass(C, v)
  BY OfClassJoined
<1>3. QED
  BY <1>1, <1>2 DEF C

LEMMA SameFlat ==
  ASSUME NEW ss, NEW tt, Nested(ss), Nested(tt), Len(ss) = Len(tt),
         \A n \in 1 .. Len(ss) : SameItems(ss[n], tt[n])
  PROVE  SameItems(FlattenSeq(ss), FlattenSeq(tt))
<1> SUFFICES ASSUME NEW x \in Classes, NEW y \in Classes, {x, y} \notin Unordered
             PROVE  OfClass({x, y}, FlattenSeq(ss)) = OfClass({x, y}, FlattenSeq(tt))
  BY DEF SameItems
<1>1. \A n \in 1 .. Len(ss) : OfClass({x, y}, ss[n]) = OfClass({x, y}, tt[n])
  BY DEF SameItems
<1>2. DOMAIN ss = 1 .. Len(ss) /\ DOMAIN tt = 1 .. Len(ss)
  BY Elements DEF Nested
<1>3. [n \in DOMAIN ss |-> OfClass({x, y}, ss[n])] = [n \in DOMAIN tt |-> OfClass({x, y}, tt[n])]
  BY <1>1, <1>2
<1> DEFINE C == {x, y}
<1> HIDE DEF C
<1>4. /\ OfClass(C, FlattenSeq(ss)) = FlattenSeq([n \in DOMAIN ss |-> OfClass(C, ss[n])])
      /\ OfClass(C, FlattenSeq(tt)) = FlattenSeq([n \in DOMAIN tt |-> OfClass(C, tt[n])])
  BY OfClassFlat
<1>5. QED
  BY <1>3, <1>4 DEF C

LEMMA SameItself == \A s : SameItems(s, s)
BY DEF SameItems

\* Of elements some of which are kept twice.
LEMMA OfClassTwice ==
  ASSUME NEW s, Sequence(s), NEW D, NEW C \in SUBSET D
  PROVE  OfClass(C, OfClass(D, s)) = OfClass(C, s)
<1> DEFINE T == {x \in Firsts(s) : OfClass(C, OfClass(D, x)) = OfClass(C, x)}
<1>1. <<>> \in T
  <2>1. Sequence(<<>>) /\ Range(<<>>) = {}
    BY Nothing DEF Range
  <2>2. OfClass(D, <<>>) = <<>>
    BY <2>1, OfClassOf
  <2>3. QED
    BY <2>2, FirstsOf
<1>2. ASSUME NEW k \in 1 .. Len(s), SubSeq(s, 1, k - 1) \in T
      PROVE  Append(SubSeq(s, 1, k - 1), s[k]) \in T
  <2> DEFINE q == SubSeq(s, 1, k - 1)
             e == s[k]
  <2>1. Append(q, e) \in Firsts(s) /\ Sequence(q) /\ OfClass(C, OfClass(D, q)) = OfClass(C, q)
    BY <1>2, FirstsOf
  <2> HIDE DEF q, e
  <2>2. Sequence(<<e>>) /\ Range(<<e>>) = {e} /\ q \o <<e>> = Append(q, e)
    BY <2>1, RangeOne, JoinedFew
  <2>3. /\ OfClass(D, Append(q, e)) = OfClass(D, q) \o OfClass(D, <<e>>)
        /\ OfClass(C, Append(q, e)) = OfClass(C, q) \o OfClass(C, <<e>>)
    <3>1. /\ OfClass(D, q \o <<e>>) = OfClass(D, q) \o OfClass(D, <<e>>)
          /\ OfClass(C, q \o <<e>>) = OfClass(C, q) \o OfClass(C, <<e>>)
      BY <2>1, <2>2, OfClassJoined, Zenon
    <3>2. q \o <<e>> = Append(q, e)
      BY <2>2
    <3>3. QED
      BY <3>1, <3>2
  <2>4. Sequence(OfClass(D, q)) /\ Sequence(OfClass(C, q)) /\ Sequence(OfClass(D, <<e>>))
    BY <2>1, <2>2, OfClassOf
  <2>5. OfClass(C, OfClass(D, Append(q, e))) = OfClass(C, q) \o OfClass(C, OfClass(D, <<e>>))
    <3>1. OfClass(C, OfClass(D, q) \o OfClass(D, <<e>>))
            = OfClass(C, OfClass(D, q)) \o OfClass(C, OfClass(D, <<e>>))
      <4>1. \A u, v : Sequence(u) /\ Sequence(v) => OfClass(C, u \o v) = OfClass(C, u) \o OfClass(C, v)
        BY OfClassJoined, Zenon
      <4>2. QED
        BY <2>4, <4>1, Zenon
    <3>2. /\ OfClass(D, Append(q, e)) = OfClass(D, q) \o OfClass(D, <<e>>)
          /\ OfClass(C, OfClass(D, q)) = OfClass(C, q)
      BY <2>1, <2>3
    <3>3. QED
      BY <3>1, <3>2, Zenon
  <2>6. OfClass(C, OfClass(D, <<e>>)) = OfClass(C, <<e>>)
    <3>1. CASE e.class \in D
      <4>1. OfClass(D, <<e>>) = <<e>>
        BY <2>2, <3>1, OfClassOf
      <4>2. QED
        BY <4>1
    <3>2. CASE e.class \notin D
      <4>1. e.class \notin C
        BY <3>2
      <4>2. OfClass(D, <<e>>) = <<>> /\ OfClass(C, <<e>>) = <<>>
        BY <2>2, <3>2, <4>1, OfClassOf
      <4>3. Sequence(<<>>) /\ Range(<<>>) = {}
        BY Nothing DEF Range
      <4>4. OfClass(C, <<>>) = <<>>
        BY <4>3, OfClassOf
      <4>5. QED
        BY <4>2, <4>4
    <3>3. QED
      BY <3>1, <3>2
  <2>7. QED
    BY <2>1, <2>3, <2>5, <2>6 DEF q, e
<1> HIDE DEF T
<1>3. s \in T
  BY <1>1, <1>2, BySteps
<1>4. QED
  BY <1>3 DEF T

\* What is made of the elements of a list of lists.
LEMMA MapFlat ==
  ASSUME NEW ss, Nested(ss), NEW g
  PROVE  /\ Map(g, FlattenSeq(ss)) = FlattenSeq([n \in DOMAIN ss |-> Map(g, ss[n])])
         /\ Nested([n \in DOMAIN ss |-> Map(g, ss[n])])
<1>1. PICK D : \A n \in 1 .. Len(ss) : ss[n] \in Seq(D)
  BY Held
<1> DEFINE F == [s \in Seq(D) |-> Map(g, s)]
<1>2. \A s \in Seq(D) : F[s] = Map(g, s) /\ Sequence(s)
  BY IsWithin
<1>3. <<>> \in Seq(D) /\ \A s, t \in Seq(D) : s \o t \in Seq(D)
  OBVIOUS
<1> HIDE DEF F
<1>4. F[<<>>] = <<>>
  BY <1>2, <1>3, MapNothing
<1>5. \A s \in Seq(D) : Sequence(F[s])
  <2>1. \A s \in Seq(D) : Sequence(Map(g, s))
    BY <1>2, Mapped, Zenon
  <2>2. QED
    BY <1>2, <2>1
<1>6. ASSUME NEW s \in Seq(D), NEW t \in Seq(D) PROVE F[s \o t] = F[s] \o F[t]
  <2>1. Map(g, s \o t) = Map(g, s) \o Map(g, t)
    BY <1>2, MapJoined, Zenon
  <2>2. QED
    BY <1>2, <1>3, <2>1
<1>7. /\ FlattenSeq(ss) \in Seq(D) /\ F[FlattenSeq(ss)] = FlattenSeq(Parts(F, ss))
      /\ Nested(Parts(F, ss))
  BY <1>1, <1>4, <1>5, <1>6, PartsOf
<1>8. DOMAIN ss = 1 .. Len(ss)
  BY Elements DEF Nested
<1>9. Parts(F, ss) = [n \in DOMAIN ss |-> Map(g, ss[n])]
  BY <1>1, <1>2, <1>8 DEF Parts
<1>10. QED
  BY <1>2, <1>7, <1>9

Redacted(items) == [n \in DOMAIN items |-> RedactItem(items[n])]
Redacting(D)    == [it \in D |-> RedactItem(it)]

LEMMA RedactedMap ==
  ASSUME NEW s, Sequence(s), NEW D, Range(s) \subseteq D
  PROVE  Redacted(s) = Map(Redacting(D), s) /\ Sequence(Redacted(s))
<1>1. \A n \in DOMAIN s : s[n] \in D
  BY DEF Range
<1>2. [n \in DOMAIN s |-> RedactItem(s[n])] = [n \in DOMAIN s |-> Redacting(D)[s[n]]]
  BY <1>1 DEF Redacting
<1>3. Redacted(s) = Map(Redacting(D), s)
  BY <1>2 DEF Redacted, Map
<1>4. QED
  BY <1>3, Mapped

LEMMA RedactedFlat ==
  ASSUME NEW ss, Nested(ss)
  PROVE  /\ Redacted(FlattenSeq(ss)) = FlattenSeq([n \in DOMAIN ss |-> Redacted(ss[n])])
         /\ Nested([n \in DOMAIN ss |-> Redacted(ss[n])])
<1>1. PICK D : D = Range(FlattenSeq(ss)) /\ \A n \in 1 .. Len(ss) : ss[n] \in Seq(D)
  BY Held
<1> DEFINE g == Redacting(D)
<1>2. \A n \in 1 .. Len(ss) : Redacted(ss[n]) = Map(g, ss[n])
  BY <1>1, IsWithin, RedactedMap
<1>3. Sequence(FlattenSeq(ss))
  BY FirstLists
<1>4. Redacted(FlattenSeq(ss)) = Map(g, FlattenSeq(ss))
  BY <1>1, <1>3, RedactedMap
<1> HIDE DEF g
<1>5. DOMAIN ss = 1 .. Len(ss)
  BY Elements DEF Nested
<1>6. [n \in DOMAIN ss |-> Redacted(ss[n])] = [n \in DOMAIN ss |-> Map(g, ss[n])]
  BY <1>2, <1>5
<1>7. QED
  BY <1>4, <1>6, MapFlat

Emptied(items) == [n \in DOMAIN items |-> EmptyItem(items[n])]
Emptying(D)    == [it \in D |-> EmptyItem(it)]

LEMMA EmptiedMap ==
  ASSUME NEW s, Sequence(s), NEW D, Range(s) \subseteq D
  PROVE  Emptied(s) = Map(Emptying(D), s) /\ Sequence(Emptied(s))
<1>1. \A n \in DOMAIN s : s[n] \in D
  BY DEF Range
<1>2. [n \in DOMAIN s |-> EmptyItem(s[n])] = [n \in DOMAIN s |-> Emptying(D)[s[n]]]
  BY <1>1 DEF Emptying
<1>3. Emptied(s) = Map(Emptying(D), s)
  BY <1>2 DEF Emptied, Map
<1>4. QED
  BY <1>3, Mapped

LEMMA EmptiedFlat ==
  ASSUME NEW ss, Nested(ss)
  PROVE  /\ Emptied(FlattenSeq(ss)) = FlattenSeq([n \in DOMAIN ss |-> Emptied(ss[n])])
         /\ Nested([n \in DOMAIN ss |-> Emptied(ss[n])])
<1>1. PICK D : D = Range(FlattenSeq(ss)) /\ \A n \in 1 .. Len(ss) : ss[n] \in Seq(D)
  BY Held
<1> DEFINE g == Emptying(D)
<1>2. \A n \in 1 .. Len(ss) : Emptied(ss[n]) = Map(g, ss[n])
  BY <1>1, IsWithin, EmptiedMap
<1>3. Sequence(FlattenSeq(ss))
  BY FirstLists
<1>4. Emptied(FlattenSeq(ss)) = Map(g, FlattenSeq(ss))
  BY <1>1, <1>3, EmptiedMap
<1> HIDE DEF g
<1>5. DOMAIN ss = 1 .. Len(ss)
  BY Elements DEF Nested
<1>6. [n \in DOMAIN ss |-> Emptied(ss[n])] = [n \in DOMAIN ss |-> Map(g, ss[n])]
  BY <1>2, <1>5
<1>7. QED
  BY <1>4, <1>6, MapFlat

Plain(items) == [n \in DOMAIN items |-> FlattenItem(items[n])]
Plaining(D)    == [it \in D |-> FlattenItem(it)]

LEMMA PlainMap ==
  ASSUME NEW s, Sequence(s), NEW D, Range(s) \subseteq D
  PROVE  Plain(s) = Map(Plaining(D), s) /\ Sequence(Plain(s))
<1>1. \A n \in DOMAIN s : s[n] \in D
  BY DEF Range
<1>2. [n \in DOMAIN s |-> FlattenItem(s[n])] = [n \in DOMAIN s |-> Plaining(D)[s[n]]]
  BY <1>1 DEF Plaining
<1>3. Plain(s) = Map(Plaining(D), s)
  BY <1>2 DEF Plain, Map
<1>4. QED
  BY <1>3, Mapped

LEMMA PlainFlat ==
  ASSUME NEW ss, Nested(ss)
  PROVE  /\ Plain(FlattenSeq(ss)) = FlattenSeq([n \in DOMAIN ss |-> Plain(ss[n])])
         /\ Nested([n \in DOMAIN ss |-> Plain(ss[n])])
<1>1. PICK D : D = Range(FlattenSeq(ss)) /\ \A n \in 1 .. Len(ss) : ss[n] \in Seq(D)
  BY Held
<1> DEFINE g == Plaining(D)
<1>2. \A n \in 1 .. Len(ss) : Plain(ss[n]) = Map(g, ss[n])
  BY <1>1, IsWithin, PlainMap
<1>3. Sequence(FlattenSeq(ss))
  BY FirstLists
<1>4. Plain(FlattenSeq(ss)) = Map(g, FlattenSeq(ss))
  BY <1>1, <1>3, PlainMap
<1> HIDE DEF g
<1>5. DOMAIN ss = 1 .. Len(ss)
  BY Elements DEF Nested
<1>6. [n \in DOMAIN ss |-> Plain(ss[n])] = [n \in DOMAIN ss |-> Map(g, ss[n])]
  BY <1>2, <1>5
<1>7. QED
  BY <1>4, <1>6, MapFlat

LEMMA PlainJoined ==
  ASSUME NEW s, NEW t, Sequence(s), Sequence(t)
  PROVE  Plain(s \o t) = Plain(s) \o Plain(t)
<1> DEFINE D == Range(s) \cup Range(t)
<1>1. Sequence(s \o t) /\ Range(s \o t) \subseteq D /\ Range(s) \subseteq D /\ Range(t) \subseteq D
  BY RangeJoined, Joined
<1> HIDE DEF D
<1>2. /\ Plain(s) = Map(Plaining(D), s) /\ Plain(t) = Map(Plaining(D), t)
      /\ Plain(s \o t) = Map(Plaining(D), s \o t)
  BY <1>1, PlainMap
<1>3. Map(Plaining(D), s \o t) = Map(Plaining(D), s) \o Map(Plaining(D), t)
  BY MapJoined
<1>4. QED
  BY <1>2, <1>3

\* Items that are flat already.
LEMMA PlainAlready ==
  ASSUME NEW s, Sequence(s), \A it \in Range(s) : FlattenItem(it) = it
  PROVE  Plain(s) = s
<1>1. Len(s) \in Nat /\ DOMAIN s = 1 .. Len(s) /\ \A n \in 1 .. Len(s) : s[n] \in Range(s)
  BY Elements
<1>2. Plain(s) = Map(Plaining(Range(s)), s)
  BY PlainMap
<1>3. /\ Sequence(Plain(s)) /\ Len(Plain(s)) = Len(s)
      /\ \A n \in 1 .. Len(s) : Plain(s)[n] = Plaining(Range(s))[s[n]]
  BY <1>2, Mapped
<1>4. \A n \in 1 .. Len(s) : Plain(s)[n] = s[n]
  BY <1>1, <1>3 DEF Plaining
<1>5. QED
  BY <1>3, <1>4, SameSequence

LEMMA PlainRange ==
  ASSUME NEW s, NEW it \in Range(Plain(s))
  PROVE  \E x \in Range(s) : it = FlattenItem(x)
BY DEF Range, Plain

\* What an OpenAI provider can be told of items.
Tellable(items) == OfClass(Classes, Plain(items))

LEMMA TellableOf ==
  ASSUME NEW s, Sequence(s)
  PROVE  /\ Sequence(Tellable(s)) /\ SameItems(Plain(s), Tellable(s))
         /\ \A it \in Range(Tellable(s)) : it.class \in Classes /\ \E x \in Range(s) : it = FlattenItem(x)
         /\ \A x \in Range(s) : FlattenItem(x).class \in Classes => FlattenItem(x) \in Range(Tellable(s))
         /\ (\A x \in Range(s) : FlattenItem(x) = x /\ x.class \in Classes) => Tellable(s) = s
         /\ (\A x \in Range(s) : FlattenItem(x).class \notin Classes) => Tellable(s) = <<>>
<1> DEFINE p == Plain(s)
<1>1. Sequence(p)
  BY PlainMap
<1>2. \A it \in Range(p) : \E x \in Range(s) : it = FlattenItem(x)
  BY PlainRange
<1>3. \A x \in Range(s) : FlattenItem(x) \in Range(p)
  BY DEF Range, Plain
<1>4. (\A x \in Range(s) : FlattenItem(x) = x) => p = s
  BY PlainAlready
<1>5. Tellable(s) = OfClass(Classes, p)
  BY DEF Tellable
<1> HIDE DEF p
<1>6. /\ Sequence(Tellable(s)) /\ Range(Tellable(s)) = {it \in Range(p) : it.class \in Classes}
      /\ (\A it \in Range(p) : it.class \in Classes) => Tellable(s) = p
      /\ (\A it \in Range(p) : it.class \notin Classes) => Tellable(s) = <<>>
  BY <1>1, <1>5, OfClassOf
<1>7. SameItems(p, Tellable(s))
  <2> SUFFICES ASSUME NEW x \in Classes, NEW y \in Classes
               PROVE  OfClass({x, y}, p) = OfClass({x, y}, Tellable(s))
    BY DEF SameItems
  <2>1. {x, y} \in SUBSET Classes
    OBVIOUS
  <2>2. QED
    BY <1>1, <1>5, <2>1, OfClassTwice
<1>8. (\A x \in Range(s) : FlattenItem(x) = x /\ x.class \in Classes) => Tellable(s) = s
  BY <1>4, <1>6
<1>9. (\A x \in Range(s) : FlattenItem(x).class \notin Classes) => Tellable(s) = <<>>
  BY <1>2, <1>6
<1>10. QED
  BY <1>2, <1>3, <1>6, <1>7, <1>8, <1>9 DEF p

LEMMA TellableNothing == Tellable(<<>>) = <<>>
<1>1. Sequence(<<>>) /\ Range(<<>>) = {}
  BY Nothing DEF Range
<1>2. QED
  BY <1>1, TellableOf

LEMMA TellableJoined ==
  ASSUME NEW s, NEW t, Sequence(s), Sequence(t)
  PROVE  Tellable(s \o t) = Tellable(s) \o Tellable(t)
<1>1. Plain(s \o t) = Plain(s) \o Plain(t) /\ Sequence(Plain(s)) /\ Sequence(Plain(t))
  BY PlainJoined, PlainMap
<1>2. QED
  BY <1>1, OfClassJoined DEF Tellable

LEMMA TellableFlat ==
  ASSUME NEW ss, Nested(ss)
  PROVE  Tellable(FlattenSeq(ss)) = FlattenSeq([n \in DOMAIN ss |-> Tellable(ss[n])])
<1> DEFINE f == [n \in DOMAIN ss |-> Plain(ss[n])]
<1>1. Plain(FlattenSeq(ss)) = FlattenSeq(f) /\ Nested(f)
  BY PlainFlat
<1>2. DOMAIN f = DOMAIN ss /\ \A n \in DOMAIN ss : f[n] = Plain(ss[n])
  OBVIOUS
<1> HIDE DEF f
<1>3. OfClass(Classes, FlattenSeq(f)) = FlattenSeq([n \in DOMAIN f |-> OfClass(Classes, f[n])])
  BY <1>1, OfClassFlat
<1>4. [n \in DOMAIN f |-> OfClass(Classes, f[n])] = [n \in DOMAIN ss |-> Tellable(ss[n])]
  BY <1>2 DEF Tellable
<1>5. QED
  BY <1>1, <1>3, <1>4 DEF Tellable

-----------------------------------------------------------------------------
(***************************************************************************)
(* Blocks, raw contents and their texts.                                   *)
(***************************************************************************)

AnyBlocks   == Blocks \cup ImageURLs
ResultKinds == TextBlocks \cup Images \cup Others

LEMMA BlockKinds ==
  ASSUME NEW b \in AnyBlocks
  PROVE  /\ b.type \in BlockTypes
         /\ b.type \in Words
         /\ b.type = "text" => b.text \in Seq(Words) /\ b = TextBlock(b.text)
         /\ b.type = "tool_use" => b.args \in Seq(Words) /\ b \in ToolUses
         /\ b.type \in OtherTypes => b.text \in Seq(Words) /\ b \in Others /\ b = Other(b.type, b.text)
         /\ b.type = "tool_result" => /\ b.i \in Int /\ b.content \in Raws(ResultKinds)
                                      /\ b = ToolResult(b.i, b.content)
         /\ b.type = "image" => b \in Images
         /\ b.type = "image_url" => b.url \in Urls /\ b = ImageURL(b.url)
<1>1. CASE b \in TextBlocks
  <2>1. b.type = "text" /\ b.text \in Seq(Words) /\ b = TextBlock(b.text)
    BY <1>1 DEF TextBlocks, TextBlock
  <2>2. QED
    BY <1>1, <2>1, WordsAssumption DEF BlockTypes, OtherTypes
<1>2. CASE b \in ToolUses
  <2>1. b.type = "tool_use" /\ b.args \in Seq(Words)
    BY <1>2 DEF ToolUses
  <2>2. QED
    BY <1>2, <2>1, WordsAssumption DEF BlockTypes, OtherTypes
<1>3. CASE b \in Others
  <2>1. b.type \in OtherTypes /\ b.text \in Seq(Words) /\ b = Other(b.type, b.text)
    BY <1>3 DEF Others, Other
  <2>2. QED
    BY <1>3, <2>1, WordsAssumption DEF BlockTypes, OtherTypes
<1>4. CASE b \in ToolResults
  <2> DEFINE R == Raws(ResultKinds)
  <2>1. b \in [type : {"tool_result"}, i : Int, content : R]
    BY <1>4 DEF ToolResults, ResultKinds
  <2> HIDE DEF R
  <2>2. b.type = "tool_result" /\ b.i \in Int /\ b.content \in R /\ b = ToolResult(b.i, b.content)
    BY <2>1 DEF ToolResult
  <2>3. QED
    BY <2>2, WordsAssumption DEF R, BlockTypes, OtherTypes
<1>5. CASE b \in Images
  <2>1. b.type = "image"
    BY <1>5 DEF Images
  <2>2. QED
    BY <1>5, <2>1, WordsAssumption DEF BlockTypes, OtherTypes
<1>6. CASE b \in ImageURLs
  <2>1. b.type = "image_url" /\ b.url \in Urls /\ b = ImageURL(b.url)
    BY <1>6 DEF ImageURLs, ImageURL
  <2>2. QED
    BY <1>6, <2>1, WordsAssumption DEF BlockTypes, OtherTypes
<1>7. QED
  BY <1>1, <1>2, <1>3, <1>4, <1>5, <1>6 DEF AnyBlocks, Blocks

LEMMA KindsOf ==
  /\ \A b : b \in Blocks <=> b \in AnyBlocks /\ b.type # "image_url"
  /\ \A b : b \in TextBlocks <=> b \in AnyBlocks /\ b.type = "text"
  /\ \A b : b \in ResultKinds => b \in Blocks
  /\ \A b \in Others : b.type \in OtherTypes
<1>1. /\ \A b \in TextBlocks : b.type = "text"
      /\ \A b \in ToolUses : b.type = "tool_use"
      /\ \A b \in Others : b.type \in {"thinking", "document"}
      /\ \A b \in ToolResults : b.type = "tool_result"
      /\ \A b \in Images : b.type = "image"
      /\ \A b \in ImageURLs : b.type = "image_url"
  <2>1. \A b \in ToolResults : b.type = "tool_result"
    BY DEF ToolResults
  <2>2. QED
    BY <2>1 DEF TextBlocks, ToolUses, Others, OtherTypes, Images, ImageURLs
<1>2. \A b : b \in Blocks <=> b \in AnyBlocks /\ b.type # "image_url"
  BY <1>1 DEF Blocks, AnyBlocks
<1>3. \A b : b \in TextBlocks <=> b \in AnyBlocks /\ b.type = "text"
  BY <1>1 DEF Blocks, AnyBlocks
<1>4. QED
  BY <1>1, <1>2, <1>3 DEF ResultKinds, Blocks, OtherTypes

LEMMA RawKinds ==
  ASSUME NEW B, NEW raw \in Raws(B)
  PROVE  /\ raw.form \in {"string", "odd", "list", "absent"}
         /\ raw.form = "string" => raw.text \in Seq(Words) /\ raw = Str(raw.text)
         /\ raw.form = "odd" => raw.text \in Seq(Words)
         /\ raw.form = "list" => raw.items \in Seq(B) /\ raw = List(raw.items)
         /\ raw.form = "absent" <=> raw = Absent
BY DEF Raws, Str, List, Absent

LEMMA RawForms ==
  /\ \A B : \A t \in Seq(Words) : Str(t) \in Raws(B) /\ Str(t).form = "string" /\ Str(t).text = t
  /\ \A B : \A s \in Seq(B) : List(s) \in Raws(B) /\ List(s).form = "list" /\ List(s).items = s
  /\ \A B : Absent \in Raws(B) /\ Absent.form = "absent"
BY DEF Raws, Str, List, Absent

LEMMA TextBlockKind ==
  ASSUME NEW t \in Seq(Words)
  PROVE  /\ TextBlock(t) \in TextBlocks /\ TextBlock(t) \in AnyBlocks
         /\ TextBlock(t).type = "text" /\ TextBlock(t).text = t
BY DEF TextBlock, TextBlocks, AnyBlocks, Blocks

LEMMA BlocksOf ==
  ASSUME NEW B \in SUBSET AnyBlocks, NEW raw \in Raws(B)
  PROVE  /\ BlocksFromRaw(raw) \in Seq(B \cup TextBlocks) /\ BlocksFromRaw(raw) \in Seq(AnyBlocks)
         /\ raw.form = "string" => BlocksFromRaw(raw) = IF raw.text = <<>> THEN <<>> ELSE <<TextBlock(raw.text)>>
         /\ raw.form = "list" => BlocksFromRaw(raw) = raw.items
         /\ raw.form \in {"odd", "absent"} => BlocksFromRaw(raw) = <<>>
<1>1. /\ raw.form \in {"string", "odd", "list", "absent"}
      /\ raw.form = "string" => raw.text \in Seq(Words)
      /\ raw.form = "list" => raw.items \in Seq(B)
  BY RawKinds
<1>2. /\ raw.form = "string" => BlocksFromRaw(raw) = IF raw.text = <<>> THEN <<>> ELSE <<TextBlock(raw.text)>>
      /\ raw.form = "list" => BlocksFromRaw(raw) = raw.items
      /\ raw.form \in {"odd", "absent"} => BlocksFromRaw(raw) = <<>>
  BY DEF BlocksFromRaw
<1>3. TextBlocks \subseteq AnyBlocks
  BY DEF AnyBlocks, Blocks
<1> DEFINE E == B \cup TextBlocks
<1>4. B \subseteq E /\ TextBlocks \subseteq E /\ E \subseteq AnyBlocks
  BY <1>3
<1> HIDE DEF E
<1>5. <<>> \in Seq(E) /\ (\A b \in E : <<b>> \in Seq(E)) /\ Seq(B) \subseteq Seq(E) /\ Seq(E) \subseteq Seq(AnyBlocks)
  BY <1>4
<1>6. raw.form = "string" => TextBlock(raw.text) \in E
  BY <1>1, <1>4, TextBlockKind
<1>7. BlocksFromRaw(raw) \in Seq(E)
  BY <1>1, <1>2, <1>5, <1>6
<1>8. QED
  BY <1>2, <1>5, <1>7 DEF E

\* Nested of elements of a set.
LEMMA FlatWithin ==
  ASSUME NEW ss, Nested(ss), NEW D, \A n \in 1 .. Len(ss) : ss[n] \in Seq(D)
  PROVE  FlattenSeq(ss) \in Seq(D)
<1>1. \A n \in 1 .. Len(ss) : Range(ss[n]) \subseteq D
  BY IsWithin
<1>2. /\ Sequence(FlattenSeq(ss))
      /\ \A x : x \in Range(FlattenSeq(ss)) <=> \E n \in 1 .. Len(ss) : x \in Range(ss[n])
  BY FlatRange DEF Nested
<1>3. Range(FlattenSeq(ss)) \subseteq D
  BY <1>1, <1>2
<1>4. QED
  BY <1>2, <1>3, IsWithin

\* What is made of each element of a sequence.
LEMMA ListOf ==
  ASSUME NEW n \in Nat, NEW f, f = [k \in 1 .. n |-> f[k]], \A k \in 1 .. n : Sequence(f[k])
  PROVE  Nested(f) /\ Len(f) = n /\ Sequence(FlattenSeq(f))
<1>1. DOMAIN f = 1 .. n
  OBVIOUS
<1>2. Sequence(f) /\ Len(f) = n
  BY <1>1, Listed
<1>3. Nested(f)
  BY <1>2 DEF Nested
<1>4. QED
  BY <1>2, <1>3, FirstLists

LEMMA TextsTyped ==
  ASSUME NEW bs \in Seq(AnyBlocks)
  PROVE  /\ Texts(bs) \in Seq(Words) /\ Worded(bs) /\ Sequence(bs)
         /\ \A b \in AnyBlocks : TextIn(b) \in Seq(Words) /\ Sequence(TextIn(b))
<1>1. \A b \in AnyBlocks : TextIn(b) \in Seq(Words)
  <2>1. <<>> \in Seq(Words)
    OBVIOUS
  <2>2. QED
    BY <2>1, BlockKinds DEF TextIn
<1>2. \A b \in AnyBlocks : Sequence(TextIn(b))
  BY <1>1, IsSequence
<1> DEFINE n == Len(bs)
           f == [k \in DOMAIN bs |-> TextIn(bs[k])]
<1>3. n \in Nat /\ DOMAIN bs = 1 .. n /\ \A k \in 1 .. n : bs[k] \in AnyBlocks
  OBVIOUS
<1>4. f = [k \in 1 .. n |-> f[k]] /\ \A k \in 1 .. n : f[k] = TextIn(bs[k])
  <2> HIDE DEF n
  <2>1. QED
    BY <1>3
<1>5. Texts(bs) = FlattenSeq(f)
  BY DEF Texts
<1> HIDE DEF n, f
<1>6. \A k \in 1 .. n : f[k] \in Seq(Words) /\ Sequence(f[k])
  BY <1>1, <1>2, <1>3, <1>4
<1>7. Nested(f) /\ Len(f) = n
  BY <1>3, <1>4, <1>6, ListOf
<1>8. FlattenSeq(f) \in Seq(Words)
  BY <1>6, <1>7, FlatWithin
<1>9. Worded(bs)
  BY <1>2, <1>3 DEF Worded, Range
<1>10. QED
  BY <1>1, <1>2, <1>5, <1>8, <1>9, IsSequence

InWords(b) == IF b.type = "text" THEN b.text ELSE <<b.type>>

LEMMA FlattenTyped ==
  ASSUME NEW B \in SUBSET AnyBlocks, NEW raw \in Raws(B)
  PROVE  FlattenContent(raw) \in Seq(Words) /\ SystemText(raw) \in Seq(Words)
<1> DEFINE bs == BlocksFromRaw(raw)
           n == Len(bs)
           f == [k \in DOMAIN bs |-> InWords(bs[k])]
<1>1. bs \in Seq(AnyBlocks)
  BY BlocksOf
<1>2. SystemText(raw) \in Seq(Words)
  BY <1>1, TextsTyped DEF SystemText
<1>3. FlattenContent(raw) = FlattenSeq(f)
  BY DEF FlattenContent, Each, InWords
<1> HIDE DEF bs
<1>4. n \in Nat /\ DOMAIN bs = 1 .. n /\ \A k \in 1 .. n : bs[k] \in AnyBlocks
  BY <1>1
<1>5. f = [k \in 1 .. n |-> f[k]] /\ \A k \in 1 .. n : f[k] = InWords(bs[k])
  <2> HIDE DEF n
  <2>1. QED
    BY <1>4
<1> HIDE DEF n, f
<1>6. ASSUME NEW b \in AnyBlocks PROVE InWords(b) \in Seq(Words)
  <2>1. b.type \in Words /\ (b.type = "text" => b.text \in Seq(Words))
    BY BlockKinds
  <2>2. \A x \in Words : <<x>> \in Seq(Words)
    OBVIOUS
  <2>3. QED
    BY <2>1, <2>2 DEF InWords
<1>7. \A k \in 1 .. n : f[k] \in Seq(Words) /\ Sequence(f[k])
  BY <1>4, <1>5, <1>6, IsSequence
<1>8. Nested(f) /\ Len(f) = n
  BY <1>4, <1>5, <1>7, ListOf
<1>9. FlattenSeq(f) \in Seq(Words)
  BY <1>7, <1>8, FlatWithin
<1>10. QED
  BY <1>2, <1>3, <1>9

LEMMA FlatOne ==
  ASSUME NEW x, Sequence(x)
  PROVE  FlattenSeq(<<x>>) = x
<1>1. FlattenSeq(Append(<<>>, x)) = FlattenSeq(<<>>) \o x
  BY Nothing, FlatMore
<1>2. Append(<<>>, x) = <<x>>
  OBVIOUS
<1>3. <<>> \o x = x
  BY NothingJoined
<1>4. QED
  BY <1>1, <1>2, <1>3, FlatNothing

\* A string has its own text.
LEMMA FlattenStr ==
  ASSUME NEW t \in Seq(Words)
  PROVE  FlattenContent(Str(t)) = t /\ SystemText(Str(t)) = t
<1>1. Str(t).form = "string" /\ Str(t).text = t
  BY RawForms
<1>2. BlocksFromRaw(Str(t)) = IF t = <<>> THEN <<>> ELSE <<TextBlock(t)>>
  BY <1>1 DEF BlocksFromRaw
<1>3. TextBlock(t).type = "text" /\ TextBlock(t).text = t
  BY TextBlockKind
<1>4. \A x : [k \in DOMAIN <<x>> |-> InWords(<<x>>[k])] = <<InWords(x)>>
  OBVIOUS
<1>5. \A x : [k \in DOMAIN <<x>> |-> TextIn(<<x>>[k])] = <<TextIn(x)>>
  OBVIOUS
<1>6. InWords(TextBlock(t)) = t /\ TextIn(TextBlock(t)) = t
  BY <1>3 DEF InWords, TextIn
<1>7. Sequence(t)
  BY IsSequence
<1>8. FlattenSeq(<<t>>) = t
  BY <1>7, FlatOne
<1>9. [k \in DOMAIN <<>> |-> InWords(<<>>[k])] = <<>> /\ [k \in DOMAIN <<>> |-> TextIn(<<>>[k])] = <<>>
  OBVIOUS
<1>10. FlattenContent(Str(t)) = FlattenSeq([k \in DOMAIN BlocksFromRaw(Str(t)) |-> InWords(BlocksFromRaw(Str(t))[k])])
  BY DEF FlattenContent, Each, InWords
<1>11. SystemText(Str(t)) = FlattenSeq([k \in DOMAIN BlocksFromRaw(Str(t)) |-> TextIn(BlocksFromRaw(Str(t))[k])])
  BY DEF SystemText, Texts
<1>12. CASE t = <<>>
  <2>1. BlocksFromRaw(Str(t)) = <<>>
    BY <1>2, <1>12
  <2>2. QED
    BY <1>9, <1>10, <1>11, <1>12, <2>1, FlatNothing
<1>13. CASE t # <<>>
  <2>1. BlocksFromRaw(Str(t)) = <<TextBlock(t)>>
    BY <1>2, <1>13
  <2>2. FlattenContent(Str(t)) = FlattenSeq(<<t>>)
    BY <1>4, <1>6, <1>10, <2>1
  <2>3. SystemText(Str(t)) = FlattenSeq(<<t>>)
    BY <1>5, <1>6, <1>11, <2>1
  <2>4. QED
    BY <1>8, <2>2, <2>3
<1>14. QED
  BY <1>12, <1>13

LEMMA RedactTyped ==
  ASSUME NEW t \in Seq(Words)
  PROVE  /\ Redact(t) \in Seq(Words) /\ Len(Redact(t)) = Len(t) /\ DOMAIN Redact(t) = DOMAIN t
         /\ \A k \in DOMAIN t : Redact(t)[k] = IF t[k] \in Personal THEN "[REDACTED]" ELSE t[k]
         /\ Range(Redact(t)) \cap Personal = {}
<1>1. Len(t) \in Nat /\ DOMAIN t = 1 .. Len(t) /\ \A k \in 1 .. Len(t) : t[k] \in Words
  OBVIOUS
<1>2. Redact(t) = [k \in 1 .. Len(t) |-> IF t[k] \in Personal THEN "[REDACTED]" ELSE t[k]]
  BY <1>1 DEF Redact
<1>3. \A k \in 1 .. Len(t) : (IF t[k] \in Personal THEN "[REDACTED]" ELSE t[k]) \in Words \ Personal
  BY <1>1, WordsAssumption
<1>4. Redact(t) \in [1 .. Len(t) -> Words \ Personal]
  BY <1>2, <1>3
<1>5. Redact(t) \in Seq(Words \ Personal) /\ Len(Redact(t)) = Len(t)
  BY <1>1, <1>4
<1>6. Redact(t) \in Seq(Words) /\ Range(Redact(t)) \subseteq Words \ Personal
  BY <1>5, IsWithin
<1>7. QED
  BY <1>1, <1>2, <1>5, <1>6

-----------------------------------------------------------------------------
(***************************************************************************)
(* The items that words and blocks are.                                    *)
(***************************************************************************)

Word(who, x) == Item(who, "text", TextBlock(<<x>>))

Saying(who) == [x \in Words |-> Word(who, x)]

LEMMA SaidMap ==
  ASSUME NEW who, NEW t \in Seq(Words)
  PROVE  /\ Said(who, t) = Map(Saying(who), t) /\ Sequence(t) /\ Sequence(Said(who, t))
         /\ \A it : it \in Range(Said(who, t)) <=> \E x \in Range(t) : it = Word(who, x)
<1>1. \A k \in DOMAIN t : t[k] \in Words
  OBVIOUS
<1>2. \A x \in Words : Saying(who)[x] = Word(who, x)
  BY DEF Saying
<1>3. [k \in DOMAIN t |-> Word(who, t[k])] = [k \in DOMAIN t |-> Saying(who)[t[k]]]
  BY <1>1, <1>2
<1>4. Said(who, t) = [k \in DOMAIN t |-> Word(who, t[k])]
  BY DEF Said, Word
<1>5. Said(who, t) = Map(Saying(who), t) /\ Sequence(t)
  BY <1>3, <1>4, IsSequence DEF Map
<1>6. Sequence(Said(who, t))
  BY <1>5, Mapped
<1>7. ASSUME NEW it PROVE it \in Range(Said(who, t)) <=> \E x \in Range(t) : it = Word(who, x)
  BY <1>4 DEF Range
<1>8. QED
  BY <1>5, <1>6, <1>7

LEMMA SaidNothing == \A who : Said(who, <<>>) = <<>>
BY DEF Said

LEMMA SaidJoined ==
  ASSUME NEW who, NEW s \in Seq(Words), NEW t \in Seq(Words)
  PROVE  Said(who, s \o t) = Said(who, s) \o Said(who, t)
<1>1. s \o t \in Seq(Words)
  OBVIOUS
<1>2. /\ Said(who, s) = Map(Saying(who), s) /\ Said(who, t) = Map(Saying(who), t)
      /\ Said(who, s \o t) = Map(Saying(who), s \o t) /\ Sequence(s) /\ Sequence(t)
  BY <1>1, SaidMap
<1>3. Map(Saying(who), s \o t) = Map(Saying(who), s) \o Map(Saying(who), t)
  BY <1>2, MapJoined
<1>4. QED
  BY <1>2, <1>3

LEMMA WordRedacted ==
  ASSUME NEW who, NEW x
  PROVE  /\ RedactItem(Word(who, x)) = Word(who, IF x \in Personal THEN "[REDACTED]" ELSE x)
         /\ Word(who, x).class = <<who, "text">> /\ Word(who, x).what.text = <<x>>
<1> DEFINE y == IF x \in Personal THEN "[REDACTED]" ELSE x
<1>1. Redact(<<x>>) = <<y>>
  BY DEF Redact
<1>2. Word(who, x) = [class |-> <<who, "text">>, what |-> [type |-> "text", text |-> <<x>>]]
  BY DEF Word, Item, TextBlock
<1>3. RedactItem(Word(who, x)) = [Word(who, x) EXCEPT !.what.text = Redact(@)]
  BY <1>2 DEF RedactItem
<1>4. [Word(who, x) EXCEPT !.what.text = Redact(@)]
        = [class |-> <<who, "text">>, what |-> [type |-> "text", text |-> Redact(<<x>>)]]
  BY <1>2
<1>5. QED
  BY <1>1, <1>2, <1>3, <1>4 DEF Word, Item, TextBlock

LEMMA SaidRedacted ==
  ASSUME NEW who, NEW t \in Seq(Words)
  PROVE  Redacted(Said(who, t)) = Said(who, Redact(t))
<1>1. /\ DOMAIN Redact(t) = DOMAIN t
      /\ \A k \in DOMAIN t : Redact(t)[k] = IF t[k] \in Personal THEN "[REDACTED]" ELSE t[k]
  BY RedactTyped
<1>2. Said(who, t) = [k \in DOMAIN t |-> Word(who, t[k])]
  BY DEF Said, Word
<1>3. Said(who, Redact(t)) = [k \in DOMAIN t |-> Word(who, Redact(t)[k])]
  BY <1>1 DEF Said, Word
<1>4. \A k \in DOMAIN t : RedactItem(Word(who, t[k])) = Word(who, Redact(t)[k])
  BY <1>1, WordRedacted
<1>5. Redacted(Said(who, t)) = [k \in DOMAIN t |-> RedactItem(Word(who, t[k]))]
  BY <1>2 DEF Redacted
<1>6. QED
  BY <1>3, <1>4, <1>5

ResultItem(who, i, t) == Item(who, "result", ToolResult(i, Str(t)))

\* What redaction and the translations do to an item, by its kind.
LEMMA KindKept ==
  ASSUME NEW who, NEW kind \in {"text", "call", "picture"}, NEW what
  PROVE  LET it == Item(who, kind, what)
         IN  /\ it.class = <<who, kind>> /\ it.what = what
             /\ FlattenItem(it) = it /\ EmptyItem(it) = it
             /\ kind # "text" => RedactItem(it) = it
<1> DEFINE it == Item(who, kind, what)
<1>1. it.class = <<who, kind>> /\ it.what = what /\ it.class[2] = kind
  BY DEF Item
<1> HIDE DEF it
<1>2. FlattenItem(it) = it
  BY <1>1 DEF FlattenItem
<1>3. EmptyItem(it) = it
  BY <1>1 DEF EmptyItem
<1>4. kind # "text" => RedactItem(it) = it
  BY <1>1 DEF RedactItem
<1>5. QED
  BY <1>1, <1>2, <1>3, <1>4 DEF it

LEMMA ResultKept ==
  ASSUME NEW who, NEW i, NEW raw
  PROVE  LET it == Item(who, "result", ToolResult(i, raw))
         IN  /\ it.class = <<who, "result">> /\ it.what.content = raw
             /\ FlattenItem(it) = ResultItem(who, i, FlattenContent(raw))
             /\ RedactItem(it) = ResultItem(who, i, Redact(FlattenContent(raw)))
             /\ EmptyItem(it) = it
<1> DEFINE it == Item(who, "result", ToolResult(i, raw))
<1>1. \A r : Item(who, "result", ToolResult(i, r))
             = [class |-> <<who, "result">>, what |-> [type |-> "tool_result", i |-> i, content |-> r]]
  BY DEF Item, ToolResult
<1>2. it.class = <<who, "result">> /\ it.what.content = raw /\ it.class[2] = "result"
  BY <1>1
<1>3. \A r : [it EXCEPT !.what.content = r] = Item(who, "result", ToolResult(i, r))
  BY <1>1
<1> HIDE DEF it
<1>4. FlattenItem(it) = [it EXCEPT !.what.content = Str(FlattenContent(@))]
  BY <1>2 DEF FlattenItem
<1>5. RedactItem(it) = [it EXCEPT !.what.content = Str(Redact(FlattenContent(@)))]
  BY <1>2 DEF RedactItem
<1>6. /\ FlattenItem(it) = [it EXCEPT !.what.content = Str(FlattenContent(raw))]
      /\ RedactItem(it) = [it EXCEPT !.what.content = Str(Redact(FlattenContent(raw)))]
  BY <1>2, <1>4, <1>5
<1>7. EmptyItem(it) = it
  BY <1>2 DEF EmptyItem
<1>8. QED
  BY <1>2, <1>3, <1>6, <1>7 DEF it, ResultItem

LEMMA OtherKept ==
  ASSUME NEW who, NEW type, NEW t
  PROVE  LET it == Item(who, "other", Other(type, t))
         IN  /\ it.class = <<who, "other">>
             /\ FlattenItem(it) = it /\ RedactItem(it) = it
             /\ EmptyItem(it) = Item(who, "other", Other(type, <<>>))
<1> DEFINE it == Item(who, "other", Other(type, t))
<1>1. \A u : Item(who, "other", Other(type, u))
             = [class |-> <<who, "other">>, what |-> [type |-> type, text |-> u]]
  BY DEF Item, Other
<1>2. it.class = <<who, "other">> /\ it.class[2] = "other"
  BY <1>1
<1>3. [it EXCEPT !.what.text = <<>>] = Item(who, "other", Other(type, <<>>))
  BY <1>1
<1> HIDE DEF it
<1>4. FlattenItem(it) = it /\ RedactItem(it) = it
  BY <1>2 DEF FlattenItem, RedactItem
<1>5. EmptyItem(it) = [it EXCEPT !.what.text = <<>>]
  BY <1>2 DEF EmptyItem
<1>6. QED
  BY <1>2, <1>3, <1>4, <1>5 DEF it

\* What a block is of, by its type.
LEMMA BlockIs ==
  ASSUME NEW who, NEW b
  PROVE  /\ b.type = "text" => BlockItems(who, b) = Said(who, b.text)
         /\ b.type = "tool_use" => BlockItems(who, b) = <<Item(who, "call", b)>>
         /\ b.type = "tool_result" => BlockItems(who, b) = <<Item(who, "result", b)>>
         /\ b.type = "image_url" => BlockItems(who, b) = IF b.url # NoURL THEN <<Item(who, "picture", b)>> ELSE <<>>
         /\ b.type = "image" => BlockItems(who, b) = IF UrlOf(b.source) # NoURL
                                     THEN <<Item(who, "picture", ImageURL(UrlOf(b.source)))>> ELSE <<>>
         /\ b.type \in OtherTypes => BlockItems(who, b) = <<Item(who, "other", b)>>
BY DEF BlockItems, OtherTypes

LEMMA BlockItemsListed ==
  ASSUME NEW who, NEW b \in AnyBlocks
  PROVE  Sequence(BlockItems(who, b))
<1>1. \A x : Sequence(<<x>>)
  BY Listing
<1>2. \A t \in Seq(Words) : Sequence(Said(who, t))
  BY SaidMap
<1>3. b.type \in BlockTypes /\ (b.type = "text" => b.text \in Seq(Words))
  BY BlockKinds
<1>4. b.type = "text" => Sequence(BlockItems(who, b))
  BY <1>2, <1>3, BlockIs
<1>5. b.type = "tool_use" => Sequence(BlockItems(who, b))
  BY <1>1, BlockIs
<1>6. b.type = "tool_result" => Sequence(BlockItems(who, b))
  BY <1>1, BlockIs
<1>7. b.type = "image_url" => Sequence(BlockItems(who, b))
  BY <1>1, BlockIs, Nothing
<1>8. b.type = "image" => Sequence(BlockItems(who, b))
  BY <1>1, BlockIs, Nothing
<1>9. b.type \in OtherTypes => Sequence(BlockItems(who, b))
  BY <1>1, BlockIs
<1>10. QED
  BY <1>3, <1>4, <1>5, <1>6, <1>7, <1>8, <1>9 DEF BlockTypes

ItemsOf(who, bs) == Each(LAMBDA b : BlockItems(who, b), bs)
Itemized(who) == [b \in AnyBlocks |-> BlockItems(who, b)]

LEMMA ItemsBound ==
  ASSUME NEW who, NEW bs \in Seq(AnyBlocks)
  PROVE  /\ ItemsOf(who, bs) = Bind(Itemized(who), bs)
         /\ ItemsOf(who, bs) = FlattenSeq([n \in DOMAIN bs |-> BlockItems(who, bs[n])])
         /\ Nested([n \in DOMAIN bs |-> BlockItems(who, bs[n])])
         /\ Sequence(ItemsOf(who, bs)) /\ Sequence(bs)
         /\ \A b \in AnyBlocks : Itemized(who)[b] = BlockItems(who, b) /\ Sequence(Itemized(who)[b])
<1>1. \A b \in AnyBlocks : Itemized(who)[b] = BlockItems(who, b)
  BY DEF Itemized
<1>2. \A b \in AnyBlocks : Sequence(Itemized(who)[b])
  BY <1>1, BlockItemsListed
<1>3. Sequence(bs) /\ Range(bs) \subseteq AnyBlocks /\ \A n \in DOMAIN bs : bs[n] \in AnyBlocks
  BY IsWithin
<1>4. [n \in DOMAIN bs |-> BlockItems(who, bs[n])] = Map(Itemized(who), bs)
  BY <1>1, <1>3 DEF Map
<1>5. ItemsOf(who, bs) = FlattenSeq([n \in DOMAIN bs |-> BlockItems(who, bs[n])])
  BY DEF ItemsOf, Each
<1>6. Nested(Map(Itemized(who), bs)) /\ Sequence(Bind(Itemized(who), bs))
  BY <1>2, <1>3, Bound
<1>7. QED
  BY <1>1, <1>2, <1>3, <1>4, <1>5, <1>6 DEF Bind

LEMMA ItemsNothing == \A who : ItemsOf(who, <<>>) = <<>>
<1> SUFFICES ASSUME NEW who PROVE ItemsOf(who, <<>>) = <<>>
  OBVIOUS
<1>1. <<>> \in Seq(AnyBlocks)
  OBVIOUS
<1>2. ItemsOf(who, <<>>) = Bind(Itemized(who), <<>>)
  BY <1>1, ItemsBound
<1>3. QED
  BY <1>2, BindNothing

LEMMA ItemsMore ==
  ASSUME NEW who, NEW bs \in Seq(AnyBlocks), NEW b \in AnyBlocks
  PROVE  /\ ItemsOf(who, <<>>) = <<>> /\ ItemsOf(who, <<b>>) = BlockItems(who, b)
         /\ ItemsOf(who, Append(bs, b)) = ItemsOf(who, bs) \o BlockItems(who, b)
<1>1. <<>> \in Seq(AnyBlocks) /\ <<b>> \in Seq(AnyBlocks) /\ Append(bs, b) \in Seq(AnyBlocks)
  OBVIOUS
<1>2. /\ ItemsOf(who, <<>>) = Bind(Itemized(who), <<>>)
      /\ ItemsOf(who, <<b>>) = Bind(Itemized(who), <<b>>)
      /\ ItemsOf(who, bs) = Bind(Itemized(who), bs)
      /\ ItemsOf(who, Append(bs, b)) = Bind(Itemized(who), Append(bs, b))
      /\ Sequence(bs)
  BY <1>1, ItemsBound
<1>3. \A c \in AnyBlocks : Itemized(who)[c] = BlockItems(who, c) /\ Sequence(Itemized(who)[c])
  BY ItemsBound
<1>4. \A c \in Range(bs) : Sequence(Itemized(who)[c])
  BY <1>3, IsWithin
<1>5. Bind(Itemized(who), Append(bs, b)) = Bind(Itemized(who), bs) \o Itemized(who)[b]
  BY <1>2, <1>3, <1>4, BindMore
<1>6. Bind(Itemized(who), <<b>>) = Itemized(who)[b]
  BY <1>3, BindOne
<1>7. Bind(Itemized(who), <<>>) = <<>>
  BY BindNothing
<1>8. QED
  BY <1>2, <1>3, <1>5, <1>6, <1>7

LEMMA ItemsJoined ==
  ASSUME NEW who, NEW s \in Seq(AnyBlocks), NEW t \in Seq(AnyBlocks)
  PROVE  ItemsOf(who, s \o t) = ItemsOf(who, s) \o ItemsOf(who, t)
<1>1. s \o t \in Seq(AnyBlocks)
  OBVIOUS
<1>2. /\ ItemsOf(who, s) = Bind(Itemized(who), s) /\ ItemsOf(who, t) = Bind(Itemized(who), t)
      /\ ItemsOf(who, s \o t) = Bind(Itemized(who), s \o t) /\ Sequence(s) /\ Sequence(t)
      /\ \A c \in AnyBlocks : Sequence(Itemized(who)[c])
  BY <1>1, ItemsBound
<1>3. \A c \in Range(s) \cup Range(t) : Sequence(Itemized(who)[c])
  BY <1>2, IsWithin
<1>4. Bind(Itemized(who), s \o t) = Bind(Itemized(who), s) \o Bind(Itemized(who), t)
  BY <1>2, <1>3, BindJoined
<1>5. QED
  BY <1>2, <1>4

-----------------------------------------------------------------------------
(***************************************************************************)
(* What redaction makes of the items.                                      *)
(***************************************************************************)

\* Items that stay as they are, one by one or together.
LEMMA AlreadySo ==
  ASSUME NEW s, Sequence(s)
  PROVE  /\ Redacted(s) = s <=> \A it \in Range(s) : RedactItem(it) = it
         /\ Emptied(s) = s <=> \A it \in Range(s) : EmptyItem(it) = it
<1>1. /\ Len(s) \in Nat /\ DOMAIN s = 1 .. Len(s)
      /\ \A it : it \in Range(s) <=> \E n \in 1 .. Len(s) : it = s[n]
  BY Elements DEF Range
<1>2. /\ Redacted(s) = Map(Redacting(Range(s)), s) /\ Emptied(s) = Map(Emptying(Range(s)), s)
  BY RedactedMap, EmptiedMap
<1>3. /\ Sequence(Redacted(s)) /\ Len(Redacted(s)) = Len(s)
      /\ \A n \in 1 .. Len(s) : Redacted(s)[n] = Redacting(Range(s))[s[n]]
  BY <1>2, Mapped
<1>4. /\ Sequence(Emptied(s)) /\ Len(Emptied(s)) = Len(s)
      /\ \A n \in 1 .. Len(s) : Emptied(s)[n] = Emptying(Range(s))[s[n]]
  BY <1>2, Mapped
<1>5. /\ \A n \in 1 .. Len(s) : Redacted(s)[n] = RedactItem(s[n])
      /\ \A n \in 1 .. Len(s) : Emptied(s)[n] = EmptyItem(s[n])
  BY <1>1, <1>3, <1>4 DEF Redacting, Emptying
<1>6. ASSUME Redacted(s) = s PROVE \A it \in Range(s) : RedactItem(it) = it
  BY <1>1, <1>5, <1>6
<1>7. ASSUME Emptied(s) = s PROVE \A it \in Range(s) : EmptyItem(it) = it
  BY <1>1, <1>5, <1>7
<1>8. ASSUME \A it \in Range(s) : RedactItem(it) = it PROVE Redacted(s) = s
  <2>1. \A n \in 1 .. Len(s) : Redacted(s)[n] = s[n]
    BY <1>1, <1>5, <1>8
  <2>2. QED
    BY <1>3, <2>1, SameSequence
<1>9. ASSUME \A it \in Range(s) : EmptyItem(it) = it PROVE Emptied(s) = s
  <2>1. \A n \in 1 .. Len(s) : Emptied(s)[n] = s[n]
    BY <1>1, <1>5, <1>9
  <2>2. QED
    BY <1>4, <2>1, SameSequence
<1>10. QED
  BY <1>6, <1>7, <1>8, <1>9

LEMMA WordIs ==
  ASSUME NEW who, NEW x
  PROVE  /\ Word(who, x).class = <<who, "text">> /\ Word(who, x).what.text = <<x>>
         /\ FlattenItem(Word(who, x)) = Word(who, x) /\ EmptyItem(Word(who, x)) = Word(who, x)
<1>1. /\ Word(who, x).class = <<who, "text">>
      /\ FlattenItem(Word(who, x)) = Word(who, x) /\ EmptyItem(Word(who, x)) = Word(who, x)
  BY KindKept DEF Word
<1>2. QED
  BY <1>1, WordRedacted

LEMMA SaidStays ==
  ASSUME NEW who, NEW t \in Seq(Words)
  PROVE  /\ Emptied(Said(who, t)) = Said(who, t) /\ Plain(Said(who, t)) = Said(who, t)
         /\ \A u \in Seq(Words) : Said(who, u) = Said(who, t) => u = t
<1>1. Sequence(Said(who, t)) /\ \A it \in Range(Said(who, t)) : FlattenItem(it) = it /\ EmptyItem(it) = it
  BY SaidMap, WordIs
<1>2. Emptied(Said(who, t)) = Said(who, t)
  BY <1>1, AlreadySo
<1>3. Plain(Said(who, t)) = Said(who, t)
  BY <1>1, PlainAlready
<1>4. ASSUME NEW u \in Seq(Words), Said(who, u) = Said(who, t) PROVE u = t
  <2>1. /\ Said(who, u) = [k \in DOMAIN u |-> Word(who, u[k])]
        /\ Said(who, t) = [k \in DOMAIN t |-> Word(who, t[k])]
    BY DEF Said, Word
  <2>2. DOMAIN u = DOMAIN t /\ \A k \in DOMAIN t : Word(who, u[k]) = Word(who, t[k])
    BY <1>4, <2>1
  <2>3. \A k \in DOMAIN t : <<u[k]>> = <<t[k]>>
    BY <2>2, WordIs
  <2>4. \A k \in DOMAIN t : u[k] = t[k]
    BY <2>3
  <2>5. Len(u) = Len(t) /\ DOMAIN t = 1 .. Len(t) /\ Sequence(u) /\ Sequence(t)
    BY <2>2, IsSequence
  <2>6. QED
    BY <2>4, <2>5, SameSequence
<1>5. QED
  BY <1>2, <1>3, <1>4

LEMMA Raised ==
  ASSUME NEW b \in AnyBlocks, b.type = "tool_result"
  PROVE  /\ b.i \in Int /\ b.content \in Raws(ResultKinds) /\ FlattenContent(b.content) \in Seq(Words)
         /\ \A who : BlockItems(who, b) = <<Item(who, "result", ToolResult(b.i, b.content))>>
         /\ \A t \in Seq(Words) : /\ ToolResult(b.i, Str(t)) \in AnyBlocks
                                  /\ ToolResult(b.i, Str(t)).type = "tool_result"
                                  /\ \A who : BlockItems(who, ToolResult(b.i, Str(t))) = <<ResultItem(who, b.i, t)>>
<1> DEFINE R == Raws(ResultKinds)
<1>1. b.i \in Int /\ b.content \in R /\ b = ToolResult(b.i, b.content)
  BY BlockKinds
<1>2. FlattenContent(b.content) \in Seq(Words)
  <2>1. ResultKinds \in SUBSET AnyBlocks
    BY DEF ResultKinds, AnyBlocks, Blocks
  <2>2. QED
    BY <1>1, <2>1, FlattenTyped
<1>3. \A who : BlockItems(who, b) = <<Item(who, "result", ToolResult(b.i, b.content))>>
  BY <1>1, BlockIs
<1>4. ASSUME NEW t \in Seq(Words)
      PROVE  LET c == ToolResult(b.i, Str(t))
             IN  c \in AnyBlocks /\ c.type = "tool_result" /\ \A who : BlockItems(who, c) = <<ResultItem(who, b.i, t)>>
  <2> DEFINE c == ToolResult(b.i, Str(t))
  <2>1. Str(t) \in R
    BY RawForms
  <2> HIDE DEF R
  <2>2. c.type = "tool_result" /\ c \in [type : {"tool_result"}, i : Int, content : R]
    BY <1>1, <2>1 DEF ToolResult
  <2>3. c \in AnyBlocks
    BY <2>2 DEF AnyBlocks, Blocks, ToolResults, R, ResultKinds
  <2> HIDE DEF c
  <2>4. \A who : BlockItems(who, c) = <<Item(who, "result", c)>>
    BY <2>2, BlockIs
  <2>5. QED
    BY <2>2, <2>3, <2>4 DEF c, ResultItem
<1>5. QED
  BY <1>1, <1>2, <1>3, <1>4

\* What is neither words nor a result.
LEMMA BlockStays ==
  ASSUME NEW b \in AnyBlocks, b.type \notin {"text", "tool_result"}, NEW who,
         NEW it \in Range(BlockItems(who, b))
  PROVE  RedactItem(it) = it
<1>1. CASE b.type \in OtherTypes
  <2>1. b = Other(b.type, b.text) /\ BlockItems(who, b) = <<Item(who, "other", b)>>
    BY <1>1, BlockKinds, BlockIs
  <2>2. it = Item(who, "other", b)
    BY <2>1, RangeOne
  <2>3. QED
    BY <2>1, <2>2, OtherKept
<1>2. CASE b.type \notin OtherTypes
  <2>1. b.type \in {"tool_use", "image", "image_url"}
    BY <1>2, BlockKinds DEF BlockTypes
  <2>2. \/ BlockItems(who, b) = <<>>
        \/ \E kind \in {"call", "picture"} : \E what : BlockItems(who, b) = <<Item(who, kind, what)>>
    BY <2>1, BlockIs
  <2>3. Range(<<>>) = {}
    BY DEF Range
  <2>4. PICK kind \in {"call", "picture"} : \E what : BlockItems(who, b) = <<Item(who, kind, what)>>
    BY <2>2, <2>3
  <2>5. PICK what : BlockItems(who, b) = <<Item(who, kind, what)>>
    BY <2>4
  <2>6. it = Item(who, kind, what)
    BY <2>5, RangeOne
  <2>7. QED
    BY <2>6, KindKept
<1>3. QED
  BY <1>1, <1>2

LEMMA BlockRedacted ==
  ASSUME NEW b \in AnyBlocks, NEW who
  PROVE  /\ RedactBlock(b) \in AnyBlocks /\ RedactBlock(b).type = b.type
         /\ BlockItems(who, RedactBlock(b)) = Redacted(BlockItems(who, b))
         /\ Redacted(BlockItems(who, b)) = BlockItems(who, b) => RedactBlock(b) = b
<1>1. \A it : Redacted(<<it>>) = <<RedactItem(it)>>
  BY DEF Redacted
<1>2. CASE b.type = "text"
  <2>1. b.text \in Seq(Words) /\ b = TextBlock(b.text) /\ RedactBlock(b) = TextBlock(Redact(b.text))
    BY <1>2, BlockKinds DEF RedactBlock
  <2>2. Redact(b.text) \in Seq(Words)
    BY <2>1, RedactTyped
  <2> DEFINE t == Redact(b.text)
             c == TextBlock(t)
  <2> HIDE DEF t
  <2>3. c \in AnyBlocks /\ c.type = "text" /\ c.text = t
    BY <2>2, TextBlockKind DEF t
  <2> HIDE DEF c
  <2>4. BlockItems(who, c) = Said(who, t)
    BY <2>3, BlockIs
  <2>5. BlockItems(who, b) = Said(who, b.text)
    BY <1>2, BlockIs
  <2>6. Redacted(Said(who, b.text)) = Said(who, t)
    BY <2>1, SaidRedacted DEF t
  <2>7. Said(who, t) = Said(who, b.text) => t = b.text
    BY <2>1, <2>2, SaidStays DEF t
  <2>8. t = b.text => c = b
    BY <2>1 DEF c
  <2>9. RedactBlock(b) = c
    BY <2>1 DEF c, t
  <2>10. QED
    BY <1>2, <2>3, <2>4, <2>5, <2>6, <2>7, <2>8, <2>9
<1>3. CASE b.type = "tool_result"
  <2> DEFINE f == FlattenContent(b.content)
             t == Redact(f)
             c == ToolResult(b.i, Str(t))
             it == Item(who, "result", ToolResult(b.i, b.content))
  <2>1. RedactBlock(b) = c /\ b = ToolResult(b.i, b.content)
    BY <1>3, BlockKinds DEF RedactBlock
  <2>2. f \in Seq(Words) /\ BlockItems(who, b) = <<it>>
    BY <1>3, Raised
  <2>3. RedactItem(it) = ResultItem(who, b.i, t)
    BY ResultKept
  <2> HIDE DEF f
  <2>4. t \in Seq(Words)
    BY <2>2, RedactTyped
  <2> HIDE DEF t
  <2>5. c \in AnyBlocks /\ c.type = "tool_result" /\ BlockItems(who, c) = <<ResultItem(who, b.i, t)>>
    BY <1>3, <2>4, Raised
  <2>6. ResultItem(who, b.i, t) = it => c = ToolResult(b.i, b.content)
    BY DEF ResultItem, Item
  <2> HIDE DEF c, it
  <2>7. Redacted(<<it>>) = <<ResultItem(who, b.i, t)>>
    BY <1>1, <2>3
  <2>8. <<ResultItem(who, b.i, t)>> = <<it>> => ResultItem(who, b.i, t) = it
    OBVIOUS
  <2>9. QED
    BY <1>3, <2>1, <2>2, <2>5, <2>6, <2>7, <2>8
<1>4. CASE b.type \notin {"text", "tool_result"}
  <2>1. RedactBlock(b) = b
    BY <1>4 DEF RedactBlock
  <2>2. \A it \in Range(BlockItems(who, b)) : RedactItem(it) = it
    BY <1>4, BlockStays
  <2>3. Sequence(BlockItems(who, b))
    BY BlockItemsListed
  <2>4. Redacted(BlockItems(who, b)) = BlockItems(who, b)
    BY <2>2, <2>3, AlreadySo
  <2>5. QED
    BY <2>1, <2>4
<1>5. QED
  BY <1>2, <1>3, <1>4

LEMMA BlockRewritten ==
  ASSUME NEW b \in AnyBlocks, NEW who
  PROVE  /\ Rewritten(b) \in AnyBlocks /\ Rewritten(b).type = b.type
         /\ BlockItems(who, Rewritten(b)) = Emptied(BlockItems(who, b))
         /\ TextIn(Rewritten(b)) = TextIn(b)
<1>1. CASE b.type \in OtherTypes
  <2> DEFINE c == Other(b.type, <<>>)
  <2>1. b = Other(b.type, b.text) /\ Rewritten(b) = c /\ <<>> \in Seq(Words)
    BY <1>1, BlockKinds DEF Rewritten
  <2>2. c \in Others /\ c.type = b.type
    BY <1>1, <2>1 DEF Other, Others
  <2>3. c \in AnyBlocks
    BY <2>2 DEF AnyBlocks, Blocks
  <2>4. EmptyItem(Item(who, "other", b)) = Item(who, "other", c)
    BY <2>1, OtherKept
  <2> HIDE DEF c
  <2>5. BlockItems(who, c) = <<Item(who, "other", c)>> /\ BlockItems(who, b) = <<Item(who, "other", b)>>
    BY <1>1, <2>2, BlockIs
  <2>6. \A it : Emptied(<<it>>) = <<EmptyItem(it)>>
    BY DEF Emptied
  <2>7. BlockItems(who, c) = Emptied(BlockItems(who, b))
    BY <2>4, <2>5, <2>6
  <2>8. TextIn(c) = <<>> /\ TextIn(b) = <<>>
    BY <1>1, <2>2 DEF TextIn, OtherTypes
  <2>9. QED
    BY <2>1, <2>2, <2>3, <2>7, <2>8
<1>2. CASE b.type \notin OtherTypes
  <2>1. Rewritten(b) = b
    BY <1>2 DEF Rewritten
  <2>2. Emptied(BlockItems(who, b)) = BlockItems(who, b)
    <3>1. CASE b.type = "text"
      <4>1. b.text \in Seq(Words) /\ BlockItems(who, b) = Said(who, b.text)
        BY <3>1, BlockKinds, BlockIs
      <4>2. QED
        BY <4>1, SaidStays
    <3>2. CASE b.type # "text"
      <4>1. b.type \in {"tool_use", "image", "image_url", "tool_result"}
        BY <1>2, <3>2, BlockKinds DEF BlockTypes
      <4>2. b.type = "tool_result" => b = ToolResult(b.i, b.content)
        BY BlockKinds
      <4>3. \/ BlockItems(who, b) = <<>>
            \/ \E kind \in {"call", "picture"} : \E what : BlockItems(who, b) = <<Item(who, kind, what)>>
            \/ BlockItems(who, b) = <<Item(who, "result", ToolResult(b.i, b.content))>>
        BY <4>1, <4>2, BlockIs
      <4>4. \A it : Emptied(<<it>>) = <<EmptyItem(it)>>
        BY DEF Emptied
      <4>5. Emptied(<<>>) = <<>>
        BY DEF Emptied
      <4>6. \A kind \in {"call", "picture"} : \A what : EmptyItem(Item(who, kind, what)) = Item(who, kind, what)
        BY KindKept
      <4>7. EmptyItem(Item(who, "result", ToolResult(b.i, b.content))) = Item(who, "result", ToolResult(b.i, b.content))
        BY ResultKept
      <4>8. QED
        BY <4>3, <4>4, <4>5, <4>6, <4>7
    <3>3. QED
      BY <3>1, <3>2
  <2>3. QED
    BY <2>1, <2>2
<1>3. QED
  BY <1>1, <1>2

\* What is the same blocks redacted has the same items redacted.
LEMMA RedactedBlocks ==
  ASSUME NEW who, NEW s \in Seq(AnyBlocks), NEW t, t = [n \in DOMAIN s |-> RedactBlock(s[n])]
  PROVE  /\ t \in Seq(AnyBlocks) /\ Len(t) = Len(s) /\ \A n \in 1 .. Len(s) : t[n] = RedactBlock(s[n])
         /\ ItemsOf(who, t) = Redacted(ItemsOf(who, s))
         /\ t = s <=> Redacted(ItemsOf(who, s)) = ItemsOf(who, s)
<1>1. Len(s) \in Nat /\ DOMAIN s = 1 .. Len(s) /\ \A n \in 1 .. Len(s) : s[n] \in AnyBlocks
  OBVIOUS
<1>2. \A n \in 1 .. Len(s) : /\ RedactBlock(s[n]) \in AnyBlocks
                             /\ BlockItems(who, RedactBlock(s[n])) = Redacted(BlockItems(who, s[n]))
  BY <1>1, BlockRedacted
<1>3. t \in [1 .. Len(s) -> AnyBlocks] /\ \A n \in 1 .. Len(s) : t[n] = RedactBlock(s[n])
  BY <1>1, <1>2
<1>4. t \in Seq(AnyBlocks) /\ Len(t) = Len(s) /\ DOMAIN t = DOMAIN s
  BY <1>1, <1>3
<1> DEFINE f == [n \in DOMAIN s |-> BlockItems(who, s[n])]
<1>5. ItemsOf(who, s) = FlattenSeq(f) /\ Nested(f)
  BY ItemsBound
<1>6. DOMAIN f = DOMAIN s /\ Len(f) = Len(s) /\ \A n \in DOMAIN s : f[n] = BlockItems(who, s[n])
  BY <1>1
<1>7. ItemsOf(who, t) = FlattenSeq([n \in DOMAIN t |-> BlockItems(who, t[n])])
  BY <1>4, ItemsBound
<1> HIDE DEF f
<1>8. Redacted(FlattenSeq(f)) = FlattenSeq([n \in DOMAIN f |-> Redacted(f[n])])
  BY <1>5, RedactedFlat
<1>9. [n \in DOMAIN t |-> BlockItems(who, t[n])] = [n \in DOMAIN f |-> Redacted(f[n])]
  BY <1>1, <1>2, <1>3, <1>4, <1>6
<1>10. ItemsOf(who, t) = Redacted(ItemsOf(who, s))
  BY <1>5, <1>7, <1>8, <1>9
<1>11. ASSUME Redacted(ItemsOf(who, s)) = ItemsOf(who, s) PROVE t = s
  <2>1. \A it \in Range(FlattenSeq(f)) : RedactItem(it) = it
    <3>1. Sequence(FlattenSeq(f))
      BY <1>5, FirstLists
    <3>2. QED
      BY <1>5, <1>11, <3>1, AlreadySo
  <2>2. ASSUME NEW n \in 1 .. Len(s) PROVE t[n] = s[n]
    <3>1. Range(f[n]) \subseteq Range(FlattenSeq(f)) /\ Sequence(f[n])
      BY <1>5, <1>6, FlatRange DEF Nested
    <3>2. Redacted(f[n]) = f[n]
      BY <2>1, <3>1, AlreadySo
    <3>3. RedactBlock(s[n]) = s[n]
      BY <1>1, <1>6, <3>2, BlockRedacted
    <3>4. QED
      BY <1>3, <3>3
  <2>3. Sequence(s) /\ Sequence(t)
    BY <1>4, IsSequence
  <2>4. QED
    BY <1>4, <2>2, <2>3, SameSequence
<1>12. QED
  BY <1>3, <1>4, <1>10, <1>11

LEMMA RewrittenBlocks ==
  ASSUME NEW who, NEW s \in Seq(AnyBlocks), NEW t, t = [n \in DOMAIN s |-> Rewritten(s[n])]
  PROVE  /\ t \in Seq(AnyBlocks) /\ Len(t) = Len(s) /\ \A n \in 1 .. Len(s) : t[n] = Rewritten(s[n])
         /\ ItemsOf(who, t) = Emptied(ItemsOf(who, s))
<1>1. Len(s) \in Nat /\ DOMAIN s = 1 .. Len(s) /\ \A n \in 1 .. Len(s) : s[n] \in AnyBlocks
  OBVIOUS
<1>2. \A n \in 1 .. Len(s) : /\ Rewritten(s[n]) \in AnyBlocks
                             /\ BlockItems(who, Rewritten(s[n])) = Emptied(BlockItems(who, s[n]))
  BY <1>1, BlockRewritten
<1>3. t \in [1 .. Len(s) -> AnyBlocks] /\ \A n \in 1 .. Len(s) : t[n] = Rewritten(s[n])
  BY <1>1, <1>2
<1>4. t \in Seq(AnyBlocks) /\ Len(t) = Len(s) /\ DOMAIN t = DOMAIN s
  BY <1>1, <1>3
<1> DEFINE f == [n \in DOMAIN s |-> BlockItems(who, s[n])]
<1>5. ItemsOf(who, s) = FlattenSeq(f) /\ Nested(f)
  BY ItemsBound
<1>6. DOMAIN f = DOMAIN s /\ \A n \in DOMAIN s : f[n] = BlockItems(who, s[n])
  OBVIOUS
<1>7. ItemsOf(who, t) = FlattenSeq([n \in DOMAIN t |-> BlockItems(who, t[n])])
  BY <1>4, ItemsBound
<1> HIDE DEF f
<1>8. Emptied(FlattenSeq(f)) = FlattenSeq([n \in DOMAIN f |-> Emptied(f[n])])
  BY <1>5, EmptiedFlat
<1>9. [n \in DOMAIN t |-> BlockItems(who, t[n])] = [n \in DOMAIN f |-> Emptied(f[n])]
  BY <1>1, <1>2, <1>3, <1>4, <1>6
<1>10. QED
  BY <1>3, <1>4, <1>5, <1>7, <1>8, <1>9

LEMMA StrItems ==
  ASSUME NEW who, NEW t \in Seq(Words)
  PROVE  /\ ItemsOf(who, BlocksFromRaw(Str(t))) = Said(who, t)
         /\ ItemsOf(who, <<TextBlock(t)>>) = Said(who, t)
<1>1. TextBlock(t) \in AnyBlocks /\ TextBlock(t).type = "text" /\ TextBlock(t).text = t
  BY TextBlockKind
<1>2. BlocksFromRaw(Str(t)) = IF t = <<>> THEN <<>> ELSE <<TextBlock(t)>>
  BY RawForms DEF BlocksFromRaw
<1>3. <<>> \in Seq(AnyBlocks)
  OBVIOUS
<1>4. ItemsOf(who, <<>>) = <<>> /\ ItemsOf(who, <<TextBlock(t)>>) = BlockItems(who, TextBlock(t))
  BY <1>1, <1>3, ItemsMore
<1>5. BlockItems(who, TextBlock(t)) = Said(who, t)
  BY <1>1, BlockIs
<1>6. t = <<>> => Said(who, t) = <<>>
  BY SaidNothing
<1>7. QED
  BY <1>2, <1>4, <1>5, <1>6

\* What a provider gets of a turn's items.
Got(items) == IF Redacted(items) = items THEN items ELSE Emptied(Redacted(items))

LEMMA ContentRedacted ==
  ASSUME NEW who, NEW raw \in Raws(Blocks)
  PROVE  /\ RedactContent(raw) \in Raws(Blocks)
         /\ ContentItems(who, RedactContent(raw)) = Got(ContentItems(who, raw))
<1>1. \A r : ContentItems(who, r) = ItemsOf(who, BlocksFromRaw(r))
  BY DEF ContentItems, ItemsOf
<1> DEFINE old == BlocksFromRaw(raw)
           new == [n \in DOMAIN old |-> RedactBlock(old[n])]
           list == [n \in DOMAIN new |-> Rewritten(new[n])]
<1>2. Blocks \in SUBSET AnyBlocks /\ TextBlocks \subseteq Blocks
  BY DEF AnyBlocks, Blocks
<1>3. old \in Seq(Blocks) /\ old \in Seq(AnyBlocks)
  <2>1. old \in Seq(Blocks \cup TextBlocks) /\ Blocks \cup TextBlocks = Blocks /\ old \in Seq(AnyBlocks)
    BY <1>2, BlocksOf
  <2>2. QED
    BY <2>1
<1>4. RedactContent(raw) = IF new = old THEN raw
                           ELSE IF Len(new) = 1 /\ new[1].type = "text" THEN Str(new[1].text)
                           ELSE List(list)
  BY DEF RedactContent
<1> HIDE DEF old
<1>5. /\ new \in Seq(AnyBlocks) /\ Len(new) = Len(old) /\ \A n \in 1 .. Len(old) : new[n] = RedactBlock(old[n])
      /\ ItemsOf(who, new) = Redacted(ItemsOf(who, old))
      /\ new = old <=> Redacted(ItemsOf(who, old)) = ItemsOf(who, old)
  BY <1>3, RedactedBlocks
<1> HIDE DEF new
<1>6. Len(old) \in Nat /\ \A n \in 1 .. Len(old) : old[n] \in Blocks /\ old[n] \in AnyBlocks
  BY <1>3
<1>7. /\ new = old => Got(ContentItems(who, raw)) = ContentItems(who, raw)
      /\ new # old => Got(ContentItems(who, raw)) = Emptied(ItemsOf(who, new))
  BY <1>1, <1>5 DEF old, Got
<1>8. CASE new = old
  BY <1>4, <1>7, <1>8
<1>9. CASE new # old /\ Len(new) = 1 /\ new[1].type = "text"
  <2> DEFINE c == new[1]
             t == c.text
  <2>1. c \in AnyBlocks /\ c.type = "text" /\ new = <<c>>
    <3>1. Sequence(new) /\ Sequence(<<c>>) /\ Len(<<c>>) = 1 /\ <<c>>[1] = c
      BY <1>5, IsSequence, Listing
    <3>2. new = <<c>>
      BY <1>9, <3>1, SameSequence
    <3>3. QED
      BY <1>5, <1>9, <3>2
  <2>2. t \in Seq(Words) /\ c = TextBlock(t)
    BY <2>1, BlockKinds
  <2>3. RedactContent(raw) = Str(t)
    BY <1>4, <1>9
  <2> HIDE DEF c, t
  <2>4. Str(t) \in Raws(Blocks)
    BY <2>2, RawForms
  <2>5. ItemsOf(who, BlocksFromRaw(Str(t))) = Said(who, t) /\ ItemsOf(who, <<TextBlock(t)>>) = Said(who, t)
    BY <2>2, StrItems
  <2>6. Emptied(Said(who, t)) = Said(who, t)
    BY <2>2, SaidStays
  <2>7. ItemsOf(who, new) = Said(who, t)
    BY <2>1, <2>2, <2>5
  <2>8. QED
    BY <1>1, <1>7, <1>9, <2>3, <2>4, <2>5, <2>6, <2>7
<1>10. CASE new # old /\ ~(Len(new) = 1 /\ new[1].type = "text")
  <2>1. RedactContent(raw) = List(list)
    BY <1>4, <1>10
  <2>2. /\ list \in Seq(AnyBlocks) /\ Len(list) = Len(new) /\ \A n \in 1 .. Len(new) : list[n] = Rewritten(new[n])
        /\ ItemsOf(who, list) = Emptied(ItemsOf(who, new))
    BY <1>5, RewrittenBlocks
  <2> HIDE DEF list
  <2>3. ASSUME NEW n \in 1 .. Len(list) PROVE list[n] \in Blocks
    <3>1. old[n] \in Blocks /\ old[n] \in AnyBlocks /\ new[n] = RedactBlock(old[n]) /\ list[n] = Rewritten(new[n])
      BY <1>5, <1>6, <2>2
    <3>2. new[n] \in AnyBlocks /\ new[n].type = old[n].type
      BY <3>1, BlockRedacted
    <3>3. list[n] \in AnyBlocks /\ list[n].type = new[n].type
      BY <3>1, <3>2, BlockRewritten
    <3>4. QED
      BY <3>1, <3>2, <3>3, KindsOf
  <2>4. list \in Seq(Blocks)
    BY <2>2, <2>3
  <2>5. List(list) \in Raws(Blocks) /\ BlocksFromRaw(List(list)) = list
    BY <2>4, RawForms DEF BlocksFromRaw
  <2>6. QED
    BY <1>1, <1>7, <1>10, <2>1, <2>2, <2>5
<1>11. QED
  BY <1>8, <1>9, <1>10

LEMMA RedactFlat ==
  ASSUME NEW ss, Nested(ss), \A n \in 1 .. Len(ss) : ss[n] \in Seq(Words)
  PROVE  Redact(FlattenSeq(ss)) = FlattenSeq([n \in DOMAIN ss |-> Redact(ss[n])])
<1> DEFINE g == [x \in Words |-> IF x \in Personal THEN "[REDACTED]" ELSE x]
           F == [s \in Seq(Words) |-> Redact(s)]
<1>1. ASSUME NEW s \in Seq(Words) PROVE Redact(s) = Map(g, s) /\ Sequence(s)
  <2>1. \A k \in DOMAIN s : s[k] \in Words
    OBVIOUS
  <2>2. \A x \in Words : g[x] = IF x \in Personal THEN "[REDACTED]" ELSE x
    OBVIOUS
  <2> HIDE DEF g
  <2>3. Redact(s) = [k \in DOMAIN s |-> g[s[k]]]
    BY <2>1, <2>2 DEF Redact
  <2>4. QED
    BY <2>3, IsSequence DEF Map
<1>2. \A s \in Seq(Words) : F[s] = Redact(s)
  OBVIOUS
<1>3. <<>> \in Seq(Words) /\ \A s, t \in Seq(Words) : s \o t \in Seq(Words)
  OBVIOUS
<1> HIDE DEF g, F
<1>4. F[<<>>] = <<>>
  BY <1>1, <1>2, <1>3, MapNothing
<1>5. ASSUME NEW s \in Seq(Words) PROVE Sequence(F[s])
  BY <1>1, <1>2, Mapped
<1>6. ASSUME NEW s \in Seq(Words), NEW t \in Seq(Words) PROVE F[s \o t] = F[s] \o F[t]
  <2>1. Map(g, s \o t) = Map(g, s) \o Map(g, t)
    BY <1>1, MapJoined
  <2>2. QED
    BY <1>1, <1>2, <1>3, <2>1
<1>7. FlattenSeq(ss) \in Seq(Words) /\ F[FlattenSeq(ss)] = FlattenSeq(Parts(F, ss))
  BY <1>4, <1>5, <1>6, PartsOf
<1>8. DOMAIN ss = 1 .. Len(ss)
  BY Elements DEF Nested
<1>9. Parts(F, ss) = [n \in DOMAIN ss |-> Redact(ss[n])]
  BY <1>2, <1>8 DEF Parts
<1>10. QED
  BY <1>2, <1>7, <1>9

LEMMA SystemRedacted ==
  ASSUME NEW raw \in Raws(TextBlocks)
  PROVE  /\ RedactSystem(raw) \in Raws(TextBlocks)
         /\ SystemText(RedactSystem(raw)) = Redact(SystemText(raw))
<1>1. TextBlocks \in SUBSET AnyBlocks
  BY DEF AnyBlocks, Blocks
<1>2. CASE SystemText(raw) = <<>>
  <2>1. RedactSystem(raw) = raw
    BY <1>2 DEF RedactSystem
  <2>2. Redact(<<>>) = <<>>
    BY DEF Redact
  <2>3. QED
    BY <1>2, <2>1, <2>2
<1>3. CASE SystemText(raw) # <<>> /\ raw.form = "string"
  <2> DEFINE t == raw.text
  <2>1. t \in Seq(Words) /\ raw = Str(t)
    BY <1>3, RawKinds
  <2>2. RedactSystem(raw) = Str(Redact(t))
    BY <1>3 DEF RedactSystem
  <2> HIDE DEF t
  <2>3. Redact(t) \in Seq(Words)
    BY <2>1, RedactTyped
  <2>4. SystemText(Str(t)) = t /\ SystemText(Str(Redact(t))) = Redact(t)
    BY <2>1, <2>3, FlattenStr
  <2>5. Str(Redact(t)) \in Raws(TextBlocks)
    BY <2>3, RawForms
  <2>6. QED
    BY <2>1, <2>2, <2>4, <2>5
<1>4. CASE SystemText(raw) # <<>> /\ raw.form # "string"
  <2>1. raw.form = "list" /\ raw.items \in Seq(TextBlocks)
    <3>1. raw.form \in {"string", "odd", "list", "absent"} /\ (raw.form = "list" => raw.items \in Seq(TextBlocks))
      BY RawKinds
    <3>2. raw.form \in {"odd", "absent"} => BlocksFromRaw(raw) = <<>>
      BY DEF BlocksFromRaw
    <3>3. Texts(<<>>) = <<>>
      BY BlocksWorded
    <3>4. QED
      BY <1>4, <3>1, <3>2, <3>3 DEF SystemText
  <2> DEFINE old == raw.items
             new == [n \in DOMAIN old |-> Rewritten(RedactBlockText(old[n]))]
             f == [n \in DOMAIN old |-> TextIn(old[n])]
  <2>2. RedactSystem(raw) = List(new)
    BY <1>4 DEF RedactSystem
  <2>3. BlocksFromRaw(raw) = old
    BY <2>1 DEF BlocksFromRaw
  <2>4. SystemText(raw) = FlattenSeq(f)
    BY <2>3 DEF SystemText, Texts
  <2>5. old \in Seq(TextBlocks)
    BY <2>1
  <2> HIDE DEF old
  <2>6. Len(old) \in Nat /\ DOMAIN old = 1 .. Len(old) /\ \A n \in 1 .. Len(old) : old[n] \in TextBlocks
    BY <2>5
  <2>7. ASSUME NEW b \in TextBlocks
        PROVE  /\ Rewritten(RedactBlockText(b)) \in TextBlocks /\ TextIn(b) \in Seq(Words) /\ Sequence(TextIn(b))
               /\ TextIn(Rewritten(RedactBlockText(b))) = Redact(TextIn(b))
    <3> DEFINE c == TextBlock(Redact(b.text))
    <3>1. b.type = "text" /\ b.text \in Seq(Words) /\ TextIn(b) = b.text
      BY DEF TextBlocks, TextIn
    <3>2. RedactBlockText(b) = c
      BY <3>1 DEF RedactBlockText
    <3>3. Redact(b.text) \in Seq(Words)
      BY <3>1, RedactTyped
    <3>4. c \in TextBlocks /\ c.type = "text" /\ c.text = Redact(b.text)
      BY <3>3, TextBlockKind
    <3> HIDE DEF c
    <3>5. Rewritten(c) = c
      BY <3>4 DEF Rewritten, OtherTypes
    <3>6. TextIn(c) = Redact(b.text)
      BY <3>4 DEF TextIn
    <3>7. QED
      BY <3>1, <3>2, <3>4, <3>5, <3>6, IsSequence
  <2>8. new \in [1 .. Len(old) -> TextBlocks]
    BY <2>6, <2>7
  <2>9. \A n \in 1 .. Len(old) : new[n] = Rewritten(RedactBlockText(old[n])) /\ f[n] = TextIn(old[n])
    BY <2>6
  <2>10. f = [n \in 1 .. Len(old) |-> f[n]] /\ DOMAIN f = 1 .. Len(old)
    BY <2>6
  <2> HIDE DEF new, f
  <2>11. new \in Seq(TextBlocks) /\ DOMAIN new = 1 .. Len(old)
    BY <2>6, <2>8
  <2>12. List(new) \in Raws(TextBlocks) /\ BlocksFromRaw(List(new)) = new
    BY <2>11, RawForms DEF BlocksFromRaw
  <2>13. SystemText(List(new)) = FlattenSeq([n \in DOMAIN new |-> TextIn(new[n])])
    BY <2>12 DEF SystemText, Texts
  <2>14. \A n \in 1 .. Len(old) : f[n] \in Seq(Words) /\ Sequence(f[n])
    BY <2>6, <2>7, <2>9
  <2>15. Nested(f) /\ Len(f) = Len(old)
    BY <2>6, <2>10, <2>14, ListOf
  <2>16. Redact(FlattenSeq(f)) = FlattenSeq([n \in DOMAIN f |-> Redact(f[n])])
    BY <2>14, <2>15, RedactFlat
  <2>17. [n \in DOMAIN new |-> TextIn(new[n])] = [n \in DOMAIN f |-> Redact(f[n])]
    BY <2>6, <2>7, <2>9, <2>10, <2>11
  <2>18. QED
    BY <2>2, <2>4, <2>12, <2>13, <2>16, <2>17
<1>5. QED
  BY <1>2, <1>3, <1>4

\* The turns of a message.
TurnItemsOf(ms) == Each(LAMBDA am : ContentItems(am.role, am.content), ms)

LEMMA TurnKinds ==
  ASSUME NEW am \in Turns
  PROVE  /\ am = [role |-> am.role, content |-> am.content] /\ am.role \in {"user", "assistant"}
         /\ am.content \in Raws(Blocks)
         /\ BlocksFromRaw(am.content) \in Seq(Blocks) /\ BlocksFromRaw(am.content) \in Seq(AnyBlocks)
         /\ ContentItems(am.role, am.content) = ItemsOf(am.role, BlocksFromRaw(am.content))
         /\ Sequence(ContentItems(am.role, am.content))
<1> DEFINE R == Raws(Blocks)
<1>1. Turns = [role : {"user", "assistant"}, content : R]
  BY DEF Turns
<1> HIDE DEF R
<1>2. am = [role |-> am.role, content |-> am.content] /\ am.role \in {"user", "assistant"} /\ am.content \in R
  BY <1>1
<1>3. Blocks \in SUBSET AnyBlocks /\ Blocks \cup TextBlocks = Blocks
  BY DEF Blocks, AnyBlocks
<1>4. BlocksFromRaw(am.content) \in Seq(Blocks) /\ BlocksFromRaw(am.content) \in Seq(AnyBlocks)
  <2>1. BlocksFromRaw(am.content) \in Seq(Blocks \cup TextBlocks) /\ BlocksFromRaw(am.content) \in Seq(AnyBlocks)
    BY <1>2, <1>3, BlocksOf DEF R
  <2>2. QED
    BY <1>3, <2>1
<1>5. ContentItems(am.role, am.content) = ItemsOf(am.role, BlocksFromRaw(am.content))
  BY DEF ContentItems, ItemsOf
<1>6. Sequence(ContentItems(am.role, am.content))
  BY <1>4, <1>5, ItemsBound, ZenonT(60)
<1>7. QED
  BY <1>2, <1>4, <1>5, <1>6 DEF R

LEMMA TurnsOf ==
  ASSUME NEW ms \in Seq(Turns)
  PROVE  LET f == [n \in DOMAIN ms |-> ContentItems(ms[n].role, ms[n].content)]
         IN  /\ TurnItemsOf(ms) = FlattenSeq(f) /\ Nested(f) /\ Len(f) = Len(ms)
             /\ Sequence(TurnItemsOf(ms)) /\ DOMAIN f = DOMAIN ms
<1> DEFINE f == [n \in DOMAIN ms |-> ContentItems(ms[n].role, ms[n].content)]
<1>1. TurnItemsOf(ms) = FlattenSeq(f)
  BY DEF TurnItemsOf, Each
<1>2. Len(ms) \in Nat /\ DOMAIN ms = 1 .. Len(ms) /\ \A n \in 1 .. Len(ms) : ms[n] \in Turns
  OBVIOUS
<1>3. DOMAIN f = 1 .. Len(ms) /\ \A n \in 1 .. Len(ms) : f[n] = ContentItems(ms[n].role, ms[n].content)
  BY <1>2
<1>4. f = [n \in 1 .. Len(ms) |-> f[n]]
  BY <1>2
<1> HIDE DEF f
<1>5. \A n \in 1 .. Len(ms) : Sequence(f[n])
  BY <1>2, <1>3, TurnKinds
<1>6. Nested(f) /\ Len(f) = Len(ms) /\ Sequence(FlattenSeq(f))
  BY <1>2, <1>4, <1>5, ListOf
<1>7. QED
  BY <1>1, <1>2, <1>3, <1>6 DEF f

LEMMA TurnsRedacted ==
  ASSUME NEW ms \in Seq(Turns), NEW rs, rs = [n \in DOMAIN ms |-> RedactTurn(ms[n])]
  PROVE  /\ rs \in Seq(Turns) /\ TurnItemsOf(rs) = Each(TurnGot, ms)
<1>1. Len(ms) \in Nat /\ DOMAIN ms = 1 .. Len(ms) /\ \A n \in 1 .. Len(ms) : ms[n] \in Turns
  OBVIOUS
<1>2. ASSUME NEW am \in Turns
      PROVE  LET rm == RedactTurn(am)
             IN  rm \in Turns /\ ContentItems(rm.role, rm.content) = TurnGot(am)
  <2> DEFINE rm == RedactTurn(am)
             R == Raws(Blocks)
  <2>1. /\ am = [role |-> am.role, content |-> am.content] /\ am.role \in {"user", "assistant"}
        /\ am.content \in R
    BY TurnKinds
  <2>2. rm = [role |-> am.role, content |-> RedactContent(am.content)]
    BY <2>1 DEF RedactTurn
  <2> HIDE DEF rm
  <2>3. rm.role = am.role /\ rm.content = RedactContent(am.content)
    BY <2>2
  <2>4. /\ RedactContent(am.content) \in R
        /\ ContentItems(am.role, RedactContent(am.content)) = Got(ContentItems(am.role, am.content))
    BY <2>1, ContentRedacted
  <2> HIDE DEF R
  <2>5. rm \in [role : {"user", "assistant"}, content : R]
    BY <2>1, <2>2, <2>4
  <2>6. rm \in Turns
    BY <2>5 DEF Turns, R
  <2>7. TurnGot(am) = Got(ContentItems(am.role, am.content))
    BY DEF TurnGot, Got, Redacted, Emptied
  <2>8. QED
    BY <2>3, <2>4, <2>6, <2>7 DEF rm
<1>3. ASSUME NEW n \in 1 .. Len(ms)
      PROVE  rs[n] \in Turns /\ ContentItems(rs[n].role, rs[n].content) = TurnGot(ms[n])
  <2>1. ms[n] \in Turns /\ rs[n] = RedactTurn(ms[n])
    BY <1>1
  <2>2. QED
    BY <1>2, <2>1
<1>4. rs \in Seq(Turns) /\ DOMAIN rs = DOMAIN ms
  <2>1. DOMAIN rs = 1 .. Len(ms) /\ rs = [n \in 1 .. Len(ms) |-> rs[n]]
    BY <1>1
  <2>2. rs \in [1 .. Len(ms) -> Turns]
    BY <1>3, <2>1
  <2>3. QED
    BY <1>1, <2>1, <2>2
<1>5. [n \in DOMAIN rs |-> ContentItems(rs[n].role, rs[n].content)] = [n \in DOMAIN ms |-> TurnGot(ms[n])]
  BY <1>1, <1>3, <1>4
<1>6. TurnItemsOf(rs) = FlattenSeq([n \in DOMAIN rs |-> ContentItems(rs[n].role, rs[n].content)])
  BY DEF TurnItemsOf, Each
<1>7. Each(TurnGot, ms) = FlattenSeq([n \in DOMAIN ms |-> TurnGot(ms[n])])
  BY DEF Each
<1>8. QED
  BY <1>4, <1>5, <1>6, <1>7

LEMMA BodyKinds ==
  ASSUME NEW m \in MessageBodies
  PROVE  /\ m = [system |-> m.system, messages |-> m.messages, choice |-> m.choice]
         /\ m.system \in Raws(TextBlocks) /\ m.messages \in Seq(Turns)
         /\ SystemText(m.system) \in Seq(Words)
         /\ MessageItems(m) = Said("system", SystemText(m.system)) \o TurnItemsOf(m.messages)
<1> DEFINE R == Raws(TextBlocks)
           T == Seq(Turns)
<1>1. MessageBodies = [system : R, messages : T, choice : {"auto", "any", "tool", "none"}]
  BY DEF MessageBodies
<1> HIDE DEF R, T
<1>2. m = [system |-> m.system, messages |-> m.messages, choice |-> m.choice] /\ m.system \in R /\ m.messages \in T
  BY <1>1
<1>3. TextBlocks \in SUBSET AnyBlocks
  BY DEF AnyBlocks, Blocks
<1>4. SystemText(m.system) \in Seq(Words)
  BY <1>2, <1>3, FlattenTyped DEF R
<1>5. MessageItems(m) = Said("system", SystemText(m.system)) \o TurnItemsOf(m.messages)
  BY DEF MessageItems, TurnItemsOf
<1>6. QED
  BY <1>2, <1>4, <1>5 DEF R, T

LEMMA MessageRedacted ==
  ASSUME NEW m \in MessageBodies
  PROVE  /\ RedactRequestText(m) \in MessageBodies
         /\ MessageItems(RedactRequestText(m)) = MessageGot(m)
         /\ RedactRequestText(m).messages = [n \in DOMAIN m.messages |-> RedactTurn(m.messages[n])]
         /\ RedactRequestText(m).choice = m.choice
<1> DEFINE r == RedactRequestText(m)
           rs == [n \in DOMAIN m.messages |-> RedactTurn(m.messages[n])]
<1>1. /\ m = [system |-> m.system, messages |-> m.messages, choice |-> m.choice]
      /\ m.system \in Raws(TextBlocks) /\ m.messages \in Seq(Turns)
      /\ SystemText(m.system) \in Seq(Words)
      /\ MessageItems(m) = Said("system", SystemText(m.system)) \o TurnItemsOf(m.messages)
  BY BodyKinds
<1>2. r = [system |-> RedactSystem(m.system), messages |-> rs, choice |-> m.choice]
  <2>1. r = [m EXCEPT !.system = RedactSystem(m.system), !.messages = rs]
    BY SMT DEF RedactRequestText
  <2> HIDE DEF r, rs
  <2>2. QED
    BY <1>1, <2>1
<1>3. rs \in Seq(Turns) /\ TurnItemsOf(rs) = Each(TurnGot, m.messages)
  BY <1>1, TurnsRedacted
<1> HIDE DEF r, rs
<1>4. /\ RedactSystem(m.system) \in Raws(TextBlocks)
      /\ SystemText(RedactSystem(m.system)) = Redact(SystemText(m.system))
  BY <1>1, SystemRedacted
<1>5. r \in MessageBodies /\ r.choice = m.choice /\ r.system = RedactSystem(m.system) /\ r.messages = rs
  <2> DEFINE R == Raws(TextBlocks)
             T == Seq(Turns)
  <2>1. /\ MessageBodies = [system : R, messages : T, choice : {"auto", "any", "tool", "none"}]
        /\ RedactSystem(m.system) \in R /\ rs \in T
    BY <1>3, <1>4 DEF MessageBodies
  <2> HIDE DEF R, T
  <2>2. m.choice \in {"auto", "any", "tool", "none"}
    BY <2>1
  <2>3. QED
    BY <1>2, <2>1, <2>2
<1>6. MessageItems(r) = Said("system", Redact(SystemText(m.system))) \o TurnItemsOf(rs)
  BY <1>4, <1>5, BodyKinds
<1>7. MessageItems(r) = MessageGot(m)
  BY <1>3, <1>6 DEF MessageGot
<1>8. QED
  BY <1>5, <1>7 DEF r, rs

-----------------------------------------------------------------------------
(***************************************************************************)
(* What an OpenAI provider can be told of blocks.                          *)
(***************************************************************************)

LEMMA ClassesAre ==
  /\ <<"system", "text">> \in Classes /\ <<"user", "text">> \in Classes /\ <<"assistant", "text">> \in Classes
  /\ <<"user", "picture">> \in Classes /\ <<"user", "result">> \in Classes /\ <<"assistant", "call">> \in Classes
  /\ <<"user", "call">> \notin Classes /\ <<"assistant", "picture">> \notin Classes
  /\ <<"assistant", "result">> \notin Classes /\ \A who : <<who, "other">> \notin Classes
BY DEF Classes

\* One item of words, a call, a picture, a result, or another kind.
LEMMA TellableOne ==
  ASSUME NEW it, FlattenItem(it).class = it.class
  PROVE  Tellable(<<it>>) = IF it.class \in Classes THEN <<FlattenItem(it)>> ELSE <<>>
<1>1. Plain(<<it>>) = <<FlattenItem(it)>>
  BY DEF Plain
<1> DEFINE f == FlattenItem(it)
<1>2. Sequence(<<f>>) /\ Range(<<f>>) = {f} /\ f.class = it.class
  BY RangeOne
<1> HIDE DEF f
<1>3. f.class \in Classes => OfClass(Classes, <<f>>) = <<f>>
  BY <1>2, OfClassOf
<1>4. f.class \notin Classes => OfClass(Classes, <<f>>) = <<>>
  BY <1>2, OfClassOf
<1>5. QED
  BY <1>1, <1>2, <1>3, <1>4 DEF Tellable, f

LEMMA SaidTellable ==
  ASSUME NEW who \in {"system", "user", "assistant"}, NEW t \in Seq(Words)
  PROVE  Tellable(Said(who, t)) = Said(who, t)
<1>1. Sequence(Said(who, t)) /\ \A it \in Range(Said(who, t)) : FlattenItem(it) = it /\ it.class = <<who, "text">>
  BY SaidMap, WordIs
<1>2. <<who, "text">> \in Classes
  BY ClassesAre
<1>3. QED
  BY <1>1, <1>2, TellableOf

BlockTold(who, b) == Tellable(BlockItems(who, b))
ToldOf(who, bs)   == Tellable(ItemsOf(who, bs))

LEMMA BlockTells ==
  ASSUME NEW b \in AnyBlocks
  PROVE  /\ \A who : Sequence(BlockTold(who, b))
         /\ b.type = "text" => \A who \in {"system", "user", "assistant"} : BlockTold(who, b) = Said(who, b.text)
         /\ b.type = "tool_use" => /\ BlockTold("assistant", b) = <<Item("assistant", "call", b)>>
                                   /\ BlockTold("user", b) = <<>>
         /\ b.type = "tool_result" =>
              /\ BlockTold("user", b) = <<ResultItem("user", b.i, FlattenContent(b.content))>>
              /\ BlockTold("assistant", b) = <<>>
         /\ b.type \in {"image", "image_url"} =>
              BlockTold("user", b) = BlockItems("user", b) /\ BlockTold("assistant", b) = <<>>
         /\ b.type \in OtherTypes => \A who : BlockTold(who, b) = <<>>
<1>1. \A who : Sequence(BlockItems(who, b))
  BY BlockItemsListed
<1>2. \A who : Sequence(BlockTold(who, b))
  BY <1>1, TellableOf DEF BlockTold
<1>3. ASSUME b.type = "text", NEW who \in {"system", "user", "assistant"} PROVE BlockTold(who, b) = Said(who, b.text)
  BY <1>3, BlockKinds, BlockIs, SaidTellable DEF BlockTold
<1>4. ASSUME NEW who, NEW kind \in {"call", "picture"}, NEW what
      PROVE  Tellable(<<Item(who, kind, what)>>) = IF <<who, kind>> \in Classes THEN <<Item(who, kind, what)>> ELSE <<>>
  <2> DEFINE it == Item(who, kind, what)
  <2>1. it.class = <<who, kind>> /\ FlattenItem(it) = it
    BY KindKept
  <2> HIDE DEF it
  <2>2. Tellable(<<it>>) = IF it.class \in Classes THEN <<FlattenItem(it)>> ELSE <<>>
    BY <2>1, TellableOne
  <2>3. QED
    BY <2>1, <2>2 DEF it
<1>5. CASE b.type = "tool_use"
  <2>1. \A who : BlockItems(who, b) = <<Item(who, "call", b)>>
    BY <1>5, BlockIs
  <2>2. ASSUME NEW who
        PROVE  BlockTold(who, b) = IF <<who, "call">> \in Classes THEN <<Item(who, "call", b)>> ELSE <<>>
    <3>1. Tellable(<<Item(who, "call", b)>>) = IF <<who, "call">> \in Classes THEN <<Item(who, "call", b)>> ELSE <<>>
      BY <1>4
    <3>2. QED
      BY <2>1, <3>1 DEF BlockTold
  <2>3. BlockTold("assistant", b) = <<Item("assistant", "call", b)>> /\ BlockTold("user", b) = <<>>
    BY <2>2, ClassesAre
  <2>4. QED
    BY <1>2, <1>5, <2>3 DEF OtherTypes
<1>6. CASE b.type = "tool_result"
  <2> DEFINE it(who) == Item(who, "result", ToolResult(b.i, b.content))
             f(who) == ResultItem(who, b.i, FlattenContent(b.content))
  <2>1. \A who : BlockItems(who, b) = <<it(who)>>
    BY <1>6, Raised
  <2>2. ASSUME NEW who PROVE it(who).class = <<who, "result">> /\ FlattenItem(it(who)) = f(who)
    BY ResultKept
  <2>3. ASSUME NEW who PROVE f(who).class = <<who, "result">>
    BY DEF ResultItem, Item
  <2> HIDE DEF it, f
  <2>4. ASSUME NEW who PROVE Tellable(<<it(who)>>) = IF <<who, "result">> \in Classes THEN <<f(who)>> ELSE <<>>
    <3>1. FlattenItem(it(who)).class = it(who).class
      BY <2>2, <2>3
    <3>2. QED
      BY <2>2, <3>1, TellableOne
  <2>5. BlockTold("user", b) = <<f("user")>> /\ BlockTold("assistant", b) = <<>>
    BY <2>1, <2>4, ClassesAre DEF BlockTold
  <2>6. QED
    BY <1>2, <1>6, <2>5 DEF f, OtherTypes
<1>7. CASE b.type \in {"image", "image_url"}
  <2>1. \/ \A who : BlockItems(who, b) = <<>>
        \/ \E what : \A who : BlockItems(who, b) = <<Item(who, "picture", what)>>
    BY <1>7, BlockIs
  <2>2. CASE \A who : BlockItems(who, b) = <<>>
    BY <1>2, <1>7, <2>2, TellableNothing DEF BlockTold, OtherTypes
  <2>3. CASE \E what : \A who : BlockItems(who, b) = <<Item(who, "picture", what)>>
    <3>1. PICK what : \A who : BlockItems(who, b) = <<Item(who, "picture", what)>>
      BY <2>3
    <3>2. QED
      BY <1>2, <1>4, <1>7, <3>1, ClassesAre DEF BlockTold, OtherTypes
  <2>4. QED
    BY <2>1, <2>2, <2>3
<1>8. CASE b.type \in OtherTypes
  <2>1. b = Other(b.type, b.text) /\ \A who : BlockItems(who, b) = <<Item(who, "other", b)>>
    BY <1>8, BlockKinds, BlockIs
  <2>2. ASSUME NEW who PROVE BlockTold(who, b) = <<>>
    <3>1. Item(who, "other", b).class = <<who, "other">> /\ FlattenItem(Item(who, "other", b)) = Item(who, "other", b)
      BY <2>1, OtherKept
    <3>2. QED
      BY <2>1, <3>1, TellableOne, ClassesAre DEF BlockTold
  <2>3. QED
    BY <1>2, <1>8, <2>2 DEF OtherTypes
<1>9. CASE b.type = "text"
  BY <1>2, <1>3, <1>9 DEF OtherTypes
<1>10. QED
  BY <1>5, <1>6, <1>7, <1>8, <1>9, BlockKinds DEF BlockTypes

LEMMA ToldParts ==
  ASSUME NEW who, NEW bs \in Seq(AnyBlocks)
  PROVE  /\ Sequence(ToldOf(who, bs)) /\ ToldOf(who, <<>>) = <<>>
         /\ \A b \in AnyBlocks : ToldOf(who, Append(bs, b)) = ToldOf(who, bs) \o BlockTold(who, b)
<1>1. Sequence(ItemsOf(who, bs)) /\ ItemsOf(who, <<>>) = <<>>
  BY ItemsBound, ItemsNothing
<1>2. ASSUME NEW b \in AnyBlocks PROVE ToldOf(who, Append(bs, b)) = ToldOf(who, bs) \o BlockTold(who, b)
  <2>1. ItemsOf(who, Append(bs, b)) = ItemsOf(who, bs) \o BlockItems(who, b) /\ Sequence(BlockItems(who, b))
    BY ItemsMore, BlockItemsListed
  <2>2. Tellable(ItemsOf(who, bs) \o BlockItems(who, b)) = Tellable(ItemsOf(who, bs)) \o Tellable(BlockItems(who, b))
    BY <1>1, <2>1, TellableJoined
  <2>3. QED
    BY <2>1, <2>2 DEF ToldOf, BlockTold
<1>3. QED
  BY <1>1, <1>2, TellableOf, TellableNothing DEF ToldOf

\* Blocks of which the same can be told.
LEMMA SameTold ==
  ASSUME NEW who, NEW s \in Seq(AnyBlocks), NEW t \in Seq(AnyBlocks), Len(s) = Len(t),
         \A n \in 1 .. Len(s) : BlockTold(who, s[n]) = BlockTold(who, t[n])
  PROVE  ToldOf(who, s) = ToldOf(who, t)
<1> DEFINE f == [n \in DOMAIN s |-> BlockItems(who, s[n])]
           g == [n \in DOMAIN t |-> BlockItems(who, t[n])]
<1>1. DOMAIN s = 1 .. Len(s) /\ DOMAIN t = 1 .. Len(s)
  OBVIOUS
<1>2. ItemsOf(who, s) = FlattenSeq(f) /\ Nested(f) /\ ItemsOf(who, t) = FlattenSeq(g) /\ Nested(g)
  BY ItemsBound, ZenonT(60)
<1>3. /\ DOMAIN f = 1 .. Len(s) /\ \A n \in 1 .. Len(s) : f[n] = BlockItems(who, s[n])
      /\ DOMAIN g = 1 .. Len(s) /\ \A n \in 1 .. Len(s) : g[n] = BlockItems(who, t[n])
  BY <1>1
<1> HIDE DEF f, g
<1>4. /\ Tellable(FlattenSeq(f)) = FlattenSeq([n \in DOMAIN f |-> Tellable(f[n])])
      /\ Tellable(FlattenSeq(g)) = FlattenSeq([n \in DOMAIN g |-> Tellable(g[n])])
  BY <1>2, TellableFlat
<1>5. [n \in DOMAIN f |-> Tellable(f[n])] = [n \in DOMAIN g |-> Tellable(g[n])]
  BY <1>3 DEF BlockTold
<1>6. QED
  BY <1>2, <1>4, <1>5 DEF ToldOf

-----------------------------------------------------------------------------
(***************************************************************************)
(* The items of what is sent, and a user's turn.                           *)
(***************************************************************************)

SentOf(cms)   == Each(Sent, cms)
Sendable(cms) == Sequence(cms) /\ \A cm \in Range(cms) : Sequence(Sent(cm))
Sending(D)    == [cm \in D |-> Sent(cm)]

LEMMA SentBind ==
  ASSUME NEW cms, Sendable(cms), NEW D, Range(cms) \subseteq D
  PROVE  SentOf(cms) = Bind(Sending(D), cms) /\ Sequence(SentOf(cms))
<1>1. \A n \in DOMAIN cms : cms[n] \in D
  BY DEF Range
<1>2. [n \in DOMAIN cms |-> Sent(cms[n])] = [n \in DOMAIN cms |-> Sending(D)[cms[n]]]
  BY <1>1 DEF Sending
<1>3. SentOf(cms) = FlattenSeq([n \in DOMAIN cms |-> Sent(cms[n])])
  BY DEF SentOf, Each
<1>4. SentOf(cms) = Bind(Sending(D), cms)
  BY <1>2, <1>3 DEF Bind, Map
<1>5. \A cm \in Range(cms) : Sending(D)[cm] = Sent(cm)
  BY DEF Sending
<1>6. Sequence(Bind(Sending(D), cms))
  BY <1>5, Bound DEF Sendable
<1>7. QED
  BY <1>4, <1>6

LEMMA SentNothing == Sendable(<<>>) /\ SentOf(<<>>) = <<>>
<1>1. Sequence(<<>>) /\ Range(<<>>) = {}
  BY Nothing DEF Range
<1>2. Sendable(<<>>)
  BY <1>1 DEF Sendable
<1>3. SentOf(<<>>) = Bind(Sending({}), <<>>)
  BY <1>1, <1>2, SentBind
<1>4. QED
  BY <1>2, <1>3, BindNothing

LEMMA SentJoined ==
  ASSUME NEW s, NEW t, Sendable(s), Sendable(t)
  PROVE  Sendable(s \o t) /\ SentOf(s \o t) = SentOf(s) \o SentOf(t)
<1> DEFINE D == Range(s) \cup Range(t)
<1>1. Sequence(s \o t) /\ Range(s \o t) = D /\ Sequence(s) /\ Sequence(t)
  BY Joined, RangeJoined DEF Sendable
<1>2. Range(s) \subseteq D /\ Range(t) \subseteq D /\ \A cm \in D : Sequence(Sent(cm))
  BY DEF Sendable
<1> HIDE DEF D
<1>3. Sendable(s \o t)
  BY <1>1, <1>2 DEF Sendable
<1>4. /\ SentOf(s) = Bind(Sending(D), s) /\ SentOf(t) = Bind(Sending(D), t)
      /\ SentOf(s \o t) = Bind(Sending(D), s \o t)
  BY <1>1, <1>2, <1>3, SentBind
<1>5. \A cm \in D : Sending(D)[cm] = Sent(cm)
  BY DEF Sending
<1>6. \A cm \in Range(s) \cup Range(t) : Sequence(Sending(D)[cm])
  BY <1>2, <1>5
<1>7. Bind(Sending(D), s \o t) = Bind(Sending(D), s) \o Bind(Sending(D), t)
  BY <1>1, <1>6, BindJoined
<1>8. QED
  BY <1>3, <1>4, <1>7

LEMMA SentOne ==
  ASSUME NEW cm, Sequence(Sent(cm))
  PROVE  Sendable(<<cm>>) /\ SentOf(<<cm>>) = Sent(cm)
<1>1. Sequence(<<cm>>) /\ Range(<<cm>>) = {cm}
  BY RangeOne
<1>2. Sendable(<<cm>>)
  BY <1>1 DEF Sendable
<1>3. SentOf(<<cm>>) = Bind(Sending({cm}), <<cm>>)
  BY <1>1, <1>2, SentBind
<1>4. Sending({cm})[cm] = Sent(cm)
  BY DEF Sending
<1>5. Bind(Sending({cm}), <<cm>>) = Sending({cm})[cm]
  BY <1>4, BindOne
<1>6. QED
  BY <1>2, <1>3, <1>4, <1>5

LEMMA SentMore ==
  ASSUME NEW s, Sendable(s), NEW cm, Sequence(Sent(cm))
  PROVE  Sendable(Append(s, cm)) /\ SentOf(Append(s, cm)) = SentOf(s) \o Sent(cm)
<1>1. Sendable(<<cm>>) /\ SentOf(<<cm>>) = Sent(cm)
  BY SentOne
<1>2. s \o <<cm>> = Append(s, cm)
  BY JoinedFew DEF Sendable
<1>3. Sendable(s \o <<cm>>) /\ SentOf(s \o <<cm>>) = SentOf(s) \o SentOf(<<cm>>)
  BY <1>1, SentJoined
<1>4. QED
  BY <1>1, <1>2, <1>3

LEMMA SentFlat ==
  ASSUME NEW ss, Nested(ss), \A n \in 1 .. Len(ss) : Sendable(ss[n])
  PROVE  /\ Sendable(FlattenSeq(ss)) /\ SentOf(FlattenSeq(ss)) = FlattenSeq([n \in DOMAIN ss |-> SentOf(ss[n])])
         /\ Nested([n \in DOMAIN ss |-> SentOf(ss[n])])
<1>1. PICK D : D = Range(FlattenSeq(ss)) /\ \A n \in 1 .. Len(ss) : ss[n] \in Seq(D)
  BY Held
<1>2. \A cm : cm \in D <=> \E n \in 1 .. Len(ss) : cm \in Range(ss[n])
  BY <1>1, FlatRange DEF Nested
<1>3. \A cm \in D : Sequence(Sent(cm))
  BY <1>2 DEF Sendable
<1>4. \A s \in Seq(D) : Sendable(s) /\ Sequence(s)
  BY <1>3, IsWithin DEF Sendable
<1> DEFINE F == [s \in Seq(D) |-> SentOf(s)]
<1>5. \A s \in Seq(D) : F[s] = SentOf(s)
  OBVIOUS
<1>6. <<>> \in Seq(D) /\ \A s, t \in Seq(D) : s \o t \in Seq(D)
  OBVIOUS
<1> HIDE DEF F
<1>7. F[<<>>] = <<>>
  BY <1>5, <1>6, SentNothing
<1>8. ASSUME NEW s \in Seq(D) PROVE Sequence(F[s])
  <2>1. Sendable(s) /\ Range(s) \subseteq Range(s)
    BY <1>4
  <2>2. Sequence(SentOf(s))
    BY <2>1, SentBind
  <2>3. QED
    BY <1>5, <2>2
<1>9. ASSUME NEW s \in Seq(D), NEW t \in Seq(D) PROVE F[s \o t] = F[s] \o F[t]
  <2>1. SentOf(s \o t) = SentOf(s) \o SentOf(t)
    BY <1>4, SentJoined
  <2>2. QED
    BY <1>5, <1>6, <2>1
<1>10. /\ FlattenSeq(ss) \in Seq(D) /\ F[FlattenSeq(ss)] = FlattenSeq(Parts(F, ss))
       /\ Nested(Parts(F, ss))
  <2>1. Nested(ss) /\ \A n \in 1 .. Len(ss) : ss[n] \in Seq(D)
    BY <1>1
  <2>2. /\ \A s \in Seq(D) : Sequence(F[s])
        /\ \A s, t \in Seq(D) : F[s \o t] = F[s] \o F[t]
    BY <1>8, <1>9
  <2>3. QED
    BY ONLY <1>7, <2>1, <2>2, PartsOf
<1>11. DOMAIN ss = 1 .. Len(ss)
  BY Elements DEF Nested
<1>12. Parts(F, ss) = [n \in DOMAIN ss |-> SentOf(ss[n])]
  BY <1>1, <1>5, <1>11 DEF Parts
<1>13. QED
  BY <1>4, <1>5, <1>10, <1>12

\* A message with parts and no calls, and a result.
LEMMA SentParts ==
  ASSUME NEW role, role # "tool", NEW parts \in Seq(AnyBlocks), NEW i
  PROVE  Sent(ChatMessage(role, parts, <<>>, i)) = ItemsOf(role, parts)
<1> DEFINE cm == ChatMessage(role, parts, <<>>, i)
<1>1. cm.role = role /\ cm.parts = parts /\ cm.calls = <<>>
  BY DEF ChatMessage
<1>2. Sent(cm) = ContentItems(cm.role, List(cm.parts))
                   \o [n \in DOMAIN cm.calls |-> Item(cm.role, "call", cm.calls[n])]
  BY <1>1 DEF Sent
<1> HIDE DEF cm
<1>3. [n \in DOMAIN cm.calls |-> Item(cm.role, "call", cm.calls[n])] = <<>>
  BY <1>1
<1>4. BlocksFromRaw(List(parts)) = parts
  BY DEF BlocksFromRaw, List
<1>5. ContentItems(role, List(parts)) = ItemsOf(role, parts)
  BY <1>4 DEF ContentItems, ItemsOf
<1>6. Sequence(ItemsOf(role, parts))
  BY ItemsBound
<1>7. ItemsOf(role, parts) \o <<>> = ItemsOf(role, parts)
  BY <1>6, JoinedFew
<1>8. QED
  BY <1>1, <1>2, <1>3, <1>5, <1>7 DEF cm

LEMMA SentResult ==
  ASSUME NEW t \in Seq(Words), NEW i
  PROVE  Sent(ChatMessage("tool", <<TextBlock(t)>>, <<>>, i)) = <<ResultItem("user", i, t)>>
<1> DEFINE cm == ChatMessage("tool", <<TextBlock(t)>>, <<>>, i)
<1>1. cm.role = "tool" /\ cm.parts = <<TextBlock(t)>> /\ cm.i = i
  BY DEF ChatMessage
<1>2. Sent(cm) = <<ResultItem("user", cm.i, Texts(cm.parts))>>
  BY <1>1 DEF Sent, ResultItem
<1>3. Texts(<<TextBlock(t)>>) = t
  BY IsSequence, OneText
<1>4. QED
  BY <1>1, <1>2, <1>3

UserState(bs) == FoldLeft(UserBlock, [parts |-> <<>>, out |-> <<>>], bs)

LEMMA UserSteps ==
  ASSUME NEW bs, Sequence(bs), NEW b
  PROVE  /\ UserState(<<>>) = [parts |-> <<>>, out |-> <<>>]
         /\ UserState(Append(bs, b)) = UserBlock(UserState(bs), b)
<1> DEFINE start == [parts |-> <<>>, out |-> <<>>]
<1>1. \A s : UserState(s) = Collected("blocks", start, s)
  BY Zenon DEF Collected, UserState
<1>2. \A x, e : Collects("blocks", x, e) = UserBlock(x, e)
  BY DEF Collects
<1> HIDE DEF start
<1>3. /\ Collected("blocks", start, <<>>) = start
      /\ Collected("blocks", start, Append(bs, b)) = Collects("blocks", Collected("blocks", start, bs), b)
  BY CollectedMore
<1>4. QED
  BY <1>1, <1>2, <1>3 DEF start

\* What can be told of the user's blocks has been put out or is among the parts.
UserFits(s, ps) ==
  /\ s = [parts |-> s.parts, out |-> s.out]
  /\ s.parts \in Seq(AnyBlocks) /\ Sendable(s.out)
  /\ SentOf(s.out) \o ItemsOf("user", s.parts) = ToldOf("user", ps)

LEMMA FlushedSent ==
  ASSUME NEW ps, NEW s, UserFits(s, ps)
  PROVE  Sendable(Flushed(s)) /\ SentOf(Flushed(s)) = ToldOf("user", ps)
<1>1. s.parts \in Seq(AnyBlocks) /\ Sendable(s.out) /\ Sequence(SentOf(s.out)) /\ Sequence(ItemsOf("user", s.parts))
  BY SentBind, ItemsBound DEF UserFits
<1>2. SentOf(s.out) \o ItemsOf("user", s.parts) = ToldOf("user", ps)
  BY DEF UserFits
<1>3. CASE s.parts = <<>>
  <2>1. Flushed(s) = s.out
    BY <1>3 DEF Flushed
  <2>2. ItemsOf("user", <<>>) = <<>>
    BY ItemsNothing
  <2>3. SentOf(s.out) \o <<>> = SentOf(s.out)
    BY <1>1, JoinedFew
  <2>4. QED
    BY <1>1, <1>2, <1>3, <2>1, <2>2, <2>3
<1>4. CASE s.parts # <<>>
  <2> DEFINE cm == ChatMessage("user", s.parts, <<>>, NoName)
  <2>1. Flushed(s) = Append(s.out, cm)
    BY <1>4 DEF Flushed
  <2>2. Sent(cm) = ItemsOf("user", s.parts)
    BY <1>1, SentParts
  <2> HIDE DEF cm
  <2>3. Sendable(Append(s.out, cm)) /\ SentOf(Append(s.out, cm)) = SentOf(s.out) \o Sent(cm)
    BY <1>1, <2>2, SentMore
  <2>4. QED
    BY <1>2, <2>1, <2>2, <2>3
<1>5. QED
  BY <1>3, <1>4

\* One part more.
LEMMA PartFits ==
  ASSUME NEW ps \in Seq(AnyBlocks), NEW s, UserFits(s, ps), NEW b \in AnyBlocks, NEW p \in AnyBlocks,
         BlockItems("user", p) = BlockTold("user", b),
         NEW u, u = [s EXCEPT !.parts = Append(@, p)]
  PROVE  UserFits(u, Append(ps, b))
<1>1. u.parts = Append(s.parts, p) /\ u.out = s.out /\ u = [parts |-> u.parts, out |-> u.out]
  BY DEF UserFits
<1>2. s.parts \in Seq(AnyBlocks) /\ Sendable(s.out) /\ Sequence(SentOf(s.out)) /\ Sequence(ItemsOf("user", s.parts))
  BY SentBind, ItemsBound DEF UserFits
<1>3. SentOf(s.out) \o ItemsOf("user", s.parts) = ToldOf("user", ps)
  BY DEF UserFits
<1>4. /\ ItemsOf("user", Append(s.parts, p)) = ItemsOf("user", s.parts) \o BlockTold("user", b)
      /\ ToldOf("user", Append(ps, b)) = ToldOf("user", ps) \o BlockTold("user", b)
  BY <1>2, ItemsMore, ToldParts
<1>5. Sequence(BlockTold("user", b))
  BY BlockTells
<1>6. SentOf(s.out) \o (ItemsOf("user", s.parts) \o BlockTold("user", b))
        = (SentOf(s.out) \o ItemsOf("user", s.parts)) \o BlockTold("user", b)
  BY <1>2, <1>5, JoinedAgain
<1>7. Append(s.parts, p) \in Seq(AnyBlocks)
  BY <1>2
<1>8. QED
  BY <1>1, <1>2, <1>3, <1>4, <1>6, <1>7 DEF UserFits

LEMMA UrlKinds ==
  ASSUME NEW b \in Images
  PROVE  UrlOf(b.source) \in Urls /\ ImageURL(UrlOf(b.source)) \in AnyBlocks
<1>1. b.source.data \in Urls /\ b.source.url \in Urls
  BY DEF Images
<1>2. UrlOf(b.source) \in Urls
  BY <1>1 DEF UrlOf
<1>3. ImageURL(UrlOf(b.source)) \in ImageURLs
  BY <1>2 DEF ImageURL, ImageURLs
<1>4. QED
  BY <1>2, <1>3 DEF AnyBlocks

LEMMA UserStep ==
  ASSUME NEW ps \in Seq(AnyBlocks), NEW s, UserFits(s, ps), NEW b \in Blocks
  PROVE  UserFits(UserBlock(s, b), Append(ps, b))
<1>1. b \in AnyBlocks /\ b.type \in {"text", "tool_use", "tool_result", "image"} \cup OtherTypes
  BY KindsOf, BlockKinds DEF BlockTypes
<1>2. /\ s.parts \in Seq(AnyBlocks) /\ Sendable(s.out) /\ Sequence(ToldOf("user", ps))
      /\ s = [parts |-> s.parts, out |-> s.out]
      /\ SentOf(s.out) \o ItemsOf("user", s.parts) = ToldOf("user", ps)
  BY ToldParts DEF UserFits
<1>3. ASSUME BlockTold("user", b) = <<>> PROVE UserFits(s, Append(ps, b))
  <2>1. ToldOf("user", Append(ps, b)) = ToldOf("user", ps) \o <<>>
    BY <1>1, <1>3, ToldParts
  <2>2. ToldOf("user", ps) \o <<>> = ToldOf("user", ps)
    BY <1>2, JoinedFew
  <2>3. QED
    BY <1>2, <2>1, <2>2 DEF UserFits
<1>4. CASE b.type = "text" /\ b.text # <<>>
  <2>1. UserBlock(s, b) = [s EXCEPT !.parts = Append(@, b)]
    BY <1>4 DEF UserBlock
  <2>2. BlockItems("user", b) = BlockTold("user", b)
    BY <1>1, <1>4, BlockIs, BlockTells
  <2>3. QED
    BY <1>1, <2>1, <2>2, PartFits
<1>5. CASE b.type = "text" /\ b.text = <<>>
  <2>1. UserBlock(s, b) = s
    BY <1>5 DEF UserBlock
  <2>2. BlockTold("user", b) = <<>>
    BY <1>1, <1>5, BlockTells, SaidNothing
  <2>3. QED
    BY <1>3, <2>1, <2>2
<1>6. CASE b.type = "image" /\ UrlOf(b.source) # NoURL
  <2> DEFINE p == ImageURL(UrlOf(b.source))
  <2>1. UserBlock(s, b) = [s EXCEPT !.parts = Append(@, p)]
    BY <1>6 DEF UserBlock
  <2>2. p \in AnyBlocks
    BY <1>1, <1>6, BlockKinds, UrlKinds
  <2>3. p.type = "image_url" /\ p.url = UrlOf(b.source)
    BY DEF ImageURL
  <2>4. BlockTold("user", b) = <<Item("user", "picture", p)>>
    BY <1>1, <1>6, BlockIs, BlockTells
  <2> HIDE DEF p
  <2>5. BlockItems("user", p) = <<Item("user", "picture", p)>>
    BY <1>6, <2>3, BlockIs
  <2>6. QED
    BY <1>1, <2>1, <2>2, <2>4, <2>5, PartFits
<1>7. CASE b.type = "image" /\ UrlOf(b.source) = NoURL
  <2>1. UserBlock(s, b) = s
    BY <1>7 DEF UserBlock
  <2>2. BlockTold("user", b) = <<>>
    BY <1>1, <1>7, BlockIs, BlockTells
  <2>3. QED
    BY <1>3, <2>1, <2>2
<1>8. CASE b.type = "tool_use" \/ b.type \in OtherTypes
  <2>1. UserBlock(s, b) = s
    BY <1>8 DEF UserBlock, OtherTypes
  <2>2. BlockTold("user", b) = <<>>
    BY <1>1, <1>8, BlockTells
  <2>3. QED
    BY <1>3, <2>1, <2>2
<1>9. CASE b.type = "tool_result"
  <2> DEFINE f == FlattenContent(b.content)
             cm == ChatMessage("tool", <<TextBlock(f)>>, <<>>, b.i)
             u == [parts |-> <<>>, out |-> Append(Flushed(s), cm)]
  <2>1. UserBlock(s, b) = u
    BY <1>9 DEF UserBlock
  <2>2. f \in Seq(Words)
    BY <1>1, <1>9, Raised
  <2>3. BlockTold("user", b) = <<ResultItem("user", b.i, f)>>
    BY <1>1, <1>9, BlockTells
  <2> HIDE DEF f
  <2>4. Sent(cm) = <<ResultItem("user", b.i, f)>>
    BY <2>2, SentResult
  <2>5. Sendable(Flushed(s)) /\ SentOf(Flushed(s)) = ToldOf("user", ps)
    BY FlushedSent
  <2> HIDE DEF cm
  <2>6. Sendable(Append(Flushed(s), cm)) /\ SentOf(Append(Flushed(s), cm)) = SentOf(Flushed(s)) \o Sent(cm)
    <3>1. Sequence(Sent(cm))
      BY <2>4, Listing
    <3>2. QED
      BY <2>5, <3>1, SentMore
  <2>7. /\ ToldOf("user", Append(ps, b)) = ToldOf("user", ps) \o BlockTold("user", b)
        /\ ItemsOf("user", <<>>) = <<>>
    BY <1>1, ToldParts, ItemsNothing
  <2>8. u.parts = <<>> /\ u.out = Append(Flushed(s), cm) /\ u = [parts |-> u.parts, out |-> u.out]
    OBVIOUS
  <2> HIDE DEF u
  <2>9. SentOf(u.out) = ToldOf("user", Append(ps, b))
    BY <2>3, <2>4, <2>5, <2>6, <2>7, <2>8
  <2>10. Sequence(SentOf(u.out))
    BY <2>6, <2>8, SentBind
  <2>11. SentOf(u.out) \o <<>> = SentOf(u.out)
    BY <2>10, JoinedFew
  <2>12. <<>> \in Seq(AnyBlocks)
    OBVIOUS
  <2>13. UserFits(u, Append(ps, b))
    BY <2>6, <2>7, <2>8, <2>9, <2>11, <2>12 DEF UserFits
  <2>14. QED
    BY <2>1, <2>13
<1>10. QED
  BY <1>1, <1>4, <1>5, <1>6, <1>7, <1>8, <1>9

LEMMA UserSent ==
  ASSUME NEW bs \in Seq(Blocks)
  PROVE  Sendable(UserMessages(bs)) /\ SentOf(UserMessages(bs)) = ToldOf("user", bs)
<1> DEFINE T == {x \in Firsts(bs) : x \in Seq(AnyBlocks) /\ UserFits(UserState(x), x)}
<1>1. Blocks \subseteq AnyBlocks /\ Sequence(bs) /\ \A n \in 1 .. Len(bs) : bs[n] \in Blocks
  BY KindsOf, IsSequence
<1>2. <<>> \in T
  <2>1. <<>> \in Firsts(bs) /\ <<>> \in Seq(AnyBlocks)
    BY <1>1, FirstsOf
  <2>2. UserState(<<>>) = [parts |-> <<>>, out |-> <<>>]
    BY <1>1, UserSteps
  <2> DEFINE s == [parts |-> <<>>, out |-> <<>>]
  <2>3. s.parts = <<>> /\ s.out = <<>> /\ s = [parts |-> s.parts, out |-> s.out]
    OBVIOUS
  <2> HIDE DEF s
  <2>4. ItemsOf("user", <<>>) = <<>> /\ ToldOf("user", <<>>) = <<>>
    BY <2>1, ItemsNothing, ToldParts
  <2>5. <<>> \o <<>> = <<>>
    BY Nothing, NothingJoined
  <2>6. UserFits(s, <<>>)
    BY <2>1, <2>3, <2>4, <2>5, SentNothing DEF UserFits
  <2>7. QED
    BY <2>1, <2>2, <2>6 DEF s
<1>3. ASSUME NEW k \in 1 .. Len(bs), SubSeq(bs, 1, k - 1) \in T
      PROVE  Append(SubSeq(bs, 1, k - 1), bs[k]) \in T
  <2> DEFINE q == SubSeq(bs, 1, k - 1)
             e == bs[k]
  <2>1. Append(q, e) \in Firsts(bs)
    BY <1>1, FirstsOf
  <2>2. q \in Seq(AnyBlocks) /\ UserFits(UserState(q), q) /\ e \in Blocks
    BY <1>1, <1>3
  <2> HIDE DEF q, e
  <2>3. Append(q, e) \in Seq(AnyBlocks) /\ Sequence(q)
    BY <1>1, <2>2, IsSequence
  <2>4. UserFits(UserBlock(UserState(q), e), Append(q, e))
    BY <2>2, UserStep
  <2>5. UserState(Append(q, e)) = UserBlock(UserState(q), e)
    BY <2>3, UserSteps
  <2>6. QED
    BY <2>1, <2>3, <2>4, <2>5 DEF q, e
<1> HIDE DEF T
<1>4. bs \in T
  BY <1>1, <1>2, <1>3, BySteps
<1>5. UserFits(UserState(bs), bs)
  BY <1>4 DEF T
<1>6. UserMessages(bs) = Flushed(UserState(bs))
  BY DEF UserMessages, UserState
<1>7. QED
  BY <1>5, <1>6, FlushedSent

-----------------------------------------------------------------------------
(***************************************************************************)
(* An assistant's turn: the calls follow what is said.                     *)
(***************************************************************************)

CallItems(who, calls) == [n \in DOMAIN calls |-> Item(who, "call", calls[n])]
Calling(who, D)       == [b \in D |-> Item(who, "call", b)]

LEMMA CallsMap ==
  ASSUME NEW who, NEW s, Sequence(s), NEW D, Range(s) \subseteq D
  PROVE  /\ CallItems(who, s) = Map(Calling(who, D), s) /\ Sequence(CallItems(who, s))
         /\ Len(CallItems(who, s)) = Len(s)
         /\ \A n \in 1 .. Len(s) : CallItems(who, s)[n] = Item(who, "call", s[n])
         /\ \A it \in Range(CallItems(who, s)) : it.class = <<who, "call">>
<1>1. \A n \in DOMAIN s : s[n] \in D
  BY DEF Range
<1>2. CallItems(who, s) = Map(Calling(who, D), s)
  BY <1>1 DEF CallItems, Map, Calling
<1>3. /\ Sequence(CallItems(who, s)) /\ Len(CallItems(who, s)) = Len(s)
      /\ DOMAIN CallItems(who, s) = DOMAIN s
  BY <1>2, Mapped
<1>4. \A n \in DOMAIN s : CallItems(who, s)[n] = Item(who, "call", s[n])
  BY DEF CallItems
<1>5. DOMAIN s = 1 .. Len(s)
  BY Elements
<1>6. \A b : Item(who, "call", b).class = <<who, "call">>
  BY DEF Item
<1>7. \A it \in Range(CallItems(who, s)) : \E n \in DOMAIN s : it = CallItems(who, s)[n]
  BY <1>3 DEF Range
<1>8. QED
  BY <1>2, <1>3, <1>4, <1>5, <1>6, <1>7

LEMMA CallsNothing == \A who : CallItems(who, <<>>) = <<>>
BY DEF CallItems

LEMMA CallItemsMore ==
  ASSUME NEW who, NEW s, Sequence(s), NEW b
  PROVE  CallItems(who, Append(s, b)) = CallItems(who, s) \o <<Item(who, "call", b)>>
<1> DEFINE D == Range(s) \cup {b}
<1>1. Sequence(<<b>>) /\ Range(<<b>>) = {b} /\ s \o <<b>> = Append(s, b)
  BY RangeOne, JoinedFew
<1>2. Sequence(Append(s, b)) /\ Range(Append(s, b)) = D
  BY <1>1, Longer, RangeJoined
<1>3. Range(s) \subseteq D /\ b \in D
  OBVIOUS
<1> HIDE DEF D
<1>4. /\ CallItems(who, s) = Map(Calling(who, D), s) /\ Sequence(CallItems(who, s))
      /\ CallItems(who, Append(s, b)) = Map(Calling(who, D), Append(s, b))
  BY <1>2, <1>3, CallsMap
<1>5. Calling(who, D)[b] = Item(who, "call", b)
  BY <1>3 DEF Calling
<1>6. Map(Calling(who, D), Append(s, b)) = Append(Map(Calling(who, D), s), Calling(who, D)[b])
  BY MapMore
<1>7. CallItems(who, s) \o <<Item(who, "call", b)>> = Append(CallItems(who, s), Item(who, "call", b))
  BY <1>4, JoinedFew
<1>8. QED
  BY <1>4, <1>5, <1>6, <1>7

LEMMA SaidClass ==
  ASSUME NEW who, NEW t \in Seq(Words)
  PROVE  Sequence(Said(who, t)) /\ \A it \in Range(Said(who, t)) : it.class = <<who, "text">>
<1>1. \A x : Word(who, x).class = <<who, "text">>
  BY WordRedacted
<1>2. QED
  BY <1>1, SaidMap

LEMMA SameFollows ==
  ASSUME NEW s, NEW t, NEW u, SameItems(s, t), SameItems(t, u)
  PROVE  SameItems(s, u)
BY DEF SameItems

\* What an assistant says and what it calls change places.
LEMMA Swapped ==
  ASSUME NEW s, NEW t, Sequence(s), Sequence(t),
         \A it \in Range(s) : it.class = <<"assistant", "call">>,
         \A it \in Range(t) : it.class = <<"assistant", "text">>
  PROVE  SameItems(s \o t, t \o s)
<1> SUFFICES ASSUME NEW x \in Classes, NEW y \in Classes, {x, y} \notin Unordered
             PROVE  OfClass({x, y}, s \o t) = OfClass({x, y}, t \o s)
  BY DEF SameItems
<1> DEFINE C == {x, y}
           a == <<"assistant", "call">>
           b == <<"assistant", "text">>
<1>1. a \notin C \/ b \notin C
  <2> SUFFICES ASSUME a \in C, b \in C PROVE FALSE
    OBVIOUS
  <2>1. a # b
    OBVIOUS
  <2> HIDE DEF a, b
  <2>2. {x, y} = {b, a}
    BY <2>1
  <2>3. {b, a} \in Unordered
    BY DEF Unordered, a, b
  <2>4. QED
    BY <2>2, <2>3
<1>2. (\A it \in Range(s) : it.class = a) /\ (\A it \in Range(t) : it.class = b)
  OBVIOUS
<1> HIDE DEF a, b, C
<1>3. /\ OfClass(C, s \o t) = OfClass(C, s) \o OfClass(C, t)
      /\ OfClass(C, t \o s) = OfClass(C, t) \o OfClass(C, s)
      /\ Sequence(OfClass(C, s)) /\ Sequence(OfClass(C, t))
  BY OfClassJoined, OfClassOf
<1>4. CASE a \notin C
  <2>1. OfClass(C, s) = <<>>
    BY <1>2, <1>4, OfClassOf
  <2>2. OfClass(C, t) \o <<>> = OfClass(C, t) /\ <<>> \o OfClass(C, t) = OfClass(C, t)
    BY <1>3, JoinedFew, NothingJoined
  <2>3. OfClass(C, s \o t) = OfClass(C, t \o s)
    BY <1>3, <2>1, <2>2
  <2>4. QED
    BY <2>3 DEF C
<1>5. CASE b \notin C
  <2>1. OfClass(C, t) = <<>>
    BY <1>2, <1>5, OfClassOf
  <2>2. OfClass(C, s) \o <<>> = OfClass(C, s) /\ <<>> \o OfClass(C, s) = OfClass(C, s)
    BY <1>3, JoinedFew, NothingJoined
  <2>3. OfClass(C, s \o t) = OfClass(C, t \o s)
    BY <1>3, <2>1, <2>2
  <2>4. QED
    BY <2>3 DEF C
<1>6. QED
  BY <1>1, <1>4, <1>5

\* The calls among blocks.
CallsAmong(bs) == Where(LAMBDA b : b.type = "tool_use", bs)

LEMMA CallsAmongAre ==
  ASSUME NEW bs \in Seq(AnyBlocks)
  PROVE  CallsAmong(bs) = Those(ToolUses, bs) /\ Sequence(CallsAmong(bs))
<1>1. Sequence(bs) /\ \A n \in DOMAIN bs : bs[n] \in AnyBlocks
  BY IsWithin DEF Range
<1>2. \A b \in AnyBlocks : b.type = "tool_use" <=> b \in ToolUses
  BY BlockKinds DEF ToolUses
<1>3. [n \in DOMAIN bs |-> IF bs[n].type = "tool_use" THEN <<bs[n]>> ELSE <<>>]
        = [n \in DOMAIN bs |-> IF bs[n] \in ToolUses THEN <<bs[n]>> ELSE <<>>]
  BY <1>1, <1>2
<1>4. CallsAmong(bs) = FlattenSeq([n \in DOMAIN bs |-> IF bs[n].type = "tool_use" THEN <<bs[n]>> ELSE <<>>])
  BY DEF CallsAmong, Where, Each
<1>5. Those(ToolUses, bs) = FlattenSeq([n \in DOMAIN bs |-> IF bs[n] \in ToolUses THEN <<bs[n]>> ELSE <<>>])
  BY DEF Those, Where, Each
<1>6. CallsAmong(bs) = Those(ToolUses, bs)
  BY <1>3, <1>4, <1>5, Zenon
<1>7. Sequence(Those(ToolUses, bs))
  BY <1>1, ThoseOf
<1>8. QED
  BY <1>6, <1>7

SpokenFirst(bs) == Said("assistant", Texts(bs)) \o CallItems("assistant", CallsAmong(bs))

LEMMA SpokenFirstOf ==
  ASSUME NEW bs \in Seq(AnyBlocks)
  PROVE  LET s == Said("assistant", Texts(bs))
             c == CallItems("assistant", CallsAmong(bs))
         IN  /\ Sequence(s) /\ \A it \in Range(s) : it.class = <<"assistant", "text">>
             /\ Sequence(c) /\ \A it \in Range(c) : it.class = <<"assistant", "call">>
             /\ SpokenFirst(bs) = s \o c /\ Sequence(SpokenFirst(bs))
<1> DEFINE s == Said("assistant", Texts(bs))
           c == CallItems("assistant", CallsAmong(bs))
<1>1. Texts(bs) \in Seq(Words) /\ Sequence(CallsAmong(bs))
  BY TextsTyped, CallsAmongAre
<1>2. Sequence(s) /\ \A it \in Range(s) : it.class = <<"assistant", "text">>
  BY <1>1, SaidClass
<1>3. Sequence(c) /\ \A it \in Range(c) : it.class = <<"assistant", "call">>
  BY <1>1, CallsMap
<1>4. SpokenFirst(bs) = s \o c
  BY DEF SpokenFirst
<1> HIDE DEF s, c
<1>5. Sequence(s \o c)
  BY <1>2, <1>3, Joined
<1>6. QED
  BY <1>2, <1>3, <1>4, <1>5 DEF s, c

LEMMA AssistantStep ==
  ASSUME NEW ps \in Seq(AnyBlocks), NEW b \in Blocks,
         SameItems(ToldOf("assistant", ps), SpokenFirst(ps))
  PROVE  SameItems(ToldOf("assistant", Append(ps, b)), SpokenFirst(Append(ps, b)))
<1> DEFINE s == Said("assistant", Texts(ps))
           c == CallItems("assistant", CallsAmong(ps))
           u == BlockTold("assistant", b)
           i == ToldOf("assistant", ps)
           pb == Append(ps, b)
<1>1. /\ b \in AnyBlocks /\ b.type \in {"text", "tool_use", "tool_result", "image"} \cup OtherTypes
      /\ pb \in Seq(AnyBlocks)
  BY KindsOf, BlockKinds DEF BlockTypes
<1>2. ToldOf("assistant", pb) = i \o u /\ Sequence(i) /\ Sequence(u)
  BY <1>1, ToldParts, BlockTells
<1>3. /\ Sequence(s) /\ \A it \in Range(s) : it.class = <<"assistant", "text">>
      /\ Sequence(c) /\ \A it \in Range(c) : it.class = <<"assistant", "call">>
      /\ SpokenFirst(ps) = s \o c /\ Sequence(s \o c)
  BY SpokenFirstOf
<1>4. Texts(pb) = Texts(ps) \o TextIn(b) /\ Texts(ps) \in Seq(Words) /\ TextIn(b) \in Seq(Words)
  BY <1>1, TextsTyped, TextsMore
<1>5. CallsAmong(pb) = IF b \in ToolUses THEN Append(CallsAmong(ps), b) ELSE CallsAmong(ps)
  <2>1. CallsAmong(pb) = Those(ToolUses, pb)
    BY <1>1, CallsAmongAre
  <2>2. CallsAmong(ps) = Those(ToolUses, ps) /\ Sequence(ps)
    BY CallsAmongAre, IsSequence
  <2>3. QED
    BY <2>1, <2>2, ThoseMore
<1>6. SpokenFirst(pb) = Said("assistant", Texts(pb)) \o CallItems("assistant", CallsAmong(pb))
  BY DEF SpokenFirst
<1>7. b \in ToolUses <=> b.type = "tool_use"
  BY <1>1, BlockKinds DEF ToolUses
<1>8. SameItems(i \o u, (s \o c) \o u)
  BY <1>2, <1>3, SameItself, SameJoined
<1> HIDE DEF i, pb
<1>9. CASE b.type = "text"
  <2>1. TextIn(b) = b.text /\ u = Said("assistant", b.text)
    BY <1>1, <1>9, BlockTells DEF TextIn
  <2>2. \A it \in Range(u) : it.class = <<"assistant", "text">>
    BY <1>4, <2>1, SaidClass
  <2>3. Said("assistant", Texts(pb)) = s \o u
    <3>1. Said("assistant", Texts(ps) \o b.text) = Said("assistant", Texts(ps)) \o Said("assistant", b.text)
      BY <1>4, <2>1, SaidJoined
    <3>2. Texts(pb) = Texts(ps) \o b.text
      BY <1>4, <2>1
    <3>3. QED
      BY <2>1, <3>1, <3>2, Zenon
  <2>4. SpokenFirst(pb) = (s \o u) \o c
    BY <1>5, <1>6, <1>7, <1>9, <2>3
  <2> HIDE DEF s, c, u
  <2>5. (s \o c) \o u = s \o (c \o u) /\ (s \o u) \o c = s \o (u \o c)
    <3>1. Sequence(s) /\ Sequence(c) /\ Sequence(u)
      BY <1>2, <1>3
    <3>2. (s \o c) \o u = s \o (c \o u)
      BY <3>1, JoinedAgain, SMTT(60)
    <3>3. (s \o u) \o c = s \o (u \o c)
      BY <3>1, JoinedAgain, SMTT(60)
    <3>4. QED
      BY <3>2, <3>3
  <2>6. SameItems(c \o u, u \o c) /\ Sequence(c \o u) /\ Sequence(u \o c)
    BY <1>2, <1>3, <2>2, Swapped, Joined
  <2>7. SameItems(s \o (c \o u), s \o (u \o c))
    BY <1>3, <2>6, SameItself, SameJoined
  <2>8. QED
    BY <1>2, <1>8, <2>4, <2>5, <2>7, SameFollows DEF pb
<1>10. CASE b.type = "tool_use"
  <2>1. TextIn(b) = <<>> /\ u = <<Item("assistant", "call", b)>>
    BY <1>1, <1>10, BlockTells DEF TextIn
  <2>2. Texts(ps) \o <<>> = Texts(ps)
    BY <1>4, IsSequence, JoinedFew
  <2>3. Texts(pb) = Texts(ps)
    BY <1>4, <2>1, <2>2
  <2>4. Sequence(CallsAmong(ps))
    BY CallsAmongAre
  <2>5. CallItems("assistant", Append(CallsAmong(ps), b)) = c \o <<Item("assistant", "call", b)>>
    BY <2>4, CallItemsMore
  <2>6. SpokenFirst(pb) = s \o (c \o u)
    BY <1>5, <1>6, <1>7, <1>10, <2>1, <2>3, <2>5
  <2> HIDE DEF s, c, u
  <2>7. (s \o c) \o u = s \o (c \o u)
    BY <1>2, <1>3, JoinedAgain, SMTT(60)
  <2>8. QED
    BY <1>2, <1>8, <2>6, <2>7 DEF pb
<1>11. CASE b.type \in {"tool_result", "image"} \cup OtherTypes
  <2>1. TextIn(b) = <<>> /\ u = <<>> /\ b.type # "tool_use"
    BY <1>1, <1>11, BlockTells DEF TextIn, OtherTypes
  <2>2. Texts(ps) \o <<>> = Texts(ps)
    BY <1>4, IsSequence, JoinedFew
  <2>3. Texts(pb) = Texts(ps)
    BY <1>4, <2>1, <2>2
  <2>4. SpokenFirst(pb) = s \o c
    BY <1>5, <1>6, <1>7, <2>1, <2>3
  <2> HIDE DEF s, c, u
  <2>5. (s \o c) \o <<>> = s \o c
    BY <1>3, JoinedFew
  <2>6. QED
    BY <1>2, <1>8, <2>1, <2>4, <2>5 DEF pb
<1>12. QED
  BY <1>1, <1>9, <1>10, <1>11

LEMMA AssistantSent ==
  ASSUME NEW bs \in Seq(Blocks)
  PROVE  SameItems(ToldOf("assistant", bs), SpokenFirst(bs))
<1> DEFINE T == {x \in Firsts(bs) : x \in Seq(AnyBlocks) /\ SameItems(ToldOf("assistant", x), SpokenFirst(x))}
<1>1. Blocks \subseteq AnyBlocks /\ Sequence(bs) /\ \A n \in 1 .. Len(bs) : bs[n] \in Blocks
  BY KindsOf, IsSequence
<1>2. <<>> \in T
  <2>1. <<>> \in Firsts(bs) /\ <<>> \in Seq(AnyBlocks)
    BY <1>1, FirstsOf
  <2>2. Texts(<<>>) = <<>> /\ CallsAmong(<<>>) = <<>>
    <3>1. Sequence(<<>>) /\ Worded(<<>>) /\ \A b \in AnyBlocks : Sequence(TextIn(b))
      BY <2>1, TextsTyped
    <3>2. <<>> \in Seq(Words) /\ TextBlock(<<>>) \in AnyBlocks
      <4>1. <<>> \in Seq(Words)
        OBVIOUS
      <4>2. QED
        BY <4>1, TextBlockKind
    <3>3. Texts(<<>>) = <<>>
      BY <3>1, <3>2, TextsMore
    <3>4. CallsAmong(<<>>) = Those(ToolUses, <<>>)
      BY <2>1, CallsAmongAre
    <3>5. QED
      BY <3>3, <3>4, ThoseNothing
  <2>3. <<>> \o <<>> = <<>>
    BY Nothing, NothingJoined
  <2>4. ToldOf("assistant", <<>>) = <<>> /\ SpokenFirst(<<>>) = <<>>
    BY <2>1, <2>2, <2>3, ToldParts, SaidNothing, CallsNothing DEF SpokenFirst
  <2>5. QED
    BY <2>1, <2>4, SameItself
<1>3. ASSUME NEW k \in 1 .. Len(bs), SubSeq(bs, 1, k - 1) \in T
      PROVE  Append(SubSeq(bs, 1, k - 1), bs[k]) \in T
  <2> DEFINE q == SubSeq(bs, 1, k - 1)
             e == bs[k]
  <2>1. Append(q, e) \in Firsts(bs)
    BY <1>1, FirstsOf
  <2>2. q \in Seq(AnyBlocks) /\ SameItems(ToldOf("assistant", q), SpokenFirst(q)) /\ e \in Blocks
    BY <1>1, <1>3
  <2> HIDE DEF q, e
  <2>3. Append(q, e) \in Seq(AnyBlocks)
    BY <1>1, <2>2
  <2>4. SameItems(ToldOf("assistant", Append(q, e)), SpokenFirst(Append(q, e)))
    BY <2>2, AssistantStep
  <2>5. QED
    BY <2>1, <2>3, <2>4 DEF q, e
<1> HIDE DEF T
<1>4. bs \in T
  BY <1>1, <1>2, <1>3, BySteps
<1>5. QED
  BY <1>4 DEF T

LEMMA SpokenSent ==
  ASSUME NEW bs \in Seq(AnyBlocks)
  PROVE  Sendable(AssistantMessage(bs)) /\ SentOf(AssistantMessage(bs)) = SpokenFirst(bs)
<1> DEFINE text  == Texts(bs)
           calls == CallsAmong(bs)
           parts == IF text = <<>> THEN <<>> ELSE <<TextBlock(text)>>
           cm    == ChatMessage("assistant", parts, calls, NoName)
<1>1. AssistantMessage(bs) = IF text = <<>> /\ calls = <<>> THEN <<>> ELSE <<cm>>
  BY DEF AssistantMessage, CallsAmong
<1>2. text \in Seq(Words) /\ Sequence(calls)
  BY TextsTyped, CallsAmongAre
<1>3. SpokenFirst(bs) = Said("assistant", text) \o CallItems("assistant", calls) /\ Sequence(SpokenFirst(bs))
  BY SpokenFirstOf DEF SpokenFirst
<1> HIDE DEF text, calls
<1>4. ItemsOf("assistant", parts) = Said("assistant", text)
  <2>1. CASE text = <<>>
    BY <2>1, ItemsNothing, SaidNothing
  <2>2. CASE text # <<>>
    BY <1>2, <2>2, StrItems
  <2>3. QED
    BY <2>1, <2>2
<1>5. cm.role = "assistant" /\ cm.parts = parts /\ cm.calls = calls
  BY DEF ChatMessage
<1>6. Sent(cm) = ContentItems(cm.role, List(cm.parts))
                   \o [n \in DOMAIN cm.calls |-> Item(cm.role, "call", cm.calls[n])]
  BY <1>5 DEF Sent
<1> HIDE DEF parts, cm
<1>7. BlocksFromRaw(List(parts)) = parts
  BY DEF BlocksFromRaw, List
<1>8. ContentItems("assistant", List(parts)) = ItemsOf("assistant", parts)
  BY <1>7 DEF ContentItems, ItemsOf
<1>9. [n \in DOMAIN cm.calls |-> Item(cm.role, "call", cm.calls[n])] = CallItems("assistant", calls)
  BY <1>5 DEF CallItems
<1>10. Sent(cm) = SpokenFirst(bs)
  BY <1>3, <1>4, <1>5, <1>6, <1>8, <1>9
<1>11. CASE text = <<>> /\ calls = <<>>
  <2>1. <<>> \o <<>> = <<>>
    BY Nothing, NothingJoined
  <2>2. SpokenFirst(bs) = <<>>
    BY <1>3, <1>11, <2>1, SaidNothing, CallsNothing
  <2>3. QED
    BY <1>1, <1>11, <2>2, SentNothing
<1>12. CASE ~(text = <<>> /\ calls = <<>>)
  BY <1>1, <1>3, <1>10, <1>12, SentOne
<1>13. QED
  BY <1>11, <1>12

-----------------------------------------------------------------------------
(***************************************************************************)
(* What kinds of items there are, and the translation of a message.        *)
(***************************************************************************)

TurnClasses == {<<"user", "text">>, <<"user", "picture">>, <<"assistant", "text">>,
                <<"assistant", "call">>, <<"user", "result">>}

LEMMA TurnClassesOf ==
  /\ \A c \in TurnClasses : c \in Classes /\ c[1] # "system"
  /\ \A c \in Classes : c[1] # "system" => c \in TurnClasses
BY DEF TurnClasses, Classes

LEMMA ItemKinds ==
  ASSUME NEW who, NEW b \in AnyBlocks, NEW it \in Range(BlockItems(who, b))
  PROVE  \/ b.type = "text" /\ \E x \in Range(b.text) : it = Word(who, x)
         \/ b.type = "tool_use" /\ it = Item(who, "call", b)
         \/ b.type = "tool_result" /\ it = Item(who, "result", ToolResult(b.i, b.content))
         \/ b.type \in OtherTypes /\ it = Item(who, "other", Other(b.type, b.text))
         \/ b.type \in {"image", "image_url"} /\ \E x : it = Item(who, "picture", x)
<1>1. /\ b.type \in BlockTypes /\ (b.type = "text" => b.text \in Seq(Words))
      /\ b.type \in OtherTypes => b = Other(b.type, b.text)
  BY BlockKinds
<1>2. \A x : Range(<<x>>) = {x}
  BY RangeOne
<1>3. Range(<<>>) = {}
  BY DEF Range
<1>5. CASE b.type = "text"
  <2>1. it \in Range(Said(who, b.text)) /\ b.text \in Seq(Words)
    BY <1>1, <1>5, BlockIs
  <2>2. \E x \in Range(b.text) : it = Word(who, x)
    BY <2>1, SaidMap
  <2>3. QED
    BY <1>5, <2>2
<1>6. CASE b.type = "tool_use"
  <2>1. it \in Range(<<Item(who, "call", b)>>)
    BY <1>6, BlockIs
  <2>2. QED
    BY <1>2, <1>6, <2>1
<1>7. CASE b.type = "tool_result"
  <2>1. it \in Range(<<Item(who, "result", ToolResult(b.i, b.content))>>)
    BY <1>7, Raised
  <2>2. QED
    BY <1>2, <1>7, <2>1
<1>8. CASE b.type = "image_url"
  <2>1. BlockItems(who, b) = IF b.url # NoURL THEN <<Item(who, "picture", b)>> ELSE <<>>
    BY <1>8, BlockIs
  <2>2. it = Item(who, "picture", b)
    BY <1>2, <1>3, <2>1
  <2>3. QED
    BY <1>8, <2>2
<1>9. CASE b.type = "image"
  <2>1. BlockItems(who, b) = IF UrlOf(b.source) # NoURL
                             THEN <<Item(who, "picture", ImageURL(UrlOf(b.source)))>> ELSE <<>>
    BY <1>9, BlockIs
  <2>2. it = Item(who, "picture", ImageURL(UrlOf(b.source)))
    BY <1>2, <1>3, <2>1
  <2>3. QED
    BY <1>9, <2>2
<1>10. CASE b.type \in OtherTypes
  <2>1. BlockItems(who, b) = <<Item(who, "other", b)>>
    BY <1>10, BlockIs
  <2>2. it = Item(who, "other", b)
    BY <1>2, <2>1
  <2>3. it = Item(who, "other", Other(b.type, b.text))
    BY <1>1, <1>10, <2>2, Zenon
  <2>4. QED
    BY <1>10, <2>3
<1>11. QED
  BY <1>1, <1>5, <1>6, <1>7, <1>8, <1>9, <1>10 DEF BlockTypes

\* Whose the items are, and what is flat once it is redacted.
LEMMA ItemsAre ==
  ASSUME NEW who, NEW b \in AnyBlocks, NEW it \in Range(BlockItems(who, b))
  PROVE  /\ it.class[1] = who /\ FlattenItem(it).class = it.class
         /\ FlattenItem(RedactItem(it)) = RedactItem(it)
         /\ FlattenItem(EmptyItem(RedactItem(it))) = EmptyItem(RedactItem(it))
<1>1. \/ b.type = "text" /\ \E x \in Range(b.text) : it = Word(who, x)
      \/ b.type = "tool_use" /\ it = Item(who, "call", b)
      \/ b.type = "tool_result" /\ it = Item(who, "result", ToolResult(b.i, b.content))
      \/ b.type \in OtherTypes /\ it = Item(who, "other", Other(b.type, b.text))
      \/ b.type \in {"image", "image_url"} /\ \E x : it = Item(who, "picture", x)
  BY ItemKinds
<1>2. CASE \E x \in Range(b.text) : it = Word(who, x)
  <2>1. PICK x : it = Word(who, x)
    BY <1>2
  <2> DEFINE y == IF x \in Personal THEN "[REDACTED]" ELSE x
  <2>2. RedactItem(it) = Word(who, y)
    BY <2>1, WordRedacted
  <2> HIDE DEF y
  <2>3. it.class = <<who, "text">> /\ FlattenItem(it) = it
    BY <2>1, WordIs
  <2>4. FlattenItem(Word(who, y)) = Word(who, y) /\ EmptyItem(Word(who, y)) = Word(who, y)
    BY WordIs
  <2>5. QED
    BY <2>2, <2>3, <2>4
<1>3. CASE \E kind \in {"call", "picture"} : \E x : it = Item(who, kind, x)
  <2>1. PICK kind \in {"call", "picture"} : \E x : it = Item(who, kind, x)
    BY <1>3
  <2>2. PICK x : it = Item(who, kind, x)
    BY <2>1
  <2>3. it.class = <<who, kind>> /\ FlattenItem(it) = it /\ EmptyItem(it) = it /\ RedactItem(it) = it
    BY <2>2, KindKept
  <2>4. QED
    BY <2>3
<1>4. CASE b.type = "tool_result" /\ it = Item(who, "result", ToolResult(b.i, b.content))
  <2> DEFINE t == Redact(FlattenContent(b.content))
             r == ResultItem(who, b.i, t)
  <2>1. FlattenContent(b.content) \in Seq(Words)
    BY <1>4, Raised
  <2>2. t \in Seq(Words)
    BY <2>1, RedactTyped
  <2>3. it.class = <<who, "result">> /\ RedactItem(it) = r /\ FlattenItem(it).class = <<who, "result">>
    <3>1. \A u : ResultItem(who, b.i, u).class = <<who, "result">>
      BY DEF ResultItem, Item
    <3>2. QED
      BY <1>4, <3>1, ResultKept
  <2> HIDE DEF t
  <2>4. r = Item(who, "result", ToolResult(b.i, Str(t)))
    BY DEF ResultItem
  <2>5. FlattenItem(r) = ResultItem(who, b.i, FlattenContent(Str(t))) /\ EmptyItem(r) = r
    BY <2>4, ResultKept
  <2>6. FlattenContent(Str(t)) = t
    BY <2>2, FlattenStr
  <2>7. FlattenItem(r) = r
    BY <2>5, <2>6, Zenon
  <2> HIDE DEF r
  <2>8. QED
    BY <2>3, <2>5, <2>7
<1>5. CASE b.type \in OtherTypes /\ it = Item(who, "other", Other(b.type, b.text))
  <2>1. it.class = <<who, "other">> /\ FlattenItem(it) = it /\ RedactItem(it) = it
    BY <1>5, OtherKept
  <2>2. EmptyItem(it) = Item(who, "other", Other(b.type, <<>>))
    BY <1>5, OtherKept
  <2>3. FlattenItem(Item(who, "other", Other(b.type, <<>>))) = Item(who, "other", Other(b.type, <<>>))
    BY OtherKept
  <2>4. QED
    BY <2>1, <2>2, <2>3
<1>6. QED
  BY <1>1, <1>2, <1>3, <1>4, <1>5

LEMMA ItemsFrom ==
  ASSUME NEW who, NEW bs \in Seq(AnyBlocks), NEW it
  PROVE  it \in Range(ItemsOf(who, bs)) <=> \E n \in 1 .. Len(bs) : it \in Range(BlockItems(who, bs[n]))
<1> DEFINE f == [n \in DOMAIN bs |-> BlockItems(who, bs[n])]
<1>1. ItemsOf(who, bs) = FlattenSeq(f) /\ Nested(f)
  BY ItemsBound
<1>2. DOMAIN bs = 1 .. Len(bs) /\ Len(bs) \in Nat
  BY IsSequence, Elements
<1>3. DOMAIN f = 1 .. Len(bs) /\ \A n \in 1 .. Len(bs) : f[n] = BlockItems(who, bs[n])
  BY <1>2
<1>4. f = [n \in 1 .. Len(bs) |-> f[n]]
  BY <1>2
<1> HIDE DEF f
<1>5. Len(f) = Len(bs)
  BY <1>2, <1>3, <1>4, Listed
<1>6. Sequence(f) /\ \A n \in 1 .. Len(f) : Sequence(f[n])
  BY <1>1 DEF Nested
<1>7. it \in Range(FlattenSeq(f)) <=> \E n \in 1 .. Len(f) : it \in Range(f[n])
  BY <1>6, FlatRange
<1>8. QED
  BY <1>1, <1>3, <1>5, <1>7

LEMMA UserClasses ==
  ASSUME NEW bs \in Seq(AnyBlocks), NEW it \in Range(ToldOf("user", bs))
  PROVE  it.class \in TurnClasses
<1>1. Sequence(ItemsOf("user", bs))
  BY ItemsBound
<1>2. it.class \in Classes /\ \E x \in Range(ItemsOf("user", bs)) : it = FlattenItem(x)
  BY <1>1, TellableOf DEF ToldOf
<1>3. PICK x \in Range(ItemsOf("user", bs)) : it = FlattenItem(x)
  BY <1>2
<1>4. PICK n \in 1 .. Len(bs) : x \in Range(BlockItems("user", bs[n]))
  BY <1>3, ItemsFrom
<1> DEFINE b == bs[n]
<1>5. b \in AnyBlocks /\ x \in Range(BlockItems("user", b))
  BY <1>4
<1> HIDE DEF b
<1>6. x.class[1] = "user" /\ FlattenItem(x).class = x.class
  BY <1>5, ItemsAre
<1>7. it.class[1] # "system"
  BY <1>3, <1>6
<1>8. QED
  BY <1>2, <1>7, TurnClassesOf

LEMMA SpokenClasses ==
  ASSUME NEW bs \in Seq(AnyBlocks), NEW it \in Range(SpokenFirst(bs))
  PROVE  it.class \in TurnClasses
<1> DEFINE s == Said("assistant", Texts(bs))
           c == CallItems("assistant", CallsAmong(bs))
<1>1. /\ Sequence(s) /\ \A x \in Range(s) : x.class = <<"assistant", "text">>
      /\ Sequence(c) /\ \A x \in Range(c) : x.class = <<"assistant", "call">>
      /\ SpokenFirst(bs) = s \o c
  BY SpokenFirstOf
<1> HIDE DEF s, c
<1>2. Range(s \o c) = Range(s) \cup Range(c)
  BY <1>1, RangeJoined
<1>3. it.class \in {<<"assistant", "text">>, <<"assistant", "call">>}
  BY <1>1, <1>2
<1>4. QED
  BY <1>3 DEF TurnClasses

\* A turn, translated.
TurnSent(am) == LET bs == BlocksFromRaw(am.content)
                IN  IF am.role = "assistant" THEN AssistantMessage(bs) ELSE UserMessages(bs)

LEMMA TurnTranslated ==
  ASSUME NEW am \in Turns
  PROVE  /\ Sendable(TurnSent(am)) /\ Sequence(TurnSent(am)) /\ Sequence(SentOf(TurnSent(am)))
         /\ SameItems(Tellable(ContentItems(am.role, am.content)), SentOf(TurnSent(am)))
         /\ \A it \in Range(SentOf(TurnSent(am))) : it.class \in TurnClasses
<1> DEFINE bs == BlocksFromRaw(am.content)
           ts == TurnSent(am)
<1>1. /\ am.role \in {"user", "assistant"} /\ bs \in Seq(AnyBlocks) /\ bs \in Seq(Blocks)
      /\ ContentItems(am.role, am.content) = ItemsOf(am.role, bs)
  BY TurnKinds
<1>2. Tellable(ContentItems(am.role, am.content)) = ToldOf(am.role, bs)
  BY <1>1, Zenon DEF ToldOf
<1>3. CASE am.role = "assistant"
  <2>1. ts = AssistantMessage(bs)
    BY <1>3 DEF TurnSent
  <2> HIDE DEF bs, ts
  <2>2. Sendable(ts) /\ SentOf(ts) = SpokenFirst(bs) /\ Sequence(SpokenFirst(bs))
    BY <1>1, <2>1, SpokenSent, SpokenFirstOf
  <2>3. SameItems(ToldOf("assistant", bs), SpokenFirst(bs))
    BY <1>1, AssistantSent
  <2>4. \A it \in Range(SpokenFirst(bs)) : it.class \in TurnClasses
    BY <1>1, SpokenClasses
  <2>5. Sequence(ts)
    BY <2>2 DEF Sendable
  <2>6. QED
    BY <1>2, <1>3, <2>2, <2>3, <2>4, <2>5 DEF ts
<1>4. CASE am.role = "user"
  <2>1. ts = UserMessages(bs)
    BY <1>4 DEF TurnSent
  <2> HIDE DEF bs, ts
  <2>2. Sendable(ts) /\ SentOf(ts) = ToldOf("user", bs) /\ Sequence(ToldOf("user", bs))
    BY <1>1, <2>1, UserSent, ToldParts
  <2>3. \A it \in Range(ToldOf("user", bs)) : it.class \in TurnClasses
    BY <1>1, UserClasses
  <2>4. Sequence(ts)
    BY <2>2 DEF Sendable
  <2>5. QED
    BY <1>2, <1>4, <2>2, <2>3, <2>4, SameItself DEF ts
<1>5. QED
  BY <1>1, <1>3, <1>4

\* What is sent of all turns.
TurnsSent(ms) == FlattenSeq([n \in DOMAIN ms |-> SentOf(TurnSent(ms[n]))])

LEMMA TurnsTranslated ==
  ASSUME NEW ms \in Seq(Turns)
  PROVE  LET all == Each(TurnSent, ms)
         IN  /\ Sendable(all) /\ SentOf(all) = TurnsSent(ms)
             /\ Sequence(TurnsSent(ms)) /\ SameItems(Tellable(TurnItemsOf(ms)), TurnsSent(ms))
             /\ \A it \in Range(TurnsSent(ms)) : it.class \in TurnClasses
<1> DEFINE k == Len(ms)
           f == [n \in DOMAIN ms |-> TurnSent(ms[n])]
           g == [n \in DOMAIN ms |-> SentOf(TurnSent(ms[n]))]
           h == [n \in DOMAIN ms |-> ContentItems(ms[n].role, ms[n].content)]
<1>1. Each(TurnSent, ms) = FlattenSeq(f) /\ TurnsSent(ms) = FlattenSeq(g)
  BY DEF Each, TurnsSent
<1>2. k \in Nat /\ DOMAIN ms = 1 .. k /\ \A n \in 1 .. k : ms[n] \in Turns
  OBVIOUS
<1>3. /\ DOMAIN f = 1 .. k /\ f = [n \in 1 .. k |-> f[n]] /\ \A n \in 1 .. k : f[n] = TurnSent(ms[n])
      /\ DOMAIN g = 1 .. k /\ g = [n \in 1 .. k |-> g[n]] /\ \A n \in 1 .. k : g[n] = SentOf(f[n])
  BY <1>2
<1>4. TurnItemsOf(ms) = FlattenSeq(h) /\ Nested(h) /\ Len(h) = k
  BY TurnsOf
<1>5. DOMAIN h = 1 .. k /\ \A n \in 1 .. k : h[n] = ContentItems(ms[n].role, ms[n].content)
  BY <1>2
<1> HIDE DEF k, f, g, h
<1>6. \A n \in 1 .. k : /\ Sendable(f[n]) /\ Sequence(f[n]) /\ Sequence(g[n])
                        /\ SameItems(Tellable(h[n]), g[n])
                        /\ \A it \in Range(g[n]) : it.class \in TurnClasses
  <2> SUFFICES ASSUME NEW n \in 1 .. k
               PROVE  /\ Sendable(f[n]) /\ Sequence(f[n]) /\ Sequence(g[n]) /\ SameItems(Tellable(h[n]), g[n])
                      /\ \A it \in Range(g[n]) : it.class \in TurnClasses
    OBVIOUS
  <2> DEFINE am == ms[n]
  <2>1. am \in Turns /\ f[n] = TurnSent(am) /\ g[n] = SentOf(TurnSent(am)) /\ h[n] = ContentItems(am.role, am.content)
    BY <1>2, <1>3, <1>5
  <2> HIDE DEF am
  <2>2. QED
    BY <2>1, TurnTranslated
<1>7. Nested(f) /\ Len(f) = k
  BY <1>2, <1>3, <1>6, ListOf
<1>8. Nested(g) /\ Len(g) = k /\ Sequence(FlattenSeq(g))
  BY <1>2, <1>3, <1>6, ListOf
<1>9. Sendable(FlattenSeq(f)) /\ SentOf(FlattenSeq(f)) = FlattenSeq([n \in DOMAIN f |-> SentOf(f[n])])
  BY <1>6, <1>7, SentFlat
<1>10. [n \in DOMAIN f |-> SentOf(f[n])] = g
  BY <1>3
<1>11. SameItems(Tellable(FlattenSeq(h)), FlattenSeq(g))
  <2> DEFINE j == [n \in DOMAIN h |-> Tellable(h[n])]
  <2>1. Tellable(FlattenSeq(h)) = FlattenSeq(j)
    BY <1>4, TellableFlat
  <2>2. DOMAIN j = 1 .. k /\ j = [n \in 1 .. k |-> j[n]] /\ \A n \in 1 .. k : j[n] = Tellable(h[n])
    BY <1>5
  <2>3. \A n \in 1 .. k : Sequence(h[n])
    BY <1>4 DEF Nested
  <2> HIDE DEF j
  <2>4. \A n \in 1 .. k : Sequence(j[n])
    BY <2>2, <2>3, TellableOf
  <2>5. Nested(j) /\ Len(j) = k
    BY <1>2, <2>2, <2>4, ListOf
  <2>6. \A n \in 1 .. k : SameItems(j[n], g[n])
    BY <1>6, <2>2
  <2>7. QED
    BY <1>8, <2>1, <2>5, <2>6, SameFlat
<1>12. \A it \in Range(FlattenSeq(g)) : it.class \in TurnClasses
  <2>1. Sequence(g) /\ \A n \in 1 .. Len(g) : Sequence(g[n])
    BY <1>8 DEF Nested
  <2>2. \A it \in Range(FlattenSeq(g)) : \E n \in 1 .. Len(g) : it \in Range(g[n])
    BY <2>1, FlatRange
  <2>3. QED
    BY <1>6, <1>8, <2>2
<1>13. QED
  BY <1>1, <1>4, <1>8, <1>9, <1>10, <1>11, <1>12

LEMMA Translation ==
  ASSUME NEW m, SystemText(m.system) \in Seq(Words), m.messages \in Seq(Turns)
  PROVE  /\ SentOf(TranslateRequest(m).messages)
              = Said("system", SystemText(m.system)) \o TurnsSent(m.messages)
         /\ TranslateRequest(m).choice = TranslateChoice(m.choice)
<1> DEFINE told == SystemText(m.system)
           all  == Each(TurnSent, m.messages)
           cm   == ChatMessage("system", <<TextBlock(told)>>, <<>>, NoName)
           head == IF told = <<>> THEN <<>> ELSE <<cm>>
<1>1. TranslateRequest(m).messages = head \o all /\ TranslateRequest(m).choice = TranslateChoice(m.choice)
  BY DEF TranslateRequest, Each, TurnSent
<1>2. Sendable(all) /\ SentOf(all) = TurnsSent(m.messages)
  BY TurnsTranslated
<1>3. told \in Seq(Words)
  OBVIOUS
<1> HIDE DEF told, all
<1>4. Sendable(head) /\ SentOf(head) = Said("system", told)
  <2>1. CASE told = <<>>
    BY <2>1, SentNothing, SaidNothing
  <2>2. CASE told # <<>>
    <3>1. <<TextBlock(told)>> \in Seq(AnyBlocks) /\ ItemsOf("system", <<TextBlock(told)>>) = Said("system", told)
      BY <1>3, TextBlockKind, StrItems
    <3>2. Sent(cm) = Said("system", told) /\ Sequence(Said("system", told))
      BY <1>3, <3>1, SentParts, SaidClass
    <3> HIDE DEF cm
    <3>3. Sendable(<<cm>>) /\ SentOf(<<cm>>) = Sent(cm)
      BY <3>2, SentOne
    <3>4. QED
      BY <2>2, <3>2, <3>3
  <2>3. QED
    BY <2>1, <2>2
<1> HIDE DEF head, cm
<1>5. SentOf(head \o all) = SentOf(head) \o SentOf(all)
  BY <1>2, <1>4, SentJoined
<1>6. QED
  BY <1>1, <1>2, <1>4, <1>5 DEF told

-----------------------------------------------------------------------------
(***************************************************************************)
(* The words of the items.                                                 *)
(***************************************************************************)

ItemWords(it) ==
  CASE it.class[2] = "text"   -> Range(it.what.text)
    [] it.class[2] = "result" -> Range(FlattenContent(it.what.content))
    [] it.class[2] = "call"   -> Range(it.what.args)
    [] OTHER -> {}

LEMMA WordsFrom ==
  ASSUME NEW s, NEW w
  PROVE  w \in WordsIn(s) <=> \E it \in Range(s) : w \in ItemWords(it)
<1>1. WordsIn(s) = UNION {ItemWords(s[n]) : n \in DOMAIN s}
  BY DEF WordsIn, ItemWords
<1>2. QED
  BY <1>1 DEF Range

LEMMA ItemHas ==
  /\ \A who, x : ItemWords(Word(who, x)) = {x}
  /\ \A who, i, raw : ItemWords(Item(who, "result", ToolResult(i, raw))) = Range(FlattenContent(raw))
  /\ \A who, b : ItemWords(Item(who, "call", b)) = Range(b.args)
  /\ \A it : it.class[2] \in {"picture", "other"} => ItemWords(it) = {}
<1>1. ASSUME NEW who, NEW x PROVE ItemWords(Word(who, x)) = {x}
  <2>1. Word(who, x).class = <<who, "text">> /\ Word(who, x).what.text = <<x>> /\ Range(<<x>>) = {x}
    BY WordRedacted, RangeOne
  <2>2. QED
    BY <2>1 DEF ItemWords
<1>2. ASSUME NEW who, NEW i, NEW raw
      PROVE  ItemWords(Item(who, "result", ToolResult(i, raw))) = Range(FlattenContent(raw))
  <2> DEFINE it == Item(who, "result", ToolResult(i, raw))
  <2>1. it.class = <<who, "result">> /\ it.what.content = raw
    BY ResultKept
  <2> HIDE DEF it
  <2>2. ItemWords(it) = Range(FlattenContent(it.what.content))
    BY <2>1 DEF ItemWords
  <2>3. QED
    BY <2>1, <2>2, Zenon DEF it
<1>3. ASSUME NEW who, NEW b PROVE ItemWords(Item(who, "call", b)) = Range(b.args)
  <2>1. Item(who, "call", b).class = <<who, "call">> /\ Item(who, "call", b).what = b
    BY DEF Item
  <2>2. QED
    BY <2>1 DEF ItemWords
<1>4. ASSUME NEW it, it.class[2] \in {"picture", "other"} PROVE ItemWords(it) = {}
  BY <1>4 DEF ItemWords
<1>5. QED
  BY <1>1, <1>2, <1>3, <1>4

\* A flat item has the words of the item, and a redacted one no personal word, but a call.
LEMMA WordsAre ==
  ASSUME NEW who, NEW b \in AnyBlocks, NEW it \in Range(BlockItems(who, b))
  PROVE  LET r == RedactItem(it)
             e == EmptyItem(r)
         IN  /\ ItemWords(FlattenItem(it)) = ItemWords(it)
             /\ r.class = it.class /\ e.class = it.class
             /\ it.class[2] # "call" => ItemWords(r) \cap Personal = {} /\ ItemWords(e) \cap Personal = {}
<1> DEFINE r == RedactItem(it)
           e == EmptyItem(r)
<1>1. \/ b.type = "text" /\ \E x \in Range(b.text) : it = Word(who, x)
      \/ b.type = "tool_use" /\ it = Item(who, "call", b)
      \/ b.type = "tool_result" /\ it = Item(who, "result", ToolResult(b.i, b.content))
      \/ b.type \in OtherTypes /\ it = Item(who, "other", Other(b.type, b.text))
      \/ b.type \in {"image", "image_url"} /\ \E x : it = Item(who, "picture", x)
  BY ItemKinds
<1>2. CASE \E x \in Range(b.text) : it = Word(who, x)
  <2>1. PICK x : it = Word(who, x)
    BY <1>2
  <2> DEFINE y == IF x \in Personal THEN "[REDACTED]" ELSE x
  <2>2. r = Word(who, y)
    BY <2>1, WordRedacted
  <2>3. y \notin Personal
    BY WordsAssumption
  <2> HIDE DEF y, r
  <2>4. it.class = <<who, "text">> /\ FlattenItem(it) = it
    BY <2>1, WordIs
  <2>5. r.class = <<who, "text">> /\ e = r
    BY <2>2, WordIs
  <2>6. ItemWords(r) = {y}
    BY <2>2, ItemHas
  <2> HIDE DEF e
  <2>7. QED
    BY <2>3, <2>4, <2>5, <2>6 DEF r, e
<1>3. CASE it = Item(who, "call", b)
  <2>1. it.class = <<who, "call">> /\ FlattenItem(it) = it /\ EmptyItem(it) = it /\ RedactItem(it) = it
    BY <1>3, KindKept
  <2>2. QED
    BY <2>1
<1>4. CASE b.type = "tool_result" /\ it = Item(who, "result", ToolResult(b.i, b.content))
  <2> DEFINE f == FlattenContent(b.content)
             t == Redact(f)
  <2>1. f \in Seq(Words)
    BY <1>4, Raised
  <2>2. t \in Seq(Words) /\ Range(t) \cap Personal = {}
    BY <2>1, RedactTyped
  <2>3. it.class = <<who, "result">> /\ r = ResultItem(who, b.i, t) /\ FlattenItem(it) = ResultItem(who, b.i, f)
    BY <1>4, ResultKept
  <2>4. ItemWords(it) = Range(f)
    BY <1>4, ItemHas
  <2> HIDE DEF f, t
  <2>5. ASSUME NEW u \in Seq(Words)
        PROVE  /\ ItemWords(ResultItem(who, b.i, u)) = Range(u)
               /\ EmptyItem(ResultItem(who, b.i, u)) = ResultItem(who, b.i, u)
               /\ ResultItem(who, b.i, u).class = <<who, "result">>
    <3>1. FlattenContent(Str(u)) = u
      BY FlattenStr
    <3>2. ItemWords(Item(who, "result", ToolResult(b.i, Str(u)))) = Range(FlattenContent(Str(u)))
      BY ItemHas
    <3>3. /\ EmptyItem(Item(who, "result", ToolResult(b.i, Str(u)))) = Item(who, "result", ToolResult(b.i, Str(u)))
          /\ Item(who, "result", ToolResult(b.i, Str(u))).class = <<who, "result">>
      BY ResultKept
    <3>4. QED
      BY <3>1, <3>2, <3>3, Zenon DEF ResultItem
  <2> HIDE DEF r
  <2>6. e = r /\ r.class = <<who, "result">> /\ ItemWords(r) = Range(t)
    BY <2>2, <2>3, <2>5
  <2>7. ItemWords(FlattenItem(it)) = ItemWords(it)
    BY <2>1, <2>3, <2>4, <2>5
  <2> HIDE DEF e
  <2>8. QED
    BY <2>2, <2>3, <2>6, <2>7 DEF r, e
<1>5. CASE b.type \in OtherTypes /\ it = Item(who, "other", Other(b.type, b.text))
  <2>1. it.class = <<who, "other">> /\ FlattenItem(it) = it /\ r = it
    BY <1>5, OtherKept
  <2>2. EmptyItem(it) = Item(who, "other", Other(b.type, <<>>))
    BY <1>5, OtherKept
  <2>3. EmptyItem(it).class = <<who, "other">>
    BY <2>2, OtherKept
  <2>4. ItemWords(it) = {} /\ ItemWords(EmptyItem(it)) = {}
    BY <2>1, <2>3, ItemHas
  <2>5. QED
    BY <2>1, <2>3, <2>4
<1>6. CASE \E x : it = Item(who, "picture", x)
  <2>1. PICK x : it = Item(who, "picture", x)
    BY <1>6
  <2>2. it.class = <<who, "picture">> /\ FlattenItem(it) = it /\ EmptyItem(it) = it /\ RedactItem(it) = it
    BY <2>1, KindKept
  <2>3. ItemWords(it) = {}
    BY <2>2, ItemHas
  <2>4. QED
    BY <2>2, <2>3
<1>7. QED
  BY <1>1, <1>2, <1>3, <1>4, <1>5, <1>6

\* What has the same items says nothing more.
LEMMA SameWords ==
  ASSUME NEW s, NEW t, Sequence(s), Sequence(t), SameItems(s, t), \A it \in Range(t) : it.class \in Classes
  PROVE  WordsIn(t) \subseteq WordsIn(s)
<1> SUFFICES ASSUME NEW w \in WordsIn(t) PROVE w \in WordsIn(s)
  OBVIOUS
<1>1. PICK it \in Range(t) : w \in ItemWords(it)
  BY WordsFrom
<1> DEFINE c == it.class
<1>2. c \in Classes /\ {c, c} \notin Unordered
  <2>1. c \in Classes
    OBVIOUS
  <2> DEFINE a == <<"assistant", "text">>
             b == <<"assistant", "call">>
  <2>2. a # b
    OBVIOUS
  <2>3. Unordered = {{a, b}}
    BY DEF Unordered
  <2> HIDE DEF a, b, c
  <2>4. {c, c} # {a, b}
    BY <2>2
  <2>5. QED
    BY <2>1, <2>3, <2>4
<1>3. it.class \in {c, c}
  OBVIOUS
<1> HIDE DEF c
<1>4. OfClass({c, c}, s) = OfClass({c, c}, t)
  BY <1>2 DEF SameItems
<1>5. it \in Range(OfClass({c, c}, t))
  BY <1>3, OfClassOf
<1>6. it \in Range(s)
  BY <1>4, <1>5, OfClassOf
<1>7. QED
  BY <1>1, <1>6, WordsFrom

LEMMA WordsJoined ==
  ASSUME NEW s, NEW t, Sequence(s), Sequence(t)
  PROVE  WordsIn(s \o t) = WordsIn(s) \cup WordsIn(t)
<1>1. Range(s \o t) = Range(s) \cup Range(t)
  BY RangeJoined
<1>2. ASSUME NEW w PROVE w \in WordsIn(s \o t) <=> w \in WordsIn(s) \cup WordsIn(t)
  BY <1>1, WordsFrom
<1>3. QED
  BY <1>2

LEMMA SaidWords ==
  ASSUME NEW who, NEW t \in Seq(Words)
  PROVE  WordsIn(Said(who, t)) \subseteq Range(t)
<1> SUFFICES ASSUME NEW w \in WordsIn(Said(who, t)) PROVE w \in Range(t)
  OBVIOUS
<1>1. PICK it \in Range(Said(who, t)) : w \in ItemWords(it)
  BY WordsFrom
<1>2. PICK x \in Range(t) : it = Word(who, x)
  BY SaidMap
<1>3. w = x
  BY <1>1, <1>2, ItemHas
<1>4. QED
  BY <1>3

\* What patterns see of a block.
LEMMA BlockSeen ==
  ASSUME NEW who, NEW b \in AnyBlocks
  PROVE  /\ FlatBlock(b) \in Seq(Words)
         /\ \A it \in Range(BlockItems(who, b)) : ItemWords(it) \subseteq Range(FlatBlock(b))
<1>1. /\ b.type \in BlockTypes /\ (b.type = "text" => b.text \in Seq(Words))
      /\ b.type = "tool_use" => b.args \in Seq(Words)
  BY BlockKinds
<1>3. b.type = "tool_result" => FlattenContent(b.content) \in Seq(Words)
  BY Raised
<1>4. /\ b.type = "text" => FlatBlock(b) = b.text
      /\ b.type = "tool_result" => FlatBlock(b) = FlattenContent(b.content)
      /\ b.type = "tool_use" => FlatBlock(b) = b.args
      /\ b.type \notin {"text", "tool_result", "tool_use"} => FlatBlock(b) = <<>>
  BY DEF FlatBlock
<1>5. <<>> \in Seq(Words)
  OBVIOUS
<1>6. FlatBlock(b) \in Seq(Words)
  BY <1>1, <1>3, <1>4, <1>5
<1>7. ASSUME NEW it \in Range(BlockItems(who, b)) PROVE ItemWords(it) \subseteq Range(FlatBlock(b))
  <2>1. \/ b.type = "text" /\ \E x \in Range(b.text) : it = Word(who, x)
        \/ b.type = "tool_use" /\ it = Item(who, "call", b)
        \/ b.type = "tool_result" /\ it = Item(who, "result", ToolResult(b.i, b.content))
        \/ b.type \in OtherTypes /\ it = Item(who, "other", Other(b.type, b.text))
        \/ b.type \in {"image", "image_url"} /\ \E x : it = Item(who, "picture", x)
    BY ItemKinds
  <2>2. CASE b.type = "text" /\ \E x \in Range(b.text) : it = Word(who, x)
    BY <1>4, <2>2, ItemHas
  <2>3. CASE b.type = "tool_use" /\ it = Item(who, "call", b)
    BY <1>4, <2>3, ItemHas
  <2>4. CASE b.type = "tool_result" /\ it = Item(who, "result", ToolResult(b.i, b.content))
    BY <1>4, <2>4, ItemHas
  <2>5. CASE \/ it = Item(who, "other", Other(b.type, b.text))
             \/ \E x : it = Item(who, "picture", x)
    <3>1. it.class[2] \in {"picture", "other"}
      BY <2>5 DEF Item
    <3>2. QED
      BY <3>1, ItemHas
  <2>6. QED
    BY <2>1, <2>2, <2>3, <2>4, <2>5
<1>8. QED
  BY <1>6, <1>7

LEMMA BlocksSeen ==
  ASSUME NEW who, NEW bs \in Seq(AnyBlocks)
  PROVE  /\ Each(FlatBlock, bs) \in Seq(Words)
         /\ WordsIn(ItemsOf(who, bs)) \subseteq Range(Each(FlatBlock, bs))
<1> DEFINE k == Len(bs)
           f == [n \in DOMAIN bs |-> FlatBlock(bs[n])]
<1>1. Each(FlatBlock, bs) = FlattenSeq(f)
  BY DEF Each
<1>2. k \in Nat /\ DOMAIN bs = 1 .. k /\ \A n \in 1 .. k : bs[n] \in AnyBlocks
  OBVIOUS
<1>3. DOMAIN f = 1 .. k /\ f = [n \in 1 .. k |-> f[n]] /\ \A n \in 1 .. k : f[n] = FlatBlock(bs[n])
  BY <1>2
<1> HIDE DEF f
<1>4. \A n \in 1 .. k : f[n] \in Seq(Words) /\ Sequence(f[n])
  <2>1. \A n \in 1 .. k : f[n] \in Seq(Words)
    BY <1>2, <1>3, BlockSeen
  <2>2. QED
    BY <2>1, IsSequence
<1>5. Nested(f) /\ Len(f) = k
  BY <1>2, <1>3, <1>4, ListOf
<1>6. FlattenSeq(f) \in Seq(Words)
  BY <1>4, <1>5, FlatWithin
<1>7. ASSUME NEW w \in WordsIn(ItemsOf(who, bs)) PROVE w \in Range(FlattenSeq(f))
  <2>1. PICK it \in Range(ItemsOf(who, bs)) : w \in ItemWords(it)
    BY WordsFrom
  <2>2. PICK n \in 1 .. k : it \in Range(BlockItems(who, bs[n]))
    BY ItemsFrom
  <2>3. w \in Range(f[n])
    <3> DEFINE b == bs[n]
    <3>1. b \in AnyBlocks /\ it \in Range(BlockItems(who, b)) /\ f[n] = FlatBlock(b)
      BY <1>2, <1>3, <2>2
    <3> HIDE DEF b
    <3>2. ItemWords(it) \subseteq Range(FlatBlock(b))
      BY <3>1, BlockSeen
    <3>3. QED
      BY <2>1, <3>1, <3>2
  <2>4. Sequence(f) /\ \A j \in 1 .. Len(f) : Sequence(f[j])
    BY <1>5 DEF Nested
  <2>5. QED
    BY <1>5, <2>3, <2>4, FlatRange
<1>8. QED
  BY <1>1, <1>6, <1>7

LEMMA TurnItemsFrom ==
  ASSUME NEW ms \in Seq(Turns), NEW it \in Range(TurnItemsOf(ms))
  PROVE  \E n \in 1 .. Len(ms) : it \in Range(ItemsOf(ms[n].role, BlocksFromRaw(ms[n].content)))
<1> DEFINE f == [n \in DOMAIN ms |-> ContentItems(ms[n].role, ms[n].content)]
<1>1. TurnItemsOf(ms) = FlattenSeq(f) /\ Nested(f) /\ Len(f) = Len(ms)
  BY TurnsOf
<1>2. DOMAIN ms = 1 .. Len(ms) /\ \A n \in 1 .. Len(ms) : ms[n] \in Turns
  OBVIOUS
<1>3. \A n \in 1 .. Len(ms) : f[n] = ContentItems(ms[n].role, ms[n].content)
  BY <1>2
<1> HIDE DEF f
<1>4. PICK n \in 1 .. Len(ms) : it \in Range(f[n])
  BY <1>1, FlatRange DEF Nested
<1>5. ContentItems(ms[n].role, ms[n].content) = ItemsOf(ms[n].role, BlocksFromRaw(ms[n].content))
  BY <1>2, TurnKinds
<1>6. QED
  BY <1>3, <1>4, <1>5

\* What patterns see of a message.
LEMMA RequestSeen ==
  ASSUME NEW m, SystemText(m.system) \in Seq(Words), m.messages \in Seq(Turns)
  PROVE  /\ Range(SystemText(m.system)) \subseteq Range(RequestFlatText(m))
         /\ WordsIn(TurnItemsOf(m.messages)) \subseteq Range(RequestFlatText(m))
<1> DEFINE told == SystemText(m.system)
           ms   == m.messages
           k    == Len(ms)
           f    == [n \in DOMAIN ms |-> Each(FlatBlock, BlocksFromRaw(ms[n].content))]
<1>1. RequestFlatText(m) = told \o FlattenSeq(f)
  BY DEF RequestFlatText, Each
<1>2. k \in Nat /\ DOMAIN ms = 1 .. k /\ ms \in Seq(Turns) /\ \A n \in 1 .. k : ms[n] \in Turns
  OBVIOUS
<1>3. /\ DOMAIN f = 1 .. k /\ f = [n \in 1 .. k |-> f[n]]
      /\ \A n \in 1 .. k : f[n] = Each(FlatBlock, BlocksFromRaw(ms[n].content))
  BY <1>2
<1>4. Sequence(told)
  BY IsSequence
<1> HIDE DEF told, ms, k, f
<1>5. \A n \in 1 .. k : BlocksFromRaw(ms[n].content) \in Seq(AnyBlocks)
  BY <1>2, TurnKinds
<1>6. \A n \in 1 .. k : f[n] \in Seq(Words)
  BY <1>3, <1>5, BlocksSeen
<1>7. \A n \in 1 .. k : Sequence(f[n])
  BY <1>6, IsSequence
<1>8. Nested(f) /\ Len(f) = k /\ Sequence(FlattenSeq(f))
  BY <1>2, <1>3, <1>7, ListOf
<1>9. Range(told \o FlattenSeq(f)) = Range(told) \cup Range(FlattenSeq(f))
  BY <1>4, <1>8, RangeJoined
<1>10. ASSUME NEW w \in WordsIn(TurnItemsOf(ms)) PROVE w \in Range(FlattenSeq(f))
  <2>1. PICK it \in Range(TurnItemsOf(ms)) : w \in ItemWords(it)
    BY WordsFrom
  <2>2. PICK n \in 1 .. k : it \in Range(ItemsOf(ms[n].role, BlocksFromRaw(ms[n].content)))
    BY <1>2, TurnItemsFrom DEF k
  <2> DEFINE bs  == BlocksFromRaw(ms[n].content)
             who == ms[n].role
  <2>3. bs \in Seq(AnyBlocks) /\ f[n] = Each(FlatBlock, bs) /\ it \in Range(ItemsOf(who, bs))
    BY <1>3, <1>5, <2>2
  <2> HIDE DEF bs, who
  <2>4. w \in WordsIn(ItemsOf(who, bs))
    BY <2>1, <2>3, WordsFrom
  <2>5. w \in Range(f[n])
    BY <2>3, <2>4, BlocksSeen
  <2>6. Sequence(f) /\ \A j \in 1 .. Len(f) : Sequence(f[j])
    BY <1>8 DEF Nested
  <2>7. QED
    BY <1>8, <2>5, <2>6, FlatRange
<1>11. QED
  BY <1>1, <1>9, <1>10 DEF told, ms

\* What a provider gets of a turn is flat, and has no personal word, but in a call.
LEMMA TurnFlat ==
  ASSUME NEW am \in Turns, NEW it \in Range(TurnGot(am))
  PROVE  FlattenItem(it) = it /\ (it.class[2] # "call" => ItemWords(it) \cap Personal = {})
<1> DEFINE who   == am.role
           bs    == BlocksFromRaw(am.content)
           items == ContentItems(am.role, am.content)
<1>1. /\ bs \in Seq(AnyBlocks) /\ items = ItemsOf(who, bs) /\ Sequence(items)
      /\ TurnGot(am) = Got(items)
  <2>1. TurnGot(am) = Got(items)
    BY DEF TurnGot, Got, Redacted, Emptied
  <2>2. QED
    BY <2>1, TurnKinds
<1> HIDE DEF who, bs, items
<1>2. ASSUME NEW x \in Range(items)
      PROVE  LET r == RedactItem(x)
                 e == EmptyItem(r)
             IN  /\ FlattenItem(r) = r /\ FlattenItem(e) = e
                 /\ r.class = x.class /\ e.class = x.class
                 /\ x.class[2] # "call" => ItemWords(r) \cap Personal = {} /\ ItemWords(e) \cap Personal = {}
  <2>1. PICK n \in 1 .. Len(bs) : x \in Range(BlockItems(who, bs[n]))
    BY <1>1, <1>2, ItemsFrom
  <2> DEFINE b == bs[n]
  <2>2. b \in AnyBlocks /\ x \in Range(BlockItems(who, b))
    BY <1>1, <2>1
  <2> HIDE DEF b
  <2>3. QED
    BY <2>2, ItemsAre, WordsAre
<1>3. CASE Redacted(items) = items
  <2>1. TurnGot(am) = items
    BY <1>1, <1>3 DEF Got
  <2>2. it \in Range(items) /\ RedactItem(it) = it
    BY <1>1, <1>3, <2>1, AlreadySo
  <2>3. QED
    BY <1>2, <2>2
<1>4. CASE Redacted(items) # items
  <2>1. TurnGot(am) = Emptied(Redacted(items))
    BY <1>1, <1>4 DEF Got
  <2>2. PICK n \in DOMAIN items : it = EmptyItem(RedactItem(items[n]))
    BY <2>1 DEF Emptied, Redacted, Range
  <2>3. items[n] \in Range(items)
    BY DEF Range
  <2>4. QED
    BY <1>2, <2>2, <2>3
<1>5. QED
  BY <1>3, <1>4

LEMMA TurnsFlat ==
  ASSUME NEW ms \in Seq(Turns), NEW it \in Range(Each(TurnGot, ms))
  PROVE  FlattenItem(it) = it /\ (it.class[2] # "call" => ItemWords(it) \cap Personal = {})
<1> DEFINE k == Len(ms)
           f == [n \in DOMAIN ms |-> TurnGot(ms[n])]
<1>1. Each(TurnGot, ms) = FlattenSeq(f)
  BY DEF Each
<1>2. k \in Nat /\ DOMAIN ms = 1 .. k /\ \A n \in 1 .. k : ms[n] \in Turns
  OBVIOUS
<1>3. DOMAIN f = 1 .. k /\ f = [n \in 1 .. k |-> f[n]] /\ \A n \in 1 .. k : f[n] = TurnGot(ms[n])
  BY <1>2
<1> HIDE DEF k, f
<1>4. ASSUME NEW am \in Turns PROVE Sequence(TurnGot(am))
  <2> DEFINE items == ContentItems(am.role, am.content)
  <2>1. Sequence(items)
    BY TurnKinds
  <2>2. TurnGot(am) = Got(items)
    BY DEF TurnGot, Got, Redacted, Emptied
  <2> HIDE DEF items
  <2>3. Sequence(Redacted(items))
    BY <2>1, RedactedMap
  <2> DEFINE said == Redacted(items)
  <2> HIDE DEF said
  <2>4. Sequence(Emptied(said))
    BY <2>3, EmptiedMap DEF said
  <2>5. QED
    BY <2>1, <2>2, <2>4 DEF Got, said
<1>5. \A n \in 1 .. k : Sequence(f[n])
  BY <1>2, <1>3, <1>4
<1>6. Nested(f) /\ Len(f) = k
  BY <1>2, <1>3, <1>5, ListOf
<1>7. PICK n \in 1 .. k : it \in Range(f[n])
  BY <1>1, <1>6, FlatRange DEF Nested
<1>8. QED
  BY <1>2, <1>3, <1>7, TurnFlat

\* So is what a provider gets of a message.
LEMMA MessageFlat ==
  ASSUME NEW m \in MessageBodies, NEW it \in Range(MessageGot(m))
  PROVE  FlattenItem(it) = it /\ (it.class[2] # "call" => ItemWords(it) \cap Personal = {})
<1> DEFINE told == SystemText(m.system)
           s    == Said("system", Redact(told))
           t    == Each(TurnGot, m.messages)
<1>1. told \in Seq(Words) /\ m.messages \in Seq(Turns)
  BY BodyKinds
<1>2. MessageGot(m) = s \o t
  BY DEF MessageGot
<1>3. Redact(told) \in Seq(Words) /\ Range(Redact(told)) \cap Personal = {}
  BY <1>1, RedactTyped
<1>4. Sequence(s)
  BY <1>3, SaidClass
<1>5. Sequence(t)
  <2> DEFINE rs == [n \in DOMAIN m.messages |-> RedactTurn(m.messages[n])]
  <2>1. rs \in Seq(Turns) /\ TurnItemsOf(rs) = t
    BY <1>1, TurnsRedacted
  <2> HIDE DEF rs, t
  <2>2. Sequence(TurnItemsOf(rs))
    BY <2>1, TurnsOf
  <2>3. QED
    BY <2>1, <2>2
<1> HIDE DEF told, s, t
<1>6. it \in Range(s) \cup Range(t)
  BY <1>2, <1>4, <1>5, RangeJoined
<1>7. CASE it \in Range(s)
  <2>1. PICK x \in Range(Redact(told)) : it = Word("system", x)
    BY <1>3, <1>7, SaidMap DEF s
  <2>2. ItemWords(it) = {x} /\ FlattenItem(it) = it
    BY <2>1, ItemHas, WordIs
  <2>3. QED
    BY <1>3, <2>1, <2>2
<1>8. CASE it \in Range(t)
  BY <1>1, <1>8, TurnsFlat DEF t
<1>9. QED
  BY <1>6, <1>7, <1>8

\* What can be told of turns says nothing more.
LEMMA TurnWords ==
  ASSUME NEW ms \in Seq(Turns)
  PROVE  WordsIn(Tellable(TurnItemsOf(ms))) \subseteq WordsIn(TurnItemsOf(ms))
<1> DEFINE s == TurnItemsOf(ms)
<1> SUFFICES ASSUME NEW w \in WordsIn(Tellable(s)) PROVE w \in WordsIn(s)
  OBVIOUS
<1>1. Sequence(s)
  BY TurnsOf
<1>2. PICK it \in Range(Tellable(s)) : w \in ItemWords(it)
  BY WordsFrom
<1>3. PICK x \in Range(s) : it = FlattenItem(x)
  BY <1>1, TellableOf
<1>4. PICK n \in 1 .. Len(ms) : x \in Range(ItemsOf(ms[n].role, BlocksFromRaw(ms[n].content)))
  BY TurnItemsFrom
<1> DEFINE bs  == BlocksFromRaw(ms[n].content)
           who == ms[n].role
<1> HIDE DEF s
<1>5. bs \in Seq(AnyBlocks) /\ x \in Range(ItemsOf(who, bs))
  <2>1. ms[n] \in Turns
    OBVIOUS
  <2>2. QED
    BY <1>4, <2>1, TurnKinds
<1> HIDE DEF bs, who
<1>6. PICK j \in 1 .. Len(bs) : x \in Range(BlockItems(who, bs[j]))
  BY <1>5, ItemsFrom
<1> DEFINE b == bs[j]
<1>7. b \in AnyBlocks /\ x \in Range(BlockItems(who, b))
  BY <1>5, <1>6
<1> HIDE DEF b
<1>8. ItemWords(it) = ItemWords(x)
  BY <1>3, <1>7, WordsAre
<1>9. QED
  BY <1>2, <1>8, WordsFrom

-----------------------------------------------------------------------------
(***************************************************************************)
(* What providers get of a message.                                        *)
(***************************************************************************)

LEMMA MessageSent ==
  ASSUME NEW m \in MessageBodies
  PROVE  LET sent == SentOf(TranslateRequest(m).messages)
         IN  /\ Sequence(MessageItems(m)) /\ Sequence(sent)
             /\ SameItems(Tellable(MessageItems(m)), sent)
             /\ \A it \in Range(sent) : it.class \in Classes
<1> DEFINE told == Said("system", SystemText(m.system))
           t    == TurnItemsOf(m.messages)
           u    == TurnsSent(m.messages)
<1>1. /\ SystemText(m.system) \in Seq(Words) /\ m.messages \in Seq(Turns)
      /\ MessageItems(m) = told \o t
  BY BodyKinds
<1>2. SentOf(TranslateRequest(m).messages) = told \o u
  BY <1>1, Translation
<1>3. Sequence(told) /\ \A it \in Range(told) : it.class = <<"system", "text">>
  BY <1>1, SaidClass
<1>4. Sequence(u) /\ SameItems(Tellable(t), u) /\ \A it \in Range(u) : it.class \in TurnClasses
  BY <1>1, TurnsTranslated
<1>5. Sequence(t)
  BY <1>1, TurnsOf
<1>6. Tellable(told) = told
  BY <1>1, SaidTellable
<1> HIDE DEF told, t, u
<1>7. SameItems(Tellable(told \o t), told \o u)
  <2>1. Tellable(told \o t) = told \o Tellable(t) /\ Sequence(Tellable(t))
    BY <1>3, <1>5, <1>6, TellableJoined, TellableOf
  <2>2. SameItems(told \o Tellable(t), told \o u)
    BY <1>3, <1>4, <2>1, SameItself, SameJoined
  <2>3. QED
    BY <2>1, <2>2
<1>8. Range(told \o u) = Range(told) \cup Range(u) /\ Sequence(told \o u) /\ Sequence(told \o t)
  BY <1>3, <1>4, <1>5, RangeJoined, Joined
<1>9. <<"system", "text">> \in Classes
  BY DEF Classes
<1>10. \A it \in Range(told \o u) : it.class \in Classes
  BY <1>3, <1>4, <1>8, <1>9, TurnClassesOf
<1>11. QED
  BY <1>1, <1>2, <1>7, <1>8, <1>10

LEMMA ChoiceKept ==
  ASSUME NEW m \in MessageBodies
  PROVE  TranslateChoice(m.choice) # "absent" <=> m.choice \in {"auto", "any", "tool"}
<1> DEFINE R == Raws(TextBlocks)
           T == Seq(Turns)
<1>1. MessageBodies = [system : R, messages : T, choice : {"auto", "any", "tool", "none"}]
  BY DEF MessageBodies
<1> HIDE DEF R, T
<1>2. m.choice \in {"auto", "any", "tool", "none"}
  BY <1>1
<1>3. QED
  BY <1>2 DEF TranslateChoice

LEMMA MessageKept ==
  ASSUME NEW m \in MessageBodies
  PROVE  /\ MessageItems(MessagePayload(FALSE, m)) = MessageGot(m)
         /\ SameItems(MessageGot(m), Each(Sent, MessagePayload(TRUE, m).messages))
         /\ MessagePayload(TRUE, m).choice # "absent" <=> m.choice \in {"auto", "any", "tool"}
<1> DEFINE r     == RedactRequestText(m)
           items == MessageItems(r)
           sent  == SentOf(TranslateRequest(r).messages)
<1>1. r \in MessageBodies /\ items = MessageGot(m) /\ r.choice = m.choice
  BY MessageRedacted
<1>2. MessagePayload(FALSE, m) = r /\ MessagePayload(TRUE, m) = TranslateRequest(r)
  BY DEF MessagePayload
<1> HIDE DEF r
<1>3. /\ Sequence(items) /\ SameItems(Tellable(items), sent)
      /\ SystemText(r.system) \in Seq(Words) /\ r.messages \in Seq(Turns)
  BY <1>1, MessageSent, BodyKinds
<1>4. TranslateRequest(r).choice = TranslateChoice(m.choice)
  BY <1>1, <1>3, Translation
<1>5. MessagePayload(TRUE, m).choice # "absent" <=> m.choice \in {"auto", "any", "tool"}
  BY <1>2, <1>4, ChoiceKept
<1>6. sent = Each(Sent, MessagePayload(TRUE, m).messages)
  BY <1>2 DEF SentOf
<1> HIDE DEF items, sent
<1>7. Plain(items) = items
  BY <1>1, <1>3, MessageFlat, PlainAlready
<1>8. SameItems(items, sent)
  <2>1. SameItems(Plain(items), Tellable(items))
    BY <1>3, TellableOf
  <2>2. QED
    BY <1>3, <1>7, <2>1, SameFollows
<1>9. QED
  BY <1>1, <1>2, <1>5, <1>6, <1>8 DEF items

LEMMA MessageSeen ==
  ASSUME NEW m \in MessageBodies
  PROVE  LET items == MessageItems(MessagePayload(FALSE, m)) IN
         /\ WordsIn(items) \subseteq Range(RequestFlatText(RedactRequestText(m)))
         /\ WordsIn(Each(Sent, MessagePayload(TRUE, m).messages)) \subseteq WordsIn(items)
         /\ WordsIn(Where(LAMBDA it : it.class[2] # "call", items)) \cap Personal = {}
<1> DEFINE r     == RedactRequestText(m)
           items == MessageItems(r)
           told  == SystemText(r.system)
           sent  == SentOf(TranslateRequest(r).messages)
           Z     == {it \in Range(items) : it.class[2] # "call"}
<1>1. r \in MessageBodies /\ items = MessageGot(m)
  BY MessageRedacted
<1>2. MessagePayload(FALSE, m) = r /\ MessagePayload(TRUE, m) = TranslateRequest(r)
  BY DEF MessagePayload
<1> HIDE DEF r
<1>3. /\ told \in Seq(Words) /\ r.messages \in Seq(Turns)
      /\ items = Said("system", told) \o TurnItemsOf(r.messages)
  BY <1>1, BodyKinds
<1>4. WordsIn(items) \subseteq Range(RequestFlatText(r))
  <2>1. Sequence(Said("system", told)) /\ Sequence(TurnItemsOf(r.messages))
    BY <1>3, SaidClass, TurnsOf
  <2>2. WordsIn(items) = WordsIn(Said("system", told)) \cup WordsIn(TurnItemsOf(r.messages))
    BY <1>3, <2>1, WordsJoined
  <2>3. WordsIn(Said("system", told)) \subseteq Range(told)
    BY <1>3, SaidWords
  <2>4. /\ Range(told) \subseteq Range(RequestFlatText(r))
        /\ WordsIn(TurnItemsOf(r.messages)) \subseteq Range(RequestFlatText(r))
    BY <1>3, RequestSeen
  <2>5. QED
    BY <2>2, <2>3, <2>4
<1>5. WordsIn(sent) \subseteq WordsIn(items)
  <2>1. Sequence(items) /\ Sequence(sent) /\ \A it \in Range(sent) : it.class \in Classes
    BY <1>1, MessageSent
  <2>2. sent = Each(Sent, MessagePayload(TRUE, m).messages)
    BY <1>2 DEF SentOf
  <2>3. SameItems(MessageGot(m), Each(Sent, MessagePayload(TRUE, m).messages))
    BY MessageKept
  <2>4. SameItems(items, sent)
    BY <1>1, <2>2, <2>3, Zenon
  <2>5. QED
    BY <2>1, <2>4, SameWords
<1>6. sent = Each(Sent, TranslateRequest(r).messages)
  BY DEF SentOf
<1>7. Sequence(items)
  BY <1>1, MessageSent
<1> HIDE DEF items, sent, told
<1>8. Where(LAMBDA it : it.class[2] # "call", items) = Those(Z, items)
  <2>1. \A n \in DOMAIN items : items[n] \in Z <=> items[n].class[2] # "call"
    BY DEF Range
  <2>2. Where(LAMBDA it : it.class[2] # "call", items)
          = FlattenSeq([n \in DOMAIN items |-> IF items[n].class[2] # "call" THEN <<items[n]>> ELSE <<>>])
    BY DEF Where, Each
  <2>3. Those(Z, items) = FlattenSeq([n \in DOMAIN items |-> IF items[n] \in Z THEN <<items[n]>> ELSE <<>>])
    BY DEF Those, Where, Each
  <2> HIDE DEF Z
  <2>4. [n \in DOMAIN items |-> IF items[n].class[2] # "call" THEN <<items[n]>> ELSE <<>>]
          = [n \in DOMAIN items |-> IF items[n] \in Z THEN <<items[n]>> ELSE <<>>]
    BY <2>1
  <2>5. QED
    BY <2>2, <2>3, <2>4, Zenon
<1>9. Range(Those(Z, items)) = Range(items) \cap Z
  BY <1>7, ThoseOf
<1>10. WordsIn(Those(Z, items)) \cap Personal = {}
  <2> SUFFICES ASSUME NEW w \in WordsIn(Those(Z, items)) PROVE w \notin Personal
    OBVIOUS
  <2>1. PICK it \in Range(Those(Z, items)) : w \in ItemWords(it)
    BY WordsFrom
  <2>2. it \in Range(items) /\ it.class[2] # "call"
    BY <1>9, <2>1
  <2>3. ItemWords(it) \cap Personal = {}
    BY <1>1, <2>2, MessageFlat
  <2>4. QED
    BY <2>1, <2>3
<1>11. WordsIn(Where(LAMBDA it : it.class[2] # "call", items)) \cap Personal = {}
  BY <1>8, <1>10, Zenon
<1>12. QED
  BY <1>2, <1>4, <1>5, <1>6, <1>11 DEF items, r

-----------------------------------------------------------------------------
(***************************************************************************)
(* A chat completion's messages, made into turns.                          *)
(***************************************************************************)

LEMMA ChatKinds ==
  ASSUME NEW msg \in ChatTurns
  PROVE  /\ msg.role \in {"user", "assistant", "system", "tool"} /\ msg.i \in Int
         /\ msg.role = "user" => msg.content \in Raws(TextBlocks \cup ImageURLs \cup Others)
         /\ msg.role = "tool" => msg.content \in Raws(ResultKinds)
         /\ msg.role = "assistant" => msg.content \in Raws(TextBlocks \cup Others) /\ msg.calls \in Seq(ToolUses)
         /\ msg.role = "system" => msg.content \in Raws(TextBlocks)
         /\ msg.role # "assistant" => msg.calls = <<>>
<1> DEFINE Q == Raws(TextBlocks)
           R == Raws(TextBlocks \cup ImageURLs \cup Others)
           S == Raws(ResultKinds)
           T == Raws(TextBlocks \cup Others)
           U == Seq(ToolUses)
<1>1. ChatTurns = [role : {"user"}, content : R, calls : {<<>>}, i : Int]
                    \cup [role : {"assistant"}, content : T, calls : U, i : Int]
                    \cup [role : {"system"}, content : Q, calls : {<<>>}, i : Int]
                    \cup [role : {"tool"}, content : S, calls : {<<>>}, i : Int]
  BY DEF ChatTurns, ResultKinds
<1> HIDE DEF Q, R, S, T, U
<1>2. \/ msg.role = "user" /\ msg.content \in R /\ msg.calls = <<>> /\ msg.i \in Int
      \/ msg.role = "assistant" /\ msg.content \in T /\ msg.calls \in U /\ msg.i \in Int
      \/ msg.role = "system" /\ msg.content \in Q /\ msg.calls = <<>> /\ msg.i \in Int
      \/ msg.role = "tool" /\ msg.content \in S /\ msg.calls = <<>> /\ msg.i \in Int
  BY <1>1
<1>3. QED
  BY <1>2 DEF Q, R, S, T, U

LEMMA CallsTogether ==
  ASSUME NEW who, NEW calls \in Seq(ToolUses)
  PROVE  ItemsOf(who, calls) = CallItems(who, calls)
<1> DEFINE T == {x \in Firsts(calls) : x \in Seq(AnyBlocks) /\ ItemsOf(who, x) = CallItems(who, x)}
<1>1. /\ Sequence(calls) /\ \A n \in 1 .. Len(calls) : calls[n] \in ToolUses
      /\ \A b \in ToolUses : b \in AnyBlocks /\ b.type = "tool_use"
  <2>1. Sequence(calls)
    BY IsSequence
  <2>2. \A n \in 1 .. Len(calls) : calls[n] \in ToolUses
    OBVIOUS
  <2>3. \A b \in ToolUses : b \in AnyBlocks
    BY DEF AnyBlocks, Blocks
  <2>4. \A b \in ToolUses : b.type = "tool_use"
    BY DEF ToolUses
  <2>5. QED
    BY <2>1, <2>2, <2>3, <2>4
<1>2. <<>> \in T
  <2>1. <<>> \in Firsts(calls) /\ <<>> \in Seq(AnyBlocks)
    BY <1>1, FirstsOf
  <2>2. QED
    BY <2>1, ItemsNothing, CallsNothing
<1>3. ASSUME NEW k \in 1 .. Len(calls), SubSeq(calls, 1, k - 1) \in T
      PROVE  Append(SubSeq(calls, 1, k - 1), calls[k]) \in T
  <2> DEFINE q == SubSeq(calls, 1, k - 1)
             e == calls[k]
  <2>1. Append(q, e) \in Firsts(calls)
    BY <1>1, FirstsOf
  <2>2. q \in Seq(AnyBlocks) /\ ItemsOf(who, q) = CallItems(who, q) /\ e \in AnyBlocks /\ e.type = "tool_use"
    BY <1>1, <1>3
  <2> HIDE DEF q, e
  <2>3. Append(q, e) \in Seq(AnyBlocks) /\ Sequence(q)
    BY <2>2, IsSequence
  <2>4. BlockItems(who, e) = <<Item(who, "call", e)>>
    BY <2>2, BlockIs
  <2>5. ItemsOf(who, Append(q, e)) = ItemsOf(who, q) \o BlockItems(who, e)
    BY <2>2, ItemsMore
  <2>6. CallItems(who, Append(q, e)) = CallItems(who, q) \o <<Item(who, "call", e)>>
    BY <2>3, CallItemsMore
  <2>7. ItemsOf(who, Append(q, e)) = CallItems(who, Append(q, e))
    BY <2>2, <2>4, <2>5, <2>6
  <2>8. QED
    BY <2>1, <2>3, <2>7 DEF q, e
<1> HIDE DEF T
<1>4. calls \in T
  BY <1>1, <1>2, <1>3, BySteps
<1>5. QED
  BY <1>4 DEF T

LEMMA ToldOne ==
  ASSUME NEW who, NEW b \in AnyBlocks
  PROVE  ToldOf(who, <<b>>) = BlockTold(who, b)
<1>1. <<>> \in Seq(AnyBlocks)
  OBVIOUS
<1>2. ItemsOf(who, <<b>>) = BlockItems(who, b)
  BY <1>1, ItemsMore
<1>3. QED
  BY <1>2 DEF ToldOf, BlockTold

LEMMA ToldJoined ==
  ASSUME NEW who, NEW s \in Seq(AnyBlocks), NEW t \in Seq(AnyBlocks)
  PROVE  ToldOf(who, s \o t) = ToldOf(who, s) \o ToldOf(who, t)
<1>1. ItemsOf(who, s \o t) = ItemsOf(who, s) \o ItemsOf(who, t)
  BY ItemsJoined
<1>2. Sequence(ItemsOf(who, s)) /\ Sequence(ItemsOf(who, t))
  BY ItemsBound
<1>3. Tellable(ItemsOf(who, s) \o ItemsOf(who, t)) = Tellable(ItemsOf(who, s)) \o Tellable(ItemsOf(who, t))
  BY <1>2, TellableJoined
<1>4. QED
  BY <1>1, <1>3 DEF ToldOf

\* What a chat client's user may show.
UserParts == TextBlocks \cup ImageURLs \cup Others

\* A picture's URL survives.
LEMMA PartShown ==
  ASSUME NEW p \in UserParts
  PROVE  /\ p \in AnyBlocks /\ p.type # "tool_use"
         /\ UserPart(p) \in Seq(Blocks) /\ Sequence(UserPart(p))
         /\ ToldOf("user", UserPart(p)) = BlockTold("user", p)
<1>1. p \in AnyBlocks
  BY DEF AnyBlocks, Blocks, UserParts
<1>2. p.type \in {"text", "image_url"} \cup OtherTypes /\ p.type # "tool_use"
  BY DEF TextBlocks, ImageURLs, Others, OtherTypes, UserParts
<1>3. UserPart(p) = CASE p.type = "text"      -> <<p>>
                      [] p.type = "image_url" -> IF p.url = NoURL THEN <<>> ELSE <<Image(SourceOf(p.url))>>
                      [] OTHER                -> <<>>
  BY DEF UserPart
<1>4. \A b \in Blocks : <<b>> \in Seq(Blocks) /\ Sequence(<<b>>) /\ b \in AnyBlocks
  <2>1. \A b \in Blocks : <<b>> \in Seq(Blocks)
    OBVIOUS
  <2>2. \A b : Sequence(<<b>>)
    BY Listing
  <2>3. QED
    BY <2>1, <2>2, KindsOf
<1>5. <<>> \in Seq(Blocks) /\ Sequence(<<>>) /\ <<>> \in Seq(AnyBlocks) /\ ToldOf("user", <<>>) = <<>>
  <2>1. <<>> \in Seq(Blocks) /\ <<>> \in Seq(AnyBlocks)
    OBVIOUS
  <2>2. QED
    BY <2>1, Nothing, ToldParts
<1>6. CASE p.type = "text"
  <2>1. UserPart(p) = <<p>> /\ p \in Blocks
    BY <1>1, <1>3, <1>6, KindsOf
  <2>2. ToldOf("user", <<p>>) = BlockTold("user", p)
    BY <1>1, ToldOne
  <2>3. QED
    BY <1>1, <1>2, <1>4, <2>1, <2>2
<1>7. CASE p.type = "image_url" /\ p.url = NoURL
  <2>1. UserPart(p) = <<>> /\ BlockItems("user", p) = <<>>
    BY <1>3, <1>7, BlockIs
  <2>2. BlockTold("user", p) = <<>>
    BY <2>1, TellableNothing DEF BlockTold
  <2>3. QED
    BY <1>1, <1>2, <1>5, <2>1, <2>2
<1>8. CASE p.type = "image_url" /\ p.url # NoURL
  <2> DEFINE source == SourceOf(p.url)
             b      == Image(source)
  <2>1. p.url \in Urls /\ p = ImageURL(p.url) /\ NoURL \in Urls
    BY <1>1, <1>8, BlockKinds DEF Urls, NoURL
  <2>2. UrlOf(source) = p.url /\ source \in [data : Urls, url : Urls]
    BY <1>8, <2>1 DEF SourceOf, UrlOf
  <2>3. UserPart(p) = <<b>>
    BY <1>3, <1>8
  <2> HIDE DEF source
  <2>4. b \in Images /\ b.type = "image" /\ b.source = source
    BY <2>2 DEF Image, Images
  <2>5. BlockItems("user", b) = <<Item("user", "picture", p)>>
    <3>1. BlockItems("user", b) = IF UrlOf(b.source) # NoURL
                                  THEN <<Item("user", "picture", ImageURL(UrlOf(b.source)))>> ELSE <<>>
      BY <2>4, BlockIs
    <3>2. UrlOf(b.source) = p.url
      BY <2>2, <2>4
    <3> HIDE DEF b
    <3>3. QED
      BY <1>8, <2>1, <3>1, <3>2
  <2>6. BlockItems("user", p) = <<Item("user", "picture", p)>>
    BY <1>8, BlockIs
  <2> HIDE DEF b
  <2>7. b \in Blocks
    BY <2>4 DEF Blocks
  <2>8. ToldOf("user", <<b>>) = BlockTold("user", b)
    BY <1>4, <2>7, ToldOne
  <2>9. BlockTold("user", b) = BlockTold("user", p)
    BY <2>5, <2>6 DEF BlockTold
  <2>10. QED
    BY <1>1, <1>2, <1>4, <2>3, <2>7, <2>8, <2>9
<1>9. CASE p.type \in OtherTypes
  <2>1. UserPart(p) = <<>>
    BY <1>3, <1>9 DEF OtherTypes
  <2>2. BlockTold("user", p) = <<>>
    BY <1>1, <1>9, BlockTells
  <2>3. QED
    BY <1>1, <1>2, <1>5, <2>1, <2>2
<1>10. QED
  BY <1>2, <1>6, <1>7, <1>8, <1>9

LEMMA PartsShown ==
  ASSUME NEW ps \in Seq(UserParts)
  PROVE  /\ ps \in Seq(AnyBlocks) /\ \A n \in 1 .. Len(ps) : ps[n].type # "tool_use"
         /\ Each(UserPart, ps) \in Seq(Blocks)
         /\ ToldOf("user", Each(UserPart, ps)) = ToldOf("user", ps)
<1> DEFINE k == Len(ps)
           f == [n \in DOMAIN ps |-> UserPart(ps[n])]
           g == [n \in DOMAIN ps |-> BlockItems("user", ps[n])]
           F == [s \in Seq(AnyBlocks) |-> ToldOf("user", s)]
<1>1. Each(UserPart, ps) = FlattenSeq(f)
  BY DEF Each
<1>2. k \in Nat /\ DOMAIN ps = 1 .. k /\ \A n \in 1 .. k : ps[n] \in UserParts
  OBVIOUS
<1>3. DOMAIN f = 1 .. k /\ f = [n \in 1 .. k |-> f[n]] /\ \A n \in 1 .. k : f[n] = UserPart(ps[n])
  BY <1>2
<1>4. UserParts \subseteq AnyBlocks /\ Blocks \subseteq AnyBlocks
  BY PartShown, KindsOf
<1>5. ps \in Seq(AnyBlocks)
  BY <1>4
<1>6. \A s \in Seq(AnyBlocks) : F[s] = ToldOf("user", s)
  OBVIOUS
<1>7. DOMAIN g = 1 .. k /\ \A n \in 1 .. k : g[n] = BlockItems("user", ps[n])
  BY <1>2
<1>8. ItemsOf("user", ps) = FlattenSeq(g) /\ Nested(g)
  BY <1>5, ItemsBound
<1> HIDE DEF k, f, g, F
<1>9. \A n \in 1 .. k : /\ f[n] \in Seq(Blocks) /\ Sequence(f[n]) /\ ps[n].type # "tool_use"
                        /\ ToldOf("user", f[n]) = BlockTold("user", ps[n])
  BY <1>2, <1>3, PartShown
<1>10. Nested(f) /\ Len(f) = k
  BY <1>2, <1>3, <1>9, ListOf
<1>11. FlattenSeq(f) \in Seq(Blocks)
  BY <1>9, <1>10, FlatWithin
<1>12. \A n \in 1 .. Len(f) : f[n] \in Seq(AnyBlocks)
  BY <1>4, <1>9, <1>10
<1>13. <<>> \in Seq(AnyBlocks) /\ \A s, t \in Seq(AnyBlocks) : s \o t \in Seq(AnyBlocks)
  OBVIOUS
<1>14. F[<<>>] = <<>>
  BY <1>6, <1>13, ToldParts
<1>15. ASSUME NEW s \in Seq(AnyBlocks) PROVE Sequence(F[s])
  <2>1. Sequence(ToldOf("user", s))
    BY ToldParts
  <2>2. QED
    BY <1>6, <2>1
<1>16. ASSUME NEW s \in Seq(AnyBlocks), NEW t \in Seq(AnyBlocks) PROVE F[s \o t] = F[s] \o F[t]
  <2>1. ToldOf("user", s \o t) = ToldOf("user", s) \o ToldOf("user", t)
    BY ToldJoined
  <2>2. QED
    BY <1>6, <1>13, <2>1
<1>17. FlattenSeq(f) \in Seq(AnyBlocks) /\ F[FlattenSeq(f)] = FlattenSeq(Parts(F, f))
  BY ONLY <1>10, <1>12, <1>14, <1>15, <1>16, PartsOf
<1>18. Parts(F, f) = [n \in DOMAIN g |-> Tellable(g[n])]
  <2>1. \A n \in 1 .. k : F[f[n]] = BlockTold("user", ps[n])
    BY <1>6, <1>9, <1>10, <1>12
  <2>2. \A n \in 1 .. k : F[f[n]] = Tellable(g[n])
    BY <1>7, <2>1 DEF BlockTold
  <2>3. QED
    BY <1>3, <1>7, <2>2 DEF Parts
<1>19. Tellable(FlattenSeq(g)) = FlattenSeq([n \in DOMAIN g |-> Tellable(g[n])])
  BY <1>8, TellableFlat
<1>20. ToldOf("user", ps) = F[FlattenSeq(f)]
  BY <1>8, <1>17, <1>18, <1>19 DEF ToldOf
<1>21. QED
  BY <1>1, <1>5, <1>6, <1>9, <1>11, <1>17, <1>20 DEF k

\* A chat message made into a turn tells what it did, unless it is lost.
Converted(msg) == [role |-> InRole(msg.role), content |-> MarshalBlocks(InBlocks(msg))]

\* The blocks that have the items of a chat message.
AskedBlocks(msg) == IF msg.role = "user" /\ msg.content.form = "list" THEN msg.content.items ELSE InBlocks(msg)

\* What a chat client's user, and what its assistant, has no blocks of.
Expected(who, b) == IF who = "user" THEN b.type # "tool_use" ELSE b.type \in {"text", "tool_use"} \cup OtherTypes

LEMMA BlocksAsked ==
  ASSUME NEW msg \in ChatTurns, msg.role # "system"
  PROVE  LET bs  == AskedBlocks(msg)
             who == InRole(msg.role)
         IN  /\ InBlocks(msg) \in Seq(Blocks) /\ bs \in Seq(AnyBlocks)
             /\ ItemsOf(who, bs) = Asked(msg) /\ Sequence(Asked(msg))
             /\ ToldOf(who, InBlocks(msg)) = Tellable(Asked(msg))
             /\ \A n \in 1 .. Len(bs) : Expected(who, bs[n])
<1> DEFINE raw == msg.content
           who == msg.role
           in  == InBlocks(msg)
           bs  == AskedBlocks(msg)
<1>1. /\ who \in {"user", "assistant", "tool"} /\ msg.i \in Int
      /\ who = "user" => raw \in Raws(UserParts)
      /\ who = "tool" => raw \in Raws(ResultKinds)
      /\ who = "assistant" => raw \in Raws(TextBlocks \cup Others) /\ msg.calls \in Seq(ToolUses)
      /\ who # "assistant" => msg.calls = <<>>
  BY ChatKinds DEF UserParts
<1>2. /\ TextBlocks \subseteq Blocks /\ TextBlocks \cup Others \in SUBSET AnyBlocks
      /\ ToolUses \subseteq Blocks /\ Blocks \subseteq AnyBlocks
  BY KindsOf DEF AnyBlocks, Blocks
<1>3. UserParts \in SUBSET AnyBlocks
  BY PartShown
<1>4. ASSUME NEW role, NEW s, s = in, s = bs, s \in Seq(Blocks), role = InRole(who),
             ItemsOf(role, s) = Asked(msg), \A n \in 1 .. Len(s) : Expected(role, s[n])
      PROVE  /\ in \in Seq(Blocks) /\ bs \in Seq(AnyBlocks)
             /\ ItemsOf(role, bs) = Asked(msg) /\ Sequence(Asked(msg))
             /\ ToldOf(role, in) = Tellable(Asked(msg))
             /\ \A n \in 1 .. Len(bs) : Expected(role, bs[n])
  <2> HIDE DEF in, bs
  <2>1. s \in Seq(AnyBlocks)
    BY <1>2, <1>4
  <2>2. Sequence(ItemsOf(role, s))
    BY <2>1, ItemsBound
  <2>3. ToldOf(role, s) = Tellable(ItemsOf(role, s))
    BY DEF ToldOf
  <2>4. QED
    BY <1>4, <2>1, <2>2, <2>3
<1>5. CASE who = "assistant"
  <2> DEFINE said == BlocksFromRaw(raw)
  <2>1. in = said \o msg.calls /\ bs = in /\ InRole(who) = "assistant"
    BY <1>5 DEF InBlocks, InRole, AskedBlocks
  <2>2. said \in Seq(TextBlocks \cup Others)
    <3>1. said \in Seq((TextBlocks \cup Others) \cup TextBlocks)
      BY <1>1, <1>2, <1>5, BlocksOf
    <3>2. (TextBlocks \cup Others) \cup TextBlocks = TextBlocks \cup Others
      OBVIOUS
    <3>3. QED
      BY <3>1, <3>2, Zenon
  <2>3. Asked(msg) = ItemsOf("assistant", said) \o CallItems("assistant", msg.calls)
    <3>1. Asked(msg) = ContentItems(msg.role, msg.content)
                         \o [n \in DOMAIN msg.calls |-> Item(msg.role, "call", msg.calls[n])]
      BY <1>5 DEF Asked
    <3>2. ContentItems(msg.role, msg.content) = ItemsOf("assistant", said)
      BY <1>5 DEF ContentItems, ItemsOf
    <3>3. CallItems("assistant", msg.calls) = [n \in DOMAIN msg.calls |-> Item(msg.role, "call", msg.calls[n])]
      BY <1>5 DEF CallItems
    <3>4. QED
      BY <3>1, <3>2, <3>3, Zenon
  <2> DEFINE D == {b \in Blocks : Expected("assistant", b)}
  <2>4. TextBlocks \cup Others \subseteq D /\ ToolUses \subseteq D
    <3>1. \A b \in ToolUses : b \in Blocks /\ b.type = "tool_use"
      BY <1>2 DEF ToolUses
    <3>2. \A b \in TextBlocks : b \in Blocks /\ b.type = "text"
      BY <1>2 DEF TextBlocks
    <3>3. \A b \in Others : b \in Blocks /\ b.type \in OtherTypes
      BY KindsOf DEF Blocks
    <3>4. QED
      BY <3>1, <3>2, <3>3 DEF Expected
  <2>5. D \subseteq Blocks /\ \A b \in D : Expected("assistant", b)
    OBVIOUS
  <2> HIDE DEF said, in, bs, raw, D
  <2>6. said \in Seq(D) /\ msg.calls \in Seq(D)
    BY <1>1, <1>5, <2>2, <2>4
  <2>7. said \in Seq(AnyBlocks) /\ msg.calls \in Seq(AnyBlocks)
    BY <1>2, <2>5, <2>6
  <2>8. ItemsOf("assistant", said \o msg.calls)
          = ItemsOf("assistant", said) \o ItemsOf("assistant", msg.calls)
    BY <2>7, ItemsJoined
  <2>9. ItemsOf("assistant", msg.calls) = CallItems("assistant", msg.calls)
    BY <1>1, <1>5, CallsTogether
  <2>10. in \in Seq(D)
    BY <2>1, <2>6
  <2>11. in \in Seq(Blocks) /\ \A n \in 1 .. Len(in) : Expected("assistant", in[n])
    BY <2>5, <2>10
  <2>12. ItemsOf("assistant", in) = Asked(msg)
    BY <2>1, <2>3, <2>8, <2>9
  <2>13. QED
    BY <1>4, <2>1, <2>11, <2>12 DEF in, bs
<1>6. CASE who = "tool"
  <2> DEFINE b == ToolResult(msg.i, raw)
  <2>1. in = <<b>> /\ bs = in /\ InRole(who) = "user"
    BY <1>6 DEF InBlocks, InRole, AskedBlocks
  <2>2. b \in Blocks /\ b.type = "tool_result"
    <3> DEFINE R == Raws(ResultKinds)
    <3>1. raw \in R /\ msg.i \in Int
      BY <1>1, <1>6
    <3>2. ToolResults = [type : {"tool_result"}, i : Int, content : R]
      BY DEF ToolResults, ResultKinds
    <3> HIDE DEF R, raw
    <3>3. b \in ToolResults
      BY <3>1, <3>2 DEF ToolResult
    <3>4. QED
      BY <3>3 DEF Blocks, ToolResult
  <2>3. Asked(msg) = <<Item("user", "result", b)>>
    BY <1>6 DEF Asked
  <2> HIDE DEF b, in, bs, raw
  <2>4. BlockItems("user", b) = <<Item("user", "result", b)>>
    BY <2>2, BlockIs
  <2>5. <<>> \in Seq(AnyBlocks) /\ <<b>> \in Seq(Blocks) /\ b \in AnyBlocks
    BY <1>2, <2>2
  <2>6. ItemsOf("user", <<b>>) = BlockItems("user", b)
    BY <2>5, ItemsMore
  <2>7. \A n \in 1 .. Len(<<b>>) : Expected("user", <<b>>[n])
    BY <2>2 DEF Expected
  <2>8. ItemsOf("user", in) = Asked(msg) /\ in \in Seq(Blocks) /\ \A n \in 1 .. Len(in) : Expected("user", in[n])
    BY <2>1, <2>3, <2>4, <2>5, <2>6, <2>7
  <2>9. QED
    BY <1>4, <2>1, <2>8 DEF in, bs
<1>7. CASE who = "user"
  <2>1. InRole(who) = "user"
    BY <1>7 DEF InRole
  <2>2. in = CASE raw.form = "list"   -> Each(UserPart, raw.items)
               [] raw.form = "absent" -> <<TextBlock(<<>>)>>
               [] OTHER               -> <<TextBlock(raw.text)>>
    BY <1>7 DEF InBlocks
  <2>3. Asked(msg) = IF raw.form = "odd" THEN Said("user", raw.text)
                     ELSE ItemsOf("user", BlocksFromRaw(raw)) \o CallItems("user", msg.calls)
    BY <1>7 DEF Asked, Undecodable, ContentItems, ItemsOf, CallItems
  <2>4. CallItems("user", msg.calls) = <<>>
    BY <1>1, <1>7, CallsNothing
  <2>5. /\ raw.form \in {"string", "odd", "list", "absent"}
        /\ raw.form = "string" => raw.text \in Seq(Words) /\ raw = Str(raw.text)
        /\ raw.form = "odd" => raw.text \in Seq(Words)
        /\ raw.form = "list" => raw.items \in Seq(UserParts)
    BY <1>1, <1>7, RawKinds
  <2>6. BlocksFromRaw(raw) \in Seq(AnyBlocks)
    BY <1>1, <1>3, <1>7, BlocksOf
  <2>7. Sequence(ItemsOf("user", BlocksFromRaw(raw)))
    BY <2>6, ItemsBound
  <2>8. raw.form # "odd" => Asked(msg) = ItemsOf("user", BlocksFromRaw(raw))
    BY <2>3, <2>4, <2>7, JoinedFew
  <2>9. /\ raw.form = "list" => BlocksFromRaw(raw) = raw.items
        /\ raw.form = "absent" => BlocksFromRaw(raw) = <<>>
    BY DEF BlocksFromRaw
  <2>10. bs = IF raw.form = "list" THEN raw.items ELSE in
    BY <1>7 DEF AskedBlocks
  <2>11. ASSUME NEW t \in Seq(Words)
         PROVE  LET s == <<TextBlock(t)>>
                IN  /\ s \in Seq(Blocks) /\ \A n \in 1 .. Len(s) : Expected("user", s[n])
                    /\ ItemsOf("user", s) = Said("user", t)
                    /\ ItemsOf("user", BlocksFromRaw(Str(t))) = Said("user", t)
    <3> DEFINE b == TextBlock(t)
    <3>1. b \in Blocks /\ b.type = "text"
      BY <1>2, TextBlockKind
    <3> HIDE DEF b
    <3>2. <<b>> \in Seq(Blocks) /\ \A n \in 1 .. Len(<<b>>) : Expected("user", <<b>>[n])
      BY <3>1 DEF Expected
    <3>3. QED
      BY <3>2, StrItems DEF b
  <2> HIDE DEF in, bs, raw
  <2>12. CASE raw.form = "list"
    <3> DEFINE ps == raw.items
    <3>1. in = Each(UserPart, ps) /\ bs = ps /\ ps \in Seq(UserParts)
      BY <2>2, <2>5, <2>10, <2>12
    <3>2. Asked(msg) = ItemsOf("user", ps)
      BY <2>8, <2>9, <2>12
    <3> HIDE DEF ps
    <3>3. /\ ps \in Seq(AnyBlocks) /\ \A n \in 1 .. Len(ps) : ps[n].type # "tool_use"
          /\ Each(UserPart, ps) \in Seq(Blocks)
          /\ ToldOf("user", Each(UserPart, ps)) = ToldOf("user", ps)
      BY <3>1, PartsShown
    <3>4. Sequence(ItemsOf("user", ps))
      BY <3>3, ItemsBound
    <3>5. ToldOf("user", ps) = Tellable(ItemsOf("user", ps))
      BY DEF ToldOf
    <3>6. \A n \in 1 .. Len(ps) : Expected("user", ps[n])
      BY <3>3 DEF Expected
    <3>7. ToldOf("user", in) = Tellable(Asked(msg)) /\ in \in Seq(Blocks)
      BY <3>1, <3>2, <3>3, <3>5
    <3>8. QED
      BY <2>1, <3>1, <3>2, <3>3, <3>4, <3>6, <3>7 DEF in, bs
  <2>13. ASSUME NEW t \in Seq(Words), in = <<TextBlock(t)>>, bs = in, Asked(msg) = Said("user", t)
         PROVE  /\ in \in Seq(Blocks) /\ bs \in Seq(AnyBlocks)
                /\ ItemsOf("user", bs) = Asked(msg) /\ Sequence(Asked(msg))
                /\ ToldOf("user", in) = Tellable(Asked(msg))
                /\ \A n \in 1 .. Len(bs) : Expected("user", bs[n])
    <3>1. /\ in \in Seq(Blocks) /\ \A n \in 1 .. Len(in) : Expected("user", in[n])
          /\ ItemsOf("user", in) = Asked(msg)
      BY <2>11, <2>13
    <3>2. QED
      BY <1>4, <2>1, <2>13, <3>1 DEF in, bs
  <2>14. CASE raw.form = "absent"
    <3>1. in = <<TextBlock(<<>>)>> /\ bs = in /\ <<>> \in Seq(Words)
      BY <2>2, <2>10, <2>14
    <3>2. Asked(msg) = Said("user", <<>>)
      BY <2>8, <2>9, <2>14, ItemsNothing, SaidNothing
    <3>3. QED
      BY <2>1, <2>13, <3>1, <3>2 DEF in, bs
  <2>15. CASE raw.form = "string"
    <3>1. in = <<TextBlock(raw.text)>> /\ bs = in /\ raw.text \in Seq(Words) /\ raw = Str(raw.text)
      BY <2>2, <2>5, <2>10, <2>15
    <3>2. Asked(msg) = ItemsOf("user", BlocksFromRaw(raw))
      BY <2>8, <2>15
    <3>3. ItemsOf("user", BlocksFromRaw(Str(raw.text))) = Said("user", raw.text)
      BY <2>11, <3>1
    <3>4. Asked(msg) = Said("user", raw.text)
      BY <3>1, <3>2, <3>3, Zenon
    <3>5. QED
      BY <2>1, <2>13, <3>1, <3>4 DEF in, bs
  <2>16. CASE raw.form = "odd"
    <3>1. in = <<TextBlock(raw.text)>> /\ bs = in /\ raw.text \in Seq(Words)
      BY <2>2, <2>5, <2>10, <2>16
    <3>2. Asked(msg) = Said("user", raw.text)
      BY <2>3, <2>16
    <3>3. QED
      BY <2>1, <2>13, <3>1, <3>2 DEF in, bs
  <2>17. QED
    BY <2>5, <2>12, <2>14, <2>15, <2>16
<1>8. QED
  BY <1>1, <1>5, <1>6, <1>7

\* Written again, a block tells what it did.
LEMMA RewrittenTells ==
  ASSUME NEW who, NEW b \in Blocks
  PROVE  Rewritten(b) \in Blocks /\ BlockTold(who, Rewritten(b)) = BlockTold(who, b)
<1>1. b \in AnyBlocks /\ b.type # "image_url"
  BY KindsOf
<1>2. Rewritten(b) \in AnyBlocks /\ Rewritten(b).type = b.type
  BY <1>1, BlockRewritten
<1>3. Rewritten(b) \in Blocks
  BY <1>1, <1>2, KindsOf
<1>4. CASE b.type \in OtherTypes
  <2>1. BlockTold(who, b) = <<>>
    BY <1>1, <1>4, BlockTells
  <2>2. BlockTold(who, Rewritten(b)) = <<>>
    BY <1>2, <1>4, BlockTells
  <2>3. QED
    BY <1>3, <2>1, <2>2
<1>5. CASE b.type \notin OtherTypes
  <2>1. Rewritten(b) = b
    BY <1>5 DEF Rewritten
  <2>2. QED
    BY <1>3, <2>1
<1>6. QED
  BY <1>4, <1>5

LEMMA TurnConverted ==
  ASSUME NEW msg \in ChatTurns, msg.role # "system"
  PROVE  LET am == Converted(msg)
         IN  /\ am \in Turns
             /\ Tellable(ContentItems(am.role, am.content))
                   = IF Unmarshalled(msg) THEN <<>> ELSE Tellable(Asked(msg))
             /\ Sequence(Asked(msg))
<1> DEFINE who  == InRole(msg.role)
           bs   == InBlocks(msg)
           list == [n \in DOMAIN bs |-> Rewritten(bs[n])]
           raw  == MarshalBlocks(bs)
           am   == Converted(msg)
<1>1. am = [role |-> who, content |-> raw]
  BY DEF Converted
<1>2. bs \in Seq(Blocks) /\ ToldOf(who, bs) = Tellable(Asked(msg)) /\ Sequence(Asked(msg))
  BY BlocksAsked
<1>3. who \in {"user", "assistant"}
  BY DEF InRole
<1>4. raw \in {List(list), Absent} /\ (Unmarshalled(msg) <=> raw = Absent)
  BY DEF MarshalBlocks, Unmarshalled
<1> HIDE DEF who, bs, raw, am
<1>5. Len(bs) \in Nat /\ DOMAIN bs = 1 .. Len(bs) /\ \A n \in 1 .. Len(bs) : bs[n] \in Blocks
  BY <1>2
<1>6. DOMAIN list = 1 .. Len(bs) /\ \A n \in 1 .. Len(bs) : list[n] = Rewritten(bs[n])
  BY <1>5
<1>7. \A n \in 1 .. Len(bs) : list[n] \in Blocks /\ BlockTold(who, list[n]) = BlockTold(who, bs[n])
  BY <1>5, <1>6, RewrittenTells
<1>8. list \in Seq(Blocks) /\ Len(list) = Len(bs)
  <2>1. list = [n \in 1 .. Len(bs) |-> list[n]]
    BY <1>5
  <2> HIDE DEF list
  <2>2. list \in [1 .. Len(bs) -> Blocks]
    BY <1>7, <2>1
  <2>3. QED
    BY <1>5, <2>2
<1> HIDE DEF list
<1>9. ToldOf(who, list) = ToldOf(who, bs)
  <2>1. Blocks \subseteq AnyBlocks
    BY KindsOf
  <2>2. list \in Seq(AnyBlocks) /\ bs \in Seq(AnyBlocks)
    BY <1>2, <1>8, <2>1
  <2>3. QED
    BY <1>7, <1>8, <2>2, SameTold
<1>10. am \in Turns
  <2> DEFINE R == Raws(Blocks)
  <2>1. Turns = [role : {"user", "assistant"}, content : R]
    BY DEF Turns
  <2>2. raw \in R
    BY <1>4, <1>8, RawForms
  <2> HIDE DEF R
  <2>3. QED
    BY <1>1, <1>3, <2>1, <2>2
<1>11. Tellable(ContentItems(who, raw)) = IF Unmarshalled(msg) THEN <<>> ELSE Tellable(Asked(msg))
  <2>1. Tellable(ContentItems(who, raw)) = ToldOf(who, BlocksFromRaw(raw))
    BY DEF ContentItems, ItemsOf, ToldOf
  <2>2. CASE Unmarshalled(msg)
    <3>1. BlocksFromRaw(raw) = <<>> /\ <<>> \in Seq(AnyBlocks)
      BY <1>4, <2>2 DEF BlocksFromRaw, Absent
    <3>2. QED
      BY <2>1, <2>2, <3>1, ToldParts
  <2>3. CASE ~Unmarshalled(msg)
    <3>1. raw = List(list)
      BY <1>4, <2>3
    <3>2. BlocksFromRaw(raw) = list
      BY <3>1 DEF BlocksFromRaw, List
    <3>3. QED
      BY <1>2, <1>9, <2>1, <2>3, <3>2
  <2>4. QED
    BY <2>2, <2>3
<1>12. am.role = who /\ am.content = raw
  BY <1>1
<1>13. QED
  BY <1>2, <1>10, <1>11, <1>12 DEF am

\* Words of a chat message can be told, or are none.
LEMMA AskedTold ==
  ASSUME NEW msg \in ChatTurns, msg.role # "system", NEW it \in Range(Asked(msg)), NEW w \in ItemWords(it)
  PROVE  FlattenItem(it).class \in Classes /\ w \in ItemWords(FlattenItem(it))
<1> DEFINE bs  == AskedBlocks(msg)
           who == InRole(msg.role)
<1>1. bs \in Seq(AnyBlocks) /\ ItemsOf(who, bs) = Asked(msg) /\ \A n \in 1 .. Len(bs) : Expected(who, bs[n])
  BY BlocksAsked
<1>2. who \in {"user", "assistant"}
  BY DEF InRole
<1> HIDE DEF bs, who
<1>3. it \in Range(ItemsOf(who, bs))
  BY <1>1
<1>4. PICK n \in 1 .. Len(bs) : it \in Range(BlockItems(who, bs[n]))
  BY <1>1, <1>3, ItemsFrom
<1> DEFINE b == bs[n]
<1>5. b \in AnyBlocks /\ it \in Range(BlockItems(who, b)) /\ Expected(who, b)
  BY <1>1, <1>4
<1> HIDE DEF b
<1>6. FlattenItem(it).class = it.class /\ ItemWords(FlattenItem(it)) = ItemWords(it)
  BY <1>5, ItemsAre, WordsAre
<1>7. it.class[2] \notin {"picture", "other"}
  BY ItemHas
<1>8. \/ b.type = "text" /\ \E x \in Range(b.text) : it = Word(who, x)
      \/ b.type = "tool_use" /\ it = Item(who, "call", b)
      \/ b.type = "tool_result" /\ it = Item(who, "result", ToolResult(b.i, b.content))
      \/ b.type \in OtherTypes /\ it = Item(who, "other", Other(b.type, b.text))
      \/ b.type \in {"image", "image_url"} /\ \E x : it = Item(who, "picture", x)
  BY <1>5, ItemKinds
<1>9. \A kind, x : Item(who, kind, x).class = <<who, kind>>
  BY DEF Item
<1>10. \/ it.class = <<who, "text">>
       \/ b.type = "tool_use" /\ it.class = <<who, "call">>
       \/ b.type = "tool_result" /\ it.class = <<who, "result">>
  <2>1. \A x : Word(who, x).class = <<who, "text">>
    BY WordIs
  <2>2. QED
    BY <1>7, <1>8, <1>9, <2>1
<1>11. it.class \in Classes
  <2>1. who = "user" => b.type # "tool_use"
    BY <1>5 DEF Expected
  <2>2. who = "assistant" => b.type # "tool_result"
    BY <1>5 DEF Expected, OtherTypes
  <2>3. QED
    BY <1>2, <1>10, <2>1, <2>2, ClassesAre
<1>12. QED
  BY <1>6, <1>11

LEMMA ChatBody ==
  ASSUME NEW o \in ChatBodies
  PROVE  o.messages \in Seq(ChatTurns) /\ o.choice = "openai"
<1> DEFINE S == Seq(ChatTurns)
<1>1. ChatBodies = [messages : S, choice : {"openai"}]
  BY DEF ChatBodies
<1> HIDE DEF S
<1>2. o.messages \in S /\ o.choice = "openai"
  BY <1>1
<1>3. QED
  BY <1>2 DEF S

\* What is said to the system, and the rest.
SystemOf(o) == Where(LAMBDA msg : msg.role = "system", o.messages)
RestOf(o)   == Where(LAMBDA msg : msg.role # "system", o.messages)

LEMMA ChatParts ==
  ASSUME NEW o \in ChatBodies
  PROVE  /\ SystemOf(o) \in Seq(ChatTurns) /\ RestOf(o) \in Seq(ChatTurns)
         /\ \A msg \in Range(SystemOf(o)) : msg.role = "system" /\ msg \in Range(o.messages)
         /\ \A msg \in Range(RestOf(o)) : msg.role # "system"
<1> DEFINE s == o.messages
           Y == {msg \in ChatTurns : msg.role = "system"}
           Z == {msg \in ChatTurns : msg.role # "system"}
<1>1. s \in Seq(ChatTurns)
  BY ChatBody
<1>2. SystemOf(o) = FlattenSeq([n \in DOMAIN s |-> IF s[n].role = "system" THEN <<s[n]>> ELSE <<>>])
  BY DEF SystemOf, Where, Each
<1>3. RestOf(o) = FlattenSeq([n \in DOMAIN s |-> IF s[n].role # "system" THEN <<s[n]>> ELSE <<>>])
  BY DEF RestOf, Where, Each
<1>4. /\ Those(Y, s) = FlattenSeq([n \in DOMAIN s |-> IF s[n] \in Y THEN <<s[n]>> ELSE <<>>])
      /\ Those(Z, s) = FlattenSeq([n \in DOMAIN s |-> IF s[n] \in Z THEN <<s[n]>> ELSE <<>>])
  BY DEF Those, Where, Each
<1> HIDE DEF s
<1>5. Sequence(s) /\ Range(s) \subseteq ChatTurns /\ \A n \in DOMAIN s : s[n] \in ChatTurns
  BY <1>1, IsWithin DEF Range
<1>6. /\ \A n \in DOMAIN s : s[n] \in Y <=> s[n].role = "system"
      /\ \A n \in DOMAIN s : s[n] \in Z <=> s[n].role # "system"
  BY <1>5
<1>7. Y \subseteq ChatTurns /\ Z \subseteq ChatTurns
      /\ (\A msg \in Y : msg.role = "system") /\ (\A msg \in Z : msg.role # "system")
  OBVIOUS
<1> HIDE DEF Y, Z
<1>8. /\ [n \in DOMAIN s |-> IF s[n].role = "system" THEN <<s[n]>> ELSE <<>>]
            = [n \in DOMAIN s |-> IF s[n] \in Y THEN <<s[n]>> ELSE <<>>]
      /\ [n \in DOMAIN s |-> IF s[n].role # "system" THEN <<s[n]>> ELSE <<>>]
            = [n \in DOMAIN s |-> IF s[n] \in Z THEN <<s[n]>> ELSE <<>>]
  BY <1>6
<1>9. SystemOf(o) = Those(Y, s) /\ RestOf(o) = Those(Z, s)
  BY <1>2, <1>3, <1>4, <1>8, Zenon
<1>10. /\ Sequence(Those(Y, s)) /\ Range(Those(Y, s)) = Range(s) \cap Y
       /\ Sequence(Those(Z, s)) /\ Range(Those(Z, s)) = Range(s) \cap Z
  BY <1>5, ThoseOf
<1>11. SystemOf(o) \in Seq(ChatTurns) /\ RestOf(o) \in Seq(ChatTurns)
  BY <1>5, <1>9, <1>10, IsWithin
<1>12. QED
  BY <1>7, <1>9, <1>10, <1>11 DEF s

LEMMA TurnsConverted ==
  ASSUME NEW o \in ChatBodies
  PROVE  LET ms == ToAnthropic(o).messages
         IN  /\ ms \in Seq(Turns) /\ Sequence(TurnItems(o))
             /\ Tellable(TurnItemsOf(ms)) = Tellable(TurnItems(o))
             /\ WordsIn(TurnItems(o)) \subseteq WordsIn(Tellable(TurnItems(o)))
<1> DEFINE rest == RestOf(o)
           ms   == [n \in DOMAIN rest |-> Converted(rest[n])]
           k    == Len(rest)
           f    == [n \in DOMAIN ms |-> ContentItems(ms[n].role, ms[n].content)]
           g    == [n \in DOMAIN rest |-> IF Unmarshalled(rest[n]) THEN <<>> ELSE Asked(rest[n])]
<1>1. ToAnthropic(o).messages = ms
  BY DEF ToAnthropic, RestOf, Converted
<1>2. TurnItems(o) = FlattenSeq(g)
  BY DEF TurnItems, RestOf, Each
<1>3. rest \in Seq(ChatTurns) /\ \A msg \in Range(rest) : msg.role # "system"
  BY ChatParts
<1>4. TurnItemsOf(ms) = FlattenSeq(f)
  BY DEF TurnItemsOf, Each
<1> HIDE DEF rest
<1>5. k \in Nat /\ DOMAIN rest = 1 .. k /\ \A n \in 1 .. k : rest[n] \in ChatTurns /\ rest[n].role # "system"
  <2>1. k \in Nat /\ DOMAIN rest = 1 .. k /\ \A n \in 1 .. k : rest[n] \in ChatTurns
    BY <1>3
  <2>2. \A n \in 1 .. k : rest[n] \in Range(rest)
    BY <2>1 DEF Range
  <2>3. QED
    BY <1>3, <2>1, <2>2
<1>6. /\ DOMAIN ms = 1 .. k /\ ms = [n \in 1 .. k |-> ms[n]]
      /\ \A n \in 1 .. k : ms[n] = Converted(rest[n])
  BY <1>5
<1>7. /\ DOMAIN g = 1 .. k /\ g = [n \in 1 .. k |-> g[n]]
      /\ \A n \in 1 .. k : g[n] = IF Unmarshalled(rest[n]) THEN <<>> ELSE Asked(rest[n])
  BY <1>5
<1> HIDE DEF k, ms, g
<1>8. DOMAIN f = 1 .. k /\ f = [n \in 1 .. k |-> f[n]] /\ \A n \in 1 .. k : f[n] = ContentItems(ms[n].role, ms[n].content)
  BY <1>6
<1> HIDE DEF f
<1>9. \A n \in 1 .. k : /\ ms[n] \in Turns /\ Sequence(Asked(rest[n]))
                        /\ Tellable(f[n]) = IF Unmarshalled(rest[n]) THEN <<>> ELSE Tellable(Asked(rest[n]))
  BY <1>5, <1>6, <1>8, TurnConverted
<1>10. ms \in Seq(Turns)
  <2>1. ms \in [1 .. k -> Turns]
    BY <1>6, <1>9
  <2>2. QED
    BY <1>5, <2>1
<1>11. \A n \in 1 .. k : Sequence(f[n]) /\ Sequence(g[n]) /\ Tellable(f[n]) = Tellable(g[n])
  <2>1. \A n \in 1 .. k : Sequence(f[n])
    BY <1>8, <1>9, TurnKinds
  <2>2. \A n \in 1 .. k : Sequence(g[n])
    BY <1>7, <1>9, Nothing
  <2>3. \A n \in 1 .. k : Tellable(f[n]) = Tellable(g[n])
    BY <1>7, <1>9, TellableNothing
  <2>4. QED
    BY <2>1, <2>2, <2>3
<1>12. Nested(f)
  BY <1>5, <1>8, <1>11, ListOf
<1>13. Nested(g) /\ Len(g) = k /\ Sequence(FlattenSeq(g))
  BY <1>5, <1>7, <1>11, ListOf
<1>14. Tellable(FlattenSeq(f)) = Tellable(FlattenSeq(g))
  <2>1. [n \in DOMAIN f |-> Tellable(f[n])] = [n \in DOMAIN g |-> Tellable(g[n])]
    BY <1>7, <1>8, <1>11
  <2>2. /\ Tellable(FlattenSeq(f)) = FlattenSeq([n \in DOMAIN f |-> Tellable(f[n])])
        /\ Tellable(FlattenSeq(g)) = FlattenSeq([n \in DOMAIN g |-> Tellable(g[n])])
    BY <1>12, <1>13, TellableFlat
  <2>3. QED
    BY <2>1, <2>2, Zenon
<1>15. ASSUME NEW w \in WordsIn(FlattenSeq(g)) PROVE w \in WordsIn(Tellable(FlattenSeq(g)))
  <2>1. PICK it \in Range(FlattenSeq(g)) : w \in ItemWords(it)
    BY WordsFrom
  <2>2. PICK n \in 1 .. k : it \in Range(g[n])
    BY <1>13, FlatRange DEF Nested
  <2>3. it \in Range(Asked(rest[n]))
    <3>1. Range(<<>>) = {}
      BY DEF Range
    <3>2. QED
      BY <1>7, <2>2, <3>1
  <2>4. FlattenItem(it).class \in Classes /\ w \in ItemWords(FlattenItem(it))
    BY <1>5, <2>1, <2>3, AskedTold
  <2>5. FlattenItem(it) \in Range(Tellable(FlattenSeq(g)))
    BY <1>13, <2>1, <2>4, TellableOf
  <2>6. QED
    BY <2>4, <2>5, WordsFrom
<1>16. QED
  BY <1>1, <1>2, <1>4, <1>10, <1>13, <1>14, <1>15

-----------------------------------------------------------------------------
(***************************************************************************)
(* What is said to the system, and what providers get of a chat            *)
(* completion.                                                             *)
(***************************************************************************)

SystemTold(s) == Collected("system", Absent, s)

LEMMA ToldMore ==
  ASSUME NEW s, Sequence(s), NEW msg
  PROVE  /\ SystemTold(<<>>) = Absent
         /\ SystemTold(Append(s, msg)) = AppendRawText(SystemTold(s), msg.content)
<1>1. /\ Collected("system", Absent, <<>>) = Absent
      /\ Collected("system", Absent, Append(s, msg)) = Collects("system", Collected("system", Absent, s), msg)
  BY CollectedMore
<1>2. \A x, e : Collects("system", x, e) = AppendRawText(x, e.content)
  BY DEF Collects
<1>3. QED
  BY <1>1, <1>2 DEF SystemTold

LEMMA AppendTyped ==
  ASSUME NEW raw \in Raws(TextBlocks), NEW content \in Raws(TextBlocks)
  PROVE  AppendRawText(raw, content) \in Raws(TextBlocks)
<1> DEFINE old == IF raw.form = "string" THEN raw.text ELSE <<>>
<1>1. /\ raw.form = "string" => raw.text \in Seq(Words)
      /\ content.form = "string" => content.text \in Seq(Words)
  BY RawKinds
<1>2. old \in Seq(Words)
  BY <1>1
<1>3. AppendRawText(raw, content)
        = IF content.form = "string" THEN Str(old \o content.text)
          ELSE IF raw # Absent THEN raw ELSE content
  BY DEF AppendRawText
<1> HIDE DEF old
<1>4. CASE content.form = "string"
  <2>1. old \o content.text \in Seq(Words)
    BY <1>1, <1>2, <1>4
  <2>2. Str(old \o content.text) \in Raws(TextBlocks)
    BY <2>1, RawForms
  <2>3. QED
    BY <1>3, <1>4, <2>2
<1>5. CASE content.form # "string"
  BY <1>3, <1>5
<1>6. QED
  BY <1>4, <1>5

LEMMA SystemTyped ==
  ASSUME NEW s \in Seq(ChatTurns), \A msg \in Range(s) : msg.role = "system"
  PROVE  SystemTold(s) \in Raws(TextBlocks)
<1> DEFINE T == {x \in Firsts(s) : SystemTold(x) \in Raws(TextBlocks)}
<1>1. Sequence(s) /\ \A n \in 1 .. Len(s) : s[n] \in ChatTurns /\ s[n].role = "system"
  <2>1. Sequence(s) /\ \A n \in 1 .. Len(s) : s[n] \in ChatTurns
    BY IsSequence
  <2>2. \A n \in 1 .. Len(s) : s[n] \in Range(s)
    BY <2>1, Elements
  <2>3. QED
    BY <2>1, <2>2
<1>2. <<>> \in T
  <2>1. <<>> \in Firsts(s)
    BY <1>1, FirstsOf
  <2>2. SystemTold(<<>>) = Absent
    BY Nothing, ToldMore
  <2>3. Absent \in Raws(TextBlocks)
    BY RawForms
  <2>4. QED
    BY <2>1, <2>2, <2>3
<1>3. ASSUME NEW k \in 1 .. Len(s), SubSeq(s, 1, k - 1) \in T
      PROVE  Append(SubSeq(s, 1, k - 1), s[k]) \in T
  <2> DEFINE q == SubSeq(s, 1, k - 1)
             e == s[k]
  <2>1. Append(q, e) \in Firsts(s) /\ q \in Firsts(s) /\ SystemTold(q) \in Raws(TextBlocks)
    BY <1>1, <1>3, FirstsOf
  <2>2. e \in ChatTurns /\ e.role = "system"
    BY <1>1
  <2>3. Sequence(q)
    BY <1>1, <2>1, FirstsOf
  <2> HIDE DEF q, e
  <2>4. e.content \in Raws(TextBlocks)
    BY <2>2, ChatKinds
  <2>5. SystemTold(Append(q, e)) = AppendRawText(SystemTold(q), e.content)
    BY <2>3, ToldMore
  <2>6. SystemTold(Append(q, e)) \in Raws(TextBlocks)
    BY <2>1, <2>4, <2>5, AppendTyped
  <2>7. QED
    BY <2>1, <2>6 DEF q, e
<1> HIDE DEF T
<1>4. s \in T
  BY <1>1, <1>2, <1>3, BySteps
<1>5. QED
  BY <1>4 DEF T

\* Strings are all told.
Strings == {msg \in ChatTurns : msg.role = "system" /\ msg.content.form = "string"}
AskedOf(s) == Each(LAMBDA msg : Asked(msg), s)
Asking  == [msg \in Strings |-> Asked(msg)]

LEMMA StringAsked ==
  ASSUME NEW msg \in Strings
  PROVE  /\ msg.content.text \in Seq(Words) /\ Asked(msg) = Said("system", msg.content.text)
         /\ Sequence(Asked(msg)) /\ Asking[msg] = Asked(msg)
<1> DEFINE raw == msg.content
<1>1. msg \in ChatTurns /\ msg.role = "system" /\ raw.form = "string"
  BY DEF Strings
<1>2. raw \in Raws(TextBlocks) /\ msg.calls = <<>>
  BY <1>1, ChatKinds
<1>3. raw.text \in Seq(Words) /\ raw = Str(raw.text)
  BY <1>1, <1>2, RawKinds
<1>4. Asked(msg) = ContentItems(msg.role, msg.content)
                     \o [n \in DOMAIN msg.calls |-> Item(msg.role, "call", msg.calls[n])]
  BY <1>1 DEF Asked
<1>5. [n \in DOMAIN msg.calls |-> Item(msg.role, "call", msg.calls[n])] = <<>>
  BY <1>2
<1>6. ContentItems(msg.role, msg.content) = ItemsOf("system", BlocksFromRaw(raw))
  BY <1>1 DEF ContentItems, ItemsOf
<1> HIDE DEF raw
<1>7. ItemsOf("system", BlocksFromRaw(Str(raw.text))) = Said("system", raw.text)
  BY <1>3, StrItems
<1>8. ItemsOf("system", BlocksFromRaw(raw)) = Said("system", raw.text)
  BY <1>3, <1>7, Zenon
<1>9. Sequence(Said("system", raw.text))
  BY <1>3, SaidClass
<1>10. Asked(msg) = Said("system", raw.text)
  BY <1>4, <1>5, <1>6, <1>8, <1>9, JoinedFew
<1>11. Asking[msg] = Asked(msg)
  BY DEF Asking
<1>12. QED
  BY <1>3, <1>9, <1>10, <1>11 DEF raw

LEMMA AskedMore ==
  ASSUME NEW s \in Seq(Strings), NEW msg \in Strings
  PROVE  AskedOf(<<>>) = <<>> /\ AskedOf(Append(s, msg)) = AskedOf(s) \o Asked(msg)
<1>1. ASSUME NEW x \in Seq(Strings) PROVE AskedOf(x) = Bind(Asking, x)
  <2>1. \A n \in DOMAIN x : x[n] \in Strings
    BY <1>1, IsWithin DEF Range
  <2>2. \A e \in Strings : Asking[e] = Asked(e)
    BY StringAsked
  <2>3. [n \in DOMAIN x |-> Asked(x[n])] = [n \in DOMAIN x |-> Asking[x[n]]]
    BY <2>1, <2>2
  <2>4. AskedOf(x) = FlattenSeq([n \in DOMAIN x |-> Asked(x[n])])
    BY DEF AskedOf, Each
  <2>5. QED
    BY <2>3, <2>4 DEF Bind, Map
<1>2. <<>> \in Seq(Strings) /\ Append(s, msg) \in Seq(Strings)
  OBVIOUS
<1>3. Sequence(s) /\ Range(s) \subseteq Strings
  BY IsWithin
<1>4. \A e \in Strings : Sequence(Asking[e]) /\ Asking[e] = Asked(e)
  BY StringAsked
<1>5. \A e \in Range(s) : Sequence(Asking[e])
  BY <1>3, <1>4
<1>6. Bind(Asking, Append(s, msg)) = Bind(Asking, s) \o Asking[msg]
  BY <1>3, <1>4, <1>5, BindMore
<1>7. QED
  BY <1>1, <1>2, <1>4, <1>6, BindNothing

LEMMA StringsTold ==
  ASSUME NEW s \in Seq(Strings)
  PROVE  Said("system", SystemText(SystemTold(s))) = AskedOf(s)
<1> DEFINE Fits(x) == /\ x \in Seq(Strings)
                      /\ \/ SystemTold(x) = Absent /\ AskedOf(x) = <<>>
                         \/ \E t \in Seq(Words) : SystemTold(x) = Str(t) /\ AskedOf(x) = Said("system", t)
           T == {x \in Firsts(s) : Fits(x)}
<1>1. Sequence(s) /\ \A n \in 1 .. Len(s) : s[n] \in Strings
  BY IsSequence
<1>2. <<>> \in T
  <2>1. <<>> \in Firsts(s) /\ <<>> \in Seq(Strings)
    BY <1>1, FirstsOf
  <2>2. SystemTold(<<>>) = Absent
    BY Nothing, ToldMore
  <2>3. AskedOf(<<>>) = <<>>
    BY FlatNothing DEF AskedOf, Each
  <2>4. QED
    BY <2>1, <2>2, <2>3
<1>3. ASSUME NEW k \in 1 .. Len(s), SubSeq(s, 1, k - 1) \in T
      PROVE  Append(SubSeq(s, 1, k - 1), s[k]) \in T
  <2> DEFINE q == SubSeq(s, 1, k - 1)
             e == s[k]
             w == e.content.text
             old == SystemTold(q)
  <2>1. Append(q, e) \in Firsts(s)
    BY <1>1, FirstsOf
  <2>2. Fits(q) /\ e \in Strings
    BY <1>1, <1>3
  <2> HIDE DEF q, e
  <2>3. q \in Seq(Strings) /\ Sequence(q) /\ Append(q, e) \in Seq(Strings)
    BY <2>2, IsSequence
  <2>4. w \in Seq(Words) /\ Asked(e) = Said("system", w) /\ e.content.form = "string"
    BY <2>2, StringAsked DEF Strings
  <2>5. SystemTold(Append(q, e)) = AppendRawText(old, e.content)
    BY <2>3, ToldMore
  <2>6. AskedOf(Append(q, e)) = AskedOf(q) \o Asked(e)
    BY <2>2, <2>3, AskedMore
  <2>7. AppendRawText(old, e.content) = Str((IF old.form = "string" THEN old.text ELSE <<>>) \o w)
    BY <2>4 DEF AppendRawText
  <2> HIDE DEF w, old
  <2>8. CASE old = Absent /\ AskedOf(q) = <<>>
    <3>1. old.form # "string"
      BY <2>8 DEF Absent
    <3>2. <<>> \o w = w /\ <<>> \o Said("system", w) = Said("system", w)
      BY <2>4, IsSequence, SaidClass, NothingJoined
    <3>3. SystemTold(Append(q, e)) = Str(w) /\ AskedOf(Append(q, e)) = Said("system", w)
      BY <2>4, <2>5, <2>6, <2>7, <2>8, <3>1, <3>2
    <3>4. QED
      BY <2>1, <2>3, <2>4, <3>3 DEF q, e
  <2>9. CASE \E t \in Seq(Words) : old = Str(t) /\ AskedOf(q) = Said("system", t)
    <3>1. PICK t \in Seq(Words) : old = Str(t) /\ AskedOf(q) = Said("system", t)
      BY <2>9
    <3>2. old.form = "string" /\ old.text = t
      BY <3>1 DEF Str
    <3>3. t \o w \in Seq(Words) /\ Said("system", t \o w) = Said("system", t) \o Said("system", w)
      <4>1. t \in Seq(Words) /\ w \in Seq(Words)
        BY <2>4, <3>1
      <4>2. t \o w \in Seq(Words)
        BY <4>1
      <4>3. Said("system", t \o w) = Said("system", t) \o Said("system", w)
        BY <4>1, SaidJoined
      <4>4. QED
        BY <4>2, <4>3
    <3>4. SystemTold(Append(q, e)) = Str(t \o w) /\ AskedOf(Append(q, e)) = Said("system", t \o w)
      BY <2>4, <2>5, <2>6, <2>7, <3>1, <3>2, <3>3
    <3>5. QED
      BY <2>1, <2>3, <3>3, <3>4 DEF q, e
  <2>10. QED
    BY <2>2, <2>8, <2>9 DEF old
<1> HIDE DEF T, Fits
<1>4. s \in T
  BY <1>1, <1>2, <1>3, BySteps
<1>5. Fits(s)
  BY <1>4 DEF T
<1>6. CASE SystemTold(s) = Absent /\ AskedOf(s) = <<>>
  <2>1. BlocksFromRaw(Absent) = <<>>
    BY DEF BlocksFromRaw, Absent
  <2>2. Texts(<<>>) = <<>>
    BY FlatNothing DEF Texts
  <2>3. SystemText(Absent) = <<>>
    BY <2>1, <2>2 DEF SystemText
  <2>4. QED
    BY <1>6, <2>3, SaidNothing
<1>7. CASE \E t \in Seq(Words) : SystemTold(s) = Str(t) /\ AskedOf(s) = Said("system", t)
  <2>1. PICK t \in Seq(Words) : SystemTold(s) = Str(t) /\ AskedOf(s) = Said("system", t)
    BY <1>7
  <2>2. SystemText(Str(t)) = t
    BY FlattenStr
  <2>3. QED
    BY <2>1, <2>2
<1>8. QED
  BY <1>5, <1>6, <1>7 DEF Fits

\* The items of the system and those of the turns.
LEMMA Separated ==
  ASSUME NEW s, NEW t, Sequence(s), Sequence(t),
         \A it \in Range(s) : it.class[1] = "system", \A it \in Range(t) : it.class[1] # "system"
  PROVE  /\ Where(LAMBDA it : it.class[1] # "system", s \o t) = t
         /\ Where(LAMBDA it : it.class[1] = "system", s \o t) = s
<1> DEFINE u == s \o t
           Y == {it \in Range(u) : it.class[1] = "system"}
           Z == {it \in Range(u) : it.class[1] # "system"}
<1>1. Range(u) = Range(s) \cup Range(t)
  BY RangeJoined
<1>2. Range(s) \subseteq Y /\ Range(s) \cap Z = {} /\ Range(t) \subseteq Z /\ Range(t) \cap Y = {}
  <2> HIDE DEF u
  <2>1. QED
    BY <1>1
<1>3. (\A n \in DOMAIN u : u[n] \in Y <=> u[n].class[1] = "system")
      /\ (\A n \in DOMAIN u : u[n] \in Z <=> u[n].class[1] # "system")
  <2> HIDE DEF u
  <2>1. QED
    BY DEF Range
<1> HIDE DEF Y, Z
<1>4. Those(Y, u) = s
  <2>1. Those(Y, u) = Those(Y, s) \o Those(Y, t)
    BY ThoseJoined
  <2>2. Those(Y, s) = s /\ Those(Y, t) = <<>>
    BY <1>2, ThoseAll
  <2>3. s \o <<>> = s
    BY JoinedFew
  <2>4. QED
    BY <2>1, <2>2, <2>3
<1>5. Those(Z, u) = t
  <2>1. Those(Z, u) = Those(Z, s) \o Those(Z, t)
    BY ThoseJoined
  <2>2. Those(Z, s) = <<>> /\ Those(Z, t) = t
    BY <1>2, ThoseAll
  <2>3. <<>> \o t = t
    BY NothingJoined
  <2>4. QED
    BY <2>1, <2>2, <2>3
<1> HIDE DEF u
<1>6. /\ [n \in DOMAIN u |-> IF u[n].class[1] = "system" THEN <<u[n]>> ELSE <<>>]
            = [n \in DOMAIN u |-> IF u[n] \in Y THEN <<u[n]>> ELSE <<>>]
      /\ [n \in DOMAIN u |-> IF u[n].class[1] # "system" THEN <<u[n]>> ELSE <<>>]
            = [n \in DOMAIN u |-> IF u[n] \in Z THEN <<u[n]>> ELSE <<>>]
  BY <1>3
<1>7. /\ Those(Y, u) = FlattenSeq([n \in DOMAIN u |-> IF u[n] \in Y THEN <<u[n]>> ELSE <<>>])
      /\ Those(Z, u) = FlattenSeq([n \in DOMAIN u |-> IF u[n] \in Z THEN <<u[n]>> ELSE <<>>])
  BY DEF Those, Where, Each
<1>8. Where(LAMBDA it : it.class[1] = "system", u)
        = FlattenSeq([n \in DOMAIN u |-> IF u[n].class[1] = "system" THEN <<u[n]>> ELSE <<>>])
  BY DEF Where, Each
<1>9. Where(LAMBDA it : it.class[1] # "system", u)
        = FlattenSeq([n \in DOMAIN u |-> IF u[n].class[1] # "system" THEN <<u[n]>> ELSE <<>>])
  BY DEF Where, Each
<1>10. Where(LAMBDA it : it.class[1] = "system", u) = s
  BY <1>4, <1>6, <1>7, <1>8, Zenon
<1>11. Where(LAMBDA it : it.class[1] # "system", u) = t
  BY <1>5, <1>6, <1>7, <1>9, Zenon
<1>12. QED
  BY <1>10, <1>11 DEF u

LEMMA ChatSent ==
  ASSUME NEW o \in ChatBodies
  PROVE  LET m == ToAnthropic(o)
             told == Said("system", SystemText(m.system))
         IN  /\ SystemText(m.system) \in Seq(Words) /\ m.messages \in Seq(Turns)
             /\ SentOf(TranslateRequest(m).messages) = told \o TurnsSent(m.messages)
             /\ AllStrings(o) => told = SystemSaid(o)
             /\ TranslateRequest(m).choice = "absent"
<1> DEFINE m == ToAnthropic(o)
<1>1. m.system = SystemTold(SystemOf(o)) /\ m.choice = o.choice
  <2>1. m.system = FoldLeft(LAMBDA raw, msg : AppendRawText(raw, msg.content), Absent, SystemOf(o))
    BY DEF ToAnthropic, SystemOf
  <2>2. m.choice = o.choice
    BY DEF ToAnthropic
  <2>3. SystemTold(SystemOf(o)) = FoldLeft(LAMBDA raw, msg : AppendRawText(raw, msg.content), Absent, SystemOf(o))
    BY DEF SystemTold, Collected
  <2>4. QED
    BY <2>1, <2>2, <2>3, Zenon
<1>2. m.messages \in Seq(Turns)
  BY TurnsConverted
<1> HIDE DEF m
<1>3. /\ SystemOf(o) \in Seq(ChatTurns)
      /\ \A msg \in Range(SystemOf(o)) : msg.role = "system" /\ msg \in Range(o.messages)
  BY ChatParts
<1>4. SystemTold(SystemOf(o)) \in Raws(TextBlocks)
  BY <1>3, SystemTyped
<1>5. TextBlocks \in SUBSET AnyBlocks
  BY DEF AnyBlocks, Blocks
<1>6. SystemText(m.system) \in Seq(Words)
  BY <1>1, <1>4, <1>5, FlattenTyped
<1>7. /\ SentOf(TranslateRequest(m).messages) = Said("system", SystemText(m.system)) \o TurnsSent(m.messages)
      /\ TranslateRequest(m).choice = TranslateChoice(m.choice)
  BY <1>2, <1>6, Translation
<1>8. ASSUME AllStrings(o) PROVE Said("system", SystemText(m.system)) = SystemSaid(o)
  <2>1. \A msg \in Range(SystemOf(o)) : msg.content.form = "string"
    BY <1>3, <1>8 DEF AllStrings, Range
  <2>2. Sequence(SystemOf(o)) /\ Range(SystemOf(o)) \subseteq ChatTurns
    BY <1>3, IsWithin
  <2>3. Range(SystemOf(o)) \subseteq Strings
    BY <1>3, <2>1, <2>2 DEF Strings
  <2>4. SystemOf(o) \in Seq(Strings)
    BY <2>2, <2>3, IsWithin
  <2>5. Said("system", SystemText(SystemTold(SystemOf(o)))) = AskedOf(SystemOf(o))
    BY <2>4, StringsTold
  <2>6. SystemSaid(o) = AskedOf(SystemOf(o))
    BY DEF SystemSaid, AskedOf, SystemOf
  <2>7. QED
    BY <1>1, <2>5, <2>6
<1>9. o.choice = "openai"
  BY ChatBody
<1>10. TranslateChoice(m.choice) = "absent"
  BY <1>1, <1>9 DEF TranslateChoice
<1>11. QED
  BY <1>2, <1>6, <1>7, <1>8, <1>10 DEF m

LEMMA ChatKept ==
  ASSUME NEW o \in ChatBodies
  PROVE  LET sent  == Each(Sent, ChatPayload(TRUE, o).messages)
             turns == Where(LAMBDA it : it.class[1] # "system", sent)
             asked == [n \in DOMAIN TurnItems(o) |-> FlattenItem(TurnItems(o)[n])]
         IN  /\ SameItems(asked, turns)
             /\ AllStrings(o) => Where(LAMBDA it : it.class[1] = "system", sent) = SystemSaid(o)
             /\ ChatPayload(TRUE, o).choice = "absent"
<1> DEFINE m     == ToAnthropic(o)
           told  == Said("system", SystemText(m.system))
           u     == TurnsSent(m.messages)
           sent  == Each(Sent, ChatPayload(TRUE, o).messages)
           asked == [n \in DOMAIN TurnItems(o) |-> FlattenItem(TurnItems(o)[n])]
<1>1. ChatPayload(TRUE, o) = TranslateRequest(m)
  BY DEF ChatPayload
<1>2. /\ SystemText(m.system) \in Seq(Words) /\ m.messages \in Seq(Turns)
      /\ SentOf(TranslateRequest(m).messages) = told \o u
      /\ AllStrings(o) => told = SystemSaid(o)
      /\ TranslateRequest(m).choice = "absent"
  BY ChatSent
<1>3. Sequence(TurnItems(o)) /\ Tellable(TurnItemsOf(m.messages)) = Tellable(TurnItems(o))
  BY TurnsConverted
<1>4. sent = told \o u
  <2>1. SentOf(TranslateRequest(m).messages) = Each(Sent, TranslateRequest(m).messages)
    BY DEF SentOf
  <2>2. QED
    BY <1>1, <1>2, <2>1, Zenon
<1>5. Sequence(told) /\ \A it \in Range(told) : it.class = <<"system", "text">>
  BY <1>2, SaidClass
<1>6. /\ Sequence(u) /\ SameItems(Tellable(TurnItemsOf(m.messages)), u)
      /\ \A it \in Range(u) : it.class \in TurnClasses
  BY <1>2, TurnsTranslated
<1>7. asked = Plain(TurnItems(o))
  BY DEF Plain
<1> HIDE DEF m, told, u, asked
<1>8. \A it \in Range(told) : it.class[1] = "system"
  BY <1>5
<1>9. \A it \in Range(u) : it.class[1] # "system"
  BY <1>6, TurnClassesOf
<1>10. /\ Where(LAMBDA it : it.class[1] # "system", told \o u) = u
       /\ Where(LAMBDA it : it.class[1] = "system", told \o u) = told
  BY <1>5, <1>6, <1>8, <1>9, Separated
<1>11. SameItems(asked, u)
  <2>1. SameItems(Plain(TurnItems(o)), Tellable(TurnItems(o)))
    BY <1>3, TellableOf
  <2>2. SameItems(Tellable(TurnItems(o)), u)
    BY <1>3, <1>6
  <2>3. QED
    BY <1>7, <2>1, <2>2, SameFollows
<1> HIDE DEF sent
<1>12. /\ Where(LAMBDA it : it.class[1] # "system", sent) = u
       /\ Where(LAMBDA it : it.class[1] = "system", sent) = told
  BY <1>4, <1>10, Zenon
<1>13. QED
  BY <1>1, <1>2, <1>11, <1>12, Zenon DEF sent, asked

LEMMA ChatSeen ==
  ASSUME NEW o \in ChatBodies
  PROVE  LET seen == Range(RequestFlatText(ToAnthropic(o))) IN
         /\ WordsIn(Each(Sent, ChatPayload(TRUE, o).messages)) \subseteq seen
         /\ WordsIn(TurnItems(o)) \subseteq seen
<1> DEFINE m    == ToAnthropic(o)
           told == Said("system", SystemText(m.system))
           u    == TurnsSent(m.messages)
           t    == TurnItemsOf(m.messages)
           seen == Range(RequestFlatText(m))
           sent == Each(Sent, ChatPayload(TRUE, o).messages)
<1>1. ChatPayload(TRUE, o) = TranslateRequest(m)
  BY DEF ChatPayload
<1>2. /\ SystemText(m.system) \in Seq(Words) /\ m.messages \in Seq(Turns)
      /\ SentOf(TranslateRequest(m).messages) = told \o u
  BY ChatSent
<1>3. sent = told \o u
  <2>1. SentOf(TranslateRequest(m).messages) = Each(Sent, TranslateRequest(m).messages)
    BY DEF SentOf
  <2>2. QED
    BY <1>1, <1>2, <2>1, Zenon
<1>4. Tellable(t) = Tellable(TurnItems(o)) /\ WordsIn(TurnItems(o)) \subseteq WordsIn(Tellable(TurnItems(o)))
  BY TurnsConverted
<1>5. Range(SystemText(m.system)) \subseteq seen /\ WordsIn(t) \subseteq seen
  BY <1>2, RequestSeen
<1>6. Sequence(told) /\ WordsIn(told) \subseteq Range(SystemText(m.system))
  BY <1>2, SaidClass, SaidWords
<1>7. Sequence(u) /\ SameItems(Tellable(t), u) /\ \A it \in Range(u) : it.class \in TurnClasses
  BY <1>2, TurnsTranslated
<1>8. Sequence(t) /\ WordsIn(Tellable(t)) \subseteq WordsIn(t)
  BY <1>2, TurnsOf, TurnWords
<1> HIDE DEF m, told, u, t, seen, sent
<1>9. \A it \in Range(u) : it.class \in Classes
  BY <1>7, TurnClassesOf
<1>10. WordsIn(u) \subseteq WordsIn(Tellable(t))
  BY <1>7, <1>8, <1>9, SameWords, TellableOf
<1>11. WordsIn(told \o u) = WordsIn(told) \cup WordsIn(u)
  BY <1>6, <1>7, WordsJoined
<1>12. WordsIn(sent) \subseteq seen /\ WordsIn(TurnItems(o)) \subseteq seen
  BY <1>3, <1>4, <1>5, <1>6, <1>8, <1>10, <1>11
<1>13. QED
  BY <1>12 DEF sent, seen, m

LEMMA RequestsStand == RequestKept
<1>1. MessageRequests \subseteq MessageBodies /\ ChatRequests \subseteq ChatBodies
  BY RequestsAssumption
<1>2. ASSUME NEW m \in MessageRequests
      PROVE  /\ MessageItems(MessagePayload(FALSE, m)) = MessageGot(m)
             /\ SameItems(MessageGot(m), Each(Sent, MessagePayload(TRUE, m).messages))
             /\ MessagePayload(TRUE, m).choice # "absent" <=> m.choice \in {"auto", "any", "tool"}
  <2>1. m \in MessageBodies
    BY <1>1
  <2>2. QED
    BY <2>1, MessageKept
<1>3. ASSUME NEW o \in ChatRequests
      PROVE  LET sent  == Each(Sent, ChatPayload(TRUE, o).messages)
                 turns == Where(LAMBDA it : it.class[1] # "system", sent)
                 asked == [n \in DOMAIN TurnItems(o) |-> FlattenItem(TurnItems(o)[n])]
             IN  /\ SameItems(asked, turns)
                 /\ AllStrings(o) => Where(LAMBDA it : it.class[1] = "system", sent) = SystemSaid(o)
                 /\ ChatPayload(TRUE, o).choice = "absent"
  <2>1. o \in ChatBodies
    BY <1>1
  <2>2. QED
    BY <2>1, ChatKept
<1>4. QED
  BY <1>2, <1>3, Zenon DEF RequestKept

LEMMA WordsStand == NothingUnseen
<1>1. MessageRequests \subseteq MessageBodies /\ ChatRequests \subseteq ChatBodies
  BY RequestsAssumption
<1>2. ASSUME NEW m \in MessageRequests
      PROVE  LET items == MessageItems(MessagePayload(FALSE, m)) IN
             /\ WordsIn(items) \subseteq Range(RequestFlatText(RedactRequestText(m)))
             /\ WordsIn(Each(Sent, MessagePayload(TRUE, m).messages)) \subseteq WordsIn(items)
             /\ WordsIn(Where(LAMBDA it : it.class[2] # "call", items)) \cap Personal = {}
  <2>1. m \in MessageBodies
    BY <1>1
  <2>2. QED
    BY <2>1, MessageSeen
<1>3. ASSUME NEW o \in ChatRequests
      PROVE  LET seen == Range(RequestFlatText(ToAnthropic(o))) IN
             /\ WordsIn(Each(Sent, ChatPayload(TRUE, o).messages)) \subseteq seen
             /\ WordsIn(TurnItems(o)) \subseteq seen
  <2>1. o \in ChatBodies
    BY <1>1
  <2>2. QED
    BY <2>1, ChatSeen
<1>4. QED
  BY <1>2, <1>3, Zenon DEF NothingUnseen

(***************************************************************************)
(* Every provider gets a message's conversation, and an OpenAI provider    *)
(* that of a chat client, but for what RequestKept names: results become   *)
(* strings, a turn that is redacted has its other blocks emptied, an       *)
(* OpenAI provider is told of certain kinds only.  For all requests the    *)
(* two APIs define, with any blocks in a turn.                             *)
(***************************************************************************)
THEOREM RequestsKept == Spec => []RequestKept
<1>1. RequestKept
  BY RequestsStand
<1>2. QED
  BY <1>1, PTL

(***************************************************************************)
(* Patterns look at every word that providers get, and no personal word is *)
(* sent from /v1/messages but in a call: for all requests.                 *)
(***************************************************************************)
THEOREM AllSeen == Spec => []NothingUnseen
<1>1. NothingUnseen
  BY WordsStand
<1>2. QED
  BY <1>1, PTL

===============================================================================
