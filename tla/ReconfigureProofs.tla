-------------------------- MODULE ReconfigureProofs --------------------------
(***************************************************************************)
(* What Routing's loops compute, for every input: the exchanges of apply   *)
(* sort the rules, and Resolve only answers with targets that come from    *)
(* the configuration.  Then theorems about Reconfigure for any             *)
(* configurations, requests and scripts of them, generations and failures: *)
(* types, the count of the tracker, the end of a shutdown, what the two    *)
(* files hold, and what requests are routed by.                            *)
(***************************************************************************)
EXTENDS Reconfigure, NumberLemmas, SequenceTheorems

-----------------------------------------------------------------------------
(***************************************************************************)
(* The exchanges of apply.                                                 *)
(***************************************************************************)

\* Sequences of the length of another.
Like(R, s) == {u \in Seq(R) : Len(u) = Len(s)}

LEMMA ExchangeKeeps ==
  ASSUME NEW R, NEW s \in Seq(R), NEW i \in 1 .. Len(s), NEW j \in 1 .. Len(s)
  PROVE  /\ Exchange(s, i, j) \in Like(R, s)
         /\ \A k \in 1 .. Len(s) : k # i /\ k # j => Exchange(s, i, j)[k] = s[k]
         /\ i # j => \/ Exchange(s, i, j) = s /\ ~(Len(s[j].prefix) > Len(s[i].prefix))
                     \/ /\ Exchange(s, i, j)[i] = s[j] /\ Exchange(s, i, j)[j] = s[i]
                        /\ Len(s[j].prefix) > Len(s[i].prefix)
<1>1. s[i] \in R /\ s[j] \in R
  OBVIOUS
<1>2. CASE Len(s[j].prefix) > Len(s[i].prefix)
  <2>1. Exchange(s, i, j) = [s EXCEPT ![i] = s[j], ![j] = s[i]]
    BY <1>2 DEF Exchange
  <2>2. [s EXCEPT ![i] = s[j], ![j] = s[i]] \in Like(R, s)
    BY <1>1 DEF Like
  <2>3. QED
    BY <1>2, <2>1, <2>2
<1>3. CASE ~(Len(s[j].prefix) > Len(s[i].prefix))
  BY <1>3 DEF Exchange, Like
<1>4. QED
  BY <1>2, <1>3

\* The positions the inner loop goes through.
After(s, i) == [k \in 1 .. Len(s) - i |-> i + k]

LEMMA SettleSteps ==
  ASSUME NEW R, NEW s \in Seq(R), NEW i \in 1 .. Len(s)
  PROVE  \E f : /\ f[0] = s /\ Settle(s, i) = f[Len(s) - i]
                /\ \A k \in 1 .. Len(s) - i : f[k] = Exchange(f[k - 1], i, i + k)
<1> DEFINE n == Len(s) - i
           V == Like(R, s)
           G == [p \in (1 .. n) \X V |-> Exchange(p[2], i, i + p[1])]
           Body(g, S) == IF S = {} THEN s
                         ELSE Exchange(g[S \ {Max(S)}], i, After(s, i)[Max(S)])
           All == SUBSET (DOMAIN After(s, i))
           iter == CHOOSE g : g = [S \in All |-> Body(g, S)]
<1>1. n \in Nat /\ DOMAIN After(s, i) = 1 .. n /\ s \in V
  BY DEF After, Like
<1>2. Settle(s, i) = iter[1 .. n]
  <2>1. Settle(s, i) = iter[DOMAIN After(s, i)]
    BY Zenon DEF Settle, FoldLeft, MapThenFoldSet, After
  <2>2. QED
    BY <1>1, <2>1
<1>3. G \in [(1 .. n) \X V -> V]
  <2>1. ASSUME NEW k \in 1 .. n, NEW u \in V PROVE Exchange(u, i, i + k) \in V
    <3>1. u \in Seq(R) /\ Len(u) = Len(s) /\ i + k \in 1 .. Len(u) /\ i \in 1 .. Len(u)
      BY DEF Like
    <3>2. QED
      BY <3>1, ExchangeKeeps DEF Like
  <2>2. QED
    BY <2>1
<1>4. \E g : g = [S \in All |-> Body(g, S)]
  <2>1. PICK g \in [SUBSET (1 .. n) -> V] :
          \A S \in SUBSET (1 .. n) :
            g[S] = IF S = {} THEN s ELSE G[<<Max(S), g[S \ {Max(S)}]>>]
    <3> HIDE DEF n, V, G
    <3>1. n \in Nat /\ s \in V
      BY <1>1
    <3>2. Folded(n, V, s, G) # {}
      BY <3>1, <1>3, FoldExists
    <3>3. PICK g \in Folded(n, V, s, G) : TRUE
      BY <3>2
    <3>4. /\ g \in [SUBSET (1 .. n) -> V]
          /\ \A S \in SUBSET (1 .. n) :
               g[S] = IF S = {} THEN s ELSE G[<<Max(S), g[S \ {Max(S)}]>>]
      BY <3>3 DEF Folded
    <3>5. QED
      BY <3>4
  <2>2. ASSUME NEW S \in SUBSET (1 .. n) PROVE g[S] = Body(g, S)
    <3>1. CASE S = {}
      BY <2>1, <3>1
    <3>2. CASE S # {}
      <4>1. Max(S) \in 1 .. n
        <5> HIDE DEF n
        <5>1. QED
          BY <1>1, <3>2, MaxIn
      <4>2. g[S \ {Max(S)}] \in V
        BY <2>1
      <4>3. g[S] = G[<<Max(S), g[S \ {Max(S)}]>>]
        BY <2>1, <3>2
      <4>4. g[S] = Exchange(g[S \ {Max(S)}], i, i + Max(S))
        BY <4>1, <4>2, <4>3
      <4>5. After(s, i)[Max(S)] = i + Max(S)
        BY <4>1 DEF After
      <4>6. QED
        BY <3>2, <4>4, <4>5
    <3>3. QED
      BY <3>1, <3>2
  <2>3. g = [S \in All |-> Body(g, S)]
    BY <1>1, <2>1, <2>2
  <2>4. QED
    BY <2>3
<1>5. iter = [S \in All |-> Body(iter, S)]
  BY <1>4
<1> DEFINE f == [k \in 0 .. n |-> iter[1 .. k]]
<1>6. ASSUME NEW S \in SUBSET (1 .. n) PROVE iter[S] = Body(iter, S)
  <2> HIDE DEF iter, Body
  <2>1. QED
    BY <1>1, <1>5
<1>7. f[0] = s
  <2>1. 1 .. 0 = {} /\ {} \in SUBSET (1 .. n)
    OBVIOUS
  <2>2. iter[{}] = s
    BY <1>6, <2>1
  <2>3. QED
    BY <1>1, <2>1, <2>2
<1>8. ASSUME NEW k \in 1 .. n PROVE f[k] = Exchange(f[k - 1], i, i + k)
  <2>1. Max(1 .. k) = k
    BY MaxOf
  <2>2. k \in 1 .. k /\ 1 .. k \in SUBSET (1 .. n) /\ (1 .. k) \ {k} = 1 .. (k - 1)
    <3>1. \A x : x \in 1 .. k => x \in 1 .. n
      BY <1>1
    <3>2. \A x : x \in (1 .. k) \ {k} <=> x \in 1 .. (k - 1)
      BY <1>1
    <3>3. QED
      BY <1>1, <3>1, <3>2
  <2>3. iter[1 .. k] = Exchange(iter[1 .. (k - 1)], i, After(s, i)[k])
    BY <1>6, <2>1, <2>2
  <2>4. QED
    BY <1>1, <2>3 DEF After
<1>9. f[n] = Settle(s, i)
  BY <1>1, <1>2
<1>10. QED
  BY <1>7, <1>8, <1>9
Prefixed(R) == \A x \in R : Len(x.prefix) \in Nat

\* What the inner loop leaves: what is before i stays, the rest are the same
\* rules, and the longest prefix of them is at i.
Settled(s, u, i) ==
  /\ \A p \in 1 .. (i - 1) : u[p] = s[p]
  /\ \A p \in i .. Len(s) : \E q \in i .. Len(s) : u[p] = s[q]
  /\ \A q \in i .. Len(s) : \E p \in i .. Len(s) : u[p] = s[q]

LEMMA SettleRules ==
  ASSUME NEW R, Prefixed(R), NEW s \in Seq(R), NEW i \in 1 .. Len(s)
  PROVE  /\ Settle(s, i) \in Like(R, s) /\ Settled(s, Settle(s, i), i)
         /\ \A q \in i .. Len(s) : Len(Settle(s, i)[q].prefix) <= Len(Settle(s, i)[i].prefix)
<1> DEFINE n == Len(s) - i
           P(u, k) == /\ u \in Like(R, s) /\ Settled(s, u, i)
                      /\ \A q \in i .. (i + k) : Len(u[q].prefix) <= Len(u[i].prefix)
<1>0. n \in Nat /\ i \in Nat /\ Len(s) \in Nat /\ i + n = Len(s) /\ i >= 1
  OBVIOUS
<1>1. PICK f : /\ f[0] = s /\ Settle(s, i) = f[n]
               /\ \A k \in 1 .. n : f[k] = Exchange(f[k - 1], i, i + k)
  <2>1. \E f : /\ f[0] = s /\ Settle(s, i) = f[Len(s) - i]
               /\ \A k \in 1 .. Len(s) - i : f[k] = Exchange(f[k - 1], i, i + k)
    BY SettleSteps
  <2>2. QED
    BY <2>1
<1> DEFINE T == {k \in 0 .. n : P(f[k], k)}
<1>2. 0 \in T
  <2>1. s \in Like(R, s) /\ Settled(s, s, i)
    BY DEF Like, Settled
  <2>2. \A q \in i .. (i + 0) : q = i
    BY <1>0
  <2>3. Len(s[i].prefix) <= Len(s[i].prefix)
    <3>1. s[i] \in R
      OBVIOUS
    <3>2. QED
      BY <3>1 DEF Prefixed
  <2>4. P(s, 0)
    BY <2>1, <2>2, <2>3
  <2>5. 0 \in 0 .. n
    BY <1>0
  <2> HIDE DEF P, n
  <2>6. QED
    BY <1>1, <2>4, <2>5
<1>3. ASSUME NEW k \in 1 .. n, k - 1 \in T PROVE k \in T
  <2> DEFINE u == f[k - 1]
             v == f[k]
             j == i + k
  <2>1. P(u, k - 1)
    BY <1>3
  <2>2. v = Exchange(u, i, j)
    BY <1>1
  <2> HIDE DEF u, v
  <2>3. /\ u \in Seq(R) /\ Len(u) = Len(s) /\ i \in 1 .. Len(u) /\ j \in 1 .. Len(u) /\ i # j
        /\ j \in i .. Len(s) /\ i \in i .. Len(s) /\ i + (k - 1) = j - 1 /\ j > i
    BY <1>0, <2>1 DEF Like
  <2>4. v \in Like(R, u)
    BY <2>2, <2>3, ExchangeKeeps
  <2>5. v \in Like(R, s)
    BY <2>3, <2>4 DEF Like
  <2>6. \A p \in 1 .. Len(s) : p # i /\ p # j => v[p] = u[p]
    BY <2>2, <2>3, ExchangeKeeps
  <2>7. \/ v = u /\ ~(Len(u[j].prefix) > Len(u[i].prefix))
        \/ v[i] = u[j] /\ v[j] = u[i] /\ Len(u[j].prefix) > Len(u[i].prefix)
    BY <2>2, <2>3, ExchangeKeeps
  <2>8. \A p \in 1 .. Len(s) : u[p] \in R /\ v[p] \in R
    BY <2>3, <2>5 DEF Like
  <2>9. \A p \in 1 .. Len(s) : Len(u[p].prefix) \in Nat /\ Len(v[p].prefix) \in Nat
    BY <2>8 DEF Prefixed
  <2>10. \A q \in i .. j : Len(v[q].prefix) <= Len(v[i].prefix)
    <3>1. \A q \in i .. j : q \in 1 .. Len(s) /\ (q # j => q \in i .. (i + (k - 1)))
      BY <2>3
    <3>2. \A q \in i .. (i + (k - 1)) : Len(u[q].prefix) <= Len(u[i].prefix)
      BY <2>1
    <3> HIDE DEF j
    <3>3. QED
      BY <2>3, <2>6, <2>7, <2>9, <3>1, <3>2
  <2>11. Settled(s, v, i)
    <3>1. Settled(s, u, i)
      BY <2>1
    <3> HIDE DEF j, P, n
    <3>2. \A p \in 1 .. (i - 1) : v[p] = s[p]
      <4>1. \A p \in 1 .. (i - 1) : p \in 1 .. Len(s) /\ p # i /\ p # j
        BY <1>0, <2>3
      <4>2. QED
        BY <2>6, <3>1, <4>1 DEF Settled
    <3>3. \A p \in i .. Len(s) : p \in 1 .. Len(s)
      BY <1>0
    <3>4. \A p \in i .. Len(s) : \E p1 \in i .. Len(s) : v[p] = u[p1]
      BY <2>3, <2>6, <2>7, <3>3
    <3>5. \A p \in i .. Len(s) : \E p1 \in i .. Len(s) : u[p] = v[p1]
      BY <2>3, <2>6, <2>7, <3>3
    <3>6. /\ \A p \in i .. Len(s) : \E q \in i .. Len(s) : u[p] = s[q]
          /\ \A q \in i .. Len(s) : \E p \in i .. Len(s) : u[p] = s[q]
      BY <3>1 DEF Settled
    <3>7. \A p \in i .. Len(s) : \E q \in i .. Len(s) : v[p] = s[q]
      <4> TAKE p \in i .. Len(s)
      <4>1. PICK p1 \in i .. Len(s) : v[p] = u[p1]
        BY <3>4
      <4>2. PICK q \in i .. Len(s) : u[p1] = s[q]
        BY <3>6
      <4>3. QED
        BY <4>1, <4>2
    <3>8. \A q \in i .. Len(s) : \E p \in i .. Len(s) : v[p] = s[q]
      <4> TAKE q \in i .. Len(s)
      <4>1. PICK p1 \in i .. Len(s) : u[p1] = s[q]
        BY <3>6
      <4>2. PICK p \in i .. Len(s) : u[p1] = v[p]
        BY <3>5
      <4>3. QED
        BY <4>1, <4>2
    <3>9. QED
      BY <3>2, <3>7, <3>8 DEF Settled
  <2>12. P(v, k)
    BY <2>5, <2>10, <2>11
  <2> HIDE DEF P
  <2>13. k \in 0 .. n
    BY <1>0
  <2>14. QED
    BY <2>12, <2>13 DEF v
<1>4. n \in T
  <2> HIDE DEF T
  <2>1. \A k \in 0 .. n : k \in T
    <3> HIDE DEF n
    <3>1. QED
      BY <1>0, <1>2, <1>3, Upwards
  <2>2. QED
    BY <1>0, <2>1
<1>5. P(f[n], n)
  <2> HIDE DEF P, n
  <2>1. QED
    BY <1>4
<1>6. QED
  BY <1>0, <1>1, <1>5
\* The positions the outer loop goes through.
Positions(rules) == [i \in DOMAIN rules |-> i]

LEMMA SortSteps ==
  ASSUME NEW R, Prefixed(R), NEW rules \in Seq(R)
  PROVE  \E f : /\ f[0] = rules /\ SortRules(rules) = f[Len(rules)]
                /\ \A k \in 1 .. Len(rules) : f[k] = Settle(f[k - 1], k)
<1> DEFINE n == Len(rules)
           V == Like(R, rules)
           G == [p \in (1 .. n) \X V |-> Settle(p[2], p[1])]
           Body(g, S) == IF S = {} THEN rules
                         ELSE Settle(g[S \ {Max(S)}], Positions(rules)[Max(S)])
           All == SUBSET (DOMAIN Positions(rules))
           iter == CHOOSE g : g = [S \in All |-> Body(g, S)]
<1>1. /\ n \in Nat /\ DOMAIN Positions(rules) = 1 .. n /\ rules \in V
      /\ \A k \in 1 .. n : Positions(rules)[k] = k
  BY DEF Positions, Like
<1>2. SortRules(rules) = iter[1 .. n]
  <2>1. SortRules(rules) = iter[DOMAIN Positions(rules)]
    BY Zenon DEF SortRules, FoldLeftDomain, FoldLeft, MapThenFoldSet, Positions
  <2>2. QED
    BY <1>1, <2>1
<1>3. G \in [(1 .. n) \X V -> V]
  <2>1. ASSUME NEW k \in 1 .. n, NEW u \in V PROVE Settle(u, k) \in V
    <3>1. u \in Seq(R) /\ Len(u) = Len(rules) /\ k \in 1 .. Len(u)
      BY DEF Like
    <3>2. QED
      BY <3>1, SettleRules DEF Like
  <2>2. QED
    BY <2>1
<1>4. \E g : g = [S \in All |-> Body(g, S)]
  <2>1. PICK g \in [SUBSET (1 .. n) -> V] :
          \A S \in SUBSET (1 .. n) :
            g[S] = IF S = {} THEN rules ELSE G[<<Max(S), g[S \ {Max(S)}]>>]
    <3> HIDE DEF n, V, G
    <3>1. n \in Nat /\ rules \in V
      BY <1>1
    <3>2. Folded(n, V, rules, G) # {}
      BY <3>1, <1>3, FoldExists
    <3>3. PICK g \in Folded(n, V, rules, G) : TRUE
      BY <3>2
    <3>4. QED
      BY <3>3 DEF Folded
  <2>2. ASSUME NEW S \in SUBSET (1 .. n) PROVE g[S] = Body(g, S)
    <3>1. CASE S = {}
      BY <2>1, <3>1
    <3>2. CASE S # {}
      <4>1. Max(S) \in 1 .. n
        <5> HIDE DEF n
        <5>1. QED
          BY <1>1, <3>2, MaxIn
      <4>2. g[S \ {Max(S)}] \in V
        BY <2>1
      <4>3. g[S] = G[<<Max(S), g[S \ {Max(S)}]>>]
        BY <2>1, <3>2
      <4>4. g[S] = Settle(g[S \ {Max(S)}], Max(S))
        BY <4>1, <4>2, <4>3
      <4>5. QED
        BY <1>1, <3>2, <4>1, <4>4
    <3>3. QED
      BY <3>1, <3>2
  <2>3. g = [S \in All |-> Body(g, S)]
    BY <1>1, <2>1, <2>2
  <2>4. QED
    BY <2>3
<1>5. iter = [S \in All |-> Body(iter, S)]
  BY <1>4
<1>6. ASSUME NEW S \in SUBSET (1 .. n) PROVE iter[S] = Body(iter, S)
  <2> HIDE DEF iter, Body
  <2>1. QED
    BY <1>1, <1>5
<1> DEFINE f == [k \in 0 .. n |-> iter[1 .. k]]
<1>7. f[0] = rules
  <2>1. 1 .. 0 = {} /\ {} \in SUBSET (1 .. n)
    OBVIOUS
  <2>2. iter[{}] = rules
    BY <1>6, <2>1
  <2>3. QED
    BY <1>1, <2>1, <2>2
<1>8. ASSUME NEW k \in 1 .. n PROVE f[k] = Settle(f[k - 1], k)
  <2>1. Max(1 .. k) = k
    BY MaxOf
  <2>2. k \in 1 .. k /\ 1 .. k \in SUBSET (1 .. n) /\ (1 .. k) \ {k} = 1 .. (k - 1)
    <3>1. \A x : x \in 1 .. k => x \in 1 .. n
      BY <1>1
    <3>2. \A x : x \in (1 .. k) \ {k} <=> x \in 1 .. (k - 1)
      BY <1>1
    <3>3. QED
      BY <1>1, <3>1, <3>2
  <2>3. iter[1 .. k] = Settle(iter[1 .. (k - 1)], Positions(rules)[k])
    BY <1>6, <2>1, <2>2
  <2>4. QED
    BY <1>1, <2>3
<1>9. f[n] = SortRules(rules)
  BY <1>1, <1>2
<1>10. QED
  BY <1>7, <1>8, <1>9

(***************************************************************************)
(* The nested loops of apply sort the rules by falling length of their     *)
(* prefixes, for any number of rules, and neither lose nor make one.       *)
(***************************************************************************)
THEOREM RulesSorted ==
  ASSUME NEW R, Prefixed(R), NEW rules \in Seq(R)
  PROVE  /\ SortRules(rules) \in Like(R, rules)
         /\ Range(SortRules(rules)) = Range(rules)
         /\ \A p, q \in 1 .. Len(rules) :
              p < q => Len(SortRules(rules)[q].prefix) <= Len(SortRules(rules)[p].prefix)
<1> DEFINE n == Len(rules)
           P(u, k) == /\ u \in Like(R, rules) /\ Range(u) = Range(rules)
                      /\ \A p \in 1 .. k : \A q \in p .. n : Len(u[q].prefix) <= Len(u[p].prefix)
<1>0. n \in Nat
  OBVIOUS
<1>1. PICK f : /\ f[0] = rules /\ SortRules(rules) = f[n]
               /\ \A k \in 1 .. n : f[k] = Settle(f[k - 1], k)
  BY SortSteps
<1> DEFINE T == {k \in 0 .. n : P(f[k], k)}
<1>2. 0 \in T
  <2>1. P(rules, 0)
    BY DEF Like
  <2>2. 0 \in 0 .. n
    BY <1>0
  <2> HIDE DEF P, n
  <2>3. QED
    BY <1>1, <2>1, <2>2
<1>3. ASSUME NEW k \in 1 .. n, k - 1 \in T PROVE k \in T
  <2> DEFINE u == f[k - 1]
             v == f[k]
  <2>1. P(u, k - 1)
    BY <1>3
  <2>2. v = Settle(u, k)
    BY <1>1
  <2> HIDE DEF u, v
  <2>3. u \in Seq(R) /\ Len(u) = n /\ k \in 1 .. Len(u)
    BY <1>0, <2>1 DEF Like
  <2>4. /\ v \in Like(R, u) /\ Settled(u, v, k)
        /\ \A q \in k .. n : Len(v[q].prefix) <= Len(v[k].prefix)
    BY <2>2, <2>3, SettleRules
  <2>5. v \in Like(R, rules) /\ DOMAIN u = 1 .. n /\ DOMAIN v = 1 .. n
    BY <2>3, <2>4 DEF Like
  <2>6. /\ \A p \in 1 .. (k - 1) : v[p] = u[p]
        /\ \A p \in k .. n : \E q \in k .. n : v[p] = u[q]
        /\ \A q \in k .. n : \E p \in k .. n : v[p] = u[q]
    BY <2>3, <2>4 DEF Settled
  <2> HIDE DEF n
  <2>7. Range(v) = Range(u)
    <3>1. \A p \in 1 .. n : p \in 1 .. (k - 1) \/ p \in k .. n
      BY <1>0
    <3>2. /\ \A p \in 1 .. (k - 1) : p \in 1 .. n
          /\ \A p \in k .. n : p \in 1 .. n
      BY <1>0
    <3>3. \A p \in 1 .. n : \E q \in 1 .. n : v[p] = u[q]
      BY <2>6, <3>1, <3>2
    <3>4. \A q \in 1 .. n : \E p \in 1 .. n : v[p] = u[q]
      BY <2>6, <3>1, <3>2
    <3>5. Range(v) = {v[p] : p \in 1 .. n} /\ Range(u) = {u[q] : q \in 1 .. n}
      BY <2>5 DEF Range
    <3>6. \A x \in {v[p] : p \in 1 .. n} : x \in {u[q] : q \in 1 .. n}
      BY <3>3
    <3>7. \A x \in {u[q] : q \in 1 .. n} : x \in {v[p] : p \in 1 .. n}
      BY <3>4
    <3>8. QED
      BY <3>5, <3>6, <3>7
  <2>8. \A p \in 1 .. k : \A q \in p .. n : Len(v[q].prefix) <= Len(v[p].prefix)
    <3> TAKE p \in 1 .. k
    <3>1. CASE p = k
      BY <2>4, <3>1 DEF n
    <3>2. CASE p < k
      <4> TAKE q \in p .. n
      <4>1. p \in 1 .. (k - 1) /\ p \in 1 .. n
        BY <1>0, <3>2
      <4>2. v[p] = u[p]
        BY <2>6, <4>1
      <4>3. \E q1 \in p .. n : v[q] = u[q1]
        <5>1. CASE q < k
          <6>1. q \in 1 .. (k - 1)
            BY <1>0, <5>1
          <6>2. QED
            BY <2>6, <6>1
        <5>2. CASE q >= k
          <6>1. q \in k .. n
            BY <1>0, <5>2
          <6>2. PICK q1 \in k .. n : v[q] = u[q1]
            BY <2>6, <6>1
          <6>3. q1 \in p .. n
            BY <1>0, <3>2
          <6>4. QED
            BY <6>2, <6>3
        <5>3. QED
          BY <1>0, <5>1, <5>2
      <4>4. \A q1 \in p .. n : Len(u[q1].prefix) <= Len(u[p].prefix)
        BY <2>1, <4>1
      <4>5. QED
        BY <4>2, <4>3, <4>4
    <3>3. QED
      BY <1>0, <3>1, <3>2
  <2>9. P(v, k)
    BY <2>1, <2>5, <2>7, <2>8
  <2>10. k \in 0 .. n
    BY <1>0
  <2> HIDE DEF P
  <2>11. QED
    BY <2>9, <2>10 DEF v
<1>4. n \in T
  <2> HIDE DEF T
  <2>1. \A k \in 0 .. n : k \in T
    <3> HIDE DEF n
    <3>1. QED
      BY <1>0, <1>2, <1>3, Upwards
  <2>2. QED
    BY <1>0, <2>1
<1>5. P(f[n], n)
  <2> HIDE DEF P, n
  <2>1. QED
    BY <1>4
<1>6. /\ SortRules(rules) \in Like(R, rules) /\ Range(SortRules(rules)) = Range(rules)
      /\ \A p \in 1 .. n : \A q \in p .. n :
           Len(SortRules(rules)[q].prefix) <= Len(SortRules(rules)[p].prefix)
  BY <1>1, <1>5
<1>7. \A p, q \in 1 .. n : p < q => q \in p .. n
  BY <1>0
<1>8. QED
  BY <1>6, <1>7
-----------------------------------------------------------------------------
(***************************************************************************)
(* Matching.                                                               *)
(***************************************************************************)

\* A rule that matches is the first in the list that does.
LEMMA FirstMatch ==
  ASSUME NEW c, NEW n \in Nat, DOMAIN c.rules = 1 .. n, NEW m
  PROVE  /\ MatchRules(c, m) \in 0 .. n
         /\ MatchRules(c, m) = 0 => \A p \in 1 .. n : ~HasPrefix(m, c.rules[p].prefix)
         /\ MatchRules(c, m) # 0 => HasPrefix(m, c.rules[MatchRules(c, m)].prefix)
         /\ \A p \in 1 .. n : HasPrefix(m, c.rules[p].prefix) => MatchRules(c, m) <= p
<1> DEFINE hits == {i \in DOMAIN c.rules : HasPrefix(m, c.rules[i].prefix)}
<1>1. MatchRules(c, m) = IF hits = {} THEN 0 ELSE Min(hits)
  BY DEF MatchRules
<1>2. hits \in SUBSET Nat /\ hits \subseteq 1 .. n
      /\ \A p \in 1 .. n : p \in hits <=> HasPrefix(m, c.rules[p].prefix)
  OBVIOUS
<1>3. CASE hits = {}
  <2> HIDE DEF hits
  <2>1. QED
    BY <1>1, <1>2, <1>3
<1>4. CASE hits # {}
  <2> HIDE DEF hits
  <2>1. \E x \in hits : \A y \in hits : x <= y
    BY <1>2, <1>4, Least
  <2>2. Min(hits) \in hits /\ \A y \in hits : Min(hits) <= y
    BY <2>1 DEF Min
  <2>3. MatchRules(c, m) = Min(hits) /\ Min(hits) \in 1 .. n
    BY <1>1, <1>2, <1>4, <2>2
  <2>4. QED
    BY <1>2, <2>2, <2>3
<1>5. QED
  BY <1>3, <1>4

(***************************************************************************)
(* Of the rules as apply leaves them, the first that matches a model has   *)
(* the longest prefix of all that do: whatever is configured.              *)
(***************************************************************************)
THEOREM FirstIsLongest ==
  ASSUME NEW c, NEW R, Prefixed(R), NEW rules \in Seq(R), c.rules = SortRules(rules),
         NEW m, NEW rule \in Range(c.rules), HasPrefix(m, rule.prefix)
  PROVE  LET i == MatchRules(c, m) IN i > 0 /\ Len(rule.prefix) <= Len(c.rules[i].prefix)
<1> DEFINE n == Len(rules)
           i == MatchRules(c, m)
<1>1. n \in Nat /\ c.rules \in Seq(R) /\ DOMAIN c.rules = 1 .. n
  BY RulesSorted DEF Like
<1>2. PICK p \in 1 .. n : rule = c.rules[p]
  BY <1>1 DEF Range
<1>3. i \in 0 .. n /\ i # 0 /\ i <= p
  BY <1>1, <1>2, FirstMatch
<1>4. CASE i = p
  <2>1. rule \in R
    BY <1>1, <1>2
  <2>2. QED
    BY <1>2, <1>3, <1>4, <2>1 DEF Prefixed
<1>5. CASE i < p
  <2>1. i \in 1 .. n
    BY <1>3
  <2>2. Len(SortRules(rules)[p].prefix) <= Len(SortRules(rules)[i].prefix)
    BY <1>5, <2>1, RulesSorted
  <2>3. QED
    BY <1>2, <1>3, <2>2
<1>6. QED
  BY <1>3, <1>4, <1>5

-----------------------------------------------------------------------------
(***************************************************************************)
(* Targets.                                                                *)
(***************************************************************************)

\* What is left of the targets are targets.
LEMMA LiveTargets ==
  ASSUME NEW c, NEW load, NEW R, NEW tg \in Seq(R)
  PROVE  Live(c, tg, load) \in Seq(R)
<1> DEFINE n == Len(tg)
           V == Seq(R)
           One(u, t) == IF t.name \in load.open \cap Names(c) THEN u ELSE Append(u, t)
           G == [p \in (1 .. n) \X V |-> One(p[2], tg[p[1]])]
           Body(g, S) == IF S = {} THEN <<>> ELSE One(g[S \ {Max(S)}], tg[Max(S)])
           All == SUBSET (DOMAIN tg)
           iter == CHOOSE g : g = [S \in All |-> Body(g, S)]
<1>1. /\ n \in Nat /\ DOMAIN tg = 1 .. n /\ <<>> \in V
      /\ \A k \in 1 .. n : tg[k] \in R
  OBVIOUS
<1>2. Live(c, tg, load) = iter[1 .. n]
  <2>1. Live(c, tg, load) = iter[DOMAIN tg]
    BY Zenon DEF Live, FoldLeft, MapThenFoldSet
  <2>2. QED
    BY <1>1, <2>1
<1>3. \A u \in V, k \in 1 .. n : One(u, tg[k]) \in V
  BY <1>1
<1>4. G \in [(1 .. n) \X V -> V]
  <2> HIDE DEF One, n, V
  <2>1. QED
    BY <1>3
<1>5. \E g : g = [S \in All |-> Body(g, S)]
  <2>1. PICK g \in [SUBSET (1 .. n) -> V] :
          \A S \in SUBSET (1 .. n) :
            g[S] = IF S = {} THEN <<>> ELSE G[<<Max(S), g[S \ {Max(S)}]>>]
    <3> HIDE DEF n, V, G
    <3>1. n \in Nat /\ <<>> \in V
      BY <1>1
    <3>2. Folded(n, V, <<>>, G) # {}
      BY <3>1, <1>4, FoldExists
    <3>3. PICK g \in Folded(n, V, <<>>, G) : TRUE
      BY <3>2
    <3>4. QED
      BY <3>3 DEF Folded
  <2>2. ASSUME NEW S \in SUBSET (1 .. n) PROVE g[S] = Body(g, S)
    <3>1. CASE S = {}
      BY <2>1, <3>1
    <3>2. CASE S # {}
      <4>1. Max(S) \in 1 .. n
        <5> HIDE DEF n
        <5>1. QED
          BY <1>1, <3>2, MaxIn
      <4>2. g[S \ {Max(S)}] \in V
        BY <2>1
      <4>3. g[S] = G[<<Max(S), g[S \ {Max(S)}]>>]
        BY <2>1, <3>2
      <4>4. g[S] = One(g[S \ {Max(S)}], tg[Max(S)])
        BY <4>1, <4>2, <4>3
      <4>5. QED
        BY <3>2, <4>4
    <3>3. QED
      BY <3>1, <3>2
  <2>3. g = [S \in All |-> Body(g, S)]
    BY <1>1, <2>1, <2>2
  <2>4. QED
    BY <2>3
<1>6. iter = [S \in All |-> Body(iter, S)]
  BY <1>5
<1>7. ASSUME NEW S \in SUBSET (1 .. n) PROVE iter[S] = Body(iter, S)
  <2> HIDE DEF iter, Body
  <2>1. QED
    BY <1>1, <1>6
<1> DEFINE T == {k \in 0 .. n : iter[1 .. k] \in V}
<1>8. 0 \in T
  <2>1. 1 .. 0 = {} /\ {} \in SUBSET (1 .. n) /\ 0 \in 0 .. n
    BY <1>1
  <2>2. iter[{}] = <<>>
    BY <1>7, <2>1
  <2>3. QED
    BY <1>1, <2>1, <2>2
<1>9. ASSUME NEW k \in 1 .. n, k - 1 \in T PROVE k \in T
  <2>1. Max(1 .. k) = k
    BY MaxOf
  <2>2. k \in 1 .. k /\ 1 .. k \in SUBSET (1 .. n) /\ (1 .. k) \ {k} = 1 .. (k - 1)
    <3>1. \A x : x \in 1 .. k => x \in 1 .. n
      BY <1>1
    <3>2. \A x : x \in (1 .. k) \ {k} <=> x \in 1 .. (k - 1)
      BY <1>1
    <3>3. QED
      BY <1>1, <3>1, <3>2
  <2>3. iter[1 .. k] = One(iter[1 .. (k - 1)], tg[k])
    <3>1. iter[1 .. k] = Body(iter, 1 .. k)
      BY <1>7, <2>2
    <3>2. 1 .. k # {}
      BY <2>2
    <3> HIDE DEF iter, One
    <3>3. QED
      BY <2>1, <2>2, <3>1, <3>2
  <2>4. iter[1 .. (k - 1)] \in V
    BY <1>9
  <2>5. iter[1 .. k] \in V
    <3> HIDE DEF One, V, iter, n
    <3>1. QED
      BY <1>3, <2>3, <2>4
  <2>6. k \in 0 .. n
    BY <1>1
  <2>7. QED
    BY <2>5, <2>6
<1>10. n \in T
  <2> HIDE DEF T
  <2>1. \A k \in 0 .. n : k \in T
    <3> HIDE DEF n
    <3>1. QED
      BY <1>1, <1>8, <1>9, Upwards
  <2>2. QED
    BY <1>1, <2>1
<1>11. QED
  BY <1>2, <1>10
LEMMA OrderedTargets ==
  ASSUME NEW c, NEW strategy, NEW load, NEW R, NEW tg \in Seq(R),
         NEW u \in OrderByStrategy(c, tg, strategy, load)
  PROVE  u \in Seq(R)
<1>1. \A f : SortedBy(c, tg, f) \subseteq Orders(tg)
  BY DEF SortedBy
<1>2. PICK o \in Orders(tg) : u = [i \in DOMAIN tg |-> tg[o[i]]]
  <2>1. CASE strategy = "least_busy"
    BY <1>1, <2>1 DEF OrderByStrategy
  <2>2. CASE strategy = "latency"
    BY <1>1, <2>2 DEF OrderByStrategy
  <2>3. CASE strategy # "least_busy" /\ strategy # "latency"
    BY <2>3 DEF OrderByStrategy
  <2>4. QED
    BY <2>1, <2>2, <2>3
<1>3. DOMAIN tg = 1 .. Len(tg) /\ \A i \in DOMAIN tg : o[i] \in DOMAIN tg
  BY DEF Orders
<1>4. QED
  BY <1>2, <1>3

LEMMA StickyTargets ==
  ASSUME NEW R, NEW tg \in Seq(R), Len(tg) > 1, NEW session, Hash[session] \in Nat
  PROVE  StickyRotate(tg, session) \in Seq(R)
<1> DEFINE off == Hash[session] % Len(tg)
<1>1. off \in 0 .. (Len(tg) - 1)
  OBVIOUS
<1> HIDE DEF off
<1>2. /\ off \in Int /\ off + 1 \in Int /\ Len(tg) \in Int
      /\ \A p \in off + 1 .. Len(tg) : p \in 1 .. Len(tg)
      /\ \A p \in 1 .. off : p \in 1 .. Len(tg)
  BY <1>1
<1>3. \A p \in 1 .. Len(tg) : tg[p] \in R
  OBVIOUS
<1>4. SubSeq(tg, off + 1, Len(tg)) \in Seq(R)
  BY <1>2, <1>3, SubSeqProperties
<1>5. SubSeq(tg, 1, off) \in Seq(R)
  BY <1>2, <1>3, SubSeqProperties
<1>6. QED
  BY <1>4, <1>5 DEF StickyRotate, off

LEMMA PickedTargets ==
  ASSUME NEW c, NEW load, NEW R, NEW tg \in Seq(R),
         NEW inf, Hashed(inf)
  PROVE  Pick(c, tg, inf, load) \in Seq(R)
<1> DEFINE sticky == IF c.affinity /\ inf.session # "" /\ Len(tg) > 1
                     THEN StickyRotate(tg, inf.session) ELSE tg
<1>1. sticky \in Seq(R)
  BY Zenon, StickyTargets DEF Hashed
<1>2. Live(c, sticky, load) \in Seq(R)
  <2> HIDE DEF sticky
  <2>1. QED
    BY <1>1, LiveTargets
<1>3. QED
  BY Zenon, <1>1, <1>2 DEF Pick

LEMMA ChainOf ==
  ASSUME NEW chain, IsSeq(chain), NEW m
  PROVE  /\ IsSeq(ChainTargets(chain, m))
         /\ \A t \in Range(ChainTargets(chain, m)) : t.name \in Range(chain)
<1>1. DOMAIN chain = 1 .. Len(chain) /\ Len(chain) \in Nat
  BY DEF IsSeq
<1>2. ChainTargets(chain, m) = [i \in 1 .. Len(chain) |-> [name |-> chain[i], model |-> m]]
  BY <1>1 DEF ChainTargets, Target
<1>3. \A i \in 1 .. Len(chain) : ChainTargets(chain, m)[i] \in Range(ChainTargets(chain, m))
  BY <1>2 DEF Range
<1>4. IsSeq(ChainTargets(chain, m))
  BY <1>1, <1>2, <1>3 DEF IsSeq
<1>5. \A t \in Range(ChainTargets(chain, m)) : \E i \in 1 .. Len(chain) : t.name = chain[i]
  BY <1>2 DEF Range
<1>6. QED
  BY <1>1, <1>4, <1>5 DEF Range

\* A target of a configuration: one of its providers, or one that validate does
\* not check.
Known(c, t) ==
  \/ t.name \in Names(c)
  \/ \E rule \in Range(c.rules) : t \in Range(rule.targets)
  \/ t.name \in Range(c.long.chain \o c.image \o c.thinking)

LEMMA ScenarioTargets ==
  ASSUME NEW c, Shaped(c), NEW name
  PROVE  name \in Range(c.long.chain) \cup Range(c.image) \cup Range(c.thinking)
           => name \in Range(c.long.chain \o c.image \o c.thinking)
<1> DEFINE R == Range(c.long.chain) \cup Range(c.image) \cup Range(c.thinking)
<1>1. /\ c.long.chain \in Seq(R) /\ c.image \in Seq(R) /\ c.thinking \in Seq(R)
      /\ IsSeq(c.long.chain) /\ IsSeq(c.image) /\ IsSeq(c.thinking)
  BY DEF Shaped, IsSeq
<1>2. ASSUME NEW s \in Seq(R), NEW u \in Seq(R)
      PROVE  s \o u \in Seq(R) /\ Range(s) \cup Range(u) \subseteq Range(s \o u)
  <2>1. /\ DOMAIN s = 1 .. Len(s) /\ DOMAIN u = 1 .. Len(u) /\ Len(s) \in Nat /\ Len(u) \in Nat
        /\ s \o u \in Seq(R) /\ DOMAIN (s \o u) = 1 .. (Len(s) + Len(u))
    OBVIOUS
  <2>2. \A k \in 1 .. Len(s) : k \in DOMAIN (s \o u) /\ (s \o u)[k] = s[k]
    BY <2>1
  <2>3. \A k \in 1 .. Len(u) : Len(s) + k \in DOMAIN (s \o u) /\ (s \o u)[Len(s) + k] = u[k]
    BY <2>1
  <2>4. Range(s) \subseteq Range(s \o u)
    BY <2>1, <2>2 DEF Range
  <2>5. Range(u) \subseteq Range(s \o u)
    BY <2>1, <2>3 DEF Range
  <2>6. QED
    BY <2>1, <2>4, <2>5
<1>3. QED
  <2> HIDE DEF R
  <2>1. /\ c.long.chain \o c.image \in Seq(R)
        /\ Range(c.long.chain) \cup Range(c.image) \subseteq Range(c.long.chain \o c.image)
    BY <1>1, <1>2
  <2>2. Range(c.long.chain \o c.image) \cup Range(c.thinking)
          \subseteq Range(c.long.chain \o c.image \o c.thinking)
    BY <1>1, <1>2, <2>1
  <2>3. QED
    BY <2>1, <2>2

\* What the registry makes of a configuration keeps all but the order of its
\* rules, and the default chain if there is none.
LEMMA Loading ==
  ASSUME NEW c, Shaped(c)
  PROVE  LET d == WithDefaults(c)  a == Apply(d) IN
         /\ d.rules = c.rules /\ d.providers = c.providers /\ IsSeq(d.defChain)
         /\ a.rules = SortRules(c.rules) /\ a.defChain = d.defChain
         /\ a.long = c.long /\ a.image = c.image /\ a.thinking = c.thinking
         /\ Prefixed(Range(c.rules)) /\ c.rules \in Seq(Range(c.rules))
<1> DEFINE d == WithDefaults(c)
           a == Apply(d)
           fields == {"providers", "rules", "defChain", "alias", "affinity", "long", "image",
                      "thinking"}
<1>1. fields \subseteq DOMAIN c /\ IsSeq(c.rules) /\ IsSeq(c.defChain) /\ IsSeq(c.providers)
  BY DEF Shaped
<1>2. /\ DOMAIN d = DOMAIN c /\ d.rules = c.rules /\ d.providers = c.providers
      /\ d.long = c.long /\ d.image = c.image /\ d.thinking = c.thinking /\ IsSeq(d.defChain)
  <2>1. CASE c.defChain = <<>> /\ c.providers # <<>>
    <3>1. d = [c EXCEPT !.defChain = <<c.providers[1].name>>]
      BY <2>1 DEF WithDefaults
    <3>2. /\ DOMAIN d = DOMAIN c /\ d.rules = c.rules /\ d.providers = c.providers
          /\ d.long = c.long /\ d.image = c.image /\ d.thinking = c.thinking
          /\ d.defChain = <<c.providers[1].name>>
      BY <1>1, <3>1
    <3>3. IsSeq(<<c.providers[1].name>>)
      BY DEF IsSeq, Range
    <3>4. QED
      BY <3>2, <3>3
  <2>2. CASE ~(c.defChain = <<>> /\ c.providers # <<>>)
    <3>1. d = c
      BY <2>2 DEF WithDefaults
    <3>2. QED
      BY <1>1, <3>1
  <2>3. QED
    BY <2>1, <2>2
<1>3. /\ a.rules = SortRules(c.rules) /\ a.defChain = d.defChain
      /\ a.long = c.long /\ a.image = c.image /\ a.thinking = c.thinking
  <2> HIDE DEF d
  <2>1. QED
    BY <1>1, <1>2 DEF Apply
<1>4. c.rules \in Seq(Range(c.rules)) /\ Prefixed(Range(c.rules))
  <2>1. \A rule \in Range(c.rules) : IsSeq(rule.prefix)
    BY DEF Shaped
  <2>2. QED
    BY <1>1, <2>1 DEF IsSeq, Prefixed
<1>5. QED
  BY <1>2, <1>3, <1>4
LEMMA RuleTargetsKnown ==
  ASSUME NEW c, Shaped(c), Validate(WithDefaults(c)), NEW rule \in Range(c.rules), NEW d,
         NEW m, NEW load, NEW tg \in RuleTargets(d, rule, m, load)
  PROVE  tg \in Seq({t \in Range(tg) : Known(c, t)})
<1> DEFINE list == IF rule.targets # <<>> THEN rule.targets
                   ELSE ChainTargets(rule.chain, MapModel(rule, m))
           K == {t \in Range(list) : Known(c, t)}
<1>1. IsSeq(rule.chain) /\ IsSeq(rule.targets) /\ Range(rule.chain) \subseteq Names(c)
  <2>1. Range(rule.chain) \subseteq Names(WithDefaults(c))
    <3>1. \A r \in Range(WithDefaults(c).rules) : Range(r.chain) \subseteq Names(WithDefaults(c))
      BY Zenon DEF Validate
    <3>2. QED
      BY <3>1, Loading
  <2>2. Names(WithDefaults(c)) = Names(c)
    BY Loading DEF Names
  <2>3. QED
    BY <2>1, <2>2 DEF Shaped
<1>2. list \in Seq(K)
  <2>1. CASE rule.targets # <<>>
    <3>1. \A t \in Range(rule.targets) : Known(c, t)
      BY DEF Known
    <3>2. list = rule.targets
      BY <2>1
    <3>3. K = Range(rule.targets)
      <4> HIDE DEF list
      <4>1. QED
        BY <3>1, <3>2
    <3>4. QED
      <4> HIDE DEF list, K
      <4>1. QED
        BY <1>1, <3>2, <3>3 DEF IsSeq
  <2>2. CASE rule.targets = <<>>
    <3>1. list = ChainTargets(rule.chain, MapModel(rule, m))
      BY <2>2
    <3>2. IsSeq(list) /\ \A t \in Range(list) : t.name \in Range(rule.chain)
      <4> HIDE DEF list
      <4>1. QED
        BY <1>1, <3>1, ChainOf
    <3>3. K = Range(list)
      <4> HIDE DEF list
      <4>1. QED
        BY <1>1, <3>2 DEF Known
    <3>4. QED
      <4> HIDE DEF list, K
      <4>1. QED
        BY <3>2, <3>3 DEF IsSeq
  <2>3. QED
    BY <2>1, <2>2
<1>3. tg \in OrderByStrategy(d, list, rule.strategy, load) \/ tg = list
  BY Zenon DEF RuleTargets
<1>4. tg \in Seq(K)
  <2> HIDE DEF list, K
  <2>1. QED
    BY <1>2, <1>3, OrderedTargets
<1>5. \A k \in 1 .. Len(tg) : tg[k] \in Range(tg) /\ Known(c, tg[k])
  <2>1. \A k \in 1 .. Len(tg) : k \in DOMAIN tg /\ tg[k] \in K
    <3> HIDE DEF K
    <3>1. QED
      BY <1>4
  <2>2. QED
    BY <2>1 DEF Range
<1>6. QED
  <2>1. tg = [k \in 1 .. Len(tg) |-> tg[k]] /\ Len(tg) \in Nat
    <3> HIDE DEF K
    <3>1. QED
      BY <1>4
  <2>2. QED
    BY <1>5, <2>1

(***************************************************************************)
(* What validate checks is enough for what Resolve makes of it: for every  *)
(* configuration that loads, every model, request and state of the         *)
(* providers, a target is a provider there is, or one of those validate    *)
(* leaves unchecked -- a rule's targets and the scenarios' chains.         *)
(***************************************************************************)
THEOREM ResolvedKnown ==
  ASSUME NEW c, Shaped(c), Validate(WithDefaults(c)), NEW m, NEW load,
         NEW inf, Hashed(inf),
         NEW tg \in Resolve(Apply(WithDefaults(c)), m, inf, load)
  PROVE  \A t \in Range(tg) : Known(c, t)
<1> DEFINE d == WithDefaults(c)
           a == Apply(d)
           scenario == MatchScenario(a, inf)
           rule == RuleFor(a, m)
<1>1. PICK list : /\ tg = Pick(a, list, inf, load)
                  /\ \/ scenario # <<>> /\ list = ChainTargets(scenario, m)
                     \/ rule[1] > 0 /\ list \in RuleTargets(a, a.rules[rule[1]], rule[2], load)
                     \/ list = ChainTargets(a.defChain, m)
  BY Zenon DEF Resolve
<1>2. /\ a.rules = SortRules(c.rules) /\ a.defChain = d.defChain /\ IsSeq(d.defChain)
      /\ a.long = c.long /\ a.image = c.image /\ a.thinking = c.thinking
      /\ Names(d) = Names(c)
      /\ c.rules \in Seq(Range(c.rules)) /\ Prefixed(Range(c.rules))
  BY Loading DEF Names
<1> DEFINE K == {t \in Range(list) : Known(c, t)}
<1>3. list \in Seq(K)
  <2> HIDE DEF a, d, scenario, rule
  <2>1. ASSUME NEW chain, IsSeq(chain), list = ChainTargets(chain, m),
               \A t : t.name \in Range(chain) => Known(c, t)
        PROVE  list \in Seq(K)
    <3>1. IsSeq(list) /\ K = Range(list)
      BY <2>1, ChainOf
    <3> HIDE DEF K
    <3>2. QED
      BY <3>1 DEF IsSeq
  <2>2. CASE scenario # <<>> /\ list = ChainTargets(scenario, m)
    <3>1. scenario \in {c.long.chain, c.image, c.thinking}
      BY <1>2, <2>2 DEF MatchScenario, scenario
    <3>2. IsSeq(scenario)
      BY <3>1 DEF Shaped
    <3>3. \A t : t.name \in Range(scenario) => Known(c, t)
      <4>1. \A t : t.name \in Range(scenario) =>
              t.name \in Range(c.long.chain) \cup Range(c.image) \cup Range(c.thinking)
        BY <3>1
      <4>2. QED
        BY <4>1, ScenarioTargets DEF Known
    <3>4. QED
      BY <2>1, <2>2, <3>2, <3>3
  <2>3. CASE rule[1] > 0 /\ list \in RuleTargets(a, a.rules[rule[1]], rule[2], load)
    <3>1. /\ DOMAIN a.rules = 1 .. Len(c.rules) /\ Len(c.rules) \in Nat
          /\ Range(a.rules) = Range(c.rules)
      <4>1. /\ SortRules(c.rules) \in Like(Range(c.rules), c.rules)
            /\ Range(SortRules(c.rules)) = Range(c.rules)
        BY <1>2, RulesSorted
      <4>2. a.rules \in Seq(Range(c.rules)) /\ Len(a.rules) = Len(c.rules)
        BY <1>2, <4>1 DEF Like
      <4>3. QED
        BY <1>2, <4>1, <4>2
    <3>2. \A m1 : MatchRules(a, m1) \in 0 .. Len(c.rules)
      BY <3>1, FirstMatch
    <3>3. rule[1] \in 0 .. Len(c.rules)
      <4>1. \E m1 : rule = <<MatchRules(a, m1), m1>> \/ rule = <<0, m1>>
        BY Zenon DEF RuleFor, rule
      <4>2. QED
        BY <3>1, <3>2, <4>1
    <3>4. a.rules[rule[1]] \in Range(c.rules)
      <4>1. rule[1] \in DOMAIN a.rules
        BY <2>3, <3>1, <3>3
      <4>2. a.rules[rule[1]] \in Range(a.rules)
        BY <4>1 DEF Range
      <4>3. QED
        BY <3>1, <4>2
    <3>5. QED
      BY <2>3, <3>4, RuleTargetsKnown
  <2>4. CASE list = ChainTargets(a.defChain, m)
    <3>1. Range(d.defChain) \subseteq Names(d)
      BY Zenon DEF Validate, d
    <3>2. \A t : t.name \in Range(a.defChain) => Known(c, t)
      BY <1>2, <3>1 DEF Known
    <3>3. QED
      BY <1>2, <2>1, <2>4, <3>2
  <2>5. QED
    BY <1>1, <2>2, <2>3, <2>4
<1>4. tg \in Seq(K)
  <2> HIDE DEF K, a, d
  <2>1. QED
    BY Zenon, <1>1, <1>3, PickedTargets
<1>5. \A t \in Range(tg) : t \in K
  <2> HIDE DEF K
  <2>1. \A k \in DOMAIN tg : tg[k] \in K
    BY <1>4
  <2>2. QED
    BY <2>1 DEF Range
<1>6. QED
  BY <1>5

-----------------------------------------------------------------------------
(* Reconfigure. *)

Texts == Configs \cup {Torn}
Lists == {<<>>} \cup UNION {Resolve(Applied[c], m, inf, load) :
                              c \in Configs, m \in Models, inf \in Infos, load \in Loads}
Locs == [new : Configs, cur : Texts, old : Texts \cup {"none"}, ino : Nat,
         targets : Lists, at : Nat]

Tracked == {r \in Active : Admin(r) /\ pc[r] \notin Leaving}

\* Requests that may still make a generation.
BeforeSwap == {"idle", "check", "backup", "backup2", "backup3", "rename", "read", "read2",
               "write", "write2", "swapBak", "swapBak2", "reload", "swap"}
Pending == {r \in Requests : Admin(r) /\ pc[r] \in BeforeSwap}

(***************************************************************************)
(* Types of everything, and what keeps the count and the generations right.*)
(***************************************************************************)
Types ==
  /\ TypeOK
  /\ kind \in Scripts
  /\ file \in [ino : Nat, text : Texts] /\ prev \in Texts \cup {"none"} /\ lost \in BOOLEAN
  /\ hand \in {"none", "new", "loaded"}
  /\ inflight \in [count : Nat, closing : BOOLEAN, done : BOOLEAN]
  /\ late \in BOOLEAN /\ overlap \in BOOLEAN /\ faults \in Nat
  /\ loc \in [Requests -> Locs]
  /\ \A r \in Requests : /\ kind[r] = "none" => pc[r] = "done"
                         /\ kind[r] = "message" => pc[r] \in {"idle", "resolved", "done"}
                         /\ pc[r] = "resolved" => kind[r] = "message"
                         /\ pc[r] \in {"write", "write2"} => Loads_(loc[r].old)
  /\ ~Up => Active = {}
  /\ gen + Cardinality(Pending) <= MaxGen[kind]

-----------------------------------------------------------------------------
(***************************************************************************)
(* Sets of requests.                                                       *)
(***************************************************************************)

\* Tracked requests and those with a generation to come, as one of them moves.
LEMMA Sets ==
  ASSUME NEW S \in SUBSET Requests
  PROVE  /\ IsFiniteSet(S) /\ Cardinality(S) \in Nat
         /\ \A r \in Requests \ S : Cardinality(S \cup {r}) = Cardinality(S) + 1
         /\ \A r \in S : Cardinality(S \ {r}) = Cardinality(S) - 1
         /\ \A T \in SUBSET S : Cardinality(T) <= Cardinality(S)
         /\ Cardinality(S) = 0 <=> S = {}
<1>1. IsFiniteSet(S)
  BY ReconfigureAssumption, FS_Subset
<1>2. Cardinality(S) \in Nat
  BY <1>1, FS_CardinalityType
<1>3. \A r \in Requests \ S : Cardinality(S \cup {r}) = Cardinality(S) + 1
  BY <1>1, FS_AddElement
<1>4. \A r \in S : Cardinality(S \ {r}) = Cardinality(S) - 1
  BY <1>1, FS_RemoveElement
<1>5. \A T \in SUBSET S : Cardinality(T) <= Cardinality(S)
  BY <1>1, FS_Subset
<1>6. Cardinality(S) = 0 <=> S = {}
  BY <1>1, FS_EmptySet
<1>7. QED
  BY <1>1, <1>2, <1>3, <1>4, <1>5, <1>6

\* A local variable that is set.
LEMMA Remembered ==
  ASSUME loc \in [Requests -> Locs], NEW r \in Requests, NEW v
  PROVE  /\ v \in Texts /\ Remember(r, "cur", v) =>
              /\ loc' \in [Requests -> Locs] /\ loc' = [loc EXCEPT ![r].cur = v]
         /\ v \in Texts \cup {"none"} /\ Remember(r, "old", v) =>
              /\ loc' \in [Requests -> Locs] /\ loc' = [loc EXCEPT ![r].old = v]
         /\ v \in Configs /\ Remember(r, "new", v) =>
              /\ loc' \in [Requests -> Locs] /\ loc' = [loc EXCEPT ![r].new = v]
         /\ v \in Nat /\ Remember(r, "ino", v) =>
              /\ loc' \in [Requests -> Locs] /\ loc' = [loc EXCEPT ![r].ino = v]
BY DEF Remember, Locs

FilePlaces == {"check", "backup", "backup2", "backup3", "rename", "read", "read2",
               "write", "write2", "swapBak", "swapBak2", "reload", "swap", "prices"}
FileStep(r) == Editor(r) \/ Rollback(r) \/ Reload(r)

\* What a step of one of the admin handlers does to a place.
LEMMA Moves ==
  ASSUME Types, NEW r \in Requests, FileStep(r)
  PROVE  /\ Up /\ Admin(r) /\ UNCHANGED <<phase, inflight, waiter, late, kind, overlap, loops>>
         /\ pc[r] \in FilePlaces /\ pc'[r] \in FilePlaces \cup {"end"}
         /\ pc' = [pc EXCEPT ![r] = pc'[r]]
         /\ pc[r] = "prices" => pc'[r] = "end"
         /\ pc[r] = "swap" => pc'[r] = "prices"
         /\ pc'[r] = "write" => pc[r] = "read2" /\ Loads_(bak)
         /\ pc'[r] = "write2" => pc[r] = "write"
         /\ pc'[r] = "prices" => Swap(r)
         /\ Swap(r) \/ UNCHANGED <<gen, starting, live, found>>
<1>0. pc \in [Requests -> Places]
  BY DEF Types, TypeOK
<1>1. /\ Up /\ UNCHANGED <<phase, inflight, waiter, late, kind, overlap, loops>>
      /\ Swap(r) \/ UNCHANGED <<gen, starting, live, found>>
  <2>1. CASE CheckEdit(r)
    BY <2>1 DEF CheckEdit, Goto, Quietly, procVars, regVars
  <2>2. CASE ReadForBackup(r)
    BY <2>2 DEF ReadForBackup, Step, Goto, Quietly, procVars, regVars
  <2>3. CASE BackUp(r)
    BY <2>3 DEF BackUp, TruncateBak, WriteBak, Step, Goto, Quietly, procVars, regVars
  <2>4. CASE Rename(r)
    BY <2>4 DEF Rename, RenameTo, Goto, Quietly, procVars, regVars
  <2>5. CASE ReadCurrent(r)
    BY <2>5 DEF ReadCurrent, Goto, Quietly, procVars, regVars
  <2>6. CASE ReadBackup(r)
    BY <2>6 DEF ReadBackup, Goto, Quietly, procVars, regVars
  <2>7. CASE TruncateFile(r)
    BY <2>7 DEF TruncateFile, Step, Goto, Quietly, procVars, regVars
  <2>8. CASE WriteFile(r)
    BY <2>8 DEF WriteFile, Step, Goto, procVars, regVars
  <2>9. CASE KeepCurrent(r)
    BY <2>9 DEF KeepCurrent, TruncateBak, WriteBak, Step, Goto, Quietly, procVars, regVars
  <2>10. CASE Read(r)
    BY <2>10 DEF Read, Goto, Quietly, procVars, regVars
  <2>11. CASE Swap(r)
    BY <2>11 DEF Swap, Step, Goto, procVars, regVars
  <2>12. CASE StorePrices(r)
    BY <2>12 DEF StorePrices, Step, Goto, procVars, regVars
  <2>20. QED
    BY <2>1, <2>2, <2>3, <2>4, <2>5, <2>6, <2>7, <2>8, <2>9, <2>10, <2>11, <2>12
    DEF FileStep, Editor, Rollback, Reload
<1>2. /\ pc[r] \in FilePlaces /\ pc'[r] \in FilePlaces \cup {"end"}
      /\ pc' = [pc EXCEPT ![r] = pc'[r]]
      /\ pc[r] = "prices" => pc'[r] = "end"
      /\ pc[r] = "swap" => pc'[r] = "prices"
      /\ pc'[r] = "write" => pc[r] = "read2" /\ Loads_(bak)
      /\ pc'[r] = "write2" => pc[r] = "write"
      /\ pc'[r] = "prices" => Swap(r)
  <2>1. CASE CheckEdit(r)
    BY <1>0, <2>1 DEF CheckEdit, Goto, FilePlaces
  <2>2. CASE ReadForBackup(r)
    BY <1>0, <2>2 DEF ReadForBackup, Step, Goto, FilePlaces
  <2>3. CASE BackUp(r)
    BY <1>0, <2>3 DEF BackUp, TruncateBak, WriteBak, Step, Goto, FilePlaces
  <2>4. CASE Rename(r)
    BY <1>0, <2>4 DEF Rename, RenameTo, Goto, FilePlaces
  <2>5. CASE ReadCurrent(r)
    BY <1>0, <2>5 DEF ReadCurrent, Goto, FilePlaces
  <2>6. CASE ReadBackup(r)
    BY <1>0, <2>6 DEF ReadBackup, Goto, FilePlaces
  <2>7. CASE TruncateFile(r)
    BY <1>0, <2>7 DEF TruncateFile, Step, Goto, FilePlaces
  <2>8. CASE WriteFile(r)
    BY <1>0, <2>8 DEF WriteFile, Step, Goto, FilePlaces
  <2>9. CASE KeepCurrent(r)
    BY <1>0, <2>9 DEF KeepCurrent, TruncateBak, WriteBak, Step, Goto, FilePlaces
  <2>10. CASE Read(r)
    BY <1>0, <2>10 DEF Read, Goto, FilePlaces
  <2>11. CASE Swap(r)
    <3>1. pc[r] = "swap" /\ pc' = [pc EXCEPT ![r] = "prices"]
      BY <2>11 DEF Swap, Step, Goto
    <3>2. QED
      BY <1>0, <2>11, <3>1 DEF FilePlaces
  <2>12. CASE StorePrices(r)
    BY <1>0, <2>12 DEF StorePrices, Step, Goto, FilePlaces
  <2>20. QED
    BY <2>1, <2>2, <2>3, <2>4, <2>5, <2>6, <2>7, <2>8, <2>9, <2>10, <2>11, <2>12
    DEF FileStep, Editor, Rollback, Reload
<1>3. Admin(r)
  BY <1>2 DEF Types, Admin, FilePlaces
<1>4. QED
  BY <1>1, <1>2, <1>3

\* What the disk holds afterwards, and what the handler remembers.
Disk ==
  /\ sameFS \in BOOLEAN /\ lost \in BOOLEAN /\ faults \in Nat
  /\ file \in [ino : Nat, text : Texts] /\ bak \in Texts \cup {"none"}
  /\ prev \in Texts \cup {"none"} /\ hand \in {"none", "new", "loaded"}
  /\ live \in Configs /\ prices \in Configs /\ loc \in [Requests -> Locs]

LEMMA DiskTypes ==
  ASSUME Types, NEW r \in Requests, FileStep(r)
  PROVE  /\ Disk'
         /\ pc'[r] \in {"write", "write2"} => Loads_(loc'[r].old)
         /\ \A q \in Requests \ {r} : loc'[q] = loc[q]
<1>0. /\ Disk /\ pc \in [Requests -> Places]
      /\ pc[r] = "write" => Loads_(loc[r].old)
  BY DEF Types, TypeOK, Disk, Texts
<1>1. \A text : Loads_(text) => text \in Configs /\ text \in Texts
  BY DEF Loads_, Texts
<1>2. /\ loc[r].new \in Configs /\ loc[r].cur \in Texts /\ loc[r].old \in Texts \cup {"none"}
      /\ file.text \in Texts /\ file.ino \in Nat /\ Torn \in Texts
  BY <1>0 DEF Disk, Locs, Texts
<1>3. ASSUME NEW from, NEW to, TruncateBak(r, from, to)
      PROVE  Disk' /\ pc'[r] = to /\ loc' = loc
  BY <1>0, <1>2, <1>3 DEF TruncateBak, Disk, Step, Goto, Quietly, regVars
<1>4. ASSUME NEW from, NEW to, WriteBak(r, from, to, loc[r].cur)
      PROVE  Disk' /\ pc'[r] = to /\ loc' = loc
  <2>1. faults' \in Nat
    BY <1>0, <1>4 DEF WriteBak, MayFail, Disk
  <2>2. bak' \in Texts \cup {"none"}
    BY <1>0, <1>2, <1>4 DEF WriteBak, Written, Disk
  <2>3. QED
    BY <1>0, <1>4, <2>1, <2>2 DEF WriteBak, Disk, Step, Goto, regVars
<1>5. CASE CheckEdit(r)
  BY <1>0, <1>5 DEF CheckEdit, Goto, Quietly, Disk, diskVars, regVars
<1>6. CASE ReadForBackup(r)
  <2>1. loc' \in [Requests -> Locs] /\ \A q \in Requests \ {r} : loc'[q] = loc[q]
    BY <1>0, <1>2, <1>6, Remembered DEF ReadForBackup, Disk
  <2>2. QED
    BY <1>0, <1>6, <2>1 DEF ReadForBackup, Step, Goto, Quietly, Disk, diskVars, regVars
<1>7. CASE BackUp(r)
  BY <1>0, <1>3, <1>4, <1>7 DEF BackUp
<1>8. CASE Rename(r)
  <2>1. file' \in [ino : Nat, text : Texts] /\ prev' \in Texts \cup {"none"}
    BY <1>0, <1>2, <1>8 DEF Rename, RenameTo, Disk, Texts
  <2>2. QED
    BY <1>0, <1>8, <2>1 DEF Rename, RenameTo, Goto, Quietly, Disk, regVars
<1>9. CASE ReadCurrent(r)
  <2>1. loc' \in [Requests -> Locs] /\ \A q \in Requests \ {r} : loc'[q] = loc[q]
    BY <1>0, <1>2, <1>9, Remembered DEF ReadCurrent, Disk
  <2>2. QED
    BY <1>0, <1>9, <2>1 DEF ReadCurrent, Goto, Quietly, Disk, diskVars, regVars
<1>10. CASE ReadBackup(r)
  <2>1. loc' \in [Requests -> Locs] /\ loc' = [loc EXCEPT ![r].old = bak]
    BY <1>0, <1>10, Remembered DEF ReadBackup, Disk
  <2>2. loc'[r].old = bak /\ \A q \in Requests \ {r} : loc'[q] = loc[q]
    BY <1>0, <2>1 DEF Disk, Locs
  <2>3. pc'[r] \in {"write", "write2"} => Loads_(bak)
    BY <1>0, <1>10 DEF ReadBackup, Goto
  <2>4. Disk'
    BY <1>0, <1>10, <2>1 DEF ReadBackup, Quietly, Disk, diskVars, regVars
  <2>5. QED
    BY <2>2, <2>3, <2>4
<1>11. CASE TruncateFile(r)
  <2>1. loc' \in [Requests -> Locs] /\ loc' = [loc EXCEPT ![r].ino = file.ino]
    BY <1>0, <1>2, <1>11, Remembered DEF TruncateFile, Disk
  <2>2. loc'[r].old = loc[r].old /\ \A q \in Requests \ {r} : loc'[q] = loc[q]
    BY <1>0, <2>1 DEF Disk, Locs
  <2>3. pc[r] = "write"
    BY <1>11 DEF TruncateFile, Step
  <2>4. file' \in [ino : Nat, text : Texts]
    BY <1>0, <1>2, <1>11 DEF TruncateFile, Disk
  <2>5. Disk'
    BY <1>0, <1>11, <2>1, <2>4 DEF TruncateFile, Quietly, Disk, regVars
  <2>6. QED
    BY <1>0, <2>2, <2>3, <2>5
<1>12. CASE WriteFile(r)
  <2>1. PICK ok \in BOOLEAN :
          /\ MayFail(ok) /\ lost' = (lost \/ ~ok)
          /\ IF ok /\ file.ino = loc[r].ino
             THEN \E t \in Written(file.text, loc[r].old) : file' = [file EXCEPT !.text = t]
             ELSE UNCHANGED file
    BY <1>12 DEF WriteFile
  <2>2. faults' \in Nat /\ lost' \in BOOLEAN
    BY <1>0, <2>1 DEF MayFail, Disk
  <2>3. loc[r].old \in Texts
    <3>1. pc[r] = "write2"
      BY <1>12 DEF WriteFile, Step
    <3>2. QED
      BY <1>1, <3>1 DEF Types
  <2>4. Written(file.text, loc[r].old) \subseteq Texts
    BY <1>2, <2>3 DEF Written
  <2>5. file' \in [ino : Nat, text : Texts]
    BY <1>0, <2>1, <2>4 DEF Disk
  <2>6. Disk'
    BY <1>0, <1>2, <1>12, <2>2, <2>5 DEF WriteFile, Disk, regVars
  <2>7. QED
    BY <1>0, <1>12, <2>6 DEF WriteFile, Step, Goto
<1>13. CASE KeepCurrent(r)
  BY <1>0, <1>3, <1>4, <1>13 DEF KeepCurrent
<1>14. CASE Read(r)
  <2>1. loc' \in [Requests -> Locs] /\ \A q \in Requests \ {r} : loc'[q] = loc[q]
    BY <1>0, <1>1, <1>14, Remembered DEF Read, Disk
  <2>2. hand' \in {"none", "new", "loaded"}
    BY <1>0, <1>14 DEF Read, HandLoaded, Disk
  <2>3. QED
    BY <1>0, <1>14, <2>1, <2>2 DEF Read, Goto, Quietly, Disk, regVars
<1>15. CASE Swap(r)
  BY <1>0, <1>2, <1>15 DEF Swap, Step, Goto, Disk, diskVars
<1>16. CASE StorePrices(r)
  BY <1>0, <1>2, <1>16 DEF StorePrices, Step, Goto, Disk, diskVars
<1>17. QED
  BY <1>5, <1>6, <1>7, <1>8, <1>9, <1>10, <1>11, <1>12, <1>13, <1>14, <1>15, <1>16
  DEF FileStep, Editor, Rollback, Reload

LEMMA FileTypes ==
  ASSUME Types, NEW r \in Requests, FileStep(r)
  PROVE  Types'
<1>0. /\ pc \in [Requests -> Places] /\ kind \in Scripts /\ kind' = kind
      /\ UNCHANGED <<phase, inflight, waiter, late, overlap, loops>>
      /\ gen \in 1 .. MaxGen[kind] /\ MaxGen[kind] \in Nat
      /\ gen + Cardinality(Pending) <= MaxGen[kind]
  BY Moves, ReconfigureAssumption DEF Types, TypeOK
<1>1. /\ Up /\ Admin(r) /\ pc[r] \in FilePlaces /\ pc'[r] \in FilePlaces \cup {"end"}
      /\ pc' = [pc EXCEPT ![r] = pc'[r]]
      /\ pc'[r] = "write" => pc[r] = "read2" /\ Loads_(bak)
  BY Moves
<1>2. pc' \in [Requests -> Places] /\ \A q \in Requests \ {r} : pc'[q] = pc[q]
  BY <1>0, <1>1 DEF FilePlaces, Places
<1>3. Tracked' = Tracked
  BY <1>0, <1>1, <1>2 DEF Tracked, Active, Admin, Leaving, FilePlaces
<1>4. Pending' \in SUBSET Pending /\ (Swap(r) => Pending' \in SUBSET (Pending \ {r}) /\ r \in Pending)
  <2>1. pc'[r] \in BeforeSwap => pc[r] \in BeforeSwap
    BY <1>1, Moves DEF FilePlaces, BeforeSwap
  <2>2. Pending' \in SUBSET Pending
    BY <1>0, <1>1, <1>2, <2>1 DEF Pending, Admin
  <2>3. CASE Swap(r)
    <3>1. pc[r] = "swap" /\ pc'[r] = "prices"
      BY <1>0, <2>3 DEF Swap, Step, Goto
    <3>2. QED
      BY <1>1, <2>2, <3>1 DEF Pending, BeforeSwap
  <2>4. QED
    BY <2>2, <2>3
<1>5. /\ gen' + Cardinality(Pending') <= MaxGen[kind] /\ gen' \in 1 .. MaxGen[kind]
      /\ gen' \in {gen, gen + 1}
  <2>1. Pending \in SUBSET Requests
    BY DEF Pending
  <2>2. Cardinality(Pending) \in Nat /\ Cardinality(Pending') \in Nat
        /\ Cardinality(Pending') <= Cardinality(Pending)
    BY <1>4, <2>1, Sets
  <2>3. CASE Swap(r)
    <3>1. gen' = gen + 1
      BY <2>3 DEF Swap
    <3>2. Cardinality(Pending \ {r}) = Cardinality(Pending) - 1
      BY <1>4, <2>1, <2>3, Sets
    <3>3. Cardinality(Pending') <= Cardinality(Pending \ {r})
      <4>1. Pending \ {r} \in SUBSET Requests
        BY <2>1
      <4>2. QED
        BY <1>4, <2>3, <4>1, Sets
    <3>4. QED
      BY <1>0, <2>2, <3>1, <3>2, <3>3
  <2>4. CASE ~Swap(r)
    <3>1. gen' = gen
      BY <2>4, Moves
    <3>2. QED
      BY <1>0, <2>2, <3>1
  <2>5. QED
    BY <2>3, <2>4
<1>6. /\ starting' \subseteq 1 .. gen' /\ loops' \subseteq LoopRecords'
      /\ found' \in [AllNames -> Configs \cup {"none"}]
  <2>1. LoopRecords' = LoopRecords
    BY <1>0 DEF LoopRecords
  <2>2. starting \subseteq 1 .. gen
    BY DEF Types, TypeOK
  <2>3. starting' \subseteq 1 .. gen' /\ found' \in [AllNames -> Configs \cup {"none"}]
    <3>1. CASE Swap(r)
      <4>1. gen' = gen + 1 /\ starting' \subseteq starting \cup {gen + 1}
            /\ found' = [n \in AllNames |-> "none"]
        BY <3>1 DEF Swap
      <4>2. QED
        BY <1>0, <2>2, <4>1
    <3>2. CASE ~Swap(r)
      BY <2>2, <3>2, Moves DEF Types, TypeOK
    <3>3. QED
      BY <3>1, <3>2
  <2>4. QED
    BY <1>0, <2>1, <2>3 DEF Types, TypeOK
<1>7. /\ Disk'
      /\ pc'[r] \in {"write", "write2"} => Loads_(loc'[r].old)
      /\ \A q \in Requests \ {r} : loc'[q] = loc[q]
  BY DiskTypes
<1>8. ASSUME NEW q \in Requests
      PROVE  /\ kind'[q] = "none" => pc'[q] = "done"
             /\ kind'[q] = "message" => pc'[q] \in {"idle", "resolved", "done"}
             /\ pc'[q] = "resolved" => kind'[q] = "message"
             /\ pc'[q] \in {"write", "write2"} => Loads_(loc'[q].old)
  <2>1. CASE q = r
    <3>1. kind[r] # "none" /\ kind[r] # "message"
      BY <1>1 DEF Admin, Types, FilePlaces
    <3>2. pc'[r] \notin {"done", "idle", "resolved"}
      BY <1>1 DEF FilePlaces
    <3>3. pc'[r] \in {"write", "write2"} => Loads_(loc'[r].old)
      BY <1>7
    <3>4. QED
      BY <1>0, <2>1, <3>1, <3>2, <3>3
  <2>2. CASE q # r
    BY <1>0, <1>2, <1>7, <2>2 DEF Types
  <2>3. QED
    BY <2>1, <2>2
<1>9. Up'
  BY <1>0, <1>1 DEF Up
<1>10. TypeOK'
  <2>1. inflight'.count = Cardinality(Tracked')
    BY <1>0, <1>3 DEF Types, TypeOK, Tracked
  <2>2. inflight'.count = Cardinality({q \in Active : Admin(q) /\ pc[q] \notin Leaving}')
    BY <2>1 DEF Tracked
  <2>3. bak' \in Configs \cup {Torn, "none"} /\ file'.text \in Configs \cup {Torn}
    <3>1. bak' \in Texts \cup {"none"} /\ file' \in [ino : Nat, text : Texts]
      BY <1>7 DEF Disk
    <3>2. file'.text \in Texts
      BY <3>1
    <3>3. QED
      BY <3>1, <3>2 DEF Texts
  <2>4. phase' \in {"serving", "signalled", "draining", "exited", "down", "fatal"}
        /\ waiter' \in {"none", "look", "wait", "back"}
    BY <1>0 DEF Types, TypeOK
  <2>5. sameFS' \in BOOLEAN /\ live' \in Configs /\ prices' \in Configs
    BY <1>7 DEF Disk
  <2>6. gen' \in 1 .. MaxGen[kind]' /\ starting' \subseteq 1 .. gen' /\ loops' \subseteq LoopRecords'
    BY <1>0, <1>5, <1>6
  <2>7. QED
    BY <1>2, <1>6, <2>2, <2>3, <2>4, <2>5, <2>6 DEF TypeOK
<1>11. /\ file' \in [ino : Nat, text : Texts] /\ prev' \in Texts \cup {"none"} /\ lost' \in BOOLEAN
       /\ hand' \in {"none", "new", "loaded"}
       /\ faults' \in Nat /\ loc' \in [Requests -> Locs]
  BY <1>7 DEF Disk
<1>12. /\ inflight' \in [count : Nat, closing : BOOLEAN, done : BOOLEAN]
       /\ late' \in BOOLEAN /\ overlap' \in BOOLEAN /\ kind' \in Scripts
       /\ gen' + Cardinality(Pending') <= MaxGen[kind]'
  BY <1>0, <1>5 DEF Types
<1>13. QED
  BY <1>8, <1>9, <1>10, <1>11, <1>12 DEF Types

LEMMA Begins ==
  ASSUME Types, NEW r \in Requests, Begin(r)
  PROVE  /\ Up /\ pc[r] = "idle" /\ pc' = [pc EXCEPT ![r] = pc'[r]]
         /\ Admin(r) => pc'[r] \in {"check", "read", "reload"}
         /\ ~Admin(r) => pc'[r] = "resolved"
         /\ loc' \in [Requests -> Locs] /\ \A q \in Requests \ {r} : loc'[q] = loc[q]
<1>0. /\ pc \in [Requests -> Places] /\ loc \in [Requests -> Locs]
      /\ pc[r] = "idle" /\ kind[r] \in Configs \cup Words /\ kind[r] # "none"
      /\ live \in Configs /\ gen \in Nat
  BY ReconfigureAssumption DEF Types, TypeOK, Begin
<1>1. Configs \cap Words = {} /\ Words = {"rollback", "reload", "message", "none"}
  BY ReconfigureAssumption DEF Words
<1>2. Up
  BY DEF Begin, Up
<1>3. CASE kind[r] \in Configs
  <2>1. Remember(r, "new", kind[r]) /\ Goto(r, "check")
    BY <1>1, <1>3 DEF Begin
  <2>2. loc' \in [Requests -> Locs] /\ loc' = [loc EXCEPT ![r].new = kind[r]]
    BY <1>0, <1>3, <2>1, Remembered
  <2>3. Admin(r)
    BY <1>1, <1>3 DEF Admin
  <2>4. pc' = [pc EXCEPT ![r] = "check"] /\ pc'[r] = "check"
    BY <1>0, <2>1 DEF Goto
  <2>5. QED
    BY <1>0, <1>2, <2>2, <2>3, <2>4
<1>4. CASE kind[r] = "rollback"
  <2>1. Goto(r, "read") /\ loc' = loc /\ Admin(r)
    BY <1>1, <1>4 DEF Begin, Admin
  <2>2. pc' = [pc EXCEPT ![r] = "read"] /\ pc'[r] = "read"
    BY <1>0, <2>1 DEF Goto
  <2>3. QED
    BY <1>0, <1>2, <2>1, <2>2
<1>5. CASE kind[r] = "reload"
  <2>1. Goto(r, "reload") /\ loc' = loc /\ Admin(r)
    BY <1>1, <1>5 DEF Begin, Admin
  <2>2. pc' = [pc EXCEPT ![r] = "reload"] /\ pc'[r] = "reload"
    BY <1>0, <2>1 DEF Goto
  <2>3. QED
    BY <1>0, <1>2, <2>1, <2>2
<1>6. CASE kind[r] = "message"
  <2>1. PICK m \in Models, inf \in Infos, load \in Loads :
          \E tg \in Resolve(Applied[live], m, inf, load) :
            /\ loc' = [loc EXCEPT ![r].targets = tg, ![r].at = gen]
            /\ Goto(r, "resolved")
    BY <1>1, <1>6 DEF Begin
  <2>2. PICK tg \in Resolve(Applied[live], m, inf, load) :
          loc' = [loc EXCEPT ![r].targets = tg, ![r].at = gen] /\ Goto(r, "resolved")
    BY <2>1
  <2>3. tg \in Lists
    BY <1>0 DEF Lists
  <2>4. loc' \in [Requests -> Locs] /\ \A q \in Requests \ {r} : loc'[q] = loc[q]
    BY <1>0, <2>2, <2>3 DEF Locs
  <2>5. pc' = [pc EXCEPT ![r] = "resolved"] /\ pc'[r] = "resolved"
    BY <1>0, <2>2 DEF Goto
  <2>6. QED
    BY <1>0, <1>2, <1>6, <2>4, <2>5 DEF Admin
<1>7. QED
  BY <1>0, <1>1, <1>3, <1>4, <1>5, <1>6

\* Where a request that ends goes.
LEMMA Ends ==
  ASSUME Types, NEW r \in Requests, Leave(r)
  PROVE  /\ Up /\ UNCHANGED <<diskVars, regVars, phase, waiter, late, kind, overlap, faults>>
         /\ pc' = [pc EXCEPT ![r] = pc'[r]] /\ loc' = [loc EXCEPT ![r] = Locals]
         /\ \/ pc[r] = "resolved" /\ pc'[r] = "done" /\ inflight' = inflight
            \/ /\ pc[r] = "end" /\ pc'[r] = (IF inflight.count = 1 THEN "wake" ELSE "done")
               /\ inflight' = [inflight EXCEPT !.count = @ - 1]
            \/ /\ pc[r] = "wake" /\ inflight' = inflight
               /\ pc'[r] = (IF inflight.closing /\ ~inflight.done THEN "close" ELSE "done")
            \/ /\ pc[r] = "close" /\ pc'[r] = "done"
               /\ inflight' = [inflight EXCEPT !.done = TRUE]
<1>0. pc \in [Requests -> Places]
  BY DEF Types, TypeOK
<1>1. ASSUME NEW from, NEW to, Ending(r, from, to)
      PROVE  /\ Up /\ UNCHANGED <<diskVars, regVars, phase, waiter, late, kind, overlap, faults>>
             /\ loc' = [loc EXCEPT ![r] = Locals]
             /\ pc[r] = from /\ pc'[r] = to /\ pc' = [pc EXCEPT ![r] = pc'[r]]
  <2>1. pc' = [pc EXCEPT ![r] = to] /\ pc'[r] = to
    BY <1>0, <1>1 DEF Ending, Goto
  <2>2. QED
    BY <1>1, <2>1 DEF Ending
<1>2. CASE MessageEnds(r)
  BY <1>1, <1>2 DEF MessageEnds
<1>3. CASE End(r)
  <2>1. Ending(r, "end", IF inflight.count = 1 THEN "wake" ELSE "done")
        /\ inflight' = [inflight EXCEPT !.count = @ - 1]
    BY <1>3 DEF End, Counted
  <2>2. QED
    BY <1>1, <2>1
<1>4. CASE SeeWaiter(r)
  <2>1. Ending(r, "wake", IF inflight.closing /\ ~inflight.done THEN "close" ELSE "done")
        /\ inflight' = inflight
    BY <1>4 DEF SeeWaiter
  <2>2. QED
    BY <1>1, <2>1
<1>5. CASE CloseDone(r)
  BY <1>1, <1>5 DEF CloseDone
<1>6. QED
  BY <1>2, <1>3, <1>4, <1>5 DEF Leave

LEMMA RequestTypes ==
  ASSUME Types, NEW r \in Requests, Begin(r) \/ Leave(r)
  PROVE  Types'
<1>0. /\ pc \in [Requests -> Places] /\ loc \in [Requests -> Locs]
      /\ inflight \in [count : Nat, closing : BOOLEAN, done : BOOLEAN]
      /\ inflight.count = Cardinality(Tracked)
      /\ gen \in Nat /\ gen + Cardinality(Pending) <= MaxGen[kind] /\ MaxGen[kind] \in Nat
      /\ Locals \in Locs
  BY ReconfigureAssumption DEF Types, TypeOK, Tracked, Locals, Locs, Texts, Lists
<1>1. /\ Up /\ UNCHANGED <<diskVars, regVars, phase, waiter, late, kind, faults>>
      /\ pc' = [pc EXCEPT ![r] = pc'[r]]
      /\ pc'[r] \in {"check", "read", "reload", "resolved", "wake", "close", "done"}
      /\ loc' \in [Requests -> Locs] /\ \A q \in Requests \ {r} : loc'[q] = loc[q]
  <2>1. CASE Begin(r)
    BY <2>1, Begins DEF Begin
  <2>2. CASE Leave(r)
    BY <1>0, <2>2, Ends
  <2>3. QED
    BY <2>1, <2>2
<1>2. /\ pc' \in [Requests -> Places] /\ \A q \in Requests \ {r} : pc'[q] = pc[q]
  BY <1>0, <1>1 DEF Places
<1>3. pc[r] \in {"idle", "resolved", "end", "wake", "close"}
  BY Begins, Ends
<1>4. /\ pc'[r] \in {"check", "read", "reload"} <=> Begin(r) /\ Admin(r)
      /\ pc'[r] = "resolved" <=> Begin(r) /\ ~Admin(r)
      /\ Begin(r) <=> pc[r] = "idle"
  <2>1. CASE Begin(r)
    BY <1>1, <2>1, Begins
  <2>2. CASE Leave(r)
    <3>1. pc[r] # "idle" /\ pc'[r] \in {"wake", "close", "done"}
      BY <1>1, <2>2, Ends
    <3>2. ~Begin(r)
      BY <3>1 DEF Begin
    <3>3. QED
      BY <3>1, <3>2
  <2>3. QED
    BY <2>1, <2>2
<1>5. Tracked \in SUBSET Requests /\ Pending \in SUBSET Requests
  BY DEF Tracked, Active, Pending
<1>6. /\ inflight' \in [count : Nat, closing : BOOLEAN, done : BOOLEAN]
      /\ inflight'.count = Cardinality(Tracked')
      /\ overlap' \in BOOLEAN
  <2>1. CASE Begin(r) /\ Admin(r)
    <3>1. Tracked' = Tracked \cup {r} /\ r \notin Tracked
      BY <1>0, <1>1, <1>2, <1>4, <2>1 DEF Tracked, Active, Admin, Leaving
    <3>2. inflight' = [inflight EXCEPT !.count = @ + 1]
      BY <2>1 DEF Begin
    <3>3. QED
      BY <1>0, <1>5, <2>1, <3>1, <3>2, Sets DEF Begin, Types
  <2>2. CASE Begin(r) /\ ~Admin(r)
    <3>1. Tracked' = Tracked
      BY <1>0, <1>1, <1>2, <1>4, <2>2 DEF Tracked, Active, Admin, Leaving
    <3>2. inflight' = inflight
      BY <2>2 DEF Begin
    <3>3. QED
      BY <1>0, <2>2, <3>1, <3>2 DEF Begin, Types
  <2>3. CASE Leave(r) /\ pc[r] = "end"
    <3>1. inflight' = [inflight EXCEPT !.count = @ - 1] /\ overlap' = overlap /\ kind' = kind
          /\ pc'[r] \in {"wake", "done"}
      BY <2>3, Ends
    <3>2. Admin(r)
      BY <2>3 DEF Types, Admin
    <3>3. Tracked' = Tracked \ {r} /\ r \in Tracked
      BY <1>0, <1>2, <2>3, <3>1, <3>2 DEF Tracked, Active, Admin, Leaving
    <3>4. Cardinality(Tracked \ {r}) = Cardinality(Tracked) - 1 /\ Cardinality(Tracked \ {r}) \in Nat
      <4>1. Tracked \ {r} \in SUBSET Requests
        BY <1>5
      <4>2. QED
        BY <1>5, <3>3, <4>1, Sets
    <3>5. QED
      BY <1>0, <3>1, <3>3, <3>4 DEF Types
  <2>4. CASE Leave(r) /\ pc[r] # "end"
    <3>1. /\ inflight' \in [count : Nat, closing : BOOLEAN, done : BOOLEAN]
          /\ inflight'.count = inflight.count /\ overlap' = overlap
          /\ pc'[r] \in {"close", "done"} /\ pc[r] \in {"resolved", "wake", "close"}
      <4>1. overlap' = overlap /\ kind' = kind
        BY <2>4, Ends
      <4>2. \/ /\ inflight' = inflight /\ pc'[r] \in {"close", "done"} /\ pc[r] \in {"resolved", "wake"}
            \/ /\ inflight' = [inflight EXCEPT !.done = TRUE] /\ pc'[r] = "done" /\ pc[r] = "close"
        BY <2>4, Ends
      <4>3. inflight' = inflight \/ inflight' = [inflight EXCEPT !.done = TRUE]
        BY <4>2
      <4>4. inflight' \in [count : Nat, closing : BOOLEAN, done : BOOLEAN]
            /\ inflight'.count = inflight.count
        BY <1>0, <4>3
      <4>5. QED
        BY <4>1, <4>2, <4>4
    <3>2. pc[r] = "resolved" => ~Admin(r)
      BY DEF Types, Admin
    <3>3. Tracked' = Tracked
      BY <1>0, <1>1, <1>2, <3>1, <3>2 DEF Tracked, Active, Admin, Leaving
    <3>4. QED
      BY <1>0, <3>1, <3>3 DEF Types
  <2>5. QED
    BY <2>1, <2>2, <2>3, <2>4
<1>7. gen' + Cardinality(Pending') <= MaxGen[kind']
  <2>1. Pending' \in SUBSET Pending
    BY <1>1, <1>2, <1>4 DEF Pending, Admin, BeforeSwap
  <2>2. Cardinality(Pending') <= Cardinality(Pending) /\ Cardinality(Pending') \in Nat
        /\ Cardinality(Pending) \in Nat
    BY <1>5, <2>1, Sets
  <2>3. gen' = gen /\ kind' = kind
    BY <1>1 DEF regVars
  <2>4. QED
    BY <1>0, <2>2, <2>3
<1>8. ASSUME NEW q \in Requests
      PROVE  /\ kind'[q] = "none" => pc'[q] = "done"
             /\ kind'[q] = "message" => pc'[q] \in {"idle", "resolved", "done"}
             /\ pc'[q] = "resolved" => kind'[q] = "message"
             /\ pc'[q] \in {"write", "write2"} => Loads_(loc'[q].old)
  <2>1. CASE q = r
    <3>1. kind' = kind /\ (kind[r] = "none" => pc[r] = "done")
          /\ (kind[r] = "message" => pc[r] \in {"idle", "resolved", "done"})
      BY <1>1 DEF Types
    <3>2. Admin(r) <=> kind[r] # "message"
      BY DEF Admin
    <3>3. kind[r] # "none"
      BY <1>3, <3>1
    <3>4. kind[r] = "message" => pc'[r] \in {"resolved", "done"}
      BY <1>1, <1>4, <3>1, <3>2, Ends
    <3>5. pc'[r] = "resolved" => kind[r] = "message"
      BY <1>4, <3>2
    <3>6. QED
      BY <1>1, <2>1, <3>1, <3>3, <3>4, <3>5
  <2>2. CASE q # r
    BY <1>1, <1>2, <2>2 DEF Types
  <2>3. QED
    BY <2>1, <2>2
<1>9. TypeOK'
  <2>1. inflight'.count = Cardinality({q \in Active : Admin(q) /\ pc[q] \notin Leaving}')
    BY <1>6 DEF Tracked
  <2>2. LoopRecords' = LoopRecords
    BY <1>1 DEF LoopRecords
  <2>3. QED
    BY <1>1, <1>2, <2>1, <2>2 DEF Types, TypeOK, diskVars, regVars
<1>10. Up'
  BY <1>1 DEF Up
<1>11. QED
  BY <1>1, <1>6, <1>7, <1>8, <1>9, <1>10 DEF Types, diskVars, regVars

\* Steps that move no request.
LEMMA ApartTypes ==
  ASSUME Types, UNCHANGED <<diskVars, live, prices, gen, reqVars>>,
         starting' \subseteq 1 .. gen, loops' \subseteq LoopRecords,
         found' \in [AllNames -> Configs \cup {"none"}],
         phase' \in {"serving", "signalled", "draining", "exited", "down", "fatal"},
         Up => Up',
         inflight' \in [count : Nat, closing : BOOLEAN, done : BOOLEAN],
         inflight'.count = inflight.count,
         waiter' \in {"none", "look", "wait", "back"}, late' \in BOOLEAN, faults' \in Nat
  PROVE  Types'
<1>1. Tracked' = Tracked /\ Pending' = Pending /\ LoopRecords' = LoopRecords /\ Active' = Active
  BY DEF Tracked, Active, Pending, Admin, LoopRecords, reqVars
<1>2. inflight'.count = Cardinality({q \in Active : Admin(q) /\ pc[q] \notin Leaving}')
  BY <1>1 DEF Tracked, Types, TypeOK
<1>3. TypeOK'
  BY <1>1, <1>2 DEF Types, TypeOK, diskVars, reqVars
<1>4. QED
  BY <1>1, <1>3 DEF Types, diskVars, reqVars

LEMMA ProbeTypes ==
  ASSUME Types,
         \/ \E ctx \in starting : RunDiscovery(ctx)
         \/ \E l \in loops : Answer(l, TRUE) \/ Answer(l, FALSE) \/ TickLoop(l) \/ StopLoop(l)
  PROVE  Types'
<1>0. /\ starting \subseteq 1 .. gen /\ loops \subseteq LoopRecords /\ gen \in 1 .. MaxGen[kind]
      /\ found \in [AllNames -> Configs \cup {"none"}] /\ live \in Configs
      /\ MaxGen[kind] \in Nat
  BY ReconfigureAssumption DEF Types, TypeOK
<1>1. /\ UNCHANGED <<diskVars, live, prices, gen, reqVars, procVars, faults>>
  BY DEF RunDiscovery, Answer, TickLoop, StopLoop, Move
<1>2. /\ starting' \subseteq 1 .. gen /\ loops' \subseteq LoopRecords
      /\ found' \in [AllNames -> Configs \cup {"none"}]
  <2>1. ASSUME NEW ctx \in starting, RunDiscovery(ctx)
        PROVE  /\ starting' \subseteq 1 .. gen /\ loops' \subseteq LoopRecords
               /\ found' \in [AllNames -> Configs \cup {"none"}]
    <3>1. Discovering(live) \subseteq AllNames
      <4>1. Discovering(live) \subseteq Names(Config[live])
        BY DEF Discovering, Names
      <4>2. QED
        BY <1>0, <4>1 DEF AllNames
    <3>2. ctx \in 1 .. MaxGen[kind]
      BY <1>0
    <3>3. \A n \in Discovering(live) :
            [ctx |-> ctx, name |-> n, cfg |-> live, at |-> "fetch"] \in LoopRecords
      BY <1>0, <3>1, <3>2 DEF LoopRecords
    <3>4. QED
      BY <1>0, <2>1, <3>3 DEF RunDiscovery
  <2>2. ASSUME NEW l \in loops, NEW to \in {"fetch", "wait"}, Move(l, to)
        PROVE  loops' \subseteq LoopRecords
    <3>1. [l EXCEPT !.at = to] \in LoopRecords
      BY <1>0 DEF LoopRecords
    <3>2. QED
      BY <1>0, <2>2, <3>1 DEF Move
  <2>3. ASSUME NEW l \in loops, NEW ok \in BOOLEAN, Answer(l, ok)
        PROVE  found' \in [AllNames -> Configs \cup {"none"}]
    <3>1. l.cfg \in Configs
      BY <1>0 DEF LoopRecords
    <3>2. QED
      BY <1>0, <2>3, <3>1 DEF Answer
  <2>4. ASSUME NEW l \in loops, Answer(l, TRUE) \/ Answer(l, FALSE)
        PROVE  /\ starting' \subseteq 1 .. gen /\ loops' \subseteq LoopRecords
               /\ found' \in [AllNames -> Configs \cup {"none"}]
    <3>1. Move(l, "wait") /\ starting' = starting
      BY <2>4 DEF Answer
    <3>2. QED
      BY <1>0, <2>2, <2>3, <2>4, <3>1
  <2>5. ASSUME NEW l \in loops, TickLoop(l) \/ StopLoop(l)
        PROVE  /\ starting' \subseteq 1 .. gen /\ loops' \subseteq LoopRecords
               /\ found' \in [AllNames -> Configs \cup {"none"}]
    <3>1. /\ starting' = starting /\ found' = found
          /\ Move(l, "fetch") \/ loops' = loops \ {l}
      BY <2>5 DEF TickLoop, StopLoop
    <3>2. QED
      BY <1>0, <2>2, <3>1
  <2>6. QED
    BY <2>1, <2>4, <2>5
<1>3. QED
  BY <1>1, <1>2, ApartTypes DEF Types, TypeOK, procVars, Up

LEMMA StopTypes ==
  ASSUME Types, NEW to \in {"exited", "down"}, Stop(to), faults' \in Nat
  PROVE  Types' /\ Active' = {}
<1>0. /\ pc \in [Requests -> Places] /\ loc \in [Requests -> Locs] /\ Locals \in Locs
      /\ gen \in Nat /\ gen + Cardinality(Pending) <= MaxGen[kind] /\ MaxGen[kind] \in Nat
  BY ReconfigureAssumption DEF Types, TypeOK, Locals, Locs, Texts, Lists
<1>1. /\ UNCHANGED <<diskVars, live, prices, gen, late, kind, overlap>>
      /\ pc' = [r \in Requests |-> IF r \in Active THEN "done" ELSE pc[r]]
      /\ loc' = [r \in Requests |-> Locals]
      /\ starting' = {} /\ loops' = {} /\ found' = [n \in AllNames |-> "none"]
      /\ inflight' = [count |-> 0, closing |-> FALSE, done |-> FALSE]
      /\ waiter' = "none" /\ phase' = to
  BY DEF Stop
<1>2. /\ pc' \in [Requests -> Places] /\ loc' \in [Requests -> Locs]
      /\ \A r \in Requests : pc'[r] \in {"idle", "done"} /\ (pc'[r] = "done" \/ pc'[r] = pc[r])
  BY <1>0, <1>1 DEF Active, Places
<1>3. Active' = {}
  BY <1>2 DEF Active
<1>4. inflight'.count = Cardinality({q \in Active : Admin(q) /\ pc[q] \notin Leaving}')
  <2>1. {q \in Active : Admin(q) /\ pc[q] \notin Leaving}' = {}
    BY <1>3
  <2>2. QED
    BY <1>1, <2>1, FS_EmptySet
<1>5. gen' + Cardinality(Pending') <= MaxGen[kind']
  <2>1. Pending' \in SUBSET Pending /\ Pending \in SUBSET Requests
    BY <1>1, <1>2 DEF Pending, Admin, BeforeSwap
  <2>2. Cardinality(Pending') <= Cardinality(Pending) /\ Cardinality(Pending') \in Nat
        /\ Cardinality(Pending) \in Nat
    BY <2>1, Sets
  <2>3. QED
    BY <1>0, <1>1, <2>2
<1>6. TypeOK'
  <2>1. /\ gen' \in 1 .. MaxGen[kind]' /\ starting' \subseteq 1 .. gen' /\ loops' \subseteq LoopRecords'
        /\ found' \in [AllNames -> Configs \cup {"none"}]
    BY <1>1 DEF Types, TypeOK
  <2>2. QED
    BY <1>1, <1>2, <1>4, <2>1 DEF Types, TypeOK, diskVars
<1>7. ASSUME NEW q \in Requests
      PROVE  /\ kind'[q] = "none" => pc'[q] = "done"
             /\ kind'[q] = "message" => pc'[q] \in {"idle", "resolved", "done"}
             /\ pc'[q] = "resolved" => kind'[q] = "message"
             /\ pc'[q] \in {"write", "write2"} => Loads_(loc'[q].old)
  <2>1. pc'[q] \in {"idle", "done"} /\ (pc'[q] = "done" \/ pc'[q] = pc[q]) /\ kind'[q] = kind[q]
    BY <1>1, <1>2
  <2>2. kind[q] = "none" => pc[q] = "done"
    BY DEF Types
  <2>3. QED
    BY <2>1, <2>2
<1>8. QED
  BY <1>1, <1>2, <1>3, <1>5, <1>6, <1>7 DEF Types, diskVars

LEMMA MainTypes ==
  ASSUME Types, Signal \/ CloseListener \/ Wait \/ Deadline \/ Exit \/ Crash \/ Start
  PROVE  Types'
<1>0. /\ faults \in Nat /\ starting \subseteq 1 .. gen /\ loops \subseteq LoopRecords
      /\ found \in [AllNames -> Configs \cup {"none"}] /\ late \in BOOLEAN
      /\ phase \in {"serving", "signalled", "draining", "exited", "down", "fatal"}
      /\ waiter \in {"none", "look", "wait", "back"}
      /\ inflight \in [count : Nat, closing : BOOLEAN, done : BOOLEAN]
      /\ gen \in 1 .. MaxGen[kind] /\ MaxGen[kind] \in Nat
  BY ReconfigureAssumption DEF Types, TypeOK
<1>1. CASE Signal \/ CloseListener \/ Deadline
  <2>1. /\ UNCHANGED <<diskVars, live, prices, gen, reqVars, found, inflight, waiter>>
        /\ starting' \subseteq starting /\ loops' \subseteq loops
        /\ phase' \in {"signalled", "draining"}
        /\ late' \in BOOLEAN /\ faults' \in Nat
    <3>1. CASE Signal
      BY <1>0, <3>1 DEF Signal
    <3>2. CASE CloseListener
      BY <1>0, <3>2 DEF CloseListener, regVars
    <3>3. CASE Deadline
      BY <1>0, <3>3 DEF Deadline, regVars
    <3>4. QED
      BY <1>1, <3>1, <3>2, <3>3
  <2>2. QED
    BY <1>0, <2>1, ApartTypes DEF Up
<1>2. CASE Wait
  <2>1. /\ UNCHANGED <<diskVars, regVars, reqVars, phase, late, faults>>
        /\ waiter' \in {"none", "look", "wait", "back"}
        /\ inflight' \in [count : Nat, closing : BOOLEAN, done : BOOLEAN]
        /\ inflight'.count = inflight.count
    BY <1>0, <1>2 DEF Wait, Announce, Look, Woken, Waits
  <2>2. QED
    BY <1>0, <2>1, ApartTypes DEF Up, regVars
<1>3. CASE Exit
  BY <1>0, <1>3, StopTypes DEF Exit
<1>4. CASE Crash
  BY <1>0, <1>4, StopTypes DEF Crash
<1>5. CASE Start
  <2>0. /\ UNCHANGED <<sameFS, file, bak, prev, lost, loops, found, inflight, waiter, reqVars, faults>>
        /\ late' = FALSE /\ Active = {} /\ phase \in {"down", "exited"}
        /\ gen + Cardinality({r \in Requests : pc[r] = "idle" /\ Admin(r)}) < MaxGen[kind]
    BY <1>5 DEF Start, Types, Up
  <2>1. CASE Loads_(file.text)
    <3>1. /\ phase' = "serving" /\ live' = file.text /\ prices' = file.text
          /\ gen' = gen + 1 /\ starting' = {gen + 1}
      BY <1>5, <2>1 DEF Start
    <3>2. live' \in Configs /\ prices' \in Configs
      BY <2>1, <3>1 DEF Loads_
    <3>3. Pending = {r \in Requests : pc[r] = "idle" /\ Admin(r)}
      BY <2>0 DEF Pending, BeforeSwap, Active
    <3>4. Pending' = Pending /\ Tracked' = Tracked /\ LoopRecords' = LoopRecords
      BY <2>0 DEF Pending, Tracked, Active, Admin, LoopRecords, reqVars
    <3>5. Pending \in SUBSET Requests
      BY DEF Pending
    <3>6. gen' + Cardinality(Pending') <= MaxGen[kind]' /\ gen' \in 1 .. MaxGen[kind]'
          /\ starting' \subseteq 1 .. gen'
      <4>1. Cardinality(Pending) \in Nat /\ kind' = kind
        BY <2>0, <3>5, Sets DEF reqVars
      <4>2. gen + Cardinality(Pending) < MaxGen[kind]
        BY <2>0, <3>3
      <4>3. QED
        BY <1>0, <3>1, <3>4, <4>1, <4>2
    <3>7. inflight'.count = Cardinality({q \in Active : Admin(q) /\ pc[q] \notin Leaving}')
      BY <2>0, <3>4 DEF Tracked, Types, TypeOK
    <3>8. TypeOK'
      BY <1>0, <2>0, <3>1, <3>2, <3>4, <3>6, <3>7 DEF Types, TypeOK, reqVars
    <3>9. hand' \in {"none", "new", "loaded"}
      BY <1>5, <2>1 DEF Start, HandLoaded, Types
    <3>10. QED
      BY <2>0, <3>1, <3>6, <3>8, <3>9 DEF Types, reqVars, Up
  <2>2. CASE ~Loads_(file.text)
    <3>1. UNCHANGED <<live, prices, gen, starting, hand>> /\ phase' = "fatal"
      BY <1>5, <2>2 DEF Start
    <3>2. ~Up
      BY <2>0 DEF Up
    <3>3. QED
      BY <1>0, <2>0, <3>1, <3>2, ApartTypes DEF diskVars
  <2>3. QED
    BY <2>1, <2>2
<1>6. QED
  BY <1>1, <1>2, <1>3, <1>4, <1>5

LEMMA HandTypes ==
  ASSUME Types, EditByHand
  PROVE  Types'
<1>1. /\ UNCHANGED <<sameFS, bak, prev, lost, regVars, procVars, kind, pc, loc, faults>>
      /\ hand' = "new" /\ kind \in Scripts /\ file.ino \in Nat
  BY DEF EditByHand, Types
<1>2. PICK text \in ByHand[kind] : file' = [ino |-> file.ino + 1, text |-> text]
  BY DEF EditByHand
<1>3. text \in Configs
  BY <1>1, <1>2, ReconfigureAssumption
<1>4. file' \in [ino : Nat, text : Texts] /\ file'.text \in Configs \cup {Torn}
  BY <1>1, <1>2, <1>3 DEF Texts
<1>5. overlap' \in BOOLEAN
  BY DEF EditByHand, Types
<1>6. /\ Tracked' = Tracked /\ Pending' = Pending /\ LoopRecords' = LoopRecords
      /\ Active' = Active /\ Up' = Up
  BY <1>1 DEF Tracked, Active, Pending, Admin, LoopRecords, Up, procVars
<1>7. inflight'.count = Cardinality({q \in Active : Admin(q) /\ pc[q] \notin Leaving}')
  BY <1>1, <1>6 DEF Tracked, Types, TypeOK, procVars
<1>8. TypeOK'
  BY <1>1, <1>4, <1>6, <1>7 DEF Types, TypeOK, regVars, procVars
<1>9. QED
  BY <1>1, <1>4, <1>5, <1>6, <1>8 DEF Types, regVars, procVars

LEMMA TypesStep == Types /\ [Next]_vars => Types'
<1> SUFFICES ASSUME Types, [Next]_vars PROVE Types'
  OBVIOUS
<1>1. ASSUME NEW r \in Requests, Begin(r) \/ Handler(r) PROVE Types'
  <2>1. Begin(r) \/ Leave(r) \/ FileStep(r)
    BY <1>1 DEF Handler, FileStep
  <2>2. QED
    BY <2>1, FileTypes, RequestTypes
<1>2. CASE UNCHANGED vars
  BY <1>2, ApartTypes DEF vars, diskVars, regVars, procVars, Types, TypeOK, Up
<1>3. QED
  BY <1>1, <1>2, ProbeTypes, MainTypes, HandTypes DEF Next

-----------------------------------------------------------------------------
(***************************************************************************)
(* The end of a shutdown.                                                  *)
(***************************************************************************)

\* Who waits has said so first.
WakeInv == (waiter # "none" => inflight.closing) /\ WakeNotLost

LEMMA WakeStep == Types /\ Types' /\ WakeInv /\ [Next]_vars => WakeInv'
<1> SUFFICES ASSUME Types, Types', WakeInv, [Next]_vars PROVE WakeInv'
  OBVIOUS
<1>0. /\ pc \in [Requests -> Places] /\ pc' \in [Requests -> Places]
      /\ inflight \in [count : Nat, closing : BOOLEAN, done : BOOLEAN]
      /\ waiter # "none" => inflight.closing
      /\ waiter = "wait" /\ inflight.count = 0 =>
           inflight.done \/ \E r \in Requests : pc[r] \in Leaving
  BY DEF Types, TypeOK, WakeInv, WakeNotLost
<1>1. ASSUME NEW r \in Requests, Begin(r) PROVE WakeInv'
  <2>1. /\ waiter' = waiter /\ pc' = [pc EXCEPT ![r] = pc'[r]] /\ pc[r] = "idle"
        /\ inflight' = inflight \/ inflight' = [inflight EXCEPT !.count = @ + 1]
    BY <1>1, Begins DEF Begin
  <2>2. \A q \in Requests : pc[q] \in Leaving => pc'[q] \in Leaving
    BY <1>0, <2>1 DEF Leaving
  <2>3. /\ inflight'.closing = inflight.closing /\ inflight'.done = inflight.done
        /\ inflight'.count = 0 => inflight.count = 0
    BY <1>0, <2>1
  <2>4. QED
    BY <1>0, <2>1, <2>2, <2>3 DEF WakeInv, WakeNotLost
<1>2. ASSUME NEW r \in Requests, FileStep(r) PROVE WakeInv'
  <2>1. /\ waiter' = waiter /\ inflight' = inflight /\ pc' = [pc EXCEPT ![r] = pc'[r]]
        /\ pc[r] \in FilePlaces
    BY <1>2, Moves
  <2>2. \A q \in Requests : pc[q] \in Leaving => pc'[q] \in Leaving
    BY <1>0, <2>1 DEF Leaving, FilePlaces
  <2>3. QED
    BY <1>0, <2>1, <2>2 DEF WakeInv, WakeNotLost
<1>3. ASSUME NEW r \in Requests, Leave(r) PROVE WakeInv'
  <2>0. waiter' = waiter /\ pc' = [pc EXCEPT ![r] = pc'[r]]
    BY <1>3, Ends
  <2>1. CASE pc[r] = "resolved"
    <3>1. inflight' = inflight
      BY <1>3, <2>1, Ends
    <3>2. \A q \in Requests : pc[q] \in Leaving => pc'[q] \in Leaving
      BY <1>0, <2>0, <2>1 DEF Leaving
    <3>3. QED
      BY <1>0, <2>0, <3>1, <3>2 DEF WakeInv, WakeNotLost
  <2>2. CASE pc[r] = "end"
    <3>1. /\ pc'[r] = (IF inflight.count = 1 THEN "wake" ELSE "done")
          /\ inflight' = [inflight EXCEPT !.count = @ - 1]
      BY <1>3, <2>2, Ends
    <3>2. /\ inflight'.count = inflight.count - 1 /\ inflight'.closing = inflight.closing
      BY <1>0, <3>1
    <3>3. inflight'.count = 0 => pc'[r] \in Leaving
      BY <1>0, <3>1, <3>2 DEF Leaving
    <3>4. QED
      BY <1>0, <2>0, <3>2, <3>3 DEF WakeInv, WakeNotLost
  <2>3. CASE pc[r] = "wake"
    <3>1. /\ inflight' = inflight
          /\ pc'[r] = (IF inflight.closing /\ ~inflight.done THEN "close" ELSE "done")
      BY <1>3, <2>3, Ends
    <3>2. waiter = "wait" => inflight'.done \/ pc'[r] \in Leaving
      BY <1>0, <3>1 DEF Leaving
    <3>3. QED
      BY <1>0, <2>0, <3>1, <3>2 DEF WakeInv, WakeNotLost
  <2>4. CASE pc[r] = "close"
    <3>1. inflight' = [inflight EXCEPT !.done = TRUE]
      BY <1>3, <2>4, Ends
    <3>2. inflight'.done /\ inflight'.closing = inflight.closing
      BY <1>0, <3>1
    <3>3. QED
      BY <1>0, <2>0, <3>2 DEF WakeInv, WakeNotLost
  <2>5. QED
    BY <1>3, <2>1, <2>2, <2>3, <2>4, Ends
<1>4. ASSUME UNCHANGED <<waiter, inflight, pc>> PROVE WakeInv'
  BY <1>0, <1>4 DEF WakeInv, WakeNotLost
<1>5. CASE \/ \E ctx \in starting : RunDiscovery(ctx)
           \/ \E l \in loops : Answer(l, TRUE) \/ Answer(l, FALSE) \/ TickLoop(l) \/ StopLoop(l)
           \/ Signal \/ CloseListener \/ Deadline \/ Start \/ EditByHand \/ UNCHANGED vars
  BY <1>4, <1>5 DEF RunDiscovery, Answer, TickLoop, StopLoop, Signal, CloseListener, Deadline,
                    Start, EditByHand, vars, reqVars, procVars
<1>6. CASE Wait
  <2>1. CASE Announce
    <3>1. waiter' = "look" /\ inflight' = [inflight EXCEPT !.closing = TRUE]
      BY <2>1 DEF Announce, Waits
    <3>2. QED
      BY <1>0, <3>1 DEF WakeInv, WakeNotLost
  <2>2. CASE Look
    <3>1. /\ waiter = "look" /\ waiter' = (IF inflight.count = 0 THEN "back" ELSE "wait")
          /\ inflight' = inflight
      BY <2>2 DEF Look, Waits
    <3>2. QED
      BY <1>0, <3>1 DEF WakeInv, WakeNotLost
  <2>3. CASE Woken
    <3>1. waiter = "wait" /\ waiter' = "back" /\ inflight' = inflight
      BY <2>3 DEF Woken, Waits
    <3>2. QED
      BY <1>0, <3>1 DEF WakeInv, WakeNotLost
  <2>4. QED
    BY <1>6, <2>1, <2>2, <2>3 DEF Wait
<1>7. CASE Exit \/ Crash
  BY <1>7 DEF Exit, Crash, Stop, WakeInv, WakeNotLost
<1>8. QED
  BY <1>1, <1>2, <1>3, <1>5, <1>6, <1>7 DEF Next, Handler, FileStep

-----------------------------------------------------------------------------
(***************************************************************************)
(* The two files, as long as admin requests come one at a time.            *)
(***************************************************************************)

Alone == ~overlap => \A q, r \in Active : Admin(q) /\ Admin(r) => q = r

\* A deadline that has passed and a file that could not be written are two mishaps.
Mishaps == (late \/ lost => faults >= 1) /\ (late /\ lost => faults >= 2)

Agree  == Loads_(live) /\ prices = live /\ (live = file.text \/ hand = "new")
Backed == IF sameFS THEN bak = prev ELSE hand = "none" => bak \in {prev, file.text}

\* What an admin request has done to them so far, while nothing has failed.
SavedOf(r) ==
  /\ pc[r] \in {"check", "backup", "backup2", "backup3", "rename", "read", "read2", "write",
                "end", "wake", "close"} => Agree
  /\ pc[r] \in {"check", "backup", "backup2", "read", "read2", "write", "reload", "swap",
                "prices", "end", "wake", "close"} => Backed
  /\ pc[r] \in {"backup", "backup2", "backup3", "rename"} => Loads_(loc[r].new)
  /\ pc[r] \in {"backup2", "backup3", "rename", "read2", "write"} => loc[r].cur = file.text
  /\ pc[r] \in {"backup3", "swapBak2"} => bak = Torn
  /\ pc[r] = "rename" => bak = file.text
  /\ pc[r] = "write2" => file.text = Torn /\ loc[r].ino = file.ino
  /\ pc[r] \in {"swapBak", "swapBak2"} => Loads_(file.text) /\ prev = loc[r].cur
  /\ pc[r] = "reload" => Agree \/ Loads_(file.text)
  /\ pc[r] \in {"swap", "prices"} => Loads_(file.text)
  /\ pc[r] \in {"swap", "prices"} => loc[r].new = file.text
  /\ pc[r] = "prices" => live = file.text

Resting == \A r \in Requests : Admin(r) => pc[r] \in {"idle", "done"}

SavedInv ==
  ~overlap /\ faults = 0 =>
    /\ Resting => Agree /\ Backed
    /\ \A r \in Requests : Admin(r) => SavedOf(r)

\* And what it has left after one mishap, the file never edited by hand: once the
\* file itself could not be written, there are moments when neither loads, but then
\* a process that died would be the second.
Safe == Loads_(file.text) \/ Loads_(bak)

RecoverOf(r) ==
  /\ pc[r] \in {"backup", "backup2", "backup3", "rename"} => Loads_(loc[r].new)
  /\ pc[r] \in {"write", "write2"} => bak = loc[r].old
  /\ pc[r] \in {"read2", "write", "write2"} => lost \/ Loads_(loc[r].cur)
  /\ pc[r] = "write2" => file.text = Torn /\ loc[r].ino = file.ino
  /\ pc[r] \in {"swapBak", "swapBak2"} => Loads_(file.text) \/ Loads_(loc[r].cur)
  /\ pc[r] = "swapBak2" => bak = Torn

RecoverInv ==
  ~overlap /\ hand = "none" /\ faults <= 1 /\ (sameFS \/ ~lost) =>
    /\ Safe \/ (lost /\ \E r \in Requests : pc[r] \in {"backup3", "rename", "swapBak2"})
    /\ Up => lost \/ Loads_(file.text) \/ \E r \in Requests : pc[r] = "write2"
    /\ \A r \in Requests : RecoverOf(r)

LEMMA AloneStep == Types /\ Types' /\ Alone /\ [Next]_vars => Alone'
<1> SUFFICES ASSUME Types, Types', Alone, [Next]_vars PROVE Alone'
  OBVIOUS
<1>0. pc \in [Requests -> Places]
  BY DEF Types, TypeOK
<1>1. ASSUME NEW r \in Requests, Begin(r) PROVE Alone'
  <2>1. pc' = [pc EXCEPT ![r] = pc'[r]] /\ kind' = kind
    BY <1>1, Begins DEF Begin
  <2>2. overlap' = (overlap \/ (Admin(r) /\ \E q \in Active : Admin(q)))
    BY <1>1 DEF Begin
  <2>3. \A q \in Requests : (Admin(q))' <=> Admin(q)
    BY <2>1 DEF Admin
  <2>4. \A q \in Requests \ {r} : q \in Active' <=> q \in Active
    BY <1>0, <2>1 DEF Active
  <2>5. \A q \in Active' : q \in Requests
    BY DEF Active
  <2>6. QED
    BY <2>2, <2>3, <2>4, <2>5 DEF Alone
<1>2. ASSUME NEW r \in Requests, Handler(r) PROVE Alone'
  <2>1. /\ pc' = [pc EXCEPT ![r] = pc'[r]] /\ kind' = kind /\ overlap' = overlap
        /\ pc[r] \notin {"idle", "done"}
    BY <1>2, Moves, Ends DEF Handler, FileStep, FilePlaces
  <2>2. Active' \subseteq Active
    BY <1>0, <2>1 DEF Active
  <2>3. QED
    BY <2>1, <2>2 DEF Alone, Admin
<1>3. CASE Exit \/ Crash
  <2>1. Active' = {}
    BY <1>3 DEF Exit, Crash, Stop, Active
  <2>2. QED
    BY <2>1 DEF Alone
<1>4. CASE \/ \E ctx \in starting : RunDiscovery(ctx)
           \/ \E l \in loops : Answer(l, TRUE) \/ Answer(l, FALSE) \/ TickLoop(l) \/ StopLoop(l)
           \/ Signal \/ CloseListener \/ Wait \/ Deadline \/ Start \/ UNCHANGED vars
  <2>1. UNCHANGED <<pc, kind, overlap>>
    BY <1>4 DEF RunDiscovery, Answer, TickLoop, StopLoop, Signal, CloseListener, Wait, Announce,
                Look, Woken, Waits, Deadline, Start, vars, reqVars
  <2>2. QED
    BY <2>1 DEF Alone, Active, Admin
<1>5. CASE EditByHand
  <2>1. UNCHANGED <<pc, kind>> /\ (overlap => overlap')
    BY <1>5 DEF EditByHand
  <2>2. QED
    BY <2>1 DEF Alone, Active, Admin
<1>6. QED
  BY <1>1, <1>2, <1>3, <1>4, <1>5 DEF Next

\* Whoever steps on the disk is the only admin request that is not idle or done.
LEMMA OnlyOne ==
  ASSUME Types, Alone, ~overlap, NEW r \in Requests, FileStep(r)
  PROVE  \A q \in Requests \ {r} :
           /\ pc'[q] = pc[q]
           /\ Admin(q) => pc[q] \in {"idle", "done"}
           /\ ~Admin(q) => pc[q] \in {"idle", "resolved", "done"}
<1>1. pc[r] \in FilePlaces /\ Admin(r) /\ pc' = [pc EXCEPT ![r] = pc'[r]]
  BY Moves
<1>2. r \in Active
  BY <1>1 DEF Active, FilePlaces
<1>3. pc \in [Requests -> Places]
  BY DEF Types, TypeOK
<1>4. QED
  BY <1>1, <1>2, <1>3 DEF Alone, Active, Types, Admin

LEMMA MishapsStep == Types /\ Types' /\ Mishaps /\ [Next]_vars => Mishaps' /\ faults' >= faults
<1> SUFFICES ASSUME Types, Types', Mishaps, [Next]_vars PROVE Mishaps' /\ faults' >= faults
  OBVIOUS
<1>0. faults \in Nat /\ faults' \in Nat /\ late \in BOOLEAN /\ lost \in BOOLEAN
  BY DEF Types
<1>1. ASSUME NEW r \in Requests, Begin(r) \/ Leave(r) PROVE Mishaps' /\ faults' >= faults
  <2>1. UNCHANGED <<late, lost, faults>>
    BY <1>1, Ends DEF Begin, diskVars
  <2>2. QED
    BY <1>0, <2>1 DEF Mishaps
<1>2. ASSUME NEW r \in Requests, FileStep(r) PROVE Mishaps' /\ faults' >= faults
  <2>1. late' = late
    BY <1>2, Moves
  <2>2. CASE WriteFile(r)
    <3>1. \/ faults' = faults /\ lost' = lost
          \/ faults' = faults + 1
      BY <1>0, <2>2 DEF WriteFile, MayFail
    <3>2. QED
      BY <1>0, <2>1, <3>1 DEF Mishaps
  <2>3. CASE ~WriteFile(r)
    <3>1. lost' = lost
      BY <1>2, <2>3
      DEF FileStep, Editor, Rollback, Reload, CheckEdit, ReadForBackup, BackUp, Rename, RenameTo,
          ReadCurrent, ReadBackup, TruncateFile, KeepCurrent, Read, Swap, StorePrices,
          TruncateBak, WriteBak, diskVars
    <3>2. faults' \in {faults, faults + 1}
      BY <1>2, <2>3
      DEF FileStep, Editor, Rollback, Reload, CheckEdit, ReadForBackup, BackUp, Rename, RenameTo,
          ReadCurrent, ReadBackup, TruncateFile, KeepCurrent, Read, Swap, StorePrices,
          TruncateBak, WriteBak, MayFail, Quietly
    <3>3. QED
      BY <1>0, <2>1, <3>1, <3>2 DEF Mishaps
  <2>4. QED
    BY <2>2, <2>3
<1>3. CASE \/ \E ctx \in starting : RunDiscovery(ctx)
           \/ \E l \in loops : Answer(l, TRUE) \/ Answer(l, FALSE) \/ TickLoop(l) \/ StopLoop(l)
           \/ Signal \/ CloseListener \/ Wait \/ EditByHand \/ UNCHANGED vars
  <2>1. UNCHANGED <<late, lost, faults>>
    BY <1>3 DEF RunDiscovery, Answer, TickLoop, StopLoop, Signal, CloseListener, Wait, Announce,
                Look, Woken, Waits, EditByHand, vars, diskVars, procVars
  <2>2. QED
    BY <1>0, <2>1 DEF Mishaps
<1>4. CASE Deadline
  <2>1. late' = TRUE /\ late = FALSE /\ faults' = faults + 1 /\ lost' = lost
    BY <1>0, <1>4 DEF Deadline, diskVars
  <2>2. QED
    BY <1>0, <2>1 DEF Mishaps
<1>5. CASE Exit \/ Crash
  <2>1. late' = late /\ lost' = lost /\ faults' \in {faults, faults + 1}
    BY <1>5 DEF Exit, Crash, Stop, diskVars
  <2>2. QED
    BY <1>0, <2>1 DEF Mishaps
<1>6. CASE Start
  <2>1. late' = FALSE /\ lost' = lost /\ faults' = faults
    BY <1>6 DEF Start, diskVars
  <2>2. QED
    BY <1>0, <2>1 DEF Mishaps
<1>7. QED
  BY <1>1, <1>2, <1>3, <1>4, <1>5, <1>6 DEF Next, Handler, FileStep

\* A step of the only admin request on the disk, when nothing has failed.
LEMMA SavedFile ==
  ASSUME Types, Types', ~overlap, faults = 0, faults' = 0,
         NEW r \in Requests, FileStep(r), SavedOf(r)
  PROVE  SavedOf(r)'
<1>0. /\ Disk /\ Disk' /\ pc \in [Requests -> Places] /\ Admin(r)
      /\ pc' = [pc EXCEPT ![r] = pc'[r]] /\ pc[r] \in FilePlaces
  BY Moves DEF Types, TypeOK, Disk, Texts
<1>1. /\ loc \in [Requests -> Locs] /\ file \in [ino : Nat, text : Texts]
      /\ loc' \in [Requests -> Locs] /\ file' \in [ino : Nat, text : Texts]
  BY <1>0 DEF Disk
<1>2. ASSUME NEW from, NEW to, TruncateBak(r, from, to)
      PROVE  /\ pc[r] = from /\ pc'[r] = to /\ bak' = Torn
             /\ UNCHANGED <<sameFS, file, hand, prev, loc, live, prices>>
  BY <1>0, <1>2 DEF TruncateBak, Step, Goto, Quietly, regVars
<1>3. ASSUME NEW from, NEW to, WriteBak(r, from, to, loc[r].cur), bak = Torn
      PROVE  /\ pc[r] = from /\ pc'[r] = to /\ bak' = loc[r].cur
             /\ UNCHANGED <<sameFS, file, hand, prev, loc, live, prices>>
  <2>1. PICK ok \in BOOLEAN :
          MayFail(ok) /\ bak' \in IF ok THEN Written(bak, loc[r].cur) ELSE {bak}
    BY <1>3 DEF WriteBak
  <2>2. ok = TRUE
    BY <2>1 DEF MayFail
  <2>3. bak' = loc[r].cur
    BY <1>3, <2>1, <2>2 DEF Written
  <2>4. QED
    BY <1>0, <1>3, <2>3 DEF WriteBak, Step, Goto, regVars
<1>4. CASE CheckEdit(r)
  <2>1. /\ pc[r] = "check" /\ pc'[r] = (IF Loads_(loc[r].new) THEN "backup" ELSE "end")
        /\ UNCHANGED <<sameFS, file, bak, hand, prev, loc, live, prices>>
    BY <1>0, <1>4 DEF CheckEdit, Goto, Quietly, regVars, diskVars
  <2>2. QED
    BY <2>1 DEF SavedOf, Agree, Backed
<1>5. CASE ReadForBackup(r)
  <2>1. /\ pc[r] = "backup" /\ pc'[r] = "backup2" /\ loc' = [loc EXCEPT ![r].cur = file.text]
        /\ UNCHANGED <<sameFS, file, bak, hand, prev, live, prices>>
    BY <1>0, <1>5 DEF ReadForBackup, Step, Remember, Goto, Quietly, regVars, diskVars
  <2>2. loc'[r].cur = file.text /\ loc'[r].new = loc[r].new
    BY <1>1, <2>1 DEF Locs
  <2>3. QED
    BY <2>1, <2>2 DEF SavedOf, Agree, Backed
<1>6. CASE BackUp(r)
  <2>1. CASE TruncateBak(r, "backup2", "backup3")
    BY <1>2, <2>1 DEF SavedOf, Agree
  <2>2. CASE WriteBak(r, "backup3", "rename", loc[r].cur)
    <3>1. pc[r] = "backup3"
      BY <2>2 DEF WriteBak, Step
    <3>2. bak = Torn
      BY <3>1 DEF SavedOf
    <3>3. QED
      BY <1>3, <2>2, <3>2 DEF SavedOf, Agree
  <2>3. QED
    BY <1>6, <2>1, <2>2 DEF BackUp
<1>7. CASE Rename(r)
  <2>1. CASE sameFS
    <3>1. /\ pc[r] = "rename" /\ pc'[r] = "reload" /\ prev' = file.text
          /\ file' = [ino |-> file.ino + 1, text |-> loc[r].new]
          /\ UNCHANGED <<sameFS, bak, hand, loc, live, prices>>
      BY <1>0, <1>7, <2>1 DEF Rename, RenameTo, Goto, Quietly, regVars
    <3>2. file'.text = loc[r].new
      BY <3>1
    <3>3. QED
      BY <2>1, <3>1, <3>2 DEF SavedOf, Backed
  <2>2. CASE ~sameFS
    <3>1. /\ pc[r] = "rename" /\ pc'[r] = "end"
          /\ UNCHANGED <<sameFS, file, prev, bak, hand, loc, live, prices>>
      BY <1>0, <1>7, <2>2 DEF Rename, RenameTo, Goto, Quietly, regVars
    <3>2. QED
      BY <2>2, <3>1 DEF SavedOf, Agree, Backed
  <2>3. QED
    BY <2>1, <2>2
<1>8. CASE ReadCurrent(r)
  <2>1. /\ pc[r] = "read" /\ pc'[r] \in {"end", "read2"}
        /\ loc' = [loc EXCEPT ![r].cur = file.text]
        /\ UNCHANGED <<sameFS, file, bak, hand, prev, live, prices>>
    BY <1>0, <1>8 DEF ReadCurrent, Remember, Goto, Quietly, regVars, diskVars
  <2>2. loc'[r].cur = file.text
    BY <1>1, <2>1 DEF Locs
  <2>3. QED
    BY <2>1, <2>2 DEF SavedOf, Agree, Backed
<1>9. CASE ReadBackup(r)
  <2>1. /\ pc[r] = "read2" /\ pc'[r] \in {"end", "write"}
        /\ loc' = [loc EXCEPT ![r].old = bak]
        /\ UNCHANGED <<sameFS, file, bak, hand, prev, live, prices>>
    BY <1>0, <1>9 DEF ReadBackup, Remember, Goto, Quietly, regVars, diskVars
  <2>2. loc'[r].cur = loc[r].cur
    BY <1>1, <2>1 DEF Locs
  <2>3. Agree /\ loc[r].cur = file.text
    BY <2>1 DEF SavedOf
  <2>4. Backed \/ pc'[r] = "end"
    BY <2>1 DEF SavedOf
  <2>5. QED
    BY <2>1, <2>2, <2>3, <2>4 DEF SavedOf, Agree, Backed
<1>10. CASE TruncateFile(r)
  <2>1. /\ pc[r] = "write" /\ pc'[r] = "write2" /\ loc' = [loc EXCEPT ![r].ino = file.ino]
        /\ file' = [file EXCEPT !.text = Torn]
    BY <1>0, <1>10 DEF TruncateFile, Step, Remember, Goto
  <2>2. loc'[r].ino = file.ino /\ file'.text = Torn /\ file'.ino = file.ino
    BY <1>1, <2>1 DEF Locs
  <2>3. QED
    BY <2>1, <2>2 DEF SavedOf
<1>11. CASE WriteFile(r)
  <2>1. /\ pc[r] = "write2" /\ pc'[r] = "swapBak" /\ prev' = loc[r].cur /\ loc' = loc
    BY <1>0, <1>11 DEF WriteFile, Step, Goto
  <2>2. file.text = Torn /\ loc[r].ino = file.ino /\ Loads_(loc[r].old)
    BY <1>0, <2>1 DEF SavedOf, Types
  <2>3. \E t \in Written(file.text, loc[r].old) : file' = [file EXCEPT !.text = t]
    BY <1>11, <2>2 DEF WriteFile, MayFail
  <2>4. file' = [file EXCEPT !.text = loc[r].old]
    BY <2>2, <2>3 DEF Written
  <2>5. file'.text = loc[r].old
    BY <1>1, <2>4
  <2>6. QED
    BY <2>1, <2>2, <2>5 DEF SavedOf
<1>12. CASE KeepCurrent(r)
  <2>1. CASE TruncateBak(r, "swapBak", "swapBak2")
    BY <1>2, <2>1 DEF SavedOf
  <2>2. CASE WriteBak(r, "swapBak2", "reload", loc[r].cur)
    <3>1. pc[r] = "swapBak2"
      BY <2>2 DEF WriteBak, Step
    <3>2. bak = Torn
      BY <3>1 DEF SavedOf
    <3>3. QED
      BY <1>3, <2>2, <3>2 DEF SavedOf, Backed
  <2>3. QED
    BY <1>12, <2>1, <2>2 DEF KeepCurrent
<1>13. CASE Read(r)
  <2>1. /\ pc[r] = "reload" /\ UNCHANGED <<sameFS, file, bak, prev, live, prices>>
        /\ hand' = "none" => hand = "none"
    BY <1>0, <1>13 DEF Read, HandLoaded, Goto, Quietly, regVars
  <2>2. (Agree \/ Loads_(file.text)) /\ Backed
    BY <2>1 DEF SavedOf
  <2>3. Backed'
    BY <2>1, <2>2 DEF Backed
  <2>4. CASE Loads_(file.text)
    <3>1. pc'[r] = "swap" /\ loc' = [loc EXCEPT ![r].new = file.text]
      BY <1>0, <1>13, <2>4 DEF Read, Goto, Remember
    <3>2. loc'[r].new = file.text
      BY <1>1, <3>1 DEF Locs
    <3>3. QED
      BY <2>1, <2>3, <2>4, <3>1, <3>2 DEF SavedOf
  <2>5. CASE ~Loads_(file.text)
    <3>1. pc'[r] = "end" /\ hand' = hand
      BY <1>0, <1>13, <2>5 DEF Read, Goto
    <3>2. Agree'
      BY <2>1, <2>2, <2>5, <3>1 DEF Agree
    <3>3. QED
      BY <2>3, <3>1, <3>2 DEF SavedOf
  <2>6. QED
    BY <2>4, <2>5
<1>14. CASE Swap(r)
  <2>1. /\ pc[r] = "swap" /\ pc'[r] = "prices" /\ live' = loc[r].new
        /\ UNCHANGED <<sameFS, file, bak, hand, prev, loc, prices>>
    BY <1>0, <1>14 DEF Swap, Step, Goto, diskVars
  <2>2. QED
    BY <2>1 DEF SavedOf, Backed
<1>15. CASE StorePrices(r)
  <2>1. /\ pc[r] = "prices" /\ pc'[r] = "end" /\ prices' = loc[r].new
        /\ UNCHANGED <<sameFS, file, bak, hand, prev, loc, live>>
    BY <1>0, <1>15 DEF StorePrices, Step, Goto, diskVars
  <2>2. QED
    BY <2>1 DEF SavedOf, Backed, Agree
<1>16. QED
  BY <1>4, <1>5, <1>6, <1>7, <1>8, <1>9, <1>10, <1>11, <1>12, <1>13, <1>14, <1>15
  DEF FileStep, Editor, Rollback, Reload

LEMMA SavedStep ==
  Types /\ Types' /\ Alone /\ Mishaps /\ SavedInv /\ [Next]_vars => SavedInv'
<1> SUFFICES ASSUME Types, Types', Alone, Mishaps, SavedInv, [Next]_vars, ~overlap', faults' = 0
             PROVE  /\ Resting' => Agree' /\ Backed'
                    /\ \A r \in Requests : (Admin(r))' => SavedOf(r)'
  BY DEF SavedInv
<1>0. /\ faults = 0 /\ pc \in [Requests -> Places] /\ pc' \in [Requests -> Places]
      /\ late \in BOOLEAN /\ lost \in BOOLEAN
  BY MishapsStep DEF Types, TypeOK
<1>1. ~late
  BY <1>0 DEF Mishaps
<1>2. ~overlap => /\ Resting => Agree /\ Backed
                  /\ \A r \in Requests : Admin(r) => SavedOf(r)
  BY <1>0 DEF SavedInv
<1>3. ASSUME NEW q \in Requests, pc'[q] \in {"idle", "resolved", "done"} PROVE SavedOf(q)'
  BY <1>3 DEF SavedOf
<1>4. ASSUME NEW r \in Requests, FileStep(r)
      PROVE  /\ Resting' => Agree' /\ Backed'
             /\ \A q \in Requests : (Admin(q))' => SavedOf(q)'
  <2>1. /\ ~overlap /\ Admin(r) /\ pc'[r] \in FilePlaces \cup {"end"} /\ kind' = kind
    BY <1>4, Moves
  <2>2. SavedOf(r)'
    BY <1>0, <1>2, <1>4, <2>1, SavedFile
  <2>3. \A q \in Requests \ {r} : pc'[q] \in {"idle", "resolved", "done"}
    BY <1>4, <2>1, OnlyOne
  <2>4. ~Resting'
    BY <2>1 DEF Resting, Admin, FilePlaces
  <2>5. QED
    BY <1>3, <2>2, <2>3, <2>4
<1>5. ASSUME NEW r \in Requests, Begin(r)
      PROVE  /\ Resting' => Agree' /\ Backed'
             /\ \A q \in Requests : (Admin(q))' => SavedOf(q)'
  <2>1. /\ UNCHANGED <<diskVars, regVars, kind>> /\ pc[r] = "idle"
        /\ pc' = [pc EXCEPT ![r] = pc'[r]]
        /\ Admin(r) => pc'[r] \in {"check", "read", "reload"}
        /\ ~Admin(r) => pc'[r] = "resolved"
        /\ \A q \in Requests \ {r} : loc'[q] = loc[q]
        /\ overlap' = (overlap \/ (Admin(r) /\ \E q \in Active : Admin(q)))
    BY <1>5, Begins DEF Begin
  <2>2. UNCHANGED <<sameFS, file, bak, hand, prev, live, prices>>
    BY <2>1 DEF diskVars, regVars
  <2>3. ~overlap /\ (Admin(r) => \A q \in Active : ~Admin(q))
    BY <2>1
  <2>4. \A q \in Requests \ {r} : Admin(q) => SavedOf(q)'
    <3>1. TAKE q \in Requests \ {r}
    <3>2. pc'[q] = pc[q] /\ loc'[q] = loc[q]
      BY <1>0, <2>1
    <3>3. HAVE Admin(q)
    <3>4. SavedOf(q)
      BY <1>2, <2>3, <3>3
    <3>5. QED
      BY <2>2, <3>2, <3>4 DEF SavedOf, Agree, Backed
  <2>5. CASE Admin(r)
    <3>1. Resting
      BY <1>0, <2>3, <2>5 DEF Resting, Active
    <3>2. Agree /\ Backed
      BY <1>2, <2>3, <3>1
    <3>3. SavedOf(r)'
      BY <2>1, <2>2, <2>5, <3>2 DEF SavedOf, Agree, Backed
    <3>4. QED
      BY <2>1, <2>2, <2>4, <3>2, <3>3 DEF Admin, Agree, Backed
  <2>6. CASE ~Admin(r)
    <3>1. Resting' => Resting
      BY <1>0, <2>1, <2>6 DEF Resting, Admin
    <3>2. QED
      BY <1>2, <2>1, <2>2, <2>3, <2>4, <2>6, <3>1 DEF Admin, Agree, Backed
  <2>7. QED
    BY <2>5, <2>6
<1>6. ASSUME NEW r \in Requests, Leave(r)
      PROVE  /\ Resting' => Agree' /\ Backed'
             /\ \A q \in Requests : (Admin(q))' => SavedOf(q)'
  <2>1. /\ UNCHANGED <<diskVars, regVars, kind, overlap>> /\ pc' = [pc EXCEPT ![r] = pc'[r]]
        /\ loc' = [loc EXCEPT ![r] = Locals]
        /\ pc[r] \in {"resolved", "end", "wake", "close"} /\ pc'[r] \in {"wake", "close", "done"}
    BY <1>6, Ends
  <2>2. UNCHANGED <<sameFS, file, bak, hand, prev, live, prices>> /\ ~overlap
    BY <2>1 DEF diskVars, regVars
  <2>3. \A q \in Requests \ {r} : pc'[q] = pc[q] /\ loc'[q] = loc[q]
    BY <1>0, <2>1 DEF Types
  <2>4. \A q \in Requests \ {r} : Admin(q) => SavedOf(q)'
    <3>1. TAKE q \in Requests \ {r}
    <3>2. HAVE Admin(q)
    <3>3. SavedOf(q) /\ pc'[q] = pc[q] /\ loc'[q] = loc[q]
      BY <1>2, <2>2, <2>3, <3>2
    <3>4. QED
      BY <2>2, <3>3 DEF SavedOf, Agree, Backed
  <2>5. CASE Admin(r)
    <3>1. pc[r] \in {"end", "wake", "close"} /\ SavedOf(r)
      BY <1>2, <2>1, <2>2, <2>5 DEF Types, Admin
    <3>2. Agree /\ Backed
      BY <3>1 DEF SavedOf
    <3>3. SavedOf(r)'
      BY <2>1, <2>2, <3>2 DEF SavedOf, Agree, Backed
    <3>4. QED
      BY <2>1, <2>2, <2>4, <3>2, <3>3 DEF Admin, Agree, Backed
  <2>6. CASE ~Admin(r)
    <3>1. Resting' => Resting
      BY <1>0, <2>1, <2>3, <2>6 DEF Resting, Admin
    <3>2. QED
      BY <1>2, <2>1, <2>2, <2>4, <2>6, <3>1 DEF Admin, Agree, Backed
  <2>7. QED
    BY <2>5, <2>6
<1>7. CASE \/ \E ctx \in starting : RunDiscovery(ctx)
           \/ \E l \in loops : Answer(l, TRUE) \/ Answer(l, FALSE) \/ TickLoop(l) \/ StopLoop(l)
           \/ Signal \/ CloseListener \/ Wait \/ Deadline \/ UNCHANGED vars
  <2>1. UNCHANGED <<diskVars, live, prices, reqVars>>
    BY <1>7 DEF RunDiscovery, Answer, TickLoop, StopLoop, Signal, CloseListener, Wait, Announce,
                Look, Woken, Waits, Deadline, vars, regVars
  <2>2. UNCHANGED <<sameFS, file, bak, hand, prev, live, prices, pc, loc, kind, overlap>>
    BY <2>1 DEF diskVars, reqVars
  <2>3. QED
    BY <1>2, <2>2 DEF Resting, Admin, SavedOf, Agree, Backed
<1>8. CASE Crash
  BY <1>0, <1>8 DEF Crash
<1>9. CASE Exit
  <2>1. /\ Active = {} /\ Stop("exited")
    BY <1>1, <1>9 DEF Exit
  <2>2. /\ UNCHANGED <<sameFS, file, bak, hand, prev, live, prices, kind, overlap>>
        /\ \A q \in Requests : pc'[q] = pc[q] /\ pc[q] \in {"idle", "done"}
    BY <1>0, <2>1 DEF Stop, Active, diskVars
  <2>3. Agree /\ Backed
    BY <1>2, <2>2 DEF Resting
  <2>4. QED
    BY <1>3, <2>2, <2>3 DEF Agree, Backed
<1>10. CASE Start
  <2>1. /\ UNCHANGED <<sameFS, file, bak, prev, reqVars>> /\ phase \in {"down", "exited"}
        /\ hand' = "none" => hand = "none"
        /\ IF Loads_(file.text) THEN live' = file.text /\ prices' = file.text
           ELSE UNCHANGED <<live, prices, hand>>
    BY <1>10 DEF Start, HandLoaded
  <2>2. UNCHANGED <<sameFS, file, bak, prev, pc, loc, kind, overlap>>
    BY <2>1 DEF reqVars
  <2>3. Active = {}
    BY <2>1 DEF Types, Up
  <2>4. \A q \in Requests : pc'[q] = pc[q] /\ pc[q] \in {"idle", "done"}
    BY <2>2, <2>3 DEF Active
  <2>5. Agree /\ Backed
    BY <1>2, <2>2, <2>4 DEF Resting
  <2>6. Agree'
    BY <2>1, <2>2, <2>5 DEF Agree
  <2>7. Backed'
    BY <2>1, <2>2, <2>5 DEF Backed
  <2>8. QED
    BY <1>3, <2>4, <2>6, <2>7
<1>11. CASE EditByHand
  <2>1. /\ UNCHANGED <<sameFS, bak, prev, live, prices, pc, kind>> /\ hand' = "new"
        /\ overlap' = (overlap \/ \E q \in Active : Admin(q))
    BY <1>11 DEF EditByHand, regVars
  <2>2. ~overlap /\ \A q \in Active : ~Admin(q)
    BY <2>1
  <2>3. Resting
    BY <1>0, <2>2 DEF Resting, Active
  <2>4. Agree /\ Backed
    BY <1>2, <2>2, <2>3
  <2>5. Agree'
    BY <2>1, <2>4 DEF Agree
  <2>6. Backed'
    BY <2>1, <2>4 DEF Backed
  <2>7. \A q \in Requests : (Admin(q))' => pc'[q] \in {"idle", "done"}
    BY <2>1, <2>3 DEF Resting, Admin
  <2>8. QED
    BY <1>3, <2>5, <2>6, <2>7
<1>12. QED
  BY <1>4, <1>5, <1>6, <1>7, <1>8, <1>9, <1>10, <1>11 DEF Next, Handler, FileStep

\* The same after at most one mishap, of the request r that is under way.
RecoverAt(r) ==
  /\ Safe \/ (lost /\ pc[r] \in {"backup3", "rename", "swapBak2"})
  /\ lost \/ Loads_(file.text) \/ pc[r] = "write2"
  /\ RecoverOf(r)

LEMMA RecoverFile ==
  ASSUME Types, Types', Mishaps, faults \in {0, 1}, faults' \in {0, 1}, sameFS \/ ~lost,
         NEW r \in Requests, FileStep(r), RecoverAt(r)
  PROVE  RecoverAt(r)'
<1>0. /\ Disk /\ Disk' /\ pc \in [Requests -> Places]
      /\ pc[r] \in {"write", "write2"} => Loads_(loc[r].old)
  BY DEF Types, TypeOK, Disk, Texts
<1>1. /\ loc \in [Requests -> Locs] /\ file \in [ino : Nat, text : Texts]
      /\ loc' \in [Requests -> Locs] /\ file' \in [ino : Nat, text : Texts]
      /\ lost \in BOOLEAN
  BY <1>0 DEF Disk
<1>2. ASSUME NEW from, NEW to, TruncateBak(r, from, to)
      PROVE  /\ pc[r] = from /\ pc'[r] = to /\ bak' = Torn
             /\ UNCHANGED <<file, lost, loc>>
  BY <1>0, <1>2 DEF TruncateBak, Step, Goto
<1>3. ASSUME NEW from, NEW to, WriteBak(r, from, to, loc[r].cur)
      PROVE  /\ pc[r] = from /\ pc'[r] = to /\ UNCHANGED <<file, lost, loc>>
             /\ bak = Torn => bak' = loc[r].cur \/ faults = 0
  <2>1. PICK ok \in BOOLEAN :
          MayFail(ok) /\ bak' \in IF ok THEN Written(bak, loc[r].cur) ELSE {bak}
    BY <1>3 DEF WriteBak
  <2>2. CASE ok
    <3>1. bak = Torn => bak' = loc[r].cur
      BY <2>1, <2>2 DEF Written
    <3>2. QED
      BY <1>0, <1>3, <3>1 DEF WriteBak, Step, Goto
  <2>3. CASE ~ok
    <3>1. faults = 0
      BY <2>1, <2>3 DEF MayFail
    <3>2. QED
      BY <1>0, <1>3, <3>1 DEF WriteBak, Step, Goto
  <2>4. QED
    BY <2>2, <2>3
<1>4. faults = 0 => ~lost
  BY DEF Mishaps
<1>5. CASE CheckEdit(r)
  <2>1. /\ pc[r] = "check" /\ pc'[r] = (IF Loads_(loc[r].new) THEN "backup" ELSE "end")
        /\ UNCHANGED <<file, bak, lost, loc>>
    BY <1>0, <1>5 DEF CheckEdit, Goto, diskVars
  <2>2. QED
    BY <2>1 DEF RecoverAt, RecoverOf, Safe
<1>6. CASE ReadForBackup(r)
  <2>1. /\ pc[r] = "backup" /\ pc'[r] = "backup2" /\ loc' = [loc EXCEPT ![r].cur = file.text]
        /\ UNCHANGED <<file, bak, lost>>
    BY <1>0, <1>6 DEF ReadForBackup, Step, Remember, Goto, diskVars
  <2>2. loc'[r].new = loc[r].new
    BY <1>1, <2>1 DEF Locs
  <2>3. QED
    BY <2>1, <2>2 DEF RecoverAt, RecoverOf, Safe
<1>7. CASE BackUp(r)
  <2>1. /\ pc[r] \in {"backup2", "backup3"} /\ pc'[r] \in {"backup3", "rename"}
        /\ UNCHANGED <<file, lost, loc>>
    BY <1>2, <1>3, <1>7 DEF BackUp
  <2>2. lost \/ Loads_(file.text)
    BY <2>1 DEF RecoverAt
  <2>3. QED
    BY <2>1, <2>2 DEF RecoverAt, RecoverOf, Safe
<1>8. CASE Rename(r)
  <2>1. CASE sameFS
    <3>1. /\ pc[r] = "rename" /\ pc'[r] = "reload"
          /\ file' = [ino |-> file.ino + 1, text |-> loc[r].new]
      BY <1>0, <1>8, <2>1 DEF Rename, RenameTo, Goto
    <3>2. file'.text = loc[r].new /\ Loads_(loc[r].new)
      BY <3>1 DEF RecoverAt, RecoverOf
    <3>3. QED
      BY <3>1, <3>2 DEF RecoverAt, RecoverOf, Safe
  <2>2. CASE ~sameFS
    <3>1. /\ pc[r] = "rename" /\ pc'[r] = "end" /\ UNCHANGED <<file, bak, lost, loc>>
      BY <1>0, <1>8, <2>2 DEF Rename, RenameTo, Goto
    <3>2. Loads_(file.text)
      BY <2>2, <3>1 DEF RecoverAt
    <3>3. QED
      BY <3>1, <3>2 DEF RecoverAt, RecoverOf, Safe
  <2>3. QED
    BY <2>1, <2>2
<1>9. CASE ReadCurrent(r)
  <2>1. /\ pc[r] = "read" /\ pc'[r] \in {"end", "read2"}
        /\ loc' = [loc EXCEPT ![r].cur = file.text]
        /\ UNCHANGED <<file, bak, lost>>
    BY <1>0, <1>9 DEF ReadCurrent, Remember, Goto, diskVars
  <2>2. loc'[r].cur = file.text
    BY <1>1, <2>1 DEF Locs
  <2>3. QED
    BY <2>1, <2>2 DEF RecoverAt, RecoverOf, Safe
<1>10. CASE ReadBackup(r)
  <2>1. /\ pc[r] = "read2" /\ pc'[r] \in {"end", "write"}
        /\ loc' = [loc EXCEPT ![r].old = bak]
        /\ UNCHANGED <<file, bak, lost>>
    BY <1>0, <1>10 DEF ReadBackup, Remember, Goto, diskVars
  <2>2. loc'[r].cur = loc[r].cur /\ loc'[r].old = bak
    BY <1>1, <2>1 DEF Locs
  <2>3. QED
    BY <2>1, <2>2 DEF RecoverAt, RecoverOf, Safe
<1>11. CASE TruncateFile(r)
  <2>1. /\ pc[r] = "write" /\ pc'[r] = "write2" /\ loc' = [loc EXCEPT ![r].ino = file.ino]
        /\ file' = [file EXCEPT !.text = Torn] /\ UNCHANGED <<bak, lost>>
    BY <1>0, <1>11 DEF TruncateFile, Step, Remember, Goto
  <2>2. /\ loc'[r].ino = file.ino /\ loc'[r].old = loc[r].old /\ loc'[r].cur = loc[r].cur
        /\ file'.text = Torn /\ file'.ino = file.ino
    BY <1>1, <2>1 DEF Locs
  <2>3. Loads_(bak)
    BY <1>0, <2>1 DEF RecoverAt, RecoverOf
  <2>4. QED
    BY <2>1, <2>2, <2>3 DEF RecoverAt, RecoverOf, Safe
<1>12. CASE WriteFile(r)
  <2>1. /\ pc[r] = "write2" /\ pc'[r] = "swapBak" /\ UNCHANGED <<bak, loc>>
    BY <1>0, <1>12 DEF WriteFile, Step, Goto
  <2>2. /\ file.text = Torn /\ loc[r].ino = file.ino /\ Loads_(loc[r].old) /\ bak = loc[r].old
        /\ lost \/ Loads_(loc[r].cur)
    BY <1>0, <2>1 DEF RecoverAt, RecoverOf
  <2>3. PICK ok \in BOOLEAN :
          /\ MayFail(ok) /\ lost' = (lost \/ ~ok)
          /\ IF ok /\ file.ino = loc[r].ino
             THEN \E t \in Written(file.text, loc[r].old) : file' = [file EXCEPT !.text = t]
             ELSE UNCHANGED file
    BY <1>12 DEF WriteFile
  <2>4. CASE ok
    <3>1. file' = [file EXCEPT !.text = loc[r].old]
      BY <2>2, <2>3, <2>4 DEF Written
    <3>2. Loads_(file'.text)
      BY <1>1, <2>2, <3>1
    <3>3. QED
      BY <2>1, <3>2 DEF RecoverAt, RecoverOf, Safe
  <2>5. CASE ~ok
    <3>0. file' = file /\ faults = 0
      BY <2>3, <2>5 DEF MayFail
    <3>1. lost'
      BY <2>3, <2>5
    <3>2. Loads_(loc[r].cur)
      BY <1>4, <2>2, <3>0
    <3>3. QED
      BY <2>1, <2>2, <3>0, <3>1, <3>2 DEF RecoverAt, RecoverOf, Safe
  <2>6. QED
    BY <2>4, <2>5
<1>13. CASE KeepCurrent(r)
  <2>1. CASE TruncateBak(r, "swapBak", "swapBak2")
    BY <1>2, <2>1 DEF RecoverAt, RecoverOf, Safe
  <2>2. CASE WriteBak(r, "swapBak2", "reload", loc[r].cur)
    <3>1. /\ pc[r] = "swapBak2" /\ pc'[r] = "reload" /\ UNCHANGED <<file, lost, loc>>
      BY <1>3, <2>2
    <3>2. /\ bak = Torn
          /\ Loads_(file.text) \/ Loads_(loc[r].cur)
          /\ lost \/ Loads_(file.text)
      BY <3>1 DEF RecoverAt, RecoverOf
    <3>3. bak' = loc[r].cur \/ faults = 0
      BY <1>3, <2>2, <3>2
    <3>4. Loads_(file.text) \/ Loads_(bak')
      BY <1>4, <3>2, <3>3
    <3>5. QED
      BY <3>1, <3>2, <3>4 DEF RecoverAt, RecoverOf, Safe
  <2>3. QED
    BY <1>13, <2>1, <2>2 DEF KeepCurrent
<1>14. CASE Read(r)
  <2>1. pc[r] = "reload" /\ pc'[r] \in {"swap", "end"} /\ UNCHANGED <<file, bak, lost>>
    BY <1>0, <1>14 DEF Read, Goto
  <2>2. QED
    BY <2>1 DEF RecoverAt, RecoverOf, Safe
<1>15. CASE Swap(r)
  <2>1. pc[r] = "swap" /\ pc'[r] = "prices" /\ UNCHANGED <<file, bak, lost>>
    BY <1>0, <1>15 DEF Swap, Step, Goto, diskVars
  <2>2. QED
    BY <2>1 DEF RecoverAt, RecoverOf, Safe
<1>16. CASE StorePrices(r)
  <2>1. pc[r] = "prices" /\ pc'[r] = "end" /\ UNCHANGED <<file, bak, lost>>
    BY <1>0, <1>16 DEF StorePrices, Step, Goto, diskVars
  <2>2. QED
    BY <2>1 DEF RecoverAt, RecoverOf, Safe
<1>17. QED
  BY <1>5, <1>6, <1>7, <1>8, <1>9, <1>10, <1>11, <1>12, <1>13, <1>14, <1>15, <1>16
  DEF FileStep, Editor, Rollback, Reload

\* A write of the file that has failed is not forgotten.
LEMMA LostStep ==
  Types /\ [Next]_vars =>
    /\ sameFS' = sameFS /\ (lost => lost') /\ (~overlap' => ~overlap)
    /\ hand' = "none" => hand = "none"
<1> SUFFICES ASSUME Types, [Next]_vars
             PROVE  /\ sameFS' = sameFS /\ (lost => lost') /\ (~overlap' => ~overlap)
                    /\ hand' = "none" => hand = "none"
  OBVIOUS
<1>1. ASSUME NEW r \in Requests, FileStep(r)
      PROVE  /\ sameFS' = sameFS /\ (lost => lost') /\ overlap' = overlap
             /\ hand' = "none" => hand = "none"
  <2>1. overlap' = overlap
    BY <1>1, Moves
  <2>2. CASE WriteFile(r)
    <3>1. sameFS' = sameFS /\ hand' = hand /\ \E ok \in BOOLEAN : lost' = (lost \/ ~ok)
      BY <2>2 DEF WriteFile
    <3>2. lost = TRUE => lost' = TRUE
      BY <3>1
    <3>3. lost \in BOOLEAN
      BY DEF Types
    <3>4. QED
      BY <2>1, <3>1, <3>2, <3>3
  <2>3. CASE ~WriteFile(r)
    <3>1. UNCHANGED <<sameFS, lost>> /\ (hand' = "none" => hand = "none")
      BY <1>1, <2>3
      DEF FileStep, Editor, Rollback, Reload, CheckEdit, ReadForBackup, BackUp, Rename, RenameTo,
          ReadCurrent, ReadBackup, TruncateFile, KeepCurrent, Read, Swap, StorePrices,
          TruncateBak, WriteBak, HandLoaded, diskVars
    <3>2. QED
      BY <2>1, <3>1
  <2>4. QED
    BY <2>2, <2>3
<1>2. ASSUME NEW r \in Requests, Begin(r) \/ Leave(r)
      PROVE  /\ sameFS' = sameFS /\ (lost => lost') /\ (~overlap' => ~overlap)
             /\ hand' = "none" => hand = "none"
  BY <1>2, Ends DEF Begin, diskVars
<1>3. CASE \/ \E ctx \in starting : RunDiscovery(ctx)
           \/ \E l \in loops : Answer(l, TRUE) \/ Answer(l, FALSE) \/ TickLoop(l) \/ StopLoop(l)
           \/ Signal \/ CloseListener \/ Wait \/ Deadline \/ Exit \/ Crash
           \/ UNCHANGED vars
  BY <1>3 DEF RunDiscovery, Answer, TickLoop, StopLoop, Signal, CloseListener, Wait, Announce,
              Look, Woken, Waits, Deadline, Exit, Crash, Stop, vars, diskVars, reqVars
<1>4. CASE Start
  BY <1>4 DEF Start, HandLoaded, reqVars
<1>5. CASE EditByHand
  <2>1. sameFS' = sameFS /\ lost' = lost /\ hand' = "new" /\ (overlap => overlap')
    BY <1>5 DEF EditByHand
  <2>2. QED
    BY <2>1
<1>6. QED
  BY <1>1, <1>2, <1>3, <1>4, <1>5 DEF Next, Handler, FileStep

Exposed == {"backup3", "rename", "swapBak2"}

LEMMA RecoverStep ==
  Types /\ Types' /\ Alone /\ Mishaps /\ RecoverInv /\ [Next]_vars => RecoverInv'
<1> SUFFICES ASSUME Types, Types', Alone, Mishaps, RecoverInv, [Next]_vars,
                    ~overlap', hand' = "none", faults' <= 1, sameFS' \/ ~lost'
             PROVE  /\ Safe' \/ (lost' /\ \E r \in Requests : pc'[r] \in Exposed)
                    /\ Up' => lost' \/ Loads_(file'.text) \/ \E r \in Requests : pc'[r] = "write2"
                    /\ \A r \in Requests : RecoverOf(r)'
  BY DEF RecoverInv, Exposed
<1>0. /\ pc \in [Requests -> Places] /\ pc' \in [Requests -> Places]
      /\ late \in BOOLEAN /\ lost \in BOOLEAN /\ faults \in Nat /\ faults' \in Nat
      /\ faults' >= faults
  BY MishapsStep DEF Types, TypeOK
<1>1. ~overlap /\ hand = "none" /\ (sameFS \/ ~lost) /\ faults \in {0, 1} /\ faults' \in {0, 1}
  BY <1>0, LostStep
<1>2. /\ Safe \/ (lost /\ \E r \in Requests : pc[r] \in Exposed)
      /\ Up => lost \/ Loads_(file.text) \/ \E r \in Requests : pc[r] = "write2"
      /\ \A r \in Requests : RecoverOf(r)
  BY <1>1 DEF RecoverInv, Exposed
<1>3. ASSUME NEW q \in Requests, pc'[q] \in {"idle", "resolved", "done"} PROVE RecoverOf(q)'
  BY <1>3 DEF RecoverOf
<1>4. ASSUME NEW r \in Requests, FileStep(r)
      PROVE  /\ Safe' \/ (lost' /\ \E q \in Requests : pc'[q] \in Exposed)
             /\ Up' => lost' \/ Loads_(file'.text) \/ \E q \in Requests : pc'[q] = "write2"
             /\ \A q \in Requests : RecoverOf(q)'
  <2>1. Up
    BY <1>4, Moves
  <2>2. \A q \in Requests \ {r} : pc'[q] = pc[q] /\ pc[q] \in {"idle", "resolved", "done"}
    BY <1>1, <1>4, OnlyOne
  <2>3. RecoverAt(r)
    BY <1>2, <2>1, <2>2 DEF RecoverAt, Exposed
  <2>4. RecoverAt(r)'
    BY <1>1, <1>4, <2>3, RecoverFile
  <2>5. QED
    BY <1>3, <2>2, <2>4 DEF RecoverAt, Exposed
<1>5. ASSUME NEW r \in Requests, Begin(r) \/ Leave(r)
      PROVE  /\ Safe' \/ (lost' /\ \E q \in Requests : pc'[q] \in Exposed)
             /\ Up' => lost' \/ Loads_(file'.text) \/ \E q \in Requests : pc'[q] = "write2"
             /\ \A q \in Requests : RecoverOf(q)'
  <2>1. /\ UNCHANGED <<diskVars, phase>> /\ pc' = [pc EXCEPT ![r] = pc'[r]]
        /\ pc[r] \in {"idle", "resolved", "end", "wake", "close"}
        /\ pc'[r] \in {"check", "read", "reload", "resolved", "wake", "close", "done"}
        /\ \A q \in Requests \ {r} : loc'[q] = loc[q]
    <3>1. CASE Begin(r)
      BY <3>1, Begins DEF Begin
    <3>2. CASE Leave(r)
      <4>1. loc \in [Requests -> Locs]
        BY DEF Types
      <4>2. QED
        BY <3>2, <4>1, Ends
    <3>3. QED
      BY <1>5, <3>1, <3>2
  <2>2. UNCHANGED <<file, bak, lost>> /\ Up' = Up
    BY <2>1 DEF diskVars, Up
  <2>3. \A q \in Requests \ {r} : pc'[q] = pc[q] /\ loc'[q] = loc[q]
    BY <1>0, <2>1
  <2>4. \A q \in Requests \ {r} : RecoverOf(q)'
    BY <1>2, <2>2, <2>3 DEF RecoverOf
  <2>5. RecoverOf(r)'
    BY <2>1 DEF RecoverOf
  <2>6. \A q \in Requests : pc[q] \in Exposed \cup {"write2"} => pc'[q] = pc[q]
    BY <2>1, <2>3 DEF Exposed
  <2>7. QED
    BY <1>2, <2>2, <2>4, <2>5, <2>6 DEF Safe
<1>6. CASE \/ \E ctx \in starting : RunDiscovery(ctx)
           \/ \E l \in loops : Answer(l, TRUE) \/ Answer(l, FALSE) \/ TickLoop(l) \/ StopLoop(l)
           \/ Signal \/ CloseListener \/ Wait \/ Deadline \/ UNCHANGED vars
  <2>1. UNCHANGED <<diskVars, reqVars>> /\ (Up' => Up)
    BY <1>6 DEF RunDiscovery, Answer, TickLoop, StopLoop, Signal, CloseListener, Wait, Announce,
                Look, Woken, Waits, Deadline, vars, procVars, Up
  <2>2. UNCHANGED <<file, bak, lost, pc, loc>>
    BY <2>1 DEF diskVars, reqVars
  <2>3. QED
    BY <1>2, <2>1, <2>2 DEF Safe, RecoverOf
<1>7. CASE Exit \/ Crash
  <2>1. /\ UNCHANGED <<file, bak, lost>> /\ ~Up'
        /\ \A q \in Requests : pc'[q] \in {"idle", "resolved", "done"}
    BY <1>0, <1>7 DEF Exit, Crash, Stop, Active, Up, diskVars
  <2>2. lost => \A r \in Requests : pc[r] \notin Exposed
    <3>1. CASE Crash
      <4>1. faults = 0
        BY <1>1, <3>1 DEF Crash
      <4>2. QED
        BY <1>0, <4>1 DEF Mishaps
    <3>2. CASE Exit
      <4>1. Active = {} \/ late
        BY <3>2 DEF Exit
      <4>2. late => ~lost
        BY <1>1 DEF Mishaps
      <4>3. QED
        BY <4>1, <4>2 DEF Active, Exposed
    <3>3. QED
      BY <1>7, <3>1, <3>2
  <2>3. Safe
    BY <1>2, <2>2
  <2>4. QED
    BY <1>3, <2>1, <2>3 DEF Safe
<1>8. CASE Start
  <2>1. UNCHANGED <<file, bak, lost, reqVars>> /\ (Up' => Loads_(file.text))
    BY <1>8 DEF Start, Up
  <2>2. UNCHANGED <<file, bak, lost, pc, loc>>
    BY <2>1 DEF reqVars
  <2>3. QED
    BY <1>2, <2>1, <2>2 DEF Safe, RecoverOf
<1>9. CASE EditByHand
  BY <1>9 DEF EditByHand
<1>10. QED
  BY <1>4, <1>5, <1>6, <1>7, <1>8, <1>9 DEF Next, Handler, FileStep

-----------------------------------------------------------------------------
(***************************************************************************)
(* What routes has been loaded and validated, and a request that was       *)
(* resolved by the generation there is was resolved by what routes.        *)
(***************************************************************************)

ResolvedNow(r) ==
  \E m \in Models, inf \in Infos, load \in Loads :
    loc[r].targets \in Resolve(Applied[live], m, inf, load)

RouteOf(r) ==
  /\ pc[r] = "swap" => Loads_(loc[r].new)
  /\ pc[r] = "resolved" => loc[r].at <= gen /\ (loc[r].at = gen => ResolvedNow(r))

RouteInv == Loads_(live) /\ \A r \in Requests : RouteOf(r)

\* Only what loads is swapped in.
LEMMA SwapsLoaded ==
  ASSUME Types, NEW r \in Requests, FileStep(r), pc'[r] = "swap"
  PROVE  Loads_(loc'[r].new)
<1>0. pc \in [Requests -> Places] /\ loc \in [Requests -> Locs]
  BY DEF Types, TypeOK
<1>1. Read(r)
  BY <1>0 DEF FileStep, Editor, Rollback, Reload, CheckEdit, ReadForBackup, BackUp, Rename,
              RenameTo, ReadCurrent, ReadBackup, TruncateFile, WriteFile, KeepCurrent,
              TruncateBak, WriteBak, Swap, StorePrices, Step, Goto
<1>2. Loads_(file.text) /\ Remember(r, "new", file.text)
  BY <1>0, <1>1 DEF Read, Goto
<1>3. file.text \in Configs
  BY <1>2 DEF Loads_
<1>4. loc' = [loc EXCEPT ![r].new = file.text]
  BY <1>0, <1>2, <1>3, Remembered
<1>5. loc'[r].new = file.text
  BY <1>0, <1>4 DEF Locs
<1>6. QED
  BY <1>2, <1>5

LEMMA RouteStep ==
  Types /\ Types' /\ RouteInv /\ [Next]_vars => RouteInv'
<1> SUFFICES ASSUME Types, Types', RouteInv, [Next]_vars
             PROVE  RouteInv'
  OBVIOUS
<1>0. /\ pc \in [Requests -> Places] /\ pc' \in [Requests -> Places]
      /\ loc \in [Requests -> Locs] /\ gen \in Nat /\ gen' \in Nat
  BY DEF Types, TypeOK
<1>1. Loads_(live) /\ \A r \in Requests : RouteOf(r)
  BY DEF RouteInv
<1>2. ASSUME NEW q \in Requests, pc'[q] = pc[q], loc'[q] = loc[q], live' = live, gen' = gen
      PROVE  RouteOf(q)'
  BY <1>1, <1>2 DEF RouteOf, ResolvedNow
<1>3. ASSUME NEW q \in Requests, pc'[q] \notin {"swap", "resolved"} PROVE RouteOf(q)'
  BY <1>3 DEF RouteOf
<1>4. ASSUME NEW r \in Requests, FileStep(r) PROVE RouteInv'
  <2>1. /\ pc'[r] # "resolved" /\ \A q \in Requests \ {r} : pc'[q] = pc[q] /\ loc'[q] = loc[q]
    BY <1>0, <1>4, Moves, DiskTypes DEF FilePlaces
  <2>2. RouteOf(r)'
    BY <1>4, <2>1, SwapsLoaded DEF RouteOf
  <2>3. CASE Swap(r)
    <3>1. live' = loc[r].new /\ gen' = gen + 1 /\ pc[r] = "swap"
      BY <2>3 DEF Swap, Step
    <3>2. Loads_(live')
      BY <1>1, <3>1 DEF RouteOf
    <3>3. ASSUME NEW q \in Requests \ {r} PROVE RouteOf(q)'
      <4>1. /\ pc[q] = "swap" => Loads_(loc[q].new)
            /\ pc[q] = "resolved" => loc[q].at <= gen
        BY <1>1 DEF RouteOf
      <4>2. loc[q].at \in Nat
        BY <1>0 DEF Locs
      <4>3. loc[q].at <= gen => loc[q].at <= gen' /\ loc[q].at # gen'
        BY <1>0, <3>1, <4>2
      <4>4. QED
        BY <2>1, <4>1, <4>3 DEF RouteOf
    <3>4. QED
      BY <2>2, <3>2, <3>3 DEF RouteInv
  <2>4. CASE ~Swap(r)
    <3>1. live' = live /\ gen' = gen
      BY <1>4, <2>4, Moves
    <3>2. \A q \in Requests \ {r} : RouteOf(q)'
      BY <1>2, <2>1, <3>1
    <3>3. QED
      BY <1>1, <2>2, <3>1, <3>2 DEF RouteInv
  <2>5. QED
    BY <2>3, <2>4
<1>5. ASSUME NEW r \in Requests, Begin(r) PROVE RouteInv'
  <2>1. live' = live /\ gen' = gen
    BY <1>5 DEF Begin, regVars
  <2>2. \A q \in Requests \ {r} : pc'[q] = pc[q] /\ loc'[q] = loc[q]
    BY <1>0, <1>5, Begins
  <2>3. RouteOf(r)'
    <3>1. CASE Admin(r)
      BY <1>3, <1>5, <3>1, Begins
    <3>2. CASE ~Admin(r)
      <4>1. kind[r] = "message" /\ pc'[r] = "resolved"
        BY <1>5, <3>2, Begins DEF Admin
      <4>2. /\ Configs \cap Words = {}
            /\ Words = {"rollback", "reload", "message", "none"}
        BY ReconfigureAssumption DEF Words
      <4>3. PICK m \in Models, inf \in Infos, load \in Loads :
              \E tg \in Resolve(Applied[live], m, inf, load) :
                /\ loc' = [loc EXCEPT ![r].targets = tg, ![r].at = gen]
                /\ Goto(r, "resolved")
        BY <1>5, <4>1, <4>2 DEF Begin
      <4>4. PICK tg \in Resolve(Applied[live], m, inf, load) :
              loc' = [loc EXCEPT ![r].targets = tg, ![r].at = gen]
        BY <4>3
      <4>5. loc'[r].targets = tg /\ loc'[r].at = gen
        BY <1>0, <4>4 DEF Locs
      <4>6. ResolvedNow(r)'
        BY <2>1, <4>5 DEF ResolvedNow
      <4>7. QED
        BY <1>0, <2>1, <4>1, <4>5, <4>6 DEF RouteOf
    <3>3. QED
      BY <3>1, <3>2
  <2>4. QED
    BY <1>1, <1>2, <2>1, <2>2, <2>3 DEF RouteInv
<1>6. ASSUME NEW r \in Requests, Leave(r) PROVE RouteInv'
  <2>1. /\ live' = live /\ gen' = gen /\ pc'[r] \in {"wake", "close", "done"}
        /\ \A q \in Requests \ {r} : pc'[q] = pc[q] /\ loc'[q] = loc[q]
    BY <1>0, <1>6, Ends DEF regVars
  <2>2. QED
    BY <1>1, <1>2, <1>3, <2>1 DEF RouteInv
<1>7. CASE \/ \E ctx \in starting : RunDiscovery(ctx)
           \/ \E l \in loops : Answer(l, TRUE) \/ Answer(l, FALSE) \/ TickLoop(l) \/ StopLoop(l)
           \/ Signal \/ CloseListener \/ Wait \/ Deadline \/ EditByHand \/ UNCHANGED vars
  <2>1. UNCHANGED <<pc, loc, live, gen>>
    BY <1>7 DEF RunDiscovery, Answer, TickLoop, StopLoop, Signal, CloseListener, Wait, Announce,
                Look, Woken, Waits, Deadline, EditByHand, vars, reqVars, regVars
  <2>2. QED
    BY <1>1, <1>2, <2>1 DEF RouteInv
<1>8. CASE Exit \/ Crash
  <2>1. live' = live /\ \A q \in Requests : pc'[q] \in {"idle", "done"}
    BY <1>0, <1>8 DEF Exit, Crash, Stop, Active
  <2>2. QED
    BY <1>1, <1>3, <2>1 DEF RouteInv
<1>9. CASE Start
  <2>1. pc' = pc /\ (live' = live \/ Loads_(live'))
    BY <1>9 DEF Start, reqVars
  <2>2. \A q \in Requests : pc[q] \in {"idle", "done"}
    <3>1. ~Up
      BY <1>9 DEF Start, Up
    <3>2. QED
      BY <3>1 DEF Types, Active
  <2>3. Loads_(live')
    BY <1>1, <2>1
  <2>4. QED
    BY <1>3, <2>1, <2>2, <2>3 DEF RouteInv
<1>10. QED
  BY <1>4, <1>5, <1>6, <1>7, <1>8, <1>9 DEF Next, Handler, FileStep

-----------------------------------------------------------------------------
(***************************************************************************)
(* All of it is an inductive invariant.                                    *)
(***************************************************************************)

Inv == Types /\ WakeInv /\ Alone /\ Mishaps /\ SavedInv /\ RecoverInv /\ RouteInv

LEMMA InitInv == Init => Inv
<1> SUFFICES ASSUME Init PROVE Inv
  OBVIOUS
<1>1. /\ sameFS \in BOOLEAN /\ file = [ino |-> 0, text |-> First] /\ bak = "none"
      /\ prev = "none" /\ lost = FALSE /\ live = First /\ prices = First /\ gen = 1
      /\ starting = {1} /\ loops = {} /\ found = [n \in AllNames |-> "none"]
      /\ phase = "serving" /\ inflight = [count |-> 0, closing |-> FALSE, done |-> FALSE]
      /\ waiter = "none" /\ late = FALSE /\ hand = "none" /\ kind \in Scripts
      /\ pc = [r \in Requests |-> IF kind[r] = "none" THEN "done" ELSE "idle"]
      /\ loc = [r \in Requests |-> Locals] /\ faults = 0 /\ overlap = FALSE
  BY DEF Init
<1>2. /\ First \in Configs /\ Loads_(First) /\ MaxGen[kind] \in Nat
      /\ Cardinality({r \in Requests : kind[r] \notin {"message", "none"}}) < MaxGen[kind]
  BY <1>1, ReconfigureAssumption
<1>3. \A r \in Requests : /\ pc[r] \in {"idle", "done"}
                          /\ pc[r] = "done" <=> kind[r] = "none"
                          /\ loc[r] = Locals
  BY <1>1
<1>4. Active = {} /\ Tracked = {}
  BY <1>3 DEF Active, Tracked
<1>5. Pending = {r \in Requests : kind[r] \notin {"message", "none"}}
  BY <1>3 DEF Pending, Admin, BeforeSwap
<1>6. gen + Cardinality(Pending) <= MaxGen[kind]
  <2>1. Pending \in SUBSET Requests
    BY DEF Pending
  <2>2. Cardinality(Pending) \in Nat
    BY <2>1, Sets
  <2>3. QED
    BY <1>1, <1>2, <1>5, <2>2
<1>7. gen \in 1 .. MaxGen[kind] /\ starting \subseteq 1 .. gen
  <2>1. Pending \in SUBSET Requests
    BY DEF Pending
  <2>2. Cardinality(Pending) \in Nat
    BY <2>1, Sets
  <2>3. QED
    BY <1>1, <1>2, <1>6, <2>2
<1>8. inflight.count = Cardinality({r \in Active : Admin(r) /\ pc[r] \notin Leaving})
  <2>1. Cardinality({}) = 0
    BY FS_EmptySet
  <2>2. QED
    BY <1>1, <1>4, <2>1 DEF Tracked
<1>9. Types
  <2>1. pc \in [Requests -> Places]
    BY <1>1 DEF Places
  <2>2. Locals \in Locs
    BY <1>2 DEF Locals, Locs, Texts, Lists
  <2>3. loc \in [Requests -> Locs]
    BY <1>1, <2>2
  <2>4. TypeOK
    BY <1>1, <1>2, <1>7, <1>8, <2>1 DEF TypeOK
  <2>5. \A r \in Requests : /\ kind[r] = "none" => pc[r] = "done"
                            /\ kind[r] = "message" => pc[r] \in {"idle", "resolved", "done"}
                            /\ pc[r] = "resolved" => kind[r] = "message"
                            /\ pc[r] \in {"write", "write2"} => Loads_(loc[r].old)
    BY <1>3
  <2>6. QED
    BY <1>1, <1>2, <1>4, <1>6, <2>3, <2>4, <2>5 DEF Types, Texts
<1>10. WakeInv /\ Alone /\ Mishaps
  BY <1>1, <1>4 DEF WakeInv, WakeNotLost, Alone, Mishaps
<1>11. SavedInv
  <2>1. Agree /\ Backed
    BY <1>1, <1>2 DEF Agree, Backed
  <2>2. \A r \in Requests : SavedOf(r)
    BY <1>3 DEF SavedOf
  <2>3. QED
    BY <2>1, <2>2 DEF SavedInv
<1>12. RecoverInv
  <2>1. Loads_(file.text)
    BY <1>1, <1>2
  <2>2. \A r \in Requests : RecoverOf(r)
    BY <1>3 DEF RecoverOf
  <2>3. QED
    BY <2>1, <2>2 DEF RecoverInv, Safe
<1>13. RouteInv
  <2>1. \A r \in Requests : RouteOf(r)
    BY <1>3 DEF RouteOf
  <2>2. QED
    BY <1>1, <1>2, <2>1 DEF RouteInv
<1>14. QED
  BY <1>9, <1>10, <1>11, <1>12, <1>13 DEF Inv

LEMMA Invariant == Spec => []Inv
<1>1. Inv /\ [Next]_vars => Inv'
  <2> SUFFICES ASSUME Inv, [Next]_vars PROVE Inv'
    OBVIOUS
  <2>1. Types /\ WakeInv /\ Alone /\ Mishaps /\ SavedInv /\ RecoverInv /\ RouteInv
    BY DEF Inv
  <2>2. Types'
    BY <2>1, TypesStep
  <2>3. WakeInv'
    BY <2>1, <2>2, WakeStep
  <2>4. Alone' /\ Mishaps'
    BY <2>1, <2>2, AloneStep, MishapsStep
  <2>5. SavedInv' /\ RecoverInv'
    BY <2>1, <2>2, SavedStep, RecoverStep
  <2>6. RouteInv'
    BY <2>1, <2>2, RouteStep
  <2>7. QED
    BY <2>2, <2>3, <2>4, <2>5, <2>6 DEF Inv
<1>2. QED
  BY InitInv, <1>1, PTL DEF Spec

(***************************************************************************)
(* The types of everything the process keeps; and the in-flight tracker    *)
(* counts exactly the admin requests that have not ended, through panics,  *)
(* shutdowns, crashes and restarts, whatever comes together.               *)
(***************************************************************************)
THEOREM ConfigTypes == Spec => []TypeOK
<1>1. Inv => TypeOK
  BY DEF Inv, Types
<1>2. QED
  BY <1>1, Invariant, PTL

(***************************************************************************)
(* Whoever waits for the last tracked request is woken or about to be:     *)
(* the order in which wait announces itself and looks at the count, and    *)
(* the last request takes itself off and looks for a waiter, loses no      *)
(* wakeup for any number of requests.                                      *)
(***************************************************************************)
THEOREM WokenUp == Spec => []WakeNotLost
<1>1. Inv => WakeNotLost
  BY DEF Inv, WakeInv
<1>2. QED
  BY <1>1, Invariant, PTL

\* At rest, no admin request is under way.
LEMMA RestIsResting == Types /\ AtRest => Resting
BY DEF Types, AtRest, Resting, Admin

(***************************************************************************)
(* As long as admin requests come one at a time and nothing fails, what    *)
(* routes and what prices are one configuration that loads, and the one in *)
(* the file unless that has been edited by hand and not read since, after  *)
(* any number of edits, rollbacks, reloads and restarts.                   *)
(***************************************************************************)
THEOREM Saved == Spec => []AppliedIsSaved
<1>1. Inv => AppliedIsSaved
  <2> SUFFICES ASSUME Inv, AtRest, ~overlap, faults = 0
               PROVE  Agree
    BY DEF AppliedIsSaved, Agree
  <2>1. Resting /\ SavedInv
    BY RestIsResting DEF Inv
  <2>2. QED
    BY <2>1 DEF SavedInv
<1>2. QED
  BY <1>1, Invariant, PTL

(***************************************************************************)
(* Under the same conditions the backup is what the configuration in the   *)
(* file replaced, or what an editor that could not rename has made of it.  *)
(***************************************************************************)
THEOREM BackedUp == Spec => []BackupIsPrevious
<1>1. Inv => BackupIsPrevious
  <2> SUFFICES ASSUME Inv, AtRest, ~overlap, faults = 0
               PROVE  Backed
    BY DEF BackupIsPrevious, Backed
  <2>1. Resting /\ SavedInv
    BY RestIsResting DEF Inv
  <2>2. QED
    BY <2>1 DEF SavedInv
<1>2. QED
  BY <1>1, Invariant, PTL

(***************************************************************************)
(* One mishap, wherever it comes in whatever sequence of admin requests,   *)
(* leaves a file or a backup that loads, unless a write of the file failed *)
(* where the editor cannot rename.                                         *)
(***************************************************************************)
THEOREM Recovers == Spec => []Recoverable
<1>1. Inv => Recoverable
  <2> SUFFICES ASSUME Inv, phase \in {"down", "exited"}, ~overlap, hand = "none",
                      faults <= 1, sameFS \/ ~lost
               PROVE  Safe
    BY DEF Recoverable, Safe
  <2>1. /\ Safe \/ (lost /\ \E r \in Requests : pc[r] \in {"backup3", "rename", "swapBak2"})
    BY DEF Inv, RecoverInv
  <2>2. Active = {}
    BY DEF Inv, Types, Up
  <2>3. QED
    BY <2>1, <2>2 DEF Active
<1>2. QED
  BY <1>1, Invariant, PTL

\* What routes is what apply has made of a configuration as it is unmarshalled.
LEMMA LiveLoads ==
  ASSUME Inv
  PROVE  /\ live \in Configs /\ Shaped(Config[live]) /\ Validate(WithDefaults(Config[live]))
         /\ Applied[live] = Apply(WithDefaults(Config[live]))
<1>1. Loads_(live) /\ live \in Configs
  BY DEF Inv, RouteInv, Loads_
<1>2. QED
  BY <1>1, ReconfigureAssumption DEF Loads_, Loaded, Applied

(***************************************************************************)
(* After any sequence of edits, rollbacks, reloads and restarts the rules  *)
(* that route are sorted: a model gets one with the longest prefix it has. *)
(***************************************************************************)
THEOREM LongestPrefix == Spec => []LongestPrefixWins
<1>1. Inv => LongestPrefixWins
  <2> SUFFICES ASSUME Inv, NEW m \in Models, NEW rule \in Range(Applied[live].rules),
                      HasPrefix(m, rule.prefix)
               PROVE  LET i == MatchRules(Applied[live], m)
                      IN  i > 0 /\ Len(rule.prefix) <= Len(Applied[live].rules[i].prefix)
    BY Zenon DEF LongestPrefixWins
  <2> DEFINE c == Config[live]
  <2>1. Shaped(c) /\ Applied[live] = Apply(WithDefaults(c))
    BY LiveLoads
  <2>2. /\ Applied[live].rules = SortRules(c.rules)
        /\ Prefixed(Range(c.rules)) /\ c.rules \in Seq(Range(c.rules))
    BY <2>1, Loading
  <2> HIDE DEF c
  <2>3. QED
    BY <2>2, FirstIsLongest
<1>2. QED
  BY <1>1, Invariant, PTL

(***************************************************************************)
(* A request that was resolved since the last reload only meets providers  *)
(* that exist, or names validate leaves unchecked.                         *)
(***************************************************************************)
THEOREM NoneStrange == Spec => []NoStrangers
<1>1. Inv => NoStrangers
  <2> SUFFICES ASSUME Inv, NEW r \in Requests, pc[r] = "resolved", loc[r].at = gen,
                      NEW t \in Range(loc[r].targets)
               PROVE  Known(Config[live], t)
    BY Zenon DEF NoStrangers, Known
  <2> DEFINE c == Config[live]
  <2>1. Shaped(c) /\ Validate(WithDefaults(c)) /\ Applied[live] = Apply(WithDefaults(c))
    BY LiveLoads
  <2>2. RouteOf(r)
    BY DEF Inv, RouteInv
  <2>3. PICK m \in Models, inf \in Infos, load \in Loads :
          loc[r].targets \in Resolve(Applied[live], m, inf, load)
    BY <2>2 DEF RouteOf, ResolvedNow
  <2>4. Hashed(inf)
    BY ReconfigureAssumption
  <2> HIDE DEF c
  <2>5. QED
    BY <2>1, <2>3, <2>4, ResolvedKnown DEF c
<1>2. QED
  BY <1>1, Invariant, PTL

=============================================================================
