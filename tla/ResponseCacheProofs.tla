------------------------- MODULE ResponseCacheProofs -------------------------
(***************************************************************************)
(* Theorems about ResponseCache for any number of replicas, requests and   *)
(* keys, any similarity, sizes and lifetimes: every property of the module *)
(* follows from one inductive invariant.                                   *)
(***************************************************************************)
EXTENDS ResponseCache, TLAPS

(***************************************************************************)
(* What every entry of a cache, local or shared, is: the answer of the     *)
(* request it names, under that request's cache key or under the semantic  *)
(* key made for it, no younger than the last write under that key.         *)
(***************************************************************************)
Honest(m, j, s) ==
  \A k \in DOMAIN m :
    LET b == m[k].body IN
    \/ k = CacheKey(j[b]) /\ m[k].at <= s[b].ck
    \/ k = <<"sem", b>> /\ m[k].at \in 1 .. s[b].sem

\* One replica's cache, as TypeOK has it.
CacheOK(c) ==
  /\ c = [m |-> c.m, order |-> c.order]
  /\ IsMap(c.m)
  /\ c.order \in Seq(Keys)
  /\ Len(c.order) <= MaxEntries
  /\ DOMAIN c.m \subseteq Range(c.order)

\* Entry e of replica d's index names a finished request of d and its prompt.
Indexed(e, d, j, s) ==
  LET q == e.key[2] IN
  e.vec = j[q].ask.prompt /\ j[q].ask.rep = d /\ s[q].sem > 0

NearEnough(r, q, j) ==
  /\ Sim[j[r].ask.prompt][j[q].ask.prompt] >= Threshold
  /\ j[q].ask.rep = j[r].ask.rep

UnsavedPlaces == {"idle", "sem", "semShared", "exact", "exactShared", "upstream", "put",
                  "putShared", "putSem"}

LocalInv  == \A d \in Replicas : CacheOK(local[d]) /\ Honest(local[d].m, job, saved)
SharedInv == Honest(redis, job, saved)
IndexInv  == \A d \in Replicas : \A i \in DOMAIN index[d] : Indexed(index[d][i], d, job, saved)

\* What a handler knows of its own semantic key: it made it, or the index gave it
\* a neighbour's; and when the two write-backs have happened.
HandlerInv ==
  \A r \in Requests :
    /\ job[r].fresh => job[r].sem = <<"sem", r>>
    /\ pc[r] \in {"putSem", "putSemShared", "index"} => job[r].fresh
    /\ job[r].sem # NoKey => job[r].sem[2] = r \/ NearEnough(r, job[r].sem[2], job)
    /\ pc[r] \in UnsavedPlaces => saved[r].sem = 0
    /\ pc[r] \in {"putSemShared", "index"} => saved[r].sem > 0
    /\ saved[r].ck <= now /\ saved[r].sem <= now

\* What an answer from the cache has to do with the request that got it.
GoodAnswer(a, r, j) ==
  /\ a.src = "exact" => CacheKey(j[a.body]) = CacheKey(j[r])
  /\ a.src = "semantic" => NearEnough(r, a.body, j)

HitInv == \A r \in Requests : GoodAnswer(answer[r], r, job)

Inv == TypeOK /\ LocalInv /\ SharedInv /\ IndexInv /\ HandlerInv /\ HitInv

-----------------------------------------------------------------------------
(***************************************************************************)
(* Keys, caches and what lookups and writes do to them.                    *)
(***************************************************************************)

\* A cache key is a key, and never a semantic one.
LEMMA KeyKinds ==
  ASSUME TypeOK, NEW r \in Requests
  PROVE  /\ job[r].ask \in Asks /\ job[r].ask.rep \in Replicas /\ job[r].ask.prompt \in Prompts
         /\ job[r].sem \in {NoKey} \cup ({"sem"} \X Requests)
         /\ CacheKey(job[r]) \in Keys
         /\ \A q : CacheKey(job[r]) # <<"sem", q>>
<1>1. job[r] \in Jobs
  BY DEF TypeOK
<1>2. /\ job[r].ask \in Asks
      /\ job[r].sem \in {NoKey} \cup ({"sem"} \X Requests)
  BY <1>1 DEF Jobs
<1>3. /\ job[r].ask.rep \in Replicas /\ job[r].ask.prompt \in Prompts
      /\ job[r].ask.target \in Targets
      /\ job[r].ask.custom \in {NoKey} \cup ({"custom"} \X CustomKeys)
  BY <1>2 DEF Asks
<1>4. CASE job[r].ask.custom # NoKey
  <2>1. PICK c \in CustomKeys : job[r].ask.custom = <<"custom", c>>
    BY <1>3, <1>4
  <2>2. CacheKey(job[r]) = <<"custom", c>>
    BY <1>4, <2>1 DEF CacheKey
  <2>3. QED
    BY <1>2, <1>3, <2>2 DEF Keys
<1>5. CASE job[r].ask.custom = NoKey
  <2>1. CacheKey(job[r]) = <<"exact", job[r].ask.target, job[r].ask.prompt>>
    BY <1>5 DEF CacheKey
  <2>2. QED
    BY <1>2, <1>3, <2>1 DEF Keys
<1>6. QED
  BY <1>4, <1>5

\* Every entry a Put leaves is the new one or was there; and the new one is there,
\* unless its key still stood in the order for an entry that was not.
LEMMA PutCache ==
  ASSUME NEW c, CacheOK(c), NEW k \in Keys, NEW body \in Requests, now \in Nat
  PROVE  LET d == Put(c, k, body) IN
         /\ CacheOK(d)
         /\ \A x \in DOMAIN d.m : \/ x = k /\ d.m[x] = Entry(body, now)
                                  \/ x \in DOMAIN c.m /\ d.m[x] = c.m[x]
         /\ k \in DOMAIN d.m \/ k \in Range(c.order) \ DOMAIN c.m
<1> DEFINE m     == Store(c.m, k, Entry(body, now))
           order == IF k \in DOMAIN c.m THEN c.order ELSE Append(c.order, k)
           d     == Put(c, k, body)
<1>1. /\ c.order \in Seq(Keys) /\ Len(c.order) \in Nat /\ Len(c.order) <= MaxEntries
      /\ DOMAIN c.m \subseteq Range(c.order)
      /\ MaxEntries \in Nat \ {0}
  BY CacheAssumption DEF CacheOK
<1>2. /\ order \in Seq(Keys) /\ Len(order) <= MaxEntries + 1
      /\ Range(c.order) \subseteq Range(order) /\ k \in Range(order)
  <2>1. CASE k \in DOMAIN c.m
    BY <1>1, <2>1
  <2>2. CASE k \notin DOMAIN c.m
    <3>1. /\ order = Append(c.order, k) /\ order \in Seq(Keys)
          /\ Len(order) = Len(c.order) + 1
          /\ order[Len(c.order) + 1] = k
          /\ \A i \in 1 .. Len(c.order) : order[i] = c.order[i]
      BY <1>1, <2>2
    <3>2. DOMAIN order = 1 .. Len(c.order) + 1 /\ DOMAIN c.order = 1 .. Len(c.order)
      BY <1>1, <3>1
    <3>3. QED
      BY <1>1, <3>1, <3>2 DEF Range
  <2>3. QED
    BY <2>1, <2>2
<1>3. /\ DOMAIN m = DOMAIN c.m \cup {k} /\ m[k] = Entry(body, now)
      /\ \A x \in DOMAIN c.m : x # k => m[x] = c.m[x]
      /\ m = [x \in DOMAIN m |-> m[x]]
  BY DEF Store
<1>4. Entry(body, now) \in Entries
  BY DEF Entry, Entries
<1>5. IsMap(m)
  BY <1>3, <1>4 DEF CacheOK, IsMap
<1>6. DOMAIN m \subseteq Range(order)
  BY <1>1, <1>2, <1>3
<1>7. d = [m |-> IF Len(order) > MaxEntries THEN Drop(m, Head(order)) ELSE m,
           order |-> IF Len(order) > MaxEntries THEN Tail(order) ELSE order]
  BY DEF Put
<1>8. k \notin DOMAIN c.m /\ Len(order) > MaxEntries /\ Head(order) = k
        => k \in Range(c.order)
  <2> SUFFICES ASSUME k \notin DOMAIN c.m, Len(order) > MaxEntries, Head(order) = k
               PROVE  k \in Range(c.order)
    OBVIOUS
  <2>1. Len(c.order) >= 1 /\ Append(c.order, k)[1] = c.order[1]
    BY <1>1
  <2>2. Head(Append(c.order, k)) = c.order[1] /\ 1 \in DOMAIN c.order
    BY <1>1, <2>1
  <2>3. QED
    BY <2>2 DEF Range
<1>9. k \in DOMAIN c.m => ~(Len(order) > MaxEntries)
  BY <1>1
<1> HIDE DEF m, order
<1>10. CASE Len(order) > MaxEntries
  <2>1. /\ d.m = Drop(m, Head(order)) /\ d.order = Tail(order)
        /\ d = [m |-> d.m, order |-> d.order]
    BY <1>7, <1>10
  <2>2. /\ Tail(order) \in Seq(Keys) /\ Len(Tail(order)) = Len(order) - 1
        /\ DOMAIN Tail(order) = 1 .. Len(order) - 1 /\ DOMAIN order = 1 .. Len(order)
        /\ \A i \in 1 .. Len(order) - 1 : Tail(order)[i] = order[i + 1]
        /\ Head(order) = order[1] /\ Len(order) \in Nat
    BY <1>1, <1>2, <1>10
  <2>3. /\ DOMAIN d.m = DOMAIN m \ {Head(order)}
        /\ \A x \in DOMAIN d.m : d.m[x] = m[x]
        /\ d.m = [x \in DOMAIN d.m |-> d.m[x]]
    BY <2>1 DEF Drop, Restrict
  <2>4. ASSUME NEW x \in DOMAIN d.m PROVE x \in Range(d.order)
    <3>1. PICK i \in 1 .. Len(order) : x = order[i]
      BY <1>6, <2>2, <2>3 DEF Range
    <3>2. i - 1 \in 1 .. Len(order) - 1 /\ Tail(order)[i - 1] = x
      <4>1. i # 1
        BY <2>2, <2>3, <3>1
      <4>2. i - 1 \in 1 .. Len(order) - 1 /\ (i - 1) + 1 = i
        BY <2>2, <4>1
      <4>3. QED
        BY <2>2, <3>1, <4>2
    <3>3. QED
      BY <2>1, <2>2, <3>2 DEF Range
  <2>5. IsMap(d.m)
    BY <1>5, <2>3 DEF IsMap
  <2>6. CacheOK(d)
    BY <1>1, <1>2, <2>1, <2>2, <2>4, <2>5 DEF CacheOK
  <2>7. k \in DOMAIN d.m \/ k \in Range(c.order) \ DOMAIN c.m
    BY <1>3, <1>8, <1>9, <1>10, <2>3
  <2>8. QED
    BY <1>3, <2>3, <2>6, <2>7
<1>11. CASE ~(Len(order) > MaxEntries)
  <2>1. d.m = m /\ d.order = order /\ d = [m |-> d.m, order |-> d.order]
    BY <1>7, <1>11
  <2>2. Len(order) <= MaxEntries
    BY <1>1, <1>2, <1>11
  <2>3. CacheOK(d)
    BY <1>2, <1>5, <1>6, <2>1, <2>2 DEF CacheOK
  <2>4. QED
    BY <1>3, <2>1, <2>3
<1>12. QED
  BY <1>10, <1>11

\* A lookup removes entries only.
LEMMA GetCache ==
  ASSUME NEW c, CacheOK(c), NEW k
  PROVE  LET d == AfterGet(c, k) IN
         /\ CacheOK(d)
         /\ \A x \in DOMAIN d.m : x \in DOMAIN c.m /\ d.m[x] = c.m[x]
<1> DEFINE m == Drop(c.m, k)
           d == [c EXCEPT !.m = m]
<1>1. /\ DOMAIN m = DOMAIN c.m \ {k} /\ \A x \in DOMAIN m : m[x] = c.m[x]
      /\ m = [x \in DOMAIN m |-> m[x]]
  BY DEF Drop, Restrict
<1>2. IsMap(m)
  BY <1>1 DEF CacheOK, IsMap
<1> HIDE DEF m
<1>3. d = [m |-> m, order |-> c.order]
  BY DEF CacheOK
<1>4. d.m = m /\ d.order = c.order /\ d = [m |-> d.m, order |-> d.order]
  BY <1>3
<1> HIDE DEF d
<1>5. CacheOK(d)
  BY <1>1, <1>2, <1>4 DEF CacheOK
<1>6. AfterGet(c, k) \in {c, d}
  BY DEF AfterGet, d, m
<1>7. QED
  BY <1>1, <1>4, <1>5, <1>6

\* The empty cache, which a start and a flush leave.
LEMMA EmptyCache ==
  /\ IsMap(Empty)
  /\ CacheOK([m |-> Empty, order |-> <<>>])
  /\ \A j, s : Honest(Empty, j, s)
<1>1. DOMAIN Empty = {} /\ Empty = [k \in DOMAIN Empty |-> Empty[k]]
  BY DEF Empty
<1>2. IsMap(Empty)
  BY <1>1 DEF IsMap
<1>3. /\ <<>> \in Seq(Keys) /\ Len(<<>>) = 0 /\ 0 <= MaxEntries
  BY CacheAssumption
<1>4. QED
  BY <1>1, <1>2, <1>3 DEF CacheOK, Honest

\* Requests keep what they asked for, and what has been saved stays saved.
Onward(j, j2, s, s2) ==
  \A q \in Requests : /\ j2[q].ask = j[q].ask
                      /\ s2[q].ck \in Nat /\ s[q].ck <= s2[q].ck
                      /\ s2[q].sem \in Nat /\ s[q].sem <= s2[q].sem

\* What has been said about entries, index and answers stays true then.
LEMMA OnwardKeeps ==
  ASSUME NEW j, NEW j2, NEW s, NEW s2, Onward(j, j2, s, s2),
         \A q \in Requests : s[q].ck \in Nat /\ s[q].sem \in Nat
  PROVE  /\ \A m, m2 :
              /\ IsMap(m) /\ Honest(m, j, s)
              /\ \A k \in DOMAIN m2 : k \in DOMAIN m /\ m2[k] = m[k]
              => Honest(m2, j2, s2)
         /\ \A e \in IndexEntries : \A d : Indexed(e, d, j, s) => Indexed(e, d, j2, s2)
         /\ \A r, q \in Requests : NearEnough(r, q, j) => NearEnough(r, q, j2)
         /\ \A r \in Requests : \A a \in [src : Sources, body : Requests] :
              GoodAnswer(a, r, j) => GoodAnswer(a, r, j2)
<1>1. \A q \in Requests : CacheKey(j2[q]) = CacheKey(j[q])
  BY DEF Onward, CacheKey
<1>2. ASSUME NEW m, NEW m2, IsMap(m), Honest(m, j, s),
             \A k \in DOMAIN m2 : k \in DOMAIN m /\ m2[k] = m[k]
      PROVE  Honest(m2, j2, s2)
  <2> SUFFICES ASSUME NEW k \in DOMAIN m2
               PROVE  LET b == m2[k].body IN
                      \/ k = CacheKey(j2[b]) /\ m2[k].at <= s2[b].ck
                      \/ k = <<"sem", b>> /\ m2[k].at \in 1 .. s2[b].sem
    BY DEF Honest
  <2> DEFINE b == m[k].body
  <2>1. m2[k] = m[k] /\ b \in Requests /\ m[k].at \in Nat
    BY <1>2 DEF IsMap, Entries
  <2>2. \/ k = CacheKey(j[b]) /\ m[k].at <= s[b].ck
        \/ k = <<"sem", b>> /\ m[k].at \in 1 .. s[b].sem
    BY <1>2 DEF Honest
  <2>3. /\ s[b].ck <= s2[b].ck /\ s[b].sem <= s2[b].sem
        /\ s[b].ck \in Nat /\ s[b].sem \in Nat /\ s2[b].ck \in Nat /\ s2[b].sem \in Nat
    BY <2>1 DEF Onward
  <2> HIDE DEF b
  <2>4. CASE k = CacheKey(j[b]) /\ m[k].at <= s[b].ck
    BY <1>1, <2>1, <2>3, <2>4 DEF b
  <2>5. CASE k = <<"sem", b>> /\ m[k].at \in 1 .. s[b].sem
    BY <2>1, <2>3, <2>5 DEF b
  <2>6. QED
    BY <2>2, <2>4, <2>5
<1>3. ASSUME NEW e \in IndexEntries, NEW d, Indexed(e, d, j, s) PROVE Indexed(e, d, j2, s2)
  <2>1. e.key[2] \in Requests
    BY DEF IndexEntries
  <2>2. QED
    BY <1>3, <2>1 DEF Indexed, Onward
<1>4. \A r, q \in Requests : NearEnough(r, q, j) => NearEnough(r, q, j2)
  BY DEF NearEnough, Onward
<1>5. \A r \in Requests : \A a \in [src : Sources, body : Requests] :
        GoodAnswer(a, r, j) => GoodAnswer(a, r, j2)
  BY <1>1, <1>4 DEF GoodAnswer
<1>6. QED
  BY <1>2, <1>3, <1>4, <1>5

-----------------------------------------------------------------------------
(***************************************************************************)
(* Steps.  What a replica's caches become in a step that writes no entry.  *)
(***************************************************************************)
OnlyLess == \A d \in Replicas :
  /\ CacheOK(local'[d])
  /\ \A k \in DOMAIN local'[d].m : k \in DOMAIN local[d].m /\ local'[d].m[k] = local[d].m[k]

\* What is known before a step, part by part.
LEMMA Known ==
  ASSUME Inv
  PROVE  /\ TypeOK /\ LocalInv /\ SharedInv /\ IndexInv /\ HandlerInv /\ HitInv
         /\ \A q \in Requests : saved[q].ck \in Nat /\ saved[q].sem \in Nat
         /\ \A d \in Replicas : IsMap(local[d].m)
         /\ \A d \in Replicas : \A i \in DOMAIN index[d] : index[d][i] \in IndexEntries
         /\ \A r \in Requests : answer[r] \in [src : Sources, body : Requests]
         /\ \A r \in Requests : job[r].sem # NoKey => job[r].sem[2] \in Requests
<1>1. TypeOK
  BY DEF Inv
<1>2. \A d \in Replicas : index[d] \in Seq(IndexEntries)
  BY <1>1 DEF TypeOK
<1>3. \A d \in Replicas : \A i \in DOMAIN index[d] : index[d][i] \in IndexEntries
  BY <1>2
<1>4. \A r \in Requests : job[r].sem \in {NoKey} \cup ({"sem"} \X Requests)
  BY <1>1, KeyKinds
<1>5. QED
  BY <1>1, <1>3, <1>4 DEF Inv, TypeOK

\* The parts of the invariant that are about entries, index and answers, after a
\* step of the requests R and the environment that writes no entry.
LEMMA DataKept ==
  ASSUME Inv, OnlyLess, Onward(job, job', saved, saved'),
         redis' = redis,
         \A d \in Replicas : index'[d] \in {index[d], <<>>},
         \A q \in Requests : \/ answer'[q] = answer[q]
                             \/ /\ GoodAnswer(answer'[q], q, job)
                                /\ answer'[q] \in [src : Sources, body : Requests]
  PROVE  LocalInv' /\ SharedInv' /\ IndexInv' /\ HitInv'
<1>0. /\ LocalInv /\ SharedInv /\ IndexInv /\ HitInv /\ IsMap(redis)
      /\ \A q \in Requests : saved[q].ck \in Nat /\ saved[q].sem \in Nat
      /\ \A d \in Replicas : IsMap(local[d].m)
      /\ \A d \in Replicas : \A i \in DOMAIN index[d] : index[d][i] \in IndexEntries
      /\ \A r \in Requests : answer[r] \in [src : Sources, body : Requests]
  BY Known DEF TypeOK
<1>1. /\ \A m, m2 :
           /\ IsMap(m) /\ Honest(m, job, saved)
           /\ \A k \in DOMAIN m2 : k \in DOMAIN m /\ m2[k] = m[k]
           => Honest(m2, job', saved')
      /\ \A e \in IndexEntries : \A d : Indexed(e, d, job, saved) => Indexed(e, d, job', saved')
      /\ \A r \in Requests : \A a \in [src : Sources, body : Requests] :
           GoodAnswer(a, r, job) => GoodAnswer(a, r, job')
  BY <1>0, OnwardKeeps
<1>2. LocalInv'
  BY <1>0, <1>1 DEF LocalInv, OnlyLess
<1>3. SharedInv'
  BY <1>0, <1>1 DEF SharedInv
<1>4. IndexInv'
  <2> SUFFICES ASSUME NEW d \in Replicas, NEW i \in DOMAIN index'[d]
               PROVE  Indexed(index'[d][i], d, job', saved')
    BY DEF IndexInv
  <2>1. index'[d] = index[d]
    OBVIOUS
  <2>2. QED
    BY <1>0, <1>1, <2>1 DEF IndexInv
<1>5. HitInv'
  BY <1>0, <1>1 DEF HitInv
<1>6. QED
  BY <1>2, <1>3, <1>4, <1>5

\* A step of r between lookups: only r's place, answer and semantic key change,
\* and a local cache may lose an expired entry.
Looks(r) ==
  /\ UNCHANGED <<now, index, redis, saved>> /\ faults' \in Nat
  /\ DOMAIN local' = Replicas /\ OnlyLess
  /\ \E place \in Places \ {"putShared", "putSem", "putSemShared", "index"} :
       pc' = [pc EXCEPT ![r] = place] /\ pc[r] \in UnsavedPlaces
  /\ answer' = answer \/ \E a \in [src : Sources, body : Requests] :
       answer' = [answer EXCEPT ![r] = a] /\ GoodAnswer(a, r, job)
  /\ job' = job \/ \E k \in {"sem"} \X Requests, f \in BOOLEAN :
       /\ job' = [job EXCEPT ![r].sem = k, ![r].fresh = f]
       /\ f => k = <<"sem", r>>
       /\ k[2] = r \/ NearEnough(r, k[2], job)

LEMMA LooksInv ==
  ASSUME Inv, NEW r \in Requests, Looks(r)
  PROVE  Inv'
<1>0. /\ TypeOK /\ HandlerInv
      /\ \A q \in Requests : saved[q].ck \in Nat /\ saved[q].sem \in Nat
      /\ \A q \in Requests : job[q].sem # NoKey => job[q].sem[2] \in Requests
  BY Known
<1>1. PICK place \in Places \ {"putShared", "putSem", "putSemShared", "index"} :
        pc' = [pc EXCEPT ![r] = place]
  BY DEF Looks
<1> DEFINE JobOK ==
             /\ job' \in [Requests -> Jobs]
             /\ \A q \in Requests : job'[q].ask = job[q].ask /\ (q # r => job'[q] = job[q])
             /\ job'[r].fresh => job'[r].sem = <<"sem", r>>
             /\ job'[r].sem # NoKey => job'[r].sem[2] = r \/ NearEnough(r, job'[r].sem[2], job)
             /\ job'[r].sem # NoKey => job'[r].sem[2] \in Requests
<1>2. JobOK
  <2>1. CASE job' = job
    BY <1>0, <2>1 DEF TypeOK, HandlerInv
  <2>2. ASSUME NEW k \in {"sem"} \X Requests, NEW f \in BOOLEAN,
               job' = [job EXCEPT ![r].sem = k, ![r].fresh = f],
               f => k = <<"sem", r>>,
               k[2] = r \/ NearEnough(r, k[2], job)
        PROVE  JobOK
    <3>1. job[r] \in Jobs
      BY <1>0 DEF TypeOK
    <3>2. job'[r] = [job[r] EXCEPT !.sem = k, !.fresh = f]
      BY <1>0, <2>2 DEF TypeOK
    <3>3. job'[r].ask = job[r].ask /\ job'[r].sem = k /\ job'[r].fresh = f /\ job'[r] \in Jobs
      BY <3>1, <3>2 DEF Jobs
    <3>4. \A q \in Requests : q # r => job'[q] = job[q]
      BY <1>0, <2>2 DEF TypeOK
    <3>5. job' \in [Requests -> Jobs]
      BY <1>0, <2>2, <3>3, <3>4 DEF TypeOK
    <3>6. QED
      BY <2>2, <3>3, <3>4, <3>5
  <2>3. QED
    BY <2>1, <2>2 DEF Looks
<1>3. Onward(job, job', saved, saved')
  BY <1>0, <1>2 DEF Onward, Looks
<1>4. \A q \in Requests : \/ answer'[q] = answer[q]
                          \/ /\ GoodAnswer(answer'[q], q, job)
                             /\ answer'[q] \in [src : Sources, body : Requests]
  <2>1. ASSUME NEW a \in [src : Sources, body : Requests],
               answer' = [answer EXCEPT ![r] = a], GoodAnswer(a, r, job), NEW q \in Requests
        PROVE  answer'[q] = answer[q] \/ (GoodAnswer(answer'[q], q, job) /\ answer'[q] = a)
    <3>1. answer \in [Requests -> [src : Sources, body : Requests]]
      BY <1>0 DEF TypeOK
    <3>2. CASE q = r
      <4>1. answer'[q] = a
        BY <2>1, <3>1, <3>2
      <4>2. QED
        BY <2>1, <3>2, <4>1
    <3>3. CASE q # r
      BY <2>1, <3>1, <3>3
    <3>4. QED
      BY <3>2, <3>3
  <2>2. CASE answer' = answer
    BY <2>2
  <2>3. CASE answer' # answer
    <3>1. PICK a \in [src : Sources, body : Requests] :
            answer' = [answer EXCEPT ![r] = a] /\ GoodAnswer(a, r, job)
      BY <2>3 DEF Looks
    <3>2. QED
      BY <2>1, <3>1
  <2>4. QED
    BY <2>2, <2>3
<1>5. LocalInv' /\ SharedInv' /\ IndexInv' /\ HitInv'
  BY <1>3, <1>4, DataKept DEF Looks
<1>6. TypeOK'
  <2>1. pc' \in [Requests -> Places]
    BY <1>0, <1>1 DEF TypeOK
  <2>2. answer' \in [Requests -> [src : Sources, body : Requests]]
    <3>1. answer \in [Requests -> [src : Sources, body : Requests]]
      BY <1>0 DEF TypeOK
    <3>2. \A a \in [src : Sources, body : Requests] :
            [answer EXCEPT ![r] = a] \in [Requests -> [src : Sources, body : Requests]]
      BY <3>1
    <3>3. QED
      BY <3>1, <3>2 DEF Looks
  <2>3. \A d \in Replicas : CacheOK(local'[d])
    BY DEF Looks, OnlyLess
  <2>4. QED
    BY <1>0, <1>2, <2>1, <2>2, <2>3 DEF TypeOK, Looks, CacheOK
<1>7. HandlerInv'
  <2>1. \A q, p \in Requests : NearEnough(q, p, job) => NearEnough(q, p, job')
    BY <1>2 DEF NearEnough
  <2>2. ASSUME NEW q \in Requests
        PROVE  /\ job'[q].fresh => job'[q].sem = <<"sem", q>>
               /\ job'[q].sem # NoKey => job'[q].sem[2] = q \/ NearEnough(q, job'[q].sem[2], job')
    <3>1. CASE q = r
      BY <1>2, <2>1, <3>1
    <3>2. CASE q # r
      BY <1>0, <1>2, <2>1, <3>2 DEF HandlerInv
    <3>3. QED
      BY <3>1, <3>2
  <2>3. ASSUME NEW q \in Requests
        PROVE  /\ pc'[q] \in {"putSem", "putSemShared", "index"} => job'[q].fresh
               /\ pc'[q] \in UnsavedPlaces => saved'[q].sem = 0
               /\ pc'[q] \in {"putSemShared", "index"} => saved'[q].sem > 0
               /\ saved'[q].ck <= now' /\ saved'[q].sem <= now'
    <3>1. UNCHANGED <<saved, now>> /\ pc[r] \in UnsavedPlaces
      BY DEF Looks
    <3>2. CASE q = r
      <4>1. pc'[q] = place
        BY <1>0, <1>1, <3>2 DEF TypeOK
      <4>2. QED
        BY <1>0, <3>1, <3>2, <4>1 DEF HandlerInv
    <3>3. CASE q # r
      <4>1. pc'[q] = pc[q]
        BY <1>0, <1>1, <3>3 DEF TypeOK
      <4>2. QED
        BY <1>0, <1>2, <3>1, <3>3, <4>1 DEF HandlerInv
    <3>4. QED
      BY <3>2, <3>3
  <2>4. QED
    BY <2>2, <2>3 DEF HandlerInv
<1>8. QED
  BY <1>5, <1>6, <1>7 DEF Inv

\* A hit of either tier, on an honest entry, is a good answer: a semantic key is
\* never an exact one, and a request's own has no entry before its write-back.  The
\* entry is no younger than the last write under the key of its kind.
LEMMA GoodHit ==
  ASSUME Inv, NEW r \in Requests, pc[r] \in {"sem", "semShared", "exact", "exactShared"},
         NEW m, IsMap(m), Honest(m, job, saved), Sought(r) \in DOMAIN m,
         NEW a, a = [src |-> HitKind(r), body |-> m[Sought(r)].body]
  PROVE  /\ a \in [src : Sources, body : Requests] /\ GoodAnswer(a, r, job)
         /\ m[Sought(r)].at <= IF a.src = "exact" THEN saved[a.body].ck ELSE saved[a.body].sem
<1> DEFINE k == Sought(r)
           b == m[k].body
<1>1. /\ k \in Keys /\ b \in Requests /\ m[k].at \in Nat
      /\ saved[r].sem \in Nat /\ saved[b].ck \in Nat /\ saved[b].sem \in Nat
  BY Known DEF IsMap, Entries
<1>2. \/ k = CacheKey(job[b]) /\ m[k].at <= saved[b].ck
      \/ k = <<"sem", b>> /\ m[k].at \in 1 .. saved[b].sem
  BY DEF Honest
<1>3. HitKind(r) \in Sources
  BY DEF HitKind, Sources
<1>4. a.src = HitKind(r) /\ a.body = b /\ a \in [src : Sources, body : Requests]
  BY <1>1, <1>3
<1>5. TypeOK /\ HandlerInv
  BY Known
<1>6. /\ \A q : CacheKey(job[r]) # <<"sem", q>>
      /\ \A q : CacheKey(job[b]) # <<"sem", q>>
      /\ job[r].sem \in {NoKey} \cup ({"sem"} \X Requests)
  BY <1>1, <1>5, KeyKinds
<1> HIDE DEF k, b
<1>7. CASE pc[r] \in {"sem", "semShared"}
  <2>1. k = job[r].sem /\ a.src = "semantic"
    BY <1>4, <1>7 DEF k, Sought, HitKind
  <2>2. k # NoKey
    BY <1>1 DEF Keys, NoKey
  <2>3. PICK q \in Requests : k = <<"sem", q>>
    BY <1>6, <2>1, <2>2
  <2>4. k = <<"sem", b>> /\ m[k].at \in 1 .. saved[b].sem
    BY <1>2, <1>6, <2>3
  <2>5. k[2] = b
    BY <2>4
  <2>6. b = r \/ NearEnough(r, b, job)
    BY <1>5, <2>1, <2>2, <2>5 DEF HandlerInv
  <2>7. saved[r].sem = 0
    BY <1>5, <1>7 DEF HandlerInv, UnsavedPlaces
  <2>8. b # r
    BY <1>1, <2>4, <2>7
  <2>9. QED
    BY <1>1, <1>4, <2>1, <2>4, <2>6, <2>8 DEF GoodAnswer, k, b
<1>8. CASE pc[r] \in {"exact", "exactShared"}
  <2>1. k = CacheKey(job[r]) /\ a.src = "exact"
    BY <1>4, <1>8 DEF k, Sought, HitKind
  <2>2. k = CacheKey(job[b]) /\ m[k].at <= saved[b].ck
    BY <1>2, <1>6, <2>1
  <2>3. QED
    BY <1>1, <1>4, <2>1, <2>2 DEF GoodAnswer, k, b
<1>9. QED
  BY <1>7, <1>8

\* Local caches untouched, or one of them looked into.
LEMMA LocalLess ==
  ASSUME Inv, NEW d \in Replicas, NEW k,
         local' = local \/ local' = [local EXCEPT ![d] = AfterGet(@, k)]
  PROVE  DOMAIN local' = Replicas /\ OnlyLess
<1>1. DOMAIN local = Replicas /\ \A e \in Replicas : CacheOK(local[e])
  BY Known DEF TypeOK, LocalInv
<1>2. CASE local' = local
  BY <1>1, <1>2 DEF OnlyLess
<1>3. CASE local' = [local EXCEPT ![d] = AfterGet(@, k)]
  <2>1. DOMAIN local' = Replicas /\ local'[d] = AfterGet(local[d], k)
    BY <1>1, <1>3
  <2>2. \A e \in Replicas : e # d => local'[e] = local[e]
    BY <1>1, <1>3
  <2>3. /\ CacheOK(local'[d])
        /\ \A x \in DOMAIN local'[d].m : x \in DOMAIN local[d].m /\ local'[d].m[x] = local[d].m[x]
    BY <1>1, <2>1, GetCache
  <2>4. QED
    BY <1>1, <2>1, <2>2, <2>3 DEF OnlyLess
<1>4. QED
  BY <1>2, <1>3

\* What AfterMiss can say.
LEMMA Misses ==
  ASSUME NEW r, pc[r] \in {"sem", "semShared", "exact", "exactShared"}
  PROVE  AfterMiss(r) \in {"semShared", "exact", "exactShared", "upstream"}
BY DEF AfterMiss

\* Each step of a handler before its write-back is such a step.
LEMMA Lookups ==
  ASSUME Inv, NEW r \in Requests,
         \/ SkipCache(r) \/ ExactOnly(r) \/ EmbedAndSearch(r)
         \/ LookUpLocal(r) \/ LookUpShared(r) \/ Call(r)
  PROVE  Looks(r)
<1>0. /\ TypeOK /\ LocalInv /\ SharedInv /\ IndexInv /\ HandlerInv
      /\ job[r].ask.rep \in Replicas /\ faults \in Nat /\ IsMap(redis)
      /\ \A d \in Replicas : IsMap(local[d].m)
  BY Known, KeyKinds DEF TypeOK
<1> DEFINE Answers == [src : Sources, body : Requests]
<1>1. local' = local => DOMAIN local' = Replicas /\ OnlyLess
  BY <1>0, LocalLess
<1>2. CASE SkipCache(r)
  BY <1>0, <1>1, <1>2 DEF SkipCache, Arrives, Goto, Looks, Places, UnsavedPlaces
<1>3. CASE ExactOnly(r)
  <2>1. /\ UNCHANGED <<now, local, index, redis, job, answer, saved>>
        /\ pc' = [pc EXCEPT ![r] = "exact"] /\ pc[r] = "idle"
    BY <1>3 DEF ExactOnly, Arrives, Goto
  <2>2. faults' \in Nat
    BY <1>0, <1>3 DEF ExactOnly, CountFault
  <2>3. QED
    BY <1>0, <1>1, <2>1, <2>2 DEF Looks, Places, UnsavedPlaces
<1>4. CASE EmbedAndSearch(r)
  <2> DEFINE s     == index[job[r].ask.rep]
             p     == job[r].ask.prompt
             found == Search(s, p)
  <2>1. /\ UNCHANGED <<now, index, redis, saved, local, answer, faults>>
        /\ pc' = [pc EXCEPT ![r] = "sem"] /\ pc[r] = "idle"
    BY <1>4 DEF EmbedAndSearch, Goto, Arrives
  <2>2. ASSUME NEW i \in found PROVE s[i].key \in {"sem"} \X Requests /\ NearEnough(r, s[i].key[2], job)
    <3>1. i \in DOMAIN s /\ Sim[p][s[i].vec] >= Threshold
      BY DEF Search, Near
    <3>2. s[i] \in IndexEntries /\ Indexed(s[i], job[r].ask.rep, job, saved)
      BY <1>0, <3>1, Known DEF IndexInv
    <3>3. QED
      BY <3>1, <3>2 DEF IndexEntries, Indexed, NearEnough
  <2>3. \E k \in {"sem"} \X Requests, f \in BOOLEAN :
          /\ job' = [job EXCEPT ![r].sem = k, ![r].fresh = f]
          /\ f => k = <<"sem", r>>
          /\ k[2] = r \/ NearEnough(r, k[2], job)
    <3>1. CASE \E i \in found : job' = [job EXCEPT ![r].sem = s[i].key, ![r].fresh = FALSE]
      <4>1. PICK i \in found : job' = [job EXCEPT ![r].sem = s[i].key, ![r].fresh = FALSE]
        BY <3>1
      <4>2. QED
        BY <2>2, <4>1
    <3>2. CASE job' = [job EXCEPT ![r].sem = <<"sem", r>>, ![r].fresh = TRUE]
      <4>1. <<"sem", r>> \in {"sem"} \X Requests /\ <<"sem", r>>[2] = r
        OBVIOUS
      <4>2. QED
        BY <3>2, <4>1
    <3>3. QED
      BY <1>4, <3>1, <3>2 DEF EmbedAndSearch
  <2>4. QED
    BY <1>0, <1>1, <2>1, <2>3 DEF Looks, Places, UnsavedPlaces
<1>5. CASE LookUpLocal(r)
  <2> DEFINE d == job[r].ask.rep
             k == Sought(r)
             a == [src |-> HitKind(r), body |-> local[d].m[k].body]
  <2>1. /\ UNCHANGED <<now, index, redis, saved, job, faults>>
        /\ pc[r] \in {"sem", "exact"}
        /\ local' = [local EXCEPT ![d] = AfterGet(@, k)]
    BY <1>5 DEF LookUpLocal
  <2>2. DOMAIN local' = Replicas /\ OnlyLess
    BY <1>0, <2>1, LocalLess
  <2>3. CASE Live(local[d].m, k) /\ Answer(r, HitKind(r), local[d].m[k].body) /\ Goto(r, "done")
    <3>1. a \in Answers /\ GoodAnswer(a, r, job)
      BY <1>0, <2>1, <2>3, GoodHit DEF Live, LocalInv
    <3>2. answer' = [answer EXCEPT ![r] = a] /\ pc' = [pc EXCEPT ![r] = "done"]
      BY <2>3 DEF Answer, Goto
    <3>3. QED
      BY <1>0, <2>1, <2>2, <3>1, <3>2 DEF Looks, Places, UnsavedPlaces
  <2>4. CASE Goto(r, AfterMiss(r)) /\ UNCHANGED answer
    <3>1. AfterMiss(r) \in Places \ {"putShared", "putSem", "putSemShared", "index"}
      BY <2>1, Misses DEF Places
    <3>2. QED
      BY <1>0, <2>1, <2>2, <2>4, <3>1 DEF Looks, Goto, UnsavedPlaces
  <2>5. QED
    BY <1>5, <2>3, <2>4 DEF LookUpLocal
<1>6. CASE LookUpShared(r)
  <2> DEFINE k == Sought(r)
             a == [src |-> HitKind(r), body |-> redis[k].body]
  <2>1. /\ UNCHANGED <<now, local, index, redis, saved, job>> /\ faults' \in Nat
        /\ pc[r] \in {"semShared", "exactShared"}
    BY <1>0, <1>6 DEF LookUpShared, CountFault
  <2>2. DOMAIN local' = Replicas /\ OnlyLess
    BY <1>1, <2>1
  <2>3. CASE Live(redis, k) /\ Answer(r, HitKind(r), redis[k].body) /\ Goto(r, "done")
    <3>1. a \in Answers /\ GoodAnswer(a, r, job)
      BY <1>0, <2>1, <2>3, GoodHit DEF Live, SharedInv
    <3>2. answer' = [answer EXCEPT ![r] = a] /\ pc' = [pc EXCEPT ![r] = "done"]
      BY <2>3 DEF Answer, Goto
    <3>3. QED
      BY <1>0, <2>1, <2>2, <3>1, <3>2 DEF Looks, Places, UnsavedPlaces
  <2>4. CASE Goto(r, AfterMiss(r)) /\ UNCHANGED answer
    <3>1. AfterMiss(r) \in Places \ {"putShared", "putSem", "putSemShared", "index"}
      BY <2>1, Misses DEF Places
    <3>2. QED
      BY <1>0, <2>1, <2>2, <2>4, <3>1 DEF Looks, Goto, UnsavedPlaces
  <2>5. QED
    BY <1>6, <2>3, <2>4 DEF LookUpShared
<1>7. CASE Call(r)
  <2>1. /\ UNCHANGED <<now, local, index, redis, saved, job, faults>> /\ pc[r] = "upstream"
        /\ \E src \in {"upstream", "failed"}, place \in {"done", "put"} :
             answer' = [answer EXCEPT ![r] = [src |-> src, body |-> r]]
               /\ pc' = [pc EXCEPT ![r] = place]
    BY <1>7 DEF Call, Answer, Goto
  <2>2. \A src \in {"upstream", "failed"} :
          LET a == [src |-> src, body |-> r] IN a \in Answers /\ GoodAnswer(a, r, job)
    BY DEF GoodAnswer, Sources
  <2>3. QED
    BY <1>0, <1>1, <2>1, <2>2 DEF Looks, Places, UnsavedPlaces
<1>8. QED
  BY <1>2, <1>3, <1>4, <1>5, <1>6, <1>7

-----------------------------------------------------------------------------
(***************************************************************************)
(* The write-back.                                                         *)
(***************************************************************************)

\* A step of r that writes its answer under one of its keys, or fails to: what it
\* may move on to, and what the caches it is written to become.
Writes(r, place) ==
  /\ UNCHANGED <<now, index, job, answer>> /\ faults' \in Nat
  /\ pc' = [pc EXCEPT ![r] = place]
  /\ Note(r) \/ (UNCHANGED saved /\ pc[r] \in {"putShared", "putSemShared"})
  /\ \/ pc[r] \in {"put", "putShared"} /\ place \in {"putShared", AfterWrite(r)}
     \/ pc[r] \in {"putSem", "putSemShared"} /\ place \in {"putSemShared", "index"}

LEMMA WritesInv ==
  ASSUME Inv, NEW r \in Requests, NEW place, Writes(r, place)
  PROVE  /\ pc' \in [Requests -> Places]
         /\ saved' \in [Requests -> [ck : Nat, sem : Nat]]
         /\ Written(r) \in Keys
         /\ HandlerInv' /\ IndexInv' /\ HitInv'
         /\ \A m, m2 :
              /\ IsMap(m) /\ Honest(m, job, saved)
              /\ \A x \in DOMAIN m2 : \/ Note(r) /\ x = Written(r) /\ m2[x] = Entry(r, now)
                                      \/ x \in DOMAIN m /\ m2[x] = m[x]
              => Honest(m2, job', saved')
<1>0. /\ TypeOK /\ HandlerInv /\ IndexInv /\ HitInv
      /\ \A q \in Requests : saved[q].ck \in Nat /\ saved[q].sem \in Nat
      /\ \A d \in Replicas : \A i \in DOMAIN index[d] : index[d][i] \in IndexEntries
      /\ \A q \in Requests : answer[q] \in [src : Sources, body : Requests]
  BY Known
<1>1. /\ now \in Nat /\ now >= 1
      /\ saved \in [Requests -> [ck : Nat, sem : Nat]] /\ pc \in [Requests -> Places]
  BY <1>0 DEF TypeOK
<1>2. /\ UNCHANGED <<now, index, job, answer>> /\ pc' = [pc EXCEPT ![r] = place]
      /\ pc[r] \in {"put", "putShared", "putSem", "putSemShared"}
  BY DEF Writes
<1>3. /\ place \in {"putShared", "putSem", "putSemShared", "index", "done"}
      /\ place \in {"putSem", "putSemShared", "index"} => job[r].fresh
      /\ pc[r] \in {"put", "putShared"} => place \in {"putShared", "putSem", "done"}
      /\ pc[r] \in {"putSem", "putSemShared"} => place \in {"putSemShared", "index"}
  <2>1. CASE pc[r] \in {"put", "putShared"}
    BY <2>1 DEF Writes, AfterWrite
  <2>2. CASE pc[r] \in {"putSem", "putSemShared"}
    <3>1. job[r].fresh
      BY <1>0, <2>2 DEF HandlerInv
    <3>2. QED
      BY <2>2, <3>1 DEF Writes
  <2>3. QED
    BY <1>2, <2>1, <2>2
<1>4. pc' \in [Requests -> Places]
  BY <1>1, <1>2, <1>3 DEF Places
<1>5. /\ saved' \in [Requests -> [ck : Nat, sem : Nat]]
      /\ \A q \in Requests : q # r => saved'[q] = saved[q]
      /\ pc[r] \in {"put", "putShared"} => saved'[r].sem = saved[r].sem
      /\ pc[r] \in {"putSem", "putSemShared"} => saved'[r].ck = saved[r].ck
      /\ saved'[r].ck \in {saved[r].ck, now} /\ saved'[r].sem \in {saved[r].sem, now}
      /\ Note(r) => /\ pc[r] \in {"put", "putShared"} => saved'[r].ck = now
                    /\ pc[r] \in {"putSem", "putSemShared"} => saved'[r].sem = now
      /\ ~Note(r) => saved' = saved /\ pc[r] \in {"putShared", "putSemShared"}
  <2>1. CASE saved' = saved
    BY <1>1, <2>1 DEF Writes, Note
  <2>2. CASE pc[r] \in {"put", "putShared"} /\ saved' = [saved EXCEPT ![r].ck = now]
    <3>1. saved'[r] = [saved[r] EXCEPT !.ck = now] /\ saved[r] \in [ck : Nat, sem : Nat]
      BY <1>1, <2>2
    <3>2. /\ saved'[r].ck = now /\ saved'[r].sem = saved[r].sem
          /\ saved'[r] \in [ck : Nat, sem : Nat]
      BY <1>1, <3>1
    <3>3. saved' \in [Requests -> [ck : Nat, sem : Nat]]
      BY <1>1, <2>2, <3>2
    <3>4. QED
      BY <1>1, <2>2, <3>2, <3>3 DEF Note
  <2>3. CASE pc[r] \in {"putSem", "putSemShared"} /\ saved' = [saved EXCEPT ![r].sem = now]
    <3>1. saved'[r] = [saved[r] EXCEPT !.sem = now] /\ saved[r] \in [ck : Nat, sem : Nat]
      BY <1>1, <2>3
    <3>2. /\ saved'[r].sem = now /\ saved'[r].ck = saved[r].ck
          /\ saved'[r] \in [ck : Nat, sem : Nat]
      BY <1>1, <3>1
    <3>3. saved' \in [Requests -> [ck : Nat, sem : Nat]]
      BY <1>1, <2>3, <3>2
    <3>4. QED
      BY <1>1, <2>3, <3>2, <3>3 DEF Note
  <2>4. QED
    BY <1>2, <2>1, <2>2, <2>3 DEF Writes, Note
<1>6. Onward(job, job', saved, saved')
  <2> SUFFICES ASSUME NEW q \in Requests
               PROVE  /\ job'[q].ask = job[q].ask
                      /\ saved'[q].ck \in Nat /\ saved[q].ck <= saved'[q].ck
                      /\ saved'[q].sem \in Nat /\ saved[q].sem <= saved'[q].sem
    BY DEF Onward
  <2>1. saved[q].ck <= now /\ saved[q].sem <= now
    BY <1>0 DEF HandlerInv
  <2>2. saved'[q].ck \in {saved[q].ck, now} /\ saved'[q].sem \in {saved[q].sem, now}
    BY <1>5
  <2>3. QED
    BY <1>0, <1>1, <1>2, <2>1, <2>2
<1>7. IndexInv' /\ HitInv'
  BY <1>0, <1>2, <1>6, OnwardKeeps DEF IndexInv, HitInv
<1>8. HandlerInv'
  <2> SUFFICES ASSUME NEW q \in Requests
               PROVE  /\ job[q].fresh => job[q].sem = <<"sem", q>>
                      /\ pc'[q] \in {"putSem", "putSemShared", "index"} => job[q].fresh
                      /\ job[q].sem # NoKey => job[q].sem[2] = q \/ NearEnough(q, job[q].sem[2], job)
                      /\ pc'[q] \in UnsavedPlaces => saved'[q].sem = 0
                      /\ pc'[q] \in {"putSemShared", "index"} => saved'[q].sem > 0
                      /\ saved'[q].ck <= now /\ saved'[q].sem <= now
    BY <1>2 DEF HandlerInv, NearEnough
  <2>1. CASE q # r
    BY <1>0, <1>1, <1>2, <1>5, <2>1 DEF HandlerInv
  <2>2. CASE q = r /\ pc[r] \in {"put", "putShared"}
    <3>1. pc'[r] = place /\ saved'[r].sem = 0
      BY <1>0, <1>1, <1>2, <1>5, <2>2 DEF HandlerInv, UnsavedPlaces
    <3>2. QED
      BY <1>0, <1>1, <1>3, <1>5, <2>2, <3>1 DEF HandlerInv
  <2>3. CASE q = r /\ pc[r] \in {"putSem", "putSemShared"}
    <3>1. pc'[r] = place /\ place \notin UnsavedPlaces
      BY <1>1, <1>2, <1>3, <2>3 DEF UnsavedPlaces
    <3>2. saved'[r].sem > 0
      <4>1. CASE Note(r)
        BY <1>1, <1>5, <2>3, <4>1
      <4>2. CASE ~Note(r)
        BY <1>0, <1>5, <2>3, <4>2 DEF HandlerInv
      <4>3. QED
        BY <4>1, <4>2
    <3>3. QED
      BY <1>0, <1>1, <1>3, <1>5, <2>3, <3>1, <3>2 DEF HandlerInv
  <2>4. QED
    BY <1>2, <2>1, <2>2, <2>3
<1>9. /\ pc[r] \in {"put", "putShared"} => Written(r) = CacheKey(job[r])
      /\ pc[r] \in {"putSem", "putSemShared"} => Written(r) = <<"sem", r>>
      /\ Written(r) \in Keys
  <2>1. CASE pc[r] \in {"put", "putShared"}
    BY <1>0, <2>1, KeyKinds DEF Written
  <2>2. CASE pc[r] \in {"putSem", "putSemShared"}
    <3>1. job[r].sem = <<"sem", r>>
      BY <1>0, <2>2 DEF HandlerInv
    <3>2. Written(r) = <<"sem", r>>
      BY <2>2, <3>1 DEF Written
    <3>3. <<"sem", r>> \in Keys
      BY DEF Keys
    <3>4. QED
      BY <2>2, <3>2, <3>3
  <2>3. QED
    BY <1>2, <2>1, <2>2
<1>10. ASSUME NEW m, NEW m2, IsMap(m), Honest(m, job, saved),
              \A x \in DOMAIN m2 : \/ Note(r) /\ x = Written(r) /\ m2[x] = Entry(r, now)
                                   \/ x \in DOMAIN m /\ m2[x] = m[x]
       PROVE  Honest(m2, job', saved')
  <2>1. Honest(m, job', saved')
    BY <1>0, <1>6, <1>10, OnwardKeeps
  <2> SUFFICES ASSUME NEW x \in DOMAIN m2
               PROVE  LET b == m2[x].body IN
                      \/ x = CacheKey(job'[b]) /\ m2[x].at <= saved'[b].ck
                      \/ x = <<"sem", b>> /\ m2[x].at \in 1 .. saved'[b].sem
    BY DEF Honest
  <2>2. CASE x \in DOMAIN m /\ m2[x] = m[x]
    BY <2>1, <2>2 DEF Honest
  <2>3. CASE Note(r) /\ x = Written(r) /\ m2[x] = Entry(r, now)
    <3>1. m2[x].body = r /\ m2[x].at = now
      BY <2>3 DEF Entry
    <3>2. CASE pc[r] \in {"put", "putShared"}
      BY <1>1, <1>2, <1>5, <1>9, <2>3, <3>1, <3>2
    <3>3. CASE pc[r] \in {"putSem", "putSemShared"}
      BY <1>1, <1>2, <1>5, <1>9, <2>3, <3>1, <3>3
    <3>4. QED
      BY <1>2, <3>2, <3>3
  <2>4. QED
    BY <1>10, <2>2, <2>3
<1>11. QED
  BY <1>4, <1>5, <1>7, <1>8, <1>9, <1>10

LEMMA PutLocalInv ==
  ASSUME Inv, NEW r \in Requests, PutLocal(r)
  PROVE  /\ Inv'
         /\ LET c == local[job[r].ask.rep]
                k == Written(r)
            IN  \/ k \in DOMAIN local'[job[r].ask.rep].m
                \/ k \in Range(c.order) \ DOMAIN c.m
<1> DEFINE d     == job[r].ask.rep
           k     == Written(r)
           place == IF ~Shared THEN AfterWrite(r)
                    ELSE IF pc[r] = "put" THEN "putShared" ELSE "putSemShared"
<1>0. /\ TypeOK /\ LocalInv /\ SharedInv /\ d \in Replicas /\ faults \in Nat /\ IsMap(redis)
  BY Known, KeyKinds DEF TypeOK
<1>1. /\ UNCHANGED <<now, index, redis, job, answer, faults>>
      /\ pc[r] \in {"put", "putSem"} /\ Note(r) /\ pc' = [pc EXCEPT ![r] = place]
      /\ local' = [local EXCEPT ![d] = Put(@, k, r)]
  BY DEF PutLocal, Goto
<1>2. Writes(r, place)
  BY <1>0, <1>1 DEF Writes, AfterWrite
<1> HIDE DEF place
<1>3. /\ pc' \in [Requests -> Places]
      /\ saved' \in [Requests -> [ck : Nat, sem : Nat]]
      /\ k \in Keys /\ HandlerInv' /\ IndexInv' /\ HitInv'
      /\ \A m, m2 :
           /\ IsMap(m) /\ Honest(m, job, saved)
           /\ \A x \in DOMAIN m2 : \/ Note(r) /\ x = k /\ m2[x] = Entry(r, now)
                                   \/ x \in DOMAIN m /\ m2[x] = m[x]
           => Honest(m2, job', saved')
  BY <1>2, WritesInv
<1>4. /\ DOMAIN local = Replicas /\ now \in Nat
      /\ \A e \in Replicas : CacheOK(local[e]) /\ Honest(local[e].m, job, saved)
  BY <1>0 DEF TypeOK, LocalInv
<1>5. /\ DOMAIN local' = Replicas /\ local'[d] = Put(local[d], k, r)
      /\ \A e \in Replicas : e # d => local'[e] = local[e]
  BY <1>0, <1>1, <1>4
<1>6. /\ CacheOK(local'[d])
      /\ \A x \in DOMAIN local'[d].m :
           \/ x = k /\ local'[d].m[x] = Entry(r, now)
           \/ x \in DOMAIN local[d].m /\ local'[d].m[x] = local[d].m[x]
      /\ k \in DOMAIN local'[d].m \/ k \in Range(local[d].order) \ DOMAIN local[d].m
  BY <1>0, <1>3, <1>4, <1>5, PutCache
<1>7. LocalInv'
  <2> SUFFICES ASSUME NEW e \in Replicas
               PROVE  CacheOK(local'[e]) /\ Honest(local'[e].m, job', saved')
    BY DEF LocalInv
  <2>1. IsMap(local[e].m)
    BY <1>4 DEF CacheOK
  <2>2. CASE e = d
    BY <1>1, <1>3, <1>4, <1>6, <2>1, <2>2
  <2>3. CASE e # d
    BY <1>3, <1>4, <1>5, <2>1, <2>3
  <2>4. QED
    BY <2>2, <2>3
<1>8. SharedInv'
  BY <1>0, <1>1, <1>3 DEF SharedInv
<1>9. TypeOK'
  <2>1. \A e \in Replicas : CacheOK(local'[e])
    BY <1>7 DEF LocalInv
  <2>2. QED
    BY <1>0, <1>1, <1>3, <1>5, <2>1 DEF TypeOK, CacheOK
<1>10. QED
  BY <1>3, <1>6, <1>7, <1>8, <1>9 DEF Inv

LEMMA PutSharedInv ==
  ASSUME Inv, NEW r \in Requests, PutShared(r)
  PROVE  Inv'
<1> DEFINE k == Written(r)
<1>0. /\ TypeOK /\ LocalInv /\ SharedInv /\ faults \in Nat /\ IsMap(redis) /\ now \in Nat
      /\ \A e \in Replicas : IsMap(local[e].m)
  BY Known DEF TypeOK
<1>1. /\ UNCHANGED <<now, local, index, job, answer>> /\ faults' \in Nat
      /\ pc[r] \in {"putShared", "putSemShared"} /\ pc' = [pc EXCEPT ![r] = AfterWrite(r)]
      /\ \/ redis' = Store(redis, k, Entry(r, now)) /\ Note(r)
         \/ UNCHANGED <<redis, saved>>
  BY <1>0 DEF PutShared, Goto, CountFault
<1>2. Writes(r, AfterWrite(r))
  BY <1>1 DEF Writes, AfterWrite
<1>3. /\ pc' \in [Requests -> Places]
      /\ saved' \in [Requests -> [ck : Nat, sem : Nat]]
      /\ k \in Keys /\ HandlerInv' /\ IndexInv' /\ HitInv'
      /\ \A m, m2 :
           /\ IsMap(m) /\ Honest(m, job, saved)
           /\ \A x \in DOMAIN m2 : \/ Note(r) /\ x = k /\ m2[x] = Entry(r, now)
                                   \/ x \in DOMAIN m /\ m2[x] = m[x]
           => Honest(m2, job', saved')
  BY <1>2, WritesInv
<1>4. LocalInv'
  BY <1>0, <1>1, <1>3 DEF LocalInv
<1>5. SharedInv' /\ IsMap(redis')
  <2>1. CASE UNCHANGED redis
    BY <1>0, <1>3, <2>1 DEF SharedInv
  <2>2. CASE redis' = Store(redis, k, Entry(r, now)) /\ Note(r)
    <3>1. /\ DOMAIN redis' = DOMAIN redis \cup {k} /\ redis'[k] = Entry(r, now)
          /\ \A x \in DOMAIN redis : x # k => redis'[x] = redis[x]
          /\ redis' = [x \in DOMAIN redis' |-> redis'[x]]
      BY <2>2 DEF Store
    <3>2. Entry(r, now) \in Entries
      BY <1>0 DEF Entry, Entries
    <3>3. IsMap(redis')
      BY <1>0, <1>3, <3>1, <3>2 DEF IsMap
    <3>4. \A x \in DOMAIN redis' : \/ Note(r) /\ x = k /\ redis'[x] = Entry(r, now)
                                   \/ x \in DOMAIN redis /\ redis'[x] = redis[x]
      BY <2>2, <3>1
    <3>5. QED
      BY <1>0, <1>3, <3>3, <3>4 DEF SharedInv
  <2>3. QED
    BY <1>1, <2>1, <2>2
<1>6. TypeOK'
  BY <1>0, <1>1, <1>3, <1>5 DEF TypeOK
<1>7. QED
  BY <1>3, <1>4, <1>5, <1>6 DEF Inv

\* The key goes into the index after both write-backs, with the prompt it is of.
LEMMA AddToIndexInv ==
  ASSUME Inv, NEW r \in Requests, AddToIndex(r)
  PROVE  Inv'
<1> DEFINE d == job[r].ask.rep
           p == job[r].ask.prompt
           e == [vec |-> p, key |-> job[r].sem]
           t == Append(index[d], e)
<1>0. /\ TypeOK /\ LocalInv /\ SharedInv /\ IndexInv /\ HandlerInv /\ HitInv
      /\ d \in Replicas /\ p \in Prompts
      /\ \A q \in Requests : saved[q].sem \in Nat
  BY Known, KeyKinds
<1>1. /\ UNCHANGED <<now, local, redis, job, answer, saved, faults>>
      /\ pc[r] = "index" /\ pc' = [pc EXCEPT ![r] = "done"]
      /\ index' = [index EXCEPT ![d] = Add(@, p, job[r].sem)]
  BY DEF AddToIndex, Goto
<1>2. job[r].sem = <<"sem", r>> /\ saved[r].sem > 0
  BY <1>0, <1>1 DEF HandlerInv
<1>3. e \in IndexEntries /\ Indexed(e, d, job, saved)
  BY <1>0, <1>2 DEF IndexEntries, Indexed
<1>4. /\ index \in [Replicas -> Seq(IndexEntries)] /\ index[d] \in Seq(IndexEntries)
      /\ Len(index[d]) <= MaxEntries /\ MaxEntries \in Nat \ {0}
      /\ \A i \in DOMAIN index[d] : Indexed(index[d][i], d, job, saved)
  BY <1>0, CacheAssumption DEF TypeOK, IndexInv
<1> HIDE DEF e
<1>5. /\ t \in Seq(IndexEntries) /\ Len(t) = Len(index[d]) + 1 /\ Len(index[d]) \in Nat
      /\ DOMAIN t = 1 .. Len(t) /\ DOMAIN index[d] = 1 .. Len(index[d])
      /\ t[Len(t)] = e /\ \A i \in 1 .. Len(index[d]) : t[i] = index[d][i]
  <2> DEFINE u == index[d]
  <2>1. e \in IndexEntries /\ u \in Seq(IndexEntries) /\ t = Append(u, e)
    BY <1>3, <1>4
  <2> HIDE DEF u, t
  <2>2. /\ t \in Seq(IndexEntries) /\ Len(t) = Len(u) + 1 /\ Len(u) \in Nat
        /\ DOMAIN t = 1 .. Len(t) /\ DOMAIN u = 1 .. Len(u)
    BY <2>1
  <2>3. t[Len(t)] = e /\ \A i \in 1 .. Len(u) : t[i] = u[i]
    BY <2>1, <2>2
  <2>4. QED
    BY <2>2, <2>3 DEF u
<1>6. \A i \in DOMAIN t : Indexed(t[i], d, job, saved)
  <2> SUFFICES ASSUME NEW i \in DOMAIN t
               PROVE  Indexed(t[i], d, job, saved)
    OBVIOUS
  <2>1. CASE i = Len(t)
    BY <1>3, <1>5, <2>1
  <2>2. CASE i # Len(t)
    <3>1. i \in DOMAIN index[d] /\ t[i] = index[d][i]
      BY <1>5, <2>2
    <3>2. QED
      BY <1>4, <3>1
  <2>3. QED
    BY <2>1, <2>2
<1> DEFINE s == Add(index[d], p, job[r].sem)
<1>7. s = IF Len(t) > MaxEntries THEN Tail(t) ELSE t
  BY DEF Add, e
<1> HIDE DEF t, s
<1>8. /\ s \in Seq(IndexEntries) /\ Len(s) <= MaxEntries
      /\ \A i \in DOMAIN s : Indexed(s[i], d, job, saved)
  <2>1. CASE Len(t) > MaxEntries
    <3>1. /\ s = Tail(t) /\ t # <<>> /\ t \in Seq(IndexEntries)
          /\ Len(t) \in Nat /\ Len(t) = MaxEntries + 1
      BY <1>4, <1>5, <1>7, <2>1
    <3>2. /\ s \in Seq(IndexEntries) /\ Len(s) = Len(t) - 1
          /\ \A i \in 1 .. Len(s) : s[i] = t[i + 1] /\ i + 1 \in 1 .. Len(t)
      BY <3>1
    <3>3. DOMAIN s = 1 .. Len(s)
      BY <3>2
    <3>4. QED
      BY <1>4, <1>5, <1>6, <3>1, <3>2, <3>3
  <2>2. CASE ~(Len(t) > MaxEntries)
    BY <1>4, <1>5, <1>6, <1>7, <2>2
  <2>3. QED
    BY <2>1, <2>2
<1>9. /\ index'[d] = s /\ \A x \in Replicas : x # d => index'[x] = index[x]
      /\ index' \in [Replicas -> Seq(IndexEntries)]
      /\ \A x \in Replicas : Len(index'[x]) <= MaxEntries
  <2>1. index' = [index EXCEPT ![d] = s]
    BY <1>1 DEF s
  <2>2. \A x \in Replicas : Len(index[x]) <= MaxEntries
    BY <1>0 DEF TypeOK
  <2>3. QED
    BY <1>0, <1>4, <1>8, <2>1, <2>2
<1>10. IndexInv'
  <2> SUFFICES ASSUME NEW x \in Replicas, NEW i \in DOMAIN index'[x]
               PROVE  Indexed(index'[x][i], x, job', saved')
    BY DEF IndexInv
  <2>1. Indexed(index'[x][i], x, job, saved)
    BY <1>0, <1>8, <1>9 DEF IndexInv
  <2>2. QED
    BY <1>1, <2>1
<1>11. pc' \in [Requests -> Places] /\ pc'[r] = "done"
       /\ \A q \in Requests : q # r => pc'[q] = pc[q]
  BY <1>0, <1>1 DEF TypeOK, Places
<1>12. TypeOK'
  BY <1>0, <1>1, <1>9, <1>11 DEF TypeOK
<1>13. HandlerInv'
  BY <1>0, <1>1, <1>11 DEF HandlerInv, NearEnough, UnsavedPlaces
<1>14. LocalInv' /\ SharedInv' /\ HitInv'
  BY <1>0, <1>1 DEF LocalInv, SharedInv, HitInv, Honest, GoodAnswer, CacheKey, NearEnough
<1>15. QED
  BY <1>10, <1>12, <1>13, <1>14 DEF Inv

-----------------------------------------------------------------------------
(***************************************************************************)
(* The environment, the initial state, and the theorems.                   *)
(***************************************************************************)

\* A step that writes nothing: some replicas' memory is lost, some handlers end.
LEMMA LossInv ==
  ASSUME Inv, UNCHANGED <<redis, job, saved>>, faults' \in Nat, now' \in {now, now + 1},
         DOMAIN local' = Replicas, OnlyLess,
         index' \in [Replicas -> Seq(IndexEntries)],
         \A d \in Replicas : index'[d] \in {index[d], <<>>},
         pc' \in [Requests -> Places],
         \A q \in Requests : pc'[q] \in {pc[q], "done"},
         answer' \in [Requests -> [src : Sources, body : Requests]],
         \A q \in Requests : answer'[q] = answer[q] \/ answer'[q].src = "lost"
  PROVE  Inv'
<1>0. /\ TypeOK /\ HandlerInv /\ MaxEntries \in Nat \ {0} /\ now \in Nat \ {0}
      /\ \A q \in Requests : saved[q].ck \in Nat /\ saved[q].sem \in Nat
  BY Known, CacheAssumption DEF TypeOK
<1>1. Onward(job, job', saved, saved')
  BY <1>0 DEF Onward
<1>2. \A q \in Requests : \/ answer'[q] = answer[q]
                          \/ /\ GoodAnswer(answer'[q], q, job)
                             /\ answer'[q] \in [src : Sources, body : Requests]
  BY DEF GoodAnswer
<1>3. LocalInv' /\ SharedInv' /\ IndexInv' /\ HitInv'
  BY <1>1, <1>2, DataKept
<1>4. HandlerInv'
  <2> SUFFICES ASSUME NEW q \in Requests
               PROVE  /\ job[q].fresh => job[q].sem = <<"sem", q>>
                      /\ pc'[q] \in {"putSem", "putSemShared", "index"} => job[q].fresh
                      /\ job[q].sem # NoKey => job[q].sem[2] = q \/ NearEnough(q, job[q].sem[2], job)
                      /\ pc'[q] \in UnsavedPlaces => saved[q].sem = 0
                      /\ pc'[q] \in {"putSemShared", "index"} => saved[q].sem > 0
                      /\ saved[q].ck <= now' /\ saved[q].sem <= now'
    BY DEF HandlerInv, NearEnough
  <2>1. pc'[q] \in {pc[q], "done"}
    OBVIOUS
  <2>2. saved[q].ck <= now' /\ saved[q].sem <= now'
    BY <1>0 DEF HandlerInv
  <2>3. QED
    BY <1>0, <2>1, <2>2 DEF HandlerInv, UnsavedPlaces
<1>5. TypeOK'
  <2>1. \A d \in Replicas : CacheOK(local'[d])
    BY DEF OnlyLess
  <2>2. \A d \in Replicas : Len(index'[d]) <= MaxEntries
    <3> SUFFICES ASSUME NEW d \in Replicas
                 PROVE  Len(index'[d]) <= MaxEntries
      OBVIOUS
    <3>1. Len(index[d]) <= MaxEntries
      BY <1>0 DEF TypeOK
    <3>2. QED
      BY <1>0, <3>1
  <2>3. now' \in Nat \ {0}
    BY <1>0
  <2>4. QED
    BY <1>0, <2>1, <2>2, <2>3 DEF TypeOK, CacheOK
<1>6. QED
  BY <1>3, <1>4, <1>5 DEF Inv

\* One replica's cache emptied.
LEMMA Emptied ==
  ASSUME Inv, NEW d \in Replicas, local' = [local EXCEPT ![d] = [m |-> Empty, order |-> <<>>]]
  PROVE  DOMAIN local' = Replicas /\ OnlyLess
<1>1. DOMAIN local = Replicas /\ \A e \in Replicas : CacheOK(local[e])
  BY Known DEF TypeOK, LocalInv
<1>2. /\ DOMAIN local' = Replicas /\ local'[d] = [m |-> Empty, order |-> <<>>]
      /\ \A e \in Replicas : e # d => local'[e] = local[e]
  BY <1>1
<1>3. CacheOK(local'[d]) /\ DOMAIN local'[d].m = {}
  BY <1>2, EmptyCache DEF Empty
<1>4. QED
  BY <1>1, <1>2, <1>3 DEF OnlyLess

LEMMA FlushInv ==
  ASSUME Inv, NEW d \in Replicas, Flush(d)
  PROVE  Inv'
<1>1. TypeOK
  BY Known
<1>2. /\ UNCHANGED <<now, index, redis, job, pc, answer, saved>>
      /\ local' = [local EXCEPT ![d] = [m |-> Empty, order |-> <<>>]]
      /\ faults' \in Nat
  BY <1>1 DEF Flush, CountFault, TypeOK
<1>3. DOMAIN local' = Replicas /\ OnlyLess
  BY <1>2, Emptied
<1>4. QED
  BY <1>1, <1>2, <1>3, LossInv DEF TypeOK

LEMMA RestartInv ==
  ASSUME Inv, NEW d \in Replicas, Restart(d)
  PROVE  Inv' /\ \A q \in Requests : answer'[q] = answer[q] \/ answer'[q].src = "lost"
<1> DEFINE Here(q) == job[q].ask.rep = d /\ pc[q] \notin {"idle", "done"}
<1>1. TypeOK
  BY Known
<1>2. /\ UNCHANGED <<now, redis, job, saved>> /\ faults' \in Nat
      /\ local' = [local EXCEPT ![d] = [m |-> Empty, order |-> <<>>]]
      /\ index' = [index EXCEPT ![d] = <<>>]
      /\ pc' = [q \in Requests |-> IF Here(q) THEN "done" ELSE pc[q]]
      /\ answer' = [q \in Requests |-> IF Here(q) /\ answer[q].src = "none"
                                       THEN [src |-> "lost", body |-> q] ELSE answer[q]]
  BY <1>1 DEF Restart, CountFault, TypeOK
<1> HIDE DEF Here
<1>3. DOMAIN local' = Replicas /\ OnlyLess
  BY <1>2, Emptied
<1>4. /\ index \in [Replicas -> Seq(IndexEntries)] /\ pc \in [Requests -> Places]
      /\ answer \in [Requests -> [src : Sources, body : Requests]]
  BY <1>1 DEF TypeOK
<1>5. /\ index' \in [Replicas -> Seq(IndexEntries)]
      /\ \A e \in Replicas : index'[e] \in {index[e], <<>>}
  <2>1. <<>> \in Seq(IndexEntries)
    OBVIOUS
  <2>2. QED
    BY <1>2, <1>4, <2>1
<1>6. pc' \in [Requests -> Places] /\ \A q \in Requests : pc'[q] \in {pc[q], "done"}
  BY <1>2, <1>4 DEF Places
<1>7. /\ answer' \in [Requests -> [src : Sources, body : Requests]]
      /\ \A q \in Requests : answer'[q] = answer[q] \/ answer'[q].src = "lost"
  BY <1>2, <1>4 DEF Sources
<1>8. QED
  BY <1>2, <1>3, <1>5, <1>6, <1>7, LossInv

LEMMA TickInv ==
  ASSUME Inv, Tick \/ UNCHANGED vars
  PROVE  Inv' /\ UNCHANGED <<answer, saved>>
<1>1. TypeOK /\ LocalInv
  BY Known
<1>2. UNCHANGED <<local, index, redis, job, pc, answer, faults, saved>> /\ now' \in {now, now + 1}
  BY DEF Tick, vars
<1>3. DOMAIN local' = Replicas /\ OnlyLess
  BY <1>1, <1>2 DEF TypeOK, LocalInv, OnlyLess
<1>4. QED
  BY <1>1, <1>2, <1>3, LossInv DEF TypeOK

LEMMA InitInv == Init => Inv
<1> SUFFICES ASSUME Init PROVE Inv
  OBVIOUS
<1>1. /\ now = 1 /\ index = [d \in Replicas |-> <<>>] /\ redis = Empty /\ faults = 0
      /\ local = [d \in Replicas |-> [m |-> Empty, order |-> <<>>]]
      /\ pc = [r \in Requests |-> "idle"]
      /\ answer = [r \in Requests |-> [src |-> "none", body |-> r]]
      /\ saved = [r \in Requests |-> [ck |-> 0, sem |-> 0]]
  BY DEF Init
<1>2. PICK mix \in Mixes : job = [r \in Requests |-> [ask |-> mix[r], sem |-> NoKey, fresh |-> FALSE]]
  BY DEF Init
<1>3. job \in [Requests -> Jobs] /\ \A r \in Requests : job[r].sem = NoKey /\ job[r].fresh = FALSE
  <2>1. \A r \in Requests : mix[r] \in Asks
    BY MixesAssumption
  <2>2. QED
    BY <1>2, <2>1 DEF Jobs
<1>4. \A d \in Replicas : CacheOK(local[d]) /\ local[d].m = Empty
  BY <1>1, EmptyCache
<1>5. \A d \in Replicas : index[d] = <<>> /\ Len(index[d]) = 0 /\ DOMAIN index[d] = {}
  BY <1>1
<1>6. /\ index \in [Replicas -> Seq(IndexEntries)]
      /\ \A d \in Replicas : Len(index[d]) <= MaxEntries
  <2>1. <<>> \in Seq(IndexEntries)
    OBVIOUS
  <2>2. QED
    BY <1>1, <1>5, <2>1, CacheAssumption
<1>7. /\ pc \in [Requests -> Places] /\ answer \in [Requests -> [src : Sources, body : Requests]]
      /\ saved \in [Requests -> [ck : Nat, sem : Nat]]
  BY <1>1 DEF Places, Sources
<1>8. TypeOK
  <2>1. IsMap(redis) /\ now \in Nat \ {0} /\ faults \in Nat /\ DOMAIN local = Replicas
    BY <1>1, EmptyCache
  <2>2. QED
    BY <1>3, <1>4, <1>6, <1>7, <2>1 DEF TypeOK, CacheOK
<1>9. LocalInv /\ SharedInv
  BY <1>1, <1>4, EmptyCache DEF LocalInv, SharedInv
<1>10. IndexInv /\ HandlerInv /\ HitInv
  BY <1>1, <1>3, <1>5 DEF IndexInv, HandlerInv, HitInv, GoodAnswer
<1>11. QED
  BY <1>8, <1>9, <1>10 DEF Inv

LEMMA NextInv == Inv /\ [Next]_vars => Inv'
<1> SUFFICES ASSUME Inv, [Next]_vars PROVE Inv'
  OBVIOUS
<1>1. ASSUME NEW r \in Requests, Handler(r) PROVE Inv'
  <2>1. CASE \/ SkipCache(r) \/ ExactOnly(r) \/ EmbedAndSearch(r)
             \/ LookUpLocal(r) \/ LookUpShared(r) \/ Call(r)
    BY <2>1, Lookups, LooksInv
  <2>2. CASE PutLocal(r)
    BY <2>2, PutLocalInv
  <2>3. CASE PutShared(r)
    BY <2>3, PutSharedInv
  <2>4. CASE AddToIndex(r)
    BY <2>4, AddToIndexInv
  <2>5. QED
    BY <1>1, <2>1, <2>2, <2>3, <2>4 DEF Handler
<1>2. ASSUME NEW d \in Replicas, Flush(d) \/ Restart(d) PROVE Inv'
  BY <1>2, FlushInv, RestartInv
<1>3. CASE Tick \/ UNCHANGED vars
  BY <1>3, TickInv
<1>4. QED
  BY <1>1, <1>2, <1>3 DEF Next

\* The invariant, from which the properties follow.
LEMMA Invariance == Spec => []Inv
<1>1. QED
  BY InitInv, NextInv, PTL DEF Spec

(***************************************************************************)
(* The types, and the limits of cache.Cache and SemanticIndex: neither the *)
(* order nor the index outgrows max_entries, and no cached key is missing  *)
(* from the order.                                                         *)
(***************************************************************************)
THEOREM CacheTypes == Spec => []TypeOK
<1>1. Inv => TypeOK
  BY DEF Inv
<1>2. QED
  BY <1>1, Invariance, PTL

(***************************************************************************)
(* An exact hit of handleMessages is the answer to a request with the same *)
(* cache key.                                                              *)
(***************************************************************************)
THEOREM ExactMatch == Spec => []ExactHitsMatch
<1>1. Inv => ExactHitsMatch
  BY DEF Inv, HitInv, GoodAnswer, ExactHitsMatch
<1>2. QED
  BY <1>1, Invariance, PTL

(***************************************************************************)
(* A semantic hit is the answer to a prompt within the threshold of the    *)
(* asker's own, asked of the same replica: hits do not chain.              *)
(***************************************************************************)
THEOREM SemanticMatch == Spec => []SemanticHitsNear
<1>1. Inv => SemanticHitsNear
  BY DEF Inv, HitInv, GoodAnswer, NearEnough, SemanticHitsNear
<1>2. QED
  BY <1>1, Invariance, PTL

(***************************************************************************)
(* No key is in the semantic index before its answer is in the cache.      *)
(***************************************************************************)
THEOREM SavedFirst == Spec => []IndexedAfterSaved
<1>1. Inv => IndexedAfterSaved
  BY DEF Inv, IndexInv, Indexed, IndexedAfterSaved
<1>2. QED
  BY <1>1, Invariance, PTL

\* A handler's step leaves the answers and the write-back times of the others alone.
LEMMA OwnRecords ==
  ASSUME Inv, NEW q \in Requests, Handler(q), NEW r \in Requests, r # q
  PROVE  answer'[r] = answer[r] /\ saved'[r] = saved[r]
<1>1. /\ answer \in [Requests -> [src : Sources, body : Requests]]
      /\ saved \in [Requests -> [ck : Nat, sem : Nat]]
  BY Known DEF TypeOK
<1>2. /\ \A src, body : Answer(q, src, body) => answer'[r] = answer[r]
      /\ Note(q) => saved'[r] = saved[r]
  BY <1>1 DEF Answer, Note
<1>3. QED
  BY <1>2 DEF Handler, SkipCache, ExactOnly, EmbedAndSearch, LookUpLocal, LookUpShared, Call,
              PutLocal, PutShared, AddToIndex

\* An entry a lookup of r finds alive was written, under the key of its kind, no
\* more than a TTL ago.
LEMMA FreshHit ==
  ASSUME Inv, NEW r \in Requests, pc[r] \in {"sem", "semShared", "exact", "exactShared"},
         NEW m, IsMap(m), Honest(m, job, saved), Live(m, Sought(r)),
         answer'[r] = [src |-> HitKind(r), body |-> m[Sought(r)].body]
  PROVE  LET t == saved[answer'[r].body]
         IN  now - (IF answer'[r].src = "exact" THEN t.ck ELSE t.sem) <= TTL
<1> DEFINE a == [src |-> HitKind(r), body |-> m[Sought(r)].body]
           t == saved[a.body]
           w == IF a.src = "exact" THEN t.ck ELSE t.sem
<1>1. /\ Sought(r) \in DOMAIN m /\ now - m[Sought(r)].at <= TTL
  BY DEF Live
<1>2. a \in [src : Sources, body : Requests] /\ m[Sought(r)].at <= w
  BY <1>1, GoodHit
<1>3. now \in Nat /\ TTL \in Nat /\ w \in Nat /\ m[Sought(r)].at \in Nat
  BY <1>1, <1>2, Known, CacheAssumption DEF TypeOK, IsMap, Entries
<1> HIDE DEF w
<1>4. now - w <= TTL
  BY <1>1, <1>2, <1>3
<1>5. QED
  BY <1>4 DEF w

(***************************************************************************)
(* cacheGet serves nothing that was last written more than a TTL ago, from *)
(* either tier.                                                            *)
(***************************************************************************)
THEOREM AgeBound == Spec => ServedFresh
<1> DEFINE Served(r) ==
             answer[r].src = "none" /\ answer'[r].src \in {"exact", "semantic"}
               => LET t == saved[answer'[r].body]
                  IN  now - (IF answer'[r].src = "exact" THEN t.ck ELSE t.sem) <= TTL
<1>1. ASSUME Inv, [Next]_vars, NEW r \in Requests PROVE Served(r)
  <2> SUFFICES ASSUME answer[r].src = "none", answer'[r].src \in {"exact", "semantic"}
               PROVE  LET t == saved[answer'[r].body]
                      IN  now - (IF answer'[r].src = "exact" THEN t.ck ELSE t.sem) <= TTL
    OBVIOUS
  <2>1. answer'[r] # answer[r] /\ answer'[r].src # "lost"
    OBVIOUS
  <2>2. /\ answer \in [Requests -> [src : Sources, body : Requests]]
        /\ job[r].ask.rep \in Replicas /\ LocalInv /\ SharedInv /\ IsMap(redis)
        /\ \A d \in Replicas : IsMap(local[d].m)
    BY <1>1, Known, KeyKinds DEF TypeOK
  <2>3. ~(\E d \in Replicas : Flush(d) \/ Restart(d)) /\ ~Tick /\ ~UNCHANGED vars
    BY <1>1, <2>1, RestartInv, TickInv DEF Flush
  <2>4. PICK q \in Requests : Handler(q)
    BY <1>1, <2>3 DEF Next
  <2>5. Handler(r)
    BY <1>1, <2>1, <2>4, OwnRecords
  <2>6. \A src, body : Answer(r, src, body) => answer'[r] = [src |-> src, body |-> body]
    BY <2>2 DEF Answer
  <2>7. CASE LookUpLocal(r)
    <3> DEFINE m == local[job[r].ask.rep].m
    <3>1. /\ pc[r] \in {"sem", "exact"} /\ Live(m, Sought(r))
          /\ answer'[r] = [src |-> HitKind(r), body |-> m[Sought(r)].body]
      BY <2>1, <2>6, <2>7 DEF LookUpLocal
    <3>2. IsMap(m) /\ Honest(m, job, saved)
      BY <2>2 DEF LocalInv
    <3> HIDE DEF m
    <3>3. QED
      BY <1>1, <3>1, <3>2, FreshHit
  <2>8. CASE LookUpShared(r)
    <3>1. /\ pc[r] \in {"semShared", "exactShared"} /\ Live(redis, Sought(r))
          /\ answer'[r] = [src |-> HitKind(r), body |-> redis[Sought(r)].body]
      BY <2>1, <2>6, <2>8 DEF LookUpShared
    <3>2. Honest(redis, job, saved)
      BY <2>2 DEF SharedInv
    <3>3. QED
      BY <1>1, <2>2, <3>1, <3>2, FreshHit
  <2>9. ~Call(r)
    <3>1. ASSUME Call(r) PROVE answer'[r].src \in {"upstream", "failed"}
      <4>1. Answer(r, "upstream", r) \/ Answer(r, "failed", r)
        BY <3>1 DEF Call
      <4>2. \/ answer'[r] = [src |-> "upstream", body |-> r]
            \/ answer'[r] = [src |-> "failed", body |-> r]
        BY <2>6, <4>1
      <4>3. QED
        BY <4>2
    <3>2. QED
      BY <3>1
  <2>10. QED
    BY <2>1, <2>5, <2>7, <2>8, <2>9
       DEF Handler, SkipCache, ExactOnly, EmbedAndSearch, PutLocal, PutShared, AddToIndex
<1>2. Inv /\ [Next]_vars => [\A r \in Requests : Served(r)]_vars
  BY <1>1
<1>3. QED
  BY <1>2, Invariance, PTL DEF Spec, ServedFresh

(***************************************************************************)
(* cache.Cache.Put never evicts what it has just stored, but for a key     *)
(* whose expired entry was deleted and whose place in the order was not.   *)
(***************************************************************************)
THEOREM NewestKept == Spec => NewestSurvives
<1> DEFINE Kept(r) ==
             pc[r] \in {"put", "putSem"} /\ saved'[r] # saved[r]
               => LET c == local[job[r].ask.rep]
                      k == Written(r)
                  IN  \/ k \in DOMAIN local'[job[r].ask.rep].m
                      \/ k \in Range(c.order) \ DOMAIN c.m
<1>1. ASSUME Inv, [Next]_vars, NEW r \in Requests PROVE Kept(r)
  <2> SUFFICES ASSUME pc[r] \in {"put", "putSem"}, saved'[r] # saved[r]
               PROVE  LET c == local[job[r].ask.rep]
                          k == Written(r)
                      IN  \/ k \in DOMAIN local'[job[r].ask.rep].m
                          \/ k \in Range(c.order) \ DOMAIN c.m
    OBVIOUS
  <2>1. PICK q \in Requests : Handler(q)
    BY <1>1 DEF Next, Flush, Restart, Tick, vars
  <2>2. Handler(r)
    BY <1>1, <2>1, OwnRecords
  <2>3. PutLocal(r)
    BY <2>2 DEF Handler, SkipCache, ExactOnly, EmbedAndSearch, LookUpLocal, LookUpShared, Call,
                PutShared, AddToIndex
  <2>4. QED
    BY <1>1, <2>3, PutLocalInv
<1>2. Inv /\ [Next]_vars => [\A r \in Requests : Kept(r)]_vars
  BY <1>1
<1>3. QED
  BY <1>2, Invariance, PTL DEF Spec, NewestSurvives

=============================================================================
