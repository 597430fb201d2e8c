---------------------------- MODULE KeyPoolProofs ----------------------------
(***************************************************************************)
(* Theorems about KeyPool for any number of keys and callers, any backoff  *)
(* schedule and any hints: its types, that cooldowns are bounded and only  *)
(* cut short by a success, and that the rotation starves no key.           *)
(***************************************************************************)
EXTENDS KeyPool, TLAPS

-----------------------------------------------------------------------------
(***************************************************************************)
(* The pool operators: what a report and a pick make of a pool.            *)
(***************************************************************************)

\* The wait after a soft failure is a time and never exceeds its cap.
LEMMA BackoffType ==
  ASSUME NEW f \in Nat \ {0}
  PROVE  Backoff(f) \in Nat /\ Backoff(f) <= SoftCap
<1>1. Smaller(f - 1, MaxShift) \in 0 .. MaxShift
  BY PoolAssumption DEF Smaller
<1>2. 2 ^ Smaller(f - 1, MaxShift) \in Nat \ {0}
  BY <1>1, PoolAssumption
<1> DEFINE doubled == 2 ^ Smaller(f - 1, MaxShift)
<1>3. doubled \in Nat
  BY <1>2
<1>4. Backoff(f) = Smaller(doubled, SoftCap)
  BY DEF Backoff
<1> HIDE DEF doubled
<1>5. QED
  BY <1>3, <1>4, PoolAssumption DEF Smaller

\* Rewriting one key's state leaves the rotation and the other keys alone.
LEMMA SetKeyEffect ==
  ASSUME NEW n \in Nat \ {0}, NEW p \in PoolOf(n), NEW k \in 0 .. n - 1,
         NEW state \in KeyState
  PROVE  /\ SetKey(p, k, state) \in PoolOf(n)
         /\ SetKey(p, k, state).idx = p.idx
         /\ \A j \in 0 .. n - 1 :
              SetKey(p, k, state).keys[j] = IF j = k THEN state ELSE p.keys[j]
<1> DEFINE q == [p.keys EXCEPT ![k] = state]
<1>1. p.keys \in [0 .. n - 1 -> KeyState] /\ p = [keys |-> p.keys, idx |-> p.idx, fillFirst |-> p.fillFirst]
  BY DEF PoolOf
<1>2. q \in [0 .. n - 1 -> KeyState]
  BY <1>1
<1>3. \A j \in 0 .. n - 1 : q[j] = IF j = k THEN state ELSE p.keys[j]
  BY <1>1
<1>4. SetKey(p, k, state) = [keys |-> q, idx |-> p.idx, fillFirst |-> p.fillFirst]
  BY <1>1 DEF SetKey
<1> HIDE DEF q
<1>5. QED
  BY <1>2, <1>3, <1>4 DEF PoolOf

\* What each report makes of the key it is about.
LEMMA ReportEffect ==
  ASSUME NEW n \in Nat \ {0}, NEW p \in PoolOf(n), NEW k \in 0 .. n - 1,
         NEW t \in Nat, NEW hint \in 0 .. HardCool
  PROVE  \E soft, hard \in KeyState :
           /\ AfterSoftFail(p, k, hint, t) = SetKey(p, k, soft)
           /\ soft.coolUntil >= p.keys[k].coolUntil
           /\ \/ soft.coolUntil = p.keys[k].coolUntil
              \/ soft.coolUntil <= t + HardCool
           /\ AfterHardFail(p, k, t) = SetKey(p, k, hard)
           /\ hard.coolUntil = t + HardCool
<1>1. p.keys[k].coolUntil \in Nat /\ p.keys[k].softFails \in Nat
  BY DEF PoolOf, KeyState
<1> DEFINE wait  == Larger(Backoff(p.keys[k].softFails + 1), hint)
           soft  == [coolUntil |-> Larger(p.keys[k].coolUntil, t + wait),
                     softFails |-> p.keys[k].softFails + 1]
           hard  == [coolUntil |-> t + HardCool, softFails |-> p.keys[k].softFails]
<1>2. wait \in 0 .. HardCool
  BY <1>1, BackoffType, PoolAssumption DEF Larger
<1>3. AfterSoftFail(p, k, hint, t) = SetKey(p, k, soft)
  BY DEF AfterSoftFail
<1>4. AfterHardFail(p, k, t) = SetKey(p, k, hard)
  BY DEF AfterHardFail
<1> HIDE DEF wait
<1>5. /\ soft \in KeyState
      /\ soft.coolUntil >= p.keys[k].coolUntil
      /\ soft.coolUntil = p.keys[k].coolUntil \/ soft.coolUntil <= t + HardCool
  BY <1>1, <1>2, PoolAssumption DEF Larger, KeyState
<1>6. hard \in KeyState /\ hard.coolUntil = t + HardCool
  BY <1>1, PoolAssumption DEF KeyState
<1>7. QED
  BY <1>3, <1>4, <1>5, <1>6

\* Every failure and success report keeps a pool a pool.
LEMMA ReportType ==
  ASSUME NEW n \in Nat \ {0}, NEW p \in PoolOf(n), NEW k \in 0 .. n - 1,
         NEW t \in Nat, NEW hint \in 0 .. HardCool
  PROVE  /\ AfterSuccess(p, k) \in PoolOf(n)
         /\ AfterSoftFail(p, k, hint, t) \in PoolOf(n)
         /\ AfterHardFail(p, k, t) \in PoolOf(n)
<1>1. p.keys[k].coolUntil \in Nat /\ p.keys[k].softFails \in Nat
  BY DEF PoolOf, KeyState
<1>2. AfterSuccess(p, k) \in PoolOf(n)
  BY SetKeyEffect DEF AfterSuccess, KeyState
<1>3. AfterSoftFail(p, k, hint, t) \in PoolOf(n)
  <2> DEFINE wait  == Larger(Backoff(p.keys[k].softFails + 1), hint)
             state == [coolUntil |-> Larger(p.keys[k].coolUntil, t + wait),
                       softFails |-> p.keys[k].softFails + 1]
  <2>1. wait \in Nat
    BY <1>1, BackoffType, PoolAssumption DEF Larger
  <2>2. AfterSoftFail(p, k, hint, t) = SetKey(p, k, state)
    BY DEF AfterSoftFail
  <2> HIDE DEF wait
  <2>3. state \in KeyState
    BY <1>1, <2>1 DEF Larger, KeyState
  <2>4. QED
    BY <2>2, <2>3, SetKeyEffect
<1>4. AfterHardFail(p, k, t) \in PoolOf(n)
  <2>1. [coolUntil |-> t + HardCool, softFails |-> p.keys[k].softFails] \in KeyState
    BY <1>1, PoolAssumption DEF KeyState
  <2>2. QED
    BY <2>1, SetKeyEffect DEF AfterHardFail
<1>5. QED
  BY <1>2, <1>3, <1>4

\* Where the rotation goes from key k.
LEMMA NextIndex ==
  ASSUME NEW n \in Nat \ {0}, NEW k \in 0 .. n - 1
  PROVE  (k + 1) % n = IF k = n - 1 THEN 0 ELSE k + 1
OBVIOUS

\* A pick leaves every key's state alone and moves idx only past a free key.
LEMMA PickEffect ==
  ASSUME NEW n \in Nat \ {0}, NEW p \in PoolOf(n), NEW k \in 0 .. n - 1, NEW t \in Nat
  PROVE  /\ AfterPick(p, n, t, k) \in PoolOf(n)
         /\ AfterPick(p, n, t, k).keys = p.keys
         /\ AfterPick(p, n, t, k).idx = IF Cooling(p, k, t) THEN p.idx
                                        ELSE IF k = n - 1 THEN 0 ELSE k + 1
<1>1. p.keys \in [0 .. n - 1 -> KeyState] /\ p = [keys |-> p.keys, idx |-> p.idx, fillFirst |-> p.fillFirst]
  BY DEF PoolOf
<1>2. CASE Cooling(p, k, t)
  BY <1>2 DEF AfterPick
<1>3. CASE ~Cooling(p, k, t)
  <2> DEFINE next == IF k = n - 1 THEN 0 ELSE k + 1
  <2>1. next \in 0 .. (IF n = 0 THEN 0 ELSE n - 1)
    OBVIOUS
  <2>2. AfterPick(p, n, t, k) = [p EXCEPT !.idx = next]
    BY <1>3, NextIndex DEF AfterPick
  <2> HIDE DEF next
  <2>3. AfterPick(p, n, t, k) = [keys |-> p.keys, idx |-> next, fillFirst |-> p.fillFirst]
    BY <1>1, <2>2
  <2>4. QED
    BY <1>1, <1>3, <2>1, <2>3 DEF PoolOf, next
<1>4. QED
  BY <1>2, <1>3

\* A new pool is a pool, the empty one included.
LEMMA NewPoolType ==
  ASSUME NEW n \in Nat, NEW f \in BOOLEAN
  PROVE  NewPool(n, f) \in PoolOf(n)
BY DEF NewPool, PoolOf, KeyState

\* The scan reaches each key once in n steps.
LEMMA ScanPosType ==
  ASSUME NEW n \in Nat \ {0}, NEW p \in PoolOf(n), NEW k \in 0 .. n - 1
  PROVE  ScanPos(p, n, k) \in 0 .. n - 1
<1>1. p.idx \in 0 .. n - 1
  BY DEF PoolOf
<1>2. QED
  BY <1>1 DEF ScanPos

-----------------------------------------------------------------------------
(***************************************************************************)
(* The variables keep their types: in particular idx stays a position of   *)
(* the key slice, so Pick never indexes out of range.                      *)
(***************************************************************************)
THEOREM TypeCorrect == Spec => []TypeOK
<1>1. Init => TypeOK
  BY NewPoolType, KeyPoolAssumption DEF Init, TypeOK, Key
<1>2. TypeOK /\ [Next]_vars => TypeOK'
  <2> SUFFICES ASSUME TypeOK, [Next]_vars PROVE TypeOK'
    OBVIOUS
  <2> USE DEF TypeOK
  <2>1. ASSUME NEW c \in Callers, Pick(c) PROVE TypeOK'
    <3>1. PICK k \in Key : /\ pool' = AfterPick(pool, N, now, k)
                           /\ held' = [held EXCEPT ![c] = k]
                           /\ waited' = [j \in Key |-> IF j = k \/ Cooling(pool, j, now)
                                                       THEN 0 ELSE waited[j] + 1]
      BY <2>1 DEF Pick
    <3>2. pool' \in PoolOf(N)
      BY <3>1, PickEffect, KeyPoolAssumption DEF Key
    <3>3. waited' \in [Key -> Nat]
      BY <3>1
    <3>4. QED
      BY <2>1, <3>1, <3>2, <3>3 DEF Pick
  <2>2. ASSUME NEW c \in Callers, Release(c), pool' \in PoolOf(N) PROVE TypeOK'
    BY <2>2 DEF Release
  <2>3. ASSUME NEW c \in Callers, Release(c) PROVE held[c] \in Key
    BY <2>3 DEF Release
  <2>4. ASSUME NEW c \in Callers, ReportSuccess(c) PROVE TypeOK'
    BY <2>4, <2>2, <2>3, ReportType, KeyPoolAssumption, PoolAssumption DEF ReportSuccess, Key
  <2>5. ASSUME NEW c \in Callers, ReportSoftFail(c) PROVE TypeOK'
    <3>1. PICK hint \in 0 .. HardCool : pool' = AfterSoftFail(pool, held[c], hint, now)
      BY <2>5, KeyPoolAssumption DEF ReportSoftFail
    <3>2. held[c] \in 0 .. N - 1 /\ now \in Nat
      BY <2>5, <2>3 DEF ReportSoftFail, Key
    <3>3. pool' \in PoolOf(N)
      BY <3>1, <3>2, ReportType, KeyPoolAssumption
    <3>4. QED
      BY <2>5, <2>2, <3>3 DEF ReportSoftFail
  <2>6. ASSUME NEW c \in Callers, ReportHardFail(c) PROVE TypeOK'
    BY <2>6, <2>2, <2>3, ReportType, KeyPoolAssumption, PoolAssumption DEF ReportHardFail, Key
  <2>7. ASSUME NEW c \in Callers, ReportNothing(c) PROVE TypeOK'
    BY <2>7, <2>2 DEF ReportNothing
  <2>8. CASE Tick
    BY <2>8 DEF Tick
  <2>9. CASE UNCHANGED vars
    BY <2>9 DEF vars
  <2>10. QED
    BY <2>1, <2>4, <2>5, <2>6, <2>7, <2>8, <2>9 DEF Next
<1>3. QED
  BY <1>1, <1>2, PTL DEF Spec

-----------------------------------------------------------------------------
(* What one step can do to the cooldown of one key. *)
LEMMA CooldownStep ==
  ASSUME TypeOK, [Next]_vars, NEW j \in Key
  PROVE  /\ now \in Nat /\ now' \in Nat /\ now' >= now
         /\ pool.keys[j].coolUntil \in Nat /\ pool'.keys[j].coolUntil \in Nat
         /\ \/ pool'.keys[j].coolUntil = pool.keys[j].coolUntil
            \/ /\ pool'.keys[j].coolUntil <= now + HardCool
               /\ pool'.keys[j].coolUntil >= pool.keys[j].coolUntil
            \/ pool'.keys[j].coolUntil = now + HardCool
            \/ /\ pool'.keys[j].coolUntil = 0
               /\ \E c \in Callers : ReportSuccess(c) /\ held[c] = j
<1> DEFINE Goal == /\ now' \in Nat /\ now' >= now
                   /\ pool'.keys[j].coolUntil \in Nat
                   /\ \/ pool'.keys[j].coolUntil = pool.keys[j].coolUntil
                      \/ /\ pool'.keys[j].coolUntil <= now + HardCool
                         /\ pool'.keys[j].coolUntil >= pool.keys[j].coolUntil
                      \/ pool'.keys[j].coolUntil = now + HardCool
                      \/ /\ pool'.keys[j].coolUntil = 0
                         /\ \E c \in Callers : ReportSuccess(c) /\ held[c] = j
<1>0. /\ now \in Nat /\ pool \in PoolOf(N)
      /\ pool.keys[j].coolUntil \in Nat
  BY DEF TypeOK, PoolOf, KeyState, Key
<1>1. ASSUME NEW c \in Callers, Pick(c) PROVE Goal
  <2>1. PICK k \in Key : pool' = AfterPick(pool, N, now, k)
    BY <1>1 DEF Pick
  <2>2. pool'.keys = pool.keys
    <3>1. N \in Nat \ {0} /\ k \in 0 .. N - 1
      BY KeyPoolAssumption DEF Key
    <3>2. AfterPick(pool, N, now, k).keys = pool.keys
      BY <1>0, <3>1, PickEffect
    <3>3. QED
      BY <2>1, <3>2
  <2>3. QED
    BY <1>0, <1>1, <2>2 DEF Pick
<1>2. ASSUME NEW c \in Callers, Release(c) PROVE held[c] \in Key /\ now' = now
  BY <1>2 DEF Release, TypeOK
<1>3. ASSUME NEW c \in Callers, ReportSuccess(c) PROVE Goal
  <2> DEFINE cleared == [coolUntil |-> 0, softFails |-> 0]
  <2>1. /\ held[c] \in Key /\ now' = now
        /\ pool' = SetKey(pool, held[c], cleared)
    BY <1>3, <1>2 DEF ReportSuccess, AfterSuccess
  <2>2. cleared \in KeyState
    BY DEF KeyState
  <2>3. pool'.keys[j] = IF j = held[c] THEN cleared ELSE pool.keys[j]
    BY <1>0, <2>1, <2>2, SetKeyEffect, KeyPoolAssumption DEF Key
  <2>4. CASE j = held[c]
    BY <1>0, <1>3, <2>1, <2>3, <2>4
  <2>5. CASE j # held[c]
    BY <1>0, <2>1, <2>3, <2>5
  <2>6. QED
    BY <2>4, <2>5
<1>4. ASSUME NEW c \in Callers, ReportSoftFail(c) PROVE Goal
  <2>1. PICK hint \in 0 .. HardCool : pool' = AfterSoftFail(pool, held[c], hint, now)
    BY <1>4, KeyPoolAssumption DEF ReportSoftFail
  <2>2. held[c] \in Key /\ now' = now
    BY <1>4, <1>2 DEF ReportSoftFail
  <2>3. PICK soft \in KeyState :
              /\ pool' = SetKey(pool, held[c], soft)
              /\ soft.coolUntil >= pool.keys[held[c]].coolUntil
              /\ \/ soft.coolUntil = pool.keys[held[c]].coolUntil
                 \/ soft.coolUntil <= now + HardCool
    BY <1>0, <2>1, <2>2, ReportEffect, KeyPoolAssumption DEF Key
  <2>4. pool'.keys[j] = IF j = held[c] THEN soft ELSE pool.keys[j]
    BY <1>0, <2>2, <2>3, SetKeyEffect, KeyPoolAssumption DEF Key
  <2>5. soft.coolUntil \in Nat
    BY DEF KeyState
  <2>6. QED
    BY <1>0, <2>2, <2>3, <2>4, <2>5
<1>5. ASSUME NEW c \in Callers, ReportHardFail(c) PROVE Goal
  <2>1. held[c] \in Key /\ now' = now
    BY <1>5, <1>2 DEF ReportHardFail
  <2>2. PICK hard \in KeyState : /\ pool' = SetKey(pool, held[c], hard)
                                 /\ hard.coolUntil = now + HardCool
    BY <1>0, <1>5, <2>1, ReportEffect, PoolAssumption, KeyPoolAssumption DEF ReportHardFail, Key
  <2>3. pool'.keys[j] = IF j = held[c] THEN hard ELSE pool.keys[j]
    BY <1>0, <2>1, <2>2, SetKeyEffect, KeyPoolAssumption DEF Key
  <2>4. hard.coolUntil \in Nat
    BY DEF KeyState
  <2>5. QED
    BY <1>0, <2>1, <2>2, <2>3, <2>4
<1>6. ASSUME NEW c \in Callers, ReportNothing(c) PROVE Goal
  BY <1>0, <1>6, <1>2 DEF ReportNothing
<1>7. CASE Tick
  BY <1>0, <1>7 DEF Tick
<1>8. CASE UNCHANGED vars
  BY <1>0, <1>8 DEF vars
<1>9. QED
  BY <1>0, <1>1, <1>3, <1>4, <1>5, <1>6, <1>7, <1>8 DEF Next

(***************************************************************************)
(* No cooldown, however many failures, hints and hard failures of          *)
(* concurrent uses are reported, reaches further than HardCool from now.   *)
(* CooldownBounded is inductive once the pool has its type.                *)
(***************************************************************************)
THEOREM Bounded == Spec => []CooldownBounded
<1>1. Init => CooldownBounded
  BY PoolAssumption DEF Init, CooldownBounded, NewPool, Key
<1>2. TypeOK /\ CooldownBounded /\ [Next]_vars => CooldownBounded'
  <2> SUFFICES ASSUME TypeOK, CooldownBounded, [Next]_vars, NEW j \in Key
               PROVE  pool'.keys[j].coolUntil <= now' + HardCool
    BY DEF CooldownBounded
  <2>1. pool.keys[j].coolUntil <= now + HardCool
    BY DEF CooldownBounded
  <2>2. QED
    BY <2>1, CooldownStep, PoolAssumption
<1>3. QED
  BY <1>1, <1>2, TypeCorrect, PTL DEF Spec

(***************************************************************************)
(* A step that shortens a cooldown is a success report for that key.  The  *)
(* bound is what makes a hard failure harmless here: now + HardCool is     *)
(* never earlier than the cooldown it overwrites.                          *)
(***************************************************************************)
THEOREM OnlyCutBySuccess == Spec => CooldownOnlyCutBySuccess
<1>1. TypeOK /\ CooldownBounded /\ [Next]_vars =>
        [\A k \in Key :
            pool'.keys[k].coolUntil < pool.keys[k].coolUntil
              => \E c \in Callers : ReportSuccess(c) /\ held[c] = k]_vars
  <2> SUFFICES ASSUME TypeOK, CooldownBounded, [Next]_vars, NEW k \in Key,
                      pool'.keys[k].coolUntil < pool.keys[k].coolUntil
               PROVE  \E c \in Callers : ReportSuccess(c) /\ held[c] = k
    OBVIOUS
  <2>1. pool.keys[k].coolUntil <= now + HardCool
    BY DEF CooldownBounded
  <2>2. QED
    BY <2>1, CooldownStep, PoolAssumption
<1>2. QED
  BY <1>1, TypeCorrect, Bounded, PTL DEF Spec, CooldownOnlyCutBySuccess

-----------------------------------------------------------------------------
(***************************************************************************)
(* Rotation starves no key.  RotationFair is not inductive: a key that has *)
(* sat out N - 1 picks must also be the next one the scan meets.  What is  *)
(* inductive is that the picks a key has sat out and its distance from idx *)
(* never add up to N or more.                                              *)
(***************************************************************************)
RotationInv == \A k \in Key : waited[k] + ScanPos(pool, N, k) <= N - 1

\* Nobody has sat out a pick yet.
LEMMA RotationInit == Init => RotationInv
<1> SUFFICES ASSUME Init, NEW k \in Key
             PROVE  waited[k] + ScanPos(pool, N, k) <= N - 1
  BY DEF RotationInv
<1>1. waited[k] = 0
  BY DEF Init
<1>2. PICK f \in BOOLEAN : pool = NewPool(N, f)
  BY DEF Init
<1>3. ScanPos(pool, N, k) \in 0 .. N - 1
  BY <1>2, NewPoolType, ScanPosType, KeyPoolAssumption DEF Key
<1>4. QED
  BY <1>1, <1>3, KeyPoolAssumption

\* Only a pick changes either side of the sum.
LEMMA RotationStep == TypeOK /\ RotationInv /\ [Next]_vars => RotationInv'
<1> SUFFICES ASSUME TypeOK, RotationInv, [Next]_vars, NEW j \in Key
             PROVE  waited'[j] + ScanPos(pool', N, j) <= N - 1
  BY DEF RotationInv
<1>0. /\ waited[j] \in Nat /\ pool \in PoolOf(N) /\ now \in Nat
      /\ waited[j] + ScanPos(pool, N, j) <= N - 1
  BY DEF TypeOK, RotationInv
<1>1. ASSUME NEW c \in Callers, Pick(c)
      PROVE  waited'[j] + ScanPos(pool', N, j) <= N - 1
  <2>1. PICK k \in Key : /\ Picks(pool, N, now, k)
                         /\ pool' = AfterPick(pool, N, now, k)
                         /\ waited' = [i \in Key |-> IF i = k \/ Cooling(pool, i, now)
                                                     THEN 0 ELSE waited[i] + 1]
    BY <1>1 DEF Pick
  <2>2. CASE waited'[j] = 0
    <3>1. ScanPos(pool', N, j) \in 0 .. N - 1
      BY <1>0, <2>1, PickEffect, ScanPosType, KeyPoolAssumption DEF Key
    <3>2. QED
      BY <2>2, <3>1, KeyPoolAssumption
  <2>3. CASE j # k /\ ~Cooling(pool, j, now)
    \* j was free, so the scan met k before j, and idx moved on past k.
    <3>1. waited'[j] = waited[j] + 1
      BY <2>1, <2>3
    <3>2. PicksFree(pool, N, now, k)
      BY <2>1, <2>3 DEF Picks, Key
    <3>3. ScanPos(pool, N, k) <= ScanPos(pool, N, j)
      BY <1>0, <2>3, <3>2, ScanPosType, KeyPoolAssumption DEF PicksFree, Key
    <3>4. pool'.idx = IF k = N - 1 THEN 0 ELSE k + 1
      BY <1>0, <2>1, <3>2, PickEffect, KeyPoolAssumption DEF PicksFree, Key
    <3>5. pool.idx \in 0 .. N - 1
      BY <1>0, KeyPoolAssumption DEF PoolOf
    <3>6. ScanPos(pool', N, j) + 1 <= ScanPos(pool, N, j)
      BY <2>3, <3>3, <3>4, <3>5, KeyPoolAssumption DEF ScanPos, Key
    <3>7. ScanPos(pool', N, j) \in Int /\ ScanPos(pool, N, j) \in Int
      BY <1>0, <2>1, PickEffect, ScanPosType, KeyPoolAssumption DEF Key
    <3>8. QED
      BY <1>0, <3>1, <3>6, <3>7, KeyPoolAssumption
  <2>4. QED
    BY <2>1, <2>2, <2>3
<1>2. ASSUME NEW c \in Callers, Release(c), pool'.idx = pool.idx
      PROVE  waited'[j] + ScanPos(pool', N, j) <= N - 1
  BY <1>0, <1>2 DEF Release, ScanPos
<1>3. ASSUME NEW c \in Callers, Release(c) PROVE held[c] \in Key
  BY <1>3 DEF Release, TypeOK
<1>4. ASSUME NEW c \in Callers, ReportSuccess(c)
      PROVE  waited'[j] + ScanPos(pool', N, j) <= N - 1
  <2>1. pool'.idx = pool.idx
    BY <1>0, <1>3, <1>4, SetKeyEffect, KeyPoolAssumption DEF ReportSuccess, AfterSuccess, KeyState, Key
  <2>2. QED
    BY <1>2, <1>4, <2>1 DEF ReportSuccess
<1>5. ASSUME NEW c \in Callers, ReportSoftFail(c)
      PROVE  waited'[j] + ScanPos(pool', N, j) <= N - 1
  <2>1. PICK hint \in 0 .. HardCool : pool' = AfterSoftFail(pool, held[c], hint, now)
    BY <1>5, KeyPoolAssumption DEF ReportSoftFail
  <2>2. PICK soft \in KeyState : pool' = SetKey(pool, held[c], soft)
    BY <1>0, <1>3, <1>5, <2>1, ReportEffect, KeyPoolAssumption DEF ReportSoftFail, Key
  <2>3. pool'.idx = pool.idx
    BY <1>0, <1>3, <1>5, <2>2, SetKeyEffect, KeyPoolAssumption DEF ReportSoftFail, Key
  <2>4. QED
    BY <1>2, <1>5, <2>3 DEF ReportSoftFail
<1>6. ASSUME NEW c \in Callers, ReportHardFail(c)
      PROVE  waited'[j] + ScanPos(pool', N, j) <= N - 1
  <2>1. PICK hard \in KeyState : pool' = SetKey(pool, held[c], hard)
    BY <1>0, <1>3, <1>6, ReportEffect, PoolAssumption, KeyPoolAssumption DEF ReportHardFail, Key
  <2>2. pool'.idx = pool.idx
    BY <1>0, <1>3, <1>6, <2>1, SetKeyEffect, KeyPoolAssumption DEF ReportHardFail, Key
  <2>3. QED
    BY <1>2, <1>6, <2>2 DEF ReportHardFail
<1>7. ASSUME NEW c \in Callers, ReportNothing(c)
      PROVE  waited'[j] + ScanPos(pool', N, j) <= N - 1
  BY <1>2, <1>7 DEF ReportNothing
<1>8. CASE Tick
  BY <1>0, <1>8 DEF Tick
<1>9. CASE UNCHANGED vars
  BY <1>0, <1>9 DEF vars
<1>10. QED
  BY <1>1, <1>4, <1>5, <1>6, <1>7, <1>8, <1>9 DEF Next

(***************************************************************************)
(* A key that is free at every pick is handed out within N picks, however  *)
(* the callers interleave and whatever they report about the other keys.   *)
(***************************************************************************)
THEOREM Rotation == Spec => []RotationFair
<1>1. TypeOK /\ RotationInv => RotationFair
  <2> SUFFICES ASSUME TypeOK, RotationInv, NEW k \in Key PROVE waited[k] < N
    BY DEF RotationFair
  <2>1. ScanPos(pool, N, k) \in 0 .. N - 1
    BY ScanPosType, KeyPoolAssumption DEF TypeOK, Key
  <2>2. QED
    BY <2>1, KeyPoolAssumption DEF TypeOK, RotationInv
<1>2. QED
  BY <1>1, RotationInit, RotationStep, TypeCorrect, PTL DEF Spec

=============================================================================
