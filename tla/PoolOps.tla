------------------------------- MODULE PoolOps -------------------------------
(***************************************************************************)
(* The data of one provider's key pool (internal/provider/pool.go) and the *)
(* two decisions taken under its mutex: which key Pick returns, and what   *)
(* ReportHint makes of a key's cooldown.                                   *)
(*                                                                         *)
(* Time is counted in units of the first backoff step, 10 seconds; instant *)
(* 0 is Go's zero time.Time, so the clock of every module that uses these  *)
(* operators starts at 1.  Keys are the positions 0 .. n-1 of the slice:   *)
(* their strings are only ever compared, and are assumed distinct.         *)
(***************************************************************************)
EXTENDS Integers

CONSTANTS
  MaxShift,   \* the backoff doubles this many times (5 in the code)
  SoftCap,    \* longest backoff of a soft failure (5 minutes: 30)
  HardCool    \* cooldown of a hard failure, also the cap of a Retry-After (60)

ASSUME PoolAssumption ==
  /\ MaxShift \in Nat
  /\ SoftCap \in Nat \ {0}
  /\ HardCool \in Nat
  /\ SoftCap <= HardCool
  /\ \A i \in 0 .. MaxShift : 2 ^ i \in Nat \ {0}

KeyState == [coolUntil : Nat, softFails : Nat]

PoolOf(n) == [keys : [0 .. n - 1 -> KeyState], idx : 0 .. (IF n = 0 THEN 0 ELSE n - 1),
              fillFirst : BOOLEAN]

\* With the key_strategy it has been given: fill_first or not.
NewPool(n, fillFirst) ==
  [keys |-> [k \in 0 .. n - 1 |-> [coolUntil |-> 0, softFails |-> 0]], idx |-> 0,
   fillFirst |-> fillFirst]

-----------------------------------------------------------------------------
(* Pick *)

\* The code asks now.After(k.coolUntil): a key is still cooling at the very
\* instant its cooldown ends.
Cooling(pool, k, t) == t <= pool.keys[k].coolUntil

\* Position of key k in the circular scan that starts at idx.
ScanPos(pool, n, k) == IF k >= pool.idx THEN k - pool.idx ELSE k - pool.idx + n

\* The scan returns the first key that is not cooling, whatever the strategy: the
\* test of fillFirst inside it (pool.go:98) comes after the return for such a key.
PicksFree(pool, n, t, k) ==
  /\ ~Cooling(pool, k, t)
  /\ \A j \in 0 .. n - 1 :
        ScanPos(pool, n, j) < ScanPos(pool, n, k) => Cooling(pool, j, t)

\* The loop over the keys in their own order, for fill_first.
FirstFree(pool, n, t, k) ==
  ~Cooling(pool, k, t) /\ \A j \in 0 .. k - 1 : Cooling(pool, j, t)

\* The key whose cooldown ends first, and of several the first in scan order.
PicksFallback(pool, n, t, k) ==
  \A j \in 0 .. n - 1 :
    \/ pool.keys[k].coolUntil < pool.keys[j].coolUntil
    \/ /\ pool.keys[k].coolUntil = pool.keys[j].coolUntil
       /\ ScanPos(pool, n, k) <= ScanPos(pool, n, j)

\* To be caught: fill_first as it is promised, the first free key for everybody.
PicksInOrder(pool, n, t, k) ==
  IF \A j \in 0 .. n - 1 : Cooling(pool, j, t) THEN PicksFallback(pool, n, t, k)
  ELSE IF pool.fillFirst THEN FirstFree(pool, n, t, k) ELSE PicksFree(pool, n, t, k)

\* When the scan is through, every key was cooling at the one time it looked at;
\* the loop for fill_first looks at the same time and finds none.
Picks(pool, n, t, k) ==
  \/ PicksFree(pool, n, t, k)
  \/ /\ \A j \in 0 .. n - 1 : Cooling(pool, j, t)
     /\ IF pool.fillFirst /\ \E j \in 0 .. n - 1 : FirstFree(pool, n, t, j)
        THEN FirstFree(pool, n, t, k) ELSE PicksFallback(pool, n, t, k)

\* A slip of the index arithmetic that runs must catch: no wrap-around.
AfterPickNoWrap(pool, n, t, k) ==
  IF Cooling(pool, k, t) THEN pool ELSE [pool EXCEPT !.idx = k + 1]

\* Only a free key moves the rotation on.
AfterPick(pool, n, t, k) ==
  IF Cooling(pool, k, t) THEN pool ELSE [pool EXCEPT !.idx = (k + 1) % n]

-----------------------------------------------------------------------------
(* ReportHint *)

Larger(a, b) == IF a > b THEN a ELSE b
Smaller(a, b) == IF a < b THEN a ELSE b

\* Wait after the f-th soft failure in a row (f >= 1).
Backoff(f) == Smaller(2 ^ Smaller(f - 1, MaxShift), SoftCap)

SetKey(pool, k, state) == [pool EXCEPT !.keys[k] = state]

AfterSuccess(pool, k) == SetKey(pool, k, [coolUntil |-> 0, softFails |-> 0])

\* A soft failure that sets the cooldown without comparing: to be caught.
AfterSoftFailAlways(pool, k, hint, t) ==
  LET fails == pool.keys[k].softFails + 1
  IN  SetKey(pool, k, [coolUntil |-> t + Larger(Backoff(fails), hint),
                       softFails |-> fails])

\* A soft failure never shortens a cooldown; hint is the upstream's Retry-After.
AfterSoftFail(pool, k, hint, t) ==
  LET fails == pool.keys[k].softFails + 1
      until == t + Larger(Backoff(fails), hint)
  IN  SetKey(pool, k, [coolUntil |-> Larger(pool.keys[k].coolUntil, until),
                       softFails |-> fails])

\* A hard failure that adds to a cooldown under way: to be caught.
AfterHardFailStacked(pool, k, t) ==
  SetKey(pool, k, [coolUntil |-> Larger(pool.keys[k].coolUntil, t) + HardCool,
                   softFails |-> pool.keys[k].softFails])

AfterHardFail(pool, k, t) ==
  SetKey(pool, k, [coolUntil |-> t + HardCool, softFails |-> pool.keys[k].softFails])

=============================================================================
