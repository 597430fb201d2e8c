------------------------------- MODULE KeyPool -------------------------------
(***************************************************************************)
(* One provider's key pool shared by concurrent requests: a caller picks a *)
(* key, uses it upstream with the mutex released, and reports the result   *)
(* later, while other callers pick and report in between.                  *)
(***************************************************************************)
EXTENDS PoolOps

CONSTANTS
  N,          \* number of keys
  Callers,    \* concurrent request handlers
  Hints,      \* Retry-After values, after parseRetryAfter's cap
  MaxNow,     \* bound on the clock
  MaxFails    \* bound on a key's run of soft failures

ASSUME KeyPoolAssumption ==
  /\ N \in Nat \ {0}
  /\ Hints \subseteq 0 .. HardCool
  /\ MaxNow \in Nat
  /\ MaxFails \in Nat

VARIABLES
  now,        \* the clock
  pool,       \* Pool: the keys and idx
  held,       \* the key each caller is using upstream, or NoKey
  waited      \* history: picks a key sat out, free at each, since its last turn

vars == <<now, pool, held, waited>>

Key == 0 .. N - 1
NoKey == -1

TypeOK ==
  /\ now \in Nat \ {0}
  /\ pool \in PoolOf(N)
  /\ held \in [Callers -> Key \cup {NoKey}]
  /\ waited \in [Key -> Nat]

Init ==
  /\ now = 1
  /\ \E fillFirst \in BOOLEAN : pool = NewPool(N, fillFirst)
  /\ held = [c \in Callers |-> NoKey]
  /\ waited = [k \in Key |-> 0]

-----------------------------------------------------------------------------
Pick(c) ==
  /\ held[c] = NoKey
  /\ \E k \in Key :
       /\ Picks(pool, N, now, k)
       /\ pool' = AfterPick(pool, N, now, k)
       /\ held' = [held EXCEPT ![c] = k]
       /\ waited' = [j \in Key |-> IF j = k \/ Cooling(pool, j, now)
                                   THEN 0 ELSE waited[j] + 1]
  /\ UNCHANGED now

\* The end of a use: whatever is reported, the caller gives the key back.
Release(c) ==
  /\ held[c] # NoKey
  /\ held' = [held EXCEPT ![c] = NoKey]
  /\ UNCHANGED <<now, waited>>

ReportSuccess(c) ==
  /\ Release(c)
  /\ pool' = AfterSuccess(pool, held[c])

ReportSoftFail(c) ==
  /\ Release(c)
  /\ pool.keys[held[c]].softFails < MaxFails
  /\ \E hint \in Hints : pool' = AfterSoftFail(pool, held[c], hint, now)

ReportHardFail(c) ==
  /\ Release(c)
  /\ pool' = AfterHardFail(pool, held[c], now)

\* A fatal upstream status is passed through without any report.
ReportNothing(c) ==
  /\ Release(c)
  /\ UNCHANGED pool

Tick ==
  /\ now < MaxNow
  /\ now' = now + 1
  /\ UNCHANGED <<pool, held, waited>>

Next ==
  \/ \E c \in Callers : Pick(c)
  \/ \E c \in Callers : ReportSuccess(c)
  \/ \E c \in Callers : ReportSoftFail(c)
  \/ \E c \in Callers : ReportHardFail(c)
  \/ \E c \in Callers : ReportNothing(c)
  \/ Tick

Spec == Init /\ [][Next]_vars

-----------------------------------------------------------------------------
(***************************************************************************)
(* Rotation starves no key: a key that is free whenever somebody picks is  *)
(* handed out within N picks, whatever the other keys do meanwhile (Pick   *)
(* moves idx just past the key it returns, and cooling keys are skipped,   *)
(* never waited for) -- and whatever the pool's strategy.  That a pool     *)
(* with key_strategy fill_first rotates too is not what README.md:19,      *)
(* CHANGELOG.md:23 and config.go:126 promise.                              *)
(***************************************************************************)
RotationFair == \A k \in Key : waited[k] < N

(***************************************************************************)
(* No key is ever out for longer than a hard cooldown from now, in         *)
(* whatever order failures, capped Retry-After hints and hard failures of  *)
(* concurrent uses are reported for it.                                    *)
(***************************************************************************)
CooldownBounded == \A k \in Key : pool.keys[k].coolUntil <= now + HardCool

(***************************************************************************)
(* A cooldown once set is only ever cut short by a caller that used the    *)
(* key with success: a soft failure reported after a longer cooldown (a    *)
(* hard failure, a Retry-After) must not bring the key back early.         *)
(***************************************************************************)
CooldownOnlyCutBySuccess ==
  [][\A k \in Key :
        pool'.keys[k].coolUntil < pool.keys[k].coolUntil
          => \E c \in Callers : ReportSuccess(c) /\ held[c] = k]_vars

=============================================================================
