---------------------------- MODULE DispatchProofs ----------------------------
(***************************************************************************)
(* Theorems about Dispatch for any number of requests, providers and keys, *)
(* any chains, budgets and upstream behaviour.                             *)
(***************************************************************************)
EXTENDS Dispatch, FiniteSetTheorems, TLAPS

-----------------------------------------------------------------------------
(***************************************************************************)
(* Pools stay pools: what typing needs of their operators.  KeyPoolProofs  *)
(* says what else a report and a pick do.                                  *)
(***************************************************************************)

LEMMA ReportType ==
  ASSUME NEW n \in Nat \ {0}, NEW p \in PoolOf(n), NEW k \in 0 .. n - 1,
         NEW t \in Nat, NEW hint \in 0 .. HardCool
  PROVE  /\ AfterSuccess(p, k) \in PoolOf(n)
         /\ AfterSoftFail(p, k, hint, t) \in PoolOf(n)
         /\ AfterHardFail(p, k, t) \in PoolOf(n)
<1>1. /\ p = [keys |-> p.keys, idx |-> p.idx, fillFirst |-> p.fillFirst]
      /\ p.keys \in [0 .. n - 1 -> KeyState]
  BY DEF PoolOf
<1>2. p.keys[k].coolUntil \in Nat /\ p.keys[k].softFails \in Nat
  BY <1>1 DEF KeyState
<1>3. ASSUME NEW state \in KeyState PROVE SetKey(p, k, state) \in PoolOf(n)
  <2>1. SetKey(p, k, state) = [keys |-> [p.keys EXCEPT ![k] = state], idx |-> p.idx,
                         fillFirst |-> p.fillFirst]
    BY <1>1 DEF SetKey
  <2>2. [p.keys EXCEPT ![k] = state] \in [0 .. n - 1 -> KeyState]
    BY <1>1
  <2>3. QED
    BY <2>1, <2>2 DEF PoolOf
<1>4. ASSUME NEW f \in Nat \ {0} PROVE Backoff(f) \in Nat
  <2>1. Smaller(f - 1, MaxShift) \in 0 .. MaxShift
    BY PoolAssumption DEF Smaller
  <2> DEFINE doubled == 2 ^ Smaller(f - 1, MaxShift)
  <2>2. doubled \in Nat
    BY <2>1, PoolAssumption
  <2>3. Backoff(f) = Smaller(doubled, SoftCap)
    BY DEF Backoff
  <2> HIDE DEF doubled
  <2>4. QED
    BY <2>2, <2>3, PoolAssumption DEF Smaller
<1>5. Backoff(p.keys[k].softFails + 1) \in Nat
  BY <1>2, <1>4
<1>6. AfterSoftFail(p, k, hint, t) \in PoolOf(n)
  <2> DEFINE wait  == Larger(Backoff(p.keys[k].softFails + 1), hint)
             state == [coolUntil |-> Larger(p.keys[k].coolUntil, t + wait),
                       softFails |-> p.keys[k].softFails + 1]
  <2>1. wait \in Nat
    BY <1>5, PoolAssumption DEF Larger
  <2>2. AfterSoftFail(p, k, hint, t) = SetKey(p, k, state)
    BY DEF AfterSoftFail
  <2> HIDE DEF wait
  <2>3. state \in KeyState
    BY <1>2, <2>1 DEF Larger, KeyState
  <2>4. QED
    BY <1>3, <2>2, <2>3
<1>7. QED
  BY <1>2, <1>3, <1>6, PoolAssumption DEF AfterSuccess, AfterHardFail, KeyState

LEMMA PickType ==
  ASSUME NEW n \in Nat \ {0}, NEW p \in PoolOf(n), NEW k \in 0 .. n - 1, NEW t \in Nat
  PROVE  AfterPick(p, n, t, k) \in PoolOf(n)
<1>1. (k + 1) % n \in 0 .. n - 1
  OBVIOUS
<1>2. QED
  BY <1>1 DEF AfterPick, PoolOf

LEMMA NewPoolType ==
  ASSUME NEW n \in Nat, NEW f \in BOOLEAN
  PROVE  NewPool(n, f) \in PoolOf(n)
BY DEF NewPool, PoolOf, KeyState

-----------------------------------------------------------------------------
(***************************************************************************)
(* What the handlers' local variables say about each other.  Without it    *)
(* the types are not inductive: a report needs a key of the provider the   *)
(* request is talking to.                                                  *)
(***************************************************************************)
Calling == {"exec", "noteFail", "trip", "noteOk", "body"}

Fresh(r) == log[r] = <<>> /\ tried[r] = {} /\ pos[r] = 1 /\ answer[r] = "none"

OnCall(r) == /\ pos[r] \in 1 .. Len(job[r].chain)
             /\ Cur(r) \in Providers
             /\ key[r] \in Key(Cur(r))

HandlerInv ==
  \A r \in Requests : /\ pc[r] = "idle" => Fresh(r)
                      /\ pc[r] \in Calling => OnCall(r)

\* A chain's entry is a provider.
LEMMA CurType ==
  ASSUME TypeOK, NEW r \in Requests, pos[r] <= Len(job[r].chain)
  PROVE  pos[r] \in 1 .. Len(job[r].chain) /\ Cur(r) \in Providers
<1>1. job[r] \in Job /\ pos[r] \in Nat \ {0}
  BY DEF TypeOK, PoolTypeOK, LocalTypeOK
<1>2. job[r].chain \in Seq(Providers)
  BY <1>1 DEF Job
<1>3. pos[r] \in 1 .. Len(job[r].chain)
  BY <1>1, <1>2
<1>4. QED
  BY <1>2, <1>3 DEF Cur

\* Replacing one provider's pool by another of its size.
LEMMA PoolUpdate ==
  ASSUME TypeOK, NEW p \in Providers, NEW q \in PoolOf(NumKeys[p]),
         pool' = [pool EXCEPT ![p] = q]
  PROVE  PoolTypeOK'
BY DEF TypeOK, PoolTypeOK, LocalTypeOK

\* Whatever is reported for the key on call, the pools stay pools.
LEMMA ReportsKeepPools ==
  ASSUME TypeOK, NEW r \in Requests, OnCall(r), NEW hint \in 0 .. HardCool,
         \/ pool' = [pool EXCEPT ![Cur(r)] = AfterSoftFail(@, key[r], hint, now)]
         \/ pool' = [pool EXCEPT ![Cur(r)] = AfterHardFail(@, key[r], now)]
         \/ pool' = [pool EXCEPT ![Cur(r)] = AfterSuccess(@, key[r])]
  PROVE  PoolTypeOK'
<1> DEFINE p == Cur(r)
<1>1. p \in Providers /\ key[r] \in 0 .. NumKeys[p] - 1
  BY DEF OnCall, Key
<1>n. NumKeys[p] \in Nat
  BY <1>1, DispatchAssumption
<1>2. /\ NumKeys[p] \in Nat \ {0}
      /\ pool[p] \in PoolOf(NumKeys[p])
      /\ now \in Nat
  BY <1>n, <1>1 DEF TypeOK, PoolTypeOK, LocalTypeOK
<1>3. /\ AfterSuccess(pool[p], key[r]) \in PoolOf(NumKeys[p])
      /\ AfterSoftFail(pool[p], key[r], hint, now) \in PoolOf(NumKeys[p])
      /\ AfterHardFail(pool[p], key[r], now) \in PoolOf(NumKeys[p])
  BY <1>1, <1>2, ReportType
<1>5. \E q \in PoolOf(NumKeys[p]) : pool' = [pool EXCEPT ![p] = q]
  BY <1>3
<1>6. QED
  BY <1>1, <1>5, PoolUpdate

\* A pick by r keeps the pools pools, and yields a natural number.
LEMMA PicksKeepPools ==
  ASSUME TypeOK, NEW r \in Requests, Cur(r) \in Providers, NEW k \in Key(Cur(r)),
         pool' = [pool EXCEPT ![Cur(r)] = AfterPick(@, NumKeys[Cur(r)], now, k)]
  PROVE  /\ PoolTypeOK'
         /\ k \in Nat
<1> DEFINE p == Cur(r)
<1>1. p \in Providers /\ k \in 0 .. NumKeys[p] - 1
  BY DEF Key
<1>n. NumKeys[p] \in Nat
  BY <1>1, DispatchAssumption
<1>2. /\ NumKeys[p] \in Nat \ {0}
      /\ pool[p] \in PoolOf(NumKeys[p])
      /\ now \in Nat
  BY <1>n, <1>1 DEF TypeOK, PoolTypeOK, LocalTypeOK
<1>3. AfterPick(pool[p], NumKeys[p], now, k) \in PoolOf(NumKeys[p])
  BY <1>1, <1>2, PickType
<1>4. \E q \in PoolOf(NumKeys[p]) : pool' = [pool EXCEPT ![p] = q]
  BY <1>3
<1>5. k \in Nat
  BY <1>1, <1>2
<1>6. QED
  BY <1>1, <1>4, <1>5, PoolUpdate

\* Before the first request every handler is fresh and every pool new.
LEMMA InitInv == Init => TypeOK /\ HandlerInv
<1> SUFFICES ASSUME Init PROVE TypeOK /\ HandlerInv
  OBVIOUS
<1>1. \A p \in Providers : NewPool(NumKeys[p], p \in FillFirst) \in PoolOf(NumKeys[p])
  <2>1. ASSUME NEW p \in Providers, NEW f \in BOOLEAN
        PROVE  NewPool(NumKeys[p], f) \in PoolOf(NumKeys[p])
    BY NewPoolType, DispatchAssumption
  <2>2. ASSUME NEW p \in Providers PROVE (p \in FillFirst) \in BOOLEAN
    OBVIOUS
  <2>3. QED
    BY <2>1, <2>2, Zenon
<1>2. PoolTypeOK
  <2> DEFINE new == [p \in Providers |-> NewPool(NumKeys[p], p \in FillFirst)]
  <2>1. pool = new
    BY DEF Init
  <2>2. DOMAIN new = Providers /\ \A p \in Providers : new[p] \in PoolOf(NumKeys[p])
    BY <1>1
  <2> HIDE DEF new
  <2>3. QED
    BY <2>1, <2>2 DEF PoolTypeOK
<1>3. [ep |-> "messages", chain |-> <<>>, skip |-> {}, budget |-> 0] \in Job
  BY DEF Job
<1>4. LocalTypeOK
  BY <1>3 DEF Init, LocalTypeOK, Places, Answers
<1>5. HandlerInv
  BY DEF Init, HandlerInv, Fresh, Calling
<1>6. QED
  BY <1>2, <1>4, <1>5 DEF TypeOK

-----------------------------------------------------------------------------
(***************************************************************************)
(* One lemma per action: types and handler invariant are preserved.        *)
(***************************************************************************)
Inv == TypeOK /\ HandlerInv

\* A step of r that leaves job, pos, log, tried and key alone, and r where it
\* was or on its way out of a call, keeps the handler invariant.
LEMMA MoveInv ==
  ASSUME LocalTypeOK, HandlerInv, NEW r \in Requests, NEW place \in Places,
         pc[r] # "idle", place # "idle",
         place \in Calling => pc[r] \in Calling,
         pc' = [pc EXCEPT ![r] = place],
         answer' = answer \/ \E how \in Answers : answer' = [answer EXCEPT ![r] = how],
         UNCHANGED <<job, pos, tried, key, log>>
  PROVE  HandlerInv'
<1> SUFFICES ASSUME NEW q \in Requests
             PROVE  /\ (pc[q] = "idle" => Fresh(q))'
                    /\ (pc[q] \in Calling => OnCall(q))'
  BY DEF HandlerInv
<1>1. /\ pc[q] = "idle" => Fresh(q)
      /\ pc[q] \in Calling => OnCall(q)
      /\ pc[r] \in Calling => OnCall(r)
  BY DEF HandlerInv
<1>2. pc'[q] = IF q = r THEN place ELSE pc[q]
  BY DEF LocalTypeOK
<1>3. OnCall(q)' <=> OnCall(q)
  BY DEF OnCall, Cur
<1>4. q # r => answer'[q] = answer[q]
  BY DEF LocalTypeOK
<1>5. q # r /\ Fresh(q) => Fresh(q)'
  BY <1>4 DEF Fresh
<1>6. CASE q = r
  BY <1>1, <1>2, <1>3, <1>6
<1>7. CASE q # r
  BY <1>1, <1>2, <1>3, <1>5, <1>7
<1>8. QED
  BY <1>6, <1>7

\* Resolve hands the handler a chain of providers and a natural budget.
LEMMA ArriveInv ==
  ASSUME Inv, NEW r \in Requests, Arrive(r)
  PROVE  Inv'
<1>0. LocalTypeOK /\ PoolTypeOK /\ HandlerInv
  BY DEF Inv, TypeOK
<1>1. PICK e \in Endpoints, chain \in Chains,
           b \in {MaxAttempts} \cup Overrides :
        /\ job' = [job EXCEPT ![r] = [ep |-> e, chain |-> chain,
                                       skip |-> Skipped(chain), budget |-> b]]
        /\ left' = [left EXCEPT ![r] = b]
  BY DEF Arrive, Attempts
<1>2. b \in Nat
  BY DispatchAssumption
<1>3. Skipped(chain) \in SUBSET Providers
  <2>1. chain \in Seq(Providers)
    BY DispatchAssumption
  <2>2. Range(chain) \subseteq Providers
    BY <2>1 DEF Range
  <2>3. QED
    BY <2>2 DEF Skipped
<1>4. [ep |-> e, chain |-> chain, skip |-> Skipped(chain), budget |-> b] \in Job
  BY <1>2, <1>3, DispatchAssumption DEF Job
<1>5. LocalTypeOK'
  BY <1>0, <1>1, <1>2, <1>4 DEF Arrive, Goto, LocalTypeOK, Places, provVars
<1>6. PoolTypeOK'
  BY <1>0 DEF Arrive, PoolTypeOK, provVars
<1>7. ASSUME NEW q \in Requests
      PROVE  /\ (pc[q] = "idle" => Fresh(q))'
             /\ (pc[q] \in Calling => OnCall(q))'
  <2>1. pc'[q] = IF q = r THEN "pick" ELSE pc[q]
    BY <1>0 DEF Arrive, Goto, LocalTypeOK
  <2>2. CASE q = r
    BY <2>1, <2>2 DEF Calling
  <2>3. CASE q # r
    <3>1. job'[q] = job[q]
      BY <1>0, <1>1, <2>3 DEF LocalTypeOK
    <3>2. QED
      BY <1>0, <2>1, <2>3, <3>1 DEF HandlerInv, Fresh, OnCall, Cur, Arrive
  <2>4. QED
    BY <2>2, <2>3
<1>8. QED
  BY <1>5, <1>6, <1>7 DEF Inv, TypeOK, HandlerInv

\* Whatever the upstream answers, the report goes to the key on call.
LEMMA UpstreamInv ==
  ASSUME Inv, NEW r \in Requests, Upstream(r)
  PROVE  Inv'
<1>0. /\ LocalTypeOK /\ PoolTypeOK /\ TypeOK /\ HandlerInv
      /\ pc[r] \in Calling => OnCall(r) /\ Cur(r) \in Providers
      /\ 0 \in 0 .. HardCool
      /\ Hints \subseteq 0 .. HardCool
  BY PoolAssumption, DispatchAssumption DEF Inv, TypeOK, HandlerInv, OnCall
<1>1. CASE NetError(r)
  <2>1. LocalTypeOK'
    BY <1>0, <1>1 DEF NetError, Calling, LocalTypeOK, Places, Goto, EndRequest
  <2>2. PoolTypeOK'
    BY <1>0, <1>1, ReportsKeepPools DEF NetError, Calling
  <2>3. HandlerInv'
    BY <1>0, <1>1, MoveInv DEF NetError, Places, Answers, Calling, Goto, Finish
  <2>4. QED
    BY <2>1, <2>2, <2>3 DEF Inv, TypeOK
<1>2. CASE SoftStatus(r)
  <2>1. LocalTypeOK'
    BY <1>0, <1>2 DEF SoftStatus, Calling, LocalTypeOK, Places, Goto, EndRequest
  <2>2. PoolTypeOK'
    BY <1>0, <1>2, ReportsKeepPools DEF SoftStatus, Calling
  <2>3. HandlerInv'
    BY <1>0, <1>2, MoveInv DEF SoftStatus, Places, Answers, Calling, Goto, Finish
  <2>4. QED
    BY <2>1, <2>2, <2>3 DEF Inv, TypeOK
<1>3. CASE HardStatus(r)
  <2>1. LocalTypeOK'
    BY <1>0, <1>3 DEF HardStatus, Calling, LocalTypeOK, Places, Goto, EndRequest
  <2>2. PoolTypeOK'
    BY <1>0, <1>3, ReportsKeepPools DEF HardStatus, Calling
  <2>3. HandlerInv'
    BY <1>0, <1>3, MoveInv DEF HardStatus, Places, Answers, Calling, Goto, Finish
  <2>4. QED
    BY <2>1, <2>2, <2>3 DEF Inv, TypeOK
<1>4. CASE FatalStatus(r)
  <2>1. LocalTypeOK'
    BY <1>0, <1>4
       DEF FatalStatus, Calling, LocalTypeOK, Places, Answers, Goto, Finish, EndRequest
  <2>2. PoolTypeOK'
    BY <1>0, <1>4 DEF FatalStatus, PoolTypeOK, provVars
  <2>3. HandlerInv'
    BY <1>0, <1>4, MoveInv DEF FatalStatus, Places, Answers, Calling, Goto, Finish
  <2>4. QED
    BY <2>1, <2>2, <2>3 DEF Inv, TypeOK
<1>5. CASE OkStatus(r)
  <2>1. LocalTypeOK'
    <3>1. inflight' \in [Providers -> Int]
      BY <1>0, <1>5 DEF OkStatus, Calling, LocalTypeOK, EndRequest
    <3>2. pc' \in [Requests -> Places]
      BY <1>0, <1>5 DEF OkStatus, LocalTypeOK, Places, Goto, Finish
    <3>3. answer' \in [Requests -> Answers]
      BY <1>0, <1>5 DEF OkStatus, LocalTypeOK, Answers, Finish
    <3>4. QED
      BY <1>0, <1>5, <3>1, <3>2, <3>3 DEF OkStatus, LocalTypeOK
  <2>2. PoolTypeOK'
    BY <1>0, <1>5, ReportsKeepPools DEF OkStatus, Calling
  <2>3. HandlerInv'
    BY <1>0, <1>5, MoveInv DEF OkStatus, Places, Answers, Calling, Goto, Finish
  <2>4. QED
    BY <2>1, <2>2, <2>3 DEF Inv, TypeOK
<1>6. CASE BodyDelivered(r)
  <2>1. LocalTypeOK'
    BY <1>0, <1>6
       DEF BodyDelivered, Calling, LocalTypeOK, Places, Answers, Goto, Finish, EndRequest
  <2>2. PoolTypeOK'
    BY <1>0, <1>6 DEF BodyDelivered, PoolTypeOK, provVars
  <2>3. HandlerInv'
    BY <1>0, <1>6, MoveInv DEF BodyDelivered, Places, Answers, Calling, Goto, Finish
  <2>4. QED
    BY <2>1, <2>2, <2>3 DEF Inv, TypeOK
<1>7. CASE BodyFails(r)
  <2>1. LocalTypeOK'
    <3>1. inflight' \in [Providers -> Int]
      BY <1>0, <1>7 DEF BodyFails, Calling, LocalTypeOK, EndRequest
    <3>2. pc' \in [Requests -> Places]
      <4>1. \E place \in {"done", "pick"} : pc' = [pc EXCEPT ![r] = place]
        BY <1>7 DEF BodyFails, Goto, Finish
      <4>2. QED
        BY <1>0, <4>1 DEF LocalTypeOK, Places
    <3>3. answer' \in [Requests -> Answers]
      BY <1>0, <1>7 DEF BodyFails, LocalTypeOK, Answers, Finish
    <3>4. QED
      BY <1>0, <1>7, <3>1, <3>2, <3>3 DEF BodyFails, LocalTypeOK
  <2>2. PoolTypeOK'
    BY <1>0, <1>7 DEF BodyFails, PoolTypeOK, provVars
  <2>3. HandlerInv'
    BY <1>0, <1>7, MoveInv DEF BodyFails, Places, Answers, Calling, Goto, Finish
  <2>4. QED
    BY <2>1, <2>2, <2>3 DEF Inv, TypeOK
<1>8. CASE BodyBlocked(r)
  <2>1. LocalTypeOK'
    BY <1>0, <1>8
       DEF BodyBlocked, Calling, LocalTypeOK, Places, Answers, Goto, Finish, provVars
  <2>2. PoolTypeOK'
    BY <1>0, <1>8 DEF BodyBlocked, PoolTypeOK, provVars
  <2>3. HandlerInv'
    BY <1>0, <1>8, MoveInv DEF BodyBlocked, Places, Answers, Calling, Goto, Finish
  <2>4. QED
    BY <2>1, <2>2, <2>3 DEF Inv, TypeOK
<1>9. QED
  BY <1>1, <1>2, <1>3, <1>4, <1>5, <1>6, <1>7, <1>8 DEF Upstream

\* The handler's own steps: the loop, NoteUpstream and what precedes a target.
LEMMA LoopInv ==
  ASSUME Inv, NEW r \in Requests, Handler(r) \/ AnswerEarly(r)
  PROVE  Inv'
<1>0. /\ LocalTypeOK /\ PoolTypeOK /\ TypeOK /\ HandlerInv
      /\ pc[r] \in Calling => OnCall(r) /\ Cur(r) \in Providers
  BY DEF Inv, TypeOK, HandlerInv, OnCall
<1>1. CASE AnswerEarly(r)
  <2>1. LocalTypeOK'
    BY <1>0, <1>1, DispatchAssumption
       DEF AnswerEarly, Calling, LocalTypeOK, Places, Answers, Goto, Finish, provVars
  <2>2. PoolTypeOK'
    BY <1>0, <1>1 DEF AnswerEarly, PoolTypeOK, provVars
  <2>3. HandlerInv'
    BY <1>0, <1>1, MoveInv DEF AnswerEarly, Places, Answers, Calling, Goto, Finish
  <2>4. QED
    BY <2>1, <2>2, <2>3 DEF Inv, TypeOK
<1>2. CASE GiveUp(r)
  <2>1. LocalTypeOK'
    BY <1>0, <1>2, DispatchAssumption
       DEF GiveUp, Calling, LocalTypeOK, Places, Answers, Goto, Finish, provVars
  <2>2. PoolTypeOK'
    BY <1>0, <1>2 DEF GiveUp, PoolTypeOK, provVars
  <2>3. HandlerInv'
    BY <1>0, <1>2, MoveInv DEF GiveUp, Places, Answers, Calling, Goto, Finish
  <2>4. QED
    BY <2>1, <2>2, <2>3 DEF Inv, TypeOK
<1>3. CASE NoteFailure(r)
  <2>1. LocalTypeOK'
    BY <1>0, <1>3, DispatchAssumption
       DEF NoteFailure, Calling, LocalTypeOK, Places, Goto
  <2>2. PoolTypeOK'
    BY <1>0, <1>3 DEF NoteFailure, PoolTypeOK, provVars
  <2>3. HandlerInv'
    BY <1>0, <1>3, MoveInv DEF NoteFailure, Places, Answers, Calling, Goto, Finish
  <2>4. QED
    BY <2>1, <2>2, <2>3 DEF Inv, TypeOK
<1>4. CASE TripBreaker(r)
  <2>1. LocalTypeOK'
    BY <1>0, <1>4, DispatchAssumption
       DEF TripBreaker, Calling, LocalTypeOK, Places, Goto
  <2>2. PoolTypeOK'
    BY <1>0, <1>4 DEF TripBreaker, PoolTypeOK, provVars
  <2>3. HandlerInv'
    BY <1>0, <1>4, MoveInv DEF TripBreaker, Places, Answers, Calling, Goto, Finish
  <2>4. QED
    BY <2>1, <2>2, <2>3 DEF Inv, TypeOK
<1>5. CASE NoteSuccess(r)
  <2>1. LocalTypeOK'
    BY <1>0, <1>5, DispatchAssumption
       DEF NoteSuccess, Calling, LocalTypeOK, Places, Goto
  <2>2. PoolTypeOK'
    BY <1>0, <1>5 DEF NoteSuccess, PoolTypeOK, provVars
  <2>3. HandlerInv'
    BY <1>0, <1>5, MoveInv DEF NoteSuccess, Places, Answers, Calling, Goto, Finish
  <2>4. QED
    BY <2>1, <2>2, <2>3 DEF Inv, TypeOK
<1>6. CASE NextTarget(r)
  <2>1. LocalTypeOK'
    BY <1>0, <1>6 DEF NextTarget, LocalTypeOK, provVars
  <2>2. PoolTypeOK'
    BY <1>0, <1>6 DEF NextTarget, PoolTypeOK, provVars
  <2>3. ASSUME NEW q \in Requests
        PROVE  /\ (pc[q] = "idle" => Fresh(q))'
               /\ (pc[q] \in Calling => OnCall(q))'
    <3>1. CASE q = r
      BY <1>6, <3>1 DEF NextTarget, Calling
    <3>2. CASE q # r
      <4>1. pos'[q] = pos[q] /\ tried'[q] = tried[q]
        BY <1>0, <1>6, <3>2 DEF NextTarget, LocalTypeOK
      <4>2. QED
        BY <1>0, <1>6, <4>1 DEF NextTarget, HandlerInv, Fresh, OnCall, Cur
    <3>3. QED
      BY <3>1, <3>2
  <2>4. QED
    BY <2>1, <2>2, <2>3 DEF Inv, TypeOK, HandlerInv
<1>7. CASE BurnAttempt(r)
  <2>0. pos[r] <= Len(job[r].chain) /\ left[r] > 0
    BY <1>7 DEF BurnAttempt, CanTry, AtTarget
  <2>1. LocalTypeOK'
    BY <1>0, <1>7, <2>0 DEF BurnAttempt, LocalTypeOK
  <2>2. PoolTypeOK'
    <3>1. PICK k \in Key(Cur(r)) :
               pool' = [pool EXCEPT ![Cur(r)] = AfterPick(@, NumKeys[Cur(r)], now, k)]
      BY <1>7 DEF BurnAttempt
    <3>2. QED
      BY <1>0, <2>0, <3>1, CurType, PicksKeepPools
  <2>3. HandlerInv'
    BY <1>0, <1>7 DEF BurnAttempt, HandlerInv, Fresh, OnCall, Cur
  <2>4. QED
    BY <2>1, <2>2, <2>3 DEF Inv, TypeOK
<1>8. CASE SendAttempt(r)
  <2>0. pos[r] <= Len(job[r].chain) /\ left[r] > 0
    BY <1>8 DEF SendAttempt, CanTry, AtTarget
  <2>1. PICK k \in Key(Cur(r)) :
             /\ pool' = [pool EXCEPT ![Cur(r)] = AfterPick(@, NumKeys[Cur(r)], now, k)]
             /\ tried' = [tried EXCEPT ![r] = @ \cup {k}]
             /\ key' = [key EXCEPT ![r] = k]
             /\ log' = [log EXCEPT ![r] = Append(@, <<pos[r], k>>)]
    BY <1>8 DEF SendAttempt
  <2>2. PoolTypeOK' /\ k \in Nat
    BY <1>0, <2>0, <2>1, CurType, PicksKeepPools
  <2>3. log' \in [Requests -> Seq(Nat \X Nat)]
    <3>1. log[r] \in Seq(Nat \X Nat) /\ <<pos[r], k>> \in Nat \X Nat
      BY <1>0, <2>2 DEF LocalTypeOK
    <3>2. Append(log[r], <<pos[r], k>>) \in Seq(Nat \X Nat)
      BY <3>1
    <3>3. QED
      BY <1>0, <2>1, <3>2 DEF LocalTypeOK
  <2>4. LocalTypeOK'
    <3>1. inflight' \in [Providers -> Int]
      BY <1>0, <1>8, <2>0, CurType DEF SendAttempt, BeginRequest, LocalTypeOK
    <3>2. tried' \in [Requests -> SUBSET Nat] /\ key' \in [Requests -> Nat]
      BY <1>0, <2>1, <2>2 DEF LocalTypeOK
    <3>3. pc' \in [Requests -> Places]
      BY <1>0, <1>8 DEF SendAttempt, LocalTypeOK, Goto, Places
    <3>4. left' \in [Requests -> Nat]
      BY <1>0, <1>8, <2>0 DEF SendAttempt, LocalTypeOK
    <3>5. UNCHANGED <<now, consecFails, openUntil, job, pos, gone, answer>>
      BY <1>8 DEF SendAttempt
    <3>6. QED
      BY <1>0, <2>3, <3>1, <3>2, <3>3, <3>4, <3>5 DEF LocalTypeOK
  <2>5. ASSUME NEW q \in Requests
        PROVE  /\ (pc[q] = "idle" => Fresh(q))'
               /\ (pc[q] \in Calling => OnCall(q))'
    <3>1. UNCHANGED <<job, pos, answer>> /\ pc'[q] = IF q = r THEN "exec" ELSE pc[q]
      BY <1>0, <1>8 DEF SendAttempt, Goto, LocalTypeOK
    <3>2. CASE q = r
      <4>1. key'[r] = k
        BY <1>0, <2>1 DEF LocalTypeOK
      <4>2. OnCall(r)'
        BY <1>0, <2>0, <3>1, <4>1, CurType DEF OnCall, Cur
      <4>3. QED
        BY <3>1, <3>2, <4>2
    <3>3. CASE q # r
      <4>1. tried'[q] = tried[q] /\ key'[q] = key[q] /\ log'[q] = log[q]
        BY <1>0, <2>1, <3>3 DEF LocalTypeOK
      <4>2. QED
        BY <1>0, <3>1, <3>3, <4>1 DEF HandlerInv, Fresh, OnCall, Cur
    <3>4. QED
      BY <3>2, <3>3
  <2>6. QED
    BY <2>2, <2>4, <2>5 DEF Inv, TypeOK, HandlerInv
<1>9. QED
  BY <1>1, <1>2, <1>3, <1>4, <1>5, <1>6, <1>7, <1>8 DEF Handler

\* Every step of the gateway preserves types and handler invariant.
LEMMA StepInv == Inv /\ [Next]_vars => Inv'
<1> SUFFICES ASSUME Inv, [Next]_vars PROVE Inv'
  OBVIOUS
<1>0. LocalTypeOK /\ PoolTypeOK /\ HandlerInv
  BY DEF Inv, TypeOK
<1>1. ASSUME NEW r \in Requests, Disconnect(r) PROVE Inv'
  <2>1. LocalTypeOK' /\ PoolTypeOK'
    BY <1>0, <1>1 DEF Disconnect, LocalTypeOK, PoolTypeOK, provVars
  <2>2. HandlerInv'
    BY <1>0, <1>1 DEF Disconnect, HandlerInv, Fresh, OnCall, Cur
  <2>3. QED
    BY <2>1, <2>2 DEF Inv, TypeOK
<1>2. CASE Tick
  <2>1. LocalTypeOK' /\ PoolTypeOK'
    BY <1>0, <1>2 DEF Tick, LocalTypeOK, PoolTypeOK, provVars, reqVars
  <2>2. HandlerInv'
    BY <1>0, <1>2 DEF Tick, reqVars, HandlerInv, Fresh, OnCall, Cur
  <2>3. QED
    BY <2>1, <2>2 DEF Inv, TypeOK
<1>3. CASE UNCHANGED vars
  <2>1. LocalTypeOK' /\ PoolTypeOK'
    BY <1>0, <1>3 DEF vars, LocalTypeOK, PoolTypeOK, provVars, reqVars
  <2>2. HandlerInv'
    BY <1>0, <1>3 DEF vars, reqVars, HandlerInv, Fresh, OnCall, Cur
  <2>3. QED
    BY <2>1, <2>2 DEF Inv, TypeOK
<1>4. QED
  BY <1>1, <1>2, <1>3, ArriveInv, LoopInv, UpstreamInv DEF Next, Quiet

\* The two invariants hold for ever: what every theorem below starts from.
LEMMA AlwaysInv == Spec => []Inv
<1>1. Init => Inv
  BY InitInv DEF Inv
<1>2. QED
  BY <1>1, StepInv, PTL DEF Spec

-----------------------------------------------------------------------------
(***************************************************************************)
(* The variables keep their types: no handler runs its attempt counter     *)
(* below zero, and every key reported on belongs to the provider called.   *)
(***************************************************************************)
THEOREM DispatchTypes == Spec => []TypeOK
<1>1. Inv => TypeOK
  BY DEF Inv
<1>2. QED
  BY <1>1, AlwaysInv, PTL

-----------------------------------------------------------------------------
(***************************************************************************)
(* What one step of the gateway can do to the loop state of one request:   *)
(* nothing, start it, send it on, cost it an attempt, or move it to the    *)
(* next target.  The three theorems below rest on this lemma alone.        *)
(***************************************************************************)
Keeps(q)  == /\ job'[q] = job[q] /\ pos'[q] = pos[q] /\ left'[q] = left[q]
             /\ tried'[q] = tried[q] /\ log'[q] = log[q]

Starts(q) == /\ Fresh(q)
             /\ pos'[q] = pos[q] /\ tried'[q] = tried[q] /\ log'[q] = log[q]
             /\ left'[q] = job'[q].budget

Sends(q, k) == /\ k \in Key(Cur(q)) /\ k \notin tried[q]
               /\ AtTarget(q) /\ left[q] > 0
               /\ job'[q] = job[q] /\ pos'[q] = pos[q] /\ left'[q] = left[q] - 1
               /\ tried'[q] = tried[q] \cup {k}
               /\ log'[q] = Append(log[q], <<pos[q], k>>)

Burns(q) == /\ left[q] > 0 /\ left'[q] = left[q] - 1
            /\ job'[q] = job[q] /\ pos'[q] = pos[q]
            /\ tried'[q] = tried[q] /\ log'[q] = log[q]

Moves(q) == /\ ~CanTry(q) /\ pos[q] <= Len(job[q].chain)
            /\ pos'[q] = pos[q] + 1 /\ tried'[q] = {}
            /\ job'[q] = job[q] /\ left'[q] = left[q] /\ log'[q] = log[q]

LoopCases(q) == \/ Keeps(q) \/ Starts(q) \/ (\E k \in Nat : Sends(q, k))
                \/ Burns(q) \/ Moves(q)

LEMMA LoopStep ==
  ASSUME Inv, [Next]_vars, NEW q \in Requests
  PROVE  LoopCases(q)
<1>0. LocalTypeOK /\ HandlerInv
  BY DEF Inv, TypeOK
<1>1. ASSUME UNCHANGED <<job, pos, left, tried, log>> PROVE LoopCases(q)
  BY <1>1 DEF LoopCases, Keeps
<1>2. ASSUME NEW r \in Requests, Arrive(r) PROVE LoopCases(q)
  <2>1. PICK e \in Endpoints, chain \in Chains, b \in {MaxAttempts} \cup Overrides :
          /\ job' = [job EXCEPT ![r] = [ep |-> e, chain |-> chain,
                                        skip |-> Skipped(chain), budget |-> b]]
          /\ left' = [left EXCEPT ![r] = b]
    BY <1>2 DEF Arrive, Attempts
  <2>2. UNCHANGED <<pos, tried, log>> /\ pc[r] = "idle"
    BY <1>2 DEF Arrive
  <2>3. CASE q = r
    <3>1. Fresh(q)
      BY <1>0, <2>2, <2>3 DEF HandlerInv
    <3>2. left'[q] = job'[q].budget
      BY <1>0, <2>1, <2>3 DEF LocalTypeOK
    <3>3. QED
      BY <2>2, <3>1, <3>2 DEF LoopCases, Starts
  <2>4. CASE q # r
    BY <1>0, <2>1, <2>2, <2>4 DEF LocalTypeOK, LoopCases, Keeps
  <2>5. QED
    BY <2>3, <2>4
<1>3. ASSUME NEW r \in Requests, SendAttempt(r) PROVE LoopCases(q)
  <2>1. PICK k \in Key(Cur(r)) \ tried[r] :
             /\ tried' = [tried EXCEPT ![r] = @ \cup {k}]
             /\ log' = [log EXCEPT ![r] = Append(@, <<pos[r], k>>)]
    BY <1>3 DEF SendAttempt
  <2>2. /\ left' = [left EXCEPT ![r] = @ - 1]
        /\ UNCHANGED <<job, pos>>
        /\ AtTarget(r) /\ left[r] > 0
    BY <1>3 DEF SendAttempt, CanTry
  <2>3. CASE q = r
    <3>1. k \in Nat
      BY <2>2, CurType, DispatchAssumption DEF Key, AtTarget, Inv
    <3>2. Sends(q, k)
      BY <1>0, <2>1, <2>2, <2>3 DEF LocalTypeOK, Sends
    <3>3. QED
      BY <3>1, <3>2 DEF LoopCases
  <2>4. CASE q # r
    BY <1>0, <2>1, <2>2, <2>4 DEF LocalTypeOK, LoopCases, Keeps
  <2>5. QED
    BY <2>3, <2>4
<1>4. ASSUME NEW r \in Requests, BurnAttempt(r) PROVE LoopCases(q)
  <2>1. /\ left' = [left EXCEPT ![r] = @ - 1]
        /\ UNCHANGED <<job, pos, tried, log>>
        /\ left[r] > 0
    BY <1>4 DEF BurnAttempt, CanTry
  <2>2. QED
    BY <1>0, <2>1 DEF LocalTypeOK, LoopCases, Keeps, Burns
<1>5. ASSUME NEW r \in Requests, NextTarget(r) PROVE LoopCases(q)
  <2>1. /\ pos' = [pos EXCEPT ![r] = @ + 1]
        /\ tried' = [tried EXCEPT ![r] = {}]
        /\ UNCHANGED <<job, left, log>>
        /\ ~CanTry(r) /\ pos[r] <= Len(job[r].chain)
    BY <1>5 DEF NextTarget
  <2>2. QED
    BY <1>0, <2>1 DEF LocalTypeOK, LoopCases, Keeps, Moves
<1>6. ASSUME NEW r \in Requests,
             AnswerEarly(r) \/ GiveUp(r) \/ NoteFailure(r) \/ TripBreaker(r) \/ NoteSuccess(r)
               \/ Disconnect(r)
      PROVE  UNCHANGED <<job, pos, left, tried, log>>
  BY <1>6 DEF AnswerEarly, GiveUp, NoteFailure, TripBreaker, NoteSuccess, Disconnect
<1>7. ASSUME NEW r \in Requests, Upstream(r)
      PROVE  UNCHANGED <<job, pos, left, tried, log>>
  BY <1>7 DEF Upstream, NetError, SoftStatus, HardStatus, FatalStatus, OkStatus,
              BodyDelivered, BodyFails, BodyBlocked
<1>8. Tick \/ UNCHANGED vars => UNCHANGED <<job, pos, left, tried, log>>
  BY DEF Tick, vars, reqVars
<1>9. QED
  BY <1>1, <1>2, <1>3, <1>4, <1>5, <1>6, <1>7, <1>8 DEF Next, Handler, Quiet

-----------------------------------------------------------------------------
(***************************************************************************)
(* The upstream calls made and those still allowed never exceed the        *)
(* request's budget: each call pays for itself, a burnt attempt pays       *)
(* without a call, and no change of target refunds anything.               *)
(***************************************************************************)
THEOREM WithinBudget == Spec => []AttemptsWithinBudget
<1>1. Init => AttemptsWithinBudget
  BY DEF Init, AttemptsWithinBudget
<1>2. Inv /\ AttemptsWithinBudget /\ [Next]_vars => AttemptsWithinBudget'
  <2> SUFFICES ASSUME Inv, AttemptsWithinBudget, [Next]_vars, NEW q \in Requests
               PROVE  Len(log'[q]) + left'[q] <= job'[q].budget
    BY DEF AttemptsWithinBudget
  <2>1. /\ log[q] \in Seq(Nat \X Nat) /\ left[q] \in Nat /\ pos[q] \in Nat
        /\ job[q].budget \in Nat
        /\ Len(log[q]) + left[q] <= job[q].budget
    BY DEF Inv, TypeOK, LocalTypeOK, Job, AttemptsWithinBudget
  <2>2. job'[q].budget \in Nat
    BY StepInv DEF Inv, TypeOK, LocalTypeOK, Job
  <2>3. CASE Keeps(q)
    BY <2>1, <2>3 DEF Keeps
  <2>4. CASE Starts(q)
    BY <2>1, <2>2, <2>4 DEF Starts, Fresh
  <2>5. ASSUME NEW k \in Nat, Sends(q, k)
        PROVE  Len(log'[q]) + left'[q] <= job'[q].budget
    BY <2>1, <2>5 DEF Sends
  <2>6. CASE Burns(q)
    BY <2>1, <2>6 DEF Burns
  <2>7. CASE Moves(q)
    BY <2>1, <2>7 DEF Moves
  <2>8. QED
    BY <2>3, <2>4, <2>5, <2>6, <2>7, LoopStep DEF LoopCases
<1>3. QED
  BY <1>1, <1>2, AlwaysInv, PTL DEF Spec

-----------------------------------------------------------------------------
\* A log with one more call: the earlier calls stay where they are.
LEMMA Appended ==
  ASSUME NEW old \in Seq(Nat \X Nat), NEW call \in Nat \X Nat
  PROVE  /\ DOMAIN old = 1 .. Len(old) /\ Len(old) \in Nat
         /\ DOMAIN Append(old, call) = 1 .. Len(old) + 1
         /\ \A n \in 1 .. Len(old) : Append(old, call)[n] = old[n]
         /\ Append(old, call)[Len(old) + 1] = call
  OBVIOUS

\* The log after a new call.
LEMMA SendsLog ==
  ASSUME LocalTypeOK, NEW q \in Requests, NEW k \in Nat, Sends(q, k)
  PROVE  /\ DOMAIN log[q] = 1 .. Len(log[q]) /\ Len(log[q]) \in Nat
         /\ DOMAIN log'[q] = 1 .. Len(log[q]) + 1
         /\ \A n \in DOMAIN log[q] : log'[q][n] = log[q][n]
         /\ log'[q][Len(log[q]) + 1] = <<pos[q], k>>
<1>1. log[q] \in Seq(Nat \X Nat) /\ pos[q] \in Nat
  BY DEF LocalTypeOK
<1>2. <<pos[q], k>> \in Nat \X Nat
  BY <1>1
<1>3. log'[q] = Append(log[q], <<pos[q], k>>)
  BY DEF Sends
<1>4. \A old \in Seq(Nat \X Nat), call \in Nat \X Nat : \A new :
        new = Append(old, call) =>
          /\ DOMAIN old = 1 .. Len(old) /\ Len(old) \in Nat
          /\ DOMAIN new = 1 .. Len(old) + 1
          /\ \A n \in 1 .. Len(old) : new[n] = old[n]
          /\ new[Len(old) + 1] = call
  BY Appended
<1>5. DOMAIN log[q] = 1 .. Len(log[q]) /\ Len(log[q]) \in Nat
  BY <1>1
<1>6. QED
  BY <1>1, <1>2, <1>3, <1>4, <1>5

\* What makes a new call new: the calls already made were to earlier targets,
\* or to this one with a key recorded in triedKeys.
CallsRecorded ==
  \A r \in Requests : \A n \in DOMAIN log[r] :
    /\ log[r][n][1] <= pos[r]
    /\ log[r][n][1] = pos[r] => log[r][n][2] \in tried[r]

(***************************************************************************)
(* No target is called twice with one key, although the rotation of its    *)
(* pool is moved by all requests and Pick may return a tried key again.    *)
(* NoKeyTwice is not inductive; with CallsRecorded it is.                  *)
(***************************************************************************)
THEOREM KeysOnce == Spec => []NoKeyTwice
<1>1. Init => CallsRecorded /\ NoKeyTwice
  BY DEF Init, CallsRecorded, NoKeyTwice
<1>2. Inv /\ CallsRecorded /\ NoKeyTwice /\ [Next]_vars => CallsRecorded' /\ NoKeyTwice'
  <2> SUFFICES ASSUME Inv, CallsRecorded, NoKeyTwice, [Next]_vars, NEW q \in Requests
               PROVE  /\ \A n \in DOMAIN log'[q] :
                           /\ log'[q][n][1] <= pos'[q]
                           /\ log'[q][n][1] = pos'[q] => log'[q][n][2] \in tried'[q]
                      /\ \A i, j \in DOMAIN log'[q] : log'[q][i] = log'[q][j] => i = j
    BY DEF CallsRecorded, NoKeyTwice
  <2> DEFINE Goal == /\ \A n \in DOMAIN log'[q] :
                          /\ log'[q][n][1] <= pos'[q]
                          /\ log'[q][n][1] = pos'[q] => log'[q][n][2] \in tried'[q]
                     /\ \A i, j \in DOMAIN log'[q] : log'[q][i] = log'[q][j] => i = j
  <2>1. /\ log[q] \in Seq(Nat \X Nat) /\ pos[q] \in Nat
        /\ \A n \in DOMAIN log[q] :
             /\ log[q][n] \in Nat \X Nat
             /\ log[q][n][1] \in Nat
             /\ log[q][n][1] <= pos[q]
             /\ log[q][n][1] = pos[q] => log[q][n][2] \in tried[q]
        /\ \A i, j \in DOMAIN log[q] : log[q][i] = log[q][j] => i = j
    BY DEF Inv, TypeOK, LocalTypeOK, CallsRecorded, NoKeyTwice
  <2>2. CASE Keeps(q) \/ Starts(q) \/ Burns(q)
    BY <2>1, <2>2 DEF Keeps, Starts, Burns
  <2>3. ASSUME NEW k \in Nat, Sends(q, k) PROVE Goal
    <3> DEFINE call == <<pos[q], k>>
    <3>1. /\ log'[q] = Append(log[q], call) /\ pos'[q] = pos[q]
          /\ tried'[q] = tried[q] \cup {k} /\ k \notin tried[q]
      BY <2>3 DEF Sends
    <3>2. call[1] = pos[q] /\ call[2] = k /\ call \in Nat \X Nat
      BY <2>1
    <3>3. \A n \in DOMAIN log[q] : log[q][n] # call
      BY <2>1, <3>1, <3>2
    <3> HIDE DEF call
    <3>4. /\ DOMAIN log'[q] = 1 .. Len(log[q]) + 1
          /\ DOMAIN log[q] = 1 .. Len(log[q]) /\ Len(log[q]) \in Nat
          /\ \A n \in DOMAIN log[q] : log'[q][n] = log[q][n]
          /\ log'[q][Len(log[q]) + 1] = call
      BY <2>3, SendsLog DEF Inv, TypeOK, call
    <3>5. ASSUME NEW n \in DOMAIN log'[q]
          PROVE  /\ log'[q][n][1] <= pos'[q]
                 /\ log'[q][n][1] = pos'[q] => log'[q][n][2] \in tried'[q]
      <4>1. CASE n \in DOMAIN log[q]
        BY <2>1, <3>1, <3>4, <4>1
      <4>2. CASE n = Len(log[q]) + 1
        BY <2>1, <3>1, <3>2, <3>4, <4>2
      <4>3. QED
        BY <3>4, <4>1, <4>2
    <3>6. ASSUME NEW i \in DOMAIN log'[q], NEW j \in DOMAIN log'[q],
                 log'[q][i] = log'[q][j]
          PROVE  i = j
      <4>1. i \in DOMAIN log[q] \/ i = Len(log[q]) + 1
        BY <3>4
      <4>2. j \in DOMAIN log[q] \/ j = Len(log[q]) + 1
        BY <3>4
      <4>3. QED
        BY <2>1, <3>3, <3>4, <3>6, <4>1, <4>2
    <3>7. QED
      BY <3>5, <3>6
  <2>4. CASE Moves(q)
    BY <2>1, <2>4 DEF Moves
  <2>5. QED
    BY <2>2, <2>3, <2>4, LoopStep DEF LoopCases
<1>3. QED
  BY <1>1, <1>2, AlwaysInv, PTL DEF Spec

-----------------------------------------------------------------------------
\* triedKeys alone does not say that its keys were called, nor that they are
\* keys of the current target.
TriedWereCalled ==
  \A r \in Requests :
    /\ \A k \in tried[r] : Called(r, pos[r], k)
    /\ pos[r] \in DOMAIN job[r].chain => tried[r] \subseteq Key(Cur(r))

\* Keys tried on a target with nothing left to try are all of its keys.
LEMMA AllTried ==
  ASSUME NEW n \in Nat, NEW T \in SUBSET (0 .. n - 1), ~(Cardinality(T) < n)
  PROVE  T = 0 .. n - 1
<1> DEFINE S == 0 .. n - 1
<1>1. IsFiniteSet(S) /\ Cardinality(S) = IF 0 > n - 1 THEN 0 ELSE n - 1 - 0 + 1
  BY FS_Interval
<1>2. Cardinality(S) = n
  BY <1>1
<1>3. T \in SUBSET S
  OBVIOUS
<1> HIDE DEF S
<1>4. IsFiniteSet(T) /\ Cardinality(T) <= n
  BY <1>1, <1>2, <1>3, FS_Subset
<1>5. Cardinality(T) \in Nat
  BY <1>4, FS_CardinalityType
<1>6. Cardinality(S) = Cardinality(T)
  BY <1>2, <1>4, <1>5
<1>7. S = T
  BY <1>1, <1>3, <1>6, FS_Subset
<1>8. QED
  BY <1>7 DEF S

(***************************************************************************)
(* While attempts are left, the handlers go on to the next provider only   *)
(* after a call with every key of the current one: the loop stops for want *)
(* of keys, and the keys it has tried were called and are all there are.   *)
(***************************************************************************)
THEOREM FallbackInOrder == Spec => []NoPrematureFallback
<1>1. Init => TriedWereCalled /\ NoPrematureFallback
  BY DEF Init, TriedWereCalled, NoPrematureFallback
<1>2. Inv /\ TriedWereCalled /\ NoPrematureFallback /\ [Next]_vars
        => TriedWereCalled' /\ NoPrematureFallback'
  <2> SUFFICES ASSUME Inv, TriedWereCalled, NoPrematureFallback, [Next]_vars,
                      NEW q \in Requests
               PROVE  /\ \A k \in tried'[q] : Called(q, pos[q], k)'
                      /\ pos'[q] \in DOMAIN job'[q].chain => tried'[q] \subseteq Key(Cur(q)')
                      /\ left'[q] > 0 => \A i \in DOMAIN job'[q].chain :
                           i < pos'[q] /\ job'[q].chain[i] \notin job'[q].skip
                             => \A k \in Key(job'[q].chain[i]) : Called(q, i, k)'
    BY DEF TriedWereCalled, NoPrematureFallback, Key
  <2> DEFINE Goal == /\ \A k \in tried'[q] : Called(q, pos[q], k)'
                     /\ pos'[q] \in DOMAIN job'[q].chain => tried'[q] \subseteq Key(Cur(q)')
                     /\ left'[q] > 0 => \A i \in DOMAIN job'[q].chain :
                          i < pos'[q] /\ job'[q].chain[i] \notin job'[q].skip
                            => \A k \in Key(job'[q].chain[i]) : Called(q, i, k)'
  <2>1. /\ log[q] \in Seq(Nat \X Nat) /\ pos[q] \in Nat \ {0} /\ left[q] \in Nat
        /\ \A k \in tried[q] : Called(q, pos[q], k)
        /\ pos[q] \in DOMAIN job[q].chain => tried[q] \subseteq Key(Cur(q))
        /\ left[q] > 0 => \A i \in DOMAIN job[q].chain :
             i < pos[q] /\ job[q].chain[i] \notin job[q].skip
               => \A k \in Key(job[q].chain[i]) : Called(q, i, k)
        /\ job[q].chain \in Seq(Providers)
    BY DEF Inv, TypeOK, LocalTypeOK, Job, TriedWereCalled, NoPrematureFallback
  <2>2. CASE Keeps(q) \/ Burns(q)
    <3>1. /\ job'[q] = job[q] /\ pos'[q] = pos[q] /\ tried'[q] = tried[q]
          /\ log'[q] = log[q] /\ (left'[q] > 0 => left[q] > 0)
      BY <2>1, <2>2 DEF Keeps, Burns
    <3>2. QED
      BY <2>1, <3>1 DEF Called, Cur
  <2>3. CASE Starts(q)
    <3>1. pos'[q] = 1 /\ tried'[q] = {}
      BY <2>3 DEF Starts, Fresh
    <3>2. job'[q].chain \in Seq(Providers)
      BY StepInv DEF Inv, TypeOK, LocalTypeOK, Job
    <3>3. QED
      BY <3>1, <3>2
  <2>4. ASSUME NEW k \in Nat, Sends(q, k) PROVE Goal
    <3>1. /\ log'[q] = Append(log[q], <<pos[q], k>>) /\ pos'[q] = pos[q]
          /\ tried'[q] = tried[q] \cup {k} /\ k \in Key(Cur(q))
          /\ job'[q] = job[q] /\ left[q] > 0
      BY <2>4 DEF Sends
    <3>2. /\ DOMAIN log'[q] = 1 .. Len(log[q]) + 1
          /\ DOMAIN log[q] = 1 .. Len(log[q]) /\ Len(log[q]) \in Nat
          /\ \A n \in DOMAIN log[q] : log'[q][n] = log[q][n]
          /\ log'[q][Len(log[q]) + 1] = <<pos[q], k>>
      BY <2>4, SendsLog DEF Inv, TypeOK
    <3>3. \A i, j : Called(q, i, j) => Called(q, i, j)'
      BY <3>2 DEF Called
    <3>4. Called(q, pos[q], k)'
      <4>1. Len(log[q]) + 1 \in DOMAIN log'[q]
        BY <3>2
      <4>2. log'[q][Len(log[q]) + 1] = <<pos'[q], k>>
        BY <3>1, <3>2
      <4>3. QED
        BY <4>1, <4>2 DEF Called
    <3>5. QED
      BY <2>1, <3>1, <3>3, <3>4 DEF Cur
  <2>5. CASE Moves(q)
    <3>1. /\ job'[q] = job[q] /\ left'[q] = left[q] /\ log'[q] = log[q]
          /\ pos'[q] = pos[q] + 1 /\ tried'[q] = {}
          /\ ~CanTry(q) /\ pos[q] <= Len(job[q].chain)
      BY <2>5 DEF Moves
    <3>2. \A i, j : Called(q, i, j) => Called(q, i, j)'
      BY <3>1 DEF Called
    <3>3. ASSUME left[q] > 0, Cur(q) \notin job[q].skip
          PROVE  \A k \in Key(Cur(q)) : Called(q, pos[q], k)
      <4>1. pos[q] \in DOMAIN job[q].chain /\ Cur(q) \in Providers
        BY <2>1, <3>1, CurType DEF Inv
      <4>2. NumKeys[Cur(q)] \in Nat
        BY <4>1, DispatchAssumption
      <4>3. ~(Cardinality(tried[q]) < NumKeys[Cur(q)])
        BY <3>1, <3>3 DEF CanTry, AtTarget
      <4>4. tried[q] = Key(Cur(q))
        BY <2>1, <4>1, <4>2, <4>3, AllTried DEF Key
      <4>5. QED
        BY <2>1, <4>4
    <3>4. ASSUME left[q] > 0, NEW i \in DOMAIN job[q].chain, i < pos[q] + 1,
                 job[q].chain[i] \notin job[q].skip, NEW k \in Key(job[q].chain[i])
          PROVE  Called(q, i, k)'
      <4>1. CASE i < pos[q]
        BY <2>1, <3>2, <3>4, <4>1
      <4>2. CASE i = pos[q]
        BY <3>2, <3>3, <3>4, <4>2 DEF Cur
      <4>3. i \in Int
        BY <2>1
      <4>4. QED
        BY <2>1, <3>4, <4>1, <4>2, <4>3
    <3>5. /\ \A k \in tried'[q] : Called(q, pos[q], k)'
          /\ tried'[q] \subseteq Key(Cur(q)')
      BY <3>1
    <3>6. QED
      BY <3>1, <3>4, <3>5
  <2>6. QED
    BY <2>2, <2>3, <2>4, <2>5, LoopStep DEF LoopCases
<1>3. QED
  BY <1>1, <1>2, AlwaysInv, PTL DEF Spec

-----------------------------------------------------------------------------
(***************************************************************************)
(* The in-flight counters are exact.  InflightCounts is inductive once it  *)
(* is known that an unfinished request has no answer yet, so that only a   *)
(* call under way, or a blocked answer, holds a place.                     *)
(***************************************************************************)
Unanswered == \A r \in Requests : pc[r] # "done" => answer[r] = "none"

Holders(p) == {r \in Requests : Holds(r, p)}

Act(r) == Arrive(r) \/ AnswerEarly(r) \/ Handler(r) \/ Upstream(r) \/ Disconnect(r)

\* An action of r leaves the place, the target and the answer of another alone.
LEMMA OthersStay ==
  ASSUME Inv, NEW r \in Requests, Act(r), NEW q \in Requests, q # r
  PROVE  /\ pc'[q] = pc[q] /\ answer'[q] = answer[q]
         /\ pos'[q] = pos[q] /\ job'[q] = job[q]
<1> DEFINE Same == /\ pc'[q] = pc[q] /\ answer'[q] = answer[q]
                   /\ pos'[q] = pos[q] /\ job'[q] = job[q]
<1>0. LocalTypeOK
  BY DEF Inv, TypeOK
<1>1. ASSUME Arrive(r) PROVE Same
  <2>1. \E v : job' = [job EXCEPT ![r] = v]
    BY <1>1 DEF Arrive
  <2>2. QED
    BY <1>0, <1>1, <2>1 DEF Arrive, Goto, LocalTypeOK
<1>2. ASSUME AnswerEarly(r) \/ GiveUp(r) \/ NoteSuccess(r) \/ Disconnect(r) PROVE Same
  BY <1>0, <1>2
     DEF AnswerEarly, GiveUp, NoteSuccess, Disconnect, Goto, Finish, LocalTypeOK
<1>3. ASSUME NoteFailure(r) \/ TripBreaker(r) PROVE Same
  BY <1>0, <1>3 DEF NoteFailure, TripBreaker, Goto, LocalTypeOK
<1>4. ASSUME SendAttempt(r) \/ BurnAttempt(r) \/ NextTarget(r) PROVE Same
  BY <1>0, <1>4 DEF SendAttempt, BurnAttempt, NextTarget, Goto, LocalTypeOK
<1>5. ASSUME NetError(r) \/ SoftStatus(r) \/ HardStatus(r) \/ FatalStatus(r) \/ OkStatus(r)
      PROVE  Same
  BY <1>0, <1>5 DEF NetError, SoftStatus, HardStatus, FatalStatus, OkStatus,
                    Goto, Finish, LocalTypeOK
<1>6. ASSUME BodyDelivered(r) \/ BodyFails(r) \/ BodyBlocked(r) PROVE Same
  BY <1>0, <1>6 DEF BodyDelivered, BodyFails, BodyBlocked, Goto, Finish, LocalTypeOK
<1>7. QED
  BY <1>1, <1>2, <1>3, <1>4, <1>5, <1>6 DEF Act, Handler, Upstream

\* Nor does it touch what another request holds.
LEMMA OthersHold ==
  ASSUME Inv, NEW r \in Requests, Act(r), NEW q \in Requests, q # r
  PROVE  /\ pc'[q] = pc[q] /\ answer'[q] = answer[q]
         /\ \A p : Holds(q, p)' <=> Holds(q, p)
BY OthersStay DEF Holds, Cur

\* Who holds nothing.
LEMMA HoldsNothing ==
  ASSUME NEW r \in Requests, pc[r] \notin {"exec", "noteOk", "body"}, answer[r] # "blocked"
  PROVE  \A p : ~Holds(r, p)
BY DEF Holds

\* BeginRequest: one more holder, one more in the counter.
LEMMA GainPlace ==
  ASSUME InflightCounts, Inv, NEW r \in Requests, NEW p \in Providers,
         inflight' = [inflight EXCEPT ![p] = @ + 1],
         \A q \in Requests : q # r => \A o : Holds(q, o)' <=> Holds(q, o),
         \A o : ~Holds(r, o),
         \A o : Holds(r, o)' <=> o = p
  PROVE  InflightCounts'
<1> SUFFICES ASSUME NEW o \in Providers PROVE inflight'[o] = Cardinality(Holders(o)')
  BY DEF InflightCounts, Holders
<1>1. /\ inflight[o] = Cardinality(Holders(o)) /\ inflight \in [Providers -> Int]
      /\ IsFiniteSet(Holders(o))
  BY FS_Subset, DispatchAssumption DEF InflightCounts, Holders, Inv, TypeOK, LocalTypeOK
<1>2. CASE o = p
  <2>1. Holders(o)' = Holders(o) \cup {r} /\ r \notin Holders(o)
    BY <1>2 DEF Holders
  <2>2. Cardinality(Holders(o) \cup {r}) = Cardinality(Holders(o)) + 1
    BY <1>1, <2>1, FS_AddElement
  <2>3. QED
    BY <1>1, <1>2, <2>1, <2>2
<1>3. CASE o # p
  <2>1. Holders(o)' = Holders(o)
    BY <1>3 DEF Holders
  <2>2. QED
    BY <1>1, <1>3, <2>1
<1>4. QED
  BY <1>2, <1>3

\* EndRequest: one holder less, one less in the counter.
LEMMA LosePlace ==
  ASSUME InflightCounts, Inv, NEW r \in Requests, NEW p \in Providers,
         inflight' = [inflight EXCEPT ![p] = @ - 1],
         \A q \in Requests : q # r => \A o : Holds(q, o)' <=> Holds(q, o),
         \A o : Holds(r, o) <=> o = p,
         \A o : ~Holds(r, o)'
  PROVE  InflightCounts'
<1> SUFFICES ASSUME NEW o \in Providers PROVE inflight'[o] = Cardinality(Holders(o)')
  BY DEF InflightCounts, Holders
<1>1. /\ inflight[o] = Cardinality(Holders(o)) /\ inflight \in [Providers -> Int]
      /\ IsFiniteSet(Holders(o))
  BY FS_Subset, DispatchAssumption DEF InflightCounts, Holders, Inv, TypeOK, LocalTypeOK
<1>2. CASE o = p
  <2>1. Holders(o)' = Holders(o) \ {r} /\ r \in Holders(o)
    BY <1>2 DEF Holders
  <2>2. Cardinality(Holders(o) \ {r}) = Cardinality(Holders(o)) - 1
    BY <1>1, <2>1, FS_RemoveElement
  <2>3. QED
    BY <1>1, <1>2, <2>1, <2>2
<1>3. CASE o # p
  <2>1. Holders(o)' = Holders(o)
    BY <1>3 DEF Holders
  <2>2. QED
    BY <1>1, <1>3, <2>1
<1>4. QED
  BY <1>2, <1>3

\* A step that changes neither counters nor holders.
LEMMA KeepPlaces ==
  ASSUME InflightCounts, inflight' = inflight,
         \A q \in Requests : \A o : Holds(q, o)' <=> Holds(q, o)
  PROVE  InflightCounts'
<1> SUFFICES ASSUME NEW o \in Providers PROVE inflight'[o] = Cardinality(Holders(o)')
  BY DEF InflightCounts, Holders
<1>1. Holders(o)' = Holders(o)
  BY DEF Holders
<1>2. QED
  BY <1>1 DEF InflightCounts, Holders

\* A finished request stays answered, an unfinished one unanswered.
LEMMA UnansweredStep == Inv /\ Unanswered /\ [Next]_vars => Unanswered'
<1> SUFFICES ASSUME Inv, Unanswered, [Next]_vars PROVE Unanswered'
  OBVIOUS
<1>0. LocalTypeOK
  BY DEF Inv, TypeOK
<1>1. ASSUME NEW r \in Requests, Act(r),
             pc'[r] = "done" \/ (answer'[r] = answer[r] /\ pc[r] # "done")
      PROVE  Unanswered'
  <2> SUFFICES ASSUME NEW q \in Requests, pc'[q] # "done" PROVE answer'[q] = "none"
    BY DEF Unanswered
  <2>1. CASE q = r
    BY <1>1, <2>1 DEF Unanswered
  <2>2. CASE q # r
    BY <1>1, <2>2, OthersHold DEF Unanswered
  <2>3. QED
    BY <2>1, <2>2
<1>2. ASSUME NEW r \in Requests, Act(r)
      PROVE  pc'[r] = "done" \/ (answer'[r] = answer[r] /\ pc[r] # "done")
  <2>1. CASE Arrive(r) \/ NoteFailure(r) \/ TripBreaker(r) \/ NoteSuccess(r)
    BY <2>1 DEF Arrive, NoteFailure, TripBreaker, NoteSuccess
  <2>2. CASE SendAttempt(r) \/ BurnAttempt(r) \/ NextTarget(r) \/ Disconnect(r)
    BY <2>2 DEF SendAttempt, BurnAttempt, NextTarget, Disconnect
  <2>3. CASE NetError(r) \/ SoftStatus(r) \/ HardStatus(r) \/ OkStatus(r)
    BY <2>3 DEF NetError, SoftStatus, HardStatus, OkStatus
  <2>4. CASE AnswerEarly(r) \/ GiveUp(r) \/ FatalStatus(r) \/ BodyDelivered(r) \/ BodyBlocked(r)
    BY <1>0, <2>4 DEF AnswerEarly, GiveUp, FatalStatus, BodyDelivered, BodyBlocked,
                      Goto, Finish, LocalTypeOK
  <2>5. CASE BodyFails(r)
    <3>1. pc' = [pc EXCEPT ![r] = "done"] \/ answer' = answer
      BY <2>5 DEF BodyFails, Goto, Finish
    <3>2. QED
      BY <1>0, <2>5, <3>1 DEF BodyFails, LocalTypeOK
  <2>6. QED
    BY <1>2, <2>1, <2>2, <2>3, <2>4, <2>5 DEF Act, Handler, Upstream
<1>3. CASE Tick \/ UNCHANGED vars
  BY <1>3 DEF Tick, vars, reqVars, Unanswered
<1>4. QED
  BY <1>1, <1>2, <1>3 DEF Next, Quiet, Act

(***************************************************************************)
(* The in-flight counter of every provider equals the number of requests   *)
(* between BeginRequest and EndRequest, plus those a response guardrail    *)
(* blocked: every other path out of a call, of either handler, ends it     *)
(* exactly once.                                                           *)
(***************************************************************************)
THEOREM InflightExact == Spec => []InflightCounts
<1>1. Init => Unanswered /\ InflightCounts
  <2> SUFFICES ASSUME Init PROVE Unanswered /\ InflightCounts
    OBVIOUS
  <2>1. \A p \in Providers : Holders(p) = {}
    BY DEF Init, Holders, Holds
  <2>2. QED
    BY <2>1, FS_EmptySet DEF Init, Unanswered, InflightCounts, Holders
<1>2. Inv /\ Unanswered /\ InflightCounts /\ [Next]_vars => InflightCounts'
  <2> SUFFICES ASSUME Inv, Unanswered, InflightCounts, [Next]_vars PROVE InflightCounts'
    OBVIOUS
  <2>0. LocalTypeOK /\ HandlerInv
    BY DEF Inv, TypeOK
  <2>1. ASSUME NEW r \in Requests, SendAttempt(r) PROVE InflightCounts'
    <3>1. /\ pc[r] = "pick" /\ pc' = [pc EXCEPT ![r] = "exec"]
          /\ UNCHANGED <<job, pos, answer>>
          /\ inflight' = [inflight EXCEPT ![Cur(r)] = @ + 1]
          /\ pos[r] <= Len(job[r].chain)
      BY <2>1 DEF SendAttempt, Goto, BeginRequest, CanTry, AtTarget
    <3>2. pos[r] \in DOMAIN job[r].chain /\ Cur(r) \in Providers
      BY <2>0, <3>1, CurType DEF Inv, LocalTypeOK, Job
    <3>3. \A o : ~Holds(r, o)
      BY <3>1, HoldsNothing DEF Unanswered
    <3>4. \A o : Holds(r, o)' <=> o = Cur(r)
      BY <2>0, <3>1, <3>2 DEF Holds, Cur, LocalTypeOK
    <3>5. QED
      BY <2>1, <3>1, <3>2, <3>3, <3>4, OthersHold, GainPlace DEF Act, Handler
  <2>2. ASSUME NEW r \in Requests, Act(r), pc[r] \in {"exec", "body"},
               pc[r] = "body" => job[r].ep = "messages",
               EndRequest(Cur(r)), UNCHANGED <<job, pos>>,
               \/ pc'[r] \in {"noteFail", "pick", "done"} /\ answer'[r] # "blocked"
               \/ pc'[r] = "body" /\ job[r].ep # "messages" /\ answer'[r] # "blocked"
        PROVE  InflightCounts'
    <3>1. Cur(r) \in Providers /\ pos[r] \in DOMAIN job[r].chain
      BY <2>0, <2>2 DEF HandlerInv, OnCall, Calling, LocalTypeOK, Job
    <3>2. \A o : Holds(r, o) <=> o = Cur(r)
      BY <2>2, <3>1 DEF Holds
    <3>3. \A o : ~Holds(r, o)'
      BY <2>2 DEF Holds
    <3>4. QED
      BY <2>2, <3>1, <3>2, <3>3, OthersHold, LosePlace DEF EndRequest
  <2>3. ASSUME NEW r \in Requests, Act(r), UNCHANGED inflight,
               \A o : Holds(r, o)' <=> Holds(r, o)
        PROVE  InflightCounts'
    BY <2>3, OthersHold, KeepPlaces
  <2>4. ASSUME NEW r \in Requests, Act(r), UNCHANGED inflight,
               pc[r] \notin {"exec", "noteOk", "body", "done"},
               pc'[r] \notin {"exec", "noteOk", "body"}, answer'[r] # "blocked"
        PROVE  InflightCounts'
    <3>1. \A o : ~Holds(r, o)
      BY <2>4, HoldsNothing DEF Unanswered
    <3>2. \A o : ~Holds(r, o)'
      BY <2>4 DEF Holds
    <3>3. QED
      BY <2>3, <2>4, <3>1, <3>2
  <2>5. ASSUME NEW r \in Requests,
               Arrive(r) \/ AnswerEarly(r) \/ BurnAttempt(r) \/ NextTarget(r) \/ GiveUp(r)
        PROVE  InflightCounts'
    <3>1. /\ UNCHANGED inflight /\ pc[r] \in {"idle", "pick"}
          /\ pc'[r] \in {"pick", "done"} /\ answer'[r] # "blocked"
      BY <2>0, <2>5
         DEF Arrive, AnswerEarly, BurnAttempt, NextTarget, GiveUp, Goto, Finish,
                        provVars, LocalTypeOK, Unanswered
    <3>2. QED
      BY <2>4, <2>5, <3>1 DEF Act, Handler
  <2>6. ASSUME NEW r \in Requests, NoteFailure(r) \/ TripBreaker(r)
        PROVE  InflightCounts'
    <3>1. /\ UNCHANGED inflight /\ pc[r] \in {"noteFail", "trip"}
          /\ pc'[r] \in {"pick", "trip"} /\ answer'[r] # "blocked"
      BY <2>0, <2>6 DEF NoteFailure, TripBreaker, Goto, LocalTypeOK, Unanswered
    <3>2. QED
      BY <2>4, <2>6, <3>1 DEF Act, Handler
  <2>7. ASSUME NEW r \in Requests, NetError(r) \/ SoftStatus(r) \/ HardStatus(r)
        PROVE  InflightCounts'
    <3>1. /\ pc[r] = "exec" /\ pc'[r] = "noteFail" /\ answer'[r] # "blocked"
          /\ EndRequest(Cur(r)) /\ UNCHANGED <<job, pos>>
      BY <2>0, <2>7 DEF NetError, SoftStatus, HardStatus, Goto, LocalTypeOK, Unanswered
    <3>2. QED
      BY <2>2, <2>7, <3>1 DEF Act, Upstream
  <2>8. ASSUME NEW r \in Requests, FatalStatus(r) PROVE InflightCounts'
    <3>1. /\ pc[r] = "exec" /\ pc'[r] = "done" /\ answer'[r] # "blocked"
          /\ EndRequest(Cur(r)) /\ UNCHANGED <<job, pos>>
      BY <2>0, <2>8 DEF FatalStatus, Goto, Finish, LocalTypeOK
    <3>2. QED
      BY <2>2, <2>8, <3>1 DEF Act, Upstream
  <2>9. ASSUME NEW r \in Requests, OkStatus(r) PROVE InflightCounts'
    <3>1. /\ pc[r] = "exec" /\ answer'[r] # "blocked" /\ UNCHANGED <<job, pos, answer>>
      BY <2>9 DEF OkStatus, Unanswered
    <3>2. CASE job[r].ep = "messages"
      <4>1. UNCHANGED inflight /\ pc'[r] = "noteOk"
        BY <2>0, <2>9, <3>2 DEF OkStatus, Goto, LocalTypeOK
      <4>2. \A o : Holds(r, o)' <=> Holds(r, o)
        BY <3>1, <3>2, <4>1 DEF Holds, Cur
      <4>3. QED
        BY <2>3, <2>9, <4>1, <4>2 DEF Act, Upstream
    <3>3. CASE job[r].ep # "messages"
      <4>1. EndRequest(Cur(r)) /\ pc'[r] = "body"
        BY <2>0, <2>9, <3>3 DEF OkStatus, Goto, LocalTypeOK
      <4>2. QED
        BY <2>2, <2>9, <3>1, <3>3, <4>1 DEF Act, Upstream
    <3>4. QED
      BY <3>2, <3>3
  <2>10. ASSUME NEW r \in Requests, BodyDelivered(r) \/ BodyFails(r)
         PROVE  InflightCounts'
    <3>1. /\ pc[r] = "body" /\ UNCHANGED <<job, pos>>
          /\ IF job[r].ep = "messages" THEN EndRequest(Cur(r)) ELSE UNCHANGED inflight
      BY <2>10 DEF BodyDelivered, BodyFails
    <3>2. pc'[r] \in {"pick", "done"}
      BY <2>0, <2>10 DEF BodyDelivered, BodyFails, Goto, Finish, LocalTypeOK
    <3>3. answer'[r] # "blocked"
      BY <2>0, <2>10, <3>1 DEF BodyDelivered, BodyFails, Finish, LocalTypeOK, Unanswered
    <3>4. CASE job[r].ep = "messages"
      BY <2>2, <2>10, <3>1, <3>2, <3>3, <3>4 DEF Act, Upstream
    <3>5. CASE job[r].ep # "messages"
      <4>1. (\A o : ~Holds(r, o)) /\ (\A o : ~Holds(r, o)')
        BY <3>1, <3>2, <3>3, <3>5 DEF Holds, Unanswered
      <4>2. QED
        BY <2>3, <2>10, <3>1, <3>5, <4>1 DEF Act, Upstream
    <3>6. QED
      BY <3>4, <3>5
  <2>11. ASSUME NEW r \in Requests, NoteSuccess(r) \/ BodyBlocked(r) \/ Disconnect(r)
         PROVE  InflightCounts'
    <3>1. CASE NoteSuccess(r)
      <4>1. /\ UNCHANGED <<inflight, job, pos, answer>> /\ pc[r] = "noteOk"
            /\ pc'[r] = "body"
        BY <2>0, <3>1 DEF NoteSuccess, Goto, LocalTypeOK
      <4>2. \A o : Holds(r, o)' <=> Holds(r, o)
        BY <4>1 DEF Holds, Cur
      <4>3. QED
        BY <2>3, <3>1, <4>1, <4>2 DEF Act, Handler
    <3>2. CASE BodyBlocked(r)
      <4>1. /\ UNCHANGED <<inflight, job, pos>> /\ pc[r] = "body" /\ job[r].ep = "messages"
            /\ pc'[r] = "done" /\ answer'[r] = "blocked"
        BY <2>0, <3>2 DEF BodyBlocked, Goto, Finish, LocalTypeOK, provVars
      <4>2. \A o : Holds(r, o)' <=> Holds(r, o)
        BY <4>1 DEF Holds, Cur
      <4>3. QED
        BY <2>3, <3>2, <4>1, <4>2 DEF Act, Upstream
    <3>3. CASE Disconnect(r)
      BY <2>3, <3>3 DEF Disconnect, provVars, Holds, Cur, Act
    <3>4. QED
      BY <2>11, <3>1, <3>2, <3>3
  <2>12. CASE Tick \/ UNCHANGED vars
    BY <2>12, KeepPlaces DEF Tick, vars, provVars, reqVars, Holds, Cur
  <2>13. QED
    BY <2>1, <2>5, <2>6, <2>7, <2>8, <2>9, <2>10, <2>11, <2>12
       DEF Next, Handler, Upstream, Quiet
<1>3. QED
  BY <1>1, <1>2, UnansweredStep, AlwaysInv, PTL DEF Spec

-----------------------------------------------------------------------------
(***************************************************************************)
(* The breaker.  What it has counted, and what it may still count of the   *)
(* calls under way, are calls that were made.                              *)
(***************************************************************************)
MayFail(p) == {r \in Requests : pc[r] \in {"exec", "noteFail"} /\ Cur(r) = p}

BreakerInv ==
  \A p \in Providers :
    /\ IsFiniteSet(CallsTo(p))
    /\ consecFails[p] + Cardinality(MayFail(p)) <= Cardinality(CallsTo(p))
    /\ openUntil[p] > 0 => Cardinality(CallsTo(p)) >= Threshold
    /\ \A r \in Requests :
         pc[r] = "trip" /\ Cur(r) = p => Cardinality(CallsTo(p)) >= Threshold

Made(r, i, p) == i \in DOMAIN log[r] /\ job[r].chain[log[r][i][1]] = p

\* The members of CallsTo, before a step and after it.
LEMMA CallsToMembers ==
  ASSUME NEW p
  PROVE  /\ \A c : c \in CallsTo(p) <=> \E r \in Requests : \E i : c = <<r, i>> /\ Made(r, i, p)
         /\ \A c : c \in CallsTo(p)' <=> \E r \in Requests : \E i : c = <<r, i>> /\ Made(r, i, p)'
<1>1. \A c : c \in CallsTo(p) <=> \E r \in Requests :
        c \in {r} \X {i \in DOMAIN log[r] : job[r].chain[log[r][i][1]] = p}
  BY DEF CallsTo
<1>2. \A c : c \in CallsTo(p)' <=> \E r \in Requests :
        c \in {r} \X {i \in DOMAIN log'[r] : job'[r].chain[log'[r][i][1]] = p}
  BY DEF CallsTo
<1>3. QED
  BY <1>1, <1>2 DEF Made

\* No call is made, and nobody who has made one gets another job.
LEMMA SameCalls ==
  ASSUME log' = log, \A q \in Requests : log[q] = <<>> \/ job'[q] = job[q], NEW p
  PROVE  CallsTo(p)' = CallsTo(p)
<1>1. \A q \in Requests : \A i : Made(q, i, p)' <=> Made(q, i, p)
  <2> SUFFICES ASSUME NEW q \in Requests, NEW i PROVE Made(q, i, p)' <=> Made(q, i, p)
    OBVIOUS
  <2>1. CASE log[q] = <<>>
    BY <2>1 DEF Made
  <2>2. CASE job'[q] = job[q]
    BY <2>2 DEF Made
  <2>3. QED
    BY <2>1, <2>2
<1>2. QED
  BY <1>1, CallsToMembers

\* A call more, to the provider called.
LEMMA OneMoreCall ==
  ASSUME Inv, NEW r \in Requests, NEW k \in Nat, Sends(r, k),
         \A q \in Requests : q # r => Keeps(q),
         NEW p
  PROVE  LET call == <<r, Len(log[r]) + 1>> IN
         /\ p = Cur(r) => CallsTo(p)' = CallsTo(p) \cup {call} /\ call \notin CallsTo(p)
         /\ p # Cur(r) => CallsTo(p)' = CallsTo(p)
<1>0. PICK n : n = Len(log[r]) + 1
  OBVIOUS
<1> DEFINE call == <<r, n>>
<1>1. /\ DOMAIN log[r] = 1 .. Len(log[r]) /\ Len(log[r]) \in Nat
      /\ n = Len(log[r]) + 1 /\ DOMAIN log'[r] = 1 .. n
      /\ \A i \in DOMAIN log[r] : log'[r][i] = log[r][i]
      /\ log'[r][n] = <<pos[r], k>>
  BY <1>0, SendsLog DEF Inv, TypeOK
<1>2. \A q \in Requests : \A i : q # r => (Made(q, i, p)' <=> Made(q, i, p))
  BY DEF Keeps, Made
<1>3. \A i : i # n => (Made(r, i, p)' <=> Made(r, i, p))
  <2>1. \A i : i # n => (i \in DOMAIN log'[r] <=> i \in DOMAIN log[r])
    BY <1>1
  <2>2. job'[r] = job[r]
    BY DEF Sends
  <2>3. QED
    BY <1>1, <2>1, <2>2 DEF Made
<1>4. ~Made(r, n, p) /\ (Made(r, n, p)' <=> p = Cur(r))
  <2>1. n \notin DOMAIN log[r] /\ n \in DOMAIN log'[r]
    BY <1>1
  <2>2. job'[r] = job[r] /\ log'[r][n][1] = pos[r]
    BY <1>1 DEF Sends
  <2>3. ~Made(r, n, p)
    BY <2>1 DEF Made
  <2>4. job'[r].chain[log'[r][n][1]] = Cur(r)
    BY <2>2 DEF Cur
  <2>5. QED
    BY <2>1, <2>3, <2>4 DEF Made
<1>5. \A q, i : <<q, i>> = call <=> q = r /\ i = n
  OBVIOUS
<1>6. ASSUME NEW q \in Requests, NEW i
      PROVE  Made(q, i, p)' <=> Made(q, i, p) \/ (<<q, i>> = call /\ p = Cur(r))
  <2>1. CASE q # r
    BY <1>2, <1>5, <2>1
  <2>2. CASE q = r /\ i # n
    BY <1>3, <1>5, <2>2
  <2>3. CASE q = r /\ i = n
    BY <1>4, <1>5, <2>3
  <2>4. QED
    BY <2>1, <2>2, <2>3
<1>7. call \notin CallsTo(p)
  BY <1>4, <1>5, CallsToMembers
<1> HIDE DEF call
<1>8. \A c : c \in CallsTo(p)' <=> c \in CallsTo(p) \/ (c = call /\ p = Cur(r))
  <2>1. call = <<r, n>>
    BY DEF call
  <2>2. QED
    BY <1>6, <2>1, CallsToMembers
<1>9. QED
  BY <1>0, <1>7, <1>8 DEF call

\* What concerns the breaker of one provider.
LEMMA BreakerQuiet ==
  ASSUME BreakerInv, Inv,
         \A p : CallsTo(p)' = CallsTo(p),
         UNCHANGED <<consecFails, openUntil>>,
         \A q \in Requests : pc'[q] \in {"exec", "noteFail"} =>
           pc[q] \in {"exec", "noteFail"} /\ Cur(q)' = Cur(q),
         \A q \in Requests : pc'[q] = "trip" => pc[q] = "trip" /\ Cur(q)' = Cur(q)
  PROVE  BreakerInv'
<1> SUFFICES ASSUME NEW p \in Providers
             PROVE  /\ IsFiniteSet(CallsTo(p))
                    /\ consecFails[p] + Cardinality(MayFail(p)') <= Cardinality(CallsTo(p))
                    /\ openUntil[p] > 0 => Cardinality(CallsTo(p)) >= Threshold
                    /\ \A r \in Requests :
                         pc'[r] = "trip" /\ Cur(r)' = p
                           => Cardinality(CallsTo(p)) >= Threshold
  BY DEF BreakerInv
<1>1. MayFail(p)' \subseteq MayFail(p) /\ IsFiniteSet(MayFail(p))
  BY FS_Subset, DispatchAssumption DEF MayFail
<1>2. /\ Cardinality(MayFail(p)') <= Cardinality(MayFail(p))
      /\ Cardinality(MayFail(p)') \in Nat /\ Cardinality(MayFail(p)) \in Nat
  BY <1>1, FS_Subset, FS_CardinalityType
<1>3. Cardinality(CallsTo(p)) \in Nat /\ consecFails[p] \in Nat
  BY FS_CardinalityType DEF BreakerInv, Inv, TypeOK, LocalTypeOK
<1>4. QED
  BY <1>2, <1>3 DEF BreakerInv

LEMMA BreakerStep == Inv /\ BreakerInv /\ [Next]_vars => BreakerInv'
<1> SUFFICES ASSUME Inv, BreakerInv, [Next]_vars PROVE BreakerInv'
  OBVIOUS
<1>0. LocalTypeOK /\ HandlerInv /\ TypeOK
  BY DEF Inv, TypeOK
<1>1. ASSUME NEW r \in Requests, Act(r), UNCHANGED <<consecFails, openUntil, log>>,
             \A q \in Requests : log[q] = <<>> \/ job'[q] = job[q],
             pc'[r] \in {"exec", "noteFail"} => pc[r] \in {"exec", "noteFail"},
             pc'[r] = "trip" => pc[r] = "trip",
             pc'[r] \in {"exec", "noteFail", "trip"} => UNCHANGED <<job, pos>>
      PROVE  BreakerInv'
  <2>1. \A p : CallsTo(p)' = CallsTo(p)
    BY <1>1, SameCalls
  <2>2. ASSUME NEW q \in Requests, q # r
        PROVE  pc'[q] = pc[q] /\ Cur(q)' = Cur(q)
    BY <1>1, <2>2, OthersStay DEF Cur
  <2>3. pc'[r] \in {"exec", "noteFail", "trip"} => Cur(r)' = Cur(r)
    BY <1>1 DEF Cur
  <2>4. QED
    BY <1>1, <2>1, <2>2, <2>3, BreakerQuiet
<1>2. ASSUME NEW r \in Requests, Arrive(r) PROVE BreakerInv'
  <2>1. /\ UNCHANGED <<consecFails, openUntil, log>> /\ pc[r] = "idle"
        /\ pc'[r] = "pick" /\ \E v : job' = [job EXCEPT ![r] = v]
    BY <1>0, <1>2 DEF Arrive, Goto, LocalTypeOK, provVars
  <2>2. log[r] = <<>>
    BY <1>0, <2>1 DEF HandlerInv, Fresh
  <2>3. \A q \in Requests : log[q] = <<>> \/ job'[q] = job[q]
    BY <1>0, <2>1, <2>2 DEF LocalTypeOK
  <2>4. QED
    BY <1>1, <1>2, <2>1, <2>3 DEF Act
<1>3. ASSUME NEW r \in Requests, SendAttempt(r) PROVE BreakerInv'
  <2>1. /\ UNCHANGED <<consecFails, openUntil, job, pos>> /\ pc[r] = "pick"
        /\ pc'[r] = "exec" /\ pos[r] <= Len(job[r].chain)
    BY <1>0, <1>3 DEF SendAttempt, Goto, LocalTypeOK, CanTry, AtTarget
  <2>2. \A q \in Requests : q # r => pc'[q] = pc[q] /\ Cur(q)' = Cur(q) /\ Keeps(q)
    BY <1>0, <1>3 DEF SendAttempt, Goto, LocalTypeOK, Cur, Keeps
  <2>3. PICK k \in Nat : Sends(r, k)
    <3>1. ~Keeps(r) /\ ~Starts(r) /\ ~Burns(r) /\ ~Moves(r)
      <4>1. log'[r] # log[r]
        <5>1. PICK c \in Nat \X Nat : log'[r] = Append(log[r], c)
          <6>1. PICK c \in Key(Cur(r)) :
                     log' = [log EXCEPT ![r] = Append(@, <<pos[r], c>>)]
            BY <1>3 DEF SendAttempt
          <6>2. c \in Nat /\ pos[r] \in Nat
            BY <1>0, <2>1, CurType, DispatchAssumption DEF LocalTypeOK, Key
          <6>3. log'[r] = Append(log[r], <<pos[r], c>>)
            BY <1>0, <6>1 DEF LocalTypeOK
          <6>4. QED
            BY <6>2, <6>3
        <5>2. log[r] \in Seq(Nat \X Nat)
          BY <1>0 DEF LocalTypeOK
        <5>3. Len(log'[r]) = Len(log[r]) + 1 /\ Len(log[r]) \in Nat
          BY <5>1, <5>2
        <5>4. QED
          BY <5>3
      <4>2. QED
        BY <4>1 DEF Keeps, Starts, Burns, Moves
    <3>2. QED
      BY <3>1, LoopStep DEF LoopCases
  <2> SUFFICES ASSUME NEW p \in Providers
               PROVE  /\ IsFiniteSet(CallsTo(p)')
                      /\ consecFails[p] + Cardinality(MayFail(p)') <= Cardinality(CallsTo(p)')
                      /\ openUntil[p] > 0 => Cardinality(CallsTo(p)') >= Threshold
                      /\ \A q \in Requests :
                           pc'[q] = "trip" /\ Cur(q)' = p
                             => Cardinality(CallsTo(p)') >= Threshold
    BY <2>1 DEF BreakerInv
  <2>4. /\ IsFiniteSet(MayFail(p)) /\ IsFiniteSet(CallsTo(p))
        /\ Cardinality(MayFail(p)) \in Nat /\ Cardinality(CallsTo(p)) \in Nat
        /\ consecFails[p] \in Nat /\ openUntil[p] \in Nat /\ Threshold \in Nat
    BY <1>0, FS_Subset, FS_CardinalityType, DispatchAssumption
       DEF MayFail, BreakerInv, LocalTypeOK
  <2>5. CASE p = Cur(r)
    <3>1. MayFail(p)' = MayFail(p) \cup {r} /\ r \notin MayFail(p)
      BY <2>1, <2>2, <2>5 DEF MayFail, Cur
    <3>2. Cardinality(MayFail(p)') = Cardinality(MayFail(p)) + 1
      BY <2>4, <3>1, FS_AddElement
    <3>3. PICK c : CallsTo(p)' = CallsTo(p) \cup {c} /\ c \notin CallsTo(p)
      BY <2>2, <2>3, <2>5, OneMoreCall
    <3>4. /\ IsFiniteSet(CallsTo(p)')
          /\ Cardinality(CallsTo(p)') = Cardinality(CallsTo(p)) + 1
      BY <2>4, <3>3, FS_AddElement
    <3>5. \A q \in Requests : pc'[q] = "trip" => pc[q] = "trip" /\ Cur(q)' = Cur(q)
      BY <2>1, <2>2
    <3>6. QED
      BY <2>4, <3>2, <3>4, <3>5 DEF BreakerInv
  <2>6. CASE p # Cur(r)
    <3>1. MayFail(p)' = MayFail(p)
      BY <2>1, <2>2, <2>6 DEF MayFail, Cur
    <3>2. CallsTo(p)' = CallsTo(p)
      BY <2>2, <2>3, <2>6, OneMoreCall
    <3>3. \A q \in Requests : pc'[q] = "trip" => pc[q] = "trip" /\ Cur(q)' = Cur(q)
      BY <2>1, <2>2
    <3>4. QED
      BY <3>1, <3>2, <3>3 DEF BreakerInv
  <2>7. QED
    BY <2>5, <2>6
<1>4. ASSUME NEW r \in Requests, NoteFailure(r) PROVE BreakerInv'
  <2> DEFINE o == Cur(r)
             n == consecFails[o] + 1
  <2>1. /\ UNCHANGED <<openUntil, job, pos, log>> /\ pc[r] = "noteFail"
        /\ consecFails' = [consecFails EXCEPT ![o] = n]
        /\ pc'[r] = IF n >= Threshold THEN "trip" ELSE "pick"
    BY <1>0, <1>4 DEF NoteFailure, Goto, LocalTypeOK
  <2>2. o \in Providers
    BY <1>0, <2>1 DEF HandlerInv, OnCall, Calling
  <2>3. \A q \in Requests : Cur(q)' = Cur(q) /\ (q # r => pc'[q] = pc[q])
    BY <1>0, <1>4, <2>1 DEF NoteFailure, Goto, LocalTypeOK, Cur
  <2>4. \A p : CallsTo(p)' = CallsTo(p)
    BY <2>1, SameCalls
  <2> HIDE DEF o, n
  <2> SUFFICES ASSUME NEW p \in Providers
               PROVE  /\ consecFails'[p] + Cardinality(MayFail(p)') <= Cardinality(CallsTo(p))
                      /\ \A q \in Requests :
                           pc'[q] = "trip" /\ Cur(q) = p
                             => Cardinality(CallsTo(p)) >= Threshold
    BY <2>1, <2>3, <2>4 DEF BreakerInv
  <2>5. /\ IsFiniteSet(MayFail(p)) /\ IsFiniteSet(CallsTo(p))
        /\ Cardinality(MayFail(p)) \in Nat /\ Cardinality(CallsTo(p)) \in Nat
        /\ consecFails[p] \in Nat /\ Threshold \in Nat
        /\ consecFails[p] + Cardinality(MayFail(p)) <= Cardinality(CallsTo(p))
    BY <1>0, FS_Subset, FS_CardinalityType, DispatchAssumption
       DEF MayFail, BreakerInv, LocalTypeOK
  <2>6. CASE p = o
    <3>1. MayFail(p)' = MayFail(p) \ {r} /\ r \in MayFail(p)
      BY <2>1, <2>3, <2>6 DEF MayFail, o
    <3>2. Cardinality(MayFail(p)') = Cardinality(MayFail(p)) - 1
      BY <2>5, <3>1, FS_RemoveElement
    <3>3. consecFails'[p] = consecFails[p] + 1
      BY <1>0, <2>1, <2>2, <2>6 DEF LocalTypeOK, n
    <3>4. Cardinality(MayFail(p)) >= 1
      BY <2>5, <3>1, FS_EmptySet
    <3>5. n = consecFails[p] + 1 /\ n <= Cardinality(CallsTo(p))
      BY <2>5, <2>6, <3>4 DEF n
    <3>6. ASSUME NEW q \in Requests, pc'[q] = "trip", Cur(q) = p
          PROVE  Cardinality(CallsTo(p)) >= Threshold
      <4>1. CASE q = r
        BY <2>1, <2>5, <3>5, <3>6, <4>1
      <4>2. CASE q # r
        BY <2>3, <3>6, <4>2 DEF BreakerInv
      <4>3. QED
        BY <4>1, <4>2
    <3>7. QED
      BY <2>5, <3>2, <3>3, <3>6
  <2>7. CASE p # o
    <3>1. MayFail(p)' = MayFail(p)
      BY <2>1, <2>3, <2>7 DEF MayFail, o
    <3>2. consecFails'[p] = consecFails[p]
      BY <1>0, <2>1, <2>7 DEF LocalTypeOK
    <3>3. \A q \in Requests : pc'[q] = "trip" /\ Cur(q) = p => pc[q] = "trip"
      BY <2>3, <2>7 DEF o
    <3>4. QED
      BY <2>5, <3>1, <3>2, <3>3 DEF BreakerInv
  <2>8. QED
    BY <2>6, <2>7
<1>5. ASSUME NEW r \in Requests, TripBreaker(r) PROVE BreakerInv'
  <2>1. /\ UNCHANGED <<consecFails, job, pos, log>> /\ pc[r] = "trip" /\ pc'[r] = "pick"
        /\ openUntil' = [openUntil EXCEPT ![Cur(r)] = now + OpenFor]
    BY <1>0, <1>5 DEF TripBreaker, Goto, LocalTypeOK
  <2>2. \A q \in Requests : Cur(q)' = Cur(q) /\ (q # r => pc'[q] = pc[q])
    BY <1>0, <1>5, <2>1 DEF TripBreaker, Goto, LocalTypeOK, Cur
  <2>3. \A p : CallsTo(p)' = CallsTo(p)
    BY <2>1, SameCalls
  <2>4. \A p : MayFail(p)' = MayFail(p)
    BY <2>1, <2>2 DEF MayFail
  <2>5. \A p \in Providers : openUntil'[p] # openUntil[p] => p = Cur(r)
    BY <1>0, <2>1 DEF LocalTypeOK
  <2>6. \A q \in Requests : pc'[q] = "trip" => pc[q] = "trip"
    BY <2>1, <2>2
  <2>7. QED
    BY <2>1, <2>2, <2>3, <2>4, <2>5, <2>6 DEF BreakerInv
<1>6. ASSUME NEW r \in Requests, NoteSuccess(r) PROVE BreakerInv'
  <2>1. /\ UNCHANGED <<openUntil, job, pos, log>> /\ pc[r] = "noteOk" /\ pc'[r] = "body"
        /\ consecFails' = [consecFails EXCEPT ![Cur(r)] = 0]
    BY <1>0, <1>6 DEF NoteSuccess, Goto, LocalTypeOK
  <2>2. \A q \in Requests : Cur(q)' = Cur(q) /\ (q # r => pc'[q] = pc[q])
    BY <1>0, <1>6, <2>1 DEF NoteSuccess, Goto, LocalTypeOK, Cur
  <2>3. \A p : CallsTo(p)' = CallsTo(p)
    BY <2>1, SameCalls
  <2>4. \A p : MayFail(p)' = MayFail(p)
    BY <2>1, <2>2 DEF MayFail
  <2>5. \A p \in Providers : consecFails'[p] \in {0, consecFails[p]}
    BY <1>0, <2>1 DEF LocalTypeOK
  <2>6. \A q \in Requests : pc'[q] = "trip" => pc[q] = "trip"
    BY <2>1, <2>2
  <2>7. \A p \in Providers :
          /\ Cardinality(MayFail(p)) \in Nat /\ Cardinality(CallsTo(p)) \in Nat
          /\ consecFails[p] \in Nat
    BY <1>0, FS_Subset, FS_CardinalityType, DispatchAssumption
       DEF MayFail, BreakerInv, LocalTypeOK
  <2>8. \A p \in Providers :
          consecFails'[p] + Cardinality(MayFail(p)) <= Cardinality(CallsTo(p))
    BY <2>5, <2>7 DEF BreakerInv
  <2>9. QED
    BY <2>1, <2>2, <2>3, <2>4, <2>6, <2>8 DEF BreakerInv
<1>7. ASSUME NEW r \in Requests,
             \/ AnswerEarly(r) \/ BurnAttempt(r) \/ NextTarget(r) \/ GiveUp(r)
             \/ BodyDelivered(r) \/ BodyFails(r) \/ BodyBlocked(r)
      PROVE  BreakerInv'
  <2>1. UNCHANGED <<consecFails, openUntil, log, job>>
    BY <1>7 DEF AnswerEarly, BurnAttempt, NextTarget, GiveUp, BodyDelivered, BodyFails,
                BodyBlocked, provVars
  <2>2. pc'[r] \in {"pick", "done"}
    BY <1>0, <1>7 DEF AnswerEarly, BurnAttempt, NextTarget, GiveUp, BodyDelivered,
                      BodyFails, BodyBlocked, Goto, Finish, LocalTypeOK
  <2>3. QED
    BY <1>1, <1>7, <2>1, <2>2 DEF Act, Handler, Upstream
<1>8. ASSUME NEW r \in Requests,
             NetError(r) \/ SoftStatus(r) \/ HardStatus(r) \/ FatalStatus(r) \/ OkStatus(r)
      PROVE  BreakerInv'
  <2>1. UNCHANGED <<consecFails, openUntil, log, job, pos>> /\ pc[r] = "exec"
    BY <1>8 DEF NetError, SoftStatus, HardStatus, FatalStatus, OkStatus
  <2>2. pc'[r] # "trip"
    BY <1>0, <1>8 DEF NetError, SoftStatus, HardStatus, FatalStatus, OkStatus,
                      Goto, Finish, LocalTypeOK
  <2>3. QED
    BY <1>1, <1>8, <2>1, <2>2 DEF Act, Upstream
<1>9. ASSUME NEW r \in Requests, Disconnect(r) PROVE BreakerInv'
  BY <1>1, <1>9 DEF Disconnect, provVars, Act
<1>10. CASE Tick \/ UNCHANGED vars
  <2>1. UNCHANGED <<consecFails, openUntil, log, job, pos, pc>>
    BY <1>10 DEF Tick, vars, provVars, reqVars
  <2>2. \A p : CallsTo(p)' = CallsTo(p)
    BY <2>1, SameCalls
  <2>3. QED
    BY <2>1, <2>2, BreakerQuiet DEF Cur
<1>11. QED
  BY <1>2, <1>3, <1>4, <1>5, <1>6, <1>7, <1>8, <1>9, <1>10
     DEF Next, Handler, Upstream, Quiet

(***************************************************************************)
(* The breaker of a provider opens only after Threshold calls to it, by    *)
(* however many requests and however their NoteUpstreams interleave: every *)
(* failure that the counter has, and every one it may still get from a     *)
(* call under way, has a call of its own in the requests' logs.            *)
(***************************************************************************)
THEOREM OpensAfterCalls == Spec => []BreakerNeedsCalls
<1>1. Init => BreakerInv
  <2> SUFFICES ASSUME Init, NEW p \in Providers
               PROVE  /\ CallsTo(p) = {} /\ MayFail(p) = {}
                      /\ consecFails[p] = 0 /\ openUntil[p] = 0
                      /\ \A r \in Requests : pc[r] # "trip"
    BY FS_EmptySet DEF BreakerInv
  <2>1. \A r \in Requests : \A i : ~Made(r, i, p)
    BY DEF Init, Made
  <2>2. CallsTo(p) = {}
    BY <2>1, CallsToMembers
  <2>3. QED
    BY <2>2 DEF Init, MayFail
<1>2. BreakerInv => BreakerNeedsCalls
  BY DEF BreakerInv, BreakerNeedsCalls
<1>3. QED
  BY <1>1, <1>2, BreakerStep, AlwaysInv, PTL DEF Spec

=============================================================================
