------------------------------- MODULE Dispatch -------------------------------
(***************************************************************************)
(* The retry and fallback loop of the gateway: concurrent requests of      *)
(* handleMessages and handleChatCompletions resolve a chain of providers   *)
(* and try the keys of each in turn, sharing the providers' key pools,     *)
(* circuit breakers and in-flight counters.                                *)
(*                                                                         *)
(* A request handler is a goroutine; one action below is what it does      *)
(* between two points where another handler can change what it reads.     *)
(* Local work (building the payload, logging, headers) belongs to the      *)
(* action around it.                                                       *)
(***************************************************************************)
EXTENDS PoolOps, Sequences, FiniteSets, Functions

CONSTANTS
  Requests,     \* client requests; each is handled once
  Leavers,      \* the requests whose client may disconnect
  Providers,    \* provider names
  NumKeys,      \* keys of each provider; 0 also stands for an unknown provider
  FillFirst,    \* the providers with key_strategy fill_first
  Chains,       \* target lists the routing rules can produce
  LeastBusy,    \* TRUE: the matching rule has balance_strategy least_busy
  Endpoints,    \* which of "messages", "chat", "chatStream" clients call
  MaxAttempts,  \* retry.max_attempts
  Overrides,    \* x-ccg-max-attempts values that clients of /v1/messages send
  Hints,        \* Retry-After values, after parseRetryAfter's cap
  Caching,      \* TRUE: the response cache is on
  RespPatterns, \* TRUE: guardrails.response.blocked_patterns is not empty
  Threshold,    \* breakerThreshold (5 in the code)
  OpenFor,      \* breakerOpenFor (2 minutes: 12 units of 10 s)
  MaxNow        \* bound on the clock

ASSUME DispatchAssumption ==
  /\ IsFiniteSet(Requests)
  /\ Leavers \subseteq Requests
  /\ NumKeys \in [Providers -> Nat]
  /\ FillFirst \subseteq Providers
  /\ Chains \subseteq Seq(Providers)
  /\ LeastBusy \in BOOLEAN
  /\ Endpoints \subseteq {"messages", "chat", "chatStream"}
  /\ MaxAttempts \in Nat \ {0}
  /\ Overrides \subseteq 1 .. 10
  /\ Hints \subseteq 0 .. HardCool
  /\ Caching \in BOOLEAN
  /\ RespPatterns \in BOOLEAN
  /\ Threshold \in Nat \ {0}
  /\ OpenFor \in Nat
  /\ MaxNow \in Nat

VARIABLES
  now,          \* the clock
  pool,         \* Provider.pool of each provider
  consecFails,  \* Provider.consecFails
  openUntil,    \* Provider.openUntilUnix
  inflight,     \* Provider.inflight
  job,          \* what a request asks for and what Resolve made of it
  pc,           \* where its handler stands
  pos,          \* tgIdx: position in the chain
  left,         \* attemptsLeft
  tried,        \* triedKeys of the current target
  key,          \* key of the attempt under way
  gone,         \* the client has disconnected: r.Context() is cancelled
  answer,       \* how the request was answered
  log           \* history: the upstream calls made, as <<position, key>>

provVars == <<pool, consecFails, openUntil, inflight>>
reqVars  == <<job, pc, pos, left, tried, key, gone, answer, log>>
vars     == <<now, provVars, reqVars>>

Key(p) == 0 .. NumKeys[p] - 1
Attempts == {MaxAttempts} \cup Overrides
Job == [ep : {"messages", "chat", "chatStream"}, chain : Seq(Providers),
        skip : SUBSET Providers, budget : Nat]

\* "exec": the upstream call is under way.  "body": its 2xx header is in, the
\* body is not.  "noteOk", "noteFail", "trip": inside NoteUpstream.
Places  == {"idle", "pick", "exec", "noteFail", "trip", "noteOk", "body", "done"}
Answers == {"none", "ok", "fatal", "blocked", "broken", "exhausted",
            "cached", "unbuildable"}

PoolTypeOK ==
  DOMAIN pool = Providers /\ \A p \in Providers : pool[p] \in PoolOf(NumKeys[p])

LocalTypeOK ==
  /\ now \in Nat \ {0}
  /\ consecFails \in [Providers -> Nat]
  /\ openUntil \in [Providers -> Nat]
  /\ inflight \in [Providers -> Int]
  /\ job \in [Requests -> Job]
  /\ pc \in [Requests -> Places]
  /\ pos \in [Requests -> Nat \ {0}]
  /\ left \in [Requests -> Nat]
  /\ tried \in [Requests -> SUBSET Nat]
  /\ key \in [Requests -> Nat]
  /\ gone \in [Requests -> BOOLEAN]
  /\ answer \in [Requests -> Answers]
  /\ log \in [Requests -> Seq(Nat \X Nat)]

TypeOK == PoolTypeOK /\ LocalTypeOK

Init ==
  /\ now = 1
  /\ pool = [p \in Providers |-> NewPool(NumKeys[p], p \in FillFirst)]
  /\ consecFails = [p \in Providers |-> 0]
  /\ openUntil = [p \in Providers |-> 0]
  /\ inflight = [p \in Providers |-> 0]
  /\ job = [r \in Requests |->
              [ep |-> "messages", chain |-> <<>>, skip |-> {}, budget |-> 0]]
  /\ pc = [r \in Requests |-> "idle"]
  /\ pos = [r \in Requests |-> 1]
  /\ left = [r \in Requests |-> 0]
  /\ tried = [r \in Requests |-> {}]
  /\ key = [r \in Requests |-> 0]
  /\ gone = [r \in Requests |-> FALSE]
  /\ answer = [r \in Requests |-> "none"]
  /\ log = [r \in Requests |-> <<>>]

-----------------------------------------------------------------------------
(* Reading the request's state. *)

Cur(r) == job[r].chain[pos[r]]
AtTarget(r) == pos[r] <= Len(job[r].chain) /\ Cur(r) \notin job[r].skip

\* Two wrong loop conditions to be caught: the attempt budget is forgotten; the
\* last key is left out.
CanTryUnbudgeted(r) == AtTarget(r) /\ Cardinality(tried[r]) < NumKeys[Cur(r)]
CanTryOneLess(r) == /\ AtTarget(r)
                    /\ left[r] > 0
                    /\ Cardinality(tried[r]) + 1 < NumKeys[Cur(r)]

\* The condition of the attempt loop.
CanTry(r) == /\ AtTarget(r)
             /\ left[r] > 0
             /\ Cardinality(tried[r]) < NumKeys[Cur(r)]

Goto(r, place) == pc' = [pc EXCEPT ![r] = place]
Finish(r, how) == Goto(r, "done") /\ answer' = [answer EXCEPT ![r] = how]

BeginRequest(p) == inflight' = [inflight EXCEPT ![p] = @ + 1]
EndRequest(p)   == inflight' = [inflight EXCEPT ![p] = @ - 1]

-----------------------------------------------------------------------------
(* Routing. *)

IsOpen(p) == now < openUntil[p]

\* Providers whose breaker is open are left out, unless that leaves nobody.
Skipped(chain) ==
  LET open == {p \in Range(chain) : IsOpen(p)}
  IN  IF open = Range(chain) THEN {} ELSE open

\* Chains holds every order of a least_busy rule's targets (the weights that
\* break ties are not modelled).
SortedByLoad(chain) ==
  \A i, j \in DOMAIN chain : i < j => inflight[chain[i]] <= inflight[chain[j]]

\* Admission done, the handler resolves the model.
Arrive(r) ==
  /\ pc[r] = "idle"
  /\ \E e \in Endpoints, chain \in Chains :
       \E b \in (IF e = "messages" THEN Attempts ELSE {MaxAttempts}) :
         /\ LeastBusy => SortedByLoad(chain)
         /\ job' = [job EXCEPT ![r] = [ep |-> e, chain |-> chain,
                                       skip |-> Skipped(chain), budget |-> b]]
         /\ left' = [left EXCEPT ![r] = b]
  /\ Goto(r, "pick")
  /\ UNCHANGED <<now, provVars, pos, tried, key, gone, answer, log>>

-----------------------------------------------------------------------------
(* Before the attempt loop of a target. *)

\* /v1/messages answers from the cache, whatever attempts are left; either
\* endpoint may find that the request cannot be put in the target's format.
AnswerEarly(r) ==
  /\ pc[r] = "pick" /\ AtTarget(r) /\ NumKeys[Cur(r)] > 0 /\ tried[r] = {}
  /\ \/ job[r].ep = "messages" /\ Caching /\ Finish(r, "cached")
     \/ Finish(r, "unbuildable")
  /\ UNCHANGED <<now, provVars, job, pos, left, tried, key, gone, log>>

-----------------------------------------------------------------------------
(* The attempt loop. *)

\* To be caught: the key is not entered in triedKeys.
SendAttemptUntried(r) ==
  /\ pc[r] = "pick" /\ CanTry(r)
  /\ LET p == Cur(r) IN
     \E k \in Key(p) \ tried[r] :
       /\ Picks(pool[p], NumKeys[p], now, k)
       /\ pool' = [pool EXCEPT ![p] = AfterPick(@, NumKeys[p], now, k)]
       /\ BeginRequest(p)
       /\ key' = [key EXCEPT ![r] = k]
       /\ log' = [log EXCEPT ![r] = Append(@, <<pos[r], k>>)]
  /\ left' = [left EXCEPT ![r] = @ - 1]
  /\ Goto(r, "exec")
  /\ UNCHANGED <<now, consecFails, openUntil, job, pos, tried, gone, answer>>

\* An iteration whose Pick returns a key not tried yet on this target.
SendAttempt(r) ==
  /\ pc[r] = "pick" /\ CanTry(r)
  /\ LET p == Cur(r) IN
     \E k \in Key(p) \ tried[r] :
       /\ Picks(pool[p], NumKeys[p], now, k)
       /\ pool' = [pool EXCEPT ![p] = AfterPick(@, NumKeys[p], now, k)]
       /\ BeginRequest(p)
       /\ tried' = [tried EXCEPT ![r] = @ \cup {k}]
       /\ key' = [key EXCEPT ![r] = k]
       /\ log' = [log EXCEPT ![r] = Append(@, <<pos[r], k>>)]
  /\ left' = [left EXCEPT ![r] = @ - 1]
  /\ Goto(r, "exec")
  /\ UNCHANGED <<now, consecFails, openUntil, job, pos, gone, answer>>

\* To be caught: a key tried before does not cost an attempt.
BurnAttemptFree(r) ==
  /\ pc[r] = "pick" /\ CanTry(r)
  /\ LET p == Cur(r) IN
     \E k \in Key(p) \cap tried[r] :
       /\ Picks(pool[p], NumKeys[p], now, k)
       /\ pool' = [pool EXCEPT ![p] = AfterPick(@, NumKeys[p], now, k)]
  /\ UNCHANGED <<now, consecFails, openUntil, inflight, reqVars>>

\* An iteration whose Pick returns a key tried before: it costs an attempt.
BurnAttempt(r) ==
  /\ pc[r] = "pick" /\ CanTry(r)
  /\ LET p == Cur(r) IN
     \E k \in Key(p) \cap tried[r] :
       /\ Picks(pool[p], NumKeys[p], now, k)
       /\ pool' = [pool EXCEPT ![p] = AfterPick(@, NumKeys[p], now, k)]
  /\ left' = [left EXCEPT ![r] = @ - 1]
  /\ UNCHANGED <<now, consecFails, openUntil, inflight, job, pc, pos, tried, key,
                 gone, answer, log>>

\* To be caught: the attempts are counted per target.
NextTargetRefilled(r) ==
  /\ pc[r] = "pick" /\ pos[r] <= Len(job[r].chain) /\ ~CanTry(r)
  /\ pos' = [pos EXCEPT ![r] = @ + 1]
  /\ tried' = [tried EXCEPT ![r] = {}]
  /\ left' = [left EXCEPT ![r] = job[r].budget]
  /\ UNCHANGED <<now, provVars, job, pc, key, gone, answer, log>>

NextTarget(r) ==
  /\ pc[r] = "pick" /\ pos[r] <= Len(job[r].chain) /\ ~CanTry(r)
  /\ pos' = [pos EXCEPT ![r] = @ + 1]
  /\ tried' = [tried EXCEPT ![r] = {}]
  /\ UNCHANGED <<now, provVars, job, pc, left, key, gone, answer, log>>

GiveUp(r) ==
  /\ pc[r] = "pick" /\ pos[r] > Len(job[r].chain)
  /\ Finish(r, "exhausted")
  /\ UNCHANGED <<now, provVars, job, pos, left, tried, key, gone, log>>

-----------------------------------------------------------------------------
(* The upstream's answer, with what the handler does before NoteUpstream. *)

\* To be caught: the upstream call does not get the request's context, so a
\* cancelled client does not end it.
NetErrorDetached(r) ==
  /\ pc[r] = "exec" /\ ~gone[r]
  /\ EndRequest(Cur(r))
  /\ pool' = [pool EXCEPT ![Cur(r)] = AfterSoftFail(@, key[r], 0, now)]
  /\ Goto(r, "noteFail")
  /\ UNCHANGED <<now, consecFails, openUntil, job, pos, left, tried, key, gone,
                 answer, log>>

\* A transport error, which is also what a cancelled request context gives
\* (an answer that is already in can still win that race).
NetError(r) ==
  /\ pc[r] = "exec"
  /\ EndRequest(Cur(r))
  /\ pool' = [pool EXCEPT ![Cur(r)] = AfterSoftFail(@, key[r], 0, now)]
  /\ Goto(r, "noteFail")
  /\ UNCHANGED <<now, consecFails, openUntil, job, pos, left, tried, key, gone,
                 answer, log>>

\* The status is in retry_statuses.
SoftStatus(r) ==
  /\ pc[r] = "exec"
  /\ EndRequest(Cur(r))
  /\ \E hint \in Hints :
       pool' = [pool EXCEPT ![Cur(r)] = AfterSoftFail(@, key[r], hint, now)]
  /\ Goto(r, "noteFail")
  /\ UNCHANGED <<now, consecFails, openUntil, job, pos, left, tried, key, gone,
                 answer, log>>

\* The status is in key_fail_statuses.
HardStatus(r) ==
  /\ pc[r] = "exec"
  /\ EndRequest(Cur(r))
  /\ pool' = [pool EXCEPT ![Cur(r)] = AfterHardFail(@, key[r], now)]
  /\ Goto(r, "noteFail")
  /\ UNCHANGED <<now, consecFails, openUntil, job, pos, left, tried, key, gone,
                 answer, log>>

\* Any other error status is the client's: passed through, nothing reported.
FatalStatus(r) ==
  /\ pc[r] = "exec"
  /\ EndRequest(Cur(r))
  /\ Finish(r, "fatal")
  /\ UNCHANGED <<now, pool, consecFails, openUntil, job, pos, left, tried, key,
                 gone, log>>

\* A 2xx status.  /v1/messages reports, then notes the success, and stays in
\* flight while the body is read; /v1/chat/completions ends the request here
\* and never tells the breaker.
OkStatus(r) ==
  /\ pc[r] = "exec"
  /\ pool' = [pool EXCEPT ![Cur(r)] = AfterSuccess(@, key[r])]
  /\ IF job[r].ep = "messages"
     THEN Goto(r, "noteOk") /\ UNCHANGED inflight
     ELSE Goto(r, "body") /\ EndRequest(Cur(r))
  /\ UNCHANGED <<now, consecFails, openUntil, job, pos, left, tried, key, gone,
                 answer, log>>

-----------------------------------------------------------------------------
(* NoteUpstream: the counter and the deadline are two separate atomics. *)

\* To be caught: the breaker opens one failure early.
NoteFailureEarly(r) ==
  /\ pc[r] = "noteFail"
  /\ LET n == consecFails[Cur(r)] + 1 IN
     /\ consecFails' = [consecFails EXCEPT ![Cur(r)] = n]
     /\ Goto(r, IF n + 1 >= Threshold THEN "trip" ELSE "pick")
  /\ UNCHANGED <<now, pool, openUntil, inflight, job, pos, left, tried, key, gone,
                 answer, log>>

NoteFailure(r) ==
  /\ pc[r] = "noteFail"
  /\ LET n == consecFails[Cur(r)] + 1 IN
     /\ consecFails' = [consecFails EXCEPT ![Cur(r)] = n]
     /\ Goto(r, IF n >= Threshold THEN "trip" ELSE "pick")
  /\ UNCHANGED <<now, pool, openUntil, inflight, job, pos, left, tried, key, gone,
                 answer, log>>

TripBreaker(r) ==
  /\ pc[r] = "trip"
  /\ openUntil' = [openUntil EXCEPT ![Cur(r)] = now + OpenFor]
  /\ Goto(r, "pick")
  /\ UNCHANGED <<now, pool, consecFails, inflight, job, pos, left, tried, key, gone,
                 answer, log>>

NoteSuccess(r) ==
  /\ pc[r] = "noteOk"
  /\ consecFails' = [consecFails EXCEPT ![Cur(r)] = 0]
  /\ Goto(r, "body")
  /\ UNCHANGED <<now, pool, openUntil, inflight, job, pos, left, tried, key, gone,
                 answer, log>>

-----------------------------------------------------------------------------
(* The body of a successful answer. *)

BodyDelivered(r) ==
  /\ pc[r] = "body"
  /\ IF job[r].ep = "messages" THEN EndRequest(Cur(r)) ELSE UNCHANGED inflight
  /\ Finish(r, "ok")
  /\ UNCHANGED <<now, pool, consecFails, openUntil, job, pos, left, tried, key,
                 gone, log>>

\* To be caught: an error path without EndRequest.
BodyFailsLeaking(r) ==
  /\ pc[r] = "body"
  /\ IF job[r].ep = "chatStream"
     THEN Finish(r, "broken")
     ELSE Goto(r, "pick") /\ UNCHANGED answer
  /\ UNCHANGED <<now, provVars, job, pos, left, tried, key, gone, log>>

\* Reading or parsing the body fails.  The loop goes on with the next key, but
\* streamOpenAI has sent its header: it writes an error chunk and returns.
BodyFails(r) ==
  /\ pc[r] = "body"
  /\ IF job[r].ep = "messages" THEN EndRequest(Cur(r)) ELSE UNCHANGED inflight
  /\ IF job[r].ep = "chatStream"
     THEN Finish(r, "broken")
     ELSE Goto(r, "pick") /\ UNCHANGED answer
  /\ UNCHANGED <<now, pool, consecFails, openUntil, job, pos, left, tried, key,
                 gone, log>>

\* A response guardrail of /v1/messages matches: the handler returns at once,
\* without EndRequest.
BodyBlocked(r) ==
  /\ pc[r] = "body" /\ job[r].ep = "messages" /\ RespPatterns
  /\ Finish(r, "blocked")
  /\ UNCHANGED <<now, provVars, job, pos, left, tried, key, gone, log>>

-----------------------------------------------------------------------------
(* The environment. *)

Disconnect(r) ==
  /\ r \in Leavers /\ pc[r] \notin {"idle", "done"} /\ ~gone[r]
  /\ gone' = [gone EXCEPT ![r] = TRUE]
  /\ UNCHANGED <<now, provVars, job, pc, pos, left, tried, key, answer, log>>

Tick ==
  /\ now < MaxNow
  /\ now' = now + 1
  /\ UNCHANGED <<provVars, reqVars>>

\* Every request has been answered: the gateway idles.
Quiet ==
  /\ \A r \in Requests : pc[r] = "done"
  /\ UNCHANGED vars

Handler(r) ==
  \/ SendAttempt(r) \/ BurnAttempt(r) \/ NextTarget(r) \/ GiveUp(r)
  \/ NoteFailure(r) \/ TripBreaker(r) \/ NoteSuccess(r)

Upstream(r) ==
  \/ NetError(r) \/ SoftStatus(r) \/ HardStatus(r) \/ FatalStatus(r) \/ OkStatus(r)
  \/ BodyDelivered(r) \/ BodyFails(r) \/ BodyBlocked(r)

Next ==
  \/ \E r \in Requests :
       Arrive(r) \/ AnswerEarly(r) \/ Handler(r) \/ Upstream(r) \/ Disconnect(r)
  \/ Tick
  \/ Quiet

Spec == Init /\ [][Next]_vars

\* The runtime schedules every runnable handler, and net/http ends a call or a
\* body read whose context is cancelled.  Nothing makes an upstream answer:
\* http.Client has no timeout.
Aborts(r) == gone[r] /\ (NetError(r) \/ BodyFails(r))

Fairness == \A r \in Requests : WF_vars(Handler(r)) /\ WF_vars(Aborts(r))

FairSpec == Spec /\ Fairness

-----------------------------------------------------------------------------
(* Safety. *)

\* r's handler has begun a request to p that it has not ended, or returned
\* without ending it.
Holds(r, p) ==
  /\ pos[r] \in DOMAIN job[r].chain /\ Cur(r) = p
  /\ \/ pc[r] = "exec"
     \/ pc[r] \in {"noteOk", "body"} /\ job[r].ep = "messages"
     \/ answer[r] = "blocked"

(***************************************************************************)
(* A provider's in-flight counter is exact on every path through both      *)
(* handlers: it counts the requests between BeginRequest and EndRequest,   *)
(* plus, for ever, those a response guardrail blocked.                     *)
(***************************************************************************)
InflightCounts ==
  \A p \in Providers : inflight[p] = Cardinality({r \in Requests : Holds(r, p)})

(***************************************************************************)
(* However many targets and keys a request goes through, the upstream      *)
(* calls it has made and those it may still make stay within               *)
(* retry.max_attempts, or the x-ccg-max-attempts that replaced it.         *)
(***************************************************************************)
AttemptsWithinBudget ==
  \A r \in Requests : Len(log[r]) + left[r] <= job[r].budget

(***************************************************************************)
(* A request never calls a target twice with the same key, although the    *)
(* rotation it picks from is moved by all requests and may offer that key  *)
(* again.                                                                  *)
(***************************************************************************)
NoKeyTwice ==
  \A r \in Requests : \A i, j \in DOMAIN log[r] : log[r][i] = log[r][j] => i = j

Called(r, i, k) == \E n \in DOMAIN log[r] : log[r][n] = <<i, k>>

(***************************************************************************)
(* While attempts are left, a request moves on to the next target of its   *)
(* chain only after it has called the current one with every key, unless   *)
(* that target's breaker was open when the chain was resolved.             *)
(***************************************************************************)
NoPrematureFallback ==
  \A r \in Requests : left[r] > 0 =>
    \A i \in DOMAIN job[r].chain :
      i < pos[r] /\ job[r].chain[i] \notin job[r].skip
        => \A k \in Key(job[r].chain[i]) : Called(r, i, k)

CallsTo(p) ==
  UNION {{r} \X {i \in DOMAIN log[r] : job[r].chain[log[r][i][1]] = p} : r \in Requests}

(***************************************************************************)
(* A provider's breaker has opened only if Threshold calls were really     *)
(* made to it: one call never counts twice, burnt attempts and fatal       *)
(* statuses never count.                                                   *)
(***************************************************************************)
BreakerNeedsCalls ==
  \A p \in Providers : openUntil[p] > 0 => Cardinality(CallsTo(p)) >= Threshold

-----------------------------------------------------------------------------
(* Liveness. *)

(***************************************************************************)
(* A request whose client has gone does not linger: the cancelled context  *)
(* ends whatever call is under way and each one the loop still makes.      *)
(***************************************************************************)
LeaverFreed == \A r \in Requests : gone[r] ~> pc[r] = "done"

(***************************************************************************)
(* A request is answered if its own upstream calls keep ending, whatever   *)
(* the other requests do to the shared rotation and however long their     *)
(* upstreams hang.                                                         *)
(***************************************************************************)
Answered ==
  \A r \in Requests :
    []<>(pc[r] \notin {"exec", "body"}) => (pc[r] = "pick" ~> pc[r] = "done")

-----------------------------------------------------------------------------
(* What the documentation says and the code does not do. *)

(***************************************************************************)
(* Ordered failover (CHANGELOG, "Fallback chains with ordered failover     *)
(* across providers"): a request is given up as exhausted only when it has *)
(* made all the upstream calls it may, or has called every key of every    *)
(* target whose breaker was closed.                                        *)
(***************************************************************************)
FailoverComplete ==
  \A r \in Requests : answer[r] = "exhausted" =>
    \/ Len(log[r]) = job[r].budget
    \/ \A i \in DOMAIN job[r].chain :
         job[r].chain[i] \notin job[r].skip
           => \A k \in Key(job[r].chain[i]) : Called(r, i, k)

Active(p) == Cardinality({r \in Requests : pc[r] # "done" /\ Holds(r, p)})

(***************************************************************************)
(* least_busy orders targets by the least number of active requests        *)
(* (README_RU): a request that arrives is sent first to a target that no   *)
(* other target undercuts in requests under way.                           *)
(***************************************************************************)
LeastBusyFirst ==
  [][\A r \in Requests : pc[r] = "idle" /\ pc'[r] = "pick" =>
       \A i \in DOMAIN job'[r].chain :
         Active(job'[r].chain[1]) <= Active(job'[r].chain[i])]_vars

=============================================================================
