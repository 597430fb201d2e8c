------------------------------- MODULE MCBreaker -------------------------------
(***************************************************************************)
(* Dispatch with a history variable that counts what the breaker's         *)
(* documentation talks about: the failures of a provider since its last    *)
(* success, in the order in which the handlers deal with them.             *)
(***************************************************************************)
EXTENDS MCDispatch

VARIABLE streak

NotesFailure(r) == pc[r] = "noteFail" /\ pc'[r] # "noteFail"

\* A handler is done with a 2xx status and turns to the body.
SeesSuccess(r) == pc[r] \in {"exec", "noteOk"} /\ pc'[r] = "body"

CallOf(r, p) == pc[r] \in {"exec", "noteOk", "noteFail"} /\ Cur(r) = p

StreakInit == Init /\ streak = [p \in Providers |-> 0]

StreakNext ==
  /\ Next
  /\ streak' = [p \in Providers |->
       IF \E r \in Requests : CallOf(r, p) /\ SeesSuccess(r) THEN 0
       ELSE IF \E r \in Requests : CallOf(r, p) /\ NotesFailure(r) THEN streak[p] + 1
       ELSE streak[p]]

StreakSpec == StreakInit /\ [][StreakNext]_<<vars, streak>>

(***************************************************************************)
(* README, "circuit breaker (5 consecutive failures)": a handler sets out  *)
(* to open a provider's breaker only when Threshold failures in a row have *)
(* come back from that provider, with no success in between.               *)
(***************************************************************************)
OpensOnConsecutiveFailures ==
  [][\A r \in Requests : pc[r] = "noteFail" /\ pc'[r] = "trip"
       => streak'[Cur(r)] >= Threshold]_<<vars, streak>>

=============================================================================
