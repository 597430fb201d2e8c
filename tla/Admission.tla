------------------------------- MODULE Admission -------------------------------
(***************************************************************************)
(* What stands between a client's request and an upstream: authentication, *)
(* the limits of requests and tokens per minute, budgets, guardrails and   *)
(* model lists, and the charge that follows the upstream's answer.         *)
(*                                                                         *)
(* Counters live in Redis or, where there is none and whenever a command   *)
(* to it fails, in the process.  A Redis command is one atomic step; what  *)
(* RedisStore.cmd makes of a connection that breaks, or that two           *)
(* goroutines use at once, is a set of outcomes, and a panic, which ends   *)
(* the handler.  The clock counts minutes.  Money and tokens are small     *)
(* integers.                                                               *)
(***************************************************************************)
EXTENDS Integers, Sequences, FiniteSets, Functions, FiniteSetsExt

CONSTANTS
  Clients,     \* tokens of clients: configured, or generated while running
  Late,        \* those generated while running
  Limit,       \* budget_usd of each client, as given
  TPM,         \* tpm of each client; 0 is no limit
  RPM,         \* rate_limit_rpm; 0 is no limit
  Allowed,     \* allowed_models of each client
  FreeModels,  \* routing.free_models; {<<>>} when free_only is off
  MaxInput,    \* guardrails.max_input_tokens; 0 is no limit
  InjBlocks,   \* TRUE: guardrails.injection_detection is block
  PeriodLen,   \* minutes of a budget period
  Costs,       \* what a served request may cost
  NewLimits,   \* budget_usd values /admin/tokens/update is sent for each client
  Mixes,       \* what the requests are
  Requests,
  MaxBuckets,  \* size at which the limiter drops its table (4096 in the code)
  MaxBusy,     \* bound on requests under way at a time
  MaxFaults,   \* bound on failing store commands and restarts
  MaxNow       \* bound on the clock

ASSUME AdmissionAssumption ==
  /\ IsFiniteSet(Requests) /\ Requests # {} /\ Late \subseteq Clients
  /\ Limit \in [Clients -> Int] /\ TPM \in [Clients -> Nat]
  /\ RPM \in Nat /\ MaxInput \in Nat /\ MaxBuckets \in Nat
  /\ InjBlocks \in BOOLEAN
  /\ PeriodLen \in Nat \ {0}
  /\ Costs \subseteq Nat /\ IsFiniteSet(Costs) /\ Costs # {}
  /\ NewLimits \in [Clients -> SUBSET Int]
  /\ \A mix \in Mixes : \A r \in Requests :
       mix[r].client \in Clients /\ mix[r].est \in Nat /\ mix[r].chat \in BOOLEAN
  /\ MaxBusy \in Nat \ {0} /\ MaxFaults \in Nat /\ MaxNow \in Nat

VARIABLES
  redis,    \* the stores were given a RedisStore when the process started
  now,      \* the clock
  known,    \* Server.tokens
  limit,    \* budgets.info[c].Limit
  spent,    \* budgets.states, of the clients that have one
  money,    \* the budget: key of the current period
  rpmKey,   \* the rpm: counter of each client
  tpmKey,   \* the tpm: counter
  buckets,  \* Limiter.buckets, under <<"rpm", c>> and <<"tpm", c>>
  held,     \* budgets.mu is locked, and nobody is left to unlock it
  job,      \* what a request is
  pc,       \* where its handler stands
  fits,     \* the verdict of the counter it has increased
  stale,    \* history: that counter has expired since
  answer,   \* how it was answered
  faults,   \* failed store commands and restarts so far
  charged,  \* history: charges of the period that nobody has reset
  unpaid,   \* history: those of them that were recorded nowhere
  top,      \* history: the highest limit since charged was 0
  passed,   \* history: requests let through since the counter last began
  granted,  \* history: tokens let through
  late,     \* history: tokens given back to a counter that had not counted them
  last,     \* history: when a client was last counted
  lastPass  \* history: and when it was last let through

storeVars == <<money, rpmKey, tpmKey>>
memVars   == <<known, limit, spent, buckets, held>>
histVars  == <<charged, unpaid, top, passed, granted, late, last, lastPass>>
reqVars   == <<job, pc, fits, stale, answer>>
vars      == <<redis, now, storeVars, memVars, histVars, reqVars, faults>>

Never   == -1            \* the expiry time of a key without one
Unlimited == -1
Missing == [n |-> 0, exp |-> 0]
Places  == {"idle", "rpm", "rpmTtl", "budget", "checks", "tpm", "tpmTtl", "refund",
            "upstream", "hung", "done"}
\* "limited" is 429, whatever the limit; "aborted" is what withRecovery makes of a
\* panic, which is a 500 unless an answer has been written already.
Answers == {"none", "unauthorized", "limited", "refused", "served", "failed", "aborted",
            "died"}

\* A limit of 0 in the configuration or in a generated token is none at all.
Normal(l) == IF l <= 0 THEN Unlimited ELSE l

Init ==
  /\ redis \in BOOLEAN
  /\ now = 0
  /\ known = Clients \ Late
  /\ limit = [c \in Clients |-> Normal(Limit[c])]
  /\ spent = <<>> /\ buckets = <<>> /\ held = FALSE
  /\ money = [c \in Clients |-> 0]
  /\ rpmKey = [c \in Clients |-> Missing] /\ tpmKey = rpmKey
  /\ job \in Mixes
  /\ pc = [r \in Requests |-> "idle"]
  /\ fits = [r \in Requests |-> TRUE]
  /\ stale = [r \in Requests |-> FALSE]
  /\ answer = [r \in Requests |-> "none"]
  /\ faults = 0
  /\ charged = [c \in Clients |-> 0] /\ passed = charged
  /\ granted = charged /\ late = charged /\ unpaid = charged
  /\ top = limit
  /\ last = [c \in Clients |-> -2] /\ lastPass = last

-----------------------------------------------------------------------------
(* RedisStore.cmd. *)

\* A command is applied some number of times -- it is sent again when its reply
\* does not come -- and the caller gets its reply, an error, or the reply to
\* another goroutine's command, which was on the connection at the same time.  Or
\* that goroutine takes the connection away in between: Panics.
Plain == [times |-> 1, says |-> "own"]
Outcomes == {Plain} \cup [times : 0 .. 2, says : {"error"}]
                    \cup {[times |-> 2, says |-> "own"], [times |-> 1, says |-> "other"]}

Command(o) ==
  /\ redis
  /\ o \in Outcomes
  /\ faults' = faults + (IF o = Plain THEN 0 ELSE 1)
  /\ faults' <= MaxFaults

\* No store was given, or the command failed: the process counts by itself.
Locally(o) == ~redis \/ o.says = "error"

\* A reply of another kind is read as 0, one of the same kind as it is.
Reads(o, own) == IF o.says = "other" THEN {0, own + RPM + 1} ELSE {own}

Incr(key, d) == [key EXCEPT !.n = @ + d,
                            !.exp = IF key = Missing THEN Never ELSE @]

\* To be caught: a key that has no expiry gets none.
PexpireOnce(key) == IF key.exp = Never THEN key ELSE [key EXCEPT !.exp = now + 1]

\* PEXPIRE does nothing to a key that is gone.
Pexpire(key) == IF key = Missing THEN key ELSE [key EXCEPT !.exp = now + 1]

-----------------------------------------------------------------------------
(* Limiter. *)

\* To be caught: a bucket is stored where it is not looked for.
BucketLost(k) == [win |-> now, n |-> 0, tok |-> 0]

Bucket(k) == IF k \in DOMAIN buckets /\ buckets[k].win = now THEN buckets[k]
             ELSE [win |-> now, n |-> 0, tok |-> 0]

With(table, k, b) == [x \in DOMAIN table \cup {k} |-> IF x = k THEN b ELSE table[x]]

\* A new minute's bucket may find the table too large; then it is dropped whole.
Drops(k) == /\ k \notin DOMAIN buckets \/ buckets[k].win # now
            /\ Cardinality(DOMAIN buckets) > MaxBuckets

\* Without a store the histories follow the process's own counters.
Forgets(wiped) == IF wiped /\ ~redis THEN [c \in Clients |-> 0] ELSE passed

-----------------------------------------------------------------------------
(* The steps of both handlers, and their order. *)

Client(r) == job[r].client
Goto(r, place) == pc' = [pc EXCEPT ![r] = place] /\ UNCHANGED answer
Refuse(r, how) == /\ pc' = [pc EXCEPT ![r] = "done"]
                  /\ answer' = [answer EXCEPT ![r] = how]
Busy == {r \in Requests : pc[r] \notin {"idle", "done"}}

AfterRate(r)   == IF job[r].chat THEN "checks" ELSE "budget"
AfterChecks(r) == IF job[r].chat THEN "budget" ELSE "tpm"
AfterBudget(r) == IF job[r].chat THEN "tpm" ELSE "checks"

\* checkAuth.
Arrive(r) ==
  /\ pc[r] = "idle" /\ Cardinality(Busy) < MaxBusy
  /\ IF Client(r) \in known THEN Goto(r, "rpm") ELSE Refuse(r, "unauthorized")
  /\ UNCHANGED <<redis, now, storeVars, memVars, histVars, job, fits, stale, faults>>

\* Allow: the verdict, which with a store waits for PEXPIRE.
Verdict(r, ok, wiped) ==
  LET c == Client(r) IN
  /\ fits' = [fits EXCEPT ![r] = ok]
  /\ passed' = [Forgets(wiped) EXCEPT ![c] = @ + (IF ok THEN 1 ELSE 0)]
  /\ granted' = IF wiped /\ ~redis THEN [x \in Clients |-> 0] ELSE granted
  /\ last' = [last EXCEPT ![c] = now]
  /\ lastPass' = IF ok THEN [lastPass EXCEPT ![c] = now] ELSE lastPass

Allow(r) ==
  /\ pc[r] = "rpm"
  /\ LET c == Client(r)
         b == Bucket(<<"rpm", c>>)
         wiped == Drops(<<"rpm", c>>)
     IN
     \/ /\ RPM = 0
        /\ Goto(r, AfterRate(r))
        /\ UNCHANGED <<rpmKey, buckets, fits, passed, granted, last, lastPass, faults>>
     \/ /\ RPM > 0
        /\ \E o \in Outcomes :
             /\ IF redis THEN Command(o) ELSE o = Plain /\ UNCHANGED faults
             /\ rpmKey' = IF redis /\ o.times > 0
                          THEN [rpmKey EXCEPT ![c] = Incr(@, o.times)] ELSE rpmKey
             /\ IF Locally(o)
                THEN /\ buckets' = With(IF wiped THEN <<>> ELSE buckets, <<"rpm", c>>,
                                        [b EXCEPT !.n = @ + 1])
                     /\ Verdict(r, b.n + 1 <= RPM, wiped)
                     /\ IF b.n + 1 <= RPM THEN Goto(r, AfterRate(r)) ELSE Refuse(r, "limited")
                ELSE /\ \E n \in Reads(o, rpmKey'[c].n) : Verdict(r, n <= RPM, FALSE)
                     /\ Goto(r, "rpmTtl")
                     /\ UNCHANGED buckets
  /\ UNCHANGED <<redis, now, money, tpmKey, known, limit, spent, held, charged, unpaid, top,
                 late, job, stale>>

\* IncrWindow's second command; its error is dropped.
ExpireRpm(r) ==
  /\ pc[r] = "rpmTtl"
  /\ \E o \in Outcomes :
       /\ Command(o)
       /\ rpmKey' = IF o.times > 0 THEN [rpmKey EXCEPT ![Client(r)] = Pexpire(@)]
                    ELSE rpmKey
  /\ IF fits[r] THEN Goto(r, AfterRate(r)) ELSE Refuse(r, "limited")
  /\ UNCHANGED <<redis, now, money, tpmKey, memVars, histVars, job, fits, stale>>

-----------------------------------------------------------------------------
(* Budgets. *)

Period(t) == t \div PeriodLen

SpentLocally(c) ==
  IF c \in DOMAIN spent /\ spent[c].period = Period(now) THEN spent[c].usd ELSE 0

\* To be caught: a client may spend all of its budget, and then more.
ExceededAbove(r) ==
  LET c == Client(r) IN
  /\ pc[r] = "budget"
  /\ \E o \in Outcomes :
       /\ IF redis /\ limit[c] >= 0 THEN Command(o) ELSE o = Plain /\ UNCHANGED faults
       /\ \E v \in IF Locally(o) THEN {SpentLocally(c)} ELSE Reads(o, money[c]) :
            IF limit[c] >= 0 /\ v > limit[c] THEN Refuse(r, "limited")
            ELSE Goto(r, AfterBudget(r))
  /\ UNCHANGED <<redis, now, storeVars, memVars, histVars, job, fits, stale>>

\* Charges a store that is back does not know of are not looked for in memory.
Exceeded(r) ==
  LET c == Client(r) IN
  /\ pc[r] = "budget"
  /\ \E o \in Outcomes :
       /\ IF redis /\ limit[c] >= 0 THEN Command(o) ELSE o = Plain /\ UNCHANGED faults
       /\ \E v \in IF Locally(o) THEN {SpentLocally(c)} ELSE Reads(o, money[c]) :
            IF limit[c] >= 0 /\ v >= limit[c] THEN Refuse(r, "limited")
            ELSE Goto(r, AfterBudget(r))
  /\ UNCHANGED <<redis, now, storeVars, memVars, histVars, job, fits, stale>>

\* To be caught: the state of a past period is kept.
AddToOld(c, usd) ==
  IF c \in DOMAIN spent THEN [spent EXCEPT ![c].usd = @ + usd] ELSE
  With(spent, c, [period |-> Period(now), usd |-> usd])

AddLocally(c, usd) ==
  With(spent, c, [period |-> Period(now), usd |-> SpentLocally(c) + usd])

\* The upstream answers, now or much later; a client without a limit is not
\* charged at all.
Serve(r) ==
  LET c == Client(r) IN
  /\ pc[r] = "upstream"
  /\ \E usd \in Costs, o \in Outcomes :
       IF limit[c] < 0 \/ usd = 0
       THEN o = Plain /\ UNCHANGED <<money, spent, charged, faults>>
       ELSE /\ IF redis THEN Command(o) ELSE o = Plain /\ UNCHANGED faults
            /\ Locally(o) => ~held
            /\ money' = IF redis THEN [money EXCEPT ![c] = @ + o.times * usd] ELSE money
            /\ spent' = IF Locally(o) THEN AddLocally(c, usd) ELSE spent
            /\ charged' = [charged EXCEPT ![c] = @ + usd]
  /\ Refuse(r, "served")
  /\ UNCHANGED <<redis, now, rpmKey, tpmKey, known, limit, buckets, held, unpaid, top,
                 passed, granted, late, last, lastPass, job, fits, stale>>

\* The command of the charge has failed, and the mutex of the map that is to take
\* the charge is never unlocked: the handler waits for it until the process ends.
Hangs(r) ==
  LET c == Client(r) IN
  /\ pc[r] = "upstream" /\ held /\ limit[c] >= 0
  /\ \E usd \in Costs \ {0}, o \in Outcomes :
       /\ Command(o) /\ Locally(o)
       /\ money' = [money EXCEPT ![c] = @ + o.times * usd]
       /\ charged' = [charged EXCEPT ![c] = @ + usd]
       /\ unpaid' = IF o.times = 0 THEN [unpaid EXCEPT ![c] = @ + usd] ELSE unpaid
  /\ Goto(r, "hung")
  /\ UNCHANGED <<redis, now, rpmKey, tpmKey, memVars, top, passed, granted, late, last,
                 lastPass, job, fits, stale>>

\* Every target failed.
Fail(r) ==
  /\ pc[r] = "upstream"
  /\ Refuse(r, "failed")
  /\ UNCHANGED <<redis, now, storeVars, memVars, histVars, job, fits, stale, faults>>

-----------------------------------------------------------------------------
(* What needs no counter. *)

\* path.Match: a star stands for anything but a slash.
PathMatch(p, m) ==
  LET Match[i \in 0 .. Len(p), j \in 0 .. Len(m)] ==
        IF i = 0 THEN j = 0
        ELSE IF p[i] = "*" THEN \/ Match[i - 1, j]
                                \/ j > 0 /\ m[j] # "/" /\ Match[i, j - 1]
        ELSE j > 0 /\ p[i] \in {m[j], "?"} /\ (p[i] = "?" => m[j] # "/") /\ Match[i - 1, j - 1]
  IN  Match[Len(p), Len(m)] \/ p = m

\* Here a star at the end stands for anything, and elsewhere for itself.
FreeMatch(p, m) ==
  \/ p = m
  \/ /\ p # <<>> /\ p[Len(p)] = "*"
     /\ LET n == Len(p) - 1 IN Len(m) >= n /\ SubSeq(m, 1, n) = SubSeq(p, 1, n)

AllowsModel(c, m) == Allowed[c] = {} \/ \E p \in Allowed[c] : PathMatch(p, m)
FreeModel(m) == FreeModels = {<<>>} \/ \E p \in FreeModels : FreeMatch(p, m)

\* checkRequest; what a text matches is the request's trait.
GuardBlocks(j) ==
  \/ MaxInput > 0 /\ j.est > MaxInput
  \/ j.trait \in {"deniedTool", "pattern"}
  \/ j.trait = "injection" /\ InjBlocks

\* To be caught: the error is written and the handler goes on.
CheckOn(r) ==
  /\ pc[r] = "checks"
  /\ LET j == job[r] IN
     IF \/ j.trait = "invalid" \/ GuardBlocks(j)
        \/ ~AllowsModel(j.client, j.model) \/ ~FreeModel(j.model)
     THEN answer' = [answer EXCEPT ![r] = "refused"]
          /\ pc' = [pc EXCEPT ![r] = AfterChecks(r)]
     ELSE Goto(r, AfterChecks(r))
  /\ UNCHANGED <<redis, now, storeVars, memVars, histVars, job, fits, stale, faults>>

Check(r) ==
  /\ pc[r] = "checks"
  /\ LET j == job[r] IN
     IF \/ j.trait = "invalid" \/ GuardBlocks(j)
        \/ ~AllowsModel(j.client, j.model) \/ ~FreeModel(j.model)
     THEN Refuse(r, "refused") ELSE Goto(r, AfterChecks(r))
  /\ UNCHANGED <<redis, now, storeVars, memVars, histVars, job, fits, stale, faults>>

-----------------------------------------------------------------------------
(* AllowTokens. *)

Grant(r, ok) ==
  /\ fits' = [fits EXCEPT ![r] = ok]
  /\ granted' = [granted EXCEPT ![Client(r)] = @ + (IF ok THEN job[r].est ELSE 0)]

\* To be caught: the limit is compared with the tokens counted before.
AllowTokensBefore(r) ==
  /\ pc[r] = "tpm"
  /\ LET c == Client(r)
         est == job[r].est
         b == Bucket(<<"tpm", c>>)
     IN
     \/ /\ TPM[c] > 0 /\ est > 0 /\ redis
        /\ tpmKey' = [tpmKey EXCEPT ![c] = Incr(@, est)]
        /\ Grant(r, tpmKey[c].n <= TPM[c])
        /\ Goto(r, "tpmTtl")
        /\ UNCHANGED <<buckets, faults>>
  /\ stale' = [stale EXCEPT ![r] = FALSE]
  /\ UNCHANGED <<redis, now, money, rpmKey, known, limit, spent, held, charged, unpaid,
                 top, passed, late, last, lastPass, job>>

AllowTokens(r) ==
  /\ pc[r] = "tpm"
  /\ LET c == Client(r)
         est == job[r].est
         b == Bucket(<<"tpm", c>>)
     IN
     \/ /\ TPM[c] = 0 \/ est = 0
        /\ Goto(r, "upstream")
        /\ UNCHANGED <<tpmKey, buckets, fits, granted, faults>>
     \/ /\ TPM[c] > 0 /\ est > 0
        /\ \E o \in Outcomes :
             /\ IF redis THEN Command(o) ELSE o = Plain /\ UNCHANGED faults
             /\ tpmKey' = IF redis /\ o.times > 0
                          THEN [tpmKey EXCEPT ![c] = Incr(@, o.times * est)] ELSE tpmKey
             /\ IF Locally(o)
                THEN LET ok == b.tok + est <= TPM[c] IN
                     /\ buckets' = With(buckets, <<"tpm", c>>,
                                        IF ok THEN [b EXCEPT !.tok = @ + est] ELSE b)
                     /\ Grant(r, ok)
                     /\ IF ok THEN Goto(r, "upstream") ELSE Refuse(r, "limited")
                ELSE /\ \E n \in Reads(o, tpmKey'[c].n) : Grant(r, n <= TPM[c])
                     /\ Goto(r, "tpmTtl")
                     /\ UNCHANGED buckets
  /\ stale' = [stale EXCEPT ![r] = FALSE]
  /\ UNCHANGED <<redis, now, money, rpmKey, known, limit, spent, held, charged, unpaid,
                 top, passed, late, last, lastPass, job>>

ExpireTpm(r) ==
  /\ pc[r] = "tpmTtl"
  /\ \E o \in Outcomes :
       /\ Command(o)
       /\ tpmKey' = IF o.times > 0 THEN [tpmKey EXCEPT ![Client(r)] = Pexpire(@)]
                    ELSE tpmKey
  /\ Goto(r, IF fits[r] THEN "upstream" ELSE "refund")
  /\ UNCHANGED <<redis, now, money, rpmKey, memVars, histVars, job, fits, stale>>

\* INCRBYFLOAT takes the tokens back; its error is dropped.  A key that has gone
\* in the meantime is made again, below zero and without an expiry.
Refund(r) ==
  /\ pc[r] = "refund"
  /\ LET c == Client(r) IN
     \E o \in Outcomes :
       /\ Command(o)
       /\ tpmKey' = IF o.times > 0
                    THEN [tpmKey EXCEPT ![c] = Incr(@, -(o.times * job[r].est))] ELSE tpmKey
       /\ late' = IF stale[r] /\ o.times > 0
                  THEN [late EXCEPT ![c] = @ + job[r].est] ELSE late
  /\ Refuse(r, "limited")
  /\ UNCHANGED <<redis, now, money, rpmKey, memVars, charged, unpaid, top, passed,
                 granted, last, lastPass, job, fits, stale>>

-----------------------------------------------------------------------------
(* A nil connection. *)

\* A goroutine whose command fails sets r.conn to nil, without the mutex; one that
\* is past its own check of r.conn, then dereferences it and panics.  Its command
\* has been applied or not, nothing falls back to the process, and withRecovery
\* ends the request: also when all that was left to do was to charge it.
Panics(r) ==
  LET c == Client(r)
      est == job[r].est
  IN
  /\ redis /\ faults < MaxFaults
  /\ faults' = faults + 1
  /\ \E times \in 0 .. 2 :
       LET Applied(key, new) == IF times > 0 THEN [key EXCEPT ![c] = new] ELSE key IN
       \/ /\ pc[r] = "rpm" /\ RPM > 0
          /\ rpmKey' = Applied(rpmKey, Incr(rpmKey[c], times))
          /\ UNCHANGED <<money, tpmKey, charged, unpaid, late>>
       \/ /\ pc[r] = "rpmTtl"
          /\ rpmKey' = Applied(rpmKey, Pexpire(rpmKey[c]))
          /\ UNCHANGED <<money, tpmKey, charged, unpaid, late>>
       \/ /\ pc[r] = "budget" /\ limit[c] >= 0
          /\ UNCHANGED <<storeVars, charged, unpaid, late>>
       \/ /\ pc[r] = "tpm" /\ TPM[c] > 0 /\ est > 0
          /\ tpmKey' = Applied(tpmKey, Incr(tpmKey[c], times * est))
          /\ UNCHANGED <<money, rpmKey, charged, unpaid, late>>
       \/ /\ pc[r] = "tpmTtl"
          /\ tpmKey' = Applied(tpmKey, Pexpire(tpmKey[c]))
          /\ UNCHANGED <<money, rpmKey, charged, unpaid, late>>
       \/ /\ pc[r] = "refund"
          /\ tpmKey' = Applied(tpmKey, Incr(tpmKey[c], -(times * est)))
          /\ late' = IF stale[r] /\ times > 0 THEN [late EXCEPT ![c] = @ + est] ELSE late
          /\ UNCHANGED <<money, rpmKey, charged, unpaid>>
       \/ /\ pc[r] = "upstream" /\ limit[c] >= 0
          /\ \E usd \in Costs \ {0} :
               /\ money' = [money EXCEPT ![c] = @ + times * usd]
               /\ charged' = [charged EXCEPT ![c] = @ + usd]
               /\ unpaid' = IF times = 0 THEN [unpaid EXCEPT ![c] = @ + usd] ELSE unpaid
          /\ UNCHANGED <<rpmKey, tpmKey, late>>
  /\ Refuse(r, "aborted")
  /\ UNCHANGED <<redis, now, memVars, top, passed, granted, last, lastPass, job, fits,
                 stale>>

\* tokenReports reads the store under budgets.mu and unlocks it without a defer: the
\* same panic leaves it locked.  (Bounds: only while a charge is to come that a fault
\* may yet turn to the map; at another time it would only disable UpdateLimit and
\* GenerateToken.)
ReportPanics ==
  /\ redis /\ ~held /\ faults < MaxFaults
  /\ \E r \in Requests : pc[r] = "upstream" /\ limit[Client(r)] >= 0
  /\ held' = TRUE
  /\ UNCHANGED <<redis, now, storeVars, known, limit, spent, buckets, histVars, reqVars,
                 faults>>

-----------------------------------------------------------------------------
(* The operator. *)

\* Of two limits; one below 0 is none at all.
Higher(a, b) == IF a < 0 \/ (b >= 0 /\ a >= b) THEN a ELSE b

\* The histories of c without what the process remembers of it.
Forget(c) == charged[c] - SpentLocally(c)

\* updateLimitByName ignores the case of the name; the reset of the states does
\* not, and never reaches the store.
UpdateLimit(c) ==
  /\ c \in known /\ ~held
  /\ \E l \in NewLimits[c], exact \in BOOLEAN :
       LET rest == IF exact THEN Forget(c) ELSE charged[c] IN
       /\ limit' = [limit EXCEPT ![c] = l]
       /\ spent' = IF exact THEN Restrict(spent, DOMAIN spent \ {c}) ELSE spent
       /\ charged' = [charged EXCEPT ![c] = rest]
       /\ top' = [top EXCEPT ![c] = IF rest = 0 THEN l ELSE Higher(@, l)]
  /\ UNCHANGED <<redis, now, storeVars, known, buckets, held, unpaid, passed, granted,
                 late, last, lastPass, reqVars, faults>>

GenerateToken(c) ==
  /\ c \in Late \ known /\ ~held
  /\ known' = known \cup {c}
  /\ UNCHANGED <<redis, now, storeVars, limit, spent, buckets, held, histVars, reqVars,
                 faults>>

-----------------------------------------------------------------------------
(* The environment. *)

Expired(key) == key.exp > 0 /\ key.exp <= now

\* Redis drops a counter in the minute it expires.
ExpireKey(c) ==
  \/ /\ Expired(rpmKey[c])
     /\ rpmKey' = [rpmKey EXCEPT ![c] = Missing]
     /\ passed' = IF redis THEN [passed EXCEPT ![c] = 0] ELSE passed
     /\ UNCHANGED <<redis, now, money, tpmKey, memVars, charged, unpaid, top, granted, late,
                    last, lastPass, reqVars, faults>>
  \/ /\ Expired(tpmKey[c])
     /\ tpmKey' = [tpmKey EXCEPT ![c] = Missing]
     /\ granted' = IF redis THEN [granted EXCEPT ![c] = 0] ELSE granted
     /\ late' = [late EXCEPT ![c] = 0]
     /\ stale' = [r \in Requests |-> stale[r] \/ Client(r) = c]
     /\ UNCHANGED <<redis, now, money, rpmKey, memVars, charged, unpaid, top, passed, last,
                    lastPass, job, pc, fits, answer, faults>>

\* Commands have a deadline of seconds, so none of a request's pairs of commands
\* is a minute apart.  Keys of past budget periods are not read again.
Tick ==
  /\ now < MaxNow
  /\ \A c \in Clients : ~Expired(rpmKey[c]) /\ ~Expired(tpmKey[c])
  /\ \A r \in Requests : pc[r] \notin {"rpmTtl", "tpmTtl", "refund"}
  /\ now' = now + 1
  /\ IF Period(now + 1) = Period(now) THEN UNCHANGED <<money, charged, unpaid, top>>
     ELSE /\ money' = [c \in Clients |-> 0]
          /\ charged' = money' /\ unpaid' = money'
          /\ top' = limit
  /\ IF redis THEN UNCHANGED <<passed, granted>>
     ELSE passed' = [c \in Clients |-> 0] /\ granted' = passed'
  /\ UNCHANGED <<redis, rpmKey, tpmKey, memVars, late, last, lastPass, reqVars, faults>>

\* The process ends -- killed, or by the Go runtime, which throws when spentFor
\* reads the states map while add writes it -- and starts again; initStateStore
\* may or may not reach Redis this time.
Restart ==
  /\ faults < MaxFaults
  /\ faults' = faults + 1
  /\ redis' \in BOOLEAN
  /\ known' = Clients \ Late
  /\ limit' = [c \in Clients |-> Normal(Limit[c])]
  /\ spent' = <<>> /\ buckets' = <<>> /\ held' = FALSE
  /\ pc' = [r \in Requests |-> IF r \in Busy THEN "done" ELSE pc[r]]
  /\ answer' = [r \in Requests |-> IF r \in Busy THEN "died" ELSE answer[r]]
  /\ LET kept == redis /\ redis' IN
     /\ charged' = [c \in Clients |-> IF kept THEN Forget(c) ELSE 0]
     /\ unpaid' = [c \in Clients |-> IF kept THEN unpaid[c] ELSE 0]
     /\ passed' = [c \in Clients |-> IF kept THEN passed[c] ELSE 0]
     /\ granted' = [c \in Clients |-> IF kept THEN granted[c] ELSE 0]
  /\ top' = [c \in Clients |-> IF charged'[c] = 0 THEN limit'[c]
                               ELSE Higher(top[c], limit'[c])]
  /\ UNCHANGED <<now, storeVars, late, last, lastPass, job, fits, stale>>

Handler(r) ==
  \/ Arrive(r) \/ Allow(r) \/ ExpireRpm(r) \/ Exceeded(r) \/ Check(r)
  \/ AllowTokens(r) \/ ExpireTpm(r) \/ Refund(r) \/ Serve(r) \/ Fail(r)
  \/ Panics(r) \/ Hangs(r)

Next ==
  \/ \E r \in Requests : Handler(r)
  \/ \E c \in Clients : UpdateLimit(c) \/ GenerateToken(c) \/ ExpireKey(c)
  \/ ReportPanics \/ Tick \/ Restart

Spec == Init /\ [][Next]_vars

-----------------------------------------------------------------------------
(* Properties. *)

CounterOK(k) == k.n \in Int /\ k.exp \in {Never} \cup 0 .. MaxNow + 1

(***************************************************************************)
(* Types; a request has exactly one answer, which ends its handler, and    *)
(* only an expiry makes a counter of Redis start again.                    *)
(***************************************************************************)
TypeOK ==
  /\ redis \in BOOLEAN /\ now \in 0 .. MaxNow /\ faults \in 0 .. MaxFaults
  /\ held \in BOOLEAN /\ unpaid \in [Clients -> Nat]
  /\ known \subseteq Clients
  /\ limit \in [Clients -> Int] /\ money \in [Clients -> Nat]
  /\ \A c \in Clients : CounterOK(rpmKey[c]) /\ CounterOK(tpmKey[c])
  /\ \A c \in Clients : rpmKey[c].n = 0 => rpmKey[c] = Missing
  /\ DOMAIN spent \subseteq Clients
  /\ pc \in [Requests -> Places] /\ answer \in [Requests -> Answers]
  /\ \A r \in Requests : answer[r] # "none" <=> pc[r] = "done"

MaxCost == Max(Costs)
MaxEst  == Max({job[r].est : r \in Requests})

(***************************************************************************)
(* The budget is read before the upstream call and charged after it, and   *)
(* kept in two places that do not know of each other; still a client       *)
(* overspends its limit in a period by no more than what its requests in   *)
(* flight cost, and one request more for each failed command or restart.   *)
(* (The limit is the highest since its charges began; there is no bound    *)
(* when it was lifted in the meantime.)                                    *)
(***************************************************************************)
OverspendBounded ==
  \A c \in Clients : charged[c] > 0 /\ top[c] >= 0 =>
    charged[c] <= Max({top[c] - 1, 0}) + (MaxBusy + faults) * MaxCost

(***************************************************************************)
(* What store and memory hold of a client's current period together covers *)
(* what it was charged since its budget was last reset by an update or a   *)
(* restart, but for the charges the code does lose: those of a handler     *)
(* that panics on the connection before the command is sent, and those     *)
(* that failed while a report has left the map's mutex locked; of which    *)
(* there is at most one request's for each failure.  (Together: which of   *)
(* the two is read is another matter.)                                     *)
(***************************************************************************)
ChargesKept ==
  \A c \in Clients : /\ charged[c] <= money[c] + SpentLocally(c) + unpaid[c]
                      /\ unpaid[c] <= faults * MaxCost

(***************************************************************************)
(* Until its counter begins again -- in a new minute, when its key         *)
(* expires, with the process, when the table is dropped -- a client gets   *)
(* no more than rate_limit_rpm requests through, and one more for each     *)
(* failed command.                                                         *)
(***************************************************************************)
RateHeld ==
  RPM > 0 => \A c \in Clients : passed[c] <= RPM + faults

(***************************************************************************)
(* Nor more than its tpm of tokens, however increments, refusals, refunds  *)
(* and the expiry of the key interleave, except for what refunds have put  *)
(* into a counter that never counted it.                                   *)
(***************************************************************************)
TokensHeld ==
  \A c \in Clients : TPM[c] > 0 =>
    granted[c] <= TPM[c] + late[c] + faults * MaxEst

(***************************************************************************)
(* A client that has kept silent for a whole minute is not refused for its *)
(* rate, refused requests having been counted too, unless a command has    *)
(* failed.                                                                 *)
(***************************************************************************)
SilenceForgives ==
  [][\A r \in Requests :
       pc[r] = "rpm" /\ pc'[r] # "rpm" /\ ~fits'[r]
         => now <= last[Client(r)] + 1 \/ faults' > 0]_vars

-----------------------------------------------------------------------------
(* What a test says and the code does not do. *)

(***************************************************************************)
(* TestWindowReset, "next window allowed again": a client none of whose    *)
(* requests was let through in this minute or the one before is not over   *)
(* its limit.                                                              *)
(***************************************************************************)
NextWindowAllows ==
  [][\A r \in Requests :
       pc[r] = "rpm" /\ pc'[r] # "rpm" /\ ~fits'[r]
         => now <= lastPass[Client(r)] + 1]_vars

=============================================================================
