--------------------------- MODULE AdmissionProofs ---------------------------
(***************************************************************************)
(* Theorems about Admission for any clients, limits, requests, costs,      *)
(* estimates and numbers of failing commands: types, the rate, the tokens  *)
(* and the money.  What is counted, in Redis or in the process, bounds     *)
(* what is let through; what was let through and is not yet counted is     *)
(* bounded by what is under way; and what was counted is forgotten after a *)
(* minute's silence.                                                       *)
(***************************************************************************)
EXTENDS Admission, NumberLemmas

Keys == [n : Int, exp : {Never} \cup 0 .. MaxNow + 1]
BucketKeys == {"rpm", "tpm"} \X Clients
BucketTypes == [win : Nat, n : Nat, tok : Nat]

(***************************************************************************)
(* Types of everything the bounds are about.                               *)
(***************************************************************************)
Types ==
  /\ TypeOK
  /\ rpmKey \in [Clients -> Keys] /\ tpmKey \in [Clients -> Keys]
  /\ \A c \in Clients : rpmKey[c].n >= 0
  /\ DOMAIN buckets \subseteq BucketKeys
  /\ \A k \in DOMAIN buckets : buckets[k] \in BucketTypes
  /\ \A c \in DOMAIN spent : spent[c] \in [period : Int, usd : Nat]
  /\ job \in Mixes
  /\ fits \in [Requests -> BOOLEAN] /\ stale \in [Requests -> BOOLEAN]
  /\ charged \in [Clients -> Int] /\ top \in [Clients -> Int]
  /\ passed \in [Clients -> Nat] /\ granted \in [Clients -> Nat] /\ late \in [Clients -> Nat]
  /\ last \in [Clients -> Int]

\* With a store, a verdict is in the counter of the store or in a failed command;
\* without one, in the bucket of the minute.
RateInv ==
  RPM > 0 => \A c \in Clients :
    /\ passed[c] <= RPM + faults
    /\ redis => passed[c] <= rpmKey[c].n + faults
    /\ ~redis => passed[c] <= Bucket(<<"rpm", c>>).n

\* As long as nothing has failed, a counter that is there has counted its client in
\* the minute before it expires, and one that does not expire is about to.
SilenceInv ==
  /\ \A c \in Clients : last[c] <= now
  /\ \A c \in Clients : <<"rpm", c>> \in DOMAIN buckets => buckets[<<"rpm", c>>].win <= last[c]
  /\ \A r \in Requests : pc[r] \in {"idle", "rpm"} => fits[r]
  /\ faults = 0 => \A r \in Requests : pc[r] = "rpmTtl" => last[Client(r)] = now
  /\ faults = 0 /\ redis => \A c \in Clients : rpmKey[c].n > 0 =>
       /\ now <= last[c] + 1 /\ rpmKey[c].exp <= last[c] + 1 /\ rpmKey[c].exp # 0
       /\ rpmKey[c].exp = Never => \E r \in Requests : pc[r] = "rpmTtl" /\ Client(r) = c

Inv == Types /\ RateInv /\ SilenceInv

-----------------------------------------------------------------------------
(***************************************************************************)
(* Commands, counters, buckets and the moves of a handler.                 *)
(***************************************************************************)

\* A command that does anything but succeed once is a fault.
LEMMA Faulty ==
  ASSUME faults \in 0 .. MaxFaults, NEW o, o \in Outcomes,
         Command(o) \/ (o = Plain /\ UNCHANGED faults)
  PROVE  /\ faults' \in 0 .. MaxFaults /\ faults' \in {faults, faults + 1}
         /\ o # Plain => faults' = faults + 1
         /\ o.times \in 0 .. 2 /\ o.says \in {"own", "error", "other"}
         /\ o = Plain => o.times = 1 /\ o.says = "own"
         /\ o.says = "own" => o.times >= 1
         /\ o.says = "other" => o.times = 1
<1>1. /\ o.times \in 0 .. 2 /\ o.says \in {"own", "error", "other"}
      /\ o = Plain => o.times = 1 /\ o.says = "own"
      /\ o.says = "own" => o.times >= 1
      /\ o.says = "other" => o.times = 1
  BY DEF Outcomes, Plain
<1>2. /\ faults' \in {faults, faults + 1} /\ faults' \in 0 .. MaxFaults
      /\ o # Plain => faults' = faults + 1
  BY AdmissionAssumption DEF Command
<1>3. QED
  BY <1>1, <1>2

LEMMA KeyOps ==
  ASSUME NEW key \in Keys, now \in 0 .. MaxNow
  PROVE  /\ \A d \in Int : /\ Incr(key, d) \in Keys /\ Incr(key, d).n = key.n + d
                           /\ Incr(key, d).exp = IF key = Missing THEN Never ELSE key.exp
         /\ Pexpire(key) \in Keys /\ Pexpire(key).n = key.n
         /\ Pexpire(key) = Missing <=> key = Missing
         /\ key # Missing => Pexpire(key).exp = now + 1
         /\ Missing \in Keys /\ Missing.n = 0 /\ Missing.exp = 0
<1>1. Missing \in Keys /\ Missing.n = 0 /\ Missing.exp = 0
  BY AdmissionAssumption DEF Missing, Keys, Never
<1>2. key.n \in Int /\ key.exp \in {Never} \cup 0 .. MaxNow + 1 /\ key = [n |-> key.n, exp |-> key.exp]
  BY DEF Keys
<1>3. ASSUME NEW d \in Int
      PROVE  /\ Incr(key, d) \in Keys /\ Incr(key, d).n = key.n + d
             /\ Incr(key, d).exp = IF key = Missing THEN Never ELSE key.exp
  <2> DEFINE e == IF key = Missing THEN Never ELSE key.exp
  <2>1. e \in {Never} \cup 0 .. MaxNow + 1 /\ key.n + d \in Int
    BY <1>2
  <2>2. Incr(key, d) = [key EXCEPT !.n = @ + d, !.exp = e]
    BY DEF Incr
  <2> HIDE DEF e
  <2>3. /\ Incr(key, d) \in Keys /\ Incr(key, d).n = key.n + d /\ Incr(key, d).exp = e
    BY <2>1, <2>2 DEF Keys
  <2>4. QED
    BY <2>3 DEF e
<1>4. CASE key = Missing
  BY <1>1, <1>3, <1>4 DEF Pexpire
<1>5. CASE key # Missing
  <2>1. Pexpire(key) = [n |-> key.n, exp |-> now + 1]
    BY <1>2, <1>5 DEF Pexpire
  <2>2. now + 1 \in 0 .. MaxNow + 1 /\ now + 1 # 0
    BY AdmissionAssumption
  <2>3. Pexpire(key) # Missing
    BY <2>1, <2>2 DEF Missing
  <2>4. QED
    BY <1>1, <1>2, <1>3, <1>5, <2>1, <2>2, <2>3 DEF Keys
<1>6. QED
  BY <1>4, <1>5

\* A bucket looked up.
LEMMA BucketOps ==
  ASSUME Types, NEW k \in BucketKeys
  PROVE  Bucket(k) \in BucketTypes /\ Bucket(k).win = now
<1>1. now \in Nat
  BY AdmissionAssumption DEF Types, TypeOK
<1>2. [win |-> now, n |-> 0, tok |-> 0] \in BucketTypes
  BY <1>1 DEF BucketTypes
<1>3. Bucket(k) \in BucketTypes /\ Bucket(k).win = now
  BY <1>2 DEF Bucket, Types
<1>4. QED
  BY <1>3

\* What every step of a handler does to its place and its answer.
Moves(r) ==
  /\ pc[r] # "done"
  /\ \/ \E place \in Places \ {"done"} : pc' = [pc EXCEPT ![r] = place] /\ UNCHANGED answer
     \/ /\ pc' = [pc EXCEPT ![r] = "done"]
        /\ \E how \in Answers \ {"none"} : answer' = [answer EXCEPT ![r] = how]

LEMMA MovesTypes ==
  ASSUME TypeOK, NEW r \in Requests, Moves(r)
  PROVE  /\ pc' \in [Requests -> Places] /\ answer' \in [Requests -> Answers]
         /\ \A q \in Requests : answer'[q] # "none" <=> pc'[q] = "done"
<1>1. /\ pc \in [Requests -> Places] /\ answer \in [Requests -> Answers]
      /\ \A q \in Requests : answer[q] # "none" <=> pc[q] = "done"
  BY DEF TypeOK
<1>2. CASE \E place \in Places \ {"done"} : pc' = [pc EXCEPT ![r] = place] /\ UNCHANGED answer
  BY <1>1, <1>2 DEF Moves
<1>3. ASSUME pc' = [pc EXCEPT ![r] = "done"], NEW how \in Answers \ {"none"},
             answer' = [answer EXCEPT ![r] = how]
      PROVE  /\ pc' \in [Requests -> Places] /\ answer' \in [Requests -> Answers]
             /\ \A q \in Requests : answer'[q] # "none" <=> pc'[q] = "done"
  BY <1>1, <1>3 DEF Places
<1>4. QED
  BY <1>2, <1>3 DEF Moves

\* Where the steps of a handler lead.
LEMMA Onwards ==
  ASSUME NEW r
  PROVE  /\ AfterRate(r) \in Places \ {"done"} /\ AfterChecks(r) \in Places \ {"done"}
         /\ AfterBudget(r) \in Places \ {"done"}
BY DEF AfterRate, AfterChecks, AfterBudget, Places

LEMMA HandlerMoves ==
  ASSUME NEW r \in Requests, Handler(r)
  PROVE  Moves(r)
<1>1. /\ \A place \in Places \ {"done"} : Goto(r, place) /\ pc[r] # "done" => Moves(r)
      /\ \A how \in Answers \ {"none"} : Refuse(r, how) /\ pc[r] # "done" => Moves(r)
  BY DEF Goto, Refuse, Moves
<1>2. /\ {"rpm", "rpmTtl", "tpmTtl", "refund", "upstream", "hung"} \subseteq Places \ {"done"}
      /\ {"unauthorized", "limited", "refused", "served", "failed", "aborted"}
           \subseteq Answers \ {"none"}
  BY DEF Places, Answers
<1>3. CASE Arrive(r)
  BY <1>1, <1>2, <1>3 DEF Arrive
<1>4. CASE Allow(r)
  BY <1>1, <1>2, <1>4, Onwards DEF Allow
<1>5. CASE ExpireRpm(r)
  BY <1>1, <1>2, <1>5, Onwards DEF ExpireRpm
<1>6. CASE Exceeded(r)
  BY <1>1, <1>2, <1>6, Onwards DEF Exceeded
<1>7. CASE Check(r)
  BY <1>1, <1>2, <1>7, Onwards DEF Check
<1>8. CASE AllowTokens(r)
  BY <1>1, <1>2, <1>8, Onwards DEF AllowTokens
<1>9. CASE ExpireTpm(r)
  BY <1>1, <1>2, <1>9 DEF ExpireTpm
<1>10. CASE Refund(r)
  BY <1>1, <1>2, <1>10 DEF Refund
<1>11. CASE Serve(r)
  BY <1>1, <1>2, <1>11 DEF Serve
<1>12. CASE Fail(r)
  BY <1>1, <1>2, <1>12 DEF Fail
<1>13. CASE Panics(r)
  BY <1>1, <1>2, <1>13 DEF Panics
<1>14. CASE Hangs(r)
  BY <1>1, <1>2, <1>14 DEF Hangs
<1>15. QED
  BY <1>3, <1>4, <1>5, <1>6, <1>7, <1>8, <1>9, <1>10, <1>11, <1>12, <1>13, <1>14 DEF Handler

LEMMA JobType ==
  ASSUME Types, NEW r \in Requests
  PROVE  Client(r) \in Clients /\ job[r].est \in Nat /\ job[r].chat \in BOOLEAN
BY AdmissionAssumption DEF Types, Client

\* The verdict of Allow is about its own client, or wipes what no store keeps.
LEMMA VerdictTypes ==
  ASSUME Types, NEW r \in Requests, NEW ok \in BOOLEAN, NEW wiped \in BOOLEAN, Verdict(r, ok, wiped)
  PROVE  /\ fits' \in [Requests -> BOOLEAN]
         /\ passed' \in [Clients -> Nat] /\ granted' \in [Clients -> Nat]
         /\ last' \in [Clients -> Int]
<1>1. /\ passed \in [Clients -> Nat] /\ granted \in [Clients -> Nat] /\ last \in [Clients -> Int]
      /\ fits \in [Requests -> BOOLEAN] /\ now \in Int
  BY DEF Types, TypeOK
<1>2. Forgets(wiped) \in [Clients -> Nat]
  BY <1>1 DEF Forgets
<1>3. passed' \in [Clients -> Nat]
  <2> DEFINE f == Forgets(wiped)
             n == IF ok THEN 1 ELSE 0
  <2>1. n \in Nat /\ passed' = [f EXCEPT ![Client(r)] = @ + n]
    BY DEF Verdict
  <2> HIDE DEF f, n
  <2>2. f \in [Clients -> Nat] /\ Client(r) \in Clients
    BY <1>2, JobType DEF f
  <2>3. QED
    BY <2>1, <2>2
<1>4. granted' \in [Clients -> Nat]
  BY <1>1 DEF Verdict
<1>5. QED
  BY <1>1, <1>3, <1>4 DEF Verdict

LEMMA AllowTypes ==
  ASSUME Types, NEW r \in Requests, Allow(r)
  PROVE  Types'
<1> DEFINE c == Client(r)
           k == <<"rpm", c>>
           wiped == Drops(k)
<1>0. /\ TypeOK /\ c \in Clients /\ k \in BucketKeys /\ Moves(r) /\ RPM \in Nat
      /\ fits \in [Requests -> BOOLEAN] /\ rpmKey \in [Clients -> Keys] /\ faults \in 0 .. MaxFaults
      /\ now \in 0 .. MaxNow /\ passed \in [Clients -> Nat] /\ granted \in [Clients -> Nat]
      /\ last \in [Clients -> Int]
  BY JobType, HandlerMoves, AdmissionAssumption DEF Types, TypeOK, BucketKeys, Handler
<1>1. /\ pc' \in [Requests -> Places] /\ answer' \in [Requests -> Answers]
      /\ \A q \in Requests : answer'[q] # "none" <=> pc'[q] = "done"
  BY <1>0, MovesTypes
<1>2. UNCHANGED <<redis, now, money, tpmKey, known, limit, spent, held, charged, unpaid, top,
                  late, job, stale>>
  BY DEF Allow
<1>3. CASE UNCHANGED <<rpmKey, buckets, fits, passed, granted, last, lastPass, faults>>
  BY <1>1, <1>2, <1>3 DEF Types, TypeOK
<1>4. CASE RPM > 0 /\ ~UNCHANGED <<rpmKey, buckets, fits, passed, granted, last, lastPass, faults>>
  <2>1. PICK o \in Outcomes :
          /\ IF redis THEN Command(o) ELSE o = Plain /\ UNCHANGED faults
          /\ rpmKey' = IF redis /\ o.times > 0
                       THEN [rpmKey EXCEPT ![c] = Incr(@, o.times)] ELSE rpmKey
          /\ IF Locally(o)
             THEN /\ buckets' = With(IF wiped THEN <<>> ELSE buckets, k,
                                     [Bucket(k) EXCEPT !.n = @ + 1])
                  /\ Verdict(r, Bucket(k).n + 1 <= RPM, wiped)
             ELSE /\ \E n \in Reads(o, rpmKey'[c].n) : Verdict(r, n <= RPM, FALSE)
                  /\ UNCHANGED buckets
    BY <1>4 DEF Allow
  <2>2. faults' \in 0 .. MaxFaults /\ o.times \in 0 .. 2
    BY <1>0, <2>1, Faulty
  <2>3. /\ rpmKey' \in [Clients -> Keys]
        /\ \A x \in Clients : rpmKey'[x].n >= 0 /\ (rpmKey'[x].n = 0 => rpmKey'[x] = Missing)
    <3>1. \A x \in Clients : rpmKey[x].n >= 0 /\ (rpmKey[x].n = 0 => rpmKey[x] = Missing)
      BY DEF Types, TypeOK
    <3>2. CASE rpmKey' = rpmKey
      BY <1>0, <3>1, <3>2
    <3>3. CASE o.times > 0 /\ rpmKey' = [rpmKey EXCEPT ![c] = Incr(@, o.times)]
      <4>1. /\ rpmKey[c] \in Keys /\ rpmKey[c].n \in Int
            /\ Incr(rpmKey[c], o.times) \in Keys
            /\ Incr(rpmKey[c], o.times).n = rpmKey[c].n + o.times
        <5>1. rpmKey[c] \in Keys /\ o.times \in Int
          BY <1>0, <2>2
        <5>2. rpmKey[c].n \in Int
          BY <5>1 DEF Keys
        <5>3. QED
          BY <1>0, <5>1, <5>2, KeyOps
      <4>2. QED
        BY <1>0, <2>2, <3>1, <3>3, <4>1
    <3>4. QED
      BY <2>1, <3>2, <3>3
  <2>4. DOMAIN buckets' \subseteq BucketKeys /\ \A x \in DOMAIN buckets' : buckets'[x] \in BucketTypes
    <3>1. Bucket(k) \in BucketTypes
      BY <1>0, BucketOps
    <3>2. [Bucket(k) EXCEPT !.n = @ + 1] \in BucketTypes
      BY <3>1 DEF BucketTypes
    <3>3. CASE Locally(o)
      <4> DEFINE table == IF wiped THEN <<>> ELSE buckets
      <4>1. /\ DOMAIN table \subseteq BucketKeys
            /\ \A x \in DOMAIN table : table[x] \in BucketTypes
        BY DEF Types
      <4>2. buckets' = With(table, k, [Bucket(k) EXCEPT !.n = @ + 1])
        BY <2>1, <3>3
      <4> DEFINE b == [Bucket(k) EXCEPT !.n = @ + 1]
      <4> HIDE DEF table, b
      <4>3. /\ DOMAIN With(table, k, b) = DOMAIN table \cup {k}
            /\ With(table, k, b)[k] = b
            /\ \A x \in DOMAIN table : x # k => With(table, k, b)[x] = table[x]
        BY DEF With
      <4>4. b \in BucketTypes /\ buckets' = With(table, k, b)
        BY <3>2, <4>2 DEF b
      <4>5. QED
        BY <1>0, <4>1, <4>3, <4>4
    <3>4. CASE ~Locally(o)
      BY <2>1, <3>4 DEF Types
    <3>5. QED
      BY <3>3, <3>4
  <2>5. /\ fits' \in [Requests -> BOOLEAN]
        /\ passed' \in [Clients -> Nat] /\ granted' \in [Clients -> Nat]
        /\ last' \in [Clients -> Int]
    <3>1. wiped \in BOOLEAN
      BY DEF Drops
    <3>2. \E ok \in BOOLEAN, w \in BOOLEAN : Verdict(r, ok, w)
      <4>1. CASE Locally(o)
        <5>1. Verdict(r, Bucket(k).n + 1 <= RPM, wiped)
          BY <2>1, <4>1
        <5>2. (Bucket(k).n + 1 <= RPM) \in BOOLEAN
          OBVIOUS
        <5>3. QED
          BY <3>1, <5>1, <5>2, Zenon
      <4>2. CASE ~Locally(o)
        <5>1. PICK n \in Reads(o, rpmKey'[c].n) : Verdict(r, n <= RPM, FALSE)
          BY <2>1, <4>2
        <5>2. (n <= RPM) \in BOOLEAN /\ FALSE \in BOOLEAN
          OBVIOUS
        <5>3. QED
          BY <5>1, <5>2, Zenon
      <4>3. QED
        BY <4>1, <4>2
    <3>3. QED
      BY <3>2, VerdictTypes
  <2>6. QED
    BY <1>1, <1>2, <2>2, <2>3, <2>4, <2>5 DEF Types, TypeOK, CounterOK, Keys
<1>5. QED
  BY <1>3, <1>4 DEF Allow

\* The steps of a handler that touch no counter but, if at all, one command's keys.
LEMMA StepTypes ==
  ASSUME Types, NEW r \in Requests,
         Arrive(r) \/ ExpireRpm(r) \/ Exceeded(r) \/ Check(r) \/ Fail(r) \/ ExpireTpm(r)
  PROVE  Types'
<1>0. /\ TypeOK /\ Client(r) \in Clients /\ Moves(r)
      /\ rpmKey \in [Clients -> Keys] /\ tpmKey \in [Clients -> Keys]
      /\ faults \in 0 .. MaxFaults /\ now \in 0 .. MaxNow
  BY JobType, HandlerMoves DEF Types, TypeOK, Handler
<1>1. /\ pc' \in [Requests -> Places] /\ answer' \in [Requests -> Answers]
      /\ \A q \in Requests : answer'[q] # "none" <=> pc'[q] = "done"
  BY <1>0, MovesTypes
<1>2. UNCHANGED <<redis, now, money, memVars, histVars, job, fits, stale>>
  BY DEF Arrive, ExpireRpm, Exceeded, Check, Fail, ExpireTpm, storeVars
<1>3. faults' \in 0 .. MaxFaults
  <2>1. UNCHANGED faults \/ \E o \in Outcomes : Command(o)
    BY DEF Arrive, ExpireRpm, Exceeded, Check, Fail, ExpireTpm, Command
  <2>2. QED
    BY <1>0, <2>1, Faulty
<1>4. /\ rpmKey' = rpmKey \/ rpmKey' = [rpmKey EXCEPT ![Client(r)] = Pexpire(@)]
      /\ tpmKey' = tpmKey \/ tpmKey' = [tpmKey EXCEPT ![Client(r)] = Pexpire(@)]
  BY DEF Arrive, ExpireRpm, Exceeded, Check, Fail, ExpireTpm, storeVars
<1>5. \A key \in Keys : /\ Pexpire(key) \in Keys /\ Pexpire(key).n = key.n
                        /\ Pexpire(key) = Missing <=> key = Missing
  BY <1>0, KeyOps
<1>6. /\ rpmKey' \in [Clients -> Keys] /\ tpmKey' \in [Clients -> Keys]
      /\ \A c \in Clients : rpmKey'[c].n >= 0 /\ (rpmKey'[c].n = 0 => rpmKey'[c] = Missing)
  <2>1. \A c \in Clients : rpmKey[c].n >= 0 /\ (rpmKey[c].n = 0 => rpmKey[c] = Missing)
    BY DEF Types, TypeOK
  <2>2. /\ rpmKey' \in [Clients -> Keys] /\ tpmKey' \in [Clients -> Keys]
        /\ \A c \in Clients : \/ rpmKey'[c] = rpmKey[c]
                              \/ rpmKey'[c] = Pexpire(rpmKey[c]) /\ rpmKey[c] \in Keys
    BY <1>0, <1>4, <1>5
  <2>3. QED
    BY <1>5, <2>1, <2>2
<1>7. QED
  BY <1>1, <1>2, <1>3, <1>6 DEF Types, TypeOK, CounterOK, Keys, memVars, histVars

LEMMA TokenTypes ==
  ASSUME Types, NEW r \in Requests, AllowTokens(r) \/ Refund(r)
  PROVE  Types'
<1> DEFINE c   == Client(r)
           est == job[r].est
           k   == <<"tpm", c>>
<1>0. /\ TypeOK /\ c \in Clients /\ est \in Nat /\ k \in BucketKeys /\ Moves(r)
      /\ tpmKey \in [Clients -> Keys] /\ faults \in 0 .. MaxFaults /\ now \in 0 .. MaxNow
      /\ fits \in [Requests -> BOOLEAN] /\ stale \in [Requests -> BOOLEAN]
      /\ granted \in [Clients -> Nat] /\ late \in [Clients -> Nat] /\ TPM[c] \in Nat
  BY JobType, HandlerMoves, AdmissionAssumption DEF Types, TypeOK, Handler, BucketKeys
<1>1. /\ pc' \in [Requests -> Places] /\ answer' \in [Requests -> Answers]
      /\ \A q \in Requests : answer'[q] # "none" <=> pc'[q] = "done"
  BY <1>0, MovesTypes
<1>2. UNCHANGED <<redis, now, money, rpmKey, known, limit, spent, held, charged, unpaid, top,
                  passed, last, job>>
  BY DEF AllowTokens, Refund, memVars
<1>3. \A d \in Int : Incr(tpmKey[c], d) \in Keys
  BY <1>0, KeyOps
<1>4. CASE AllowTokens(r)
  <2>1. late' = late /\ stale' \in [Requests -> BOOLEAN]
    BY <1>0, <1>4 DEF AllowTokens
  <2>2. CASE UNCHANGED <<tpmKey, buckets, fits, granted, faults>>
    BY <1>1, <1>2, <2>1, <2>2 DEF Types, TypeOK
  <2>3. CASE ~UNCHANGED <<tpmKey, buckets, fits, granted, faults>>
    <3>1. PICK o \in Outcomes :
            /\ IF redis THEN Command(o) ELSE o = Plain /\ UNCHANGED faults
            /\ tpmKey' = IF redis /\ o.times > 0
                         THEN [tpmKey EXCEPT ![c] = Incr(@, o.times * est)] ELSE tpmKey
            /\ IF Locally(o)
               THEN LET ok == Bucket(k).tok + est <= TPM[c] IN
                    /\ buckets' = With(buckets, k,
                                       IF ok THEN [Bucket(k) EXCEPT !.tok = @ + est] ELSE Bucket(k))
                    /\ Grant(r, ok)
               ELSE /\ \E n \in Reads(o, tpmKey'[c].n) : Grant(r, n <= TPM[c])
                    /\ UNCHANGED buckets
      BY <1>4, <2>3 DEF AllowTokens
    <3>2. faults' \in 0 .. MaxFaults /\ o.times \in 0 .. 2
      BY <1>0, <3>1, Faulty
    <3>3. tpmKey' \in [Clients -> Keys]
      <4>1. o.times * est \in Int
        BY <1>0, <3>2
      <4>2. QED
        BY <1>0, <1>3, <3>1, <4>1
    <3>4. \E ok \in BOOLEAN : Grant(r, ok)
      <4>1. CASE Locally(o)
        <5>1. Grant(r, Bucket(k).tok + est <= TPM[c]) /\ (Bucket(k).tok + est <= TPM[c]) \in BOOLEAN
          BY <3>1, <4>1
        <5>2. QED
          BY <5>1, Zenon
      <4>2. CASE ~Locally(o)
        <5>1. PICK n \in Reads(o, tpmKey'[c].n) : Grant(r, n <= TPM[c])
          BY <3>1, <4>2
        <5>2. (n <= TPM[c]) \in BOOLEAN
          OBVIOUS
        <5>3. QED
          BY <5>1, <5>2, Zenon
      <4>3. QED
        BY <4>1, <4>2
    <3>5. fits' \in [Requests -> BOOLEAN] /\ granted' \in [Clients -> Nat]
      <4>1. PICK ok \in BOOLEAN : Grant(r, ok)
        BY <3>4
      <4>2. fits' \in [Requests -> BOOLEAN]
        BY <1>0, <4>1 DEF Grant
      <4>3. granted' = granted \/ granted' = [granted EXCEPT ![c] = @ + est] \/ granted' = [granted EXCEPT ![c] = @ + 0]
        BY <4>1 DEF Grant
      <4>4. granted' \in [Clients -> Nat]
        BY <1>0, <4>3
      <4>5. QED
        BY <4>2, <4>4
    <3>6. DOMAIN buckets' \subseteq BucketKeys /\ \A x \in DOMAIN buckets' : buckets'[x] \in BucketTypes
      <4>1. Bucket(k) \in BucketTypes
        BY <1>0, BucketOps
      <4> DEFINE b == IF Bucket(k).tok + est <= TPM[c]
                      THEN [Bucket(k) EXCEPT !.tok = @ + est] ELSE Bucket(k)
      <4>2. b \in BucketTypes
        BY <1>0, <4>1 DEF BucketTypes
      <4>3. UNCHANGED buckets \/ buckets' = With(buckets, k, b)
        BY <3>1
      <4> HIDE DEF b
      <4>4. QED
        BY <1>0, <4>2, <4>3 DEF With, Types
    <3>7. QED
      BY <1>1, <1>2, <2>1, <3>2, <3>3, <3>5, <3>6 DEF Types, TypeOK, CounterOK, Keys
  <2>4. QED
    BY <2>2, <2>3
<1>5. CASE Refund(r)
  <2>1. PICK o \in Outcomes :
          /\ Command(o)
          /\ tpmKey' = IF o.times > 0
                       THEN [tpmKey EXCEPT ![c] = Incr(@, -(o.times * est))] ELSE tpmKey
          /\ late' = IF stale[r] /\ o.times > 0 THEN [late EXCEPT ![c] = @ + est] ELSE late
    BY <1>5 DEF Refund
  <2>2. faults' \in 0 .. MaxFaults /\ o.times \in 0 .. 2
    BY <1>0, <2>1, Faulty
  <2>3. -(o.times * est) \in Int
    BY <1>0, <2>2
  <2>4. tpmKey' \in [Clients -> Keys] /\ late' \in [Clients -> Nat]
    BY <1>0, <1>3, <2>1, <2>3
  <2>5. UNCHANGED <<buckets, granted, fits, stale>>
    BY <1>5 DEF Refund, memVars
  <2>6. QED
    BY <1>1, <1>2, <2>2, <2>4, <2>5 DEF Types, TypeOK, CounterOK, Keys
<1>6. QED
  BY <1>4, <1>5

LEMMA ServeTypes ==
  ASSUME Types, NEW r \in Requests, Serve(r)
  PROVE  /\ Types'
         /\ \E usd \in Costs, o \in Outcomes :
              IF limit[Client(r)] < 0 \/ usd = 0
              THEN UNCHANGED <<money, spent, charged, faults>>
              ELSE /\ IF redis THEN Command(o) ELSE o = Plain /\ UNCHANGED faults
                   /\ money' = IF redis THEN [money EXCEPT ![Client(r)] = @ + o.times * usd]
                               ELSE money
                   /\ spent' = IF Locally(o) THEN AddLocally(Client(r), usd) ELSE spent
                   /\ charged' = [charged EXCEPT ![Client(r)] = @ + usd]
<1> DEFINE c == Client(r)
<1>0. /\ TypeOK /\ c \in Clients /\ Moves(r)
      /\ faults \in 0 .. MaxFaults /\ now \in 0 .. MaxNow
      /\ money \in [Clients -> Nat] /\ charged \in [Clients -> Int]
  BY JobType, HandlerMoves DEF Types, TypeOK, Handler
<1>1. /\ pc' \in [Requests -> Places] /\ answer' \in [Requests -> Answers]
      /\ \A q \in Requests : answer'[q] # "none" <=> pc'[q] = "done"
  BY <1>0, MovesTypes
<1>2. UNCHANGED <<redis, now, rpmKey, tpmKey, known, limit, buckets, held, unpaid, top, passed,
                  granted, late, last, lastPass, job, fits, stale>>
  BY DEF Serve
<1>3. PICK usd \in Costs, o \in Outcomes :
        IF limit[c] < 0 \/ usd = 0
        THEN UNCHANGED <<money, spent, charged, faults>>
        ELSE /\ IF redis THEN Command(o) ELSE o = Plain /\ UNCHANGED faults
             /\ money' = IF redis THEN [money EXCEPT ![c] = @ + o.times * usd] ELSE money
             /\ spent' = IF Locally(o) THEN AddLocally(c, usd) ELSE spent
             /\ charged' = [charged EXCEPT ![c] = @ + usd]
  BY DEF Serve
<1>4. Types'
  <2>1. CASE UNCHANGED <<money, spent, charged, faults>>
    BY <1>1, <1>2, <2>1 DEF Types, TypeOK
  <2>2. CASE ~UNCHANGED <<money, spent, charged, faults>>
    <3>1. faults' \in 0 .. MaxFaults /\ o.times \in 0 .. 2 /\ usd \in Nat
      BY <1>0, <1>3, <2>2, Faulty, AdmissionAssumption
    <3>2. o.times * usd \in Nat
      BY <3>1
    <3>3. money' \in [Clients -> Nat] /\ charged' \in [Clients -> Int]
      BY <1>0, <1>3, <2>2, <3>1, <3>2
    <3>4. SpentLocally(c) \in Nat /\ Period(now) \in Int
      BY <1>0, AdmissionAssumption DEF SpentLocally, Types, Period
    <3>5. DOMAIN spent' \subseteq Clients /\ \A x \in DOMAIN spent' : spent'[x] \in [period : Int, usd : Nat]
      <4> DEFINE s == [period |-> Period(now), usd |-> SpentLocally(c) + usd]
      <4>1. s \in [period : Int, usd : Nat]
        BY <3>1, <3>4
      <4>2. spent' = spent \/ spent' = With(spent, c, s)
        BY <1>3, <2>2 DEF AddLocally
      <4> HIDE DEF s
      <4>3. QED
        BY <1>0, <4>1, <4>2 DEF With, Types, TypeOK
    <3>6. QED
      BY <1>1, <1>2, <3>1, <3>3, <3>5 DEF Types, TypeOK
  <2>3. QED
    BY <2>1, <2>2
<1>5. QED
  BY <1>3, <1>4

\* Types of the operator's and the environment's steps.
LEMMA OtherTypes ==
  ASSUME Types,
         \/ \E c \in Clients : UpdateLimit(c) \/ GenerateToken(c) \/ ExpireKey(c)
         \/ ReportPanics \/ Tick \/ Restart \/ UNCHANGED vars
  PROVE  Types'
<1>0. /\ TypeOK /\ rpmKey \in [Clients -> Keys] /\ tpmKey \in [Clients -> Keys]
      /\ charged \in [Clients -> Int] /\ top \in [Clients -> Int] /\ limit \in [Clients -> Int]
      /\ passed \in [Clients -> Nat] /\ granted \in [Clients -> Nat] /\ late \in [Clients -> Nat]
      /\ now \in 0 .. MaxNow /\ faults \in 0 .. MaxFaults /\ MaxNow \in Nat /\ MaxFaults \in Nat
      /\ stale \in [Requests -> BOOLEAN] /\ pc \in [Requests -> Places]
      /\ answer \in [Requests -> Answers]
      /\ \A c \in Clients : Limit[c] \in Int
  BY AdmissionAssumption DEF Types, TypeOK
<1>1. \A c \in Clients : SpentLocally(c) \in Int
  BY DEF SpentLocally, Types
<1>2. Missing \in Keys /\ Missing.n = 0
  BY <1>0 DEF Missing, Keys, Never
<1>3. \A c \in Clients : Forget(c) \in Int
  BY <1>0, <1>1 DEF Forget
<1>4. \A a, b \in Int : Higher(a, b) \in Int
  BY DEF Higher
<1>5. ASSUME NEW c \in Clients, UpdateLimit(c) PROVE Types'
  <2>1. PICK l \in NewLimits[c], exact \in BOOLEAN :
          LET rest == IF exact THEN Forget(c) ELSE charged[c] IN
          /\ limit' = [limit EXCEPT ![c] = l]
          /\ spent' = IF exact THEN Restrict(spent, DOMAIN spent \ {c}) ELSE spent
          /\ charged' = [charged EXCEPT ![c] = rest]
          /\ top' = [top EXCEPT ![c] = IF rest = 0 THEN l ELSE Higher(@, l)]
    BY <1>5 DEF UpdateLimit
  <2>2. l \in Int
    BY AdmissionAssumption
  <2>3. UNCHANGED <<redis, now, storeVars, known, buckets, held, unpaid, passed, granted, late,
                    last, lastPass, reqVars, faults>>
    BY <1>5 DEF UpdateLimit
  <2> DEFINE rest == IF exact THEN Forget(c) ELSE charged[c]
             t    == IF rest = 0 THEN l ELSE Higher(top[c], l)
  <2>4. rest \in Int
    BY <1>0, <1>3
  <2>5. t \in Int
    BY <1>0, <1>4, <2>2
  <2>6. top' = [top EXCEPT ![c] = t] /\ charged' = [charged EXCEPT ![c] = rest]
    BY <2>1
  <2> HIDE DEF rest, t
  <2>7. limit' \in [Clients -> Int] /\ charged' \in [Clients -> Int] /\ top' \in [Clients -> Int]
    BY <1>0, <2>1, <2>2, <2>4, <2>5, <2>6
  <2>8. DOMAIN spent' \subseteq Clients /\ \A x \in DOMAIN spent' : spent'[x] \in [period : Int, usd : Nat]
    BY <2>1 DEF Restrict, Types, TypeOK
  <2>9. QED
    BY <2>3, <2>7, <2>8 DEF Types, TypeOK, storeVars, reqVars
<1>6. ASSUME NEW c \in Clients, GenerateToken(c) PROVE Types'
  BY <1>6 DEF GenerateToken, Types, TypeOK, storeVars, histVars, reqVars
<1>7. ASSUME NEW c \in Clients, ExpireKey(c) PROVE Types'
  <2>1. CASE /\ rpmKey' = [rpmKey EXCEPT ![c] = Missing]
             /\ passed' = IF redis THEN [passed EXCEPT ![c] = 0] ELSE passed
             /\ UNCHANGED <<redis, now, money, tpmKey, memVars, charged, unpaid, top, granted, late,
                            last, lastPass, reqVars, faults>>
    <3>1. rpmKey' \in [Clients -> Keys] /\ passed' \in [Clients -> Nat]
      BY <1>0, <1>2, <2>1
    <3>2. \A x \in Clients : rpmKey'[x].n >= 0 /\ (rpmKey'[x].n = 0 => rpmKey'[x] = Missing)
      BY <1>0, <1>2, <2>1 DEF Types, TypeOK
    <3>3. QED
      BY <2>1, <3>1, <3>2 DEF Types, TypeOK, CounterOK, Keys, memVars, reqVars
  <2>2. CASE /\ tpmKey' = [tpmKey EXCEPT ![c] = Missing]
             /\ granted' = IF redis THEN [granted EXCEPT ![c] = 0] ELSE granted
             /\ late' = [late EXCEPT ![c] = 0]
             /\ stale' = [r \in Requests |-> stale[r] \/ Client(r) = c]
             /\ UNCHANGED <<redis, now, money, rpmKey, memVars, charged, unpaid, top, passed, last,
                            lastPass, job, pc, fits, answer, faults>>
    <3>1. tpmKey' \in [Clients -> Keys] /\ granted' \in [Clients -> Nat] /\ late' \in [Clients -> Nat]
      BY <1>0, <1>2, <2>2
    <3>2. stale' \in [Requests -> BOOLEAN]
      BY <1>0, <2>2
    <3>3. QED
      BY <2>2, <3>1, <3>2 DEF Types, TypeOK, CounterOK, Keys, memVars
  <2>3. QED
    BY <1>7, <2>1, <2>2 DEF ExpireKey
<1>8. CASE Tick
  <2>1. /\ now' \in 0 .. MaxNow
        /\ money' \in [Clients -> Nat] /\ charged' \in [Clients -> Int] /\ top' \in [Clients -> Int]
        /\ passed' \in [Clients -> Nat] /\ granted' \in [Clients -> Nat]
        /\ unpaid' \in [Clients -> Nat]
    BY <1>0, <1>8 DEF Tick, TypeOK
  <2>2. UNCHANGED <<redis, rpmKey, tpmKey, known, limit, spent, buckets, held, late, last, job, pc,
                    fits, stale, answer, faults>>
    BY <1>8 DEF Tick, memVars, reqVars
  <2>3. TypeOK'
    <3>1. \A c \in Clients : CounterOK(rpmKey[c])' /\ CounterOK(tpmKey[c])'
      BY <2>2 DEF Types, TypeOK, CounterOK
    <3>2. \A c \in Clients : rpmKey'[c].n = 0 => rpmKey'[c] = Missing
      BY <2>2 DEF Types, TypeOK
    <3>3. /\ redis' \in BOOLEAN /\ held' \in BOOLEAN /\ faults' \in 0 .. MaxFaults
          /\ known' \subseteq Clients /\ DOMAIN spent' \subseteq Clients
          /\ limit' \in [Clients -> Int]
          /\ pc' \in [Requests -> Places] /\ answer' \in [Requests -> Answers]
          /\ \A r \in Requests : answer'[r] # "none" <=> pc'[r] = "done"
      <4>1. /\ redis \in BOOLEAN /\ held \in BOOLEAN /\ faults \in 0 .. MaxFaults
            /\ known \subseteq Clients /\ DOMAIN spent \subseteq Clients
            /\ limit \in [Clients -> Int]
            /\ pc \in [Requests -> Places] /\ answer \in [Requests -> Answers]
            /\ \A r \in Requests : answer[r] # "none" <=> pc[r] = "done"
        BY <1>0, Zenon DEF TypeOK
      <4>2. /\ redis' = redis /\ held' = held /\ faults' = faults /\ known' = known /\ spent' = spent
            /\ limit' = limit /\ pc' = pc /\ answer' = answer
        BY <2>2
      <4>3. QED
        BY <4>1, <4>2, Zenon
    <3>4. QED
      BY <2>1, <3>1, <3>2, <3>3, Zenon DEF TypeOK
  <2>4. QED
    BY <2>1, <2>2, <2>3 DEF Types
<1>9. CASE Restart
  <2>1. /\ redis' \in BOOLEAN /\ faults' \in 0 .. MaxFaults /\ known' \subseteq Clients
        /\ spent' = <<>> /\ buckets' = <<>> /\ held' \in BOOLEAN
        /\ unpaid' \in [Clients -> Nat]
        /\ UNCHANGED <<now, storeVars, late, last, lastPass, job, fits, stale>>
    <3>1. /\ faults < MaxFaults /\ faults' = faults + 1 /\ redis' \in BOOLEAN
          /\ known' = Clients \ Late /\ spent' = <<>> /\ buckets' = <<>> /\ held' = FALSE
          /\ UNCHANGED <<now, storeVars, late, last, lastPass, job, fits, stale>>
          /\ unpaid' = [c \in Clients |-> IF redis /\ redis' THEN unpaid[c] ELSE 0]
      BY <1>9, Zenon DEF Restart
    <3>2. unpaid \in [Clients -> Nat]
      BY <1>0, Zenon DEF TypeOK
    <3>3. unpaid' \in [Clients -> Nat]
      BY <3>1, <3>2
    <3>4. faults' \in 0 .. MaxFaults
      BY <1>0, <3>1
    <3>5. known' \subseteq Clients /\ held' \in BOOLEAN
      BY <3>1, Zenon
    <3>6. QED
      BY <3>1, <3>3, <3>4, <3>5, Zenon
  <2>2. limit' \in [Clients -> Int]
    BY <1>0, <1>9 DEF Restart, Normal, Unlimited
  <2>3. /\ pc' \in [Requests -> Places] /\ answer' \in [Requests -> Answers]
        /\ \A r \in Requests : answer'[r] # "none" <=> pc'[r] = "done"
    <3>1. /\ pc' = [r \in Requests |-> IF r \in Busy THEN "done" ELSE pc[r]]
          /\ answer' = [r \in Requests |-> IF r \in Busy THEN "died" ELSE answer[r]]
      BY <1>9 DEF Restart
    <3>2. \A r \in Requests : answer[r] # "none" <=> pc[r] = "done"
      BY <1>0 DEF TypeOK
    <3>3. QED
      BY <1>0, <3>1, <3>2 DEF Places, Answers
  <2>4. /\ charged' \in [Clients -> Int] /\ passed' \in [Clients -> Nat] /\ granted' \in [Clients -> Nat]
    BY <1>0, <1>3, <1>9 DEF Restart
  <2>5. top' \in [Clients -> Int]
    BY <1>0, <1>4, <1>9, <2>2 DEF Restart
  <2>6. /\ rpmKey' = rpmKey /\ tpmKey' = tpmKey /\ money' = money /\ now' = now
        /\ late' = late /\ last' = last /\ job' = job /\ fits' = fits /\ stale' = stale
    BY <2>1 DEF storeVars
  <2>7. DOMAIN spent' = {} /\ DOMAIN buckets' = {}
    BY <2>1
  <2>8. TypeOK'
    BY <1>0, <2>1, <2>2, <2>3, <2>6, <2>7 DEF TypeOK, CounterOK
  <2>9. /\ \A x \in Clients : rpmKey'[x].n >= 0
        /\ job' \in Mixes /\ fits' \in [Requests -> BOOLEAN] /\ stale' \in [Requests -> BOOLEAN]
        /\ last' \in [Clients -> Int]
    BY <2>6 DEF Types
  <2>10. /\ DOMAIN buckets' \subseteq BucketKeys
         /\ \A k \in DOMAIN buckets' : buckets'[k] \in BucketTypes
         /\ \A c \in DOMAIN spent' : spent'[c] \in [period : Int, usd : Nat]
    BY <2>7
  <2>11. QED
    BY <1>0, <2>4, <2>5, <2>6, <2>8, <2>9, <2>10 DEF Types
<1>10. CASE UNCHANGED vars
  BY <1>10 DEF vars, storeVars, memVars, histVars, reqVars, Types, TypeOK
<1>11. CASE ReportPanics
  BY <1>11 DEF ReportPanics, storeVars, histVars, reqVars, Types, TypeOK
<1>12. QED
  BY <1>5, <1>6, <1>7, <1>8, <1>9, <1>10, <1>11

\* A panic by what it does to each of the stores: the command may have been applied,
\* and only the upstream's charge moves money.
LEMMA Panicking ==
  ASSUME Types, NEW r \in Requests, Panics(r), NEW c \in Clients, c = Client(r)
  PROVE  /\ redis /\ faults' = faults + 1 /\ faults' \in 0 .. MaxFaults
         /\ pc[r] \notin {"idle", "done", "hung"} /\ pc'[r] = "done"
         /\ UNCHANGED <<redis, now, memVars, top, passed, granted, last, lastPass, job, fits, stale>>
         /\ rpmKey' \in [Clients -> Keys] /\ tpmKey' \in [Clients -> Keys]
         /\ \A x \in Clients : rpmKey'[x].n >= rpmKey[x].n /\ (rpmKey'[x].n = 0 => rpmKey'[x] = Missing)
         /\ \A x \in Clients \ {c} : tpmKey'[x] = tpmKey[x] /\ late'[x] = late[x]
         /\ pc[r] # "refund" => late' = late /\ tpmKey'[c].n >= tpmKey[c].n
         /\ pc[r] = "refund" => \E times \in 0 .. 2 :
              /\ tpmKey' = IF times > 0 THEN [tpmKey EXCEPT ![c] = Incr(@, -(times * job[r].est))]
                           ELSE tpmKey
              /\ late' = IF stale[r] /\ times > 0 THEN [late EXCEPT ![c] = @ + job[r].est] ELSE late
         /\ pc[r] # "upstream" => UNCHANGED <<money, charged, unpaid>>
         /\ pc[r] = "upstream" => \E times \in 0 .. 2, usd \in Costs :
              /\ money' = [money EXCEPT ![c] = @ + times * usd]
              /\ charged' = [charged EXCEPT ![c] = @ + usd]
              /\ unpaid' = IF times = 0 THEN [unpaid EXCEPT ![c] = @ + usd] ELSE unpaid
<1> DEFINE est == job[r].est
<1>0. /\ est \in Nat /\ pc \in [Requests -> Places] /\ faults \in 0 .. MaxFaults /\ MaxFaults \in Nat
      /\ rpmKey \in [Clients -> Keys] /\ tpmKey \in [Clients -> Keys]
      /\ now \in 0 .. MaxNow
  BY JobType, AdmissionAssumption DEF Types, TypeOK
<1>1. /\ redis /\ faults' = faults + 1 /\ faults' \in 0 .. MaxFaults
      /\ pc' = [pc EXCEPT ![r] = "done"]
      /\ UNCHANGED <<redis, now, memVars, top, passed, granted, last, lastPass, job, fits, stale>>
  BY <1>0 DEF Panics, Refuse
<1>2. PICK times \in 0 .. 2 :
        \/ /\ pc[r] = "rpm"
           /\ rpmKey' = IF times > 0 THEN [rpmKey EXCEPT ![c] = Incr(rpmKey[c], times)] ELSE rpmKey
           /\ UNCHANGED <<money, tpmKey, charged, unpaid, late>>
        \/ /\ pc[r] = "rpmTtl"
           /\ rpmKey' = IF times > 0 THEN [rpmKey EXCEPT ![c] = Pexpire(rpmKey[c])] ELSE rpmKey
           /\ UNCHANGED <<money, tpmKey, charged, unpaid, late>>
        \/ /\ pc[r] = "budget" /\ UNCHANGED <<money, rpmKey, tpmKey, charged, unpaid, late>>
        \/ /\ pc[r] = "tpm"
           /\ tpmKey' = IF times > 0 THEN [tpmKey EXCEPT ![c] = Incr(tpmKey[c], times * est)]
                        ELSE tpmKey
           /\ UNCHANGED <<money, rpmKey, charged, unpaid, late>>
        \/ /\ pc[r] = "tpmTtl"
           /\ tpmKey' = IF times > 0 THEN [tpmKey EXCEPT ![c] = Pexpire(tpmKey[c])] ELSE tpmKey
           /\ UNCHANGED <<money, rpmKey, charged, unpaid, late>>
        \/ /\ pc[r] = "refund"
           /\ tpmKey' = IF times > 0 THEN [tpmKey EXCEPT ![c] = Incr(tpmKey[c], -(times * est))]
                        ELSE tpmKey
           /\ late' = IF stale[r] /\ times > 0 THEN [late EXCEPT ![c] = @ + est] ELSE late
           /\ UNCHANGED <<money, rpmKey, charged, unpaid>>
        \/ /\ pc[r] = "upstream"
           /\ \E usd \in Costs :
                /\ money' = [money EXCEPT ![c] = @ + times * usd]
                /\ charged' = [charged EXCEPT ![c] = @ + usd]
                /\ unpaid' = IF times = 0 THEN [unpaid EXCEPT ![c] = @ + usd] ELSE unpaid
           /\ UNCHANGED <<rpmKey, tpmKey, late>>
  BY DEF Panics, storeVars
<1>3. /\ rpmKey[c] \in Keys /\ tpmKey[c] \in Keys /\ rpmKey[c].n \in Int /\ tpmKey[c].n \in Int
      /\ \A x \in Clients : /\ rpmKey[x].n \in Int /\ rpmKey[x].n >= 0
                            /\ rpmKey[x].n = 0 => rpmKey[x] = Missing
  BY <1>0 DEF Keys, Types, TypeOK
<1>4. /\ times * est \in Nat /\ -(times * est) \in Int /\ times \in Int
  BY <1>0
<1>5. \A key \in Keys :
        /\ \A d \in Int : Incr(key, d) \in Keys /\ Incr(key, d).n = key.n + d
        /\ Pexpire(key) \in Keys /\ Pexpire(key).n = key.n /\ (Pexpire(key) = Missing <=> key = Missing)
  BY <1>0, KeyOps
<1>6. /\ Incr(rpmKey[c], times) \in Keys /\ Incr(rpmKey[c], times).n = rpmKey[c].n + times
      /\ Incr(tpmKey[c], times * est) \in Keys
      /\ Incr(tpmKey[c], times * est).n = tpmKey[c].n + times * est
      /\ Incr(tpmKey[c], -(times * est)) \in Keys
  <2>1. times * est \in Int
    BY <1>4
  <2>2. \A d \in Int : /\ Incr(rpmKey[c], d) \in Keys /\ Incr(rpmKey[c], d).n = rpmKey[c].n + d
                       /\ Incr(tpmKey[c], d) \in Keys /\ Incr(tpmKey[c], d).n = tpmKey[c].n + d
    BY <1>3, <1>5, Zenon
  <2>3. QED
    BY <1>4, <2>1, <2>2, Zenon
<1>7. /\ rpmKey' \in [Clients -> Keys]
      /\ \A x \in Clients : rpmKey'[x].n >= rpmKey[x].n /\ (rpmKey'[x].n = 0 => rpmKey'[x] = Missing)
  <2>1. CASE rpmKey' = rpmKey
    BY <1>0, <1>3, <2>1
  <2>2. CASE times > 0 /\ rpmKey' = [rpmKey EXCEPT ![c] = Incr(rpmKey[c], times)]
    BY <1>0, <1>3, <1>6, <2>2
  <2>3. CASE rpmKey' = [rpmKey EXCEPT ![c] = Pexpire(rpmKey[c])]
    BY <1>0, <1>3, <1>5, <2>3
  <2>4. QED
    BY <1>2, <2>1, <2>2, <2>3
<1>8. /\ tpmKey' \in [Clients -> Keys]
      /\ \A x \in Clients \ {c} : tpmKey'[x] = tpmKey[x]
      /\ pc[r] # "refund" => tpmKey'[c].n >= tpmKey[c].n
  <2>1. CASE tpmKey' = tpmKey
    BY <1>0, <1>3, <2>1
  <2>2. CASE tpmKey' = [tpmKey EXCEPT ![c] = Incr(tpmKey[c], times * est)]
    <3> DEFINE d == times * est
    <3>1. d \in Nat /\ Incr(tpmKey[c], d) \in Keys /\ Incr(tpmKey[c], d).n = tpmKey[c].n + d
      BY <1>4, <1>6
    <3>2. tpmKey' = [tpmKey EXCEPT ![c] = Incr(tpmKey[c], d)]
      BY <2>2
    <3> HIDE DEF d
    <3>3. QED
      BY <1>0, <1>3, <3>1, <3>2
  <2>3. CASE tpmKey' = [tpmKey EXCEPT ![c] = Pexpire(tpmKey[c])]
    BY <1>0, <1>3, <1>5, <2>3
  <2>4. CASE pc[r] = "refund" /\ tpmKey' = [tpmKey EXCEPT ![c] = Incr(tpmKey[c], -(times * est))]
    BY <1>0, <1>6, <2>4
  <2>5. QED
    BY <1>2, <2>1, <2>2, <2>3, <2>4
<1>9. /\ \A x \in Clients \ {c} : late'[x] = late[x]
      /\ pc[r] # "refund" => late' = late
  BY <1>2 DEF Types
<1>10. pc[r] = "refund" => \E n \in 0 .. 2 :
              /\ tpmKey' = IF n > 0 THEN [tpmKey EXCEPT ![c] = Incr(@, -(n * est))] ELSE tpmKey
              /\ late' = IF stale[r] /\ n > 0 THEN [late EXCEPT ![c] = @ + est] ELSE late
  BY <1>2
<1>11. /\ pc[r] # "upstream" => UNCHANGED <<money, charged, unpaid>>
       /\ pc[r] = "upstream" => \E n \in 0 .. 2, usd \in Costs :
              /\ money' = [money EXCEPT ![c] = @ + n * usd]
              /\ charged' = [charged EXCEPT ![c] = @ + usd]
              /\ unpaid' = IF n = 0 THEN [unpaid EXCEPT ![c] = @ + usd] ELSE unpaid
  BY <1>2
<1>12. pc[r] \notin {"idle", "done", "hung"} /\ pc'[r] = "done"
  BY <1>0, <1>1, <1>2
<1>13. QED
  BY <1>1, <1>7, <1>8, <1>9, <1>10, <1>11, <1>12

\* Money that is charged with a command that has failed.
LEMMA Unpaid ==
  ASSUME Types, NEW c \in Clients, NEW times \in 0 .. 2, NEW usd \in Costs,
         money' = [money EXCEPT ![c] = @ + times * usd],
         charged' = [charged EXCEPT ![c] = @ + usd],
         unpaid' = IF times = 0 THEN [unpaid EXCEPT ![c] = @ + usd] ELSE unpaid
  PROVE  /\ money' \in [Clients -> Nat] /\ charged' \in [Clients -> Int]
         /\ unpaid' \in [Clients -> Nat]
         /\ usd \in Nat /\ times * usd \in Nat
         /\ \A x \in Clients \ {c} : /\ money'[x] = money[x] /\ charged'[x] = charged[x]
                                    /\ unpaid'[x] = unpaid[x]
         /\ money'[c] = money[c] + times * usd /\ charged'[c] = charged[c] + usd
         /\ unpaid'[c] = unpaid[c] + (IF times = 0 THEN usd ELSE 0)
         /\ times # 0 => times * usd >= usd
<1> DEFINE d == times * usd
<1>1. /\ money \in [Clients -> Nat] /\ charged \in [Clients -> Int] /\ unpaid \in [Clients -> Nat]
      /\ usd \in Nat
  BY AdmissionAssumption DEF Types, TypeOK
<1>2. d \in Nat /\ (times # 0 => d >= usd)
  <2>1. d = 0 \/ d = usd \/ d = usd + usd
    BY <1>1
  <2>2. times = 0 \/ d = usd \/ d = usd + usd
    BY <1>1
  <2>3. QED
    BY <1>1, <2>1, <2>2
<1>3. money' = [money EXCEPT ![c] = @ + d]
  OBVIOUS
<1> HIDE DEF d
<1>4. /\ money' \in [Clients -> Nat] /\ money'[c] = money[c] + d
      /\ \A x \in Clients \ {c} : money'[x] = money[x]
  BY <1>1, <1>2, <1>3
<1>5. /\ charged' \in [Clients -> Int] /\ charged'[c] = charged[c] + usd
      /\ \A x \in Clients \ {c} : charged'[x] = charged[x]
  BY <1>1
<1>6. /\ unpaid' \in [Clients -> Nat]
      /\ unpaid'[c] = unpaid[c] + (IF times = 0 THEN usd ELSE 0)
      /\ \A x \in Clients \ {c} : unpaid'[x] = unpaid[x]
  BY <1>1
<1>7. QED
  BY <1>1, <1>2, <1>4, <1>5, <1>6 DEF d

LEMMA PanicTypes ==
  ASSUME Types, NEW r \in Requests, Panics(r)
  PROVE  Types'
<1> PICK c \in Clients : c = Client(r)
  BY JobType
<1>1. Moves(r) /\ TypeOK
  BY HandlerMoves DEF Handler, Types
<1>2. /\ pc' \in [Requests -> Places] /\ answer' \in [Requests -> Answers]
      /\ \A q \in Requests : answer'[q] # "none" <=> pc'[q] = "done"
  BY <1>1, MovesTypes
<1>3. /\ faults' \in 0 .. MaxFaults
      /\ UNCHANGED <<redis, now, memVars, top, passed, granted, last, lastPass, job, fits, stale>>
      /\ rpmKey' \in [Clients -> Keys] /\ tpmKey' \in [Clients -> Keys]
      /\ \A x \in Clients : rpmKey'[x].n >= rpmKey[x].n /\ (rpmKey'[x].n = 0 => rpmKey'[x] = Missing)
  BY Panicking
<1>4. late' \in [Clients -> Nat]
  <2>1. late' = late \/ late' = [late EXCEPT ![c] = @ + job[r].est]
    BY Panicking
  <2>2. late \in [Clients -> Nat] /\ job[r].est \in Nat
    BY JobType DEF Types
  <2>3. QED
    BY <2>1, <2>2
<1>5. money' \in [Clients -> Nat] /\ charged' \in [Clients -> Int] /\ unpaid' \in [Clients -> Nat]
  <2>1. CASE pc[r] = "upstream"
    BY <2>1, Panicking, Unpaid
  <2>2. CASE pc[r] # "upstream"
    BY <2>2, Panicking DEF Types, TypeOK
  <2>3. QED
    BY <2>1, <2>2
<1>6. \A x \in Clients : rpmKey'[x].n >= 0
  <2>1. \A x \in Clients : rpmKey[x].n \in Int /\ rpmKey[x].n >= 0 /\ rpmKey'[x].n \in Int
    BY <1>3 DEF Types, Keys
  <2>2. QED
    BY <1>3, <2>1
<1>7. QED
  BY <1>2, <1>3, <1>4, <1>5, <1>6 DEF Types, TypeOK, CounterOK, Keys, memVars

\* A handler that hangs has charged what no map will take.
LEMMA Hanging ==
  ASSUME Types, NEW r \in Requests, Hangs(r), NEW c \in Clients, c = Client(r)
  PROVE  /\ redis /\ faults' = faults + 1 /\ faults' \in 0 .. MaxFaults
         /\ pc[r] = "upstream" /\ pc'[r] = "hung"
         /\ UNCHANGED <<redis, now, rpmKey, tpmKey, memVars, top, passed, granted, late, last,
                        lastPass, job, fits, stale>>
         /\ \E times \in 0 .. 2, usd \in Costs :
              /\ money' = [money EXCEPT ![c] = @ + times * usd]
              /\ charged' = [charged EXCEPT ![c] = @ + usd]
              /\ unpaid' = IF times = 0 THEN [unpaid EXCEPT ![c] = @ + usd] ELSE unpaid
<1>0. faults \in 0 .. MaxFaults /\ pc \in [Requests -> Places]
  BY DEF Types, TypeOK
<1>1. PICK usd \in Costs, o \in Outcomes :
        /\ Command(o) /\ Locally(o)
        /\ money' = [money EXCEPT ![c] = @ + o.times * usd]
        /\ charged' = [charged EXCEPT ![c] = @ + usd]
        /\ unpaid' = IF o.times = 0 THEN [unpaid EXCEPT ![c] = @ + usd] ELSE unpaid
  BY DEF Hangs
<1>2. redis /\ o.says = "error"
  BY <1>1 DEF Command, Locally
<1>3. o.times \in 0 .. 2 /\ faults' = faults + 1 /\ faults' \in 0 .. MaxFaults
  <2>1. /\ o # Plain => faults' = faults + 1
        /\ o.times \in 0 .. 2 /\ faults' \in 0 .. MaxFaults
        /\ o = Plain => o.says = "own"
    BY <1>0, <1>1, Faulty
  <2>2. QED
    BY <1>2, <2>1
<1>4. /\ pc[r] = "upstream" /\ pc'[r] = "hung"
      /\ UNCHANGED <<redis, now, rpmKey, tpmKey, memVars, top, passed, granted, late, last,
                     lastPass, job, fits, stale>>
  BY <1>0 DEF Hangs, Goto
<1>5. QED
  BY <1>1, <1>2, <1>3, <1>4

LEMMA HangTypes ==
  ASSUME Types, NEW r \in Requests, Hangs(r)
  PROVE  Types'
<1> PICK c \in Clients : c = Client(r)
  BY JobType
<1>1. Moves(r) /\ TypeOK
  BY HandlerMoves DEF Handler, Types
<1>2. /\ pc' \in [Requests -> Places] /\ answer' \in [Requests -> Answers]
      /\ \A q \in Requests : answer'[q] # "none" <=> pc'[q] = "done"
  BY <1>1, MovesTypes
<1>3. /\ faults' \in 0 .. MaxFaults
      /\ UNCHANGED <<redis, now, rpmKey, tpmKey, memVars, top, passed, granted, late, last,
                     lastPass, job, fits, stale>>
  BY Hanging
<1>4. money' \in [Clients -> Nat] /\ charged' \in [Clients -> Int] /\ unpaid' \in [Clients -> Nat]
  BY Hanging, Unpaid
<1>5. QED
  BY <1>2, <1>3, <1>4 DEF Types, TypeOK, memVars

LEMMA TypesInv == Types /\ [Next]_vars => Types'
BY AllowTypes, StepTypes, TokenTypes, ServeTypes, PanicTypes, HangTypes, OtherTypes DEF Next, Handler

-----------------------------------------------------------------------------
(***************************************************************************)
(* What steps leave alone.                                                 *)
(***************************************************************************)

\* No handler's step undoes a fault, or does anything to another request.
LEMMA HandlerFrame ==
  ASSUME Types, NEW r \in Requests, Handler(r)
  PROVE  /\ faults' \in {faults, faults + 1} /\ faults' \in 0 .. MaxFaults
         /\ UNCHANGED <<redis, now, job, limit, top>>
         /\ \A q \in Requests \ {r} : pc'[q] = pc[q] /\ fits'[q] = fits[q] /\ stale'[q] = stale[q]
<1>0. /\ faults \in 0 .. MaxFaults /\ pc \in [Requests -> Places]
      /\ fits \in [Requests -> BOOLEAN] /\ stale \in [Requests -> BOOLEAN]
  BY DEF Types, TypeOK
<1>1. faults' = faults \/ (\E o \in Outcomes : Command(o)) \/ Panics(r)
  BY DEF Handler, Arrive, Allow, ExpireRpm, Exceeded, Check, AllowTokens, ExpireTpm, Refund,
         Serve, Fail, Hangs, Command
<1>2. faults' \in {faults, faults + 1} /\ faults' \in 0 .. MaxFaults
  BY <1>0, <1>1, Faulty, Panicking, JobType
<1>3. UNCHANGED <<redis, now, job, limit, top>>
  BY DEF Handler, Arrive, Allow, ExpireRpm, Exceeded, Check, AllowTokens, ExpireTpm, Refund,
         Serve, Fail, Panics, Hangs, memVars, histVars
<1>4. \A q \in Requests \ {r} : pc'[q] = pc[q]
  BY <1>0, HandlerMoves DEF Moves
<1>5. /\ fits' = fits \/ \E ok : fits' = [fits EXCEPT ![r] = ok]
      /\ stale' = stale \/ stale' = [stale EXCEPT ![r] = FALSE]
  BY DEF Handler, Arrive, Allow, ExpireRpm, Exceeded, Check, AllowTokens, ExpireTpm, Refund,
         Serve, Fail, Panics, Hangs, Verdict, Grant
<1>6. QED
  BY <1>0, <1>2, <1>3, <1>4, <1>5

\* Buckets as the next step finds them.
LEMMA NextBuckets ==
  ASSUME Types'
  PROVE  \A k \in BucketKeys : Bucket(k)' \in BucketTypes
<1>1. now' \in Nat /\ \A k \in DOMAIN buckets' : buckets'[k] \in BucketTypes
  BY AdmissionAssumption DEF Types, TypeOK
<1>2. [win |-> now', n |-> 0, tok |-> 0] \in BucketTypes
  BY <1>1 DEF BucketTypes
<1>3. QED
  BY <1>1, <1>2 DEF Bucket

\* Storing a bucket of this minute changes what is found there, and elsewhere nothing.
LEMMA StoredBucket ==
  ASSUME NEW k, NEW b, b.win = now, now' = now, buckets' = With(buckets, k, b)
  PROVE  /\ Bucket(k)' = b
         /\ \A x : x # k => Bucket(x)' = Bucket(x)
<1>1. /\ DOMAIN buckets' = DOMAIN buckets \cup {k} /\ buckets'[k] = b
      /\ \A x \in DOMAIN buckets : x # k => buckets'[x] = buckets[x]
  BY DEF With
<1>2. QED
  BY <1>1 DEF Bucket

\* A table dropped whole is found empty.
LEMMA StoredAlone ==
  ASSUME NEW k, NEW b, b.win = now, now' = now, buckets' = With(<<>>, k, b)
  PROVE  Bucket(k)' = b
<1>1. k \in DOMAIN buckets' /\ buckets'[k] = b
  BY DEF With
<1>2. QED
  BY <1>1 DEF Bucket

-----------------------------------------------------------------------------
(***************************************************************************)
(* The rate.                                                               *)
(***************************************************************************)

LEMMA RateFrame ==
  ASSUME Types, RateInv, redis' = redis, faults' \in Nat, faults' >= faults,
         \A c \in Clients :
           /\ passed'[c] \in Nat /\ passed'[c] <= passed[c]
           /\ passed'[c] = 0 \/ /\ rpmKey'[c].n = rpmKey[c].n
                                /\ Bucket(<<"rpm", c>>)' = Bucket(<<"rpm", c>>)
           /\ rpmKey'[c].n \in Nat /\ Bucket(<<"rpm", c>>)'.n \in Nat
  PROVE  RateInv'
<1>1. faults \in Nat /\ RPM \in Nat /\ \A c \in Clients : passed[c] \in Nat
  BY AdmissionAssumption DEF Types, TypeOK
<1>2. ASSUME RPM > 0, NEW c \in Clients
      PROVE  /\ passed'[c] <= RPM + faults'
             /\ redis' => passed'[c] <= rpmKey'[c].n + faults'
             /\ ~redis' => passed'[c] <= Bucket(<<"rpm", c>>)'.n
  <2>1. /\ passed[c] <= RPM + faults
        /\ redis => passed[c] <= rpmKey[c].n + faults
        /\ ~redis => passed[c] <= Bucket(<<"rpm", c>>).n
    BY <1>2 DEF RateInv
  <2>2. passed'[c] \in Nat /\ passed'[c] <= passed[c] /\ passed[c] \in Nat
    BY <1>1
  <2>3. CASE passed'[c] = 0
    <3>1. rpmKey'[c].n \in Nat /\ Bucket(<<"rpm", c>>)'.n \in Nat
      OBVIOUS
    <3>2. QED
      <4>1. passed'[c] <= RPM + faults'
        <5>1. faults' \in Nat /\ RPM \in Nat
          BY <1>1
        <5>2. \A a, b \in Nat : 0 <= a + b
          OBVIOUS
        <5>3. QED
          BY <2>3, <5>1, <5>2, Zenon
      <4>2. passed'[c] <= rpmKey'[c].n + faults'
        BY <1>1, <2>3, <3>1
      <4>3. passed'[c] <= Bucket(<<"rpm", c>>)'.n
        BY <2>3, <3>1
      <4>4. QED
        BY <4>1, <4>2, <4>3
  <2>4. CASE /\ rpmKey'[c].n = rpmKey[c].n
             /\ Bucket(<<"rpm", c>>)' = Bucket(<<"rpm", c>>)
    <3>1. rpmKey[c].n \in Nat /\ Bucket(<<"rpm", c>>).n \in Nat
      BY <2>4
    <3>2. QED
      BY <1>1, <2>1, <2>2, <2>4, <3>1
  <2>5. QED
    BY <2>3, <2>4
<1>3. QED
  BY <1>2 DEF RateInv

LEMMA RateAllow ==
  ASSUME Types, Types', RateInv, NEW r \in Requests, Allow(r)
  PROVE  RateInv'
<1> PICK c \in Clients : c = Client(r)
  BY JobType
<1> DEFINE k == <<"rpm", c>>
           wiped == Drops(k)
<1>0. /\ c = Client(r) /\ k \in BucketKeys /\ RPM \in Nat
      /\ rpmKey \in [Clients -> Keys] /\ faults \in 0 .. MaxFaults /\ faults \in Nat
      /\ now \in 0 .. MaxNow /\ passed \in [Clients -> Nat]
      /\ \A x \in Clients : rpmKey[x].n \in Nat
  BY JobType, AdmissionAssumption DEF Types, TypeOK, BucketKeys, Keys
<1>1. now' = now /\ redis' = redis
  BY DEF Allow
<1>2. /\ \A x \in Clients : Bucket(<<"rpm", x>>)'.n \in Nat /\ rpmKey'[x].n \in Nat
      /\ Bucket(k) \in BucketTypes /\ Bucket(k).win = now /\ Bucket(k).n \in Nat
      /\ passed' \in [Clients -> Nat]
  <2>1. \A x \in Clients : <<"rpm", x>> \in BucketKeys
    BY DEF BucketKeys
  <2>2. \A x \in Clients : Bucket(<<"rpm", x>>)' \in BucketTypes
    BY <2>1, NextBuckets
  <2>3. rpmKey' \in [Clients -> Keys] /\ \A x \in Clients : rpmKey'[x].n >= 0
    BY DEF Types
  <2>4. \A x \in Clients : rpmKey'[x].n \in Nat
    BY <2>3 DEF Keys
  <2>5. Bucket(k) \in BucketTypes /\ Bucket(k).win = now
    BY <1>0, BucketOps
  <2>6. passed' \in [Clients -> Nat]
    BY DEF Types
  <2>7. QED
    BY <2>2, <2>4, <2>5, <2>6 DEF BucketTypes
<1>3. CASE RPM = 0
  BY <1>3 DEF RateInv
<1>4. CASE RPM > 0
  <2>1. PICK o \in Outcomes :
          /\ IF redis THEN Command(o) ELSE o = Plain /\ UNCHANGED faults
          /\ rpmKey' = IF redis /\ o.times > 0
                       THEN [rpmKey EXCEPT ![c] = Incr(@, o.times)] ELSE rpmKey
          /\ IF Locally(o)
             THEN /\ buckets' = With(IF wiped THEN <<>> ELSE buckets, k,
                                     [Bucket(k) EXCEPT !.n = @ + 1])
                  /\ Verdict(r, Bucket(k).n + 1 <= RPM, wiped)
             ELSE /\ \E n \in Reads(o, rpmKey'[c].n) : Verdict(r, n <= RPM, FALSE)
                  /\ UNCHANGED buckets
    <3>1. RPM # 0
      BY <1>0, <1>4
    <3>2. QED
      BY <1>0, <3>1 DEF Allow
  <2>2. /\ faults' \in {faults, faults + 1}
        /\ o # Plain => faults' = faults + 1
        /\ o.times \in 0 .. 2 /\ o.says \in {"own", "error", "other"}
        /\ o = Plain => o.times = 1 /\ o.says = "own"
        /\ o.says = "own" => o.times >= 1
    BY <1>0, <2>1, Faulty
  <2>3. /\ \A x \in Clients \ {c} : rpmKey'[x] = rpmKey[x]
        /\ rpmKey'[c].n = rpmKey[c].n + (IF redis THEN o.times ELSE 0)
    <3>1. rpmKey[c] \in Keys /\ o.times \in Int /\ rpmKey[c].n \in Nat
      BY <1>0, <2>2
    <3>2. Incr(rpmKey[c], o.times).n = rpmKey[c].n + o.times
      BY <1>0, <3>1, KeyOps
    <3>3. QED
      BY <1>0, <2>1, <2>2, <3>1, <3>2
  <2>4. CASE redis
    <3>1. /\ passed'[c] \in {passed[c], passed[c] + 1}
          /\ \A x \in Clients \ {c} : passed'[x] = passed[x]
          /\ o.says = "own" /\ passed'[c] = passed[c] + 1 => rpmKey'[c].n <= RPM
      <4>1. PICK ok, w : /\ Verdict(r, ok, w)
                         /\ o.says = "own" => ok = (rpmKey'[c].n <= RPM)
        BY <2>1, <2>4 DEF Locally, Reads
      <4>2. passed' = [passed EXCEPT ![c] = @ + (IF ok THEN 1 ELSE 0)]
        BY <2>4, <4>1 DEF Verdict, Forgets
      <4>4. CASE ok
        <5>1. passed' = [passed EXCEPT ![c] = @ + 1]
          BY <4>2, <4>4
        <5>2. o.says = "own" => rpmKey'[c].n <= RPM
          BY <4>1, <4>4
        <5>3. QED
          BY <1>0, <5>1, <5>2
      <4>5. CASE ~ok
        <5>1. passed' = [passed EXCEPT ![c] = @ + 0]
          BY <4>2, <4>5
        <5>2. passed[c] \in Nat
          BY <1>0
        <5>3. passed' = passed
          BY <1>0, <5>1, <5>2
        <5>4. QED
          BY <5>2, <5>3
      <4>6. QED
        BY <4>4, <4>5
    <3>2. \A x \in Clients : passed[x] <= RPM + faults /\ passed[x] <= rpmKey[x].n + faults
      BY <1>4, <2>4 DEF RateInv
    <3>3. /\ passed'[c] <= rpmKey'[c].n + faults' /\ passed'[c] <= RPM + faults'
      <4>1. CASE faults' = faults + 1
        BY <1>0, <2>2, <2>3, <2>4, <3>1, <3>2, <4>1
      <4>2. CASE faults' # faults + 1
        <5>1. o.times = 1 /\ o.says = "own" /\ faults' = faults
          BY <2>2, <4>2
        <5>2. passed'[c] <= rpmKey'[c].n + faults'
          BY <1>0, <2>3, <2>4, <3>1, <3>2, <5>1
        <5>3. QED
          BY <1>0, <1>2, <3>1, <3>2, <5>1, <5>2
      <4>3. QED
        BY <4>1, <4>2
    <3>4. \A x \in Clients : passed'[x] <= rpmKey'[x].n + faults' /\ passed'[x] <= RPM + faults'
      BY <1>0, <2>2, <2>3, <3>1, <3>2, <3>3
    <3>5. QED
      BY <1>1, <2>4, <3>4 DEF RateInv
  <2>5. CASE ~redis
    <3> DEFINE ok == Bucket(k).n + 1 <= RPM
    <3> PICK b : b = [Bucket(k) EXCEPT !.n = @ + 1]
      OBVIOUS
    <3>1. /\ buckets' = With(IF wiped THEN <<>> ELSE buckets, k, b)
          /\ Verdict(r, ok, wiped) /\ faults' = faults
      BY <2>1, <2>5 DEF Locally
    <3>2. b.win = now /\ b.n = Bucket(k).n + 1
      BY <1>2 DEF BucketTypes
    <3>3. \A x \in Clients : passed[x] <= RPM + faults /\ passed[x] <= Bucket(<<"rpm", x>>).n
      BY <1>4, <2>5 DEF RateInv
    <3>4. CASE wiped
      <4>1. Bucket(k)' = b
        <5>1. buckets' = With(<<>>, k, b)
          BY <3>1, <3>4
        <5>2. QED
          BY <1>1, <3>2, <5>1, StoredAlone
      <4>2. passed' = [[x \in Clients |-> 0] EXCEPT ![c] = @ + (IF ok THEN 1 ELSE 0)]
        BY <2>5, <3>1, <3>4 DEF Verdict, Forgets
      <4>3. \A x \in Clients : x # c => passed'[x] = 0
        BY <4>2
      <4>4. passed'[c] = IF ok THEN 1 ELSE 0
        BY <1>0, <4>2
      <4>5. passed'[c] <= Bucket(k)'.n /\ passed'[c] <= RPM + faults'
        <5>1. Bucket(k)'.n = Bucket(k).n + 1 /\ Bucket(k).n \in Nat /\ faults' \in Nat
          BY <1>0, <1>2, <3>1, <3>2, <4>1
        <5>2. passed'[c] \in 0 .. 1
          BY <4>4
        <5>3. QED
          BY <1>0, <1>4, <5>1, <5>2
      <4>6. \A x \in Clients : passed'[x] <= RPM + faults' /\ passed'[x] <= Bucket(<<"rpm", x>>)'.n
        <5>1. ASSUME NEW x \in Clients, x # c
              PROVE  passed'[x] <= RPM + faults' /\ passed'[x] <= Bucket(<<"rpm", x>>)'.n
          <6>1. Bucket(<<"rpm", x>>)'.n \in Nat /\ RPM \in Nat /\ faults' \in Nat
            BY <1>0, <1>2, <3>1
          <6>2. passed'[x] = 0
            BY <4>3, <5>1
          <6>3. QED
            BY <6>1, <6>2
        <5>2. QED
          BY <4>5, <5>1
      <4>7. QED
        BY <1>1, <2>5, <4>6 DEF RateInv
    <3>5. CASE ~wiped
      <4>1. Bucket(k)' = b /\ \A x : x # k => Bucket(x)' = Bucket(x)
        <5>1. buckets' = With(buckets, k, b)
          BY <3>1, <3>5
        <5>2. QED
          BY <1>1, <3>2, <5>1, StoredBucket
      <4>2. passed' = [passed EXCEPT ![c] = @ + (IF ok THEN 1 ELSE 0)]
        BY <3>1, <3>5 DEF Verdict, Forgets
      <4>3. passed'[c] <= Bucket(k)'.n /\ passed'[c] <= RPM + faults'
        <5>1. /\ Bucket(k)'.n = Bucket(k).n + 1 /\ Bucket(k).n \in Nat /\ faults' \in Nat
              /\ passed[c] \in Nat /\ passed[c] <= RPM + faults' /\ passed[c] <= Bucket(k).n
          BY <1>0, <1>2, <3>1, <3>2, <3>3, <4>1
        <5>2. CASE ok
          <6>1. passed'[c] = passed[c] + 1
            BY <1>0, <4>2, <5>2
          <6>2. QED
            BY <1>0, <5>1, <5>2, <6>1
        <5>3. CASE ~ok
          <6>1. passed'[c] = passed[c] + 0
            BY <1>0, <4>2, <5>3
          <6>2. QED
            BY <1>0, <5>1, <6>1
        <5>4. QED
          BY <5>2, <5>3
      <4>4. \A x \in Clients : x # c => Bucket(<<"rpm", x>>)' = Bucket(<<"rpm", x>>)
        BY <4>1
      <4>5. \A x \in Clients : passed'[x] <= RPM + faults' /\ passed'[x] <= Bucket(<<"rpm", x>>)'.n
        BY <1>0, <3>1, <3>3, <4>2, <4>3, <4>4
      <4>6. QED
        BY <1>1, <2>5, <4>5 DEF RateInv
    <3>6. QED
      BY <3>4, <3>5
  <2>6. QED
    BY <2>4, <2>5
<1>5. QED
  BY <1>0, <1>3, <1>4

\* The steps of a handler but Allow and a panic, where it is about the rate.
LEMMA RateApart ==
  ASSUME Types, NEW r \in Requests, Handler(r), ~Allow(r), ~Panics(r)
  PROVE  /\ UNCHANGED <<redis, now, passed, last>>
         /\ rpmKey' = rpmKey \/ rpmKey' = [rpmKey EXCEPT ![Client(r)] = Pexpire(@)]
         /\ \A c \in Clients : rpmKey'[c].n = rpmKey[c].n
         /\ \A c : /\ <<"rpm", c>> \in DOMAIN buckets' <=> <<"rpm", c>> \in DOMAIN buckets
                   /\ <<"rpm", c>> \in DOMAIN buckets => buckets'[<<"rpm", c>>] = buckets[<<"rpm", c>>]
                   /\ Bucket(<<"rpm", c>>)' = Bucket(<<"rpm", c>>)
<1>0. rpmKey \in [Clients -> Keys] /\ now \in 0 .. MaxNow /\ Client(r) \in Clients
  BY JobType DEF Types, TypeOK
<1>1. UNCHANGED <<redis, now, passed, last>>
  BY DEF Handler, Arrive, ExpireRpm, Exceeded, Check, AllowTokens, ExpireTpm, Refund,
         Serve, Fail, Hangs, histVars
<1>2. rpmKey' = rpmKey \/ rpmKey' = [rpmKey EXCEPT ![Client(r)] = Pexpire(@)]
  BY DEF Handler, Arrive, ExpireRpm, Exceeded, Check, AllowTokens, ExpireTpm, Refund,
         Serve, Fail, Hangs, storeVars
<1>3. \A c \in Clients : rpmKey'[c].n = rpmKey[c].n
  <2>1. \A c \in Clients : rpmKey[c] \in Keys
    BY <1>0
  <2>2. \A c \in Clients : Pexpire(rpmKey[c]).n = rpmKey[c].n
    BY <1>0, <2>1, KeyOps
  <2>3. QED
    BY <1>0, <1>2, <2>2
<1>4. \/ buckets' = buckets
      \/ \E b : buckets' = With(buckets, <<"tpm", Client(r)>>, b)
  BY DEF Handler, Arrive, ExpireRpm, Exceeded, Check, AllowTokens, ExpireTpm, Refund,
         Serve, Fail, Hangs, memVars
<1>5. ASSUME NEW c
      PROVE  /\ <<"rpm", c>> \in DOMAIN buckets' <=> <<"rpm", c>> \in DOMAIN buckets
             /\ <<"rpm", c>> \in DOMAIN buckets => buckets'[<<"rpm", c>>] = buckets[<<"rpm", c>>]
  <2>1. <<"rpm", c>> # <<"tpm", Client(r)>>
    OBVIOUS
  <2>2. QED
    BY <1>4, <2>1 DEF With
<1>6. \A c : Bucket(<<"rpm", c>>)' = Bucket(<<"rpm", c>>)
  BY <1>1, <1>5 DEF Bucket
<1>7. QED
  BY <1>1, <1>2, <1>3, <1>5, <1>6

LEMMA RateStep ==
  ASSUME Types, Types', RateInv, [Next]_vars
  PROVE  RateInv'
<1>0. /\ faults \in Nat /\ faults' \in Nat /\ passed \in [Clients -> Nat] /\ RPM \in Nat
      /\ passed' \in [Clients -> Nat]
      /\ rpmKey \in [Clients -> Keys] /\ MaxNow \in Nat
      /\ \A c \in Clients : rpmKey[c].n \in Nat
      /\ \A c \in Clients : rpmKey'[c].n \in Nat /\ Bucket(<<"rpm", c>>)'.n \in Nat
  <2>1. \A c \in Clients : <<"rpm", c>> \in BucketKeys
    BY DEF BucketKeys
  <2>2. \A c \in Clients : Bucket(<<"rpm", c>>)' \in BucketTypes
    BY <2>1, NextBuckets
  <2>3. \A c \in Clients : Bucket(<<"rpm", c>>)'.n \in Nat
    BY <2>2 DEF BucketTypes
  <2>4. \A c \in Clients : rpmKey[c].n \in Nat /\ rpmKey'[c].n \in Nat
    BY DEF Types, Keys
  <2>5. QED
    BY <2>3, <2>4, AdmissionAssumption DEF Types, TypeOK
<1>1. ASSUME NEW r \in Requests, Handler(r) PROVE RateInv'
  <2>1. CASE Allow(r)
    BY <2>1, RateAllow
  <2>4. CASE Panics(r)
    <3>1. /\ redis /\ redis' = redis /\ passed' = passed /\ faults' = faults + 1
          /\ \A c \in Clients : rpmKey'[c].n >= rpmKey[c].n
      BY <2>4, Panicking, JobType
    <3>2. ASSUME RPM > 0, NEW c \in Clients
          PROVE  passed'[c] <= RPM + faults' /\ passed'[c] <= rpmKey'[c].n + faults'
      <4>1. /\ passed[c] <= RPM + faults /\ passed[c] <= rpmKey[c].n + faults
            /\ passed[c] \in Nat /\ rpmKey[c].n \in Nat /\ rpmKey'[c].n \in Nat
            /\ rpmKey'[c].n >= rpmKey[c].n
        BY <1>0, <3>1, <3>2 DEF RateInv
      <4>2. QED
        BY <1>0, <3>1, <4>1
    <3>3. QED
      BY <3>1, <3>2 DEF RateInv
  <2>2. CASE ~Allow(r) /\ ~Panics(r)
    <3>1. faults' >= faults
      BY <1>0, <1>1, HandlerFrame
    <3>2. /\ redis' = redis /\ passed' = passed
          /\ \A c \in Clients : /\ rpmKey'[c].n = rpmKey[c].n
                                /\ Bucket(<<"rpm", c>>)' = Bucket(<<"rpm", c>>)
      BY <1>1, <2>2, RateApart
    <3>3. \A c \in Clients : passed'[c] \in Nat /\ passed'[c] <= passed[c]
      BY <1>0, <3>2
    <3>4. QED
      BY <1>0, <3>1, <3>2, <3>3, RateFrame
  <2>3. QED
    BY <2>1, <2>2, <2>4
<1>2. ASSUME NEW c \in Clients, UpdateLimit(c) \/ GenerateToken(c) PROVE RateInv'
  <2>1. UNCHANGED <<redis, now, passed, rpmKey, buckets, faults>>
    BY <1>2 DEF UpdateLimit, GenerateToken, storeVars, histVars
  <2>2. QED
    BY <2>1 DEF RateInv, Bucket
<1>3. ASSUME NEW c \in Clients, ExpireKey(c) PROVE RateInv'
  <2>1. UNCHANGED <<redis, now, buckets, faults>>
    BY <1>3 DEF ExpireKey, memVars
  <2>2. \A x \in Clients : Bucket(<<"rpm", x>>)' = Bucket(<<"rpm", x>>)
    BY <2>1 DEF Bucket
  <2>3. \/ UNCHANGED <<rpmKey, passed>>
        \/ /\ rpmKey' = [rpmKey EXCEPT ![c] = Missing]
           /\ passed' = IF redis THEN [passed EXCEPT ![c] = 0] ELSE passed
    BY <1>3 DEF ExpireKey
  <2>4. CASE UNCHANGED <<rpmKey, passed>>
    BY <2>1, <2>2, <2>4 DEF RateInv
  <2>5. CASE redis /\ rpmKey' = [rpmKey EXCEPT ![c] = Missing] /\ passed' = [passed EXCEPT ![c] = 0]
    <3>1. \A x \in Clients : x # c => rpmKey'[x] = rpmKey[x] /\ passed'[x] = passed[x]
      BY <2>5
    <3>2. passed'[c] = 0
      BY <1>0, <2>5
    <3>3. \A x \in Clients : /\ passed'[x] \in Nat /\ passed'[x] <= passed[x]
                             /\ passed'[x] = 0 \/ rpmKey'[x].n = rpmKey[x].n
      BY <1>0, <3>1, <3>2
    <3>4. faults' >= faults
      BY <1>0, <2>1
    <3>5. QED
      BY <1>0, <2>1, <2>2, <3>3, <3>4, RateFrame
  <2>6. CASE ~redis /\ UNCHANGED passed
    BY <2>1, <2>2, <2>6 DEF RateInv
  <2>7. QED
    BY <2>3, <2>4, <2>5, <2>6
<1>4. CASE Tick
  <2>1. UNCHANGED <<redis, rpmKey, faults>>
    BY <1>4 DEF Tick
  <2>2. CASE redis
    BY <1>4, <2>1, <2>2 DEF Tick, RateInv
  <2>3. CASE ~redis
    <3>1. \A c \in Clients : passed'[c] = 0
      BY <1>4, <2>3 DEF Tick
    <3>2. faults' >= faults /\ \A c \in Clients : passed'[c] \in Nat /\ passed'[c] <= passed[c]
      BY <1>0, <2>1, <3>1
    <3>3. QED
      BY <1>0, <2>1, <3>1, <3>2, RateFrame
  <2>4. QED
    BY <2>2, <2>3
<1>5. CASE Restart
  <2>1. rpmKey' = rpmKey /\ faults' = faults + 1
    BY <1>5 DEF Restart, storeVars
  <2>2. CASE redis /\ redis'
    <3>1. \A c \in Clients : passed'[c] = passed[c]
      BY <1>5, <2>2 DEF Restart
    <3>2. ASSUME RPM > 0, NEW c \in Clients
          PROVE  passed'[c] <= RPM + faults' /\ passed'[c] <= rpmKey'[c].n + faults'
      <4>1. /\ passed[c] <= RPM + faults /\ passed[c] <= rpmKey[c].n + faults
            /\ passed[c] \in Nat /\ rpmKey[c].n \in Nat
        BY <1>0, <2>2, <3>2 DEF RateInv
      <4>2. QED
        BY <1>0, <2>1, <3>1, <4>1
    <3>3. QED
      BY <2>2, <3>2 DEF RateInv
  <2>3. CASE ~(redis /\ redis')
    <3>1. \A c \in Clients : passed'[c] = 0
      BY <1>5, <2>3 DEF Restart
    <3>2. ASSUME NEW c \in Clients
          PROVE  /\ passed'[c] <= RPM + faults' /\ passed'[c] <= rpmKey'[c].n + faults'
                 /\ passed'[c] <= Bucket(<<"rpm", c>>)'.n
      BY <1>0, <3>1
    <3>3. QED
      BY <3>2 DEF RateInv
  <2>4. QED
    BY <2>2, <2>3
<1>6. CASE ReportPanics \/ UNCHANGED vars
  <2>1. UNCHANGED <<redis, now, rpmKey, buckets, passed, faults>>
    BY <1>6 DEF ReportPanics, vars, storeVars, memVars, histVars
  <2>2. ASSUME NEW c \in Clients
        PROVE  Bucket(<<"rpm", c>>)' = Bucket(<<"rpm", c>>)
    BY <2>1 DEF Bucket
  <2>3. QED
    BY <2>1, <2>2 DEF RateInv
<1>7. QED
  BY <1>1, <1>2, <1>3, <1>4, <1>5, <1>6 DEF Next

-----------------------------------------------------------------------------
(***************************************************************************)
(* Silence.                                                                *)
(***************************************************************************)

\* A command without a fault is applied once and read as it was meant.
LEMMA Faultless ==
  ASSUME Types, faults' = 0, NEW o \in Outcomes,
         IF redis THEN Command(o) ELSE o = Plain /\ UNCHANGED faults
  PROVE  faults = 0 /\ o.times = 1 /\ o.says = "own" /\ (Locally(o) <=> ~redis)
<1>1. faults \in 0 .. MaxFaults
  BY DEF Types, TypeOK
<1>2. o = Plain /\ faults = 0
  <2>1. /\ o # Plain => faults' = faults + 1
        /\ faults' \in {faults, faults + 1}
    BY <1>1, Faulty
  <2>2. QED
    BY <1>1, <2>1
<1>3. QED
  BY <1>2 DEF Plain, Locally

LEMMA SilenceAllow ==
  ASSUME Types, Types', SilenceInv, NEW r \in Requests, Allow(r)
  PROVE  SilenceInv'
<1> PICK c \in Clients : c = Client(r)
  BY JobType
<1> DEFINE k == <<"rpm", c>>
           wiped == Drops(k)
<1>0. /\ c = Client(r) /\ k \in BucketKeys /\ RPM \in Nat /\ now \in Nat
      /\ rpmKey \in [Clients -> Keys] /\ faults \in Nat /\ last \in [Clients -> Int]
      /\ \A x \in Clients : rpmKey[x].n \in Nat /\ (rpmKey[x].n = 0 => rpmKey[x] = Missing)
      /\ pc \in [Requests -> Places]
      /\ pc[r] = "rpm" /\ now' = now /\ redis' = redis /\ job' = job
  <2>1. k \in BucketKeys /\ RPM \in Nat /\ now \in Nat /\ faults \in Nat
    BY AdmissionAssumption DEF Types, TypeOK, BucketKeys
  <2>2. \A x \in Clients : rpmKey[x].n \in Nat /\ (rpmKey[x].n = 0 => rpmKey[x] = Missing)
    BY DEF Types, TypeOK, Keys
  <2>3. rpmKey \in [Clients -> Keys] /\ last \in [Clients -> Int] /\ pc \in [Requests -> Places]
    BY DEF Types, TypeOK
  <2>4. pc[r] = "rpm" /\ now' = now /\ redis' = redis /\ job' = job
    BY DEF Allow
  <2>5. QED
    BY <2>1, <2>2, <2>3, <2>4
<1>1. /\ \A q \in Requests : q # r => pc'[q] = pc[q] /\ fits'[q] = fits[q]
      /\ pc'[r] \notin {"idle", "rpm"}
      /\ faults' = 0 => faults = 0
  <2>1. pc'[r] \notin {"idle", "rpm"}
    BY <1>0 DEF Allow, Goto, Refuse, AfterRate
  <2>2. /\ \A q \in Requests : q # r => pc'[q] = pc[q] /\ fits'[q] = fits[q]
        /\ faults' \in {faults, faults + 1}
    BY HandlerFrame DEF Handler
  <2>3. faults' = 0 => faults = 0
    BY <1>0, <2>2
  <2>4. QED
    BY <2>1, <2>2, <2>3
<1>2. \A q \in Requests : pc'[q] \in {"idle", "rpm"} => fits'[q]
  BY <1>1 DEF SilenceInv
<1>3. CASE UNCHANGED <<rpmKey, buckets, fits, last>> /\ pc'[r] # "rpmTtl"
  <2>1. \A x \in Clients : last'[x] <= now'
    BY <1>0, <1>3 DEF SilenceInv
  <2>2. \A x \in Clients : <<"rpm", x>> \in DOMAIN buckets' => buckets'[<<"rpm", x>>].win <= last'[x]
    BY <1>3 DEF SilenceInv
  <2>3. faults' = 0 => \A q \in Requests : pc'[q] = "rpmTtl" => last'[Client(q)'] = now'
    BY <1>0, <1>1, <1>3 DEF SilenceInv, Client
  <2>4. ASSUME faults' = 0, redis', NEW x \in Clients, rpmKey'[x].n > 0
        PROVE  /\ now' <= last'[x] + 1 /\ rpmKey'[x].exp <= last'[x] + 1 /\ rpmKey'[x].exp # 0
               /\ rpmKey'[x].exp = Never => \E q \in Requests : pc'[q] = "rpmTtl" /\ Client(q)' = x
    <3>1. /\ now <= last[x] + 1 /\ rpmKey[x].exp <= last[x] + 1 /\ rpmKey[x].exp # 0
          /\ rpmKey[x].exp = Never => \E q \in Requests : pc[q] = "rpmTtl" /\ Client(q) = x
      BY <1>0, <1>1, <1>3, <2>4 DEF SilenceInv
    <3>2. QED
      BY <1>0, <1>1, <1>3, <3>1 DEF Client
  <2>5. QED
    BY <1>2, <2>1, <2>2, <2>3, <2>4 DEF SilenceInv
<1>4. CASE ~(UNCHANGED <<rpmKey, buckets, fits, last>> /\ pc'[r] # "rpmTtl")
  <2>1. PICK o \in Outcomes :
          /\ IF redis THEN Command(o) ELSE o = Plain /\ UNCHANGED faults
          /\ rpmKey' = IF redis /\ o.times > 0
                       THEN [rpmKey EXCEPT ![c] = Incr(@, o.times)] ELSE rpmKey
          /\ IF Locally(o)
             THEN /\ buckets' = With(IF wiped THEN <<>> ELSE buckets, k,
                                     [Bucket(k) EXCEPT !.n = @ + 1])
                  /\ \E ok : Verdict(r, ok, wiped)
                  /\ pc'[r] # "rpmTtl"
             ELSE /\ \E ok : Verdict(r, ok, FALSE)
                  /\ pc' = [pc EXCEPT ![r] = "rpmTtl"]
                  /\ UNCHANGED buckets
    <3>1. ~(RPM = 0 /\ Goto(r, AfterRate(r)) /\ UNCHANGED <<rpmKey, buckets, fits, passed, granted, last, lastPass, faults>>)
      BY <1>0, <1>4 DEF Goto, AfterRate
    <3>2. Goto(r, AfterRate(r)) \/ Refuse(r, "limited") => pc'[r] # "rpmTtl"
      BY <1>0 DEF Goto, Refuse, AfterRate
    <3>3. QED
      BY <1>0, <3>1, <3>2 DEF Allow, Goto
  <2>2. last' = [last EXCEPT ![c] = now]
    BY <1>0, <2>1 DEF Verdict
  <2>3. \A x \in Clients : last[x] <= now /\ last'[x] <= now /\ last[x] <= last'[x]
    BY <1>0, <2>2 DEF SilenceInv
  <2>4. ASSUME NEW x \in Clients, <<"rpm", x>> \in DOMAIN buckets'
        PROVE  buckets'[<<"rpm", x>>].win <= last'[x]
    <3>1. CASE Locally(o) /\ x = c
      <4>1. buckets'[k] = [Bucket(k) EXCEPT !.n = @ + 1]
        BY <2>1, <3>1 DEF With
      <4>2. Bucket(k) \in BucketTypes /\ Bucket(k).win = now
        BY <1>0, BucketOps
      <4>3. buckets'[k].win = now
        BY <4>1, <4>2 DEF BucketTypes
      <4>4. QED
        BY <1>0, <2>2, <3>1, <4>3
    <3>2. CASE Locally(o) /\ x # c
      <4>1. <<"rpm", x>> \in DOMAIN buckets /\ buckets'[<<"rpm", x>>] = buckets[<<"rpm", x>>]
        BY <2>1, <2>4, <3>2 DEF With
      <4>2. buckets[<<"rpm", x>>].win <= last[x]
        BY <4>1 DEF SilenceInv
      <4>3. last'[x] = last[x]
        BY <1>0, <2>2, <3>2
      <4>4. QED
        BY <4>1, <4>2, <4>3
    <3>3. CASE ~Locally(o)
      <4>1. buckets' = buckets
        BY <2>1, <3>3
      <4>2. buckets[<<"rpm", x>>].win <= last[x] /\ buckets[<<"rpm", x>>].win \in Nat
        BY <2>4, <4>1 DEF SilenceInv, Types, BucketTypes
      <4>3. last[x] \in Int /\ last'[x] \in Int
        BY <1>0, <2>2
      <4>4. QED
        BY <2>3, <4>1, <4>2, <4>3
    <3>4. QED
      BY <3>1, <3>2, <3>3
  <2>5. ASSUME faults' = 0, NEW q \in Requests, pc'[q] = "rpmTtl"
        PROVE  last'[Client(q)'] = now'
    <3>1. Client(q)' = Client(q) /\ Client(q) \in Clients
      BY <1>0, JobType DEF Client
    <3>2. CASE q = r
      BY <1>0, <2>2, <3>1, <3>2
    <3>3. CASE q # r
      <4>1. last[Client(q)] = now
        BY <1>1, <2>5, <3>3 DEF SilenceInv
      <4>2. QED
        BY <1>0, <2>2, <3>1, <4>1
    <3>4. QED
      BY <3>2, <3>3
  <2>6. ASSUME faults' = 0, redis', NEW x \in Clients, rpmKey'[x].n > 0
        PROVE  /\ now' <= last'[x] + 1 /\ rpmKey'[x].exp <= last'[x] + 1 /\ rpmKey'[x].exp # 0
               /\ rpmKey'[x].exp = Never => \E q \in Requests : pc'[q] = "rpmTtl" /\ Client(q)' = x
    <3>0. faults = 0 /\ redis /\ o.times = 1 /\ ~Locally(o)
      BY <1>0, <2>1, <2>6, Faultless
    <3>1. pc' = [pc EXCEPT ![r] = "rpmTtl"] /\ rpmKey' = [rpmKey EXCEPT ![c] = Incr(@, 1)]
      BY <2>1, <3>0
    <3>2. rpmKey[x].n > 0 => /\ now <= last[x] + 1 /\ rpmKey[x].exp <= last[x] + 1
                             /\ rpmKey[x].exp # 0
                             /\ rpmKey[x].exp = Never
                                  => \E q \in Requests : pc[q] = "rpmTtl" /\ Client(q) = x
      BY <3>0 DEF SilenceInv
    <3>3. CASE x # c
      <4>1. rpmKey'[x] = rpmKey[x] /\ last'[x] = last[x]
        BY <1>0, <2>2, <3>1, <3>3
      <4>2. \A q \in Requests : pc[q] = "rpmTtl" => pc'[q] = "rpmTtl"
        BY <1>0, <3>1
      <4>3. QED
        BY <1>0, <2>6, <3>2, <4>1, <4>2 DEF Client
    <3>4. CASE x = c
      <4>1. last'[x] = now
        BY <1>0, <2>2, <3>4
      <4>2. rpmKey[c] \in Keys /\ now \in 0 .. MaxNow
        BY <1>0 DEF Types, TypeOK
      <4>3. rpmKey'[c].exp = IF rpmKey[c] = Missing THEN Never ELSE rpmKey[c].exp
        <5>0. \A d \in Int :
                Incr(rpmKey[c], d).exp = IF rpmKey[c] = Missing THEN Never ELSE rpmKey[c].exp
          BY <4>2, KeyOps, Zenon
        <5>1. Incr(rpmKey[c], 1).exp = IF rpmKey[c] = Missing THEN Never ELSE rpmKey[c].exp
          BY <5>0
        <5>2. QED
          BY <1>0, <3>1, <5>1
      <4>4. pc'[r] = "rpmTtl" /\ Client(r)' = x
        BY <1>0, <3>1, <3>4 DEF Client
      <4>5. CASE rpmKey[c] = Missing
        BY <1>0, <4>1, <4>3, <4>4, <4>5, <3>4 DEF Never
      <4>6. CASE rpmKey[c] # Missing
        <5>1. rpmKey[c].n > 0
          BY <1>0, <4>6
        <5>2. rpmKey[c].exp <= last[c] + 1 /\ rpmKey[c].exp # 0
          BY <3>2, <3>4, <5>1
        <5>3. rpmKey[c].exp \in Int
          BY <4>2 DEF Keys, Never
        <5>4. rpmKey[c].exp <= now + 1
          BY <1>0, <2>3, <5>2, <5>3
        <5>5. QED
          BY <1>0, <3>4, <4>1, <4>3, <4>4, <4>6, <5>2, <5>4
      <4>7. QED
        BY <4>5, <4>6
    <3>5. QED
      BY <3>3, <3>4
  <2>7. \A x \in Clients : last'[x] <= now'
    BY <1>0, <2>3
  <2>8. QED
    BY <1>2, <2>4, <2>5, <2>6, <2>7 DEF SilenceInv
<1>5. QED
  BY <1>3, <1>4

LEMMA SilenceStep ==
  ASSUME Types, Types', SilenceInv, [Next]_vars
  PROVE  SilenceInv'
<1>0. /\ faults \in Nat /\ now \in Nat /\ pc \in [Requests -> Places]
      /\ rpmKey \in [Clients -> Keys] /\ last \in [Clients -> Int]
      /\ \A x \in Clients : rpmKey[x].n = 0 => rpmKey[x] = Missing
  BY AdmissionAssumption DEF Types, TypeOK
<1>1. \A x \in Clients : rpmKey[x].n \in Nat /\ rpmKey[x].exp \in Int
  BY DEF Types, Keys, Never
<1>2. ASSUME NEW r \in Requests, Handler(r) PROVE SilenceInv'
  <2>1. CASE Allow(r)
    BY <2>1, SilenceAllow
  <2>4. CASE Panics(r)
    <3>1. /\ UNCHANGED <<now, last, buckets, fits>> /\ faults' # 0 /\ pc'[r] = "done"
          /\ \A q \in Requests \ {r} : pc'[q] = pc[q]
      BY <1>0, <1>2, <2>4, Panicking, HandlerFrame, JobType DEF memVars
    <3>2. \A q \in Requests : pc'[q] \in {"idle", "rpm"} => fits'[q]
      BY <3>1 DEF SilenceInv
    <3>3. QED
      BY <3>1, <3>2 DEF SilenceInv
  <2>2. CASE ~Allow(r) /\ ~Panics(r)
    <3>1. /\ UNCHANGED <<redis, now, job, last>>
          /\ faults' \in {faults, faults + 1}
          /\ \A q \in Requests \ {r} : pc'[q] = pc[q] /\ fits'[q] = fits[q]
      BY <1>2, <2>2, HandlerFrame, RateApart
    <3>2. /\ pc'[r] # "rpmTtl"
          /\ pc'[r] \in {"idle", "rpm"} => pc[r] = "idle" /\ fits' = fits
      <4>1. CASE Arrive(r)
        BY <1>0, <4>1 DEF Arrive, Goto, Refuse
      <4>2. CASE ~Arrive(r)
        <5>1. pc'[r] \notin {"idle", "rpm", "rpmTtl"}
          BY <1>0, <1>2, <2>2, <4>2
          DEF Handler, ExpireRpm, Exceeded, Check, AllowTokens, ExpireTpm, Refund, Serve, Fail,
              Hangs, Goto, Refuse, AfterRate, AfterChecks, AfterBudget
        <5>2. QED
          BY <5>1
      <4>3. QED
        BY <4>1, <4>2
    <3>3. \A q \in Requests : pc'[q] \in {"idle", "rpm"} => fits'[q]
      BY <3>1, <3>2 DEF SilenceInv
    <3>4. \A x \in Clients : /\ last'[x] <= now'
                             /\ <<"rpm", x>> \in DOMAIN buckets'
                                  => buckets'[<<"rpm", x>>].win <= last'[x]
      <4>1. \A x : /\ <<"rpm", x>> \in DOMAIN buckets' <=> <<"rpm", x>> \in DOMAIN buckets
                   /\ <<"rpm", x>> \in DOMAIN buckets => buckets'[<<"rpm", x>>] = buckets[<<"rpm", x>>]
        BY <1>2, <2>2, RateApart
      <4>2. QED
        BY <3>1, <4>1 DEF SilenceInv
    <3>5. ASSUME faults' = 0, NEW q \in Requests, pc'[q] = "rpmTtl"
          PROVE  last'[Client(q)'] = now'
      BY <1>0, <3>1, <3>2, <3>5 DEF SilenceInv, Client
    <3>6. ASSUME faults' = 0, redis', NEW x \in Clients, rpmKey'[x].n > 0
          PROVE  /\ now' <= last'[x] + 1 /\ rpmKey'[x].exp <= last'[x] + 1 /\ rpmKey'[x].exp # 0
                 /\ rpmKey'[x].exp = Never => \E q \in Requests : pc'[q] = "rpmTtl" /\ Client(q)' = x
      <4>1. /\ now <= last[x] + 1 /\ rpmKey[x].exp <= last[x] + 1 /\ rpmKey[x].exp # 0
            /\ rpmKey[x].exp = Never => \E q \in Requests : pc[q] = "rpmTtl" /\ Client(q) = x
            /\ rpmKey[x].n > 0
        <5>1. rpmKey'[x].n = rpmKey[x].n
          BY <1>2, <2>2, RateApart
        <5>2. QED
          BY <1>0, <3>1, <3>6, <5>1 DEF SilenceInv
      <4>2. CASE ExpireRpm(r) /\ Client(r) = x
        <5>1. PICK o \in Outcomes :
                /\ Command(o)
                /\ rpmKey' = IF o.times > 0 THEN [rpmKey EXCEPT ![x] = Pexpire(@)] ELSE rpmKey
          BY <4>2 DEF ExpireRpm
        <5>2. o.times = 1 /\ faults = 0
          <6>1. redis /\ (IF redis THEN Command(o) ELSE o = Plain /\ UNCHANGED faults)
            BY <5>1 DEF Command
          <6>2. QED
            BY <3>6, <6>1, Faultless
        <5>3. rpmKey'[x] = Pexpire(rpmKey[x])
          BY <1>0, <5>1, <5>2
        <5>4. rpmKey[x] # Missing
          BY <4>1 DEF Missing
        <5>5. rpmKey'[x].exp = now + 1
          <6>1. rpmKey[x] \in Keys /\ now \in 0 .. MaxNow
            BY <1>0 DEF Types, TypeOK
          <6>2. QED
            BY <5>3, <5>4, <6>1, KeyOps
        <5>6. last[x] = now
          BY <4>2, <5>2 DEF SilenceInv, ExpireRpm
        <5>7. QED
          BY <1>0, <3>1, <5>5, <5>6 DEF Never
      <4>3. CASE ~(ExpireRpm(r) /\ Client(r) = x)
        <5>1. rpmKey'[x] = rpmKey[x]
          <6>1. CASE ExpireRpm(r)
            BY <1>0, <1>2, <2>2, <4>3, <6>1, RateApart
          <6>2. CASE ~ExpireRpm(r)
            BY <1>2, <2>2, <6>2
            DEF Handler, Arrive, Exceeded, Check, AllowTokens, ExpireTpm, Refund, Serve, Fail, Hangs,
                storeVars
          <6>3. QED
            BY <6>1, <6>2
        <5>2. \A q \in Requests : pc[q] = "rpmTtl" /\ Client(q) = x => pc'[q] = "rpmTtl"
          <6>1. pc[r] = "rpmTtl" => ExpireRpm(r)
            BY <1>2, <2>2
            DEF Handler, Arrive, Exceeded, Check, AllowTokens, ExpireTpm, Refund, Serve, Fail, Hangs
          <6>2. QED
            BY <3>1, <4>3, <6>1
        <5>3. QED
          BY <3>1, <4>1, <5>1, <5>2 DEF Client
      <4>4. QED
        BY <4>2, <4>3
    <3>7. QED
      BY <3>3, <3>4, <3>5, <3>6 DEF SilenceInv
  <2>3. QED
    BY <2>1, <2>2, <2>4
<1>3. ASSUME NEW c \in Clients, UpdateLimit(c) \/ GenerateToken(c) PROVE SilenceInv'
  <2>1. UNCHANGED <<redis, now, last, rpmKey, buckets, faults, pc, fits, job>>
    BY <1>3 DEF UpdateLimit, GenerateToken, storeVars, histVars, reqVars
  <2>2. QED
    BY <2>1 DEF SilenceInv, Client
<1>4. ASSUME NEW c \in Clients, ExpireKey(c) PROVE SilenceInv'
  <2>1. UNCHANGED <<redis, now, last, buckets, faults, pc, fits, job>>
    BY <1>4 DEF ExpireKey, memVars, reqVars
  <2>2. rpmKey' = rpmKey \/ rpmKey' = [rpmKey EXCEPT ![c] = Missing]
    BY <1>4 DEF ExpireKey
  <2>3. \A x \in Clients : rpmKey'[x].n > 0 => rpmKey'[x] = rpmKey[x]
    BY <1>0, <2>2 DEF Missing
  <2>4. QED
    BY <2>1, <2>3 DEF SilenceInv, Client
<1>5. CASE Tick
  <2>1. /\ UNCHANGED <<redis, last, rpmKey, buckets, faults, pc, fits, job>>
        /\ now' = now + 1 /\ \A r \in Requests : pc[r] # "rpmTtl"
        /\ \A c \in Clients : ~(rpmKey[c].exp > 0 /\ rpmKey[c].exp <= now)
    BY <1>5 DEF Tick, memVars, reqVars, Expired
  <2>2. \A x \in Clients : last'[x] <= now'
    BY <1>0, <2>1 DEF SilenceInv
  <2>3. \A x \in Clients : <<"rpm", x>> \in DOMAIN buckets' => buckets'[<<"rpm", x>>].win <= last'[x]
    BY <2>1 DEF SilenceInv
  <2>4. ASSUME faults = 0, redis, NEW x \in Clients, rpmKey[x].n > 0
        PROVE  now + 1 <= last[x] + 1 /\ rpmKey[x].exp <= last[x] + 1 /\ rpmKey[x].exp > now
    <3>1. /\ now <= last[x] + 1 /\ rpmKey[x].exp <= last[x] + 1 /\ rpmKey[x].exp # 0
          /\ rpmKey[x].exp # Never
      BY <2>1, <2>4 DEF SilenceInv
    <3>2. rpmKey[x].exp \in {Never} \cup Nat
      BY AdmissionAssumption, <1>0 DEF Keys
    <3>3. rpmKey[x].exp > 0
      BY <3>1, <3>2
    <3>4. QED
      BY <1>0, <1>1, <2>1, <3>1, <3>3
  <2>5. \A x \in Clients : faults = 0 /\ redis /\ rpmKey[x].n > 0 => rpmKey[x].exp # Never
    BY <2>1 DEF SilenceInv
  <2>6. ASSUME faults' = 0, redis', NEW x \in Clients, rpmKey'[x].n > 0
        PROVE  /\ now' <= last'[x] + 1 /\ rpmKey'[x].exp <= last'[x] + 1 /\ rpmKey'[x].exp # 0
               /\ rpmKey'[x].exp # Never
    BY <1>0, <1>1, <2>1, <2>4, <2>5, <2>6
  <2>7. \A r \in Requests : /\ pc'[r] \in {"idle", "rpm"} => fits'[r]
                            /\ pc'[r] # "rpmTtl"
    BY <2>1 DEF SilenceInv
  <2>8. QED
    BY <2>2, <2>3, <2>6, <2>7 DEF SilenceInv
<1>6. CASE Restart
  <2>1. /\ UNCHANGED <<now, last, fits>> /\ faults' # 0 /\ buckets' = <<>>
        /\ \A r \in Requests : pc'[r] = IF r \in Busy THEN "done" ELSE pc[r]
    BY <1>0, <1>6 DEF Restart
  <2>2. \A r \in Requests : pc'[r] \in {"idle", "rpm"} => fits'[r]
    BY <2>1 DEF SilenceInv
  <2>3. DOMAIN buckets' = {}
    BY <2>1
  <2>4. QED
    BY <2>1, <2>2, <2>3 DEF SilenceInv
<1>7. CASE ReportPanics \/ UNCHANGED vars
  BY <1>7 DEF ReportPanics, vars, storeVars, memVars, histVars, reqVars, SilenceInv, Client
<1>8. QED
  BY <1>2, <1>3, <1>4, <1>5, <1>6, <1>7 DEF Next

-----------------------------------------------------------------------------
(***************************************************************************)
(* The invariant, and what follows from it.                                *)
(***************************************************************************)

LEMMA InitTypes == Init => Types
<1> SUFFICES ASSUME Init PROVE Types
  OBVIOUS
<1>1. /\ MaxNow \in Nat /\ MaxFaults \in Nat
      /\ \A c \in Clients : Limit[c] \in Int
  BY AdmissionAssumption
<1>2. Missing \in Keys /\ Missing.n = 0
  BY <1>1 DEF Missing, Keys, Never
<1>3. limit \in [Clients -> Int]
  BY <1>1 DEF Init, Normal, Unlimited
<1>4. rpmKey = [c \in Clients |-> Missing] /\ tpmKey = [c \in Clients |-> Missing]
  BY DEF Init
<1>5. /\ rpmKey \in [Clients -> Keys] /\ tpmKey \in [Clients -> Keys]
      /\ \A c \in Clients : /\ rpmKey[c].n >= 0 /\ (rpmKey[c].n = 0 => rpmKey[c] = Missing)
                            /\ CounterOK(rpmKey[c]) /\ CounterOK(tpmKey[c])
  BY <1>2, <1>4 DEF CounterOK, Keys
<1>6. /\ pc \in [Requests -> Places] /\ answer \in [Requests -> Answers]
      /\ \A r \in Requests : answer[r] # "none" <=> pc[r] = "done"
      /\ fits \in [Requests -> BOOLEAN] /\ stale \in [Requests -> BOOLEAN]
  BY DEF Init, Places, Answers
<1>7. DOMAIN spent = {} /\ DOMAIN buckets = {}
  BY DEF Init
<1>8. /\ charged \in [Clients -> Int] /\ top \in [Clients -> Int] /\ money \in [Clients -> Nat]
      /\ passed \in [Clients -> Nat] /\ granted \in [Clients -> Nat] /\ late \in [Clients -> Nat]
      /\ last \in [Clients -> Int]
  BY <1>3 DEF Init
<1>9. /\ redis \in BOOLEAN /\ now \in 0 .. MaxNow /\ faults \in 0 .. MaxFaults
      /\ known \subseteq Clients /\ job \in Mixes
      /\ held \in BOOLEAN /\ unpaid \in [Clients -> Nat]
  <2>1. now \in 0 .. MaxNow /\ faults \in 0 .. MaxFaults /\ unpaid \in [Clients -> Nat]
    BY <1>1 DEF Init
  <2>2. redis \in BOOLEAN /\ known \subseteq Clients /\ job \in Mixes /\ held \in BOOLEAN
    BY Zenon DEF Init
  <2>3. QED
    BY <2>1, <2>2
<1>10. TypeOK
  BY <1>3, <1>5, <1>6, <1>7, <1>8, <1>9 DEF TypeOK
<1>11. /\ DOMAIN buckets \subseteq BucketKeys
       /\ \A k \in DOMAIN buckets : buckets[k] \in BucketTypes
       /\ \A c \in DOMAIN spent : spent[c] \in [period : Int, usd : Nat]
  BY <1>7
<1>12. QED
  BY <1>5, <1>6, <1>8, <1>9, <1>10, <1>11 DEF Types

LEMMA InitInv == Init => Inv
<1> SUFFICES ASSUME Init PROVE Inv
  OBVIOUS
<1>1. Types
  BY InitTypes
<1>2. RateInv
  <2>1. \A c \in Clients : passed[c] = 0 /\ rpmKey[c] = Missing
    BY DEF Init
  <2>2. \A c \in Clients : Bucket(<<"rpm", c>>) = [win |-> now, n |-> 0, tok |-> 0]
    BY DEF Init, Bucket
  <2>3. RPM \in Nat /\ faults = 0
    BY AdmissionAssumption DEF Init
  <2>4. \A c \in Clients : rpmKey[c].n = 0 /\ Bucket(<<"rpm", c>>).n = 0
    <3>1. \A c \in Clients : rpmKey[c].n = 0
      BY <2>1 DEF Missing
    <3>2. [win |-> now, n |-> 0, tok |-> 0].n = 0
      OBVIOUS
    <3>3. \A c \in Clients : Bucket(<<"rpm", c>>).n = 0
      BY <2>2, <3>2
    <3>4. QED
      BY <3>1, <3>3
  <2>5. ASSUME NEW c \in Clients
        PROVE  /\ passed[c] <= RPM + faults /\ passed[c] <= rpmKey[c].n + faults
               /\ passed[c] <= Bucket(<<"rpm", c>>).n
    BY <2>1, <2>3, <2>4
  <2>6. QED
    BY <2>5 DEF RateInv
<1>3. SilenceInv
  <2>1. /\ now = 0 /\ \A c \in Clients : last[c] = -2 /\ rpmKey[c] = Missing
        /\ \A r \in Requests : pc[r] = "idle" /\ fits[r]
        /\ DOMAIN buckets = {}
    BY DEF Init
  <2>2. QED
    BY <2>1 DEF SilenceInv, Missing
<1>4. QED
  BY <1>1, <1>2, <1>3 DEF Inv

LEMMA Inductive == Inv /\ [Next]_vars => Inv'
BY TypesInv, RateStep, SilenceStep DEF Inv

LEMMA Invariant == Spec => []Inv
BY InitInv, Inductive, PTL DEF Spec

(***************************************************************************)
(* Every request has exactly one answer, with which its handler ends, and  *)
(* a counter of Redis begins again only when it expires.                   *)
(***************************************************************************)
THEOREM AdmissionTypes == Spec => []TypeOK
<1>1. Inv => TypeOK
  BY DEF Inv, Types
<1>2. QED
  BY Invariant, <1>1, PTL

(***************************************************************************)
(* Limiter.Allow: until its counter begins again, no client gets more than *)
(* rate_limit_rpm requests through, and one more for each failed command,  *)
(* with any number of clients, requests and failures.                      *)
(***************************************************************************)
THEOREM RateKept == Spec => []RateHeld
<1>1. Inv => RateHeld
  BY DEF Inv, RateInv, RateHeld
<1>2. QED
  BY Invariant, <1>1, PTL

(***************************************************************************)
(* A client that has kept silent for a minute is let through, unless a     *)
(* command has failed: the counter that refuses it has counted it in this  *)
(* minute or the one before.                                               *)
(***************************************************************************)
THEOREM Forgiven == Spec => SilenceForgives
<1> DEFINE Forgives == \A r \in Requests :
             pc[r] = "rpm" /\ pc'[r] # "rpm" /\ ~fits'[r]
               => now <= last[Client(r)] + 1 \/ faults' > 0
<1>1. ASSUME Inv, Inv', [Next]_vars, NEW r \in Requests,
             pc[r] = "rpm", pc'[r] # "rpm", ~fits'[r], ~(faults' > 0)
      PROVE  now <= last[Client(r)] + 1
  <2>0. /\ Types /\ Types' /\ RateInv /\ SilenceInv /\ faults' = 0 /\ pc[r] # "done"
        /\ faults \in Nat /\ RPM \in Nat
        /\ r \notin {q \in Requests : pc[q] \in {"idle", "done"}}
    BY <1>1, AdmissionAssumption DEF Inv, Types, TypeOK
  <2>1. Allow(r)
    <3>1. ASSUME NEW q \in Requests, Handler(q) PROVE Allow(r)
      <4>1. q = r
        BY <1>1, <2>0, <3>1, HandlerFrame
      <4>2. ~Panics(q)
        BY <2>0 DEF Panics
      <4>3. QED
        BY <1>1, <3>1, <4>1, <4>2
        DEF Handler, Arrive, ExpireRpm, Exceeded, Check, AllowTokens, ExpireTpm, Refund, Serve, Fail,
            Hangs
    <3>2. ~Restart
      BY <2>0 DEF Restart
    <3>3. ~Tick /\ ~ReportPanics /\ ~UNCHANGED vars /\ \A c \in Clients : ~(UpdateLimit(c) \/ GenerateToken(c) \/ ExpireKey(c))
      <4>1. Tick \/ ReportPanics \/ UNCHANGED vars \/ (\E c \in Clients : UpdateLimit(c) \/ GenerateToken(c) \/ ExpireKey(c))
              => pc' = pc
        BY DEF Tick, ReportPanics, UpdateLimit, GenerateToken, ExpireKey, vars, reqVars
      <4>2. QED
        BY <1>1, <4>1
    <3>4. QED
      BY <1>1, <3>1, <3>2, <3>3 DEF Next
  <2> PICK c \in Clients : c = Client(r)
    BY <2>0, JobType
  <2> DEFINE k == <<"rpm", c>>
  <2>2. fits[r] /\ now \in Nat /\ last[c] \in Int /\ rpmKey[c] \in Keys /\ rpmKey[c].n \in Nat
    BY <1>1, <2>0, AdmissionAssumption DEF SilenceInv, Types, TypeOK, Keys
  <2>3. RPM > 0 /\ \E o \in Outcomes :
          /\ IF redis THEN Command(o) ELSE o = Plain /\ UNCHANGED faults
          /\ rpmKey' = IF redis /\ o.times > 0
                       THEN [rpmKey EXCEPT ![c] = Incr(@, o.times)] ELSE rpmKey
          /\ IF Locally(o)
             THEN \E w : Verdict(r, Bucket(k).n + 1 <= RPM, w)
             ELSE \E n \in Reads(o, rpmKey'[c].n) : Verdict(r, n <= RPM, FALSE)
    BY <1>1, <2>0, <2>1, <2>2 DEF Allow
  <2>4. PICK o \in Outcomes :
          /\ IF redis THEN Command(o) ELSE o = Plain /\ UNCHANGED faults
          /\ rpmKey' = IF redis /\ o.times > 0
                       THEN [rpmKey EXCEPT ![c] = Incr(@, o.times)] ELSE rpmKey
          /\ IF Locally(o)
             THEN \E w : Verdict(r, Bucket(k).n + 1 <= RPM, w)
             ELSE \E n \in Reads(o, rpmKey'[c].n) : Verdict(r, n <= RPM, FALSE)
    BY <2>3
  <2>5. faults = 0 /\ o.times = 1 /\ o.says = "own" /\ (Locally(o) <=> ~redis)
    BY <2>0, <2>4, Faultless
  <2>6. fits \in [Requests -> BOOLEAN]
    BY <2>0 DEF Types
  <2>7. CASE redis
    <3>1. ~(rpmKey'[c].n <= RPM)
      <4>1. Verdict(r, rpmKey'[c].n <= RPM, FALSE)
        BY <2>4, <2>5, <2>7 DEF Reads
      <4>2. fits' = [fits EXCEPT ![r] = rpmKey'[c].n <= RPM]
        BY <4>1 DEF Verdict
      <4>3. QED
        BY <1>1, <2>6, <4>2
    <3>2. rpmKey'[c].n = rpmKey[c].n + 1
      <4>1. rpmKey'[c] = Incr(rpmKey[c], 1)
        BY <2>0, <2>4, <2>5, <2>7 DEF Types
      <4>2. now \in 0 .. MaxNow
        BY <2>0 DEF Types, TypeOK
      <4>3. Incr(rpmKey[c], 1).n = rpmKey[c].n + 1
        <5>1. rpmKey[c] \in Keys
          BY <2>2
        <5>2. \A d \in Int : Incr(rpmKey[c], d).n = rpmKey[c].n + d
          BY <4>2, <5>1, KeyOps
        <5>3. QED
          BY <5>2
      <4>4. QED
        BY <4>1, <4>3
    <3>3. rpmKey[c].n > 0
      BY <2>0, <2>2, <2>3, <3>1, <3>2
    <3>4. QED
      BY <2>0, <2>5, <2>7, <3>3 DEF SilenceInv
  <2>8. CASE ~redis
    <3>1. ~(Bucket(k).n + 1 <= RPM)
      <4>1. \E w : Verdict(r, Bucket(k).n + 1 <= RPM, w)
        BY <2>4, <2>5, <2>8
      <4>2. fits' = [fits EXCEPT ![r] = Bucket(k).n + 1 <= RPM]
        BY <4>1 DEF Verdict
      <4>3. QED
        BY <1>1, <2>6, <4>2
    <3>2. Bucket(k).n # 0
      BY <2>0, <2>3, <3>1
    <3>3. k \in DOMAIN buckets /\ buckets[k].win = now
      BY <3>2 DEF Bucket
    <3>4. now <= last[c]
      BY <2>0, <3>3 DEF SilenceInv
    <3>5. QED
      BY <2>2, <3>4
  <2>9. QED
    BY <2>7, <2>8
<1>2. Inv /\ Inv' /\ [Next]_vars => Forgives
  BY <1>1
<1>3. Inv /\ Inv' /\ [Next]_vars => [Forgives]_vars
  BY <1>2
<1>4. QED
  BY Invariant, <1>3, PTL DEF Spec, SilenceForgives

-----------------------------------------------------------------------------
(* Tokens and money. *)

\* The tokens refused requests of c are still to take back from its counter, as
\* pairs, so that their number is a cardinality.
OwedBy(r) == /\ pc[r] \in {"tpmTtl", "refund"} /\ ~fits[r] /\ ~stale[r]
Owed(c) == {p \in Requests \X (1 .. MaxEst) :
              Client(p[1]) = c /\ OwedBy(p[1]) /\ p[2] <= job[p[1]].est}

Slack == faults * MaxEst
Counted(c) == tpmKey[c].n + late[c] + Slack

\* What a store has counted covers what was let through and what is owed to it; a
\* verdict is in that count or in a failed command.
TokenOf(c) ==
  /\ Counted(c) >= 0
  /\ redis => granted[c] + Cardinality(Owed(c)) <= Counted(c)
  /\ redis /\ TPM[c] > 0 => granted[c] <= TPM[c] + late[c] + Slack
  /\ ~redis => granted[c] <= TPM[c] /\ granted[c] <= Bucket(<<"tpm", c>>).tok

TokenInv ==
  /\ ~redis => \A r \in Requests : pc[r] \notin {"rpmTtl", "tpmTtl", "refund"}
  /\ \A r \in Requests : pc[r] = "refund" => ~fits[r]
  /\ \A c \in Clients : TokenOf(c)

\* Requests of c that have passed the budget and may still be charged.
Passed(r) == \/ pc[r] \in {"tpm", "tpmTtl", "refund", "upstream"}
             \/ pc[r] = "checks" /\ ~job[r].chat
Ahead(c) == {r \in Requests : Client(r) = c /\ Passed(r)}

Cap(c) == IF top[c] > 0 THEN top[c] - 1 ELSE 0
Room(c) == MaxBusy - Cardinality(Ahead(c)) + faults
Bound(c) == Room(c) * MaxCost
Lent == faults * MaxCost

\* Store and memory cover every charge that was recorded at all, and without a store
\* memory does by itself; a charge in memory beside a store, or in neither, is a
\* failed command; and the bound has room for every request ahead.
BudgetOf(c) ==
  /\ charged[c] <= money[c] + SpentLocally(c) + unpaid[c]
  /\ ~redis => charged[c] <= SpentLocally(c) /\ unpaid[c] = 0
  /\ redis => SpentLocally(c) + unpaid[c] <= Lent
  /\ limit[c] < 0 => top[c] < 0
  /\ limit[c] >= 0 /\ top[c] >= 0 => limit[c] <= top[c]
  /\ top[c] >= 0 => charged[c] <= Cap(c) + Bound(c)

BudgetInv ==
  /\ Cardinality(Busy) <= MaxBusy
  /\ \A c \in DOMAIN spent : spent[c].period <= Period(now)
  /\ \A c \in Clients : BudgetOf(c)

-----------------------------------------------------------------------------
(***************************************************************************)
(* Maxima, costs and estimates.                                            *)
(***************************************************************************)

LEMMA CostBound == MaxCost \in Nat /\ \A usd \in Costs : usd <= MaxCost
<1>1. Costs \in SUBSET Int /\ IsFiniteSet(Costs) /\ Costs # {} /\ Costs \subseteq Nat
  BY AdmissionAssumption
<1>2. Max(Costs) \in Costs /\ \A x \in Costs : x <= Max(Costs)
  BY <1>1, Greatest
<1>3. QED
  BY <1>1, <1>2 DEF MaxCost

LEMMA EstBound ==
  ASSUME job \in Mixes
  PROVE  MaxEst \in Nat /\ \A r \in Requests : job[r].est \in 0 .. MaxEst
<1> DEFINE S == {job[r].est : r \in Requests}
           f == [r \in Requests |-> job[r].est]
<1>1. S \subseteq Nat /\ S # {} /\ S \in SUBSET Int
  BY AdmissionAssumption
<1>2. IsFiniteSet(Requests)
  BY AdmissionAssumption
<1>3. f \in Surjection(Requests, S)
  BY DEF Surjection
<1>4. IsFiniteSet(S)
  BY <1>2, <1>3, FS_Surjection
<1> HIDE DEF f, S
<1>5. Max(S) \in S /\ \A x \in S : x <= Max(S)
  BY <1>1, <1>4, Greatest
<1>6. QED
  BY <1>1, <1>5 DEF MaxEst, S

\* Room for one more of what is bounded by M.
LEMMA Product ==
  ASSUME NEW k \in Nat, NEW M \in Nat
  PROVE  /\ k * M \in Nat /\ (k + 1) * M = k * M + M
OBVIOUS

\* Quantities of the invariants, and their types.
Numbers ==
  /\ MaxEst \in Nat /\ Slack \in Nat /\ faults \in Nat
  /\ \A c \in Clients :
       /\ tpmKey[c].n \in Int /\ late[c] \in Nat /\ granted[c] \in Nat /\ TPM[c] \in Nat
       /\ IsFiniteSet(Owed(c)) /\ Cardinality(Owed(c)) \in Nat
       /\ Bucket(<<"tpm", c>>).tok \in Nat

LEMMA Quantities == Types => Numbers
<1> SUFFICES ASSUME Types PROVE Numbers
  OBVIOUS
<1>1. MaxEst \in Nat
  BY EstBound DEF Types
<1>2. faults \in Nat
  BY AdmissionAssumption DEF Types, TypeOK
<1>3. Slack \in Nat
  BY <1>1, <1>2, Product DEF Slack
<1>4. ASSUME NEW c \in Clients
      PROVE  IsFiniteSet(Owed(c)) /\ Cardinality(Owed(c)) \in Nat
  <2>1. IsFiniteSet(Requests) /\ IsFiniteSet(1 .. MaxEst)
    <3>1. 1 \in Int /\ MaxEst \in Int
      BY <1>1
    <3>2. QED
      BY <3>1, AdmissionAssumption, FS_Interval
  <2>2. IsFiniteSet(Requests \X (1 .. MaxEst))
    BY <2>1, FS_Product
  <2>3. IsFiniteSet(Owed(c))
    BY <2>2, FS_Subset DEF Owed
  <2>4. QED
    BY <2>3, FS_CardinalityType
<1>5. \A c \in Clients : tpmKey[c].n \in Int /\ late[c] \in Nat /\ granted[c] \in Nat /\ TPM[c] \in Nat
  BY AdmissionAssumption DEF Types, Keys
<1>6. ASSUME NEW c \in Clients PROVE Bucket(<<"tpm", c>>).tok \in Nat
  <2>1. <<"tpm", c>> \in BucketKeys
    BY DEF BucketKeys
  <2>2. Bucket(<<"tpm", c>>) \in BucketTypes
    BY <2>1, BucketOps
  <2>3. QED
    BY <2>2 DEF BucketTypes
<1>7. QED
  BY <1>1, <1>2, <1>3, <1>4, <1>5, <1>6 DEF Numbers

LEMMA NextQuantities == Types' => Numbers'
BY Quantities, PTL

-----------------------------------------------------------------------------
(***************************************************************************)
(* Tokens.                                                                 *)
(***************************************************************************)

\* What one request may owe.
Part(r) == {r} \X (1 .. job[r].est)

LEMMA PartSize ==
  ASSUME Types, NEW r \in Requests
  PROVE  IsFiniteSet(Part(r)) /\ Cardinality(Part(r)) = job[r].est
<1> DEFINE n == job[r].est
<1>1. n \in Nat
  BY JobType
<1>2. IsFiniteSet({r}) /\ Cardinality({r}) = 1
  BY FS_Singleton
<1>3. IsFiniteSet(1 .. n) /\ Cardinality(1 .. n) = n
  <2>1. 1 \in Int /\ n \in Int
    BY <1>1
  <2>2. /\ IsFiniteSet(1 .. n)
        /\ Cardinality(1 .. n) = IF 1 > n THEN 0 ELSE n - 1 + 1
    BY <2>1, FS_Interval
  <2>3. QED
    BY <1>1, <2>2
<1>4. IsFiniteSet({r} \X (1 .. n)) /\ Cardinality({r} \X (1 .. n)) = 1 * n
  BY <1>2, <1>3, FS_Product
<1>5. QED
  BY <1>1, <1>4 DEF Part

\* The debts of a client as its requests move.
LEMMA OwedSame ==
  ASSUME Types, job' = job, \A q \in Requests : OwedBy(q)' <=> OwedBy(q), NEW c \in Clients
  PROVE  Owed(c)' = Owed(c)
<1>1. MaxEst' = MaxEst
  BY DEF MaxEst
<1>2. QED
  BY <1>1 DEF Owed, Client

LEMMA OwedMore ==
  ASSUME Types, job' = job, NEW r \in Requests, ~OwedBy(r), OwedBy(r)',
         NEW c \in Clients, c = Client(r),
         \A q \in Requests : q # r => (OwedBy(q)' <=> OwedBy(q))
  PROVE  /\ Cardinality(Owed(c)') = Cardinality(Owed(c)) + job[r].est
         /\ \A x \in Clients : x # c => Owed(x)' = Owed(x)
<1>1. MaxEst' = MaxEst /\ MaxEst \in Nat
  BY Quantities DEF MaxEst, Numbers
<1>2. job[r].est \in 0 .. MaxEst
  BY EstBound DEF Types
<1>3. \A x \in Clients : x # c => Owed(x)' = Owed(x)
  BY <1>1 DEF Owed, Client
<1>4. Owed(c)' = Owed(c) \cup Part(r)
  BY <1>1, <1>2 DEF Owed, Client, Part
<1>9. IsFiniteSet(Part(r)) /\ Cardinality(Part(r)) \in Nat
  BY JobType, PartSize
<1>5. Owed(c) \cap Part(r) = {}
  BY DEF Owed, Part
<1>6. IsFiniteSet(Owed(c)) /\ Cardinality(Owed(c)) \in Nat
  BY JobType, Quantities DEF Numbers
<1>7. Cardinality(Owed(c) \cup Part(r)) = Cardinality(Owed(c)) + Cardinality(Part(r))
  <2>1. Cardinality(Owed(c) \cup Part(r)) = Cardinality(Owed(c)) + Cardinality(Part(r)) - Cardinality({})
    BY <1>5, <1>6, <1>9, FS_Union
  <2>2. QED
    BY <1>6, <1>9, <2>1, FS_EmptySet
<1>8. QED
  BY <1>3, <1>4, <1>7, PartSize

LEMMA OwedLess ==
  ASSUME Types, job' = job, NEW r \in Requests, OwedBy(r), ~OwedBy(r)',
         NEW c \in Clients, c = Client(r),
         \A q \in Requests : q # r => (OwedBy(q)' <=> OwedBy(q))
  PROVE  /\ Cardinality(Owed(c)') = Cardinality(Owed(c)) - job[r].est
         /\ \A x \in Clients : x # c => Owed(x)' = Owed(x)
<1>1. MaxEst' = MaxEst /\ MaxEst \in Nat
  BY Quantities DEF MaxEst, Numbers
<1>2. job[r].est \in 0 .. MaxEst
  BY EstBound DEF Types
<1>3. \A x \in Clients : x # c => Owed(x)' = Owed(x)
  BY <1>1 DEF Owed, Client
<1>4. Owed(c)' = Owed(c) \ Part(r)
  BY <1>1, <1>2 DEF Owed, Client, Part
<1>5. Part(r) \subseteq Owed(c)
  <2>1. ASSUME NEW j \in 1 .. job[r].est PROVE <<r, j>> \in Owed(c)
    BY <1>1, <1>2 DEF Owed
  <2>2. QED
    BY <2>1 DEF Part
<1>6. IsFiniteSet(Owed(c)) /\ Cardinality(Owed(c)) \in Nat
  BY JobType, Quantities DEF Numbers
<1>7. /\ Owed(c) \cap Part(r) = Part(r)
      /\ Cardinality(Owed(c) \ Part(r))
           = Cardinality(Owed(c)) - Cardinality(Owed(c) \cap Part(r))
  BY <1>5, <1>6, FS_Difference
<1>8. QED
  BY <1>3, <1>4, <1>7, PartSize

\* A fault makes room for one request's tokens.
LEMMA SlackGrows ==
  ASSUME Types, job' = job, faults' \in {faults, faults + 1}
  PROVE  /\ MaxEst' = MaxEst /\ Slack' \in {Slack, Slack + MaxEst}
         /\ faults' = faults => Slack' = Slack
         /\ faults' = faults + 1 => Slack' = Slack + MaxEst
<1>1. MaxEst \in Nat /\ faults \in Nat /\ MaxEst' = MaxEst
  BY Quantities DEF MaxEst, Numbers
<1>2. (faults + 1) * MaxEst = faults * MaxEst + MaxEst
  BY <1>1, Product
<1>3. QED
  BY <1>1, <1>2 DEF Slack

\* A client whose counts stay, or that starts from nothing, keeps its bounds.
LEMMA TokenFrame ==
  ASSUME Types, Types', NEW c \in Clients, TokenOf(c), redis' = redis, Slack' >= Slack,
         tpmKey'[c].n = tpmKey[c].n \/ tpmKey'[c].n >= tpmKey[c].n, late'[c] = late[c],
         Cardinality(Owed(c)') <= Cardinality(Owed(c)),
         \/ granted'[c] = 0 /\ ~redis
         \/ granted'[c] = granted[c] /\ Bucket(<<"tpm", c>>)' = Bucket(<<"tpm", c>>)
         \/ granted'[c] = granted[c] /\ redis
  PROVE  TokenOf(c)'
<1>1. /\ tpmKey[c].n \in Int /\ late[c] \in Nat /\ granted[c] \in Nat /\ TPM[c] \in Nat
      /\ Cardinality(Owed(c)) \in Nat /\ Slack \in Nat
      /\ Bucket(<<"tpm", c>>).tok \in Nat
  BY Quantities DEF Numbers
<1>2. /\ tpmKey'[c].n \in Int /\ late'[c] \in Nat /\ granted'[c] \in Nat
      /\ Cardinality(Owed(c)') \in Nat /\ Slack' \in Nat
      /\ Bucket(<<"tpm", c>>)'.tok \in Nat
  BY NextQuantities DEF Numbers
<1>3. Counted(c)' = tpmKey'[c].n + late'[c] + Slack'
  BY DEF Counted
<1>4. Counted(c) = tpmKey[c].n + late[c] + Slack
  BY DEF Counted
<1>5. Counted(c)' \in Int /\ Counted(c) \in Int /\ Counted(c)' >= Counted(c)
  BY <1>1, <1>2, <1>3, <1>4
<1>6. /\ Counted(c) >= 0
      /\ redis => granted[c] + Cardinality(Owed(c)) <= Counted(c)
      /\ redis /\ TPM[c] > 0 => granted[c] <= TPM[c] + late[c] + Slack
      /\ ~redis => granted[c] <= TPM[c] /\ granted[c] <= Bucket(<<"tpm", c>>).tok
  BY DEF TokenOf
<1>7. Counted(c)' >= 0
  BY <1>5, <1>6
<1>8. CASE redis
  <2>1. granted'[c] = granted[c]
    BY <1>8
  <2>2. granted'[c] + Cardinality(Owed(c)') <= Counted(c)'
    BY <1>1, <1>2, <1>5, <1>6, <1>8, <2>1
  <2>3. TPM[c] > 0 => granted'[c] <= TPM[c] + late'[c] + Slack'
    BY <1>1, <1>2, <1>6, <1>8, <2>1
  <2>4. QED
    BY <1>7, <1>8, <2>2, <2>3 DEF TokenOf
<1>9. CASE ~redis
  <2>1. granted'[c] <= TPM[c] /\ granted'[c] <= Bucket(<<"tpm", c>>)'.tok
    <3>1. CASE granted'[c] = 0
      BY <1>1, <1>2, <3>1
    <3>2. CASE granted'[c] = granted[c] /\ Bucket(<<"tpm", c>>)' = Bucket(<<"tpm", c>>)
      BY <1>6, <1>9, <3>2
    <3>3. QED
      BY <1>9, <3>1, <3>2
  <2>2. QED
    BY <1>7, <1>9, <2>1 DEF TokenOf
<1>10. QED
  BY <1>8, <1>9

\* The steps of a handler that no tokens move in.
LEMMA TokenApart ==
  ASSUME Types, Types', TokenInv, NEW r \in Requests, Handler(r), ~AllowTokens(r), ~Refund(r),
         ~Panics(r)
  PROVE  TokenInv'
<1>0. /\ pc \in [Requests -> Places] /\ fits \in [Requests -> BOOLEAN]
      /\ tpmKey \in [Clients -> Keys] /\ faults \in 0 .. MaxFaults /\ now \in 0 .. MaxNow
      /\ redis \in BOOLEAN /\ Client(r) \in Clients
  BY JobType DEF Types, TypeOK
<1>1. /\ faults' \in {faults, faults + 1} /\ UNCHANGED <<redis, now, job>>
      /\ \A q \in Requests \ {r} : pc'[q] = pc[q] /\ fits'[q] = fits[q] /\ stale'[q] = stale[q]
  BY HandlerFrame
<1>2. UNCHANGED <<late, stale>>
  BY DEF Handler, Arrive, Allow, ExpireRpm, Exceeded, Check, ExpireTpm, Serve, Fail, Hangs, histVars
<1>3. Slack' >= Slack
  <2>1. MaxEst \in Nat /\ Slack \in Nat
    BY Quantities DEF Numbers
  <2>2. QED
    BY <1>1, <2>1, SlackGrows
<1>4. \A c \in Clients : tpmKey'[c].n = tpmKey[c].n
  <2>1. tpmKey' = tpmKey \/ tpmKey' = [tpmKey EXCEPT ![Client(r)] = Pexpire(@)]
    BY DEF Handler, Arrive, Allow, ExpireRpm, Exceeded, Check, ExpireTpm, Serve, Fail, Hangs, storeVars
  <2>2. \A c \in Clients : tpmKey[c] \in Keys
    BY <1>0
  <2>3. \A c \in Clients : Pexpire(tpmKey[c]).n = tpmKey[c].n
    BY <1>0, <2>2, KeyOps
  <2>4. QED
    BY <1>0, <2>1, <2>3
<1>5. /\ OwedBy(r)' <=> OwedBy(r)
      /\ pc'[r] = "refund" => ~fits'[r]
      /\ ~redis => pc'[r] \notin {"rpmTtl", "tpmTtl", "refund"}
  <2>1. CASE ExpireTpm(r)
    BY <1>0, <2>1 DEF ExpireTpm, Command, Goto, OwedBy
  <2>2. CASE Allow(r)
    <3>1. pc[r] = "rpm" /\ pc'[r] \notin {"tpmTtl", "refund"}
      BY <1>0, <2>2 DEF Allow, Goto, Refuse, AfterRate
    <3>2. ~redis => pc'[r] # "rpmTtl"
      BY <1>0, <2>2 DEF Allow, Goto, Refuse, AfterRate, Locally
    <3>3. QED
      BY <3>1, <3>2 DEF OwedBy
  <2>3. CASE ~ExpireTpm(r) /\ ~Allow(r)
    <3>1. pc[r] \notin {"tpmTtl", "refund"} /\ pc'[r] \notin {"rpmTtl", "tpmTtl", "refund"}
      BY <1>0, <2>3
      DEF Handler, Arrive, ExpireRpm, Exceeded, Check, Serve, Fail, Hangs,
          Goto, Refuse, AfterRate, AfterChecks, AfterBudget
    <3>2. QED
      BY <3>1 DEF OwedBy
  <2>4. QED
    BY <2>1, <2>2, <2>3
<1>6. \A q \in Requests : OwedBy(q)' <=> OwedBy(q)
  BY <1>1, <1>5 DEF OwedBy
<1>7. \A c \in Clients : Owed(c)' = Owed(c)
  BY <1>1, <1>6, OwedSame
<1>8. \A c \in Clients : \/ granted'[c] = 0 /\ ~redis
                         \/ granted'[c] = granted[c] /\ Bucket(<<"tpm", c>>)' = Bucket(<<"tpm", c>>)
                         \/ granted'[c] = granted[c] /\ redis
  <2>1. CASE UNCHANGED <<granted, buckets>>
    BY <1>1, <2>1 DEF Bucket
  <2>2. CASE Allow(r) /\ ~UNCHANGED <<granted, buckets>>
    <3> PICK k : k = <<"rpm", Client(r)>>
      OBVIOUS
    <3>1. \/ \E ok : /\ buckets' = With(IF Drops(k) THEN <<>> ELSE buckets, k,
                                        [Bucket(k) EXCEPT !.n = @ + 1])
                     /\ Verdict(r, ok, Drops(k))
          \/ \E ok : buckets' = buckets /\ Verdict(r, ok, FALSE)
      BY <2>2 DEF Allow
    <3>2. /\ buckets' = With(IF Drops(k) THEN <<>> ELSE buckets, k, [Bucket(k) EXCEPT !.n = @ + 1])
          /\ granted' = IF Drops(k) /\ ~redis THEN [x \in Clients |-> 0] ELSE granted
      BY <2>2, <3>1 DEF Verdict
    <3>3. CASE Drops(k)
      BY <1>0, <3>2, <3>3
    <3>4. CASE ~Drops(k)
      <4>1. buckets' = With(buckets, k, [Bucket(k) EXCEPT !.n = @ + 1]) /\ granted' = granted
        BY <3>2, <3>4
      <4>2. \A c : <<"tpm", c>> # k
        OBVIOUS
      <4>3. \A c : /\ <<"tpm", c>> \in DOMAIN buckets' <=> <<"tpm", c>> \in DOMAIN buckets
                   /\ <<"tpm", c>> \in DOMAIN buckets => buckets'[<<"tpm", c>>] = buckets[<<"tpm", c>>]
        BY <4>1, <4>2 DEF With
      <4>4. \A c : Bucket(<<"tpm", c>>)' = Bucket(<<"tpm", c>>)
        BY <1>1, <4>3 DEF Bucket
      <4>5. QED
        BY <4>1, <4>4
    <3>5. QED
      BY <3>3, <3>4
  <2>3. QED
    BY <2>1, <2>2
    DEF Handler, Arrive, ExpireRpm, Exceeded, Check, ExpireTpm, Serve, Fail, Hangs, memVars,
        histVars
<1>9. ASSUME NEW c \in Clients PROVE TokenOf(c)'
  <2>1. /\ TokenOf(c) /\ redis' = redis /\ late'[c] = late[c] /\ tpmKey'[c].n = tpmKey[c].n
        /\ Cardinality(Owed(c)') <= Cardinality(Owed(c))
    <3>1. Cardinality(Owed(c)) \in Nat
      BY Quantities DEF Numbers
    <3>2. QED
      BY <1>1, <1>2, <1>4, <1>7, <3>1 DEF TokenInv
  <2>2. QED
    BY <1>3, <1>8, <2>1, TokenFrame
<1>10. /\ ~redis' => \A q \in Requests : pc'[q] \notin {"rpmTtl", "tpmTtl", "refund"}
       /\ \A q \in Requests : pc'[q] = "refund" => ~fits'[q]
  BY <1>1, <1>5 DEF TokenInv
<1>11. QED
  BY <1>9, <1>10 DEF TokenInv

\* AllowTokens by its effect on what is counted and granted.
LEMMA AllowTokensCounts ==
  ASSUME Types, Types', NEW r \in Requests, AllowTokens(r), NEW c \in Clients, c = Client(r),
         TPM[c] > 0, job[r].est > 0
  PROVE  /\ late' = late
         /\ \A x \in Clients \ {c} : /\ tpmKey'[x] = tpmKey[x] /\ granted'[x] = granted[x]
                                     /\ Bucket(<<"tpm", x>>)' = Bucket(<<"tpm", x>>)
         /\ granted'[c] \in {granted[c], granted[c] + job[r].est}
         /\ tpmKey'[c].n >= tpmKey[c].n
         /\ redis /\ Slack' # Slack + MaxEst =>
              /\ tpmKey'[c].n = tpmKey[c].n + job[r].est
              /\ granted'[c] # granted[c] => tpmKey'[c].n <= TPM[c]
         /\ granted'[c] # granted[c] => fits'[r]
         /\ pc'[r] # "refund" /\ (~redis => pc'[r] \notin {"rpmTtl", "tpmTtl", "refund"})
         /\ ~redis => \/ granted'[c] = granted[c] /\ Bucket(<<"tpm", c>>)' = Bucket(<<"tpm", c>>)
                      \/ /\ granted'[c] = granted[c] + job[r].est
                         /\ Bucket(<<"tpm", c>>)'.tok = Bucket(<<"tpm", c>>).tok + job[r].est
                         /\ Bucket(<<"tpm", c>>)'.tok <= TPM[c]
<1> PICK k : k = <<"tpm", c>>
  OBVIOUS
<1> DEFINE est == job[r].est
<1>0. /\ est \in Nat /\ k \in BucketKeys /\ TPM[c] \in Nat /\ now' = now
      /\ tpmKey \in [Clients -> Keys] /\ faults \in 0 .. MaxFaults /\ now \in 0 .. MaxNow
      /\ granted \in [Clients -> Nat] /\ fits \in [Requests -> BOOLEAN] /\ pc \in [Requests -> Places]
      /\ Bucket(k) \in BucketTypes /\ Bucket(k).win = now /\ Bucket(k).tok \in Nat
      /\ tpmKey[c] \in Keys /\ tpmKey[c].n \in Int
  <2>1. k \in BucketKeys
    BY DEF BucketKeys
  <2>2. Bucket(k) \in BucketTypes /\ Bucket(k).win = now
    BY <2>1, BucketOps
  <2>3. Bucket(k).tok \in Nat
    BY <2>2 DEF BucketTypes
  <2>4. tpmKey \in [Clients -> Keys] /\ tpmKey[c] \in Keys
    BY DEF Types
  <2>5. tpmKey[c].n \in Int
    BY <2>4 DEF Keys
  <2>6. now' = now
    BY DEF AllowTokens
  <2>7. QED
    BY <2>1, <2>2, <2>3, <2>4, <2>5, <2>6, JobType, AdmissionAssumption DEF Types, TypeOK
<1>1. TPM[c] > 0 /\ est > 0 /\ late' = late
  BY DEF AllowTokens
<1>2. PICK o \in Outcomes :
        /\ IF redis THEN Command(o) ELSE o = Plain /\ UNCHANGED faults
        /\ tpmKey' = IF redis /\ o.times > 0
                     THEN [tpmKey EXCEPT ![c] = Incr(@, o.times * est)] ELSE tpmKey
        /\ IF Locally(o)
           THEN /\ buckets' = With(buckets, k, IF Bucket(k).tok + est <= TPM[c]
                                               THEN [Bucket(k) EXCEPT !.tok = @ + est]
                                               ELSE Bucket(k))
                /\ Grant(r, Bucket(k).tok + est <= TPM[c])
                /\ IF Bucket(k).tok + est <= TPM[c] THEN Goto(r, "upstream") ELSE Refuse(r, "limited")
           ELSE /\ \E n \in Reads(o, tpmKey'[c].n) : Grant(r, n <= TPM[c])
                /\ Goto(r, "tpmTtl")
                /\ UNCHANGED buckets
  <2>1. TPM[c] # 0 /\ est # 0
    BY <1>0, <1>1
  <2>2. QED
    BY <2>1 DEF AllowTokens
<1>3. /\ faults' \in {faults, faults + 1} /\ o.times \in 0 .. 2
      /\ o # Plain => faults' = faults + 1
      /\ o = Plain => o.times = 1 /\ o.says = "own"
      /\ redis /\ Slack' # Slack + MaxEst => o = Plain
  <2>1. /\ faults' \in {faults, faults + 1} /\ o.times \in 0 .. 2
        /\ o # Plain => faults' = faults + 1
        /\ o = Plain => o.times = 1 /\ o.says = "own"
    BY <1>0, <1>2, Faulty
  <2>2. job' = job
    BY DEF AllowTokens
  <2>3. faults' = faults + 1 => Slack' = Slack + MaxEst
    BY <2>1, <2>2, SlackGrows
  <2>4. QED
    BY <2>1, <2>3
<1>4. /\ \A x \in Clients \ {c} : tpmKey'[x] = tpmKey[x]
      /\ tpmKey'[c].n = tpmKey[c].n + (IF redis THEN o.times * est ELSE 0)
      /\ o.times * est \in Nat
  <2>1. o.times * est \in Nat
    BY <1>0, <1>3
  <2>2. \A d \in Int : Incr(tpmKey[c], d).n = tpmKey[c].n + d
    BY <1>0, KeyOps
  <2>3. Incr(tpmKey[c], o.times * est).n = tpmKey[c].n + o.times * est
    BY <2>1, <2>2
  <2>4. CASE redis /\ o.times > 0
    <3>1. tpmKey' = [tpmKey EXCEPT ![c] = Incr(@, o.times * est)]
      BY <1>2, <2>4
    <3>2. QED
      BY <1>0, <2>1, <2>3, <2>4, <3>1
  <2>5. CASE ~redis
    BY <1>0, <1>2, <2>1, <2>5
  <2>6. CASE redis /\ o.times = 0
    <3>1. tpmKey' = tpmKey /\ o.times * est = 0
      BY <1>0, <1>2, <2>6
    <3>2. QED
      BY <1>0, <2>6, <3>1
  <2>7. QED
    BY <1>3, <2>4, <2>5, <2>6
<1>5. /\ \A x \in Clients \ {c} : granted'[x] = granted[x]
      /\ granted'[c] \in {granted[c], granted[c] + est}
      /\ granted'[c] # granted[c] => fits'[r]
  <2>1. PICK ok : Grant(r, ok)
    BY <1>2
  <2>2. CASE ok
    <3>1. granted' = [granted EXCEPT ![c] = @ + est] /\ fits' = [fits EXCEPT ![r] = ok]
      BY <2>1, <2>2 DEF Grant
    <3>2. QED
      BY <1>0, <2>2, <3>1
  <2>3. CASE ~ok
    <3>1. granted' = [granted EXCEPT ![c] = @ + 0]
      BY <2>1, <2>3 DEF Grant
    <3>2. granted[c] \in Nat
      BY <1>0
    <3>3. granted' = granted
      BY <1>0, <3>1, <3>2
    <3>4. QED
      BY <3>3
  <2>4. QED
    BY <2>2, <2>3
<1>6. \/ buckets' = buckets
      \/ \E b : b.win = now /\ buckets' = With(buckets, k, b)
  <2>1. Bucket(k).tok + est <= TPM[c] => [Bucket(k) EXCEPT !.tok = @ + est].win = now
    BY <1>0 DEF BucketTypes
  <2>2. QED
    BY <1>0, <1>2, <2>1
<1>7. \A x \in Clients \ {c} : Bucket(<<"tpm", x>>)' = Bucket(<<"tpm", x>>)
  <2>1. \A x \in Clients \ {c} : <<"tpm", x>> # k
    OBVIOUS
  <2>2. \A y : y # k => Bucket(y)' = Bucket(y)
    <3>1. CASE buckets' = buckets
      BY <1>0, <3>1 DEF Bucket
    <3>2. CASE \E b : b.win = now /\ buckets' = With(buckets, k, b)
      BY <1>0, <3>2, StoredBucket
    <3>3. QED
      BY <1>6, <3>1, <3>2
  <2>3. QED
    BY <2>1, <2>2
<1>8. pc'[r] # "refund" /\ (~redis => pc'[r] \notin {"rpmTtl", "tpmTtl", "refund"})
  BY <1>0, <1>2 DEF Locally, Goto, Refuse
<1>9. redis /\ Slack' # Slack + MaxEst =>
        /\ tpmKey'[c].n = tpmKey[c].n + est
        /\ granted'[c] # granted[c] => tpmKey'[c].n <= TPM[c]
  <2> SUFFICES ASSUME redis, Slack' # Slack + MaxEst
               PROVE  /\ tpmKey'[c].n = tpmKey[c].n + est
                      /\ granted'[c] # granted[c] => tpmKey'[c].n <= TPM[c]
    OBVIOUS
  <2>1. o = Plain /\ o.times = 1 /\ o.says = "own" /\ ~Locally(o)
    BY <1>3 DEF Locally
  <2>2. tpmKey'[c].n = tpmKey[c].n + est
    BY <1>0, <1>4, <2>1
  <2>3. Grant(r, tpmKey'[c].n <= TPM[c])
    BY <1>2, <2>1 DEF Reads
  <2>4. ~(tpmKey'[c].n <= TPM[c]) => granted'[c] = granted[c] + 0
    BY <1>0, <2>3 DEF Grant
  <2>5. granted[c] \in Nat
    BY <1>0
  <2>6. QED
    BY <2>2, <2>4, <2>5
<1>10. ~redis => \/ granted'[c] = granted[c] /\ Bucket(k)' = Bucket(k)
                 \/ /\ granted'[c] = granted[c] + est
                    /\ Bucket(k)'.tok = Bucket(k).tok + est
                    /\ Bucket(k)'.tok <= TPM[c]
  <2> SUFFICES ASSUME ~redis
               PROVE  \/ granted'[c] = granted[c] /\ Bucket(k)' = Bucket(k)
                      \/ /\ granted'[c] = granted[c] + est
                         /\ Bucket(k)'.tok = Bucket(k).tok + est
                         /\ Bucket(k)'.tok <= TPM[c]
    OBVIOUS
  <2>1. Locally(o)
    BY DEF Locally
  <2>2. CASE Bucket(k).tok + est <= TPM[c]
    <3> PICK b : b = [Bucket(k) EXCEPT !.tok = @ + est]
      OBVIOUS
    <3>1. buckets' = With(buckets, k, b) /\ Grant(r, TRUE)
      <4>1. buckets' = With(buckets, k, b)
        BY <1>2, <2>1, <2>2
      <4>2. Grant(r, Bucket(k).tok + est <= TPM[c])
        BY <1>2, <2>1
      <4>3. QED
        BY <2>2, <4>1, <4>2
    <3>2. b.win = now /\ b.tok = Bucket(k).tok + est
      BY <1>0 DEF BucketTypes
    <3>3. Bucket(k)' = b
      BY <1>0, <3>1, <3>2, StoredBucket
    <3>4. granted'[c] = granted[c] + est
      BY <1>0, <3>1 DEF Grant
    <3>5. QED
      BY <2>2, <3>2, <3>3, <3>4
  <2>3. CASE ~(Bucket(k).tok + est <= TPM[c])
    <3> PICK b : b = Bucket(k)
      OBVIOUS
    <3>1. buckets' = With(buckets, k, b) /\ b.win = now
      BY <1>0, <1>2, <2>1, <2>3
    <3>2. Bucket(k)' = b
      BY <1>0, <3>1, StoredBucket
    <3>3. Grant(r, Bucket(k).tok + est <= TPM[c])
      BY <1>2, <2>1
    <3>4. granted'[c] = granted[c] + 0
      BY <1>0, <2>3, <3>3 DEF Grant
    <3>5. granted[c] \in Nat
      BY <1>0
    <3>6. QED
      BY <3>2, <3>4, <3>5
  <2>4. QED
    BY <2>2, <2>3
<1>11. tpmKey'[c].n >= tpmKey[c].n
  BY <1>0, <1>4
<1>12. QED
  BY <1>1, <1>4, <1>5, <1>7, <1>8, <1>9, <1>10, <1>11

LEMMA TokenAllow ==
  ASSUME Types, Types', TokenInv, NEW r \in Requests, AllowTokens(r)
  PROVE  TokenInv'
<1> PICK c \in Clients : c = Client(r)
  BY JobType
<1> DEFINE est == job[r].est
<1>0. /\ pc \in [Requests -> Places] /\ pc[r] = "tpm" /\ est \in Nat /\ TPM[c] \in Nat
      /\ UNCHANGED <<redis, now, job>>
      /\ MaxEst \in Nat /\ Slack \in Nat /\ Slack' \in Nat /\ est \in 0 .. MaxEst
      /\ \A q \in Requests \ {r} : pc'[q] = pc[q] /\ fits'[q] = fits[q] /\ stale'[q] = stale[q]
  BY JobType, AdmissionAssumption, EstBound, Quantities, NextQuantities, HandlerFrame
  DEF Types, TypeOK, Numbers, AllowTokens, Handler
<1>1. Slack' \in {Slack, Slack + MaxEst} /\ Slack' >= Slack
  <2>1. faults' \in {faults, faults + 1}
    BY HandlerFrame DEF Handler
  <2>2. QED
    BY <1>0, <2>1, SlackGrows
<1>2. ~OwedBy(r) /\ \A q \in Requests : q # r => (OwedBy(q)' <=> OwedBy(q))
  BY <1>0 DEF OwedBy
<1>3. \A x \in Clients : Cardinality(Owed(x)) \in Nat
  BY Quantities DEF Numbers
<1>4. /\ \A x \in Clients \ {c} : Owed(x)' = Owed(x)
      /\ Cardinality(Owed(c)') \in {Cardinality(Owed(c)), Cardinality(Owed(c)) + est}
      /\ ~OwedBy(r)' => Cardinality(Owed(c)') = Cardinality(Owed(c))
  <2>1. CASE OwedBy(r)'
    BY <1>0, <1>2, <2>1, OwedMore
  <2>2. CASE ~OwedBy(r)'
    <3>1. \A q \in Requests : OwedBy(q)' <=> OwedBy(q)
      BY <1>2, <2>2
    <3>2. \A x \in Clients : Owed(x)' = Owed(x)
      BY <1>0, <3>1, OwedSame
    <3>3. QED
      BY <2>2, <3>2
  <2>3. QED
    BY <2>1, <2>2
<1>5. CASE TPM[c] > 0 /\ est > 0
  <2>1. /\ late' = late
        /\ \A x \in Clients \ {c} : /\ tpmKey'[x] = tpmKey[x] /\ granted'[x] = granted[x]
                                    /\ Bucket(<<"tpm", x>>)' = Bucket(<<"tpm", x>>)
        /\ granted'[c] \in {granted[c], granted[c] + est}
        /\ tpmKey'[c].n >= tpmKey[c].n
        /\ redis /\ Slack' # Slack + MaxEst =>
             /\ tpmKey'[c].n = tpmKey[c].n + est
             /\ granted'[c] # granted[c] => tpmKey'[c].n <= TPM[c]
        /\ granted'[c] # granted[c] => fits'[r]
        /\ pc'[r] # "refund" /\ (~redis => pc'[r] \notin {"rpmTtl", "tpmTtl", "refund"})
        /\ ~redis => \/ granted'[c] = granted[c] /\ Bucket(<<"tpm", c>>)' = Bucket(<<"tpm", c>>)
                     \/ /\ granted'[c] = granted[c] + est
                        /\ Bucket(<<"tpm", c>>)'.tok = Bucket(<<"tpm", c>>).tok + est
                        /\ Bucket(<<"tpm", c>>)'.tok <= TPM[c]
    BY <1>5, AllowTokensCounts
  <2>2. ASSUME NEW x \in Clients, x # c PROVE TokenOf(x)'
    <3>1. /\ TokenOf(x) /\ redis' = redis /\ tpmKey'[x].n = tpmKey[x].n /\ late'[x] = late[x]
          /\ Cardinality(Owed(x)') <= Cardinality(Owed(x))
          /\ granted'[x] = granted[x] /\ Bucket(<<"tpm", x>>)' = Bucket(<<"tpm", x>>)
      BY <1>0, <1>3, <1>4, <2>1, <2>2 DEF TokenInv
    <3>2. QED
      BY <1>1, <3>1, TokenFrame
  <2>3. TokenOf(c)'
    <3>1. /\ tpmKey[c].n \in Int /\ late[c] \in Nat /\ granted[c] \in Nat
          /\ tpmKey'[c].n \in Int /\ late'[c] = late[c] /\ granted'[c] \in Nat
          /\ Cardinality(Owed(c)) \in Nat /\ Cardinality(Owed(c)') \in Nat
          /\ Bucket(<<"tpm", c>>).tok \in Nat
      BY <2>1, Quantities, NextQuantities DEF Numbers
    <3>2. /\ Counted(c)' = tpmKey'[c].n + late'[c] + Slack'
          /\ Counted(c) = tpmKey[c].n + late[c] + Slack
      BY DEF Counted
    <3>3. /\ Counted(c) >= 0
          /\ redis => granted[c] + Cardinality(Owed(c)) <= Counted(c)
          /\ redis => granted[c] <= TPM[c] + late[c] + Slack
          /\ ~redis => granted[c] <= TPM[c] /\ granted[c] <= Bucket(<<"tpm", c>>).tok
      BY <1>5 DEF TokenInv, TokenOf
    <3>4. Counted(c)' >= 0
      BY <1>0, <1>1, <2>1, <3>1, <3>2, <3>3
    <3>5. granted'[c] + Cardinality(Owed(c)') <= granted[c] + Cardinality(Owed(c)) + est
      <4>1. granted'[c] # granted[c] => ~OwedBy(r)'
        BY <2>1 DEF OwedBy
      <4>2. QED
        BY <1>0, <1>4, <2>1, <3>1, <4>1
    <3>6. CASE redis
      <4>1. Counted(c)' >= Counted(c) + est
        <5>1. CASE Slack' = Slack + MaxEst
          BY <1>0, <2>1, <3>1, <3>2, <5>1
        <5>2. CASE Slack' # Slack + MaxEst
          BY <1>0, <1>1, <2>1, <3>1, <3>2, <3>6, <5>2
        <5>3. QED
          BY <5>1, <5>2
      <4>2. granted'[c] + Cardinality(Owed(c)') <= Counted(c)'
        <5>1. Counted(c) \in Int /\ Counted(c)' \in Int
          BY <1>0, <3>1, <3>2
        <5>2. QED
          BY <1>0, <3>1, <3>3, <3>5, <3>6, <4>1, <5>1
      <4>3. granted'[c] <= TPM[c] + late'[c] + Slack'
        <5>1. CASE Slack' = Slack + MaxEst \/ granted'[c] = granted[c]
          BY <1>0, <1>1, <2>1, <3>1, <3>3, <3>6, <5>1
        <5>2. CASE Slack' # Slack + MaxEst /\ granted'[c] # granted[c]
          <6>1. tpmKey'[c].n <= TPM[c] /\ tpmKey'[c].n = tpmKey[c].n + est
            BY <2>1, <3>6, <5>2
          <6>2. granted[c] <= Counted(c) /\ granted'[c] = granted[c] + est
            <7>1. granted'[c] = granted[c] + est
              BY <2>1, <5>2
            <7>2. granted[c] + Cardinality(Owed(c)) <= Counted(c) /\ Counted(c) \in Int
              BY <1>0, <3>1, <3>2, <3>3, <3>6
            <7>3. QED
              BY <3>1, <7>1, <7>2
          <6>3. Slack' = Slack
            BY <1>1, <5>2
          <6>4. QED
            BY <1>0, <3>1, <3>2, <6>1, <6>2, <6>3
        <5>3. QED
          BY <5>1, <5>2
      <4>4. QED
        BY <1>0, <3>4, <3>6, <4>2, <4>3 DEF TokenOf
    <3>7. CASE ~redis
      <4>1. granted'[c] <= TPM[c] /\ granted'[c] <= Bucket(<<"tpm", c>>)'.tok
        <5>1. CASE granted'[c] = granted[c] /\ Bucket(<<"tpm", c>>)' = Bucket(<<"tpm", c>>)
          BY <3>3, <3>7, <5>1
        <5>2. CASE /\ granted'[c] = granted[c] + est
                   /\ Bucket(<<"tpm", c>>)'.tok = Bucket(<<"tpm", c>>).tok + est
                   /\ Bucket(<<"tpm", c>>)'.tok <= TPM[c]
          BY <1>0, <3>1, <3>3, <3>7, <5>2
        <5>3. QED
          BY <2>1, <3>7, <5>1, <5>2
      <4>2. QED
        BY <1>0, <3>4, <3>7, <4>1 DEF TokenOf
    <3>8. QED
      BY <3>6, <3>7
  <2>4. \A x \in Clients : TokenOf(x)'
    BY <2>2, <2>3
  <2>5. /\ ~redis' => \A q \in Requests : pc'[q] \notin {"rpmTtl", "tpmTtl", "refund"}
        /\ \A q \in Requests : pc'[q] = "refund" => ~fits'[q]
    BY <1>0, <2>1 DEF TokenInv
  <2>6. QED
    BY <2>4, <2>5 DEF TokenInv
<1>6. CASE ~(TPM[c] > 0 /\ est > 0)
  <2>1. /\ Goto(r, "upstream") /\ UNCHANGED <<tpmKey, buckets, fits, granted, late, now>>
    BY <1>0, <1>6 DEF AllowTokens
  <2>2. pc'[r] = "upstream"
    BY <1>0, <2>1 DEF Goto
  <2>3. \A x \in Clients : TokenOf(x)'
    <3>1. ASSUME NEW x \in Clients PROVE TokenOf(x)'
      <4>1. /\ TokenOf(x) /\ redis' = redis /\ tpmKey'[x].n = tpmKey[x].n /\ late'[x] = late[x]
            /\ granted'[x] = granted[x] /\ Bucket(<<"tpm", x>>)' = Bucket(<<"tpm", x>>)
        BY <1>0, <2>1 DEF TokenInv, Bucket
      <4>2. Cardinality(Owed(x)') <= Cardinality(Owed(x))
        BY <1>3, <1>4, <2>2 DEF OwedBy
      <4>3. QED
        BY <1>1, <4>1, <4>2, TokenFrame
    <3>2. QED
      BY <3>1
  <2>4. QED
    BY <1>0, <2>2, <2>3 DEF TokenInv
<1>7. QED
  BY <1>5, <1>6

\* A refund, which a panic may have cut short.
LEMMA TokenRefund ==
  ASSUME Types, Types', TokenInv, NEW r \in Requests, Refund(r) \/ (Panics(r) /\ pc[r] = "refund")
  PROVE  TokenInv'
<1> PICK c \in Clients : c = Client(r)
  BY JobType
<1> DEFINE est == job[r].est
<1>0. /\ pc \in [Requests -> Places] /\ pc[r] = "refund" /\ ~fits[r] /\ est \in Nat
      /\ TPM[c] \in Nat /\ UNCHANGED <<redis, now, job, granted, buckets, fits, stale>>
      /\ MaxEst \in Nat /\ Slack \in Nat /\ Slack' \in Nat /\ est \in 0 .. MaxEst
      /\ tpmKey \in [Clients -> Keys] /\ late \in [Clients -> Nat] /\ stale \in [Requests -> BOOLEAN]
      /\ now \in 0 .. MaxNow /\ faults \in 0 .. MaxFaults
  BY JobType, AdmissionAssumption, EstBound, Quantities, NextQuantities, Panicking
  DEF Types, TypeOK, Numbers, Refund, TokenInv, memVars
<1>1. pc'[r] = "done" /\ \A q \in Requests : q # r => pc'[q] = pc[q]
  BY <1>0 DEF Refund, Panics, Refuse
<1>2. PICK times \in 0 .. 2 :
        /\ tpmKey' = IF times > 0 THEN [tpmKey EXCEPT ![c] = Incr(@, -(times * est))]
                     ELSE tpmKey
        /\ late' = IF stale[r] /\ times > 0 THEN [late EXCEPT ![c] = @ + est] ELSE late
        /\ redis /\ faults' \in {faults, faults + 1}
        /\ times # 1 => faults' = faults + 1
  <2>1. CASE Refund(r)
    <3>1. PICK o \in Outcomes :
            /\ Command(o)
            /\ tpmKey' = IF o.times > 0 THEN [tpmKey EXCEPT ![c] = Incr(@, -(o.times * est))]
                         ELSE tpmKey
            /\ late' = IF stale[r] /\ o.times > 0 THEN [late EXCEPT ![c] = @ + est] ELSE late
      BY <2>1 DEF Refund
    <3>2. /\ faults' \in {faults, faults + 1} /\ o.times \in 0 .. 2
          /\ o # Plain => faults' = faults + 1
          /\ o = Plain => o.times = 1
      BY <1>0, <3>1, Faulty
    <3>3. redis
      BY <3>1 DEF Command
    <3>4. QED
      BY <3>1, <3>2, <3>3
  <2>2. CASE Panics(r)
    BY <1>0, <2>2, Panicking
  <2>3. QED
    BY <2>1, <2>2
<1>3. /\ redis /\ times \in 0 .. 2 /\ Slack' \in {Slack, Slack + MaxEst}
      /\ Slack' = Slack => times = 1 \/ MaxEst = 0
  <2>1. /\ Slack' \in {Slack, Slack + MaxEst}
        /\ faults' = faults + 1 => Slack' = Slack + MaxEst
    BY <1>0, <1>2, SlackGrows
  <2>2. QED
    BY <1>0, <1>2, <2>1
<1>4. /\ \A x \in Clients \ {c} : tpmKey'[x] = tpmKey[x] /\ late'[x] = late[x]
      /\ tpmKey'[c].n = tpmKey[c].n - times * est
      /\ late'[c] = late[c] + IF stale[r] /\ times > 0 THEN est ELSE 0
  <2>1. times * est \in Nat /\ -(times * est) \in Int /\ (times = 0 => times * est = 0)
    BY <1>0, <1>3
  <2>2. tpmKey[c] \in Keys /\ tpmKey[c].n \in Int
    BY <1>0 DEF Keys
  <2>3. \A d \in Int : Incr(tpmKey[c], d).n = tpmKey[c].n + d
    BY <1>0, <2>2, KeyOps
  <2>4. Incr(tpmKey[c], -(times * est)).n = tpmKey[c].n - times * est
    BY <2>1, <2>2, <2>3
  <2>5. tpmKey'[c].n = tpmKey[c].n - times * est
    BY <1>0, <1>2, <1>3, <2>1, <2>2, <2>4
  <2>6. late'[c] = late[c] + IF stale[r] /\ times > 0 THEN est ELSE 0
    BY <1>0, <1>2
  <2>7. QED
    BY <1>0, <1>2, <2>5, <2>6
<1>5. /\ \A q \in Requests : q # r => (OwedBy(q)' <=> OwedBy(q))
      /\ ~OwedBy(r)' /\ (OwedBy(r) <=> ~stale[r])
  BY <1>0, <1>1 DEF OwedBy
<1>6. \A x \in Clients : Cardinality(Owed(x)) \in Nat /\ Cardinality(Owed(x)') \in Nat
  BY Quantities, NextQuantities DEF Numbers
<1>7. /\ \A x \in Clients \ {c} : Owed(x)' = Owed(x)
      /\ Cardinality(Owed(c)') = Cardinality(Owed(c)) - IF stale[r] THEN 0 ELSE est
  <2>1. CASE stale[r]
    <3>1. \A q \in Requests : OwedBy(q)' <=> OwedBy(q)
      BY <1>5, <2>1
    <3>2. \A x \in Clients : Owed(x)' = Owed(x)
      BY <1>0, <3>1, OwedSame
    <3>3. QED
      BY <1>6, <2>1, <3>2
  <2>2. CASE ~stale[r]
    BY <1>0, <1>5, <2>2, OwedLess
  <2>3. QED
    BY <2>1, <2>2
<1>8. ASSUME NEW x \in Clients, x # c PROVE TokenOf(x)'
  <2>1. /\ TokenOf(x) /\ redis' = redis /\ tpmKey'[x].n = tpmKey[x].n /\ late'[x] = late[x]
        /\ Cardinality(Owed(x)') <= Cardinality(Owed(x)) /\ Slack' >= Slack
        /\ granted'[x] = granted[x] /\ Bucket(<<"tpm", x>>)' = Bucket(<<"tpm", x>>)
    BY <1>0, <1>3, <1>4, <1>6, <1>7, <1>8 DEF TokenInv, Bucket
  <2>2. QED
    BY <2>1, TokenFrame
<1>9. TokenOf(c)'
  <2>1. /\ tpmKey[c].n \in Int /\ late[c] \in Nat /\ granted[c] \in Nat
        /\ tpmKey'[c].n \in Int /\ late'[c] \in Nat /\ granted'[c] = granted[c]
    BY <1>0, Quantities, NextQuantities DEF Numbers
  <2>2. /\ Counted(c)' = tpmKey'[c].n + late'[c] + Slack'
        /\ Counted(c) = tpmKey[c].n + late[c] + Slack
        /\ Counted(c)' \in Int /\ Counted(c) \in Int
    BY <1>0, <2>1 DEF Counted
  <2>3. /\ Counted(c) >= 0 /\ granted[c] + Cardinality(Owed(c)) <= Counted(c)
        /\ TPM[c] > 0 => granted[c] <= TPM[c] + late[c] + Slack
    BY <1>3 DEF TokenInv, TokenOf
  <2>4. \/ times = 0 /\ times * est = 0
        \/ times = 1 /\ times * est = est
        \/ times = 2 /\ times * est = est + est
    BY <1>0, <1>3
  <2>5. Counted(c)' >= Counted(c) - IF stale[r] THEN 0 ELSE est
    <3>1. CASE stale[r]
      BY <1>0, <1>3, <1>4, <2>1, <2>2, <2>4, <3>1
    <3>2. CASE ~stale[r]
      BY <1>0, <1>3, <1>4, <2>1, <2>2, <2>4, <3>2
    <3>3. QED
      BY <3>1, <3>2
  <2>6. granted'[c] + Cardinality(Owed(c)') <= Counted(c)'
    BY <1>0, <1>6, <1>7, <2>1, <2>2, <2>3, <2>5
  <2>7. Counted(c)' >= 0
    BY <1>6, <2>1, <2>2, <2>6
  <2>8. TPM[c] > 0 => granted'[c] <= TPM[c] + late'[c] + Slack'
    BY <1>0, <1>3, <1>4, <2>1, <2>3
  <2>9. QED
    BY <1>0, <1>3, <2>6, <2>7, <2>8 DEF TokenOf
<1>10. QED
  BY <1>0, <1>1, <1>3, <1>8, <1>9 DEF TokenInv

\* A panic elsewhere: what was counted stays counted, and a debt is forgotten.
LEMMA TokenPanics ==
  ASSUME Types, Types', TokenInv, NEW r \in Requests, Panics(r), pc[r] # "refund"
  PROVE  TokenInv'
<1> PICK c \in Clients : c = Client(r)
  BY JobType
<1>0. /\ redis /\ UNCHANGED <<redis, job, granted, fits, stale>> /\ faults' = faults + 1
      /\ pc'[r] = "done" /\ late' = late
      /\ \A x \in Clients : tpmKey'[x].n = tpmKey[x].n \/ tpmKey'[x].n >= tpmKey[x].n
  BY Panicking
<1>1. \A q \in Requests \ {r} : pc'[q] = pc[q]
  BY HandlerFrame DEF Handler
<1>2. \A q \in Requests : OwedBy(q)' => OwedBy(q)
  BY <1>0, <1>1 DEF OwedBy
<1>3. MaxEst' = MaxEst /\ MaxEst \in Nat /\ Slack \in Nat /\ Slack' >= Slack
  <2>1. MaxEst \in Nat /\ Slack \in Nat
    BY Quantities DEF Numbers
  <2>2. MaxEst' = MaxEst /\ Slack' = Slack + MaxEst
    BY <1>0, SlackGrows
  <2>3. QED
    BY <2>1, <2>2
<1>4. ASSUME NEW x \in Clients PROVE TokenOf(x)'
  <2>1. Owed(x)' \subseteq Owed(x)
    BY <1>0, <1>2, <1>3 DEF Owed, Client
  <2>2. IsFiniteSet(Owed(x))
    BY Quantities DEF Numbers
  <2>3. Cardinality(Owed(x)') <= Cardinality(Owed(x))
    BY <2>1, <2>2, FS_Subset
  <2>4. TokenOf(x)
    BY DEF TokenInv
  <2>5. granted'[x] = granted[x] /\ late'[x] = late[x] /\ redis' = redis
    BY <1>0
  <2>6. QED
    BY <1>0, <1>3, <2>3, <2>4, <2>5, TokenFrame
<1>5. \A q \in Requests : pc'[q] = "refund" => ~fits'[q]
  BY <1>0, <1>1 DEF TokenInv
<1>6. QED
  BY <1>0, <1>4, <1>5 DEF TokenInv

LEMMA TokenStep ==
  ASSUME Types, Types', TokenInv, [Next]_vars
  PROVE  TokenInv'
<1>0. /\ MaxEst \in Nat /\ Slack \in Nat /\ Slack' \in Nat /\ faults \in Nat
      /\ tpmKey \in [Clients -> Keys] /\ granted \in [Clients -> Nat] /\ late \in [Clients -> Nat]
      /\ stale \in [Requests -> BOOLEAN]
      /\ \A c \in Clients : /\ TPM[c] \in Nat /\ Cardinality(Owed(c)) \in Nat
                            /\ Cardinality(Owed(c)') \in Nat
                            /\ tpmKey[c].n \in Int /\ granted[c] \in Nat /\ late[c] \in Nat
                            /\ Bucket(<<"tpm", c>>)'.tok \in Nat
  BY Quantities, NextQuantities DEF Types, Numbers
<1>1. ASSUME NEW r \in Requests, Handler(r) PROVE TokenInv'
  BY <1>1, TokenApart, TokenAllow, TokenRefund, TokenPanics
<1>2. ASSUME UNCHANGED <<redis, now, tpmKey, granted, late, buckets, faults, job, pc, fits, stale>>
      PROVE  TokenInv'
  <2>1. Slack' = Slack /\ MaxEst' = MaxEst
    BY <1>2 DEF Slack, MaxEst
  <2>2. \A x \in Clients : Owed(x)' = Owed(x)
    BY <1>2, <2>1 DEF Owed, OwedBy, Client
  <2>3. ASSUME NEW x \in Clients PROVE TokenOf(x)'
    <3>1. Counted(x)' = Counted(x) /\ Bucket(<<"tpm", x>>)' = Bucket(<<"tpm", x>>)
      BY <1>2, <2>1 DEF Counted, Bucket
    <3>2. TokenOf(x)
      BY DEF TokenInv
    <3>3. QED
      BY <1>2, <2>1, <2>2, <3>1, <3>2 DEF TokenOf
  <2>4. QED
    BY <1>2, <2>3 DEF TokenInv
<1>3. ASSUME NEW c \in Clients, UpdateLimit(c) \/ GenerateToken(c) PROVE TokenInv'
  BY <1>2, <1>3 DEF UpdateLimit, GenerateToken, storeVars, histVars, reqVars
<1>4. ASSUME NEW c \in Clients, ExpireKey(c) PROVE TokenInv'
  <2>1. CASE UNCHANGED <<redis, now, tpmKey, granted, late, buckets, faults, job, pc, fits, stale>>
    BY <1>2, <2>1
  <2>2. CASE ~UNCHANGED <<redis, now, tpmKey, granted, late, buckets, faults, job, pc, fits, stale>>
    <3>1. /\ tpmKey' = [tpmKey EXCEPT ![c] = Missing]
          /\ granted' = IF redis THEN [granted EXCEPT ![c] = 0] ELSE granted
          /\ late' = [late EXCEPT ![c] = 0]
          /\ stale' = [r \in Requests |-> stale[r] \/ Client(r) = c]
          /\ UNCHANGED <<redis, now, buckets, faults, job, pc, fits>>
      BY <1>4, <2>2 DEF ExpireKey, memVars, reqVars
    <3>2. Slack' = Slack /\ MaxEst' = MaxEst
      BY <3>1 DEF Slack, MaxEst
    <3>3. ASSUME NEW x \in Clients, x # c PROVE TokenOf(x)'
      <4>1. \A q \in Requests : Client(q) = x => stale'[q] = stale[q]
        BY <1>0, <3>1, <3>3
      <4>2. Owed(x)' = Owed(x)
        BY <3>1, <3>2, <4>1 DEF Owed, OwedBy, Client
      <4>3. tpmKey'[x] = tpmKey[x] /\ granted'[x] = granted[x] /\ late'[x] = late[x]
        BY <1>0, <3>1, <3>3
      <4>4. /\ TokenOf(x) /\ redis' = redis /\ Slack' >= Slack
            /\ Cardinality(Owed(x)') <= Cardinality(Owed(x))
            /\ Bucket(<<"tpm", x>>)' = Bucket(<<"tpm", x>>)
        <5>1. Cardinality(Owed(x)) \in Nat /\ Slack \in Nat
          BY <1>0
        <5>2. Cardinality(Owed(x)') <= Cardinality(Owed(x)) /\ Slack' >= Slack
          BY <3>2, <4>2, <5>1
        <5>3. Bucket(<<"tpm", x>>)' = Bucket(<<"tpm", x>>)
          BY <3>1 DEF Bucket
        <5>4. QED
          BY <3>1, <5>2, <5>3 DEF TokenInv
      <4>5. QED
        BY <4>3, <4>4, TokenFrame
    <3>4. TokenOf(c)'
      <4>1. tpmKey'[c].n = 0 /\ late'[c] = 0
        BY <1>0, <3>1 DEF Missing
      <4>2. Counted(c)' = Slack'
        <5>1. Slack' \in Nat
          BY <1>0
        <5>2. Counted(c)' = 0 + 0 + Slack'
          BY <4>1 DEF Counted
        <5>3. \A k \in Nat : 0 + 0 + k = k
          OBVIOUS
        <5>4. 0 + 0 + Slack' = Slack'
          BY <5>1, <5>3
        <5>5. QED
          BY <5>2, <5>4, Zenon
      <4>3. CASE redis
        <5>1. granted'[c] = 0
          BY <1>0, <3>1, <4>3
        <5>2. Owed(c)' = {}
          BY <1>0, <3>1 DEF Owed, OwedBy, Client
        <5>3. Cardinality(Owed(c)') = 0
          BY <5>2, FS_EmptySet
        <5>4. granted'[c] + Cardinality(Owed(c)') <= Counted(c)' /\ Counted(c)' >= 0
          BY <1>0, <4>2, <5>1, <5>3
        <5>5. granted'[c] <= TPM[c] + late'[c] + Slack'
          <6>1. TPM[c] \in Nat /\ Slack' \in Nat
            BY <1>0
          <6>2. QED
            BY <4>1, <5>1, <6>1
        <5>6. QED
          BY <3>1, <4>3, <5>4, <5>5 DEF TokenOf
      <4>4. CASE ~redis
        <5>1. granted'[c] <= TPM[c] /\ granted'[c] <= Bucket(<<"tpm", c>>)'.tok
          BY <3>1, <4>4 DEF TokenInv, TokenOf, Bucket
        <5>2. QED
          BY <1>0, <3>1, <4>2, <4>4, <5>1 DEF TokenOf
      <4>5. QED
        BY <4>3, <4>4
    <3>5. QED
      BY <3>1, <3>3, <3>4 DEF TokenInv
  <2>3. QED
    BY <2>1, <2>2
<1>5. CASE Tick
  <2>1. UNCHANGED <<redis, tpmKey, late, buckets, faults, job, pc, fits, stale>>
    BY <1>5 DEF Tick, memVars, reqVars
  <2>2. Slack' = Slack /\ MaxEst' = MaxEst
    BY <2>1 DEF Slack, MaxEst
  <2>3. \A x \in Clients : Owed(x)' = Owed(x)
    BY <2>1, <2>2 DEF Owed, OwedBy, Client
  <2>4. \A x \in Clients : \/ granted'[x] = 0 /\ ~redis
                           \/ granted'[x] = granted[x] /\ redis
    BY <1>5 DEF Tick
  <2>5. ASSUME NEW x \in Clients PROVE TokenOf(x)'
    <3>1. /\ TokenOf(x) /\ Slack' >= Slack /\ Cardinality(Owed(x)') <= Cardinality(Owed(x))
          /\ tpmKey'[x].n = tpmKey[x].n /\ late'[x] = late[x] /\ redis' = redis
      <4>1. Cardinality(Owed(x)) \in Nat /\ Slack \in Nat
        BY <1>0
      <4>2. Cardinality(Owed(x)') <= Cardinality(Owed(x)) /\ Slack' >= Slack
        BY <2>2, <2>3, <4>1
      <4>3. QED
        BY <2>1, <4>2 DEF TokenInv
    <3>2. QED
      BY <2>4, <3>1, TokenFrame
  <2>6. QED
    BY <2>1, <2>5 DEF TokenInv
<1>6. CASE Restart
  <2>1. /\ tpmKey' = tpmKey /\ late' = late /\ job' = job /\ faults' = faults + 1
        /\ redis' \in BOOLEAN
        /\ \A q \in Requests : pc'[q] \in {"idle", "done"}
    BY <1>6 DEF Restart, storeVars, Busy
  <2>2. Slack' = Slack + MaxEst
    BY <1>0, <2>1, SlackGrows
  <2>3. ASSUME NEW c \in Clients PROVE TokenOf(c)'
    <3>1. Owed(c)' = {}
      BY <2>1 DEF Owed, OwedBy
    <3>2. Cardinality(Owed(c)') = 0
      BY <3>1, FS_EmptySet
    <3>3. /\ Counted(c)' = tpmKey[c].n + late[c] + Slack'
          /\ Counted(c) = tpmKey[c].n + late[c] + Slack
      BY <2>1 DEF Counted
    <3>0. /\ tpmKey[c].n \in Int /\ late[c] \in Nat /\ Cardinality(Owed(c)) \in Nat
          /\ granted[c] \in Nat /\ TPM[c] \in Nat /\ Bucket(<<"tpm", c>>)'.tok \in Nat
          /\ Slack \in Nat /\ MaxEst \in Nat /\ Slack' \in Nat
      BY <1>0
    <3>4. Counted(c) >= 0 /\ Counted(c)' >= 0 /\ Counted(c) \in Int /\ Counted(c)' >= Counted(c)
      <4>1. Counted(c) >= 0
        BY DEF TokenInv, TokenOf
      <4>2. QED
        BY <2>2, <3>0, <3>3, <4>1
    <3>5. CASE redis /\ redis'
      <4>1. granted'[c] = granted[c]
        BY <1>6, <3>5 DEF Restart
      <4>2. /\ granted[c] + Cardinality(Owed(c)) <= Counted(c)
            /\ TPM[c] > 0 => granted[c] <= TPM[c] + late[c] + Slack
        BY <3>5 DEF TokenInv, TokenOf
      <4>3. granted'[c] + Cardinality(Owed(c)') <= Counted(c)'
        <5>1. granted[c] <= Counted(c)
          BY <3>0, <3>4, <4>2
        <5>2. QED
          BY <2>2, <3>0, <3>2, <3>3, <3>4, <4>1, <5>1
      <4>4. TPM[c] > 0 => granted'[c] <= TPM[c] + late'[c] + Slack'
        <5>1. Slack' >= Slack /\ late'[c] = late[c]
          BY <2>1, <2>2, <3>0
        <5>2. QED
          BY <3>0, <4>1, <4>2, <5>1
      <4>5. QED
        BY <3>4, <3>5, <4>3, <4>4 DEF TokenOf
    <3>6. CASE ~(redis /\ redis')
      <4>1. granted'[c] = 0
        BY <1>6, <3>6 DEF Restart
      <4>2. granted'[c] + Cardinality(Owed(c)') <= Counted(c)'
        BY <3>2, <3>4, <4>1
      <4>3. granted'[c] <= TPM[c] + late'[c] + Slack'
        <5>1. late'[c] = late[c]
          BY <2>1
        <5>2. QED
          BY <3>0, <4>1, <5>1
      <4>4. granted'[c] <= TPM[c] /\ granted'[c] <= Bucket(<<"tpm", c>>)'.tok
        BY <3>0, <4>1
      <4>5. QED
        BY <3>4, <4>2, <4>3, <4>4 DEF TokenOf
    <3>7. QED
      BY <3>5, <3>6
  <2>4. QED
    BY <2>1, <2>3 DEF TokenInv
<1>7. CASE ReportPanics \/ UNCHANGED vars
  BY <1>2, <1>7 DEF ReportPanics, vars, storeVars, memVars, histVars, reqVars
<1>8. QED
  BY <1>1, <1>3, <1>4, <1>5, <1>6, <1>7 DEF Next

-----------------------------------------------------------------------------
(***************************************************************************)
(* Money.                                                                  *)
(***************************************************************************)

LEMMA ProductGrows ==
  ASSUME NEW k \in Nat, NEW l \in Nat, k <= l, NEW M \in Nat
  PROVE  k * M \in Nat /\ l * M \in Nat /\ k * M <= l * M
<1> DEFINE d == l - k
<1>1. d \in Nat /\ l = k + d
  OBVIOUS
<1>2. d * M \in Nat /\ k * M \in Nat /\ (k + d) * M = k * M + d * M
  BY <1>1
<1>3. QED
  BY <1>1, <1>2

LEMMA PeriodGrows ==
  ASSUME NEW t \in Nat
  PROVE  Period(t) \in Int /\ Period(t + 1) \in Int /\ Period(t) <= Period(t + 1)
<1> DEFINE P == PeriodLen
           p == t \div P
           q == (t + 1) \div P
<1>0. P \in Nat /\ P > 0
  BY AdmissionAssumption
<1>1. p \in Int /\ P * p <= t /\ t < P * (p + 1)
  BY <1>0
<1>2. q \in Int /\ P * q <= t + 1 /\ t + 1 < P * (q + 1)
  BY <1>0
<1>3. Period(t) = p /\ Period(t + 1) = q
  BY DEF Period
<1> HIDE DEF P, p, q
<1>4. ~(q + 1 <= p)
  <2> SUFFICES ASSUME q + 1 <= p PROVE FALSE
    OBVIOUS
  <2>1. P * (q + 1) <= P * p
    BY <1>0, <1>1, <1>2
  <2>2. P * (q + 1) \in Int /\ P * p \in Int
    BY <1>0, <1>1, <1>2
  <2>3. QED
    BY <1>1, <1>2, <2>1, <2>2
<1>5. QED
  BY <1>1, <1>2, <1>3, <1>4

\* Sets of requests, and the room they leave.
Sizes ==
  /\ \A c \in Clients : /\ IsFiniteSet(Ahead(c)) /\ Cardinality(Ahead(c)) \in Nat
                        /\ Ahead(c) \subseteq Busy
                        /\ Cardinality(Ahead(c)) <= Cardinality(Busy)
                        /\ SpentLocally(c) \in Nat /\ money[c] \in Nat /\ charged[c] \in Int
                        /\ unpaid[c] \in Nat /\ top[c] \in Int /\ limit[c] \in Int
  /\ IsFiniteSet(Busy) /\ Cardinality(Busy) \in Nat

LEMMA SizesType == Types => Sizes
<1> SUFFICES ASSUME Types PROVE Sizes
  OBVIOUS
<1>1. IsFiniteSet(Requests) /\ Busy \subseteq Requests
  BY AdmissionAssumption DEF Busy
<1>2. IsFiniteSet(Busy) /\ Cardinality(Busy) \in Nat
  BY <1>1, FS_Subset, FS_CardinalityType
<1>3. ASSUME NEW c \in Clients
      PROVE  /\ IsFiniteSet(Ahead(c)) /\ Cardinality(Ahead(c)) \in Nat
             /\ Ahead(c) \subseteq Busy /\ Cardinality(Ahead(c)) <= Cardinality(Busy)
  <2>1. Ahead(c) \subseteq Busy
    BY DEF Ahead, Busy, Passed
  <2>2. IsFiniteSet(Ahead(c)) /\ Cardinality(Ahead(c)) <= Cardinality(Busy)
    BY <1>2, <2>1, FS_Subset
  <2>3. QED
    BY <2>1, <2>2, FS_CardinalityType
<1>4. \A c \in Clients : /\ SpentLocally(c) \in Nat /\ money[c] \in Nat /\ charged[c] \in Int
                         /\ unpaid[c] \in Nat /\ top[c] \in Int /\ limit[c] \in Int
  BY DEF Types, TypeOK, SpentLocally
<1>5. QED
  BY <1>2, <1>3, <1>4 DEF Sizes

LEMMA NextSizes == Types' => Sizes'
BY SizesType, PTL

Rooms ==
  /\ Lent \in Nat
  /\ \A c \in Clients : /\ Room(c) \in Nat /\ Bound(c) \in Nat /\ Lent <= Bound(c)

LEMMA RoomType == Types /\ Cardinality(Busy) <= MaxBusy => Rooms
<1> SUFFICES ASSUME Types, Cardinality(Busy) <= MaxBusy PROVE Rooms
  OBVIOUS
<1>1. faults \in Nat /\ MaxBusy \in Nat /\ MaxCost \in Nat /\ Cardinality(Busy) \in Nat
  BY SizesType, CostBound, AdmissionAssumption DEF Sizes, Types, TypeOK
<1>2. Lent \in Nat
  BY <1>1, Product DEF Lent
<1>3. ASSUME NEW c \in Clients
      PROVE  Room(c) \in Nat /\ Bound(c) \in Nat /\ Lent <= Bound(c)
  <2>1. Cardinality(Ahead(c)) \in Nat /\ Cardinality(Ahead(c)) <= Cardinality(Busy)
    BY SizesType DEF Sizes
  <2>2. Room(c) \in Nat /\ faults <= Room(c)
    BY <1>1, <2>1 DEF Room
  <2>3. QED
    BY <1>1, <2>2, ProductGrows DEF Bound, Lent
<1>4. QED
  BY <1>2, <1>3 DEF Rooms

LEMMA NextRooms == Types' /\ (Cardinality(Busy) <= MaxBusy)' => Rooms'
BY RoomType, PTL

\* Money grows with room.
LEMMA BoundGrows ==
  ASSUME Types, Types', Cardinality(Busy) <= MaxBusy, (Cardinality(Busy) <= MaxBusy)',
         NEW c \in Clients, Room(c)' >= Room(c)
  PROVE  /\ Bound(c)' >= Bound(c)
         /\ Room(c)' >= Room(c) + 1 => Bound(c)' >= Bound(c) + MaxCost
<1>1. MaxCost \in Nat /\ Room(c) \in Nat /\ Room(c)' \in Nat
  BY RoomType, NextRooms, CostBound DEF Rooms
<1>2. Bound(c)' = Room(c)' * MaxCost /\ Bound(c) = Room(c) * MaxCost
  BY DEF Bound, MaxCost
<1>3. Bound(c)' >= Bound(c)
  BY <1>1, <1>2, ProductGrows
<1>4. CASE Room(c)' >= Room(c) + 1
  <2>1. Room(c) + 1 \in Nat
    BY <1>1
  <2>2. (Room(c) + 1) * MaxCost <= Room(c)' * MaxCost
    BY <1>1, <1>4, <2>1, ProductGrows
  <2>3. (Room(c) + 1) * MaxCost = Room(c) * MaxCost + MaxCost
    BY <1>1, Product
  <2>4. QED
    BY <1>2, <1>3, <2>2, <2>3
<1>5. QED
  BY <1>3, <1>4

LEMMA LentGrows ==
  ASSUME Types, faults' \in {faults, faults + 1}
  PROVE  /\ Lent \in Nat /\ MaxCost \in Nat /\ Lent' \in {Lent, Lent + MaxCost}
         /\ faults' = faults => Lent' = Lent
         /\ faults' = faults + 1 => Lent' = Lent + MaxCost
<1>1. MaxCost \in Nat /\ faults \in Nat
  BY CostBound, AdmissionAssumption DEF Types, TypeOK
<1>2. faults * MaxCost \in Nat /\ (faults + 1) * MaxCost = faults * MaxCost + MaxCost
  BY <1>1, Product
<1>3. Lent' = faults' * MaxCost
  BY DEF Lent, MaxCost
<1>4. QED
  BY <1>1, <1>2, <1>3 DEF Lent

\* A client whose money stays keeps its bounds as long as its room does.
LEMMA BudgetFrame ==
  ASSUME Types, Types', Cardinality(Busy) <= MaxBusy, (Cardinality(Busy) <= MaxBusy)',
         NEW c \in Clients, BudgetOf(c), redis' = redis, faults' \in {faults, faults + 1},
         Cardinality(Ahead(c)') <= Cardinality(Ahead(c)),
         charged'[c] = charged[c], money'[c] = money[c], SpentLocally(c)' = SpentLocally(c),
         unpaid'[c] = unpaid[c], limit'[c] = limit[c], top'[c] = top[c]
  PROVE  BudgetOf(c)'
<1>1. /\ Cardinality(Ahead(c)) \in Nat /\ Cardinality(Ahead(c)') \in Nat
      /\ faults \in Nat /\ MaxBusy \in Nat
  BY SizesType, NextSizes, AdmissionAssumption DEF Sizes, Types, TypeOK
<1>2. Room(c)' >= Room(c)
  BY <1>1 DEF Room
<1>3. Bound(c)' >= Bound(c)
  BY <1>2, BoundGrows
<1>4. Lent' >= Lent /\ Lent \in Nat /\ Lent' \in Nat
  BY LentGrows
<1>5. /\ SpentLocally(c) \in Nat /\ unpaid[c] \in Nat /\ money[c] \in Nat /\ charged[c] \in Int /\ top[c] \in Int
      /\ Bound(c) \in Nat /\ Bound(c)' \in Nat
  BY SizesType, RoomType, NextRooms DEF Sizes, Rooms
<1>6. Cap(c)' = Cap(c) /\ Cap(c) \in Int
  BY <1>5 DEF Cap
<1>7. redis => SpentLocally(c)' + unpaid'[c] <= Lent'
  BY <1>4, <1>5 DEF BudgetOf
<1>8. top[c] >= 0 => charged[c] <= Cap(c)' + Bound(c)'
  BY <1>3, <1>5, <1>6 DEF BudgetOf
<1>9. QED
  BY <1>7, <1>8 DEF BudgetOf

LEMMA BusyStep ==
  ASSUME Types, Types', Cardinality(Busy) <= MaxBusy, NEW r \in Requests, Handler(r)
  PROVE  (Cardinality(Busy) <= MaxBusy)'
<1>0. /\ IsFiniteSet(Busy) /\ Cardinality(Busy) \in Nat /\ IsFiniteSet(Busy')
      /\ Cardinality(Busy') \in Nat /\ MaxBusy \in Nat /\ pc \in [Requests -> Places]
  BY SizesType, NextSizes, AdmissionAssumption DEF Sizes, Types, TypeOK
<1>1. \A q \in Requests \ {r} : pc'[q] = pc[q]
  BY HandlerFrame
<1>2. CASE Arrive(r)
  <2>1. Busy' \subseteq Busy \cup {r} /\ Cardinality(Busy) < MaxBusy /\ r \notin Busy
    BY <1>1, <1>2 DEF Arrive, Busy
  <2>2. IsFiniteSet(Busy \cup {r}) /\ Cardinality(Busy \cup {r}) = Cardinality(Busy) + 1
    BY <1>0, <2>1, FS_AddElement
  <2>3. Cardinality(Busy') <= Cardinality(Busy \cup {r})
    BY <2>1, <2>2, FS_Subset
  <2>4. QED
    BY <1>0, <2>1, <2>2, <2>3
<1>3. CASE ~Arrive(r)
  <2>1. pc[r] \notin {"idle", "done"}
    BY <1>3
    DEF Handler, Allow, ExpireRpm, Exceeded, Check, AllowTokens, ExpireTpm, Refund, Serve, Fail,
        Panics, Hangs
  <2>2. Busy' \subseteq Busy
    BY <1>1, <2>1 DEF Busy
  <2>3. Cardinality(Busy') <= Cardinality(Busy)
    BY <1>0, <2>2, FS_Subset
  <2>4. QED
    BY <1>0, <2>3
<1>4. QED
  BY <1>2, <1>3

\* Only the budget lets a request get ahead.
LEMMA AheadStep ==
  ASSUME Types, Types', NEW r \in Requests, Handler(r)
  PROVE  /\ \A c \in Clients : c # Client(r) \/ ~Exceeded(r) =>
                Ahead(c)' \subseteq Ahead(c) /\ Cardinality(Ahead(c)') <= Cardinality(Ahead(c))
         /\ \A c \in Clients : c = Client(r) /\ pc[r] = "upstream" =>
                Cardinality(Ahead(c)') <= Cardinality(Ahead(c)) - 1
<1>0. pc \in [Requests -> Places] /\ job' = job /\ \A q \in Requests \ {r} : pc'[q] = pc[q]
  BY HandlerFrame DEF Types, TypeOK
<1>1. ~Exceeded(r) => (Passed(r)' => Passed(r))
  <2>1. CASE Arrive(r)
    BY <1>0, <2>1 DEF Arrive, Goto, Refuse, Passed
  <2>2. CASE Allow(r) \/ ExpireRpm(r)
    BY <1>0, <2>2 DEF Allow, ExpireRpm, Goto, Refuse, AfterRate, Passed
  <2>3. CASE Check(r)
    BY <1>0, <2>3 DEF Check, Goto, Refuse, AfterChecks, Passed
  <2>4. CASE AllowTokens(r) \/ ExpireTpm(r) \/ Refund(r) \/ Serve(r) \/ Fail(r)
    BY <2>4 DEF AllowTokens, ExpireTpm, Refund, Serve, Fail, Passed
  <2>5. CASE Panics(r) \/ Hangs(r)
    BY <1>0, <2>5 DEF Panics, Hangs, Goto, Refuse, Passed
  <2>6. QED
    BY <2>1, <2>2, <2>3, <2>4, <2>5 DEF Handler
<1>2. \A q \in Requests : Client(q)' = Client(q) /\ (q # r => (Passed(q)' <=> Passed(q)))
  BY <1>0 DEF Client, Passed
<1>3. ASSUME NEW c \in Clients, c # Client(r) \/ ~Exceeded(r)
      PROVE  Ahead(c)' \subseteq Ahead(c) /\ Cardinality(Ahead(c)') <= Cardinality(Ahead(c))
  <2>1. Ahead(c)' \subseteq Ahead(c)
    BY <1>1, <1>2, <1>3 DEF Ahead
  <2>2. IsFiniteSet(Ahead(c))
    BY SizesType DEF Sizes
  <2>3. QED
    BY <2>1, <2>2, FS_Subset
<1>4. ASSUME NEW c \in Clients, c = Client(r), pc[r] = "upstream"
      PROVE  Cardinality(Ahead(c)') <= Cardinality(Ahead(c)) - 1
  <2>0. Serve(r) \/ Fail(r) \/ Panics(r) \/ Hangs(r)
    BY <1>4 DEF Handler, Arrive, Allow, ExpireRpm, Exceeded, Check, AllowTokens, ExpireTpm, Refund
  <2>1. pc[r] = "upstream" /\ pc'[r] \in {"done", "hung"} /\ ~Exceeded(r)
    BY <1>0, <1>4, <2>0 DEF Serve, Fail, Panics, Hangs, Goto, Refuse, Exceeded
  <2>2. r \in Ahead(c) /\ Ahead(c)' \subseteq Ahead(c) \ {r}
    BY <1>1, <1>2, <1>4, <2>1 DEF Ahead, Passed
  <2>3. IsFiniteSet(Ahead(c)) /\ Cardinality(Ahead(c)) \in Nat
    BY SizesType DEF Sizes
  <2>4. IsFiniteSet(Ahead(c) \ {r}) /\ Cardinality(Ahead(c) \ {r}) = Cardinality(Ahead(c)) - 1
    BY <2>2, <2>3, FS_RemoveElement
  <2>5. QED
    BY <2>2, <2>4, FS_Subset
<1>5. QED
  BY <1>3, <1>4

LEMMA BudgetServe ==
  ASSUME Types, Types', BudgetInv, NEW r \in Requests, Serve(r)
  PROVE  BudgetInv'
<1> PICK c \in Clients : c = Client(r)
  BY JobType
<1>0. /\ Handler(r) /\ UNCHANGED <<redis, now, limit, top, unpaid>> /\ faults' \in {faults, faults + 1}
      /\ Cardinality(Busy) <= MaxBusy /\ faults \in 0 .. MaxFaults
      /\ charged \in [Clients -> Int] /\ money \in [Clients -> Nat]
  BY HandlerFrame DEF Handler, Serve, BudgetInv, Types, TypeOK
<1>1. (Cardinality(Busy) <= MaxBusy)'
  BY <1>0, BusyStep
<1>2. /\ \A x \in Clients : Cardinality(Ahead(x)') <= Cardinality(Ahead(x))
      /\ Cardinality(Ahead(c)') <= Cardinality(Ahead(c)) - 1
  <2>1. pc[r] = "upstream"
    BY DEF Serve
  <2>2. ~Exceeded(r)
    BY <2>1 DEF Exceeded
  <2>3. c \in Clients /\ c = Client(r)
    OBVIOUS
  <2>4. /\ \A x \in Clients : x # Client(r) \/ ~Exceeded(r) =>
              Cardinality(Ahead(x)') <= Cardinality(Ahead(x))
        /\ \A x \in Clients : x = Client(r) /\ pc[r] = "upstream" =>
              Cardinality(Ahead(x)') <= Cardinality(Ahead(x)) - 1
    BY <1>0, AheadStep, Zenon
  <2>5. QED
    BY <2>1, <2>2, <2>3, <2>4, Zenon
<1>3. PICK usd \in Costs, o \in Outcomes :
        IF limit[c] < 0 \/ usd = 0
        THEN UNCHANGED <<money, spent, charged, faults>>
        ELSE /\ IF redis THEN Command(o) ELSE o = Plain /\ UNCHANGED faults
             /\ money' = IF redis THEN [money EXCEPT ![c] = @ + o.times * usd] ELSE money
             /\ spent' = IF Locally(o) THEN AddLocally(c, usd) ELSE spent
             /\ charged' = [charged EXCEPT ![c] = @ + usd]
  BY ServeTypes
<1>4. CASE UNCHANGED <<money, spent, charged, faults>>
  <2>1. \A x \in Clients : SpentLocally(x)' = SpentLocally(x)
    BY <1>0, <1>4 DEF SpentLocally
  <2>2. \A x \in Clients : BudgetOf(x)'
    BY <1>0, <1>1, <1>2, <1>4, <2>1, BudgetFrame DEF BudgetInv
  <2>3. QED
    BY <1>0, <1>1, <1>4, <2>2 DEF BudgetInv
<1>5. CASE ~UNCHANGED <<money, spent, charged, faults>>
  <2>1. usd \in Nat /\ usd <= MaxCost /\ MaxCost \in Nat
    BY CostBound, AdmissionAssumption
  <2>2. /\ o # Plain => faults' = faults + 1
        /\ o.times \in 0 .. 2 /\ o.says \in {"own", "error", "other"}
        /\ o = Plain => o.times = 1 /\ o.says = "own"
        /\ o.says # "error" => o.times >= 1
    BY <1>0, <1>3, <1>5, Faulty
  <2>3. \/ o.times = 0 /\ o.times * usd = 0
        \/ o.times = 1 /\ o.times * usd = usd
        \/ o.times = 2 /\ o.times * usd = usd + usd
    BY <2>1, <2>2
  <2>4. /\ charged'[c] = charged[c] + usd
        /\ money'[c] = money[c] + (IF redis THEN o.times * usd ELSE 0)
        /\ \A x \in Clients \ {c} : charged'[x] = charged[x] /\ money'[x] = money[x]
    BY <1>0, <1>3, <1>5, <2>1
  <2>5. /\ SpentLocally(c)' = SpentLocally(c) + (IF Locally(o) THEN usd ELSE 0)
        /\ \A x \in Clients \ {c} : SpentLocally(x)' = SpentLocally(x)
        /\ \A x \in DOMAIN spent' : spent'[x].period <= Period(now')
    <3>0. SpentLocally(c) \in Nat /\ Period(now') = Period(now) /\ Period(now) \in Int
      BY <1>0, SizesType, PeriodGrows DEF Sizes, Types, TypeOK
    <3>1. CASE Locally(o)
      <4> PICK s : s = [period |-> Period(now), usd |-> SpentLocally(c) + usd]
        OBVIOUS
      <4>1. spent' = With(spent, c, s)
        BY <1>3, <1>5, <3>1 DEF AddLocally
      <4>2. /\ DOMAIN spent' = DOMAIN spent \cup {c} /\ spent'[c] = s
            /\ \A x \in DOMAIN spent : x # c => spent'[x] = spent[x]
        BY <4>1 DEF With
      <4>3. s.period = Period(now) /\ s.usd = SpentLocally(c) + usd
        OBVIOUS
      <4>4. SpentLocally(c)' = SpentLocally(c) + usd
        BY <3>0, <4>2, <4>3 DEF SpentLocally
      <4>5. \A x \in Clients \ {c} : SpentLocally(x)' = SpentLocally(x)
        BY <3>0, <4>2 DEF SpentLocally
      <4>6. \A x \in DOMAIN spent' : spent'[x].period <= Period(now')
        BY <3>0, <4>2, <4>3 DEF BudgetInv
      <4>7. QED
        BY <3>1, <4>4, <4>5, <4>6
    <3>2. CASE ~Locally(o)
      <4>1. spent' = spent
        BY <1>3, <1>5, <3>2
      <4>2. \A x \in Clients : SpentLocally(x)' = SpentLocally(x)
        BY <3>0, <4>1 DEF SpentLocally
      <4>3. QED
        BY <3>0, <3>2, <4>1, <4>2 DEF BudgetInv
    <3>3. QED
      BY <3>1, <3>2
  <2>6. ASSUME NEW x \in Clients, x # c PROVE BudgetOf(x)'
    <3>1. BudgetOf(x) /\ Cardinality(Ahead(x)') <= Cardinality(Ahead(x))
      BY <1>2 DEF BudgetInv
    <3>2. /\ charged'[x] = charged[x] /\ money'[x] = money[x] /\ SpentLocally(x)' = SpentLocally(x)
          /\ limit'[x] = limit[x] /\ top'[x] = top[x] /\ redis' = redis /\ unpaid'[x] = unpaid[x]
      BY <1>0, <2>4, <2>5, <2>6
    <3>3. QED
      BY <1>0, <1>1, <3>1, <3>2, BudgetFrame
  <2>7. BudgetOf(c)'
    <3>1. /\ SpentLocally(c) \in Nat /\ unpaid[c] \in Nat /\ money[c] \in Nat /\ charged[c] \in Int /\ top[c] \in Int
          /\ Bound(c) \in Nat /\ Bound(c)' \in Nat
          /\ Cardinality(Ahead(c)) \in Nat /\ Cardinality(Ahead(c)') \in Nat
          /\ faults \in Nat /\ MaxBusy \in Nat
      BY <1>0, <1>1, SizesType, NextSizes, RoomType, NextRooms, AdmissionAssumption
      DEF Sizes, Rooms, Types, TypeOK
    <3>2. Room(c)' >= Room(c) + 1 /\ Room(c)' >= Room(c)
      BY <1>0, <1>2, <3>1 DEF Room
    <3>3. Bound(c)' >= Bound(c) + MaxCost
      BY <1>0, <1>1, <3>2, BoundGrows
    <3>4. /\ charged[c] <= money[c] + SpentLocally(c) + unpaid[c]
          /\ ~redis => charged[c] <= SpentLocally(c) /\ unpaid[c] = 0
          /\ redis => SpentLocally(c) + unpaid[c] <= Lent
          /\ limit[c] < 0 => top[c] < 0
          /\ limit[c] >= 0 /\ top[c] >= 0 => limit[c] <= top[c]
          /\ top[c] >= 0 => charged[c] <= Cap(c) + Bound(c)
      BY DEF BudgetInv, BudgetOf
    <3>5. charged'[c] <= money'[c] + SpentLocally(c)' + unpaid[c]
      <4>1. CASE Locally(o)
        BY <2>1, <2>3, <2>4, <2>5, <3>1, <3>4, <4>1
      <4>2. CASE ~Locally(o)
        <5>1. redis /\ o.times >= 1
          BY <2>2, <4>2 DEF Locally
        <5>2. QED
          BY <2>1, <2>3, <2>4, <2>5, <3>1, <3>4, <4>2, <5>1
      <4>3. QED
        BY <4>1, <4>2
    <3>6. ~redis' => charged'[c] <= SpentLocally(c)' /\ unpaid[c] = 0
      BY <1>0, <2>1, <2>4, <2>5, <3>1, <3>4 DEF Locally
    <3>7. redis' => SpentLocally(c)' + unpaid[c] <= Lent'
      <4>1. /\ Lent \in Nat /\ Lent' \in {Lent, Lent + MaxCost}
            /\ faults' = faults + 1 => Lent' = Lent + MaxCost
        BY <1>0, LentGrows
      <4>2. CASE redis /\ Locally(o)
        <5>1. o # Plain
          BY <2>2, <4>2 DEF Locally
        <5>2. QED
          BY <2>1, <2>2, <2>5, <3>1, <3>4, <4>1, <4>2, <5>1
      <4>3. CASE redis /\ ~Locally(o)
        BY <2>1, <2>5, <3>1, <3>4, <4>1, <4>3
      <4>4. QED
        BY <1>0, <4>2, <4>3
    <3>8. top'[c] >= 0 => charged'[c] <= Cap(c)' + Bound(c)'
      <4>1. Cap(c)' = Cap(c) /\ Cap(c) \in Int
        BY <1>0, <3>1 DEF Cap
      <4>2. QED
        BY <1>0, <2>1, <2>4, <3>1, <3>3, <3>4, <4>1
    <3>9. QED
      BY <1>0, <3>4, <3>5, <3>6, <3>7, <3>8 DEF BudgetOf
  <2>8. \A x \in Clients : BudgetOf(x)'
    BY <2>6, <2>7
  <2>9. QED
    BY <1>1, <2>5, <2>8 DEF BudgetInv
<1>6. QED
  BY <1>4, <1>5

\* A charge cut off by a panic, or for which no map will be unlocked.
LEMMA BudgetUnpaid ==
  ASSUME Types, Types', BudgetInv, NEW r \in Requests,
         (Panics(r) /\ pc[r] = "upstream") \/ Hangs(r)
  PROVE  BudgetInv'
<1> PICK c \in Clients : c = Client(r)
  BY JobType
<1>0. /\ Handler(r) /\ UNCHANGED <<redis, now, limit, top, spent>> /\ faults' = faults + 1
      /\ redis /\ pc[r] = "upstream"
      /\ Cardinality(Busy) <= MaxBusy /\ faults \in 0 .. MaxFaults
  BY Panicking, Hanging DEF Handler, BudgetInv, Types, TypeOK, memVars
<1>1. (Cardinality(Busy) <= MaxBusy)'
  BY <1>0, BusyStep
<1>2. /\ \A x \in Clients : Cardinality(Ahead(x)') <= Cardinality(Ahead(x))
      /\ Cardinality(Ahead(c)') <= Cardinality(Ahead(c)) - 1
  <2>1. ~Exceeded(r)
    BY <1>0 DEF Exceeded
  <2>2. QED
    BY <1>0, <2>1, AheadStep
<1>3. PICK times \in 0 .. 2, usd \in Costs :
        /\ money' = [money EXCEPT ![c] = @ + times * usd]
        /\ charged' = [charged EXCEPT ![c] = @ + usd]
        /\ unpaid' = IF times = 0 THEN [unpaid EXCEPT ![c] = @ + usd] ELSE unpaid
  BY Panicking, Hanging
<1>4. /\ usd \in Nat /\ times * usd \in Nat
      /\ \A x \in Clients \ {c} : /\ money'[x] = money[x] /\ charged'[x] = charged[x]
                                 /\ unpaid'[x] = unpaid[x]
      /\ money'[c] = money[c] + times * usd /\ charged'[c] = charged[c] + usd
      /\ unpaid'[c] = unpaid[c] + (IF times = 0 THEN usd ELSE 0)
      /\ times # 0 => times * usd >= usd
  BY <1>3, Unpaid
<1>5. \A x \in Clients : SpentLocally(x)' = SpentLocally(x)
  BY <1>0 DEF SpentLocally
<1>6. ASSUME NEW x \in Clients, x # c PROVE BudgetOf(x)'
  <2>1. BudgetOf(x) /\ Cardinality(Ahead(x)') <= Cardinality(Ahead(x))
    BY <1>2 DEF BudgetInv
  <2>2. /\ charged'[x] = charged[x] /\ money'[x] = money[x] /\ SpentLocally(x)' = SpentLocally(x)
        /\ limit'[x] = limit[x] /\ top'[x] = top[x] /\ redis' = redis /\ unpaid'[x] = unpaid[x]
    BY <1>0, <1>4, <1>5, <1>6
  <2>3. QED
    BY <1>0, <1>1, <2>1, <2>2, BudgetFrame
<1>7. BudgetOf(c)'
  <2>1. /\ SpentLocally(c) \in Nat /\ unpaid[c] \in Nat /\ money[c] \in Nat /\ charged[c] \in Int
        /\ top[c] \in Int /\ Bound(c) \in Nat /\ Bound(c)' \in Nat
        /\ Cardinality(Ahead(c)) \in Nat /\ Cardinality(Ahead(c)') \in Nat
        /\ faults \in Nat /\ MaxBusy \in Nat
    BY <1>0, <1>1, SizesType, NextSizes, RoomType, NextRooms, AdmissionAssumption
    DEF Sizes, Rooms, Types, TypeOK
  <2>2. Room(c)' >= Room(c) + 1 /\ Room(c)' >= Room(c)
    BY <1>0, <1>2, <2>1 DEF Room
  <2>3. Bound(c)' >= Bound(c) + MaxCost
    BY <1>0, <1>1, <2>2, BoundGrows
  <2>4. /\ charged[c] <= money[c] + SpentLocally(c) + unpaid[c]
        /\ SpentLocally(c) + unpaid[c] <= Lent
        /\ limit[c] < 0 => top[c] < 0
        /\ limit[c] >= 0 /\ top[c] >= 0 => limit[c] <= top[c]
        /\ top[c] >= 0 => charged[c] <= Cap(c) + Bound(c)
    BY <1>0 DEF BudgetInv, BudgetOf
  <2>5. usd <= MaxCost /\ MaxCost \in Nat
    BY CostBound
  <2>6. Lent \in Nat /\ Lent' = Lent + MaxCost
    BY <1>0, LentGrows
  <2>7. charged'[c] <= money'[c] + SpentLocally(c)' + unpaid'[c]
    <3> DEFINE d == times * usd
    <3>1. d \in Nat /\ money'[c] = money[c] + d /\ (times # 0 => d >= usd)
      BY <1>4
    <3> HIDE DEF d
    <3>2. QED
      BY <1>4, <1>5, <2>1, <2>4, <3>1
  <2>8. SpentLocally(c)' + unpaid'[c] <= Lent'
    BY <1>4, <1>5, <2>1, <2>4, <2>5, <2>6
  <2>9. top'[c] >= 0 => charged'[c] <= Cap(c)' + Bound(c)'
    <3>1. Cap(c)' = Cap(c) /\ Cap(c) \in Int
      BY <1>0, <2>1 DEF Cap
    <3>2. QED
      BY <1>0, <1>4, <2>1, <2>3, <2>4, <2>5, <3>1
  <2>10. QED
    BY <1>0, <2>4, <2>7, <2>8, <2>9 DEF BudgetOf
<1>8. \A x \in Clients : BudgetOf(x)'
  BY <1>6, <1>7
<1>9. QED
  BY <1>0, <1>1, <1>8 DEF BudgetInv

LEMMA BudgetExceeded ==
  ASSUME Types, Types', BudgetInv, NEW r \in Requests, Exceeded(r)
  PROVE  BudgetInv'
<1> PICK c \in Clients : c = Client(r)
  BY JobType
<1>0. /\ Handler(r) /\ faults' \in {faults, faults + 1}
      /\ UNCHANGED <<redis, now, money, spent, charged, unpaid, limit, top>>
      /\ Cardinality(Busy) <= MaxBusy /\ faults \in 0 .. MaxFaults
      /\ pc \in [Requests -> Places] /\ pc[r] = "budget"
      /\ \A q \in Requests \ {r} : pc'[q] = pc[q]
  BY HandlerFrame DEF Handler, BudgetInv, Types, TypeOK, Exceeded, storeVars, memVars, histVars
<1>1. (Cardinality(Busy) <= MaxBusy)'
  BY <1>0, BusyStep
<1>2. \A x \in Clients : SpentLocally(x)' = SpentLocally(x)
  BY <1>0 DEF SpentLocally
<1>3. ASSUME NEW x \in Clients, x # c PROVE BudgetOf(x)'
  <2>1. BudgetOf(x) /\ Cardinality(Ahead(x)') <= Cardinality(Ahead(x))
    BY <1>0, <1>3, AheadStep DEF BudgetInv
  <2>2. QED
    BY <1>0, <1>1, <1>2, <2>1, BudgetFrame
<1>4. BudgetOf(c)'
  <2>1. /\ SpentLocally(c) \in Nat /\ unpaid[c] \in Nat /\ money[c] \in Nat /\ charged[c] \in Int /\ top[c] \in Int
        /\ limit[c] \in Int /\ Bound(c) \in Nat /\ Bound(c)' \in Nat /\ Lent' <= Bound(c)'
        /\ Lent' \in Nat /\ Lent \in Nat
        /\ Cardinality(Ahead(c)) \in Nat /\ Cardinality(Ahead(c)') \in Nat
        /\ faults \in Nat /\ MaxBusy \in Nat
    BY <1>0, <1>1, SizesType, NextSizes, RoomType, NextRooms, AdmissionAssumption
    DEF Sizes, Rooms, Types, TypeOK
  <2>2. /\ charged[c] <= money[c] + SpentLocally(c) + unpaid[c]
        /\ ~redis => charged[c] <= SpentLocally(c) /\ unpaid[c] = 0
        /\ redis => SpentLocally(c) + unpaid[c] <= Lent
        /\ limit[c] < 0 => top[c] < 0
        /\ limit[c] >= 0 /\ top[c] >= 0 => limit[c] <= top[c]
        /\ top[c] >= 0 => charged[c] <= Cap(c) + Bound(c)
    BY DEF BudgetInv, BudgetOf
  <2>3. Lent' >= Lent
    BY <1>0, <2>1, CostBound, LentGrows
  <2>4. Cap(c)' = Cap(c) /\ Cap(c) \in Int
    BY <1>0, <2>1 DEF Cap
  <2>5. top[c] >= 0 => charged[c] <= Cap(c) + Bound(c)'
    <3> SUFFICES ASSUME top[c] >= 0 PROVE charged[c] <= Cap(c) + Bound(c)'
      OBVIOUS
    <3>1. limit[c] >= 0
      BY <2>1, <2>2
    <3>2. PICK o \in Outcomes :
            /\ IF redis THEN Command(o) ELSE o = Plain /\ UNCHANGED faults
            /\ \E v \in IF Locally(o) THEN {SpentLocally(c)} ELSE Reads(o, money[c]) :
                 IF v >= limit[c] THEN Refuse(r, "limited") ELSE Goto(r, AfterBudget(r))
      BY <3>1 DEF Exceeded
    <3>3. CASE Cardinality(Ahead(c)') <= Cardinality(Ahead(c))
      <4>1. Room(c)' >= Room(c)
        BY <1>0, <2>1, <3>3 DEF Room
      <4>2. Bound(c)' >= Bound(c)
        BY <1>0, <1>1, <4>1, BoundGrows
      <4>3. QED
        BY <2>1, <2>2, <2>4, <4>2
    <3>4. CASE ~(Cardinality(Ahead(c)') <= Cardinality(Ahead(c)))
      <4>1. Ahead(c)' \subseteq Ahead(c) \cup {r} /\ r \notin Ahead(c)
        <5>1. \A q \in Requests : Client(q)' = Client(q) /\ (q # r => (Passed(q)' <=> Passed(q)))
          BY <1>0, HandlerFrame DEF Client, Passed
        <5>2. QED
          BY <1>0, <5>1 DEF Ahead, Passed
      <4>2. IsFiniteSet(Ahead(c))
        BY SizesType DEF Sizes
      <4>3. /\ IsFiniteSet(Ahead(c) \cup {r})
            /\ Cardinality(Ahead(c) \cup {r}) = Cardinality(Ahead(c)) + 1
        BY <4>1, <4>2, FS_AddElement
      <4>4. Cardinality(Ahead(c)') <= Cardinality(Ahead(c)) + 1
        BY <4>1, <4>3, FS_Subset
      <4>5. CASE faults' = faults + 1
        <5>1. Room(c)' >= Room(c)
          BY <2>1, <4>4, <4>5 DEF Room
        <5>2. Bound(c)' >= Bound(c)
          BY <1>0, <1>1, <5>1, BoundGrows
        <5>3. QED
          BY <2>1, <2>2, <2>4, <5>2
      <4>6. CASE faults' # faults + 1
        <5>1. o = Plain
          BY <1>0, <3>2, <4>6, Faulty
        <5>2. ~Refuse(r, "limited")
          <6>1. ASSUME Refuse(r, "limited") PROVE FALSE
            <7>1. pc'[r] = "done"
              BY <1>0, <6>1 DEF Refuse
            <7>2. r \notin Ahead(c)'
              BY <7>1 DEF Ahead, Passed
            <7>3. Ahead(c)' \subseteq Ahead(c)
              BY <4>1, <7>2
            <7>4. QED
              BY <3>4, <4>2, <7>3, FS_Subset
          <6>2. QED
            BY <6>1
        <5>3. IF redis THEN money[c] < limit[c] ELSE SpentLocally(c) < limit[c]
          <6>1. redis => Reads(o, money[c]) = {money[c]} /\ ~Locally(o)
            BY <5>1 DEF Plain, Reads, Locally
          <6>2. ~redis => Locally(o)
            BY DEF Locally
          <6>3. CASE redis
            <7>1. ~(money[c] >= limit[c])
              BY <3>2, <5>2, <6>1, <6>3
            <7>2. QED
              BY <2>1, <6>3, <7>1
          <6>4. CASE ~redis
            <7>1. ~(SpentLocally(c) >= limit[c])
              BY <3>2, <5>2, <6>2, <6>4
            <7>2. QED
              BY <2>1, <6>4, <7>1
          <6>5. QED
            BY <6>3, <6>4
        <5>4. top[c] > 0 /\ Cap(c) = top[c] - 1
          BY <2>1, <2>2, <3>1, <5>3 DEF Cap
        <5>5. CASE redis
          <6>1. money[c] <= Cap(c)
            BY <2>1, <2>2, <3>1, <5>3, <5>4, <5>5
          <6>2. QED
            BY <2>1, <2>2, <2>3, <2>4, <5>5, <6>1
        <5>6. CASE ~redis
          <6>1. SpentLocally(c) <= Cap(c)
            BY <2>1, <2>2, <3>1, <5>3, <5>4, <5>6
          <6>2. QED
            BY <2>1, <2>2, <2>4, <5>6, <6>1
        <5>7. QED
          BY <5>5, <5>6
      <4>7. QED
        BY <4>5, <4>6
    <3>5. QED
      BY <3>3, <3>4
  <2>6. redis => SpentLocally(c) + unpaid[c] <= Lent'
    BY <2>1, <2>2, <2>3
  <2>7. QED
    BY <1>0, <1>2, <2>2, <2>4, <2>5, <2>6 DEF BudgetOf
<1>5. \A x \in Clients : BudgetOf(x)'
  BY <1>3, <1>4
<1>6. \A x \in DOMAIN spent' : spent'[x].period <= Period(now')
  BY <1>0 DEF BudgetInv
<1>7. QED
  BY <1>1, <1>5, <1>6 DEF BudgetInv

LEMMA BudgetHandler ==
  ASSUME Types, Types', BudgetInv, NEW r \in Requests, Handler(r)
  PROVE  BudgetInv'
<1>1. CASE Serve(r)
  BY <1>1, BudgetServe
<1>2. CASE Exceeded(r)
  BY <1>2, BudgetExceeded
<1>5. CASE (Panics(r) /\ pc[r] = "upstream") \/ Hangs(r)
  BY <1>5, BudgetUnpaid
<1>3. CASE ~Serve(r) /\ ~Exceeded(r) /\ ~(Panics(r) /\ pc[r] = "upstream") /\ ~Hangs(r)
  <2>1. UNCHANGED <<redis, now, money, spent, charged, unpaid, limit, top>>
    <3>1. CASE Panics(r)
      BY <1>3, <3>1, Panicking, JobType DEF memVars
    <3>2. CASE ~Panics(r)
      BY <1>3, <3>2, HandlerFrame
      DEF Handler, Arrive, Allow, ExpireRpm, Check, AllowTokens, ExpireTpm, Refund, Fail,
          storeVars, memVars, histVars
    <3>3. QED
      BY <3>1, <3>2
  <2>2. faults' \in {faults, faults + 1} /\ Cardinality(Busy) <= MaxBusy
    BY HandlerFrame DEF BudgetInv
  <2>3. (Cardinality(Busy) <= MaxBusy)'
    BY <2>2, BusyStep
  <2>4. ASSUME NEW x \in Clients PROVE BudgetOf(x)'
    <3>1. BudgetOf(x) /\ Cardinality(Ahead(x)') <= Cardinality(Ahead(x))
      BY <1>3, AheadStep DEF BudgetInv
    <3>2. SpentLocally(x)' = SpentLocally(x)
      BY <2>1 DEF SpentLocally
    <3>3. QED
      BY <2>1, <2>2, <2>3, <3>1, <3>2, BudgetFrame
  <2>5. \A x \in DOMAIN spent' : spent'[x].period <= Period(now')
    BY <2>1 DEF BudgetInv
  <2>6. QED
    BY <2>3, <2>4, <2>5 DEF BudgetInv
<1>4. QED
  BY <1>1, <1>2, <1>3, <1>5

\* A limit that changes, with charges that stay or are fewer, keeps what it bounds.
LEMMA TopRises ==
  ASSUME Types, Types', Cardinality(Busy) <= MaxBusy, (Cardinality(Busy) <= MaxBusy)',
         NEW c \in Clients, BudgetOf(c), Room(c)' >= Room(c),
         charged'[c] = 0 \/ charged'[c] <= charged[c],
         top'[c] = IF charged'[c] = 0 THEN limit'[c] ELSE Higher(top[c], limit'[c])
  PROVE  /\ limit'[c] < 0 => top'[c] < 0
         /\ limit'[c] >= 0 /\ top'[c] >= 0 => limit'[c] <= top'[c]
         /\ top'[c] >= 0 => charged'[c] <= Cap(c)' + Bound(c)'
<1>1. /\ charged[c] \in Int /\ top[c] \in Int /\ limit[c] \in Int /\ Bound(c) \in Nat
      /\ charged'[c] \in Int /\ top'[c] \in Int /\ limit'[c] \in Int /\ Bound(c)' \in Nat
  BY SizesType, NextSizes, RoomType, NextRooms DEF Sizes, Rooms
<1>2. Bound(c)' >= Bound(c)
  BY BoundGrows
<1>3. top[c] >= 0 => charged[c] <= Cap(c) + Bound(c)
  BY DEF BudgetOf
<1>4. /\ Cap(c) = IF top[c] > 0 THEN top[c] - 1 ELSE 0
      /\ Cap(c)' = IF top'[c] > 0 THEN top'[c] - 1 ELSE 0
  BY DEF Cap
<1>5. CASE charged'[c] = 0
  BY <1>1, <1>4, <1>5
<1>6. CASE charged'[c] # 0
  <2>1. top'[c] = Higher(top[c], limit'[c]) /\ charged'[c] <= charged[c]
    BY <1>6
  <2>2. /\ limit'[c] < 0 => top'[c] < 0
        /\ limit'[c] >= 0 /\ top'[c] >= 0 => limit'[c] <= top'[c]
        /\ top'[c] >= 0 => top[c] >= 0 /\ top[c] <= top'[c]
    BY <1>1, <2>1 DEF Higher
  <2>3. top'[c] >= 0 => charged'[c] <= Cap(c)' + Bound(c)'
    BY <1>1, <1>2, <1>3, <1>4, <2>1, <2>2
  <2>4. QED
    BY <2>2, <2>3
<1>7. QED
  BY <1>5, <1>6

LEMMA BudgetUpdate ==
  ASSUME Types, Types', BudgetInv, NEW c \in Clients, UpdateLimit(c)
  PROVE  BudgetInv'
<1>0. /\ UNCHANGED <<redis, now, money, unpaid, job, pc, faults>>
      /\ Cardinality(Busy) <= MaxBusy /\ faults \in 0 .. MaxFaults
      /\ charged \in [Clients -> Int] /\ top \in [Clients -> Int] /\ limit \in [Clients -> Int]
  BY DEF UpdateLimit, storeVars, reqVars, BudgetInv, Types, TypeOK
<1>1. (Cardinality(Busy) <= MaxBusy)'
  BY <1>0 DEF Busy
<1>2. \A x \in Clients : Ahead(x)' = Ahead(x)
  BY <1>0 DEF Ahead, Passed, Client
<1>3. \A x \in Clients : Room(x)' = Room(x) /\ Room(x) \in Nat /\ Lent' = Lent /\ Lent \in Nat
  BY <1>0, <1>2, RoomType DEF Room, Rooms, Lent, MaxCost
<1>4. PICK l \in NewLimits[c], exact \in BOOLEAN :
        /\ limit' = [limit EXCEPT ![c] = l]
        /\ spent' = IF exact THEN Restrict(spent, DOMAIN spent \ {c}) ELSE spent
        /\ charged' = [charged EXCEPT ![c] = IF exact THEN Forget(c) ELSE charged[c]]
        /\ top' = [top EXCEPT ![c] = IF (IF exact THEN Forget(c) ELSE charged[c]) = 0 THEN l
                                     ELSE Higher(@, l)]
  BY DEF UpdateLimit
<1>5. /\ SpentLocally(c)' = IF exact THEN 0 ELSE SpentLocally(c)
      /\ \A x \in Clients \ {c} : SpentLocally(x)' = SpentLocally(x)
      /\ \A x \in DOMAIN spent' : spent'[x].period <= Period(now')
  <2>1. CASE exact
    <3>1. /\ DOMAIN spent' = DOMAIN spent \ {c}
          /\ \A x \in DOMAIN spent \ {c} : spent'[x] = spent[x]
      BY <1>4, <2>1 DEF Restrict
    <3>2. QED
      BY <1>0, <2>1, <3>1 DEF SpentLocally, BudgetInv
  <2>2. CASE ~exact
    BY <1>0, <1>4, <2>2 DEF SpentLocally, BudgetInv
  <2>3. QED
    BY <2>1, <2>2
<1>6. ASSUME NEW x \in Clients, x # c PROVE BudgetOf(x)'
  <2>1. /\ charged'[x] = charged[x] /\ limit'[x] = limit[x] /\ top'[x] = top[x]
        /\ SpentLocally(x)' = SpentLocally(x) /\ money'[x] = money[x] /\ unpaid'[x] = unpaid[x]
    BY <1>0, <1>4, <1>5, <1>6
  <2>2. Cardinality(Ahead(x)') <= Cardinality(Ahead(x))
    BY <1>2, SizesType DEF Sizes
  <2>3. BudgetOf(x)
    BY DEF BudgetInv
  <2>4. QED
    BY <1>0, <1>1, <2>1, <2>2, <2>3, BudgetFrame
<1>7. BudgetOf(c)'
  <2>1. /\ SpentLocally(c) \in Nat /\ unpaid[c] \in Nat /\ money[c] \in Nat /\ charged[c] \in Int
        /\ charged'[c] = IF exact THEN charged[c] - SpentLocally(c) ELSE charged[c]
        /\ money'[c] = money[c] /\ unpaid'[c] = unpaid[c]
    BY <1>0, <1>4, SizesType DEF Sizes, Forget
  <2>2. /\ charged[c] <= money[c] + SpentLocally(c) + unpaid[c]
        /\ ~redis => charged[c] <= SpentLocally(c) /\ unpaid[c] = 0
        /\ redis => SpentLocally(c) + unpaid[c] <= Lent
    BY DEF BudgetInv, BudgetOf
  <2>3. top'[c] = IF charged'[c] = 0 THEN limit'[c] ELSE Higher(top[c], limit'[c])
    BY <1>0, <1>4
  <2>4. BudgetOf(c) /\ Room(c)' >= Room(c) /\ charged'[c] <= charged[c]
    BY <1>3, <2>1 DEF BudgetInv
  <2>5. /\ limit'[c] < 0 => top'[c] < 0
        /\ limit'[c] >= 0 /\ top'[c] >= 0 => limit'[c] <= top'[c]
        /\ top'[c] >= 0 => charged'[c] <= Cap(c)' + Bound(c)'
    BY <1>0, <1>1, <2>3, <2>4, TopRises
  <2>6. charged'[c] <= money'[c] + SpentLocally(c)' + unpaid'[c]
    BY <1>5, <2>1, <2>2
  <2>7. ~redis' => charged'[c] <= SpentLocally(c)' /\ unpaid'[c] = 0
    BY <1>0, <1>5, <2>1, <2>2
  <2>8. redis' => SpentLocally(c)' + unpaid'[c] <= Lent'
    BY <1>0, <1>3, <1>5, <2>1, <2>2
  <2>9. QED
    BY <2>5, <2>6, <2>7, <2>8 DEF BudgetOf
<1>8. \A x \in Clients : BudgetOf(x)'
  BY <1>6, <1>7
<1>9. QED
  BY <1>1, <1>5, <1>8 DEF BudgetInv

\* A new period has no charges: what memory holds is of an earlier one.
LEMMA BudgetTick ==
  ASSUME Types, Types', BudgetInv, Tick
  PROVE  BudgetInv'
<1>0. /\ UNCHANGED <<redis, limit, spent, job, pc, faults>> /\ now' = now + 1
      /\ now \in Nat /\ Cardinality(Busy) <= MaxBusy
      /\ \A x \in DOMAIN spent : spent[x].period <= Period(now) /\ spent[x].period \in Int
  BY AdmissionAssumption DEF Tick, memVars, reqVars, BudgetInv, Types, TypeOK
<1>1. (Cardinality(Busy) <= MaxBusy)'
  BY <1>0 DEF Busy
<1>2. Period(now) \in Int /\ Period(now + 1) \in Int /\ Period(now) <= Period(now + 1)
  BY <1>0, PeriodGrows
<1>3. \A x \in DOMAIN spent' : spent'[x].period <= Period(now')
  BY <1>0, <1>2
<1>4. ASSUME NEW c \in Clients PROVE BudgetOf(c)'
  <2>1. CASE Period(now + 1) = Period(now)
    <3>1. UNCHANGED <<money, charged, unpaid, top>>
      BY <2>1 DEF Tick
    <3>2. SpentLocally(c)' = SpentLocally(c)
      BY <1>0, <2>1 DEF SpentLocally
    <3>3. Ahead(c)' = Ahead(c)
      BY <1>0 DEF Ahead, Passed, Client
    <3>4. Cardinality(Ahead(c)') <= Cardinality(Ahead(c))
      BY <3>3, SizesType DEF Sizes
    <3>5. BudgetOf(c)
      BY DEF BudgetInv
    <3>6. QED
      BY <1>0, <1>1, <3>1, <3>2, <3>4, <3>5, BudgetFrame
  <2>2. CASE Period(now + 1) # Period(now)
    <3>1. money'[c] = 0 /\ charged'[c] = 0 /\ unpaid'[c] = 0 /\ top'[c] = limit[c] /\ limit'[c] = limit[c]
      BY <1>0, <2>2 DEF Tick
    <3>2. SpentLocally(c)' = 0
      <4>1. c \in DOMAIN spent => spent[c].period # Period(now')
        BY <1>0, <1>2, <2>2
      <4>2. QED
        BY <1>0, <4>1 DEF SpentLocally
    <3>3. limit[c] \in Int /\ Bound(c)' \in Nat /\ Lent' \in Nat
      BY <1>1, SizesType, NextRooms DEF Sizes, Rooms
    <3>4. Cap(c)' >= 0 /\ Cap(c)' \in Int
      BY <3>1, <3>3 DEF Cap
    <3>5. QED
      BY <3>1, <3>2, <3>3, <3>4 DEF BudgetOf
  <2>3. QED
    BY <2>1, <2>2
<1>5. QED
  BY <1>1, <1>3, <1>4 DEF BudgetInv

\* A restart forgets what memory held, and one more fault makes up for it.
LEMMA BudgetRestart ==
  ASSUME Types, Types', BudgetInv, Restart
  PROVE  BudgetInv'
<1>0. /\ UNCHANGED <<now, money, job>> /\ faults' = faults + 1 /\ spent' = <<>>
      /\ pc' = [r \in Requests |-> IF r \in Busy THEN "done" ELSE pc[r]]
      /\ Cardinality(Busy) <= MaxBusy /\ faults \in Nat /\ redis \in BOOLEAN /\ redis' \in BOOLEAN
      /\ MaxBusy \in Nat
  BY AdmissionAssumption DEF Restart, storeVars, BudgetInv, Types, TypeOK
<1>1. Busy' = {}
  BY <1>0 DEF Busy
<1>2. (Cardinality(Busy) <= MaxBusy)'
  BY <1>0, <1>1, FS_EmptySet
<1>3. DOMAIN spent' = {} /\ \A c \in Clients : SpentLocally(c)' = 0
  BY <1>0 DEF SpentLocally
<1>4. ASSUME NEW c \in Clients PROVE BudgetOf(c)'
  <2>1. /\ SpentLocally(c) \in Nat /\ unpaid[c] \in Nat /\ money[c] \in Nat /\ charged[c] \in Int
        /\ Cardinality(Ahead(c)) \in Nat /\ Cardinality(Ahead(c)') = 0
    <3>1. Cardinality(Ahead(c)') <= Cardinality(Busy') /\ Cardinality(Ahead(c)') \in Nat
      BY NextSizes DEF Sizes
    <3>2. QED
      BY <1>1, <3>1, SizesType, FS_EmptySet DEF Sizes
  <2>2. /\ charged'[c] = IF redis /\ redis' THEN charged[c] - SpentLocally(c) ELSE 0
        /\ unpaid'[c] = IF redis /\ redis' THEN unpaid[c] ELSE 0
    BY DEF Restart, Forget
  <2>3. /\ charged[c] <= money[c] + SpentLocally(c) + unpaid[c]
        /\ redis => SpentLocally(c) + unpaid[c] <= Lent
        /\ BudgetOf(c)
    BY DEF BudgetInv, BudgetOf
  <2>4. Room(c)' >= Room(c)
    BY <1>0, <2>1 DEF Room
  <2>5. top'[c] = IF charged'[c] = 0 THEN limit'[c] ELSE Higher(top[c], limit'[c])
    BY DEF Restart
  <2>6. charged'[c] = 0 \/ charged'[c] <= charged[c]
    BY <2>1, <2>2
  <2>7. /\ limit'[c] < 0 => top'[c] < 0
        /\ limit'[c] >= 0 /\ top'[c] >= 0 => limit'[c] <= top'[c]
        /\ top'[c] >= 0 => charged'[c] <= Cap(c)' + Bound(c)'
    BY <1>0, <1>2, <2>3, <2>4, <2>5, <2>6, TopRises
  <2>8. Lent' \in Nat /\ Lent \in Nat /\ Lent <= Lent'
    BY <1>0, <1>2, NextRooms, LentGrows DEF Rooms
  <2>9. /\ charged'[c] <= money'[c] + SpentLocally(c)' + unpaid'[c]
        /\ ~redis' => charged'[c] <= SpentLocally(c)' /\ unpaid'[c] = 0
        /\ redis' => SpentLocally(c)' + unpaid'[c] <= Lent'
    BY <1>0, <1>3, <2>1, <2>2, <2>3, <2>8
  <2>10. QED
    BY <2>7, <2>9 DEF BudgetOf
<1>5. QED
  BY <1>2, <1>3, <1>4 DEF BudgetInv

LEMMA BudgetStep == Types /\ Types' /\ BudgetInv /\ [Next]_vars => BudgetInv'
<1> SUFFICES ASSUME Types, Types', BudgetInv, [Next]_vars PROVE BudgetInv'
  OBVIOUS
<1>1. ASSUME NEW r \in Requests, Handler(r) PROVE BudgetInv'
  BY <1>1, BudgetHandler
<1>2. ASSUME NEW c \in Clients, UpdateLimit(c) PROVE BudgetInv'
  BY <1>2, BudgetUpdate
<1>3. ASSUME UNCHANGED <<redis, now, money, spent, charged, unpaid, limit, top, pc, job, faults>>
      PROVE  BudgetInv'
  <2>1. Cardinality(Busy) <= MaxBusy /\ (Cardinality(Busy) <= MaxBusy)'
    BY <1>3 DEF Busy, BudgetInv
  <2>2. ASSUME NEW c \in Clients PROVE BudgetOf(c)'
    <3>1. Ahead(c)' = Ahead(c) /\ SpentLocally(c)' = SpentLocally(c)
      BY <1>3 DEF Ahead, Passed, Client, SpentLocally
    <3>2. BudgetOf(c) /\ Cardinality(Ahead(c)') <= Cardinality(Ahead(c))
      BY <3>1, SizesType DEF BudgetInv, Sizes
    <3>3. QED
      BY <1>3, <2>1, <3>1, <3>2, BudgetFrame
  <2>3. QED
    BY <1>3, <2>1, <2>2 DEF BudgetInv
<1>4. ASSUME NEW c \in Clients, GenerateToken(c) \/ ExpireKey(c) PROVE BudgetInv'
  <2>1. UNCHANGED <<redis, now, money, spent, charged, unpaid, limit, top, pc, job, faults>>
    BY <1>4 DEF GenerateToken, ExpireKey, storeVars, memVars, histVars, reqVars
  <2>2. QED
    BY <1>3, <2>1
<1>5. CASE Tick
  BY <1>5, BudgetTick
<1>6. CASE Restart
  BY <1>6, BudgetRestart
<1>7. CASE ReportPanics \/ UNCHANGED vars
  BY <1>3, <1>7 DEF ReportPanics, vars, storeVars, memVars, histVars, reqVars
<1>8. QED
  BY <1>1, <1>2, <1>4, <1>5, <1>6, <1>7 DEF Next

-----------------------------------------------------------------------------
(***************************************************************************)
(* The theorems.                                                           *)
(***************************************************************************)

LEMMA InitToken == Init => TokenInv
<1> SUFFICES ASSUME Init PROVE TokenInv
  OBVIOUS
<1>0. Types /\ faults = 0
  BY InitTypes DEF Init
<1>1. \A r \in Requests : pc[r] = "idle"
  BY DEF Init
<1>2. ASSUME NEW c \in Clients PROVE TokenOf(c)
  <2>1. tpmKey[c].n = 0 /\ late[c] = 0 /\ granted[c] = 0
    BY DEF Init, Missing
  <2>2. Owed(c) = {}
    BY <1>1 DEF Owed, OwedBy
  <2>3. Cardinality(Owed(c)) = 0
    BY <2>2, FS_EmptySet
  <2>4. Slack \in Nat /\ TPM[c] \in Nat /\ Bucket(<<"tpm", c>>).tok \in Nat
    BY <1>0, Quantities DEF Numbers
  <2>5. Counted(c) = Slack
    BY <2>1, <2>4 DEF Counted
  <2>6. QED
    BY <2>1, <2>3, <2>4, <2>5 DEF TokenOf
<1>3. QED
  BY <1>1, <1>2 DEF TokenInv

LEMMA InitBudget == Init => BudgetInv
<1> SUFFICES ASSUME Init PROVE BudgetInv
  OBVIOUS
<1>0. Types
  BY InitTypes
<1>1. Busy = {} /\ MaxBusy \in Nat
  BY AdmissionAssumption DEF Init, Busy
<1>2. Cardinality(Busy) <= MaxBusy
  BY <1>1, FS_EmptySet
<1>3. DOMAIN spent = {}
  BY DEF Init
<1>4. ASSUME NEW c \in Clients PROVE BudgetOf(c)
  <2>1. charged[c] = 0 /\ money[c] = 0 /\ unpaid[c] = 0 /\ top[c] = limit[c] /\ SpentLocally(c) = 0
    BY <1>3 DEF Init, SpentLocally
  <2>2. limit[c] \in Int /\ Bound(c) \in Nat /\ Lent \in Nat
    BY <1>0, <1>2, SizesType, RoomType DEF Sizes, Rooms
  <2>3. Cap(c) \in Int /\ Cap(c) >= 0
    BY <2>1, <2>2 DEF Cap
  <2>4. QED
    BY <2>1, <2>2, <2>3 DEF BudgetOf
<1>5. QED
  BY <1>2, <1>3, <1>4 DEF BudgetInv

LEMMA ChargesInvariant == Spec => [](Types /\ TokenInv /\ BudgetInv)
<1>1. Init => Types /\ TokenInv /\ BudgetInv
  BY InitTypes, InitToken, InitBudget
<1>2. (Types /\ TokenInv /\ BudgetInv) /\ [Next]_vars => (Types /\ TokenInv /\ BudgetInv)'
  BY TypesInv, TokenStep, BudgetStep
<1>3. QED
  BY <1>1, <1>2, PTL DEF Spec

\* However AllowTokens, its PEXPIRE, the refunds and the expiry of the key
\* interleave, and whatever commands fail: no client gets more tokens through than
\* its tpm, what refunds have put into a later counter, and one request's for each
\* failure.
THEOREM TokensKept == Spec => []TokensHeld
<1>1. Types /\ TokenInv => TokensHeld
  <2> SUFFICES ASSUME Types, TokenInv, NEW c \in Clients, TPM[c] > 0
               PROVE  granted[c] <= TPM[c] + late[c] + Slack
    BY DEF TokensHeld, Slack
  <2>1. /\ redis => granted[c] <= TPM[c] + late[c] + Slack
        /\ ~redis => granted[c] <= TPM[c]
    BY DEF TokenInv, TokenOf
  <2>2. late[c] \in Nat /\ granted[c] \in Nat /\ TPM[c] \in Nat /\ Slack \in Nat
    BY Quantities DEF Numbers
  <2>3. QED
    BY <2>1, <2>2
<1>2. QED
  BY <1>1, ChargesInvariant, PTL

\* add writes to the store and, where that fails, to memory: what the two hold
\* covers every charge of the period that no update or restart has reset, but for
\* those that a panic on the connection cuts off before the command is sent, and
\* those that failed while the map's mutex was abandoned; and these are no more than
\* one request's for each failure.
THEOREM ChargesAccounted == Spec => []ChargesKept
<1>1. Types /\ BudgetInv => ChargesKept
  <2> SUFFICES ASSUME Types, BudgetInv, NEW c \in Clients
               PROVE  /\ charged[c] <= money[c] + SpentLocally(c) + unpaid[c]
                      /\ unpaid[c] <= faults * MaxCost
    BY DEF ChargesKept
  <2>1. /\ charged[c] <= money[c] + SpentLocally(c) + unpaid[c]
        /\ ~redis => unpaid[c] = 0
        /\ redis => SpentLocally(c) + unpaid[c] <= Lent
    BY DEF BudgetInv, BudgetOf
  <2>2. SpentLocally(c) \in Nat /\ unpaid[c] \in Nat /\ Lent \in Nat
    BY SizesType, RoomType DEF Sizes, Rooms, BudgetInv
  <2>3. unpaid[c] <= Lent
    BY <2>1, <2>2
  <2>4. QED
    BY <2>1, <2>3 DEF Lent
<1>2. QED
  BY <1>1, ChargesInvariant, PTL

\* exceeded reads before the upstream call what add writes after it, and neither
\* adds up store and memory: still a client spends no more than its limit, what
\* its requests under way cost, and one request more for each failure.
THEOREM Overspend == Spec => []OverspendBounded
<1>1. Types /\ BudgetInv => OverspendBounded
  <2> SUFFICES ASSUME Types, BudgetInv, NEW c \in Clients, charged[c] > 0, top[c] >= 0
               PROVE  charged[c] <= Max({top[c] - 1, 0}) + (MaxBusy + faults) * MaxCost
    BY DEF OverspendBounded
  <2>1. /\ faults \in Nat /\ MaxBusy \in Nat /\ MaxCost \in Nat /\ top[c] \in Int
        /\ charged[c] \in Int /\ Cardinality(Ahead(c)) \in Nat
        /\ Room(c) \in Nat /\ Bound(c) \in Nat
    BY SizesType, RoomType, CostBound, AdmissionAssumption
    DEF Sizes, Rooms, BudgetInv, Types, TypeOK
  <2>2. Max({top[c] - 1, 0}) = Cap(c)
    <3> DEFINE S == {top[c] - 1, 0}
    <3>1. S \in SUBSET Int /\ S # {}
      BY <2>1
    <3>2. IsFiniteSet(S)
      <4>1. IsFiniteSet({top[c] - 1})
        BY FS_Singleton
      <4>2. IsFiniteSet({top[c] - 1} \cup {0})
        BY <4>1, FS_AddElement
      <4>3. QED
        BY <4>2
    <3>3. Max(S) \in S /\ \A x \in S : x <= Max(S)
      BY <3>1, <3>2, Greatest
    <3>4. QED
      BY <2>1, <3>3 DEF Cap
  <2>3. MaxBusy + faults \in Nat /\ Room(c) <= MaxBusy + faults
    BY <2>1 DEF Room
  <2>4. Bound(c) <= (MaxBusy + faults) * MaxCost
    BY <2>1, <2>3, ProductGrows DEF Bound
  <2>5. charged[c] <= Cap(c) + Bound(c)
    BY DEF BudgetInv, BudgetOf
  <2>6. (MaxBusy + faults) * MaxCost \in Int /\ Cap(c) \in Int
    BY <2>1 DEF Cap
  <2>7. QED
    BY <2>1, <2>2, <2>4, <2>5, <2>6
<1>2. QED
  BY <1>1, ChargesInvariant, PTL

=============================================================================
