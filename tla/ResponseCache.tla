---------------------------- MODULE ResponseCache ----------------------------
(***************************************************************************)
(* The response cache: replicas of the gateway, each with an exact cache   *)
(* and a semantic index of its own, over a Redis tier they may share.      *)
(* handleMessages looks a request up, and after a miss and a successful    *)
(* upstream call writes its answer back, in steps other requests, a flush  *)
(* or a restart may come between.  Every lock the code takes covers one    *)
(* action.                                                                 *)
(*                                                                         *)
(* A body is named by the request whose upstream call produced it.  An     *)
(* embedding vector is the prompt it was computed from.                    *)
(***************************************************************************)
EXTENDS Integers, Sequences, FiniteSets, Functions

CONSTANTS
  Replicas,     \* gateway processes
  Requests,     \* non-stream requests; each is handled once
  Prompts,      \* what is hashed and embedded of a request
  Targets,      \* provider and model together
  CustomKeys,   \* x-ccg-cache-key values in use
  Mixes,        \* what the clients ask for, and of which replica
  Sim,          \* Sim[p][q]: cosine of two prompts' vectors, scaled to Nat
  Threshold,    \* cache.semantic.threshold
  MaxEntries,   \* cache.max_entries, of the cache and of the index
  TTL,          \* cache.ttl
  Semantic,     \* TRUE: the semantic index is on
  Shared,       \* TRUE: state.redis_url is set and cache.ttl positive
  MaxBusy,      \* bound on requests under way at a time
  MaxFaults,    \* bound on errors, flushes and restarts
  MaxNow        \* bound on the clock

ASSUME CacheAssumption ==
  /\ Sim \in [Prompts -> [Prompts -> Nat]]
  /\ Threshold \in Nat
  /\ MaxEntries \in Nat \ {0}
  /\ TTL \in Nat \ {0}
  /\ Semantic \in BOOLEAN /\ Shared \in BOOLEAN
  /\ MaxBusy \in Nat /\ MaxFaults \in Nat /\ MaxNow \in Nat

NoKey == <<"none">>
Asks == [rep : Replicas, target : Targets, prompt : Prompts,
         custom : {NoKey} \cup ({"custom"} \X CustomKeys), skip : BOOLEAN]

ASSUME MixesAssumption == Mixes \subseteq [Requests -> Asks]

VARIABLES
  now,     \* the clock
  local,   \* Cache.m and Cache.order of each replica
  index,   \* SemanticIndex.entries of each replica
  redis,   \* the cache: keys of the shared store
  job,     \* what a request asks for, and its semKey and semVec
  pc,      \* where its handler stands
  answer,  \* the body it got and from where
  faults,  \* errors, flushes and restarts so far
  saved    \* history: when a body was last written under its two keys

vars == <<now, local, index, redis, job, pc, answer, faults, saved>>

Keys == ({"exact"} \X Targets \X Prompts) \cup ({"custom"} \X CustomKeys)
          \cup ({"sem"} \X Requests)

\* ck of the handler.
CacheKey(j) == IF j.ask.custom # NoKey THEN j.ask.custom
               ELSE <<"exact", j.ask.target, j.ask.prompt>>

Entry(body, at) == [body |-> body, at |-> at]
Entries == [body : Requests, at : Nat]
Empty == <<>>
IsMap(m) ==
  /\ m = [k \in DOMAIN m |-> m[k]]
  /\ DOMAIN m \subseteq Keys
  /\ \A k \in DOMAIN m : m[k] \in Entries

Places == {"idle", "sem", "semShared", "exact", "exactShared", "upstream",
           "put", "putShared", "putSem", "putSemShared", "index", "done"}
Sources == {"none", "semantic", "exact", "upstream", "failed", "lost"}
Jobs == [ask : Asks,
         sem : {NoKey} \cup ({"sem"} \X Requests), fresh : BOOLEAN]

Init ==
  /\ now = 1
  /\ local = [d \in Replicas |-> [m |-> Empty, order |-> <<>>]]
  /\ index = [d \in Replicas |-> <<>>]
  /\ redis = Empty
  /\ \E mix \in Mixes :
       job = [r \in Requests |-> [ask |-> mix[r], sem |-> NoKey, fresh |-> FALSE]]
  /\ pc = [r \in Requests |-> "idle"]
  /\ answer = [r \in Requests |-> [src |-> "none", body |-> r]]
  /\ faults = 0
  /\ saved = [r \in Requests |-> [ck |-> 0, sem |-> 0]]

-----------------------------------------------------------------------------
(* Cache. *)

Drop(m, k) == Restrict(m, DOMAIN m \ {k})
Store(m, k, e) == [x \in DOMAIN m \cup {k} |-> IF x = k THEN e ELSE m[x]]

\* In Cache.m, and in Redis, where PX ends an entry's life.
Live(m, k) == k \in DOMAIN m /\ now - m[k].at <= TTL

\* An expired entry leaves the map; its place in the order stays.
AfterGet(c, k) == IF Live(c.m, k) THEN c ELSE [c EXCEPT !.m = Drop(@, k)]

\* To be caught: the oldest key leaves the order only.
PutForgetful(c, k, body) ==
  LET order == IF k \in DOMAIN c.m THEN c.order ELSE Append(c.order, k)
      full  == Len(order) > MaxEntries
  IN  [m |-> Store(c.m, k, Entry(body, now)),
       order |-> IF full THEN Tail(order) ELSE order]

\* To be caught: the entry evicted is the newest.
PutEvictingNewest(c, k, body) ==
  LET m     == Store(c.m, k, Entry(body, now))
      order == IF k \in DOMAIN c.m THEN c.order ELSE Append(c.order, k)
      full  == Len(order) > MaxEntries
  IN  [m |-> IF full THEN Drop(m, order[Len(order)]) ELSE m,
       order |-> IF full THEN SubSeq(order, 1, MaxEntries) ELSE order]

\* The order is at most one too long, so one eviction ends the loop.
Put(c, k, body) ==
  LET m     == Store(c.m, k, Entry(body, now))
      order == IF k \in DOMAIN c.m THEN c.order ELSE Append(c.order, k)
      full  == Len(order) > MaxEntries
  IN  [m |-> IF full THEN Drop(m, Head(order)) ELSE m,
       order |-> IF full THEN Tail(order) ELSE order]

-----------------------------------------------------------------------------
(* SemanticIndex. *)

Near(s, p) == {i \in DOMAIN s : Sim[p][s[i].vec] >= Threshold}

\* The first of the best entries, if they are near enough.
Search(s, p) ==
  {i \in Near(s, p) :
     \A n \in DOMAIN s : \/ Sim[p][s[n].vec] < Sim[p][s[i].vec]
                         \/ Sim[p][s[n].vec] = Sim[p][s[i].vec] /\ i <= n}

Add(s, p, k) ==
  LET t == Append(s, [vec |-> p, key |-> k])
  IN  IF Len(t) > MaxEntries THEN Tail(t) ELSE t

-----------------------------------------------------------------------------
(* A request of handleMessages, after admission and Resolve. *)

\* Errors of the services, flushes and restarts.
CountFault == faults < MaxFaults /\ faults' = faults + 1

Goto(r, place) == pc' = [pc EXCEPT ![r] = place]
Answer(r, src, body) == answer' = [answer EXCEPT ![r] = [src |-> src, body |-> body]]

Arrives(r) ==
  /\ pc[r] = "idle"
  /\ Cardinality({q \in Requests : pc[q] \notin {"idle", "done"}}) < MaxBusy

\* x-ccg-skip-cache leaves both lookup and write-back out.
SkipCache(r) ==
  /\ Arrives(r) /\ job[r].ask.skip
  /\ Goto(r, "upstream")
  /\ UNCHANGED <<now, local, index, redis, job, answer, saved, faults>>

\* No index, or the embeddings service failed or answered nonsense.
ExactOnly(r) ==
  /\ Arrives(r) /\ ~job[r].ask.skip
  /\ IF Semantic THEN CountFault ELSE UNCHANGED faults
  /\ Goto(r, "exact")
  /\ UNCHANGED <<now, local, index, redis, job, answer, saved>>

\* To be caught: the answer is mirrored under the neighbour's key as well.
EmbedAndSearchMirroring(r) ==
  /\ Arrives(r) /\ ~job[r].ask.skip /\ Semantic
  /\ LET s     == index[job[r].ask.rep]
         found == Search(s, job[r].ask.prompt)
     IN  \/ \E i \in found :
              job' = [job EXCEPT ![r].sem = s[i].key, ![r].fresh = TRUE]
         \/ found = {} /\ job' = [job EXCEPT ![r].sem = <<"sem", r>>, ![r].fresh = TRUE]
  /\ Goto(r, "sem")
  /\ UNCHANGED <<now, local, index, redis, answer, saved, faults>>

\* The prompt's vector is there: the best entry's key is the one looked up, and
\* semVec stays nil; without one the request gets a new random key.
EmbedAndSearch(r) ==
  /\ Arrives(r) /\ ~job[r].ask.skip /\ Semantic
  /\ LET s     == index[job[r].ask.rep]
         found == Search(s, job[r].ask.prompt)
     IN  \/ \E i \in found :
              job' = [job EXCEPT ![r].sem = s[i].key, ![r].fresh = FALSE]
         \/ found = {} /\ job' = [job EXCEPT ![r].sem = <<"sem", r>>, ![r].fresh = TRUE]
  /\ Goto(r, "sem")
  /\ UNCHANGED <<now, local, index, redis, answer, saved, faults>>

\* The key a lookup step looks for, what a hit is logged as, where a miss goes.
Sought(r) == IF pc[r] \in {"sem", "semShared"} THEN job[r].sem ELSE CacheKey(job[r])
HitKind(r) == IF pc[r] \in {"sem", "semShared"} THEN "semantic" ELSE "exact"
AfterMiss(r) ==
  CASE pc[r] = "sem"   -> IF Shared THEN "semShared" ELSE "exact"
    [] pc[r] = "exact" -> IF Shared THEN "exactShared" ELSE "upstream"
    [] pc[r] = "semShared"   -> "exact"
    [] pc[r] = "exactShared" -> "upstream"

\* cacheGet, the local tier.
LookUpLocal(r) ==
  /\ pc[r] \in {"sem", "exact"}
  /\ LET d == job[r].ask.rep
         k == Sought(r)
     IN  /\ local' = [local EXCEPT ![d] = AfterGet(@, k)]
         /\ \/ /\ Live(local[d].m, k)
               /\ Answer(r, HitKind(r), local[d].m[k].body)
               /\ Goto(r, "done")
            \/ ~Live(local[d].m, k) /\ Goto(r, AfterMiss(r)) /\ UNCHANGED answer
  /\ UNCHANGED <<now, index, redis, job, saved, faults>>

\* To be caught: a hit in Redis is also entered in the local cache, where it
\* lives for another TTL.
LookUpSharedFilling(r) ==
  /\ pc[r] \in {"semShared", "exactShared"}
  /\ LET k == Sought(r) IN
     \/ /\ Live(redis, k)
        /\ Answer(r, HitKind(r), redis[k].body)
        /\ local' = [local EXCEPT ![job[r].ask.rep] = Put(@, k, redis[k].body)]
        /\ Goto(r, "done")
     \/ ~Live(redis, k) /\ Goto(r, AfterMiss(r)) /\ UNCHANGED <<local, answer>>
  /\ UNCHANGED <<now, index, redis, job, saved, faults>>

\* cacheGet, the shared tier; an error of the store is a miss.
LookUpShared(r) ==
  /\ pc[r] \in {"semShared", "exactShared"}
  /\ \/ /\ Live(redis, Sought(r))
        /\ Answer(r, HitKind(r), redis[Sought(r)].body)
        /\ Goto(r, "done")
        /\ UNCHANGED faults
     \/ /\ IF Live(redis, Sought(r)) THEN CountFault ELSE UNCHANGED faults
        /\ Goto(r, AfterMiss(r))
        /\ UNCHANGED answer
  /\ UNCHANGED <<now, local, index, redis, job, saved>>

\* The attempt loop (module Dispatch) succeeds or gives up.
Call(r) ==
  /\ pc[r] = "upstream"
  /\ \/ Answer(r, "upstream", r) /\ Goto(r, IF job[r].ask.skip THEN "done" ELSE "put")
     \/ Answer(r, "failed", r) /\ Goto(r, "done")
  /\ UNCHANGED <<now, local, index, redis, job, saved, faults>>

-----------------------------------------------------------------------------
(* The write-back. *)

\* To be caught: the index is told before the answer is stored.
AfterWriteIndexing(r) ==
  IF pc[r] \in {"put", "putShared"} THEN (IF job[r].fresh THEN "index" ELSE "done")
                                   ELSE "done"

Written(r) == IF pc[r] \in {"put", "putShared"} THEN CacheKey(job[r]) ELSE job[r].sem
AfterWrite(r) == IF pc[r] \in {"put", "putShared"}
                 THEN (IF job[r].fresh THEN "putSem" ELSE "done")
                 ELSE "index"
Note(r) == saved' = IF pc[r] \in {"put", "putShared"} THEN [saved EXCEPT ![r].ck = now]
                                                     ELSE [saved EXCEPT ![r].sem = now]

\* cachePutAll, the local tier.
PutLocal(r) ==
  /\ pc[r] \in {"put", "putSem"}
  /\ local' = [local EXCEPT ![job[r].ask.rep] = Put(@, Written(r), r)]
  /\ Note(r)
  /\ Goto(r, IF ~Shared THEN AfterWrite(r)
             ELSE IF pc[r] = "put" THEN "putShared" ELSE "putSemShared")
  /\ UNCHANGED <<now, index, redis, job, answer, faults>>

\* To be caught: the answer is stored in Redis under the prompt's hash alone.
PutSharedAnyTarget(r) ==
  /\ pc[r] \in {"putShared", "putSemShared"}
  /\ \E t \in Targets :
       redis' = Store(redis, IF pc[r] = "putShared" /\ job[r].ask.custom = NoKey
                             THEN <<"exact", t, job[r].ask.prompt>> ELSE Written(r),
                      Entry(r, now))
  /\ Note(r)
  /\ Goto(r, AfterWrite(r))
  /\ UNCHANGED <<now, local, index, job, answer, faults>>

\* cachePutAll, the shared tier; an error of the store is ignored.
PutShared(r) ==
  /\ pc[r] \in {"putShared", "putSemShared"}
  /\ \/ /\ redis' = Store(redis, Written(r), Entry(r, now))
        /\ Note(r)
        /\ UNCHANGED faults
     \/ CountFault /\ UNCHANGED <<redis, saved>>
  /\ Goto(r, AfterWrite(r))
  /\ UNCHANGED <<now, local, index, job, answer>>

AddToIndex(r) ==
  /\ pc[r] = "index"
  /\ index' = [index EXCEPT ![job[r].ask.rep] = Add(@, job[r].ask.prompt, job[r].sem)]
  /\ Goto(r, "done")
  /\ UNCHANGED <<now, local, redis, job, answer, saved, faults>>

-----------------------------------------------------------------------------
(* The environment. *)

\* POST /admin/flush-cache on one replica.
Flush(d) ==
  /\ local' = [local EXCEPT ![d] = [m |-> Empty, order |-> <<>>]]
  /\ CountFault
  /\ UNCHANGED <<now, index, redis, job, pc, answer, saved>>

\* A replica dies and is started again: its memory and its requests are gone.
Restart(d) ==
  LET here == {r \in Requests : job[r].ask.rep = d /\ pc[r] \notin {"idle", "done"}} IN
  /\ local' = [local EXCEPT ![d] = [m |-> Empty, order |-> <<>>]]
  /\ index' = [index EXCEPT ![d] = <<>>]
  /\ pc' = [r \in Requests |-> IF r \in here THEN "done" ELSE pc[r]]
  /\ answer' = [r \in Requests |-> IF r \in here /\ answer[r].src = "none"
                                   THEN [src |-> "lost", body |-> r] ELSE answer[r]]
  /\ CountFault
  /\ UNCHANGED <<now, redis, job, saved>>

Tick ==
  /\ now < MaxNow
  /\ now' = now + 1
  /\ UNCHANGED <<local, index, redis, job, pc, answer, faults, saved>>

Handler(r) ==
  \/ SkipCache(r) \/ ExactOnly(r) \/ EmbedAndSearch(r) \/ LookUpLocal(r)
  \/ LookUpShared(r) \/ Call(r) \/ PutLocal(r) \/ PutShared(r) \/ AddToIndex(r)

Next ==
  \/ \E r \in Requests : Handler(r)
  \/ \E d \in Replicas : Flush(d) \/ Restart(d)
  \/ Tick

Spec == Init /\ [][Next]_vars

-----------------------------------------------------------------------------
(* Properties. *)

IndexEntries == [vec : Prompts, key : {"sem"} \X Requests]

(***************************************************************************)
(* Types, and the limits of the cache: the order and the index never       *)
(* exceed max_entries, and every cached key is in the order, so that it    *)
(* will be evicted, although expired keys stay in it.                      *)
(***************************************************************************)
TypeOK ==
  /\ now \in Nat \ {0}
  /\ DOMAIN local = Replicas
  /\ \A d \in Replicas :
       /\ IsMap(local[d].m)
       /\ local[d].order \in Seq(Keys)
       /\ Len(local[d].order) <= MaxEntries
       /\ DOMAIN local[d].m \subseteq Range(local[d].order)
  /\ index \in [Replicas -> Seq(IndexEntries)]
  /\ \A d \in Replicas : Len(index[d]) <= MaxEntries
  /\ IsMap(redis)
  /\ job \in [Requests -> Jobs]
  /\ pc \in [Requests -> Places]
  /\ answer \in [Requests -> [src : Sources, body : Requests]]
  /\ faults \in Nat
  /\ saved \in [Requests -> [ck : Nat, sem : Nat]]

(***************************************************************************)
(* An exact hit, in whichever tier, after whatever evictions, flushes and  *)
(* restarts, is the answer to a request with the same target and prompt,   *)
(* or to one with the same x-ccg-cache-key.                                *)
(***************************************************************************)
ExactHitsMatch ==
  \A r \in Requests : answer[r].src = "exact" =>
    CacheKey(job[answer[r].body]) = CacheKey(job[r])

(***************************************************************************)
(* A semantic hit is the answer to a prompt no further than the threshold, *)
(* asked of the same replica: hits never chain from one near prompt to the *)
(* next (model and provider are not compared).                             *)
(***************************************************************************)
SemanticHitsNear ==
  \A r \in Requests : answer[r].src = "semantic" =>
    /\ Sim[job[r].ask.prompt][job[answer[r].body].ask.prompt] >= Threshold
    /\ job[answer[r].body].ask.rep = job[r].ask.rep

(***************************************************************************)
(* A key enters the semantic index only after its answer has been stored:  *)
(* a search never leads to a key that has no answer yet.                   *)
(***************************************************************************)
IndexedAfterSaved ==
  \A d \in Replicas : \A i \in DOMAIN index[d] : saved[index[d][i].key[2]].sem > 0

(***************************************************************************)
(* No answer is served more than a TTL after it was last written, however  *)
(* many hits it has had and through however many tiers.                    *)
(***************************************************************************)
ServedFresh ==
  [][\A r \in Requests :
       answer[r].src = "none" /\ answer'[r].src \in {"exact", "semantic"}
         => LET t == saved[answer'[r].body]
            IN  now - (IF answer'[r].src = "exact" THEN t.ck ELSE t.sem) <= TTL]_vars

(***************************************************************************)
(* The entry a request stores survives its own Put, whatever it evicts --  *)
(* unless its key still stands in the order for an entry that has expired  *)
(* and been deleted, which a full cache then evicts under that key.        *)
(***************************************************************************)
NewestSurvives ==
  [][\A r \in Requests :
       pc[r] \in {"put", "putSem"} /\ saved'[r] # saved[r]
         => LET c == local[job[r].ask.rep]
                k == Written(r)
            IN  \/ k \in DOMAIN local'[job[r].ask.rep].m
                \/ k \in Range(c.order) \ DOMAIN c.m]_vars

=============================================================================
