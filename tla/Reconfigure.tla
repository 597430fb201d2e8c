------------------------------ MODULE Reconfigure ------------------------------
(***************************************************************************)
(* The life of a gateway process and of its configuration: the file and    *)
(* its backup, the admin endpoints that replace, roll back and reload it,  *)
(* an operator who edits the file by hand, the registry that is swapped    *)
(* under running requests, the probes that discover models for it, and the *)
(* shutdown that waits for admin requests.                                 *)
(*                                                                         *)
(* A configuration is named; Config gives its contents.  os.WriteFile      *)
(* truncates, then writes; the process may die anywhere between.           *)
(***************************************************************************)
EXTENDS Routing, FiniteSets

CONSTANTS
  Config,     \* contents of every named configuration, valid or not
  Models,     \* models that requests ask for
  Infos,      \* the ResolveInfos they come with
  Loads,      \* states the providers may be in
  First,      \* the configuration the gateway starts with
  Requests,
  Scripts,    \* which requests may come together: a configuration for the editor,
              \* "rollback", "reload", "message", or "none" in the place of one
  Apart,      \* scripts whose admin requests come one at a time
  ByHand,     \* for each script, what an operator may put into the file
  MaxGen,     \* bound on generations of the registry, for each script
  MaxFaults   \* bound on failed writes, crashes and missed deadlines

Configs == DOMAIN Config
AllNames == UNION {Names(Config[c]) : c \in Configs}
Torn == "torn"

Loaded(text) == WithDefaults(Config[text])
Applied == [c \in Configs |-> Apply(Loaded(c))]
Loads_(text) == text \in Configs /\ Validate(Loaded(text))

Words == {"rollback", "reload", "message", "none"}

ASSUME ReconfigureAssumption ==
  /\ IsFiniteSet(Requests)
  /\ First \in Configs
  /\ Configs \cap (Words \cup {Torn}) = {}
  /\ Loads_(First)
  /\ \A c \in Configs : Shaped(Config[c])
  /\ \A inf \in Infos : Hashed(inf)
  /\ Scripts \subseteq [Requests -> Configs \cup Words] /\ Apart \subseteq Scripts
  /\ ByHand \in [Scripts -> SUBSET Configs]
  /\ MaxGen \in [Scripts -> Nat] /\ MaxFaults \in Nat
  /\ \A s \in Scripts :
       Cardinality({r \in Requests : s[r] \notin {"message", "none"}}) < MaxGen[s]

VARIABLES
  sameFS,     \* the temporary directory is on the file's filesystem
  file,       \* [ino, text]: config.yaml, and which file of that name it is
  bak,        \* text of config.yaml.bak
  live,       \* the configuration Registry.apply was given last
  prices,     \* and the one Server.prices was made of
  gen,        \* generation of the registry
  starting,   \* contexts whose runDiscovery has not run yet
  loops,      \* probe loops: [ctx, name, cfg, at]
  found,      \* Registry.discovered: of which configuration the answer is
  phase,      \* of the process
  inflight,   \* inFlight: [count, closing, done]
  waiter,     \* where WaitForInFlight stands
  late,       \* the 30 seconds of the shutdown have passed
  kind,       \* what a request is
  pc,         \* where its handler stands
  loc,        \* its local variables
  faults,     \* failed writes, crashes and missed deadlines so far
  overlap,    \* history: two admin requests have been under way together, or one and
              \* an edit by hand
  hand,       \* history: an edit by hand: "none"; "new", not loaded yet; "loaded", since
              \* when the file has been read
  prev,       \* history: what was replaced by the last configuration saved
  lost        \* history: a write of the file has failed

diskVars == <<sameFS, file, bak, hand, prev, lost>>
regVars  == <<live, prices, gen, starting, loops, found>>
procVars == <<phase, inflight, waiter, late>>
reqVars  == <<kind, pc, loc, overlap>>
vars     == <<diskVars, regVars, procVars, reqVars, faults>>

Places == {"idle", "check", "backup", "backup2", "backup3", "rename", "read", "read2",
           "verify", "write", "write2", "swapBak", "swapBak2", "reload", "swap", "prices",
           "resolved", "end", "wake", "close", "done"}
Leaving == {"wake", "close"}
Locals == [new |-> First, cur |-> First, old |-> First, ino |-> 0, targets |-> <<>>,
           at |-> 0]

Init ==
  /\ sameFS \in BOOLEAN
  /\ file = [ino |-> 0, text |-> First] /\ bak = "none" /\ prev = "none"
  /\ lost = FALSE /\ hand = "none"
  /\ live = First /\ prices = First /\ gen = 1
  /\ starting = {1} /\ loops = {}
  /\ found = [n \in AllNames |-> "none"]
  /\ phase = "serving"
  /\ inflight = [count |-> 0, closing |-> FALSE, done |-> FALSE]
  /\ waiter = "none" /\ late = FALSE
  /\ kind \in Scripts
  /\ pc = [r \in Requests |-> IF kind[r] = "none" THEN "done" ELSE "idle"]
  /\ loc = [r \in Requests |-> Locals]
  /\ faults = 0 /\ overlap = FALSE

Up == phase \in {"serving", "signalled", "draining"}
Admin(r) == kind[r] # "message"
Active == {r \in Requests : pc[r] \notin {"idle", "done"}}

Goto(r, place) == pc' = [pc EXCEPT ![r] = place]
Remember(r, field, v) == loc' = [loc EXCEPT ![r][field] = v]

-----------------------------------------------------------------------------
(* Requests begin and end. *)

\* Only admin requests are tracked: withInFlight wraps no other route.  The
\* editor checks what it is sent by loading a temporary file.
Begin(r) ==
  /\ pc[r] = "idle" /\ phase \in {"serving", "signalled"}
  /\ kind \in Apart /\ Admin(r) => \A q \in Active : ~Admin(q)
  /\ IF Admin(r) THEN inflight' = [inflight EXCEPT !.count = @ + 1] ELSE UNCHANGED inflight
  /\ overlap' = (overlap \/ (Admin(r) /\ \E q \in Active : Admin(q)))
  /\ CASE kind[r] \in Configs -> Remember(r, "new", kind[r]) /\ Goto(r, "check")
       [] kind[r] = "rollback" -> Goto(r, "read") /\ UNCHANGED loc
       [] kind[r] = "reload"   -> Goto(r, "reload") /\ UNCHANGED loc
       [] kind[r] = "message"  ->
            \E m \in Models, inf \in Infos, load \in Loads :
              \E tg \in Resolve(Applied[live], m, inf, load) :
                /\ loc' = [loc EXCEPT ![r].targets = tg, ![r].at = gen]
                /\ Goto(r, "resolved")
  /\ UNCHANGED <<diskVars, regVars, phase, waiter, late, kind, faults>>

Ending(r, from, to) ==
  /\ pc[r] = from /\ Up
  /\ Goto(r, to)
  /\ loc' = [loc EXCEPT ![r] = Locals]
  /\ UNCHANGED <<diskVars, regVars, phase, waiter, late, kind, overlap, faults>>

\* A message asks for the provider of each of its targets and ends some time.
MessageEnds(r) == Ending(r, "resolved", "done") /\ UNCHANGED inflight

\* The last of the tracked requests goes on to see whether somebody waits for it.
Counted(r, last) ==
  /\ Ending(r, "end", IF inflight.count = 1 THEN last ELSE "done")
  /\ inflight' = [inflight EXCEPT !.count = @ - 1]

\* To be caught: an early return leaves the request counted.
EndLeaking(r) == Ending(r, "end", "done") /\ UNCHANGED inflight

\* To be caught: the last request does not wake the one who waits.
EndSilently(r) == Counted(r, "done")

End(r) == Counted(r, "wake")

\* Others may have begun and ended since; so two may come to close done, and the
\* second panics, which withRecovery makes another answer of.
SeeWaiter(r) ==
  /\ Ending(r, "wake", IF inflight.closing /\ ~inflight.done THEN "close" ELSE "done")
  /\ UNCHANGED inflight

CloseDone(r) == Ending(r, "close", "done") /\ inflight' = [inflight EXCEPT !.done = TRUE]

-----------------------------------------------------------------------------
(* Files. *)

\* What a write that follows a truncation leaves: other writers may have been
\* there since, and what is longer keeps its tail.
Written(text, data) == IF text \in {Torn, data} THEN {data} ELSE {data, Torn}

Step(r, from, to) == pc[r] = from /\ Up /\ Goto(r, to)
Quietly == UNCHANGED <<regVars, procVars, kind, overlap, faults>>

\* The second half of os.WriteFile, which may fail; nobody looks at its error.
MayFail(ok) == IF ok THEN UNCHANGED faults ELSE faults < MaxFaults /\ faults' = faults + 1

TruncateBak(r, from, to) ==
  /\ Step(r, from, to)
  /\ bak' = Torn
  /\ UNCHANGED <<sameFS, file, hand, prev, lost, loc>> /\ Quietly

WriteBak(r, from, to, data) ==
  /\ Step(r, from, to)
  /\ \E ok \in BOOLEAN :
       MayFail(ok) /\ bak' \in IF ok THEN Written(bak, data) ELSE {bak}
  /\ UNCHANGED <<sameFS, file, hand, prev, lost, loc, regVars, procVars, kind, overlap>>

-----------------------------------------------------------------------------
(* POST /admin/config/yaml. *)

\* To be caught: whatever is sent is saved.
CheckNothing(r) == Step(r, "check", "backup") /\ UNCHANGED <<diskVars, loc>> /\ Quietly

CheckEdit(r) ==
  /\ pc[r] = "check" /\ Up
  /\ Goto(r, IF Loads_(loc[r].new) THEN "backup" ELSE "end")
  /\ UNCHANGED <<diskVars, loc>> /\ Quietly

ReadForBackup(r) ==
  /\ Step(r, "backup", "backup2")
  /\ Remember(r, "cur", file.text)
  /\ UNCHANGED diskVars /\ Quietly

BackUp(r) ==
  \/ TruncateBak(r, "backup2", "backup3")
  \/ WriteBak(r, "backup3", "rename", loc[r].cur)

\* Rename takes the place of the file at once, or does not work at all between
\* two filesystems; the backup has been made by then.
RenameTo(r, next) ==
  /\ pc[r] = "rename" /\ Up
  /\ IF sameFS
     THEN /\ file' = [ino |-> file.ino + 1, text |-> loc[r].new]
          /\ prev' = file.text
          /\ Goto(r, next)
     ELSE Goto(r, "end") /\ UNCHANGED <<file, prev>>
  /\ UNCHANGED <<sameFS, bak, hand, lost, loc>> /\ Quietly

\* To be caught: what is saved is not applied.
RenameOnly(r) == RenameTo(r, "end")

Rename(r) == RenameTo(r, "reload")

-----------------------------------------------------------------------------
(* POST /admin/config/rollback. *)

ReadCurrent(r) ==
  /\ pc[r] = "read" /\ Up
  /\ Goto(r, IF bak = "none" THEN "end" ELSE "read2")
  /\ Remember(r, "cur", file.text)
  /\ UNCHANGED diskVars /\ Quietly

ReadBackup(r) ==
  /\ pc[r] = "read2" /\ Up
  /\ Goto(r, IF Loads_(bak) THEN "write" ELSE "end")
  /\ Remember(r, "old", bak)
  /\ UNCHANGED diskVars /\ Quietly

TruncateFile(r) ==
  /\ Step(r, "write", "write2")
  /\ file' = [file EXCEPT !.text = Torn]
  /\ Remember(r, "ino", file.ino)
  /\ UNCHANGED <<sameFS, bak, hand, prev, lost>> /\ Quietly

\* Into the file that was opened, whatever has been renamed over it since.
WriteFile(r) ==
  /\ Step(r, "write2", "swapBak")
  /\ \E ok \in BOOLEAN :
       /\ MayFail(ok)
       /\ IF ok /\ file.ino = loc[r].ino
          THEN \E t \in Written(file.text, loc[r].old) : file' = [file EXCEPT !.text = t]
          ELSE UNCHANGED file
       /\ lost' = (lost \/ ~ok)
  /\ prev' = loc[r].cur
  /\ UNCHANGED <<sameFS, bak, hand, loc, regVars, procVars, kind, overlap>>

\* To be caught: what was current is not kept.
KeepNothing(r) ==
  /\ Step(r, "swapBak", "reload")
  /\ UNCHANGED <<diskVars, loc>> /\ Quietly

KeepCurrent(r) ==
  \/ TruncateBak(r, "swapBak", "swapBak2")
  \/ WriteBak(r, "swapBak2", "reload", loc[r].cur)

-----------------------------------------------------------------------------
(* reloadConfig. *)

\* What is in the file has been read, and it loads.
HandLoaded == hand' = IF hand = "new" THEN "loaded" ELSE hand

Read(r) ==
  /\ pc[r] = "reload" /\ Up
  /\ Goto(r, IF Loads_(file.text) THEN "swap" ELSE "end")
  /\ IF Loads_(file.text) THEN Remember(r, "new", file.text) /\ HandLoaded
     ELSE UNCHANGED <<loc, hand>>
  /\ UNCHANGED <<sameFS, file, bak, prev, lost>> /\ Quietly

\* Registry.Swap: new providers, nothing discovered; the context of the
\* generation before is cancelled.
Swap(r) ==
  /\ Step(r, "swap", "prices")
  /\ live' = loc[r].new
  /\ gen' = gen + 1
  /\ starting' = IF phase = "serving" THEN starting \cup {gen + 1} ELSE {}
  /\ found' = [n \in AllNames |-> "none"]
  /\ UNCHANGED <<diskVars, loc, prices, loops, procVars, kind, overlap, faults>>

StorePrices(r) ==
  /\ Step(r, "prices", "end")
  /\ prices' = loc[r].new
  /\ UNCHANGED <<diskVars, loc, live, gen, starting, loops, found, procVars, kind, overlap,
                 faults>>

-----------------------------------------------------------------------------
(* The operator. *)

\* An edit by hand, once, by a text editor that renames a new file over the old
\* one.  Nothing in the process sees it: config_watch is read and never used.
EditByHand ==
  /\ hand = "none" /\ Up
  /\ \E text \in ByHand[kind] : file' = [ino |-> file.ino + 1, text |-> text]
  /\ hand' = "new"
  /\ overlap' = (overlap \/ \E q \in Active : Admin(q))
  /\ UNCHANGED <<sameFS, bak, prev, lost, regVars, procVars, kind, pc, loc, faults>>

-----------------------------------------------------------------------------
(* Discovery.  A loop holds the context it was started with and a provider *)
(* of the generation it found.  Probes are followed while the process      *)
(* serves: the signal ends the context of all of them.                     *)

\* To be caught: nothing ends the loops of a generation that has been replaced.
NeverCancelled(ctx) == FALSE

Cancelled(ctx) == ctx # gen

Discovering(c) == {p.name : p \in {q \in Range(Config[c].providers) : q.probed}}

\* Providers() may be those of a generation later than the context's.
RunDiscovery(ctx) ==
  /\ phase = "serving" /\ ctx \in starting
  /\ starting' = starting \ {ctx}
  /\ loops' = loops \cup
       {[ctx |-> ctx, name |-> n, cfg |-> live, at |-> "fetch"] : n \in Discovering(live)}
  /\ UNCHANGED <<diskVars, live, prices, gen, found, procVars, reqVars, faults>>

Move(l, to) == loops' = (loops \ {l}) \cup {[l EXCEPT !.at = to]}

\* refreshModels does not look at the context of its loop: what it got it enters.
Answer(l, ok) ==
  /\ phase = "serving" /\ l.at = "fetch"
  /\ found' = IF ok THEN [found EXCEPT ![l.name] = l.cfg] ELSE found
  /\ Move(l, "wait")
  /\ UNCHANGED <<diskVars, live, prices, gen, starting, procVars, reqVars, faults>>

\* select takes either of two cases that are ready.
TickLoop(l) ==
  /\ phase = "serving" /\ l.at = "wait"
  /\ Move(l, "fetch")
  /\ UNCHANGED <<diskVars, live, prices, gen, starting, found, procVars, reqVars, faults>>

StopLoop(l) ==
  /\ phase = "serving" /\ l.at = "wait" /\ Cancelled(l.ctx)
  /\ loops' = loops \ {l}
  /\ UNCHANGED <<diskVars, live, prices, gen, starting, found, procVars, reqVars, faults>>

-----------------------------------------------------------------------------
(* main: a signal, the wait for requests, Shutdown, the end; and a process *)
(* that just dies.                                                         *)

Signal ==
  /\ phase = "serving"
  /\ phase' = "signalled"
  /\ starting' = {} /\ loops' = {}
  /\ UNCHANGED <<diskVars, live, prices, gen, found, inflight, waiter, late, reqVars, faults>>

\* httpSrv.Shutdown closes the listener first.
CloseListener ==
  /\ phase = "signalled"
  /\ phase' = "draining"
  /\ UNCHANGED <<diskVars, regVars, inflight, waiter, late, reqVars, faults>>

Waits(from, to) ==
  /\ phase \in {"signalled", "draining"}
  /\ waiter = from /\ waiter' = to
  /\ UNCHANGED <<diskVars, regVars, phase, late, reqVars, faults>>

\* inFlight.wait: it announces itself, looks at the count, then waits to be woken.
\* Its error is dropped.
Announce == Waits("none", "look") /\ inflight' = [inflight EXCEPT !.closing = TRUE]

\* To be caught: it waits without a look at the count.
LookAway == Waits("look", "wait") /\ UNCHANGED inflight

Look == Waits("look", IF inflight.count = 0 THEN "back" ELSE "wait") /\ UNCHANGED inflight

Woken == Waits("wait", "back") /\ (inflight.done \/ late) /\ UNCHANGED inflight

Deadline ==
  /\ phase = "draining" /\ ~late /\ faults < MaxFaults
  /\ late' = TRUE
  /\ faults' = faults + 1
  /\ UNCHANGED <<diskVars, regVars, phase, inflight, waiter, reqVars>>

Stop(to) ==
  /\ phase' = to
  /\ pc' = [r \in Requests |-> IF r \in Active THEN "done" ELSE pc[r]]
  /\ loc' = [r \in Requests |-> Locals]
  /\ starting' = {} /\ loops' = {}
  /\ found' = [n \in AllNames |-> "none"]
  /\ inflight' = [count |-> 0, closing |-> FALSE, done |-> FALSE]
  /\ waiter' = "none"
  /\ UNCHANGED <<diskVars, live, prices, gen, late, kind, overlap>>

\* Shutdown returns when every connection is idle, or at the deadline.
Exit ==
  /\ phase = "draining" /\ (waiter = "back" \/ late)
  /\ Active = {} \/ late
  /\ Stop("exited")
  /\ UNCHANGED faults

Crash ==
  /\ Up /\ faults < MaxFaults
  /\ faults' = faults + 1
  /\ Stop("down")

\* main again, as often as leaves a generation to every request that may still
\* reload; log.Fatalf if the file does not load.
Start ==
  /\ phase \in {"down", "exited"}
  /\ gen + Cardinality({r \in Requests : pc[r] = "idle" /\ Admin(r)}) < MaxGen[kind]
  /\ late' = FALSE
  /\ IF Loads_(file.text)
     THEN /\ phase' = "serving"
          /\ live' = file.text /\ prices' = file.text
          /\ gen' = gen + 1 /\ starting' = {gen + 1}
          /\ HandLoaded
     ELSE /\ phase' = "fatal"
          /\ UNCHANGED <<live, prices, gen, starting, hand>>
  /\ UNCHANGED <<sameFS, file, bak, prev, lost, loops, found, inflight, waiter, reqVars, faults>>

Editor(r) == CheckEdit(r) \/ ReadForBackup(r) \/ BackUp(r) \/ Rename(r)
Rollback(r) ==
  ReadCurrent(r) \/ ReadBackup(r) \/ TruncateFile(r) \/ WriteFile(r) \/ KeepCurrent(r)
Reload(r) == Read(r) \/ Swap(r) \/ StorePrices(r)
Leave(r) == MessageEnds(r) \/ End(r) \/ SeeWaiter(r) \/ CloseDone(r)
Handler(r) == Editor(r) \/ Rollback(r) \/ Reload(r) \/ Leave(r)

LoopRecords ==
  [ctx : 1 .. MaxGen[kind], name : AllNames, cfg : Configs, at : {"fetch", "wait"}]

Wait == Announce \/ Look \/ Woken

Next ==
  \/ \E r \in Requests : Begin(r) \/ Handler(r)
  \/ \E ctx \in starting : RunDiscovery(ctx)
  \/ \E l \in loops : Answer(l, TRUE) \/ Answer(l, FALSE) \/ TickLoop(l) \/ StopLoop(l)
  \/ EditByHand \/ Signal \/ CloseListener \/ Wait \/ Deadline \/ Exit \/ Crash \/ Start

Spec == Init /\ [][Next]_vars

\* What takes finitely many steps; so fairness of all together is fairness of each.
\* A message is not in it: its upstream may never end.
Progress ==
  \/ \E r \in Requests : Admin(r) /\ Handler(r)
  \/ \E ctx \in starting : RunDiscovery(ctx)
  \/ CloseListener \/ Wait \/ Exit

Turn(l) == TickLoop(l) \/ Answer(l, TRUE) \/ Answer(l, FALSE)
Stale(l) == Cancelled(l.ctx)
Probes(l, n) == l.name = n /\ ~Stale(l)

\* Handlers of admin requests and goroutines run, main goes on; the 30-second request of a probe
\* ends and its ticker fires, and a provider that is asked again and again answers
\* some time; loops that have been cancelled, of which there are finitely many,
\* see it before their tickers some time.  Nothing is said of the deadline.
Fairness ==
  /\ WF_vars(Progress)
  /\ SF_vars(\E l \in loops : StopLoop(l))
  /\ WF_vars(\E l \in loops : Stale(l) /\ (Answer(l, TRUE) \/ Answer(l, FALSE)))
  /\ \A n \in UNION {Discovering(c) : c \in Configs} :
       /\ WF_vars(\E l \in loops : Probes(l, n) /\ Turn(l))
       /\ SF_vars(\E l \in loops : Probes(l, n) /\ Answer(l, TRUE))

FairSpec == Spec /\ Fairness

-----------------------------------------------------------------------------
(* Properties. *)

(***************************************************************************)
(* Types; and the tracker counts exactly the admin requests under way.     *)
(***************************************************************************)
TypeOK ==
  /\ sameFS \in BOOLEAN
  /\ file.text \in Configs \cup {Torn} /\ bak \in Configs \cup {Torn, "none"}
  /\ live \in Configs /\ prices \in Configs
  /\ gen \in 1 .. MaxGen[kind] /\ starting \subseteq 1 .. gen /\ loops \subseteq LoopRecords
  /\ found \in [AllNames -> Configs \cup {"none"}]
  /\ phase \in {"serving", "signalled", "draining", "exited", "down", "fatal"}
  /\ waiter \in {"none", "look", "wait", "back"}
  /\ pc \in [Requests -> Places]
  /\ inflight.count = Cardinality({r \in Active : Admin(r) /\ pc[r] \notin Leaving})

AtRest == \A r \in Requests : pc[r] \in {"idle", "resolved", "done"}

(***************************************************************************)
(* As long as admin requests come one at a time and no write fails,        *)
(* whatever was accepted, refused or rolled back: what routes and what     *)
(* prices are one configuration, which loads; and it is the one in the     *)
(* file, unless the file has been edited by hand and not read since.       *)
(* (CHANGELOG.md:65 has an auto-reload on file change: there is none, and  *)
(* such an edit waits for a reload or a restart.  And what reloads is      *)
(* providers, routes and prices: routing.free_only and free_models, which  *)
(* are not in this model, stay those of the start, README.md:468 or not.)  *)
(***************************************************************************)
AppliedIsSaved ==
  phase = "serving" /\ AtRest /\ ~overlap /\ faults = 0 =>
    /\ Loads_(live) /\ prices = live
    /\ live = file.text \/ hand = "new"

(***************************************************************************)
(* Rollback goes to the configuration before: under the same conditions    *)
(* the backup is what the last configuration saved has replaced, by hand   *)
(* edited or not -- except that an editor that cannot rename has already   *)
(* overwritten it, with what was in the file then.                         *)
(***************************************************************************)
BackupIsPrevious ==
  Up /\ AtRest /\ ~overlap /\ faults = 0 =>
    IF sameFS THEN bak = prev ELSE hand = "none" => bak \in {prev, file.text}

(***************************************************************************)
(* One mishap -- a process that dies or is stopped at the deadline, or a   *)
(* write that fails -- leaves one of the two files in a state that loads,  *)
(* as long as admin requests come one at a time and nobody edits the file  *)
(* by hand; except that an editor that cannot rename copies what a failed  *)
(* rollback has left of the file over the only good copy.                  *)
(***************************************************************************)
Recoverable ==
  phase \in {"down", "exited"} /\ ~overlap /\ hand = "none" /\ faults <= 1
    /\ (sameFS \/ ~lost) =>
    Loads_(file.text) \/ Loads_(bak)

(***************************************************************************)
(* A request resolved to a chain only meets providers that exist, unless a *)
(* reload or a restart comes between: what validate checks is enough for   *)
(* what Resolve makes of it.  Targets and scenarios are not checked.       *)
(***************************************************************************)
NoStrangers ==
  LET c == Config[live]
  IN  \A r \in Requests : pc[r] = "resolved" /\ loc[r].at = gen =>
        \A t \in Range(loc[r].targets) :
          \/ t.name \in Names(c)
          \/ \E rule \in Range(c.rules) : t \in Range(rule.targets)
          \/ t.name \in Range(c.long.chain \o c.image \o c.thinking)

(***************************************************************************)
(* The exchanges of apply order the rules well enough: a model gets a rule *)
(* with the longest prefix it has.                                         *)
(***************************************************************************)
LongestPrefixWins ==
  LET c == Applied[live]
  IN  \A m \in Models :
        LET i == MatchRules(c, m)
        IN  \A rule \in Range(c.rules) :
              HasPrefix(m, rule.prefix) => i > 0 /\ Len(rule.prefix) <= Len(c.rules[i].prefix)

(***************************************************************************)
(* Whoever waits for the last of the tracked requests is woken, also if    *)
(* that one ends just as the waiting begins, or others begin after it.     *)
(***************************************************************************)
WakeNotLost ==
  waiter = "wait" /\ inflight.count = 0 =>
    inflight.done \/ \E r \in Requests : pc[r] \in Leaving

(***************************************************************************)
(* So a shutdown needs no deadline: whatever admin requests are under way  *)
(* when the signal comes, come after it, or end in a panic, the process    *)
(* does not stay where it waits for them; unless a message never ends,     *)
(* whose upstream may hang.                                                *)
(***************************************************************************)
ShutdownEnds ==
  []<>(\/ phase \notin {"signalled", "draining"}
       \/ \E r \in Requests : pc[r] = "resolved")

List(n, c) == IF c \in Configs /\ n \in Names(Config[c]) THEN ProviderNamed(Config[c], n).list
              ELSE <<>>

\* What GET /v1/models lists for a configuration and what has been found.
CatalogOf == [c \in Configs, f \in [AllNames -> Configs \cup {"none"}] |->
                Catalog(Config[c], [n \in AllNames |-> List(n, f[n])])]
Listed == CatalogOf[live, found]
Expected == CatalogOf[live, [n \in AllNames |-> IF n \in Discovering(live) THEN live ELSE found[n]]]

(***************************************************************************)
(* Probes of a generation that has been replaced still enter what they got *)
(* into the new one's lists; but as long as the process serves, the        *)
(* catalogue comes to be that of the live configuration, and stays so.  A  *)
(* provider that is not probed keeps what an old generation has entered.   *)
(***************************************************************************)
CatalogHeals == <>[](phase = "serving") => <>[](Listed = Expected)

=============================================================================
