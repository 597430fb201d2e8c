-------------------------------- MODULE Routing --------------------------------
(***************************************************************************)
(* The pure part of internal/config and internal/provider/registry.go:     *)
(* which configurations load, what the registry makes of one, and which    *)
(* targets it resolves a model to.                                         *)
(*                                                                         *)
(* A model is a sequence of path elements, a configuration a record; a     *)
(* scenario or a list that is not given is empty.                          *)
(***************************************************************************)
EXTENDS Integers, Sequences, SequencesExt, FiniteSetsExt

CONSTANTS
  Hash    \* Hash[s]: fnv32 of a session id, for the sessions in use

Target(name, model) == [name |-> name, model |-> model]
ChainTargets(chain, m) == [i \in DOMAIN chain |-> Target(chain[i], m)]

IsSeq(s) == s \in Seq(Range(s))

\* What any file unmarshals to.
Shaped(c) ==
  /\ {"providers", "rules", "defChain", "alias", "affinity", "long", "image", "thinking"}
       \subseteq DOMAIN c
  /\ \A s \in {c.rules, c.defChain, c.long.chain, c.image, c.thinking} : IsSeq(s)
  /\ IsSeq(c.providers)
  /\ \A rule \in Range(c.rules) : IsSeq(rule.prefix) /\ IsSeq(rule.chain) /\ IsSeq(rule.targets)

\* int(fnv32(...)) of the session a request names, where int has 64 bits.
Hashed(inf) == inf.session # "" => Hash[inf.session] \in Nat

HasPrefix(m, prefix) == IsPrefix(prefix, m)
TrimPrefix(m, prefix) == SubSeq(m, Len(prefix) + 1, Len(m))

-----------------------------------------------------------------------------
(* config.Load. *)

Names(c) == {p.name : p \in Range(c.providers)}

\* A key, or a Vertex service account.
HasUsableProvider(c) == \E p \in Range(c.providers) : p.keys > 0 \/ p.sa

WithDefaults(c) ==
  IF c.defChain = <<>> /\ c.providers # <<>>
  THEN [c EXCEPT !.defChain = <<c.providers[1].name>>] ELSE c

\* To be caught: only the default chain is checked.
ValidateLess(c) ==
  /\ \A i, j \in DOMAIN c.providers :
       c.providers[i].name = c.providers[j].name => i = j
  /\ HasUsableProvider(c)
  /\ Range(c.defChain) \subseteq Names(c)

\* Nothing checks the names in a rule's targets or in a scenario.
Validate(c) ==
  /\ \A i, j \in DOMAIN c.providers :
       c.providers[i].name = c.providers[j].name => i = j
  /\ \A p \in Range(c.providers) : p.name # "" /\ p.type # "unknown" /\ p.baseURL
  /\ HasUsableProvider(c)
  /\ Range(c.defChain) \subseteq Names(c)
  /\ \A rule \in Range(c.rules) : Range(rule.chain) \subseteq Names(c)

-----------------------------------------------------------------------------
(* Registry.apply. *)

Exchange(s, i, j) ==
  IF Len(s[j].prefix) > Len(s[i].prefix) THEN [s EXCEPT ![i] = s[j], ![j] = s[i]] ELSE s

\* The inner loop.
Settle(s, i) ==
  FoldLeft(LAMBDA u, j : Exchange(u, i, j), s, [k \in 1 .. Len(s) - i |-> i + k])

\* To be caught: only neighbours are compared, once.
SortRulesOnce(rules) ==
  FoldLeftDomain(LAMBDA s, i : IF i < Len(s) THEN Exchange(s, i, i + 1) ELSE s, rules, rules)

\* Every pair is exchanged if it is in the wrong order.  Rules with the same
\* prefix may change places.
SortRules(rules) == FoldLeftDomain(Settle, rules, rules)

Apply(c) == [c EXCEPT !.rules = SortRules(@)]

-----------------------------------------------------------------------------
(* Resolve.  load is what the registry's providers answer of themselves:   *)
(* which breakers are open, requests in flight, and latencies.             *)

ProviderNamed(c, n) == CHOOSE p \in Range(c.providers) : p.name = n
WeightOf(c, n) == IF n \in Names(c) THEN ProviderNamed(c, n).weight ELSE 1
Of(c, f, n) == IF n \in Names(c) THEN f[n] ELSE 0

\* The orders targets may be put in.
Orders(tg) ==
  {f \in [DOMAIN tg -> DOMAIN tg] : \A i, j \in DOMAIN tg : f[i] = f[j] => i = j}

\* Where a stable sort by load, then by falling weight, takes its elements from.
SortedBy(c, tg, f) ==
  LET Before(x, y) ==
        LET lx == Of(c, f, tg[x].name)  wx == WeightOf(c, tg[x].name)
            ly == Of(c, f, tg[y].name)  wy == WeightOf(c, tg[y].name)
        IN  \/ lx < ly
            \/ lx = ly /\ wx > wy
            \/ lx = ly /\ wx = wy /\ x < y
  IN  {o \in Orders(tg) : \A i, j \in DOMAIN tg : i < j => Before(o[i], o[j])}

\* The weighted strategy compares random keys drawn anew for every comparison.
OrderByStrategy(c, tg, strategy, load) ==
  LET orders == CASE strategy = "least_busy" -> SortedBy(c, tg, load.busy)
                  [] strategy = "latency"    -> SortedBy(c, tg, load.latency)
                  [] OTHER                   -> Orders(tg)
  IN  {[i \in DOMAIN tg |-> tg[o[i]]] : o \in orders}

\* The chain of the first scenario that applies.
MatchScenario(c, inf) ==
  CASE c.long.chain # <<>> /\ c.long.threshold > 0 /\ inf.est >= c.long.threshold
         -> c.long.chain
    [] inf.image /\ c.image # <<>> -> c.image
    [] inf.thinking /\ c.thinking # <<>> -> c.thinking
    [] OTHER -> <<>>

\* The rule that matches: 0 if none does.
MatchRules(c, m) ==
  LET hits == {i \in DOMAIN c.rules : HasPrefix(m, c.rules[i].prefix)}
  IN  IF hits = {} THEN 0 ELSE Min(hits)

MapModel(rule, m) ==
  LET s == IF rule.strip THEN TrimPrefix(m, rule.prefix) ELSE m
      hits == {e \in rule.modelMap : e[1] = s}
  IN  IF hits = {} THEN s ELSE (CHOOSE e \in hits : TRUE)[2]

RuleTargets(c, rule, m, load) ==
  LET tg == IF rule.targets # <<>> THEN rule.targets
            ELSE ChainTargets(rule.chain, MapModel(rule, m))
  IN  IF rule.strategy # "" THEN OrderByStrategy(c, tg, rule.strategy, load) ELSE {tg}

StickyRotate(tg, session) ==
  LET off == Hash[session] % Len(tg)
  IN  SubSeq(tg, off + 1, Len(tg)) \o SubSeq(tg, 1, off)

Live(c, tg, load) ==
  FoldLeft(LAMBDA kept, t : IF t.name \in load.open \cap Names(c) THEN kept ELSE Append(kept, t),
           <<>>, tg)

\* pick: affinity first, then targets whose breaker is open are left out, unless
\* that leaves none.
Pick(c, tg, inf, load) ==
  LET sticky == IF c.affinity /\ inf.session # "" /\ Len(tg) > 1
                THEN StickyRotate(tg, inf.session) ELSE tg
      live == Live(c, sticky, load)
  IN  IF live = <<>> THEN sticky ELSE live

\* A model of the claude/ alias is looked for as it is, then without the prefix.
RuleFor(c, m) ==
  LET direct == MatchRules(c, m)
      aliased == c.alias /\ Len(m) > 1 /\ m[1] = "claude"
  IN  IF direct > 0 THEN <<direct, m>>
      ELSE IF aliased THEN <<MatchRules(c, Tail(m)), Tail(m)>> ELSE <<0, m>>

Resolve(c, m, inf, load) ==
  LET scenario == MatchScenario(c, inf)
      rule == RuleFor(c, m)
      lists == IF scenario # <<>> THEN {ChainTargets(scenario, m)}
               ELSE IF rule[1] > 0 THEN RuleTargets(c, c.rules[rule[1]], rule[2], load)
               ELSE {ChainTargets(c.defChain, m)}
  IN  {Pick(c, tg, inf, load) : tg \in lists}

-----------------------------------------------------------------------------
(* Catalog; found[n] is the list discovered for provider n. *)

Catalog(c, found) ==
  LET AddTo(out, n, ids) ==
        FoldLeft(LAMBDA s, id : IF \E e \in Range(s) : e.id = id THEN s
                                ELSE Append(s, [id |-> id, provider |-> n]), out, ids)
      own == FoldLeft(LAMBDA s, p : AddTo(AddTo(s, p.name, p.models), p.name, found[p.name]),
                      <<>>, c.providers)
      plain == SelectSeq(own, LAMBDA e : e.id[1] \notin {"claude", "anthropic"})
  IN  IF ~c.alias THEN own
      ELSE FoldLeft(LAMBDA s, e : AddTo(s, e.provider, <<<<"claude">> \o e.id>>), own, plain)

=============================================================================
