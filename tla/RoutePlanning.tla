---------------------------- MODULE RoutePlanning ----------------------------
(***************************************************************************)
(* Which integrations may serve a request, and in which order: the ranked  *)
(* chain that `run --provider auto` and the gateway's chat surfaces share  *)
(* (quota headroom first, keyed integrations next, the rest last), the     *)
(* chains of providers.json, the pinned selectors, and the check of a      *)
(* requested effort against what the model catalog advertises.             *)
(***************************************************************************)
EXTENDS Integers, Sequences, SequencesExt, FiniteSets

CONSTANTS Registry,     \* descriptors in listing order: [id, provider, kind, wire, auth]
          Instances,    \* overlays of providers.json: [id, base, bound]
          Collected,    \* the ProviderKeys, whose quota is collected and whose models are cataloged
          FreeTier,     \* providers with a documented free tier
          Catalog,      \* the cached catalog: [provider, model, advertised, effortKnown, efforts]
          Declared,     \* the first model gateway.json declares for an integration
          Chains,       \* a function from the chains of providers.json to their steps [id, model, effort]
          Asks,         \* [selector, effort, present, usage]
          None

VARIABLES ask, route    \* route: [pc, status, attempts]

planVars == <<ask, route>>

Served == {"chat", "anthropic"}
Descriptor(id) == CHOOSE d \in ToSet(Registry) : d.id = id
Base(i) == Descriptor(i.base)

(* The execution adapters: compiled CLIs, endpoints with an engine, and the  *)
(* instances of both behind their bases' providers.                         *)
Runnable(d) == d.kind = "cli" \/ d.wire \in Served
Adapters ==
    [i \in DOMAIN SelectSeq(Registry, Runnable) |->
        LET d == SelectSeq(Registry, Runnable)[i] IN [id |-> d.id, provider |-> d.provider]]
    \o LET overlays == SelectSeq(Instances, LAMBDA i : Runnable(Base(i)))
       IN [i \in DOMAIN overlays |-> [id |-> overlays[i].id, provider |-> Base(overlays[i]).provider]]

(* An exact identity wins, a provider must be the only one of its name.      *)
MatchAmong(name, exact, ofProvider) ==
    IF exact # {} THEN [match |-> "one", id |-> name]
    ELSE IF ofProvider = {} THEN [match |-> "unknown", id |-> None]
    ELSE IF Cardinality(ofProvider) > 1 THEN [match |-> "ambiguous", id |-> None]
    ELSE [match |-> "one", id |-> (CHOOSE p \in ofProvider : TRUE).id]

MatchSelector(name, pairs) ==
    MatchAmong(name, {p \in ToSet(pairs) : p.id = name}, {p \in ToSet(pairs) : p.provider = name})
-----------------------------------------------------------------------------
(* Ranking *)

(* Remaining allowance is -1 where nobody measured it; usable ones come      *)
(* first, the fullest first, then the one that resets first.                 *)
FullerThan(u, v) ==
    \/ u.remaining > 0 /\ v.remaining <= 0
    \/ /\ (u.remaining > 0) = (v.remaining > 0)
       /\ u.remaining > v.remaining \/ (u.remaining = v.remaining /\ u.reset < v.reset)

(* The sort is stable.                                                       *)
RouteCandidates(usage) ==
    LET before(i, j) == FullerThan(usage[i], usage[j]) \/ (~FullerThan(usage[j], usage[i]) /\ i < j)
        order == SetToSortSeq(DOMAIN usage, before)
    IN [i \in DOMAIN order |-> usage[order[i]]]

(* A provider is bound to its first registered integration, if any.          *)
BindProvider(u) ==
    LET of == SelectSeq(Registry, LAMBDA d : d.provider = u.key)
    IN IF of = << >> THEN << >>
       ELSE <<[id |-> of[1].id, provider |-> u.key, basis |-> "quota", remaining |-> u.remaining]>>

(* Evidence is presence: a key, no browser session, an engine to run it.     *)
KeyedApiKey(d, present) ==
    IF d.kind = "http" /\ d.auth = "key" /\ d.wire \in Served /\ d.id \in present
    THEN <<[id |-> d.id, provider |-> d.provider, remaining |-> None,
            basis |-> IF d.provider \in FreeTier THEN "free_tier" ELSE "api_key"]>>
    ELSE << >>

AdvertisedProviders(model) == {e.provider : e \in {e \in Catalog : e.model = model /\ e.advertised}}

(* Measured providers with allowance left, free-tier keys, paid keys, and    *)
(* the depleted; a model keeps the providers that advertise it.              *)
Bound(ranked) == FlattenSeq([i \in DOMAIN ranked |-> BindProvider(ranked[i])])
Tiers(measured, keyed) ==
    SelectSeq(measured, LAMBDA c : c.remaining > 0)
        \o SelectSeq(keyed, LAMBDA c : c.basis = "free_tier")
        \o SelectSeq(keyed, LAMBDA c : c.basis = "api_key")
        \o SelectSeq(measured, LAMBDA c : c.remaining <= 0)

ProviderCandidates(model, usage, present) ==
    SelectSeq(Tiers(Bound(RouteCandidates(usage)),
                    FlattenSeq([i \in DOMAIN Registry |-> KeyedApiKey(Registry[i], present)])),
              LAMBDA c : model = None \/ c.provider \in Collected \cap AdvertisedProviders(model))
-----------------------------------------------------------------------------
(* Attempts *)

(* Only positive evidence that a model offers other efforts refuses one.     *)
EffortCheck(provider, model, effort) ==
    \A e \in Catalog :
        e.provider = provider /\ e.model = model /\ e.effortKnown => effort \in e.efforts

NotServed(status) == [status |-> status, attempts |-> << >>]
Attempts(seq) == [status |-> 200, attempts |-> seq]

(* Devin takes the effort where others take the model.                       *)
DevinUids == {e.model : e \in {e \in Catalog : e.provider = "devin"}}
DeclaredModel(id) == IF id \in DOMAIN Declared THEN Declared[id] ELSE None
MonitoredProviders(id) == {a.provider : a \in {a \in ToSet(Adapters) : a.id = id}} \cap Collected

AsAsked(id, model, effort) ==
    Attempts(<<[id |-> id, model |-> IF model # None THEN model ELSE DeclaredModel(id), effort |-> effort]>>)

AttemptAt(id, providers, model, effort) ==
    IF effort = None \/ providers = {} THEN AsAsked(id, model, effort)
    ELSE IF \E p \in providers : ~EffortCheck(p, model, effort) THEN NotServed(400)
    ELSE IF "devin" \notin providers THEN AsAsked(id, model, effort)
    ELSE IF model = None /\ DevinUids # {} /\ effort \notin DevinUids THEN NotServed(400)
    ELSE Attempts(<<[id |-> id, model |-> effort, effort |-> None]>>)

AttemptOf(id, model, effort) == AttemptAt(id, MonitoredProviders(id), model, effort)

(* The attempts of a ranking that can honour the effort.                     *)
AnyAttempt(able) == IF able = << >> THEN NotServed(404) ELSE Attempts(able)
AbleOf(ranked, model, effort) ==
    FlattenSeq([i \in DOMAIN ranked |-> AttemptOf(ranked[i].id, model, effort).attempts])
Plan(model, effort, usage, present) ==
    AnyAttempt(AbleOf(ProviderCandidates(model, usage, present), model, effort))

(* A chain is served as it is declared or not at all.                        *)
EveryStep(steps) ==
    IF \E i \in DOMAIN steps : steps[i].status # 200 THEN NotServed(400)
    ELSE Attempts(FlattenSeq([i \in DOMAIN steps |-> steps[i].attempts]))
StepAttempt(s, effort) == AttemptOf(s.id, s.model, IF s.effort # None THEN s.effort ELSE effort)
PlanChain(name, effort) ==
    IF name \notin DOMAIN Chains THEN NotServed(404)
    ELSE EveryStep([i \in DOMAIN Chains[name] |-> StepAttempt(Chains[name][i], effort)])

(* A selector by its form; anything that names nobody is a model to rank.    *)
SelectorAttempts(s, named, effort, usage, present) ==
    IF s.form = "chain" THEN PlanChain(s.name, effort)
    ELSE IF s.form \in {"auto", "decide"} \/ (s.form = "bare" /\ named.match = "unknown")
    THEN Plan(IF s.form = "bare" THEN s.name ELSE s.model, effort, usage, present)
    ELSE CASE named.match = "one" -> AttemptOf(named.id, s.model, effort)
           [] named.match = "ambiguous" -> NotServed(400)
           [] OTHER -> NotServed(404)

ResolveSelector(s, inherited, usage, present) ==
    SelectorAttempts(s, MatchSelector(s.name, Adapters),
                     IF s.effort # None THEN s.effort ELSE inherited, usage, present)
-----------------------------------------------------------------------------
PlanInit(asks) ==
    /\ ask \in asks
    /\ route = [pc |-> "asked", status |-> 0, attempts |-> << >>]

PlanRoute ==
    /\ route.pc = "asked"
    /\ \E r \in {ResolveSelector(ask.selector, ask.effort, ask.usage, ask.present)} :
         route' = [pc |-> IF r.status = 200 /\ ask.selector.form = "decide" THEN "deciding" ELSE "planned",
                   status |-> r.status, attempts |-> r.attempts]
    /\ UNCHANGED ask

(* What the decisions hop answered: the winner leads, the order of the       *)
(* others stands, and anything but a choice among them changes nothing.      *)
Reordered(attempts, choice) ==
    IF choice \in 1..Len(attempts)
    THEN <<attempts[choice]>> \o RemoveAt(attempts, choice)
    ELSE attempts

Reorder(choice) ==
    /\ route.pc = "deciding"
    /\ route' = [route EXCEPT !.pc = "planned", !.attempts = Reordered(@, choice)]
    /\ UNCHANGED ask
-----------------------------------------------------------------------------
Planned == route.pc # "asked"
AskedEffort == IF ask.selector.effort # None THEN ask.selector.effort ELSE ask.effort

(* The tier a ranked integration belongs to, by the evidence for it.         *)
Tier(c) ==
    LET headroom == {u.remaining : u \in {u \in ToSet(ask.usage) : u.key = c.provider}}
    IN IF \E r \in headroom : r > 0 THEN 1 ELSE IF headroom # {} THEN 4
       ELSE IF c.provider \in FreeTier THEN 2 ELSE 3

(* route_planner's promise: nobody is ranked without evidence, nobody with   *)
(* evidence is left out, no tier precedes a better one, and among measured   *)
(* providers no emptier one precedes a fuller one.                           *)
RankingFollowsEvidence ==
    route.status = 200 /\ ask.selector.form = "auto" =>
      LET left(c) == (CHOOSE u \in ToSet(ask.usage) : u.key = c.provider).remaining
      IN \A chain \in {ProviderCandidates(ask.selector.model, ask.usage, ask.present)} :
         /\ \A d \in ToSet(Registry) :
              (d.id \in {c.id : c \in ToSet(chain)}) =
                /\ \/ d.auth = "key" /\ d.wire \in Served /\ d.id \in ask.present
                   \/ /\ \E u \in ToSet(ask.usage) : u.key = d.provider
                      /\ \A i \in DOMAIN Registry : Registry[i] = d =>
                           \A j \in 1..(i - 1) : Registry[j].provider # d.provider
                /\ ask.selector.model # None =>
                     \E e \in Catalog : e.provider = d.provider /\ e.model = ask.selector.model /\ e.advertised
         /\ \A i, j \in DOMAIN chain : i < j =>
              /\ Tier(chain[i]) <= Tier(chain[j])
              /\ Tier(chain[i]) = 1 /\ Tier(chain[j]) = 1 => left(chain[i]) >= left(chain[j])

(* No attempt carries an effort its model is known not to offer, whatever    *)
(* selector asked for it, and none that was asked for is dropped.            *)
EffortIsHonoured ==
    AskedEffort # None /\ ask.selector.form # "chain" =>
      \A a \in ToSet(route.attempts) :
        LET p == {x.provider : x \in {x \in ToSet(Adapters) : x.id = a.id}}
        IN IF "devin" \in p THEN a.model = AskedEffort
           ELSE /\ a.effort = AskedEffort
                /\ a.model = ask.selector.model =>
                     \A e \in Catalog : e.provider \in p /\ e.model = a.model /\ e.effortKnown => a.effort \in e.efforts

(* A chain keeps the order and the length its file declares.                 *)
ChainIsDeclared ==
    route.status = 200 /\ ask.selector.form = "chain" =>
      /\ [i \in DOMAIN route.attempts |-> route.attempts[i].id]
           = [i \in DOMAIN Chains[ask.selector.name] |-> Chains[ask.selector.name][i].id]

(* A choice moves at most one attempt, to the front.                         *)
DecisionIsAdvisory ==
    Planned /\ route.status = 200 /\ ask.selector.form = "decide" =>
      \E ranked \in {ResolveSelector(ask.selector, ask.effort, ask.usage, ask.present).attempts} :
         \E i \in DOMAIN ranked : route.attempts = <<ranked[i]>> \o RemoveAt(ranked, i)

PlansAreHonest == RankingFollowsEvidence /\ EffortIsHonoured /\ ChainIsDeclared /\ DecisionIsAdvisory

(* instances.rs:23-25: an instance redefines no other selector.  It does:    *)
(* the adapters carry the instances' providers, so that a provider with one  *)
(* integration becomes ambiguous once that integration has an instance.      *)
InstancesRedefineNothing ==
    \A name \in {d.provider : d \in ToSet(Registry)} :
        MatchSelector(name, SelectSeq(Adapters, LAMBDA a : a.id \in {d.id : d \in ToSet(Registry)})).match = "one"
          => MatchSelector(name, Adapters).match = "one"
=============================================================================
