--------------------------- MODULE MCModelGateway ----------------------------
(***************************************************************************)
(* The model gateway: one answer it serves, and the credentials the runs   *)
(* behind it use.  The keys and the grants are records of one store; a     *)
(* record is only ever changed under its own reference, so that the two    *)
(* are explored one at a time, as are the serving, what a surface makes of *)
(* the words, the planning of a route and the forwarding of a request:     *)
(* `part` says which moves.                                                *)
(***************************************************************************)
EXTENDS GatewayServing, SurfaceFrames, RequestForwarding, KeyPool, OAuthGrants, TLC

CONSTANT AnyEndpoint     \* the selector `auto`

VARIABLE part

ModelParts == {"serving", "prompts", "frames", "routes", "forwards", "pool", "grants"}

routeVars == <<planVars, forwardVars>>
modelVars == <<part, serveVars, promptVars, frameVars, routeVars, poolVars, grantVars>>

(* What a part starts from, or one of them while another part moves.         *)
Resting ==
    [serving |-> CHOOSE x \in Requests : TRUE, prompts |-> CHOOSE x \in Conversations : TRUE,
     frames |-> CHOOSE x \in Exchanges : TRUE, routes |-> CHOOSE x \in Asks : TRUE,
     forwards |-> CHOOSE x \in Inbound : TRUE]

IfPart(p, starts) == IF part = p THEN starts ELSE {Resting[p]}

(* What the `decide` selector asks the decisions surface.                    *)
DecideHop(a) ==
    [surface |-> "route", selector |-> AnyEndpoint, faults |-> {}, present |-> a.present, local |-> {}]

(* A route is planned; where a decision was asked for it waits for the hop.  *)
RoutesNext ==
    \/ PlanRoute /\ UNCHANGED forwardVars
    \/ route.pc = "deciding" /\ ForwardNext /\ UNCHANGED planVars
    \/ hop.pc = "done" /\ Reorder(hop.choice) /\ UNCHANGED forwardVars

ModelInit ==
    /\ part \in ModelParts
    /\ ServeInit(IfPart("serving", Requests)) /\ PromptInit(IfPart("prompts", Conversations))
    /\ FramesInit(IfPart("frames", Exchanges)) /\ PoolInit /\ GrantsInit
    /\ PlanInit(IfPart("routes", Asks))
    /\ ForwardInit(IF part = "routes" THEN {DecideHop(ask)} ELSE IfPart("forwards", Inbound))
    /\ StoreInit(IF part = "grants" THEN GrantFile ELSE PoolFile)

ModelNext ==
    /\ UNCHANGED part
    /\ \/ part = "serving" /\ ServeNext /\ UNCHANGED <<promptVars, frameVars, routeVars, poolVars, grantVars>>
       \/ part = "prompts" /\ PromptNext /\ UNCHANGED <<serveVars, frameVars, routeVars, poolVars, grantVars>>
       \/ part = "frames" /\ FramesNext /\ UNCHANGED <<serveVars, promptVars, routeVars, poolVars, grantVars>>
       \/ part = "routes" /\ RoutesNext /\ UNCHANGED <<serveVars, promptVars, frameVars, poolVars, grantVars>>
       \/ part = "forwards" /\ ForwardNext
          /\ UNCHANGED <<serveVars, promptVars, frameVars, planVars, poolVars, grantVars>>
       \/ part = "pool" /\ PoolNext
          /\ UNCHANGED <<serveVars, promptVars, frameVars, routeVars, caller, user, provider, lost>>
       \/ part = "grants" /\ GrantsNext
          /\ UNCHANGED <<serveVars, promptVars, frameVars, routeVars, now, keyRun, edit>>

(* Threads run, and an exchange of tokens is over when its timeouts are.     *)
(* Nothing is assumed of the providers: the gateway gives a run no deadline, *)
(* and an endpoint may take as long as it likes.                             *)
PoolSteps == (\E r \in KeyRuns : RunStep(r)) \/ (\E e \in Edits : EditStep(e))
GrantSteps == (\E c \in Callers : CallerStep(c)) \/ (\E u \in UserOps : UserStep(u))

ModelSpec ==
    /\ ModelInit /\ [][ModelNext]_modelVars
    /\ WF_serveVars(part = "serving" /\ GatewayStep)
    /\ WF_poolVars(part = "pool" /\ PoolSteps)
    /\ WF_grantVars(part = "grants" /\ GrantSteps)

ModelTypeOK ==
    /\ PoolTypeOK /\ GrantsTypeOK
    /\ part \in ModelParts
    /\ storeLock \in {Nobody} \cup KeyRuns \cup Edits \cup Callers \cup UserOps
-----------------------------------------------------------------------------

(* What the gateway serves is one honest answer: a name resolves as its      *)
(* table says, another provider is asked only where nothing was delivered,   *)
(* nothing a run said is lost, the request log agrees with the client and no *)
(* run outlives its request.  Its prompt holds all that was sent, in order,  *)
(* and a stream is well formed and says what the body would.  A route is     *)
(* ranked by the evidence for it, and a forwarded request is answered by the *)
(* first endpoint that answered.                                             *)
ServingIsHonest ==
    /\ ServeTypeOK
    /\ part = "serving" => RoutesResolve /\ AnswerIsHonest
    /\ part = "prompts" => TranscriptIsWhole
    /\ part = "frames" => FramesAreOrderly /\ StreamSaysTheBody
    /\ part = "routes" => PlansAreHonest /\ ForwardingIsHonest
    /\ part = "forwards" => ForwardingIsHonest

(* What is stored is nobody's stale copy: marks are about answers that were  *)
(* given, grants are spent once and what the user did last stands.           *)
CredentialsAreKept ==
    /\ ModelTypeOK /\ HolderIsCurrent
    /\ part = "pool" => BenchedForCause /\ EditsStand
    /\ part = "grants" => StoredGrantIsLive /\ ExchangeIsExclusive /\ LastWordIsTheUsers

(* Every request is answered unless its run never ends, every run of a       *)
(* pooled key ends unless its endpoint never answers, whatever becomes of    *)
(* the others, and every caller of a grant gets a token or an error.         *)
Settled ==
    /\ part = "serving" => servePc = "done" \/ worker.state = "running"
    /\ part = "pool" => \A r \in KeyRuns : keyRun[r].pc \in RunOver \cup {"sent"}
    /\ part = "grants" => \A c \in Callers : caller[c].pc \in {"ready", "failed"}

EverybodyIsAnswered == <>[]Settled
-----------------------------------------------------------------------------

(* Requests of every surface over tables with chains, cycles, empty names    *)
(* and paths around the depth limit; two keys, two runs and two commands;    *)
(* two callers of one grant, a logout and a login.                           *)

CONSTANTS k1, k2, k3, e1, e2, u1, u2

MCTargets == "auto" :> <<"codex", "acp", "groq">> @@ "acp" :> <<"acp">>
             @@ "none" :> << >> @@ "ghost" :> <<"ghost">>

MCTables ==
    {"b" :> <<"auto">>,
     "a" :> <<"acp", "b">> @@ "b" :> <<"ghost", "acp">>,
     "a" :> <<"b", "c">> @@ "b" :> <<"c">> @@ "c" :> <<"auto">>,
     "a" :> <<"b">> @@ "b" :> <<"acp", "a">>,
     "a" :> <<"a">>,
     "a" :> << >> @@ "b" :> <<"a">>,
     "a" :> <<"b">> @@ "b" :> <<"c">> @@ "c" :> <<"d">> @@ "d" :> <<"auto">>,
     "a" :> <<"auto", "none">>}

MCRequests ==
    {r \in [surface : Surfaces, stream : BOOLEAN, tools : BOOLEAN, selector : {"auto", "ghost"},
            routes : {<< >>}] : r.tools => r.surface \in {"chat", "responses"}}
    \cup {r \in [surface : {"chat"}, stream : {TRUE}, tools : {FALSE}, selector : {"a", "b"},
                 routes : MCTables] : r.selector \in DOMAIN r.routes}

Message(role, kinds) == [role |-> role, blocks |-> [i \in DOMAIN kinds |-> [kind |-> kinds[i], id |-> <<role, i>>]]]
MCKinds == {"text", "image", "call", "result", "typeless"}
MCKindSeqs(n) == UNION {[1..k -> MCKinds] : k \in 0..n}

Conversation(surface, fault, messages) ==
    [surface |-> surface, fault |-> fault, compact |-> FALSE, stream |-> FALSE, system |-> FALSE,
     messages |-> messages, tools |-> NoHandle, functions |-> NoHandle, choice |-> "auto"]

MCTools == {NoHandle, << >>, <<[kind |-> "function", id |-> "f"]>>, <<[kind |-> "builtin", id |-> "g"]>>}

MCConversations ==
    {Conversation("messages", "none", <<Message("user", ks)>>) : ks \in MCKindSeqs(4)}
    \cup {[Conversation("messages", "none", <<Message("assistant", ks), Message("user", ls)>>)
            EXCEPT !.system = TRUE] : ks \in MCKindSeqs(2), ls \in MCKindSeqs(2)}
    \cup {Conversation("chat", "none", <<Message("assistant", ks), Message("tool", <<"result">>),
                                        Message("user", ls)>>)
          : ks \in {<<"call">>, <<"text", "call">>, <<"text", "call", "call">>}, ls \in {<< >>, <<"text">>, <<"image">>}}
    \cup {Conversation("chat", "none", <<Message("user", ks)>>)
          : ks \in UNION {[1..k -> {"text", "image", "typeless"}] : k \in 0..2}}
    \cup {[Conversation("responses", "none", [i \in DOMAIN ks |-> Message("item", <<ks[i]>>)] \o <<Message("user", ls)>>)
            EXCEPT !.compact = b, !.stream = d]
          : ks \in UNION {[1..k -> {"call", "result", "reasoning", "reference", "search"}] : k \in 0..2},
            ls \in {<<"text">>, <<"image", "typeless">>}, b \in BOOLEAN, d \in BOOLEAN}
    \cup {[Conversation(s, f, <<Message("user", <<"text">>)>>) EXCEPT !.tools = t, !.functions = u, !.choice = c]
          : s \in {"chat", "responses"}, f \in {"none", "forbidden", "continued"},
            t \in MCTools, u \in MCTools, c \in {"auto", "none", "required", "named"}}

MCLines == {"text", "blank", "open", "lead", "calls", "fence"}
MCSaid ==
    UNION {[1..k -> MCLines] : k \in 0..2}
    \cup {<<"open", "calls", "fence">>, <<"text", "open", "calls", "fence">>, <<"open", "calls", "fence", "text">>,
          <<"text", "blank", "open", "blank", "calls", "fence", "blank", "text">>,
          <<"lead", "calls", "fence", "text">>, <<"blank", "open", "calls", "fence", "blank">>,
          <<"open", "text", "fence", "open", "calls", "fence">>, <<"open", "calls", "calls", "fence">>,
          <<"fence", "open", "calls", "fence">>, <<"open", "calls", "fence", "open", "calls", "fence">>,
          <<"open", "calls", "open", "fence">>}
MCExchanges ==
    {x \in [surface : Surfaces, stream : BOOLEAN, tools : BOOLEAN, usage : BOOLEAN, deltas : BOOLEAN, said : MCSaid]
     : x.tools => x.surface \in {"chat", "responses"}}

Integration(id, of, kind, api, auth) ==
    [id |-> id, provider |-> of, kind |-> kind, wire |-> api, auth |-> auth]
MCRegistry ==
    <<Integration("claude", "claude", "cli", "none", "none"), Integration("devin", "devin", "cli", "none", "none"),
      Integration("openai:key", "openai", "http", "chat", "key"), Integration("groq:key", "groq", "http", "chat", "key"),
      Integration("typesafe:key", "typesafe", "http", "decisions", "key"),
      Integration("claude:web", "claude", "http", "web", "cookie"),
      Integration("corp", "corp", "http", "chat", "oauth"), Integration("ollama", "ollama", "http", "chat", "none")>>
MCInstances ==
    <<[id |-> "openai.work", base |-> "openai:key", bound |-> TRUE],
      [id |-> "claude.work", base |-> "claude", bound |-> FALSE],
      [id |-> "ollama.two", base |-> "ollama", bound |-> FALSE]>>
MCCollected == {"claude", "codex", "devin"}
Entry(of, model, known, efforts) ==
    [provider |-> of, model |-> model, advertised |-> TRUE, effortKnown |-> known, efforts |-> efforts]
MCCatalog ==
    {Entry("claude", "opus", TRUE, {"high"}), Entry("devin", "swe", FALSE, {}), Entry("devin", "opus", FALSE, {}),
     Entry("claude", "haiku", TRUE, {})}
MCDeclared == "groq:key" :> "llama" @@ "corp" :> "corp-1"
Step(id, model, effort) == [id |-> id, model |-> model, effort |-> effort]
MCChains == "two" :> <<Step("claude", "opus", None), Step("groq:key", None, None)>>
            @@ "bad" :> <<Step("groq:key", None, None), Step("claude", "opus", "low")>>

Selector(form, name, model, effort, head, tail, text) ==
    [form |-> form, name |-> name, model |-> model, effort |-> effort, head |-> head, tail |-> tail, text |-> text]
AutoRoute == Selector("auto", "auto", None, None, None, None, "auto")
AutoOpus == Selector("auto", "auto", "opus", None, "auto", "opus", "auto/opus")
AutoHigh == Selector("auto", "auto", "opus", "high", "auto", "opus@high", "auto/opus@high")
Bare(name) == Selector("bare", name, None, None, None, None, name)
MCSelectors ==
    {AutoRoute, AutoOpus, AutoHigh, Selector("decide", "decide", None, None, None, None, "decide"),
     Selector("chain", "two", None, None, None, None, "chain:two"),
     Selector("chain", "bad", None, None, None, None, "chain:bad"),
     Bare("groq:key"), Bare("groq"), Bare("openai"), Bare("openai.work"), Bare("devin"), Bare("haiku"),
     Selector("pinned", "claude", "opus", "low", "claude", "opus@low", "claude/opus@low"),
     Selector("pinned", "ghost", "m", None, "ghost", "m", "ghost/m")}
Usage(key, remaining, reset) == [key |-> key, remaining |-> remaining, reset |-> reset]
MCUsages ==
    {<< >>} \cup {<<Usage("claude", r, s), Usage("devin", q, 1)>> : r \in {-1, 0, 1, 2}, q \in {-1, 1}, s \in {0, 1, 9}}
    \cup {<<Usage("codex", 2, 1), Usage("devin", q, 1), Usage("claude", r, 0)>> : r \in {0, 2}, q \in {0, 2}}
MCKeyed == {"openai:key", "groq:key", "typesafe:key"}
MCAsks ==
    {a \in [selector : MCSelectors, effort : {None, "high", "swe"}, present : {{}, {"groq:key"}, MCKeyed}, usage : MCUsages] :
        a.selector.form = "decide" => a.effort = None /\ Len(a.usage) = 3}

MCRoutes == "fast" :> <<Bare("groq")>> @@ "both" :> <<Bare("fast"), Bare("openai.work")>>
            @@ "loop" :> <<Bare("loop")>> @@ "empty" :> << >> @@ "half" :> <<AutoRoute, Bare("claude")>>
MCInbound ==
    [surface : {"embeddings", "speech", "transcriptions", "decisions"}, faults : {{}}, local : {{}, {"ollama"}},
     present : {{}, {"corp", "openai:key", "groq:key"}, {"openai.work", "typesafe:key"}},
     selector : {AutoRoute, AutoHigh, Bare("both"), Bare("loop"), Bare("empty"), Bare("half"), Bare("openai"), Bare("claude:web"),
                 Bare("ollama.two"), Bare("decide"),
                 Selector("pinned", "ghost", "m", None, "ghost", "m", "ghost/m"),
                 Selector("pinned", "corp", "m", None, "corp", "m", "corp/m")}]
    \cup [surface : {"embeddings", "speech"}, faults : SUBSET {"malformed", "forbidden", "input", "unreadable"}, local : {{}},
          present : {{"openai:key"}}, selector : {AutoRoute}]

MCSlots == <<"root", "root/2">>
MCStart == "root" :> k1 @@ "root/2" :> k2
MCEdits == <<e1, e2>>
MCEditOf == e1 :> [op |-> "remove", slot |-> "root", key |-> k1]
            @@ e2 :> [op |-> "add", slot |-> "none", key |-> k3]

MCUsers == <<u1, u2>>
MCUserOp == u1 :> "logout" @@ u2 :> "login"
=============================================================================
