-------------------------- MODULE RequestForwarding --------------------------
(***************************************************************************)
(* The gateway's forwarding surfaces (embeddings, audio, decisions): the   *)
(* inbound model name is resolved to a ranked chain of endpoints, which    *)
(* are sent the request one after another until one of them answers.  The  *)
(* `decide` selector of a chat request walks the same chain with a         *)
(* question, and reorders its attempts by the answer.                      *)
(***************************************************************************)
EXTENDS RoutePlanning

CONSTANTS Routes,           \* gateway.json: from configured names to the selectors they stand for
          ForwardDepth,     \* MAX_ROUTE_DEPTH
          Inbound           \* [surface, selector, faults, present, local]
ASSUME ForwardDepthAssumption == ForwardDepth \in Nat

VARIABLES inbound,      \* what was asked; surface "route" stands for the hop of a `decide` selector
          stored,       \* the integrations whose credential is still stored
          hop           \* [pc, chain, next, contacts, response, logged, choice]

forwardVars == <<inbound, stored, hop>>

Surface(surface, d) ==
    \/ surface = "embeddings" /\ d.wire = "chat"
    \/ surface \in {"speech", "transcriptions"} /\ d.wire = "chat" /\ d.provider = "openai"
    \/ surface \in {"decisions", "route"}
       /\ \/ d.provider = "typesafe" /\ d.wire \in {"decisions", "chat"}
          \/ d.provider = "openai" /\ d.wire = "chat"

DefaultModel(surface, provider) ==
    IF surface = "embeddings" /\ provider = "openai" THEN "text-embedding"
    ELSE IF surface = "speech" /\ provider = "openai" THEN "tts"
    ELSE IF surface = "transcriptions" /\ provider = "openai" THEN "whisper"
    ELSE IF surface \in {"decisions", "route"} /\ provider = "typesafe" THEN "jev"
    ELSE None

(* Documented free tiers, other keys, grants, and then what runs locally.    *)
EvidenceTier(surface, d) ==
    IF d.kind # "http" \/ ~Surface(surface, d) THEN None
    ELSE IF d.auth = "key" /\ d.id \in stored THEN (IF d.provider \in FreeTier THEN 0 ELSE 1)
    ELSE IF d.auth = "oauth" /\ d.id \in stored THEN 2
    ELSE IF d.auth = "none" /\ d.id \in inbound.local THEN 3
    ELSE None

Candidate(id, identity, d, model) == [id |-> id, identity |-> identity, base |-> d.id, model |-> model]

(* Registry order stands inside a tier.                                      *)
AutoCandidates(surface, model) ==
    LET ofTier(t) == SelectSeq(Registry, LAMBDA d : EvidenceTier(surface, d) = t)
        candidates(ranked) == [i \in DOMAIN ranked |->
              Candidate(ranked[i].id, ranked[i].id, ranked[i],
                        IF model # None THEN model ELSE DeclaredModel(ranked[i].id))]
    IN AnyAttempt(candidates(ofTier(0) \o ofTier(1) \o ofTier(2) \o ofTier(3)))

(* An instance serves as its base, under its own identity where it binds a   *)
(* credential; a target that cannot serve the surface is refused.            *)
FirstModel(models) ==
    LET given == SelectSeq(models, LAMBDA m : m # None) IN IF given = << >> THEN None ELSE given[1]

ServedBy(surface, id, identity, serving, model) ==
    IF serving.kind # "http" \/ ~Surface(surface, serving) \/ serving.auth = "cookie"
       \/ (serving.auth = "none" /\ identity # serving.id)
    THEN NotServed(400)
    ELSE Attempts(<<Candidate(id, identity, serving,
              FirstModel(<<model, DefaultModel(surface, serving.provider), DeclaredModel(serving.id)>>))>>)

Overlaid(surface, i, model) == ServedBy(surface, i.id, IF i.bound THEN i.id ELSE Base(i).id, Base(i), model)
Registered(surface, named, model) ==
    CASE named.match = "one" -> ServedBy(surface, named.id, named.id, Descriptor(named.id), model)
      [] named.match = "unknown" -> NotServed(404)
      [] OTHER -> NotServed(400)

PinnedCandidate(surface, name, model) ==
    IF \E i \in ToSet(Instances) : i.id = name
    THEN Overlaid(surface, CHOOSE i \in ToSet(Instances) : i.id = name, model)
    ELSE Registered(surface, MatchSelector(name, Registry), model)

(* A name that is neither configured nor a selector is a model: so are       *)
(* `decide`, `chain:x` and anything with an effort behind it.                *)
OrRanked(surface, s, pinned) ==
    IF pinned.status = 404 /\ s.head = None THEN AutoCandidates(surface, s.text) ELSE pinned

ForwardTerminal(surface, s) ==
    IF "auto" \in {s.text, s.head} THEN AutoCandidates(surface, s.tail)
    ELSE OrRanked(surface, s, PinnedCandidate(surface, IF s.head # None THEN s.head ELSE s.text, s.tail))

(* The parts of a route, or the first of them that failed.                   *)
AllParts(parts) ==
    LET failed == SelectSeq(parts, LAMBDA p : p.status # 200)
    IN IF failed # << >> THEN failed[1]
       ELSE AnyAttempt(FlattenSeq([i \in DOMAIN parts |-> parts[i].attempts]))

ResolveChain(surface, s) ==
    LET resolve[left \in 0..ForwardDepth, t \in {s} \cup UNION {ToSet(Routes[n]) : n \in DOMAIN Routes}] ==
          IF t.text \notin DOMAIN Routes THEN ForwardTerminal(surface, t)
          ELSE IF left = 0 THEN NotServed(400)
          ELSE AllParts([i \in DOMAIN Routes[t.text] |-> resolve[left - 1, Routes[t.text][i]]])
    IN resolve[ForwardDepth, s]
-----------------------------------------------------------------------------
ForwardInit(requests) ==
    /\ inbound \in requests
    /\ stored = inbound.present
    /\ hop = [pc |-> "received", chain |-> << >>, next |-> 1, contacts |-> << >>,
              response |-> << >>, logged |-> << >>, choice |-> 0]

(* What a surface checks before it resolves, in its order; audio leaves its  *)
(* input to the endpoint.                                                   *)
EmbeddingsChecks == <<"malformed", "forbidden", "input", "unreadable">>
DecisionsChecks == <<"malformed", "forbidden", "questions", "unreadable">>
SpeechChecks == <<"malformed", "forbidden", "unreadable">>
TranscriptionsChecks == <<"boundary", "malformed", "forbidden", "unreadable">>
Checks == [embeddings |-> EmbeddingsChecks, decisions |-> DecisionsChecks, speech |-> SpeechChecks,
           transcriptions |-> TranscriptionsChecks, route |-> <<"unreadable">>]
CheckStatus(fault) == IF fault = "forbidden" THEN 403 ELSE IF fault = "unreadable" THEN 500 ELSE 400

(* What is refused before anybody was asked is not logged, and a hop that    *)
(* cannot ask anybody just ends.                                            *)
ResolveInbound ==
    /\ hop.pc = "received"
    /\ LET failed == SelectSeq(Checks[inbound.surface], LAMBDA f : f \in inbound.faults)
       IN \E r \in {IF failed # << >> THEN NotServed(CheckStatus(failed[1]))
                    ELSE ResolveChain(inbound.surface, inbound.selector)} :
            hop' = IF r.status = 200
                   THEN [hop EXCEPT !.pc = "walking", !.chain = r.attempts]
                   ELSE IF inbound.surface = "route" THEN [hop EXCEPT !.pc = "done"]
                   ELSE [hop EXCEPT !.pc = "done", !.response = <<r.status>>]
    /\ UNCHANGED <<inbound, stored>>

(* The model an endpoint is sent: its candidate's, or none; a form keeps the *)
(* selector it came with.                                                   *)
UpstreamModel(c) ==
    IF c.model # None \/ inbound.surface # "transcriptions" THEN c.model ELSE inbound.selector.text

Contact(how, status) == Append(hop.contacts, [of |-> hop.chain[hop.next], how |-> how, status |-> status,
                                              model |-> UpstreamModel(hop.chain[hop.next])])
Advance(how, status) == hop' = [hop EXCEPT !.next = @ + 1, !.contacts = Contact(how, status)]

(* A credential that went since it was ranked passes its candidate over.     *)
SkipCandidate ==
    /\ hop.pc = "walking" /\ hop.next <= Len(hop.chain)
    /\ LET c == hop.chain[hop.next]
       IN Descriptor(c.base).auth # "none" /\ c.identity \notin stored
    /\ Advance("absent", 0)
    /\ UNCHANGED <<inbound, stored>>

(* Sending it fails for its configuration, or in the transport: before the   *)
(* request arrived, or with an answer that did not.                          *)
SendFails(how) ==
    /\ hop.pc = "walking" /\ hop.next <= Len(hop.chain)
    /\ LET c == hop.chain[hop.next]
       IN Descriptor(c.base).auth = "none" \/ c.identity \in stored
    /\ how \in {"misconfigured", "unreachable", "truncated"}
    /\ Advance(how, 0)
    /\ UNCHANGED <<inbound, stored>>

(* An endpoint that answered owns the response: a success goes through and   *)
(* is logged then, anything else is logged and then told.                    *)
Fold(status) == IF status >= 500 THEN 502 ELSE status
UpstreamAnswers(status) ==
    /\ hop.pc = "walking" /\ hop.next <= Len(hop.chain) /\ inbound.surface # "route"
    /\ LET c == hop.chain[hop.next]
       IN /\ Descriptor(c.base).auth = "none" \/ c.identity \in stored
          /\ hop' = [hop EXCEPT !.pc = "done", !.contacts = Contact("answered", status),
                                !.response = Append(@, Fold(status)), !.logged = Append(@, Fold(status))]
    /\ UNCHANGED <<inbound, stored>>

(* A question's first success decides, whatever it says; another status is   *)
(* passed over.                                                             *)
EndpointDecides(status, choice) ==
    /\ hop.pc = "walking" /\ hop.next <= Len(hop.chain) /\ inbound.surface = "route"
    /\ LET c == hop.chain[hop.next]
       IN /\ Descriptor(c.base).auth = "none" \/ c.identity \in stored
          /\ IF status < 300
             THEN hop' = [hop EXCEPT !.pc = "done", !.choice = choice,
                                     !.contacts = Contact("answered", status)]
             ELSE Advance("answered", status)
    /\ UNCHANGED <<inbound, stored>>

WalkExhausted ==
    /\ hop.pc = "walking" /\ hop.next > Len(hop.chain)
    /\ hop' = IF inbound.surface = "route" THEN [hop EXCEPT !.pc = "done"]
              ELSE [hop EXCEPT !.pc = "done", !.response = <<502>>, !.logged = <<502>>]
    /\ UNCHANGED <<inbound, stored>>

(* The user removes a credential while requests are served.                  *)
CredentialGoes(id) ==
    /\ hop.pc # "done" /\ id \in stored
    /\ stored' = stored \ {id}
    /\ UNCHANGED <<inbound, hop>>

(* A chat request's attempts wait for the hop and are reordered by it; no    *)
(* choice, or one out of range, leaves them.                                 *)
Statuses == {200, 429, 503}
ForwardNext ==
    \/ ResolveInbound \/ SkipCandidate \/ WalkExhausted
    \/ \E how \in {"misconfigured", "unreachable", "truncated"} : SendFails(how)
    \/ \E status \in Statuses : UpstreamAnswers(status) \/ \E choice \in 0..1 : EndpointDecides(status, choice)
    \/ \E id \in stored : CredentialGoes(id)
-----------------------------------------------------------------------------
Failures == {"absent", "misconfigured", "unreachable", "truncated"}
Walked == [i \in DOMAIN hop.contacts |-> hop.contacts[i].of]

(* Nobody is asked after somebody answered, the chain is walked in its order *)
(* without omission, and the client and the log are told what the endpoint   *)
(* that answered said, once.                                                *)
FirstAnswerIsTheAnswer ==
    /\ Walked = SubSeq(hop.chain, 1, Len(hop.contacts))
    /\ inbound.surface # "route" =>
         /\ \A i \in DOMAIN hop.contacts : i < Len(hop.contacts) => hop.contacts[i].how \in Failures
         /\ hop.pc = "done" => Len(hop.response) = 1
         /\ hop.chain = << >> => hop.logged = << >>
         /\ hop.chain # << >> /\ hop.pc = "done" =>
              /\ hop.logged = hop.response
              /\ hop.response[1] = LET last == Last(hop.contacts)
                                   IN IF last.how \in Failures THEN 502 ELSE Fold(last.status)
    /\ inbound.surface = "route" => hop.response = << >> /\ hop.logged = << >>

(* A request goes to endpoints of its surface alone, never with a browser's  *)
(* session; where nobody pinned one, better evidence is asked first.         *)
WalkFollowsEvidence ==
    /\ \A c \in ToSet(hop.chain) : LET d == Descriptor(c.base)
         IN d.kind = "http" /\ Surface(inbound.surface, d) /\ d.auth # "cookie"
    /\ inbound.selector.form = "auto" /\ inbound.selector.text \notin DOMAIN Routes =>
         \A i, j \in DOMAIN hop.chain : i < j =>
            LET d == Descriptor(hop.chain[i].base)  e == Descriptor(hop.chain[j].base)
            IN /\ d.auth = "none" => e.auth = "none"
               /\ d.auth = "oauth" => e.auth # "key"
               /\ d.auth = "key" /\ e.auth = "key" => (e.provider \in FreeTier => d.provider \in FreeTier)

ForwardingIsHonest == FirstAnswerIsTheAnswer /\ WalkFollowsEvidence

(* forward.rs (providers) 36-39: a request that moves on cannot have been    *)
(* billed.  A timeout and a truncated body come after the work.              *)
BilledOnce ==
    Cardinality({i \in DOMAIN hop.contacts : hop.contacts[i].how \in {"truncated", "answered"}}) <= 1

(* forward.rs:365-367: a selector that pins no model leaves the choice to    *)
(* the endpoint.  A form sends the gateway's own selector instead.           *)
SelectorStaysHere ==
    \A c \in ToSet(hop.contacts) : c.model # "auto"
=============================================================================
