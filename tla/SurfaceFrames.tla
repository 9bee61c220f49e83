---------------------------- MODULE SurfaceFrames ----------------------------
(***************************************************************************)
(* What a surface of the model gateway makes of the words around a run:    *)
(* the conversation it was sent, flattened into the one prompt a run       *)
(* takes, and the answer, written in the protocol of the surface (the      *)
(* frames GatewayServing sends as openings, deltas, texts and endings).    *)
(***************************************************************************)
EXTENDS Naturals, Sequences, SequencesExt, FiniteSets, FiniteSetsExt, Functions

CONSTANTS Conversations,    \* what is sent: see Receive
          Exchanges,        \* what is answered: [surface, stream, tools, usage, deltas, said], where
                            \* said is the run's text by lines and deltas whether it came piecemeal
          NoAnswer, NoHandle

VARIABLES conversation, prompt,     \* a request being flattened
          exchange, told            \* an answer being written

promptVars == <<conversation, prompt>>
frameVars == <<exchange, told>>
-----------------------------------------------------------------------------
(* The conversation *)

(* A turn of the transcript: whose it is, the parts it says, the calls it    *)
(* makes and the call it answers.                                           *)
Turn(role, content, calls, of) == [role |-> role, content |-> content, calls |-> calls, of |-> of]

(* The blocks of an Anthropic message become turns in their order: parts up  *)
(* to a tool block are one turn, a run of calls is the assistant's, a result *)
(* is the tool's.                                                           *)
push_blocks(turns, role, blocks) ==
    LET flush_parts(s) ==
            IF s.parts = << >> THEN s
            ELSE [s EXCEPT !.turns = Append(@, Turn(role, s.parts, << >>, NoHandle)), !.parts = << >>]
        flush_calls(s) ==
            IF s.calls = << >> THEN s
            ELSE [s EXCEPT !.turns = Append(@, Turn("assistant", << >>, s.calls, NoHandle)), !.calls = << >>]
        push(s, block) ==
            IF block.kind = "call" THEN [flush_parts(s) EXCEPT !.calls = Append(@, block.id)]
            ELSE IF block.kind = "result"
            THEN [flush_calls(flush_parts(s)) EXCEPT !.turns = Append(@, Turn("tool", << >>, << >>, block.id))]
            ELSE [flush_calls(s) EXCEPT !.parts = Append(@, block)]
    IN flush_calls(flush_parts(
           FoldLeft(push, [turns |-> turns, parts |-> << >>, calls |-> << >>], blocks))).turns

(* One input item of a Responses request: a message, or a tool's or another  *)
(* item on its own.                                                         *)
push_item(turns, role, blocks) ==
    LET item == blocks[1] IN
    IF role # "item" THEN Append(turns, Turn(role, blocks, << >>, NoHandle))
    ELSE IF item.kind = "call" THEN Append(turns, Turn("assistant", << >>, <<item.id>>, NoHandle))
    ELSE IF item.kind = "result" THEN Append(turns, Turn("tool", << >>, << >>, item.id))
    ELSE IF item.kind = "reasoning" THEN turns
    ELSE Append(turns, Turn("user", <<item>>, << >>, NoHandle))

(* A chat message is a turn as it stands.                                    *)
push_message(turns, role, blocks) ==
    LET of(kind) == SelectSeq(blocks, LAMBDA b : b.kind = kind)
        ids(seq) == [i \in DOMAIN seq |-> seq[i].id]
    IN Append(turns, Turn(role, SelectSeq(blocks, LAMBDA b : b.kind \notin {"call", "result"}),
                          ids(of("call")),
                          IF of("result") = << >> THEN NoHandle ELSE of("result")[1].id))

(* What a part shows of itself: its text, a marker in its place, or nothing  *)
(* when it has no type.                                                     *)
content_text(parts) ==
    LET typed == SelectSeq(parts, LAMBDA p : p.kind # "typeless")
    IN [i \in DOMAIN typed |-> [typed[i] EXCEPT !.kind = IF @ = "text" THEN "text" ELSE "omitted"]]

(* The prompt shows the turns in order: a lone user's words are the prompt,  *)
(* any other turn but the system's has a label, and a blank one is left out. *)
flatten_messages(turns) ==
    LET shown(t) ==
            (IF t.role = "tool" THEN <<[kind |-> "result", id |-> t.of]>> ELSE << >>)
            \o content_text(t.content)
            \o (IF t.role = "assistant" THEN [i \in DOMAIN t.calls |-> [kind |-> "call", id |-> t.calls[i]]] ELSE << >>)
        blocks == [i \in DOMAIN turns |-> [label |-> turns[i].role, shows |-> shown(turns[i])]]
    IN IF Len(turns) = 1 /\ turns[1].role = "user"
       THEN <<[label |-> "none", shows |-> content_text(turns[1].content)]>>
       ELSE SelectSeq(blocks, LAMBDA b : b.label # "system" \/ b.shows # << >>)

IsBlank(flat) == \A i \in DOMAIN flat : flat[i].label \in {"none", "system"} /\ flat[i].shows = << >>

(* The functions a request declares: what is no function, or has no name,    *)
(* drops out.  A chat request may still use the old spelling, which counts   *)
(* only where the new one is absent.                                        *)
OnlyFunctions(listed) == SelectSeq(listed, LAMBDA t : t.kind = "function")

tool_functions_chat(c) ==
    OnlyFunctions(IF c.tools # NoHandle THEN c.tools
                  ELSE IF c.functions # NoHandle THEN c.functions ELSE << >>)

tool_functions_responses(c) == OnlyFunctions(IF c.tools # NoHandle THEN c.tools ELSE << >>)

(* They lead the prompt, with whether one must be called, unless there are   *)
(* none or the choice is none.                                              *)
flatten_tools(declared, choice) ==
    IF declared = << >> \/ choice = "none" THEN NoHandle
    ELSE [names |-> [i \in DOMAIN declared |-> declared[i].id], must |-> choice \in {"required", "named"}]

ToolsOf(c) ==
    IF c.surface = "chat" THEN flatten_tools(tool_functions_chat(c), c.choice)
    ELSE IF c.surface = "responses" THEN flatten_tools(tool_functions_responses(c), c.choice)
    ELSE NoHandle

(* A request is refused at the first thing that is wrong with it.            *)
RefusedAnywhere(c) == c.fault \in {"unread", "unparsed", "nameless", "forbidden"}

RefusedByChat(c) == RefusedAnywhere(c) \/ c.messages = << >>

RefusedByMessages(c) == RefusedAnywhere(c) \/ c.messages = << >>

RefusedByResponses(c) ==
    \/ RefusedAnywhere(c) \/ c.fault = "continued" \/ (c.compact /\ c.stream)
    \/ \E i \in DOMAIN c.messages : \E b \in Range(c.messages[i].blocks) : b.kind = "reference"

Refused(c) ==
    CASE c.surface = "chat" -> RefusedByChat(c)
      [] c.surface = "messages" -> RefusedByMessages(c)
      [] c.surface = "responses" -> RefusedByResponses(c)

(* Messages and Responses log what they refuse.                              *)
Refuse == prompt' = [prompt EXCEPT !.pc = "refused", !.logged = conversation.surface # "chat"]

(* Requests are [surface, fault, compact, stream, system, messages, tools,   *)
(* functions, choice], their messages [role, blocks], their blocks [kind, id].*)
Receive ==
    /\ prompt.pc = "received"
    /\ LET system == [kind |-> "text", id |-> "system"]
           lead == (IF conversation.surface = "responses" /\ conversation.compact
                    THEN <<Turn("system", <<[kind |-> "text", id |-> "compact"]>>, << >>, NoHandle)>> ELSE << >>)
                   \o (IF conversation.system THEN <<Turn("system", <<system>>, << >>, NoHandle)>> ELSE << >>)
       IN IF Refused(conversation) THEN Refuse
          ELSE prompt' = [prompt EXCEPT !.pc = "reading", !.turns = lead]
    /\ UNCHANGED conversation

TakeMessage ==
    /\ prompt.pc = "reading" /\ prompt.taken < Len(conversation.messages)
    /\ LET m == conversation.messages[prompt.taken + 1] IN
       prompt' = [prompt EXCEPT !.taken = @ + 1,
                                !.turns = IF conversation.surface = "messages"
                                          THEN push_blocks(@, m.role, m.blocks)
                                          ELSE IF conversation.surface = "responses"
                                          THEN push_item(@, m.role, m.blocks)
                                          ELSE push_message(@, m.role, m.blocks)]
    /\ UNCHANGED conversation

(* The text is what was sent behind the tools it may call; without any text  *)
(* the request is refused after all.                                        *)
Compose ==
    /\ prompt.pc = "reading" /\ prompt.taken = Len(conversation.messages)
    /\ LET flat == flatten_messages(prompt.turns) IN
       IF IsBlank(flat) THEN Refuse
       ELSE prompt' = [prompt EXCEPT !.pc = "composed", !.text = flat, !.tools = ToolsOf(conversation)]
    /\ UNCHANGED conversation

PromptInit(conversations) ==
    /\ conversation \in conversations
    /\ prompt = [pc |-> "received", taken |-> 0, turns |-> << >>, text |-> << >>, tools |-> NoHandle,
                 logged |-> FALSE]

PromptNext == Receive \/ TakeMessage \/ Compose
-----------------------------------------------------------------------------
(* The answer *)

(* The text around the first fenced block, and its calls, when the block is  *)
(* closed and holds calls; the line a fence opens on goes with the block.    *)
Trimmed(lines) ==
    LET kept == {i \in DOMAIN lines : lines[i] # "blank"}
    IN IF kept = {} THEN << >> ELSE SubSeq(lines, Min(kept), Max(kept))

Block(said, open, close) ==
    IF SelectSeq(SubSeq(said, open + 1, close - 1), LAMBDA l : l # "blank") # <<"calls">> THEN NoAnswer
    ELSE [content |-> Trimmed(SubSeq(said, 1, open - 1) \o SubSeq(said, close + 1, Len(said))),
          calls |-> <<"c1", "c2">>]

BlockAt(said, open, closes) == IF closes = {} THEN NoAnswer ELSE Block(said, open, Min(closes))
FirstBlock(said, open) == BlockAt(said, open, {i \in DOMAIN said : i > open /\ said[i] = "fence"})

parse_tool_calls(said) ==
    LET opens == {i \in DOMAIN said : said[i] \in {"open", "lead"}}
    IN IF opens = {} THEN NoAnswer ELSE FirstBlock(said, Min(opens))

Event(type, at, says) == [type |-> type, at |-> at, says |-> says]

Streaming == exchange.stream /\ ~exchange.tools
Parsed == IF exchange.tools THEN parse_tool_calls(exchange.said) ELSE NoAnswer

(* Responses: items are opened, filled and closed one after another.         *)
message_open_events(at) == <<Event("item.added", at, << >>), Event("part.added", at, << >>)>>

delta_event(at, says) == Event("text.delta", at, says)

message_done_events(at, says) ==
    <<Event("text.done", at, says), Event("part.done", at, says), Event("item.done", at, says)>>

call_events(at, call) ==
    <<Event("item.added", at, << >>), Event("arguments.delta", at, <<call>>),
      Event("arguments.done", at, <<call>>), Event("item.done", at, <<call>>)>>

(* The items of a whole answer: its text, unless only calls were left of it, *)
(* and its calls.                                                           *)
output_items(parsed) ==
    IF parsed = NoAnswer THEN <<exchange.said>>
    ELSE SelectSeq(<<parsed.content>>, LAMBDA t : t # << >>)
         \o [i \in DOMAIN parsed.calls |-> <<parsed.calls[i]>>]

message_events(text) ==
    message_open_events(0) \o SelectSeq(<<delta_event(0, text)>>, LAMBDA e : e.says # << >>)
        \o message_done_events(0, text)

answer_events(parsed) ==
    IF parsed = NoAnswer THEN message_events(exchange.said)
    ELSE LET first == IF parsed.content = << >> THEN 0 ELSE 1
         IN (IF first = 1 THEN message_events(parsed.content) ELSE << >>)
            \o FlattenSeq([i \in DOMAIN parsed.calls |-> call_events(first + i - 1, parsed.calls[i])])

write_answer(parsed) == answer_events(parsed) \o <<Event("completed", 0, output_items(parsed))>>

(* What each surface writes before the first delta, for a delta, at the end  *)
(* of an answer and for a failure.                                          *)
CommitChat == <<Event("role", 0, << >>)>>
CommitMessages == <<Event("message_start", 0, << >>), Event("block_start", 0, << >>)>>
CommitHead == <<Event("created", 0, << >>)>>

Commit ==
    CASE exchange.surface = "chat" -> CommitChat
      [] exchange.surface = "completions" -> << >>
      [] exchange.surface = "messages" -> CommitMessages
      [] exchange.surface = "responses" -> CommitHead \o message_open_events(0)

chunk_frame(says) == Event("content", 0, says)
delta_frame(says) == Event("block_delta", 0, says)

DeltaFrame(says) ==
    CASE exchange.surface \in {"chat", "completions"} -> chunk_frame(says)
      [] exchange.surface = "messages" -> delta_frame(says)
      [] exchange.surface = "responses" -> delta_event(0, says)

TerminalChat(reason) ==
    <<Event("finish", 0, <<reason>>)>>
    \o (IF exchange.usage THEN <<Event("usage", 0, << >>)>> ELSE << >>) \o <<Event("done", 0, << >>)>>

TerminalCompletions == <<Event("finish", 0, <<"stop">>), Event("done", 0, << >>)>>

TerminalMessages ==
    <<Event("block_stop", 0, << >>), Event("message_delta", 0, <<"stop">>), Event("message_stop", 0, << >>)>>

TerminalResponses == message_done_events(0, exchange.said) \o <<Event("completed", 0, output_items(Parsed))>>

Terminal ==
    CASE exchange.surface = "chat" -> TerminalChat("stop")
      [] exchange.surface = "completions" -> TerminalCompletions
      [] exchange.surface = "messages" -> TerminalMessages
      [] exchange.surface = "responses" -> TerminalResponses

ErrorMessages == <<Event("error", 0, << >>), Event("message_stop", 0, << >>)>>
ErrorResponses == <<Event("failed", 0, << >>)>>
ErrorChat == <<Event("error", 0, << >>), Event("done", 0, << >>)>>

ErrorFrames ==
    CASE exchange.surface = "messages" -> ErrorMessages
      [] exchange.surface = "responses" -> ErrorResponses
      [] OTHER -> ErrorChat

(* An answer that came whole is committed and told at once.                  *)
Saying(text) == IF text = << >> THEN << >> ELSE <<DeltaFrame(text)>>

ReplayCalls(calls) == <<Event("calls", 0, calls)>> \o TerminalChat("tool_calls")

Replay(parsed) ==
    IF exchange.surface = "responses" THEN CommitHead \o write_answer(parsed)
    ELSE Commit \o (IF parsed = NoAnswer THEN Saying(exchange.said) \o Terminal
                    ELSE Saying(parsed.content) \o ReplayCalls(parsed.calls))

(* The answer in one body.                                                   *)
BodyResponses == [items |-> output_items(Parsed)]
BodyText == [content |-> exchange.said, calls |-> << >>, reason |-> "stop"]
BodyChat(parsed) ==
    IF parsed = NoAnswer THEN BodyText
    ELSE [content |-> parsed.content, calls |-> parsed.calls, reason |-> "tool_calls"]

Body ==
    CASE exchange.surface = "responses" -> BodyResponses
      [] exchange.surface = "chat" -> BodyChat(Parsed)
      [] OTHER -> BodyText

FramesInit(exchanges) ==
    /\ exchange \in exchanges
    /\ told = [pc |-> "running", taken |-> 0, committed |-> FALSE, events |-> << >>]

TellDelta ==
    /\ told.pc = "running" /\ exchange.deltas /\ told.taken < Len(exchange.said)
    /\ LET says == <<exchange.said[told.taken + 1]>> IN
       told' = IF Streaming
               THEN [told EXCEPT !.taken = @ + 1, !.committed = TRUE,
                                 !.events = @ \o (IF told.committed THEN << >> ELSE Commit) \o <<DeltaFrame(says)>>]
               ELSE [told EXCEPT !.taken = @ + 1]
    /\ UNCHANGED exchange

TellSuccess ==
    /\ told.pc = "running" /\ (exchange.deltas => told.taken = Len(exchange.said))
    /\ told' = [told EXCEPT !.pc = IF exchange.stream THEN "streamed" ELSE "answered",
                            !.events = IF told.committed THEN @ \o Terminal
                                       ELSE IF exchange.stream THEN Replay(Parsed) ELSE @]
    /\ UNCHANGED exchange

TellFailure ==
    /\ told.pc = "running"
    /\ told' = [told EXCEPT !.pc = "failed", !.events = IF told.committed THEN @ \o ErrorFrames ELSE @]
    /\ UNCHANGED exchange

FramesNext == TellDelta \/ TellSuccess \/ TellFailure
-----------------------------------------------------------------------------

(* The prompt tells the run everything the client sent, in the order it was  *)
(* sent: words, markers for what a prompt cannot carry, calls and results    *)
(* with their handles.  Only reasoning and parts without a type are silent.  *)
TranscriptIsWhole ==
    LET silent == {"reasoning", "typeless"}
        spoken == SelectSeq(conversation.messages, LAMBDA m : m.role # "system")
        sent == FlattenSeq([i \in DOMAIN spoken |->
                    SelectSeq(spoken[i].blocks, LAMBDA b : b.kind \notin silent)])
        flat == SelectSeq(prompt.text, LAMBDA b : b.label # "system")
        own == FlattenSeq([i \in DOMAIN flat |-> flat[i].shows])
    IN prompt.pc = "composed" =>
        /\ [i \in DOMAIN own |-> own[i].id] = [i \in DOMAIN sent |-> sent[i].id]
        /\ \A i \in DOMAIN own : own[i].kind \in {sent[i].kind, "omitted"}
        /\ prompt.tools # NoHandle => prompt.tools.names # << >>

(* Items and blocks are opened one at a time in the order of their indices,  *)
(* filled while they are open and closed before a stream completes; a stream *)
(* ends once, and only a failure leaves something open.                      *)
FramesAreOrderly ==
    LET events == told.events
        opens(n) == {i \in 1..n - 1 : events[i].type \in {"item.added", "block_start"}}
        closes(n) == {i \in 1..n - 1 : events[i].type \in {"item.done", "block_stop"}}
        isOpen(n) == Cardinality(opens(n)) = Cardinality(closes(n)) + 1
    IN \A n \in DOMAIN events :
        LET e == events[n] IN
        /\ e.type \in {"created", "message_start", "role"} => n = 1
        /\ e.type \in {"item.added", "block_start"} => ~isOpen(n) /\ e.at = Cardinality(opens(n))
        /\ e.type \in {"part.added", "text.delta", "text.done", "part.done", "item.done", "arguments.delta",
                       "arguments.done", "block_delta", "block_stop"} =>
               isOpen(n) /\ e.at = Cardinality(closes(n))
        /\ e.type \in {"completed", "message_delta", "finish"} => ~isOpen(n) /\ told.pc = "streamed"
        /\ e.type \in {"completed", "failed", "done", "message_stop"} => n = Len(events) /\ told.pc # "running"
        /\ e.type \in {"content", "calls"} => \A i \in 1..n : events[i].type # "finish"

(* What a client assembles from the stream is what the body would have said, *)
(* however the run's words came: the same text, the same calls, the same     *)
(* reason, and an item closes with what its deltas said.                     *)
StreamSaysTheBody ==
    LET events == told.events
        of(types) == SelectSeq(events, LAMBDA e : e.type \in types)
        said(seq) == FlattenSeq([i \in DOMAIN seq |-> seq[i].says])
        done == of({"item.done"})
        ofItem(at) == SelectSeq(events, LAMBDA e : e.type \in {"text.delta", "arguments.delta"} /\ e.at = at)
    IN told.pc = "streamed" => \A body \in {Body} :
        IF exchange.surface = "responses"
        THEN /\ [i \in DOMAIN done |-> done[i].says] = body.items
             /\ events[Len(events)].says = body.items
             /\ \A i \in DOMAIN done : said(ofItem(done[i].at)) = done[i].says
        ELSE /\ said(of({"content", "block_delta"})) = body.content
             /\ said(of({"calls"})) = body.calls
             /\ said(of({"finish", "message_delta"})) = <<body.reason>>

(* A request whose messages are media only is refused ("media-only content   *)
(* is not supported", chat.rs): the markers the parts leave count as text.   *)
MediaIsRefused ==
    prompt.pc = "composed" => \E i \in DOMAIN prompt.text : \E j \in DOMAIN prompt.text[i].shows :
        prompt.text[i].shows[j].kind # "omitted"
=============================================================================
