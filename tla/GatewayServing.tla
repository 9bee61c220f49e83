--------------------------- MODULE GatewayServing ---------------------------
(***************************************************************************)
(* One answer of the model gateway: the inbound model name is resolved to  *)
(* a chain of attempts, the chain runs them one after another (a worker    *)
(* thread posts its deltas and its result on a channel), and the surface   *)
(* that took the request writes what comes out in its own protocol.        *)
(***************************************************************************)
EXTENDS Naturals, Sequences, SequencesExt, FiniteSets

CONSTANTS Requests,         \* what is asked: [surface, stream, tools, selector, routes], where routes
                            \* is a gateway.json: a function from each configured name to the
                            \* selectors it stands for (an alias stands for one)
          TargetsOf,        \* the integrations a built-in selector ranks, in order
          MaxRouteDepth,
          Absent,           \* integrations without an execution adapter
          Refusing,         \* integrations whose adapter refuses the request
          MaxDeltas         \* deltas a run posts at most
ASSUME RouteDepthAssumption == MaxRouteDepth \in Nat

VARIABLES request,      \* what was asked
          servePc, attempts, next,
          worker,       \* the run in flight: its attempt, its state and the deltas it posted
          channel,      \* what it posted and the gateway did not take yet
          tried,        \* the runs before it
          chain,        \* committed and attempted of execute::run, saw_delta of drive, the outcome
          holding,      \* the surface holds the "request", the "stream", or "nothing"
          client,       \* the client is "there", "gone", or known to be gone: "broken"
          wire,         \* what was written to the client
          requestLog    \* the statuses of the request log

serveVars == <<request, servePc, attempts, next, worker, tried, channel, chain, holding, client, wire,
               requestLog>>

Surfaces == {"chat", "completions", "messages", "responses"}
BuiltIn == DOMAIN TargetsOf
Results == {"succeeded", "quota", "failed", "timeout", "error"}
Idle == [of |-> 0, state |-> "idle", posted |-> 0]
-----------------------------------------------------------------------------
(* Resolution *)

(* A selector's attempts with `left` expansions to go: the targets of each   *)
(* selector a configured name stands for, in order, or the first refusal.    *)
ResolveAttempts(table) ==
    LET names == DOMAIN table
        resolve[left \in 0..MaxRouteDepth, s \in names \cup BuiltIn] ==
          IF s \notin names
          THEN [ok |-> TargetsOf[s] # << >>, attempts |-> TargetsOf[s]]
          ELSE IF left = 0
          THEN [ok |-> FALSE, attempts |-> << >>]
          ELSE LET parts == [i \in DOMAIN table[s] |-> resolve[left - 1, table[s][i]]]
               IN IF parts # << >> /\ \A i \in DOMAIN parts : parts[i].ok
                  THEN [ok |-> TRUE,
                        attempts |-> FlattenSeq([i \in DOMAIN parts |-> parts[i].attempts])]
                  ELSE [ok |-> FALSE, attempts |-> << >>]
    IN [s \in names \cup BuiltIn |-> resolve[MaxRouteDepth, s]]

ServeInit(requests) ==
    /\ request \in requests
    /\ servePc = "resolving" /\ attempts = << >> /\ next = 1
    /\ worker = Idle /\ tried = << >> /\ channel = << >>
    /\ chain = [committed |-> FALSE, attempted |-> FALSE, sawDelta |-> FALSE, outcome |-> "none"]
    /\ holding = "request" /\ client = "there" /\ wire = << >> /\ requestLog = << >>
-----------------------------------------------------------------------------
(* The wire *)

Frame(kind, of, n) == [kind |-> kind, of |-> of, n |-> n]
Opening == Frame("opening", 0, 0)
Delta(n) == Frame("delta", worker.of, n)
Text == Frame("text", worker.of, 0)
End == Frame("end", 0, 0)
Error == Frame("error", 0, 0)

(* Frames are written one by one until one fails.  A client that is there    *)
(* takes them all; one that is gone may still let some through, and once a   *)
(* write failed every later one does.                                       *)
Write(frames, ok) ==
    \E k \in 0..Len(frames) :
        /\ ok = (k = Len(frames))
        /\ wire' = wire \o SubSeq(frames, 1, k)
        /\ \/ client = "there" /\ ok /\ UNCHANGED client
           \/ client = "gone" /\ client' = IF ok THEN "gone" ELSE "broken"
           \/ client = "broken" /\ k = 0 /\ UNCHANGED client

(* A whole response on a request that was not committed.                     *)
Respond(kind) ==
    /\ holding = "request"
    /\ holding' = "nothing"
    /\ wire' = Append(wire, Frame(kind, worker.of, 0))

LogStatus(status) == requestLog' = Append(requestLog, status)

(* Deltas go out as they come unless the answer is one body or must be       *)
(* parsed for tool calls first.                                             *)
Live == request.stream /\ ~request.tools
-----------------------------------------------------------------------------
(* execute::run *)

ResolveRequest ==
    /\ servePc = "resolving"
    /\ LET r == ResolveAttempts(request.routes)[request.selector] IN
       IF r.ok
       THEN /\ attempts' = r.attempts
            /\ servePc' = "choosing"
            /\ UNCHANGED <<holding, wire, requestLog>>
       ELSE /\ Respond("refusal")
            /\ IF request.surface \in {"messages", "responses"}
               THEN LogStatus("error") ELSE UNCHANGED requestLog
            /\ servePc' = "done"
            /\ UNCHANGED attempts
    /\ UNCHANGED <<request, next, worker, tried, channel, chain, client>>

(* Mutant: a skip steps over the attempt after it too.                       *)
SkipAttemptTwice ==
    /\ servePc = "choosing" /\ next <= Len(attempts)
    /\ attempts[next] \in Absent \cup Refusing
    /\ next' = next + 2
    /\ UNCHANGED <<request, servePc, attempts, worker, tried, channel, chain, holding, client, wire, requestLog>>

SkipAttempt ==
    /\ servePc = "choosing" /\ next <= Len(attempts)
    /\ attempts[next] \in Absent \cup Refusing
    /\ next' = next + 1
    /\ UNCHANGED <<request, servePc, attempts, worker, tried, channel, chain, holding, client, wire, requestLog>>

StartAttempt ==
    /\ servePc = "choosing" /\ next <= Len(attempts)
    /\ attempts[next] \notin Absent \cup Refusing
    /\ worker' = [of |-> next, state |-> "running", posted |-> 0]
    /\ tried' = IF worker = Idle THEN tried ELSE Append(tried, worker)
    /\ channel' = << >>
    /\ chain' = [chain EXCEPT !.attempted = TRUE, !.sawDelta = FALSE]
    /\ next' = next + 1
    /\ servePc' = "driving"
    /\ UNCHANGED <<request, attempts, holding, client, wire, requestLog>>

ChainExhausted ==
    /\ servePc = "choosing" /\ next > Len(attempts)
    /\ chain' = [chain EXCEPT !.outcome = "failed"]
    /\ servePc' = "answering"
    /\ UNCHANGED <<request, attempts, next, worker, tried, channel, holding, client, wire, requestLog>>

(* The worker thread *)

PostDelta ==
    /\ worker.state = "running" /\ worker.posted < MaxDeltas
    /\ worker' = [worker EXCEPT !.posted = @ + 1]
    /\ channel' = Append(channel, worker.posted + 1)
    /\ UNCHANGED <<request, servePc, attempts, next, tried, chain, holding, client, wire, requestLog>>

(* The run ends with a result, or the adapter panics and posts none.         *)
RunEnds ==
    /\ worker.state = "running"
    /\ \/ \E result \in Results :
            /\ worker' = [worker EXCEPT !.state = result]
            /\ channel' = Append(channel, 0)
       \/ worker' = [worker EXCEPT !.state = "panicked"] /\ UNCHANGED channel
    /\ UNCHANGED <<request, servePc, attempts, next, tried, chain, holding, client, wire, requestLog>>

(* drive *)

(* A delta commits the chain, and the stream if the surface writes it at     *)
(* once; a client found gone cancels the run and ends the chain.             *)
FeedDelta ==
    /\ servePc = "driving" /\ channel # << >> /\ channel[1] # 0
    /\ channel' = Tail(channel)
    /\ IF Live
       THEN \E ok \in BOOLEAN :
              /\ Write((IF holding = "request" THEN <<Opening>> ELSE << >>) \o <<Delta(channel[1])>>, ok)
              /\ holding' = IF holding = "request" /\ Len(wire') = 0 THEN "nothing" ELSE "stream"
              /\ chain' = [chain EXCEPT !.committed = TRUE, !.sawDelta = TRUE,
                                        !.outcome = IF ok THEN "none" ELSE "aborted"]
              /\ servePc' = IF ok THEN "driving" ELSE "joining"
       ELSE /\ chain' = [chain EXCEPT !.committed = TRUE, !.sawDelta = TRUE]
            /\ UNCHANGED <<servePc, holding, client, wire>>
    /\ UNCHANGED <<request, attempts, next, worker, tried, requestLog>>

(* Fifteen silent seconds: a committed stream carries a comment, which may   *)
(* find the client gone.                                                    *)
Keepalive ==
    /\ servePc = "driving" /\ channel = << >> /\ worker.state = "running"
    /\ chain.committed /\ holding = "stream" /\ client # "there"
    /\ client' = "broken"
    /\ chain' = [chain EXCEPT !.outcome = "aborted"]
    /\ servePc' = "joining"
    /\ UNCHANGED <<request, attempts, next, worker, tried, channel, holding, wire, requestLog>>

(* Mutant: another provider is tried although deltas were delivered.         *)
VerdictRetriesCommitted ==
    IF worker.state \in {"panicked", "quota", "error"} THEN "none"
    ELSE IF worker.state = "succeeded" THEN "succeeded" ELSE "failed"

(* The verdict on a run that posted its result, or hung up without one: only *)
(* an exhausted quota or an error that is no timeout is tried elsewhere, and *)
(* only while nothing was delivered.                                        *)
Verdict ==
    IF worker.state = "panicked" THEN "none"
    ELSE IF worker.state = "succeeded" THEN "succeeded"
    ELSE IF ~chain.committed /\ worker.state \in {"quota", "error"} THEN "none"
    ELSE "failed"

(* Mutant: a result is waited for even when the channel hung up.             *)
TakeResultOnly ==
    /\ servePc = "driving" /\ channel = <<0>>
    /\ channel' = << >>
    /\ chain' = [chain EXCEPT !.outcome = Verdict]
    /\ servePc' = "joining"
    /\ UNCHANGED <<request, attempts, next, worker, tried, holding, client, wire, requestLog>>

TakeResult ==
    /\ servePc = "driving"
    /\ \/ channel = <<0>>
       \/ channel = << >> /\ worker.state = "panicked"
    /\ channel' = << >>
    /\ chain' = [chain EXCEPT !.outcome = Verdict]
    /\ servePc' = "joining"
    /\ UNCHANGED <<request, attempts, next, worker, tried, holding, client, wire, requestLog>>

JoinWorker ==
    /\ servePc = "joining" /\ worker.state # "running"
    /\ servePc' = IF chain.outcome = "none" THEN "choosing" ELSE "answering"
    /\ UNCHANGED <<request, attempts, next, worker, tried, channel, chain, holding, client, wire, requestLog>>
-----------------------------------------------------------------------------
(* The surfaces answer *)

(* An answer that was not streamed is committed and replayed as a whole: its *)
(* text if there is any, then the terminal frame.  Chat logs before it       *)
(* commits, completions whatever becomes of the commit.                      *)
AnswerSuccess ==
    /\ servePc = "answering" /\ chain.outcome = "succeeded"
    /\ servePc' = "done"
    /\ \/ /\ holding = "stream"
          /\ \E ok \in BOOLEAN : Write(<<End>>, ok)
          /\ LogStatus("200") /\ UNCHANGED holding
       \/ /\ holding = "request" /\ request.stream
          /\ \E ok \in BOOLEAN :
               /\ Write(<<Opening, Text, End>>, ok)
               /\ LogStatus(IF Len(wire') = Len(wire) /\ request.surface \in {"messages", "responses"}
                            THEN "499" ELSE "200")
          /\ holding' = IF Len(wire') = Len(wire) THEN "nothing" ELSE "stream"
       \/ /\ holding = "request" /\ ~request.stream
          /\ Respond("body") /\ LogStatus("200") /\ UNCHANGED client
    /\ UNCHANGED <<request, attempts, next, worker, tried, channel, chain>>

(* Completions looks at what the chain calls committed, the other surfaces   *)
(* at what they hold: a completion buffered for one body and then failed is  *)
(* dropped unanswered, and the HTTP library answers for it with a bare 500.  *)
AnswerFailure ==
    /\ servePc = "answering" /\ chain.outcome = "failed"
    /\ servePc' = "done"
    /\ \/ /\ holding = "stream"
          /\ \E ok \in BOOLEAN : Write(<<Error>>, ok)
          /\ LogStatus(IF request.surface = "responses" THEN "200" ELSE "error")
          /\ UNCHANGED holding
       \/ /\ LogStatus("error") /\ UNCHANGED client
          /\ Respond(IF request.surface = "completions" /\ chain.committed THEN "bare500" ELSE "refusal")
    /\ UNCHANGED <<request, attempts, next, worker, tried, channel, chain>>

AnswerAborted ==
    /\ servePc = "answering" /\ chain.outcome = "aborted"
    /\ servePc' = "done"
    /\ LogStatus("499")
    /\ UNCHANGED <<request, attempts, next, worker, tried, channel, chain, holding, client, wire>>

ClientLeaves ==
    /\ servePc # "done" /\ client = "there"
    /\ client' = "gone"
    /\ UNCHANGED <<request, servePc, attempts, next, worker, tried, channel, chain, holding, wire, requestLog>>
-----------------------------------------------------------------------------
GatewayStep == ResolveRequest \/ SkipAttempt \/ StartAttempt \/ ChainExhausted \/ FeedDelta
               \/ TakeResult \/ JoinWorker \/ AnswerSuccess \/ AnswerFailure \/ AnswerAborted

ServeNext == GatewayStep \/ PostDelta \/ RunEnds \/ Keepalive \/ ClientLeaves

ServeTypeOK ==
    /\ request \in Requests
    /\ servePc \in {"resolving", "choosing", "driving", "joining", "answering", "done"}
    /\ attempts \in Seq(UNION {Range(TargetsOf[s]) : s \in BuiltIn}) /\ next \in 1..Len(attempts) + 1
    /\ worker.of \in 0..Len(attempts) /\ worker.state \in Results \cup {"idle", "running", "panicked"}
    /\ worker.posted \in 0..MaxDeltas /\ \A i \in DOMAIN channel : channel[i] \in 0..MaxDeltas
    /\ chain.outcome \in {"none", "succeeded", "failed", "aborted"}
    /\ holding \in {"request", "stream", "nothing"} /\ client \in {"there", "gone", "broken"}
-----------------------------------------------------------------------------

(* A configured name resolves unless some path through the table is longer   *)
(* than the depth allowed (every cycle is), an empty name or a built-in      *)
(* selector with no target is on the way; what it resolves to is what the    *)
(* built-in selectors it reaches name, and nothing else.                     *)
RoutesResolve ==
    LET table == request.routes
        names == DOMAIN table
        at[depth \in 0..MaxRouteDepth] ==
            IF depth = 0 THEN {request.selector}
            ELSE UNION {Range(table[n]) : n \in at[depth - 1] \cap names}
        met == UNION {at[depth] : depth \in 0..MaxRouteDepth}
        resolved == ResolveAttempts(table)[request.selector]
    IN servePc = "resolving" =>
        /\ resolved.ok <=> /\ at[MaxRouteDepth] \cap names = {}
                           /\ \A n \in met \cap names : table[n] # << >>
                           /\ \A b \in met \ names : TargetsOf[b] # << >>
        /\ resolved.ok =>
             Range(resolved.attempts) = UNION {Range(TargetsOf[b]) : b \in met \ names}

(* One answer goes out, in order: a body, or an opening, what was said and   *)
(* one ending.                                                              *)
AnswerIsOrderly ==
    \A i \in DOMAIN wire :
        /\ wire[i].kind \in {"end", "error", "body", "refusal", "bare500"} => i = Len(wire) /\ servePc = "done"
        /\ wire[i].kind \in {"delta", "text", "end", "error"} => i > 1 /\ wire[1].kind = "opening"
        /\ wire[i].kind = "opening" => i = 1

(* Another provider is asked only if the one before delivered nothing: it    *)
(* failed before its first delta, or its thread panicked.                    *)
FailoverIsHonest ==
    \A i \in DOMAIN tried : \/ tried[i].state = "panicked"
                            \/ tried[i].state \in {"quota", "error"} /\ tried[i].posted = 0

(* A client that stayed until a run succeeded was told everything that run   *)
(* said, in order and nothing else, unless an earlier one panicked.          *)
NothingIsLost ==
    servePc = "done" /\ chain.outcome = "succeeded" /\ client = "there"
    /\ (\A i \in DOMAIN tried : tried[i].state # "panicked")
    => \/ wire = <<Frame("body", worker.of, 0)>>
       \/ wire = <<Opening, Text, End>>
       \/ wire = <<Opening>> \o [n \in 1..worker.posted |-> Delta(n)] \o <<End>> /\ worker.posted > 0

(* The log says once how a request that got as far as a chain ended: with    *)
(* 200 the client has the whole answer, 499 only of one that left, and any   *)
(* other status of an answer that says so.  (The Responses surface logs 200  *)
(* for a stream that failed.)                                                *)
LogIsHonest ==
    /\ Len(requestLog) <= 1
    /\ servePc = "done" /\ attempts # << >> => Len(requestLog) = 1
    /\ requestLog = <<"499">> => client # "there"
    /\ requestLog # << >> /\ client = "there" =>
         LET last == wire[Len(wire)].kind IN
         IF requestLog = <<"200">>
         THEN last \in {"end", "body"} \/ (last = "error" /\ request.surface = "responses")
         ELSE last \in {"error", "refusal", "bare500"}

(* No run is left working for a request that is answered or tried elsewhere. *)
NoStrayRun ==
    servePc \in {"resolving", "choosing", "answering", "done"} => worker.state # "running"

(* Whatever was asked, the answer is honest.                                 *)
AnswerIsHonest ==
    AnswerIsOrderly /\ FailoverIsHonest /\ NothingIsLost /\ LogIsHonest /\ NoStrayRun

(* A request that failed is told so: with the error frame of its stream or   *)
(* the error body of its surface (the outcome `committed` tells the caller    *)
(* which, execute.rs:48-52).                                                 *)
FailureIsTold ==
    servePc = "done" /\ chain.outcome = "failed" /\ client = "there" =>
        wire[Len(wire)].kind \in {"error", "refusal"}
=============================================================================
