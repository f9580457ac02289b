------------------------------ MODULE LLMClient ------------------------------
(***************************************************************************)
(* LLMClient.chat_stream (youmi/llm/client.py): the callers in Streamers    *)
(* read their answer as a stream of deltas, pass every piece on as it comes *)
(* and put the response together; the other callers use the breaker as      *)
(* chat and the tools do.  Every step of this module is a step of           *)
(* CircuitBreaker, or one that the breaker does not see.                    *)
(***************************************************************************)
EXTENDS CircuitBreaker, Sequences

CONSTANTS Streamers,  \* the callers that call chat_stream
          Deltas,     \* what one chunk may hold, see below
          MaxChunks   \* bound: chunks of one attempt

\* A delta is [kind |-> "text"], [kind |-> "reasoning"], or a piece of a tool
\* call, [kind |-> "call", idx, id, name]: its index, and whether it names the
\* call's id and function.  Chunks that hold none are skipped by the client.
ASSUME StreamAssumption ==
    /\ Streamers \subseteq Calls /\ MaxChunks \in Nat
    /\ \A d \in Deltas :
          /\ d.kind \in {"text", "reasoning", "call"}
          /\ d.kind = "call" => d.idx \in Nat /\ d.id \in BOOLEAN /\ d.name \in BOOLEAN

VARIABLES
    stream,  \* of a streamer: the local variables of chat_stream
    sent     \* environment: the deltas the target sent in this attempt

streamVars == <<stream, sent>>

\* A piece of text, and the id or name a delta gives, are named by the place
\* where they were sent: the attempt and the number of the chunk.
Piece(c) == <<attempt[c], Len(sent[c]) + 1>>
Separator == <<0, 0>>     \* the blank line between reasoning and text
NoPiece == <<>>

Nothing == [text |-> <<>>,      \* collected_content
            reasoning |-> <<>>, \* collected_reasoning
            calls |-> <<>>,     \* collected_tool_calls, by index
            received |-> FALSE, \* received_content
            seen |-> <<>>]      \* history: what the caller has been given
-----------------------------------------------------------------------------
(* One chunk *)

Reasoned(s, p) ==
    [s EXCEPT !.reasoning = Append(@, p), !.received = TRUE, !.seen = Append(@, p)]

Said(s, p) ==
    LET first == s.reasoning # <<>> /\ s.text = <<>> IN
    [s EXCEPT !.text = Append(@, p), !.received = TRUE,
              !.seen = @ \o (IF first THEN <<Separator, p>> ELSE <<p>>)]

NewCall == [id |-> NoPiece, name |-> NoPiece, args |-> <<>>]

\* A delta of a tool call: found by its index, made if it is the first.
Called(s, d, p) ==
    LET call == IF d.idx \in DOMAIN s.calls THEN s.calls[d.idx] ELSE NewCall
        new  == [id   |-> IF d.id THEN p ELSE call.id,
                 name |-> IF d.name THEN p ELSE call.name,
                 args |-> Append(call.args, p)]
    IN [s EXCEPT !.calls = [i \in DOMAIN @ \cup {d.idx} |->
                               IF i = d.idx THEN new ELSE @[i]]]

Chunk(c) ==
    /\ phase[c] = "running" /\ healthy /\ Len(sent[c]) < MaxChunks
    /\ \E d \in Deltas :
          /\ sent' = [sent EXCEPT ![c] = Append(@, d)]
          /\ stream' = [stream EXCEPT ![c] =
                CASE d.kind = "reasoning" -> Reasoned(@, Piece(c))
                  [] d.kind = "text"      -> Said(@, Piece(c))
                  [] d.kind = "call"      -> Called(@, d, Piece(c))]
    /\ UNCHANGED breakerVars

\* The numbers of a finite set in order: each is as many places from the front
\* as the set has numbers up to it.
UpToIn(S, i) == {j \in S : j <= i}
Sorted(S) == [k \in 1..Cardinality(S) |-> CHOOSE i \in S : Cardinality(UpToIn(S, i)) = k]

\* The response after the last chunk: the calls by index, each with an id of
\* the target or one made up.
MadeUp(i) == <<"call", i>>
Finished(call, i) == IF call.id = NoPiece THEN [call EXCEPT !.id = MadeUp(i)] ELSE call
Response(s) ==
    [text |-> s.text, reasoning |-> s.reasoning,
     calls |-> [n \in 1..Cardinality(DOMAIN s.calls) |->
        LET i == Sorted(DOMAIN s.calls)[n] IN Finished(s.calls[i], i)]]
-----------------------------------------------------------------------------
(* The attempts of a stream, as steps of CircuitBreaker *)

Fresh(c) ==
    /\ stream' = [stream EXCEPT ![c] = Nothing]
    /\ sent' = [sent EXCEPT ![c] = <<>>]

Opened(c) == Begin(c) /\ Fresh(c)

\* The generator ends and its caller reads _last_stream_response before
\* anyone else runs.
StreamEnds(c) == Succeeds(c) /\ Fresh(c)

\* Mutant: an attempt is retried whatever the caller has been given.
StreamRetries_Always(c) ==
    /\ AttemptFails(c)
    /\ stream' = [stream EXCEPT ![c] = [Nothing EXCEPT !.seen = stream[c].seen]]
    /\ sent' = [sent EXCEPT ![c] = <<>>]

\* An error before the first piece of text is retried, and what the attempt
\* had collected of tool calls is dropped.
StreamRetries(c) ==
    /\ ~stream[c].received /\ AttemptFails(c)
    /\ stream' = [stream EXCEPT ![c] = [Nothing EXCEPT !.seen = stream[c].seen]]
    /\ sent' = [sent EXCEPT ![c] = <<>>]

StreamBreaks(c) ==
    /\ stream[c].received \/ attempt[c] > MaxRetries
    /\ CallFails(c) /\ Fresh(c)

StreamRefused(c) == BusinessError(c) /\ Fresh(c)
StreamCancelled(c) == Cancelled(c) /\ Fresh(c)

StreamStep(c) ==
    \/ Chunk(c) \/ Opened(c) \/ StreamEnds(c) \/ StreamRetries(c)
    \/ StreamBreaks(c) \/ StreamRefused(c) \/ StreamCancelled(c)

\* chat and _do_execute_tool, and what all callers share.
OtherStep ==
    /\ \/ \E c \in Calls \ Streamers :
             \/ Begin(c) \/ Succeeds(c) \/ AttemptFails(c)
             \/ CallFails(c) \/ BusinessError(c) \/ Cancelled(c)
       \/ \E c \in Calls : Rejected(c) \/ BackoffOver(c)
       \/ RecoveryElapses \/ Reset \/ TargetChanges
    /\ UNCHANGED streamVars

StreamInit ==
    /\ Init
    /\ stream = [c \in Streamers |-> Nothing] /\ sent = [c \in Streamers |-> <<>>]

StreamNext == OtherStep \/ \E c \in Streamers : StreamStep(c)

\* As in CircuitBreaker: callers keep calling, attempts end, timeouts pass.
StreamFairness ==
    /\ WF_breakerVars(RecoveryElapses /\ UNCHANGED streamVars)
    /\ \A c \in Calls \ Streamers :
          /\ WF_breakerVars(Begin(c) /\ UNCHANGED streamVars)
          /\ WF_breakerVars((Succeeds(c) \/ CallFails(c)) /\ UNCHANGED streamVars)
    /\ \A c \in Calls : WF_breakerVars(BackoffOver(c) /\ UNCHANGED streamVars)
    /\ \A c \in Streamers :
          /\ WF_breakerVars(Opened(c))
          /\ WF_breakerVars(StreamEnds(c) \/ StreamBreaks(c) \/ StreamRetries(c))

StreamSpec == StreamInit /\ [][StreamNext]_<<breakerVars, streamVars>> /\ StreamFairness
-----------------------------------------------------------------------------
(* Properties *)

\* What a response should be, from what the attempt `a` sent: the numbers of the
\* chunks with text, with reasoning, with a piece of call i, with its id or name.
TextAt(q) == {n \in 1..Len(q) : q[n].kind = "text"}
ReasoningAt(q) == {n \in 1..Len(q) : q[n].kind = "reasoning"}
CallAt(q, i) == {n \in 1..Len(q) : q[n].kind = "call" /\ q[n].idx = i}
IdAt(q, i) == {n \in CallAt(q, i) : q[n].id}
NameAt(q, i) == {n \in CallAt(q, i) : q[n].name}
Indices(q) == {q[n].idx : n \in {m \in 1..Len(q) : q[m].kind = "call"}}

\* The members of a sequence at some of its places, in order.
Part(s, N) == [k \in 1..Cardinality(N) |-> s[Sorted(N)[k]]]

\* The pieces of those chunks, and the last of them, or what stands for it.
Pieces(a, q, N) == Part([n \in 1..Len(q) |-> <<a, n>>], N)
LastOf(a, N, other) ==
    IF N = {} THEN other ELSE <<a, CHOOSE n \in N : \A m \in N : m <= n>>

ExpectedCall(a, q, i, noId) ==
    [id   |-> LastOf(a, IdAt(q, i), noId),
     name |-> LastOf(a, NameAt(q, i), NoPiece),
     args |-> Pieces(a, q, CallAt(q, i))]

Expected(a, q) ==
    [text |-> Pieces(a, q, TextAt(q)), reasoning |-> Pieces(a, q, ReasoningAt(q)),
     calls |-> [n \in 1..Cardinality(Indices(q)) |->
        LET i == Sorted(Indices(q))[n] IN ExpectedCall(a, q, i, MadeUp(i))]]

\* A response is what one attempt sent, whole and in order: nothing of a
\* failed attempt is in it, the tool calls are put together by their index
\* and none is without an id.
ResponseExact ==
    \A c \in Streamers : phase[c] = "running" =>
        Response(stream[c]) = Expected(attempt[c], sent[c])

\* What the caller was given while the stream ran is the text and reasoning
\* of the response: no piece twice, and none of an attempt that was retried.
NotBlank(seen) == {k \in 1..Len(seen) : seen[k] # Separator}
GivenOnce ==
    \A c \in Streamers : phase[c] = "running" =>
        Part(stream[c].seen, NotBlank(stream[c].seen))
            = Pieces(attempt[c], sent[c], TextAt(sent[c]) \cup ReasoningAt(sent[c]))

StreamExact == ResponseExact /\ GivenOnce
=============================================================================
