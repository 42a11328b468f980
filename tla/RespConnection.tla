-------------------------- MODULE RespConnection --------------------------
(***************************************************************************)
(* RESP clients served side by side by HandleRespClient (src/server/       *)
(* main.cpp).                                                              *)
(*                                                                         *)
(* The network cuts what a client sends into chunks of any size, and may   *)
(* fail between any two of them.                                           *)
(***************************************************************************)
EXTENDS CommandDispatcher, PrometheusEndpoint, FiniteSets

CONSTANTS
    Clients,
    MaxChunk,  \* size of chunk
    MaxFrame   \* kMaxRespFrameBytes

VARIABLES
    script,   \* client -> what it sends
    at,       \* client -> where its worker is
    wire,     \* client -> tokens under way
    buffer,   \* client -> buffer
    parsed,   \* client -> parsed
    reply,    \* client -> response
    replies,  \* client -> the responses sent
    store,    \* key -> value
    metrics,
    stop,
    late      \* history: client -> commands executed though stop was set

resp_vars == <<script, at, wire, buffer, parsed, reply, replies, late>>

shared_vars == <<store, metrics, stop>>

\* An item is a command, or bytes that are none.
Command(parts) == [parts |-> parts, bytes |-> Encode(parts)]

Junk(bytes) == [parts |-> << >>, bytes |-> bytes]

Stream(items) == FlattenSeq([i \in DOMAIN items |-> items[i].bytes])

Error == [kind |-> "error", value |-> << >>]

RequestsTotal == "cache_resp_requests_total"

Goto(c, label) == at' = [at EXCEPT ![c] = label]

RespInit(scripts) ==
    /\ script = scripts
    /\ at = [c \in Clients |-> "recv"]
    /\ wire = [c \in Clients |-> Stream(scripts[c])]
    /\ buffer = [c \in Clients |-> << >>]
    /\ parsed = [c \in Clients |-> Nothing]
    /\ reply = [c \in Clients |-> Error]
    /\ replies = [c \in Clients |-> << >>]
    /\ late = [c \in Clients |-> 0]

\* recv returned a chunk.
Recv(c, n) ==
    /\ at[c] = "recv" /\ ~stop
    /\ buffer' = [buffer EXCEPT ![c] = @ \o SubSeq(wire[c], 1, n)]
    /\ wire' = [wire EXCEPT ![c] = SubSeq(@, n + 1, Len(@))]
    /\ Goto(c, "parse")
    /\ UNCHANGED <<script, parsed, reply, replies, late, shared_vars>>

\* The outer loop ends: stop is set, the client has gone or failed, or it has
\* been silent for idle_timeout.
HangUp(c) ==
    /\ at[c] = "recv"
    /\ Goto(c, "closed")
    /\ UNCHANGED <<script, wire, buffer, parsed, reply, replies, late, shared_vars>>

\* The buffer begins with a command that has a name.
HasCommand(c) == LET p == ParseRESP(buffer[c]) IN p # Nothing /\ p.parts[1] # << >>

\* The break of the inner loop, or the end of it.
StopParsing(c) ==
    /\ at[c] = "parse" /\ ~(~stop /\ HasCommand(c))
    /\ Goto(c, "check")
    /\ UNCHANGED <<script, wire, buffer, parsed, reply, replies, late, shared_vars>>

\* Mistake: the inner loop does not look at stop.
Parse_Deaf(c) ==
    /\ at[c] = "parse" /\ HasCommand(c)
    /\ parsed' = [parsed EXCEPT ![c] = ParseRESP(buffer[c])]
    /\ Goto(c, "execute")
    /\ UNCHANGED <<script, wire, buffer, reply, replies, late, shared_vars>>

\* stop is not set, and a command is found.
Parse(c) ==
    /\ at[c] = "parse" /\ ~stop /\ HasCommand(c)
    /\ parsed' = [parsed EXCEPT ![c] = ParseRESP(buffer[c])]
    /\ Goto(c, "execute")
    /\ UNCHANGED <<script, wire, buffer, reply, replies, late, shared_vars>>

\* ExecuteCommand; stop may have been set since it was tested.
Execute(c) ==
    /\ at[c] = "execute"
    /\ LET result == DispatchCommand(parsed[c].parts[1], Tail(parsed[c].parts), store)
       IN  /\ store' = result.store
           /\ reply' = [reply EXCEPT ![c] = Response(result)]
    /\ late' = [late EXCEPT ![c] = @ + (IF stop THEN 1 ELSE 0)]
    /\ Goto(c, "count")
    /\ UNCHANGED <<script, wire, buffer, parsed, replies, metrics, stop>>

\* Mistake: only what succeeds is counted.
Counted_Ok(c) ==
    IF reply[c].kind \in {"ok", "bulk"} THEN IncrementCounter(metrics, RequestsTotal) ELSE metrics

Counted(c) == IncrementCounter(metrics, RequestsTotal)

\* The counter, once the command has been executed and before it is answered.
Count(c) ==
    /\ at[c] = "count"
    /\ metrics' = Counted(c)
    /\ Goto(c, "send")
    /\ UNCHANGED <<script, wire, buffer, parsed, reply, replies, late, store, stop>>

\* Mistake: the buffer is cleared once the response has gone out.
Rest_Cleared(c) == << >>

\* buffer.erase
Rest(c) == SubSeq(buffer[c], parsed[c].consumed + 1, Len(buffer[c]))

\* The buffer is looked at again unless it is empty.
AfterSend(c) == IF Rest(c) = << >> THEN "check" ELSE "parse"

\* SendAll
Send(c) ==
    /\ at[c] = "send"
    /\ replies' = [replies EXCEPT ![c] = Append(@, reply[c])]
    /\ buffer' = [buffer EXCEPT ![c] = Rest(c)]
    /\ Goto(c, AfterSend(c))
    /\ UNCHANGED <<script, wire, parsed, reply, late, shared_vars>>

SendFails(c) ==
    /\ at[c] = "send"
    /\ Goto(c, "lost")
    /\ UNCHANGED <<script, wire, buffer, parsed, reply, replies, late, shared_vars>>

TooLong(c) == Len(buffer[c]) > MaxFrame

\* What is left in the buffer is not too long.
Check(c) ==
    /\ at[c] = "check" /\ ~TooLong(c)
    /\ Goto(c, "recv")
    /\ UNCHANGED <<script, wire, buffer, parsed, reply, replies, late, shared_vars>>

\* "-ERR invalid command", if it can still be sent.
Refuse(c) ==
    /\ at[c] = "check" /\ TooLong(c)
    /\ replies' = [replies EXCEPT ![c] = Append(@, Error)]
    /\ Goto(c, "refused")
    /\ UNCHANGED <<script, wire, buffer, parsed, reply, late, shared_vars>>

Serve(c) ==
    \/ \E n \in 1 .. MaxChunk : n <= Len(wire[c]) /\ Recv(c, n)
    \/ HangUp(c) \/ StopParsing(c) \/ Parse(c) \/ Execute(c) \/ Count(c)
    \/ Send(c) \/ SendFails(c) \/ Check(c) \/ Refuse(c)

-----------------------------------------------------------------------------
\* Properties

\* The items answered, executed ones only.
Answered(c) == Len(replies[c]) - (IF at[c] = "refused" THEN 1 ELSE 0)

\* A connection is never out of step with its client: what is in the buffer
\* and under way is exactly what the client sent after the items that were
\* answered, however the stream was cut.  So nothing is executed twice, skipped
\* or read across the boundary of two commands.
InStep ==
    \A c \in Clients :
        buffer[c] \o wire[c] = Stream(SubSeq(script[c], Answered(c) + 1, Len(script[c])))

\* A worker never waits for more input while it has a command to execute,
\* though several arrived in one chunk: a client that waits for its answers
\* before it sends more would wait forever.  And a client that sends only
\* commands within the limits is never refused, however they were cut and
\* however many wait in the buffer.  A frame over the limit is executed if its
\* end arrives with the chunk that exceeds it, so what a worker keeps is bounded
\* by kMaxRespFrameBytes and one chunk.  Once stop is set a worker executes at
\* most one more command, the one it had already parsed: workers are detached
\* and use what main owns, and this bounds what they do to it as main returns.
ServedInFull ==
    \A c \in Clients :
        /\ ~stop /\ at[c] = "recv" => ~HasCommand(c)
        /\ ~stop /\ at[c] = "refused" =>
             \E i \in DOMAIN script[c] :
                 \/ script[c][i].parts = << >> \/ script[c][i].parts[1] = << >>
                 \/ Len(script[c][i].bytes) > MaxFrame
        /\ Len(buffer[c]) <= MaxFrame + MaxChunk
        /\ late[c] <= 1

=============================================================================
