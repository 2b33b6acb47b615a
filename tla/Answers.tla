------------------------------ MODULE Answers ------------------------------
(***************************************************************************)
(* One request and its answer: what the client reads, who writes it, and   *)
(* how the request is counted.                                             *)
(*                                                                         *)
(* Seven kinds of handlers.  Of those that stream, the plain chat ("chat") *)
(* and the Ollama ones ("ndjson") write their final chunk from the session *)
(* callback and hold no lock; the tool turns ("emit", "resume") write it   *)
(* from the handler and serialise their writes.  The ones that answer with *)
(* one JSON body ("chatJson", "emitJson", "resumeJson") write from the     *)
(* handler only.  Handler and callback are each a program: a sequence of   *)
(* instructions it has yet to execute, one atomic step each, a write being *)
(* two steps so that two writers can meet.                                 *)
(*                                                                         *)
(* The agent behind the session, the session's dispatcher and SendAndWait  *)
(* are the SDK's and are modelled from how the handlers use them: one      *)
(* event is delivered at a time, and a callback under way survives         *)
(* unsubscribe.  The agent's text is a run of pieces numbered from 1.      *)
(***************************************************************************)
EXTENDS Naturals, Sequences

CONSTANTS
  MaxPieces,   \* pieces of text the agent says: a bound
  MaxCalls     \* tool calls it makes in this turn: a bound

ASSUME StreamAssumption == MaxPieces \in Nat /\ MaxCalls \in Nat

JsonKinds == {"chatJson", "emitJson", "resumeJson"}
SSEKinds == {"chat", "emit", "resume"}
ToolKinds == {"emit", "resume", "emitJson", "resumeJson"}
Kinds == JsonKinds \cup SSEKinds \cup {"ndjson"}
Threads == {"handler", "callback"}

VARIABLES
  kind,      \* which handler this is
  streams,   \* whether the backend sends deltas or only whole messages
  agent,     \* [state, said, reported]: pieces said; pieces in a message event
  turn,      \* what the callback leaves for the handler
  pc,        \* where the handler is between its programs
  prog,      \* thread -> the instructions it has yet to execute
  writing,   \* the threads inside a write to the response
  wire,      \* the chunks the client has received
  records,   \* the statuses passed to RecordCompletion
  parked,    \* the session was handed to the registry
  gone,      \* the client closed its connection
  timedOut   \* the turn's five minutes ran out

vars == <<kind, streams, agent, turn, pc, prog, writing, wire, records,
          parked, gone, timedOut>>
outcome == <<wire, records, parked, gone, timedOut>>

Write(chunk)   == [op |-> "write", chunk |-> chunk]
Record(status) == [op |-> "record", status |-> status]
Signal(ch)     == [op |-> "signal", ch |-> ch]
Park           == [op |-> "park"]
Return         == [op |-> "return"]

Chunk(t)     == [type |-> t]
Text(a, b)   == [type |-> "text", first |-> a, last |-> b]
Reply(m)     == [type |-> "reply", first |-> m[1], last |-> m[2]]
Finish       == {"stop", "tool_calls", "reply"}
ChunkTypes   == {"role", "text", "call", "refusal", "error", "done"} \cup Finish
IsText(c)    == c.type = "text"
IsFinish(c)  == c.type \in Finish

Init ==
  /\ kind \in Kinds
  /\ streams \in (IF kind \in JsonKinds THEN {FALSE} ELSE BOOLEAN)
  /\ agent = [state |-> "waiting", said |-> 0, reported |-> 0]
  /\ turn = [gotDelta |-> FALSE, gotTool |-> FALSE, events |-> 0,
             toolCh |-> FALSE, over |-> FALSE, finalText |-> <<0, 0>>]
  /\ pc = "new"
  /\ prog = [t \in Threads |-> <<>>]
  /\ writing = {} /\ wire = <<>> /\ records = <<>>
  /\ parked = FALSE /\ gone = FALSE /\ timedOut = FALSE

-----------------------------------------------------------------------------
(* The programs *)

\* SSE marks the end of its stream; nothing else does.
EndMarker == IF kind \in SSEKinds THEN <<Write(Chunk("done"))>> ELSE <<>>

\* A status of its own, before anything is streamed: the 400 of attachments that
\* cannot be sent on, the 409 of a resume whose session is not parked here.
Refused == <<Record("error"), Write(Chunk("refusal")), Return>>

\* createSession failed: SSE has committed its 200 and reports in the stream,
\* the others answer 500.
OpenFailed ==
  <<Record("error"), Write(Chunk("error"))>> \o EndMarker \o <<Return>>

SendFailed ==
  <<Record("error")>>
    \o (IF kind \in JsonKinds THEN <<Write(Chunk("error"))>> ELSE EndMarker)
    \o <<Return>>

CallChunks(n) == [i \in 1..n |-> Write(Chunk("call"))]

\* Mutant: the calls are answered before the session is parked.
ToolAnswerParksLast(n) ==
  CallChunks(n) \o <<Write(Chunk("tool_calls")), Write(Chunk("done")),
                     Park, Record("success"), Return>>

ToolAnswer(n) ==
  <<Park>> \o CallChunks(n)
    \o <<Write(Chunk("tool_calls")), Write(Chunk("done")),
         Record("success"), Return>>

JsonToolAnswer ==
  <<Park, Record("success"), Write(Chunk("tool_calls")), Return>>

StreamTextAnswer ==
  <<Write(Chunk("stop")), Write(Chunk("done")), Record("success"), Return>>

\* The last message the agent sent is the answer.
JsonTextAnswer ==
  <<Record("success"), Write(Reply(turn.finalText)), Return>>

\* The plain streams were ended by their callback.
TextAnswer == CASE kind \in JsonKinds         -> JsonTextAnswer
                [] kind \in {"emit", "resume"} -> StreamTextAnswer
                [] OTHER                       -> <<Return>>

\* Mutant: the cancelled branch of a tool turn records nothing.
CancelledUncounted == <<Return>>

\* SendAndWait returns the context's error, cancelled or timed out alike; the
\* plain streams only log either.
Cancelled ==
  CASE kind \in ToolKinds -> <<Record("error"), Return>>
    [] kind = "chatJson"  -> SendFailed
    [] OTHER              -> <<Return>>

\* Mutant: the timeout of a JSON tool turn is recorded but not answered.
TimeoutUnanswered ==
  IF kind \in {"emit", "resume"}
  THEN <<Write(Chunk("done")), Record("error"), Return>>
  ELSE Cancelled

TimeoutReached ==
  CASE kind \in {"emit", "resume"}         -> <<Write(Chunk("done")),
                                               Record("error"), Return>>
    [] kind \in {"emitJson", "resumeJson"} -> <<Record("error"),
                                               Write(Chunk("error")), Return>>
    [] OTHER                               -> Cancelled

\* Mutant: the callback wakes the handler before it writes the end.
ChatIdleSignalsFirst ==
  <<Signal("over"), Record("success"), Write(Chunk("stop")),
    Write(Chunk("done"))>>

\* Mutant: the stream ends without its marker.
ChatIdleNoDone ==
  <<Record("success"), Write(Chunk("stop")), Signal("over")>>

ChatIdle ==
  <<Record("success"), Write(Chunk("stop")), Write(Chunk("done")),
    Signal("over")>>

NdjsonIdle ==
  <<Record("success"), Write(Chunk("stop")), Signal("over")>>

OnIdle == CASE kind = "chat"   -> ChatIdle
            [] kind = "ndjson" -> NdjsonIdle
            [] OTHER           -> <<Signal("over")>>

-----------------------------------------------------------------------------
(* The steps of a program *)

\* Mutant: no lock around the writes of a tool turn.
BeginWriteUnlocked(t) ==
  /\ prog[t] # <<>> /\ Head(prog[t]).op = "write" /\ t \notin writing
  /\ writing' = writing \cup {t}
  /\ UNCHANGED <<kind, streams, agent, turn, pc, prog, outcome>>

\* wmu.Lock and the call of Write; the plain handlers have no lock.
BeginWrite(t) ==
  /\ prog[t] # <<>> /\ Head(prog[t]).op = "write" /\ t \notin writing
  /\ kind \in {"emit", "resume"} => writing = {}
  /\ writing' = writing \cup {t}
  /\ UNCHANGED <<kind, streams, agent, turn, pc, prog, outcome>>

\* Mutant: the lock is not released.
EndWriteKeepsLock(t) ==
  /\ t \in writing
  /\ prog' = [prog EXCEPT ![t] = Tail(@)]
  /\ wire' = IF gone \/ pc = "returned" THEN wire
             ELSE Append(wire, Head(prog[t]).chunk)
  /\ UNCHANGED <<kind, streams, agent, turn, pc, writing, records, parked,
                 gone, timedOut>>

\* A chunk written to a closed connection is lost, its error only logged.
EndWrite(t) ==
  /\ t \in writing
  /\ writing' = writing \ {t}
  /\ prog' = [prog EXCEPT ![t] = Tail(@)]
  /\ wire' = IF gone \/ pc = "returned" THEN wire
             ELSE Append(wire, Head(prog[t]).chunk)
  /\ UNCHANGED <<kind, streams, agent, turn, pc, records, parked, gone,
                 timedOut>>

RecordCompletion(t) ==
  /\ prog[t] # <<>> /\ Head(prog[t]).op = "record"
  /\ records' = Append(records, Head(prog[t]).status)
  /\ prog' = [prog EXCEPT ![t] = Tail(@)]
  /\ UNCHANGED <<kind, streams, agent, turn, pc, writing, wire, parked, gone,
                 timedOut>>

SignalHandler(t) ==
  /\ prog[t] # <<>> /\ Head(prog[t]).op = "signal"
  /\ turn' = [turn EXCEPT ![Head(prog[t]).ch] = TRUE]
  /\ prog' = [prog EXCEPT ![t] = Tail(@)]
  /\ UNCHANGED <<kind, streams, agent, pc, writing, outcome>>

ParkSession(t) ==
  /\ prog[t] # <<>> /\ Head(prog[t]).op = "park"
  /\ parked' = TRUE
  /\ prog' = [prog EXCEPT ![t] = Tail(@)]
  /\ UNCHANGED <<kind, streams, agent, turn, pc, writing, wire, records, gone,
                 timedOut>>

\* The deferred unsubscribe and Disconnect; ServeHTTP is over.
ReturnStep(t) ==
  /\ prog[t] # <<>> /\ Head(prog[t]).op = "return"
  /\ pc' = "returned"
  /\ prog' = [prog EXCEPT ![t] = Tail(@)]
  /\ UNCHANGED <<kind, streams, agent, turn, writing, outcome>>

ThreadStep(t) ==
  \/ BeginWrite(t)
  \/ EndWrite(t)
  \/ RecordCompletion(t)
  \/ SignalHandler(t)
  \/ ParkSession(t)
  \/ ReturnStep(t)

-----------------------------------------------------------------------------
(* The handler, between its programs *)

Idle(at) == pc = at /\ prog["handler"] = <<>>

Run(p, next) ==
  /\ prog' = [prog EXCEPT !["handler"] = p]
  /\ pc' = next
  /\ UNCHANGED <<kind, streams, agent, writing, outcome>>

\* The session is there (created, or taken from the registry); SSE opens with
\* the role chunk.
Open ==
  /\ Idle("new")
  /\ Run(IF kind \in SSEKinds THEN <<Write(Chunk("role"))>> ELSE <<>>, "opened")
  /\ UNCHANGED turn

\* The Ollama handlers read no attachments.
Refuse ==
  /\ Idle("new") /\ kind # "ndjson"
  /\ Run(Refused, "refusing")
  /\ UNCHANGED turn

\* A resume creates no session.
OpenFails ==
  /\ Idle("new") /\ kind \notin {"resume", "resumeJson"}
  /\ Run(OpenFailed, "refusing")
  /\ UNCHANGED turn

\* session.On, and then Send (resolvePending, SendAndWait) is called.
Subscribe == Idle("opened") /\ Run(<<>>, "sending") /\ UNCHANGED turn

SendReturns ==
  /\ Idle("sending") /\ agent.state # "waiting"
  /\ Run(<<>>, "waiting")
  /\ UNCHANGED turn

\* The RPC fails: it was refused, cancelled or out of time, or its answer was
\* lost, so the agent may have begun, or begin yet.  SendAndWait, one call from
\* the prompt to the answer, can fail until the agent is through.
SendFails ==
  /\ Idle("sending") \/ (Idle("waiting") /\ kind = "chatJson")
  /\ Run(SendFailed, "leaving")
  /\ UNCHANGED turn

ToolSignal ==
  /\ Idle("waiting") /\ turn.toolCh
  /\ Run(<<>>, "debounce")
  /\ turn' = [turn EXCEPT !.toolCh = FALSE]

ExtendDebounce ==
  /\ Idle("debounce") /\ turn.toolCh
  /\ turn' = [turn EXCEPT !.toolCh = FALSE]
  /\ UNCHANGED <<kind, streams, agent, pc, prog, writing, outcome>>

EndDebounce ==
  /\ Idle("debounce")
  /\ Run(IF kind \in JsonKinds THEN JsonToolAnswer ELSE ToolAnswer(turn.events),
         "leaving")
  /\ UNCHANGED turn

TurnOver ==
  /\ Idle("waiting") /\ turn.over
  /\ Run(TextAnswer, "leaving")
  /\ UNCHANGED turn

ContextDone ==
  /\ Idle("waiting") /\ gone
  /\ Run(Cancelled, "leaving")
  /\ UNCHANGED turn

Timeout ==
  /\ Idle("waiting")
  /\ timedOut' = TRUE
  /\ prog' = [prog EXCEPT !["handler"] = TimeoutReached]
  /\ pc' = "leaving"
  /\ UNCHANGED <<kind, streams, agent, turn, writing, wire, records, parked,
                 gone>>

HandlerStep ==
  \/ Open \/ Refuse \/ OpenFails \/ Subscribe
  \/ SendReturns \/ SendFails
  \/ ToolSignal \/ ExtendDebounce \/ EndDebounce
  \/ TurnOver \/ ContextDone \/ Timeout

-----------------------------------------------------------------------------
(* The agent, and the session event it raises: delivered to the callback *)

Subscribed == pc \in {"sending", "waiting", "debounce", "leaving"}

Deliver(p) ==
  /\ prog["callback"] = <<>> /\ Subscribed
  /\ prog' = [prog EXCEPT !["callback"] = p]
  /\ UNCHANGED <<kind, streams, pc, writing, outcome>>

\* The prompt, or the last tool result, reaches the agent, at the latest while a
\* handler whose call has failed is on its way out.
AgentStarts ==
  /\ pc \in {"sending", "leaving"} /\ agent.state = "waiting"
  /\ agent' = [agent EXCEPT !.state = "talking"]
  /\ UNCHANGED <<kind, streams, turn, pc, prog, writing, outcome>>

\* A delta; an empty one still counts as a delta in the plain handlers.
OnDelta(n) ==
  /\ IF kind \in ToolKinds
     THEN turn' = [turn EXCEPT !.gotDelta = @ \/ (n > 0 /\ ~turn.gotTool)]
     ELSE turn' = [turn EXCEPT !.gotDelta = TRUE]
  /\ Deliver(IF n > 0 /\ ~turn.gotTool
             THEN <<Write(Text(agent.said + 1, agent.said + n))>> ELSE <<>>)

SayDelta(n) ==
  /\ agent.state = "talking" /\ streams
  /\ agent.said + n <= MaxPieces
  /\ agent' = [agent EXCEPT !.said = @ + n]
  /\ OnDelta(n)

\* Mutant: the whole message is written although its deltas were.
OnStreamMessageAgain(a, b) ==
  Deliver(IF ~turn.gotTool THEN <<Write(Text(a, b))>> ELSE <<>>)

\* Mutant: text is still written once the agent has asked for tools.
OnStreamMessageAfterTool(a, b) ==
  Deliver(IF ~turn.gotDelta THEN <<Write(Text(a, b))>> ELSE <<>>)

\* The whole message, written only when no delta was.
OnStreamMessage(a, b) ==
  Deliver(IF ~turn.gotTool /\ ~turn.gotDelta
          THEN <<Write(Text(a, b))>> ELSE <<>>)

OnMessage(a, b) ==
  IF kind \in JsonKinds
  THEN turn' = [turn EXCEPT !.finalText = <<a, b>>] /\ Deliver(<<>>)
  ELSE OnStreamMessage(a, b) /\ UNCHANGED turn

\* A message event repeats its deltas, or is all there is of the text; it may
\* trail the tool requests of the same message.
Report ==
  /\ agent.state \in {"talking", "calling"}
  /\ LET said == IF streams THEN agent.said ELSE agent.said + 1
     IN /\ agent.reported < said /\ said <= MaxPieces
        /\ agent' = [agent EXCEPT !.said = said, !.reported = said]
        /\ OnMessage(agent.reported + 1, said)

RaiseCall ==
  /\ kind \in ToolKinds
  /\ agent.state \in {"talking", "calling"} /\ turn.events < MaxCalls
  /\ agent' = [agent EXCEPT !.state = "calling"]
  /\ turn' = [turn EXCEPT !.gotTool = TRUE, !.events = @ + 1]
  /\ Deliver(<<Signal("toolCh")>>)

GoIdle ==
  /\ agent.state = "talking" /\ agent.reported = agent.said
  /\ agent' = [agent EXCEPT !.state = "idle"]
  /\ Deliver(OnIdle)
  /\ UNCHANGED turn

AgentStep ==
  \/ AgentStarts
  \/ \E n \in {0, 1} : SayDelta(n)
  \/ Report \/ RaiseCall \/ GoIdle

HangUp ==
  /\ pc # "returned" /\ ~gone
  /\ gone' = TRUE
  /\ UNCHANGED <<kind, streams, agent, turn, pc, prog, writing, wire, records,
                 parked, timedOut>>

Next ==
  \/ \E t \in Threads : ThreadStep(t)
  \/ HandlerStep
  \/ AgentStep
  \/ HangUp

Spec == Init /\ [][Next]_vars

-----------------------------------------------------------------------------
(* Properties *)

Returned == pc = "returned"
Answered == \E i \in DOMAIN wire : IsFinish(wire[i])
Texts == {i \in DOMAIN wire : IsText(wire[i])}
Precedes(A, B) ==
  \E i, j \in DOMAIN wire : i < j /\ wire[i].type \in A /\ wire[j].type \in B

Chunks ==
  {Chunk(t) : t \in ChunkTypes \ {"text", "reply"}}
    \cup {Text(a, b) : a, b \in 0..MaxPieces}
    \cup {Reply(m) : m \in (0..MaxPieces) \X (0..MaxPieces)}

Instructions ==
  {Write(c) : c \in Chunks} \cup {Record(s) : s \in {"success", "error"}}
    \cup {Signal(ch) : ch \in {"toolCh", "over"}} \cup {Park, Return}

\* A thread inside a write has that write at the head of its program, and the
\* counters stay within their bounds.
TypeOK ==
  /\ kind \in Kinds /\ streams \in BOOLEAN
  /\ agent \in [state : {"waiting", "talking", "calling", "idle"},
                said : 0..MaxPieces, reported : 0..MaxPieces]
  /\ turn \in [gotDelta : BOOLEAN, gotTool : BOOLEAN, events : 0..MaxCalls,
               toolCh : BOOLEAN, over : BOOLEAN,
               finalText : (0..MaxPieces) \X (0..MaxPieces)]
  /\ pc \in {"new", "opened", "sending", "waiting", "debounce", "leaving",
             "refusing", "returned"}
  /\ prog \in [Threads -> Seq(Instructions)]
  /\ wire \in Seq(Chunks)
  /\ records \in Seq({"success", "error"})
  /\ parked \in BOOLEAN /\ gone \in BOOLEAN /\ timedOut \in BOOLEAN
  /\ writing \subseteq Threads
  /\ \A t \in writing : prog[t] # <<>> /\ Head(prog[t]).op = "write"

\* A stream that ends in "stop" carries the agent's text whole, in order and
\* once, whether it came in deltas, in a message, or in both (chat.go:277-305);
\* a JSON answer carries the agent's last message.
AnswerWhole ==
  \A k \in DOMAIN wire :
    /\ wire[k].type = "reply" => wire[k].last = agent.said
    /\ wire[k].type = "stop" =>
         /\ UNION {wire[i].first..wire[i].last : i \in Texts} = 1..agent.said
         /\ \A i, j \in Texts : i < j => wire[i].last < wire[j].first

\* The request was counted as an error although the agent had begun: its Send
\* (resolvePending, SendAndWait) failed while events were delivered, or the turn
\* was cut short.
Overrun ==
  agent.state # "waiting" /\ \E i \in DOMAIN records : records[i] = "error"

\* Two goroutines are never inside a write of the response together, but for one
\* case: handleStreaming, which has no lock, writes [DONE] after a failed Send
\* while the callback may be writing (chat.go:347).
OneWriter == (kind = "chat" /\ Overrun) \/ writing # Threads

\* A handler that returned with its client present, in time, and without a failed
\* call, has left no write behind in the callback: the response is not touched
\* after ServeHTTP.
QuietReturn ==
  Returned /\ ~gone /\ ~timedOut /\ ~Overrun =>
    \A i \in DOMAIN prog["callback"] : prog["callback"][i].op # "write"

\* A stream whose client stayed has a [DONE], unless it is a plain one that timed
\* out; it has one only, and ends in it, unless text overtook the handler's after
\* a timeout or a failed call, or (plain) both wrote one.
EndsInDone ==
  Returned /\ ~gone /\ kind \in SSEKinds /\ wire # <<Chunk("refusal")>> =>
    /\ (timedOut /\ kind = "chat") \/ \E i \in DOMAIN wire : wire[i].type = "done"
    /\ (kind = "chat" /\ Overrun) \/ ~Precedes({"done"}, {"done"})
    /\ ~timedOut /\ ~Overrun => wire[Len(wire)].type = "done"

\* A request for JSON whose client is still there is answered, and once: every
\* early return, failed call and timeout writes one body, none writes two.
AnsweredOnce ==
  kind \in JsonKinds =>
    /\ Len(wire) <= 1
    /\ Returned /\ ~gone => wire # <<>>

\* Nothing but the rest of the ending follows a tool call or a finish_reason,
\* and there is one finish_reason.
FinalIsFinal ==
  /\ ~Precedes({"call"}, ChunkTypes \ {"call", "tool_calls", "done"})
  /\ ~Precedes(Finish, ChunkTypes \ {"done"})

\* The client learns a tool_call id only when the session it names is parked,
\* so that even an immediate second turn finds it.
RevealedAreParked ==
  (\E i \in DOMAIN wire : wire[i].type \in {"call", "tool_calls"}) => parked

\* Every request is counted exactly once however it ends, and a turn that ran its
\* course is counted a success exactly when the client was given a finish_reason.
\* Of the plain streams this is said only when the client stayed, the time
\* sufficed and no call failed after the agent had begun.
CountMatchesAnswer ==
  LET cut == gone \/ timedOut
      plain == kind \in {"chat", "ndjson"} IN
  Returned =>
    /\ (plain /\ (cut \/ Overrun)) \/ Len(records) = 1
    /\ cut \/ (plain /\ Overrun) \/ ((records = <<"success">>) <=> Answered)

-----------------------------------------------------------------------------
(* What a comment of the repository says, and the code does not keep.      *)

\* metrics.go:36 calls the counter the total number of chat completion requests:
\* each of them is in it once its handler has returned.
EveryRequestCounted == Returned => records # <<>>

=============================================================================
