----------------------------- MODULE ToolTurns -----------------------------
(***************************************************************************)
(* One Copilot session through the turns of a tool-calling exchange.       *)
(*                                                                         *)
(* The agent on the other side of the session raises tool calls; the       *)
(* session delivers them, in order, to whichever turns are subscribed at   *)
(* that moment.  A turn collects calls until its debounce ends, parks the  *)
(* session with the calls it saw, and answers; the next turn takes the     *)
(* session, subscribes, and resolves the parked calls one RPC at a time.   *)
(* Nobody is subscribed in between.                                        *)
(*                                                                         *)
(* The agent and the event delivery are the SDK's: they are modelled from  *)
(* how the handlers use them.  Turn k parks under token k; who gets which  *)
(* registry entry is the business of ToolSessions.tla.                     *)
(***************************************************************************)
EXTENDS Naturals, Sequences, FiniteSets

CONSTANTS
  Calls,      \* the tool calls the agent may make (SDK RequestIDs): a bound
  MaxTurns    \* HTTP requests of the exchange: a bound

ASSUME TurnsAssumption ==
  /\ MaxTurns \in Nat \ {0}
  /\ Calls \cap {"idle", "empty"} = {}

Turns == 1..MaxTurns

VARIABLES
  prompt,       \* parallel calls all reach the handler within its debounce
  agent,        \* what the agent loop is doing
  asked,        \* calls the agent made
  given,        \* call -> the result it was resolved with; so far
  resolutions,  \* how many times each call was resolved
  queue,        \* session events not delivered yet
  pc,           \* where each turn's handler is
  subscribed,   \* turns whose callback receives events
  events,       \* the tool requests each turn's callback collected
  toolCh,       \* the one-slot signal channel of each turn
  idleCh,       \* whether each turn's idleCh is closed
  gone,         \* turns whose client has hung up
  parked,       \* the turn that parked the session, or 0
  pending,      \* per turn that parked: tool_call index -> call
  revealed,     \* turns whose tool_calls reached the client
  results,      \* per resuming turn: tool_call index -> the client's result
  todo          \* indices resolvePending has yet to resolve

agentVars == <<prompt, agent, asked>>
turnVars == <<pc, gone, parked, pending, revealed, results, todo>>
channels == <<subscribed, events, toolCh, idleCh>>
vars == <<agentVars, given, resolutions, queue, turnVars, channels>>

Empty == [i \in {} |-> "empty"]

Init ==
  /\ prompt \in BOOLEAN
  /\ agent = "off"
  /\ asked = {}
  /\ given = Empty
  /\ resolutions = [c \in Calls |-> 0]
  /\ queue = <<>>
  /\ pc = [k \in Turns |-> "new"]
  /\ subscribed = {}
  /\ events = [k \in Turns |-> <<>>]
  /\ toolCh = [k \in Turns |-> FALSE]
  /\ idleCh = [k \in Turns |-> FALSE]
  /\ gone = {}
  /\ parked = 0
  /\ pending = [k \in Turns |-> Empty]
  /\ revealed = {}
  /\ results = [k \in Turns |-> Empty]
  /\ todo = [k \in Turns |-> {}]

-----------------------------------------------------------------------------
(* The agent loop (external).                                              *)

Unresolved == asked \ DOMAIN given

\* It asks for one more tool call; several may be open at once.
RaiseCall(c) ==
  /\ agent = "running"
  /\ c \notin asked
  /\ asked' = asked \cup {c}
  /\ queue' = Append(queue, c)
  /\ UNCHANGED <<prompt, agent, given, resolutions, turnVars, channels>>

\* It has asked for all it wants now and waits for the results.
AwaitResults ==
  /\ agent = "running"
  /\ Unresolved # {}
  /\ agent' = "blocked"
  /\ UNCHANGED <<prompt, asked, given, resolutions, queue, turnVars, channels>>

\* Every result is in: it goes on.
Continue ==
  /\ agent = "blocked"
  /\ Unresolved = {}
  /\ agent' = "running"
  /\ UNCHANGED <<prompt, asked, given, resolutions, queue, turnVars, channels>>

\* It answers and the session becomes idle.
Finish ==
  /\ agent = "running"
  /\ Unresolved = {}
  /\ agent' = "idle"
  /\ queue' = Append(queue, "idle")
  /\ UNCHANGED <<prompt, asked, given, resolutions, turnVars, channels>>

AgentStep == (\E c \in Calls : RaiseCall(c)) \/ AwaitResults \/ Continue \/ Finish

-----------------------------------------------------------------------------
(* The callback each turn passes to session.On.                            *)

\* Mutant: toolCh has no buffer, so a signal nobody waits for is dropped.
DeliverUnbuffered ==
  LET e == Head(queue) IN
  /\ queue # <<>>
  /\ queue' = Tail(queue)
  /\ IF e = "idle"
     THEN /\ idleCh' = [k \in Turns |-> idleCh[k] \/ k \in subscribed]
          /\ UNCHANGED <<events, toolCh>>
     ELSE /\ events' = [k \in Turns |->
                          IF k \in subscribed THEN Append(events[k], e) ELSE events[k]]
          /\ toolCh' = [k \in Turns |->
                          toolCh[k] \/ (k \in subscribed /\ pc[k] = "waiting")]
          /\ UNCHANGED idleCh
  /\ UNCHANGED <<agentVars, given, resolutions, turnVars, subscribed>>

\* Mutant: the callback collects every event it gets as a tool request.
DeliverUntyped ==
  LET e == Head(queue) IN
  /\ queue # <<>>
  /\ queue' = Tail(queue)
  /\ events' = [k \in Turns |->
                  IF k \in subscribed THEN Append(events[k], e) ELSE events[k]]
  /\ toolCh' = [k \in Turns |-> toolCh[k] \/ k \in subscribed]
  /\ idleCh' = [k \in Turns |-> idleCh[k] \/ (e = "idle" /\ k \in subscribed)]
  /\ UNCHANGED <<agentVars, given, resolutions, turnVars, subscribed>>

\* ExternalToolRequestedData is collected and signalled without blocking,
\* SessionIdleData closes idleCh once.  An event nobody is subscribed to is
\* gone for good.
Deliver ==
  LET e == Head(queue) IN
  /\ queue # <<>>
  /\ queue' = Tail(queue)
  /\ IF e = "idle"
     THEN /\ idleCh' = [k \in Turns |-> idleCh[k] \/ k \in subscribed]
          /\ UNCHANGED <<events, toolCh>>
     ELSE /\ events' = [k \in Turns |->
                          IF k \in subscribed THEN Append(events[k], e) ELSE events[k]]
          /\ toolCh' = [k \in Turns |-> toolCh[k] \/ k \in subscribed]
          /\ UNCHANGED idleCh
  /\ UNCHANGED <<agentVars, given, resolutions, turnVars, subscribed>>

-----------------------------------------------------------------------------
(* Turn 1 up to its select: handleToolEmit*.                               *)

\* The session is created and the callback registered before the prompt goes.
Begin ==
  /\ pc[1] = "new"
  /\ pc' = [pc EXCEPT ![1] = "sending"]
  /\ subscribed' = subscribed \cup {1}
  /\ UNCHANGED <<agentVars, given, resolutions, queue, gone, parked, pending,
                 revealed, results, todo, events, toolCh, idleCh>>

\* The agent gets the prompt; session.Send returns later, or fails.
PromptArrives ==
  /\ pc[1] = "sending"
  /\ agent = "off"
  /\ agent' = "running"
  /\ UNCHANGED <<prompt, asked, given, resolutions, queue, turnVars, channels>>

SendReturns ==
  /\ pc[1] = "sending"
  /\ \/ agent # "off" /\ pc' = [pc EXCEPT ![1] = "waiting"]
     \/ pc' = [pc EXCEPT ![1] = "closing"]
  /\ UNCHANGED <<agentVars, given, resolutions, queue, gone, parked, pending,
                 revealed, results, todo, channels>>

-----------------------------------------------------------------------------
(* Turn 2 and later up to its select: handleToolResume*.                   *)

\* The client ran some of the tools it was asked for and sends what they
\* returned; a result is known by the call it is for.  take() hits.
Take(k) ==
  /\ pc[k] = "new"
  /\ parked = k - 1 /\ parked \in revealed
  /\ \E answered \in SUBSET DOMAIN pending[parked] :
       results' = [results EXCEPT ![k] = [i \in answered |-> pending[parked][i]]]
  /\ parked' = 0
  /\ pc' = [pc EXCEPT ![k] = "taken"]
  /\ UNCHANGED <<agentVars, given, resolutions, queue, gone, pending, revealed,
                 todo, channels>>

\* Mutant: no callback of its own; the one of the turn before would do.
SubscribeNever(k) ==
  /\ pc[k] = "taken"
  /\ pc' = [pc EXCEPT ![k] = "resolving"]
  /\ todo' = [todo EXCEPT ![k] = DOMAIN pending[k - 1]]
  /\ UNCHANGED <<agentVars, given, resolutions, queue, gone, parked, pending,
                 revealed, results, subscribed, events, toolCh, idleCh>>

\* Mutant: the collected requests live with the session and are not reset.
SubscribeKeepsEvents(k) ==
  /\ pc[k] = "taken"
  /\ pc' = [pc EXCEPT ![k] = "resolving"]
  /\ subscribed' = subscribed \cup {k}
  /\ events' = [events EXCEPT ![k] = events[k - 1]]
  /\ todo' = [todo EXCEPT ![k] = DOMAIN pending[k - 1]]
  /\ UNCHANGED <<agentVars, given, resolutions, queue, gone, parked, pending,
                 revealed, results, toolCh, idleCh>>

\* The callback is registered before anything is resolved.
Subscribe(k) ==
  /\ pc[k] = "taken"
  /\ pc' = [pc EXCEPT ![k] = "resolving"]
  /\ subscribed' = subscribed \cup {k}
  /\ todo' = [todo EXCEPT ![k] = DOMAIN pending[k - 1]]
  /\ UNCHANGED <<agentVars, given, resolutions, queue, gone, parked, pending,
                 revealed, results, events, toolCh, idleCh>>

\* Mutant: results are paired with calls from the highest index down.
ResolveSwapped(k, i) ==
  LET c == pending[k - 1][i]
      j == Cardinality(DOMAIN pending[k - 1]) + 1 - i
      v == IF j \in DOMAIN results[k] THEN results[k][j] ELSE "empty"
  IN  /\ pc[k] = "resolving"
      /\ i \in todo[k]
      /\ given' = [d \in DOMAIN given \cup {c} |-> IF d = c THEN v ELSE given[d]]
      /\ resolutions' = [resolutions EXCEPT ![c] = @ + 1]
      /\ todo' = [todo EXCEPT ![k] = @ \ {i}]
      /\ UNCHANGED <<agentVars, queue, pc, gone, parked, pending, revealed,
                     results, channels>>

\* One round of resolvePending's loop, in whatever order the map is walked: a
\* call the client did not answer is resolved with an empty result.
Resolve(k, i) ==
  LET c == pending[k - 1][i]
      v == IF i \in DOMAIN results[k] THEN results[k][i] ELSE "empty"
  IN  /\ pc[k] = "resolving"
      /\ i \in todo[k]
      /\ given' = [d \in DOMAIN given \cup {c} |-> IF d = c THEN v ELSE given[d]]
      /\ resolutions' = [resolutions EXCEPT ![c] = @ + 1]
      /\ todo' = [todo EXCEPT ![k] = @ \ {i}]
      /\ UNCHANGED <<agentVars, queue, pc, gone, parked, pending, revealed,
                     results, channels>>

\* Mutant: the handler returns its 500 and nobody discards the session.
ResolveFailsLeaks(k) ==
  /\ pc[k] = "resolving"
  /\ todo[k] # {}
  /\ pc' = [pc EXCEPT ![k] = "leaving"]
  /\ UNCHANGED <<agentVars, given, resolutions, queue, gone, parked, pending,
                 revealed, results, todo, channels>>

\* A resolution fails: the rest are given up and the session is discarded.
ResolveFails(k) ==
  /\ pc[k] = "resolving"
  /\ todo[k] # {}
  /\ pc' = [pc EXCEPT ![k] = "closing"]
  /\ UNCHANGED <<agentVars, given, resolutions, queue, gone, parked, pending,
                 revealed, results, todo, channels>>

AllResolved(k) ==
  /\ pc[k] = "resolving"
  /\ todo[k] = {}
  /\ pc' = [pc EXCEPT ![k] = "waiting"]
  /\ UNCHANGED <<agentVars, given, resolutions, queue, gone, parked, pending,
                 revealed, results, todo, channels>>

-----------------------------------------------------------------------------
(* The select of every turn, and what follows.                             *)

HangUp(k) ==
  /\ pc[k] \notin {"new", "done"}
  /\ k \notin gone
  /\ gone' = gone \cup {k}
  /\ UNCHANGED <<agentVars, given, resolutions, queue, pc, parked, pending,
                 revealed, results, todo, channels>>

ToolSignal(k) ==
  /\ pc[k] = "waiting"
  /\ toolCh[k]
  /\ toolCh' = [toolCh EXCEPT ![k] = FALSE]
  /\ pc' = [pc EXCEPT ![k] = "debouncing"]
  /\ UNCHANGED <<agentVars, given, resolutions, queue, gone, parked, pending,
                 revealed, results, todo, subscribed, events, idleCh>>

\* collectDebounce: one more signal restarts the timer.
ExtendDebounce(k) ==
  /\ pc[k] = "debouncing"
  /\ toolCh[k]
  /\ toolCh' = [toolCh EXCEPT ![k] = FALSE]
  /\ UNCHANGED <<agentVars, given, resolutions, queue, turnVars, subscribed,
                 events, idleCh>>

\* One index per collected call.
mintToolCalls(evs) == [i \in DOMAIN evs |-> evs[i]]

\* The timer fired, or the client hung up, which ends the debounce at once.
\* The calls seen so far are snapshot, minted and parked with the session.
\* In a prompt run the timer outlasts the agent's burst of parallel calls.
EndDebounce(k) ==
  /\ pc[k] = "debouncing"
  /\ prompt /\ k \notin gone => agent = "blocked" /\ queue = <<>>
  /\ pending' = [pending EXCEPT ![k] = mintToolCalls(events[k])]
  /\ parked' = k
  /\ pc' = [pc EXCEPT ![k] = "answering"]
  /\ UNCHANGED <<agentVars, given, resolutions, queue, gone, revealed, results,
                 todo, channels>>

\* The tool_calls go out, to a client that may have gone.
Answer(k) ==
  /\ pc[k] = "answering"
  /\ revealed' = IF k \in gone THEN revealed ELSE revealed \cup {k}
  /\ pc' = [pc EXCEPT ![k] = "leaving"]
  /\ UNCHANGED <<agentVars, given, resolutions, queue, gone, parked, pending,
                 results, todo, channels>>

\* The handler returns: its deferred unsubscribe runs.
Leave(k) ==
  /\ pc[k] = "leaving"
  /\ subscribed' = subscribed \ {k}
  /\ pc' = [pc EXCEPT ![k] = "done"]
  /\ UNCHANGED <<agentVars, given, resolutions, queue, gone, parked, pending,
                 revealed, results, todo, events, toolCh, idleCh>>

\* idleCh: the turn answers with text.
TextAnswer(k) ==
  /\ pc[k] = "waiting"
  /\ idleCh[k]
  /\ pc' = [pc EXCEPT ![k] = "closing"]
  /\ UNCHANGED <<agentVars, given, resolutions, queue, gone, parked, pending,
                 revealed, results, todo, channels>>

\* ctx.Done, or the five minute timeout: a 504.
GiveUp(k) ==
  /\ pc[k] = "waiting"
  /\ pc' = [pc EXCEPT ![k] = "closing"]
  /\ UNCHANGED <<agentVars, given, resolutions, queue, gone, parked, pending,
                 revealed, results, todo, channels>>

\* The deferred unsubscribe and then Disconnect or discardSession.
Close(k) ==
  /\ pc[k] = "closing"
  /\ subscribed' = subscribed \ {k}
  /\ agent' = "gone"
  /\ pc' = [pc EXCEPT ![k] = "done"]
  /\ UNCHANGED <<prompt, asked, given, resolutions, queue, gone, parked,
                 pending, revealed, results, todo, events, toolCh, idleCh>>

\* Eviction or expiry of the parked session.
LoseParked ==
  /\ parked # 0
  /\ parked' = 0
  /\ agent' = "gone"
  /\ UNCHANGED <<prompt, asked, given, resolutions, queue, pc, gone, pending,
                 revealed, results, todo, channels>>

-----------------------------------------------------------------------------

\* What a handler does when nothing fails and no timer runs out on it.
HandlerStep(k) ==
  \/ Subscribe(k) \/ AllResolved(k)
  \/ \E i \in todo[k] : Resolve(k, i)
  \/ ToolSignal(k) \/ ExtendDebounce(k) \/ EndDebounce(k) \/ Answer(k)
  \/ Leave(k) \/ TextAnswer(k) \/ Close(k)

Next ==
  \/ AgentStep \/ Deliver
  \/ Begin \/ PromptArrives \/ SendReturns
  \/ \E k \in Turns : Take(k) \/ HandlerStep(k) \/ ResolveFails(k)
  \/ \E k \in Turns : HangUp(k) \/ GiveUp(k)
  \/ LoseParked

Spec == Init /\ [][Next]_vars

\* The agent works, events get delivered, handlers run.  Nothing obliges a
\* client to come back, a parked session to be lost or a turn to give up.
FairSpec ==
  /\ Spec
  /\ WF_vars(AgentStep) /\ WF_vars(Deliver)
  /\ \A k \in Turns : WF_vars(HandlerStep(k))

-----------------------------------------------------------------------------

VariablesOK ==
  /\ prompt \in BOOLEAN
  /\ agent \in {"off", "running", "blocked", "idle", "gone"}
  /\ asked \subseteq Calls
  /\ DOMAIN given \subseteq Calls
  /\ \A c \in DOMAIN given : given[c] \in Calls \cup {"empty"}
  /\ resolutions \in [Calls -> Nat]
  /\ queue \in Seq(Calls \cup {"idle"})
  /\ pc \in [Turns -> {"new", "sending", "taken", "resolving", "waiting",
                       "debouncing", "answering", "leaving", "closing", "done"}]
  /\ subscribed \subseteq Turns /\ gone \subseteq Turns /\ revealed \subseteq Turns
  /\ events \in [Turns -> Seq(Calls)]
  /\ toolCh \in [Turns -> BOOLEAN] /\ idleCh \in [Turns -> BOOLEAN]
  /\ parked \in Turns \cup {0}

\* A turn parks calls it collected; the next one gets results for those only,
\* and resolves no other.
MapsOK ==
  \A k \in Turns :
    /\ DOMAIN pending[k] \subseteq DOMAIN events[k]
    /\ \A i \in DOMAIN pending[k] : pending[k][i] \in Calls
    /\ k > 1 => /\ DOMAIN results[k] \subseteq DOMAIN pending[k - 1]
                /\ \A i \in DOMAIN results[k] : results[k][i] \in Calls
                /\ todo[k] \subseteq DOMAIN pending[k - 1]

\* Only calls that were made are resolved.
TypeOK == VariablesOK /\ MapsOK /\ DOMAIN given \subseteq asked

InSeq(e, s) == \E i \in DOMAIN s : s[i] = e
InMap(c, f, I) == \E i \in I : f[i] = c

\* Where an unresolved call can still be reached: on its way to a subscriber,
\* collected by a turn that has not parked yet, parked, or being resolved.
Reachable(c) ==
  \/ InSeq(c, queue)
  \/ \E k \in Turns :
       \/ InSeq(c, events[k]) /\ pc[k] \in {"sending", "resolving", "waiting", "debouncing"}
       \/ parked = k /\ InMap(c, pending[k], DOMAIN pending[k])
       \/ k > 1 /\ pc[k] = "taken" /\ InMap(c, pending[k - 1], DOMAIN pending[k - 1])
       \/ k > 1 /\ pc[k] = "resolving" /\ InMap(c, pending[k - 1], todo[k])

MayGoOn ==
  /\ agent \in {"running", "blocked"}
  /\ gone = {}
  /\ \A k \in Turns : pc[k] # "closing"

\* Whenever the agent's calls come in bursts shorter than the debounce, no call
\* it waits for is out of the server's reach while the exchange can go on.
PromptCallsReachable ==
  prompt /\ MayGoOn => \A c \in Unresolved : Reachable(c)

\* After resolvePending the agent never waits for a call the turn cannot see:
\* "Any pending call the client did not answer is resolved with an empty
\* result so the agent loop does not hang" (chat_resume.go:275-277).
ResumedAgentNotStranded ==
  \A k \in Turns :
    k > 1 /\ pc[k] = "waiting" /\ agent = "blocked" /\ Unresolved # {}
      => \E c \in Unresolved : InSeq(c, queue) \/ InSeq(c, events[k])

\* No tool call is ever resolved twice, although two turns overlap: the first
\* may still be subscribed when the second resolves and collects.
ResolvedOnce == \A c \in Calls : resolutions[c] <= 1

\* A call is resolved with its own result or with the empty one, whatever the
\* order of the pending map and however few results the client sends.
OwnResult == \A c \in DOMAIN given : given[c] \in {c, "empty"}

\* With prompt calls, a turn is brought to an end by the agent: the handlers'
\* signals, flags and subscriptions lose nothing that a timeout must mend.
TurnsEndByThemselves ==
  \A k \in Turns : prompt /\ pc[k] = "waiting" ~> pc[k] # "waiting"

-----------------------------------------------------------------------------
(* The session's life (SessionLifecycle), as its turns see it.             *)

\* The turns that drive the session; its teardown, done or bound to be.
Driving == {k \in Turns : pc[k] \in {"sending", "taken", "resolving", "waiting",
                                     "debouncing"}}
TornDown == agent = "gone" \/ \E k \in Turns : pc[k] = "closing"

\* A session with two drivers, driven while it is parked or torn down, or left
\* by everybody is in no phase of its life.  The teardown of a parked session is
\* one step here, so that "closed" is not told from "retiring".
PhaseNow ==
  IF pc[1] = "new" THEN "unborn"
  ELSE CASE (\E k \in Turns : Driving = {k}) /\ parked = 0 /\ ~TornDown -> "serving"
         [] Driving = {} /\ parked # 0 /\ ~TornDown                    -> "parked"
         [] Driving = {} /\ parked = 0 /\ TornDown                     -> "retiring"
         [] OTHER                                                     -> "astray"

Lifecycle == INSTANCE SessionLifecycle
               WITH Sessions <- {"session"}, MaxParked <- 1,
                    phase <- [s \in {"session"} |-> PhaseNow]

\* Through overlapping callbacks, hang-ups, failed resolutions and lost entries
\* the session has one driver at a time, is parked between two, and once it is
\* torn down is neither driven nor parked again.
ImplementsLifecycle == Lifecycle!LifecycleSpec

=============================================================================
