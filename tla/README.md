# Verification of ghcp-sdk-oai-wrapper

The program is an HTTP server that speaks the OpenAI chat-completions protocol
(or, in another mode, Ollama's) and answers every request with a session of the
GitHub Copilot SDK.  A request that declares tools may end with the model asking
for tool calls.  The server then *parks* the live session in a registry, encodes
the registry key in the `tool_call` IDs it sends, and continues the same session
when a later request brings the results.  This directory holds TLA+ models of
that program, TLC runs over small instances, and TLAPS proofs.

## 1. The system

| Component | State it keeps | Operations | What makes it correct |
|---|---|---|---|
| Tool-session registry, `internal/handler/parking.go` | `entries`: token -> (session, createdAt, pending calls) under one mutex | `store` (evicts the oldest at the cap), `take` (drops expired entries), `sweep` every TTL/2 (at least a minute), `discardSession` outside the lock | one owner per session, no leak, cap, nobody pushed out before its time |
| Tool turn 1, `chat_tools.go` | per request: the session, collected events, `toolCh`, `idleCh`, `parked` flag | create session, subscribe, send, select, debounce, mint, store, answer | every call the agent makes can be answered; parked before revealed |
| Tool turn 2, `chat_resume.go` | per request: the claimed entry, the same locals, `reparked` flag | claim, subscribe, resolve each pending call, then as turn 1 | each call resolved once, with its own result; session re-parked or closed |
| Routing and IDs, `chat.go`, `tools.go`, `parking.go` | none: everything is read off the message history | `hasToolResults`, `tokenFromMessages`, `mintToolCalls`, `resultsByToolCallID` | a client reaches its own session and no other |
| Plain chat and Ollama handlers, `chat.go`, `internal/ollama` | per request: session, `gotDelta`, `done` | one session per request; JSON, SSE or NDJSON answer | the answer is whole, in order, terminated, counted |
| Writers, `oai/sse.go`, `ollama/ndjson.go` | the response | one chunk at a time, `[DONE]` | one writer at a time, none after the handler returned |
| Metrics, `internal/metrics` | counters | `RecordCompletion`, middleware | a request is counted once, as it ended |
| Client wrapper, `internal/copilot` | SDK client, a mutex around `ListModels` | create session, resolve pending tool, list models | no call blocks the others for ever |
| Server process, `cmd/server` | HTTP server, registry, CLI process | start, listen, shut down | nothing accepted or left behind by a shutdown; what runs ends or is cut at the deadline |
| Auth, configuration, routes, health | none | decisions on a header, a path, the environment | nobody past the key, nobody refused who faces none; settings the registry can use |
| Model listing, `handler/models.go`, `ollama/models.go` | a place in the queue for the client's mutex | list | a listing waits only for one that the CLI keeps |

How they interact: the HTTP server runs one goroutine per request; the SDK
delivers the events of a session, one at a time, on a goroutine of its own, into
callbacks that share variables, channels and (when streaming) the response with
the handler.  The registry is shared by all handlers, by the collector's
goroutine and by the goroutines that tear expired sessions down.  The only link
between two turns of an exchange is the token in the client's message history.

What is hard: races for one registry entry; teardowns that happen after an
unlock, in deferred functions guarded by flags, or in goroutines of their own;
events that arrive while nobody is subscribed; a debounce that guesses when the
parallel calls are complete; callbacks that outlive their handler; requests cut
short by hang-ups and timeouts; histories that hold more than the newest
exchange.  PROJECT.json lists these hazards at their lines, with the properties
that watch them.

## 2. The modules

`SessionLifecycle` is the abstract specification: a session is unborn, serving
one turn, parked (at most `MaxParked` at a time), retiring or closed, and only
moves forward except for serving <-> parked.  It has no handlers, tokens or clock.
Two modules implement it, each seeing what the other leaves out: `ToolSessions` has
all sessions, the registry and its races, `ToolTurns` one session with its agent,
events and overlapping callbacks.

`ToolSessions` is the registry with everybody who touches it.  One action is one
atomic region of the code: a critical section of the registry's mutex, or a step
outside it.  `Store` is `store` under the lock; the evictee it picked is closed in
`DiscardEvictee`, after the unlock, as in the code.  `TakeLive`/`TakeExpired` are
`take`'s branches, the second leaving a goroutine in `reaping`; `Sweep` moves
every expired entry to `sweeping`, `DiscardSwept` closes one.  A handler is a
program counter `pc[r]` with the session it holds (`held`): `CloseHeld` stands for
the deferred `Disconnect`/`discardSession`.  `status[s]` is ground truth: whether
the SDK session has been disconnected.  A `Disconnect` has no deadline: the one of a
session in the constant `Hanging` may never return, and then holds up the handler
(`Hung`) or the collector that called it.  Streaming and non-streaming twins have
the same actions, since they differ in what they write only.

`Conversation` looks at the other link, the history.  Clients ask questions, run
the tools they are asked for, and send either their whole history or the latest
exchange (`Trimmers`); some begin with a tool exchange held with another provider,
whose IDs decode to no token.  `hasToolResults` and `tokenFromMessages` are
operators on message sequences; a request is one step.

`ToolTurns` follows one session through several turns: the agent raises calls
one after the other or in parallel, the SDK queues and delivers them to whoever
is subscribed, the turn collects, debounces, mints, parks and answers, the next
one takes, subscribes and resolves one RPC at a time, any of which may fail.  The
old turn may still be subscribed while the new one runs.  Calls are named by their
SDK request ID; a tool_call ID is a pair (turn, index), which is what
`mintToolCalls` encodes.

`Answers` is one response.  Handler and callback are each a *program*, a sequence
of instructions (write a chunk, record a status, signal, park, return) executed
one atomic step at a time, with a write taking two steps.  The seven kinds of
handlers differ in their programs: of the streaming ones, `chat` and `ndjson`
write the ending from the callback without a lock, `emit` and `resume` from the
handler under `wmu`; the JSON ones write one body from the handler.  Before it
opens, a request can be refused (`Refuse`: unreadable attachments, a 409) or get no
session (`OpenFails`).  The call that starts the agent can fail before the agent
begins, while it talks, and after it is through (`SendFails`): the RPC's answer may
be lost when its effect is not.

`Requests` holds the pure algorithms on the way in: the two JSON forms of a
message content, its text, image and file parts, the prompt and system message,
data URIs and attachments, and `ChatCompletions`' checks and routes.  A request is
written message by message and part by part, then sent in an envelope (is it a
POST, is its body whole, does it name a model and declare tools) and handled in one
step, so a run goes through every bounded request.  `Handled` refuses it, resumes a
parked session, which reads neither prompt nor attachments, or starts a session.  The properties compare the outcome with what
it should be, read off the request without the code's loops.

`Gateway` holds the decisions that need no state: `Load` and `ApplyFlags` with
their defaults, what `NewToolSessionRegistry` and `StartGC` make of the settings,
the routes and exempt paths of the two modes, `Auth`, `normalizePath`.  Strings
are the values the code tells apart; durations are seconds.

`Server` is the process.  `phase` is where `main` is, `listener` where the
goroutine of `ListenAndServe` is, `pc[c]` where the request of connection `c` is:
read and counted into the gauge (`Arrive`), past auth, mux and the first checks
(`Dispatch`), waiting for or holding `copilot.Client.mu` (`Lock`, `ListFails`,
`ListReturns`), in a turn, counted (`Count`), out of the gauge (`Leave`).  A turn
is opaque here: the modules above say what happens in it, and all that `Server`
needs is that it may take longer than `Shutdown` waits.  `ListenAndServe` looks
for a shutdown twice, before it binds (`Listen`) and when `Serve` registers the
bound listener (`Bound`); both are in net/http and modelled from its contract.
`Exit` ends every goroutine at once, from any of four places.

`MCToolSessions` and `MCConversation` add the symmetry sets, `MCServer` the
environments and requests; the other modules are run as they are.  The proofs are
in `ToolSessions_proofs`, `ToolSessions_refinement`, `ToolTurns_proofs`,
`Conversation_proofs`, `Answers_proofs`, `Requests_proofs` and `Server_proofs`;
`Flattening` holds the lemmas about sequences that `Requests_proofs` rests on.

External to the repository, and modelled from how the handlers use it: the SDK's
event delivery (in order, one at a time, a callback under way survives
`unsubscribe`), the agent loop, the clients.  The map marks these definitions.

## 3. The runs

| Run | Instance | What it shows |
|---|---|---|
| `sessions_safety` | 3 requests, 3 sessions, 4 tokens, cap 2, TTL 1 | `OwnedOnce`, `LiveIffOwned`: no session is shared, leaked, or closed under a turn. `CapRespected`. `NoEarlyDeparture`: an entry leaves by a claim, by expiry, or as the oldest of a full registry |
| `sessions_live` | 2 requests, 2 sessions of which one's `Disconnect` may hang, 3 tokens, cap 1, TTL 1, `FairSpec` | `ImplementsLifecycle` (refinement); `NoSessionLingers`: unless the collector hangs for good parked sessions leave, and whatever hangs elsewhere the retiring ones that can be closed are; `TurnsEnd`: a turn whose SDK call has returned ends, unless it is itself stuck in a `Disconnect` |
| `conversations` | one trimming and one faithful client, 3 tokens, histories up to 8 messages | clients that send the latest exchange are always served, every client is in its first exchange, and a session is resumed by its own conversation only |
| `conversation_multistep` | one faithful client | violation, see 6 |
| `conversation_followup` | one faithful client | violation, see 6 |
| `turns` | 2 calls, 3 turns, `FairSpec` | `ResolvedOnce`, `OwnResult`; `PromptCallsReachable` and `TurnsEndByThemselves`: with calls inside the debounce no signal, flag or subscription is lost; `ImplementsLifecycle`: the session has one driver at a time and none after its teardown began (refinement) |
| `turns_late_call` | 2 calls, 2 turns | violation, see 6 |
| `answers` | 2 pieces of text, 2 calls, all seven kinds, with and without deltas | streams: `AnswerWhole` (the chunks of text cover the pieces 1 to the last one said, in order and without overlap), `OneWriter`, `QuietReturn`, `EndsInDone`, `FinalIsFinal`; JSON: `AnsweredOnce`; all: `RevealedAreParked`, `CountMatchesAnswer`.  Where a call that failed after the agent began (`Overrun`) breaks one of these, the property names that case |
| `answers_uncounted` | 1 piece, 1 call | violation, see 6 |
| `requests` | 2 messages of four roles, 2 parts, 24 different parts, 16 envelopes | `RefusedIffUndeliverable` (405 and 400, each exactly when), `EveryInlinePartAttached`, `ConversationKept`, `ContentRoundTrips` |
| `server` | 2 connections of one request each, 4 environments, 10 requests, `FairSpec` | `KeyDecides`, `GaugeExact`, `CountedAsAnswered` over both modes and every way a request ends; `NoAcceptWhileDraining`, `OrderlyExit`, `ShutdownReachesStop` with a signal at any time; `QueueMoves`: a listing waits for ever only behind one the CLI keeps; `ProbesUnblocked`: health checks and metrics wait for nobody; `SettingsUsable` |
| `server_probes` | the same | violation, see 6 |

Bounds.  Three requests are a claimant, a rival for the same token and a third
turn that stores over the cap; with a cap of 2 and three sessions eviction, claim
and expiry can all meet, and four tokens let a session be parked again after its
first token was consumed.  Time matters through the comparison with the TTL only,
so TTL 1 gives fresh, old and expired entries; the clock moves only while an entry
could still expire, which bounds it.  Eight messages hold two exchanges of two
steps; two calls are the least that can be parallel or chained, three turns the
least with a re-park that is resumed.  Two pieces of text distinguish a
duplicated, a lost and a reordered one.  Two messages are alone or tagged, system
or not; two parts order an image against a file and one message against another.
The envelopes are all combinations of the four things `ChatCompletions` asks of a
request besides its messages.  Tokens
are never reused: a token is 128 random bits, and its time-stamp fallback is dead
code (with the Go version of go.mod, `crypto/rand.Read` does not return errors).
Two connections are a listing that hangs and one that queues behind it, or a
request that runs while a shutdown waits and one that arrives; the gauge and the
counter only add up single requests.  The four environments take every branch of
the configuration (unset, unparsable, zero, negative, upper case, overridden by a
flag) and both modes with and without a key; the ten requests take every outcome
of auth, mux and method check in each mode.

Fairness.  In `ToolSessions` a waiting turn has its five minute timer, an answer the
server's `WriteTimeout`, the collector its ticker, and the clock moves.  A teardown
is two calls: `Abort` has its ten seconds (parking.go:167), `Disconnect` has no
deadline (parking.go:172, chat_tools.go:60, 180).  So a teardown is fair only for
sessions that are not in `Hanging`, and the collector's only while no session of
`Hanging` is among those it has swept, since it tears them down one by one;
`NoSessionLingers` and `TurnsEnd` say what is still owed then.  Nothing is
assumed of clients, nor of `session.Send` and `HandlePendingToolCall`: the
streaming handlers and `resolvePending` call them with no deadline, so a turn in
one of these calls may stay there, and `TurnsEnd` excludes it.  In `ToolTurns` the
agent works, events are delivered and handlers run; giving up, hanging up,
eviction and the client's next turn have no fairness, so `TurnsEndByThemselves`
is not owed to a timeout.  In `Server` the handlers run, a call to the CLI whose
context is cancelled returns, and `Shutdown` has its timer.  Nothing is assumed of
clients, of the CLI (a listing may never be answered), of `client.Stop`, or of how
long a turn takes; so `QueueMoves` excuses a listing that the CLI keeps and whose
client stays, and `ShutdownReachesStop` says nothing of what comes after.

`CHECK_DEADLOCK FALSE` is set where the exchange (or the response) simply ends.

Every property of a passing run has a mutant in PROJECT.json: a definition next to
the original, with the kind of bug the code could have (a flag not set, a `>` for
`>=`, a missing delete, a lock left out), under which the run fails.

## 4. The proofs

`ToolSessions_proofs` proves, for every set of requests, sessions and tokens,
every cap and TTL that meets the named assumptions of `ToolSessions`:

* `TypeCorrect`: `[]TypeOK`, from `WellFormed`, which adds `HandlerOK` (which
  locals a handler has at which `pc`) and `ParkedMinted` (tokens in the registry
  were minted).  `TypeOK` alone does not carry the next proof: `Store` needs to
  know that a waiting handler holds a session and that its fresh token is not
  parked.
* `OwnershipCorrect` and `LiveCorrect`: `[]OwnedOnce` and `[]LiveIffOwned`.  The
  two are inductive together on top of `WellFormed`, not apart: that a session
  handed over has no second owner needs the first, that an unborn session has no
  owner at all needs the second.  `OwnershipStep` has one case per action.
* `CapCorrect`: `[]CapRespected`, through the cardinality of the registry after
  an insertion and a removal (`EntryFacts`, `RemoveFacts`, `InsertFacts`).
* `DepartureCorrect`: the action property `NoEarlyDeparture`, from `WellFormed`
  and `CapRespected`.

`ToolSessions_refinement` proves `Refinement`, `Spec => ImplementsLifecycle`: with
`status`, `held`, `entries` and the teardowns mapped to a phase per session
(`PhaseOf`), every step of the registry is a step of `SessionLifecycle` or leaves
the phases alone.  It rests on the theorems above (`StateOK`).  That a session has
one owner makes the cases of `PhaseOf` exclusive (`PhasesDistinct`), so a step
changes the phase of the sessions it touches and of no other; the abstract cap,
which counts sessions, follows from the concrete one, which counts tokens, because
no session is parked under two (`ParkedCount`).  `TeardownCloses`,
`RemovalExpires`, `StoreParks` and `LeavingRetires` are about one abstract move
each; `Store` at the cap is two at once, the parked session and the evicted one,
and a sweep moves any number.

`ToolTurns_proofs` proves, for any number of calls and turns:

* `TypeCorrect`, `ResolvedOnceCorrect`, `OwnResultCorrect`: `[]TypeOK`,
  `[]ResolvedOnce`, `[]OwnResult`.  Inductive is what places every call:
  `TurnByTurn` (a turn begins when the one before has parked, and what it will
  fill is empty until then), `Collected` (a call waits in the queue or has been
  delivered, once per turn; no turn collects what an earlier one parked) and
  `Settled` (a call is resolved once the next turn has gone past it in the pending
  map).  Two callbacks of one session may be subscribed together, so `ResolvedOnce`
  cannot be had from "a call is collected once", which is false: it is that the
  later turn resolves only what the earlier one parked.
* `ReachableCorrect`: `[]PromptCallsReachable`.  It needs `Signalled` (no debounce
  without a collected call) and `Quiet` (between two turns nothing is under way),
  which is where the hypothesis `prompt` enters.
* `Refinement`: `Spec => ImplementsLifecycle`, for one session and the phase
  `PhaseNow`.  That phase is "astray" when two turns drive the session, when one
  drives it while it is parked or torn down, and when nobody has it: `PhaseFacts`
  excludes all of these, from the order of the turns and from `Somewhere` (whoever
  stops driving parks the session or tears it down; a session that is gone is
  neither parked nor driven), which `SomewhereStep` shows inductive.  Then the phase
  is a function of `pc` and `parked`, and `LifecycleStep` needs one case per way they
  change.

`Conversation_proofs` proves, for every set of clients and tokens and histories of
any length: `TypeCorrect`; `OwedCorrect`, `[]ConflictsAreOwed`; and `OwnerCorrect`,
the action property `ResumedByItsOwner`.  The invariant says of each client that
every token in its history was minted and, while parked, is parked for that client
(`TokensKnown`), and that a history ends with the open exchange (`Ending`).
`tokenFromMessages` chooses the first tool message that decodes: `FirstIsLeast` and
`LastIsGreatest` (from the well-foundedness of `<`) say what such choices give, and
for the latest exchange, or the only one, that is the open exchange's token.

`Answers_proofs` proves every invariant of its run, for every kind of handler, any
amount of text and any number of calls.  A step takes the first instruction off a
program (`Pop`) or loads one into an idle thread: the handler goes on or leaves
(`Enter`, `Leave`), the agent speaks or raises an event (`Speak`, `Raise`); `Moves`
reduces `Next` to these, with what each program consists of established once
(`ErrorMarkedFacts` to `ToolAnswerFacts`, `OnIdleFacts`).  The invariant
`Answering` is about the instructions not yet executed:

* `Whereabouts` (`TypeCorrect`): which programs there can be at each `pc` and for
  what the agent has done.
* `Apart` and `LeftFor`: in a plain stream the handler writes only before the
  agent has begun, unless its call failed, and why a handler left.  They give
  `WriterCorrect` (`OneWriter`) and `QuietCorrect` (`QuietReturn`).  A handler whose
  call failed is `Blamed` from the moment it leaves, before anything is recorded;
  `Troubled` is that with an agent that has begun, and `TroubleShows` turns it, at
  the return, into the `Overrun` that the properties speak of.
* `TurnedAway`: a refused request never began, so its one chunk is the refusal.
* `ParkedFirst` (`ParkedCorrect`): a call on the wire or in the program is behind
  the `Park`.  `OneBody` (`AnsweredCorrect`): a body is due or written.
* `Showing` and `Ordered` (`FinalCorrect`): no chunk, on the wire or in either
  program, can come after one that closes it off, however the programs interleave
  (`Neat`), where a cut or a failed call leaves `Slack` for what the code does not
  order.  With `DoneComes` this gives `EndingCorrect` (`EndsInDone`).
* `Counted` and `Matched` (`CountCorrect`): the record is made or due once, and a
  success is made or due exactly when a finish_reason is; in a plain stream as long
  as there is no such trouble.
* `Sayings`, `Telling`, `Told`, `Replied` (`WholeCorrect`, `AnswerWhole`): a piece
  of text is on the wire or in the one chunk the callback has yet to write, which
  continues it; a "stop" is written when no such chunk is left, which is
  `Ordered`'s business.  `gotDelta` is exactly the memory needed to write a message
  event or not.

`Requests_proofs` proves every invariant of its run, for any number of messages and
parts.  Inductive is `IInv`: the request is one that can be written
(`WrittenStep`), and the outcome, once there is one, is what `Handled` says of it
in its envelope (`HandledIs`).
The rest is about `Handled`:

* `RoundTripCorrect` (`ContentRoundTrips`): a content that can be read has parts or a
  text and not both (`ContentIs`), which is what makes the choice of form in
  `MarshalJSON` lose nothing (`ReadsBack`).
* `ConversationCorrect` (`ConversationKept`): `buildPrompt` and
  `extractSystemMessage` select messages, `TextContent` selects parts; what is
  selected stands at its rank (`SelectRanks`), so every message is found, once and
  in order, with what it says (`SaysIs`).
* `RefusedCorrect` (`RefusedIffUndeliverable`): a part gives an error exactly if it
  is bad (`PartGives`, over every form of part and URI), an error is among what
  is collected exactly if some part gave one (`ErrorsAre`), and the checks before
  are those of the envelope, in their order.
* `AttachedCorrect` (`EveryInlinePartAttached`): the blobs of a message are those of
  its images and then of its files (`RowPlaced`), those of a request those of its
  messages (`AllPlaced`); `Before` is total on the parts that give one
  (`BeforeTotal`), so the place of a blob is the number of parts before it plus one.

`Flattening` says where a loop that appends puts things, for sequences of any
length.  The library defines `FlattenSeq` by recursion; that the recursive function
satisfies its equations is proved here (`FlattenExists`, `FlattenSteps`) by taking
the least number for which it would fail (`LeastNumber`, from the well-foundedness
of `<`), which is induction over a set and needs no operator as a parameter.  The
results are stated as a function `w` from what went in to the index where it came
out, onto the indices and increasing (`FlattenPlaces`, `FilterPlaces`, `LoopPlaces`,
`JoinPlaces` for one loop after another, `NestedPlaces` for a loop in a loop);
`CountPlaces` turns such a `w` into cardinalities and ranks.  `Requests` writes its
loops with `Each` and `Only`, over `FlattenSeq`, so that these lemmas apply.

`Server_proofs` proves, for every finite set of connections, every environment and
every set of requests that meet `ServerAssumption`:

* `TypeCorrect` and `GaugeCorrect`: `[]TypeOK` and `[]GaugeExact`.  Inductive is
  `WellFormed`, the two together with `RequestOK` (what is known of a request at each `pc`): that
  the gauge stays a natural number under `Dec` follows from its being the number
  of metered requests, one of which is leaving (`GaugeDec`), and a request may
  leave the gauge only if it was one that entered it, which `RequestOK` says.
* `KeyCorrect`: `[]KeyDecides`.  It rests on two lemmas about the decisions of
  `Gateway`, in both modes: no exempt path reaches a session or the model list
  (`ExemptHarmless`), and what `Auth` refuses has no key and asks for no metrics
  (`RefusedIsKeyed`); `KeylessKept` says that what a request lacks stays so.
* `ExitCorrect` and `ShutdownCorrect`: `[]OrderlyExit` speaks of the end only, so
  it is strengthened by `Draining` to the states before it: the listener is shut
  while connections drain, nobody is cut off before the exit, and `main` stops the
  CLI with the connections drained or the deadline passed.  `NoAcceptWhileDraining`
  is an action property of the same invariant.
* `CountCorrect`: `[]CountedAsAnswered`, the cardinality of the set of counted
  requests before and after `Count`, the only step that adds one.
* `SettingsCorrect`: `[]SettingsUsable`, from what the environment is and from
  `NewToolSessionRegistry`'s and `StartGC`'s own corrections.

Assumed of the constants is only what the modules' named assumptions say (finite
sets of connections, positive caps, bounds that are natural numbers); the bounds
of the runs are no hypotheses of the theorems.

Only model-checked: the liveness properties (`NoSessionLingers`, `TurnsEnd`,
`TurnsEndByThemselves`, `ShutdownReachesStop`, `QueueMoves`, `ProbesUnblocked`),
which under fairness are out of the prover's reach; and the five violations, which are counterexamples.
Every invariant, action property and refinement that a run checks is also a theorem.

## 5. What is not modelled, and why

Left out of `Gateway` and `Server`: `sanitizeModel` and the method label and
durations of the metrics; `LOG_LEVEL`, the CLI's path and the GitHub token, which
are passed on unread; keep-alive (a connection carries one request: a second one
is another connection, except that it would let a client outlive the listener,
which `Shutdown` treats like an idle connection); a client's hang-up outside a
listing, which is `ToolTurns`' and `Answers`' subject; the stream flag's default
in Ollama's requests and their sampling options, which no handler reads; the
session's configuration record and `toolsToSDK`, which copy data.
Not planned: the base64 and JSON forms of IDs and bodies (a token is a value that
decodes to itself or to nothing), log lines, HTTP headers, the Helm chart and the
workflows.  `NewSSEWriter` and `NewNDJSONWriter` cannot fail in the server, whose
metrics middleware passes them a `Flusher`, so their error paths are left out of
`Answers` (in `ToolSessions` they are covered by the failing step).

Noted while modelling, without a run: README.md:283-285 and
`.github/copilot-instructions.md` describe every request as served by a fresh
session, which tool turn 2 is not; a `Send` that fails after the NDJSON header
leaves a 200 with no line in it; when `Send` fails in a plain stream although the
agent runs, the handler counts an error (chat.go:346) and the callback, still
subscribed, a success (chat.go:319), so one request is in the counter twice; after
that failure, or in a tool turn after a failed call or the timeout, text of the
callback can follow the `[DONE]` the handler wrote (chat.go:347, chat_tools.go:250
and 283, chat_resume.go:219 and 252; these two and a write that outlives its handler
are what `Overrun` excepts in `Answers`' properties); the `Disconnect` of a swept
session has no deadline, and one that does not return stops the only collector, so
that what expires later stays parked until it is claimed or evicted (parking.go:172;
what `CollectorHangs` excepts in `NoSessionLingers`); a resume drops whatever images and files its
request carries, unread; a foreign tool_call ID of the form `call_x_y` would decode
to a token that is not parked (in `Conversation` foreign IDs decode to none, which
routes to the same 409); a content part of an
unknown type (say `input_audio`), or without its object, is dropped in silence;
`copilot_image_attachments_total` (metrics.go:47, "Total number of image
attachments processed.") counts every attachment, documents too (chat.go:156);
`sanitizeModel` "limits the model label to prevent unbounded cardinality"
(metrics.go:62) but keeps any name of up to 64 bytes that starts with `gpt-` or
another known prefix; in Ollama's mode every unknown path, with any method, is
answered 200 by `Root`.

## 6. Disagreements found

* `conversation_multistep`: `tokenFromMessages` (parking.go:256) takes the first
  tool message that decodes, so a client that resends its history is refused with
  409 in the second step of a chained exchange, though its session is parked.
* `conversation_followup`: one old tool result anywhere in the history routes a
  new question to resume (chat.go:63), where it is refused with 409.
* `turns_late_call`: a parallel call that arrives after the debounce
  (chat_tools.go:104) is in no pending map; the resumed agent loop waits for it
  until the turn times out.
* `answers_uncounted`: cancelled and timed-out streams (chat.go:355 and the Ollama
  twins) are in no completion counter.
* `server_probes`: in Ollama's mode `/healthz` is neither routed nor exempt
  (main.go:71-78), so with an API key the health check of the image
  (Dockerfile:35-36) and the chart's probes are answered 401.

## 7. Plan

1. Done: `SessionLifecycle`, `ToolSessions`, its proofs; `Conversation`;
   `ToolTurns`; `Answers`; `Requests` (contents, prompt, attachments).
2. Done: `Gateway` and `Server` (process life cycle, shutdown, model listing,
   middleware, routes, configuration).
3. If a state space allows: a composition of `Conversation`'s histories with the
   races of `ToolSessions` (retries of one turn 2, a restart between turns).
4. Done: the proofs about `ToolSessions` with its refinement, `ToolTurns`,
   `Conversation`, `Answers`, `Requests` and `Server`: every invariant, action
   property and refinement of the runs is a theorem.
5. Left: a composition as in 3.
