---------------------------- MODULE ToolSessions ----------------------------
(***************************************************************************)
(* The lifetime of the Copilot sessions that carry OpenAI tool calls.      *)
(*                                                                         *)
(* A turn-1 request (internal/handler/chat_tools.go) opens a session; when *)
(* the model asks for tools the handler parks the live session in the      *)
(* ToolSessionRegistry (parking.go) under a fresh random token and answers *)
(* with tool_call IDs that embed the token.  A turn-2 request              *)
(* (chat_resume.go) takes the session back out with that token, serves it, *)
(* and may park it again.  Parked sessions nobody comes back for are       *)
(* evicted when the registry is full, refused and torn down when a late    *)
(* client asks for them, or swept by the background collector.             *)
(*                                                                         *)
(* The registry's methods each run under its mutex, so each is one atomic  *)
(* step; every teardown happens after the unlock, so it is a step of its   *)
(* own and anything can happen in between.                                 *)
(***************************************************************************)
EXTENDS Naturals, FiniteSets

CONSTANTS
  Requests,    \* handler goroutines; each serves HTTP requests one by one
  Sessions,    \* Copilot sessions the runs may open: a bound, see Open
  Tokens,      \* parking tokens the runs may mint: a bound, see Store
  Hanging,     \* sessions whose Disconnect may never return, see Fairness
  MaxParked,   \* ToolSessionRegistry.maxParked
  TTL,         \* ToolSessionRegistry.ttl, in clock ticks
  NoSession,   \* a nil *copilot.Session
  NoToken      \* no token minted in this turn yet

\* NewToolSessionRegistry replaces a non-positive cap or TTL by its default.
ASSUME RegistryAssumption ==
  /\ MaxParked \in Nat \ {0}
  /\ TTL \in Nat \ {0}
  /\ IsFiniteSet(Tokens)
  /\ Hanging \subseteq Sessions
  /\ NoSession \notin Sessions
  /\ NoToken \notin Tokens

VARIABLES
  entries,     \* the registry: token -> [session, createdAt]
  now,         \* the clock createdAt is read from
  status,      \* what each Copilot session is: "unborn", "live" or "closed"
  pc,          \* where each handler is
  held,        \* the session a handler's deferred cleanup would tear down
  evictee,     \* the session store() pushed out for this handler
  token,       \* the token a handler minted this turn
  sweeping,    \* sessions the collector removed and has yet to tear down
  reaping,     \* sessions take() found expired, each with its own goroutine
  minted,      \* every token ever minted
  revealed     \* tokens some client has received

vars == <<entries, now, status, pc, held, evictee, token, sweeping, reaping,
          minted, revealed>>

Entry == [session : Sessions, createdAt : Nat]

IsRegistry(e) == e \in [DOMAIN e -> Entry]

PCs == {"idle", "sending", "resolving", "waiting", "evicting", "answering",
        "closing"}

Init ==
  /\ entries = [t \in {} |-> NoSession]
  /\ now = 0
  /\ status = [s \in Sessions |-> "unborn"]
  /\ pc = [r \in Requests |-> "idle"]
  /\ held = [r \in Requests |-> NoSession]
  /\ evictee = [r \in Requests |-> NoSession]
  /\ token = [r \in Requests |-> NoToken]
  /\ sweeping = {}
  /\ reaping = {}
  /\ minted = {}
  /\ revealed = {}

-----------------------------------------------------------------------------
(* The registry's own vocabulary.                                          *)

Expired(t) == now - entries[t].createdAt > TTL

\* Mutant: the comparison turned round, so the newest entry is evicted.
OldestInverted(t) ==
  /\ t \in DOMAIN entries
  /\ \A u \in DOMAIN entries : entries[t].createdAt >= entries[u].createdAt

\* evictOldestLocked: which of several equally old entries goes is up to
\* Go's map iteration order.
Oldest(t) ==
  /\ t \in DOMAIN entries
  /\ \A u \in DOMAIN entries : entries[t].createdAt <= entries[u].createdAt

Remove(T) == [t \in DOMAIN entries \ T |-> entries[t]]

\* Mutant: the entry is filled in without its session.
InsertNil(kept, tok, s) ==
  [t \in DOMAIN kept \cup {tok} |->
     IF t = tok THEN [session |-> NoSession, createdAt |-> now] ELSE kept[t]]

Insert(kept, tok, s) ==
  [t \in DOMAIN kept \cup {tok} |->
     IF t = tok THEN [session |-> s, createdAt |-> now] ELSE kept[t]]

-----------------------------------------------------------------------------
(* Turn 1: handleToolEmitNonStreaming and handleToolEmitStreaming.         *)

\* createSession succeeded; the handler's deferred Disconnect now covers s.
Open(r, s) ==
  /\ pc[r] = "idle"
  /\ status[s] = "unborn"
  /\ status' = [status EXCEPT ![s] = "live"]
  /\ held' = [held EXCEPT ![r] = s]
  /\ pc' = [pc EXCEPT ![r] = "sending"]
  /\ UNCHANGED <<entries, now, evictee, token, sweeping, reaping, minted,
                 revealed>>

\* session.Send returned: with an error the handler answers 500 and leaves.
SendReturns(r) ==
  /\ pc[r] = "sending"
  /\ \E next \in {"waiting", "closing"} : pc' = [pc EXCEPT ![r] = next]
  /\ UNCHANGED <<entries, now, status, held, evictee, token, sweeping,
                 reaping, minted, revealed>>

-----------------------------------------------------------------------------
(* Turn 2: takeParkedSession and then handleToolResume*.                   *)

\* Mutant: take() looks the entry up and forgets to delete it.
TakeLivePeek(r, t) ==
  /\ pc[r] = "idle"
  /\ t \in DOMAIN entries
  /\ ~Expired(t)
  /\ held' = [held EXCEPT ![r] = entries[t].session]
  /\ pc' = [pc EXCEPT ![r] = "resolving"]
  /\ UNCHANGED <<entries, now, status, evictee, token, sweeping, reaping, minted,
                 revealed>>

\* take() hit: the entry is gone from the registry and the handler owns the
\* session, which its deferred discardSession covers from here on.
TakeLive(r, t) ==
  /\ pc[r] = "idle"
  /\ t \in DOMAIN entries
  /\ ~Expired(t)
  /\ entries' = Remove({t})
  /\ held' = [held EXCEPT ![r] = entries[t].session]
  /\ pc' = [pc EXCEPT ![r] = "resolving"]
  /\ UNCHANGED <<now, status, evictee, token, sweeping, reaping, minted,
                 revealed>>

\* Mutant: the expired entry is dropped and nobody discards its session.
TakeExpiredLeak(r, t) ==
  /\ pc[r] = "idle"
  /\ t \in DOMAIN entries
  /\ Expired(t)
  /\ entries' = Remove({t})
  /\ UNCHANGED <<now, status, pc, held, evictee, token, sweeping, reaping, minted,
                 revealed>>

\* take() found the entry too old: it is removed, a new goroutine tears the
\* session down, and the client is told 409.
TakeExpired(r, t) ==
  /\ pc[r] = "idle"
  /\ t \in DOMAIN entries
  /\ Expired(t)
  /\ entries' = Remove({t})
  /\ reaping' = reaping \cup {entries[t].session}
  /\ UNCHANGED <<now, status, pc, held, evictee, token, sweeping, minted,
                 revealed>>

\* A client can only name a token it was sent.
Take(r, t) ==
  /\ t \in revealed
  /\ TakeLive(r, t) \/ TakeExpired(r, t)

\* resolvePending returned (or the response cannot be streamed): with an
\* error the handler answers 500 and leaves.
ResolveReturns(r) ==
  /\ pc[r] = "resolving"
  /\ \E next \in {"waiting", "closing"} : pc' = [pc EXCEPT ![r] = next]
  /\ UNCHANGED <<entries, now, status, held, evictee, token, sweeping,
                 reaping, minted, revealed>>

-----------------------------------------------------------------------------
(* Both turns: the select on toolCh, idleCh, ctx.Done and the timeout.     *)

\* Mutant: `parked = true` is missing, so the deferred Disconnect still runs.
StoreKeepsHeld(r, tok) ==
  /\ pc[r] = "waiting"
  /\ tok \notin minted
  /\ \/ /\ Cardinality(DOMAIN entries) < MaxParked
        /\ entries' = Insert(entries, tok, held[r])
        /\ pc' = [pc EXCEPT ![r] = "answering"]
        /\ UNCHANGED evictee
     \/ /\ Cardinality(DOMAIN entries) >= MaxParked
        /\ \E old \in DOMAIN entries :
             /\ Oldest(old)
             /\ entries' = Insert(Remove({old}), tok, held[r])
             /\ evictee' = [evictee EXCEPT ![r] = entries[old].session]
        /\ pc' = [pc EXCEPT ![r] = "evicting"]
  /\ UNCHANGED held
  /\ token' = [token EXCEPT ![r] = tok]
  /\ minted' = minted \cup {tok}
  /\ UNCHANGED <<now, status, sweeping, reaping, revealed>>

\* Mutant: the cap is compared with > instead of >=.
StoreOverCap(r, tok) ==
  /\ pc[r] = "waiting"
  /\ tok \notin minted
  /\ \/ /\ Cardinality(DOMAIN entries) <= MaxParked
        /\ entries' = Insert(entries, tok, held[r])
        /\ pc' = [pc EXCEPT ![r] = "answering"]
        /\ UNCHANGED evictee
     \/ /\ Cardinality(DOMAIN entries) > MaxParked
        /\ \E old \in DOMAIN entries :
             /\ Oldest(old)
             /\ entries' = Insert(Remove({old}), tok, held[r])
             /\ evictee' = [evictee EXCEPT ![r] = entries[old].session]
        /\ pc' = [pc EXCEPT ![r] = "evicting"]
  /\ held' = [held EXCEPT ![r] = NoSession]
  /\ token' = [token EXCEPT ![r] = tok]
  /\ minted' = minted \cup {tok}
  /\ UNCHANGED <<now, status, sweeping, reaping, revealed>>

\* toolCh fired and the debounce is over: store() parks the session under a
\* fresh token.  A full registry loses its oldest entry under the same lock,
\* and the handler itself must tear that session down after the unlock.
Store(r, tok) ==
  /\ pc[r] = "waiting"
  /\ tok \notin minted
  /\ \/ /\ Cardinality(DOMAIN entries) < MaxParked
        /\ entries' = Insert(entries, tok, held[r])
        /\ pc' = [pc EXCEPT ![r] = "answering"]
        /\ UNCHANGED evictee
     \/ /\ Cardinality(DOMAIN entries) >= MaxParked
        /\ \E old \in DOMAIN entries :
             /\ Oldest(old)
             /\ entries' = Insert(Remove({old}), tok, held[r])
             /\ evictee' = [evictee EXCEPT ![r] = entries[old].session]
        /\ pc' = [pc EXCEPT ![r] = "evicting"]
  /\ held' = [held EXCEPT ![r] = NoSession]
  /\ token' = [token EXCEPT ![r] = tok]
  /\ minted' = minted \cup {tok}
  /\ UNCHANGED <<now, status, sweeping, reaping, revealed>>

\* Mutant: the evicted session is forgotten instead of torn down.
DiscardEvicteeLeak(r) ==
  /\ pc[r] = "evicting"
  /\ evictee' = [evictee EXCEPT ![r] = NoSession]
  /\ pc' = [pc EXCEPT ![r] = "answering"]
  /\ UNCHANGED <<entries, now, status, held, token, sweeping, reaping, minted,
                 revealed>>

\* store()'s discardSession of the evicted session, after the unlock.
DiscardEvictee(r) ==
  /\ pc[r] = "evicting"
  /\ status' = [status EXCEPT ![evictee[r]] = "closed"]
  /\ evictee' = [evictee EXCEPT ![r] = NoSession]
  /\ pc' = [pc EXCEPT ![r] = "answering"]
  /\ UNCHANGED <<entries, now, held, token, sweeping, reaping, minted,
                 revealed>>

\* The tool_calls answer is written.  A client that has gone away meanwhile
\* (collectDebounce also ends on ctx.Done) never learns the token.
AnswerToolCalls(r) ==
  /\ pc[r] = "answering"
  /\ revealed' \in {revealed, revealed \cup {token[r]}}
  /\ token' = [token EXCEPT ![r] = NoToken]
  /\ pc' = [pc EXCEPT ![r] = "idle"]
  /\ UNCHANGED <<entries, now, status, held, evictee, sweeping, reaping,
                 minted>>

\* Mutant: the select sits in a loop that its timeout branch does not leave.
EndTurnLoops(r) ==
  /\ pc[r] = "waiting"
  /\ UNCHANGED vars

\* idleCh, ctx.Done or the five minute timeout: the turn is over and the
\* deferred cleanup will run.
EndTurn(r) ==
  /\ pc[r] = "waiting"
  /\ pc' = [pc EXCEPT ![r] = "closing"]
  /\ UNCHANGED <<entries, now, status, held, evictee, token, sweeping,
                 reaping, minted, revealed>>

\* The deferred Disconnect (turn 1) or discardSession (turn 2).
CloseHeld(r) ==
  /\ pc[r] = "closing"
  /\ status' = [status EXCEPT ![held[r]] = "closed"]
  /\ held' = [held EXCEPT ![r] = NoSession]
  /\ pc' = [pc EXCEPT ![r] = "idle"]
  /\ UNCHANGED <<entries, now, evictee, token, sweeping, reaping, minted,
                 revealed>>

\* Every answer that touches neither the registry nor a session: a 400, a
\* failed createSession, and the 409 of a token that is not parked here.
Refuse(r) ==
  /\ pc[r] = "idle"
  /\ UNCHANGED vars

-----------------------------------------------------------------------------
(* The collector, the expiry goroutines and the clock.                     *)

\* sweep() under the lock.  The collector is one goroutine: the next tick is
\* served only after every session of the last sweep is torn down.
Sweep ==
  LET old == {t \in DOMAIN entries : Expired(t)} IN
  /\ sweeping = {}
  /\ old # {}
  /\ sweeping' = {entries[t].session : t \in old}
  /\ entries' = Remove(old)
  /\ UNCHANGED <<now, status, pc, held, evictee, token, reaping, minted,
                 revealed>>

\* sweep() after the unlock, one discardSession at a time.
DiscardSwept(s) ==
  /\ s \in sweeping
  /\ sweeping' = sweeping \ {s}
  /\ status' = [status EXCEPT ![s] = "closed"]
  /\ UNCHANGED <<entries, now, pc, held, evictee, token, reaping, minted,
                 revealed>>

\* The goroutine take() started for an expired session.
DiscardExpired(s) ==
  /\ s \in reaping
  /\ reaping' = reaping \ {s}
  /\ status' = [status EXCEPT ![s] = "closed"]
  /\ UNCHANGED <<entries, now, pc, held, evictee, token, sweeping, minted,
                 revealed>>

\* Only createdAt reads the clock, so it need only move while an entry that
\* has not expired is parked; that bounds it by Tokens and TTL.
Tick ==
  /\ \E t \in DOMAIN entries : ~Expired(t)
  /\ now' = now + 1
  /\ UNCHANGED <<entries, status, pc, held, evictee, token, sweeping,
                 reaping, minted, revealed>>

-----------------------------------------------------------------------------

\* What handler r does on its own once the SDK has answered it.
Proceed(r) ==
  \/ \E tok \in Tokens : Store(r, tok)
  \/ AnswerToolCalls(r) \/ EndTurn(r)

\* What it calls on a session it is rid of: Abort and Disconnect.
TearDown(r) == DiscardEvictee(r) \/ CloseHeld(r)

\* Requests that come in, and SDK calls that return.
Arrive(r) ==
  \/ \E s \in Sessions : Open(r, s)
  \/ \E t \in Tokens : Take(r, t)
  \/ Refuse(r)
  \/ SendReturns(r) \/ ResolveReturns(r)

Next ==
  \/ \E r \in Requests : Arrive(r) \/ Proceed(r) \/ TearDown(r)
  \/ Sweep
  \/ \E s \in Sessions : DiscardSwept(s) \/ DiscardExpired(s)
  \/ Tick

\* The teardown that handler r is in may not return.
Hung(r) ==
  \/ pc[r] = "evicting" /\ evictee[r] \in Hanging
  \/ pc[r] = "closing" /\ held[r] \in Hanging

\* A waiting turn has a five minute timer, an answer the server's WriteTimeout, the
\* collector a ticker, and the clock moves.  Abort has its ten seconds, but neither
\* discardSession nor the deferred Disconnect gives Disconnect a deadline: that of a
\* session in Hanging may never return, and holds up who waits for it, the collector
\* with all that it has yet to tear down.  Nothing is assumed of clients, nor of
\* session.Send and HandlePendingToolCall, which have no deadline either.
Fairness ==
  /\ \A r \in Requests :
       WF_vars(Proceed(r)) /\ WF_vars(~Hung(r) /\ TearDown(r))
  /\ WF_vars(Sweep)
  /\ \A s \in Sessions : WF_vars(sweeping \cap Hanging = {} /\ DiscardSwept(s))
  /\ \A s \in Sessions \ Hanging : WF_vars(DiscardExpired(s))
  /\ WF_vars(Tick)

Spec == Init /\ [][Next]_vars

FairSpec == Spec /\ Fairness

-----------------------------------------------------------------------------
(* Safety.                                                                 *)

\* Every variable holds a value of its Go type: an entry always carries a
\* session (store never parks nil) and a session is torn down at most by the
\* owners the code names.
TypeOK ==
  /\ DOMAIN entries \subseteq Tokens
  /\ IsRegistry(entries)
  /\ now \in Nat
  /\ status \in [Sessions -> {"unborn", "live", "closed"}]
  /\ pc \in [Requests -> PCs]
  /\ held \in [Requests -> Sessions \cup {NoSession}]
  /\ evictee \in [Requests -> Sessions \cup {NoSession}]
  /\ token \in [Requests -> Tokens \cup {NoToken}]
  /\ sweeping \in SUBSET Sessions
  /\ reaping \in SUBSET Sessions
  /\ minted \in SUBSET Tokens
  /\ revealed \in SUBSET Tokens

Parked(s) == \E t \in DOMAIN entries : entries[t].session = s
Held(s) == \E r \in Requests : held[r] = s
Evicted(s) == \E r \in Requests : evictee[r] = s

\* The five places a session's teardown can be owed from.
Owned(s) ==
  Parked(s) \/ Held(s) \/ Evicted(s) \/ s \in sweeping \/ s \in reaping

\* No two of them ever own one session: two turn-2 retries racing for a
\* token, a late turn-2 racing the collector, or an eviction racing a claim
\* never both come away with it, so no turn is cut short by another's
\* teardown and none is torn down twice.
OwnedOnce ==
  /\ \A t, u \in DOMAIN entries :
       entries[t].session = entries[u].session => t = u
  /\ \A q, r \in Requests :
       /\ held[q] = held[r] /\ held[r] \in Sessions => q = r
       /\ evictee[q] = evictee[r] /\ evictee[r] \in Sessions => q = r
  /\ \A s \in Sessions :
       /\ Parked(s) => ~Held(s) /\ ~Evicted(s) /\ s \notin sweeping \cup reaping
       /\ Held(s) => ~Evicted(s) /\ s \notin sweeping \cup reaping
       /\ Evicted(s) => s \notin sweeping \cup reaping
       /\ s \notin sweeping \cap reaping

\* A session is live exactly while some owner is still bound to tear it down:
\* no early return of either turn, no eviction and no expiry leaks a Copilot
\* session, and no turn is ever handed one that is already disconnected.
LiveIffOwned == \A s \in Sessions : status[s] = "live" <=> Owned(s)

\* The registry never holds more than maxParked sessions ("enforces a maximum
\* number of concurrently parked sessions", parking.go:28-31).
CapRespected == Cardinality(DOMAIN entries) <= MaxParked

\* A parked session whose TTL has not run out leaves the registry in two ways
\* only: a turn claims it, or it is the oldest of a full registry.  So a
\* client that comes back in time is refused only under that pressure.
NoEarlyDeparture ==
  [][\A t \in DOMAIN entries \ DOMAIN entries' :
       \/ Expired(t)
       \/ \E r \in Requests : held[r] = NoSession /\ held'[r] = entries[t].session
       \/ /\ \A u \in DOMAIN entries : entries[t].createdAt <= entries[u].createdAt
          /\ Cardinality(DOMAIN entries) = MaxParked
          /\ \E r \in Requests : evictee'[r] = entries[t].session]_vars

-----------------------------------------------------------------------------
(* Refinement: the registry and the handlers keep SessionLifecycle.        *)

PhaseOf(s) ==
  CASE status[s] = "unborn" -> "unborn"
    [] status[s] = "closed" -> "closed"
    [] Parked(s) -> "parked"
    [] \/ Evicted(s) \/ s \in sweeping \cup reaping
       \/ \E r \in Requests : held[r] = s /\ pc[r] = "closing" -> "retiring"
    [] OTHER -> "serving"

Lifecycle == INSTANCE SessionLifecycle
               WITH phase <- [s \in Sessions |-> PhaseOf(s)]

\* Every session goes through the phases of SessionLifecycle, one turn at a
\* time: nothing that has begun to be torn down is parked or served again.
ImplementsLifecycle == Lifecycle!LifecycleSpec

-----------------------------------------------------------------------------
(* Liveness, under FairSpec.                                               *)

\* The collector is stuck for good in the teardown of a session it swept.
CollectorHangs == <>[](sweeping \cap Hanging # {})

\* No parked session waits for ever for a client that does not come back, and once
\* its teardown is decided a session is disconnected, by whomever the code leaves
\* it to: whatever hangs elsewhere, unless it is the collector it waits for.
NoSessionLingers ==
  /\ CollectorHangs \/ \A t \in Tokens : t \in DOMAIN entries ~> t \notin DOMAIN entries
  /\ \A s \in Sessions \ Hanging :
       /\ PhaseOf(s) = "retiring" /\ s \notin sweeping ~> status[s] = "closed"
       /\ CollectorHangs \/ (s \in sweeping ~> status[s] = "closed")

\* A turn whose SDK call has returned is answered and over, unless the teardown it
\* ends in, of its own session or of the one it evicted, hangs for good.
TurnsEnd ==
  \A r \in Requests :
    \/ <>[]Hung(r)
    \/ pc[r] \notin {"idle", "sending", "resolving"} ~> pc[r] = "idle"

=============================================================================
