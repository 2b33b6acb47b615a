----------------------- MODULE ToolSessions_refinement -----------------------
(***************************************************************************)
(* ToolSessions implements SessionLifecycle, for every number of handlers, *)
(* sessions and tokens, every cap and every TTL: the initial states map to *)
(* the initial one, and every step of the code to one step of a session's  *)
(* life or to none.                                                        *)
(***************************************************************************)
EXTENDS ToolSessions_proofs

\* A turn has the session and has not begun to leave.
Serving(s) ==
  \E r \in Requests : held[r] = s /\ pc[r] \in {"sending", "resolving", "waiting"}

\* Somebody is bound to tear the session down, and nothing else.
Retiring(s) ==
  \/ Evicted(s) \/ s \in sweeping \cup reaping
  \/ \E r \in Requests : held[r] = s /\ pc[r] = "closing"

StateOK == WellFormed /\ Ownership /\ CapRespected

-----------------------------------------------------------------------------
(* The phases of the mapping.                                              *)

\* A phase says where the session is: with a turn, in the registry, or with
\* one that tears it down.
PhasesDistinct ==
  \A s \in Sessions :
    /\ PhaseOf(s) \in {"unborn", "serving", "parked", "retiring", "closed"}
    /\ PhaseOf(s) = "unborn" <=> status[s] = "unborn"
    /\ PhaseOf(s) = "closed" <=> status[s] = "closed"
    /\ PhaseOf(s) = "parked" <=> Parked(s)
    /\ PhaseOf(s) = "retiring" <=> Retiring(s)
    /\ PhaseOf(s) = "serving" <=> Serving(s)

\* The phases exclude one another only because a session has one owner.
LEMMA PhaseFacts == StateOK => PhasesDistinct
<1> SUFFICES ASSUME StateOK, NEW s \in Sessions
             PROVE  /\ PhaseOf(s) \in {"unborn", "serving", "parked", "retiring", "closed"}
                    /\ PhaseOf(s) = "unborn" <=> status[s] = "unborn"
                    /\ PhaseOf(s) = "closed" <=> status[s] = "closed"
                    /\ PhaseOf(s) = "parked" <=> Parked(s)
                    /\ PhaseOf(s) = "retiring" <=> Retiring(s)
                    /\ PhaseOf(s) = "serving" <=> Serving(s)
  BY DEF PhasesDistinct
<1>1. /\ status[s] \in {"unborn", "live", "closed"}
      /\ status[s] = "live" <=> Owned(s)
  BY DEF StateOK, WellFormed, TypeOK, Ownership, LiveIffOwned
<1>2. Held(s) <=> Serving(s) \/ \E r \in Requests : held[r] = s /\ pc[r] = "closing"
  BY DEF StateOK, WellFormed, HandlerOK, Held, Serving
<1>3. /\ Parked(s) => ~Held(s) /\ ~Evicted(s) /\ s \notin sweeping \cup reaping
      /\ Held(s) => ~Evicted(s) /\ s \notin sweeping \cup reaping
  BY DEF StateOK, Ownership, OwnedOnce
<1>4. Serving(s) => ~Retiring(s)
  BY <1>2, <1>3 DEF StateOK, Ownership, OwnedOnce, Serving, Retiring
<1>5. Owned(s) <=> Parked(s) \/ Serving(s) \/ Retiring(s)
  BY <1>2 DEF Owned, Retiring
<1>6. Parked(s) => ~Serving(s) /\ ~Retiring(s)
  BY <1>2, <1>3 DEF Retiring
<1>7. PhaseOf(s) = CASE status[s] = "unborn" -> "unborn"
                     [] status[s] = "closed" -> "closed"
                     [] Parked(s) -> "parked"
                     [] Retiring(s) -> "retiring"
                     [] OTHER -> "serving"
  BY DEF PhaseOf, Retiring
<1> QED
  BY <1>1, <1>4, <1>5, <1>6, <1>7


\* So it does in the next state.
LEMMA PhaseFactsNext == StateOK' => PhasesDistinct'
BY PhaseFacts, PTL

\* A session that no step of its owners has touched keeps its phase.
LEMMA PhaseKept ==
  ASSUME StateOK, StateOK', NEW s \in Sessions,
         status'[s] = status[s], Parked(s)' <=> Parked(s),
         Retiring(s)' <=> Retiring(s)
  PROVE  PhaseOf(s)' = PhaseOf(s)
BY PhaseFacts, PhaseFactsNext DEF PhasesDistinct

-----------------------------------------------------------------------------
(* The registry.                                                           *)

\* Removing entries unparks their sessions and no other.
LEMMA RemoveUnparks ==
  ASSUME StateOK, NEW T, entries' = Remove(T)
  PROVE  \A s \in Sessions :
           Parked(s)' <=> /\ Parked(s)
                          /\ s \notin {entries[t].session : t \in T \cap DOMAIN entries}
<1>1. /\ DOMAIN entries' = DOMAIN entries \ T
      /\ \A t \in DOMAIN entries \ T : entries'[t] = entries[t]
  BY RemoveFacts DEF StateOK, WellFormed, TypeOK
<1>2. \A t, u \in DOMAIN entries : entries[t].session = entries[u].session => t = u
  BY DEF StateOK, Ownership, OwnedOnce
<1> QED
  BY <1>1, <1>2 DEF Parked

\* Storing parks the session next to those that are kept.
LEMMA InsertParks ==
  ASSUME StateOK, NEW kept, IsRegistry(kept), NEW tok, tok \notin DOMAIN kept,
         NEW x \in Sessions, entries' = Insert(kept, tok, x)
  PROVE  \A s \in Sessions :
           Parked(s)' <=> s = x \/ \E t \in DOMAIN kept : kept[t].session = s
<1> DEFINE new == Insert(kept, tok, x)
<1>1. now \in Nat
  BY DEF StateOK, WellFormed, TypeOK
<1>2. /\ DOMAIN new = DOMAIN kept \cup {tok}
      /\ \A t \in DOMAIN kept : new[t] = kept[t]
  BY <1>1, InsertFacts
<1>3. new[tok].session = x
  BY DEF Insert
<1>4. entries' = new
  OBVIOUS
<1> HIDE DEF new
<1> QED
  BY <1>2, <1>3, <1>4 DEF Parked

\* Both modules mean the same by the cardinality of a set.
LEMMA SameCardinality == \A S : Lifecycle!Cardinality(S) = Cardinality(S)
BY DEF Lifecycle!Cardinality, Cardinality

\* The cap counts the same in both: one entry is one parked session.
LEMMA ParkedCount ==
  ASSUME StateOK
  PROVE  Lifecycle!Cardinality(Lifecycle!ParkedNow) = Cardinality(DOMAIN entries)
<1> DEFINE f == [t \in DOMAIN entries |-> entries[t].session]
<1>1. IsFiniteSet(DOMAIN entries)
  BY RegistryAssumption, FS_Subset DEF StateOK, WellFormed, TypeOK
<1>2. Lifecycle!ParkedNow = {s \in Sessions : Parked(s)}
  BY PhaseFacts DEF PhasesDistinct, Lifecycle!ParkedNow
<1>3. \A t \in DOMAIN entries : entries[t].session \in Sessions
  BY EntryFacts DEF StateOK, WellFormed, TypeOK
<1>4. f \in Bijection(DOMAIN entries, Lifecycle!ParkedNow)
  <2>1. \A t, u \in DOMAIN entries : f[t] = f[u] => t = u
    BY DEF StateOK, Ownership, OwnedOnce
  <2>2. f \in [DOMAIN entries -> Lifecycle!ParkedNow]
    BY <1>2, <1>3 DEF Parked
  <2>3. \A s \in Lifecycle!ParkedNow : \E t \in DOMAIN entries : f[t] = s
    BY <1>2 DEF Parked
  <2> QED
    BY <2>1, <2>2, <2>3 DEF Bijection, Injection, Surjection, IsInjective
<1> QED
  BY <1>1, <1>4, FS_Bijection, SameCardinality DEF ExistsBijection

-----------------------------------------------------------------------------
(* Steps.                                                                  *)

\* What SessionLifecycle's variable stands for.
phaseBar == [s \in Sessions |-> PhaseOf(s)]

\* The steps of SessionLifecycle that move one session.
LEMMA OneMoves ==
  ASSUME NEW x \in Sessions, NEW p,
         \A s \in Sessions \ {x} : PhaseOf(s)' = PhaseOf(s), PhaseOf(x)' = p
  PROVE  phaseBar' = [phaseBar EXCEPT ![x] = p]
BY DEF phaseBar

\* A handler that holds a session does not share it.
LEMMA HeldOnce ==
  ASSUME StateOK, NEW r \in Requests, held[r] \in Sessions
  PROVE  /\ \A q \in Requests \ {r} : held[q] # held[r]
         /\ ~Parked(held[r]) /\ ~Evicted(held[r])
         /\ held[r] \notin sweeping \cup reaping
BY DEF StateOK, Ownership, OwnedOnce, Held

\* A handler begins to leave with its session: Retire.
LEMMA LeavingRetires ==
  ASSUME StateOK, StateOK', NEW r \in Requests,
         pc[r] \in {"sending", "resolving", "waiting"},
         pc' = [pc EXCEPT ![r] = "closing"],
         UNCHANGED <<entries, status, held, evictee, sweeping, reaping>>
  PROVE  \E s \in Sessions : Lifecycle!Retire(s)
<1>0. PICK x \in Sessions : x = held[r]
  BY DEF StateOK, WellFormed, HandlerOK
<1>1. pc \in [Requests -> PCs]
  BY DEF StateOK, WellFormed, TypeOK
<1>2. PhaseOf(x) = "serving"
  BY <1>0, PhaseFacts DEF PhasesDistinct, Serving
<1>3. PhaseOf(x)' = "retiring"
  BY <1>0, <1>1, PhaseFactsNext DEF PhasesDistinct, Retiring
<1>4. ASSUME NEW s \in Sessions \ {x} PROVE PhaseOf(s)' = PhaseOf(s)
  BY <1>0, <1>1, PhaseKept DEF Retiring, Parked, Evicted
<1> QED
  BY <1>2, <1>3, <1>4, OneMoves DEF phaseBar, Lifecycle!Retire

\* A teardown disconnects the session it was owed for: Close.
LEMMA TeardownCloses ==
  ASSUME StateOK, StateOK', NEW x \in Sessions, Retiring(x),
         status' = [status EXCEPT ![x] = "closed"], UNCHANGED entries,
         \A s \in Sessions \ {x} : Retiring(s)' <=> Retiring(s)
  PROVE  Lifecycle!Close(x)
<1>1. status \in [Sessions -> {"unborn", "live", "closed"}]
  BY DEF StateOK, WellFormed, TypeOK
<1>2. PhaseOf(x) = "retiring"
  BY PhaseFacts DEF PhasesDistinct
<1>3. PhaseOf(x)' = "closed"
  BY <1>1, PhaseFactsNext DEF PhasesDistinct
<1>4. ASSUME NEW s \in Sessions \ {x} PROVE PhaseOf(s)' = PhaseOf(s)
  BY <1>1, PhaseKept DEF Parked
<1> QED
  BY <1>2, <1>3, <1>4, OneMoves DEF phaseBar, Lifecycle!Close

\* Entries that leave the registry to be torn down: Expire.
LEMMA RemovalExpires ==
  ASSUME StateOK, StateOK', NEW T \in SUBSET DOMAIN entries, T # {},
         entries' = Remove(T), UNCHANGED status,
         \A s \in Sessions :
           Retiring(s)' <=> Retiring(s) \/ s \in {entries[t].session : t \in T}
  PROVE  \E S \in SUBSET Sessions : Lifecycle!Expire(S)
<1> DEFINE S == {entries[t].session : t \in T}
<1>1. S \in SUBSET Sessions /\ S # {}
  BY EntryFacts DEF StateOK, WellFormed, TypeOK
<1>2. \A s \in S : Parked(s)
  BY DEF Parked
<1>3. S \subseteq Lifecycle!ParkedNow
  BY <1>1, <1>2, PhaseFacts DEF PhasesDistinct, Lifecycle!ParkedNow
<1>4. \A s \in Sessions : Parked(s)' <=> Parked(s) /\ s \notin S
  BY RemoveUnparks
<1> HIDE DEF S
<1>5. ASSUME NEW s \in Sessions \ S PROVE PhaseOf(s)' = PhaseOf(s)
  <2>1. Retiring(s)' <=> Retiring(s)
    BY DEF S
  <2> QED
    BY <1>4, <2>1, PhaseKept
<1>6. ASSUME NEW s \in S PROVE PhaseOf(s)' = "retiring"
  BY <1>1, PhaseFactsNext DEF S, PhasesDistinct
<1>7. phaseBar' = [s \in Sessions |-> IF s \in S THEN "retiring" ELSE phaseBar[s]]
  BY <1>5, <1>6 DEF phaseBar
<1> QED
  BY <1>1, <1>3, <1>7 DEF phaseBar, Lifecycle!Expire

\* store(): Park with room, ParkEvicting without; which of the two is settled
\* by the number of entries, that is of parked sessions.
LEMMA StoreParks ==
  ASSUME StateOK, StateOK', NEW r \in Requests, NEW tok \in Tokens, Store(r, tok)
  PROVE  \E s \in Sessions :
           Lifecycle!Park(s) \/ \E v \in Sessions : Lifecycle!ParkEvicting(s, v)
<1>0. PICK x \in Sessions : x = held[r]
  BY DEF Store, StateOK, WellFormed, HandlerOK
<1>1. /\ tok \notin DOMAIN entries
      /\ IsRegistry(entries)
      /\ evictee \in [Requests -> Sessions \cup {NoSession}]
      /\ held \in [Requests -> Sessions \cup {NoSession}]
      /\ pc \in [Requests -> PCs]
      /\ evictee[r] \notin Sessions
      /\ UNCHANGED <<status, sweeping, reaping>>
  BY DEF Store, StateOK, WellFormed, TypeOK, HandlerOK, ParkedMinted
<1>2. PhaseOf(x) = "serving"
  BY <1>0, PhaseFacts DEF Store, PhasesDistinct, Serving
<1>3. Cardinality(DOMAIN entries) \in Nat /\ Cardinality(DOMAIN entries) <= MaxParked
  BY RegistryAssumption, FS_Subset, FS_CardinalityType
     DEF StateOK, WellFormed, TypeOK, CapRespected
<1>4. \A q \in Requests :
        /\ q # r => held'[q] = held[q] /\ pc'[q] = pc[q]
        /\ q = r => held'[q] \notin Sessions /\ pc[q] # "closing" /\ pc'[q] # "closing"
  BY <1>1, RegistryAssumption DEF Store
<1>5. CASE /\ Cardinality(DOMAIN entries) < MaxParked
           /\ entries' = Insert(entries, tok, x)
           /\ UNCHANGED evictee
  <2>1. \A s \in Sessions : Parked(s)' <=> s = x \/ Parked(s)
    BY <1>1, <1>5, InsertParks DEF Parked
  <2>2. ASSUME NEW s \in Sessions \ {x} PROVE PhaseOf(s)' = PhaseOf(s)
    <3>1. Retiring(s)' <=> Retiring(s)
      BY <1>0, <1>1, <1>4, <1>5 DEF Retiring, Evicted
    <3> QED
      BY <1>1, <2>1, <3>1, PhaseKept
  <2>3. PhaseOf(x)' = "parked"
    BY <1>1, <2>1, PhaseFactsNext DEF PhasesDistinct
  <2>4. phaseBar' = [phaseBar EXCEPT ![x] = "parked"]
    BY <2>2, <2>3, OneMoves
  <2>5. Lifecycle!Park(x)
    BY <1>2, <1>5, <2>4, ParkedCount DEF phaseBar, Lifecycle!Park
  <2> QED
    BY <2>5
<1>6. ASSUME NEW old \in DOMAIN entries,
             Cardinality(DOMAIN entries) >= MaxParked,
             entries' = Insert(Remove({old}), tok, x),
             evictee' = [evictee EXCEPT ![r] = entries[old].session]
      PROVE  \E v \in Sessions : Lifecycle!ParkEvicting(x, v)
  <2>0. PICK y \in Sessions : y = entries[old].session
    BY <1>1, EntryFacts
  <2> DEFINE kept == Remove({old})
  <2>1. /\ DOMAIN kept = DOMAIN entries \ {old} /\ IsRegistry(kept)
        /\ \A t \in DOMAIN kept : kept[t] = entries[t]
        /\ Parked(y) /\ y # x
    BY <1>0, <1>1, <2>0, RemoveFacts, HeldOnce DEF Parked
  <2>2. \A t, u \in DOMAIN entries : entries[t].session = entries[u].session => t = u
    BY DEF StateOK, Ownership, OwnedOnce
  <2> HIDE DEF kept
  <2>3. \A s \in Sessions :
          Parked(s)' <=> s = x \/ \E t \in DOMAIN kept : kept[t].session = s
    BY <1>1, <1>6, <2>1, InsertParks DEF kept
  <2>4. \A s \in Sessions : Parked(s)' <=> s = x \/ (Parked(s) /\ s # y)
    BY <2>0, <2>1, <2>2, <2>3 DEF Parked
  <2>5. \A s \in Sessions : Evicted(s)' <=> Evicted(s) \/ s = y
    BY <1>1, <1>6, <2>0 DEF Evicted
  <2>6. ASSUME NEW s \in Sessions \ {x, y} PROVE PhaseOf(s)' = PhaseOf(s)
    <3>1. Retiring(s)' <=> Retiring(s)
      BY <1>0, <1>1, <1>4, <2>5 DEF Retiring
    <3> QED
      BY <1>1, <2>4, <3>1, PhaseKept
  <2>7. PhaseOf(x)' = "parked" /\ PhaseOf(y)' = "retiring" /\ PhaseOf(y) = "parked"
    BY <1>1, <2>1, <2>4, <2>5, PhaseFacts, PhaseFactsNext DEF PhasesDistinct, Retiring
  <2>8. phaseBar' = [phaseBar EXCEPT ![x] = "parked", ![y] = "retiring"]
    BY <1>1, <2>1, <2>6, <2>7 DEF phaseBar
  <2>9. Cardinality(DOMAIN entries) = MaxParked
    BY <1>3, <1>6, RegistryAssumption
  <2>10. Lifecycle!ParkEvicting(x, y)
    BY <1>2, <2>7, <2>8, <2>9, ParkedCount DEF phaseBar, Lifecycle!ParkEvicting
  <2> QED
    BY <2>10
<1> QED
  BY <1>0, <1>5, <1>6 DEF Store

\* Every step of the handlers, of the collector and of the clock is a step of
\* some sessions' lives, or none.
LEMMA LifecycleStep ==
  ASSUME StateOK, StateOK', [Next]_vars
  PROVE  [Lifecycle!LifecycleNext]_phaseBar
<1>1. ASSUME NEW r \in Requests, NEW s \in Sessions, Open(r, s)
      PROVE  Lifecycle!Open(s)
  <2>1. /\ status \in [Sessions -> {"unborn", "live", "closed"}]
        /\ pc \in [Requests -> PCs]
        /\ held \in [Requests -> Sessions \cup {NoSession}]
        /\ held[r] \notin Sessions
    BY <1>1 DEF Open, StateOK, WellFormed, TypeOK, HandlerOK
  <2>2. PhaseOf(s) = "unborn" /\ PhaseOf(s)' = "serving"
    BY <1>1, <2>1, PhaseFacts, PhaseFactsNext DEF Open, PhasesDistinct, Serving
  <2>3. ASSUME NEW u \in Sessions \ {s} PROVE PhaseOf(u)' = PhaseOf(u)
    BY <1>1, <2>1, PhaseKept DEF Open, Retiring, Parked, Evicted
  <2> QED
    BY <2>2, <2>3, OneMoves DEF phaseBar, Lifecycle!Open
<1>2. ASSUME NEW r \in Requests, SendReturns(r) \/ ResolveReturns(r) \/ EndTurn(r)
      PROVE  (\E s \in Sessions : Lifecycle!Retire(s)) \/ phaseBar' = phaseBar
  <2>1. pc \in [Requests -> PCs]
    BY DEF StateOK, WellFormed, TypeOK
  <2>2. CASE pc' = [pc EXCEPT ![r] = "closing"]
    BY <1>2, <2>1, <2>2, LeavingRetires DEF SendReturns, ResolveReturns, EndTurn
  <2>3. CASE pc' = [pc EXCEPT ![r] = "waiting"]
    <3>1. ASSUME NEW s \in Sessions PROVE PhaseOf(s)' = PhaseOf(s)
      BY <1>2, <2>1, <2>3, PhaseKept
         DEF SendReturns, ResolveReturns, EndTurn, Retiring, Parked, Evicted
    <3> QED
      BY <3>1 DEF phaseBar
  <2> QED
    BY <1>2, <2>2, <2>3 DEF SendReturns, ResolveReturns, EndTurn
<1>3. ASSUME NEW r \in Requests, NEW t \in Tokens, TakeLive(r, t)
      PROVE  \E s \in Sessions : Lifecycle!Claim(s)
  <2>1. PICK x \in Sessions : x = entries[t].session
    BY <1>3, EntryFacts DEF TakeLive, StateOK, WellFormed, TypeOK
  <2>2. /\ Parked(x)
        /\ \A s \in Sessions : Parked(s)' <=> Parked(s) /\ s # x
    <3>1. t \in DOMAIN entries /\ entries' = Remove({t})
      BY <1>3 DEF TakeLive
    <3>2. {entries[u].session : u \in {t} \cap DOMAIN entries} = {x}
      BY <2>1, <3>1
    <3> QED
      BY <2>1, <3>1, <3>2, RemoveUnparks DEF Parked
  <2>3. /\ pc \in [Requests -> PCs]
        /\ held \in [Requests -> Sessions \cup {NoSession}]
        /\ held[r] \notin Sessions
    BY <1>3 DEF TakeLive, StateOK, WellFormed, TypeOK, HandlerOK
  <2>4. /\ held' = [held EXCEPT ![r] = x]
        /\ pc' = [pc EXCEPT ![r] = "resolving"]
        /\ pc[r] = "idle"
        /\ UNCHANGED <<status, evictee, sweeping, reaping>>
    BY <1>3, <2>1 DEF TakeLive
  <2>5. PhaseOf(x) = "parked" /\ PhaseOf(x)' = "serving"
    BY <2>2, <2>3, <2>4, PhaseFacts, PhaseFactsNext DEF PhasesDistinct, Serving
  <2>6. ASSUME NEW s \in Sessions \ {x} PROVE PhaseOf(s)' = PhaseOf(s)
    <3>1. Retiring(s)' <=> Retiring(s)
      BY <2>3, <2>4 DEF Retiring, Evicted
    <3> QED
      BY <2>2, <2>4, <3>1, PhaseKept
  <2> QED
    BY <2>5, <2>6, OneMoves DEF phaseBar, Lifecycle!Claim
<1>4. ASSUME NEW r \in Requests, NEW t \in Tokens, TakeExpired(r, t)
      PROVE  \E S \in SUBSET Sessions : Lifecycle!Expire(S)
  BY <1>4, RemovalExpires, {t} # {} DEF TakeExpired, Retiring, Evicted
<1>5. ASSUME NEW r \in Requests, NEW tok \in Tokens, Store(r, tok)
      PROVE  \E s \in Sessions :
               Lifecycle!Park(s) \/ \E v \in Sessions : Lifecycle!ParkEvicting(s, v)
  BY <1>5, StoreParks
<1>6. ASSUME NEW r \in Requests, DiscardEvictee(r)
      PROVE  \E s \in Sessions : Lifecycle!Close(s)
  <2>1. PICK x \in Sessions : x = evictee[r]
    BY <1>6 DEF DiscardEvictee, StateOK, WellFormed, HandlerOK
  <2>2. /\ Retiring(x)
        /\ pc \in [Requests -> PCs]
        /\ evictee \in [Requests -> Sessions \cup {NoSession}]
    BY <2>1 DEF StateOK, WellFormed, TypeOK, Retiring, Evicted
  <2>3. \A s \in Sessions \ {x} : Retiring(s)' <=> Retiring(s)
    BY <1>6, <2>1, <2>2, RegistryAssumption DEF DiscardEvictee, Retiring, Evicted
  <2> QED
    BY <1>6, <2>1, <2>2, <2>3, TeardownCloses DEF DiscardEvictee
<1>7. ASSUME NEW r \in Requests, CloseHeld(r)
      PROVE  \E s \in Sessions : Lifecycle!Close(s)
  <2>1. PICK x \in Sessions : x = held[r]
    BY <1>7 DEF CloseHeld, StateOK, WellFormed, HandlerOK
  <2>2. /\ Retiring(x)
        /\ pc \in [Requests -> PCs]
        /\ held \in [Requests -> Sessions \cup {NoSession}]
    BY <1>7, <2>1 DEF CloseHeld, StateOK, WellFormed, TypeOK, Retiring
  <2>3. \A s \in Sessions \ {x} : Retiring(s)' <=> Retiring(s)
    BY <1>7, <2>1, <2>2, RegistryAssumption DEF CloseHeld, Retiring, Evicted
  <2> QED
    BY <1>7, <2>1, <2>2, <2>3, TeardownCloses DEF CloseHeld
<1>8. CASE Sweep
  <2> DEFINE old == {t \in DOMAIN entries : Expired(t)}
             S == {entries[t].session : t \in old}
  <2>1. /\ old \in SUBSET DOMAIN entries /\ old # {}
        /\ entries' = Remove(old)
        /\ sweeping = {} /\ sweeping' = S
        /\ UNCHANGED <<status, pc, held, evictee, reaping>>
    BY <1>8 DEF Sweep
  <2> HIDE DEF old
  <2>2. \A s \in Sessions : Retiring(s)' <=> Retiring(s) \/ s \in S
    BY <2>1 DEF Retiring, Evicted
  <2>3. \E E \in SUBSET Sessions : Lifecycle!Expire(E)
    BY <2>1, <2>2, RemovalExpires
  <2> QED
    BY <2>3 DEF Lifecycle!LifecycleNext
<1>9. ASSUME NEW x \in Sessions, DiscardSwept(x) \/ DiscardExpired(x)
      PROVE  Lifecycle!Close(x)
  BY <1>9, TeardownCloses DEF DiscardSwept, DiscardExpired, Retiring, Evicted
<1>10. ASSUME \/ Tick \/ UNCHANGED vars
              \/ \E r \in Requests : AnswerToolCalls(r)
       PROVE  phaseBar' = phaseBar
  <2>1. ASSUME NEW s \in Sessions PROVE PhaseOf(s)' = PhaseOf(s)
    <3>1. /\ UNCHANGED <<entries, status, held, evictee, sweeping, reaping>>
          /\ \A r \in Requests : pc[r] = "closing" <=> pc'[r] = "closing"
      BY <1>10 DEF Tick, AnswerToolCalls, vars, StateOK, WellFormed, TypeOK
    <3> QED
      BY <3>1, PhaseKept DEF Parked, Retiring, Evicted
  <2> QED
    BY <2>1 DEF phaseBar
<1> QED
  BY <1>1, <1>2, <1>3, <1>4, <1>5, <1>6, <1>7, <1>8, <1>9, <1>10
     DEF Next, Arrive, Proceed, TearDown, Take, Refuse, Lifecycle!LifecycleNext

\* Nothing but ToolSessions' own constants is assumed: whatever the requests
\* do and whoever they race with, each session is opened, served by one turn
\* at a time, parked within the cap, retired and closed, and never comes back.
THEOREM Refinement == Spec => ImplementsLifecycle
<1>1. StateOK /\ Init => Lifecycle!LifecycleInit
  BY PhaseFacts DEF Init, PhasesDistinct, Lifecycle!LifecycleInit
<1>2. StateOK /\ StateOK' /\ [Next]_vars => [Lifecycle!LifecycleNext]_phaseBar
  BY LifecycleStep
<1>3. Spec => []StateOK
  BY WellFormedAlways, OwnershipAlways, CapCorrect, PTL DEF StateOK
<1> QED
  BY <1>1, <1>2, <1>3, PTL
     DEF Spec, ImplementsLifecycle, Lifecycle!LifecycleSpec, phaseBar

=============================================================================
