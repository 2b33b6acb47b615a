------------------------ MODULE ToolSessions_proofs ------------------------
(***************************************************************************)
(* Proofs about ToolSessions, for every number of handlers, sessions and   *)
(* tokens, every cap and every TTL.                                        *)
(***************************************************************************)
EXTENDS ToolSessions, FiniteSetTheorems, TLAPS

\* What a handler holds is settled by where it is: the deferred cleanup has a
\* session to tear down from createSession or take() until store() or the
\* cleanup itself; only the window after store()'s unlock has an evicted one.
HandlerOK ==
  \A r \in Requests :
    /\ pc[r] \in {"sending", "resolving", "waiting", "closing"}
         <=> held[r] \in Sessions
    /\ pc[r] = "evicting" <=> evictee[r] \in Sessions
    /\ pc[r] \in {"evicting", "answering"} => token[r] \in Tokens

\* A parked token was minted, so a fresh one is never parked already.
ParkedMinted == DOMAIN entries \subseteq minted

WellFormed == TypeOK /\ HandlerOK /\ ParkedMinted

-----------------------------------------------------------------------------
(* The registry's map operations.                                          *)

\* What an entry holds.
LEMMA EntryFacts ==
  ASSUME NEW e, IsRegistry(e), NEW t \in DOMAIN e
  PROVE  e[t].session \in Sessions /\ e[t].createdAt \in Nat
BY DEF IsRegistry, Entry

\* Removing entries keeps the others as they were.
LEMMA RemoveFacts ==
  ASSUME NEW T, IsRegistry(entries)
  PROVE  /\ DOMAIN Remove(T) = DOMAIN entries \ T
         /\ IsRegistry(Remove(T))
         /\ \A t \in DOMAIN entries \ T : Remove(T)[t] = entries[t]
BY DEF Remove, IsRegistry

\* Inserting parks exactly the given session and keeps the other entries.
LEMMA InsertFacts ==
  ASSUME NEW kept, IsRegistry(kept), now \in Nat, NEW tok, NEW s \in Sessions
  PROVE  /\ DOMAIN Insert(kept, tok, s) = DOMAIN kept \cup {tok}
         /\ IsRegistry(Insert(kept, tok, s))
         /\ \A t \in DOMAIN kept \ {tok} : Insert(kept, tok, s)[t] = kept[t]
<1> DEFINE new == Insert(kept, tok, s)
<1>1. /\ DOMAIN new = DOMAIN kept \cup {tok}
      /\ new[tok] = [session |-> s, createdAt |-> now]
      /\ \A t \in DOMAIN kept \ {tok} : new[t] = kept[t]
  BY DEF Insert
<1>2. new[tok] \in Entry
  BY <1>1 DEF Entry
<1>3. \A t \in DOMAIN kept : kept[t] \in Entry
  BY DEF IsRegistry
<1>4. \A t \in DOMAIN new : new[t] \in Entry
  BY <1>1, <1>2, <1>3
<1>5. new = [t \in DOMAIN new |-> new[t]]
  BY DEF Insert
<1>6. new \in [DOMAIN new -> Entry]
  BY <1>4, <1>5
<1> QED
  BY <1>1, <1>6 DEF IsRegistry

-----------------------------------------------------------------------------
(* Types, and what each handler holds.                                     *)

\* Every reachable state is well typed, and every handler holds what its
\* position says: store() never parks a nil session, no cleanup runs on one.
LEMMA WellFormedAlways == Spec => []WellFormed
<1>1. Init => WellFormed
  BY RegistryAssumption DEF Init, TypeOK, HandlerOK, ParkedMinted, PCs,
     IsRegistry, WellFormed
<1>2. WellFormed /\ [Next]_vars => WellFormed'
  <2> SUFFICES ASSUME TypeOK, HandlerOK, ParkedMinted, [Next]_vars
               PROVE  TypeOK' /\ HandlerOK' /\ ParkedMinted'
    BY DEF WellFormed
  <2> USE RegistryAssumption DEF TypeOK, HandlerOK, ParkedMinted, PCs
  <2>1. ASSUME NEW r \in Requests, NEW s \in Sessions, Open(r, s)
        PROVE  TypeOK' /\ HandlerOK' /\ ParkedMinted'
    BY <2>1 DEF Open
  <2>2. ASSUME NEW r \in Requests, SendReturns(r)
        PROVE  TypeOK' /\ HandlerOK' /\ ParkedMinted'
    BY <2>2 DEF SendReturns
  <2>3. ASSUME NEW r \in Requests, NEW t \in Tokens, TakeLive(r, t)
        PROVE  TypeOK' /\ HandlerOK' /\ ParkedMinted'
    <3>1. entries[t].session \in Sessions
      BY <2>3, EntryFacts DEF TakeLive
    <3>2. /\ DOMAIN entries' = DOMAIN entries \ {t}
          /\ IsRegistry(entries')
      BY <2>3, RemoveFacts DEF TakeLive
    <3> QED
      BY <2>3, <3>1, <3>2 DEF TakeLive
  <2>4. ASSUME NEW r \in Requests, NEW t \in Tokens, TakeExpired(r, t)
        PROVE  TypeOK' /\ HandlerOK' /\ ParkedMinted'
    <3>1. entries[t].session \in Sessions
      BY <2>4, EntryFacts DEF TakeExpired
    <3>2. /\ DOMAIN entries' = DOMAIN entries \ {t}
          /\ IsRegistry(entries')
      BY <2>4, RemoveFacts DEF TakeExpired
    <3> QED
      BY <2>4, <3>1, <3>2 DEF TakeExpired
  <2>5. ASSUME NEW r \in Requests, ResolveReturns(r)
        PROVE  TypeOK' /\ HandlerOK' /\ ParkedMinted'
    BY <2>5 DEF ResolveReturns
  <2>6. ASSUME NEW r \in Requests, NEW tok \in Tokens, Store(r, tok)
        PROVE  TypeOK' /\ HandlerOK' /\ ParkedMinted'
    <3> HIDE DEF TypeOK, HandlerOK, ParkedMinted
    <3>1. held[r] \in Sessions /\ IsRegistry(entries) /\ now \in Nat
      BY <2>6 DEF Store, TypeOK, HandlerOK
    <3>2. CASE /\ entries' = Insert(entries, tok, held[r])
               /\ pc' = [pc EXCEPT ![r] = "answering"]
               /\ UNCHANGED evictee
      <4>1. /\ DOMAIN Insert(entries, tok, held[r]) = DOMAIN entries \cup {tok}
            /\ IsRegistry(Insert(entries, tok, held[r]))
        BY <3>1, InsertFacts
      <4>2. /\ DOMAIN entries' = DOMAIN entries \cup {tok}
            /\ IsRegistry(entries')
        BY <4>1, <3>2, Zenon
      <4> QED
        BY <2>6, <3>1, <3>2, <4>2 DEF Store, TypeOK, HandlerOK, ParkedMinted
    <3>3. ASSUME NEW old \in DOMAIN entries,
                 entries' = Insert(Remove({old}), tok, held[r]),
                 evictee' = [evictee EXCEPT ![r] = entries[old].session],
                 pc' = [pc EXCEPT ![r] = "evicting"]
          PROVE  TypeOK' /\ HandlerOK' /\ ParkedMinted'
      <4>1. entries[old].session \in Sessions
        BY <3>1, EntryFacts
      <4>2. /\ DOMAIN Remove({old}) \subseteq DOMAIN entries
            /\ IsRegistry(Remove({old}))
        BY <3>1, RemoveFacts
      <4>3. /\ DOMAIN Insert(Remove({old}), tok, held[r])
                  = DOMAIN Remove({old}) \cup {tok}
            /\ IsRegistry(Insert(Remove({old}), tok, held[r]))
        BY <3>1, <4>2, InsertFacts
      <4>4. /\ DOMAIN entries' = DOMAIN Remove({old}) \cup {tok}
            /\ IsRegistry(entries')
        BY <4>3, <3>3, Zenon
      <4> QED
        BY <2>6, <3>1, <3>3, <4>1, <4>2, <4>4
           DEF Store, TypeOK, HandlerOK, ParkedMinted
    <3> QED
      BY <2>6, <3>2, <3>3 DEF Store
  <2>7. ASSUME NEW r \in Requests, DiscardEvictee(r)
        PROVE  TypeOK' /\ HandlerOK' /\ ParkedMinted'
    BY <2>7 DEF DiscardEvictee
  <2>8. ASSUME NEW r \in Requests, AnswerToolCalls(r)
        PROVE  TypeOK' /\ HandlerOK' /\ ParkedMinted'
    BY <2>8 DEF AnswerToolCalls
  <2>9. ASSUME NEW r \in Requests, EndTurn(r)
        PROVE  TypeOK' /\ HandlerOK' /\ ParkedMinted'
    BY <2>9 DEF EndTurn
  <2>10. ASSUME NEW r \in Requests, CloseHeld(r)
         PROVE  TypeOK' /\ HandlerOK' /\ ParkedMinted'
    BY <2>10 DEF CloseHeld
  <2>11. CASE Sweep
    <3>1. \A t \in DOMAIN entries : entries[t].session \in Sessions
      BY EntryFacts
    <3>2. /\ DOMAIN entries' \subseteq DOMAIN entries
          /\ IsRegistry(entries')
      BY <2>11, RemoveFacts DEF Sweep
    <3> QED
      BY <2>11, <3>1, <3>2 DEF Sweep
  <2>12. ASSUME NEW s \in Sessions, DiscardSwept(s) \/ DiscardExpired(s)
         PROVE  TypeOK' /\ HandlerOK' /\ ParkedMinted'
    BY <2>12 DEF DiscardSwept, DiscardExpired
  <2>13. CASE Tick
    BY <2>13 DEF Tick
  <2>14. CASE UNCHANGED vars
    BY <2>14 DEF vars
  <2> QED
    BY <2>1, <2>2, <2>3, <2>4, <2>5, <2>6, <2>7, <2>8, <2>9, <2>10, <2>11,
       <2>12, <2>13, <2>14 DEF Next, Arrive, Proceed, TearDown, Take, Refuse
<1> QED
  BY <1>1, <1>2, PTL DEF Spec

\* So the type invariant holds for every number of handlers, sessions, tokens.
THEOREM TypeCorrect == Spec => []TypeOK
<1>1. WellFormed => TypeOK
  BY DEF WellFormed
<1> QED
  BY <1>1, WellFormedAlways, PTL

-----------------------------------------------------------------------------
(* Ownership.                                                              *)

Ownership == OwnedOnce /\ LiveIffOwned

\* Every step hands a session from one owner to the next, or to nobody once it
\* is disconnected.
LEMMA OwnershipStep ==
  ASSUME WellFormed, Ownership, [Next]_vars
  PROVE  Ownership'
<1> USE RegistryAssumption DEF WellFormed, TypeOK, HandlerOK, ParkedMinted, Ownership, OwnedOnce, LiveIffOwned, Owned, Parked, Held, Evicted
<1>1. ASSUME NEW r \in Requests, NEW s \in Sessions, Open(r, s)
      PROVE  Ownership'
  BY <1>1 DEF Open
<1>2. ASSUME NEW r \in Requests, SendReturns(r) \/ ResolveReturns(r) \/ EndTurn(r) \/ AnswerToolCalls(r)
      PROVE  Ownership'
  BY <1>2 DEF SendReturns, ResolveReturns, EndTurn, AnswerToolCalls
<1>3. ASSUME NEW r \in Requests, NEW t \in Tokens, TakeLive(r, t)
      PROVE  Ownership'
  <2> HIDE DEF WellFormed, TypeOK, HandlerOK, ParkedMinted, Ownership, OwnedOnce,
               LiveIffOwned, Owned, Parked, Held, Evicted
  <2> DEFINE s0 == entries[t].session
  <2>1. /\ IsRegistry(entries)
        /\ t \in DOMAIN entries
        /\ entries' = Remove({t})
    BY <1>3 DEF TakeLive, WellFormed, TypeOK
  <2>2. /\ DOMAIN entries' = DOMAIN entries \ {t}
        /\ \A u \in DOMAIN entries \ {t} : entries'[u] = entries[u]
        /\ s0 \in Sessions
    BY <2>1, RemoveFacts, EntryFacts
  <2>3. \A u \in DOMAIN entries \ {t} : entries[u].session # s0
    BY <2>1 DEF Ownership, OwnedOnce
  <2>4. \A s \in Sessions : Parked(s)' <=> Parked(s) /\ s # s0
    BY <2>1, <2>2, <2>3 DEF Parked
  <2>5. Parked(s0)
    BY <2>1 DEF Parked
  <2>6. \A s \in Sessions : Held(s)' <=> Held(s) \/ s = s0
    BY <1>3, <2>2 DEF TakeLive, Held, WellFormed, TypeOK, HandlerOK
  <2>7. /\ \A s \in Sessions : Evicted(s)' <=> Evicted(s)
        /\ UNCHANGED <<evictee, sweeping, reaping, status>>
    BY <1>3 DEF TakeLive, Evicted
  <2>8. OwnedOnce'
    <3>1. \A u, v \in DOMAIN entries' :
            entries'[u].session = entries'[v].session => u = v
      BY <2>2 DEF Ownership, OwnedOnce
    <3>2. \A p, q \in Requests :
            held'[p] = held'[q] /\ held'[q] \in Sessions => p = q
      <4>1. \A q \in Requests : held[q] # s0
        BY <2>2, <2>5 DEF Ownership, OwnedOnce, Held
      <4>2. held' = [held EXCEPT ![r] = s0] /\ held \in [Requests -> Sessions \cup {NoSession}]
        BY <1>3 DEF TakeLive, WellFormed, TypeOK
      <4> QED
        BY <4>1, <4>2 DEF Ownership, OwnedOnce
    <3>3. \A p, q \in Requests :
            evictee'[p] = evictee'[q] /\ evictee'[q] \in Sessions => p = q
      BY <2>7 DEF Ownership, OwnedOnce
    <3> QED
      BY <2>2, <2>4, <2>5, <2>6, <2>7, <3>1, <3>2, <3>3 DEF Ownership, OwnedOnce
  <2>9. LiveIffOwned'
    BY <2>2, <2>4, <2>5, <2>6, <2>7 DEF Ownership, LiveIffOwned, Owned
  <2> QED
    BY <2>8, <2>9 DEF Ownership
<1>4. ASSUME NEW r \in Requests, NEW t \in Tokens, TakeExpired(r, t)
      PROVE  Ownership'
  <2> HIDE DEF WellFormed, TypeOK, HandlerOK, ParkedMinted, Ownership, OwnedOnce,
               LiveIffOwned, Owned, Parked, Held, Evicted
  <2> DEFINE s0 == entries[t].session
  <2>1. /\ IsRegistry(entries)
        /\ t \in DOMAIN entries
        /\ entries' = Remove({t})
    BY <1>4 DEF TakeExpired, WellFormed, TypeOK
  <2>2. /\ DOMAIN entries' = DOMAIN entries \ {t}
        /\ \A u \in DOMAIN entries \ {t} : entries'[u] = entries[u]
        /\ s0 \in Sessions
    BY <2>1, RemoveFacts, EntryFacts
  <2>3. \A u \in DOMAIN entries \ {t} : entries[u].session # s0
    BY <2>1 DEF Ownership, OwnedOnce
  <2>4. \A s \in Sessions : Parked(s)' <=> Parked(s) /\ s # s0
    BY <2>1, <2>2, <2>3 DEF Parked
  <2>5. Parked(s0)
    BY <2>1 DEF Parked
  <2>6. /\ \A s \in Sessions : Held(s)' <=> Held(s)
        /\ \A s \in Sessions : Evicted(s)' <=> Evicted(s)
        /\ reaping' = reaping \cup {s0}
        /\ UNCHANGED <<held, evictee, sweeping, status>>
    BY <1>4 DEF TakeExpired, Held, Evicted
  <2>7. OwnedOnce'
    <3>1. \A u, v \in DOMAIN entries' :
            entries'[u].session = entries'[v].session => u = v
      BY <2>2 DEF Ownership, OwnedOnce
    <3> QED
      BY <2>2, <2>4, <2>5, <2>6, <3>1 DEF Ownership, OwnedOnce
  <2>8. LiveIffOwned'
    BY <2>2, <2>4, <2>5, <2>6 DEF Ownership, LiveIffOwned, Owned
  <2> QED
    BY <2>7, <2>8 DEF Ownership
<1>5. ASSUME NEW r \in Requests, NEW tok \in Tokens, Store(r, tok)
      PROVE  Ownership'
  <2> HIDE DEF WellFormed, TypeOK, HandlerOK, ParkedMinted, Ownership, OwnedOnce,
               LiveIffOwned, Owned, Parked, Held, Evicted
  <2> DEFINE x == held[r]
  <2>1. /\ IsRegistry(entries)
        /\ now \in Nat
        /\ x \in Sessions
        /\ tok \notin DOMAIN entries
        /\ held' = [held EXCEPT ![r] = NoSession]
        /\ held \in [Requests -> Sessions \cup {NoSession}]
        /\ evictee \in [Requests -> Sessions \cup {NoSession}]
        /\ evictee[r] = NoSession
        /\ UNCHANGED <<status, sweeping, reaping>>
    BY <1>5 DEF Store, WellFormed, TypeOK, HandlerOK, ParkedMinted
  <2>2. /\ Held(x)
        /\ ~Parked(x) /\ ~Evicted(x)
        /\ x \notin sweeping \cup reaping
    BY <2>1 DEF Held, Ownership, OwnedOnce
  <2>3. \A s \in Sessions : Held(s)' <=> Held(s) /\ s # x
    BY <2>1 DEF Held, Ownership, OwnedOnce
  <2>4. \A p, q \in Requests :
          held'[p] = held'[q] /\ held'[q] \in Sessions => p = q
    BY <2>1 DEF Ownership, OwnedOnce
  <2>5. ASSUME entries' = Insert(entries, tok, x), UNCHANGED evictee
        PROVE  Ownership'
    <3>1. /\ DOMAIN entries' = DOMAIN entries \cup {tok}
          /\ entries'[tok].session = x
          /\ \A u \in DOMAIN entries : entries'[u] = entries[u]
      <4> DEFINE new == Insert(entries, tok, x)
      <4>0. IsRegistry(entries) /\ now \in Nat /\ x \in Sessions
        BY <2>1
      <4>1. /\ DOMAIN new = DOMAIN entries \cup {tok}
            /\ \A u \in DOMAIN entries \ {tok} : new[u] = entries[u]
        BY <4>0, InsertFacts
      <4>5. new[tok].session = x
        BY <4>0 DEF Insert
      <4>2. \A u \in DOMAIN entries : new[u] = entries[u]
        BY <4>1, <2>1
      <4>3. entries' = new
        BY <2>5
      <4> HIDE DEF new
      <4> QED
        BY <4>1, <4>2, <4>3, <4>5
    <3>2. \A s \in Sessions : Parked(s)' <=> Parked(s) \/ s = x
      BY <3>1, <2>1 DEF Parked
    <3>3. \A s \in Sessions : Evicted(s)' <=> Evicted(s)
      BY <2>5 DEF Evicted
    <3>4. \A u, v \in DOMAIN entries' :
            entries'[u].session = entries'[v].session => u = v
      BY <3>1, <2>2 DEF Ownership, OwnedOnce, Parked
    <3>5. OwnedOnce'
      BY <2>1, <2>2, <2>3, <2>4, <2>5, <3>2, <3>3, <3>4 DEF Ownership, OwnedOnce
    <3>6. LiveIffOwned'
      BY <2>1, <2>2, <2>3, <3>2, <3>3 DEF Ownership, LiveIffOwned, Owned
    <3> QED
      BY <3>5, <3>6 DEF Ownership
  <2>6. ASSUME NEW old \in DOMAIN entries,
               entries' = Insert(Remove({old}), tok, x),
               evictee' = [evictee EXCEPT ![r] = entries[old].session]
        PROVE  Ownership'
    <3> DEFINE y == entries[old].session
    <3>1. /\ IsRegistry(Remove({old}))
          /\ DOMAIN Remove({old}) = DOMAIN entries \ {old}
          /\ \A u \in DOMAIN entries \ {old} : Remove({old})[u] = entries[u]
          /\ y \in Sessions
          /\ Parked(y)
      BY <2>1, RemoveFacts, EntryFacts DEF Parked
    <3>2. /\ DOMAIN entries' = (DOMAIN entries \ {old}) \cup {tok}
          /\ entries'[tok].session = x
          /\ \A u \in DOMAIN entries \ {old} : entries'[u] = entries[u]
      <4> DEFINE kept == Remove({old})
                 new == Insert(kept, tok, x)
      <4>0. IsRegistry(kept) /\ now \in Nat /\ x \in Sessions
        BY <2>1, <3>1
      <4>1. /\ DOMAIN new = DOMAIN kept \cup {tok}
            /\ \A u \in DOMAIN kept \ {tok} : new[u] = kept[u]
        BY <4>0, InsertFacts
      <4>5. new[tok].session = x
        BY <4>0 DEF Insert
      <4>2. \A u \in DOMAIN entries \ {old} : new[u] = entries[u]
        BY <4>1, <3>1, <2>1
      <4>3. DOMAIN new = (DOMAIN entries \ {old}) \cup {tok}
        BY <4>1, <3>1
      <4>4. entries' = new
        BY <2>6
      <4> HIDE DEF new
      <4> QED
        BY <4>1, <4>2, <4>3, <4>4, <4>5
    <3>3. \A u \in DOMAIN entries \ {old} : entries[u].session # y
      BY DEF Ownership, OwnedOnce
    <3>4. \A s \in Sessions : Parked(s)' <=> (Parked(s) /\ s # y) \/ s = x
      BY <3>2, <3>3, <2>1 DEF Parked
    <3>5. \A s \in Sessions : Evicted(s)' <=> Evicted(s) \/ s = y
      BY <2>1, <2>6, <3>1 DEF Evicted
    <3>6. \A u, v \in DOMAIN entries' :
            entries'[u].session = entries'[v].session => u = v
      BY <3>2, <2>2 DEF Ownership, OwnedOnce, Parked
    <3>7. \A p, q \in Requests :
            evictee'[p] = evictee'[q] /\ evictee'[q] \in Sessions => p = q
      <4>1. \A q \in Requests : evictee[q] # y
        BY <3>1 DEF Ownership, OwnedOnce, Evicted
      <4> QED
        BY <4>1, <2>1, <2>6 DEF Ownership, OwnedOnce
    <3>8. OwnedOnce'
      BY <2>1, <2>2, <2>3, <2>4, <3>1, <3>4, <3>5, <3>6, <3>7
         DEF Ownership, OwnedOnce
    <3>9. LiveIffOwned'
      BY <2>1, <2>2, <2>3, <3>1, <3>4, <3>5 DEF Ownership, LiveIffOwned, Owned
    <3> QED
      BY <3>8, <3>9 DEF Ownership
  <2> QED
    BY <1>5, <2>5, <2>6 DEF Store
<1>6. ASSUME NEW r \in Requests, DiscardEvictee(r)
      PROVE  Ownership'
  BY <1>6 DEF DiscardEvictee
<1>7. ASSUME NEW r \in Requests, CloseHeld(r)
      PROVE  Ownership'
  BY <1>7 DEF CloseHeld
<1>8. ASSUME Sweep
      PROVE  Ownership'
  <2> HIDE DEF WellFormed, TypeOK, HandlerOK, ParkedMinted, Ownership, OwnedOnce,
               LiveIffOwned, Owned, Parked, Held, Evicted
  <2> DEFINE old == {t \in DOMAIN entries : Expired(t)}
             gone == {entries[t].session : t \in old}
  <2>1. /\ IsRegistry(entries)
        /\ entries' = Remove(old)
        /\ sweeping = {} /\ sweeping' = gone
        /\ UNCHANGED <<held, evictee, reaping, status>>
    BY <1>8 DEF Sweep, WellFormed, TypeOK
  <2>2. /\ DOMAIN entries' = DOMAIN entries \ old
        /\ \A u \in DOMAIN entries \ old : entries'[u] = entries[u]
    BY <2>1, RemoveFacts
  <2>9. gone \subseteq Sessions
    BY <2>1, EntryFacts
  <2> HIDE DEF old
  <2>3. \A u \in DOMAIN entries \ old : entries[u].session \notin gone
    BY <2>1 DEF Ownership, OwnedOnce, old
  <2>4. \A s \in Sessions : Parked(s)' <=> Parked(s) /\ s \notin gone
    BY <2>1, <2>2, <2>3 DEF Parked
  <2>5. \A s \in gone : Parked(s)
    BY <2>1 DEF Parked, old
  <2>6. /\ \A s \in Sessions : Held(s)' <=> Held(s)
        /\ \A s \in Sessions : Evicted(s)' <=> Evicted(s)
    BY <2>1 DEF Held, Evicted
  <2> HIDE DEF gone
  <2>7. OwnedOnce'
    <3>1. \A u, v \in DOMAIN entries' :
            entries'[u].session = entries'[v].session => u = v
      BY <2>2 DEF Ownership, OwnedOnce
    <3> QED
      BY <2>1, <2>2, <2>4, <2>5, <2>6, <2>9, <3>1 DEF Ownership, OwnedOnce
  <2>8. LiveIffOwned'
    BY <2>1, <2>2, <2>4, <2>5, <2>6, <2>9 DEF Ownership, LiveIffOwned, Owned
  <2> QED
    BY <2>7, <2>8 DEF Ownership
<1>9. ASSUME NEW s \in Sessions, DiscardSwept(s)
      PROVE  Ownership'
  BY <1>9 DEF DiscardSwept
<1>10. ASSUME NEW s \in Sessions, DiscardExpired(s)
      PROVE  Ownership'
  BY <1>10 DEF DiscardExpired
<1>11. ASSUME Tick
      PROVE  Ownership'
  BY <1>11 DEF Tick
<1>12. ASSUME UNCHANGED vars
      PROVE  Ownership'
  BY <1>12 DEF vars
<1> HIDE DEF WellFormed, Ownership
<1> QED
  BY <1>1, <1>2, <1>3, <1>4, <1>5, <1>6, <1>7, <1>8, <1>9, <1>10, <1>11, <1>12 DEF Next, Arrive, Proceed, TearDown, Take, Refuse

\* The two hold together in every reachable state.
LEMMA OwnershipAlways == Spec => []Ownership
<1>1. Init => Ownership
  BY RegistryAssumption
     DEF Init, Ownership, OwnedOnce, LiveIffOwned, Owned, Parked, Held, Evicted
<1>2. WellFormed /\ Ownership /\ [Next]_vars => Ownership'
  BY OwnershipStep
<1> QED
  BY <1>1, <1>2, WellFormedAlways, PTL DEF Spec

\* No two owners ever hold one session, whatever races for an entry.
THEOREM OwnershipCorrect == Spec => []OwnedOnce
<1>1. Ownership => OwnedOnce
  BY DEF Ownership
<1> QED
  BY <1>1, OwnershipAlways, PTL

\* No session is leaked, and none is handed to a turn once it is disconnected.
THEOREM LiveCorrect == Spec => []LiveIffOwned
<1>1. Ownership => LiveIffOwned
  BY DEF Ownership
<1> QED
  BY <1>1, OwnershipAlways, PTL

-----------------------------------------------------------------------------
(* The cap.                                                                *)

\* One step keeps the cap: store() makes room before it inserts.
LEMMA CapStep ==
  ASSUME WellFormed, CapRespected, [Next]_vars
  PROVE  CapRespected'
<1>1. IsFiniteSet(DOMAIN entries)
  BY RegistryAssumption, FS_Subset DEF WellFormed, TypeOK
<1>2. Cardinality(DOMAIN entries) \in Nat
  BY <1>1, FS_CardinalityType
<1>3. CASE DOMAIN entries' \subseteq DOMAIN entries
  BY <1>1, <1>2, <1>3, FS_Subset, FS_CardinalityType, RegistryAssumption
     DEF CapRespected
<1>4. ASSUME NEW r \in Requests, NEW tok \in Tokens, Store(r, tok)
      PROVE  CapRespected'
  <2>1. /\ tok \notin DOMAIN entries
        /\ IsRegistry(entries) /\ now \in Nat /\ held[r] \in Sessions
    BY <1>4 DEF Store, WellFormed, TypeOK, HandlerOK, ParkedMinted
  <2>2. CASE /\ Cardinality(DOMAIN entries) < MaxParked
             /\ entries' = Insert(entries, tok, held[r])
    <3>1. DOMAIN Insert(entries, tok, held[r]) = DOMAIN entries \cup {tok}
      BY <2>1, InsertFacts
    <3>2. Cardinality(DOMAIN entries') = Cardinality(DOMAIN entries) + 1
      BY <1>1, <2>1, <2>2, <3>1, FS_AddElement
    <3> QED
      BY <1>2, <2>2, <3>2, RegistryAssumption DEF CapRespected
  <2>3. ASSUME NEW old \in DOMAIN entries,
               entries' = Insert(Remove({old}), tok, held[r])
        PROVE  CapRespected'
    <3>1. DOMAIN Remove({old}) = DOMAIN entries \ {old} /\ IsRegistry(Remove({old}))
      BY <2>1, RemoveFacts
    <3>2. DOMAIN Insert(Remove({old}), tok, held[r])
            = (DOMAIN entries \ {old}) \cup {tok}
      BY <2>1, <3>1, InsertFacts
    <3>3. /\ IsFiniteSet(DOMAIN entries \ {old})
          /\ Cardinality(DOMAIN entries \ {old}) = Cardinality(DOMAIN entries) - 1
      BY <1>1, FS_RemoveElement
    <3>4. Cardinality(DOMAIN entries')
            = Cardinality(DOMAIN entries \ {old}) + 1
      BY <2>1, <2>3, <3>2, <3>3, FS_AddElement
    <3> QED
      BY <1>2, <3>3, <3>4 DEF CapRespected
  <2> QED
    BY <1>4, <2>2, <2>3 DEF Store
<1>5. ASSUME NEW T, entries' = Remove(T)
      PROVE  CapRespected'
  BY <1>3, <1>5, RemoveFacts DEF WellFormed, TypeOK
<1>6. CASE UNCHANGED entries
  BY <1>3, <1>6
<1> QED
  BY <1>4, <1>5, <1>6
     DEF Next, Arrive, Proceed, TearDown, Take, Refuse, Open, SendReturns, ResolveReturns,
         TakeLive, TakeExpired, DiscardEvictee, AnswerToolCalls, EndTurn,
         CloseHeld, Sweep, DiscardSwept, DiscardExpired, Tick, vars

\* The registry never holds more than its cap, whatever the load.
THEOREM CapCorrect == Spec => []CapRespected
<1>1. Init => CapRespected
  BY FS_EmptySet, RegistryAssumption DEF Init, CapRespected
<1>2. WellFormed /\ CapRespected /\ [Next]_vars => CapRespected'
  BY CapStep
<1> QED
  BY <1>1, <1>2, WellFormedAlways, PTL DEF Spec
-----------------------------------------------------------------------------
(* Who may leave early.                                                    *)

\* A fresh entry leaves the registry only by a claim or as the oldest of a
\* full registry, in every step of every behaviour.
THEOREM DepartureCorrect == Spec => NoEarlyDeparture
<1> DEFINE Lawful(t) ==
      \/ Expired(t)
      \/ \E r \in Requests : held[r] = NoSession /\ held'[r] = entries[t].session
      \/ /\ \A u \in DOMAIN entries :
              entries[t].createdAt <= entries[u].createdAt
         /\ Cardinality(DOMAIN entries) = MaxParked
         /\ \E r \in Requests : evictee'[r] = entries[t].session
<1>1. ASSUME WellFormed, CapRespected, [Next]_vars
      PROVE  [\A t \in DOMAIN entries \ DOMAIN entries' : Lawful(t)]_vars
  <2> SUFFICES ASSUME NEW t \in DOMAIN entries \ DOMAIN entries'
               PROVE  Lawful(t)
    OBVIOUS
  <2>1. IsRegistry(entries) /\ now \in Nat
    BY <1>1 DEF WellFormed, TypeOK
  <2>2. ASSUME NEW r \in Requests, NEW u \in Tokens, TakeLive(r, u)
        PROVE  Lawful(t)
    <3>1. t = u
      BY <2>1, <2>2, RemoveFacts DEF TakeLive
    <3>2. held[r] = NoSession
      BY <1>1, <2>2 DEF TakeLive, WellFormed, TypeOK, HandlerOK
    <3>3. held'[r] = entries[t].session
      BY <1>1, <2>2, <3>1 DEF TakeLive, WellFormed, TypeOK
    <3> QED
      BY <3>2, <3>3
  <2>3. ASSUME NEW r \in Requests, NEW u \in Tokens, TakeExpired(r, u)
        PROVE  Lawful(t)
    <3>1. t = u
      BY <2>1, <2>3, RemoveFacts DEF TakeExpired
    <3> QED
      BY <2>3, <3>1 DEF TakeExpired
  <2>4. ASSUME NEW r \in Requests, NEW tok \in Tokens, Store(r, tok)
        PROVE  Lawful(t)
    <3>1. held[r] \in Sessions
      BY <1>1, <2>4 DEF Store, WellFormed, HandlerOK
    <3>2. entries' # Insert(entries, tok, held[r])
      <4>1. DOMAIN Insert(entries, tok, held[r]) = DOMAIN entries \cup {tok}
        BY <2>1, <3>1, InsertFacts
      <4> QED
        BY <4>1
    <3>3. PICK old \in DOMAIN entries :
            /\ Cardinality(DOMAIN entries) >= MaxParked
            /\ \A u \in DOMAIN entries :
                 entries[old].createdAt <= entries[u].createdAt
            /\ entries' = Insert(Remove({old}), tok, held[r])
            /\ evictee' = [evictee EXCEPT ![r] = entries[old].session]
      BY <2>4, <3>2 DEF Store, Oldest
    <3>4. /\ IsRegistry(Remove({old}))
          /\ DOMAIN Remove({old}) = DOMAIN entries \ {old}
      BY <2>1, RemoveFacts
    <3>5. DOMAIN Insert(Remove({old}), tok, held[r])
            = DOMAIN Remove({old}) \cup {tok}
      BY <2>1, <3>1, <3>4, InsertFacts
    <3>6. t = old
      BY <3>3, <3>4, <3>5
    <3>7. evictee'[r] = entries[t].session
      BY <1>1, <3>3, <3>6 DEF WellFormed, TypeOK
    <3>8. Cardinality(DOMAIN entries) = MaxParked
      <4>1. Cardinality(DOMAIN entries) \in Nat
        BY <1>1, RegistryAssumption, FS_Subset, FS_CardinalityType
           DEF WellFormed, TypeOK
      <4> QED
        BY <1>1, <3>3, <4>1, RegistryAssumption DEF CapRespected
    <3> QED
      BY <3>3, <3>6, <3>7, <3>8
  <2>5. CASE Sweep
    <3> DEFINE old == {u \in DOMAIN entries : Expired(u)}
    <3>1. DOMAIN entries' = DOMAIN entries \ old
      BY <2>1, <2>5, RemoveFacts DEF Sweep
    <3>2. t \in old
      BY <3>1
    <3> QED
      BY <3>2
  <2>6. CASE UNCHANGED entries
    BY <2>6
  <2> QED
    BY <1>1, <2>2, <2>3, <2>4, <2>5, <2>6
       DEF Next, Arrive, Proceed, TearDown, Take, Refuse, Open, SendReturns,
           ResolveReturns, DiscardEvictee, AnswerToolCalls, EndTurn, CloseHeld,
           DiscardSwept, DiscardExpired, Tick, vars
<1> QED
  BY <1>1, WellFormedAlways, CapCorrect, PTL DEF Spec, NoEarlyDeparture

=============================================================================
