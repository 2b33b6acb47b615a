--------------------------- MODULE ToolTurns_proofs ---------------------------
(***************************************************************************)
(* Proofs about ToolTurns, for every set of calls and every number of      *)
(* turns: a finite or an infinite set of calls the agent may come to make. *)
(***************************************************************************)
EXTENDS ToolTurns, FiniteSetTheorems, TLAPS

Asleep == {"new", "taken"}
Active == {"sending", "resolving", "waiting", "debouncing"}
Ended == {"leaving", "done"}

\* The maps of the turns are functions on Turns.
Mapped ==
  /\ MapsOK
  /\ DOMAIN pending = Turns /\ DOMAIN results = Turns
  /\ todo \in [Turns -> SUBSET Nat]

WellTyped == VariablesOK /\ Mapped

\* The turns follow one another: a turn begins when the one before has parked
\* and only has to leave.
TurnOrder ==
  /\ \A j \in Turns, k \in Turns : j < k /\ pc[j] \notin Ended => pc[k] = "new"
  /\ parked # 0 => /\ pc[parked] \in Ended \cup {"answering"}
                   /\ \A k \in Turns : k > parked => pc[k] = "new"
  /\ pc[1] \notin {"taken", "resolving"}

\* What a turn will fill is empty until it does.
TurnOK(k) ==
  /\ k \in revealed => pc[k] \in Ended
  /\ pc[k] \in Asleep => events[k] = <<>> /\ k \notin subscribed /\ ~toolCh[k]
  /\ pc[k] \in Asleep \cup Active => pending[k] = Empty
  /\ pc[k] \in Active => k \in subscribed
  /\ pc[k] = "new" => results[k] = Empty /\ todo[k] = {}

TurnByTurn == TurnOrder /\ \A k \in Turns : TurnOK(k)

\* No call occurs twice in s.
CallOnce(s) ==
  \A i \in DOMAIN s, j \in DOMAIN s : s[i] = s[j] /\ s[i] # "idle" => i = j

\* A call is announced once: it waits in the queue or has been delivered, to
\* each turn once; and a turn never collects what an earlier one parked.
CollectedBy(k) ==
  /\ CallOnce(events[k])
  /\ \A c \in Calls : InSeq(c, events[k]) => c \in asked /\ ~InSeq(c, queue)
  /\ \A i \in DOMAIN pending[k] : i \in DOMAIN events[k] /\ pending[k][i] = events[k][i]

Collected ==
  /\ CallOnce(queue)
  /\ \A c \in Calls : InSeq(c, queue) => c \in asked
  /\ \A k \in Turns : CollectedBy(k)
  /\ \A j \in Turns, k \in Turns :
       j < k => \A i \in DOMAIN pending[j] : ~InSeq(pending[j][i], events[k])

\* A resolved call was parked by some turn, and the next one has gone past it;
\* it was resolved once.  What a client sends is filed under the call it is for.
Settled ==
  /\ \A c \in DOMAIN given :
       \E k \in Turns : /\ k > 1 /\ pc[k] \notin Asleep
                        /\ \E i \in DOMAIN pending[k - 1] \ todo[k] : pending[k - 1][i] = c
  /\ \A c \in Calls : resolutions[c] = IF c \in DOMAIN given THEN 1 ELSE 0
  /\ \A k \in Turns : k > 1 =>
       \A i \in DOMAIN results[k] : results[k][i] = pending[k - 1][i]
  /\ OwnResult

GoingOn == prompt /\ MayGoOn

Attended == \E k \in Turns : pc[k] \in Active

\* A turn has a signal, or debounces, only after it collected a call.
Signalled ==
  /\ agent = "off" => asked = {}
  /\ \A k \in Turns : toolCh[k] \/ pc[k] = "debouncing" => events[k] # <<>>

\* While prompt calls are out and no turn listens, the agent waits for one of
\* them and nothing is under way to the server.
Quiet == GoingOn /\ ~Attended => agent = "blocked" /\ Unresolved # {} /\ queue = <<>>

-----------------------------------------------------------------------------
(* Sequences.                                                              *)

LEMMA AppendFacts ==
  ASSUME NEW S, NEW s \in Seq(S), NEW e \in S
  PROVE  /\ Append(s, e) \in Seq(S)
         /\ Append(s, e) # <<>>
         /\ DOMAIN Append(s, e) = DOMAIN s \cup {Len(s) + 1}
         /\ Len(s) + 1 \notin DOMAIN s
         /\ \A i \in DOMAIN s : Append(s, e)[i] = s[i]
         /\ Append(s, e)[Len(s) + 1] = e
  OBVIOUS

LEMMA TailFacts ==
  ASSUME NEW S, NEW s \in Seq(S), s # <<>>
  PROVE  /\ Tail(s) \in Seq(S)
         /\ Head(s) \in S
         /\ 1 \in DOMAIN s /\ Head(s) = s[1]
         /\ \A i \in DOMAIN Tail(s) : i + 1 \in DOMAIN s /\ i + 1 # 1 /\ Tail(s)[i] = s[i + 1]
         /\ \A i \in DOMAIN s : i # 1 => i - 1 \in DOMAIN Tail(s) /\ Tail(s)[i - 1] = s[i]
  OBVIOUS

LEMMA InAppend ==
  ASSUME NEW S, NEW s \in Seq(S), NEW e \in S, NEW c
  PROVE  InSeq(c, Append(s, e)) <=> InSeq(c, s) \/ c = e
BY AppendFacts DEF InSeq

LEMMA InTail ==
  ASSUME NEW S, NEW s \in Seq(S), s # <<>>, NEW c
  PROVE  InSeq(c, s) <=> InSeq(c, Tail(s)) \/ c = Head(s)
<1>1. ASSUME NEW i \in DOMAIN s, s[i] = c PROVE InSeq(c, Tail(s)) \/ c = Head(s)
  BY <1>1, TailFacts DEF InSeq
<1>2. ASSUME NEW i \in DOMAIN Tail(s), Tail(s)[i] = c PROVE InSeq(c, s)
  BY <1>2, TailFacts DEF InSeq
<1>3. InSeq(Head(s), s)
  BY TailFacts DEF InSeq
<1> QED
  BY <1>1, <1>2, <1>3 DEF InSeq

LEMMA OnceAppend ==
  ASSUME NEW S, NEW s \in Seq(S), NEW e \in S, CallOnce(s), e = "idle" \/ ~InSeq(e, s)
  PROVE  CallOnce(Append(s, e))
BY AppendFacts DEF CallOnce, InSeq

LEMMA OnceTail ==
  ASSUME NEW S, NEW s \in Seq(S), s # <<>>, CallOnce(s)
  PROVE  /\ CallOnce(Tail(s))
         /\ Head(s) # "idle" => ~InSeq(Head(s), Tail(s))
<1>1. \A i \in DOMAIN Tail(s) : i \in Nat
  OBVIOUS
<1> QED
  BY <1>1, TailFacts DEF CallOnce, InSeq

-----------------------------------------------------------------------------
(* Types.                                                                  *)

\* No step leaves the types: what a turn parks and resolves stays within what
\* it collected, however many calls come after.
LEMMA WellTypedStep == WellTyped /\ TurnByTurn /\ [Next]_vars => WellTyped'
<1> SUFFICES ASSUME WellTyped, TurnByTurn, [Next]_vars PROVE WellTyped'
  OBVIOUS
<1> USE TurnsAssumption DEF Turns, agentVars, turnVars, channels
<1>0. VariablesOK /\ Mapped
  BY DEF WellTyped
<1>a. UNCHANGED <<events, pending, results, todo>> => Mapped'
  BY <1>0 DEF Mapped, MapsOK
<1>1. ASSUME NEW c \in Calls, RaiseCall(c) PROVE WellTyped'
  <2>1. queue' \in Seq(Calls \cup {"idle"})
    BY <1>0, <1>1, AppendFacts DEF RaiseCall, VariablesOK
  <2>2. VariablesOK'
    BY <1>0, <1>1, <2>1 DEF RaiseCall, VariablesOK
  <2> QED
    BY <1>a, <1>1, <2>2 DEF RaiseCall, WellTyped
<1>2. CASE Finish
  <2>1. queue' \in Seq(Calls \cup {"idle"})
    BY <1>0, <1>2, AppendFacts DEF Finish, VariablesOK
  <2>2. VariablesOK'
    BY <1>0, <1>2, <2>1 DEF Finish, VariablesOK
  <2> QED
    BY <1>a, <1>2, <2>2 DEF Finish, WellTyped
<1>3. CASE Deliver
  <2>1. queue' \in Seq(Calls \cup {"idle"}) /\ Head(queue) \in Calls \cup {"idle"}
    BY <1>0, <1>3, TailFacts DEF Deliver, VariablesOK
  <2>2. ASSUME NEW k \in Turns
        PROVE  events'[k] \in Seq(Calls) /\ DOMAIN events[k] \subseteq DOMAIN events'[k]
    <3>1. events[k] \in Seq(Calls)
      BY <1>0 DEF VariablesOK
    <3>2. CASE Head(queue) = "idle"
      BY <1>3, <3>1, <3>2 DEF Deliver
    <3>3. CASE Head(queue) # "idle"
      <4>1. events'[k] = IF k \in subscribed THEN Append(events[k], Head(queue)) ELSE events[k]
        BY <1>3, <3>3 DEF Deliver
      <4> QED
        BY <2>1, <3>1, <3>3, <4>1, AppendFacts
    <3> QED
      BY <3>2, <3>3
  <2>3. /\ toolCh' \in [Turns -> BOOLEAN] /\ idleCh' \in [Turns -> BOOLEAN]
    BY <1>0, <1>3 DEF Deliver, VariablesOK
  <2>4. events' \in [Turns -> Seq(Calls)]
    BY <1>0, <1>3, <2>2 DEF Deliver, VariablesOK
  <2>5. VariablesOK'
    BY <1>0, <1>3, <2>1, <2>3, <2>4 DEF Deliver, VariablesOK
  <2>6. Mapped'
    BY <1>0, <1>3, <2>2 DEF Deliver, Mapped, MapsOK
  <2> QED
    BY <2>5, <2>6 DEF WellTyped
<1>4. ASSUME NEW k \in Turns, Take(k) PROVE WellTyped'
  <2>1. k > 1 /\ parked = k - 1 /\ parked \in Turns
    BY <1>0, <1>4 DEF Take, VariablesOK
  <2>2. VariablesOK'
    BY <1>0, <1>4 DEF Take, VariablesOK
  <2>3. PICK answered \in SUBSET DOMAIN pending[parked] :
          results' = [results EXCEPT ![k] = [i \in answered |-> pending[parked][i]]]
    BY <1>4, Zenon DEF Take
  <2>4. Mapped'
    BY <1>0, <1>4, <2>1, <2>3 DEF Take, Mapped, MapsOK
  <2> QED
    BY <2>2, <2>4 DEF WellTyped
<1>5. ASSUME NEW k \in Turns, Subscribe(k) PROVE WellTyped'
  <2>1. k > 1 /\ k - 1 \in Turns
    BY <1>5 DEF Subscribe, TurnByTurn, TurnOrder
  <2>2. VariablesOK'
    BY <1>0, <1>5 DEF Subscribe, VariablesOK
  <2>3. DOMAIN pending[k - 1] \subseteq Nat
    <3>1. events[k - 1] \in Seq(Calls)
      BY <1>0, <2>1 DEF VariablesOK
    <3>2. DOMAIN events[k - 1] \subseteq Nat
      BY <3>1
    <3> QED
      BY <1>0, <2>1, <3>2 DEF Mapped, MapsOK
  <2>4. Mapped'
    BY <1>0, <1>5, <2>1, <2>3 DEF Subscribe, Mapped, MapsOK
  <2> QED
    BY <2>2, <2>4 DEF WellTyped
<1>6. ASSUME NEW k \in Turns, NEW i \in todo[k], Resolve(k, i) PROVE WellTyped'
  <2>1. k > 1 /\ k - 1 \in Turns
    BY <1>6 DEF Resolve, TurnByTurn, TurnOrder
  <2>2. VariablesOK'
    <3> DEFINE c == pending[k - 1][i]
               v == IF i \in DOMAIN results[k] THEN results[k][i] ELSE "empty"
    <3>1. c \in Calls /\ v \in Calls \cup {"empty"}
      BY <1>0, <2>1 DEF Mapped, MapsOK
    <3>2. /\ given' = [d \in DOMAIN given \cup {c} |-> IF d = c THEN v ELSE given[d]]
          /\ resolutions' = [resolutions EXCEPT ![c] = @ + 1]
      BY <1>6 DEF Resolve
    <3> HIDE DEF c, v
    <3>3. /\ DOMAIN given' \subseteq Calls
          /\ \A d \in DOMAIN given' : given'[d] \in Calls \cup {"empty"}
      BY <1>0, <3>1, <3>2 DEF VariablesOK
    <3>4. resolutions' \in [Calls -> Nat]
      BY <1>0, <3>1, <3>2 DEF VariablesOK
    <3> QED
      BY <1>0, <1>6, <3>3, <3>4 DEF Resolve, VariablesOK
  <2>3. Mapped'
    BY <1>0, <1>6 DEF Resolve, Mapped, MapsOK
  <2> QED
    BY <2>2, <2>3 DEF WellTyped
<1>7. ASSUME NEW k \in Turns, EndDebounce(k) PROVE WellTyped'
  <2>1. VariablesOK'
    BY <1>0, <1>7 DEF EndDebounce, VariablesOK
  <2>2. /\ pending' = [pending EXCEPT ![k] = [i \in DOMAIN events[k] |-> events[k][i]]]
        /\ UNCHANGED <<events, results, todo>>
    BY <1>7 DEF EndDebounce, mintToolCalls
  <2>3. \A i \in DOMAIN events[k] : events[k][i] \in Calls
    BY <1>0 DEF VariablesOK
  <2>4. k + 1 \in Turns => DOMAIN results[k + 1] = {} /\ todo[k + 1] = {}
    BY <1>7 DEF EndDebounce, TurnByTurn, TurnOrder, TurnOK, Ended, Empty
  <2>5. ASSUME NEW j \in Turns
        PROVE  /\ DOMAIN pending'[j] \subseteq DOMAIN events[j]
               /\ \A i \in DOMAIN pending'[j] : pending'[j][i] \in Calls
    BY <1>0, <2>2, <2>3 DEF Mapped, MapsOK
  <2>6. ASSUME NEW j \in Turns, j > 1
        PROVE  /\ DOMAIN results[j] \subseteq DOMAIN pending'[j - 1]
               /\ \A i \in DOMAIN results[j] : results[j][i] \in Calls
               /\ todo[j] \subseteq DOMAIN pending'[j - 1]
    BY <1>0, <2>2, <2>4, <2>6 DEF Mapped, MapsOK
  <2>7. Mapped'
    BY <1>0, <2>2, <2>5, <2>6 DEF Mapped, MapsOK
  <2> QED
    BY <2>1, <2>7 DEF WellTyped
<1>8. CASE AwaitResults \/ Continue \/ Begin \/ PromptArrives \/ SendReturns \/ LoseParked
  <2>1. CASE AwaitResults \/ Continue \/ PromptArrives \/ LoseParked
    BY <1>0, <1>a, <2>1
    DEF AwaitResults, Continue, PromptArrives, LoseParked, VariablesOK, WellTyped
  <2>2. CASE Begin
    BY <1>0, <1>a, <2>2 DEF Begin, VariablesOK, WellTyped
  <2>3. CASE SendReturns
    BY <1>0, <1>a, <2>3 DEF SendReturns, VariablesOK, WellTyped
  <2> QED
    BY <1>8, <2>1, <2>2, <2>3
<1>9. ASSUME NEW k \in Turns,
             \/ ResolveFails(k) \/ AllResolved(k) \/ HangUp(k) \/ ToolSignal(k)
             \/ ExtendDebounce(k) \/ Answer(k) \/ Leave(k) \/ TextAnswer(k)
             \/ GiveUp(k) \/ Close(k)
      PROVE  WellTyped'
  <2> USE DEF ResolveFails, AllResolved, HangUp, ToolSignal, ExtendDebounce, Answer,
              Leave, TextAnswer, GiveUp, Close
  <2>1. VariablesOK'
    BY <1>0, <1>9 DEF VariablesOK
  <2> QED
    BY <1>a, <1>9, <2>1 DEF WellTyped
<1>10. CASE UNCHANGED vars
  <2>1. VariablesOK'
    BY <1>0, <1>10 DEF vars, VariablesOK
  <2> QED
    BY <1>a, <1>10, <2>1 DEF vars, WellTyped
<1> QED
  BY <1>1, <1>2, <1>3, <1>4, <1>5, <1>6, <1>7, <1>8, <1>9, <1>10
  DEF Next, AgentStep, HandlerStep

-----------------------------------------------------------------------------
(* One turn at a time.                                                     *)

\* A turn that has begun finds the earlier ones over, or leaving.
LEMMA EarlierEnded ==
  ASSUME TurnOrder, NEW k \in Turns, pc[k] # "new"
  PROVE  \A j \in Turns : j < k => pc[j] \in Ended
BY DEF TurnOrder

\* When the current turn moves on, the turns stay in order.
LEMMA OrderKept ==
  ASSUME WellTyped, TurnOrder, NEW k \in Turns, NEW v, v # "new",
         pc' = [pc EXCEPT ![k] = v],
         k = 1 => v \notin {"taken", "resolving"},
         \A j \in Turns : j < k => pc[j] \in Ended,
         pc[k] \notin Ended \/ v \in Ended,
         \/ parked' = 0
         \/ parked' = parked /\ pc[k] # "new" /\ (parked = k => v \in Ended)
         \/ parked' = k /\ v = "answering"
  PROVE  TurnOrder'
<1> USE TurnsAssumption DEF Turns, Ended
<1>2. \A j \in Turns : pc'[j] = IF j = k THEN v ELSE pc[j]
  BY DEF WellTyped, VariablesOK
<1>3. ASSUME NEW j \in Turns, NEW m \in Turns, j < m, pc'[j] \notin Ended
      PROVE  pc'[m] = "new"
  BY <1>2, <1>3 DEF TurnOrder
<1>4. parked \in Turns \cup {0}
  BY DEF WellTyped, VariablesOK
<1>5. ASSUME parked' # 0
      PROVE  /\ pc'[parked'] \in Ended \cup {"answering"}
             /\ \A m \in Turns : m > parked' => pc'[m] = "new"
  BY <1>2, <1>4, <1>5 DEF TurnOrder
<1>6. 1 \in Turns /\ pc'[1] \notin {"taken", "resolving"}
  BY <1>2 DEF TurnOrder
<1> QED
  BY <1>3, <1>5, <1>6 DEF TurnOrder

\* A turn is taken only when the one before has parked and answered, so turns
\* overlap only in the leaving of the earlier one.
LEMMA TurnByTurnStep == WellTyped /\ TurnByTurn /\ [Next]_vars => TurnByTurn'
<1> SUFFICES ASSUME WellTyped, TurnByTurn, [Next]_vars PROVE TurnByTurn'
  OBVIOUS
<1> USE TurnsAssumption DEF agentVars, turnVars, channels, Ended
<1>0. VariablesOK /\ Mapped /\ TurnOrder /\ \A k \in Turns : TurnOK(k)
  BY DEF WellTyped, TurnByTurn
<1>a. UNCHANGED <<pc, parked>> => TurnOrder'
  BY <1>0 DEF TurnOrder
<1>b. ASSUME NEW k \in Turns,
             pc'[k] = pc[k], events'[k] = events[k], pending'[k] = pending[k],
             results'[k] = results[k], todo'[k] = todo[k], toolCh'[k] => toolCh[k],
             k \in subscribed' <=> k \in subscribed, k \in revealed' <=> k \in revealed
      PROVE  TurnOK(k)'
  BY <1>0, <1>b DEF TurnOK
<1>c. \A k \in Turns : pc[k] # "new" => \A j \in Turns : j < k => pc[j] \in Ended
  BY <1>0, EarlierEnded
<1>1. CASE AgentStep \/ PromptArrives \/ UNCHANGED vars
  BY <1>a, <1>b, <1>1
  DEF AgentStep, RaiseCall, AwaitResults, Continue, Finish, PromptArrives, vars, TurnByTurn
<1>2. CASE Deliver
  <2>1. ASSUME NEW k \in Turns PROVE TurnOK(k)'
    BY <1>0, <1>2 DEF Deliver, TurnOK, VariablesOK, Asleep, Active
  <2> QED
    BY <1>a, <1>2, <2>1 DEF Deliver, TurnByTurn
<1>3. CASE Begin
  <2>0. 1 \in Turns /\ \A j \in Turns : ~(j < 1)
    BY DEF Turns
  <2>a. parked = 0
    <3>1. parked \in Turns => pc[parked] = "new"
      BY <1>0, <1>3, <2>0 DEF Begin, TurnOrder, Turns
    <3> QED
      BY <1>0, <3>1 DEF TurnOrder, VariablesOK, Turns
  <2>1. TurnOrder'
    BY <1>0, <1>3, <2>0, <2>a, OrderKept DEF Begin, WellTyped
  <2>2. ASSUME NEW k \in Turns PROVE TurnOK(k)'
    BY <1>0, <1>3 DEF Begin, TurnOK, VariablesOK, Asleep, Active
  <2> QED
    BY <2>1, <2>2 DEF TurnByTurn
<1>4. CASE SendReturns
  <2>0. 1 \in Turns /\ \A j \in Turns : ~(j < 1)
    BY DEF Turns
  <2>a. PICK v \in {"waiting", "closing"} : pc' = [pc EXCEPT ![1] = v]
    BY <1>4 DEF SendReturns
  <2>b. parked # 1
    BY <1>0, <1>4 DEF SendReturns, TurnOrder
  <2>1. TurnOrder'
    BY <1>0, <1>4, <2>0, <2>a, <2>b, OrderKept DEF SendReturns, WellTyped
  <2>2. ASSUME NEW k \in Turns PROVE TurnOK(k)'
    BY <1>0, <1>4, <2>0, <2>a DEF SendReturns, TurnOK, VariablesOK, Asleep, Active
  <2> QED
    BY <2>1, <2>2 DEF TurnByTurn
<1>5. CASE LoseParked
  <2>1. TurnOrder'
    BY <1>0, <1>5 DEF LoseParked, TurnOrder
  <2> QED
    BY <1>b, <1>5, <2>1 DEF LoseParked, TurnByTurn
<1>6. ASSUME NEW k \in Turns, Take(k) PROVE TurnByTurn'
  <2>1. k > 1 /\ parked = k - 1 /\ parked \in Turns
    BY <1>0, <1>6 DEF Take, VariablesOK, Turns
  <2>2. \A j \in Turns : j # k => results'[j] = results[j]
    BY <1>0, <1>6, Zenon DEF Take, Mapped
  <2>3. TurnOrder'
    <3>1. \A j \in Turns : j < k => pc[j] \in Ended
      BY <1>0, <1>6, <1>c, <2>1 DEF Take, TurnOrder, TurnOK, Turns
    <3> QED
      BY <1>0, <1>6, <2>1, <3>1, OrderKept DEF Take, WellTyped
  <2>4. ASSUME NEW j \in Turns PROVE TurnOK(j)'
    BY <1>0, <1>6, <2>2 DEF Take, TurnOK, VariablesOK, Mapped, Asleep, Active
  <2> QED
    BY <2>3, <2>4 DEF TurnByTurn
<1>7. ASSUME NEW k \in Turns, NEW i \in todo[k], Resolve(k, i) PROVE TurnByTurn'
  <2>1. ASSUME NEW j \in Turns PROVE TurnOK(j)'
    BY <1>0, <1>7 DEF Resolve, TurnOK, Mapped
  <2> QED
    BY <1>a, <1>7, <2>1 DEF Resolve, TurnByTurn
<1>8. ASSUME NEW k \in Turns, ExtendDebounce(k) \/ HangUp(k) PROVE TurnByTurn'
  BY <1>0, <1>a, <1>b, <1>8 DEF ExtendDebounce, HangUp, VariablesOK, TurnByTurn
<1>9. ASSUME NEW k \in Turns, Subscribe(k) PROVE TurnByTurn'
  <2>1. TurnOrder'
    BY <1>0, <1>9, <1>c, OrderKept DEF Subscribe, VariablesOK, TurnOrder, WellTyped
  <2>2. ASSUME NEW j \in Turns PROVE TurnOK(j)'
    BY <1>0, <1>9 DEF Subscribe, TurnOK, VariablesOK, Mapped, Asleep, Active
  <2> QED
    BY <2>1, <2>2 DEF TurnByTurn
<1>10. ASSUME NEW k \in Turns, EndDebounce(k) PROVE TurnByTurn'
  <2>1. TurnOrder'
    BY <1>0, <1>10, <1>c, OrderKept DEF EndDebounce, VariablesOK, WellTyped
  <2>2. ASSUME NEW j \in Turns PROVE TurnOK(j)'
    BY <1>0, <1>10 DEF EndDebounce, TurnOK, VariablesOK, Mapped, Asleep, Active
  <2> QED
    BY <2>1, <2>2 DEF TurnByTurn
<1>11. ASSUME NEW k \in Turns, Answer(k) \/ Leave(k) \/ Close(k) PROVE TurnByTurn'
  <2>1. TurnOrder'
    BY <1>0, <1>11, <1>c, OrderKept DEF Answer, Leave, Close, VariablesOK, WellTyped
  <2>2. ASSUME NEW j \in Turns PROVE TurnOK(j)'
    BY <1>0, <1>11 DEF Answer, Leave, Close, TurnOK, VariablesOK, Asleep, Active
  <2> QED
    BY <2>1, <2>2 DEF TurnByTurn
<1>12. ASSUME NEW k \in Turns,
              \/ ResolveFails(k) \/ AllResolved(k) \/ ToolSignal(k) \/ TextAnswer(k)
              \/ GiveUp(k)
       PROVE TurnByTurn'
  <2> USE DEF ResolveFails, AllResolved, ToolSignal, TextAnswer, GiveUp
  <2>a. PICK v \in {"waiting", "debouncing", "closing"} : pc' = [pc EXCEPT ![k] = v]
    BY <1>12
  <2>b. parked # k /\ parked' = parked /\ pc[k] # "new" /\ pc[k] \notin Ended
    BY <1>0, <1>12 DEF TurnOrder, Turns
  <2>1. TurnOrder'
    BY <1>0, <1>c, <2>a, <2>b, OrderKept DEF WellTyped
  <2>2. ASSUME NEW j \in Turns PROVE TurnOK(j)'
    BY <1>0, <1>12 DEF TurnOK, VariablesOK, Asleep, Active
  <2> QED
    BY <2>1, <2>2 DEF TurnByTurn
<1> QED
  BY <1>1, <1>2, <1>3, <1>4, <1>5, <1>6, <1>7, <1>8, <1>9, <1>10, <1>11, <1>12
  DEF Next, HandlerStep

-----------------------------------------------------------------------------
(* Collecting.                                                             *)

\* Although the callbacks of two turns may receive the same call, none but the
\* earlier turn can have parked it.
LEMMA CollectedStep ==
  WellTyped /\ TurnByTurn /\ Collected /\ [Next]_vars => Collected'
<1> SUFFICES ASSUME WellTyped, TurnByTurn, Collected, [Next]_vars PROVE Collected'
  OBVIOUS
<1> USE TurnsAssumption DEF agentVars, turnVars, channels
<1>0. /\ Mapped /\ queue \in Seq(Calls \cup {"idle"})
      /\ events \in [Turns -> Seq(Calls)]
      /\ \A k \in Turns : CollectedBy(k)
  BY DEF WellTyped, VariablesOK, Collected
<1>a. UNCHANGED <<queue, asked, events, pending>> => Collected'
  BY DEF Collected, CollectedBy
<1>1. ASSUME NEW c \in Calls, RaiseCall(c) PROVE Collected'
  <2>1. \A d : InSeq(d, queue') <=> InSeq(d, queue) \/ d = c
    BY <1>0, <1>1, InAppend DEF RaiseCall
  <2>2. ~InSeq(c, queue) /\ \A k \in Turns : ~InSeq(c, events[k])
    BY <1>0, <1>1 DEF RaiseCall, Collected, CollectedBy
  <2>3. CallOnce(queue')
    BY <1>0, <1>1, <2>2, OnceAppend DEF RaiseCall, Collected
  <2>4. \A k \in Turns : CollectedBy(k)'
    BY <1>0, <1>1, <2>1, <2>2 DEF RaiseCall, CollectedBy
  <2> QED
    BY <1>1, <2>1, <2>3, <2>4 DEF RaiseCall, Collected
<1>2. CASE Finish
  <2>1. \A c \in Calls : InSeq(c, queue') <=> InSeq(c, queue)
    BY <1>0, <1>2, InAppend DEF Finish
  <2>2. CallOnce(queue')
    BY <1>0, <1>2, OnceAppend DEF Finish, Collected
  <2>3. \A k \in Turns : CollectedBy(k)'
    BY <1>0, <1>2, <2>1 DEF Finish, CollectedBy
  <2> QED
    BY <1>2, <2>1, <2>2, <2>3 DEF Finish, Collected
<1>3. CASE Deliver
  <2> DEFINE e == Head(queue)
  <2>1. /\ e \in Calls \cup {"idle"}
        /\ \A c : InSeq(c, queue) <=> InSeq(c, queue') \/ c = e
        /\ CallOnce(queue') /\ (e # "idle" => ~InSeq(e, queue'))
    BY <1>0, <1>3, TailFacts, InTail, OnceTail DEF Deliver, Collected
  <2>2. ASSUME NEW k \in Turns
        PROVE  /\ \/ events'[k] = events[k]
                  \/ e # "idle" /\ events'[k] = Append(events[k], e)
               /\ pending'[k] = pending[k] /\ asked' = asked
    BY <1>0, <1>3 DEF Deliver
  <2> HIDE DEF e
  <2>3. \A k \in Turns : e # "idle" => ~InSeq(e, events[k])
    BY <1>0, <2>1 DEF CollectedBy
  <2>4. ASSUME NEW k \in Turns
        PROVE  /\ \A c : InSeq(c, events'[k]) => InSeq(c, events[k]) \/ (c = e /\ e # "idle")
               /\ CallOnce(events'[k])
               /\ DOMAIN events[k] \subseteq DOMAIN events'[k]
               /\ \A i \in DOMAIN events[k] : events'[k][i] = events[k][i]
    <3>1. events[k] \in Seq(Calls)
      BY <1>0
    <3>2. CASE events'[k] = events[k]
      BY <1>0, <3>2 DEF CollectedBy
    <3>3. CASE e # "idle" /\ events'[k] = Append(events[k], e)
      <4>1. e \in Calls /\ CallOnce(events[k]) /\ ~InSeq(e, events[k])
        BY <1>0, <2>1, <2>3, <3>3 DEF CollectedBy
      <4>2. CallOnce(Append(events[k], e))
        BY <3>1, <4>1, OnceAppend
      <4> QED
        BY <3>1, <3>3, <4>1, <4>2, InAppend, AppendFacts
    <3> QED
      BY <2>2, <3>2, <3>3
  <2>5. ASSUME NEW k \in Turns PROVE CollectedBy(k)'
    BY <1>0, <2>1, <2>2, <2>4, <2>5 DEF CollectedBy, Collected
  <2>6. ASSUME NEW j \in Turns, NEW k \in Turns, j < k, NEW i \in DOMAIN pending'[j]
        PROVE  ~InSeq(pending'[j][i], events'[k])
    <3>1. InSeq(pending[j][i], events[j])
      BY <1>0, <2>2, <2>6 DEF CollectedBy, InSeq
    <3>2. ~InSeq(pending[j][i], events[k])
      BY <2>2, <2>6 DEF Collected
    <3> QED
      BY <2>2, <2>3, <2>4, <3>1, <3>2
  <2>7. \A c \in Calls : InSeq(c, queue') => c \in asked'
    BY <1>3, <2>1 DEF Deliver, Collected
  <2> QED
    BY <2>1, <2>5, <2>6, <2>7 DEF Collected
<1>4. ASSUME NEW k \in Turns, EndDebounce(k) PROVE Collected'
  <2>1. /\ pending' = [pending EXCEPT ![k] = [i \in DOMAIN events[k] |-> events[k][i]]]
        /\ UNCHANGED <<queue, asked, events>>
    BY <1>4 DEF EndDebounce, mintToolCalls
  <2>2. \A m \in Turns : k < m => events[m] = <<>>
    BY <1>4 DEF EndDebounce, TurnByTurn, TurnOrder, TurnOK, Asleep, Ended
  <2>3. ASSUME NEW m \in Turns PROVE CollectedBy(m)'
    BY <1>0, <2>1 DEF CollectedBy, Mapped
  <2>4. ASSUME NEW j \in Turns, NEW m \in Turns, j < m, NEW i \in DOMAIN pending'[j]
        PROVE  ~InSeq(pending'[j][i], events[m])
    BY <1>0, <2>1, <2>2, <2>4 DEF Collected, InSeq, Mapped
  <2> QED
    BY <2>1, <2>3, <2>4 DEF Collected
<1>5. CASE \/ AwaitResults \/ Continue \/ Begin \/ PromptArrives \/ SendReturns
           \/ LoseParked \/ UNCHANGED vars
  BY <1>a, <1>5
  DEF AwaitResults, Continue, Begin, PromptArrives, SendReturns, LoseParked, vars
<1>6. ASSUME NEW k \in Turns,
             \/ Take(k) \/ Subscribe(k) \/ (\E i \in todo[k] : Resolve(k, i))
             \/ ResolveFails(k) \/ AllResolved(k) \/ HangUp(k) \/ ToolSignal(k)
             \/ ExtendDebounce(k) \/ Answer(k) \/ Leave(k) \/ TextAnswer(k)
             \/ GiveUp(k) \/ Close(k)
      PROVE  Collected'
  BY <1>a, <1>6
  DEF Take, Subscribe, Resolve, ResolveFails, AllResolved, HangUp, ToolSignal,
      ExtendDebounce, Answer, Leave, TextAnswer, GiveUp, Close
<1> QED
  BY <1>1, <1>2, <1>3, <1>4, <1>5, <1>6 DEF Next, AgentStep, HandlerStep

-----------------------------------------------------------------------------
(* Resolving.                                                              *)

\* No call is parked twice, by one turn or by two.
LEMMA ParkedOnce ==
  ASSUME WellTyped, Collected, NEW j \in Turns, NEW k \in Turns,
         NEW i \in DOMAIN pending[j], NEW m \in DOMAIN pending[k],
         pending[j][i] = pending[k][m]
  PROVE  j = k /\ i = m
<1>1. pending[j][i] \in Calls
  BY DEF WellTyped, Mapped, MapsOK
<1>2. InSeq(pending[j][i], events[j]) /\ InSeq(pending[k][m], events[k])
  BY DEF Collected, CollectedBy, InSeq
<1>3. ~(j < k) /\ ~(k < j)
  BY <1>2 DEF Collected
<1>4. j = k
  BY <1>3, TurnsAssumption DEF Turns
<1> QED
  BY <1>1, <1>4, TurnsAssumption DEF Collected, CollectedBy, CallOnce

\* resolvePending meets only calls nobody resolved before, although an earlier
\* turn's callback may have received them too, and files each one's own result.
LEMMA SettledStep ==
  WellTyped /\ TurnByTurn /\ Collected /\ Settled /\ [Next]_vars => Settled'
<1> SUFFICES ASSUME WellTyped, TurnByTurn, Collected, Settled, [Next]_vars PROVE Settled'
  OBVIOUS
<1> USE DEF agentVars, turnVars, channels, Asleep
<1>0. /\ Mapped /\ MapsOK /\ VariablesOK /\ TurnOrder /\ \A k \in Turns : TurnOK(k)
      /\ \A k \in Turns : k > 1 => k - 1 \in Turns
  BY TurnsAssumption DEF WellTyped, Mapped, TurnByTurn, Turns
<1>a. ASSUME UNCHANGED <<given, resolutions, pending, results, todo>>,
             \A k \in Turns : pc[k] \notin Asleep => pc'[k] \notin Asleep
      PROVE  Settled'
  BY <1>a DEF Settled, OwnResult
<1>1. ASSUME NEW k \in Turns, Take(k) PROVE Settled'
  <2>1. k > 1 /\ parked = k - 1
    BY <1>0, <1>1, TurnsAssumption DEF Take, VariablesOK, Turns
  <2>2. PICK answered \in SUBSET DOMAIN pending[parked] :
          results' = [results EXCEPT ![k] = [i \in answered |-> pending[parked][i]]]
    BY <1>1, Zenon DEF Take
  <2>3. /\ \A j \in Turns \ {k} : results'[j] = results[j]
        /\ \A i \in DOMAIN results'[k] : results'[k][i] = pending[k - 1][i]
    BY <1>0, <2>1, <2>2 DEF Mapped
  <2>4. /\ UNCHANGED <<given, resolutions, pending, todo>>
        /\ \A j \in Turns : pc[j] \notin Asleep => pc'[j] \notin Asleep
    BY <1>0, <1>1 DEF Take, VariablesOK
  <2> QED
    BY <2>3, <2>4 DEF Settled, OwnResult
<1>2. ASSUME NEW k \in Turns, Subscribe(k) PROVE Settled'
  <2>1. /\ UNCHANGED <<given, resolutions, pending, results>>
        /\ \A j \in Turns : pc[j] \notin Asleep => pc'[j] \notin Asleep /\ todo'[j] = todo[j]
    BY <1>0, <1>2 DEF Subscribe, VariablesOK, Mapped
  <2> QED
    BY <2>1 DEF Settled, OwnResult
<1>3. ASSUME NEW k \in Turns, EndDebounce(k) PROVE Settled'
  <2>1. /\ UNCHANGED <<given, resolutions, results, todo>>
        /\ \A j \in Turns : pc[j] \notin Asleep => pc'[j] \notin Asleep
        /\ \A j \in Turns \ {k} : pending'[j] = pending[j]
    BY <1>0, <1>3 DEF EndDebounce, VariablesOK, Mapped
  <2>2. \A j \in Turns : j - 1 = k => pc[j] = "new" /\ results[j] = Empty
    BY <1>0, <1>3, TurnsAssumption DEF EndDebounce, TurnOrder, TurnOK, Ended, Turns
  <2>3. ASSUME NEW c \in DOMAIN given
        PROVE  \E j \in Turns : /\ j > 1 /\ pc'[j] \notin Asleep
                                 /\ \E i \in DOMAIN pending'[j - 1] \ todo[j] : pending'[j - 1][i] = c
    <3>1. PICK j \in Turns : /\ j > 1 /\ pc[j] \notin Asleep
                             /\ \E i \in DOMAIN pending[j - 1] \ todo[j] : pending[j - 1][i] = c
      BY DEF Settled
    <3>2. pending'[j - 1] = pending[j - 1]
      BY <1>0, <2>1, <2>2, <3>1
    <3> QED
      BY <2>1, <3>1, <3>2
  <2>4. ASSUME NEW j \in Turns, j > 1, NEW i \in DOMAIN results[j]
        PROVE  results[j][i] = pending'[j - 1][i]
    <3>1. j - 1 # k
      BY <2>2, <2>4 DEF Empty
    <3> QED
      BY <1>0, <2>1, <2>4, <3>1 DEF Settled
  <2> QED
    BY <2>1, <2>3, <2>4 DEF Settled, OwnResult
<1>4. ASSUME NEW k \in Turns, NEW i \in todo[k], Resolve(k, i) PROVE Settled'
  <2> DEFINE c == pending[k - 1][i]
             v == IF i \in DOMAIN results[k] THEN results[k][i] ELSE "empty"
  <2>1. k > 1 /\ pc[k] = "resolving" /\ i \in DOMAIN pending[k - 1] /\ k - 1 \in Turns
    BY <1>0, <1>4, TurnsAssumption DEF Resolve, TurnOrder, MapsOK, Turns
  <2>2. c \in Calls /\ v \in {c, "empty"}
    BY <1>0, <2>1 DEF Settled, MapsOK
  <2>3. c \notin DOMAIN given
    <3> SUFFICES ASSUME c \in DOMAIN given PROVE FALSE
      OBVIOUS
    <3>1. PICK j \in Turns :
            j > 1 /\ \E m \in DOMAIN pending[j - 1] \ todo[j] : pending[j - 1][m] = c
      BY DEF Settled
    <3>a. PICK m \in DOMAIN pending[j - 1] \ todo[j] : pending[j - 1][m] = c
      BY <3>1
    <3>2. j - 1 = k - 1 /\ m = i
      BY <1>0, <2>1, <3>1, <3>a, ParkedOnce
    <3> QED
      BY <2>1, <3>1, <3>a, <3>2, TurnsAssumption DEF Turns
  <2>4. /\ given' = [d \in DOMAIN given \cup {c} |-> IF d = c THEN v ELSE given[d]]
        /\ resolutions' = [resolutions EXCEPT ![c] = @ + 1]
        /\ todo' = [todo EXCEPT ![k] = @ \ {i}]
        /\ UNCHANGED <<pc, pending, results>>
    BY <1>4 DEF Resolve
  <2>5. /\ \A j \in Turns : todo'[j] \subseteq todo[j]
        /\ i \notin todo'[k]
    BY <1>0, <2>4 DEF Mapped
  <2>6. ASSUME NEW d \in DOMAIN given'
        PROVE  \E j \in Turns : /\ j > 1 /\ pc[j] \notin Asleep
                                 /\ \E m \in DOMAIN pending[j - 1] \ todo'[j] : pending[j - 1][m] = d
    <3>1. CASE d \in DOMAIN given
      BY <2>5, <3>1 DEF Settled
    <3>2. CASE d = c
      BY <2>1, <2>5, <3>2
    <3> QED
      BY <2>4, <3>1, <3>2
  <2> HIDE DEF c, v
  <2>7. OwnResult'
    BY <2>2, <2>3, <2>4 DEF Settled, OwnResult
  <2>8. \A d \in Calls : resolutions'[d] = IF d \in DOMAIN given' THEN 1 ELSE 0
    BY <1>0, <2>2, <2>3, <2>4 DEF Settled, VariablesOK
  <2> QED
    BY <2>4, <2>6, <2>7, <2>8 DEF Settled
<1>5. CASE \/ AgentStep \/ Deliver \/ Begin \/ PromptArrives \/ SendReturns
           \/ LoseParked \/ UNCHANGED vars
  <2>1. CASE SendReturns
    BY <1>0, <1>a, <2>1 DEF SendReturns, VariablesOK
  <2> QED
    BY <1>0, <1>a, <1>5, <2>1
    DEF AgentStep, RaiseCall, AwaitResults, Continue, Finish, Deliver, Begin,
        PromptArrives, LoseParked, vars, VariablesOK
<1>6. ASSUME NEW k \in Turns,
             \/ ResolveFails(k) \/ AllResolved(k) \/ HangUp(k) \/ ToolSignal(k)
             \/ ExtendDebounce(k) \/ Answer(k) \/ Leave(k) \/ TextAnswer(k)
             \/ GiveUp(k) \/ Close(k)
      PROVE  Settled'
  BY <1>0, <1>a, <1>6
  DEF ResolveFails, AllResolved, HangUp, ToolSignal, ExtendDebounce, Answer, Leave,
      TextAnswer, GiveUp, Close, VariablesOK
<1> QED
  BY <1>1, <1>2, <1>3, <1>4, <1>5, <1>6 DEF Next, HandlerStep

-----------------------------------------------------------------------------
(* Reaching the calls of a prompt agent.                                   *)

\* What a signal says of a turn is true when the turn acts on it.
LEMMA SignalledStep ==
  WellTyped /\ Signalled /\ [Next]_vars => Signalled'
<1> SUFFICES ASSUME WellTyped, Signalled, [Next]_vars PROVE Signalled'
  OBVIOUS
<1> USE DEF agentVars, turnVars, channels
<1>0. VariablesOK
  BY DEF WellTyped
<1>1. CASE Deliver
  <2>1. queue # <<>> /\ Head(queue) \in Calls \cup {"idle"}
    BY <1>0, <1>1, TailFacts DEF Deliver, VariablesOK
  <2>2. ASSUME NEW k \in Turns, Head(queue) # "idle"
        PROVE  /\ k \in subscribed => events'[k] # <<>>
               /\ k \notin subscribed => events'[k] = events[k] /\ toolCh'[k] = toolCh[k]
    <3>1. /\ events'[k] = IF k \in subscribed THEN Append(events[k], Head(queue)) ELSE events[k]
          /\ toolCh'[k] = (toolCh[k] \/ k \in subscribed)
      BY <1>1, <2>2 DEF Deliver
    <3>2. events[k] \in Seq(Calls) /\ Head(queue) \in Calls /\ toolCh[k] \in BOOLEAN
      BY <1>0, <2>1, <2>2 DEF VariablesOK
    <3> QED
      BY <3>1, <3>2, AppendFacts
  <2> QED
    BY <1>1, <2>2 DEF Deliver, Signalled
<1>2. CASE AgentStep \/ Begin \/ PromptArrives \/ SendReturns \/ LoseParked \/ UNCHANGED vars
  <2>1. CASE SendReturns
    BY <1>0, <2>1 DEF SendReturns, VariablesOK, Signalled
  <2> QED
    BY <1>0, <1>2, <2>1
    DEF AgentStep, RaiseCall, AwaitResults, Continue, Finish, Begin, PromptArrives,
        LoseParked, vars, VariablesOK, Signalled
<1>3. ASSUME NEW k \in Turns, ToolSignal(k) PROVE Signalled'
  BY <1>0, <1>3 DEF ToolSignal, VariablesOK, Signalled
<1>4. ASSUME NEW k \in Turns,
             \/ Take(k) \/ Subscribe(k) \/ (\E i \in todo[k] : Resolve(k, i))
             \/ EndDebounce(k)
      PROVE  Signalled'
  BY <1>0, <1>4 DEF Take, Subscribe, Resolve, EndDebounce, VariablesOK, Signalled
<1>5. ASSUME NEW k \in Turns,
             \/ ResolveFails(k) \/ AllResolved(k) \/ HangUp(k) \/ ExtendDebounce(k)
             \/ Answer(k) \/ Leave(k) \/ TextAnswer(k) \/ GiveUp(k) \/ Close(k)
      PROVE  Signalled'
  BY <1>0, <1>5
  DEF ResolveFails, AllResolved, HangUp, ExtendDebounce, Answer, Leave, TextAnswer,
      GiveUp, Close, VariablesOK, Signalled
<1> QED
  BY <1>1, <1>2, <1>3, <1>4, <1>5 DEF Next, HandlerStep

\* An exchange that goes on after a step went on before it, or has just begun.
LEMMA WentOn ==
  ASSUME WellTyped, [Next]_vars, GoingOn'
  PROVE  GoingOn \/ PromptArrives
<1> USE DEF GoingOn, MayGoOn, agentVars, turnVars, channels, vars, Next, AgentStep,
     HandlerStep, RaiseCall, AwaitResults, Continue, Finish, Deliver, Begin,
     PromptArrives, SendReturns, Take, Subscribe, Resolve, ResolveFails, AllResolved,
     HangUp, ToolSignal, ExtendDebounce, EndDebounce, Answer, Leave, TextAnswer, GiveUp,
     Close, LoseParked
<1> SUFFICES ASSUME ~PromptArrives PROVE GoingOn
  OBVIOUS
<1>1. prompt
  OBVIOUS
<1>2. agent \in {"running", "blocked"}
  OBVIOUS
<1>3. gone = {}
  OBVIOUS
<1>4. ASSUME NEW k \in Turns, pc[k] = "closing" PROVE FALSE
  BY <1>4 DEF WellTyped, VariablesOK
<1> QED
  BY <1>1, <1>2, <1>3, <1>4

\* The places a call an agent waits for can be in while a turn has it.
WithTurn(c, k) ==
  \/ InSeq(c, events[k]) /\ pc[k] \in Active
  \/ parked = k /\ InMap(c, pending[k], DOMAIN pending[k])
  \/ k > 1 /\ pc[k] = "taken" /\ InMap(c, pending[k - 1], DOMAIN pending[k - 1])
  \/ k > 1 /\ pc[k] = "resolving" /\ InMap(c, pending[k - 1], todo[k])

\* The debounce of a prompt exchange ends only when all calls of the burst have
\* been collected, and some of them wait for their result.
LEMMA DebounceEnds ==
  ASSUME WellTyped, TurnByTurn, Collected, Settled, Signalled, GoingOn,
         NEW k \in Turns, EndDebounce(k)
  PROVE  agent = "blocked" /\ queue = <<>> /\ Unresolved # {} /\ parked = 0
<1> USE TurnsAssumption DEF Turns
<1>0. pc[k] = "debouncing" /\ TurnOrder /\ \A j \in Turns : TurnOK(j)
  BY DEF EndDebounce, TurnByTurn
<1>1. agent = "blocked" /\ queue = <<>>
  BY DEF EndDebounce, GoingOn, MayGoOn
<1>2. parked = 0
  <2>1. parked \in Turns \cup {0}
    BY DEF WellTyped, VariablesOK
  <2>2. parked # k /\ ~(parked \in Turns /\ parked < k) /\ ~(parked \in Turns /\ k < parked)
    BY <1>0 DEF TurnOrder, Ended
  <2> QED
    BY <2>1, <2>2
<1>3. events[k] \in Seq(Calls) /\ events[k] # <<>>
  BY <1>0 DEF WellTyped, VariablesOK, Signalled
<1>4. events[k][1] \in Calls /\ InSeq(events[k][1], events[k])
  BY <1>3 DEF InSeq
<1>5. events[k][1] \in asked
  BY <1>4 DEF Collected, CollectedBy
<1>6. events[k][1] \notin DOMAIN given
  <2> SUFFICES ASSUME events[k][1] \in DOMAIN given PROVE FALSE
    OBVIOUS
  <2>1. PICK j \in Turns :
          /\ j > 1 /\ pc[j] \notin Asleep
          /\ \E i \in DOMAIN pending[j - 1] : pending[j - 1][i] = events[k][1]
    BY DEF Settled
  <2>2. j - 1 \in Turns
    BY <2>1
  <2>3. CASE j - 1 < k
    BY <1>4, <2>1, <2>2, <2>3 DEF Collected
  <2>4. CASE j - 1 = k
    BY <1>0, <2>1, <2>4 DEF TurnOK, Active, Empty
  <2>5. CASE k < j - 1
    BY <1>0, <2>1, <2>2, <2>5 DEF TurnOrder, TurnOK, Ended, Asleep, Empty
  <2> QED
    BY <2>2, <2>3, <2>4, <2>5
<1> QED
  BY <1>1, <1>2, <1>5, <1>6 DEF Unresolved

\* No step of a prompt exchange loses a call the agent waits for.
LEMMA ReachStep ==
  ASSUME WellTyped, TurnByTurn, Collected, Settled, Signalled, Quiet,
         PromptCallsReachable, [Next]_vars
  PROVE  Quiet' /\ PromptCallsReachable'
<1> DEFINE Goal == /\ ~Attended' => agent' = "blocked" /\ Unresolved' # {} /\ queue' = <<>>
                   /\ \A c \in Unresolved' : Reachable(c)'
<1> SUFFICES ASSUME GoingOn' PROVE Goal
  BY DEF Quiet, PromptCallsReachable, GoingOn
<1> USE DEF agentVars, turnVars, channels
<1>0. /\ VariablesOK /\ Mapped /\ MapsOK /\ TurnOrder /\ \A k \in Turns : TurnOK(k)
      /\ Unresolved \subseteq Calls
      /\ \A k \in Turns : k > 1 => k - 1 \in Turns
  BY TurnsAssumption DEF WellTyped, Mapped, TurnByTurn, Unresolved, VariablesOK, Turns
<1>r. \A c : Reachable(c) <=> InSeq(c, queue) \/ \E k \in Turns : WithTurn(c, k)
  BY DEF Reachable, WithTurn, Active
<1>p. \A c : Reachable(c)' <=> InSeq(c, queue') \/ \E k \in Turns : WithTurn(c, k)'
  BY DEF Reachable, WithTurn, Active
<1>g. /\ agent' \in {"running", "blocked"} /\ gone' = {} /\ prompt'
      /\ \A k \in Turns : pc'[k] # "closing"
  BY DEF GoingOn, MayGoOn
<1>w. GoingOn \/ PromptArrives
  BY WentOn
<1>b. GoingOn => /\ \A c \in Unresolved : InSeq(c, queue) \/ \E k \in Turns : WithTurn(c, k)
                 /\ ~Attended => agent = "blocked" /\ Unresolved # {} /\ queue = <<>>
  BY <1>r DEF PromptCallsReachable, Quiet, GoingOn
\* What most steps leave alone.
<1>f. ASSUME UNCHANGED <<queue, events, pending, parked, todo, given, asked>>,
             ~Attended => agent' = agent,
             \A k \in Turns : /\ pc[k] \in Active => pc'[k] \in Active
                              /\ pc[k] = "taken" => pc'[k] = "taken"
                              /\ pc[k] = "resolving" /\ todo[k] # {} => pc'[k] = "resolving",
             GoingOn
      PROVE  Goal
  <2>1. Unresolved' = Unresolved
    BY <1>f DEF Unresolved
  <2>2. Attended => Attended'
    BY <1>f DEF Attended
  <2>3. ASSUME NEW c, NEW k \in Turns, WithTurn(c, k) PROVE WithTurn(c, k)'
    BY <1>f, <2>3 DEF WithTurn, InMap
  <2> QED
    BY <1>b, <1>f, <1>p, <2>1, <2>2, <2>3
<1>1. CASE PromptArrives
  <2>1. 1 \in Turns /\ pc'[1] \in Active
    BY <1>1, TurnsAssumption DEF PromptArrives, Turns, Active
  <2>2. Unresolved' = {}
    BY <1>1 DEF PromptArrives, Signalled, Unresolved
  <2> QED
    BY <2>1, <2>2 DEF Attended
<1> SUFFICES ASSUME GoingOn PROVE Goal
  BY <1>1, <1>w
<1>2. ASSUME NEW c \in Calls, RaiseCall(c) PROVE Goal
  <2>1. \A d : InSeq(d, queue') <=> InSeq(d, queue) \/ d = c
    <3>1. queue \in Seq(Calls \cup {"idle"}) /\ c \in Calls \cup {"idle"}
      BY <1>0 DEF VariablesOK
    <3>2. queue' = Append(queue, c)
      BY <1>2 DEF RaiseCall
    <3> QED
      BY <3>1, <3>2, InAppend
  <2>2. Unresolved' \subseteq Unresolved \cup {c}
    BY <1>2 DEF RaiseCall, Unresolved
  <2>3. Attended /\ Attended' /\ \A d, k : WithTurn(d, k)' <=> WithTurn(d, k)
    BY <1>b, <1>2 DEF RaiseCall, WithTurn, InMap, Attended
  <2> QED
    BY <1>b, <1>p, <2>1, <2>2, <2>3
<1>3. CASE Deliver
  <2>0. queue \in Seq(Calls \cup {"idle"}) /\ queue # <<>>
    BY <1>0, <1>3 DEF Deliver, VariablesOK
  <2>e. PICK e \in Calls \cup {"idle"} : e = Head(queue)
    BY <2>0, TailFacts
  <2>1. Attended /\ Attended' /\ Unresolved' = Unresolved
    BY <1>b, <1>3 DEF Deliver, Attended, Unresolved
  <2>2. \A c : InSeq(c, queue) <=> InSeq(c, queue') \/ c = e
    BY <1>3, <2>0, <2>e, InTail DEF Deliver
  <2>3. ASSUME NEW k \in Turns
        PROVE  /\ \A c : InSeq(c, events[k]) => InSeq(c, events'[k])
               /\ e # "idle" /\ k \in subscribed => InSeq(e, events'[k])
    <3>1. \/ events'[k] = events[k] /\ ~(e # "idle" /\ k \in subscribed)
          \/ events'[k] = Append(events[k], e) /\ e # "idle"
      BY <1>0, <1>3, <2>e DEF Deliver, VariablesOK
    <3>2. events[k] \in Seq(Calls) /\ (e # "idle" => e \in Calls)
      BY <1>0, <2>2 DEF VariablesOK
    <3>3. CASE events'[k] = Append(events[k], e) /\ e # "idle"
      <4>1. \A c : InSeq(c, Append(events[k], e)) <=> InSeq(c, events[k]) \/ c = e
        BY <3>2, <3>3, InAppend
      <4> QED
        BY <3>3, <4>1
    <3> QED
      BY <3>1, <3>3
  <2>4. ASSUME NEW c, NEW k \in Turns, WithTurn(c, k) PROVE WithTurn(c, k)'
    BY <1>3, <2>3, <2>4 DEF Deliver, WithTurn, InMap
  <2>5. e # "idle" => \E k \in Turns : WithTurn(e, k)'
    <3>1. PICK k \in Turns : pc[k] \in Active
      BY <2>1 DEF Attended
    <3>2. k \in subscribed /\ pc'[k] \in Active
      BY <1>0, <1>3, <3>1 DEF Deliver, TurnOK
    <3>3. e # "idle" => WithTurn(e, k)'
      BY <2>3, <3>2 DEF WithTurn
    <3> QED
      BY <3>3
  <2>6. e = "idle" => e \notin Unresolved
    BY <1>0, TurnsAssumption
  <2> QED
    BY <1>b, <1>p, <2>1, <2>2, <2>4, <2>5, <2>6
<1>4. ASSUME NEW k \in Turns, Take(k) PROVE Goal
  <2>1. k > 1 /\ parked = k - 1
    BY <1>0, <1>4, TurnsAssumption DEF Take, VariablesOK, Turns
  <2>2. /\ UNCHANGED <<agent, queue, events, pending, todo, given, asked>>
        /\ pc[k] = "new" /\ pc' = [pc EXCEPT ![k] = "taken"]
    BY <1>4 DEF Take
  <2>3. Unresolved' = Unresolved /\ (Attended => Attended')
    BY <1>0, <2>2 DEF Unresolved, Attended, Active, VariablesOK
  <2>4. ASSUME NEW c, NEW j \in Turns, WithTurn(c, j) PROVE \E m \in Turns : WithTurn(c, m)'
    <3>1. CASE parked = j /\ InMap(c, pending[j], DOMAIN pending[j])
      BY <1>0, <2>1, <2>2, <3>1 DEF WithTurn, InMap, VariablesOK
    <3>2. CASE parked # j \/ ~InMap(c, pending[j], DOMAIN pending[j])
      <4>1. WithTurn(c, j)'
        BY <1>0, <2>2, <2>4, <3>2 DEF WithTurn, InMap, VariablesOK, Active
      <4> QED
        BY <4>1
    <3> QED
      BY <3>1, <3>2
  <2> QED
    BY <1>b, <1>p, <2>2, <2>3, <2>4
<1>5. ASSUME NEW k \in Turns, Subscribe(k) PROVE Goal
  <2>1. /\ UNCHANGED <<agent, queue, events, pending, parked, given, asked>>
        /\ pc[k] = "taken" /\ pc' = [pc EXCEPT ![k] = "resolving"]
        /\ todo' = [todo EXCEPT ![k] = DOMAIN pending[k - 1]]
    BY <1>5 DEF Subscribe
  <2>2. Unresolved' = Unresolved /\ (Attended => Attended')
    BY <1>0, <2>1 DEF Unresolved, Attended, Active, VariablesOK
  <2>3. ASSUME NEW c, NEW j \in Turns, WithTurn(c, j) PROVE WithTurn(c, j)'
    BY <1>0, <2>1, <2>3 DEF WithTurn, InMap, VariablesOK, Mapped, Active
  <2> QED
    BY <1>b, <1>p, <2>1, <2>2, <2>3
<1>6. ASSUME NEW k \in Turns, NEW i \in todo[k], Resolve(k, i) PROVE Goal
  <2>1. /\ DOMAIN given' = DOMAIN given \cup {pending[k - 1][i]}
        /\ todo' = [todo EXCEPT ![k] = @ \ {i}]
        /\ pc[k] = "resolving"
        /\ UNCHANGED <<agent, queue, events, pending, parked, asked, pc>>
    BY <1>6 DEF Resolve
  <2>2. Unresolved' = Unresolved \ {pending[k - 1][i]}
    BY <2>1 DEF Unresolved
  <2>3. Attended'
    BY <2>1 DEF Attended, Active
  <2>4. ASSUME NEW c \in Unresolved', NEW j \in Turns, WithTurn(c, j) PROVE WithTurn(c, j)'
    BY <1>0, <2>1, <2>2, <2>4 DEF WithTurn, InMap, Mapped
  <2> QED
    BY <1>b, <1>p, <2>1, <2>2, <2>3, <2>4
<1>7. ASSUME NEW k \in Turns, EndDebounce(k) PROVE Goal
  <2>1. agent = "blocked" /\ queue = <<>> /\ Unresolved # {} /\ parked \notin Turns
    BY <1>7, DebounceEnds, TurnsAssumption DEF Turns
  <2>2. /\ UNCHANGED <<agent, queue, events, todo, given, asked>>
        /\ pc[k] = "debouncing" /\ pc' = [pc EXCEPT ![k] = "answering"]
        /\ pending' = [pending EXCEPT ![k] = [i \in DOMAIN events[k] |-> events[k][i]]]
        /\ parked' = k
    BY <1>7 DEF EndDebounce, mintToolCalls
  <2>3. Unresolved' = Unresolved
    BY <2>2 DEF Unresolved
  <2>4. \A c : InSeq(c, events[k]) => WithTurn(c, k)'
    BY <1>0, <2>2 DEF WithTurn, InMap, InSeq, Mapped
  <2>5. ASSUME NEW c, NEW j \in Turns, WithTurn(c, j)
        PROVE  \E m \in Turns : WithTurn(c, m)'
    <3>1. CASE j = k
      BY <2>1, <2>2, <2>4, <2>5, <3>1 DEF WithTurn
    <3>2. CASE j # k
      <4>1. j > 1 /\ pc[j] \in {"taken", "resolving"} => j - 1 # k
        BY <1>0, <2>2, TurnsAssumption DEF TurnOrder, Ended, Turns
      <4>2. WithTurn(c, j)'
        BY <1>0, <2>1, <2>2, <2>5, <3>2, <4>1 DEF WithTurn, InMap, VariablesOK, Mapped
      <4> QED
        BY <4>2
    <3> QED
      BY <3>1, <3>2
  <2> QED
    BY <1>b, <1>p, <2>1, <2>2, <2>3, <2>5
<1>8. CASE AwaitResults \/ Continue \/ Begin \/ SendReturns \/ UNCHANGED vars
  <2>1. CASE SendReturns
    BY <1>0, <1>f, <1>g, <2>1 DEF SendReturns, VariablesOK, Active
  <2>2. CASE Continue \/ AwaitResults
    BY <1>b, <1>f, <2>2 DEF AwaitResults, Continue
  <2> QED
    BY <1>0, <1>f, <1>8, <2>1, <2>2 DEF Begin, vars, VariablesOK, Active
<1>9. ~Finish /\ ~LoseParked
  BY <1>g DEF Finish, LoseParked
<1>10. ASSUME NEW k \in Turns,
              \/ ResolveFails(k) \/ TextAnswer(k) \/ GiveUp(k) \/ HangUp(k) \/ Close(k)
       PROVE  FALSE
  BY <1>0, <1>g, <1>10 DEF ResolveFails, TextAnswer, GiveUp, HangUp, Close, VariablesOK
<1>11. ASSUME NEW k \in Turns,
              AllResolved(k) \/ ToolSignal(k) \/ ExtendDebounce(k) \/ Answer(k) \/ Leave(k)
       PROVE  Goal
  BY <1>0, <1>f, <1>11
  DEF AllResolved, ToolSignal, ExtendDebounce, Answer, Leave, VariablesOK, Active
<1> QED
  BY <1>1, <1>2, <1>3, <1>4, <1>5, <1>6, <1>7, <1>8, <1>9, <1>10, <1>11
  DEF Next, AgentStep, HandlerStep

-----------------------------------------------------------------------------
(* The theorems.                                                           *)

TurnsInv ==
  /\ WellTyped /\ TurnByTurn /\ Collected /\ Settled
  /\ Signalled /\ Quiet /\ PromptCallsReachable

\* The invariant holds of every exchange, however many turns and calls it has.
LEMMA TurnsInvAlways == Spec => []TurnsInv
<1>1. Init => TurnsInv
  <2> SUFFICES ASSUME Init PROVE TurnsInv
    OBVIOUS
  <2> USE TurnsAssumption DEF Init, Turns
  <2>1. VariablesOK
    BY DEF VariablesOK, Empty
  <2>2. Mapped
    BY DEF Mapped, MapsOK, Empty
  <2>3. TurnByTurn
    BY DEF TurnByTurn, TurnOrder, TurnOK, Asleep, Active, Ended
  <2>4. Collected
    BY DEF Collected, CollectedBy, CallOnce, InSeq, Empty
  <2>5. Settled
    BY DEF Settled, OwnResult, Empty
  <2>6. Signalled /\ Quiet /\ PromptCallsReachable
    BY DEF Signalled, Quiet, PromptCallsReachable, GoingOn, MayGoOn
  <2> QED
    BY <2>1, <2>2, <2>3, <2>4, <2>5, <2>6 DEF TurnsInv, WellTyped
<1>2. TurnsInv /\ [Next]_vars => TurnsInv'
  BY WellTypedStep, TurnByTurnStep, CollectedStep, SettledStep, SignalledStep, ReachStep
  DEF TurnsInv
<1> QED
  BY <1>1, <1>2, PTL DEF Spec

\* However many turns and calls: every reachable state is well typed, a turn
\* parks only calls it collected, gets results for and resolves only what the
\* turn before parked, and only calls that were made are resolved.
THEOREM TypeCorrect == Spec => []TypeOK
<1>1. TurnsInv => TypeOK
  <2> SUFFICES ASSUME TurnsInv, NEW c \in DOMAIN given PROVE c \in asked
    BY DEF TurnsInv, WellTyped, Mapped, TypeOK
  <2>1. PICK k \in Turns :
          /\ k > 1 /\ \E i \in DOMAIN pending[k - 1] : pending[k - 1][i] = c
    BY DEF TurnsInv, Settled
  <2>2. k - 1 \in Turns /\ c \in Calls
    BY <2>1, TurnsAssumption DEF Turns, TurnsInv, WellTyped, VariablesOK
  <2>3. InSeq(c, events[k - 1])
    BY <2>1, <2>2 DEF TurnsInv, Collected, CollectedBy, InSeq
  <2> QED
    BY <2>2, <2>3 DEF TurnsInv, Collected, CollectedBy
<1> QED
  BY <1>1, TurnsInvAlways, PTL

\* However many turns overlap and however late the agent's calls come, no tool
\* call is resolved twice.
THEOREM ResolvedOnceCorrect == Spec => []ResolvedOnce
<1>1. TurnsInv => ResolvedOnce
  BY DEF TurnsInv, Settled, ResolvedOnce
<1> QED
  BY <1>1, TurnsInvAlways, PTL

\* Whatever results the client sends and in whatever order the pending map is
\* walked, a call is resolved with its own result or with the empty one.
THEOREM OwnResultCorrect == Spec => []OwnResult
<1>1. TurnsInv => OwnResult
  BY DEF TurnsInv, Settled
<1> QED
  BY <1>1, TurnsInvAlways, PTL

\* However many turns and calls: while every burst of calls is shorter than the
\* debounce and the exchange can go on, no call the agent waits for is lost
\* between the queue, the turns' collections, the parked map and resolvePending.
THEOREM ReachableCorrect == Spec => []PromptCallsReachable
<1>1. TurnsInv => PromptCallsReachable
  BY DEF TurnsInv
<1> QED
  BY <1>1, TurnsInvAlways, PTL

-----------------------------------------------------------------------------
(* The refinement: the turns lead the session through its life.            *)

\* Nobody drives or parks a session that is gone, and one that nobody drives or
\* parks is torn down.
Somewhere ==
  /\ agent = "gone" => parked = 0 /\ Driving = {} /\ pc[1] # "new"
  /\ pc[1] # "new" /\ parked = 0 /\ Driving = {} => TornDown

\* The phase is read off the turns: the order of the turns keeps "astray" out.
PhaseRight ==
  /\ PhaseNow \in {"unborn", "serving", "parked", "retiring"}
  /\ PhaseNow = "unborn" <=> pc[1] = "new"
  /\ PhaseNow = "serving" <=> Driving # {}
  /\ PhaseNow = "parked" <=> parked # 0

LEMMA PhaseFacts == WellTyped /\ TurnOrder /\ Somewhere => PhaseRight
<1> SUFFICES ASSUME WellTyped, TurnOrder, Somewhere PROVE PhaseRight
  OBVIOUS
<1> USE TurnsAssumption DEF Turns
<1>0. 1 \in Turns /\ \A k \in Turns : k \in Nat /\ 1 <= k
  OBVIOUS
<1>1. ASSUME NEW k \in Driving
      PROVE  Driving = {k} /\ pc[1] # "new" /\ parked = 0 /\ ~TornDown
  <2>1. k \in Turns /\ pc[k] \notin Ended /\ pc[k] \notin {"new", "closing", "answering"}
    BY DEF Driving, Ended
  <2>2. ASSUME NEW j \in Turns, j # k PROVE pc[j] \in Ended \cup {"new"}
    BY <1>0, <2>1, <2>2 DEF TurnOrder
  <2>3. Driving = {k}
    BY <2>1, <2>2 DEF Driving, Ended
  <2>4. pc[1] # "new"
    BY <1>0, <2>1 DEF TurnOrder, Ended
  <2>5. parked = 0
    <3> SUFFICES ASSUME parked # 0 PROVE FALSE
      OBVIOUS
    <3>1. parked \in Turns
      BY DEF WellTyped, VariablesOK
    <3> QED
      BY <1>0, <2>1, <2>2, <3>1 DEF TurnOrder, Ended
  <2>6. ~TornDown
    BY <2>1, <2>2, <2>3 DEF TornDown, Somewhere, Ended
  <2> QED
    BY <2>3, <2>4, <2>5, <2>6
<1>2. ASSUME parked # 0
      PROVE  Driving = {} /\ pc[1] # "new" /\ ~TornDown
  <2>1. parked \in Turns
    BY <1>2 DEF WellTyped, VariablesOK
  <2>2. pc[parked] \in Ended \cup {"answering"} /\ \A k \in Turns : k > parked => pc[k] = "new"
    BY <1>2 DEF TurnOrder
  <2>3. ASSUME NEW j \in Turns PROVE pc[j] \in Ended \cup {"new", "answering"}
    BY <1>0, <2>1, <2>2 DEF TurnOrder, Ended
  <2>4. pc[1] # "new"
    BY <1>0, <2>1, <2>2 DEF TurnOrder, Ended
  <2>5. Driving = {}
    BY <1>1, <1>2
  <2>6. ~TornDown
    BY <1>2, <2>3 DEF TornDown, Somewhere, Ended
  <2> QED
    BY <2>4, <2>5, <2>6
<1>3. CASE Driving # {}
  <2>1. (\E k \in Turns : Driving = {k}) /\ pc[1] # "new" /\ parked = 0 /\ ~TornDown
    BY <1>1, <1>3 DEF Driving
  <2> QED
    BY <1>3, <2>1 DEF PhaseNow, PhaseRight
<1>4. CASE Driving = {} /\ parked # 0
  BY <1>2, <1>4 DEF PhaseNow, PhaseRight
<1>5. CASE Driving = {} /\ parked = 0
  BY <1>5 DEF PhaseNow, Somewhere, PhaseRight
<1> QED
  BY <1>3, <1>4, <1>5

\* Whoever stops driving parks the session or tears it down.
LEMMA SomewhereStep ==
  ASSUME WellTyped, TurnOrder, Somewhere, PhaseRight, [Next]_vars
  PROVE  Somewhere'
<1> USE TurnsAssumption DEF agentVars, turnVars, channels
<1>0. /\ 1 \in Turns /\ 0 \notin Turns /\ DOMAIN pc = Turns
      /\ \A k \in Turns : pc[k] # "new" => pc[1] # "new"
  <2>1. 1 \in Turns /\ 0 \notin Turns /\ \A k \in Turns : k = 1 \/ 1 < k
    BY DEF Turns
  <2>2. \A k \in Turns : 1 < k /\ pc[k] # "new" => pc[1] \in Ended
    BY <2>1 DEF TurnOrder
  <2> QED
    BY <2>1, <2>2 DEF WellTyped, VariablesOK, Ended
<1>1. \A k \in Turns : k \in Driving <=> pc[k] \in {"sending", "taken", "resolving",
                                                     "waiting", "debouncing"}
  BY DEF Driving
<1>2. \A k \in Turns : k \in Driving' <=> pc'[k] \in {"sending", "taken", "resolving",
                                                       "waiting", "debouncing"}
  BY DEF Driving
<1>3. \A k \in Driving : Driving = {k} /\ pc[1] # "new" /\ parked = 0 /\ agent # "gone"
  <2> SUFFICES ASSUME NEW k \in Driving
               PROVE  Driving = {k} /\ pc[1] # "new" /\ parked = 0 /\ agent # "gone"
    OBVIOUS
  <2>1. PhaseNow = "serving" /\ k \in Turns
    BY DEF Driving, PhaseRight
  <2> QED
    BY <2>1 DEF PhaseNow, PhaseRight, TornDown
<1>4. CASE UNCHANGED <<pc, parked>> /\ (agent' = "gone" <=> agent = "gone")
  BY <1>4 DEF Somewhere, Driving, TornDown
<1>5. CASE LoseParked
  <2>1. Driving = {} /\ pc[1] # "new"
    BY <1>5 DEF LoseParked, PhaseRight
  <2> QED
    BY <1>5, <2>1 DEF LoseParked, Somewhere, Driving, TornDown
<1>6. CASE Begin
  <2>1. 1 \in Driving' /\ pc'[1] # "new" /\ agent # "gone"
    BY <1>0, <1>2, <1>6 DEF Begin, Somewhere
  <2> QED
    BY <1>6, <2>1 DEF Begin, Somewhere
<1>7. ASSUME NEW k \in Turns, Take(k) PROVE Somewhere'
  <2>1. k \in Driving' /\ pc'[k] # "new" /\ parked # 0
    <3>1. parked \in Turns /\ pc'[k] = "taken"
      BY <1>0, <1>7 DEF Take, WellTyped, VariablesOK
    <3> QED
      BY <1>0, <1>2, <3>1
  <2>2. agent' # "gone" /\ pc[1] # "new"
    BY <1>7, <2>1 DEF Take, Somewhere, PhaseRight
  <2> QED
    BY <2>1, <2>2 DEF Somewhere
<1>8. ASSUME NEW k \in Turns, NEW v, k \in Driving, pc' = [pc EXCEPT ![k] = v], v # "new",
             agent' = agent,
             \/ v \in {"sending", "taken", "resolving", "waiting", "debouncing"}
             \/ v = "closing"
             \/ parked' # 0,
             parked' # 0 => v = "answering"
      PROVE  Somewhere'
  <2>1. agent' # "gone" /\ pc'[k] = v
    BY <1>0, <1>3, <1>8
  <2> QED
    BY <1>2, <1>8, <2>1 DEF Somewhere, TornDown
<1>9. ASSUME NEW k \in Turns, Close(k) PROVE Somewhere'
  <2>1. pc[k] = "closing" /\ pc' = [pc EXCEPT ![k] = "done"] /\ parked' = parked /\ agent' = "gone"
    BY <1>9 DEF Close
  <2>2. TornDown /\ pc[1] # "new"
    BY <1>0, <2>1 DEF TornDown
  <2>3. Driving = {} /\ parked = 0
    BY <2>2 DEF PhaseNow, PhaseRight
  <2>4. Driving' = {} /\ pc'[1] # "new"
    <3>1. \A j \in Turns : pc'[j] = pc[j] \/ pc'[j] = "done"
      BY <1>0, <2>1
    <3>2. \A j \in Turns : j \notin Driving'
      BY <1>1, <1>2, <2>3, <3>1
    <3> QED
      BY <1>0, <2>2, <3>1, <3>2 DEF Driving
  <2> QED
    BY <2>1, <2>3, <2>4 DEF Somewhere, TornDown
<1>10. ASSUME NEW k \in Turns, Answer(k) \/ Leave(k) PROVE Somewhere'
  <2>1. PICK v \in {"leaving", "done"} :
          /\ pc[k] \in {"answering", "leaving"} /\ pc' = [pc EXCEPT ![k] = v]
          /\ parked' = parked /\ agent' = agent
    BY <1>10 DEF Answer, Leave
  <2>2. \A j \in Turns : pc'[j] = IF j = k THEN v ELSE pc[j]
    BY <1>0, <2>1
  <2>3. \A j \in Turns : j \in Driving' <=> j \in Driving
    BY <1>1, <1>2, <2>1, <2>2
  <2>4. Driving' = Driving
    BY <2>3 DEF Driving
  <2>5. TornDown' <=> TornDown
    BY <2>1, <2>2 DEF TornDown
  <2>6. pc'[1] = "new" <=> pc[1] = "new"
    BY <1>0, <2>1, <2>2
  <2> QED
    BY <2>1, <2>4, <2>5, <2>6 DEF Somewhere
<1>11. CASE SendReturns
  <2>1. PICK v \in {"waiting", "closing"} : pc' = [pc EXCEPT ![1] = v]
    BY <1>11 DEF SendReturns
  <2>2. 1 \in Driving /\ agent' = agent /\ parked' = parked
    BY <1>0, <1>1, <1>11 DEF SendReturns
  <2> QED
    BY <1>0, <1>3, <1>8, <2>1, <2>2
<1>12. ASSUME NEW k \in Turns,
              \/ Subscribe(k) \/ ResolveFails(k) \/ AllResolved(k) \/ ToolSignal(k)
              \/ TextAnswer(k) \/ GiveUp(k)
       PROVE  Somewhere'
  <2>1. PICK v \in {"resolving", "closing", "waiting", "debouncing"} :
          /\ pc[k] \in {"taken", "resolving", "waiting"} /\ pc' = [pc EXCEPT ![k] = v]
          /\ agent' = agent /\ parked' = parked
    BY <1>12 DEF Subscribe, ResolveFails, AllResolved, ToolSignal, TextAnswer, GiveUp
  <2>2. k \in Driving
    BY <1>1, <2>1
  <2> QED
    BY <1>3, <1>8, <2>1, <2>2
<1>13. ASSUME NEW k \in Turns, EndDebounce(k) PROVE Somewhere'
  <2>1. /\ pc[k] = "debouncing" /\ pc' = [pc EXCEPT ![k] = "answering"]
        /\ agent' = agent /\ parked' = k
    BY <1>13 DEF EndDebounce
  <2>2. k \in Driving /\ k # 0
    BY <1>0, <1>1, <2>1
  <2> QED
    BY <1>8, <2>1, <2>2
<1>14. CASE AgentStep \/ Deliver \/ PromptArrives \/ UNCHANGED vars
  <2>1. UNCHANGED <<pc, parked>> /\ (agent' = "gone" <=> agent = "gone")
    BY <1>14 DEF AgentStep, RaiseCall, AwaitResults, Continue, Finish, Deliver,
                 PromptArrives, vars
  <2> QED
    BY <1>4, <2>1
<1>15. ASSUME NEW k \in Turns,
              (\E i \in todo[k] : Resolve(k, i)) \/ ExtendDebounce(k) \/ HangUp(k)
       PROVE  Somewhere'
  <2>1. UNCHANGED <<pc, parked>> /\ (agent' = "gone" <=> agent = "gone")
    BY <1>15 DEF Resolve, ExtendDebounce, HangUp
  <2> QED
    BY <1>4, <2>1
<1> QED
  BY <1>5, <1>6, <1>7, <1>9, <1>10, <1>11, <1>12, <1>13, <1>14, <1>15
  DEF Next, HandlerStep

phaseBar == [s \in {"session"} |-> PhaseNow]

LEMMA NoneParked == Lifecycle!Cardinality({}) = 0
<1>1. Lifecycle!Cardinality({}) = Cardinality({})
  BY DEF Lifecycle!Cardinality, Cardinality
<1> QED
  BY <1>1, FS_EmptySet

\* Which changes of the phase are steps of a session's life.
LEMMA Moves ==
  ASSUME \/ PhaseNow' = PhaseNow
         \/ PhaseNow = "unborn" /\ PhaseNow' = "serving"
         \/ PhaseNow = "serving" /\ PhaseNow' \in {"parked", "retiring"}
         \/ PhaseNow = "parked" /\ PhaseNow' \in {"serving", "retiring"}
  PROVE  [Lifecycle!LifecycleNext]_phaseBar
<1> DEFINE x == "session"
<1>0. /\ DOMAIN phaseBar = {x} /\ phaseBar[x] = PhaseNow
      /\ phaseBar' = [phaseBar EXCEPT ![x] = PhaseNow']
      /\ PhaseNow' = PhaseNow => phaseBar' = phaseBar
  BY DEF phaseBar
<1>1. CASE PhaseNow = "unborn" /\ PhaseNow' = "serving"
  <2>1. Lifecycle!Open(x)
    BY <1>0, <1>1 DEF Lifecycle!Open, phaseBar
  <2> QED
    BY <2>1 DEF Lifecycle!LifecycleNext
<1>2. CASE PhaseNow = "serving" /\ PhaseNow' = "parked"
  <2>1. Lifecycle!ParkedNow = {}
    BY <1>2 DEF Lifecycle!ParkedNow
  <2>2. Lifecycle!Cardinality(Lifecycle!ParkedNow) < 1
    BY <2>1, NoneParked
  <2>3. Lifecycle!Park(x)
    BY <1>0, <1>2, <2>2 DEF Lifecycle!Park, phaseBar
  <2> QED
    BY <2>3 DEF Lifecycle!LifecycleNext
<1>3. CASE PhaseNow = "serving" /\ PhaseNow' = "retiring"
  <2>1. Lifecycle!Retire(x)
    BY <1>0, <1>3 DEF Lifecycle!Retire, phaseBar
  <2> QED
    BY <2>1 DEF Lifecycle!LifecycleNext
<1>4. CASE PhaseNow = "parked" /\ PhaseNow' = "serving"
  <2>1. Lifecycle!Claim(x)
    BY <1>0, <1>4 DEF Lifecycle!Claim, phaseBar
  <2> QED
    BY <2>1 DEF Lifecycle!LifecycleNext
<1>5. CASE PhaseNow = "parked" /\ PhaseNow' = "retiring"
  <2>1. {x} \subseteq Lifecycle!ParkedNow /\ {x} # {}
    BY <1>5 DEF Lifecycle!ParkedNow
  <2>2. Lifecycle!Expire({x})
    BY <1>5, <2>1 DEF Lifecycle!Expire, phaseBar
  <2>3. \E S \in SUBSET {"session"} : Lifecycle!Expire(S)
    BY <2>2
  <2> QED
    BY <2>3 DEF Lifecycle!LifecycleNext
<1> QED
  BY <1>0, <1>1, <1>2, <1>3, <1>4, <1>5

\* Every step of the turns moves the session on in its life, or not at all.
LEMMA LifecycleStep ==
  ASSUME WellTyped, TurnOrder, PhaseRight, PhaseRight', [Next]_vars
  PROVE  [Lifecycle!LifecycleNext]_phaseBar
<1> USE TurnsAssumption DEF agentVars, turnVars, channels
<1>0. 1 \in Turns /\ 0 \notin Turns /\ DOMAIN pc = Turns
  BY DEF WellTyped, VariablesOK, Turns
<1>1. \A k \in Turns : k \in Driving <=> pc[k] \in {"sending", "taken", "resolving",
                                                     "waiting", "debouncing"}
  BY DEF Driving
<1>2. \A k \in Turns : k \in Driving' <=> pc'[k] \in {"sending", "taken", "resolving",
                                                       "waiting", "debouncing"}
  BY DEF Driving
<1> DEFINE Moved == [Lifecycle!LifecycleNext]_phaseBar
<1> SUFFICES Moved
  OBVIOUS
<1>3. PhaseNow' = PhaseNow => Moved
  BY Moves
<1> HIDE DEF Moved
<1>4. Driving' = Driving /\ parked' = parked /\ (pc'[1] = "new" <=> pc[1] = "new") => Moved
  BY <1>3 DEF PhaseRight
<1>5. ASSUME UNCHANGED <<pc, parked>> PROVE Moved
  BY <1>4, <1>5 DEF Driving
<1>6. ASSUME NEW k \in Turns, pc[k] \notin {"new"}, k \notin Driving, NEW v \in {"leaving", "done"},
             pc' = [pc EXCEPT ![k] = v], parked' = parked
      PROVE  Moved
  <2>1. \A j \in Turns : pc'[j] = IF j = k THEN v ELSE pc[j]
    BY <1>0, <1>6
  <2>2. \A j \in Turns : j \in Driving' <=> j \in Driving
    BY <1>1, <1>2, <1>6, <2>1
  <2>3. Driving' = Driving
    BY <2>2 DEF Driving
  <2>4. pc'[1] = "new" <=> pc[1] = "new"
    BY <1>0, <1>6, <2>1
  <2> QED
    BY <1>4, <1>6, <2>3, <2>4
<1>7. ASSUME NEW k \in Turns, k \in Driving, NEW v, v # "new", pc' = [pc EXCEPT ![k] = v]
      PROVE  Moved
  <2>1. PhaseNow = "serving" /\ pc[1] # "new"
    BY <1>7 DEF PhaseRight
  <2>2. pc'[1] # "new"
    BY <1>0, <1>7, <2>1
  <2>3. PhaseNow' \in {"serving", "parked", "retiring"}
    BY <2>2 DEF PhaseRight
  <2> QED
    BY <1>3, <2>1, <2>3, Moves DEF Moved
<1>8. CASE Begin
  <2>1. pc[1] = "new" /\ pc'[1] = "sending"
    BY <1>0, <1>8 DEF Begin
  <2>2. PhaseNow = "unborn" /\ PhaseNow' = "serving"
    BY <1>0, <1>2, <2>1 DEF PhaseRight
  <2> QED
    BY <2>2, Moves DEF Moved
<1>9. ASSUME NEW k \in Turns, Take(k) PROVE Moved
  <2>1. parked \in Turns /\ pc'[k] = "taken"
    BY <1>0, <1>9 DEF Take, WellTyped, VariablesOK
  <2>2. PhaseNow = "parked" /\ PhaseNow' = "serving"
    BY <1>0, <1>2, <2>1 DEF PhaseRight
  <2> QED
    BY <2>2, Moves DEF Moved
<1>10. CASE LoseParked
  <2>1. parked # 0 /\ parked' = 0 /\ pc' = pc
    BY <1>10 DEF LoseParked
  <2>2. PhaseNow = "parked"
    BY <2>1 DEF PhaseRight
  <2>3. Driving' = {} /\ pc'[1] # "new"
    BY <2>1, <2>2 DEF PhaseRight, Driving
  <2>4. PhaseNow' = "retiring"
    BY <2>1, <2>3 DEF PhaseRight
  <2> QED
    BY <2>2, <2>4, Moves DEF Moved
<1>11. CASE SendReturns
  <2>1. PICK v \in {"waiting", "closing"} : pc' = [pc EXCEPT ![1] = v]
    BY <1>11 DEF SendReturns
  <2>2. 1 \in Driving
    BY <1>0, <1>1, <1>11 DEF SendReturns
  <2> QED
    BY <1>0, <1>7, <2>1, <2>2
<1>12. ASSUME NEW k \in Turns,
              \/ Subscribe(k) \/ ResolveFails(k) \/ AllResolved(k) \/ ToolSignal(k)
              \/ EndDebounce(k) \/ TextAnswer(k) \/ GiveUp(k)
       PROVE  Moved
  <2>1. PICK v \in {"resolving", "closing", "waiting", "debouncing", "answering"} :
          /\ pc[k] \in {"taken", "resolving", "waiting", "debouncing"}
          /\ pc' = [pc EXCEPT ![k] = v]
    BY <1>12 DEF Subscribe, ResolveFails, AllResolved, ToolSignal, EndDebounce,
                 TextAnswer, GiveUp
  <2>2. k \in Driving
    BY <1>1, <2>1
  <2> QED
    BY <1>7, <2>1, <2>2
<1>13. ASSUME NEW k \in Turns, Answer(k) \/ Leave(k) \/ Close(k) PROVE Moved
  <2>1. PICK v \in {"leaving", "done"} :
          /\ pc[k] \in {"answering", "leaving", "closing"} /\ pc' = [pc EXCEPT ![k] = v]
          /\ parked' = parked
    BY <1>13 DEF Answer, Leave, Close
  <2>2. k \notin Driving /\ pc[k] \notin {"new"}
    BY <1>1, <2>1
  <2> QED
    BY <1>6, <2>1, <2>2
<1>14. CASE AgentStep \/ Deliver \/ PromptArrives \/ UNCHANGED vars
  BY <1>5, <1>14 DEF AgentStep, RaiseCall, AwaitResults, Continue, Finish, Deliver,
                     PromptArrives, vars
<1>15. ASSUME NEW k \in Turns,
              (\E i \in todo[k] : Resolve(k, i)) \/ ExtendDebounce(k) \/ HangUp(k)
       PROVE  Moved
  BY <1>5, <1>15 DEF Resolve, ExtendDebounce, HangUp
<1> QED
  BY <1>8, <1>9, <1>10, <1>11, <1>12, <1>13, <1>14, <1>15 DEF Next, HandlerStep

\* However many turns and calls: seen through its turns, the session leads the
\* life of SessionLifecycle.
THEOREM Refinement == Spec => ImplementsLifecycle
<1>1. Init => Somewhere
  BY TurnsAssumption DEF Init, Somewhere, Turns
<1>2. TurnsInv => WellTyped /\ TurnOrder
  BY DEF TurnsInv, TurnByTurn
<1>3. TurnsInv /\ Somewhere => PhaseRight
  BY <1>2, PhaseFacts
<1>4. TurnsInv /\ Somewhere /\ [Next]_vars => Somewhere'
  BY <1>2, <1>3, SomewhereStep
<1>5. Init => Lifecycle!LifecycleInit
  BY TurnsAssumption DEF Init, Turns, PhaseNow, Lifecycle!LifecycleInit
<1>6. /\ TurnsInv /\ Somewhere /\ PhaseRight /\ PhaseRight' /\ [Next]_vars
        => [Lifecycle!LifecycleNext]_phaseBar
  BY <1>2, LifecycleStep
<1> QED
  BY <1>1, <1>3, <1>4, <1>5, <1>6, TurnsInvAlways, PTL
     DEF Spec, ImplementsLifecycle, Lifecycle!LifecycleSpec, phaseBar

=============================================================================
