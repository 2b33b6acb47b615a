------------------------- MODULE Conversation_proofs -------------------------
(***************************************************************************)
(* Proofs about Conversation, for every set of clients and tokens, every   *)
(* choice of those who trim, and histories of any length.                  *)
(***************************************************************************)
EXTENDS Conversation, FiniteSetTheorems, WellFoundedInduction, TLAPS

\* A token a client has heard of was minted, and while its session is parked
\* it is parked for that client.
Known(c, t) == t \in minted /\ (t \in DOMAIN parked => parked[t] = c)

TokensKnown(c) ==
  /\ \A k \in DOMAIN history[c] : history[c][k].tok # NoToken => Known(c, history[c][k].tok)
  /\ outstanding[c] # NoToken => Known(c, outstanding[c])

\* A history ends with the open exchange, if there is one: the calls, and then
\* their results.
Ending(c) ==
  LET n == Len(history[c])
      t == outstanding[c]
  IN  IF t = NoToken
      THEN history[c] = <<>> \/ history[c][n] \in {User, Text}
      ELSE \/ n >= 1 /\ history[c][n] = Calls(t)
           \/ n >= 2 /\ history[c][n] = Result(t) /\ history[c][n - 1] = Calls(t)

\* What ConflictsAreOwed says of one client.
Owed(c) ==
  LET exchanges == {history[c][k].tok : k \in DOMAIN history[c]} \ {NoToken} IN
  answer[c] = "conflict" =>
    /\ c \in Trimmers => ~Awaited(c) /\ Last(c) # User
    /\ Cardinality(exchanges) = 1 => ~Awaited(c)

ClientOK(c) == TokensKnown(c) /\ Ending(c) /\ Owed(c)

ConversationInv == TypeOK /\ \A c \in Clients : ClientOK(c)

-----------------------------------------------------------------------------
(* First and last.                                                         *)

\* A set of numbers has a least one, which First chooses.
LEMMA FirstIsLeast ==
  ASSUME NEW K \in SUBSET Nat, K # {}
  PROVE  First(K) \in K /\ \A j \in K : First(K) <= j
<1>1. \E k \in K : \A j \in K : ~(<<j, k>> \in OpToRel(<, Nat))
  BY NatLessThanWellFounded, WFMin
<1>2. \A j \in Nat, k \in Nat : <<j, k>> \in OpToRel(<, Nat) <=> j < k
  BY DEF OpToRel
<1>3. \A j \in Nat, k \in Nat : ~(j < k) <=> k <= j
  OBVIOUS
<1>4. \E k \in K : \A j \in K : k <= j
  BY <1>1, <1>2, <1>3
<1> QED
  BY <1>4 DEF First

\* A set of indices has a greatest one, which LastIndex chooses.
LEMMA LastIsGreatest ==
  ASSUME NEW n \in Nat, NEW K \in SUBSET (1..n), K # {}
  PROVE  LastIndex(K) \in K /\ \A j \in K : j <= LastIndex(K)
<1> DEFINE D == {n - k : k \in K}
<1>0. \A k \in K : k \in Nat /\ n - k \in Nat
  OBVIOUS
<1>1. D \in SUBSET Nat /\ D # {}
  BY <1>0
<1>2. PICK d \in D : \A e \in D : d <= e
  BY <1>1, FirstIsLeast
<1>3. \E k \in K : \A j \in K : j <= k
  BY <1>0, <1>2
<1> QED
  BY <1>3 DEF LastIndex

-----------------------------------------------------------------------------
(* Messages.                                                               *)

LEMMA MessageFacts ==
  /\ User.role = "user" /\ Text.role = "assistant"
  /\ User.tok = NoToken /\ Text.tok = NoToken
  /\ User \in Message /\ Text \in Message
  /\ \A t \in Tokens \cup {NoToken} :
       /\ Calls(t).role = "assistant" /\ Calls(t).tok = t /\ Calls(t) \in Message
       /\ Result(t).role = "tool" /\ Result(t).tok = t /\ Result(t) \in Message
BY DEF User, Text, Calls, Result, Message

\* The token comes from a message, and from a result if any carries one.
LEMMA TokenFromMessage ==
  ASSUME NEW messages \in Seq(Message)
  PROVE  /\ tokenFromMessages(messages) # NoToken
              => \E m \in DOMAIN messages : messages[m].tok = tokenFromMessages(messages)
         /\ \A m \in DOMAIN messages :
              messages[m].role = "tool" /\ messages[m].tok # NoToken
                => \E k \in DOMAIN messages :
                     /\ messages[k].tok = tokenFromMessages(messages)
                     /\ messages[k].tok # NoToken
<1> DEFINE tools == Decoding("tool", messages)
           calls == Decoding("assistant", messages)
<1>1. DOMAIN messages \subseteq Nat
  OBVIOUS
<1>2. tools \in SUBSET Nat /\ calls \in SUBSET Nat
  BY <1>1 DEF Decoding
<1>3. tools # {} => First(tools) \in tools
  BY <1>2, FirstIsLeast
<1>4. calls # {} => First(calls) \in calls
  BY <1>2, FirstIsLeast
<1> HIDE DEF tools, calls
<1>5. tokenFromMessages(messages) = IF tools # {} THEN messages[First(tools)].tok
                                    ELSE IF calls # {} THEN messages[First(calls)].tok
                                    ELSE NoToken
  BY DEF tokenFromMessages, tools, calls
<1>6. /\ \A k \in tools \cup calls : k \in DOMAIN messages /\ messages[k].tok # NoToken
      /\ \A m \in DOMAIN messages :
           messages[m].role = "tool" /\ messages[m].tok # NoToken => m \in tools
  BY DEF tools, calls, Decoding
<1> QED
  BY <1>3, <1>4, <1>5, <1>6

\* What a client with a question or a result sends is part of its history; a
\* trimming client sends the open exchange, or its question alone.
LEMMA SentFacts ==
  ASSUME TypeOK, NEW c \in Clients, Ending(c), ReadyToSend(c)
  PROVE  /\ Sent(c) \in Seq(Message)
         /\ \A m \in DOMAIN Sent(c) : \E k \in DOMAIN history[c] : Sent(c)[m] = history[c][k]
         /\ c \in Trimmers /\ outstanding[c] = NoToken
              => \A m \in DOMAIN Sent(c) : Sent(c)[m] = User
         /\ c \in Trimmers /\ outstanding[c] # NoToken
              => /\ DOMAIN Sent(c) = {1, 2}
                 /\ Sent(c)[1] = Calls(outstanding[c]) /\ Sent(c)[2] = Result(outstanding[c])
<1> DEFINE full == history[c]
           n == Len(history[c])
           open == {k \in DOMAIN full : outstanding[c] # NoToken /\ full[k] = Calls(outstanding[c])}
           asks == {k \in DOMAIN full : full[k] = User}
           from == IF open # {} THEN LastIndex(open) ELSE LastIndex(asks)
<1>1. /\ full \in Seq(Message) /\ n \in Nat \ {0} /\ DOMAIN full = 1..n
      /\ outstanding[c] \in Tokens \cup {NoToken}
      /\ Last(c) = full[n] /\ full[n].role \in {"user", "tool"}
  BY DEF TypeOK, ReadyToSend, Last
<1>2. CASE c \notin Trimmers
  BY <1>1, <1>2 DEF Sent
<1> SUFFICES ASSUME c \in Trimmers
             PROVE  /\ Sent(c) \in Seq(Message)
                    /\ \A m \in DOMAIN Sent(c) : \E k \in DOMAIN full : Sent(c)[m] = full[k]
                    /\ outstanding[c] = NoToken => \A m \in DOMAIN Sent(c) : Sent(c)[m] = User
                    /\ outstanding[c] # NoToken
                         => /\ DOMAIN Sent(c) = {1, 2}
                            /\ Sent(c)[1] = Calls(outstanding[c])
                            /\ Sent(c)[2] = Result(outstanding[c])
  BY <1>2
<1>3. Sent(c) = SubSeq(full, from, n)
  BY DEF Sent
<1>4. open \in SUBSET (1..n) /\ asks \in SUBSET (1..n)
  BY <1>1
<1>5. CASE outstanding[c] = NoToken
  <2>1. full[n] = User /\ open = {} /\ n \in asks
    BY <1>1, <1>5, MessageFacts DEF Ending
  <2>2. from = n
    <3> HIDE DEF open, asks
    <3>1. LastIndex(asks) \in 1..n /\ n <= LastIndex(asks)
      BY <1>1, <1>4, <2>1, LastIsGreatest
    <3>2. LastIndex(asks) = n
      BY <1>1, <3>1
    <3> QED
      BY <2>1, <3>2
  <2> HIDE DEF from
  <2>3. DOMAIN Sent(c) = {1} /\ Sent(c)[1] = full[n] /\ Sent(c) \in Seq(Message)
    BY <1>1, <1>3, <2>2
  <2> QED
    BY <1>1, <1>5, <2>1, <2>3
<1>6. CASE outstanding[c] # NoToken
  <2>1. n >= 2 /\ full[n] = Result(outstanding[c]) /\ full[n - 1] = Calls(outstanding[c])
    BY <1>1, <1>6, MessageFacts DEF Ending
  <2>2. n - 1 \in open /\ n \notin open
    BY <1>1, <1>6, <2>1, MessageFacts
  <2>3. from = n - 1
    <3> HIDE DEF open, asks
    <3>1. LastIndex(open) \in open /\ n - 1 <= LastIndex(open)
      BY <1>1, <1>4, <2>2, LastIsGreatest
    <3>2. LastIndex(open) \in 1..n /\ LastIndex(open) # n
      BY <1>4, <2>2, <3>1
    <3>3. LastIndex(open) = n - 1
      BY <1>1, <3>1, <3>2
    <3> QED
      BY <2>2, <3>3
  <2> HIDE DEF from
  <2>4. /\ DOMAIN Sent(c) = {1, 2} /\ Sent(c) \in Seq(Message)
        /\ Sent(c)[1] = full[n - 1] /\ Sent(c)[2] = full[n]
    BY <1>1, <1>3, <2>1, <2>3
  <2> QED
    BY <1>1, <1>6, <2>1, <2>4
<1> QED
  BY <1>5, <1>6

-----------------------------------------------------------------------------
(* The steps.                                                              *)

\* What a step does for one client harms no other: it removes entries from the
\* registry, or files one under a token nobody has heard of.
LEMMA OtherClients ==
  ASSUME ConversationInv, NEW d \in Clients,
         history'[d] = history[d], outstanding'[d] = outstanding[d], answer'[d] = answer[d],
         minted \subseteq minted',
         \A t \in DOMAIN parked' : \/ t \in DOMAIN parked /\ parked'[t] = parked[t]
                                  \/ t \in Tokens \ minted
  PROVE  ClientOK(d)'
<1>0. TypeOK /\ TokensKnown(d) /\ Ending(d) /\ Owed(d)
  BY DEF ConversationInv, ClientOK
<1>1. \A t \in minted : t \in DOMAIN parked' => t \in DOMAIN parked /\ parked'[t] = parked[t]
  OBVIOUS
<1>2. TokensKnown(d)'
  BY <1>0, <1>1 DEF TokensKnown, Known
<1>3. Ending(d)'
  BY <1>0 DEF Ending
<1>4. Awaited(d)' => Awaited(d)
  BY <1>0, <1>1, ClientAssumption DEF TypeOK, TokensKnown, Known, Awaited
<1>5. Owed(d)'
  BY <1>0, <1>4 DEF Owed, Last
<1> QED
  BY <1>2, <1>3, <1>5 DEF ClientOK

\* A client's own moves.
LEMMA ClientMoves ==
  ASSUME ConversationInv, NEW c \in Clients, Ask(c) \/ RunTools(c) \/ StartOver(c)
  PROVE  ConversationInv'
<1>0. /\ TypeOK /\ TokensKnown(c) /\ Ending(c) /\ UNCHANGED <<parked, minted>>
      /\ history[c] \in Seq(Message) /\ outstanding[c] \in Tokens \cup {NoToken}
  BY DEF ConversationInv, ClientOK, Ask, RunTools, StartOver, TypeOK
<1>1. PICK h \in Seq(Message), t \in Tokens \cup {NoToken} :
        /\ history' = [history EXCEPT ![c] = h]
        /\ outstanding' = [outstanding EXCEPT ![c] = t]
        /\ answer' = [answer EXCEPT ![c] = "none"]
        /\ \/ t = outstanding[c] /\ t = NoToken /\ h = Append(history[c], User)
           \/ /\ t = outstanding[c] /\ t # NoToken /\ Last(c) = Calls(t)
              /\ h = Append(history[c], Result(t))
           \/ t = NoToken /\ h = <<>>
  <2>1. CASE Ask(c)
    <3>1. Append(history[c], User) \in Seq(Message)
      BY <1>0, MessageFacts
    <3>2. outstanding' = [outstanding EXCEPT ![c] = outstanding[c]]
      BY <1>0, <2>1 DEF Ask, TypeOK
    <3> QED
      BY <1>0, <2>1, <3>1, <3>2 DEF Ask
  <2>2. CASE RunTools(c)
    <3>1. Append(history[c], Result(outstanding[c])) \in Seq(Message)
      BY <1>0, MessageFacts
    <3>2. outstanding' = [outstanding EXCEPT ![c] = outstanding[c]]
      BY <1>0, <2>2 DEF RunTools, TypeOK
    <3> QED
      BY <1>0, <2>2, <3>1, <3>2 DEF RunTools
  <2>3. CASE StartOver(c)
    <3>1. <<>> \in Seq(Message)
      OBVIOUS
    <3> QED
      BY <2>3, <3>1 DEF StartOver
  <2> QED
    BY <2>1, <2>2, <2>3
<1>2. TypeOK'
  BY <1>0, <1>1 DEF TypeOK
<1>3. history'[c] = h /\ outstanding'[c] = t /\ answer'[c] = "none"
  BY <1>0, <1>1 DEF TypeOK
<1>4. TokensKnown(c)'
  <2>1. ASSUME NEW k \in DOMAIN h, h[k].tok # NoToken PROVE Known(c, h[k].tok)
    <3>1. \/ k \in DOMAIN history[c] /\ h[k] = history[c][k]
          \/ h[k] = User
          \/ t = outstanding[c] /\ t # NoToken /\ h[k] = Result(t)
      BY <1>0, <1>1
    <3> QED
      BY <1>0, <2>1, <3>1, MessageFacts DEF TokensKnown
  <2>2. t # NoToken => Known(c, t)
    BY <1>0, <1>1 DEF TokensKnown
  <2> QED
    BY <1>0, <1>3, <2>1, <2>2 DEF TokensKnown, Known
<1>5. Ending(c)'
  BY <1>0, <1>1, <1>3 DEF Ending, Last
<1>6. Owed(c)'
  BY <1>3 DEF Owed
<1>7. ASSUME NEW d \in Clients, d # c PROVE ClientOK(d)'
  BY <1>0, <1>1, <1>7, OtherClients DEF TypeOK
<1> QED
  BY <1>2, <1>4, <1>5, <1>6, <1>7 DEF ConversationInv, ClientOK

\* The turn ends with text or with an error, its session torn down.
LEMMA TurnCloses ==
  ASSUME ConversationInv, NEW c \in Clients, AnswerText(c) \/ AnswerError(c),
         DOMAIN parked' \subseteq DOMAIN parked,
         \A t \in DOMAIN parked' : parked'[t] = parked[t]
  PROVE  ConversationInv'
<1>0. /\ TypeOK /\ TokensKnown(c) /\ Ending(c) /\ minted' = minted
      /\ history[c] \in Seq(Message) /\ answer'[c] # "conflict"
  BY DEF ConversationInv, ClientOK, AnswerText, AnswerError, TypeOK
<1>1. TypeOK'
  <2>1. Append(history[c], Text) \in Seq(Message)
    BY <1>0, MessageFacts
  <2>2. /\ history' \in [Clients -> Seq(Message)]
        /\ outstanding' \in [Clients -> Tokens \cup {NoToken}]
        /\ answer' \in [Clients -> {"none", "text", "calls", "error", "conflict"}]
    BY <1>0, <2>1 DEF TypeOK, AnswerText, AnswerError
  <2> QED
    BY <1>0, <2>2 DEF TypeOK
<1>2. Owed(c)'
  BY <1>0 DEF Owed
<1>3. ClientOK(c)'
  <2>1. CASE AnswerText(c)
    <3>1. history'[c] = Append(history[c], Text) /\ outstanding'[c] = NoToken
      BY <1>0, <2>1 DEF AnswerText, TypeOK
    <3>2. ASSUME NEW k \in DOMAIN history'[c], history'[c][k].tok # NoToken
          PROVE  Known(c, history'[c][k].tok)
      <4>1. (k \in DOMAIN history[c] /\ history'[c][k] = history[c][k]) \/ history'[c][k] = Text
        BY <1>0, <3>1
      <4> QED
        BY <1>0, <3>2, <4>1, MessageFacts DEF TokensKnown
    <3>3. TokensKnown(c)'
      BY <1>0, <3>1, <3>2 DEF TokensKnown, Known
    <3>4. Ending(c)'
      BY <1>0, <3>1 DEF Ending
    <3> QED
      BY <1>2, <3>3, <3>4 DEF ClientOK
  <2>2. CASE AnswerError(c)
    <3>1. TokensKnown(c)'
      BY <1>0, <2>2 DEF AnswerError, TokensKnown, Known
    <3>2. Ending(c)'
      BY <1>0, <2>2 DEF AnswerError, Ending
    <3> QED
      BY <1>2, <3>1, <3>2 DEF ClientOK
  <2> QED
    BY <2>1, <2>2
<1>4. ASSUME NEW d \in Clients, d # c PROVE ClientOK(d)'
  <2>1. history'[d] = history[d] /\ outstanding'[d] = outstanding[d] /\ answer'[d] = answer[d]
    BY <1>0, <1>4 DEF AnswerText, AnswerError, TypeOK
  <2> QED
    BY <1>0, <2>1, OtherClients
<1> QED
  BY <1>1, <1>3, <1>4 DEF ConversationInv

\* The turn ends with calls: its session is parked under a fresh token.
LEMMA TurnParks ==
  ASSUME ConversationInv, NEW c \in Clients, NEW rest, AnswerCalls(c, rest),
         DOMAIN rest \subseteq DOMAIN parked, \A t \in DOMAIN rest : rest[t] = parked[t]
  PROVE  ConversationInv'
<1>0. /\ TypeOK /\ TokensKnown(c) /\ Ending(c)
      /\ history[c] \in Seq(Message) /\ outstanding[c] \in Tokens \cup {NoToken}
  BY DEF ConversationInv, ClientOK, TypeOK
<1>1. PICK t \in Tokens \ minted :
        /\ parked' = [u \in DOMAIN rest \cup {t} |-> IF u = t THEN c ELSE rest[u]]
        /\ minted' = minted \cup {t}
        /\ \/ /\ history' = [history EXCEPT ![c] = Append(@, Calls(t))]
              /\ outstanding' = [outstanding EXCEPT ![c] = t]
              /\ answer' = [answer EXCEPT ![c] = "calls"]
           \/ /\ answer' = [answer EXCEPT ![c] = "error"]
              /\ UNCHANGED <<history, outstanding>>
  BY DEF AnswerCalls
<1>2. /\ DOMAIN parked' = DOMAIN rest \cup {t} /\ parked'[t] = c
      /\ \A u \in DOMAIN rest : u # t /\ parked'[u] = parked[u]
  BY <1>0, <1>1 DEF TypeOK
<1>3. \A u : Known(c, u) => Known(c, u)'
  BY <1>1, <1>2 DEF Known
<1>4. Known(c, t)'
  BY <1>1, <1>2 DEF Known
<1>5. TypeOK'
  <2>1. Append(history[c], Calls(t)) \in Seq(Message)
    BY <1>0, MessageFacts
  <2>2. /\ history' \in [Clients -> Seq(Message)]
        /\ outstanding' \in [Clients -> Tokens \cup {NoToken}]
        /\ answer' \in [Clients -> {"none", "text", "calls", "error", "conflict"}]
    BY <1>0, <1>1, <2>1 DEF TypeOK
  <2>3. /\ DOMAIN parked' \subseteq minted' /\ minted' \subseteq Tokens
        /\ \A u \in DOMAIN parked' : parked'[u] \in Clients
    BY <1>0, <1>1, <1>2 DEF TypeOK
  <2> QED
    BY <2>2, <2>3 DEF TypeOK
<1>6. Owed(c)'
  BY <1>0, <1>1 DEF Owed, TypeOK
<1>7. TokensKnown(c)' /\ Ending(c)'
  <2>1. CASE /\ history' = [history EXCEPT ![c] = Append(@, Calls(t))]
             /\ outstanding' = [outstanding EXCEPT ![c] = t]
    <3>1. history'[c] = Append(history[c], Calls(t)) /\ outstanding'[c] = t
      BY <1>0, <2>1 DEF TypeOK
    <3>2. ASSUME NEW k \in DOMAIN history'[c], NEW u, u = history'[c][k].tok, u # NoToken
          PROVE  Known(c, u)'
      <4>1. (k \in DOMAIN history[c] /\ history'[c][k] = history[c][k]) \/ history'[c][k] = Calls(t)
        BY <1>0, <3>1
      <4> QED
        BY <1>0, <1>3, <1>4, <3>2, <4>1, MessageFacts DEF TokensKnown
    <3>3. TokensKnown(c)'
      BY <1>4, <3>1, <3>2 DEF TokensKnown
    <3>4. Ending(c)'
      BY <1>0, <1>1, <3>1, ClientAssumption DEF Ending
    <3> QED
      BY <3>3, <3>4
  <2>2. CASE UNCHANGED <<history, outstanding>>
    <3>1. TokensKnown(c)'
      BY <1>0, <1>3, <2>2 DEF TokensKnown
    <3>2. Ending(c)'
      BY <1>0, <2>2 DEF Ending
    <3> QED
      BY <3>1, <3>2
  <2> QED
    BY <1>1, <2>1, <2>2
<1>8. ClientOK(c)'
  BY <1>6, <1>7 DEF ClientOK
<1>9. ASSUME NEW d \in Clients, d # c PROVE ClientOK(d)'
  <2>1. history'[d] = history[d] /\ outstanding'[d] = outstanding[d] /\ answer'[d] = answer[d]
    BY <1>0, <1>1, <1>9 DEF TypeOK
  <2> QED
    BY <1>1, <1>2, <2>1, OtherClients
<1> QED
  BY <1>5, <1>8, <1>9 DEF ConversationInv

\* The tokens of a history, NoToken aside.
Exchanges(c) == {history[c][k].tok : k \in DOMAIN history[c]} \ {NoToken}

LEMMA ExchangesFinite ==
  ASSUME TypeOK, NEW c \in Clients
  PROVE  IsFiniteSet(Exchanges(c))
<1> DEFINE T == {history[c][k].tok : k \in DOMAIN history[c]}
           f == [k \in DOMAIN history[c] |-> history[c][k].tok]
<1>1. Len(history[c]) \in Nat /\ DOMAIN history[c] = 1..Len(history[c])
  BY DEF TypeOK
<1>2. IsFiniteSet(DOMAIN history[c])
  BY <1>1, FS_Interval
<1>3. f \in Surjection(DOMAIN history[c], T)
  BY DEF Surjection
<1>4. IsFiniteSet(T)
  BY <1>2, <1>3, FS_Surjection
<1> QED
  BY <1>4, FS_Subset DEF Exchanges

\* A 409 is owed: the token read off the messages is that of the open exchange
\* when the client trims, or when its history names no other.
LEMMA ConflictOwed ==
  ASSUME ConversationInv, NEW c \in Clients, Conflict(c)
  PROVE  /\ c \in Trimmers => ~Awaited(c) /\ Last(c) # User
         /\ Cardinality(Exchanges(c)) = 1 => ~Awaited(c)
<1> DEFINE t == tokenFromMessages(Sent(c))
           o == outstanding[c]
<1>0. /\ TypeOK /\ Ending(c) /\ ReadyToSend(c) /\ t \notin DOMAIN parked
      /\ o \in Tokens \cup {NoToken} /\ NoToken \notin DOMAIN parked
      /\ history[c] \in Seq(Message)
      /\ hasToolResults(Sent(c))
  BY ClientAssumption DEF ConversationInv, ClientOK, Conflict, TypeOK, Route
<1>1. PICK m \in DOMAIN Sent(c) : Sent(c)[m].role = "tool"
  BY <1>0 DEF hasToolResults
<1> HIDE DEF t
<1>2. CASE o = NoToken
  <2>1. ~Awaited(c)
    BY <1>0, <1>2 DEF Awaited
  <2>2. c \notin Trimmers
    BY <1>0, <1>1, <1>2, SentFacts, MessageFacts
  <2> QED
    BY <2>1, <2>2
<1>3. CASE o # NoToken
  <2>1. /\ Len(history[c]) >= 2 /\ Last(c) = Result(o)
        /\ history[c][Len(history[c])] = Result(o)
    BY <1>0, <1>3, MessageFacts DEF Ending, ReadyToSend, Last
  <2>2. Last(c) # User
    BY <1>0, <2>1, MessageFacts
  <2>3. CASE c \in Trimmers
    <3>1. /\ DOMAIN Sent(c) = {1, 2} /\ Sent(c) \in Seq(Message)
          /\ Sent(c)[1] = Calls(o) /\ Sent(c)[2] = Result(o)
      BY <1>0, <1>3, <2>3, SentFacts
    <3>2. \A k \in DOMAIN Sent(c) : Sent(c)[k].tok = o
      BY <1>0, <3>1, MessageFacts
    <3>3. Sent(c)[2].role = "tool" /\ Sent(c)[2].tok # NoToken
      BY <1>0, <1>3, <3>1, MessageFacts
    <3>4. t = o
      BY <3>1, <3>2, <3>3, TokenFromMessage DEF t
    <3> QED
      BY <1>0, <2>2, <3>4 DEF Awaited
  <2>4. CASE c \notin Trimmers
    <3> SUFFICES ASSUME Cardinality(Exchanges(c)) = 1 PROVE ~Awaited(c)
      BY <2>4
    <3>1. Sent(c) = history[c]
      BY <2>4 DEF Sent
    <3>2. o \in Exchanges(c)
      BY <1>0, <1>3, <2>1, MessageFacts DEF Exchanges
    <3>3. PICK x : Exchanges(c) = {x}
      BY <1>0, ExchangesFinite, FS_Singleton
    <3>4. \A k \in DOMAIN Sent(c) : Sent(c)[k].tok # NoToken => Sent(c)[k].tok = o
      BY <3>1, <3>2, <3>3 DEF Exchanges
    <3>5. Len(history[c]) \in DOMAIN Sent(c) /\ Sent(c)[Len(history[c])] = Result(o)
      BY <1>0, <2>1, <3>1
    <3>6. PICK k \in DOMAIN Sent(c) : Sent(c)[k].tok = t /\ Sent(c)[k].tok # NoToken
      BY <1>0, <1>3, <3>1, <3>5, TokenFromMessage, MessageFacts DEF t
    <3>7. t = o
      BY <3>4, <3>6
    <3> QED
      BY <1>0, <3>7 DEF Awaited
  <2> QED
    BY <2>3, <2>4
<1> QED
  BY <1>2, <1>3

\* No step of any client, nor the loss of a parked session, breaks the invariant.
LEMMA ConversationStep == ConversationInv /\ [Next]_vars => ConversationInv'
<1> SUFFICES ASSUME ConversationInv, [Next]_vars PROVE ConversationInv'
  OBVIOUS
<1>1. ASSUME NEW c \in Clients, Ask(c) \/ RunTools(c) \/ StartOver(c)
      PROVE  ConversationInv'
  BY <1>1, ClientMoves
<1>2. ASSUME NEW c \in Clients, Plain(c) PROVE ConversationInv'
  BY <1>2, TurnCloses DEF Plain
<1>3. ASSUME NEW c \in Clients, Emit(c) PROVE ConversationInv'
  <2>1. CASE (AnswerText(c) \/ AnswerError(c)) /\ UNCHANGED parked
    BY <2>1, TurnCloses
  <2>2. CASE AnswerCalls(c, parked)
    BY <2>2, TurnParks
  <2> QED
    BY <1>3, <2>1, <2>2 DEF Emit
<1>4. ASSUME NEW c \in Clients, Resume(c) PROVE ConversationInv'
  <2> DEFINE t == tokenFromMessages(Sent(c))
             rest == [u \in DOMAIN parked \ {t} |-> parked[u]]
  <2>1. DOMAIN rest \subseteq DOMAIN parked /\ \A u \in DOMAIN rest : rest[u] = parked[u]
    OBVIOUS
  <2>2. \/ (AnswerText(c) \/ AnswerError(c)) /\ parked' = rest
        \/ AnswerCalls(c, rest)
    BY <1>4 DEF Resume
  <2> HIDE DEF rest
  <2>3. CASE (AnswerText(c) \/ AnswerError(c)) /\ parked' = rest
    BY <2>1, <2>3, TurnCloses
  <2>4. CASE AnswerCalls(c, rest)
    BY <2>1, <2>4, TurnParks
  <2> QED
    BY <2>2, <2>3, <2>4
<1>5. ASSUME NEW c \in Clients, Conflict(c) PROVE ConversationInv'
  <2>0. /\ TypeOK /\ TokensKnown(c) /\ Ending(c)
        /\ UNCHANGED <<history, parked, minted, outstanding>>
        /\ answer' = [answer EXCEPT ![c] = "conflict"]
    BY <1>5 DEF ConversationInv, ClientOK, Conflict
  <2>1. TypeOK'
    BY <2>0 DEF TypeOK
  <2>2. TokensKnown(c)' /\ Ending(c)'
    BY <2>0 DEF TokensKnown, Known, Ending
  <2>3. /\ c \in Trimmers => ~Awaited(c) /\ Last(c) # User
        /\ Cardinality(Exchanges(c)) = 1 => ~Awaited(c)
    BY <1>5, ConflictOwed
  <2>4. Owed(c)'
    BY <2>0, <2>3 DEF Owed, Exchanges, Awaited, Last
  <2>5. ASSUME NEW d \in Clients, d # c PROVE ClientOK(d)'
    BY <2>0, <2>5, OtherClients DEF TypeOK
  <2> QED
    BY <2>1, <2>2, <2>4, <2>5 DEF ConversationInv, ClientOK
<1>6. ASSUME NEW t \in Tokens, LoseParked(t) PROVE ConversationInv'
  <2>1. TypeOK'
    BY <1>6 DEF LoseParked, ConversationInv, TypeOK
  <2>2. ASSUME NEW d \in Clients PROVE ClientOK(d)'
    BY <1>6, OtherClients DEF LoseParked
  <2> QED
    BY <2>1, <2>2 DEF ConversationInv
<1>7. CASE UNCHANGED vars
  <2>1. TypeOK'
    BY <1>7 DEF vars, ConversationInv, TypeOK
  <2>2. ASSUME NEW d \in Clients PROVE ClientOK(d)'
    BY <1>7, OtherClients DEF vars
  <2> QED
    BY <2>1, <2>2 DEF ConversationInv
<1> QED
  BY <1>1, <1>2, <1>3, <1>4, <1>5, <1>6, <1>7 DEF Next

LEMMA ConversationAlways == Spec => []ConversationInv
<1>1. Init => ConversationInv
  <2> SUFFICES ASSUME Init PROVE ConversationInv
    OBVIOUS
  <2>1. ForeignExchange \in Seq(Message) /\ <<>> \in Seq(Message)
    BY MessageFacts DEF ForeignExchange
  <2>2. TypeOK
    BY <2>1 DEF Init, TypeOK
  <2>3. ASSUME NEW c \in Clients PROVE ClientOK(c)
    <3>1. TokensKnown(c)
      BY MessageFacts DEF Init, TokensKnown, ForeignExchange
    <3>2. Ending(c)
      <4>1. Len(ForeignExchange) = 4 /\ ForeignExchange[4] = Text
        BY DEF ForeignExchange
      <4>2. history[c] \in {<<>>, ForeignExchange} /\ outstanding[c] = NoToken
        BY DEF Init
      <4> QED
        BY <4>1, <4>2 DEF Ending
    <3>3. Owed(c)
      BY DEF Init, Owed
    <3> QED
      BY <3>1, <3>2, <3>3 DEF ClientOK
  <2> QED
    BY <2>2, <2>3 DEF ConversationInv
<1> QED
  BY <1>1, ConversationStep, PTL DEF Spec

-----------------------------------------------------------------------------
(* The theorems.                                                           *)

\* Whatever the clients and however long their histories, every reachable state
\* is well typed: the registry holds sessions of clients under minted tokens.
THEOREM TypeCorrect == Spec => []TypeOK
<1>1. ConversationInv => TypeOK
  BY DEF ConversationInv
<1> QED
  BY <1>1, ConversationAlways, PTL

\* A client that sends the latest exchange only, and any client whose history
\* names one token, gets a 409 only when the session it answers has gone.
THEOREM OwedCorrect == Spec => []ConflictsAreOwed
<1>1. ConversationInv => ConflictsAreOwed
  BY DEF ConversationInv, ClientOK, Owed, ConflictsAreOwed
<1> QED
  BY <1>1, ConversationAlways, PTL

\* However tokens are read off the messages, of whichever length, the results a
\* client supplies reach only a session that was opened for it.
THEOREM OwnerCorrect == Spec => ResumedByItsOwner
<1>1. ConversationInv
        => \A c \in Clients : Resume(c) => parked[tokenFromMessages(Sent(c))] = c
  <2> SUFFICES ASSUME ConversationInv, NEW c \in Clients, Resume(c)
               PROVE  parked[tokenFromMessages(Sent(c))] = c
    OBVIOUS
  <2> DEFINE t == tokenFromMessages(Sent(c))
  <2>1. TypeOK /\ TokensKnown(c) /\ Ending(c) /\ ReadyToSend(c) /\ t \in DOMAIN parked
    BY DEF ConversationInv, ClientOK, Resume
  <2>2. t # NoToken
    BY <2>1, ClientAssumption DEF TypeOK
  <2>3. /\ Sent(c) \in Seq(Message)
        /\ \A m \in DOMAIN Sent(c) : \E k \in DOMAIN history[c] : Sent(c)[m] = history[c][k]
    BY <2>1, SentFacts
  <2>4. PICK m \in DOMAIN Sent(c) : Sent(c)[m].tok = t
    BY <2>2, <2>3, TokenFromMessage
  <2>5. PICK k \in DOMAIN history[c] : history[c][k].tok = t
    BY <2>3, <2>4
  <2> QED
    BY <2>1, <2>2, <2>5 DEF TokensKnown, Known
<1> QED
  BY <1>1, ConversationAlways, PTL DEF ResumedByItsOwner

=============================================================================
