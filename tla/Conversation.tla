---------------------------- MODULE Conversation ----------------------------
(***************************************************************************)
(* Chat conversations that use tools, seen from the messages they send.    *)
(*                                                                         *)
(* The server keeps nothing of a conversation but the sessions it parks;   *)
(* which session a request belongs to is read off the message history it   *)
(* carries: hasToolResults (tools.go) routes it, tokenFromMessages         *)
(* (parking.go) picks the parking token.  A client keeps its history by    *)
(* itself: most resend all of it, as the OpenAI protocol has it; some send *)
(* only what follows the last finished exchange.                           *)
(*                                                                         *)
(* A request is one step here; the races between requests for one registry *)
(* entry are in ToolSessions.tla.                                          *)
(***************************************************************************)
EXTENDS Naturals, Sequences, FiniteSets

CONSTANTS
  Clients,      \* conversations, one request at a time each
  Trimmers,     \* the clients that send only the latest exchange
  Tokens,       \* parking tokens the runs may mint (a bound)
  NoToken,      \* what decodeToolSessionToken makes of an ID it did not mint
  MaxMessages   \* a client starts over before its history gets longer (a bound)

ASSUME ClientAssumption ==
  /\ Trimmers \subseteq Clients
  /\ NoToken \notin Tokens
  /\ MaxMessages \in Nat

VARIABLES
  history,      \* what each client has said and heard
  parked,       \* the registry: token -> the client whose session it holds
  minted,       \* tokens minted so far
  outstanding,  \* the token of the calls a client was asked to make
  answer        \* how each client's last request ended

vars == <<history, parked, minted, outstanding, answer>>

\* All IDs of one message carry one token: the server mints them together,
\* and an ID of another provider carries none.
Message == [role : {"user", "assistant", "tool"}, tok : Tokens \cup {NoToken}]

User == [role |-> "user", tok |-> NoToken]
Text == [role |-> "assistant", tok |-> NoToken]
Calls(t) == [role |-> "assistant", tok |-> t]
Result(t) == [role |-> "tool", tok |-> t]

\* A conversation may begin with a tool exchange held with another provider.
ForeignExchange == <<User, Calls(NoToken), Result(NoToken), Text>>

Init ==
  /\ history \in [Clients -> {<<>>, ForeignExchange}]
  /\ parked = [t \in {} |-> NoToken]
  /\ minted = {}
  /\ outstanding = [c \in Clients |-> NoToken]
  /\ answer = [c \in Clients |-> "none"]

-----------------------------------------------------------------------------
(* What the server reads off a request's messages.                         *)

hasToolResults(messages) ==
  \E k \in DOMAIN messages : messages[k].role = "tool"

\* The messages of a role whose IDs decode to a token.
Decoding(role, messages) ==
  {k \in DOMAIN messages : messages[k].role = role /\ messages[k].tok # NoToken}

First(K) == CHOOSE k \in K : \A j \in K : k <= j

\* Mutant: with no ID that decodes, some parked session is taken instead.
tokenFromMessagesGuess(messages) ==
  LET tools == Decoding("tool", messages) IN
  IF tools # {} THEN messages[First(tools)].tok
  ELSE IF DOMAIN parked # {} THEN CHOOSE t \in DOMAIN parked : TRUE
  ELSE NoToken

\* Mutant: only the assistant's tool_calls are read, and only if they are last.
tokenFromMessagesLastOnly(messages) ==
  IF messages[Len(messages)].role = "assistant"
  THEN messages[Len(messages)].tok
  ELSE NoToken

\* The first result whose ID decodes, else the first call whose ID does.
tokenFromMessages(messages) ==
  LET tools == Decoding("tool", messages)
      calls == Decoding("assistant", messages)
  IN  IF tools # {} THEN messages[First(tools)].tok
      ELSE IF calls # {} THEN messages[First(calls)].tok
      ELSE NoToken

\* ChatCompletions' three ways to go.
Route(declaresTools, messages) ==
  IF ~declaresTools THEN "plain"
  ELSE IF hasToolResults(messages) THEN "resume" ELSE "emit"

-----------------------------------------------------------------------------
(* The clients.                                                            *)

\* A trimming client starts at the last assistant message that calls tools,
\* if that exchange is still open, else at its last question.
LastIndex(K) == CHOOSE k \in K : \A j \in K : j <= k

Sent(c) ==
  LET full == history[c]
      open == {k \in DOMAIN full : outstanding[c] # NoToken /\ full[k] = Calls(outstanding[c])}
      asks == {k \in DOMAIN full : full[k] = User}
      from == IF open # {} THEN LastIndex(open) ELSE LastIndex(asks)
  IN  IF c \in Trimmers THEN SubSeq(full, from, Len(full)) ELSE full

Last(c) == history[c][Len(history[c])]

\* The client has something to ask and no call left to make.
Ask(c) ==
  /\ outstanding[c] = NoToken
  /\ Len(history[c]) < MaxMessages
  /\ history[c] # <<>> => Last(c) = Text
  /\ history' = [history EXCEPT ![c] = Append(@, User)]
  /\ answer' = [answer EXCEPT ![c] = "none"]
  /\ UNCHANGED <<parked, minted, outstanding>>

\* The client ran its tools and adds their results.
RunTools(c) ==
  /\ outstanding[c] # NoToken
  /\ Last(c) = Calls(outstanding[c])
  /\ history' = [history EXCEPT ![c] = Append(@, Result(outstanding[c]))]
  /\ answer' = [answer EXCEPT ![c] = "none"]
  /\ UNCHANGED <<parked, minted, outstanding>>

\* "Restart the tool round-trip", or the history got too long.
StartOver(c) ==
  /\ history[c] # <<>>
  /\ answer[c] \in {"conflict", "error"} \/ Len(history[c]) >= MaxMessages
  /\ history' = [history EXCEPT ![c] = <<>>]
  /\ outstanding' = [outstanding EXCEPT ![c] = NoToken]
  /\ answer' = [answer EXCEPT ![c] = "none"]
  /\ UNCHANGED <<parked, minted>>

-----------------------------------------------------------------------------
(* The server's answers.                                                   *)

ReadyToSend(c) == history[c] # <<>> /\ Last(c).role \in {"user", "tool"}

\* The turn ends with text: the session is torn down.
AnswerText(c) ==
  /\ history' = [history EXCEPT ![c] = Append(@, Text)]
  /\ outstanding' = [outstanding EXCEPT ![c] = NoToken]
  /\ answer' = [answer EXCEPT ![c] = "text"]
  /\ UNCHANGED minted

\* Mutant: the entry is filed under an empty token.
AnswerCallsUnkeyed(c, rest) ==
  \E t \in Tokens \ minted :
    /\ parked' = [u \in DOMAIN rest \cup {NoToken} |-> c]
    /\ minted' = minted \cup {t}
    /\ history' = [history EXCEPT ![c] = Append(@, Calls(t))]
    /\ outstanding' = [outstanding EXCEPT ![c] = t]
    /\ answer' = [answer EXCEPT ![c] = "calls"]

\* The turn ends with tool calls: the session is parked under a fresh token,
\* next to the entries in rest.  The client may be gone before it hears of it.
AnswerCalls(c, rest) ==
  \E t \in Tokens \ minted :
    /\ parked' = [u \in DOMAIN rest \cup {t} |-> IF u = t THEN c ELSE rest[u]]
    /\ minted' = minted \cup {t}
    /\ \/ /\ history' = [history EXCEPT ![c] = Append(@, Calls(t))]
          /\ outstanding' = [outstanding EXCEPT ![c] = t]
          /\ answer' = [answer EXCEPT ![c] = "calls"]
       \/ /\ answer' = [answer EXCEPT ![c] = "error"]
          /\ UNCHANGED <<history, outstanding>>

\* A 500 or 504: the session, if any, is torn down.
AnswerError(c) ==
  /\ answer' = [answer EXCEPT ![c] = "error"]
  /\ UNCHANGED <<history, minted, outstanding>>

\* handleNonStreaming, handleStreaming: a session of their own, no tools.
Plain(c) ==
  /\ ReadyToSend(c)
  /\ Route(FALSE, Sent(c)) = "plain"
  /\ AnswerText(c) \/ AnswerError(c)
  /\ UNCHANGED parked

\* handleToolEmit*: turn 1.
Emit(c) ==
  /\ ReadyToSend(c)
  /\ Route(TRUE, Sent(c)) = "emit"
  /\ \/ (AnswerText(c) \/ AnswerError(c)) /\ UNCHANGED parked
     \/ AnswerCalls(c, parked)

\* handleToolResume* that found its session: take() removed the entry, the
\* results went to that session, and it went on to text or to more calls.
Resume(c) ==
  LET t == tokenFromMessages(Sent(c))
      rest == [u \in DOMAIN parked \ {t} |-> parked[u]]
  IN  /\ ReadyToSend(c)
      /\ Route(TRUE, Sent(c)) = "resume"
      /\ t \in DOMAIN parked
      /\ \/ (AnswerText(c) \/ AnswerError(c)) /\ parked' = rest
         \/ AnswerCalls(c, rest)

\* handleToolResume* that did not: 409.
Conflict(c) ==
  /\ ReadyToSend(c)
  /\ Route(TRUE, Sent(c)) = "resume"
  /\ tokenFromMessages(Sent(c)) \notin DOMAIN parked
  /\ answer' = [answer EXCEPT ![c] = "conflict"]
  /\ UNCHANGED <<history, parked, minted, outstanding>>

\* Eviction, expiry or a restart takes parked sessions away.
LoseParked(t) ==
  /\ t \in DOMAIN parked
  /\ parked' = [u \in DOMAIN parked \ {t} |-> parked[u]]
  /\ UNCHANGED <<history, minted, outstanding, answer>>

-----------------------------------------------------------------------------

Next ==
  \/ \E c \in Clients :
       \/ Ask(c) \/ RunTools(c) \/ StartOver(c)
       \/ Plain(c) \/ Emit(c) \/ Resume(c) \/ Conflict(c)
  \/ \E t \in Tokens : LoseParked(t)

Spec == Init /\ [][Next]_vars

-----------------------------------------------------------------------------

TypeOK ==
  /\ history \in [Clients -> Seq(Message)]
  /\ DOMAIN parked \subseteq minted
  /\ \A t \in DOMAIN parked : parked[t] \in Clients
  /\ minted \subseteq Tokens
  /\ outstanding \in [Clients -> Tokens \cup {NoToken}]
  /\ answer \in [Clients -> {"none", "text", "calls", "error", "conflict"}]

\* The session whose calls client c was asked to make still waits for it.
Awaited(c) == outstanding[c] \in DOMAIN parked

\* A client that answers the calls of a session that is still parked is not
\* told that the session has gone.  The end-to-end test of chained calls
\* promises it: each new call "embeds a parking token so a further turn could
\* resolve it" (test/e2e/tools_e2e_test.go:347-352).
NoSpuriousConflict ==
  \A c \in Clients : answer[c] = "conflict" => ~Awaited(c)

\* A client that asks a new question, with no tool call left to answer, is
\* not told that a tool session has expired: there is none it could mean.
QuestionsAreServed ==
  \A c \in Clients : answer[c] = "conflict" => Last(c) # User

\* Both hold for clients that send the latest exchange only, and the first for
\* any client in its first exchange of a conversation: the whole history then
\* names one token, that of the waiting session.
ConflictsAreOwed ==
  \A c \in Clients :
    LET exchanges == {history[c][k].tok : k \in DOMAIN history[c]} \ {NoToken} IN
    answer[c] = "conflict" =>
      /\ c \in Trimmers => ~Awaited(c) /\ Last(c) # User
      /\ Cardinality(exchanges) = 1 => ~Awaited(c)

\* A parked session is resumed only by the conversation it was opened for: the
\* results one client supplies never reach another client's agent loop.
ResumedByItsOwner ==
  [][\A c \in Clients :
       Resume(c) => parked[tokenFromMessages(Sent(c))] = c]_vars

=============================================================================
