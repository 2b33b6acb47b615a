---------------------------- MODULE Answers_proofs ----------------------------
(***************************************************************************)
(* Proofs about Answers, for every kind of handler and however much the    *)
(* agent says and however many tools it calls.                             *)
(*                                                                         *)
(* The inductive invariant is about the programs the two threads have yet  *)
(* to execute.  A step either takes the first instruction off a program    *)
(* (Pop) or loads a program into a thread that has none (Enter, Leave,     *)
(* Speak, Raise); Moves reduces the steps of the model to these, and each  *)
(* conjunct of the invariant is then shown to survive each of them.        *)
(***************************************************************************)
EXTENDS Answers, SequenceTheorems, TLAPS

H == prog["handler"]
C == prog["callback"]
Plain == {"chat", "ndjson"}
Statuses == {"success", "error"}
Reveals == {"call", "tool_calls"}
Left == pc \in {"leaving", "refusing", "returned"}

\* What a program will still do.
Writes(p, T) ==
  \E i \in DOMAIN p : p[i].op = "write" /\ p[i].chunk.type \in T
Records(p, S) ==
  \E i \in DOMAIN p : p[i].op = "record" /\ p[i].status \in S
AtMostOnce(p, o) ==
  \A i, j \in DOMAIN p : p[i].op = o /\ p[j].op = o => i = j
EndsInReturn(p) ==
  p # <<>> /\ \A i \in DOMAIN p : p[i].op = "return" <=> i = Len(p)
ParksFirst(p) ==
  \A i \in DOMAIN p : p[i].op = "write" /\ p[i].chunk.type \in Reveals =>
    \E j \in DOMAIN p : j < i /\ p[j].op = "park"

RecordsFirst(p) ==
  \A i, j \in DOMAIN p : p[i].op = "write" /\ p[j].op = "record" => j < i

\* The request is counted as an error, or about to be; it is although the agent
\* has begun.
Blamed ==
  Records(H, {"error"}) \/ \E i \in DOMAIN records : records[i] = "error"
Troubled == agent.state # "waiting" /\ Blamed

\* What may still follow a "done".
Slack ==
  IF kind = "chat" /\ Troubled THEN "any"
  ELSE IF timedOut \/ Troubled THEN "text" ELSE "none"

\* A chunk of type d must not follow one of type c.
Bad(late, c, d) ==
  \/ c = "call" /\ d \notin Reveals \cup {"done"}
  \/ c \in Finish /\ d # "done"
  \/ c = "done" /\ (late = "none" \/ (late = "text" /\ d = "done"))
InOrder(late, p) ==
  \A i, j \in DOMAIN p :
    i < j /\ p[i].op = "write" /\ p[j].op = "write" =>
      ~Bad(late, p[i].chunk.type, p[j].chunk.type)

-----------------------------------------------------------------------------
(* Instructions and sequences *)

LEMMA InstructionFacts ==
  /\ \A c : Write(c).op = "write" /\ Write(c).chunk = c
  /\ \A s : Record(s).op = "record" /\ Record(s).status = s
  /\ \A ch : Signal(ch).op = "signal" /\ Signal(ch).ch = ch
  /\ Park.op = "park" /\ Return.op = "return"
  /\ \A t : Chunk(t).type = t
  /\ \A a, b : Text(a, b).type = "text"
  /\ \A m : Reply(m).type = "reply"
BY DEF Write, Record, Signal, Park, Return, Chunk, Text, Reply

LEMMA Typed ==
  /\ \A t \in ChunkTypes \ {"text", "reply"} : Write(Chunk(t)) \in Instructions
  /\ \A a, b \in 0..MaxPieces : Write(Text(a, b)) \in Instructions
  /\ \A m \in (0..MaxPieces) \X (0..MaxPieces) : Write(Reply(m)) \in Instructions
  /\ \A s \in Statuses : Record(s) \in Instructions
  /\ \A ch \in {"toolCh", "over"} : Signal(ch) \in Instructions
  /\ Park \in Instructions /\ Return \in Instructions
BY DEF Instructions, Chunks, Statuses

LEMMA InstructionTypes ==
  ASSUME NEW x \in Instructions
  PROVE  /\ x.op \in {"write", "record", "signal", "park", "return"}
         /\ x.op = "write" => x.chunk \in Chunks
         /\ x.op = "record" => x.status \in Statuses
         /\ x.op = "signal" => x.ch \in {"toolCh", "over"}
BY InstructionFacts DEF Instructions, Statuses

LEMMA ChunkFacts ==
  ASSUME NEW c \in Chunks
  PROVE  c.type \in ChunkTypes
<1>1. CASE c \in {Chunk(t) : t \in ChunkTypes \ {"text", "reply"}}
  BY <1>1, InstructionFacts
<1>2. CASE c \in {Text(a, b) : a, b \in 0..MaxPieces}
  BY <1>2, InstructionFacts DEF ChunkTypes
<1>3. CASE c \in {Reply(m) : m \in (0..MaxPieces) \X (0..MaxPieces)}
  BY <1>3, InstructionFacts DEF ChunkTypes, Finish
<1> QED
  BY <1>1, <1>2, <1>3 DEF Chunks

\* Taking the first instruction off a program.
LEMMA TailFacts ==
  ASSUME NEW S, NEW s \in Seq(S), s # <<>>
  PROVE  /\ Tail(s) \in Seq(S)
         /\ Len(s) \in DOMAIN s /\ Len(s) \in Nat /\ Len(Tail(s)) = Len(s) - 1
         /\ 1 \in DOMAIN s /\ Head(s) = s[1] /\ s[1] \in S
         /\ \A i \in DOMAIN Tail(s) : i + 1 \in DOMAIN s /\ i + 1 # 1 /\ Tail(s)[i] = s[i + 1]
         /\ \A i \in DOMAIN s : i # 1 => i - 1 \in DOMAIN Tail(s) /\ Tail(s)[i - 1] = s[i]
OBVIOUS

LEMMA AppendFacts ==
  ASSUME NEW S, NEW s \in Seq(S), NEW e \in S
  PROVE  /\ Append(s, e) \in Seq(S)
         /\ Len(Append(s, e)) = Len(s) + 1
         /\ DOMAIN Append(s, e) = DOMAIN s \cup {Len(s) + 1}
         /\ Len(s) + 1 \notin DOMAIN s /\ \A i \in DOMAIN s : i < Len(s) + 1
         /\ \A i \in DOMAIN s : Append(s, e)[i] = s[i]
         /\ Append(s, e)[Len(s) + 1] = e
OBVIOUS

\* A program of at most four instructions.
LEMMA TupleFacts ==
  /\ \A a \in Instructions :
       <<a>> \in Seq(Instructions) /\ DOMAIN <<a>> = {1} /\ Len(<<a>>) = 1
  /\ \A a, b \in Instructions :
       <<a, b>> \in Seq(Instructions) /\ DOMAIN <<a, b>> = {1, 2} /\ Len(<<a, b>>) = 2
  /\ \A a, b, c \in Instructions :
       <<a, b, c>> \in Seq(Instructions) /\ DOMAIN <<a, b, c>> = {1, 2, 3}
       /\ Len(<<a, b, c>>) = 3
  /\ \A a, b, c, d \in Instructions :
       <<a, b, c, d>> \in Seq(Instructions) /\ DOMAIN <<a, b, c, d>> = {1, 2, 3, 4}
       /\ Len(<<a, b, c, d>>) = 4
OBVIOUS

\* Joining two programs.
LEMMA ConcatFacts ==
  ASSUME NEW s \in Seq(Instructions), NEW u \in Seq(Instructions)
  PROVE  /\ s \o u \in Seq(Instructions) /\ Len(s \o u) = Len(s) + Len(u)
         /\ \A i \in 1..Len(s) : (s \o u)[i] = s[i]
         /\ \A i \in 1..Len(u) : (s \o u)[Len(s) + i] = u[i]
<1>1. /\ s \o u \in Seq(Instructions) /\ Len(s \o u) = Len(s) + Len(u)
      /\ \A i \in 1..(Len(s) + Len(u)) :
           (s \o u)[i] = IF i <= Len(s) THEN s[i] ELSE u[i - Len(s)]
  BY ConcatProperties
<1> DEFINE v == s \o u
<1> HIDE DEF v
<1>2. /\ v \in Seq(Instructions) /\ Len(v) = Len(s) + Len(u)
      /\ \A i \in 1..(Len(s) + Len(u)) :
           v[i] = IF i <= Len(s) THEN s[i] ELSE u[i - Len(s)]
  BY <1>1 DEF v
<1>3. \A i \in 1..Len(u) : /\ Len(s) + i \in 1..(Len(s) + Len(u))
                           /\ ~(Len(s) + i <= Len(s)) /\ (Len(s) + i) - Len(s) = i
  OBVIOUS
<1>4. /\ v \in Seq(Instructions) /\ Len(v) = Len(s) + Len(u)
      /\ \A i \in 1..Len(s) : v[i] = s[i]
      /\ \A i \in 1..Len(u) : v[Len(s) + i] = u[i]
  BY <1>2, <1>3
<1> QED
  BY <1>4 DEF v

LEMMA JoinedIs ==
  ASSUME NEW s \in Seq(Instructions), NEW u \in Seq(Instructions), NEW v \in Seq(Instructions),
         Len(v) = Len(s) + Len(u), \A i \in 1..Len(s) : v[i] = s[i],
         \A i \in 1..Len(u) : v[Len(s) + i] = u[i]
  PROVE  s \o u = v
<1> DEFINE w == s \o u
<1>1. /\ w \in Seq(Instructions) /\ Len(w) = Len(s) + Len(u)
      /\ \A i \in 1..Len(s) : w[i] = s[i]
      /\ \A i \in 1..Len(u) : w[Len(s) + i] = u[i]
  BY ConcatFacts
<1> HIDE DEF w
<1>2. ASSUME NEW i \in 1..Len(v) PROVE w[i] = v[i]
  <2>1. CASE i \in 1..Len(s)
    BY <1>1, <2>1
  <2>2. CASE i \notin 1..Len(s)
    <3>1. i - Len(s) \in 1..Len(u) /\ Len(s) + (i - Len(s)) = i
      BY <2>2
    <3> QED
      BY <1>1, <3>1
  <2> QED
    BY <2>1, <2>2
<1> QED
  BY <1>1, <1>2, SeqEqual DEF w

LEMMA JoinedTuples ==
  /\ \A a, b, c \in Instructions : <<a, b>> \o <<>> \o <<c>> = <<a, b, c>>
  /\ \A a, b, c, d \in Instructions : <<a, b>> \o <<c>> \o <<d>> = <<a, b, c, d>>
  /\ \A a, b, c \in Instructions : <<a>> \o <<b>> \o <<c>> = <<a, b, c>>
  /\ \A a, c \in Instructions : <<a>> \o <<>> \o <<c>> = <<a, c>>
<1>1. ASSUME NEW a \in Instructions, NEW b \in Instructions, NEW c \in Instructions
      PROVE  <<a, b>> \o <<>> \o <<c>> = <<a, b, c>>
  <2> DEFINE s == <<a, b>>
             u == <<>>
             x == <<a, b>>
             w == <<c>>
             v == <<a, b, c>>
  <2>1. /\ s \in Seq(Instructions) /\ u \in Seq(Instructions) /\ x \in Seq(Instructions)
        /\ Len(s) = 2 /\ Len(u) = 0 /\ Len(x) = 2
        /\ x[1] = s[1] /\ x[2] = s[2]
    OBVIOUS
  <2>2. /\ w \in Seq(Instructions) /\ v \in Seq(Instructions)
        /\ Len(w) = 1 /\ Len(v) = 3
        /\ v[1] = x[1] /\ v[2] = x[2] /\ v[3] = w[1]
    OBVIOUS
  <2> HIDE DEF s, u, x, w, v
  <2>3. s \o u = x
    <3>1. /\ Len(x) = Len(s) + Len(u) /\ \A i \in 1..Len(s) : x[i] = s[i]
          /\ \A i \in 1..Len(u) : x[Len(s) + i] = u[i]
      BY <2>1
    <3> QED
      BY <2>1, <3>1, JoinedIs
  <2>4. x \o w = v
    <3>1. /\ Len(v) = Len(x) + Len(w) /\ \A i \in 1..Len(x) : v[i] = x[i]
          /\ \A i \in 1..Len(w) : v[Len(x) + i] = w[i]
      BY <2>1, <2>2
    <3> QED
      BY <2>1, <2>2, <3>1, JoinedIs
  <2>5. s \o u \o w = v
    BY <2>3, <2>4
  <2> QED
    BY <2>5 DEF s, u, w, v
<1>2. ASSUME NEW a \in Instructions, NEW b \in Instructions, NEW c \in Instructions, NEW d \in Instructions
      PROVE  <<a, b>> \o <<c>> \o <<d>> = <<a, b, c, d>>
  <2> DEFINE s == <<a, b>>
             u == <<c>>
             x == <<a, b, c>>
             w == <<d>>
             v == <<a, b, c, d>>
  <2>1. /\ s \in Seq(Instructions) /\ u \in Seq(Instructions) /\ x \in Seq(Instructions)
        /\ Len(s) = 2 /\ Len(u) = 1 /\ Len(x) = 3
        /\ x[1] = s[1] /\ x[2] = s[2] /\ x[3] = u[1]
    OBVIOUS
  <2>2. /\ w \in Seq(Instructions) /\ v \in Seq(Instructions)
        /\ Len(w) = 1 /\ Len(v) = 4
        /\ v[1] = x[1] /\ v[2] = x[2] /\ v[3] = x[3] /\ v[4] = w[1]
    OBVIOUS
  <2> HIDE DEF s, u, x, w, v
  <2>3. s \o u = x
    <3>1. /\ Len(x) = Len(s) + Len(u) /\ \A i \in 1..Len(s) : x[i] = s[i]
          /\ \A i \in 1..Len(u) : x[Len(s) + i] = u[i]
      BY <2>1
    <3> QED
      BY <2>1, <3>1, JoinedIs
  <2>4. x \o w = v
    <3>1. /\ Len(v) = Len(x) + Len(w) /\ \A i \in 1..Len(x) : v[i] = x[i]
          /\ \A i \in 1..Len(w) : v[Len(x) + i] = w[i]
      BY <2>1, <2>2
    <3> QED
      BY <2>1, <2>2, <3>1, JoinedIs
  <2>5. s \o u \o w = v
    BY <2>3, <2>4
  <2> QED
    BY <2>5 DEF s, u, w, v
<1>3. ASSUME NEW a \in Instructions, NEW b \in Instructions, NEW c \in Instructions
      PROVE  <<a>> \o <<b>> \o <<c>> = <<a, b, c>>
  <2> DEFINE s == <<a>>
             u == <<b>>
             x == <<a, b>>
             w == <<c>>
             v == <<a, b, c>>
  <2>1. /\ s \in Seq(Instructions) /\ u \in Seq(Instructions) /\ x \in Seq(Instructions)
        /\ Len(s) = 1 /\ Len(u) = 1 /\ Len(x) = 2
        /\ x[1] = s[1] /\ x[2] = u[1]
    OBVIOUS
  <2>2. /\ w \in Seq(Instructions) /\ v \in Seq(Instructions)
        /\ Len(w) = 1 /\ Len(v) = 3
        /\ v[1] = x[1] /\ v[2] = x[2] /\ v[3] = w[1]
    OBVIOUS
  <2> HIDE DEF s, u, x, w, v
  <2>3. s \o u = x
    <3>1. /\ Len(x) = Len(s) + Len(u) /\ \A i \in 1..Len(s) : x[i] = s[i]
          /\ \A i \in 1..Len(u) : x[Len(s) + i] = u[i]
      BY <2>1
    <3> QED
      BY <2>1, <3>1, JoinedIs
  <2>4. x \o w = v
    <3>1. /\ Len(v) = Len(x) + Len(w) /\ \A i \in 1..Len(x) : v[i] = x[i]
          /\ \A i \in 1..Len(w) : v[Len(x) + i] = w[i]
      BY <2>1, <2>2
    <3> QED
      BY <2>1, <2>2, <3>1, JoinedIs
  <2>5. s \o u \o w = v
    BY <2>3, <2>4
  <2> QED
    BY <2>5 DEF s, u, w, v
<1>4. ASSUME NEW a \in Instructions, NEW c \in Instructions
      PROVE  <<a>> \o <<>> \o <<c>> = <<a, c>>
  <2> DEFINE s == <<a>>
             u == <<>>
             x == <<a>>
             w == <<c>>
             v == <<a, c>>
  <2>1. /\ s \in Seq(Instructions) /\ u \in Seq(Instructions) /\ x \in Seq(Instructions)
        /\ Len(s) = 1 /\ Len(u) = 0 /\ Len(x) = 1
        /\ x[1] = s[1]
    OBVIOUS
  <2>2. /\ w \in Seq(Instructions) /\ v \in Seq(Instructions)
        /\ Len(w) = 1 /\ Len(v) = 2
        /\ v[1] = x[1] /\ v[2] = w[1]
    OBVIOUS
  <2> HIDE DEF s, u, x, w, v
  <2>3. s \o u = x
    <3>1. /\ Len(x) = Len(s) + Len(u) /\ \A i \in 1..Len(s) : x[i] = s[i]
          /\ \A i \in 1..Len(u) : x[Len(s) + i] = u[i]
      BY <2>1
    <3> QED
      BY <2>1, <3>1, JoinedIs
  <2>4. x \o w = v
    <3>1. /\ Len(v) = Len(x) + Len(w) /\ \A i \in 1..Len(x) : v[i] = x[i]
          /\ \A i \in 1..Len(w) : v[Len(x) + i] = w[i]
      BY <2>1, <2>2
    <3> QED
      BY <2>1, <2>2, <3>1, JoinedIs
  <2>5. s \o u \o w = v
    BY <2>3, <2>4
  <2> QED
    BY <2>5 DEF s, u, w, v
<1> QED
  BY <1>1, <1>2, <1>3, <1>4

-----------------------------------------------------------------------------
(* The programs, spelled out *)

ErrorMarked  == <<Record("error"), Write(Chunk("error")), Write(Chunk("done")), Return>>
ErrorAnswer  == <<Record("error"), Write(Chunk("error")), Return>>
MarkedOnly   == <<Record("error"), Write(Chunk("done")), Return>>
Silenced     == <<Record("error"), Return>>

LEMMA OpenFailedIs ==
  OpenFailed = IF kind \in SSEKinds THEN ErrorMarked ELSE ErrorAnswer
<1>1. /\ Record("error") \in Instructions /\ Write(Chunk("error")) \in Instructions
      /\ Write(Chunk("done")) \in Instructions /\ Return \in Instructions
  BY Typed DEF ChunkTypes, Finish, Statuses
<1>2. CASE kind \in SSEKinds
  BY <1>1, <1>2, JoinedTuples DEF OpenFailed, EndMarker, ErrorMarked
<1>3. CASE kind \notin SSEKinds
  BY <1>1, <1>3, JoinedTuples DEF OpenFailed, EndMarker, ErrorAnswer
<1> QED
  BY <1>2, <1>3

LEMMA SendFailedIs ==
  SendFailed = IF kind \in JsonKinds THEN ErrorAnswer
               ELSE IF kind \in SSEKinds THEN MarkedOnly ELSE Silenced
<1>1. /\ Record("error") \in Instructions /\ Write(Chunk("error")) \in Instructions
      /\ Write(Chunk("done")) \in Instructions /\ Return \in Instructions
  BY Typed DEF ChunkTypes, Finish, Statuses
<1>2. CASE kind \in JsonKinds
  BY <1>1, <1>2, JoinedTuples DEF SendFailed, ErrorAnswer
<1>3. CASE kind \notin JsonKinds /\ kind \in SSEKinds
  BY <1>1, <1>3, JoinedTuples DEF SendFailed, EndMarker, MarkedOnly
<1>4. CASE kind \notin JsonKinds /\ kind \notin SSEKinds
  BY <1>1, <1>4, JoinedTuples DEF SendFailed, EndMarker, Silenced
<1> QED
  BY <1>2, <1>3, <1>4

LEMMA ToolAnswerIs ==
  ASSUME NEW n \in Nat
  PROVE  LET p == ToolAnswer(n) IN
         /\ p \in Seq(Instructions) /\ Len(p) = n + 5
         /\ p[1] = Park /\ \A i \in 2..(n + 1) : p[i] = Write(Chunk("call"))
         /\ p[n + 2] = Write(Chunk("tool_calls")) /\ p[n + 3] = Write(Chunk("done"))
         /\ p[n + 4] = Record("success") /\ p[n + 5] = Return
<1> DEFINE a == <<Park>>
           b == CallChunks(n)
           c == <<Write(Chunk("tool_calls")), Write(Chunk("done")), Record("success"), Return>>
           v == (a \o b) \o c
<1>1. b \in Seq(Instructions) /\ Len(b) = n /\ \A i \in 1..n : b[i] = Write(Chunk("call"))
  BY Typed DEF CallChunks, ChunkTypes
<1>2. /\ c \in Seq(Instructions) /\ Len(c) = 4
      /\ c[1] = Write(Chunk("tool_calls")) /\ c[2] = Write(Chunk("done"))
      /\ c[3] = Record("success") /\ c[4] = Return
  BY Typed DEF ChunkTypes, Finish, Statuses
<1>3. a \in Seq(Instructions) /\ Len(a) = 1 /\ a[1] = Park
  BY Typed
<1>4. ToolAnswer(n) = v
  BY DEF ToolAnswer
<1> HIDE DEF a, b, c
<1>5. /\ a \o b \in Seq(Instructions) /\ Len(a \o b) = n + 1
      /\ (a \o b)[1] = Park /\ \A i \in 1..n : (a \o b)[1 + i] = Write(Chunk("call"))
  BY <1>1, <1>3, ConcatFacts
<1>6. /\ v \in Seq(Instructions) /\ Len(v) = n + 1 + 4
      /\ \A i \in 1..(n + 1) : v[i] = (a \o b)[i]
      /\ \A i \in 1..4 : v[n + 1 + i] = c[i]
  <2> DEFINE w == a \o b
  <2>1. w \in Seq(Instructions) /\ Len(w) = n + 1
    BY <1>5
  <2> HIDE DEF w
  <2>2. /\ w \o c \in Seq(Instructions) /\ Len(w \o c) = n + 1 + 4
        /\ \A i \in 1..(n + 1) : (w \o c)[i] = w[i]
        /\ \A i \in 1..4 : (w \o c)[n + 1 + i] = c[i]
    BY <1>2, <2>1, ConcatFacts
  <2> QED
    BY <2>2 DEF w
<1> HIDE DEF v
<1>7. v[1] = Park /\ \A i \in 2..(n + 1) : v[i] = Write(Chunk("call"))
  <2>1. 1 \in 1..(n + 1)
    OBVIOUS
  <2>2. ASSUME NEW i \in 2..(n + 1) PROVE v[i] = Write(Chunk("call"))
    <3>1. i - 1 \in 1..n /\ 1 + (i - 1) = i /\ i \in 1..(n + 1)
      OBVIOUS
    <3> QED
      BY <1>5, <1>6, <3>1
  <2> QED
    BY <1>5, <1>6, <2>1, <2>2
<1>8. v[n + 2] = c[1] /\ v[n + 3] = c[2] /\ v[n + 4] = c[3] /\ v[n + 5] = c[4]
  <2>1. n + 1 + 1 = n + 2 /\ n + 1 + 2 = n + 3 /\ n + 1 + 3 = n + 4 /\ n + 1 + 4 = n + 5
    OBVIOUS
  <2> QED
    BY <1>6, <2>1
<1> QED
  BY <1>2, <1>4, <1>6, <1>7, <1>8

\* What every program the handler leaves with has in common.
Leaving(p) ==
  /\ p \in Seq(Instructions)
  /\ EndsInReturn(p)
  /\ ParksFirst(p)
  /\ \A i \in DOMAIN p : p[i].op # "signal"
  /\ AtMostOnce(p, "record")
  /\ \A late : InOrder(late, p)

LEMMA ErrorMarkedFacts ==
  LET p == ErrorMarked IN
  /\ Leaving(p) /\ RecordsFirst(p)
  /\ \A T : Writes(p, T) <=> "error" \in T \/ "done" \in T
  /\ \A S : Records(p, S) <=> "error" \in S
<1> DEFINE p == ErrorMarked
<1>1. /\ p # <<>> /\ p \in Seq(Instructions) /\ Len(p) = 4 /\ DOMAIN p = {1, 2, 3, 4}
      /\ p[1] = Record("error")
      /\ p[2] = Write(Chunk("error"))
      /\ p[3] = Write(Chunk("done"))
      /\ p[4] = Return
  BY Typed, TupleFacts DEF ErrorMarked, ChunkTypes, Finish, Statuses
<1> HIDE DEF p
<1>2. /\ \A i \in DOMAIN p : i \in {1, 2, 3, 4}
      /\ p[1].op = "record" /\ p[1].status = "error"
      /\ p[2].op = "write" /\ p[2].chunk.type = "error"
      /\ p[3].op = "write" /\ p[3].chunk.type = "done"
      /\ p[4].op = "return"
  BY <1>1 DEF Write, Record, Chunk, Reply, Park, Return
<1>3. EndsInReturn(p) /\ ParksFirst(p) /\ \A i \in DOMAIN p : p[i].op # "signal"
  BY <1>1, <1>2 DEF EndsInReturn, ParksFirst, Reveals
<1>4. AtMostOnce(p, "record")
  BY <1>1, <1>2 DEF AtMostOnce
<1>5. ASSUME NEW late PROVE InOrder(late, p)
  BY <1>1, <1>2 DEF InOrder, Bad, Reveals, Finish
<1>6. \A T : Writes(p, T) <=> "error" \in T \/ "done" \in T
  BY <1>1, <1>2 DEF Writes
<1>7. \A S : Records(p, S) <=> "error" \in S
  BY <1>1, <1>2 DEF Records
<1>8. Leaving(p)
  BY <1>1, <1>3, <1>4, <1>5 DEF Leaving
<1>9. RecordsFirst(p)
  BY <1>1, <1>2 DEF RecordsFirst
<1> QED
  BY <1>4, <1>6, <1>7, <1>8, <1>9 DEF p

LEMMA ErrorAnswerFacts ==
  LET p == ErrorAnswer IN
  /\ Leaving(p) /\ RecordsFirst(p)
  /\ AtMostOnce(p, "write")
  /\ \A T : Writes(p, T) <=> "error" \in T
  /\ \A S : Records(p, S) <=> "error" \in S
<1> DEFINE p == ErrorAnswer
<1>1. /\ p # <<>> /\ p \in Seq(Instructions) /\ Len(p) = 3 /\ DOMAIN p = {1, 2, 3}
      /\ p[1] = Record("error")
      /\ p[2] = Write(Chunk("error"))
      /\ p[3] = Return
  BY Typed, TupleFacts DEF ErrorAnswer, ChunkTypes, Finish, Statuses
<1> HIDE DEF p
<1>2. /\ \A i \in DOMAIN p : i \in {1, 2, 3}
      /\ p[1].op = "record" /\ p[1].status = "error"
      /\ p[2].op = "write" /\ p[2].chunk.type = "error"
      /\ p[3].op = "return"
  BY <1>1 DEF Write, Record, Chunk, Reply, Park, Return
<1>3. EndsInReturn(p) /\ ParksFirst(p) /\ \A i \in DOMAIN p : p[i].op # "signal"
  BY <1>1, <1>2 DEF EndsInReturn, ParksFirst, Reveals
<1>4. AtMostOnce(p, "record") /\ AtMostOnce(p, "write")
  BY <1>1, <1>2 DEF AtMostOnce
<1>5. ASSUME NEW late PROVE InOrder(late, p)
  BY <1>1, <1>2 DEF InOrder, Bad, Reveals, Finish
<1>6. \A T : Writes(p, T) <=> "error" \in T
  BY <1>1, <1>2 DEF Writes
<1>7. \A S : Records(p, S) <=> "error" \in S
  BY <1>1, <1>2 DEF Records
<1>8. Leaving(p)
  BY <1>1, <1>3, <1>4, <1>5 DEF Leaving
<1>9. RecordsFirst(p)
  BY <1>1, <1>2 DEF RecordsFirst
<1> QED
  BY <1>4, <1>6, <1>7, <1>8, <1>9 DEF p

LEMMA RefusedFacts ==
  LET p == Refused IN
  /\ Leaving(p) /\ RecordsFirst(p)
  /\ AtMostOnce(p, "write")
  /\ \A T : Writes(p, T) <=> "refusal" \in T
  /\ \A S : Records(p, S) <=> "error" \in S
<1> DEFINE p == Refused
<1>1. /\ p # <<>> /\ p \in Seq(Instructions) /\ Len(p) = 3 /\ DOMAIN p = {1, 2, 3}
      /\ p[1] = Record("error")
      /\ p[2] = Write(Chunk("refusal"))
      /\ p[3] = Return
  BY Typed, TupleFacts DEF Refused, ChunkTypes, Finish, Statuses
<1> HIDE DEF p
<1>2. /\ \A i \in DOMAIN p : i \in {1, 2, 3}
      /\ p[1].op = "record" /\ p[1].status = "error"
      /\ p[2].op = "write" /\ p[2].chunk.type = "refusal"
      /\ p[3].op = "return"
  BY <1>1 DEF Write, Record, Chunk, Reply, Park, Return
<1>3. EndsInReturn(p) /\ ParksFirst(p) /\ \A i \in DOMAIN p : p[i].op # "signal"
  BY <1>1, <1>2 DEF EndsInReturn, ParksFirst, Reveals
<1>4. AtMostOnce(p, "record") /\ AtMostOnce(p, "write")
  BY <1>1, <1>2 DEF AtMostOnce
<1>5. ASSUME NEW late PROVE InOrder(late, p)
  BY <1>1, <1>2 DEF InOrder, Bad, Reveals, Finish
<1>6. \A T : Writes(p, T) <=> "refusal" \in T
  BY <1>1, <1>2 DEF Writes
<1>7. \A S : Records(p, S) <=> "error" \in S
  BY <1>1, <1>2 DEF Records
<1>8. Leaving(p)
  BY <1>1, <1>3, <1>4, <1>5 DEF Leaving
<1>9. RecordsFirst(p)
  BY <1>1, <1>2 DEF RecordsFirst
<1> QED
  BY <1>4, <1>6, <1>7, <1>8, <1>9 DEF p

LEMMA MarkedOnlyFacts ==
  LET p == MarkedOnly IN
  /\ Leaving(p) /\ RecordsFirst(p)
  /\ AtMostOnce(p, "write")
  /\ \A T : Writes(p, T) <=> "done" \in T
  /\ \A S : Records(p, S) <=> "error" \in S
<1> DEFINE p == MarkedOnly
<1>1. /\ p # <<>> /\ p \in Seq(Instructions) /\ Len(p) = 3 /\ DOMAIN p = {1, 2, 3}
      /\ p[1] = Record("error")
      /\ p[2] = Write(Chunk("done"))
      /\ p[3] = Return
  BY Typed, TupleFacts DEF MarkedOnly, ChunkTypes, Finish, Statuses
<1> HIDE DEF p
<1>2. /\ \A i \in DOMAIN p : i \in {1, 2, 3}
      /\ p[1].op = "record" /\ p[1].status = "error"
      /\ p[2].op = "write" /\ p[2].chunk.type = "done"
      /\ p[3].op = "return"
  BY <1>1 DEF Write, Record, Chunk, Reply, Park, Return
<1>3. EndsInReturn(p) /\ ParksFirst(p) /\ \A i \in DOMAIN p : p[i].op # "signal"
  BY <1>1, <1>2 DEF EndsInReturn, ParksFirst, Reveals
<1>4. AtMostOnce(p, "record") /\ AtMostOnce(p, "write")
  BY <1>1, <1>2 DEF AtMostOnce
<1>5. ASSUME NEW late PROVE InOrder(late, p)
  BY <1>1, <1>2 DEF InOrder, Bad, Reveals, Finish
<1>6. \A T : Writes(p, T) <=> "done" \in T
  BY <1>1, <1>2 DEF Writes
<1>7. \A S : Records(p, S) <=> "error" \in S
  BY <1>1, <1>2 DEF Records
<1>8. Leaving(p)
  BY <1>1, <1>3, <1>4, <1>5 DEF Leaving
<1>9. RecordsFirst(p)
  BY <1>1, <1>2 DEF RecordsFirst
<1> QED
  BY <1>4, <1>6, <1>7, <1>8, <1>9 DEF p

LEMMA RecordOnlyFacts ==
  LET p == Silenced IN
  /\ Leaving(p) /\ RecordsFirst(p)
  /\ AtMostOnce(p, "write")
  /\ \A T : Writes(p, T) <=> FALSE
  /\ \A S : Records(p, S) <=> "error" \in S
<1> DEFINE p == Silenced
<1>1. /\ p # <<>> /\ p \in Seq(Instructions) /\ Len(p) = 2 /\ DOMAIN p = {1, 2}
      /\ p[1] = Record("error")
      /\ p[2] = Return
  BY Typed, TupleFacts DEF Silenced, ChunkTypes, Finish, Statuses
<1> HIDE DEF p
<1>2. /\ \A i \in DOMAIN p : i \in {1, 2}
      /\ p[1].op = "record" /\ p[1].status = "error"
      /\ p[2].op = "return"
  BY <1>1 DEF Write, Record, Chunk, Reply, Park, Return
<1>3. EndsInReturn(p) /\ ParksFirst(p) /\ \A i \in DOMAIN p : p[i].op # "signal"
  BY <1>1, <1>2 DEF EndsInReturn, ParksFirst, Reveals
<1>4. AtMostOnce(p, "record") /\ AtMostOnce(p, "write")
  BY <1>1, <1>2 DEF AtMostOnce
<1>5. ASSUME NEW late PROVE InOrder(late, p)
  BY <1>1, <1>2 DEF InOrder, Bad, Reveals, Finish
<1>6. \A T : Writes(p, T) <=> FALSE
  BY <1>1, <1>2 DEF Writes
<1>7. \A S : Records(p, S) <=> "error" \in S
  BY <1>1, <1>2 DEF Records
<1>8. Leaving(p)
  BY <1>1, <1>3, <1>4, <1>5 DEF Leaving
<1>9. RecordsFirst(p)
  BY <1>1, <1>2 DEF RecordsFirst
<1> QED
  BY <1>4, <1>6, <1>7, <1>8, <1>9 DEF p

LEMMA ReturnFacts ==
  LET p == <<Return>> IN
  /\ Leaving(p) /\ RecordsFirst(p)
  /\ AtMostOnce(p, "write")
  /\ \A T : Writes(p, T) <=> FALSE
  /\ \A S : Records(p, S) <=> FALSE
<1> DEFINE p == <<Return>>
<1>1. /\ p # <<>> /\ p \in Seq(Instructions) /\ Len(p) = 1 /\ DOMAIN p = {1}
      /\ p[1] = Return
  BY Typed, TupleFacts DEF ChunkTypes, Finish, Statuses
<1> HIDE DEF p
<1>2. /\ \A i \in DOMAIN p : i \in {1}
      /\ p[1].op = "return"
  BY <1>1 DEF Write, Record, Chunk, Reply, Park, Return
<1>3. EndsInReturn(p) /\ ParksFirst(p) /\ \A i \in DOMAIN p : p[i].op # "signal"
  BY <1>1, <1>2 DEF EndsInReturn, ParksFirst, Reveals
<1>4. AtMostOnce(p, "record") /\ AtMostOnce(p, "write")
  BY <1>1, <1>2 DEF AtMostOnce
<1>5. ASSUME NEW late PROVE InOrder(late, p)
  BY <1>1, <1>2 DEF InOrder, Bad, Reveals, Finish
<1>6. \A T : Writes(p, T) <=> FALSE
  BY <1>1, <1>2 DEF Writes
<1>7. \A S : Records(p, S) <=> FALSE
  BY <1>1, <1>2 DEF Records
<1>8. Leaving(p)
  BY <1>1, <1>3, <1>4, <1>5 DEF Leaving
<1>9. RecordsFirst(p)
  BY <1>1, <1>2 DEF RecordsFirst
<1> QED
  BY <1>4, <1>6, <1>7, <1>8, <1>9 DEF p

LEMMA LateStreamFacts ==
  LET p == <<Write(Chunk("done")), Record("error"), Return>> IN
  /\ Leaving(p)
  /\ AtMostOnce(p, "write")
  /\ \A T : Writes(p, T) <=> "done" \in T
  /\ \A S : Records(p, S) <=> "error" \in S
<1> DEFINE p == <<Write(Chunk("done")), Record("error"), Return>>
<1>1. /\ p # <<>> /\ p \in Seq(Instructions) /\ Len(p) = 3 /\ DOMAIN p = {1, 2, 3}
      /\ p[1] = Write(Chunk("done"))
      /\ p[2] = Record("error")
      /\ p[3] = Return
  BY Typed, TupleFacts DEF ChunkTypes, Finish, Statuses
<1> HIDE DEF p
<1>2. /\ \A i \in DOMAIN p : i \in {1, 2, 3}
      /\ p[1].op = "write" /\ p[1].chunk.type = "done"
      /\ p[2].op = "record" /\ p[2].status = "error"
      /\ p[3].op = "return"
  BY <1>1 DEF Write, Record, Chunk, Reply, Park, Return
<1>3. EndsInReturn(p) /\ ParksFirst(p) /\ \A i \in DOMAIN p : p[i].op # "signal"
  BY <1>1, <1>2 DEF EndsInReturn, ParksFirst, Reveals
<1>4. AtMostOnce(p, "record") /\ AtMostOnce(p, "write")
  BY <1>1, <1>2 DEF AtMostOnce
<1>5. ASSUME NEW late PROVE InOrder(late, p)
  BY <1>1, <1>2 DEF InOrder, Bad, Reveals, Finish
<1>6. \A T : Writes(p, T) <=> "done" \in T
  BY <1>1, <1>2 DEF Writes
<1>7. \A S : Records(p, S) <=> "error" \in S
  BY <1>1, <1>2 DEF Records
<1>8. Leaving(p)
  BY <1>1, <1>3, <1>4, <1>5 DEF Leaving
<1> QED
  BY <1>4, <1>6, <1>7, <1>8 DEF p

LEMMA StreamTextFacts ==
  LET p == StreamTextAnswer IN
  /\ Leaving(p)
  /\ \A T : Writes(p, T) <=> "stop" \in T \/ "done" \in T
  /\ \A S : Records(p, S) <=> "success" \in S
<1> DEFINE p == StreamTextAnswer
<1>1. /\ p # <<>> /\ p \in Seq(Instructions) /\ Len(p) = 4 /\ DOMAIN p = {1, 2, 3, 4}
      /\ p[1] = Write(Chunk("stop"))
      /\ p[2] = Write(Chunk("done"))
      /\ p[3] = Record("success")
      /\ p[4] = Return
  BY Typed, TupleFacts DEF StreamTextAnswer, ChunkTypes, Finish, Statuses
<1> HIDE DEF p
<1>2. /\ \A i \in DOMAIN p : i \in {1, 2, 3, 4}
      /\ p[1].op = "write" /\ p[1].chunk.type = "stop"
      /\ p[2].op = "write" /\ p[2].chunk.type = "done"
      /\ p[3].op = "record" /\ p[3].status = "success"
      /\ p[4].op = "return"
  BY <1>1 DEF Write, Record, Chunk, Reply, Park, Return
<1>3. EndsInReturn(p) /\ ParksFirst(p) /\ \A i \in DOMAIN p : p[i].op # "signal"
  BY <1>1, <1>2 DEF EndsInReturn, ParksFirst, Reveals
<1>4. AtMostOnce(p, "record")
  BY <1>1, <1>2 DEF AtMostOnce
<1>5. ASSUME NEW late PROVE InOrder(late, p)
  BY <1>1, <1>2 DEF InOrder, Bad, Reveals, Finish
<1>6. \A T : Writes(p, T) <=> "stop" \in T \/ "done" \in T
  BY <1>1, <1>2 DEF Writes
<1>7. \A S : Records(p, S) <=> "success" \in S
  BY <1>1, <1>2 DEF Records
<1>8. Leaving(p)
  BY <1>1, <1>3, <1>4, <1>5 DEF Leaving
<1> QED
  BY <1>4, <1>6, <1>7, <1>8 DEF p

LEMMA JsonTextFacts ==
  ASSUME turn.finalText \in (0..MaxPieces) \X (0..MaxPieces)
  PROVE  LET p == JsonTextAnswer IN
         /\ Leaving(p)
         /\ AtMostOnce(p, "write")
         /\ \A i \in DOMAIN p : p[i].op = "write" => p[i].chunk = Reply(turn.finalText)
         /\ \A T : Writes(p, T) <=> "reply" \in T
         /\ \A S : Records(p, S) <=> "success" \in S
<1> DEFINE p == JsonTextAnswer
<1>1. /\ p # <<>> /\ p \in Seq(Instructions) /\ Len(p) = 3 /\ DOMAIN p = {1, 2, 3}
      /\ p[1] = Record("success")
      /\ p[2] = Write(Reply(turn.finalText))
      /\ p[3] = Return
  BY Typed, TupleFacts DEF JsonTextAnswer, ChunkTypes, Finish, Statuses
<1> HIDE DEF p
<1>2. /\ \A i \in DOMAIN p : i \in {1, 2, 3}
      /\ p[1].op = "record" /\ p[1].status = "success"
      /\ p[2].op = "write" /\ p[2].chunk.type = "reply"
      /\ p[3].op = "return"
  BY <1>1 DEF Write, Record, Chunk, Reply, Park, Return
<1>3. EndsInReturn(p) /\ ParksFirst(p) /\ \A i \in DOMAIN p : p[i].op # "signal"
  BY <1>1, <1>2 DEF EndsInReturn, ParksFirst, Reveals
<1>4. AtMostOnce(p, "record") /\ AtMostOnce(p, "write")
  BY <1>1, <1>2 DEF AtMostOnce
<1>5. ASSUME NEW late PROVE InOrder(late, p)
  BY <1>1, <1>2 DEF InOrder, Bad, Reveals, Finish
<1>6. \A T : Writes(p, T) <=> "reply" \in T
  BY <1>1, <1>2 DEF Writes
<1>7. \A S : Records(p, S) <=> "success" \in S
  BY <1>1, <1>2 DEF Records
<1>8. Leaving(p)
  BY <1>1, <1>3, <1>4, <1>5 DEF Leaving
<1>9. \A i \in DOMAIN p : p[i].op = "write" => p[i].chunk = Reply(turn.finalText)
  <2>1. p[2].chunk = Reply(turn.finalText)
    BY <1>1 DEF Write
  <2> QED
    BY <1>2, <2>1
<1> QED
  BY <1>4, <1>6, <1>7, <1>8, <1>9 DEF p

LEMMA JsonToolFacts ==
  LET p == JsonToolAnswer IN
  /\ Leaving(p)
  /\ AtMostOnce(p, "write")
  /\ \A T : Writes(p, T) <=> "tool_calls" \in T
  /\ \A S : Records(p, S) <=> "success" \in S
<1> DEFINE p == JsonToolAnswer
<1>1. /\ p # <<>> /\ p \in Seq(Instructions) /\ Len(p) = 4 /\ DOMAIN p = {1, 2, 3, 4}
      /\ p[1] = Park
      /\ p[2] = Record("success")
      /\ p[3] = Write(Chunk("tool_calls"))
      /\ p[4] = Return
  BY Typed, TupleFacts DEF JsonToolAnswer, ChunkTypes, Finish, Statuses
<1> HIDE DEF p
<1>2. /\ \A i \in DOMAIN p : i \in {1, 2, 3, 4}
      /\ p[1].op = "park"
      /\ p[2].op = "record" /\ p[2].status = "success"
      /\ p[3].op = "write" /\ p[3].chunk.type = "tool_calls"
      /\ p[4].op = "return"
  BY <1>1 DEF Write, Record, Chunk, Reply, Park, Return
<1>3. EndsInReturn(p) /\ ParksFirst(p) /\ \A i \in DOMAIN p : p[i].op # "signal"
  BY <1>1, <1>2 DEF EndsInReturn, ParksFirst, Reveals
<1>4. AtMostOnce(p, "record") /\ AtMostOnce(p, "write")
  BY <1>1, <1>2 DEF AtMostOnce
<1>5. ASSUME NEW late PROVE InOrder(late, p)
  BY <1>1, <1>2 DEF InOrder, Bad, Reveals, Finish
<1>6. \A T : Writes(p, T) <=> "tool_calls" \in T
  BY <1>1, <1>2 DEF Writes
<1>7. \A S : Records(p, S) <=> "success" \in S
  BY <1>1, <1>2 DEF Records
<1>8. Leaving(p)
  BY <1>1, <1>3, <1>4, <1>5 DEF Leaving
<1> QED
  BY <1>4, <1>6, <1>7, <1>8 DEF p

LEMMA ToolAnswerFacts ==
  ASSUME NEW n \in Nat
  PROVE  LET p == ToolAnswer(n) IN
         /\ Leaving(p)
         /\ \A T : Writes(p, T) => "call" \in T \/ "tool_calls" \in T \/ "done" \in T
         /\ \A T : "tool_calls" \in T \/ "done" \in T => Writes(p, T)
         /\ \A S : Records(p, S) <=> "success" \in S
<1> DEFINE p == ToolAnswer(n)
<1>1. /\ p \in Seq(Instructions) /\ Len(p) = n + 5
      /\ p[1] = Park /\ \A i \in 2..(n + 1) : p[i] = Write(Chunk("call"))
      /\ p[n + 2] = Write(Chunk("tool_calls")) /\ p[n + 3] = Write(Chunk("done"))
      /\ p[n + 4] = Record("success") /\ p[n + 5] = Return
  BY ToolAnswerIs
<1> HIDE DEF p
<1>2. /\ p # <<>> /\ DOMAIN p = 1..(n + 5) /\ n + 5 \in DOMAIN p
      /\ \A i \in DOMAIN p : i = 1 \/ i \in 2..(n + 1) \/ i = n + 2 \/ i = n + 3
                             \/ i = n + 4 \/ i = n + 5
  BY <1>1
<1>3. /\ p[1].op = "park"
      /\ \A i \in 2..(n + 1) : p[i].op = "write" /\ p[i].chunk.type = "call"
  BY <1>1 DEF Write, Chunk, Park
<1>4. /\ p[n + 2].op = "write" /\ p[n + 2].chunk.type = "tool_calls"
      /\ p[n + 3].op = "write" /\ p[n + 3].chunk.type = "done"
  BY <1>1 DEF Write, Chunk
<1>5. p[n + 4].op = "record" /\ p[n + 4].status = "success" /\ p[n + 5].op = "return"
  BY <1>1 DEF Record, Return
<1>6. EndsInReturn(p) /\ \A i \in DOMAIN p : p[i].op # "signal"
  BY <1>1, <1>2, <1>3, <1>4, <1>5 DEF EndsInReturn
<1>7. ParksFirst(p)
  <2>1. ASSUME NEW i \in DOMAIN p, p[i].op = "write"
        PROVE  1 \in DOMAIN p /\ 1 < i /\ p[1].op = "park"
    BY <1>2, <1>3, <2>1
  <2> QED
    BY <2>1 DEF ParksFirst
<1>8. AtMostOnce(p, "record")
  BY <1>2, <1>3, <1>4, <1>5 DEF AtMostOnce
<1>9. ASSUME NEW late PROVE InOrder(late, p)
  <2>1. ASSUME NEW i \in DOMAIN p, NEW j \in DOMAIN p, i < j,
               p[i].op = "write", p[j].op = "write"
        PROVE  \/ i \in 2..(n + 1) /\ (j \in 2..(n + 1) \/ j = n + 2 \/ j = n + 3)
               \/ i = n + 2 /\ j = n + 3
    BY <1>2, <1>3, <1>4, <1>5, <2>1
  <2> QED
    BY <1>3, <1>4, <2>1 DEF InOrder, Bad, Reveals, Finish
<1>10. ASSUME NEW T, Writes(p, T)
       PROVE  "call" \in T \/ "tool_calls" \in T \/ "done" \in T
  BY <1>2, <1>3, <1>4, <1>5, <1>10 DEF Writes
<1>11. ASSUME NEW T, "tool_calls" \in T \/ "done" \in T PROVE Writes(p, T)
  <2>1. n + 2 \in DOMAIN p /\ n + 3 \in DOMAIN p
    BY <1>2
  <2> QED
    BY <1>4, <1>11, <2>1 DEF Writes
<1>12. ASSUME NEW S PROVE Records(p, S) <=> "success" \in S
  <2>1. n + 4 \in DOMAIN p
    BY <1>2
  <2> QED
    BY <1>2, <1>3, <1>4, <1>5, <2>1 DEF Records
<1>13. Leaving(p)
  BY <1>1, <1>6, <1>7, <1>8, <1>9 DEF Leaving
<1> QED
  BY <1>10, <1>11, <1>12, <1>13 DEF p

-----------------------------------------------------------------------------
(* What taking the first instruction off a program leaves of it *)

LEMMA PopFacts ==
  ASSUME NEW p \in Seq(Instructions), p # <<>>
  PROVE  LET x == Head(p)  q == Tail(p) IN
         /\ \A T : Writes(p, T) <=> Writes(q, T) \/ (x.op = "write" /\ x.chunk.type \in T)
         /\ \A S : Records(p, S) <=> Records(q, S) \/ (x.op = "record" /\ x.status \in S)
         /\ \A o : AtMostOnce(p, o) =>
              AtMostOnce(q, o) /\ (x.op = o => \A i \in DOMAIN q : q[i].op # o)
         /\ EndsInReturn(p) =>
              /\ x.op = "return" <=> q = <<>>
              /\ q # <<>> => EndsInReturn(q)
         /\ ParksFirst(p) =>
              /\ x.op = "park" \/ ParksFirst(q)
              /\ x.op = "write" => x.chunk.type \notin Reveals
         /\ RecordsFirst(p) =>
              RecordsFirst(q) /\ (x.op = "write" => \A S : ~Records(q, S))
         /\ \A late : InOrder(late, p) =>
              /\ InOrder(late, q)
              /\ x.op = "write" => \A j \in DOMAIN q :
                   q[j].op = "write" => ~Bad(late, x.chunk.type, q[j].chunk.type)
<1> DEFINE x == Head(p)
           q == Tail(p)
<1>1. /\ q \in Seq(Instructions) /\ Len(q) = Len(p) - 1 /\ Len(p) \in Nat /\ Len(p) \in DOMAIN p
      /\ 1 \in DOMAIN p /\ x = p[1]
      /\ \A i \in DOMAIN q : i + 1 \in DOMAIN p /\ i + 1 # 1 /\ q[i] = p[i + 1]
      /\ \A i \in DOMAIN p : i # 1 => i - 1 \in DOMAIN q /\ q[i - 1] = p[i]
  BY TailFacts
<1>2. DOMAIN p = 1..Len(p) /\ DOMAIN q = 1..Len(q) /\ Len(q) \in Nat
  BY <1>1
<1>3. q = <<>> <=> Len(p) = 1
  BY <1>1, <1>2, EmptySeq
<1> HIDE DEF x, q
<1>4. ASSUME NEW T
      PROVE  Writes(p, T) <=> Writes(q, T) \/ (x.op = "write" /\ x.chunk.type \in T)
  BY <1>1 DEF Writes
<1>5. ASSUME NEW S
      PROVE  Records(p, S) <=> Records(q, S) \/ (x.op = "record" /\ x.status \in S)
  BY <1>1 DEF Records
<1>6. ASSUME NEW o, AtMostOnce(p, o)
      PROVE  AtMostOnce(q, o) /\ (x.op = o => \A i \in DOMAIN q : q[i].op # o)
  <2>1. ASSUME NEW i \in DOMAIN q, NEW j \in DOMAIN q, q[i].op = o, q[j].op = o
        PROVE  i = j
    <3>1. i + 1 = j + 1
      BY <1>1, <1>6, <2>1 DEF AtMostOnce
    <3> QED
      BY <1>2, <3>1
  <2>2. ASSUME NEW i \in DOMAIN q, q[i].op = o, x.op = o PROVE FALSE
    BY <1>1, <1>6, <2>2 DEF AtMostOnce
  <2> QED
    BY <2>1, <2>2 DEF AtMostOnce
<1>7. ASSUME EndsInReturn(p)
      PROVE  /\ x.op = "return" <=> q = <<>>
             /\ q # <<>> => EndsInReturn(q)
  <2>1. x.op = "return" <=> q = <<>>
    BY <1>1, <1>3, <1>7 DEF EndsInReturn
  <2>2. ASSUME NEW i \in DOMAIN q PROVE q[i].op = "return" <=> i = Len(q)
    <3>1. q[i].op = "return" <=> i + 1 = Len(p)
      BY <1>1, <1>7 DEF EndsInReturn
    <3> QED
      BY <1>1, <1>2, <3>1
  <2> QED
    BY <2>1, <2>2 DEF EndsInReturn
<1>8. ASSUME ParksFirst(p)
      PROVE  /\ x.op = "park" \/ ParksFirst(q)
             /\ x.op = "write" => x.chunk.type \notin Reveals
  <2>1. ASSUME x.op = "write", x.chunk.type \in Reveals PROVE FALSE
    <3>1. PICK j \in DOMAIN p : j < 1 /\ p[j].op = "park"
      BY <1>1, <1>8, <2>1 DEF ParksFirst
    <3> QED
      BY <1>2, <3>1
  <2>2. ASSUME x.op # "park", NEW i \in DOMAIN q, q[i].op = "write",
               q[i].chunk.type \in Reveals
        PROVE  \E j \in DOMAIN q : j < i /\ q[j].op = "park"
    <3>1. PICK j \in DOMAIN p : j < i + 1 /\ p[j].op = "park"
      BY <1>1, <1>8, <2>2 DEF ParksFirst
    <3>2. j # 1 /\ j - 1 \in DOMAIN q /\ q[j - 1].op = "park" /\ j - 1 < i
      BY <1>1, <1>2, <2>2, <3>1
    <3> QED
      BY <3>2
  <2> QED
    BY <2>1, <2>2 DEF ParksFirst
<1>9. ASSUME NEW late, InOrder(late, p)
      PROVE  /\ InOrder(late, q)
             /\ x.op = "write" => \A j \in DOMAIN q :
                  q[j].op = "write" => ~Bad(late, x.chunk.type, q[j].chunk.type)
  <2>1. ASSUME NEW i \in DOMAIN q, NEW j \in DOMAIN q, i < j,
               q[i].op = "write", q[j].op = "write"
        PROVE  ~Bad(late, q[i].chunk.type, q[j].chunk.type)
    <3>1. i + 1 \in DOMAIN p /\ j + 1 \in DOMAIN p /\ i + 1 < j + 1
      BY <1>1, <1>2, <2>1
    <3> QED
      BY <1>1, <1>9, <2>1, <3>1 DEF InOrder
  <2>2. ASSUME x.op = "write", NEW j \in DOMAIN q, q[j].op = "write"
        PROVE  ~Bad(late, x.chunk.type, q[j].chunk.type)
    <3>1. j + 1 \in DOMAIN p /\ 1 < j + 1
      BY <1>1, <1>2
    <3> QED
      BY <1>1, <1>9, <2>2, <3>1 DEF InOrder
  <2> QED
    BY <2>1, <2>2 DEF InOrder
<1>10. ASSUME RecordsFirst(p)
       PROVE  RecordsFirst(q) /\ (x.op = "write" => \A S : ~Records(q, S))
  <2>1. ASSUME NEW i \in DOMAIN q, NEW j \in DOMAIN q, q[i].op = "write", q[j].op = "record"
        PROVE  j < i
    <3>1. j + 1 < i + 1
      BY <1>1, <1>10, <2>1 DEF RecordsFirst
    <3> QED
      BY <1>2, <3>1
  <2>2. ASSUME x.op = "write", NEW j \in DOMAIN q, q[j].op = "record" PROVE FALSE
    <3>1. j + 1 < 1
      BY <1>1, <1>10, <2>2 DEF RecordsFirst
    <3> QED
      BY <1>2, <3>1
  <2> QED
    BY <2>1, <2>2 DEF RecordsFirst, Records
<1> QED
  BY <1>4, <1>5, <1>6, <1>7, <1>8, <1>9, <1>10 DEF x, q

-----------------------------------------------------------------------------
(* Types, and the steps as moves on programs *)

\* A thread executes its next instruction.
Pop(t) ==
  LET x == Head(prog[t]) IN
  /\ prog[t] # <<>>
  /\ prog' = [prog EXCEPT ![t] = Tail(@)]
  /\ wire' = IF x.op = "write" /\ ~gone /\ pc # "returned"
             THEN Append(wire, x.chunk) ELSE wire
  /\ records' = IF x.op = "record" THEN Append(records, x.status) ELSE records
  /\ turn' = IF x.op = "signal" THEN [turn EXCEPT ![x.ch] = TRUE] ELSE turn
  /\ pc' = IF x.op = "return" THEN "returned" ELSE pc
  /\ parked' = IF x.op = "park" THEN TRUE ELSE parked
  /\ writing' = writing \ {t}
  /\ UNCHANGED <<kind, streams, agent, gone, timedOut>>

\* The handler takes up a program, which has it leave when `next' says so.
Load(p, next) ==
  /\ H = <<>>
  /\ prog' = [prog EXCEPT !["handler"] = p]
  /\ pc' = next
  /\ UNCHANGED <<kind, streams, agent, writing, wire, records, parked, gone>>

\* The agent says something; the callback writes it, or not.
Speak(p) ==
  /\ (\E n \in {0, 1} : SayDelta(n)) \/ Report
  /\ C = <<>> /\ agent.state \in {"talking", "calling"}
  /\ \/ p = <<>>
     \/ /\ kind \notin JsonKinds /\ ~turn.gotTool
        /\ \E c \in Chunks : c.type = "text" /\ p = <<Write(c)>>
  /\ prog' = [prog EXCEPT !["callback"] = p]
  /\ agent'.state = agent.state
  /\ turn'.gotTool = turn.gotTool /\ turn'.toolCh = turn.toolCh
  /\ turn'.over = turn.over
  /\ UNCHANGED <<kind, streams, pc, writing, outcome>>

LEMMA Popped ==
  ASSUME TypeOK, NEW t \in Threads,
         EndWrite(t) \/ RecordCompletion(t) \/ SignalHandler(t) \/ ParkSession(t) \/ ReturnStep(t)
  PROVE  Pop(t)
<1>1. CASE EndWrite(t)
  BY <1>1 DEF TypeOK, EndWrite, Pop
<1>2. t \notin writing \/ EndWrite(t)
  BY InstructionFacts DEF TypeOK, RecordCompletion, SignalHandler, ParkSession, ReturnStep
<1>3. CASE RecordCompletion(t)
  BY <1>1, <1>2, <1>3 DEF RecordCompletion, Pop
<1>4. CASE SignalHandler(t)
  BY <1>1, <1>2, <1>4 DEF SignalHandler, Pop, outcome
<1>5. CASE ParkSession(t)
  BY <1>1, <1>2, <1>5 DEF ParkSession, Pop
<1>6. CASE ReturnStep(t)
  BY <1>1, <1>2, <1>6 DEF ReturnStep, Pop, outcome
<1> QED
  BY <1>1, <1>3, <1>4, <1>5, <1>6

LEMMA TextTyped ==
  ASSUME NEW a \in 0..MaxPieces, NEW b \in 0..MaxPieces
  PROVE  Text(a, b) \in Chunks /\ Text(a, b).type = "text" /\ <<Write(Text(a, b))>> \in Seq(Instructions)
BY InstructionFacts, Typed DEF Chunks

\* kind never changes, and the handlers that answer in JSON ask for no deltas.
WholeMessages == kind \in JsonKinds => ~streams

LEMMA Spoken ==
  ASSUME TypeOK, WholeMessages, (\E n \in {0, 1} : SayDelta(n)) \/ Report
  PROVE  \E p \in Seq(Instructions) : Speak(p)
<1>1. ASSUME NEW n \in {0, 1}, SayDelta(n) PROVE \E p \in Seq(Instructions) : Speak(p)
  <2> DEFINE c == Text(agent.said + 1, agent.said + n)
             p == IF n > 0 /\ ~turn.gotTool THEN <<Write(c)>> ELSE <<>>
  <2>1. n > 0 => agent.said + 1 \in 0..MaxPieces /\ agent.said + n \in 0..MaxPieces
    BY <1>1, StreamAssumption DEF TypeOK, SayDelta
  <2>2. n > 0 => c \in Chunks /\ c.type = "text" /\ <<Write(c)>> \in Seq(Instructions)
    BY <2>1, TextTyped
  <2>3. p \in Seq(Instructions)
    BY <2>2
  <2>4. kind \notin JsonKinds /\ agent.state = "talking" /\ agent'.state = agent.state
    BY <1>1 DEF SayDelta, WholeMessages, TypeOK
  <2>5. /\ turn'.gotTool = turn.gotTool /\ turn'.toolCh = turn.toolCh
        /\ turn'.over = turn.over /\ Deliver(p)
    BY <1>1 DEF SayDelta, OnDelta, TypeOK
  <2> HIDE DEF c
  <2>6. Speak(p)
    BY <1>1, <2>2, <2>4, <2>5 DEF Speak, Deliver, C
  <2> QED
    BY <2>3, <2>6
<1>2. ASSUME Report PROVE \E p \in Seq(Instructions) : Speak(p)
  <2> DEFINE b == IF streams THEN agent.said ELSE agent.said + 1
  <2>1. /\ b \in 0..MaxPieces /\ agent.reported < b
        /\ agent' = [agent EXCEPT !.said = b, !.reported = b]
        /\ OnMessage(agent.reported + 1, b)
    <3>1. /\ agent.reported < b /\ b <= MaxPieces
          /\ agent' = [agent EXCEPT !.said = b, !.reported = b]
          /\ OnMessage(agent.reported + 1, b)
      BY <1>2 DEF Report
    <3>2. b \in Nat
      BY StreamAssumption DEF TypeOK
    <3> QED
      BY <3>1, <3>2, StreamAssumption
  <2> HIDE DEF b
  <2> DEFINE c == Text(agent.reported + 1, b)
             p == IF kind \notin JsonKinds /\ ~turn.gotTool /\ ~turn.gotDelta
                  THEN <<Write(c)>> ELSE <<>>
  <2>2. c \in Chunks /\ c.type = "text" /\ <<Write(c)>> \in Seq(Instructions)
    <3>1. agent.reported + 1 \in 0..MaxPieces
      BY <2>1, StreamAssumption DEF TypeOK
    <3> QED
      BY <2>1, <3>1, TextTyped
  <2>3. p \in Seq(Instructions)
    BY <2>2
  <2>4. agent.state \in {"talking", "calling"} /\ agent'.state = agent.state
    BY <1>2, <2>1 DEF Report, TypeOK
  <2>5. /\ turn'.gotTool = turn.gotTool /\ turn'.toolCh = turn.toolCh
        /\ turn'.over = turn.over /\ Deliver(p)
    BY <2>1 DEF OnMessage, OnStreamMessage, TypeOK
  <2> HIDE DEF c
  <2>6. Speak(p)
    BY <1>2, <2>2, <2>4, <2>5 DEF Speak, Deliver, C
  <2> QED
    BY <2>3, <2>6
<1> QED
  BY <1>1, <1>2

LEMMA OnIdleIs ==
  /\ OnIdle \in Seq(Instructions)
  /\ kind \notin Plain => OnIdle = <<Signal("over")>>
BY Typed DEF OnIdle, ChatIdle, NdjsonIdle, Plain, ChunkTypes, Finish, Statuses

-----------------------------------------------------------------------------
(* The invariant: who is where *)

\* The handler runs a program in three places only, and leaves by a return; it
\* leaves before the agent has begun only by an error.
HandlerFlow ==
  /\ pc \in {"new", "sending", "waiting", "debounce", "returned"} => H = <<>>
  /\ pc \in {"new", "opened", "refusing"} => agent.state = "waiting"
  /\ pc \in {"waiting", "debounce"} => agent.state # "waiting"
  /\ pc = "opened" =>
       \A i \in DOMAIN H : kind \in SSEKinds /\ H[i] = Write(Chunk("role"))
  /\ pc \in {"leaving", "refusing"} => EndsInReturn(H)
  /\ pc = "leaving" /\ agent.state = "waiting" => Blamed
  /\ \A i \in DOMAIN H : H[i].op # "signal"

\* What the callback still has to do, told by what the agent has done.
CallbackFlow ==
  /\ WholeMessages
  /\ agent.state = "waiting" => C = <<>>
  /\ turn.gotTool <=> agent.state = "calling"
  /\ turn.gotTool => kind \in ToolKinds
  /\ turn.toolCh \/ pc = "debounce" => turn.gotTool
  /\ turn.over => agent.state = "idle" /\ C = <<>>
  /\ \A i \in DOMAIN C :
       /\ C[i].op \in {"write", "record", "signal"}
       /\ C[i].op = "signal" =>
            /\ i = Len(C)
            /\ turn.gotTool => C[i].ch = "toolCh"
            /\ ~turn.gotTool => C[i].ch = "over" /\ agent.state = "idle"
       /\ C[i].op = "record" => kind \in Plain /\ agent.state = "idle"
       /\ C[i].op = "write" =>
            /\ kind \notin JsonKinds /\ ~turn.gotTool
            /\ \/ C[i].chunk.type = "text"
               \/ /\ C[i].chunk.type \in {"stop", "done"}
                  /\ kind \in Plain /\ agent.state = "idle"

Whereabouts == TypeOK /\ HandlerFlow /\ CallbackFlow

-----------------------------------------------------------------------------
(* The handler's moves *)

\* The handler goes on to its next place.
Enter(p) ==
  /\ Load(p, pc')
  /\ pc \in {"new", "opened", "sending", "waiting", "debounce"}
  /\ pc' \in {"opened", "sending", "waiting", "debounce"}
  /\ pc' = "opened" => pc = "new"
  /\ pc' = "debounce" => turn.toolCh \/ pc = "debounce"
  /\ pc' \in {"waiting", "debounce"} => agent.state # "waiting"
  /\ \/ p = <<>>
     \/ pc' = "opened" /\ kind \in SSEKinds /\ p = <<Write(Chunk("role"))>>
  /\ turn' \in {turn, [turn EXCEPT !.toolCh = FALSE]}
  /\ UNCHANGED timedOut

LEMMA Entered ==
  ASSUME Whereabouts, Open \/ Subscribe \/ SendReturns \/ ToolSignal \/ ExtendDebounce
  PROVE  \E p \in Seq(Instructions) : Enter(p)
<1> USE DEF Whereabouts, HandlerFlow
<1>1. /\ <<>> \in Seq(Instructions)
      /\ <<Write(Chunk("role"))>> \in Seq(Instructions)
  BY Typed DEF ChunkTypes, Finish
<1>2. CASE Open
  <2> DEFINE p == IF kind \in SSEKinds THEN <<Write(Chunk("role"))>> ELSE <<>>
  <2>1. Enter(p)
    BY <1>2 DEF Open, Idle, Run, Enter, Load, H, outcome
  <2> QED
    BY <1>1, <2>1
<1>3. CASE Subscribe \/ SendReturns
  <2>1. Enter(<<>>)
    BY <1>3 DEF Subscribe, SendReturns, Idle, Run, Enter, Load, H, outcome
  <2> QED
    BY <1>1, <2>1
<1>4. CASE ToolSignal
  <2>1. Enter(<<>>)
    BY <1>4 DEF ToolSignal, Idle, Run, Enter, Load, H, outcome
  <2> QED
    BY <1>1, <2>1
<1>5. CASE ExtendDebounce
  <2>1. prog' = [prog EXCEPT !["handler"] = <<>>]
    BY <1>5 DEF ExtendDebounce, Idle, TypeOK, Threads
  <2>2. Enter(<<>>)
    BY <1>5, <2>1 DEF ExtendDebounce, Idle, Enter, Load, H, outcome
  <2> QED
    BY <1>1, <2>2
<1> QED
  BY <1>2, <1>3, <1>4, <1>5

\* What the program the handler leaves with owes to the way it came to leave; bad:
\* it counts an error although the agent has begun.
Fits(p) ==
  LET late == timedOut'
      bad  == agent.state # "waiting" /\ Records(p, {"error"}) IN
  /\ Leaving(p)
  /\ kind \in JsonKinds =>
       AtMostOnce(p, "write") /\ (~gone => Writes(p, ChunkTypes))
  /\ kind \notin Plain => Records(p, Statuses)
  /\ agent.state = "waiting" => Records(p, {"error"})
  /\ ~gone /\ ~late /\ ~bad =>
       /\ kind \in Plain =>
            IF agent.state = "waiting" THEN Records(p, Statuses)
            ELSE agent.state = "idle" /\ ~Records(p, Statuses)
       /\ \/ turn.gotTool \/ turn.over
          \/ agent.state = "waiting" \/ kind \in JsonKinds
  /\ ~gone /\ ~late => (Records(p, {"success"}) <=> Writes(p, Finish))
  /\ kind \in SSEKinds /\ ~gone /\ (~late \/ kind # "chat") =>
       \/ Writes(p, {"done"}) \/ Writes(p, {"refusal"})
       \/ kind = "chat" /\ turn.over
  /\ kind \notin SSEKinds => ~Writes(p, {"done"})
  /\ kind \in Plain =>
       /\ RecordsFirst(p)
       /\ Writes(p, ChunkTypes) => Records(p, {"error"})
       /\ Writes(p, ChunkTypes \ {"done"}) => agent.state = "waiting" /\ pc' = "refusing"
  /\ Writes(p, {"refusal"}) => pc' = "refusing" /\ AtMostOnce(p, "write")
  /\ Writes(p, Reveals) => turn.gotTool
  /\ Writes(p, {"stop"}) => agent.state = "idle" /\ kind \notin JsonKinds \cup Plain
  /\ Writes(p, {"reply"}) =>
       kind \in JsonKinds /\ turn.over /\ p = JsonTextAnswer
  /\ ~Writes(p, {"text"})
  /\ ~gone /\ (Writes(p, ChunkTypes \ {"done"})
                \/ (~late /\ ~bad /\ Writes(p, {"done"}))) =>
       \A i \in DOMAIN C : C[i].op # "write"

Leave(p) ==
  /\ Load(p, pc') /\ Fits(p)
  /\ \/ pc = "new" /\ pc' = "refusing"
     \/ pc \in {"sending", "waiting", "debounce"} /\ pc' = "leaving"
  /\ timedOut' \in {timedOut, TRUE}
  /\ UNCHANGED turn

\* When the callback has nothing left to write.
LEMMA CallbackQuiet ==
  ASSUME Whereabouts,
         turn.gotTool \/ turn.over \/ agent.state = "waiting" \/ kind \in JsonKinds
  PROVE  \A i \in DOMAIN C : C[i].op # "write"
BY DEF Whereabouts, CallbackFlow

LEMMA Departed ==
  ASSUME Whereabouts,
         Refuse \/ OpenFails \/ SendFails \/ EndDebounce \/ TurnOver \/ ContextDone \/ Timeout
  PROVE  \E p \in Seq(Instructions) : Leave(p)
<1> USE DEF Whereabouts
<1>1. kind \in Kinds /\ turn.events \in Nat
      /\ turn.finalText \in (0..MaxPieces) \X (0..MaxPieces)
      /\ (agent.state = "waiting" => agent.state # "idle")
      /\ (pc \in {"waiting", "debounce"} => agent.state # "waiting")
      /\ (turn.gotTool => kind \in ToolKinds)
  BY StreamAssumption DEF TypeOK, CallbackFlow, HandlerFlow
<1>2. CASE OpenFails
  <2>1. Load(OpenFailed, pc') /\ pc = "new" /\ pc' = "refusing" /\ UNCHANGED <<turn, timedOut>>
        /\ agent.state = "waiting"
    BY <1>2 DEF OpenFails, Idle, Run, Load, H, outcome, HandlerFlow
  <2>2. Fits(OpenFailed)
    <3>1. CASE kind \in SSEKinds
      BY <1>1, <2>1, <3>1, OpenFailedIs, ErrorMarkedFacts, CallbackQuiet
      DEF Fits, Kinds, JsonKinds, SSEKinds, ToolKinds, Plain, Statuses, Reveals, Finish, ChunkTypes
    <3>2. CASE kind \notin SSEKinds
      BY <1>1, <2>1, <3>2, OpenFailedIs, ErrorAnswerFacts, CallbackQuiet
      DEF Fits, Kinds, JsonKinds, SSEKinds, ToolKinds, Plain, Statuses, Reveals, Finish, ChunkTypes
    <3> QED
      BY <3>1, <3>2
  <2>8. Leave(OpenFailed) /\ OpenFailed \in Seq(Instructions)
    <3>1. OpenFailed \in Seq(Instructions)
      BY <2>2 DEF Fits, Leaving
    <3> QED
      BY <2>1, <2>2, <3>1 DEF Leave
  <2> QED
    BY <2>8
<1>11. CASE Refuse
  <2>1. Load(Refused, pc') /\ pc = "new" /\ pc' = "refusing" /\ UNCHANGED <<turn, timedOut>>
        /\ agent.state = "waiting"
    BY <1>11 DEF Refuse, Idle, Run, Load, H, outcome, HandlerFlow
  <2>2. kind # "ndjson"
    BY <1>11 DEF Refuse
  <2>3. Fits(Refused)
    BY <1>1, <2>1, <2>2, RefusedFacts, CallbackQuiet
    DEF Fits, Kinds, JsonKinds, SSEKinds, ToolKinds, Plain, Statuses, Reveals, Finish, ChunkTypes
  <2>4. Refused \in Seq(Instructions)
    BY <2>3 DEF Fits, Leaving
  <2> QED
    BY <2>1, <2>3, <2>4 DEF Leave
<1>3. ASSUME pc' = "leaving"
      PROVE  Fits(SendFailed)
  <2>1. kind \in JsonKinds \/ agent.state = "waiting" => \A i \in DOMAIN C : C[i].op # "write"
    BY CallbackQuiet
  <2>2. CASE kind \in JsonKinds
    BY <1>1, <1>3, <2>1, <2>2, SendFailedIs, ErrorAnswerFacts
    DEF Fits, Kinds, JsonKinds, SSEKinds, ToolKinds, Plain, Statuses, Reveals, Finish, ChunkTypes
  <2>3. CASE kind \in SSEKinds
    BY <1>1, <1>3, <2>1, <2>3, SendFailedIs, MarkedOnlyFacts
    DEF Fits, Kinds, JsonKinds, SSEKinds, ToolKinds, Plain, Statuses, Reveals, Finish, ChunkTypes
  <2>4. CASE kind \notin JsonKinds /\ kind \notin SSEKinds
    BY <1>1, <1>3, <2>1, <2>4, SendFailedIs, RecordOnlyFacts
    DEF Fits, Kinds, JsonKinds, SSEKinds, ToolKinds, Plain, Statuses, Reveals, Finish, ChunkTypes
  <2> QED
    BY <2>2, <2>3, <2>4
<1>4. CASE SendFails
  <2>1. Load(SendFailed, pc') /\ pc' = "leaving" /\ pc \in {"sending", "waiting"}
        /\ UNCHANGED <<turn, timedOut>>
    BY <1>4 DEF SendFails, Idle, Run, Load, H, outcome
  <2>2. Fits(SendFailed)
    BY <1>3, <2>1
  <2>8. Leave(SendFailed) /\ SendFailed \in Seq(Instructions)
    <3>1. SendFailed \in Seq(Instructions)
      BY <2>2 DEF Fits, Leaving
    <3> QED
      BY <2>1, <2>2, <3>1 DEF Leave
  <2> QED
    BY <2>8
<1>5. CASE EndDebounce /\ kind \in JsonKinds
  <2>1. Load(JsonToolAnswer, pc') /\ pc' = "leaving" /\ pc = "debounce" /\ UNCHANGED <<turn, timedOut>>
        /\ turn.gotTool
    BY <1>5 DEF EndDebounce, Idle, Run, Load, H, outcome, CallbackFlow
  <2>2. Fits(JsonToolAnswer)
    BY <1>1, <1>5, <2>1, JsonToolFacts, CallbackQuiet
    DEF Fits, Kinds, JsonKinds, SSEKinds, ToolKinds, Plain, Statuses, Reveals, Finish, ChunkTypes
  <2>8. Leave(JsonToolAnswer) /\ JsonToolAnswer \in Seq(Instructions)
    <3>1. JsonToolAnswer \in Seq(Instructions)
      BY <2>2 DEF Fits, Leaving
    <3> QED
      BY <2>1, <2>2, <3>1 DEF Leave
  <2> QED
    BY <2>8
<1>6. CASE EndDebounce /\ kind \notin JsonKinds
  <2>1. Load(ToolAnswer(turn.events), pc') /\ pc' = "leaving" /\ pc = "debounce"
        /\ UNCHANGED <<turn, timedOut>> /\ turn.gotTool
    BY <1>6 DEF EndDebounce, Idle, Run, Load, H, outcome, CallbackFlow
  <2> DEFINE p == ToolAnswer(turn.events)
  <2>3. /\ Leaving(p) /\ Writes(p, {"done"}) /\ Writes(p, Finish)
        /\ ~Writes(p, {"stop"}) /\ ~Writes(p, {"reply"}) /\ ~Writes(p, {"text"})
        /\ ~Writes(p, {"refusal"}) /\ Records(p, Statuses) /\ Records(p, {"success"})
    BY <1>1, ToolAnswerFacts DEF Finish, Statuses
  <2>4. \A i \in DOMAIN C : C[i].op # "write"
    BY <2>1, CallbackQuiet
  <2>5. kind \notin Plain /\ kind \in SSEKinds /\ agent.state # "waiting"
    BY <1>1, <1>6, <2>1 DEF ToolKinds, Plain, JsonKinds, SSEKinds
  <2> HIDE DEF p
  <2>2. Fits(p)
    BY <1>1, <1>6, <2>1, <2>3, <2>4, <2>5 DEF Fits
  <2>8. Leave(p) /\ p \in Seq(Instructions)
    <3>1. p \in Seq(Instructions)
      BY <2>2 DEF Fits, Leaving
    <3> QED
      BY <2>1, <2>2, <3>1 DEF Leave, p
  <2> QED
    BY <2>8
<1>7. CASE TurnOver
  <2>1. Load(TextAnswer, pc') /\ pc' = "leaving" /\ pc = "waiting" /\ UNCHANGED <<turn, timedOut>>
        /\ turn.over /\ agent.state = "idle"
    BY <1>7 DEF TurnOver, Idle, Run, Load, H, outcome, CallbackFlow
  <2>3. \A i \in DOMAIN C : C[i].op # "write"
    BY <2>1, CallbackQuiet
  <2>2. Fits(TextAnswer)
    <3>1. CASE kind \in JsonKinds
      BY <1>1, <2>1, <2>3, <3>1, JsonTextFacts
      DEF Fits, Kinds, JsonKinds, SSEKinds, ToolKinds, Plain, Statuses, Reveals, Finish, ChunkTypes, TextAnswer
    <3>2. CASE kind \in {"emit", "resume"}
      BY <1>1, <2>1, <2>3, <3>2, StreamTextFacts
      DEF Fits, Kinds, JsonKinds, SSEKinds, ToolKinds, Plain, Statuses, Reveals, Finish, ChunkTypes, TextAnswer
    <3>3. CASE kind \in Plain
      BY <1>1, <2>1, <2>3, <3>3, ReturnFacts
      DEF Fits, Kinds, JsonKinds, SSEKinds, ToolKinds, Plain, Statuses, Reveals, Finish, ChunkTypes, TextAnswer
    <3> QED
      BY <1>1, <3>1, <3>2, <3>3 DEF Kinds, SSEKinds, Plain
  <2>8. Leave(TextAnswer) /\ TextAnswer \in Seq(Instructions)
    <3>1. TextAnswer \in Seq(Instructions)
      BY <2>2 DEF Fits, Leaving
    <3> QED
      BY <2>1, <2>2, <3>1 DEF Leave
  <2> QED
    BY <2>8
<1>8. ASSUME gone \/ timedOut', pc = "waiting", pc' = "leaving"
      PROVE  kind \in Plain \cup {"chatJson"} \/ gone => Fits(Cancelled)
  <2>1. CASE kind \in ToolKinds /\ gone
    <3>1. Cancelled = Silenced
      BY <2>1 DEF Cancelled, Silenced, ToolKinds
    <3> QED
      BY <1>1, <1>8, <2>1, <3>1, RecordOnlyFacts
      DEF Fits, Kinds, JsonKinds, SSEKinds, ToolKinds, Plain, Statuses, Reveals, Finish, ChunkTypes
  <2>2. CASE kind = "chatJson"
    BY <1>3, <1>8, <2>2 DEF Cancelled, ToolKinds
  <2>3. CASE kind \in Plain
    BY <1>1, <1>8, <2>3, ReturnFacts
    DEF Fits, Kinds, JsonKinds, SSEKinds, ToolKinds, Plain, Statuses, Reveals, Finish, ChunkTypes, Cancelled
  <2> QED
    BY <1>1, <2>1, <2>2, <2>3 DEF Kinds, JsonKinds, SSEKinds, ToolKinds, Plain
<1>9. CASE ContextDone
  <2>1. Load(Cancelled, pc') /\ pc' = "leaving" /\ pc = "waiting" /\ UNCHANGED <<turn, timedOut>>
        /\ gone
    BY <1>9 DEF ContextDone, Idle, Run, Load, H, outcome
  <2>2. Fits(Cancelled)
    BY <1>8, <2>1
  <2>8. Leave(Cancelled) /\ Cancelled \in Seq(Instructions)
    <3>1. Cancelled \in Seq(Instructions)
      BY <2>2 DEF Fits, Leaving
    <3> QED
      BY <2>1, <2>2, <3>1 DEF Leave
  <2> QED
    BY <2>8
<1>10. CASE Timeout
  <2>1. Load(TimeoutReached, pc') /\ pc' = "leaving" /\ pc = "waiting" /\ UNCHANGED turn
        /\ timedOut' = TRUE
    BY <1>10 DEF Timeout, Idle, Load, H
  <2>2. Fits(TimeoutReached)
    <3>1. CASE kind \in {"emit", "resume"}
      BY <1>1, <2>1, <3>1, LateStreamFacts
      DEF Fits, Kinds, JsonKinds, SSEKinds, ToolKinds, Plain, Statuses, Reveals, Finish, ChunkTypes, TimeoutReached
    <3>2. CASE kind \in {"emitJson", "resumeJson"}
      <4>1. \A i \in DOMAIN C : C[i].op # "write"
        BY <3>2, CallbackQuiet DEF JsonKinds
      <4>2. TimeoutReached = ErrorAnswer
        BY <3>2 DEF TimeoutReached, ErrorAnswer
      <4> QED
        BY <1>1, <2>1, <3>2, <4>1, <4>2, ErrorAnswerFacts
        DEF Fits, Kinds, JsonKinds, SSEKinds, ToolKinds, Plain, Statuses, Reveals, Finish, ChunkTypes
    <3>3. CASE kind \in Plain \cup {"chatJson"}
      BY <1>8, <2>1, <3>3 DEF TimeoutReached, Plain
    <3> QED
      BY <1>1, <3>1, <3>2, <3>3 DEF Kinds, JsonKinds, SSEKinds, Plain
  <2>8. Leave(TimeoutReached) /\ TimeoutReached \in Seq(Instructions)
    <3>1. TimeoutReached \in Seq(Instructions)
      BY <2>2 DEF Fits, Leaving
    <3> QED
      BY <2>1, <2>2, <3>1 DEF Leave
  <2> QED
    BY <2>8
<1> QED
  BY <1>2, <1>4, <1>5, <1>6, <1>7, <1>9, <1>10, <1>11

-----------------------------------------------------------------------------
(* Every step is one of the moves *)

\* The agent asks for a tool, or falls idle.
Raise(p) ==
  /\ RaiseCall \/ GoIdle
  /\ C = <<>> /\ agent.state \in {"talking", "calling"}
  /\ prog' = [prog EXCEPT !["callback"] = p]
  /\ \/ /\ p = <<Signal("toolCh")>> /\ kind \in ToolKinds
        /\ agent'.state = "calling" /\ turn'.gotTool = TRUE
     \/ /\ p = OnIdle /\ agent.state = "talking" /\ agent'.state = "idle"
        /\ turn'.gotTool = turn.gotTool
  /\ turn'.toolCh = turn.toolCh /\ turn'.over = turn.over
  /\ UNCHANGED <<kind, streams, pc, writing, outcome>>

LEMMA Raised ==
  ASSUME TypeOK, RaiseCall \/ GoIdle
  PROVE  \E p \in Seq(Instructions) : Raise(p)
<1>1. CASE RaiseCall
  <2>1. Raise(<<Signal("toolCh")>>)
    BY <1>1 DEF RaiseCall, Deliver, Raise, C, TypeOK
  <2>2. <<Signal("toolCh")>> \in Seq(Instructions)
    BY Typed, TupleFacts
  <2> QED
    BY <2>1, <2>2
<1>2. CASE GoIdle
  <2>1. Raise(OnIdle)
    BY <1>2 DEF GoIdle, Deliver, Raise, C, TypeOK
  <2> QED
    BY <2>1, OnIdleIs
<1> QED
  BY <1>1, <1>2

\* The moves that leave both programs as they are.
Rest ==
  \/ \E t \in Threads : BeginWrite(t)
  \/ AgentStarts
  \/ HangUp
  \/ UNCHANGED vars

LEMMA Moves ==
  ASSUME Whereabouts, [Next]_vars
  PROVE  \/ \E t \in Threads : Pop(t)
         \/ \E p \in Seq(Instructions) : Enter(p) \/ Leave(p) \/ Speak(p) \/ Raise(p)
         \/ Rest
<1>1. CASE \E t \in Threads : ThreadStep(t)
  BY <1>1, Popped DEF ThreadStep, Rest, Whereabouts
<1>2. CASE HandlerStep
  BY <1>2, Entered, Departed DEF HandlerStep, Whereabouts
<1>3. CASE AgentStep
  BY <1>3, Spoken, Raised DEF AgentStep, Rest, Whereabouts, CallbackFlow
<1>4. CASE HangUp \/ UNCHANGED vars
  BY <1>4 DEF Rest
<1> QED
  BY <1>1, <1>2, <1>3, <1>4 DEF Next

-----------------------------------------------------------------------------
(* Types *)

LEMMA TypesKept ==
  ASSUME Whereabouts, [Next]_vars
  PROVE  TypeOK'
<1> USE DEF Whereabouts
<1>1. ASSUME NEW t \in Threads, Pop(t) PROVE TypeOK'
  <2> DEFINE x == Head(prog[t])
  <2>1. /\ prog[t] \in Seq(Instructions) /\ prog[t] # <<>>
        /\ Tail(prog[t]) \in Seq(Instructions) /\ x \in Instructions
    BY <1>1, TailFacts DEF TypeOK, Pop
  <2> HIDE DEF x
  <2>2. prog' = [prog EXCEPT ![t] = Tail(prog[t])] /\ prog' \in [Threads -> Seq(Instructions)]
    BY <1>1, <2>1 DEF TypeOK, Pop
  <2>3. wire' \in Seq(Chunks)
    BY <1>1, <2>1, InstructionTypes DEF TypeOK, Pop, x
  <2>4. records' \in Seq({"success", "error"})
    BY <1>1, <2>1, InstructionTypes DEF TypeOK, Pop, Statuses, x
  <2>5. turn' = turn \/ \E ch \in {"toolCh", "over"} : turn' = [turn EXCEPT ![ch] = TRUE]
    BY <1>1, <2>1, InstructionTypes DEF Pop, x
  <2>6. turn' \in [gotDelta : BOOLEAN, gotTool : BOOLEAN, events : 0..MaxCalls,
                   toolCh : BOOLEAN, over : BOOLEAN,
                   finalText : (0..MaxPieces) \X (0..MaxPieces)]
    BY <2>5 DEF TypeOK
  <2>7. \A u \in writing' : prog'[u] # <<>> /\ Head(prog'[u]).op = "write"
    BY <1>1, <2>2 DEF TypeOK, Pop
  <2>8. /\ kind' \in Kinds /\ streams' \in BOOLEAN
        /\ agent' \in [state : {"waiting", "talking", "calling", "idle"},
                       said : 0..MaxPieces, reported : 0..MaxPieces]
        /\ pc' \in {"new", "opened", "sending", "waiting", "debounce", "leaving",
                   "refusing", "returned"}
        /\ parked' \in BOOLEAN /\ gone' \in BOOLEAN /\ timedOut' \in BOOLEAN
        /\ writing' \subseteq Threads
    BY <1>1 DEF TypeOK, Pop
  <2> QED
    BY <2>2, <2>3, <2>4, <2>6, <2>7, <2>8 DEF TypeOK
<1>2. ASSUME NEW p \in Seq(Instructions), NEW t \in Threads, prog[t] = <<>>,
             prog' = [prog EXCEPT ![t] = p], writing' = writing
      PROVE  /\ prog' \in [Threads -> Seq(Instructions)]
             /\ \A u \in writing' : prog'[u] # <<>> /\ Head(prog'[u]).op = "write"
  BY <1>2 DEF TypeOK
<1>3. ASSUME NEW p \in Seq(Instructions), Enter(p) \/ Leave(p)
      PROVE  TypeOK'
  <2>1. /\ prog["handler"] = <<>> /\ prog' = [prog EXCEPT !["handler"] = p]
        /\ UNCHANGED <<kind, streams, agent, writing, wire, records, parked, gone>>
    BY <1>3 DEF Enter, Leave, Load, H
  <2>2. /\ prog' \in [Threads -> Seq(Instructions)]
        /\ \A u \in writing' : prog'[u] # <<>> /\ Head(prog'[u]).op = "write"
    BY <1>2, <2>1 DEF Threads
  <2>3. /\ turn' \in {turn, [turn EXCEPT !.toolCh = FALSE]}
        /\ timedOut' \in {timedOut, TRUE}
        /\ pc' \in {"opened", "sending", "waiting", "debounce", "leaving", "refusing"}
    BY <1>3 DEF Enter, Leave, Load
  <2> QED
    BY <2>1, <2>2, <2>3 DEF TypeOK
<1>4. ASSUME (\E n \in {0, 1} : SayDelta(n)) \/ Report \/ RaiseCall \/ GoIdle
      PROVE  TypeOK'
  <2>1. PICK p \in Seq(Instructions) : Speak(p) \/ Raise(p)
    BY <1>4, Spoken, Raised DEF CallbackFlow
  <2>2. /\ prog["callback"] = <<>> /\ prog' = [prog EXCEPT !["callback"] = p]
        /\ UNCHANGED <<kind, streams, pc, writing, wire, records, parked, gone, timedOut>>
    BY <2>1 DEF Speak, Raise, C, outcome
  <2>3. /\ prog' \in [Threads -> Seq(Instructions)]
        /\ \A u \in writing' : prog'[u] # <<>> /\ Head(prog'[u]).op = "write"
    BY <1>2, <2>2 DEF Threads
  <2>4. /\ agent' \in [state : {"waiting", "talking", "calling", "idle"},
                       said : 0..MaxPieces, reported : 0..MaxPieces]
        /\ turn' \in [gotDelta : BOOLEAN, gotTool : BOOLEAN, events : 0..MaxCalls,
                      toolCh : BOOLEAN, over : BOOLEAN,
                      finalText : (0..MaxPieces) \X (0..MaxPieces)]
    <3>1. ASSUME NEW n \in {0, 1}, SayDelta(n)
          PROVE  /\ agent.said + n \in 0..MaxPieces
                 /\ agent' = [agent EXCEPT !.said = agent.said + n]
                 /\ \E g \in BOOLEAN : turn' = [turn EXCEPT !.gotDelta = g]
      <4>1. agent.said + n \in 0..MaxPieces /\ agent' = [agent EXCEPT !.said = agent.said + n]
        BY <3>1, StreamAssumption DEF TypeOK, SayDelta
      <4> DEFINE g == IF kind \in ToolKinds
                      THEN turn.gotDelta \/ (n > 0 /\ ~turn.gotTool) ELSE TRUE
      <4>2. turn' = [turn EXCEPT !.gotDelta = g]
        BY <3>1 DEF SayDelta, OnDelta
      <4>3. g \in BOOLEAN
        OBVIOUS
      <4> HIDE DEF g
      <4> QED
        BY <4>1, <4>2, <4>3
    <3>2. ASSUME Report
          PROVE  \E m \in 0..MaxPieces, f \in (0..MaxPieces) \X (0..MaxPieces) :
                   /\ agent' = [agent EXCEPT !.said = m, !.reported = m]
                   /\ turn' \in {turn, [turn EXCEPT !.finalText = f]}
      <4> DEFINE m == IF streams THEN agent.said ELSE agent.said + 1
      <4>1. /\ agent.reported < m /\ m <= MaxPieces
            /\ agent' = [agent EXCEPT !.said = m, !.reported = m]
            /\ turn' \in {turn, [turn EXCEPT !.finalText = <<agent.reported + 1, m>>]}
        BY <3>2 DEF Report, OnMessage
      <4>2. m \in Nat
        BY StreamAssumption DEF TypeOK
      <4> HIDE DEF m
      <4>3. m \in 0..MaxPieces /\ agent.reported + 1 \in 0..MaxPieces
        BY <4>1, <4>2, StreamAssumption DEF TypeOK
      <4>4. <<agent.reported + 1, m>> \in (0..MaxPieces) \X (0..MaxPieces)
        BY <4>3
      <4> QED
        BY <4>1, <4>3, <4>4
    <3>3. ASSUME RaiseCall
          PROVE  /\ turn.events + 1 \in 0..MaxCalls
                 /\ agent' = [agent EXCEPT !.state = "calling"]
                 /\ turn' = [turn EXCEPT !.gotTool = TRUE, !.events = turn.events + 1]
      BY <3>3, StreamAssumption DEF TypeOK, RaiseCall
    <3>4. CASE \E n \in {0, 1} : SayDelta(n)
      BY <3>1, <3>4 DEF TypeOK
    <3>5. CASE Report
      BY <3>2, <3>5 DEF TypeOK
    <3>6. CASE RaiseCall
      <4> DEFINE m == turn.events + 1
      <4>1. /\ m \in 0..MaxCalls /\ agent' = [agent EXCEPT !.state = "calling"]
            /\ turn' = [turn EXCEPT !.gotTool = TRUE, !.events = m]
        BY <3>3, <3>6
      <4> HIDE DEF m
      <4> QED
        BY <4>1 DEF TypeOK
    <3>7. CASE GoIdle
      BY <3>7 DEF GoIdle, TypeOK
    <3> QED
      BY <1>4, <3>4, <3>5, <3>6, <3>7
  <2> QED
    BY <2>2, <2>3, <2>4 DEF TypeOK
<1>5. CASE Rest
  BY <1>5 DEF Rest, BeginWrite, AgentStarts, HangUp, vars, outcome, TypeOK
<1>6. CASE AgentStep
  BY <1>4, <1>5, <1>6 DEF AgentStep, Rest
<1>7. CASE \E t \in Threads : ThreadStep(t)
  BY <1>1, <1>5, <1>7, Popped DEF ThreadStep, Rest
<1>8. CASE HandlerStep
  BY <1>3, <1>8, Entered, Departed DEF HandlerStep
<1> QED
  BY <1>5, <1>6, <1>7, <1>8 DEF Next, Rest

-----------------------------------------------------------------------------
(* Where the threads are *)

\* An error that is recorded stays, and one to be recorded is.
LEMMA BlamePops ==
  ASSUME Whereabouts, Blamed, NEW t \in Threads, Pop(t)
  PROVE  Blamed'
<1> DEFINE x == Head(prog[t])
<1>1. /\ H \in Seq(Instructions) /\ C \in Seq(Instructions)
      /\ records \in Seq(Statuses) /\ prog[t] \in Seq(Instructions) /\ prog[t] # <<>>
      /\ t = "handler" => H' = Tail(H) /\ prog[t] = H
      /\ t # "handler" => H' = H
      /\ records' = IF x.op = "record" THEN Append(records, x.status) ELSE records
  BY DEF Whereabouts, TypeOK, Pop, H, C, Threads, Statuses
<1>2. x.op = "record" => x.status \in Statuses
  BY <1>1, TailFacts, InstructionTypes
<1>3. Records(H, {"error"}) =>
        Records(H', {"error"}) \/ (x.op = "record" /\ x.status = "error")
  <2>1. CASE t = "handler"
    <3>1. Records(H, {"error"}) <=>
            Records(Tail(H), {"error"}) \/ (Head(H).op = "record" /\ Head(H).status \in {"error"})
      BY <1>1, <2>1, PopFacts
    <3> QED
      BY <1>1, <2>1, <3>1
  <2> QED
    BY <1>1, <2>1
<1> HIDE DEF x
<1>4. CASE x.op = "record"
  <2> DEFINE r == Append(records, x.status)
             n == Len(records) + 1
  <2>1. /\ \A i \in DOMAIN records : i \in DOMAIN r /\ r[i] = records[i]
        /\ n \in DOMAIN r /\ r[n] = x.status
    BY <1>1, <1>2, <1>4, AppendFacts
  <2>2. records' = r
    BY <1>1, <1>4
  <2> HIDE DEF r, n
  <2> QED
    BY <1>3, <2>1, <2>2 DEF Blamed
<1>5. CASE x.op # "record"
  BY <1>1, <1>3, <1>5 DEF Blamed
<1> QED
  BY <1>4, <1>5

LEMMA HandlerFlowKept ==
  ASSUME Whereabouts, [Next]_vars
  PROVE  HandlerFlow'
<1> USE DEF Whereabouts
<1>1. CASE Pop("handler")
  <2> DEFINE x == Head(H)
             q == Tail(H)
  <2>1. /\ H \in Seq(Instructions) /\ H # <<>> /\ H' = q
        /\ agent' = agent /\ kind' = kind
        /\ pc' = IF x.op = "return" THEN "returned" ELSE pc
    BY <1>1 DEF TypeOK, Pop, H, Threads
  <2>2. /\ x = H[1] /\ 1 \in DOMAIN H
        /\ \A i \in DOMAIN q : i + 1 \in DOMAIN H /\ q[i] = H[i + 1]
    BY <2>1, TailFacts
  <2>3. pc \in {"opened", "leaving", "refusing"}
    BY <2>1 DEF HandlerFlow, TypeOK
  <2>4. EndsInReturn(H) => /\ x.op = "return" <=> q = <<>>
                           /\ q # <<>> => EndsInReturn(q)
    BY <2>1, PopFacts
  <2> HIDE DEF x, q
  <2>5. CASE pc = "opened"
    <3>1. x.op = "write"
      BY <2>2, <2>5, InstructionFacts DEF HandlerFlow
    <3> QED
      BY <2>1, <2>2, <2>5, <3>1 DEF HandlerFlow
  <2>7. Blamed => Blamed'
    BY <1>1, BlamePops DEF Threads
  <2>6. CASE pc \in {"leaving", "refusing"}
    BY <2>1, <2>2, <2>4, <2>6, <2>7 DEF HandlerFlow
  <2> QED
    BY <2>3, <2>5, <2>6
<1>2. CASE Pop("callback")
  <2>1. /\ C \in Seq(Instructions) /\ C # <<>> /\ H' = H
        /\ agent' = agent /\ kind' = kind
        /\ pc' = IF Head(C).op = "return" THEN "returned" ELSE pc
    BY <1>2 DEF TypeOK, Pop, H, C, Threads
  <2>2. pc' = pc
    BY <2>1, TailFacts DEF CallbackFlow
  <2>3. Blamed => Blamed'
    BY <1>2, BlamePops DEF Threads
  <2> QED
    BY <2>1, <2>2, <2>3 DEF HandlerFlow
<1>3. ASSUME NEW p \in Seq(Instructions), Enter(p)
      PROVE  HandlerFlow'
  <2>1. /\ H' = p /\ UNCHANGED <<agent, kind>>
        /\ pc' \in {"opened", "sending", "waiting", "debounce"}
        /\ pc' = "opened" => pc = "new"
        /\ pc' \in {"waiting", "debounce"} => agent.state # "waiting"
        /\ p = <<>> \/ (/\ pc' = "opened" /\ kind \in SSEKinds
                        /\ p = <<Write(Chunk("role"))>>)
    BY <1>3 DEF Enter, Load, H, TypeOK, Threads
  <2>2. /\ p # <<>> => pc' = "opened"
        /\ \A i \in DOMAIN p : kind \in SSEKinds /\ p[i] = Write(Chunk("role"))
    BY <2>1
  <2>3. \A i \in DOMAIN p : p[i].op # "signal"
    BY <2>2, InstructionFacts
  <2> QED
    BY <2>1, <2>2, <2>3 DEF HandlerFlow
<1>4. ASSUME NEW p \in Seq(Instructions), Leave(p)
      PROVE  HandlerFlow'
  <2>1. /\ H' = p /\ UNCHANGED agent
        /\ (pc = "new" /\ pc' = "refusing") \/ pc' = "leaving"
    BY <1>4 DEF Leave, Load, H, TypeOK, Threads
  <2>2. /\ EndsInReturn(p)
        /\ \A i \in DOMAIN p : p[i].op # "signal"
        /\ agent.state = "waiting" => Records(p, {"error"})
    BY <1>4 DEF Leave, Fits, Leaving
  <2>3. agent.state = "waiting" => Blamed'
    BY <2>1, <2>2 DEF Blamed
  <2>4. EndsInReturn(H') /\ \A i \in DOMAIN H' : H'[i].op # "signal"
    BY <2>1, <2>2
  <2>5. pc' = "refusing" => agent.state = "waiting"
    BY <2>1 DEF HandlerFlow
  <2> HIDE DEF H
  <2> QED
    BY <2>1, <2>3, <2>4, <2>5 DEF HandlerFlow
<1>5. ASSUME NEW p \in Seq(Instructions), Speak(p) \/ Raise(p)
      PROVE  HandlerFlow'
  <2>1. H' = H /\ pc' = pc /\ kind' = kind /\ agent.state # "waiting"
        /\ agent'.state # "waiting"
    BY <1>5 DEF Speak, Raise, H, TypeOK, Threads
  <2> QED
    BY <2>1 DEF HandlerFlow
<1>6. CASE Rest
  <2>1. H' = H /\ pc' = pc /\ kind' = kind /\ records' = records
        /\ \/ agent' = agent
           \/ pc \in {"sending", "leaving"} /\ agent'.state = "talking"
    BY <1>6 DEF Rest, BeginWrite, AgentStarts, HangUp, vars, outcome, H, TypeOK
  <2> QED
    BY <2>1 DEF HandlerFlow, Blamed
<1> QED
  BY <1>1, <1>2, <1>3, <1>4, <1>5, <1>6, Moves DEF Threads

LEMMA CallbackFlowKept ==
  ASSUME Whereabouts, [Next]_vars
  PROVE  CallbackFlow'
<1> USE DEF Whereabouts
<1>1. CASE Pop("handler")
  <2>1. /\ H \in Seq(Instructions) /\ H # <<>> /\ C' = C
        /\ UNCHANGED <<agent, kind, streams>>
        /\ pc' = IF Head(H).op = "return" THEN "returned" ELSE pc
        /\ Head(H).op # "signal" => turn' = turn
    BY <1>1 DEF TypeOK, Pop, H, C, Threads
  <2>2. turn' = turn
    BY <2>1, TailFacts DEF HandlerFlow
  <2> QED
    BY <2>1, <2>2 DEF CallbackFlow, WholeMessages
<1>2. CASE Pop("callback")
  <2> DEFINE x == Head(C)
             q == Tail(C)
  <2>1. /\ C \in Seq(Instructions) /\ C # <<>> /\ C' = q
        /\ UNCHANGED <<agent, kind, streams>>
        /\ pc' = IF x.op = "return" THEN "returned" ELSE pc
        /\ turn' = IF x.op = "signal" THEN [turn EXCEPT ![x.ch] = TRUE] ELSE turn
    BY <1>2 DEF TypeOK, Pop, C, Threads
  <2>2. /\ x = C[1] /\ 1 \in DOMAIN C /\ Len(q) = Len(C) - 1 /\ Len(C) \in Nat
        /\ q \in Seq(Instructions)
        /\ \A i \in DOMAIN q : i + 1 \in DOMAIN C /\ q[i] = C[i + 1]
    BY <2>1, TailFacts
  <2>3. x.op \in {"write", "record", "signal"}
    BY <2>2 DEF CallbackFlow
  <2> HIDE DEF x, q
  <2>4. pc' = pc
    BY <2>1, <2>3
  <2>5. CASE x.op = "signal"
    <3>1. Len(C) = 1 /\ q = <<>>
      BY <2>2, <2>5, EmptySeq DEF CallbackFlow
    <3>2. /\ turn' = [turn EXCEPT ![x.ch] = TRUE]
          /\ x.ch = IF turn.gotTool THEN "toolCh" ELSE "over"
          /\ ~turn.gotTool => agent.state = "idle"
      BY <2>1, <2>2, <2>5 DEF CallbackFlow
    <3>3. CASE turn.gotTool
      <4>1. turn' = [turn EXCEPT !.toolCh = TRUE]
        BY <3>2, <3>3
      <4>2. turn'.gotTool = turn.gotTool /\ turn'.over = turn.over
        BY <4>1 DEF TypeOK
      <4>3. turn'.gotTool <=> turn.gotTool
        BY <4>2
      <4>4. kind' \in ToolKinds /\ agent'.state = "calling"
        BY <2>1, <3>3 DEF CallbackFlow
      <4>5. ~turn'.over
        BY <2>1, <4>2 DEF CallbackFlow
      <4> QED
        BY <2>1, <2>4, <3>1, <3>3, <4>3, <4>4, <4>5 DEF CallbackFlow, WholeMessages
    <3>4. CASE ~turn.gotTool
      <4>1. turn' = [turn EXCEPT !.over = TRUE] /\ agent.state = "idle"
        BY <3>2, <3>4
      <4>2. turn'.gotTool = turn.gotTool /\ turn'.toolCh = turn.toolCh
        BY <4>1 DEF TypeOK
      <4> QED
        BY <2>1, <2>4, <3>1, <3>4, <4>1, <4>2 DEF CallbackFlow, WholeMessages
    <3> QED
      BY <3>3, <3>4
  <2>6. CASE x.op # "signal"
    <3>1. turn' = turn /\ ~turn.over
      BY <2>1, <2>6 DEF CallbackFlow
    <3>2. \A i \in DOMAIN q : i = Len(q) <=> i + 1 = Len(C)
      BY <2>2
    <3>3. \A i \in DOMAIN q :
            /\ q[i].op \in {"write", "record", "signal"}
            /\ q[i].op = "signal" =>
                 /\ i = Len(q)
                 /\ turn.gotTool => q[i].ch = "toolCh"
                 /\ ~turn.gotTool => q[i].ch = "over" /\ agent.state = "idle"
            /\ q[i].op = "record" => kind \in Plain /\ agent.state = "idle"
            /\ q[i].op = "write" =>
                 /\ kind \notin JsonKinds /\ ~turn.gotTool
                 /\ \/ q[i].chunk.type = "text"
                    \/ /\ q[i].chunk.type \in {"stop", "done"}
                       /\ kind \in Plain /\ agent.state = "idle"
      BY <2>2, <3>2 DEF CallbackFlow
    <3>4. agent.state # "waiting"
      BY <2>1 DEF CallbackFlow
    <3> QED
      BY <2>1, <2>4, <3>1, <3>3, <3>4 DEF CallbackFlow, WholeMessages
  <2> QED
    BY <2>5, <2>6
<1>3. ASSUME NEW p \in Seq(Instructions), Enter(p) \/ Leave(p)
      PROVE  CallbackFlow'
  <2>1. /\ C' = C /\ UNCHANGED <<agent, kind, streams>>
        /\ turn' \in {turn, [turn EXCEPT !.toolCh = FALSE]}
        /\ pc' = "debounce" => turn.toolCh \/ pc = "debounce"
    BY <1>3 DEF Enter, Leave, Load, C, TypeOK, Threads
  <2>2. /\ turn'.gotTool = turn.gotTool /\ turn'.over = turn.over
        /\ turn'.toolCh => turn.toolCh
    BY <2>1 DEF TypeOK
  <2> QED
    BY <2>1, <2>2 DEF CallbackFlow, WholeMessages
<1>4. ASSUME NEW p \in Seq(Instructions), Speak(p)
      PROVE  CallbackFlow'
  <2>1. /\ C' = p /\ pc' = pc /\ kind' = kind /\ streams' = streams
        /\ agent'.state = agent.state /\ agent.state \in {"talking", "calling"}
        /\ turn'.gotTool = turn.gotTool /\ turn'.toolCh = turn.toolCh
        /\ turn'.over = turn.over
    BY <1>4 DEF Speak, C, TypeOK, Threads
  <2>2. \A i \in DOMAIN p : /\ p[i].op = "write" /\ p[i].chunk.type = "text"
                            /\ kind \notin JsonKinds /\ ~turn.gotTool
    BY <1>4, InstructionFacts DEF Speak
  <2> QED
    BY <2>1, <2>2 DEF CallbackFlow, WholeMessages
<1>5. ASSUME NEW p \in Seq(Instructions), Raise(p)
      PROVE  CallbackFlow'
  <2>1. /\ C' = p /\ pc' = pc /\ kind' = kind /\ streams' = streams
        /\ turn'.toolCh = turn.toolCh /\ turn'.over = turn.over
    BY <1>5 DEF Raise, C, TypeOK, Threads
  <2>2. ~turn.over
    BY <1>5 DEF Raise, CallbackFlow
  <2>3. CASE /\ p = <<Signal("toolCh")>> /\ kind \in ToolKinds
             /\ agent'.state = "calling" /\ turn'.gotTool = TRUE
    <3>1. /\ Len(p) = 1 /\ \A i \in DOMAIN p : i = 1 /\ p[i] = Signal("toolCh")
      BY <2>3
    <3>2. \A i \in DOMAIN p : i = Len(p) /\ p[i].op = "signal" /\ p[i].ch = "toolCh"
      BY <3>1, InstructionFacts
    <3> QED
      BY <2>1, <2>2, <2>3, <3>2 DEF CallbackFlow, WholeMessages
  <2>4. CASE /\ p = OnIdle /\ agent.state = "talking" /\ agent'.state = "idle"
             /\ turn'.gotTool = turn.gotTool
    <3>1. ~turn.gotTool /\ ~turn.toolCh /\ pc # "debounce"
      BY <2>4 DEF CallbackFlow
    <3>2. \A i \in DOMAIN p :
            /\ p[i].op \in {"write", "record", "signal"}
            /\ p[i].op = "signal" => i = Len(p) /\ p[i].ch = "over"
            /\ p[i].op \in {"record", "write"} => kind \in Plain
            /\ p[i].op = "write" => p[i].chunk.type \in {"stop", "done"}
      BY <2>4, InstructionFacts DEF OnIdle, ChatIdle, NdjsonIdle, Plain
    <3>3. kind \in Plain => kind \notin JsonKinds
      BY DEF Plain, JsonKinds
    <3> QED
      BY <2>1, <2>2, <2>4, <3>1, <3>2, <3>3 DEF CallbackFlow, WholeMessages
  <2> QED
    BY <1>5, <2>3, <2>4 DEF Raise
<1>6. CASE Rest
  <2>1. /\ C' = C /\ pc' = pc /\ kind' = kind /\ streams' = streams /\ turn' = turn
        /\ agent'.state = agent.state \/ (agent.state = "waiting" /\ agent'.state = "talking")
    BY <1>6 DEF Rest, BeginWrite, AgentStarts, HangUp, vars, outcome, C, TypeOK
  <2> QED
    BY <2>1 DEF CallbackFlow, WholeMessages
<1> QED
  BY <1>1, <1>2, <1>3, <1>4, <1>5, <1>6, Moves DEF Threads

LEMMA InitiallyThere ==
  ASSUME Init
  PROVE  Whereabouts
<1>1. /\ kind \in Kinds /\ streams \in BOOLEAN
      /\ kind \in JsonKinds => ~streams
  <2>1. CASE kind \in JsonKinds
    BY <2>1 DEF Init
  <2>2. CASE kind \notin JsonKinds
    BY <2>2 DEF Init
  <2> QED
    BY <2>1, <2>2
<1>4. H = <<>> /\ C = <<>> /\ prog \in [Threads -> Seq(Instructions)]
  BY DEF Init, H, C, Threads
<1>2. TypeOK
  <2>1. <<>> \in Seq(Chunks) /\ <<>> \in Seq({"success", "error"})
    OBVIOUS
  <2>2. /\ agent \in [state : {"waiting", "talking", "calling", "idle"},
                      said : 0..MaxPieces, reported : 0..MaxPieces]
        /\ turn \in [gotDelta : BOOLEAN, gotTool : BOOLEAN, events : 0..MaxCalls,
                     toolCh : BOOLEAN, over : BOOLEAN,
                     finalText : (0..MaxPieces) \X (0..MaxPieces)]
    BY StreamAssumption DEF Init
  <2> QED
    BY <1>1, <1>4, <2>1, <2>2 DEF Init, TypeOK
<1>3. HandlerFlow /\ CallbackFlow
  BY <1>1, <1>4 DEF Init, HandlerFlow, CallbackFlow, WholeMessages
<1> QED
  BY <1>2, <1>3 DEF Whereabouts

LEMMA WhereaboutsAlways == Spec => []Whereabouts
<1>1. Init => Whereabouts
  BY InitiallyThere
<1>2. Whereabouts /\ [Next]_vars => Whereabouts'
  BY TypesKept, HandlerFlowKept, CallbackFlowKept DEF Whereabouts
<1> QED
  BY <1>1, <1>2, PTL DEF Spec

\* The variables keep their types, and a thread inside a write has that write
\* at the head of its program, whatever the two threads interleave.
THEOREM TypeCorrect == Spec => []TypeOK
BY WhereaboutsAlways, PTL DEF Whereabouts

-----------------------------------------------------------------------------
(* What each move does to the two programs and to the answer *)

LEMMA HandlerPops ==
  ASSUME Whereabouts, Pop("handler")
  PROVE  LET x == Head(H) IN
         /\ H \in Seq(Instructions) /\ H # <<>> /\ H' = Tail(H) /\ C' = C
         /\ x \in Instructions /\ x = H[1] /\ 1 \in DOMAIN H
         /\ \A i \in DOMAIN H' : \E j \in DOMAIN H : H'[i] = H[j]
         /\ pc \in {"opened", "leaving", "refusing"}
         /\ pc' \in {pc, "returned"}
         /\ (pc' = "returned" => pc \in {"leaving", "refusing"} /\ H' = <<>>)
         /\ UNCHANGED <<kind, streams, agent, turn, gone, timedOut>>
         /\ wire' = IF x.op = "write" /\ ~gone THEN Append(wire, x.chunk) ELSE wire
         /\ records' = IF x.op = "record" THEN Append(records, x.status) ELSE records
         /\ parked' = IF x.op = "park" THEN TRUE ELSE parked
         /\ writing' = writing \ {"handler"}
<1> DEFINE x == Head(H)
<1>1. /\ H \in Seq(Instructions) /\ H # <<>> /\ H' = Tail(H) /\ C' = C
      /\ UNCHANGED <<kind, streams, agent, gone, timedOut>>
      /\ pc' = IF x.op = "return" THEN "returned" ELSE pc
      /\ wire' = IF x.op = "write" /\ ~gone /\ pc # "returned"
                 THEN Append(wire, x.chunk) ELSE wire
      /\ records' = IF x.op = "record" THEN Append(records, x.status) ELSE records
      /\ parked' = IF x.op = "park" THEN TRUE ELSE parked
      /\ writing' = writing \ {"handler"}
      /\ x.op # "signal" => turn' = turn
  BY DEF Whereabouts, TypeOK, Pop, H, C, Threads
<1>2. /\ x \in Instructions /\ x = H[1] /\ 1 \in DOMAIN H
      /\ \A i \in DOMAIN Tail(H) : i + 1 \in DOMAIN H /\ Tail(H)[i] = H[i + 1]
  BY <1>1, TailFacts
<1> HIDE DEF x
<1>3. pc \in {"opened", "leaving", "refusing"} /\ x.op # "signal"
  BY <1>1, <1>2 DEF Whereabouts, HandlerFlow, TypeOK
<1>4. x.op = "return" => pc \in {"leaving", "refusing"} /\ H' = <<>>
  <2>1. CASE pc = "opened"
    BY <1>2, <2>1, InstructionFacts DEF Whereabouts, HandlerFlow
  <2>2. CASE pc \in {"leaving", "refusing"}
    <3>1. EndsInReturn(H)
      BY <2>2 DEF Whereabouts, HandlerFlow
    <3> QED
      BY <1>1, <2>2, <3>1, PopFacts DEF x
  <2> QED
    BY <1>3, <2>1, <2>2
<1> QED
  BY <1>1, <1>2, <1>3, <1>4 DEF x

LEMMA CallbackPops ==
  ASSUME Whereabouts, Pop("callback")
  PROVE  LET x == Head(C) IN
         /\ C \in Seq(Instructions) /\ C # <<>> /\ C' = Tail(C) /\ H' = H
         /\ x \in Instructions /\ x = C[1] /\ 1 \in DOMAIN C
         /\ \A i \in DOMAIN C' : \E j \in DOMAIN C : C'[i] = C[j]
         /\ x.op \in {"write", "record", "signal"}
         /\ agent.state # "waiting" /\ ~turn.over
         /\ UNCHANGED <<pc, kind, streams, agent, gone, timedOut, parked>>
         /\ turn'.gotTool = turn.gotTool
         /\ wire' = IF x.op = "write" /\ ~gone /\ pc # "returned"
                    THEN Append(wire, x.chunk) ELSE wire
         /\ records' = IF x.op = "record" THEN Append(records, x.status) ELSE records
         /\ writing' = writing \ {"callback"}
<1> DEFINE x == Head(C)
<1>1. /\ C \in Seq(Instructions) /\ C # <<>> /\ C' = Tail(C) /\ H' = H
      /\ UNCHANGED <<kind, streams, agent, gone, timedOut>>
      /\ pc' = IF x.op = "return" THEN "returned" ELSE pc
      /\ wire' = IF x.op = "write" /\ ~gone /\ pc # "returned"
                 THEN Append(wire, x.chunk) ELSE wire
      /\ records' = IF x.op = "record" THEN Append(records, x.status) ELSE records
      /\ parked' = IF x.op = "park" THEN TRUE ELSE parked
      /\ writing' = writing \ {"callback"}
      /\ turn' = IF x.op = "signal" THEN [turn EXCEPT ![x.ch] = TRUE] ELSE turn
  BY DEF Whereabouts, TypeOK, Pop, H, C, Threads
<1>2. /\ x \in Instructions /\ x = C[1] /\ 1 \in DOMAIN C
      /\ \A i \in DOMAIN Tail(C) : i + 1 \in DOMAIN C /\ Tail(C)[i] = C[i + 1]
  BY <1>1, TailFacts
<1> HIDE DEF x
<1>3. /\ x.op \in {"write", "record", "signal"}
      /\ x.op = "signal" => x.ch \in {"toolCh", "over"}
      /\ agent.state # "waiting" /\ ~turn.over
  BY <1>1, <1>2 DEF Whereabouts, CallbackFlow
<1>4. turn'.gotTool = turn.gotTool
  BY <1>1, <1>3 DEF Whereabouts, TypeOK
<1> QED
  BY <1>1, <1>2, <1>3, <1>4 DEF x

\* The moves that load a program, and those that load none.
LEMMA Loaded ==
  ASSUME Whereabouts
  PROVE  /\ \A p \in Seq(Instructions) : Enter(p) \/ Leave(p) =>
              /\ H = <<>> /\ H' = p /\ C' = C /\ ~Left
              /\ UNCHANGED <<kind, agent, wire, records, parked, gone, writing>>
              /\ turn'.gotTool = turn.gotTool /\ turn'.over = turn.over
         /\ \A p \in Seq(Instructions) : Enter(p) =>
              /\ timedOut' = timedOut /\ ~Left'
              /\ p = <<>> \/ (/\ p = <<Write(Chunk("role"))>> /\ kind \in SSEKinds
                              /\ pc = "new" /\ agent.state = "waiting")
         /\ \A p \in Seq(Instructions) : Leave(p) =>
              /\ Fits(p) /\ Leaving(p) /\ Left'
              /\ (pc = "new" /\ pc' = "refusing") \/ pc' = "leaving"
         /\ \A p \in Seq(Instructions) : Speak(p) \/ Raise(p) =>
              /\ C = <<>> /\ C' = p /\ H' = H /\ agent.state \in {"talking", "calling"}
              /\ UNCHANGED <<pc, kind, wire, records, parked, gone, timedOut, writing>>
              /\ turn'.over = turn.over
<1>1. ASSUME NEW p \in Seq(Instructions), Enter(p)
      PROVE  /\ H = <<>> /\ H' = p /\ C' = C /\ ~Left
             /\ UNCHANGED <<kind, agent, wire, records, parked, gone, writing>>
             /\ turn'.gotTool = turn.gotTool /\ turn'.over = turn.over
             /\ timedOut' = timedOut /\ ~Left'
             /\ p = <<>> \/ (/\ p = <<Write(Chunk("role"))>> /\ kind \in SSEKinds
                             /\ pc = "new" /\ agent.state = "waiting")
  BY <1>1 DEF Enter, Load, H, C, Left, Whereabouts, TypeOK, HandlerFlow, Threads
<1>2. ASSUME NEW p \in Seq(Instructions), Leave(p)
      PROVE  /\ H = <<>> /\ H' = p /\ C' = C /\ ~Left
             /\ UNCHANGED <<kind, agent, wire, records, parked, gone, writing>>
             /\ turn'.gotTool = turn.gotTool /\ turn'.over = turn.over
             /\ Fits(p) /\ Left'
             /\ (pc = "new" /\ pc' = "refusing") \/ pc' = "leaving"
  BY <1>2 DEF Leave, Load, H, C, Left, Whereabouts, TypeOK, Threads
<1>3. ASSUME NEW p \in Seq(Instructions), Speak(p) \/ Raise(p)
      PROVE  /\ C = <<>> /\ C' = p /\ H' = H /\ agent.state \in {"talking", "calling"}
             /\ UNCHANGED <<pc, kind, wire, records, parked, gone, timedOut, writing>>
             /\ turn'.over = turn.over
  BY <1>3 DEF Speak, Raise, H, C, outcome, Whereabouts, TypeOK, Threads
<1>4. ASSUME NEW p \in Seq(Instructions), Fits(p) PROVE Leaving(p)
  BY <1>4 DEF Fits
<1> QED
  BY <1>1, <1>2, <1>3, <1>4

\* Only the role chunk is written before the handler leaves.
LEMMA EnterFacts ==
  ASSUME Whereabouts, NEW p \in Seq(Instructions), Enter(p)
  PROVE  /\ \A T : Writes(p, T) => "role" \in T
         /\ \A S : ~Records(p, S)
         /\ p # <<>> => agent.state = "waiting"
<1>1. p = <<>> \/ (p = <<Write(Chunk("role"))>> /\ agent.state = "waiting")
  BY Loaded
<1>2. \A i \in DOMAIN p : p[i] = Write(Chunk("role"))
  BY <1>1
<1>3. \A i \in DOMAIN p : p[i].op = "write" /\ p[i].chunk.type = "role"
  BY <1>2, InstructionFacts
<1> QED
  BY <1>1, <1>3 DEF Writes, Records

LEMMA Rests ==
  ASSUME Whereabouts, Rest
  PROVE  /\ H' = H /\ C' = C
         /\ UNCHANGED <<pc, kind, turn, wire, records, parked, timedOut>>
         /\ ~gone' => ~gone
         /\ \/ UNCHANGED agent
            \/ /\ C = <<>> /\ agent.state = "waiting" /\ agent'.state = "talking"
               /\ (pc = "sending" /\ H = <<>> /\ ~Left) \/ (pc = "leaving" /\ Left /\ Blamed)
<1>1. H' = H /\ C' = C
  BY DEF Rest, BeginWrite, AgentStarts, HangUp, vars, outcome, H, C
<1>2. /\ UNCHANGED <<pc, kind, turn, wire, records, parked, timedOut>>
      /\ ~gone' => ~gone
      /\ \/ UNCHANGED agent
         \/ pc \in {"sending", "leaving"} /\ agent.state = "waiting" /\ agent'.state = "talking"
  BY DEF Rest, BeginWrite, AgentStarts, HangUp, vars, outcome, Whereabouts, TypeOK
<1> QED
  BY <1>1, <1>2 DEF Whereabouts, HandlerFlow, CallbackFlow, Left

-----------------------------------------------------------------------------
(* One writer, a callback at rest, and parked sessions *)

\* In a plain stream the handler writes while there is no callback to meet, or
\* after a failed Send, which it counts before it writes a [DONE]; a tool turn
\* holds its lock.
Apart ==
  /\ kind \in Plain =>
       /\ RecordsFirst(H)
       /\ Writes(H, ChunkTypes) => agent.state = "waiting" \/ Blamed
       /\ Writes(H, ChunkTypes \ {"done"}) => agent.state = "waiting" /\ pc # "leaving"
  /\ kind \notin SSEKinds => ~Writes(H, {"done"})
  /\ kind \in {"emit", "resume"} => writing # Threads

\* Why a handler left that was neither abandoned nor late, nor failed by a call
\* after the agent began.
LeftFor ==
  Left /\ ~gone /\ ~timedOut /\ ~Troubled =>
    \/ turn.gotTool \/ turn.over
    \/ agent.state = "waiting" \/ kind \in JsonKinds

\* The ids are on the wire, or in the handler's program, behind the Park.
ParkedFirst ==
  /\ ~parked => ParksFirst(H)
  /\ RevealedAreParked

LEMMA SubWrites ==
  ASSUME NEW p, NEW q, NEW T, \A i \in DOMAIN q : \E j \in DOMAIN p : q[i] = p[j],
         Writes(q, T)
  PROVE  Writes(p, T)
BY DEF Writes

\* What is on the wire after one more chunk.
LEMMA WireGrows ==
  ASSUME NEW w \in Seq(Chunks), NEW c \in Chunks
  PROVE  /\ Append(w, c) \in Seq(Chunks) /\ Append(w, c) # <<>>
         /\ Len(Append(w, c)) = Len(w) + 1
         /\ \A i \in DOMAIN Append(w, c) : i \in DOMAIN w \/ i = Len(w) + 1
         /\ \A i \in DOMAIN w : i \in DOMAIN Append(w, c) /\ i < Len(w) + 1
                                /\ Append(w, c)[i] = w[i]
         /\ Len(w) + 1 \in DOMAIN Append(w, c) /\ Append(w, c)[Len(w) + 1] = c
<1>1. /\ Append(w, c) \in Seq(Chunks) /\ Len(Append(w, c)) = Len(w) + 1 /\ Len(w) \in Nat
      /\ DOMAIN Append(w, c) = DOMAIN w \cup {Len(w) + 1}
      /\ \A i \in DOMAIN w : i < Len(w) + 1 /\ Append(w, c)[i] = w[i]
      /\ Append(w, c)[Len(w) + 1] = c
  BY AppendFacts
<1>2. Append(w, c) # <<>>
  BY <1>1
<1> QED
  BY <1>1, <1>2

\* Trouble, once there, stays.
LEMMA TroubleStays ==
  ASSUME Whereabouts, [Next]_vars
  PROVE  /\ Blamed => Blamed'
         /\ Troubled => Troubled'
         /\ \A p \in Seq(Instructions) :
              Leave(p) /\ Records(p, {"error"}) => Blamed'
<1>1. ASSUME NEW t \in Threads, Pop(t)
      PROVE  (Blamed => Blamed') /\ agent' = agent
  BY <1>1, BlamePops DEF Pop
<1>2. ASSUME NEW p \in Seq(Instructions), Enter(p) \/ Leave(p)
      PROVE  /\ (Blamed => Blamed') /\ agent' = agent
             /\ Records(p, {"error"}) => Blamed'
  <2>1. H = <<>> /\ H' = p /\ UNCHANGED <<agent, records>>
    BY <1>2, Loaded
  <2>2. ~Records(<<>>, {"error"})
    BY DEF Records
  <2> QED
    BY <2>1, <2>2 DEF Blamed
<1>3. ASSUME NEW p \in Seq(Instructions), Speak(p) \/ Raise(p)
      PROVE  (Blamed => Blamed') /\ agent'.state # "waiting"
  <2>1. H' = H /\ records' = records
    BY <1>3, Loaded
  <2>2. agent'.state # "waiting"
    BY <1>3 DEF Speak, Raise
  <2> QED
    BY <2>1, <2>2 DEF Blamed
<1>4. ASSUME Rest
      PROVE  (Blamed => Blamed') /\ (agent.state # "waiting" => agent'.state # "waiting")
  BY <1>4, Rests DEF Blamed
<1>5. /\ Blamed => Blamed'
      /\ agent.state # "waiting" => agent'.state # "waiting"
  BY <1>1, <1>2, <1>3, <1>4, Moves
<1> QED
  BY <1>2, <1>5 DEF Troubled

LEMMA ApartKept ==
  ASSUME Whereabouts, Apart, [Next]_vars
  PROVE  Apart'
<1>0. Blamed => Blamed'
  BY TroubleStays
<1>1. CASE Pop("handler")
  <2>1. \A T : Writes(H', T) => Writes(H, T)
    BY <1>1, HandlerPops, SubWrites
  <2>2. RecordsFirst(H) => RecordsFirst(H')
    BY <1>1, HandlerPops, PopFacts
  <2>3. /\ UNCHANGED <<kind, agent>> /\ writing' \subseteq writing \ {"handler"}
        /\ pc # "leaving" => pc' # "leaving"
    BY <1>1, HandlerPops
  <2> QED
    BY <1>0, <2>1, <2>2, <2>3 DEF Apart, Threads
<1>2. CASE Pop("callback")
  <2>1. /\ H' = H /\ UNCHANGED <<kind, agent, pc>>
        /\ writing' \subseteq writing \ {"callback"}
    BY <1>2, CallbackPops
  <2> QED
    BY <1>0, <2>1 DEF Apart, Threads
<1>3. ASSUME NEW p \in Seq(Instructions), Enter(p)
      PROVE  Apart'
  <2>1. /\ H' = p /\ UNCHANGED <<kind, agent, writing>> /\ ~Left'
        /\ \A T : Writes(p, T) => "role" \in T
        /\ \A S : ~Records(p, S)
        /\ p # <<>> => agent.state = "waiting"
    BY <1>3, Loaded, EnterFacts
  <2>2. RecordsFirst(p)
    <3>1. \A i \in DOMAIN p : p[i] = Write(Chunk("role"))
      BY <1>3, Loaded
    <3> QED
      BY <3>1, InstructionFacts DEF RecordsFirst
  <2>3. \A T : Writes(p, T) => p # <<>>
    BY DEF Writes
  <2> QED
    BY <2>1, <2>2, <2>3 DEF Apart, Left
<1>4. ASSUME NEW p \in Seq(Instructions), Leave(p)
      PROVE  Apart'
  <2>1. /\ H' = p /\ UNCHANGED <<kind, agent, writing>> /\ Fits(p)
        /\ Records(p, {"error"}) => Blamed'
    BY <1>4, Loaded, TroubleStays
  <2> QED
    BY <2>1 DEF Apart, Fits
<1>5. ASSUME NEW p \in Seq(Instructions), Speak(p) \/ Raise(p)
      PROVE  Apart'
  BY <1>0, <1>5, Loaded DEF Apart
<1>6. CASE Rest
  <2>1. kind' \in {"emit", "resume"} => writing' # Threads
    BY <1>6 DEF Rest, BeginWrite, AgentStarts, HangUp, vars, outcome, Apart, Threads
  <2>2. /\ H' = H /\ kind' = kind /\ pc' = pc
        /\ UNCHANGED agent \/ H = <<>> \/ (pc = "leaving" /\ Blamed)
    BY <1>6, Rests
  <2>3. H = <<>> => \A T : ~Writes(H, T)
    BY DEF Writes
  <2> QED
    BY <1>0, <2>1, <2>2, <2>3 DEF Apart
<1> QED
  BY <1>1, <1>2, <1>3, <1>4, <1>5, <1>6, Moves DEF Threads

LEMMA NeverTogether ==
  ASSUME Whereabouts, Apart
  PROVE  OneWriter
<1>1. SUFFICES ASSUME ~(kind = "chat" /\ Overrun), writing = Threads
               PROVE  FALSE
  BY DEF OneWriter
<1>2. /\ H \in Seq(Instructions) /\ C \in Seq(Instructions)
      /\ H # <<>> /\ C # <<>> /\ Head(H).op = "write" /\ Head(C).op = "write"
  BY <1>1 DEF Whereabouts, TypeOK, H, C, Threads
<1>3. H[1].op = "write" /\ C[1].op = "write" /\ 1 \in DOMAIN H /\ 1 \in DOMAIN C
      /\ H[1] \in Instructions /\ H[1] = Head(H)
  BY <1>2, TailFacts
<1>4. kind \notin JsonKinds /\ agent.state # "waiting"
  BY <1>2, <1>3 DEF Whereabouts, CallbackFlow
<1>5. /\ Writes(H, ChunkTypes)
      /\ Writes(H, {"done"}) \/ Writes(H, ChunkTypes \ {"done"})
  BY <1>3, InstructionTypes, ChunkFacts DEF Writes
<1>6. kind \in Plain
  BY <1>1, <1>4 DEF Apart, Whereabouts, TypeOK, Kinds, JsonKinds, SSEKinds, Plain
<1>7. kind = "chat" /\ Blamed
  BY <1>4, <1>5, <1>6 DEF Apart, Plain, SSEKinds
<1>8. ~Records(H, {"error"})
  <2>1. RecordsFirst(H)
    BY <1>6 DEF Apart
  <2>2. /\ Records(H, {"error"}) <=>
             Records(Tail(H), {"error"}) \/ (Head(H).op = "record" /\ Head(H).status \in {"error"})
        /\ Head(H).op = "write" => ~Records(Tail(H), {"error"})
    BY <1>2, <2>1, PopFacts
  <2> QED
    BY <1>2, <2>2
<1> QED
  BY <1>1, <1>4, <1>7, <1>8 DEF Blamed, Overrun

LEMMA LeftForKept ==
  ASSUME Whereabouts, LeftFor, [Next]_vars
  PROVE  LeftFor'
<1>0. (Troubled => Troubled') /\ (Blamed => Blamed')
  BY TroubleStays
<1>1. CASE Pop("handler")
  BY <1>0, <1>1, HandlerPops DEF LeftFor, Left
<1>2. CASE Pop("callback")
  BY <1>0, <1>2, CallbackPops DEF LeftFor, Left
<1>3. ASSUME NEW p \in Seq(Instructions), Enter(p)
      PROVE  LeftFor'
  BY <1>3, Loaded DEF LeftFor
<1>4. ASSUME NEW p \in Seq(Instructions), Leave(p)
      PROVE  LeftFor'
  <2>1. Records(p, {"error"}) => Blamed'
    BY <1>4, TroubleStays
  <2>2. Records(p, {"error"}) /\ agent.state # "waiting" => Troubled'
    BY <1>4, <2>1, Loaded DEF Troubled
  <2> QED
    BY <1>4, <2>2, Loaded DEF LeftFor, Fits
<1>5. ASSUME NEW p \in Seq(Instructions), Speak(p) \/ Raise(p)
      PROVE  LeftFor'
  <2>1. turn.gotTool => turn'.gotTool
    BY <1>5 DEF Speak, Raise
  <2> QED
    BY <1>0, <1>5, <2>1, Loaded DEF LeftFor, Left
<1>6. CASE Rest
  <2>1. /\ UNCHANGED <<pc, kind, turn, timedOut>> /\ (~gone' => ~gone)
        /\ UNCHANGED agent \/ ~Left \/ Troubled'
    BY <1>0, <1>6, Rests DEF Troubled
  <2> QED
    BY <1>0, <2>1 DEF LeftFor, Left
<1> QED
  BY <1>1, <1>2, <1>3, <1>4, <1>5, <1>6, Moves DEF Threads

LEMMA ParkedFirstKept ==
  ASSUME Whereabouts, ParkedFirst, [Next]_vars
  PROVE  ParkedFirst'
<1>1. ASSUME NEW c \in Chunks, wire' \in {wire, Append(wire, c)},
             c.type \in Reveals => parked, parked => parked'
      PROVE  RevealedAreParked'
  <2>1. wire \in Seq(Chunks)
    BY DEF Whereabouts, TypeOK
  <2>2. CASE wire' = wire
    BY <1>1, <2>2 DEF ParkedFirst, RevealedAreParked
  <2>3. CASE wire' = Append(wire, c)
    BY <1>1, <2>1, <2>3, WireGrows DEF ParkedFirst, RevealedAreParked, Reveals
  <2> QED
    BY <1>1, <2>2, <2>3
<1>2. ASSUME wire' = wire, parked' = parked
      PROVE  RevealedAreParked'
  BY <1>2 DEF ParkedFirst, RevealedAreParked
<1>3. CASE Pop("handler")
  <2> DEFINE x == Head(H)
  <2>1. /\ H \in Seq(Instructions) /\ H # <<>> /\ H' = Tail(H) /\ x \in Instructions
        /\ wire' = IF x.op = "write" /\ ~gone THEN Append(wire, x.chunk) ELSE wire
        /\ parked' = IF x.op = "park" THEN TRUE ELSE parked
    BY <1>3, HandlerPops
  <2>2. ~parked => /\ x.op = "park" \/ ParksFirst(H')
                   /\ x.op = "write" => x.chunk.type \notin Reveals
    BY <2>1, PopFacts DEF ParkedFirst
  <2> HIDE DEF x
  <2>3. ~parked' => ParksFirst(H')
    BY <2>1, <2>2
  <2>4. RevealedAreParked'
    <3>1. CASE x.op = "write"
      BY <1>1, <2>1, <2>2, <3>1, InstructionTypes
    <3>2. CASE x.op # "write"
      <4>1. wire' = wire /\ (parked => parked')
        BY <2>1, <3>2
      <4> QED
        BY <4>1 DEF ParkedFirst, RevealedAreParked
    <3> QED
      BY <3>1, <3>2
  <2> QED
    BY <2>3, <2>4 DEF ParkedFirst
<1>4. CASE Pop("callback")
  <2> DEFINE x == Head(C)
  <2>1. /\ H' = H /\ parked' = parked /\ x \in Instructions
        /\ x = C[1] /\ 1 \in DOMAIN C
        /\ wire' = IF x.op = "write" /\ ~gone /\ pc # "returned"
                   THEN Append(wire, x.chunk) ELSE wire
    BY <1>4, CallbackPops
  <2>2. x.op = "write" => x.chunk.type \notin Reveals
    BY <2>1 DEF Whereabouts, CallbackFlow, Reveals
  <2> HIDE DEF x
  <2>3. RevealedAreParked'
    <3>1. CASE x.op = "write"
      BY <1>1, <2>1, <2>2, <3>1, InstructionTypes
    <3>2. CASE x.op # "write"
      BY <1>2, <2>1, <3>2
    <3> QED
      BY <3>1, <3>2
  <2> QED
    BY <2>1, <2>3 DEF ParkedFirst
<1>5. ASSUME NEW p \in Seq(Instructions), Enter(p) \/ Leave(p)
      PROVE  ParkedFirst'
  <2>1. H' = p /\ wire' = wire /\ parked' = parked
    BY <1>5, Loaded
  <2>2. ParksFirst(p)
    <3>1. CASE Enter(p)
      <4>1. \A i \in DOMAIN p : p[i] = Write(Chunk("role"))
        BY <3>1, Loaded
      <4> QED
        BY <4>1, InstructionFacts DEF ParksFirst, Reveals
    <3>2. CASE Leave(p)
      BY <3>2, Loaded DEF Leaving
    <3> QED
      BY <1>5, <3>1, <3>2
  <2> QED
    BY <1>2, <2>1, <2>2 DEF ParkedFirst
<1>6. ASSUME NEW p \in Seq(Instructions), Speak(p) \/ Raise(p)
      PROVE  ParkedFirst'
  BY <1>2, <1>6, Loaded DEF ParkedFirst
<1>7. CASE Rest
  BY <1>2, <1>7, Rests DEF ParkedFirst
<1> QED
  BY <1>3, <1>4, <1>5, <1>6, <1>7, Moves DEF Threads

-----------------------------------------------------------------------------
(* One body for a request that asks for JSON *)

\* The body is on the wire, or in the handler's program, never both.
OneBody ==
  kind \in JsonKinds =>
    /\ AtMostOnce(H, "write")
    /\ Len(wire) <= 1
    /\ Writes(H, ChunkTypes) \/ ~Left => wire = <<>>
    /\ Left /\ ~gone => wire # <<>> \/ Writes(H, ChunkTypes)

LEMMA OneBodyKept ==
  ASSUME Whereabouts, OneBody, [Next]_vars
  PROVE  OneBody'
<1>1. CASE Pop("handler")
  <2> DEFINE x == Head(H)
  <2>1. /\ H \in Seq(Instructions) /\ H # <<>> /\ H' = Tail(H) /\ x \in Instructions
        /\ x = H[1] /\ 1 \in DOMAIN H
        /\ pc \in {"opened", "leaving", "refusing"} /\ pc' \in {pc, "returned"}
        /\ kind' = kind /\ gone' = gone
        /\ wire' = IF x.op = "write" /\ ~gone THEN Append(wire, x.chunk) ELSE wire
    BY <1>1, HandlerPops
  <2>2. /\ AtMostOnce(H, "write") =>
             /\ AtMostOnce(H', "write")
             /\ x.op = "write" => \A i \in DOMAIN H' : H'[i].op # "write"
        /\ Writes(H, ChunkTypes) <=>
             Writes(H', ChunkTypes) \/ (x.op = "write" /\ x.chunk.type \in ChunkTypes)
    BY <2>1, PopFacts
  <2>3. x.op = "write" => x.chunk \in Chunks /\ x.chunk.type \in ChunkTypes
    BY <2>1, InstructionTypes, ChunkFacts
  <2>4. kind \in JsonKinds => pc \in {"leaving", "refusing"}
    BY <2>1 DEF Whereabouts, HandlerFlow, JsonKinds, SSEKinds
  <2> HIDE DEF x
  <2>5. CASE x.op = "write" /\ ~gone
    <3> SUFFICES ASSUME kind \in JsonKinds PROVE OneBody'
      BY <2>1 DEF OneBody
    <3>1. wire = <<>> /\ wire' = Append(wire, x.chunk) /\ ~Writes(H', ChunkTypes)
      BY <2>1, <2>2, <2>3, <2>5 DEF OneBody, Writes
    <3>2. Len(wire') = 1 /\ wire' # <<>>
      BY <2>3, <2>5, <3>1, WireGrows DEF Whereabouts, TypeOK
    <3> QED
      BY <2>1, <2>2, <2>4, <3>1, <3>2 DEF OneBody, Left
  <2>6. CASE x.op = "write" /\ gone
    BY <2>1, <2>2, <2>3, <2>4, <2>6 DEF OneBody, Left
  <2>7. CASE x.op # "write"
    BY <2>1, <2>2, <2>4, <2>7 DEF OneBody, Left
  <2> QED
    BY <2>5, <2>6, <2>7
<1>2. CASE Pop("callback")
  <2>1. /\ H' = H /\ UNCHANGED <<pc, kind, gone>>
        /\ kind \in JsonKinds => wire' = wire
    BY <1>2, CallbackPops DEF Whereabouts, CallbackFlow
  <2> QED
    BY <2>1 DEF OneBody, Left
<1>3. ASSUME NEW p \in Seq(Instructions), Enter(p)
      PROVE  OneBody'
  <2>1. /\ H' = p /\ ~Left /\ ~Left' /\ kind' = kind /\ wire' = wire
        /\ kind \in JsonKinds => p = <<>>
    BY <1>3, Loaded DEF JsonKinds, SSEKinds
  <2> QED
    BY <2>1 DEF OneBody, AtMostOnce
<1>4. ASSUME NEW p \in Seq(Instructions), Leave(p)
      PROVE  OneBody'
  <2>1. /\ H' = p /\ ~Left /\ kind' = kind /\ wire' = wire /\ gone' = gone /\ Left'
        /\ kind \in JsonKinds =>
             AtMostOnce(p, "write") /\ (~gone => Writes(p, ChunkTypes))
    BY <1>4, Loaded DEF Fits
  <2> QED
    BY <2>1 DEF OneBody, Left
<1>5. ASSUME NEW p \in Seq(Instructions), Speak(p) \/ Raise(p)
      PROVE  OneBody'
  BY <1>5, Loaded DEF OneBody, Left
<1>6. CASE Rest
  <2>1. H' = H /\ UNCHANGED <<pc, kind, wire>> /\ (~gone' => ~gone)
    BY <1>6, Rests
  <2> QED
    BY <2>1 DEF OneBody, Left
<1> QED
  BY <1>1, <1>2, <1>3, <1>4, <1>5, <1>6, Moves DEF Threads

-----------------------------------------------------------------------------
(* The order of the chunks *)

OnWire(T) == \E i \in DOMAIN wire : wire[i].type \in T
Shown(T) == OnWire(T) \/ Writes(H, T)

Follows(late, w, p) ==
  \A i \in DOMAIN w, j \in DOMAIN p :
    p[j].op = "write" => ~Bad(late, w[i].type, p[j].chunk.type)
Clear(late, p, q) ==
  \A i \in DOMAIN p, j \in DOMAIN q :
    p[i].op = "write" /\ q[j].op = "write" =>
      ~Bad(late, p[i].chunk.type, q[j].chunk.type)
WireInOrder(late, w) ==
  \A i, j \in DOMAIN w : i < j => ~Bad(late, w[i].type, w[j].type)

\* However the two programs go on, no chunk comes after one that closes it off.
Neat(late, w, p, q) ==
  /\ InOrder(late, p) /\ InOrder(late, q)
  /\ Follows(late, w, p) /\ Follows(late, w, q)
  /\ Clear(late, p, q) /\ Clear(late, q, p)

Ordered ==
  /\ WireInOrder(Slack, wire)
  /\ ~gone /\ pc # "returned" => Neat(Slack, wire, H, C)

\* Which chunks the client can have, or the handler hold, and when.
Showing ==
  /\ Shown(Reveals) => turn.gotTool /\ Left
  /\ Shown({"stop"}) => /\ agent.state = "idle" /\ kind \notin JsonKinds
                        /\ kind \in Plain \/ Left
  /\ Shown({"reply"}) => kind \in JsonKinds
  /\ Shown({"done"}) => Left \/ (kind \in Plain /\ agent.state = "idle")
  /\ Shown({"done"}) /\ kind \in Plain => agent.state = "idle" \/ Blamed

LEMMA WireMoves ==
  ASSUME Whereabouts, NEW c \in Chunks, wire' \in {wire, Append(wire, c)}
  PROVE  \A T : /\ OnWire(T) => OnWire(T)'
                /\ OnWire(T)' => OnWire(T) \/ c.type \in T
                /\ wire' = Append(wire, c) /\ c.type \in T => OnWire(T)'
<1>1. wire \in Seq(Chunks)
  BY DEF Whereabouts, TypeOK
<1>2. CASE wire' = wire /\ wire # Append(wire, c)
  BY <1>2 DEF OnWire
<1>3. CASE wire' = Append(wire, c)
  BY <1>1, <1>3, WireGrows DEF OnWire
<1> QED
  BY <1>2, <1>3

LEMMA SameWire ==
  ASSUME wire' = wire
  PROVE  \A T : OnWire(T)' <=> OnWire(T)
BY DEF OnWire

LEMMA ShownMoves ==
  ASSUME Whereabouts
  PROVE  /\ Pop("handler") =>
              /\ \A T : Shown(T)' => Shown(T)
              /\ ~gone => \A T : Shown(T) => Shown(T)'
         /\ Pop("callback") =>
              /\ \A T : Shown(T) => Shown(T)'
              /\ \A T : Shown(T)' =>
                   \/ Shown(T)
                   \/ "text" \in T
                   \/ /\ kind \in Plain /\ agent.state = "idle"
                      /\ "stop" \in T \/ "done" \in T
<1>1. ASSUME Pop("handler")
      PROVE  /\ \A T : Shown(T)' => Shown(T)
             /\ ~gone => \A T : Shown(T) => Shown(T)'
  <2> DEFINE x == Head(H)
  <2>1. /\ H \in Seq(Instructions) /\ H # <<>> /\ H' = Tail(H) /\ x \in Instructions
        /\ wire' = IF x.op = "write" /\ ~gone THEN Append(wire, x.chunk) ELSE wire
    BY <1>1, HandlerPops
  <2>2. \A T : Writes(H, T) <=>
             Writes(H', T) \/ (x.op = "write" /\ x.chunk.type \in T)
    BY <2>1, PopFacts
  <2>3. x.op = "write" => x.chunk \in Chunks
    BY <2>1, InstructionTypes
  <2> HIDE DEF x
  <2>4. CASE x.op = "write"
    <3>1. wire' \in {wire, Append(wire, x.chunk)} /\ (~gone => wire' = Append(wire, x.chunk))
      BY <2>1, <2>4
    <3>2. \A T : /\ OnWire(T) => OnWire(T)'
                 /\ OnWire(T)' => OnWire(T) \/ x.chunk.type \in T
                 /\ wire' = Append(wire, x.chunk) /\ x.chunk.type \in T => OnWire(T)'
      BY <2>3, <2>4, <3>1, WireMoves
    <3> QED
      BY <2>2, <2>4, <3>1, <3>2 DEF Shown
  <2>5. CASE x.op # "write"
    BY <2>1, <2>2, <2>5, SameWire DEF Shown
  <2> QED
    BY <2>4, <2>5
<1>2. ASSUME Pop("callback")
      PROVE  /\ \A T : Shown(T) => Shown(T)'
             /\ \A T : Shown(T)' =>
                  \/ Shown(T)
                  \/ "text" \in T
                  \/ /\ kind \in Plain /\ agent.state = "idle"
                     /\ "stop" \in T \/ "done" \in T
  <2> DEFINE x == Head(C)
  <2>1. /\ H' = H /\ x \in Instructions /\ x = C[1] /\ 1 \in DOMAIN C
        /\ wire' = IF x.op = "write" /\ ~gone /\ pc # "returned"
                   THEN Append(wire, x.chunk) ELSE wire
    BY <1>2, CallbackPops
  <2>2. x.op = "write" => \/ x.chunk.type = "text"
                          \/ /\ x.chunk.type \in {"stop", "done"}
                             /\ kind \in Plain /\ agent.state = "idle"
    BY <2>1 DEF Whereabouts, CallbackFlow
  <2>3. x.op = "write" => x.chunk \in Chunks
    BY <2>1, InstructionTypes
  <2> HIDE DEF x
  <2>4. CASE x.op = "write"
    <3>1. wire' \in {wire, Append(wire, x.chunk)}
      BY <2>1, <2>4
    <3>2. \A T : /\ OnWire(T) => OnWire(T)'
                 /\ OnWire(T)' => OnWire(T) \/ x.chunk.type \in T
      BY <2>3, <2>4, <3>1, WireMoves
    <3> QED
      BY <2>1, <2>2, <2>4, <3>2 DEF Shown
  <2>5. CASE x.op # "write"
    BY <2>1, <2>5, SameWire DEF Shown
  <2> QED
    BY <2>4, <2>5
<1> QED
  BY <1>1, <1>2

LEMMA ShowingKept ==
  ASSUME Whereabouts, Showing, [Next]_vars
  PROVE  Showing'
<1>0. Blamed => Blamed'
  BY TroubleStays
<1>1. CASE Pop("handler")
  <2>1. /\ \A T : Shown(T)' => Shown(T)
        /\ UNCHANGED <<agent, kind, turn>> /\ (Left => Left')
    BY <1>1, ShownMoves, HandlerPops DEF Left
  <2> QED
    BY <1>0, <2>1 DEF Showing
<1>2. CASE Pop("callback")
  <2>1. /\ UNCHANGED <<agent, kind, pc>> /\ turn'.gotTool = turn.gotTool
        /\ \A T : Shown(T)' => \/ Shown(T)
                               \/ "text" \in T
                               \/ /\ kind \in Plain /\ agent.state = "idle"
                                  /\ "stop" \in T \/ "done" \in T
    BY <1>2, ShownMoves, CallbackPops
  <2>2. kind \in Plain => kind \notin JsonKinds
    BY DEF Plain, JsonKinds
  <2>3. Shown(Reveals)' => Shown(Reveals)
    BY <2>1 DEF Reveals
  <2>4. Shown({"stop"})' => Shown({"stop"}) \/ (kind \in Plain /\ agent.state = "idle")
    BY <2>1
  <2>5. Shown({"reply"})' => Shown({"reply"})
    BY <2>1
  <2>6. Shown({"done"})' => Shown({"done"}) \/ (kind \in Plain /\ agent.state = "idle")
    BY <2>1
  <2> QED
    BY <1>0, <2>1, <2>2, <2>3, <2>4, <2>5, <2>6 DEF Showing, Left
<1>3. ASSUME NEW p \in Seq(Instructions), Enter(p)
      PROVE  Showing'
  <2>1. /\ H' = p /\ UNCHANGED <<agent, kind, wire>> /\ turn'.gotTool = turn.gotTool
        /\ ~Left /\ ~Left'
    BY <1>3, Loaded
  <2>2. \A T : Shown(T)' => Shown(T) \/ "role" \in T
    BY <1>3, <2>1, EnterFacts, SameWire DEF Shown
  <2>3. /\ Shown(Reveals)' => Shown(Reveals)
        /\ Shown({"stop"})' => Shown({"stop"})
        /\ Shown({"reply"})' => Shown({"reply"})
        /\ Shown({"done"})' => Shown({"done"})
    BY <2>2 DEF Reveals
  <2> QED
    BY <1>0, <2>1, <2>3 DEF Showing
<1>4. ASSUME NEW p \in Seq(Instructions), Leave(p)
      PROVE  Showing'
  <2>1. /\ H' = p /\ UNCHANGED <<agent, kind, wire>> /\ turn'.gotTool = turn.gotTool
        /\ Left' /\ Fits(p) /\ (Records(p, {"error"}) => Blamed')
    BY <1>4, Loaded, TroubleStays
  <2>2. \A T : Shown(T)' => Shown(T) \/ Writes(p, T)
    BY <2>1, SameWire DEF Shown
  <2>3. /\ Writes(p, Reveals) => turn.gotTool
        /\ Writes(p, {"stop"}) => agent.state = "idle" /\ kind \notin JsonKinds \cup Plain
        /\ Writes(p, {"reply"}) => kind \in JsonKinds
        /\ Writes(p, {"done"}) /\ kind \in Plain => Records(p, {"error"})
    <3>1. Writes(p, {"done"}) => Writes(p, ChunkTypes)
      BY DEF Writes, ChunkTypes
    <3> QED
      BY <2>1, <3>1 DEF Fits
  <2> QED
    BY <1>0, <2>1, <2>2, <2>3 DEF Showing
<1>5. ASSUME NEW p \in Seq(Instructions), Speak(p) \/ Raise(p)
      PROVE  Showing'
  <2>1. /\ H' = H /\ UNCHANGED <<pc, kind, wire>> /\ agent.state # "idle"
        /\ (turn.gotTool => turn'.gotTool)
    BY <1>5, Loaded DEF Speak, Raise
  <2>2. \A T : Shown(T)' <=> Shown(T)
    BY <2>1, SameWire DEF Shown
  <2> QED
    BY <1>0, <2>1, <2>2 DEF Showing, Left
<1>6. CASE Rest
  <2>1. /\ H' = H /\ UNCHANGED <<pc, kind, wire, turn>>
        /\ (agent.state = "idle" => agent'.state = "idle")
    BY <1>6, Rests
  <2>2. \A T : Shown(T)' <=> Shown(T)
    BY <2>1, SameWire DEF Shown
  <2> QED
    BY <1>0, <2>1, <2>2 DEF Showing, Left
<1> QED
  BY <1>1, <1>2, <1>3, <1>4, <1>5, <1>6, Moves DEF Threads

\* A program gives up its first instruction, to the wire if it is a write.
LEMMA NeatPop ==
  ASSUME NEW late, NEW w \in Seq(Chunks),
         NEW p \in Seq(Instructions), NEW q \in Seq(Instructions), p # <<>>,
         WireInOrder(late, w), Neat(late, w, p, q),
         NEW v, v = IF Head(p).op = "write" THEN Append(w, Head(p).chunk) ELSE w
  PROVE  WireInOrder(late, v) /\ Neat(late, v, Tail(p), q)
<1> DEFINE x == Head(p)
           r == Tail(p)
<1>1. /\ x = p[1] /\ 1 \in DOMAIN p /\ x \in Instructions
      /\ \A i \in DOMAIN r : i + 1 \in DOMAIN p /\ r[i] = p[i + 1]
  BY TailFacts
<1>2. /\ InOrder(late, r)
      /\ x.op = "write" => \A j \in DOMAIN r :
           r[j].op = "write" => ~Bad(late, x.chunk.type, r[j].chunk.type)
  BY PopFacts DEF Neat
<1> HIDE DEF x, r
<1>3. Clear(late, r, q) /\ Clear(late, q, r) /\ Follows(late, w, r)
  BY <1>1 DEF Neat, Clear, Follows
<1>4. CASE x.op # "write"
  BY <1>2, <1>3, <1>4 DEF Neat, x, r
<1>5. CASE x.op = "write"
  <2> DEFINE c == x.chunk
  <2>1. v = Append(w, c) /\ c \in Chunks
    BY <1>1, <1>5, InstructionTypes DEF x
  <2>2. /\ \A i \in DOMAIN v : i \in DOMAIN w \/ i = Len(w) + 1
        /\ \A i \in DOMAIN w : i < Len(w) + 1 /\ v[i] = w[i]
        /\ v[Len(w) + 1] = c /\ Len(w) \in Nat /\ DOMAIN w \subseteq Nat
    BY <2>1, WireGrows
  <2>3. /\ \A i \in DOMAIN w : ~Bad(late, w[i].type, c.type)
        /\ \A j \in DOMAIN q : q[j].op = "write" => ~Bad(late, c.type, q[j].chunk.type)
        /\ \A j \in DOMAIN r : r[j].op = "write" => ~Bad(late, c.type, r[j].chunk.type)
    BY <1>1, <1>2, <1>5 DEF Neat, Follows, Clear
  <2> HIDE DEF c
  <2>4. WireInOrder(late, v)
    <3> SUFFICES ASSUME NEW i \in DOMAIN v, NEW j \in DOMAIN v, i < j
                 PROVE  ~Bad(late, v[i].type, v[j].type)
      BY DEF WireInOrder
    <3>1. CASE j \in DOMAIN w
      <4>1. i \in DOMAIN w
        BY <2>2, <3>1
      <4> QED
        BY <2>2, <3>1, <4>1 DEF WireInOrder
    <3>2. CASE j = Len(w) + 1
      <4>1. i \in DOMAIN w
        BY <2>2, <3>2
      <4> QED
        BY <2>2, <2>3, <3>2, <4>1
    <3> QED
      BY <2>2, <3>1, <3>2
  <2>5. Follows(late, v, q) /\ Follows(late, v, r)
    BY <1>3, <2>2, <2>3 DEF Neat, Follows
  <2> QED
    BY <1>2, <1>3, <2>4, <2>5 DEF Neat, r
<1> QED
  BY <1>4, <1>5

\* The two programs of Neat are alike.
LEMMA NeatTurned ==
  ASSUME NEW late, NEW w, NEW p, NEW q, Neat(late, w, p, q)
  PROVE  Neat(late, w, q, p)
BY DEF Neat

\* More slack only forgives, and there is never less of it than before.
LEMMA NeatLater ==
  ASSUME NEW late, NEW later, late = later \/ late = "none" \/ later = "any",
         NEW w, NEW p, NEW q
  PROVE  /\ WireInOrder(late, w) => WireInOrder(later, w)
         /\ Neat(late, w, p, q) => Neat(later, w, p, q)
<1>1. \A c, d : Bad(later, c, d) => Bad(late, c, d)
  BY DEF Bad
<1> QED
  BY <1>1 DEF WireInOrder, Neat, InOrder, Follows, Clear

LEMMA SlackGrows ==
  ASSUME Whereabouts, [Next]_vars
  PROVE  /\ Slack = Slack' \/ Slack = "none" \/ Slack' = "any"
         /\ timedOut' \/ Troubled' => Slack' # "none"
         /\ Troubled' /\ kind = "chat" => Slack' = "any"
<1>1. /\ kind' = kind
      /\ timedOut => timedOut'
  <2>1. CASE \E t \in Threads : Pop(t)
    BY <2>1 DEF Pop
  <2>2. ASSUME NEW p \in Seq(Instructions), Enter(p)
        PROVE  kind' = kind /\ timedOut' = timedOut
    BY <2>2 DEF Enter, Load
  <2>3. ASSUME NEW p \in Seq(Instructions), Leave(p)
        PROVE  kind' = kind /\ timedOut' \in {timedOut, TRUE}
    BY <2>3 DEF Leave, Load
  <2>4. ASSUME NEW p \in Seq(Instructions), Speak(p) \/ Raise(p)
        PROVE  kind' = kind /\ timedOut' = timedOut
    BY <2>4 DEF Speak, Raise, outcome
  <2>5. ASSUME Rest PROVE kind' = kind /\ timedOut' = timedOut
    BY <2>5, Rests
  <2>6. kind' = kind /\ timedOut' \in {timedOut, TRUE}
    BY <2>1, <2>2, <2>3, <2>4, <2>5, Moves DEF Pop
  <2>7. timedOut' = timedOut \/ timedOut' = TRUE
    BY <2>6
  <2>8. timedOut => timedOut'
    BY <2>7, Zenon
  <2> QED
    BY <2>6, <2>8
<1>2. Troubled => Troubled'
  BY TroubleStays
<1> QED
  BY <1>1, <1>2 DEF Slack

\* Loading a program into the thread that has none.
LEMMA NeatLoad ==
  ASSUME NEW late, NEW w, NEW p, NEW q, Neat(late, w, <<>>, q),
         InOrder(late, p), Follows(late, w, p), Clear(late, p, q), Clear(late, q, p)
  PROVE  Neat(late, w, p, q)
BY DEF Neat

LEMMA NoWritesNeat ==
  ASSUME NEW p, \A i \in DOMAIN p : p[i].op # "write"
  PROVE  /\ \A late : InOrder(late, p)
         /\ \A late, w : Follows(late, w, p)
         /\ \A late, q : Clear(late, p, q) /\ Clear(late, q, p)
BY DEF InOrder, Follows, Clear

\* A chunk that is not a call, a finish or a "done" closes nothing off; with slack
\* a "done" does not either, but perhaps another "done".
LEMMA OpenEnded ==
  ASSUME NEW late, NEW c, c \notin Reveals \cup Finish
  PROVE  /\ (c = "done" => late = "any") => \A d : ~Bad(late, c, d)
         /\ (c = "done" => late = "text") => \A d : d # "done" => ~Bad(late, c, d)
BY DEF Bad, Reveals

LEMMA SomeWrite ==
  ASSUME NEW p \in Seq(Instructions), ~Writes(p, ChunkTypes)
  PROVE  \A i \in DOMAIN p : p[i].op # "write"
<1>1. ASSUME NEW i \in DOMAIN p, p[i].op = "write" PROVE FALSE
  <2>1. p[i] \in Instructions
    OBVIOUS
  <2> QED
    BY <1>1, <2>1, InstructionTypes, ChunkFacts DEF Writes
<1> QED
  BY <1>1

LEMMA OrderedKept ==
  ASSUME Whereabouts, Apart, LeftFor, OneBody, Showing, Ordered, [Next]_vars
  PROVE  Ordered'
<1>1. /\ wire \in Seq(Chunks) /\ H \in Seq(Instructions) /\ C \in Seq(Instructions)
      /\ Finish = {"stop", "tool_calls", "reply"}
  BY DEF Whereabouts, TypeOK, H, C, Threads, Finish
<1> DEFINE late == Slack'
<1>0. /\ WireInOrder(late, wire)
      /\ ~gone /\ pc # "returned" => Neat(late, wire, H, C)
      /\ timedOut' \/ Troubled' => late # "none"
      /\ Troubled' /\ kind = "chat" => late = "any"
      /\ late \in {"none", "text", "any"}
  <2>1. late \in {"none", "text", "any"}
    BY DEF Slack
  <2> QED
    BY <2>1, SlackGrows, NeatLater DEF Ordered
<1> HIDE DEF late
<1>11. ASSUME WireInOrder(late, wire'), ~gone' /\ pc' # "returned" => Neat(late, wire', H', C')
       PROVE  Ordered'
  BY <1>11 DEF Ordered, late
<1>12. Troubled => Troubled'
  BY TroubleStays
<1>2. CASE Pop("handler")
  <2>1. /\ H # <<>> /\ H' = Tail(H) /\ C' = C /\ gone' = gone
        /\ pc # "returned"
        /\ wire' = IF Head(H).op = "write" /\ ~gone THEN Append(wire, Head(H).chunk) ELSE wire
    BY <1>2, HandlerPops
  <2>2. CASE gone
    BY <1>0, <1>11, <2>1, <2>2
  <2>3. CASE ~gone
    <3>1. WireInOrder(late, wire) /\ Neat(late, wire, H, C)
      BY <1>0, <2>1, <2>3
    <3>2. wire' = IF Head(H).op = "write" THEN Append(wire, Head(H).chunk) ELSE wire
      BY <2>1, <2>3
    <3>3. WireInOrder(late, wire') /\ Neat(late, wire', Tail(H), C)
      BY <1>1, <2>1, <3>1, <3>2, NeatPop
    <3> QED
      BY <1>11, <2>1, <3>3
  <2> QED
    BY <2>2, <2>3
<1>3. CASE Pop("callback")
  <2>1. /\ C # <<>> /\ C' = Tail(C) /\ H' = H /\ UNCHANGED <<gone, pc>>
        /\ wire' = IF Head(C).op = "write" /\ ~gone /\ pc # "returned"
                   THEN Append(wire, Head(C).chunk) ELSE wire
    BY <1>3, CallbackPops
  <2>2. CASE gone \/ pc = "returned"
    BY <1>0, <1>11, <2>1, <2>2
  <2>3. CASE ~gone /\ pc # "returned"
    <3>1. WireInOrder(late, wire) /\ Neat(late, wire, C, H)
      BY <1>0, <2>3, NeatTurned
    <3>2. wire' = IF Head(C).op = "write" THEN Append(wire, Head(C).chunk) ELSE wire
      BY <2>1, <2>3
    <3>3. WireInOrder(late, wire') /\ Neat(late, wire', Tail(C), H)
      BY <1>1, <2>1, <3>1, <3>2, NeatPop
    <3>4. Neat(late, wire', H, Tail(C))
      BY <3>3, NeatTurned
    <3> QED
      BY <1>11, <2>1, <3>3, <3>4
  <2> QED
    BY <2>2, <2>3
<1>4. ASSUME NEW T, OnWire(T) \/ Writes(H, T) PROVE Shown(T)
  BY <1>4 DEF Shown
<1>5. ASSUME ~Left, ~(kind \in Plain /\ agent.state = "idle"), NEW i \in DOMAIN wire
      PROVE  wire[i].type \notin Reveals \cup Finish \cup {"done"}
  <2>1. ~OnWire(Reveals) /\ ~OnWire({"stop"}) /\ ~OnWire({"done"})
    BY <1>4, <1>5 DEF Showing
  <2>2. ~OnWire({"reply"})
    <3>1. kind \in JsonKinds => wire = <<>>
      BY <1>5 DEF OneBody
    <3> QED
      BY <1>4, <1>5, <3>1 DEF Showing
  <2>3. wire[i].type \notin Reveals /\ wire[i].type # "stop"
        /\ wire[i].type # "done" /\ wire[i].type # "reply"
    BY <1>5, <2>1, <2>2 DEF OnWire
  <2> QED
    BY <1>1, <2>3 DEF Reveals
<1>6. ASSUME NEW p \in Seq(Instructions), Enter(p)
      PROVE  Ordered'
  <2>1. /\ H = <<>> /\ H' = p /\ C' = C /\ ~Left
        /\ UNCHANGED <<wire, gone>> /\ ~Left'
    BY <1>6, Loaded
  <2>2. /\ \A T : Writes(p, T) => "role" \in T
        /\ p # <<>> => agent.state = "waiting"
    BY <1>6, EnterFacts
  <2>3. CASE p = <<>>
    BY <1>0, <1>11, <2>1, <2>3 DEF Left
  <2>4. CASE p # <<>>
    <3>1. \A i \in DOMAIN p : p[i].op = "write" => p[i].chunk.type \in {"role"}
      <4>1. ASSUME NEW i \in DOMAIN p, p[i].op = "write", p[i].chunk.type # "role" PROVE FALSE
        <5>1. Writes(p, {p[i].chunk.type})
          BY <4>1 DEF Writes
        <5> QED
          BY <2>2, <4>1, <5>1
      <4> QED
        BY <4>1
    <3>2. C = <<>>
      BY <2>2, <2>4 DEF Whereabouts, CallbackFlow
    <3>3. \A d : ~Bad(late, "role", d)
      BY OpenEnded DEF Reveals, Finish
    <3>4. InOrder(late, p)
      BY <3>1, <3>3 DEF InOrder
    <3>5. Follows(late, wire, p)
      <4>1. ASSUME NEW i \in DOMAIN wire PROVE \A d : ~Bad(late, wire[i].type, d)
        BY <1>5, <2>1, <2>2, <2>4, OpenEnded
      <4> QED
        BY <4>1 DEF Follows
    <3>6. Clear(late, p, C) /\ Clear(late, C, p)
      BY <3>2 DEF Clear
    <3>7. ~gone /\ pc # "returned" => Neat(late, wire, <<>>, C)
      BY <1>0, <2>1
    <3>8. ~gone => Neat(late, wire, p, C)
      BY <2>1, <3>4, <3>5, <3>6, <3>7, NeatLoad DEF Left
    <3> QED
      BY <1>0, <1>11, <2>1, <3>8
  <2> QED
    BY <2>3, <2>4
<1>7. ASSUME NEW p \in Seq(Instructions), Leave(p)
      PROVE  Ordered'
  <2>1. /\ H = <<>> /\ H' = p /\ C' = C /\ ~Left /\ UNCHANGED <<wire, gone, agent, kind>>
        /\ Fits(p) /\ Leaving(p) /\ (Records(p, {"error"}) => Blamed')
    BY <1>7, Loaded, TroubleStays
  <2>2. InOrder(late, p)
    BY <2>1 DEF Leaving
  <2>3. ~gone => Neat(late, wire, <<>>, C)
    BY <1>0, <2>1 DEF Left
  <2>4. ASSUME ~gone
        PROVE  Follows(late, wire, p) /\ Clear(late, p, C) /\ Clear(late, C, p)
    <3>1. CASE ~Writes(p, ChunkTypes)
      BY <3>1, SomeWrite, NoWritesNeat
    \* The [DONE] of a plain stream whose Send failed after the agent began.
    <3>2. CASE Writes(p, ChunkTypes) /\ kind \in Plain /\ agent.state # "waiting"
      <4>1. /\ ~Writes(p, ChunkTypes \ {"done"}) /\ Records(p, {"error"})
            /\ kind \notin SSEKinds => ~Writes(p, {"done"})
        BY <2>1, <3>2 DEF Fits
      <4>2. ASSUME NEW i \in DOMAIN p, p[i].op = "write" PROVE p[i].chunk.type = "done"
        <5>1. p[i].chunk.type \in ChunkTypes
          <6>1. p[i] \in Instructions
            OBVIOUS
          <6> QED
            BY <4>2, <6>1, InstructionTypes, ChunkFacts
        <5> QED
          BY <4>1, <4>2, <5>1 DEF Writes
      <4>3. kind = "chat"
        <5>1. Writes(p, {"done"})
          BY <3>2, <4>2 DEF Writes
        <5> QED
          BY <3>2, <4>1, <5>1 DEF Plain, SSEKinds
      <4>4. late = "any"
        BY <1>0, <2>1, <3>2, <4>1, <4>3 DEF Troubled
      <4>5. (\A c : ~Bad("any", c, "done")) /\ (\A d : ~Bad("any", "done", d))
        BY DEF Bad, Finish
      <4> QED
        BY <4>2, <4>4, <4>5 DEF Follows, Clear
    <3>3. CASE Writes(p, ChunkTypes) /\ ~(kind \in Plain /\ agent.state # "waiting")
      <4>1. ~(kind \in Plain /\ agent.state = "idle")
        BY <3>3
      <4>2. Follows(late, wire, p)
        <5>1. ASSUME NEW i \in DOMAIN wire PROVE \A d : ~Bad(late, wire[i].type, d)
          BY <1>5, <2>1, <4>1, OpenEnded
        <5> QED
          BY <5>1 DEF Follows
      <4>6. \A j \in DOMAIN C : C[j].op = "write" => C[j].chunk.type = "text"
        BY <4>1 DEF Whereabouts, CallbackFlow
      <4>3. Clear(late, C, p)
        <5>2. \A d : ~Bad(late, "text", d)
          BY OpenEnded DEF Reveals, Finish
        <5> QED
          BY <4>6, <5>2 DEF Clear
      <4>4. Clear(late, p, C)
        <5>1. CASE \A i \in DOMAIN C : C[i].op # "write"
          BY <5>1, NoWritesNeat
        <5>2. CASE ~\A i \in DOMAIN C : C[i].op # "write"
          <6>1. /\ ~Writes(p, ChunkTypes \ {"done"})
                /\ late # "none" \/ ~Writes(p, {"done"})
            BY <1>0, <2>1, <2>4, <5>2 DEF Fits, Troubled
          <6>2. ASSUME NEW i \in DOMAIN p, p[i].op = "write"
                PROVE  p[i].chunk.type = "done" /\ late # "none"
            <7>1. p[i].chunk.type \in ChunkTypes
              <8>1. p[i] \in Instructions
                OBVIOUS
              <8> QED
                BY <6>2, <8>1, InstructionTypes, ChunkFacts
            <7> QED
              BY <6>1, <6>2, <7>1 DEF Writes
          <6>3. late # "none" => ~Bad(late, "done", "text")
            BY DEF Bad, Finish
          <6> QED
            BY <4>6, <6>2, <6>3 DEF Clear
        <5> QED
          BY <5>1, <5>2
      <4> QED
        BY <4>2, <4>3, <4>4
    <3> QED
      BY <3>1, <3>2, <3>3
  <2>5. ~gone => Neat(late, wire, p, C)
    BY <2>2, <2>3, <2>4, NeatLoad
  <2> QED
    BY <1>0, <1>11, <2>1, <2>5
<1>8. ASSUME NEW p \in Seq(Instructions), Speak(p) \/ Raise(p),
             ~gone, pc # "returned", Writes(p, ChunkTypes)
      PROVE  /\ \A i \in DOMAIN wire : \A d :
                  (d = "done" => kind = "chat") => ~Bad(late, wire[i].type, d)
             /\ \A i \in DOMAIN H : H[i].op = "write" =>
                  \A d : (d = "done" => kind = "chat") => ~Bad(late, H[i].chunk.type, d)
  <2>1. kind \notin JsonKinds /\ ~turn.gotTool /\ agent.state = "talking"
    <3>1. CASE Speak(p)
      <4>1. p # <<>>
        BY <1>8 DEF Writes
      <4> QED
        BY <3>1, <4>1 DEF Speak, Whereabouts, CallbackFlow
    <3>2. CASE Raise(p)
      <4>1. p # <<Signal("toolCh")>>
        BY <1>8, InstructionFacts DEF Writes
      <4>2. p = OnIdle /\ agent.state = "talking"
        BY <3>2, <4>1 DEF Raise
      <4>3. kind \in Plain
        <5>1. CASE kind \notin Plain
          <6>1. p = <<Signal("over")>>
            BY <4>2, <5>1, OnIdleIs
          <6> QED
            BY <1>8, <6>1, InstructionFacts DEF Writes
        <5> QED
          BY <5>1
      <4> QED
        BY <4>2, <4>3 DEF Whereabouts, CallbackFlow, Plain, JsonKinds
    <3> QED
      BY <1>8, <3>1, <3>2
  <2>2. ~Shown(Reveals) /\ ~Shown({"stop"}) /\ ~Shown({"reply"})
    BY <2>1 DEF Showing
  <2>3. Shown({"done"}) => late # "none" /\ (kind = "chat" => late = "any")
    <3>1. Shown({"done"}) => Left /\ (kind \in Plain => Blamed)
      BY <2>1 DEF Showing
    <3>2. ~turn.over
      BY <2>1 DEF Whereabouts, CallbackFlow
    <3>3. Shown({"done"}) => timedOut \/ Troubled
      BY <1>8, <2>1, <3>1, <3>2 DEF LeftFor
    <3>4. Shown({"done"}) /\ kind = "chat" => Troubled
      BY <2>1, <3>1 DEF Troubled, Plain
    <3>5. timedOut' = timedOut
      BY <1>8, Loaded
    <3> QED
      BY <1>0, <1>12, <3>3, <3>4, <3>5
  <2>4. ASSUME NEW c, Shown({c}), NEW d, d = "done" => kind = "chat"
        PROVE  ~Bad(late, c, d)
    <3>1. c \notin Reveals
      BY <2>2, <2>4 DEF Shown, OnWire, Writes
    <3>2. c \notin {"stop", "reply"}
      BY <2>2, <2>4
    <3>3. c \notin Reveals \cup Finish
      BY <1>1, <3>1, <3>2 DEF Reveals
    <3>4. c = "done" => late # "none" /\ (kind = "chat" => late = "any")
      BY <2>3, <2>4
    <3> QED
      BY <1>0, <2>4, <3>3, <3>4, OpenEnded
  <2>5. ASSUME NEW i \in DOMAIN wire PROVE Shown({wire[i].type})
    BY DEF Shown, OnWire
  <2>6. ASSUME NEW i \in DOMAIN H, H[i].op = "write" PROVE Shown({H[i].chunk.type})
    BY <2>6 DEF Shown, Writes
  <2> QED
    BY <2>4, <2>5, <2>6
<1>9. ASSUME NEW p \in Seq(Instructions), Speak(p) \/ Raise(p)
      PROVE  Ordered'
  <2>1. /\ C = <<>> /\ C' = p /\ H' = H
        /\ UNCHANGED <<pc, wire, gone>>
    BY <1>9, Loaded
  <2>2. ASSUME ~gone, pc # "returned"
        PROVE  Neat(late, wire, p, H)
    <3>1. Neat(late, wire, <<>>, H)
      BY <1>0, <2>1, <2>2, NeatTurned
    <3>2. CASE ~Writes(p, ChunkTypes)
      BY <3>1, <3>2, SomeWrite, NoWritesNeat, NeatLoad
    <3>3. CASE Writes(p, ChunkTypes)
      <4>1. /\ \A i \in DOMAIN wire : \A d :
                 (d = "done" => kind = "chat") => ~Bad(late, wire[i].type, d)
            /\ \A i \in DOMAIN H : H[i].op = "write" =>
                 \A d : (d = "done" => kind = "chat") => ~Bad(late, H[i].chunk.type, d)
        BY <1>8, <1>9, <2>2, <3>3
      <4>4. \A i \in DOMAIN p :
              p[i].op = "write" /\ p[i].chunk.type = "done" => kind = "chat"
        <5>1. CASE Speak(p)
          BY <5>1, InstructionFacts DEF Speak
        <5>2. CASE Raise(p)
          <6>1. \A i \in DOMAIN <<Signal("toolCh")>> : <<Signal("toolCh")>>[i].op # "write"
            BY InstructionFacts
          <6>2. \A i \in DOMAIN OnIdle :
                  OnIdle[i].op = "write" /\ OnIdle[i].chunk.type = "done" => kind = "chat"
            BY InstructionFacts DEF OnIdle, ChatIdle, NdjsonIdle
          <6> QED
            BY <5>2, <6>1, <6>2 DEF Raise
        <5> QED
          BY <1>9, <5>1, <5>2
      <4>2. Follows(late, wire, p) /\ Clear(late, H, p)
        BY <4>1, <4>4 DEF Follows, Clear
      <4>3. InOrder(late, p) /\ Clear(late, p, H)
        <5>1. CASE Speak(p)
          <6>1. \A i \in DOMAIN p : p[i].chunk.type = "text"
            BY <5>1, InstructionFacts DEF Speak
          <6>2. \A d : ~Bad(late, "text", d)
            BY OpenEnded DEF Reveals, Finish
          <6> QED
            BY <6>1, <6>2 DEF InOrder, Clear
        <5>2. CASE Raise(p)
          <6>1. p = OnIdle /\ kind \in Plain /\ agent.state # "waiting"
            <7>1. p # <<Signal("toolCh")>> /\ p # <<Signal("over")>>
              BY <3>3, InstructionFacts DEF Writes
            <7>2. p = OnIdle /\ agent.state = "talking"
              BY <5>2, <7>1 DEF Raise
            <7> QED
              BY <7>1, <7>2, OnIdleIs
          <6>2. ASSUME NEW i \in DOMAIN H, H[i].op = "write"
                PROVE  H[i].chunk.type = "done" /\ late = "any"
            <7>1. H[i].chunk.type \in ChunkTypes
              <8>1. H[i] \in Instructions
                BY <1>1
              <8> QED
                BY <6>2, <8>1, InstructionTypes, ChunkFacts
            <7>2. H[i].chunk.type = "done"
              BY <6>1, <6>2, <7>1 DEF Apart, Writes
            <7>3. Writes(H, {"done"}) /\ Writes(H, ChunkTypes)
              BY <6>2, <7>1, <7>2 DEF Writes
            <7>4. kind = "chat" /\ Troubled
              BY <6>1, <7>3 DEF Apart, Troubled, Plain, SSEKinds
            <7> QED
              BY <1>0, <1>12, <7>2, <7>4
          <6>3. Clear(late, p, H)
            <7>1. \A c : ~Bad("any", c, "done")
              BY DEF Bad, Finish
            <7> QED
              BY <6>2, <7>1 DEF Clear
          <6>4. InOrder(late, p)
            <7>1. CASE kind = "chat"
              <8>1. p = <<Record("success"), Write(Chunk("stop")), Write(Chunk("done")), Signal("over")>>
                BY <6>1, <7>1 DEF OnIdle, ChatIdle
              <8>2. /\ DOMAIN p = {1, 2, 3, 4} /\ p[1].op = "record" /\ p[4].op = "signal"
                    /\ p[2].chunk.type = "stop" /\ p[3].chunk.type = "done"
                BY <8>1 DEF Record, Write, Chunk, Signal
              <8> QED
                BY <8>2 DEF InOrder, Bad, Finish
            <7>2. CASE kind = "ndjson"
              <8>1. p = <<Record("success"), Write(Chunk("stop")), Signal("over")>>
                BY <6>1, <7>2 DEF OnIdle, NdjsonIdle
              <8>2. DOMAIN p = {1, 2, 3} /\ p[1].op = "record" /\ p[3].op = "signal"
                BY <8>1 DEF Record, Signal
              <8> QED
                BY <8>2 DEF InOrder
            <7> QED
              BY <6>1, <7>1, <7>2 DEF Plain
          <6> QED
            BY <6>3, <6>4
        <5> QED
          BY <1>9, <5>1, <5>2
      <4> QED
        BY <3>1, <4>2, <4>3, NeatLoad
    <3> QED
      BY <3>2, <3>3
  <2>3. ~gone /\ pc # "returned" => Neat(late, wire, H, p)
    BY <2>2, NeatTurned
  <2> QED
    BY <1>0, <1>11, <2>1, <2>3
<1>10. CASE Rest
  <2>1. /\ H' = H /\ C' = C /\ UNCHANGED <<pc, wire>> /\ (~gone' => ~gone)
    BY <1>10, Rests
  <2> QED
    BY <1>0, <1>11, <2>1
<1> QED
  BY <1>2, <1>3, <1>6, <1>7, <1>9, <1>10, Moves DEF Threads

-----------------------------------------------------------------------------
(* The end marker *)

\* A stream that was not refused is marked at its end by the handler, or by the
\* idle callback.
DoneComes ==
  kind \in SSEKinds /\ ~gone =>
    /\ Left /\ (~timedOut \/ kind # "chat") => Shown({"done"}) \/ Shown({"refusal"})
    /\ kind = "chat" /\ pc # "returned" /\ agent.state = "idle" =>
         OnWire({"done"}) \/ Writes(C, {"done"})

LEMMA OnIdleFacts ==
  /\ kind = "chat" => Writes(OnIdle, {"done"})
  /\ kind \in Plain => /\ Writes(OnIdle, Finish)
                       /\ Records(OnIdle, {"success"}) /\ AtMostOnce(OnIdle, "record")
<1>1. CASE kind = "chat"
  <2> DEFINE p == <<Record("success"), Write(Chunk("stop")), Write(Chunk("done")), Signal("over")>>
  <2>1. OnIdle = p
    BY <1>1 DEF OnIdle, ChatIdle
  <2>2. /\ DOMAIN p = {1, 2, 3, 4}
        /\ p[1].op = "record" /\ p[1].status = "success"
        /\ p[2].op = "write" /\ p[2].chunk.type = "stop"
        /\ p[3].op = "write" /\ p[3].chunk.type = "done" /\ p[4].op = "signal"
    BY DEF Record, Write, Chunk, Signal
  <2> HIDE DEF p
  <2> QED
    BY <2>1, <2>2 DEF Writes, Records, AtMostOnce, Finish
<1>2. CASE kind = "ndjson"
  <2> DEFINE p == <<Record("success"), Write(Chunk("stop")), Signal("over")>>
  <2>1. OnIdle = p
    BY <1>2 DEF OnIdle, NdjsonIdle
  <2>2. /\ DOMAIN p = {1, 2, 3}
        /\ p[1].op = "record" /\ p[1].status = "success"
        /\ p[2].op = "write" /\ p[2].chunk.type = "stop" /\ p[3].op = "signal"
    BY DEF Record, Write, Chunk, Signal
  <2> HIDE DEF p
  <2> QED
    BY <1>2, <2>1, <2>2 DEF Writes, Records, AtMostOnce, Finish
<1> QED
  BY <1>1, <1>2 DEF Plain

LEMMA DoneComesKept ==
  ASSUME Whereabouts, DoneComes, [Next]_vars
  PROVE  DoneComes'
<1>1. CASE Pop("handler")
  <2>1. /\ \A T : ~gone => (Shown(T) => Shown(T)')
        /\ C' = C /\ UNCHANGED <<kind, agent, gone, timedOut>>
        /\ pc \in {"opened", "leaving", "refusing"} /\ pc' \in {pc, "returned"}
        /\ pc' = "returned" => pc \in {"leaving", "refusing"}
    BY <1>1, ShownMoves, HandlerPops
  <2>2. OnWire({"done"}) => OnWire({"done"})'
    <3>1. Head(H).op = "write" => Head(H).chunk \in Chunks
      BY <1>1, HandlerPops, InstructionTypes
    <3>2. CASE Head(H).op = "write"
      <4> DEFINE c == Head(H).chunk
      <4>1. wire' \in {wire, Append(wire, c)}
        BY <1>1, <3>2, HandlerPops
      <4>2. c \in Chunks
        BY <3>1, <3>2
      <4> HIDE DEF c
      <4> QED
        BY <4>1, <4>2, WireMoves
    <3>3. CASE Head(H).op # "write"
      BY <1>1, <3>3, HandlerPops, SameWire
    <3> QED
      BY <3>2, <3>3
  <2>3. Left' => Left
    BY <2>1 DEF Left
  <2>4. pc' # "returned" => pc # "returned"
    BY <2>1
  <2> QED
    BY <2>1, <2>2, <2>3, <2>4 DEF DoneComes
<1>2. CASE Pop("callback")
  <2> DEFINE x == Head(C)
  <2>1. /\ C \in Seq(Instructions) /\ C # <<>> /\ C' = Tail(C) /\ x \in Instructions
        /\ UNCHANGED <<kind, agent, gone, timedOut, pc>>
        /\ \A T : Shown(T) => Shown(T)'
        /\ wire' = IF x.op = "write" /\ ~gone /\ pc # "returned"
                   THEN Append(wire, x.chunk) ELSE wire
    BY <1>2, ShownMoves, CallbackPops
  <2>2. Writes(C, {"done"}) <=>
          Writes(C', {"done"}) \/ (x.op = "write" /\ x.chunk.type \in {"done"})
    BY <2>1, PopFacts
  <2>3. x.op = "write" => x.chunk \in Chunks
    BY <2>1, InstructionTypes
  <2> HIDE DEF x
  <2>4. ASSUME ~gone, pc # "returned", OnWire({"done"}) \/ Writes(C, {"done"})
        PROVE  OnWire({"done"})' \/ Writes(C', {"done"})
    <3>1. CASE x.op = "write"
      <4>1. wire' = Append(wire, x.chunk)
        BY <2>1, <2>4, <3>1
      <4>2. \A T : /\ OnWire(T) => OnWire(T)'
                   /\ x.chunk.type \in T => OnWire(T)'
        BY <2>3, <3>1, <4>1, WireMoves
      <4> QED
        BY <2>2, <2>4, <4>2
    <3>2. CASE x.op # "write"
      BY <2>1, <2>2, <2>4, <3>2, SameWire
    <3> QED
      BY <3>1, <3>2
  <2> QED
    BY <2>1, <2>4 DEF DoneComes, Left
<1>3. ASSUME NEW p \in Seq(Instructions), Enter(p)
      PROVE  DoneComes'
  <2>1. /\ C' = C /\ UNCHANGED <<kind, agent, gone, wire>> /\ ~Left /\ ~Left'
    BY <1>3, Loaded
  <2>2. OnWire({"done"})' <=> OnWire({"done"})
    BY <2>1, SameWire
  <2> QED
    BY <2>1, <2>2 DEF DoneComes, Left
<1>4. ASSUME NEW p \in Seq(Instructions), Leave(p)
      PROVE  DoneComes'
  <2>1. /\ H' = p /\ C' = C /\ UNCHANGED <<kind, agent, gone, wire>>
        /\ ~Left /\ pc' # "returned" /\ pc # "returned"
        /\ kind \in SSEKinds /\ ~gone /\ (~timedOut' \/ kind # "chat") =>
             Writes(p, {"done"}) \/ Writes(p, {"refusal"}) \/ (kind = "chat" /\ turn.over)
    BY <1>4, Loaded DEF Fits, Left
  <2>2. OnWire({"done"})' <=> OnWire({"done"})
    BY <2>1, SameWire
  <2>3. turn.over => agent.state = "idle" /\ ~Writes(C, {"done"})
    BY DEF Whereabouts, CallbackFlow, Writes
  <2> QED
    BY <2>1, <2>2, <2>3 DEF DoneComes, Left, Shown
<1>5. ASSUME NEW p \in Seq(Instructions), Speak(p) \/ Raise(p)
      PROVE  DoneComes'
  <2>1. /\ H' = H /\ C' = p /\ UNCHANGED <<kind, gone, wire, pc, timedOut>>
        /\ agent.state # "idle"
    BY <1>5, Loaded
  <2>2. \A T : Shown(T)' <=> Shown(T)
    BY <2>1, SameWire DEF Shown
  <2>3. kind = "chat" /\ agent'.state = "idle" => Writes(p, {"done"})
    BY <1>5, <2>1, OnIdleFacts DEF Speak, Raise
  <2> QED
    BY <2>1, <2>2, <2>3 DEF DoneComes, Left
<1>6. CASE Rest
  <2>1. /\ H' = H /\ C' = C /\ UNCHANGED <<pc, kind, wire, timedOut>> /\ (~gone' => ~gone)
        /\ agent'.state = "idle" => agent.state = "idle"
    BY <1>6, Rests
  <2>2. \A T : (Shown(T)' <=> Shown(T)) /\ (OnWire(T)' <=> OnWire(T))
    BY <2>1, SameWire DEF Shown
  <2> QED
    BY <2>1, <2>2 DEF DoneComes, Left
<1> QED
  BY <1>1, <1>2, <1>3, <1>4, <1>5, <1>6, Moves DEF Threads

-----------------------------------------------------------------------------
(* The requests that are turned away *)

\* A refusal is all the client ever reads.
TurnedAway ==
  /\ pc = "new" => wire = <<>>
  /\ Shown({"refusal"}) => agent.state = "waiting" /\ pc \in {"refusing", "returned"}
  /\ Writes(H, {"refusal"}) => wire = <<>> /\ AtMostOnce(H, "write")
  /\ OnWire({"refusal"}) => wire = <<Chunk("refusal")>> /\ ~Writes(H, ChunkTypes)

LEMMA TurnedAwayKept ==
  ASSUME Whereabouts, TurnedAway, [Next]_vars
  PROVE  TurnedAway'
<1>1. CASE Pop("handler")
  <2> DEFINE x == Head(H)
  <2>1. /\ H \in Seq(Instructions) /\ H # <<>> /\ H' = Tail(H) /\ x \in Instructions
        /\ pc \in {"opened", "leaving", "refusing"} /\ pc' \in {pc, "returned"}
        /\ (pc' = "returned" => pc \in {"leaving", "refusing"}) /\ agent' = agent
        /\ wire' = IF x.op = "write" /\ ~gone THEN Append(wire, x.chunk) ELSE wire
        /\ \A T : Shown(T)' => Shown(T)
    BY <1>1, HandlerPops, ShownMoves
  <2>2. /\ \A T : Writes(H, T) <=>
                  Writes(H', T) \/ (x.op = "write" /\ x.chunk.type \in T)
        /\ AtMostOnce(H, "write") =>
             /\ AtMostOnce(H', "write")
             /\ x.op = "write" => \A i \in DOMAIN H' : H'[i].op # "write"
    BY <2>1, PopFacts
  <2>3. x.op = "write" => x.chunk \in Chunks /\ x.chunk.type \in ChunkTypes
    BY <2>1, InstructionTypes, ChunkFacts
  <2>4. x.op = "write" /\ x.chunk.type = "refusal" => x.chunk = Chunk("refusal")
    BY <2>3, InstructionFacts DEF Chunks
  <2> HIDE DEF x
  <2>5. pc' # "new" /\ (Shown({"refusal"})' => agent'.state = "waiting" /\ pc' \in {"refusing", "returned"})
    BY <2>1 DEF TurnedAway
  <2>6. CASE x.op = "write" /\ x.chunk.type = "refusal"
    <3>1. /\ wire = <<>> /\ ~Writes(H', ChunkTypes) /\ ~Writes(H', {"refusal"})
          /\ wire' \in {<<>>, <<Chunk("refusal")>>}
      <4>1. Writes(H, {"refusal"})
        BY <2>2, <2>6
      <4>2. wire = <<>> /\ \A i \in DOMAIN H' : H'[i].op # "write"
        BY <2>2, <2>6, <4>1 DEF TurnedAway
      <4>3. ~Writes(H', ChunkTypes) /\ ~Writes(H', {"refusal"})
        BY <4>2 DEF Writes
      <4>4. Append(<<>>, Chunk("refusal")) = <<Chunk("refusal")>>
        OBVIOUS
      <4>5. wire' = wire \/ wire' = Append(wire, Chunk("refusal"))
        BY <2>1, <2>4, <2>6
      <4> QED
        BY <4>2, <4>3, <4>4, <4>5
    <3>2. OnWire({"refusal"})' => wire' # <<>>
      BY DEF OnWire
    <3> QED
      BY <2>5, <3>1, <3>2 DEF TurnedAway
  <2>7. CASE x.op = "write" /\ x.chunk.type # "refusal"
    <3>1. Writes(H, ChunkTypes)
      BY <2>2, <2>3, <2>7
    <3>2. ~Writes(H', {"refusal"})
      BY <2>2, <2>7 DEF TurnedAway, Writes
    <3>3. ~OnWire({"refusal"})
      BY <3>1 DEF TurnedAway
    <3>4. wire' \in {wire, Append(wire, x.chunk)}
      BY <2>1
    <3>5. ~OnWire({"refusal"})'
      <4> DEFINE c == x.chunk
      <4>1. c \in Chunks /\ c.type # "refusal" /\ wire' \in {wire, Append(wire, c)}
        BY <2>3, <2>7, <3>4
      <4> HIDE DEF c
      <4> QED
        BY <3>3, <4>1, WireMoves
    <3> QED
      BY <2>5, <3>2, <3>5 DEF TurnedAway
  <2>8. CASE x.op # "write"
    <3>1. wire' = wire
      BY <2>1, <2>8
    <3>2. OnWire({"refusal"})' <=> OnWire({"refusal"})
      BY <3>1, SameWire
    <3> QED
      BY <2>2, <2>5, <2>8, <3>1, <3>2 DEF TurnedAway
  <2> QED
    BY <2>6, <2>7, <2>8
<1>2. CASE Pop("callback")
  <2>1. /\ H' = H /\ agent.state # "waiting" /\ pc' = pc
        /\ Shown({"refusal"})' => Shown({"refusal"})
    BY <1>2, CallbackPops, ShownMoves
  <2>2. ~Shown({"refusal"})' /\ pc # "new"
    BY <2>1 DEF TurnedAway, Whereabouts, HandlerFlow
  <2> QED
    BY <2>1, <2>2 DEF TurnedAway, Shown
<1>3. ASSUME NEW p \in Seq(Instructions), Enter(p)
      PROVE  TurnedAway'
  <2>1. /\ H' = p /\ UNCHANGED <<agent, wire>> /\ ~Left /\ pc' # "new"
        /\ \A T : Writes(p, T) => "role" \in T
    BY <1>3, Loaded, EnterFacts DEF Enter
  <2>2. ~Shown({"refusal"})
    BY <2>1 DEF TurnedAway, Left
  <2>3. ~Shown({"refusal"})'
    BY <2>1, <2>2, SameWire DEF Shown
  <2> QED
    BY <2>1, <2>3 DEF TurnedAway, Shown
<1>4. ASSUME NEW p \in Seq(Instructions), Leave(p)
      PROVE  TurnedAway'
  <2>1. /\ H' = p /\ UNCHANGED <<agent, wire>> /\ ~Left /\ pc' # "new"
        /\ Writes(p, {"refusal"}) => pc' = "refusing" /\ pc = "new" /\ AtMostOnce(p, "write")
    BY <1>4, Loaded DEF Fits, Leave
  <2>2. ~OnWire({"refusal"}) /\ (pc = "new" => agent.state = "waiting" /\ wire = <<>>)
    BY <2>1 DEF TurnedAway, Shown, Left, Whereabouts, HandlerFlow
  <2>3. ~OnWire({"refusal"})'
    BY <2>1, <2>2, SameWire
  <2> QED
    BY <2>1, <2>2, <2>3 DEF TurnedAway, Shown
<1>5. ASSUME NEW p \in Seq(Instructions), Speak(p) \/ Raise(p)
      PROVE  TurnedAway'
  <2>1. /\ H' = H /\ UNCHANGED <<pc, wire>> /\ agent.state # "waiting"
    BY <1>5, Loaded
  <2>2. ~Shown({"refusal"}) /\ pc # "new"
    BY <2>1 DEF TurnedAway, Whereabouts, HandlerFlow
  <2>3. ~Shown({"refusal"})'
    BY <2>1, <2>2, SameWire DEF Shown
  <2> QED
    BY <2>1, <2>2, <2>3 DEF TurnedAway, Shown
<1>6. CASE Rest
  <2>1. /\ H' = H /\ UNCHANGED <<pc, wire>>
        /\ UNCHANGED agent \/ pc \in {"sending", "leaving"}
    BY <1>6, Rests
  <2>2. OnWire({"refusal"})' <=> OnWire({"refusal"})
    BY <2>1, SameWire
  <2> QED
    BY <2>1, <2>2 DEF TurnedAway, Shown
<1> QED
  BY <1>1, <1>2, <1>3, <1>4, <1>5, <1>6, Moves DEF Threads

-----------------------------------------------------------------------------
(* The count *)

\* The one record of this request is made, or in the program p.
Once(r, p) ==
  /\ AtMostOnce(p, "record")
  /\ Len(r) <= 1
  /\ r = <<>> <=> Records(p, Statuses)

\* Whose program it is in: the handler's, or the idle callback's.
Counted ==
  /\ kind \notin Plain =>
       IF Left THEN Once(records, H) ELSE records = <<>> /\ ~Records(H, Statuses)
  /\ kind \in Plain /\ ~gone /\ ~timedOut /\ ~Troubled =>
       /\ agent.state = "waiting" /\ Left => Once(records, H)
       /\ agent.state = "waiting" /\ ~Left =>
            records = <<>> /\ ~Records(H, Statuses)
       /\ agent.state \in {"talking", "calling"} =>
            records = <<>> /\ ~Records(H, Statuses) /\ ~Records(C, Statuses)
       /\ agent.state = "idle" => Once(records, C) /\ ~Records(H, Statuses)

Succeeds ==
  \/ records = <<"success">>
  \/ Records(H, {"success"}) \/ Records(C, {"success"})
Finishes == OnWire(Finish) \/ Writes(H, Finish) \/ Writes(C, Finish)

\* A success is recorded where a finish_reason is written.
Matched ==
  ~gone /\ ~timedOut /\ ~(kind \in Plain /\ Troubled) => (Succeeds <=> Finishes)

LEMMA OncePop ==
  ASSUME NEW r \in Seq(Statuses), NEW p \in Seq(Instructions), p # <<>>, Once(r, p),
         NEW v, v = IF Head(p).op = "record" THEN Append(r, Head(p).status) ELSE r
  PROVE  Once(v, Tail(p))
<1> DEFINE x == Head(p)
           q == Tail(p)
<1>1. /\ Records(p, Statuses) <=> Records(q, Statuses) \/ (x.op = "record" /\ x.status \in Statuses)
      /\ AtMostOnce(q, "record")
      /\ x.op = "record" => \A i \in DOMAIN q : q[i].op # "record"
  BY PopFacts DEF Once
<1>2. x \in Instructions
  BY TailFacts
<1> HIDE DEF x, q
<1>3. x.op = "record" => x.status \in Statuses
  BY <1>2, InstructionTypes
<1>4. CASE x.op = "record"
  <2>1. r = <<>> /\ ~Records(q, Statuses)
    BY <1>1, <1>3, <1>4 DEF Once, Records
  <2>2. v = Append(r, x.status)
    BY <1>4 DEF x
  <2>3. Len(v) = 1 /\ v # <<>>
    <3> DEFINE e == x.status
    <3>1. e \in Statuses /\ v = Append(r, e) /\ Len(r) = 0
      BY <1>3, <1>4, <2>1, <2>2
    <3> HIDE DEF e
    <3>2. \A d \in Statuses : Len(Append(r, d)) = Len(r) + 1 /\ Append(r, d) # <<>>
      OBVIOUS
    <3>3. Len(v) = Len(r) + 1 /\ v # <<>>
      BY <3>1, <3>2, Zenon
    <3> QED
      BY <3>1, <3>3
  <2> QED
    BY <1>1, <2>1, <2>3 DEF Once, q
<1>5. CASE x.op # "record"
  BY <1>1, <1>5 DEF Once, q, x
<1> QED
  BY <1>4, <1>5

LEMMA CountedKept ==
  ASSUME Whereabouts, Counted, [Next]_vars
  PROVE  Counted'
<1>1. /\ records \in Seq(Statuses) /\ H \in Seq(Instructions) /\ C \in Seq(Instructions)
      /\ kind \in Plain => kind \notin ToolKinds
      /\ agent.state \in {"waiting", "talking", "calling", "idle"}
  BY DEF Whereabouts, TypeOK, H, C, Threads, Statuses, Plain, ToolKinds
<1>0. Troubled => Troubled'
  BY TroubleStays
<1>2. CASE Pop("handler")
  <2> DEFINE x == Head(H)
  <2>1. /\ H # <<>> /\ H' = Tail(H) /\ C' = C /\ x \in Instructions
        /\ UNCHANGED <<kind, agent, gone, timedOut>>
        /\ pc \in {"opened", "leaving", "refusing"} /\ pc' \in {pc, "returned"}
        /\ pc' = "returned" => pc \in {"leaving", "refusing"}
        /\ records' = IF x.op = "record" THEN Append(records, x.status) ELSE records
    BY <1>2, HandlerPops
  <2>2. /\ Left' <=> Left
        /\ Once(records, H) => Once(records', H')
    BY <1>1, <2>1, OncePop DEF Left
  <2>3. ~Records(H, Statuses) => ~Records(H', Statuses) /\ records' = records
    <3>1. Records(H, Statuses) <=>
            Records(H', Statuses) \/ (x.op = "record" /\ x.status \in Statuses)
      BY <2>1, <1>1, PopFacts
    <3>2. x.op = "record" => x.status \in Statuses
      BY <2>1, InstructionTypes
    <3> QED
      BY <2>1, <3>1, <3>2
  <2> HIDE DEF x
  <2> QED
    BY <1>0, <2>1, <2>2, <2>3 DEF Counted
<1>3. CASE Pop("callback")
  <2> DEFINE x == Head(C)
  <2>1. /\ C # <<>> /\ C' = Tail(C) /\ H' = H /\ x \in Instructions
        /\ x = C[1] /\ 1 \in DOMAIN C
        /\ UNCHANGED <<kind, agent, gone, timedOut, pc>> /\ agent.state # "waiting"
        /\ records' = IF x.op = "record" THEN Append(records, x.status) ELSE records
    BY <1>3, CallbackPops
  <2>2. x.op = "record" => kind \in Plain /\ agent.state = "idle"
    BY <2>1 DEF Whereabouts, CallbackFlow
  <2>3. Once(records, C) => Once(records', C')
    BY <1>1, <2>1, OncePop
  <2>4. ~Records(C, Statuses) => ~Records(C', Statuses)
    BY <1>1, <2>1, PopFacts
  <2> HIDE DEF x
  <2>5. Left' <=> Left
    BY <2>1 DEF Left
  <2> QED
    BY <1>0, <2>1, <2>2, <2>3, <2>4, <2>5 DEF Counted
<1>4. ASSUME NEW p \in Seq(Instructions), Enter(p)
      PROVE  Counted'
  <2>1. /\ H = <<>> /\ H' = p /\ C' = C /\ ~Left /\ ~Left'
        /\ UNCHANGED <<kind, agent, gone, timedOut, records>>
        /\ ~Records(p, Statuses)
    BY <1>4, Loaded, EnterFacts
  <2> QED
    BY <1>0, <2>1 DEF Counted
<1>5. ASSUME NEW p \in Seq(Instructions), Leave(p)
      PROVE  Counted'
  <2>1. /\ H' = p /\ C' = C /\ ~Left /\ Left'
        /\ UNCHANGED <<kind, agent, gone, records>> /\ Fits(p)
    BY <1>5, Loaded DEF Left
  <2>2. ~timedOut' => ~timedOut
    <3>1. timedOut' = timedOut \/ timedOut' = TRUE
      BY <1>5 DEF Leave
    <3> QED
      BY <3>1, Zenon
  <2>7. ~Troubled' => ~(agent.state # "waiting" /\ Records(p, {"error"}))
    BY <1>5, <2>1, TroubleStays DEF Troubled
  <2>3. /\ AtMostOnce(p, "record")
        /\ kind \notin Plain => Records(p, Statuses)
        /\ kind \in Plain /\ ~gone /\ ~timedOut' /\ ~Troubled' =>
             IF agent.state = "waiting" THEN Records(p, Statuses)
             ELSE agent.state = "idle" /\ ~Records(p, Statuses)
    BY <2>1, <2>7 DEF Fits, Leaving
  <2>4. ASSUME records = <<>>, Records(p, Statuses) PROVE Once(records, p)
    BY <2>3, <2>4 DEF Once
  <2>5. CASE kind \notin Plain
    BY <2>1, <2>3, <2>4, <2>5 DEF Counted
  <2>6. CASE kind \in Plain
    BY <1>0, <2>1, <2>2, <2>3, <2>4, <2>6 DEF Counted
  <2> QED
    BY <2>5, <2>6
<1>6. ASSUME NEW p \in Seq(Instructions), Speak(p)
      PROVE  Counted'
  <2>1. /\ H' = H /\ C' = p /\ UNCHANGED <<kind, gone, timedOut, records, pc>>
        /\ agent'.state = agent.state /\ agent.state \in {"talking", "calling"}
    BY <1>6, Loaded DEF Speak
  <2>2. ~Records(p, Statuses)
    BY <1>6, InstructionFacts DEF Speak, Records
  <2> QED
    BY <1>0, <2>1, <2>2 DEF Counted, Left
<1>7. ASSUME NEW p \in Seq(Instructions), Raise(p)
      PROVE  Counted'
  <2>1. /\ H' = H /\ C' = p /\ UNCHANGED <<kind, gone, timedOut, records, pc>>
        /\ agent.state \in {"talking", "calling"}
        /\ kind \in Plain => p = OnIdle /\ agent'.state = "idle"
    BY <1>1, <1>7, Loaded DEF Raise
  <2>2. ASSUME kind \in Plain, records = <<>> PROVE Once(records, p)
    <3>1. Records(p, {"success"}) /\ AtMostOnce(p, "record")
      BY <2>1, <2>2, OnIdleFacts
    <3>2. Records(p, Statuses)
      BY <3>1 DEF Records, Statuses
    <3> QED
      BY <2>2, <3>1, <3>2 DEF Once
  <2> QED
    BY <1>0, <2>1, <2>2 DEF Counted, Left
<1>8. CASE Rest
  <2>1. /\ H' = H /\ C' = C /\ UNCHANGED <<pc, kind, records, timedOut>> /\ (~gone' => ~gone)
        /\ \/ UNCHANGED agent
           \/ /\ C = <<>> /\ ((H = <<>> /\ ~Left) \/ Troubled')
              /\ agent.state = "waiting" /\ agent'.state = "talking"
    BY <1>8, Rests, TroubleStays DEF Troubled
  <2>2. C = <<>> => ~Records(C, Statuses)
    BY DEF Records
  <2> QED
    BY <1>0, <2>1, <2>2 DEF Counted, Left
<1> QED
  BY <1>2, <1>3, <1>4, <1>5, <1>6, <1>7, <1>8, Moves DEF Threads

LEMMA MatchedKept ==
  ASSUME Whereabouts, LeftFor, Counted, Matched, [Next]_vars
  PROVE  Matched'
<1>1. /\ records \in Seq(Statuses) /\ H \in Seq(Instructions) /\ C \in Seq(Instructions)
      /\ agent.state \in {"waiting", "talking", "calling", "idle"}
  BY DEF Whereabouts, TypeOK, H, C, Threads, Statuses
<1>0. Troubled => Troubled'
  BY TroubleStays
<1>2. ASSUME NEW s \in Statuses, records = <<>>, records' = Append(records, s)
      PROVE  records' = <<"success">> <=> s = "success"
  <2>1. Len(records') = 1 /\ records'[1] = s /\ records' \in Seq(Statuses)
    BY <1>1, <1>2, AppendFacts
  <2> QED
    BY <2>1
<1>3. CASE Pop("handler")
  <2> SUFFICES ASSUME ~gone, ~timedOut, ~(kind \in Plain /\ Troubled)
               PROVE  Succeeds' <=> Finishes'
    BY <1>0, <1>3, HandlerPops DEF Matched
  <2> DEFINE x == Head(H)
  <2>1. /\ H # <<>> /\ H' = Tail(H) /\ C' = C /\ x \in Instructions
        /\ pc \in {"opened", "leaving", "refusing"}
        /\ wire' = IF x.op = "write" THEN Append(wire, x.chunk) ELSE wire
        /\ records' = IF x.op = "record" THEN Append(records, x.status) ELSE records
    BY <1>3, HandlerPops
  <2>2. /\ \A T : Writes(H, T) <=> Writes(H', T) \/ (x.op = "write" /\ x.chunk.type \in T)
        /\ \A S : Records(H, S) <=> Records(H', S) \/ (x.op = "record" /\ x.status \in S)
    BY <1>1, <2>1, PopFacts
  <2>3. /\ x.op = "write" => x.chunk \in Chunks
        /\ x.op = "record" => x.status \in Statuses
    BY <2>1, InstructionTypes
  <2> HIDE DEF x
  <2>4. Finishes' <=> Finishes
    <3>1. CASE x.op = "write"
      <4>1. wire' = Append(wire, x.chunk)
        BY <2>1, <3>1
      <4>2. \A T : OnWire(T)' <=> OnWire(T) \/ x.chunk.type \in T
        BY <2>3, <3>1, <4>1, WireMoves
      <4> QED
        BY <2>1, <2>2, <3>1, <4>2 DEF Finishes
    <3>2. CASE x.op # "write"
      BY <2>1, <2>2, <3>2, SameWire DEF Finishes
    <3> QED
      BY <3>1, <3>2
  <2>5. Succeeds' <=> Succeeds
    <3>1. CASE x.op = "record"
      <4>1. Records(H, Statuses)
        BY <2>2, <2>3, <3>1
      <4>2. records = <<>>
        BY <1>1, <4>1 DEF Counted, Once
      <4>3. records' = <<"success">> <=> x.status = "success"
        BY <1>2, <2>1, <2>3, <3>1, <4>2
      <4>4. Records(H, {"success"}) <=> Records(H', {"success"}) \/ x.status = "success"
        BY <2>2, <3>1
      <4> QED
        BY <2>1, <4>2, <4>3, <4>4 DEF Succeeds
    <3>2. CASE x.op # "record"
      BY <2>1, <2>2, <3>2 DEF Succeeds
    <3> QED
      BY <3>1, <3>2
  <2> QED
    BY <2>4, <2>5 DEF Matched
<1>4. CASE Pop("callback")
  <2> SUFFICES ASSUME ~gone, ~timedOut, ~(kind \in Plain /\ Troubled)
               PROVE  Succeeds' <=> Finishes'
    BY <1>0, <1>4, CallbackPops DEF Matched
  <2> DEFINE x == Head(C)
  <2>1. /\ C # <<>> /\ C' = Tail(C) /\ H' = H /\ x \in Instructions
        /\ x = C[1] /\ 1 \in DOMAIN C
        /\ wire' = IF x.op = "write" /\ pc # "returned" THEN Append(wire, x.chunk) ELSE wire
        /\ records' = IF x.op = "record" THEN Append(records, x.status) ELSE records
    BY <1>4, CallbackPops
  <2>2. /\ \A T : Writes(C, T) <=> Writes(C', T) \/ (x.op = "write" /\ x.chunk.type \in T)
        /\ \A S : Records(C, S) <=> Records(C', S) \/ (x.op = "record" /\ x.status \in S)
    BY <1>1, <2>1, PopFacts
  <2>3. /\ x.op = "write" => x.chunk \in Chunks
        /\ x.op = "record" => x.status \in Statuses
    BY <2>1, InstructionTypes
  <2>6. /\ x.op = "write" /\ x.chunk.type \in Finish => pc # "returned"
        /\ x.op = "record" => kind \in Plain /\ agent.state = "idle"
    <3>1. x.op = "write" /\ x.chunk.type \in Finish => pc # "returned"
      <4>1. x.op = "write" /\ x.chunk.type \in Finish => kind \in Plain
        BY <2>1 DEF Whereabouts, CallbackFlow, Finish
      <4> QED
        BY <2>1, <4>1, CallbackQuiet DEF LeftFor, Left
    <3>2. x.op = "record" => kind \in Plain /\ agent.state = "idle"
      BY <2>1 DEF Whereabouts, CallbackFlow
    <3> QED
      BY <3>1, <3>2
  <2> HIDE DEF x
  <2>4. Finishes' <=> Finishes
    <3>1. CASE x.op = "write"
      <4>1. wire' \in {wire, Append(wire, x.chunk)}
            /\ (x.chunk.type \in Finish => wire' = Append(wire, x.chunk))
        BY <2>1, <2>6, <3>1
      <4>2. OnWire(Finish)' <=> OnWire(Finish) \/ x.chunk.type \in Finish
        BY <2>3, <3>1, <4>1, WireMoves
      <4> QED
        BY <2>1, <2>2, <3>1, <4>2 DEF Finishes
    <3>2. CASE x.op # "write"
      BY <2>1, <2>2, <3>2, SameWire DEF Finishes
    <3> QED
      BY <3>1, <3>2
  <2>5. Succeeds' <=> Succeeds
    <3>1. CASE x.op = "record"
      <4>1. Records(C, Statuses)
        BY <2>2, <2>3, <3>1
      <4>2. records = <<>>
        BY <2>6, <3>1, <4>1 DEF Counted, Once
      <4>3. records' = <<"success">> <=> x.status = "success"
        BY <1>2, <2>1, <2>3, <3>1, <4>2
      <4>4. Records(C, {"success"}) <=> Records(C', {"success"}) \/ x.status = "success"
        BY <2>2, <3>1
      <4> QED
        BY <2>1, <4>2, <4>3, <4>4 DEF Succeeds
    <3>2. CASE x.op # "record"
      BY <2>1, <2>2, <3>2 DEF Succeeds
    <3> QED
      BY <3>1, <3>2
  <2> QED
    BY <2>4, <2>5 DEF Matched
<1>5. /\ ~Records(<<>>, {"success"}) /\ ~Writes(<<>>, Finish)
  BY DEF Records, Writes
<1>6. ASSUME wire' = wire PROVE OnWire(Finish)' <=> OnWire(Finish)
  BY <1>6, SameWire
<1>7. ASSUME NEW p \in Seq(Instructions), Enter(p)
      PROVE  Matched'
  <2>1. /\ H = <<>> /\ H' = p /\ C' = C
        /\ UNCHANGED <<kind, gone, timedOut, records, wire>>
        /\ ~Records(p, {"success"}) /\ (Writes(p, Finish) => "role" \in Finish)
    BY <1>7, Loaded, EnterFacts
  <2> QED
    BY <1>0, <1>5, <1>6, <2>1 DEF Matched, Succeeds, Finishes, Finish
<1>8. ASSUME NEW p \in Seq(Instructions), Leave(p)
      PROVE  Matched'
  <2>1. /\ H = <<>> /\ H' = p /\ C' = C /\ UNCHANGED <<kind, gone, records, wire>> /\ Fits(p)
    BY <1>8, Loaded
  <2>2. ~timedOut' => ~timedOut
    <3>1. timedOut' = timedOut \/ timedOut' = TRUE
      BY <1>8 DEF Leave
    <3> QED
      BY <3>1, Zenon
  <2>3. ~gone /\ ~timedOut' => (Records(p, {"success"}) <=> Writes(p, Finish))
    BY <2>1 DEF Fits
  <2> QED
    BY <1>0, <1>5, <1>6, <2>1, <2>2, <2>3 DEF Matched, Succeeds, Finishes
<1>9. ASSUME NEW p \in Seq(Instructions), Speak(p) \/ Raise(p)
      PROVE  Matched'
  <2>1. /\ C = <<>> /\ C' = p /\ H' = H /\ UNCHANGED <<kind, gone, timedOut, records, wire>>
    BY <1>9, Loaded
  <2>2. Records(p, {"success"}) <=> Writes(p, Finish)
    <3>1. CASE Speak(p)
      <4>1. \A i \in DOMAIN p : p[i].op = "write" /\ p[i].chunk.type = "text"
        BY <3>1, InstructionFacts DEF Speak
      <4> QED
        BY <4>1 DEF Records, Writes, Finish
    <3>2. CASE Raise(p)
      <4>1. CASE p = <<Signal("toolCh")>> \/ p = <<Signal("over")>>
        BY <4>1, InstructionFacts DEF Records, Writes
      <4>2. CASE p = OnIdle /\ kind \in Plain
        BY <4>2, OnIdleFacts
      <4> QED
        BY <3>2, <4>1, <4>2, OnIdleIs DEF Raise
    <3> QED
      BY <1>9, <3>1, <3>2
  <2> QED
    BY <1>0, <1>5, <1>6, <2>1, <2>2 DEF Matched, Succeeds, Finishes
<1>10. CASE Rest
  <2>1. /\ H' = H /\ C' = C /\ UNCHANGED <<kind, timedOut, records, wire>> /\ (~gone' => ~gone)
    BY <1>10, Rests
  <2> QED
    BY <1>0, <1>6, <2>1 DEF Matched, Succeeds, Finishes
<1> QED
  BY <1>3, <1>4, <1>7, <1>8, <1>9, <1>10, Moves DEF Threads

-----------------------------------------------------------------------------
(* The text *)

\* The pieces of text among the chunks of w.
Pieces(w) ==
  UNION {w[i].first..w[i].last : i \in {k \in DOMAIN w : IsText(w[k])}}
Silent(p) == \A i \in DOMAIN p : ~(p[i].op = "write" /\ IsText(p[i].chunk))

\* With deltas a message event repeats what was written; without, each event
\* brings the next piece, and finalText is the last one.
Sayings ==
  /\ ~streams => agent.reported = agent.said /\ ~turn.gotDelta
  /\ streams /\ agent.said > 0 /\ ~turn.gotTool => turn.gotDelta
  /\ kind \in JsonKinds => turn.finalText[2] = agent.said

\* Of the n pieces said, all are in w, or all but those in the one chunk that p
\* still has to write.
OnTheWay(w, p, n) ==
  \/ Silent(p) /\ Pieces(w) = 1..n
  \/ \E c \in Chunks :
       /\ IsText(c) /\ p = <<Write(c)>> /\ c.last = n
       /\ Pieces(w) \cup (c.first..c.last) = 1..n
       /\ \A i \in DOMAIN w : IsText(w[i]) => w[i].last < c.first

Telling ==
  /\ Silent(H)
  /\ kind \notin JsonKinds /\ ~gone /\ pc # "returned" /\ ~turn.gotTool =>
       OnTheWay(wire, C, agent.said)

Told ==
  /\ \A i \in DOMAIN wire : IsText(wire[i]) => wire[i].last <= agent.said
  /\ \A i, j \in DOMAIN wire :
       i < j /\ IsText(wire[i]) /\ IsText(wire[j]) => wire[i].last < wire[j].first
  /\ OnWire({"stop"}) => Pieces(wire) = 1..agent.said

\* A body carries the last message, and the agent had no more to say.
Right(c) == c.type = "reply" => agent.state = "idle" /\ c.last = agent.said
Replied ==
  /\ \A i \in DOMAIN wire : Right(wire[i])
  /\ \A i \in DOMAIN H : H[i].op = "write" => Right(H[i].chunk)

LEMMA TextFacts ==
  /\ \A a, b : IsText(Text(a, b)) /\ Text(a, b).first = a /\ Text(a, b).last = b
  /\ \A m : Reply(m).type = "reply" /\ Reply(m).last = m[2]
  /\ \A c \in Chunks : IsText(c) => c.first \in Nat /\ c.last \in Nat
<1>1. /\ \A a, b : IsText(Text(a, b)) /\ Text(a, b).first = a /\ Text(a, b).last = b
      /\ \A m : Reply(m).type = "reply" /\ Reply(m).last = m[2]
  BY DEF Text, Reply, IsText
<1>2. ASSUME NEW c \in Chunks, IsText(c)
      PROVE  c.first \in Nat /\ c.last \in Nat
  <2>1. c.type = "text"
    BY <1>2 DEF IsText
  <2>2. c \notin {Chunk(t) : t \in ChunkTypes \ {"text", "reply"}}
    BY <2>1, InstructionFacts
  <2>3. c \notin {Reply(m) : m \in (0..MaxPieces) \X (0..MaxPieces)}
    BY <2>1, InstructionFacts
  <2>4. PICK a \in 0..MaxPieces, b \in 0..MaxPieces : c = Text(a, b)
    BY <2>2, <2>3 DEF Chunks
  <2> QED
    BY <1>1, <2>4, StreamAssumption
<1> QED
  BY <1>1, <1>2

LEMMA PiecesGrow ==
  ASSUME NEW w \in Seq(Chunks), NEW c \in Chunks
  PROVE  Pieces(Append(w, c)) =
           IF IsText(c) THEN Pieces(w) \cup (c.first..c.last) ELSE Pieces(w)
<1> DEFINE v == Append(w, c)
           n == Len(w) + 1
           P(u) == {k \in DOMAIN u : IsText(u[k])}
<1>1. /\ DOMAIN v = DOMAIN w \cup {n} /\ n \notin DOMAIN w
      /\ \A i \in DOMAIN w : v[i] = w[i]
      /\ v[n] = c
  BY AppendFacts
<1> HIDE DEF v, n
<1>2. /\ P(v) = IF IsText(c) THEN P(w) \cup {n} ELSE P(w)
      /\ \A i \in P(w) : v[i] = w[i]
  BY <1>1
<1>3. Pieces(v) = UNION {v[i].first..v[i].last : i \in P(v)}
      /\ Pieces(w) = UNION {w[i].first..w[i].last : i \in P(w)}
  BY DEF Pieces
<1> HIDE DEF P
<1>4. {v[i].first..v[i].last : i \in P(w)} = {w[i].first..w[i].last : i \in P(w)}
  BY <1>2
<1>5. CASE IsText(c)
  <2>1. {v[i].first..v[i].last : i \in P(v)}
          = {v[i].first..v[i].last : i \in P(w)} \cup {c.first..c.last}
    BY <1>1, <1>2, <1>5
  <2> DEFINE old == {v[i].first..v[i].last : i \in P(w)}
             new == c.first..c.last
  <2>2. Pieces(v) = UNION (old \cup {new}) /\ Pieces(w) = UNION old
    BY <1>3, <1>4, <2>1
  <2> HIDE DEF old, new
  <2>3. UNION (old \cup {new}) = (UNION old) \cup new
    OBVIOUS
  <2>4. Pieces(v) = Pieces(w) \cup new
    BY <2>2, <2>3
  <2> QED
    BY <1>5, <2>4 DEF v, new
<1>6. CASE ~IsText(c)
  BY <1>2, <1>3, <1>4, <1>6 DEF v
<1> QED
  BY <1>5, <1>6

\* What the agent says, and what of it the callback is told to write.
LEMMA Utterance ==
  ASSUME Whereabouts, Sayings, NEW p \in Seq(Instructions), Speak(p)
  PROVE  /\ Sayings'
         /\ agent.said \in Nat /\ agent'.said \in {agent.said, agent.said + 1}
         /\ kind \notin JsonKinds /\ ~turn.gotTool =>
              \/ agent'.said = agent.said /\ p = <<>>
              \/ /\ agent'.said = agent.said + 1
                 /\ p = <<Write(Text(agent.said + 1, agent.said + 1))>>
<1>1. /\ agent.said \in Nat /\ agent.reported \in Nat /\ C' = p
      /\ UNCHANGED <<kind, streams>> /\ prog' = [prog EXCEPT !["callback"] = p]
      /\ (kind \in JsonKinds => ~streams)
  <2>1. agent.said \in Nat /\ agent.reported \in Nat
    BY StreamAssumption DEF Whereabouts, TypeOK
  <2>2. kind \in JsonKinds => ~streams
    BY DEF Whereabouts, CallbackFlow, WholeMessages
  <2>3. UNCHANGED <<kind, streams>> /\ prog' = [prog EXCEPT !["callback"] = p]
    BY DEF Speak
  <2>4. C' = p
    BY Loaded
  <2> QED
    BY <2>1, <2>2, <2>3, <2>4
<1>2. \A q : Deliver(q) => q = p
  BY <1>1 DEF Deliver, Whereabouts, TypeOK, Threads
<1>3. ASSUME NEW n \in {0, 1}, SayDelta(n)
      PROVE  /\ Sayings'
             /\ agent'.said \in {agent.said, agent.said + 1}
             /\ ~turn.gotTool =>
                  \/ agent'.said = agent.said /\ p = <<>>
                  \/ /\ agent'.said = agent.said + 1
                     /\ p = <<Write(Text(agent.said + 1, agent.said + 1))>>
  <2>1. streams /\ agent'.said = agent.said + n /\ kind \notin JsonKinds
    BY <1>1, <1>3 DEF SayDelta
  <2>2. p = IF n > 0 /\ ~turn.gotTool
            THEN <<Write(Text(agent.said + 1, agent.said + n))>> ELSE <<>>
    BY <1>2, <1>3 DEF SayDelta, OnDelta
  <2>3. \/ kind \in ToolKinds /\ turn' = [turn EXCEPT !.gotDelta = @ \/ (n > 0 /\ ~turn.gotTool)]
        \/ kind \notin ToolKinds /\ turn' = [turn EXCEPT !.gotDelta = TRUE]
    BY <1>3 DEF SayDelta, OnDelta
  <2>4. /\ turn'.gotTool <=> turn.gotTool
        /\ kind \in ToolKinds => (turn'.gotDelta <=> turn.gotDelta \/ (n > 0 /\ ~turn.gotTool))
        /\ kind \notin ToolKinds => turn'.gotDelta
    BY <2>3 DEF Whereabouts, TypeOK
  <2>5. streams' /\ agent'.said > 0 /\ ~turn'.gotTool => turn'.gotDelta
    BY <1>1, <2>1, <2>4 DEF Sayings
  <2> QED
    BY <1>1, <2>1, <2>2, <2>5 DEF Sayings
<1>4. ASSUME Report
      PROVE  /\ Sayings'
             /\ agent'.said \in {agent.said, agent.said + 1}
             /\ kind \notin JsonKinds /\ ~turn.gotTool =>
                  \/ agent'.said = agent.said /\ p = <<>>
                  \/ /\ agent'.said = agent.said + 1
                     /\ p = <<Write(Text(agent.said + 1, agent.said + 1))>>
  <2> DEFINE m == IF streams THEN agent.said ELSE agent.said + 1
  <2>1. /\ agent.reported < m /\ agent'.said = m /\ agent'.reported = m
        /\ OnMessage(agent.reported + 1, m)
    <3>1. /\ agent.reported < m /\ agent' = [agent EXCEPT !.said = m, !.reported = m]
          /\ OnMessage(agent.reported + 1, m)
      BY <1>4 DEF Report
    <3> HIDE DEF m
    <3> QED
      BY <3>1 DEF Whereabouts, TypeOK
  <2>2. m = IF streams THEN agent.said ELSE agent.said + 1
    OBVIOUS
  <2> HIDE DEF m
  <2>3. CASE kind \in JsonKinds
    <3>1. turn' = [turn EXCEPT !.finalText = <<agent.reported + 1, m>>]
      BY <2>1, <2>3 DEF OnMessage
    <3>2. turn'.finalText[2] = m /\ (turn'.gotDelta <=> turn.gotDelta)
      BY <3>1 DEF Whereabouts, TypeOK
    <3> QED
      BY <1>1, <2>1, <2>2, <2>3, <3>2 DEF Sayings
  <2>4. CASE kind \notin JsonKinds
    <3>1. /\ turn' = turn
          /\ p = IF ~turn.gotTool /\ ~turn.gotDelta
                 THEN <<Write(Text(agent.reported + 1, m))>> ELSE <<>>
      BY <1>2, <2>1, <2>4 DEF OnMessage, OnStreamMessage
    <3>2. CASE streams
      <4>1. agent.said > 0 /\ m = agent.said
        BY <1>1, <2>1, <2>2, <3>2
      <4>2. turn.gotTool \/ turn.gotDelta
        BY <3>2, <4>1 DEF Sayings
      <4> QED
        BY <1>1, <2>1, <2>4, <3>1, <3>2, <4>1, <4>2 DEF Sayings
    <3>3. CASE ~streams
      BY <1>1, <2>1, <2>2, <2>4, <3>1, <3>3 DEF Sayings
    <3> QED
      BY <3>2, <3>3
  <2> QED
    BY <2>3, <2>4
<1> QED
  BY <1>1, <1>3, <1>4 DEF Speak

\* All other moves leave what was said as it is.
LEMMA Unsaid ==
  ASSUME Whereabouts,
         \/ \E t \in Threads : Pop(t)
         \/ \E p \in Seq(Instructions) : Enter(p) \/ Leave(p) \/ Raise(p)
         \/ Rest
  PROVE  /\ agent'.said = agent.said /\ agent'.reported = agent.reported
         /\ turn'.gotDelta = turn.gotDelta /\ turn'.finalText = turn.finalText
         /\ UNCHANGED <<kind, streams>>
         /\ turn.gotTool => turn'.gotTool
<1>1. CASE Pop("handler")
  BY <1>1, HandlerPops
<1>2. CASE Pop("callback")
  <2>1. /\ turn' = IF Head(C).op = "signal" THEN [turn EXCEPT ![Head(C).ch] = TRUE] ELSE turn
        /\ UNCHANGED <<kind, streams, agent>>
    BY <1>2 DEF Pop, C
  <2>2. Head(C) \in Instructions /\ turn'.gotTool = turn.gotTool
    BY <1>2, CallbackPops
  <2>3. Head(C).op = "signal" => Head(C).ch \in {"toolCh", "over"}
    BY <2>2, InstructionTypes
  <2>4. turn'.gotDelta = turn.gotDelta /\ turn'.finalText = turn.finalText
    BY <2>1, <2>3 DEF Whereabouts, TypeOK
  <2> QED
    BY <2>1, <2>2, <2>4
<1>3. ASSUME NEW p \in Seq(Instructions), Enter(p) \/ Leave(p)
      PROVE  /\ UNCHANGED <<kind, streams, agent>>
             /\ turn' \in {turn, [turn EXCEPT !.toolCh = FALSE]}
  BY <1>3 DEF Enter, Leave, Load
<1>4. ASSUME turn' \in {turn, [turn EXCEPT !.toolCh = FALSE]}
      PROVE  /\ turn'.gotDelta = turn.gotDelta /\ turn'.finalText = turn.finalText
             /\ turn'.gotTool = turn.gotTool
  BY <1>4 DEF Whereabouts, TypeOK
<1>5. ASSUME NEW p \in Seq(Instructions), Raise(p)
      PROVE  /\ agent'.said = agent.said /\ agent'.reported = agent.reported
             /\ turn'.gotDelta = turn.gotDelta /\ turn'.finalText = turn.finalText
             /\ UNCHANGED <<kind, streams>>
             /\ turn.gotTool => turn'.gotTool
  BY <1>5 DEF Raise, RaiseCall, GoIdle, Whereabouts, TypeOK
<1>6. CASE Rest
  BY <1>6 DEF Rest, BeginWrite, AgentStarts, HangUp, vars, outcome, Whereabouts, TypeOK
<1> QED
  BY <1>1, <1>2, <1>3, <1>4, <1>5, <1>6 DEF Threads

LEMMA SayingsKept ==
  ASSUME Whereabouts, Sayings, [Next]_vars
  PROVE  Sayings'
<1>1. ASSUME NEW p \in Seq(Instructions), Speak(p) PROVE Sayings'
  BY <1>1, Utterance
<1>2. CASE \/ \E t \in Threads : Pop(t)
           \/ \E p \in Seq(Instructions) : Enter(p) \/ Leave(p) \/ Raise(p)
           \/ Rest
  BY <1>2, Unsaid DEF Sayings
<1> QED
  BY <1>1, <1>2, Moves

LEMMA SilentIs ==
  /\ \A p : Silent(p) <=> ~Writes(p, {"text"})
  /\ Silent(<<>>) /\ Silent(OnIdle) /\ Silent(<<Signal("toolCh")>>)
<1>1. \A p : Silent(p) <=> ~Writes(p, {"text"})
  BY DEF Silent, Writes, IsText
<1>2. Silent(<<>>)
  BY DEF Silent
<1>3. Silent(<<Signal("toolCh")>>)
  BY DEF Silent, Signal
<1>4. Silent(OnIdle)
  BY DEF Silent, IsText, OnIdle, ChatIdle, NdjsonIdle, Record, Write, Chunk, Signal
<1> QED
  BY <1>1, <1>2, <1>3, <1>4

\* A chunk other than text changes nothing of what is told.
LEMMA OtherChunk ==
  ASSUME NEW w \in Seq(Chunks), NEW c \in Chunks, ~IsText(c), NEW p, NEW n,
         OnTheWay(w, p, n)
  PROVE  OnTheWay(Append(w, c), p, n)
<1>1. Pieces(Append(w, c)) = Pieces(w)
  BY PiecesGrow
<1>2. \A i \in DOMAIN Append(w, c) :
        IsText(Append(w, c)[i]) => i \in DOMAIN w /\ Append(w, c)[i] = w[i]
  BY AppendFacts
<1> DEFINE v == Append(w, c)
<1> HIDE DEF v
<1>3. /\ Pieces(v) = Pieces(w)
      /\ \A i \in DOMAIN v : IsText(v[i]) => i \in DOMAIN w /\ v[i] = w[i]
  BY <1>1, <1>2 DEF v
<1>4. OnTheWay(v, p, n)
  BY <1>3 DEF OnTheWay
<1> QED
  BY <1>4 DEF v

\* The callback's next instruction, of the text on its way.
LEMMA NextOnTheWay ==
  ASSUME NEW w \in Seq(Chunks), NEW p \in Seq(Instructions), p # <<>>, NEW n,
         OnTheWay(w, p, n)
  PROVE  LET x == Head(p) IN
         OnTheWay(IF x.op = "write" THEN Append(w, x.chunk) ELSE w, Tail(p), n)
<1> DEFINE x == Head(p)
<1>1. x = p[1] /\ 1 \in DOMAIN p /\ x \in Instructions
      /\ \A i \in DOMAIN Tail(p) : i + 1 \in DOMAIN p /\ Tail(p)[i] = p[i + 1]
  BY TailFacts
<1>2. x.op = "write" => x.chunk \in Chunks
  BY <1>1, InstructionTypes
<1> HIDE DEF x
<1>3. CASE Silent(p) /\ Pieces(w) = 1..n
  <2>1. Silent(Tail(p)) /\ (x.op = "write" => ~IsText(x.chunk))
    BY <1>1, <1>3 DEF Silent
  <2>2. OnTheWay(w, Tail(p), n)
    BY <1>3, <2>1 DEF OnTheWay
  <2> QED
    BY <1>2, <2>1, <2>2, OtherChunk DEF x
<1>4. ASSUME NEW c \in Chunks, IsText(c), p = <<Write(c)>>,
             Pieces(w) \cup (c.first..c.last) = 1..n
      PROVE  OnTheWay(IF x.op = "write" THEN Append(w, x.chunk) ELSE w, Tail(p), n)
  <2>1. x = Write(c) /\ Tail(p) = <<>>
    BY <1>1, <1>4
  <2>2. x.op = "write" /\ x.chunk = c
    BY <2>1, InstructionFacts
  <2>3. Pieces(Append(w, c)) = 1..n
    BY <1>4, PiecesGrow
  <2>4. OnTheWay(Append(w, c), <<>>, n)
    BY <2>3, SilentIs DEF OnTheWay
  <2> QED
    BY <2>1, <2>2, <2>4
<1> QED
  BY <1>3, <1>4 DEF OnTheWay, x

LEMMA TellingKept ==
  ASSUME Whereabouts, Sayings, Telling, Told, [Next]_vars
  PROVE  Telling'
<1> DEFINE due == kind \notin JsonKinds /\ ~gone /\ pc # "returned" /\ ~turn.gotTool
<1>0. wire \in Seq(Chunks) /\ (due => OnTheWay(wire, C, agent.said)) /\ Silent(H)
  BY DEF Whereabouts, TypeOK, Telling
<1>1. CASE Pop("handler")
  <2> DEFINE x == Head(H)
  <2>1. /\ H \in Seq(Instructions) /\ H # <<>> /\ H' = Tail(H) /\ C' = C
        /\ x \in Instructions /\ x = H[1] /\ 1 \in DOMAIN H
        /\ \A i \in DOMAIN H' : \E j \in DOMAIN H : H'[i] = H[j]
        /\ pc' \in {pc, "returned"} /\ UNCHANGED <<kind, agent, turn, gone>>
        /\ pc # "returned"
        /\ wire' = IF x.op = "write" /\ ~gone THEN Append(wire, x.chunk) ELSE wire
    BY <1>1, HandlerPops
  <2> HIDE DEF x
  <2>2. Silent(H)'
    BY <1>0, <2>1 DEF Silent
  <2>3. x.op = "write" => x.chunk \in Chunks /\ ~IsText(x.chunk)
    BY <1>0, <2>1, InstructionTypes DEF Silent
  <2>4. due => OnTheWay(wire', C, agent.said)
    BY <1>0, <2>1, <2>3, OtherChunk
  <2>5. due' => due
    BY <2>1
  <2> HIDE DEF due
  <2>6. due' => OnTheWay(wire, C, agent.said)'
    BY <2>1, <2>4, <2>5
  <2> QED
    BY <2>2, <2>6 DEF Telling, due
<1>2. CASE Pop("callback")
  <2>1. /\ C \in Seq(Instructions) /\ C # <<>> /\ C' = Tail(C) /\ H' = H
        /\ UNCHANGED <<pc, kind, agent, gone>> /\ turn'.gotTool = turn.gotTool
        /\ wire' = IF Head(C).op = "write" /\ ~gone /\ pc # "returned"
                   THEN Append(wire, Head(C).chunk) ELSE wire
    BY <1>2, CallbackPops
  <2>2. due' => due
    BY <2>1
  <2>3. due => ~gone /\ pc # "returned"
    OBVIOUS
  <2> HIDE DEF due
  <2>4. due => OnTheWay(IF Head(C).op = "write" THEN Append(wire, Head(C).chunk) ELSE wire,
                        Tail(C), agent.said)
    BY <1>0, <2>1, NextOnTheWay
  <2>5. due' => OnTheWay(wire, C, agent.said)'
    BY <2>1, <2>2, <2>3, <2>4
  <2>6. Silent(H)'
    BY <1>0, <2>1
  <2> QED
    BY <2>5, <2>6 DEF Telling, due
<1>3. ASSUME NEW p \in Seq(Instructions), Enter(p) \/ Leave(p) PROVE Telling'
  <2>1. /\ H' = p /\ C' = C /\ ~Left /\ UNCHANGED <<kind, agent, wire, gone>>
        /\ turn'.gotTool = turn.gotTool
    BY <1>3, Loaded
  <2>2. Silent(p)
    BY <1>3, SilentIs, EnterFacts DEF Leave, Fits
  <2>3. due' => due
    BY <2>1 DEF Left
  <2> HIDE DEF due
  <2>4. due' => OnTheWay(wire, C, agent.said)'
    BY <1>0, <2>1, <2>3
  <2> QED
    BY <2>1, <2>2, <2>4 DEF Telling, due
<1>4. ASSUME NEW p \in Seq(Instructions), Speak(p) PROVE Telling'
  <2>1. /\ C = <<>> /\ C' = p /\ H' = H /\ UNCHANGED <<pc, kind, wire, gone>>
        /\ turn'.gotTool = turn.gotTool
    BY <1>4, Loaded DEF Speak
  <2> DEFINE n == agent.said
  <2>2. /\ n \in Nat
        /\ due => \/ agent'.said = n /\ p = <<>>
                  \/ agent'.said = n + 1 /\ p = <<Write(Text(n + 1, n + 1))>>
    BY <1>4, Utterance
  <2>3. due' => due
    BY <2>1
  <2>4. due => OnTheWay(wire, <<>>, n)
    BY <1>0, <2>1
  <2>5. n + 1 \in 0..MaxPieces \/ agent'.said = n
    <3>1. agent'.said \in {n, n + 1} /\ n \in Nat
      BY <1>4, Utterance
    <3>2. agent'.said \in 0..MaxPieces
      BY TypesKept DEF Whereabouts, TypeOK
    <3> QED
      BY <3>1, <3>2
  <2>6. \A i \in DOMAIN wire : IsText(wire[i]) => wire[i].last <= n
    BY DEF Told
  <2>7. \A i \in DOMAIN wire : IsText(wire[i]) => wire[i].last \in Nat
    BY <1>0, TextFacts
  <2> HIDE DEF due, n
  <2>8. OnTheWay(wire, <<>>, n) => Pieces(wire) = 1..n
    BY DEF OnTheWay
  <2>9. CASE due /\ agent'.said = n /\ p = <<>>
    <3>1. OnTheWay(wire', C', agent'.said)
      BY <2>1, <2>4, <2>9
    <3> QED
      BY <1>0, <2>1, <3>1 DEF Telling
  <2>10. CASE due /\ agent'.said = n + 1 /\ p = <<Write(Text(n + 1, n + 1))>>
    <3> DEFINE c == Text(n + 1, n + 1)
    <3>1. n + 1 \in 0..MaxPieces
      BY <2>2, <2>5, <2>10
    <3>2. c \in Chunks /\ IsText(c) /\ c.first = n + 1 /\ c.last = n + 1
      BY <3>1, TextTyped, TextFacts
    <3> HIDE DEF c
    <3>3. Pieces(wire) \cup (c.first..c.last) = 1..(n + 1)
      BY <2>2, <2>4, <2>8, <2>10, <3>2
    <3>4. \A i \in DOMAIN wire : IsText(wire[i]) => wire[i].last < c.first
      BY <2>2, <2>6, <2>7, <3>2
    <3>5. OnTheWay(wire, <<Write(c)>>, n + 1)
      BY <3>2, <3>3, <3>4 DEF OnTheWay
    <3>6. OnTheWay(wire', C', agent'.said)
      BY <2>1, <2>10, <3>5 DEF c
    <3> QED
      BY <1>0, <2>1, <3>6 DEF Telling
  <2>11. CASE ~due
    BY <1>0, <2>1, <2>3, <2>11 DEF Telling, due
  <2> QED
    BY <2>2, <2>9, <2>10, <2>11
<1>5. ASSUME NEW p \in Seq(Instructions), Raise(p) PROVE Telling'
  <2>1. /\ C = <<>> /\ C' = p /\ H' = H /\ UNCHANGED <<pc, kind, wire, gone>>
        /\ (turn.gotTool => turn'.gotTool) /\ agent'.said = agent.said
    BY <1>5, Loaded, Unsaid
  <2>2. Silent(p)
    BY <1>5, SilentIs DEF Raise
  <2>3. due' => due
    BY <2>1
  <2> HIDE DEF due
  <2>4. due => Pieces(wire) = 1..agent.said
    BY <1>0, <2>1 DEF OnTheWay
  <2>5. due' => OnTheWay(wire, C, agent.said)'
    BY <2>1, <2>2, <2>3, <2>4 DEF OnTheWay
  <2> QED
    BY <1>0, <2>1, <2>5 DEF Telling, due
<1>6. CASE Rest
  <2>1. /\ H' = H /\ C' = C /\ UNCHANGED <<pc, kind, wire, turn>> /\ (~gone' => ~gone)
        /\ agent'.said = agent.said
    BY <1>6, Rests, Unsaid
  <2> QED
    BY <1>0, <2>1 DEF Telling
<1> QED
  BY <1>1, <1>2, <1>3, <1>4, <1>5, <1>6, Moves DEF Threads

LEMMA ToldKept ==
  ASSUME Whereabouts, Sayings, Telling, Told, Showing, Ordered, [Next]_vars
  PROVE  Told'
<1>1. /\ wire \in Seq(Chunks) /\ agent.said \in Nat
      /\ \A i \in DOMAIN wire : i \in Nat
  BY StreamAssumption DEF Whereabouts, TypeOK
<1>2. ASSUME UNCHANGED wire, agent'.said = agent.said PROVE Told'
  BY <1>2 DEF Told, OnWire
\* A chunk other than text, "stop" only when all was told.
<1>3. ASSUME NEW c \in Chunks, wire' = Append(wire, c), ~IsText(c),
             agent'.said = agent.said,
             c.type = "stop" => Pieces(wire) = 1..agent.said
      PROVE  Told'
  <2>1. /\ Pieces(wire') = Pieces(wire)
        /\ \A i \in DOMAIN wire' :
             \/ i \in DOMAIN wire /\ wire'[i] = wire[i]
             \/ wire'[i] = c
    BY <1>1, <1>3, PiecesGrow, AppendFacts
  <2>2. OnWire({"stop"})' => OnWire({"stop"}) \/ c.type = "stop"
    BY <2>1 DEF OnWire
  <2> QED
    BY <1>3, <2>1, <2>2 DEF Told
<1>4. CASE Pop("handler")
  <2> DEFINE x == Head(H)
  <2>1. /\ x \in Instructions /\ x = H[1] /\ 1 \in DOMAIN H
        /\ pc \in {"opened", "leaving", "refusing"} /\ UNCHANGED agent
        /\ wire' = IF x.op = "write" /\ ~gone THEN Append(wire, x.chunk) ELSE wire
    BY <1>4, HandlerPops
  <2> HIDE DEF x
  <2>2. CASE x.op = "write" /\ ~gone
    <3>1. x.chunk \in Chunks /\ ~IsText(x.chunk)
      BY <2>1, <2>2, InstructionTypes DEF Telling, Silent
    <3>2. ASSUME x.chunk.type = "stop" PROVE Pieces(wire) = 1..agent.said
      <4>1. Shown({"stop"})
        BY <2>1, <2>2, <3>2 DEF Shown, Writes
      <4>2. kind \notin JsonKinds /\ ~turn.gotTool /\ pc # "returned"
        BY <2>1, <4>1 DEF Showing, Whereabouts, CallbackFlow
      <4>3. OnTheWay(wire, C, agent.said)
        BY <2>2, <4>2 DEF Telling
      <4>4. ASSUME NEW c \in Chunks, IsText(c), C = <<Write(c)>> PROVE FALSE
        <5>1. 1 \in DOMAIN C /\ C[1].op = "write" /\ C[1].chunk.type = "text"
          BY <4>4, InstructionFacts DEF IsText
        <5>2. ~Bad(Slack, "stop", "text")
          BY <2>1, <2>2, <3>2, <4>2, <5>1 DEF Ordered, Neat, Clear
        <5> QED
          BY <5>2 DEF Bad, Finish
      <4> QED
        BY <4>3, <4>4 DEF OnTheWay
    <3> QED
      BY <1>3, <2>1, <2>2, <3>1, <3>2
  <2>3. CASE ~(x.op = "write" /\ ~gone)
    BY <1>2, <2>1, <2>3
  <2> QED
    BY <2>2, <2>3
<1>5. CASE Pop("callback")
  <2> DEFINE x == Head(C)
  <2>1. /\ x \in Instructions /\ x = C[1] /\ 1 \in DOMAIN C /\ UNCHANGED agent
        /\ wire' = IF x.op = "write" /\ ~gone /\ pc # "returned"
                   THEN Append(wire, x.chunk) ELSE wire
    BY <1>5, CallbackPops
  <2> HIDE DEF x
  <2>2. ASSUME x.op = "write", ~gone, pc # "returned"
        PROVE  Told'
    <3>1. /\ x.chunk \in Chunks /\ kind \notin JsonKinds /\ ~turn.gotTool
          /\ wire' = Append(wire, x.chunk)
      BY <2>1, <2>2, InstructionTypes DEF Whereabouts, CallbackFlow
    <3>2. OnTheWay(wire, C, agent.said)
      BY <2>2, <3>1 DEF Telling
    <3>3. CASE ~IsText(x.chunk)
      <4>1. ASSUME NEW c \in Chunks, IsText(c), C = <<Write(c)>> PROVE FALSE
        BY <2>1, <3>3, <4>1, InstructionFacts
      <4>2. Pieces(wire) = 1..agent.said
        BY <3>2, <4>1 DEF OnTheWay
      <4> QED
        BY <1>3, <2>1, <3>1, <3>3, <4>2
    <3>4. CASE IsText(x.chunk)
      <4> DEFINE c == x.chunk
                 n == Len(wire) + 1
      <4>1. ~Silent(C)
        BY <2>1, <2>2, <3>4 DEF Silent
      <4>2. /\ c.last = agent.said
            /\ \A i \in DOMAIN wire : IsText(wire[i]) => wire[i].last < c.first
        <5>1. PICK d \in Chunks :
                /\ C = <<Write(d)>> /\ d.last = agent.said
                /\ \A i \in DOMAIN wire : IsText(wire[i]) => wire[i].last < d.first
          BY <3>2, <4>1 DEF OnTheWay
        <5>2. c = d
          BY <2>1, <5>1, InstructionFacts
        <5> QED
          BY <5>1, <5>2
      <4>3. c.last \in Nat
        BY <3>1, <3>4, TextFacts
      <4>4. ~OnWire({"stop"})
        <5>1. ASSUME NEW i \in DOMAIN wire, wire[i].type = "stop" PROVE FALSE
          <6>1. ~Bad(Slack, "stop", "text")
            BY <2>1, <2>2, <3>4, <5>1 DEF Ordered, Neat, Follows, IsText
          <6> QED
            BY <6>1 DEF Bad, Finish
        <5> QED
          BY <5>1 DEF OnWire
      <4>5. /\ DOMAIN wire' = DOMAIN wire \cup {n} /\ wire'[n] = c
            /\ n \in Nat /\ \A i \in DOMAIN wire : i < n /\ wire'[i] = wire[i]
        BY <1>1, <3>1, AppendFacts
      <4>6. c.type # "stop"
        BY <3>4 DEF IsText
      <4> HIDE DEF c, n
      <4>7. ~OnWire({"stop"})'
        BY <4>4, <4>5, <4>6 DEF OnWire
      <4>8. \A i \in DOMAIN wire' : IsText(wire'[i]) => wire'[i].last <= agent'.said
        BY <1>1, <2>1, <4>2, <4>3, <4>5 DEF Told
      <4>9. ASSUME NEW i \in DOMAIN wire', NEW j \in DOMAIN wire', i < j,
                   IsText(wire'[i]), IsText(wire'[j])
            PROVE  wire'[i].last < wire'[j].first
        <5>1. i \in DOMAIN wire
          BY <1>1, <4>5, <4>9
        <5>2. CASE j \in DOMAIN wire
          BY <4>5, <4>9, <5>1, <5>2 DEF Told
        <5>3. CASE j = n
          BY <4>2, <4>5, <4>9, <5>1, <5>3
        <5> QED
          BY <4>5, <5>2, <5>3
      <4> QED
        BY <4>7, <4>8, <4>9 DEF Told
    <3> QED
      BY <3>3, <3>4
  <2>3. CASE ~(x.op = "write" /\ ~gone /\ pc # "returned")
    BY <1>2, <2>1, <2>3
  <2> QED
    BY <2>2, <2>3
<1>6. ASSUME NEW p \in Seq(Instructions), Enter(p) \/ Leave(p) \/ Raise(p) PROVE Told'
  BY <1>2, <1>6, Loaded, Unsaid
<1>7. ASSUME NEW p \in Seq(Instructions), Speak(p) PROVE Told'
  <2>1. /\ wire' = wire /\ agent.state # "idle"
        /\ agent'.said \in {agent.said, agent.said + 1}
    BY <1>7, Loaded, Utterance
  <2>2. ~OnWire({"stop"})'
    BY <2>1 DEF Showing, Shown, OnWire
  <2>3. \A i \in DOMAIN wire : IsText(wire[i]) => wire[i].last <= agent'.said
    <3>1. \A i \in DOMAIN wire : IsText(wire[i]) => wire[i].last \in Nat
      BY <1>1, TextFacts
    <3> QED
      BY <1>1, <2>1, <3>1 DEF Told
  <2> QED
    BY <2>1, <2>2, <2>3 DEF Told
<1>8. CASE Rest
  BY <1>2, <1>8, Rests, Unsaid
<1> QED
  BY <1>4, <1>5, <1>6, <1>7, <1>8, Moves DEF Threads

LEMMA RepliedKept ==
  ASSUME Whereabouts, Sayings, Replied, [Next]_vars
  PROVE  Replied'
<1>1. wire \in Seq(Chunks)
  BY DEF Whereabouts, TypeOK
<1>2. ASSUME agent.state = "idle" => agent'.state = "idle" /\ agent'.said = agent.said
      PROVE  \A c : Right(c) => Right(c)'
  BY <1>2 DEF Right
<1>3. CASE Pop("handler")
  <2> DEFINE x == Head(H)
  <2>1. /\ x \in Instructions /\ x = H[1] /\ 1 \in DOMAIN H /\ UNCHANGED agent
        /\ \A i \in DOMAIN H' : \E j \in DOMAIN H : H'[i] = H[j]
        /\ wire' = IF x.op = "write" /\ ~gone THEN Append(wire, x.chunk) ELSE wire
    BY <1>3, HandlerPops
  <2> HIDE DEF x
  <2>2. x.op = "write" => x.chunk \in Chunks /\ Right(x.chunk)
    BY <2>1, InstructionTypes DEF Replied
  <2>3. \A i \in DOMAIN wire' : Right(wire'[i])
    BY <1>1, <2>1, <2>2, AppendFacts DEF Replied
  <2>4. \A c : Right(c) => Right(c)'
    BY <1>2, <2>1
  <2>5. \A i \in DOMAIN H' : H'[i].op = "write" => Right(H'[i].chunk)
    BY <2>1 DEF Replied
  <2> HIDE DEF H
  <2> QED
    BY <2>3, <2>4, <2>5 DEF Replied
<1>4. CASE Pop("callback")
  <2> DEFINE x == Head(C)
  <2>1. /\ x \in Instructions /\ x = C[1] /\ 1 \in DOMAIN C /\ UNCHANGED agent /\ H' = H
        /\ wire' = IF x.op = "write" /\ ~gone /\ pc # "returned"
                   THEN Append(wire, x.chunk) ELSE wire
    BY <1>4, CallbackPops
  <2> HIDE DEF x
  <2>2. x.op = "write" => x.chunk \in Chunks /\ x.chunk.type # "reply"
    BY <2>1, InstructionTypes DEF Whereabouts, CallbackFlow
  <2>3. \A i \in DOMAIN wire' : Right(wire'[i])
    BY <1>1, <2>1, <2>2, AppendFacts DEF Replied, Right
  <2>4. \A c : Right(c) => Right(c)'
    BY <1>2, <2>1
  <2> QED
    BY <2>1, <2>3, <2>4 DEF Replied
<1>5. ASSUME UNCHANGED <<H, wire>>,
             agent.state = "idle" => agent'.state = "idle" /\ agent'.said = agent.said
      PROVE  Replied'
  BY <1>2, <1>5 DEF Replied
<1>6. ASSUME NEW p \in Seq(Instructions), Enter(p) \/ Leave(p) PROVE Replied'
  <2>1. H' = p /\ UNCHANGED <<agent, wire>>
    BY <1>6, Loaded
  <2>2. ASSUME NEW i \in DOMAIN p, p[i].op = "write", p[i].chunk.type = "reply"
        PROVE  Right(p[i].chunk)
    <3>1. Writes(p, {"reply"})
      BY <2>2 DEF Writes
    <3>2. kind \in JsonKinds /\ turn.over /\ p = JsonTextAnswer
      BY <1>6, <3>1, EnterFacts DEF Leave, Fits
    <3>3. p[i].chunk = Reply(turn.finalText)
      BY <2>2, <3>2, JsonTextFacts DEF Whereabouts, TypeOK
    <3>4. p[i].chunk.last = turn.finalText[2]
      BY <3>3, TextFacts
    <3> QED
      BY <3>2, <3>4 DEF Right, Sayings, Whereabouts, CallbackFlow
  <2>3. \A i \in DOMAIN p : p[i].op = "write" => Right(p[i].chunk)
    BY <2>2 DEF Right
  <2>4. \A c : Right(c) => Right(c)'
    BY <1>2, <2>1
  <2> QED
    BY <2>1, <2>3, <2>4 DEF Replied
<1>7. ASSUME NEW p \in Seq(Instructions), Speak(p) \/ Raise(p) PROVE Replied'
  BY <1>5, <1>7, Loaded
<1>8. CASE Rest
  BY <1>5, <1>8, Rests
<1> QED
  BY <1>3, <1>4, <1>6, <1>7, <1>8, Moves DEF Threads

-----------------------------------------------------------------------------
(* The answer as a whole *)

Answering ==
  /\ Whereabouts
  /\ Apart
  /\ LeftFor
  /\ ParkedFirst
  /\ OneBody
  /\ Showing
  /\ Ordered
  /\ DoneComes
  /\ TurnedAway
  /\ Counted
  /\ Matched
  /\ Sayings /\ Telling /\ Told /\ Replied

LEMMA AnsweringAlways == Spec => []Answering
<1>1. Init => Answering
  <2> SUFFICES ASSUME Init PROVE Answering
    OBVIOUS
  <2>1. /\ H = <<>> /\ C = <<>> /\ ~Left /\ Threads # {} /\ writing = {}
        /\ wire = <<>> /\ records = <<>> /\ agent.state = "waiting" /\ ~Troubled
    BY DEF Init, H, C, Left, Threads, Troubled
  <2>2. Whereabouts
    BY InitiallyThere
  <2>3. Apart /\ LeftFor /\ ParkedFirst /\ OneBody
    BY <2>1 DEF Apart, LeftFor, ParkedFirst, OneBody, Writes, ParksFirst, RecordsFirst,
                AtMostOnce, RevealedAreParked
  <2>4. Showing /\ DoneComes /\ TurnedAway
    BY <2>1 DEF Showing, DoneComes, TurnedAway, Shown, OnWire, Writes
  <2>5. Ordered
    BY <2>1 DEF Ordered, WireInOrder, Neat, InOrder, Follows, Clear
  <2>6. Counted /\ Matched
    BY <2>1 DEF Counted, Matched, Succeeds, Finishes, OnWire, Records, Writes
  <2>7. Sayings /\ Told /\ Replied
    BY <2>1 DEF Init, Sayings, Told, Replied, OnWire, Right
  <2>8. Telling
    <3>1. Silent(<<>>) /\ Pieces(<<>>) = 1..0
      BY SilentIs DEF Pieces
    <3>2. agent.said = 0
      BY DEF Init
    <3> QED
      BY <2>1, <3>1, <3>2 DEF Telling, OnTheWay
  <2> QED
    BY <2>2, <2>3, <2>4, <2>5, <2>6, <2>7, <2>8 DEF Answering
<1>2. Answering /\ [Next]_vars => Answering'
  BY TypesKept, HandlerFlowKept, CallbackFlowKept, ApartKept, LeftForKept, ParkedFirstKept,
     OneBodyKept, ShowingKept, OrderedKept, DoneComesKept, TurnedAwayKept, CountedKept, MatchedKept,
     SayingsKept, TellingKept, ToldKept, RepliedKept
  DEF Answering, Whereabouts
<1> QED
  BY <1>1, <1>2, PTL DEF Spec

\* The lock of a tool turn, and the order of things in a plain stream, keep two
\* goroutines from writing the response at the same time, but for the [DONE] of a
\* plain SSE stream whose Send failed after the agent had begun.
THEOREM WriterCorrect == Spec => []OneWriter
BY AnsweringAlways, NeverTogether, PTL DEF Answering

\* The trouble a handler has returned from is on record.
LEMMA TroubleShows == Answering /\ Returned /\ Troubled => Overrun
<1>1. ~Records(<<>>, {"error"})
  BY DEF Records
<1> QED
  BY <1>1 DEF Answering, Whereabouts, HandlerFlow, Returned, Troubled, Blamed, Overrun

\* A handler that neither lost its client nor ran out of time, nor was failed by a
\* call after the agent began, returns when the callback has no more to write.
THEOREM QuietCorrect == Spec => []QuietReturn
<1>1. Answering => QuietReturn
  BY TroubleShows, CallbackQuiet DEF Answering, LeftFor, Left, QuietReturn, Returned, C
<1> QED
  BY <1>1, AnsweringAlways, PTL

\* A client learns a tool_call id only when the session it names is parked.
THEOREM ParkedCorrect == Spec => []RevealedAreParked
BY AnsweringAlways, PTL DEF Answering, ParkedFirst

\* A request for JSON is answered, and once.
THEOREM AnsweredCorrect == Spec => []AnsweredOnce
<1>1. Answering => AnsweredOnce
  <2> SUFFICES ASSUME Answering PROVE AnsweredOnce
    OBVIOUS
  <2>1. Returned => H = <<>> /\ Left
    BY DEF Answering, Whereabouts, HandlerFlow, Returned, Left
  <2>2. H = <<>> => ~Writes(H, ChunkTypes)
    BY DEF Writes
  <2> QED
    BY <2>1, <2>2 DEF Answering, OneBody, AnsweredOnce
<1> QED
  BY <1>1, AnsweringAlways, PTL

\* Nothing but the rest of the ending follows a tool call or a finish_reason.
THEOREM FinalCorrect == Spec => []FinalIsFinal
<1>1. Answering => FinalIsFinal
  BY DEF Answering, Ordered, WireInOrder, Bad, FinalIsFinal, Precedes, Reveals
<1> QED
  BY <1>1, AnsweringAlways, PTL

\* A stream that ends in "stop" carries the agent's text whole, in order and
\* once, however it came; a JSON answer carries the agent's last message.
THEOREM WholeCorrect == Spec => []AnswerWhole
<1>1. Answering => AnswerWhole
  <2> SUFFICES ASSUME Answering, NEW k \in DOMAIN wire
               PROVE  /\ wire[k].type = "reply" => wire[k].last = agent.said
                      /\ wire[k].type = "stop" =>
                           /\ UNION {wire[i].first..wire[i].last : i \in Texts} = 1..agent.said
                           /\ \A i, j \in Texts : i < j => wire[i].last < wire[j].first
    BY DEF AnswerWhole
  <2>1. wire[k].type = "reply" => wire[k].last = agent.said
    BY DEF Answering, Replied, Right
  <2>2. wire[k].type = "stop" =>
          UNION {wire[i].first..wire[i].last : i \in Texts} = 1..agent.said
    BY DEF Answering, Told, OnWire, Pieces, Texts
  <2>3. \A i, j \in Texts : i < j => wire[i].last < wire[j].first
    BY DEF Answering, Told, Texts
  <2> QED
    BY <2>1, <2>2, <2>3
<1> QED
  BY <1>1, AnsweringAlways, PTL

\* An SSE stream that was not refused has its [DONE], unless it is a plain one out
\* of time; one only, but for a plain one whose call failed after the agent began;
\* and at its end, unless the time was out or a call failed.
THEOREM EndingCorrect == Spec => []EndsInDone
<1>1. Answering => EndsInDone
  <2> SUFFICES ASSUME Answering, Returned, ~gone, kind \in SSEKinds,
                      wire # <<Chunk("refusal")>>
               PROVE  /\ (timedOut /\ kind = "chat")
                           \/ \E i \in DOMAIN wire : wire[i].type = "done"
                      /\ (kind = "chat" /\ Overrun) \/ ~Precedes({"done"}, {"done"})
                      /\ ~timedOut /\ ~Overrun => wire[Len(wire)].type = "done"
    BY DEF EndsInDone
  <2>1. /\ H = <<>> /\ Left /\ wire \in Seq(Chunks)
        /\ ~Overrun => ~Troubled
    BY TroubleShows DEF Answering, Whereabouts, TypeOK, HandlerFlow, Returned, Left
  <2>2. ~(timedOut /\ kind = "chat") => \E i \in DOMAIN wire : wire[i].type = "done"
    <3>1. ~Writes(H, {"done"}) /\ ~Writes(H, {"refusal"}) /\ ~OnWire({"refusal"})
      BY <2>1 DEF Answering, TurnedAway, Writes
    <3> QED
      BY <2>1, <3>1 DEF Answering, DoneComes, Shown, OnWire
  <2>3. kind # "chat" \/ ~Overrun => ~Precedes({"done"}, {"done"})
    <3>1. kind # "chat" \/ ~Overrun => Slack # "any" /\ Slack \in {"any", "text", "none"}
      BY <2>1 DEF Slack
    <3> QED
      BY <3>1 DEF Answering, Ordered, WireInOrder, Bad, Precedes
  <2>4. ASSUME ~timedOut, ~Overrun
        PROVE  wire[Len(wire)].type = "done"
    <3>1. Slack = "none"
      BY <2>1, <2>4 DEF Slack
    <3>2. \A i, j \in DOMAIN wire : i < j => wire[i].type # "done"
      BY <3>1 DEF Answering, Ordered, WireInOrder, Bad
    <3>3. PICK i \in DOMAIN wire : wire[i].type = "done"
      BY <2>2, <2>4
    <3>4. Len(wire) \in DOMAIN wire /\ (i < Len(wire) \/ i = Len(wire))
      BY <2>1
    <3> QED
      BY <3>2, <3>3, <3>4
  <2> QED
    BY <2>2, <2>3, <2>4
<1> QED
  BY <1>1, AnsweringAlways, PTL

\* A request is counted once, and as a success when it got a finish_reason; a plain
\* stream when it was not cut short and no call failed after the agent began.
THEOREM CountCorrect == Spec => []CountMatchesAnswer
<1>1. Answering => CountMatchesAnswer
  <2> DEFINE cut == gone \/ timedOut
             spared == kind \in Plain /\ Overrun
  <2> SUFFICES ASSUME Answering, Returned
               PROVE  /\ (kind \in Plain /\ (cut \/ Overrun)) \/ Len(records) = 1
                      /\ cut \/ spared \/ ((records = <<"success">>) <=> Answered)
    BY DEF CountMatchesAnswer, Plain
  <2>1. /\ H = <<>> /\ Left /\ records \in Seq(Statuses)
        /\ agent.state \in {"waiting", "talking", "calling", "idle"}
        /\ ~Overrun => ~Troubled
    BY TroubleShows DEF Answering, Whereabouts, TypeOK, HandlerFlow, Returned, Left, Statuses
  <2>2. /\ \A S : ~Records(<<>>, S) /\ \A T : ~Writes(<<>>, T)
    BY DEF Records, Writes
  <2>3. ASSUME kind \in Plain, ~gone, ~timedOut, ~Overrun
        PROVE  agent.state = "waiting" \/ (agent.state = "idle" /\ C = <<>>)
    <3>1. kind \notin ToolKinds /\ kind \notin JsonKinds
      BY <2>3 DEF Plain, ToolKinds, JsonKinds
    <3> QED
      BY <2>1, <2>3, <3>1 DEF Answering, LeftFor, Whereabouts, CallbackFlow
  <2>4. ASSUME Once(records, <<>>) PROVE Len(records) = 1
    <3>1. records # <<>> /\ Len(records) <= 1
      BY <2>2, <2>4 DEF Once
    <3>2. Len(records) \in Nat /\ Len(records) # 0
      BY <2>1, <3>1, EmptySeq
    <3> QED
      BY <3>1, <3>2
  <2>5. kind \notin Plain \/ (~gone /\ ~timedOut /\ ~Overrun) => Len(records) = 1
    BY <2>1, <2>3, <2>4 DEF Answering, Counted
  <2>6. ASSUME ~gone, ~timedOut, ~spared
        PROVE  records = <<"success">> <=> Answered
    <3>1. ~Records(C, {"success"})
      <4>1. kind \notin Plain => ~Records(C, {"success"})
        BY DEF Answering, Whereabouts, CallbackFlow, Records
      <4>2. C = <<>> => ~Records(C, {"success"})
        BY <2>2
      <4>3. agent.state = "waiting" => C = <<>>
        BY DEF Answering, Whereabouts, CallbackFlow
      <4> QED
        BY <2>3, <2>6, <4>1, <4>2, <4>3
    <3>2. ~Writes(C, Finish)
      <4>1. kind \in Plain => \A i \in DOMAIN C : C[i].op # "write"
        BY <2>1, <2>6, CallbackQuiet DEF Answering, LeftFor
      <4>2. kind \notin Plain => ~Writes(C, Finish)
        BY DEF Answering, Whereabouts, CallbackFlow, Writes, Finish
      <4> QED
        BY <4>1, <4>2 DEF Writes
    <3>3. Succeeds <=> Finishes
      BY <2>1, <2>6 DEF Answering, Matched
    <3>4. Finishes <=> Answered
      BY <2>1, <2>2, <3>2 DEF Finishes, OnWire, Answered, IsFinish
    <3> QED
      BY <2>1, <2>2, <3>1, <3>3, <3>4 DEF Succeeds
  <2> QED
    BY <2>5, <2>6
<1> QED
  BY <1>1, AnsweringAlways, PTL

=============================================================================
