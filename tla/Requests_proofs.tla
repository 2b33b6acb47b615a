--------------------------- MODULE Requests_proofs ---------------------------
(***************************************************************************)
(* Proofs about Requests, for requests of any length: the two forms of a   *)
(* message content, the conversation, and the attachments.  The loops are  *)
(* reasoned about by the places at which their results end up, which       *)
(* Flattening.tla provides: what a message selects or gives is put at a    *)
(* known index, and everything found at an index was put there.            *)
(***************************************************************************)
EXTENDS Requests, Flattening, TLAPS

PartLists == {[json |-> "array", parts |-> ps] : ps \in Seq(Parts)}
Messages == [role : Roles, content : Contents \cup PartLists]

\* The requests that can be written.
Written == messages \in Seq(Messages)

\* A content that can be read has parts or a text, not both.
LEMMA ContentIs ==
  ASSUME NEW c \in Contents \cup PartLists
  PROVE  LET mc == UnmarshalJSON(c) IN
         mc.ok => /\ mc = [ok |-> TRUE, text |-> mc.text, parts |-> mc.parts]
                  /\ mc.parts # <<>> => mc.text = ""
<1>1. CASE \E t \in Pieces : c = [json |-> "string", text |-> t]
  BY <1>1 DEF UnmarshalJSON
<1>2. CASE c = [json |-> "null"]
  BY <1>2 DEF UnmarshalJSON
<1>3. CASE c = [json |-> "number"]
  BY <1>3 DEF UnmarshalJSON
<1>4. CASE \E ps \in Seq(Parts) : c = [json |-> "array", parts |-> ps]
  BY <1>4 DEF UnmarshalJSON
<1>5. <<>> \in Seq(Parts)
  OBVIOUS
<1> QED
  BY <1>1, <1>2, <1>3, <1>4, <1>5 DEF Contents, PartLists

\* A content with parts is written as an array, any other as a string; either
\* is read back as it was.
LEMMA ReadsBack ==
  ASSUME NEW text, NEW parts, parts # <<>> => text = ""
  PROVE  LET mc == [ok |-> TRUE, text |-> text, parts |-> parts]
         IN  UnmarshalJSON(MarshalJSON(mc)) = mc
<1>1. CASE parts # <<>>
  BY <1>1 DEF UnmarshalJSON, MarshalJSON
<1>2. CASE parts = <<>>
  BY <1>2 DEF UnmarshalJSON, MarshalJSON
<1> QED
  BY <1>1, <1>2

\* Replacing the content of a message keeps its role.
LEMMA ContentReplaced ==
  ASSUME NEW R, NEW X, NEW r \in [role : R, content : X], NEW d
  PROVE  [r EXCEPT !.content = d] = [role |-> r.role, content |-> d]
OBVIOUS

LEMMA WrittenStep == Written /\ [Next]_vars => Written'
<1> SUFFICES ASSUME Written, [Next]_vars PROVE Written'
  OBVIOUS
<1>1. CASE AddMessage
  BY <1>1 DEF AddMessage, Written, Messages
<1>2. CASE AddPart
  <2> DEFINE n == Len(messages)
  <2>1. PICK p \in Parts : messages' = [messages EXCEPT ![n].content.parts = Append(@, p)]
    BY <1>2 DEF AddPart
  <2>2. n \in DOMAIN messages /\ messages[n].content.json = "array"
    <3>1. messages # <<>> /\ messages[n].content.json = "array"
      BY <1>2 DEF AddPart
    <3>2. \A s \in Seq(Messages) : s # <<>> => Len(s) \in DOMAIN s
      OBVIOUS
    <3> QED
      BY <3>1, <3>2 DEF Written
  <2>3. messages[n] \in Messages
    BY <2>2 DEF Written
  <2>4. PICK ps \in Seq(Parts) : messages[n].content = [json |-> "array", parts |-> ps]
    <3>1. CASE messages[n].content \in PartLists
      BY <3>1 DEF PartLists
    <3>2. CASE messages[n].content \in Contents
      <4>1. messages[n].content = [json |-> "array", parts |-> <<>>]
        BY <2>2, <3>2 DEF Contents
      <4>2. <<>> \in Seq(Parts)
        OBVIOUS
      <4> QED
        BY <4>1, <4>2
    <3> QED
      BY <2>3, <3>1, <3>2 DEF Messages
  <2> DEFINE m == [role |-> messages[n].role,
                   content |-> [json |-> "array", parts |-> Append(ps, p)]]
  <2>5. m \in Messages
    <3>1. Append(ps, p) \in Seq(Parts)
      OBVIOUS
    <3>2. [json |-> "array", parts |-> Append(ps, p)] \in PartLists
      BY <3>1 DEF PartLists
    <3> QED
      BY <2>3, <3>2 DEF Messages
  <2>6. messages' = [messages EXCEPT ![n] = m]
    <3>1. [messages[n] EXCEPT !.content.parts = Append(@, p)] = m
      <4> DEFINE r == messages[n]
      <4>1. [r EXCEPT !.content.parts = Append(@, p)]
              = [r EXCEPT !.content = [r.content EXCEPT !.parts = Append(r.content.parts, p)]]
        OBVIOUS
      <4>2. [r.content EXCEPT !.parts = Append(r.content.parts, p)]
              = [json |-> "array", parts |-> Append(ps, p)]
        BY <2>4
      <4> HIDE DEF r
      <4>3. [r EXCEPT !.content.parts = Append(@, p)]
              = [r EXCEPT !.content = [json |-> "array", parts |-> Append(ps, p)]]
        BY <4>1, <4>2
      <4>4. [r EXCEPT !.content = [json |-> "array", parts |-> Append(ps, p)]]
              = [role |-> r.role, content |-> [json |-> "array", parts |-> Append(ps, p)]]
        BY <2>3, ContentReplaced DEF Messages, r
      <4>5. [r EXCEPT !.content.parts = Append(@, p)]
              = [role |-> r.role, content |-> [json |-> "array", parts |-> Append(ps, p)]]
        BY <4>3, <4>4
      <4> QED
        BY <4>5 DEF r
    <3>2. messages' = [messages EXCEPT ![n] = [messages[n] EXCEPT !.content.parts = Append(@, p)]]
      BY <2>1, <2>2
    <3> QED
      BY <3>1, <3>2
  <2> HIDE DEF m, n
  <2> QED
    BY <2>2, <2>5, <2>6 DEF Written
<1>3. CASE Handle \/ UNCHANGED vars
  BY <1>3 DEF Handle, vars, Written
<1> QED
  BY <1>1, <1>2, <1>3 DEF Next

\* Whatever content a client sends and the program can read, it writes back as
\* a content that is read the same.
THEOREM RoundTripCorrect == Spec => []ContentRoundTrips
<1>1. Init => Written
  BY DEF Init, Written
<1>2. Written => ContentRoundTrips
  <2> SUFFICES ASSUME Written, NEW i \in DOMAIN messages,
                      UnmarshalJSON(messages[i].content).ok
               PROVE  LET mc == UnmarshalJSON(messages[i].content)
                      IN  UnmarshalJSON(MarshalJSON(mc)) = mc
    BY DEF ContentRoundTrips
  <2> DEFINE mc == UnmarshalJSON(messages[i].content)
  <2>1. messages[i].content \in Contents \cup PartLists
    <3>1. messages[i] \in Messages
      BY DEF Written
    <3> QED
      BY <3>1 DEF Messages
  <2>2. /\ mc = [ok |-> TRUE, text |-> mc.text, parts |-> mc.parts]
        /\ mc.parts # <<>> => mc.text = ""
    BY <2>1, ContentIs
  <2> HIDE DEF mc
  <2>3. UnmarshalJSON(MarshalJSON(mc)) = mc
    BY <2>2, ReadsBack
  <2> QED
    BY <2>3 DEF mc
<1> QED
  BY <1>1, <1>2, WrittenStep, PTL DEF Spec

-----------------------------------------------------------------------------
(* The outcome of a request, once there is one, is what Handled says.      *)

IInv ==
  /\ Written
  /\ \/ envelope = {} /\ outcome = Waiting
     \/ \E e \in Envelopes : envelope = {e} /\ outcome = Handled(e, messages)

\* The four outcomes of handling, told apart by status and destination.
LEMMA HandledIs ==
  ASSUME NEW e \in Envelopes, NEW ms
  PROVE  /\ Handled(e, ms) = IF ~e.post THEN NotAllowed
                            ELSE IF ~Readable(e, ms) THEN Refused
                            ELSE IF e.tools /\ hasToolResults(ms) THEN Resumed
                            ELSE Started(ms)
         /\ Handled(e, ms).status \in {200, 400, 405}
<1>1. Handled(e, ms) = IF ~e.post THEN NotAllowed
                       ELSE IF ~Readable(e, ms) THEN Refused
                       ELSE IF e.tools /\ hasToolResults(ms) THEN Resumed
                       ELSE Started(ms)
  BY DEF Handled
<1>2. NotAllowed.status = 405 /\ Refused.status = 400 /\ Resumed.status = 200
  BY DEF NotAllowed, Refused, Resumed
<1>3. Started(ms).status \in {200, 400}
  BY DEF Started, Refused
<1> QED
  BY <1>1, <1>2, <1>3

LEMMA IInvHolds == Spec => []IInv
<1>1. Init => IInv
  BY DEF Init, IInv, Written
<1>2. IInv /\ [Next]_vars => IInv'
  <2> SUFFICES ASSUME IInv, [Next]_vars PROVE IInv'
    OBVIOUS
  <2>1. Written'
    BY WrittenStep DEF IInv
  <2>2. CASE AddMessage \/ AddPart
    <3>1. outcome = Waiting /\ UNCHANGED <<envelope, outcome>>
      BY <2>2 DEF AddMessage, AddPart
    <3>2. envelope = {}
      BY <3>1, HandledIs DEF IInv, Waiting
    <3> QED
      BY <2>1, <3>1, <3>2 DEF IInv
  <2>3. CASE Handle
    BY <2>1, <2>3 DEF Handle, IInv
  <2>4. CASE UNCHANGED vars
    BY <2>1, <2>4 DEF vars, IInv
  <2> QED
    BY <2>2, <2>3, <2>4 DEF Next
<1> QED
  BY <1>1, <1>2, PTL DEF Spec

\* What a content is, by the form the client sent.
LEMMA ContentForms ==
  ASSUME NEW c \in Contents \cup PartLists
  PROVE  /\ UnmarshalJSON(c).ok <=> c.json # "number"
         /\ UnmarshalJSON(c).parts = IF c.json = "array" THEN c.parts ELSE <<>>
         /\ UnmarshalJSON(c).parts \in Seq(Parts)
         /\ UnmarshalJSON(c).text = IF c.json = "string" THEN c.text ELSE ""
<1> DEFINE mc == UnmarshalJSON(c)
           Read(text, parts) == [ok |-> TRUE, text |-> text, parts |-> parts]
<1>0. <<>> \in Seq(Parts)
  OBVIOUS
<1>1. CASE \E t \in Pieces : c = [json |-> "string", text |-> t]
  <2>1. mc = Read(c.text, <<>>) /\ c.json = "string"
    BY <1>1 DEF UnmarshalJSON
  <2> HIDE DEF mc
  <2>2. mc.ok /\ mc.text = c.text /\ mc.parts = <<>>
    BY <2>1
  <2> QED
    BY <1>0, <2>1, <2>2 DEF mc
<1>2. CASE c = [json |-> "null"]
  <2>1. mc = Read("", <<>>) /\ c.json = "null"
    BY <1>2 DEF UnmarshalJSON
  <2> HIDE DEF mc
  <2>2. mc.ok /\ mc.text = "" /\ mc.parts = <<>>
    BY <2>1
  <2> QED
    BY <1>0, <2>1, <2>2 DEF mc
<1>3. CASE c = [json |-> "number"]
  <2>1. mc = [ok |-> FALSE, text |-> "", parts |-> <<>>] /\ c.json = "number"
    BY <1>3 DEF UnmarshalJSON
  <2> HIDE DEF mc
  <2>2. ~mc.ok /\ mc.text = "" /\ mc.parts = <<>>
    BY <2>1
  <2> QED
    BY <1>0, <2>1, <2>2 DEF mc
<1>4. CASE \E ps \in Seq(Parts) : c = [json |-> "array", parts |-> ps]
  <2>1. mc = Read("", c.parts) /\ c.json = "array" /\ c.parts \in Seq(Parts)
    BY <1>4 DEF UnmarshalJSON
  <2> HIDE DEF mc
  <2>2. mc.ok /\ mc.text = "" /\ mc.parts = c.parts
    BY <2>1
  <2> QED
    BY <2>1, <2>2 DEF mc
<1> QED
  BY <1>0, <1>1, <1>2, <1>3, <1>4 DEF Contents, PartLists

LEMMA MessageForms ==
  ASSUME Written, NEW i \in DOMAIN messages
  PROVE  /\ messages[i] \in Messages
         /\ Content(messages[i]).ok <=> messages[i].content.json # "number"
         /\ Content(messages[i]).parts = PartsOf(i)
         /\ PartsOf(i) \in Seq(Parts)
         /\ Content(messages[i]).text = IF messages[i].content.json = "string"
                                        THEN messages[i].content.text ELSE ""
<1>1. messages[i] \in Messages
  BY DEF Written
<1>2. messages[i].content \in Contents \cup PartLists
  BY <1>1 DEF Messages
<1> QED
  BY <1>1, <1>2, ContentForms DEF Content, PartsOf

-----------------------------------------------------------------------------
(* The loops that select, as selections by index.                          *)

TextsAt(ps) == {k \in DOMAIN ps : ps[k].type = "text" /\ ps[k].text # ""}
ImagesAt(ps) == {k \in DOMAIN ps : ps[k].type = "image_url" /\ ps[k].given}
FilesAt(ps) == {k \in DOMAIN ps : ps[k].type = "file" /\ ps[k].given}
SystemAt(ms) == {i \in DOMAIN ms : ms[i].role = "system"}

LEMMA Selections ==
  /\ \A mc : ImageParts(mc) = Selected(mc.parts, ImagesAt(mc.parts))
  /\ \A mc : FileParts(mc) = Selected(mc.parts, FilesAt(mc.parts))
  /\ \A ms : NonSystem(ms) = Selected(ms, DOMAIN ms \ SystemAt(ms))
<1>1. ASSUME NEW mc PROVE ImageParts(mc) = Selected(mc.parts, ImagesAt(mc.parts))
  <2>1. [i \in DOMAIN mc.parts |-> IF mc.parts[i].type = "image_url" /\ mc.parts[i].given
                                   THEN <<mc.parts[i]>> ELSE <<>>]
          = Singles(mc.parts, ImagesAt(mc.parts))
    BY DEF Singles, ImagesAt
  <2> QED
    BY <2>1, Zenon DEF ImageParts, Only, Each, Selected
<1>2. ASSUME NEW mc PROVE FileParts(mc) = Selected(mc.parts, FilesAt(mc.parts))
  <2>1. [i \in DOMAIN mc.parts |-> IF mc.parts[i].type = "file" /\ mc.parts[i].given
                                   THEN <<mc.parts[i]>> ELSE <<>>]
          = Singles(mc.parts, FilesAt(mc.parts))
    BY DEF Singles, FilesAt
  <2> QED
    BY <2>1, Zenon DEF FileParts, Only, Each, Selected
<1>3. ASSUME NEW ms PROVE NonSystem(ms) = Selected(ms, DOMAIN ms \ SystemAt(ms))
  <2>1. [i \in DOMAIN ms |-> IF ms[i].role # "system" THEN <<ms[i]>> ELSE <<>>]
          = Singles(ms, DOMAIN ms \ SystemAt(ms))
    BY DEF Singles, SystemAt
  <2> QED
    BY <2>1, Zenon DEF NonSystem, Only, Each, Selected
<1> QED
  BY <1>1, <1>2, <1>3

LEMMA SelectedTexts ==
  ASSUME NEW mc, mc.parts # <<>>
  PROVE  LET sel == Selected(mc.parts, TextsAt(mc.parts))
         IN  TextContent(mc) = [n \in DOMAIN sel |-> sel[n].text]
<1>1. [i \in DOMAIN mc.parts |-> IF mc.parts[i].type = "text" /\ mc.parts[i].text # ""
                                 THEN <<mc.parts[i]>> ELSE <<>>]
        = Singles(mc.parts, TextsAt(mc.parts))
  BY DEF Singles, TextsAt
<1> QED
  BY <1>1, Zenon DEF TextContent, Only, Each, Selected

LEMMA SelectedSystem ==
  ASSUME NEW ms
  PROVE  LET sel == Selected(ms, SystemAt(ms))
         IN  extractSystemMessage(ms) = [n \in DOMAIN sel |-> TextContent(Content(sel[n]))]
<1>1. [i \in DOMAIN ms |-> IF ms[i].role = "system" THEN <<ms[i]>> ELSE <<>>]
        = Singles(ms, SystemAt(ms))
  BY DEF Singles, SystemAt
<1> QED
  BY <1>1, Zenon DEF extractSystemMessage, Only, Each, Selected

-----------------------------------------------------------------------------
(* The conversation                                                        *)

LEMMA PartFields ==
  \A type, text, given, byId, uris :
    LET p == Part(type, text, given, byId, uris)
    IN  p.type = type /\ p.text = text /\ p.given = given /\ p.byId = byId /\ p.uri = uris
BY DEF Part

LEMMA PartForms ==
  ASSUME NEW p \in Parts
  PROVE  \/ \E t \in Pieces : p = TextPart(t)
         \/ \E u \in Uris : p = Part("image_url", "", TRUE, FALSE, {u})
         \/ \E u \in Uris : p = Part("file", "", TRUE, FALSE, {u})
         \/ \E type \in {"image_url", "file", "input_audio"} :
              p = Part(type, "", FALSE, FALSE, {})
         \/ \E byId \in BOOLEAN : p = Part("file", "", TRUE, byId, {})
BY DEF Parts

LEMMA TextParts ==
  ASSUME NEW p \in Parts
  PROVE  p \in {TextPart("a"), TextPart("b")} <=> p.type = "text" /\ p.text # ""
<1>1. \A t : TextPart(t).type = "text" /\ TextPart(t).text = t
  BY DEF TextPart, Part
<1>2. CASE \E t \in Pieces : p = TextPart(t)
  <2>1. PICK t \in Pieces : p = TextPart(t)
    BY <1>2
  <2>2. t = "" \/ t = "a" \/ t = "b"
    BY DEF Pieces
  <2>3. p.type = "text" /\ p.text = t
    BY <1>1, <2>1
  <2>4. TextPart("a").text = "a" /\ TextPart("b").text = "b"
    BY <1>1
  <2> QED
    BY <2>1, <2>2, <2>3, <2>4
<1>3. CASE ~ \E t \in Pieces : p = TextPart(t)
  <2>1. p.type \in {"image_url", "file", "input_audio"}
    <3>1. ASSUME NEW u \in Uris, p = Part("image_url", "", TRUE, FALSE, {u})
          PROVE  p.type = "image_url"
      BY <3>1 DEF Part
    <3>2. ASSUME NEW u \in Uris, p = Part("file", "", TRUE, FALSE, {u})
          PROVE  p.type = "file"
      BY <3>2 DEF Part
    <3>3. ASSUME NEW type, p = Part(type, "", FALSE, FALSE, {})
          PROVE  p.type = type
      BY <3>3 DEF Part
    <3>4. ASSUME NEW byId \in BOOLEAN, p = Part("file", "", TRUE, byId, {})
          PROVE  p.type = "file"
      BY <3>4 DEF Part
    <3> QED
      BY <1>3, <3>1, <3>2, <3>3, <3>4, PartForms
  <2> QED
    BY <1>1, <2>1
<1> QED
  BY <1>2, <1>3

\* What TextContent returns is what the message says.
LEMMA SaysIs ==
  ASSUME Written, NEW i \in DOMAIN messages
  PROVE  TextContent(Content(messages[i])) = Says(i)
<1> DEFINE m == messages[i]
           mc == Content(m)
           ps == PartsOf(i)
           texts == {k \in DOMAIN ps : ps[k] \in {TextPart("a"), TextPart("b")}}
           Spoken == [n \in 1..Cardinality(texts) |->
                        ps[CHOOSE k \in texts : Cardinality({j \in texts : j <= k}) = n].text]
<1>0. ps \in Seq(Parts)
  BY MessageForms
<1>1. /\ mc.parts = ps
      /\ mc.text = IF m.content.json = "string" THEN m.content.text ELSE ""
  BY MessageForms
<1>2. Says(i) = IF m.content.json = "string" /\ m.content.text # "" THEN <<m.content.text>>
                ELSE Spoken
  BY DEF Says
<1>3. m.content.json = "string" => ps = <<>>
  BY DEF PartsOf
<1> HIDE DEF mc, m, ps
<1>4. texts = TextsAt(ps)
  <2>1. \A k \in DOMAIN ps : ps[k] \in Parts
    BY <1>0
  <2>2. \A k \in DOMAIN ps : ps[k] \in {TextPart("a"), TextPart("b")}
                               <=> ps[k].type = "text" /\ ps[k].text # ""
    BY <2>1, TextParts
  <2> QED
    BY <2>2 DEF TextsAt
<1> HIDE DEF texts
<1>5. CASE ps = <<>>
  <2>1. texts = {}
    BY <1>5 DEF texts
  <2>2. Cardinality(texts) = 0
    BY <2>1, FS_EmptySet
  <2>3. DOMAIN Spoken = {} /\ Spoken = [x \in DOMAIN Spoken |-> Spoken[x]]
    BY <2>2
  <2>4. TextContent(mc) = IF mc.text = "" THEN <<>> ELSE <<mc.text>>
    BY <1>1, <1>5 DEF TextContent
  <2> HIDE DEF Spoken
  <2>5. Spoken = <<>>
    BY <2>3
  <2>6. TextContent(mc) = Says(i)
    BY <1>1, <1>2, <2>4, <2>5
  <2> QED
    BY <2>6 DEF mc, m
<1>6. CASE ps # <<>>
  <2> DEFINE sel == Selected(ps, texts)
             Ranked == [n \in 1..Cardinality(texts) |->
                          ps[CHOOSE k \in texts : Rank(k, texts) = n].text]
  <2>1. TextContent(mc) = [n \in DOMAIN sel |-> sel[n].text]
    BY <1>1, <1>4, <1>6, SelectedTexts
  <2>2. Spoken = Ranked
    BY Zenon DEF Rank
  <2>3. [n \in DOMAIN sel |-> sel[n].text] = Ranked
    <3>1. texts \in SUBSET DOMAIN ps
      BY DEF texts
    <3>2. sel \in Seq(Parts) /\ Len(sel) = Cardinality(texts)
      BY <1>0, <3>1, SelectRanks
    <3>3. \A n \in 1..Cardinality(texts) :
            sel[n] = ps[CHOOSE k \in texts : Rank(k, texts) = n]
      BY <1>0, <3>1, SelectedAt
    <3> HIDE DEF sel
    <3>4. DOMAIN sel = 1..Cardinality(texts)
      BY <3>2
    <3> QED
      BY <3>3, <3>4
  <2> HIDE DEF Spoken, Ranked, sel
  <2>4. TextContent(mc) = Says(i)
    BY <1>2, <1>3, <1>6, <2>1, <2>2, <2>3
  <2> QED
    BY <2>4 DEF mc, m
<1> QED
  BY <1>5, <1>6

\* What an accepted request leads to.
LEMMA AcceptedIs ==
  ASSUME IInv, Accepted
  PROVE  /\ outcome.prompt = buildPrompt(messages)
         /\ outcome.system = extractSystemMessage(messages)
         /\ outcome.attachments = extractAttachments(messages)
         /\ \A i \in DOMAIN extractAttachments(messages) :
              extractAttachments(messages)[i].kind # "error"
<1> DEFINE found == extractAttachments(messages)
           Bad == \E i \in DOMAIN found : found[i].kind = "error"
<1>1. PICK e \in Envelopes : outcome = Handled(e, messages)
  BY DEF IInv, Accepted, Waiting
<1>2. outcome # NotAllowed /\ outcome # Refused /\ outcome # Resumed
  BY DEF Accepted, NotAllowed, Refused, Resumed
<1>3. outcome = Started(messages)
  BY <1>1, <1>2, HandledIs
<1>4. outcome = IF Bad THEN Refused
                ELSE [status |-> 200, to |-> "new", prompt |-> buildPrompt(messages),
                      system |-> extractSystemMessage(messages), attachments |-> found]
  BY <1>3 DEF Started
<1>5. ~Bad
  <2> HIDE DEF Bad, found
  <2> QED
    BY <1>2, <1>4
<1> QED
  BY <1>4, <1>5

\* Whatever the request, what an accepted one sends is the whole conversation.
LEMMA ConversationHolds == IInv => ConversationKept
<1> SUFFICES ASSUME IInv, Accepted PROVE ConversationKept
  BY DEF ConversationKept
<1> DEFINE system == {i \in DOMAIN messages : messages[i].role = "system"}
           others == DOMAIN messages \ system
           rank(i, S) == Cardinality({j \in S : j <= i})
           spoken == Selected(messages, system)
           said == Selected(messages, others)
<1>1. Written /\ messages \in Seq(Messages)
  BY DEF IInv, Written
<1>2. system = SystemAt(messages) /\ others = DOMAIN messages \ SystemAt(messages)
  BY DEF SystemAt
<1>3. system \in SUBSET DOMAIN messages /\ others \in SUBSET DOMAIN messages
  OBVIOUS
<1>4. \A i, S : rank(i, S) = Rank(i, S)
  BY DEF Rank
<1> HIDE DEF rank, system, others
<1>5. /\ spoken \in Seq(Messages) /\ Len(spoken) = Cardinality(system)
      /\ \A i \in system : rank(i, system) \in 1..Len(spoken)
                           /\ spoken[rank(i, system)] = messages[i]
  BY <1>1, <1>3, <1>4, SelectRanks
<1>6. /\ said \in Seq(Messages) /\ Len(said) = Cardinality(others)
      /\ \A i \in others : rank(i, others) \in 1..Len(said)
                           /\ said[rank(i, others)] = messages[i]
  BY <1>1, <1>3, <1>4, SelectRanks
<1>7. outcome.system = [n \in DOMAIN spoken |-> TextContent(Content(spoken[n]))]
  BY <1>2, AcceptedIs, SelectedSystem
<1>8. NonSystem(messages) = said
  BY <1>2, Selections
<1>9. outcome.prompt = IF Len(said) = 1
                       THEN <<[role |-> "none", text |-> TextContent(Content(said[1]))]>>
                       ELSE [i \in DOMAIN said |-> Tagged(said[i])]
  BY <1>8, AcceptedIs DEF buildPrompt
<1>10. DOMAIN spoken = 1..Len(spoken) /\ DOMAIN said = 1..Len(said)
       /\ Len(said) \in Nat /\ Len(spoken) \in Nat
  BY <1>5, <1>6
<1> HIDE DEF spoken, said
<1>11. Len(outcome.system) = Cardinality(system)
  BY <1>5, <1>7, <1>10
<1>12. ASSUME NEW i \in system PROVE outcome.system[rank(i, system)] = Says(i)
  <2>1. i \in DOMAIN messages
    BY <1>3
  <2>2. outcome.system[rank(i, system)] = TextContent(Content(messages[i]))
    BY <1>5, <1>7, <1>10
  <2> QED
    BY <1>1, <2>1, <2>2, SaysIs
<1>13. Len(outcome.prompt) = Cardinality(others)
  <2>1. CASE Len(said) = 1
    <3> DEFINE it == [role |-> "none", text |-> TextContent(Content(said[1]))]
    <3>1. outcome.prompt = <<it>>
      BY <1>9, <2>1
    <3> HIDE DEF it
    <3> QED
      BY <1>6, <2>1, <3>1
  <2>2. CASE Len(said) # 1
    BY <1>6, <1>9, <1>10, <2>2
  <2> QED
    BY <2>1, <2>2
<1>14. ASSUME NEW i \in others
       PROVE  outcome.prompt[rank(i, others)]
                = [role |-> IF Cardinality(others) = 1 THEN "none" ELSE messages[i].role,
                   text |-> Says(i)]
  <2>1. i \in DOMAIN messages
    BY <1>3
  <2>2. Says(i) = TextContent(Content(messages[i]))
    BY <1>1, <2>1, SaysIs
  <2> DEFINE r == rank(i, others)
  <2>3. r \in 1..Len(said) /\ said[r] = messages[i]
    BY <1>6
  <2> HIDE DEF r
  <2>4. CASE Len(said) = 1
    <3> DEFINE it == [role |-> "none", text |-> TextContent(Content(said[1]))]
    <3>1. outcome.prompt = <<it>> /\ r = 1
      BY <1>9, <2>3, <2>4
    <3>2. it = [role |-> "none", text |-> Says(i)]
      BY <2>2, <2>3, <3>1
    <3> HIDE DEF it
    <3>3. outcome.prompt[r] = it
      BY <3>1
    <3> QED
      BY <1>6, <2>4, <3>2, <3>3 DEF r
  <2>5. CASE Len(said) # 1
    <3>1. outcome.prompt[r] = Tagged(messages[i])
      BY <1>9, <1>10, <2>3, <2>5
    <3> QED
      BY <1>6, <2>2, <2>5, <3>1 DEF Tagged, r
  <2> QED
    BY <2>4, <2>5
<1> QED
  BY <1>11, <1>12, <1>13, <1>14, Zenon DEF ConversationKept, rank, system, others

\* Every message of an accepted request reaches the session, in order and once.
THEOREM ConversationCorrect == Spec => []ConversationKept
BY IInvHolds, ConversationHolds, PTL

-----------------------------------------------------------------------------
(* Attachments: what one part gives                                        *)

Blobs == [kind : {"error", "image", "file"}, mime : {"", "image", "pdf"}]

\* What extractAttachments takes from a part.
Gives(p) == IF p.type = "image_url" /\ p.given THEN imageAttachment(p)
            ELSE IF IsFile(p) THEN fileAttachment(p) ELSE <<>>

LEMMA UriFacts ==
  ASSUME NEW u \in Uris
  PROVE  /\ u.mime \in {"", "image", "pdf"}
         /\ u.inline => u.payload \in {"padded", "raw", "broken"}
<1>1. \/ u = Link
      \/ \E mime \in {"", "image", "pdf"}, enc \in {"base64", "charset", "none"},
            payload \in {"padded", "raw", "broken"} : u = Uri(mime, enc, payload)
  BY DEF Uris
<1>2. ASSUME NEW mime, NEW enc, NEW payload, u = Uri(mime, enc, payload)
      PROVE  u.mime = mime /\ u.payload = payload
  BY <1>2 DEF Uri
<1>3. Link.mime = "" /\ ~Link.inline
  BY DEF Link
<1>4. CASE u = Link
  <2>1. u.mime = "" /\ ~u.inline
    BY <1>3, <1>4, Zenon
  <2> QED
    BY <2>1
<1>5. CASE u # Link
  <2>1. PICK mime \in {"", "image", "pdf"}, enc \in {"base64", "charset", "none"},
             payload \in {"padded", "raw", "broken"} : u = Uri(mime, enc, payload)
    BY <1>1, <1>5
  <2>2. u.mime = mime /\ u.payload = payload
    BY <1>2, <2>1
  <2> QED
    BY <2>2
<1> QED
  BY <1>4, <1>5

LEMMA UriParsed ==
  ASSUME NEW u \in Uris, u.inline
  PROVE  /\ parseDataURI(u) = IF Usable(u) THEN {u.mime} ELSE {}
         /\ parseDataURI(u) = {"image"} <=> Usable(u) /\ u.mime = "image"
         /\ parseDataURI(u) \in {{}, {""}} <=> ~(Usable(u) /\ u.mime # "")
<1>1. u.payload \in {"padded", "raw"} <=> u.payload # "broken"
  BY UriFacts
<1>2. parseDataURI(u) = IF Usable(u) THEN {u.mime} ELSE {}
  BY <1>1 DEF parseDataURI, Usable
<1> QED
  BY <1>2

LEMMA SingleFacts ==
  ASSUME NEW S, NEW r \in S
  PROVE  <<r>> \in Seq(S) /\ Len(<<r>>) = 1 /\ <<r>>[1] = r
OBVIOUS

LEMMA BlobFacts ==
  ASSUME NEW kind \in {"error", "image", "file"}, NEW mime \in {"", "image", "pdf"},
         NEW b, b = <<[kind |-> kind, mime |-> mime]>>
  PROVE  b \in Seq(Blobs) /\ Len(b) = 1 /\ b[1].kind = kind /\ b[1].mime = mime
<1> DEFINE r == [kind |-> kind, mime |-> mime]
<1>1. r \in Blobs
  BY DEF Blobs
<1>2. r.kind = kind /\ r.mime = mime
  OBVIOUS
<1>3. b = <<r>>
  OBVIOUS
<1> HIDE DEF r
<1>4. b \in Seq(Blobs) /\ Len(b) = 1 /\ b[1] = r
  BY <1>1, <1>3, SingleFacts, Zenon
<1> QED
  BY <1>2, <1>4

LEMMA FailsFacts == Fails \in Seq(Blobs) /\ Len(Fails) = 1 /\ Fails[1].kind = "error"
BY BlobFacts DEF Fails

LEMMA NoBlob == <<>> \in Seq(Blobs) /\ Len(<<>>) = 0
OBVIOUS

\* A part gives at most one blob; an error exactly if it is bad, otherwise its
\* data exactly if that is inline.
GivesRight(p) ==
  /\ Gives(p) \in Seq(Blobs) /\ Len(Gives(p)) \in {0, 1}
  /\ BadPart(p) <=> Len(Gives(p)) = 1 /\ Gives(p)[1].kind = "error"
  /\ ~BadPart(p) => (Len(Gives(p)) = 1 <=> Inline(p))
  /\ ~BadPart(p) /\ Inline(p) =>
       /\ Gives(p)[1].kind = IF IsFile(p) THEN "file" ELSE "image"
       /\ \E u \in p.uri : Gives(p)[1].mime = u.mime

LEMMA ImageGives ==
  ASSUME NEW p, NEW u \in Uris, p.type = "image_url", p.given, p.uri = {u}
  PROVE  GivesRight(p)
<1>1. ~IsFile(p) /\ (Inline(p) <=> u.inline)
  BY DEF IsFile, Inline
<1>2. Gives(p) = IF ~u.inline THEN <<>>
                 ELSE IF parseDataURI(u) = {"image"} THEN Blob("image", u.mime) ELSE Fails
  BY DEF Gives, imageAttachment
<1>3. BadPart(p) <=> u.inline /\ ~(Usable(u) /\ u.mime = "image")
  BY <1>1 DEF BadPart
<1>4. CASE ~u.inline
  <2> DEFINE g == Gives(p)
  <2>1. g = <<>>
    BY <1>2, <1>4
  <2>2. g \in Seq(Blobs) /\ Len(g) = 0
    BY <2>1, NoBlob
  <2> HIDE DEF g
  <2> QED
    BY <1>1, <1>3, <1>4, <2>2 DEF GivesRight, g
<1>5. CASE u.inline /\ Usable(u) /\ u.mime = "image"
  <2>1. Gives(p) = Blob("image", u.mime)
    BY <1>2, <1>5, UriParsed
  <2>2. "image" \in {"image", "file"} /\ u.mime \in {"", "image", "pdf"}
    BY <1>5
  <2>3. /\ Gives(p) \in Seq(Blobs) /\ Len(Gives(p)) = 1
        /\ Gives(p)[1].kind = "image" /\ Gives(p)[1].mime = u.mime
    <3> DEFINE b == Blob("image", u.mime)
    <3>1. b \in Seq(Blobs) /\ Len(b) = 1 /\ b[1].kind = "image" /\ b[1].mime = u.mime
      BY <2>2, BlobFacts DEF Blob
    <3> HIDE DEF b
    <3> QED
      BY <2>1, <3>1 DEF b
  <2> QED
    BY <1>1, <1>3, <1>5, <2>3 DEF GivesRight
<1>6. CASE u.inline /\ ~(Usable(u) /\ u.mime = "image")
  <2>1. Gives(p) = Fails
    BY <1>2, <1>6, UriParsed
  <2> QED
    BY <1>3, <1>6, <2>1, FailsFacts DEF GivesRight
<1> QED
  BY <1>4, <1>5, <1>6

LEMMA FileGives ==
  ASSUME NEW p, NEW u \in Uris, p.type = "file", p.given, ~p.byId, p.uri = {u}
  PROVE  GivesRight(p)
<1>1. IsFile(p) /\ (Inline(p) <=> u.inline)
  BY DEF IsFile, Inline
<1>2. Gives(p) = IF ~u.inline \/ parseDataURI(u) \in {{}, {""}} THEN Fails
                 ELSE Blob("file", u.mime)
  <2>1. (CHOOSE v \in p.uri : TRUE) = u /\ ~(p.byId \/ p.uri = {})
    OBVIOUS
  <2>2. fileAttachment(p) = IF ~u.inline \/ parseDataURI(u) \in {{}, {""}} THEN Fails
                            ELSE Blob("file", u.mime)
    BY <2>1, Zenon DEF fileAttachment
  <2>3. Gives(p) = fileAttachment(p)
    BY <1>1 DEF Gives
  <2> QED
    BY <2>2, <2>3, Zenon
<1>3. BadPart(p) <=> ~(Usable(u) /\ u.mime # "")
  BY <1>1 DEF BadPart
<1>4. CASE Usable(u) /\ u.mime # ""
  <2>1. u.inline
    BY <1>4 DEF Usable
  <2>2. Gives(p) = Blob("file", u.mime)
    BY <1>2, <1>4, <2>1, UriParsed
  <2>3. "file" \in {"image", "file"} /\ u.mime \in {"", "image", "pdf"}
    BY UriFacts
  <2>4. /\ Gives(p) \in Seq(Blobs) /\ Len(Gives(p)) = 1
        /\ Gives(p)[1].kind = "file" /\ Gives(p)[1].mime = u.mime
    <3> DEFINE b == Blob("file", u.mime)
    <3>1. b \in Seq(Blobs) /\ Len(b) = 1 /\ b[1].kind = "file" /\ b[1].mime = u.mime
      BY <2>3, BlobFacts DEF Blob
    <3> HIDE DEF b
    <3> QED
      BY <2>2, <3>1 DEF b
  <2> QED
    BY <1>1, <1>3, <1>4, <2>1, <2>4 DEF GivesRight
<1>5. CASE ~(Usable(u) /\ u.mime # "")
  <2>1. Gives(p) = Fails
    BY <1>2, <1>5, UriParsed
  <2> QED
    BY <1>3, <1>5, <2>1, FailsFacts DEF GivesRight
<1> QED
  BY <1>4, <1>5

LEMMA PartGives ==
  ASSUME NEW p \in Parts
  PROVE  GivesRight(p)
<1>1. CASE (\E t \in Pieces : p = TextPart(t))
             \/ \E type \in {"image_url", "file", "input_audio"} :
                  p = Part(type, "", FALSE, FALSE, {})
  <2>1. p.uri = {} /\ (p.type = "text" \/ ~p.given)
    <3>1. ASSUME NEW t, p = TextPart(t) PROVE p.uri = {} /\ p.type = "text"
      BY <3>1 DEF TextPart, Part
    <3>2. ASSUME NEW type, p = Part(type, "", FALSE, FALSE, {}) PROVE p.uri = {} /\ ~p.given
      BY <3>2 DEF Part
    <3> QED
      BY <1>1, <3>1, <3>2
  <2>2. ~IsFile(p) /\ ~Inline(p) /\ ~BadPart(p)
    BY <2>1 DEF IsFile, Inline, BadPart
  <2> DEFINE g == Gives(p)
  <2>3. g = <<>>
    BY <2>1, <2>2 DEF Gives
  <2>4. g \in Seq(Blobs) /\ Len(g) = 0
    BY <2>3, NoBlob
  <2> HIDE DEF g
  <2> QED
    BY <2>2, <2>4 DEF GivesRight, g
<1>2. CASE \E u \in Uris : p = Part("image_url", "", TRUE, FALSE, {u})
  <2>1. PICK u \in Uris : p = Part("image_url", "", TRUE, FALSE, {u})
    BY <1>2
  <2>2. p.type = "image_url" /\ p.given /\ p.uri = {u}
    BY <2>1 DEF Part
  <2> QED
    BY <2>2, ImageGives
<1>3. CASE \E u \in Uris : p = Part("file", "", TRUE, FALSE, {u})
  <2>1. PICK u \in Uris : p = Part("file", "", TRUE, FALSE, {u})
    BY <1>3
  <2>2. p.type = "file" /\ p.given /\ ~p.byId /\ p.uri = {u}
    BY <2>1 DEF Part
  <2> QED
    BY <2>2, FileGives
<1>4. CASE \E byId \in BOOLEAN : p = Part("file", "", TRUE, byId, {})
  <2>1. PICK byId \in BOOLEAN : p = Part("file", "", TRUE, byId, {})
    BY <1>4
  <2>2. p.type = "file" /\ p.given /\ p.uri = {}
    BY <2>1 DEF Part
  <2>3. IsFile(p) /\ ~Inline(p) /\ BadPart(p)
    BY <2>2 DEF IsFile, Inline, BadPart
  <2>4. Gives(p) = Fails
    BY <2>2, <2>3 DEF Gives, fileAttachment
  <2> QED
    BY <2>3, <2>4, FailsFacts DEF GivesRight
<1> QED
  BY <1>1, <1>2, <1>3, <1>4, PartForms

-----------------------------------------------------------------------------
(* Attachments: what one message gives                                     *)

\* The parts of a message that give a blob, and their order: images first.
SentAt(ps) == {k \in DOMAIN ps : Len(Gives(ps[k])) = 1}
Sooner(ps, j, k) ==
  LET fj == IF IsFile(ps[j]) THEN 1 ELSE 0
      fk == IF IsFile(ps[k]) THEN 1 ELSE 0
  IN  fj < fk \/ (fj = fk /\ j < k)

RowOf(ps) == Each(imageAttachment, Selected(ps, ImagesAt(ps)))
               \o Each(fileAttachment, Selected(ps, FilesAt(ps)))

\* u puts every blob of a message at its place.
PlacesRow(ps, u) ==
  /\ u \in [SentAt(ps) -> 1..Len(RowOf(ps))]
  /\ \A n \in 1..Len(RowOf(ps)) : \E k \in SentAt(ps) : u[k] = n
  /\ \A k \in SentAt(ps) : RowOf(ps)[u[k]] = Gives(ps[k])[1]
  /\ \A j, k \in SentAt(ps) : Sooner(ps, j, k) => u[j] < u[k]

\* A loop over some of the parts that takes what each gives.
LEMMA LoopGives ==
  ASSUME NEW ps \in Seq(Parts), NEW K \in SUBSET DOMAIN ps,
         NEW rows, rows = [n \in DOMAIN Selected(ps, K) |-> rows[n]],
         \A k \in K : rows[Rank(k, K)] = Gives(ps[k]),
         NEW given, \A k \in K : given[k] = Gives(ps[k])
  PROVE  /\ FlattenSeq(rows) \in Seq(Blobs)
         /\ \E w : PlacesKept(given, FlattenSeq(rows), Len(FlattenSeq(rows)),
                              Giving(K, given), w)
<1> DEFINE N == Len(Selected(ps, K))
           Q == Seq(Blobs)
<1>1. /\ Selected(ps, K) \in Seq(Parts)
      /\ \A n \in 1..N : \E k \in K : Rank(k, K) = n
  BY SelectRanks
<1>2. DOMAIN Selected(ps, K) = 1..N /\ N \in Nat
  BY <1>1
<1>3. \A k \in K : Gives(ps[k]) \in Q /\ Len(Gives(ps[k])) \in {0, 1}
  <2>1. \A k \in K : ps[k] \in Parts
    OBVIOUS
  <2> QED
    BY <2>1, PartGives DEF GivesRight
<1> HIDE DEF N, Q
<1>4. \A n \in 1..N : rows[n] \in Q
  BY <1>1, <1>3
<1>5. rows \in Seq(Q) /\ Len(rows) = N
  BY <1>2, <1>4
<1>6. \A k \in K : rows[Rank(k, K)] = given[k] /\ Len(given[k]) \in {0, 1}
  BY <1>3
<1>7. rows \in Seq(Seq(Blobs)) /\ Len(rows) = Len(Selected(ps, K))
  BY <1>5 DEF N, Q
<1> QED
  BY <1>6, <1>7, LoopPlaces

\* What the code takes from a message: its images' blobs, then its files'.
LEMMA RowPlaced ==
  ASSUME NEW ps \in Seq(Parts)
  PROVE  /\ RowOf(ps) \in Seq(Blobs)
         /\ \E u : PlacesRow(ps, u)
<1> DEFINE I == ImagesAt(ps)
           F == FilesAt(ps)
           images == [n \in DOMAIN Selected(ps, I) |-> imageAttachment(Selected(ps, I)[n])]
           files == [n \in DOMAIN Selected(ps, F) |-> fileAttachment(Selected(ps, F)[n])]
           given == [k \in DOMAIN ps |-> Gives(ps[k])]
           a == FlattenSeq(images)
           b == FlattenSeq(files)
           A == Giving(I, given)
           B == Giving(F, given)
<1>1. I \in SUBSET DOMAIN ps /\ F \in SUBSET DOMAIN ps
  BY DEF ImagesAt, FilesAt
<1>2. /\ \A k \in I : Gives(ps[k]) = imageAttachment(ps[k]) /\ ~IsFile(ps[k])
      /\ \A k \in F : Gives(ps[k]) = fileAttachment(ps[k]) /\ IsFile(ps[k])
  BY DEF ImagesAt, FilesAt, Gives, IsFile
<1>3. \A k \in DOMAIN ps : k \notin I /\ k \notin F => Gives(ps[k]) = <<>>
  BY DEF ImagesAt, FilesAt, Gives, IsFile
<1>4. /\ \A k \in I : images[Rank(k, I)] = Gives(ps[k])
      /\ \A k \in F : files[Rank(k, F)] = Gives(ps[k])
  <2>1. ASSUME NEW K \in SUBSET DOMAIN ps, NEW k \in K
        PROVE  Rank(k, K) \in DOMAIN Selected(ps, K) /\ Selected(ps, K)[Rank(k, K)] = ps[k]
    BY SelectRanks
  <2>2. ASSUME NEW k \in I PROVE images[Rank(k, I)] = Gives(ps[k])
    <3>1. Rank(k, I) \in DOMAIN Selected(ps, I) /\ Selected(ps, I)[Rank(k, I)] = ps[k]
      BY <1>1, <2>1
    <3>2. Gives(ps[k]) = imageAttachment(ps[k])
      BY <1>2
    <3> HIDE DEF I
    <3> QED
      BY <3>1, <3>2
  <2>3. ASSUME NEW k \in F PROVE files[Rank(k, F)] = Gives(ps[k])
    <3>1. Rank(k, F) \in DOMAIN Selected(ps, F) /\ Selected(ps, F)[Rank(k, F)] = ps[k]
      BY <1>1, <2>1
    <3>2. Gives(ps[k]) = fileAttachment(ps[k])
      BY <1>2
    <3> HIDE DEF F
    <3> QED
      BY <3>1, <3>2
  <2> QED
    BY <2>2, <2>3
<1>5. \A k \in DOMAIN ps : given[k] = Gives(ps[k])
  OBVIOUS
<1>6. /\ \A k \in I : given[k] = Gives(ps[k])
      /\ \A k \in F : given[k] = Gives(ps[k])
  BY <1>1, <1>5
<1>7. /\ images = [n \in DOMAIN Selected(ps, I) |-> images[n]]
      /\ files = [n \in DOMAIN Selected(ps, F) |-> files[n]]
  OBVIOUS
<1>8. RowOf(ps) = a \o b
  BY Zenon DEF RowOf, Each
<1> HIDE DEF I, F, images, files, given
<1>9. a \in Seq(Blobs) /\ \E v : PlacesKept(given, a, Len(a), A, v)
  BY <1>1, <1>4, <1>6, <1>7, LoopGives
<1>10. b \in Seq(Blobs) /\ \E w : PlacesKept(given, b, Len(b), B, w)
  BY <1>1, <1>4, <1>6, <1>7, LoopGives
<1> HIDE DEF a, b
<1>11. RowOf(ps) \in Seq(Blobs) /\ Joins(RowOf(ps), a, b)
  BY <1>8, <1>9, <1>10, ConcatJoins
<1>12. /\ \A k : k \in A <=> k \in I /\ Len(given[k]) = 1
       /\ \A k : k \in B <=> k \in F /\ Len(given[k]) = 1
  BY DEF Giving
<1>13. \A k \in A : k \notin B
  BY <1>2, <1>12
<1>14. SentAt(ps) = A \cup B
  <2>1. ASSUME NEW k PROVE k \in SentAt(ps) <=> k \in A \/ k \in B
    <3>1. k \in SentAt(ps) <=> k \in DOMAIN ps /\ Len(Gives(ps[k])) = 1
      BY DEF SentAt
    <3>2. Len(<<>>) # 1
      OBVIOUS
    <3> QED
      BY <1>1, <1>3, <1>6, <1>12, <3>1, <3>2
  <2> QED
    BY <2>1
<1>15. /\ \A k \in A : ~IsFile(ps[k]) /\ given[k] = Gives(ps[k]) /\ k \in Nat
       /\ \A k \in B : IsFile(ps[k]) /\ given[k] = Gives(ps[k]) /\ k \in Nat
  <2>1. \A k \in DOMAIN ps : k \in Nat
    OBVIOUS
  <2> QED
    BY <1>1, <1>2, <1>6, <1>12, <2>1
<1> HIDE DEF A, B
<1>16. PICK v : PlacesKept(given, a, Len(a), A, v)
  BY <1>9
<1>17. PICK w : PlacesKept(given, b, Len(b), B, w)
  BY <1>10
<1>18. PICK u : PlacesJoined(given, RowOf(ps), Len(RowOf(ps)), A, B, u)
  BY <1>11, <1>13, <1>16, <1>17, JoinPlaces
<1>19. \A k \in SentAt(ps) : RowOf(ps)[u[k]] = Gives(ps[k])[1]
  BY <1>14, <1>15, <1>18 DEF PlacesJoined
<1>20. \A j, k \in SentAt(ps) : Sooner(ps, j, k) => u[j] < u[k]
  <2> SUFFICES ASSUME NEW j \in SentAt(ps), NEW k \in SentAt(ps), Sooner(ps, j, k)
               PROVE  u[j] < u[k]
    OBVIOUS
  <2>1. \/ ~IsFile(ps[j]) /\ IsFile(ps[k])
        \/ (IsFile(ps[j]) <=> IsFile(ps[k])) /\ j < k
    BY DEF Sooner
  <2> QED
    BY <1>14, <1>15, <1>18, <2>1 DEF PlacesJoined
<1>21. PlacesRow(ps, u)
  BY <1>14, <1>18, <1>19, <1>20 DEF PlacesRow, PlacesJoined
<1> QED
  BY <1>11, <1>21

-----------------------------------------------------------------------------
(* Attachments: what all the messages give                                 *)

\* The parts that give a blob, by message and place, and the blob of one.
Sent == Pairs(Len(messages), [i \in DOMAIN messages |-> SentAt(PartsOf(i))])
Given(e) == Gives(PartsOf(e[1])[e[2]])[1]

\* w puts every blob of a request at its place.
PlacesAll(found, len, w) ==
  /\ w \in [Sent -> 1..len]
  /\ \A p \in 1..len : \E e \in Sent : w[e] = p
  /\ \A e \in Sent : found[w[e]] = Given(e)
  /\ \A d, e \in Sent : Before(d, e) => w[d] < w[e]

ImageRow(ps) == Each(imageAttachment, ps)
FileRow(ps) == Each(fileAttachment, ps)

LEMMA RowsAre ==
  ASSUME Written
  PROVE  extractAttachments(messages)
           = FlattenSeq([i \in DOMAIN messages |-> RowOf(PartsOf(i))])
<1> DEFINE row(i) == Each(imageAttachment, ImageParts(Content(messages[i])))
                       \o Each(fileAttachment, FileParts(Content(messages[i])))
<1>1. extractAttachments(messages) = FlattenSeq([i \in DOMAIN messages |-> row(i)])
  BY Zenon DEF extractAttachments, Each
<1>2. ASSUME NEW i \in DOMAIN messages PROVE row(i) = RowOf(PartsOf(i))
  <2> DEFINE mc == Content(messages[i])
  <2>1. mc.parts = PartsOf(i)
    BY MessageForms
  <2>2. /\ ImageParts(mc) = Selected(mc.parts, ImagesAt(mc.parts))
        /\ FileParts(mc) = Selected(mc.parts, FilesAt(mc.parts))
    BY Selections, Zenon
  <2>3. row(i) = ImageRow(ImageParts(mc)) \o FileRow(FileParts(mc))
    BY Zenon DEF ImageRow, FileRow
  <2>4. RowOf(PartsOf(i)) = ImageRow(Selected(PartsOf(i), ImagesAt(PartsOf(i))))
                              \o FileRow(Selected(PartsOf(i), FilesAt(PartsOf(i))))
    BY Zenon DEF ImageRow, FileRow, RowOf
  <2> HIDE DEF mc, row
  <2> QED
    BY <2>1, <2>2, <2>3, <2>4, Zenon
<1> HIDE DEF row
<1> QED
  BY <1>1, <1>2

LEMMA AllPlaced ==
  ASSUME Written
  PROVE  LET found == extractAttachments(messages)
         IN  /\ found \in Seq(Blobs)
             /\ \E w : PlacesAll(found, Len(found), w)
<1> DEFINE found == extractAttachments(messages)
           rows == [i \in DOMAIN messages |-> RowOf(PartsOf(i))]
           C == [i \in DOMAIN messages |-> SentAt(PartsOf(i))]
           u == [i \in DOMAIN messages |-> CHOOSE v : PlacesRow(PartsOf(i), v)]
           N == Len(messages)
           Q == Seq(Blobs)
<1>1. DOMAIN messages = 1..N /\ N \in Nat
  BY DEF Written
<1>2. found = FlattenSeq(rows)
  BY RowsAre
<1>3. \A i \in 1..N : /\ rows[i] = RowOf(PartsOf(i)) /\ C[i] = SentAt(PartsOf(i))
                      /\ rows[i] \in Q /\ PlacesRow(PartsOf(i), u[i])
  <2> SUFFICES ASSUME NEW i \in 1..N
               PROVE  /\ rows[i] = RowOf(PartsOf(i)) /\ C[i] = SentAt(PartsOf(i))
                      /\ rows[i] \in Q /\ PlacesRow(PartsOf(i), u[i])
    OBVIOUS
  <2>1. PartsOf(i) \in Seq(Parts)
    BY <1>1, MessageForms
  <2>2. RowOf(PartsOf(i)) \in Q /\ \E v : PlacesRow(PartsOf(i), v)
    BY <2>1, RowPlaced
  <2> HIDE DEF Q, N
  <2> QED
    BY <1>1, <2>2
<1>4. Sent = Pairs(N, C)
  BY DEF Sent
<1>5. rows = [i \in 1..N |-> rows[i]]
  BY <1>1
<1> HIDE DEF found, rows, C, u, N, Q
<1>6. rows \in Seq(Q) /\ Len(rows) = N
  BY <1>1, <1>3, <1>5
<1>7. IsNested(rows, C, u)
  BY <1>3, <1>6 DEF IsNested, PlacesRow
<1>8. rows \in Seq(Seq(Blobs))
  BY <1>6 DEF Q
<1>9. found \in Seq(Blobs) /\ \E w : PlacesNested(rows, Pairs(Len(rows), C), u, found, Len(found), w)
  BY <1>2, <1>7, <1>8, NestedPlaces
<1>10. PICK w : PlacesNested(rows, Sent, u, found, Len(found), w)
  BY <1>4, <1>6, <1>9
<1>11. ASSUME NEW e \in Sent
       PROVE  /\ e[1] \in 1..N /\ e[2] \in SentAt(PartsOf(e[1]))
              /\ rows[e[1]][u[e[1]][e[2]]] = Given(e)
  <2>0. PICK i \in 1..N : e \in {i} \X C[i]
    BY <1>4 DEF Pairs
  <2>1. PICK k \in C[i] : e = <<i, k>>
    BY <2>0
  <2>2. rows[i] = RowOf(PartsOf(i)) /\ C[i] = SentAt(PartsOf(i)) /\ PlacesRow(PartsOf(i), u[i])
    BY <1>3
  <2>3. RowOf(PartsOf(i))[u[i][k]] = Gives(PartsOf(i)[k])[1]
    BY <2>2 DEF PlacesRow
  <2>4. e[1] = i /\ e[2] = k
    BY <2>1
  <2> QED
    BY <2>2, <2>3, <2>4 DEF Given
<1>12. ASSUME NEW d \in Sent, NEW e \in Sent, Before(d, e)
       PROVE  NestedEarlier(u, d, e)
  <2>1. CASE d[1] < e[1]
    BY <2>1 DEF NestedEarlier
  <2>2. CASE d[1] = e[1] /\ Sooner(PartsOf(d[1]), d[2], e[2])
    <3>1. /\ d[1] \in 1..N /\ d[2] \in SentAt(PartsOf(d[1]))
          /\ e[2] \in SentAt(PartsOf(d[1]))
      BY <1>11, <2>2
    <3>2. u[d[1]][d[2]] < u[d[1]][e[2]]
      BY <1>3, <2>2, <3>1 DEF PlacesRow
    <3> QED
      BY <2>2, <3>2 DEF NestedEarlier
  <2>3. \/ d[1] < e[1]
        \/ d[1] = e[1] /\ Sooner(PartsOf(d[1]), d[2], e[2])
    BY <1>12 DEF Before, Sooner
  <2> QED
    BY <2>1, <2>2, <2>3
<1> DEFINE len == Len(found)
<1> HIDE DEF len
<1>13. PlacesNested(rows, Sent, u, found, len, w)
  BY <1>10 DEF len
<1>14. PlacesAll(found, len, w)
  BY <1>11, <1>12, <1>13 DEF PlacesNested, PlacesAll
<1> QED
  BY <1>9, <1>14 DEF found, len

\* The parts that give a blob, one by one.
LEMMA SentIs ==
  ASSUME Written
  PROVE  /\ \A e \in Sent : /\ e[1] \in DOMAIN messages /\ e[2] \in DOMAIN PartsOf(e[1])
                            /\ e = <<e[1], e[2]>>
                            /\ PartsOf(e[1])[e[2]] \in Parts
                            /\ Len(Gives(PartsOf(e[1])[e[2]])) = 1
         /\ \A i \in DOMAIN messages : \A k \in DOMAIN PartsOf(i) :
              Len(Gives(PartsOf(i)[k])) = 1 => <<i, k>> \in Sent
<1> DEFINE C == [i \in DOMAIN messages |-> SentAt(PartsOf(i))]
           N == Len(messages)
<1>1. DOMAIN messages = 1..N
  BY DEF Written
<1>2. Sent = Pairs(N, C)
  BY DEF Sent
<1>3. \A i \in 1..N : C[i] = SentAt(PartsOf(i))
  BY <1>1
<1> HIDE DEF C, N
<1>4. \A e : e \in Sent <=> \E i \in 1..N : e \in {i} \X C[i]
  BY <1>2 DEF Pairs
<1>5. ASSUME NEW e \in Sent
      PROVE  /\ e[1] \in DOMAIN messages /\ e[2] \in DOMAIN PartsOf(e[1])
             /\ e = <<e[1], e[2]>>
             /\ PartsOf(e[1])[e[2]] \in Parts
             /\ Len(Gives(PartsOf(e[1])[e[2]])) = 1
  <2>1. PICK i \in 1..N : e \in {i} \X C[i]
    BY <1>4
  <2>2. e = <<e[1], e[2]>> /\ e[1] = i /\ e[2] \in SentAt(PartsOf(i))
    BY <1>3, <2>1
  <2>3. PartsOf(i) \in Seq(Parts)
    BY <1>1, MessageForms
  <2>4. e[2] \in DOMAIN PartsOf(i) /\ Len(Gives(PartsOf(i)[e[2]])) = 1
    BY <2>2 DEF SentAt
  <2>5. PartsOf(i)[e[2]] \in Parts
    BY <2>3, <2>4
  <2> QED
    BY <1>1, <2>2, <2>4, <2>5
<1>6. ASSUME NEW i \in DOMAIN messages, NEW k \in DOMAIN PartsOf(i),
             Len(Gives(PartsOf(i)[k])) = 1
      PROVE  <<i, k>> \in Sent
  <2>1. k \in C[i] /\ i \in 1..N
    BY <1>1, <1>3, <1>6 DEF SentAt
  <2> QED
    BY <1>4, <2>1
<1> QED
  BY <1>5, <1>6

\* An error is among what the parts give exactly if a part is bad.
LEMMA ErrorsAre ==
  ASSUME Written
  PROVE  LET found == extractAttachments(messages)
         IN  (\E n \in DOMAIN found : found[n].kind = "error")
               <=> \E i \in DOMAIN messages : \E k \in DOMAIN PartsOf(i) : BadPart(PartsOf(i)[k])
<1> DEFINE found == extractAttachments(messages)
           len == Len(found)
<1>1. found \in Seq(Blobs) /\ \E w : PlacesAll(found, len, w)
  BY AllPlaced
<1>2. DOMAIN found = 1..len
  BY <1>1
<1> HIDE DEF found, len
<1>3. PICK w : PlacesAll(found, len, w)
  BY <1>1
<1>4. ASSUME NEW n \in DOMAIN found, found[n].kind = "error"
      PROVE  \E i \in DOMAIN messages : \E k \in DOMAIN PartsOf(i) : BadPart(PartsOf(i)[k])
  <2>1. PICK e \in Sent : w[e] = n
    BY <1>2, <1>3 DEF PlacesAll
  <2>2. Given(e).kind = "error"
    BY <1>3, <1>4, <2>1 DEF PlacesAll
  <2>3. /\ e[1] \in DOMAIN messages /\ e[2] \in DOMAIN PartsOf(e[1])
        /\ PartsOf(e[1])[e[2]] \in Parts /\ Len(Gives(PartsOf(e[1])[e[2]])) = 1
    BY SentIs
  <2>4. BadPart(PartsOf(e[1])[e[2]])
    BY <2>2, <2>3, PartGives DEF GivesRight, Given
  <2> QED
    BY <2>3, <2>4
<1>5. ASSUME NEW i \in DOMAIN messages, NEW k \in DOMAIN PartsOf(i), BadPart(PartsOf(i)[k])
      PROVE  \E n \in DOMAIN found : found[n].kind = "error"
  <2>1. PartsOf(i)[k] \in Parts
    <3>1. PartsOf(i) \in Seq(Parts)
      BY MessageForms
    <3> QED
      BY <3>1
  <2>2. Len(Gives(PartsOf(i)[k])) = 1 /\ Gives(PartsOf(i)[k])[1].kind = "error"
    BY <1>5, <2>1, PartGives DEF GivesRight
  <2> DEFINE e == <<i, k>>
  <2>3. e \in Sent /\ Given(e) = Gives(PartsOf(i)[k])[1]
    BY <2>2, SentIs DEF Given
  <2> HIDE DEF e
  <2>4. w[e] \in DOMAIN found /\ found[w[e]].kind = "error"
    BY <1>2, <1>3, <2>2, <2>3 DEF PlacesAll
  <2> QED
    BY <2>4
<1> QED
  BY <1>4, <1>5 DEF found

LEMMA RefusedHolds == IInv => RefusedIffUndeliverable
<1> SUFFICES ASSUME IInv, NEW e \in Envelopes, envelope = {e}, outcome = Handled(e, messages)
             PROVE  RefusedIffUndeliverable
  BY DEF IInv, RefusedIffUndeliverable
<1> DEFINE found == extractAttachments(messages)
           Error == \E n \in DOMAIN found : found[n].kind = "error"
           Unread == \E i \in DOMAIN messages : ~Content(messages[i]).ok
           Number == \E i \in DOMAIN messages : messages[i].content.json = "number"
           BadOne == \E i \in DOMAIN messages : \E k \in DOMAIN PartsOf(i) : BadPart(PartsOf(i)[k])
           resumes == e.tools /\ hasToolResults(messages)
           lost == ~e.whole \/ ~e.model \/ messages = <<>> \/ Number
<1>1. Written
  BY DEF IInv
<1>2. Unread <=> Number
  BY <1>1, MessageForms
<1>3. Error <=> BadOne
  BY <1>1, ErrorsAre
<1>4. Started(messages).status = IF Error THEN 400 ELSE 200
  BY DEF Started, Refused
<1>5. Readable(e, messages) <=> ~lost
  <2>1. Readable(e, messages) <=> e.whole /\ ~Unread /\ e.model /\ messages # <<>>
    BY DEF Readable
  <2> HIDE DEF Unread, Number
  <2> QED
    BY <1>2, <2>1
<1>6. outcome = IF ~e.post THEN NotAllowed
                ELSE IF lost THEN Refused
                ELSE IF resumes THEN Resumed
                ELSE Started(messages)
  <2> HIDE DEF lost
  <2> QED
    BY <1>5, HandledIs
<1>7. NotAllowed.status = 405 /\ Refused.status = 400 /\ Resumed.status = 200
  BY DEF NotAllowed, Refused, Resumed
<1>8. /\ outcome.status = 405 <=> ~e.post
      /\ outcome.status = 400 <=> e.post /\ (lost \/ (~resumes /\ BadOne))
  <2> HIDE DEF Error, BadOne, lost, resumes
  <2> QED
    BY <1>3, <1>4, <1>6, <1>7
<1>9. /\ resumes <=> e.tools /\ \E i \in DOMAIN messages : messages[i].role = "tool"
      /\ lost \/ (~resumes /\ BadOne)
          <=> \/ ~e.whole \/ ~e.model \/ messages = <<>>
              \/ \E i \in DOMAIN messages :
                   \/ messages[i].content.json = "number"
                   \/ /\ ~resumes
                      /\ \E k \in DOMAIN PartsOf(i) : BadPart(PartsOf(i)[k])
  <2>1. resumes <=> e.tools /\ \E i \in DOMAIN messages : messages[i].role = "tool"
    BY DEF hasToolResults
  <2> HIDE DEF resumes
  <2> QED
    BY <2>1, Zenon
<1> HIDE DEF resumes, lost
<1> QED
  BY <1>8, <1>9 DEF RefusedIffUndeliverable

\* Whatever its length and its envelope, a request is refused exactly when it is
\* no POST, cannot be read, names no model or no message, or, unless it resumes
\* a parked session, has a file or inline image that cannot be sent on.
THEOREM RefusedCorrect == Spec => []RefusedIffUndeliverable
BY IInvHolds, RefusedHolds, PTL

\* Of two parts that give a blob one comes before the other.
LEMMA BeforeTotal ==
  ASSUME Written, NEW d \in Sent, NEW e \in Sent, d # e
  PROVE  Before(d, e) \/ Before(e, d)
<1>1. /\ d = <<d[1], d[2]>> /\ d[1] \in DOMAIN messages /\ d[2] \in DOMAIN PartsOf(d[1])
      /\ e = <<e[1], e[2]>> /\ e[1] \in DOMAIN messages /\ e[2] \in DOMAIN PartsOf(e[1])
  BY SentIs
<1>2. \A i \in DOMAIN messages : i \in Nat /\ \A k \in DOMAIN PartsOf(i) : k \in Nat
  <2>1. \A i \in DOMAIN messages : i \in Nat
    BY DEF Written
  <2>2. ASSUME NEW i \in DOMAIN messages PROVE \A k \in DOMAIN PartsOf(i) : k \in Nat
    <3>1. PartsOf(i) \in Seq(Parts)
      BY MessageForms
    <3> QED
      BY <3>1
  <2> QED
    BY <2>1, <2>2
<1>3. d[1] \in Nat /\ d[2] \in Nat /\ e[1] \in Nat /\ e[2] \in Nat
  BY <1>1, <1>2
<1>4. d[1] # e[1] \/ d[2] # e[2]
  BY <1>1, Zenon
<1> DEFINE fd == IF IsFile(PartsOf(d[1])[d[2]]) THEN 1 ELSE 0
           fe == IF IsFile(PartsOf(e[1])[e[2]]) THEN 1 ELSE 0
<1>5. /\ Before(d, e) <=> d[1] < e[1] \/ (d[1] = e[1] /\ (fd < fe \/ (fd = fe /\ d[2] < e[2])))
      /\ Before(e, d) <=> e[1] < d[1] \/ (e[1] = d[1] /\ (fe < fd \/ (fe = fd /\ e[2] < d[2])))
  BY DEF Before
<1>6. fd \in Nat /\ fe \in Nat
  OBVIOUS
<1> HIDE DEF fd, fe
<1> QED
  BY <1>3, <1>4, <1>5, <1>6

LEMMA AttachedHolds == IInv => EveryInlinePartAttached
<1> SUFFICES ASSUME IInv, Accepted PROVE EveryInlinePartAttached
  BY DEF EveryInlinePartAttached
<1> DEFINE found == outcome.attachments
           len == Len(found)
<1>1. Written
  BY DEF IInv
<1>2. found = extractAttachments(messages)
  BY AcceptedIs
<1>3. \A n \in DOMAIN found : found[n].kind # "error"
  BY <1>2, AcceptedIs
<1> HIDE DEF found
<1>4. \A i \in DOMAIN messages : \A k \in DOMAIN PartsOf(i) :
        PartsOf(i)[k] \in Parts /\ ~BadPart(PartsOf(i)[k])
  <2>1. ASSUME NEW i \in DOMAIN messages, NEW k \in DOMAIN PartsOf(i)
        PROVE  PartsOf(i)[k] \in Parts
    <3>1. PartsOf(i) \in Seq(Parts)
      BY <1>1, MessageForms
    <3> QED
      BY <3>1
  <2> QED
    BY <1>1, <1>2, <1>3, <2>1, ErrorsAre
<1>5. found \in Seq(Blobs) /\ \E w : PlacesAll(found, len, w)
  BY <1>1, <1>2, AllPlaced
<1>6. len \in Nat
  BY <1>5
<1> HIDE DEF len
<1>7. PICK w : PlacesAll(found, len, w)
  BY <1>5
<1>8. Slots = Sent
  <2>1. ASSUME NEW e \in Slots PROVE e \in Sent
    <3>1. PICK i \in DOMAIN messages : e \in {i} \X InlineAt(i)
      BY DEF Slots
    <3>2. PICK k \in InlineAt(i) : e = <<i, k>>
      BY <3>1
    <3>3. k \in DOMAIN PartsOf(i) /\ Inline(PartsOf(i)[k])
      BY DEF InlineAt
    <3>4. Len(Gives(PartsOf(i)[k])) = 1
      BY <1>4, <3>3, PartGives DEF GivesRight
    <3> QED
      BY <1>1, <3>2, <3>3, <3>4, SentIs
  <2>2. ASSUME NEW e \in Sent PROVE e \in Slots
    <3>1. /\ e[1] \in DOMAIN messages /\ e[2] \in DOMAIN PartsOf(e[1])
          /\ e = <<e[1], e[2]>> /\ Len(Gives(PartsOf(e[1])[e[2]])) = 1
      BY <1>1, SentIs
    <3>2. Inline(PartsOf(e[1])[e[2]])
      BY <1>4, <3>1, PartGives DEF GivesRight
    <3>3. e[2] \in InlineAt(e[1])
      BY <3>1, <3>2 DEF InlineAt
    <3>4. e \in {e[1]} \X InlineAt(e[1])
      BY <3>1, <3>3
    <3> QED
      BY <3>1, <3>4 DEF Slots
  <2> QED
    BY <2>1, <2>2
<1>9. /\ w \in [Slots -> 1..len]
      /\ \A p \in 1..len : \E e \in Slots : w[e] = p
      /\ \A e \in Slots : found[w[e]] = Given(e)
      /\ \A d, e \in Slots : Before(d, e) => w[d] < w[e]
  BY <1>7, <1>8 DEF PlacesAll
<1>10. \A d, e \in Slots : Before(d, e) <=> w[d] < w[e]
  <2> SUFFICES ASSUME NEW d \in Slots, NEW e \in Slots, w[d] < w[e] PROVE Before(d, e)
    BY <1>9
  <2>1. w[d] \in Nat /\ w[e] \in Nat
    BY <1>6, <1>9
  <2>2. d # e /\ ~Before(e, d)
    BY <1>9, <2>1
  <2> QED
    BY <1>1, <1>8, <2>2, BeforeTotal
<1>11. \A d, e \in Slots : w[d] = w[e] => d = e
  <2> SUFFICES ASSUME NEW d \in Slots, NEW e \in Slots, w[d] = w[e], d # e PROVE FALSE
    OBVIOUS
  <2>1. Before(d, e) \/ Before(e, d)
    BY <1>1, <1>8, BeforeTotal
  <2>2. w[d] \in Nat /\ w[e] \in Nat
    BY <1>6, <1>9
  <2> QED
    BY <1>9, <2>1, <2>2
<1>12. /\ Cardinality(Slots) = len
       /\ \A a \in 0..len : Cardinality(Reached(Slots, w, a)) = a
  BY <1>6, <1>9, <1>11, CountPlaces
<1>13. ASSUME NEW s \in Slots
       PROVE  LET p == PartsOf(s[1])[s[2]]
                  a == found[Cardinality({t \in Slots : Before(t, s)}) + 1]
              IN  /\ a.kind = IF IsFile(p) THEN "file" ELSE "image"
                  /\ \E u \in p.uri : a.mime = u.mime
  <2> DEFINE p == PartsOf(s[1])[s[2]]
             at == Cardinality({t \in Slots : Before(t, s)}) + 1
  <2>1. at = w[s]
    <3>1. w[s] \in 1..len /\ w[s] - 1 \in 0..len
      BY <1>6, <1>9
    <3>2. \A t \in Slots : Before(t, s) <=> w[t] <= w[s] - 1
      <4> SUFFICES ASSUME NEW t \in Slots PROVE Before(t, s) <=> w[t] <= w[s] - 1
        OBVIOUS
      <4>1. w[t] \in 1..len
        BY <1>9
      <4> QED
        BY <1>6, <1>10, <3>1, <4>1
    <3>3. {t \in Slots : Before(t, s)} = Reached(Slots, w, w[s] - 1)
      BY <3>2 DEF Reached
    <3>4. Cardinality({t \in Slots : Before(t, s)}) = w[s] - 1
      BY <1>12, <3>1, <3>3
    <3> QED
      BY <1>6, <3>1, <3>4
  <2>2. found[w[s]] = Gives(p)[1]
    BY <1>9 DEF Given
  <2>3. p \in Parts /\ ~BadPart(p) /\ Len(Gives(p)) = 1
    BY <1>1, <1>4, <1>8, SentIs
  <2> HIDE DEF p, at
  <2>4. /\ Gives(p)[1].kind = IF IsFile(p) THEN "file" ELSE "image"
        /\ \E u \in p.uri : Gives(p)[1].mime = u.mime
    BY <2>3, PartGives DEF GivesRight
  <2>5. /\ found[at].kind = IF IsFile(p) THEN "file" ELSE "image"
        /\ \E u \in p.uri : found[at].mime = u.mime
    BY <2>1, <2>2, <2>4
  <2> QED
    BY <2>5 DEF p, at
<1> QED
  BY <1>12, <1>13, Zenon DEF EveryInlinePartAttached, found, len

\* However many parts a request has, an accepted one is sent with one attachment
\* for each inline part, at its place and with its own type.
THEOREM AttachedCorrect == Spec => []EveryInlinePartAttached
BY IInvHolds, AttachedHolds, PTL

=============================================================================
