------------------------------ MODULE Requests ------------------------------
(***************************************************************************)
(* What a chat-completion request is turned into before a session sees it: *)
(* the decoding of message contents (oai/types.go), the prompt and system  *)
(* message (chat.go, and Ollama's twins) and the attachments (chat.go).    *)
(*                                                                         *)
(* A request is written message by message and part by part, then sent in  *)
(* an envelope - method, body, model, tools - and handled in one step.     *)
(* A request is refused, resumes a parked session or is given to a session *)
(* of its own.  Texts and URIs are reduced to what the code tells apart;  *)
(* a text that was joined from parts is the sequence of its pieces.        *)
(***************************************************************************)
EXTENDS Naturals, FiniteSets, Sequences, SequencesExt

CONSTANTS
  MaxMessages,  \* messages of a request: a bound
  MaxParts      \* content parts of a request, over all messages: a bound

ASSUME RequestAssumption == MaxMessages \in Nat /\ MaxParts \in Nat

VARIABLES
  messages,  \* the request's messages, contents as they stand in the JSON
  envelope,  \* what the request is sent with, once it is sent
  outcome    \* what the request led to

vars == <<messages, envelope, outcome>>

\* Whether it is a POST, its body is JSON within the 50 MB, it names a model
\* and it declares tools.
Envelopes == [post : BOOLEAN, whole : BOOLEAN, model : BOOLEAN, tools : BOOLEAN]

Roles == {"system", "user", "assistant", "tool"}
Pieces == {"", "a", "b"}   \* "" is the empty text

\* The URIs the code can tell apart: what follows the "data:" prefix is a MIME
\* type up to the first semicolon, an encoding, and a payload.
Uri(mime, enc, payload) ==
  [inline |-> TRUE, mime |-> mime, enc |-> enc, payload |-> payload]
Link == [inline |-> FALSE, mime |-> "", enc |-> "", payload |-> ""]
Uris == {Link, Uri("image", "base64", "padded"), Uri("image", "base64", "raw"),
         Uri("pdf", "base64", "padded"), Uri("", "base64", "padded"),
         Uri("image", "charset", "padded"), Uri("image", "base64", "broken"),
         Uri("image", "none", "padded")}

\* A part may lack its image_url or file object (given), a file may name an
\* uploaded file instead of data (byId), and a type may be one no code reads.
Part(type, text, given, byId, uris) ==
  [type |-> type, text |-> text, given |-> given, byId |-> byId, uri |-> uris]
TextPart(t) == Part("text", t, FALSE, FALSE, {})
Parts ==
  {TextPart(t) : t \in Pieces}
    \cup {Part("image_url", "", TRUE, FALSE, {u}) : u \in Uris}
    \cup {Part("file", "", TRUE, FALSE, {u}) : u \in Uris}
    \cup {Part(type, "", FALSE, FALSE, {}) : type \in {"image_url", "file", "input_audio"}}
    \cup {Part("file", "", TRUE, byId, {}) : byId \in BOOLEAN}

\* A loop that appends what each element gives, and one that keeps some elements.
Each(Op(_), s) == FlattenSeq([i \in DOMAIN s |-> Op(s[i])])
Only(Test(_), s) == Each(LAMBDA x : IF Test(x) THEN <<x>> ELSE <<>>, s)

-----------------------------------------------------------------------------
(* MessageContent *)

\* A string (null counts as the empty one), else an array, else an error.
UnmarshalJSON(c) ==
  CASE c.json = "string" -> [ok |-> TRUE, text |-> c.text, parts |-> <<>>]
    [] c.json = "null"   -> [ok |-> TRUE, text |-> "", parts |-> <<>>]
    [] c.json = "array"  -> [ok |-> TRUE, text |-> "", parts |-> c.parts]
    [] OTHER             -> [ok |-> FALSE, text |-> "", parts |-> <<>>]

\* Mutant: the content is always written as a string.
MarshalAsText(mc) == [json |-> "string", text |-> mc.text]

MarshalJSON(mc) ==
  IF mc.parts # <<>> THEN [json |-> "array", parts |-> mc.parts]
                     ELSE [json |-> "string", text |-> mc.text]

TextContent(mc) ==
  IF mc.parts = <<>>
  THEN IF mc.text = "" THEN <<>> ELSE <<mc.text>>
  ELSE LET texts == Only(LAMBDA p : p.type = "text" /\ p.text # "", mc.parts)
       IN  [i \in DOMAIN texts |-> texts[i].text]

ImageParts(mc) == Only(LAMBDA p : p.type = "image_url" /\ p.given, mc.parts)
FileParts(mc) == Only(LAMBDA p : p.type = "file" /\ p.given, mc.parts)

-----------------------------------------------------------------------------
(* Prompt and system message *)

Content(m) == UnmarshalJSON(m.content)
NonSystem(ms) == Only(LAMBDA m : m.role # "system", ms)
Tagged(m) == [role |-> m.role, text |-> TextContent(Content(m))]

\* Mutant: only the last message is sent once there are several.
buildPromptLastOnly(ms) ==
  LET said == NonSystem(ms) IN
  IF said = <<>> THEN <<>>
  ELSE <<[role |-> "none", text |-> TextContent(Content(said[Len(said)]))]>>

\* A single message goes as it is, several as a tagged conversation.
buildPrompt(ms) ==
  LET said == NonSystem(ms) IN
  IF Len(said) = 1
  THEN <<[role |-> "none", text |-> TextContent(Content(said[1]))]>>
  ELSE [i \in DOMAIN said |-> Tagged(said[i])]

extractSystemMessage(ms) ==
  LET system == Only(LAMBDA m : m.role = "system", ms)
  IN  [i \in DOMAIN system |-> TextContent(Content(system[i]))]

-----------------------------------------------------------------------------
(* Attachments: what a part gives is a sequence of at most one blob       *)

Fails == <<[kind |-> "error", mime |-> ""]>>
Blob(kind, mime) == <<[kind |-> kind, mime |-> mime]>>

\* The MIME type, when the rest is "base64," and decodes, padded or not.
parseDataURI(u) ==
  IF u.enc = "base64" /\ u.payload # "broken" THEN {u.mime} ELSE {}

\* Links are skipped with a warning; inline data must be an image.
imageAttachment(p) ==
  LET u == CHOOSE v \in p.uri : TRUE IN
  IF ~u.inline THEN <<>>
  ELSE IF parseDataURI(u) = {"image"} THEN Blob("image", u.mime) ELSE Fails

\* Mutant: a file that is not inline is skipped like an image.
fileAttachmentSkips(p) ==
  IF p.byId \/ p.uri = {} THEN Fails
  ELSE LET u == CHOOSE v \in p.uri : TRUE IN
       IF ~u.inline THEN <<>>
       ELSE IF parseDataURI(u) \in {{}, {""}} THEN Fails ELSE Blob("file", u.mime)

\* A file must be inline data with a MIME type.
fileAttachment(p) ==
  IF p.byId \/ p.uri = {} THEN Fails
  ELSE LET u == CHOOSE v \in p.uri : TRUE IN
       IF ~u.inline \/ parseDataURI(u) \in {{}, {""}} THEN Fails
       ELSE Blob("file", u.mime)

\* Mutant: the files are read from the last message only.
extractAttachmentsLastFiles(ms) ==
  Each(LAMBDA m : Each(imageAttachment, ImageParts(Content(m)))
                    \o IF m = ms[Len(ms)]
                       THEN Each(fileAttachment, FileParts(Content(m))) ELSE <<>>, ms)

\* Message by message, its images before its files; the first error ends it.
extractAttachments(ms) ==
  Each(LAMBDA m : Each(imageAttachment, ImageParts(Content(m)))
                    \o Each(fileAttachment, FileParts(Content(m))), ms)

-----------------------------------------------------------------------------

Waiting == [status |-> 0]
NotAllowed == [status |-> 405]
Refused == [status |-> 400]
Resumed == [status |-> 200, to |-> "parked"]

hasToolResults(ms) == \E i \in DOMAIN ms : ms[i].role = "tool"

\* The decoding of the body, and what is asked of it before it is routed.
Readable(e, ms) ==
  /\ e.whole /\ \A i \in DOMAIN ms : Content(ms[i]).ok
  /\ e.model
  /\ ms # <<>>

\* A session of the request's own, unless its attachments cannot be read.
Started(ms) ==
  LET found == extractAttachments(ms) IN
  IF \E i \in DOMAIN found : found[i].kind = "error" THEN Refused
  ELSE [status |-> 200, to |-> "new", prompt |-> buildPrompt(ms),
        system |-> extractSystemMessage(ms), attachments |-> found]

\* ChatCompletions up to the session: refused, resumed or what the session is
\* given.  A resume reads neither prompt nor attachments.
Handled(e, ms) ==
  CASE ~e.post -> NotAllowed
    [] e.post /\ ~Readable(e, ms) -> Refused
    [] e.post /\ Readable(e, ms) /\ e.tools /\ hasToolResults(ms) -> Resumed
    [] OTHER -> Started(ms)

Init == messages = <<>> /\ envelope = {} /\ outcome = Waiting

Contents ==
  {[json |-> "string", text |-> t] : t \in Pieces}
    \cup {[json |-> "null"], [json |-> "number"], [json |-> "array", parts |-> <<>>]}

AddMessage ==
  /\ outcome = Waiting /\ Len(messages) < MaxMessages
  /\ \E r \in Roles, c \in Contents :
       messages' = Append(messages, [role |-> r, content |-> c])
  /\ UNCHANGED <<envelope, outcome>>

PartCount(m) == IF m.content.json = "array" THEN Len(m.content.parts) ELSE 0

AddPart ==
  /\ outcome = Waiting /\ messages # <<>>
  /\ LET n == Len(messages) IN
     /\ messages[n].content.json = "array"
     /\ FoldFunction(LAMBDA m, sum : PartCount(m) + sum, 0, messages) < MaxParts
     /\ \E p \in Parts :
          messages' = [messages EXCEPT ![n].content.parts = Append(@, p)]
  /\ UNCHANGED <<envelope, outcome>>

Handle ==
  /\ outcome = Waiting
  /\ \E e \in Envelopes : envelope' = {e} /\ outcome' = Handled(e, messages)
  /\ UNCHANGED messages

Next == AddMessage \/ AddPart \/ Handle

Spec == Init /\ [][Next]_vars

-----------------------------------------------------------------------------
(* Properties: the outcome against what it should be, written without the  *)
(* code's loops.                                                           *)

\* Given a session of its own.
Accepted == outcome.status = 200 /\ outcome.to = "new"
PartsOf(i) == IF messages[i].content.json = "array"
              THEN messages[i].content.parts ELSE <<>>
IsFile(p) == p.type = "file" /\ p.given
Inline(p) == p.type \in {"image_url", "file"} /\ \E u \in p.uri : u.inline
Usable(u) == u.inline /\ u.enc = "base64" /\ u.payload \in {"padded", "raw"}

\* A file is refused unless it is usable and says what it is, an image if it
\* is inline and no usable image; a link to an image is let pass.
BadPart(p) ==
  \/ IsFile(p) /\ ~(~p.byId /\ \E u \in p.uri : Usable(u) /\ u.mime # "")
  \/ p.type = "image_url" /\ \E u \in p.uri : u.inline /\ ~(Usable(u) /\ u.mime = "image")

\* A request is refused, as not allowed or as bad, exactly when it is no POST, or
\* its body cannot be read, names no model or no message, has a content that is
\* neither text nor parts, or - unless its tool results resume a parked session,
\* which reads no attachment - a file or inline image that could not be sent on.
\* What is let pass without its data is a link to an image (chat.go:393), a part
\* without its object, a part of an unknown type, and all of them in a resume.
RefusedIffUndeliverable ==
  \A e \in envelope :
    LET resumes == e.tools /\ \E i \in DOMAIN messages : messages[i].role = "tool"
    IN  /\ outcome.status = 405 <=> ~e.post
        /\ outcome.status = 400 <=>
             /\ e.post
             /\ \/ ~e.whole \/ ~e.model \/ messages = <<>>
                \/ \E i \in DOMAIN messages :
                     \/ messages[i].content.json = "number"
                     \/ /\ ~resumes
                        /\ \E k \in DOMAIN PartsOf(i) : BadPart(PartsOf(i)[k])

InlineAt(i) == {k \in DOMAIN PartsOf(i) : Inline(PartsOf(i)[k])}
Slots == UNION {{i} \X InlineAt(i) : i \in DOMAIN messages}

\* Of two parts, which attachment comes first: by message, then images before
\* files, then by place.
Before(s, t) ==
  LET fs == IF IsFile(PartsOf(s[1])[s[2]]) THEN 1 ELSE 0
      ft == IF IsFile(PartsOf(t[1])[t[2]]) THEN 1 ELSE 0
  IN  \/ s[1] < t[1]
      \/ s[1] = t[1] /\ (fs < ft \/ (fs = ft /\ s[2] < t[2]))

\* An accepted request is sent with one attachment for every inline part, of
\* every message, in a fixed order and with its own MIME type.
EveryInlinePartAttached ==
  Accepted =>
    /\ Len(outcome.attachments) = Cardinality(Slots)
    /\ \A s \in Slots :
         LET p == PartsOf(s[1])[s[2]]
             a == outcome.attachments[Cardinality({t \in Slots : Before(t, s)}) + 1]
         IN  /\ a.kind = IF IsFile(p) THEN "file" ELSE "image"
             /\ \E u \in p.uri : a.mime = u.mime

\* What a message says, read off the request itself.
Says(i) ==
  LET m == messages[i]
      texts == {k \in DOMAIN PartsOf(i) : PartsOf(i)[k] \in {TextPart("a"), TextPart("b")}}
  IN  IF m.content.json = "string" /\ m.content.text # "" THEN <<m.content.text>>
      ELSE [n \in 1..Cardinality(texts) |->
              PartsOf(i)[CHOOSE k \in texts :
                           Cardinality({j \in texts : j <= k}) = n].text]

\* Every message reaches the session, in order and once: system messages in the
\* system message, the others in the prompt, with their role unless alone.
ConversationKept ==
  Accepted =>
    LET system == {i \in DOMAIN messages : messages[i].role = "system"}
        others == DOMAIN messages \ system
        rank(i, S) == Cardinality({j \in S : j <= i})
    IN  /\ Len(outcome.system) = Cardinality(system)
        /\ Len(outcome.prompt) = Cardinality(others)
        /\ \A i \in system : outcome.system[rank(i, system)] = Says(i)
        /\ \A i \in others :
             outcome.prompt[rank(i, others)]
               = [role |-> IF Cardinality(others) = 1 THEN "none"
                           ELSE messages[i].role,
                  text |-> Says(i)]

\* Writing a content and reading it back gives the same content.
ContentRoundTrips ==
  \A i \in DOMAIN messages :
    LET mc == UnmarshalJSON(messages[i].content) IN
    mc.ok => UnmarshalJSON(MarshalJSON(mc)) = mc

=============================================================================
