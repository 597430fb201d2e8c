------------------------------- MODULE Requests -------------------------------
(***************************************************************************)
(* The requests of the two endpoints and what is made of them before a     *)
(* provider sees one: ToAnthropic, the redaction of personal data, the     *)
(* text that patterns and the semantic index look at, TranslateRequest,    *)
(* and buildPayload's choice of a body.                                    *)
(*                                                                         *)
(* A text is a sequence of words; what separates joined texts is left out. *)
(* A tool call is named by a number that stands for its id, a picture by   *)
(* its URL.  Raw JSON content is a string, a list of blocks (for the chat  *)
(* endpoint, of parts), something else with words in it, or absent.        *)
(***************************************************************************)
EXTENDS Messages

CONSTANTS
  Words,     \* what texts are made of
  Personal   \* words that the PII presets match

Str(text)   == [form |-> "string", text |-> text]
List(items) == [form |-> "list", items |-> items]
Odd(text)   == [form |-> "odd", text |-> text]
Absent      == [form |-> "absent"]

NoURL == [scheme |-> "none", of |-> 0]
Image(source)      == [type |-> "image", source |-> source]
ImageURL(url)      == [type |-> "image_url", url |-> url]
ToolResult(i, raw) == [type |-> "tool_result", i |-> i, content |-> raw]
\* The text is what the block holds in fields that type Block does not have.
Other(type, text)  == [type |-> type, text |-> text]

Each(Op(_), s) == FlattenSeq([n \in DOMAIN s |-> Op(s[n])])
Where(Test(_), s) == Each(LAMBDA x : IF Test(x) THEN <<x>> ELSE <<>>, s)

-----------------------------------------------------------------------------
(* The requests as the two APIs define them.  A turn of a message may hold *)
(* any block, whoever's it is; in a chat completion calls and results have *)
(* fields of the message.  "document" stands for whatever the code has no  *)
(* fields for: documents, search results, a picture by its file's name, a  *)
(* chat client's audio, file or refusal.                                   *)

OtherTypes == {"thinking", "document"}
BlockTypes == {"text", "tool_use", "tool_result", "image", "image_url"} \cup OtherTypes

ASSUME WordsAssumption == "[REDACTED]" \in Words \ Personal /\ BlockTypes \subseteq Words

TextBlocks == [type : {"text"}, text : Seq(Words)]
Urls       == [scheme : {"none", "data", "https"}, of : Nat]
Images     == [type : {"image"}, source : [data : Urls, url : Urls]]
ImageURLs  == [type : {"image_url"}, url : Urls]
ToolUses   == [type : {"tool_use"}, name : Int, args : Seq(Words)]
Others     == [type : OtherTypes, text : Seq(Words)]

Raws(B) == [form : {"string", "odd"}, text : Seq(Words)]
             \cup [form : {"list"}, items : Seq(B)] \cup {Absent}

ToolResults == [type : {"tool_result"}, i : Int, content : Raws(TextBlocks \cup Images \cup Others)]
Blocks      == TextBlocks \cup Images \cup ToolUses \cup Others \cup ToolResults

Turns == [role : {"user", "assistant"}, content : Raws(Blocks)]
MessageBodies == [system : Raws(TextBlocks), messages : Seq(Turns),
                  choice : {"auto", "any", "tool", "none"}]

ChatTurns ==
  [role : {"user"}, content : Raws(TextBlocks \cup ImageURLs \cup Others), calls : {<<>>}, i : Int]
    \cup [role : {"assistant"}, content : Raws(TextBlocks \cup Others), calls : Seq(ToolUses), i : Int]
    \cup [role : {"system"}, content : Raws(TextBlocks), calls : {<<>>}, i : Int]
    \cup [role : {"tool"}, content : Raws(TextBlocks \cup Images \cup Others), calls : {<<>>}, i : Int]
\* A tool_choice that says "openai" stands for any in OpenAI's form.
ChatBodies == [messages : Seq(ChatTurns), choice : {"openai"}]

-----------------------------------------------------------------------------
(* Raw content. *)

BlocksFromRaw(raw) ==
  CASE raw.form = "string" -> IF raw.text = <<>> THEN <<>> ELSE <<TextBlock(raw.text)>>
    [] raw.form = "list"   -> raw.items
    [] OTHER               -> <<>>

\* BlocksFromRaw returns an error.
Undecodable(raw) == raw.form = "odd"

SystemText(raw) == Texts(BlocksFromRaw(raw))

\* What is no text becomes its type in brackets.
FlattenContent(raw) ==
  Each(LAMBDA b : IF b.type = "text" THEN b.text ELSE <<b.type>>, BlocksFromRaw(raw))

-----------------------------------------------------------------------------
(* A chat completion to a message: ToAnthropic. *)

\* After a system message that is no string the next string starts anew.
AppendRawText(existing, content) ==
  CASE content.form = "string" ->
         Str((IF existing.form = "string" THEN existing.text ELSE <<>>) \o content.text)
    [] OTHER -> IF existing # Absent THEN existing ELSE content

\* parseDataURL; a source has its data or a url.
SourceOf(url) == IF url.scheme = "data" THEN [data |-> url, url |-> NoURL]
                                        ELSE [data |-> NoURL, url |-> url]

UserPart(p) ==
  CASE p.type = "text"      -> <<p>>
    [] p.type = "image_url" -> IF p.url = NoURL THEN <<>> ELSE <<Image(SourceOf(p.url))>>
    [] OTHER                -> <<>>

\* Written again, a block keeps the fields of type Block only.
Rewritten(b) == IF b.type \in OtherTypes THEN Other(b.type, <<>>) ELSE b

\* marshalBlocks drops its error: blocks with a call whose arguments are no JSON
\* are lost together.
MarshalBlocks(bs) ==
  IF \A n \in DOMAIN bs : bs[n].type = "tool_use" /\ bs[n].args # <<>> => ValidArgs(bs[n].args)
  THEN List([n \in DOMAIN bs |-> Rewritten(bs[n])]) ELSE Absent

InBlocks(msg) ==
  CASE msg.role = "assistant" -> BlocksFromRaw(msg.content) \o msg.calls
    [] msg.role = "tool"      -> <<ToolResult(msg.i, msg.content)>>
    [] msg.role = "user"      ->
         CASE msg.content.form = "list"   -> Each(UserPart, msg.content.items)
           [] msg.content.form = "absent" -> <<TextBlock(<<>>)>>
           [] OTHER                       -> <<TextBlock(msg.content.text)>>

InRole(role) == IF role = "assistant" THEN role ELSE "user"

ToAnthropic(o) ==
  LET Told == Where(LAMBDA msg : msg.role = "system", o.messages)
      Rest == Where(LAMBDA msg : msg.role # "system", o.messages)
  IN  [system   |-> FoldLeft(LAMBDA raw, msg : AppendRawText(raw, msg.content), Absent, Told),
       messages |-> [n \in DOMAIN Rest |-> [role |-> InRole(Rest[n].role),
                                            content |-> MarshalBlocks(InBlocks(Rest[n]))]],
       choice   |-> o.choice]

-----------------------------------------------------------------------------
(* What the guardrails do to a message and see of it. *)

Redact(text) == [n \in DOMAIN text |-> IF text[n] \in Personal THEN "[REDACTED]" ELSE text[n]]

\* To be caught: only texts are redacted.
RedactBlockText(b) == IF b.type = "text" THEN TextBlock(Redact(b.text)) ELSE b

\* A tool result becomes a string, whether anything is redacted or not.
RedactBlock(b) ==
  CASE b.type = "text"        -> TextBlock(Redact(b.text))
    [] b.type = "tool_result" -> ToolResult(b.i, Str(Redact(FlattenContent(b.content))))
    [] OTHER                  -> b

RedactContent(raw) ==
  LET old == BlocksFromRaw(raw)
      new == [n \in DOMAIN old |-> RedactBlock(old[n])]
  IN  IF new = old THEN raw
      ELSE IF Len(new) = 1 /\ new[1].type = "text" THEN Str(new[1].text)
      ELSE List([n \in DOMAIN new |-> Rewritten(new[n])])

RedactSystem(raw) ==
  IF SystemText(raw) = <<>> THEN raw
  ELSE IF raw.form = "string" THEN Str(Redact(raw.text))
  ELSE List([n \in DOMAIN raw.items |-> Rewritten(RedactBlockText(raw.items[n]))])

RedactTurn(am) == [am EXCEPT !.content = RedactContent(@)]

\* redactPII, and the body that is made of the message again.
RedactRequestText(m) ==
  [m EXCEPT !.system = RedactSystem(@), !.messages = [n \in DOMAIN @ |-> RedactTurn(@[n])]]

FlatBlock(b) ==
  CASE b.type = "text"        -> b.text
    [] b.type = "tool_result" -> FlattenContent(b.content)
    [] b.type = "tool_use"    -> b.args
    [] OTHER                  -> <<>>

RequestFlatText(m) ==
  SystemText(m.system) \o Each(LAMBDA am : Each(FlatBlock, BlocksFromRaw(am.content)), m.messages)

-----------------------------------------------------------------------------
(* A message to a chat completion: TranslateRequest. *)

ChatMessage(role, parts, calls, i) ==
  [role |-> role, parts |-> parts, calls |-> calls, i |-> i]

AssistantMessage(bs) ==
  LET text  == Texts(bs)
      calls == Where(LAMBDA b : b.type = "tool_use", bs)
  IN  IF text = <<>> /\ calls = <<>> THEN <<>>
      ELSE <<ChatMessage("assistant", IF text = <<>> THEN <<>> ELSE <<TextBlock(text)>>,
                         calls, NoName)>>

Flushed(s) == IF s.parts = <<>> THEN s.out
              ELSE Append(s.out, ChatMessage("user", s.parts, <<>>, NoName))

UrlOf(source) == IF source.url # NoURL THEN source.url ELSE source.data

\* To be caught: what the user said before a tool result is sent after it.
UserBlockUnflushed(s, b) ==
  CASE b.type = "text" /\ b.text # <<>> -> [s EXCEPT !.parts = Append(@, b)]
    [] b.type = "image" /\ UrlOf(b.source) # NoURL ->
         [s EXCEPT !.parts = Append(@, ImageURL(UrlOf(b.source)))]
    [] b.type = "tool_result" ->
         [s EXCEPT !.out = Append(@, ChatMessage("tool", <<TextBlock(FlattenContent(b.content))>>,
                                                 <<>>, b.i))]
    [] OTHER -> s

UserBlock(s, b) ==
  CASE b.type = "text" /\ b.text # <<>> -> [s EXCEPT !.parts = Append(@, b)]
    [] b.type = "image" /\ UrlOf(b.source) # NoURL ->
         [s EXCEPT !.parts = Append(@, ImageURL(UrlOf(b.source)))]
    [] b.type = "tool_result" ->
         [parts |-> <<>>,
          out |-> Append(Flushed(s), ChatMessage("tool", <<TextBlock(FlattenContent(b.content))>>,
                                                 <<>>, b.i))]
    [] OTHER -> s

UserMessages(bs) == Flushed(FoldLeft(UserBlock, [parts |-> <<>>, out |-> <<>>], bs))

\* tool_choice as OpenAI has it is not understood, whatever it is.
TranslateChoice(choice) ==
  CASE choice = "any" -> "required" [] choice \in {"auto", "tool"} -> choice
    [] OTHER -> "absent"

Translatable(m) == \A n \in DOMAIN m.messages : ~Undecodable(m.messages[n].content)

TranslateRequest(m) ==
  LET told == SystemText(m.system)
      Translated(am) == LET bs == BlocksFromRaw(am.content)
                        IN  IF am.role = "assistant" THEN AssistantMessage(bs)
                                                     ELSE UserMessages(bs)
  IN  [messages |-> (IF told = <<>> THEN <<>>
                     ELSE <<ChatMessage("system", <<TextBlock(told)>>, <<>>, NoName)>>)
                      \o Each(Translated, m.messages),
       choice   |-> TranslateChoice(m.choice)]

\* buildPayload: an OpenAI provider gets a translation, the others the body as it is
\* -- of the chat endpoint that of the client, in OpenAI's format, unredacted.
MessagePayload(openai, m) ==
  IF openai THEN TranslateRequest(RedactRequestText(m)) ELSE RedactRequestText(m)
ChatPayload(openai, o) ==
  IF openai THEN TranslateRequest(ToAnthropic(o)) ELSE o

=============================================================================
