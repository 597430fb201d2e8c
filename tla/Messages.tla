------------------------------- MODULE Messages -------------------------------
(***************************************************************************)
(* The translations of package core between an OpenAI chat completion,     *)
(* whole or streamed, and an Anthropic message, whole or streamed, as      *)
(* operators.                                                              *)
(*                                                                         *)
(* A text is the sequence of its fragments, each a number.  The arguments  *)
(* of a tool call are a sequence of "open" and "close" fragments and are   *)
(* valid JSON when the one "close" comes last.  A tool call's id and name  *)
(* are the number of the call, or NoName.  A chunk of an OpenAI stream is  *)
(* one piece of content, or the finish reason, or the usage: a chunk that  *)
(* carries several has the effect of its pieces one after the other.       *)
(***************************************************************************)
EXTENDS Integers, FiniteSets, Sequences, SequencesExt

NoName == -1

\* A string of JSON that is empty or not there.
Empty == ""

Text(n)            == [kind |-> "text", n |-> n]
Tool(i, head, arg) == [kind |-> "tool", i |-> i, head |-> head, arg |-> arg]
Finish(why)        == [kind |-> "finish", why |-> why]
Usage              == [kind |-> "usage"]

\* Content blocks, and a message: MessageResponse.
TextBlock(text)       == [type |-> "text", text |-> text]
ToolBlock(name, args) == [type |-> "tool_use", name |-> name, args |-> args]
Message(content, stop, usage) == [content |-> content, stop |-> stop, usage |-> usage]
EmptyMessage == Message(<<TextBlock(<<>>)>>, "end_turn", "estimated")

\* Events of an Anthropic stream.
MessageStart          == [ev |-> "message_start"]
TextStart(idx)        == [ev |-> "block_start", idx |-> idx, type |-> "text"]
ToolStart(idx, name)  == [ev |-> "block_start", idx |-> idx, type |-> "tool_use",
                          name |-> name]
TextDelta(idx, text)  == [ev |-> "text_delta", idx |-> idx, text |-> text]
JsonDelta(idx, args)  == [ev |-> "json_delta", idx |-> idx, args |-> args]
BlockStop(idx)        == [ev |-> "block_stop", idx |-> idx]
MessageDelta(stop, u) == [ev |-> "message_delta", stop |-> stop, usage |-> u]
MessageStop           == [ev |-> "message_stop"]

\* json.Valid; an empty argument string becomes {}.
ValidArgs(args) ==
  args # <<>> /\ \A i \in DOMAIN args : args[i] = "close" <=> i = Len(args)

\* To be caught: the validity is not checked.
OrEmptyUnchecked(args) == args

OrEmpty(args) == IF ValidArgs(args) THEN args ELSE <<>>

With(f, x, y) == [z \in DOMAIN f \cup {x} |-> IF z = x THEN y ELSE f[z]]
SortInts(S) == CHOOSE s \in [1 .. Cardinality(S) -> S] :
                 \A i, j \in 1 .. Cardinality(S) : i < j => s[i] < s[j]

StopFromFinish(why) ==
  CASE why = "length" -> "max_tokens" [] why = "tool_calls" -> "tool_use"
    [] OTHER -> "end_turn"

\* AnthropicToOpenAIResponse and mapStopReason.
FinishFromStop(stop) ==
  CASE stop = "tool_use" -> "tool_calls" [] stop = "max_tokens" -> "length"
    [] OTHER -> "stop"

-----------------------------------------------------------------------------
(* StreamTranslator: an OpenAI stream to Anthropic events.  "out" is what  *)
(* has been emitted.                                                       *)

NewTranslator == [started |-> FALSE, next |-> 0, openText |-> FALSE, textIdx |-> 0,
                  tools |-> <<>>, stop |-> Empty, usage |-> "estimated", out |-> <<>>]

Emit(t, e) == [t EXCEPT !.out = Append(@, e)]

Start(t) == IF t.started THEN t ELSE Emit([t EXCEPT !.started = TRUE], MessageStart)

\* To be caught: a text after a tool call goes on in the block closed before it.
EnsureTextOnce(t) ==
  IF t.openText \/ \E i \in DOMAIN t.out : t.out[i] = TextStart(t.textIdx) THEN t
  ELSE Emit([t EXCEPT !.openText = TRUE, !.textIdx = t.next, !.next = @ + 1],
            TextStart(t.next))

EnsureText(t) ==
  IF t.openText THEN t
  ELSE Emit([t EXCEPT !.openText = TRUE, !.textIdx = t.next, !.next = @ + 1],
            TextStart(t.next))

CloseText(t) ==
  IF ~t.openText THEN t
  ELSE Emit([t EXCEPT !.openText = FALSE], BlockStop(t.textIdx))

OpenTool(t, i, name) ==
  LET u == CloseText(t)
  IN  Emit([u EXCEPT !.tools = With(@, i, u.next), !.next = @ + 1],
           ToolStart(u.next, name))

\* To be caught: arguments go to the block opened last.
ToolChunkLast(t, c) ==
  LET u == IF c.i \in DOMAIN t.tools THEN t
           ELSE OpenTool(t, c.i, IF c.head THEN c.i ELSE NoName)
  IN  IF c.arg = Empty THEN u ELSE Emit(u, JsonDelta(u.next - 1, <<c.arg>>))

\* The block start has been sent when a later delta brings the name.
ToolChunk(t, c) ==
  LET u == IF c.i \in DOMAIN t.tools THEN t
           ELSE OpenTool(t, c.i, IF c.head THEN c.i ELSE NoName)
  IN  IF c.arg = Empty THEN u ELSE Emit(u, JsonDelta(u.tools[c.i], <<c.arg>>))

TextChunk(t, c) == LET u == EnsureText(t) IN Emit(u, TextDelta(u.textIdx, <<c.n>>))

\* To be caught: the translator stops at the finish reason, before the usage.
ChunkUntilFinish(t, c) ==
  CASE t.stop # Empty        -> t
    [] c.kind = "text"    -> TextChunk(t, c)
    [] c.kind = "tool"    -> ToolChunk(t, c)
    [] c.kind = "finish"  -> [t EXCEPT !.stop = StopFromFinish(c.why)]
    [] c.kind = "usage"   -> [t EXCEPT !.usage = "reported"]

Chunk(t, c) ==
  CASE c.kind = "text"   -> TextChunk(t, c)
    [] c.kind = "tool"   -> ToolChunk(t, c)
    [] c.kind = "finish" -> [t EXCEPT !.stop = StopFromFinish(c.why)]
    [] c.kind = "usage"  -> [t EXCEPT !.usage = "reported"]

StopTools(t) ==
  LET order == SortInts(DOMAIN t.tools)
  IN  [t EXCEPT !.out = @ \o [n \in DOMAIN order |-> BlockStop(t.tools[order[n]])]]

OrEndTurn(stop) == IF stop = Empty THEN "end_turn" ELSE stop

Finalize(t) ==
  Emit(Emit(StopTools(CloseText(t)), MessageDelta(OrEndTurn(t.stop), t.usage)),
       MessageStop)

-----------------------------------------------------------------------------
(* CollectOpenAIStream: an OpenAI stream to a message.                     *)

CollectPiece(a, c) ==
  CASE c.kind = "text"   -> [a EXCEPT !.text = Append(@, c.n)]
    [] c.kind = "finish" -> [a EXCEPT !.stop = StopFromFinish(c.why)]
    [] c.kind = "usage"  -> [a EXCEPT !.usage = "reported"]
    [] c.kind = "tool"   ->
         LET old == IF c.i \in DOMAIN a.tools THEN a.tools[c.i]
                    ELSE [name |-> NoName, args |-> <<>>]
         IN  [a EXCEPT !.tools = With(@, c.i,
               [name |-> IF c.head THEN c.i ELSE old.name,
                args |-> IF c.arg = Empty THEN old.args ELSE Append(old.args, c.arg)])]

OrEmptyText(content) == IF content = <<>> THEN <<TextBlock(<<>>)>> ELSE content

Gathered(pieces) ==
  FoldLeft(CollectPiece, [text |-> <<>>, tools |-> <<>>, stop |-> Empty,
                          usage |-> "estimated"], pieces)

CollectOpenAI(pieces) ==
  LET a == Gathered(pieces)
      order == SortInts(DOMAIN a.tools)
      tools == [n \in DOMAIN order |->
                  ToolBlock(a.tools[order[n]].name, OrEmpty(a.tools[order[n]].args))]
  IN  Message(OrEmptyText((IF a.text = <<>> THEN <<>> ELSE <<TextBlock(a.text)>>) \o tools),
              OrEndTurn(a.stop), a.usage)

-----------------------------------------------------------------------------
(* CollectAnthropicStream: Anthropic events to a message.  The stop reason *)
(* is looked for beside the delta that carries it, and never found.        *)

CollectEvent(a, e) ==
  CASE e.ev = "block_start" ->
         [a EXCEPT !.blocks = With(@, e.idx, [type |-> e.type, text |-> <<>>, args |-> <<>>,
                    name |-> IF e.type = "text" THEN NoName ELSE e.name])]
    [] e.ev = "text_delta" /\ e.idx \in DOMAIN a.blocks ->
         [a EXCEPT !.blocks[e.idx].text = @ \o e.text]
    [] e.ev = "json_delta" /\ e.idx \in DOMAIN a.blocks ->
         [a EXCEPT !.blocks[e.idx].args = @ \o e.args]
    [] e.ev = "message_delta" -> IF e.usage = "reported" THEN [a EXCEPT !.usage = e.usage]
                                 ELSE a
    [] OTHER -> a

Assembled(events) == FoldLeft(CollectEvent, [blocks |-> <<>>, usage |-> "estimated"], events)

CollectAnthropic(events) ==
  LET a == Assembled(events)
      order == SortInts(DOMAIN a.blocks)
  IN  Message(OrEmptyText([n \in DOMAIN order |->
        LET b == a.blocks[order[n]]
        IN  IF b.type = "text" THEN TextBlock(b.text) ELSE ToolBlock(b.name, OrEmpty(b.args))]),
        "end_turn", a.usage)

-----------------------------------------------------------------------------
(* WriteSyntheticStream: a message to Anthropic events.                    *)

SyntheticBlock(idx, b) ==
  IF b.type = "text"
  THEN <<TextStart(idx)>> \o (IF b.text = <<>> THEN <<>> ELSE <<TextDelta(idx, b.text)>>)
         \o <<BlockStop(idx)>>
  ELSE <<ToolStart(idx, b.name), JsonDelta(idx, b.args), BlockStop(idx)>>

Synthetic(m) ==
  <<MessageStart>>
    \o FlattenSeq([n \in DOMAIN m.content |-> SyntheticBlock(n - 1, m.content[n])])
    \o <<MessageDelta(m.stop, m.usage), MessageStop>>

-----------------------------------------------------------------------------
(* TranslateResponse: a whole completion, given by its pieces, to a        *)
(* message.  Arguments are taken as they are; if they are no JSON the      *)
(* message cannot be marshalled.                                           *)

PlacesOf(pieces, kind) == {n \in DOMAIN pieces : pieces[n].kind = kind}
CallsOf(pieces) == {c.i : c \in {x \in Range(pieces) : x.kind = "tool"}}
ArgIn(c, i) == IF c.kind = "tool" /\ c.i = i /\ c.arg # Empty THEN <<c.arg>> ELSE <<>>
ArgsOf(pieces, i) == FlattenSeq([n \in DOMAIN pieces |-> ArgIn(pieces[n], i)])
SaidIn(c) == IF c.kind = "text" THEN <<c.n>> ELSE <<>>
TextOf(pieces) == FlattenSeq([n \in DOMAIN pieces |-> SaidIn(pieces[n])])
NameOf(pieces, i) ==
  IF \E n \in PlacesOf(pieces, "tool") : pieces[n].i = i /\ pieces[n].head THEN i ELSE NoName
FinishOf(pieces) == LET at == PlacesOf(pieces, "finish")
                    IN  IF at = {} THEN Empty ELSE pieces[Max(at)].why
UsageOf(pieces) == IF PlacesOf(pieces, "usage") = {} THEN "estimated" ELSE "reported"

TranslateResponse(pieces) ==
  LET calls == SortInts(CallsOf(pieces))
      text  == TextOf(pieces)
  IN  Message(OrEmptyText(
        (IF text = <<>> THEN <<>> ELSE <<TextBlock(text)>>)
          \o [n \in DOMAIN calls |->
                ToolBlock(NameOf(pieces, calls[n]), ArgsOf(pieces, calls[n]))]),
        StopFromFinish(FinishOf(pieces)), UsageOf(pieces))

Marshals(m) == \A n \in DOMAIN m.content :
  m.content[n].type = "tool_use" /\ m.content[n].args # <<>> => ValidArgs(m.content[n].args)

-----------------------------------------------------------------------------
(* An OpenAI answer: AnthropicToOpenAIResponse, and streamOpenAI's chunks. *)

CallIn(b) == IF b.type = "tool_use" THEN <<b>> ELSE <<>>
ToolBlocks(m) == FlattenSeq([n \in DOMAIN m.content |-> CallIn(m.content[n])])
TextIn(b) == IF b.type = "text" THEN b.text ELSE <<>>
Texts(bs) == FlattenSeq([n \in DOMAIN bs |-> TextIn(bs[n])])

ToOpenAI(m) == [text |-> Texts(m.content), calls |-> ToolBlocks(m),
                finish |-> FinishFromStop(m.stop)]

ChatText(text) == [kind |-> "text", text |-> text]
ChatCall(i, name, args) == [kind |-> "call", i |-> i, name |-> name, args |-> args]

\* Every tool call is sent with index 0.
ToOpenAIChunks(m) ==
  [n \in DOMAIN m.content |->
     LET b == m.content[n]
     IN  IF b.type = "text" THEN ChatText(b.text) ELSE ChatCall(0, b.name, b.args)]
    \o <<Finish(FinishFromStop(m.stop))>>

=============================================================================
