------------------------------- MODULE Delivery -------------------------------
(***************************************************************************)
(* How the body of a successful upstream answer reaches the client: one    *)
(* request of /v1/messages or /v1/chat/completions, streamed or not, whose *)
(* attempts may meet any type of provider and either kind of body, ending  *)
(* well, cut short or in an error at any point.                            *)
(*                                                                         *)
(* The upstream produces pieces of content; an OpenAI provider sends them  *)
(* as chunks, an Anthropic one as a message of its own.                    *)
(***************************************************************************)
EXTENDS Requests, FiniteSets

CONSTANTS
  Attempts,   \* upstream answers with a 2xx status a request may meet
  MaxPieces,  \* bound on the pieces of a request's bodies together
  MessageRequests,  \* what may be asked of /v1/messages
  ChatRequests      \* and of /v1/chat/completions

ASSUME DeliveryAssumption == Attempts \in Nat /\ MaxPieces \in Nat
ASSUME RequestsAssumption ==
  MessageRequests \subseteq MessageBodies /\ ChatRequests \subseteq ChatBodies

VARIABLES
  req,     \* [chat, stream, scan]: the endpoint, what the client asked for, and
           \* whether guardrails.response.blocked_patterns is not empty
  up,      \* [openai, sse, cached]: provider type and body of the current attempt,
           \* and whether the answer counts tokens read from or written to a cache
  pieces,  \* what the upstream has produced in this attempt
  count,   \* pieces of all attempts
  tr,      \* the StreamTranslator
  pend,    \* events about to be written, inside the handler
  out,     \* events written in this attempt
  pc,      \* where the handler stands
  left,    \* attempts left
  cut,     \* history: the attempt's body was no complete answer read to its end
  before,  \* history: what earlier attempts have written into the response
  reply,   \* what the client got in the end
  usage,   \* history: "reported" as logged and charged, or not: /v1/messages then
           \* charges its own estimate, the chat endpoint nothing
  cache    \* history: the answer's cache tokens have been charged

vars == <<req, up, pieces, count, tr, pend, out, pc, left, cut, before, reply, usage, cache>>

Kinds == {"none", "stream", "message", "chat", "chatStream", "unmarshalled",
          "blocked", "broken", "exhausted"}
Reply(kind, what) == [kind |-> kind, what |-> what]

\* OpenAI's usage has no cache tokens that this code reads.
Upstreams == {u \in [openai : BOOLEAN, sse : BOOLEAN, cached : BOOLEAN] : u.cached => ~u.openai}

Init ==
  /\ req \in [chat : BOOLEAN, stream : BOOLEAN, scan : BOOLEAN]
  /\ up = [openai |-> TRUE, sse |-> TRUE, cached |-> FALSE]
  /\ pieces = <<>> /\ count = 0
  /\ tr = NewTranslator
  /\ pend = <<>> /\ out = <<>>
  /\ pc = "call"
  /\ left = Attempts
  /\ cut = FALSE /\ before = <<>>
  /\ reply = Reply("none", <<>>)
  /\ usage = "estimated" /\ cache = FALSE

-----------------------------------------------------------------------------
(* Upstream. *)

Calls == {0, 1}
Offers ==
  {Text(count)} \cup {Finish("tool_calls")} \cup {Usage}
    \cup {Tool(i, head, arg) : i \in Calls, head \in BOOLEAN,
                               arg \in {Empty, "open", "close"}}

\* A call's first delta has its id and name, the others more of its arguments;
\* after the finish reason there is only the usage.
Follows(c) ==
  /\ c.kind = "tool" => /\ c.head <=> c.i \notin CallsOf(pieces)
                        /\ c.head \/ c.arg # Empty
  /\ PlacesOf(pieces, "finish") # {} => c.kind = "usage"
  /\ c.kind = "usage" => PlacesOf(pieces, "usage") = {}

\* The message an Anthropic provider makes of them: a block for each text piece,
\* and one for each call where its first delta comes.
UpstreamBlock(n) ==
  LET c == pieces[n] IN
  CASE c.kind = "text" -> <<TextBlock(<<c.n>>)>>
    [] c.kind = "tool" /\ (\A k \in 1 .. n - 1 : pieces[k].kind = "tool" => pieces[k].i # c.i) ->
         <<ToolBlock(NameOf(pieces, c.i), OrEmpty(ArgsOf(pieces, c.i)))>>
    [] OTHER -> <<>>
UpstreamMessage == Message(FlattenSeq([n \in DOMAIN pieces |-> UpstreamBlock(n)]),
                           StopFromFinish(FinishOf(pieces)), UsageOf(pieces))

-----------------------------------------------------------------------------
(* Which code reads the body. *)

Decoder ==
  CASE ~req.chat /\ req.stream /\ ~req.scan ->
         (IF up.openai THEN (IF up.sse THEN "translate" ELSE "collectOpenAI")
                       ELSE (IF up.sse THEN "pass" ELSE "parse"))
    [] req.stream /\ (req.chat \/ req.scan) ->
         (IF ~up.openai /\ up.sse THEN "collectAnthropic" ELSE "collectOpenAI")
    [] ~req.chat /\ ~req.stream ->
         (IF up.openai THEN (IF up.sse THEN "collectOpenAI" ELSE "response")
                       ELSE (IF up.sse THEN "collectAnthropic" ELSE "parse"))
    [] req.chat /\ ~req.stream ->
         \* The body has been read to its end and closed before.
         (IF up.sse THEN "closed" ELSE IF up.openai THEN "response" ELSE "parse")

\* The scan for data: lines finds none in a JSON body, and no choices in
\* Anthropic events.
FindsNothing == Decoder = "collectOpenAI" /\ ~(up.openai /\ up.sse)

\* What a decoder that does not write as it reads makes of the body; k events of
\* an Anthropic stream have come.
Decoded(k) ==
  CASE Decoder = "collectOpenAI" ->
         IF FindsNothing THEN EmptyMessage ELSE CollectOpenAI(pieces)
    [] Decoder = "collectAnthropic" ->
         CollectAnthropic(SubSeq(Synthetic(UpstreamMessage), 1, k))
    [] Decoder = "response" -> TranslateResponse(pieces)
    [] Decoder = "parse"    -> UpstreamMessage

\* The input and output tokens of the events passed on.
UsageSeen(events) ==
  IF \E e \in Range(events) : e.ev = "message_delta" /\ e.usage = "reported"
  THEN "reported" ELSE "estimated"

\* Cache tokens come in the message_start, or with a whole message; streamOpenAI
\* charges none of them.
CacheSeen(k) ==
  /\ up.cached /\ ~(req.chat /\ req.stream)
  /\ Decoder = "parse" \/ (Decoder = "collectAnthropic" /\ k > 0)

-----------------------------------------------------------------------------
(* The handlers. *)

Done(kind, what) == pc' = "done" /\ reply' = Reply(kind, what)

\* An upstream answers 2xx.  What a failed attempt has written, its message_delta
\* and message_stop with it, stays in the response (handlers.go:523).
Call ==
  /\ pc = "call" /\ left > 0
  /\ up' \in Upstreams
  /\ left' = left - 1
  /\ pieces' = <<>> /\ tr' = NewTranslator /\ cut' = FALSE
  /\ before' = before \o out /\ out' = <<>>
  /\ pc' = "body"
  /\ UNCHANGED <<req, count, pend, reply, usage, cache>>

\* The error goes into the same response, which may hold events already.
GiveUp ==
  /\ pc = "call" /\ left = 0
  /\ Done("exhausted", <<>>)
  /\ UNCHANGED <<req, up, pieces, count, tr, pend, out, left, cut, before, usage, cache>>

\* The translator emits while the body is read.
Receive ==
  /\ pc = "body" /\ pend = <<>> /\ count < MaxPieces
  /\ \E c \in Offers :
       /\ Follows(c)
       /\ pieces' = Append(pieces, c)
       /\ count' = count + 1
       /\ IF Decoder = "translate"
          THEN LET t == Chunk(Start(tr), c)
               IN  tr' = t /\ pend' = SubSeq(t.out, Len(tr.out) + 1, Len(t.out))
          ELSE UNCHANGED <<tr, pend>>
  /\ UNCHANGED <<req, up, out, pc, left, cut, before, reply, usage, cache>>

\* One event is written and flushed.
Write ==
  /\ pend # <<>>
  /\ out' = Append(out, Head(pend))
  /\ pend' = Tail(pend)
  /\ UNCHANGED <<req, up, pieces, count, tr, pc, left, cut, before, reply, usage, cache>>

\* Finalize runs on every path; a body that fails at once has not been started.
EndTranslation(failed) ==
  /\ pc = "body" /\ pend = <<>> /\ Decoder = "translate"
  /\ LET t == Finalize(IF failed THEN tr ELSE Start(tr))
     IN  pend' = SubSeq(t.out, Len(tr.out) + 1, Len(t.out))
  /\ cut' = failed
  /\ pc' = IF failed THEN "failed" ELSE "last"
  /\ usage' = IF failed THEN usage ELSE tr.usage
  /\ cache' = FALSE
  /\ UNCHANGED <<req, up, pieces, count, tr, out, left, before, reply>>

\* PassthroughAnthropicStream, all lines of the body together.
Pass(failed) ==
  /\ pc = "body" /\ pend = <<>> /\ Decoder = "pass"
  /\ LET events == Synthetic(UpstreamMessage) IN
     \E k \in 0 .. Len(events) :
       /\ pend' = SubSeq(events, 1, k)
       /\ cut' = (failed \/ k < Len(events))
       /\ usage' = IF failed THEN usage ELSE UsageSeen(pend')
       /\ cache' = (~failed /\ k > 0 /\ up.cached)
  /\ pc' = IF failed THEN "failed" ELSE "last"
  /\ UNCHANGED <<req, up, pieces, count, tr, out, left, before, reply>>

\* The other ways: the body is read first.  An error event, or a body that just
\* ends, is no failure.
Collect ==
  /\ pc = "body" /\ pend = <<>> /\ Decoder \notin {"translate", "pass", "closed"}
  /\ \E k \in 0 .. Len(Synthetic(UpstreamMessage)) :
       LET m == Decoded(k)
           whole == k = Len(Synthetic(UpstreamMessage))
       IN  /\ Decoder # "collectAnthropic" => whole
           /\ cut' = ~whole
           /\ usage' = m.usage /\ cache' = CacheSeen(k)
           /\ \/ /\ ~req.chat /\ req.stream
                 /\ pend' = Synthetic(m) /\ pc' = "last"
                 /\ UNCHANGED reply
              \/ /\ ~req.chat /\ ~req.stream
                 /\ Marshals(m) /\ Done("message", m)
                 /\ UNCHANGED pend
              \/ /\ ~req.chat /\ ~req.stream
                 /\ ~Marshals(m) /\ Done("unmarshalled", <<>>)
                 /\ UNCHANGED pend
              \/ /\ req.chat /\ ~req.stream
                 /\ Done("chat", ToOpenAI(m))
                 /\ UNCHANGED pend
              \/ /\ req.chat /\ req.stream
                 /\ Done("chatStream", ToOpenAIChunks(m))
                 /\ UNCHANGED pend
              \/ /\ ~req.chat /\ req.scan
                 /\ Done("blocked", <<>>)
                 /\ UNCHANGED pend
  /\ UNCHANGED <<req, up, pieces, count, tr, out, left, before>>

\* Reading or parsing fails: the next key, but streamOpenAI has sent its header.  An
\* event stream that answers a chat request not streamed fails though all of it has
\* been read: it is collected from the closed body.
Fail ==
  /\ pc = "body" /\ pend = <<>> /\ Decoder \notin {"translate", "pass"}
  /\ cut' \in BOOLEAN /\ (Decoder # "closed" => cut')
  /\ IF req.chat /\ req.stream THEN Done("broken", <<>>)
                               ELSE pc' = "failed" /\ UNCHANGED reply
  /\ UNCHANGED <<req, up, pieces, count, tr, pend, out, left, before, usage, cache>>

Retry ==
  /\ pc = "failed" /\ pend = <<>>
  /\ pc' = "call"
  /\ UNCHANGED <<req, up, pieces, count, tr, pend, out, left, cut, before, reply, usage, cache>>

\* To be caught: the handler returns with events unwritten.
ReturnEarly ==
  /\ pc = "last"
  /\ Done("stream", before \o out)
  /\ UNCHANGED <<req, up, pieces, count, tr, pend, out, left, cut, before, usage, cache>>

Return ==
  /\ pc = "last" /\ pend = <<>>
  /\ Done("stream", before \o out)
  /\ UNCHANGED <<req, up, pieces, count, tr, pend, out, left, cut, before, usage, cache>>

Next ==
  \/ Call \/ GiveUp \/ Receive \/ Write
  \/ \E failed \in BOOLEAN : EndTranslation(failed) \/ Pass(failed)
  \/ Collect \/ Fail \/ Retry \/ Return

Spec == Init /\ [][Next]_vars

-----------------------------------------------------------------------------
(* What the client has. *)

Delivered == reply.kind \in {"stream", "message", "chat", "chatStream"}

CallsIn(blocks) == {<<b.name, OrEmpty(b.args)>> : b \in blocks}
ViewOf(m) == [text  |-> Texts(m.content),
              calls |-> CallsIn({b \in Range(m.content) : b.type = "tool_use"})]

ChatCalls == {c \in Range(reply.what) : c.kind = "call"}
ChatTextIn(c) == IF c.kind = "text" THEN c.text ELSE <<>>

\* Texts and calls, as a client puts them together from the reply.
View ==
  CASE reply.kind = "stream"  -> ViewOf(CollectAnthropic(reply.what))
    [] reply.kind = "message" -> ViewOf(reply.what)
    [] reply.kind = "chat"    -> [text  |-> reply.what.text,
                                  calls |-> CallsIn(Range(reply.what.calls))]
    [] reply.kind = "chatStream" ->
         [text  |-> FlattenSeq([n \in DOMAIN reply.what |-> ChatTextIn(reply.what[n])]),
          calls |-> CallsIn(ChatCalls)]

UpstreamView ==
  [text  |-> TextOf(pieces),
   calls |-> {<<NameOf(pieces, i), OrEmpty(ArgsOf(pieces, i))>> : i \in CallsOf(pieces)}]

\* The positions of the events of a kind.
At(s, ev) == {n \in DOMAIN s : s[n].ev = ev}

StopIn(events) == LET ends == At(events, "message_delta")
                  IN  IF ends = {} THEN "end_turn" ELSE events[Min(ends)].stop
StopSeen ==
  CASE reply.kind = "message" -> reply.what.stop
    [] reply.kind = "stream"  -> StopIn(reply.what)
    [] reply.kind = "chat"       -> StopFromFinish(reply.what.finish)
    [] reply.kind = "chatStream" -> StopFromFinish(Last(reply.what).why)

-----------------------------------------------------------------------------
(* Properties. *)

(***************************************************************************)
(* Types; and nothing is left to write once the handler has returned.      *)
(***************************************************************************)
TypeOK ==
  /\ req \in [chat : BOOLEAN, stream : BOOLEAN, scan : BOOLEAN]
  /\ up \in Upstreams
  /\ pc \in {"call", "body", "failed", "last", "done"}
  /\ left \in 0 .. Attempts /\ count \in 0 .. MaxPieces /\ Len(pieces) <= count
  /\ reply.kind \in Kinds
  /\ pc \in {"call", "done"} => pend = <<>>
  /\ usage \in {"reported", "estimated"} /\ cache \in BOOLEAN

(***************************************************************************)
(* An answer delivered from one complete body, into a response no failed   *)
(* attempt has written to, carries all its text in order, and every tool   *)
(* call with its own arguments ({} for what is no JSON), whatever the two  *)
(* protocols and however chunks of text and calls interleave -- except     *)
(* that the OpenAI collector makes an empty message of a body that is no   *)
(* OpenAI event stream.                                                    *)
(***************************************************************************)
ContentKept ==
  Delivered /\ ~cut /\ before = <<>> =>
    View = IF FindsNothing THEN [text |-> <<>>, calls |-> {}] ELSE UpstreamView

(***************************************************************************)
(* The stop reason of a response from one body is the upstream's, and the  *)
(* usage reported by the upstream, its cache tokens with it, is what is    *)
(* logged and charged -- except that a collected Anthropic stream always   *)
(* ends its turn, an unread body has neither, and a streamed chat          *)
(* completion is charged for no cache tokens.  Nothing is said of the stop *)
(* reason of a response that a failed attempt has written to: it may hold  *)
(* that attempt's own end, message_stop and all, before the answer.        *)
(***************************************************************************)
StopAndUsageKept ==
  Delivered /\ ~cut =>
    /\ before = <<>> =>
         StopSeen = IF FindsNothing \/ Decoder = "collectAnthropic" THEN "end_turn"
                    ELSE StopFromFinish(FinishOf(pieces))
    /\ usage = IF FindsNothing THEN "estimated" ELSE UsageOf(pieces)
    /\ cache = (up.cached /\ ~FindsNothing /\ ~(req.chat /\ req.stream))

(***************************************************************************)
(* An answer that has been received whole is delivered, blocked, or lost   *)
(* in one of two ways: a chat request that is not streamed loses one that  *)
(* comes as an event stream, and tries on; and /v1/messages loses a        *)
(* completion whose tool arguments are no JSON, which cannot be            *)
(* marshalled: an empty body is sent with status 200.  A response is       *)
(* written into twice only if the client asked for a stream and nothing    *)
(* scans it first.                                                         *)
(***************************************************************************)
LossesKnown ==
  /\ pc \in {"failed", "call", "done"} /\ left < Attempts /\ ~cut =>
       \/ Delivered \/ reply.kind \in {"blocked", "unmarshalled"}
       \/ req.chat /\ ~req.stream /\ up.sse
  /\ reply.kind = "unmarshalled" =>
       /\ Decoder = "response" /\ ~req.chat
       /\ \E i \in CallsOf(pieces) : ~ValidArgs(ArgsOf(pieces, i))
  /\ before # <<>> => req.stream /\ ~req.chat /\ ~req.scan

-----------------------------------------------------------------------------
(* What there is in a conversation, as a sequence of items: words said,    *)
(* pictures, calls, results, blocks of other kinds -- each as it is.       *)

Item(who, kind, what) == [class |-> <<who, kind>>, what |-> what]
Said(who, text) == [n \in DOMAIN text |-> Item(who, "text", TextBlock(<<text[n]>>))]

BlockItems(who, b) ==
  CASE b.type = "text"        -> Said(who, b.text)
    [] b.type = "tool_use"    -> <<Item(who, "call", b)>>
    [] b.type = "tool_result" -> <<Item(who, "result", b)>>
    [] b.type \in OtherTypes  -> <<Item(who, "other", b)>>
    [] b.type = "image_url" /\ b.url # NoURL -> <<Item(who, "picture", b)>>
    [] b.type = "image" /\ UrlOf(b.source) # NoURL -> <<Item(who, "picture", ImageURL(UrlOf(b.source)))>>
    [] OTHER -> <<>>

ContentItems(who, raw) == Each(LAMBDA b : BlockItems(who, b), BlocksFromRaw(raw))

MessageItems(m) ==
  Said("system", SystemText(m.system))
    \o Each(LAMBDA am : ContentItems(am.role, am.content), m.messages)

\* A chat message of the client's, and one that is sent.
Asked(msg) ==
  CASE msg.role = "tool" -> <<Item("user", "result", ToolResult(msg.i, msg.content))>>
    [] msg.role = "user" /\ Undecodable(msg.content) -> Said("user", msg.content.text)
    [] OTHER -> ContentItems(msg.role, msg.content)
                  \o [n \in DOMAIN msg.calls |-> Item(msg.role, "call", msg.calls[n])]
Sent(cm) ==
  IF cm.role = "tool"
  THEN <<Item("user", "result", ToolResult(cm.i, Str(Texts(cm.parts))))>>
  ELSE ContentItems(cm.role, List(cm.parts))
         \o [n \in DOMAIN cm.calls |-> Item(cm.role, "call", cm.calls[n])]

\* What happens to items: a result becomes a string, in which all that is no text is
\* the name of its kind; what PII presets match is replaced; and what the code has no
\* fields for is emptied.
FlattenItem(it) ==
  IF it.class[2] = "result" THEN [it EXCEPT !.what.content = Str(FlattenContent(@))] ELSE it
RedactItem(it) ==
  CASE it.class[2] = "text"   -> [it EXCEPT !.what.text = Redact(@)]
    [] it.class[2] = "result" -> [it EXCEPT !.what.content = Str(Redact(FlattenContent(@)))]
    [] OTHER -> it
EmptyItem(it) == IF it.class[2] = "other" THEN [it EXCEPT !.what.text = <<>>] ELSE it

\* A turn that redaction changes is written again, all of it.
TurnGot(am) ==
  LET items == ContentItems(am.role, am.content)
      said  == [n \in DOMAIN items |-> RedactItem(items[n])]
  IN  IF said = items THEN items ELSE [n \in DOMAIN said |-> EmptyItem(said[n])]
MessageGot(m) == Said("system", Redact(SystemText(m.system))) \o Each(TurnGot, m.messages)

\* What an OpenAI provider can be told: no blocks of other kinds, nothing an assistant
\* shows or returns, no calls of a user's.
Classes == {<<"system", "text">>, <<"user", "text">>, <<"user", "picture">>,
            <<"user", "result">>, <<"assistant", "text">>, <<"assistant", "call">>}
Unordered == {{<<"assistant", "text">>, <<"assistant", "call">>}}

OfClass(C, items) == Where(LAMBDA it : it.class \in C, items)

\* Items of any two classes but a turn's text and calls keep their order.
SameItems(s, t) ==
  \A x, y \in Classes : {x, y} \notin Unordered => OfClass({x, y}, s) = OfClass({x, y}, t)

\* Messages of a chat client that marshalBlocks loses, and what it says to the system
\* that no provider is told; system messages go first.
Unmarshalled(msg) == MarshalBlocks(InBlocks(msg)) = Absent
SystemSaid(o) == LET told == Where(LAMBDA msg : msg.role = "system", o.messages)
                 IN  Each(LAMBDA msg : Asked(msg), told)
AllStrings(o) == \A n \in DOMAIN o.messages :
  o.messages[n].role = "system" => o.messages[n].content.form = "string"
TurnItems(o) == LET turns == Where(LAMBDA msg : msg.role # "system", o.messages)
                IN  Each(LAMBDA msg : IF Unmarshalled(msg) THEN <<>> ELSE Asked(msg), turns)

WordsIn(items) ==
  UNION {CASE items[n].class[2] = "text"   -> Range(items[n].what.text)
           [] items[n].class[2] = "result" -> Range(FlattenContent(items[n].what.content))
           [] items[n].class[2] = "call"   -> Range(items[n].what.args)
           [] OTHER -> {} : n \in DOMAIN items}

\* Nothing has been sent yet.
Fresh == pc = "call" /\ left = Attempts

(***************************************************************************)
(* Providers get the conversation -- what was said, shown, called and      *)
(* returned, by whom, in order -- redacted, and but for these losses.      *)
(*                                                                         *)
(* A result becomes one string, its pictures and documents words like      *)
(* "[image]"; so it does for Anthropic providers too, as redaction writes  *)
(* every result of /v1/messages so.  In a turn that redaction changes,     *)
(* Anthropic providers get thinking and blocks of other kinds empty.       *)
(* OpenAI providers are told none of these, and of an assistant's turn the *)
(* calls after the text (Classes, Unordered).                              *)
(*                                                                         *)
(* Of a chat client's request an OpenAI provider misses, besides, a turn   *)
(* with a call whose arguments are no JSON, system messages from the first *)
(* that is no string, and the tool_choice; of a message's, a tool_choice   *)
(* of "none".                                                              *)
(***************************************************************************)
RequestKept ==
  /\ Fresh /\ ~req.chat => \A m \in MessageRequests :
       /\ MessageItems(MessagePayload(FALSE, m)) = MessageGot(m)
       /\ Translatable(m) =>
            /\ SameItems(MessageGot(m), Each(Sent, MessagePayload(TRUE, m).messages))
            /\ MessagePayload(TRUE, m).choice # "absent" <=> m.choice \in {"auto", "any", "tool"}
  /\ Fresh /\ req.chat => \A o \in ChatRequests :
       LET sent == Each(Sent, ChatPayload(TRUE, o).messages)
           turns == Where(LAMBDA it : it.class[1] # "system", sent)
           asked == [n \in DOMAIN TurnItems(o) |-> FlattenItem(TurnItems(o)[n])]
       IN  /\ SameItems(asked, turns)
           /\ AllStrings(o) => Where(LAMBDA it : it.class[1] = "system", sent) = SystemSaid(o)
           /\ ChatPayload(TRUE, o).choice = "absent"

(***************************************************************************)
(* What patterns and PII presets look at is what providers get: a word     *)
(* that is sent has been seen by the patterns, and a personal word that    *)
(* goes to a provider from /v1/messages is part of a call.  Only the       *)
(* bodies other providers get hold more: thinking and blocks of other      *)
(* kinds (of which WordsIn takes no words), and contents that do not       *)
(* decode; and of a chat client's what RequestKept says is lost, pictures  *)
(* in a result, or an assistant's content that is no list of blocks.       *)
(***************************************************************************)
NothingUnseen ==
  /\ Fresh /\ ~req.chat => \A m \in MessageRequests :
       LET items == MessageItems(MessagePayload(FALSE, m)) IN
       /\ WordsIn(items) \subseteq Range(RequestFlatText(RedactRequestText(m)))
       /\ Translatable(m) => WordsIn(Each(Sent, MessagePayload(TRUE, m).messages))
                               \subseteq WordsIn(items)
       /\ WordsIn(Where(LAMBDA it : it.class[2] # "call", items)) \cap Personal = {}
  /\ Fresh /\ req.chat => \A o \in ChatRequests :
       LET seen == Range(RequestFlatText(ToAnthropic(o))) IN
       /\ WordsIn(Each(Sent, ChatPayload(TRUE, o).messages)) \subseteq seen
       /\ WordsIn(TurnItems(o)) \subseteq seen

\* What the events s make of EventProtocol's variables.
Indices(s, ev) == {s[n].idx : n \in At(s, ev)}

Phase(s) == IF At(s, "message_stop") # {} THEN "ended"
            ELSE IF At(s, "message_delta") # {} THEN "closing"
            ELSE IF At(s, "message_start") # {} THEN "open" ELSE "before"
Opened(s) == Cardinality(At(s, "block_start"))
Open(s) == Indices(s, "block_start") \ Indices(s, "block_stop")
Touched(s) == LET deltas == At(s, "text_delta") \cup At(s, "json_delta")
              IN  IF deltas = {} THEN -1 ELSE s[Max(deltas)].idx

Protocol == INSTANCE EventProtocol WITH
  phase <- Phase(out), opened <- Opened(out), open <- Open(out), touched <- Touched(out)

(***************************************************************************)
(* The events of an attempt follow EventProtocol, one write at a time, for *)
(* the translator and for WriteSyntheticStream.                            *)
(***************************************************************************)
FollowsProtocol == Protocol!Spec

-----------------------------------------------------------------------------
(* What the documentation says and the code does not do. *)

(***************************************************************************)
(* "Full Anthropic <-> OpenAI protocol translation, both directions,       *)
(* including streaming SSE" (README): a client of a streamed chat          *)
(* completion, which tells tool calls apart by their index, finds every    *)
(* call the upstream made.                                                 *)
(***************************************************************************)
ChatCallsDistinct ==
  reply.kind = "chatStream" /\ ~cut /\ ~FindsNothing =>
    Cardinality({c.i : c \in ChatCalls}) = Cardinality(CallsOf(pieces))

=============================================================================
