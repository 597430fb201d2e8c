------------------------------ MODULE MCDelivery ------------------------------
(***************************************************************************)
(* Model checking of Delivery, with conversations of one turn of up to     *)
(* three blocks, and of two turns of up to one.                            *)
(***************************************************************************)
EXTENDS Delivery, TLC

MCWords == {"hi", "pii", "ok", "hm", "out", "o", "be", "it", "x", "open", "close", "[REDACTED]"}
             \cup BlockTypes

Url == [scheme |-> "data", of |-> 1]
Link == [scheme |-> "https", of |-> 2]
Document == Other("document", <<"pii">>)
Results == {Str(<<"pii">>), Odd(<<"o">>),
            List(<<TextBlock(<<"out">>), Image(SourceOf(Link)), Document>>)}

UserBlocks == {TextBlock(<<"hi">>), TextBlock(<<"pii">>), TextBlock(<<>>), Image(SourceOf(Url)),
               Image([data |-> NoURL, url |-> NoURL]), Document, ToolBlock(2, <<"pii">>)}
                \cup {ToolResult(1, raw) : raw \in Results}
AssistantBlocks == {TextBlock(<<"ok", "pii">>), TextBlock(<<"ok">>), Other("thinking", <<"hm">>),
                    ToolBlock(1, <<>>), ToolBlock(2, <<"pii", "close">>),
                    Image(SourceOf(Link)), ToolResult(1, Str(<<"ok">>))}
SystemBlocks == {TextBlock(<<"be">>), TextBlock(<<"pii">>)}
UpTo(S, n) == UNION {[1 .. k -> S] : k \in 0 .. n}
Contents(S, n) == {Absent, Str(<<>>), Str(<<"pii">>), Odd(<<"pii">>)} \cup {List(s) : s \in UpTo(S, n)}
MCTurns(n) == {[role |-> "user", content |-> raw] : raw \in Contents(UserBlocks, n)}
              \cup {[role |-> "assistant", content |-> raw] : raw \in Contents(AssistantBlocks, n)}

MessageRequest(system, turns, choice) ==
  [system |-> system, messages |-> turns, choice |-> choice]
MCMessageRequests ==
  {MessageRequest(Absent, <<t>>, "any") : t \in MCTurns(3)}
    \cup {MessageRequest(Absent, <<t, u>>, "none") : t, u \in MCTurns(1)}
    \cup {MessageRequest(raw, <<>>, "auto") : raw \in Contents(SystemBlocks, 2)}

Msg(role, raw, calls, i) == [role |-> role, content |-> raw, calls |-> calls, i |-> i]
Parts == {TextBlock(<<"hi">>), Document, ImageURL(Url), ImageURL(Link), ImageURL(NoURL)}
MCChatTurns ==
  {Msg("user", raw, <<>>, NoName) : raw \in Contents(Parts, 1)}
    \cup {Msg("system", raw, <<>>, NoName) : raw \in {Str(<<"be">>), List(<<TextBlock(<<"it">>)>>)}}
    \cup {Msg("tool", raw, <<>>, 1) : raw \in Results}
    \cup {Msg("assistant", raw, calls, NoName) : raw \in {Absent, Str(<<"ok">>), Odd(<<"o">>), List(<<Document>>)},
            calls \in UpTo({ToolBlock(1, <<"x", "close">>), ToolBlock(2, <<"open">>)}, 2)}
MCChatRequests == {[messages |-> s, choice |-> "openai"] : s \in UpTo(MCChatTurns, 2)}

=============================================================================
