---------------------------- MODULE MCReconfigure ----------------------------
(***************************************************************************)
(* Two admin requests, one and a message, or up to three that come one at  *)
(* a time, some with an edit of the file by hand, over four                *)
(* configurations: "one", the first; "two", with rules in the wrong order, *)
(* a scenario and another list of provider a; "bad", whose rule names a    *)
(* provider there is none of; "few", without provider b and with a no      *)
(* longer probed.                                                          *)
(***************************************************************************)
EXTENDS Reconfigure

Prov(name, list, probed) ==
  [name |-> name, type |-> "openai", baseURL |-> TRUE, keys |-> 1, sa |-> FALSE,
   weight |-> 1, models |-> <<>>, list |-> list, probed |-> probed]

Rule(prefix, chain) ==
  [prefix |-> prefix, strip |-> TRUE, chain |-> chain, modelMap |-> {},
   targets |-> <<>>, strategy |-> ""]

None == [threshold |-> 0, chain |-> <<>>]

One == [providers |-> <<Prov("a", <<<<"x">>>>, TRUE), Prov("b", <<<<"y">>>>, FALSE)>>,
        rules |-> <<>>, defChain |-> <<>>, alias |-> FALSE, affinity |-> FALSE,
        long |-> None, image |-> <<>>, thinking |-> <<>>]
Two == [One EXCEPT
  !.providers = <<Prov("a", <<<<"x">>, <<"z">>>>, TRUE), Prov("b", <<<<"y">>>>, FALSE)>>,
  !.rules = <<[Rule(<<"x">>, <<"b", "a">>) EXCEPT !.strategy = "least_busy",
                                                  !.modelMap = {<<<<"x">>, <<"z">>>>}],
              Rule(<<"x", "x">>, <<"b">>),
              [Rule(<<"x", "x", "x">>, <<>>) EXCEPT !.strategy = "weighted",
                 !.targets = <<Target("ghost", <<"x">>), Target("a", <<"x">>)>>]>>,
  !.image = <<"b">>, !.alias = TRUE, !.affinity = TRUE]
Bad == [One EXCEPT !.rules = <<Rule(<<>>, <<"ghost">>)>>]
Few == [One EXCEPT !.providers = <<Prov("a", <<<<"x">>>>, FALSE)>>,
                   !.long = [threshold |-> 2, chain |-> <<"ghost">>]]

MCConfig == [one |-> One, two |-> Two, bad |-> Bad, few |-> Few]
MCModels == {<<"x", "x", "x">>, <<"claude", "x">>}
MCInfos == {[est |-> 2, image |-> FALSE, thinking |-> FALSE, session |-> "s"],
            [est |-> 1, image |-> TRUE, thinking |-> TRUE, session |-> ""]}
MCLoads == {[open |-> {"b"}, busy |-> [a |-> 1, b |-> 0], latency |-> [a |-> 0, b |-> 1]]}
MCHash == [s |-> 1]
MCRequests == {"edit", "admin", "message"}
MCHand == {[edit |-> "few", admin |-> "rollback", message |-> "none"],
           [edit |-> "none", admin |-> "reload", message |-> "none"]}
MCApart == {[edit |-> "few", admin |-> "rollback", message |-> "few"]} \cup MCHand
MCScripts ==
  {[edit |-> "two", admin |-> k, message |-> "none"] : k \in {"few", "rollback", "reload"}}
    \cup {[edit |-> c, admin |-> "none", message |-> "message"] : c \in {"two", "bad", "few"}}
    \cup MCApart
MCByHand == [s \in MCScripts |-> IF s \notin MCHand THEN {}
                                ELSE IF s["admin"] = "reload" THEN {"few", "bad"} ELSE {"two"}]
MCMaxGen == [s \in MCScripts |-> IF s \in MCApart \ MCHand THEN 4 ELSE 3]

=============================================================================
