---------------------------- MODULE EventProtocol ----------------------------
(***************************************************************************)
(* What a client of /v1/messages may count on in the events of one         *)
(* attempt: blocks are numbered in order, opened once, written to and      *)
(* closed only while open, and the message ends with no block open.        *)
(* Several blocks may be open at a time: tool blocks stay open until the   *)
(* end.                                                                    *)
(***************************************************************************)
EXTENDS Integers

VARIABLES
  phase,   \* "before", "open", "closing" (message_delta sent), "ended"
  opened,  \* number of blocks opened
  open,    \* the blocks open
  touched  \* the block written to last, -1 for none: makes a delta a step

vars == <<phase, opened, open, touched>>

Init == phase = "before" /\ opened = 0 /\ open = {} /\ touched = -1

StartMessage == /\ phase = "before"
                /\ phase' = "open"
                /\ UNCHANGED <<opened, open, touched>>

StartBlock == /\ phase = "open"
              /\ opened' = opened + 1
              /\ open' = open \cup {opened}
              /\ UNCHANGED <<phase, touched>>

Delta == /\ phase = "open"
         /\ touched' \in open
         /\ UNCHANGED <<phase, opened, open>>

StopBlock == /\ phase = "open"
             /\ \E i \in open : open' = open \ {i}
             /\ UNCHANGED <<phase, opened, touched>>

\* An upstream that fails before its first chunk ends a message that was never
\* started.
CloseMessage == /\ phase \in {"before", "open"} /\ open = {}
                /\ phase' = "closing"
                /\ UNCHANGED <<opened, open, touched>>

EndMessage == /\ phase = "closing"
              /\ phase' = "ended"
              /\ UNCHANGED <<opened, open, touched>>

\* The next attempt writes its message into the same response.
StartOver == /\ phase' = "before" /\ opened' = 0 /\ open' = {} /\ touched' = -1

Next == StartMessage \/ StartBlock \/ Delta \/ StopBlock \/ CloseMessage \/ EndMessage
          \/ StartOver

Spec == Init /\ [][Next]_vars

=============================================================================
