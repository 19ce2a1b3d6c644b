-------------------------------- MODULE TurnLog --------------------------------
(***************************************************************************)
(* What the stored messages promise of a turn, whatever its attempts do:   *)
(* the question of a turn is stored once, in one conversation, and its     *)
(* answer at most once, afterwards and in the same conversation.  Neither  *)
(* changes again.                                                          *)
(***************************************************************************)
CONSTANTS Turns, Conversations, None

VARIABLES
  asked,     \* the conversation that holds the question of each turn
  answered   \* the one that holds its answer

Init ==
  /\ asked = [k \in Turns |-> None]
  /\ answered = [k \in Turns |-> None]

Ask(k) ==
  /\ asked[k] = None
  /\ asked'[k] \in Conversations
  /\ asked' = [asked EXCEPT ![k] = asked'[k]]
  /\ UNCHANGED answered

Answer(k) ==
  /\ asked[k] # None /\ answered[k] = None
  /\ answered' = [answered EXCEPT ![k] = asked[k]]
  /\ UNCHANGED asked

Next == \E k \in Turns : Ask(k) \/ Answer(k)

Spec == Init /\ [][Next]_<<asked, answered>>
================================================================================
