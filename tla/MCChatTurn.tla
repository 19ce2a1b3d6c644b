------------------------------ MODULE MCChatTurn ------------------------------
(***************************************************************************)
(* Small instances of ChatTurn.  One tick of the clock is an hour and the  *)
(* cooldown of a rule.                                                     *)
(***************************************************************************)
EXTENDS ChatTurn, TLC

CONSTANTS a1, a2, a3, a4, k1, k2, k3, alice, guest

TwoAttempts == {a1, a2}
ThreeAttempts == {a1, a2, a3}
FourAttempts == {a1, a2, a3, a4}
AttemptSymmetry == Permutations(FourAttempts)
AttemptSymmetry3 == Permutations(ThreeAttempts)

\* Two questions of a customer and one of an anonymous visitor.
TwoTurns == {k1, k2}
ThreeTurns == {k1, k2, k3}
OneVisitor == {alice}
TwoVisitors == {alice, guest}
AllByAlice == [k \in TwoTurns |-> alice]
Askers == [k \in ThreeTurns |-> IF k = k3 THEN guest ELSE alice]
Loyal == [v \in OneVisitor |-> v]
Customer1 == [v \in TwoVisitors |-> IF v = alice THEN v ELSE None]

\* A welcome coupon, a recurring one, an instruction and a canned response.
Welcome == [type |-> "generate_coupon", first_message |-> "only", cooldown |-> Forever, cap |-> 2]
Recurring == [type |-> "generate_coupon", first_message |-> "any", cooldown |-> 1, cap |-> 2]
Canned == [type |-> "canned_response", first_message |-> "any", cooldown |-> Forever, cap |-> 1]
Instruct == [type |-> "inject_instruction", first_message |-> "never", cooldown |-> Forever,
             cap |-> 1]

NoRules == <<>>
NothingTriggered == [k \in TwoTurns |-> {}]
CouponRules == <<Recurring>>
AllRules == <<Welcome, Recurring, Instruct, Canned>>
AllTriggered == [k \in TwoTurns |-> IF k = k1 THEN {1, 2, 3} ELSE {3, 4}]
CouponTriggered == [k \in ThreeTurns |-> {1}]
================================================================================
