-------------------------------- MODULE MCWidget --------------------------------
(***************************************************************************)
(* Small instances of Widget: the answer to the second message comes with  *)
(* a coupon and a product.                                                 *)
(***************************************************************************)
EXTENDS Widget, TLC

CONSTANTS t1, t2, c1, c2

OneTab == {t1}
TwoTabs == {t1, t2}
CallsOfOne == [t \in TwoTabs |-> IF t = t1 THEN {c1, c2} ELSE {}]
OneCallEach == [t \in TwoTabs |-> IF t = t1 THEN {c1} ELSE {c2}]
First == {1}
Second == {2}
Both == {1, 2}
AllTroubles == Troubles
================================================================================
