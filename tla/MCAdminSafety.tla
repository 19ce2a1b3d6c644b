---------------------------- MODULE MCAdminSafety ----------------------------
(***************************************************************************)
(* Small instances of AdminSafety.  One tick of the clock stands for the   *)
(* confirmation delay of the high risk actions (1 to 2 min); the windows   *)
(* keep the order delay < confirmation window of the code.                 *)
(***************************************************************************)
EXTENDS AdminSafety, TLC

CONSTANTS alice, bob, carol, r1, r2, r3

MCRequests == {r1, r2, r3}
RequestSymmetry == Permutations(MCRequests)

\* Two admins of one shop and one of another.
MCAdmins == {alice, bob, carol}
TwoTenants == [i \in MCAdmins |-> IF i = carol THEN "other_shop" ELSE "shop"]
OneAdmin == {alice}
TwoAdmins == {alice, bob}
OneTenant == [i \in TwoAdmins |-> "shop"]
TenantOfOne == [i \in OneAdmin |-> "shop"]

\* The rows of ACTION_DEFINITIONS that differ in what the workflow looks at.
\* The executor is a parameter of execute_action: here it has a handler for
\* segment_customers and delete_customer_data too, which _dispatch lacks so far.
MCDefinitions ==
  [get_analytics |->
     [approval_type |-> "none", confirmation_delay |-> 0, requires_reason |-> FALSE,
      implemented |-> TRUE, supports_rollback |-> FALSE, rollback_window |-> 0],
   segment_customers |->
     [approval_type |-> "simple", confirmation_delay |-> 0, requires_reason |-> FALSE,
      implemented |-> TRUE, supports_rollback |-> TRUE, rollback_window |-> 1],
   generate_bulk_coupons |->
     [approval_type |-> "double", confirmation_delay |-> 1, requires_reason |-> TRUE,
      implemented |-> TRUE, supports_rollback |-> TRUE, rollback_window |-> 1],
   delete_customer_data |->
     [approval_type |-> "human", confirmation_delay |-> 0, requires_reason |-> TRUE,
      implemented |-> TRUE, supports_rollback |-> TRUE, rollback_window |-> 1]]

MCActionNames == DOMAIN MCDefinitions
ConfirmedNames == {"segment_customers", "generate_bulk_coupons"}
DefinitionsOf(names) == [n \in names |-> MCDefinitions[n]]
ConfirmedDefinitions == DefinitionsOf(ConfirmedNames)

\* All operations of AdminAISafetySystem, and those an endpoint calls.
AllOps == Operations
EndpointOps == {"command", "confirm", "reject"}
==============================================================================
