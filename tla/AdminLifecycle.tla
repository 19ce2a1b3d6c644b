---------------------------- MODULE AdminLifecycle ----------------------------
(***************************************************************************)
(* What the admin workflow promises about one action: it moves through its *)
(* statuses in one direction, takes effect at most once, only while it is  *)
(* being executed, and never after it was rejected or expired.  Steps are  *)
(* atomic here; AdminSafety shows which of its instances implement this.   *)
(***************************************************************************)
EXTENDS Naturals

CONSTANT ActionIds

VARIABLES
  phase,  \* the status of each action, "absent" before it is requested
  runs    \* how many times it took effect

Phases == {"absent", "pending_confirmation", "pending_human_approval",
           "approved", "executing", "completed", "failed", "rolled_back",
           "rejected", "expired"}

TypeOK ==
  /\ phase \in [ActionIds -> Phases]
  /\ runs \in [ActionIds -> 0..1]

Init ==
  /\ phase = [a \in ActionIds |-> "absent"]
  /\ runs = [a \in ActionIds |-> 0]

Move(a, from, to) ==
  /\ phase[a] \in from
  /\ \E p \in to : phase' = [phase EXCEPT ![a] = p]
  /\ UNCHANGED runs

Waiting == {"pending_confirmation", "pending_human_approval"}

Submit(a) == runs[a] = 0 /\ Move(a, {"absent"}, Waiting)
Expire(a) == Move(a, {"pending_confirmation"}, {"expired"})
Reject(a) == Move(a, Waiting, {"rejected"})
Approve(a) == Move(a, Waiting, {"approved"})
Start(a) == Move(a, {"approved"}, {"executing"})
\* Completed, if the reply to the write that said so was lost.
Fail(a) == Move(a, {"executing", "completed"}, {"failed"})
Complete(a) == runs[a] = 1 /\ Move(a, {"executing"}, {"completed"})
RollBack(a) == Move(a, {"completed"}, {"rolled_back"})

\* The effect: of an action being executed, or of a read-only action, which
\* is never submitted.
Run(a) ==
  /\ phase[a] \in {"executing", "absent"}
  /\ runs[a] = 0
  /\ runs' = [runs EXCEPT ![a] = 1]
  /\ UNCHANGED phase

Next == \E a \in ActionIds :
  \/ Submit(a) \/ Expire(a) \/ Reject(a) \/ Approve(a)
  \/ Start(a) \/ Run(a) \/ Complete(a) \/ Fail(a) \/ RollBack(a)

Spec == Init /\ [][Next]_<<phase, runs>>
===============================================================================
