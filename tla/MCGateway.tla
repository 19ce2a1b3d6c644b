-------------------------------- MODULE MCGateway --------------------------------
(***************************************************************************)
(* Small instances of Gateway, all in one run.  Endpoints: three requests  *)
(* of one second are enough for a key, its rotation, a lookup in flight    *)
(* and a second rotation with the old key.  Windows: three requests are    *)
(* more than a window of three seconds lets through, and the clock goes on *)
(* until the window slides and its key expires.  Failures: the same with   *)
(* one restart or failure of Redis.                                        *)
(***************************************************************************)
EXTENDS Gateway, TLC

CONSTANTS r1, r2, r3, w1, w2, a, b

ThreeRequests == {r1, r2, r3}
TwoWorkers == {w1, w2}
TwoFields == {a, b}
Interchangeable ==
  Permutations(ThreeRequests) \union Permutations(TwoWorkers) \union Permutations(TwoFields)

Endpoints ==
  [names |-> {"rotate", "update", "redeem"}, requests |-> 3, seconds |-> 0, troubles |-> 1]
Windows ==
  [names |-> {"chat", "analytics"}, requests |-> 3, seconds |-> 3, troubles |-> 0]
Failures ==
  [names |-> {"chat", "admin", "analytics"}, requests |-> 2, seconds |-> 3, troubles |-> 1]
SmallTraffics == {Endpoints, Windows, Failures}
================================================================================
