---------------------------- MODULE MCCallMedia ----------------------------
(* The instance of CallMedia that TLC checks: each scenario moves one thing   *)
(* of the call.                                                               *)
EXTENDS CallMedia

Budget(moved) == [m \in Moves |-> IF m \in DOMAIN moved THEN moved[m] ELSE 0]

MCBudgets == {Budget([members |-> 3, faults |-> 2]),
              Budget([microphone |-> 2, camera |-> 2]),
              Budget([microphone |-> 3, faults |-> 2]),
              Budget([camera |-> 3, faults |-> 1]),
              Budget([screen |-> 4, refusal |-> 1])}
=============================================================================
