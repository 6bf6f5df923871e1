----------------------- MODULE MCStoreOwnershipLease -----------------------
(* Model checking of StoreOwnershipLease: see the README for the runs.     *)
EXTENDS StoreOwnershipLease

CONSTANTS p1, p2, p3, p4

ThreeProcesses == {p1, p2, p3}
FourProcesses == {p1, p2, p3, p4}

\* The scene of the race: p1 died as the owner and two processes reclaim its
\* lease at the same time; a fourth starts when one of them gave up.
DeadOwner ==
  /\ p1 \in alive => \A p \in Process \ {p1} : pc[p] = "off"
  /\ pc[p1] # "off" /\ p1 \notin alive => pc[p1] = "owner"
  /\ \A p \in Process \ {p1} : pc[p] # "off" => p \in alive
  /\ pc[p4] # "off" => pc[p3] = "done"

=============================================================================
