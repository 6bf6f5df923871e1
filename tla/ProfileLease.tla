----------------------------- MODULE ProfileLease -----------------------------
(***************************************************************************)
(* What acquireStoreOwnershipLease promises the processes that open a      *)
(* profile, without files: one owner, a live process, until it gives the   *)
(* profile up or dies.  A dead process never owns the profile again.       *)
(* StoreOwnershipLease implements this module; BackupRestore uses it.      *)
(***************************************************************************)
CONSTANTS Process, None

VARIABLES
  owner,  \* the process that owns the profile, None if there is none
  dead    \* the processes that have ended

leaseVars == <<owner, dead>>

Init ==
  /\ owner = None
  /\ dead = {}

Acquire(p) ==
  /\ owner = None /\ p \notin dead
  /\ owner' = p
  /\ UNCHANGED dead

GiveUp(p) ==
  /\ owner = p
  /\ owner' = None
  /\ UNCHANGED dead

Die(p) ==
  /\ p \notin dead
  /\ dead' = dead \cup {p}
  /\ owner' = IF owner = p THEN None ELSE owner

Next == \E p \in Process : Acquire(p) \/ GiveUp(p) \/ Die(p)

Spec == Init /\ [][Next]_leaseVars

===============================================================================
