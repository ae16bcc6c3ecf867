---------------------------- MODULE AddressSpace -----------------------------
(***************************************************************************)
(* What the append-only guard is for (ADR-0014): a stored index is a       *)
(* position in an inventory and must name the same entry for ever.  The    *)
(* released inventories may only grow at their end.                        *)
(***************************************************************************)
CONSTANTS Paths, Unborn

VARIABLE space  \* path -> what each position means, or Unborn

Extends(longer, shorter) ==
  \A i \in DOMAIN shorter : i \in DOMAIN longer /\ longer[i] = shorter[i]

Init == space = [p \in Paths |-> Unborn]

Grow ==
  /\ DOMAIN space' = Paths
  /\ \A p \in Paths : space[p] # Unborn => space'[p] # Unborn /\ Extends(space'[p], space[p])

Spec == Init /\ [][Grow]_space
==============================================================================
