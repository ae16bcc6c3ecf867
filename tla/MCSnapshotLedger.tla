-------------------------- MODULE MCSnapshotLedger ---------------------------
(***************************************************************************)
(* Editions around the 10% tolerance: 90 after 100 is its very edge, 80 is *)
(* too small after either, and one is empty (a source with no name).       *)
(***************************************************************************)
EXTENDS SnapshotLedger, TLC

MCEditions == {[size |-> 100, hash |-> "h1"], [size |-> 90, hash |-> "h2"],
               [size |-> 80, hash |-> "h3"], [size |-> 0, hash |-> "h4"]}

ProviderSymmetry == Permutations(Providers)
==============================================================================
