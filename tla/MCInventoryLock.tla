--------------------------- MODULE MCInventoryLock ---------------------------
(***************************************************************************)
(* A small instance of InventoryLock: two inventories, three entries, one  *)
(* of them also with another weight and another gloss.                     *)
(***************************************************************************)
EXTENDS InventoryLock

Entry(id, addr, note) == [id |-> id, addr |-> addr, note |-> note]

A      == Entry("a", "w1", "g1")
AHeavy == Entry("a", "w2", "g1")
AGloss == Entry("a", "w1", "g2")
B      == Entry("b", "w1", "g1")
C      == Entry("c", "w1", "g1")

MCEntries == {A, AHeavy, AGloss, B, C}

\* Appended, inserted, reordered, truncated, reweighted, reworded, duplicated.
MCContents == {<<>>, <<A>>, <<A, B>>, <<A, C, B>>, <<B, A>>, <<AHeavy, B>>,
               <<AGloss, B, C>>, <<A, A>>}

MCInventories == <<"onsets", "suffixes">>
==============================================================================
