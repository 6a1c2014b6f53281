------------------------------ MODULE MCSeeder ------------------------------
(***************************************************************************)
(* Small instances of Seeder: party "a" shares a file "f" of two or three  *)
(* blocks.  "peer" downloads it; "self" is this node.  The times keep the  *)
(* order that matters, FRESH < EXPIRY and EXPIRY + 1 < 2 * FRESH, and       *)
(* ChanCap is twice the number of keys or less.                            *)
(***************************************************************************)
EXTENDS Seeder

OneParty    == [f \in Files |-> "a"]
TwoBlocks   == [f \in Files |-> 2]
ThreeBlocks == [f \in Files |-> 3]
=============================================================================
