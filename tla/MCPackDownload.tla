--------------------------- MODULE MCPackDownload ---------------------------
(***************************************************************************)
(* Small packs for the runs of PackDownload.  Sizes are in bytes of a      *)
(* two-byte block: "pair" has two blocks, its last one short; "single",    *)
(* "even" and "triple" have one, two and three full blocks, and their      *)
(* chains end in an extra empty block.  In the chain of "triple" there are *)
(* both children of block 0, and the extra block is a child of block 1.    *)
(***************************************************************************)
EXTENDS PackDownload

MCSize == [c \in Contents |-> CASE c = "single" -> 2
                                [] c = "pair"   -> 3
                                [] c = "even"   -> 4
                                [] c = "triple" -> 6]

TwoFiles   == <<"pair", "single">>
EvenFile   == <<"even">>
TripleFile == <<"triple">>
=============================================================================
