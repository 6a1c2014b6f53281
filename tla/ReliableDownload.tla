-------------------------- MODULE ReliableDownload --------------------------
(***************************************************************************)
(* What the download of a pack promises to the member who started it.      *)
(* "held" is the set of blocks that the member has and knows to have.      *)
(***************************************************************************)
CONSTANT Blocks   \* the blocks of the pack's files

VARIABLES phase, held

vars == <<phase, held>>

Init == phase = "NONE" /\ held = {}

\* Some member of the party offers the pack.
Offer ==
  /\ phase = "NONE"
  /\ phase' = "AVAILABLE"
  /\ UNCHANGED held

\* The user asks for it.
Begin ==
  /\ phase = "AVAILABLE"
  /\ phase' = "ACTIVE"
  /\ UNCHANGED held

\* One more block of the pack.
Gain ==
  /\ phase = "ACTIVE"
  /\ \E b \in Blocks \ held : held' = held \cup {b}
  /\ UNCHANGED phase

Finish ==
  /\ phase = "ACTIVE"
  /\ held = Blocks
  /\ phase' = "COMPLETE"
  /\ UNCHANGED held

\* The user has the list of packs rebuilt.
Forget ==
  /\ phase # "NONE"
  /\ phase' = "NONE"
  /\ held' = {}

Next == Offer \/ Begin \/ Gain \/ Finish \/ Forget

Spec == Init /\ [][Next]_vars
=============================================================================
