----------------------------- MODULE Broadcast -----------------------------
(***************************************************************************)
(* What the main line promises: what somebody said is shown to a node at   *)
(* most once, and nothing else is.                                         *)
(***************************************************************************)
EXTENDS Sequences

CONSTANTS
  Nodes,
  Chats   \* whatever may be said

VARIABLES
  said,   \* what was said
  log     \* what each node has shown so far

vars == <<said, log>>

Init == said = {} /\ log = [n \in Nodes |-> <<>>]

\* One thing more.
Say ==
  /\ \E c \in said' \ said : c \in Chats /\ said' = said \cup {c}
  /\ UNCHANGED log

Show(n, c) ==
  /\ c \in said /\ \A i \in DOMAIN log[n] : log[n][i] # c
  /\ log' = [log EXCEPT ![n] = Append(@, c)]
  /\ UNCHANGED said

Next == Say \/ \E n \in Nodes : \E c \in said : Show(n, c)

Spec == Init /\ [][Next]_vars
=============================================================================
