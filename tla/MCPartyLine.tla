----------------------------- MODULE MCPartyLine -----------------------------
(* Two situations of one party in one run: a member joins, or somebody chats *)
(* while members stop.                                                       *)
EXTENDS PartyLine

VARIABLE situation

\* Everybody but the invitees is in the party.
JoinInit ==
  LET members == Founders \ Invitees
  IN  /\ inParty = members
      /\ minList = [n \in Nodes |-> IF n \in members THEN members ELSE {}]
      /\ pending = [n \in Nodes |-> {}]
      /\ accepting = [n \in Nodes |-> {}]
      /\ seenChats = [n \in Nodes |-> {}]
      /\ shown = [n \in Nodes |-> [c \in Chats |-> 0]]
      /\ crashed = {}
      /\ net = {}
      /\ invites = 0
      /\ left = <<>>
      /\ sent = <<>>

MCInit ==
  \/ situation = "join" /\ JoinInit
  \/ situation = "chat" /\ Init

MCNext ==
  /\ Next
  /\ situation = "join" => sent' = sent /\ crashed' = crashed
  /\ situation = "chat" => invites' = invites
  /\ UNCHANGED situation

mcVars == <<vars, situation>>

MCSpec == MCInit /\ [][MCNext]_mcVars /\ Fairness
=============================================================================
