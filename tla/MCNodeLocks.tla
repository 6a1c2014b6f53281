----------------------------- MODULE MCNodeLocks -----------------------------
(***************************************************************************)
(* Goroutines in threes, such that any two of the nine that wait for       *)
(* others are together in one of them: the lines of a three by three grid. *)
(***************************************************************************)
EXTENDS NodeLocks

Grid ==
  << <<"Recv",          "main",         "statusReceiver">>,
     <<"FileRequester", "SendPings",    "Advertise">>,
     <<"RequestSender", "chatReceiver", "VerifiedBlockWriter">> >>

Lines ==
  {{Grid[i][j] : j \in 1..3} : i \in 1..3}
    \cup {{Grid[i][1 + ((j + a * i) % 3)] : i \in 1..3} : j \in 0..2, a \in 0..2}
=============================================================================
