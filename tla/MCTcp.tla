-------------------------------- MODULE MCTcp --------------------------------
(***************************************************************************)
(* Instances of Tcp for TLC, one per behaviour: the client writes and the  *)
(* server, which waits for it in tcp_accept, reads, with the client        *)
(* closing at any time, or every socket is closed, and read from, without  *)
(* data.                                                                   *)
(***************************************************************************)
EXTENDS Tcp

VARIABLE scene

MCInit == Init /\ scene \in {"stream", "teardown"}

InScene ==
  \/ /\ scene = "stream"
     /\ "closed" \notin {user'[Listener], user'[Accepted]}
     /\ ~reading'[Client]
     /\ accepting' \/ user'[Accepted] = "open" \/ sock'[Client].state = "NONE"
  \/ /\ scene = "teardown"
     /\ writing' = writing

MCNext == Next /\ InScene /\ UNCHANGED scene
MCSpec == MCInit /\ [][MCNext]_<<vars, scene>>
=============================================================================
