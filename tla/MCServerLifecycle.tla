------------------------- MODULE MCServerLifecycle -------------------------
(* ServerLifecycle with two clients: one that stop() finds in its list and  *)
(* one that is accepted late, or two that are served in turn.               *)
EXTENDS ServerLifecycle
MCClients == {"c1", "c2"}
MCNoClient == "none"
=============================================================================
