---------------------------- MODULE MCWebSocket ----------------------------
(* One connection, for model checking: the phone sends more than it is sent. *)
EXTENDS WebSocket

MCMaxMessages == [e \in {"server", "client"} |-> IF e = "client" THEN 2 ELSE 1]
=============================================================================
