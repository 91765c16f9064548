-------------------------------- MODULE MCWs --------------------------------
(* Requests over one websocket, two with the same credentials. *)
EXTENDS WsConnection

CONSTANTS r1, r2, r3, key, other

MCAuthOf == [r \in Request |-> IF r = r3 THEN other ELSE key]

=============================================================================
