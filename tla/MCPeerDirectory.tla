--------------------------- MODULE MCPeerDirectory ---------------------------
(* PeerDirectory.tla with one handler of each kind and two key pairs.        *)
EXTENDS PeerDirectory

CONSTANTS send, fetchKeys, inbound, worker

MCKind == [h \in Handler |-> IF h = send THEN "send" ELSE IF h = fetchKeys THEN "keys"
                             ELSE IF h = inbound THEN "inbound" ELSE "worker"]
=============================================================================
