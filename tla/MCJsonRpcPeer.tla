--------------------------- MODULE MCJsonRpcPeer ---------------------------
(* Up to three messages of any kind: requests, a notice and a server       *)
(* request that share the chain of writes, notifications for two handlers  *)
(* that come and go.                                                       *)
EXTENDS JsonRpcPeer

CONSTANTS r1, r2, n1, s1, h1, h2
=============================================================================
