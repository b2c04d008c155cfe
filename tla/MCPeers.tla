------------------------------ MODULE MCPeers ------------------------------
(* Small instances of Peers.                                               *)
EXTENDS Peers

\* Bound: addresses are tried at most numRetries times, so known needs none.
\* Bound: a connection object is used once, so a run ends after Conns of them.
MCSeeds == {CHOOSE p \in Peers : TRUE, Self}
=============================================================================
