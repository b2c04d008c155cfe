----------------------------- MODULE MCBlockSync -----------------------------
(***************************************************************************)
(*      g -- a1 -- a2 -- a3   the chain of the peer, which may mine a3     *)
(*            \--- c2 -- c3   or change to the longer branch               *)
(***************************************************************************)
EXTENDS BlockSync

CONSTANTS g, a1, a2, a3, c2, c3

MCBlocks == {g, a1, a2, a3, c2, c3}
MCPrevious == g :> EmptyHash @@ a1 :> g @@ a2 :> a1 @@ a3 :> a2 @@ c2 :> a1 @@ c3 :> c2
MCBlockHeight == g :> 0 @@ a1 :> 1 @@ a2 :> 2 @@ a3 :> 3 @@ c2 :> 2 @@ c3 :> 3

JustGenesis == <<g>>

\* As many blocks as one message holds, and more once the peer has changed.
Two == {<<g, a1, a2>>}
=============================================================================
