---------------------------- MODULE MCBlockchain ----------------------------
(***************************************************************************)
(* The block tree TLC explores, in every order of arrival:                 *)
(*                                                                         *)
(*      g -- a1 -- a2 -- a3        the chain that is usually there first   *)
(*       \-- b1 -- b2 -- b3 -- b4  a competitor that ends up heavier       *)
(*             \-- c2 -- c3        a fork of the competitor                *)
(***************************************************************************)
EXTENDS ChainSelectionRefinement, TLC

CONSTANTS g, a1, a2, a3, b1, b2, b3, b4, c2, c3

MCBlocks == {g, a1, a2, a3, b1, b2, b3, b4, c2, c3}

MCPrevious ==
  g :> NoBlock @@ a1 :> g @@ a2 :> a1 @@ a3 :> a2
    @@ b1 :> g @@ b2 :> b1 @@ b3 :> b2 @@ b4 :> b3 @@ c2 :> b1 @@ c3 :> c2

MCHeight ==
  g :> 0 @@ a1 :> 1 @@ a2 :> 2 @@ a3 :> 3
    @@ b1 :> 1 @@ b2 :> 2 @@ b3 :> 3 @@ b4 :> 4 @@ c2 :> 2 @@ c3 :> 3

MCWork == [b \in MCBlocks |-> 1]
MCTotalWork == [b \in MCBlocks |-> MCHeight[b] + 1]

\* Every block is good.
AllContextOK == [b \in MCBlocks |-> TRUE]
AllValid == [b \in MCBlocks |-> {TRUE}]

\* c2 fails PowCheckBlockContext.
SomeContextOK == [b \in MCBlocks |-> b # c2]

\* b2 holds a transaction whose check depends on what SPV knows at the time,
\* b4 one that is always refused.
SomeValid ==
  [b \in MCBlocks |-> CASE b = b2 -> BOOLEAN
                        [] b = b4 -> {FALSE}
                        [] OTHER  -> {TRUE}]
=============================================================================
