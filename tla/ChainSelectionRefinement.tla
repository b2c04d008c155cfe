---------------------- MODULE ChainSelectionRefinement ----------------------
(***************************************************************************)
(* Block acceptance implements ChainSelection.  A reorganisation is many   *)
(* steps of Blockchain and one of ChainSelection, the last: until then the *)
(* node still answers for the chain it is leaving.  While the process      *)
(* starts, it answers for what LevelDB holds.                              *)
(***************************************************************************)
EXTENDS Blockchain

CONSTANT TotalWork    \* the work of a block and of all its ancestors

ASSUME TotalWorkAssumption ==
  /\ TotalWork \in [Blocks -> Nat]
  /\ TotalWork[Genesis] = Work[Genesis]
  /\ \A b \in Blocks \ {Genesis} :
       Previous[b] \in Blocks => TotalWork[b] = TotalWork[Previous[b]] + Work[b]

acceptedBlocks ==
  IF Starting THEN headers \cup {Genesis}
  ELSE IF Reorganising THEN Index \ {node}
  ELSE Index

tipBlock ==
  IF Starting THEN IF current.hash = NoBlock THEN Genesis ELSE current.hash
  ELSE IF Reorganising THEN reorgFrom
  ELSE BestChain

Selection == INSTANCE ChainSelection WITH accepted <- acceptedBlocks, tip <- tipBlock

\* Where every block passes its checks and LevelDB takes every batch, the
\* blocks the node has accepted and its tip change only as ChainSelection
\* says: one block at a time, the tip to the heaviest block, ties to the first.
ImplementsChainSelection == Selection!Spec

=============================================================================
