--------------------------- MODULE ChainSelection ---------------------------
(***************************************************************************)
(* What block acceptance promises to the rest of the node: it knows a set  *)
(* of blocks closed under Previous, and its tip is the block with the most *)
(* total work among them, the first one it saw of several.  A restart      *)
(* forgets all but one chain.                                              *)
(***************************************************************************)
EXTENDS Naturals

CONSTANTS
  Blocks, Genesis, Previous,
  TotalWork     \* the work of a block and of all its ancestors

VARIABLES
  accepted,     \* the blocks the node has accepted
  tip           \* the end of its best chain

\* S is the chain from the genesis block to t.
IsChain(S, t) ==
  /\ Genesis \in S /\ t \in S
  /\ \A b \in S \ {Genesis} : Previous[b] \in S
  /\ \A b \in S : Previous[b] # t
  /\ \A b, c \in S : Previous[b] = Previous[c] => b = c

Init ==
  /\ accepted = {Genesis}
  /\ tip = Genesis

Accept(b) ==
  /\ b \notin accepted /\ Previous[b] \in accepted
  /\ accepted' = accepted \cup {b}
  /\ tip' = IF TotalWork[b] > TotalWork[tip] THEN b ELSE tip

\* The block that was being accepted may be on the chain that is left.
Restart(b) ==
  /\ accepted' \subseteq accepted \cup {b}
  /\ tip' \in accepted'
  /\ IsChain(accepted', tip')

Next == \E b \in Blocks : Accept(b) \/ Restart(b)

Spec == Init /\ [][Next]_<<accepted, tip>>

=============================================================================
