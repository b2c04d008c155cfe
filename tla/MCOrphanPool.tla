---------------------------- MODULE MCOrphanPool ----------------------------
(***************************************************************************)
(* Two families of blocks:  root -- x1 -- x2, x3, x4   and                 *)
(* root -- y1 -- y2 -- y3, with room for two orphans.  The children of x1  *)
(* are interchangeable.                                                    *)
(***************************************************************************)
EXTENDS OrphanPool, TLC

CONSTANTS x1, x2, x3, x4, y1, y2, y3

MCBlocks == {x1, x2, x3, x4, y1, y2, y3}
MCPrevious == x1 :> Root @@ x2 :> x1 @@ x3 :> x1 @@ x4 :> x1
    @@ y1 :> Root @@ y2 :> y1 @@ y3 :> y2

ChildrenOfX1 == Permutations({x2, x3, x4})
=============================================================================
