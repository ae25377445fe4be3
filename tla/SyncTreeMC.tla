----------------------------- MODULE SyncTreeMC -----------------------------
(* A tree with two levels and a rank with two children.                    *)
EXTENDS SyncTree, TLC

MCRank == 0..4
MCParent == 1 :> 0 @@ 2 :> 0 @@ 3 :> 1 @@ 4 :> 1
MCDepth == 0 :> 0 @@ 1 :> 1 @@ 2 :> 1 @@ 3 :> 2 @@ 4 :> 2
=============================================================================
