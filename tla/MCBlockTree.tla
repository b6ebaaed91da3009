---------------------------- MODULE MCBlockTree ----------------------------
(***************************************************************************)
(* A small block tree for BlockTree; the configurations use all of it or   *)
(* the blocks up to some number. A name in brackets gives the chain work.  *)
(*                                                                         *)
(*          1[2] -- 2[3] -- 3[5] -- 6[6]                                   *)
(*        /       \                                                        *)
(*   0[1]           7[3] -- 8[6]                                           *)
(*        \                                                                *)
(*          4[2] -- 5[4]                                                   *)
(***************************************************************************)
EXTENDS BlockTree, TLC

TreeParent == (1 :> 0 @@ 2 :> 1 @@ 3 :> 2 @@ 4 :> 0 @@ 5 :> 4 @@ 6 :> 3 @@ 7 :> 1 @@ 8 :> 7)
TreeWork == (0 :> 1 @@ 1 :> 2 @@ 2 :> 3 @@ 3 :> 5 @@ 4 :> 2 @@ 5 :> 4 @@ 6 :> 6 @@ 7 :> 3
             @@ 8 :> 6)

MCParent == [b \in Block \ {0} |-> TreeParent[b]]
MCWork == [b \in Block |-> TreeWork[b]]
=============================================================================
