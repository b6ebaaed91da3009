---------------------------- MODULE MCCoinsView ----------------------------
(***************************************************************************)
(* Instances of CoinsView for TLC. c1 and c2 are coinbases; ta spends one  *)
(* of the two outputs of c1, tb the other one and, in the same block or a  *)
(* later one, the only output of ta. The coinbase c2 has no output that    *)
(* can be spent.                                                           *)
(***************************************************************************)
EXTENDS CoinsView

CONSTANTS c1, c2, ta, tb

MCTx == {c1, c2, ta, tb}
MCCoinBase == {c1, c2}
MCInput == [tx \in MCTx |-> CASE tx = ta -> <<<<c1, 0>>>>
                              [] tx = tb -> <<<<c1, 1>>, <<ta, 0>>>>
                              [] OTHER -> <<>>]
MCOutput == [tx \in MCTx |-> CASE tx = c1 -> {0, 1}
                               [] tx = c2 -> {}
                               [] OTHER -> {0}]
=============================================================================
