----------------------------- MODULE MCMempool -----------------------------
(***************************************************************************)
(* Transactions for Mempool. "a" and "c" spend the same old output; "b"    *)
(* spends "a", and "d" spends both; "s" spends the first coinbase; "c" has *)
(* a lock time, and "e" stands alone. Two or more blocks compete at every  *)
(* height.                                                                 *)
(***************************************************************************)
EXTENDS Mempool, TLC

MCTx == {"cb1", "cb2", "cb3", "a", "b", "c", "d", "e", "s"}
MCCoinBase == {"cb1", "cb2", "cb3"}
MCBase == {<<"old", 1>>, <<"old", 2>>}

MCVin == [t \in MCTx |->
    CASE t = "a" -> {<<"old", 1>>}
      [] t = "b" -> {<<"a", 1>>}
      [] t = "c" -> {<<"old", 1>>}
      [] t = "d" -> {<<"a", 2>>, <<"b", 1>>}
      [] t = "e" -> {<<"old", 2>>}
      [] t = "s" -> {<<"cb1", 1>>}
      [] OTHER   -> {}]

MCSize == [t \in MCTx |-> IF t \in {"a", "e"} THEN 2 ELSE 1]
MCFee == [t \in MCTx |->
    CASE t = "a" -> 4 [] t = "b" -> 3 [] t = "c" -> 9 [] t = "d" -> 5 [] t = "e" -> 6 [] t = "s" -> 2 [] OTHER -> 0]
MCLockTime == [t \in MCTx |-> IF t = "c" THEN 1 ELSE 0]

MCBlocks == {
    [height |-> 1, vtx |-> <<"cb1", "a">>],
    [height |-> 1, vtx |-> <<"cb1">>],
    [height |-> 2, vtx |-> <<"cb2", "b">>],
    [height |-> 2, vtx |-> <<"cb2", "a", "b">>],
    [height |-> 2, vtx |-> <<"cb2", "c">>],
    [height |-> 3, vtx |-> <<"cb3", "s">>],
    [height |-> 3, vtx |-> <<"cb3", "d">>]}

MCDeltas == {-2, 2}
=============================================================================
