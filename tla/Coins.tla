------------------------------- MODULE Coins -------------------------------
(***************************************************************************)
(* What the stack of coins views promises: three sets of unspent outputs,  *)
(* one for the block being applied, one for the tip of the active chain    *)
(* and one on disk. A block is applied output by output and becomes the    *)
(* tip's set as a whole or not at all; the disk follows the tip, and a     *)
(* node that goes down comes up with what was on disk.                     *)
(*                                                                         *)
(* The unspent outputs of a transaction are kept with the height of its    *)
(* block; of a transaction with none left, nothing is known.               *)
(***************************************************************************)
EXTENDS Integers

CONSTANTS
    Tx,                 \* transactions, by their hash
    Out                 \* output numbers

VARIABLES
    block,              \* what the view of the block being applied says
    tip,                \* what pcoinsTip says
    disk                \* what pcoinsdbview says

vars == <<block, tip, disk>>

\* A CCoins object: a transaction's outputs that are not spent, and its height.
Coin == [outs : SUBSET Out, height : Nat]

\* What CCoins::Clear leaves.
Gone == [outs |-> {}, height |-> 0]

Init ==
    /\ block = [tx \in Tx |-> Gone]
    /\ tip = block
    /\ disk = block

Spend(tx, n) ==
    /\ n \in block[tx].outs
    /\ block' = [block EXCEPT ![tx] =
                   IF block[tx].outs = {n} THEN Gone
                   ELSE [outs |-> block[tx].outs \ {n}, height |-> block[tx].height]]
    /\ UNCHANGED <<tip, disk>>

\* The outputs of a transaction that has none appear.
Create(tx) ==
    /\ block[tx] = Gone
    /\ block'[tx] \in Coin
    /\ block' = [block EXCEPT ![tx] = block'[tx]]
    /\ UNCHANGED <<tip, disk>>

\* The outputs of a transaction disappear again.
Remove(tx) ==
    /\ block' = [block EXCEPT ![tx] = Gone]
    /\ UNCHANGED <<tip, disk>>

\* A spent output comes back, with the height of those still there.
Restore(tx, n) ==
    /\ n \notin block[tx].outs
    /\ block'[tx] \in Coin
    /\ block'[tx].outs = block[tx].outs \cup {n}
    /\ block[tx] # Gone => block'[tx].height = block[tx].height
    /\ block' = [block EXCEPT ![tx] = block'[tx]]
    /\ UNCHANGED <<tip, disk>>

Commit ==
    /\ tip' = block
    /\ UNCHANGED <<block, disk>>

Discard ==
    /\ block' = tip
    /\ UNCHANGED <<tip, disk>>

Flush ==
    /\ disk' = tip
    /\ UNCHANGED <<block, tip>>

Crash ==
    /\ tip' = disk
    /\ block' = disk
    /\ UNCHANGED disk

Next ==
    \/ \E tx \in Tx, n \in Out : Spend(tx, n) \/ Restore(tx, n)
    \/ \E tx \in Tx : Create(tx) \/ Remove(tx)
    \/ Commit \/ Discard \/ Flush \/ Crash

Spec == Init /\ [][Next]_vars
=============================================================================
