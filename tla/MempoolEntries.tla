--------------------------- MODULE MempoolEntries ---------------------------
(***************************************************************************)
(* The entries of CTxMemPool (txmempool.cpp): their links and totals, and  *)
(* what its methods make of them. Mempool has the callers, the chain and   *)
(* the fee rates.                                                          *)
(*                                                                         *)
(* Scripts, amounts and sizes on the wire are left out: a transaction is   *)
(* the outputs it spends, a size and a fee.                                *)
(***************************************************************************)
EXTENDS Integers, Sequences, FiniteSets, FiniteSetsExt, Functions

CONSTANTS
    Tx,                 \* transactions
    Vin,                \* the outputs a transaction spends, as <<transaction, index>>
    CoinBase,           \* the transactions that are coinbases: they spend nothing
    Base,               \* outputs confirmed long ago
    Size, Fee,          \* of a transaction
    MaxAncestors,       \* -limitancestorcount
    MaxAncestorSize,    \* -limitancestorsize
    MaxDescendants,     \* -limitdescendantcount
    MaxDescendantSize   \* -limitdescendantsize

\* CheckTransaction wants an input of all but coinbases. A transaction names those
\* it spends from by their hashes: no set of them lives on itself.
ASSUME TxAssumption ==
    /\ IsFiniteSet(Tx)
    /\ \A t \in Tx : Vin[t] = {} <=> t \in CoinBase
    /\ \A i \in Base : i[1] \notin Tx
    /\ \A S \in (SUBSET Tx) \ {{}} : \E t \in S : \A i \in Vin[t] : i[1] \notin S

ASSUME SizeAssumption == Size \in [Tx -> Nat \ {0}] /\ Fee \in [Tx -> Int]

VARIABLES
    pool,               \* mapTx and mapLinks: the entries, by transaction
    mapDeltas           \* fee delta of a transaction, in the pool or not

-----------------------------------------------------------------------------
(* The entries and their totals.                                           *)

Sum(f(_), S) == MapThenSumSet(f, S)

\* What a set of entries adds to the totals of an entry.
Totals(p, S) ==
    [count |-> Cardinality(S), size |-> Sum(LAMBDA t : Size[t], S), fees |-> Sum(LAMBDA t : p[t].fee, S)]

Plus(x, y) == [k \in DOMAIN x |-> x[k] + y[k]]
Minus(x, y) == [k \in DOMAIN x |-> x[k] - y[k]]

\* The entries reached from those in S along the links: they are in every set
\* that holds those and all that its members link to.
Closure(p, S, link) ==
    {x \in DOMAIN p : \A C \in SUBSET DOMAIN p :
       (S \subseteq C /\ \A t \in C : p[t][link] \subseteq C) => x \in C}

CalculateDescendants(p, S) == Closure(p, S, "children")
LinkedAncestors(p, t) == Closure(p, p[t].parents, "parents")

\* The pool's transaction that spends an output: mapNextTx.
Spenders(p, outs) == {t \in DOMAIN p : Vin[t] \cap outs # {}}
ParentsOf(p, t) == {i[1] : i \in Vin[t]} \cap DOMAIN p

\* CalculateMemPoolAncestors for a transaction that is not in the pool yet.
NewAncestors(p, t) == Closure(p, ParentsOf(p, t), "parents")

WithinLimits(p, t) ==
    LET ancestors == NewAncestors(p, t)
    IN  /\ Cardinality(ancestors) + 1 <= MaxAncestors
        /\ ancestors # {} => Totals(p, ancestors).size + Size[t] <= MaxAncestorSize
        /\ \A a \in ancestors : /\ p[a].desc.count + 1 <= MaxDescendants
                                /\ p[a].desc.size + Size[t] <= MaxDescendantSize

\* addUnchecked: the entry is linked to its parents; its children, if it was in
\* a block, are left to UpdateTransactionsFromBlock.
AddUnchecked(p, t, ancestors) ==
    LET self == [count |-> 1, size |-> Size[t], fees |-> Fee[t] + mapDeltas[t]]
        parents == ParentsOf(p, t)
    IN  [x \in DOMAIN p \cup {t} |->
           IF x = t THEN [fee |-> self.fees, parents |-> parents, children |-> {},
                          anc |-> Plus(self, Totals(p, ancestors)), desc |-> self]
           ELSE [p[x] EXCEPT !.children = IF x \in parents THEN @ \cup {t} ELSE @,
                             !.desc = IF x \in ancestors THEN Plus(@, self) ELSE @]]

\* Mutant: the ancestors of what is removed are searched for, not taken from the links.
RemoveStagedSearching(p, stagedTx, updateDescendants) ==
    [x \in DOMAIN p \ stagedTx |->
       [p[x] EXCEPT
          !.parents = @ \ stagedTx,
          !.children = @ \ stagedTx,
          !.anc = IF updateDescendants
                  THEN Minus(@, Totals(p, stagedTx \cap LinkedAncestors(p, x))) ELSE @,
          !.desc = Minus(@, Totals(p, {t \in stagedTx : x \in NewAncestors(p, t)}))]]

\* RemoveStaged: UpdateForRemoveFromMempool, then the entries are erased.
RemoveStaged(p, stagedTx, updateDescendants) ==
    [x \in DOMAIN p \ stagedTx |->
       [p[x] EXCEPT
          !.parents = @ \ stagedTx,
          !.children = @ \ stagedTx,
          !.anc = IF updateDescendants
                  THEN Minus(@, Totals(p, stagedTx \cap LinkedAncestors(p, x))) ELSE @,
          !.desc = Minus(@, Totals(p, {t \in stagedTx : x \in LinkedAncestors(p, t)}))]]

\* Mutant: nothing is done for a transaction that is not in the pool.
RemoveRecursiveEntry(p, t) ==
    IF t \in DOMAIN p THEN RemoveStaged(p, CalculateDescendants(p, {t}), FALSE) ELSE p

\* removeRecursive: the transaction with its descendants, or what spends it.
RemoveRecursive(p, t) ==
    LET S == IF t \in DOMAIN p THEN {t} ELSE {x \in DOMAIN p : \E i \in Vin[x] : i[1] = t}
    IN  RemoveStaged(p, CalculateDescendants(p, S), FALSE)

\* Mutant: the transactions of the same block are added once more.
UpdateFromBlockTwice(p, t, included) ==
    LET kids == {x \in DOMAIN p : t \in ParentsOf(p, x)}
        linked == [p EXCEPT ![t].children = @ \cup kids]
        below == CalculateDescendants(linked, linked[t].children)
        self == [count |-> 1, size |-> Size[t], fees |-> p[t].fee]
    IN  [x \in DOMAIN p |->
           [linked[x] EXCEPT
              !.parents = IF x \in kids THEN @ \cup {t} ELSE @,
              !.anc = IF x \in below THEN Plus(@, self) ELSE @,
              !.desc = IF x = t THEN Plus(@, Totals(p, below)) ELSE @]]

\* UpdateTransactionsFromBlock for one transaction that came back; those of the
\* block (included) are in its totals already.
UpdateFromBlock(p, t, included) ==
    LET kids == {x \in DOMAIN p : t \in ParentsOf(p, x)} \ included
        linked == [p EXCEPT ![t].children = @ \cup kids]
        below == CalculateDescendants(linked, linked[t].children) \ included
        self == [count |-> 1, size |-> Size[t], fees |-> p[t].fee]
    IN  [x \in DOMAIN p |->
           [linked[x] EXCEPT
              !.parents = IF x \in kids THEN @ \cup {t} ELSE @,
              !.anc = IF x \in below THEN Plus(@, self) ELSE @,
              !.desc = IF x = t THEN Plus(@, Totals(p, below)) ELSE @]]

\* From the last transaction of the block to the first.
UpdateTransactionsFromBlock(p, hashes) ==
    LET updated[n \in 0 .. Len(hashes)] ==
          IF n = 0 THEN p
          ELSE UpdateFromBlock(updated[n - 1], hashes[Len(hashes) + 1 - n], Range(hashes))
    IN  updated[Len(hashes)]

-----------------------------------------------------------------------------
(* The methods that the callers use.                                       *)

Conflicts(t) == Spenders(pool, Vin[t])

\* The pool with the transaction in it and what it replaces gone.
Accepted(t) ==
    AddUnchecked(RemoveStaged(pool, CalculateDescendants(pool, Conflicts(t)), FALSE),
                 t, NewAncestors(pool, t))

\* PrioritiseTransaction: the delta goes into the fee of the entry and into the
\* totals of all its ancestors and descendants.
Raised(t, d) ==
    [x \in DOMAIN pool |->
       [pool[x] EXCEPT
          !.fee = IF x = t THEN @ + d ELSE @,
          !.desc.fees = IF x \in LinkedAncestors(pool, t) \cup {t} THEN @ + d ELSE @,
          !.anc.fees = IF x \in CalculateDescendants(pool, {t}) THEN @ + d ELSE @]]

\* The place of every input in vin, in some order.
InputPlace ==
    [t \in Tx |-> CHOOSE place \in [Vin[t] -> 1 .. Cardinality(Vin[t])] :
                     \A i, j \in Vin[t] : place[i] = place[j] => i = j]

\* The conflicting transactions that removeConflicts forgets the fee deltas of. It goes
\* input by input: one that is gone already, as a descendant of a conflict over an
\* earlier input, is not looked up any more and keeps its delta.
Forgotten(p, t) ==
    {c \in Spenders(p, Vin[t]) : \E i \in Vin[t] \cap Vin[c] : \A j \in Vin[t] :
        InputPlace[t][j] < InputPlace[t][i] => c \notin CalculateDescendants(p, Spenders(p, {j}))}

\* removeForBlock for one transaction: it is removed, and what conflicts with it, and
\* fee deltas are forgotten.
Confirm(s, t) ==
    LET q == IF t \in DOMAIN s.pool THEN RemoveStaged(s.pool, {t}, TRUE) ELSE s.pool
    IN  [pool |-> RemoveStaged(q, CalculateDescendants(q, Spenders(q, Vin[t])), FALSE),
         deltas |-> [x \in Tx |-> IF x \in Forgotten(q, t) \cup {t} THEN 0 ELSE s.deltas[x]]]

RemoveForBlock(b) ==
    LET removed[n \in 0 .. Len(b.vtx)] ==
          IF n = 0 THEN [pool |-> pool, deltas |-> mapDeltas] ELSE Confirm(removed[n - 1], b.vtx[n])
    IN  removed[Len(b.vtx)]
=============================================================================
