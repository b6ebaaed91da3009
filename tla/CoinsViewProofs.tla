-------------------------- MODULE CoinsViewProofs --------------------------
(***************************************************************************)
(* Proofs about CoinsView, for every set of transactions: the flags of     *)
(* the caches, that the caches implement the three sets of unspent outputs *)
(* of Coins, that UpdateCoins never meets a spent input, that a block is   *)
(* undone exactly, and that what is on disk can be undone.                 *)
(***************************************************************************)
EXTENDS CoinsView, TLAPS

\* Zenon proves a leaf unless the leaf names the SMT solver.
USE Zenon

-----------------------------------------------------------------------------
(* Sequences. *)

LEMMA SeqEntry == ASSUME NEW S, NEW s \in Seq(S), NEW i \in 1 .. Len(s) PROVE s[i] \in S
  BY SMT

LEMMA SeqEmpty ==
  ASSUME NEW S
  PROVE  /\ <<>> \in Seq(S) /\ Len(<<>>) = 0
         /\ \A s \in Seq(S) : s # <<>> => Len(s) \in Nat \ {0}
  BY SMT

LEMMA SeqSame ==
  ASSUME NEW S, NEW s \in Seq(S), NEW r \in Seq(S),
         Len(s) = Len(r), \A i \in 1 .. Len(s) : s[i] = r[i]
  PROVE  s = r
  BY SMT

LEMMA SeqAppend ==
  ASSUME NEW S, NEW s \in Seq(S), NEW e \in S
  PROVE  /\ Append(s, e) \in Seq(S) /\ Append(s, e) # <<>>
         /\ Len(Append(s, e)) = Len(s) + 1
         /\ \A i \in 1 .. Len(s) : Append(s, e)[i] = s[i]
         /\ Append(s, e)[Len(s) + 1] = e
  BY SMT

LEMMA Prefix ==
  ASSUME NEW S, NEW s \in Seq(S), NEW n \in 0 .. Len(s)
  PROVE  /\ SubSeq(s, 1, n) \in Seq(S)
         /\ Len(SubSeq(s, 1, n)) = n
         /\ \A i \in 1 .. n : SubSeq(s, 1, n)[i] = s[i]
  BY SMT

LEMMA PrefixAll == ASSUME NEW S, NEW s \in Seq(S) PROVE SubSeq(s, 1, Len(s)) = s
  BY SMT, Prefix, SeqSame

-----------------------------------------------------------------------------
(* Single entries. *)

\* What a cache may hold for a transaction, outputs with the height of a block.
Raw == {c \in [outs : SUBSET Out, height : Nat] : c.outs # {} => c.height # 0}

\* What a view answers, where "none left" is always the same.
Clean == {c \in Raw : c.outs = {} => c = Gone}

Slot == [coins : Raw, dirty : BOOLEAN, fresh : BOOLEAN]

Map == [Tx -> Clean]

\* The answer of a cache with entry e over a base that answers b.
Ans(e, b) == IF e # NONE THEN Norm(e.coins) ELSE b

\* The flags of the entry e are right over a base that answers b.
Right(e, b) == e # NONE => /\ e.fresh => b = Gone
                           /\ ~e.dirty => Norm(e.coins) = b

LEMMA NoneApart == NONE \notin Slot /\ NONE \notin Raw /\ NONE \notin Tx
  BY NoneAssumption DEF Slot, Raw

LEMMA NormClean ==
  /\ Gone \in Clean
  /\ \A c \in Raw : Norm(c) \in Clean
  /\ \A c \in Clean : c \in Raw /\ Norm(c) = c /\ (IsPruned(c) <=> c = Gone)
  BY SMT DEF Raw, Clean, Norm, Gone, IsPruned

\* The entry that FetchCoins makes of what the base has.
LEMMA FromBaseRight ==
  ASSUME NEW below \in Raw \cup {NONE}
  PROVE  /\ FromBase(below) \in Slot
         /\ Right(FromBase(below), OrGone(below))
         /\ Ans(FromBase(below), OrGone(below)) = OrGone(below)
         /\ OrGone(below) \in Clean
<1>1. CASE below = NONE
  BY <1>1, NoneApart, NormClean DEF FromBase, OrGone, Right, Ans, Slot, Clean
<1>2. CASE below \in Raw
  <2>1. below # NONE
    BY <1>2, NoneApart
  <2>2. FromBase(below) = [coins |-> below, dirty |-> FALSE, fresh |-> IsPruned(below)]
    BY <2>1 DEF FromBase, IsPruned
  <2>3. IsPruned(below) \in BOOLEAN
    BY DEF IsPruned
  <2>4. FromBase(below) \in Slot
    BY SMT, <1>2, <2>2, <2>3 DEF Slot
  <2>5. OrGone(below) = Norm(below) /\ FromBase(below) # NONE
    BY <2>1, <2>4, NoneApart DEF OrGone
  <2>6. Right(FromBase(below), OrGone(below))
    BY SMT, <2>2, <2>5 DEF Right, Norm
  <2>7. Ans(FromBase(below), OrGone(below)) = OrGone(below)
    BY SMT, <2>2, <2>5 DEF Ans
  <2> QED
    BY <1>2, <2>4, <2>5, <2>6, <2>7, NormClean
<1> QED
  BY <1>1, <1>2

\* The entry that is left of e after ~CCoinsModifier: if it is dropped, the base
\* answers as it did.
Settled(e) == IF e.fresh /\ IsPruned(e.coins) THEN NONE ELSE e

LEMMA SettledRight ==
  ASSUME NEW e \in Slot, NEW b \in Clean, e.fresh => b = Gone, e.dirty
  PROVE  /\ Settled(e) \in Slot \cup {NONE}
         /\ Right(Settled(e), b)
         /\ Ans(Settled(e), b) = Norm(e.coins)
<1>1. e # NONE
  BY NoneApart
<1>2. CASE e.fresh /\ IsPruned(e.coins)
  BY <1>2 DEF Settled, Right, Ans, Norm
<1>3. CASE ~(e.fresh /\ IsPruned(e.coins))
  BY <1>1, <1>3 DEF Settled, Right, Ans
<1> QED
  BY <1>2, <1>3

\* BatchWrite of e into us, over a base that answers b: the cache answers as the
\* child did, with flags that are right.
LEMMA MergeRight ==
  ASSUME NEW us \in Slot \cup {NONE}, NEW e \in Slot, NEW b \in Clean,
         Right(us, b), Right(e, Ans(us, b))
  PROVE  /\ Merge(us, e) \in Slot \cup {NONE}
         /\ Right(Merge(us, e), b)
         /\ Ans(Merge(us, e), b) = Norm(e.coins)
<1>0. e # NONE /\ e.dirty \in BOOLEAN /\ e.fresh \in BOOLEAN /\ e.coins \in Raw
  BY NoneApart DEF Slot
<1>1. CASE ~e.dirty
  BY <1>0, <1>1 DEF Merge, Right, Ans
<1>2. CASE e.dirty /\ us = NONE
  <2> DEFINE n == [coins |-> e.coins, dirty |-> TRUE, fresh |-> e.fresh]
  <2>1. n \in Slot
    BY <1>0 DEF Slot
  <2>2. Merge(us, e) = Settled(n)
    BY <1>2 DEF Merge, Settled
  <2>3. n.fresh => b = Gone
    BY <1>0, <1>2 DEF Right, Ans
  <2> HIDE DEF n
  <2>4. n.dirty /\ Norm(n.coins) = Norm(e.coins)
    BY DEF n
  <2> QED
    BY <2>1, <2>2, <2>3, <2>4, SettledRight
<1>3. CASE e.dirty /\ us # NONE
  <2> DEFINE n == [coins |-> e.coins, dirty |-> TRUE, fresh |-> us.fresh]
  <2>1. n \in Slot
    BY <1>0, <1>3 DEF Slot
  <2>2. Merge(us, e) = Settled(n)
    BY <1>3 DEF Merge, Settled
  <2>3. n.fresh => b = Gone
    BY <1>3 DEF Right
  <2> HIDE DEF n
  <2>4. n.dirty /\ Norm(n.coins) = Norm(e.coins)
    BY DEF n
  <2> QED
    BY <2>1, <2>2, <2>3, <2>4, SettledRight
<1> QED
  BY <1>0, <1>1, <1>2, <1>3

-----------------------------------------------------------------------------
(* The three views. *)

CacheTypes ==
    /\ db \in Map
    /\ tip \in [Tx -> Slot \cup {NONE}]
    /\ view \in [Tx -> Slot \cup {NONE}]

\* What the views answer, entry by entry.
Answers ==
    /\ TipMap \in Map /\ BlockMap \in Map
    /\ \A tx \in Tx :
          /\ DbGet(tx) \in Raw \cup {NONE} /\ OrGone(DbGet(tx)) = db[tx]
          /\ TipMap[tx] = Ans(tip[tx], db[tx])
          /\ TipGet(tx) \in Raw \cup {NONE} /\ OrGone(TipGet(tx)) = TipMap[tx]
          /\ BlockMap[tx] = Ans(view[tx], TipMap[tx])
          /\ ViewGet(tx) \in Raw \cup {NONE} /\ OrGone(ViewGet(tx)) = BlockMap[tx]

\* The types, and the flags of both caches.
CacheInv ==
    /\ CacheTypes
    /\ \A tx \in Tx : Right(tip[tx], db[tx]) /\ Right(view[tx], TipMap[tx])

\* GetCoins of a cache over what its base has.
LEMMA GetCoinsAns ==
  ASSUME NEW cache \in [Tx -> Slot \cup {NONE}], NEW tx \in Tx, NEW below \in Raw \cup {NONE}
  PROVE  /\ GetCoins(cache, tx, below) \in Raw \cup {NONE}
         /\ OrGone(GetCoins(cache, tx, below)) = Ans(cache[tx], OrGone(below))
         /\ OrGone(below) \in Clean
         /\ Ans(cache[tx], OrGone(below)) \in Clean
<1>1. OrGone(below) \in Clean
  BY NormClean DEF OrGone
<1>2. CASE cache[tx] = NONE
  BY <1>1, <1>2 DEF GetCoins, Ans
<1>3. CASE cache[tx] # NONE
  <2>1. cache[tx].coins \in Raw /\ cache[tx].coins # NONE
    BY <1>3, NoneApart DEF Slot
  <2> QED
    BY <1>1, <1>3, <2>1, NormClean DEF GetCoins, Ans, OrGone
<1> QED
  BY <1>2, <1>3

LEMMA ViewsAnswer == CacheTypes => Answers
<1> SUFFICES ASSUME CacheTypes PROVE Answers
  OBVIOUS
<1>1. \A tx \in Tx : DbGet(tx) \in Raw \cup {NONE} /\ OrGone(DbGet(tx)) = db[tx]
  <2> SUFFICES ASSUME NEW tx \in Tx PROVE DbGet(tx) \in Raw \cup {NONE} /\ OrGone(DbGet(tx)) = db[tx]
    OBVIOUS
  <2>1. db[tx] \in Clean /\ db[tx] \in Raw /\ Norm(db[tx]) = db[tx] /\ db[tx] # NONE
    BY NormClean, NoneApart DEF CacheTypes, Map
  <2> QED
    BY <2>1, NormClean DEF DbGet, OrGone
<1>2. \A tx \in Tx : /\ TipGet(tx) \in Raw \cup {NONE}
                     /\ OrGone(TipGet(tx)) = Ans(tip[tx], db[tx])
                     /\ OrGone(TipGet(tx)) \in Clean
  BY SMT, <1>1, GetCoinsAns DEF CacheTypes, TipGet
<1>3. TipMap \in Map /\ \A tx \in Tx : TipMap[tx] = OrGone(TipGet(tx))
  BY <1>2 DEF TipMap, Map
<1>4. \A tx \in Tx : /\ ViewGet(tx) \in Raw \cup {NONE}
                     /\ OrGone(ViewGet(tx)) = Ans(view[tx], TipMap[tx])
                     /\ OrGone(ViewGet(tx)) \in Clean
  <2> SUFFICES ASSUME NEW tx \in Tx
               PROVE  /\ ViewGet(tx) \in Raw \cup {NONE}
                      /\ OrGone(ViewGet(tx)) = Ans(view[tx], TipMap[tx])
                      /\ OrGone(ViewGet(tx)) \in Clean
    OBVIOUS
  <2>1. TipGet(tx) \in Raw \cup {NONE} /\ OrGone(TipGet(tx)) = TipMap[tx]
    BY <1>2, <1>3
  <2> QED
    BY SMTT(30), <2>1, GetCoinsAns DEF CacheTypes, ViewGet
<1>5. BlockMap \in Map /\ \A tx \in Tx : BlockMap[tx] = OrGone(ViewGet(tx))
  BY <1>4 DEF BlockMap, Map
<1> QED
  BY <1>1, <1>2, <1>3, <1>4, <1>5 DEF Answers

LEMMA ViewsAnswerNext == (CacheTypes => Answers)'
  BY ViewsAnswer, PTL

\* Maps that agree on every transaction are equal.
LEMMA MapsEqual ==
  ASSUME NEW m \in Map, NEW n \in Map, \A tx \in Tx : m[tx] = n[tx]
  PROVE  m = n
  BY SMT DEF Map

\* What FreshSound says, in these terms.
LEMMA FlagsRight == CacheTypes => (FreshSound <=> CacheInv)
<1> SUFFICES ASSUME CacheTypes PROVE FreshSound <=> CacheInv
  OBVIOUS
<1>1. Answers
  BY ViewsAnswer
<1>2. \A tx \in Tx : db[tx] \in Clean /\ TipMap[tx] \in Clean
  BY <1>1 DEF Answers, Map, CacheTypes
<1>3. FlagsSound(tip, DbGet) <=> \A tx \in Tx : Right(tip[tx], db[tx])
  BY <1>1, <1>2, NormClean DEF FlagsSound, Answers, Right
<1>4. FlagsSound(view, TipGet) <=> \A tx \in Tx : Right(view[tx], TipMap[tx])
  BY <1>1, <1>2, NormClean DEF FlagsSound, Answers, Right
<1> QED
  BY <1>3, <1>4 DEF FreshSound, CacheInv

\* A step after which every transaction has a right entry with a known answer.
LEMMA TipStep ==
  ASSUME CacheInv, CacheTypes', db' = db, NEW m \in Map,
         \A tx \in Tx : Right(tip'[tx], db[tx]) /\ Ans(tip'[tx], db[tx]) = m[tx]
  PROVE  TipMap' = m
<1>1. Answers'
  BY ViewsAnswerNext
<1>2. TipMap' \in Map /\ \A tx \in Tx : TipMap'[tx] = m[tx]
  BY <1>1 DEF Answers
<1> QED
  BY <1>2, MapsEqual

\* FetchCoins of pcoinsTip changes no answer.
LEMMA ReadTipKeeps ==
  ASSUME CacheInv, NEW tx \in Tx, ReadTip(tx), db' = db, view' \in [Tx -> Slot \cup {NONE}]
  PROVE  /\ CacheTypes'
         /\ TipMap' = TipMap
         /\ \A x \in Tx : Right(tip'[x], db'[x])
<1>0. Answers
  BY ViewsAnswer DEF CacheInv
<1>1. \/ tip' = tip
      \/ tip' = [tip EXCEPT ![tx] = FromBase(DbGet(tx))] /\ tip[tx] = NONE
  BY DEF ReadTip, Fetch
<1>2. /\ FromBase(DbGet(tx)) \in Slot /\ Right(FromBase(DbGet(tx)), db[tx])
      /\ Ans(FromBase(DbGet(tx)), db[tx]) = db[tx]
  BY <1>0, FromBaseRight DEF Answers
<1>3. CacheTypes'
  BY <1>1, <1>2 DEF CacheInv, CacheTypes
<1>4. \A x \in Tx : Right(tip'[x], db[x]) /\ Ans(tip'[x], db[x]) = TipMap[x]
  <2> SUFFICES ASSUME NEW x \in Tx PROVE Right(tip'[x], db[x]) /\ Ans(tip'[x], db[x]) = TipMap[x]
    OBVIOUS
  <2>1. Right(tip[x], db[x]) /\ Ans(tip[x], db[x]) = TipMap[x]
    BY <1>0 DEF CacheInv, Answers
  <2>2. CASE tip'[x] = tip[x]
    BY <2>1, <2>2
  <2>3. CASE tip'[x] # tip[x]
    <3>1. x = tx /\ tip'[x] = FromBase(DbGet(tx)) /\ tip[x] = NONE
      BY <1>1, <2>3 DEF CacheInv, CacheTypes
    <3>2. TipMap[x] = db[x]
      BY <2>1, <3>1 DEF Ans
    <3> QED
      BY <1>2, <3>1, <3>2
  <2> QED
    BY <2>2, <2>3
<1>5. TipMap \in Map
  BY <1>0 DEF Answers
<1>6. TipMap' = TipMap
  BY <1>3, <1>4, <1>5, TipStep
<1> QED
  BY <1>3, <1>4, <1>6
\* The answers after a step, from those for each transaction.
LEMMA CacheStep ==
  ASSUME CacheTypes', NEW m \in Map, NEW n \in Map,
         \A tx \in Tx : /\ Right(tip'[tx], db'[tx]) /\ Ans(tip'[tx], db'[tx]) = m[tx]
                        /\ Right(view'[tx], m[tx]) /\ Ans(view'[tx], m[tx]) = n[tx]
  PROVE  CacheInv' /\ TipMap' = m /\ BlockMap' = n
<1>1. Answers'
  BY ViewsAnswerNext
<1>2. TipMap' \in Map /\ \A tx \in Tx : TipMap'[tx] = m[tx]
  BY <1>1 DEF Answers
<1>3. TipMap' = m
  BY <1>2, MapsEqual
<1>4. BlockMap' \in Map /\ \A tx \in Tx : BlockMap'[tx] = n[tx]
  BY <1>1, <1>3 DEF Answers
<1>5. BlockMap' = n
  BY <1>4, MapsEqual
<1> QED
  BY <1>3, <1>5 DEF CacheInv

\* The view of the block changes in one entry, and pcoinsTip may be read.
LEMMA ViewEntry ==
  ASSUME CacheInv, db' = db, NEW tx \in Tx, NEW e \in Slot \cup {NONE}, NEW c \in Clean,
         tip' = tip \/ ReadTip(tx), view' = [view EXCEPT ![tx] = e],
         Right(e, TipMap[tx]), Ans(e, TipMap[tx]) = c
  PROVE  CacheInv' /\ TipMap' = TipMap /\ BlockMap' = [BlockMap EXCEPT ![tx] = c]
<1>0. Answers
  BY ViewsAnswer DEF CacheInv
<1>1. view' \in [Tx -> Slot \cup {NONE}]
  BY DEF CacheInv, CacheTypes
<1>2. /\ CacheTypes' /\ TipMap' = TipMap
      /\ \A x \in Tx : Right(tip'[x], db'[x])
  <2>1. CASE ReadTip(tx)
    BY <1>1, <2>1, ReadTipKeeps
  <2>2. CASE tip' = tip
    BY <1>1, <2>2 DEF CacheInv, CacheTypes, TipMap, TipGet, DbGet
  <2> QED
    BY <2>1, <2>2
<1>3. \A x \in Tx : Ans(tip'[x], db'[x]) = TipMap[x]
  <2>1. Answers'
    BY <1>2, ViewsAnswerNext
  <2> QED
    BY <1>2, <2>1 DEF Answers
<1> DEFINE n == [BlockMap EXCEPT ![tx] = c]
<1>4. n \in Map /\ TipMap \in Map
  BY <1>0 DEF Answers, Map
<1>5. \A x \in Tx : Right(view'[x], TipMap[x]) /\ Ans(view'[x], TipMap[x]) = n[x]
  <2> SUFFICES ASSUME NEW x \in Tx
               PROVE  Right(view'[x], TipMap[x]) /\ Ans(view'[x], TipMap[x]) = n[x]
    OBVIOUS
  <2>1. CASE x = tx
    BY <1>0, <2>1 DEF CacheInv, CacheTypes, Answers, Map
  <2>2. CASE x # tx
    <3>1. view'[x] = view[x] /\ n[x] = BlockMap[x]
      BY <1>0, <2>2 DEF CacheInv, CacheTypes, Answers, Map
    <3> QED
      BY <1>0, <3>1 DEF CacheInv, Answers
  <2> QED
    BY <2>1, <2>2
<1> HIDE DEF n
<1>6. CacheInv' /\ TipMap' = TipMap /\ BlockMap' = n
  BY <1>2, <1>3, <1>4, <1>5, CacheStep
<1> QED
  BY <1>6 DEF n

\* ModifyCoins of the block's view changes what is assigned to.
LEMMA ModifyViewSets ==
  ASSUME CacheInv, db' = db, NEW tx \in Tx, NEW coin \in Raw, ModifyView(tx, coin)
  PROVE  CacheInv' /\ TipMap' = TipMap /\ BlockMap' = [BlockMap EXCEPT ![tx] = Norm(coin)]
<1>0. Answers
  BY ViewsAnswer DEF CacheInv
<1> DEFINE e == IF view[tx] # NONE THEN view[tx] ELSE FromBase(TipGet(tx))
           f == [e EXCEPT !.coins = coin, !.dirty = TRUE]
<1>1. e \in Slot /\ Right(e, TipMap[tx])
  <2>1. CASE view[tx] # NONE
    BY <2>1 DEF CacheInv, CacheTypes
  <2>2. CASE view[tx] = NONE
    BY <1>0, <2>2, FromBaseRight DEF Answers
  <2> QED
    BY <2>1, <2>2
<1>2. view' = [view EXCEPT ![tx] = Settled(f)]
  BY DEF ModifyView, ModifyCoins, Settle, Settled
<1> HIDE DEF e
<1>3. f \in Slot /\ f.dirty /\ f.coins = coin /\ f.fresh = e.fresh
  BY <1>1 DEF Slot
<1>4. f.fresh => TipMap[tx] = Gone
  BY <1>1, <1>3, NoneApart DEF Right
<1> HIDE DEF f
<1>5. TipMap[tx] \in Clean
  BY <1>0 DEF Answers, Map
<1>6. /\ Settled(f) \in Slot \cup {NONE} /\ Right(Settled(f), TipMap[tx])
      /\ Ans(Settled(f), TipMap[tx]) = Norm(coin)
  BY <1>3, <1>4, <1>5, SettledRight
<1>7. tip' = tip \/ ReadTip(tx)
  BY DEF ModifyView
<1>8. Norm(coin) \in Clean
  BY NormClean
<1> QED
  BY <1>2, <1>6, <1>7, <1>8, ViewEntry

\* ModifyNewCoins of the block's view for a transaction without unspent outputs.
LEMMA ModifyNewSets ==
  ASSUME CacheInv, db' = db, tip' = tip, NEW tx \in Tx, NEW coin \in Raw,
         NEW coinbase \in BOOLEAN, TipMap[tx] = Gone,
         view' = ModifyNewCoins(view, tx, coinbase, coin)
  PROVE  CacheInv' /\ TipMap' = TipMap /\ BlockMap' = [BlockMap EXCEPT ![tx] = Norm(coin)]
<1>0. Answers
  BY ViewsAnswer DEF CacheInv
<1> DEFINE e == IF view[tx] # NONE THEN view[tx]
                ELSE [coins |-> Gone, dirty |-> FALSE, fresh |-> FALSE]
           f == [coins |-> coin, dirty |-> TRUE, fresh |-> FreshNew(e, coinbase)]
<1>1. view' = [view EXCEPT ![tx] = Settled(f)]
  BY DEF ModifyNewCoins, Settle, Settled
<1>2. FreshNew(e, coinbase) \in BOOLEAN
  BY DEF FreshNew
<1> HIDE DEF e
<1>3. f \in Slot /\ f.dirty /\ f.coins = coin
  BY <1>2 DEF Slot
<1> HIDE DEF f
<1>5. TipMap[tx] \in Clean
  BY <1>0 DEF Answers, Map
<1>6. /\ Settled(f) \in Slot \cup {NONE} /\ Right(Settled(f), TipMap[tx])
      /\ Ans(Settled(f), TipMap[tx]) = Norm(coin)
  BY <1>3, <1>5, SettledRight
<1>8. Norm(coin) \in Clean
  BY NormClean
<1> QED
  BY <1>1, <1>6, <1>8, ViewEntry

\* FetchCoins of the block's view changes no answer.
LEMMA FetchViewKeeps ==
  ASSUME CacheInv, db' = db, NEW tx \in Tx, view' = Fetch(view, tx, TipGet(tx)),
         IF view[tx] = NONE THEN ReadTip(tx) ELSE UNCHANGED tip
  PROVE  CacheInv' /\ TipMap' = TipMap /\ BlockMap' = BlockMap
<1>0. Answers
  BY ViewsAnswer DEF CacheInv
<1> DEFINE e == IF view[tx] # NONE \/ TipGet(tx) = NONE THEN view[tx] ELSE FromBase(TipGet(tx))
<1>1. view' = [view EXCEPT ![tx] = e]
  BY DEF Fetch, CacheInv, CacheTypes
<1>2. e \in Slot \cup {NONE} /\ Right(e, TipMap[tx]) /\ Ans(e, TipMap[tx]) = BlockMap[tx]
  <2>1. CASE e = view[tx]
    BY <1>0, <2>1 DEF CacheInv, CacheTypes, Answers
  <2>2. CASE e # view[tx]
    <3>1. e = FromBase(TipGet(tx)) /\ view[tx] = NONE
      BY <2>2
    <3>2. BlockMap[tx] = TipMap[tx]
      BY <1>0, <3>1 DEF Answers, Ans
    <3> QED
      BY <1>0, <3>1, <3>2, FromBaseRight DEF Answers
  <2> QED
    BY <2>1, <2>2
<1> HIDE DEF e
<1>3. BlockMap[tx] \in Clean /\ BlockMap = [BlockMap EXCEPT ![tx] = BlockMap[tx]]
  BY <1>0 DEF Answers, Map
<1>4. tip' = tip \/ ReadTip(tx)
  OBVIOUS
<1> QED
  BY <1>1, <1>2, <1>3, <1>4, ViewEntry

LEMMA EmptyTypes == /\ Empty \in [Tx -> Slot \cup {NONE}]
                    /\ \A b : \A tx \in Tx : Right(Empty[tx], b) /\ Ans(Empty[tx], b) = b
  BY DEF Empty, Right, Ans

\* BatchWrite: pcoinsTip answers as the block's view did.
LEMMA CommitSets ==
  ASSUME CacheInv, db' = db, tip' = BatchWrite(tip, view), view' = Empty
  PROVE  CacheInv' /\ TipMap' = BlockMap /\ BlockMap' = BlockMap
<1>0. Answers
  BY ViewsAnswer DEF CacheInv
<1>1. \A tx \in Tx : /\ tip'[tx] \in Slot \cup {NONE}
                     /\ Right(tip'[tx], db[tx])
                     /\ Ans(tip'[tx], db[tx]) = BlockMap[tx]
  <2> SUFFICES ASSUME NEW tx \in Tx
               PROVE  /\ tip'[tx] \in Slot \cup {NONE}
                      /\ Right(tip'[tx], db[tx])
                      /\ Ans(tip'[tx], db[tx]) = BlockMap[tx]
    OBVIOUS
  <2>1. /\ tip[tx] \in Slot \cup {NONE} /\ Right(tip[tx], db[tx])
        /\ TipMap[tx] = Ans(tip[tx], db[tx])
        /\ view[tx] \in Slot \cup {NONE} /\ Right(view[tx], TipMap[tx])
        /\ BlockMap[tx] = Ans(view[tx], TipMap[tx])
        /\ db[tx] \in Clean
    BY <1>0 DEF CacheInv, CacheTypes, Answers, Map
  <2>2. CASE view[tx] = NONE
    <3>1. tip'[tx] = tip[tx]
      BY <2>2 DEF BatchWrite
    <3> QED
      BY <2>1, <2>2, <3>1 DEF Ans
  <2>3. CASE view[tx] # NONE
    <3>1. tip'[tx] = Merge(tip[tx], view[tx])
      BY <2>3 DEF BatchWrite
    <3>2. BlockMap[tx] = Norm(view[tx].coins) /\ view[tx] \in Slot
      BY <2>1, <2>3 DEF Ans
    <3> QED
      BY <2>1, <3>1, <3>2, MergeRight
  <2> QED
    BY <2>2, <2>3
<1>2. CacheTypes'
  BY <1>1, EmptyTypes DEF CacheInv, CacheTypes, BatchWrite
<1>3. BlockMap \in Map
  BY <1>0 DEF Answers
<1> QED
  BY SMT, <1>1, <1>2, <1>3, EmptyTypes, CacheStep

\* The block's view is thrown away.
LEMMA DropSets ==
  ASSUME CacheInv, db' = db, tip' = tip, view' = Empty
  PROVE  CacheInv' /\ TipMap' = TipMap /\ BlockMap' = TipMap
<1>0. Answers
  BY ViewsAnswer DEF CacheInv
<1>1. CacheTypes'
  BY EmptyTypes DEF CacheInv, CacheTypes
<1>2. TipMap \in Map /\ \A tx \in Tx : Right(tip[tx], db[tx]) /\ Ans(tip[tx], db[tx]) = TipMap[tx]
  BY <1>0 DEF CacheInv, Answers
<1> QED
  BY <1>1, <1>2, EmptyTypes, CacheStep

\* The database takes what pcoinsTip has, and the cache is emptied.
LEMMA FlushSets ==
  ASSUME CacheInv, db' = WriteDb(tip), tip' = Empty, view' = view, view = Empty
  PROVE  CacheInv' /\ db' = TipMap /\ TipMap' = TipMap /\ BlockMap' = TipMap /\ BlockMap = TipMap
<1>0. Answers
  BY ViewsAnswer DEF CacheInv
<1>1. \A tx \in Tx : db'[tx] = TipMap[tx]
  <2> SUFFICES ASSUME NEW tx \in Tx PROVE db'[tx] = TipMap[tx]
    OBVIOUS
  <2>1. Right(tip[tx], db[tx]) /\ TipMap[tx] = Ans(tip[tx], db[tx])
    BY <1>0 DEF CacheInv, Answers
  <2>2. db'[tx] = IF tip[tx] # NONE /\ tip[tx].dirty THEN Norm(tip[tx].coins) ELSE db[tx]
    BY DEF WriteDb
  <2> QED
    BY <2>1, <2>2 DEF Right, Ans
<1>2. TipMap \in Map
  BY <1>0 DEF Answers
<1>3. db' = TipMap
  BY <1>1, <1>2 DEF WriteDb, Map
<1>4. CacheTypes'
  BY <1>2, <1>3, EmptyTypes DEF CacheTypes
<1>5. CacheInv' /\ TipMap' = TipMap /\ BlockMap' = TipMap
  BY SMT, <1>2, <1>3, <1>4, EmptyTypes, CacheStep
<1>6. BlockMap \in Map /\ \A tx \in Tx : BlockMap[tx] = TipMap[tx]
  BY <1>0, EmptyTypes DEF Answers
<1> QED
  BY <1>2, <1>3, <1>5, <1>6, MapsEqual

\* The caches are lost.
LEMMA RestartSets ==
  ASSUME CacheInv, db' = db, tip' = Empty, view' = Empty
  PROVE  CacheInv' /\ TipMap' = db /\ BlockMap' = db
<1>1. CacheTypes' /\ db \in Map
  BY EmptyTypes DEF CacheInv, CacheTypes
<1> QED
  BY <1>1, EmptyTypes, CacheStep

\* Without entries of the block, its view answers as pcoinsTip.
LEMMA NoView ==
  ASSUME CacheInv, view = Empty
  PROVE  BlockMap = TipMap
<1>0. Answers
  BY ViewsAnswer DEF CacheInv
<1>1. BlockMap \in Map /\ TipMap \in Map /\ \A tx \in Tx : BlockMap[tx] = TipMap[tx]
  BY <1>0, EmptyTypes DEF Answers
<1> QED
  BY <1>1, MapsEqual

\* Read and Uncache change no answer.
LEMMA TipEntryKeeps ==
  ASSUME CacheInv, NEW tx \in Tx, db' = db, view' = view,
         ReadTip(tx) \/ (MayUncache(tip[tx]) /\ tip' = [tip EXCEPT ![tx] = NONE])
  PROVE  CacheInv' /\ TipMap' = TipMap /\ BlockMap' = BlockMap
<1>0. Answers
  BY ViewsAnswer DEF CacheInv
<1>1. TipMap \in Map /\ BlockMap \in Map
      /\ \A x \in Tx : Right(view[x], TipMap[x]) /\ Ans(view[x], TipMap[x]) = BlockMap[x]
  BY <1>0 DEF CacheInv, Answers
<1>2. /\ CacheTypes'
      /\ \A x \in Tx : Right(tip'[x], db'[x]) /\ Ans(tip'[x], db'[x]) = TipMap[x]
  <2>1. CASE ReadTip(tx)
    <3>1. CacheTypes' /\ TipMap' = TipMap /\ \A x \in Tx : Right(tip'[x], db'[x])
      BY <2>1, ReadTipKeeps DEF CacheInv, CacheTypes
    <3>2. Answers'
      BY <3>1, ViewsAnswerNext
    <3> QED
      BY <3>1, <3>2 DEF Answers
  <2>2. CASE MayUncache(tip[tx]) /\ tip' = [tip EXCEPT ![tx] = NONE]
    <3>1. CacheTypes'
      BY <2>2 DEF CacheInv, CacheTypes
    <3>2. ASSUME NEW x \in Tx
          PROVE  Right(tip'[x], db'[x]) /\ Ans(tip'[x], db'[x]) = TipMap[x]
      <4>1. Right(tip[x], db[x]) /\ Ans(tip[x], db[x]) = TipMap[x]
        BY <1>0 DEF CacheInv, Answers
      <4>2. CASE x = tx
        <5>1. tip'[x] = NONE /\ tip[x] # NONE /\ ~tip[x].dirty
          BY <2>2, <4>2 DEF MayUncache, CacheInv, CacheTypes
        <5> QED
          BY <4>1, <5>1 DEF Right, Ans
      <4>3. CASE x # tx
        BY <2>2, <4>1, <4>3 DEF CacheInv, CacheTypes
      <4> QED
        BY <4>2, <4>3
    <3> QED
      BY <3>1, <3>2
  <2> QED
    BY <2>1, <2>2
<1> QED
  BY <1>1, <1>2, CacheStep
-----------------------------------------------------------------------------
(* How the unspent outputs change from the start of a block to its end. *)

UndoRec == [n : Out, height : Nat]
TxRec == [tx : Tx, undo : Seq(UndoRec)]
BlockRec == [txs : Seq(TxRec), coins : Map]

\* One input o is spent, with the undo data u.
SpendsTo(m, o, u, n) ==
    /\ o[2] \in m[o[1]].outs
    /\ u = UndoFor(m[o[1]], o[2])
    /\ n = [m EXCEPT ![o[1]] = Norm([m[o[1]] EXCEPT !.outs = @ \ {o[2]}])]

\* The first inputs of t are spent, with the undo data us.
Spends(a, t, us, b) ==
    /\ Len(us) \leq Len(Input[t])
    /\ \E r \in [0 .. Len(us) -> Map] :
          /\ r[0] = a /\ r[Len(us)] = b
          /\ \A i \in 1 .. Len(us) : SpendsTo(r[i - 1], Input[t][i], us[i], r[i])

\* What the outputs of t are at first, in a block at height h.
Made(t, h) == Norm([outs |-> Output[t], height |-> h])

\* The transaction of the record t is applied.
Applies(a, t, h, c) ==
    \E b \in Map :
        /\ Spends(a, t.tx, t.undo, b) /\ Len(t.undo) = Len(Input[t.tx])
        /\ b[t.tx] = Gone
        /\ c = [b EXCEPT ![t.tx] = Made(t.tx, h)]

\* The transactions ts are applied, in order.
Trace(a, ts, h, c) ==
    \E s \in [0 .. Len(ts) -> Map] :
        /\ s[0] = a /\ s[Len(ts)] = c
        /\ \A i \in 1 .. Len(ts) : Applies(s[i - 1], ts[i], h, s[i])

LEMMA InputType ==
  \A t \in Tx : \A i \in 1 .. Len(Input[t]) :
     /\ Len(Input[t]) \in Nat
     /\ Input[t][i] \in Tx \X Out /\ Input[t][i][1] \in Tx /\ Input[t][i][2] \in Out
<1> SUFFICES ASSUME NEW t \in Tx, NEW i \in 1 .. Len(Input[t])
             PROVE  /\ Len(Input[t]) \in Nat
                    /\ Input[t][i] \in Tx \X Out /\ Input[t][i][1] \in Tx /\ Input[t][i][2] \in Out
  OBVIOUS
<1>1. Input[t] \in Seq(Tx \X Out)
  BY CoinsAssumption
<1>2. Input[t][i] \in Tx \X Out /\ Len(Input[t]) \in Nat
  BY SMT, <1>1
<1> QED
  BY <1>2

LEMMA SpendsNothing ==
  ASSUME NEW a \in Map, NEW t \in Tx, NEW b
  PROVE  Spends(a, t, <<>>, b) <=> a = b
<1>1. Len(<<>>) = 0 /\ Len(Input[t]) \in Nat
  BY SMT, CoinsAssumption
<1>2. ASSUME a = b PROVE Spends(a, t, <<>>, b)
  <2> DEFINE r == [i \in 0 .. 0 |-> a]
  <2>1. r \in [0 .. Len(<<>>) -> Map] /\ r[0] = a /\ r[Len(<<>>)] = b
    BY SMT, <1>1, <1>2
  <2> HIDE DEF r
  <2>2. 0 \leq Len(Input[t]) /\ \A i \in 1 .. Len(<<>>) : FALSE
    BY SMT, <1>1
  <2> QED
    BY <1>1, <2>1, <2>2 DEF Spends
<1>3. ASSUME Spends(a, t, <<>>, b) PROVE a = b
  BY <1>1, <1>3 DEF Spends
<1> QED
  BY <1>2, <1>3

LEMMA SpendsMore ==
  ASSUME NEW a \in Map, NEW t \in Tx, NEW us \in Seq(UndoRec), NEW u \in UndoRec,
         NEW b, NEW c \in Map,
         Spends(a, t, us, b), Len(us) < Len(Input[t]), SpendsTo(b, Input[t][Len(us) + 1], u, c)
  PROVE  Spends(a, t, Append(us, u), c)
<1> DEFINE n == Len(us)
           vs == Append(us, u)
<1>1. n \in Nat /\ Len(vs) = n + 1 /\ Len(Input[t]) \in Nat
  BY SMT, CoinsAssumption
<1>2. \A i \in 1 .. n : vs[i] = us[i]
  BY SMT
<1>3. vs[n + 1] = u
  BY SMT
<1>4. PICK r \in [0 .. n -> Map] :
          /\ r[0] = a /\ r[n] = b
          /\ \A i \in 1 .. n : SpendsTo(r[i - 1], Input[t][i], us[i], r[i])
  BY DEF Spends
<1> DEFINE q == [i \in 0 .. n + 1 |-> IF i = n + 1 THEN c ELSE r[i]]
<1> HIDE DEF n, vs
<1>5. q \in [0 .. n + 1 -> Map] /\ q[n + 1] = c /\ \A i \in 0 .. n : q[i] = r[i]
  BY SMT, <1>1, <1>4
<1> HIDE DEF q
<1>6. q[0] = a
  BY SMT, <1>1, <1>4, <1>5
<1>7. ASSUME NEW i \in 1 .. n + 1 PROVE SpendsTo(q[i - 1], Input[t][i], vs[i], q[i])
  <2>1. CASE i = n + 1
    <3>1. i - 1 = n /\ q[n] = b
      BY SMT, <1>1, <1>4, <1>5, <2>1
    <3> QED
      BY <1>3, <1>5, <2>1, <3>1 DEF n
  <2>2. CASE i # n + 1
    <3>1. i \in 1 .. n /\ i - 1 \in 0 .. n /\ i \in 0 .. n
      BY SMT, <1>1, <2>2
    <3> QED
      BY <1>2, <1>4, <1>5, <3>1
  <2> QED
    BY <2>1, <2>2
<1>8. n + 1 \leq Len(Input[t])
  BY SMT, <1>1 DEF n
<1>9. Spends(a, t, vs, c)
  BY <1>1, <1>5, <1>6, <1>7, <1>8 DEF Spends
<1> QED
  BY <1>9 DEF vs

LEMMA SpendsLess ==
  ASSUME NEW a \in Map, NEW t \in Tx, NEW us \in Seq(UndoRec), us # <<>>, NEW c,
         Spends(a, t, us, c)
  PROVE  \E b \in Map : /\ Spends(a, t, SubSeq(us, 1, Len(us) - 1), b)
                        /\ SpendsTo(b, Input[t][Len(us)], us[Len(us)], c)
<1> DEFINE n == Len(us) - 1
           vs == SubSeq(us, 1, n)
<1>1. n \in Nat /\ Len(us) = n + 1 /\ Len(vs) = n /\ Len(Input[t]) \in Nat
  <2>1. Len(us) \in Nat /\ Len(us) # 0 /\ Len(Input[t]) \in Nat
    BY SMT, CoinsAssumption, SeqEmpty
  <2>2. n \in 0 .. Len(us)
    BY SMT, <2>1
  <2>3. Len(vs) = n
    BY <2>2, Prefix
  <2> QED
    BY SMT, <2>1, <2>3
<1>2. \A i \in 1 .. n : vs[i] = us[i]
  <2>1. n \in 0 .. Len(us)
    BY SMT, <1>1
  <2> QED
    BY <2>1, Prefix
<1>4. PICK r \in [0 .. n + 1 -> Map] :
          /\ r[0] = a /\ r[n + 1] = c
          /\ \A i \in 1 .. n + 1 : SpendsTo(r[i - 1], Input[t][i], us[i], r[i])
  BY <1>1 DEF Spends
<1>5. n + 1 \leq Len(Input[t])
  BY <1>1 DEF Spends
<1> HIDE DEF n, vs
<1> DEFINE q == [i \in 0 .. n |-> r[i]]
<1>6. q \in [0 .. n -> Map] /\ \A i \in 0 .. n : q[i] = r[i]
  BY SMT, <1>1, <1>4
<1> HIDE DEF q
<1>7. ASSUME NEW i \in 1 .. n PROVE SpendsTo(q[i - 1], Input[t][i], vs[i], q[i])
  <2>1. i \in 1 .. n + 1 /\ i - 1 \in 0 .. n /\ i \in 0 .. n
    BY SMT, <1>1
  <2> QED
    BY <1>2, <1>4, <1>6, <2>1
<1>8. q[0] = a /\ q[n] = r[n] /\ r[n] \in Map /\ n \leq Len(Input[t])
  BY SMT, <1>1, <1>4, <1>5, <1>6
<1>9. Spends(a, t, vs, r[n])
  BY <1>1, <1>6, <1>7, <1>8 DEF Spends
<1>10. SpendsTo(r[n], Input[t][n + 1], us[n + 1], c)
  <2>1. n + 1 \in 1 .. n + 1 /\ (n + 1) - 1 = n
    BY SMT, <1>1
  <2> QED
    BY <1>4, <2>1
<1> QED
  BY <1>1, <1>8, <1>9, <1>10 DEF n, vs
LEMMA TraceNothing ==
  ASSUME NEW a \in Map, NEW h, NEW c
  PROVE  Trace(a, <<>>, h, c) <=> a = c
<1>1. Len(<<>>) = 0
  OBVIOUS
<1>2. ASSUME a = c PROVE Trace(a, <<>>, h, c)
  <2> DEFINE s == [i \in 0 .. 0 |-> a]
  <2>1. s \in [0 .. Len(<<>>) -> Map] /\ s[0] = a /\ s[Len(<<>>)] = c
    BY SMT, <1>1, <1>2
  <2> HIDE DEF s
  <2>2. \A i \in 1 .. Len(<<>>) : FALSE
    BY SMT, <1>1
  <2> QED
    BY <2>1, <2>2 DEF Trace
<1>3. ASSUME Trace(a, <<>>, h, c) PROVE a = c
  BY <1>1, <1>3 DEF Trace
<1> QED
  BY <1>2, <1>3

LEMMA TraceMore ==
  ASSUME NEW a \in Map, NEW ts \in Seq(TxRec), NEW t \in TxRec, NEW h, NEW b, NEW c \in Map,
         Trace(a, ts, h, b), Applies(b, t, h, c)
  PROVE  Trace(a, Append(ts, t), h, c)
<1> DEFINE n == Len(ts)
           vs == Append(ts, t)
<1>1. n \in Nat /\ Len(vs) = n + 1
  BY SMT
<1>2. \A i \in 1 .. n : vs[i] = ts[i]
  BY SMT
<1>3. vs[n + 1] = t
  BY SMT
<1>4. PICK r \in [0 .. n -> Map] :
          /\ r[0] = a /\ r[n] = b
          /\ \A i \in 1 .. n : Applies(r[i - 1], ts[i], h, r[i])
  BY DEF Trace
<1> DEFINE q == [i \in 0 .. n + 1 |-> IF i = n + 1 THEN c ELSE r[i]]
<1> HIDE DEF n, vs
<1>5. q \in [0 .. n + 1 -> Map] /\ q[n + 1] = c /\ \A i \in 0 .. n : q[i] = r[i]
  BY SMT, <1>1, <1>4
<1> HIDE DEF q
<1>6. q[0] = a
  BY SMT, <1>1, <1>4, <1>5
<1>7. ASSUME NEW i \in 1 .. n + 1 PROVE Applies(q[i - 1], vs[i], h, q[i])
  <2>1. CASE i = n + 1
    <3>1. i - 1 = n /\ q[n] = b
      BY SMT, <1>1, <1>4, <1>5, <2>1
    <3> QED
      BY <1>3, <1>5, <2>1, <3>1
  <2>2. CASE i # n + 1
    <3>1. i \in 1 .. n /\ i - 1 \in 0 .. n /\ i \in 0 .. n
      BY SMT, <1>1, <2>2
    <3> QED
      BY <1>2, <1>4, <1>5, <3>1
  <2> QED
    BY <2>1, <2>2
<1>8. Trace(a, vs, h, c)
  BY <1>1, <1>5, <1>6, <1>7 DEF Trace
<1> QED
  BY <1>8 DEF vs

LEMMA TraceLess ==
  ASSUME NEW a \in Map, NEW ts \in Seq(TxRec), ts # <<>>, NEW h, NEW c, Trace(a, ts, h, c)
  PROVE  \E b \in Map : /\ Trace(a, SubSeq(ts, 1, Len(ts) - 1), h, b)
                        /\ Applies(b, ts[Len(ts)], h, c)
<1> DEFINE n == Len(ts) - 1
           vs == SubSeq(ts, 1, n)
<1>1. n \in Nat /\ Len(ts) = n + 1 /\ n \in 0 .. Len(ts)
  <2>1. Len(ts) \in Nat /\ Len(ts) # 0
    BY SeqEmpty
  <2> QED
    BY SMT, <2>1
<1>2. Len(vs) = n /\ \A i \in 1 .. n : vs[i] = ts[i]
  BY <1>1, Prefix
<1>4. PICK r \in [0 .. n + 1 -> Map] :
          /\ r[0] = a /\ r[n + 1] = c
          /\ \A i \in 1 .. n + 1 : Applies(r[i - 1], ts[i], h, r[i])
  BY <1>1 DEF Trace
<1> HIDE DEF n, vs
<1> DEFINE q == [i \in 0 .. n |-> r[i]]
<1>6. q \in [0 .. n -> Map] /\ \A i \in 0 .. n : q[i] = r[i]
  BY SMT, <1>1, <1>4
<1> HIDE DEF q
<1>7. ASSUME NEW i \in 1 .. n PROVE Applies(q[i - 1], vs[i], h, q[i])
  <2>1. i \in 1 .. n + 1 /\ i - 1 \in 0 .. n /\ i \in 0 .. n
    BY SMT, <1>1
  <2> QED
    BY <1>2, <1>4, <1>6, <2>1
<1>8. q[0] = a /\ q[n] = r[n] /\ r[n] \in Map
  BY SMT, <1>1, <1>4, <1>6
<1>9. Trace(a, vs, h, r[n])
  BY <1>2, <1>6, <1>7, <1>8 DEF Trace
<1>10. Applies(r[n], ts[n + 1], h, c)
  <2>1. n + 1 \in 1 .. n + 1 /\ (n + 1) - 1 = n
    BY SMT, <1>1
  <2> QED
    BY <1>4, <2>1
<1> QED
  BY <1>1, <1>8, <1>9, <1>10 DEF n, vs
\* What is left of a coin whose output n is spent.
Less(coin, n) == Norm([coin EXCEPT !.outs = @ \ {n}])

LEMMA LessClean ==
  ASSUME NEW coin \in Clean, NEW n \in coin.outs
  PROVE  /\ n \in Out /\ UndoFor(coin, n) \in UndoRec /\ [coin EXCEPT !.outs = @ \ {n}] \in Raw
         /\ Less(coin, n) \in Clean
         /\ n \notin Less(coin, n).outs /\ Less(coin, n).outs \subseteq coin.outs
         /\ \A k \in coin.outs : k # n => k \in Less(coin, n).outs
         /\ Less(coin, n) = IF coin.outs = {n} THEN Gone ELSE [coin EXCEPT !.outs = @ \ {n}]
<1>1. coin \in [outs : SUBSET Out, height : Nat] /\ coin.height # 0
  BY DEF Clean, Raw
<1> DEFINE e == [coin EXCEPT !.outs = @ \ {n}]
<1>2. e = [outs |-> coin.outs \ {n}, height |-> coin.height]
  BY SMT, <1>1
<1> HIDE DEF e
<1>3. e \in Raw
  BY <1>1, <1>2 DEF Raw
<1>4. IsPruned(e) <=> coin.outs = {n}
  BY <1>2 DEF IsPruned
<1>5. Less(coin, n) = IF coin.outs = {n} THEN Gone ELSE e
  BY <1>4 DEF Less, Norm, e
<1>6. Less(coin, n) \in Clean
  BY <1>3, NormClean DEF Less, e
<1>7. UndoFor(coin, n) \in UndoRec
  BY <1>1 DEF UndoFor, UndoRec
<1>8. /\ n \notin Less(coin, n).outs /\ Less(coin, n).outs \subseteq coin.outs
      /\ \A k \in coin.outs : k # n => k \in Less(coin, n).outs
  BY SMT, <1>2, <1>5 DEF Gone
<1> QED
  BY <1>1, <1>3, <1>5, <1>6, <1>7, <1>8 DEF e

\* ApplyTxInUndo gives back what was spent.
LEMMA UndoSpend ==
  ASSUME NEW b \in Map, NEW o \in Tx \X Out, NEW u, NEW c, SpendsTo(b, o, u, c),
         NEW base, base = IF u.height # 0 THEN [outs |-> {}, height |-> u.height] ELSE c[o[1]]
  PROVE  /\ c \in Map /\ u \in UndoRec /\ u.n = o[2]
         /\ (u.height # 0) = IsPruned(c[o[1]])
         /\ u.n \notin base.outs
         /\ [base EXCEPT !.outs = @ \cup {u.n}] = b[o[1]] /\ b[o[1]] \in Raw
         /\ [c EXCEPT ![o[1]] = Norm(b[o[1]])] = b
         /\ u.n \notin c[o[1]].outs /\ b[o[1]].outs = c[o[1]].outs \cup {u.n}
         /\ c[o[1]] # Gone => b[o[1]].height = c[o[1]].height
<1> DEFINE t == o[1]
           n == o[2]
           coin == b[t]
<1>1. t \in Tx /\ n \in Out /\ coin \in Clean /\ n \in coin.outs
  BY DEF SpendsTo, Map
<1>2. coin \in [outs : SUBSET Out, height : Nat] /\ coin.height # 0
  BY <1>1 DEF Clean, Raw
<1>3. u = UndoFor(coin, n) /\ c = [b EXCEPT ![t] = Less(coin, n)]
  BY DEF SpendsTo, Less
<1> HIDE DEF t, n
<1>4. u.n = n /\ u.height = IF coin.outs = {n} THEN coin.height ELSE 0
  BY <1>3 DEF UndoFor
<1>5. c[t] = Less(coin, n)
  BY <1>1, <1>3 DEF Map
<1>6. c \in Map
  BY <1>1, <1>3, LessClean DEF Map
<1>7. [c EXCEPT ![t] = coin] = b
  BY <1>1, <1>3 DEF Map
<1> HIDE DEF coin
<1>8. Norm(coin) = coin /\ coin \in Raw
  BY <1>1, NormClean
<1>9. CASE coin.outs = {n}
  <2>1. c[t] = Gone /\ u.height = coin.height /\ u.height # 0
    BY <1>1, <1>2, <1>4, <1>5, <1>9, LessClean
  <2>2. base = [outs |-> {}, height |-> coin.height]
    BY <2>1 DEF t
  <2>3. [base EXCEPT !.outs = @ \cup {n}] = coin
    BY SMT, <1>2, <1>9, <2>2
  <2>4. IsPruned(c[t])
    BY SMTT(30), <2>1 DEF IsPruned, Gone
  <2> QED
    BY SMT, <1>1, <1>3, <1>4, <1>6, <1>7, <1>8, <1>9, <2>1, <2>2, <2>3, <2>4, LessClean
    DEF t, n, coin, Gone, IsPruned
<1>10. CASE coin.outs # {n}
  <2>1. c[t] = [coin EXCEPT !.outs = @ \ {n}] /\ u.height = 0
    BY <1>1, <1>2, <1>4, <1>5, <1>10, LessClean
  <2>2. c[t] = [outs |-> coin.outs \ {n}, height |-> coin.height] /\ base = c[t]
    BY <1>2, <2>1 DEF t
  <2>3. [base EXCEPT !.outs = @ \cup {n}] = coin
    BY SMT, <1>1, <1>2, <2>2
  <2>4. ~IsPruned(c[t])
    BY SMT, <1>1, <1>10, <2>2 DEF IsPruned
  <2>5. (u.height # 0) = IsPruned(c[t])
    BY <2>1, <2>4 DEF IsPruned
  <2> QED
    BY SMT, <1>1, <1>3, <1>4, <1>6, <1>7, <1>8, <2>1, <2>2, <2>3, <2>5, LessClean
    DEF t, n, coin
<1> QED
  BY <1>9, <1>10
-----------------------------------------------------------------------------
(* The inductive invariant. *)

Nothing == [tx \in Tx |-> Gone]

\* The unspent outputs before the block at height i of the chain c.
Before(c, i) == IF i = 1 THEN Nothing ELSE c[i - 1].coins

\* Every block of the chain c was applied to the unspent outputs before it.
Traced(c) == \A i \in 1 .. Len(c) : Trace(Before(c, i), c[i].txs, i, c[i].coins)

\* The transactions of the block that are applied.
Applied == {work[i].tx : i \in 1 .. Len(work)}

\* From a, the transactions of work are applied, and then those inputs of cur are
\* spent that undo is about.
Inside(a, h) ==
    \E w \in Map : /\ Trace(a, work, h, w)
                   /\ IF undo = <<>> THEN BlockMap = w
                      ELSE cur \in Tx /\ Spends(w, cur, undo, BlockMap)

\* The output o is spent in the block.
Spent(o) ==
    /\ o[2] \notin BlockMap[o[1]].outs
    /\ TipMap[o[1]] # Gone \/ o[1] \in Applied

StateTypes ==
    /\ chain \in Seq(BlockRec) /\ dbChain \in Seq(BlockRec)
    /\ work \in Seq(TxRec) /\ undo \in Seq(UndoRec) /\ cur \in Tx \cup {NONE}
    /\ job \in {"idle", "connect", "disconnect", "flush"}
    /\ fClean = TRUE

Resting ==
    job \in {"idle", "flush"} => view = Empty /\ work = <<>> /\ cur = NONE /\ undo = <<>>

Exact ==
    /\ TipMap = CoinsAfter(chain) /\ Traced(chain)
    /\ db = CoinsAfter(dbChain) /\ Traced(dbChain)

\* Of a block being connected: what is unspent was so before or is the block's, what is
\* spent stays spent, and the transaction at hand is new and finds its inputs.
Connecting ==
    job = "connect" =>
        /\ Inside(TipMap, Len(chain) + 1)
        /\ \A t \in Tx : BlockMap[t] # Gone => TipMap[t] # Gone \/ t \in Applied
        /\ \A t \in Applied : \A i \in 1 .. Len(Input[t]) : Spent(Input[t][i])
        /\ cur = NONE => undo = <<>>
        /\ cur # NONE =>
              /\ TipMap[cur] = Gone /\ cur \notin Applied
              /\ Len(undo) \leq Len(Input[cur])
              /\ \A i \in 1 .. Len(undo) : Spent(Input[cur][i])
              /\ \A i \in Len(undo) + 1 .. Len(Input[cur]) :
                    Input[cur][i][2] \in BlockMap[Input[cur][i][1]].outs

Disconnecting ==
    job = "disconnect" => chain # <<>> /\ Inside(Before(chain, Len(chain)), Len(chain))

CoinsInv ==
    /\ CacheInv /\ StateTypes /\ Resting /\ Exact /\ Connecting /\ Disconnecting

\* A step of Coins, or none.
CoinsStep == C!Next \/ UNCHANGED C!vars

LEMMA MapTypes ==
  ASSUME CoinsInv
  PROVE  TipMap \in Map /\ BlockMap \in Map /\ Nothing \in Map /\ db \in Map
  BY ViewsAnswer, NormClean DEF CoinsInv, CacheInv, CacheTypes, Answers, Map, Nothing

LEMMA InitCoins == Init => CoinsInv /\ C!Init
<1> SUFFICES ASSUME Init PROVE CoinsInv /\ C!Init
  OBVIOUS
<1>1. CacheTypes /\ db = Nothing /\ Nothing \in Map
  BY EmptyTypes, NormClean DEF Init, CacheTypes, Map, Nothing
<1>2. Answers
  BY <1>1, ViewsAnswer
<1>3. \A tx \in Tx : TipMap[tx] = db[tx] /\ BlockMap[tx] = db[tx]
  BY SMT, <1>2, EmptyTypes DEF Answers, Init
<1>4. TipMap = Nothing /\ BlockMap = Nothing
  BY <1>1, <1>2, <1>3, MapsEqual DEF Answers
<1>5. CacheInv
  BY <1>1, EmptyTypes DEF Init, CacheInv
<1>6. StateTypes /\ Resting /\ Connecting /\ Disconnecting
  BY SMT DEF Init, StateTypes, Resting, Connecting, Disconnecting
<1>7. Exact
  <2>1. chain = <<>> /\ dbChain = <<>> /\ Len(<<>>) = 0
    BY DEF Init
  <2>2. Traced(<<>>)
    BY SMTT(30), <2>1 DEF Traced
  <2> QED
    BY <1>1, <1>4, <2>1, <2>2 DEF Exact, CoinsAfter, Nothing
<1>8. C!Init
  BY <1>1, <1>4 DEF C!Init, DiskMap, Nothing, Gone, C!Gone
<1> QED
  BY <1>5, <1>6, <1>7, <1>8 DEF CoinsInv

\* A step that changes no answer and leaves the block alone.
LEMMA QuietStep ==
  ASSUME CoinsInv, CacheInv', TipMap' = TipMap, BlockMap' = BlockMap, db' = db,
         UNCHANGED <<chain, dbChain, job, work, cur, undo, fClean>>, Resting'
  PROVE  CoinsInv' /\ CoinsStep
<1>1. StateTypes'
  BY DEF CoinsInv, StateTypes
<1>2. Exact'
  BY DEF CoinsInv, Exact
<1>3. Connecting'
  BY SMTT(30) DEF CoinsInv, Connecting, Inside, Spent, Applied
<1>4. Disconnecting'
  BY DEF CoinsInv, Disconnecting, Inside
<1>5. UNCHANGED C!vars
  BY DEF C!vars, DiskMap
<1> QED
  BY <1>1, <1>2, <1>3, <1>4, <1>5 DEF CoinsInv, CoinsStep
LEMMA IdleStep ==
  ASSUME CoinsInv, UNCHANGED <<caches, chain, dbChain, work, cur, undo, fClean>>,
         job \in {"idle", "flush"}, job' \in {"idle", "flush"}
  PROVE  CoinsInv' /\ CoinsStep
<1>1. TipMap' = TipMap /\ BlockMap' = BlockMap
  BY DEF caches, TipMap, TipGet, DbGet, BlockMap, ViewGet
<1>2. CacheInv' /\ db' = db
  BY <1>1 DEF caches, CoinsInv, CacheInv, CacheTypes
<1>3. StateTypes' /\ Resting' /\ Connecting' /\ Disconnecting'
  BY DEF caches, CoinsInv, StateTypes, Resting, Connecting, Disconnecting
<1>4. Exact'
  BY <1>1, <1>2 DEF CoinsInv, Exact
<1>5. UNCHANGED C!vars
  BY <1>1, <1>2 DEF C!vars, DiskMap
<1> QED
  BY <1>2, <1>3, <1>4, <1>5 DEF CoinsInv, CoinsStep

LEMMA BeginConnectStep ==
  ASSUME CoinsInv, BeginConnect
  PROVE  CoinsInv' /\ CoinsStep
<1>1. TipMap' = TipMap /\ BlockMap' = BlockMap /\ TipMap \in Map
  BY MapTypes DEF BeginConnect, caches, TipMap, TipGet, DbGet, BlockMap, ViewGet
<1>2. CacheInv' /\ db' = db
  BY <1>1 DEF BeginConnect, caches, CoinsInv, CacheInv, CacheTypes
<1>3. view = Empty /\ work = <<>> /\ cur = NONE /\ undo = <<>>
  BY DEF BeginConnect, CoinsInv, Resting
<1>4. StateTypes' /\ Resting' /\ Disconnecting'
  BY DEF BeginConnect, caches, files, CoinsInv, StateTypes, Resting, Disconnecting
<1>5. Exact'
  BY <1>1, <1>2 DEF BeginConnect, files, CoinsInv, Exact
<1>6. Connecting'
  <2>1. BlockMap = TipMap
    BY <1>3, NoView DEF CoinsInv
  <2>2. Trace(TipMap, <<>>, Len(chain) + 1, TipMap)
    BY <1>1, TraceNothing
  <2>3. Inside(TipMap, Len(chain) + 1)'
    BY <1>1, <1>3, <2>1, <2>2 DEF BeginConnect, Inside
  <2>4. Applied' = {} /\ UNCHANGED <<work, cur, undo>>
    BY SMT, <1>3 DEF BeginConnect, Applied
  <2> QED
    BY <1>1, <1>3, <2>1, <2>3, <2>4 DEF Connecting
<1>7. UNCHANGED C!vars
  BY <1>1, <1>2 DEF C!vars, DiskMap
<1> QED
  BY <1>2, <1>4, <1>5, <1>6, <1>7 DEF CoinsInv, CoinsStep

\* The last block of a chain.
LEMMA LastBlock ==
  ASSUME NEW c \in Seq(BlockRec), c # <<>>, Traced(c)
  PROVE  /\ Len(c) \in Nat /\ Len(c) # 0 /\ Len(c) \in 1 .. Len(c)
         /\ c[Len(c)] \in BlockRec
         /\ Before(c, Len(c)) \in Map
         /\ Trace(Before(c, Len(c)), c[Len(c)].txs, Len(c), CoinsAfter(c))
<1>1. Len(c) \in Nat /\ Len(c) # 0
  BY SeqEmpty
<1>2. Len(c) \in 1 .. Len(c) /\ c[Len(c)] \in BlockRec
  BY SMT, <1>1, SeqEntry
<1>3. Before(c, Len(c)) \in Map
  <2>1. CASE Len(c) = 1
    BY <2>1, NormClean DEF Before, Nothing, Map
  <2>2. CASE Len(c) # 1
    <3>1. \A n \in Nat : n # 0 /\ n # 1 => n - 1 \in 1 .. n
      BY SMT
    <3>2. Len(c) - 1 \in 1 .. Len(c)
      BY <1>1, <2>2, <3>1
    <3>3. c[Len(c) - 1] \in BlockRec
      BY <3>2, SeqEntry
    <3> QED
      BY <2>2, <3>3 DEF Before, BlockRec
  <2> QED
    BY <2>1, <2>2
<1>4. Trace(Before(c, Len(c)), c[Len(c)].txs, Len(c), c[Len(c)].coins)
  BY <1>2 DEF Traced
<1> QED
  BY <1>1, <1>2, <1>3, <1>4 DEF CoinsAfter

LEMMA BeginDisconnectStep ==
  ASSUME CoinsInv, BeginDisconnect
  PROVE  CoinsInv' /\ CoinsStep
<1>1. TipMap' = TipMap /\ BlockMap' = BlockMap /\ TipMap \in Map
  BY MapTypes DEF BeginDisconnect, caches, TipMap, TipGet, DbGet, BlockMap, ViewGet
<1>2. CacheInv' /\ db' = db
  BY <1>1 DEF BeginDisconnect, caches, CoinsInv, CacheInv, CacheTypes
<1>3. view = Empty /\ undo = <<>>
  BY DEF BeginDisconnect, CoinsInv, Resting
<1>4. /\ chain # <<>> /\ chain \in Seq(BlockRec) /\ Traced(chain)
      /\ UNCHANGED <<chain, dbChain, cur, undo>> /\ work' = chain[Len(chain)].txs
      /\ job' = "disconnect"
  BY DEF BeginDisconnect, CoinsInv, StateTypes, Exact, files
<1>5. StateTypes' /\ Resting' /\ Connecting'
  <2>1. work' \in Seq(TxRec)
    BY <1>4, LastBlock DEF BlockRec
  <2> QED
    BY <1>4, <2>1 DEF BeginDisconnect, CoinsInv, StateTypes, Resting, Connecting
<1>6. Exact'
  BY <1>1, <1>2, <1>4 DEF CoinsInv, Exact
<1>7. Disconnecting'
  <2>1. BlockMap = CoinsAfter(chain)
    BY <1>3, NoView DEF CoinsInv, Exact
  <2>2. Trace(Before(chain, Len(chain)), work', Len(chain), BlockMap) /\ BlockMap \in Map
    BY <1>4, <2>1, LastBlock, MapTypes
  <2>3. Inside(Before(chain, Len(chain)), Len(chain))'
    BY <1>1, <1>3, <1>4, <2>2 DEF Inside
  <2> QED
    BY <1>4, <2>3 DEF Disconnecting
<1>8. UNCHANGED C!vars
  BY <1>1, <1>2 DEF C!vars, DiskMap
<1> QED
  BY <1>2, <1>5, <1>6, <1>7, <1>8 DEF CoinsInv, CoinsStep
LEMMA BeginTxStep ==
  ASSUME CoinsInv, NEW tx \in Tx, BeginTx(tx)
  PROVE  CoinsInv' /\ CoinsStep
<1>1. CacheInv' /\ TipMap' = TipMap /\ BlockMap' = BlockMap /\ db' = db
  BY FetchViewKeeps DEF BeginTx, CoinsInv
<1>2. /\ job = "connect" /\ cur = NONE /\ undo = <<>> /\ cur' = tx
      /\ UNCHANGED <<chain, dbChain, job, work, undo, fClean>>
  BY DEF BeginTx, CoinsInv, Connecting, files
<1>3. StateTypes' /\ Resting' /\ Disconnecting'
  BY <1>2 DEF CoinsInv, StateTypes, Resting, Disconnecting
<1>4. Exact'
  BY <1>1, <1>2 DEF CoinsInv, Exact
<1>5. Connecting'
  <2>1. tx # NONE /\ Applied' = Applied
    BY <1>2, NoneApart DEF Applied
  <2>2. Inside(TipMap, Len(chain) + 1)'
    BY <1>1, <1>2 DEF CoinsInv, Connecting, Inside
  <2>3. TipMap[tx] = Gone
    BY MapTypes, NormClean DEF BeginTx, MayCreate, Map
  <2>4. \A i \in 1 .. Len(Input[tx]) : Input[tx][i][2] \in BlockMap[Input[tx][i][1]].outs
    BY DEF BeginTx, InputsOk
  <2>5. tx \notin Applied
    <3>1. CASE work = <<>>
      BY SMT, <3>1 DEF Applied
    <3>2. CASE work # <<>>
      <4>1. Input[tx] \in Seq(Tx \X Out) /\ Input[tx] # <<>>
        BY <3>2, CoinsAssumption, InputAssumption DEF BeginTx
      <4>2. Len(Input[tx]) \in Nat \ {0}
        BY <4>1, SeqEmpty
      <4>3. 1 \in 1 .. Len(Input[tx])
        BY SMT, <4>2
      <4>4. ~Spent(Input[tx][1])
        BY <2>4, <4>3 DEF Spent
      <4> QED
        BY <1>2, <4>3, <4>4 DEF CoinsInv, Connecting
    <3> QED
      BY <3>1, <3>2
  <2>6. Len(undo) = 0 /\ Len(Input[tx]) \in Nat
    BY SMT, <1>2, CoinsAssumption
  <2>7. \A o : Spent(o) => Spent(o)'
    BY <1>1, <2>1 DEF Spent
  <2>8. /\ \A t \in Tx : BlockMap[t] # Gone => TipMap[t] # Gone \/ t \in Applied
        /\ \A t \in Applied : \A i \in 1 .. Len(Input[t]) : Spent(Input[t][i])
    BY <1>2 DEF CoinsInv, Connecting
  <2>9. \A t \in Applied' : \A i \in 1 .. Len(Input[t]) : Spent(Input[t][i])'
    BY <2>1, <2>7, <2>8
  <2>10. /\ Len(undo) \leq Len(Input[tx])
         /\ \A i \in 1 .. Len(undo) : FALSE
         /\ Len(undo) + 1 = 1
    BY SMT, <2>6
  <2> QED
    BY <1>1, <1>2, <2>1, <2>2, <2>3, <2>4, <2>5, <2>8, <2>9, <2>10 DEF Connecting
<1>6. UNCHANGED C!vars
  BY <1>1 DEF C!vars, DiskMap
<1> QED
  BY <1>1, <1>3, <1>4, <1>5, <1>6 DEF CoinsInv, CoinsStep

LEMMA AppliedType ==
  ASSUME CoinsInv
  PROVE  Applied \subseteq Tx
<1> SUFFICES ASSUME NEW i \in 1 .. Len(work) PROVE work[i].tx \in Tx
  BY DEF Applied
<1>1. work[i] \in TxRec
  BY SeqEntry DEF CoinsInv, StateTypes
<1> QED
  BY <1>1 DEF TxRec

LEMMA SpendInputStep ==
  ASSUME CoinsInv, SpendInput
  PROVE  CoinsInv' /\ CoinsStep
<1> DEFINE n == Len(undo)
           o == Input[cur][n + 1]
           coin == BlockMap[o[1]]
           u == UndoFor(coin, o[2])
<1>1. /\ job = "connect" /\ cur \in Tx /\ cur # NONE /\ n < Len(Input[cur])
      /\ undo \in Seq(UndoRec) /\ n \in Nat /\ Len(Input[cur]) \in Nat
      /\ UNCHANGED <<db, chain, dbChain, job, work, cur, fClean>>
  BY SMTT(30), CoinsAssumption DEF SpendInput, files, CoinsInv, StateTypes
<1>2. n + 1 \in 1 .. Len(Input[cur]) /\ n + 1 \in n + 1 .. Len(Input[cur])
  BY SMT, <1>1
<1>3. o \in Tx \X Out /\ o[1] \in Tx /\ o[2] \in Out
  BY <1>1, <1>2, InputType
<1>4. o[2] \in coin.outs /\ coin \in Clean /\ coin # Gone
  <2>1. o[2] \in coin.outs
    BY <1>1, <1>2 DEF CoinsInv, Connecting
  <2>2. coin \in Clean
    BY <1>3, MapTypes DEF Map
  <2>3. Gone.outs = {}
    BY DEF Gone
  <2> HIDE DEF coin, o
  <2> QED
    BY <2>1, <2>2, <2>3
<1>5. ViewGet(o[1]) = coin
  <2>1. ViewGet(o[1]) \in Raw \cup {NONE} /\ OrGone(ViewGet(o[1])) = coin
    BY <1>3, ViewsAnswer DEF CoinsInv, CacheInv, Answers
  <2> QED
    BY <1>4, <2>1 DEF OrGone, Norm
<1>6. /\ ModifyView(o[1], [coin EXCEPT !.outs = @ \ {o[2]}])
      /\ undo' = Append(undo, u)
  BY <1>5 DEF SpendInput
<1> HIDE DEF n, o, coin
<1>7. /\ [coin EXCEPT !.outs = @ \ {o[2]}] \in Raw /\ u \in UndoRec
      /\ Less(coin, o[2]) \in Clean
      /\ o[2] \notin Less(coin, o[2]).outs /\ Less(coin, o[2]).outs \subseteq coin.outs
      /\ \A k \in coin.outs : k # o[2] => k \in Less(coin, o[2]).outs
  BY <1>4, LessClean
<1>8. CacheInv' /\ TipMap' = TipMap /\ BlockMap' = [BlockMap EXCEPT ![o[1]] = Less(coin, o[2])]
  BY <1>1, <1>3, <1>6, <1>7, ModifyViewSets DEF CoinsInv, Less
<1>9. BlockMap' \in Map /\ TipMap \in Map /\ BlockMap \in Map
  BY <1>7, <1>8, MapTypes DEF Map
<1>10. /\ BlockMap'[o[1]] = Less(coin, o[2])
       /\ \A t \in Tx : t # o[1] => BlockMap'[t] = BlockMap[t]
  BY <1>3, <1>8, <1>9 DEF Map
<1>11. \A t \in Tx : BlockMap'[t].outs \subseteq BlockMap[t].outs /\ (BlockMap[t] = Gone => BlockMap'[t] = Gone)
  BY <1>4, <1>7, <1>10 DEF coin
<1>12. undo' \in Seq(UndoRec) /\ undo' # <<>> /\ Len(undo') = n + 1
  BY SMT, <1>1, <1>6, <1>7, SeqAppend DEF n
<1> HIDE DEF u
<1>13. StateTypes' /\ Resting' /\ Disconnecting'
  BY <1>1, <1>12 DEF CoinsInv, StateTypes, Resting, Disconnecting
<1>14. Exact'
  BY <1>1, <1>8 DEF CoinsInv, Exact
<1>15. Connecting'
  <2>1. Applied' = Applied
    BY <1>1 DEF Applied
  <2>2. Inside(TipMap, Len(chain) + 1)'
    <3>1. PICK w \in Map : /\ Trace(TipMap, work, Len(chain) + 1, w)
                           /\ IF undo = <<>> THEN BlockMap = w
                              ELSE cur \in Tx /\ Spends(w, cur, undo, BlockMap)
      BY <1>1 DEF CoinsInv, Connecting, Inside
    <3>2. Spends(w, cur, undo, BlockMap)
      BY SMTT(30), <1>1, <3>1, SpendsNothing
    <3>3. SpendsTo(BlockMap, o, u, BlockMap')
      BY <1>4, <1>8 DEF SpendsTo, Less, coin, u
    <3>4. Spends(w, cur, undo', BlockMap')
      BY <1>1, <1>6, <1>7, <1>9, <3>2, <3>3, SpendsMore DEF n, o
    <3> QED
      BY <1>1, <1>8, <1>12, <3>1, <3>4 DEF Inside
  <2>3. \A t \in Tx : BlockMap[t] # Gone => TipMap[t] # Gone \/ t \in Applied
    BY <1>1 DEF CoinsInv, Connecting
  <2>4. \A x \in Tx \X Out : Spent(x) => Spent(x)'
    BY <1>8, <1>11, <2>1 DEF Spent
  <2>5. o[2] \notin BlockMap'[o[1]].outs /\ (TipMap'[o[1]] # Gone \/ o[1] \in Applied')
    <3>1. TipMap[o[1]] # Gone \/ o[1] \in Applied
      BY <1>3, <1>4, <2>3 DEF coin
    <3> QED
      BY <1>7, <1>8, <1>10, <2>1, <3>1
  <2>6. \A t \in Applied' : \A i \in 1 .. Len(Input[t]) : Spent(Input[t][i])'
    BY <1>1, <2>1, <2>4, AppliedType, InputType DEF CoinsInv, Connecting
  <2>7. TipMap[cur] = Gone /\ cur \notin Applied
    BY <1>1 DEF CoinsInv, Connecting
  <2>8. \A i \in 1 .. Len(undo') : Spent(Input[cur][i])'
    <3> SUFFICES ASSUME NEW i \in 1 .. n + 1 PROVE Spent(Input[cur][i])'
      BY <1>12
    <3>1. CASE i = n + 1
      BY <1>1, <2>5, <3>1 DEF Spent, o
    <3>2. CASE i # n + 1
      <4>1. i \in 1 .. n /\ i \in 1 .. Len(Input[cur])
        BY SMT, <1>1, <3>2
      <4>2. Spent(Input[cur][i])
        BY <1>1, <4>1 DEF CoinsInv, Connecting, n
      <4> QED
        BY <1>1, <2>4, <4>1, <4>2, InputType
    <3> QED
      BY <3>1, <3>2
  <2>9. \A i \in Len(undo') + 1 .. Len(Input[cur]) :
            Input[cur][i][2] \in BlockMap'[Input[cur][i][1]].outs
    <3> SUFFICES ASSUME NEW i \in (n + 1) + 1 .. Len(Input[cur])
                 PROVE  Input[cur][i][2] \in BlockMap'[Input[cur][i][1]].outs
      BY <1>12
    <3>1. i \in n + 1 .. Len(Input[cur]) /\ i \in 1 .. Len(Input[cur]) /\ i # n + 1
      BY SMT, <1>1
    <3> DEFINE p == Input[cur][i]
    <3>2. p \in Tx \X Out /\ p[1] \in Tx /\ p # o
      BY <1>1, <1>2, <3>1, InputType, InputAssumption DEF o
    <3>3. p[2] \in BlockMap[p[1]].outs
      BY <1>1, <3>1 DEF CoinsInv, Connecting, n
    <3> HIDE DEF p
    <3>4. p[1] = o[1] => p[2] # o[2]
      BY SMT, <1>3, <3>2
    <3>5. p[2] \in BlockMap'[p[1]].outs
      BY <1>7, <1>10, <3>2, <3>3, <3>4 DEF coin
    <3> QED
      BY <3>5 DEF p
  <2>10. Len(undo') \leq Len(Input[cur])
    BY SMT, <1>1, <1>12
  <2>11. \A t \in Tx : BlockMap'[t] # Gone => TipMap[t] # Gone \/ t \in Applied
    BY <1>11, <2>3
  <2> QED
    BY <1>1, <1>8, <2>1, <2>2, <2>6, <2>7, <2>8, <2>9, <2>10, <2>11 DEF Connecting
<1>16. C!Next
  <2>1. C!Spend(o[1], o[2])
    <3>1. Less(coin, o[2]) =
            IF coin.outs = {o[2]} THEN Gone ELSE [coin EXCEPT !.outs = @ \ {o[2]}]
      BY <1>4, LessClean
    <3>2. BlockMap' = [BlockMap EXCEPT ![o[1]] =
            IF BlockMap[o[1]].outs = {o[2]} THEN C!Gone
            ELSE [outs |-> BlockMap[o[1]].outs \ {o[2]}, height |-> BlockMap[o[1]].height]]
      <4>1. coin \in [outs : SUBSET Out, height : Nat]
        BY <1>4 DEF Clean, Raw
      <4>2. [coin EXCEPT !.outs = @ \ {o[2]}] =
                [outs |-> coin.outs \ {o[2]}, height |-> coin.height]
        BY SMT, <4>1
      <4> QED
        BY <1>8, <3>1, <4>2 DEF coin, C!Gone, Gone
    <3>3. o[2] \in BlockMap[o[1]].outs /\ UNCHANGED <<TipMap, DiskMap>>
      BY <1>1, <1>4, <1>8 DEF coin, DiskMap
    <3> QED
      BY <3>2, <3>3 DEF C!Spend
  <2> QED
    BY <1>3, <2>1 DEF C!Next
<1> QED
  BY <1>8, <1>13, <1>14, <1>15, <1>16 DEF CoinsInv, CoinsStep
LEMMA AddOutputsStep ==
  ASSUME CoinsInv, AddOutputs
  PROVE  CoinsInv' /\ CoinsStep
<1> DEFINE t == [tx |-> cur, undo |-> undo]
           h == Len(chain) + 1
           coin == [outs |-> Output[cur], height |-> h]
<1>1. /\ job = "connect" /\ cur \in Tx /\ cur # NONE /\ Len(undo) = Len(Input[cur])
      /\ undo \in Seq(UndoRec) /\ work \in Seq(TxRec) /\ Len(chain) \in Nat
      /\ work' = Append(work, t) /\ cur' = NONE /\ undo' = <<>>
      /\ UNCHANGED <<db, tip, chain, dbChain, job, fClean>>
  BY SMT DEF AddOutputs, files, CoinsInv, StateTypes
<1>2. t \in TxRec /\ coin \in Raw
  BY SMT, <1>1, CoinsAssumption DEF TxRec, Raw
<1>3. TipMap[cur] = Gone /\ cur \notin Applied /\ BlockMap[cur] = Gone
  BY <1>1 DEF CoinsInv, Connecting
<1>4. Made(cur, h) = Norm(coin) /\ Norm(coin) \in Clean
  BY <1>2, NormClean DEF Made
<1>5. CacheInv' /\ TipMap' = TipMap /\ BlockMap' = [BlockMap EXCEPT ![cur] = Norm(coin)]
  <2>1. view' = ModifyNewCoins(view, cur, cur \in CoinBase, coin)
    BY DEF AddOutputs
  <2>2. (cur \in CoinBase) \in BOOLEAN
    BY SMT
  <2> HIDE DEF coin
  <2>3. CASE cur \in CoinBase
    <3>1. view' = ModifyNewCoins(view, cur, TRUE, coin)
      BY <2>1, <2>3 DEF ModifyNewCoins, FreshNew
    <3> QED
      BY <1>1, <1>2, <1>3, <3>1, ModifyNewSets DEF CoinsInv
  <2>4. CASE cur \notin CoinBase
    <3>1. view' = ModifyNewCoins(view, cur, FALSE, coin)
      BY <2>1, <2>4 DEF ModifyNewCoins, FreshNew
    <3> QED
      BY <1>1, <1>2, <1>3, <3>1, ModifyNewSets DEF CoinsInv
  <2> QED
    BY <2>3, <2>4
<1>6. t.tx = cur /\ t.undo = undo
  OBVIOUS
<1>7. BlockMap \in Map /\ TipMap \in Map
  BY MapTypes
<1> HIDE DEF t, coin
<1>8. BlockMap' \in Map /\ BlockMap'[cur] \in Clean /\ \A x \in Tx : x # cur => BlockMap'[x] = BlockMap[x]
  BY <1>1, <1>4, <1>5, <1>7 DEF Map
<1>9. /\ Len(work') = Len(work) + 1 /\ work' \in Seq(TxRec) /\ Len(work) \in Nat
      /\ work'[Len(work) + 1] = t /\ \A i \in 1 .. Len(work) : work'[i] = work[i]
  BY SMT, <1>1, <1>2, SeqAppend
<1>10. Applied' = Applied \cup {cur}
  <2>1. Applied' = {work'[i].tx : i \in 1 .. Len(work) + 1}
    BY <1>9 DEF Applied
  <2>2. \A i : i \in 1 .. Len(work) + 1 <=> i \in 1 .. Len(work) \/ i = Len(work) + 1
    BY SMT, <1>9
  <2> QED
    BY <1>6, <1>9, <2>1, <2>2 DEF Applied
<1>11. StateTypes' /\ Resting' /\ Disconnecting'
  BY SMT, <1>1, <1>9 DEF CoinsInv, StateTypes, Resting, Disconnecting
<1>12. Exact'
  BY <1>1, <1>5 DEF CoinsInv, Exact
<1>13. Connecting'
  <2>1. Inside(TipMap, Len(chain) + 1)'
    <3>1. PICK w \in Map : /\ Trace(TipMap, work, h, w)
                           /\ IF undo = <<>> THEN BlockMap = w
                              ELSE cur \in Tx /\ Spends(w, cur, undo, BlockMap)
      BY <1>1 DEF CoinsInv, Connecting, Inside
    <3>2. Spends(w, cur, undo, BlockMap)
      BY SMTT(30), <1>1, <3>1, SpendsNothing
    <3>3. Applies(w, t, h, BlockMap')
      BY <1>1, <1>3, <1>4, <1>5, <1>6, <1>7, <3>2 DEF Applies
    <3>4. Trace(TipMap, work', h, BlockMap')
      BY <1>1, <1>2, <1>7, <1>8, <3>1, <3>3, TraceMore
    <3> QED
      BY <1>1, <1>5, <1>8, <3>4 DEF Inside
  <2>2. \A x \in Tx : BlockMap'[x] # Gone => TipMap[x] # Gone \/ x \in Applied'
    BY <1>1, <1>8, <1>10 DEF CoinsInv, Connecting
  <2>3. \A x \in Tx \X Out : Spent(x) => Spent(x)'
    BY <1>3, <1>5, <1>8, <1>10 DEF Spent
  <2>4. \A x \in Applied : \A i \in 1 .. Len(Input[x]) : Spent(Input[x][i])'
    BY <1>1, <2>3, AppliedType, InputType DEF CoinsInv, Connecting
  <2>5. \A i \in 1 .. Len(Input[cur]) : Spent(Input[cur][i])
    BY <1>1 DEF CoinsInv, Connecting
  <2>6. \A x \in Applied' : \A i \in 1 .. Len(Input[x]) : Spent(Input[x][i])'
    <3> SUFFICES ASSUME NEW x \in Applied', NEW i \in 1 .. Len(Input[x])
                 PROVE  Spent(Input[x][i])'
      OBVIOUS
    <3>1. CASE x \in Applied
      BY <2>4, <3>1
    <3>2. CASE x = cur
      <4>1. Input[x][i] \in Tx \X Out /\ Spent(Input[x][i])
        BY <1>1, <2>5, <3>2, InputType
      <4> QED
        BY <2>3, <4>1
    <3> QED
      BY <1>10, <3>1, <3>2
  <2> QED
    BY <1>1, <1>5, <2>1, <2>2, <2>6 DEF Connecting
<1>14. C!Next
  <2>1. C!Create(cur)
    <3>1. BlockMap[cur] = C!Gone
      BY <1>3 DEF C!Gone, Gone
    <3>2. BlockMap'[cur] \in C!Coin
      BY <1>8 DEF Clean, Raw, C!Coin
    <3>3. BlockMap' = [BlockMap EXCEPT ![cur] = BlockMap'[cur]]
      BY <1>1, <1>5, <1>7 DEF Map
    <3> QED
      BY <1>1, <1>5, <3>1, <3>2, <3>3 DEF C!Create, DiskMap
  <2> QED
    BY <1>1, <2>1 DEF C!Next
<1> QED
  BY <1>5, <1>11, <1>12, <1>13, <1>14 DEF CoinsInv, CoinsStep

LEMMA AbortConnectStep ==
  ASSUME CoinsInv, AbortConnect
  PROVE  CoinsInv' /\ CoinsStep
<1>1. CacheInv' /\ TipMap' = TipMap /\ BlockMap' = TipMap /\ db' = db
  BY DropSets DEF AbortConnect, CoinsInv
<1>2. StateTypes' /\ Resting' /\ Connecting' /\ Disconnecting'
  BY SeqEmpty DEF AbortConnect, files, CoinsInv, StateTypes, Resting, Connecting, Disconnecting
<1>3. Exact'
  BY <1>1 DEF AbortConnect, files, CoinsInv, Exact
<1>4. C!Discard
  BY <1>1 DEF C!Discard, DiskMap
<1> QED
  BY <1>1, <1>2, <1>3, <1>4 DEF CoinsInv, CoinsStep, C!Next

\* A block is put at the end of a chain.
LEMMA TracedMore ==
  ASSUME NEW c \in Seq(BlockRec), NEW b \in BlockRec, Traced(c),
         Trace(CoinsAfter(c), b.txs, Len(c) + 1, b.coins)
  PROVE  /\ Append(c, b) \in Seq(BlockRec) /\ Traced(Append(c, b))
         /\ CoinsAfter(Append(c, b)) = b.coins
<1> DEFINE d == Append(c, b)
           n == Len(c)
<1>1. /\ d \in Seq(BlockRec) /\ d # <<>> /\ Len(d) = n + 1 /\ n \in Nat
      /\ d[n + 1] = b /\ \A i \in 1 .. n : d[i] = c[i]
  BY SMT, SeqAppend
<1>2. CoinsAfter(d) = b.coins
  BY <1>1 DEF CoinsAfter
<1>3. CoinsAfter(c) = Before(d, n + 1)
  <2>1. CASE n = 0
    <3>1. c = <<>>
      BY <2>1, SeqEmpty
    <3> QED
      BY SMT, <2>1, <3>1 DEF CoinsAfter, Before, Nothing
  <2>2. CASE n # 0
    <3>1. c # <<>>
      BY SMT, <2>2
    <3> HIDE DEF d, n
    <3>2. n \in 1 .. n /\ (n + 1) - 1 = n /\ n + 1 # 1
      BY SMT, <1>1, <2>2
    <3>3. d[n] = c[n]
      BY <1>1, <3>2
    <3> QED
      BY <3>1, <3>2, <3>3 DEF CoinsAfter, Before, n
  <2> QED
    BY <2>1, <2>2
<1> HIDE DEF d, n
<1>4. ASSUME NEW i \in 1 .. n + 1 PROVE Trace(Before(d, i), d[i].txs, i, d[i].coins)
  <2>1. CASE i = n + 1
    BY <1>1, <1>3, <2>1 DEF n
  <2>2. CASE i # n + 1
    <3>1. i \in 1 .. n /\ (i # 1 => i - 1 \in 1 .. n)
      BY SMT, <1>1, <2>2
    <3>2. d[i] = c[i] /\ Before(d, i) = Before(c, i)
      BY <1>1, <3>1 DEF Before
    <3> QED
      BY <3>1, <3>2 DEF Traced, n
  <2> QED
    BY <2>1, <2>2
<1> QED
  BY <1>1, <1>2, <1>4 DEF Traced, d
\* The last block of a chain is taken away.
LEMMA TracedLess ==
  ASSUME NEW c \in Seq(BlockRec), c # <<>>, Traced(c)
  PROVE  LET d == SubSeq(c, 1, Len(c) - 1)
         IN  d \in Seq(BlockRec) /\ Traced(d) /\ CoinsAfter(d) = Before(c, Len(c))
<1> DEFINE n == Len(c) - 1
           d == SubSeq(c, 1, n)
<1>1. n \in Nat /\ Len(c) = n + 1 /\ n \in 0 .. Len(c)
  <2>1. Len(c) \in Nat /\ Len(c) # 0
    BY SeqEmpty
  <2> QED
    BY SMT, <2>1
<1>2. d \in Seq(BlockRec) /\ Len(d) = n /\ \A i \in 1 .. n : d[i] = c[i]
  BY <1>1, Prefix
<1> HIDE DEF n, d
<1>3. CoinsAfter(d) = Before(c, Len(c))
  <2>1. CASE n = 0
    <3>1. d = <<>> /\ Len(c) = 1
      BY SMT, <1>1, <1>2, <2>1, SeqEmpty
    <3> QED
      BY <3>1 DEF CoinsAfter, Before, Nothing
  <2>2. CASE n # 0
    <3>1. d # <<>> /\ n \in 1 .. n /\ Len(c) - 1 = n /\ Len(c) # 1
      BY SMT, <1>1, <1>2, <2>2
    <3> QED
      BY <1>2, <3>1 DEF CoinsAfter, Before
  <2> QED
    BY <2>1, <2>2
<1>4. ASSUME NEW i \in 1 .. n PROVE Trace(Before(d, i), d[i].txs, i, d[i].coins)
  <2>1. i \in 1 .. Len(c) /\ (i # 1 => i - 1 \in 1 .. n)
    BY SMTT(30), <1>1
  <2>2. d[i] = c[i] /\ Before(d, i) = Before(c, i)
    BY <1>2, <2>1 DEF Before
  <2> QED
    BY <2>1, <2>2 DEF Traced
<1> QED
  BY <1>2, <1>3, <1>4 DEF Traced, d, n

LEMMA EndConnectStep ==
  ASSUME CoinsInv, EndConnect
  PROVE  CoinsInv' /\ CoinsStep
<1> DEFINE b == [txs |-> work, coins |-> BlockMap]
<1>1. CacheInv' /\ TipMap' = BlockMap /\ BlockMap' = BlockMap /\ db' = db /\ view' = Empty
  BY CommitSets DEF EndConnect, CoinsInv
<1>2. /\ job = "connect" /\ cur = NONE /\ job' = "idle" /\ work' = <<>>
      /\ chain' = Append(chain, b) /\ UNCHANGED <<dbChain, cur, undo, fClean>>
      /\ work \in Seq(TxRec) /\ chain \in Seq(BlockRec)
  BY DEF EndConnect, CoinsInv, StateTypes
<1>3. undo = <<>> /\ Inside(TipMap, Len(chain) + 1)
  BY <1>2 DEF CoinsInv, Connecting
<1>4. BlockMap \in Map /\ Trace(CoinsAfter(chain), work, Len(chain) + 1, BlockMap)
  BY <1>3, MapTypes DEF Inside, CoinsInv, Exact
<1>5. b \in BlockRec /\ b.txs = work /\ b.coins = BlockMap
  BY <1>2, <1>4 DEF BlockRec
<1> HIDE DEF b
<1>6. /\ chain' \in Seq(BlockRec) /\ Traced(chain') /\ CoinsAfter(chain') = BlockMap
  BY <1>2, <1>4, <1>5, TracedMore DEF CoinsInv, Exact
<1>7. StateTypes' /\ Resting' /\ Connecting' /\ Disconnecting'
  BY <1>1, <1>2, <1>3, <1>6, SeqEmpty
  DEF CoinsInv, StateTypes, Resting, Connecting, Disconnecting
<1>8. Exact'
  BY <1>1, <1>2, <1>6 DEF CoinsInv, Exact
<1>9. C!Commit
  BY <1>1 DEF C!Commit, DiskMap
<1> QED
  BY <1>1, <1>7, <1>8, <1>9 DEF CoinsInv, CoinsStep, C!Next

LEMMA RemoveOutputsStep ==
  ASSUME CoinsInv, RemoveOutputs
  PROVE  CoinsInv' /\ CoinsStep
<1> DEFINE a == Before(chain, Len(chain))
           h == Len(chain)
           last == work[Len(work)]
<1>1. /\ job = "disconnect" /\ undo = <<>> /\ work # <<>> /\ chain # <<>>
      /\ chain \in Seq(BlockRec) /\ Traced(chain) /\ work \in Seq(TxRec) /\ fClean = TRUE
      /\ ModifyView(last.tx, Gone)
      /\ fClean' = (fClean /\ BlockMap[last.tx] = Made(last.tx, h))
      /\ cur' = last.tx /\ undo' = last.undo
      /\ work' = SubSeq(work, 1, Len(work) - 1)
      /\ UNCHANGED <<db, chain, dbChain, job>>
  BY DEF RemoveOutputs, Made, files, CoinsInv, StateTypes, Disconnecting, Exact
<1>2. Len(work) \in Nat \ {0}
  BY <1>1, SeqEmpty
<1>3. Len(work) \in 1 .. Len(work) /\ Len(work) - 1 \in 0 .. Len(work)
  BY SMTT(30), <1>2
<1>4. last \in TxRec /\ work' \in Seq(TxRec)
  BY <1>1, <1>3, SeqEntry, Prefix
<1>5. a \in Map /\ Trace(a, work, h, BlockMap) /\ BlockMap \in Map
  BY <1>1, LastBlock, MapTypes DEF CoinsInv, Disconnecting, Inside
<1>6. last.tx \in Tx /\ last.undo \in Seq(UndoRec)
  BY <1>4 DEF TxRec
<1>7. PICK b0 \in Map : Trace(a, work', h, b0) /\ Applies(b0, last, h, BlockMap)
  BY <1>1, <1>5, TraceLess
<1>8. PICK b \in Map : /\ Spends(b0, last.tx, last.undo, b)
                       /\ b[last.tx] = Gone
                       /\ BlockMap = [b EXCEPT ![last.tx] = Made(last.tx, h)]
  BY <1>7 DEF Applies
<1> HIDE DEF last, a, h
<1>9. BlockMap[last.tx] = Made(last.tx, h) /\ [BlockMap EXCEPT ![last.tx] = Gone] = b
  BY <1>6, <1>8 DEF Map
<1>10. CacheInv' /\ TipMap' = TipMap /\ BlockMap' = b
  <2>1. Gone \in Raw /\ Norm(Gone) = Gone
    BY NormClean DEF Clean
  <2> QED
    BY <1>1, <1>6, <1>9, <2>1, ModifyViewSets DEF CoinsInv
<1>11. StateTypes' /\ Resting' /\ Connecting'
  BY <1>1, <1>4, <1>6, <1>9 DEF CoinsInv, StateTypes, Resting, Connecting
<1>12. Exact'
  BY <1>1, <1>10 DEF CoinsInv, Exact
<1>13. Disconnecting'
  <2>1. IF undo' = <<>> THEN BlockMap' = b0 ELSE cur' \in Tx /\ Spends(b0, cur', undo', BlockMap')
    BY SMT, <1>1, <1>6, <1>8, <1>10, SpendsNothing
  <2>2. Inside(Before(chain, Len(chain)), Len(chain))'
    BY <1>1, <1>7, <2>1 DEF Inside, a, h
  <2> QED
    BY <1>1, <2>2 DEF Disconnecting
<1>14. C!Next
  <2>1. C!Remove(last.tx)
    BY <1>1, <1>9, <1>10 DEF C!Remove, C!Gone, Gone, DiskMap
  <2> QED
    BY <1>6, <2>1 DEF C!Next
<1> QED
  BY <1>10, <1>11, <1>12, <1>13, <1>14 DEF CoinsInv, CoinsStep

LEMMA RestoreInputStep ==
  ASSUME CoinsInv, RestoreInput
  PROVE  CoinsInv' /\ CoinsStep
<1> DEFINE a == Before(chain, Len(chain))
           h == Len(chain)
           n == Len(undo)
           o == Input[cur][n]
           u == undo[n]
           base == IF u.height # 0 THEN [outs |-> {}, height |-> u.height] ELSE BlockMap[o[1]]
<1>1. /\ job = "disconnect" /\ undo # <<>> /\ chain # <<>>
      /\ undo \in Seq(UndoRec) /\ fClean = TRUE
      /\ fClean' = (fClean /\ (u.height # 0) = IsPruned(BlockMap[o[1]]) /\ u.n \notin base.outs)
      /\ ModifyView(o[1], [base EXCEPT !.outs = @ \cup {u.n}])
      /\ undo' = SubSeq(undo, 1, Len(undo) - 1)
      /\ UNCHANGED <<db, chain, dbChain, job, work, cur>>
  BY DEF RestoreInput, files, CoinsInv, StateTypes, Disconnecting
<1>2. n \in Nat \ {0}
  BY <1>1, SeqEmpty
<1>3. n - 1 \in 0 .. Len(undo)
  BY SMT, <1>2
<1>4. undo' \in Seq(UndoRec)
  BY <1>1, <1>3, Prefix
<1>5. PICK w \in Map : Trace(a, work, h, w) /\ cur \in Tx /\ Spends(w, cur, undo, BlockMap)
  BY <1>1 DEF CoinsInv, Disconnecting, Inside
<1>6. n \in 1 .. Len(Input[cur])
  <2>1. n \leq Len(Input[cur]) /\ Len(Input[cur]) \in Nat
    BY SMT, <1>5, CoinsAssumption DEF Spends
  <2> QED
    BY SMT, <1>2, <2>1
<1>7. o \in Tx \X Out /\ o[1] \in Tx /\ o[2] \in Out
  BY <1>5, <1>6, InputType
<1>8. PICK b \in Map : Spends(w, cur, undo', b) /\ SpendsTo(b, o, u, BlockMap)
  BY <1>1, <1>5, SpendsLess
<1> HIDE DEF a, h, n, o, u
<1>9. /\ u.n = o[2]
      /\ (u.height # 0) = IsPruned(BlockMap[o[1]])
      /\ u.n \notin base.outs
      /\ [base EXCEPT !.outs = @ \cup {u.n}] = b[o[1]] /\ b[o[1]] \in Raw
      /\ [BlockMap EXCEPT ![o[1]] = Norm(b[o[1]])] = b
      /\ u.n \notin BlockMap[o[1]].outs /\ b[o[1]].outs = BlockMap[o[1]].outs \cup {u.n}
      /\ BlockMap[o[1]] # Gone => b[o[1]].height = BlockMap[o[1]].height
  BY SMT, <1>7, <1>8, UndoSpend
<1> HIDE DEF base
<1>10. CacheInv' /\ TipMap' = TipMap /\ BlockMap' = b
  BY SMTT(30), <1>1, <1>7, <1>9, ModifyViewSets DEF CoinsInv
<1>11. fClean' = TRUE
  BY <1>1, <1>9
<1>12. StateTypes' /\ Resting' /\ Connecting'
  BY <1>1, <1>4, <1>11 DEF CoinsInv, StateTypes, Resting, Connecting
<1>13. Exact'
  BY <1>1, <1>10 DEF CoinsInv, Exact
<1>14. Disconnecting'
  <2>0. cur' = cur /\ (undo' = <<>> => w = b)
    <3>1. CASE undo' = <<>>
      <4>1. Spends(w, cur, <<>>, b)
        BY <1>8, <3>1
      <4> QED
        BY <1>1, <1>5, <4>1, SpendsNothing
    <3> QED
      BY <1>1, <3>1
  <2>1. IF undo' = <<>> THEN BlockMap' = w ELSE cur' \in Tx /\ Spends(w, cur', undo', BlockMap')
    BY <1>5, <1>8, <1>10, <2>0
  <2>2. Inside(Before(chain, Len(chain)), Len(chain))'
    BY <1>1, <1>5, <2>1 DEF Inside, a, h
  <2> QED
    BY <1>1, <2>2 DEF Disconnecting
<1>15. C!Next
  <2>1. b[o[1]] \in C!Coin
    BY <1>9 DEF Raw, C!Coin
  <2>2. b = [BlockMap EXCEPT ![o[1]] = b[o[1]]]
    <3>1. Norm(b[o[1]]) = b[o[1]]
      BY <1>7, NormClean DEF Map
    <3> QED
      BY <1>9, <3>1
  <2>3. C!Restore(o[1], o[2])
    BY <1>1, <1>9, <1>10, <2>1, <2>2 DEF C!Restore, C!Gone, Gone, DiskMap
  <2> QED
    BY <1>7, <2>3 DEF C!Next
<1> QED
  BY <1>10, <1>12, <1>13, <1>14, <1>15 DEF CoinsInv, CoinsStep
LEMMA EndDisconnectStep ==
  ASSUME CoinsInv, EndDisconnect
  PROVE  CoinsInv' /\ CoinsStep
<1>1. /\ job = "disconnect" /\ undo = <<>> /\ work = <<>> /\ fClean = TRUE /\ chain # <<>>
      /\ chain \in Seq(BlockRec) /\ Traced(chain)
      /\ Inside(Before(chain, Len(chain)), Len(chain))
      /\ tip' = BatchWrite(tip, view) /\ view' = Empty /\ job' = "idle" /\ cur' = NONE
      /\ chain' = SubSeq(chain, 1, Len(chain) - 1)
      /\ UNCHANGED <<db, dbChain, work, undo, fClean>>
  BY DEF EndDisconnect, files, CoinsInv, StateTypes, Disconnecting, Exact
<1>2. CacheInv' /\ TipMap' = BlockMap /\ BlockMap' = BlockMap
  BY <1>1, CommitSets DEF CoinsInv
<1>3. BlockMap = Before(chain, Len(chain))
  BY <1>1, LastBlock, TraceNothing DEF Inside
<1>4. chain' \in Seq(BlockRec) /\ Traced(chain') /\ CoinsAfter(chain') = BlockMap
  BY <1>1, <1>3, TracedLess
<1>5. StateTypes' /\ Resting' /\ Connecting' /\ Disconnecting'
  BY <1>1, <1>4 DEF CoinsInv, StateTypes, Resting, Connecting, Disconnecting
<1>6. Exact'
  BY <1>1, <1>2, <1>4 DEF CoinsInv, Exact
<1>7. C!Commit
  BY <1>1, <1>2 DEF C!Commit, DiskMap
<1> QED
  BY <1>2, <1>5, <1>6, <1>7 DEF CoinsInv, CoinsStep, C!Next

LEMMA FlushCoinsStep ==
  ASSUME CoinsInv, FlushCoins
  PROVE  CoinsInv' /\ CoinsStep
<1>1. view = Empty /\ work = <<>> /\ cur = NONE /\ undo = <<>>
  BY DEF FlushCoins, CoinsInv, Resting
<1>2. CacheInv' /\ db' = TipMap /\ TipMap' = TipMap /\ BlockMap' = TipMap /\ BlockMap = TipMap
  BY <1>1, FlushSets DEF FlushCoins, CoinsInv
<1>3. StateTypes' /\ Resting' /\ Connecting' /\ Disconnecting'
  BY <1>1 DEF FlushCoins, CoinsInv, StateTypes, Resting, Connecting, Disconnecting
<1>4. Exact'
  BY <1>2 DEF FlushCoins, CoinsInv, Exact
<1>5. C!Flush
  BY <1>2 DEF C!Flush, DiskMap
<1> QED
  BY <1>2, <1>3, <1>4, <1>5 DEF CoinsInv, CoinsStep, C!Next

LEMMA RestartStep ==
  ASSUME CoinsInv, Restart
  PROVE  CoinsInv' /\ CoinsStep
<1>1. CacheInv' /\ TipMap' = db /\ BlockMap' = db /\ db' = db
  BY RestartSets DEF Restart, CoinsInv
<1>2. StateTypes' /\ Resting' /\ Connecting' /\ Disconnecting'
  BY SeqEmpty DEF Restart, CoinsInv, StateTypes, Resting, Connecting, Disconnecting
<1>3. Exact'
  BY <1>1 DEF Restart, CoinsInv, Exact
<1>4. C!Crash
  BY <1>1 DEF C!Crash, DiskMap
<1> QED
  BY <1>1, <1>2, <1>3, <1>4 DEF CoinsInv, CoinsStep, C!Next

LEMMA NextCoins == CoinsInv /\ [Next]_vars => CoinsInv' /\ CoinsStep
<1> SUFFICES ASSUME CoinsInv, [Next]_vars PROVE CoinsInv' /\ CoinsStep
  OBVIOUS
<1>1. CASE BeginConnect
  BY <1>1, BeginConnectStep
<1>2. CASE SpendInput
  BY <1>2, SpendInputStep
<1>3. CASE AddOutputs
  BY <1>3, AddOutputsStep
<1>4. CASE EndConnect
  BY <1>4, EndConnectStep
<1>5. CASE AbortConnect
  BY <1>5, AbortConnectStep
<1>6. CASE BeginDisconnect
  BY <1>6, BeginDisconnectStep
<1>7. CASE RemoveOutputs
  BY <1>7, RemoveOutputsStep
<1>8. CASE RestoreInput
  BY <1>8, RestoreInputStep
<1>9. CASE EndDisconnect
  BY <1>9, EndDisconnectStep
<1>10. ASSUME NEW tx \in Tx, BeginTx(tx) PROVE CoinsInv' /\ CoinsStep
  BY <1>10, BeginTxStep
<1>11. ASSUME NEW tx \in Tx, Read(tx) \/ Uncache(tx) PROVE CoinsInv' /\ CoinsStep
  <2>1. CacheInv' /\ TipMap' = TipMap /\ BlockMap' = BlockMap /\ db' = db
    BY <1>11, TipEntryKeeps DEF CoinsInv, Read, Uncache
  <2>2. UNCHANGED <<view, chain, dbChain, job, work, cur, undo, fClean>>
    BY <1>11 DEF Read, Uncache, files
  <2>3. Resting'
    BY <2>2 DEF CoinsInv, Resting
  <2> QED
    BY <2>1, <2>2, <2>3, QuietStep
<1>12. CASE NextFile \/ WriteIndex \/ EndWrite
  <2>1. /\ UNCHANGED <<caches, chain, dbChain, work, cur, undo, fClean>>
        /\ job \in {"idle", "flush"} /\ job' \in {"idle", "flush"}
    BY <1>12 DEF NextFile, WriteIndex, EndWrite, files
  <2> QED
    BY <2>1, IdleStep
<1>13. CASE FlushCoins
  BY <1>13, FlushCoinsStep
<1>14. CASE Restart
  BY <1>14, RestartStep
<1>15. CASE UNCHANGED vars
  <2>1. /\ UNCHANGED <<db, tip, view>>
        /\ UNCHANGED <<chain, dbChain, job, work, cur, undo, fClean>>
    BY <1>15 DEF vars, caches, files
  <2>2. TipMap' = TipMap /\ BlockMap' = BlockMap
    BY <2>1 DEF TipMap, TipGet, DbGet, BlockMap, ViewGet
  <2>3. CacheInv' /\ Resting'
    BY <2>1, <2>2 DEF CoinsInv, CacheInv, CacheTypes, Resting
  <2> QED
    BY <2>1, <2>2, <2>3, QuietStep
<1> QED
  BY <1>1, <1>2, <1>3, <1>4, <1>5, <1>6, <1>7, <1>8, <1>9, <1>10, <1>11, <1>12, <1>13, <1>14,
     <1>15 DEF Next

LEMMA CoinsInvHolds == Spec => []CoinsInv
  BY InitCoins, NextCoins, PTL DEF Spec
-----------------------------------------------------------------------------
(* The theorems. *)

\* The coins caches implement the three sets of unspent outputs: every step of FetchCoins,
\* ModifyCoins, ModifyNewCoins, BatchWrite, Uncache and the database, block by block and
\* with restarts, is a step of Coins or changes none of the three.
THEOREM CoinsRefined == Spec => CoinsSpec
<1>1. Init => C!Init
  BY InitCoins
<1>2. CoinsInv /\ [Next]_vars => [C!Next]_C!vars
  BY NextCoins DEF CoinsStep
<1> QED
  BY <1>1, <1>2, CoinsInvHolds, PTL DEF Spec, CoinsSpec, C!Spec

\* The flags of both caches are sound after any sequence of reads, writes, block and cache
\* flushes and restarts, so that BatchWrite never throws.
THEOREM FreshSoundHolds == Spec => []FreshSound
<1>1. CoinsInv => FreshSound
  BY FlagsRight DEF CoinsInv, CacheInv
<1> QED
  BY <1>1, CoinsInvHolds, PTL

\* DisconnectBlock and ApplyTxInUndo find everything as they expect it.
THEOREM UndoCleanHolds == Spec => []UndoClean
<1>1. CoinsInv => UndoClean
  BY DEF CoinsInv, StateTypes, UndoClean
<1> QED
  BY <1>1, CoinsInvHolds, PTL

\* Whenever no block is being applied or undone, and in particular after DisconnectTip,
\* pcoinsTip has exactly the unspent outputs after the chain.
THEOREM UndoExactHolds == Spec => []UndoExact
<1>1. CoinsInv => UndoExact
  BY DEF CoinsInv, Exact, UndoExact
<1> QED
  BY <1>1, CoinsInvHolds, PTL

\* The coins database is at any time exactly what its best block says.
THEOREM DiskExactHolds == Spec => []DiskExact
<1>1. CoinsInv => DiskExact
  BY DEF CoinsInv, Exact, DiskExact, DiskMap
<1> QED
  BY <1>1, CoinsInvHolds, PTL

\* UpdateCoins meets no spent input and ModifyNewCoins no unspent output, even where a
\* block spends outputs of its own transactions.
THEOREM NeverThrowsHolds == Spec => []NeverThrows
<1>1. CoinsInv => NeverThrows
  <2> SUFFICES ASSUME CoinsInv, job = "connect", cur # NONE
               PROVE  /\ \A i \in Len(undo) + 1 .. Len(Input[cur]) :
                            Input[cur][i][2] \in BlockMap[Input[cur][i][1]].outs
                      /\ cur \notin CoinBase /\ view[cur] # NONE => IsPruned(view[cur].coins)
    BY DEF NeverThrows
  <2>1. cur \in Tx /\ BlockMap[cur] = Gone
    BY DEF CoinsInv, StateTypes, Connecting
  <2>2. view[cur] # NONE => BlockMap[cur] = Norm(view[cur].coins)
    BY <2>1, ViewsAnswer DEF CoinsInv, CacheInv, Answers, Ans
  <2> QED
    BY SMT, <2>1, <2>2 DEF CoinsInv, Connecting, Norm, Gone, IsPruned
<1> QED
  BY <1>1, CoinsInvHolds, PTL
-----------------------------------------------------------------------------
(* What is on disk can be undone. *)

\* The blocks of the chain c: its prefixes.
Blocks(c) == {SubSeq(c, 1, n) : n \in 1 .. Len(c)}

\* Undo data written into the last file wait for FileCommit there, and only as long as the
\* index on disk does not know the block: NextFile and WriteIndex commit that file.
FilesInv ==
    /\ Blocks(chain) \subseteq hasUndo
    /\ Blocks(dbChain) \subseteq indexed /\ indexed \subseteq hasUndo
    /\ \A p \in pending : p[3] \/ (p[2] = nLastBlockFile /\ p[1] \notin indexed)
    /\ job = "flush" => Blocks(chain) \subseteq indexed

LEMMA BlocksMore ==
  ASSUME NEW c \in Seq(BlockRec), NEW b \in BlockRec
  PROVE  Blocks(Append(c, b)) = Blocks(c) \cup {Append(c, b)}
<1> DEFINE d == Append(c, b)
<1>1. /\ d \in Seq(BlockRec) /\ Len(d) = Len(c) + 1 /\ Len(c) \in Nat
      /\ \A i \in 1 .. Len(c) : d[i] = c[i]
  BY SMT, SeqAppend
<1> HIDE DEF d
<1>2. SubSeq(d, 1, Len(c) + 1) = d
  BY <1>1, PrefixAll
<1>3. ASSUME NEW n \in 1 .. Len(c) PROVE SubSeq(d, 1, n) = SubSeq(c, 1, n)
  <2>1. n \in 0 .. Len(c) /\ n \in 0 .. Len(d) /\ \A i \in 1 .. n : i \in 1 .. Len(c)
    BY SMT, <1>1
  <2>2. /\ SubSeq(d, 1, n) \in Seq(BlockRec) /\ Len(SubSeq(d, 1, n)) = n
        /\ \A i \in 1 .. n : SubSeq(d, 1, n)[i] = d[i]
    BY <1>1, <2>1, Prefix
  <2>3. /\ SubSeq(c, 1, n) \in Seq(BlockRec) /\ Len(SubSeq(c, 1, n)) = n
        /\ \A i \in 1 .. n : SubSeq(c, 1, n)[i] = c[i]
    BY <2>1, Prefix
  <2> QED
    BY <1>1, <2>1, <2>2, <2>3, SeqSame
<1>4. \A n : n \in 1 .. Len(d) <=> n \in 1 .. Len(c) \/ n = Len(c) + 1
  BY SMT, <1>1
<1>5. Blocks(d) = Blocks(c) \cup {d}
  BY <1>2, <1>3, <1>4 DEF Blocks
<1> QED
  BY <1>5 DEF d

LEMMA BlocksLess ==
  ASSUME NEW c \in Seq(BlockRec), c # <<>>
  PROVE  Blocks(SubSeq(c, 1, Len(c) - 1)) \subseteq Blocks(c)
<1> DEFINE m == Len(c) - 1
           d == SubSeq(c, 1, m)
<1>1. m \in Nat /\ Len(c) = m + 1 /\ m \in 0 .. Len(c)
  <2>1. Len(c) \in Nat /\ Len(c) # 0
    BY SeqEmpty
  <2> QED
    BY SMT, <2>1
<1>2. d \in Seq(BlockRec) /\ Len(d) = m /\ \A i \in 1 .. m : d[i] = c[i]
  BY <1>1, Prefix
<1> HIDE DEF m, d
<1>3. ASSUME NEW n \in 1 .. m PROVE SubSeq(d, 1, n) = SubSeq(c, 1, n) /\ n \in 1 .. Len(c)
  <2>1. /\ n \in 0 .. Len(c) /\ n \in 0 .. Len(d) /\ n \in 1 .. Len(c)
        /\ \A i \in 1 .. n : i \in 1 .. m
    BY SMTT(30), <1>1, <1>2
  <2>2. /\ SubSeq(d, 1, n) \in Seq(BlockRec) /\ Len(SubSeq(d, 1, n)) = n
        /\ \A i \in 1 .. n : SubSeq(d, 1, n)[i] = d[i]
    BY <1>2, <2>1, Prefix
  <2>3. /\ SubSeq(c, 1, n) \in Seq(BlockRec) /\ Len(SubSeq(c, 1, n)) = n
        /\ \A i \in 1 .. n : SubSeq(c, 1, n)[i] = c[i]
    BY <2>1, Prefix
  <2> QED
    BY <1>2, <2>1, <2>2, <2>3, SeqSame
<1>4. Blocks(d) \subseteq Blocks(c)
  BY <1>2, <1>3 DEF Blocks
<1> QED
  BY <1>4 DEF d, m

LEMMA NextFiles ==
  ASSUME CoinsInv, FilesInv, [Next]_vars
  PROVE  FilesInv'
<1> USE DEF FilesInv
<1>1. CASE BeginConnect \/ BeginDisconnect
  BY <1>1 DEF BeginConnect, BeginDisconnect, files
<1>2. CASE SpendInput \/ AddOutputs \/ AbortConnect \/ RemoveOutputs \/ RestoreInput
  BY <1>2 DEF SpendInput, AddOutputs, AbortConnect, RemoveOutputs, RestoreInput, files
<1>3. CASE EndConnect
  <2> DEFINE b == [txs |-> work, coins |-> BlockMap]
  <2>1. /\ chain' = Append(chain, b) /\ WriteUndo(chain') /\ job' = "idle"
        /\ UNCHANGED <<dbChain, indexed, nLastBlockFile>>
    BY <1>3 DEF EndConnect
  <2>2. b \in BlockRec /\ chain \in Seq(BlockRec)
    BY MapTypes DEF CoinsInv, StateTypes, BlockRec
  <2> HIDE DEF b
  <2>3. Blocks(chain') = Blocks(chain) \cup {chain'}
    BY <2>1, <2>2, BlocksMore
  <2>4. job' = "idle" /\ UNCHANGED <<dbChain, indexed, nLastBlockFile>>
    BY <2>1
  <2>5. Blocks(dbChain') = Blocks(dbChain)
    BY <2>4
  <2>6. CASE chain' \in hasUndo
    <3>1. UNCHANGED <<hasUndo, pending>>
      BY <2>1, <2>6 DEF WriteUndo
    <3> QED
      BY <2>3, <2>6, <2>4, <2>5, <3>1
  <2>7. CASE chain' \notin hasUndo
    <3>1. PICK nFile \in 0 .. nLastBlockFile :
                  /\ hasUndo' = hasUndo \cup {chain'}
                  /\ pending' = pending \cup {<<chain', nFile, nFile # nLastBlockFile>>}
      BY <2>1, <2>7 DEF WriteUndo
    <3>2. chain' \notin indexed
      BY <2>7
    <3> DEFINE p == <<chain', nFile, nFile # nLastBlockFile>>
    <3>3. p[3] \/ (p[2] = nLastBlockFile /\ p[1] \notin indexed)
      <4>1. p[1] = chain' /\ p[2] = nFile
        BY Zenon
      <4>2. p[3] = (nFile # nLastBlockFile)
        BY Zenon
      <4> QED
        BY Zenon, <3>2, <4>1, <4>2
    <3> HIDE DEF p
    <3>4. pending' = pending \cup {p}
      BY <3>1 DEF p
    <3> QED
      BY <2>3, <2>4, <2>5, <3>1, <3>3, <3>4
  <2> QED
    BY <2>6, <2>7
<1>4. CASE EndDisconnect
  <2>1. Blocks(chain') \subseteq Blocks(chain)
    <3>1. chain # <<>> /\ chain \in Seq(BlockRec)
      BY <1>4 DEF EndDisconnect, CoinsInv, Disconnecting, StateTypes
    <3> QED
      BY <1>4, <3>1, BlocksLess DEF EndDisconnect
  <2> QED
    BY <1>4, <2>1 DEF EndDisconnect, files
<1>5. CASE \E tx \in Tx : BeginTx(tx) \/ Read(tx) \/ Uncache(tx)
  BY <1>5 DEF BeginTx, Read, Uncache, files
<1>6. CASE NextFile
  BY <1>6 DEF NextFile, FlushBlockFile
<1>7. CASE WriteIndex
  BY <1>7 DEF WriteIndex, FlushBlockFile
<1>8. CASE EndWrite
  BY <1>8 DEF EndWrite, files
<1>9. CASE FlushCoins
  BY <1>9 DEF FlushCoins
<1>10. CASE Restart
  BY <1>10 DEF Restart
<1>11. CASE UNCHANGED vars
  BY <1>11 DEF vars, files
<1> QED
  BY <1>1, <1>2, <1>3, <1>4, <1>5, <1>6, <1>7, <1>8, <1>9, <1>10, <1>11 DEF Next

\* Whenever the node goes down, the block index on disk knows every block under the coins
\* database, and the undo data of each are on disk unless they went into a file that was
\* not the last one: FlushBlockFile, which FindBlockPos and FlushStateToDisk call, leaves
\* nothing uncommitted in the last file when it stops being that or the index is written.
THEOREM DiskUndoableHolds == Spec => []DiskUndoable
<1>1. Init => FilesInv
  BY SMT DEF Init, FilesInv, Blocks
<1>2. CoinsInv /\ FilesInv /\ [Next]_vars => FilesInv'
  BY NextFiles
<1>3. FilesInv => DiskUndoable
  BY DEF FilesInv, Blocks, DiskUndoable
<1> QED
  BY <1>1, <1>2, <1>3, CoinsInvHolds, PTL DEF Spec
=============================================================================
