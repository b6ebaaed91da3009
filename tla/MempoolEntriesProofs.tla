------------------------ MODULE MempoolEntriesProofs ------------------------
(***************************************************************************)
(* Proofs about MempoolEntries, for every set of transactions.             *)
(***************************************************************************)
EXTENDS MempoolEntries, WellFoundedInduction, TLAPS

\* Zenon proves a leaf unless the leaf names the SMT solver.
USE Zenon

-----------------------------------------------------------------------------
(* Sums over sets of transactions. *)

\* A set of natural numbers has a least one.
LEMMA LeastNumber ==
  ASSUME NEW T \in SUBSET Nat, T # {}
  PROVE  \E n \in T : \A m \in T : n <= m
<1>1. PICK n \in T : \A m \in T : ~(<<m, n>> \in OpToRel(<, Nat))
  BY WFMin, NatLessThanWellFounded
<1>2. ASSUME NEW m \in T PROVE n <= m
  <2>1. OpToRel(<, Nat) = {s \in Nat \X Nat : s[1] < s[2]}
    BY DEF OpToRel
  <2>2. m \in Nat /\ n \in Nat /\ (m < n => <<m, n>> \in {s \in Nat \X Nat : s[1] < s[2]})
    BY SMT
  <2>3. ~(m < n)
    BY <1>1, <2>1, <2>2
  <2> QED
    BY SMT, <2>2, <2>3
<1> QED
  BY <1>2

\* What holds of a set of transactions when it holds of all its proper subsets, holds
\* of all of them.
Grows(Q, D) == \A S \in SUBSET D : (\A T \in SUBSET S : T # S => T \in Q) => S \in Q
Reaches(D) == \A Q : Grows(Q, D) => SUBSET D \subseteq Q

LEMMA OneMore ==
  ASSUME NEW D, NEW a, Reaches(D)
  PROVE  Reaches(D \cup {a})
<1> SUFFICES ASSUME NEW Q, Grows(Q, D \cup {a}) PROVE SUBSET (D \cup {a}) \subseteq Q
  BY DEF Reaches
<1> DEFINE R == {S \in SUBSET D : S \cup {a} \in Q}
<1>1. SUBSET D \subseteq Q
  <2>1. Grows(Q, D)
    BY DEF Grows
  <2> QED
    BY <2>1 DEF Reaches
<1>2. SUBSET D \subseteq R
  <2>1. ASSUME NEW S \in SUBSET D, \A T \in SUBSET S : T # S => T \in R PROVE S \cup {a} \in Q
    <3>1. ASSUME NEW T \in SUBSET (S \cup {a}), T # S \cup {a} PROVE T \in Q
      <4>1. CASE a \notin T \/ a \in S
        BY <1>1, <4>1
      <4>2. CASE a \in T /\ a \notin S
        <5>1. T \ {a} \in SUBSET S /\ T \ {a} # S /\ (T \ {a}) \cup {a} = T
          BY <3>1, <4>2
        <5>2. T \ {a} \in R
          BY <2>1, <5>1
        <5> QED
          BY <5>1, <5>2
      <4> QED
        BY <4>1, <4>2
    <3>2. S \cup {a} \in SUBSET (D \cup {a})
      OBVIOUS
    <3> QED
      BY <3>1, <3>2 DEF Grows
  <2>2. Grows(R, D)
    BY <2>1 DEF Grows
  <2> HIDE DEF R
  <2> QED
    BY <2>2 DEF Reaches
<1>3. ASSUME NEW S \in SUBSET (D \cup {a}) PROVE S \in Q
  <2>1. CASE a \in S
    <3>1. S \ {a} \in R /\ (S \ {a}) \cup {a} = S
      BY <1>2, <2>1
    <3> QED
      BY <3>1
  <2>2. CASE a \notin S
    BY <1>1, <2>2
  <2> QED
    BY <2>1, <2>2
<1> QED
  BY <1>3

LEMMA SetInduction ==
  ASSUME NEW Q, \A S \in SUBSET Tx : (\A T \in SUBSET S : T # S => T \in Q) => S \in Q
  PROVE  \A S \in SUBSET Tx : S \in Q
<1>1. PICK s \in Seq(Tx) : \A t \in Tx : \E n \in 1 .. Len(s) : s[n] = t
  BY TxAssumption DEF IsFiniteSet
<1> DEFINE Upto(n) == {s[k] : k \in 1 .. n}
           N == {n \in Nat : n <= Len(s) /\ ~Reaches(Upto(n))}
<1>2. N = {}
  <2> SUFFICES ASSUME N # {} PROVE FALSE
    OBVIOUS
  <2> HIDE DEF Upto
  <2>1. N \in SUBSET Nat
    OBVIOUS
  <2>2. PICK n \in N : \A m \in N : n <= m
    <3> HIDE DEF N
    <3> QED
      BY <2>1, LeastNumber
  <2>3. CASE n = 0
    <3>1. Upto(0) = {}
      <4>1. 1 .. 0 = {}
        BY SMT
      <4> QED
        BY <4>1 DEF Upto
    <3>2. ASSUME NEW R, Grows(R, {}) PROVE SUBSET {} \subseteq R
      <4>1. {} \in SUBSET {} /\ \A T \in SUBSET {} : T # {} => T \in R
        OBVIOUS
      <4>2. {} \in R
        BY <3>2, <4>1 DEF Grows
      <4> QED
        BY <4>2
    <3>3. Reaches({})
      BY <3>2 DEF Reaches
    <3> QED
      BY <2>3, <3>1, <3>3
  <2>4. CASE n # 0
    <3>1. n - 1 \in Nat /\ ~(n <= n - 1) /\ n - 1 <= Len(s) /\ 1 .. n = (1 .. n - 1) \cup {n}
      <4>1. Len(s) \in Nat /\ n \in Nat /\ n <= Len(s)
        BY SMT
      <4> HIDE DEF N
      <4> QED
        BY SMT, <2>4, <4>1
    <3>2. Upto(n) = Upto(n - 1) \cup {s[n]}
      BY <3>1 DEF Upto
    <3>3. Reaches(Upto(n - 1))
      BY <2>2, <3>1
    <3>4. Reaches(Upto(n - 1) \cup {s[n]})
      BY <3>3, OneMore
    <3>5. Reaches(Upto(n))
      BY <3>2, <3>4
    <3> QED
      BY <3>5
  <2> QED
    BY <2>3, <2>4
<1>3. Len(s) \in Nat /\ Len(s) <= Len(s)
  BY SMT
<1>4. Reaches(Upto(Len(s)))
  <2> HIDE DEF Upto
  <2> QED
    BY <1>2, <1>3
<1>5. Upto(Len(s)) = Tx
  <2>1. \A k \in 1 .. Len(s) : s[k] \in Tx
    BY SMT
  <2> QED
    BY <1>1, <2>1
<1>6. Reaches(Tx)
  <2> HIDE DEF Upto
  <2> QED
    BY <1>4, <1>5
<1>7. Grows(Q, Tx)
  BY DEF Grows
<1> QED
  BY <1>6, <1>7 DEF Reaches

\* The loop of MapThenSumSet over the subsets of D, as a function of the subset.
Any(s) == CHOOSE x \in s : TRUE
Loop(f, D, w) == w = [s \in SUBSET D |-> IF s = {} THEN 0 ELSE f[Any(s)] + w[s \ {Any(s)}]]

LEMMA AnyMember == \A s : s # {} => Any(s) \in s
  BY DEF Any

\* The loop over a larger set goes through the same sums.
LEMMA LoopUnique ==
  ASSUME NEW f, NEW D \in SUBSET Tx, NEW E \in SUBSET Tx, NEW w, NEW v, Loop(f, D, w), Loop(f, E, v)
  PROVE  \A s \in SUBSET Tx : s \subseteq D /\ s \subseteq E => w[s] = v[s]
<1> DEFINE Q == {s \in SUBSET Tx : s \subseteq D /\ s \subseteq E => w[s] = v[s]}
<1>1. ASSUME NEW S \in SUBSET Tx, \A T \in SUBSET S : T # S => T \in Q
      PROVE  S \in Q
  <2> SUFFICES ASSUME S \subseteq D, S \subseteq E PROVE w[S] = v[S]
    OBVIOUS
  <2>1. CASE S = {}
    BY <2>1 DEF Loop
  <2>2. CASE S # {}
    <3>1. Any(S) \in S
      BY <2>2, AnyMember
    <3>2. S \ {Any(S)} \in Q
      BY <1>1, <3>1
    <3>3. w[S \ {Any(S)}] = v[S \ {Any(S)}]
      BY <3>2
    <3>4. w[S] = f[Any(S)] + w[S \ {Any(S)}]
      BY <2>2 DEF Loop
    <3>5. v[S] = f[Any(S)] + v[S \ {Any(S)}]
      BY <2>2 DEF Loop
    <3> QED
      BY <3>3, <3>4, <3>5
  <2> QED
    BY <2>1, <2>2
<1>2. \A S \in SUBSET Tx : S \in Q
  <2> HIDE DEF Q
  <2> QED
    BY <1>1, SetInduction
<1> QED
  BY <1>2

\* The loop ends.
LEMMA LoopExists ==
  ASSUME NEW f
  PROVE  \A D \in SUBSET Tx : \E w : Loop(f, D, w)
<1> DEFINE Q == {D \in SUBSET Tx : \E w : Loop(f, D, w)}
<1>1. ASSUME NEW D \in SUBSET Tx, \A T \in SUBSET D : T # D => T \in Q
      PROVE  D \in Q
  <2> DEFINE W(T) == CHOOSE w : Loop(f, T, w)
             g(s) == IF s = {} THEN 0 ELSE f[Any(s)] + W(s \ {Any(s)})[s \ {Any(s)}]
             w == [s \in SUBSET D |-> g(s)]
  <2>1. ASSUME NEW T \in SUBSET D, T # D PROVE T \in SUBSET Tx /\ Loop(f, T, W(T))
    BY <1>1, <2>1
  <2>2. ASSUME NEW T \in SUBSET D, T # D PROVE w[T] = W(T)[T]
    <3> DEFINE v == W(T)
    <3>1. Loop(f, T, v) /\ T \in SUBSET Tx
      BY <2>1, <2>2
    <3>2. CASE T = {}
      <4> HIDE DEF v
      <4>1. v[T] = 0
        BY <3>1, <3>2 DEF Loop
      <4>2. w[T] = 0
        BY <3>2
      <4> QED
        BY <4>1, <4>2 DEF v
    <3>3. CASE T # {}
      <4> DEFINE U == T \ {Any(T)}
                 u == W(U)
      <4>1. U \in SUBSET D /\ U # D /\ U \in SUBSET T /\ U \in SUBSET Tx
        BY <2>2, <3>3, AnyMember
      <4>2. Loop(f, U, u)
        BY <2>1, <4>1
      <4>3. v[T] = f[Any(T)] + v[U]
        <5> HIDE DEF v
        <5> QED
          BY <3>1, <3>3 DEF Loop
      <4>4. v[U] = u[U]
        <5> HIDE DEF u, v, U
        <5>1. \A s \in SUBSET Tx : s \subseteq T /\ s \subseteq U => v[s] = u[s]
          BY SMTT(30), <3>1, <4>1, <4>2, LoopUnique
        <5> QED
          BY <4>1, <5>1
      <4>5. w[T] = f[Any(T)] + u[U]
        BY <3>3
      <4> QED
        BY <4>3, <4>4, <4>5
    <3> QED
      BY <3>2, <3>3
  <2>3. ASSUME NEW s \in SUBSET D
        PROVE  w[s] = IF s = {} THEN 0 ELSE f[Any(s)] + w[s \ {Any(s)}]
    <3>1. CASE s = {}
      BY <3>1
    <3>2. CASE s # {}
      <4>1. s \ {Any(s)} \in SUBSET D /\ s \ {Any(s)} # D
        BY <3>2, AnyMember
      <4>2. w[s \ {Any(s)}] = W(s \ {Any(s)})[s \ {Any(s)}]
        BY <2>2, <4>1
      <4>3. w[s] = f[Any(s)] + W(s \ {Any(s)})[s \ {Any(s)}]
        BY <3>2
      <4> HIDE DEF w, W
      <4> QED
        BY <3>2, <4>2, <4>3
    <3> QED
      BY <3>1, <3>2
  <2>4. w = [s \in SUBSET D |-> w[s]]
    <3> HIDE DEF g
    <3> QED
      OBVIOUS
  <2>5. Loop(f, D, w)
    <3> HIDE DEF w
    <3> QED
      BY <2>3, <2>4 DEF Loop
  <2> QED
    BY <2>5
<1>2. \A D \in SUBSET Tx : D \in Q
  <2> HIDE DEF Q
  <2> QED
    BY <1>1, SetInduction
<1> QED
  BY <1>2

\* The sum of f over S, as Sum has it.
Total(f, S) == (CHOOSE w : Loop(f, S, w))[S]

\* Nothing adds up to 0, and a set to one member and the rest.
LEMMA TotalStep ==
  ASSUME NEW f, NEW S \in SUBSET Tx
  PROVE  Total(f, S) = IF S = {} THEN 0 ELSE f[Any(S)] + Total(f, S \ {Any(S)})
<1> DEFINE w == CHOOSE x : Loop(f, S, x)
<1>1. Loop(f, S, w)
  BY LoopExists
<1>2. Total(f, S) = w[S]
  BY DEF Total
<1>3. CASE S = {}
  <2> HIDE DEF w
  <2> QED
    BY <1>1, <1>2, <1>3 DEF Loop
<1>4. CASE S # {}
  <2> DEFINE T == S \ {Any(S)}
             v == CHOOSE x : Loop(f, T, x)
  <2>1. T \in SUBSET Tx /\ T \in SUBSET S
    OBVIOUS
  <2>2. Loop(f, T, v)
    BY <2>1, LoopExists
  <2>3. Total(f, T) = v[T]
    BY DEF Total
  <2>4. w[S] = f[Any(S)] + w[T]
    <3> HIDE DEF w
    <3> QED
      BY <1>1, <1>4 DEF Loop
  <2>5. w[T] = v[T]
    <3> HIDE DEF w, v, T
    <3>1. \A s \in SUBSET Tx : s \subseteq S /\ s \subseteq T => w[s] = v[s]
      BY SMT, <1>1, <2>1, <2>2, LoopUnique
    <3> QED
      BY <2>1, <3>1
  <2> HIDE DEF w, v
  <2> QED
    BY <1>2, <1>4, <2>3, <2>4, <2>5
<1> QED
  BY <1>3, <1>4

\* A sum of integers is one.
LEMMA TotalInt ==
  ASSUME NEW f \in [Tx -> Int]
  PROVE  \A S \in SUBSET Tx : Total(f, S) \in Int
<1> DEFINE Q == {S \in SUBSET Tx : Total(f, S) \in Int}
<1>1. ASSUME NEW S \in SUBSET Tx, \A T \in SUBSET S : T # S => T \in Q
      PROVE  S \in Q
  <2>1. CASE S = {}
    <3>1. Total(f, S) = 0
      BY <2>1, TotalStep
    <3> QED
      BY SMT, <3>1
  <2>2. CASE S # {}
    <3>1. Any(S) \in S /\ f[Any(S)] \in Int
      BY <2>2, AnyMember
    <3>2. Total(f, S \ {Any(S)}) \in Int
      BY <1>1, <3>1
    <3>3. Total(f, S) = f[Any(S)] + Total(f, S \ {Any(S)})
      BY <2>2, TotalStep
    <3>4. Total(f, S) \in Int
      BY SMT, <3>1, <3>2, <3>3
    <3> QED
      BY <3>4
  <2> QED
    BY <2>1, <2>2
<1>2. \A S \in SUBSET Tx : S \in Q
  <2> HIDE DEF Q
  <2> QED
    BY <1>1, SetInduction
<1> QED
  BY <1>2

\* One more transaction adds its value.
LEMMA TotalAdd ==
  ASSUME NEW f \in [Tx -> Int]
  PROVE  \A S \in SUBSET Tx : \A x \in Tx \ S : Total(f, S \cup {x}) = Total(f, S) + f[x]
<1> DEFINE Q == {S \in SUBSET Tx : \A x \in Tx \ S : Total(f, S \cup {x}) = Total(f, S) + f[x]}
<1>1. ASSUME NEW S \in SUBSET Tx, \A T \in SUBSET S : T # S => T \in Q
      PROVE  S \in Q
  <2> SUFFICES ASSUME NEW x \in Tx \ S PROVE Total(f, S \cup {x}) = Total(f, S) + f[x]
    OBVIOUS
  <2> DEFINE R == S \cup {x}
             c == Any(R)
  <2>1. R \in SUBSET Tx /\ R # {} /\ c \in R
    BY AnyMember
  <2>2. Total(f, R) = f[c] + Total(f, R \ {c})
    BY <2>1, TotalStep
  <2>3. f[x] \in Int /\ f[c] \in Int /\ Total(f, S) \in Int
    BY <2>1, TotalInt
  <2>4. CASE c = x
    <3>1. R \ {c} = S
      BY <2>4
    <3> HIDE DEF c, R
    <3>2. Total(f, R) = f[x] + Total(f, S)
      BY <2>2, <2>4, <3>1
    <3>3. Total(f, R) = Total(f, S) + f[x]
      BY SMT, <2>3, <3>2
    <3> QED
      BY <3>3 DEF R
  <2>5. CASE c # x
    <3> DEFINE T == S \ {c}
    <3> HIDE DEF c
    <3>1. c \in S /\ T \in SUBSET S /\ T # S /\ T \in SUBSET Tx /\ x \in Tx \ T /\ c \in Tx \ T
      BY <2>1, <2>5
    <3>2. T \in Q
      BY <1>1, <3>1
    <3>3. R \ {c} = T \cup {x} /\ T \cup {c} = S
      BY <2>5, <3>1
    <3>4. Total(f, T \cup {x}) = Total(f, T) + f[x] /\ Total(f, T \cup {c}) = Total(f, T) + f[c]
      BY <3>1, <3>2
    <3>5. Total(f, T) \in Int
      BY <3>1, TotalInt
    <3>6. Total(f, S) = Total(f, T) + f[c] /\ Total(f, R \ {c}) = Total(f, T) + f[x]
      BY <3>3, <3>4
    <3> HIDE DEF T, R
    <3>7. Total(f, R) = Total(f, S) + f[x]
      BY SMT, <2>2, <2>3, <3>5, <3>6
    <3> QED
      BY <3>7 DEF R
  <2> QED
    BY <2>4, <2>5
<1>2. \A S \in SUBSET Tx : S \in Q
  <2> HIDE DEF Q
  <2> QED
    BY <1>1, SetInduction
<1> QED
  BY <1>2

\* The sums over two sets add up, if these share nothing.
LEMMA TotalUnion ==
  ASSUME NEW f \in [Tx -> Int], NEW A \in SUBSET Tx
  PROVE  \A B \in SUBSET Tx : A \cap B = {} => Total(f, A \cup B) = Total(f, A) + Total(f, B)
<1> DEFINE Q == {B \in SUBSET Tx : A \cap B = {} => Total(f, A \cup B) = Total(f, A) + Total(f, B)}
<1>1. ASSUME NEW B \in SUBSET Tx, \A T \in SUBSET B : T # B => T \in Q
      PROVE  B \in Q
  <2> SUFFICES ASSUME A \cap B = {} PROVE Total(f, A \cup B) = Total(f, A) + Total(f, B)
    OBVIOUS
  <2>1. Total(f, A) \in Int
    BY TotalInt
  <2>2. CASE B = {}
    <3>1. A \cup B = A /\ Total(f, B) = 0
      BY <2>2, TotalStep
    <3> QED
      BY SMT, <2>1, <3>1
  <2>3. CASE B # {}
    <3> DEFINE x == Any(B)
               T == B \ {x}
    <3>1. x \in B
      BY <2>3, AnyMember
    <3> HIDE DEF x
    <3>2. x \in Tx \ T /\ x \in Tx \ (A \cup T) /\ T \in SUBSET Tx /\ A \cup T \in SUBSET Tx
      BY <3>1
    <3>3. T \in Q /\ A \cap T = {} /\ T \cup {x} = B /\ (A \cup T) \cup {x} = A \cup B
      BY <1>1, <3>1
    <3>4. Total(f, A \cup T) = Total(f, A) + Total(f, T)
      BY <3>3
    <3>5. Total(f, B) = Total(f, T) + f[x]
      <4>1. Total(f, T \cup {x}) = Total(f, T) + f[x]
        BY <3>2, TotalAdd
      <4> QED
        BY <3>3, <4>1
    <3>6. Total(f, A \cup B) = Total(f, A \cup T) + f[x]
      <4>1. Total(f, (A \cup T) \cup {x}) = Total(f, A \cup T) + f[x]
        BY <3>2, TotalAdd
      <4> QED
        BY <3>3, <4>1
    <3>7. f[x] \in Int /\ Total(f, T) \in Int
      BY <3>2, TotalInt
    <3> HIDE DEF T
    <3> QED
      BY SMT, <2>1, <3>4, <3>5, <3>6, <3>7
  <2> QED
    BY <2>2, <2>3
<1>2. \A S \in SUBSET Tx : S \in Q
  <2> HIDE DEF Q
  <2> QED
    BY <1>1, SetInduction
<1> QED
  BY <1>2

\* A sum takes nothing but the values on its set.
LEMMA TotalSame ==
  ASSUME NEW f \in [Tx -> Int], NEW g \in [Tx -> Int], NEW S \in SUBSET Tx, \A x \in S : f[x] = g[x]
  PROVE  Total(f, S) = Total(g, S)
<1> DEFINE Q == {T \in SUBSET Tx : T \subseteq S => Total(f, T) = Total(g, T)}
<1>1. ASSUME NEW B \in SUBSET Tx, \A T \in SUBSET B : T # B => T \in Q
      PROVE  B \in Q
  <2> SUFFICES ASSUME B \subseteq S PROVE Total(f, B) = Total(g, B)
    OBVIOUS
  <2>1. CASE B = {}
    BY <2>1, TotalStep
  <2>2. CASE B # {}
    <3>1. Any(B) \in B
      BY <2>2, AnyMember
    <3>2. B \ {Any(B)} \in Q
      BY <1>1, <3>1
    <3>3. Total(f, B \ {Any(B)}) = Total(g, B \ {Any(B)})
      BY <3>2
    <3>4. f[Any(B)] = g[Any(B)]
      BY <3>1
    <3>5. Total(f, B) = f[Any(B)] + Total(f, B \ {Any(B)})
      BY <2>2, TotalStep
    <3>6. Total(g, B) = g[Any(B)] + Total(g, B \ {Any(B)})
      BY <2>2, TotalStep
    <3> QED
      BY <3>3, <3>4, <3>5, <3>6
  <2> QED
    BY <2>1, <2>2
<1>2. \A T \in SUBSET Tx : T \in Q
  <2> HIDE DEF Q
  <2> QED
    BY <1>1, SetInduction
<1> QED
  BY <1>2

\* The number of members is a sum too.
One == [t \in Tx |-> 1]
LEMMA TotalOne == \A S \in SUBSET Tx : Total(One, S) = Cardinality(S)
<1> SUFFICES ASSUME NEW S \in SUBSET Tx PROVE Total(One, S) = Cardinality(S)
  OBVIOUS
<1> DEFINE Body(w) == [s \in SUBSET S |-> IF s = {} THEN 0 ELSE 1 + w[s \ {CHOOSE x : x \in s}]]
           W == CHOOSE w : w = Body(w)
           V == CHOOSE w : Loop(One, S, w)
<1>1. ASSUME NEW w PROVE Loop(One, S, w) <=> w = Body(w)
  <2>1. ASSUME NEW s \in SUBSET S
        PROVE  (IF s = {} THEN 0 ELSE 1 + w[s \ {CHOOSE x : x \in s}])
               = (IF s = {} THEN 0 ELSE One[Any(s)] + w[s \ {Any(s)}])
    <3>1. s # {} => Any(s) \in s
      BY AnyMember
    <3>2. s # {} => One[Any(s)] = 1
      BY <3>1 DEF One
    <3>3. Any(s) = CHOOSE x : x \in s
      BY DEF Any
    <3> QED
      BY <3>2, <3>3
  <2>2. Body(w) = [s \in SUBSET S |-> IF s = {} THEN 0 ELSE One[Any(s)] + w[s \ {Any(s)}]]
    BY <2>1
  <2> HIDE DEF Body
  <2> QED
    BY <2>2 DEF Loop
<1>2. \E w : Loop(One, S, w)
  BY LoopExists
<1>3. W = Body(W)
  <2> HIDE DEF Body
  <2>1. \E w : w = Body(w)
    BY <1>1, <1>2
  <2> QED
    BY <2>1
<1>4. Loop(One, S, W) /\ Loop(One, S, V)
  <2>1. Loop(One, S, V)
    BY <1>2
  <2> HIDE DEF W, Body, V
  <2> QED
    BY <1>1, <1>3, <2>1
<1>5. W[S] = V[S]
  <2> HIDE DEF W, V
  <2>1. \A s \in SUBSET Tx : s \subseteq S /\ s \subseteq S => W[s] = V[s]
    BY SMT, <1>4, LoopUnique
  <2> QED
    BY <2>1
<1>6. Cardinality(S) = W[S]
  BY DEF Cardinality
<1> HIDE DEF W
<1> QED
  BY <1>5, <1>6 DEF Total

-----------------------------------------------------------------------------
(* Totals of sets of entries. *)

FeesInt(p) == DOMAIN p \in SUBSET Tx /\ \A t \in DOMAIN p : p[t].fee \in Int
FeeOf(p) == [t \in Tx |-> IF t \in DOMAIN p THEN p[t].fee ELSE 0]
Parts == {"count", "size", "fees"}
Tot == [Parts -> Int]

LEMMA ValuesInt ==
  /\ One \in [Tx -> Int]
  /\ Size \in [Tx -> Int]
  /\ \A p : FeesInt(p) => FeeOf(p) \in [Tx -> Int]
<1>1. 1 \in Int /\ 0 \in Int /\ \A n \in Nat \ {0} : n \in Int
  BY SMT
<1>2. One \in [Tx -> Int]
  BY <1>1 DEF One
<1>3. Size \in [Tx -> Int]
  BY <1>1, SizeAssumption
<1>4. ASSUME NEW p, FeesInt(p) PROVE FeeOf(p) \in [Tx -> Int]
  BY <1>1, <1>4 DEF FeesInt, FeeOf
<1> QED
  BY <1>2, <1>3, <1>4

\* The fees of a set of entries as a sum over a function.
LEMMA FeesTotal ==
  ASSUME NEW p, FeesInt(p), NEW S \in SUBSET DOMAIN p
  PROVE  Sum(LAMBDA t : p[t].fee, S) = Total(FeeOf(p), S)
<1> DEFINE Body(w) == [s \in SUBSET S |-> IF s = {} THEN 0 ELSE p[Any(s)].fee + w[s \ {Any(s)}]]
           f == FeeOf(p)
           W == CHOOSE w : w = Body(w)
           V == CHOOSE w : Loop(f, S, w)
<1>1. ASSUME NEW w PROVE Loop(f, S, w) <=> w = Body(w)
  <2>1. ASSUME NEW s \in SUBSET S, s # {} PROVE f[Any(s)] = p[Any(s)].fee
    <3>1. Any(s) \in s
      BY <2>1, AnyMember
    <3> QED
      BY <3>1 DEF FeeOf, FeesInt
  <2>2. ASSUME NEW s \in SUBSET S
        PROVE  (IF s = {} THEN 0 ELSE p[Any(s)].fee + w[s \ {Any(s)}])
               = (IF s = {} THEN 0 ELSE f[Any(s)] + w[s \ {Any(s)}])
    BY <2>1
  <2>3. Body(w) = [s \in SUBSET S |-> IF s = {} THEN 0 ELSE f[Any(s)] + w[s \ {Any(s)}]]
    BY <2>2
  <2> HIDE DEF Body
  <2> QED
    BY <2>3 DEF Loop
<1>2. S \in SUBSET Tx
  BY DEF FeesInt
<1>3. \E w : Loop(f, S, w)
  BY <1>2, LoopExists
<1>4. \E w : w = Body(w)
  BY <1>1, <1>3
<1>5. W = Body(W)
  <2> HIDE DEF Body
  <2> QED
    BY <1>4
<1>6. Loop(f, S, W)
  <2> HIDE DEF W, Body
  <2> QED
    BY <1>1, <1>5
<1>7. Loop(f, S, V)
  BY <1>3
<1>8. W[S] = V[S]
  <2> HIDE DEF W, V, f
  <2>1. \A s \in SUBSET Tx : s \subseteq S /\ s \subseteq S => W[s] = V[s]
    BY SMT, <1>2, <1>6, <1>7, LoopUnique
  <2> QED
    BY <1>2, <2>1
<1>9. Sum(LAMBDA t : p[t].fee, S) = W[S]
  BY DEF Sum, MapThenSumSet, MapThenFoldSet, Any
<1> HIDE DEF W
<1> QED
  BY <1>8, <1>9 DEF Total

\* Totals adds up ones, sizes and fees.
LEMMA TotalsAre ==
  ASSUME NEW p, FeesInt(p), NEW S \in SUBSET DOMAIN p
  PROVE  /\ Totals(p, S) \in Tot
         /\ Totals(p, S)["count"] = Total(One, S)
         /\ Totals(p, S)["size"] = Total(Size, S)
         /\ Totals(p, S)["fees"] = Total(FeeOf(p), S)
<1>1. S \in SUBSET Tx
  BY DEF FeesInt
<1>2. Sum(LAMBDA t : Size[t], S) = Total(Size, S)
  BY DEF Sum, MapThenSumSet, MapThenFoldSet, Any, Total, Loop
<1>3. Totals(p, S) = [count |-> Total(One, S), size |-> Total(Size, S), fees |-> Total(FeeOf(p), S)]
  BY <1>1, <1>2, FeesTotal, TotalOne DEF Totals
<1>4. Total(One, S) \in Int /\ Total(Size, S) \in Int /\ Total(FeeOf(p), S) \in Int
  BY <1>1, ValuesInt, TotalInt
<1> QED
  BY SMT, <1>3, <1>4 DEF Tot, Parts

\* Totals are compared and added part by part.
LEMMA TotEqual ==
  ASSUME NEW x \in Tot, NEW y \in Tot, \A k \in Parts : x[k] = y[k]
  PROVE  x = y
<1>1. x = [k \in Parts |-> x[k]] /\ y = [k \in Parts |-> y[k]]
  BY DEF Tot
<1> QED
  BY <1>1

LEMMA TotPlus ==
  ASSUME NEW x \in Tot, NEW y \in Tot
  PROVE  /\ Plus(x, y) \in Tot /\ \A k \in Parts : Plus(x, y)[k] = x[k] + y[k]
         /\ Minus(x, y) \in Tot /\ \A k \in Parts : Minus(x, y)[k] = x[k] - y[k]
<1>1. \A a, b \in Int : a + b \in Int /\ a - b \in Int
  BY SMT
<1>2. \A k \in Parts : x[k] \in Int /\ y[k] \in Int
  BY DEF Tot
<1>3. DOMAIN x = Parts
  BY DEF Tot
<1>4. Plus(x, y) = [k \in Parts |-> x[k] + y[k]] /\ Minus(x, y) = [k \in Parts |-> x[k] - y[k]]
  BY <1>3 DEF Plus, Minus
<1>5. \A k \in Parts : x[k] + y[k] \in Int /\ x[k] - y[k] \in Int
  BY <1>1, <1>2
<1>6. [k \in Parts |-> x[k] + y[k]] \in [Parts -> Int] /\ [k \in Parts |-> x[k] - y[k]] \in [Parts -> Int]
  BY <1>5
<1> QED
  BY <1>4, <1>6 DEF Tot

LEMMA TotMinusPlus ==
  ASSUME NEW x \in Tot, NEW y \in Tot
  PROVE  Minus(Plus(x, y), y) = x /\ Plus(x, y) = Plus(y, x)
<1>1. Plus(x, y) \in Tot /\ Plus(y, x) \in Tot
  BY TotPlus
<1>2. Minus(Plus(x, y), y) \in Tot
  BY <1>1, TotPlus
<1>3. ASSUME NEW k \in Parts
      PROVE  Minus(Plus(x, y), y)[k] = x[k] /\ Plus(x, y)[k] = Plus(y, x)[k]
  <2>1. Plus(x, y)[k] = x[k] + y[k] /\ Plus(y, x)[k] = y[k] + x[k]
    BY TotPlus
  <2>2. Minus(Plus(x, y), y)[k] = Plus(x, y)[k] - y[k]
    <3> DEFINE z == Plus(x, y)
    <3>1. z \in Tot
      BY <1>1
    <3> HIDE DEF z
    <3>2. Minus(z, y)[k] = z[k] - y[k]
      BY <3>1, TotPlus
    <3> QED
      BY <3>2 DEF z
  <2>3. x[k] \in Int /\ y[k] \in Int
    BY DEF Tot
  <2> QED
    BY SMT, <2>1, <2>2, <2>3
<1> QED
  BY <1>1, <1>2, <1>3, TotEqual

LEMMA TotalsUnion ==
  ASSUME NEW p, FeesInt(p), NEW A \in SUBSET DOMAIN p, NEW B \in SUBSET DOMAIN p, A \cap B = {}
  PROVE  /\ Totals(p, A) \in Tot /\ Totals(p, B) \in Tot
         /\ Totals(p, A \cup B) = Plus(Totals(p, A), Totals(p, B))
<1> DEFINE x == Totals(p, A)
           y == Totals(p, B)
           z == Totals(p, A \cup B)
<1>1. A \cup B \in SUBSET DOMAIN p /\ A \in SUBSET Tx /\ B \in SUBSET Tx
  BY DEF FeesInt
<1>2. x \in Tot /\ y \in Tot /\ z \in Tot
  BY <1>1, TotalsAre
<1>3. \A k \in Parts : k = "count" \/ k = "size" \/ k = "fees"
  BY DEF Parts
<1>4. ASSUME NEW k \in Parts PROVE z[k] = x[k] + y[k]
  <2>1. \A f \in [Tx -> Int] : Total(f, A \cup B) = Total(f, A) + Total(f, B)
    BY <1>1, TotalUnion
  <2>2. CASE k = "count"
    <3>1. x["count"] = Total(One, A) /\ y["count"] = Total(One, B) /\ z["count"] = Total(One, A \cup B)
      BY <1>1, TotalsAre
    <3> HIDE DEF x, y, z
    <3> QED
      BY <2>1, <2>2, <3>1, ValuesInt
  <2>3. CASE k = "size"
    <3>1. x["size"] = Total(Size, A) /\ y["size"] = Total(Size, B) /\ z["size"] = Total(Size, A \cup B)
      BY <1>1, TotalsAre
    <3> HIDE DEF x, y, z
    <3> QED
      BY <2>1, <2>3, <3>1, ValuesInt
  <2>4. CASE k = "fees"
    <3> DEFINE f == FeeOf(p)
    <3>1. x["fees"] = Total(f, A) /\ y["fees"] = Total(f, B) /\ z["fees"] = Total(f, A \cup B)
      BY <1>1, TotalsAre
    <3>2. f \in [Tx -> Int]
      BY ValuesInt
    <3> HIDE DEF x, y, z, f
    <3> QED
      BY <2>1, <2>4, <3>1, <3>2
  <2> QED
    BY <1>3, <2>2, <2>3, <2>4
<1>5. z = Plus(x, y)
  <2> HIDE DEF x, y, z
  <2>1. Plus(x, y) \in Tot /\ \A k \in Parts : Plus(x, y)[k] = x[k] + y[k]
    BY <1>2, TotPlus
  <2>2. \A k \in Parts : z[k] = Plus(x, y)[k]
    BY <1>4, <2>1
  <2> QED
    BY <1>2, <2>1, <2>2, TotEqual
<1> QED
  BY <1>2, <1>5

LEMMA TotalsMinus ==
  ASSUME NEW p, FeesInt(p), NEW A \in SUBSET DOMAIN p, NEW B \in SUBSET A
  PROVE  /\ Totals(p, A \ B) \in Tot
         /\ Totals(p, A \ B) = Minus(Totals(p, A), Totals(p, B))
<1>1. A \ B \in SUBSET DOMAIN p /\ B \in SUBSET DOMAIN p /\ (A \ B) \cap B = {} /\ (A \ B) \cup B = A
  OBVIOUS
<1>2. /\ Totals(p, A \ B) \in Tot /\ Totals(p, B) \in Tot
      /\ Totals(p, (A \ B) \cup B) = Plus(Totals(p, A \ B), Totals(p, B))
  BY <1>1, TotalsUnion
<1>3. Totals(p, A) = Plus(Totals(p, A \ B), Totals(p, B))
  BY <1>1, <1>2
<1> QED
  BY <1>2, <1>3, TotMinusPlus

\* Totals look at the fees of their set, and at nothing else of the pool.
LEMMA TotalsSame ==
  ASSUME NEW p, NEW q, FeesInt(p), FeesInt(q), NEW S \in SUBSET DOMAIN p, S \subseteq DOMAIN q,
         \A t \in S : q[t].fee = p[t].fee
  PROVE  Totals(q, S) = Totals(p, S)
<1>1. S \in SUBSET Tx /\ S \in SUBSET DOMAIN q
  BY DEF FeesInt
<1>2. \A t \in S : FeeOf(p)[t] = FeeOf(q)[t]
  BY <1>1 DEF FeeOf
<1>3. Total(FeeOf(p), S) = Total(FeeOf(q), S)
  BY <1>1, <1>2, ValuesInt, TotalSame
<1>4. Totals(p, S) \in Tot /\ Totals(q, S) \in Tot
  BY <1>1, TotalsAre
<1>5. \A k \in Parts : Totals(q, S)[k] = Totals(p, S)[k]
  <2>1. \A k \in Parts : k = "count" \/ k = "size" \/ k = "fees"
    BY DEF Parts
  <2> QED
    BY <1>1, <1>3, <2>1, TotalsAre
<1> QED
  BY <1>4, <1>5, TotEqual

\* The totals of one entry.
LEMMA TotalsOne ==
  ASSUME NEW p, FeesInt(p), NEW t \in DOMAIN p
  PROVE  Totals(p, {t}) = [count |-> 1, size |-> Size[t], fees |-> p[t].fee]
<1>1. t \in Tx /\ {t} \in SUBSET DOMAIN p /\ {} \in SUBSET Tx /\ t \in Tx \ {} /\ {} \cup {t} = {t}
  BY DEF FeesInt
<1>2. ASSUME NEW f \in [Tx -> Int] PROVE Total(f, {t}) = f[t]
  <2>1. Total(f, {} \cup {t}) = Total(f, {}) + f[t]
    BY <1>1, TotalAdd
  <2>2. Total(f, {}) = 0
    BY <1>1, TotalStep
  <2>3. f[t] \in Int
    BY <1>1
  <2>4. \A n \in Int : 0 + n = n
    BY SMT
  <2> QED
    BY <1>1, <2>1, <2>2, <2>3, <2>4
<1>3. Total(One, {t}) = 1 /\ Total(Size, {t}) = Size[t] /\ Total(FeeOf(p), {t}) = p[t].fee
  BY <1>1, <1>2, ValuesInt DEF One, FeeOf
<1>4. Totals(p, {t}) \in Tot
  BY <1>1, TotalsAre
<1>5. /\ Totals(p, {t})["count"] = 1 /\ Totals(p, {t})["size"] = Size[t]
      /\ Totals(p, {t})["fees"] = p[t].fee
  BY <1>1, <1>3, TotalsAre
<1> QED
  BY SMT, <1>4, <1>5 DEF Tot, Parts

\* A delta on one fee shows in the totals of the sets with that transaction.
LEMMA TotalsShift ==
  ASSUME NEW p, NEW q, FeesInt(p), FeesInt(q), DOMAIN q = DOMAIN p, NEW t \in DOMAIN p, NEW d \in Int,
         q[t].fee = p[t].fee + d, \A x \in DOMAIN p \ {t} : q[x].fee = p[x].fee,
         NEW S \in SUBSET DOMAIN p
  PROVE  /\ Totals(p, S) \in Tot
         /\ Totals(q, S) \in Tot
         /\ Totals(q, S)["count"] = Totals(p, S)["count"]
         /\ Totals(q, S)["size"] = Totals(p, S)["size"]
         /\ Totals(q, S)["fees"] = IF t \in S THEN Totals(p, S)["fees"] + d ELSE Totals(p, S)["fees"]
<1> DEFINE f == FeeOf(p)
           g == FeeOf(q)
           T == S \ {t}
<1>1. S \in SUBSET Tx /\ S \in SUBSET DOMAIN q /\ T \in SUBSET Tx /\ t \in Tx \ T
  BY DEF FeesInt
<1>2. f \in [Tx -> Int] /\ g \in [Tx -> Int]
  BY ValuesInt
<1>3. g[t] = f[t] + d /\ (\A x \in T : f[x] = g[x]) /\ f[t] \in Int
  <2>1. \A x \in DOMAIN p : f[x] = p[x].fee /\ g[x] = q[x].fee
    BY DEF FeeOf, FeesInt
  <2>2. f[t] \in Int
    BY <1>1, <1>2
  <2> HIDE DEF f, g
  <2> QED
    BY <2>1, <2>2
<1>4. Total(f, T) = Total(g, T) /\ Total(f, T) \in Int
  <2> HIDE DEF f, g, T
  <2> QED
    BY <1>1, <1>2, <1>3, TotalSame, TotalInt
<1>5. Total(g, S) = IF t \in S THEN Total(f, S) + d ELSE Total(f, S)
  <2>1. CASE t \notin S
    <3>1. T = S
      BY <2>1
    <3> HIDE DEF f, g, T
    <3> QED
      BY <1>4, <2>1, <3>1
  <2>2. CASE t \in S
    <3>1. T \cup {t} = S
      BY <2>2
    <3> HIDE DEF f, g, T
    <3>2. Total(f, S) = Total(f, T) + f[t] /\ Total(g, S) = Total(g, T) + g[t]
      BY <1>1, <1>2, <3>1, TotalAdd
    <3>3. Total(g, S) = Total(f, S) + d
      BY SMT, <1>3, <1>4, <3>2
    <3> QED
      BY <2>2, <3>3
  <2> QED
    BY <2>1, <2>2
<1>6. /\ Totals(p, S) \in Tot /\ Totals(q, S) \in Tot
      /\ Totals(p, S)["count"] = Total(One, S) /\ Totals(q, S)["count"] = Total(One, S)
      /\ Totals(p, S)["size"] = Total(Size, S) /\ Totals(q, S)["size"] = Total(Size, S)
      /\ Totals(p, S)["fees"] = Total(f, S) /\ Totals(q, S)["fees"] = Total(g, S)
  BY <1>1, TotalsAre
<1> HIDE DEF f, g, T
<1> QED
  BY <1>5, <1>6

-----------------------------------------------------------------------------
(* The links. *)

Fields == {"fee", "parents", "children", "anc", "desc"}

\* What the links are at all times: entries of the pool, from the outputs that a
\* transaction spends, and the same in both directions.
Shape(p) ==
    /\ FeesInt(p)
    /\ \A t \in DOMAIN p : /\ DOMAIN p[t] = Fields
                           /\ p[t].parents \subseteq ParentsOf(p, t)
                           /\ p[t].children \subseteq DOMAIN p
    /\ \A x, y \in DOMAIN p : y \in p[x].children <=> x \in p[y].parents

\* The ancestors that the links lead to.
LEMMA LinkedClosed ==
  ASSUME NEW p, Shape(p), NEW t \in DOMAIN p
  PROVE  /\ LinkedAncestors(p, t) \in SUBSET DOMAIN p
         /\ p[t].parents \subseteq LinkedAncestors(p, t)
         /\ \A u \in LinkedAncestors(p, t) : p[u].parents \subseteq LinkedAncestors(p, t)
<1>1. \A u \in DOMAIN p : p[u].parents \subseteq DOMAIN p
  BY DEF Shape, ParentsOf
<1> QED
  BY <1>1 DEF LinkedAncestors, Closure

LEMMA LinkedLeast ==
  ASSUME NEW p, NEW t, NEW C \in SUBSET DOMAIN p, p[t].parents \subseteq C,
         \A u \in C : p[u].parents \subseteq C
  PROVE  LinkedAncestors(p, t) \subseteq C
  BY DEF LinkedAncestors, Closure

LEMMA LinkedTrans ==
  ASSUME NEW p, Shape(p), NEW t \in DOMAIN p, NEW u \in LinkedAncestors(p, t)
  PROVE  u \in DOMAIN p /\ LinkedAncestors(p, u) \subseteq LinkedAncestors(p, t)
<1>1. u \in DOMAIN p /\ p[u].parents \subseteq LinkedAncestors(p, t)
  BY LinkedClosed
<1>2. /\ LinkedAncestors(p, t) \in SUBSET DOMAIN p
      /\ \A x \in LinkedAncestors(p, t) : p[x].parents \subseteq LinkedAncestors(p, t)
  BY LinkedClosed
<1> QED
  BY <1>1, <1>2, LinkedLeast

\* An ancestor is a parent or an ancestor of one.
LEMMA LinkedStep ==
  ASSUME NEW p, Shape(p), NEW t \in DOMAIN p, NEW u \in LinkedAncestors(p, t)
  PROVE  u \in p[t].parents \/ \E z \in p[t].parents : u \in LinkedAncestors(p, z)
<1> DEFINE C == {v \in DOMAIN p : v \in p[t].parents \/ \E z \in p[t].parents : v \in LinkedAncestors(p, z)}
<1>1. p[t].parents \subseteq DOMAIN p
  BY DEF Shape, ParentsOf
<1>2. ASSUME NEW v \in C PROVE p[v].parents \subseteq C
  <2>1. CASE v \in p[t].parents
    <3>1. p[v].parents \subseteq LinkedAncestors(p, v) /\ LinkedAncestors(p, v) \in SUBSET DOMAIN p
      BY LinkedClosed
    <3> QED
      BY <2>1, <3>1
  <2>2. ASSUME NEW z \in p[t].parents, v \in LinkedAncestors(p, z) PROVE p[v].parents \subseteq C
    <3>1. z \in DOMAIN p
      BY <1>1
    <3>2. p[v].parents \subseteq LinkedAncestors(p, z) /\ LinkedAncestors(p, z) \in SUBSET DOMAIN p
      BY <2>2, <3>1, LinkedClosed
    <3> QED
      BY <3>2
  <2> QED
    BY <2>1, <2>2
<1>3. C \in SUBSET DOMAIN p /\ p[t].parents \subseteq C
  BY <1>1
<1>4. LinkedAncestors(p, t) \subseteq C
  <2> HIDE DEF C
  <2> QED
    BY <1>2, <1>3, LinkedLeast
<1> QED
  BY <1>4

\* No entry is its own ancestor: each of those between would spend from another.
LEMMA LinkedAcyclic ==
  ASSUME NEW p, Shape(p), NEW t \in DOMAIN p
  PROVE  t \notin LinkedAncestors(p, t)
<1> SUFFICES ASSUME t \in LinkedAncestors(p, t) PROVE FALSE
  OBVIOUS
<1> DEFINE S == {y \in DOMAIN p : y \in LinkedAncestors(p, t) /\ t \in LinkedAncestors(p, y)}
<1>1. S \in SUBSET Tx /\ t \in S
  BY DEF Shape, FeesInt
<1>2. PICK y \in S : \A i \in Vin[y] : i[1] \notin S
  BY <1>1, TxAssumption
<1>3. \A x \in p[y].parents : x \in DOMAIN p /\ x \notin S
  <2>1. y \in DOMAIN p /\ \A i \in Vin[y] : i[1] \notin S
    BY <1>2
  <2>2. p[y].parents \subseteq ParentsOf(p, y)
    BY <2>1 DEF Shape
  <2> HIDE DEF S
  <2> QED
    BY <2>1, <2>2 DEF ParentsOf
<1>4. p[y].parents \subseteq LinkedAncestors(p, t)
  BY LinkedClosed
<1>5. t \in p[y].parents \/ \E z \in p[y].parents : t \in LinkedAncestors(p, z)
  BY LinkedStep
<1> QED
  BY <1>1, <1>3, <1>4, <1>5

\* CalculateDescendants finds the entries themselves and all that have one of them
\* among their ancestors.
LEMMA Descendants ==
  ASSUME NEW p, Shape(p), NEW S \in SUBSET DOMAIN p
  PROVE  /\ CalculateDescendants(p, S) \in SUBSET DOMAIN p
         /\ S \subseteq CalculateDescendants(p, S)
         /\ \A x \in CalculateDescendants(p, S) : p[x].children \subseteq CalculateDescendants(p, S)
<1>1. \A u \in DOMAIN p : p[u].children \subseteq DOMAIN p
  BY DEF Shape
<1> QED
  BY <1>1 DEF CalculateDescendants, Closure

LEMMA DescendantsLeast ==
  ASSUME NEW p, NEW S, NEW C \in SUBSET DOMAIN p, S \subseteq C,
         \A u \in C : p[u].children \subseteq C
  PROVE  CalculateDescendants(p, S) \subseteq C
  BY DEF CalculateDescendants, Closure

\* A set of entries with the children of its members: an entry outside it has no
\* ancestor in it.
ChildClosed(p, D) == D \in SUBSET DOMAIN p /\ \A x \in D : p[x].children \subseteq D

LEMMA OutsideClosed ==
  ASSUME NEW p, Shape(p), NEW D, ChildClosed(p, D), NEW t \in DOMAIN p \ D
  PROVE  p[t].parents \cap D = {} /\ LinkedAncestors(p, t) \cap D = {}
<1> DEFINE C == DOMAIN p \ D
<1>1. ASSUME NEW y \in C PROVE p[y].parents \subseteq C
  <2>1. p[y].parents \subseteq DOMAIN p
    BY DEF Shape, ParentsOf
  <2>2. ASSUME NEW x \in p[y].parents PROVE x \notin D
    BY <2>1 DEF Shape, ChildClosed
  <2> QED
    BY <2>1, <2>2
<1>2. C \in SUBSET DOMAIN p /\ p[t].parents \subseteq C
  BY <1>1
<1>3. LinkedAncestors(p, t) \subseteq C
  <2> HIDE DEF C
  <2> QED
    BY <1>1, <1>2, LinkedLeast
<1> QED
  BY <1>2, <1>3

LEMMA DescendantsAre ==
  ASSUME NEW p, Shape(p), NEW S \in SUBSET DOMAIN p, NEW x \in DOMAIN p
  PROVE  x \in CalculateDescendants(p, S) <=> x \in S \/ \E s \in S : s \in LinkedAncestors(p, x)
<1> DEFINE D == CalculateDescendants(p, S)
           C == {y \in DOMAIN p : y \in S \/ \E s \in S : s \in LinkedAncestors(p, y)}
<1>1. ChildClosed(p, D) /\ S \subseteq D
  BY Descendants DEF ChildClosed
<1>2. ASSUME x \notin D PROVE x \notin S /\ \A s \in S : s \notin LinkedAncestors(p, x)
  <2> HIDE DEF D
  <2>1. LinkedAncestors(p, x) \cap D = {}
    BY <1>1, <1>2, OutsideClosed
  <2> QED
    BY <1>1, <1>2, <2>1
<1>3. ASSUME NEW u \in C PROVE p[u].children \subseteq C
  <2> SUFFICES ASSUME NEW y \in p[u].children PROVE y \in C
    OBVIOUS
  <2>1. y \in DOMAIN p /\ u \in p[y].parents
    BY DEF Shape
  <2>2. u \in LinkedAncestors(p, y)
    BY <2>1, LinkedClosed
  <2>3. LinkedAncestors(p, u) \subseteq LinkedAncestors(p, y)
    BY <2>1, <2>2, LinkedTrans
  <2> QED
    BY <2>1, <2>2, <2>3
<1>4. D \subseteq C
  <2>1. C \in SUBSET DOMAIN p /\ S \subseteq C
    OBVIOUS
  <2> HIDE DEF C
  <2> QED
    BY <1>3, <2>1, DescendantsLeast
<1> QED
  BY <1>2, <1>4

\* CalculateMemPoolAncestors: the parents of a newcomer and their ancestors.
LEMMA NewAncestorsClosed ==
  ASSUME NEW p, Shape(p), NEW t
  PROVE  /\ NewAncestors(p, t) \in SUBSET DOMAIN p
         /\ ParentsOf(p, t) \subseteq NewAncestors(p, t)
         /\ \A u \in NewAncestors(p, t) : /\ p[u].parents \subseteq NewAncestors(p, t)
                                          /\ LinkedAncestors(p, u) \subseteq NewAncestors(p, t)
<1> DEFINE A == NewAncestors(p, t)
<1>1. \A u \in DOMAIN p : p[u].parents \subseteq DOMAIN p
  BY DEF Shape, ParentsOf
<1>2. ParentsOf(p, t) \subseteq DOMAIN p
  BY DEF ParentsOf
<1>3. A \in SUBSET DOMAIN p /\ ParentsOf(p, t) \subseteq A /\ \A u \in A : p[u].parents \subseteq A
  BY <1>1, <1>2 DEF NewAncestors, Closure
<1>4. ASSUME NEW u \in A PROVE LinkedAncestors(p, u) \subseteq A
  <2> HIDE DEF A
  <2> QED
    BY <1>3, LinkedLeast
<1> QED
  BY <1>3, <1>4

LEMMA NewAncestorsLeast ==
  ASSUME NEW p, NEW t, NEW C \in SUBSET DOMAIN p, ParentsOf(p, t) \subseteq C,
         \A u \in C : p[u].parents \subseteq C
  PROVE  NewAncestors(p, t) \subseteq C
  BY DEF NewAncestors, Closure

-----------------------------------------------------------------------------
(* The links and the totals through each operation. *)

\* The entries that have t among their ancestors.
Below(p, t) == {x \in DOMAIN p : t \in LinkedAncestors(p, x)}

\* TotalsFollowLinks of a pool.
TotalsOk(p) ==
    \A t \in DOMAIN p : /\ p[t].anc = Totals(p, LinkedAncestors(p, t) \cup {t})
                        /\ p[t].desc = Totals(p, Below(p, t) \cup {t})

\* RemoveStaged, field by field.
Cut(p, D, q) ==
    /\ DOMAIN q = DOMAIN p \ D
    /\ \A x \in DOMAIN q :
          /\ DOMAIN q[x] = Fields
          /\ q[x].fee = p[x].fee
          /\ q[x].parents = p[x].parents \ D
          /\ q[x].children = p[x].children \ D
          /\ q[x].desc = Minus(p[x].desc, Totals(p, {t \in D : x \in LinkedAncestors(p, t)}))

Down(p, D) == RemoveStaged(p, D, FALSE)
SameAnc(p, q) == \A x \in DOMAIN q : q[x].anc = p[x].anc

LEMMA RemoveStagedFields ==
  ASSUME NEW p, Shape(p), NEW D
  PROVE  /\ Cut(p, D, RemoveStaged(p, D, TRUE))
         /\ Cut(p, D, Down(p, D))
         /\ SameAnc(p, Down(p, D))
         /\ \A x \in DOMAIN p \ D :
              RemoveStaged(p, D, TRUE)[x].anc = Minus(p[x].anc, Totals(p, D \cap LinkedAncestors(p, x)))
<1> DEFINE pa(x) == p[x].parents \ D
           ch(x) == p[x].children \ D
           an(x) == Minus(p[x].anc, Totals(p, D \cap LinkedAncestors(p, x)))
           de(x) == Minus(p[x].desc, Totals(p, {t \in D : x \in LinkedAncestors(p, t)}))
<1> DEFINE Is(q, a) == q = [x \in DOMAIN p \ D |->
                    [p[x] EXCEPT !.parents = pa(x), !.children = ch(x), !.anc = a[x], !.desc = de(x)]]
<1>1. ASSUME NEW q, NEW a, Is(q, a)
      PROVE  Cut(p, D, q) /\ \A x \in DOMAIN p \ D : q[x].anc = a[x]
  <2> HIDE DEF pa, ch, an, de
  <2>1. DOMAIN q = DOMAIN p \ D
    BY <1>1
  <2>2. ASSUME NEW x \in DOMAIN q
        PROVE  /\ DOMAIN q[x] = Fields /\ q[x].fee = p[x].fee /\ q[x].parents = pa(x)
               /\ q[x].children = ch(x) /\ q[x].desc = de(x) /\ q[x].anc = a[x]
    <3>1. DOMAIN p[x] = {"fee", "parents", "children", "anc", "desc"}
      BY <2>1 DEF Fields, Shape
    <3>2. q[x] = [p[x] EXCEPT !.parents = pa(x), !.children = ch(x), !.anc = a[x], !.desc = de(x)]
      BY <1>1, <2>1
    <3> QED
      BY <3>1, <3>2 DEF Fields
  <2>3. Cut(p, D, q)
    BY <2>1, <2>2 DEF Cut, pa, ch, de
  <2> QED
    BY <2>1, <2>2, <2>3
<1>2. Cut(p, D, RemoveStaged(p, D, TRUE)) /\ \A x \in DOMAIN p \ D : RemoveStaged(p, D, TRUE)[x].anc = an(x)
  <2> DEFINE a == [x \in DOMAIN p \ D |-> an(x)]
             q == RemoveStaged(p, D, TRUE)
  <2>1. q = [x \in DOMAIN p \ D |->
               [p[x] EXCEPT !.parents = pa(x), !.children = ch(x), !.anc = an(x), !.desc = de(x)]]
    BY DEF RemoveStaged
  <2> HIDE DEF pa, ch, an, de, q
  <2>2. \A x \in DOMAIN p \ D : a[x] = an(x)
    OBVIOUS
  <2> HIDE DEF a
  <2>3. Is(q, a)
    BY <2>1, <2>2
  <2> HIDE DEF Is
  <2>4. Cut(p, D, q) /\ \A x \in DOMAIN p \ D : q[x].anc = a[x]
    BY <1>1, <2>3
  <2> QED
    BY <2>2, <2>4 DEF q
<1>3. Cut(p, D, Down(p, D)) /\ SameAnc(p, Down(p, D))
  <2> DEFINE a == [x \in DOMAIN p \ D |-> p[x].anc]
             q == Down(p, D)
  <2>1. q = [x \in DOMAIN p \ D |->
               [p[x] EXCEPT !.parents = pa(x), !.children = ch(x), !.anc = p[x].anc, !.desc = de(x)]]
    BY DEF Down, RemoveStaged
  <2> HIDE DEF pa, ch, an, de, q
  <2>2. \A x \in DOMAIN p \ D : a[x] = p[x].anc
    OBVIOUS
  <2> HIDE DEF a
  <2>3. Is(q, a)
    BY <2>1, <2>2
  <2> HIDE DEF Is
  <2>4. Cut(p, D, q) /\ \A x \in DOMAIN p \ D : q[x].anc = a[x]
    BY <1>1, <2>3
  <2> QED
    BY <2>2, <2>4 DEF q, SameAnc, Cut
<1> QED
  BY <1>2, <1>3

LEMMA RemoveOneFields ==
  ASSUME NEW p, Shape(p), NEW t, NEW q, q = RemoveStaged(p, {t}, TRUE)
  PROVE  /\ Cut(p, {t}, q)
         /\ \A x \in DOMAIN q : q[x].anc = Minus(p[x].anc, Totals(p, {t} \cap LinkedAncestors(p, x)))
<1>1. /\ Cut(p, {t}, q)
      /\ \A x \in DOMAIN p \ {t} : q[x].anc = Minus(p[x].anc, Totals(p, {t} \cap LinkedAncestors(p, x)))
  BY RemoveStagedFields
<1> QED
  BY <1>1 DEF Cut

\* The links keep their shape when entries are removed, whichever those are.
LEMMA RemoveShape ==
  ASSUME NEW p, Shape(p), NEW D, NEW q, Cut(p, D, q)
  PROVE  Shape(q)
<1>2. DOMAIN q = DOMAIN p \ D
  BY DEF Cut
<1>3. \A x \in DOMAIN q : /\ x \in DOMAIN p /\ x \notin D
                          /\ DOMAIN q[x] = Fields /\ q[x].fee = p[x].fee
                          /\ q[x].parents = p[x].parents \ D
                          /\ q[x].children = p[x].children \ D
  BY <1>2 DEF Cut
<1>4. FeesInt(q)
  BY <1>2, <1>3 DEF FeesInt, Shape
<1>5. ASSUME NEW t \in DOMAIN q
      PROVE  q[t].parents \subseteq ParentsOf(q, t) /\ q[t].children \subseteq DOMAIN q
  <2>1. p[t].parents \subseteq ParentsOf(p, t) /\ p[t].children \subseteq DOMAIN p
    BY <1>3 DEF Shape
  <2>2. ParentsOf(q, t) = ParentsOf(p, t) \ D
    BY <1>2 DEF ParentsOf
  <2> QED
    BY <1>2, <1>3, <2>1, <2>2
<1>6. ASSUME NEW x \in DOMAIN q, NEW y \in DOMAIN q
      PROVE  y \in q[x].children <=> x \in q[y].parents
  BY <1>3 DEF Shape
<1> QED
  BY <1>3, <1>4, <1>5, <1>6 DEF Shape

\* Entries that go with all their descendants are nobody's ancestors.
LEMMA RemoveDownLinks ==
  ASSUME NEW p, Shape(p), NEW D, ChildClosed(p, D), NEW q, Cut(p, D, q),
         NEW x \in DOMAIN q
  PROVE  x \in DOMAIN p \ D /\ LinkedAncestors(q, x) = LinkedAncestors(p, x)
<1> DEFINE A == LinkedAncestors(p, x)
           B == LinkedAncestors(q, x)
<1>1. Shape(q)
  BY RemoveShape
<1>2. DOMAIN q = DOMAIN p \ D
  BY DEF Cut
<1>3. \A y \in DOMAIN q : y \in DOMAIN p \ D /\ q[y].parents = p[y].parents
  <2>1. \A y \in DOMAIN q : q[y].parents = p[y].parents \ D
    BY DEF Cut
  <2>2. \A y \in DOMAIN p \ D : p[y].parents \cap D = {}
    BY OutsideClosed
  <2> QED
    BY <1>2, <2>1, <2>2
<1>4. A \subseteq B
  <2>1. B \in SUBSET DOMAIN q /\ q[x].parents \subseteq B /\ \A y \in B : q[y].parents \subseteq B
    BY <1>1, LinkedClosed
  <2> HIDE DEF B
  <2>2. B \in SUBSET DOMAIN p /\ p[x].parents \subseteq B /\ \A y \in B : p[y].parents \subseteq B
    BY <1>2, <1>3, <2>1
  <2> QED
    BY <2>2, LinkedLeast
<1>5. B \subseteq A
  <2>1. A \in SUBSET DOMAIN p /\ p[x].parents \subseteq A /\ \A y \in A : p[y].parents \subseteq A
    BY <1>3, LinkedClosed
  <2>2. A \cap D = {}
    BY <1>3, OutsideClosed
  <2> HIDE DEF A
  <2>3. A \in SUBSET DOMAIN q /\ q[x].parents \subseteq A /\ \A y \in A : q[y].parents \subseteq A
    BY <1>2, <1>3, <2>1, <2>2
  <2> QED
    BY <2>3, LinkedLeast
<1> QED
  BY <1>3, <1>4, <1>5

\* UpdateForRemoveFromMempool without updateDescendants, as for every removal but
\* that of a confirmed transaction: what is left has its totals right.
LEMMA RemoveDownTotals ==
  ASSUME NEW p, Shape(p), TotalsOk(p), NEW D, ChildClosed(p, D), NEW q, Cut(p, D, q), \A x \in DOMAIN q : q[x].anc = p[x].anc
  PROVE  TotalsOk(q)
<1>1. Shape(q) /\ FeesInt(p) /\ FeesInt(q) /\ DOMAIN q = DOMAIN p \ D
  <2>1. Shape(q)
    BY RemoveShape
  <2> QED
    BY <2>1 DEF Shape, Cut
<1>2. \A x \in DOMAIN q : /\ x \in DOMAIN p \ D /\ q[x].fee = p[x].fee
                          /\ LinkedAncestors(q, x) = LinkedAncestors(p, x)
  <2>1. \A x \in DOMAIN q : x \in DOMAIN p \ D /\ q[x].fee = p[x].fee
    BY <1>1 DEF Cut
  <2>2. ASSUME NEW x \in DOMAIN q
        PROVE  LinkedAncestors(q, x) = LinkedAncestors(p, x)
    BY SMT, RemoveDownLinks
  <2> QED
    BY <2>1, <2>2
<1> SUFFICES ASSUME NEW x \in DOMAIN q
             PROVE  /\ q[x].anc = Totals(q, LinkedAncestors(q, x) \cup {x})
                    /\ q[x].desc = Totals(q, Below(q, x) \cup {x})
  BY DEF TotalsOk
<1>3. q[x].anc = Totals(q, LinkedAncestors(q, x) \cup {x})
  <2> DEFINE A == LinkedAncestors(q, x) \cup {x}
  <2>1. A \in SUBSET DOMAIN q
    BY <1>1, LinkedClosed
  <2>2. q[x].anc = Totals(p, A)
    BY <1>2 DEF TotalsOk, Cut
  <2>3. A \in SUBSET DOMAIN p /\ \A y \in A : q[y].fee = p[y].fee
    BY <1>1, <1>2, <2>1
  <2> HIDE DEF A
  <2>4. Totals(q, A) = Totals(p, A)
    BY <1>1, <2>1, <2>3, TotalsSame
  <2> QED
    BY <2>2, <2>4 DEF A
<1>4. q[x].desc = Totals(q, Below(q, x) \cup {x})
  <2> DEFINE B == Below(p, x) \cup {x}
             G == {t \in D : x \in LinkedAncestors(p, t)}
             E == Below(q, x) \cup {x}
  <2>1. B \in SUBSET DOMAIN p /\ G \in SUBSET B
    BY <1>2 DEF Below, ChildClosed
  <2>2. q[x].desc = Minus(Totals(p, B), Totals(p, G))
    BY <1>2 DEF TotalsOk, Cut
  <2>3. B \ G = E
    BY <1>1, <1>2 DEF Below
  <2>4. E \in SUBSET DOMAIN q /\ E \in SUBSET DOMAIN p /\ \A y \in E : q[y].fee = p[y].fee
    BY <1>1, <1>2 DEF Below
  <2> HIDE DEF B, G, E
  <2>5. Totals(p, B \ G) = Minus(Totals(p, B), Totals(p, G))
    BY <1>1, <2>1, TotalsMinus
  <2>6. Totals(q, E) = Totals(p, E)
    BY <1>1, <2>4, TotalsSame
  <2> QED
    BY <2>2, <2>3, <2>5, <2>6 DEF E
<1> QED
  BY <1>3, <1>4

\* An entry without parents in the pool goes alone.
LEMMA RemoveRootLinks ==
  ASSUME NEW p, Shape(p), NEW t \in DOMAIN p, p[t].parents = {}, NEW q, Cut(p, {t}, q),
         NEW x \in DOMAIN q
  PROVE  /\ x \in DOMAIN p \ {t}
         /\ LinkedAncestors(p, t) = {}
         /\ LinkedAncestors(q, x) = LinkedAncestors(p, x) \ {t}
<1> DEFINE A == LinkedAncestors(p, x)
           B == LinkedAncestors(q, x)
<1>1. Shape(q)
  BY RemoveShape
<1>2. DOMAIN q = DOMAIN p \ {t}
  BY DEF Cut
<1>3. \A y \in DOMAIN q : y \in DOMAIN p \ {t} /\ q[y].parents = p[y].parents \ {t}
  BY <1>2 DEF Cut
<1>4. A \subseteq B \cup {t}
  <2>1. B \in SUBSET DOMAIN q /\ q[x].parents \subseteq B /\ \A y \in B : q[y].parents \subseteq B
    BY <1>1, LinkedClosed
  <2> DEFINE C == B \cup {t}
  <2> HIDE DEF B
  <2>2. C \in SUBSET DOMAIN p /\ p[x].parents \subseteq C /\ \A y \in C : p[y].parents \subseteq C
    BY <1>2, <1>3, <2>1
  <2> HIDE DEF C
  <2>3. A \subseteq C
    BY <2>2, LinkedLeast
  <2> QED
    BY <2>3 DEF C
<1>5. B \subseteq A \ {t}
  <2>1. A \in SUBSET DOMAIN p /\ p[x].parents \subseteq A /\ \A y \in A : p[y].parents \subseteq A
    BY <1>3, LinkedClosed
  <2> DEFINE C == A \ {t}
  <2> HIDE DEF A
  <2>3. C \in SUBSET DOMAIN q /\ q[x].parents \subseteq C /\ \A y \in C : q[y].parents \subseteq C
    BY <1>2, <1>3, <2>1
  <2> HIDE DEF C
  <2>4. B \subseteq C
    BY <2>3, LinkedLeast
  <2> QED
    BY <2>4 DEF C
<1>6. LinkedAncestors(p, t) \subseteq {}
  <2>1. {} \in SUBSET DOMAIN p /\ p[t].parents \subseteq {} /\ \A y \in {} : p[y].parents \subseteq {}
    OBVIOUS
  <2> QED
    BY <2>1, LinkedLeast
<1> QED
  BY <1>3, <1>4, <1>5, <1>6

\* UpdateForRemoveFromMempool with updateDescendants, for a confirmed transaction
\* whose parents went before it.
LEMMA RemoveRootTotals ==
  ASSUME NEW p, Shape(p), TotalsOk(p), NEW t \in DOMAIN p, p[t].parents = {}, NEW q, Cut(p, {t}, q),
         \A x \in DOMAIN q : q[x].anc = Minus(p[x].anc, Totals(p, {t} \cap LinkedAncestors(p, x)))
  PROVE  TotalsOk(q)
<1>1. Shape(q) /\ FeesInt(p) /\ FeesInt(q) /\ DOMAIN q = DOMAIN p \ {t}
  <2>1. Shape(q)
    BY RemoveShape
  <2> QED
    BY <2>1 DEF Shape, Cut
<1>2. \A x \in DOMAIN q : /\ x \in DOMAIN p \ {t} /\ q[x].fee = p[x].fee
                          /\ LinkedAncestors(q, x) = LinkedAncestors(p, x) \ {t}
                          /\ LinkedAncestors(p, t) = {}
  <2>1. \A x \in DOMAIN q : x \in DOMAIN p \ {t} /\ q[x].fee = p[x].fee
    BY <1>1 DEF Cut
  <2>2. ASSUME NEW x \in DOMAIN q
        PROVE  LinkedAncestors(q, x) = LinkedAncestors(p, x) \ {t} /\ LinkedAncestors(p, t) = {}
    BY ZenonT(40), RemoveRootLinks
  <2> QED
    BY <2>1, <2>2
<1> SUFFICES ASSUME NEW x \in DOMAIN q
             PROVE  /\ q[x].anc = Totals(q, LinkedAncestors(q, x) \cup {x})
                    /\ q[x].desc = Totals(q, Below(q, x) \cup {x})
  BY DEF TotalsOk
<1>3. q[x].anc = Totals(q, LinkedAncestors(q, x) \cup {x})
  <2> DEFINE A == LinkedAncestors(p, x) \cup {x}
             G == {t} \cap LinkedAncestors(p, x)
             E == LinkedAncestors(q, x) \cup {x}
  <2>1. A \in SUBSET DOMAIN p /\ G \in SUBSET A
    BY <1>2, LinkedClosed
  <2>2. q[x].anc = Minus(Totals(p, A), Totals(p, G))
    BY <1>2 DEF TotalsOk, Cut
  <2>3. A \ G = E
    BY <1>2
  <2>4. E \in SUBSET DOMAIN q /\ E \in SUBSET DOMAIN p /\ \A y \in E : q[y].fee = p[y].fee
    BY <1>1, <1>2, LinkedClosed
  <2> HIDE DEF A, G, E
  <2>5. Totals(p, A \ G) = Minus(Totals(p, A), Totals(p, G))
    BY <1>1, <2>1, TotalsMinus
  <2>6. Totals(q, E) = Totals(p, E)
    BY <1>1, <2>4, TotalsSame
  <2> QED
    BY <2>2, <2>3, <2>5, <2>6 DEF E
<1>4. q[x].desc = Totals(q, Below(q, x) \cup {x})
  <2> DEFINE B == Below(p, x) \cup {x}
             G == {y \in {t} : x \in LinkedAncestors(p, y)}
             E == Below(q, x) \cup {x}
  <2>1. B \in SUBSET DOMAIN p /\ G \in SUBSET B
    BY <1>2 DEF Below
  <2>2. q[x].desc = Minus(Totals(p, B), Totals(p, G))
    BY <1>2 DEF TotalsOk, Cut
  <2>3. B \ G = E
    BY <1>1, <1>2 DEF Below
  <2>4. E \in SUBSET DOMAIN q /\ E \in SUBSET DOMAIN p /\ \A y \in E : q[y].fee = p[y].fee
    BY <1>1, <1>2 DEF Below
  <2> HIDE DEF B, G, E
  <2>5. Totals(p, B \ G) = Minus(Totals(p, B), Totals(p, G))
    BY <1>1, <2>1, TotalsMinus
  <2>6. Totals(q, E) = Totals(p, E)
    BY <1>1, <2>4, TotalsSame
  <2> QED
    BY <2>2, <2>3, <2>5, <2>6 DEF E
<1> QED
  BY <1>3, <1>4

\* addUnchecked, field by field.
Self(t) == [count |-> 1, size |-> Size[t], fees |-> Fee[t] + mapDeltas[t]]
Added(p, t, A, q) ==
    /\ DOMAIN q = DOMAIN p \cup {t}
    /\ DOMAIN q[t] = Fields
    /\ q[t].fee = Fee[t] + mapDeltas[t] /\ q[t].parents = ParentsOf(p, t) /\ q[t].children = {}
    /\ q[t].anc = Plus(Self(t), Totals(p, A)) /\ q[t].desc = Self(t)
    /\ \A x \in DOMAIN p :
          /\ DOMAIN q[x] = Fields
          /\ q[x].fee = p[x].fee /\ q[x].parents = p[x].parents /\ q[x].anc = p[x].anc
          /\ q[x].children = IF x \in ParentsOf(p, t) THEN p[x].children \cup {t} ELSE p[x].children
          /\ q[x].desc = IF x \in A THEN Plus(p[x].desc, Self(t)) ELSE p[x].desc

LEMMA AddFields ==
  ASSUME NEW p, Shape(p), NEW t \in Tx \ DOMAIN p, NEW A
  PROVE  Added(p, t, A, AddUnchecked(p, t, A))
<1> DEFINE q == AddUnchecked(p, t, A)
           ch(x) == IF x \in ParentsOf(p, t) THEN p[x].children \cup {t} ELSE p[x].children
           de(x) == IF x \in A THEN Plus(p[x].desc, Self(t)) ELSE p[x].desc
<1>1. DOMAIN q = DOMAIN p \cup {t}
  BY DEF AddUnchecked
<1>2. q[t] = [fee |-> Self(t).fees, parents |-> ParentsOf(p, t), children |-> {},
              anc |-> Plus(Self(t), Totals(p, A)), desc |-> Self(t)]
  BY DEF AddUnchecked, Self
<1>3. Self(t).fees = Fee[t] + mapDeltas[t]
  BY DEF Self
<1>4. ASSUME NEW x \in DOMAIN p PROVE q[x] = [p[x] EXCEPT !.children = ch(x), !.desc = de(x)]
  BY DEF AddUnchecked, Self
<1> HIDE DEF q, ch, de
<1>5. /\ DOMAIN q[t] = Fields
      /\ q[t].fee = Fee[t] + mapDeltas[t] /\ q[t].parents = ParentsOf(p, t) /\ q[t].children = {}
      /\ q[t].anc = Plus(Self(t), Totals(p, A)) /\ q[t].desc = Self(t)
  <2> DEFINE an == Plus(Self(t), Totals(p, A))
             pa == ParentsOf(p, t)
             fe == Self(t).fees
             dt == Self(t)
  <2>1. q[t] = [fee |-> fe, parents |-> pa, children |-> {}, anc |-> an, desc |-> dt]
    BY <1>2
  <2> HIDE DEF an, pa, fe, dt
  <2>2. q[t].fee = fe /\ q[t].parents = pa /\ q[t].children = {} /\ q[t].anc = an /\ q[t].desc = dt
    BY SMT, <2>1
  <2>3. DOMAIN q[t] = Fields
    BY SMT, <2>1 DEF Fields
  <2> QED
    BY <1>3, <2>2, <2>3 DEF an, pa, fe, dt
<1>6. ASSUME NEW x \in DOMAIN p
      PROVE  /\ DOMAIN q[x] = Fields
             /\ q[x].fee = p[x].fee /\ q[x].parents = p[x].parents /\ q[x].anc = p[x].anc
             /\ q[x].children = ch(x) /\ q[x].desc = de(x)
  <2>1. DOMAIN p[x] = {"fee", "parents", "children", "anc", "desc"}
    BY DEF Fields, Shape
  <2> QED
    BY <1>4, <2>1 DEF Fields
<1> QED
  BY <1>1, <1>5, <1>6 DEF Added, q, ch, de

LEMMA AddShape ==
  ASSUME NEW p, Shape(p), NEW t \in Tx \ DOMAIN p, NEW A, NEW q, Added(p, t, A, q), mapDeltas \in [Tx -> Int]
  PROVE  Shape(q)
<1>1. DOMAIN q = DOMAIN p \cup {t} /\ DOMAIN q \in SUBSET Tx /\ t \notin DOMAIN p
  BY DEF Added, Shape, FeesInt
<1>2. /\ q[t].parents = ParentsOf(p, t) /\ q[t].children = {}
      /\ \A x \in DOMAIN p : /\ q[x].parents = p[x].parents
                             /\ q[x].children = IF x \in ParentsOf(p, t) THEN p[x].children \cup {t} ELSE p[x].children
  BY DEF Added
<1>3. FeesInt(q)
  <2>1. Fee[t] \in Int /\ mapDeltas[t] \in Int
    BY SizeAssumption
  <2>2. Fee[t] + mapDeltas[t] \in Int
    BY SMT, <2>1
  <2> QED
    BY <1>1, <2>2 DEF FeesInt, Added, Shape
<1>4. \A x \in DOMAIN q : DOMAIN q[x] = Fields
  BY <1>1 DEF Added
<1>5. \A x : ParentsOf(p, x) \subseteq ParentsOf(q, x) /\ ParentsOf(p, x) \subseteq DOMAIN p
  BY <1>1 DEF ParentsOf
<1>6. \A x \in DOMAIN p : p[x].parents \subseteq ParentsOf(p, x) /\ p[x].children \subseteq DOMAIN p
  BY DEF Shape
<1>7. ASSUME NEW x \in DOMAIN q
      PROVE  q[x].parents \subseteq ParentsOf(q, x) /\ q[x].children \subseteq DOMAIN q
  <2>1. CASE x = t
    BY <1>2, <1>5, <2>1
  <2>2. CASE x # t
    <3>1. x \in DOMAIN p
      BY <1>1, <1>7, <2>2
    <3>2. q[x].parents \subseteq ParentsOf(q, x)
      BY <1>2, <1>5, <1>6, <3>1
    <3>3. q[x].children \subseteq DOMAIN q
      BY <1>1, <1>2, <1>6, <3>1
    <3> QED
      BY <3>2, <3>3
  <2> QED
    BY <2>1, <2>2
<1>8. ASSUME NEW x \in DOMAIN q, NEW y \in DOMAIN q
      PROVE  y \in q[x].children <=> x \in q[y].parents
  <2>1. CASE x = t /\ y = t
    BY <1>1, <1>2, <1>5, <2>1
  <2>2. CASE x = t /\ y # t
    BY <1>1, <1>2, <1>5, <1>6, <2>2
  <2>3. CASE x # t /\ y = t
    <3>1. x \in DOMAIN p /\ t \notin p[x].children
      BY <1>1, <1>6, <2>3
    <3>2. CASE x \in ParentsOf(p, t)
      BY <1>2, <2>3, <3>1, <3>2
    <3>3. CASE x \notin ParentsOf(p, t)
      BY <1>2, <2>3, <3>1, <3>3
    <3> QED
      BY <3>2, <3>3
  <2>4. CASE x # t /\ y # t
    <3>1. x \in DOMAIN p /\ y \in DOMAIN p
      BY <1>1, <2>4
    <3>2. y \in p[x].children <=> x \in p[y].parents
      BY <3>1 DEF Shape
    <3> QED
      BY <1>2, <2>4, <3>1, <3>2
  <2> QED
    BY <2>1, <2>2, <2>3, <2>4
<1> QED
  BY <1>3, <1>4, <1>7, <1>8 DEF Shape

LEMMA AddLinks ==
  ASSUME NEW p, Shape(p), NEW t \in Tx \ DOMAIN p, NEW A, NEW q, Added(p, t, A, q), Shape(q)
  PROVE  /\ LinkedAncestors(q, t) = NewAncestors(p, t)
         /\ \A x \in DOMAIN p : LinkedAncestors(q, x) = LinkedAncestors(p, x)
<1>1. DOMAIN q = DOMAIN p \cup {t} /\ t \notin DOMAIN p /\ q[t].parents = ParentsOf(p, t)
  BY DEF Added
<1>2. \A x \in DOMAIN p : q[x].parents = p[x].parents
  BY DEF Added
<1>3. ASSUME NEW x \in DOMAIN p PROVE LinkedAncestors(q, x) \subseteq LinkedAncestors(p, x)
  <2> DEFINE C == LinkedAncestors(p, x)
  <2>1. C \in SUBSET DOMAIN p /\ p[x].parents \subseteq C /\ \A u \in C : p[u].parents \subseteq C
    BY LinkedClosed
  <2> HIDE DEF C
  <2>2. C \in SUBSET DOMAIN q /\ q[x].parents \subseteq C /\ \A u \in C : q[u].parents \subseteq C
    BY <1>1, <1>2, <2>1
  <2>3. LinkedAncestors(q, x) \subseteq C
    BY <2>2, LinkedLeast
  <2> QED
    BY <2>3 DEF C
<1>4. ASSUME NEW x \in DOMAIN p PROVE LinkedAncestors(p, x) \subseteq LinkedAncestors(q, x)
  <2> DEFINE C == LinkedAncestors(q, x)
  <2>1. C \subseteq DOMAIN p
    BY <1>3, LinkedClosed
  <2>2. q[x].parents \subseteq C /\ \A u \in C : q[u].parents \subseteq C
    BY <1>1, LinkedClosed
  <2> HIDE DEF C
  <2>3. C \in SUBSET DOMAIN p /\ p[x].parents \subseteq C /\ \A u \in C : p[u].parents \subseteq C
    BY <1>1, <1>2, <2>1, <2>2
  <2>4. LinkedAncestors(p, x) \subseteq C
    BY <2>3, LinkedLeast
  <2> QED
    BY <2>4 DEF C
<1>5. LinkedAncestors(q, t) \subseteq NewAncestors(p, t)
  <2> DEFINE C == NewAncestors(p, t)
  <2>1. C \in SUBSET DOMAIN p /\ ParentsOf(p, t) \subseteq C /\ \A u \in C : p[u].parents \subseteq C
    BY NewAncestorsClosed
  <2> HIDE DEF C
  <2>2. C \in SUBSET DOMAIN q /\ q[t].parents \subseteq C /\ \A u \in C : q[u].parents \subseteq C
    BY <1>1, <1>2, <2>1
  <2>3. LinkedAncestors(q, t) \subseteq C
    BY <2>2, LinkedLeast
  <2> QED
    BY <2>3 DEF C
<1>6. NewAncestors(p, t) \subseteq LinkedAncestors(q, t)
  <2> DEFINE C == LinkedAncestors(q, t)
  <2>1. C \subseteq DOMAIN p
    BY <1>5, NewAncestorsClosed
  <2>2. q[t].parents \subseteq C /\ \A u \in C : q[u].parents \subseteq C
    BY <1>1, LinkedClosed
  <2> HIDE DEF C
  <2>3. C \in SUBSET DOMAIN p /\ ParentsOf(p, t) \subseteq C /\ \A u \in C : p[u].parents \subseteq C
    BY <1>1, <1>2, <2>1, <2>2
  <2>4. NewAncestors(p, t) \subseteq C
    BY <2>3, NewAncestorsLeast
  <2> QED
    BY <2>4 DEF C
<1> QED
  BY <1>3, <1>4, <1>5, <1>6

\* UpdateEntryForAncestors and UpdateAncestorsOf: the totals with the newcomer.
LEMMA AddTotals ==
  ASSUME NEW p, Shape(p), TotalsOk(p), NEW t \in Tx \ DOMAIN p, NEW q, Added(p, t, NewAncestors(p, t), q),
         mapDeltas \in [Tx -> Int]
  PROVE  TotalsOk(q)
<1> DEFINE A == NewAncestors(p, t)
<1>1. Shape(q)
  BY AddShape
<1>2. FeesInt(p) /\ FeesInt(q) /\ DOMAIN q = DOMAIN p \cup {t} /\ t \notin DOMAIN p
  BY <1>1 DEF Shape, Added
<1>3. \A x \in DOMAIN p : q[x].fee = p[x].fee /\ LinkedAncestors(q, x) = LinkedAncestors(p, x)
  <2>1. \A x \in DOMAIN p : LinkedAncestors(q, x) = LinkedAncestors(p, x)
    BY SMT, <1>1, AddLinks
  <2> QED
    BY <2>1 DEF Added
<1>4. LinkedAncestors(q, t) = A
  BY SMT, <1>1, AddLinks
<1>5. A \in SUBSET DOMAIN p
  BY NewAncestorsClosed
<1>6. Totals(q, {t}) = Self(t)
  <2>1. Totals(q, {t}) = [count |-> 1, size |-> Size[t], fees |-> q[t].fee]
    BY <1>2, TotalsOne
  <2> QED
    BY <2>1 DEF Self, Added
<1>7. ASSUME NEW S \in SUBSET DOMAIN p
      PROVE  Totals(q, S) = Totals(p, S) /\ S \in SUBSET DOMAIN q
  <2>1. S \subseteq DOMAIN q /\ \A x \in S : q[x].fee = p[x].fee
    BY <1>2, <1>3
  <2> QED
    BY <1>2, <2>1, TotalsSame
<1>8. ASSUME NEW S \in SUBSET DOMAIN p
      PROVE  /\ Totals(q, S \cup {t}) = Plus(Totals(p, S), Self(t))
             /\ Totals(q, S \cup {t}) = Plus(Self(t), Totals(p, S))
  <2>1. S \in SUBSET DOMAIN q /\ {t} \in SUBSET DOMAIN q /\ S \cap {t} = {} /\ Totals(q, S) = Totals(p, S)
    BY <1>2, <1>7
  <2>2. /\ Totals(q, S) \in Tot /\ Totals(q, {t}) \in Tot
        /\ Totals(q, S \cup {t}) = Plus(Totals(q, S), Totals(q, {t}))
    BY <1>2, <2>1, TotalsUnion
  <2>3. Plus(Totals(q, S), Totals(q, {t})) = Plus(Totals(q, {t}), Totals(q, S))
    BY <2>2, TotMinusPlus
  <2> QED
    BY <1>6, <2>1, <2>2, <2>3
<1>9. q[t].anc = Totals(q, LinkedAncestors(q, t) \cup {t}) /\ q[t].desc = Totals(q, Below(q, t) \cup {t})
  <2>1. q[t].anc = Plus(Self(t), Totals(p, A)) /\ q[t].desc = Self(t)
    BY DEF Added
  <2>2. ASSUME NEW x \in DOMAIN q PROVE t \notin LinkedAncestors(q, x)
    <3>1. CASE x = t
      BY <1>2, <1>4, <1>5, <3>1
    <3>2. CASE x \in DOMAIN p
      <4>1. LinkedAncestors(p, x) \in SUBSET DOMAIN p
        BY <3>2, LinkedClosed
      <4> QED
        BY <1>2, <1>3, <3>2, <4>1
    <3> QED
      BY <1>2, <3>1, <3>2
  <2>3. Below(q, t) \cup {t} = {t}
    BY <2>2 DEF Below
  <2> HIDE DEF A
  <2> QED
    BY <1>4, <1>5, <1>6, <1>8, <2>1, <2>3
<1>10. ASSUME NEW x \in DOMAIN p
       PROVE  q[x].anc = Totals(q, LinkedAncestors(q, x) \cup {x}) /\ q[x].desc = Totals(q, Below(q, x) \cup {x})
  <2> DEFINE U == LinkedAncestors(p, x) \cup {x}
             B == Below(p, x) \cup {x}
  <2>1. U \in SUBSET DOMAIN p /\ B \in SUBSET DOMAIN p
    BY LinkedClosed DEF Below
  <2>2. p[x].anc = Totals(p, U) /\ p[x].desc = Totals(p, B)
    BY DEF TotalsOk
  <2>3. q[x].anc = p[x].anc /\ q[x].desc = IF x \in A THEN Plus(p[x].desc, Self(t)) ELSE p[x].desc
    BY DEF Added
  <2>4. LinkedAncestors(q, x) \cup {x} = U
    BY <1>3
  <2>5. Below(q, x) \cup {x} = IF x \in A THEN B \cup {t} ELSE B
    <3>1. CASE x \in A
      BY <1>2, <1>3, <1>4, <3>1 DEF Below
    <3>2. CASE x \notin A
      BY <1>2, <1>3, <1>4, <3>2 DEF Below
    <3> QED
      BY <3>1, <3>2
  <2> HIDE DEF A, U, B
  <2>6. CASE x \in A
    BY <1>7, <1>8, <2>1, <2>2, <2>3, <2>4, <2>5, <2>6
  <2>7. CASE x \notin A
    BY <1>7, <2>1, <2>2, <2>3, <2>4, <2>5, <2>7
  <2> QED
    BY <2>6, <2>7
<1> QED
  BY <1>2, <1>9, <1>10 DEF TotalsOk

\* The ancestors of a newcomer are found before what it replaces is removed: if none
\* of them is replaced itself, none of them goes.
LEMMA AncestorsStay ==
  ASSUME NEW p, Shape(p), NEW t, NEW S \in SUBSET DOMAIN p, NewAncestors(p, t) \cap S = {}
  PROVE  NewAncestors(p, t) \cap CalculateDescendants(p, S) = {}
<1> SUFFICES ASSUME NEW a \in NewAncestors(p, t), a \in CalculateDescendants(p, S) PROVE FALSE
  OBVIOUS
<1>1. a \in DOMAIN p /\ LinkedAncestors(p, a) \subseteq NewAncestors(p, t)
  BY NewAncestorsClosed
<1>2. a \in S \/ \E s \in S : s \in LinkedAncestors(p, a)
  BY <1>1, DescendantsAre
<1> QED
  BY <1>1, <1>2

LEMMA CutNewAncestors ==
  ASSUME NEW p, Shape(p), NEW D, ChildClosed(p, D), NEW q, Cut(p, D, q), NEW t, NewAncestors(p, t) \cap D = {}
  PROVE  ParentsOf(q, t) = ParentsOf(p, t) /\ NewAncestors(q, t) = NewAncestors(p, t)
<1> DEFINE A == NewAncestors(p, t)
           B == NewAncestors(q, t)
<1>1. Shape(q)
  BY RemoveShape
<1>2. DOMAIN q = DOMAIN p \ D
  BY DEF Cut
<1>3. \A y \in DOMAIN q : y \in DOMAIN p \ D /\ q[y].parents = p[y].parents
  <2>1. \A y \in DOMAIN q : q[y].parents = p[y].parents \ D
    BY DEF Cut
  <2>2. \A y \in DOMAIN p \ D : p[y].parents \cap D = {}
    BY OutsideClosed
  <2> QED
    BY <1>2, <2>1, <2>2
<1>4. A \in SUBSET DOMAIN p /\ ParentsOf(p, t) \subseteq A /\ \A y \in A : p[y].parents \subseteq A
  BY NewAncestorsClosed
<1>5. ParentsOf(q, t) = ParentsOf(p, t)
  BY <1>2, <1>4 DEF ParentsOf
<1>6. A \subseteq B
  <2>1. B \in SUBSET DOMAIN q /\ ParentsOf(q, t) \subseteq B /\ \A y \in B : q[y].parents \subseteq B
    BY <1>1, NewAncestorsClosed
  <2> HIDE DEF B
  <2>2. B \in SUBSET DOMAIN p /\ ParentsOf(p, t) \subseteq B /\ \A y \in B : p[y].parents \subseteq B
    BY <1>2, <1>3, <1>5, <2>1
  <2> QED
    BY <2>2, NewAncestorsLeast
<1>7. B \subseteq A
  <2> HIDE DEF A
  <2>1. A \in SUBSET DOMAIN q /\ ParentsOf(q, t) \subseteq A /\ \A y \in A : q[y].parents \subseteq A
    BY <1>2, <1>3, <1>4, <1>5 DEF A
  <2> QED
    BY <2>1, NewAncestorsLeast
<1> QED
  BY <1>5, <1>6, <1>7

\* What Accepted does to the pool.
Replaced(t) == CalculateDescendants(pool, Conflicts(t))

\* The pool with the transaction in it.
AcceptedIs(t, q) ==
    /\ Shape(q) /\ TotalsOk(q)
    /\ DOMAIN q = (DOMAIN pool \ Replaced(t)) \cup {t}
    /\ ChildClosed(pool, Replaced(t)) /\ Conflicts(t) \subseteq Replaced(t)
    /\ ParentsOf(pool, t) \cap Replaced(t) = {}
    /\ q[t].parents = ParentsOf(pool, t) /\ q[t].fee = Fee[t] + mapDeltas[t]
    /\ \A x \in DOMAIN pool \ Replaced(t) : q[x].parents = pool[x].parents /\ q[x].fee = pool[x].fee

LEMMA AcceptedOk ==
  ASSUME Shape(pool), TotalsOk(pool), mapDeltas \in [Tx -> Int],
         NEW t \in Tx \ DOMAIN pool, NewAncestors(pool, t) \cap Conflicts(t) = {},
         NEW q, q = Accepted(t)
  PROVE  AcceptedIs(t, q)
<1> DEFINE D == Replaced(t)
           p == RemoveStaged(pool, D, FALSE)
           A == NewAncestors(pool, t)
<1>1. Conflicts(t) \in SUBSET DOMAIN pool
  BY DEF Conflicts, Spenders
<1>2. ChildClosed(pool, D) /\ Conflicts(t) \subseteq D
  BY <1>1, Descendants DEF Replaced, ChildClosed
<1>3. A \cap D = {}
  BY <1>1, AncestorsStay DEF Replaced
<1>4. Cut(pool, D, p) /\ \A x \in DOMAIN p : p[x].anc = pool[x].anc
  <2>1. p = Down(pool, D)
    BY DEF Down
  <2> HIDE DEF D, p
  <2>2. Cut(pool, D, p) /\ SameAnc(pool, p)
    BY <2>1, RemoveStagedFields
  <2> QED
    BY <2>2 DEF SameAnc
<1>5. q = AddUnchecked(p, t, A)
  BY DEF Accepted, Replaced
<1> HIDE DEF D, p
<1>6. DOMAIN p = DOMAIN pool \ D /\ t \in Tx \ DOMAIN p
  BY <1>4 DEF Cut
<1>7. Shape(p)
  BY <1>4, RemoveShape
<1>8. TotalsOk(p)
  BY <1>2, <1>4, <1>6, RemoveDownTotals
<1>9. ParentsOf(p, t) = ParentsOf(pool, t) /\ NewAncestors(p, t) = A
  BY SMT, <1>2, <1>3, <1>4, CutNewAncestors
<1>10. Added(p, t, NewAncestors(p, t), q)
  <2>1. Added(p, t, NewAncestors(p, t), AddUnchecked(p, t, NewAncestors(p, t)))
    BY <1>6, <1>7, AddFields
  <2> QED
    BY <1>5, <1>9, <2>1
<1>11. Shape(q)
  BY <1>6, <1>7, <1>10, AddShape
<1>12. TotalsOk(q)
  BY <1>6, <1>7, <1>8, <1>10, AddTotals
<1>13. \A x \in DOMAIN pool \ D : p[x].fee = pool[x].fee /\ p[x].parents = pool[x].parents
  <2>1. \A x \in DOMAIN pool \ D : pool[x].parents \cap D = {}
    BY <1>2, OutsideClosed
  <2>2. \A x \in DOMAIN pool \ D : p[x].fee = pool[x].fee /\ p[x].parents = pool[x].parents \ D
    BY <1>4, <1>6 DEF Cut
  <2> QED
    BY <2>1, <2>2
<1>14. /\ DOMAIN q = (DOMAIN pool \ D) \cup {t}
       /\ q[t].parents = ParentsOf(pool, t) /\ q[t].fee = Fee[t] + mapDeltas[t]
       /\ \A x \in DOMAIN pool \ D : q[x].parents = pool[x].parents /\ q[x].fee = pool[x].fee
  BY <1>6, <1>9, <1>10, <1>13 DEF Added
<1>15. ParentsOf(pool, t) \cap D = {}
  BY <1>3, NewAncestorsClosed
<1> QED
  BY <1>2, <1>11, <1>12, <1>14, <1>15 DEF D, AcceptedIs

\* The ancestors follow from the parents.
LEMMA SameLinks ==
  ASSUME NEW p, Shape(p), NEW q, Shape(q), DOMAIN q = DOMAIN p, \A x \in DOMAIN p : q[x].parents = p[x].parents,
         NEW x \in DOMAIN p
  PROVE  LinkedAncestors(q, x) = LinkedAncestors(p, x)
<1> DEFINE A == LinkedAncestors(p, x)
           B == LinkedAncestors(q, x)
<1>1. A \in SUBSET DOMAIN p /\ p[x].parents \subseteq A /\ \A u \in A : p[u].parents \subseteq A
  BY LinkedClosed
<1>2. B \in SUBSET DOMAIN q /\ q[x].parents \subseteq B /\ \A u \in B : q[u].parents \subseteq B
  BY LinkedClosed
<1>3. B \subseteq A
  <2> HIDE DEF A
  <2>1. A \in SUBSET DOMAIN q /\ q[x].parents \subseteq A /\ \A u \in A : q[u].parents \subseteq A
    BY <1>1
  <2> QED
    BY <2>1, LinkedLeast
<1>4. A \subseteq B
  <2> HIDE DEF B
  <2>1. B \in SUBSET DOMAIN p /\ p[x].parents \subseteq B /\ \A u \in B : p[u].parents \subseteq B
    BY <1>2
  <2> QED
    BY <2>1, LinkedLeast
<1> QED
  BY <1>3, <1>4

\* Totals with other fees.
WithFees(r, v) == [r EXCEPT !.fees = v]
LEMMA TotFees ==
  ASSUME NEW r \in Tot, NEW v \in Int
  PROVE  /\ WithFees(r, v) \in Tot
         /\ WithFees(r, v)["count"] = r["count"] /\ WithFees(r, v)["size"] = r["size"]
         /\ WithFees(r, v)["fees"] = v
  BY SMT DEF Tot, Parts, WithFees

\* Raised changes fees only, and leaves all totals right.
LEMMA PrioritisedOk ==
  ASSUME Shape(pool), TotalsOk(pool), NEW t \in DOMAIN pool, NEW d \in Int, NEW q, q = Raised(t, d)
  PROVE  /\ Shape(q) /\ TotalsOk(q) /\ DOMAIN q = DOMAIN pool
         /\ \A x \in DOMAIN pool : /\ q[x].parents = pool[x].parents
                                   /\ q[x].fee = IF x = t THEN pool[x].fee + d ELSE pool[x].fee
<1> DEFINE fe(x) == IF x = t THEN pool[x].fee + d ELSE pool[x].fee
           dv(x) == IF x \in LinkedAncestors(pool, t) \cup {t} THEN pool[x].desc.fees + d ELSE pool[x].desc.fees
           av(x) == IF x \in CalculateDescendants(pool, {t}) THEN pool[x].anc.fees + d ELSE pool[x].anc.fees
           de(x) == WithFees(pool[x].desc, dv(x))
           an(x) == WithFees(pool[x].anc, av(x))
<1>1. DOMAIN q = DOMAIN pool
  BY DEF Raised
<1>2. ASSUME NEW x \in DOMAIN pool PROVE q[x] = [pool[x] EXCEPT !.fee = fe(x), !.desc = de(x), !.anc = an(x)]
  BY DEF Raised, WithFees
<1> HIDE DEF fe, de, an
<1>3. ASSUME NEW x \in DOMAIN pool
      PROVE  /\ DOMAIN q[x] = Fields /\ q[x].fee = fe(x) /\ q[x].parents = pool[x].parents
             /\ q[x].children = pool[x].children /\ q[x].desc = de(x) /\ q[x].anc = an(x)
  <2>1. DOMAIN pool[x] = {"fee", "parents", "children", "anc", "desc"}
    BY DEF Fields, Shape
  <2> QED
    BY <1>2, <2>1 DEF Fields
<1>4. FeesInt(pool) /\ FeesInt(q)
  <2>1. FeesInt(pool)
    BY DEF Shape
  <2>2. ASSUME NEW x \in DOMAIN pool PROVE fe(x) \in Int
    <3>1. pool[x].fee \in Int
      BY <2>1 DEF FeesInt
    <3>2. pool[x].fee + d \in Int
      BY SMT, <3>1
    <3> QED
      BY <3>1, <3>2 DEF fe
  <2> QED
    BY ZenonT(40), <1>1, <1>3, <2>1, <2>2 DEF FeesInt
<1>5. Shape(q)
  <2>1. \A x : ParentsOf(q, x) = ParentsOf(pool, x)
    BY <1>1 DEF ParentsOf
  <2> QED
    BY <1>1, <1>3, <1>4, <2>1 DEF Shape
<1>6. \A x \in DOMAIN pool : LinkedAncestors(q, x) = LinkedAncestors(pool, x)
  BY <1>1, <1>3, <1>5, SameLinks
<1>7. q[t].fee = pool[t].fee + d /\ \A x \in DOMAIN pool \ {t} : q[x].fee = pool[x].fee
  BY <1>3 DEF fe
<1>8. ASSUME NEW x \in DOMAIN pool
      PROVE  q[x].anc = Totals(q, LinkedAncestors(q, x) \cup {x}) /\ q[x].desc = Totals(q, Below(q, x) \cup {x})
  <2> DEFINE A == LinkedAncestors(pool, x) \cup {x}
             B == Below(pool, x) \cup {x}
  <2>1. LinkedAncestors(q, x) \cup {x} = A /\ Below(q, x) \cup {x} = B
    BY <1>1, <1>6 DEF Below
  <2>2. A \in SUBSET DOMAIN pool /\ B \in SUBSET DOMAIN pool
    BY LinkedClosed DEF Below
  <2>3. t \in A <=> x \in CalculateDescendants(pool, {t})
    <3>1. {t} \in SUBSET DOMAIN pool
      OBVIOUS
    <3>2. x \in CalculateDescendants(pool, {t}) <=> x \in {t} \/ \E s \in {t} : s \in LinkedAncestors(pool, x)
      BY <3>1, DescendantsAre
    <3> QED
      BY <3>2
  <2>4. t \in B <=> x \in LinkedAncestors(pool, t) \cup {t}
    BY DEF Below
  <2>5. pool[x].anc = Totals(pool, A) /\ pool[x].desc = Totals(pool, B)
    BY DEF TotalsOk
  <2> HIDE DEF A, B
  <2>6. ASSUME NEW S \in SUBSET DOMAIN pool, NEW r, r = Totals(pool, S), NEW v,
               v = IF t \in S THEN r["fees"] + d ELSE r["fees"]
        PROVE  WithFees(r, v) = Totals(q, S)
    <3> DEFINE z == Totals(q, S)
               s == WithFees(r, v)
    <3>1. /\ Totals(pool, S) \in Tot /\ z \in Tot
          /\ z["count"] = Totals(pool, S)["count"] /\ z["size"] = Totals(pool, S)["size"]
          /\ z["fees"] = IF t \in S THEN Totals(pool, S)["fees"] + d ELSE Totals(pool, S)["fees"]
      BY SMT, <1>1, <1>4, <1>7, TotalsShift
    <3>2. r \in Tot /\ z \in Tot /\ z["count"] = r["count"] /\ z["size"] = r["size"] /\ z["fees"] = v
      <4> HIDE DEF z
      <4> QED
        BY <2>6, <3>1
    <3>3. v \in Int
      BY <3>2 DEF Tot, Parts
    <3>4. s \in Tot /\ s["count"] = r["count"] /\ s["size"] = r["size"] /\ s["fees"] = v
      BY <3>2, <3>3, TotFees
    <3> HIDE DEF z, s
    <3>5. \A k \in Parts : s[k] = z[k]
      BY <3>2, <3>4 DEF Parts
    <3>6. s = z
      BY <3>2, <3>4, <3>5, TotEqual
    <3> QED
      BY <3>6 DEF z, s
  <2>7. an(x) = Totals(q, A)
    <3>1. av(x) = IF t \in A THEN pool[x].anc["fees"] + d ELSE pool[x].anc["fees"]
      BY <2>3
    <3> HIDE DEF av
    <3>2. WithFees(pool[x].anc, av(x)) = Totals(q, A)
      BY <2>2, <2>5, <2>6, <3>1
    <3> QED
      BY <3>2 DEF an
  <2>8. de(x) = Totals(q, B)
    <3>1. dv(x) = IF t \in B THEN pool[x].desc["fees"] + d ELSE pool[x].desc["fees"]
      BY <2>4
    <3> HIDE DEF dv
    <3>2. WithFees(pool[x].desc, dv(x)) = Totals(q, B)
      BY <2>2, <2>5, <2>6, <3>1
    <3> QED
      BY <3>2 DEF de
  <2> QED
    BY <1>3, <2>1, <2>7, <2>8
<1>9. TotalsOk(q)
  BY <1>1, <1>8 DEF TotalsOk
<1> QED
  BY <1>1, <1>3, <1>5, <1>9 DEF fe

\* What is below an entry is what its children lead to.
LEMMA ChildrenBelow ==
  ASSUME NEW p, Shape(p), NEW t \in DOMAIN p
  PROVE  CalculateDescendants(p, p[t].children) = Below(p, t)
<1> DEFINE D == CalculateDescendants(p, p[t].children)
           E == D \cup {t}
<1>1. p[t].children \in SUBSET DOMAIN p
  BY DEF Shape
<1>2. D \in SUBSET DOMAIN p /\ p[t].children \subseteq D /\ \A x \in D : p[x].children \subseteq D
  BY <1>1, Descendants
<1>3. ASSUME NEW x \in D PROVE t \in LinkedAncestors(p, x)
  <2>1. x \in DOMAIN p
    BY <1>2
  <2>2. \A s \in p[t].children : s \in DOMAIN p /\ t \in LinkedAncestors(p, s)
    <3> SUFFICES ASSUME NEW s \in p[t].children PROVE s \in DOMAIN p /\ t \in LinkedAncestors(p, s)
      OBVIOUS
    <3>1. s \in DOMAIN p /\ t \in p[s].parents
      BY <1>1 DEF Shape
    <3> QED
      BY <3>1, LinkedClosed
  <2>3. x \in p[t].children \/ \E s \in p[t].children : s \in LinkedAncestors(p, x)
    BY <1>1, <2>1, DescendantsAre
  <2>4. ASSUME NEW s \in p[t].children, s \in LinkedAncestors(p, x) PROVE t \in LinkedAncestors(p, x)
    BY <2>1, <2>2, <2>4, LinkedTrans
  <2> QED
    BY <2>2, <2>3, <2>4
<1>4. ASSUME NEW x \in DOMAIN p, t \in LinkedAncestors(p, x) PROVE x \in D
  <2>1. x # t
    BY <1>4, LinkedAcyclic
  <2> HIDE DEF D
  <2>2. ChildClosed(p, E)
    BY <1>2 DEF ChildClosed
  <2>3. x \notin E => LinkedAncestors(p, x) \cap E = {}
    <3> HIDE DEF E
    <3> QED
      BY <2>2, OutsideClosed
  <2> QED
    BY <1>4, <2>1, <2>3
<1> QED
  BY <1>2, <1>3, <1>4 DEF Below

\* The links by what the transactions spend: those from the transactions in todo
\* to others than those in held are missing.
LinksBy(p, todo, held) ==
    \A y \in DOMAIN p : p[y].parents = {x \in ParentsOf(p, y) : x \in todo => y \in held}

\* And the totals: those outside held do without the transactions in todo.
TotalsBy(p, todo, held) ==
    \A x \in DOMAIN p :
       /\ p[x].anc = Totals(p, (LinkedAncestors(p, x) \cup {x}) \ (IF x \in held THEN {} ELSE todo))
       /\ p[x].desc = Totals(p, (Below(p, x) \cap (IF x \in todo THEN held ELSE DOMAIN p)) \cup {x})

\* The transactions that came back spend from each other only.
HeldOk(p, held) == held \in SUBSET DOMAIN p /\ \A y \in held : ParentsOf(p, y) \subseteq held

\* UpdateTransactionsFromBlock for one transaction, field by field.
Kids(p, t, held) == {x \in DOMAIN p : t \in ParentsOf(p, x)} \ held
Updated(p, t, held, q) ==
    /\ DOMAIN q = DOMAIN p
    /\ \A x \in DOMAIN p :
          /\ DOMAIN q[x] = Fields
          /\ q[x].fee = p[x].fee
          /\ q[x].parents = IF x \in Kids(p, t, held) THEN p[x].parents \cup {t} ELSE p[x].parents
          /\ q[x].children = IF x = t THEN p[x].children \cup Kids(p, t, held) ELSE p[x].children
          /\ q[x].anc = IF x \in CalculateDescendants(q, q[t].children) \ held
                        THEN Plus(p[x].anc, Totals(p, {t})) ELSE p[x].anc
          /\ q[x].desc = IF x = t THEN Plus(p[x].desc, Totals(p, CalculateDescendants(q, q[t].children) \ held))
                         ELSE p[x].desc

LEMMA SameDescendants ==
  ASSUME NEW p, NEW q, DOMAIN q = DOMAIN p, \A x \in DOMAIN p : q[x].children = p[x].children, NEW S
  PROVE  CalculateDescendants(q, S) \subseteq CalculateDescendants(p, S)
<1> SUFFICES ASSUME NEW x \in CalculateDescendants(q, S), NEW C \in SUBSET DOMAIN p, S \subseteq C,
                    \A y \in C : p[y].children \subseteq C
             PROVE  x \in C
  BY DEF CalculateDescendants, Closure
<1>1. \A y \in C : q[y].children \subseteq C
  OBVIOUS
<1>2. CalculateDescendants(q, S) \subseteq C
  BY <1>1, DescendantsLeast
<1> QED
  BY <1>2

LEMMA UpdateFields ==
  ASSUME NEW p, Shape(p), NEW t \in DOMAIN p, NEW held
  PROVE  Updated(p, t, held, UpdateFromBlock(p, t, held))
<1> DEFINE kids == Kids(p, t, held)
           linked == [p EXCEPT ![t].children = @ \cup kids]
           below == CalculateDescendants(linked, linked[t].children) \ held
           self == [count |-> 1, size |-> Size[t], fees |-> p[t].fee]
           q == UpdateFromBlock(p, t, held)
           pa(x) == IF x \in kids THEN linked[x].parents \cup {t} ELSE linked[x].parents
           an(x) == IF x \in below THEN Plus(linked[x].anc, self) ELSE linked[x].anc
           de(x) == IF x = t THEN Plus(linked[x].desc, Totals(p, below)) ELSE linked[x].desc
<1>1. DOMAIN q = DOMAIN p
  BY DEF UpdateFromBlock
<1>2. ASSUME NEW x \in DOMAIN p PROVE q[x] = [linked[x] EXCEPT !.parents = pa(x), !.anc = an(x), !.desc = de(x)]
  BY DEF UpdateFromBlock, Kids
<1>3. DOMAIN linked = DOMAIN p
  OBVIOUS
<1>4. ASSUME NEW x \in DOMAIN p
      PROVE  /\ DOMAIN linked[x] = {"fee", "parents", "children", "anc", "desc"}
             /\ linked[x].fee = p[x].fee /\ linked[x].parents = p[x].parents
             /\ linked[x].anc = p[x].anc /\ linked[x].desc = p[x].desc
             /\ linked[x].children = IF x = t THEN p[x].children \cup kids ELSE p[x].children
  <2> HIDE DEF kids
  <2>1. DOMAIN p[x] = {"fee", "parents", "children", "anc", "desc"}
    BY DEF Fields, Shape
  <2>2. CASE x = t
    <3>1. linked[x] = [p[x] EXCEPT !.children = p[x].children \cup kids]
      BY <2>2
    <3> HIDE DEF linked
    <3> QED
      BY <2>1, <2>2, <3>1
  <2>3. CASE x # t
    <3>1. linked[x] = p[x]
      BY <2>3
    <3> HIDE DEF linked
    <3> QED
      BY <2>1, <2>3, <3>1
  <2> QED
    BY <2>2, <2>3
<1> HIDE DEF q, kids, linked, below, pa, an, de
<1>5. ASSUME NEW x \in DOMAIN p
      PROVE  /\ DOMAIN q[x] = Fields /\ q[x].fee = linked[x].fee /\ q[x].parents = pa(x)
             /\ q[x].children = linked[x].children /\ q[x].anc = an(x) /\ q[x].desc = de(x)
  <2>1. /\ q[x] = [linked[x] EXCEPT !.parents = pa(x), !.anc = an(x), !.desc = de(x)]
        /\ DOMAIN linked[x] = {"fee", "parents", "children", "anc", "desc"}
    BY <1>2, <1>4
  <2>2. DOMAIN q[x] = {"fee", "parents", "children", "anc", "desc"} /\ q[x].fee = linked[x].fee /\ q[x].parents = pa(x)
    BY <2>1
  <2>3. q[x].children = linked[x].children /\ q[x].anc = an(x) /\ q[x].desc = de(x)
    BY <2>1
  <2> QED
    BY <2>2, <2>3 DEF Fields
<1>6. below = CalculateDescendants(q, q[t].children) \ held
  <2>1. DOMAIN q = DOMAIN linked /\ DOMAIN linked = DOMAIN q
    BY <1>1, <1>3
  <2>2. \A x \in DOMAIN q : q[x].children = linked[x].children /\ linked[x].children = q[x].children
    BY <1>1, <1>5
  <2>3. q[t].children = linked[t].children
    BY <1>5
  <2>4. CalculateDescendants(q, q[t].children) \subseteq CalculateDescendants(linked, q[t].children)
    BY <2>1, <2>2, SameDescendants
  <2>5. CalculateDescendants(linked, q[t].children) \subseteq CalculateDescendants(q, q[t].children)
    BY <2>1, <2>2, SameDescendants
  <2> QED
    BY <2>3, <2>4, <2>5 DEF below
<1>7. Totals(p, {t}) = self
  BY TotalsOne DEF Shape
<1>8. ASSUME NEW x \in DOMAIN p
      PROVE  /\ q[x].parents = IF x \in kids THEN p[x].parents \cup {t} ELSE p[x].parents
             /\ q[x].children = IF x = t THEN p[x].children \cup kids ELSE p[x].children
             /\ q[x].anc = IF x \in below THEN Plus(p[x].anc, Totals(p, {t})) ELSE p[x].anc
             /\ q[x].desc = IF x = t THEN Plus(p[x].desc, Totals(p, below)) ELSE p[x].desc
             /\ DOMAIN q[x] = Fields /\ q[x].fee = p[x].fee
  <2> HIDE DEF self
  <2> QED
    BY ZenonT(40), <1>4, <1>5, <1>7 DEF pa, an, de
<1>9. Updated(p, t, held, q)
  BY <1>1, <1>6, <1>8 DEF Updated, kids
<1> QED
  BY <1>9 DEF q

LEMMA UpdateShape ==
  ASSUME NEW p, Shape(p), NEW t \in DOMAIN p, NEW held, t \in held, NEW q, Updated(p, t, held, q)
  PROVE  Shape(q)
<1> DEFINE kids == Kids(p, t, held)
<1>1. DOMAIN q = DOMAIN p
  BY DEF Updated
<1>2. \A x \in DOMAIN p :
         /\ DOMAIN q[x] = Fields /\ q[x].fee = p[x].fee
         /\ q[x].parents = IF x \in kids THEN p[x].parents \cup {t} ELSE p[x].parents
         /\ q[x].children = IF x = t THEN p[x].children \cup kids ELSE p[x].children
  BY DEF Updated
<1>3. FeesInt(q)
  BY <1>1, <1>2 DEF Shape, FeesInt
<1>4. \A x : ParentsOf(q, x) = ParentsOf(p, x)
  BY <1>1 DEF ParentsOf
<1>5. kids \subseteq DOMAIN p /\ \A x \in kids : t \in ParentsOf(p, x)
  BY DEF Kids
<1>6. ASSUME NEW x \in DOMAIN p, NEW y \in DOMAIN p
      PROVE  y \in q[x].children <=> x \in q[y].parents
  <2> HIDE DEF kids
  <2>1. y \in p[x].children <=> x \in p[y].parents
    BY DEF Shape
  <2>2. CASE x = t
    BY <1>2, <2>1, <2>2
  <2>3. CASE x # t
    BY <1>2, <2>1, <2>3
  <2> QED
    BY <2>2, <2>3
<1>7. ASSUME NEW x \in DOMAIN p
      PROVE  q[x].parents \subseteq ParentsOf(p, x) /\ q[x].children \subseteq DOMAIN p
  <2> HIDE DEF kids
  <2>1. p[x].parents \subseteq ParentsOf(p, x) /\ p[x].children \subseteq DOMAIN p
    BY DEF Shape
  <2>2. /\ q[x].parents = IF x \in kids THEN p[x].parents \cup {t} ELSE p[x].parents
        /\ q[x].children = IF x = t THEN p[x].children \cup kids ELSE p[x].children
    BY <1>2
  <2>3. q[x].parents \subseteq ParentsOf(p, x)
    <3>1. x \in kids => t \in ParentsOf(p, x)
      BY <1>5
    <3> QED
      BY <2>1, <2>2, <3>1
  <2>4. q[x].children \subseteq DOMAIN p
    BY <1>5, <2>1, <2>2
  <2> QED
    BY <2>3, <2>4
<1> QED
  BY <1>1, <1>2, <1>3, <1>4, <1>6, <1>7 DEF Shape

\* The ancestors before and after: those below the transaction get it, and its
\* ancestors with it.
LEMMA UpdateLinks ==
  ASSUME NEW p, Shape(p), NEW held, HeldOk(p, held), NEW t \in held, NEW q, Updated(p, t, held, q), Shape(q),
         NEW x \in DOMAIN p
  PROVE  /\ LinkedAncestors(p, x) \subseteq LinkedAncestors(q, x)
         /\ LinkedAncestors(q, x) \subseteq LinkedAncestors(p, x) \cup {t} \cup LinkedAncestors(p, t)
         /\ x \in held => LinkedAncestors(q, x) = LinkedAncestors(p, x)
<1> DEFINE kids == Kids(p, t, held)
           P(y) == LinkedAncestors(p, y)
           Q(y) == LinkedAncestors(q, y)
<1>1. DOMAIN q = DOMAIN p /\ t \in DOMAIN p
  BY DEF Updated, HeldOk
<1>2. \A y \in DOMAIN p : q[y].parents = IF y \in kids THEN p[y].parents \cup {t} ELSE p[y].parents
  BY DEF Updated
<1>3. kids \cap held = {}
  BY DEF Kids
<1>4. \A y \in DOMAIN p : P(y) \in SUBSET DOMAIN p /\ p[y].parents \subseteq P(y) /\ \A u \in P(y) : p[u].parents \subseteq P(y)
  BY LinkedClosed
<1>5. Q(x) \in SUBSET DOMAIN q /\ q[x].parents \subseteq Q(x) /\ \A u \in Q(x) : q[u].parents \subseteq Q(x)
  BY <1>1, LinkedClosed
<1> HIDE DEF kids
<1>6. P(x) \subseteq Q(x)
  <2> DEFINE C == Q(x)
  <2>1. C \in SUBSET DOMAIN p /\ q[x].parents \subseteq C /\ \A u \in C : q[u].parents \subseteq C
    BY <1>1, <1>5
  <2> HIDE DEF C
  <2>2. p[x].parents \subseteq C /\ \A u \in C : p[u].parents \subseteq C
    BY <1>2, <2>1
  <2>3. LinkedAncestors(p, x) \subseteq C
    BY <2>1, <2>2, LinkedLeast
  <2> QED
    BY <2>3 DEF C
<1>7. Q(x) \subseteq P(x) \cup {t} \cup P(t)
  <2> DEFINE C == P(x) \cup {t} \cup P(t)
  <2>1. t \notin kids
    BY <1>3
  <2>2. q[t].parents \subseteq P(t)
    BY <1>1, <1>2, <1>4, <2>1
  <2> HIDE DEF P
  <2>3. C \in SUBSET DOMAIN q /\ q[x].parents \subseteq C
    BY <1>1, <1>2, <1>4
  <2>4. ASSUME NEW u \in C PROVE q[u].parents \subseteq C
    <3>1. u \in DOMAIN p
      BY <1>1, <1>4
    <3>2. CASE u \in P(x)
      BY <1>2, <1>4, <3>1, <3>2
    <3>3. CASE u \in P(t)
      BY <1>1, <1>2, <1>4, <3>1, <3>3
    <3> QED
      BY <2>2, <3>2, <3>3
  <2> HIDE DEF C
  <2>5. LinkedAncestors(q, x) \subseteq C
    BY <2>3, <2>4, LinkedLeast
  <2> QED
    BY <2>5 DEF C
<1>8. ASSUME x \in held PROVE Q(x) \subseteq P(x)
  <2>1. \A y \in held : p[y].parents \subseteq held
    BY DEF Shape, HeldOk
  <2>2. held \in SUBSET DOMAIN p /\ p[x].parents \subseteq held
    BY <1>8, <2>1 DEF HeldOk
  <2>3. P(x) \subseteq held
    BY <2>1, <2>2, LinkedLeast
  <2> HIDE DEF P
  <2>4. P(x) \in SUBSET DOMAIN q /\ q[x].parents \subseteq P(x)
    BY <1>1, <1>2, <1>3, <1>4, <1>8
  <2>5. \A u \in P(x) : q[u].parents \subseteq P(x)
    BY <1>2, <1>3, <1>4, <2>2, <2>3
  <2>6. LinkedAncestors(q, x) \subseteq P(x)
    BY <2>4, <2>5, LinkedLeast
  <2> QED
    BY <2>6
<1> QED
  BY <1>6, <1>7, <1>8

LEMMA UpdateLinksBy ==
  ASSUME NEW p, Shape(p), NEW held, NEW todo, NEW t \in todo, t \in held, LinksBy(p, todo, held),
         NEW q, Updated(p, t, held, q)
  PROVE  LinksBy(q, todo \ {t}, held)
<1> DEFINE kids == Kids(p, t, held)
<1>1. DOMAIN q = DOMAIN p /\ \A x : ParentsOf(q, x) = ParentsOf(p, x)
  BY DEF Updated, ParentsOf
<1> SUFFICES ASSUME NEW y \in DOMAIN p
             PROVE  q[y].parents = {x \in ParentsOf(p, y) : x \in todo \ {t} => y \in held}
  BY <1>1 DEF LinksBy
<1>2. q[y].parents = IF y \in kids THEN p[y].parents \cup {t} ELSE p[y].parents
  BY DEF Updated
<1>3. p[y].parents = {x \in ParentsOf(p, y) : x \in todo => y \in held}
  BY DEF LinksBy
<1>4. y \in kids <=> t \in ParentsOf(p, y) /\ y \notin held
  BY DEF Kids
<1> HIDE DEF kids
<1>5. CASE y \in held
  BY <1>2, <1>3, <1>4, <1>5
<1>6. CASE y \notin held /\ t \in ParentsOf(p, y)
  BY <1>2, <1>3, <1>4, <1>6
<1>7. CASE y \notin held /\ t \notin ParentsOf(p, y)
  BY <1>2, <1>3, <1>4, <1>7
<1> QED
  BY <1>5, <1>6, <1>7

\* The totals: the transactions below get the newly linked one, and it gets them.
LEMMA UpdateTotalsBy ==
  ASSUME NEW p, Shape(p), NEW held, HeldOk(p, held), NEW todo \in SUBSET held, NEW t \in todo,
         LinkedAncestors(p, t) \subseteq todo, TotalsBy(p, todo, held),
         NEW q, Updated(p, t, held, q)
  PROVE  TotalsBy(q, todo \ {t}, held)
<1> DEFINE P(y) == LinkedAncestors(p, y)
           Q(y) == LinkedAncestors(q, y)
           below == Below(q, t) \ held
<1>1. DOMAIN q = DOMAIN p /\ t \in DOMAIN p /\ t \in held /\ held \in SUBSET DOMAIN p
  BY DEF Updated, HeldOk
<1>2. Shape(q)
  BY <1>1, UpdateShape
<1>3. FeesInt(p) /\ FeesInt(q)
  BY <1>2 DEF Shape
<1>4. ASSUME NEW x \in DOMAIN p
      PROVE  /\ P(x) \subseteq Q(x) /\ Q(x) \subseteq P(x) \cup {t} \cup P(t)
             /\ x \in held => Q(x) = P(x)
             /\ P(x) \in SUBSET DOMAIN p /\ Q(x) \in SUBSET DOMAIN p
  <2>1. /\ LinkedAncestors(p, x) \subseteq LinkedAncestors(q, x)
        /\ LinkedAncestors(q, x) \subseteq LinkedAncestors(p, x) \cup {t} \cup LinkedAncestors(p, t)
        /\ x \in held => LinkedAncestors(q, x) = LinkedAncestors(p, x)
    BY SMT, <1>1, <1>2, UpdateLinks
  <2>2. P(x) \in SUBSET DOMAIN p
    BY LinkedClosed
  <2>3. Q(x) \in SUBSET DOMAIN q
    BY <1>1, <1>2, LinkedClosed
  <2> QED
    BY <1>1, <2>1, <2>2, <2>3
<1>5. CalculateDescendants(q, q[t].children) = Below(q, t)
  BY <1>1, <1>2, ChildrenBelow
<1>6. ASSUME NEW x \in DOMAIN p
      PROVE  /\ q[x].fee = p[x].fee
             /\ q[x].anc = IF x \in below THEN Plus(p[x].anc, Totals(p, {t})) ELSE p[x].anc
             /\ q[x].desc = IF x = t THEN Plus(p[x].desc, Totals(p, below)) ELSE p[x].desc
  BY <1>5 DEF Updated
<1>7. ASSUME NEW S \in SUBSET DOMAIN p PROVE Totals(q, S) = Totals(p, S)
  <2>1. S \subseteq DOMAIN q /\ \A x \in S : q[x].fee = p[x].fee
    BY <1>1, <1>6
  <2> QED
    BY <1>3, <2>1, TotalsSame
<1>8. \A x : x \in below <=> x \in DOMAIN p /\ x \notin held /\ t \in Q(x)
  BY <1>1 DEF Below
<1>9. t \notin P(t) /\ P(t) \subseteq todo
  BY <1>1, LinkedAcyclic
<1> HIDE DEF P, Q, below
<1>10. ASSUME NEW x \in DOMAIN p
       PROVE  q[x].anc = Totals(q, (Q(x) \cup {x}) \ (IF x \in held THEN {} ELSE todo \ {t}))
  <2>1. CASE x \in held
    <3> DEFINE E == Q(x) \cup {x}
    <3>1. E \in SUBSET DOMAIN p /\ x \notin below /\ E = P(x) \cup {x} /\ E \ {} = E
      BY <1>4, <1>8, <2>1
    <3>2. p[x].anc = Totals(p, (P(x) \cup {x}) \ {})
      BY <2>1 DEF TotalsBy, P
    <3> HIDE DEF E
    <3>3. q[x].anc = Totals(q, E)
      BY <1>6, <1>7, <3>1, <3>2
    <3> QED
      BY <2>1, <3>1, <3>3 DEF E
  <2>2. CASE x \notin held
    <3> DEFINE E == (P(x) \cup {x}) \ todo
               F == (Q(x) \cup {x}) \ (todo \ {t})
    <3>1. p[x].anc = Totals(p, E)
      BY <2>2 DEF TotalsBy, P
    <3>2. x # t /\ t \notin E /\ E \in SUBSET DOMAIN p /\ F \in SUBSET DOMAIN p
      BY <1>1, <1>4, <2>2
    <3>3. CASE t \in Q(x)
      <4>1. F = E \cup {t}
        BY <1>4, <1>9, <3>2, <3>3
      <4>2. x \in below
        BY <1>8, <2>2, <3>3
      <4> HIDE DEF E, F
      <4>3. Totals(p, E \cup {t}) = Plus(Totals(p, E), Totals(p, {t}))
        <5>1. {t} \in SUBSET DOMAIN p /\ E \cap {t} = {}
          BY <1>1, <3>2
        <5> QED
          BY <1>3, <3>2, <5>1, TotalsUnion
      <4>4. q[x].anc = Totals(q, F)
        BY <1>6, <1>7, <3>1, <3>2, <4>1, <4>2, <4>3
      <4> QED
        BY <2>2, <4>4 DEF F
    <3>4. CASE t \notin Q(x)
      <4>1. F = E
        BY <1>4, <1>9, <3>2, <3>4
      <4>2. x \notin below
        BY <1>8, <3>4
      <4> HIDE DEF E, F
      <4>3. q[x].anc = Totals(q, F)
        BY <1>6, <1>7, <3>1, <3>2, <4>1, <4>2
      <4> QED
        BY <2>2, <4>3 DEF F
    <3> QED
      BY <3>3, <3>4
  <2> QED
    BY <2>1, <2>2
<1>11. ASSUME NEW x \in DOMAIN p
       PROVE  q[x].desc = Totals(q, (Below(q, x) \cap (IF x \in todo \ {t} THEN held ELSE DOMAIN q)) \cup {x})
  <2>1. /\ \A y : y \in Below(p, x) <=> y \in DOMAIN p /\ x \in P(y)
        /\ \A y : y \in Below(q, x) <=> y \in DOMAIN p /\ x \in Q(y)
    BY <1>1 DEF Below, P, Q
  <2>2. CASE x = t
    <3> DEFINE B == (Below(p, t) \cap held) \cup {t}
               F == (Below(q, t) \cap DOMAIN q) \cup {t}
    <3>1. p[t].desc = Totals(p, B)
      BY <1>1 DEF TotalsBy
    <3>2. B \in SUBSET DOMAIN p /\ below \in SUBSET DOMAIN p /\ B \cap below = {}
      BY <1>1, <1>8
    <3>3. B \cup below = F
      BY <1>1, <1>4, <1>8, <2>1, <2>2
    <3> HIDE DEF B, F
    <3>4. Totals(p, B \cup below) = Plus(Totals(p, B), Totals(p, below))
      BY <1>3, <3>2, TotalsUnion
    <3>5. q[t].desc = Totals(q, F)
      <4>1. F \in SUBSET DOMAIN p
        BY <3>2, <3>3
      <4> QED
        BY <1>1, <1>6, <1>7, <3>1, <3>3, <3>4, <4>1
    <3> QED
      BY <2>2, <3>5 DEF F
  <2>3. CASE x # t /\ x \in todo
    <3> DEFINE B == (Below(p, x) \cap held) \cup {x}
               F == (Below(q, x) \cap held) \cup {x}
    <3>1. p[x].desc = Totals(p, B)
      BY <2>3 DEF TotalsBy
    <3>2. B = F /\ F \in SUBSET DOMAIN p
      <4>1. \A y \in held : x \in Q(y) <=> x \in P(y)
        BY <1>1, <1>4
      <4> QED
        BY <1>1, <2>1, <4>1
    <3> HIDE DEF B, F
    <3>3. q[x].desc = Totals(q, F)
      BY <1>6, <1>7, <2>3, <3>1, <3>2
    <3> QED
      BY <2>3, <3>3 DEF F
  <2>4. CASE x # t /\ x \notin todo
    <3> DEFINE B == (Below(p, x) \cap DOMAIN p) \cup {x}
               F == (Below(q, x) \cap DOMAIN q) \cup {x}
    <3>1. p[x].desc = Totals(p, B)
      BY <2>4 DEF TotalsBy
    <3>2. \A y \in DOMAIN p : x \in Q(y) <=> x \in P(y)
      BY <1>4, <1>9, <2>4
    <3>3. B = F /\ F \in SUBSET DOMAIN p
      BY <1>1, <2>1, <3>2
    <3> HIDE DEF B, F
    <3>4. q[x].desc = Totals(q, F)
      BY <1>6, <1>7, <2>4, <3>1, <3>3
    <3> QED
      BY <2>4, <3>4 DEF F
  <2> QED
    BY <2>2, <2>3, <2>4
<1> QED
  BY <1>1, <1>10, <1>11 DEF TotalsBy, Q

LEMMA NumberInduction ==
  ASSUME NEW S, 0 \in S, \A n \in Nat : n \in S => n + 1 \in S
  PROVE  \A n \in Nat : n \in S
<1> SUFFICES ASSUME Nat \ S # {} PROVE FALSE
  OBVIOUS
<1>1. PICK n \in Nat \ S : \A m \in Nat \ S : n <= m
  BY LeastNumber
<1>2. n # 0
  BY <1>1
<1>3. n - 1 \in Nat /\ ~(n <= n - 1) /\ (n - 1) + 1 = n
  BY SMT, <1>2
<1> QED
  BY <1>1, <1>3

\* The loop of UpdateTransactionsFromBlock as a function of the number of transactions seen.
LEMMA UpdateLoop ==
  ASSUME NEW p, NEW hashes, Len(hashes) \in Nat
  PROVE  \E w : /\ w = [n \in 0 .. Len(hashes) |-> IF n = 0 THEN p ELSE UpdateFromBlock(w[n - 1], hashes[Len(hashes) + 1 - n], Range(hashes))]
                /\ UpdateTransactionsFromBlock(p, hashes) = w[Len(hashes)]
<1> DEFINE Sol(k, w) == w = [n \in 0 .. k |-> IF n = 0 THEN p ELSE UpdateFromBlock(w[n - 1], hashes[Len(hashes) + 1 - n], Range(hashes))]
           S == {k \in Nat : \E w : Sol(k, w)}
<1>1. 0 \in S
  <2> DEFINE w == [n \in 0 .. 0 |-> p]
  <2>1. \A n \in 0 .. 0 : n = 0
    BY SMT
  <2>2. Sol(0, w)
    BY <2>1
  <2> QED
    BY <2>2
<1>2. ASSUME NEW k \in Nat, k \in S PROVE k + 1 \in S
  <2>1. PICK w : Sol(k, w)
    BY <1>2
  <2> DEFINE g == [n \in 0 .. k + 1 |-> IF n = k + 1 THEN UpdateFromBlock(w[k], hashes[Len(hashes) + 1 - (k + 1)], Range(hashes)) ELSE w[n]]
  <2>2. ASSUME NEW n \in 0 .. k + 1
        PROVE  g[n] = IF n = 0 THEN p ELSE UpdateFromBlock(g[n - 1], hashes[Len(hashes) + 1 - n], Range(hashes))
    <3>1. CASE n = k + 1
      <4>1. n # 0 /\ n - 1 = k /\ k \in 0 .. k + 1 /\ k # k + 1
        BY SMT, <3>1
      <4> QED
        BY <3>1, <4>1
    <3>2. CASE n # k + 1
      <4>1. n \in 0 .. k /\ (n # 0 => n - 1 \in 0 .. k + 1 /\ n - 1 # k + 1)
        BY SMT, <3>2
      <4>2. w[n] = IF n = 0 THEN p ELSE UpdateFromBlock(w[n - 1], hashes[Len(hashes) + 1 - n], Range(hashes))
        BY <2>1, <4>1
      <4>3. g[n] = w[n] /\ (n # 0 => g[n - 1] = w[n - 1])
        BY <3>2, <4>1
      <4> QED
        BY <4>2, <4>3
    <3> QED
      BY <3>1, <3>2
  <2>3. Sol(k + 1, g)
    <3> DEFINE h == [n \in 0 .. k + 1 |-> IF n = 0 THEN p ELSE UpdateFromBlock(g[n - 1], hashes[Len(hashes) + 1 - n], Range(hashes))]
    <3>1. \A n \in 0 .. k + 1 : g[n] = h[n]
      BY <2>2
    <3> QED
      BY <3>1
  <2>4. k + 1 \in Nat
    BY SMT
  <2> QED
    BY <2>3, <2>4
<1>3. Len(hashes) \in S
  <2> HIDE DEF S
  <2> QED
    BY <1>1, <1>2, NumberInduction
<1> DEFINE done == CHOOSE w : Sol(Len(hashes), w)
<1>4. Sol(Len(hashes), done)
  BY <1>3
<1>5. UpdateTransactionsFromBlock(p, hashes) = done[Len(hashes)]
  BY DEF UpdateTransactionsFromBlock
<1> QED
  BY <1>4, <1>5


\* The loop of removeForBlock as a function of the number of transactions seen.
LEMMA RemoveLoop ==
  ASSUME NEW b, Len(b.vtx) \in Nat
  PROVE  \E w : /\ w = [n \in 0 .. Len(b.vtx) |-> IF n = 0 THEN [pool |-> pool, deltas |-> mapDeltas] ELSE Confirm(w[n - 1], b.vtx[n])]
                /\ RemoveForBlock(b) = w[Len(b.vtx)]
<1> DEFINE Sol(k, w) == w = [n \in 0 .. k |-> IF n = 0 THEN [pool |-> pool, deltas |-> mapDeltas] ELSE Confirm(w[n - 1], b.vtx[n])]
           S == {k \in Nat : \E w : Sol(k, w)}
<1>1. 0 \in S
  <2> DEFINE w == [n \in 0 .. 0 |-> [pool |-> pool, deltas |-> mapDeltas]]
  <2>1. \A n \in 0 .. 0 : n = 0
    BY SMT
  <2>2. Sol(0, w)
    BY <2>1
  <2> QED
    BY <2>2
<1>2. ASSUME NEW k \in Nat, k \in S PROVE k + 1 \in S
  <2>1. PICK w : Sol(k, w)
    BY <1>2
  <2> DEFINE g == [n \in 0 .. k + 1 |-> IF n = k + 1 THEN Confirm(w[k], b.vtx[(k + 1)]) ELSE w[n]]
  <2>2. ASSUME NEW n \in 0 .. k + 1
        PROVE  g[n] = IF n = 0 THEN [pool |-> pool, deltas |-> mapDeltas] ELSE Confirm(g[n - 1], b.vtx[n])
    <3>1. CASE n = k + 1
      <4>1. n # 0 /\ n - 1 = k /\ k \in 0 .. k + 1 /\ k # k + 1
        BY SMT, <3>1
      <4> QED
        BY <3>1, <4>1
    <3>2. CASE n # k + 1
      <4>1. n \in 0 .. k /\ (n # 0 => n - 1 \in 0 .. k + 1 /\ n - 1 # k + 1)
        BY SMT, <3>2
      <4>2. w[n] = IF n = 0 THEN [pool |-> pool, deltas |-> mapDeltas] ELSE Confirm(w[n - 1], b.vtx[n])
        BY <2>1, <4>1
      <4>3. g[n] = w[n] /\ (n # 0 => g[n - 1] = w[n - 1])
        BY <3>2, <4>1
      <4> QED
        BY <4>2, <4>3
    <3> QED
      BY <3>1, <3>2
  <2>3. Sol(k + 1, g)
    <3> DEFINE h == [n \in 0 .. k + 1 |-> IF n = 0 THEN [pool |-> pool, deltas |-> mapDeltas] ELSE Confirm(g[n - 1], b.vtx[n])]
    <3>1. \A n \in 0 .. k + 1 : g[n] = h[n]
      BY <2>2
    <3> QED
      BY <3>1
  <2>4. k + 1 \in Nat
    BY SMT
  <2> QED
    BY <2>3, <2>4
<1>3. Len(b.vtx) \in S
  <2> HIDE DEF S
  <2> QED
    BY <1>1, <1>2, NumberInduction
<1> DEFINE done == CHOOSE w : Sol(Len(b.vtx), w)
<1>4. Sol(Len(b.vtx), done)
  BY <1>3
<1>5. RemoveForBlock(b) = done[Len(b.vtx)]
  BY DEF RemoveForBlock
<1> QED
  BY <1>4, <1>5

LEMMA SeqLen ==
  ASSUME NEW S, NEW s \in Seq(S)
  PROVE  /\ Len(s) \in Nat
         /\ DOMAIN s = 1 .. Len(s)
         /\ s = <<>> <=> Len(s) = 0
         /\ \A k \in 1 .. Len(s) : s[k] \in S
  BY SMT

\* Each transaction that came back spends from those before it only.
InOrder(p, hashes) ==
    /\ \A j, k \in DOMAIN hashes : hashes[j] = hashes[k] => j = k
    /\ \A k \in DOMAIN hashes : hashes[k] \in DOMAIN p /\ ParentsOf(p, hashes[k]) \subseteq {hashes[j] : j \in 1 .. k - 1}

\* After UpdateTransactionsFromBlock no link and no total is missing.
LEMMA UpdateAllOk ==
  ASSUME NEW p, Shape(p), NEW hashes \in Seq(Tx), InOrder(p, hashes),
         LinksBy(p, Range(hashes), Range(hashes)), TotalsBy(p, Range(hashes), Range(hashes)),
         NEW q, q = UpdateTransactionsFromBlock(p, hashes)
  PROVE  /\ Shape(q) /\ DOMAIN q = DOMAIN p /\ \A x \in DOMAIN p : q[x].fee = p[x].fee
         /\ LinksBy(q, {}, Range(hashes)) /\ TotalsBy(q, {}, Range(hashes))
<1> DEFINE L == Len(hashes)
           held == Range(hashes)
           Todo(n) == {hashes[j] : j \in 1 .. L - n}
<1>1. L \in Nat /\ DOMAIN hashes = 1 .. L
  BY SeqLen
<1>2. PICK w : /\ w = [n \in 0 .. L |-> IF n = 0 THEN p ELSE UpdateFromBlock(w[n - 1], hashes[L + 1 - n], held)]
               /\ q = w[L]
  BY <1>1, UpdateLoop
<1> HIDE DEF L
<1>3. /\ 0 \in 0 .. L /\ L \in 0 .. L /\ L - 0 = L
      /\ \A n \in Nat : n + 1 \in 0 .. L =>
           /\ n \in 0 .. L /\ (n + 1) - 1 = n /\ n + 1 # 0 /\ L + 1 - (n + 1) = L - n /\ L - n \in 1 .. L
           /\ \A j \in 1 .. L : j \in 1 .. (L - (n + 1)) <=> j \in 1 .. (L - n) /\ j # L - n
           /\ 1 .. (L - n) - 1 = 1 .. (L - (n + 1)) /\ L - n \in 1 .. (L - n)
           /\ \A j \in 1 .. L - n : j \in 1 .. L
  BY SMT, <1>1
<1>4. w[0] = p /\ \A n \in Nat : n + 1 \in 0 .. L => w[n + 1] = UpdateFromBlock(w[n], hashes[L - n], held)
  <2>1. \A m \in 0 .. L : w[m] = IF m = 0 THEN p ELSE UpdateFromBlock(w[m - 1], hashes[L + 1 - m], held)
    BY <1>2
  <2>2. w[0] = p
    BY <1>3, <2>1
  <2>3. ASSUME NEW n \in Nat, n + 1 \in 0 .. L PROVE w[n + 1] = UpdateFromBlock(w[n], hashes[L - n], held)
    <3>1. (n + 1) - 1 = n /\ n + 1 # 0 /\ L + 1 - (n + 1) = L - n
      BY <1>3, <2>3
    <3> HIDE DEF held
    <3>2. w[n + 1] = UpdateFromBlock(w[(n + 1) - 1], hashes[L + 1 - (n + 1)], held)
      BY <2>1, <2>3, <3>1
    <3> QED
      BY <3>1, <3>2
  <2> QED
    BY <2>2, <2>3
<1>5. held = Todo(0)
  BY <1>1, <1>3 DEF Range
<1>6. Todo(L) = {}
  <2>1. 1 .. L - L = {}
    BY SMT, <1>1
  <2> QED
    BY <2>1
<1> DEFINE Ok(n) == /\ Shape(w[n]) /\ DOMAIN w[n] = DOMAIN p /\ \A x \in DOMAIN p : w[n][x].fee = p[x].fee
                    /\ LinksBy(w[n], Todo(n), held) /\ TotalsBy(w[n], Todo(n), held)
           S == {n \in Nat : n \in 0 .. L => Ok(n)}
<1>7. 0 \in S
  <2>1. 0 \in Nat
    BY SMT
  <2> HIDE DEF held, Todo
  <2> QED
    BY <1>4, <1>5, <2>1 DEF held
<1>8. ASSUME NEW n \in Nat, n \in S PROVE n + 1 \in S
  <2>1. n + 1 \in Nat
    BY SMT
  <2>2. ASSUME n + 1 \in 0 .. L PROVE Ok(n + 1)
    <3> DEFINE v == w[n]
               u == w[n + 1]
               t == hashes[L - n]
               todo == Todo(n)
               rest == Todo(n + 1)
    <3>1. n \in 0 .. L /\ L - n \in 1 .. L /\ L - n \in 1 .. (L - n)
      BY <1>3, <2>2
    <3>2. Ok(n)
      BY <1>8, <3>1
    <3>3. /\ Shape(v) /\ DOMAIN v = DOMAIN p /\ \A x \in DOMAIN p : v[x].fee = p[x].fee
          /\ LinksBy(v, todo, held) /\ TotalsBy(v, todo, held)
      BY <3>2
    <3>4. u = UpdateFromBlock(v, t, held)
      BY <1>4, <2>2
    <3>5. t \in todo /\ todo \in SUBSET held /\ rest = todo \ {t} /\ t \in held
      <4>1. t \in todo
        BY <3>1
      <4>2. todo \in SUBSET held
        <5>1. \A j \in 1 .. L - n : j \in DOMAIN hashes
          BY <1>1, <1>3, <2>2
        <5> QED
          BY <5>1 DEF Range
      <4>3. rest = todo \ {t}
        <5>1. \A j \in 1 .. L : hashes[j] = hashes[L - n] => j = L - n
          BY <1>1, <3>1 DEF InOrder
        <5>2. /\ \A j \in 1 .. L : j \in 1 .. (L - (n + 1)) <=> j \in 1 .. (L - n) /\ j # L - n
              /\ \A j \in 1 .. L - n : j \in 1 .. L
          BY <1>3, <2>2
        <5>3. \A j \in 1 .. (L - (n + 1)) : j \in 1 .. L
          BY SMT, <1>1
        <5> QED
          BY <5>1, <5>2, <5>3
      <4> QED
        BY <4>1, <4>2, <4>3
    <3>6. \A k \in 1 .. L : hashes[k] \in DOMAIN v /\ ParentsOf(v, hashes[k]) \subseteq {hashes[j] : j \in 1 .. k - 1}
      <4>1. \A x : ParentsOf(v, x) = ParentsOf(p, x)
        BY <3>3 DEF ParentsOf
      <4> QED
        BY <1>1, <3>3, <4>1 DEF InOrder
    <3>7. HeldOk(v, held)
      <4>1. \A k \in 1 .. L : {hashes[j] : j \in 1 .. k - 1} \subseteq held
        <5>1. \A k \in 1 .. L : \A j \in 1 .. k - 1 : j \in 1 .. L
          BY SMT, <1>1
        <5> QED
          BY <1>1, <5>1 DEF Range
      <4> QED
        BY <1>1, <3>6, <4>1 DEF HeldOk, Range
    <3>8. LinkedAncestors(v, t) \subseteq rest
      <4>1. ASSUME NEW k \in 1 .. (L - n) PROVE v[hashes[k]].parents \subseteq rest
        <5>1. k \in 1 .. L /\ \A j \in 1 .. k - 1 : j \in 1 .. (L - (n + 1))
          BY SMT, <1>1, <4>1
        <5>2. v[hashes[k]].parents \subseteq ParentsOf(v, hashes[k])
          BY <3>3, <3>6, <5>1 DEF Shape
        <5>3. ParentsOf(v, hashes[k]) \subseteq {hashes[j] : j \in 1 .. k - 1}
          BY <3>6, <5>1
        <5>4. {hashes[j] : j \in 1 .. k - 1} \subseteq rest
          BY <5>1
        <5> QED
          BY <5>2, <5>3, <5>4
      <4>2. \A x \in rest : v[x].parents \subseteq rest
        <5>1. \A j \in 1 .. (L - (n + 1)) : j \in 1 .. (L - n)
          BY SMT, <1>1
        <5> HIDE DEF v
        <5> QED
          BY <4>1, <5>1
      <4>3. v[t].parents \subseteq rest
        BY <3>1, <4>1
      <4>4. rest \in SUBSET DOMAIN v
        BY <3>5, <3>7 DEF HeldOk
      <4> HIDE DEF rest, v, t
      <4> QED
        BY <4>2, <4>3, <4>4, LinkedLeast
    <3> HIDE DEF v, u, t, todo, rest, held
    <3>9. LinkedAncestors(v, t) \subseteq todo
      BY <3>5, <3>8
    <3>10. t \in DOMAIN v
      BY <3>5, <3>7 DEF HeldOk
    <3>11. Updated(v, t, held, u)
      BY <3>3, <3>4, <3>10, UpdateFields
    <3>12. Shape(u)
      BY <3>3, <3>5, <3>10, <3>11, UpdateShape
    <3>13. LinksBy(u, rest, held)
      BY <3>3, <3>5, <3>11, UpdateLinksBy
    <3>14. TotalsBy(u, rest, held)
      BY <3>3, <3>5, <3>7, <3>9, <3>11, UpdateTotalsBy
    <3>15. DOMAIN u = DOMAIN p /\ \A x \in DOMAIN p : u[x].fee = p[x].fee
      BY <3>3, <3>11 DEF Updated
    <3> QED
      BY <3>12, <3>13, <3>14, <3>15 DEF u, rest
  <2> QED
    BY <2>1, <2>2
<1>9. L \in S
  <2> HIDE DEF S
  <2> QED
    BY <1>1, <1>7, <1>8, NumberInduction
<1>10. Ok(L)
  <2> HIDE DEF Ok
  <2> QED
    BY <1>3, <1>9
<1> HIDE DEF Todo
<1> QED
  BY <1>2, <1>6, <1>10

-----------------------------------------------------------------------------
(* What the operations keep.                                               *)

Outputs(C) == UNION {Vin[c] : c \in C}

\* A pool above the confirmed transactions C, with the outputs S spent. Transactions of
\* V are in neither, and links from those of held to what spends them are missing.
Good(p, deltas, C, S, V, held) ==
    /\ Shape(p) /\ TotalsOk(p) /\ LinksBy(p, held, held)
    /\ \A x \in DOMAIN p : p[x].fee = Fee[x] + deltas[x]
    /\ \A x \in DOMAIN p : x \notin C /\ x \notin CoinBase
    /\ \A x, y \in DOMAIN p : Vin[x] \cap Vin[y] # {} => x = y
    /\ \A x \in DOMAIN p : \A i \in Vin[x] :
          i[1] \in DOMAIN p \/ ((i \in Base \/ i[1] \in C) /\ i \notin S) \/ i[1] \in V

\* Nothing but D is gone, and no parents of what stays.
Kept(p, D, q) == DOMAIN q = DOMAIN p \ D /\ \A x \in DOMAIN q : ParentsOf(q, x) = ParentsOf(p, x)

\* Whatever is removed with its descendants leaves no entry without its parents.
LEMMA DownGood ==
  ASSUME NEW p, NEW deltas, NEW C, NEW S, NEW V, NEW held, Good(p, deltas, C, S, V, held),
         NEW D, ChildClosed(p, D), D \cap held = {}, NEW q, q = RemoveStaged(p, D, FALSE)
  PROVE  Good(q, deltas, C, S, V, held) /\ Kept(p, D, q)
<1>1. Shape(p) /\ TotalsOk(p)
  BY DEF Good
<1>2. Cut(p, D, q) /\ SameAnc(p, q)
  BY <1>1, RemoveStagedFields DEF Down
<1>3. Shape(q)
  BY <1>1, <1>2, RemoveShape
<1>4. TotalsOk(q)
  BY <1>1, <1>2, RemoveDownTotals DEF SameAnc
<1>5. DOMAIN q = DOMAIN p \ D
  BY <1>2 DEF Cut
<1>6. ASSUME NEW x \in DOMAIN q PROVE ParentsOf(p, x) \cap D = {}
  <2> SUFFICES ASSUME NEW u \in ParentsOf(p, x), u \in D PROVE FALSE
    OBVIOUS
  <2>1. x \in DOMAIN p /\ x \notin D /\ u \in DOMAIN p /\ u \notin held
    BY <1>5, <1>6 DEF ParentsOf
  <2>2. u \in p[x].parents
    BY <2>1 DEF Good, LinksBy
  <2>3. x \in p[u].children
    BY <1>1, <2>1, <2>2 DEF Shape
  <2> QED
    BY <2>1, <2>3 DEF ChildClosed
<1>7. ASSUME NEW x \in DOMAIN q PROVE ParentsOf(q, x) = ParentsOf(p, x)
  BY <1>5, <1>6, <1>7 DEF ParentsOf
<1>8. LinksBy(q, held, held)
  <2> SUFFICES ASSUME NEW y \in DOMAIN q PROVE q[y].parents = {x \in ParentsOf(q, y) : x \in held => y \in held}
    BY DEF LinksBy
  <2>1. y \in DOMAIN p
    BY <1>5
  <2>2. p[y].parents = {x \in ParentsOf(p, y) : x \in held => y \in held}
    BY <2>1 DEF Good, LinksBy
  <2>3. q[y].parents = p[y].parents \ D
    BY <1>2 DEF Cut
  <2> QED
    BY <1>6, <1>7, <2>2, <2>3
<1>9. ASSUME NEW x \in DOMAIN q PROVE q[x].fee = Fee[x] + deltas[x]
  <2>1. x \in DOMAIN p
    BY <1>5, <1>9
  <2> QED
    BY <1>2, <1>9, <2>1 DEF Good, Cut
<1>10. ASSUME NEW x \in DOMAIN q PROVE x \notin C /\ x \notin CoinBase
  BY <1>5, <1>10 DEF Good
<1>11. ASSUME NEW x \in DOMAIN q, NEW y \in DOMAIN q, Vin[x] \cap Vin[y] # {} PROVE x = y
  BY <1>5, <1>11 DEF Good
<1>12. ASSUME NEW x \in DOMAIN q, NEW i \in Vin[x]
       PROVE  i[1] \in DOMAIN q \/ ((i \in Base \/ i[1] \in C) /\ i \notin S) \/ i[1] \in V
  <2>1. i[1] \in DOMAIN p \/ ((i \in Base \/ i[1] \in C) /\ i \notin S) \/ i[1] \in V
    BY <1>5, <1>12 DEF Good
  <2>2. ASSUME i[1] \in DOMAIN p PROVE i[1] \in DOMAIN q
    <3>1. i[1] \in ParentsOf(p, x)
      BY <1>12, <2>2 DEF ParentsOf
    <3>2. i[1] \in ParentsOf(q, x)
      BY <1>7, <1>12, <3>1
    <3> QED
      BY <3>2 DEF ParentsOf
  <2> QED
    BY <2>1, <2>2
<1>13. Good(q, deltas, C, S, V, held)
  BY <1>3, <1>4, <1>8, <1>9, <1>10, <1>11, <1>12 DEF Good
<1> QED
  BY <1>5, <1>7, <1>13 DEF Kept

LEMMA NoSelfParent ==
  ASSUME NEW t \in Tx
  PROVE  \A i \in Vin[t] : i[1] # t
<1>1. {t} \in (SUBSET Tx) \ {{}}
  OBVIOUS
<1>2. \E u \in {t} : \A i \in Vin[u] : i[1] \notin {t}
  BY <1>1, TxAssumption
<1> QED
  BY <1>2

\* The transaction has its inputs, and only links that may be missing are.
Fits(t, C, S, held, held2) ==
    /\ \A i \in Vin[t] : i[1] \in DOMAIN pool \/ ((i \in Base \/ i[1] \in C) /\ i \notin S)
    /\ Replaced(t) \cap held = {}
    /\ held2 = held \cup {t} \/ (held = {} /\ held2 = {})
    /\ \A y \in DOMAIN pool : \A i \in Vin[y] : i[1] = t => t \in held2 /\ y \notin held2

\* A transaction that is accepted brings nothing that is missing or spent twice.
MayEnter(t, C, S, V, held, held2) ==
    /\ Good(pool, mapDeltas, C, S, V, held) /\ mapDeltas \in [Tx -> Int]
    /\ t \in Tx \ DOMAIN pool /\ t \notin CoinBase /\ t \notin C
    /\ NewAncestors(pool, t) \cap Conflicts(t) = {} /\ Fits(t, C, S, held, held2)
Entered(q, t, C, S, V, held2) ==
    /\ Good(q, mapDeltas, C, S, V \ {t}, held2)
    /\ DOMAIN q = (DOMAIN pool \ Replaced(t)) \cup {t}
    /\ \A x \in DOMAIN pool \ Replaced(t) : ParentsOf(pool, x) \cap Replaced(t) = {}
    /\ ParentsOf(pool, t) \cap Replaced(t) = {}

LEMMA AcceptGood ==
  ASSUME NEW t, NEW C, NEW S, NEW V, NEW held, NEW held2, MayEnter(t, C, S, V, held, held2), NEW q, q = Accepted(t)
  PROVE  Entered(q, t, C, S, V, held2)
<1> SUFFICES ASSUME Good(pool, mapDeltas, C, S, V, held), mapDeltas \in [Tx -> Int],
                    t \in Tx \ DOMAIN pool, t \notin CoinBase, t \notin C,
                    NewAncestors(pool, t) \cap Conflicts(t) = {}, Fits(t, C, S, held, held2)
             PROVE  Entered(q, t, C, S, V, held2)
  BY DEF MayEnter
<1> DEFINE R == Replaced(t)
<1>1. Shape(pool) /\ TotalsOk(pool)
  BY DEF Good
<1>2. /\ Shape(q) /\ TotalsOk(q)
      /\ DOMAIN q = (DOMAIN pool \ R) \cup {t}
      /\ ChildClosed(pool, R) /\ Conflicts(t) \subseteq R
      /\ ParentsOf(pool, t) \cap R = {}
      /\ q[t].parents = ParentsOf(pool, t) /\ q[t].fee = Fee[t] + mapDeltas[t]
      /\ \A x \in DOMAIN pool \ R : q[x].parents = pool[x].parents /\ q[x].fee = pool[x].fee
  <2>1. Shape(pool) /\ TotalsOk(pool) /\ mapDeltas \in [Tx -> Int] /\ NewAncestors(pool, t) \cap Conflicts(t) = {}
    BY <1>1
  <2>2. AcceptedIs(t, q)
    BY <2>1, AcceptedOk
  <2> QED
    BY <2>2 DEF AcceptedIs
<1> HIDE DEF R
<1>3. \A x \in DOMAIN pool \ R : ParentsOf(pool, x) \cap R = {}
  <2> DEFINE q0 == RemoveStaged(pool, R, FALSE)
  <2>1. R \cap held = {}
    BY DEF R, Fits
  <2>2. DOMAIN q0 = DOMAIN pool \ R /\ \A x \in DOMAIN q0 : ParentsOf(q0, x) = ParentsOf(pool, x)
    <3> HIDE DEF q0
    <3>1. q0 = RemoveStaged(pool, R, FALSE)
      BY DEF q0
    <3>2. Good(pool, mapDeltas, C, S, V, held) /\ ChildClosed(pool, R)
      BY <1>2
    <3>3. Kept(pool, R, q0)
      BY <2>1, <3>1, <3>2, DownGood
    <3> QED
      BY <3>3 DEF Kept
  <2> HIDE DEF q0
  <2> QED
    BY <2>2 DEF ParentsOf
<1>4. \A i \in Vin[t] : i[1] # t
  BY NoSelfParent
<1>5. LinksBy(q, held2, held2)
  <2> SUFFICES ASSUME NEW y \in DOMAIN q PROVE q[y].parents = {x \in ParentsOf(q, y) : x \in held2 => y \in held2}
    BY DEF LinksBy
  <2>1. CASE y = t
    <3>1. ASSUME NEW x PROVE x \in ParentsOf(q, t) <=> x \in ParentsOf(pool, t)
      <4>1. x \in ParentsOf(pool, t) => x \in DOMAIN q
        BY <1>2 DEF ParentsOf
      <4>2. x \in ParentsOf(q, t) => x \in DOMAIN pool
        <5>1. x \in DOMAIN q => x \in DOMAIN pool \/ x = t
          BY <1>2
        <5> QED
          BY <1>4, <5>1 DEF ParentsOf
      <4> QED
        BY <4>1, <4>2 DEF ParentsOf
    <3>2. \A x : x \in held2 => t \in held2
      BY DEF Fits
    <3> QED
      BY <1>2, <2>1, <3>1, <3>2
  <2>2. CASE y # t
    <3>1. y \in DOMAIN pool \ R
      BY <1>2, <2>2
    <3>2. q[y].parents = {x \in ParentsOf(pool, y) : x \in held => y \in held}
      BY <1>2, <3>1 DEF Good, LinksBy
    <3>3. ASSUME NEW x PROVE x \in ParentsOf(q, y) <=> x \in ParentsOf(pool, y) \/ (x = t /\ \E i \in Vin[y] : i[1] = t)
      <4>1. x \in ParentsOf(pool, y) => x \in DOMAIN q
        BY <1>2, <1>3, <3>1 DEF ParentsOf
      <4>2. t \in DOMAIN q /\ t \notin DOMAIN pool
        BY <1>2
      <4>3. x \in ParentsOf(q, y) /\ x # t => x \in DOMAIN pool
        BY <1>2 DEF ParentsOf
      <4>4. x \in ParentsOf(q, y) /\ x = t => \E i \in Vin[y] : i[1] = t
        BY DEF ParentsOf
      <4>5. x \in ParentsOf(q, y) /\ x # t => x \in ParentsOf(pool, y)
        BY <4>3 DEF ParentsOf
      <4>6. x = t /\ (\E i \in Vin[y] : i[1] = t) => x \in ParentsOf(q, y)
        BY <4>2 DEF ParentsOf
      <4>7. x \in ParentsOf(pool, y) => x \in ParentsOf(q, y)
        BY <4>1 DEF ParentsOf
      <4> QED
        BY <4>4, <4>5, <4>6, <4>7
    <3>4. ASSUME NEW x \in ParentsOf(pool, y) PROVE (x \in held2 => y \in held2) <=> (x \in held => y \in held)
      BY <2>2, <3>1, <3>4 DEF ParentsOf, Fits
    <3>5. ASSUME NEW i \in Vin[y], i[1] = t PROVE ~(t \in held2 => y \in held2)
      BY <3>1, <3>5 DEF Fits
    <3> QED
      BY <3>2, <3>3, <3>4, <3>5
  <2> QED
    BY <2>1, <2>2
<1>6. ASSUME NEW x \in DOMAIN q PROVE q[x].fee = Fee[x] + mapDeltas[x]
  <2>1. CASE x = t
    BY <1>2, <2>1
  <2>2. CASE x # t
    <3>1. x \in DOMAIN pool \ R
      BY <1>2, <1>6, <2>2
    <3> QED
      BY <1>2, <3>1 DEF Good
  <2> QED
    BY <2>1, <2>2
<1>7. ASSUME NEW x \in DOMAIN q PROVE x \notin C /\ x \notin CoinBase
  BY <1>2, <1>7 DEF Good
<1>8. ASSUME NEW x \in DOMAIN q, NEW y \in DOMAIN q, Vin[x] \cap Vin[y] # {} PROVE x = y
  <2>1. ASSUME NEW z \in DOMAIN pool \ R PROVE Vin[z] \cap Vin[t] = {}
    BY <1>2, <2>1 DEF Conflicts, Spenders
  <2> QED
    BY <1>2, <1>8, <2>1 DEF Good
<1>9. ASSUME NEW x \in DOMAIN q, NEW i \in Vin[x]
      PROVE  \/ i[1] \in DOMAIN q
             \/ ((i \in Base \/ i[1] \in C) /\ i \notin S)
             \/ i[1] \in V \ {t}
  <2>1. CASE x = t
    <3>1. i[1] \in DOMAIN pool \/ ((i \in Base \/ i[1] \in C) /\ i \notin S)
      BY <1>9, <2>1 DEF Fits
    <3>2. i[1] \in DOMAIN pool => i[1] \in DOMAIN q
      BY <1>2, <1>9, <2>1 DEF ParentsOf
    <3> QED
      BY <3>1, <3>2
  <2>2. CASE x # t
    <3>1. x \in DOMAIN pool \ R
      BY <1>2, <1>9, <2>2
    <3>2. i[1] \in DOMAIN pool \/ ((i \in Base \/ i[1] \in C) /\ i \notin S) \/ i[1] \in V
      BY <1>9, <3>1 DEF Good
    <3>3. i[1] \in DOMAIN pool => i[1] \in DOMAIN q
      BY <1>2, <1>3, <1>9, <3>1 DEF ParentsOf
    <3>4. i[1] = t => i[1] \in DOMAIN q
      BY <1>2
    <3> QED
      BY <3>2, <3>3, <3>4
  <2> QED
    BY <2>1, <2>2
<1>10. Good(q, mapDeltas, C, S, V \ {t}, held2)
  BY <1>2, <1>5, <1>6, <1>7, <1>8, <1>9 DEF Good
<1> QED
  BY <1>2, <1>3, <1>10 DEF R, Entered

-----------------------------------------------------------------------------
(* Blocks.                                                                 *)

\* What is spent was confirmed.
Sourced(S, C) == \A i \in S : i \in Base \/ i[1] \in C

\* The inputs of a transaction are confirmed.
Grounded(t, C) == \A i \in Vin[t] : i \in Base \/ i[1] \in C

\* The entry that a block confirms has no parents left: what depends on it loses
\* an ancestor and no link.
LEMMA RemoveOneGood ==
  ASSUME NEW p, NEW deltas, NEW C, NEW S, Good(p, deltas, C, S, {}, {}), Sourced(S, C),
         NEW t \in Tx, t \notin C, Grounded(t, C),
         NEW q, q = IF t \in DOMAIN p THEN RemoveStaged(p, {t}, TRUE) ELSE p
  PROVE  Good(q, deltas, C \cup {t}, S, {}, {}) /\ DOMAIN q = DOMAIN p \ {t}
<1>1. Shape(p) /\ TotalsOk(p) /\ LinksBy(p, {}, {})
  BY DEF Good
<1>2. ASSUME NEW x \in DOMAIN p, NEW i \in Vin[x] PROVE i[1] \in DOMAIN p \/ ((i \in Base \/ i[1] \in C) /\ i \notin S)
  BY <1>2 DEF Good
<1>3. CASE t \notin DOMAIN p
  <2>1. q = p
    BY <1>3
  <2>2. \A x \in DOMAIN p : x \notin C \cup {t} /\ x \notin CoinBase
    BY <1>3 DEF Good
  <2>3. \A x \in DOMAIN p : \A i \in Vin[x] :
          i[1] \in DOMAIN p \/ ((i \in Base \/ i[1] \in C \cup {t}) /\ i \notin S) \/ i[1] \in {}
    BY <1>2
  <2>4. Good(p, deltas, C \cup {t}, S, {}, {})
    BY <2>2, <2>3 DEF Good
  <2> QED
    BY <1>3, <2>1, <2>4
<1>4. CASE t \in DOMAIN p
  <2>1. q = RemoveStaged(p, {t}, TRUE)
    BY <1>4
  <2>2. /\ Cut(p, {t}, q)
        /\ \A x \in DOMAIN q : q[x].anc = Minus(p[x].anc, Totals(p, {t} \cap LinkedAncestors(p, x)))
    BY <1>1, <2>1, RemoveOneFields
  <2>3. p[t].parents = {}
    <3>1. ASSUME NEW u \in ParentsOf(p, t) PROVE FALSE
      <4>1. PICK i \in Vin[t] : u = i[1] /\ u \in DOMAIN p
        BY <3>1 DEF ParentsOf
      <4>2. u \in Tx /\ u \notin C
        BY <1>1, <4>1 DEF Good, Shape, FeesInt
      <4>3. i \in Base
        BY <4>1, <4>2 DEF Grounded
      <4> QED
        BY <4>1, <4>2, <4>3, TxAssumption
    <3>2. p[t].parents \subseteq ParentsOf(p, t)
      BY <1>1, <1>4 DEF Shape
    <3> QED
      BY <3>1, <3>2
  <2>4. Shape(q)
    BY <1>1, <2>2, RemoveShape
  <2>5. TotalsOk(q)
    BY <1>1, <1>4, <2>2, <2>3, RemoveRootTotals
  <2>6. DOMAIN q = DOMAIN p \ {t}
    BY <2>2 DEF Cut
  <2>7. LinksBy(q, {}, {})
    <3> SUFFICES ASSUME NEW y \in DOMAIN q PROVE q[y].parents = {x \in ParentsOf(q, y) : x \in {} => y \in {}}
      BY DEF LinksBy
    <3>1. q[y].parents = p[y].parents \ {t}
      BY <2>2 DEF Cut
    <3>2. p[y].parents = ParentsOf(p, y)
      BY <1>1, <2>6 DEF LinksBy
    <3>3. ParentsOf(q, y) = ParentsOf(p, y) \ {t}
      BY <2>6 DEF ParentsOf
    <3> QED
      BY <3>1, <3>2, <3>3
  <2>8. ASSUME NEW x \in DOMAIN q PROVE x \in DOMAIN p /\ q[x].fee = Fee[x] + deltas[x]
    <3>1. x \in DOMAIN p
      BY <2>6, <2>8
    <3> QED
      BY <2>2, <2>8, <3>1 DEF Good, Cut
  <2>9. ASSUME NEW x \in DOMAIN q PROVE x \notin C \cup {t} /\ x \notin CoinBase
    BY <2>6, <2>9 DEF Good
  <2>10. ASSUME NEW x \in DOMAIN q, NEW y \in DOMAIN q, Vin[x] \cap Vin[y] # {} PROVE x = y
    BY <2>6, <2>10 DEF Good
  <2>11. ASSUME NEW x \in DOMAIN q, NEW i \in Vin[x]
         PROVE  i[1] \in DOMAIN q \/ ((i \in Base \/ i[1] \in C \cup {t}) /\ i \notin S) \/ i[1] \in {}
    <3>1. i[1] \in DOMAIN p \/ ((i \in Base \/ i[1] \in C) /\ i \notin S)
      BY <1>2, <2>8, <2>11
    <3>2. CASE i[1] = t
      <4>1. i \notin Base
        BY <3>2, TxAssumption
      <4>2. i \notin S
        BY <3>2, <4>1 DEF Sourced
      <4> QED
        BY <3>2, <4>2
    <3>3. CASE i[1] # t
      BY <2>6, <3>1, <3>3
    <3> QED
      BY <3>2, <3>3
  <2>12. Good(q, deltas, C \cup {t}, S, {}, {})
    BY <2>4, <2>5, <2>7, <2>8, <2>9, <2>10, <2>11 DEF Good
  <2> QED
    BY <2>6, <2>12
<1> QED
  BY <1>3, <1>4

\* The state of the loop of removeForBlock when C is confirmed.
LoopOk(s, C) ==
    /\ Good(s.pool, s.deltas, C, Outputs(C), {}, {})
    /\ s.deltas \in [Tx -> Int]
    /\ Sourced(Outputs(C), C)

\* The pool that Confirm begins with, and what conflicts with the transaction in it.
First(s, t) == IF t \in DOMAIN s.pool THEN RemoveStaged(s.pool, {t}, TRUE) ELSE s.pool
Last(q, t) == RemoveStaged(q, CalculateDescendants(q, Spenders(q, Vin[t])), FALSE)
Forget(s, q, t) == [x \in Tx |-> IF x \in Forgotten(q, t) \cup {t} THEN 0 ELSE s.deltas[x]]

LEMMA ConfirmIs ==
  ASSUME NEW s, NEW t
  PROVE  /\ Confirm(s, t).pool = Last(First(s, t), t)
         /\ Confirm(s, t).deltas = Forget(s, First(s, t), t)
<1> DEFINE A == Last(First(s, t), t)
           B == Forget(s, First(s, t), t)
<1>1. Confirm(s, t) = [pool |-> A, deltas |-> B]
  BY DEF Confirm, First, Last, Forget
<1> HIDE DEF A, B
<1>2. [pool |-> A, deltas |-> B].pool = A /\ [pool |-> A, deltas |-> B].deltas = B
  BY SMT
<1>3. Confirm(s, t).pool = A /\ Confirm(s, t).deltas = B
  BY <1>1, <1>2
<1> QED
  BY <1>3 DEF A, B

LEMMA OutputsMore ==
  ASSUME NEW C, NEW t, NEW i
  PROVE  i \in Outputs(C \cup {t}) <=> i \in Outputs(C) \/ i \in Vin[t]
  BY DEF Outputs

LEMMA ConfirmOk ==
  ASSUME NEW s, NEW C, LoopOk(s, C), NEW t \in Tx, t \notin C, Grounded(t, C), NEW r, r = Confirm(s, t)
  PROVE  LoopOk(r, C \cup {t}) /\ DOMAIN r.pool \subseteq DOMAIN s.pool
<1> DEFINE q == First(s, t)
           X == Spenders(q, Vin[t])
           D == CalculateDescendants(q, X)
           p == r.pool
           d == r.deltas
           S == Outputs(C)
           C2 == C \cup {t}
<1>1. p = RemoveStaged(q, D, FALSE) /\ d = Forget(s, q, t)
  BY ConfirmIs DEF Last
<1>2. Good(q, s.deltas, C2, S, {}, {}) /\ DOMAIN q = DOMAIN s.pool \ {t}
  <2>1. q = IF t \in DOMAIN s.pool THEN RemoveStaged(s.pool, {t}, TRUE) ELSE s.pool
    BY DEF First
  <2>2. Good(s.pool, s.deltas, C, S, {}, {}) /\ Sourced(S, C)
    BY DEF LoopOk
  <2> DEFINE sp == s.pool
             sd == s.deltas
  <2> HIDE DEF q, S, sp, sd
  <2>3. Good(sp, sd, C, S, {}, {}) /\ q = IF t \in DOMAIN sp THEN RemoveStaged(sp, {t}, TRUE) ELSE sp
    BY <2>1, <2>2 DEF sp, sd
  <2>4. Good(q, sd, C2, S, {}, {}) /\ DOMAIN q = DOMAIN sp \ {t}
    BY ZenonT(40), <2>2, <2>3, RemoveOneGood
  <2> QED
    BY <2>4 DEF sp, sd
<1> HIDE DEF q
<1>3. X \in SUBSET DOMAIN q
  BY DEF Spenders
<1>4. Shape(q)
  BY <1>2 DEF Good
<1>5. ChildClosed(q, D) /\ X \subseteq D
  <2> HIDE DEF X
  <2> QED
    BY <1>3, <1>4, Descendants DEF ChildClosed
<1> HIDE DEF X, D, p, d, S, C2
<1>6. Good(p, s.deltas, C2, S, {}, {}) /\ Kept(q, D, p)
  <2>1. D \cap {} = {}
    OBVIOUS
  <2> DEFINE sd == s.deltas
  <2> HIDE DEF sd
  <2>2. Good(q, sd, C2, S, {}, {})
    BY <1>2 DEF sd
  <2>3. Good(p, sd, C2, S, {}, {}) /\ Kept(q, D, p)
    BY <1>1, <1>5, <2>1, <2>2, DownGood
  <2> QED
    BY <2>3 DEF sd
<1>7. DOMAIN p = DOMAIN q \ D
  BY <1>6 DEF Kept
<1>8. ASSUME NEW x \in DOMAIN p PROVE x \in DOMAIN q /\ x \notin X /\ x # t /\ x \in Tx
  <2>1. x \in DOMAIN q /\ x \notin X /\ x # t
    BY <1>2, <1>5, <1>7, <1>8
  <2>2. DOMAIN q \in SUBSET Tx
    BY <1>4 DEF Shape, FeesInt
  <2> QED
    BY <2>1, <2>2
<1>9. ASSUME NEW x \in DOMAIN p PROVE p[x].fee = Fee[x] + d[x]
  <2>1. Forgotten(q, t) \subseteq X
    BY DEF Forgotten, X
  <2>2. d[x] = s.deltas[x]
    BY <1>1, <1>8, <1>9, <2>1 DEF Forget
  <2> QED
    BY <1>6, <1>9, <2>2 DEF Good
<1>10. ASSUME NEW x \in DOMAIN p, NEW i \in Vin[x]
       PROVE  i[1] \in DOMAIN p \/ ((i \in Base \/ i[1] \in C2) /\ i \notin Outputs(C2)) \/ i[1] \in {}
  <2>1. i[1] \in DOMAIN p \/ ((i \in Base \/ i[1] \in C2) /\ i \notin S) \/ i[1] \in {}
    BY <1>6, <1>10 DEF Good
  <2>2. i \notin Vin[t]
    BY <1>8, <1>10 DEF X, Spenders
  <2>3. i \in Outputs(C2) => i \in S
    BY <2>2, OutputsMore DEF C2, S
  <2> QED
    BY <2>1, <2>3
<1>11. Good(p, d, C2, Outputs(C2), {}, {})
  BY <1>6, <1>9, <1>10 DEF Good
<1>12. d \in [Tx -> Int]
  <2>1. ASSUME NEW x \in Tx PROVE (IF x \in Forgotten(q, t) \cup {t} THEN 0 ELSE s.deltas[x]) \in Int
    <3>1. s.deltas[x] \in Int
      BY <2>1 DEF LoopOk
    <3>2. 0 \in Int
      BY SMT
    <3> QED
      BY <3>1, <3>2
  <2> QED
    BY <1>1, <2>1 DEF Forget
<1>13. Sourced(Outputs(C2), C2)
  <2> SUFFICES ASSUME NEW i \in Outputs(C2) PROVE i \in Base \/ i[1] \in C2
    BY DEF Sourced
  <2>1. i \in Outputs(C) \/ i \in Vin[t]
    BY OutputsMore DEF C2
  <2> QED
    BY <2>1 DEF LoopOk, Sourced, Grounded, C2
<1>14. DOMAIN p \subseteq DOMAIN s.pool
  BY <1>2, <1>7
<1> QED
  BY <1>11, <1>12, <1>13, <1>14 DEF LoopOk, p, d, C2

\* The transactions of a block above the confirmed transactions C: each is new and
\* spends, once, what was made before it.
Before(b, k) == {b[j] : j \in 1 .. k - 1}
BlockOk(b, C) ==
    \A k \in DOMAIN b :
       /\ b[k] \notin C /\ b[k] \notin Before(b, k)
       /\ Grounded(b[k], C \cup Before(b, k))
       /\ \A x \in Before(b, k) : Vin[b[k]] \cap Vin[x] = {}

LEMMA RemoveForBlockOk ==
  ASSUME NEW b, NEW C, NEW S, S = Outputs(C), b.vtx \in Seq(Tx), BlockOk(b.vtx, C), Sourced(S, C),
         Good(pool, mapDeltas, C, S, {}, {}), mapDeltas \in [Tx -> Int],
         NEW s, s = RemoveForBlock(b)
  PROVE  LoopOk(s, C \cup Range(b.vtx)) /\ DOMAIN s.pool \subseteq DOMAIN pool
<1> DEFINE v == b.vtx
           L == Len(v)
           D(n) == C \cup Before(v, n + 1)
<1>1. L \in Nat /\ DOMAIN v = 1 .. L /\ \A k \in 1 .. L : v[k] \in Tx
  BY SeqLen
<1>2. PICK w : /\ w = [n \in 0 .. L |-> IF n = 0 THEN [pool |-> pool, deltas |-> mapDeltas] ELSE Confirm(w[n - 1], v[n])]
               /\ s = w[L]
  BY <1>1, RemoveLoop
<1> DEFINE w0 == [pool |-> pool, deltas |-> mapDeltas]
<1>3. w0.pool = pool /\ w0.deltas = mapDeltas
  BY SMT
<1> HIDE DEF L, v, w0
<1>4. /\ 0 \in 0 .. L /\ L \in 0 .. L /\ 0 + 1 = 1
      /\ \A n \in Nat : n + 1 \in 0 .. L =>
           /\ n \in 0 .. L /\ (n + 1) - 1 = n /\ n + 1 # 0 /\ n + 1 \in 1 .. L
           /\ \A j : j \in 1 .. ((n + 1) + 1) - 1 <=> j \in 1 .. (n + 1) - 1 \/ j = n + 1
  <2>1. 0 \in 0 .. L /\ L \in 0 .. L /\ 0 + 1 = 1
    BY SMT, <1>1
  <2>2. ASSUME NEW n \in Nat, n + 1 \in 0 .. L
        PROVE  /\ n \in 0 .. L /\ (n + 1) - 1 = n /\ n + 1 # 0 /\ n + 1 \in 1 .. L
               /\ \A j : j \in 1 .. ((n + 1) + 1) - 1 <=> j \in 1 .. (n + 1) - 1 \/ j = n + 1
    BY SMT, <1>1, <2>2
  <2> QED
    BY <2>1, <2>2
<1>5. w[0] = w0 /\ \A n \in Nat : n + 1 \in 0 .. L => w[n + 1] = Confirm(w[n], v[n + 1])
  <2>1. \A m \in 0 .. L : w[m] = IF m = 0 THEN w0 ELSE Confirm(w[m - 1], v[m])
    BY <1>2 DEF w0
  <2>2. w[0] = w0
    BY <1>4, <2>1
  <2>3. ASSUME NEW n \in Nat, n + 1 \in 0 .. L PROVE w[n + 1] = Confirm(w[n], v[n + 1])
    <3>1. (n + 1) - 1 = n /\ n + 1 # 0
      BY <1>4, <2>3
    <3>2. w[n + 1] = Confirm(w[(n + 1) - 1], v[n + 1])
      BY <2>1, <2>3, <3>1
    <3> QED
      BY <3>1, <3>2
  <2> QED
    BY <2>2, <2>3
<1> DEFINE Ok(n) == LoopOk(w[n], D(n)) /\ DOMAIN w[n].pool \subseteq DOMAIN pool
           Q == {n \in Nat : n \in 0 .. L => Ok(n)}
<1>6. 0 \in Q
  <2>1. 0 \in Nat
    BY SMT
  <2>2. 1 .. (0 + 1) - 1 = {}
    BY SMT
  <2>3. D(0) = C
    BY <2>2 DEF Before
  <2>5. LoopOk(w0, C)
    BY <1>3 DEF LoopOk
  <2> HIDE DEF D
  <2> QED
    BY <1>3, <1>5, <2>1, <2>3, <2>5
<1>7. ASSUME NEW n \in Nat, n \in Q PROVE n + 1 \in Q
  <2>1. n + 1 \in Nat
    BY SMT
  <2>2. ASSUME n + 1 \in 0 .. L PROVE Ok(n + 1)
    <3> DEFINE t == v[n + 1]
               now == w[n]
               then == w[n + 1]
    <3>1. n \in 0 .. L /\ n + 1 \in 1 .. L
      BY <1>4, <2>2
    <3>2. LoopOk(now, D(n)) /\ DOMAIN now.pool \subseteq DOMAIN pool
      BY <1>7, <3>1
    <3>3. D(n + 1) = D(n) \cup {t}
      <4>1. \A j : j \in 1 .. ((n + 1) + 1) - 1 <=> j \in 1 .. (n + 1) - 1 \/ j = n + 1
        BY <1>4, <2>2
      <4>2. Before(v, (n + 1) + 1) = Before(v, n + 1) \cup {t}
        BY <4>1 DEF Before
      <4> QED
        BY <4>2
    <3>4. t \in Tx /\ t \notin D(n) /\ Grounded(t, D(n))
      <4>1. n + 1 \in DOMAIN v
        BY <1>1, <3>1
      <4> QED
        BY <1>1, <3>1, <4>1 DEF BlockOk, v
    <3>5. then = Confirm(now, t)
      BY <1>5, <2>2
    <3> DEFINE c == D(n)
    <3> HIDE DEF D, t, now, then, c
    <3>6. LoopOk(now, c) /\ t \in Tx /\ t \notin c /\ Grounded(t, c)
      BY <3>2, <3>4 DEF c
    <3>7. LoopOk(then, c \cup {t}) /\ DOMAIN then.pool \subseteq DOMAIN now.pool
      BY <3>5, <3>6, ConfirmOk
    <3> QED
      BY <3>2, <3>3, <3>7 DEF c, then
  <2> QED
    BY <2>1, <2>2
<1>8. L \in Q
  <2> HIDE DEF Q
  <2> QED
    BY <1>1, <1>6, <1>7, NumberInduction
<1>9. Ok(L)
  <2> HIDE DEF Ok
  <2> QED
    BY <1>4, <1>8
<1>10. Before(v, L + 1) = Range(v)
  <2>1. 1 .. (L + 1) - 1 = DOMAIN v
    BY SMT, <1>1
  <2> QED
    BY <2>1 DEF Before, Range
<1> QED
  BY <1>2, <1>9, <1>10 DEF v

-----------------------------------------------------------------------------
(* The end of DisconnectTip.                                               *)

\* Without their links, those that came back are ancestors of one another only.
LEMMA HeldApart ==
  ASSUME NEW p, Shape(p), NEW held, LinksBy(p, held, held), NEW x \in DOMAIN p, x \notin held
  PROVE  LinkedAncestors(p, x) \cap held = {}
<1> DEFINE C == DOMAIN p \ held
<1>1. C \in SUBSET DOMAIN p
  OBVIOUS
<1>2. ASSUME NEW y \in C PROVE p[y].parents \subseteq C
  BY <1>2 DEF LinksBy, ParentsOf
<1>3. p[x].parents \subseteq C
  BY <1>2
<1>4. LinkedAncestors(p, x) \subseteq C
  <2> HIDE DEF C
  <2> QED
    BY <1>1, <1>2, <1>3, LinkedLeast
<1> QED
  BY <1>4

LEMMA TotalsBegin ==
  ASSUME NEW p, Shape(p), TotalsOk(p), NEW held, LinksBy(p, held, held)
  PROVE  TotalsBy(p, held, held)
<1> SUFFICES ASSUME NEW x \in DOMAIN p
             PROVE  /\ p[x].anc = Totals(p, (LinkedAncestors(p, x) \cup {x}) \ (IF x \in held THEN {} ELSE held))
                    /\ p[x].desc = Totals(p, (Below(p, x) \cap (IF x \in held THEN held ELSE DOMAIN p)) \cup {x})
  BY DEF TotalsBy
<1>1. (LinkedAncestors(p, x) \cup {x}) \ (IF x \in held THEN {} ELSE held) = LinkedAncestors(p, x) \cup {x}
  <2>1. CASE x \in held
    BY <2>1
  <2>2. CASE x \notin held
    <3>1. LinkedAncestors(p, x) \cap held = {}
      BY <2>2, HeldApart
    <3> QED
      BY <2>2, <3>1
  <2> QED
    BY <2>1, <2>2
<1>2. Below(p, x) \cap (IF x \in held THEN held ELSE DOMAIN p) = Below(p, x)
  <2>1. CASE x \in held
    <3>1. ASSUME NEW y \in Below(p, x) PROVE y \in held
      <4>1. y \in DOMAIN p /\ x \in LinkedAncestors(p, y)
        BY <3>1 DEF Below
      <4>2. ASSUME y \notin held PROVE FALSE
        <5>1. LinkedAncestors(p, y) \cap held = {}
          BY <4>1, <4>2, HeldApart
        <5> QED
          BY <2>1, <4>1, <5>1
      <4> QED
        BY <4>2
    <3> QED
      BY <2>1, <3>1
  <2>2. CASE x \notin held
    BY <2>2 DEF Below
  <2> QED
    BY <2>1, <2>2
<1> QED
  BY <1>1, <1>2 DEF TotalsOk

LEMMA TotalsEnd ==
  ASSUME NEW p, Shape(p), NEW held, TotalsBy(p, {}, held)
  PROVE  TotalsOk(p)
<1> SUFFICES ASSUME NEW x \in DOMAIN p
             PROVE  /\ p[x].anc = Totals(p, LinkedAncestors(p, x) \cup {x})
                    /\ p[x].desc = Totals(p, Below(p, x) \cup {x})
  BY DEF TotalsOk
<1>1. (LinkedAncestors(p, x) \cup {x}) \ (IF x \in held THEN {} ELSE {}) = LinkedAncestors(p, x) \cup {x}
  OBVIOUS
<1>2. Below(p, x) \cap (IF x \in {} THEN held ELSE DOMAIN p) = Below(p, x)
  BY DEF Below
<1> QED
  BY <1>1, <1>2 DEF TotalsBy

\* UpdateTransactionsFromBlock leaves no link out.
LEMMA UpdateGood ==
  ASSUME NEW p, NEW deltas, NEW C, NEW S, NEW hashes \in Seq(Tx), Good(p, deltas, C, S, {}, Range(hashes)),
         InOrder(p, hashes), NEW q, q = UpdateTransactionsFromBlock(p, hashes)
  PROVE  Good(q, deltas, C, S, {}, {}) /\ DOMAIN q = DOMAIN p
<1> DEFINE held == Range(hashes)
<1>1. Shape(p) /\ TotalsOk(p) /\ LinksBy(p, held, held)
  BY DEF Good
<1>2. TotalsBy(p, held, held)
  <2> HIDE DEF held
  <2> QED
    BY <1>1, TotalsBegin
<1>3. /\ Shape(q) /\ DOMAIN q = DOMAIN p /\ \A x \in DOMAIN p : q[x].fee = p[x].fee
      /\ LinksBy(q, {}, held) /\ TotalsBy(q, {}, held)
  BY <1>1, <1>2, UpdateAllOk
<1> HIDE DEF held
<1>4. TotalsOk(q)
  BY <1>3, TotalsEnd
<1>5. LinksBy(q, {}, {})
  BY <1>3 DEF LinksBy
<1>6. Good(q, deltas, C, S, {}, {})
  BY <1>3, <1>4, <1>5 DEF Good
<1> QED
  BY <1>3, <1>6

-----------------------------------------------------------------------------
(* Chains of blocks, and what is left of a block that was disconnected.    *)

\* The transactions of a chain of blocks, and of those below height h.
Conf(c) == UNION {Range(c[h]) : h \in DOMAIN c}
Earlier(c, h) == UNION {Range(c[g]) : g \in 1 .. h - 1}
ChainOk(c) == \A h \in DOMAIN c : BlockOk(c[h], Earlier(c, h))

\* What blocks spend was made in blocks.
LEMMA ChainSourced ==
  ASSUME NEW c \in Seq(Seq(Tx)), ChainOk(c)
  PROVE  Sourced(Outputs(Conf(c)), Conf(c))
<1> SUFFICES ASSUME NEW i \in Outputs(Conf(c)) PROVE i \in Base \/ i[1] \in Conf(c)
  BY DEF Sourced
<1>1. PICK t \in Conf(c) : i \in Vin[t]
  BY DEF Outputs
<1>2. PICK h \in DOMAIN c : t \in Range(c[h])
  BY <1>1 DEF Conf
<1>3. PICK k \in DOMAIN c[h] : t = c[h][k]
  BY <1>2 DEF Range
<1>4. Grounded(t, Earlier(c, h) \cup Before(c[h], k))
  BY <1>3 DEF ChainOk, BlockOk
<1>5. /\ \A g \in 1 .. h - 1 : g \in DOMAIN c
      /\ \A j \in 1 .. k - 1 : j \in DOMAIN c[h]
  <2>1. DOMAIN c = 1 .. Len(c) /\ Len(c) \in Nat /\ \A g \in 1 .. Len(c) : c[g] \in Seq(Tx)
    BY SeqLen
  <2>2. DOMAIN c[h] = 1 .. Len(c[h]) /\ Len(c[h]) \in Nat
    BY <2>1, SeqLen
  <2> QED
    BY SMT, <2>1, <2>2
<1>6. Earlier(c, h) \subseteq Conf(c)
  BY <1>5 DEF Earlier, Conf
<1>7. Before(c[h], k) \subseteq Range(c[h])
  BY <1>5 DEF Before, Range
<1>8. Range(c[h]) \subseteq Conf(c)
  BY DEF Conf
<1> QED
  BY <1>1, <1>4, <1>6, <1>7, <1>8 DEF Grounded

LEMMA ChainAppend ==
  ASSUME NEW c \in Seq(Seq(Tx)), ChainOk(c), NEW b \in Seq(Tx), BlockOk(b, Conf(c)), NEW d, d = Append(c, b)
  PROVE  /\ d \in Seq(Seq(Tx)) /\ Len(d) = Len(c) + 1
         /\ DOMAIN c \subseteq DOMAIN d /\ \A h \in DOMAIN c : d[h] = c[h]
         /\ Conf(d) = Conf(c) \cup Range(b) /\ ChainOk(d)
<1> DEFINE n == Len(c) + 1
<1>1. /\ d \in Seq(Seq(Tx)) /\ Len(d) = n /\ d[n] = b /\ Len(c) \in Nat
      /\ DOMAIN c = 1 .. Len(c) /\ DOMAIN d = 1 .. n
      /\ \A h \in 1 .. Len(c) : d[h] = c[h]
  BY SMT
<1>2. /\ \A h \in 1 .. n : h \in 1 .. Len(c) \/ h = n
      /\ \A h \in 1 .. Len(c) : h \in 1 .. n /\ \A g \in 1 .. h - 1 : g \in 1 .. Len(c)
      /\ n \in 1 .. n /\ 1 .. n - 1 = 1 .. Len(c)
  BY SMT, <1>1
<1> HIDE DEF n
<1>3. Conf(d) = Conf(c) \cup Range(b)
  <2>1. ASSUME NEW x \in Conf(d) PROVE x \in Conf(c) \cup Range(b)
    <3>1. PICK h \in 1 .. n : x \in Range(d[h])
      BY <1>1, <2>1 DEF Conf
    <3>2. h \in 1 .. Len(c) \/ h = n
      BY <1>2
    <3> QED
      BY <1>1, <3>1, <3>2 DEF Conf
  <2>2. ASSUME NEW x \in Conf(c) PROVE x \in Conf(d)
    <3>1. PICK h \in 1 .. Len(c) : x \in Range(c[h])
      BY <1>1, <2>2 DEF Conf
    <3>2. h \in DOMAIN d /\ x \in Range(d[h])
      BY <1>1, <1>2, <3>1
    <3> QED
      BY <3>2 DEF Conf
  <2>3. ASSUME NEW x \in Range(b) PROVE x \in Conf(d)
    <3>1. n \in DOMAIN d /\ x \in Range(d[n])
      BY <1>1, <1>2, <2>3
    <3> QED
      BY <3>1 DEF Conf
  <2> QED
    BY <2>1, <2>2, <2>3
<1>4. ASSUME NEW h \in 1 .. Len(c) PROVE BlockOk(d[h], Earlier(d, h))
  <2>1. \A g \in 1 .. h - 1 : d[g] = c[g]
    BY <1>1, <1>2, <1>4
  <2>2. Earlier(d, h) = Earlier(c, h)
    BY <2>1 DEF Earlier
  <2> QED
    BY <1>1, <1>4, <2>2 DEF ChainOk
<1>5. BlockOk(d[n], Earlier(d, n))
  <2>1. \A g \in 1 .. Len(c) : d[g] = c[g]
    BY <1>1
  <2>2. Earlier(d, n) = Conf(c)
    BY <1>1, <1>2, <2>1 DEF Earlier, Conf
  <2> QED
    BY <1>1, <2>2
<1>6. ChainOk(d)
  BY <1>1, <1>2, <1>4, <1>5 DEF ChainOk
<1> QED
  BY <1>1, <1>2, <1>3, <1>6 DEF n

LEMMA ChainFront ==
  ASSUME NEW c \in Seq(Seq(Tx)), ChainOk(c), c # <<>>, NEW d, d = SubSeq(c, 1, Len(c) - 1), NEW b, b = c[Len(c)]
  PROVE  /\ d \in Seq(Seq(Tx)) /\ b \in Seq(Tx)
         /\ Conf(c) = Conf(d) \cup Range(b) /\ ChainOk(d) /\ BlockOk(b, Conf(d))
<1> DEFINE n == Len(c)
<1>1. /\ d \in Seq(Seq(Tx)) /\ b \in Seq(Tx) /\ n \in Nat
      /\ DOMAIN c = 1 .. n /\ DOMAIN d = 1 .. n - 1
      /\ \A h \in 1 .. n - 1 : d[h] = c[h]
  BY SMT
<1>2. n # 0
  BY SeqLen
<1>3. b = c[n]
  OBVIOUS
<1> HIDE DEF n
<1>4. /\ \A h \in 1 .. n : h \in 1 .. n - 1 \/ h = n
      /\ \A h \in 1 .. n - 1 : h \in 1 .. n /\ \A g \in 1 .. h - 1 : g \in 1 .. n - 1
      /\ n \in 1 .. n
  BY SMT, <1>1, <1>2
<1>5. Conf(c) = Conf(d) \cup Range(b)
  <2>1. ASSUME NEW x \in Conf(c) PROVE x \in Conf(d) \cup Range(b)
    <3>1. PICK h \in 1 .. n : x \in Range(c[h])
      BY <1>1, <2>1 DEF Conf
    <3>2. h \in 1 .. n - 1 \/ h = n
      BY <1>4
    <3>3. ASSUME h \in 1 .. n - 1 PROVE x \in Conf(d)
      <4>1. h \in DOMAIN d /\ x \in Range(d[h])
        BY <1>1, <3>1, <3>3
      <4> QED
        BY <4>1 DEF Conf
    <3> QED
      BY <1>3, <3>1, <3>2, <3>3
  <2>2. ASSUME NEW x \in Conf(d) PROVE x \in Conf(c)
    <3>1. PICK h \in 1 .. n - 1 : x \in Range(d[h])
      BY <1>1, <2>2 DEF Conf
    <3>2. h \in DOMAIN c /\ x \in Range(c[h])
      BY <1>1, <1>4, <3>1
    <3> QED
      BY <3>2 DEF Conf
  <2>3. ASSUME NEW x \in Range(b) PROVE x \in Conf(c)
    <3>1. n \in DOMAIN c /\ x \in Range(c[n])
      BY <1>1, <1>4, <1>3, <2>3
    <3> QED
      BY <3>1 DEF Conf
  <2> QED
    BY <2>1, <2>2, <2>3
<1>6. ASSUME NEW h \in 1 .. n - 1 PROVE BlockOk(d[h], Earlier(d, h))
  <2>1. \A g \in 1 .. h - 1 : d[g] = c[g]
    BY <1>1, <1>4, <1>6
  <2>2. Earlier(d, h) = Earlier(c, h)
    BY <2>1 DEF Earlier
  <2>3. h \in DOMAIN c /\ d[h] = c[h]
    BY <1>1, <1>4, <1>6
  <2> QED
    BY <2>2, <2>3 DEF ChainOk
<1>7. BlockOk(b, Conf(d))
  <2>1. \A g \in 1 .. n - 1 : d[g] = c[g]
    BY <1>1
  <2>2. Earlier(c, n) = Conf(d)
    BY <1>1, <2>1 DEF Earlier, Conf
  <2> QED
    BY <1>1, <1>4, <1>3, <2>2 DEF ChainOk
<1>8. ChainOk(d)
  BY <1>1, <1>6 DEF ChainOk
<1> QED
  BY <1>1, <1>5, <1>7, <1>8

\* Of a block, no transaction spends itself or a later one.
LEMMA BlockApart ==
  ASSUME NEW b \in Seq(Tx), NEW C, BlockOk(b, C), NEW k \in DOMAIN b, NEW j \in DOMAIN b
  PROVE  /\ j >= k => \A i \in Vin[b[k]] : i[1] # b[j]
         /\ j # k => b[j] # b[k] /\ Vin[b[j]] \cap Vin[b[k]] = {}
<1>1. k \in Int /\ j \in Int /\ 1 <= k /\ 1 <= j
  BY SMT
<1>2. \A x \in DOMAIN b : b[x] \in Tx
  BY SeqLen
<1>3. ASSUME NEW m \in DOMAIN b, NEW n \in DOMAIN b, m < n PROVE b[m] \in Before(b, n)
  <2>1. m \in 1 .. n - 1
    BY SMT, <1>3
  <2> QED
    BY <2>1 DEF Before
<1>4. ASSUME j >= k, NEW i \in Vin[b[k]], i[1] = b[j] PROVE FALSE
  <2>1. i \in Base \/ i[1] \in C \/ i[1] \in Before(b, k)
    BY <1>4 DEF BlockOk, Grounded
  <2>2. i \notin Base
    BY <1>2, <1>4, TxAssumption
  <2>3. b[j] \notin C /\ b[j] \notin Before(b, j)
    BY DEF BlockOk
  <2>4. b[j] \in Before(b, k)
    BY <1>4, <2>1, <2>2, <2>3
  <2>5. Before(b, k) \subseteq Before(b, j)
    <3>1. \A m \in 1 .. k - 1 : m \in 1 .. j - 1
      BY SMT, <1>1, <1>4
    <3> QED
      BY <3>1 DEF Before
  <2> QED
    BY <2>3, <2>4, <2>5
<1>5. ASSUME j # k PROVE b[j] # b[k] /\ Vin[b[j]] \cap Vin[b[k]] = {}
  <2>1. j < k \/ k < j
    BY SMT, <1>1, <1>5
  <2>2. CASE j < k
    <3>1. b[j] \in Before(b, k)
      BY <1>3, <2>2
    <3>2. b[k] \notin Before(b, k) /\ Vin[b[k]] \cap Vin[b[j]] = {}
      BY <3>1 DEF BlockOk
    <3> QED
      BY <3>1, <3>2
  <2>3. CASE k < j
    <3>1. b[k] \in Before(b, j)
      BY <1>3, <2>3
    <3>2. b[j] \notin Before(b, j) /\ Vin[b[j]] \cap Vin[b[k]] = {}
      BY <3>1 DEF BlockOk
    <3> QED
      BY <3>1, <3>2
  <2> QED
    BY <2>1, <2>2, <2>3
<1> QED
  BY <1>4, <1>5

\* What is left of a disconnected block: its transactions spend what is confirmed,
\* came back before them or is lost, and nothing else spends that.
Coming(p, C, v, hashes) ==
    /\ \A k \in DOMAIN v :
          /\ v[k] \notin DOMAIN p /\ v[k] \notin C
          /\ Spenders(p, Vin[v[k]]) = {}
          /\ \A i \in Vin[v[k]] : i[1] \in DOMAIN p => i[1] \in Range(hashes)
          /\ \A j \in DOMAIN v : j >= k => \A i \in Vin[v[k]] : i[1] # v[j]
          /\ \A j \in DOMAIN v : j # k => v[j] # v[k] /\ Vin[v[j]] \cap Vin[v[k]] = {}
    /\ \A h \in Range(hashes) : \A i \in Vin[h] : i[1] \notin Range(v)
    /\ InOrder(p, hashes)

LEMMA EmptyHashes ==
  ASSUME NEW p
  PROVE  Range(<<>>) = {} /\ InOrder(p, <<>>) /\ <<>> \in Seq(Tx)
<1>1. DOMAIN <<>> = {} /\ <<>> \in Seq(Tx)
  BY SMT
<1> QED
  BY <1>1 DEF Range, InOrder

TailOf(s, r) ==
    /\ r \in Seq(Tx) /\ Head(s) = s[1] /\ 1 \in DOMAIN s
    /\ \A k \in DOMAIN r : k + 1 \in DOMAIN s /\ r[k] = s[k + 1] /\ k + 1 # 1 /\ k + 1 >= 1
    /\ \A j, k \in DOMAIN r : (j >= k => j + 1 >= k + 1) /\ (j # k => j + 1 # k + 1)
    /\ \A x : x \in Range(s) => x = s[1] \/ x \in Range(r)
    /\ \A x : x \in Range(r) => x \in Range(s)

LEMMA SeqTail ==
  ASSUME NEW s \in Seq(Tx), s # <<>>, NEW r, r = Tail(s)
  PROVE  TailOf(s, r)
<1>1. r \in Seq(Tx) /\ Head(s) = s[1] /\ 1 \in DOMAIN s
  BY SMT
<1>2. \A k \in DOMAIN r : k + 1 \in DOMAIN s /\ r[k] = s[k + 1] /\ k + 1 # 1 /\ k + 1 >= 1
  BY SMT
<1>3. \A j, k \in DOMAIN r : (j >= k => j + 1 >= k + 1) /\ (j # k => j + 1 # k + 1)
  BY SMT, <1>1
<1>4. \A k \in DOMAIN s : k # 1 => k - 1 \in DOMAIN r /\ r[k - 1] = s[k]
  BY SMT
<1>5. ASSUME NEW x \in Range(s) PROVE x = s[1] \/ x \in Range(r)
  <2>1. PICK k \in DOMAIN s : x = s[k]
    BY <1>5 DEF Range
  <2>2. k # 1 => k - 1 \in DOMAIN r /\ r[k - 1] = x
    BY <1>4, <2>1
  <2> QED
    BY <2>1, <2>2 DEF Range
<1>6. ASSUME NEW x \in Range(r) PROVE x \in Range(s)
  <2>1. PICK k \in DOMAIN r : x = r[k]
    BY <1>6 DEF Range
  <2>2. k + 1 \in DOMAIN s /\ s[k + 1] = x
    BY <1>2, <2>1
  <2> QED
    BY <2>2 DEF Range
<1> QED
  BY <1>1, <1>2, <1>3, <1>5, <1>6 DEF TailOf

\* The next transactions of the block, when one is refused.
LEMMA ComingLess ==
  ASSUME NEW p, NEW q, NEW C, NEW v \in Seq(Tx), v # <<>>, NEW hashes, Coming(p, C, v, hashes), NEW r, r = Tail(v),
         DOMAIN q \subseteq DOMAIN p, Range(hashes) \subseteq DOMAIN q
  PROVE  Coming(q, C, r, hashes)
<1>1. /\ \A k \in DOMAIN r : k + 1 \in DOMAIN v /\ r[k] = v[k + 1]
      /\ \A j, k \in DOMAIN r : (j >= k => j + 1 >= k + 1) /\ (j # k => j + 1 # k + 1)
      /\ \A x : x \in Range(r) => x \in Range(v)
  <2>1. TailOf(v, r)
    BY SeqTail
  <2> QED
    BY <2>1 DEF TailOf
<1>2. ASSUME NEW k \in DOMAIN r
      PROVE  /\ r[k] \notin DOMAIN q /\ r[k] \notin C
             /\ Spenders(q, Vin[r[k]]) = {}
             /\ \A i \in Vin[r[k]] : i[1] \in DOMAIN q => i[1] \in Range(hashes)
  <2>1. /\ v[k + 1] \notin DOMAIN p /\ v[k + 1] \notin C
        /\ Spenders(p, Vin[v[k + 1]]) = {}
        /\ \A i \in Vin[v[k + 1]] : i[1] \in DOMAIN p => i[1] \in Range(hashes)
    BY <1>1, <1>2 DEF Coming
  <2>2. r[k] = v[k + 1]
    BY <1>1, <1>2
  <2>3. Spenders(q, Vin[r[k]]) = {}
    BY <2>1, <2>2 DEF Spenders
  <2> QED
    BY <2>1, <2>2, <2>3
<1>3. ASSUME NEW k \in DOMAIN r, NEW j \in DOMAIN r
      PROVE  /\ j >= k => \A i \in Vin[r[k]] : i[1] # r[j]
             /\ j # k => r[j] # r[k] /\ Vin[r[j]] \cap Vin[r[k]] = {}
  <2>1. /\ k + 1 \in DOMAIN v /\ r[k] = v[k + 1] /\ j + 1 \in DOMAIN v /\ r[j] = v[j + 1]
        /\ (j >= k => j + 1 >= k + 1) /\ (j # k => j + 1 # k + 1)
    BY <1>1, <1>3
  <2>2. /\ j + 1 >= k + 1 => \A i \in Vin[v[k + 1]] : i[1] # v[j + 1]
        /\ j + 1 # k + 1 => v[j + 1] # v[k + 1] /\ Vin[v[j + 1]] \cap Vin[v[k + 1]] = {}
    BY <2>1 DEF Coming
  <2> QED
    BY <2>1, <2>2
<1>4. \A h \in Range(hashes) : \A i \in Vin[h] : i[1] \notin Range(r)
  BY <1>1 DEF Coming
<1>5. InOrder(q, hashes)
  <2>1. \A k \in DOMAIN hashes : hashes[k] \in DOMAIN q
    BY DEF Range
  <2>2. \A x : ParentsOf(q, x) \subseteq ParentsOf(p, x)
    BY DEF ParentsOf
  <2> QED
    BY <2>1, <2>2 DEF Coming, InOrder
<1> QED
  BY ZenonT(40), <1>2, <1>3, <1>4, <1>5 DEF Coming

\* The same when it is accepted.
ComesNext(p, q, C, v, hashes, more) ==
    /\ v \in Seq(Tx) /\ v # <<>> /\ hashes \in Seq(Tx) /\ Coming(p, C, v, hashes)
    /\ DOMAIN q = DOMAIN p \cup {Head(v)} /\ more = Append(hashes, Head(v))
Came(q, C, v, hashes, more) ==
    /\ Coming(q, C, Tail(v), more) /\ Range(more) = Range(hashes) \cup {Head(v)} /\ more \in Seq(Tx)

LEMMA ComingMore ==
  ASSUME NEW p, NEW q, NEW C, NEW v, NEW hashes, NEW more, ComesNext(p, q, C, v, hashes, more)
  PROVE  Came(q, C, v, hashes, more)
<1> SUFFICES ASSUME v \in Seq(Tx), v # <<>>, hashes \in Seq(Tx), Coming(p, C, v, hashes),
                    NEW r, r = Tail(v), NEW t, t = Head(v), DOMAIN q = DOMAIN p \cup {t}, more = Append(hashes, t)
             PROVE  Coming(q, C, r, more) /\ Range(more) = Range(hashes) \cup {t} /\ more \in Seq(Tx)
  BY DEF ComesNext, Came
<1>1. /\ t = v[1] /\ 1 \in DOMAIN v
      /\ \A k \in DOMAIN r : k + 1 \in DOMAIN v /\ r[k] = v[k + 1] /\ k + 1 # 1 /\ k + 1 >= 1
      /\ \A j, k \in DOMAIN r : (j >= k => j + 1 >= k + 1) /\ (j # k => j + 1 # k + 1)
      /\ \A x : x \in Range(r) => x \in Range(v)
  <2>1. TailOf(v, r)
    BY SeqTail
  <2> QED
    BY <2>1 DEF TailOf
<1>2. t \in Tx
  <2>1. t = v[1] /\ 1 \in DOMAIN v
    BY <1>1
  <2>2. DOMAIN v = 1 .. Len(v) /\ \A k \in 1 .. Len(v) : v[k] \in Tx
    BY SeqLen
  <2> QED
    BY <2>1, <2>2
<1> DEFINE n == Len(hashes) + 1
<1>3. /\ more \in Seq(Tx) /\ n \in DOMAIN more /\ more[n] = t
      /\ \A k \in DOMAIN hashes : k \in DOMAIN more /\ more[k] = hashes[k]
      /\ \A k \in DOMAIN more : k \in DOMAIN hashes \/ k = n
      /\ n \notin DOMAIN hashes /\ 1 .. n - 1 = DOMAIN hashes
      /\ \A k \in DOMAIN hashes : \A j \in 1 .. k - 1 : j \in DOMAIN hashes
  BY SMT, <1>2
<1> HIDE DEF n
<1>4. Range(more) = Range(hashes) \cup {t}
  <2>1. ASSUME NEW x \in Range(more) PROVE x \in Range(hashes) \/ x = t
    <3>1. PICK k \in DOMAIN more : x = more[k]
      BY <2>1 DEF Range
    <3>2. k \in DOMAIN hashes => x = hashes[k]
      BY <1>3, <3>1
    <3>3. k \in DOMAIN hashes \/ x = t
      BY <1>3, <3>1
    <3> QED
      BY <3>2, <3>3 DEF Range
  <2>2. ASSUME NEW x \in Range(hashes) PROVE x \in Range(more)
    <3>1. PICK k \in DOMAIN hashes : x = hashes[k]
      BY <2>2 DEF Range
    <3>2. k \in DOMAIN more /\ more[k] = x
      BY <1>3, <3>1
    <3> QED
      BY <3>2 DEF Range
  <2>3. t \in Range(more)
    BY <1>3 DEF Range
  <2> QED
    BY <2>1, <2>2, <2>3
<1>5. /\ t \notin DOMAIN p /\ \A i \in Vin[t] : i[1] \in DOMAIN p => i[1] \in Range(hashes)
      /\ \A i \in Vin[t] : i[1] # t
  <2>1. t \notin DOMAIN p /\ \A i \in Vin[t] : i[1] \in DOMAIN p => i[1] \in Range(hashes)
    BY <1>1 DEF Coming
  <2> QED
    BY <1>2, <2>1, NoSelfParent
<1>6. ASSUME NEW k \in DOMAIN r
      PROVE  /\ r[k] \notin DOMAIN q /\ r[k] \notin C
             /\ Spenders(q, Vin[r[k]]) = {}
             /\ \A i \in Vin[r[k]] : i[1] \in DOMAIN q => i[1] \in Range(more)
  <2>1. /\ v[k + 1] \notin DOMAIN p /\ v[k + 1] \notin C
        /\ Spenders(p, Vin[v[k + 1]]) = {}
        /\ \A i \in Vin[v[k + 1]] : i[1] \in DOMAIN p => i[1] \in Range(hashes)
    BY <1>1, <1>6 DEF Coming
  <2>2. r[k] = v[k + 1] /\ k + 1 \in DOMAIN v /\ k + 1 # 1
    BY <1>1, <1>6
  <2>3. v[k + 1] # v[1] /\ Vin[v[k + 1]] \cap Vin[v[1]] = {}
    BY <1>1, <2>2 DEF Coming
  <2>4. Spenders(q, Vin[r[k]]) = {}
    <3>1. ASSUME NEW x \in DOMAIN q PROVE Vin[x] \cap Vin[r[k]] = {}
      <4>1. x \in DOMAIN p \/ x = v[1]
        BY <1>1, <3>1
      <4>2. x \in DOMAIN p => Vin[x] \cap Vin[v[k + 1]] = {}
        BY <2>1 DEF Spenders
      <4> QED
        BY <2>2, <2>3, <4>1, <4>2
    <3> QED
      BY <3>1 DEF Spenders
  <2>5. \A i \in Vin[r[k]] : i[1] \in DOMAIN q => i[1] \in Range(more)
    BY <1>4, <2>1, <2>2
  <2> QED
    BY <1>1, <2>1, <2>2, <2>3, <2>4, <2>5
<1>7. ASSUME NEW k \in DOMAIN r, NEW j \in DOMAIN r
      PROVE  /\ j >= k => \A i \in Vin[r[k]] : i[1] # r[j]
             /\ j # k => r[j] # r[k] /\ Vin[r[j]] \cap Vin[r[k]] = {}
  <2>1. /\ k + 1 \in DOMAIN v /\ r[k] = v[k + 1] /\ j + 1 \in DOMAIN v /\ r[j] = v[j + 1]
        /\ (j >= k => j + 1 >= k + 1) /\ (j # k => j + 1 # k + 1)
    BY <1>1, <1>7
  <2>2. /\ j + 1 >= k + 1 => \A i \in Vin[v[k + 1]] : i[1] # v[j + 1]
        /\ j + 1 # k + 1 => v[j + 1] # v[k + 1] /\ Vin[v[j + 1]] \cap Vin[v[k + 1]] = {}
    BY <2>1 DEF Coming
  <2> QED
    BY <2>1, <2>2
<1>8. ASSUME NEW h \in Range(more), NEW i \in Vin[h] PROVE i[1] \notin Range(r)
  <2>1. CASE h \in Range(hashes)
    BY <1>1, <1>8, <2>1 DEF Coming
  <2>2. CASE h = t
    <3> SUFFICES ASSUME i[1] \in Range(r) PROVE FALSE
      OBVIOUS
    <3>1. PICK k \in DOMAIN r : i[1] = r[k]
      BY DEF Range
    <3>2. k + 1 \in DOMAIN v /\ r[k] = v[k + 1] /\ k + 1 >= 1
      BY <1>1
    <3>3. i[1] # v[k + 1]
      <4>1. 1 \in DOMAIN v /\ t = v[1]
        BY <1>1
      <4>2. \A j \in DOMAIN v : j >= 1 => \A u \in Vin[t] : u[1] # v[j]
        BY <4>1 DEF Coming
      <4> QED
        BY <1>8, <2>2, <3>2, <4>2
    <3> QED
      BY <3>1, <3>2, <3>3
  <2> QED
    BY <1>4, <1>8, <2>1, <2>2
<1>9. InOrder(q, more)
  <2>1. InOrder(p, hashes) /\ \A h \in Range(hashes) : \A i \in Vin[h] : i[1] \notin Range(v)
    BY DEF Coming
  <2>2. ASSUME NEW k \in DOMAIN hashes PROVE hashes[k] # t /\ hashes[k] \in DOMAIN p
    BY <1>5, <2>1, <2>2 DEF InOrder
  <2>3. ASSUME NEW j \in DOMAIN more, NEW k \in DOMAIN more, more[j] = more[k] PROVE j = k
    <3>1. j \in DOMAIN hashes /\ k \in DOMAIN hashes => hashes[j] = hashes[k]
      BY <1>3, <2>3
    <3>2. j \in DOMAIN hashes /\ k \in DOMAIN hashes => j = k
      BY <2>1, <3>1 DEF InOrder
    <3>3. j \in DOMAIN hashes => k # n
      BY <1>3, <2>2, <2>3
    <3>4. k \in DOMAIN hashes => j # n
      BY <1>3, <2>2, <2>3
    <3> QED
      BY <1>3, <2>3, <3>2, <3>3, <3>4
  <2>4. ASSUME NEW k \in DOMAIN hashes
        PROVE  more[k] \in DOMAIN q /\ ParentsOf(q, more[k]) \subseteq {more[j] : j \in 1 .. k - 1}
    <3>1. more[k] = hashes[k] /\ hashes[k] \in DOMAIN p
      BY <1>3, <2>2, <2>4
    <3>2. \A i \in Vin[hashes[k]] : i[1] # t
      <4>1. t \in Range(v) /\ hashes[k] \in Range(hashes)
        BY <1>1, <2>4 DEF Range
      <4> QED
        BY <2>1, <4>1
    <3>3. ParentsOf(q, hashes[k]) \subseteq ParentsOf(p, hashes[k])
      BY <3>2 DEF ParentsOf
    <3>4. ParentsOf(p, hashes[k]) \subseteq {hashes[j] : j \in 1 .. k - 1}
      BY <2>1, <2>4 DEF InOrder
    <3>5. {hashes[j] : j \in 1 .. k - 1} \subseteq {more[j] : j \in 1 .. k - 1}
      BY <1>3, <2>4
    <3> QED
      BY <3>1, <3>3, <3>4, <3>5
  <2>5. more[n] \in DOMAIN q /\ ParentsOf(q, more[n]) \subseteq {more[j] : j \in 1 .. n - 1}
    <3>1. ParentsOf(q, t) \subseteq Range(hashes)
      BY <1>5 DEF ParentsOf
    <3>2. Range(hashes) \subseteq {more[j] : j \in 1 .. n - 1}
      BY <1>3 DEF Range
    <3> QED
      BY <1>3, <3>1, <3>2
  <2>6. ASSUME NEW k \in DOMAIN more
        PROVE  more[k] \in DOMAIN q /\ ParentsOf(q, more[k]) \subseteq {more[j] : j \in 1 .. k - 1}
    BY <1>3, <2>4, <2>5, <2>6
  <2> QED
    BY <2>3, <2>6 DEF InOrder
<1>10. Coming(q, C, r, more)
  BY ZenonT(40), <1>6, <1>7, <1>8, <1>9 DEF Coming
<1> QED
  BY <1>3, <1>4, <1>10

\* removeRecursive takes out what depends on a refused transaction, and none of
\* those that came back.
Refuses(p, deltas, C, S, V, hashes, t) ==
    /\ hashes \in Seq(Tx) /\ t \in V /\ t \notin DOMAIN p
    /\ Good(p, deltas, C, S, V, Range(hashes)) /\ InOrder(p, hashes)
    /\ \A h \in Range(hashes) : \A i \in Vin[h] : i[1] \notin V

Refused(p, deltas, C, S, V, hashes, t, q) ==
    /\ Good(q, deltas, C, S, V \ {t}, Range(hashes))
    /\ DOMAIN q \subseteq DOMAIN p /\ Range(hashes) \subseteq DOMAIN q

LEMMA RefusedStep ==
  ASSUME NEW p, NEW deltas, NEW C, NEW S, NEW V, NEW hashes, NEW t, Refuses(p, deltas, C, S, V, hashes, t),
         NEW q, q = RemoveRecursive(p, t)
  PROVE  Refused(p, deltas, C, S, V, hashes, t, q)
<1> SUFFICES ASSUME hashes \in Seq(Tx), t \in V, t \notin DOMAIN p,
                    Good(p, deltas, C, S, V, Range(hashes)), InOrder(p, hashes),
                    \A h \in Range(hashes) : \A i \in Vin[h] : i[1] \notin V
             PROVE  /\ Good(q, deltas, C, S, V \ {t}, Range(hashes))
                    /\ DOMAIN q \subseteq DOMAIN p /\ Range(hashes) \subseteq DOMAIN q
  BY DEF Refuses, Refused
<1> DEFINE held == Range(hashes)
           X == {x \in DOMAIN p : \E i \in Vin[x] : i[1] = t}
           D == CalculateDescendants(p, X)
           E == DOMAIN p \ held
<1>1. q = RemoveStaged(p, D, FALSE)
  BY DEF RemoveRecursive
<1>2. Shape(p) /\ X \in SUBSET DOMAIN p
  BY DEF Good
<1>3. ChildClosed(p, D) /\ X \subseteq D
  <2> HIDE DEF X
  <2> QED
    BY <1>2, Descendants DEF ChildClosed
<1>4. held \subseteq DOMAIN p /\ \A y \in held : ParentsOf(p, y) \subseteq held
  <2>1. ASSUME NEW k \in DOMAIN hashes PROVE hashes[k] \in DOMAIN p /\ ParentsOf(p, hashes[k]) \subseteq held
    <3>1. ParentsOf(p, hashes[k]) \subseteq {hashes[j] : j \in 1 .. k - 1}
      BY <2>1 DEF InOrder
    <3>2. ASSUME NEW u \in ParentsOf(p, hashes[k]) PROVE u \in held
      <4>1. PICK j \in 1 .. k - 1 : u = hashes[j]
        BY <3>1, <3>2
      <4>2. j \in DOMAIN hashes
        BY SMT, <2>1, <4>1
      <4> QED
        BY <4>1, <4>2 DEF Range
    <3> QED
      BY <2>1, <3>2 DEF InOrder
  <2> QED
    BY <2>1 DEF Range
<1>5. D \subseteq E
  <2>1. X \subseteq E
    <3>1. ASSUME NEW x \in X PROVE x \notin held
      BY <3>1
    <3> QED
      BY <3>1
  <2>2. ASSUME NEW u \in E, NEW y \in p[u].children PROVE y \in E
    <3>1. u \in DOMAIN p /\ u \notin held /\ y \in DOMAIN p
      BY <1>2, <2>2 DEF Shape
    <3>2. u \in p[y].parents /\ p[y].parents \subseteq ParentsOf(p, y)
      BY <1>2, <2>2, <3>1 DEF Shape
    <3>3. y \notin held
      BY <1>4, <3>1, <3>2
    <3> QED
      BY <3>1, <3>3
  <2>3. E \in SUBSET DOMAIN p
    OBVIOUS
  <2> HIDE DEF E, X
  <2> QED
    BY <2>1, <2>2, <2>3, DescendantsLeast
<1>6. D \cap held = {}
  BY <1>5
<1> HIDE DEF D, E, held
<1>7. Good(q, deltas, C, S, V, held) /\ Kept(p, D, q)
  <2>1. Good(p, deltas, C, S, V, held)
    BY DEF held
  <2> QED
    BY <1>1, <1>3, <1>6, <2>1, DownGood
<1>8. DOMAIN q = DOMAIN p \ D
  BY <1>7 DEF Kept
<1>9. ASSUME NEW x \in DOMAIN q, NEW i \in Vin[x] PROVE i[1] # t
  BY <1>3, <1>8, <1>9
<1>10. Good(q, deltas, C, S, V \ {t}, held)
  <2>1. \A x \in DOMAIN q : \A i \in Vin[x] :
          i[1] \in DOMAIN q \/ ((i \in Base \/ i[1] \in C) /\ i \notin S) \/ i[1] \in V
    BY <1>7 DEF Good
  <2>2. \A x \in DOMAIN q : \A i \in Vin[x] :
          i[1] \in DOMAIN q \/ ((i \in Base \/ i[1] \in C) /\ i \notin S) \/ i[1] \in V \ {t}
    BY <1>9, <2>1
  <2> QED
    BY <1>7, <2>2 DEF Good
<1> QED
  BY <1>4, <1>6, <1>8, <1>10 DEF held
=============================================================================
