----------------------------- MODULE Blocks_proofs -----------------------------
(***************************************************************************)
(* Lemmas about sums of blocks: when cells are changed, when filters are   *)
(* added up, and when an item of re-randomization is put into its cells.   *)
(***************************************************************************)
EXTENDS Blocks, FiniteSetTheorems, WellFoundedInduction, TLAPS

(* A set of numbers that has 0, and with a number below n the next.        *)
LEMMA CountUp ==
  ASSUME NEW n \in Nat, NEW T, 0 \in T, \A i \in 0 .. n - 1 : i \in T => i + 1 \in T
  PROVE  0 .. n \subseteq T
<1>. DEFINE Less == {ss \in Nat \X Nat : ss[1] < ss[2]}
            Left == (0 .. n) \ T
<1>. SUFFICES ASSUME Left # {} PROVE FALSE
  OBVIOUS
<1>1. IsWellFoundedOn(Less, Nat)
  BY NatLessThanWellFounded DEF OpToRel
<1>2. Left \subseteq Nat
  OBVIOUS
<1>3. PICK x \in Left : \A y \in Left : <<y, x>> \notin Less
  BY <1>1, <1>2, WFMin
<1>4. x # 0 /\ x - 1 \in 0 .. n - 1 /\ <<x - 1, x>> \in Less
  BY <1>2
<1>5. x - 1 \in T
  <2>. SUFFICES ASSUME x - 1 \notin T PROVE FALSE
    OBVIOUS
  <2>1. x - 1 \in Left
    BY <1>4
  <2>. QED  BY <1>3, <1>4, <2>1
<1>. QED  BY <1>2, <1>4, <1>5

LEMMA MinIsLeast ==
  ASSUME NEW S \in SUBSET Nat, S # {}
  PROVE  Min(S) \in S
<1>. DEFINE Less == {ss \in Nat \X Nat : ss[1] < ss[2]}
<1>1. IsWellFoundedOn(Less, Nat)
  BY NatLessThanWellFounded DEF OpToRel
<1>2. PICK x \in S : \A y \in S : <<y, x>> \notin Less
  BY <1>1, WFMin
<1>3. \A y \in S : x =< y
  <2>. SUFFICES ASSUME NEW y \in S, y < x PROVE FALSE
    OBVIOUS
  <2>1. <<y, x>> \in Less
    OBVIOUS
  <2>. QED  BY <1>2, <2>1
<1>. QED  BY <1>3 DEF Min

(* The places of f whose block has the bit a.                              *)
Holding(f, a) == {i \in DOMAIN f : a \in f[i]}

LEMMA XorCounts ==
  ASSUME NEW f, NEW a
  PROVE  a \in Xor(f) <=> (Cardinality(Holding(f, a)) % 2) = 1
<1>1. CASE Holding(f, a) = {}
  <2>1. Cardinality(Holding(f, a)) = 0
    BY <1>1, FS_EmptySet
  <2>. QED  BY <1>1, <2>1 DEF Xor, Holding
<1>2. CASE Holding(f, a) # {}
  <2>1. a \in UNION {f[i] : i \in DOMAIN f}
    BY <1>2 DEF Holding
  <2>. QED  BY <2>1 DEF Xor, Holding
<1>. QED  BY <1>1, <1>2

LEMMA SumCounts ==
  ASSUME NEW gbf, NEW S, NEW a
  PROVE  a \in SumOver(gbf, S) <=> (Cardinality({c \in S : a \in gbf[c]}) % 2) = 1
<1>1. Holding([c \in S |-> gbf[c]], a) = {c \in S : a \in gbf[c]}
  BY DEF Holding
<1>. QED  BY <1>1, XorCounts DEF SumOver

LEMMA SumIsBlock ==
  ASSUME NEW U, NEW S, NEW gbf, \A c \in S : gbf[c] \in SUBSET U
  PROVE  SumOver(gbf, S) \in SUBSET U
  BY DEF SumOver, Xor

(* The sum is over the cells of S only.                                    *)
LEMMA SumOfSame ==
  ASSUME NEW f, NEW g, NEW S, \A c \in S : f[c] = g[c]
  PROVE  SumOver(f, S) = SumOver(g, S)
<1>1. [c \in S |-> f[c]] = [c \in S |-> g[c]]
  OBVIOUS
<1>. QED  BY <1>1 DEF SumOver

(* The XOR of blocks that have nothing in common.                          *)
LEMMA XorApart ==
  ASSUME NEW f, \A i, j \in DOMAIN f : i # j => f[i] \cap f[j] = {}
  PROVE  Xor(f) = UNION {f[i] : i \in DOMAIN f}
<1>. SUFFICES ASSUME NEW a, NEW i \in DOMAIN f, a \in f[i] PROVE a \in Xor(f)
  BY DEF Xor
<1>1. {j \in DOMAIN f : a \in f[j]} = {i}
  OBVIOUS
<1>2. Cardinality({j \in DOMAIN f : a \in f[j]}) = 1
  BY <1>1, FS_Singleton
<1>. QED  BY <1>2 DEF Xor

(* An item of re_randomization that has an empty cell, in a filter with    *)
(* the cells D and blocks of the bits U.                                   *)
FillsIn(D, U, gbf, K, y, rnd) ==
  /\ D \subseteq Nat /\ IsFiniteSet(D)
  /\ gbf \in [D -> SUBSET U] /\ K \subseteq D /\ Empties(gbf, K) # {}
  /\ y \subseteq U /\ rnd \in [ForRandom(gbf, K) -> SUBSET U]

(* What one item in re_randomization does to the filter.                   *)
LEMMA FilledCells ==
  ASSUME NEW D, NEW U, NEW gbf, NEW K, NEW y, NEW rnd, FillsIn(D, U, gbf, K, y, rnd)
  PROVE  /\ Min(Empties(gbf, K)) \in Empties(gbf, K)
         /\ Filled(gbf, K, y, rnd) \in [D -> SUBSET U]
         /\ \A c \in D \ Empties(gbf, K) : Filled(gbf, K, y, rnd)[c] = gbf[c]
         /\ \A c \in ForRandom(gbf, K) : Filled(gbf, K, y, rnd)[c] = rnd[c]
         /\ Filled(gbf, K, y, rnd)[Min(Empties(gbf, K))]
              = SymDiff(y, SymDiff(SumOver(gbf, K), Xor(rnd)))
<1>. DEFINE E == Empties(gbf, K)
            m == Min(E)
            v == SymDiff(y, SymDiff(SumOver(gbf, K), Xor(rnd)))
<1>. USE DEF FillsIn
<1>1. E \subseteq D /\ E \subseteq Nat
  BY DEF Empties
<1>2. m \in E
  BY <1>1, MinIsLeast
<1>3. ForRandom(gbf, K) = E \ {m}
  BY DEF ForRandom
<1>4. SumOver(gbf, K) \in SUBSET U
  BY SumIsBlock
<1>5. Xor(rnd) \in SUBSET U
  BY DEF Xor
<1>6. v \in SUBSET U
  BY <1>4, <1>5 DEF SymDiff
<1>7. DOMAIN gbf = D /\ DOMAIN rnd = E \ {m}
  BY <1>3
<1>. HIDE DEF E, m, v
<1>8. Filled(gbf, K, y, rnd) = [c \in D |-> CASE c \in E \ {m} -> rnd[c]
                                                  [] c = m -> v
                                                  [] OTHER -> gbf[c]]
  BY <1>7 DEF Filled, E, m, v
<1>9. /\ \A c \in D \ E : Filled(gbf, K, y, rnd)[c] = gbf[c]
      /\ \A c \in E \ {m} : Filled(gbf, K, y, rnd)[c] = rnd[c]
      /\ Filled(gbf, K, y, rnd)[m] = v
  BY <1>1, <1>2, <1>8
<1>10. \A c \in D : Filled(gbf, K, y, rnd)[c] \in SUBSET U
  BY <1>3, <1>6, <1>9
<1>11. Filled(gbf, K, y, rnd) \in [D -> SUBSET U]
  BY <1>8, <1>10
<1>. QED  BY <1>2, <1>3, <1>9, <1>11 DEF E, m, v

(* The bits of a sum of sets that have nothing in common.                  *)
LEMMA OddUnion ==
  ASSUME NEW S, NEW T, IsFiniteSet(S), IsFiniteSet(T), \A x \in S : x \notin T
  PROVE  (Cardinality(S \cup T) % 2) = 1
           <=> ((Cardinality(S) % 2) = 1 <=> (Cardinality(T) % 2) # 1)
<1>1. S \cap T = {}
  OBVIOUS
<1>2. Cardinality(S \cap T) = 0
  BY <1>1, FS_EmptySet
<1>3. PICK s : s = Cardinality(S)
  OBVIOUS
<1>4. PICK t : t = Cardinality(T)
  OBVIOUS
<1>5. s \in Nat /\ t \in Nat
  BY <1>3, <1>4, FS_CardinalityType
<1>6. Cardinality(S \cup T) = s + t
  <2>1. Cardinality(S \cup T) = Cardinality(S) + Cardinality(T) - Cardinality(S \cap T)
    BY FS_Union
  <2>. QED  BY <1>2, <1>3, <1>4, <1>5, <2>1
<1>7. ((s + t) % 2) = 1 <=> ((s % 2) = 1 <=> (t % 2) # 1)
  BY <1>5
<1>. QED  BY <1>3, <1>4, <1>6, <1>7

(* The cells of the item then sum to its codeword.                         *)
LEMMA FilledSum ==
  ASSUME NEW D, NEW U, NEW gbf, NEW K, NEW y, NEW rnd, FillsIn(D, U, gbf, K, y, rnd)
  PROVE  SumOver(Filled(gbf, K, y, rnd), K) = y
<1>. DEFINE E == Empties(gbf, K)
            m == Min(E)
            v == SymDiff(y, SymDiff(SumOver(gbf, K), Xor(rnd)))
            F == Filled(gbf, K, y, rnd)
<1>1. /\ m \in E /\ F \in [D -> SUBSET U]
      /\ \A c \in D \ E : F[c] = gbf[c]
      /\ \A c \in E \ {m} : F[c] = rnd[c]
      /\ F[m] = v
  <2>1. ForRandom(gbf, K) = E \ {m}
    BY DEF ForRandom
  <2>2. /\ m \in E /\ F \in [D -> SUBSET U]
        /\ \A c \in D \ E : F[c] = gbf[c]
        /\ \A c \in ForRandom(gbf, K) : F[c] = rnd[c]
        /\ F[m] = v
    BY FilledCells
  <2>. QED  BY <2>1, <2>2
<1>2. DOMAIN rnd = E \ {m}
  BY DEF ForRandom, FillsIn
<1>3. E \subseteq K /\ \A c \in E : gbf[c] = {}
  BY DEF Empties, Zero
<1>4. IsFiniteSet(K)
  BY FS_Subset DEF FillsIn
<1>. HIDE DEF E, m, F
<1>5. SUFFICES ASSUME NEW a PROVE a \in SumOver(F, K) <=> a \in y
  BY DEF F
<1>. DEFINE H == {c \in K : a \in gbf[c]}
            Q == {c \in E \ {m} : a \in rnd[c]}
            V == {c \in {m} : a \in v}
<1>6. a \in SumOver(F, K) <=> (Cardinality({c \in K : a \in F[c]}) % 2) = 1
  <2>1. Holding([c \in K |-> F[c]], a) = {c \in K : a \in F[c]}
    BY DEF Holding
  <2>. QED  BY <2>1, XorCounts DEF SumOver
<1>7. a \in SumOver(gbf, K) <=> (Cardinality(H) % 2) = 1
  <2>1. Holding([c \in K |-> gbf[c]], a) = H
    BY DEF Holding
  <2>. QED  BY <2>1, XorCounts DEF SumOver
<1>8. a \in Xor(rnd) <=> (Cardinality(Q) % 2) = 1
  <2>1. Holding(rnd, a) = Q
    BY <1>2 DEF Holding
  <2>. QED  BY <2>1, XorCounts
<1>9. a \in v <=> (Cardinality(V) % 2) = 1
  <2>1. CASE a \in v
    <3>1. V = {m}
      BY <2>1
    <3>2. Cardinality(V) = 1
      BY <3>1, FS_Singleton
    <3>. QED  BY <2>1, <3>2
  <2>2. CASE a \notin v
    <3>1. V = {}
      BY <2>2
    <3>2. Cardinality(V) = 0
      BY <3>1, FS_EmptySet
    <3>. QED  BY <2>2, <3>2
  <2>. QED  BY <2>1, <2>2
<1>10. a \in v <=> ~(a \in y <=> ~(a \in SumOver(gbf, K) <=> a \in Xor(rnd)))
  BY DEF SymDiff
<1>11. {c \in K : a \in F[c]} = H \cup (Q \cup V)
  <2>1. \A c \in K : a \in F[c] <=> c \in H \cup (Q \cup V)
    <3>. SUFFICES ASSUME NEW c \in K PROVE a \in F[c] <=> c \in H \cup (Q \cup V)
      OBVIOUS
    <3>1. CASE c \notin E
      BY <1>1, <3>1 DEF FillsIn
    <3>2. CASE c \in E \ {m}
      BY <1>1, <1>3, <3>2
    <3>3. CASE c = m
      BY <1>1, <1>3, <3>3
    <3>. QED  BY <3>1, <3>2, <3>3
  <2>2. H \cup (Q \cup V) \subseteq K
    BY <1>1, <1>3
  <2>. QED  BY <2>1, <2>2
<1>12. /\ IsFiniteSet(H) /\ IsFiniteSet(Q) /\ IsFiniteSet(V) /\ IsFiniteSet(Q \cup V)
  <2>1. H \subseteq K /\ Q \subseteq K /\ V \subseteq K /\ Q \cup V \subseteq K
    BY <1>1, <1>3
  <2>. QED  BY <1>4, <2>1, FS_Subset
<1>13. /\ \A x \in Q : x \notin V
       /\ \A x \in H : x \notin Q \cup V
  BY <1>1, <1>3
<1>. HIDE DEF H, Q, V, v
<1>14. (Cardinality(Q \cup V) % 2) = 1
         <=> ((Cardinality(Q) % 2) = 1 <=> (Cardinality(V) % 2) # 1)
  BY <1>12, <1>13, OddUnion
<1>15. (Cardinality(H \cup (Q \cup V)) % 2) = 1
         <=> ((Cardinality(H) % 2) = 1 <=> (Cardinality(Q \cup V) % 2) # 1)
  BY <1>12, <1>13, OddUnion
<1>. QED  BY <1>6, <1>7, <1>8, <1>9, <1>10, <1>11, <1>14, <1>15

-----------------------------------------------------------------------------
(* Sums of sums.                                                           *)
LEMMA OddDiff ==
  ASSUME NEW S, NEW T, IsFiniteSet(S), IsFiniteSet(T)
  PROVE  /\ IsFiniteSet(SymDiff(S, T))
         /\ (Cardinality(SymDiff(S, T)) % 2) = 1
              <=> ((Cardinality(S) % 2) = 1 <=> (Cardinality(T) % 2) # 1)
<1>. DEFINE A == S \ T
            B == T \ S
            C == S \cap T
<1>1. IsFiniteSet(A) /\ IsFiniteSet(B) /\ IsFiniteSet(C)
  BY FS_Subset
<1>2. S = A \cup C /\ T = B \cup C /\ SymDiff(S, T) = A \cup B
  BY DEF SymDiff
<1>3. (\A x \in A : x \notin C) /\ (\A x \in B : x \notin C) /\ (\A x \in A : x \notin B)
  OBVIOUS
<1>. HIDE DEF A, B, C
<1>4. (Cardinality(A \cup C) % 2) = 1
        <=> ((Cardinality(A) % 2) = 1 <=> (Cardinality(C) % 2) # 1)
  BY <1>1, <1>3, OddUnion
<1>5. (Cardinality(B \cup C) % 2) = 1
        <=> ((Cardinality(B) % 2) = 1 <=> (Cardinality(C) % 2) # 1)
  BY <1>1, <1>3, OddUnion
<1>6. (Cardinality(A \cup B) % 2) = 1
        <=> ((Cardinality(A) % 2) = 1 <=> (Cardinality(B) % 2) # 1)
  BY <1>1, <1>3, OddUnion
<1>7. IsFiniteSet(A \cup B)
  BY <1>1, FS_Union
<1>. QED  BY <1>2, <1>4, <1>5, <1>6, <1>7

(* A filter that is the sum of two.                                        *)
LEMMA SumOfSums ==
  ASSUME NEW S, IsFiniteSet(S), NEW f, NEW g, NEW h,
         \A c \in S : h[c] = SymDiff(f[c], g[c])
  PROVE  SumOver(h, S) = SymDiff(SumOver(f, S), SumOver(g, S))
<1>. SUFFICES ASSUME NEW a
              PROVE  a \in SumOver(h, S) <=> a \in SymDiff(SumOver(f, S), SumOver(g, S))
  OBVIOUS
<1>. DEFINE F == {c \in S : a \in f[c]}
            G == {c \in S : a \in g[c]}
            H == {c \in S : a \in h[c]}
<1>1. H = SymDiff(F, G)
  BY DEF SymDiff
<1>2. /\ a \in SumOver(f, S) <=> (Cardinality(F) % 2) = 1
      /\ a \in SumOver(g, S) <=> (Cardinality(G) % 2) = 1
      /\ a \in SumOver(h, S) <=> (Cardinality(H) % 2) = 1
  BY SumCounts
<1>3. IsFiniteSet(F) /\ IsFiniteSet(G)
  BY FS_Subset
<1>. HIDE DEF F, G, H
<1>4. (Cardinality(H) % 2) = 1 <=> ((Cardinality(F) % 2) = 1 <=> (Cardinality(G) % 2) # 1)
  BY <1>1, <1>3, OddDiff
<1>. QED  BY <1>2, <1>4 DEF SymDiff

(* One block more.                                                         *)
LEMMA XorOneMore ==
  ASSUME NEW R, IsFiniteSet(R), NEW k, k \notin R, NEW f
  PROVE  Xor([i \in R \cup {k} |-> f[i]]) = SymDiff(Xor([i \in R |-> f[i]]), f[k])
<1>. SUFFICES ASSUME NEW a
              PROVE  a \in Xor([i \in R \cup {k} |-> f[i]])
                       <=> a \in SymDiff(Xor([i \in R |-> f[i]]), f[k])
  OBVIOUS
<1>. DEFINE F == {i \in R : a \in f[i]}
            K == {i \in {k} : a \in f[i]}
<1>1. /\ a \in SumOver(f, R) <=> (Cardinality(F) % 2) = 1
      /\ a \in SumOver(f, R \cup {k}) <=> (Cardinality({i \in R \cup {k} : a \in f[i]}) % 2) = 1
  BY SumCounts
<1>2. {i \in R \cup {k} : a \in f[i]} = F \cup K
  OBVIOUS
<1>3. (Cardinality(K) % 2) = 1 <=> a \in f[k]
  <2>1. CASE a \in f[k]
    <3>1. K = {k}
      BY <2>1
    <3>2. Cardinality(K) = 1
      BY <3>1, FS_Singleton
    <3>. QED  BY <2>1, <3>2
  <2>2. CASE a \notin f[k]
    <3>1. K = {}
      BY <2>2
    <3>. QED  BY <2>2, <3>1, FS_EmptySet
  <2>. QED  BY <2>1, <2>2
<1>4. IsFiniteSet(F) /\ IsFiniteSet(K) /\ \A x \in F : x \notin K
  <2>1. F \subseteq R /\ K \subseteq {k} /\ IsFiniteSet({k})
    BY FS_Singleton
  <2>. QED  BY <2>1, FS_Subset
<1>. HIDE DEF F, K
<1>5. (Cardinality(F \cup K) % 2) = 1 <=> ((Cardinality(F) % 2) = 1 <=> (Cardinality(K) % 2) # 1)
  BY <1>4, OddUnion
<1>. QED  BY <1>1, <1>2, <1>3, <1>5 DEF SymDiff, SumOver

=============================================================================
