---------------------------- MODULE PSImple_proofs ----------------------------
(***************************************************************************)
(* The protocol at the level of blocks, proved for every number of         *)
(* parties, items and cells, and every hash table: what the program prints *)
(* lies between the two bounds of PSI, and the filters of some of the Pis  *)
(* tell nothing that P0 could test with what it has.                       *)
(***************************************************************************)
EXTENDS PSImple, Blocks_proofs

(* What the online phase leaves in the filter of p, with its share.        *)
Base(p) == [c \in Cells |-> Share(p, c) \cup {String(p, link, c) : link \in LinksOf(p)}]

Randoms(k) == {<<"random", k, c>> : c \in Cells}

(* What the cells C of k, and its random blocks, are made of.              *)
Made(k, C) == Randoms(k) \cup UNION {Base(k)[c] : c \in C}

(* The blocks that nobody but k has when the filter of r is missing.       *)
OnlyOf(k, r) == Randoms(k) \cup {<<"keys", {k, r}, c>> : c \in Cells}

(* Of any of the cells C, one has such a block, and no other of them has   *)
(* it: no XOR of some of them is without.                                  *)
Independent(k, r, gbf, C) ==
  \A D \in (SUBSET C) \ {{}} : \E d \in D : \E a \in OnlyOf(k, r) :
    a \in gbf[d] /\ \A e \in D \ {d} : a \notin gbf[e]

(* The cells of the first i items of k.                                    *)
UsedBy(k, i) == UNION {h_kokhav[items[k][j]] : j \in 1 .. i}

(* After i items of re_randomization: which cells are in use, of what they *)
(* are made, and what they sum to.                                         *)
FoldInv(k, gbf, i) ==
  /\ gbf \in [Cells -> SUBSET Made(k, UsedBy(k, i))]
  /\ \A c \in Cells : gbf[c] = Zero <=> c \notin UsedBy(k, i)
  /\ \A c \in Cells : \A d \in Cells \ UsedBy(k, i) : <<"random", k, d>> \notin gbf[c]
  /\ \A r \in Pis \ {k} : Independent(k, r, gbf, UsedBy(k, i))
  /\ \A j \in 1 .. i : ~(h_kokhav[items[k][j]] \subseteq UsedBy(k, j - 1)) =>
       SumOver(gbf, h_kokhav[items[k][j]]) = SumOver(Base(k), h_kokhav[items[k][j]])

Inputs ==
  /\ h_kokhav \in [Values -> (SUBSET Cells) \ {{}}]
  /\ \A p \in Players : items[p] \in Seq(Values)

Phases ==
  /\ phase \in [Players -> {"offline", "online", "codewords", "receive", "done"}]
  /\ phase[0] # "codewords" /\ \A k \in Pis : phase[k] # "receive"
  /\ received \subseteq {k \in Pis : phase[k] = "done"}
  /\ received # {} => phase[0] \in {"receive", "done"}
  /\ \/ phase[0] # "done" /\ printed = <<>>
     \/ phase[0] = "done" /\ received = Pis /\ \E S \in SUBSET ItemsOf(0) : printed = <<S>>

(* What re_randomization makes of Base(k): no cell is zero, a cell is made *)
(* of random blocks and what is in cells of the Bloom filter, the cells    *)
(* are independent of each other, and the sum of an item that was not left *)
(* out is kept.                                                            *)
ReRandomizes(k, gbf) ==
  /\ gbf \in [Cells -> SUBSET Made(k, BF(k))]
  /\ \A r \in Pis \ {k} : Independent(k, r, gbf, Cells)
  /\ \A x \in ItemsOf(k) \ LeftOut(k) :
       SumOver(gbf, h_kokhav[x]) = SumOver(Base(k), h_kokhav[x])

SentInv ==
  /\ GBF = [k \in Pis |-> GBF[k]]
  /\ \A k \in Pis : phase[k] = "done" => Empties(GBF[k], Cells) = {}
  /\ \A k \in Pis : parties > 2 /\ phase[k] = "done" => ReRandomizes(k, GBF[k])

(* The sum of the cells of an item, in the filter of P0, is that of its    *)
(* own contents and of the filters that it has received.                   *)
ReceivedSum(x) == Xor([k \in received |-> SumOver(GBF[k], h_kokhav[x])])

AccInv ==
  /\ acc = [p \in Players |-> [c \in Cells |-> acc[p][c]]]
  /\ \A p \in Players : phase[p] = "online" => acc[p] = [c \in Cells |-> Share(p, c)]
  /\ \A k \in Pis : phase[k] = "codewords" => acc[k] = Base(k)
  /\ phase[0] \in {"receive", "done"} => \A x \in ItemsOf(0) :
       SumOver(acc[0], h_kokhav[x]) = SymDiff(SumOver(Base(0), h_kokhav[x]), ReceivedSum(x))

PrintedInv == \A i \in DOMAIN printed : Sure \subseteq printed[i] /\ printed[i] \subseteq Possible

IInv == Inputs /\ Phases /\ SentInv /\ (parties > 2 => AccInv /\ PrintedInv)

-----------------------------------------------------------------------------
(* re_randomization item by item.                                          *)
LEMMA FiltersSteps ==
  ASSUME NEW k, items[k] \in Seq(Values)
  PROVE  Filters(k) = [i \in 0 .. Len(items[k]) |->
           IF i = 0 THEN Empty ELSE FilledFor(k, Filters(k)[i - 1], items[k][i])]
<1>. DEFINE F(f, i) == IF i = 0 THEN Empty ELSE FilledFor(k, f[i - 1], items[k][i])
            n == Len(items[k])
            T == {m \in 0 .. n : \E f : f = [i \in 0 .. m |-> F(f, i)]}
<1>1. n \in Nat
  OBVIOUS
<1>. HIDE DEF n
<1>2. 0 \in T
  <2>1. PICK f : f = [i \in 0 .. 0 |-> Empty]
    OBVIOUS
  <2>2. f = [i \in 0 .. 0 |-> F(f, i)]
    BY <2>1
  <2>. QED  BY <1>1, <2>2
<1>3. ASSUME NEW m \in 0 .. n - 1, m \in T
      PROVE  m + 1 \in T
  <2>1. PICK f : f = [i \in 0 .. m |-> F(f, i)]
    BY <1>3
  <2>2. PICK g : g = [i \in 0 .. m + 1 |-> IF i = m + 1 THEN FilledFor(k, f[m], items[k][i]) ELSE f[i]]
    OBVIOUS
  <2>3. \A i \in 0 .. m + 1 : g[i] = F(g, i)
    <3>. SUFFICES ASSUME NEW i \in 0 .. m + 1 PROVE g[i] = F(g, i)
      OBVIOUS
    <3>1. CASE i = m + 1
      BY <1>1, <2>2, <3>1
    <3>2. CASE i \in 0 .. m
      <4>1. g[i] = f[i] /\ (i # 0 => g[i - 1] = f[i - 1])
        BY <1>1, <2>2, <3>2
      <4>2. f[i] = F(f, i)
        BY <2>1, <3>2
      <4>. QED  BY <4>1, <4>2
    <3>. QED  BY <1>1, <3>1, <3>2
  <2>4. g = [i \in 0 .. m + 1 |-> F(g, i)]
    BY <2>2, <2>3
  <2>. QED  BY <1>1, <2>4
<1>4. n \in T
  <2>. HIDE DEF T
  <2>1. 0 .. n \subseteq T
    BY <1>1, <1>2, <1>3, CountUp
  <2>. QED  BY <1>1, <2>1
<1>5. \E f : f = [i \in 0 .. n |-> F(f, i)]
  BY <1>4
<1>6. Filters(k) = CHOOSE f : f = [i \in 0 .. n |-> F(f, i)]
  BY DEF Filters, n
<1>. QED  BY <1>5, <1>6 DEF n


-----------------------------------------------------------------------------
(* What Base is made of.                                                   *)
LEMMA Numbers == /\ parties \in Nat /\ parties >= 2 /\ Players \subseteq Nat /\ Pis \subseteq Players
                 /\ 0 \in Players /\ 0 \notin Pis /\ Cells \subseteq Nat
                 /\ IsFiniteSet(Players) /\ IsFiniteSet(Pis) /\ IsFiniteSet(Cells)
<1>1. IsFiniteSet(Players) /\ IsFiniteSet(Cells)
  BY PSImpleAssumption, FS_Interval DEF Players, Cells
<1>2. IsFiniteSet(Pis)
  BY <1>1, FS_Subset DEF Pis
<1>. QED  BY <1>1, <1>2, PSImpleAssumption DEF Players, Pis, Cells

(* A key stream is with the two players that share it.                     *)
LEMMA KeysInBase ==
  ASSUME NEW p \in Players, NEW c \in Cells,
         NEW q \in Players, NEW r \in Players, q # r, NEW d
  PROVE  <<"keys", {q, r}, d>> \in Base(p)[c] <=> c = d /\ p \in {q, r}
<1>1. ASSUME NEW link, NEW b \in BOOLEAN PROVE <<"keys", {q, r}, d>> # <<"string", link, c, b>>
  OBVIOUS
<1>2. \A link : <<"keys", {q, r}, d>> # String(p, link, c)
  BY <1>1 DEF String
<1>3. ASSUME NEW s \in Players \ {p}
      PROVE  <<"keys", {q, r}, d>> = <<"keys", {p, s}, c>> <=> {q, r} = {p, s} /\ d = c
  OBVIOUS
<1>4. <<"keys", {q, r}, d>> \in Share(p, c) <=> \E s \in Players \ {p} : {q, r} = {p, s} /\ d = c
  BY <1>3 DEF Share
<1>5. (\E s \in Players \ {p} : {q, r} = {p, s}) <=> p \in {q, r}
  <2>1. ASSUME p = q PROVE \E s \in Players \ {p} : {q, r} = {p, s}
    BY <2>1
  <2>2. ASSUME p = r PROVE \E s \in Players \ {p} : {q, r} = {p, s}
    <3>1. q \in Players \ {p} /\ {q, r} = {p, q}
      BY <2>2
    <3>. QED  BY <3>1
  <2>3. ASSUME \E s \in Players \ {p} : {q, r} = {p, s} PROVE p \in {q, r}
    BY <2>3
  <2>. QED  BY <2>1, <2>2, <2>3
<1>. QED  BY <1>2, <1>4, <1>5 DEF Base

(* A string is with the two ends of its link, which may differ in its bit. *)
LEMMA StringInBase ==
  ASSUME NEW p \in Players, NEW c \in Cells, NEW link, NEW d, NEW b \in BOOLEAN
  PROVE  <<"string", link, d, b>> \in Base(p)[c]
           <=> c = d /\ link \in LinksOf(p) /\ (b <=> c \in BF(p))
<1>1. <<"string", link, d, b>> \notin Share(p, c)
  <2>1. \A s : <<"string", link, d, b>> # <<"keys", s, c>>
    OBVIOUS
  <2>. QED  BY <2>1 DEF Share
<1>2. ASSUME NEW k, NEW e \in BOOLEAN
      PROVE  <<"string", link, d, b>> = <<"string", k, c, e>> <=> link = k /\ d = c /\ (b <=> e)
  OBVIOUS
<1>3. \A k : <<"string", link, d, b>> = String(p, k, c) <=> link = k /\ d = c /\ (b <=> c \in BF(p))
  BY <1>2 DEF String
<1>. QED  BY <1>1, <1>3 DEF Base

(* There is nothing else in it.                                            *)
LEMMA AtomsOfBase ==
  ASSUME NEW p \in Players, NEW c \in Cells, NEW a \in Base(p)[c]
  PROVE  \/ \E q \in Players \ {p} : a = <<"keys", {p, q}, c>>
         \/ \E link \in LinksOf(p), b \in BOOLEAN : a = <<"string", link, c, b>>
<1>1. a \in Share(p, c) \/ \E link \in LinksOf(p) : a = String(p, link, c)
  BY DEF Base
<1>2. a \in Share(p, c) => \E q \in Players \ {p} : a = <<"keys", {p, q}, c>>
  BY DEF Share
<1>3. ASSUME NEW link \in LinksOf(p), a = String(p, link, c)
      PROVE  \E k \in LinksOf(p), b \in BOOLEAN : a = <<"string", k, c, b>>
  <2>1. (c \in BF(p)) \in BOOLEAN
    OBVIOUS
  <2>. QED  BY <1>3, <2>1 DEF String
<1>. QED  BY <1>1, <1>2, <1>3

(* Nothing is in two cells, and so nothing cancels in a sum of cells.      *)
LEMMA BaseSum ==
  ASSUME NEW p \in Players, NEW K \in SUBSET Cells
  PROVE  SumOver(Base(p), K) = UNION {Base(p)[c] : c \in K}
<1>1. ASSUME NEW c \in Cells, NEW a \in Base(p)[c] PROVE a[3] = c
  BY AtomsOfBase
<1>2. \A c, d \in K : c # d => Base(p)[c] \cap Base(p)[d] = {}
  BY <1>1
<1>. DEFINE f == [c \in K |-> Base(p)[c]]
<1>3. DOMAIN f = K /\ \A c \in K : f[c] = Base(p)[c]
  OBVIOUS
<1>4. Xor(f) = UNION {f[c] : c \in K}
  <2>. HIDE DEF f
  <2>. QED  BY <1>2, <1>3, XorApart
<1>5. Xor(f) = UNION {Base(p)[c] : c \in K}
  BY <1>4, <1>3
<1>. QED  BY <1>5 DEF SumOver

LEMMA RandomsApart ==
  ASSUME NEW k, NEW a \in Randoms(k)
  PROVE  /\ \A s, d : a # <<"keys", s, d>>
         /\ \A link, d : \A b \in BOOLEAN : a # <<"string", link, d, b>>
<1>1. PICK c \in Cells : a = <<"random", k, c>>
  BY DEF Randoms
<1>2. \A s, d : a # <<"keys", s, d>>
  BY <1>1
<1>3. ASSUME NEW link, NEW d, NEW b \in BOOLEAN PROVE a # <<"string", link, d, b>>
  BY <1>1
<1>. QED  BY <1>2, <1>3

LEMMA KeysMade ==
  ASSUME NEW k \in Players, NEW C \in SUBSET Cells,
         NEW q \in Players, NEW r \in Players, q # r, NEW d
  PROVE  <<"keys", {q, r}, d>> \in Made(k, C) <=> d \in C /\ k \in {q, r}
<1>. DEFINE a == <<"keys", {q, r}, d>>
<1>1. a \notin Randoms(k)
  BY RandomsApart
<1>2. \A c \in C : a \in Base(k)[c] <=> c = d /\ k \in {q, r}
  BY KeysInBase
<1>. HIDE DEF a
<1>3. a \in Made(k, C) <=> \E c \in C : a \in Base(k)[c]
  BY <1>1 DEF Made
<1>4. a \in Made(k, C) <=> d \in C /\ k \in {q, r}
  BY <1>2, <1>3
<1>. QED  BY <1>4 DEF a

LEMMA StringMade ==
  ASSUME NEW k \in Players, NEW C \in SUBSET Cells, NEW link, NEW d, NEW b \in BOOLEAN
  PROVE  <<"string", link, d, b>> \in Made(k, C)
           <=> d \in C /\ link \in LinksOf(k) /\ (b <=> d \in BF(k))
<1>. DEFINE a == <<"string", link, d, b>>
<1>1. a \notin Randoms(k)
  BY RandomsApart
<1>2. \A c \in C : a \in Base(k)[c] <=> c = d /\ link \in LinksOf(k) /\ (b <=> c \in BF(k))
  BY StringInBase
<1>. HIDE DEF a
<1>3. a \in Made(k, C) <=> \E c \in C : a \in Base(k)[c]
  BY <1>1 DEF Made
<1>4. a \in Made(k, C) <=> d \in C /\ link \in LinksOf(k) /\ (b <=> d \in BF(k))
  BY <1>2, <1>3
<1>. QED  BY <1>4 DEF a

(* The random blocks of q are only in what q makes.                        *)
LEMMA RandomMade ==
  ASSUME NEW k \in Players, NEW C \in SUBSET Cells, NEW q, NEW d
  PROVE  /\ \A c \in C : <<"random", q, d>> \notin Base(k)[c]
         /\ <<"random", q, d>> \in Made(k, C) => q = k
<1>1. ASSUME NEW link, NEW c, NEW b \in BOOLEAN
      PROVE  <<"random", q, d>> # <<"string", link, c, b>>
  OBVIOUS
<1>2. \A t, c : <<"random", q, d>> # <<"keys", t, c>>
  OBVIOUS
<1>3. \A c \in C : <<"random", q, d>> \notin Base(k)[c]
  BY <1>1, <1>2, AtomsOfBase
<1>4. <<"random", q, d>> \in Randoms(k) => q = k
  BY DEF Randoms
<1>. QED  BY <1>3, <1>4 DEF Made

-----------------------------------------------------------------------------
(* One item in re_randomization.                                           *)
LEMMA UsedOneMore ==
  ASSUME Inputs, NEW k \in Pis, NEW i \in 0 .. Len(items[k]) - 1
  PROVE  /\ items[k][i + 1] \in Values /\ i + 1 \in 1 .. Len(items[k])
         /\ h_kokhav[items[k][i + 1]] \in SUBSET Cells
         /\ UsedBy(k, i + 1) = UsedBy(k, i) \cup h_kokhav[items[k][i + 1]]
         /\ UsedBy(k, i) \in SUBSET Cells
<1>1. items[k] \in Seq(Values)
  BY Numbers DEF Inputs
<1>2. Len(items[k]) \in Nat /\ i \in Nat /\ i + 1 \in 1 .. Len(items[k])
  BY <1>1
<1>3. \A j \in 1 .. Len(items[k]) : items[k][j] \in Values
  BY <1>1
<1>4. \A j \in 1 .. Len(items[k]) : h_kokhav[items[k][j]] \in SUBSET Cells
  BY <1>3 DEF Inputs
<1>5. 1 .. i + 1 = (1 .. i) \cup {i + 1} /\ 1 .. i \subseteq 1 .. Len(items[k])
  BY <1>2
<1>6. UsedBy(k, i) \in SUBSET Cells
  BY <1>4, <1>5 DEF UsedBy
<1>7. UsedBy(k, i + 1) = UsedBy(k, i) \cup h_kokhav[items[k][i + 1]]
  BY <1>5 DEF UsedBy
<1>. QED  BY <1>2, <1>3, <1>4, <1>6, <1>7

(* The first i items of k all have their cells among those in use.         *)
LEMMA UsedCovers ==
  ASSUME NEW k, NEW i \in Nat, NEW j \in 1 .. i
  PROVE  h_kokhav[items[k][j]] \subseteq UsedBy(k, i)
BY DEF UsedBy

LEMMA FillsHere ==
  ASSUME Inputs, NEW k \in Pis, acc[k] = Base(k), NEW i \in 0 .. Len(items[k]) - 1,
         NEW gbf, FoldInv(k, gbf, i), NEW K, K = h_kokhav[items[k][i + 1]],
         Empties(gbf, K) # {}
  PROVE  /\ FillsIn(Cells, Made(k, UsedBy(k, i + 1)), gbf, K, SumOver(acc[k], K),
                    Random(k, ForRandom(gbf, K)))
         /\ Empties(gbf, K) = K \ UsedBy(k, i)
<1>. DEFINE U == Made(k, UsedBy(k, i + 1))
            rnd == Random(k, ForRandom(gbf, K))
<1>1. /\ K \in SUBSET Cells /\ UsedBy(k, i) \in SUBSET Cells
      /\ UsedBy(k, i + 1) = UsedBy(k, i) \cup K
  BY UsedOneMore
<1>2. gbf \in [Cells -> SUBSET U]
  <2>1. Made(k, UsedBy(k, i)) \subseteq U
    BY <1>1 DEF Made
  <2>2. gbf \in [Cells -> SUBSET Made(k, UsedBy(k, i))]
    BY DEF FoldInv
  <2>. HIDE DEF U
  <2>. QED  BY <2>1, <2>2
<1>3. Empties(gbf, K) = K \ UsedBy(k, i)
  BY <1>1 DEF FoldInv, Empties
<1>4. SumOver(acc[k], K) \subseteq U
  <2>1. SumOver(Base(k), K) = UNION {Base(k)[c] : c \in K}
    BY <1>1, BaseSum, Numbers
  <2>. QED  BY <1>1, <2>1 DEF Made
<1>5. rnd \in [ForRandom(gbf, K) -> SUBSET U]
  <2>1. ForRandom(gbf, K) \subseteq Cells
    BY <1>1 DEF ForRandom, Empties
  <2>2. \A c \in Cells : {<<"random", k, c>>} \subseteq U
    BY DEF Made, Randoms
  <2>. HIDE DEF U
  <2>. QED  BY <2>1, <2>2 DEF Random
<1>. HIDE DEF U, rnd
<1>6. FillsIn(Cells, U, gbf, K, SumOver(acc[k], K), rnd)
  BY <1>1, <1>2, <1>4, <1>5, Numbers DEF FillsIn
<1>. QED  BY <1>3, <1>6 DEF U, rnd

(* The first empty cell has its keys afterwards: the codeword has them,    *)
(* and nothing else of what makes up the cell.                             *)
LEMMA FirstHasKeys ==
  ASSUME NEW k \in Pis, NEW C \in SUBSET Cells, NEW K \in SUBSET Cells, NEW m \in K \ C,
         NEW gbf, \A c \in K : gbf[c] \subseteq Made(k, C),
         NEW rnd, \A c \in DOMAIN rnd : rnd[c] \subseteq Randoms(k),
         NEW r \in Players \ {k}
  PROVE  <<"keys", {k, r}, m>> \in SymDiff(SumOver(Base(k), K), SymDiff(SumOver(gbf, K), Xor(rnd)))
<1>. DEFINE a == <<"keys", {k, r}, m>>
<1>1. k \in Players /\ k # r /\ k \in {k, r}
  BY Numbers
<1>2. a \in SumOver(Base(k), K)
  <2>1. a \in Base(k)[m]
    BY <1>1, KeysInBase
  <2>2. SumOver(Base(k), K) = UNION {Base(k)[c] : c \in K}
    BY <1>1, BaseSum
  <2>. HIDE DEF a
  <2>. QED  BY <2>1, <2>2
<1>3. a \notin Made(k, C)
  BY <1>1, KeysMade
<1>4. a \notin Randoms(k)
  BY RandomsApart
<1>. HIDE DEF a
<1>5. a \notin SumOver(gbf, K)
  BY <1>3, SumIsBlock
<1>6. a \notin Xor(rnd)
  BY <1>4 DEF Xor
<1>7. a \in SymDiff(SumOver(Base(k), K), SymDiff(SumOver(gbf, K), Xor(rnd)))
  BY <1>2, <1>5, <1>6 DEF SymDiff
<1>. QED  BY <1>7 DEF a

(* After one more item: m is the first empty cell, N are all of them.      *)
LEMMA StillIndependent ==
  ASSUME NEW k \in Pis, NEW r \in Pis \ {k}, NEW C \in SUBSET Cells, NEW N \in SUBSET Cells,
         N \cap C = {}, NEW m \in N, NEW gbf, NEW F,
         \A c \in C : gbf[c] \subseteq Made(k, C) /\ F[c] = gbf[c],
         \A c \in C : \A d \in Cells \ C : <<"random", k, d>> \notin gbf[c],
         \A c \in N \ {m} : F[c] = {<<"random", k, c>>},
         <<"keys", {k, r}, m>> \in F[m],
         Independent(k, r, gbf, C)
  PROVE  Independent(k, r, F, C \cup N)
<1>. SUFFICES ASSUME NEW D \in (SUBSET (C \cup N)) \ {{}}
              PROVE  \E d \in D : \E a \in OnlyOf(k, r) :
                       a \in F[d] /\ \A e \in D \ {d} : a \notin F[e]
  BY DEF Independent
<1>1. CASE D \subseteq C
  <2>1. D \in (SUBSET C) \ {{}}
    BY <1>1
  <2>2. PICK d \in D : \E a \in OnlyOf(k, r) : a \in gbf[d] /\ \A e \in D \ {d} : a \notin gbf[e]
    BY <2>1 DEF Independent
  <2>3. \A e \in D : F[e] = gbf[e]
    BY <1>1
  <2>. QED  BY <2>2, <2>3
<1>2. CASE m \in D
  <2>. DEFINE a == <<"keys", {k, r}, m>>
  <2>1. a \in OnlyOf(k, r)
    BY DEF OnlyOf
  <2>2. ASSUME NEW e \in D \ {m} PROVE a \notin F[e]
    <3>1. CASE e \in C
      <4>1. k \in Players /\ r \in Players /\ k # r /\ m \notin C
        BY Numbers
      <4>2. a \notin Made(k, C)
        BY <4>1, KeysMade
      <4>. HIDE DEF a
      <4>. QED  BY <3>1, <4>2
    <3>2. CASE e \in N
      BY <3>2
    <3>. QED  BY <3>1, <3>2
  <2>3. a \in F[m]
    OBVIOUS
  <2>. HIDE DEF a
  <2>. QED  BY <1>2, <2>1, <2>2, <2>3
<1>3. CASE m \notin D /\ ~(D \subseteq C)
  <2>1. PICK d \in D : d \in N /\ d # m /\ d \notin C
    BY <1>3
  <2>. DEFINE a == <<"random", k, d>>
  <2>2. a \in OnlyOf(k, r) /\ a \in F[d]
    BY <2>1 DEF OnlyOf, Randoms
  <2>3. ASSUME NEW e \in D \ {d} PROVE a \notin F[e]
    <3>1. CASE e \in C
      BY <2>1, <3>1
    <3>2. CASE e \in N
      BY <1>3, <2>3, <3>2
    <3>. QED  BY <3>1, <3>2
  <2>. HIDE DEF a
  <2>. QED  BY <2>2, <2>3
<1>. QED  BY <1>1, <1>2, <1>3

LEMMA FoldStep ==
  ASSUME Inputs, NEW k \in Pis, acc[k] = Base(k), NEW i \in 0 .. Len(items[k]) - 1,
         NEW gbf, FoldInv(k, gbf, i)
  PROVE  FoldInv(k, FilledFor(k, gbf, items[k][i + 1]), i + 1)
<1>. DEFINE K == h_kokhav[items[k][i + 1]]
<1>1. /\ K \in SUBSET Cells /\ UsedBy(k, i) \in SUBSET Cells
      /\ UsedBy(k, i + 1) = UsedBy(k, i) \cup K
  BY UsedOneMore
<1>2. i \in Nat /\ i + 1 \in Nat /\ (i + 1) - 1 = i /\ \A j \in 1 .. i + 1 : j \in 1 .. i \/ j = i + 1
  OBVIOUS
<1>3. \A j \in 1 .. i : h_kokhav[items[k][j]] \subseteq UsedBy(k, i)
  BY <1>2, UsedCovers
<1>4. Empties(gbf, K) = K \ UsedBy(k, i)
  BY <1>1 DEF FoldInv, Empties
<1>. HIDE DEF K
<1>5. CASE Empties(gbf, K) = {}
  <2>1. UsedBy(k, i + 1) = UsedBy(k, i) /\ K \subseteq UsedBy(k, (i + 1) - 1)
    BY <1>1, <1>2, <1>4, <1>5
  <2>2. FilledFor(k, gbf, items[k][i + 1]) = gbf
    BY <1>5 DEF FilledFor, K
  <2>3. \A j \in 1 .. i + 1 : ~(h_kokhav[items[k][j]] \subseteq UsedBy(k, j - 1)) =>
          SumOver(gbf, h_kokhav[items[k][j]]) = SumOver(Base(k), h_kokhav[items[k][j]])
    BY <1>2, <2>1 DEF FoldInv, K
  <2>4. FoldInv(k, gbf, i + 1)
    BY <2>1, <2>3 DEF FoldInv
  <2>. QED  BY <2>2, <2>4
<1>6. CASE Empties(gbf, K) # {}
  <2>. DEFINE U == Made(k, UsedBy(k, i + 1))
              R == ForRandom(gbf, K)
              rnd == Random(k, R)
              y == SumOver(acc[k], K)
              m == Min(Empties(gbf, K))
              F == Filled(gbf, K, y, rnd)
  <2>1. FillsIn(Cells, U, gbf, K, y, rnd)
    BY <1>6, FillsHere DEF K
  <2>2. /\ m \in Empties(gbf, K)
        /\ F \in [Cells -> SUBSET U]
        /\ \A c \in Cells \ Empties(gbf, K) : F[c] = gbf[c]
        /\ \A c \in R : F[c] = rnd[c]
        /\ F[m] = SymDiff(y, SymDiff(SumOver(gbf, K), Xor(rnd)))
    <3>. HIDE DEF U, y, rnd
    <3>. QED  BY <2>1, FilledCells
  <2>2a. m \in K \ UsedBy(k, i)
    <3>. HIDE DEF m
    <3>. QED  BY <1>4, <2>2
  <2>3. SumOver(F, K) = y
    <3>. HIDE DEF U, y, rnd
    <3>. QED  BY <2>1, FilledSum
  <2>4. R = (K \ UsedBy(k, i)) \ {m} /\ R \subseteq Cells
    BY <1>1, <1>4 DEF ForRandom
  <2>5. DOMAIN rnd = R /\ \A c \in R : rnd[c] = {<<"random", k, c>>} /\ rnd[c] \subseteq Randoms(k)
    BY <2>4 DEF Random, Randoms
  <2>6. y = SumOver(Base(k), K)
    OBVIOUS
  <2>7. \A r \in Players \ {k} : <<"keys", {k, r}, m>> \in F[m]
    <3>1. \A c \in K : gbf[c] \subseteq Made(k, UsedBy(k, i))
      BY <1>1 DEF FoldInv
    <3>2. \A r \in Players \ {k} : <<"keys", {k, r}, m>> \in
             SymDiff(SumOver(Base(k), K), SymDiff(SumOver(gbf, K), Xor(rnd)))
      <4>. HIDE DEF rnd, m
      <4>. QED  BY <1>1, <2>2a, <2>5, <3>1, FirstHasKeys
    <3>. HIDE DEF F, rnd, y, m
    <3>. QED  BY <2>2, <2>6, <3>2
  <2>8. F[m] # Zero
    <3>1. 0 \in Players \ {k}
      BY Numbers
    <3>. HIDE DEF F, m
    <3>. QED  BY <2>7, <3>1 DEF Zero
  <2>. HIDE DEF F, rnd, y, m, R
  <2>9. F \in [Cells -> SUBSET Made(k, UsedBy(k, i + 1))]
    BY <2>2
  <2>10. ASSUME NEW c \in Cells
         PROVE  F[c] = Zero <=> c \notin UsedBy(k, i + 1)
    <3>1. CASE c \in R
      <4>1. F[c] # Zero
        BY <2>2, <2>5, <3>1 DEF Zero
      <4>2. c \in UsedBy(k, i + 1)
        BY <1>1, <2>4, <3>1
      <4>. QED  BY <4>1, <4>2
    <3>2. CASE c = m
      BY <1>1, <2>2a, <2>8, <3>2
    <3>3. CASE c \notin Empties(gbf, K)
      <4>1. F[c] = gbf[c] /\ (gbf[c] = Zero <=> c \notin UsedBy(k, i))
        BY <2>2, <3>3 DEF FoldInv
      <4>2. c \in UsedBy(k, i + 1) <=> c \in UsedBy(k, i)
        BY <1>1, <1>4, <3>3
      <4>. QED  BY <4>1, <4>2
    <3>. QED  BY <1>4, <2>4, <3>1, <3>2, <3>3
  <2>10a. ASSUME NEW c \in Cells, NEW d \in Cells \ UsedBy(k, i + 1)
          PROVE  <<"random", k, d>> \notin F[c]
    <3>0. d \notin UsedBy(k, i) /\ d \notin R
      BY <1>1, <2>4
    <3>1. CASE c \in R
      BY <2>2, <2>5, <3>0, <3>1
    <3>2. CASE c = m
      <4>. DEFINE a == <<"random", k, d>>
      <4>1. a \notin SumOver(Base(k), K)
        <5>1. \A e \in K : a \notin Base(k)[e]
          BY <1>1, RandomMade, Numbers
        <5>2. SumOver(Base(k), K) = UNION {Base(k)[e] : e \in K}
          BY <1>1, BaseSum, Numbers
        <5>. HIDE DEF a
        <5>. QED  BY <5>1, <5>2
      <4>2. a \notin SumOver(gbf, K)
        <5>1. \A e \in K : a \notin gbf[e]
          BY <1>1, <3>0 DEF FoldInv
        <5>. HIDE DEF a
        <5>. QED  BY <5>1 DEF SumOver, Xor
      <4>3. a \notin Xor(rnd)
        <5>1. \A e \in R : a \notin rnd[e]
          BY <2>5, <3>0
        <5>. HIDE DEF a
        <5>. QED  BY <2>5, <5>1 DEF Xor
      <4>. HIDE DEF a
      <4>4. a \notin F[m]
        BY <2>2, <2>6, <4>1, <4>2, <4>3 DEF SymDiff
      <4>. QED  BY <3>2, <4>4 DEF a
    <3>3. CASE c \notin Empties(gbf, K)
      <4>1. F[c] = gbf[c]
        BY <2>2, <3>3
      <4>. QED  BY <3>0, <4>1 DEF FoldInv
    <3>. QED  BY <1>4, <2>4, <3>1, <3>2, <3>3
  <2>10b. ASSUME NEW r \in Pis \ {k}
          PROVE  Independent(k, r, F, UsedBy(k, i + 1))
    <3>. DEFINE C == UsedBy(k, i)
                N == K \ UsedBy(k, i)
    <3>1. /\ C \in SUBSET Cells /\ N \in SUBSET Cells /\ N \cap C = {} /\ m \in N
          /\ UsedBy(k, i + 1) = C \cup N
      BY <1>1, <2>2a
    <3>2. \A c \in C : gbf[c] \subseteq Made(k, C) /\ F[c] = gbf[c]
      BY <1>1, <1>4, <2>2 DEF FoldInv
    <3>3. \A c \in C : \A d \in Cells \ C : <<"random", k, d>> \notin gbf[c]
      BY <1>1 DEF FoldInv
    <3>4. \A c \in N \ {m} : F[c] = {<<"random", k, c>>}
      BY <2>2, <2>4, <2>5
    <3>5. <<"keys", {k, r}, m>> \in F[m]
      BY <2>7, Numbers
    <3>6. Independent(k, r, gbf, C)
      BY DEF FoldInv
    <3>. HIDE DEF C, N
    <3>7. Independent(k, r, F, C \cup N)
      BY <3>1, <3>2, <3>3, <3>4, <3>5, <3>6, StillIndependent
    <3>. QED  BY <3>1, <3>7
  <2>11. ASSUME NEW j \in 1 .. i + 1, ~(h_kokhav[items[k][j]] \subseteq UsedBy(k, j - 1))
         PROVE  SumOver(F, h_kokhav[items[k][j]]) = SumOver(Base(k), h_kokhav[items[k][j]])
    <3>1. CASE j = i + 1
      BY <2>3, <2>6, <3>1 DEF K
    <3>2. CASE j \in 1 .. i
      <4>1. \A c \in h_kokhav[items[k][j]] : F[c] = gbf[c]
        BY <1>1, <1>3, <1>4, <2>2, <3>2
      <4>2. SumOver(F, h_kokhav[items[k][j]]) = SumOver(gbf, h_kokhav[items[k][j]])
        BY <4>1, SumOfSame
      <4>. QED  BY <2>11, <3>2, <4>2 DEF FoldInv
    <3>. QED  BY <1>2, <3>1, <3>2
  <2>12. FoldInv(k, F, i + 1)
    BY <2>9, <2>10, <2>10a, <2>10b, <2>11 DEF FoldInv
  <2>13. FilledFor(k, gbf, items[k][i + 1]) = F
    BY <1>6 DEF FilledFor, F, y, rnd, R, K
  <2>. QED  BY <2>12, <2>13
<1>. QED  BY <1>5, <1>6

LEMMA FoldAll ==
  ASSUME Inputs, NEW k \in Pis, acc[k] = Base(k)
  PROVE  FoldInv(k, Codewords(k), Len(items[k]))
<1>. DEFINE n == Len(items[k])
            T == {i \in 0 .. n : FoldInv(k, Filters(k)[i], i)}
<1>1. items[k] \in Seq(Values) /\ n \in Nat
  BY Numbers DEF Inputs
<1>2. /\ Filters(k)[0] = Empty
      /\ \A i \in 0 .. n - 1 : Filters(k)[i + 1] = FilledFor(k, Filters(k)[i], items[k][i + 1])
  <2>1. Filters(k) = [i \in 0 .. n |->
           IF i = 0 THEN Empty ELSE FilledFor(k, Filters(k)[i - 1], items[k][i])]
    BY <1>1, FiltersSteps
  <2>2. \A i \in 0 .. n : Filters(k)[i] =
           IF i = 0 THEN Empty ELSE FilledFor(k, Filters(k)[i - 1], items[k][i])
    BY <2>1
  <2>. HIDE DEF n
  <2>3. Filters(k)[0] = Empty
    BY <1>1, <2>2
  <2>4. ASSUME NEW i \in 0 .. n - 1
        PROVE  Filters(k)[i + 1] = FilledFor(k, Filters(k)[i], items[k][i + 1])
    <3>1. i + 1 \in 0 .. n /\ i + 1 # 0 /\ (i + 1) - 1 = i
      BY <1>1
    <3>2. Filters(k)[i + 1] = IF i + 1 = 0 THEN Empty
             ELSE FilledFor(k, Filters(k)[(i + 1) - 1], items[k][i + 1])
      BY <2>2, <3>1
    <3>. QED  BY <3>1, <3>2
  <2>. QED  BY <2>3, <2>4
<1>3. FoldInv(k, Empty, 0)
  <2>1. UsedBy(k, 0) = {}
    BY DEF UsedBy
  <2>2. \A r : Independent(k, r, Empty, {})
    BY DEF Independent
  <2>3. Empty \in [Cells -> SUBSET Made(k, UsedBy(k, 0))]
    BY DEF Empty, Zero
  <2>4. \A c \in Cells : Empty[c] = {}
    BY DEF Empty, Zero
  <2>5. \A c \in Cells : Empty[c] = Zero <=> c \notin UsedBy(k, 0)
    BY <2>1, <2>4 DEF Zero
  <2>6. \A c \in Cells : \A d \in Cells \ UsedBy(k, 0) : <<"random", k, d>> \notin Empty[c]
    BY <2>4
  <2>7. \A r \in Pis \ {k} : Independent(k, r, Empty, UsedBy(k, 0))
    BY <2>1, <2>2
  <2>8. 1 .. 0 = {}
    OBVIOUS
  <2>. QED  BY <2>3, <2>5, <2>6, <2>7, <2>8 DEF FoldInv
<1>4. 0 \in T
  BY <1>1, <1>2, <1>3
<1>5. ASSUME NEW i \in 0 .. n - 1, i \in T PROVE i + 1 \in T
  <2>1. FoldInv(k, Filters(k)[i], i)
    BY <1>5
  <2>2. FoldInv(k, FilledFor(k, Filters(k)[i], items[k][i + 1]), i + 1)
    BY <2>1, FoldStep
  <2>. QED  BY <1>1, <1>2, <2>2
<1>6. n \in T
  <2>. HIDE DEF T, n
  <2>1. 0 .. n \subseteq T
    BY <1>1, <1>4, <1>5, CountUp
  <2>. QED  BY <1>1, <2>1
<1>. QED  BY <1>6 DEF Codewords

-----------------------------------------------------------------------------
(* The filter that re_randomization makes.                                 *)
LEMMA NoZeroCell ==
  ASSUME NEW k \in Pis
  PROVE  Empties(ReRandomized(k), Cells) = {}
<1>. SUFFICES ASSUME NEW c \in Cells PROVE ReRandomized(k)[c] # Zero
  BY DEF Empties
<1>1. CASE Codewords(k)[c] = Zero
  <2>1. ReRandomized(k)[c] = {<<"random", k, c>>}
    BY <1>1 DEF ReRandomized, Random, Empties
  <2>. QED  BY <2>1 DEF Zero
<1>2. CASE Codewords(k)[c] # Zero
  <2>1. ReRandomized(k)[c] = Codewords(k)[c]
    BY <1>2 DEF ReRandomized, Random, Empties
  <2>. QED  BY <1>2, <2>1
<1>. QED  BY <1>1, <1>2

LEMMA ReRandomizedSound ==
  ASSUME Inputs, NEW k \in Pis, acc[k] = Base(k)
  PROVE  ReRandomizes(k, ReRandomized(k))
<1>. DEFINE n == Len(items[k])
            R == ReRandomized(k)
<1>1. FoldInv(k, Codewords(k), n)
  BY FoldAll
<1>2. items[k] \in Seq(Values) /\ n \in Nat /\ DOMAIN items[k] = 1 .. n
  BY Numbers DEF Inputs
<1>3. UsedBy(k, n) = BF(k)
  BY <1>2 DEF UsedBy, BF, ItemsOf, Range
<1>4. \A c \in Cells : Codewords(k)[c] = Zero => R[c] = {<<"random", k, c>>}
  BY DEF ReRandomized, Random, Empties
<1>5. \A c \in Cells : Codewords(k)[c] # Zero => R[c] = Codewords(k)[c]
  BY DEF ReRandomized, Random, Empties
<1>6. R = [c \in Cells |-> R[c]]
  BY DEF ReRandomized
<1>7. \A c \in Cells : {<<"random", k, c>>} \subseteq Randoms(k)
  BY DEF Randoms
<1>. HIDE DEF R, n
<1>8. R \in [Cells -> SUBSET Made(k, BF(k))]
  <2>1. ASSUME NEW c \in Cells PROVE R[c] \subseteq Made(k, BF(k))
    <3>1. Codewords(k)[c] \subseteq Made(k, BF(k))
      BY <1>1, <1>3 DEF FoldInv
    <3>2. Randoms(k) \subseteq Made(k, BF(k))
      BY DEF Made
    <3>. QED  BY <3>1, <3>2, <1>4, <1>5, <1>7
  <2>. QED  BY <1>6, <2>1
<1>9. ASSUME NEW r \in Pis \ {k} PROVE Independent(k, r, R, Cells)
  <2>. SUFFICES ASSUME NEW D \in (SUBSET Cells) \ {{}}
                PROVE  \E d \in D : \E a \in OnlyOf(k, r) :
                         a \in R[d] /\ \A e \in D \ {d} : a \notin R[e]
    BY DEF Independent
  <2>0. \A c \in Cells : Codewords(k)[c] = Zero <=> c \notin BF(k)
    BY <1>1, <1>3 DEF FoldInv
  <2>1. CASE D \subseteq BF(k)
    <3>1. D \in (SUBSET BF(k)) \ {{}} /\ \A e \in D : R[e] = Codewords(k)[e]
      BY <1>5, <2>0, <2>1
    <3>2. Independent(k, r, Codewords(k), BF(k))
      BY <1>1, <1>3 DEF FoldInv
    <3>3. PICK d \in D : \E a \in OnlyOf(k, r) :
             a \in Codewords(k)[d] /\ \A e \in D \ {d} : a \notin Codewords(k)[e]
      BY <3>1, <3>2 DEF Independent
    <3>. QED  BY <3>1, <3>3
  <2>2. CASE ~(D \subseteq BF(k))
    <3>1. PICK d \in D : d \notin BF(k)
      BY <2>2
    <3>. DEFINE a == <<"random", k, d>>
    <3>2. a \in OnlyOf(k, r) /\ a \in R[d]
      BY <1>4, <2>0, <3>1 DEF OnlyOf, Randoms
    <3>3. ASSUME NEW e \in D \ {d} PROVE a \notin R[e]
      <4>1. CASE e \notin BF(k)
        BY <1>4, <2>0, <3>3, <4>1
      <4>2. CASE e \in BF(k)
        <5>1. R[e] = Codewords(k)[e]
          BY <1>5, <2>0, <4>2
        <5>2. a \notin Codewords(k)[e]
          BY <1>1, <1>3, <3>1 DEF FoldInv
        <5>. QED  BY <5>1, <5>2
      <4>. QED  BY <4>1, <4>2
    <3>. HIDE DEF a
    <3>. QED  BY <3>2, <3>3
  <2>. QED  BY <2>1, <2>2
<1>10. ASSUME NEW x \in ItemsOf(k) \ LeftOut(k)
       PROVE  SumOver(R, h_kokhav[x]) = SumOver(Base(k), h_kokhav[x])
  <2>1. PICK j \in 1 .. n : x = items[k][j]
    BY <1>2 DEF ItemsOf, Range
  <2>2. ~(h_kokhav[x] \subseteq UsedBy(k, j - 1))
    BY <1>2, <2>1 DEF LeftOut, UsedBy
  <2>3. SumOver(Codewords(k), h_kokhav[x]) = SumOver(Base(k), h_kokhav[x])
    BY <1>1, <2>1, <2>2 DEF FoldInv
  <2>4. h_kokhav[x] \subseteq UsedBy(k, n) /\ h_kokhav[x] \subseteq Cells
    <3>1. items[k][j] \in Values
      BY <1>2, <2>1
    <3>. QED  BY <1>2, <2>1, <3>1, UsedCovers DEF Inputs
  <2>5. \A c \in h_kokhav[x] : R[c] = Codewords(k)[c]
    BY <2>4, <1>1, <1>5 DEF FoldInv
  <2>. QED  BY <2>3, <2>5, SumOfSame
<1>11. ReRandomizes(k, R)
  BY <1>8, <1>9, <1>10 DEF ReRandomizes
<1>. QED  BY <1>11 DEF R

-----------------------------------------------------------------------------
(* What P0 computes of what it has received.                               *)
LEMMA PairIsEven ==
  ASSUME NEW p, NEW q, p # q
  PROVE  (Cardinality({p, q}) % 2) # 1
<1>1. IsFiniteSet({p}) /\ Cardinality({p}) = 1
  BY FS_Singleton
<1>2. {p, q} = {p} \cup {q} /\ q \notin {p}
  OBVIOUS
<1>3. Cardinality({p, q}) = 2
  BY <1>1, <1>2, FS_AddElement
<1>. QED  BY <1>3

LEMMA LinkEnds ==
  ASSUME NEW p \in Players, NEW link \in LinksOf(p)
  PROVE  \E k \in Pis : \A r \in Players : link \in LinksOf(r) <=> r \in {0, k}
<1>1. PICK l \in {"A", "B"} : \E k \in Pis : link = <<l, k>>
  <2>1. CASE p = 0
    BY <2>1 DEF LinksOf
  <2>2. CASE p # 0
    <3>1. p \in Pis /\ LinksOf(p) = {"A", "B"} \X {p}
      BY <2>2 DEF LinksOf, Pis
    <3>. QED  BY <3>1
  <2>. QED  BY <2>1, <2>2
<1>2. PICK k \in Pis : link = <<l, k>>
  BY <1>1
<1>3. link \in LinksOf(0)
  BY <1>2 DEF LinksOf
<1>4. ASSUME NEW r \in Players, r # 0 PROVE link \in LinksOf(r) <=> r = k
  <2>1. LinksOf(r) = {"A", "B"} \X {r}
    BY <1>4 DEF LinksOf
  <2>. QED  BY <1>2, <2>1
<1>5. \A r \in Players : link \in LinksOf(r) <=> r \in {0, k}
  BY <1>3, <1>4
<1>. QED  BY <1>5

(* What P0 adds up for an item once it has all the filters.                *)
Total(x) == SymDiff(SumOver(Base(0), h_kokhav[x]),
                    Xor([k \in Pis |-> SumOver(GBF[k], h_kokhav[x])]))

LEMMA CellsOfItem ==
  ASSUME Inputs, NEW p \in Players, NEW x \in ItemsOf(p)
  PROVE  h_kokhav[x] \in SUBSET Cells /\ h_kokhav[x] # {} /\ h_kokhav[x] \subseteq BF(p)
<1>1. x \in Values
  BY DEF Inputs, ItemsOf, Range
<1>. QED  BY <1>1 DEF Inputs, BF

(* An item that all have and no one left out: every key and every string   *)
(* of it is there twice.                                                   *)
LEMMA SureCancels ==
  ASSUME Inputs, \A k \in Pis : ReRandomizes(k, GBF[k]), NEW x \in Sure
  PROVE  Total(x) = Zero
<1>. DEFINE K == h_kokhav[x]
            f == [p \in Players |-> SumOver(Base(p), K)]
<1>1. \A p \in Players : x \in ItemsOf(p)
  BY DEF Sure, Pis
<1>2. K \in SUBSET Cells /\ \A p \in Players : K \subseteq BF(p)
  BY <1>1, CellsOfItem, Numbers
<1>3. \A p \in Players : f[p] = UNION {Base(p)[c] : c \in K}
  BY <1>2, BaseSum
<1>4. DOMAIN f = Players
  OBVIOUS
<1>. HIDE DEF f, K
<1>5. ASSUME NEW a \in Xor(f) PROVE FALSE
  <2>1. PICK p \in Players : a \in f[p]
    BY <1>4, <1>5 DEF Xor
  <2>2. PICK c \in K : a \in Base(p)[c]
    BY <1>3, <2>1
  <2>3. c \in Cells /\ \A r \in Players : c \in BF(r)
    BY <1>2
  <2>4. ASSUME NEW q, NEW s, q # s, \A r \in Players, d \in K : a \in Base(r)[d] <=> d = c /\ r \in {q, s},
               q \in Players, s \in Players
        PROVE  FALSE
    <3>1. \A r \in Players : a \in f[r] <=> \E d \in K : a \in Base(r)[d]
      BY <1>3
    <3>2. \A r \in Players : a \in f[r] <=> r \in {q, s}
      BY <2>4, <3>1
    <3>3. Holding(f, a) = {q, s}
      BY <1>4, <2>4, <3>2 DEF Holding
    <3>. QED  BY <1>5, <2>4, <3>3, XorCounts, PairIsEven
  <2>5. ASSUME NEW q \in Players \ {p}, a = <<"keys", {p, q}, c>> PROVE FALSE
    <3>1. \A r \in Players, d \in Cells : a \in Base(r)[d] <=> d = c /\ r \in {p, q}
      BY <2>5, KeysInBase
    <3>. QED  BY <1>2, <2>4, <3>1
  <2>6. ASSUME NEW link \in LinksOf(p), NEW b \in BOOLEAN, a = <<"string", link, c, b>> PROVE FALSE
    <3>1. PICK k \in Pis : \A r \in Players : link \in LinksOf(r) <=> r \in {0, k}
      BY LinkEnds
    <3>2. b
      BY <2>2, <2>3, <2>6, StringInBase
    <3>3. \A r \in Players, d \in Cells :
            a \in Base(r)[d] <=> d = c /\ link \in LinksOf(r) /\ (b <=> d \in BF(r))
      BY <2>6, StringInBase
    <3>4. \A r \in Players, d \in K : a \in Base(r)[d] <=> d = c /\ r \in {0, k}
      BY <1>2, <2>3, <3>1, <3>2, <3>3
    <3>. QED  BY <2>4, <3>4, Numbers
  <2>. QED  BY <2>2, <2>3, <2>5, <2>6, AtomsOfBase
<1>6. Xor(f) = {}
  BY <1>5
<1>7. Xor([p \in Pis \cup {0} |-> f[p]])
        = SymDiff(Xor([p \in Pis |-> f[p]]), f[0])
  BY Numbers, XorOneMore
<1>8. [p \in Pis \cup {0} |-> f[p]] = f
  BY Numbers DEF f, Pis
<1>9. [p \in Pis |-> f[p]] = [k \in Pis |-> SumOver(GBF[k], h_kokhav[x])]
  <2>1. ASSUME NEW k \in Pis PROVE f[k] = SumOver(GBF[k], h_kokhav[x])
    <3>1. f[k] = SumOver(Base(k), h_kokhav[x])
      BY Numbers DEF f, K
    <3>2. x \in ItemsOf(k) \ LeftOut(k)
      BY DEF Sure
    <3>. QED  BY <3>1, <3>2 DEF ReRandomizes
  <2>. QED  BY <2>1
<1>10. f[0] = SumOver(Base(0), h_kokhav[x])
  BY Numbers DEF f, K
<1>. QED  BY <1>6, <1>7, <1>8, <1>9, <1>10 DEF Total, SymDiff, Zero

(* An item that the Bloom filter of k excludes: P0 has a string of a one,  *)
(* k of a zero, and nobody else has either.                                *)
LEMMA ZeroIsPossible ==
  ASSUME Inputs, \A k \in Pis : ReRandomizes(k, GBF[k]), NEW x \in ItemsOf(0), Total(x) = Zero
  PROVE  x \in Possible
<1>. SUFFICES ASSUME NEW k \in Pis, NEW c \in h_kokhav[x], c \notin BF(k) PROVE FALSE
  BY DEF Possible
<1>. DEFINE s == <<"string", <<"A", k>>, c, TRUE>>
<1>1. /\ h_kokhav[x] \in SUBSET Cells /\ c \in Cells /\ c \in BF(0)
  BY Numbers, CellsOfItem
<1>2. s \in SumOver(Base(0), h_kokhav[x])
  <2>1. <<"A", k>> \in LinksOf(0)
    BY DEF LinksOf
  <2>2. s \in Base(0)[c]
    BY <1>1, <2>1, StringInBase, Numbers
  <2>3. SumOver(Base(0), h_kokhav[x]) = UNION {Base(0)[d] : d \in h_kokhav[x]}
    BY <1>1, BaseSum, Numbers
  <2>. HIDE DEF s
  <2>. QED  BY <2>2, <2>3
<1>3. ASSUME NEW q \in Pis PROVE s \notin SumOver(GBF[q], h_kokhav[x])
  <2>1. s \notin Made(q, BF(q))
    <3>1. q \in Players /\ q # 0 /\ BF(q) \in SUBSET Cells
      BY Numbers, CellsOfItem DEF BF
    <3>2. s \in Made(q, BF(q)) <=> c \in BF(q) /\ <<"A", k>> \in LinksOf(q) /\ (TRUE <=> c \in BF(q))
      BY <3>1, StringMade
    <3>3. <<"A", k>> \in LinksOf(q) => k = q
      BY <3>1 DEF LinksOf
    <3>. QED  BY <3>2, <3>3
  <2>2. \A d \in h_kokhav[x] : GBF[q][d] \in SUBSET Made(q, BF(q))
    BY <1>1 DEF ReRandomizes
  <2>. HIDE DEF s
  <2>. QED  BY <2>1, <2>2, SumIsBlock
<1>. HIDE DEF s
<1>4. s \notin Xor([q \in Pis |-> SumOver(GBF[q], h_kokhav[x])])
  BY <1>3 DEF Xor
<1>. QED  BY <1>2, <1>4 DEF Total, SymDiff, Zero

(* Without some of the Pis: in any cells of the filters that are there is  *)
(* a random block, or a key shared with one that is missing, that occurs   *)
(* in one of these cells only.                                             *)
LEMMA SomeAreNotEnough ==
  ASSUME Inputs, NEW S \in (SUBSET Pis) \ {{}, Pis}, \A k \in S : ReRandomizes(k, GBF[k]),
         NEW D \in (SUBSET (S \X Cells)) \ {{}}
  PROVE  ~(Xor([kc \in D |-> GBF[kc[1]][kc[2]]]) \subseteq HeldByP0)
<1>1. PICK k \in S : \E c \in Cells : <<k, c>> \in D
  <2>1. PICK kc \in D : TRUE
    OBVIOUS
  <2>2. kc[1] \in S /\ kc[2] \in Cells /\ kc = <<kc[1], kc[2]>>
    BY <2>1
  <2>. QED  BY <2>2
<1>2. PICK r \in Pis : r \notin S
  OBVIOUS
<1>3. k \in Pis /\ k \in Players /\ r \in Players /\ k # r /\ k # 0 /\ r # 0
  BY <1>1, <1>2, Numbers
<1>. DEFINE Here == {c \in Cells : <<k, c>> \in D}
            G == [kc \in D |-> GBF[kc[1]][kc[2]]]
<1>4. PICK d \in Here : \E a \in OnlyOf(k, r) :
         a \in GBF[k][d] /\ \A e \in Here \ {d} : a \notin GBF[k][e]
  <2>1. Here \in (SUBSET Cells) \ {{}}
    BY <1>1
  <2>2. Independent(k, r, GBF[k], Cells)
    BY <1>2, <1>3 DEF ReRandomizes
  <2>. HIDE DEF Here
  <2>. QED  BY <2>1, <2>2 DEF Independent
<1>5. PICK a \in OnlyOf(k, r) : a \in GBF[k][d] /\ \A e \in Here \ {d} : a \notin GBF[k][e]
  BY <1>4
<1>6. ASSUME NEW q \in S, q # k, NEW c \in Cells PROVE a \notin GBF[q][c]
  <2>1. q \in Players /\ q # r /\ BF(q) \in SUBSET Cells /\ GBF[q][c] \subseteq Made(q, BF(q))
    BY <1>2, Numbers, CellsOfItem DEF BF, ReRandomizes
  <2>2. \A e : <<"keys", {k, r}, e>> \notin Made(q, BF(q))
    BY <1>3, <1>6, <2>1, KeysMade
  <2>3. \A e : <<"random", k, e>> \notin Made(q, BF(q))
    BY <1>6, <2>1, RandomMade
  <2>4. a \notin Made(q, BF(q))
    BY <1>5, <2>2, <2>3 DEF OnlyOf, Randoms
  <2>. QED  BY <2>1, <2>4
<1>7. Holding(G, a) = {<<k, d>>}
  <2>1. ASSUME NEW kc \in D, a \in GBF[kc[1]][kc[2]] PROVE kc = <<k, d>>
    <3>1. kc[1] \in S /\ kc[2] \in Cells /\ kc = <<kc[1], kc[2]>>
      OBVIOUS
    <3>2. kc[1] = k
      BY <1>6, <2>1, <3>1
    <3>3. kc[2] \in Here
      BY <3>1, <3>2
    <3>4. kc[2] = d
      BY <1>5, <2>1, <3>2, <3>3
    <3>. QED  BY <3>1, <3>2, <3>4
  <2>2. <<k, d>> \in D /\ a \in GBF[<<k, d>>[1]][<<k, d>>[2]]
    BY <1>5
  <2>. QED  BY <2>1, <2>2 DEF Holding
<1>8. a \in Xor(G)
  <2>1. Cardinality({<<k, d>>}) = 1
    BY FS_Singleton
  <2>. HIDE DEF G
  <2>2. (Cardinality(Holding(G, a)) % 2) = 1
    BY <1>7, <2>1
  <2>. QED  BY <2>2, XorCounts
<1>9. a \notin HeldByP0
  <2>1. ASSUME NEW link, NEW c, NEW b \in BOOLEAN PROVE a # <<"string", link, c, b>>
    <3>1. CASE a \in Randoms(k)
      BY <3>1, RandomsApart
    <3>2. CASE \E e \in Cells : a = <<"keys", {k, r}, e>>
      BY <3>2
    <3>. QED  BY <1>5, <3>1, <3>2 DEF OnlyOf
  <2>2. ASSUME NEW link, NEW c PROVE a # String(0, link, c)
    <3>. DEFINE b == c \in BF(0)
    <3>1. b \in BOOLEAN
      OBVIOUS
    <3>2. String(0, link, c) = <<"string", link, c, b>>
      BY DEF String
    <3>. HIDE DEF b
    <3>. QED  BY <2>1, <3>1, <3>2
  <2>3. ASSUME NEW q, NEW c PROVE a # <<"keys", {0, q}, c>>
    <3>1. CASE a \in Randoms(k)
      BY <3>1, RandomsApart
    <3>2. CASE \E e \in Cells : a = <<"keys", {k, r}, e>>
      <4>1. {k, r} # {0, q}
        BY <1>3
      <4>. QED  BY <3>2, <4>1
    <3>. QED  BY <1>5, <3>1, <3>2 DEF OnlyOf
  <2>4. \A c \in Cells : a \notin Share(0, c)
    BY <2>3 DEF Share
  <2>5. \A c \in Cells : a \notin {<<"string", <<"A", q>>, c, b>> : q \in Pis, b \in BOOLEAN}
    BY <2>1
  <2>6. \A c \in Cells : a \notin {String(0, <<"B", q>>, c) : q \in Pis}
    BY <2>2
  <2>. QED  BY <2>4, <2>5, <2>6 DEF HeldByP0
<1>. HIDE DEF G
<1>10. ~(Xor(G) \subseteq HeldByP0)
  BY <1>8, <1>9
<1>. QED  BY <1>10 DEF G

-----------------------------------------------------------------------------
(* The inductive invariant.                                                *)
LEMMA SameInputs ==
  ASSUME h_kokhav' = h_kokhav, items' = items
  PROVE  /\ \A p : ItemsOf(p)' = ItemsOf(p) /\ BF(p)' = BF(p) /\ Base(p)' = Base(p)
         /\ \A k : LeftOut(k)' = LeftOut(k)
         /\ Inputs' = Inputs /\ Sure' = Sure /\ Possible' = Possible
         /\ \A k, gbf : ReRandomizes(k, gbf)' = ReRandomizes(k, gbf)
<1>1. \A p : ItemsOf(p)' = ItemsOf(p) /\ BF(p)' = BF(p)
  BY DEF ItemsOf, BF
<1>2. \A p, link, c : String(p, link, c)' = String(p, link, c)
  BY <1>1 DEF String
<1>3. \A p : Base(p)' = Base(p)
  BY <1>2 DEF Base
<1>4. \A k : LeftOut(k)' = LeftOut(k)
  BY DEF LeftOut
<1>5. Inputs' = Inputs
  BY DEF Inputs
<1>6. Sure' = Sure /\ Possible' = Possible
  BY <1>1, <1>4 DEF Sure, Possible
<1>7. ASSUME NEW k, NEW gbf PROVE ReRandomizes(k, gbf)' = ReRandomizes(k, gbf)
  <2>1. \A C : Made(k, C)' = Made(k, C)
    BY <1>3 DEF Made
  <2>. QED  BY <1>1, <1>3, <1>4, <2>1 DEF ReRandomizes
<1>. QED  BY <1>1, <1>3, <1>4, <1>5, <1>6, <1>7

LEMMA InitIInv == Init => IInv
<1>. SUFFICES ASSUME Init PROVE IInv
  OBVIOUS
<1>1. Inputs
  BY PSImpleAssumption DEF Init, Inputs, Cells, SeqOf
<1>2. Phases
  BY Numbers DEF Init, Phases
<1>3. SentInv
  BY Numbers DEF Init, SentInv
<1>4. AccInv
  BY Numbers DEF Init, AccInv
<1>5. PrintedInv
  BY DEF Init, PrintedInv
<1>. QED  BY <1>1, <1>2, <1>3, <1>4, <1>5 DEF IInv

LEMMA OfflineIInv ==
  ASSUME IInv, NEW p \in Players, Offline(p)
  PROVE  IInv'
<1>1. /\ phase[p] = "offline" /\ phase' = [phase EXCEPT ![p] = "online"]
      /\ h_kokhav' = h_kokhav /\ items' = items /\ GBF' = GBF /\ received' = received
      /\ printed' = printed /\ acc' = [acc EXCEPT ![p] = Shared(p)]
  BY DEF Offline
<1>2. Inputs'
  BY <1>1, SameInputs DEF IInv
<1>3. Phases'
  BY <1>1, SameInputs, Numbers DEF IInv, Phases
<1>4. SentInv'
  BY <1>1, SameInputs DEF IInv, Phases, SentInv
<1>5. ASSUME parties > 2 PROVE AccInv' /\ PrintedInv'
  <2>1. Shared(p) = [c \in Cells |-> Share(p, c)]
    BY <1>5 DEF Shared
  <2>2. AccInv
    BY <1>5 DEF IInv
  <2>3. acc' = [q \in Players |-> [c \in Cells |-> acc'[q][c]]]
    <3>1. DOMAIN acc = Players
      BY <2>2 DEF AccInv
    <3>2. acc' = [q \in Players |-> acc'[q]] /\ acc'[p] = [c \in Cells |-> Share(p, c)]
      BY <1>1, <2>1, <3>1
    <3>3. \A q \in Players : q # p => acc'[q] = [c \in Cells |-> acc[q][c]]
      BY <1>1, <2>2 DEF AccInv
    <3>. QED  BY <3>2, <3>3
  <2>4. DOMAIN acc = Players
    BY <2>2 DEF AccInv
  <2>5. acc'[p] = [c \in Cells |-> Share(p, c)] /\ \A q \in Players : q # p => acc'[q] = acc[q]
    BY <1>1, <2>1, <2>4
  <2>6. phase'[p] = "online" /\ \A q \in Players : q # p => phase'[q] = phase[q]
    BY <1>1 DEF IInv, Phases
  <2>7. \A q \in Players : phase'[q] = "online" => acc'[q] = [c \in Cells |-> Share(q, c)]
    BY <2>2, <2>5, <2>6 DEF AccInv
  <2>8. \A k \in Pis : phase'[k] = "codewords" => acc'[k] = Base(k)'
    BY <1>1, <2>2, <2>5, <2>6, SameInputs, Numbers DEF AccInv
  <2>9. ASSUME phase'[0] \in {"receive", "done"}, NEW x \in ItemsOf(0)
        PROVE  SumOver(acc[0], h_kokhav[x])'
                 = SymDiff(SumOver(Base(0), h_kokhav[x])', ReceivedSum(x)')
    <3>1. acc'[0] = acc[0] /\ phase'[0] = phase[0]
      BY <2>5, <2>6, <2>9, Numbers
    <3>2. ReceivedSum(x)' = ReceivedSum(x)
      BY <1>1 DEF ReceivedSum
    <3>3. SumOver(acc[0], h_kokhav[x])' = SumOver(acc[0], h_kokhav[x])
      BY <1>1, <3>1
    <3>4. SumOver(Base(0), h_kokhav[x])' = SumOver(Base(0), h_kokhav[x])
      <4>1. Base(0)' = Base(0)
        BY <1>1, SameInputs
      <4>. QED  BY <1>1, <4>1
    <3>. QED  BY <2>2, <2>9, <3>1, <3>2, <3>3, <3>4 DEF AccInv
  <2>10. AccInv'
    BY <1>1, <2>3, <2>7, <2>8, <2>9, SameInputs DEF AccInv
  <2>11. PrintedInv'
    BY <1>1, <1>5, SameInputs DEF IInv, PrintedInv
  <2>. QED  BY <2>10, <2>11
<1>. QED  BY <1>2, <1>3, <1>4, <1>5, PSImpleAssumption DEF IInv

(* The strings of the links join the share of zero.                        *)
LEMMA StringsJoin ==
  ASSUME NEW p \in Players, NEW c \in Cells
  PROVE  SymDiff(Share(p, c), {String(p, link, c) : link \in LinksOf(p)}) = Base(p)[c]
<1>1. ASSUME NEW link, NEW s PROVE <<"keys", s, c>> # String(p, link, c)
  <2>1. (c \in BF(p)) \in BOOLEAN
    OBVIOUS
  <2>2. \A b \in BOOLEAN : <<"keys", s, c>> # <<"string", link, c, b>>
    OBVIOUS
  <2>. QED  BY <2>1, <2>2 DEF String
<1>2. Share(p, c) \cap {String(p, link, c) : link \in LinksOf(p)} = {}
  BY <1>1 DEF Share
<1>3. Base(p)[c] = Share(p, c) \cup {String(p, link, c) : link \in LinksOf(p)}
  BY DEF Base
<1>. QED  BY <1>2, <1>3 DEF SymDiff

LEMMA OnlineIInv ==
  ASSUME IInv, NEW p \in Players, Online(p)
  PROVE  IInv'
<1>1. /\ phase[p] = "online"
      /\ phase' = [phase EXCEPT ![p] = IF p = 0 THEN "receive" ELSE "codewords"]
      /\ h_kokhav' = h_kokhav /\ items' = items /\ GBF' = GBF /\ received' = received
      /\ printed' = printed
  BY DEF Online
<1>2. Inputs'
  BY <1>1, SameInputs DEF IInv
<1>3. PICK s : s = (IF p = 0 THEN "receive" ELSE "codewords")
  OBVIOUS
<1>4. phase' = [phase EXCEPT ![p] = s] /\ (p = 0 => s = "receive") /\ (p # 0 => s = "codewords")
  BY <1>1, <1>3
<1>5. phase'[p] = s /\ (\A q \in Players : q # p => phase'[q] = phase[q])
      /\ phase' \in [Players -> {"offline", "online", "codewords", "receive", "done"}]
  BY <1>4 DEF IInv, Phases
<1>6. \A k \in Pis : phase'[k] = "done" <=> phase[k] = "done"
  BY <1>1, <1>4, <1>5, Numbers
<1>7. Phases'
  BY <1>1, <1>4, <1>5, <1>6, SameInputs, Numbers DEF IInv, Phases
<1>8. SentInv'
  BY <1>1, <1>6, SameInputs DEF IInv, SentInv
<1>9. ASSUME parties > 2 PROVE AccInv' /\ PrintedInv'
  <2>1. AccInv /\ DOMAIN acc = Players
    BY <1>9 DEF IInv, AccInv
  <2>2. acc[p] = [c \in Cells |-> Share(p, c)]
    BY <1>1, <2>1 DEF AccInv
  <2>3. acc' = [acc EXCEPT ![p] = Base(p)]
    <3>1. acc' = [acc EXCEPT ![p] =
             [c \in Cells |-> SymDiff(acc[p][c], {String(p, link, c) : link \in LinksOf(p)})]]
      BY DEF Online
    <3>2. \A c \in Cells : SymDiff(acc[p][c], {String(p, link, c) : link \in LinksOf(p)}) = Base(p)[c]
      BY <2>2, StringsJoin
    <3>3. [c \in Cells |-> SymDiff(acc[p][c], {String(p, link, c) : link \in LinksOf(p)})]
            = [c \in Cells |-> Base(p)[c]]
      BY <3>2
    <3>4. [c \in Cells |-> Base(p)[c]] = Base(p)
      BY DEF Base
    <3>. QED  BY <3>1, <3>3, <3>4
  <2>4. acc'[p] = Base(p) /\ \A q \in Players : q # p => acc'[q] = acc[q]
    BY <2>1, <2>3
  <2>5. acc' = [q \in Players |-> [c \in Cells |-> acc'[q][c]]]
    <3>1. acc' = [q \in Players |-> acc'[q]]
      BY <2>1, <2>3
    <3>2. \A q \in Players : acc'[q] = [c \in Cells |-> acc'[q][c]]
      BY <2>1, <2>4 DEF AccInv, Base
    <3>. QED  BY <3>1, <3>2
  <2>6. \A q \in Players : phase'[q] = "online" => acc'[q] = [c \in Cells |-> Share(q, c)]
    <3>1. s # "online"
      BY <1>4
    <3>2. ASSUME NEW q \in Players, phase'[q] = "online"
          PROVE  acc'[q] = [c \in Cells |-> Share(q, c)]
      <4>1. q # p
        BY <1>5, <3>1, <3>2
      <4>2. phase[q] = "online" /\ acc'[q] = acc[q]
        BY <1>5, <2>4, <3>2, <4>1
      <4>. QED  BY <2>1, <4>2 DEF AccInv
    <3>. QED  BY <3>2
  <2>7. \A k \in Pis : phase'[k] = "codewords" => acc'[k] = Base(k)'
    <3>1. \A k \in Pis : phase'[k] = "codewords" => acc'[k] = Base(k)
      BY <1>5, <2>1, <2>4, Numbers DEF AccInv
    <3>2. \A k : Base(k)' = Base(k)
      BY <1>1, SameInputs
    <3>. QED  BY <3>1, <3>2
  <2>8. ASSUME phase'[0] \in {"receive", "done"}, NEW x \in ItemsOf(0)
        PROVE  SumOver(acc[0], h_kokhav[x])'
                 = SymDiff(SumOver(Base(0), h_kokhav[x])', ReceivedSum(x)')
    <3>1. ReceivedSum(x)' = ReceivedSum(x)
      BY <1>1 DEF ReceivedSum
    <3>2. SumOver(acc[0], h_kokhav[x])' = SumOver(acc'[0], h_kokhav[x])
      BY <1>1
    <3>3. SumOver(Base(0), h_kokhav[x])' = SumOver(Base(0), h_kokhav[x])
      <4>1. Base(0)' = Base(0)
        BY <1>1, SameInputs
      <4>. QED  BY <1>1, <4>1
    <3>4. CASE p = 0
      <4>1. received = {}
        BY <1>1, <3>4 DEF IInv, Phases
      <4>2. ReceivedSum(x) = {}
        BY <4>1 DEF ReceivedSum, Xor
      <4>3. SymDiff(SumOver(Base(0), h_kokhav[x]), {}) = SumOver(Base(0), h_kokhav[x])
        BY DEF SymDiff
      <4>4. acc'[0] = Base(0)
        BY <2>4, <3>4
      <4>. QED  BY <3>1, <3>2, <3>3, <4>2, <4>3, <4>4
    <3>5. CASE p # 0
      <4>1. acc'[0] = acc[0] /\ phase'[0] = phase[0]
        BY <1>5, <2>4, <3>5, Numbers
      <4>. QED  BY <2>1, <2>8, <3>1, <3>2, <3>3, <4>1 DEF AccInv
    <3>. QED  BY <3>4, <3>5
  <2>9. AccInv'
    BY <1>1, <2>5, <2>6, <2>7, <2>8, SameInputs DEF AccInv
  <2>10. PrintedInv'
    BY <1>1, <1>9, SameInputs DEF IInv, PrintedInv
  <2>. QED  BY <2>9, <2>10
<1>. QED  BY <1>2, <1>7, <1>8, <1>9 DEF IInv

LEMMA SendIInv ==
  ASSUME IInv, NEW k \in Pis, Send(k)
  PROVE  IInv'
<1>1. /\ phase[k] = "codewords" /\ phase' = [phase EXCEPT ![k] = "done"]
      /\ GBF' = [GBF EXCEPT ![k] = ReRandomized(k)]
      /\ h_kokhav' = h_kokhav /\ items' = items /\ acc' = acc /\ received' = received
      /\ printed' = printed
  BY DEF Send
<1>2. Inputs /\ Inputs'
  BY <1>1, SameInputs DEF IInv
<1>3. phase'[k] = "done" /\ (\A q \in Players : q # k => phase'[q] = phase[q])
      /\ phase' \in [Players -> {"offline", "online", "codewords", "receive", "done"}]
  BY <1>1, Numbers DEF IInv, Phases
<1>4. Phases'
  BY <1>1, <1>3, SameInputs, Numbers DEF IInv, Phases
<1>5. GBF' = [q \in Pis |-> GBF'[q]] /\ GBF'[k] = ReRandomized(k)
      /\ \A q \in Pis : q # k => GBF'[q] = GBF[q]
  BY <1>1 DEF IInv, SentInv
<1>6. ASSUME parties > 2 PROVE ReRandomizes(k, ReRandomized(k))
  BY <1>1, <1>2, <1>6, ReRandomizedSound DEF IInv, AccInv
<1>7. SentInv'
  <2>1. ASSUME NEW q \in Pis, phase'[q] = "done"
        PROVE  Empties(GBF'[q], Cells) = {} /\ (parties > 2 => ReRandomizes(q, GBF'[q]))
    <3>1. CASE q = k
      BY <1>5, <1>6, <3>1, NoZeroCell
    <3>2. CASE q # k
      BY <1>3, <1>5, <2>1, <3>2, Numbers DEF IInv, SentInv
    <3>. QED  BY <3>1, <3>2
  <2>2. \A q \in Pis : ReRandomizes(q, GBF[q])' = ReRandomizes(q, GBF'[q])
    BY <1>1, SameInputs
  <2>. QED  BY <1>5, <2>1, <2>2 DEF SentInv
<1>8. ASSUME parties > 2 PROVE AccInv' /\ PrintedInv'
  <2>1. AccInv
    BY <1>8 DEF IInv
  <2>2. ASSUME phase'[0] \in {"receive", "done"}, NEW x \in ItemsOf(0)
        PROVE  SumOver(acc[0], h_kokhav[x])'
                 = SymDiff(SumOver(Base(0), h_kokhav[x])', ReceivedSum(x)')
    <3>1. ReceivedSum(x)' = ReceivedSum(x)
      <4>1. received \subseteq Pis /\ \A q \in received : q # k
        BY <1>1 DEF IInv, Phases
      <4>2. \A q \in received : GBF'[q] = GBF[q]
        BY <1>5, <4>1
      <4>3. \A q \in received : SumOver(GBF[q], h_kokhav[x])' = SumOver(GBF[q], h_kokhav[x])
        BY <1>1, <4>2
      <4>. QED  BY <1>1, <4>3 DEF ReceivedSum
    <3>2. SumOver(Base(0), h_kokhav[x])' = SumOver(Base(0), h_kokhav[x])
      BY <1>1, SameInputs
    <3>3. SumOver(acc[0], h_kokhav[x])' = SumOver(acc[0], h_kokhav[x])
      BY <1>1
    <3>4. phase'[0] = phase[0]
      BY <1>3, Numbers
    <3>. QED  BY <2>1, <2>2, <3>1, <3>2, <3>3, <3>4 DEF AccInv
  <2>3. \A q \in Players : phase'[q] = "online" => phase[q] = "online"
    BY <1>3
  <2>4. \A q \in Pis : phase'[q] = "codewords" => phase[q] = "codewords"
    BY <1>3, Numbers
  <2>5. AccInv'
    BY <1>1, <2>1, <2>2, <2>3, <2>4, SameInputs DEF AccInv
  <2>6. PrintedInv'
    BY <1>1, <1>8, SameInputs DEF IInv, PrintedInv
  <2>. QED  BY <2>5, <2>6
<1>. QED  BY <1>2, <1>4, <1>7, <1>8 DEF IInv

LEMMA ReceiveIInv ==
  ASSUME IInv, NEW k \in Pis, Receive(k)
  PROVE  IInv'
<1>1. /\ phase[0] = "receive" /\ phase[k] = "done" /\ k \notin received
      /\ received' = received \cup {k} /\ h_kokhav' = h_kokhav /\ items' = items
      /\ phase' = phase /\ GBF' = GBF /\ printed' = printed
  BY DEF Receive
<1>2. Inputs'
  BY <1>1, SameInputs DEF IInv
<1>3. Phases'
  BY <1>1, SameInputs DEF IInv, Phases
<1>4. SentInv'
  BY <1>1, SameInputs DEF IInv, SentInv
<1>5. ASSUME parties > 2 PROVE AccInv' /\ PrintedInv'
  <2>1. AccInv /\ DOMAIN acc = Players
    BY <1>5 DEF IInv, AccInv
  <2>2. acc' = [acc EXCEPT ![0] = [c \in Cells |-> SymDiff(acc[0][c], GBF[k][c])]]
    BY DEF Receive
  <2>3. /\ acc'[0] = [c \in Cells |-> SymDiff(acc[0][c], GBF[k][c])]
        /\ \A q \in Players : q # 0 => acc'[q] = acc[q]
    BY <2>1, <2>2, Numbers
  <2>4. acc' = [q \in Players |-> [c \in Cells |-> acc'[q][c]]]
    <3>1. acc' = [q \in Players |-> acc'[q]]
      BY <2>1, <2>2
    <3>2. \A q \in Players : acc'[q] = [c \in Cells |-> acc'[q][c]]
      BY <2>1, <2>3 DEF AccInv
    <3>. QED  BY <3>1, <3>2
  <2>5. ASSUME NEW x \in ItemsOf(0)
        PROVE  SumOver(acc[0], h_kokhav[x])'
                 = SymDiff(SumOver(Base(0), h_kokhav[x])', ReceivedSum(x)')
    <3>. DEFINE K == h_kokhav[x]
                f == [q \in Pis |-> SumOver(GBF[q], K)]
    <3>1. K \in SUBSET Cells /\ IsFiniteSet(K)
      BY Numbers, CellsOfItem, FS_Subset DEF IInv
    <3>2. SumOver(acc[0], K)' = SumOver(acc'[0], K) /\ SumOver(Base(0), K)' = SumOver(Base(0), K)
      BY <1>1, SameInputs
    <3>3. SumOver(acc'[0], K) = SymDiff(SumOver(acc[0], K), SumOver(GBF[k], K))
      <4>1. \A c \in K : acc'[0][c] = SymDiff(acc[0][c], GBF[k][c])
        BY <2>3, <3>1
      <4>. HIDE DEF K
      <4>. QED  BY <3>1, <4>1, SumOfSums
    <3>4. received \subseteq Pis /\ IsFiniteSet(received)
      BY Numbers, FS_Subset DEF IInv, Phases
    <3>5. ReceivedSum(x) = Xor([q \in received |-> f[q]])
      <4>1. [q \in received |-> SumOver(GBF[q], K)] = [q \in received |-> f[q]]
        BY <3>4
      <4>. QED  BY <4>1 DEF ReceivedSum
    <3>6. ReceivedSum(x)' = Xor([q \in received \cup {k} |-> f[q]])
      <4>1. \A q \in received \cup {k} : SumOver(GBF[q], h_kokhav[x])' = f[q]
        BY <1>1, <3>4
      <4>2. ReceivedSum(x)' = Xor([q \in received \cup {k} |-> SumOver(GBF[q], h_kokhav[x])'])
        BY <1>1 DEF ReceivedSum
      <4>3. [q \in received \cup {k} |-> SumOver(GBF[q], h_kokhav[x])']
              = [q \in received \cup {k} |-> f[q]]
        <5>. HIDE DEF f
        <5>. QED  BY <4>1
      <4>. QED  BY <4>2, <4>3
    <3>7. ReceivedSum(x)' = SymDiff(ReceivedSum(x), SumOver(GBF[k], K))
      <4>1. f[k] = SumOver(GBF[k], K)
        OBVIOUS
      <4>. HIDE DEF f
      <4>. QED  BY <1>1, <3>4, <3>5, <3>6, <4>1, XorOneMore
    <3>8. SumOver(acc[0], K) = SymDiff(SumOver(Base(0), K), ReceivedSum(x))
      BY <1>1, <2>1 DEF AccInv
    <3>9. \A a, b, c : SymDiff(SymDiff(a, b), c) = SymDiff(a, SymDiff(b, c))
      <4>1. ASSUME NEW a, NEW b, NEW c, NEW z
            PROVE  z \in SymDiff(SymDiff(a, b), c) <=> z \in SymDiff(a, SymDiff(b, c))
        BY DEF SymDiff
      <4>2. ASSUME NEW a, NEW b, NEW c
            PROVE  SymDiff(SymDiff(a, b), c) = SymDiff(a, SymDiff(b, c))
        <5>1. SymDiff(SymDiff(a, b), c) \subseteq SymDiff(a, SymDiff(b, c))
          BY <4>1
        <5>2. SymDiff(a, SymDiff(b, c)) \subseteq SymDiff(SymDiff(a, b), c)
          BY <4>1
        <5>. QED  BY <5>1, <5>2
      <4>. QED  BY <4>2
    <3>. HIDE DEF K, f
    <3>10. SumOver(acc[0], K)' = SymDiff(SumOver(Base(0), K)', ReceivedSum(x)')
      BY <3>2, <3>3, <3>7, <3>8, <3>9
    <3>. QED  BY <3>10 DEF K
  <2>6. \A q \in Pis : phase'[q] = "codewords" => acc'[q] = Base(q)
    BY <1>1, <2>1, <2>3, Numbers DEF AccInv
  <2>7. \A q \in Players : phase'[q] = "online" => acc'[q] = [c \in Cells |-> Share(q, c)]
    BY <1>1, <2>1, <2>3 DEF AccInv
  <2>8. AccInv'
    BY <1>1, <2>4, <2>5, <2>6, <2>7, SameInputs DEF AccInv
  <2>9. PrintedInv'
    BY <1>1, <1>5, SameInputs DEF IInv, PrintedInv
  <2>. QED  BY <2>8, <2>9
<1>. QED  BY <1>2, <1>3, <1>4, <1>5 DEF IInv

(* What P0 prints when it has added all the filters.                       *)
LEMMA OutputIsPSI ==
  ASSUME IInv, parties > 2, Output
  PROVE  \E S \in SUBSET Possible : Sure \subseteq S /\ printed = <<>> /\ printed' = <<S>>
<1>. DEFINE S == {x \in ItemsOf(0) : SumOver(acc[0], h_kokhav[x]) = Zero}
<1>1. phase[0] = "receive" /\ received = Pis /\ printed = <<>> /\ printed' = <<S>>
  BY DEF Output, IInv, Phases
<1>2. Inputs /\ AccInv /\ \A k \in Pis : ReRandomizes(k, GBF[k])
  BY <1>1 DEF IInv, Phases, SentInv
<1>3. \A x \in ItemsOf(0) : SumOver(acc[0], h_kokhav[x]) = Total(x)
  BY <1>1, <1>2 DEF AccInv, ReceivedSum, Total
<1>4. S \subseteq Possible
  BY <1>2, <1>3, ZeroIsPossible
<1>5. Sure \subseteq S
  BY <1>2, <1>3, SureCancels DEF Sure
<1>. QED  BY <1>1, <1>4, <1>5

LEMMA OutputIInv ==
  ASSUME IInv, Output
  PROVE  IInv'
<1>1. /\ phase[0] = "receive" /\ received = Pis /\ phase' = [phase EXCEPT ![0] = "done"]
      /\ h_kokhav' = h_kokhav /\ items' = items /\ GBF' = GBF /\ received' = received
      /\ acc' = acc
      /\ printed' = Append(printed, {x \in ItemsOf(0) : SumOver(acc[0], h_kokhav[x]) = Zero})
  BY DEF Output
<1>2. Inputs'
  BY <1>1, SameInputs DEF IInv
<1>3. phase'[0] = "done" /\ (\A k \in Pis : phase'[k] = phase[k])
      /\ phase' \in [Players -> {"offline", "online", "codewords", "receive", "done"}]
  BY <1>1, Numbers DEF IInv, Phases
<1>4. Phases'
  <2>1. PICK S \in SUBSET ItemsOf(0) : printed' = Append(printed, S)
    BY <1>1
  <2>2. printed = <<>>
    BY <1>1 DEF IInv, Phases
  <2>3. printed' = <<S>>
    BY <2>1, <2>2
  <2>. QED  BY <1>1, <1>3, <2>3, SameInputs, Numbers DEF IInv, Phases
<1>5. SentInv'
  BY <1>1, <1>3, SameInputs DEF IInv, SentInv
<1>6. ASSUME parties > 2 PROVE AccInv' /\ PrintedInv'
  <2>1. AccInv
    BY <1>6 DEF IInv
  <2>2. ASSUME NEW x \in ItemsOf(0)
        PROVE  SumOver(acc[0], h_kokhav[x])'
                 = SymDiff(SumOver(Base(0), h_kokhav[x])', ReceivedSum(x)')
    <3>1. ReceivedSum(x)' = ReceivedSum(x)
      BY <1>1 DEF ReceivedSum
    <3>2. SumOver(Base(0), h_kokhav[x])' = SumOver(Base(0), h_kokhav[x])
      BY <1>1, SameInputs
    <3>3. SumOver(acc[0], h_kokhav[x])' = SumOver(acc[0], h_kokhav[x])
      BY <1>1
    <3>. QED  BY <1>1, <2>1, <3>1, <3>2, <3>3 DEF AccInv
  <2>3. \A q \in Players : phase'[q] = "online" => phase[q] = "online"
    BY <1>1, <1>3, Numbers DEF Pis
  <2>4. AccInv'
    <3>1. \A q \in Players : phase'[q] = "online" => acc'[q] = [c \in Cells |-> Share(q, c)]
      BY <1>1, <2>1, <2>3 DEF AccInv
    <3>2. \A k \in Pis : phase'[k] = "codewords" => acc'[k] = Base(k)
      BY <1>1, <1>3, <2>1 DEF AccInv
    <3>3. acc' = [p \in Players |-> [c \in Cells |-> acc'[p][c]]]
      BY <1>1, <2>1 DEF AccInv
    <3>. QED  BY <1>1, <2>2, <3>1, <3>2, <3>3, SameInputs DEF AccInv
  <2>5. PICK S \in SUBSET Possible : Sure \subseteq S /\ printed' = <<S>>
    BY <1>6, OutputIsPSI
  <2>6. PrintedInv'
    <3>1. \A i \in DOMAIN printed' : printed'[i] = S
      BY <2>5
    <3>2. Sure' = Sure /\ Possible' = Possible
      BY <1>1, SameInputs
    <3>. QED  BY <2>5, <3>1, <3>2 DEF PrintedInv
  <2>. QED  BY <2>4, <2>6
<1>. QED  BY <1>2, <1>4, <1>5, <1>6 DEF IInv

LEMMA StutterIInv ==
  ASSUME IInv, UNCHANGED vars
  PROVE  IInv'
<1>1. /\ h_kokhav' = h_kokhav /\ items' = items /\ phase' = phase /\ acc' = acc /\ GBF' = GBF
      /\ received' = received /\ printed' = printed
  BY DEF vars
<1>2. Inputs'
  BY <1>1, SameInputs DEF IInv
<1>3. Phases'
  BY <1>1, SameInputs DEF IInv, Phases
<1>4. SentInv'
  BY <1>1, SameInputs DEF IInv, SentInv
<1>5. ASSUME parties > 2 PROVE AccInv' /\ PrintedInv'
  <2>1. \A x : ReceivedSum(x)' = ReceivedSum(x)
    BY <1>1 DEF ReceivedSum
  <2>. QED  BY <1>1, <1>5, <2>1, SameInputs DEF IInv, AccInv, PrintedInv
<1>. QED  BY <1>2, <1>3, <1>4, <1>5 DEF IInv

LEMMA Invariance == Spec => []IInv
<1>1. Init => IInv
  BY InitIInv
<1>2. IInv /\ [Next]_vars => IInv'
  <2>. SUFFICES ASSUME IInv, [Next]_vars PROVE IInv'
    OBVIOUS
  <2>1. ASSUME NEW p \in Players, Offline(p) PROVE IInv'
    BY <2>1, OfflineIInv
  <2>2. ASSUME NEW p \in Players, Online(p) PROVE IInv'
    BY <2>2, OnlineIInv
  <2>3. ASSUME NEW k \in Pis, Send(k) PROVE IInv'
    BY <2>3, SendIInv
  <2>4. ASSUME NEW k \in Pis, Receive(k) PROVE IInv'
    BY <2>4, ReceiveIInv
  <2>5. CASE Output
    BY <2>5, OutputIInv
  <2>6. CASE Terminated \/ UNCHANGED vars
    BY <2>6, StutterIInv DEF Terminated
  <2>. QED  BY <2>1, <2>2, <2>3, <2>4, <2>5, <2>6 DEF Next
<1>. QED  BY <1>1, <1>2, PTL DEF Spec

-----------------------------------------------------------------------------
(* Every cell of a filter that a Pi sends is filled, P0 adds only filters  *)
(* that were sent, and it ends with one output, of items of its own.       *)
THEOREM TypeCorrect == Spec => []TypeOK
<1>1. IInv => TypeOK
  <2>. SUFFICES ASSUME IInv PROVE TypeOK
    OBVIOUS
  <2>1. phase[0] # "done" /\ printed = <<>> => Len(printed) = 0 /\ DOMAIN printed = {}
    OBVIOUS
  <2>2. \A S : printed = <<S>> => Len(printed) = 1 /\ DOMAIN printed = {1} /\ printed[1] = S
    OBVIOUS
  <2>3. Len(printed) = IF phase[0] = "done" THEN 1 ELSE 0
    BY <2>1, <2>2 DEF IInv, Phases
  <2>4. \A i \in DOMAIN printed : printed[i] \subseteq ItemsOf(0)
    BY <2>1, <2>2 DEF IInv, Phases
  <2>. QED  BY <2>3, <2>4 DEF IInv, Phases, SentInv, TypeOK
<1>. QED  BY <1>1, Invariance, PTL

(* As long as the filter of one Pi is missing, those of the others are     *)
(* independent of each other and of what P0 has itself, its own shares     *)
(* included.  The collisions of the hash values, the order of the items    *)
(* and what was left out make no difference.                               *)
THEOREM SharesHide == Spec => []OnlyTogether
<1>1. IInv => OnlyTogether
  <2>. SUFFICES ASSUME IInv, NEW S \in (SUBSET Pis) \ {{}, Pis}, \A k \in S : phase[k] = "done",
                       NEW D \in (SUBSET (S \X Cells)) \ {{}}
                PROVE  ~(Xor([kc \in D |-> GBF[kc[1]][kc[2]]]) \subseteq HeldByP0)
    BY DEF OnlyTogether
  <2>1. parties > 2
    <3>1. PICK k \in S : TRUE
      OBVIOUS
    <3>2. PICK r \in Pis : r \notin S
      OBVIOUS
    <3>3. k \in Pis /\ k # r
      BY <3>1, <3>2
    <3>. QED  BY <3>2, <3>3, Numbers DEF Pis, Players
  <2>2. \A k \in S : ReRandomizes(k, GBF[k])
    BY <2>1 DEF IInv, SentInv
  <2>. QED  BY <2>2, SomeAreNotEnough DEF IInv
<1>. QED  BY <1>1, Invariance, PTL

(* With three parties or more, for which the shares of zero are made, the  *)
(* output has every item that all parties have and left in.                *)
THEOREM PrintsAllSure ==
  ASSUME parties > 2
  PROVE  Spec => []NothingMissing
<1>1. IInv => NothingMissing
  BY DEF IInv, PrintedInv, NothingMissing
<1>. QED  BY <1>1, Invariance, PTL

(* With three parties or more the program does what PSI promises: it       *)
(* prints once, at least what all have and left in, and no item that the   *)
(* Bloom filter of some party excludes.                                    *)
THEOREM ProtocolImplementsPSI ==
  ASSUME parties > 2
  PROVE  Spec => ImplementsPSI
<1>1. Init => Abstract!Init
  <2>. SUFFICES ASSUME Init PROVE Abstract!Init
    OBVIOUS
  <2>1. Sure \subseteq Possible
    BY DEF Sure, Possible, BF
  <2>2. printed = <<>>
    BY DEF Init
  <2>. QED  BY <2>1, <2>2 DEF Abstract!Init
<1>2. IInv /\ [Next]_vars => [Abstract!Announce]_(Abstract!vars)
  <2>. SUFFICES ASSUME IInv, [Next]_vars PROVE [Abstract!Announce]_(Abstract!vars)
    OBVIOUS
  <2>1. h_kokhav' = h_kokhav /\ items' = items
    BY DEF Next, Offline, Online, Send, Receive, Output, Terminated, vars
  <2>2. Sure' = Sure /\ Possible' = Possible
    BY <2>1, SameInputs
  <2>3. CASE Output
    <3>1. PICK S \in SUBSET Possible : Sure \subseteq S /\ printed = <<>> /\ printed' = <<S>>
      BY <2>3, OutputIsPSI
    <3>. QED  BY <2>2, <3>1 DEF Abstract!Announce
  <2>4. CASE ~Output
    <3>1. printed' = printed
      BY <2>4 DEF Next, Offline, Online, Send, Receive, Terminated, vars
    <3>. QED  BY <2>2, <3>1 DEF Abstract!vars
  <2>. QED  BY <2>3, <2>4
<1>. QED  BY <1>1, <1>2, Invariance, PTL DEF Spec, ImplementsPSI, Abstract!Spec
=============================================================================
