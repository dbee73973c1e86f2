--------------------------- MODULE Codewords_proofs ---------------------------
(***************************************************************************)
(* The Bloom filter and the new GBF of a Pi, proved for every number of    *)
(* items, threads, cells and bits: the threads share out the items without *)
(* a rest and without a clash, and the codewords survive re-randomization. *)
(***************************************************************************)
EXTENDS Codewords, Blocks_proofs

(* The items that were hashed.                                             *)
Hashed == {i \in Items : \E t \in BfWorkers : i \in Begin(t) .. next[t] - 1}

BloomInv ==
  /\ BloomTypeOK
  /\ \A i \in Items : IsFiniteSet(hash[i])
  /\ \A t \in BfWorkers : next[t] \in Begin(t) .. End(t)
  /\ h_kokhav = [i \in Items |-> IF i \in Hashed THEN hash[i] ELSE {}]
  /\ BF = UNION {hash[i] : i \in Hashed}
  /\ joined => \A t \in BfWorkers : next[t] = End(t)

(* The cells of the items so far.                                          *)
Used == UNION {h_kokhav[i] : i \in 0 .. item - 1}

StartsEmpty == step = "bloom" => /\ item = 0 /\ leftOut = {} /\ zeroed = {}
                                 /\ GBF = Empty

(* No item is without a thread, no cell of a later item is in use yet.     *)
FillInv ==
  /\ step # "bloom" => joined
  /\ StartsEmpty
  /\ step \in {"rest", "done"} => item = len
  /\ step \in {"bloom", "fill"} => \A c \in Cells \ Used : GBF[c] = Zero
  /\ \A c \in Used \ zeroed : GBF[c] # Zero

IInv == TypeOK /\ BloomInv /\ FillInv /\ CodewordsHold /\ LeftOutWhenCovered

-----------------------------------------------------------------------------
(* The ranges of the threads.                                              *)
LEMMA JumpFacts ==
  ASSUME len \in Nat
  PROVE  jump \in Nat /\ BfThreads * jump \in Nat /\ BfThreads * jump <= len
  BY BloomAssumption DEF jump

LEMMA RangeOrder ==
  ASSUME len \in Nat, NEW t \in BfWorkers, NEW u \in BfWorkers
  PROVE  /\ Begin(t) \in Nat /\ End(t) \in Nat /\ Begin(t) <= End(t) /\ End(t) <= len
         /\ t < u => End(t) <= Begin(u)
<1>1. /\ jump \in Nat /\ BfThreads * jump <= len /\ BfThreads * jump \in Nat
      /\ BfThreads \in Nat /\ t \in Nat /\ u \in Nat /\ t <= BfThreads /\ u <= BfThreads
  BY JumpFacts, BloomAssumption DEF BfWorkers
<1>2. \A a, c, j \in Nat : a < c => a * j + j <= c * j
  <2>. SUFFICES ASSUME NEW a \in Nat, NEW c \in Nat, NEW j \in Nat, a < c
                PROVE  a * j + j <= c * j
    OBVIOUS
  <2>1. (a + 1) * j <= c * j
    OBVIOUS
  <2>2. (a + 1) * j = a * j + j
    OBVIOUS
  <2>3. a * j \in Nat /\ c * j \in Nat
    OBVIOUS
  <2>. QED  BY <2>1, <2>2, <2>3
<1>3. Begin(t) \in Nat /\ Begin(u) \in Nat
  BY <1>1 DEF Begin
<1>4. t < BfThreads => Begin(t) + jump <= len
  <2>1. t < BfThreads => t * jump + jump <= BfThreads * jump
    BY <1>1, <1>2
  <2>. QED  BY <1>1, <1>3, <2>1 DEF Begin
<1>5. Begin(t) <= len
  <2>1. CASE t = BfThreads
    BY <1>1, <2>1 DEF Begin
  <2>2. CASE t < BfThreads
    BY <1>1, <1>3, <1>4, <2>2
  <2>. QED  BY <1>1, <2>1, <2>2
<1>6. End(t) \in Nat /\ Begin(t) <= End(t) /\ End(t) <= len
  BY <1>1, <1>3, <1>4, <1>5 DEF End
<1>7. t < u => End(t) <= Begin(u)
  <2>1. t < u => t * jump + jump <= u * jump
    BY <1>1, <1>2
  <2>2. t < u => t # BfThreads
    BY <1>1
  <2>. QED  BY <2>1, <2>2 DEF End, Begin
<1>. QED  BY <1>3, <1>6, <1>7

(* The ranges leave out no item, however few there are.                    *)
LEMMA RangesCover ==
  ASSUME len \in Nat, NEW i \in Items
  PROVE  \E t \in BfWorkers : i \in Begin(t) .. End(t) - 1
<1>1. /\ jump \in Nat /\ BfThreads * jump <= len /\ BfThreads * jump \in Nat
      /\ BfThreads \in Nat \ {0} /\ i \in Nat /\ i < len
  BY JumpFacts, BloomAssumption DEF Items
<1>2. CASE i >= BfThreads * jump
  <2>1. BfThreads \in BfWorkers /\ Begin(BfThreads) = BfThreads * jump /\ End(BfThreads) = len
    BY <1>1 DEF BfWorkers, Begin, End
  <2>2. i \in Begin(BfThreads) .. End(BfThreads) - 1
    BY <1>1, <1>2, <2>1
  <2>. QED  BY <2>1, <2>2
<1>3. CASE i < BfThreads * jump
  <2>1. jump > 0
    <3>1. jump = 0 => BfThreads * jump = 0
      BY <1>1
    <3>. QED  BY <1>1, <1>3, <3>1
  <2>2. PICK q \in Nat : q * jump <= i /\ i < q * jump + jump
    <3>. DEFINE q == i \div jump
    <3>1. q \in Nat /\ jump * q <= i /\ i < jump * q + jump
      BY <1>1, <2>1
    <3>2. jump * q = q * jump
      BY <1>1, <3>1
    <3>. QED  BY <3>1, <3>2
  <2>3. q < BfThreads
    <3>1. SUFFICES ASSUME q >= BfThreads PROVE FALSE
      BY <1>1
    <3>2. q * jump >= BfThreads * jump
      BY <1>1, <3>1
    <3>3. q * jump \in Nat
      BY <1>1
    <3>. QED  BY <1>1, <1>3, <2>2, <3>2, <3>3
  <2>4. q \in BfWorkers /\ Begin(q) = q * jump /\ End(q) = q * jump + jump
    BY <1>1, <2>3 DEF BfWorkers, Begin, End
  <2>5. q * jump \in Nat
    BY <1>1
  <2>6. i \in Begin(q) .. End(q) - 1
    BY <1>1, <2>2, <2>4, <2>5
  <2>. QED  BY <2>4, <2>6
<1>. QED  BY <1>1, <1>2, <1>3

(* What is left for two threads lies in their two ranges.                  *)
LEMMA RangesApart == BloomInv => ItemsApart
<1>. SUFFICES ASSUME BloomInv, NEW t \in BfWorkers, NEW u \in BfWorkers, t # u
              PROVE  (next[t] .. End(t) - 1) \cap (next[u] .. End(u) - 1) = {}
  BY DEF ItemsApart
<1>1. len \in Nat /\ t \in Int /\ u \in Int
  BY BloomAssumption DEF BloomInv, BloomTypeOK, BfWorkers
<1>2. /\ Begin(t) \in Nat /\ End(t) \in Nat /\ Begin(u) \in Nat /\ End(u) \in Nat
      /\ t < u => End(t) <= Begin(u)
      /\ u < t => End(u) <= Begin(t)
  BY <1>1, RangeOrder
<1>3. next[t] \in Begin(t) .. End(t) /\ next[u] \in Begin(u) .. End(u)
  BY DEF BloomInv
<1>4. t < u \/ u < t
  BY <1>1
<1>. QED  BY <1>2, <1>3, <1>4

LEMMA InitBloom ==
  ASSUME BloomInit
  PROVE  BloomInv
<1>1. len \in 0 .. MaxItems /\ len \in Nat
  BY BloomAssumption DEF BloomInit
<1>2. hash \in [Items -> SUBSET Cells] /\ \A i \in Items : IsFiniteSet(hash[i])
  <2>1. IsFiniteSet(Cells)
    BY BloomAssumption, FS_Interval DEF Cells
  <2>2. \A S \in SUBSET Cells : IsFiniteSet(S)
    BY <2>1, FS_Subset
  <2>3. hash \in [Items -> SUBSET Cells]
    BY DEF BloomInit
  <2>. QED  BY <2>2, <2>3
<1>3. /\ next = [t \in BfWorkers |-> Begin(t)] /\ BF = {} /\ joined = FALSE
      /\ h_kokhav = [i \in Items |-> {}]
  BY DEF BloomInit
<1>4. \A t \in BfWorkers : next[t] = Begin(t) /\ Begin(t) \in Begin(t) .. End(t)
                           /\ Begin(t) \in 0 .. len
  BY <1>1, <1>3, RangeOrder
<1>5. BloomTypeOK
  BY <1>1, <1>2, <1>3, <1>4 DEF BloomTypeOK
<1>6. Hashed = {}
  <2>1. \A t \in BfWorkers : Begin(t) .. next[t] - 1 = {}
    BY <1>1, <1>4, RangeOrder
  <2>. QED  BY <2>1 DEF Hashed
<1>. QED  BY <1>2, <1>3, <1>4, <1>5, <1>6 DEF BloomInv

LEMMA HashKeeps ==
  ASSUME BloomInv, NEW t \in BfWorkers, Hash(t)
  PROVE  BloomInv'
<1>1. /\ next[t] < End(t)
      /\ BF' = BF \cup hash[next[t]]
      /\ h_kokhav' = [h_kokhav EXCEPT ![next[t]] = @ \cup hash[next[t]]]
      /\ next' = [next EXCEPT ![t] = @ + 1]
      /\ UNCHANGED <<len, hash, joined>>
  BY DEF Hash
<1>2. PICK i : i = next[t]
  OBVIOUS
<1>3. len \in Nat /\ len \in 0 .. MaxItems
  BY BloomAssumption DEF BloomInv, BloomTypeOK
<1>4. /\ Begin(t) \in Nat /\ End(t) \in Nat /\ End(t) <= len
      /\ next \in [BfWorkers -> 0 .. len] /\ i \in Begin(t) .. End(t)
  BY <1>2, <1>3, RangeOrder DEF BloomInv, BloomTypeOK
<1>5. i \in Items /\ i \in Nat /\ i + 1 \in 0 .. len /\ i + 1 \in Begin(t) .. End(t)
  BY <1>1, <1>2, <1>3, <1>4 DEF Items
<1>6. /\ next' \in [BfWorkers -> 0 .. len] /\ next'[t] = i + 1
      /\ \A u \in BfWorkers : u # t => next'[u] = next[u]
  BY <1>1, <1>2, <1>4, <1>5
<1>7. /\ Items' = Items
      /\ \A u \in BfWorkers : Begin(u)' = Begin(u) /\ End(u)' = End(u)
  BY <1>1 DEF Items, Begin, End, jump
<1>8. Hashed' = Hashed \cup {i}
  <2>1. \A j \in Items : j \in Begin(t) .. next'[t] - 1 <=> j \in Begin(t) .. i - 1 \/ j = i
    BY <1>4, <1>5, <1>6 DEF Items
  <2>2. \A j \in Items : j \in Begin(t) .. i - 1 <=> j \in Begin(t) .. next[t] - 1
    BY <1>2
  <2>3. \A j \in Items : (\E u \in BfWorkers : j \in Begin(u) .. next'[u] - 1)
                         <=> (\E u \in BfWorkers : j \in Begin(u) .. next[u] - 1) \/ j = i
    BY <1>6, <2>1, <2>2
  <2>4. Hashed' = {j \in Items : \E u \in BfWorkers : j \in Begin(u) .. next'[u] - 1}
    BY <1>7 DEF Hashed
  <2>. QED  BY <1>5, <2>3, <2>4 DEF Hashed
<1>9. hash \in [Items -> SUBSET Cells] /\ h_kokhav \in [Items -> SUBSET Cells]
      /\ BF \subseteq Cells
  BY DEF BloomInv, BloomTypeOK
<1>10. BloomTypeOK'
  <2>1. h_kokhav' \in [Items -> SUBSET Cells] /\ BF' \subseteq Cells
    BY <1>1, <1>2, <1>5, <1>9
  <2>. QED  BY <1>1, <1>3, <1>6, <1>7, <1>9, <2>1 DEF BloomInv, BloomTypeOK
<1>11. h_kokhav' = [j \in Items |-> IF j \in Hashed' THEN hash[j] ELSE {}]
  <2>1. h_kokhav = [j \in Items |-> IF j \in Hashed THEN hash[j] ELSE {}]
    BY DEF BloomInv
  <2>2. \A j \in Items : h_kokhav'[j] = IF j = i THEN h_kokhav[i] \cup hash[i] ELSE h_kokhav[j]
    BY <1>1, <1>2, <1>9
  <2>3. \A j \in Items : h_kokhav'[j] = IF j \in Hashed' THEN hash[j] ELSE {}
    <3>. SUFFICES ASSUME NEW j \in Items
                  PROVE  h_kokhav'[j] = IF j \in Hashed' THEN hash[j] ELSE {}
      OBVIOUS
    <3>1. h_kokhav[j] = IF j \in Hashed THEN hash[j] ELSE {}
      BY <2>1
    <3>2. CASE j = i
      <4>1. h_kokhav'[j] = hash[j]
        BY <2>2, <3>1, <3>2
      <4>. QED  BY <1>8, <3>2, <4>1
    <3>3. CASE j # i
      BY <1>8, <2>2, <3>1, <3>3
    <3>. QED  BY <3>2, <3>3
  <2>4. h_kokhav' \in [Items -> SUBSET Cells]
    BY <1>7, <1>10 DEF BloomTypeOK
  <2>. QED  BY <2>3, <2>4
<1>12. BF' = UNION {hash[j] : j \in Hashed'}
  BY <1>1, <1>2, <1>8 DEF BloomInv
<1>13. ~joined
  BY <1>1, <1>3, <1>4, <1>2 DEF BloomInv
<1>14. \A u \in BfWorkers : next'[u] \in Begin(u)' .. End(u)'
  BY <1>5, <1>6, <1>7 DEF BloomInv
<1>15. \A j \in Items' : IsFiniteSet(hash'[j])
  BY <1>1, <1>7 DEF BloomInv
<1>16. h_kokhav' = [j \in Items' |-> IF j \in Hashed' THEN hash'[j] ELSE {}]
  BY <1>1, <1>7, <1>11
<1>17. BF' = UNION {hash'[j] : j \in Hashed'}
  BY <1>1, <1>12
<1>18. ~joined'
  BY <1>1, <1>13
<1>. QED  BY <1>10, <1>14, <1>15, <1>16, <1>17, <1>18 DEF BloomInv

LEMMA BloomKept ==
  ASSUME BloomInv, UNCHANGED <<len, hash, next, BF, h_kokhav>>,
         joined' = joined \/ (JoinBloom /\ joined')
  PROVE  BloomInv'
<1>1. /\ Items' = Items /\ Hashed' = Hashed
      /\ \A u \in BfWorkers : Begin(u)' = Begin(u) /\ End(u)' = End(u)
  BY DEF Items, Hashed, Begin, End, jump
<1>2. joined' => \A t \in BfWorkers : next[t] = End(t)
  <2>1. CASE joined' = joined
    BY <2>1 DEF BloomInv
  <2>2. CASE JoinBloom
    <3>1. len \in Nat /\ \A t \in BfWorkers : next[t] >= End(t)
      BY <2>2, BloomAssumption DEF JoinBloom, BloomInv, BloomTypeOK
    <3>2. \A t \in BfWorkers : next[t] \in Begin(t) .. End(t) /\ Begin(t) \in Nat /\ End(t) \in Nat
      BY <3>1, RangeOrder DEF BloomInv
    <3>. QED  BY <3>1, <3>2
  <2>. QED  BY <2>1, <2>2
<1>3. joined' \in BOOLEAN
  BY DEF BloomInv, BloomTypeOK, JoinBloom
<1>4. BloomTypeOK'
  BY <1>1, <1>3 DEF BloomInv, BloomTypeOK
<1>. QED  BY <1>1, <1>2, <1>4 DEF BloomInv

(* All ranges are done.                                                    *)
LEMMA BloomDone == BloomInv => FilterComplete
<1>. SUFFICES ASSUME BloomInv, joined
              PROVE  h_kokhav = hash /\ BF = UNION {hash[i] : i \in Items}
  BY DEF FilterComplete
<1>1. len \in Nat
  BY BloomAssumption DEF BloomInv, BloomTypeOK
<1>2. Hashed = Items
  BY <1>1, RangesCover DEF BloomInv, Hashed
<1>3. hash \in [Items -> SUBSET Cells] /\ h_kokhav \in [Items -> SUBSET Cells]
  BY DEF BloomInv, BloomTypeOK
<1>4. \A i \in Items : h_kokhav[i] = hash[i]
  BY <1>2 DEF BloomInv
<1>. QED  BY <1>2, <1>3, <1>4 DEF BloomInv

-----------------------------------------------------------------------------
(* The steps.                                                              *)
LEMMA InitInv == Init => IInv
<1>. SUFFICES ASSUME Init PROVE IInv
  OBVIOUS
<1>1. BloomInv
  BY InitBloom DEF Init
<1>2. len \in Nat /\ 0 .. -1 = {} /\ Zero \in AllBlocks /\ joined = FALSE /\ 0 \in 0 .. len
  BY BloomAssumption DEF Init, BloomInit, AllBlocks, Zero
<1>3. TypeOK
  <2>1. BloomTypeOK
    BY <1>1 DEF BloomInv
  <2>. QED  BY <1>2, <2>1 DEF Init, TypeOK, Empty
<1>4. FillInv
  BY <1>2 DEF Init, FillInv, StartsEmpty, Used, Empty
<1>5. CodewordsHold /\ LeftOutWhenCovered
  BY <1>2 DEF Init, CodewordsHold, LeftOutWhenCovered
<1>. QED  BY <1>1, <1>3, <1>4, <1>5 DEF IInv

(* The items so far, and the next one.                                     *)
LEMMA UsedGrows ==
  ASSUME IInv, item < len
  PROVE  /\ item \in Items /\ item \in Nat
         /\ h_kokhav[item] \in SUBSET Cells
         /\ Used \subseteq Cells
         /\ UNION {h_kokhav[i] : i \in 0 .. item} = Used \cup h_kokhav[item]
         /\ \A i \in 0 .. item - 1 : h_kokhav[i] \subseteq Used
<1>1. len \in Nat /\ item \in 0 .. len /\ h_kokhav \in [Items -> SUBSET Cells]
  BY BloomAssumption DEF IInv, TypeOK, BloomTypeOK
<1>2. item \in Items /\ item \in Nat /\ 0 .. item - 1 \subseteq Items
  BY <1>1 DEF Items
<1>3. 0 .. item = (0 .. item - 1) \cup {item}
  BY <1>2
<1>. QED  BY <1>1, <1>2, <1>3 DEF Used

LEMMA BloomStep ==
  ASSUME IInv, Bloom
  PROVE  IInv'
<1>1. UNCHANGED codeVars /\ len' = len /\ ~joined
  <2>1. CASE JoinBloom
    BY <2>1 DEF JoinBloom, Bloom
  <2>2. ASSUME NEW t \in BfWorkers, Hash(t)
        PROVE  len' = len /\ ~joined
    <3>1. len \in Nat
      BY BloomAssumption DEF IInv, TypeOK, BloomTypeOK
    <3>2. next[t] < End(t) /\ End(t) \in Nat
      BY <2>2, <3>1, RangeOrder DEF Hash
    <3>. QED  BY <2>2, <3>2 DEF Hash, IInv, BloomInv
  <2>. QED  BY <2>1, <2>2 DEF Bloom
<1>2. step = "bloom" /\ item = 0 /\ leftOut = {} /\ zeroed = {} /\ GBF = Empty
  BY <1>1 DEF IInv, TypeOK, FillInv, StartsEmpty
<1>3. BloomInv'
  <2>1. CASE JoinBloom
    BY <2>1, BloomKept DEF JoinBloom, IInv
  <2>. QED  BY <2>1, HashKeeps DEF Bloom, IInv
<1>4. TypeOK'
  <2>1. BloomTypeOK'
    BY <1>3 DEF BloomInv
  <2>2. Items' = Items
    BY <1>1 DEF Items
  <2>. QED  BY <1>1, <2>1, <2>2 DEF IInv, TypeOK, codeVars
<1>5. step' = "bloom" /\ item' = 0 /\ leftOut' = {} /\ zeroed' = {} /\ GBF' = Empty
  BY <1>1, <1>2 DEF codeVars
<1>6. 0 .. 0 - 1 = {}
  OBVIOUS
<1>7. FillInv'
  <2>1. Used' = {}
    BY <1>5, <1>6 DEF Used
  <2>. QED  BY <1>5, <2>1 DEF FillInv, StartsEmpty, Empty
<1>8. CodewordsHold' /\ LeftOutWhenCovered'
  BY <1>5, <1>6 DEF CodewordsHold, LeftOutWhenCovered
<1>. QED  BY <1>3, <1>4, <1>7, <1>8 DEF IInv

LEMMA GetYStep ==
  ASSUME IInv, GetY
  PROVE  IInv'
<1>1. /\ step = "bloom" /\ joined /\ step' = "fill"
      /\ M1' \in [Cells -> AllBlocks]
      /\ Y' = [i \in Items |-> SumOver(M1', h_kokhav[i])]
      /\ UNCHANGED <<bloomVars, GBF, item, leftOut, zeroed>>
  BY DEF GetY
<1>2. item = 0 /\ leftOut = {} /\ zeroed = {} /\ GBF = Empty
  BY <1>1 DEF IInv, FillInv, StartsEmpty
<1>3. BloomInv'
  BY <1>1, BloomKept DEF bloomVars, IInv
<1>4. TypeOK'
  <2>1. Items' = Items /\ BloomTypeOK'
    BY <1>1, <1>3 DEF bloomVars, Items, BloomInv
  <2>2. Y' \in [Items -> AllBlocks]
    <3>1. \A i \in Items : h_kokhav[i] \in SUBSET Cells
      BY DEF IInv, TypeOK, BloomTypeOK
    <3>2. \A i \in Items : SumOver(M1', h_kokhav[i]) \in AllBlocks
      BY <1>1, <3>1, SumIsBlock DEF AllBlocks
    <3>. QED  BY <1>1, <3>2
  <2>. QED  BY <1>1, <2>1, <2>2 DEF IInv, TypeOK, bloomVars
<1>5. item' = 0 /\ leftOut' = {} /\ GBF' = Empty /\ 0 .. 0 - 1 = {} /\ joined'
  BY <1>1, <1>2 DEF bloomVars
<1>6. FillInv'
  <2>1. Used' = {}
    BY <1>5 DEF Used
  <2>. QED  BY <1>1, <1>5, <2>1 DEF FillInv, StartsEmpty, Empty
<1>7. CodewordsHold' /\ LeftOutWhenCovered'
  BY <1>5 DEF CodewordsHold, LeftOutWhenCovered
<1>. QED  BY <1>3, <1>4, <1>6, <1>7 DEF IInv

LEMMA LeaveOutStep ==
  ASSUME IInv, LeaveOut
  PROVE  IInv'
<1>1. /\ step = "fill" /\ item < len
      /\ Empties(GBF, h_kokhav[item]) = {}
      /\ leftOut' = leftOut \cup {item}
      /\ item' = item + 1
      /\ UNCHANGED <<bloomVars, step, M1, Y, GBF, zeroed>>
  BY DEF LeaveOut
<1>2. /\ item \in Items /\ item \in Nat /\ h_kokhav[item] \in SUBSET Cells
      /\ UNION {h_kokhav[i] : i \in 0 .. item} = Used \cup h_kokhav[item]
  BY <1>1, UsedGrows
<1>3. h_kokhav[item] \subseteq Used
  BY <1>1, <1>2 DEF IInv, FillInv, Empties
<1>4. BloomInv' /\ h_kokhav' = h_kokhav /\ len' = len /\ joined' = joined
  BY <1>1, BloomKept DEF bloomVars, IInv
<1>5. item' - 1 = item /\ len \in Nat /\ item' \in 0 .. len /\ 0 .. item = 0 .. item - 1 \cup {item}
  BY <1>1, <1>2, BloomAssumption DEF IInv, TypeOK, BloomTypeOK
<1>6. TypeOK'
  <2>1. Items' = Items /\ BloomTypeOK'
    BY <1>4 DEF Items, BloomInv
  <2>2. leftOut' \subseteq 0 .. item' - 1
    BY <1>1, <1>2, <1>5 DEF IInv, TypeOK
  <2>. QED  BY <1>1, <1>4, <1>5, <2>1, <2>2 DEF IInv, TypeOK
<1>7. FillInv'
  <2>1. Used' = Used
    BY <1>2, <1>3, <1>4, <1>5 DEF Used
  <2>. QED  BY <1>1, <1>4, <2>1 DEF IInv, FillInv, StartsEmpty
<1>8. CodewordsHold'
  BY <1>1, <1>4, <1>5 DEF IInv, CodewordsHold, Spoiled
<1>9. LeftOutWhenCovered'
  <2>1. \A i : Covered(i)' = Covered(i) /\ Spoiled(i)' = Spoiled(i)
    BY <1>1, <1>4 DEF Covered, Spoiled
  <2>2. Covered(item)
    BY <1>3 DEF Covered, Used
  <2>. QED  BY <1>1, <1>5, <2>1, <2>2 DEF IInv, LeftOutWhenCovered
<1>. QED  BY <1>4, <1>6, <1>7, <1>8, <1>9 DEF IInv

LEMMA FillStep ==
  ASSUME IInv, Fill
  PROVE  IInv'
<1>1. /\ step = "fill" /\ item < len
      /\ Empties(GBF, h_kokhav[item]) # {}
      /\ item' = item + 1
      /\ UNCHANGED <<bloomVars, step, M1, Y, leftOut>>
  BY DEF Fill
<1>2. /\ item \in Items /\ item \in Nat /\ h_kokhav[item] \in SUBSET Cells
      /\ Used \subseteq Cells
      /\ UNION {h_kokhav[i] : i \in 0 .. item} = Used \cup h_kokhav[item]
      /\ \A i \in 0 .. item - 1 : h_kokhav[i] \subseteq Used
  BY <1>1, UsedGrows
<1>3. PICK rnd \in [ForRandom(GBF, h_kokhav[item]) -> AllBlocks] :
         Write(Filled(GBF, h_kokhav[item], Y[item], rnd))
  BY DEF Fill
<1>4. GBF \in [Cells -> AllBlocks] /\ Y[item] \in AllBlocks
  BY <1>2 DEF IInv, TypeOK
<1>5. /\ GBF' \in [Cells -> AllBlocks]
      /\ \A c \in Cells \ Empties(GBF, h_kokhav[item]) : GBF'[c] = GBF[c]
      /\ SumOver(GBF', h_kokhav[item]) = Y[item]
  <2>. FillsIn(Cells, Bits, GBF, h_kokhav[item], Y[item], rnd)
    <3>1. Cells \subseteq Nat /\ IsFiniteSet(Cells)
      BY BloomAssumption, FS_Interval DEF Cells
    <3>. QED  BY <1>1, <1>2, <1>4, <3>1 DEF FillsIn, AllBlocks
  <2>1. GBF' = Filled(GBF, h_kokhav[item], Y[item], rnd)
    BY <1>3 DEF Write
  <2>2. /\ Filled(GBF, h_kokhav[item], Y[item], rnd) \in [Cells -> AllBlocks]
        /\ \A c \in Cells \ Empties(GBF, h_kokhav[item]) :
             Filled(GBF, h_kokhav[item], Y[item], rnd)[c] = GBF[c]
    BY FilledCells DEF AllBlocks
  <2>3. SumOver(Filled(GBF, h_kokhav[item], Y[item], rnd), h_kokhav[item]) = Y[item]
    BY FilledSum
  <2>. QED  BY <2>1, <2>2, <2>3
<1>6. zeroed' = zeroed \cup {c \in Used \cup h_kokhav[item] : GBF'[c] = Zero}
  BY <1>2, <1>3 DEF Write, Empties
<1>7. BloomInv' /\ h_kokhav' = h_kokhav /\ len' = len /\ joined' = joined
  BY <1>1, BloomKept DEF bloomVars, IInv
<1>8. item' - 1 = item /\ len \in Nat /\ item' \in 0 .. len /\ 0 .. item = 0 .. item - 1 \cup {item}
  BY <1>1, <1>2, BloomAssumption DEF IInv, TypeOK, BloomTypeOK
<1>9. TypeOK'
  <2>1. Items' = Items /\ BloomTypeOK'
    BY <1>7 DEF Items, BloomInv
  <2>2. leftOut' \subseteq 0 .. item' - 1
    BY <1>1, <1>2, <1>8 DEF IInv, TypeOK
  <2>3. zeroed' \subseteq Cells
    BY <1>2, <1>6 DEF IInv, TypeOK
  <2>. QED  BY <1>1, <1>5, <1>7, <1>8, <2>1, <2>2, <2>3 DEF IInv, TypeOK
<1>10. Used' = Used \cup h_kokhav[item]
  <2>1. Used' = UNION {h_kokhav[i] : i \in 0 .. item}
    BY <1>7, <1>8 DEF Used
  <2>. QED  BY <1>2, <2>1
<1>11. FillInv'
  <2>1. \A c \in Cells \ Used' : GBF'[c] = Zero
    BY <1>1, <1>5, <1>10 DEF Empties, IInv, FillInv
  <2>2. \A c \in Used' \ zeroed' : GBF'[c] # Zero
    BY <1>6, <1>10
  <2>. QED  BY <1>1, <1>7, <2>1, <2>2 DEF IInv, FillInv, StartsEmpty
<1>12. \A i : h_kokhav[i] \cap zeroed' = {} =>
          ~Spoiled(i) /\ \A c \in h_kokhav[i] \cap Used : GBF[c] # Zero
  BY <1>6 DEF Spoiled, IInv, FillInv
<1>13. CodewordsHold'
  <2>. SUFFICES ASSUME NEW i \in 0 .. item, i \notin leftOut, h_kokhav[i] \cap zeroed' = {}
                PROVE  SumOver(GBF', h_kokhav[i]) = Y[i]
    BY <1>1, <1>7, <1>8 DEF CodewordsHold, Spoiled
  <2>1. CASE i = item
    BY <1>5, <2>1
  <2>2. CASE i \in 0 .. item - 1
    <3>1. \A c \in h_kokhav[i] : c \in Used /\ c \in Cells /\ GBF[c] # Zero
      BY <1>2, <1>12, <2>2
    <3>2. \A c \in h_kokhav[i] : GBF'[c] = GBF[c]
      BY <1>5, <3>1 DEF Empties
    <3>3. SumOver(GBF', h_kokhav[i]) = SumOver(GBF, h_kokhav[i])
      BY <3>2, SumOfSame
    <3>4. SumOver(GBF, h_kokhav[i]) = Y[i]
      BY <1>12, <2>2 DEF IInv, CodewordsHold
    <3>. QED  BY <3>3, <3>4
  <2>. QED  BY <1>8, <2>1, <2>2
<1>14. LeftOutWhenCovered'
  <2>1. \A i : Covered(i)' = Covered(i)
    BY <1>7 DEF Covered
  <2>2. Covered(item) => h_kokhav[item] \cap zeroed' # {}
    <3>1. Covered(item) => h_kokhav[item] \subseteq Used
      BY DEF Covered, Used
    <3>2. h_kokhav[item] \cap zeroed' = {} => \A c \in h_kokhav[item] \cap Used : GBF[c] # Zero
      BY <1>12
    <3>. QED  BY <1>1, <3>1, <3>2 DEF Empties
  <2>3. ASSUME NEW i \in 0 .. item, Covered(i), h_kokhav[i] \cap zeroed' = {}
        PROVE  i \in leftOut
    BY <1>8, <1>12, <2>2, <2>3 DEF IInv, LeftOutWhenCovered
  <2>4. \A i \in leftOut : Covered(i)
    BY DEF IInv, LeftOutWhenCovered
  <2>. QED  BY <1>1, <1>7, <1>8, <2>1, <2>3, <2>4 DEF LeftOutWhenCovered, Spoiled
<1>. QED  BY <1>7, <1>9, <1>11, <1>13, <1>14 DEF IInv

LEMMA RestStep ==
  ASSUME IInv, EndFill \/ FillRest \/ Terminated \/ UNCHANGED vars
  PROVE  IInv'
<1>1. UNCHANGED <<bloomVars, M1, Y, item, leftOut, zeroed>>
  BY DEF EndFill, FillRest, Terminated, vars, codeVars
<1>2. /\ GBF' \in [Cells -> AllBlocks]
      /\ GBF' = GBF \/ (step' = "done" /\ \A c \in Cells : GBF[c] # Zero => GBF'[c] = GBF[c])
  <2>1. CASE FillRest
    <3>1. PICK rnd \in [Empties(GBF, Cells) -> AllBlocks] :
             GBF' = [c \in Cells |-> IF c \in DOMAIN rnd THEN rnd[c] ELSE GBF[c]]
      BY <2>1 DEF FillRest
    <3>2. DOMAIN rnd = Empties(GBF, Cells) /\ GBF \in [Cells -> AllBlocks]
      BY DEF IInv, TypeOK
    <3>. QED  BY <2>1, <3>1, <3>2 DEF FillRest, Empties
  <2>2. CASE EndFill \/ Terminated \/ UNCHANGED vars
    BY <2>2 DEF EndFill, Terminated, vars, codeVars, IInv, TypeOK
  <2>. QED  BY <2>1, <2>2
<1>3. /\ step' = step \/ (step' = "rest" /\ step = "fill" /\ item = len)
                      \/ (step' = "done" /\ step = "rest")
      /\ step' \in {"bloom", "fill"} => GBF' = GBF
      /\ step' = "bloom" => GBF' = GBF
  BY DEF EndFill, FillRest, Terminated, vars, codeVars
<1>4. BloomInv' /\ h_kokhav' = h_kokhav /\ len' = len /\ joined' = joined
  BY <1>1, BloomKept DEF bloomVars, IInv
<1>5. TypeOK'
  <2>1. Items' = Items /\ BloomTypeOK'
    BY <1>4 DEF Items, BloomInv
  <2>. QED  BY <1>1, <1>2, <1>3, <1>4, <2>1 DEF IInv, TypeOK
<1>6. Used' = Used /\ \A i \in 0 .. item - 1 : h_kokhav[i] \subseteq Used /\ i \in Items
  <2>1. len \in Nat /\ item \in 0 .. len
    BY BloomAssumption DEF IInv, TypeOK, BloomTypeOK
  <2>. QED  BY <1>1, <1>4, <2>1 DEF Used, Items
<1>7. \A c \in Used : c \in Cells
  BY <1>6 DEF Used, IInv, TypeOK, BloomTypeOK
<1>8. \A c \in Used \ zeroed : GBF[c] # Zero /\ GBF'[c] = GBF[c]
  BY <1>2, <1>7 DEF IInv, FillInv
<1>9. FillInv'
  BY <1>1, <1>3, <1>4, <1>6, <1>8 DEF IInv, FillInv, StartsEmpty
<1>10. CodewordsHold'
  <2>. SUFFICES ASSUME NEW i \in 0 .. item - 1, i \notin leftOut, ~Spoiled(i)
                PROVE  SumOver(GBF', h_kokhav[i]) = Y[i]
    BY <1>1, <1>4 DEF CodewordsHold, Spoiled
  <2>1. SumOver(GBF', h_kokhav[i]) = SumOver(GBF, h_kokhav[i])
    <3>1. \A c \in h_kokhav[i] : GBF'[c] = GBF[c]
      BY <1>6, <1>8 DEF Spoiled
    <3>. QED  BY <3>1, SumOfSame
  <2>. QED  BY <2>1 DEF IInv, CodewordsHold
<1>11. LeftOutWhenCovered'
  BY <1>1, <1>4 DEF IInv, LeftOutWhenCovered, Covered, Spoiled
<1>. QED  BY <1>4, <1>5, <1>9, <1>10, <1>11 DEF IInv

(* The invariant that all of the theorems come from.                       *)
THEOREM Invariance == Spec => []IInv
<1>1. IInv /\ [Next]_vars => IInv'
  BY BloomStep, GetYStep, LeaveOutStep, FillStep, RestStep DEF Next
<1>. QED  BY InitInv, <1>1, PTL DEF Spec

-----------------------------------------------------------------------------
(* The filters, the items and the codewords keep their types, and only     *)
(* items that were looked at are left out.                                 *)
THEOREM TypeCorrect == Spec => []TypeOK
<1>1. IInv => TypeOK
  BY DEF IInv
<1>. QED  BY Invariance, <1>1, PTL

(* bf_threads: with any number of items and of threads, no two threads are *)
(* ever at the same item, so no std::set has two writers.                  *)
THEOREM ItemsStayApart == Spec => []ItemsApart
<1>1. IInv => ItemsApart
  BY RangesApart DEF IInv
<1>. QED  BY Invariance, <1>1, PTL

(* When the threads are joined, the Bloom filter has the cells of all the  *)
(* items, those of the last thread's rest too, and no others.              *)
THEOREM FilterIsComplete == Spec => []FilterComplete
<1>1. IInv => FilterComplete
  BY BloomDone DEF IInv
<1>. QED  BY Invariance, <1>1, PTL

(* re_randomization: the filter that is sent has the codewords of the one  *)
(* that the online phase left, for every item with a cell of its own and   *)
(* no cell that was given a block of zeros.                                *)
THEOREM CodewordsSurvive == Spec => []CodewordsHold
<1>1. IInv => CodewordsHold
  BY DEF IInv
<1>. QED  BY Invariance, <1>1, PTL

(* The items that re_randomization gives up are those whose cells all      *)
(* belong to earlier ones, whatever blocks of zeros do to other items.     *)
THEOREM LeftOutForCover == Spec => []LeftOutWhenCovered
<1>1. IInv => LeftOutWhenCovered
  BY DEF IInv
<1>. QED  BY Invariance, <1>1, PTL

=============================================================================
