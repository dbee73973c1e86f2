------------------------------- MODULE PSImple -------------------------------
(***************************************************************************)
(* The whole protocol at the level of blocks: what the filters of P0 and   *)
(* of the Pis hold from the shares of zero to the output.  The threads and *)
(* messages that do a step are in the modules for it: a string of a link   *)
(* goes into each cell once (OnlineXor), a function is injective (Apport), *)
(* a filter arrives whole (CumulativeGbf), and P0 reads it after it was    *)
(* sent (Session).                                                         *)
(*                                                                         *)
(* A random block is an atom, named for what it was made for.              *)
(***************************************************************************)
EXTENDS Blocks, SequencesExt

CONSTANTS parties, Nbf, MaxItems,
          Values,      \* of which the items are
          Tables,      \* possible hash tables: item -> its cells
          Heap         \* is memory from new[] dirty? (the possible answers)

ASSUME PSImpleAssumption ==
  /\ parties \in Nat /\ parties >= 2 /\ Nbf \in Nat \ {0} /\ MaxItems \in Nat
  /\ Tables \subseteq [Values -> (SUBSET (0 .. Nbf - 1)) \ {{}}]
  /\ Heap \subseteq BOOLEAN

Players == 0 .. parties - 1
Pis     == Players \ {0}
Cells   == 0 .. Nbf - 1

VARIABLES h_kokhav,    \* item -> its cells; all parties have the same seeds
          items,       \* player -> its items, in the order of its file
          phase,       \* player -> the step that comes next
          acc,         \* player -> its synchGBF
          GBF,         \* Pi -> the filter made by re-randomization
          received,    \* Pis whose filter P0 has added
          printed      \* what P0 has printed

vars == <<h_kokhav, items, phase, acc, GBF, received, printed>>

ItemsOf(p) == Range(items[p])
BF(p)      == UNION {h_kokhav[x] : x \in ItemsOf(p)}
Empty      == [c \in Cells |-> Zero]

Init ==
  /\ h_kokhav \in Tables
  /\ items \in [Players -> {s \in SeqOf(Values, MaxItems) : IsInjective(s)}]
  /\ phase = [p \in Players |-> "offline"]
  /\ \E dirty \in [Players -> Heap] :
       acc = [p \in Players |-> [c \in Cells |-> IF dirty[p] THEN {<<"heap", p, c>>} ELSE Zero]]
  /\ GBF = [k \in Pis |-> Empty]
  /\ received = {}
  /\ printed = <<>>

-----------------------------------------------------------------------------
(* Mutant of Share: two Pis have no keys in common.                        *)
Share_WithP0Only(p, c) ==
  {<<"keys", {p, q}, c>> : q \in IF p = 0 THEN Players \ {0} ELSE {0}}

(* The share of p in a cell: the key streams that p has in common with     *)
(* each of the others.                                                     *)
Share(p, c) == {<<"keys", {p, q}, c>> : q \in Players \ {p}}

(* Mutant of Shared: without the call of secret_sharing_aes.               *)
Shared_NotAtAll(p) == acc[p]

(* secret_sharing_aes clears the filter, and runs with three parties only. *)
Shared(p) == IF parties > 2 THEN [c \in Cells |-> Share(p, c)] ELSE acc[p]

Offline(p) == /\ phase[p] = "offline"
              /\ acc' = [acc EXCEPT ![p] = Shared(p)]
              /\ phase' = [phase EXCEPT ![p] = "online"]
              /\ UNCHANGED <<h_kokhav, items, GBF, received, printed>>

LinksOf(p) == {"A", "B"} \X (IF p = 0 THEN Pis ELSE {p})

(* What a player XORs into a cell for a link.  Of the two strings at the   *)
(* place that the receiver's function gives, the receiver has the one of   *)
(* its own bit (FuncSound in Apport); the sender takes that of its own.    *)
String(p, link, c) == <<"string", link, c, c \in BF(p)>>

(* The other end has sent its function, at the start of its online phase.  *)
Online(p) ==
  /\ phase[p] = "online"
  /\ \A q \in (IF p = 0 THEN Pis ELSE {0}) : phase[q] # "offline"
  /\ acc' = [acc EXCEPT ![p] =
       [c \in Cells |-> SymDiff(@[c], {String(p, link, c) : link \in LinksOf(p)})]]
  /\ phase' = [phase EXCEPT ![p] = IF p = 0 THEN "receive" ELSE "codewords"]
  /\ UNCHANGED <<h_kokhav, items, GBF, received, printed>>

-----------------------------------------------------------------------------
Random(k, cells) == [c \in cells |-> {<<"random", k, c>>}]

(* One item, and all of them, in re_randomization.                         *)
FilledFor(k, gbf, x) ==
  IF Empties(gbf, h_kokhav[x]) = {} THEN gbf
  ELSE Filled(gbf, h_kokhav[x], SumOver(acc[k], h_kokhav[x]),
              Random(k, ForRandom(gbf, h_kokhav[x])))
Filters(k) ==      \* the filter after none of the items, after the first ...
  LET filter[i \in 0 .. Len(items[k])] ==
        IF i = 0 THEN Empty ELSE FilledFor(k, filter[i - 1], items[k][i])
  IN  filter
Codewords(k) == Filters(k)[Len(items[k])]

(* Mutant of ReRandomized: the cells that remain stay empty.               *)
ReRandomized_NoRest(k) == Codewords(k)

ReRandomized(k) ==
  LET gbf == Codewords(k)
      rnd == Random(k, Empties(gbf, Cells))
  IN  [c \in Cells |-> IF c \in DOMAIN rnd THEN rnd[c] ELSE gbf[c]]

(* re_randomization and, in comulative_gbf_pi, the end of the Pi.          *)
Send(k) == /\ phase[k] = "codewords"
           /\ GBF' = [GBF EXCEPT ![k] = ReRandomized(k)]
           /\ phase' = [phase EXCEPT ![k] = "done"]
           /\ UNCHANGED <<h_kokhav, items, acc, received, printed>>

(* get_gbf: the filter of a Pi is added to that of P0.                     *)
Receive(k) ==
  /\ phase[0] = "receive" /\ phase[k] = "done" /\ k \notin received
  /\ acc' = [acc EXCEPT ![0] = [c \in Cells |-> SymDiff(@[c], GBF[k][c])]]
  /\ received' = received \cup {k}
  /\ UNCHANGED <<h_kokhav, items, phase, GBF, printed>>

(* get_intersection.                                                       *)
Output == /\ phase[0] = "receive" /\ received = Pis
          /\ printed' = Append(printed, {x \in ItemsOf(0) : SumOver(acc[0], h_kokhav[x]) = Zero})
          /\ phase' = [phase EXCEPT ![0] = "done"]
          /\ UNCHANGED <<h_kokhav, items, acc, GBF, received>>

Terminated == (\A p \in Players : phase[p] = "done") /\ UNCHANGED vars

Next == \/ \E p \in Players : Offline(p) \/ Online(p)
        \/ \E k \in Pis : Send(k) \/ Receive(k)
        \/ Output
        \/ Terminated

Spec == Init /\ [][Next]_vars

-----------------------------------------------------------------------------
(* A cell that is sent is never zero; P0 adds what was sent, and does not  *)
(* end before it has printed items of its own.                             *)
TypeOK ==
  /\ phase \in [Players -> {"offline", "online", "codewords", "receive", "done"}]
  /\ received \subseteq {k \in Pis : phase[k] = "done"}
  /\ \A k \in Pis : phase[k] = "done" => Empties(GBF[k], Cells) = {}
  /\ Len(printed) = IF phase[0] = "done" THEN 1 ELSE 0
  /\ \A i \in DOMAIN printed : printed[i] \subseteq ItemsOf(0)

(* The items that a Pi has no cell for: earlier ones have them all.        *)
LeftOut(k) == {items[k][i] : i \in {i \in DOMAIN items[k] :
  h_kokhav[items[k][i]] \subseteq UNION {h_kokhav[items[k][j]] : j \in 1 .. i - 1}}}

Sure     == {x \in ItemsOf(0) : \A k \in Pis : x \in ItemsOf(k) \ LeftOut(k)}
Possible == {x \in ItemsOf(0) : \A k \in Pis : h_kokhav[x] \subseteq BF(k)}

Abstract == INSTANCE PSI WITH sure <- Sure, possible <- Possible

(* Whatever the items, their order and the collisions of the hash values,  *)
(* the program prints what all parties have and left in, and no item that  *)
(* the Bloom filter of some party excludes.                                *)
ImplementsPSI == Abstract!Spec

(* Nothing that all parties have and left in is missing from the output.   *)
NothingMissing == \A i \in DOMAIN printed : Sure \subseteq printed[i]

(* What P0 has of the blocks in the filters: its own keys, both strings of *)
(* a link on which it is the OT sender, one string where it is the OT      *)
(* receiver.                                                               *)
HeldByP0 == UNION {Share(0, c) \cup {<<"string", <<"A", k>>, c, b>> : k \in Pis, b \in BOOLEAN}
                               \cup {String(0, <<"B", k>>, c) : k \in Pis} : c \in Cells}

(* What the shares and the random blocks are for: as long as the filter of *)
(* one Pi is missing, P0 can test nothing with the filters of the others,  *)
(* the intersection with their sets least of all: no XOR of some of their  *)
(* cells is an XOR of blocks that it has itself.                           *)
OnlyTogether == \A S \in (SUBSET Pis) \ {{}, Pis} : (\A k \in S : phase[k] = "done") =>
  \A D \in (SUBSET (S \X Cells)) \ {{}} :
    ~(Xor([kc \in D |-> GBF[kc[1]][kc[2]]]) \subseteq HeldByP0)

=============================================================================
