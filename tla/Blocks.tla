------------------------------- MODULE Blocks --------------------------------
(***************************************************************************)
(* Blocks of 128 bits and what the program does with filters of them.  A   *)
(* block is a set (of bits, or of the random blocks it is the XOR of); the *)
(* XOR of two blocks is their symmetric difference, the block of zeros is  *)
(* the empty set.                                                          *)
(***************************************************************************)
EXTENDS Integers, FiniteSets, FiniteSetsExt, TLC

Zero == {}

(* The XOR of all the blocks of f.                                         *)
Xor(f) == {a \in UNION {f[i] : i \in DOMAIN f} :
             Cardinality({i \in DOMAIN f : a \in f[i]}) % 2 = 1}

(* The XOR of the cells S of a filter (check_the_item, get_Y).             *)
SumOver(gbf, S) == Xor([c \in S |-> gbf[c]])

(* Re-randomization takes a cell for unused when it holds zero.            *)
Empties(gbf, cells) == {c \in cells : gbf[c] = Zero}

(* The empty cells of an item but the first: they get random blocks.       *)
ForRandom(gbf, cells) == Empties(gbf, cells) \ {Min(Empties(gbf, cells))}

(* Mutant of Filled: cells filled for earlier items are not counted in.    *)
Filled_FreshOnly(gbf, cells, y, rnd) ==
  rnd @@ (Min(Empties(gbf, cells)) :> SymDiff(y, Xor(rnd))) @@ gbf

(* One item in re_randomization: with rnd in those cells, the first empty  *)
(* cell becomes what makes the cells of the item sum to y.                 *)
Filled(gbf, cells, y, rnd) ==
  [c \in DOMAIN gbf |->
     CASE c \in DOMAIN rnd -> rnd[c]
       [] c = Min(Empties(gbf, cells)) -> SymDiff(y, SymDiff(SumOver(gbf, cells), Xor(rnd)))
       [] OTHER -> gbf[c]]

=============================================================================
