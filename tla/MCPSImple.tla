------------------------------ MODULE MCPSImple ------------------------------
(***************************************************************************)
(* PSImple for TLC: items of three values on three cells, and hash tables  *)
(* in which the cells of an item are apart from those of the others, those *)
(* of an earlier one, some of them, or together all of those of the others.*)
(***************************************************************************)
EXTENDS PSImple

MCValues == {1, 2, 3}
MCTables == {<<{0}, {1}, {2}>>, <<{0}, {1}, {0, 1}>>, <<{0, 1}, {1, 2}, {0, 2}>>,
             <<{0, 1}, {0, 1}, {1, 2}>>, <<{0, 1, 2}, {1, 2}, {0}>>}

=============================================================================
