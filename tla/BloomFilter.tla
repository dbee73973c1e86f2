----------------------------- MODULE BloomFilter -----------------------------
(***************************************************************************)
(* Step 6: the Bloom filter of a party is made by BfThreads threads with   *)
(* the same number of items each and one more thread with the rest.  They  *)
(* share the filter, without a lock (a Bitstring has a byte per bit, and   *)
(* all of them write ones), and the array h_kokhav of std::sets, of which  *)
(* no two threads may touch the same.                                      *)
(*                                                                         *)
(* The hash values of an item are a non-empty set of at most seeds_num     *)
(* cells; equal items have equal values.                                   *)
(***************************************************************************)
EXTENDS Integers, FiniteSets

CONSTANTS Nbf, seeds_num, BfThreads, MaxItems

ASSUME BloomAssumption == /\ Nbf \in Nat \ {0} /\ seeds_num \in Nat \ {0}
                          /\ BfThreads \in Nat \ {0} /\ MaxItems \in Nat

Cells     == 0 .. Nbf - 1
BfWorkers == 0 .. BfThreads

VARIABLES len,        \* number of items
          hash,       \* item -> the cells that AES gives for it
          next,       \* thread -> the item it takes next
          BF,         \* cells whose bit is set
          h_kokhav,   \* item -> cells found by its thread
          joined      \* main has joined the threads

bloomVars == <<len, hash, next, BF, h_kokhav, joined>>

Items == 0 .. len - 1

(* Mutant of jump: rounded up.                                             *)
jump_Up == (len + BfThreads - 1) \div BfThreads

(* The items of a thread are from Begin up to, and without, End.           *)
jump     == len \div BfThreads
Begin(t) == t * jump

(* Mutants of End: the rest is forgotten; the ranges share their borders.  *)
End_NoRest(t) == IF t = BfThreads THEN Begin(t) ELSE Begin(t) + jump
End_Inclusive(t) == IF t = BfThreads \/ jump = 0 THEN len ELSE Begin(t) + jump + 1

End(t) == IF t = BfThreads THEN len ELSE Begin(t) + jump

BloomInit == /\ len \in 0 .. MaxItems
             /\ hash \in [Items -> {S \in SUBSET Cells : Cardinality(S) \in 1 .. seeds_num}]
             /\ next = [t \in BfWorkers |-> Begin(t)]
             /\ BF = {}
             /\ h_kokhav = [i \in Items |-> {}]
             /\ joined = FALSE

(* One item in bf_thread.                                                  *)
Hash(t) == /\ next[t] < End(t)
           /\ BF' = BF \cup hash[next[t]]
           /\ h_kokhav' = [h_kokhav EXCEPT ![next[t]] = @ \cup hash[next[t]]]
           /\ next' = [next EXCEPT ![t] = @ + 1]
           /\ UNCHANGED <<len, hash, joined>>

JoinBloom == /\ ~joined /\ \A t \in BfWorkers : next[t] >= End(t)
             /\ joined' = TRUE
             /\ UNCHANGED <<len, hash, next, BF, h_kokhav>>

BloomTypeOK == /\ len \in 0 .. MaxItems
               /\ hash \in [Items -> SUBSET Cells]
               /\ next \in [BfWorkers -> 0 .. len]
               /\ BF \subseteq Cells
               /\ h_kokhav \in [Items -> SUBSET Cells]
               /\ joined \in BOOLEAN

(* No two threads are ever at the same item, whatever is left to do: the   *)
(* std::set of an item is written by one thread.                           *)
ItemsApart == \A t, u \in BfWorkers :
  t # u => (next[t] .. End(t) - 1) \cap (next[u] .. End(u) - 1) = {}

(* With any number of items, also less than there are threads, every item  *)
(* is in the filter when the threads are joined, and nothing else is.      *)
FilterComplete == joined => /\ h_kokhav = hash
                            /\ BF = UNION {hash[i] : i \in Items}

=============================================================================
