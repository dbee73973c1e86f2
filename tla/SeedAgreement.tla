---------------------------- MODULE SeedAgreement ----------------------------
(***************************************************************************)
(* Step 2 of the protocol, over the sockets that Setup opens.  Each player *)
(* sends a key of its own to every other player (the keys make the shares  *)
(* of zero), then a commitment and the seed committed to; the common seed  *)
(* is the XOR of all the seeds.  In each of the two stages a player has a  *)
(* thread that writes and a thread that reads per other player, and its    *)
(* main thread joins them.  The threads that write never wait and write to *)
(* different sockets: they take their steps together here, at any time in  *)
(* the stage.                                                              *)
(*                                                                         *)
(* A random block is an atom; what is XORed together is the set of the     *)
(* atoms that remain.  At most MaxLiars players send a commitment that is  *)
(* not one to their seed.                                                  *)
(***************************************************************************)
EXTENDS Setup, Blocks, Functions, Sequences

CONSTANT MaxLiars

ASSUME LiarsAssumption == MaxLiars \in Nat

VARIABLES stage,       \* player -> what its main thread is at
          busy,        \* player p -> threads of the stage that still run: those that
                       \* read, by their peer, and those that write, together, as p
          inbox,       \* end -> messages that have arrived and are not read
          keys_recv,   \* player -> keys received, in the places of the array
          commits_recv, seeds_recv,
          seed,        \* player -> its seed, in the end the common one
          liars,       \* players whose commitment does not match (an input)
          warned       \* players that printed "commit is not ok"

seedVars == <<stage, busy, inbox, keys_recv, commits_recv, seeds_recv, seed, liars, warned>>
vars     == <<setupVars, seedVars>>

Places == 0 .. parties - 2

(* The random blocks of player p: the keys[i], and what its seed is at     *)
(* first.                                                                  *)
Key(p, i)  == {<<p, i>>}
OwnSeed(p) == {p}
Commit(s)  == [commit |-> s]
CommitmentOf(p) == Commit(IF p \in liars THEN Zero ELSE OwnSeed(p))

(* Mutant of Place: P0's index is used by a Pi, too.                       *)
Place_AsP0(p, q) == IF q = 0 THEN 0 ELSE q - 1

(* The place for player q in the arrays of p, which have none for p.       *)
Place(p, q) == IF q > p THEN q - 1 ELSE q

(* The other end of a socket of p.                                         *)
PeerEnd(e) == IF e \in DOMAIN conn THEN conn[e]
              ELSE CHOOSE c \in DOMAIN conn : conn[c] = e

(* The writers of p: messages[q] go into the socket for q.                 *)
Send(p, messages) ==
  LET inboxOf == [q \in Others(p) |-> PeerEnd(Socket(p, q))]
  IN  inbox' = [e \in Ends |-> IF e \in Range(inboxOf)
                               THEN inbox[e] \o messages[CHOOSE q \in Others(p) : inboxOf[q] = e]
                               ELSE inbox[e]]

Done(p, thread) == busy' = [busy EXCEPT ![p] = @ \ {thread}]

Init == /\ SetupInit
        /\ stage = [p \in Players |-> "construct"]
        /\ busy  = [p \in Players |-> {}]
        /\ inbox = [e \in Ends |-> <<>>]
        /\ keys_recv    = [p \in Players |-> [i \in Places |-> Zero]]
        /\ seeds_recv   = keys_recv
        /\ commits_recv = [p \in Players |-> [i \in Places |-> Commit(Zero)]]
        /\ seed = [p \in Players |-> Zero]
        /\ liars \in {S \in SUBSET Players : Cardinality(S) <= MaxLiars}
        /\ warned = {}

Open(p, q) == OpenSocket(p, q) /\ UNCHANGED seedVars

-----------------------------------------------------------------------------
(* secret_sharing_seed_p0, secret_sharing_seed_pi.                         *)

(* A Pi has drawn its seed (set_seed_commit) before the keys, P0 has not.  *)
StartKeys(p) == /\ stage[p] = "construct" /\ Constructed(p)
                /\ stage' = [stage EXCEPT ![p] = "keys"]
                /\ busy' = [busy EXCEPT ![p] = Players]
                /\ seed' = [seed EXCEPT ![p] = IF p = 0 THEN @ ELSE OwnSeed(p)]
                /\ UNCHANGED <<setupVars, inbox, keys_recv, commits_recv, seeds_recv, liars, warned>>

WriteKeys(p) == /\ stage[p] = "keys" /\ p \in busy[p]
                /\ Send(p, [q \in Others(p) |-> <<[key |-> Key(p, Place(p, q))]>>])
                /\ Done(p, p)
                /\ UNCHANGED <<setupVars, stage, keys_recv, commits_recv, seeds_recv, seed, liars, warned>>

ReadKey(p, q) ==
  /\ stage[p] = "keys" /\ q \in busy[p]
  /\ inbox[Socket(p, q)] # <<>>
  /\ keys_recv' = [keys_recv EXCEPT ![p][Place(p, q)] = Head(inbox[Socket(p, q)]).key]
  /\ inbox' = [inbox EXCEPT ![Socket(p, q)] = Tail(@)]
  /\ Done(p, q)
  /\ UNCHANGED <<setupVars, stage, commits_recv, seeds_recv, seed, liars, warned>>

(* The join, and the start of the next stage.                              *)
StartSeeds(p) == /\ stage[p] = "keys" /\ busy[p] = {}
                 /\ stage' = [stage EXCEPT ![p] = "seeds"]
                 /\ busy' = [busy EXCEPT ![p] = Players]
                 /\ seed' = [seed EXCEPT ![p] = IF p = 0 THEN OwnSeed(p) ELSE @]
                 /\ UNCHANGED <<setupVars, inbox, keys_recv, commits_recv, seeds_recv, liars, warned>>

-----------------------------------------------------------------------------
(* seeds_agreement_p0, seeds_agreement_pi.                                 *)

(* The threads have a pointer to the seed, and a commitment made before.   *)
WriteSeeds(p) ==
  /\ stage[p] = "seeds" /\ p \in busy[p]
  /\ Send(p, [q \in Others(p) |-> <<[commit |-> CommitmentOf(p)], [seed |-> seed[p]]>>])
  /\ Done(p, p)
  /\ UNCHANGED <<setupVars, stage, keys_recv, commits_recv, seeds_recv, seed, liars, warned>>

ReadSeed(p, q) ==
  /\ stage[p] = "seeds" /\ q \in busy[p]
  /\ Len(inbox[Socket(p, q)]) >= 2
  /\ commits_recv' = [commits_recv EXCEPT ![p][Place(p, q)] = inbox[Socket(p, q)][1].commit]
  /\ seeds_recv' = [seeds_recv EXCEPT ![p][Place(p, q)] = inbox[Socket(p, q)][2].seed]
  /\ inbox' = [inbox EXCEPT ![Socket(p, q)] = Tail(Tail(@))]
  /\ Done(p, q)
  /\ UNCHANGED <<setupVars, stage, keys_recv, seed, liars, warned>>

(* Mutant of Agree: main does not join the threads that write.             *)
Agree_WritersLeft(p) ==
  /\ stage[p] = "seeds" /\ busy[p] \subseteq {p}
  /\ stage' = [stage EXCEPT ![p] = IF busy[p] = {} THEN "agreed" ELSE @]
  /\ warned' = IF \A i \in Places : commits_recv[p][i] = Commit(seeds_recv[p][i])
               THEN warned ELSE warned \cup {p}
  /\ seed' = [seed EXCEPT ![p] = SymDiff(OwnSeed(p), Xor(seeds_recv[p]))]
  /\ UNCHANGED <<setupVars, busy, inbox, keys_recv, commits_recv, seeds_recv, liars>>

(* Mutant of Agree: the loop over the commitments ends one too early.      *)
Agree_SkipsLast(p) ==
  /\ stage[p] = "seeds" /\ busy[p] = {}
  /\ stage' = [stage EXCEPT ![p] = "agreed"]
  /\ warned' = IF \A i \in Places \ {parties - 2} : commits_recv[p][i] = Commit(seeds_recv[p][i])
               THEN warned ELSE warned \cup {p}
  /\ seed' = [seed EXCEPT ![p] = SymDiff(@, Xor(seeds_recv[p]))]
  /\ UNCHANGED <<setupVars, busy, inbox, keys_recv, commits_recv, seeds_recv, liars>>

(* The join, the check of the commitments (a failure is only printed) and  *)
(* the XOR.                                                                *)
Agree(p) ==
  /\ stage[p] = "seeds" /\ busy[p] = {}
  /\ stage' = [stage EXCEPT ![p] = "agreed"]
  /\ warned' = IF \A i \in Places : commits_recv[p][i] = Commit(seeds_recv[p][i])
               THEN warned ELSE warned \cup {p}
  /\ seed' = [seed EXCEPT ![p] = SymDiff(@, Xor(seeds_recv[p]))]
  /\ UNCHANGED <<setupVars, busy, inbox, keys_recv, commits_recv, seeds_recv, liars>>

(* secret_sharing_aes: the key stream of every key that was sent or        *)
(* received, per cell; what the keys do to one cell they do to all.        *)
Share(p) == SymDiff(Xor([i \in Places |-> Key(p, i)]),
                    Xor(keys_recv[p]))

-----------------------------------------------------------------------------
Terminated == (\A p \in Players : stage[p] = "agreed") /\ UNCHANGED vars

Write(p)   == WriteKeys(p) \/ WriteSeeds(p)
Read(p, q) == ReadKey(p, q) \/ ReadSeed(p, q)
Main(p)    == StartKeys(p) \/ StartSeeds(p) \/ Agree(p)

Next == \/ \E p \in Players : \/ \E q \in Others(p) : Open(p, q) \/ Read(p, q)
                              \/ Write(p) \/ Main(p)
        \/ Terminated

(* Some thread goes on while one can: a listener is found by the loop      *)
(* around connect(), and what is written arrives.                          *)
Fairness == WF_vars(Next)

Spec == Init /\ [][Next]_vars /\ Fairness

-----------------------------------------------------------------------------
Keys    == {Key(p, i) : p \in Players, i \in Places}
TypeOK ==
  /\ SetupTypeOK
  /\ stage \in [Players -> {"construct", "keys", "seeds", "agreed"}]
  /\ \A p \in Players :
       /\ busy[p] \subseteq Players
       /\ seed[p] \subseteq Players
       /\ \A i \in Places : /\ keys_recv[p][i] \in Keys \cup {Zero}
                            /\ seeds_recv[p][i] \subseteq Players
  /\ \A e \in Ends : Len(inbox[e]) <= 3
  /\ liars \cup warned \subseteq Players

(* Players may be a stage apart, and connected before they are accepted:   *)
(* all of them come to the same seed, every player's own is in it, and a   *)
(* commitment that fails changes nothing in that.                          *)
CommonSeed == \A p \in Players : stage[p] = "agreed" => seed[p] = Players

(* A commitment is compared with the seed of the same player: one that     *)
(* does not match is noticed by everybody else, and nobody is blamed when  *)
(* all are honest.                                                         *)
LiarsNoticed == \A p \in Players :
  stage[p] = "agreed" => (p \in warned <=> liars \ {p} # {})

(* The first contents of the filters: over all parties they cancel, since  *)
(* each key goes into two shares, and over fewer parties they never do.    *)
SharesCancel ==
  (\A p \in Players : stage[p] = "agreed") =>
    \A S \in (SUBSET Players) \ {{}} : (Xor([p \in S |-> Share(p)]) = {}) <=> S = Players

(* Nobody waits for ever, in a constructor or for a message: the players   *)
(* open their sockets in an order in which one of them can always go on.   *)
StepTwoEnds == <>(\A p \in Players : stage[p] = "agreed")

=============================================================================
