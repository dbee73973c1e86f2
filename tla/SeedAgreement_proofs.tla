------------------------- MODULE SeedAgreement_proofs -------------------------
(***************************************************************************)
(* Step 2 of the protocol, proved for every number of parties: the sockets *)
(* that Setup opens meet, what a player finds in a socket is what the      *)
(* other end wrote for it, and so all players come to the same seed and    *)
(* to shares that cancel.                                                  *)
(***************************************************************************)
EXTENDS SeedAgreement, Blocks_proofs

(* What a player has opened, in the order of its constructor; the ports    *)
(* and the connections that there are belong to two players each.          *)
Listeners == {pq \in Players \X Players : pq[1] < pq[2]}

SetupInv ==
  /\ SetupTypeOK /\ at \in [Pis -> 0 .. parties]
  /\ \A e \in DOMAIN bound : \E l \in Listeners :
       e = Opened(l[1], l[2]) /\ bound[e] = 8000 + l[2] * parties + l[1]
  /\ \A e \in DOMAIN conn : \E l \in Listeners :
       e = Opened(l[2], l[1]) /\ conn[e] = Opened(l[1], l[2])
  /\ \A e \in accepted : \E l \in Listeners :
       e = Opened(l[1], l[2]) /\ Opened(l[2], l[1]) \in DOMAIN conn
  /\ \A p \in Pis : \A q \in Others(p) :
       q < at[p] => IF q < p THEN Opened(p, q) \in DOMAIN conn ELSE Opened(p, q) \in accepted

-----------------------------------------------------------------------------
(* Has the thread of p finished its part of the stage of the keys, or of   *)
(* the seeds?                                                              *)
KeysDone(p, thread) == \/ stage[p] \in {"seeds", "agreed"}
                       \/ stage[p] = "keys" /\ thread \notin busy[p]
SeedsDone(p, thread) == \/ stage[p] = "agreed"
                        \/ stage[p] = "seeds" /\ thread \notin busy[p]

KeyFor(p, q)   == [key |-> Key(q, Place(q, p))]
CommitOf(q)    == [commit |-> CommitmentOf(q)]
SeedOf(q)      == [seed |-> OwnSeed(q)]

(* What q has written to p and p has not read.                             *)
MailFrom(p, q) ==
  CASE KeysDone(q, q) /\ ~KeysDone(p, q) /\ ~SeedsDone(q, q) -> <<KeyFor(p, q)>>
    [] KeysDone(q, q) /\ ~KeysDone(p, q) /\ SeedsDone(q, q) -> <<KeyFor(p, q), CommitOf(q), SeedOf(q)>>
    [] KeysDone(p, q) /\ SeedsDone(q, q) /\ ~SeedsDone(p, q) -> <<CommitOf(q), SeedOf(q)>>
    [] OTHER -> <<>>

MailInv == \A p \in Players : \A q \in Others(p) :
  /\ inbox[Socket(p, q)] = MailFrom(p, q)
  /\ KeysDone(p, q) => KeysDone(q, q)
  /\ SeedsDone(p, q) => SeedsDone(q, q)

(* What p has read from q is in the place for q.                           *)
ArraysInv == \A p \in Players : \A q \in Others(p) :
  /\ keys_recv[p][Place(p, q)] = IF KeysDone(p, q) THEN Key(q, Place(q, p)) ELSE Zero
  /\ SeedsDone(p, q) => /\ commits_recv[p][Place(p, q)] = CommitmentOf(q)
                        /\ seeds_recv[p][Place(p, q)] = OwnSeed(q)

SeedIs(p) == CASE stage[p] = "construct" -> Zero
               [] stage[p] = "keys" -> IF p = 0 THEN Zero ELSE OwnSeed(p)
               [] stage[p] = "seeds" -> OwnSeed(p)
               [] OTHER -> Players

PlayerInv == \A p \in Players :
  /\ stage[p] # "construct" => Constructed(p)
  /\ seed[p] = SeedIs(p)
  /\ p \in warned <=> stage[p] = "agreed" /\ liars \ {p} # {}

Shapes ==
  /\ stage \in [Players -> {"construct", "keys", "seeds", "agreed"}]
  /\ busy \in [Players -> SUBSET Players]
  /\ DOMAIN inbox = Ends /\ inbox = [e \in Ends |-> inbox[e]]
  /\ keys_recv \in [Players -> [Places -> Keys \cup {Zero}]]
  /\ seeds_recv \in [Players -> [Places -> SUBSET Players]]
  /\ \A p \in Players : DOMAIN commits_recv[p] = Places
  /\ commits_recv = [p \in Players |-> [i \in Places |-> commits_recv[p][i]]]
  /\ liars \subseteq Players /\ warned \subseteq Players
  /\ seed \in [Players -> SUBSET Players]

IInv == SetupInv /\ Shapes /\ MailInv /\ ArraysInv /\ PlayerInv

-----------------------------------------------------------------------------
(* Ports and sockets.                                                      *)
LEMMA Multiples ==
  ASSUME NEW a \in Nat, NEW c \in Nat, NEW n \in Nat, a < c
  PROVE  a * n + n <= c * n /\ a * n \in Nat /\ c * n \in Nat
<1>1. (a + 1) * n <= c * n
  OBVIOUS
<1>2. (a + 1) * n = a * n + n
  OBVIOUS
<1>. QED  BY <1>1, <1>2

(* A port is of one pair of players.                                       *)
LEMMA PortsDiffer ==
  ASSUME NEW p \in Players, NEW q \in Players, NEW r \in Players, NEW s \in Players,
         8000 + q * parties + p = 8000 + s * parties + r
  PROVE  p = r /\ q = s
<1>1. /\ p \in Nat /\ q \in Nat /\ r \in Nat /\ s \in Nat /\ parties \in Nat
      /\ p < parties /\ r < parties /\ q * parties \in Nat /\ s * parties \in Nat
  BY PartiesAssumption DEF Players
<1>2. q * parties + p = s * parties + r
  BY <1>1
<1>3. ~(q < s)
  <2>. SUFFICES ASSUME q < s PROVE FALSE
    OBVIOUS
  <2>1. q * parties + parties <= s * parties
    BY <1>1, Multiples
  <2>. QED  BY <1>1, <1>2, <2>1
<1>4. ~(s < q)
  <2>. SUFFICES ASSUME s < q PROVE FALSE
    OBVIOUS
  <2>1. s * parties + parties <= q * parties
    BY <1>1, Multiples
  <2>. QED  BY <1>1, <1>2, <2>1
<1>5. q = s
  BY <1>1, <1>3, <1>4
<1>. QED  BY <1>1, <1>2, <1>5

(* A socket is used for the player that it was opened for.                 *)
LEMMA SocketOpened ==
  ASSUME NEW p \in Players, NEW q \in Others(p)
  PROVE  Socket(p, q) = Opened(p, q)
<1>1. p \in Nat /\ q \in Nat /\ p # q
  BY PartiesAssumption DEF Players, Others
<1>. QED  BY <1>1 DEF Socket, Opened, SlotOpened

LEMMA OpenedApart ==
  ASSUME NEW p \in Players, NEW q \in Others(p), NEW r \in Players, NEW s \in Others(r),
         Opened(p, q) = Opened(r, s)
  PROVE  p = r /\ q = s
<1>1. p \in Nat /\ q \in Nat /\ p # q /\ r \in Nat /\ s \in Nat /\ r # s
  BY PartiesAssumption DEF Players, Others
<1>2. p = r /\ SlotOpened(p, q) = SlotOpened(r, s)
  BY DEF Opened
<1>. QED  BY <1>1, <1>2 DEF SlotOpened

(* The two ends of a link.                                                 *)
LEMMA LinkEnds ==
  ASSUME NEW l \in Listeners
  PROVE  /\ l[1] \in Players /\ l[2] \in Pis /\ l[1] < l[2] /\ l[1] \in Nat /\ l[2] \in Nat
         /\ l[1] \in Others(l[2]) /\ l[2] \in Others(l[1])
         /\ Opened(l[1], l[2]) \in Ends /\ Opened(l[2], l[1]) \in Ends
<1>1. /\ l[1] \in Players /\ l[2] \in Pis /\ l[1] < l[2] /\ l[1] \in Nat /\ l[2] \in Nat
      /\ l[1] \in Others(l[2]) /\ l[2] \in Others(l[1])
  BY PartiesAssumption DEF Listeners, Players, Pis, Others
<1>. QED  BY <1>1 DEF Ends, Pis

-----------------------------------------------------------------------------
(* The steps of Setup.                                                     *)
LEMMA InitSetup ==
  ASSUME SetupInit
  PROVE  SetupInv
<1>1. /\ at = [p \in Pis |-> 0] /\ DOMAIN bound = {} /\ DOMAIN conn = {} /\ accepted = {}
  BY DEF SetupInit
<1>2. /\ parties \in Nat /\ parties >= 2
      /\ \A p \in Pis : p \in Nat \ {0} /\ \A q \in Others(p) : q \in Nat
  BY PartiesAssumption DEF Pis, Players, Others
<1>. QED  BY <1>1, <1>2 DEF SetupInv, SetupTypeOK

LEMMA OpensKeeps ==
  ASSUME SetupInv, NEW p \in Players, NEW q \in Others(p), TurnOf(p, q), Opens(p)
  PROVE  /\ at' \in [Pis -> 0 .. parties]
         /\ \A r \in Pis : at'[r] \in 0 .. parties \ {r}
         /\ \A r \in Pis : \A s \in Others(r) : s < at'[r] => s < at[r] \/ (r = p /\ s = q)
<1>1. /\ parties \in Nat /\ p \in 0 .. parties - 1 /\ q \in 0 .. parties - 1 /\ p # q
      /\ \A r \in Pis : r \in Nat /\ \A s \in Others(r) : s \in Nat /\ s # r
  BY PartiesAssumption DEF Players, Pis, Others
<1>2. at \in [Pis -> 0 .. parties] /\ \A r \in Pis : at[r] \in 0 .. parties \ {r}
  BY DEF SetupInv, SetupTypeOK
<1>3. CASE p = 0
  BY <1>2, <1>3 DEF Opens
<1>4. CASE p # 0
  <2>1. p \in Pis /\ at[p] = q /\ at' = [at EXCEPT ![p] = Following(p)]
    BY <1>4 DEF Opens, TurnOf, Pis
  <2>2. Following(p) = IF q + 1 = p THEN p + 1 ELSE q + 1
    BY <2>1 DEF Following
  <2>3. Following(p) \in 0 .. parties \ {p}
    BY <1>1, <2>2
  <2>4. at' \in [Pis -> 0 .. parties] /\ at'[p] = Following(p)
        /\ \A r \in Pis \ {p} : at'[r] = at[r]
    BY <1>2, <2>1, <2>3
  <2>5. \A s \in Others(p) : s < Following(p) => s < q \/ s = q
    BY <1>1, <2>1, <2>2
  <2>. QED  BY <1>2, <2>1, <2>3, <2>4, <2>5
<1>. QED  BY <1>3, <1>4

LEMMA ListenKeeps ==
  ASSUME SetupInv, NEW p \in Players, NEW q \in Others(p), Listen(p, q)
  PROVE  SetupInv'
<1>. DEFINE port == 8000 + q * parties + p
            o == Opened(p, q)
<1>1. /\ p < q /\ o \notin DOMAIN bound
      /\ bound' = With(bound, o, IF \E e \in DOMAIN bound : bound[e] = port THEN 0 ELSE port)
      /\ UNCHANGED <<at, conn, accepted>>
  BY DEF Listen, PortsOf
<1>2. <<p, q>> \in Listeners /\ o \in Ends /\ q \in Players
  BY <1>1, LinkEnds DEF Listeners, Others
<1>3. ~\E e \in DOMAIN bound : bound[e] = port
  <2>. SUFFICES ASSUME NEW e \in DOMAIN bound, bound[e] = port PROVE FALSE
    OBVIOUS
  <2>1. PICK l \in Listeners : e = Opened(l[1], l[2]) /\ bound[e] = 8000 + l[2] * parties + l[1]
    BY DEF SetupInv
  <2>2. l[1] \in Players /\ l[2] \in Players
    BY LinkEnds DEF Pis
  <2>3. l[1] = p /\ l[2] = q
    BY <1>2, <2>1, <2>2, PortsDiffer
  <2>. QED  BY <1>1, <2>1, <2>3
<1>4. port \in Nat
  BY <1>2, PartiesAssumption DEF Players
<1>5. /\ DOMAIN bound' = DOMAIN bound \cup {o} /\ bound'[o] = port
      /\ \A e \in DOMAIN bound : bound'[e] = bound[e]
  BY <1>1, <1>3 DEF With
<1>. HIDE DEF port, o
<1>6. SetupTypeOK'
  BY <1>1, <1>2, <1>4, <1>5 DEF SetupInv, SetupTypeOK
<1>7. \A e \in DOMAIN bound' : \E l \in Listeners :
        e = Opened(l[1], l[2]) /\ bound'[e] = 8000 + l[2] * parties + l[1]
  <2>1. o = Opened(<<p, q>>[1], <<p, q>>[2])
        /\ bound'[o] = 8000 + <<p, q>>[2] * parties + <<p, q>>[1]
    BY <1>5 DEF port, o
  <2>. QED  BY <1>2, <1>5, <2>1 DEF SetupInv
<1>. QED  BY <1>1, <1>6, <1>7 DEF SetupInv

LEMMA ConnectKeeps ==
  ASSUME SetupInv, NEW p \in Players, NEW q \in Others(p), Connect(p, q)
  PROVE  SetupInv'
<1>1. q < p /\ TurnOf(p, q) /\ Opens(p) /\ UNCHANGED <<bound, accepted>>
  BY DEF Connect
<1>2. <<q, p>> \in Listeners /\ q \in Players /\ Opened(p, q) \in Ends
  BY <1>1 DEF Listeners, Others, Ends
<1>3. PICK e \in DOMAIN bound : /\ bound[e] = 8000 + p * parties + q
                                /\ conn' = With(conn, Opened(p, q), e)
  BY DEF Connect, PortsOf
<1>4. e = Opened(q, p)
  <2>1. PICK l \in Listeners : e = Opened(l[1], l[2]) /\ bound[e] = 8000 + l[2] * parties + l[1]
    BY DEF SetupInv
  <2>2. l[1] \in Players /\ l[2] \in Players
    BY LinkEnds DEF Pis
  <2>3. l[1] = q /\ l[2] = p
    BY <1>2, <1>3, <2>1, <2>2, PortsDiffer
  <2>. QED  BY <2>1, <2>3
<1>5. PICK o : o = Opened(p, q)
  OBVIOUS
<1>6. /\ DOMAIN conn' = DOMAIN conn \cup {o}
      /\ \A d \in DOMAIN conn : conn'[d] = conn[d]
      /\ o \notin DOMAIN conn => conn'[o] = e
  BY <1>3, <1>5 DEF With
<1>7. /\ at' \in [Pis -> 0 .. parties]
      /\ \A r \in Pis : at'[r] \in 0 .. parties \ {r}
      /\ \A r \in Pis : \A s \in Others(r) : s < at'[r] => s < at[r] \/ (r = p /\ s = q)
  BY <1>1, OpensKeeps
<1>8. SetupTypeOK'
  BY <1>1, <1>2, <1>3, <1>5, <1>6, <1>7 DEF SetupInv, SetupTypeOK
<1>9. \A d \in DOMAIN conn' : \E l \in Listeners :
        d = Opened(l[2], l[1]) /\ conn'[d] = Opened(l[1], l[2])
  <2>1. o = Opened(<<q, p>>[2], <<q, p>>[1]) /\ e = Opened(<<q, p>>[1], <<q, p>>[2])
    BY <1>4, <1>5
  <2>2. o \notin DOMAIN conn =>
          \E l \in Listeners : o = Opened(l[2], l[1]) /\ conn'[o] = Opened(l[1], l[2])
    BY <1>2, <1>6, <2>1
  <2>3. \A d \in DOMAIN conn : \E l \in Listeners :
          d = Opened(l[2], l[1]) /\ conn'[d] = Opened(l[1], l[2])
    BY <1>6 DEF SetupInv
  <2>. QED  BY <1>6, <2>2, <2>3
<1>10. \A r \in Pis : \A s \in Others(r) :
         s < at'[r] => IF s < r THEN Opened(r, s) \in DOMAIN conn' ELSE Opened(r, s) \in accepted
  BY <1>1, <1>5, <1>6, <1>7 DEF SetupInv
<1>11. \A d \in accepted : \E l \in Listeners :
         d = Opened(l[1], l[2]) /\ Opened(l[2], l[1]) \in DOMAIN conn'
  BY <1>6 DEF SetupInv
<1>. QED  BY <1>1, <1>7, <1>8, <1>9, <1>10, <1>11 DEF SetupInv

(* The client that is accepted is the one that the socket is for.          *)
LEMMA Client ==
  ASSUME SetupInv, NEW p \in Players, NEW q \in Others(p), p < q,
         NEW e \in DOMAIN conn, conn[e] = Opened(p, q)
  PROVE  e = Opened(q, p)
<1>1. PICK l \in Listeners : e = Opened(l[2], l[1]) /\ conn[e] = Opened(l[1], l[2])
  BY DEF SetupInv
<1>2. l[1] = p /\ l[2] = q
  BY <1>1, LinkEnds, OpenedApart
<1>. QED  BY <1>1, <1>2

LEMMA AcceptKeeps ==
  ASSUME SetupInv, NEW p \in Players, NEW q \in Others(p), Accept(p, q)
  PROVE  SetupInv'
<1>1. /\ p < q /\ TurnOf(p, q) /\ Opens(p)
      /\ accepted' = accepted \cup {Opened(p, q)}
      /\ UNCHANGED <<bound, conn>>
  BY DEF Accept
<1>2. <<p, q>> \in Listeners /\ p \in Nat /\ q \in Nat
  BY <1>1, PartiesAssumption DEF Listeners, Others, Players
<1>3. PICK e \in DOMAIN conn : conn[e] = Opened(p, q)
  BY DEF Accept
<1>4. e = Opened(q, p)
  BY <1>1, <1>3, Client
<1>5. /\ at' \in [Pis -> 0 .. parties]
      /\ \A r \in Pis : at'[r] \in 0 .. parties \ {r}
      /\ \A r \in Pis : \A s \in Others(r) : s < at'[r] => s < at[r] \/ (r = p /\ s = q)
  BY <1>1, OpensKeeps
<1>6. SetupTypeOK'
  BY <1>1, <1>3, <1>5 DEF SetupInv, SetupTypeOK
<1>7. \A d \in accepted' : \E l \in Listeners :
        d = Opened(l[1], l[2]) /\ Opened(l[2], l[1]) \in DOMAIN conn
  <2>1. <<p, q>>[1] = p /\ <<p, q>>[2] = q
    OBVIOUS
  <2>2. Opened(q, p) \in DOMAIN conn
    BY <1>3, <1>4
  <2>3. \E l \in Listeners : Opened(p, q) = Opened(l[1], l[2]) /\ Opened(l[2], l[1]) \in DOMAIN conn
    BY <1>2, <2>1, <2>2
  <2>. QED  BY <1>1, <2>3 DEF SetupInv
<1>8. \A r \in Pis : \A s \in Others(r) :
        s < at'[r] => IF s < r THEN Opened(r, s) \in DOMAIN conn ELSE Opened(r, s) \in accepted'
  <2>1. \A r \in Pis : \A s \in Others(r) :
          s < at[r] => IF s < r THEN Opened(r, s) \in DOMAIN conn ELSE Opened(r, s) \in accepted
    BY DEF SetupInv
  <2>2. ~(q < p)
    BY <1>1, <1>2
  <2>. QED  BY <1>1, <1>5, <2>1, <2>2
<1>. QED  BY <1>1, <1>5, <1>6, <1>7, <1>8 DEF SetupInv

LEMMA SetupStep ==
  ASSUME SetupInv, NEW p \in Players, NEW q \in Others(p), OpenSocket(p, q)
  PROVE  SetupInv'
  BY ListenKeeps, ConnectKeeps, AcceptKeeps DEF OpenSocket

LEMMA SetupKept ==
  ASSUME SetupInv, UNCHANGED setupVars
  PROVE  SetupInv'
  BY DEF SetupInv, SetupTypeOK, setupVars

LEMMA ConstructedKept ==
  ASSUME SetupInv, NEW p \in Players, NEW q \in Others(p), OpenSocket(p, q),
         NEW r \in Players, Constructed(r)
  PROVE  Constructed(r)'
<1>1. CASE r = 0
  <2>1. accepted \subseteq accepted'
    BY DEF OpenSocket, Listen, Connect, Accept
  <2>. QED  BY <1>1, <2>1 DEF Constructed
<1>2. CASE r # 0
  <2>1. r \in Pis /\ at[r] = parties /\ q # parties /\ at \in [Pis -> 0 .. parties]
    BY <1>2, PartiesAssumption DEF Constructed, Pis, Others, Players, SetupInv
  <2>2. at' = at \/ (p # 0 /\ at[p] = q /\ at' = [at EXCEPT ![p] = Following(p)])
    BY DEF OpenSocket, Listen, Connect, Accept, Opens, TurnOf
  <2>3. at'[r] = at[r]
    BY <2>1, <2>2
  <2>. QED  BY <1>2, <2>1, <2>3 DEF Constructed
<1>. QED  BY <1>1, <1>2

LEMMA Meet == SetupInv => SocketsMeet
<1>. SUFFICES ASSUME SetupInv, NEW q \in Pis, NEW p \in 0 .. q - 1,
                     Socket(q, p) \in DOMAIN conn
              PROVE  conn[Socket(q, p)] = Socket(p, q)
  BY DEF SocketsMeet
<1>1. q \in Players /\ p \in Players /\ p \in Others(q) /\ q \in Others(p)
  BY PartiesAssumption DEF Pis, Players, Others
<1>2. Socket(q, p) = Opened(q, p) /\ Socket(p, q) = Opened(p, q)
  BY <1>1, SocketOpened
<1>3. PICK l \in Listeners : /\ Opened(q, p) = Opened(l[2], l[1])
                             /\ conn[Opened(q, p)] = Opened(l[1], l[2])
  BY <1>2 DEF SetupInv
<1>4. l[2] = q /\ l[1] = p
  BY <1>1, <1>3, LinkEnds, OpenedApart DEF Pis
<1>. QED  BY <1>2, <1>3, <1>4

(* A player that has its sockets is connected to all the others.           *)
LEMMA Connected ==
  ASSUME SetupInv, NEW p \in Players, Constructed(p), NEW q \in Others(p)
  PROVE  PeerEnd(Opened(p, q)) = Opened(q, p)
<1>1. /\ parties \in Nat /\ p \in Nat /\ q \in Nat /\ p # q /\ p < parties /\ q < parties
      /\ q \in Players /\ p \in Others(q)
  BY PartiesAssumption DEF Players, Others
<1>2. CASE q < p
  <2>1. p \in Pis /\ at[p] = parties
    BY <1>1, <1>2 DEF Pis, Constructed
  <2>2. Opened(p, q) \in DOMAIN conn
    BY <1>1, <1>2, <2>1 DEF SetupInv
  <2>3. PICK l \in Listeners : /\ Opened(p, q) = Opened(l[2], l[1])
                               /\ conn[Opened(p, q)] = Opened(l[1], l[2])
    BY <2>2 DEF SetupInv
  <2>4. l[2] = p /\ l[1] = q
    BY <2>3, LinkEnds, OpenedApart DEF Pis
  <2>. QED  BY <2>2, <2>3, <2>4 DEF PeerEnd
<1>3. CASE p < q
  <2>1. Opened(p, q) \in accepted
    <3>1. CASE p = 0
      BY <1>1, <1>3, <3>1 DEF Constructed, Pis
    <3>2. CASE p # 0
      <4>1. p \in Pis /\ at[p] = parties /\ ~(q < p)
        BY <1>1, <1>3, <3>2 DEF Pis, Constructed
      <4>. QED  BY <1>1, <4>1 DEF SetupInv
    <3>. QED  BY <3>1, <3>2
  <2>2. PICK l \in Listeners : /\ Opened(p, q) = Opened(l[1], l[2])
                               /\ Opened(l[2], l[1]) \in DOMAIN conn
    BY <2>1 DEF SetupInv
  <2>3. l[1] = p /\ l[2] = q
    BY <2>2, LinkEnds, OpenedApart DEF Pis
  <2>4. PICK m \in Listeners : /\ Opened(q, p) = Opened(m[2], m[1])
                               /\ conn[Opened(q, p)] = Opened(m[1], m[2])
    BY <2>2, <2>3 DEF SetupInv
  <2>5. m[1] = p /\ m[2] = q
    BY <1>1, <2>4, LinkEnds, OpenedApart DEF Pis
  <2>6. Opened(p, q) \notin DOMAIN conn
    <3>. SUFFICES ASSUME Opened(p, q) \in DOMAIN conn PROVE FALSE
      OBVIOUS
    <3>1. PICK k \in Listeners : Opened(p, q) = Opened(k[2], k[1])
      BY DEF SetupInv
    <3>2. k[2] = p /\ k[1] = q
      BY <3>1, LinkEnds, OpenedApart DEF Pis
    <3>. QED  BY <1>1, <1>3, <3>2, LinkEnds
  <2>7. \A c \in DOMAIN conn : conn[c] = Opened(p, q) <=> c = Opened(q, p)
    BY <1>3, <2>4, <2>5, Client
  <2>8. Opened(q, p) \in DOMAIN conn
    BY <2>2, <2>3
  <2>. QED  BY <2>6, <2>7, <2>8 DEF PeerEnd
<1>. QED  BY <1>1, <1>2, <1>3

(* What the writers of a player do: the messages for q come to the end of  *)
(* q, and nothing to any other end.                                        *)
LEMMA SendEffect ==
  ASSUME SetupInv, NEW p \in Players, Constructed(p), NEW messages, Send(p, messages)
  PROVE  /\ inbox' = [e \in Ends |-> inbox'[e]]
         /\ \A q \in Others(p) : inbox'[Opened(q, p)] = inbox[Opened(q, p)] \o messages[q]
         /\ \A a \in Players : \A b \in Others(a) :
              b # p => inbox'[Opened(a, b)] = inbox[Opened(a, b)]
<1>. DEFINE inboxOf == [q \in Others(p) |-> PeerEnd(Socket(p, q))]
<1>1. \A q \in Others(p) : inboxOf[q] = Opened(q, p)
  BY Connected, SocketOpened
<1>2. inbox' = [e \in Ends |-> IF e \in Range(inboxOf)
                               THEN inbox[e] \o messages[CHOOSE q \in Others(p) : inboxOf[q] = e]
                               ELSE inbox[e]]
  BY DEF Send
<1>3. Range(inboxOf) = {Opened(q, p) : q \in Others(p)}
  <2>1. Range(inboxOf) = {inboxOf[q] : q \in Others(p)}
    BY DEF Range
  <2>. QED  BY <1>1, <2>1
<1>. HIDE DEF inboxOf
<1>4. \A a \in Players : \A b \in Others(a) : Opened(a, b) \in Ends
  BY DEF Ends
<1>5. \A q \in Others(p) : q \in Players /\ p \in Others(q)
  BY DEF Others
<1>6. ASSUME NEW q \in Others(p)
      PROVE  inbox'[Opened(q, p)] = inbox[Opened(q, p)] \o messages[q]
  <2>1. \A r \in Others(p) : inboxOf[r] = Opened(q, p) <=> r = q
    BY <1>1, <1>5, OpenedApart
  <2>2. (CHOOSE r \in Others(p) : inboxOf[r] = Opened(q, p)) = q
    BY <2>1
  <2>. QED  BY <1>2, <1>3, <1>4, <1>5, <2>2
<1>7. ASSUME NEW a \in Players, NEW b \in Others(a), b # p
      PROVE  inbox'[Opened(a, b)] = inbox[Opened(a, b)]
  <2>1. Opened(a, b) \notin Range(inboxOf)
    BY <1>3, <1>5, <1>7, OpenedApart
  <2>. QED  BY <1>2, <1>4, <2>1
<1>8. inbox' = [e \in Ends |-> inbox'[e]]
  BY <1>2
<1>. QED  BY <1>6, <1>7, <1>8

-----------------------------------------------------------------------------
(* The places of the arrays, and what a step leaves in them.               *)
LEMMA PlaceFacts ==
  ASSUME NEW p \in Players
  PROVE  /\ \A q \in Others(p) : Place(p, q) \in Places /\ q \in Players /\ p \in Others(q)
         /\ \A q, r \in Others(p) : Place(p, q) = Place(p, r) => q = r
         /\ \A i \in Places : \E q \in Others(p) : Place(p, q) = i
<1>1. parties \in Nat /\ p \in 0 .. parties - 1
  BY PartiesAssumption DEF Players
<1>2. \A q \in Others(p) : q \in 0 .. parties - 1 /\ q # p
  BY DEF Others, Players
<1>3. \A q \in Others(p) : Place(p, q) \in Places /\ q \in Players /\ p \in Others(q)
  BY <1>1, <1>2 DEF Place, Places, Others, Players
<1>4. \A q, r \in Others(p) : Place(p, q) = Place(p, r) => q = r
  BY <1>1, <1>2 DEF Place
<1>5. ASSUME NEW i \in Places
      PROVE  \E q \in Others(p) : Place(p, q) = i
  <2>1. i \in Nat /\ i <= parties - 2
    BY <1>1 DEF Places
  <2>2. CASE i < p
    <3>1. i \in Others(p) /\ Place(p, i) = i
      BY <1>1, <2>1, <2>2 DEF Others, Players, Place
    <3>. QED  BY <3>1
  <2>3. CASE i >= p
    <3>1. i + 1 \in Others(p) /\ Place(p, i + 1) = i
      BY <1>1, <2>1, <2>3 DEF Others, Players, Place
    <3>. QED  BY <3>1
  <2>. QED  BY <1>1, <2>1, <2>2, <2>3
<1>. QED  BY <1>3, <1>4, <1>5

(* A step that is no thread's last, and writes and reads nothing.          *)
LEMMA DoneSame ==
  ASSUME MailInv, ArraysInv,
         UNCHANGED <<inbox, keys_recv, commits_recv, seeds_recv, liars>>,
         \A r \in Players : \A t \in Players : /\ KeysDone(r, t)' <=> KeysDone(r, t)
                                               /\ SeedsDone(r, t)' <=> SeedsDone(r, t)
  PROVE  MailInv' /\ ArraysInv'
<1>1. \A r \in Players : \A t \in Others(r) : t \in Players
  BY DEF Others
<1>2. \A q : CommitmentOf(q)' = CommitmentOf(q)
  BY DEF CommitmentOf
<1>3. MailInv'
  <2>. SUFFICES ASSUME NEW r \in Players, NEW t \in Others(r)
                PROVE  /\ inbox'[Socket(r, t)] = MailFrom(r, t)'
                       /\ KeysDone(r, t)' => KeysDone(t, t)'
                       /\ SeedsDone(r, t)' => SeedsDone(t, t)'
    BY DEF MailInv
  <2>1. MailFrom(r, t)' = MailFrom(r, t)
    BY <1>1, <1>2 DEF MailFrom, KeyFor, CommitOf, SeedOf
  <2>. QED  BY <1>1, <2>1 DEF MailInv
<1>4. ArraysInv'
  BY <1>1, <1>2 DEF ArraysInv
<1>. QED  BY <1>3, <1>4

(* The flags of the threads of a player that is not the one of the step.   *)
LEMMA DoneOfOthers ==
  ASSUME NEW r, stage'[r] = stage[r], busy'[r] = busy[r]
  PROVE  \A t : /\ KeysDone(r, t)' <=> KeysDone(r, t)
                /\ SeedsDone(r, t)' <=> SeedsDone(r, t)
  BY DEF KeysDone, SeedsDone

-----------------------------------------------------------------------------
(* The steps.                                                              *)
LEMMA InitInv == Init => IInv
<1>. SUFFICES ASSUME Init PROVE IInv
  OBVIOUS
<1>1. SetupInv
  BY InitSetup DEF Init
<1>2. \A p \in Players : stage[p] = "construct" /\ seed[p] = Zero
                         /\ keys_recv[p] = [i \in Places |-> Zero]
  BY DEF Init
<1>3. \A p, t \in Players : ~KeysDone(p, t) /\ ~SeedsDone(p, t)
  BY <1>2 DEF KeysDone, SeedsDone
<1>4. \A p \in Players : \A q \in Others(p) : q \in Players /\ Socket(p, q) \in Ends
  BY SocketOpened DEF Others, Ends
<1>5. Shapes
  BY DEF Init, Shapes, Zero
<1>6. MailInv
  BY <1>3, <1>4 DEF Init, MailInv, MailFrom
<1>7. ArraysInv
  BY <1>2, <1>3, <1>4, PlaceFacts DEF ArraysInv
<1>8. PlayerInv
  BY <1>2 DEF Init, PlayerInv, SeedIs
<1>. QED  BY <1>1, <1>5, <1>6, <1>7, <1>8 DEF IInv

LEMMA OpenStep ==
  ASSUME IInv, NEW p \in Players, NEW q \in Others(p), Open(p, q)
  PROVE  IInv'
<1>1. UNCHANGED seedVars /\ SetupInv'
  BY SetupStep DEF Open, IInv
<1>2. Shapes'
  BY <1>1 DEF IInv, Shapes, seedVars
<1>3. MailInv' /\ ArraysInv'
  BY <1>1, DoneSame DEF IInv, seedVars, KeysDone, SeedsDone
<1>4. PlayerInv'
  BY <1>1, ConstructedKept DEF IInv, PlayerInv, SeedIs, seedVars, Open
<1>. QED  BY <1>1, <1>2, <1>3, <1>4 DEF IInv

LEMMA ConstructedSame ==
  ASSUME UNCHANGED setupVars, NEW r
  PROVE  Constructed(r)' <=> Constructed(r)
  BY DEF setupVars, Constructed

LEMMA StartStep ==
  ASSUME IInv, NEW p \in Players, StartKeys(p) \/ StartSeeds(p)
  PROVE  IInv'
<1>1. /\ UNCHANGED <<setupVars, inbox, keys_recv, commits_recv, seeds_recv, liars, warned>>
      /\ busy' = [busy EXCEPT ![p] = Players]
  BY DEF StartKeys, StartSeeds
<1>2. \/ /\ stage[p] = "construct" /\ stage' = [stage EXCEPT ![p] = "keys"] /\ Constructed(p)
         /\ seed' = [seed EXCEPT ![p] = IF p = 0 THEN @ ELSE OwnSeed(p)]
      \/ /\ stage[p] = "keys" /\ stage' = [stage EXCEPT ![p] = "seeds"] /\ busy[p] = {}
         /\ seed' = [seed EXCEPT ![p] = IF p = 0 THEN OwnSeed(p) ELSE @]
  BY DEF StartKeys, StartSeeds
<1>3. Shapes
  BY DEF IInv
<1>4. /\ busy' \in [Players -> SUBSET Players] /\ busy'[p] = Players
      /\ stage' \in [Players -> {"construct", "keys", "seeds", "agreed"}]
      /\ seed' \in [Players -> SUBSET Players]
      /\ \A r \in Players \ {p} : busy'[r] = busy[r] /\ stage'[r] = stage[r] /\ seed'[r] = seed[r]
  <2>1. /\ busy' \in [Players -> SUBSET Players] /\ busy'[p] = Players
        /\ \A r \in Players \ {p} : busy'[r] = busy[r]
    BY <1>1, <1>3 DEF Shapes
  <2>2. /\ stage' \in [Players -> {"construct", "keys", "seeds", "agreed"}]
        /\ \A r \in Players \ {p} : stage'[r] = stage[r]
    BY <1>2, <1>3 DEF Shapes
  <2>3. \E s \in SUBSET Players : seed' = [seed EXCEPT ![p] = s]
    <3>1. seed[p] \in SUBSET Players /\ OwnSeed(p) \in SUBSET Players
      BY <1>3 DEF Shapes, OwnSeed
    <3>. QED  BY <1>2, <3>1
  <2>4. seed' \in [Players -> SUBSET Players] /\ \A r \in Players \ {p} : seed'[r] = seed[r]
    BY <1>3, <2>3 DEF Shapes
  <2>. QED  BY <2>1, <2>2, <2>4
<1>5. SetupInv'
  BY <1>1, SetupKept DEF IInv
<1>6. Shapes'
  BY <1>1, <1>3, <1>4 DEF Shapes
<1>7. \A r \in Players : \A t \in Players : /\ KeysDone(r, t)' <=> KeysDone(r, t)
                                            /\ SeedsDone(r, t)' <=> SeedsDone(r, t)
  <2>1. \A t \in Players : /\ KeysDone(p, t)' <=> KeysDone(p, t)
                           /\ SeedsDone(p, t)' <=> SeedsDone(p, t)
    BY <1>2, <1>3, <1>4 DEF KeysDone, SeedsDone, Shapes
  <2>. QED  BY <1>4, <2>1, DoneOfOthers
<1>8. MailInv' /\ ArraysInv'
  BY <1>1, <1>7, DoneSame DEF IInv
<1>9. PlayerInv'
  <2>1. /\ Constructed(p) /\ stage'[p] \in {"keys", "seeds"} /\ stage[p] # "agreed"
        /\ seed'[p] = SeedIs(p)'
    BY <1>2, <1>3 DEF IInv, PlayerInv, SeedIs, Shapes
  <2>2. p \in warned <=> stage'[p] = "agreed" /\ liars \ {p} # {}
    BY <2>1 DEF IInv, PlayerInv
  <2>3. \A r \in Players \ {p} : /\ stage'[r] # "construct" => Constructed(r)
                                 /\ seed'[r] = SeedIs(r)'
                                 /\ r \in warned <=> stage'[r] = "agreed" /\ liars \ {r} # {}
    BY <1>4 DEF IInv, PlayerInv, SeedIs
  <2>. QED  BY <1>1, <2>1, <2>2, <2>3, ConstructedSame DEF PlayerInv
<1>. QED  BY <1>5, <1>6, <1>8, <1>9 DEF IInv

(* A thread ends.                                                          *)
LEMMA ThreadEnds ==
  ASSUME Shapes, NEW p \in Players, NEW t \in Players, t \in busy[p],
         stage[p] \in {"keys", "seeds"}, Done(p, t), UNCHANGED stage
  PROVE  /\ busy' \in [Players -> SUBSET Players]
         /\ \A r \in Players, u \in Players : r # p \/ u # t =>
              /\ KeysDone(r, u)' <=> KeysDone(r, u)
              /\ SeedsDone(r, u)' <=> SeedsDone(r, u)
         /\ KeysDone(p, t)' /\ (KeysDone(p, t) <=> stage[p] = "seeds")
         /\ ~SeedsDone(p, t) /\ (SeedsDone(p, t)' <=> stage[p] = "seeds")
<1>1. busy \in [Players -> SUBSET Players] /\ busy' = [busy EXCEPT ![p] = @ \ {t}]
  BY DEF Shapes, Done
<1>2. /\ busy' \in [Players -> SUBSET Players] /\ busy'[p] = busy[p] \ {t}
      /\ \A r \in Players \ {p} : busy'[r] = busy[r]
  BY <1>1
<1>. QED  BY <1>2 DEF KeysDone, SeedsDone

LEMMA PlayerSame ==
  ASSUME PlayerInv, UNCHANGED <<setupVars, stage, seed, liars, warned>>
  PROVE  PlayerInv'
  BY ConstructedSame DEF PlayerInv, SeedIs

LEMMA WriteStep ==
  ASSUME IInv, NEW p \in Players, Write(p)
  PROVE  IInv'
<1>1. /\ p \in busy[p] /\ stage[p] \in {"keys", "seeds"} /\ Done(p, p)
      /\ UNCHANGED <<setupVars, stage, keys_recv, commits_recv, seeds_recv, seed, liars, warned>>
  BY DEF Write, WriteKeys, WriteSeeds
<1>2. Shapes /\ SetupInv /\ Constructed(p)
  BY <1>1 DEF IInv, PlayerInv
<1>3. /\ busy' \in [Players -> SUBSET Players]
      /\ \A r \in Players, u \in Players : r # p \/ u # p =>
           /\ KeysDone(r, u)' <=> KeysDone(r, u)
           /\ SeedsDone(r, u)' <=> SeedsDone(r, u)
      /\ KeysDone(p, p)' /\ (KeysDone(p, p) <=> stage[p] = "seeds")
      /\ ~SeedsDone(p, p) /\ (SeedsDone(p, p)' <=> stage[p] = "seeds")
  BY <1>1, <1>2, ThreadEnds
<1>4. PICK messages :
        /\ Send(p, messages)
        /\ \A q \in Others(p) : messages[q] = IF stage[p] = "keys" THEN <<KeyFor(q, p)>>
                                              ELSE <<CommitOf(p), SeedOf(p)>>
  <2>1. CASE WriteKeys(p)
    BY <2>1 DEF WriteKeys, KeyFor
  <2>2. CASE WriteSeeds(p)
    <3>1. stage[p] = "seeds" /\ seed[p] = OwnSeed(p)
      BY <2>2 DEF WriteSeeds, IInv, PlayerInv, SeedIs
    <3>. QED  BY <2>2, <3>1 DEF WriteSeeds, CommitOf, SeedOf
  <2>. QED  BY <2>1, <2>2 DEF Write
<1>5. /\ inbox' = [e \in Ends |-> inbox'[e]]
      /\ \A q \in Others(p) : inbox'[Opened(q, p)] = inbox[Opened(q, p)] \o messages[q]
      /\ \A a \in Players : \A b \in Others(a) :
           b # p => inbox'[Opened(a, b)] = inbox[Opened(a, b)]
  BY <1>2, <1>4, SendEffect
<1>6. SetupInv' /\ PlayerInv'
  BY <1>1, <1>2, SetupKept, PlayerSame DEF IInv
<1>7. Shapes'
  <2>1. DOMAIN inbox' = Ends
    BY <1>5
  <2>. QED  BY <1>1, <1>2, <1>3, <1>5, <2>1 DEF Shapes
<1>8. \A a \in Players : \A b \in Others(a) : b \in Players /\ a # b /\ Socket(a, b) = Opened(a, b)
  BY SocketOpened DEF Others
<1>9. \A q : /\ CommitmentOf(q)' = CommitmentOf(q) /\ CommitOf(q)' = CommitOf(q)
             /\ SeedOf(q)' = SeedOf(q)
  BY <1>1 DEF CommitmentOf, CommitOf, SeedOf
<1>10. ASSUME NEW a \in Players, NEW b \in Others(a), b # p
       PROVE  inbox'[Socket(a, b)] = MailFrom(a, b)'
  <2>1. MailFrom(a, b)' = MailFrom(a, b)
    BY <1>3, <1>8, <1>9, <1>10 DEF MailFrom, KeyFor
  <2>2. inbox[Socket(a, b)] = MailFrom(a, b)
    BY DEF IInv, MailInv
  <2>. QED  BY <1>5, <1>8, <1>10, <2>1, <2>2
<1>11. ASSUME NEW q \in Players, p \in Others(q)
       PROVE  inbox'[Socket(q, p)] = MailFrom(q, p)'
  <2>1. q \in Others(p) /\ q # p
    BY <1>11 DEF Others
  <2>2. /\ inbox[Opened(q, p)] = MailFrom(q, p)
        /\ KeysDone(q, p) => KeysDone(p, p)
        /\ SeedsDone(q, p) => SeedsDone(p, p)
    BY <1>8, <1>11 DEF IInv, MailInv
  <2>3. KeyFor(q, p)' = KeyFor(q, p)
    BY DEF KeyFor
  <2>4. CASE stage[p] = "keys"
    <3>1. MailFrom(q, p) = <<>> /\ MailFrom(q, p)' = <<KeyFor(q, p)>>
      BY <1>3, <2>1, <2>2, <2>3, <2>4 DEF MailFrom
    <3>2. inbox'[Opened(q, p)] = <<>> \o <<KeyFor(q, p)>>
      BY <1>4, <1>5, <2>1, <2>2, <2>4, <3>1
    <3>. QED  BY <1>8, <1>11, <3>1, <3>2
  <2>5. CASE stage[p] = "seeds" /\ KeysDone(q, p)
    <3>1. MailFrom(q, p) = <<>> /\ MailFrom(q, p)' = <<CommitOf(p), SeedOf(p)>>
      BY <1>3, <1>9, <2>1, <2>2, <2>5 DEF MailFrom
    <3>2. inbox'[Opened(q, p)] = <<>> \o <<CommitOf(p), SeedOf(p)>>
      BY <1>4, <1>5, <2>1, <2>2, <2>5, <3>1
    <3>. QED  BY <1>8, <1>11, <3>1, <3>2
  <2>6. CASE stage[p] = "seeds" /\ ~KeysDone(q, p)
    <3>1. /\ MailFrom(q, p) = <<KeyFor(q, p)>>
          /\ MailFrom(q, p)' = <<KeyFor(q, p), CommitOf(p), SeedOf(p)>>
      BY <1>3, <1>9, <2>1, <2>2, <2>3, <2>6 DEF MailFrom
    <3>2. inbox'[Opened(q, p)] = <<KeyFor(q, p)>> \o <<CommitOf(p), SeedOf(p)>>
      BY <1>4, <1>5, <2>1, <2>2, <2>6, <3>1
    <3>. QED  BY <1>8, <1>11, <3>1, <3>2
  <2>. QED  BY <1>1, <2>4, <2>5, <2>6
<1>12. MailInv'
  <2>. SUFFICES ASSUME NEW a \in Players, NEW b \in Others(a)
                PROVE  /\ inbox'[Socket(a, b)] = MailFrom(a, b)'
                       /\ KeysDone(a, b)' => KeysDone(b, b)'
                       /\ SeedsDone(a, b)' => SeedsDone(b, b)'
    BY DEF MailInv
  <2>1. inbox'[Socket(a, b)] = MailFrom(a, b)'
    BY <1>10, <1>11
  <2>2. /\ KeysDone(a, b) => KeysDone(b, b)
        /\ SeedsDone(a, b) => SeedsDone(b, b)
    BY DEF IInv, MailInv
  <2>. QED  BY <1>3, <1>8, <2>1, <2>2
<1>13. ArraysInv'
  BY <1>1, <1>3, <1>8, <1>9 DEF IInv, ArraysInv
<1>. QED  BY <1>6, <1>7, <1>12, <1>13 DEF IInv

LEMMA TakeMail ==
  ASSUME NEW k, NEW c, NEW s
  PROVE  /\ Head(<<k>>) = k /\ Tail(<<k>>) = <<>>
         /\ Head(<<k, c, s>>) = k /\ Tail(<<k, c, s>>) = <<c, s>>
         /\ Tail(Tail(<<c, s>>)) = <<>> /\ <<c, s>>[1] = c /\ <<c, s>>[2] = s
<1>1. Tail(<<k>>) = <<>> /\ Tail(<<k, c, s>>) = <<c, s>>
  OBVIOUS
<1>2. Tail(<<c, s>>) = <<s>> /\ Tail(<<s>>) = <<>>
  OBVIOUS
<1>3. Tail(Tail(<<c, s>>)) = <<>>
  BY <1>2
<1>4. Head(<<k>>) = k /\ Head(<<k, c, s>>) = k /\ <<c, s>>[1] = c /\ <<c, s>>[2] = s
  OBVIOUS
<1>. QED  BY <1>1, <1>3, <1>4

(* What a reader finds is what the other end wrote for it.                 *)
LEMMA ReadEffect ==
  ASSUME IInv, NEW p \in Players, NEW q \in Others(p), Read(p, q)
  PROVE  /\ q \in busy[p] /\ stage[p] \in {"keys", "seeds"} /\ Done(p, q)
         /\ UNCHANGED <<setupVars, stage, seed, liars, warned>>
         /\ stage[p] = "keys" =>
              /\ KeysDone(q, q)
              /\ keys_recv' = [keys_recv EXCEPT ![p][Place(p, q)] = Key(q, Place(q, p))]
              /\ UNCHANGED <<commits_recv, seeds_recv>>
              /\ inbox' = [inbox EXCEPT ![Socket(p, q)] =
                             IF SeedsDone(q, q) THEN <<CommitOf(q), SeedOf(q)>> ELSE <<>>]
         /\ stage[p] = "seeds" =>
              /\ SeedsDone(q, q)
              /\ commits_recv' = [commits_recv EXCEPT ![p][Place(p, q)] = CommitmentOf(q)]
              /\ seeds_recv' = [seeds_recv EXCEPT ![p][Place(p, q)] = OwnSeed(q)]
              /\ UNCHANGED keys_recv
              /\ inbox' = [inbox EXCEPT ![Socket(p, q)] = <<>>]
<1>1. inbox[Socket(p, q)] = MailFrom(p, q)
  BY DEF IInv, MailInv
<1>2. CASE ReadKey(p, q)
  <2>1. stage[p] = "keys" /\ ~KeysDone(p, q)
    BY <1>2 DEF ReadKey, KeysDone
  <2>2. PICK m : m = inbox[Socket(p, q)]
    OBVIOUS
  <2>3. /\ m # <<>>
        /\ keys_recv' = [keys_recv EXCEPT ![p][Place(p, q)] = Head(m).key]
        /\ inbox' = [inbox EXCEPT ![Socket(p, q)] = Tail(m)]
        /\ q \in busy[p] /\ Done(p, q)
        /\ UNCHANGED <<setupVars, stage, commits_recv, seeds_recv, seed, liars, warned>>
    BY <1>2, <2>2 DEF ReadKey
  <2>4. /\ KeysDone(q, q)
        /\ m = IF SeedsDone(q, q) THEN <<KeyFor(p, q), CommitOf(q), SeedOf(q)>> ELSE <<KeyFor(p, q)>>
    BY <1>1, <2>1, <2>2, <2>3 DEF MailFrom
  <2>5. /\ Head(m) = KeyFor(p, q)
        /\ Tail(m) = IF SeedsDone(q, q) THEN <<CommitOf(q), SeedOf(q)>> ELSE <<>>
    <3>1. CASE SeedsDone(q, q)
      BY <2>4, <3>1, TakeMail
    <3>2. CASE ~SeedsDone(q, q)
      BY <2>4, <3>2, TakeMail
    <3>. QED  BY <3>1, <3>2
  <2>6. Head(m).key = Key(q, Place(q, p))
    BY <2>5 DEF KeyFor
  <2>. QED  BY <2>1, <2>3, <2>4, <2>5, <2>6
<1>3. CASE ReadSeed(p, q)
  <2>1. stage[p] = "seeds" /\ KeysDone(p, q) /\ ~SeedsDone(p, q)
    BY <1>3 DEF ReadSeed, KeysDone, SeedsDone
  <2>2. PICK m : m = inbox[Socket(p, q)]
    OBVIOUS
  <2>3. /\ Len(m) >= 2
        /\ commits_recv' = [commits_recv EXCEPT ![p][Place(p, q)] = m[1].commit]
        /\ seeds_recv' = [seeds_recv EXCEPT ![p][Place(p, q)] = m[2].seed]
        /\ inbox' = [inbox EXCEPT ![Socket(p, q)] = Tail(Tail(m))]
        /\ q \in busy[p] /\ Done(p, q)
        /\ UNCHANGED <<setupVars, stage, keys_recv, seed, liars, warned>>
    BY <1>3, <2>2 DEF ReadSeed
  <2>4. m # <<>>
    BY <2>3
  <2>5. SeedsDone(q, q) /\ m = <<CommitOf(q), SeedOf(q)>>
    BY <1>1, <2>1, <2>2, <2>4 DEF MailFrom
  <2>6. m[1].commit = CommitmentOf(q) /\ m[2].seed = OwnSeed(q) /\ Tail(Tail(m)) = <<>>
    BY <2>5, TakeMail DEF CommitOf, SeedOf
  <2>. QED  BY <2>1, <2>3, <2>5, <2>6
<1>. QED  BY <1>2, <1>3 DEF Read

LEMMA ReadStep ==
  ASSUME IInv, NEW p \in Players, NEW q \in Others(p), Read(p, q)
  PROVE  IInv'
<1>1. /\ q \in busy[p] /\ stage[p] \in {"keys", "seeds"} /\ Done(p, q)
      /\ UNCHANGED <<setupVars, stage, seed, liars, warned>>
  BY ReadEffect
<1>2. Shapes /\ SetupInv /\ q \in Players /\ q # p
  BY DEF IInv, Others
<1>3. /\ busy' \in [Players -> SUBSET Players]
      /\ \A r \in Players, u \in Players : r # p \/ u # q =>
           /\ KeysDone(r, u)' <=> KeysDone(r, u)
           /\ SeedsDone(r, u)' <=> SeedsDone(r, u)
      /\ KeysDone(p, q)' /\ (KeysDone(p, q) <=> stage[p] = "seeds")
      /\ ~SeedsDone(p, q) /\ (SeedsDone(p, q)' <=> stage[p] = "seeds")
  BY <1>1, <1>2, ThreadEnds
<1>4. SetupInv' /\ PlayerInv'
  BY <1>1, <1>2, SetupKept, PlayerSame DEF IInv
<1>5. \A a \in Players : \A b \in Others(a) :
        b \in Players /\ a # b /\ Socket(a, b) \in Ends
          /\ (Socket(a, b) = Socket(p, q) => a = p /\ b = q)
  BY SocketOpened, OpenedApart DEF Others, Ends
<1>6. \A r : /\ CommitmentOf(r)' = CommitmentOf(r) /\ CommitOf(r)' = CommitOf(r)
             /\ SeedOf(r)' = SeedOf(r)
  BY <1>1 DEF CommitmentOf, CommitOf, SeedOf
<1>7. PICK i \in Places : /\ i = Place(p, q)
                          /\ \A b \in Others(p) : b # q => Place(p, b) # i
  BY PlaceFacts
<1>8. Key(q, Place(q, p)) \in Keys /\ OwnSeed(q) \subseteq Players
  BY <1>2, PlaceFacts DEF Keys, OwnSeed
<1>9. /\ inbox' = [e \in Ends |-> inbox'[e]] /\ DOMAIN inbox' = Ends
      /\ \A a \in Players : \A b \in Others(a) :
           a # p \/ b # q => inbox'[Socket(a, b)] = inbox[Socket(a, b)]
      /\ inbox'[Socket(p, q)] = IF stage[p] = "keys" /\ SeedsDone(q, q)
                                THEN <<CommitOf(q), SeedOf(q)>> ELSE <<>>
  <2>1. PICK rest : /\ inbox' = [inbox EXCEPT ![Socket(p, q)] = rest]
                    /\ rest = IF stage[p] = "keys" /\ SeedsDone(q, q)
                              THEN <<CommitOf(q), SeedOf(q)>> ELSE <<>>
    BY <1>1, ReadEffect
  <2>2. inbox = [e \in Ends |-> inbox[e]]
    BY <1>2 DEF Shapes
  <2>3. inbox' = [e \in Ends |-> IF e = Socket(p, q) THEN rest ELSE inbox[e]]
    BY <2>1, <2>2
  <2>4. inbox' = [e \in Ends |-> inbox'[e]] /\ DOMAIN inbox' = Ends
    BY <2>3
  <2>. QED  BY <1>5, <2>1, <2>3, <2>4
<1>10. /\ keys_recv' \in [Players -> [Places -> Keys \cup {Zero}]]
       /\ stage[p] = "keys" => keys_recv'[p][i] = Key(q, Place(q, p))
       /\ stage[p] = "seeds" => keys_recv' = keys_recv
       /\ \A a \in Players, j \in Places : a # p \/ j # i => keys_recv'[a][j] = keys_recv[a][j]
  <2>1. keys_recv \in [Players -> [Places -> Keys \cup {Zero}]]
    BY <1>2 DEF Shapes
  <2>2. CASE stage[p] = "seeds"
    BY <2>1, <2>2, ReadEffect
  <2>3. CASE stage[p] = "keys"
    <3>1. keys_recv' = [keys_recv EXCEPT ![p][i] = Key(q, Place(q, p))]
      BY <1>7, <2>3, ReadEffect
    <3>. QED  BY <1>8, <2>1, <2>3, <3>1
  <2>. QED  BY <1>1, <2>2, <2>3
<1>11. /\ seeds_recv' \in [Players -> [Places -> SUBSET Players]]
       /\ stage[p] = "seeds" => seeds_recv'[p][i] = OwnSeed(q)
       /\ \A a \in Players, j \in Places : a # p \/ j # i => seeds_recv'[a][j] = seeds_recv[a][j]
  <2>1. seeds_recv \in [Players -> [Places -> SUBSET Players]]
    BY <1>2 DEF Shapes
  <2>2. CASE stage[p] = "keys"
    BY <2>1, <2>2, ReadEffect
  <2>3. CASE stage[p] = "seeds"
    <3>1. seeds_recv' = [seeds_recv EXCEPT ![p][i] = OwnSeed(q)]
      BY <1>7, <2>3, ReadEffect
    <3>. QED  BY <1>8, <2>1, <2>3, <3>1
  <2>. QED  BY <1>1, <2>2, <2>3
<1>12. /\ commits_recv' = [a \in Players |-> [j \in Places |-> commits_recv'[a][j]]]
       /\ \A a \in Players : DOMAIN commits_recv'[a] = Places
       /\ stage[p] = "seeds" => commits_recv'[p][i] = CommitmentOf(q)
       /\ \A a \in Players, j \in Places : a # p \/ j # i => commits_recv'[a][j] = commits_recv[a][j]
  <2>1. /\ commits_recv = [a \in Players |-> [j \in Places |-> commits_recv[a][j]]]
        /\ \A a \in Players : DOMAIN commits_recv[a] = Places
    BY <1>2 DEF Shapes
  <2>2. CASE stage[p] = "keys"
    BY <2>1, <2>2, ReadEffect
  <2>3. CASE stage[p] = "seeds"
    <3>1. commits_recv' = [commits_recv EXCEPT ![p][i] = CommitmentOf(q)]
      BY <1>7, <2>3, ReadEffect
    <3>2. commits_recv' = [a \in Players |-> [j \in Places |->
            IF a = p /\ j = i THEN CommitmentOf(q) ELSE commits_recv[a][j]]]
      BY <2>1, <3>1
    <3>. QED  BY <1>7, <2>3, <3>2
  <2>. QED  BY <1>1, <2>2, <2>3
<1>13. Shapes'
  BY <1>1, <1>2, <1>3, <1>9, <1>10, <1>11, <1>12 DEF Shapes
<1>14. MailInv'
  <2>. SUFFICES ASSUME NEW a \in Players, NEW b \in Others(a)
                PROVE  /\ inbox'[Socket(a, b)] = MailFrom(a, b)'
                       /\ KeysDone(a, b)' => KeysDone(b, b)'
                       /\ SeedsDone(a, b)' => SeedsDone(b, b)'
    BY DEF MailInv
  <2>1. /\ inbox[Socket(a, b)] = MailFrom(a, b)
        /\ KeysDone(a, b) => KeysDone(b, b)
        /\ SeedsDone(a, b) => SeedsDone(b, b)
    BY DEF IInv, MailInv
  <2>2. KeyFor(a, b)' = KeyFor(a, b)
    BY DEF KeyFor
  <2>3. CASE a # p \/ b # q
    <3>1. MailFrom(a, b)' = MailFrom(a, b)
      BY <1>3, <1>5, <1>6, <2>2, <2>3 DEF MailFrom
    <3>2. inbox'[Socket(a, b)] = inbox[Socket(a, b)]
      BY <1>9, <2>3
    <3>3. KeysDone(a, b)' => KeysDone(b, b)'
      BY <1>3, <1>5, <2>1, <2>3
    <3>4. SeedsDone(a, b)' => SeedsDone(b, b)'
      BY <1>3, <1>5, <2>1, <2>3
    <3>. QED  BY <2>1, <3>1, <3>2, <3>3, <3>4
  <2>4. CASE a = p /\ b = q
    <3>1. /\ KeysDone(q, q)' <=> KeysDone(q, q)
          /\ SeedsDone(q, q)' <=> SeedsDone(q, q)
      BY <1>2, <1>3
    <3>2. /\ stage[p] = "keys" => KeysDone(q, q)
          /\ stage[p] = "seeds" => SeedsDone(q, q)
      BY ReadEffect
    <3>3. stage[p] = "seeds" => KeysDone(q, q)
      BY <1>3, <2>1, <2>4
    <3>4. MailFrom(p, q)' = IF stage[p] = "keys" /\ SeedsDone(q, q)
                            THEN <<CommitOf(q), SeedOf(q)>> ELSE <<>>
      BY <1>1, <1>3, <1>6, <3>1, <3>2 DEF MailFrom
    <3>. QED  BY <1>1, <1>3, <1>9, <2>4, <3>1, <3>2, <3>3, <3>4
  <2>. QED  BY <2>3, <2>4
<1>15. ArraysInv'
  <2>. SUFFICES ASSUME NEW a \in Players, NEW b \in Others(a)
                PROVE  /\ keys_recv'[a][Place(a, b)] =
                            IF KeysDone(a, b)' THEN Key(b, Place(b, a)) ELSE Zero
                       /\ SeedsDone(a, b)' => /\ commits_recv'[a][Place(a, b)] = CommitmentOf(b)
                                              /\ seeds_recv'[a][Place(a, b)] = OwnSeed(b)
    BY <1>6 DEF ArraysInv
  <2>1. /\ keys_recv[a][Place(a, b)] = IF KeysDone(a, b) THEN Key(b, Place(b, a)) ELSE Zero
        /\ SeedsDone(a, b) => /\ commits_recv[a][Place(a, b)] = CommitmentOf(b)
                              /\ seeds_recv[a][Place(a, b)] = OwnSeed(b)
    BY DEF IInv, ArraysInv
  <2>2. Place(a, b) \in Places
    BY PlaceFacts
  <2>3. CASE a # p \/ b # q
    <3>1. a # p \/ Place(a, b) # i
      BY <1>7, <2>3
    <3>. QED  BY <1>3, <1>5, <1>10, <1>11, <1>12, <2>1, <2>2, <2>3, <3>1
  <2>4. CASE a = p /\ b = q
    BY <1>1, <1>3, <1>7, <1>10, <1>11, <1>12, <2>1, <2>4
  <2>. QED  BY <2>3, <2>4
<1>. QED  BY <1>4, <1>13, <1>14, <1>15 DEF IInv

LEMMA AgreeStep ==
  ASSUME IInv, NEW p \in Players, Agree(p)
  PROVE  IInv'
<1>1. /\ stage[p] = "seeds" /\ busy[p] = {}
      /\ stage' = [stage EXCEPT ![p] = "agreed"]
      /\ warned' = IF \A i \in Places : commits_recv[p][i] = Commit(seeds_recv[p][i])
                   THEN warned ELSE warned \cup {p}
      /\ seed' = [seed EXCEPT ![p] = SymDiff(seed[p], Xor(seeds_recv[p]))]
      /\ UNCHANGED <<setupVars, busy, inbox, keys_recv, commits_recv, seeds_recv, liars>>
  BY DEF Agree
<1>2. Shapes /\ PlayerInv /\ seed[p] = OwnSeed(p) /\ p \notin warned
  BY <1>1 DEF IInv, PlayerInv, SeedIs
<1>3. \A q \in Others(p) : /\ SeedsDone(p, q) /\ q \in Players /\ q # p
                           /\ commits_recv[p][Place(p, q)] = CommitmentOf(q)
                           /\ seeds_recv[p][Place(p, q)] = OwnSeed(q)
  BY <1>1 DEF SeedsDone, IInv, ArraysInv, Others
<1>4. Xor(seeds_recv[p]) = Others(p)
  <2>1. seeds_recv[p] \in [Places -> SUBSET Players]
    BY <1>2 DEF Shapes
  <2>2. ASSUME NEW i \in Places, NEW j \in Places, i # j
        PROVE  seeds_recv[p][i] \cap seeds_recv[p][j] = {}
    <3>1. PICK q \in Others(p) : Place(p, q) = i
      BY PlaceFacts
    <3>2. PICK r \in Others(p) : Place(p, r) = j
      BY PlaceFacts
    <3>. QED  BY <1>3, <2>2, <3>1, <3>2 DEF OwnSeed
  <2>3. Xor(seeds_recv[p]) = UNION {seeds_recv[p][i] : i \in Places}
    BY <2>1, <2>2, XorApart
  <2>4. \A i \in Places : \E q \in Others(p) : seeds_recv[p][i] = {q}
    BY <1>3, PlaceFacts DEF OwnSeed
  <2>5. \A q \in Others(p) : \E i \in Places : seeds_recv[p][i] = {q}
    BY <1>3, PlaceFacts DEF OwnSeed
  <2>. QED  BY <2>3, <2>4, <2>5
<1>5. SymDiff(seed[p], Xor(seeds_recv[p])) = Players
  BY <1>2, <1>4 DEF SymDiff, OwnSeed, Others
<1>6. (\A i \in Places : commits_recv[p][i] = Commit(seeds_recv[p][i])) <=> liars \ {p} = {}
  <2>1. \A q : (CommitmentOf(q) = Commit(OwnSeed(q))) <=> q \notin liars
    <3>1. \A s, t : Commit(s) = Commit(t) => s = t
      <4>. SUFFICES ASSUME NEW s, NEW t, Commit(s) = Commit(t) PROVE s = t
        OBVIOUS
      <4>1. Commit(s).commit = s /\ Commit(t).commit = t
        BY DEF Commit
      <4>. QED  BY <4>1
    <3>2. \A q : OwnSeed(q) # Zero
      BY DEF OwnSeed, Zero
    <3>. QED  BY <3>1, <3>2 DEF CommitmentOf
  <2>2. (\A i \in Places : commits_recv[p][i] = Commit(seeds_recv[p][i]))
          <=> \A q \in Others(p) : q \notin liars
    <3>1. \A q \in Others(p) :
            (commits_recv[p][Place(p, q)] = Commit(seeds_recv[p][Place(p, q)])) <=> q \notin liars
      BY <1>3, <2>1
    <3>2. /\ \A q \in Others(p) : Place(p, q) \in Places
          /\ \A i \in Places : \E q \in Others(p) : Place(p, q) = i
      BY PlaceFacts
    <3>. QED  BY <3>1, <3>2
  <2>. QED  BY <1>2, <2>2 DEF Shapes, Others
<1>7. /\ stage' \in [Players -> {"construct", "keys", "seeds", "agreed"}]
      /\ stage'[p] = "agreed"
      /\ \A r \in Players \ {p} : stage'[r] = stage[r]
  BY <1>1, <1>2 DEF Shapes
<1>8. /\ seed' \in [Players -> SUBSET Players] /\ seed'[p] = Players
      /\ \A r \in Players \ {p} : seed'[r] = seed[r]
  BY <1>1, <1>2, <1>5 DEF Shapes
<1>9. /\ warned' \subseteq Players /\ (p \in warned' <=> liars \ {p} # {})
      /\ \A r \in Players \ {p} : r \in warned' <=> r \in warned
  BY <1>1, <1>2, <1>6 DEF Shapes
<1>10. SetupInv'
  BY <1>1, SetupKept DEF IInv
<1>11. Shapes'
  BY <1>1, <1>2, <1>7, <1>8, <1>9 DEF Shapes
<1>12. MailInv' /\ ArraysInv'
  <2>1. \A t : /\ KeysDone(p, t)' <=> KeysDone(p, t)
               /\ SeedsDone(p, t)' <=> SeedsDone(p, t)
    BY <1>1, <1>7 DEF KeysDone, SeedsDone
  <2>2. \A r \in Players : \A t \in Players : /\ KeysDone(r, t)' <=> KeysDone(r, t)
                                              /\ SeedsDone(r, t)' <=> SeedsDone(r, t)
    BY <1>1, <1>7, <2>1, DoneOfOthers
  <2>. QED  BY <1>1, <2>2, DoneSame DEF IInv
<1>13. PlayerInv'
  <2>1. /\ Constructed(p) /\ seed'[p] = SeedIs(p)'
        /\ p \in warned' <=> stage'[p] = "agreed" /\ liars \ {p} # {}
    BY <1>1, <1>2, <1>7, <1>8, <1>9 DEF PlayerInv, SeedIs
  <2>2. \A r \in Players \ {p} : /\ stage'[r] # "construct" => Constructed(r)
                                 /\ seed'[r] = SeedIs(r)'
                                 /\ r \in warned' <=> stage'[r] = "agreed" /\ liars \ {r} # {}
    BY <1>2, <1>7, <1>8, <1>9 DEF PlayerInv, SeedIs
  <2>. QED  BY <1>1, <2>1, <2>2, ConstructedSame DEF PlayerInv
<1>. QED  BY <1>10, <1>11, <1>12, <1>13 DEF IInv

(* The invariant that the theorems come from.                              *)
THEOREM Invariance == Spec => []IInv
<1>1. IInv /\ Next => IInv'
  <2>. SUFFICES ASSUME IInv, Next PROVE IInv'
    OBVIOUS
  <2>1. CASE Terminated
    <3>1. UNCHANGED <<setupVars, stage, busy, inbox, keys_recv, commits_recv, seeds_recv,
                      seed, liars, warned>>
      BY <2>1 DEF Terminated, vars, seedVars
    <3>2. MailInv' /\ ArraysInv'
      BY <3>1, DoneSame DEF IInv, KeysDone, SeedsDone
    <3>. QED  BY <3>1, <3>2, SetupKept, PlayerSame DEF IInv, Shapes
  <2>2. ASSUME NEW p \in Players, Main(p) PROVE IInv'
    BY <2>2, StartStep, AgreeStep DEF Main
  <2>. QED  BY <2>1, <2>2, OpenStep, WriteStep, ReadStep DEF Next
<1>2. IInv /\ UNCHANGED vars => IInv'
  <2>. SUFFICES ASSUME IInv, UNCHANGED vars PROVE IInv'
    OBVIOUS
  <2>1. UNCHANGED <<setupVars, stage, busy, inbox, keys_recv, commits_recv, seeds_recv,
                    seed, liars, warned>>
    BY DEF vars, seedVars
  <2>2. MailInv' /\ ArraysInv'
    BY <2>1, DoneSame DEF IInv, KeysDone, SeedsDone
  <2>. QED  BY <2>1, <2>2, SetupKept, PlayerSame DEF IInv, Shapes
<1>. QED  BY InitInv, <1>1, <1>2, PTL DEF Spec

-----------------------------------------------------------------------------
(* Sockets, arrays and stages keep their types: no thread ever reads       *)
(* another message than the one it waits for.                              *)
THEOREM TypeCorrect == Spec => []TypeOK
<1>1. IInv => TypeOK
  <2>. SUFFICES ASSUME IInv PROVE TypeOK
    OBVIOUS
  <2>1. Shapes /\ SetupTypeOK
    BY DEF IInv, SetupInv
  <2>2. ASSUME NEW e \in Ends
        PROVE  Len(inbox[e]) <= 3
    <3>. PICK p \in Players : e \in {Opened(p, q) : q \in Others(p)}
      BY DEF Ends
    <3>1. PICK q \in Others(p) : e = Opened(p, q)
      OBVIOUS
    <3>2. inbox[e] = MailFrom(p, q)
      BY <3>1, SocketOpened DEF IInv, MailInv
    <3>3. \A k, c, s : Len(<<k, c, s>>) <= 3 /\ Len(<<c, s>>) <= 3 /\ Len(<<k>>) <= 3
      OBVIOUS
    <3>4. Len(<<>>) <= 3
      OBVIOUS
    <3>. QED  BY <3>2, <3>3, <3>4 DEF MailFrom
  <2>. QED  BY <2>1, <2>2 DEF Shapes, TypeOK
<1>. QED  BY Invariance, <1>1, PTL

(* With any number of parties, the socket that a player uses for another   *)
(* is connected to the one that the other uses for the player.             *)
THEOREM SocketsAlwaysMeet == Spec => []SocketsMeet
<1>1. IInv => SocketsMeet
  BY Meet DEF IInv
<1>. QED  BY Invariance, <1>1, PTL

(* Whatever the order of the messages and the liars, a player that is done *)
(* has the sum of the seeds of all the players.                            *)
THEOREM AllTheSameSeed == Spec => []CommonSeed
<1>1. IInv => CommonSeed
  BY DEF IInv, PlayerInv, SeedIs, CommonSeed
<1>. QED  BY Invariance, <1>1, PTL

(* seeds_agreement: a player warns when, and only when, the commitment of  *)
(* another does not match.                                                 *)
THEOREM LiarsAreNoticed == Spec => []LiarsNoticed
<1>1. IInv => LiarsNoticed
  BY DEF IInv, PlayerInv, LiarsNoticed
<1>. QED  BY Invariance, <1>1, PTL

-----------------------------------------------------------------------------
(* The key that q has made for r: it is in the shares of the two.          *)
Bit(q, r) == <<q, Place(q, r)>>

LEMMA ShareBits ==
  ASSUME IInv, \A p \in Players : stage[p] = "agreed", NEW p \in Players
  PROVE  /\ \A a \in Share(p) : \E q \in Players : \E r \in Others(q) : a = Bit(q, r)
         /\ \A q \in Players : \A r \in Others(q) : Bit(q, r) \in Share(p) <=> p \in {q, r}
<1>. DEFINE own == [i \in Places |-> Key(p, i)]
<1>1. Xor(own) = {<<p, i>> : i \in Places}
  <2>1. \A i, j \in DOMAIN own : i # j => own[i] \cap own[j] = {}
    BY DEF Key
  <2>2. Xor(own) = UNION {own[i] : i \in DOMAIN own}
    BY <2>1, XorApart
  <2>. QED  BY <2>2 DEF Key
<1>2. keys_recv[p] \in [Places -> Keys \cup {Zero}]
  BY DEF IInv, Shapes
<1>3. \A q \in Others(p) : keys_recv[p][Place(p, q)] = {Bit(q, p)}
  BY DEF IInv, ArraysInv, KeysDone, Key, Bit
<1>4. Xor(keys_recv[p]) = {Bit(q, p) : q \in Others(p)}
  <2>1. ASSUME NEW i \in Places, NEW j \in Places, i # j
        PROVE  keys_recv[p][i] \cap keys_recv[p][j] = {}
    <3>1. PICK q \in Others(p) : Place(p, q) = i
      BY PlaceFacts
    <3>2. PICK r \in Others(p) : Place(p, r) = j
      BY PlaceFacts
    <3>. QED  BY <1>3, <2>1, <3>1, <3>2 DEF Bit
  <2>2. Xor(keys_recv[p]) = UNION {keys_recv[p][i] : i \in Places}
    BY <1>2, <2>1, XorApart
  <2>3. \A i \in Places : \E q \in Others(p) : keys_recv[p][i] = {Bit(q, p)}
    BY <1>3, PlaceFacts
  <2>4. \A q \in Others(p) : \E i \in Places : keys_recv[p][i] = {Bit(q, p)}
    BY <1>3, PlaceFacts
  <2>5. \A a : a \in UNION {keys_recv[p][i] : i \in Places} <=> \E q \in Others(p) : a = Bit(q, p)
    BY <2>3, <2>4
  <2>. QED  BY <2>2, <2>5
<1>5. \A q \in Others(p) : q # p /\ q \in Players
  BY DEF Others
<1>6. Share(p) = {<<p, i>> : i \in Places} \cup {Bit(q, p) : q \in Others(p)}
  <2>1. {<<p, i>> : i \in Places} \cap {Bit(q, p) : q \in Others(p)} = {}
    BY <1>5 DEF Bit
  <2>2. \A A, B : A \cap B = {} => SymDiff(A, B) = A \cup B
    BY DEF SymDiff
  <2>. QED  BY <1>1, <1>4, <2>1, <2>2 DEF Share
<1>7. \A i \in Places : \E r \in Others(p) : <<p, i>> = Bit(p, r)
  BY PlaceFacts DEF Bit
<1>8. \A q \in Others(p) : p \in Others(q)
  BY PlaceFacts
<1>9. \A a \in Share(p) : \E q \in Players : \E r \in Others(q) : a = Bit(q, r)
  BY <1>5, <1>6, <1>7, <1>8
<1>10. ASSUME NEW q \in Players, NEW r \in Others(q)
       PROVE  Bit(q, r) \in Share(p) <=> p \in {q, r}
  <2>1. Place(q, r) \in Places /\ q # r
    BY PlaceFacts DEF Others
  <2>2. (\E i \in Places : Bit(q, r) = <<p, i>>) <=> q = p
    BY <2>1 DEF Bit
  <2>3. (\E s \in Others(p) : Bit(q, r) = Bit(s, p)) <=> r = p
    <3>1. r = p => q \in Others(p)
      BY DEF Others
    <3>2. ASSUME NEW s \in Others(p), Bit(q, r) = Bit(s, p)
          PROVE  r = p
      <4>1. q = s /\ Place(q, r) = Place(q, p)
        BY <3>2 DEF Bit
      <4>2. p \in Others(q)
        BY <1>8, <4>1
      <4>. QED  BY <4>1, <4>2, PlaceFacts
    <3>. QED  BY <3>1, <3>2
  <2>. QED  BY <1>6, <2>2, <2>3
<1>. QED  BY <1>9, <1>10

LEMMA Cancel == IInv => SharesCancel
<1>. SUFFICES ASSUME IInv, \A p \in Players : stage[p] = "agreed",
                     NEW S \in SUBSET Players, S # {}
              PROVE  Xor([p \in S |-> Share(p)]) = {} <=> S = Players
  BY DEF SharesCancel
<1>. DEFINE sum == Xor([p \in S |-> Share(p)])
<1>1. \A q \in Players : \A r \in Others(q) :
        {p \in S : Bit(q, r) \in Share(p)} = S \cap {q, r}
  BY ShareBits
<1>2. \A a : a \in sum <=>
        /\ \E p \in S : a \in Share(p)
        /\ (Cardinality({p \in S : a \in Share(p)}) % 2) = 1
  <2>. SUFFICES ASSUME NEW a
                PROVE  a \in sum <=>
                         /\ \E p \in S : a \in Share(p)
                         /\ (Cardinality({p \in S : a \in Share(p)}) % 2) = 1
    OBVIOUS
  <2>1. {i \in DOMAIN [p \in S |-> Share(p)] : a \in [p \in S |-> Share(p)][i]}
          = {p \in S : a \in Share(p)}
    OBVIOUS
  <2>2. a \in UNION {[p \in S |-> Share(p)][i] : i \in DOMAIN [p \in S |-> Share(p)]}
          <=> \E p \in S : a \in Share(p)
    OBVIOUS
  <2>. QED  BY <2>1, <2>2 DEF Xor
<1>3. ASSUME S = Players
      PROVE  sum = {}
  <2>. SUFFICES ASSUME NEW a \in sum PROVE FALSE
    OBVIOUS
  <2>1. PICK p \in S : a \in Share(p)
    BY <1>2
  <2>2. PICK q \in Players : \E r \in Others(q) : a = Bit(q, r)
    BY <2>1, ShareBits
  <2>3. PICK r \in Others(q) : a = Bit(q, r)
    BY <2>2
  <2>4. {s \in S : a \in Share(s)} = {q} \cup {r} /\ r # q
    BY <1>1, <1>3, <2>3 DEF Others
  <2>5. Cardinality({q} \cup {r}) = 2
    <3>1. IsFiniteSet({q}) /\ Cardinality({q}) = 1
      BY FS_Singleton
    <3>2. r \notin {q}
      BY <2>4
    <3>3. Cardinality({q} \cup {r}) = IF r \in {q} THEN Cardinality({q}) ELSE Cardinality({q}) + 1
      BY <3>1, FS_AddElement
    <3>. QED  BY <3>1, <3>2, <3>3
  <2>. DEFINE n == Cardinality({s \in S : a \in Share(s)})
  <2>6. n = 2
    BY <2>4, <2>5, Zenon
  <2>7. (n % 2) = 1
    BY <1>2
  <2>. HIDE DEF n
  <2>. QED  BY <2>6, <2>7
<1>4. ASSUME S # Players
      PROVE  sum # {}
  <2>1. PICK q \in S : TRUE
    OBVIOUS
  <2>2. PICK r \in Players : r \notin S
    BY <1>4
  <2>3. q \in Players /\ r \in Others(q)
    BY <2>1, <2>2 DEF Others
  <2>4. {p \in S : Bit(q, r) \in Share(p)} = {q}
    BY <1>1, <2>2, <2>3
  <2>5. Cardinality({p \in S : Bit(q, r) \in Share(p)}) = 1
    BY <2>4, FS_Singleton
  <2>6. Bit(q, r) \in sum
    BY <1>2, <2>4, <2>5
  <2>. QED  BY <2>6
<1>. QED  BY <1>3, <1>4

(* secret_sharing_aes: the shares of all parties XOR to nothing, and those *)
(* of fewer of them never do.                                              *)
THEOREM SharesCancelOut == Spec => []SharesCancel
<1>1. IInv => SharesCancel
  BY Cancel
<1>. QED  BY Invariance, <1>1, PTL

-----------------------------------------------------------------------------
(* The ports of links B and of the random OTs.                             *)
LEMMA PortCount ==
  ASSUME NEW f \in [Pis -> Nat], \A j, k \in Pis : f[j] = f[k] => j = k
  PROVE  /\ IsFiniteSet(Pis) /\ IsFiniteSet({f[k] : k \in Pis})
         /\ Cardinality({f[k] : k \in Pis}) = Cardinality(Pis)
<1>1. IsFiniteSet(Pis)
  <2>1. IsFiniteSet(Players)
    BY PartiesAssumption, FS_Interval DEF Players
  <2>. QED  BY <2>1, FS_Subset DEF Pis
<1>2. f \in Bijection(Pis, {f[k] : k \in Pis})
  <2>1. f \in [Pis -> {f[k] : k \in Pis}]
    OBVIOUS
  <2>2. f \in Injection(Pis, {f[k] : k \in Pis})
    BY <2>1 DEF Injection, IsInjective
  <2>3. f \in Surjection(Pis, {f[k] : k \in Pis})
    BY <2>1 DEF Surjection
  <2>. QED  BY <2>2, <2>3 DEF Bijection
<1>3. ExistsBijection(Pis, {f[k] : k \in Pis})
  BY <1>2 DEF ExistsBijection
<1>. QED  BY <1>1, <1>3, FS_Bijection

LEMMA LaterPortsApart ==
  ASSUME parties <= 239
  PROVE  /\ Cardinality(LaterPorts) = 3 * Cardinality(Pis)
         /\ \A port \in LaterPorts : port \in 7002 .. 8000 + parties - 1
<1>. DEFINE linkB == [k \in Pis |-> 8000 + k]
            even  == [k \in Pis |-> 7000 + 2 * k]
            odd   == [k \in Pis |-> 7000 + 2 * k + 1]
<1>1. parties \in Nat /\ \A k \in Pis : k \in Nat /\ 1 <= k /\ k <= parties - 1
  BY PartiesAssumption DEF Pis, Players
<1>2. \A k \in Pis : /\ linkB[k] = 8000 + k /\ linkB[k] \in 8001 .. 8000 + parties - 1
                     /\ even[k] = 7000 + 2 * k /\ even[k] \in 7002 .. 8000
                     /\ odd[k] = 7000 + 2 * k + 1 /\ odd[k] \in 7002 .. 8000
  <2>. SUFFICES ASSUME NEW k \in Pis
                PROVE  /\ 8000 + k \in 8001 .. 8000 + parties - 1
                       /\ 7000 + 2 * k \in 7002 .. 8000
                       /\ 7000 + 2 * k + 1 \in 7002 .. 8000
    OBVIOUS
  <2>1. k \in Nat /\ 1 <= k /\ k <= parties - 1 /\ k <= 238
    BY <1>1
  <2>. QED  BY <1>1, <2>1
<1>3. linkB \in [Pis -> Nat] /\ even \in [Pis -> Nat] /\ odd \in [Pis -> Nat]
  BY <1>1
<1>4. LaterPorts = {linkB[k] : k \in Pis} \cup ({even[k] : k \in Pis} \cup {odd[k] : k \in Pis})
  <2>1. \A k \in Pis : PortsOf(k, 0)[1] = linkB[k]
    BY <1>1, <1>2, PartiesAssumption DEF PortsOf
  <2>. QED  BY <1>2, <2>1 DEF LaterPorts
<1>5. /\ \A j, k \in Pis : linkB[j] = linkB[k] => j = k
      /\ \A j, k \in Pis : even[j] = even[k] => j = k
      /\ \A j, k \in Pis : odd[j] = odd[k] => j = k
      /\ \A j, k \in Pis : even[j] # odd[k] /\ linkB[j] # even[k] /\ linkB[j] # odd[k]
  <2>. SUFFICES ASSUME NEW j \in Pis, NEW k \in Pis
                PROVE  /\ linkB[j] = linkB[k] => j = k
                       /\ even[j] = even[k] => j = k
                       /\ odd[j] = odd[k] => j = k
                       /\ even[j] # odd[k] /\ linkB[j] # even[k] /\ linkB[j] # odd[k]
    OBVIOUS
  <2>1. /\ j \in Nat /\ k \in Nat
        /\ linkB[j] = 8000 + j /\ even[j] = 7000 + 2 * j /\ odd[j] = 7000 + 2 * j + 1
        /\ linkB[k] = 8000 + k /\ even[k] = 7000 + 2 * k /\ odd[k] = 7000 + 2 * k + 1
        /\ linkB[j] > 8000 /\ even[k] <= 8000 /\ odd[k] <= 8000
    BY <1>1, <1>2
  <2>. HIDE DEF linkB, even, odd
  <2>2. even[j] # odd[k]
    BY <2>1
  <2>. QED  BY <2>1, <2>2
<1>. HIDE DEF linkB, even, odd
<1>. DEFINE A == {linkB[k] : k \in Pis}
            B == {even[k] : k \in Pis}
            C == {odd[k] : k \in Pis}
<1>6. /\ IsFiniteSet(Pis) /\ IsFiniteSet(A) /\ IsFiniteSet(B) /\ IsFiniteSet(C)
      /\ Cardinality(A) = Cardinality(Pis) /\ Cardinality(B) = Cardinality(Pis)
      /\ Cardinality(C) = Cardinality(Pis)
  BY <1>3, <1>5, PortCount
<1>7. B \cap C = {} /\ A \cap (B \cup C) = {}
  BY <1>5
<1>8. \A port \in A \cup (B \cup C) : port \in 7002 .. 8000 + parties - 1
  <2>1. 8000 <= 8000 + parties - 1
    BY <1>1, PartiesAssumption
  <2>. QED  BY <1>1, <1>2, <2>1
<1>. HIDE DEF A, B, C
<1>9. IsFiniteSet(B \cup C) /\ Cardinality(B \cup C) = Cardinality(B) + Cardinality(C)
  <2>1. /\ IsFiniteSet(B \cup C)
        /\ Cardinality(B \cup C) = Cardinality(B) + Cardinality(C) - Cardinality(B \cap C)
    BY <1>6, FS_Union
  <2>2. Cardinality(B \cap C) = 0
    BY <1>7, FS_EmptySet
  <2>. QED  BY <1>6, <2>1, <2>2, FS_CardinalityType
<1>10. Cardinality(A \cup (B \cup C)) = Cardinality(A) + Cardinality(B \cup C)
  <2>1. Cardinality(A \cup (B \cup C))
          = Cardinality(A) + Cardinality(B \cup C) - Cardinality(A \cap (B \cup C))
    BY <1>6, <1>9, FS_Union
  <2>2. Cardinality(A \cap (B \cup C)) = 0
    BY <1>7, FS_EmptySet
  <2>. QED  BY <1>6, <1>9, <2>1, <2>2, FS_CardinalityType
<1>11. Cardinality(Pis) \in Nat
  BY <1>6, FS_CardinalityType
<1>12. Cardinality(A \cup (B \cup C)) = 3 * Cardinality(Pis)
  BY <1>6, <1>9, <1>10, <1>11
<1>13. LaterPorts = A \cup (B \cup C)
  BY <1>4 DEF A, B, C
<1>. QED  BY <1>8, <1>12, <1>13

(* What the numbers of the ports must not pass.                            *)
PortsFit == \A e \in DOMAIN bound : bound[e] <= 65535

LEMMA Ports ==
  ASSUME parties <= 239, SetupInv
  PROVE  PortsApart /\ PortsFit
<1>. SUFFICES ASSUME NEW e \in DOMAIN bound
              PROVE  bound[e] # 0 /\ bound[e] \notin LaterPorts /\ bound[e] <= 65535
  BY LaterPortsApart DEF PortsApart, PortsFit
<1>1. PICK l \in Listeners : bound[e] = 8000 + l[2] * parties + l[1]
  BY DEF SetupInv
<1>2. PICK p, q \in Nat : p = l[1] /\ q = l[2]
  BY LinkEnds
<1>3. parties \in Nat /\ 1 <= q /\ q <= parties - 1 /\ p <= parties - 2 /\ q * parties \in Nat
  BY <1>2, LinkEnds, PartiesAssumption DEF Pis, Players
<1>4. q * parties >= parties
  BY <1>3
<1>5. q * parties <= 238 * 239
  <2>1. q * parties <= q * 239
    BY <1>3
  <2>2. q * 239 <= 238 * 239
    BY <1>3
  <2>. QED  BY <1>3, <2>1, <2>2
<1>6. bound[e] = 8000 + q * parties + p
  BY <1>1, <1>2
<1>7. bound[e] >= 8000 + parties /\ bound[e] <= 65535
  BY <1>2, <1>3, <1>4, <1>5, <1>6
<1>. QED  BY <1>3, <1>7, LaterPortsApart

(* set_ports and the fixed bases of the other ports: with up to 239        *)
(* parties, also on one host, every bind() gets the port it asks for, of   *)
(* 16 bits, and no port is used twice.  (Of 501 parties, two would ask for *)
(* port 8001: one for its link B, one for its random OT.)                  *)
THEOREM PortsStayApart ==
  ASSUME parties <= 239
  PROVE  Spec => [](PortsApart /\ PortsFit)
<1>1. IInv => PortsApart /\ PortsFit
  BY Ports DEF IInv
<1>. QED  BY Invariance, <1>1, PTL

=============================================================================
