-------------------------------- MODULE Setup --------------------------------
(***************************************************************************)
(* How the processes open their sockets at the start of step 2.  P0 makes  *)
(* one object per other party, each in a thread that listens and accepts.  *)
(* The constructor of Pi opens its sockets one after the other: it         *)
(* connects to P0 and to the parties with lower numbers, in order, and     *)
(* then listens for, and accepts, each of those with higher numbers.       *)
(*                                                                         *)
(* An end is a socket of a player, <<player, slot>>; a slot names the      *)
(* array of the process it stands in and its index there.  All parties may *)
(* run on one host (ip.txt decides), so a port belongs to whoever bound it *)
(* first.                                                                  *)
(***************************************************************************)
EXTENDS Integers, FiniteSets

CONSTANT parties

ASSUME PartiesAssumption == parties \in Nat /\ parties >= 2

Players == 0 .. parties - 1
Pis     == Players \ {0}

VARIABLES at,        \* Pi |-> the player whose socket its constructor opens next
          bound,     \* listening end -> its port
          conn,      \* connected end of a client -> the listening end it reached
          accepted   \* listening ends whose accept() has returned

setupVars == <<at, bound, conn, accepted>>

(* Mutant of PortsOf: the number of the parties is left out of the port.   *)
PortsOf_Sum(player, i) == <<8000 + i + player, 8000 + player + i>>

(* ports[i] of a player: where it listens for i, and where it finds i.     *)
PortsOf(player, i) == <<8000 + i * parties + player, 8000 + player * parties + i>>

(* Where the socket between player and q is put when it is opened.         *)
SlotOpened(player, q) ==
  CASE player = 0 -> <<"P0_s", q - 1>>
    [] player # 0 /\ q = 0 -> <<"recv", 0>>
    [] player # 0 /\ q # 0 /\ q < player -> <<"receivers", q - 1>>
    [] player # 0 /\ q > player -> <<"senders", q - player - 1>>

Opened(player, q) == <<player, SlotOpened(player, q)>>

(* Mutant of Socket: the senders are taken from the end of their array.    *)
Socket_Reversed(player, q) ==
  IF player = 0 THEN <<player, <<"P0_s", q - 1>>>>
  ELSE IF q = 0 THEN <<player, <<"recv", 0>>>>
  ELSE IF q < player THEN <<player, <<"receivers", q - 1>>>>
  ELSE <<player, <<"senders", parties - 1 - q>>>>

(* The socket that write_to_player and read_from_player use for q; P0      *)
(* goes through its objects.                                               *)
Socket(player, q) ==
  IF player = 0 THEN <<player, <<"P0_s", q - 1>>>>
  ELSE IF q = 0 THEN <<player, <<"recv", 0>>>>
  ELSE IF q < player THEN <<player, <<"receivers", q - 1>>>>
  ELSE <<player, <<"senders", q - player - 1>>>>

Others(player) == Players \ {player}
Ends == UNION {{Opened(p, q) : q \in Others(p)} : p \in Players}

(* A function that has one more value.                                     *)
With(f, e, v) == [d \in DOMAIN f \cup {e} |-> IF d \in DOMAIN f THEN f[d] ELSE v]

-----------------------------------------------------------------------------
SetupInit == /\ at = [p \in Pis |-> 0]
             /\ bound = <<>>
             /\ conn = <<>>
             /\ accepted = {}

(* The constructor of a Pi is at q; the objects of P0 are made by a thread *)
(* each.                                                                   *)
TurnOf(p, q) == p # 0 => at[p] = q

(* Mutant of Following: the loops of the constructor are swapped: higher   *)
(* players first.                                                          *)
Following_HigherFirst(p) ==
  IF at[p] = 0 THEN IF p + 1 < parties THEN p + 1 ELSE IF p > 1 THEN 1 ELSE parties
  ELSE IF at[p] > p THEN IF at[p] + 1 < parties THEN at[p] + 1 ELSE IF p > 1 THEN 1 ELSE parties
  ELSE IF at[p] + 1 < p THEN at[p] + 1 ELSE parties

(* Mutant of Following: the second loop starts at the player itself.       *)
Following_NoSkip(p) == at[p] + 1

(* The player after that one in the two loops of the constructor.          *)
Following(p) == IF at[p] + 1 = p THEN p + 1 ELSE at[p] + 1

Opens(p) == at' = IF p = 0 THEN at ELSE [at EXCEPT ![p] = Following(p)]

(* init_sender up to listen().  Where bind() fails, the error is printed   *)
(* and listen() gives the socket a port that nobody knows.                 *)
Listen(p, q) ==
  LET port == PortsOf(p, q)[1] IN
  /\ p < q /\ TurnOf(p, q)
  /\ Opened(p, q) \notin DOMAIN bound
  /\ bound' = With(bound, Opened(p, q), IF \E e \in DOMAIN bound : bound[e] = port THEN 0 ELSE port)
  /\ UNCHANGED <<at, conn, accepted>>

(* init_receiver: connect() is repeated until somebody listens there; it   *)
(* returns before the other side has called accept().                      *)
Connect(p, q) ==
  /\ q < p /\ TurnOf(p, q)
  /\ \E e \in DOMAIN bound :
       /\ bound[e] = PortsOf(p, q)[2]
       /\ conn' = With(conn, Opened(p, q), e)
  /\ Opens(p)
  /\ UNCHANGED <<bound, accepted>>

(* accept(), the end of init_sender.                                       *)
Accept(p, q) ==
  /\ p < q /\ TurnOf(p, q)
  /\ Opened(p, q) \notin accepted
  /\ \E e \in DOMAIN conn : conn[e] = Opened(p, q)
  /\ accepted' = accepted \cup {Opened(p, q)}
  /\ Opens(p)
  /\ UNCHANGED <<bound, conn>>

Constructed(p) == IF p = 0 THEN \A q \in Pis : Opened(0, q) \in accepted
                  ELSE at[p] = parties

OpenSocket(p, q) == Listen(p, q) \/ Connect(p, q) \/ Accept(p, q)

-----------------------------------------------------------------------------
SetupTypeOK ==
  /\ \A p \in Pis : at[p] \in 0 .. parties \ {p}
  /\ DOMAIN bound \subseteq Ends /\ \A e \in DOMAIN bound : bound[e] \in Nat
  /\ DOMAIN conn \subseteq Ends  /\ \A e \in DOMAIN conn : conn[e] \in DOMAIN bound
  /\ accepted \subseteq DOMAIN bound

(* Both ends of a link compute its port, and the place of its socket in an *)
(* array, from their own numbers; the socket that a player uses for q is   *)
(* connected to the one that q uses for the player.                        *)
SocketsMeet ==
  \A q \in Pis : \A p \in 0 .. q - 1 :
    Socket(q, p) \in DOMAIN conn => conn[Socket(q, p)] = Socket(p, q)

(* The ports that are bound later: link B, which the OT sender of a Pi     *)
(* opens, and the server of each random OT.                                *)
LaterPorts == {PortsOf(k, 0)[1] : k \in Pis} \cup {7000 + 2 * k : k \in Pis}
              \cup {7000 + 2 * k + 1 : k \in Pis}

(* No port is asked for twice on a host, now or later: every bind()        *)
(* succeeds, and a client that finds a listener has found its own.         *)
PortsApart == /\ \A e \in DOMAIN bound : bound[e] # 0 /\ bound[e] \notin LaterPorts
              /\ Cardinality(LaterPorts) = 3 * Cardinality(Pis)

=============================================================================
