------------------------------- MODULE Session -------------------------------
(***************************************************************************)
(* The run of the protocol after the seeds are agreed, as the processes    *)
(* see each other: P0 and every Pi go through the offline phase, the       *)
(* online phase and the final phase (main) over two TCP links per Pi.      *)
(*                                                                         *)
(* On link <<"A", k>> P0 is the OT sender, on link <<"B", k>> party k is.  *)
(* Per link the OT sender's thread runs offline_apport_sender and          *)
(* online_apport_sender, the OT receiver's thread the two receivers; link  *)
(* B also carries the filter of party k in the end.  A check that fails    *)
(* ends the process with exit(1); whether it fails is an input here        *)
(* (Apport models the checks themselves).                                  *)
(*                                                                         *)
(* A message is its tag.  A channel holds what is written and not read; it *)
(* is still readable after the writer's process is gone.                   *)
(***************************************************************************)
EXTENDS Integers, Sequences, FiniteSets

CONSTANTS P0, Pis

ASSUME PartiesAssumption == P0 \notin Pis /\ Pis # {}

Parties == {P0} \cup Pis
Links   == {"A", "B"} \X Pis

OTSender(l)   == IF l[1] = "A" THEN P0 ELSE l[2]
OTReceiver(l) == IF l[1] = "A" THEN l[2] ELSE P0

VARIABLES snd,      \* link |-> where the OT sender's thread is
          rcv,      \* link |-> where the OT receiver's thread is
          toR,      \* link |-> messages to the OT receiver's end
          toS,      \* link |-> messages to the OT sender's end
          phase,    \* party |-> phase of its main thread, or how it ended
          passed    \* the checks that were passed (history)

vars == <<snd, rcv, toR, toS, phase, passed>>

Running  == {"offline", "online", "final"}
Alive(p) == phase[p] \in Running

SndOf(p) == {l \in Links : OTSender(l) = p}
RcvOf(p) == {l \in Links : OTReceiver(l) = p}

-----------------------------------------------------------------------------
Init == /\ snd    = [l \in Links |-> "ot"]
        /\ rcv    = [l \in Links |-> "ot"]
        /\ toR    = [l \in Links |-> <<>>]
        /\ toS    = [l \in Links |-> <<>>]
        /\ phase  = [p \in Parties |-> "offline"]
        /\ passed = {}

(* exit(1), or a signal: every thread and every socket of p is gone.       *)
End(p, how) == phase' = [phase EXCEPT ![p] = how]

(* write() to a peer that is there, or is gone and the bytes are dropped.  *)
Put(chan, l, m, peer) == [chan EXCEPT ![l] = IF Alive(peer) THEN Append(@, m) ELSE @]

Both(l) == Alive(OTSender(l)) /\ Alive(OTReceiver(l))

(* TwoChooseOne at both ends of a link.                                    *)
RunOT(l) == LET then == IF l[1] = "B" THEN "connect" ELSE "go" IN
            /\ Both(l) /\ snd[l] = "ot" /\ rcv[l] = "ot"
            /\ snd' = [snd EXCEPT ![l] = IF then = "go" THEN "sendC" ELSE then]
            /\ rcv' = [rcv EXCEPT ![l] = IF then = "go" THEN "recvC" ELSE then]
            /\ UNCHANGED <<toR, toS, phase, passed>>

(* Link B is opened between the OTs and the sub group: party k accepts     *)
(* (init_sender), P0 repeats connect() until it succeeds (init_receiver).  *)
Connect(l) == /\ Both(l) /\ snd[l] = "connect" /\ rcv[l] = "connect"
              /\ snd' = [snd EXCEPT ![l] = "sendC"]
              /\ rcv' = [rcv EXCEPT ![l] = "recvC"]
              /\ UNCHANGED <<toR, toS, phase, passed>>

-----------------------------------------------------------------------------
(* The OT sender's thread.                                                 *)

(* Mutant of SendC: the sub group is written on the other socket to the    *)
(* same peer.                                                              *)
SendC_OtherSocket(l) ==
  LET other == <<IF l[1] = "A" THEN "B" ELSE "A", l[2]>> IN
  /\ Alive(OTSender(l)) /\ snd[l] = "sendC"
  /\ toS' = Put(toS, other, "C", OTReceiver(l))
  /\ snd' = [snd EXCEPT ![l] = "recvR"]
  /\ UNCHANGED <<rcv, toR, phase, passed>>

(* set_sub_group, send_sub_group.                                          *)
SendC(l) == /\ Alive(OTSender(l)) /\ snd[l] = "sendC"
            /\ toR' = Put(toR, l, "C", OTReceiver(l))
            /\ snd' = [snd EXCEPT ![l] = "recvR"]
            /\ UNCHANGED <<rcv, toS, phase, passed>>

(* Mutant of RecvR: the check that fails is printed and not acted on.      *)
RecvR_NoExit(l) == /\ Alive(OTSender(l)) /\ snd[l] = "recvR" /\ toS[l] # <<>>
                   /\ toS' = [toS EXCEPT ![l] = Tail(@)]
                   /\ snd' = [snd EXCEPT ![l] = "offlineDone"]
                   /\ passed' \in {passed, passed \cup {<<l, "R">>}}
                   /\ UNCHANGED <<rcv, toR, phase>>

(* recv_R, then check_if_to_abort1.                                        *)
RecvR(l) == /\ Alive(OTSender(l)) /\ snd[l] = "recvR" /\ toS[l] # <<>>
            /\ toS' = [toS EXCEPT ![l] = Tail(@)]
            /\ \/ /\ snd' = [snd EXCEPT ![l] = "offlineDone"]
                  /\ passed' = passed \cup {<<l, "R">>}
                  /\ UNCHANGED phase
               \/ /\ End(OTSender(l), "aborted")
                  /\ UNCHANGED <<snd, passed>>
            /\ UNCHANGED <<rcv, toR>>

(* recv_func, then the segments for the GBF (OnlineXor).                   *)
RecvF(l) == /\ Alive(OTSender(l)) /\ snd[l] = "recvF" /\ toS[l] # <<>>
            /\ toS' = [toS EXCEPT ![l] = Tail(@)]
            /\ snd' = [snd EXCEPT ![l] = "onlineDone"]
            /\ UNCHANGED <<rcv, toR, phase, passed>>

-----------------------------------------------------------------------------
(* The OT receiver's thread.                                               *)

(* recv_C, then check_if_to_abort.                                         *)
RecvC(l) == /\ Alive(OTReceiver(l)) /\ rcv[l] = "recvC" /\ toR[l] # <<>>
            /\ toR' = [toR EXCEPT ![l] = Tail(@)]
            /\ \/ /\ rcv' = [rcv EXCEPT ![l] = "sendR"]
                  /\ passed' = passed \cup {<<l, "C">>}
                  /\ UNCHANGED phase
               \/ /\ End(OTReceiver(l), "aborted")
                  /\ UNCHANGED <<rcv, passed>>
            /\ UNCHANGED <<snd, toS>>

(* compute_R_r, send_R_r, get_zeros_ones.                                  *)
SendR(l) == /\ Alive(OTReceiver(l)) /\ rcv[l] = "sendR"
            /\ toS' = Put(toS, l, "R", OTSender(l))
            /\ rcv' = [rcv EXCEPT ![l] = "offlineDone"]
            /\ UNCHANGED <<snd, toR, phase, passed>>

(* arrange_the_indexes.                                                    *)
Arrange(l) == /\ Alive(OTReceiver(l)) /\ rcv[l] = "arrange"
              /\ \/ /\ rcv' = [rcv EXCEPT ![l] = "sendF"]
                    /\ passed' = passed \cup {<<l, "F">>}
                    /\ UNCHANGED phase
                 \/ /\ End(OTReceiver(l), "aborted")
                    /\ UNCHANGED <<rcv, passed>>
              /\ UNCHANGED <<snd, toR, toS>>

(* Mutant of SendF: a party has one thread for both roles and reads first. *)
SendF_OneThread(l) ==
  /\ Alive(OTReceiver(l)) /\ rcv[l] = "sendF"
  /\ \A m \in SndOf(OTReceiver(l)) : snd[m] = "onlineDone"
  /\ toS' = Put(toS, l, "F", OTSender(l))
  /\ rcv' = [rcv EXCEPT ![l] = "onlineDone"]
  /\ UNCHANGED <<snd, toR, phase, passed>>

(* send_func, then the segments for the GBF (OnlineXor).                   *)
SendF(l) == /\ Alive(OTReceiver(l)) /\ rcv[l] = "sendF"
            /\ toS' = Put(toS, l, "F", OTSender(l))
            /\ rcv' = [rcv EXCEPT ![l] = "onlineDone"]
            /\ UNCHANGED <<snd, toR, phase, passed>>

(* get_gbf, in a thread of its own of compute_gbf.                         *)
RecvG(l) == /\ Alive(OTReceiver(l)) /\ rcv[l] = "recvG" /\ toR[l] # <<>>
            /\ toR' = [toR EXCEPT ![l] = Tail(@)]
            /\ rcv' = [rcv EXCEPT ![l] = "gbfDone"]
            /\ UNCHANGED <<snd, toS, phase, passed>>

-----------------------------------------------------------------------------
(* The main threads.                                                       *)
AllAt(p, s, state) == /\ \A l \in SndOf(p) : snd[l] = s
                      /\ \A l \in RcvOf(p) : rcv[l] = state

(* Mutant of JoinOffline: the online threads start while the offline       *)
(* threads of other links still run.                                       *)
JoinOffline_PerLink(p) ==
  /\ phase[p] = "offline"
  /\ \E l \in SndOf(p) : snd[l] = "offlineDone"
  /\ \E l \in RcvOf(p) : rcv[l] = "offlineDone"
  /\ phase' = [phase EXCEPT ![p] = "online"]
  /\ snd' = [l \in Links |-> IF l \in SndOf(p) THEN "recvF" ELSE snd[l]]
  /\ rcv' = [l \in Links |-> IF l \in RcvOf(p) THEN "arrange" ELSE rcv[l]]
  /\ UNCHANGED <<toR, toS, passed>>

(* main joins the offline threads of all links, makes the Bloom filter and *)
(* starts the online threads.                                              *)
JoinOffline(p) ==
  /\ phase[p] = "offline"
  /\ AllAt(p, "offlineDone", "offlineDone")
  /\ phase' = [phase EXCEPT ![p] = "online"]
  /\ snd' = [l \in Links |-> IF l \in SndOf(p) THEN "recvF" ELSE snd[l]]
  /\ rcv' = [l \in Links |-> IF l \in RcvOf(p) THEN "arrange" ELSE rcv[l]]
  /\ UNCHANGED <<toR, toS, passed>>

(* Mutant of JoinOnline: main does not join the OT senders' threads.       *)
JoinOnline_SenderLeft(p) ==
  /\ phase[p] = "online"
  /\ \A l \in RcvOf(p) : rcv[l] = "onlineDone"
  /\ phase' = [phase EXCEPT ![p] = "final"]
  /\ rcv' = [l \in Links |-> IF p = P0 /\ l \in RcvOf(p) THEN "recvG" ELSE rcv[l]]
  /\ UNCHANGED <<snd, toR, toS, passed>>

(* main joins the online threads; P0 starts the threads of compute_gbf.    *)
JoinOnline(p) ==
  /\ phase[p] = "online"
  /\ AllAt(p, "onlineDone", "onlineDone")
  /\ phase' = [phase EXCEPT ![p] = "final"]
  /\ rcv' = [l \in Links |-> IF p = P0 /\ l \in RcvOf(p) THEN "recvG" ELSE rcv[l]]
  /\ UNCHANGED <<snd, toR, toS, passed>>

(* comulative_gbf_pi of party k: the filter is written on link B ...       *)
SendG(k) == /\ phase[k] = "final" /\ snd[<<"B", k>>] # "gbfDone"
            /\ toR' = Put(toR, <<"B", k>>, "G", P0)
            /\ snd' = [snd EXCEPT ![<<"B", k>>] = "gbfDone"]
            /\ UNCHANGED <<rcv, toS, phase, passed>>

(* ... and `delete pi' closes the sockets; main returns.                   *)
Leave(k) == /\ phase[k] = "final" /\ snd[<<"B", k>>] = "gbfDone"
            /\ End(k, "done")
            /\ UNCHANGED <<snd, rcv, toR, toS, passed>>

(* compute_gbf joins its threads; get_intersection prints the result.      *)
Output == /\ phase[P0] = "final"
          /\ \A l \in RcvOf(P0) : rcv[l] = "gbfDone"
          /\ End(P0, "done")
          /\ UNCHANGED <<snd, rcv, toR, toS, passed>>

-----------------------------------------------------------------------------
(* A peer that is gone.                                                    *)

(* The OT fails (its library throws or waits), accept() waits for ever or  *)
(* connect() is repeated for ever; read() returns 0 at the end of the      *)
(* stream and the loop `left-=n' never ends.                               *)
StuckSnd(l) == /\ Alive(OTSender(l)) /\ ~Alive(OTReceiver(l))
               /\ \/ snd[l] \in {"ot", "connect"}
                  \/ snd[l] \in {"recvR", "recvF"} /\ toS[l] = <<>>
               /\ snd' = [snd EXCEPT ![l] = "stuck"]
               /\ UNCHANGED <<rcv, toR, toS, phase, passed>>

StuckRcv(l) == /\ Alive(OTReceiver(l)) /\ ~Alive(OTSender(l))
               /\ \/ rcv[l] \in {"ot", "connect"}
                  \/ rcv[l] \in {"recvC", "recvG"} /\ toR[l] = <<>>
               /\ rcv' = [rcv EXCEPT ![l] = "stuck"]
               /\ UNCHANGED <<snd, toR, toS, phase, passed>>

(* write() to a socket whose peer has reset it: SIGPIPE.                   *)
SigPipe(l) ==
  /\ \/ /\ Alive(OTSender(l)) /\ ~Alive(OTReceiver(l))
        /\ snd[l] = "sendC" \/ (l[1] = "B" /\ phase[l[2]] = "final" /\ snd[l] = "onlineDone")
        /\ End(OTSender(l), "killed")
     \/ /\ Alive(OTReceiver(l)) /\ ~Alive(OTSender(l))
        /\ rcv[l] \in {"sendR", "sendF"}
        /\ End(OTReceiver(l), "killed")
  /\ UNCHANGED <<snd, rcv, toR, toS, passed>>

(* Nothing more need happen when all have ended, or one has failed: the    *)
(* others then wait for it, or for one that waits for it.                  *)
Failed == \E p \in Parties : phase[p] \in {"aborted", "killed"}
Quiet  == (Failed \/ \A p \in Parties : ~Alive(p)) /\ UNCHANGED vars

SndThread(l) == SendC(l) \/ RecvR(l) \/ RecvF(l) \/ StuckSnd(l)
RcvThread(l) == RecvC(l) \/ SendR(l) \/ Arrange(l) \/ SendF(l) \/ RecvG(l) \/ StuckRcv(l)
Main(p)      == JoinOffline(p) \/ JoinOnline(p)
                \/ (p # P0 /\ (SendG(p) \/ Leave(p))) \/ (p = P0 /\ Output)

Next == \/ \E l \in Links : RunOT(l) \/ Connect(l) \/ SndThread(l) \/ RcvThread(l) \/ SigPipe(l)
        \/ \E p \in Parties : Main(p)
        \/ Quiet

(* Every thread is scheduled and every message that is written arrives.    *)
Fairness == /\ \A l \in Links : /\ WF_vars(RunOT(l)) /\ WF_vars(Connect(l))
                                /\ WF_vars(SndThread(l)) /\ WF_vars(RcvThread(l))
            /\ \A p \in Parties : WF_vars(Main(p))

Spec == Init /\ [][Next]_vars /\ Fairness

-----------------------------------------------------------------------------
TypeOK ==
  /\ snd \in [Links -> {"ot", "connect", "sendC", "recvR", "offlineDone", "recvF",
                        "onlineDone", "gbfDone", "stuck"}]
  /\ rcv \in [Links -> {"ot", "connect", "recvC", "sendR", "offlineDone", "arrange",
                        "sendF", "onlineDone", "recvG", "gbfDone", "stuck"}]
  /\ toR \in [Links -> Seq({"C", "G"})]
  /\ toS \in [Links -> Seq({"R", "F"})]
  /\ phase \in [Parties -> Running \cup {"done", "aborted", "killed"}]
  /\ passed \subseteq Links \X {"C", "R", "F"}

(* Messages have no tags on the wire: a reader takes as many bytes as it   *)
(* expects.  Whatever the phases of the two processes are, the next bytes  *)
(* on a link are those of the message that its reader waits for.           *)
Expects(state) == CASE state = "recvC" -> "C" [] state = "recvG" -> "G"
                    [] state = "recvR" -> "R" [] state = "recvF" -> "F"
                    [] OTHER -> "nothing yet"
MessagesInStep ==
  \A l \in Links :
    /\ (Alive(OTReceiver(l)) /\ rcv[l] \in {"recvC", "recvG"} /\ toR[l] # <<>>)
         => Head(toR[l]) = Expects(rcv[l])
    /\ (Alive(OTSender(l)) /\ snd[l] \in {"recvR", "recvF"} /\ toS[l] # <<>>)
         => Head(toS[l]) = Expects(snd[l])

(* P0 prints an intersection only if every check that can stop a party was *)
(* made and passed on every link: of the sub group (C), of R and r (R), of *)
(* the function (F).  (The comparison of the commitments in step 2,        *)
(* Functions.cpp:1035, stops nobody: see LiarsNoticed.)                    *)
OutputOnlyAfterChecks == phase[P0] = "done" => passed = Links \X {"C", "R", "F"}

(* A Pi gives its filter away only after all checks of its own two links,  *)
(* by either end, and after P0's checks of the offline phase (sub groups,  *)
(* R and r) on all links, those with the other Pis included.  P0 may still *)
(* be arranging for the link B of another Pi.                              *)
FilterOnlyAfterChecks ==
  \A k \in Pis : phase[k] \in {"final", "done"} =>
    /\ {<<"A", k>>, <<"B", k>>} \X {"C", "R", "F"} \subseteq passed
    /\ \A l \in Links : (OTSender(l) = P0 => <<l, "R">> \in passed)
                        /\ (OTReceiver(l) = P0 => <<l, "C">> \in passed)

(* A party that closes its sockets in the end has read everything that was *)
(* sent to it: close() with unread bytes resets the connection, and the    *)
(* filter that P0 has not read yet would be lost.                          *)
OrderlyClose ==
  \A k \in Pis : phase[k] = "done" => toR[<<"A", k>>] = <<>> /\ toS[<<"B", k>>] = <<>>

(* Unless a check fails, P0 comes to its output: no two parties wait for   *)
(* each other.                                                             *)
RunCompletes == <>(phase[P0] = "done" \/ Failed)

(* "session has been stopped": when a party aborts, all of them end.       *)
AbortStopsSession ==
  (\E p \in Parties : phase[p] = "aborted") ~> (\A p \in Parties : ~Alive(p))

=============================================================================
