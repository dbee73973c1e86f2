----------------------------- MODULE Session_proofs -----------------------------
(***************************************************************************)
(* The release of the result, proved for every set of other parties: a     *)
(* party gives its filter away, and P0 prints an intersection, only when   *)
(* the checks that it rests on were passed; and every message is read by   *)
(* the code that expects it, although messages have no tags.               *)
(***************************************************************************)
EXTENDS Session, SequenceTheorems, TLAPS

(* The states of the threads after they sent or took a message.            *)
SndPastC == {"recvR", "offlineDone", "recvF", "onlineDone", "gbfDone"}
SndPastR == SndPastC \ {"recvR"}
SndPastF == {"onlineDone", "gbfDone"}
RcvPastC == {"sendR", "offlineDone", "arrange", "sendF", "onlineDone", "recvG", "gbfDone"}
RcvPastR == RcvPastC \ {"sendR"}
RcvPastF == {"onlineDone", "recvG", "gbfDone"}

(* The threads of a party are those of its phase.                          *)
SndFitsPhase(l) ==
  /\ phase[OTSender(l)] = "offline" =>
       snd[l] \in {"ot", "connect", "sendC", "recvR", "offlineDone", "stuck"}
  /\ phase[OTSender(l)] = "online" => snd[l] \in {"recvF", "onlineDone", "stuck"}
  /\ phase[OTSender(l)] \in {"final", "done"} => snd[l] \in SndPastF
  /\ snd[l] = "gbfDone" => l[1] = "B"

RcvFitsPhase(l) ==
  /\ phase[OTReceiver(l)] = "offline" =>
       rcv[l] \in {"ot", "connect", "recvC", "sendR", "offlineDone", "stuck"}
  /\ phase[OTReceiver(l)] = "online" =>
       rcv[l] \in {"arrange", "sendF", "onlineDone", "stuck"}
  /\ phase[OTReceiver(l)] = "final" =>
       IF l[1] = "B" THEN rcv[l] \in {"recvG", "gbfDone", "stuck"} ELSE rcv[l] = "onlineDone"
  /\ phase[OTReceiver(l)] = "done" =>
       rcv[l] = IF l[1] = "B" THEN "gbfDone" ELSE "onlineDone"

(* A thread is stuck only when its peer's process is gone.                 *)
StuckOnlyAlone(l) == /\ Alive(OTSender(l)) => rcv[l] # "stuck"
                     /\ Alive(OTReceiver(l)) => snd[l] # "stuck"

(* What lies in a channel: the first message if it was sent and not read,  *)
(* then the second one.                                                    *)
Mail(first, x, second, y) ==
  IF first THEN IF second THEN <<x, y>> ELSE <<x>>
           ELSE IF second THEN <<y>> ELSE <<>>

(* A process that is there gets every message once, in the order in which  *)
(* the peer's thread sent them, and its thread is never ahead of them.     *)
MailToR(l) ==
  Alive(OTReceiver(l)) =>
    /\ rcv[l] \in RcvPastC => snd[l] \in SndPastC
    /\ rcv[l] = "gbfDone" => snd[l] = "gbfDone"
    /\ rcv[l] # "stuck" =>
         toR[l] = Mail(snd[l] \in SndPastC /\ rcv[l] \notin RcvPastC, "C",
                       snd[l] = "gbfDone" /\ rcv[l] # "gbfDone", "G")

MailToS(l) ==
  Alive(OTSender(l)) =>
    /\ snd[l] \in SndPastR => rcv[l] \in RcvPastR
    /\ snd[l] \in SndPastF => rcv[l] \in RcvPastF
    /\ snd[l] # "stuck" =>
         toS[l] = Mail(rcv[l] \in RcvPastR /\ snd[l] \notin SndPastR, "R",
                       rcv[l] \in RcvPastF /\ snd[l] \notin SndPastF, "F")

(* Party p passed its checks of the offline phase, on all its links.       *)
OfflineChecked(p) ==
  \A l \in Links : /\ OTSender(l) = p => <<l, "R">> \in passed
                   /\ OTReceiver(l) = p => <<l, "C">> \in passed

(* The checks that stand before the filter of party k.                     *)
AllChecked(k) == /\ {<<"A", k>>, <<"B", k>>} \X {"C", "R", "F"} \subseteq passed
                 /\ OfflineChecked(P0)

(* Which checks the place of a thread vouches for: its own, and through    *)
(* the messages it took also those of its peer.                            *)
Vouches(l) ==
  /\ rcv[l] \in RcvPastC => <<l, "C">> \in passed
  /\ snd[l] \in SndPastR => <<l, "R">> \in passed
  /\ rcv[l] \in RcvPastF \cup {"sendF"} => <<l, "F">> \in passed
  /\ rcv[l] \in RcvPastF => OfflineChecked(OTReceiver(l))
  /\ snd[l] \in SndPastF => <<l, "F">> \in passed /\ OfflineChecked(OTReceiver(l))
  /\ snd[l] = "gbfDone" \/ rcv[l] = "gbfDone" => AllChecked(l[2])

LinkInv(l) == /\ SndFitsPhase(l) /\ RcvFitsPhase(l) /\ StuckOnlyAlone(l)
              /\ MailToR(l) /\ MailToS(l) /\ Vouches(l)

PartyInv(p) == phase[p] \in {"online", "final", "done"} => OfflineChecked(p)

IInv == /\ TypeOK
        /\ \A l \in Links : LinkInv(l)
        /\ \A p \in Parties : PartyInv(p)
        /\ FilterOnlyAfterChecks
        /\ OutputOnlyAfterChecks
        /\ OrderlyClose

-----------------------------------------------------------------------------
LEMMA LinkFacts ==
  ASSUME NEW l \in Links
  PROVE  /\ l[1] \in {"A", "B"} /\ l[2] \in Pis /\ l = <<l[1], l[2]>>
         /\ OTSender(l) \in Parties /\ OTReceiver(l) \in Parties
         /\ OTSender(l) # OTReceiver(l)
  BY PartiesAssumption DEF Links, Parties, OTSender, OTReceiver

LEMMA PiLinks ==
  ASSUME NEW k \in Pis
  PROVE  /\ <<"A", k>> \in Links /\ OTSender(<<"A", k>>) = P0 /\ OTReceiver(<<"A", k>>) = k
         /\ <<"B", k>> \in Links /\ OTSender(<<"B", k>>) = k /\ OTReceiver(<<"B", k>>) = P0
         /\ k \in Parties /\ P0 \in Parties /\ k # P0
  BY PartiesAssumption DEF Links, Parties, OTSender, OTReceiver

(* The sequences that a channel can hold.                                  *)
LEMMA MailFacts ==
  ASSUME NEW x, NEW y
  PROVE  /\ Append(<<>>, x) = <<x>> /\ Append(<<x>>, y) = <<x, y>>
         /\ Tail(<<x>>) = <<>> /\ Tail(<<x, y>>) = <<y>>
         /\ Head(<<x>>) = x /\ Head(<<x, y>>) = x
         /\ <<x>> # <<>> /\ <<x, y>> # <<>>
<1>0. Append(<<>>, x) = <<x>>
  OBVIOUS
<1>1. Append(<<x>>, y) = <<x, y>>
  <2>1. <<x>> \in Seq({x, y}) /\ Len(<<x>>) = 1 /\ <<x>>[1] = x
    OBVIOUS
  <2>2. /\ Append(<<x>>, y) \in Seq({x, y}) /\ Len(Append(<<x>>, y)) = 2
        /\ Append(<<x>>, y)[1] = x /\ Append(<<x>>, y)[2] = y
    BY <2>1
  <2>3. <<x, y>> \in Seq({x, y}) /\ Len(<<x, y>>) = 2 /\ <<x, y>>[1] = x /\ <<x, y>>[2] = y
    OBVIOUS
  <2>4. \A i \in 1 .. Len(Append(<<x>>, y)) : Append(<<x>>, y)[i] = <<x, y>>[i]
    <3>1. \A i \in 1 .. Len(Append(<<x>>, y)) : i = 1 \/ i = 2
      BY <2>2
    <3>. QED  BY <2>2, <2>3, <3>1
  <2>. QED  BY <2>2, <2>3, <2>4, SeqEqual
<1>2. Tail(<<x>>) = <<>>
  OBVIOUS
<1>3. Tail(<<x, y>>) = <<y>>
  OBVIOUS
<1>4. Head(<<x>>) = x /\ Head(<<x, y>>) = x
  OBVIOUS
<1>5. <<x>> # <<>> /\ <<x, y>> # <<>>
  OBVIOUS
<1>. QED  BY <1>0, <1>1, <1>2, <1>3, <1>4, <1>5

(* What was checked stays checked.                                         *)
LEMMA CheckedStays ==
  ASSUME passed \subseteq passed', NEW p
  PROVE  /\ OfflineChecked(p) => OfflineChecked(p)'
         /\ AllChecked(p) => AllChecked(p)'
  BY DEF OfflineChecked, AllChecked

LEMMA InitIInv == Init => IInv
<1>. SUFFICES ASSUME Init PROVE IInv
  OBVIOUS
<1>. USE DEF Init
<1>1. TypeOK
  BY DEF TypeOK, Running
<1>2. ASSUME NEW l \in Links PROVE LinkInv(l)
  <2>1. /\ OTSender(l) \in Parties /\ OTReceiver(l) \in Parties
        /\ snd[l] = "ot" /\ rcv[l] = "ot" /\ toR[l] = <<>> /\ toS[l] = <<>>
        /\ phase[OTSender(l)] = "offline" /\ phase[OTReceiver(l)] = "offline"
    BY LinkFacts
  <2>. QED
    BY <2>1 DEF LinkInv, SndFitsPhase, RcvFitsPhase, StuckOnlyAlone, MailToR, MailToS, Mail, Vouches,
                SndPastC, SndPastR, SndPastF, RcvPastC, RcvPastR, RcvPastF
<1>3. \A p \in Parties : PartyInv(p)
  BY DEF PartyInv
<1>4. FilterOnlyAfterChecks /\ OutputOnlyAfterChecks /\ OrderlyClose
  BY PiLinks DEF FilterOnlyAfterChecks, OutputOnlyAfterChecks, OrderlyClose, Parties
<1>. QED  BY <1>1, <1>2, <1>3, <1>4 DEF IInv

(* A link on which nothing happens, while other threads act and processes  *)
(* end.                                                                    *)
LEMMA QuietLink ==
  ASSUME NEW l \in Links, LinkInv(l),
         snd'[l] = snd[l], rcv'[l] = rcv[l], toR'[l] = toR[l], toS'[l] = toS[l],
         passed \subseteq passed',
         \A p \in Parties : phase'[p] = phase[p] \/ phase'[p] \in {"aborted", "killed"}
  PROVE  LinkInv(l)'
<1>1. OTSender(l) \in Parties /\ OTReceiver(l) \in Parties /\ l[2] \in Pis
  BY LinkFacts
<1>2. SndFitsPhase(l)' /\ RcvFitsPhase(l)'
  BY <1>1 DEF LinkInv, SndFitsPhase, RcvFitsPhase
<1>3. \A p \in Parties : Alive(p)' => Alive(p)
  BY DEF Alive, Running
<1>4. StuckOnlyAlone(l)' /\ MailToR(l)' /\ MailToS(l)'
  BY <1>1, <1>3 DEF LinkInv, StuckOnlyAlone, MailToR, MailToS
<1>5. Vouches(l)'
  BY CheckedStays DEF LinkInv, Vouches
<1>. QED  BY <1>2, <1>4, <1>5 DEF LinkInv

(* A step on one link: what else the invariant says is kept.  A channel    *)
(* changes only at the end of a process that is there.                     *)
LEMMA StepOnLink ==
  ASSUME IInv, TypeOK', NEW l \in Links, LinkInv(l)',
         \A m \in Links \ {l} : /\ snd'[m] = snd[m] /\ rcv'[m] = rcv[m]
                                /\ toR'[m] = toR[m] /\ toS'[m] = toS[m],
         toR'[l] = toR[l] \/ Alive(OTReceiver(l)),
         toS'[l] = toS[l] \/ Alive(OTSender(l)),
         passed \subseteq passed',
         \A p \in Parties : phase'[p] = phase[p] \/ phase'[p] \in {"aborted", "killed"}
  PROVE  IInv'
<1>1. \A m \in Links : LinkInv(m)'
  BY QuietLink DEF IInv
<1>2. \A p \in Parties : PartyInv(p)'
  BY CheckedStays DEF IInv, PartyInv
<1>3. FilterOnlyAfterChecks'
  <2>. SUFFICES ASSUME NEW k \in Pis, phase'[k] \in {"final", "done"}
                PROVE  AllChecked(k)'
    BY DEF FilterOnlyAfterChecks, AllChecked, OfflineChecked
  <2>1. AllChecked(k)
    BY PiLinks DEF IInv, FilterOnlyAfterChecks, AllChecked, OfflineChecked
  <2>. QED  BY <2>1, CheckedStays
<1>4. OutputOnlyAfterChecks'
  <2>1. P0 \in Parties
    BY DEF Parties
  <2>. QED  BY <2>1 DEF IInv, TypeOK, OutputOnlyAfterChecks
<1>5. OrderlyClose'
  <2>. SUFFICES ASSUME NEW k \in Pis, phase'[k] = "done"
                PROVE  toR'[<<"A", k>>] = <<>> /\ toS'[<<"B", k>>] = <<>>
    BY DEF OrderlyClose
  <2>1. /\ phase[k] = "done" /\ ~Alive(k)
        /\ toR[<<"A", k>>] = <<>> /\ toS[<<"B", k>>] = <<>>
    BY PiLinks DEF IInv, OrderlyClose, Alive, Running
  <2>2. l = <<"A", k>> => toR'[l] = toR[l]
    BY <2>1, PiLinks
  <2>3. l = <<"B", k>> => toS'[l] = toS[l]
    BY <2>1, PiLinks
  <2>. QED  BY <2>1, <2>2, <2>3, PiLinks
<1>. QED  BY <1>1, <1>2, <1>3, <1>4, <1>5 DEF IInv

(* TwoChooseOne, or the connection of link B: both ends go on together.    *)
LEMMA MeetIInv ==
  ASSUME IInv, NEW l \in Links, RunOT(l) \/ Connect(l)
  PROVE  IInv'
<1>1. PICK t \in {<<"connect", "connect">>, <<"sendC", "recvC">>} :
        /\ snd' = [snd EXCEPT ![l] = t[1]]
        /\ rcv' = [rcv EXCEPT ![l] = t[2]]
  <2>1. CASE RunOT(l) /\ l[1] = "B"
    <3>. WITNESS <<"connect", "connect">> \in {<<"connect", "connect">>, <<"sendC", "recvC">>}
    <3>. QED  BY <2>1 DEF RunOT
  <2>2. CASE (RunOT(l) /\ l[1] # "B") \/ Connect(l)
    <3>. WITNESS <<"sendC", "recvC">> \in {<<"connect", "connect">>, <<"sendC", "recvC">>}
    <3>. QED  BY <2>2 DEF RunOT, Connect
  <2>. QED  BY <2>1, <2>2
<1>2. /\ Alive(OTSender(l)) /\ Alive(OTReceiver(l))
      /\ snd[l] \in {"ot", "connect"} /\ rcv[l] \in {"ot", "connect"}
      /\ UNCHANGED <<toR, toS, phase, passed>>
  BY DEF RunOT, Connect, Both
<1>3. /\ snd'[l] \in {"connect", "sendC"} /\ rcv'[l] \in {"connect", "recvC"}
      /\ \A m \in Links \ {l} : snd'[m] = snd[m] /\ rcv'[m] = rcv[m]
  BY <1>1 DEF IInv, TypeOK
<1>4. TypeOK'
  BY <1>1, <1>2 DEF IInv, TypeOK
<1>5. phase[OTSender(l)] = "offline" /\ phase[OTReceiver(l)] = "offline"
  BY <1>2 DEF IInv, LinkInv, SndFitsPhase, RcvFitsPhase, Alive, Running, SndPastF
<1>6. LinkInv(l)'
  <2>1. SndFitsPhase(l)' /\ RcvFitsPhase(l)' /\ StuckOnlyAlone(l)'
    BY <1>2, <1>3, <1>5 DEF SndFitsPhase, RcvFitsPhase, StuckOnlyAlone
  <2>2. MailToR(l)' /\ MailToS(l)'
    BY <1>2, <1>3 DEF IInv, LinkInv, MailToR, MailToS, Alive,
                      SndPastC, SndPastR, SndPastF, RcvPastC, RcvPastR, RcvPastF
  <2>3. Vouches(l)'
    BY <1>3 DEF Vouches, SndPastC, SndPastR, SndPastF, RcvPastC, RcvPastR, RcvPastF
  <2>. QED  BY <2>1, <2>2, <2>3 DEF LinkInv
<1>. QED  BY <1>2, <1>3, <1>4, <1>6, StepOnLink

-----------------------------------------------------------------------------
(* The OT sender's thread.                                                 *)
LEMMA SendCIInv ==
  ASSUME IInv, NEW l \in Links, SendC(l)
  PROVE  IInv'
<1>1. /\ Alive(OTSender(l)) /\ snd[l] = "sendC"
      /\ toR' = [toR EXCEPT ![l] = IF Alive(OTReceiver(l)) THEN Append(toR[l], "C") ELSE toR[l]]
      /\ snd' = [snd EXCEPT ![l] = "recvR"]
      /\ UNCHANGED <<rcv, toS, phase, passed>>
  BY DEF SendC, Put
<1>2. TypeOK'
  <2>1. toR[l] \in Seq({"C", "G"}) /\ Append(toR[l], "C") \in Seq({"C", "G"})
    BY DEF IInv, TypeOK
  <2>. QED  BY <1>1, <2>1 DEF IInv, TypeOK
<1>3. /\ snd'[l] = "recvR"
      /\ toR'[l] = IF Alive(OTReceiver(l)) THEN Append(toR[l], "C") ELSE toR[l]
      /\ \A m \in Links \ {l} : snd'[m] = snd[m] /\ toR'[m] = toR[m]
  BY <1>1 DEF IInv, TypeOK
<1>4. phase[OTSender(l)] = "offline"
  BY <1>1 DEF IInv, LinkInv, SndFitsPhase, Alive, Running, SndPastF
<1>5. LinkInv(l)'
  <2>1. SndFitsPhase(l)' /\ RcvFitsPhase(l)' /\ StuckOnlyAlone(l)'
    BY <1>1, <1>3, <1>4 DEF IInv, LinkInv, SndFitsPhase, RcvFitsPhase, StuckOnlyAlone, Alive
  <2>2. MailToR(l)'
    <3>. SUFFICES ASSUME Alive(OTReceiver(l))
                  PROVE  /\ rcv[l] \in RcvPastC => snd'[l] \in SndPastC
                         /\ rcv[l] = "gbfDone" => snd'[l] = "gbfDone"
                         /\ rcv[l] # "stuck" =>
                              toR'[l] = Mail(snd'[l] \in SndPastC /\ rcv[l] \notin RcvPastC, "C",
                                             snd'[l] = "gbfDone" /\ rcv[l] # "gbfDone", "G")
      BY <1>1 DEF MailToR, Alive
    <3>1. rcv[l] \notin RcvPastC /\ (rcv[l] # "stuck" => toR[l] = <<>>)
      BY <1>1 DEF IInv, LinkInv, MailToR, Mail, SndPastC
    <3>2. rcv[l] # "stuck" => toR'[l] = <<"C">>
      BY <1>3, <3>1, MailFacts
    <3>. QED  BY <1>3, <3>1, <3>2 DEF Mail, SndPastC, RcvPastC
  <2>3. MailToS(l)'
    BY <1>1, <1>3 DEF IInv, LinkInv, MailToS, Alive, SndPastC, SndPastR, SndPastF
  <2>4. Vouches(l)'
    BY <1>1, <1>3, CheckedStays DEF IInv, LinkInv, Vouches, SndPastC, SndPastR, SndPastF
  <2>. QED  BY <2>1, <2>2, <2>3, <2>4 DEF LinkInv
<1>. QED  BY <1>1, <1>2, <1>3, <1>5, StepOnLink

LEMMA RecvRIInv ==
  ASSUME IInv, NEW l \in Links, RecvR(l)
  PROVE  IInv'
<1>1. /\ Alive(OTSender(l)) /\ snd[l] = "recvR" /\ toS[l] # <<>>
      /\ toS' = [toS EXCEPT ![l] = Tail(toS[l])]
      /\ UNCHANGED <<rcv, toR>>
  BY DEF RecvR
<1>2. toS[l] \in Seq({"R", "F"}) /\ Tail(toS[l]) \in Seq({"R", "F"})
  BY <1>1 DEF IInv, TypeOK
<1>3. toS'[l] = Tail(toS[l]) /\ \A m \in Links \ {l} : toS'[m] = toS[m]
  BY <1>1 DEF IInv, TypeOK
<1>4. CASE phase' = [phase EXCEPT ![OTSender(l)] = "aborted"] /\ UNCHANGED <<snd, passed>>
  <2>1. TypeOK'
    BY <1>1, <1>2, <1>4 DEF IInv, TypeOK
  <2>2. /\ phase'[OTSender(l)] = "aborted" /\ ~Alive(OTSender(l))'
        /\ \A p \in Parties : phase'[p] = phase[p] \/ phase'[p] \in {"aborted", "killed"}
    BY <1>4, LinkFacts DEF IInv, TypeOK, Alive, Running
  <2>3. phase'[OTReceiver(l)] = phase[OTReceiver(l)]
    BY <1>4, LinkFacts DEF IInv, TypeOK
  <2>4. LinkInv(l)'
    <3>1. SndFitsPhase(l)' /\ RcvFitsPhase(l)' /\ StuckOnlyAlone(l)' /\ MailToS(l)'
      BY <1>1, <1>4, <2>2, <2>3 DEF IInv, LinkInv, SndFitsPhase, RcvFitsPhase, StuckOnlyAlone,
                                    MailToS, Alive
    <3>2. MailToR(l)' /\ Vouches(l)'
      BY <1>1, <1>4, <2>3, CheckedStays DEF IInv, LinkInv, MailToR, Alive, Vouches
    <3>. QED  BY <3>1, <3>2 DEF LinkInv
  <2>. QED  BY <1>1, <1>3, <1>4, <2>1, <2>2, <2>4, StepOnLink
<1>5. CASE /\ snd' = [snd EXCEPT ![l] = "offlineDone"]
           /\ passed' = passed \cup {<<l, "R">>}
           /\ UNCHANGED phase
  <2>1. TypeOK'
    BY <1>1, <1>2, <1>5 DEF IInv, TypeOK
  <2>2. snd'[l] = "offlineDone" /\ \A m \in Links \ {l} : snd'[m] = snd[m]
    BY <1>5 DEF IInv, TypeOK
  <2>3. phase[OTSender(l)] = "offline"
    BY <1>1 DEF IInv, LinkInv, SndFitsPhase, Alive, Running, SndPastF
  <2>4. LinkInv(l)'
    <3>1. SndFitsPhase(l)' /\ RcvFitsPhase(l)' /\ StuckOnlyAlone(l)'
      BY <1>1, <1>5, <2>2, <2>3 DEF IInv, LinkInv, SndFitsPhase, RcvFitsPhase, StuckOnlyAlone, Alive
    <3>2. MailToR(l)'
      BY <1>1, <1>5, <2>2 DEF IInv, LinkInv, MailToR, Alive, SndPastC
    <3>3. MailToS(l)'
      <4>1. rcv[l] \in RcvPastR
        BY <1>1 DEF IInv, LinkInv, MailToS, Mail, RcvPastC, RcvPastR, RcvPastF
      <4>2. toS[l] = IF rcv[l] \in RcvPastF THEN <<"R", "F">> ELSE <<"R">>
        BY <1>1, <4>1 DEF IInv, LinkInv, MailToS, Mail, SndPastC, SndPastR, SndPastF
      <4>3. toS'[l] = IF rcv[l] \in RcvPastF THEN <<"F">> ELSE <<>>
        BY <1>3, <4>2, MailFacts
      <4>. QED  BY <1>1, <1>5, <2>2, <4>1, <4>3 DEF MailToS, Mail, SndPastC, SndPastR, SndPastF
    <3>4. Vouches(l)'
      BY <1>1, <1>5, <2>2, CheckedStays DEF IInv, LinkInv, Vouches, SndPastC, SndPastR, SndPastF
    <3>. QED  BY <3>1, <3>2, <3>3, <3>4 DEF LinkInv
  <2>. QED  BY <1>1, <1>3, <1>5, <2>1, <2>2, <2>4, StepOnLink
<1>. QED  BY <1>4, <1>5 DEF RecvR, End

(* What recv_func takes vouches for arrange_the_indexes and for the        *)
(* offline phase of the peer.                                              *)
LEMMA RecvFIInv ==
  ASSUME IInv, NEW l \in Links, RecvF(l)
  PROVE  IInv'
<1>1. /\ Alive(OTSender(l)) /\ snd[l] = "recvF" /\ toS[l] # <<>>
      /\ toS' = [toS EXCEPT ![l] = Tail(toS[l])]
      /\ snd' = [snd EXCEPT ![l] = "onlineDone"]
      /\ UNCHANGED <<rcv, toR, phase, passed>>
  BY DEF RecvF
<1>2. toS[l] \in Seq({"R", "F"}) /\ Tail(toS[l]) \in Seq({"R", "F"})
  BY <1>1 DEF IInv, TypeOK
<1>3. /\ toS'[l] = Tail(toS[l]) /\ snd'[l] = "onlineDone"
      /\ \A m \in Links \ {l} : toS'[m] = toS[m] /\ snd'[m] = snd[m]
  BY <1>1 DEF IInv, TypeOK
<1>4. TypeOK'
  BY <1>1, <1>2 DEF IInv, TypeOK
<1>5. rcv[l] \in RcvPastR /\ rcv[l] \in RcvPastF /\ toS[l] = <<"F">>
  BY <1>1 DEF IInv, LinkInv, MailToS, Mail, SndPastC, SndPastR, SndPastF
<1>6. phase[OTSender(l)] = "online"
  BY <1>1 DEF IInv, LinkInv, SndFitsPhase, Alive, Running, SndPastF
<1>7. LinkInv(l)'
  <2>1. SndFitsPhase(l)' /\ RcvFitsPhase(l)' /\ StuckOnlyAlone(l)'
    BY <1>1, <1>3, <1>6 DEF IInv, LinkInv, SndFitsPhase, RcvFitsPhase, StuckOnlyAlone, Alive, SndPastF
  <2>2. MailToR(l)'
    BY <1>1, <1>3 DEF IInv, LinkInv, MailToR, Alive, SndPastC
  <2>3. MailToS(l)'
    <3>1. toS'[l] = <<>>
      BY <1>3, <1>5, MailFacts
    <3>. QED  BY <1>1, <1>3, <1>5, <3>1 DEF MailToS, Mail, SndPastC, SndPastR, SndPastF
  <2>4. Vouches(l)'
    BY <1>1, <1>3, <1>5, CheckedStays DEF IInv, LinkInv, Vouches, SndPastC, SndPastR, SndPastF
  <2>. QED  BY <2>1, <2>2, <2>3, <2>4 DEF LinkInv
<1>. QED  BY <1>1, <1>3, <1>4, <1>7, StepOnLink

-----------------------------------------------------------------------------
(* The OT receiver's thread.                                               *)
LEMMA RecvCIInv ==
  ASSUME IInv, NEW l \in Links, RecvC(l)
  PROVE  IInv'
<1>1. /\ Alive(OTReceiver(l)) /\ rcv[l] = "recvC" /\ toR[l] # <<>>
      /\ toR' = [toR EXCEPT ![l] = Tail(toR[l])]
      /\ UNCHANGED <<snd, toS>>
  BY DEF RecvC
<1>2. toR[l] \in Seq({"C", "G"}) /\ Tail(toR[l]) \in Seq({"C", "G"})
  BY <1>1 DEF IInv, TypeOK
<1>3. toR'[l] = Tail(toR[l]) /\ \A m \in Links \ {l} : toR'[m] = toR[m]
  BY <1>1 DEF IInv, TypeOK
<1>4. CASE phase' = [phase EXCEPT ![OTReceiver(l)] = "aborted"] /\ UNCHANGED <<rcv, passed>>
  <2>1. TypeOK'
    BY <1>1, <1>2, <1>4 DEF IInv, TypeOK
  <2>2. /\ phase'[OTReceiver(l)] = "aborted" /\ ~Alive(OTReceiver(l))'
        /\ \A p \in Parties : phase'[p] = phase[p] \/ phase'[p] \in {"aborted", "killed"}
    BY <1>4, LinkFacts DEF IInv, TypeOK, Alive, Running
  <2>3. phase'[OTSender(l)] = phase[OTSender(l)]
    BY <1>4, LinkFacts DEF IInv, TypeOK
  <2>4. LinkInv(l)'
    <3>1. SndFitsPhase(l)' /\ RcvFitsPhase(l)' /\ StuckOnlyAlone(l)' /\ MailToR(l)'
      BY <1>1, <1>4, <2>2, <2>3 DEF IInv, LinkInv, SndFitsPhase, RcvFitsPhase, StuckOnlyAlone,
                                    MailToR, Alive
    <3>2. MailToS(l)' /\ Vouches(l)'
      BY <1>1, <1>4, <2>3, CheckedStays DEF IInv, LinkInv, MailToS, Alive, Vouches
    <3>. QED  BY <3>1, <3>2 DEF LinkInv
  <2>. QED  BY <1>1, <1>3, <1>4, <2>1, <2>2, <2>4, StepOnLink
<1>5. CASE /\ rcv' = [rcv EXCEPT ![l] = "sendR"]
           /\ passed' = passed \cup {<<l, "C">>}
           /\ UNCHANGED phase
  <2>1. TypeOK'
    BY <1>1, <1>2, <1>5 DEF IInv, TypeOK
  <2>2. rcv'[l] = "sendR" /\ \A m \in Links \ {l} : rcv'[m] = rcv[m]
    BY <1>5 DEF IInv, TypeOK
  <2>3. phase[OTReceiver(l)] = "offline"
    BY <1>1 DEF IInv, LinkInv, RcvFitsPhase, Alive, Running
  <2>4. LinkInv(l)'
    <3>1. SndFitsPhase(l)' /\ RcvFitsPhase(l)' /\ StuckOnlyAlone(l)'
      BY <1>1, <1>5, <2>2, <2>3 DEF IInv, LinkInv, SndFitsPhase, RcvFitsPhase, StuckOnlyAlone, Alive
    <3>2. MailToS(l)'
      BY <1>1, <1>5, <2>2 DEF IInv, LinkInv, MailToS, Alive, RcvPastC, RcvPastR, RcvPastF
    <3>3. MailToR(l)'
      <4>1. snd[l] \in SndPastC
        BY <1>1 DEF IInv, LinkInv, MailToR, Mail, SndPastC
      <4>2. toR[l] = IF snd[l] = "gbfDone" THEN <<"C", "G">> ELSE <<"C">>
        BY <1>1, <4>1 DEF IInv, LinkInv, MailToR, Mail, RcvPastC
      <4>3. toR'[l] = IF snd[l] = "gbfDone" THEN <<"G">> ELSE <<>>
        BY <1>3, <4>2, MailFacts
      <4>. QED  BY <1>1, <1>5, <2>2, <4>1, <4>3 DEF MailToR, Mail, RcvPastC
    <3>4. Vouches(l)'
      BY <1>1, <1>5, <2>2, CheckedStays DEF IInv, LinkInv, Vouches, RcvPastC, RcvPastF
    <3>. QED  BY <3>1, <3>2, <3>3, <3>4 DEF LinkInv
  <2>. QED  BY <1>1, <1>3, <1>5, <2>1, <2>2, <2>4, StepOnLink
<1>. QED  BY <1>4, <1>5 DEF RecvC, End

LEMMA SendRIInv ==
  ASSUME IInv, NEW l \in Links, SendR(l)
  PROVE  IInv'
<1>1. /\ Alive(OTReceiver(l)) /\ rcv[l] = "sendR"
      /\ toS' = [toS EXCEPT ![l] = IF Alive(OTSender(l)) THEN Append(toS[l], "R") ELSE toS[l]]
      /\ rcv' = [rcv EXCEPT ![l] = "offlineDone"]
      /\ UNCHANGED <<snd, toR, phase, passed>>
  BY DEF SendR, Put
<1>2. TypeOK'
  <2>1. toS[l] \in Seq({"R", "F"}) /\ Append(toS[l], "R") \in Seq({"R", "F"})
    BY DEF IInv, TypeOK
  <2>. QED  BY <1>1, <2>1 DEF IInv, TypeOK
<1>3. /\ rcv'[l] = "offlineDone"
      /\ toS'[l] = IF Alive(OTSender(l)) THEN Append(toS[l], "R") ELSE toS[l]
      /\ \A m \in Links \ {l} : rcv'[m] = rcv[m] /\ toS'[m] = toS[m]
  BY <1>1 DEF IInv, TypeOK
<1>4. phase[OTReceiver(l)] = "offline"
  BY <1>1 DEF IInv, LinkInv, RcvFitsPhase, Alive, Running
<1>5. LinkInv(l)'
  <2>1. SndFitsPhase(l)' /\ RcvFitsPhase(l)' /\ StuckOnlyAlone(l)'
    BY <1>1, <1>3, <1>4 DEF IInv, LinkInv, SndFitsPhase, RcvFitsPhase, StuckOnlyAlone, Alive
  <2>2. MailToS(l)'
    <3>. SUFFICES ASSUME Alive(OTSender(l))
                  PROVE  /\ snd[l] \in SndPastR => rcv'[l] \in RcvPastR
                         /\ snd[l] \in SndPastF => rcv'[l] \in RcvPastF
                         /\ snd[l] # "stuck" =>
                              toS'[l] = Mail(rcv'[l] \in RcvPastR /\ snd[l] \notin SndPastR, "R",
                                             rcv'[l] \in RcvPastF /\ snd[l] \notin SndPastF, "F")
      BY <1>1 DEF MailToS, Alive
    <3>1. /\ snd[l] \notin SndPastR /\ snd[l] \notin SndPastF
          /\ snd[l] # "stuck" => toS[l] = <<>>
      BY <1>1 DEF IInv, LinkInv, MailToS, Mail, RcvPastR, RcvPastF
    <3>2. snd[l] # "stuck" => toS'[l] = <<"R">>
      BY <1>3, <3>1, MailFacts
    <3>. QED  BY <1>3, <3>1, <3>2 DEF Mail, RcvPastC, RcvPastR, RcvPastF
  <2>3. MailToR(l)'
    BY <1>1, <1>3 DEF IInv, LinkInv, MailToR, Alive, RcvPastC
  <2>4. Vouches(l)'
    BY <1>1, <1>3, CheckedStays DEF IInv, LinkInv, Vouches, RcvPastC, RcvPastF
  <2>. QED  BY <2>1, <2>2, <2>3, <2>4 DEF LinkInv
<1>. QED  BY <1>1, <1>2, <1>3, <1>5, StepOnLink

LEMMA ArrangeIInv ==
  ASSUME IInv, NEW l \in Links, Arrange(l)
  PROVE  IInv'
<1>1. /\ Alive(OTReceiver(l)) /\ rcv[l] = "arrange"
      /\ UNCHANGED <<snd, toR, toS>>
  BY DEF Arrange
<1>2. CASE phase' = [phase EXCEPT ![OTReceiver(l)] = "aborted"] /\ UNCHANGED <<rcv, passed>>
  <2>1. TypeOK'
    BY <1>1, <1>2 DEF IInv, TypeOK
  <2>2. \A p \in Parties : phase'[p] = phase[p] \/ phase'[p] \in {"aborted", "killed"}
    BY <1>2 DEF IInv, TypeOK
  <2>3. LinkInv(l)'
    BY <1>1, <1>2, <2>2, QuietLink DEF IInv
  <2>. QED  BY <1>1, <1>2, <2>1, <2>2, <2>3, StepOnLink
<1>3. CASE /\ rcv' = [rcv EXCEPT ![l] = "sendF"]
           /\ passed' = passed \cup {<<l, "F">>}
           /\ UNCHANGED phase
  <2>1. TypeOK'
    BY <1>1, <1>3 DEF IInv, TypeOK
  <2>2. rcv'[l] = "sendF" /\ \A m \in Links \ {l} : rcv'[m] = rcv[m]
    BY <1>3 DEF IInv, TypeOK
  <2>3. phase[OTReceiver(l)] = "online"
    BY <1>1 DEF IInv, LinkInv, RcvFitsPhase, Alive, Running
  <2>4. LinkInv(l)'
    <3>1. SndFitsPhase(l)' /\ RcvFitsPhase(l)' /\ StuckOnlyAlone(l)'
      BY <1>1, <1>3, <2>2, <2>3 DEF IInv, LinkInv, SndFitsPhase, RcvFitsPhase, StuckOnlyAlone, Alive
    <3>2. MailToS(l)' /\ MailToR(l)'
      BY <1>1, <1>3, <2>2 DEF IInv, LinkInv, MailToS, MailToR, Alive, RcvPastC, RcvPastR, RcvPastF
    <3>3. Vouches(l)'
      BY <1>1, <1>3, <2>2, CheckedStays DEF IInv, LinkInv, Vouches, RcvPastC, RcvPastF
    <3>. QED  BY <3>1, <3>2, <3>3 DEF LinkInv
  <2>. QED  BY <1>1, <1>3, <2>1, <2>2, <2>4, StepOnLink
<1>. QED  BY <1>2, <1>3 DEF Arrange, End

(* The function is sent from the online phase, which main starts after the *)
(* checks of the offline phase on all links.                               *)
LEMMA SendFIInv ==
  ASSUME IInv, NEW l \in Links, SendF(l)
  PROVE  IInv'
<1>1. /\ Alive(OTReceiver(l)) /\ rcv[l] = "sendF"
      /\ toS' = [toS EXCEPT ![l] = IF Alive(OTSender(l)) THEN Append(toS[l], "F") ELSE toS[l]]
      /\ rcv' = [rcv EXCEPT ![l] = "onlineDone"]
      /\ UNCHANGED <<snd, toR, phase, passed>>
  BY DEF SendF, Put
<1>2. TypeOK'
  <2>1. toS[l] \in Seq({"R", "F"}) /\ Append(toS[l], "F") \in Seq({"R", "F"})
    BY DEF IInv, TypeOK
  <2>. QED  BY <1>1, <2>1 DEF IInv, TypeOK
<1>3. /\ rcv'[l] = "onlineDone"
      /\ toS'[l] = IF Alive(OTSender(l)) THEN Append(toS[l], "F") ELSE toS[l]
      /\ \A m \in Links \ {l} : rcv'[m] = rcv[m] /\ toS'[m] = toS[m]
  BY <1>1 DEF IInv, TypeOK
<1>4. phase[OTReceiver(l)] = "online"
  BY <1>1 DEF IInv, LinkInv, RcvFitsPhase, Alive, Running
<1>5. OfflineChecked(OTReceiver(l))
  BY <1>4, LinkFacts DEF IInv, PartyInv
<1>6. LinkInv(l)'
  <2>1. SndFitsPhase(l)' /\ RcvFitsPhase(l)' /\ StuckOnlyAlone(l)'
    BY <1>1, <1>3, <1>4 DEF IInv, LinkInv, SndFitsPhase, RcvFitsPhase, StuckOnlyAlone, Alive
  <2>2. MailToS(l)'
    <3>. SUFFICES ASSUME Alive(OTSender(l))
                  PROVE  /\ snd[l] \in SndPastR => rcv'[l] \in RcvPastR
                         /\ snd[l] \in SndPastF => rcv'[l] \in RcvPastF
                         /\ snd[l] # "stuck" =>
                              toS'[l] = Mail(rcv'[l] \in RcvPastR /\ snd[l] \notin SndPastR, "R",
                                             rcv'[l] \in RcvPastF /\ snd[l] \notin SndPastF, "F")
      BY <1>1 DEF MailToS, Alive
    <3>1. /\ snd[l] \notin SndPastF
          /\ snd[l] # "stuck" => toS[l] = IF snd[l] \in SndPastR THEN <<>> ELSE <<"R">>
      BY <1>1 DEF IInv, LinkInv, MailToS, Mail, RcvPastC, RcvPastR, RcvPastF
    <3>2. snd[l] # "stuck" => toS'[l] = IF snd[l] \in SndPastR THEN <<"F">> ELSE <<"R", "F">>
      BY <1>3, <3>1, MailFacts
    <3>. QED  BY <1>3, <3>1, <3>2 DEF Mail, RcvPastC, RcvPastR, RcvPastF
  <2>3. MailToR(l)'
    BY <1>1, <1>3 DEF IInv, LinkInv, MailToR, Alive, RcvPastC
  <2>4. Vouches(l)'
    BY <1>1, <1>3, <1>5, CheckedStays DEF IInv, LinkInv, Vouches, RcvPastC, RcvPastF
  <2>. QED  BY <2>1, <2>2, <2>3, <2>4 DEF LinkInv
<1>. QED  BY <1>1, <1>2, <1>3, <1>6, StepOnLink

LEMMA RecvGIInv ==
  ASSUME IInv, NEW l \in Links, RecvG(l)
  PROVE  IInv'
<1>1. /\ Alive(OTReceiver(l)) /\ rcv[l] = "recvG" /\ toR[l] # <<>>
      /\ toR' = [toR EXCEPT ![l] = Tail(toR[l])]
      /\ rcv' = [rcv EXCEPT ![l] = "gbfDone"]
      /\ UNCHANGED <<snd, toS, phase, passed>>
  BY DEF RecvG
<1>2. toR[l] \in Seq({"C", "G"}) /\ Tail(toR[l]) \in Seq({"C", "G"})
  BY <1>1 DEF IInv, TypeOK
<1>3. /\ toR'[l] = Tail(toR[l]) /\ rcv'[l] = "gbfDone"
      /\ \A m \in Links \ {l} : toR'[m] = toR[m] /\ rcv'[m] = rcv[m]
  BY <1>1 DEF IInv, TypeOK
<1>4. TypeOK'
  BY <1>1, <1>2 DEF IInv, TypeOK
<1>5. snd[l] = "gbfDone" /\ toR[l] = <<"G">> /\ l[1] = "B"
  BY <1>1 DEF IInv, LinkInv, MailToR, Mail, RcvPastC, SndFitsPhase
<1>6. phase[OTReceiver(l)] = "final"
  BY <1>1 DEF IInv, LinkInv, RcvFitsPhase, Alive, Running
<1>7. LinkInv(l)'
  <2>1. SndFitsPhase(l)' /\ RcvFitsPhase(l)' /\ StuckOnlyAlone(l)'
    BY <1>1, <1>3, <1>5, <1>6 DEF IInv, LinkInv, SndFitsPhase, RcvFitsPhase, StuckOnlyAlone, Alive
  <2>2. MailToS(l)'
    BY <1>1, <1>3 DEF IInv, LinkInv, MailToS, Alive, RcvPastC, RcvPastR, RcvPastF
  <2>3. MailToR(l)'
    <3>1. toR'[l] = <<>>
      BY <1>3, <1>5, MailFacts
    <3>. QED  BY <1>1, <1>3, <1>5, <3>1 DEF MailToR, Mail, SndPastC, RcvPastC
  <2>4. Vouches(l)'
    BY <1>1, <1>3, <1>5, CheckedStays DEF IInv, LinkInv, Vouches, RcvPastC, RcvPastF
  <2>. QED  BY <2>1, <2>2, <2>3, <2>4 DEF LinkInv
<1>. QED  BY <1>1, <1>3, <1>4, <1>7, StepOnLink

-----------------------------------------------------------------------------
(* A peer that is gone: the thread vouches for nothing more.               *)
LEMMA StuckIInv ==
  ASSUME IInv, NEW l \in Links, StuckSnd(l) \/ StuckRcv(l)
  PROVE  IInv'
<1>1. CASE StuckSnd(l)
  <2>1. /\ Alive(OTSender(l)) /\ ~Alive(OTReceiver(l))
        /\ snd[l] \in {"ot", "connect", "recvR", "recvF"}
        /\ snd' = [snd EXCEPT ![l] = "stuck"]
        /\ UNCHANGED <<rcv, toR, toS, phase, passed>>
    BY <1>1 DEF StuckSnd
  <2>2. TypeOK'
    BY <2>1 DEF IInv, TypeOK
  <2>3. snd'[l] = "stuck" /\ \A m \in Links \ {l} : snd'[m] = snd[m]
    BY <2>1 DEF IInv, TypeOK
  <2>4. LinkInv(l)'
    <3>1. SndFitsPhase(l)' /\ RcvFitsPhase(l)' /\ StuckOnlyAlone(l)' /\ MailToR(l)'
      BY <2>1, <2>3 DEF IInv, LinkInv, SndFitsPhase, RcvFitsPhase, StuckOnlyAlone, MailToR,
                        Alive, Running, SndPastF
    <3>2. MailToS(l)' /\ Vouches(l)'
      BY <2>1, <2>3, CheckedStays DEF IInv, LinkInv, MailToS, Vouches, Alive,
                                      SndPastC, SndPastR, SndPastF
    <3>. QED  BY <3>1, <3>2 DEF LinkInv
  <2>. QED  BY <2>1, <2>2, <2>3, <2>4, StepOnLink
<1>2. CASE StuckRcv(l)
  <2>1. /\ Alive(OTReceiver(l)) /\ ~Alive(OTSender(l))
        /\ rcv[l] \in {"ot", "connect", "recvC", "recvG"}
        /\ rcv' = [rcv EXCEPT ![l] = "stuck"]
        /\ UNCHANGED <<snd, toR, toS, phase, passed>>
    BY <1>2 DEF StuckRcv
  <2>2. TypeOK'
    BY <2>1 DEF IInv, TypeOK
  <2>3. rcv'[l] = "stuck" /\ \A m \in Links \ {l} : rcv'[m] = rcv[m]
    BY <2>1 DEF IInv, TypeOK
  <2>4. LinkInv(l)'
    <3>1. SndFitsPhase(l)' /\ RcvFitsPhase(l)' /\ StuckOnlyAlone(l)' /\ MailToS(l)'
      BY <2>1, <2>3 DEF IInv, LinkInv, SndFitsPhase, RcvFitsPhase, StuckOnlyAlone, MailToS,
                        Alive, Running
    <3>2. MailToR(l)' /\ Vouches(l)'
      BY <2>1, <2>3, CheckedStays DEF IInv, LinkInv, MailToR, Vouches, Alive, RcvPastC, RcvPastF
    <3>. QED  BY <3>1, <3>2 DEF LinkInv
  <2>. QED  BY <2>1, <2>2, <2>3, <2>4, StepOnLink
<1>. QED  BY <1>1, <1>2

LEMMA SigPipeIInv ==
  ASSUME IInv, NEW l \in Links, SigPipe(l)
  PROVE  IInv'
<1>1. PICK p \in Parties : phase' = [phase EXCEPT ![p] = "killed"]
  BY LinkFacts DEF SigPipe, End
<1>2. UNCHANGED <<snd, rcv, toR, toS, passed>>
  BY DEF SigPipe
<1>3. TypeOK' /\ \A r \in Parties : phase'[r] = phase[r] \/ phase'[r] \in {"aborted", "killed"}
  BY <1>1, <1>2 DEF IInv, TypeOK
<1>4. LinkInv(l)'
  BY <1>2, <1>3, QuietLink DEF IInv
<1>. QED  BY <1>2, <1>3, <1>4, StepOnLink

(* comulative_gbf_pi: a party in its final phase has been vouched for.     *)
LEMMA SendGIInv ==
  ASSUME IInv, NEW k \in Pis, SendG(k)
  PROVE  IInv'
<1>. DEFINE l == <<"B", k>>
<1>1. /\ phase[k] = "final" /\ snd[l] # "gbfDone"
      /\ toR' = [toR EXCEPT ![l] = IF Alive(P0) THEN Append(toR[l], "G") ELSE toR[l]]
      /\ snd' = [snd EXCEPT ![l] = "gbfDone"]
      /\ UNCHANGED <<rcv, toS, phase, passed>>
  BY DEF SendG, Put
<1>2. /\ l \in Links /\ OTSender(l) = k /\ OTReceiver(l) = P0 /\ k \in Parties
      /\ l[1] = "B" /\ l[2] = k
  BY PiLinks
<1>. HIDE DEF l
<1>3. snd[l] = "onlineDone" /\ Alive(OTSender(l))
  BY <1>1, <1>2 DEF IInv, LinkInv, SndFitsPhase, SndPastF, Alive, Running
<1>4. AllChecked(k)
  BY <1>1, PiLinks DEF IInv, FilterOnlyAfterChecks, AllChecked, OfflineChecked
<1>5. TypeOK'
  <2>1. toR[l] \in Seq({"C", "G"}) /\ Append(toR[l], "G") \in Seq({"C", "G"})
    BY <1>2 DEF IInv, TypeOK
  <2>. QED  BY <1>1, <1>2, <2>1 DEF IInv, TypeOK
<1>6. /\ snd'[l] = "gbfDone"
      /\ toR'[l] = IF Alive(OTReceiver(l)) THEN Append(toR[l], "G") ELSE toR[l]
      /\ \A m \in Links \ {l} : snd'[m] = snd[m] /\ toR'[m] = toR[m]
  BY <1>1, <1>2 DEF IInv, TypeOK
<1>7. LinkInv(l)'
  <2>1. SndFitsPhase(l)' /\ RcvFitsPhase(l)' /\ StuckOnlyAlone(l)'
    BY <1>1, <1>2, <1>6 DEF IInv, LinkInv, SndFitsPhase, RcvFitsPhase, StuckOnlyAlone, Alive, SndPastF
  <2>2. MailToR(l)'
    <3>. SUFFICES ASSUME Alive(OTReceiver(l))
                  PROVE  /\ rcv[l] \in RcvPastC => snd'[l] \in SndPastC
                         /\ rcv[l] = "gbfDone" => snd'[l] = "gbfDone"
                         /\ rcv[l] # "stuck" =>
                              toR'[l] = Mail(snd'[l] \in SndPastC /\ rcv[l] \notin RcvPastC, "C",
                                             snd'[l] = "gbfDone" /\ rcv[l] # "gbfDone", "G")
      BY <1>1, <1>2 DEF MailToR, Alive
    <3>1. /\ rcv[l] # "gbfDone"
          /\ rcv[l] # "stuck" => toR[l] = IF rcv[l] \in RcvPastC THEN <<>> ELSE <<"C">>
      BY <1>2, <1>3 DEF IInv, LinkInv, MailToR, Mail, SndPastC, RcvPastC
    <3>2. rcv[l] # "stuck" => toR'[l] = IF rcv[l] \in RcvPastC THEN <<"G">> ELSE <<"C", "G">>
      BY <1>6, <3>1, MailFacts
    <3>. QED  BY <1>6, <3>1, <3>2 DEF Mail, SndPastC
  <2>3. MailToS(l)'
    BY <1>1, <1>2, <1>3, <1>6 DEF IInv, LinkInv, MailToS, Alive, SndPastC, SndPastR, SndPastF
  <2>4. Vouches(l)'
    BY <1>1, <1>2, <1>3, <1>4, <1>6, CheckedStays DEF IInv, LinkInv, Vouches,
                                                  SndPastC, SndPastR, SndPastF
  <2>. QED  BY <2>1, <2>2, <2>3, <2>4 DEF LinkInv
<1>8. Alive(OTReceiver(l)) \/ toR'[l] = toR[l]
  BY <1>6
<1>. QED  BY <1>1, <1>2, <1>5, <1>6, <1>7, <1>8, StepOnLink

-----------------------------------------------------------------------------
(* The main threads.  A step from one phase to the next moves all threads  *)
(* of a party at once and takes or sends nothing.                          *)
LEMMA JoinOfflineIInv ==
  ASSUME IInv, NEW p \in Parties, JoinOffline(p)
  PROVE  IInv'
<1>1. /\ phase[p] = "offline"
      /\ phase' = [phase EXCEPT ![p] = "online"]
      /\ snd' = [l \in Links |-> IF OTSender(l) = p THEN "recvF" ELSE snd[l]]
      /\ rcv' = [l \in Links |-> IF OTReceiver(l) = p THEN "arrange" ELSE rcv[l]]
      /\ \A l \in Links : /\ OTSender(l) = p => snd[l] = "offlineDone"
                          /\ OTReceiver(l) = p => rcv[l] = "offlineDone"
      /\ UNCHANGED <<toR, toS, passed>>
  BY DEF JoinOffline, AllAt, SndOf, RcvOf
<1>2. TypeOK'
  BY <1>1 DEF IInv, TypeOK, Running
<1>3. /\ phase'[p] = "online" /\ \A r \in Parties \ {p} : phase'[r] = phase[r]
      /\ \A r \in Parties : Alive(r)' <=> Alive(r)
  BY <1>1 DEF IInv, TypeOK, Alive, Running
<1>4. OfflineChecked(p)
  BY <1>1 DEF IInv, LinkInv, Vouches, OfflineChecked, SndPastC, SndPastR, RcvPastC
<1>5. ASSUME NEW l \in Links PROVE LinkInv(l)'
  <2>1. OTSender(l) \in Parties /\ OTReceiver(l) \in Parties /\ OTSender(l) # OTReceiver(l)
    BY LinkFacts
  <2>2. LinkInv(l)
    BY DEF IInv
  <2>3. /\ snd'[l] = IF OTSender(l) = p THEN "recvF" ELSE snd[l]
        /\ rcv'[l] = IF OTReceiver(l) = p THEN "arrange" ELSE rcv[l]
        /\ OTSender(l) = p => snd[l] = "offlineDone"
        /\ OTReceiver(l) = p => rcv[l] = "offlineDone"
    BY <1>1
  <2>4. /\ snd'[l] \in SndPastC <=> snd[l] \in SndPastC
        /\ snd'[l] \in SndPastR <=> snd[l] \in SndPastR
        /\ snd'[l] \in SndPastF <=> snd[l] \in SndPastF
        /\ snd'[l] = "gbfDone" <=> snd[l] = "gbfDone"
        /\ snd'[l] = "stuck" <=> snd[l] = "stuck"
    BY <2>3 DEF SndPastC, SndPastR, SndPastF
  <2>5. /\ rcv'[l] \in RcvPastC <=> rcv[l] \in RcvPastC
        /\ rcv'[l] \in RcvPastR <=> rcv[l] \in RcvPastR
        /\ rcv'[l] \in RcvPastF <=> rcv[l] \in RcvPastF
        /\ rcv'[l] = "sendF" <=> rcv[l] = "sendF"
        /\ rcv'[l] = "gbfDone" <=> rcv[l] = "gbfDone"
        /\ rcv'[l] = "stuck" <=> rcv[l] = "stuck"
    BY <2>3 DEF RcvPastC, RcvPastR, RcvPastF
  <2>6. SndFitsPhase(l)' /\ RcvFitsPhase(l)'
    BY <1>3, <2>1, <2>2, <2>3, <2>4 DEF LinkInv, SndFitsPhase, RcvFitsPhase
  <2>7. StuckOnlyAlone(l)' /\ MailToR(l)' /\ MailToS(l)'
    BY <1>1, <1>3, <2>1, <2>2, <2>4, <2>5 DEF LinkInv, StuckOnlyAlone, MailToR, MailToS, Mail
  <2>8. Vouches(l)'
    BY <1>1, <2>2, <2>4, <2>5, CheckedStays DEF LinkInv, Vouches
  <2>. QED  BY <2>6, <2>7, <2>8 DEF LinkInv
<1>6. \A r \in Parties : PartyInv(r)'
  BY <1>1, <1>3, <1>4, CheckedStays DEF IInv, PartyInv
<1>7. FilterOnlyAfterChecks' /\ OutputOnlyAfterChecks' /\ OrderlyClose'
  BY <1>1, <1>3, PiLinks DEF IInv, FilterOnlyAfterChecks, OutputOnlyAfterChecks, OrderlyClose, Parties
<1>. QED  BY <1>2, <1>5, <1>6, <1>7 DEF IInv

(* A party that joined its online threads has, on link B, the function of  *)
(* P0, which left its own offline phase before it sent that.               *)
LEMMA JoinOnlineIInv ==
  ASSUME IInv, NEW p \in Parties, JoinOnline(p)
  PROVE  IInv'
<1>1. /\ phase[p] = "online"
      /\ phase' = [phase EXCEPT ![p] = "final"]
      /\ rcv' = [l \in Links |-> IF p = P0 /\ OTReceiver(l) = p THEN "recvG" ELSE rcv[l]]
      /\ \A l \in Links : /\ OTSender(l) = p => snd[l] = "onlineDone"
                          /\ OTReceiver(l) = p => rcv[l] = "onlineDone"
      /\ UNCHANGED <<snd, toR, toS, passed>>
  <2>1. \A l \in Links : l \in RcvOf(p) <=> OTReceiver(l) = p
    BY DEF RcvOf
  <2>. QED  BY <2>1 DEF JoinOnline, AllAt, SndOf
<1>2. TypeOK'
  BY <1>1 DEF IInv, TypeOK, Running
<1>3. /\ phase'[p] = "final" /\ \A r \in Parties \ {p} : phase'[r] = phase[r]
      /\ \A r \in Parties : Alive(r)' <=> Alive(r)
  BY <1>1 DEF IInv, TypeOK, Alive, Running
<1>4. OfflineChecked(p)
  BY <1>1 DEF IInv, PartyInv
<1>5. ASSUME NEW l \in Links PROVE LinkInv(l)'
  <2>1. /\ OTSender(l) \in Parties /\ OTReceiver(l) \in Parties /\ OTSender(l) # OTReceiver(l)
        /\ OTReceiver(l) = P0 <=> l[1] = "B"
    BY LinkFacts, PartiesAssumption DEF OTReceiver
  <2>2. LinkInv(l)
    BY DEF IInv
  <2>3. /\ rcv'[l] = IF p = P0 /\ OTReceiver(l) = p THEN "recvG" ELSE rcv[l]
        /\ OTSender(l) = p => snd[l] = "onlineDone"
        /\ OTReceiver(l) = p => rcv[l] = "onlineDone"
        /\ snd'[l] = snd[l] /\ toR'[l] = toR[l] /\ toS'[l] = toS[l]
    BY <1>1
  <2>4. /\ rcv'[l] \in RcvPastC <=> rcv[l] \in RcvPastC
        /\ rcv'[l] \in RcvPastR <=> rcv[l] \in RcvPastR
        /\ rcv'[l] \in RcvPastF <=> rcv[l] \in RcvPastF
        /\ rcv'[l] = "sendF" <=> rcv[l] = "sendF"
        /\ rcv'[l] = "gbfDone" <=> rcv[l] = "gbfDone"
        /\ rcv'[l] = "stuck" <=> rcv[l] = "stuck"
    BY <2>3 DEF RcvPastC, RcvPastR, RcvPastF
  <2>5. SndFitsPhase(l)'
    BY <1>3, <2>1, <2>2, <2>3 DEF LinkInv, SndFitsPhase, SndPastF
  <2>6. RcvFitsPhase(l)'
    BY <1>3, <2>1, <2>2, <2>3 DEF LinkInv, RcvFitsPhase
  <2>7. StuckOnlyAlone(l)' /\ MailToR(l)' /\ MailToS(l)'
    BY <1>3, <2>1, <2>2, <2>3, <2>4 DEF LinkInv, StuckOnlyAlone, MailToR, MailToS, Mail
  <2>8. Vouches(l)'
    BY <1>1, <2>2, <2>3, <2>4, CheckedStays DEF LinkInv, Vouches
  <2>. QED  BY <2>5, <2>6, <2>7, <2>8 DEF LinkInv
<1>6. \A r \in Parties : PartyInv(r)'
  BY <1>1, <1>3, <1>4, CheckedStays DEF IInv, PartyInv
<1>7. p \in Pis => AllChecked(p)
  <2>. SUFFICES ASSUME p \in Pis PROVE AllChecked(p)
    OBVIOUS
  <2>. DEFINE a == <<"A", p>>
              b == <<"B", p>>
  <2>1. /\ a \in Links /\ OTSender(a) = P0 /\ OTReceiver(a) = p
        /\ b \in Links /\ OTSender(b) = p /\ OTReceiver(b) = P0
    BY PiLinks
  <2>. HIDE DEF a, b
  <2>2. snd[b] = "onlineDone" /\ rcv[a] = "onlineDone"
    BY <1>1, <2>1
  <2>3. <<b, "F">> \in passed /\ OfflineChecked(P0) /\ <<a, "F">> \in passed
    BY <2>1, <2>2 DEF IInv, LinkInv, Vouches, SndPastF, RcvPastF
  <2>4. /\ <<b, "R">> \in passed /\ <<a, "C">> \in passed
        /\ <<b, "C">> \in passed /\ <<a, "R">> \in passed
    BY <1>4, <2>1, <2>3 DEF OfflineChecked
  <2>. QED  BY <2>3, <2>4 DEF AllChecked, a, b
<1>8. FilterOnlyAfterChecks'
  <2>. SUFFICES ASSUME NEW k \in Pis, phase'[k] \in {"final", "done"}
                PROVE  AllChecked(k)
    BY <1>1 DEF FilterOnlyAfterChecks, AllChecked, OfflineChecked
  <2>1. CASE k = p
    BY <1>7, <2>1
  <2>2. CASE k # p
    BY <1>3, <2>2, PiLinks DEF IInv, FilterOnlyAfterChecks, AllChecked, OfflineChecked
  <2>. QED  BY <2>1, <2>2
<1>9. OutputOnlyAfterChecks' /\ OrderlyClose'
  BY <1>1, <1>3, PiLinks DEF IInv, OutputOnlyAfterChecks, OrderlyClose, Parties
<1>. QED  BY <1>2, <1>5, <1>6, <1>8, <1>9 DEF IInv

(* `delete pi': everything that was sent to this party was read.           *)
LEMMA LeaveIInv ==
  ASSUME IInv, NEW k \in Pis, Leave(k)
  PROVE  IInv'
<1>1. /\ phase[k] = "final" /\ snd[<<"B", k>>] = "gbfDone"
      /\ phase' = [phase EXCEPT ![k] = "done"]
      /\ UNCHANGED <<snd, rcv, toR, toS, passed>>
  BY DEF Leave, End
<1>2. /\ k \in Parties /\ P0 \in Parties /\ k # P0
      /\ phase'[k] = "done" /\ \A r \in Parties \ {k} : phase'[r] = phase[r]
      /\ \A r \in Parties : Alive(r)' => Alive(r)
  BY <1>1, PiLinks DEF IInv, TypeOK, Alive, Running
<1>3. TypeOK'
  BY <1>1, <1>2 DEF IInv, TypeOK
<1>4. ASSUME NEW l \in Links PROVE LinkInv(l)'
  <2>1. /\ OTSender(l) \in Parties /\ OTReceiver(l) \in Parties
        /\ OTReceiver(l) = k => l[1] = "A"
    BY <1>2, LinkFacts DEF OTReceiver
  <2>2. LinkInv(l)
    BY DEF IInv
  <2>3. SndFitsPhase(l)' /\ RcvFitsPhase(l)'
    BY <1>1, <1>2, <2>1, <2>2 DEF LinkInv, SndFitsPhase, RcvFitsPhase
  <2>4. StuckOnlyAlone(l)' /\ MailToR(l)' /\ MailToS(l)'
    BY <1>1, <1>2, <2>1, <2>2 DEF LinkInv, StuckOnlyAlone, MailToR, MailToS
  <2>5. Vouches(l)'
    BY <1>1, <2>2, CheckedStays DEF LinkInv, Vouches
  <2>. QED  BY <2>3, <2>4, <2>5 DEF LinkInv
<1>5. \A r \in Parties : PartyInv(r)'
  BY <1>1, <1>2, CheckedStays DEF IInv, PartyInv
<1>6. FilterOnlyAfterChecks' /\ OutputOnlyAfterChecks'
  BY <1>1, <1>2, PiLinks DEF IInv, FilterOnlyAfterChecks, OutputOnlyAfterChecks
<1>7. OrderlyClose'
  <2>1. toR[<<"A", k>>] = <<>>
    <3>1. /\ Alive(OTReceiver(<<"A", k>>)) /\ rcv[<<"A", k>>] = "onlineDone"
          /\ snd[<<"A", k>>] # "gbfDone"
      BY <1>1, PiLinks DEF IInv, LinkInv, SndFitsPhase, RcvFitsPhase, Alive, Running
    <3>. QED  BY <3>1, PiLinks DEF IInv, LinkInv, MailToR, Mail, RcvPastC
  <2>2. toS[<<"B", k>>] = <<>>
    <3>1. Alive(OTSender(<<"B", k>>))
      BY <1>1, PiLinks DEF Alive, Running
    <3>. QED  BY <1>1, <3>1, PiLinks DEF IInv, LinkInv, MailToS, Mail, SndPastC, SndPastR, SndPastF
  <2>. QED  BY <1>1, <1>2, <2>1, <2>2, PiLinks DEF IInv, OrderlyClose
<1>. QED  BY <1>3, <1>4, <1>5, <1>6, <1>7 DEF IInv

(* P0 has the filter of every other party, and each of them vouches for    *)
(* its own checks.                                                         *)
LEMMA OutputIInv ==
  ASSUME IInv, Output
  PROVE  IInv'
<1>1. /\ phase[P0] = "final"
      /\ \A l \in Links : OTReceiver(l) = P0 => rcv[l] = "gbfDone"
      /\ phase' = [phase EXCEPT ![P0] = "done"]
      /\ UNCHANGED <<snd, rcv, toR, toS, passed>>
  BY DEF Output, End, RcvOf
<1>2. /\ P0 \in Parties /\ P0 \notin Pis
      /\ phase'[P0] = "done" /\ \A r \in Parties \ {P0} : phase'[r] = phase[r]
      /\ \A r \in Parties : Alive(r)' => Alive(r)
  BY <1>1, PartiesAssumption DEF IInv, TypeOK, Alive, Running, Parties
<1>3. TypeOK'
  BY <1>1, <1>2 DEF IInv, TypeOK
<1>4. ASSUME NEW l \in Links PROVE LinkInv(l)'
  <2>1. /\ OTSender(l) \in Parties /\ OTReceiver(l) \in Parties
        /\ OTReceiver(l) = P0 => l[1] = "B"
    BY <1>2, LinkFacts DEF OTReceiver
  <2>2. LinkInv(l)
    BY DEF IInv
  <2>3. SndFitsPhase(l)' /\ RcvFitsPhase(l)'
    BY <1>1, <1>2, <2>1, <2>2 DEF LinkInv, SndFitsPhase, RcvFitsPhase
  <2>4. StuckOnlyAlone(l)' /\ MailToR(l)' /\ MailToS(l)'
    BY <1>1, <1>2, <2>1, <2>2 DEF LinkInv, StuckOnlyAlone, MailToR, MailToS
  <2>5. Vouches(l)'
    BY <1>1, <2>2, CheckedStays DEF LinkInv, Vouches
  <2>. QED  BY <2>3, <2>4, <2>5 DEF LinkInv
<1>5. \A r \in Parties : PartyInv(r)'
  BY <1>1, <1>2, CheckedStays DEF IInv, PartyInv
<1>6. FilterOnlyAfterChecks' /\ OrderlyClose'
  BY <1>1, <1>2, PiLinks DEF IInv, FilterOnlyAfterChecks, OrderlyClose
<1>7. OutputOnlyAfterChecks'
  <2>1. \A k \in Pis : AllChecked(k)
    BY <1>1, PiLinks DEF IInv, LinkInv, Vouches
  <2>2. ASSUME NEW l \in Links, NEW m \in {"C", "R", "F"} PROVE <<l, m>> \in passed
    BY <2>1, LinkFacts DEF AllChecked
  <2>3. Links \X {"C", "R", "F"} \subseteq passed
    <3>. SUFFICES ASSUME NEW x \in Links \X {"C", "R", "F"} PROVE x \in passed
      OBVIOUS
    <3>1. x[1] \in Links /\ x[2] \in {"C", "R", "F"} /\ x = <<x[1], x[2]>>
      OBVIOUS
    <3>2. <<x[1], x[2]>> \in passed
      BY <2>2, <3>1
    <3>. QED  BY <3>1, <3>2
  <2>. QED  BY <1>1, <2>3 DEF IInv, TypeOK, OutputOnlyAfterChecks
<1>. QED  BY <1>3, <1>4, <1>5, <1>6, <1>7 DEF IInv

-----------------------------------------------------------------------------
LEMMA StepIInv == IInv /\ [Next]_vars => IInv'
<1>. SUFFICES ASSUME IInv, [Next]_vars PROVE IInv'
  OBVIOUS
<1>1. ASSUME NEW l \in Links, RunOT(l) \/ Connect(l) PROVE IInv'
  BY <1>1, MeetIInv
<1>2. ASSUME NEW l \in Links, SndThread(l) PROVE IInv'
  BY <1>2, SendCIInv, RecvRIInv, RecvFIInv, StuckIInv DEF SndThread
<1>3. ASSUME NEW l \in Links, RcvThread(l) PROVE IInv'
  BY <1>3, RecvCIInv, SendRIInv, ArrangeIInv, SendFIInv, RecvGIInv, StuckIInv DEF RcvThread
<1>4. ASSUME NEW l \in Links, SigPipe(l) PROVE IInv'
  BY <1>4, SigPipeIInv
<1>5. ASSUME NEW p \in Parties, Main(p) PROVE IInv'
  <2>1. p # P0 => p \in Pis
    BY DEF Parties
  <2>. QED
    BY <1>5, <2>1, JoinOfflineIInv, JoinOnlineIInv, SendGIInv, LeaveIInv, OutputIInv DEF Main
<1>6. CASE UNCHANGED vars
  <2>1. PICK l \in Links : TRUE
    <3>1. PICK k \in Pis : TRUE
      BY PartiesAssumption
    <3>. QED  BY <3>1, PiLinks
  <2>2. TypeOK'
    BY <1>6 DEF vars, IInv, TypeOK
  <2>3. LinkInv(l)'
    BY <1>6, <2>1, QuietLink DEF vars, IInv
  <2>. QED  BY <1>6, <2>1, <2>2, <2>3, StepOnLink DEF vars
<1>. QED  BY <1>1, <1>2, <1>3, <1>4, <1>5, <1>6 DEF Next, Quiet

LEMMA Invariance == Spec => []IInv
  BY InitIInv, StepIInv, PTL DEF Spec

(* The invariant says more than the tags of the messages in a channel.     *)
LEMMA ReadInStep == IInv => MessagesInStep
<1>. SUFFICES ASSUME IInv, NEW l \in Links
              PROVE  /\ (Alive(OTReceiver(l)) /\ rcv[l] \in {"recvC", "recvG"} /\ toR[l] # <<>>)
                          => Head(toR[l]) = Expects(rcv[l])
                     /\ (Alive(OTSender(l)) /\ snd[l] \in {"recvR", "recvF"} /\ toS[l] # <<>>)
                          => Head(toS[l]) = Expects(snd[l])
  BY DEF MessagesInStep
<1>1. ASSUME Alive(OTReceiver(l)), rcv[l] = "recvC", toR[l] # <<>>
      PROVE  Head(toR[l]) = "C"
  <2>1. toR[l] \in {<<"C">>, <<"C", "G">>}
    BY <1>1 DEF IInv, LinkInv, MailToR, Mail, SndPastC, RcvPastC
  <2>. QED  BY <2>1, MailFacts
<1>2. ASSUME Alive(OTReceiver(l)), rcv[l] = "recvG", toR[l] # <<>>
      PROVE  Head(toR[l]) = "G"
  <2>1. toR[l] = <<"G">>
    BY <1>2 DEF IInv, LinkInv, MailToR, Mail, SndPastC, RcvPastC
  <2>. QED  BY <2>1, MailFacts
<1>3. ASSUME Alive(OTSender(l)), snd[l] = "recvR", toS[l] # <<>>
      PROVE  Head(toS[l]) = "R"
  <2>1. toS[l] \in {<<"R">>, <<"R", "F">>}
    BY <1>3 DEF IInv, LinkInv, MailToS, Mail, SndPastC, SndPastR, SndPastF,
                RcvPastC, RcvPastR, RcvPastF
  <2>. QED  BY <2>1, MailFacts
<1>4. ASSUME Alive(OTSender(l)), snd[l] = "recvF", toS[l] # <<>>
      PROVE  Head(toS[l]) = "F"
  <2>1. toS[l] = <<"F">>
    BY <1>4 DEF IInv, LinkInv, MailToS, Mail, SndPastC, SndPastR, SndPastF
  <2>. QED  BY <2>1, MailFacts
<1>5. /\ Expects("recvC") = "C" /\ Expects("recvG") = "G"
      /\ Expects("recvR") = "R" /\ Expects("recvF") = "F"
  BY DEF Expects
<1>. QED  BY <1>1, <1>2, <1>3, <1>4, <1>5

(* Threads, channels, phases and the history of the checks keep their      *)
(* types, through every failure and every step of another process.         *)
THEOREM TypeCorrect == Spec => []TypeOK
<1>1. IInv => TypeOK
  BY DEF IInv
<1>. QED  BY <1>1, Invariance, PTL

(* recv_C, recv_R, recv_func and get_gbf take the bytes that were written  *)
(* for them, though a link carries no tags and its ends are in different   *)
(* phases.                                                                 *)
THEOREM BytesForTheirReader == Spec => []MessagesInStep
  BY Invariance, ReadInStep, PTL

(* get_intersection prints only when every check_if_to_abort,              *)
(* check_if_to_abort1 and arrange_the_indexes of every link has passed.    *)
THEOREM CheckedBeforeOutput == Spec => []OutputOnlyAfterChecks
<1>1. IInv => OutputOnlyAfterChecks
  BY DEF IInv
<1>. QED  BY <1>1, Invariance, PTL

(* comulative_gbf_pi is reached only past all checks of the party's own    *)
(* links and past P0's of the offline phase on every link, although a      *)
(* party never hears of the other links.                                   *)
THEOREM CheckedBeforeFilter == Spec => []FilterOnlyAfterChecks
<1>1. IInv => FilterOnlyAfterChecks
  BY DEF IInv
<1>. QED  BY <1>1, Invariance, PTL

(* `delete pi' never closes a socket with bytes that were not read.        *)
THEOREM NothingUnreadAtClose == Spec => []OrderlyClose
<1>1. IInv => OrderlyClose
  BY DEF IInv
<1>. QED  BY <1>1, Invariance, PTL

=============================================================================
