------------------------------ MODULE NetProofs -----------------------------
(***************************************************************************)
(* Proofs about the network calls, continued: the invariant of the calls,  *)
(* which every step keeps, and the theorems that follow from it.           *)
(***************************************************************************)
EXTENDS NetReceiveProofs

-----------------------------------------------------------------------------
(***************************************************************************)
(* What a call becomes.                                                    *)
(***************************************************************************)
Pcs == Waits \cup {"idle", "query", "ask", "connect", "kex", "send", "tx", "fail"}

(* The call that goes to another point. *)
LEMMA GoType ==
  ASSUME call \in Calls, NEW pc \in Pcs
  PROVE  LET d == Go(pc)
         IN /\ d \in Calls /\ d.pc = pc /\ d.kind = call.kind /\ d.host = call.host
            /\ d.first = call.first /\ d.targets = call.targets /\ d.end = call.end
            /\ d.dns_left = call.dns_left
<1> DEFINE d == Go(pc)
<1>0. 0 \in 0..TxTries /\ "none" \in Whats /\ NoFrame \in OutFrames \cup {NoFrame}
  BY TriesAssumption DEF Whats
<1>1. d \in Calls
  BY <1>0 DEF Calls, Go, Pcs
<1>2. /\ d.pc = pc /\ d.kind = call.kind /\ d.host = call.host
      /\ d.first = call.first /\ d.targets = call.targets /\ d.end = call.end
      /\ d.dns_left = call.dns_left
  BY DEF Calls, Go
<1> QED BY <1>1, <1>2

(* The machine before its first call. *)
LEMMA NoCallType == NoCall \in Calls /\ NoCall.pc = "idle" /\ NoCall.end = 0 /\ NoCall.kind = "none"
                      /\ NoCall.first = 0
<1>1. 0 \in 0..TxTries /\ 0 \in 0..DnsTries /\ "none" \in Whats
  BY TriesAssumption DEF Whats
<1>2. NoCall = [kind |-> "none", host |-> "none", pc |-> "idle", what |-> "none",
                frame |-> NoFrame, left |-> 0, dns_left |-> 0, targets |-> <<>>,
                first |-> 0, end |-> 0, acked |-> FALSE, ok |-> FALSE, back |-> "none",
                number |-> 0]
  BY DEF NoCall, NoFrame
<1>3. NoCall \in Calls
  BY <1>1, <1>2, EmptyType DEF Calls
<1> QED BY <1>2, <1>3

(* The call that returned. *)
LEMMA ReturnType ==
  ASSUME call \in Calls, NEW ok \in BOOLEAN
  PROVE  LET d == Return(ok)
         IN /\ d \in Calls /\ d.pc = "idle" /\ d.kind = call.kind
            /\ d.first = call.first /\ d.end = 0
<1> DEFINE d == Return(ok)
<1>1. d \in Calls
  BY NoCallType DEF Calls, Return
<1>2. /\ d.pc = "idle" /\ d.kind = call.kind /\ d.first = call.first /\ d.end = 0
  BY NoCallType DEF Calls, Return
<1> QED BY <1>1, <1>2

(* The call that hands a frame to send_frame. *)
LEMMA SendingType ==
  ASSUME NEW c \in Calls, NEW what \in Whats, NEW frame \in OutFrames, NEW tries \in 0..TxTries
  PROVE  LET d == Sending(c, what, frame, tries)
         IN /\ d \in Calls /\ d.pc = "send" /\ d.what = what /\ d.frame = frame
            /\ d.kind = c.kind /\ d.host = c.host /\ d.first = c.first
            /\ d.targets = c.targets /\ d.end = c.end
<1> DEFINE d == Sending(c, what, frame, tries)
<1>1. d \in Calls
  BY DEF Calls, Sending
<1>2. /\ d.pc = "send" /\ d.what = what /\ d.frame = frame
      /\ d.kind = c.kind /\ d.host = c.host /\ d.first = c.first
      /\ d.targets = c.targets /\ d.end = c.end
  BY DEF Calls, Sending
<1> QED BY <1>1, <1>2

(* An acknowledgement is a sound frame. *)
LEMMA AckFrameType ==
  ASSUME NEW r \in Nets, NEW ps, NEW n
  PROVE  AckFrame(r) \in OutFrames /\ SendOK(ps, n, AckFrame(r))
<1>1. r.local_port \in Nat /\ r.local_next \in Int
  BY DEF Nets
<1>2. AckFrame(r) \in [type : {"ack"}, local : Nat, seq : Int]
  BY <1>1 DEF AckFrame
<1>3. AckFrame(r).type = "ack"
  BY DEF AckFrame
<1> QED BY <1>2, <1>3 DEF OutFrames, SendOK

Backs == {"idle", "kex", "http_wait", "flight_wait", "fin_wait", "app_wait"}

(* The call that acknowledges and comes back. *)
LEMMA AcknowledgingType ==
  ASSUME NEW c \in Calls, NEW r \in Nets, NEW back \in Backs,
         NEW a, a = Acknowledging(c, r, back)
  PROVE  /\ a \in Calls /\ a.pc = "send" /\ a.what = "ack" /\ a.frame = AckFrame(r)
         /\ a.back = back /\ a.kind = c.kind /\ a.host = c.host /\ a.first = c.first
         /\ a.targets = c.targets /\ a.end = c.end
<1> DEFINE s == Sending(c, "ack", AckFrame(r), TxTries)
           d == [s EXCEPT !.back = back]
<1>1. AckFrame(r) \in OutFrames /\ "ack" \in Whats /\ TxTries \in 0..TxTries
  BY AckFrameType, TriesAssumption DEF Whats
<1>2. /\ s \in Calls /\ s.pc = "send" /\ s.what = "ack" /\ s.frame = AckFrame(r)
      /\ s.kind = c.kind /\ s.host = c.host /\ s.first = c.first
      /\ s.targets = c.targets /\ s.end = c.end
  BY <1>1, SendingType
<1> HIDE DEF s
<1>3. d \in Calls
  BY <1>2 DEF Calls, Waits, Backs
<1>4. /\ d.pc = s.pc /\ d.what = s.what /\ d.frame = s.frame /\ d.back = back /\ d.kind = s.kind
      /\ d.host = s.host /\ d.first = s.first /\ d.targets = s.targets /\ d.end = s.end
  BY <1>2 DEF Calls
<1>5. a = d
  BY DEF Acknowledging, s
<1> HIDE DEF d
<1> QED BY <1>2, <1>3, <1>4, <1>5

(* The stages of a connection by what the call does there. *)
LEMMA Stages ==
  ASSUME NEW c
  PROVE  /\ Point(c) \in {"final", "request"} => Stage(c) = 0
         /\ Point(c) \in {"http_wait", "flight_wait", "kex", "cke"} => Stage(c) = 1
         /\ Point(c) \in {"cke_wait", "finished"} => Stage(c) = 2
         /\ Point(c) \in {"fin_wait", "app"} => Stage(c) = 3
         /\ Point(c) = "app_wait" => Stage(c) = 4
         /\ Point(c) \in {"syn", "syn_wait"} => Stage(c) = -1
         /\ Point(c) \in {"idle", "query", "ask", "connect", "fail", "arp", "arp_wait",
                          "dns", "dns_wait"} => Stage(c) = -1 /\ ~Connection(c)
<1> DEFINE p == Point(c)
<1>1. Stage(c) = CASE p \in {"final", "request"} -> 0
                   [] p \in {"http_wait", "flight_wait", "kex", "cke"} -> 1
                   [] p \in {"cke_wait", "finished"} -> 2
                   [] p \in {"fin_wait", "app"} -> 3
                   [] p = "app_wait" -> 4
                   [] OTHER -> -1
  BY DEF Stage
<1>2. Dialing(c) <=> p \in {"syn", "syn_wait"}
  BY DEF Dialing
<1> HIDE DEF p
<1>3. /\ p \in {"final", "request"} => Stage(c) = 0
      /\ p \in {"http_wait", "flight_wait", "kex", "cke"} => Stage(c) = 1
      /\ p \in {"cke_wait", "finished"} => Stage(c) = 2
      /\ p \in {"fin_wait", "app"} => Stage(c) = 3
      /\ p = "app_wait" => Stage(c) = 4
      /\ p \in {"syn", "syn_wait"} => Stage(c) = -1
      /\ p \in {"idle", "query", "ask", "connect", "fail", "arp", "arp_wait",
                "dns", "dns_wait"} => Stage(c) = -1
  BY <1>1
<1>4. p \in {"idle", "query", "ask", "connect", "fail", "arp", "arp_wait",
             "dns", "dns_wait"} => ~Connection(c)
  BY <1>2, <1>3 DEF Connection
<1> QED BY <1>3, <1>4 DEF p

(* The point of the code a call is at, for one that is sending and one     *)
(* that is not.                                                            *)
LEMMA Points ==
  ASSUME NEW c
  PROVE  /\ c.pc \notin {"send", "tx"} => Point(c) = c.pc /\ ~Busy(c)
         /\ c.pc \in {"send", "tx"} /\ c.what # "ack" => Point(c) = c.what /\ Busy(c)
         /\ c.pc \in {"send", "tx"} /\ c.what = "ack" => Point(c) = c.back /\ Busy(c)
BY DEF Point, Busy

(* A call that stays where it is, *)
LEMMA SamePoint ==
  ASSUME NEW ps, NEW r, NEW t, NEW c, CallOK(ps, r, t, c),
         NEW d, Point(d) = Point(c), d.kind = c.kind, d.host = c.host, d.first = c.first,
         d.targets = c.targets, d.end = c.end, FlowOK(d)
  PROVE  CallOK(ps, r, t, d)
<1>1. Stage(d) = Stage(c) /\ (Connection(d) <=> Connection(c)) /\ PortOf(d) = PortOf(c)
  BY DEF Stage, Connection, Dialing, PortOf
<1>2. ConnectionOK(ps, r, t, d)
  BY <1>1 DEF CallOK, ConnectionOK
<1>3. StageOK(ps, r, d)
  BY <1>1 DEF CallOK, StageOK
<1>4. NameOK(d)
  BY DEF CallOK, NameOK
<1>5. EndOK(r, d) /\ AckOK(ps, r, d)
  BY DEF CallOK, EndOK, AckOK
<1> QED BY <1>2, <1>3, <1>4, <1>5 DEF CallOK

(* and one that leaves its connection, or has none. *)
LEMMA Elsewhere ==
  ASSUME NEW ps, NEW r, NEW t, NEW c, CallOK(ps, r, t, c),
         NEW d, Point(d) \in {"idle", "query", "ask", "connect", "fail", "arp", "arp_wait",
                              "dns", "dns_wait"},
         d.kind = c.kind, d.first = c.first, d.end = c.end \/ d.end = 0, NameOK(d), FlowOK(d)
  PROVE  CallOK(ps, r, t, d)
<1>1. Stage(d) = -1 /\ ~Connection(d)
  BY Stages
<1>2. ConnectionOK(ps, r, t, d) /\ StageOK(ps, r, d)
  BY <1>1 DEF ConnectionOK, StageOK
<1>3. EndOK(r, d) /\ AckOK(ps, r, d)
  BY DEF CallOK, EndOK, AckOK
<1> QED BY <1>2, <1>3 DEF CallOK

-----------------------------------------------------------------------------
(***************************************************************************)
(* The steps.                                                              *)
(***************************************************************************)
(* Numbers that are given out keep what was true of the earlier ones. *)
LEMMA MorePorts ==
  ASSUME NEW ps, NEW m \in Nat, NEW n \in Nat, m <= n
  PROVE  /\ PeersOK(ps, m) => PeersOK(ps, n)
         /\ \A f \in OutFrames : SendOK(ps, m, f) => SendOK(ps, n, f)
<1>1. 0..m - 1 \subseteq 0..n - 1
  OBVIOUS
<1>2. ASSUME NEW f \in OutFrames, SendOK(ps, m, f), f.type = "syn" PROVE SendOK(ps, n, f)
  <2>1. f.local \in Nat
    BY <1>2 DEF OutFrames
  <2> QED BY <1>2, <2>1 DEF SendOK
<1>3. ASSUME NEW f \in OutFrames, SendOK(ps, m, f), f.type # "syn" PROVE SendOK(ps, n, f)
  BY <1>3 DEF SendOK
<1>4. PeersOK(ps, m) => PeersOK(ps, n)
  BY <1>1 DEF PeersOK
<1> QED BY <1>2, <1>3, <1>4

(* A step of the machine: what it has to show. *)
MachineOK == /\ NetOK(g') /\ g.syns <= g'.syns /\ SessionOK(tls') /\ call' \in Calls
             /\ Busy(call') => call'.frame \in OutFrames /\ SendOK(peers, g'.syns, call'.frame)
             /\ Known(peers, g') /\ CallOK(peers, g', tls', call')

(* The invariant, for steps of the machine that move the rings as well. *)
LEMMA RingStep ==
  ASSUME IInv, MachineOK, UNCHANGED <<wire, peers>>, faults' \in 0..MaxFaults,
         nic' \in [rx : Seq(InFrames), tx : Seq(OutFrames)],
         Len(nic'.rx) < RxRing, Len(nic'.tx) <= TxRing,
         \A i \in 1..Len(nic'.rx) : FrameOK(peers, nic'.rx[i]),
         \A i \in 1..Len(nic'.tx) : SendOK(peers, g.syns, nic'.tx[i])
  PROVE  IInv'
<1>1. Types'
  BY DEF IInv, Types, MachineOK
<1>2. g.syns \in Nat /\ g'.syns \in Nat
  BY DEF IInv, Types, MachineOK, NetOK, Nets
<1>3. PeersOK(peers, g'.syns)
  BY <1>2, MorePorts DEF IInv, MachineOK
<1>4. Arriving'
  BY DEF IInv, Arriving
<1>5. Leaving'
  <2>1. ASSUME NEW i \in 1..Len(nic'.tx) PROVE SendOK(peers, g'.syns, nic'.tx[i])
    <3>1. nic'.tx[i] \in OutFrames
      <4>1. nic'.tx \in Seq(OutFrames)
        OBVIOUS
      <4> DEFINE tx == nic'.tx
      <4>2. tx \in Seq(OutFrames) /\ i \in 1..Len(tx)
        BY <4>1
      <4> HIDE DEF tx
      <4>3. tx[i] \in OutFrames
        BY <4>2
      <4> QED BY <4>3 DEF tx
    <3> QED BY <1>2, <3>1, MorePorts DEF MachineOK
  <2> QED BY <2>1 DEF MachineOK, Leaving
<1>6. (PeersOK(peers, g.syns) /\ Known(peers, g) /\ CallOK(peers, g, tls, call))'
  BY <1>3 DEF MachineOK
<1> QED BY <1>1, <1>4, <1>5, <1>6 DEF IInv

(* The invariant, for steps of the machine alone. *)
LEMMA CallStep ==
  ASSUME IInv, MachineOK, UNCHANGED <<nic, wire, peers>>, faults' \in 0..MaxFaults
  PROVE  IInv'
<1>1. /\ nic' \in [rx : Seq(InFrames), tx : Seq(OutFrames)]
      /\ Len(nic'.rx) < RxRing /\ Len(nic'.tx) <= TxRing
      /\ \A i \in 1..Len(nic'.rx) : FrameOK(peers, nic'.rx[i])
      /\ \A i \in 1..Len(nic'.tx) : SendOK(peers, g.syns, nic'.tx[i])
  BY DEF IInv, Types, Arriving, Leaving
<1> QED BY <1>1, RingStep

(* Most steps of a call change the call alone. *)
LEMMA CallAlone ==
  ASSUME IInv, UNCHANGED <<g, tls>>, call' \in Calls,
         Busy(call') => call'.frame \in OutFrames /\ SendOK(peers, g.syns, call'.frame),
         CallOK(peers, g, tls, call')
  PROVE  MachineOK
<1>1. g.syns \in Nat
  BY DEF IInv, Types, NetOK, Nets
<1> QED BY <1>1 DEF IInv, Types, MachineOK

(* The invariant, for steps of the world. *)
LEMMA NetworkStep ==
  ASSUME IInv, UNCHANGED machine, faults' \in 0..MaxFaults,
         PeersOK(peers', g.syns), Grown(peers, peers'),
         wire' \in Seq(InFrames), \A i \in 1..Len(wire') : FrameOK(peers', wire'[i]),
         nic' \in [rx : Seq(InFrames), tx : Seq(OutFrames)],
         Len(nic'.rx) < RxRing, Len(nic'.tx) <= TxRing,
         \A i \in 1..Len(nic'.rx) : FrameOK(peers', nic'.rx[i]),
         \A i \in 1..Len(nic'.tx) : SendOK(peers, g.syns, nic'.tx[i])
  PROVE  IInv'
<1>1. g' = g /\ tls' = tls /\ call' = call
  BY DEF machine
<1>2. Types'
  BY <1>1 DEF IInv, Types
<1>3. Arriving'
  BY DEF Arriving
<1>4. ASSUME NEW f, SendOK(peers, g.syns, f) PROVE SendOK(peers', g.syns, f)
  BY <1>4, GrownSend
<1>5. Leaving'
  BY <1>1, <1>4 DEF IInv, Leaving
<1>6. Known(peers', g) /\ CallOK(peers', g, tls, call)
  <2>1. g \in Nets
    BY DEF IInv, Types, NetOK
  <2> QED BY <2>1, GrownKnown, GrownCall DEF IInv
<1>7. (PeersOK(peers, g.syns) /\ Known(peers, g) /\ CallOK(peers, g, tls, call))'
  BY <1>1, <1>6
<1> QED BY <1>2, <1>3, <1>5, <1>7 DEF IInv

(* The parts of a sequence. *)
LEMMA TailType ==
  ASSUME NEW S, NEW s \in Seq(S), s # <<>>
  PROVE  /\ Tail(s) \in Seq(S) /\ Len(Tail(s)) = Len(s) - 1 /\ Len(s) \in Nat \ {0}
         /\ s[1] \in S /\ Head(s) = s[1]
         /\ \A i \in 1..Len(Tail(s)) : i + 1 \in 1..Len(s) /\ Tail(s)[i] = s[i + 1]
OBVIOUS

(* What RemoveAt gives: some of the elements. *)
LEMMA RemoveType ==
  ASSUME NEW S, NEW s \in Seq(S), NEW k \in 1..Len(s)
  PROVE  /\ RemoveAt(s, k) \in Seq(S)
         /\ \A i \in 1..Len(RemoveAt(s, k)) : \E j \in 1..Len(s) : RemoveAt(s, k)[i] = s[j]
<1> DEFINE a == SubSeq(s, 1, k - 1)
           b == SubSeq(s, k + 1, Len(s))
<1>1. /\ a \in Seq(S) /\ Len(a) = k - 1 /\ \A i \in 1..k - 1 : a[i] = s[i]
  OBVIOUS
<1>2. /\ b \in Seq(S) /\ Len(b) = Len(s) - k /\ \A i \in 1..Len(s) - k : b[i] = s[k + i]
  OBVIOUS
<1>3. RemoveAt(s, k) = a \o b
  BY DEF RemoveAt
<1> HIDE DEF a, b
<1>4. a \o b \in Seq(S) /\ Len(a \o b) = Len(s) - 1
  <2>1. a \o b \in Seq(S) /\ Len(a \o b) = Len(a) + Len(b)
    <3>1. a \in Seq(S) /\ b \in Seq(S)
      BY <1>1, <1>2
    <3> QED BY <3>1
  <2>2. Len(s) \in Nat /\ k \in Nat
    OBVIOUS
  <2> DEFINE n == Len(s)
  <2>3. Len(a \o b) = (k - 1) + (n - k) /\ n \in Nat
    BY <1>1, <1>2, <2>1, <2>2
  <2> HIDE DEF n
  <2>4. Len(a \o b) = n - 1
    BY <2>2, <2>3
  <2> QED BY <2>1, <2>4 DEF n
<1>5. ASSUME NEW i \in 1..Len(a \o b) PROVE \E j \in 1..Len(s) : (a \o b)[i] = s[j]
  <2>1. CASE i <= k - 1
    <3>1. (a \o b)[i] = s[i] /\ i \in 1..Len(s)
      BY <1>1, <1>2, <1>4, <2>1
    <3> QED BY <3>1
  <2>2. CASE i > k - 1
    <3>1. (a \o b)[i] = b[i - (k - 1)] /\ i - (k - 1) \in 1..Len(s) - k
      BY <1>1, <1>2, <1>4, <2>2
    <3>2. (a \o b)[i] = s[k + (i - (k - 1))] /\ k + (i - (k - 1)) \in 1..Len(s)
      BY <1>2, <3>1
    <3> QED BY <3>2
  <2> QED BY <2>1, <2>2
<1> QED BY <1>3, <1>4, <1>5

(* The network and the card. *)
LEMMA TransmitOK ==
  ASSUME IInv, Transmit
  PROVE  IInv'
<1>0. /\ nic.tx # <<>> /\ Len(nic.tx) < TxRing /\ nic' = [nic EXCEPT !.tx = Tail(@)]
      /\ UNCHANGED machine
  BY DEF Transmit, Transmits
<1>1. /\ nic \in [rx : Seq(InFrames), tx : Seq(OutFrames)] /\ Len(nic.rx) < RxRing
      /\ wire \in Seq(InFrames) /\ faults \in 0..MaxFaults /\ g.syns \in Nat
      /\ PeersOK(peers, g.syns) /\ MaxFaults \in Nat
  BY SizesAssumption DEF IInv, Types, NetOK, Nets
<1>2. /\ \A i \in 1..Len(wire) : FrameOK(peers, wire[i])
      /\ \A i \in 1..Len(nic.rx) : FrameOK(peers, nic.rx[i])
      /\ \A i \in 1..Len(nic.tx) : SendOK(peers, g.syns, nic.tx[i])
  BY DEF IInv, Arriving, Leaving
<1> DEFINE tx == nic.tx
<1>3. /\ Tail(tx) \in Seq(OutFrames) /\ Len(Tail(tx)) = Len(tx) - 1 /\ Len(tx) \in Nat \ {0}
      /\ tx[1] \in OutFrames /\ Head(tx) = tx[1]
      /\ \A i \in 1..Len(Tail(tx)) : i + 1 \in 1..Len(tx) /\ Tail(tx)[i] = tx[i + 1]
  <2>1. tx \in Seq(OutFrames) /\ tx # <<>>
    BY <1>0, <1>1
  <2> HIDE DEF tx
  <2> QED BY <2>1, TailType
<1>4. nic'.rx = nic.rx /\ nic'.tx = Tail(tx)
  BY <1>0, <1>1
<1>5. /\ nic' \in [rx : Seq(InFrames), tx : Seq(OutFrames)]
      /\ Len(nic'.rx) < RxRing /\ Len(nic'.tx) <= TxRing
      /\ \A i \in 1..Len(nic'.tx) : SendOK(peers, g.syns, nic'.tx[i])
  <2>1. Len(nic'.tx) <= TxRing
    <3>1. TxRing \in Nat /\ Len(tx) < TxRing
      BY <1>0, RingsAssumption
    <3> HIDE DEF tx
    <3> QED BY <1>3, <1>4, <3>1
  <2>2. \A i \in 1..Len(nic'.tx) : SendOK(peers, g.syns, nic'.tx[i])
    <3> TAKE i \in 1..Len(nic'.tx)
    <3>1. i + 1 \in 1..Len(tx) /\ nic'.tx[i] = tx[i + 1]
      BY <1>3, <1>4
    <3> QED BY <1>2, <3>1
  <2>3. nic' \in [rx : Seq(InFrames), tx : Seq(OutFrames)]
    <3> HIDE DEF tx
    <3> QED BY <1>0, <1>1, <1>3, <1>4 DEF tx
  <2> QED BY <1>1, <1>4, <2>1, <2>2, <2>3
<1>6. CASE UNCHANGED <<peers, wire>> /\ Struck("loss")
  <2>1. faults' \in 0..MaxFaults
    BY <1>1, <1>6 DEF Struck
  <2> HIDE DEF tx
  <2> QED BY <1>0, <1>1, <1>2, <1>4, <1>5, <1>6, <2>1, GrownSame, NetworkStep
<1>7. CASE \E r \in Reactions(peers, Head(nic.tx)) :
             /\ peers' = r.peers
             /\ wire' = wire \o r.frames
             /\ IF r.cut = {} THEN UNCHANGED <<faults, harm>>
                ELSE /\ faults < MaxFaults /\ faults' = faults + 1
                     /\ harm' = harm \cup (IF \A c \in r.cut : Harmless(c[1], c[2])
                                           THEN {} ELSE {"cut"})
  <2>1. PICK r \in Reactions(peers, tx[1]) :
               /\ peers' = r.peers
               /\ wire' = wire \o r.frames
               /\ \/ faults' = faults
                  \/ faults < MaxFaults /\ faults' = faults + 1
    BY <1>3, <1>7
  <2>2. SendOK(peers, g.syns, tx[1])
    BY <1>2, <1>3
  <2>3. ReactionOK(peers, g.syns, r)
    <3> HIDE DEF tx
    <3> QED BY <1>1, <1>3, <2>1, <2>2, ReactionsOK
  <2>4. /\ PeersOK(peers', g.syns) /\ Grown(peers, peers') /\ r.frames \in Seq(InFrames)
        /\ \A i \in 1..Len(r.frames) : FrameOK(peers', r.frames[i])
    BY <2>1, <2>3 DEF ReactionOK
  <2>5. faults' \in 0..MaxFaults
    BY <1>1, <2>1
  <2>6. ASSUME NEW f \in InFrames, FrameOK(peers, f) PROVE FrameOK(peers', f)
    BY <2>4, <2>6, GrownFrame
  <2>7. ASSUME NEW f, SendOK(peers, g.syns, f) PROVE SendOK(peers', g.syns, f)
    BY <2>4, <2>7, GrownSend
  <2>8. \A i \in 1..Len(nic'.rx) : FrameOK(peers', nic'.rx[i])
    <3> TAKE i \in 1..Len(nic'.rx)
    <3>1. nic.rx[i] \in InFrames /\ FrameOK(peers, nic.rx[i]) /\ nic'.rx[i] = nic.rx[i]
      BY <1>1, <1>2, <1>4
    <3> QED BY <2>6, <3>1
  <2>9. wire' \in Seq(InFrames) /\ \A i \in 1..Len(wire') : FrameOK(peers', wire'[i])
    <3> DEFINE a == wire
               b == r.frames
               w == a \o b
    <3>1. a \in Seq(InFrames) /\ b \in Seq(InFrames) /\ wire' = w
      BY <1>1, <2>1, <2>4
    <3>2. /\ \A i \in 1..Len(a) : a[i] \in InFrames /\ FrameOK(peers', a[i])
          /\ \A i \in 1..Len(b) : FrameOK(peers', b[i])
      <4>1. \A i \in 1..Len(a) : a[i] \in InFrames
        BY <1>1
      <4>2. \A i \in 1..Len(a) : FrameOK(peers, a[i])
        BY <1>2
      <4> HIDE DEF a
      <4> QED BY <2>4, <2>6, <4>1, <4>2
    <3> HIDE DEF a, b
    <3>3. w \in Seq(InFrames) /\ Len(w) = Len(a) + Len(b)
      BY <3>1
    <3>4. ASSUME NEW i \in 1..Len(w) PROVE FrameOK(peers', w[i])
      <4>1. CASE i <= Len(a)
        <5>1. w[i] = a[i] /\ i \in 1..Len(a)
          BY <3>1, <3>3, <4>1
        <5> HIDE DEF w
        <5> QED BY <3>2, <5>1
      <4>2. CASE i > Len(a)
        <5>1. w[i] = b[i - Len(a)] /\ i - Len(a) \in 1..Len(b)
          BY <3>1, <3>3, <4>2
        <5> HIDE DEF w
        <5> QED BY <3>2, <5>1
      <4> QED BY <3>1, <3>3, <4>1, <4>2
    <3> HIDE DEF w
    <3> QED BY <3>1, <3>3, <3>4
  <2>10. \A i \in 1..Len(nic'.tx) : SendOK(peers, g.syns, nic'.tx[i])
    BY <1>5
  <2> HIDE DEF tx
  <2> QED BY <1>0, <1>5, <2>4, <2>5, <2>8, <2>9, <2>10, NetworkStep
<1> QED BY <1>6, <1>7 DEF Transmit

(* A frame arriving keeps the invariant. *)
LEMMA ArriveOK ==
  ASSUME IInv, NEW i \in 1..Len(wire), Arrive(i), faults' \in 0..MaxFaults
  PROVE  IInv'
<1>1. /\ nic \in [rx : Seq(InFrames), tx : Seq(OutFrames)] /\ Len(nic.tx) <= TxRing
      /\ wire \in Seq(InFrames) /\ g.syns \in Nat /\ PeersOK(peers, g.syns)
  BY DEF IInv, Types, NetOK, Nets
<1>2. /\ \A j \in 1..Len(wire) : FrameOK(peers, wire[j])
      /\ \A j \in 1..Len(nic.rx) : FrameOK(peers, nic.rx[j])
      /\ \A j \in 1..Len(nic.tx) : SendOK(peers, g.syns, nic.tx[j])
  BY DEF IInv, Arriving, Leaving
<1>3. /\ wire' = RemoveAt(wire, i) /\ Len(nic.rx) < RxRing - 1
      /\ nic' = [nic EXCEPT !.rx = Append(nic.rx, wire[i])]
      /\ UNCHANGED machine /\ UNCHANGED peers
  BY DEF Arrive
<1>4. wire' \in Seq(InFrames) /\ \A j \in 1..Len(wire') : FrameOK(peers, wire'[j])
  <2>1. /\ wire' \in Seq(InFrames)
        /\ \A j \in 1..Len(wire') : \E k \in 1..Len(wire) : wire'[j] = wire[k]
    <3> DEFINE w == RemoveAt(wire, i)
    <3>1. w \in Seq(InFrames) /\ \A j \in 1..Len(w) : \E k \in 1..Len(wire) : w[j] = wire[k]
      BY <1>1, RemoveType
    <3> HIDE DEF w
    <3>2. wire' = w
      BY <1>3 DEF w
    <3> QED BY <3>1, <3>2
  <2> QED BY <1>2, <2>1
<1> DEFINE rx == nic.rx
           f == wire[i]
           e == Append(rx, f)
<1>5. rx \in Seq(InFrames) /\ f \in InFrames /\ FrameOK(peers, f) /\ RxRing \in Nat
  BY <1>1, <1>2, RingsAssumption
<1>6. nic'.rx = e /\ nic'.tx = nic.tx
  BY <1>1, <1>3
<1>7. /\ \A j \in 1..Len(rx) : FrameOK(peers, rx[j])
      /\ Len(rx) < RxRing - 1
  BY <1>2, <1>3
<1>8. nic' = [nic EXCEPT !.rx = e]
  BY <1>3
<1> HIDE DEF rx, f
<1>9. /\ e \in Seq(InFrames) /\ Len(e) < RxRing
      /\ \A j \in 1..Len(e) : FrameOK(peers, e[j])
  BY <1>5, <1>7
<1> HIDE DEF e
<1>10. nic' \in [rx : Seq(InFrames), tx : Seq(OutFrames)]
  BY <1>1, <1>8, <1>9
<1>11. PeersOK(peers', g.syns) /\ Grown(peers, peers')
  BY <1>1, <1>3, GrownSame
<1>12. /\ \A j \in 1..Len(wire') : FrameOK(peers', wire'[j])
       /\ \A j \in 1..Len(nic'.rx) : FrameOK(peers', nic'.rx[j])
       /\ \A j \in 1..Len(nic'.tx) : SendOK(peers, g.syns, nic'.tx[j])
       /\ Len(nic'.rx) < RxRing /\ Len(nic'.tx) <= TxRing
  BY <1>1, <1>2, <1>3, <1>4, <1>6, <1>9
<1> QED BY <1>3, <1>4, <1>10, <1>11, <1>12, NetworkStep

(* Losing, doubling or swapping frames on the wire keeps it. *)
LEMMA WireOK ==
  ASSUME IInv, UNCHANGED machine, UNCHANGED <<nic, peers>>, faults' \in 0..MaxFaults,
         wire' \in Seq(InFrames), \A i \in 1..Len(wire') : FrameOK(peers, wire'[i])
  PROVE  IInv'
<1>1. /\ nic' \in [rx : Seq(InFrames), tx : Seq(OutFrames)]
      /\ Len(nic'.rx) < RxRing /\ Len(nic'.tx) <= TxRing
      /\ g.syns \in Nat /\ PeersOK(peers, g.syns) /\ PeersOK(peers', g.syns)
  BY DEF IInv, Types, NetOK, Nets
<1>2. /\ \A i \in 1..Len(nic'.rx) : FrameOK(peers', nic'.rx[i])
      /\ \A i \in 1..Len(nic'.tx) : SendOK(peers, g.syns, nic'.tx[i])
      /\ \A i \in 1..Len(wire') : FrameOK(peers', wire'[i])
  BY DEF IInv, Arriving, Leaving
<1>3. Grown(peers, peers')
  BY <1>1, GrownSame
<1> QED BY <1>1, <1>2, <1>3, NetworkStep

(* Every step of the world keeps it. *)
LEMMA NetworkOK ==
  ASSUME IInv, Network
  PROVE  IInv'
<1>1. /\ wire \in Seq(InFrames) /\ faults \in 0..MaxFaults /\ MaxFaults \in Nat
      /\ \A i \in 1..Len(wire) : FrameOK(peers, wire[i])
  BY SizesAssumption DEF IInv, Types, Arriving
<1>2. ASSUME NEW f, Struck(f) PROVE faults' \in 0..MaxFaults
  BY <1>1, <1>2 DEF Struck
<1>3. ASSUME wire # <<>>, wire' = Tail(wire), UNCHANGED machine, UNCHANGED <<nic, peers>>,
             faults' \in 0..MaxFaults
      PROVE  IInv'
  <2>1. wire' \in Seq(InFrames) /\ \A i \in 1..Len(wire') : FrameOK(peers, wire'[i])
    BY <1>1, <1>3, TailType
  <2> QED BY <1>3, <2>1, WireOK
<1>4. CASE Transmit
  BY <1>4, TransmitOK
<1>5. CASE Deliver
  <2>1. 1 \in 1..Len(wire) /\ Arrive(1) /\ faults' \in 0..MaxFaults
    <3>1. Len(wire) \in Nat \ {0}
      BY <1>1, <1>5, TailType DEF Deliver
    <3> QED BY <1>1, <1>5, <3>1 DEF Deliver
  <2> QED BY <2>1, ArriveOK
<1>6. CASE Overtake
  <2>1. PICK i \in 2..Len(wire) : Arrive(i) /\ Struck("reorder")
    BY <1>6 DEF Overtake
  <2>2. i \in 1..Len(wire) /\ faults' \in 0..MaxFaults
    BY <1>1, <1>2, <2>1
  <2> QED BY <2>1, <2>2, ArriveOK
<1>7. CASE Overflow
  BY <1>1, <1>3, <1>7 DEF Overflow
<1>8. CASE Lose
  BY <1>1, <1>2, <1>3, <1>8 DEF Lose
<1>9. CASE Again
  <2>1. PICK k \in DOMAIN peers : \E s \in peers[k].sent : wire' = Append(wire, s)
    BY <1>9 DEF Again
  <2>2. PICK s \in peers[k].sent : wire' = Append(wire, s)
    BY <2>1
  <2>3. s \in InFrames /\ FrameOK(peers, s)
    <3>1. g.syns \in Nat /\ PeersOK(peers, g.syns)
      BY DEF IInv, Types, NetOK, Nets
    <3>2. peers[k].sent \in SUBSET Segments /\ FrameOK(peers, s)
      BY <3>1, PeerFields
    <3> QED BY <3>2 DEF InFrames
  <2>4. wire' \in Seq(InFrames) /\ \A i \in 1..Len(wire') : FrameOK(peers, wire'[i])
    BY <1>1, <2>2, <2>3
  <2> QED BY <1>2, <1>9, <2>4, WireOK DEF Again
<1> QED BY <1>4, <1>5, <1>6, <1>7, <1>8, <1>9 DEF Network

(* Sending a frame, and giving it up. *)
LEMMA RetriedOK ==
  ASSUME IInv, Busy(call)
  PROVE  /\ Retried \in Calls /\ CallOK(peers, g, tls, Retried)
         /\ Busy(Retried) => Retried.frame \in OutFrames /\ SendOK(peers, g.syns, Retried.frame)
<1> DEFINE d == Retried
           e == [call EXCEPT !.pc = "send", !.left = call.left - 1]
<1>1. /\ call \in Calls /\ CallOK(peers, g, tls, call) /\ FlowOK(call) /\ NameOK(call)
      /\ call.frame \in OutFrames /\ SendOK(peers, g.syns, call.frame)
  BY DEF IInv, Types, Leaving, CallOK
<1>2. CASE call.left > 1
  <2>1. d = e
    BY <1>2 DEF Retried
  <2>2. TxTries \in Nat /\ call.left - 1 \in 0..TxTries
    BY <1>1, <1>2, TriesAssumption DEF Calls
  <2>3. e \in Calls
    BY <1>1, <2>2 DEF Calls
  <2>4. /\ e.pc = "send" /\ e.what = call.what /\ e.back = call.back /\ e.kind = call.kind
        /\ e.host = call.host /\ e.first = call.first /\ e.targets = call.targets
        /\ e.end = call.end /\ e.frame = call.frame
    BY <1>1 DEF Calls
  <2> HIDE DEF e, d
  <2>5. Point(e) = Point(call) /\ Busy(e)
    BY <2>4, Points DEF Busy
  <2>6. FlowOK(e)
    BY <1>1, <2>4, <2>5 DEF FlowOK, Busy
  <2>7. CallOK(peers, g, tls, e)
    BY <1>1, <2>4, <2>5, <2>6, SamePoint
  <2> QED BY <1>1, <2>1, <2>3, <2>4, <2>7 DEF d
<1>3. ASSUME NEW pc \in {"query", "connect", "fail"}, NameOK(Go(pc))
      PROVE  Go(pc) \in Calls /\ CallOK(peers, g, tls, Go(pc)) /\ ~Busy(Go(pc))
  <2> DEFINE x == Go(pc)
  <2>1. pc \in Pcs
    BY DEF Pcs
  <2>2. /\ x \in Calls /\ x.pc = pc /\ x.kind = call.kind /\ x.first = call.first
        /\ x.end = call.end
    BY <1>1, <2>1, GoType
  <2>3. NameOK(x)
    BY <1>3
  <2> HIDE DEF x
  <2>4. Point(x) = pc /\ ~Busy(x)
    BY <2>2, Points
  <2>5. FlowOK(x)
    BY <1>1, <2>2, <2>4 DEF FlowOK, Busy
  <2>6. CallOK(peers, g, tls, x)
    BY <1>1, <2>2, <2>3, <2>4, <2>5, Elsewhere
  <2> QED BY <2>2, <2>4, <2>6 DEF x
<1>4. ASSUME NEW pc \in {"connect", "fail"} PROVE NameOK(Go(pc))
  <2>1. pc \in Pcs
    BY DEF Pcs
  <2>2. Point(Go(pc)) = pc
    BY <1>1, <2>1, GoType, Points
  <2> QED BY <2>2 DEF NameOK
<1>5. ASSUME ~(call.left > 1), call.what \in {"arp", "dns"}, call.targets = <<>>
      PROVE  d = Go("query") /\ NameOK(Go("query"))
  <2>1. d = Go("query")
    BY <1>5 DEF Retried, AfterFailure
  <2>2. Point(call) = call.what
    BY <1>5, Points DEF Busy
  <2>3. call.host \in Hosts
    BY <1>1, <1>5, <2>2 DEF NameOK
  <2>4. Go("query").host = call.host
    BY <1>1, GoType DEF Pcs
  <2> QED BY <2>1, <2>3, <2>4 DEF NameOK
<1>6. ASSUME ~(call.left > 1), call.what \in {"syn", "final", "request"}
      PROVE  d = Go("connect")
  BY <1>6 DEF Retried, AfterFailure
<1>7. ASSUME ~(call.left > 1), call.what = "ack", call.back = "idle"
      PROVE  d \in Calls /\ CallOK(peers, g, tls, d) /\ ~Busy(d)
  <2>1. d = Return(TRUE)
    BY <1>7 DEF Retried, AfterFailure
  <2>2. d \in Calls /\ d.pc = "idle" /\ d.kind = call.kind /\ d.first = call.first /\ d.end = 0
    BY <1>1, <2>1, ReturnType
  <2> HIDE DEF d
  <2>3. Point(d) = "idle" /\ ~Busy(d)
    BY <2>2, Points
  <2>4. NameOK(d) /\ FlowOK(d)
    BY <2>2, <2>3 DEF NameOK, FlowOK, Busy
  <2> QED BY <1>1, <2>2, <2>3, <2>4, Elsewhere
<1>8. ASSUME ~(call.left > 1), call.what = "ack", call.back # "idle"
      PROVE  d \in Calls /\ CallOK(peers, g, tls, d) /\ ~Busy(d)
  <2>1. d = Go(call.back)
    BY <1>8 DEF Retried, AfterFailure
  <2>2. call.back \in {"kex", "http_wait", "flight_wait", "fin_wait", "app_wait"}
    BY <1>1, <1>8 DEF FlowOK
  <2>3. call.back \in Pcs
    BY <2>2 DEF Pcs, Waits
  <2>4. /\ d \in Calls /\ d.pc = call.back /\ d.kind = call.kind /\ d.host = call.host
        /\ d.first = call.first /\ d.targets = call.targets /\ d.end = call.end
    BY <1>1, <2>1, <2>3, GoType
  <2> HIDE DEF d
  <2>5. Point(d) = call.back /\ ~Busy(d)
    BY <2>2, <2>4, Points
  <2>6. Point(call) = call.back /\ call.kind # "none"
    BY <1>1, <1>8, Points DEF Busy, FlowOK
  <2>7. FlowOK(d)
    BY <2>4, <2>5, <2>6 DEF FlowOK, Busy
  <2> QED BY <1>1, <2>4, <2>5, <2>6, <2>7, SamePoint
<1>9. ASSUME ~(call.left > 1), ~(call.what \in {"arp", "dns"} /\ call.targets = <<>>),
             call.what \notin {"syn", "final", "request"}, call.what # "ack"
      PROVE  d = Go("fail")
  BY <1>9 DEF Retried, AfterFailure
<1> HIDE DEF d
<1> DEFINE Fine(x) == /\ x \in Calls /\ CallOK(peers, g, tls, x)
                      /\ Busy(x) => x.frame \in OutFrames /\ SendOK(peers, g.syns, x.frame)
<1>10. Fine(Go("connect")) /\ Fine(Go("fail"))
  BY <1>3, <1>4
<1>11. NameOK(Go("query")) => Fine(Go("query"))
  BY <1>3
<1>12. CASE call.left > 1
  BY <1>2, <1>12 DEF d
<1>13. CASE ~(call.left > 1)
  <2>1. CASE call.what \in {"arp", "dns"} /\ call.targets = <<>>
    <3> HIDE DEF Fine
    <3>1. Fine(d)
      BY <1>5, <1>11, <1>13, <2>1
    <3> QED BY <3>1 DEF Fine, d
  <2>2. CASE call.what \in {"syn", "final", "request"}
    <3> HIDE DEF Fine
    <3>1. Fine(d)
      BY <1>6, <1>10, <1>13, <2>2
    <3> QED BY <3>1 DEF Fine, d
  <2>3. CASE call.what = "ack"
    BY <1>7, <1>8, <1>13, <2>3 DEF d
  <2>4. CASE ~(call.what \in {"arp", "dns"} /\ call.targets = <<>>)
             /\ call.what \notin {"syn", "final", "request"} /\ call.what # "ack"
    <3> HIDE DEF Fine
    <3>1. Fine(d)
      BY <1>9, <1>10, <1>13, <2>4
    <3> QED BY <3>1 DEF Fine, d
  <2> QED BY <2>1, <2>2, <2>3, <2>4
<1> QED BY <1>12, <1>13

(* Every step of send_frame keeps it. *)
LEMMA SenderOK ==
  ASSUME IInv, Sender
  PROVE  IInv'
<1>1. /\ call \in Calls /\ CallOK(peers, g, tls, call) /\ faults \in 0..MaxFaults
      /\ MaxFaults \in Nat /\ g.syns \in Nat
      /\ nic \in [rx : Seq(InFrames), tx : Seq(OutFrames)]
      /\ Len(nic.rx) < RxRing /\ Len(nic.tx) <= TxRing
  BY SizesAssumption DEF IInv, Types, NetOK, Nets
<1>2. ASSUME Busy(call), call' = Retried, UNCHANGED <<g, tls, nic, wire, peers>>,
             faults' \in 0..MaxFaults
      PROVE  IInv'
  <2> DEFINE d == Retried
  <2>1. /\ d \in Calls /\ CallOK(peers, g, tls, d)
        /\ Busy(d) => d.frame \in OutFrames /\ SendOK(peers, g.syns, d.frame)
    BY <1>2, RetriedOK
  <2>2. call' = d
    BY <1>2
  <2> HIDE DEF d
  <2>3. MachineOK
    BY <1>2, <2>1, <2>2, CallAlone
  <2> QED BY <1>2, <2>3, CallStep
<1>3. CASE HandOver
  <2>1. /\ call.pc = "send" /\ Len(nic.tx) < TxRing
        /\ nic' = [nic EXCEPT !.tx = Append(nic.tx, call.frame)]
        /\ call' = [call EXCEPT !.pc = "tx"]
        /\ UNCHANGED <<g, tls, wire, peers, faults, harm>>
    BY <1>3 DEF HandOver, At
  <2>2. call.frame \in OutFrames /\ SendOK(peers, g.syns, call.frame)
    BY <2>1 DEF IInv, Leaving, Busy
  <2> DEFINE d == [call EXCEPT !.pc = "tx"]
  <2>3. d \in Calls
    BY <1>1 DEF Calls
  <2>4. /\ d.pc = "tx" /\ d.what = call.what /\ d.back = call.back /\ d.kind = call.kind
        /\ d.host = call.host /\ d.first = call.first /\ d.targets = call.targets
        /\ d.end = call.end /\ d.frame = call.frame
    BY <1>1 DEF Calls
  <2>5. call' = d
    BY <2>1
  <2> HIDE DEF d
  <2>6. Point(d) = Point(call)
    BY <2>1, <2>4, Points
  <2>7. FlowOK(d)
    BY <1>1, <2>1, <2>4 DEF CallOK, FlowOK, Busy
  <2>8. CallOK(peers, g, tls, d)
    BY <1>1, <2>4, <2>6, <2>7, SamePoint
  <2>9. MachineOK
    BY <2>1, <2>2, <2>3, <2>4, <2>5, <2>8, CallAlone
  <2> DEFINE tx == Append(nic.tx, call.frame)
  <2>10. tx \in Seq(OutFrames) /\ Len(tx) <= TxRing
    <3>1. nic.tx \in Seq(OutFrames) /\ TxRing \in Nat
      BY <1>1, RingsAssumption
    <3> QED BY <2>1, <2>2, <3>1
  <2>11. \A i \in 1..Len(tx) : SendOK(peers, g.syns, tx[i])
    <3>1. nic.tx \in Seq(OutFrames)
      BY <1>1
    <3>2. \A i \in 1..Len(nic.tx) : SendOK(peers, g.syns, nic.tx[i])
      BY DEF IInv, Leaving
    <3> QED BY <2>2, <3>1, <3>2
  <2>12. nic' = [nic EXCEPT !.tx = tx]
    BY <2>1
  <2> HIDE DEF tx
  <2>13. /\ nic' \in [rx : Seq(InFrames), tx : Seq(OutFrames)]
         /\ nic'.rx = nic.rx /\ nic'.tx = tx
    BY <1>1, <2>10, <2>12
  <2>14. \A i \in 1..Len(nic'.rx) : FrameOK(peers, nic'.rx[i])
    BY <2>13 DEF IInv, Arriving
  <2>15. /\ \A i \in 1..Len(nic'.tx) : SendOK(peers, g.syns, nic'.tx[i])
         /\ Len(nic'.tx) <= TxRing /\ Len(nic'.rx) < RxRing
    BY <1>1, <2>10, <2>11, <2>13
  <2> QED BY <1>1, <2>1, <2>9, <2>13, <2>14, <2>15, RingStep
<1>4. CASE HandOverRefused
  BY <1>1, <1>2, <1>4 DEF HandOverRefused, At, Busy
<1>5. CASE TxTimeout
  <2>1. faults' \in 0..MaxFaults
    BY <1>1, <1>5 DEF TxTimeout
  <2> QED BY <1>2, <1>5, <2>1 DEF TxTimeout, At, Busy
<1> QED BY <1>3, <1>4, <1>5 DEF Sender

(* A call begins. *)
LEMMA CallerOK ==
  ASSUME IInv, Caller
  PROVE  IInv'
<1>1. /\ call \in Calls /\ g \in Nets /\ SessionOK(tls) /\ Known(peers, g) /\ g.syns \in Nat
      /\ Len(g.http_response) <= Capture_ /\ faults \in 0..MaxFaults /\ Capture_ \in Nat
  BY SizesAssumption DEF IInv, Types, NetOK, Nets
<1> DEFINE F(kind, host) == Fresh(call, kind, host)
<1>2. ASSUME NEW kind \in {"http", "https", "tcp"}, NEW host \in Hosts \cup {"none"}
      PROVE  /\ F(kind, host) \in Calls /\ F(kind, host).kind = kind
             /\ F(kind, host).host = host /\ F(kind, host).first = g.syns
             /\ F(kind, host).end = 0
  <2> DEFINE m == call.number + 1
  <2>1. m \in Nat
    BY <1>1 DEF Calls
  <2>2. F(kind, host) = [NoCall EXCEPT !.kind = kind, !.host = host, !.first = g.syns,
                                       !.number = m]
    BY DEF Fresh
  <2> HIDE DEF m, F
  <2>3. NoCall \in Calls /\ NoCall.end = 0
    BY NoCallType
  <2> DEFINE d == [NoCall EXCEPT !.kind = kind, !.host = host, !.first = g.syns, !.number = m]
  <2>6. kind \in {"none", "http", "https", "tcp"} /\ g.syns \in Nat
    BY <1>1
  <2>4. d \in Calls
    BY <2>1, <2>3, <2>6 DEF Calls
  <2>5. d.kind = kind /\ d.host = host /\ d.first = g.syns /\ d.end = NoCall.end
    BY <2>3 DEF Calls
  <2> QED BY <2>2, <2>3, <2>4, <2>5
<1> HIDE DEF F
<1>3. ASSUME NEW d \in Calls, d.pc \in {"query", "connect"}, d.kind \in {"http", "https", "tcp"},
             d.first = g.syns, d.end = 0, d.pc = "query" => d.host \in Hosts,
             NEW r, r.syns = g.syns, d.kind # "tcp" => ~r.payload_acked, NEW t
      PROVE  CallOK(peers, r, t, d) /\ ~Busy(d)
  <2>1. Point(d) = d.pc /\ ~Busy(d)
    BY <1>3, Points
  <2>2. Stage(d) = -1 /\ ~Connection(d)
    BY <1>3, <2>1, Stages
  <2>3. ConnectionOK(peers, r, t, d) /\ StageOK(peers, r, d)
    BY <2>2 DEF ConnectionOK, StageOK
  <2>4. NameOK(d) /\ EndOK(r, d) /\ AckOK(peers, r, d) /\ FlowOK(d)
    BY <1>3, <2>1 DEF NameOK, EndOK, AckOK, FlowOK
  <2>5. d.first <= r.syns
    BY <1>1, <1>3
  <2> QED BY <2>1, <2>3, <2>4, <2>5 DEF CallOK
<1>4. ASSUME NEW kind \in {"http", "https"}, NEW h \in Hosts, GetUrl(kind, h)
      PROVE  IInv'
  <2> DEFINE c == F(kind, h)
             d == [c EXCEPT !.pc = "query", !.dns_left = DnsTries]
             r == Forgotten(g)
             t == IF kind = "https" THEN NewSession ELSE tls
  <2>1. g' = r /\ tls' = t /\ call' = d /\ UNCHANGED <<nic, wire, peers, faults>>
    BY <1>4 DEF GetUrl, F
  <2>2. /\ c \in Calls /\ c.kind = kind /\ c.host = h /\ c.first = g.syns /\ c.end = 0
    BY <1>2
  <2>3. DnsTries \in 0..DnsTries
    BY TriesAssumption
  <2> HIDE DEF c
  <2>4. /\ d \in Calls /\ d.pc = "query" /\ d.kind = kind /\ d.host = h /\ d.first = g.syns
        /\ d.end = 0
    BY <2>2, <2>3 DEF Calls, Waits
  <2>5. r \in Nets
    BY <1>1, EmptyType DEF Nets, Forgotten
  <2>6. /\ r.syns = g.syns /\ ~r.payload_acked /\ r.last_ack = g.last_ack
        /\ r.synack = g.synack /\ r.local_port = g.local_port /\ r.target_port = g.target_port
        /\ r.http_response = <<>>
    BY <1>1 DEF Nets, Forgotten
  <2>7. SessionOK(t)
    BY <1>1, NewSessionOK
  <2> HIDE DEF d, r, t
  <2>8. NetOK(r) /\ Known(peers, r)
    <3>1. Len(r.http_response) = 0
      BY <2>6, EmptyType
    <3> QED BY <1>1, <2>5, <2>6, <3>1 DEF NetOK, Known
  <2>9. CallOK(peers, r, t, d) /\ ~Busy(d)
    BY <1>3, <2>4, <2>6
  <2>10. MachineOK
    BY <1>1, <2>1, <2>4, <2>6, <2>7, <2>8, <2>9 DEF MachineOK
  <2>11. faults' \in 0..MaxFaults
    BY <1>1, <2>1
  <2> QED BY <2>1, <2>10, <2>11, CallStep
<1>5. ASSUME ConnectDns PROVE IInv'
  <2> DEFINE c == F("tcp", "none")
             l == <<NameServer>>
             d == [c EXCEPT !.pc = "connect", !.targets = l]
  <2>1. call' = d /\ UNCHANGED <<g, tls, nic, wire, peers, faults>>
    BY <1>5 DEF ConnectDns, F
  <2>2. c \in Calls /\ c.kind = "tcp" /\ c.host = "none" /\ c.first = g.syns /\ c.end = 0
    BY <1>2
  <2>3. l \in Seq(Addresses)
    BY DEF Addresses
  <2> HIDE DEF c, l
  <2>4. /\ d \in Calls /\ d.pc = "connect" /\ d.kind = "tcp" /\ d.first = g.syns /\ d.end = 0
    BY <2>2, <2>3 DEF Calls, Waits
  <2> HIDE DEF d
  <2>5. CallOK(peers, g, tls, d) /\ ~Busy(d)
    BY <1>3, <2>4
  <2>6. MachineOK
    BY <2>1, <2>4, <2>5, CallAlone
  <2>7. faults' \in 0..MaxFaults
    BY <1>1, <2>1
  <2> QED BY <2>1, <2>6, <2>7, CallStep
<1> QED BY <1>4, <1>5 DEF Caller

(* The ring is emptied. *)
LEMMA EmptiedStep ==
  ASSUME IInv, MachineOK, UNCHANGED <<wire, peers, faults>>, nic' = [nic EXCEPT !.rx = <<>>]
  PROVE  IInv'
<1>1. /\ nic \in [rx : Seq(InFrames), tx : Seq(OutFrames)] /\ Len(nic.tx) <= TxRing
      /\ faults \in 0..MaxFaults
      /\ \A i \in 1..Len(nic.tx) : SendOK(peers, g.syns, nic.tx[i])
  BY DEF IInv, Types, Leaving
<1>2. <<>> \in Seq(InFrames) /\ Len(<<>>) = 0
  OBVIOUS
<1>3. /\ nic' \in [rx : Seq(InFrames), tx : Seq(OutFrames)]
      /\ nic'.rx = <<>> /\ nic'.tx = nic.tx
  BY <1>1, <1>2
<1>4. Len(nic'.rx) < RxRing /\ \A i \in 1..Len(nic'.rx) : FrameOK(peers, nic'.rx[i])
  BY <1>2, <1>3, RingsAssumption
<1> QED BY <1>1, <1>3, <1>4, RingStep

(* Polling the ring as it is. *)
LEMMA RingPolled ==
  ASSUME IInv, NEW r, NEW t, NetOK(r), SessionOK(t), Known(peers, r)
  PROVE  Handled(peers, [g |-> r, t |-> t], Polled([g |-> r, t |-> t], nic.rx))
<1> DEFINE s == [g |-> r, t |-> t]
           rx == nic.rx
<1>1. s.g = r /\ s.t = t
  OBVIOUS
<1>2. rx \in Seq(InFrames) /\ \A i \in 1..Len(rx) : FrameOK(peers, rx[i])
  BY DEF IInv, Types, Arriving
<1>3. s = [g |-> s.g, t |-> s.t]
  OBVIOUS
<1> HIDE DEF s, rx
<1>4. StackOK(s) /\ Known(peers, s.g)
  BY <1>1 DEF StackOK
<1>5. Handled(peers, s, Polled(s, rx))
  BY <1>2, <1>3, <1>4, PolledOK
<1> QED BY <1>5 DEF s, rx

(* The poll between two attempts to send keeps the invariant. *)
LEMMA RetryPollOK ==
  ASSUME IInv, RetryPoll
  PROVE  IInv'
<1> DEFINE s == Polled([g |-> g, t |-> tls], nic.rx)
<1>1. /\ NetOK(g) /\ SessionOK(tls) /\ Known(peers, g) /\ CallOK(peers, g, tls, call)
      /\ call \in Calls
      /\ Busy(call) => call.frame \in OutFrames /\ SendOK(peers, g.syns, call.frame)
  BY DEF IInv, Types, Leaving
<1>2. /\ StackOK(s) /\ Known(peers, s.g) /\ Kept(g, s.g)
      /\ s.t.verified => tls.verified \/ Accepted(peers, g.local_port)
  BY <1>1, RingPolled DEF Handled
<1>3. /\ g' = s.g /\ tls' = s.t /\ call' = call /\ UNCHANGED <<wire, peers, faults>>
      /\ nic' = [nic EXCEPT !.rx = <<>>]
  BY DEF RetryPoll, Take, Emptied
<1> HIDE DEF s
<1>4. CallOK(peers, s.g, s.t, call)
  BY <1>1, <1>2, KeptCall
<1>5. g.syns \in Nat /\ s.g.syns = g.syns
  BY <1>1, <1>2 DEF NetOK, Nets, Kept
<1>6. MachineOK
  BY <1>1, <1>2, <1>3, <1>4, <1>5 DEF MachineOK, StackOK
<1> QED BY <1>3, <1>6, EmptiedStep

(* The poll of a waiting loop keeps it. *)
LEMMA PollOK ==
  ASSUME IInv, Poll
  PROVE  IInv'
<1> DEFINE s == Polled([g |-> g, t |-> tls], nic.rx)
           ended == EndAcked(s.g)
           c == IF ended THEN [call EXCEPT !.acked = TRUE] ELSE call
           r == [s.g EXCEPT !.payload_acked = @ \/ ended]
           d == Acknowledging(c, s.g, call.pc)
<1>1. /\ g \in Nets /\ NetOK(g) /\ SessionOK(tls) /\ Known(peers, g)
      /\ CallOK(peers, g, tls, call) /\ call \in Calls
      /\ g.syns \in Nat /\ PeersOK(peers, g.syns)
  BY DEF IInv, Types, NetOK, Nets
<1>2. /\ StackOK(s) /\ Known(peers, s.g) /\ Kept(g, s.g)
      /\ s.t.verified => tls.verified \/ Accepted(peers, g.local_port)
  BY <1>1, RingPolled DEF Handled
<1>3. /\ g' = r /\ tls' = s.t /\ UNCHANGED <<wire, peers, faults>>
      /\ nic' = [nic EXCEPT !.rx = <<>>] /\ call.pc \in Waits
      /\ \/ call' = c
         \/ call' = d /\ call.pc \in {"flight_wait", "fin_wait", "app_wait", "http_wait"}
  BY DEF Poll, Polls, Take, Emptied, At
<1>4. ended \in BOOLEAN
  BY DEF EndAcked
<1>5. ended => call.end > 0 /\ s.g.last_ack >= call.end
  BY DEF EndAcked
<1> HIDE DEF s, ended
<1>6. CallOK(peers, s.g, s.t, call)
  BY <1>1, <1>2, KeptCall
<1>7. s.g \in Nets /\ Len(s.g.http_response) <= Capture_ /\ SessionOK(s.t)
  BY <1>2 DEF StackOK, NetOK
<1>8. r \in Nets
  BY <1>4, <1>7 DEF Nets
<1>9. /\ r.syns = s.g.syns /\ r.local_port = s.g.local_port /\ r.target_port = s.g.target_port
      /\ r.last_ack = s.g.last_ack /\ r.synack = s.g.synack /\ r.local_next = s.g.local_next
      /\ r.http_response = s.g.http_response
      /\ r.payload_acked <=> s.g.payload_acked \/ ended
  BY <1>4, <1>7 DEF Nets
<1> HIDE DEF r
<1>10. ASSUME ended PROVE \E k \in DOMAIN peers : k >= call.first /\ peers[k].got # <<>>
  <2> DEFINE k == s.g.local_port
             e == call.end
             a == s.g.last_ack
  <2>1. k \in Nat /\ e \in Int /\ a \in Int /\ e > 0 /\ a >= e /\ s.g.syns = g.syns
    BY <1>1, <1>2, <1>5, <1>7, <1>10 DEF Nets, Calls, Kept
  <2>2. \/ e >= k + 2 /\ call.first <= k
        \/ k >= g.syns
    BY <1>6, <2>1 DEF CallOK, EndOK
  <2>3. a # 0
    BY <2>1
  <2>4. k \in DOMAIN peers /\ a <= k + 1 + Len(peers[k].got)
    BY <1>2, <2>3 DEF Known
  <2>5. k < g.syns /\ peers[k].got \in Seq(OutUnits)
    BY <1>1, <2>4, PeerFields
  <2> HIDE DEF k, e, a
  <2> DEFINE n == Len(peers[k].got)
  <2>6. n \in Nat
    BY <2>5
  <2>7. a <= k + 1 + n
    BY <2>4
  <2> HIDE DEF n
  <2>8. e >= k + 2 /\ call.first <= k
    BY <1>1, <2>1, <2>2, <2>5
  <2>9. n # 0
    BY <2>1, <2>6, <2>7, <2>8
  <2>10. peers[k].got # <<>>
    BY <2>9, EmptyType DEF n
  <2>11. call.first \in Nat
    BY <1>1 DEF Calls
  <2> QED BY <2>1, <2>4, <2>8, <2>10, <2>11
<1>11. CallOK(peers, r, s.t, call)
  <2>1. ConnectionOK(peers, r, s.t, call)
    BY <1>6, <1>9 DEF CallOK, ConnectionOK
  <2>2. StageOK(peers, r, call)
    BY <1>6, <1>9 DEF CallOK, StageOK
  <2>3. EndOK(r, call)
    BY <1>6, <1>9 DEF CallOK, EndOK
  <2>4. AckOK(peers, r, call)
    BY <1>6, <1>9, <1>10 DEF CallOK, AckOK
  <2> QED BY <1>6, <1>9, <2>1, <2>2, <2>3, <2>4 DEF CallOK
<1>12. /\ c \in Calls /\ c.pc = call.pc /\ c.kind = call.kind /\ c.host = call.host
       /\ c.first = call.first /\ c.targets = call.targets /\ c.end = call.end
  <2> DEFINE e == [call EXCEPT !.acked = TRUE]
  <2>1. e \in Calls
    BY <1>1 DEF Calls
  <2>2. /\ e.pc = call.pc /\ e.kind = call.kind /\ e.host = call.host
        /\ e.first = call.first /\ e.targets = call.targets /\ e.end = call.end
    BY <1>1 DEF Calls
  <2>3. c = e \/ c = call
    OBVIOUS
  <2> HIDE DEF c, e
  <2> QED BY <1>1, <2>1, <2>2, <2>3
<1> HIDE DEF c
<1>13. Point(call) = call.pc /\ call.kind # "none" /\ ~Busy(c) /\ Point(c) = call.pc
  <2>1. call.pc \notin {"send", "tx", "idle"}
    BY <1>3 DEF Waits
  <2> QED BY <1>1, <1>12, <2>1, Points DEF CallOK, FlowOK
<1>14. NetOK(r) /\ Known(peers, r) /\ g.syns <= r.syns
  BY <1>1, <1>2, <1>7, <1>8, <1>9 DEF NetOK, Known, Kept
<1>15. CASE call' = c
  <2>1. FlowOK(c)
    BY <1>12, <1>13 DEF FlowOK
  <2>2. CallOK(peers, r, s.t, c)
    BY <1>11, <1>12, <1>13, <2>1, SamePoint
  <2>3. MachineOK
    BY <1>3, <1>7, <1>12, <1>13, <1>14, <1>15, <2>2 DEF MachineOK
  <2> QED BY <1>3, <2>3, EmptiedStep
<1>16. CASE call' = d /\ call.pc \in {"flight_wait", "fin_wait", "app_wait", "http_wait"}
  <2>1. /\ d \in Calls /\ d.pc = "send" /\ d.what = "ack" /\ d.frame = AckFrame(s.g)
        /\ d.back = call.pc /\ d.kind = c.kind /\ d.host = c.host /\ d.first = c.first
        /\ d.targets = c.targets /\ d.end = c.end
    <3>1. call.pc \in Backs
      BY <1>16 DEF Backs
    <3>2. c \in Calls /\ s.g \in Nets
      BY <1>7, <1>12
    <3> QED BY <3>1, <3>2, AcknowledgingType
  <2>2. d.frame \in OutFrames /\ SendOK(peers, r.syns, d.frame)
    BY <1>7, <2>1, AckFrameType
  <2>3. call' = d
    BY <1>16
  <2> HIDE DEF d
  <2>4. Point(d) = call.pc
    BY <2>1, Points
  <2>5. FlowOK(d)
    BY <1>12, <1>13, <1>16, <2>1 DEF FlowOK
  <2>6. CallOK(peers, r, s.t, d)
    BY <1>11, <1>12, <1>13, <2>1, <2>4, <2>5, SamePoint
  <2>7. MachineOK
    BY <1>3, <1>7, <1>14, <2>1, <2>2, <2>3, <2>6 DEF MachineOK
  <2> QED BY <1>3, <2>7, EmptiedStep
<1> QED BY <1>3, <1>15, <1>16

(* A connection is begun: a new local port, of which nothing is known. *)
LEMMA ConnectingOK ==
  ASSUME IInv, call.targets # <<>>
  PROVE  LET r == Connecting(g)
         IN /\ NetOK(r) /\ Known(peers, r) /\ r.syns = g.syns /\ r.local_port = g.syns
            /\ r.target_port = PortOf(call) /\ r.target_ip \in Addresses
            /\ r.payload_acked = g.payload_acked
<1> DEFINE r == Connecting(g)
           h == Head(call.targets)
<1>1. g \in Nets /\ Len(g.http_response) <= Capture_ /\ call.targets \in Seq(Addresses)
  BY DEF IInv, Types, NetOK, Calls
<1>2. h \in Addresses
  <2> DEFINE s == call.targets
  <2>1. s \in Seq(Addresses) /\ s # <<>>
    BY <1>1
  <2> HIDE DEF s
  <2>2. Head(s) \in Addresses
    BY <2>1, TailType
  <2> QED BY <2>2 DEF s
<1> HIDE DEF h
<1>3. Port \in Nat /\ Port = PortOf(call)
  BY DEF Port, PortOf, HTTP, TLS, DNS
<1>4. r = [g EXCEPT !.target_ip = h, !.target_port = Port, !.local_port = g.syns,
                    !.synack = FALSE, !.last_ack = 0, !.last_seq = 0]
  BY DEF Connecting, h
<1> HIDE DEF r
<1>5. r \in Nets
  <2> DEFINE p == Port
  <2>1. p \in Nat /\ h \in Addresses /\ 0 \in Int
    BY <1>2, <1>3
  <2>2. g.syns \in Nat
    BY <1>1 DEF Nets
  <2>3. r = [g EXCEPT !.target_ip = h, !.target_port = p, !.local_port = g.syns,
                      !.synack = FALSE, !.last_ack = 0, !.last_seq = 0]
    BY <1>4
  <2> HIDE DEF p
  <2> QED BY <1>1, <2>1, <2>2, <2>3 DEF Nets
<1>6. /\ r.syns = g.syns /\ r.local_port = g.syns /\ r.target_port = Port /\ r.target_ip = h
      /\ r.payload_acked = g.payload_acked /\ r.http_response = g.http_response
      /\ r.last_ack = 0 /\ ~r.synack
  BY <1>1, <1>4 DEF Nets
<1>7. NetOK(r) /\ Known(peers, r)
  BY <1>1, <1>5, <1>6 DEF NetOK, Known
<1> QED BY <1>2, <1>3, <1>6, <1>7 DEF r

(* Dialing keeps it: the new connection is one that no peer has heard of. *)
LEMMA ConnectOK ==
  ASSUME IInv, Connect
  PROVE  IInv'
<1> DEFINE r == Connecting(g)
           t == IF call.kind = "https" THEN TranscriptReset(tls) ELSE tls
           s == Polled([g |-> r, t |-> t], nic.rx)
           q == [s.g EXCEPT !.syns = @ + 1]
           l == Tail(call.targets)
           b == [call EXCEPT !.targets = l, !.acked = FALSE, !.end = 0]
           f == SynFrame(r)
           d == Sending(b, "syn", f, TxTries)
<1>1. /\ g' = q /\ tls' = s.t /\ call' = d /\ UNCHANGED <<wire, peers, faults>>
      /\ nic' = [nic EXCEPT !.rx = <<>>] /\ call.targets # <<>> /\ call.pc = "connect"
  BY DEF Connect, Dials, world, At
<1>2. /\ g \in Nets /\ g.syns \in Nat /\ SessionOK(tls) /\ call \in Calls
      /\ CallOK(peers, g, tls, call) /\ call.targets \in Seq(Addresses)
  BY DEF IInv, Types, NetOK, Nets, Calls
<1>3. /\ NetOK(r) /\ Known(peers, r) /\ r.syns = g.syns /\ r.local_port = g.syns
      /\ r.target_port = PortOf(call) /\ r.target_ip \in Addresses
      /\ r.payload_acked = g.payload_acked
  BY <1>1, ConnectingOK
<1>4. SessionOK(t) /\ (call.kind = "https" => ~t.verified)
  BY <1>2, ResetOK
<1> HIDE DEF r, t
<1>5. Handled(peers, [g |-> r, t |-> t], s)
  BY <1>3, <1>4, RingPolled
<1> HIDE DEF s
<1>6. /\ StackOK(s) /\ Known(peers, s.g) /\ Kept(r, s.g)
      /\ s.t.verified => t.verified \/ Accepted(peers, r.local_port)
  <2> DEFINE e == [g |-> r, t |-> t]
  <2>1. e.g = r /\ e.t = t
    OBVIOUS
  <2>2. Handled(peers, e, s)
    BY <1>5
  <2> HIDE DEF e
  <2> QED BY <2>1, <2>2 DEF Handled
<1>7. s.g \in Nets /\ Len(s.g.http_response) <= Capture_ /\ SessionOK(s.t)
  BY <1>6 DEF StackOK, NetOK
<1>8. q \in Nets
  <2> DEFINE m == s.g.syns + 1
  <2>1. m \in Nat
    BY <1>7 DEF Nets
  <2>2. q = [s.g EXCEPT !.syns = m]
    OBVIOUS
  <2> HIDE DEF m, q
  <2> QED BY <1>7, <2>1, <2>2 DEF Nets
<1>9. /\ q.syns = g.syns + 1 /\ q.local_port = g.syns /\ q.target_port = PortOf(call)
      /\ q.last_ack = s.g.last_ack /\ q.synack = s.g.synack
      /\ q.http_response = s.g.http_response /\ q.payload_acked = g.payload_acked
      /\ q.local_port = s.g.local_port /\ q.target_port = s.g.target_port
  BY <1>3, <1>6, <1>7 DEF Nets, Kept
<1> HIDE DEF q
<1>10. NetOK(q) /\ Known(peers, q)
  BY <1>6, <1>7, <1>8, <1>9 DEF NetOK, Known
<1>11. f \in OutFrames /\ SendOK(peers, q.syns, f)
  <2>1. f = [type |-> "syn", ip |-> r.target_ip, port |-> r.target_port,
             local |-> r.local_port, seq |-> r.syns]
    BY DEF SynFrame
  <2>2. PortOf(call) \in Nat
    BY DEF PortOf, HTTP, TLS, DNS
  <2> HIDE DEF f
  <2>3. f \in [type : {"syn"}, ip : Addresses, port : Nat, local : Nat, seq : Nat]
    BY <1>2, <1>3, <2>1, <2>2
  <2>4. f.type = "syn" /\ f.local = g.syns /\ f.seq = g.syns
    BY <1>3, <2>1
  <2>5. f \in OutFrames
    BY <2>3 DEF OutFrames
  <2>6. f.local < q.syns /\ f.seq = f.local
    <3>1. g.syns \in Nat /\ q.syns = g.syns + 1
      BY <1>2, <1>9
    <3> DEFINE n == q.syns
    <3>2. f.local = g.syns /\ f.seq = g.syns /\ n = g.syns + 1
      BY <2>4, <3>1
    <3> HIDE DEF n
    <3>3. f.local < n
      BY <3>1, <3>2
    <3> QED BY <3>2, <3>3 DEF n
  <2>7. f.type # "data"
    BY <2>4
  <2> QED BY <2>5, <2>6, <2>7 DEF SendOK
<1> HIDE DEF f
<1>12. l \in Seq(Addresses)
  <2> DEFINE a == call.targets
  <2>1. a \in Seq(Addresses) /\ a # <<>>
    BY <1>1, <1>2
  <2> HIDE DEF a
  <2>2. Tail(a) \in Seq(Addresses)
    BY <2>1, TailType
  <2> QED BY <2>2 DEF a
<1> HIDE DEF l
<1>13. b \in Calls /\ b.kind = call.kind /\ b.first = call.first /\ b.end = 0
  <2>1. 0 \in Int /\ FALSE \in BOOLEAN
    OBVIOUS
  <2>2. b = [call EXCEPT !.targets = l, !.acked = FALSE, !.end = 0]
    OBVIOUS
  <2> HIDE DEF b
  <2>3. b \in Calls
    BY <1>2, <1>12, <2>1, <2>2 DEF Calls
  <2>4. b.kind = call.kind /\ b.first = call.first /\ b.end = 0
    BY <1>2, <2>2 DEF Calls
  <2> QED BY <2>3, <2>4
<1> HIDE DEF b
<1>14. /\ d \in Calls /\ d.pc = "send" /\ d.what = "syn" /\ d.frame = f
       /\ d.kind = call.kind /\ d.first = call.first /\ d.end = 0
  <2>1. "syn" \in Whats /\ TxTries \in 0..TxTries
    BY TriesAssumption DEF Whats
  <2> QED BY <1>11, <1>13, <2>1, SendingType
<1> HIDE DEF d
<1>15. Point(d) = "syn" /\ Busy(d) /\ Stage(d) = -1 /\ PortOf(d) = PortOf(call)
  <2>1. Point(d) = "syn" /\ Busy(d)
    BY <1>14, Points
  <2> QED BY <1>14, <2>1, Stages DEF PortOf
<1>16. d.first \in Nat /\ d.first <= g.syns /\ d.kind # "none"
  BY <1>1, <1>2, <1>14 DEF CallOK, FlowOK, Calls
<1>17. ConnectionOK(peers, q, s.t, d)
  <2>1. q.syns = q.local_port + 1 /\ d.first <= q.local_port /\ q.target_port = PortOf(d)
    BY <1>9, <1>15, <1>16
  <2>2. d.kind = "https" /\ s.t.verified => Accepted(peers, q.local_port)
    BY <1>3, <1>4, <1>6, <1>9, <1>14
  <2> QED BY <2>1, <2>2 DEF ConnectionOK
<1>18. StageOK(peers, q, d) /\ NameOK(d) /\ EndOK(q, d) /\ FlowOK(d)
  BY <1>14, <1>15, <1>16 DEF StageOK, NameOK, EndOK, FlowOK
<1>19. AckOK(peers, q, d)
  BY <1>2, <1>9, <1>14 DEF CallOK, AckOK
<1>20. d.first <= q.syns /\ g.syns <= q.syns
  BY <1>2, <1>9, <1>16
<1>21. CallOK(peers, q, s.t, d)
  BY <1>17, <1>18, <1>19, <1>20 DEF CallOK
<1>22. MachineOK
  BY <1>1, <1>7, <1>10, <1>11, <1>14, <1>20, <1>21 DEF MachineOK
<1> QED BY <1>1, <1>22, EmptiedStep

(* The orders of units, spelled out. *)
LEMMA Orders ==
  /\ Len(Order(HTTP)) = 1 /\ Order(HTTP)[1] = "get"
  /\ Len(Order(TLS)) = 4 /\ Order(TLS)[1] = "CH" /\ Order(TLS)[2] = "CKE"
  /\ Order(TLS)[3] = "finished" /\ Order(TLS)[4] = "sealed get"
<1> DEFINE o == <<"CH", "CKE", "finished", "sealed get">>
           e == <<"get">>
<1>1. /\ Len(o) = 4 /\ o[1] = "CH" /\ o[2] = "CKE" /\ o[3] = "finished"
      /\ o[4] = "sealed get" /\ Len(e) = 1 /\ e[1] = "get"
  OBVIOUS
<1>2. HTTP # TLS
  BY DEF HTTP, TLS
<1>3. Order(HTTP) = CASE HTTP = HTTP -> e [] HTTP = TLS -> o [] OTHER -> <<>>
  BY DEF Order
<1>4. Order(TLS) = CASE TLS = HTTP -> e [] TLS = TLS -> o [] OTHER -> <<>>
  BY DEF Order
<1> HIDE DEF o, e
<1>5. Order(HTTP) = e
  BY <1>2, <1>3
<1>6. Order(TLS) = o
  BY <1>2, <1>4
<1> QED BY <1>1, <1>5, <1>6

-----------------------------------------------------------------------------
(***************************************************************************)
(* The steps of a call.                                                    *)
(***************************************************************************)
Same == UNCHANGED <<g, tls, nic, wire, peers>> /\ faults' \in 0..MaxFaults

(* What a call under way is known to be. *)
LEMMA UnderWay ==
  ASSUME IInv
  PROVE  /\ call \in Calls /\ CallOK(peers, g, tls, call) /\ NetOK(g) /\ g \in Nets
         /\ SessionOK(tls) /\ Known(peers, g) /\ g.syns \in Nat /\ faults \in 0..MaxFaults
         /\ g.local_port \in Nat /\ g.local_next \in Int
         /\ call.pc # "idle" => call.kind # "none"
BY DEF IInv, Types, NetOK, Nets, CallOK, FlowOK

(* A call goes where it has no connection. *)
LEMMA GoOK ==
  ASSUME IInv, call.pc # "idle", Same,
         NEW pc \in {"query", "ask", "connect", "fail", "arp_wait", "dns_wait"},
         pc \in {"query", "ask", "dns_wait"} \/ (pc = "arp_wait" /\ call.targets = <<>>)
            => call.host \in Hosts,
         call' = Go(pc)
  PROVE  IInv'
<1> DEFINE d == Go(pc)
<1>1. pc \in Pcs
  BY DEF Pcs, Waits
<1>2. /\ d \in Calls /\ d.pc = pc /\ d.kind = call.kind /\ d.host = call.host
      /\ d.first = call.first /\ d.targets = call.targets /\ d.end = call.end
  BY <1>1, UnderWay, GoType
<1>3. call' = d
  OBVIOUS
<1> HIDE DEF d
<1>4. Point(d) = pc /\ ~Busy(d)
  BY <1>2, Points
<1>5. FlowOK(d) /\ NameOK(d)
  BY <1>2, <1>4, UnderWay DEF FlowOK, NameOK
<1>6. CallOK(peers, g, tls, d)
  BY <1>2, <1>4, <1>5, UnderWay, Elsewhere
<1>7. MachineOK
  BY <1>2, <1>3, <1>4, <1>6, CallAlone DEF Same
<1> QED BY <1>7, CallStep DEF Same

(* A call returns. *)
LEMMA ReturnOK ==
  ASSUME IInv, Same, NEW ok \in BOOLEAN, call' = Return(ok)
  PROVE  IInv'
<1> DEFINE d == Return(ok)
<1>1. d \in Calls /\ d.pc = "idle" /\ d.kind = call.kind /\ d.first = call.first /\ d.end = 0
  BY UnderWay, ReturnType
<1>2. call' = d
  OBVIOUS
<1> HIDE DEF d
<1>3. Point(d) = "idle" /\ ~Busy(d)
  BY <1>1, Points
<1>4. FlowOK(d) /\ NameOK(d)
  BY <1>1, <1>3 DEF FlowOK, NameOK
<1>5. CallOK(peers, g, tls, d)
  BY <1>1, <1>3, <1>4, UnderWay, Elsewhere
<1>6. MachineOK
  BY <1>1, <1>2, <1>3, <1>5, CallAlone DEF Same
<1> QED BY <1>6, CallStep DEF Same

(* A call that sends something. *)
LEMMA SendsType ==
  ASSUME NEW c \in Calls, c.kind # "none", NEW what \in Whats \ {"ack"}, NEW f \in OutFrames,
         NEW tries \in 0..TxTries, NEW d, d = Sending(c, what, f, tries)
  PROVE  /\ d \in Calls /\ Busy(d) /\ Point(d) = what /\ d.frame = f /\ FlowOK(d)
         /\ d.kind = c.kind /\ d.host = c.host /\ d.first = c.first
         /\ d.targets = c.targets /\ d.end = c.end
<1>1. /\ d \in Calls /\ d.pc = "send" /\ d.what = what /\ d.frame = f
      /\ d.kind = c.kind /\ d.host = c.host /\ d.first = c.first
      /\ d.targets = c.targets /\ d.end = c.end
  BY SendingType
<1>2. what # "ack"
  OBVIOUS
<1>3. Busy(d) /\ Point(d) = what
  BY <1>1, <1>2, Points
<1> QED BY <1>1, <1>2, <1>3 DEF FlowOK

(* Subtraction, as the places of units need it. *)
LEMMA Difference ==
  ASSUME NEW a \in Int, NEW b \in Int, NEW i \in Int, a = b + i
  PROVE  a - b = i
OBVIOUS

(* The i-th unit of payload for the server of connection k. *)
Due(ps, k, i, unit) ==
    /\ k \in DOMAIN ps /\ i \in 1..Len(Order(ps[k].port)) /\ unit.u = Order(ps[k].port)[i]
    /\ unit.u = "sealed get" => Accepted(ps, k)

(* A data segment that carries the unit due at its place is sound. *)
LEMMA DataOK ==
  ASSUME NEW ps, NEW n, NEW k \in Nat, NEW i \in Nat, NEW unit \in OutUnits,
         Due(ps, k, i, unit), NEW seq \in Int, seq = k + i,
         NEW f, f = [type |-> "data", local |-> k, seq |-> seq, data |-> unit]
  PROVE  f \in OutFrames /\ SendOK(ps, n, f)
<1>1. f \in [type : {"data"}, local : Nat, seq : Int, data : OutUnits]
  OBVIOUS
<1>2. f.type = "data" /\ f.local = k /\ f.seq = seq /\ f.data = unit
  OBVIOUS
<1>3. f.seq - f.local = i
  BY <1>2, Difference
<1>4. SendOK(ps, n, f)
  BY <1>2, <1>3 DEF SendOK, Due
<1> QED BY <1>1, <1>4 DEF OutFrames

(* The places of the units. *)
LEMMA Places ==
  /\ 1 \in 1..Len(Order(HTTP)) /\ 1 \in 1..Len(Order(TLS)) /\ 2 \in 1..Len(Order(TLS))
  /\ 3 \in 1..Len(Order(TLS)) /\ 4 \in 1..Len(Order(TLS))
<1> DEFINE m == Len(Order(HTTP))
           n == Len(Order(TLS))
<1>1. m = 1 /\ n = 4
  BY Orders
<1> HIDE DEF m, n
<1>2. 1 \in 1..m /\ 1 \in 1..n /\ 2 \in 1..n /\ 3 \in 1..n /\ 4 \in 1..n
  BY <1>1
<1> QED BY <1>2 DEF m, n

(* Which unit is due at which place of which connection. *)
LEMMA Dues ==
  ASSUME NEW ps, NEW k, k \in DOMAIN ps, NEW unit
  PROVE  /\ ps[k].port = HTTP /\ unit.u = "get" => Due(ps, k, 1, unit)
         /\ ps[k].port = TLS =>
              /\ unit.u = "CH" => Due(ps, k, 1, unit)
              /\ unit.u = "CKE" => Due(ps, k, 2, unit)
              /\ unit.u = "finished" => Due(ps, k, 3, unit)
              /\ unit.u = "sealed get" /\ Accepted(ps, k) => Due(ps, k, 4, unit)
<1>1. ASSUME ps[k].port = HTTP, unit.u = "get" PROVE Due(ps, k, 1, unit)
  <2>1. unit.u # "sealed get"
    BY <1>1
  <2>2. unit.u = Order(HTTP)[1]
    BY <1>1, Orders, Zenon
  <2> QED BY <1>1, <2>1, <2>2, Places, Zenon DEF Due
<1>2. ASSUME ps[k].port = TLS, unit.u = "CH" PROVE Due(ps, k, 1, unit)
  <2>1. unit.u # "sealed get"
    BY <1>2
  <2>2. unit.u = Order(TLS)[1]
    BY <1>2, Orders, Zenon
  <2> QED BY <1>2, <2>1, <2>2, Places, Zenon DEF Due
<1>3. ASSUME ps[k].port = TLS, unit.u = "CKE" PROVE Due(ps, k, 2, unit)
  <2>1. unit.u # "sealed get"
    BY <1>3
  <2>2. unit.u = Order(TLS)[2]
    BY <1>3, Orders, Zenon
  <2> QED BY <1>3, <2>1, <2>2, Places, Zenon DEF Due
<1>4. ASSUME ps[k].port = TLS, unit.u = "finished" PROVE Due(ps, k, 3, unit)
  <2>1. unit.u # "sealed get"
    BY <1>4
  <2>2. unit.u = Order(TLS)[3]
    BY <1>4, Orders, Zenon
  <2> QED BY <1>4, <2>1, <2>2, Places, Zenon DEF Due
<1>5. ASSUME ps[k].port = TLS, unit.u = "sealed get", Accepted(ps, k)
      PROVE  Due(ps, k, 4, unit)
  <2>1. unit.u = Order(TLS)[4]
    BY <1>5, Orders, Zenon
  <2> QED BY <1>5, <2>1, Places, Zenon DEF Due
<1> QED BY <1>1, <1>2, <1>3, <1>4, <1>5

(* The ARP request is a sound frame. *)
LEMMA ArpType ==
  ASSUME NEW ps, NEW n
  PROVE  ArpFrame \in OutFrames /\ SendOK(ps, n, ArpFrame)
<1>1. ArpFrame \in [type : {"arp"}] /\ ArpFrame.type = "arp"
  BY DEF ArpFrame
<1> QED BY <1>1 DEF OutFrames, SendOK

(* The DNS query is a sound frame. *)
LEMMA DnsType ==
  ASSUME call.host \in Hosts, NEW ps, NEW n
  PROVE  DnsFrame \in OutFrames /\ SendOK(ps, n, DnsFrame)
<1>1. DnsFrame \in [type : {"dns"}, host : Hosts] /\ DnsFrame.type = "dns"
  BY DEF DnsFrame
<1> QED BY <1>1 DEF OutFrames, SendOK

(* The addresses to try, Rounds times over them when the page is not secure. *)
LEMMA TargetsType ==
  ASSUME NEW r \in Nets
  PROVE  Targets(r) \in Seq(Addresses)
<1> DEFINE ips == IF r.dns_ips = <<>> THEN <<r.dns_last>> ELSE r.dns_ips
           n == Len(ips)
           R == [i \in 1..Rounds * n |-> ips[((i - 1) % n) + 1]]
<1>1. ips \in Seq(Addresses) /\ ips # <<>>
  <2>1. r.dns_ips \in Seq(Ips) /\ r.dns_last \in Addresses
    BY DEF Nets
  <2>2. <<r.dns_last>> \in Seq(Addresses) /\ <<r.dns_last>> # <<>>
    BY <2>1
  <2>3. r.dns_ips \in Seq(Addresses)
    BY <2>1 DEF Addresses
  <2> QED BY <2>2, <2>3
<1>2. Targets(r) = IF call.kind = "http" THEN R ELSE ips
  BY DEF Targets
<1> HIDE DEF ips
<1>3. n \in Nat \ {0} /\ \A j \in 1..n : ips[j] \in Addresses
  BY <1>1
<1>4. \A i \in 1..Rounds * n : ips[((i - 1) % n) + 1] \in Addresses
  <2> HIDE DEF n
  <2> TAKE i \in 1..Rounds * n
  <2> DEFINE j == ((i - 1) % n) + 1
  <2>0. Rounds \in Nat
    BY TriesAssumption
  <2>1. i - 1 \in Nat
    BY <1>3, <2>0
  <2> DEFINE k == i - 1
  <2>2. k \in Nat
    BY <2>1
  <2> HIDE DEF k
  <2>3. k % n \in 0..n - 1
    BY <1>3, <2>2
  <2>4. j \in 1..n
    BY <1>3, <2>3 DEF k
  <2> QED BY <1>3, <2>4
<1>5. Rounds * n \in Nat
  <2>1. Rounds \in Nat
    BY TriesAssumption
  <2> QED BY <1>3, <2>1
<1>6. R \in Seq(Addresses)
  <2> DEFINE m == Rounds * n
             e(i) == ips[((i - 1) % n) + 1]
  <2>1. m \in Nat /\ \A i \in 1..m : e(i) \in Addresses
    BY <1>4, <1>5
  <2>2. R = [i \in 1..m |-> e(i)]
    OBVIOUS
  <2> HIDE DEF m, e, R
  <2> QED BY <2>1, <2>2
<1> HIDE DEF R
<1> QED BY <1>1, <1>2, <1>6

(* The steps without a connection: asking for a name and for an address.     *)
LEMMA QueryOK ==
  ASSUME IInv, Query
  PROVE  IInv'
<1>0. call.pc = "query" /\ UNCHANGED <<g, tls, nic, wire, peers, faults>>
  BY DEF Query, At, world
<1>1. Point(call) = "query" /\ call.host \in Hosts /\ call.kind # "none" /\ Same
  <2>1. Point(call) = "query" /\ Same
    BY <1>0, Points, UnderWay DEF Same
  <2> QED BY <1>0, <2>1, UnderWay DEF CallOK, NameOK
<1> DEFINE l == Targets(g)
           v == [call EXCEPT !.pc = "connect", !.targets = l]
           m == call.dns_left - 1
           c == [call EXCEPT !.dns_left = m]
           a == [c EXCEPT !.pc = "ask"]
           s == Sending(c, "arp", ArpFrame, 1)
<1>2. call' = v \/ call' = Go("fail") \/ (call.dns_left # 0 /\ (call' = a \/ call' = s))
  <2>1. CASE g.dns_valid
    BY <1>0, <2>1 DEF Query
  <2>2. CASE ~g.dns_valid /\ call.dns_left = 0
    BY <1>0, <2>2 DEF Query
  <2>3. CASE ~g.dns_valid /\ call.dns_left # 0
    BY <1>0, <2>3 DEF Query
  <2> QED BY <2>1, <2>2, <2>3
<1>3. ASSUME NEW d \in Calls, Point(d) \in {"connect", "ask", "arp"}, call' = d,
             d.kind = call.kind, d.host = call.host, d.first = call.first, d.end = call.end,
             FlowOK(d), Busy(d) => d.frame \in OutFrames /\ SendOK(peers, g.syns, d.frame)
      PROVE  IInv'
  <2>1. NameOK(d)
    BY <1>1, <1>3 DEF NameOK
  <2>2. CallOK(peers, g, tls, d)
    BY <1>3, <2>1, UnderWay, Elsewhere
  <2>3. MachineOK
    BY <1>1, <1>3, <2>2, CallAlone DEF Same
  <2> QED BY <1>1, <2>3, CallStep DEF Same
<1>4. CASE call' = v
  <2>1. l \in Seq(Addresses)
    BY UnderWay, TargetsType
  <2> HIDE DEF l
  <2>2. v \in Calls
    BY <2>1, UnderWay DEF Calls, Waits
  <2>3. /\ v.pc = "connect" /\ v.kind = call.kind /\ v.host = call.host /\ v.first = call.first
        /\ v.end = call.end
    BY UnderWay DEF Calls
  <2>4. call' = v
    BY <1>4
  <2> HIDE DEF v
  <2>5. Point(v) = "connect" /\ ~Busy(v)
    BY <2>3, Points
  <2>6. FlowOK(v)
    BY <1>1, <2>3, <2>5 DEF FlowOK
  <2> QED BY <1>1, <1>3, <2>2, <2>3, <2>4, <2>5, <2>6
<1>5. CASE call' = Go("fail")
  BY <1>0, <1>1, <1>5, GoOK
<1>6. ASSUME call.dns_left # 0
      PROVE  /\ c \in Calls /\ c.kind = call.kind /\ c.host = call.host /\ c.first = call.first
             /\ c.end = call.end
  <2>1. call.dns_left \in 0..DnsTries /\ DnsTries \in Nat
    BY UnderWay, TriesAssumption DEF Calls
  <2>2. m \in 0..DnsTries
    BY <1>6, <2>1
  <2> HIDE DEF m
  <2> QED BY <2>2, UnderWay DEF Calls
<1> HIDE DEF c
<1>7. CASE call.dns_left # 0 /\ call' = a
  <2>0. c \in Calls /\ c.kind = call.kind /\ c.host = call.host /\ c.first = call.first
        /\ c.end = call.end
    BY <1>6, <1>7
  <2>2. a \in Calls
    BY <2>0 DEF Calls, Waits
  <2>3. /\ a.pc = "ask" /\ a.kind = call.kind /\ a.host = call.host /\ a.first = call.first
        /\ a.end = call.end
    BY <2>0 DEF Calls
  <2>4. call' = a
    BY <1>7
  <2> HIDE DEF a
  <2>5. Point(a) = "ask" /\ ~Busy(a)
    BY <2>3, Points
  <2>6. FlowOK(a)
    BY <1>1, <2>3, <2>5 DEF FlowOK
  <2> QED BY <1>1, <1>3, <2>2, <2>3, <2>4, <2>5, <2>6
<1>8. CASE call.dns_left # 0 /\ call' = s
  <2>0. c \in Calls /\ c.kind = call.kind /\ c.host = call.host /\ c.first = call.first
        /\ c.end = call.end /\ c.kind # "none"
    BY <1>1, <1>6, <1>8
  <2>1. call' = s
    BY <1>8
  <2>2. "arp" \in Whats \ {"ack"} /\ 1 \in 0..TxTries
    BY TriesAssumption DEF Whats
  <2>3. ArpFrame \in OutFrames /\ SendOK(peers, g.syns, ArpFrame)
    BY ArpType
  <2>4. /\ s \in Calls /\ Busy(s) /\ Point(s) = "arp" /\ s.frame = ArpFrame /\ FlowOK(s)
        /\ s.kind = c.kind /\ s.host = c.host /\ s.first = c.first /\ s.end = c.end
    BY <2>0, <2>2, <2>3, SendsType
  <2> HIDE DEF s
  <2> QED BY <1>1, <1>3, <2>0, <2>1, <2>3, <2>4
<1> QED BY <1>2, <1>4, <1>5, <1>7, <1>8


(* A frame is out. *)
LEMMA SentFacts ==
  ASSUME NEW what \in Whats, what # "ack", Sent(what)
  PROVE  call.pc = "tx" /\ call.what = what /\ Point(call) = what /\ Busy(call)
<1>1. call.pc = "tx" /\ call.what = what
  BY DEF Sent, At
<1> QED BY <1>1, Points

(* A wait is over: it succeeded or it was given up. *)
LEMMA LeavesFacts ==
  ASSUME IInv, NEW pc \in Waits, Ready(pc) \/ GivesUp(pc)
  PROVE  call.pc = pc /\ Point(call) = pc /\ ~Busy(call) /\ faults' \in 0..MaxFaults
<1>1. call.pc = pc
  BY DEF Ready, GivesUp, At
<1>2. pc \notin {"send", "tx"}
  BY DEF Waits
<1>3. faults' \in 0..MaxFaults
  <2>1. faults \in 0..MaxFaults /\ MaxFaults \in Nat
    BY UnderWay, SizesAssumption
  <2>2. faults' = faults \/ (faults < MaxFaults /\ faults' = faults + 1)
    BY DEF Ready, GivesUp
  <2> QED BY <2>1, <2>2
<1> QED BY <1>1, <1>2, <1>3, Points

(* The ARP request having been sent keeps the invariant. *)
LEMMA ArpSentOK ==
  ASSUME IInv, ArpSent
  PROVE  IInv'
<1>1. Sent("arp") /\ call' = Go("arp_wait") /\ UNCHANGED <<g, tls, nic, wire, peers, faults>>
  BY DEF ArpSent, world
<1>2. call.pc = "tx" /\ Point(call) = "arp" /\ Same
  BY <1>1, SentFacts, UnderWay DEF Whats, Same
<1>3. call.targets = <<>> => call.host \in Hosts
  BY <1>2, UnderWay DEF CallOK, NameOK
<1> QED BY <1>1, <1>2, <1>3, GoOK

(* The end of the wait for the ARP reply keeps it. *)
LEMMA ArpDoneOK ==
  ASSUME IInv, ArpDone
  PROVE  IInv'
<1>1. (Ready("arp_wait") \/ GivesUp("arp_wait")) /\ UNCHANGED <<g, tls, nic, wire, peers>>
  BY DEF ArpDone, Leaves
<1>2. call.pc = "arp_wait" /\ Point(call) = "arp_wait" /\ Same
  BY <1>1, LeavesFacts DEF Waits, Same, ArpDone, Leaves
<1>3. call.targets = <<>> => call.host \in Hosts
  BY <1>2, UnderWay DEF CallOK, NameOK
<1>4. \/ call.targets = <<>> /\ call' = Go("ask")
      \/ call.targets = <<>> /\ call' = Go("query")
      \/ call' = Go("connect")
      \/ call' = Go("fail")
  <2>1. CASE g.mac /\ call.targets = <<>>
    BY <2>1 DEF ArpDone
  <2>2. CASE g.mac /\ call.targets # <<>>
    BY <2>2 DEF ArpDone
  <2>3. CASE ~g.mac /\ call.targets = <<>>
    BY <2>3 DEF ArpDone
  <2>4. CASE ~g.mac /\ call.targets # <<>>
    BY <2>4 DEF ArpDone
  <2> QED BY <2>1, <2>2, <2>3, <2>4
<1>5. CASE call.targets = <<>> /\ call' = Go("ask")
  BY <1>2, <1>3, <1>5, GoOK
<1>6. CASE call.targets = <<>> /\ call' = Go("query")
  BY <1>2, <1>3, <1>6, GoOK
<1>7. CASE call' = Go("connect")
  BY <1>2, <1>7, GoOK
<1>8. CASE call' = Go("fail")
  BY <1>2, <1>8, GoOK
<1> QED BY <1>4, <1>5, <1>6, <1>7, <1>8

(* The DNS query having been sent keeps it. *)
LEMMA DnsSentOK ==
  ASSUME IInv, DnsSent
  PROVE  IInv'
<1>1. Sent("dns") /\ call' = Go("dns_wait") /\ UNCHANGED <<g, tls, nic, wire, peers, faults>>
  BY DEF DnsSent, world
<1>2. call.pc = "tx" /\ Point(call) = "dns" /\ Same
  BY <1>1, SentFacts, UnderWay DEF Whats, Same
<1>3. call.host \in Hosts
  BY <1>2, UnderWay DEF CallOK, NameOK
<1> QED BY <1>1, <1>2, <1>3, GoOK

(* The end of the wait for the DNS answer keeps it. *)
LEMMA DnsDoneOK ==
  ASSUME IInv, DnsDone
  PROVE  IInv'
<1>1. (Ready("dns_wait") \/ GivesUp("dns_wait")) /\ UNCHANGED <<g, tls, nic, wire, peers>>
      /\ call' = Go("query")
  BY DEF DnsDone, Leaves
<1>2. call.pc = "dns_wait" /\ Point(call) = "dns_wait" /\ Same
  BY <1>1, LeavesFacts DEF Waits, Same
<1>3. call.host \in Hosts
  BY <1>2, UnderWay DEF CallOK, NameOK
<1> QED BY <1>1, <1>2, <1>3, GoOK

(* The early failures of a call keep it. *)
LEMMA GoneOK ==
  ASSUME IInv, NoTargetLeft \/ NotConnected \/ HttpFailed
  PROVE  IInv'
<1>1. CASE NoTargetLeft
  <2>1. call.pc = "connect" /\ call' = Go("fail") /\ Same
    BY <1>1, UnderWay DEF NoTargetLeft, At, Same, world
  <2> QED BY <2>1, GoOK
<1>2. CASE NotConnected
  <2>1. GivesUp("syn_wait") /\ call' = Go("connect") /\ UNCHANGED <<g, tls, nic, wire, peers>>
    BY <1>2 DEF NotConnected
  <2>2. call.pc = "syn_wait" /\ Same
    BY <2>1, LeavesFacts DEF Same, Waits
  <2> QED BY <2>1, <2>2, GoOK
<1>3. CASE HttpFailed
  <2>1. GivesUp("http_wait") /\ call' = Go("connect") /\ UNCHANGED <<g, tls, nic, wire, peers>>
    BY <1>3 DEF HttpFailed
  <2>2. call.pc = "http_wait" /\ Same
    BY <2>1, LeavesFacts DEF Same, Waits
  <2> QED BY <2>1, <2>2, GoOK
<1> QED BY <1>1, <1>2, <1>3

(* So do its returns. *)
LEMMA ReturnedOK ==
  ASSUME IInv, AppDone \/ Fail
  PROVE  IInv'
<1>1. CASE AppDone
  <2> DEFINE ok == tls.app_decrypt /\ g.http_response # <<>>
  <2>1. (Ready("app_wait") \/ GivesUp("app_wait")) /\ call' = Return(ok)
        /\ UNCHANGED <<g, tls, nic, wire, peers>>
    BY <1>1 DEF AppDone, Leaves
  <2>2. ok \in BOOLEAN
    OBVIOUS
  <2> HIDE DEF ok
  <2>3. Same
    BY <2>1, LeavesFacts DEF Same, Waits
  <2> QED BY <2>1, <2>2, <2>3, ReturnOK
<1>2. CASE Fail
  <2> DEFINE ok == FALSE
  <2>1. call' = Return(ok) /\ Same
    BY <1>2, UnderWay DEF Fail, Same, world
  <2>2. ok \in BOOLEAN
    OBVIOUS
  <2> HIDE DEF ok
  <2> QED BY <2>1, <2>2, ReturnOK
<1> QED BY <1>1, <1>2

(* An acknowledgement is out: the wait goes on. *)
LEMMA AckSentOK ==
  ASSUME IInv, AckSent
  PROVE  IInv'
<1>1. /\ call.pc = "tx" /\ call.what = "ack" /\ Same
      /\ call' = IF call.back = "idle" THEN Return(TRUE) ELSE Go(call.back)
  BY UnderWay DEF AckSent, Sent, At, world, Same
<1>2. Busy(call) /\ Point(call) = call.back /\ call.back \in Backs /\ call.kind # "none"
  BY <1>1, Points, UnderWay DEF CallOK, FlowOK, Backs
<1>3. CASE call.back = "idle"
  <2> DEFINE ok == TRUE
  <2>1. call' = Return(ok)
    BY <1>1, <1>3
  <2>2. ok \in BOOLEAN
    OBVIOUS
  <2> HIDE DEF ok
  <2> QED BY <1>1, <2>1, <2>2, ReturnOK
<1>4. CASE call.back # "idle"
  <2> DEFINE pc == call.back
             d == Go(pc)
  <2>1. pc \in Pcs /\ pc \notin {"send", "tx"}
    BY <1>2, <1>4 DEF Pcs, Waits, Backs
  <2>2. /\ d \in Calls /\ d.pc = pc /\ d.kind = call.kind /\ d.host = call.host
        /\ d.first = call.first /\ d.targets = call.targets /\ d.end = call.end
    BY <2>1, UnderWay, GoType
  <2>3. call' = d /\ Point(call) = pc
    BY <1>1, <1>2, <1>4
  <2> HIDE DEF d, pc
  <2>4. Point(d) = pc /\ ~Busy(d)
    BY <2>1, <2>2, Points
  <2>5. FlowOK(d)
    BY <1>2, <2>2, <2>4 DEF FlowOK
  <2>6. CallOK(peers, g, tls, d)
    BY <2>2, <2>3, <2>4, <2>5, UnderWay, SamePoint
  <2>7. MachineOK
    BY <1>1, <2>2, <2>3, <2>4, <2>6, CallAlone DEF Same
  <2> QED BY <1>1, <2>7, CallStep DEF Same
<1> QED BY <1>3, <1>4


(* Asking for a name keeps it. *)
LEMMA AskOK ==
  ASSUME IInv, Ask
  PROVE  IInv'
<1> DEFINE q == [g EXCEPT !.dns_valid = FALSE, !.dns_ips = <<>>]
           d == Sending(call, "dns", DnsFrame, 1)
<1>1. /\ call.pc = "ask" /\ g' = q /\ call' = d
      /\ UNCHANGED <<tls, nic, wire, peers, faults>>
  BY DEF Ask, At, world
<1>2. Point(call) = "ask" /\ call.kind # "none" /\ call.host \in Hosts
  <2>1. Point(call) = "ask"
    BY <1>1, Points
  <2> QED BY <1>1, <2>1, UnderWay DEF CallOK, NameOK
<1>3. q \in Nets
  BY UnderWay, EmptyType DEF Nets
<1>4. /\ Kept(g, q) /\ q.http_response = g.http_response /\ q.last_ack = g.last_ack
      /\ q.synack = g.synack
  BY UnderWay DEF Nets, Kept
<1> HIDE DEF q
<1>5. NetOK(q) /\ Known(peers, q) /\ q.syns = g.syns
  BY <1>3, <1>4, UnderWay DEF NetOK, Known, Kept
<1>6. CallOK(peers, q, tls, call)
  BY <1>4, UnderWay, KeptCall
<1>7. /\ d \in Calls /\ Busy(d) /\ Point(d) = "dns" /\ d.frame = DnsFrame /\ FlowOK(d)
      /\ d.kind = call.kind /\ d.host = call.host /\ d.first = call.first /\ d.end = call.end
  <2>1. "dns" \in Whats \ {"ack"} /\ 1 \in 0..TxTries
    BY TriesAssumption DEF Whats
  <2> QED BY <1>2, <2>1, UnderWay, DnsType, SendsType
<1> HIDE DEF d
<1>8. d.frame \in OutFrames /\ SendOK(peers, q.syns, d.frame)
  BY <1>2, <1>7, DnsType
<1>9. NameOK(d)
  BY <1>2, <1>7 DEF NameOK
<1>10. CallOK(peers, q, tls, d)
  BY <1>6, <1>7, <1>9, Elsewhere
<1>11. MachineOK
  BY <1>1, <1>5, <1>7, <1>8, <1>10, UnderWay DEF MachineOK
<1>12. faults' \in 0..MaxFaults
  BY <1>1, UnderWay
<1> QED BY <1>1, <1>11, <1>12, CallStep

(* A call's beginning keeps it. *)
LEMMA ConnectAsksOK ==
  ASSUME IInv, ConnectAsks
  PROVE  IInv'
<1> DEFINE r == Connecting(g)
           d == Sending(call, "arp", ArpFrame, 1)
<1>1. /\ call.pc = "connect" /\ g' = r /\ call' = d /\ call.targets # <<>>
      /\ UNCHANGED <<tls, nic, wire, peers, faults>>
  BY DEF ConnectAsks, At, world
<1>2. /\ NetOK(r) /\ Known(peers, r) /\ r.syns = g.syns /\ r.local_port = g.syns
      /\ r.payload_acked = g.payload_acked
  BY <1>1, ConnectingOK
<1> HIDE DEF r
<1>3. call.kind # "none"
  BY <1>1, UnderWay
<1>4. /\ d \in Calls /\ Busy(d) /\ Point(d) = "arp" /\ d.frame = ArpFrame /\ FlowOK(d)
      /\ d.kind = call.kind /\ d.host = call.host /\ d.first = call.first
      /\ d.targets = call.targets /\ d.end = call.end
  <2>1. "arp" \in Whats \ {"ack"} /\ 1 \in 0..TxTries
    BY TriesAssumption DEF Whats
  <2> QED BY <1>3, <2>1, UnderWay, ArpType, SendsType
<1> HIDE DEF d
<1>5. d.frame \in OutFrames /\ SendOK(peers, r.syns, d.frame)
  BY <1>4, ArpType
<1>6. Stage(d) = -1 /\ ~Connection(d)
  BY <1>4, Stages
<1>7. ConnectionOK(peers, r, tls, d) /\ StageOK(peers, r, d)
  BY <1>6 DEF ConnectionOK, StageOK
<1>8. NameOK(d)
  BY <1>1, <1>4 DEF NameOK
<1>9. EndOK(r, d)
  BY <1>2, UnderWay DEF EndOK
<1>10. AckOK(peers, r, d) /\ d.first <= r.syns
  BY <1>2, <1>4, UnderWay DEF CallOK, AckOK
<1>11. CallOK(peers, r, tls, d)
  BY <1>4, <1>7, <1>8, <1>9, <1>10 DEF CallOK
<1>12. MachineOK
  BY <1>1, <1>2, <1>4, <1>5, <1>11, UnderWay DEF MachineOK
<1>13. faults' \in 0..MaxFaults
  BY <1>1, UnderWay
<1> QED BY <1>1, <1>12, <1>13, CallStep

(* A call that goes on with its connection. *)
LEMMA GoesOn ==
  ASSUME NEW ps, NEW r, NEW t, NEW c, CallOK(ps, r, t, c), Connection(c),
         NEW q, q.syns = r.syns, q.local_port = r.local_port, q.target_port = r.target_port,
         q.payload_acked = r.payload_acked, NEW u, u.verified => t.verified,
         NEW d, d.kind = c.kind, d.first = c.first,
         EndOK(q, d), StageOK(ps, q, d), NameOK(d), FlowOK(d)
  PROVE  CallOK(ps, q, u, d)
<1>1. PortOf(d) = PortOf(c)
  BY DEF PortOf
<1>2. ConnectionOK(ps, q, u, d)
  BY <1>1 DEF CallOK, ConnectionOK
<1>3. AckOK(ps, q, d)
  BY DEF CallOK, AckOK
<1> QED BY <1>2, <1>3 DEF CallOK

(* The SYN having been sent keeps it. *)
LEMMA SynSentOK ==
  ASSUME IInv, SynSent
  PROVE  IInv'
<1> DEFINE d == Go("syn_wait")
<1>1. Sent("syn") /\ call' = d /\ UNCHANGED <<g, tls, nic, wire, peers, faults>>
  BY DEF SynSent, world
<1>2. call.pc = "tx" /\ Point(call) = "syn" /\ call.kind # "none"
  BY <1>1, SentFacts, UnderWay DEF Whats
<1>3. "syn_wait" \in Pcs
  BY DEF Pcs, Waits
<1>4. /\ d \in Calls /\ d.pc = "syn_wait" /\ d.kind = call.kind /\ d.first = call.first
      /\ d.end = call.end
  BY <1>3, UnderWay, GoType
<1> HIDE DEF d
<1>5. Point(d) = "syn_wait" /\ ~Busy(d)
  BY <1>4, Points
<1>6. Stage(d) = -1 /\ Connection(call)
  BY <1>2, <1>5, Stages DEF Connection, Dialing
<1>7. StageOK(peers, g, d) /\ NameOK(d) /\ FlowOK(d)
  BY <1>2, <1>4, <1>5, <1>6 DEF StageOK, NameOK, FlowOK
<1>8. EndOK(g, d)
  BY <1>4, UnderWay DEF CallOK, EndOK
<1>9. CallOK(peers, g, tls, d)
  BY <1>4, <1>6, <1>7, <1>8, UnderWay, GoesOn
<1>10. MachineOK
  BY <1>1, <1>4, <1>5, <1>9, CallAlone
<1>11. faults' \in 0..MaxFaults
  BY <1>1, UnderWay
<1> QED BY <1>1, <1>10, <1>11, CallStep


(* The connection is made. *)
LEMMA ConnectedOK ==
  ASSUME IInv, Connected
  PROVE  IInv'
<1> DEFINE k == g.local_port
           q == [g EXCEPT !.local_next = g.syns, !.remote_next = g.last_seq + 1]
           get == [u |-> "get"]
           f == [type |-> "data", local |-> k, seq |-> g.syns, data |-> get]
           e == [type |-> "ack", local |-> k, seq |-> g.syns]
           d == Sending(call, "request", f, TxTries)
           h == Sending(call, "final", e, TxTries)
<1>1. /\ Ready("syn_wait") /\ g' = q /\ UNCHANGED <<tls, nic, wire, peers>>
  BY DEF Connected
<1>2. \/ call.kind = "http" /\ call' = d
      \/ call.kind # "http" /\ call' = h
  <2>1. [TcpFrame("data", get) EXCEPT !.seq = g.syns] = f
    BY DEF TcpFrame
  <2>2. [AckFrame(g) EXCEPT !.seq = g.syns] = e
    BY DEF AckFrame
  <2>3. call.kind = "http" => Request = get
    BY DEF Request
  <2> HIDE DEF f, e, get
  <2> QED BY <2>1, <2>2, <2>3 DEF Connected
<1>3. call.pc = "syn_wait" /\ Point(call) = "syn_wait" /\ faults' \in 0..MaxFaults
  BY <1>1, LeavesFacts DEF Waits
<1>4. call.kind # "none" /\ Connection(call)
  BY <1>3, UnderWay DEF Connection, Dialing
<1>5. g.synack
  BY <1>1, <1>3 DEF Ready, Over, At
<1>6. /\ k \in DOMAIN peers /\ peers[k].port = g.target_port /\ g.syns = k + 1
      /\ g.target_port = PortOf(call)
  BY <1>4, <1>5, UnderWay DEF Known, CallOK, ConnectionOK
<1>7. q \in Nets
  <2>1. g.last_seq + 1 \in Int /\ g.syns \in Int
    BY UnderWay DEF Nets
  <2> DEFINE m == g.last_seq + 1
  <2>2. q = [g EXCEPT !.local_next = g.syns, !.remote_next = m] /\ m \in Int
    BY <2>1
  <2> HIDE DEF m, q
  <2> QED BY <2>1, <2>2, UnderWay DEF Nets
<1>8. /\ q.syns = g.syns /\ q.local_port = k /\ q.target_port = g.target_port
      /\ q.payload_acked = g.payload_acked /\ q.local_next = g.syns /\ q.last_ack = g.last_ack
      /\ q.synack = g.synack /\ q.http_response = g.http_response
  BY UnderWay DEF Nets
<1> HIDE DEF q
<1>9. NetOK(q) /\ Known(peers, q)
  BY <1>7, <1>8, UnderWay DEF NetOK, Known
<1>10. EndOK(q, call)
  BY <1>8, UnderWay DEF CallOK, EndOK
<1> DEFINE Begins(c) == \/ Point(c) = "final" /\ c.kind \in {"https", "tcp"}
                        \/ Point(c) = "request" /\ c.kind \in {"http", "https"}
<1>11. ASSUME NEW c \in Calls, call' = c, Busy(c), Stage(c) = 0, NameOK(c), FlowOK(c),
              c.kind = call.kind, c.first = call.first, c.end = call.end, Begins(c),
              c.frame \in OutFrames, SendOK(peers, q.syns, c.frame)
       PROVE  IInv'
  <2>1. q.local_next = q.local_port + 1 + Stage(c)
    <3> DEFINE a == q.local_next
               b == q.local_port
               i == Stage(c)
    <3>1. a = k + 1 /\ b = k /\ i = 0 /\ k \in Nat
      BY <1>6, <1>8, <1>11, UnderWay
    <3> HIDE DEF a, b, i, k
    <3>2. a = b + 1 + i
      BY <3>1
    <3> QED BY <3>2 DEF a, b, i
  <2>2. StageOK(peers, q, c)
    BY <1>6, <1>8, <1>11, <2>1 DEF StageOK
  <2>3. EndOK(q, c)
    BY <1>10, <1>11 DEF EndOK
  <2>4. CallOK(peers, q, tls, c)
    BY <1>4, <1>8, <1>11, <2>2, <2>3, UnderWay, GoesOn
  <2>5. MachineOK
    BY <1>1, <1>8, <1>9, <1>11, <2>4, UnderWay DEF MachineOK
  <2> QED BY <1>1, <1>3, <2>5, CallStep
<1>12. TxTries \in 0..TxTries /\ {"request", "final"} \subseteq Whats \ {"ack"}
  BY TriesAssumption DEF Whats
<1>13. CASE call.kind = "http" /\ call' = d
  <2>1. f \in OutFrames /\ SendOK(peers, q.syns, f)
    <3>1. get \in OutUnits /\ get.u = "get" /\ get.u # "sealed get"
      BY DEF OutUnits
    <3>2. peers[k].port = HTTP
      BY <1>6, <1>13 DEF PortOf
    <3> HIDE DEF get
    <3>3. Due(peers, k, 1, get)
      BY <1>6, <3>1, <3>2, Dues
    <3> HIDE DEF f
    <3>4. f = [type |-> "data", local |-> k, seq |-> g.syns, data |-> get]
      BY DEF f
    <3>5. k \in Nat /\ g.syns \in Int /\ g.syns = k + 1 /\ 1 \in Nat
      BY <1>6, UnderWay
    <3> QED BY <3>1, <3>3, <3>4, <3>5, DataOK
  <2> HIDE DEF f
  <2>2. /\ d \in Calls /\ Busy(d) /\ Point(d) = "request" /\ d.frame = f /\ FlowOK(d)
        /\ d.kind = call.kind /\ d.first = call.first /\ d.end = call.end
    BY <1>4, <1>12, <2>1, UnderWay, SendsType
  <2>3. call' = d
    BY <1>13
  <2> HIDE DEF d
  <2>4. Stage(d) = 0 /\ NameOK(d)
    BY <2>2, Stages DEF NameOK
  <2>5. Begins(d)
    BY <1>13, <2>2
  <2>6. d.frame \in OutFrames /\ SendOK(peers, q.syns, d.frame)
    BY <2>1, <2>2
  <2> HIDE DEF f, get, k, Begins
  <2> QED BY <1>11, <2>2, <2>3, <2>4, <2>5, <2>6
<1>14. CASE call.kind # "http" /\ call' = h
  <2>1. e \in OutFrames /\ SendOK(peers, q.syns, e)
    <3>1. e \in [type : {"ack"}, local : Nat, seq : Int] /\ e.type = "ack"
      BY UnderWay
    <3> HIDE DEF e
    <3> QED BY <3>1 DEF OutFrames, SendOK
  <2> HIDE DEF e
  <2>2. /\ h \in Calls /\ Busy(h) /\ Point(h) = "final" /\ h.frame = e /\ FlowOK(h)
        /\ h.kind = call.kind /\ h.first = call.first /\ h.end = call.end
    BY <1>4, <1>12, <2>1, UnderWay, SendsType
  <2>3. call' = h
    BY <1>14
  <2> HIDE DEF h
  <2>4. Stage(h) = 0 /\ NameOK(h)
    BY <2>2, Stages DEF NameOK
  <2>5. Begins(h)
    BY <1>4, <1>14, <2>2, UnderWay DEF Calls
  <2>6. h.frame \in OutFrames /\ SendOK(peers, q.syns, h.frame)
    BY <2>1, <2>2
  <2> HIDE DEF f, get, k, Begins
  <2> QED BY <1>11, <2>2, <2>3, <2>4, <2>5, <2>6
<1> HIDE DEF d, h
<1> QED BY <1>2, <1>13, <1>14, Zenon

(* A call sends the next unit of payload. *)
LEMMA SendsOn ==
  ASSUME IInv, call.pc # "idle", UNCHANGED <<nic, wire, peers>>, faults' \in 0..MaxFaults,
         NEW q, g' = q, NetOK(q), Kept(g, q), q.last_ack = g.last_ack, q.synack = g.synack,
         NEW u, tls' = u, SessionOK(u), u.verified => tls.verified,
         NEW what \in {"request", "cke", "finished", "app"},
         NEW i \in Nat, Stage(call) = i, \A c : Point(c) = what => Stage(c) = i,
         what = "request" => call.kind \in {"http", "https"},
         what # "request" => call.kind = "https",
         NEW unit \in OutUnits, Due(peers, g.local_port, i + 1, unit),
         call' = Sending(call, what, DataFrame(unit), TxTries)
  PROVE  IInv'
<1> DEFINE f == DataFrame(unit)
           d == Sending(call, what, f, TxTries)
<1>1. f = [type |-> "data", local |-> g.local_port, seq |-> g.local_next, data |-> unit]
  BY DEF DataFrame, TcpFrame
<1>2. /\ g.local_port \in DOMAIN peers /\ peers[g.local_port].port = g.target_port
      /\ g.local_next = g.local_port + 1 + i /\ call.kind # "none" /\ Connection(call)
  BY UnderWay DEF CallOK, StageOK, Connection
<1>3. f \in OutFrames /\ SendOK(peers, q.syns, f)
  <2> DEFINE j == i + 1
  <2>1. j \in Nat /\ g.local_next = g.local_port + j /\ Due(peers, g.local_port, j, unit)
    BY <1>2, UnderWay
  <2> HIDE DEF j, f
  <2>2. g.local_port \in Nat /\ g.local_next \in Int
    BY UnderWay
  <2> QED BY <1>1, <2>1, <2>2, DataOK
<1> HIDE DEF f
<1>4. TxTries \in 0..TxTries /\ what \in Whats \ {"ack"}
  BY TriesAssumption DEF Whats
<1>5. /\ d \in Calls /\ Busy(d) /\ Point(d) = what /\ d.frame = f /\ FlowOK(d)
      /\ d.kind = call.kind /\ d.first = call.first /\ d.end = call.end
  BY <1>2, <1>3, <1>4, UnderWay, SendsType
<1>6. call' = d
  BY DEF f
<1> HIDE DEF d
<1>7. Stage(d) = i
  BY <1>5
<1>8. StageOK(peers, q, d)
  BY <1>2, <1>5, <1>7 DEF StageOK, Kept
<1>9. NameOK(d) /\ EndOK(q, d)
  BY <1>5, UnderWay DEF NameOK, CallOK, EndOK, Kept
<1>10. CallOK(peers, q, u, d)
  BY <1>2, <1>5, <1>8, <1>9, UnderWay, GoesOn DEF Kept
<1>11. Known(peers, q) /\ g.syns <= q.syns
  BY UnderWay DEF Known, Kept
<1>12. MachineOK
  BY <1>3, <1>5, <1>6, <1>10, <1>11 DEF MachineOK
<1> QED BY <1>12, CallStep


(* The third frame of the handshake having been sent keeps it. *)
LEMMA FinalSentOK ==
  ASSUME IInv, FinalSent
  PROVE  IInv'
<1> DEFINE ch == [u |-> "CH"]
<1>1. /\ Sent("final") /\ UNCHANGED <<g, tls, nic, wire, peers, faults>>
      /\ \/ call.kind = "tcp" /\ call' = Return(TRUE)
         \/ call.kind # "tcp" /\ call' = Sending(call, "request", DataFrame(Request), TxTries)
  BY DEF FinalSent, world
<1>2. call.pc = "tx" /\ Point(call) = "final" /\ Stage(call) = 0 /\ Same
  BY <1>1, SentFacts, Stages, UnderWay DEF Whats, Same
<1>3. /\ call.kind \in {"https", "tcp"} /\ g.local_port \in DOMAIN peers
      /\ peers[g.local_port].port = PortOf(call)
  BY <1>2, UnderWay DEF CallOK, StageOK, ConnectionOK, Connection
<1>4. CASE call.kind = "tcp" /\ call' = Return(TRUE)
  <2> DEFINE ok == TRUE
  <2>1. call' = Return(ok) /\ ok \in BOOLEAN
    BY <1>4
  <2> HIDE DEF ok
  <2> QED BY <1>2, <2>1, ReturnOK
<1>5. CASE call.kind # "tcp" /\ call' = Sending(call, "request", DataFrame(Request), TxTries)
  <2>1. call.kind = "https" /\ Request = ch
    BY <1>3, <1>5 DEF Request
  <2>2. ch \in OutUnits /\ ch.u = "CH"
    BY DEF OutUnits
  <2>3. peers[g.local_port].port = TLS
    BY <1>3, <2>1 DEF PortOf
  <2>4. call' = Sending(call, "request", DataFrame(ch), TxTries)
    BY <1>5, <2>1
  <2> HIDE DEF ch
  <2> DEFINE i == 0
             w == "request"
  <2>5. Due(peers, g.local_port, i + 1, ch)
    <3>1. Due(peers, g.local_port, 1, ch)
      BY <1>3, <2>2, <2>3, Dues
    <3> QED BY <3>1
  <2>6. \A c : Point(c) = w => Stage(c) = i
    BY Stages
  <2>7. Stage(call) = i /\ i \in Nat /\ w \in {"request", "cke", "finished", "app"}
        /\ w = "request"
    BY <1>2
  <2>8. call' = Sending(call, w, DataFrame(ch), TxTries)
    BY <2>4
  <2> HIDE DEF i, w
  <2> QED BY <1>1, <1>2, <2>1, <2>2, <2>5, <2>6, <2>7, <2>8, UnderWay, SendsOn DEF Same, Kept
<1> QED BY <1>1, <1>4, <1>5

(* Sending the client's key exchange keeps it. *)
LEMMA SendClientKeyExchangeOK ==
  ASSUME IInv, SendClientKeyExchange
  PROVE  IInv'
<1> DEFINE cke == [u |-> "CKE"]
           i == 1
           w == "cke"
<1>1. /\ call.pc = "kex" /\ UNCHANGED <<g, tls, nic, wire, peers, faults>>
      /\ call' = Sending(call, w, DataFrame(cke), TxTries) \/ call' = Go("fail")
  BY DEF SendClientKeyExchange, At, world
<1>2. Point(call) = "kex" /\ Stage(call) = i /\ Same
  <2>1. Point(call) = "kex"
    BY <1>1, Points
  <2> QED BY <1>1, <2>1, Stages, UnderWay DEF Same
<1>3. /\ call.kind = "https" /\ g.local_port \in DOMAIN peers
      /\ peers[g.local_port].port = TLS
  BY <1>2, UnderWay DEF CallOK, StageOK, ConnectionOK, Connection, PortOf
<1>4. cke \in OutUnits /\ cke.u = "CKE"
  BY DEF OutUnits
<1> HIDE DEF cke
<1>5. Due(peers, g.local_port, i + 1, cke)
  <2>1. Due(peers, g.local_port, 2, cke)
    BY <1>3, <1>4, Dues
  <2> QED BY <2>1
<1>6. \A c : Point(c) = w => Stage(c) = i
  BY Stages
<1>7. i \in Nat /\ w \in {"request", "cke", "finished", "app"} /\ w # "request"
  OBVIOUS
<1> HIDE DEF i, w
<1>8. CASE call' = Go("fail")
  BY <1>1, <1>2, <1>8, GoOK
<1>9. CASE call' = Sending(call, w, DataFrame(cke), TxTries)
  BY <1>1, <1>2, <1>3, <1>4, <1>5, <1>6, <1>7, <1>9, UnderWay, SendsOn DEF Same, Kept
<1> QED BY <1>1, <1>8, <1>9


(* The unit is out: the call waits for what comes next. *)
LEMMA CountedOK ==
  ASSUME IInv, Advanced, UNCHANGED <<nic, wire, peers, faults>>,
         NEW u, tls' = u, SessionOK(u), u.verified => tls.verified,
         NEW pc \in {"http_wait", "flight_wait", "cke_wait", "fin_wait", "app_wait"},
         NEW i \in Nat, Stage(call) = i, \A c : Point(c) = pc => Stage(c) = i + 1,
         pc = "http_wait" => call.kind = "http", pc # "http_wait" => call.kind = "https",
         call' = Counted(pc)
  PROVE  IInv'
<1> DEFINE m == g.local_next + 1
           q == [g EXCEPT !.local_next = m]
           e == Go(pc)
           d == [e EXCEPT !.end = m, !.acked = FALSE]
<1>1. g' = q /\ call' = d
  BY DEF Advanced, Counted
<1>2. /\ g.local_port \in DOMAIN peers /\ peers[g.local_port].port = g.target_port
      /\ g.local_next = g.local_port + 1 + i /\ call.kind # "none" /\ Connection(call)
      /\ call.first <= g.local_port
  BY UnderWay DEF CallOK, StageOK, ConnectionOK, Connection
<1>3. /\ m \in Int /\ m = g.local_port + 1 + (i + 1) /\ m >= g.local_port + 2
      /\ g.local_port \in Nat
  BY <1>2, UnderWay
<1> HIDE DEF m
<1>4. q \in Nets
  BY <1>3, UnderWay DEF Nets
<1>5. /\ q.syns = g.syns /\ q.local_port = g.local_port /\ q.target_port = g.target_port
      /\ q.payload_acked = g.payload_acked /\ q.local_next = m /\ q.last_ack = g.last_ack
      /\ q.synack = g.synack /\ q.http_response = g.http_response
  BY UnderWay DEF Nets
<1> HIDE DEF q
<1>6. NetOK(q) /\ Known(peers, q) /\ g.syns <= q.syns
  BY <1>4, <1>5, UnderWay DEF NetOK, Known
<1>7. pc \in Pcs /\ pc \notin {"send", "tx", "idle"}
  BY DEF Pcs, Waits
<1>8. e \in Calls /\ e.pc = pc /\ e.kind = call.kind /\ e.first = call.first
  BY <1>7, UnderWay, GoType
<1> HIDE DEF e
<1>9. d \in Calls
  <2>1. FALSE \in BOOLEAN
    OBVIOUS
  <2> QED BY <1>3, <1>8, <2>1 DEF Calls
<1>10. d.pc = pc /\ d.kind = call.kind /\ d.first = call.first /\ d.end = m
  BY <1>8 DEF Calls
<1> HIDE DEF d
<1>11. Point(d) = pc /\ ~Busy(d)
  BY <1>7, <1>10, Points
<1>12. Stage(d) = i + 1
  BY <1>11
<1>13. StageOK(peers, q, d)
  <2> DEFINE j == i + 1
  <2>1. Stage(d) = j
    BY <1>12
  <2>2. m = g.local_port + 1 + j
    BY <1>3
  <2> HIDE DEF j
  <2>3. CASE pc = "http_wait"
    BY <1>2, <1>5, <1>10, <1>11, <2>1, <2>2, <2>3 DEF StageOK
  <2>4. CASE pc # "http_wait"
    <3>1. pc \notin {"final", "request", "http_wait"} /\ d.kind = "https"
      BY <1>10, <2>4
    <3> QED BY <1>2, <1>5, <1>11, <2>1, <2>2, <3>1 DEF StageOK
  <2> QED BY <2>3, <2>4
<1>14. EndOK(q, d)
  BY <1>2, <1>3, <1>5, <1>10 DEF EndOK
<1>15. NameOK(d) /\ FlowOK(d)
  BY <1>2, <1>10, <1>11 DEF NameOK, FlowOK
<1>16. CallOK(peers, q, u, d)
  BY <1>2, <1>5, <1>10, <1>13, <1>14, <1>15, UnderWay, GoesOn
<1>17. MachineOK
  BY <1>1, <1>6, <1>9, <1>11, <1>16 DEF MachineOK
<1>18. faults' \in 0..MaxFaults
  BY UnderWay
<1> QED BY <1>17, <1>18, CallStep

(* A unit of the client having been sent keeps it. *)
LEMMA PayloadSentOK ==
  ASSUME IInv, RequestSent \/ CkeSent \/ FinishedSent \/ AppSent
  PROVE  IInv'
<1>1. CASE RequestSent
  <2> DEFINE u == IF call.kind = "https" THEN Hashed(tls, "CH") ELSE tls
             pc == IF call.kind = "http" THEN "http_wait" ELSE "flight_wait"
             i == 0
  <2>1. /\ Sent("request") /\ Advanced /\ tls' = u /\ call' = Counted(pc)
        /\ UNCHANGED <<nic, wire, peers, faults>>
    BY <1>1 DEF RequestSent, world
  <2>2. Point(call) = "request" /\ Stage(call) = i
    BY <2>1, SentFacts, Stages DEF Whats
  <2>3. call.kind \in {"http", "https"}
    BY <2>2, UnderWay DEF CallOK, StageOK
  <2>4. SessionOK(u) /\ u.verified = tls.verified
    BY UnderWay, HashedOK DEF Msgs, Aside
  <2>5. \A c : Point(c) \in {"http_wait", "flight_wait"} => Stage(c) = 1
    BY Stages
  <2>6. /\ pc \in {"http_wait", "flight_wait", "cke_wait", "fin_wait", "app_wait"}
        /\ pc \in {"http_wait", "flight_wait"}
        /\ pc = "http_wait" => call.kind = "http"
        /\ pc # "http_wait" => call.kind = "https"
    BY <2>3
  <2>7. i \in Nat /\ i + 1 = 1
    OBVIOUS
  <2> HIDE DEF u, pc, i
  <2>8. \A c : Point(c) = pc => Stage(c) = i + 1
    BY <2>5, <2>6, <2>7
  <2> QED BY <2>1, <2>2, <2>4, <2>6, <2>7, <2>8, CountedOK
<1>2. CASE CkeSent
  <2> DEFINE h == Hashed(tls, "CKE")
             u == [h EXCEPT !.cke = TRUE]
             pc == "cke_wait"
             i == 1
  <2>1. /\ Sent("cke") /\ Advanced /\ tls' = u /\ call' = Counted(pc)
        /\ UNCHANGED <<nic, wire, peers, faults>>
    BY <1>2 DEF CkeSent, world
  <2>2. Point(call) = "cke" /\ Stage(call) = i
    BY <2>1, SentFacts, Stages DEF Whats
  <2>3. call.kind = "https"
    BY <2>2, UnderWay DEF CallOK, StageOK
  <2>4. SessionOK(h) /\ h.verified = tls.verified
    BY UnderWay, HashedOK DEF Msgs, Aside
  <2> HIDE DEF h
  <2>5. SessionOK(u) /\ u.verified = tls.verified
    BY <2>4 DEF SessionOK, Sessions
  <2>6. \A c : Point(c) = pc => Stage(c) = 2
    BY Stages
  <2>7. /\ pc \in {"http_wait", "flight_wait", "cke_wait", "fin_wait", "app_wait"}
        /\ pc # "http_wait" /\ i \in Nat /\ i + 1 = 2
    OBVIOUS
  <2> HIDE DEF u, pc, i
  <2>8. \A c : Point(c) = pc => Stage(c) = i + 1
    BY <2>6, <2>7
  <2> QED BY <2>1, <2>2, <2>3, <2>5, <2>7, <2>8, CountedOK
<1>3. CASE FinishedSent
  <2> DEFINE h == Hashed(tls, "Finished")
             u == [h EXCEPT !.finished_tx = TRUE]
             pc == "fin_wait"
             i == 2
  <2>1. /\ Sent("finished") /\ Advanced /\ tls' = u /\ call' = Counted(pc)
        /\ UNCHANGED <<nic, wire, peers, faults>>
    BY <1>3 DEF FinishedSent, world
  <2>2. Point(call) = "finished" /\ Stage(call) = i
    BY <2>1, SentFacts, Stages DEF Whats
  <2>3. call.kind = "https"
    BY <2>2, UnderWay DEF CallOK, StageOK
  <2>4. SessionOK(h) /\ h.verified = tls.verified
    BY UnderWay, HashedOK DEF Msgs, Aside
  <2> HIDE DEF h
  <2>5. SessionOK(u) /\ u.verified = tls.verified
    BY <2>4 DEF SessionOK, Sessions
  <2>6. \A c : Point(c) = pc => Stage(c) = 3
    BY Stages
  <2>7. /\ pc \in {"http_wait", "flight_wait", "cke_wait", "fin_wait", "app_wait"}
        /\ pc # "http_wait" /\ i \in Nat /\ i + 1 = 3
    OBVIOUS
  <2> HIDE DEF u, pc, i
  <2>8. \A c : Point(c) = pc => Stage(c) = i + 1
    BY <2>6, <2>7
  <2> QED BY <2>1, <2>2, <2>3, <2>5, <2>7, <2>8, CountedOK
<1>4. CASE AppSent
  <2> DEFINE u == [tls EXCEPT !.app_tx = TRUE]
             pc == "app_wait"
             i == 3
  <2>1. /\ Sent("app") /\ Advanced /\ tls' = u /\ call' = Counted(pc)
        /\ UNCHANGED <<nic, wire, peers, faults>>
    BY <1>4 DEF AppSent, world
  <2>2. Point(call) = "app" /\ Stage(call) = i
    BY <2>1, SentFacts, Stages DEF Whats
  <2>3. call.kind = "https"
    BY <2>2, UnderWay DEF CallOK, StageOK
  <2>5. SessionOK(u) /\ u.verified = tls.verified
    BY UnderWay DEF SessionOK, Sessions
  <2>6. \A c : Point(c) = pc => Stage(c) = 4
    BY Stages
  <2>7. /\ pc \in {"http_wait", "flight_wait", "cke_wait", "fin_wait", "app_wait"}
        /\ pc # "http_wait" /\ i \in Nat /\ i + 1 = 4
    OBVIOUS
  <2> HIDE DEF u, pc, i
  <2>8. \A c : Point(c) = pc => Stage(c) = i + 1
    BY <2>6, <2>7
  <2> QED BY <2>1, <2>2, <2>3, <2>5, <2>7, <2>8, CountedOK
<1> QED BY <1>1, <1>2, <1>3, <1>4


(* The end of the wait for the page keeps it. *)
LEMMA HttpDoneOK ==
  ASSUME IInv, HttpDone
  PROVE  IInv'
<1> DEFINE ok == TRUE
           c == Return(ok)
           back == "idle"
           d == Acknowledging(c, g, back)
<1>1. Ready("http_wait") /\ call' = d /\ UNCHANGED <<g, tls, nic, wire, peers>>
  BY DEF HttpDone
<1>2. call.pc = "http_wait" /\ faults' \in 0..MaxFaults /\ call.kind # "none"
  BY <1>1, LeavesFacts, UnderWay DEF Waits
<1>3. c \in Calls /\ c.pc = "idle" /\ c.kind = call.kind /\ c.first = call.first /\ c.end = 0
  <2>1. ok \in BOOLEAN
    OBVIOUS
  <2> HIDE DEF ok
  <2> QED BY <2>1, UnderWay, ReturnType
<1>4. back \in Backs /\ back = "idle"
  BY DEF Backs
<1> HIDE DEF c, back
<1>5. /\ d \in Calls /\ d.pc = "send" /\ d.what = "ack" /\ d.frame = AckFrame(g)
      /\ d.back = back /\ d.kind = c.kind /\ d.first = c.first /\ d.end = c.end
  BY <1>3, <1>4, UnderWay, AcknowledgingType
<1> HIDE DEF d
<1>6. d.frame \in OutFrames /\ SendOK(peers, g.syns, d.frame)
  BY <1>5, UnderWay, AckFrameType
<1>7. Point(d) = "idle" /\ Busy(d)
  BY <1>4, <1>5, Points
<1>8. NameOK(d) /\ FlowOK(d)
  BY <1>2, <1>3, <1>4, <1>5, <1>7 DEF NameOK, FlowOK
<1>9. CallOK(peers, g, tls, d)
  BY <1>3, <1>5, <1>7, <1>8, UnderWay, Elsewhere
<1>10. MachineOK
  BY <1>1, <1>5, <1>6, <1>9, CallAlone
<1> QED BY <1>1, <1>2, <1>10, CallStep

(* The end of the wait for the server's flight keeps it. *)
LEMMA FlightDoneOK ==
  ASSUME IInv, FlightDone
  PROVE  IInv'
<1> DEFINE back == "kex"
           d == Acknowledging(call, g, back)
<1>1. /\ Ready("flight_wait") \/ GivesUp("flight_wait")
      /\ UNCHANGED <<g, tls, nic, wire, peers>>
      /\ call' = d \/ call' = Go("connect")
  BY DEF FlightDone, Leaves
<1>2. /\ call.pc = "flight_wait" /\ Point(call) = "flight_wait" /\ faults' \in 0..MaxFaults
      /\ call.kind # "none" /\ Stage(call) = 1 /\ Connection(call) /\ Same
  BY <1>1, LeavesFacts, Stages, UnderWay DEF Waits, Connection, Same
<1>3. CASE call' = Go("connect")
  BY <1>2, <1>3, GoOK
<1>4. CASE call' = d
  <2>1. back \in Backs /\ back = "kex"
    BY DEF Backs
  <2> HIDE DEF back
  <2>2. /\ d \in Calls /\ d.pc = "send" /\ d.what = "ack" /\ d.frame = AckFrame(g)
        /\ d.back = back /\ d.kind = call.kind /\ d.first = call.first /\ d.end = call.end
    BY <2>1, UnderWay, AcknowledgingType
  <2>3. call' = d
    BY <1>4
  <2> HIDE DEF d
  <2>4. d.frame \in OutFrames /\ SendOK(peers, g.syns, d.frame)
    BY <2>2, UnderWay, AckFrameType
  <2>5. Point(d) = "kex" /\ Busy(d) /\ Stage(d) = 1
    <3>1. Point(d) = "kex" /\ Busy(d)
      BY <2>1, <2>2, Points
    <3> QED BY <3>1, Stages
  <2>6. NameOK(d) /\ FlowOK(d)
    BY <1>2, <2>1, <2>2, <2>5 DEF NameOK, FlowOK
  <2>7. StageOK(peers, g, d)
    BY <1>2, <2>2, <2>5, UnderWay DEF CallOK, StageOK
  <2>8. EndOK(g, d)
    BY <2>2, UnderWay DEF CallOK, EndOK
  <2>9. CallOK(peers, g, tls, d)
    BY <1>2, <2>2, <2>6, <2>7, <2>8, UnderWay, GoesOn
  <2>10. MachineOK
    BY <1>1, <2>2, <2>3, <2>4, <2>9, CallAlone
  <2> QED BY <1>1, <1>2, <2>10, CallStep
<1> QED BY <1>1, <1>3, <1>4

(* Deriving the keys and sending the client's Finished keeps it. *)
LEMMA DeriveKeysOK ==
  ASSUME IInv, DeriveKeys
  PROVE  IInv'
<1> DEFINE u == [tls EXCEPT !.keys = tls.kex, !.client_finished = tls.transcript]
           unit == FinishedMessage(tls)
           i == 2
           w == "finished"
<1>1. /\ Ready("cke_wait") \/ GivesUp("cke_wait")
      /\ tls' = u /\ UNCHANGED <<g, nic, wire, peers>>
      /\ call' = Sending(call, w, DataFrame(unit), TxTries)
  BY DEF DeriveKeys, Leaves
<1>2. call.pc = "cke_wait" /\ Point(call) = "cke_wait" /\ faults' \in 0..MaxFaults
  BY <1>1, LeavesFacts DEF Waits
<1>3. Stage(call) = i
  BY <1>2, Stages
<1>4. /\ call.kind = "https" /\ g.local_port \in DOMAIN peers
      /\ peers[g.local_port].port = TLS
  BY <1>2, <1>3, UnderWay DEF CallOK, StageOK, ConnectionOK, Connection, PortOf
<1>5. unit \in OutUnits /\ unit.u = "finished"
  <2>1. tls.kex \in Int /\ tls.transcript \in Seq(Msgs)
    BY UnderWay DEF SessionOK, Sessions
  <2>2. unit \in [u : {"finished"}, key : Int, over : Seq(Msgs)] /\ unit.u = "finished"
    BY <2>1 DEF FinishedMessage
  <2> QED BY <2>2 DEF OutUnits
<1>6. SessionOK(u) /\ u.verified = tls.verified
  BY UnderWay DEF SessionOK, Sessions
<1> HIDE DEF unit, u
<1>7. Due(peers, g.local_port, i + 1, unit)
  <2>1. Due(peers, g.local_port, 3, unit)
    BY <1>4, <1>5, Dues
  <2> QED BY <2>1
<1>8. \A c : Point(c) = w => Stage(c) = i
  BY Stages
<1>9. i \in Nat /\ w \in {"request", "cke", "finished", "app"} /\ w # "request"
  OBVIOUS
<1>10. call.pc # "idle"
  BY <1>2
<1> HIDE DEF i, w
<1> QED BY <1>1, <1>2, <1>3, <1>4, <1>5, <1>6, <1>7, <1>8, <1>9, <1>10, UnderWay, SendsOn
        DEF Kept

(* The encrypted request goes out only when the server's Finished was seen, *)
(* which the server sends only when it took the client's.                   *)
LEMMA SendHttpGetOK ==
  ASSUME IInv, SendHttpGet
  PROVE  IInv'
<1> DEFINE u == [tls EXCEPT !.app_tx = FALSE, !.app_decrypt = FALSE, !.app_need = 0,
                            !.app_record = <<>>]
           q == [g EXCEPT !.http_response = <<>>, !.http_valid = FALSE]
           unit == [u |-> "sealed get", key |-> tls.keys]
           i == 3
           w == "app"
<1>1. /\ Ready("fin_wait") \/ GivesUp("fin_wait")
      /\ tls' = u /\ UNCHANGED <<nic, wire, peers>>
      /\ \/ /\ tls.verified /\ g' = q
            /\ call' = Sending(call, w, DataFrame(unit), TxTries)
         \/ g' = g /\ call' = Go("fail")
  BY DEF SendHttpGet, Leaves
<1>2. call.pc = "fin_wait" /\ Point(call) = "fin_wait" /\ faults' \in 0..MaxFaults
  BY <1>1, LeavesFacts DEF Waits
<1>3. Stage(call) = i
  BY <1>2, Stages
<1>4. /\ call.kind = "https" /\ g.local_port \in DOMAIN peers
      /\ peers[g.local_port].port = TLS
      /\ tls.verified => Accepted(peers, g.local_port)
  BY <1>2, <1>3, UnderWay DEF CallOK, StageOK, ConnectionOK, Connection, PortOf
<1>5. SessionOK(u) /\ u.verified = tls.verified
  <2>1. tls \in Sessions /\ tls.pend.rx <= tls.pend.len
    BY UnderWay DEF SessionOK
  <2>2. u \in Sessions
    BY <2>1, EmptyType DEF Sessions
  <2>3. u.app_record = <<>> /\ u.app_need = 0 /\ u.pend = tls.pend /\ u.verified = tls.verified
    BY <2>1 DEF Sessions
  <2> QED BY <2>1, <2>2, <2>3, EmptyType DEF SessionOK
<1> HIDE DEF u
<1>6. CASE g' = g /\ call' = Go("fail")
  <2> DEFINE d == Go("fail")
  <2>1. /\ d \in Calls /\ d.pc = "fail" /\ d.kind = call.kind
        /\ d.first = call.first /\ d.end = call.end
    BY UnderWay, GoType DEF Pcs
  <2>2. call' = d
    BY <1>6
  <2> HIDE DEF d
  <2>3. Point(d) = "fail" /\ ~Busy(d)
    BY <2>1, Points
  <2>4. NameOK(d) /\ FlowOK(d)
    BY <1>4, <2>1, <2>3 DEF NameOK, FlowOK
  <2>5. CallOK(peers, g, u, d)
    <3>1. CallOK(peers, g, u, call)
      BY <1>5, UnderWay, KeptCall DEF Kept
    <3> QED BY <2>1, <2>3, <2>4, <3>1, Elsewhere
  <2>6. MachineOK
    BY <1>1, <1>5, <1>6, <2>1, <2>2, <2>3, <2>5, UnderWay DEF MachineOK
  <2> QED BY <1>1, <1>2, <2>6, CallStep
<1>7. CASE tls.verified /\ g' = q /\ call' = Sending(call, w, DataFrame(unit), TxTries)
  <2>1. q \in Nets
    BY UnderWay, EmptyType DEF Nets
  <2>2. /\ Kept(g, q) /\ q.last_ack = g.last_ack /\ q.synack = g.synack
        /\ q.http_response = <<>>
    BY UnderWay DEF Nets, Kept
  <2> HIDE DEF q
  <2>3. NetOK(q)
    <3>1. Len(q.http_response) = 0 /\ Capture_ \in Nat
      BY <2>2, EmptyType, SizesAssumption
    <3> QED BY <2>1, <3>1 DEF NetOK
  <2>4. unit \in OutUnits /\ unit.u = "sealed get"
    <3>1. tls.keys \in Int
      BY UnderWay DEF SessionOK, Sessions
    <3>2. unit \in [u : {"sealed get"}, key : Int] /\ unit.u = "sealed get"
      BY <3>1
    <3> QED BY <3>2 DEF OutUnits
  <2>5. g' = q /\ call' = Sending(call, w, DataFrame(unit), TxTries) /\ tls.verified
    BY <1>7
  <2> HIDE DEF unit
  <2>6. Due(peers, g.local_port, i + 1, unit)
    <3>1. Due(peers, g.local_port, 4, unit)
      BY <1>4, <2>4, <2>5, Dues
    <3> QED BY <3>1
  <2>7. \A c : Point(c) = w => Stage(c) = i
    BY Stages
  <2>8. /\ i \in Nat /\ w \in {"request", "cke", "finished", "app"} /\ w # "request"
        /\ call.pc # "idle"
    BY <1>2
  <2> HIDE DEF i, w
  <2> QED BY <1>1, <1>2, <1>3, <1>4, <1>5, <2>2, <2>3, <2>4, <2>5, <2>6, <2>7, <2>8,
             UnderWay, SendsOn
<1> QED BY <1>1, <1>6, <1>7


(* Every step of a call that neither sends nor polls keeps it. *)
LEMMA OnwardOK ==
  ASSUME IInv, Onward
  PROVE  IInv'
<1>1. CASE Query \/ ArpSent \/ ArpDone \/ Ask \/ DnsSent \/ DnsDone
  BY <1>1, QueryOK, ArpSentOK, ArpDoneOK, AskOK, DnsSentOK, DnsDoneOK
<1>2. CASE ConnectAsks \/ NoTargetLeft \/ SynSent \/ Connected \/ NotConnected \/ FinalSent
  BY <1>2, ConnectAsksOK, GoneOK, SynSentOK, ConnectedOK, FinalSentOK
<1>3. CASE RequestSent \/ AckSent \/ HttpDone \/ HttpFailed \/ FlightDone
  BY <1>3, PayloadSentOK, AckSentOK, HttpDoneOK, GoneOK, FlightDoneOK
<1>4. CASE SendClientKeyExchange \/ CkeSent \/ DeriveKeys \/ FinishedSent
  BY <1>4, SendClientKeyExchangeOK, PayloadSentOK, DeriveKeysOK
<1>5. CASE SendHttpGet \/ AppSent \/ AppDone \/ Fail
  BY <1>5, SendHttpGetOK, PayloadSentOK, ReturnedOK
<1> QED BY <1>1, <1>2, <1>3, <1>4, <1>5 DEF Onward

-----------------------------------------------------------------------------
(***************************************************************************)
(* The invariant holds.                                                    *)
(***************************************************************************)
LEMMA InvInitially == Init => IInv
<1> SUFFICES ASSUME Init PROVE IInv
  OBVIOUS
<1>1. /\ tls = NewSession /\ call = NoCall /\ nic = [rx |-> <<>>, tx |-> <<>>] /\ wire = <<>>
      /\ peers = [k \in {} |-> 0] /\ faults = 0
  BY DEF Init
<1>2. g \in Nets
  <2>1. "none" \in Addresses /\ 0 \in Nat /\ 0 \in Int
    BY DEF Addresses
  <2> QED BY <2>1, EmptyType DEF Init, Nets
<1>3. /\ g.http_response = <<>> /\ g.last_ack = 0 /\ ~g.synack /\ g.syns = 0
      /\ ~g.payload_acked
  BY DEF Init
<1>4. NetOK(g) /\ Known(peers, g)
  BY <1>2, <1>3, EmptyType, SizesAssumption DEF NetOK, Known
<1>5. SessionOK(tls)
  BY <1>1, NewSessionOK
<1>6. call \in Calls /\ call.pc = "idle" /\ call.end = 0 /\ call.kind = "none" /\ call.first = 0
  BY <1>1, NoCallType
<1>7. /\ nic.rx = <<>> /\ nic.tx = <<>> /\ <<>> \in Seq(InFrames) /\ <<>> \in Seq(OutFrames)
      /\ nic \in [rx : Seq(InFrames), tx : Seq(OutFrames)]
  BY <1>1
<1>8. Types
  <2>1. Len(<<>>) < RxRing /\ Len(<<>>) <= TxRing /\ 0 \in 0..MaxFaults
    BY EmptyType, RingsAssumption, SizesAssumption
  <2> QED BY <1>1, <1>4, <1>5, <1>6, <1>7, <2>1 DEF Types
<1>9. PeersOK(peers, g.syns)
  BY <1>1 DEF PeersOK
<1>10. Point(call) = "idle" /\ ~Busy(call)
  BY <1>6, Points
<1>11. Stage(call) = -1 /\ ~Connection(call)
  BY <1>10, Stages
<1>12. Arriving /\ Leaving
  BY <1>1, <1>7, <1>10, EmptyType DEF Arriving, Leaving
<1>13. CallOK(peers, g, tls, call)
  <2>1. ConnectionOK(peers, g, tls, call) /\ StageOK(peers, g, call)
    BY <1>11 DEF ConnectionOK, StageOK
  <2>2. NameOK(call) /\ EndOK(g, call) /\ FlowOK(call) /\ AckOK(peers, g, call)
    BY <1>3, <1>6, <1>10 DEF NameOK, EndOK, FlowOK, AckOK
  <2>3. call.first <= g.syns
    BY <1>3, <1>6
  <2> QED BY <2>1, <2>2, <2>3 DEF CallOK
<1> QED BY <1>4, <1>8, <1>9, <1>12, <1>13 DEF IInv

(* Every step keeps the invariant. *)
LEMMA InvStep == IInv /\ [Next]_vars => IInv'
<1> SUFFICES ASSUME IInv, [Next]_vars PROVE IInv'
  OBVIOUS
<1>1. CASE Next
  BY <1>1, CallerOK, SenderOK, RetryPollOK, PollOK, ConnectOK, OnwardOK, NetworkOK DEF Next
<1>2. CASE UNCHANGED vars
  BY <1>2 DEF vars, IInv, Types, Arriving, Leaving
<1> QED BY <1>1, <1>2

(* The invariant of the calls of net.c holds in every state: every frame   *)
(* under way, every connection of a peer and the call's own beliefs        *)
(* agree.                                                                  *)
THEOREM InvAlways == Spec => []IInv
<1> QED BY InvInitially, InvStep, PTL DEF Spec

(* Every part of the state keeps its type: the rings of the card are never  *)
(* filled beyond their descriptors, what is captured of a page never grows  *)
(* beyond NET_HTTP_CAPTURE_SIZE, and what is kept of a record or a message  *)
(* in pieces never grows beyond its length (net_tls_capture_payload).       *)
THEOREM TypesAlwaysOK == Spec => []TypeOK
<1>1. IInv => TypeOK
  <2> SUFFICES ASSUME IInv PROVE TypeOK
    OBVIOUS
  <2>1. /\ NetOK(g) /\ SessionOK(tls) /\ call \in Calls
        /\ Len(nic.rx) < RxRing /\ Len(nic.tx) <= TxRing /\ faults \in 0..MaxFaults
        /\ PeersOK(peers, g.syns)
    BY DEF IInv, Types
  <2>2. /\ g.syns \in Nat /\ Len(g.http_response) <= Capture_
        /\ {g.mac, g.dns_valid, g.synack, g.http_valid, g.payload_acked} \subseteq BOOLEAN
    BY <2>1 DEF NetOK, Nets
  <2>3. DOMAIN peers \subseteq 0..g.syns
    BY <2>1, <2>2 DEF PeersOK
  <2>4. Len(tls.app_record) <= tls.app_need /\ tls.pend.rx <= tls.pend.len
    BY <2>1 DEF SessionOK
  <2>5. /\ call.pc \in Waits \cup {"idle", "query", "ask", "connect", "kex", "send", "tx", "fail"}
        /\ call.kind \in {"none", "http", "https", "tcp"} /\ call.dns_left \in 0..DnsTries
        /\ call.left \in 0..TxTries
    BY <2>1 DEF Calls
  <2>6. faults <= MaxFaults
    BY <2>1, SizesAssumption
  <2> QED BY <2>1, <2>2, <2>3, <2>4, <2>5, <2>6 DEF TypeOK
<1> QED BY <1>1, InvAlways, PTL

(* tcp_payload_acked never claims more than a server of this call has got,  *)
(* whatever acknowledgements of earlier connections are still on their way. *)
THEOREM AckedIsAlwaysTrue == Spec => []AckedIsTrue
<1>1. IInv => AckedIsTrue
  BY DEF IInv, CallOK, AckOK, AckedIsTrue
<1> QED BY <1>1, InvAlways, PTL

(* A sequence that agrees with the beginning of another is a prefix of     *)
(* it.                                                                     *)
LEMMA PrefixOf ==
  ASSUME NEW S, NEW s \in Seq(S), NEW t \in Seq(S), Len(s) <= Len(t),
         \A i \in 1..Len(s) : s[i] = t[i]
  PROVE  IsPrefix(s, t)
<1> DEFINE n == Len(s)
           a == SubSeq(s, 1, n)
           b == SubSeq(t, 1, n)
<1>1. n \in Nat /\ n <= Len(t)
  OBVIOUS
<1>2. a \in Seq(S) /\ Len(a) = n /\ \A i \in 1..n : a[i] = s[i]
  OBVIOUS
<1>3. b \in Seq(S) /\ Len(b) = n /\ \A i \in 1..n : b[i] = t[i]
  BY <1>1
<1> HIDE DEF a, b
<1>4. a = b
  BY <1>2, <1>3
<1> QED BY <1>1, <1>4 DEF IsPrefix, a, b

(* Whatever is lost, doubled, late or sent again, a server gets what        *)
(* belongs on its port, each unit once and in order, and the encrypted      *)
(* request reaches only a server that took the Finished message.            *)
THEOREM OrderAlwaysRight == Spec => []RightOrder
<1>1. IInv => RightOrder
  <2> SUFFICES ASSUME IInv, NEW k \in DOMAIN peers
               PROVE  LET got == peers[k].got
                      IN /\ IsPrefix([i \in DOMAIN got |-> got[i].u],
                                     CASE peers[k].port = HTTP -> <<"get">>
                                       [] peers[k].port = TLS  ->
                                            <<"CH", "CKE", "finished", "sealed get">>
                                       [] OTHER                -> <<>>)
                         /\ Len(got) = 4 => got[3].over = Exchanged
    BY DEF RightOrder
  <2> DEFINE got == peers[k].got
             s == [i \in DOMAIN got |-> got[i].u]
             o == Order(peers[k].port)
             S == {"get", "CH", "CKE", "finished", "sealed get"}
  <2>1. got \in Seq(OutUnits) /\ ServerOK(peers[k])
    BY UnderWay, PeerFields DEF IInv
  <2>2. /\ Len(got) <= Len(o) /\ \A i \in 1..Len(got) : got[i].u = o[i]
        /\ Len(got) = 4 => got[3].over = Exchanged
    BY <2>1 DEF ServerOK
  <2>3. o = CASE peers[k].port = HTTP -> <<"get">>
              [] peers[k].port = TLS  -> <<"CH", "CKE", "finished", "sealed get">>
              [] OTHER                -> <<>>
    BY DEF Order
  <2>4. o \in Seq(S)
    <3> DEFINE p == peers[k].port
    <3>1. <<"get">> \in Seq(S) /\ <<"CH", "CKE", "finished", "sealed get">> \in Seq(S)
          /\ <<>> \in Seq(S)
      OBVIOUS
    <3>2. HTTP # TLS
      BY DEF HTTP, TLS
    <3> HIDE DEF S, p
    <3>3. Order(p) \in Seq(S)
      BY <3>1, <3>2 DEF Order
    <3> QED BY <3>3 DEF p
  <2>5. \A i \in 1..Len(got) : got[i].u \in S
    <3>1. \A u \in OutUnits : u.u \in S
      BY DEF OutUnits
    <3> HIDE DEF got, S
    <3>2. \A i \in 1..Len(got) : got[i] \in OutUnits
      BY <2>1
    <3> QED BY <3>1, <3>2
  <2> HIDE DEF got, o, S
  <2>6. s \in Seq(S) /\ Len(s) = Len(got) /\ \A i \in 1..Len(s) : s[i] = got[i].u
    BY <2>1, <2>5
  <2> HIDE DEF s
  <2>7. IsPrefix(s, o)
    BY <2>2, <2>4, <2>6, PrefixOf
  <2> QED BY <2>2, <2>3, <2>7 DEF s, got
<1> QED BY <1>1, InvAlways, PTL


-----------------------------------------------------------------------------
(***************************************************************************)
(* What a call over HTTPS returns.  The page is decrypted from records     *)
(* that are put together from segments: while there is a connection, what  *)
(* is kept of a record is its server's (SInv), and from the moment the     *)
(* request is sealed, so is what is shown.                                 *)
(***************************************************************************)
SafeOK(r, t, c) ==
    c.kind = "https" =>
        /\ c.ok => /\ c.pc = "idle" /\ r.http_response # <<>>
                   /\ Shows(r.http_response, r.local_port)
        /\ Connection(c) => Own(t.app_record, r.local_port)
        /\ Point(c) \in {"app", "app_wait"} => Shows(r.http_response, r.local_port)
        /\ Busy(c) /\ c.what = "ack" => c.back # "idle"

SInv == tls.plain = <<>> /\ SafeOK(g, tls, call)

OffPoints == {"idle", "query", "ask", "connect", "fail", "arp", "arp_wait", "dns", "dns_wait"}
OnPoints  == {"syn", "syn_wait", "final", "request", "http_wait", "flight_wait", "kex", "cke",
              "cke_wait", "finished", "fin_wait", "app", "app_wait"}

(* The points of a call with a connection, and of one without. *)
LEMMA OnAndOff ==
  ASSUME NEW c
  PROVE  /\ Point(c) \in OnPoints => Connection(c)
         /\ Point(c) \in OffPoints => ~Connection(c) /\ Point(c) \notin {"app", "app_wait"}
<1>1. Point(c) \in OffPoints => ~Connection(c)
  BY Stages DEF OffPoints
<1>2. Point(c) \in {"syn", "syn_wait"} => Connection(c)
  BY DEF Connection, Dialing
<1>3. Point(c) \in OnPoints \ {"syn", "syn_wait"} => Stage(c) \in 0..4
  BY Stages DEF OnPoints
<1>4. Stage(c) \in 0..4 => Connection(c)
  BY DEF Connection
<1>5. Point(c) \in OffPoints => Point(c) \notin {"app", "app_wait"}
  BY DEF OffPoints
<1> QED BY <1>1, <1>2, <1>3, <1>4, <1>5

(* What a step of the call makes of it: of the same kind, not done yet, at *)
(* a point of the code, and with a way back if it acknowledges.            *)
Moved(d, pc) == /\ d.kind = call.kind /\ d.ok = call.ok /\ Point(d) = pc
                /\ Busy(d) /\ d.what = "ack" => d.back = pc

(* The call that goes somewhere, *)
LEMMA GoMoves ==
  ASSUME call \in Calls, NEW pc \in Pcs \ {"send", "tx"}
  PROVE  Moved(Go(pc), pc)
<1> DEFINE d == Go(pc)
<1>1. d.kind = call.kind /\ d.ok = call.ok /\ d.pc = pc
  BY DEF Calls, Go
<1> HIDE DEF d
<1>2. Point(d) = pc /\ ~Busy(d)
  BY <1>1, Points
<1> QED BY <1>1, <1>2 DEF Moved, d

(* that sends a frame, *)
LEMMA SendingMoves ==
  ASSUME NEW c \in Calls, c.kind = call.kind, c.ok = call.ok, NEW what \in Whats \ {"ack"},
         NEW frame, NEW tries
  PROVE  Moved(Sending(c, what, frame, tries), what)
<1> DEFINE d == Sending(c, what, frame, tries)
<1>1. d.kind = c.kind /\ d.ok = c.ok /\ d.pc = "send" /\ d.what = what
  BY DEF Calls, Sending
<1>2. what # "ack"
  OBVIOUS
<1> HIDE DEF d
<1>3. Point(d) = what /\ Busy(d)
  BY <1>1, <1>2, Points
<1> QED BY <1>1, <1>2, <1>3 DEF Moved, d

(* or that acknowledges. *)
LEMMA AcknowledgingMoves ==
  ASSUME NEW c \in Calls, c.kind = call.kind, c.ok = call.ok, NEW r, NEW back
  PROVE  Moved(Acknowledging(c, r, back), back)
<1> DEFINE s == Sending(c, "ack", AckFrame(r), TxTries)
           d == [s EXCEPT !.back = back]
<1>1. /\ s.kind = c.kind /\ s.ok = c.ok /\ s.pc = "send" /\ s.what = "ack"
      /\ DOMAIN s = DOMAIN c /\ "back" \in DOMAIN c
  BY DEF Calls, Sending
<1>2. d.kind = s.kind /\ d.ok = s.ok /\ d.pc = s.pc /\ d.what = s.what /\ d.back = back
  BY <1>1
<1>3. Acknowledging(c, r, back) = d
  BY DEF Acknowledging
<1> HIDE DEF s, d
<1>4. Point(d) = back
  BY <1>1, <1>2, Points
<1>5. Moved(d, back)
  BY <1>1, <1>2, <1>4 DEF Moved
<1> QED BY <1>3, <1>5

(* A call of another kind promises nothing of this; *)
LEMMA OtherKind ==
  ASSUME tls'.plain = <<>>, call'.kind # "https"
  PROVE  SInv'
BY DEF SInv, SafeOK

(* nor does one that leaves its connection; *)
LEMMA SafeOff ==
  ASSUME IInv, SInv, call.pc # "idle", tls'.plain = tls.plain, NEW pc \in OffPoints, Moved(call', pc),
         ~(Busy(call') /\ call'.what = "ack")
  PROVE  SInv'
<1>1. call'.kind = "https" => ~call'.ok
  BY DEF SInv, SafeOK, Moved
<1>2. ~Connection(call') /\ Point(call') \notin {"app", "app_wait"}
  BY OnAndOff DEF Moved
<1> QED BY <1>1, <1>2 DEF SInv, SafeOK

(* and one that keeps it keeps what is known of it. *)
LEMMA SafeOn ==
  ASSUME IInv, SInv, call.pc # "idle", Point(call) \in OnPoints,
         tls'.plain = tls.plain, tls'.app_record = tls.app_record,
         g'.local_port = g.local_port, g'.http_response = g.http_response,
         NEW pc \in OnPoints, Moved(call', pc),
         pc \in {"app", "app_wait"} => Point(call) \in {"app", "app_wait"}
  PROVE  SInv'
<1>1. call'.kind = "https" => ~call'.ok
  BY DEF SInv, SafeOK, Moved
<1>2. Connection(call)
  BY OnAndOff
<1>3. pc # "idle"
  BY DEF OnPoints
<1>4. call'.kind = "https" => /\ Own(tls'.app_record, g'.local_port)
                              /\ Point(call') \in {"app", "app_wait"}
                                    => Shows(g'.http_response, g'.local_port)
                              /\ Busy(call') /\ call'.what = "ack" => call'.back # "idle"
  BY <1>2, <1>3 DEF SInv, SafeOK, Moved
<1> QED BY <1>1, <1>4 DEF SInv, SafeOK


(* The steps of a call without a connection, or that give theirs up. *)
LEMMA SafeAway ==
  ASSUME IInv, SInv, \/ Query \/ ArpSent \/ ArpDone \/ Ask \/ DnsSent \/ DnsDone
                     \/ ConnectAsks \/ NoTargetLeft \/ NotConnected \/ HttpFailed
  PROVE  SInv'
<1>1. call \in Calls
  BY UnderWay
<1>2. ASSUME NEW pc \in {"query", "ask", "connect", "fail", "arp_wait", "dns_wait"},
             call.pc # "idle", tls' = tls, call' = Go(pc)
      PROVE  SInv'
  <2>1. pc \in OffPoints /\ pc \in Pcs \ {"send", "tx"}
    BY DEF OffPoints, Pcs, Waits
  <2>2. Moved(call', pc)
    BY <1>1, <1>2, <2>1, GoMoves
  <2>3. ~Busy(call')
    <3>1. call'.pc = pc
      BY <1>1, <1>2 DEF Calls, Go
    <3> QED BY <2>1, <3>1, Points
  <2> QED BY <1>2, <2>1, <2>2, <2>3, SafeOff
<1>3. ASSUME NEW c \in Calls, c.kind = call.kind, c.ok = call.ok, NEW what \in {"arp", "dns"},
             NEW frame, NEW tries, call.pc # "idle", tls' = tls,
             call' = Sending(c, what, frame, tries)
      PROVE  SInv'
  <2>1. what \in OffPoints /\ what \in Whats \ {"ack"}
    BY DEF OffPoints, Whats
  <2>2. Moved(call', what)
    BY <1>3, <2>1, SendingMoves
  <2>3. call'.what # "ack"
    <3>1. call'.what = what
      BY <1>3 DEF Calls, Sending
    <3> QED BY <2>1, <3>1
  <2> QED BY <1>3, <2>1, <2>2, <2>3, SafeOff
<1>4. ASSUME NEW d \in {"query", "ask", "connect", "fail", "arp_wait", "dns_wait"},
             call.pc # "idle", tls' = tls, call'.kind = call.kind, call'.ok = call.ok, call'.pc = d
      PROVE  SInv'
  <2>1. d \in OffPoints /\ d \notin {"send", "tx"}
    BY DEF OffPoints
  <2>2. Point(call') = d /\ ~Busy(call')
    BY <1>4, <2>1, Points
  <2> QED BY <1>4, <2>1, <2>2, SafeOff DEF Moved
<1>5. CASE Query
  <2> DEFINE c == [call EXCEPT !.dns_left = @ - 1]
             a == [c EXCEPT !.pc = "ask"]
             b == [call EXCEPT !.pc = "connect", !.targets = Targets(g)]
             frame == ArpFrame
  <2>1. /\ call.pc = "query" /\ tls' = tls
        /\ \/ call' = b
           \/ call' = Go("fail")
           \/ call.dns_left # 0 /\ (call' = a \/ call' = Sending(c, "arp", frame, 1))
    BY <1>5 DEF Query, At
  <2>2. b.kind = call.kind /\ b.ok = call.ok /\ b.pc = "connect"
    BY <1>1 DEF Calls
  <2>3. /\ c.kind = call.kind /\ c.ok = call.ok
        /\ a.kind = call.kind /\ a.ok = call.ok /\ a.pc = "ask"
    BY <1>1 DEF Calls
  <2>4. call.dns_left # 0 => c \in Calls
    <3>1. call.dns_left \in 0..DnsTries /\ DnsTries \in Nat
      BY <1>1, TriesAssumption DEF Calls
    <3>2. call.dns_left # 0 => call.dns_left - 1 \in 0..DnsTries
      BY <3>1
    <3> QED BY <1>1, <3>2 DEF Calls
  <2> HIDE DEF a, b, c, frame
  <2>5. CASE call' = b
    BY <1>4, <2>1, <2>2, <2>5
  <2>6. CASE call' = Go("fail")
    BY <1>2, <2>1, <2>6
  <2>7. CASE call.dns_left # 0 /\ call' = a
    BY <1>4, <2>1, <2>3, <2>7
  <2>8. CASE call.dns_left # 0 /\ call' = Sending(c, "arp", frame, 1)
    BY <1>3, <2>1, <2>3, <2>4, <2>8
  <2> QED BY <2>1, <2>5, <2>6, <2>7, <2>8
<1>6. CASE ArpSent
  BY <1>2, <1>6 DEF ArpSent, Sent, At
<1>7. CASE ArpDone
  <2>1. call.pc = "arp_wait" /\ tls' = tls
    BY <1>7 DEF ArpDone, Leaves, Ready, GivesUp, At
  <2>2. \/ call' = Go("ask") \/ call' = Go("connect") \/ call' = Go("query") \/ call' = Go("fail")
    BY <1>7 DEF ArpDone
  <2> QED BY <1>2, <2>1, <2>2
<1>8. CASE Ask
  <2> DEFINE frame == DnsFrame
  <2>1. call.pc = "ask" /\ tls' = tls /\ call' = Sending(call, "dns", frame, 1)
    BY <1>8 DEF Ask, At
  <2> HIDE DEF frame
  <2> QED BY <1>1, <1>3, <2>1
<1>9. CASE DnsSent
  BY <1>2, <1>9 DEF DnsSent, Sent, At
<1>10. CASE DnsDone
  BY <1>2, <1>10 DEF DnsDone, Leaves, Ready, GivesUp, At
<1>11. CASE ConnectAsks
  <2> DEFINE frame == ArpFrame
  <2>1. call.pc = "connect" /\ tls' = tls /\ call' = Sending(call, "arp", frame, 1)
    BY <1>11 DEF ConnectAsks, At
  <2> HIDE DEF frame
  <2> QED BY <1>1, <1>3, <2>1
<1>12. CASE NoTargetLeft
  BY <1>2, <1>12 DEF NoTargetLeft, At
<1>13. CASE NotConnected
  BY <1>2, <1>13 DEF NotConnected, GivesUp, At
<1>14. CASE HttpFailed
  BY <1>2, <1>14 DEF HttpFailed, GivesUp, At
<1> QED BY <1>5, <1>6, <1>7, <1>8, <1>9, <1>10, <1>11, <1>12, <1>13, <1>14


(* The steps of a call on its connection, up to the request: what is kept  *)
(* of a record does not change there.                                      *)
LEMMA SafeAlong ==
  ASSUME IInv, SInv, \/ SynSent \/ Connected \/ FinalSent \/ RequestSent \/ FlightDone
                     \/ SendClientKeyExchange \/ CkeSent \/ DeriveKeys \/ FinishedSent \/ AppSent
  PROVE  SInv'
<1>1. call \in Calls /\ g \in Nets /\ SessionOK(tls) /\ tls \in Sessions
  BY UnderWay DEF SessionOK
<1>p. tls.plain = <<>>
  BY DEF SInv
<1> DEFINE n == [g EXCEPT !.local_next = @ + 1]
<1>2. n.local_port = g.local_port /\ n.http_response = g.http_response
  BY <1>1 DEF Nets
<1>3. ASSUME NEW msg \in Msgs
      PROVE  /\ Hashed(tls, msg) \in Sessions
             /\ Hashed(tls, msg).plain = tls.plain /\ Hashed(tls, msg).app_record = tls.app_record
  BY <1>1, HashedOK DEF Aside, SessionOK
<1>4. ASSUME NEW pc \in {"http_wait", "flight_wait", "cke_wait", "fin_wait", "app_wait"}
      PROVE  Moved(Counted(pc), pc) /\ pc \in OnPoints
  <2>1. Go(pc) \in Calls
    BY <1>1, GoType DEF Pcs, Waits
  <2> DEFINE d == Counted(pc)
             e == g.local_next + 1
  <2>2. d = [Go(pc) EXCEPT !.end = e, !.acked = FALSE]
    BY DEF Counted
  <2>3. /\ Go(pc).kind = call.kind /\ Go(pc).ok = call.ok /\ Go(pc).pc = pc
    BY <1>1 DEF Calls, Go
  <2> HIDE DEF d, e
  <2>4. d.kind = call.kind /\ d.ok = call.ok /\ d.pc = pc
    BY <2>1, <2>2, <2>3 DEF Calls
  <2>5. Point(d) = pc /\ ~Busy(d)
    BY <2>4, Points
  <2> QED BY <2>4, <2>5 DEF Moved, d, OnPoints
<1> HIDE DEF n
<1>5. CASE SynSent
  <2>1. Point(call) = "syn" /\ call.pc # "idle" /\ UNCHANGED <<g, tls>> /\ call' = Go("syn_wait")
    BY <1>5, SentFacts DEF SynSent, Whats
  <2>2. Moved(call', "syn_wait")
    BY <1>1, <2>1, GoMoves DEF Pcs, Waits
  <2> QED BY <2>1, <2>2, SafeOn DEF OnPoints
<1>6. CASE Connected
  <2> DEFINE w == IF call.kind = "http" THEN "request" ELSE "final"
             r == [g EXCEPT !.local_next = g.syns, !.remote_next = g.last_seq + 1]
             x == [TcpFrame("data", Request) EXCEPT !.seq = g.syns]
             y == [AckFrame(g) EXCEPT !.seq = g.syns]
             frame == IF call.kind = "http" THEN x ELSE y
  <2>1. /\ Point(call) = "syn_wait" /\ call.pc # "idle" /\ tls' = tls /\ g' = r
        /\ call' = Sending(call, w, frame, TxTries)
    BY <1>6, Points DEF Connected, Ready, At
  <2>2. r.local_port = g.local_port /\ r.http_response = g.http_response
    BY <1>1 DEF Nets
  <2>3. w \in OnPoints /\ w \in Whats \ {"ack"} /\ w \notin {"app", "app_wait"}
    BY DEF OnPoints, Whats
  <2> HIDE DEF w, r, frame
  <2>4. Moved(call', w)
    BY <1>1, <2>1, <2>3, SendingMoves
  <2> QED BY <2>1, <2>2, <2>3, <2>4, SafeOn DEF OnPoints
<1>7. CASE FinalSent
  <2>1. Point(call) = "final" /\ call.pc # "idle" /\ UNCHANGED <<g, tls>>
    BY <1>7, SentFacts DEF FinalSent, Whats
  <2>2. CASE call.kind = "tcp"
    <3>1. call'.kind = "tcp"
      BY <1>1, <1>7, <2>2, ReturnType DEF FinalSent
    <3> QED BY <1>p, <2>1, <3>1, OtherKind
  <2>3. CASE call.kind # "tcp"
    <3> DEFINE frame == DataFrame(Request)
    <3>1. call' = Sending(call, "request", frame, TxTries)
      BY <1>7, <2>3 DEF FinalSent
    <3> HIDE DEF frame
    <3>2. Moved(call', "request")
      BY <1>1, <3>1, SendingMoves DEF Whats
    <3> QED BY <2>1, <3>2, SafeOn DEF OnPoints
  <2> QED BY <2>2, <2>3
<1>8. CASE RequestSent
  <2> DEFINE pc == IF call.kind = "http" THEN "http_wait" ELSE "flight_wait"
             u == IF call.kind = "https" THEN Hashed(tls, "CH") ELSE tls
  <2>1. /\ Point(call) = "request" /\ call.pc # "idle" /\ g' = n /\ tls' = u
        /\ call' = Counted(pc)
    BY <1>8, SentFacts DEF RequestSent, Advanced, Whats, n
  <2>2. u.plain = tls.plain /\ u.app_record = tls.app_record
    BY <1>3 DEF Msgs
  <2>3. pc \in {"http_wait", "flight_wait"}
    OBVIOUS
  <2> HIDE DEF pc, u
  <2>4. Moved(call', pc) /\ pc \in OnPoints
    BY <1>4, <2>1, <2>3
  <2> QED BY <1>2, <2>1, <2>2, <2>3, <2>4, SafeOn DEF OnPoints
<1>9. CASE FlightDone
  <2>1. Point(call) = "flight_wait" /\ call.pc # "idle" /\ UNCHANGED <<g, tls>>
    BY <1>9, Points DEF FlightDone, Leaves, Ready, GivesUp, At
  <2>2. CASE tls.valid
    <3>1. call' = Acknowledging(call, g, "kex")
      BY <1>9, <2>2 DEF FlightDone
    <3>2. Moved(call', "kex")
      BY <1>1, <3>1, AcknowledgingMoves
    <3> QED BY <2>1, <3>2, SafeOn DEF OnPoints
  <2>3. CASE ~tls.valid
    <3>1. call' = Go("connect")
      BY <1>9, <2>3 DEF FlightDone
    <3>2. Moved(call', "connect") /\ call'.pc = "connect"
      BY <1>1, <3>1, GoMoves, GoType DEF Pcs
    <3>3. ~Busy(call')
      BY <3>2, Points
    <3> QED BY <2>1, <3>2, <3>3, SafeOff DEF OffPoints
  <2> QED BY <2>2, <2>3
<1>10. CASE SendClientKeyExchange
  <2>1. Point(call) = "kex" /\ call.pc # "idle" /\ UNCHANGED <<g, tls>>
    BY <1>10, Points DEF SendClientKeyExchange, At
  <2>2. CASE KexMatch
    <3> DEFINE frame == DataFrame([u |-> "CKE"])
    <3>1. call' = Sending(call, "cke", frame, TxTries)
      BY <1>10, <2>2 DEF SendClientKeyExchange
    <3> HIDE DEF frame
    <3>2. Moved(call', "cke")
      BY <1>1, <3>1, SendingMoves DEF Whats
    <3> QED BY <2>1, <3>2, SafeOn DEF OnPoints
  <2>3. CASE ~KexMatch
    <3>1. call' = Go("fail")
      BY <1>10, <2>3 DEF SendClientKeyExchange
    <3>2. Moved(call', "fail") /\ call'.pc = "fail"
      BY <1>1, <3>1, GoMoves, GoType DEF Pcs
    <3>3. ~Busy(call')
      BY <3>2, Points
    <3> QED BY <2>1, <3>2, <3>3, SafeOff DEF OffPoints
  <2> QED BY <2>2, <2>3
<1>11. CASE CkeSent
  <2> DEFINE h == Hashed(tls, "CKE")
             u == [h EXCEPT !.cke = TRUE]
  <2>1. /\ Point(call) = "cke" /\ call.pc # "idle" /\ g' = n /\ tls' = u
        /\ call' = Counted("cke_wait")
    BY <1>11, SentFacts DEF CkeSent, Advanced, Whats, n
  <2>2. h \in Sessions /\ h.plain = tls.plain /\ h.app_record = tls.app_record
    BY <1>3 DEF Msgs
  <2> HIDE DEF h
  <2>3. u.plain = tls.plain /\ u.app_record = tls.app_record
    BY <2>2 DEF Sessions
  <2> HIDE DEF u
  <2>4. Moved(call', "cke_wait")
    BY <1>4, <2>1
  <2> QED BY <1>2, <2>1, <2>3, <2>4, SafeOn DEF OnPoints
<1>12. CASE DeriveKeys
  <2> DEFINE u == [tls EXCEPT !.keys = tls.kex, !.client_finished = tls.transcript]
             frame == DataFrame(FinishedMessage(tls))
  <2>1. /\ Point(call) = "cke_wait" /\ call.pc # "idle" /\ g' = g /\ tls' = u
        /\ call' = Sending(call, "finished", frame, TxTries)
    BY <1>12, Points DEF DeriveKeys, Leaves, Ready, GivesUp, At
  <2>2. u.plain = tls.plain /\ u.app_record = tls.app_record
    BY <1>1 DEF Sessions
  <2> HIDE DEF u, frame
  <2>3. Moved(call', "finished")
    BY <1>1, <2>1, SendingMoves DEF Whats
  <2> QED BY <2>1, <2>2, <2>3, SafeOn DEF OnPoints
<1>13. CASE FinishedSent
  <2> DEFINE h == Hashed(tls, "Finished")
             u == [h EXCEPT !.finished_tx = TRUE]
  <2>1. /\ Point(call) = "finished" /\ call.pc # "idle" /\ g' = n /\ tls' = u
        /\ call' = Counted("fin_wait")
    BY <1>13, SentFacts DEF FinishedSent, Advanced, Whats, n
  <2>2. h \in Sessions /\ h.plain = tls.plain /\ h.app_record = tls.app_record
    BY <1>3 DEF Msgs
  <2> HIDE DEF h
  <2>3. u.plain = tls.plain /\ u.app_record = tls.app_record
    BY <2>2 DEF Sessions
  <2> HIDE DEF u
  <2>4. Moved(call', "fin_wait")
    BY <1>4, <2>1
  <2> QED BY <1>2, <2>1, <2>3, <2>4, SafeOn DEF OnPoints
<1>14. CASE AppSent
  <2> DEFINE u == [tls EXCEPT !.app_tx = TRUE]
  <2>1. /\ Point(call) = "app" /\ call.pc # "idle" /\ g' = n /\ tls' = u
        /\ call' = Counted("app_wait")
    BY <1>14, SentFacts DEF AppSent, Advanced, Whats, n
  <2>2. u.plain = tls.plain /\ u.app_record = tls.app_record
    BY <1>1 DEF Sessions
  <2> HIDE DEF u
  <2>3. Moved(call', "app_wait")
    BY <1>4, <2>1
  <2> QED BY <1>2, <2>1, <2>2, <2>3, SafeOn DEF OnPoints
<1> QED BY <1>5, <1>6, <1>7, <1>8, <1>9, <1>10, <1>11, <1>12, <1>13, <1>14


(* The steps that end a wait on the connection, and those that return: the *)
(* request is sealed with nothing captured, and the page that is returned  *)
(* is what was shown since.                                                *)
LEMMA SafeEnds ==
  ASSUME IInv, SInv, AckSent \/ HttpDone \/ SendHttpGet \/ AppDone \/ Fail
  PROVE  SInv'
<1>1. call \in Calls /\ g \in Nets /\ SessionOK(tls) /\ tls \in Sessions
  BY UnderWay DEF SessionOK
<1>p. tls.plain = <<>>
  BY DEF SInv
<1>r. ASSUME NEW ok \in BOOLEAN
      PROVE  /\ Return(ok).kind = call.kind /\ Return(ok).ok = ok /\ Return(ok).pc = "idle"
             /\ Point(Return(ok)) = "idle" /\ ~Busy(Return(ok))
  <2> DEFINE d == Return(ok)
  <2>1. d.kind = call.kind /\ d.ok = ok /\ d.pc = "idle"
    BY NoCallType DEF Return, Calls
  <2> HIDE DEF d
  <2>2. Point(d) = "idle" /\ ~Busy(d)
    BY <2>1, Points
  <2> QED BY <2>1, <2>2 DEF d
<1>2. CASE AckSent
  <2>1. /\ call.pc = "tx" /\ call.what = "ack" /\ UNCHANGED <<g, tls>>
        /\ call' = IF call.back = "idle" THEN Return(TRUE) ELSE Go(call.back)
    BY <1>2 DEF AckSent, Sent, At
  <2>2. Busy(call) /\ Point(call) = call.back /\ call.back \in Backs
    BY <2>1, Points, UnderWay DEF CallOK, FlowOK, Backs
  <2>3. CASE call.back = "idle"
    <3> DEFINE ok == TRUE
    <3>1. call' = Return(ok) /\ ok \in BOOLEAN
      BY <2>1, <2>3
    <3> HIDE DEF ok
    <3>2. call'.kind = call.kind
      BY <1>r, <3>1
    <3>3. call.kind # "https"
      BY <2>1, <2>2, <2>3 DEF SInv, SafeOK
    <3> QED BY <1>p, <2>1, <3>2, <3>3, OtherKind
  <2>4. CASE call.back # "idle"
    <3> DEFINE pc == call.back
    <3>1. pc \in OnPoints /\ pc \in Pcs \ {"send", "tx"}
      BY <2>2, <2>4 DEF OnPoints, Pcs, Waits, Backs
    <3>2. call' = Go(pc) /\ Point(call) = pc
      BY <2>1, <2>2, <2>4
    <3> HIDE DEF pc
    <3>3. Moved(call', pc)
      BY <1>1, <3>1, <3>2, GoMoves
    <3> QED BY <2>1, <3>1, <3>2, <3>3, SafeOn
  <2> QED BY <2>3, <2>4
<1>3. CASE HttpDone
  <2>1. Point(call) = "http_wait" /\ UNCHANGED <<g, tls>>
    BY <1>3, Points DEF HttpDone, Ready, At
  <2>2. call.kind = "http"
    <3>1. Stage(call) = 1
      BY <2>1, Stages
    <3> QED BY <2>1, <3>1, UnderWay DEF CallOK, StageOK
  <2> DEFINE ok == TRUE
             c == Return(ok)
  <2>3. call' = Acknowledging(c, g, "idle") /\ ok \in BOOLEAN
    BY <1>3 DEF HttpDone
  <2> HIDE DEF ok
  <2>4. c \in Calls /\ c.kind = "http"
    BY <1>1, <2>2, <2>3, ReturnType
  <2> HIDE DEF c
  <2>5. call'.kind = "http"
    <3> DEFINE back == "idle"
               a == Acknowledging(c, g, back)
    <3>1. back \in Backs /\ call' = a
      BY <2>3 DEF Backs
    <3> HIDE DEF back
    <3>2. a.kind = c.kind
      BY <1>1, <2>4, <3>1, AcknowledgingType
    <3> QED BY <2>4, <3>1, <3>2
  <2> QED BY <1>p, <2>1, <2>5, OtherKind
<1>4. CASE SendHttpGet
  <2> DEFINE u == [tls EXCEPT !.app_tx = FALSE, !.app_decrypt = FALSE, !.app_need = 0,
                              !.app_record = <<>>]
             r == [g EXCEPT !.http_response = <<>>, !.http_valid = FALSE]
             frame == DataFrame([u |-> "sealed get", key |-> tls.keys])
  <2>1. /\ Point(call) = "fin_wait" /\ call.pc # "idle" /\ tls' = u
        /\ \/ g' = r /\ call' = Sending(call, "app", frame, TxTries)
           \/ g' = g /\ call' = Go("fail")
    BY <1>4, Points DEF SendHttpGet, Leaves, Ready, GivesUp, At
  <2>2. u.plain = tls.plain /\ u.app_record = <<>>
    BY <1>1 DEF Sessions
  <2>3. r.http_response = <<>>
    BY <1>1 DEF Nets
  <2> HIDE DEF u, r, frame
  <2>4. CASE g' = r /\ call' = Sending(call, "app", frame, TxTries)
    <3>1. Moved(call', "app")
      BY <1>1, <2>4, SendingMoves DEF Whats
    <3>2. Own(tls'.app_record, g'.local_port) /\ Shows(g'.http_response, g'.local_port)
      BY <2>1, <2>2, <2>3, <2>4, EmptyType DEF Own, Shows
    <3>3. call'.kind = "https" => ~call'.ok
      BY <2>1, <3>1 DEF SInv, SafeOK, Moved
    <3>4. Busy(call') /\ call'.what = "ack" => call'.back # "idle"
      BY <3>1 DEF Moved
    <3> QED BY <1>p, <2>1, <2>2, <3>2, <3>3, <3>4 DEF SInv, SafeOK
  <2>5. CASE g' = g /\ call' = Go("fail")
    <3>1. Moved(call', "fail") /\ call'.pc = "fail"
      BY <1>1, <2>5, GoMoves, GoType DEF Pcs
    <3>2. ~Busy(call')
      BY <3>1, Points
    <3> QED BY <2>1, <2>2, <3>1, <3>2, SafeOff DEF OffPoints
  <2> QED BY <2>1, <2>4, <2>5
<1>5. CASE AppDone
  <2> DEFINE ok == tls.app_decrypt /\ g.http_response # <<>>
  <2>1. Point(call) = "app_wait" /\ UNCHANGED <<g, tls>> /\ call' = Return(ok)
    BY <1>5, Points DEF AppDone, Leaves, Ready, GivesUp, At
  <2>2. ok \in BOOLEAN /\ (ok => g.http_response # <<>>)
    OBVIOUS
  <2> HIDE DEF ok
  <2>3. /\ call'.kind = call.kind /\ call'.ok = ok /\ call'.pc = "idle"
        /\ Point(call') = "idle" /\ ~Busy(call')
    BY <1>r, <2>1, <2>2
  <2>4. ~Connection(call')
    BY <2>3, OnAndOff DEF OffPoints
  <2>5. call.kind = "https" => Shows(g.http_response, g.local_port)
    BY <2>1 DEF SInv, SafeOK
  <2> QED BY <1>p, <2>1, <2>2, <2>3, <2>4, <2>5 DEF SInv, SafeOK
<1>6. CASE Fail
  <2> DEFINE ok == FALSE
  <2>1. UNCHANGED <<g, tls>> /\ call' = Return(ok) /\ ok \in BOOLEAN /\ ~ok
    BY <1>6 DEF Fail
  <2> HIDE DEF ok
  <2>2. call'.ok = ok /\ Point(call') = "idle" /\ ~Busy(call')
    BY <1>r, <2>1
  <2>3. ~Connection(call')
    BY <2>2, OnAndOff DEF OffPoints
  <2> QED BY <1>p, <2>1, <2>2, <2>3 DEF SInv, SafeOK
<1> QED BY <1>2, <1>3, <1>4, <1>5, <1>6

(* The steps that hand a frame to the card, or give it up. *)
LEMMA SafeSender ==
  ASSUME IInv, SInv, Sender
  PROVE  SInv'
<1>1. /\ call \in Calls /\ call.pc \in {"send", "tx"} /\ UNCHANGED <<g, tls>> /\ FlowOK(call)
      /\ call' = [call EXCEPT !.pc = "tx"] \/ call' = Retried
  BY UnderWay DEF Sender, HandOver, HandOverRefused, TxTimeout, At, CallOK
<1>p. tls.plain = <<>>
  BY DEF SInv
<1>2. Busy(call)
  BY <1>1 DEF Busy
<1>3. ASSUME NEW pc \in {"send", "tx"}, NEW d, d = call',
             d.pc = pc, d.what = call.what, d.back = call.back, d.kind = call.kind, d.ok = call.ok
      PROVE  SInv'
  <2>1. Point(d) = Point(call) /\ Busy(d)
    BY <1>1, <1>3, Points
  <2>2. Connection(d) <=> Connection(call)
    BY <2>1 DEF Connection, Dialing, Stage
  <2>3. d.kind = "https" => ~d.ok
    BY <1>1, <1>3 DEF SInv, SafeOK
  <2>4. d.kind = "https" =>
           /\ Connection(d) => Own(tls.app_record, g.local_port)
           /\ Point(d) \in {"app", "app_wait"} => Shows(g.http_response, g.local_port)
           /\ Busy(d) /\ d.what = "ack" => d.back # "idle"
    BY <1>2, <1>3, <2>1, <2>2 DEF SInv, SafeOK
  <2> QED BY <1>1, <1>3, <1>p, <2>3, <2>4 DEF SInv, SafeOK
<1>4. CASE call' = [call EXCEPT !.pc = "tx"]
  <2>1. /\ call'.pc = "tx" /\ call'.what = call.what /\ call'.back = call.back
        /\ call'.kind = call.kind /\ call'.ok = call.ok
    BY <1>1, <1>4 DEF Calls
  <2> QED BY <1>3, <2>1
<1>5. CASE call' = Retried
  <2>1. CASE call.left > 1
    <3> DEFINE m == call.left - 1
    <3>1. call' = [call EXCEPT !.pc = "send", !.left = m]
      BY <1>5, <2>1 DEF Retried
    <3> HIDE DEF m
    <3>2. /\ call'.pc = "send" /\ call'.what = call.what /\ call'.back = call.back
          /\ call'.kind = call.kind /\ call'.ok = call.ok
      BY <1>1, <3>1 DEF Calls
    <3> QED BY <1>3, <3>2
  <2>2. CASE ~(call.left > 1)
    <3>1. call' = AfterFailure
      BY <1>5, <2>2 DEF Retried
    <3>2. \/ \E pc \in {"query", "connect", "fail"} : call' = Go(pc)
          \/ call.what = "ack" /\ call.back = "idle" /\ call' = Return(TRUE)
          \/ call.what = "ack" /\ call.back # "idle" /\ call' = Go(call.back)
      BY <3>1 DEF AfterFailure
    <3>3. ASSUME NEW pc \in {"query", "connect", "fail"}, call' = Go(pc) PROVE SInv'
      <4>1. pc \in OffPoints /\ pc \in Pcs \ {"send", "tx"}
        BY DEF OffPoints, Pcs
      <4>2. Moved(call', pc) /\ call'.pc = pc
        BY <1>1, <3>3, <4>1, GoMoves, GoType
      <4>3. ~Busy(call')
        BY <4>1, <4>2, Points
      <4> QED BY <1>1, <4>1, <4>2, <4>3, SafeOff
    <3>4. CASE call.what = "ack" /\ call.back = "idle" /\ call' = Return(TRUE)
      <4> DEFINE ok == TRUE
      <4>1. call' = Return(ok) /\ ok \in BOOLEAN
        BY <3>4
      <4> HIDE DEF ok
      <4>2. call'.kind = call.kind
        BY <1>1, <4>1, ReturnType
      <4>3. call.kind # "https"
        BY <1>2, <3>4 DEF SInv, SafeOK
      <4> QED BY <1>1, <1>p, <4>2, <4>3, OtherKind
    <3>5. CASE call.what = "ack" /\ call.back # "idle" /\ call' = Go(call.back)
      <4> DEFINE pc == call.back
      <4>1. pc \in OnPoints /\ pc \in Pcs \ {"send", "tx"} /\ Point(call) = pc
        BY <1>1, <1>2, <3>5, Points DEF FlowOK, OnPoints, Pcs, Waits
      <4>2. call' = Go(pc)
        BY <3>5
      <4> HIDE DEF pc
      <4>3. Moved(call', pc)
        BY <1>1, <4>1, <4>2, GoMoves
      <4> QED BY <1>1, <4>1, <4>3, SafeOn
    <3> QED BY <3>2, <3>3, <3>4, <3>5
  <2> QED BY <2>1, <2>2
<1> QED BY <1>1, <1>4, <1>5


(* A call that begins has nothing to show. *)
LEMMA SafeCaller ==
  ASSUME IInv, SInv, Caller
  PROVE  SInv'
<1>1. /\ ~call'.ok /\ call'.pc \in {"query", "connect"}
      /\ tls' = NewSession \/ tls' = tls
  BY DEF Caller, GetUrl, ConnectDns, Fresh, NoCall
<1>2. tls'.plain = <<>>
  <2>1. NewSession.plain = <<>>
    BY DEF NewSession
  <2> QED BY <1>1, <2>1 DEF SInv
<1>3. Point(call') \in OffPoints /\ ~Busy(call')
  BY <1>1, Points DEF OffPoints
<1>4. ~Connection(call') /\ Point(call') \notin {"app", "app_wait"}
  BY <1>3, OnAndOff
<1> QED BY <1>1, <1>2, <1>3, <1>4 DEF SInv, SafeOK

(* What is received on a connection leaves it clean. *)
LEMMA SafePolled ==
  ASSUME IInv, SInv
  PROVE  LET s == Polled([g |-> g, t |-> tls], nic.rx)
         IN /\ s.t.plain = <<>> /\ Kept(g, s.g) /\ s.g \in Nets
            /\ call.kind = "https" =>
                  /\ Connection(call) => Own(s.t.app_record, g.local_port)
                  /\ Point(call) \in {"app", "app_wait"} => Shows(s.g.http_response, g.local_port)
<1> DEFINE e == [g |-> g, t |-> tls]
           s == Polled(e, nic.rx)
<1>1. Handled(peers, e, s)
  BY UnderWay, RingPolled
<1>2. e.g = g /\ e.t = tls
  OBVIOUS
<1> HIDE DEF e, s
<1>3. Secure(e, s) /\ Kept(g, s.g) /\ s.g \in Nets
  BY <1>1, <1>2 DEF Handled, StackOK, NetOK
<1>4. s.t.plain = <<>>
  BY <1>2, <1>3 DEF Secure, SInv
<1>5. ASSUME call.kind = "https", Connection(call)
      PROVE  /\ Own(s.t.app_record, g.local_port)
             /\ Shows(g.http_response, g.local_port) => Shows(s.g.http_response, g.local_port)
  <2>1. g.target_port = TLS
    BY <1>5, UnderWay DEF CallOK, ConnectionOK, PortOf
  <2>2. Own(tls.app_record, g.local_port)
    BY <1>5 DEF SInv, SafeOK
  <2> QED BY <1>2, <1>3, <2>1, <2>2 DEF Secure, SInv
<1>6. ASSUME call.kind = "https", Point(call) \in {"app", "app_wait"}
      PROVE  Shows(s.g.http_response, g.local_port)
  <2>1. Connection(call)
    BY <1>6, OnAndOff DEF OnPoints
  <2>2. Shows(g.http_response, g.local_port)
    BY <1>6 DEF SInv, SafeOK
  <2> QED BY <1>5, <1>6, <2>1, <2>2
<1> QED BY <1>3, <1>4, <1>5, <1>6 DEF s, e

(* So the polls keep it. *)
LEMMA SafePoll ==
  ASSUME IInv, SInv, RetryPoll \/ Poll
  PROVE  SInv'
<1> DEFINE s == Polled([g |-> g, t |-> tls], nic.rx)
<1>1. /\ s.t.plain = <<>> /\ Kept(g, s.g) /\ s.g \in Nets
      /\ call.kind = "https" =>
            /\ Connection(call) => Own(s.t.app_record, g.local_port)
            /\ Point(call) \in {"app", "app_wait"} => Shows(s.g.http_response, g.local_port)
  BY SafePolled
<1>c. call \in Calls
  BY UnderWay
<1>2. ASSUME g'.local_port = g.local_port, g'.http_response = s.g.http_response, tls' = s.t,
             Point(call') = Point(call), call'.kind = call.kind, call'.ok = call.ok,
             call.pc # "idle",
             call'.kind = "https" /\ Busy(call') /\ call'.what = "ack" => call'.back # "idle"
      PROVE  SInv'
  <2>1. Connection(call') <=> Connection(call)
    BY <1>2 DEF Connection, Dialing, Stage
  <2>2. call'.kind = "https" => ~call'.ok
    BY <1>2 DEF SInv, SafeOK
  <2> HIDE DEF s
  <2>3. tls'.plain = <<>>
    BY <1>1, <1>2
  <2>4. call'.kind = "https" =>
           /\ Connection(call') => Own(tls'.app_record, g'.local_port)
           /\ Point(call') \in {"app", "app_wait"} => Shows(g'.http_response, g'.local_port)
    BY <1>1, <1>2, <2>1
  <2> QED BY <1>2, <2>2, <2>3, <2>4 DEF SInv, SafeOK
<1>3. CASE RetryPoll
  <2>1. g' = s.g /\ tls' = s.t /\ call' = call /\ call.pc = "send"
    BY <1>3 DEF RetryPoll, Take, At
  <2> HIDE DEF s
  <2>2. g'.local_port = g.local_port
    BY <1>1, <2>1 DEF Kept
  <2>3. call.kind = "https" /\ Busy(call) /\ call.what = "ack" => call.back # "idle"
    BY DEF SInv, SafeOK
  <2> QED BY <1>2, <2>1, <2>2, <2>3
<1>4. CASE Poll
  <2> DEFINE ended == EndAcked(s.g)
             c == IF ended THEN [call EXCEPT !.acked = TRUE] ELSE call
             r == [s.g EXCEPT !.payload_acked = @ \/ ended]
             d == Acknowledging(c, s.g, call.pc)
  <2>1. g' = r /\ tls' = s.t /\ call.pc \in Waits /\ (call' = c \/ call' = d)
    BY <1>4 DEF Poll, Polls, Take
  <2> HIDE DEF s, ended
  <2>2. r.local_port = g.local_port /\ r.http_response = s.g.http_response
    BY <1>1 DEF Nets, Kept
  <2>3. c \in Calls /\ c.kind = call.kind /\ c.ok = call.ok /\ c.pc = call.pc
    BY <1>c DEF Calls
  <2> HIDE DEF r, c
  <2>4. Moved(d, call.pc)
    BY <2>3, AcknowledgingMoves
  <2> HIDE DEF d
  <2>5. call.pc \notin {"send", "tx", "idle"}
    BY <2>1 DEF Waits
  <2>6. Point(call) = call.pc /\ Point(c) = call.pc /\ ~Busy(c)
    BY <2>3, <2>5, Points
  <2>7. CASE call' = c
    BY <1>2, <2>1, <2>2, <2>3, <2>5, <2>6, <2>7
  <2>8. CASE call' = d
    BY <1>2, <2>1, <2>2, <2>4, <2>5, <2>6, <2>8 DEF Moved
  <2> QED BY <2>1, <2>7, <2>8
<1> QED BY <1>3, <1>4

(* A new connection begins with nothing kept of a record. *)
LEMMA SafeConnect ==
  ASSUME IInv, SInv, Connect
  PROVE  SInv'
<1> DEFINE r == Connecting(g)
           t == IF call.kind = "https" THEN TranscriptReset(tls) ELSE tls
           e == [g |-> r, t |-> t]
           s == Polled(e, nic.rx)
           q == [s.g EXCEPT !.syns = @ + 1]
           l == Tail(call.targets)
           b == [call EXCEPT !.targets = l, !.acked = FALSE, !.end = 0]
           frame == SynFrame(r)
           d == Sending(b, "syn", frame, TxTries)
<1>1. /\ g' = q /\ tls' = s.t /\ call' = d /\ call.targets # <<>> /\ call.pc = "connect"
  BY DEF Connect, Dials, At
<1>2. call \in Calls /\ SessionOK(tls) /\ tls \in Sessions /\ tls.plain = <<>>
  BY UnderWay DEF SessionOK, SInv
<1>3. NetOK(r) /\ Known(peers, r) /\ r.target_port = PortOf(call)
  BY <1>1, ConnectingOK
<1>4. SessionOK(t)
  BY <1>2, ResetOK
<1>5. t.plain = <<>> /\ (call.kind = "https" => t.app_record = <<>>)
  BY <1>2 DEF TranscriptReset, Sessions
<1> HIDE DEF r, t
<1>6. Handled(peers, e, s) /\ e.g = r /\ e.t = t
  BY <1>3, <1>4, RingPolled
<1> HIDE DEF e, s
<1>7. Secure(e, s) /\ Kept(r, s.g) /\ s.g \in Nets
  BY <1>6 DEF Handled, StackOK, NetOK
<1>8. s.t.plain = <<>>
  BY <1>5, <1>6, <1>7 DEF Secure
<1>9. call.kind = "https" => Own(s.t.app_record, r.local_port)
  <2> SUFFICES ASSUME call.kind = "https" PROVE Own(s.t.app_record, r.local_port)
    OBVIOUS
  <2>1. r.target_port = TLS
    BY <1>3 DEF PortOf
  <2>2. Own(t.app_record, r.local_port)
    BY <1>5, EmptyType DEF Own
  <2> QED BY <1>5, <1>6, <1>7, <2>1, <2>2 DEF Secure
<1>10. q.local_port = r.local_port
  BY <1>7 DEF Nets, Kept
<1> HIDE DEF q, l, frame
<1>11. DOMAIN b = DOMAIN call /\ b.kind = call.kind /\ b.ok = call.ok
  BY <1>2 DEF Calls
<1>12. /\ d.kind = call.kind /\ d.ok = call.ok /\ d.pc = "send" /\ d.what = "syn"
  <2> HIDE DEF b
  <2>1. {"pc", "what", "frame", "left", "kind", "ok"} \subseteq DOMAIN b
    BY <1>2, <1>11 DEF Calls
  <2> QED BY <1>11, <2>1 DEF Sending
<1> HIDE DEF d
<1>13. Point(d) = "syn" /\ d.what # "ack"
  BY <1>12, Points
<1>14. d.kind = "https" => ~d.ok
  BY <1>1, <1>12 DEF SInv, SafeOK
<1> QED BY <1>1, <1>8, <1>9, <1>10, <1>12, <1>13, <1>14 DEF SInv, SafeOK


(* It speaks of the globals, the session and the call only. *)
LEMMA SafeSame ==
  ASSUME SInv, UNCHANGED <<g, tls, call>>
  PROVE  SInv'
BY DEF SInv, SafeOK, Connection, Dialing, Stage, Point, Busy

(* The network touches nothing of the machine's but its rings. *)
LEMMA SafeNetwork ==
  ASSUME SInv, Network
  PROVE  SInv'
<1>1. UNCHANGED machine
  BY DEF Network, Transmit, Deliver, Overtake, Overflow, Lose, Again, Arrive
<1> QED BY <1>1, SafeSame DEF machine

(* The first state shows nothing. *)
LEMMA SafeInitially == Init => SInv
<1> SUFFICES ASSUME Init PROVE SInv
  OBVIOUS
<1>1. tls = NewSession /\ call = NoCall
  BY DEF Init
<1>2. tls.plain = <<>>
  BY <1>1 DEF NewSession
<1>3. call.kind = "none"
  BY <1>1, NoCallType
<1> QED BY <1>2, <1>3 DEF SInv, SafeOK

(* Every step keeps what is received over HTTPS the server's. *)
LEMMA SafeStep == IInv /\ SInv /\ [Next]_vars => SInv'
<1> SUFFICES ASSUME IInv, SInv, [Next]_vars PROVE SInv'
  OBVIOUS
<1>1. CASE Onward
  BY <1>1, SafeAway, SafeAlong, SafeEnds DEF Onward
<1>2. CASE Next /\ ~Onward
  BY <1>2, SafeCaller, SafeSender, SafePoll, SafeConnect, SafeNetwork DEF Next
<1>3. CASE UNCHANGED vars
  BY <1>3, SafeSame DEF vars
<1> QED BY <1>1, <1>2, <1>3

(* A page that net_https_get_url returns starts with the answer of the      *)
(* server this call connected to, the whole of it or as much as the capture *)
(* holds, and nothing of it is another's, whatever is lost, doubled, late   *)
(* or overtaken on the way.                                                 *)
THEOREM SecurePageAlwaysOwn == Spec => []SecurePageIsOwn
<1>1. IInv /\ SInv => SecurePageIsOwn
  <2> SUFFICES ASSUME IInv, SInv, Finished, call.ok, call.kind = "https"
               PROVE  /\ g.http_response # <<>>
                      /\ IsPrefix(Opening(g.local_port), g.http_response)
                      /\ \A i \in DOMAIN g.http_response :
                            g.http_response[i].conn = g.local_port
    BY DEF SecurePageIsOwn
  <2> DEFINE k == g.local_port
             s == g.http_response
             p == Page(k)
             m == Least(PageLen, Capture_)
             o == SubSeq(p, 1, m)
  <2>1. s # <<>> /\ Shows(s, k)
    BY DEF SInv, SafeOK
  <2>2. s \in Seq(Shown) /\ k \in Int
    BY UnderWay DEF NetOK, Nets
  <2>3. p \in Seq(InUnits) /\ Len(p) = PageLen
    BY <2>2, PageType DEF Mute
  <2>4. m \in Nat /\ m <= PageLen /\ PageLen \in Nat
    BY PageAssumption, SizesAssumption, LeastType
  <2>5. Opening(k) = o
    BY DEF Opening
  <2> HIDE DEF k, s, p, m
  <2>6. p \in Seq(Shown)
    BY <2>3 DEF Shown
  <2>7. o \in Seq(Shown) /\ Len(o) = m /\ \A i \in 1..m : o[i] = p[i]
    BY <2>3, <2>4, <2>6
  <2>8. m <= Len(s) /\ \A i \in 1..m : s[i] = p[i]
    BY <2>1 DEF Shows, m, p
  <2> HIDE DEF o
  <2>9. IsPrefix(o, s)
    BY <2>2, <2>7, <2>8, PrefixOf
  <2>10. \A i \in DOMAIN s : s[i].conn = k
    BY <2>1, <2>2 DEF Shows
  <2> QED BY <2>1, <2>5, <2>9, <2>10 DEF s, k
<1>2. Spec => [](IInv /\ SInv)
  BY InvInitially, InvStep, SafeInitially, SafeStep, PTL DEF Spec
<1> QED BY <1>1, <1>2, PTL
=============================================================================
