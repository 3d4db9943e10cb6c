-------------------------- MODULE NetReceiveProofs -------------------------
(***************************************************************************)
(* Proofs about the network calls, for any page, any peers' answers, any   *)
(* way of cutting the stream, any capture and any number of faults: what   *)
(* the receiving half of net.c and tls.c makes of the frames and records   *)
(* that can reach it, and what the peers can have sent.                    *)
(***************************************************************************)
EXTENDS NetProperties, WellFoundedInduction, TLAPS

(* A set of numbers has a least one. *)
LEMMA LeastNatural ==
  ASSUME NEW S \in SUBSET Nat, S # {}
  PROVE  \E s \in S : \A t \in S : s <= t
<1> DEFINE R == {ss \in Nat \X Nat : ss[1] < ss[2]}
<1>1. IsWellFoundedOn(R, Nat)
  BY NatLessThanWellFounded DEF OpToRel
<1>2. PICK s \in S : \A t \in S : <<t, s>> \notin R
  BY <1>1, WFMin
<1>3. \A t \in S : ~(t < s)
  BY <1>2
<1> QED BY <1>3

(* Induction over the numbers, for a set instead of a formula. *)
LEMMA NatBySteps ==
  ASSUME NEW P \in SUBSET Nat, 0 \in P, \A n \in P : n + 1 \in P
  PROVE  P = Nat
<1> SUFFICES ASSUME Nat \ P # {} PROVE FALSE
  OBVIOUS
<1>1. PICK s \in Nat \ P : \A t \in Nat \ P : s <= t
  BY LeastNatural
<1>2. s # 0 /\ s - 1 \in Nat /\ s - 1 \in P
  BY <1>1
<1> QED BY <1>1, <1>2

-----------------------------------------------------------------------------
(***************************************************************************)
(* Types.                                                                  *)
(***************************************************************************)
Addresses == Ips \cup {NameServer, "none"}

Msgs  == {"none", "unknown", "CH", "SH", "Cert", "SKE", "SHD", "CKE", "Finished", "ccs", "alert"}
Whats == {"none", "arp", "dns", "syn", "final", "request", "ack", "cke", "finished", "app"}

(* What a server puts on the stream, and what is sealed in it. *)
PageUnits == [u : {"status", "text"}, conn : Int]
Vouchers  == [msg : {"ServerFinished"}, over : Seq(Msgs)]
InUnits ==
         [u : {"head"}, type : {"handshake", "alert", "ccs", "data"}, len : Nat]
    \cup [u : {"head2"}]
    \cup [u : {"hs"}, msg : Msgs, len : Nat, conn : Int]
    \cup [u : {"body"}, msg : Msgs]
    \cup [u : {"sealed"}, key : Int, seq : Nat, plain : PageUnits \cup Vouchers,
          place : Nat, of : Nat]
    \cup PageUnits
Shown == InUnits \cup Vouchers

(* What the machine sends as payload. *)
OutUnits ==
         [u : {"get", "CH", "CKE"}]
    \cup [u : {"finished"}, key : Int, over : Seq(Msgs)]
    \cup [u : {"sealed get"}, key : Int]

Segments == [type : {"tcp"}, from : Addresses, port : Nat, to : Nat, syn : BOOLEAN,
             seq : Int, ack : Int, data : Seq(InUnits)]
InFrames == [type : {"arp"}] \cup [type : {"dns"}, host : Hosts, ips : Seq(Ips)] \cup Segments
OutFrames ==
         [type : {"arp"}]
    \cup [type : {"dns"}, host : Hosts]
    \cup [type : {"syn"}, ip : Addresses, port : Nat, local : Nat, seq : Nat]
    \cup [type : {"ack"}, local : Nat, seq : Int]
    \cup [type : {"data"}, local : Nat, seq : Int, data : OutUnits]

Sessions ==
    [valid : BOOLEAN, hello : Int, kex : Int, cert : [conn : Int, len : Nat, rx : Nat],
     pend : [msg : Msgs, len : Nat, rx : Nat], record_pending : Nat,
     transcript : Seq(Msgs), cert_added : BOOLEAN, client_finished : Seq(Msgs),
     cke : BOOLEAN, keys : Int, finished_tx : BOOLEAN, verified : BOOLEAN,
     app_tx : BOOLEAN, app_decrypt : BOOLEAN, app_need : Nat, app_record : Seq(InUnits),
     plain : Seq(Shown)]

Nets == [mac : BOOLEAN, dns_valid : BOOLEAN, dns_ips : Seq(Ips), dns_last : Addresses,
         target_ip : Addresses, target_port : Nat, local_port : Nat, syns : Nat,
         synack : BOOLEAN, last_ack : Int, last_seq : Int,
         local_next : Int, remote_next : Int, payload_acked : BOOLEAN,
         http_response : Seq(Shown), http_valid : BOOLEAN]

Calls == [kind : {"none", "http", "https", "tcp"}, host : Hosts \cup {"none"},
          pc : Waits \cup {"idle", "query", "ask", "connect", "kex", "send", "tx", "fail"},
          what : Whats, frame : OutFrames \cup {NoFrame}, left : 0..TxTries,
          dns_left : 0..DnsTries, targets : Seq(Addresses), first : Nat, end : Int,
          acked : BOOLEAN, ok : BOOLEAN, back : Waits \cup {"none", "idle", "kex"}, number : Nat]

Peers == [ip : Addresses, port : Nat, isn : Nat, got : Seq(OutUnits), next : Int,
          sent : SUBSET Segments]

(* What the parser keeps of a record in pieces, and of a message in pieces. *)
SessionOK(t) == /\ t \in Sessions
                /\ Len(t.app_record) <= t.app_need
                /\ t.pend.rx <= t.pend.len

-----------------------------------------------------------------------------
(***************************************************************************)
(* The record parser.                                                      *)
(***************************************************************************)
(* Polling handles the frames of the ring one after the other (net_poll_frames). *)
PolledBy(w, s, frames) ==
  /\ w[0] = s
  /\ \A i \in 1..Len(frames) : w[i] = Handle(w[i - 1], frames[i])
  /\ Polled(s, frames) = w[Len(frames)]

(* net_poll's loop: the handlers' successive results, one frame after the  *)
(* other.                                                                  *)
LEMMA PolledSteps ==
  ASSUME NEW s, s.g \in Nets, SessionOK(s.t), NEW frames \in Seq(InFrames)
  PROVE  \E w : PolledBy(w, s, frames)
<1> DEFINE Chain(w, n) == w = [i \in 0..n |-> IF i = 0 THEN s
                                             ELSE Handle(w[i - 1], frames[i])]
           P == {n \in Nat : \E w : Chain(w, n)}
<1> HIDE DEF Chain, P
<1>1. P = Nat
  <2>1. 0 \in P
    <3> DEFINE u == [i \in 0..0 |-> s]
    <3>1. Chain(u, 0)
      BY DEF Chain
    <3> QED BY <3>1 DEF P
  <2>2. ASSUME NEW n \in P PROVE n + 1 \in P
    <3>1. n \in Nat /\ \E w : Chain(w, n)
      BY DEF P
    <3>2. PICK w : Chain(w, n)
      BY <3>1
    <3> DEFINE u == [i \in 0..n+1 |-> IF i = 0 THEN s
                                      ELSE Handle(w[i - 1], frames[i])]
    <3>3. \A i \in 0..n : w[i] = u[i]
      BY <3>1, <3>2 DEF Chain
    <3>4. \A i \in 0..n+1 : u[i] = IF i = 0 THEN s
                                    ELSE Handle(u[i - 1], frames[i])
      <4> TAKE i \in 0..n+1
      <4>1. CASE i = 0
        BY <4>1, <3>1
      <4>2. CASE i # 0
        <5>1. i - 1 \in 0..n
          BY <4>2, <3>1
        <5>2. w[i - 1] = u[i - 1]
          BY <5>1, <3>3
        <5> QED BY <4>2, <5>2
      <4> QED BY <4>1, <4>2
    <3>5. Chain(u, n+1)
      BY <3>4 DEF Chain
    <3> QED BY <3>1, <3>5 DEF P
  <2>3. P \in SUBSET Nat
    BY DEF P
  <2> QED BY <2>1, <2>2, <2>3, NatBySteps
<1> DEFINE W == CHOOSE w : Chain(w, Len(frames))
<1>2. Len(frames) \in Nat
  OBVIOUS
<1>3. \E w : Chain(w, Len(frames))
  BY <1>1, <1>2 DEF P
<1>4. Chain(W, Len(frames))
  BY <1>3
<1>5. Polled(s, frames) = W[Len(frames)]
  BY DEF Polled, Chain
<1> HIDE DEF W
<1>6. W[0] = s
  BY <1>2, <1>4 DEF Chain
<1>7. \A i \in 1..Len(frames) : W[i] = Handle(W[i - 1], frames[i])
  BY <1>2, <1>4 DEF Chain
<1>8. PolledBy(W, s, frames)
  BY <1>5, <1>6, <1>7 DEF PolledBy
<1> QED BY <1>8

(* The messages of a record are read one after the other (net_tls_capture_payload). *)
MessagesBy(w, t, us) ==
  /\ w[0] = [t |-> t, p |-> us]
  /\ \A i \in 1..Len(us) : w[i] = NextMessage(w[i - 1])
  /\ Messages(t, us) = w[Len(us)].t

(* The loop of tls_scan_handshake_messages, one message after the other. *)
LEMMA MessagesSteps ==
  ASSUME NEW t, SessionOK(t), NEW us \in Seq(InUnits)
  PROVE  \E w : MessagesBy(w, t, us)
<1> DEFINE Chain(w, n) == w = [i \in 0..n |-> IF i = 0 THEN [t |-> t, p |-> us]
                                             ELSE NextMessage(w[i - 1])]
           P == {n \in Nat : \E w : Chain(w, n)}
<1> HIDE DEF Chain, P
<1>1. P = Nat
  <2>1. 0 \in P
    <3> DEFINE u == [i \in 0..0 |-> [t |-> t, p |-> us]]
    <3>1. Chain(u, 0)
      BY DEF Chain
    <3> QED BY <3>1 DEF P
  <2>2. ASSUME NEW n \in P PROVE n + 1 \in P
    <3>1. n \in Nat /\ \E w : Chain(w, n)
      BY DEF P
    <3>2. PICK w : Chain(w, n)
      BY <3>1
    <3> DEFINE u == [i \in 0..n+1 |-> IF i = 0 THEN [t |-> t, p |-> us]
                                      ELSE NextMessage(w[i - 1])]
    <3>3. \A i \in 0..n : w[i] = u[i]
      BY <3>1, <3>2 DEF Chain
    <3>4. \A i \in 0..n+1 : u[i] = IF i = 0 THEN [t |-> t, p |-> us]
                                    ELSE NextMessage(u[i - 1])
      <4> TAKE i \in 0..n+1
      <4>1. CASE i = 0
        BY <4>1, <3>1
      <4>2. CASE i # 0
        <5>1. i - 1 \in 0..n
          BY <4>2, <3>1
        <5>2. w[i - 1] = u[i - 1]
          BY <5>1, <3>3
        <5> QED BY <4>2, <5>2
      <4> QED BY <4>1, <4>2
    <3>5. Chain(u, n+1)
      BY <3>4 DEF Chain
    <3> QED BY <3>1, <3>5 DEF P
  <2>3. P \in SUBSET Nat
    BY DEF P
  <2> QED BY <2>1, <2>2, <2>3, NatBySteps
<1> DEFINE W == CHOOSE w : Chain(w, Len(us))
<1>2. Len(us) \in Nat
  OBVIOUS
<1>3. \E w : Chain(w, Len(us))
  BY <1>1, <1>2 DEF P
<1>4. Chain(W, Len(us))
  BY <1>3
<1>5. Messages(t, us) = W[Len(us)].t
  BY DEF Messages, Chain
<1> HIDE DEF W
<1>6. W[0] = [t |-> t, p |-> us]
  BY <1>2, <1>4 DEF Chain
<1>7. \A i \in 1..Len(us) : W[i] = NextMessage(W[i - 1])
  BY <1>2, <1>4 DEF Chain
<1>8. MessagesBy(W, t, us)
  BY <1>5, <1>6, <1>7 DEF MessagesBy
<1> QED BY <1>8

(* So are the records of a payload. *)
RecordsBy(w, t, us) ==
  /\ w[0] = [t |-> t, p |-> us]
  /\ \A i \in 1..Len(us) : w[i] = NextRecord(w[i - 1])
  /\ Records(t, us) = w[Len(us)].t

(* The loop of tls_scan_records, one record after the other. *)
LEMMA RecordsSteps ==
  ASSUME NEW t, SessionOK(t), NEW us \in Seq(InUnits)
  PROVE  \E w : RecordsBy(w, t, us)
<1> DEFINE Chain(w, n) == w = [i \in 0..n |-> IF i = 0 THEN [t |-> t, p |-> us]
                                             ELSE NextRecord(w[i - 1])]
           P == {n \in Nat : \E w : Chain(w, n)}
<1> HIDE DEF Chain, P
<1>1. P = Nat
  <2>1. 0 \in P
    <3> DEFINE u == [i \in 0..0 |-> [t |-> t, p |-> us]]
    <3>1. Chain(u, 0)
      BY DEF Chain
    <3> QED BY <3>1 DEF P
  <2>2. ASSUME NEW n \in P PROVE n + 1 \in P
    <3>1. n \in Nat /\ \E w : Chain(w, n)
      BY DEF P
    <3>2. PICK w : Chain(w, n)
      BY <3>1
    <3> DEFINE u == [i \in 0..n+1 |-> IF i = 0 THEN [t |-> t, p |-> us]
                                      ELSE NextRecord(w[i - 1])]
    <3>3. \A i \in 0..n : w[i] = u[i]
      BY <3>1, <3>2 DEF Chain
    <3>4. \A i \in 0..n+1 : u[i] = IF i = 0 THEN [t |-> t, p |-> us]
                                    ELSE NextRecord(u[i - 1])
      <4> TAKE i \in 0..n+1
      <4>1. CASE i = 0
        BY <4>1, <3>1
      <4>2. CASE i # 0
        <5>1. i - 1 \in 0..n
          BY <4>2, <3>1
        <5>2. w[i - 1] = u[i - 1]
          BY <5>1, <3>3
        <5> QED BY <4>2, <5>2
      <4> QED BY <4>1, <4>2
    <3>5. Chain(u, n+1)
      BY <3>4 DEF Chain
    <3> QED BY <3>1, <3>5 DEF P
  <2>3. P \in SUBSET Nat
    BY DEF P
  <2> QED BY <2>1, <2>2, <2>3, NatBySteps
<1> DEFINE W == CHOOSE w : Chain(w, Len(us))
<1>2. Len(us) \in Nat
  OBVIOUS
<1>3. \E w : Chain(w, Len(us))
  BY <1>1, <1>2 DEF P
<1>4. Chain(W, Len(us))
  BY <1>3
<1>5. Records(t, us) = W[Len(us)].t
  BY DEF Records, Chain
<1> HIDE DEF W
<1>6. W[0] = [t |-> t, p |-> us]
  BY <1>2, <1>4 DEF Chain
<1>7. \A i \in 1..Len(us) : W[i] = NextRecord(W[i - 1])
  BY <1>2, <1>4 DEF Chain
<1>8. RecordsBy(W, t, us)
  BY <1>5, <1>6, <1>7 DEF RecordsBy
<1> QED BY <1>8

(* Least is the smaller of its arguments. *)
LEMMA LeastType ==
  ASSUME NEW a \in Nat, NEW b \in Nat
  PROVE  Least(a, b) \in Nat /\ Least(a, b) <= a /\ Least(a, b) <= b
BY DEF Least

(* The empty sequence is one of every kind the state holds. *)
LEMMA EmptyType ==
  /\ <<>> \in Seq(Msgs) /\ <<>> \in Seq(InUnits) /\ <<>> \in Seq(Shown) /\ <<>> \in Seq(Ips)
  /\ <<>> \in Seq(OutUnits) /\ <<>> \in Seq(Addresses) /\ Len(<<>>) = 0
OBVIOUS

(* What Append gives. *)
LEMMA AppendType ==
  ASSUME NEW S, NEW s \in Seq(S), NEW e \in S
  PROVE  Append(s, e) \in Seq(S)
OBVIOUS

(* What SubSeq gives. *)
LEMMA SubSeqType ==
  ASSUME NEW S, NEW s \in Seq(S), NEW a \in Nat \ {0}, NEW b \in Int, b <= Len(s)
  PROVE  /\ SubSeq(s, a, b) \in Seq(S)
         /\ Len(SubSeq(s, a, b)) = IF a <= b THEN b - a + 1 ELSE 0
         /\ \A i \in 1..Len(SubSeq(s, a, b)) : SubSeq(s, a, b)[i] = s[a + i - 1]
OBVIOUS

(* tls_reset leaves a sound, unverified session. *)
LEMMA NewSessionOK == SessionOK(NewSession) /\ ~NewSession.verified
<1>1. NewSession \in Sessions
  BY EmptyType DEF Sessions, NewSession, NoConn, NoPending, Msgs
<1>2. /\ NewSession.app_record = <<>> /\ NewSession.app_need = 0
      /\ NewSession.pend = NoPending /\ ~NewSession.verified
  BY DEF NewSession
<1> QED BY <1>1, <1>2, EmptyType DEF SessionOK, NoPending

(* Resetting the transcript keeps the session sound and unverifies it. *)
LEMMA ResetOK ==
  ASSUME NEW t, SessionOK(t)
  PROVE  SessionOK(TranscriptReset(t)) /\ ~TranscriptReset(t).verified
<1> DEFINE n == TranscriptReset(t)
<1>1. t \in Sessions /\ t.pend.rx <= t.pend.len
  BY DEF SessionOK
<1>2. n \in Sessions
  <2>1. <<>> \in Seq(Msgs) /\ <<>> \in Seq(InUnits)
    BY EmptyType
  <2> DEFINE a == [t EXCEPT !.transcript = <<>>, !.cert_added = FALSE, !.client_finished = <<>>,
                            !.finished_tx = FALSE, !.verified = FALSE]
             b == [a EXCEPT !.app_tx = FALSE, !.app_decrypt = FALSE, !.app_need = 0,
                            !.app_record = <<>>]
  <2>2. n = b
    BY DEF TranscriptReset
  <2>3. a \in Sessions
    BY <1>1, <2>1 DEF Sessions
  <2> HIDE DEF a
  <2>4. b \in Sessions
    BY <2>1, <2>3 DEF Sessions
  <2> QED BY <2>2, <2>4
<1>3. n.app_record = <<>> /\ n.app_need = 0 /\ n.pend = t.pend /\ ~n.verified
  BY <1>1 DEF Sessions, TranscriptReset
<1> QED BY <1>1, <1>2, <1>3, EmptyType DEF SessionOK

(* What the handshake messages leave alone: whether the server's Finished  *)
(* was seen, what was decrypted, and the record being put together.        *)
Aside(t, n) == n.verified = t.verified /\ n.plain = t.plain /\ n.app_record = t.app_record

(* Hashing a message keeps the session sound and verifies nothing. *)
LEMMA HashedOK ==
  ASSUME NEW t, SessionOK(t), NEW msg \in Msgs
  PROVE  SessionOK(Hashed(t, msg)) /\ Aside(t, Hashed(t, msg))
<1>1. t.transcript \in Seq(Msgs)
  BY DEF SessionOK, Sessions
<1>2. Append(t.transcript, msg) \in Seq(Msgs)
  BY <1>1, AppendType
<1> QED BY <1>2 DEF SessionOK, Sessions, Hashed, Aside

(* Hashing the certificate keeps the session sound and verifies nothing. *)
LEMMA HashCertificateOK ==
  ASSUME NEW t, SessionOK(t)
  PROVE  SessionOK(HashCertificate(t)) /\ Aside(t, HashCertificate(t))
<1> DEFINE h == Hashed(t, "Cert")
<1>1. SessionOK(h) /\ Aside(t, h)
  BY HashedOK DEF Msgs
<1> HIDE DEF h
<1>2. SessionOK([h EXCEPT !.cert_added = TRUE])
  BY <1>1 DEF SessionOK, Sessions
<1>3. Aside(t, [h EXCEPT !.cert_added = TRUE])
  BY <1>1 DEF SessionOK, Sessions, Aside
<1> QED BY <1>2, <1>3 DEF HashCertificate, h, Aside

(* So does noting a handshake message. *)
LEMMA NotedOK ==
  ASSUME NEW t, SessionOK(t), NEW h \in [u : {"hs"}, msg : Msgs, len : Nat, conn : Int],
         NEW rx \in Nat
  PROVE  SessionOK(Noted(t, h, rx)) /\ Aside(t, Noted(t, h, rx))
<1> DEFINE c == IF h.msg = "Cert" THEN [conn |-> h.conn, len |-> h.len, rx |-> rx] ELSE t.cert
           p == IF rx < h.len THEN [msg |-> h.msg, len |-> h.len, rx |-> rx] ELSE NoPending
<1>1. c \in [conn : Int, len : Nat, rx : Nat]
  BY DEF SessionOK, Sessions
<1>2. p \in [msg : Msgs, len : Nat, rx : Nat] /\ p.rx <= p.len
  BY DEF NoPending, Msgs
<1>3. Noted(t, h, rx) = [t EXCEPT !.cert = c, !.pend = p]
  BY DEF Noted
<1> HIDE DEF c, p
<1> DEFINE m == [t EXCEPT !.cert = c, !.pend = p]
<1>4. t \in Sessions /\ Len(t.app_record) <= t.app_need
  BY DEF SessionOK
<1>5. m \in Sessions
  BY <1>1, <1>2, <1>4 DEF Sessions
<1>6. /\ m.pend = p /\ m.app_record = t.app_record /\ m.app_need = t.app_need
      /\ m.plain = t.plain /\ m.verified = t.verified
  BY <1>4 DEF Sessions
<1> HIDE DEF m
<1>7. SessionOK(m) /\ Aside(t, m)
  BY <1>2, <1>4, <1>5, <1>6 DEF SessionOK, Aside
<1> QED BY <1>3, <1>7 DEF m

(* So does feeding bytes to a message that is still incomplete. *)
LEMMA AddPendingOK ==
  ASSUME NEW t, SessionOK(t), NEW n \in Nat
  PROVE  SessionOK(AddPending(t, n)) /\ Aside(t, AddPending(t, n))
<1>1. /\ Needed(t) \in Nat /\ Needed(t) = t.pend.len - t.pend.rx
      /\ t.pend.rx \in Nat /\ t.pend.len \in Nat
  BY DEF SessionOK, Sessions, Needed
<1>2. Least(n, Needed(t)) \in Nat /\ Least(n, Needed(t)) <= Needed(t)
  BY <1>1, LeastType
<1> DEFINE rx == t.pend.rx + Least(n, Needed(t))
           c == IF t.pend.msg = "Cert" THEN rx ELSE t.cert.rx
           p == IF rx = t.pend.len THEN NoPending ELSE [t.pend EXCEPT !.rx = rx]
<1>3. rx \in Nat /\ rx <= t.pend.len
  BY <1>1, <1>2
<1>4. c \in Nat
  BY <1>3 DEF SessionOK, Sessions
<1>5. p \in [msg : Msgs, len : Nat, rx : Nat] /\ p.rx <= p.len
  <2> HIDE DEF rx
  <2>1. t.pend \in [msg : Msgs, len : Nat, rx : Nat]
    BY DEF SessionOK, Sessions
  <2>2. NoPending \in [msg : Msgs, len : Nat, rx : Nat] /\ NoPending.rx <= NoPending.len
    BY DEF NoPending, Msgs
  <2>3. /\ [t.pend EXCEPT !.rx = rx] \in [msg : Msgs, len : Nat, rx : Nat]
        /\ [t.pend EXCEPT !.rx = rx].rx = rx /\ [t.pend EXCEPT !.rx = rx].len = t.pend.len
    BY <1>3, <2>1
  <2> QED BY <1>3, <2>2, <2>3
<1>6. AddPending(t, n) = IF Needed(t) = 0 THEN t ELSE [t EXCEPT !.cert.rx = c, !.pend = p]
  BY DEF AddPending
<1> HIDE DEF rx, c, p
<1> DEFINE m == [t EXCEPT !.cert.rx = c, !.pend = p]
<1>7. t \in Sessions /\ Len(t.app_record) <= t.app_need
  BY DEF SessionOK
<1>8. m \in Sessions
  <2>1. [t.cert EXCEPT !.rx = c] \in [conn : Int, len : Nat, rx : Nat]
    BY <1>4, <1>7 DEF Sessions
  <2>2. m = [t EXCEPT !.cert = [t.cert EXCEPT !.rx = c], !.pend = p]
    BY <1>7 DEF Sessions
  <2> HIDE DEF m
  <2> QED BY <1>5, <1>7, <2>1, <2>2 DEF Sessions
<1>9. m.pend = p /\ m.app_record = t.app_record /\ m.app_need = t.app_need /\ Aside(t, m)
  BY <1>7 DEF Sessions, Aside
<1> HIDE DEF m
<1>10. SessionOK(m)
  BY <1>5, <1>7, <1>8, <1>9 DEF SessionOK
<1> QED BY <1>6, <1>9, <1>10 DEF m, Aside

(* So does reading bytes that are no message's beginning. *)
LEMMA GarbageOK ==
  ASSUME NEW t, SessionOK(t), NEW us \in Seq(InUnits)
  PROVE  SessionOK(Garbage(t, us)) /\ Aside(t, Garbage(t, us))
<1> DEFINE p == [msg |-> "unknown", len |-> 100 + Len(us), rx |-> Len(us)]
<1>1. p \in [msg : Msgs, len : Nat, rx : Nat] /\ p.rx <= p.len
  BY DEF Msgs
<1>2. Garbage(t, us) = [t EXCEPT !.pend = p]
  BY DEF Garbage
<1> HIDE DEF p
<1> QED BY <1>1, <1>2 DEF SessionOK, Sessions, Aside


(* The fields of a unit of the stream, by kind. *)
LEMMA UnitFields ==
  ASSUME NEW e \in InUnits
  PROVE  /\ e.u = "hs" => e \in [u : {"hs"}, msg : Msgs, len : Nat, conn : Int]
         /\ e.u = "head" => e.len \in Nat
         /\ e.u = "sealed" => e.plain \in Shown
BY DEF InUnits, PageUnits, Shown

(* One turn of the message loop keeps the session sound and verifies       *)
(* nothing.                                                                *)
LEMMA NextMessageOK ==
  ASSUME NEW r, SessionOK(r.t), r.p \in Seq(InUnits)
  PROVE  LET n == NextMessage(r)
         IN SessionOK(n.t) /\ Aside(r.t, n.t) /\ n.p \in Seq(InUnits)
<1> DEFINE h     == r.p[1]
           rx    == Least(h.len, Len(r.p) - 1)
           whole == rx = h.len
           n     == Noted(r.t, h, rx)
           rest  == SubSeq(r.p, h.len + 2, Len(r.p))
<1>1. CASE r.p = <<>>
  <2>1. NextMessage(r) = r
    BY <1>1 DEF NextMessage
  <2> QED BY <2>1 DEF Aside
<1>2. CASE r.p # <<>> /\ h.u # "hs"
  <2>1. NextMessage(r) = [t |-> Garbage(r.t, r.p), p |-> <<>>]
    BY <1>2 DEF NextMessage
  <2> QED BY <2>1, GarbageOK, EmptyType
<1>3. CASE r.p # <<>> /\ h.u = "hs"
  <2> DEFINE m == CASE h.msg = "Cert" -> HashCertificate(n)
                    [] h.msg = "SH" /\ ~whole -> r.t
                    [] h.msg = "SH" /\ whole  -> [Hashed(n, "SH") EXCEPT !.hello = h.conn]
                    [] h.msg = "SKE" /\ whole -> [Hashed(n, "SKE") EXCEPT !.kex = h.conn]
                    [] OTHER -> IF whole THEN Hashed(n, h.msg) ELSE n
  <2>1. Len(r.p) \in Nat \ {0} /\ h \in InUnits
    BY <1>3
  <2>2. h \in [u : {"hs"}, msg : Msgs, len : Nat, conn : Int]
    BY <1>3, <2>1, UnitFields
  <2>3. h.msg \in Msgs /\ h.len \in Nat /\ h.conn \in Int
    BY <2>2
  <2>4. NextMessage(r) = [t |-> m, p |-> rest]
    <3>1. ~(r.p = <<>>) /\ ~(r.p # <<>> /\ h.u # "hs")
      BY <1>3
    <3> QED BY <3>1 DEF NextMessage
  <2>5. rest \in Seq(InUnits)
    BY <2>1, <2>3
  <2> HIDE DEF h, rest
  <2>6. rx \in Nat
    <3>1. Len(r.p) - 1 \in Nat
      BY <2>1
    <3> QED BY <2>3, <3>1, LeastType
  <2> HIDE DEF rx
  <2>7. SessionOK(n) /\ Aside(r.t, n)
    BY <2>2, <2>6, NotedOK
  <2> HIDE DEF n, whole
  <2>8. SessionOK(HashCertificate(n)) /\ Aside(r.t, HashCertificate(n))
    BY <2>7, HashCertificateOK DEF Aside
  <2>9. ASSUME NEW msg \in Msgs
        PROVE  SessionOK(Hashed(n, msg)) /\ Aside(r.t, Hashed(n, msg))
    BY <2>7, HashedOK DEF Aside
  <2>10. ASSUME NEW a, SessionOK(a)
         PROVE  /\ SessionOK([a EXCEPT !.hello = h.conn]) /\ SessionOK([a EXCEPT !.kex = h.conn])
                /\ Aside(a, [a EXCEPT !.hello = h.conn])
                /\ Aside(a, [a EXCEPT !.kex = h.conn])
    <3>1. a \in Sessions /\ Len(a.app_record) <= a.app_need /\ a.pend.rx <= a.pend.len
      BY <2>10 DEF SessionOK
    <3> DEFINE b == [a EXCEPT !.hello = h.conn]
               c == [a EXCEPT !.kex = h.conn]
    <3>2. b \in Sessions /\ c \in Sessions
      BY <2>3, <3>1 DEF Sessions
    <3>3. /\ b.app_record = a.app_record /\ b.app_need = a.app_need /\ b.pend = a.pend
          /\ c.app_record = a.app_record /\ c.app_need = a.app_need /\ c.pend = a.pend
          /\ Aside(a, b) /\ Aside(a, c)
      BY <3>1 DEF Sessions, Aside
    <3> HIDE DEF b, c
    <3>4. SessionOK(b) /\ SessionOK(c)
      BY <3>1, <3>2, <3>3 DEF SessionOK
    <3> QED BY <3>3, <3>4 DEF b, c
  <2>11. "SH" \in Msgs /\ "SKE" \in Msgs
    BY DEF Msgs
  <2>12. /\ SessionOK([Hashed(n, "SH") EXCEPT !.hello = h.conn])
         /\ Aside(r.t, [Hashed(n, "SH") EXCEPT !.hello = h.conn])
         /\ SessionOK([Hashed(n, "SKE") EXCEPT !.kex = h.conn])
         /\ Aside(r.t, [Hashed(n, "SKE") EXCEPT !.kex = h.conn])
    BY <2>9, <2>10, <2>11 DEF Aside
  <2>13. SessionOK(Hashed(n, h.msg)) /\ Aside(r.t, Hashed(n, h.msg))
    BY <2>3, <2>9
  <2>14. m \in {HashCertificate(n), r.t, [Hashed(n, "SH") EXCEPT !.hello = h.conn],
                [Hashed(n, "SKE") EXCEPT !.kex = h.conn], Hashed(n, h.msg), n}
    OBVIOUS
  <2> HIDE DEF m
  <2>15. SessionOK(m) /\ Aside(r.t, m)
    BY <2>7, <2>8, <2>12, <2>13, <2>14 DEF Aside
  <2> QED BY <2>4, <2>5, <2>15
<1> QED BY <1>1, <1>2, <1>3

(* The whole message loop does the same. *)
LEMMA MessagesOK ==
  ASSUME NEW t, SessionOK(t), NEW us \in Seq(InUnits)
  PROVE  SessionOK(Messages(t, us)) /\ Aside(t, Messages(t, us))
<1>0. PICK w : MessagesBy(w, t, us)
  BY MessagesSteps
<1>1. /\ w[0] = [t |-> t, p |-> us]
      /\ \A i \in 1..Len(us) : w[i] = NextMessage(w[i - 1])
      /\ Messages(t, us) = w[Len(us)].t
  BY <1>0 DEF MessagesBy
<1> DEFINE Fine(r) == SessionOK(r.t) /\ Aside(t, r.t) /\ r.p \in Seq(InUnits)
           P == {i \in Nat : i <= Len(us) => Fine(w[i])}
<1>2. 0 \in P
  BY <1>1 DEF Aside
<1>3. ASSUME NEW i \in P PROVE i + 1 \in P
  <2>1. i \in Nat /\ (i <= Len(us) => Fine(w[i]))
    OBVIOUS
  <2> SUFFICES ASSUME i + 1 <= Len(us) PROVE Fine(w[i + 1])
    BY <2>1
  <2>2. Fine(w[i])
    BY <2>1
  <2>3. i + 1 \in 1..Len(us) /\ (i + 1) - 1 = i
    BY <2>1
  <2>4. w[i + 1] = NextMessage(w[i])
    BY <1>1, <2>3
  <2> QED BY <2>2, <2>4, NextMessageOK DEF Aside
<1>4. P = Nat
  <2>1. P \in SUBSET Nat
    OBVIOUS
  <2> HIDE DEF P
  <2> QED BY <1>2, <1>3, <2>1, NatBySteps
<1>5. Fine(w[Len(us)])
  BY <1>4
<1> QED BY <1>1, <1>5

(* So does a handshake record. *)
LEMMA HandshakeOK ==
  ASSUME NEW t, SessionOK(t), NEW us \in Seq(InUnits)
  PROVE  SessionOK(Handshake(t, us)) /\ Aside(t, Handshake(t, us))
<1> DEFINE add == Least(Len(us), Needed(t))
<1>1. Needed(t) \in Nat
  BY DEF Needed, SessionOK, Sessions
<1>2. add \in Nat /\ add <= Len(us)
  BY <1>1, LeastType
<1> HIDE DEF add
<1>3. SubSeq(us, add + 1, Len(us)) \in Seq(InUnits)
  BY <1>2, SubSeqType
<1>4. SessionOK(AddPending(t, add)) /\ Aside(t, AddPending(t, add))
  BY <1>2, AddPendingOK
<1>5. Handshake(t, us) = Messages(AddPending(t, add), SubSeq(us, add + 1, Len(us)))
  BY DEF Handshake, add
<1> QED BY <1>3, <1>4, <1>5, MessagesOK DEF Aside

(* A unit sealed under the number 0: part of the server's Finished message. *)
HasVoucher(us) == \E i \in 1..Len(us) : us[i].u = "sealed" /\ us[i].seq = 0

(* What is sealed under the number 1 in a stream of connection k is a unit  *)
(* of the page that k serves, at its place in the record.                   *)
Own(us, k) == \A i \in 1..Len(us) : us[i].u = "sealed" /\ us[i].seq = 1
                  => us[i].of = PageLen /\ us[i].plain = Page(k)[us[i].place]

(* What was decrypted: the page, perhaps more than once. *)
Paged(s, k) == /\ \A i \in 1..Len(s) : s[i].conn = k
               /\ s # <<>> => PageLen <= Len(s) /\ \A i \in 1..PageLen : s[i] = Page(k)[i]

(* The parser's state and what is still to be read belong to connection k. *)
Pure(t, us, k) == Own(t.app_record, k) /\ Own(us, k) /\ Paged(t.plain, k)

(* Connection k's units, one after the other, are its own. *)
LEMMA ConcatOwn ==
  ASSUME NEW a \in Seq(InUnits), NEW b \in Seq(InUnits), NEW k, Own(a, k), Own(b, k)
  PROVE  Own(a \o b, k)
<1>1. a \o b \in Seq(InUnits) /\ Len(a \o b) = Len(a) + Len(b)
  OBVIOUS
<1>2. ASSUME NEW i \in 1..Len(a \o b), (a \o b)[i].u = "sealed", (a \o b)[i].seq = 1
      PROVE  (a \o b)[i].of = PageLen /\ (a \o b)[i].plain = Page(k)[(a \o b)[i].place]
  <2>1. CASE i <= Len(a)
    <3>1. (a \o b)[i] = a[i] /\ i \in 1..Len(a)
      BY <2>1
    <3> QED BY <1>2, <3>1 DEF Own
  <2>2. CASE i > Len(a)
    <3>1. (a \o b)[i] = b[i - Len(a)] /\ i - Len(a) \in 1..Len(b)
      BY <1>1, <2>2
    <3> QED BY <1>2, <3>1 DEF Own
  <2> QED BY <2>1, <2>2
<1> QED BY <1>2 DEF Own

(* The page, decrypted once more, is the page. *)
LEMMA ConcatPaged ==
  ASSUME NEW s \in Seq(Shown), NEW k, Paged(s, k), NEW n \in Seq(Shown), n = Page(k)
  PROVE  Paged(s \o n, k)
<1>0. PageLen \in Nat
  BY PageAssumption
<1>1. Len(n) = PageLen /\ \A i \in 1..PageLen : n[i] = Page(k)[i] /\ n[i].conn = k
  BY <1>0 DEF Page
<1>2. Len(s \o n) = Len(s) + Len(n) /\ Len(s) \in Nat
  OBVIOUS
<1>3. ASSUME NEW i \in 1..Len(s \o n) PROVE (s \o n)[i].conn = k
  <2>1. CASE i <= Len(s)
    <3>1. (s \o n)[i] = s[i] /\ i \in 1..Len(s)
      BY <2>1
    <3> QED BY <3>1 DEF Paged
  <2>2. CASE i > Len(s)
    <3>1. (s \o n)[i] = n[i - Len(s)] /\ i - Len(s) \in 1..PageLen
      BY <1>1, <1>2, <2>2
    <3> QED BY <1>1, <3>1
  <2> QED BY <1>2, <2>1, <2>2
<1>4. PageLen <= Len(s \o n)
  BY <1>0, <1>1, <1>2
<1>5. ASSUME NEW i \in 1..PageLen PROVE (s \o n)[i] = Page(k)[i]
  <2>1. CASE s = <<>>
    <3>1. s \o n = n
      BY <2>1
    <3> QED BY <1>1, <3>1
  <2>2. CASE s # <<>>
    <3>1. PageLen <= Len(s) /\ s[i] = Page(k)[i]
      BY <2>2 DEF Paged
    <3>2. (s \o n)[i] = s[i]
      BY <1>0, <3>1
    <3> QED BY <3>1, <3>2
  <2> QED BY <2>1, <2>2
<1> QED BY <1>3, <1>4, <1>5 DEF Paged

(* Only a record holding the server's Finished can verify the session. *)
LEMMA ServerFinishedOK ==
  ASSUME NEW t, SessionOK(t), NEW body \in Seq(InUnits)
  PROVE  /\ SessionOK(ServerFinished(t, body))
         /\ ServerFinished(t, body).verified => t.verified \/ HasVoucher(body)
         /\ ServerFinished(t, body).plain = t.plain
         /\ ServerFinished(t, body).app_record = t.app_record
<1> DEFINE m == [t EXCEPT !.verified = TRUE]
<1>1. SessionOK(m) /\ m.plain = t.plain /\ m.app_record = t.app_record
  BY DEF SessionOK, Sessions
<1>2. ASSUME Len(body) = 1, Opens(t, body, 0) PROVE HasVoucher(body)
  BY <1>2 DEF Opens, HasVoucher
<1> HIDE DEF m
<1> QED BY <1>1, <1>2 DEF ServerFinished, m

(* An application record verifies nothing and leaves the reassembly        *)
(* buffer alone; what it decrypts of connection k is the page of k.        *)
LEMMA AppDataOK ==
  ASSUME NEW t, SessionOK(t), NEW body \in Seq(InUnits)
  PROVE  /\ SessionOK(AppData(t, body)) /\ AppData(t, body).verified = t.verified
         /\ AppData(t, body).app_record = t.app_record /\ AppData(t, body).app_need = t.app_need
         /\ \A k : Own(body, k) /\ Paged(t.plain, k) => Paged(AppData(t, body).plain, k)
<1> SUFFICES ASSUME t.app_tx, body # <<>>, Opens(t, body, 1)
             PROVE  /\ SessionOK(AppData(t, body)) /\ AppData(t, body).verified = t.verified
                    /\ AppData(t, body).app_record = t.app_record
                    /\ AppData(t, body).app_need = t.app_need
                    /\ \A k : Own(body, k) /\ Paged(t.plain, k)
                               => Paged(AppData(t, body).plain, k)
  BY DEF AppData
<1> DEFINE open == [i \in 1..Len(body) |-> body[i].plain]
           all  == t.plain \o open
<1>1. open \in Seq(Shown)
  <2>1. ASSUME NEW i \in 1..Len(body) PROVE body[i].plain \in Shown
    <3>1. body[i].u = "sealed" /\ body[i] \in InUnits
      BY DEF Opens
    <3> QED BY <3>1, UnitFields
  <2> QED BY <2>1
<1>2. all \in Seq(Shown)
  <2>1. t.plain \in Seq(Shown)
    BY DEF SessionOK, Sessions
  <2> HIDE DEF open
  <2> QED BY <1>1, <2>1
<1>p. ASSUME NEW k, Own(body, k), Paged(t.plain, k) PROVE Paged(all, k)
  <2>1. \A i \in 1..Len(body) : /\ body[i].u = "sealed" /\ body[i].seq = 1
                                 /\ body[i].place = i /\ body[i].of = Len(body)
    BY DEF Opens
  <2>2. \A i \in 1..Len(body) : body[i].of = PageLen /\ body[i].plain = Page(k)[i]
    BY <1>p, <2>1 DEF Own
  <2>3. Len(body) \in Nat /\ 1 \in 1..Len(body)
    BY EmptyType
  <2>4. Len(body) = PageLen
    BY <2>1, <2>2, <2>3
  <2>5. open = Page(k)
    BY <2>2, <2>4 DEF Page
  <2>6. t.plain \in Seq(Shown)
    BY DEF SessionOK, Sessions
  <2> HIDE DEF open
  <2> QED BY <1>1, <1>p, <2>5, <2>6, ConcatPaged
<1> HIDE DEF open
<1>3. AppData(t, body) = [t EXCEPT !.app_decrypt = TRUE, !.plain = all]
  BY DEF AppData, open
<1> HIDE DEF all
<1>4. t \in Sessions
  BY DEF SessionOK
<1>5. AppData(t, body).plain = all
  BY <1>3, <1>4 DEF Sessions
<1>6. /\ SessionOK(AppData(t, body)) /\ AppData(t, body).verified = t.verified
      /\ AppData(t, body).app_record = t.app_record /\ AppData(t, body).app_need = t.app_need
  BY <1>2, <1>3 DEF SessionOK, Sessions
<1> QED BY <1>p, <1>5, <1>6


(* What is left of a payload holds no voucher the payload did not hold, and *)
(* nothing of another connection.                                           *)
LEMMA SubVoucher ==
  ASSUME NEW p \in Seq(InUnits), NEW a \in Nat \ {0}, NEW b \in Int, b <= Len(p)
  PROVE  /\ SubSeq(p, a, b) \in Seq(InUnits)
         /\ HasVoucher(SubSeq(p, a, b)) => HasVoucher(p)
         /\ \A k : Own(p, k) => Own(SubSeq(p, a, b), k)
<1>1. /\ SubSeq(p, a, b) \in Seq(InUnits)
      /\ Len(SubSeq(p, a, b)) = IF a <= b THEN b - a + 1 ELSE 0
      /\ \A i \in 1..Len(SubSeq(p, a, b)) : SubSeq(p, a, b)[i] = p[a + i - 1]
  BY SubSeqType
<1>2. ASSUME NEW i \in 1..Len(SubSeq(p, a, b)) PROVE a + i - 1 \in 1..Len(p)
  BY <1>1
<1>3. ASSUME NEW k, Own(p, k) PROVE Own(SubSeq(p, a, b), k)
  BY <1>1, <1>2, <1>3 DEF Own
<1> QED BY <1>1, <1>2, <1>3 DEF HasVoucher

(* Continuing an application record keeps the session sound and verifies   *)
(* nothing; and a session that holds only what is of connection k goes on  *)
(* so.                                                                     *)
LEMMA AppContinueOK ==
  ASSUME NEW t, SessionOK(t), NEW p \in Seq(InUnits)
  PROVE  LET a == AppContinue(t, p)
         IN /\ SessionOK(a.t) /\ a.t.verified = t.verified
            /\ a.p \in Seq(InUnits) /\ (HasVoucher(a.p) => HasVoucher(p))
            /\ \A k : Pure(t, p, k) => Pure(a.t, a.p, k)
<1> DEFINE n   == Least(Len(p), t.app_need - Len(t.app_record))
           got == t.app_record \o SubSeq(p, 1, n)
           m   == [AppData(t, got) EXCEPT !.app_need = 0, !.app_record = <<>>]
           part == [t EXCEPT !.app_record = got]
           rest == SubSeq(p, n + 1, Len(p))
<1> SUFFICES ASSUME ~(t.app_need = 0 \/ p = <<>>)
             PROVE  LET a == AppContinue(t, p)
                    IN /\ SessionOK(a.t) /\ a.t.verified = t.verified
                       /\ a.p \in Seq(InUnits) /\ (HasVoucher(a.p) => HasVoucher(p))
                       /\ \A k : Pure(t, p, k) => Pure(a.t, a.p, k)
  BY DEF AppContinue
<1>1. AppContinue(t, p) = [t |-> IF Len(got) = t.app_need THEN m ELSE part, p |-> rest]
  BY DEF AppContinue
<1>2. /\ t \in Sessions /\ Len(t.app_record) <= t.app_need /\ t.pend.rx <= t.pend.len
      /\ t.app_record \in Seq(InUnits) /\ t.app_need \in Nat
  BY DEF SessionOK, Sessions
<1>3. n \in Nat /\ n <= Len(p) /\ n <= t.app_need - Len(t.app_record)
  <2>1. t.app_need - Len(t.app_record) \in Nat /\ Len(p) \in Nat
    BY <1>2
  <2> QED BY <2>1, LeastType
<1> HIDE DEF n
<1>4. SubSeq(p, 1, n) \in Seq(InUnits) /\ Len(SubSeq(p, 1, n)) = n
  BY <1>3, SubSeqType
<1>5. got \in Seq(InUnits) /\ Len(got) = Len(t.app_record) + n
  BY <1>2, <1>4
<1>o. ASSUME NEW k, Pure(t, p, k) PROVE Own(got, k)
  <2>1. Own(SubSeq(p, 1, n), k) /\ Own(t.app_record, k)
    BY <1>o, <1>3, SubVoucher DEF Pure
  <2> QED BY <1>2, <1>4, <2>1, ConcatOwn
<1> HIDE DEF got
<1>6. Len(got) <= t.app_need
  BY <1>2, <1>3, <1>5
<1>7. /\ rest \in Seq(InUnits) /\ (HasVoucher(rest) => HasVoucher(p))
      /\ \A k : Own(p, k) => Own(rest, k)
  BY <1>3, SubVoucher
<1> HIDE DEF rest
<1>8. /\ SessionOK(part) /\ part.verified = t.verified
      /\ part.app_record = got /\ part.plain = t.plain
  <2>1. part \in Sessions
    BY <1>2, <1>5 DEF Sessions
  <2>2. /\ part.app_record = got /\ part.app_need = t.app_need /\ part.pend = t.pend
        /\ part.verified = t.verified /\ part.plain = t.plain
    BY <1>2 DEF Sessions
  <2> HIDE DEF part
  <2> QED BY <1>2, <1>6, <2>1, <2>2 DEF SessionOK
<1>9. /\ SessionOK(m) /\ m.verified = t.verified /\ m.app_record = <<>>
      /\ \A k : Own(got, k) /\ Paged(t.plain, k) => Paged(m.plain, k)
  <2> DEFINE d == AppData(t, got)
  <2>1. /\ SessionOK(d) /\ d.verified = t.verified
        /\ \A k : Own(got, k) /\ Paged(t.plain, k) => Paged(d.plain, k)
    BY <1>5, AppDataOK
  <2> HIDE DEF d
  <2>2. d \in Sessions /\ d.pend.rx <= d.pend.len
    BY <2>1 DEF SessionOK
  <2> DEFINE e == [d EXCEPT !.app_need = 0, !.app_record = <<>>]
  <2>3. e \in Sessions
    BY <2>2, EmptyType DEF Sessions
  <2>4. /\ e.app_need = 0 /\ e.app_record = <<>> /\ e.pend = d.pend
        /\ e.verified = d.verified /\ e.plain = d.plain
    BY <2>2 DEF Sessions
  <2>5. SessionOK(e)
    <3> HIDE DEF e
    <3> QED BY <2>2, <2>3, <2>4, EmptyType DEF SessionOK
  <2> QED BY <2>1, <2>4, <2>5 DEF d
<1> HIDE DEF m, part
<1>10. ASSUME NEW k, Pure(t, p, k) PROVE Pure(m, rest, k) /\ Pure(part, rest, k)
  <2>1. Own(got, k) /\ Own(rest, k) /\ Paged(t.plain, k) /\ Own(<<>>, k)
    BY <1>o, <1>7, <1>10, EmptyType DEF Pure, Own
  <2> QED BY <1>8, <1>9, <2>1 DEF Pure
<1> QED BY <1>1, <1>7, <1>8, <1>9, <1>10

(* Continuing a handshake record keeps the session sound and verifies      *)
(* nothing.                                                                *)
LEMMA RecordContinueOK ==
  ASSUME NEW t, SessionOK(t), NEW p \in Seq(InUnits)
  PROVE  LET a == RecordContinue(t, p)
         IN /\ SessionOK(a.t) /\ Aside(t, a.t)
            /\ a.p \in Seq(InUnits) /\ (HasVoucher(a.p) => HasVoucher(p))
            /\ \A k : Own(p, k) => Own(a.p, k)
<1> DEFINE n    == Least(Len(p), t.record_pending)
           h    == HashCertificate(AddPending(t, n))
           m    == [h EXCEPT !.record_pending = @ - n]
           rest == SubSeq(p, n + 1, Len(p))
<1>1. RecordContinue(t, p) = [t |-> IF n = 0 THEN t ELSE m, p |-> rest]
  BY DEF RecordContinue
<1>2. t.record_pending \in Nat
  BY DEF SessionOK, Sessions
<1>3. n \in Nat /\ n <= Len(p) /\ n <= t.record_pending
  <2>1. Len(p) \in Nat
    OBVIOUS
  <2> QED BY <1>2, <2>1, LeastType
<1> HIDE DEF n
<1>4. /\ rest \in Seq(InUnits) /\ (HasVoucher(rest) => HasVoucher(p))
      /\ \A k : Own(p, k) => Own(rest, k)
  BY <1>3, SubVoucher
<1>5. SessionOK(h) /\ Aside(t, h)
  <2>1. SessionOK(AddPending(t, n)) /\ Aside(t, AddPending(t, n))
    BY <1>3, AddPendingOK
  <2> QED BY <2>1, HashCertificateOK DEF Aside
<1>6. h.record_pending = t.record_pending
  <2>1. AddPending(t, n) \in Sessions /\ t \in Sessions
    BY <1>3, AddPendingOK DEF SessionOK
  <2>2. AddPending(t, n).record_pending = t.record_pending
    BY <2>1 DEF AddPending, Sessions
  <2>3. \A s \in Sessions : HashCertificate(s).record_pending = s.record_pending
    BY DEF HashCertificate, Hashed, Sessions
  <2> QED BY <2>1, <2>2, <2>3
<1> HIDE DEF h, rest
<1>7. SessionOK(m) /\ Aside(t, m)
  <2> DEFINE e == [h EXCEPT !.record_pending = h.record_pending - n]
  <2>1. h \in Sessions /\ h.pend.rx <= h.pend.len /\ Len(h.app_record) <= h.app_need
    BY <1>5 DEF SessionOK
  <2>2. h.record_pending - n \in Nat
    BY <1>2, <1>3, <1>6
  <2>3. e \in Sessions
    BY <2>1, <2>2 DEF Sessions
  <2>4. /\ e.app_need = h.app_need /\ e.app_record = h.app_record
        /\ e.pend = h.pend /\ e.verified = h.verified /\ e.plain = h.plain
    BY <2>1 DEF Sessions
  <2>5. SessionOK(e)
    <3> HIDE DEF e
    <3> QED BY <2>1, <2>3, <2>4 DEF SessionOK
  <2>6. m = e
    BY <2>1 DEF Sessions
  <2> HIDE DEF e, m
  <2> QED BY <1>5, <2>4, <2>5, <2>6 DEF Aside
<1> HIDE DEF m
<1> QED BY <1>1, <1>4, <1>7 DEF Aside


(* One turn of the record loop verifies the session only by the server's   *)
(* Finished.                                                               *)
LEMMA NextRecordOK ==
  ASSUME NEW r, SessionOK(r.t), r.p \in Seq(InUnits)
  PROVE  LET n == NextRecord(r)
         IN /\ SessionOK(n.t) /\ (n.t.verified => r.t.verified \/ HasVoucher(r.p))
            /\ n.p \in Seq(InUnits) /\ (HasVoucher(n.p) => HasVoucher(r.p))
            /\ \A k : Pure(r.t, r.p, k) => Pure(n.t, n.p, k)
<1> DEFINE len   == r.p[1].len
           type  == r.p[1].type
           whole == Len(r.p) >= 2 + len
           body  == SubSeq(r.p, 3, Least(2 + len, Len(r.p)))
           n     == [r.t EXCEPT !.valid = @ \/ type \in {"handshake", "alert"}]
           m     == IF type = "handshake" THEN Handshake(n, body) ELSE n
           part  == [n EXCEPT !.app_need = len, !.app_record = body]
           cut   == [m EXCEPT !.record_pending = 2 + len - Len(r.p)]
           next  == CASE type = "handshake" /\ n.finished_tx /\ whole -> ServerFinished(n, body)
                      [] type = "data" /\ n.app_tx /\ whole  -> AppData(n, body)
                      [] type = "data" /\ n.app_tx /\ ~whole -> part
                      [] OTHER -> IF whole THEN m ELSE cut
           rest  == SubSeq(r.p, 3 + len, Len(r.p))
<1> SUFFICES ASSUME ~(Len(r.p) < 2 \/ r.p[1].u # "head")
             PROVE  LET a == NextRecord(r)
                    IN /\ SessionOK(a.t) /\ (a.t.verified => r.t.verified \/ HasVoucher(r.p))
                       /\ a.p \in Seq(InUnits) /\ (HasVoucher(a.p) => HasVoucher(r.p))
                       /\ \A k : Pure(r.t, r.p, k) => Pure(a.t, a.p, k)
  BY DEF NextRecord
<1>1. NextRecord(r) = [t |-> next, p |-> rest]
  BY DEF NextRecord
<1>2. \/ next \in {ServerFinished(n, body), AppData(n, body), m}
      \/ next = part /\ ~whole
      \/ next = cut /\ ~whole
  <2> DEFINE A == type = "handshake" /\ n.finished_tx /\ whole
             B == type = "data" /\ n.app_tx /\ whole
             C == type = "data" /\ n.app_tx /\ ~whole
             D == ServerFinished(n, body)
             E == AppData(n, body)
  <2>1. next = CASE A -> D [] B -> E [] C -> part [] OTHER -> IF whole THEN m ELSE cut
    OBVIOUS
  <2>2. /\ C => ~whole
        /\ B \/ C => ~A
        /\ B => ~C
    OBVIOUS
  <2> HIDE DEF A, B, C, D, E, part, m, cut, next, whole
  <2>3. \/ next \in {D, E, m}
        \/ next = part /\ ~whole
        \/ next = cut /\ ~whole
    <3>1. CASE A
      BY <2>1, <2>2, <3>1
    <3>2. CASE B
      BY <2>1, <2>2, <3>2
    <3>3. CASE C
      BY <2>1, <2>2, <3>3
    <3>4. CASE ~A /\ ~B /\ ~C
      BY <2>1, <3>4
    <3> QED BY <3>1, <3>2, <3>3, <3>4
  <2> QED BY <2>3 DEF D, E
<1>3. Len(r.p) \in Nat /\ Len(r.p) >= 2 /\ len \in Nat
  <2>1. Len(r.p) \in Nat /\ Len(r.p) >= 2 /\ r.p[1] \in InUnits /\ r.p[1].u = "head"
    OBVIOUS
  <2> QED BY <2>1, UnitFields
<1> HIDE DEF len, next
<1>4. /\ rest \in Seq(InUnits) /\ (HasVoucher(rest) => HasVoucher(r.p))
      /\ \A k : Own(r.p, k) => Own(rest, k)
  BY <1>3, SubVoucher
<1>5. /\ body \in Seq(InUnits) /\ (HasVoucher(body) => HasVoucher(r.p))
      /\ \A k : Own(r.p, k) => Own(body, k)
      /\ ~whole => Len(body) <= len
  <2> DEFINE b == Least(2 + len, Len(r.p))
  <2>1. b \in Nat /\ b <= Len(r.p)
    <3>1. 2 + len \in Nat
      BY <1>3
    <3> QED BY <1>3, <3>1, LeastType
  <2> HIDE DEF b
  <2>2. /\ SubSeq(r.p, 3, b) \in Seq(InUnits)
        /\ HasVoucher(SubSeq(r.p, 3, b)) => HasVoucher(r.p)
        /\ \A k : Own(r.p, k) => Own(SubSeq(r.p, 3, b), k)
    BY <2>1, SubVoucher
  <2>3. Len(SubSeq(r.p, 3, b)) = IF 3 <= b THEN b - 3 + 1 ELSE 0
    BY <2>1, SubSeqType
  <2>4. ~whole => Len(SubSeq(r.p, 3, b)) <= len
    BY <1>3, <2>1, <2>3
  <2> QED BY <2>2, <2>4 DEF b
<1>6. SessionOK(n) /\ Aside(r.t, n)
  <2> DEFINE v == r.t.valid \/ type \in {"handshake", "alert"}
             e == [r.t EXCEPT !.valid = v]
  <2>1. r.t \in Sessions /\ r.t.pend.rx <= r.t.pend.len /\ Len(r.t.app_record) <= r.t.app_need
    BY DEF SessionOK
  <2>2. v \in BOOLEAN /\ n = e
    BY <2>1 DEF Sessions
  <2> HIDE DEF v, n
  <2>3. e \in Sessions
    BY <2>1, <2>2 DEF Sessions
  <2>4. /\ e.app_need = r.t.app_need /\ e.app_record = r.t.app_record
        /\ e.pend = r.t.pend /\ e.verified = r.t.verified /\ e.plain = r.t.plain
    BY <2>1 DEF Sessions
  <2> HIDE DEF e
  <2>5. SessionOK(e)
    BY <2>1, <2>3, <2>4 DEF SessionOK
  <2> QED BY <2>2, <2>4, <2>5 DEF Aside
<1> HIDE DEF n, body, rest
<1>7. SessionOK(m) /\ Aside(r.t, m)
  BY <1>5, <1>6, HandshakeOK DEF Aside
<1> HIDE DEF m
<1>8. ASSUME ~whole 
      PROVE  /\ SessionOK(part) /\ part.verified = r.t.verified
             /\ part.app_record = body /\ part.plain = r.t.plain
  <2>1. n \in Sessions /\ n.pend.rx <= n.pend.len
    BY <1>6 DEF SessionOK
  <2>2. part \in Sessions
    BY <1>3, <1>5, <2>1 DEF Sessions
  <2>3. /\ part.app_need = len /\ part.app_record = body
        /\ part.pend = n.pend /\ part.verified = n.verified /\ part.plain = n.plain
    BY <2>1 DEF Sessions
  <2> HIDE DEF part
  <2> QED BY <1>5, <1>6, <1>8, <2>1, <2>2, <2>3 DEF SessionOK, Aside
<1>9. ASSUME ~whole PROVE SessionOK(cut) /\ Aside(r.t, cut)
  <2>1. m \in Sessions /\ m.pend.rx <= m.pend.len /\ Len(m.app_record) <= m.app_need
    BY <1>7 DEF SessionOK
  <2>2. 2 + len - Len(r.p) \in Nat
    BY <1>3, <1>9
  <2>3. cut \in Sessions
    BY <2>1, <2>2 DEF Sessions
  <2>4. /\ cut.app_need = m.app_need /\ cut.app_record = m.app_record
        /\ cut.pend = m.pend /\ cut.verified = m.verified /\ cut.plain = m.plain
    BY <2>1 DEF Sessions
  <2> HIDE DEF cut
  <2> QED BY <1>7, <2>1, <2>3, <2>4 DEF SessionOK, Aside
<1> HIDE DEF part, cut, whole
<1> DEFINE f == ServerFinished(n, body)
           d == AppData(n, body)
<1>10. /\ SessionOK(f) /\ (f.verified => r.t.verified \/ HasVoucher(r.p))
       /\ f.plain = r.t.plain /\ f.app_record = r.t.app_record
  BY <1>5, <1>6, ServerFinishedOK DEF Aside
<1>11. /\ SessionOK(d) /\ d.verified = r.t.verified /\ d.app_record = r.t.app_record
       /\ \A k : Own(body, k) /\ Paged(r.t.plain, k) => Paged(d.plain, k)
  BY <1>5, <1>6, AppDataOK DEF Aside
<1> HIDE DEF f, d
<1>12. SessionOK(next) /\ (next.verified => r.t.verified \/ HasVoucher(r.p))
  BY <1>2, <1>7, <1>8, <1>9, <1>10, <1>11 DEF Aside, f, d
<1>13. ASSUME NEW k, Pure(r.t, r.p, k) PROVE Pure(next, rest, k)
  <2>1. Own(r.t.app_record, k) /\ Own(body, k) /\ Own(rest, k) /\ Paged(r.t.plain, k)
    BY <1>4, <1>5, <1>13 DEF Pure
  <2>2. Pure(m, rest, k) /\ (~whole => Pure(cut, rest, k) /\ Pure(part, rest, k))
    BY <1>7, <1>8, <1>9, <2>1 DEF Aside, Pure
  <2>3. Pure(f, rest, k) /\ Pure(d, rest, k)
    BY <1>10, <1>11, <2>1 DEF Pure
  <2> QED BY <1>2, <2>2, <2>3 DEF f, d
<1> QED BY <1>1, <1>4, <1>12, <1>13

(* The whole record loop does the same. *)
LEMMA RecordsOK ==
  ASSUME NEW t, SessionOK(t), NEW us \in Seq(InUnits)
  PROVE  /\ SessionOK(Records(t, us))
         /\ Records(t, us).verified => t.verified \/ HasVoucher(us)
         /\ \A k : Pure(t, us, k) => Pure(Records(t, us), <<>>, k)
<1>0. PICK w : RecordsBy(w, t, us)
  BY RecordsSteps
<1>1. /\ w[0] = [t |-> t, p |-> us]
      /\ \A i \in 1..Len(us) : w[i] = NextRecord(w[i - 1])
      /\ Records(t, us) = w[Len(us)].t
  BY <1>0 DEF RecordsBy
<1> DEFINE Fine(r) == /\ SessionOK(r.t) /\ (r.t.verified => t.verified \/ HasVoucher(us))
                      /\ r.p \in Seq(InUnits) /\ (HasVoucher(r.p) => HasVoucher(us))
                      /\ \A k : Pure(t, us, k) => Pure(r.t, r.p, k)
           P == {i \in Nat : i <= Len(us) => Fine(w[i])}
<1>2. 0 \in P
  BY <1>1
<1>3. ASSUME NEW i \in P PROVE i + 1 \in P
  <2>1. i \in Nat /\ (i <= Len(us) => Fine(w[i]))
    OBVIOUS
  <2> SUFFICES ASSUME i + 1 <= Len(us) PROVE Fine(w[i + 1])
    BY <2>1
  <2>2. Fine(w[i])
    BY <2>1
  <2>3. i + 1 \in 1..Len(us) /\ (i + 1) - 1 = i
    BY <2>1
  <2>4. w[i + 1] = NextRecord(w[i])
    BY <1>1, <2>3
  <2> QED BY <2>2, <2>4, NextRecordOK
<1>4. P = Nat
  <2>1. P \in SUBSET Nat
    OBVIOUS
  <2> HIDE DEF P
  <2> QED BY <1>2, <1>3, <2>1, NatBySteps
<1>5. Fine(w[Len(us)])
  BY <1>4
<1>6. ASSUME NEW k, Pure(t, us, k) PROVE Pure(Records(t, us), <<>>, k)
  BY <1>1, <1>5, <1>6, EmptyType DEF Pure, Own
<1> QED BY <1>1, <1>5, <1>6

(* Whatever a segment holds, the parser keeps its types; and the server's   *)
(* Finished message counts as verified only if a segment held it.  What it *)
(* decrypts and keeps of the stream of connection k is of k.                *)
LEMMA CaptureOK ==
  ASSUME NEW t, SessionOK(t), NEW us \in Seq(InUnits)
  PROVE  /\ SessionOK(Capture(t, us))
         /\ Capture(t, us).verified => t.verified \/ HasVoucher(us)
         /\ \A k : Pure(t, us, k) => Pure(Capture(t, us), <<>>, k)
<1> DEFINE a == RecordContinue(t, us)
           b == AppContinue(a.t, a.p)
<1>1. /\ SessionOK(a.t) /\ a.t.verified = t.verified
      /\ a.p \in Seq(InUnits) /\ (HasVoucher(a.p) => HasVoucher(us))
      /\ \A k : Pure(t, us, k) => Pure(a.t, a.p, k)
  BY RecordContinueOK DEF Aside, Pure
<1> HIDE DEF a
<1>2. /\ SessionOK(b.t) /\ b.t.verified = t.verified
      /\ b.p \in Seq(InUnits) /\ (HasVoucher(b.p) => HasVoucher(us))
      /\ \A k : Pure(t, us, k) => Pure(b.t, b.p, k)
  BY <1>1, AppContinueOK
<1> HIDE DEF b
<1>3. Capture(t, us) = Records(b.t, b.p)
  BY DEF Capture, a, b
<1> QED BY <1>2, <1>3, RecordsOK


-----------------------------------------------------------------------------
(***************************************************************************)
(* Receiving.  ps are the servers' connections.                            *)
(***************************************************************************)
(* The server of connection k took the client's Finished message. *)
Accepted(ps, k) == /\ k \in DOMAIN ps
                   /\ Len(ps[k].got) >= 3 /\ ps[k].got[3].over = Exchanged

(* What a frame on its way to the machine tells of its connection. *)
FrameOK(ps, f) ==
    f.type = "tcp" => /\ f.to \in DOMAIN ps /\ f.port = ps[f.to].port
                      /\ f.ack <= f.to + 1 + Len(ps[f.to].got)
                      /\ HasVoucher(f.data) => Accepted(ps, f.to)
                      /\ Own(f.data, f.to)

(* What the machine believes of its connection. *)
Known(ps, r) ==
    /\ r.last_ack # 0 => /\ r.local_port \in DOMAIN ps
                         /\ r.last_ack <= r.local_port + 1 + Len(ps[r.local_port].got)
    /\ r.synack => r.local_port \in DOMAIN ps /\ ps[r.local_port].port = r.target_port

(* What no received frame changes. *)
Kept(r, q) == /\ q.local_port = r.local_port /\ q.target_port = r.target_port
              /\ q.target_ip = r.target_ip /\ q.syns = r.syns
              /\ q.local_next = r.local_next /\ q.payload_acked = r.payload_acked

(* What is shown of the page of connection k: its beginning, as far as the  *)
(* capture goes, and nothing of another's.                                  *)
Shows(s, k) ==
    /\ \A i \in 1..Len(s) : s[i].conn = k
    /\ s # <<>> => /\ Least(PageLen, Capture_) <= Len(s)
                   /\ \A i \in 1..Least(PageLen, Capture_) : s[i] = Page(k)[i]

(* Over HTTPS, what is received leaves a clean state of the connection      *)
(* clean: nothing decrypted is left over, what is kept of a record is the   *)
(* server's, and so is what is shown.                                       *)
Secure(s, n) ==
    s.t.plain = <<>> =>
        /\ n.t.plain = <<>>
        /\ s.g.target_port = TLS /\ Own(s.t.app_record, s.g.local_port)
              => /\ Own(n.t.app_record, s.g.local_port)
                 /\ Shows(s.g.http_response, s.g.local_port)
                      => Shows(n.g.http_response, s.g.local_port)

NetOK(r)   == r \in Nets /\ Len(r.http_response) <= Capture_
StackOK(s) == NetOK(s.g) /\ SessionOK(s.t)

(* http_capture keeps the state sound and touches neither ports nor        *)
(* acknowledgements.                                                       *)
LEMMA HttpCaptureOK ==
  ASSUME NEW r, NetOK(r), NEW units \in Seq(Shown)
  PROVE  LET q == HttpCapture(r, units)
         IN /\ NetOK(q) /\ Kept(r, q)
            /\ q.last_ack = r.last_ack /\ q.synack = r.synack
            /\ \A k : Shows(r.http_response, k) /\ Paged(units, k) => Shows(q.http_response, k)
<1> SUFFICES ASSUME units # <<>>
             PROVE  LET q == HttpCapture(r, units)
                    IN /\ NetOK(q) /\ Kept(r, q)
                       /\ q.last_ack = r.last_ack /\ q.synack = r.synack
                       /\ \A k : Shows(r.http_response, k) /\ Paged(units, k)
                                 => Shows(q.http_response, k)
  BY DEF HttpCapture, Kept
<1> DEFINE v    == r.http_valid \/ units[1].u = "status"
           room == Least(Len(units), Capture_ - Len(r.http_response))
           all  == r.http_response \o SubSeq(units, 1, room)
           q    == [r EXCEPT !.http_valid = v, !.http_response = all]
<1>1. /\ r \in Nets /\ r.http_response \in Seq(Shown)
      /\ Len(r.http_response) <= Capture_ /\ Capture_ \in Nat
  BY SizesAssumption DEF NetOK, Nets
<1>2. HttpCapture(r, units) = q
  BY <1>1 DEF HttpCapture, Nets
<1>3. v \in BOOLEAN
  BY <1>1 DEF Nets
<1>4. room \in Nat /\ room <= Len(units) /\ room <= Capture_ - Len(r.http_response)
  <2>1. Capture_ - Len(r.http_response) \in Nat /\ Len(units) \in Nat
    BY <1>1
  <2> QED BY <2>1, LeastType
<1>r. r.http_response = <<>> => room = Least(Len(units), Capture_)
  BY <1>1, EmptyType
<1> HIDE DEF v, room
<1>5. SubSeq(units, 1, room) \in Seq(Shown) /\ Len(SubSeq(units, 1, room)) = room
  BY <1>4, SubSeqType
<1>6. all \in Seq(Shown) /\ Len(all) = Len(r.http_response) + room
  BY <1>1, <1>5
<1>s. ASSUME NEW k, Shows(r.http_response, k), Paged(units, k) PROVE Shows(all, k)
  <2> DEFINE a == r.http_response
             b == SubSeq(units, 1, room)
             m == Least(PageLen, Capture_)
  <2>1. /\ a \in Seq(Shown) /\ b \in Seq(Shown) /\ Len(b) = room /\ all = a \o b
        /\ \A i \in 1..room : b[i] = units[i]
    BY <1>1, <1>4, <1>5
  <2>2. /\ m \in Nat /\ m <= PageLen /\ m <= Capture_ /\ PageLen \in Nat
    BY <1>1, PageAssumption, LeastType
  <2>3. \A i \in 1..Len(a) : a[i].conn = k
    BY <1>s DEF Shows
  <2>4. a # <<>> => m <= Len(a) /\ \A i \in 1..m : a[i] = Page(k)[i]
    BY <1>s DEF Shows
  <2>5. \A i \in 1..room : b[i].conn = k
    BY <1>4, <1>s, <2>1 DEF Paged
  <2>6. PageLen <= Len(units) /\ \A i \in 1..PageLen : units[i] = Page(k)[i]
    BY <1>s DEF Paged
  <2>7. a = <<>> => m <= room
    BY <1>1, <1>4, <1>r, <2>2, <2>6 DEF Least
  <2> HIDE DEF a, b, m, all
  <2>8. ASSUME NEW i \in 1..Len(all) PROVE all[i].conn = k
    <3>1. Len(a) \in Nat /\ Len(all) = Len(a) + room
      BY <2>1, <1>6 DEF a
    <3>2. CASE i <= Len(a)
      <4>1. all[i] = a[i] /\ i \in 1..Len(a)
        BY <2>1, <3>1, <3>2
      <4> QED BY <2>3, <4>1
    <3>3. CASE i > Len(a)
      <4>1. all[i] = b[i - Len(a)] /\ i - Len(a) \in 1..room
        BY <1>4, <2>1, <3>1, <3>3
      <4> QED BY <2>5, <4>1
    <3> QED BY <3>1, <3>2, <3>3
  <2>9. m <= Len(all) /\ \A i \in 1..m : all[i] = Page(k)[i]
    <3>1. CASE a = <<>>
      <4>1. all = b
        BY <2>1, <3>1
      <4> QED BY <1>4, <2>1, <2>2, <2>6, <2>7, <3>1, <4>1
    <3>2. CASE a # <<>>
      <4>1. m <= Len(a) /\ Len(a) \in Nat /\ Len(all) = Len(a) + room
        BY <1>6, <2>1, <2>4, <3>2 DEF a
      <4>2. \A i \in 1..m : i \in 1..Len(a) /\ all[i] = a[i]
        BY <2>1, <2>2, <4>1
      <4> QED BY <1>4, <2>2, <2>4, <3>2, <4>1, <4>2
    <3> QED BY <3>1, <3>2
  <2> QED BY <2>8, <2>9 DEF Shows, m
<1> HIDE DEF all
<1>7. Len(all) <= Capture_
  BY <1>1, <1>4, <1>6
<1>8. q \in Nets
  BY <1>1, <1>3, <1>6 DEF Nets
<1>9. /\ q.http_response = all /\ Kept(r, q)
      /\ q.last_ack = r.last_ack /\ q.synack = r.synack
  BY <1>1 DEF Nets, Kept
<1> QED BY <1>2, <1>7, <1>8, <1>9, <1>s DEF NetOK

(* TLS payload touches neither ports nor acknowledgements, and verifies    *)
(* only by the server's Finished.                                          *)
LEMMA TlsPayloadOK ==
  ASSUME NEW s, StackOK(s), NEW data \in Seq(InUnits)
  PROVE  LET n == TlsPayload(s, data)
         IN /\ StackOK(n) /\ Kept(s.g, n.g)
            /\ n.g.last_ack = s.g.last_ack /\ n.g.synack = s.g.synack
            /\ n = [g |-> n.g, t |-> n.t]
            /\ n.t.verified => s.t.verified \/ HasVoucher(data)
            /\ n.t.plain = <<>>
            /\ \A k : s.t.plain = <<>> /\ Own(s.t.app_record, k) /\ Own(data, k)
                      => /\ Own(n.t.app_record, k)
                         /\ Shows(s.g.http_response, k) => Shows(n.g.http_response, k)
<1> DEFINE t == Capture(s.t, data)
           q == HttpCapture(s.g, t.plain)
           e == [t EXCEPT !.plain = <<>>]
<1>1. /\ SessionOK(t) /\ (t.verified => s.t.verified \/ HasVoucher(data))
      /\ \A k : Pure(s.t, data, k) => Pure(t, <<>>, k)
  BY CaptureOK DEF StackOK
<1>2. TlsPayload(s, data) = [g |-> q, t |-> e]
  BY DEF TlsPayload
<1> HIDE DEF t
<1>3. t \in Sessions /\ t.plain \in Seq(Shown) /\ t.pend.rx <= t.pend.len /\ Len(t.app_record) <= t.app_need
  BY <1>1 DEF SessionOK, Sessions
<1>4. /\ NetOK(q) /\ Kept(s.g, q)
      /\ q.last_ack = s.g.last_ack /\ q.synack = s.g.synack
      /\ \A k : Shows(s.g.http_response, k) /\ Paged(t.plain, k) => Shows(q.http_response, k)
  BY <1>3, HttpCaptureOK DEF StackOK
<1>5. e \in Sessions
  BY <1>3, EmptyType DEF Sessions
<1>6. /\ e.pend = t.pend /\ e.app_record = t.app_record /\ e.app_need = t.app_need
      /\ e.verified = t.verified /\ e.plain = <<>>
  BY <1>3 DEF Sessions
<1> HIDE DEF e, q
<1>7. SessionOK(e)
  BY <1>3, <1>5, <1>6 DEF SessionOK
<1>8. ASSUME NEW k, s.t.plain = <<>>, Own(s.t.app_record, k), Own(data, k)
      PROVE  /\ Own(e.app_record, k)
             /\ Shows(s.g.http_response, k) => Shows(q.http_response, k)
  <2>1. Paged(<<>>, k)
    BY EmptyType DEF Paged
  <2>2. Pure(t, <<>>, k)
    BY <1>1, <1>8, <2>1 DEF Pure
  <2> QED BY <1>4, <1>6, <2>2 DEF Pure
<1> QED BY <1>1, <1>2, <1>4, <1>6, <1>7, <1>8 DEF StackOK


(* The frames that can arrive, by type. *)
LEMMA FrameKinds ==
  ASSUME NEW f \in InFrames
  PROVE  /\ f.type \in {"arp", "dns", "tcp"}
         /\ f.type = "dns" => f.ips \in Seq(Ips)
         /\ f.type = "tcp" => f \in Segments
BY DEF InFrames, Segments

(* A change of the machine's view of the connection that keeps it true. *)
Handled(ps, s, n) == /\ n = [g |-> n.g, t |-> n.t]
                     /\ StackOK(n) /\ Known(ps, n.g) /\ Kept(s.g, n.g)
                     /\ n.t.verified => s.t.verified \/ Accepted(ps, s.g.local_port)
                     /\ Secure(s, n)

(* Handling a DNS answer keeps what is known of the connection. *)
LEMMA HandleDnsOK ==
  ASSUME NEW ps, NEW s, StackOK(s), Known(ps, s.g), NEW f \in InFrames, f.type = "dns",
         s = [g |-> s.g, t |-> s.t]
  PROVE  Handled(ps, s, HandleDns(s, f))
<1> DEFINE r == s.g
           l == IF ~r.dns_valid /\ f.ips # <<>> THEN f.ips[1] ELSE r.dns_last
           v == r.dns_valid \/ f.ips # <<>>
           q == [r EXCEPT !.dns_ips = f.ips, !.dns_last = l, !.dns_valid = v]
<1>1. r \in Nets /\ Len(r.http_response) <= Capture_ /\ SessionOK(s.t)
  BY DEF StackOK, NetOK
<1>2. f.ips \in Seq(Ips)
  BY FrameKinds
<1>3. l \in Addresses
  <2>1. r.dns_last \in Addresses
    BY <1>1 DEF Nets
  <2>2. f.ips # <<>> => f.ips[1] \in Ips
    BY <1>2
  <2> QED BY <2>1, <2>2 DEF Addresses
<1>4. v \in BOOLEAN
  BY <1>1 DEF Nets
<1>5. HandleDns(s, f) = [g |-> q, t |-> s.t]
  <2>1. \A a, b : [[g |-> a, t |-> b] EXCEPT !.g = q] = [g |-> q, t |-> b]
    OBVIOUS
  <2>2. HandleDns(s, f) = [s EXCEPT !.g = [[r EXCEPT !.dns_ips = f.ips] EXCEPT !.dns_last = l, !.dns_valid = v]]
    BY <1>1 DEF HandleDns, Nets
  <2>3. [[r EXCEPT !.dns_ips = f.ips] EXCEPT !.dns_last = l, !.dns_valid = v] = q
    BY <1>1 DEF Nets
  <2> QED BY <2>2, <2>3
<1> HIDE DEF l, v
<1>6. q \in Nets
  BY <1>1, <1>2, <1>3, <1>4 DEF Nets
<1>7. /\ q.http_response = r.http_response /\ Kept(r, q)
      /\ q.last_ack = r.last_ack /\ q.synack = r.synack
  BY <1>1 DEF Nets, Kept
<1> HIDE DEF q
<1>8. NetOK(q) /\ Known(ps, q)
  BY <1>1, <1>6, <1>7 DEF NetOK, Known, Kept
<1>9. Secure(s, [g |-> q, t |-> s.t])
  BY <1>7 DEF Secure
<1> QED BY <1>1, <1>5, <1>7, <1>8, <1>9 DEF Handled, StackOK

(* Handling a TCP segment keeps what is known of the connection. *)
LEMMA HandleTcpOK ==
  ASSUME NEW ps, NEW s, StackOK(s), Known(ps, s.g), NEW f \in Segments, FrameOK(ps, f),
         s = [g |-> s.g, t |-> s.t]
  PROVE  Handled(ps, s, HandleTcp(s, f))
<1> DEFINE r == s.g
           a == [r EXCEPT !.last_ack = f.ack, !.last_seq = f.seq]
           b == [a EXCEPT !.remote_next = f.seq + Len(f.data)]
           y == [a EXCEPT !.synack = TRUE]
           seen  == [s EXCEPT !.g.last_ack = f.ack, !.g.last_seq = f.seq]
           moved == [seen EXCEPT !.g.remote_next = f.seq + Len(f.data)]
<1>1. r \in Nets /\ Len(r.http_response) <= Capture_ /\ SessionOK(s.t)
  BY DEF StackOK, NetOK
<1>2. CASE ~ForUs(r, f)
  <2>1. HandleTcp(s, f) = s
    BY <1>2 DEF HandleTcp
  <2> QED BY <2>1 DEF Handled, Kept, Secure
<1>3. CASE ForUs(r, f)
  <2>1. /\ f.type = "tcp" /\ f.ack \in Int /\ f.seq \in Int /\ f.data \in Seq(InUnits)
        /\ f.to = r.local_port /\ f.port = r.target_port
    BY <1>3 DEF Segments, ForUs
  <2>2. /\ r.local_port \in DOMAIN ps /\ ps[r.local_port].port = r.target_port
        /\ f.ack <= r.local_port + 1 + Len(ps[r.local_port].got)
        /\ HasVoucher(f.data) => Accepted(ps, r.local_port)
        /\ Own(f.data, r.local_port)
    BY <2>1 DEF FrameOK
  <2>3. f.seq + Len(f.data) \in Int
    BY <2>1
  <2>4. a \in Nets /\ y \in Nets /\ b \in Nets
    <3>1. a \in Nets
      BY <1>1, <2>1 DEF Nets
    <3> HIDE DEF a
    <3> QED BY <2>3, <3>1 DEF Nets
  <2>5. /\ a.http_response = r.http_response /\ Kept(r, a)
        /\ a.last_ack = f.ack /\ a.synack = r.synack
    BY <1>1 DEF Nets, Kept
  <2>6. seen = [g |-> a, t |-> s.t]
    <3>1. seen = [s EXCEPT !.g = a]
      BY <1>1 DEF Nets
    <3> HIDE DEF a, seen
    <3>2. \A q, u, v : [[g |-> q, t |-> u] EXCEPT !.g = v] = [g |-> v, t |-> u]
      OBVIOUS
    <3> QED BY <3>1, <3>2
  <2>7. moved = [g |-> b, t |-> s.t]
    <3>1. \A q, u, v : [[g |-> q, t |-> u] EXCEPT !.g.remote_next = v]
                        = [g |-> [q EXCEPT !.remote_next = v], t |-> u]
      OBVIOUS
    <3> HIDE DEF a, seen
    <3> QED BY <2>6, <3>1
  <2>8. [seen EXCEPT !.g.synack = TRUE] = [g |-> y, t |-> s.t]
    <3> HIDE DEF a, seen
    <3>1. seen.g = a
      BY <2>6
    <3>2. [seen EXCEPT !.g.synack = TRUE] = [seen EXCEPT !.g = y]
      BY <3>1
    <3>3. \A q, u, v : [[g |-> q, t |-> u] EXCEPT !.g = v] = [g |-> v, t |-> u]
      OBVIOUS
    <3> HIDE DEF y
    <3> QED BY <2>6, <3>2, <3>3
  <2>9. \/ HandleTcp(s, f) \in {[seen EXCEPT !.g.synack = TRUE], seen}
        \/ r.target_port = TLS /\ HandleTcp(s, f) = TlsPayload(moved, f.data)
        \/ r.target_port # TLS /\ HandleTcp(s, f) = [moved EXCEPT !.g = HttpCapture(@, f.data)]
    <3> DEFINE A == ForUs(s.g, f) /\ f.syn
               B == ForUs(s.g, f) /\ ~f.syn /\ f.data = <<>>
               C == ~ForUs(s.g, f)
               T == TlsPayload(moved, f.data)
               H == [moved EXCEPT !.g = HttpCapture(@, f.data)]
               Y == [seen EXCEPT !.g.synack = TRUE]
               O == r.target_port = TLS
    <3>1. HandleTcp(s, f) = CASE C -> s [] A -> Y [] B -> seen [] OTHER -> IF O THEN T ELSE H
      BY DEF HandleTcp
    <3>2. ~C /\ (B => ~A)
      BY <1>3
    <3> HIDE DEF A, B, C, T, H, Y, O, seen, moved
    <3>3. HandleTcp(s, f) \in {Y, seen} \/ (O /\ HandleTcp(s, f) = T)
             \/ (~O /\ HandleTcp(s, f) = H)
      <4>1. CASE A
        BY <3>1, <3>2, <4>1
      <4>2. CASE B
        BY <3>1, <3>2, <4>2
      <4>3. CASE ~A /\ ~B
        BY <3>1, <3>2, <4>3
      <4> QED BY <4>1, <4>2, <4>3
    <3> QED BY <3>3 DEF T, H, Y, O
  <2> HIDE DEF seen, moved
  <2>10. /\ b.http_response = r.http_response /\ Kept(r, b)
         /\ b.last_ack = f.ack /\ b.synack = r.synack
         /\ y.http_response = r.http_response /\ Kept(r, y) /\ y.last_ack = f.ack
    <3> HIDE DEF r
    <3> QED BY <2>4, <2>5 DEF Nets, Kept
  <2> HIDE DEF a, b, y
  <2>11. /\ NetOK(a) /\ Known(ps, a) /\ NetOK(b) /\ Known(ps, b) /\ NetOK(y) /\ Known(ps, y)
    BY <1>1, <2>2, <2>4, <2>5, <2>10 DEF NetOK, Known, Kept
  <2> HIDE DEF r
  <2>s. Secure(s, [g |-> y, t |-> s.t]) /\ Secure(s, [g |-> a, t |-> s.t])
    BY <2>5, <2>10 DEF Secure, r
  <2>12. Handled(ps, s, [g |-> y, t |-> s.t]) /\ Handled(ps, s, [g |-> a, t |-> s.t])
    BY <1>1, <2>5, <2>10, <2>11, <2>s DEF Handled, StackOK, r
  <2>13. ASSUME NEW q, NetOK(q), Kept(b, q), q.last_ack = b.last_ack, q.synack = b.synack
         PROVE  Known(ps, q) /\ Kept(r, q)
    BY <2>10, <2>11, <2>13 DEF Known, Kept
  <2>14. ASSUME r.target_port # TLS
         PROVE  Handled(ps, s, [moved EXCEPT !.g = HttpCapture(@, f.data)])
    <3> DEFINE q == HttpCapture(b, f.data)
    <3>1. f.data \in Seq(Shown)
      BY <2>1 DEF Shown
    <3>2. NetOK(q) /\ Kept(b, q) /\ q.last_ack = b.last_ack /\ q.synack = b.synack
      BY <2>11, <3>1, HttpCaptureOK
    <3>3. [moved EXCEPT !.g = HttpCapture(@, f.data)] = [g |-> q, t |-> s.t]
      BY <2>7
    <3> HIDE DEF q
    <3>4. Known(ps, q) /\ Kept(r, q)
      BY <2>13, <3>2
    <3>5. Secure(s, [g |-> q, t |-> s.t])
      BY <2>14 DEF Secure, r
    <3> QED BY <1>1, <3>2, <3>3, <3>4, <3>5 DEF Handled, StackOK, r
  <2>15. ASSUME r.target_port = TLS
         PROVE  Handled(ps, s, TlsPayload(moved, f.data))
    <3> DEFINE n == TlsPayload(moved, f.data)
    <3>1. StackOK(moved) /\ moved.g = b /\ moved.t = s.t
      BY <1>1, <2>7, <2>11 DEF StackOK
    <3>2. /\ StackOK(n) /\ Kept(b, n.g)
          /\ n.g.last_ack = b.last_ack /\ n.g.synack = b.synack
          /\ n = [g |-> n.g, t |-> n.t]
          /\ n.t.verified => s.t.verified \/ HasVoucher(f.data)
          /\ n.t.plain = <<>>
          /\ \A k : s.t.plain = <<>> /\ Own(s.t.app_record, k) /\ Own(f.data, k)
                    => /\ Own(n.t.app_record, k)
                       /\ Shows(b.http_response, k) => Shows(n.g.http_response, k)
      BY <2>1, <3>1, TlsPayloadOK
    <3> HIDE DEF n
    <3>3. Known(ps, n.g) /\ Kept(r, n.g)
      BY <2>13, <3>2 DEF StackOK
    <3>4. Secure(s, n)
      BY <2>2, <2>10, <3>2 DEF Secure, r
    <3> QED BY <2>2, <3>2, <3>3, <3>4 DEF Handled, r, n
  <2> QED BY <2>6, <2>8, <2>9, <2>12, <2>14, <2>15
<1> QED BY <1>2, <1>3


(* Handling any frame keeps what is known of the connection. *)
LEMMA HandleOK ==
  ASSUME NEW ps, NEW s, StackOK(s), Known(ps, s.g), NEW f \in InFrames, FrameOK(ps, f),
         s = [g |-> s.g, t |-> s.t]
  PROVE  Handled(ps, s, Handle(s, f))
<1>1. CASE f.type = "arp"
  <2> DEFINE q == [s.g EXCEPT !.mac = TRUE]
  <2>1. s.g \in Nets /\ Len(s.g.http_response) <= Capture_ /\ SessionOK(s.t)
    BY DEF StackOK, NetOK
  <2>2. Handle(s, f) = [s EXCEPT !.g = q]
    BY <1>1, <2>1 DEF Handle, Nets
  <2>3. /\ q \in Nets /\ q.http_response = s.g.http_response /\ Kept(s.g, q)
        /\ q.last_ack = s.g.last_ack /\ q.synack = s.g.synack
    BY <2>1 DEF Nets, Kept
  <2> HIDE DEF q
  <2>4. NetOK(q) /\ Known(ps, q)
    BY <2>1, <2>3 DEF NetOK, Known, Kept
  <2>5. [s EXCEPT !.g = q] = [g |-> q, t |-> s.t]
    OBVIOUS
  <2>6. Secure(s, [g |-> q, t |-> s.t])
    BY <2>3 DEF Secure
  <2> QED BY <2>1, <2>2, <2>3, <2>4, <2>5, <2>6 DEF Handled, StackOK
<1>2. CASE f.type = "dns"
  <2>1. Handle(s, f) = HandleDns(s, f)
    BY <1>2 DEF Handle
  <2> QED BY <1>2, <2>1, HandleDnsOK
<1>3. CASE f.type = "tcp"
  <2>1. Handle(s, f) = HandleTcp(s, f)
    BY <1>3 DEF Handle
  <2>2. f \in Segments
    BY <1>3, FrameKinds
  <2> QED BY <2>1, <2>2, HandleTcpOK
<1> QED BY <1>1, <1>2, <1>3, FrameKinds

(* So does net_poll, whatever number of frames the ring holds. *)
LEMMA PolledOK ==
  ASSUME NEW ps, NEW s, StackOK(s), Known(ps, s.g), s = [g |-> s.g, t |-> s.t],
         NEW frames \in Seq(InFrames), \A i \in 1..Len(frames) : FrameOK(ps, frames[i])
  PROVE  Handled(ps, s, Polled(s, frames))
<1>0. PICK w : PolledBy(w, s, frames)
  BY PolledSteps DEF StackOK, NetOK
<1>1. /\ w[0] = s
      /\ \A i \in 1..Len(frames) : w[i] = Handle(w[i - 1], frames[i])
      /\ Polled(s, frames) = w[Len(frames)]
  BY <1>0 DEF PolledBy
<1> DEFINE Fine(x) == Handled(ps, s, x) /\ x = [g |-> x.g, t |-> x.t]
           P == {i \in Nat : i <= Len(frames) => Fine(w[i])}
<1>2. 0 \in P
  BY <1>1 DEF Handled, Kept, Secure
<1>3. ASSUME NEW i \in P PROVE i + 1 \in P
  <2>1. i \in Nat /\ (i <= Len(frames) => Fine(w[i]))
    OBVIOUS
  <2> SUFFICES ASSUME i + 1 <= Len(frames) PROVE Fine(w[i + 1])
    BY <2>1
  <2>2. Fine(w[i])
    BY <2>1
  <2>3. i + 1 \in 1..Len(frames) /\ (i + 1) - 1 = i
    BY <2>1
  <2> DEFINE x == w[i]
             f == frames[i + 1]
             y == w[i + 1]
  <2>4. y = Handle(x, f) /\ f \in InFrames /\ FrameOK(ps, f)
    BY <1>1, <2>3
  <2> HIDE DEF x, y, f
  <2>5. Handled(ps, s, x) /\ x = [g |-> x.g, t |-> x.t]
    BY <2>2 DEF x
  <2>6. StackOK(x) /\ Known(ps, x.g) /\ Kept(s.g, x.g)
        /\ (x.t.verified => s.t.verified \/ Accepted(ps, s.g.local_port))
        /\ Secure(s, x)
    BY <2>5 DEF Handled
  <2>7. Handled(ps, x, y)
    BY <2>4, <2>5, <2>6, HandleOK
  <2>8. y = [g |-> y.g, t |-> y.t]
    BY <2>7 DEF Handled
  <2>s. Secure(s, y)
    <3>1. Kept(s.g, x.g) /\ Secure(s, x) /\ Secure(x, y)
      BY <2>6, <2>7 DEF Handled
    <3> QED BY <3>1 DEF Kept, Secure
  <2>9. Handled(ps, s, y)
    BY <2>6, <2>7, <2>s DEF Handled, Kept
  <2> QED BY <2>8, <2>9 DEF y
<1>4. P = Nat
  <2>1. P \in SUBSET Nat
    OBVIOUS
  <2> HIDE DEF P
  <2> QED BY <1>2, <1>3, <2>1, NatBySteps
<1>5. Fine(w[Len(frames)])
  BY <1>4
<1> QED BY <1>1, <1>5


-----------------------------------------------------------------------------
(***************************************************************************)
(* The inductive invariant.                                                *)
(***************************************************************************)
(* What a server of this port is sent, in this order. *)
Order(port) == CASE port = HTTP -> <<"get">>
                 [] port = TLS  -> <<"CH", "CKE", "finished", "sealed get">>
                 [] OTHER       -> <<>>

ServerOK(p) ==
    /\ Len(p.got) <= Len(Order(p.port))
    /\ \A i \in 1..Len(p.got) : p.got[i].u = Order(p.port)[i]
    /\ Len(p.got) = 4 => p.got[3].over = Exchanged

PeersOK(ps, n) ==
    /\ DOMAIN ps \subseteq 0..n - 1 /\ ps \in [DOMAIN ps -> Peers]
    /\ \A k \in DOMAIN ps : /\ ps[k].isn = k /\ ServerOK(ps[k])
                            /\ \A f \in ps[k].sent : FrameOK(ps, f)

(* A frame of the machine belongs where its connection is. *)
SendOK(ps, n, f) ==
    /\ f.type = "syn" => f.local < n /\ f.seq = f.local
    /\ f.type = "data" =>
          /\ f.local \in DOMAIN ps
          /\ LET o == Order(ps[f.local].port)
                 i == f.seq - f.local
             IN i \in 1..Len(o) /\ f.data.u = o[i]
          /\ f.data.u = "sealed get" => Accepted(ps, f.local)

Types == /\ NetOK(g) /\ SessionOK(tls) /\ call \in Calls
         /\ nic \in [rx : Seq(InFrames), tx : Seq(OutFrames)]
         /\ Len(nic.rx) < RxRing /\ Len(nic.tx) <= TxRing
         /\ wire \in Seq(InFrames) /\ faults \in 0..MaxFaults

Arriving == /\ \A i \in 1..Len(wire) : FrameOK(peers, wire[i])
            /\ \A i \in 1..Len(nic.rx) : FrameOK(peers, nic.rx[i])

Busy(c) == c.pc \in {"send", "tx"}

Leaving == /\ \A i \in 1..Len(nic.tx) : SendOK(peers, g.syns, nic.tx[i])
           /\ Busy(call) => call.frame \in OutFrames /\ SendOK(peers, g.syns, call.frame)

(* Where a call is, also while it sends; and how many units of payload it   *)
(* has then sent on its connection.                                         *)
Point(c) == CASE Busy(c) /\ c.what = "ack" -> c.back
              [] Busy(c) /\ c.what # "ack" -> c.what
              [] OTHER -> c.pc

Stage(c) == CASE Point(c) \in {"final", "request"} -> 0
              [] Point(c) \in {"http_wait", "flight_wait", "kex", "cke"} -> 1
              [] Point(c) \in {"cke_wait", "finished"} -> 2
              [] Point(c) \in {"fin_wait", "app"} -> 3
              [] Point(c) = "app_wait" -> 4
              [] OTHER -> -1

Dialing(c)   == Point(c) \in {"syn", "syn_wait"}
Connection(c) == Dialing(c) \/ Stage(c) >= 0

PortOf(c) == CASE c.kind = "http" -> HTTP [] c.kind = "https" -> TLS [] OTHER -> DNS

(* A call with a connection, and one that has made it. *)
ConnectionOK(ps, r, t, c) ==
    Connection(c) => /\ r.syns = r.local_port + 1 /\ c.first <= r.local_port
                     /\ r.target_port = PortOf(c)
                     /\ c.kind = "https" /\ t.verified => Accepted(ps, r.local_port)
StageOK(ps, r, c) ==
    Stage(c) >= 0 =>
        /\ r.local_port \in DOMAIN ps /\ ps[r.local_port].port = r.target_port
        /\ r.local_next = r.local_port + 1 + Stage(c)
        /\ CASE Point(c) = "final"     -> c.kind \in {"https", "tcp"}
             [] Point(c) = "request"   -> c.kind \in {"http", "https"}
             [] Point(c) = "http_wait" -> c.kind = "http"
             [] OTHER                  -> c.kind = "https"

(* Only a call with a name asks for one. *)
NameOK(c) == (\/ Point(c) \in {"query", "ask", "dns", "dns_wait"}
              \/ Point(c) \in {"arp", "arp_wait"} /\ c.targets = <<>>) => c.host \in Hosts

(* The end of what was sent lies behind what the handshake used up. *)
EndOK(r, c) == c.end > 0 => \/ c.end >= r.local_port + 2 /\ c.first <= r.local_port
                            \/ r.local_port >= r.syns

AckOK(ps, r, c) == (c.kind \in {"http", "https"} /\ r.payload_acked)
                       => \E k \in DOMAIN ps : k >= c.first /\ ps[k].got # <<>>

(* A call under way is of some kind, and an acknowledgement is followed by   *)
(* a step of the call.                                                      *)
FlowOK(c) == /\ c.pc # "idle" => c.kind # "none"
             /\ Busy(c) /\ c.what = "ack" => c.back \in {"idle", "kex", "http_wait", "flight_wait",
                                                       "fin_wait", "app_wait"}

CallOK(ps, r, t, c) == /\ c.first <= r.syns /\ FlowOK(c)
                       /\ ConnectionOK(ps, r, t, c) /\ StageOK(ps, r, c) /\ NameOK(c)
                       /\ EndOK(r, c) /\ AckOK(ps, r, c)

IInv == /\ Types /\ PeersOK(peers, g.syns) /\ Arriving /\ Leaving
        /\ Known(peers, g) /\ CallOK(peers, g, tls, call)


-----------------------------------------------------------------------------
(***************************************************************************)
(* A server only ever adds to what it has got: what was true of a frame or *)
(* of the call stays true.                                                 *)
(***************************************************************************)
Grown(ps, qs) ==
    /\ DOMAIN ps \subseteq DOMAIN qs
    /\ \A k \in DOMAIN ps : /\ qs[k].port = ps[k].port
                            /\ Len(ps[k].got) \in Nat /\ Len(qs[k].got) \in Nat
                            /\ Len(ps[k].got) <= Len(qs[k].got)
                            /\ Accepted(ps, k) => Accepted(qs, k)
                            /\ ps[k].got # <<>> => qs[k].got # <<>>

(* A frame true of the peers stays true as their connections go on. *)
LEMMA GrownFrame ==
  ASSUME NEW ps, NEW qs, Grown(ps, qs), NEW f \in InFrames, FrameOK(ps, f)
  PROVE  FrameOK(qs, f)
<1> SUFFICES ASSUME f.type = "tcp" PROVE FrameOK(qs, f)
  BY DEF FrameOK
<1>1. f.to \in Nat /\ f.ack \in Int
  BY FrameKinds DEF Segments
<1>2. /\ f.to \in DOMAIN ps /\ f.port = ps[f.to].port
      /\ f.ack <= f.to + 1 + Len(ps[f.to].got)
      /\ HasVoucher(f.data) => Accepted(ps, f.to)
      /\ Own(f.data, f.to)
  BY DEF FrameOK
<1>3. /\ f.to \in DOMAIN qs /\ qs[f.to].port = ps[f.to].port
      /\ Len(ps[f.to].got) \in Nat /\ Len(qs[f.to].got) \in Nat
      /\ Len(ps[f.to].got) <= Len(qs[f.to].got)
      /\ Accepted(ps, f.to) => Accepted(qs, f.to)
  BY <1>2 DEF Grown
<1>4. f.ack <= f.to + 1 + Len(qs[f.to].got)
  BY <1>1, <1>2, <1>3
<1> QED BY <1>2, <1>3, <1>4 DEF FrameOK

(* So does a frame that the machine may send. *)
LEMMA GrownSend ==
  ASSUME NEW ps, NEW qs, Grown(ps, qs), NEW n, NEW f, SendOK(ps, n, f)
  PROVE  SendOK(qs, n, f)
<1> SUFFICES ASSUME f.type = "data" PROVE SendOK(qs, n, f)
  BY DEF SendOK
<1>1. f.local \in DOMAIN ps
  BY DEF SendOK
<1>2. /\ f.local \in DOMAIN qs /\ qs[f.local].port = ps[f.local].port
      /\ Accepted(ps, f.local) => Accepted(qs, f.local)
  BY <1>1 DEF Grown
<1> QED BY <1>1, <1>2 DEF SendOK

(* So does what the machine knows of its connection. *)
LEMMA GrownKnown ==
  ASSUME NEW ps, NEW qs, Grown(ps, qs), NEW r \in Nets, Known(ps, r)
  PROVE  Known(qs, r)
<1>1. r.local_port \in Nat /\ r.last_ack \in Int
  BY DEF Nets
<1> DEFINE k == r.local_port
<1>2. ASSUME k \in DOMAIN ps
      PROVE  /\ k \in DOMAIN qs /\ qs[k].port = ps[k].port
             /\ Len(ps[k].got) \in Nat /\ Len(qs[k].got) \in Nat
             /\ Len(ps[k].got) <= Len(qs[k].got)
  BY <1>2 DEF Grown
<1>3. ASSUME r.last_ack # 0
      PROVE  k \in DOMAIN qs /\ r.last_ack <= k + 1 + Len(qs[k].got)
  <2>1. k \in DOMAIN ps /\ r.last_ack <= k + 1 + Len(ps[k].got)
    BY <1>3 DEF Known
  <2> HIDE DEF k
  <2> QED BY <1>1, <1>2, <2>1 DEF k
<1>4. ASSUME r.synack PROVE k \in DOMAIN qs /\ qs[k].port = r.target_port
  BY <1>2, <1>4 DEF Known
<1> QED BY <1>3, <1>4 DEF Known

(* So does what a call knows of it. *)
LEMMA GrownCall ==
  ASSUME NEW ps, NEW qs, Grown(ps, qs), NEW r, NEW t, NEW c, CallOK(ps, r, t, c)
  PROVE  CallOK(qs, r, t, c)
<1>1. ConnectionOK(qs, r, t, c)
  BY DEF CallOK, ConnectionOK, Grown, Accepted
<1>2. StageOK(qs, r, c)
  BY DEF CallOK, StageOK, Grown
<1>3. AckOK(qs, r, c)
  BY DEF CallOK, AckOK, Grown
<1> QED BY <1>1, <1>2, <1>3 DEF CallOK

(* Nor does what the receiver changes make it false. *)
LEMMA KeptCall ==
  ASSUME NEW ps, NEW r, NEW q, Kept(r, q), NEW t, NEW u, NEW c, CallOK(ps, r, t, c),
         u.verified => t.verified \/ Accepted(ps, r.local_port)
  PROVE  CallOK(ps, q, u, c)
<1>1. ConnectionOK(ps, q, u, c)
  BY DEF CallOK, ConnectionOK, Kept
<1>2. StageOK(ps, q, c)
  BY DEF CallOK, StageOK, Kept
<1>3. AckOK(ps, q, c) /\ EndOK(q, c)
  BY DEF CallOK, AckOK, EndOK, Kept
<1> QED BY <1>1, <1>2, <1>3 DEF CallOK, Kept


-----------------------------------------------------------------------------
(***************************************************************************)
(* The servers.                                                            *)
(***************************************************************************)
LEMMA ConcatType ==
  ASSUME NEW a \in Seq(InUnits), NEW b \in Seq(InUnits)
  PROVE  /\ a \o b \in Seq(InUnits) /\ Len(a \o b) = Len(a) + Len(b)
         /\ HasVoucher(a \o b) => HasVoucher(a) \/ HasVoucher(b)
         /\ \A k : Own(a, k) /\ Own(b, k) => Own(a \o b, k)
<1>1. a \o b \in Seq(InUnits) /\ Len(a \o b) = Len(a) + Len(b)
  OBVIOUS
<1>2. ASSUME NEW i \in 1..Len(a \o b), (a \o b)[i].u = "sealed", (a \o b)[i].seq = 0
      PROVE  HasVoucher(a) \/ HasVoucher(b)
  <2>1. CASE i <= Len(a)
    <3>1. (a \o b)[i] = a[i] /\ i \in 1..Len(a)
      BY <2>1
    <3> QED BY <1>2, <3>1 DEF HasVoucher
  <2>2. CASE i > Len(a)
    <3>1. (a \o b)[i] = b[i - Len(a)] /\ i - Len(a) \in 1..Len(b)
      BY <1>1, <2>2
    <3> QED BY <1>2, <3>1 DEF HasVoucher
  <2> QED BY <2>1, <2>2
<1>3. ASSUME NEW k, Own(a, k), Own(b, k) PROVE Own(a \o b, k)
  BY <1>3, ConcatOwn
<1> QED BY <1>1, <1>2, <1>3 DEF HasVoucher

(* A payload of n units, none of them sealed. *)
Mute(us, n) == /\ us \in Seq(InUnits) /\ Len(us) = n
               /\ \A i \in 1..Len(us) : us[i].u # "sealed"

(* Nothing in it is a voucher, or another connection's. *)
LEMMA MuteOwn ==
  ASSUME NEW n, NEW us, Mute(us, n)
  PROVE  us \in Seq(InUnits) /\ Len(us) = n /\ ~HasVoucher(us) /\ \A k : Own(us, k)
BY DEF Mute, HasVoucher, Own

(* Mute sequences, one after the other, are mute. *)
LEMMA ConcatMute ==
  ASSUME NEW m \in Nat, NEW n \in Nat, NEW a, Mute(a, m), NEW b, Mute(b, n)
  PROVE  Mute(a \o b, m + n)
<1>1. a \in Seq(InUnits) /\ b \in Seq(InUnits) /\ Len(a) = m /\ Len(b) = n
  BY DEF Mute
<1>2. a \o b \in Seq(InUnits) /\ Len(a \o b) = Len(a) + Len(b)
  BY <1>1, ConcatType
<1>3. ASSUME NEW i \in 1..Len(a \o b) PROVE (a \o b)[i].u # "sealed"
  <2>1. CASE i <= Len(a)
    <3>1. (a \o b)[i] = a[i] /\ i \in 1..Len(a)
      BY <1>1, <2>1
    <3> QED BY <3>1 DEF Mute
  <2>2. CASE i > Len(a)
    <3>1. i - Len(a) \in 1..Len(b)
      BY <1>1, <1>2, <2>2
    <3>2. (a \o b)[i] = b[i - Len(a)]
      BY <1>1, <2>2, <3>1
    <3> QED BY <3>1, <3>2 DEF Mute
  <2> QED BY <1>1, <2>1, <2>2
<1> QED BY <1>1, <1>2, <1>3 DEF Mute

(* A handshake message on the wire is mute. *)
LEMMA MessageType ==
  ASSUME NEW msg \in Msgs, NEW n \in Nat, NEW k \in Int
  PROVE  Mute(Message(msg, n, k), n + 1)
<1> DEFINE h == [u |-> "hs", msg |-> msg, len |-> n, conn |-> k]
           e == [u |-> "body", msg |-> msg]
           b == [i \in 1..n |-> e]
           a == <<h>>
<1>1. h \in InUnits /\ h.u = "hs" /\ e \in InUnits /\ e.u = "body"
  BY DEF InUnits
<1>2. Message(msg, n, k) = a \o b
  BY DEF Message
<1> HIDE DEF h, e
<1>3. Mute(a, 1)
  BY <1>1 DEF Mute
<1>4. Mute(b, n)
  BY <1>1 DEF Mute
<1> HIDE DEF a, b
<1>5. Mute(a \o b, 1 + n)
  BY <1>3, <1>4, ConcatMute
<1> QED BY <1>2, <1>5

(* A record on the wire is two units longer than its body and holds        *)
(* nothing else.                                                           *)
LEMMA RecordType ==
  ASSUME NEW type \in {"handshake", "alert", "ccs", "data"}, NEW body \in Seq(InUnits)
  PROVE  /\ Record(type, body) \in Seq(InUnits) /\ Len(Record(type, body)) = Len(body) + 2
         /\ HasVoucher(Record(type, body)) => HasVoucher(body)
         /\ \A k : Own(body, k) => Own(Record(type, body), k)
<1> DEFINE h == [u |-> "head", type |-> type, len |-> Len(body)]
           e == [u |-> "head2"]
           a == <<h, e>>
<1>1. h \in InUnits /\ h.u = "head" /\ e \in InUnits /\ e.u = "head2"
  BY DEF InUnits
<1>2. Record(type, body) = a \o body
  BY DEF Record
<1> HIDE DEF h, e
<1>3. Mute(a, 2)
  BY <1>1 DEF Mute
<1> HIDE DEF a
<1>4. a \in Seq(InUnits) /\ Len(a) = 2 /\ ~HasVoucher(a) /\ \A k : Own(a, k)
  BY <1>3, MuteOwn
<1>5. /\ a \o body \in Seq(InUnits) /\ Len(a \o body) = Len(a) + Len(body)
      /\ HasVoucher(a \o body) => HasVoucher(a) \/ HasVoucher(body)
      /\ \A k : Own(a, k) /\ Own(body, k) => Own(a \o body, k)
  BY <1>4, ConcatType
<1> QED BY <1>2, <1>4, <1>5

(* A record of a mute body is mute. *)
LEMMA RecordMute ==
  ASSUME NEW type \in {"handshake", "alert", "ccs", "data"}, NEW n \in Nat, NEW b, Mute(b, n)
  PROVE  Mute(Record(type, b), n + 2)
<1> DEFINE h == [u |-> "head", type |-> type, len |-> Len(b)]
           e == [u |-> "head2"]
           a == <<h, e>>
<1>0. Len(b) = n
  BY DEF Mute
<1>1. h \in InUnits /\ h.u = "head" /\ e \in InUnits /\ e.u = "head2"
  BY <1>0 DEF InUnits
<1>2. Record(type, b) = a \o b
  BY DEF Record
<1> HIDE DEF h, e
<1>3. Mute(a, 2)
  BY <1>1 DEF Mute
<1> HIDE DEF a
<1>4. Mute(a \o b, 2 + n)
  BY <1>3, ConcatMute
<1> QED BY <1>2, <1>4

(* A page is mute and made of a page's units. *)
LEMMA PageType ==
  ASSUME NEW k \in Int
  PROVE  /\ Mute(Page(k), PageLen)
         /\ \A i \in 1..PageLen : Page(k)[i] \in PageUnits
<1>1. PageLen \in Nat
  BY PageAssumption
<1>2. \A i \in 1..PageLen : Page(k)[i] \in PageUnits /\ Page(k)[i].u # "sealed"
  BY DEF Page, PageUnits
<1>3. Page(k) \in Seq(InUnits) /\ Len(Page(k)) = PageLen
  <2>1. \A i \in 1..PageLen : Page(k)[i] \in InUnits
    BY <1>2 DEF InUnits
  <2>2. Page(k) = [i \in 1..PageLen |-> Page(k)[i]]
    BY DEF Page
  <2> QED BY <1>1, <2>1, <2>2
<1> QED BY <1>1, <1>2, <1>3 DEF Mute

(* The server's first flight is mute, in either layout. *)
LEMMA FlightType ==
  ASSUME NEW k \in Int, NEW layout
  PROVE  Mute(Flight(k, layout), 10) \/ Mute(Flight(k, layout), 16)
<1> DEFINE sh   == Message("SH", 1, k)
           cert == Message("Cert", 2, k)
           ske  == Message("SKE", 1, k)
           shd  == Message("SHD", 0, k)
           R(b) == Record("handshake", b)
<1>1. Mute(sh, 2) /\ Mute(cert, 3) /\ Mute(ske, 2) /\ Mute(shd, 1)
  <2>1. "SH" \in Msgs /\ "Cert" \in Msgs /\ "SKE" \in Msgs /\ "SHD" \in Msgs
    BY DEF Msgs
  <2>2. Mute(sh, 1 + 1) /\ Mute(cert, 2 + 1) /\ Mute(ske, 1 + 1) /\ Mute(shd, 0 + 1)
    <3> HIDE DEF Mute
    <3> QED BY <2>1, MessageType
  <2> QED BY <2>2
<1> DEFINE f == Flight(k, layout)
           x == R(sh \o cert \o ske \o shd)
           y == R(sh) \o R(cert) \o R(ske) \o R(shd)
           one == layout = "one record"
<1>2. f = IF one THEN x ELSE y
  BY DEF Flight
<1> HIDE DEF sh, cert, ske, shd
<1>3. Mute(R(sh \o cert \o ske \o shd), 10)
  <2> DEFINE a == sh \o cert
             b == a \o ske
             c == b \o shd
  <2>1. Mute(a, 2 + 3)
    BY <1>1, ConcatMute
  <2> HIDE DEF a
  <2>2. Mute(b, 5 + 2)
    BY <1>1, <2>1, ConcatMute
  <2> HIDE DEF b
  <2>3. Mute(c, 7 + 1)
    BY <1>1, <2>2, ConcatMute
  <2> HIDE DEF c
  <2>4. Mute(R(c), 8 + 2)
    BY <2>3, RecordMute
  <2> QED BY <2>4 DEF a, b, c
<1>4. Mute(R(sh) \o R(cert) \o R(ske) \o R(shd), 16)
  <2> DEFINE s1 == R(sh)
             s2 == R(cert)
             s3 == R(ske)
             s4 == R(shd)
             a == s1 \o s2
             b == a \o s3
             c == b \o s4
  <2>1. Mute(s1, 2 + 2) /\ Mute(s2, 3 + 2) /\ Mute(s3, 2 + 2) /\ Mute(s4, 1 + 2)
    BY <1>1, RecordMute
  <2> HIDE DEF s1, s2, s3, s4
  <2>2. Mute(a, 4 + 5)
    BY <2>1, ConcatMute
  <2> HIDE DEF a
  <2>3. Mute(b, 9 + 4)
    BY <2>1, <2>2, ConcatMute
  <2> HIDE DEF b
  <2>4. Mute(c, 13 + 3)
    BY <2>1, <2>3, ConcatMute
  <2> HIDE DEF c
  <2>5. c = R(sh) \o R(cert) \o R(ske) \o R(shd)
    BY DEF a, b, c, s1, s2, s3, s4
  <2> QED BY <2>4, <2>5
<1>5. Mute(x, 10) /\ Mute(y, 16)
  BY <1>3, <1>4
<1> HIDE DEF f, x, y, one
<1>6. Mute(f, 10) \/ Mute(f, 16)
  BY <1>2, <1>5
<1> QED BY <1>6 DEF f


(* An alert is mute. *)
LEMMA AlertType == Mute(Alert, 3)
<1> DEFINE e == [u |-> "body", msg |-> "alert"]
           b == <<e>>
<1>1. e \in InUnits /\ e.u = "body"
  BY DEF InUnits, Msgs
<1> HIDE DEF e
<1>2. Mute(b, 1)
  BY <1>1 DEF Mute
<1>3. Alert = Record("alert", b)
  BY DEF Alert, e
<1> HIDE DEF b
<1>4. Mute(Record("alert", b), 1 + 2)
  BY <1>2, RecordMute
<1> QED BY <1>3, <1>4

(* What is sealed under a key and a number. *)
LEMMA SealedType ==
  ASSUME NEW k \in Int, NEW seq \in Nat, NEW plain \in Seq(PageUnits \cup Vouchers)
  PROVE  /\ Sealed(k, seq, plain) \in Seq(InUnits) /\ Len(Sealed(k, seq, plain)) = Len(plain)
         /\ \A i \in 1..Len(plain) :
               LET unit == Sealed(k, seq, plain)[i]
               IN unit.seq = seq /\ unit.plain = plain[i] /\ unit.place = i /\ unit.of = Len(plain)
<1> DEFINE n == Len(plain)
           f(i) == [u |-> "sealed", key |-> k, seq |-> seq, plain |-> plain[i],
                    place |-> i, of |-> n]
           us == Sealed(k, seq, plain)
<1>1. n \in Nat
  OBVIOUS
<1>2. us = [i \in 1..n |-> f(i)]
  BY DEF Sealed
<1>3. ASSUME NEW i \in 1..n
      PROVE  /\ f(i) \in InUnits /\ f(i).seq = seq /\ f(i).plain = plain[i]
             /\ f(i).place = i /\ f(i).of = n
  <2>1. i \in Nat /\ plain[i] \in PageUnits \cup Vouchers
    OBVIOUS
  <2> DEFINE x == plain[i]
  <2> HIDE DEF x, n
  <2>2. x \in PageUnits \cup Vouchers
    BY <2>1 DEF x
  <2> DEFINE e == [u |-> "sealed", key |-> k, seq |-> seq, plain |-> x, place |-> i, of |-> n]
  <2>3. e \in InUnits /\ e.seq = seq /\ e.plain = x /\ e.place = i /\ e.of = n
    BY <1>1, <2>1, <2>2 DEF InUnits
  <2> QED BY <2>3 DEF x
<1>4. \A i \in 1..n : us[i] = f(i)
  BY <1>2
<1>5. us \in Seq(InUnits) /\ Len(us) = n
  <2>1. \A i \in 1..n : f(i) \in InUnits
    BY <1>3
  <2> HIDE DEF n, f, us
  <2> QED BY <1>1, <1>2, <2>1
<1> HIDE DEF f, us, n
<1>6. \A i \in 1..n : us[i].seq = seq /\ us[i].plain = plain[i] /\ us[i].place = i /\ us[i].of = n
  BY <1>3, <1>4
<1> QED BY <1>5, <1>6 DEF us, n

(* What a server answers: the voucher only to the right Finished message,  *)
(* and nothing but its own connection's page.                              *)
LEMMA ReplyType ==
  ASSUME NEW k \in Int, NEW unit \in OutUnits, NEW us \in Reply(k, unit)
  PROVE  /\ us \in Seq(InUnits) /\ Len(us) \in 0..PageLen + 16
         /\ HasVoucher(us) => unit.u = "finished" /\ unit.over = Exchanged
         /\ Own(us, k)
<1>0. PageLen \in Nat
  BY PageAssumption
<1>m. ASSUME NEW n \in 0..PageLen + 16, Mute(us, n)
      PROVE  /\ us \in Seq(InUnits) /\ Len(us) \in 0..PageLen + 16
             /\ HasVoucher(us) => unit.u = "finished" /\ unit.over = Exchanged
             /\ Own(us, k)
  BY <1>m, MuteOwn
<1>1. unit.u \in {"get", "CH", "CKE", "finished", "sealed get"}
  BY DEF OutUnits
<1>2. CASE unit.u = "get"
  <2>1. us = Page(k)
    BY <1>2 DEF Reply
  <2>2. Mute(us, PageLen) /\ PageLen \in 0..PageLen + 16
    BY <1>0, <2>1, PageType
  <2> QED BY <2>2, <1>m
<1>3. CASE unit.u = "CH"
  <2>1. PICK layout \in Layouts : us = Flight(k, layout)
    BY <1>3 DEF Reply
  <2>2. Mute(us, 10) \/ Mute(us, 16)
    BY <2>1, FlightType
  <2>3. 10 \in 0..PageLen + 16 /\ 16 \in 0..PageLen + 16
    BY <1>0
  <2> QED BY <2>2, <2>3, <1>m
<1>a. ASSUME us = Alert
      PROVE  /\ us \in Seq(InUnits) /\ Len(us) \in 0..PageLen + 16
             /\ HasVoucher(us) => unit.u = "finished" /\ unit.over = Exchanged
             /\ Own(us, k)
  <2>1. Mute(us, 3) /\ 3 \in 0..PageLen + 16
    BY <1>0, <1>a, AlertType
  <2> QED BY <2>1, <1>m
<1>4. CASE unit.u = "finished" /\ unit.key = k /\ unit.over = Exchanged
  <2> DEFINE e == [u |-> "body", msg |-> "ccs"]
             o == Append(Exchanged, "Finished")
             v == [msg |-> "ServerFinished", over |-> o]
             w == <<v>>
             b == <<e>>
             c == Sealed(k, 0, w)
             p == Record("ccs", b)
             q == Record("handshake", c)
  <2>1. us = p \o q
    BY <1>4 DEF Reply
  <2>2. e \in InUnits
    BY DEF InUnits, Msgs
  <2>3. o \in Seq(Msgs)
    <3>1. Exchanged \in Seq(Msgs) /\ "Finished" \in Msgs
      BY DEF Exchanged, Msgs
    <3> QED BY <3>1, AppendType
  <2> HIDE DEF o
  <2>4. v \in Vouchers
    BY <2>3 DEF Vouchers
  <2> HIDE DEF v, e
  <2>5. w \in Seq(PageUnits \cup Vouchers) /\ Len(w) = 1
    BY <2>4
  <2> HIDE DEF w
  <2>6. /\ c \in Seq(InUnits) /\ Len(c) = 1
        /\ \A i \in 1..Len(c) : c[i].seq = 0
    BY <2>5, SealedType
  <2>7. b \in Seq(InUnits) /\ Len(b) = 1 /\ Mute(b, 1)
    BY <2>2 DEF Mute, e
  <2> HIDE DEF b, c
  <2>8. /\ p \in Seq(InUnits) /\ Len(p) = 3 /\ Own(p, k)
    <3>1. Mute(p, 3)
      <4>1. Mute(p, 1 + 2)
        BY <2>7, RecordMute
      <4> QED BY <4>1
    <3> HIDE DEF p
    <3> QED BY <3>1, MuteOwn
  <2>9. /\ q \in Seq(InUnits) /\ Len(q) = 3 /\ Own(q, k)
    <3>1. Own(c, k)
      BY <2>6 DEF Own
    <3>2. q \in Seq(InUnits) /\ Len(q) = Len(c) + 2 /\ Own(q, k)
      BY <2>6, <3>1, RecordType
    <3> QED BY <2>6, <3>2
  <2> HIDE DEF p, q
  <2>10. p \o q \in Seq(InUnits) /\ Len(p \o q) = Len(p) + Len(q) /\ Own(p \o q, k)
    BY <2>8, <2>9, ConcatType
  <2> QED BY <1>0, <1>4, <2>1, <2>8, <2>9, <2>10
<1>5. CASE unit.u = "finished" /\ ~(unit.key = k /\ unit.over = Exchanged)
  <2>1. us = Alert
    BY <1>5 DEF Reply
  <2> QED BY <2>1, <1>a
<1>6. CASE unit.u = "sealed get" /\ unit.key = k
  <2> DEFINE b == Sealed(k, 1, Page(k))
  <2>1. us = Record("data", b)
    BY <1>6 DEF Reply
  <2>2. Page(k) \in Seq(PageUnits \cup Vouchers) /\ Len(Page(k)) = PageLen
    <3>1. \A i \in 1..PageLen : Page(k)[i] \in PageUnits \cup Vouchers
      BY PageType
    <3>2. Page(k) = [i \in 1..PageLen |-> Page(k)[i]]
      BY DEF Page
    <3> QED BY <1>0, <3>1, <3>2
  <2>3. /\ b \in Seq(InUnits) /\ Len(b) = PageLen
        /\ \A i \in 1..PageLen : /\ b[i].seq = 1 /\ b[i].plain = Page(k)[i]
                                 /\ b[i].place = i /\ b[i].of = PageLen
    <3> DEFINE page == Page(k)
    <3>1. page \in Seq(PageUnits \cup Vouchers) /\ Len(page) = PageLen /\ 1 \in Nat
      BY <2>2
    <3> HIDE DEF page
    <3>2. /\ Sealed(k, 1, page) \in Seq(InUnits) /\ Len(Sealed(k, 1, page)) = PageLen
          /\ \A i \in 1..PageLen :
                LET x == Sealed(k, 1, page)[i]
                IN x.seq = 1 /\ x.plain = page[i] /\ x.place = i /\ x.of = PageLen
      BY <3>1, SealedType
    <3> QED BY <3>2 DEF page
  <2> HIDE DEF b
  <2>4. ~HasVoucher(b) /\ Own(b, k)
    BY <2>3 DEF HasVoucher, Own
  <2>5. us \in Seq(InUnits) /\ Len(us) = PageLen + 2 /\ ~HasVoucher(us) /\ Own(us, k)
    BY <2>1, <2>3, <2>4, RecordType
  <2>6. PageLen + 2 \in 0..PageLen + 16
    BY <1>0
  <2> QED BY <2>5, <2>6
<1>7. CASE unit.u = "sealed get" /\ unit.key # k
  <2>1. us = Alert
    BY <1>7 DEF Reply
  <2> QED BY <2>1, <1>a
<1>8. CASE unit.u = "CKE"
  <2>1. us = <<>>
    BY <1>8 DEF Reply
  <2>2. Mute(us, 0) /\ 0 \in 0..PageLen + 16
    BY <1>0, <2>1, EmptyType DEF Mute
  <2> QED BY <2>2, <1>m
<1> QED BY <1>1, <1>2, <1>3, <1>4, <1>5, <1>6, <1>7, <1>8

(* The segments a stream is cut into carry parts of it. *)
LEMMA PiecesType ==
  ASSUME NEW us \in Seq(InUnits), NEW cuts \in Seq(1..Len(us) - 1), NEW i \in 1..Len(cuts) + 1
  PROVE  /\ Pieces(us, cuts)[i].at \in Nat
         /\ Pieces(us, cuts)[i].data \in Seq(InUnits)
         /\ HasVoucher(Pieces(us, cuts)[i].data) => HasVoucher(us)
         /\ \A k : Own(us, k) => Own(Pieces(us, cuts)[i].data, k)
<1> DEFINE n == Len(us)
           place == <<0>> \o cuts \o <<n>>
<1>1. n \in Nat /\ Len(cuts) \in Nat
  OBVIOUS
<1>2. /\ Len(place) = Len(cuts) + 2
      /\ \A j \in 1..Len(cuts) + 2 : place[j] \in 0..n
  <2>1. \A j \in 1..Len(cuts) : cuts[j] \in 1..n - 1
    OBVIOUS
  <2> DEFINE a == <<0>> \o cuts
  <2>2. Len(a) = Len(cuts) + 1 /\ \A j \in 1..Len(cuts) + 1 : a[j] \in 0..n
    BY <1>1, <2>1
  <2>3. a \in Seq(0..n) /\ <<n>> \in Seq(0..n)
    BY <1>1, <2>1
  <2> HIDE DEF a
  <2>4. Len(a \o <<n>>) = Len(cuts) + 2
    BY <1>1, <2>2, <2>3
  <2>5. \A j \in 1..Len(cuts) + 2 : (a \o <<n>>)[j] \in 0..n
    BY <1>1, <2>2, <2>3, <2>4
  <2> QED BY <2>4, <2>5 DEF a
<1>3. Pieces(us, cuts)[i] = [at |-> place[i], data |-> SubSeq(us, place[i] + 1, place[i + 1])]
  BY DEF Pieces
<1>4. place[i] \in 0..n /\ place[i + 1] \in 0..n
  BY <1>1, <1>2
<1> HIDE DEF place
<1> DEFINE x == place[i]
           y == place[i + 1]
<1> HIDE DEF x, y
<1>5. x \in 0..n /\ y \in 0..n /\ Pieces(us, cuts)[i] = [at |-> x, data |-> SubSeq(us, x + 1, y)]
  BY <1>3, <1>4 DEF x, y
<1>6. x + 1 \in Nat \ {0} /\ y \in Int /\ y <= Len(us)
  BY <1>1, <1>5
<1>7. /\ SubSeq(us, x + 1, y) \in Seq(InUnits)
      /\ HasVoucher(SubSeq(us, x + 1, y)) => HasVoucher(us)
      /\ \A k : Own(us, k) => Own(SubSeq(us, x + 1, y), k)
  BY <1>6, SubVoucher
<1> QED BY <1>1, <1>5, <1>7

(* What is known of a server's connection. *)
LEMMA PeerFields ==
  ASSUME NEW ps, NEW n \in Nat, PeersOK(ps, n), NEW k \in DOMAIN ps
  PROVE  /\ k \in Nat /\ k < n /\ ps[k] \in Peers /\ ps[k].isn = k /\ ServerOK(ps[k])
         /\ ps[k].ip \in Addresses /\ ps[k].port \in Nat /\ ps[k].got \in Seq(OutUnits)
         /\ ps[k].next \in Int /\ ps[k].sent \in SUBSET Segments
         /\ \A f \in ps[k].sent : FrameOK(ps, f)
<1>1. k \in 0..n - 1
  BY DEF PeersOK
<1>2. ps[k] \in Peers /\ ps[k].isn = k /\ ServerOK(ps[k]) /\ \A f \in ps[k].sent : FrameOK(ps, f)
  BY DEF PeersOK
<1> QED BY <1>1, <1>2 DEF Peers

(* Nothing is lost where nothing changes. *)
LEMMA GrownSame ==
  ASSUME NEW ps, NEW n \in Nat, PeersOK(ps, n)
  PROVE  Grown(ps, ps)
<1>1. ASSUME NEW k \in DOMAIN ps PROVE Len(ps[k].got) \in Nat
  <2>1. ps[k].got \in Seq(OutUnits)
    BY PeerFields
  <2> QED BY <2>1
<1> QED BY <1>1 DEF Grown

(* A connection that goes on. *)
Continues(ps, k, q) ==
    k \in DOMAIN ps => /\ q.port = ps[k].port
                       /\ Len(ps[k].got) <= Len(q.got)
                       /\ Accepted(ps, k) => Len(q.got) >= 3 /\ q.got[3].over = Exchanged
                       /\ ps[k].got # <<>> => q.got # <<>>

(* A peer that continues its connection makes the peers grow. *)
LEMMA GrownWith ==
  ASSUME NEW ps, NEW n \in Nat, PeersOK(ps, n), NEW k, NEW q \in Peers, Continues(ps, k, q)
  PROVE  Grown(ps, WithPeer(ps, k, q))
<1> DEFINE qs == WithPeer(ps, k, q)
<1>1. DOMAIN qs = DOMAIN ps \cup {k}
  BY DEF WithPeer
<1>2. qs[k] = q /\ \A x \in DOMAIN ps : x # k => qs[x] = ps[x]
  BY DEF WithPeer
<1> HIDE DEF qs
<1>3. q.got \in Seq(OutUnits)
  BY DEF Peers
<1>4. ASSUME NEW x \in DOMAIN ps
      PROVE  /\ qs[x].port = ps[x].port
             /\ Len(ps[x].got) \in Nat /\ Len(qs[x].got) \in Nat
             /\ Len(ps[x].got) <= Len(qs[x].got)
             /\ Accepted(ps, x) => Accepted(qs, x)
             /\ ps[x].got # <<>> => qs[x].got # <<>>
  <2>1. ps[x].got \in Seq(OutUnits)
    BY PeerFields
  <2>2. CASE x = k
    BY <1>1, <1>2, <1>3, <2>1, <2>2 DEF Continues, Accepted
  <2>3. CASE x # k
    BY <1>1, <1>2, <2>1, <2>3 DEF Accepted
  <2> QED BY <2>2, <2>3
<1>5. Grown(ps, qs)
  BY <1>1, <1>4 DEF Grown
<1> QED BY <1>5 DEF qs

(* The peers stay sound when one of them goes on soundly. *)
LEMMA PeersWith ==
  ASSUME NEW ps, NEW n \in Nat, PeersOK(ps, n), NEW k \in 0..n - 1, NEW q \in Peers,
         Continues(ps, k, q), q.isn = k, ServerOK(q),
         \A f \in q.sent : FrameOK(WithPeer(ps, k, q), f)
  PROVE  PeersOK(WithPeer(ps, k, q), n)
<1> DEFINE qs == WithPeer(ps, k, q)
<1>1. DOMAIN qs = DOMAIN ps \cup {k}
  BY DEF WithPeer
<1>2. qs[k] = q /\ \A x \in DOMAIN ps : x # k => qs[x] = ps[x]
  BY DEF WithPeer
<1>3. qs = [x \in DOMAIN qs |-> qs[x]]
  BY DEF WithPeer
<1>4. Grown(ps, qs)
  BY GrownWith
<1>5. \A f \in q.sent : FrameOK(qs, f)
  OBVIOUS
<1> HIDE DEF qs
<1>6. ASSUME NEW x \in DOMAIN qs
      PROVE  /\ qs[x] \in Peers /\ qs[x].isn = x /\ ServerOK(qs[x])
             /\ \A f \in qs[x].sent : FrameOK(qs, f)
  <2>1. CASE x = k
    BY <1>2, <1>5, <2>1
  <2>2. CASE x # k
    <3>1. x \in DOMAIN ps /\ qs[x] = ps[x]
      BY <1>1, <1>2, <2>2
    <3>2. /\ ps[x] \in Peers /\ ps[x].isn = x /\ ServerOK(ps[x])
          /\ ps[x].sent \in SUBSET Segments /\ \A f \in ps[x].sent : FrameOK(ps, f)
      BY <3>1, PeerFields
    <3>3. \A f \in ps[x].sent : FrameOK(qs, f)
      <4> TAKE f \in ps[x].sent
      <4>1. f \in InFrames /\ FrameOK(ps, f)
        BY <3>2 DEF InFrames
      <4> QED BY <1>4, <4>1, GrownFrame
    <3> QED BY <3>1, <3>2, <3>3
  <2> QED BY <2>1, <2>2
<1>7. DOMAIN qs \subseteq 0..n - 1
  BY <1>1 DEF PeersOK
<1>8. qs \in [DOMAIN qs -> Peers]
  BY <1>3, <1>6
<1>9. PeersOK(qs, n)
  BY <1>6, <1>7, <1>8 DEF PeersOK
<1> QED BY <1>9 DEF qs

(* What may come back for a frame, and what the servers then know. *)
ReactionOK(ps, n, r) ==
    /\ PeersOK(r.peers, n) /\ Grown(ps, r.peers) /\ r.frames \in Seq(InFrames)
    /\ \A i \in 1..Len(r.frames) : FrameOK(r.peers, r.frames[i])

(* Silence is a sound reaction. *)
LEMMA QuietOK ==
  ASSUME NEW ps, NEW n \in Nat, PeersOK(ps, n), NEW c
  PROVE  ReactionOK(ps, n, [peers |-> ps, frames |-> <<>>, cut |-> c])
<1>1. <<>> \in Seq(InFrames) /\ Len(<<>>) = 0
  OBVIOUS
<1> QED BY <1>1, GrownSame DEF ReactionOK

(* So is a single sound frame. *)
LEMMA SingleOK ==
  ASSUME NEW ps, NEW n \in Nat, NEW qs, PeersOK(qs, n), Grown(ps, qs),
         NEW f \in InFrames, FrameOK(qs, f), NEW c
  PROVE  ReactionOK(ps, n, [peers |-> qs, frames |-> <<f>>, cut |-> c])
<1>1. <<f>> \in Seq(InFrames) /\ Len(<<f>>) = 1 /\ <<f>>[1] = f
  OBVIOUS
<1> QED BY <1>1 DEF ReactionOK

(* So is accepting a SYN. *)
LEMMA AcceptOK ==
  ASSUME NEW ps, NEW n \in Nat, PeersOK(ps, n),
         NEW f \in [type : {"syn"}, ip : Addresses, port : Nat, local : Nat, seq : Nat],
         SendOK(ps, n, f)
  PROVE  ReactionOK(ps, n, Accept(ps, f))
<1> DEFINE k == f.local
           new == [ip |-> f.ip, port |-> f.port, isn |-> f.seq, got |-> <<>>, next |-> 1,
                   sent |-> {}]
           p == IF k \in DOMAIN ps THEN ps[k] ELSE new
           b == [p EXCEPT !.got = <<>>]
           s == Segment(b, k, TRUE, 0, <<>>)
           qs == WithPeer(ps, k, p)
<1>0. f.type = "syn" /\ f.local \in Nat /\ f.seq \in Nat
  OBVIOUS
<1>1. k \in 0..n - 1 /\ f.seq = k
  BY <1>0 DEF SendOK
<1>2. /\ new \in Peers /\ new.isn = k /\ new.got = <<>> /\ new.sent = {}
  BY <1>1, EmptyType DEF Peers
<1>3. ServerOK(new)
  <2>1. Order(new.port) \in {<<>>, <<"get">>, <<"CH", "CKE", "finished", "sealed get">>}
    BY DEF Order
  <2>2. Len(Order(new.port)) \in Nat
    BY <2>1
  <2> HIDE DEF new
  <2> QED BY <1>2, <2>2, EmptyType DEF ServerOK
<1>4. Accept(ps, f) = [peers |-> qs, frames |-> <<s>>, cut |-> {}]
  BY DEF Accept
<1> HIDE DEF new
<1>5. p \in Peers /\ p.isn = k /\ ServerOK(p)
  BY <1>2, <1>3, PeerFields
<1>6. Continues(ps, k, p)
  <2>1. ASSUME k \in DOMAIN ps PROVE p = ps[k] /\ ps[k].got \in Seq(OutUnits)
    BY <2>1, PeerFields
  <2> HIDE DEF p, k
  <2> QED BY <2>1 DEF Continues, Accepted
<1>7. Grown(ps, qs)
  <2> HIDE DEF p, k
  <2> QED BY <1>5, <1>6, GrownWith
<1>8. \A x \in p.sent : FrameOK(qs, x)
  <2>1. CASE k \in DOMAIN ps
    <3>1. p.sent \in SUBSET Segments /\ \A x \in p.sent : FrameOK(ps, x)
      BY <2>1, PeerFields
    <3> HIDE DEF qs, p
    <3> QED BY <1>7, <3>1, GrownFrame DEF InFrames
  <2>2. CASE k \notin DOMAIN ps
    BY <1>2, <2>2
  <2> QED BY <2>1, <2>2
<1>9. qs[k] = p /\ k \in DOMAIN qs
  BY DEF WithPeer
<1>10. p.port \in Nat /\ p.isn \in Nat /\ p.got \in Seq(OutUnits)
  <2> HIDE DEF p
  <2> QED BY <1>5 DEF Peers
<1>11. b \in Peers /\ b.port = p.port /\ b.isn = p.isn /\ b.got = <<>>
  <2> HIDE DEF p
  <2> QED BY <1>5, EmptyType DEF Peers
<1>12. PeersOK(qs, n)
  <2> HIDE DEF p, k
  <2> QED BY <1>1, <1>5, <1>6, <1>8, PeersWith
<1> HIDE DEF qs, p, b
<1>13. k \in Nat
  OBVIOUS
<1>14. /\ s \in Segments /\ s.type = "tcp" /\ s.to = k /\ s.port = b.port
       /\ s.ack = b.isn + 1 + Len(b.got) /\ s.data = <<>>
  <2>1. s = [type |-> "tcp", from |-> b.ip, port |-> b.port, to |-> k, syn |-> TRUE,
             seq |-> 0, ack |-> b.isn + 1 + Len(b.got), data |-> <<>>]
    BY DEF Segment
  <2>2. b.ip \in Addresses /\ b.port \in Nat /\ b.isn + 1 + Len(b.got) \in Int
    BY <1>11 DEF Peers
  <2> HIDE DEF k, s
  <2> QED BY <1>13, <2>1, <2>2, EmptyType DEF Segments
<1> HIDE DEF s, k
<1>15. FrameOK(qs, s)
  <2>1. s.ack = k + 1 /\ Len(qs[k].got) \in Nat
    BY <1>5, <1>9, <1>10, <1>11, <1>13, <1>14, EmptyType
  <2>2. ~HasVoucher(s.data) /\ Own(s.data, k)
    BY <1>14, EmptyType DEF HasVoucher, Own
  <2> QED BY <1>9, <1>11, <1>13, <1>14, <2>1, <2>2 DEF FrameOK
<1>16. s \in InFrames
  BY <1>14 DEF InFrames
<1> QED BY <1>4, <1>7, <1>12, <1>15, <1>16, SingleOK

(* The order in which a client's units are due. *)
LEMMA OrderFacts ==
  ASSUME NEW port
  PROVE  /\ Len(Order(port)) \in 0..4
         /\ \A i \in 1..Len(Order(port)) : Order(port)[i] = "finished" => i = 3
         /\ Len(Order(port)) = 4 => Order(port)[4] = "sealed get"
<1>1. CASE port = HTTP
  <2>1. Order(port) = <<"get">>
    BY <1>1 DEF Order, HTTP, TLS
  <2> QED BY <2>1
<1>2. CASE port = TLS
  <2>1. port # HTTP
    BY <1>2 DEF HTTP, TLS
  <2> DEFINE o == <<"CH", "CKE", "finished", "sealed get">>
             e == <<"get">>
  <2>2. /\ Len(o) = 4 /\ o[1] = "CH" /\ o[2] = "CKE" /\ o[3] = "finished"
        /\ o[4] = "sealed get"
    OBVIOUS
  <2>3. Order(port) = CASE port = HTTP -> e [] port = TLS -> o [] OTHER -> <<>>
    BY DEF Order
  <2> HIDE DEF o, e
  <2>4. Order(port) = o
    BY <1>2, <2>1, <2>3
  <2>5. ASSUME NEW i \in 1..4, o[i] = "finished" PROVE i = 3
    <3>1. i = 1 \/ i = 2 \/ i = 3 \/ i = 4
      OBVIOUS
    <3>2. o[1] # "finished" /\ o[2] # "finished" /\ o[4] # "finished"
      BY <2>2
    <3> QED BY <2>5, <3>1, <3>2
  <2>6. Len(Order(port)) = 4 /\ Order(port)[4] = "sealed get"
    BY <2>2, <2>4
  <2>7. \A i \in 1..4 : Order(port)[i] = "finished" => i = 3
    BY <2>4, <2>5
  <2>8. 4 \in 0..4
    OBVIOUS
  <2> QED BY <2>6, <2>7, <2>8, Zenon
<1>3. CASE port \notin {HTTP, TLS}
  <2>1. Order(port) = <<>>
    BY <1>3 DEF Order
  <2> QED BY <2>1
<1> QED BY <1>1, <1>2, <1>3

(* A server that has got the next unit of its protocol. *)
InOrder(ps, f) == f.seq = ps[f.local].isn + 1 + Len(ps[f.local].got)
Got(ps, f) == [ps[f.local] EXCEPT !.got = Append(@, f.data)]

(* A peer that takes the next unit in order stays sound. *)
LEMMA GotOK ==
  ASSUME NEW ps, NEW n \in Nat, PeersOK(ps, n),
         NEW f \in [type : {"data"}, local : Nat, seq : Int, data : OutUnits],
         SendOK(ps, n, f), InOrder(ps, f), NEW q \in Peers, q = Got(ps, f)
  PROVE  /\ ServerOK(q) /\ Continues(ps, f.local, q)
         /\ q.port = ps[f.local].port /\ q.isn = f.local /\ q.sent = ps[f.local].sent
         /\ q.got = Append(ps[f.local].got, f.data)
         /\ f.data.u = "finished" => Len(q.got) = 3 /\ q.got[3] = f.data
<1> DEFINE k == f.local
           p == ps[k]
           o == Order(p.port)
           i == Len(p.got) + 1
<1>0. f.type = "data" /\ f.local \in Nat /\ f.seq \in Int /\ f.data \in OutUnits
  OBVIOUS
<1>1. /\ k \in DOMAIN ps /\ f.seq - k \in 1..Len(o) /\ f.data.u = o[f.seq - k]
      /\ f.data.u = "sealed get" => Accepted(ps, k)
  BY <1>0 DEF SendOK
<1>2. /\ p \in Peers /\ p.isn = k /\ ServerOK(p) /\ p.got \in Seq(OutUnits) /\ k \in Nat
  BY <1>1, PeerFields
<1>3. f.seq = p.isn + 1 + Len(p.got)
  BY DEF InOrder
<1>4. /\ q.port = p.port /\ q.isn = k /\ q.sent = p.sent /\ q.got = Append(p.got, f.data)
  <2>1. q = [p EXCEPT !.got = Append(p.got, f.data)]
    BY DEF Got
  <2> HIDE DEF p, k
  <2> QED BY <1>2, <2>1 DEF Peers
<1> HIDE DEF p, k
<1>5. f.seq - k = i /\ i \in Nat
  <2> DEFINE m == Len(p.got)
  <2>1. m \in Nat
    BY <1>2
  <2>2. f.seq = k + 1 + m /\ k \in Nat
    BY <1>2, <1>3
  <2> HIDE DEF m
  <2>3. f.seq - k = m + 1
    BY <2>1, <2>2
  <2> QED BY <2>1, <2>3 DEF m
<1>6. /\ Len(q.got) = i /\ q.got[i] = f.data
      /\ \A j \in 1..Len(p.got) : q.got[j] = p.got[j]
  BY <1>0, <1>2, <1>4
<1>8. i \in 1..Len(o) /\ f.data.u = o[i]
  BY <1>1, <1>5
<1>9. o[i] = "finished" => i = 3
  BY <1>8, OrderFacts
<1>10. i = 4 => o[i] = "sealed get"
  <2>1. Len(o) \in 0..4 /\ (Len(o) = 4 => o[4] = "sealed get")
    BY OrderFacts
  <2> SUFFICES ASSUME i = 4 PROVE o[4] = "sealed get"
    OBVIOUS
  <2> DEFINE m == Len(o)
  <2>2. m \in 0..4 /\ 4 \in 1..m
    BY <1>8, <2>1
  <2> HIDE DEF m
  <2>3. m = 4
    BY <2>2
  <2> QED BY <2>1, <2>3 DEF m
<1>11. Len(q.got) = 4 => q.got[3].over = Exchanged
  <2> SUFFICES ASSUME i = 4 PROVE q.got[3].over = Exchanged
    BY <1>6
  <2>1. Accepted(ps, k)
    BY <1>1, <1>8, <1>10
  <2>2. p.got[3].over = Exchanged /\ Len(p.got) >= 3
    BY <2>1 DEF Accepted, p
  <2>3. Len(p.got) \in Nat
    BY <1>2
  <2> QED BY <1>6, <2>2, <2>3
<1>12. ServerOK(q)
  <2>1. \A j \in 1..Len(p.got) : p.got[j].u = o[j]
    BY <1>2 DEF ServerOK
  <2>2. \A j \in 1..i : j \in 1..Len(p.got) \/ j = i
    BY <1>2
  <2>3. \A j \in 1..i : q.got[j].u = o[j]
    BY <1>6, <1>8, <2>1, <2>2
  <2>4. i <= Len(o)
    BY <1>8
  <2> QED BY <1>4, <1>6, <1>11, <2>3, <2>4 DEF ServerOK
<1>13. Continues(ps, k, q)
  <2>1. Len(p.got) <= Len(q.got) /\ Len(p.got) \in Nat
    BY <1>2, <1>6
  <2>2. Accepted(ps, k) => Len(q.got) >= 3 /\ q.got[3].over = Exchanged
    BY <1>6, <2>1 DEF Accepted, p
  <2>3. q.got # <<>>
    <3>1. Len(q.got) # 0
      BY <1>6, <2>1
    <3> QED BY <3>1, EmptyType
  <2> QED BY <1>4, <2>1, <2>2, <2>3 DEF Continues, p
<1> QED BY <1>4, <1>6, <1>8, <1>9, <1>12, <1>13 DEF k, p

(* What a server sends when it has got a unit. *)
Served(ps, k, q, units, cuts) ==
    LET out == [i \in 1..Len(cuts) + 1 |->
                   LET piece == Pieces(units, cuts)[i]
                   IN Segment(q, k, FALSE, q.next + piece.at, piece.data)]
    IN [peers |-> WithPeer(ps, k,
                      [q EXCEPT !.next = @ + Len(units),
                                !.sent = @ \cup {x \in Range(out) : x.data # <<>>}]),
        frames |-> out,
        cut |-> {<<units, c>> : c \in Range(cuts)}]

(* Serving a stream in any pieces is sound, if a server's Finished in it   *)
(* answers the client's.                                                   *)
LEMMA ServedOK ==
  ASSUME NEW ps, NEW n \in Nat, PeersOK(ps, n), NEW k \in 0..n - 1, NEW q \in Peers,
         ServerOK(q), Continues(ps, k, q), q.isn = k, \A f \in q.sent : FrameOK(ps, f),
         NEW units \in Seq(InUnits), NEW cuts \in Seq(1..Len(units) - 1),
         HasVoucher(units) => Len(q.got) >= 3 /\ q.got[3].over = Exchanged, Own(units, k)
  PROVE  ReactionOK(ps, n, Served(ps, k, q, units, cuts))
<1> DEFINE m == Len(cuts) + 1
           out == [i \in 1..m |->
                     LET piece == Pieces(units, cuts)[i]
                     IN Segment(q, k, FALSE, q.next + piece.at, piece.data)]
           next == q.next + Len(units)
           sent == q.sent \cup {x \in Range(out) : x.data # <<>>}
           z  == [q EXCEPT !.next = next, !.sent = sent]
           qs == WithPeer(ps, k, z)
           cut == {<<units, c>> : c \in Range(cuts)}
<1>1. Served(ps, k, q, units, cuts) = [peers |-> qs, frames |-> out, cut |-> cut]
  BY DEF Served
<1>2. m \in Nat /\ k \in Nat
  OBVIOUS
<1>3. /\ q.ip \in Addresses /\ q.port \in Nat /\ q.got \in Seq(OutUnits) /\ q.next \in Int
      /\ q.sent \in SUBSET Segments
  BY DEF Peers
<1>4. ASSUME NEW i \in 1..m
      PROVE  /\ out[i] \in Segments /\ out[i].to = k /\ out[i].port = q.port
             /\ out[i].ack = k + 1 + Len(q.got)
             /\ HasVoucher(out[i].data) => HasVoucher(units)
             /\ Own(out[i].data, k)
  <2> DEFINE at == Pieces(units, cuts)[i].at
             data == Pieces(units, cuts)[i].data
             a == q.isn + 1 + Len(q.got)
             b == q.next + at
  <2>1. /\ at \in Nat /\ data \in Seq(InUnits) /\ (HasVoucher(data) => HasVoucher(units))
        /\ Own(data, k)
    BY PiecesType
  <2>2. out[i] = [type |-> "tcp", from |-> q.ip, port |-> q.port, to |-> k, syn |-> FALSE,
                  seq |-> b, ack |-> a, data |-> data]
    BY DEF Segment
  <2>3. a \in Int /\ a = k + 1 + Len(q.got) /\ b \in Int
    BY <1>2, <1>3, <2>1
  <2> HIDE DEF at, data, a, b, out
  <2> QED BY <1>2, <1>3, <2>1, <2>2, <2>3 DEF Segments
<1>5. out \in Seq(Segments) /\ Len(out) = m /\ Range(out) \subseteq Segments
  <2>1. out = [i \in 1..m |-> out[i]]
    OBVIOUS
  <2>2. DOMAIN out = 1..m
    OBVIOUS
  <2>0. \A i \in 1..m : out[i] \in Segments
    BY <1>4
  <2> HIDE DEF out, m
  <2>3. out \in Seq(Segments) /\ Len(out) = m
    BY <1>2, <2>0, <2>1
  <2> QED BY <1>4, <2>2, <2>3 DEF Range
<1>6. \A x \in Range(out) : \E i \in 1..m : x = out[i]
  <2>1. DOMAIN out = 1..m
    OBVIOUS
  <2> HIDE DEF out
  <2> QED BY <2>1 DEF Range
<1> HIDE DEF out, m
<1>7. /\ z \in Peers /\ z.port = q.port /\ z.isn = q.isn /\ z.got = q.got /\ z.sent = sent
  <2>1. sent \in SUBSET Segments
    BY <1>3, <1>5
  <2>2. next \in Int
    BY <1>3
  <2> HIDE DEF sent, next
  <2> QED BY <1>3, <2>1, <2>2 DEF Peers
<1>8. ServerOK(z)
  BY <1>7 DEF ServerOK
<1>9. Continues(ps, k, z)
  BY <1>7 DEF Continues
<1>10. qs[k] = z /\ k \in DOMAIN qs
  BY DEF WithPeer
<1>11. Grown(ps, qs)
  <2> HIDE DEF z
  <2> QED BY <1>7, <1>9, GrownWith
<1> HIDE DEF z
<1>12. ASSUME NEW i \in 1..m PROVE FrameOK(qs, out[i])
  <2>1. Accepted(qs, k) <=> Len(q.got) >= 3 /\ q.got[3].over = Exchanged
    BY <1>7, <1>10 DEF Accepted
  <2>2. out[i].ack <= k + 1 + Len(q.got)
    <3>1. k + 1 + Len(q.got) \in Int
      BY <1>2, <1>3
    <3>2. out[i].ack = k + 1 + Len(q.got)
      BY <1>4
    <3> QED BY <3>1, <3>2
  <2> HIDE DEF qs
  <2> QED BY <1>4, <1>7, <1>10, <2>1, <2>2 DEF FrameOK
<1>13. \A x \in z.sent : FrameOK(qs, x)
  <2> TAKE x \in z.sent
  <2>1. CASE x \in q.sent
    <3>1. x \in InFrames /\ FrameOK(ps, x)
      BY <1>3, <2>1 DEF InFrames
    <3> HIDE DEF qs
    <3> QED BY <1>11, <3>1, GrownFrame
  <2>2. CASE x \in Range(out)
    <3> HIDE DEF qs
    <3> QED BY <1>6, <1>12, <2>2
  <2> QED BY <1>7, <2>1, <2>2
<1>14. PeersOK(qs, n)
  BY <1>7, <1>8, <1>9, <1>13, PeersWith
<1> HIDE DEF qs, cut
<1>15. out \in Seq(InFrames) /\ Len(out) = m
  <2>1. Segments \subseteq InFrames
    BY DEF InFrames
  <2> QED BY <1>5, <2>1
<1> QED BY <1>1, <1>11, <1>12, <1>14, <1>15 DEF ReactionOK

(* Whatever a server does with a data segment is sound. *)
LEMMA ServeOK ==
  ASSUME NEW ps, NEW n \in Nat, PeersOK(ps, n),
         NEW f \in [type : {"data"}, local : Nat, seq : Int, data : OutUnits],
         SendOK(ps, n, f), NEW r \in Serve(ps, f)
  PROVE  ReactionOK(ps, n, r)
<1> DEFINE k == f.local
           p == ps[k]
           q == [p EXCEPT !.got = Append(@, f.data)]
<1>0. f.type = "data" /\ f.local \in Nat /\ f.seq \in Int /\ f.data \in OutUnits
  OBVIOUS
<1>1. k \in DOMAIN ps
  BY <1>0 DEF SendOK
<1>2. /\ k \in Nat /\ k < n /\ p \in Peers /\ p.isn = k /\ p.sent \in SUBSET Segments
      /\ p.ip \in Addresses /\ p.port \in Nat /\ p.got \in Seq(OutUnits) /\ p.next \in Int
      /\ \A x \in p.sent : FrameOK(ps, x)
  BY <1>1, PeerFields
<1>3. CASE f.seq # p.isn + 1 + Len(p.got)
  <2> DEFINE s == Segment(p, k, FALSE, p.next, <<>>)
             a == p.isn + 1 + Len(p.got)
  <2>1. r = [peers |-> ps, frames |-> <<s>>, cut |-> {}]
    BY <1>1, <1>3 DEF Serve
  <2>2. s = [type |-> "tcp", from |-> p.ip, port |-> p.port, to |-> k, syn |-> FALSE,
             seq |-> p.next, ack |-> a, data |-> <<>>]
    BY DEF Segment
  <2>3. a \in Int /\ a = k + 1 + Len(p.got)
    BY <1>2
  <2> HIDE DEF s, a
  <2>4. s \in InFrames
    <3> HIDE DEF k, p
    <3> QED BY <1>2, <2>2, <2>3, EmptyType DEF Segments, InFrames
  <2>5. FrameOK(ps, s)
    <3>1. ~HasVoucher(s.data) /\ Own(s.data, k)
      BY <2>2, EmptyType DEF HasVoucher, Own
    <3>2. s.to = k /\ s.port = p.port /\ s.ack = k + 1 + Len(p.got)
      BY <2>2, <2>3
    <3>3. s.ack <= k + 1 + Len(p.got)
      BY <1>2, <3>2
    <3> QED BY <1>1, <3>1, <3>2, <3>3 DEF FrameOK
  <2> QED BY <2>1, <2>4, <2>5, GrownSame, SingleOK
<1>4. CASE f.seq = p.isn + 1 + Len(p.got)
  <2>0. r \in UNION {{Served(ps, k, q, units, cuts) : cuts \in CutChoices(Len(units))} :
                     units \in Reply(k, f.data)}
    BY <1>1, <1>4, Zenon DEF Serve, Served
  <2>1. PICK units \in Reply(k, f.data) : \E cuts \in CutChoices(Len(units)) :
          r = Served(ps, k, q, units, cuts)
    <3> HIDE DEF k, q
    <3> QED BY <2>0
  <2>2. PICK cuts \in CutChoices(Len(units)) : r = Served(ps, k, q, units, cuts)
    BY <2>1
  <2>3. /\ units \in Seq(InUnits) /\ Len(units) \in 0..PageLen + 16
        /\ HasVoucher(units) => f.data.u = "finished" /\ f.data.over = Exchanged
        /\ Own(units, k)
    BY <1>0, <1>2, ReplyType
  <2>4. cuts \in Seq(1..Len(units) - 1)
    BY <2>3, CutsAssumption
  <2>5. q \in Peers
    <3>1. Append(p.got, f.data) \in Seq(OutUnits)
      BY <1>0, <1>2
    <3> HIDE DEF p, k
    <3> QED BY <1>2, <3>1 DEF Peers
  <2>6. /\ ServerOK(q) /\ Continues(ps, k, q)
        /\ q.port = p.port /\ q.isn = k /\ q.sent = p.sent
        /\ f.data.u = "finished" => Len(q.got) = 3 /\ q.got[3] = f.data
    <3>1. q = Got(ps, f)
      BY DEF Got
    <3>2. InOrder(ps, f)
      BY <1>4 DEF InOrder
    <3> HIDE DEF q
    <3> QED BY <2>5, <3>1, <3>2, GotOK
  <2> HIDE DEF q
  <2>7. HasVoucher(units) => Len(q.got) >= 3 /\ q.got[3].over = Exchanged
    BY <2>3, <2>6
  <2>8. k \in 0..n - 1 /\ \A x \in q.sent : FrameOK(ps, x)
    BY <1>2, <2>6
  <2> HIDE DEF k
  <2>9. ReactionOK(ps, n, Served(ps, k, q, units, cuts))
    BY <2>3, <2>4, <2>5, <2>6, <2>7, <2>8, ServedOK
  <2> QED BY <2>2, <2>9
<1> QED BY <1>3, <1>4

(* Whatever the world does with a frame is sound. *)
LEMMA ReactionsOK ==
  ASSUME NEW ps, NEW n \in Nat, PeersOK(ps, n), NEW f \in OutFrames, SendOK(ps, n, f),
         NEW r \in Reactions(ps, f)
  PROVE  ReactionOK(ps, n, r)
<1>1. f.type \in {"arp", "dns", "syn", "ack", "data"}
  BY DEF OutFrames
<1>2. CASE f.type = "arp"
  <2> DEFINE e == [type |-> "arp"]
  <2>1. r = [peers |-> ps, frames |-> <<e>>, cut |-> {}]
    BY <1>2 DEF Reactions
  <2>2. e \in InFrames /\ FrameOK(ps, e)
    BY DEF InFrames, FrameOK
  <2> HIDE DEF e
  <2> QED BY <2>1, <2>2, GrownSame, SingleOK
<1>3. CASE f.type = "dns"
  <2>1. f.host \in Hosts
    BY <1>3 DEF OutFrames
  <2>2. PICK a \in Answers(f.host) :
          r = [peers |-> ps, cut |-> {},
               frames |-> <<[type |-> "dns", host |-> f.host, ips |-> a]>>]
    BY <1>3 DEF Reactions
  <2> DEFINE e == [type |-> "dns", host |-> f.host, ips |-> a]
  <2>3. a \in Seq(Ips)
    BY <2>1, AnswersAssumption
  <2>4. e \in InFrames /\ FrameOK(ps, e)
    BY <2>1, <2>3 DEF InFrames, FrameOK
  <2>5. r = [peers |-> ps, frames |-> <<e>>, cut |-> {}]
    BY <2>2
  <2> HIDE DEF e
  <2> QED BY <2>4, <2>5, GrownSame, SingleOK
<1>4. CASE f.type = "syn"
  <2>1. f \in [type : {"syn"}, ip : Addresses, port : Nat, local : Nat, seq : Nat]
    BY <1>4 DEF OutFrames
  <2>2. r = Accept(ps, f)
    BY <1>4 DEF Reactions
  <2> QED BY <2>1, <2>2, AcceptOK
<1>5. CASE f.type = "ack"
  <2>1. r = [peers |-> ps, frames |-> <<>>, cut |-> {}]
    BY <1>5 DEF Reactions
  <2> QED BY <2>1, QuietOK
<1>6. CASE f.type = "data"
  <2>1. f \in [type : {"data"}, local : Nat, seq : Int, data : OutUnits]
    BY <1>6 DEF OutFrames
  <2>2. r \in Serve(ps, f)
    BY <1>6 DEF Reactions
  <2> QED BY <2>1, <2>2, ServeOK
<1> QED BY <1>1, <1>2, <1>3, <1>4, <1>5, <1>6
=============================================================================
