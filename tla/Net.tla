-------------------------------- MODULE Net --------------------------------
(***************************************************************************)
(* The network stack of MinervaOS, drivers/net.c over drivers/e1000.c.     *)
(*                                                                         *)
(* There is one thread: a terminal command or the browser calls            *)
(* net_http_get_url, net_https_get_url or net_tcp_connect_dns and waits    *)
(* until it returns.  The call sends a frame, spins on the receive ring,   *)
(* handles what the card stored there, and gives up after a number of      *)
(* spins.  Between calls nobody empties the ring, and nothing remembers    *)
(* which frames belong to a call that is over.                             *)
(*                                                                         *)
(* The card is its two rings as queues: rx, frames stored and not yet      *)
(* taken; tx, frames handed over and not yet on the wire.                  *)
(***************************************************************************)
EXTENDS Internet, SequencesExt

CONSTANTS
    Kinds,       \* calls made: subset of {"http", "https", "tcp"}
    MaxCalls,    \* bound on the number of calls
    RxRing,      \* E1000_RX_DESC_COUNT
    TxRing,      \* E1000_TX_DESC_COUNT
    TxTries,     \* attempts to send a TCP segment
    DnsTries,    \* attempts to resolve a name
    Rounds,      \* rounds over the addresses of a host
    Capture_,    \* NET_HTTP_CAPTURE_SIZE, in units
    Faults,      \* subset of {"loss", "again", "slow", "late", "reorder"}
    MaxFaults    \* bound on the number of faults and of cut payloads in a behaviour

ASSUME RingsAssumption == {RxRing, TxRing} \subseteq Nat \ {0, 1}
ASSUME TriesAssumption == {TxTries, DnsTries, Rounds} \subseteq Nat \ {0}
ASSUME CallsAssumption == Kinds \subseteq {"http", "https", "tcp"} /\ MaxCalls \in Nat
ASSUME SizesAssumption == {Capture_, MaxFaults} \subseteq Nat
ASSUME CaptureAssumption == Capture_ > 0

VARIABLES
    g,       \* g_net, but for the fields of TLS
    tls,     \* the fields of g_net and the statics that TLS uses
    call,    \* the call in progress, and the result of the last one
    nic,     \* the rings of the e1000
    wire,    \* frames on their way to the machine
    peers,   \* the servers' connections
    faults,  \* history: how many faults struck
    harm     \* history: what this call met that it cannot cope with

vars == <<g, tls, call, nic, wire, peers, faults, harm>>
machine == <<g, tls, call>>
world   == <<wire, peers, faults>>

NoCall == [kind |-> "none", host |-> "none", pc |-> "idle", what |-> "none",
           frame |-> [type |-> "none"], left |-> 0, dns_left |-> 0, targets |-> <<>>,
           first |-> 0, end |-> 0, acked |-> FALSE, ok |-> FALSE, back |-> "none", number |-> 0]

Init ==
    /\ g = [mac |-> FALSE, dns_valid |-> FALSE, dns_ips |-> <<>>, dns_last |-> "none",
            target_ip |-> "none", target_port |-> 0, local_port |-> 0, syns |-> 0,
            synack |-> FALSE, last_ack |-> 0, last_seq |-> 0,
            local_next |-> 0, remote_next |-> 0, payload_acked |-> FALSE,
            http_response |-> <<>>, http_valid |-> FALSE]
    /\ tls = NewSession
    /\ call = NoCall
    /\ nic = [rx |-> <<>>, tx |-> <<>>]
    /\ wire = <<>>
    /\ peers = [k \in {} |-> 0]
    /\ faults = 0
    /\ harm = {}

Waits == {"arp_wait", "dns_wait", "syn_wait", "http_wait", "flight_wait",
          "cke_wait", "fin_wait", "app_wait"}

At(pc) == call.pc = pc
NoFrame == [type |-> "none"]
Go(pc) == [call EXCEPT !.pc = pc, !.what = "none", !.frame = NoFrame, !.left = 0, !.back = "none"]
(* What a call leaves; its locals are gone. *)
Return(ok) == [NoCall EXCEPT !.kind = call.kind, !.host = call.host, !.first = call.first,
                             !.number = call.number, !.ok = ok]

-----------------------------------------------------------------------------
(***************************************************************************)
(* Receiving.                                                              *)
(***************************************************************************)
(* net_handle_dns: any answer with the fixed id counts. *)
HandleDns(s, f) ==
    [s EXCEPT !.g.dns_ips = f.ips,
              !.g.dns_last = IF ~s.g.dns_valid /\ f.ips # <<>> THEN f.ips[1] ELSE @,
              !.g.dns_valid = @ \/ f.ips # <<>>]

(* Mutant of HttpCapture: the space left is not looked at. *)
HttpCaptureAll(r, units) ==
    IF units = <<>> THEN r
    ELSE [r EXCEPT !.http_valid = @ \/ units[1].u = "status", !.http_response = @ \o units]

(* net_http_capture_payload: the status line must begin a payload. *)
HttpCapture(r, units) ==
    IF units = <<>> THEN r
    ELSE [r EXCEPT !.http_valid = @ \/ units[1].u = "status",
                   !.http_response =
                       @ \o SubSeq(units, 1, Least(Len(units), Capture_ - Len(@)))]

(* The decrypted part of a TLS payload goes on to the same capture. *)
TlsPayload(s, data) ==
    LET t == Capture(s.t, data)
    IN [g |-> HttpCapture(s.g, t.plain), t |-> [t EXCEPT !.plain = <<>>]]

(* Mutant of ForUs: the local port is not compared. *)
ForUsAnyPort(r, f) == f.from = r.target_ip /\ f.port = r.target_port

ForUs(r, f) == /\ f.port = r.target_port /\ f.to = r.local_port
               /\ f.from = r.target_ip

(* net_handle_tcp: neither sequence nor acknowledgement number is compared. *)
HandleTcp(s, f) ==
    LET seen == [s EXCEPT !.g.last_ack = f.ack, !.g.last_seq = f.seq]
        moved == [seen EXCEPT !.g.remote_next = f.seq + Len(f.data)]
    IN CASE ~ForUs(s.g, f) -> s
         [] ForUs(s.g, f) /\ f.syn -> [seen EXCEPT !.g.synack = TRUE]
         [] ForUs(s.g, f) /\ ~f.syn /\ f.data = <<>> -> seen
         [] OTHER -> IF s.g.target_port = TLS THEN TlsPayload(moved, f.data)
                     ELSE [moved EXCEPT !.g = HttpCapture(@, f.data)]

Handle(s, f) == CASE f.type = "arp" -> [s EXCEPT !.g.mac = TRUE]
                  [] f.type = "dns" -> HandleDns(s, f)
                  [] f.type = "tcp" -> HandleTcp(s, f)

(* net_poll_frames until the ring is empty. *)
Polled(s, frames) ==
    LET after[i \in 0..Len(frames)] == IF i = 0 THEN s ELSE Handle(after[i - 1], frames[i])
    IN after[Len(frames)]

(* Data of a connection of an earlier call is taken. *)
Stale(r, frames) ==
    \E i \in DOMAIN frames : /\ frames[i].type = "tcp" /\ ForUs(r, frames[i])
                             /\ frames[i].data # <<>> /\ frames[i].to < call.first
StaleName(frames) ==
    \E i \in DOMAIN frames : frames[i].type = "dns" /\ frames[i].host # call.host

(* The card's ring is emptied. *)
Emptied == nic.rx # <<>> /\ nic' = [nic EXCEPT !.rx = <<>>]

Take(s) ==
    /\ Emptied
    /\ tls' = s.t
    /\ harm' = harm \cup (IF Stale(g, nic.rx) THEN {"stale"} ELSE {})
                    \cup (IF StaleName(nic.rx) THEN {"name"} ELSE {})
    /\ UNCHANGED <<wire, peers, faults>>

-----------------------------------------------------------------------------
(***************************************************************************)
(* Sending: e1000_send_frame hands the frame to the card and waits for the *)
(* descriptor to be done.  A wait that is given up leaves the frame with   *)
(* the card.  A TCP segment is tried TxTries times, polling in between.    *)
(***************************************************************************)
ArpFrame   == [type |-> "arp"]
DnsFrame   == [type |-> "dns", host |-> call.host]
SynFrame(r) == [type |-> "syn", ip |-> r.target_ip, port |-> r.target_port,
                local |-> r.local_port, seq |-> r.syns]
TcpFrame(type, data) == [type |-> type, local |-> g.local_port, seq |-> g.local_next,
                         data |-> data]
DataFrame(unit) == TcpFrame("data", unit)

Sending(c, what, frame, tries) ==
    [c EXCEPT !.pc = "send", !.what = what, !.frame = frame, !.left = tries]

(* Where a call goes on when a frame could not be sent. *)
AfterFailure ==
    CASE call.what \in {"arp", "dns"} /\ call.targets = <<>> -> Go("query")
      [] call.what \in {"syn", "final", "request"}           -> Go("connect")
      [] call.what = "ack" -> IF call.back = "idle" THEN Return(TRUE) ELSE Go(call.back)
      [] OTHER -> Go("fail")

Retried == IF call.left > 1 THEN [call EXCEPT !.pc = "send", !.left = @ - 1] ELSE AfterFailure

(* The descriptor at the tail is free. *)
HandOver ==
    /\ At("send")
    /\ Len(nic.tx) < TxRing
    /\ nic' = [nic EXCEPT !.tx = Append(@, call.frame)]
    /\ call' = [call EXCEPT !.pc = "tx"]
    /\ UNCHANGED <<g, tls, wire, peers, faults, harm>>

(* It is not: no frame of the ring has been sent since it was filled. *)
HandOverRefused ==
    /\ At("send")
    /\ Len(nic.tx) = TxRing
    /\ call' = Retried
    /\ harm' = harm \cup {"stalled"}
    /\ UNCHANGED <<g, tls, nic, wire, peers, faults>>

(* The wait for the descriptor is given up. *)
TxTimeout ==
    /\ At("tx") /\ nic.tx # <<>>
    /\ \/ "slow" \in Faults /\ faults < MaxFaults /\ faults' = faults + 1
       \/ Len(nic.tx) = TxRing /\ UNCHANGED faults
    /\ call' = Retried
    /\ harm' = harm \cup {"slow"} \cup (IF call.left = 1 THEN {"unsent"} ELSE {})
    /\ UNCHANGED <<g, tls, nic, wire, peers>>

(* Between two attempts to send a segment the ring is polled. *)
RetryPoll ==
    /\ At("send") /\ call.what \notin {"arp", "dns"} /\ call.left < TxTries
    /\ LET s == Polled([g |-> g, t |-> tls], nic.rx) IN Take(s) /\ g' = s.g
    /\ UNCHANGED call

(* The frame is on the wire: e1000_send_frame returns 1. *)
Sent(what) == At("tx") /\ call.what = what /\ nic.tx = <<>>

-----------------------------------------------------------------------------
(***************************************************************************)
(* Waiting: each loop polls until it has what it waits for.                *)
(***************************************************************************)
Over == CASE At("arp_wait")    -> g.mac
          [] At("dns_wait")    -> g.dns_valid
          [] At("syn_wait")    -> g.synack
          [] At("http_wait")   -> g.http_valid
          [] At("flight_wait") -> CertComplete(tls) /\ tls.kex # NoConn
          [] At("cke_wait")    -> call.acked
          [] At("fin_wait")    -> call.acked /\ tls.verified
          [] At("app_wait")    -> call.acked /\ tls.app_decrypt
          [] OTHER             -> FALSE

(* Once the peer has acknowledged the end of what was sent, the payload     *)
(* counts as received.  (Mutant of EndAcked: the acknowledgement of what    *)
(* went before is enough.)                                                  *)
EndAckedShort(r) == call.end > 0 /\ r.last_ack >= call.end - 1
EndAcked(r) == call.end > 0 /\ r.last_ack >= call.end

(* Payload was taken: what the loop now acknowledges. *)
GotPayload == \E i \in DOMAIN nic.rx : /\ nic.rx[i].type = "tcp" /\ ForUs(g, nic.rx[i])
                                      /\ nic.rx[i].data # <<>>
AckFrame(r) == [type |-> "ack", local |-> r.local_port, seq |-> r.local_next]
Acknowledging(c, r, back) ==
    [Sending(c, "ack", AckFrame(r), TxTries) EXCEPT !.back = back]

Polls == call.pc \in Waits /\ ~Over /\ Emptied
Poll ==
    /\ Polls
    /\ LET s == Polled([g |-> g, t |-> tls], nic.rx)
           c == IF EndAcked(s.g) THEN [call EXCEPT !.acked = TRUE] ELSE call
       IN /\ Take(s)
          /\ g' = [s.g EXCEPT !.payload_acked = @ \/ EndAcked(s.g)]
          /\ call' = IF /\ GotPayload
                        /\ \/ call.pc \in {"flight_wait", "fin_wait", "app_wait"}
                           \/ At("http_wait") /\ ~s.g.http_valid
                     THEN Acknowledging(c, s.g, call.pc) ELSE c

AckSent ==
    /\ Sent("ack")
    /\ call' = IF call.back = "idle" THEN Return(TRUE) ELSE Go(call.back)
    /\ UNCHANGED <<g, tls, nic, world, harm>>

(* The spins are used up. *)
NothingUnderWay == wire = <<>> /\ nic.tx = <<>>
GivesUp(pc) ==
    /\ At(pc) /\ ~Over /\ nic.rx = <<>>
    /\ \/ NothingUnderWay /\ UNCHANGED <<faults, harm>>
       \/ /\ "late" \in Faults /\ faults < MaxFaults
          /\ faults' = faults + 1 /\ harm' = harm \cup {"late"}

Ready(pc)  == At(pc) /\ Over /\ UNCHANGED <<faults, harm>>
Leaves(pc) == Ready(pc) \/ GivesUp(pc)

-----------------------------------------------------------------------------
(***************************************************************************)
(* The calls.                                                              *)
(***************************************************************************)
Fresh(c, kind, host) ==
    [NoCall EXCEPT !.kind = kind, !.host = host, !.first = g.syns, !.number = c.number + 1]

Forgotten(r) == [r EXCEPT !.http_response = <<>>, !.http_valid = FALSE,
                          !.payload_acked = FALSE, !.dns_valid = FALSE, !.dns_ips = <<>>]

(* net_http_get_url and net_https_get_url up to the first DNS attempt.  The *)
(* target and the ports of the last connection stay.                        *)
GetUrl(kind, host) ==
    /\ At("idle") /\ call.number < MaxCalls
    /\ g' = Forgotten(g)
    /\ tls' = IF kind = "https" THEN NewSession ELSE tls
    /\ call' = [Fresh(call, kind, host) EXCEPT !.pc = "query", !.dns_left = DnsTries]
    /\ harm' = {}
    /\ UNCHANGED <<nic, wire, peers, faults>>

(* net_tcp_connect_dns *)
ConnectDns ==
    /\ At("idle") /\ call.number < MaxCalls
    /\ call' = [Fresh(call, "tcp", "none") EXCEPT !.pc = "connect", !.targets = <<NameServer>>]
    /\ harm' = {}
    /\ UNCHANGED <<g, tls, nic, wire, peers, faults>>

(* The addresses to try, and the rounds over them. *)
Targets(r) ==
    LET ips == IF r.dns_ips = <<>> THEN <<r.dns_last>> ELSE r.dns_ips
        n   == Len(ips)
    IN IF call.kind = "http" THEN [i \in 1..Rounds * n |-> ips[((i - 1) % n) + 1]] ELSE ips

(* Mutant of Query: the attempts are not counted. *)
QueryForEver ==
    /\ At("query")
    /\ call' = CASE g.dns_valid -> [call EXCEPT !.pc = "connect", !.targets = Targets(g)]
                 [] ~g.dns_valid /\ g.mac -> Go("ask")
                 [] OTHER -> Sending(call, "arp", ArpFrame, 1)
    /\ UNCHANGED <<g, tls, nic, world, harm>>

Query ==
    /\ At("query")
    /\ call' = CASE g.dns_valid -> [call EXCEPT !.pc = "connect", !.targets = Targets(g)]
                 [] ~g.dns_valid /\ call.dns_left = 0 -> Go("fail")
                 [] OTHER -> LET c == [call EXCEPT !.dns_left = @ - 1]
                             IN IF g.mac THEN [c EXCEPT !.pc = "ask"]
                                ELSE Sending(c, "arp", ArpFrame, 1)
    /\ UNCHANGED <<g, tls, nic, world, harm>>

ArpSent ==
    /\ Sent("arp")
    /\ call' = Go("arp_wait")
    /\ UNCHANGED <<g, tls, nic, world, harm>>

ArpDone ==
    /\ Leaves("arp_wait")
    /\ call' = CASE g.mac /\ call.targets = <<>>  -> Go("ask")
                 [] g.mac /\ call.targets # <<>>  -> Go("connect")
                 [] ~g.mac /\ call.targets = <<>> -> Go("query")
                 [] OTHER                         -> Go("fail")
    /\ UNCHANGED <<g, tls, nic, wire, peers>>

(* net_dns_query_current, once the gateway's address is known. *)
Ask ==
    /\ At("ask")
    /\ g' = [g EXCEPT !.dns_valid = FALSE, !.dns_ips = <<>>]
    /\ call' = Sending(call, "dns", DnsFrame, 1)
    /\ UNCHANGED <<tls, nic, world, harm>>

DnsSent ==
    /\ Sent("dns")
    /\ call' = Go("dns_wait")
    /\ UNCHANGED <<g, tls, nic, world, harm>>

DnsDone ==
    /\ Leaves("dns_wait")
    /\ call' = Go("query")
    /\ UNCHANGED <<g, tls, nic, wire, peers>>

Port == CASE call.kind = "http" -> HTTP [] call.kind = "https" -> TLS [] OTHER -> DNS

(* net_tcp_connect_to: a new local port, then the ring is drained, then the *)
(* SYN.  Only net_tcp_connect_dns can be here without the gateway's address. *)
Connecting(r) ==
    [r EXCEPT !.target_ip = Head(call.targets), !.target_port = Port,
              !.local_port = r.syns, !.synack = FALSE, !.last_ack = 0, !.last_seq = 0]

Dials ==
    /\ At("connect") /\ call.targets # <<>> /\ g.mac
    /\ call' = Sending([call EXCEPT !.targets = Tail(@), !.acked = FALSE, !.end = 0], "syn",
                       SynFrame(Connecting(g)), TxTries)

Connect ==
    /\ Dials
    /\ LET s == Polled([g |-> Connecting(g),
                        t |-> IF call.kind = "https" THEN TranscriptReset(tls) ELSE tls],
                       nic.rx)
       IN g' = [s.g EXCEPT !.syns = @ + 1] /\ tls' = s.t
    /\ nic' = [nic EXCEPT !.rx = <<>>]
    /\ UNCHANGED <<world, harm>>

ConnectAsks ==
    /\ At("connect") /\ call.targets # <<>> /\ ~g.mac
    /\ g' = Connecting(g)
    /\ call' = Sending(call, "arp", ArpFrame, 1)
    /\ UNCHANGED <<tls, nic, world, harm>>

NoTargetLeft ==
    /\ At("connect") /\ call.targets = <<>>
    /\ call' = Go("fail")
    /\ UNCHANGED <<g, tls, nic, world, harm>>

SynSent ==
    /\ Sent("syn")
    /\ call' = Go("syn_wait")
    /\ UNCHANGED <<g, tls, nic, world, harm>>

Request == [u |-> IF call.kind = "http" THEN "get" ELSE "CH"]

(* An HTTP request carries the last acknowledgement of the handshake. *)
Connected ==
    /\ Ready("syn_wait")
    /\ g' = [g EXCEPT !.local_next = g.syns, !.remote_next = g.last_seq + 1]
    /\ call' = IF call.kind = "http"
               THEN Sending(call, "request", [TcpFrame("data", Request) EXCEPT
                                                !.seq = g.syns], TxTries)
               ELSE Sending(call, "final", [AckFrame(g) EXCEPT !.seq = g.syns], TxTries)
    /\ UNCHANGED <<tls, nic, wire, peers>>

NotConnected ==
    /\ GivesUp("syn_wait")
    /\ call' = Go("connect")
    /\ UNCHANGED <<g, tls, nic, wire, peers>>

FinalSent ==
    /\ Sent("final")
    /\ call' = IF call.kind = "tcp" THEN Return(TRUE)
               ELSE Sending(call, "request", DataFrame(Request), TxTries)
    /\ UNCHANGED <<g, tls, nic, world, harm>>

(* What every sender of payload does once it is out. *)
Counted(pc)    == [Go(pc) EXCEPT !.end = g.local_next + 1, !.acked = FALSE]
Advanced       == g' = [g EXCEPT !.local_next = @ + 1]

RequestSent ==
    /\ Sent("request")
    /\ Advanced
    /\ tls' = IF call.kind = "https" THEN Hashed(tls, "CH") ELSE tls
    /\ call' = Counted(IF call.kind = "http" THEN "http_wait" ELSE "flight_wait")
    /\ UNCHANGED <<nic, world, harm>>

(* net_http_try_target returns as soon as there is a status line, whether   *)
(* or not the last acknowledgement goes out.                                *)
HttpDone ==
    /\ Ready("http_wait")
    /\ call' = Acknowledging(Return(TRUE), g, "idle")
    /\ UNCHANGED <<g, tls, nic, wire, peers>>

HttpFailed ==
    /\ GivesUp("http_wait")
    /\ call' = Go("connect")
    /\ UNCHANGED <<g, tls, nic, wire, peers>>

(* net_tls_try_target returns 1 when any handshake record was seen. *)
FlightDone ==
    /\ Leaves("flight_wait")
    /\ call' = IF tls.valid THEN Acknowledging(call, g, "kex") ELSE Go("connect")
    /\ UNCHANGED <<g, tls, nic, wire, peers>>

(* net_tls_verify_kex_signature: the parameters are signed with the key of  *)
(* the certificate, over the randoms of this handshake.                     *)
KexMatch == tls.kex # NoConn /\ tls.kex = tls.hello /\ tls.cert.conn = tls.kex
              /\ tls.cert.rx > 0

SendClientKeyExchange ==
    /\ At("kex")
    /\ call' = IF KexMatch THEN Sending(call, "cke", DataFrame([u |-> "CKE"]), TxTries)
               ELSE Go("fail")
    /\ UNCHANGED <<g, tls, nic, world, harm>>

CkeSent ==
    /\ Sent("cke")
    /\ Advanced
    /\ tls' = [Hashed(tls, "CKE") EXCEPT !.cke = TRUE]
    /\ call' = Counted("cke_wait")
    /\ UNCHANGED <<nic, world, harm>>

(* The PRF of the transcript's hash under the master secret, sealed. *)
FinishedMessage(t) == [u |-> "finished", key |-> t.kex, over |-> t.transcript]

(* net_tls_derive_keys and net_tls_compute_finished.  Whether the key       *)
(* exchange was acknowledged does not matter.                               *)
DeriveKeys ==
    /\ Leaves("cke_wait")
    /\ tls' = [tls EXCEPT !.keys = tls.kex, !.client_finished = tls.transcript]
    /\ call' = Sending(call, "finished", DataFrame(FinishedMessage(tls)), TxTries)
    /\ UNCHANGED <<g, nic, wire, peers>>

(* net_tls_send_finished: only now may the server's answer be understood. *)
FinishedSent ==
    /\ Sent("finished")
    /\ Advanced
    /\ tls' = [Hashed(tls, "Finished") EXCEPT !.finished_tx = TRUE]
    /\ call' = Counted("fin_wait")
    /\ UNCHANGED <<nic, world, harm>>

(* Mutant of SendHttpGet: what the buffer holds stays there. *)
SendHttpGetKeeping ==
    /\ Leaves("fin_wait")
    /\ tls' = [tls EXCEPT !.app_tx = FALSE, !.app_decrypt = FALSE, !.app_need = 0,
                          !.app_record = <<>>]
    /\ call' = IF tls.verified
               THEN Sending(call, "app", DataFrame([u |-> "sealed get", key |-> tls.keys]), TxTries)
               ELSE Go("fail")
    /\ UNCHANGED <<g, nic, wire, peers>>

(* Mutant of SendHttpGet: the server's Finished is not asked for. *)
SendHttpGetUnverified ==
    /\ Leaves("fin_wait")
    /\ tls' = [tls EXCEPT !.app_tx = FALSE, !.app_decrypt = FALSE, !.app_need = 0,
                          !.app_record = <<>>]
    /\ g' = [g EXCEPT !.http_response = <<>>, !.http_valid = FALSE]
    /\ call' = Sending(call, "app", DataFrame([u |-> "sealed get", key |-> tls.keys]), TxTries)
    /\ UNCHANGED <<nic, wire, peers>>

(* net_tls_send_http_get *)
SendHttpGet ==
    /\ Leaves("fin_wait")
    /\ tls' = [tls EXCEPT !.app_tx = FALSE, !.app_decrypt = FALSE, !.app_need = 0,
                          !.app_record = <<>>]
    /\ IF tls.verified
       THEN /\ g' = [g EXCEPT !.http_response = <<>>, !.http_valid = FALSE]
            /\ call' = Sending(call, "app",
                               DataFrame([u |-> "sealed get", key |-> tls.keys]), TxTries)
       ELSE call' = Go("fail") /\ UNCHANGED g
    /\ UNCHANGED <<nic, wire, peers>>

AppSent ==
    /\ Sent("app")
    /\ Advanced
    /\ tls' = [tls EXCEPT !.app_tx = TRUE]
    /\ call' = Counted("app_wait")
    /\ UNCHANGED <<nic, world, harm>>

AppDone ==
    /\ Leaves("app_wait")
    /\ call' = Return(tls.app_decrypt /\ g.http_response # <<>>)
    /\ UNCHANGED <<g, tls, nic, wire, peers>>

Fail ==
    /\ At("fail")
    /\ call' = Return(FALSE)
    /\ UNCHANGED <<g, tls, nic, world, harm>>

-----------------------------------------------------------------------------
(***************************************************************************)
(* The card and the network.                                               *)
(***************************************************************************)
Struck(f) == /\ f \in Faults /\ faults < MaxFaults
             /\ faults' = faults + 1 /\ harm' = harm \cup {f}

(* The card sends the frame at the head of its ring.  A ring that is full   *)
(* has its head at its tail, which is how the card knows an empty one.      *)
Transmits == /\ nic.tx # <<>> /\ Len(nic.tx) < TxRing
             /\ nic' = [nic EXCEPT !.tx = Tail(@)]
Transmit ==
    /\ Transmits
    /\ \/ \E r \in Reactions(peers, Head(nic.tx)) :
             /\ peers' = r.peers
             /\ wire' = wire \o r.frames
             /\ IF r.cut = {} THEN UNCHANGED <<faults, harm>>
                ELSE /\ faults < MaxFaults /\ faults' = faults + 1
                     /\ harm' = harm \cup (IF \A c \in r.cut : Harmless(c[1], c[2])
                                           THEN {} ELSE {"cut"})
       \/ Struck("loss") /\ UNCHANGED <<peers, wire>>
    /\ UNCHANGED machine

(* The frame comes in at the card, which stores it if its ring has room. *)
Arrive(i) ==
    /\ wire' = RemoveAt(wire, i)
    /\ Len(nic.rx) < RxRing - 1
    /\ nic' = [nic EXCEPT !.rx = Append(@, wire[i])]
    /\ UNCHANGED <<machine, peers>>

Deliver  == wire # <<>> /\ Arrive(1) /\ UNCHANGED <<faults, harm>>
Overtake == \E i \in 2..Len(wire) : Arrive(i) /\ Struck("reorder")

Overflow ==
    /\ wire # <<>> /\ Len(nic.rx) = RxRing - 1
    /\ wire' = Tail(wire)
    /\ harm' = harm \cup {"loss"}
    /\ UNCHANGED <<machine, nic, peers, faults>>

Lose ==
    /\ wire # <<>> /\ wire' = Tail(wire)
    /\ Struck("loss")
    /\ UNCHANGED <<machine, nic, peers>>

(* A server sends a segment again. *)
Again ==
    /\ \E k \in DOMAIN peers : \E s \in peers[k].sent : wire' = Append(wire, s)
    /\ Struck("again")
    /\ UNCHANGED <<machine, nic, peers>>

-----------------------------------------------------------------------------
Sender == HandOver \/ HandOverRefused \/ TxTimeout
Caller == \/ "http" \in Kinds /\ \E h \in Hosts : GetUrl("http", h)
          \/ "https" \in Kinds /\ \E h \in Hosts : GetUrl("https", h)
          \/ "tcp" \in Kinds /\ ConnectDns
(* The steps of a call between its sends and its polls, but for Connect. *)
Onward == \/ Query \/ ArpSent \/ ArpDone \/ Ask \/ DnsSent \/ DnsDone
          \/ ConnectAsks \/ NoTargetLeft \/ SynSent \/ Connected \/ NotConnected
          \/ FinalSent \/ RequestSent \/ AckSent \/ HttpDone \/ HttpFailed \/ FlightDone
          \/ SendClientKeyExchange \/ CkeSent \/ DeriveKeys \/ FinishedSent
          \/ SendHttpGet \/ AppSent \/ AppDone \/ Fail
Network == Transmit \/ Deliver \/ Overtake \/ Overflow \/ Lose \/ Again

Next == Caller \/ Sender \/ RetryPoll \/ Poll \/ Connect \/ Onward \/ Network
Spec == Init /\ [][Next]_vars

(* The machine goes on: the call is the only thread, and every loop ends    *)
(* after a number of spins.  The card sends what it was handed, and the     *)
(* network does not keep a frame for ever.  (A step of Dials is one of      *)
(* Connect, of Polls one of Poll, of Transmits one of Transmit.)            *)
FairSpec ==
    /\ Spec
    /\ WF_call(Sender \/ Onward \/ Dials) /\ WF_nic(Polls)
    /\ WF_nic(Transmits) /\ WF_wire(wire # <<>> /\ wire' = Tail(wire))
=============================================================================
