------------------------------ MODULE Internet ------------------------------
(***************************************************************************)
(* The other side of drivers/net.c, as far as the code relies on it: a     *)
(* gateway that answers ARP, a name server, and servers that speak TCP,    *)
(* HTTP/1.0 and TLS 1.2.  None of it is in the repository.                 *)
(*                                                                         *)
(* A server handles a frame at once; its answer may then take any time and *)
(* be cut into segments anywhere (CutChoices).  peers[p] is the connection *)
(* from local port p as its server sees it: what it got in order, and the  *)
(* payload segments it sent.                                               *)
(***************************************************************************)
EXTENDS TlsRecords, Functions

CONSTANTS
    Hosts,
    Ips,            \* addresses of the servers
    Answers(_),     \* the A records a name server may answer with
    NameServer,     \* dns_ip
    PageLen,        \* units of a page, the status line being the first
    Layouts,        \* how servers put handshake messages into records
    CutChoices(_)   \* the places where a payload of this length is cut, in order

(* The longest payload is a page in a record or a flight (16 units).  The   *)
(* name server gives addresses, and a payload is cut between two units.     *)
ASSUME PageAssumption    == PageLen \in Nat \ {0}
ASSUME AnswersAssumption == \A h \in Hosts : Answers(h) \subseteq Seq(Ips)
ASSUME CutsAssumption    ==
    \A n \in 0..PageLen + 16 : \A cuts \in CutChoices(n) :
        cuts \in Seq(1..n - 1) /\ \A i, j \in DOMAIN cuts : i < j => cuts[i] < cuts[j]

HTTP == 80
TLS  == 443
DNS  == 53

(* The status line and the body of the page a connection serves. *)
Page(k) == [i \in 1..PageLen |-> [u |-> IF i = 1 THEN "status" ELSE "text", conn |-> k]]

(* The flight a ClientHello is answered with. *)
Flight(k, layout) ==
    LET sh   == Message("SH", 1, k)
        cert == Message("Cert", 2, k)
        ske  == Message("SKE", 1, k)
        shd  == Message("SHD", 0, k)
    IN IF layout = "one record"
       THEN Record("handshake", sh \o cert \o ske \o shd)
       ELSE Record("handshake", sh) \o Record("handshake", cert)
              \o Record("handshake", ske) \o Record("handshake", shd)

Exchanged == <<"CH", "SH", "Cert", "SKE", "SHD", "CKE">>
Alert     == Record("alert", <<[u |-> "body", msg |-> "alert"]>>)

(* What a server sends when it has got this unit of connection k. *)
Reply(k, unit) ==
    CASE unit.u = "get" -> {Page(k)}
      [] unit.u = "CH"  -> {Flight(k, layout) : layout \in Layouts}
      [] unit.u = "finished" ->
            IF unit.key = k /\ unit.over = Exchanged
            THEN {Record("ccs", <<[u |-> "body", msg |-> "ccs"]>>)
                    \o Record("handshake",
                              Sealed(k, 0, <<[msg |-> "ServerFinished",
                                              over |-> Append(Exchanged, "Finished")]>>))}
            ELSE {Alert}
      [] unit.u = "sealed get" ->
            IF unit.key = k THEN {Record("data", Sealed(k, 1, Page(k)))}
            ELSE {Alert}
      [] OTHER -> {<<>>}

(* A payload as consecutive segments; without payload, one that only        *)
(* acknowledges.                                                            *)
Pieces(units, cuts) ==
    LET place == <<0>> \o cuts \o <<Len(units)>>
    IN [i \in 1..Len(cuts) + 1 |->
           [at |-> place[i], data |-> SubSeq(units, place[i] + 1, place[i + 1])]]

Segment(p, k, syn, seq, data) ==
    [type |-> "tcp", from |-> p.ip, port |-> p.port, to |-> k,
     syn |-> syn, seq |-> seq, ack |-> p.isn + 1 + Len(p.got), data |-> data]

WithPeer(peers, k, p) == [x \in DOMAIN peers \cup {k} |-> IF x = k THEN p ELSE peers[x]]

(* A new connection; a repeated SYN is answered again. *)
Accept(peers, f) ==
    LET p == IF f.local \in DOMAIN peers THEN peers[f.local]
             ELSE [ip |-> f.ip, port |-> f.port, isn |-> f.seq, got |-> <<>>, next |-> 1, sent |-> {}]
        s == Segment([p EXCEPT !.got = <<>>], f.local, TRUE, 0, <<>>)
    IN [peers |-> WithPeer(peers, f.local, p), frames |-> <<s>>, cut |-> {}]

(* Data in order is answered, anything else only acknowledged. *)
Serve(peers, f) ==
    LET k == f.local
        p == peers[k]
        q == [p EXCEPT !.got = Append(@, f.data)]
        Sent(units, cuts) ==
            LET out == [i \in 1..Len(cuts) + 1 |->
                           LET piece == Pieces(units, cuts)[i]
                           IN Segment(q, k, FALSE, q.next + piece.at, piece.data)]
            IN [peers |-> WithPeer(peers, k,
                              [q EXCEPT !.next = @ + Len(units),
                                        !.sent = @ \cup {x \in Range(out) : x.data # <<>>}]),
                frames |-> out,
                cut |-> {<<units, c>> : c \in Range(cuts)}]
    IN CASE k \notin DOMAIN peers -> {[peers |-> peers, frames |-> <<>>, cut |-> {}]}
         [] k \in DOMAIN peers /\ f.seq # p.isn + 1 + Len(p.got) ->
               {[peers |-> peers, frames |-> <<Segment(p, k, FALSE, p.next, <<>>)>>, cut |-> {}]}
         [] OTHER -> UNION {{Sent(units, cuts) : cuts \in CutChoices(Len(units))} :
                            units \in Reply(k, f.data)}

(* What may come back for a frame of the machine. *)
Reactions(peers, f) ==
    CASE f.type = "arp"  -> {[peers |-> peers, frames |-> <<[type |-> "arp"]>>, cut |-> {}]}
      [] f.type = "dns"  -> {[peers |-> peers, cut |-> {},
                              frames |-> <<[type |-> "dns", host |-> f.host, ips |-> a]>>] :
                             a \in Answers(f.host)}
      [] f.type = "syn"  -> {Accept(peers, f)}
      [] f.type = "ack"  -> {[peers |-> peers, frames |-> <<>>, cut |-> {}]}
      [] f.type = "data" -> Serve(peers, f)

(* A place where a payload is cut that the parser of TlsRecords copes with: *)
(* between two records, unless a ServerHelloDone is left for later; in the  *)
(* middle of a certificate that has a record of its own; in the body of a   *)
(* record of application data; anywhere in a page.                          *)
Harmless(units, c) ==
    LET next == units[c + 1]
    IN \/ next.u \in {"text", "status"}
       \/ next.u = "head" /\ ~(next.type = "handshake" /\ units[c + 3].u = "hs"
                               /\ units[c + 3].msg = "SHD")
       \/ next.u = "body" /\ next.msg = "Cert" /\ units[1].len = 2
       \/ next.u = "sealed" /\ next.seq = 1
=============================================================================
