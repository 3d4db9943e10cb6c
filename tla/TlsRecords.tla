----------------------------- MODULE TlsRecords -----------------------------
(***************************************************************************)
(* The TLS 1.2 side of drivers/net.c: the record parser fed by every TCP   *)
(* segment of a connection to port 443, the handshake transcript and the   *)
(* reassembly of encrypted application data, as functions of the parser's  *)
(* state.                                                                  *)
(*                                                                         *)
(* A payload is a sequence of units.  A record header is two units, so     *)
(* that a segment can end inside it; a handshake header or a part of a     *)
(* body is one.  Cryptography is ideal: what was sealed is opened by the   *)
(* key and the sequence number it was sealed with, as a whole and in its   *)
(* order, and a Finished message stands for the transcript it was computed *)
(* over.  What a key, a certificate or a random belongs to is the          *)
(* connection it came from.                                                *)
(***************************************************************************)
EXTENDS Integers, Sequences

Least(a, b) == IF a < b THEN a ELSE b

(* What is put on the stream. *)
Record(type, body) ==
    <<[u |-> "head", type |-> type, len |-> Len(body)], [u |-> "head2"]>> \o body
Message(msg, n, conn) ==
    <<[u |-> "hs", msg |-> msg, len |-> n, conn |-> conn]>>
      \o [i \in 1..n |-> [u |-> "body", msg |-> msg]]
Sealed(key, seq, plain) ==
    [i \in 1..Len(plain) |-> [u |-> "sealed", key |-> key, seq |-> seq, plain |-> plain[i],
                              place |-> i, of |-> Len(plain)]]

NoConn    == -1
NoPending == [msg |-> "none", len |-> 0, rx |-> 0]

(* net_tls_transcript_reset: what a new attempt to connect forgets. *)
TranscriptReset(t) ==
    [t EXCEPT !.transcript = <<>>, !.cert_added = FALSE, !.client_finished = <<>>,
              !.finished_tx = FALSE, !.verified = FALSE,
              !.app_tx = FALSE, !.app_decrypt = FALSE, !.app_need = 0, !.app_record = <<>>]

(* net_tls_probe_url: what a new call forgets. *)
NewSession ==
    [valid |-> FALSE, hello |-> NoConn, kex |-> NoConn,
     cert |-> [conn |-> NoConn, len |-> 0, rx |-> 0],
     pend |-> NoPending, record_pending |-> 0,
     transcript |-> <<>>, cert_added |-> FALSE, client_finished |-> <<>>,
     cke |-> FALSE, keys |-> NoConn, finished_tx |-> FALSE, verified |-> FALSE,
     app_tx |-> FALSE, app_decrypt |-> FALSE, app_need |-> 0, app_record |-> <<>>,
     plain |-> <<>>]

CertComplete(t) == t.cert.len > 0 /\ t.cert.rx >= t.cert.len

Hashed(t, msg) == [t EXCEPT !.transcript = Append(@, msg)]

HashCertificate(t) ==
    IF CertComplete(t) /\ ~t.cert_added
    THEN [Hashed(t, "Cert") EXCEPT !.cert_added = TRUE] ELSE t

(* net_tls_note_handshake: rx of the message's len units are here. *)
Noted(t, h, rx) ==
    [t EXCEPT !.cert = IF h.msg = "Cert" THEN [conn |-> h.conn, len |-> h.len, rx |-> rx]
                       ELSE @,
              !.pend = IF rx < h.len THEN [msg |-> h.msg, len |-> h.len, rx |-> rx]
                       ELSE NoPending]

Needed(t) == t.pend.len - t.pend.rx

AddPending(t, n) ==
    LET rx == t.pend.rx + Least(n, Needed(t))
    IN IF Needed(t) = 0 THEN t
       ELSE [t EXCEPT !.cert.rx = IF t.pend.msg = "Cert" THEN rx ELSE @,
                      !.pend = IF rx = t.pend.len THEN NoPending ELSE [@ EXCEPT !.rx = rx]]

-----------------------------------------------------------------------------
(* The messages of one handshake record, or of the part of it that this     *)
(* segment holds.  A ServerHello or a ServerKeyExchange that is not here    *)
(* whole is not read; a Certificate is, as far as it goes.  A record that   *)
(* starts in the middle of a message is read as one of unknown type and of  *)
(* a length nobody sent.                                                    *)
Garbage(t, us) ==
    [t EXCEPT !.pend = [msg |-> "unknown", len |-> 100 + Len(us), rx |-> Len(us)]]

(* r.p is what is left of the record. *)
NextMessage(r) ==
    LET h     == r.p[1]
        rx    == Least(h.len, Len(r.p) - 1)
        whole == rx = h.len
        n     == Noted(r.t, h, rx)
    IN CASE r.p = <<>> -> r
         [] r.p # <<>> /\ h.u # "hs" -> [t |-> Garbage(r.t, r.p), p |-> <<>>]
         [] OTHER -> [t |-> CASE h.msg = "Cert" -> HashCertificate(n)
                              [] h.msg = "SH" /\ ~whole -> r.t
                              [] h.msg = "SH" /\ whole  -> [Hashed(n, "SH") EXCEPT !.hello = h.conn]
                              [] h.msg = "SKE" /\ whole -> [Hashed(n, "SKE") EXCEPT !.kex = h.conn]
                              [] OTHER -> IF whole THEN Hashed(n, h.msg) ELSE n,
                      p |-> SubSeq(r.p, h.len + 2, Len(r.p))]

Messages(t, us) ==
    LET read[i \in 0..Len(us)] ==
            IF i = 0 THEN [t |-> t, p |-> us] ELSE NextMessage(read[i - 1])
    IN read[Len(us)].t

(* A record that goes on with a message the last one began.  (A certificate *)
(* that becomes complete here is not hashed.)                               *)
Handshake(t, us) ==
    LET add == Least(Len(us), Needed(t))
    IN Messages(AddPending(t, add), SubSeq(us, add + 1, Len(us)))

Opens(t, body, seq) ==
    /\ t.keys # NoConn
    /\ \A i \in 1..Len(body) :
          /\ body[i].u = "sealed" /\ body[i].key = t.keys /\ body[i].seq = seq
          /\ body[i].place = i /\ body[i].of = Len(body)

(* net_tls_process_server_finished_record *)
ServerFinished(t, body) ==
    IF /\ t.finished_tx /\ Len(body) = 1 /\ Opens(t, body, 0)
       /\ body[1].plain = [msg |-> "ServerFinished", over |-> t.transcript]
    THEN [t EXCEPT !.verified = TRUE] ELSE t

(* net_tls_process_app_data_record: the sequence number is always 1. *)
AppData(t, body) ==
    IF t.app_tx /\ body # <<>> /\ Opens(t, body, 1)
    THEN [t EXCEPT !.app_decrypt = TRUE,
                   !.plain = @ \o [i \in 1..Len(body) |-> body[i].plain]]
    ELSE t

(* Mutant of AppContinue: a record in pieces is taken as it is when the     *)
(* second segment arrives.                                                  *)
AppContinueEarly(t, p) ==
    IF t.app_need = 0 \/ p = <<>> THEN [t |-> t, p |-> p]
    ELSE [t |-> [t EXCEPT !.app_need = 0, !.app_record = <<>>], p |-> p]

(* net_tls_app_pending_continue *)
AppContinue(t, p) ==
    LET n   == Least(Len(p), t.app_need - Len(t.app_record))
        got == t.app_record \o SubSeq(p, 1, n)
    IN IF t.app_need = 0 \/ p = <<>> THEN [t |-> t, p |-> p]
       ELSE [t |-> IF Len(got) = t.app_need
                   THEN [AppData(t, got) EXCEPT !.app_need = 0, !.app_record = <<>>]
                   ELSE [t EXCEPT !.app_record = got],
             p |-> SubSeq(p, n + 1, Len(p))]

(* net_tls_continue_pending: the rest of a record that was cut. *)
RecordContinue(t, p) ==
    LET n == Least(Len(p), t.record_pending)
    IN [t |-> IF n = 0 THEN t
              ELSE [HashCertificate(AddPending(t, n)) EXCEPT !.record_pending = @ - n],
        p |-> SubSeq(p, n + 1, Len(p))]

(* A payload that does not start with a whole record header is dropped. *)
NextRecord(r) ==
    LET len   == r.p[1].len
        type  == r.p[1].type
        whole == Len(r.p) >= 2 + len
        body  == SubSeq(r.p, 3, Least(2 + len, Len(r.p)))
        n     == [r.t EXCEPT !.valid = @ \/ type \in {"handshake", "alert"}]
        m     == IF type = "handshake" THEN Handshake(n, body) ELSE n
    IN IF Len(r.p) < 2 \/ r.p[1].u # "head" THEN r
       ELSE [t |-> CASE type = "handshake" /\ n.finished_tx /\ whole -> ServerFinished(n, body)
                     [] type = "data" /\ n.app_tx /\ whole  -> AppData(n, body)
                     [] type = "data" /\ n.app_tx /\ ~whole -> [n EXCEPT !.app_need = len,
                                                                        !.app_record = body]
                     [] OTHER -> IF whole THEN m
                                 ELSE [m EXCEPT !.record_pending = 2 + len - Len(r.p)],
             p |-> SubSeq(r.p, 3 + len, Len(r.p))]

Records(t, p) ==
    LET read[i \in 0..Len(p)] == IF i = 0 THEN [t |-> t, p |-> p] ELSE NextRecord(read[i - 1])
    IN read[Len(p)].t

(* net_tls_capture_payload; what was decrypted is left in plain. *)
Capture(t, payload) ==
    LET a == RecordContinue(t, payload)
        b == AppContinue(a.t, a.p)
    IN Records(b.t, b.p)
=============================================================================
