--------------------------- MODULE NetProperties ---------------------------
(***************************************************************************)
(* What a network call of module Net promises its caller.                  *)
(***************************************************************************)
EXTENDS Net

Finished == At("idle") /\ call.number > 0

(* Every part of the state has its type, the rings never hold more than     *)
(* their descriptors, and a call never has more connections than targets.   *)
TypeOK ==
    /\ Len(nic.rx) < RxRing /\ Len(nic.tx) <= TxRing
    /\ call.pc \in Waits \cup {"idle", "query", "ask", "connect", "kex", "send", "tx", "fail"}
    /\ call.kind \in {"none", "http", "https", "tcp"} /\ call.dns_left \in 0..DnsTries
    /\ call.left \in 0..TxTries
    /\ g.syns \in Nat /\ DOMAIN peers \subseteq 0..g.syns
    /\ Len(g.http_response) <= Capture_
    /\ {g.mac, g.dns_valid, g.synack, g.http_valid, g.payload_acked} \subseteq BOOLEAN
    /\ Len(tls.app_record) <= tls.app_need /\ tls.pend.rx <= tls.pend.len
    /\ faults <= MaxFaults

(***************************************************************************)
(* A call that meets nothing it cannot cope with succeeds: no frame is     *)
(* lost, doubled, overtaken or late, no data of an earlier call is still   *)
(* arriving, and the server's segments end where the record parser can go  *)
(* on (net_tls_capture_payload).  In particular the client and the server  *)
(* then agree on the transcript, and a record of application data in       *)
(* pieces is put together.                                                 *)
(***************************************************************************)
SoundCallsSucceed ==
    (Finished /\ harm = {} /\ (call.kind = "tcp" \/ g.dns_valid)) => call.ok

(***************************************************************************)
(* What net_http_get_url and net_https_get_url return as the page is the   *)
(* beginning of the page the last connection served, whatever was late or  *)
(* had to be sent again, unless segments were lost, doubled or overtaken,  *)
(* a send failed for good, or data of an earlier call was taken.           *)
(***************************************************************************)
GenuinePage ==
    (Finished /\ call.ok /\ call.kind # "tcp" /\ harm \subseteq {"late", "slow", "cut"})
        => g.http_response # <<>> /\ IsPrefix(g.http_response, Page(g.local_port))

(***************************************************************************)
(* Over HTTPS, whatever happens to the segments and however often they     *)
(* come, a page that is returned starts with the answer of the server this *)
(* call connected to, the whole of it or as much as the capture holds, and *)
(* nothing of it is another's.                                             *)
(***************************************************************************)
Opening(k) == SubSeq(Page(k), 1, Least(PageLen, Capture_))

SecurePageIsOwn ==
    (Finished /\ call.ok /\ call.kind = "https")
        => /\ g.http_response # <<>> /\ IsPrefix(Opening(g.local_port), g.http_response)
           /\ \A i \in DOMAIN g.http_response : g.http_response[i].conn = g.local_port

(***************************************************************************)
(* The servers see the protocol: each gets what belongs on its port, once  *)
(* and in order, although a frame that timed out in the card's ring is     *)
(* handed over again (net_send_tcp_segment); and the encrypted request     *)
(* goes out only to a server that accepted the Finished message.           *)
(***************************************************************************)
RightOrder ==
    \A k \in DOMAIN peers :
        LET got == peers[k].got
        IN /\ IsPrefix([i \in DOMAIN got |-> got[i].u],
                       CASE peers[k].port = HTTP -> <<"get">>
                         [] peers[k].port = TLS  -> <<"CH", "CKE", "finished", "sealed get">>
                         [] OTHER                -> <<>>)
           /\ Len(got) = 4 => got[3].over = Exchanged

(***************************************************************************)
(* tcp_payload_acked is true: a request counts as received only when a     *)
(* server of this call has got it, also when the acknowledgements of       *)
(* earlier connections are still arriving.                                 *)
(***************************************************************************)
AckedIsTrue ==
    (call.kind \in {"http", "https"} /\ g.payload_acked)
        => \E k \in DOMAIN peers : k >= call.first /\ peers[k].got # <<>>

(***************************************************************************)
(* Every call returns: no answer, no failure of the card and no order of   *)
(* frames leaves it waiting (all loops count their spins).                 *)
(***************************************************************************)
CallsReturn == call.pc # "idle" ~> call.pc = "idle"

(***************************************************************************)
(* PROGRESS.md, "Connection attempts also drain stale RX frames before     *)
(* each SYN": a page holds nothing of an earlier call's connections.       *)
(***************************************************************************)
NothingStale ==
    (Finished /\ call.kind = "http")
        => \A i \in DOMAIN g.http_response : g.http_response[i].conn >= call.first

(***************************************************************************)
(* PROGRESS.md: "The transcript includes ClientHello, ServerHello,         *)
(* Certificate, ServerKeyExchange, ServerHelloDone, and ClientKeyExchange" *)
(* when the Finished message is computed.                                  *)
(***************************************************************************)
TranscriptComplete == tls.client_finished # <<>> => tls.client_finished = Exchanged
=============================================================================
