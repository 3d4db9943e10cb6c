---------------------------- MODULE NetPageProofs ---------------------------
(***************************************************************************)
(* Proof that a page is genuine: what net_http_get_url and                 *)
(* net_https_get_url return is the beginning of the page of the server the *)
(* call connected to.  As long as nothing is lost, doubled or overtaken,   *)
(* what is on its way from the server of a connection is what it has sent, *)
(* but for what was taken (Runs): pieces of the page, each where the last  *)
(* one ended, or, over TLS, the end of the one record with the page, once. *)
(***************************************************************************)
EXTENDS NetProofs

-----------------------------------------------------------------------------
(* The end of the page in its record.  A record is opened as a whole, so   *)
(* where the end comes once, the page is decrypted once.                   *)
Closing(e) == e.u = "sealed" /\ e.seq = 1 /\ e.place = PageLen
Closes(us) == \E i \in 1..Len(us) : Closing(us[i])
Once(us)   == \A i, j \in 1..Len(us) : Closing(us[i]) /\ Closing(us[j]) => i = j

(* The parser's state and what is still to be read hold it once at most,   *)
(* and no more once the page was decrypted.                                *)
Sole(t, us, k) ==
    /\ Own(t.app_record, k) /\ Own(us, k) /\ Once(t.app_record) /\ Once(us)
    /\ ~(Closes(t.app_record) /\ Closes(us))
    /\ t.plain # <<>> => t.plain = Page(k) /\ ~Closes(t.app_record) /\ ~Closes(us)
Ends(t, us) == Closes(t.app_record) \/ Closes(us) \/ t.plain # <<>>

(* A reader that makes u and vs of t and us. *)
SoleKept(t, us, u, vs) ==
    \A k : Sole(t, us, k) => Sole(u, vs, k) /\ (Ends(u, vs) => Ends(t, us))

(* A part of a payload holds the end once if the payload does. *)
LEMMA SubOnce ==
  ASSUME NEW p \in Seq(InUnits), NEW a \in Nat \ {0}, NEW b \in Int, b <= Len(p)
  PROVE  /\ Closes(SubSeq(p, a, b)) => Closes(p)
         /\ Once(p) => Once(SubSeq(p, a, b))
<1>1. /\ SubSeq(p, a, b) \in Seq(InUnits)
      /\ Len(SubSeq(p, a, b)) = IF a <= b THEN b - a + 1 ELSE 0
      /\ \A i \in 1..Len(SubSeq(p, a, b)) : SubSeq(p, a, b)[i] = p[a + i - 1]
  BY SubSeqType
<1>2. ASSUME NEW i \in 1..Len(SubSeq(p, a, b)) PROVE a + i - 1 \in 1..Len(p)
  BY <1>1
<1>3. Closes(SubSeq(p, a, b)) => Closes(p)
  BY <1>1, <1>2 DEF Closes
<1>4. ASSUME Once(p) PROVE Once(SubSeq(p, a, b))
  <2> SUFFICES ASSUME NEW i \in 1..Len(SubSeq(p, a, b)), NEW j \in 1..Len(SubSeq(p, a, b)),
                      Closing(SubSeq(p, a, b)[i]), Closing(SubSeq(p, a, b)[j])
               PROVE  i = j
    BY DEF Once
  <2>1. Closing(p[a + i - 1]) /\ Closing(p[a + j - 1])
    BY <1>1
  <2>2. a + i - 1 = a + j - 1
    BY <1>2, <1>4, <2>1 DEF Once
  <2> QED BY <2>2
<1> QED BY <1>3, <1>4

(* It is in one of two parts only. *)
LEMMA SplitOnce ==
  ASSUME NEW p \in Seq(InUnits), NEW n \in Nat, NEW m \in Nat, n <= m, m <= Len(p), NEW a \in Nat \ {0},
         Once(p)
  PROVE  ~(Closes(SubSeq(p, a, n)) /\ Closes(SubSeq(p, m + 1, Len(p))))
<1> SUFFICES ASSUME Closes(SubSeq(p, a, n)), Closes(SubSeq(p, m + 1, Len(p))) PROVE FALSE
  OBVIOUS
<1> DEFINE x == SubSeq(p, a, n)
           y == SubSeq(p, m + 1, Len(p))
<1>1. /\ Len(x) = IF a <= n THEN n - a + 1 ELSE 0
      /\ \A i \in 1..Len(x) : x[i] = p[a + i - 1]
  <2>1. n \in Int /\ n <= Len(p)
    OBVIOUS
  <2> QED BY <2>1, SubSeqType
<1>2. /\ Len(y) = IF m + 1 <= Len(p) THEN Len(p) - (m + 1) + 1 ELSE 0
      /\ \A i \in 1..Len(y) : y[i] = p[m + 1 + i - 1]
  <2>1. m + 1 \in Nat \ {0} /\ Len(p) \in Int
    OBVIOUS
  <2> QED BY <2>1, SubSeqType
<1>3. PICK i \in 1..Len(x) : Closing(x[i])
  BY DEF Closes
<1>4. PICK j \in 1..Len(y) : Closing(y[j])
  BY DEF Closes
<1> HIDE DEF x, y
<1>5. a + i - 1 \in 1..Len(p) /\ a + i - 1 <= n
  BY <1>1
<1>6. m + 1 + j - 1 \in 1..Len(p) /\ m + 1 + j - 1 > m
  BY <1>2
<1>7. a + i - 1 = m + 1 + j - 1
  BY <1>1, <1>2, <1>3, <1>4, <1>5, <1>6 DEF Once
<1> QED BY <1>5, <1>6, <1>7

(* Two parts, one of them with the end, hold it once. *)
LEMMA ConcatOnce ==
  ASSUME NEW a \in Seq(InUnits), NEW b \in Seq(InUnits)
  PROVE  /\ Closes(a \o b) => Closes(a) \/ Closes(b)
         /\ Once(a) /\ Once(b) /\ ~(Closes(a) /\ Closes(b)) => Once(a \o b)
<1>1. /\ Len(a) \in Nat /\ Len(b) \in Nat /\ Len(a \o b) = Len(a) + Len(b)
      /\ \A i \in 1..Len(a) : (a \o b)[i] = a[i]
      /\ \A i \in Len(a) + 1..Len(a) + Len(b) : (a \o b)[i] = b[i - Len(a)]
  OBVIOUS
<1> DEFINE c == a \o b
<1> HIDE DEF c
<1>2. ASSUME NEW i \in 1..Len(c), Closing(c[i])
      PROVE  \/ i \in 1..Len(a) /\ Closing(a[i])
             \/ i - Len(a) \in 1..Len(b) /\ Closing(b[i - Len(a)])
  <2>1. CASE i <= Len(a)
    BY <1>1, <1>2, <2>1 DEF c
  <2>2. CASE i > Len(a)
    <3>1. i \in Len(a) + 1..Len(a) + Len(b) /\ i - Len(a) \in 1..Len(b)
      BY <1>1, <2>2 DEF c
    <3> QED BY <1>1, <1>2, <3>1 DEF c
  <2> QED BY <1>1, <2>1, <2>2
<1>3. Closes(c) => Closes(a) \/ Closes(b)
  BY <1>2 DEF Closes
<1>4. ASSUME Once(a), Once(b), ~(Closes(a) /\ Closes(b)) PROVE Once(c)
  <2> SUFFICES ASSUME NEW i \in 1..Len(c), NEW j \in 1..Len(c), Closing(c[i]), Closing(c[j])
               PROVE  i = j
    BY DEF Once
  <2>1. CASE i \in 1..Len(a) /\ Closing(a[i])
    <3>1. ~Closes(b)
      BY <1>4, <2>1 DEF Closes
    <3>2. j \in 1..Len(a) /\ Closing(a[j])
      BY <1>2, <3>1 DEF Closes
    <3> QED BY <1>4, <2>1, <3>2 DEF Once
  <2>2. CASE i - Len(a) \in 1..Len(b) /\ Closing(b[i - Len(a)])
    <3>1. ~Closes(a)
      BY <1>4, <2>2 DEF Closes
    <3>2. j - Len(a) \in 1..Len(b) /\ Closing(b[j - Len(a)])
      BY <1>2, <3>1 DEF Closes
    <3>3. i - Len(a) = j - Len(a)
      BY <1>4, <2>2, <3>2 DEF Once
    <3> QED BY <1>1, <3>3
  <2> QED BY <1>2, <2>1, <2>2
<1> QED BY <1>3, <1>4 DEF c

(* A record is opened only with the end of the page in it, and gives the   *)
(* page.                                                                   *)
LEMMA AppDataSole ==
  ASSUME NEW t, SessionOK(t), NEW body \in Seq(InUnits), NEW k, Own(body, k)
  PROVE  \/ AppData(t, body).plain = t.plain
         \/ Closes(body) /\ AppData(t, body).plain = t.plain \o Page(k)
<1> SUFFICES ASSUME t.app_tx, body # <<>>, Opens(t, body, 1)
             PROVE  Closes(body) /\ AppData(t, body).plain = t.plain \o Page(k)
  BY DEF AppData
<1> DEFINE open == [i \in 1..Len(body) |-> body[i].plain]
<1>1. \A i \in 1..Len(body) : /\ body[i].u = "sealed" /\ body[i].seq = 1
                               /\ body[i].place = i /\ body[i].of = Len(body)
  BY DEF Opens
<1>2. \A i \in 1..Len(body) : body[i].of = PageLen /\ body[i].plain = Page(k)[i]
  BY <1>1 DEF Own
<1>3. Len(body) \in Nat /\ 1 \in 1..Len(body) /\ Len(body) \in 1..Len(body)
  BY EmptyType
<1>4. Len(body) = PageLen
  BY <1>1, <1>2, <1>3
<1>5. open = Page(k)
  BY <1>2, <1>4 DEF Page
<1>6. Closes(body)
  BY <1>1, <1>3, <1>4 DEF Closes, Closing
<1> HIDE DEF open
<1>7. AppData(t, body) = [t EXCEPT !.app_decrypt = TRUE, !.plain = t.plain \o open]
  BY DEF AppData, open
<1>8. t \in Sessions
  BY DEF SessionOK
<1>9. AppData(t, body).plain = t.plain \o open
  BY <1>7, <1>8 DEF Sessions
<1> QED BY <1>5, <1>6, <1>9

(* Opening a record empties it of the end, or leaves what was decrypted. *)
LEMMA OpenedSole ==
  ASSUME NEW t, SessionOK(t), NEW body \in Seq(InUnits), NEW k, Own(body, k),
         t.plain # <<>> => t.plain = Page(k) /\ ~Closes(body)
  PROVE  LET plain == AppData(t, body).plain
         IN plain = t.plain \/ (Closes(body) /\ plain = Page(k))
<1>1. CASE t.plain # <<>>
  BY <1>1, AppDataSole
<1>2. CASE t.plain = <<>>
  <2>1. <<>> \o Page(k) = Page(k)
    <3>1. PageLen \in Nat
      BY PageAssumption
    <3>2. Page(k) \in Seq([u : {"status", "text"}, conn : {k}])
      BY <3>1 DEF Page
    <3> DEFINE p == Page(k)
    <3>3. p \in Seq([u : {"status", "text"}, conn : {k}])
      BY <3>2
    <3> HIDE DEF p
    <3>4. <<>> \o p = p
      BY <3>3
    <3> QED BY <3>4 DEF p
  <2> QED BY <1>2, <2>1, AppDataSole
<1> QED BY <1>1, <1>2

(* The readers, one by one: what is left of a record that was cut *)
LEMMA RecordContinueSole ==
  ASSUME NEW t, SessionOK(t), NEW p \in Seq(InUnits)
  PROVE  LET a == RecordContinue(t, p) IN SoleKept(t, p, a.t, a.p)
<1> DEFINE a == RecordContinue(t, p)
           n == Least(Len(p), t.record_pending)
<1>1. Aside(t, a.t) /\ \A k : Own(p, k) => Own(a.p, k)
  BY RecordContinueOK
<1>2. a.p = SubSeq(p, n + 1, Len(p))
  BY DEF RecordContinue
<1>3. n \in Nat
  <2>1. Len(p) \in Nat /\ t.record_pending \in Nat
    BY DEF SessionOK, Sessions
  <2> QED BY <2>1, LeastType
<1> HIDE DEF n
<1>4. (Closes(a.p) => Closes(p)) /\ (Once(p) => Once(a.p))
  <2>1. n + 1 \in Nat \ {0} /\ Len(p) \in Int
    BY <1>3
  <2> QED BY <1>2, <2>1, SubOnce
<1> HIDE DEF a
<1>5. a.t.app_record = t.app_record /\ a.t.plain = t.plain
  BY <1>1 DEF Aside
<1> QED BY <1>1, <1>4, <1>5 DEF SoleKept, Sole, Ends, a

(* of a record of application data, *)
LEMMA AppContinueSole ==
  ASSUME NEW t, SessionOK(t), NEW p \in Seq(InUnits)
  PROVE  LET a == AppContinue(t, p) IN SoleKept(t, p, a.t, a.p)
<1> DEFINE n   == Least(Len(p), t.app_need - Len(t.app_record))
           took == SubSeq(p, 1, n)
           got == t.app_record \o took
           d   == AppData(t, got)
           m   == [d EXCEPT !.app_need = 0, !.app_record = <<>>]
           part == [t EXCEPT !.app_record = got]
           rest == SubSeq(p, n + 1, Len(p))
<1> SUFFICES ASSUME ~(t.app_need = 0 \/ p = <<>>)
             PROVE  LET a == AppContinue(t, p) IN SoleKept(t, p, a.t, a.p)
  BY DEF AppContinue, SoleKept
<1>1. AppContinue(t, p) = [t |-> IF Len(got) = t.app_need THEN m ELSE part, p |-> rest]
  BY DEF AppContinue
<1>2. /\ t \in Sessions /\ Len(t.app_record) <= t.app_need
      /\ t.app_record \in Seq(InUnits) /\ t.app_need \in Nat
  BY DEF SessionOK, Sessions
<1>3. n \in Nat /\ n <= Len(p)
  <2>1. t.app_need - Len(t.app_record) \in Nat /\ Len(p) \in Nat
    BY <1>2
  <2> QED BY <2>1, LeastType
<1> HIDE DEF n
<1>4. /\ took \in Seq(InUnits) /\ rest \in Seq(InUnits)
      /\ \A k : Own(p, k) => Own(took, k) /\ Own(rest, k)
      /\ Closes(took) \/ Closes(rest) => Closes(p)
      /\ Once(p) => Once(took) /\ Once(rest) /\ ~(Closes(took) /\ Closes(rest))
  <2>1. n + 1 \in Nat \ {0} /\ Len(p) \in Int /\ 1 \in Nat \ {0} /\ n \in Int /\ Len(p) <= Len(p)
    BY <1>3
  <2>2. /\ took \in Seq(InUnits) /\ rest \in Seq(InUnits)
        /\ \A k : Own(p, k) => Own(took, k) /\ Own(rest, k)
    BY <1>3, <2>1, SubVoucher
  <2>3. /\ Closes(took) \/ Closes(rest) => Closes(p)
        /\ Once(p) => Once(took) /\ Once(rest)
    BY <1>3, <2>1, SubOnce
  <2>4. Once(p) => ~(Closes(took) /\ Closes(rest))
    BY <1>3, <2>1, SplitOnce
  <2> QED BY <2>2, <2>3, <2>4
<1> HIDE DEF took, rest
<1>5. got \in Seq(InUnits)
  BY <1>2, <1>4, ConcatType
<1>6. Closes(got) => Closes(t.app_record) \/ Closes(took)
  BY <1>2, <1>4, ConcatOnce
<1> SUFFICES ASSUME NEW k, Sole(t, p, k)
             PROVE  LET a == AppContinue(t, p)
                    IN Sole(a.t, a.p, k) /\ (Ends(a.t, a.p) => Ends(t, p))
  BY DEF SoleKept
<1>7. /\ Own(got, k) /\ Own(rest, k) /\ Once(rest) /\ Once(got)
      /\ ~(Closes(got) /\ Closes(rest))
  <2>1. Own(t.app_record, k) /\ Own(p, k) /\ Once(t.app_record) /\ Once(p)
         /\ ~(Closes(t.app_record) /\ Closes(p))
    BY DEF Sole
  <2>2. Own(got, k)
    BY <1>2, <1>4, <2>1, ConcatOwn
  <2>3. Once(got)
    BY <1>2, <1>4, <2>1, ConcatOnce
  <2> QED BY <1>4, <1>6, <2>1, <2>2, <2>3
<1>8. t.plain # <<>> => t.plain = Page(k) /\ ~Closes(got) /\ ~Closes(rest)
  BY <1>4, <1>6 DEF Sole
<1>9. d.plain = t.plain \/ (Closes(got) /\ d.plain = Page(k))
  BY <1>5, <1>7, <1>8, OpenedSole
<1>10. m.plain = d.plain /\ m.app_record = <<>>
  <2>1. d \in Sessions
    BY <1>5, AppDataOK DEF SessionOK
  <2> HIDE DEF d
  <2> QED BY <2>1 DEF Sessions
<1>11. part.plain = t.plain /\ part.app_record = got
  BY <1>2 DEF Sessions
<1> HIDE DEF d, m, part, got
<1>12. Own(<<>>, k) /\ Once(<<>>) /\ ~Closes(<<>>)
  BY EmptyType DEF Own, Once, Closes
<1>13. Sole(m, rest, k) /\ (Ends(m, rest) => Ends(t, p))
  BY <1>4, <1>6, <1>7, <1>8, <1>9, <1>10, <1>12 DEF Sole, Ends
<1>14. Sole(part, rest, k) /\ (Ends(part, rest) => Ends(t, p))
  BY <1>4, <1>6, <1>7, <1>8, <1>11 DEF Sole, Ends
<1> QED BY <1>1, <1>13, <1>14

(* and of the next record; *)
LEMMA NextRecordSole ==
  ASSUME NEW r, SessionOK(r.t), r.p \in Seq(InUnits)
  PROVE  LET n == NextRecord(r) IN SoleKept(r.t, r.p, n.t, n.p)
<1> DEFINE len   == r.p[1].len
           type  == r.p[1].type
           whole == Len(r.p) >= 2 + len
           end   == Least(2 + len, Len(r.p))
           body  == SubSeq(r.p, 3, end)
           n     == [r.t EXCEPT !.valid = @ \/ type \in {"handshake", "alert"}]
           m     == IF type = "handshake" THEN Handshake(n, body) ELSE n
           part  == [n EXCEPT !.app_need = len, !.app_record = body]
           cut   == [m EXCEPT !.record_pending = 2 + len - Len(r.p)]
           next  == CASE type = "handshake" /\ n.finished_tx /\ whole -> ServerFinished(n, body)
                      [] type = "data" /\ n.app_tx /\ whole  -> AppData(n, body)
                      [] type = "data" /\ n.app_tx /\ ~whole -> part
                      [] OTHER -> IF whole THEN m ELSE cut
           rest  == SubSeq(r.p, 3 + len, Len(r.p))
<1> SUFFICES ASSUME ~(Len(r.p) < 2 \/ r.p[1].u # "head")
             PROVE  LET a == NextRecord(r) IN SoleKept(r.t, r.p, a.t, a.p)
  BY DEF NextRecord, SoleKept
<1>1. NextRecord(r) = [t |-> next, p |-> rest]
  BY DEF NextRecord
<1>2. next \in {ServerFinished(n, body), AppData(n, body), m, part, cut}
  <2> DEFINE A == type = "handshake" /\ n.finished_tx /\ whole
             B == type = "data" /\ n.app_tx /\ whole
             C == type = "data" /\ n.app_tx /\ ~whole
             D == ServerFinished(n, body)
             E == AppData(n, body)
  <2>1. next = CASE A -> D [] B -> E [] C -> part [] OTHER -> IF whole THEN m ELSE cut
    OBVIOUS
  <2>2. (B \/ C => ~A) /\ (B => ~C)
    OBVIOUS
  <2> HIDE DEF A, B, C, D, E, part, m, cut, next, whole
  <2>3. next \in {D, E, m, part, cut}
    <3>1. CASE A
      BY <2>1, <2>2, <3>1
    <3>2. CASE B
      BY <2>1, <2>2, <3>2
    <3>3. CASE C
      BY <2>1, <2>2, <3>3
    <3>4. CASE ~A /\ ~B /\ ~C
      BY <2>1, <3>4
    <3> QED BY <3>1, <3>2, <3>3, <3>4
  <2> QED BY <2>3 DEF D, E
<1>3. Len(r.p) \in Nat /\ Len(r.p) >= 2 /\ len \in Nat
  <2>1. Len(r.p) \in Nat /\ Len(r.p) >= 2 /\ r.p[1] \in InUnits /\ r.p[1].u = "head"
    OBVIOUS
  <2> QED BY <2>1, UnitFields
<1> HIDE DEF len, next
<1>4. end \in Nat /\ end <= Len(r.p) /\ end <= 2 + len
  <2>1. 2 + len \in Nat
    BY <1>3
  <2> QED BY <1>3, <2>1, LeastType
<1> HIDE DEF end
<1>5. /\ body \in Seq(InUnits) /\ rest \in Seq(InUnits)
      /\ \A k : Own(r.p, k) => Own(body, k) /\ Own(rest, k)
      /\ Closes(body) \/ Closes(rest) => Closes(r.p)
      /\ Once(r.p) => Once(body) /\ Once(rest) /\ ~(Closes(body) /\ Closes(rest))
  <2>1. /\ 3 + len \in Nat \ {0} /\ Len(r.p) \in Int /\ 3 \in Nat \ {0} /\ end \in Int
        /\ Len(r.p) <= Len(r.p)
    BY <1>3, <1>4
  <2>2. /\ body \in Seq(InUnits) /\ rest \in Seq(InUnits)
        /\ \A k : Own(r.p, k) => Own(body, k) /\ Own(rest, k)
    BY <1>4, <2>1, SubVoucher
  <2>3. /\ Closes(body) \/ Closes(rest) => Closes(r.p)
        /\ Once(r.p) => Once(body) /\ Once(rest)
    BY <1>4, <2>1, SubOnce
  <2>4. Once(r.p) => ~(Closes(body) /\ Closes(rest))
    <3>1. CASE 2 + len <= Len(r.p)
      <4>1. 2 + len \in Nat /\ (2 + len) + 1 = 3 + len
        BY <1>3
      <4> QED BY <1>4, <2>1, <3>1, <4>1, SplitOnce
    <3>2. CASE ~(2 + len <= Len(r.p))
      <4>1. Len(rest) = 0
        BY <1>3, <2>1, <3>2, SubSeqType
      <4> HIDE DEF rest
      <4> QED BY <4>1 DEF Closes
    <3> QED BY <3>1, <3>2
  <2> QED BY <2>2, <2>3, <2>4
<1> HIDE DEF body, rest
<1>6. SessionOK(n) /\ Aside(r.t, n)
  <2> DEFINE v == r.t.valid \/ type \in {"handshake", "alert"}
             e == [r.t EXCEPT !.valid = v]
  <2>1. r.t \in Sessions /\ r.t.pend.rx <= r.t.pend.len /\ Len(r.t.app_record) <= r.t.app_need
    BY DEF SessionOK
  <2>2. v \in BOOLEAN /\ n = e
    BY <2>1 DEF Sessions
  <2> HIDE DEF v, n
  <2>3. e \in Sessions
    BY <2>1, <2>2 DEF Sessions
  <2>4. /\ e.app_need = r.t.app_need /\ e.app_record = r.t.app_record
        /\ e.pend = r.t.pend /\ e.verified = r.t.verified /\ e.plain = r.t.plain
    BY <2>1 DEF Sessions
  <2> HIDE DEF e
  <2>5. SessionOK(e)
    BY <2>1, <2>3, <2>4 DEF SessionOK
  <2> QED BY <2>2, <2>4, <2>5 DEF Aside
<1> HIDE DEF n
<1>7. SessionOK(m) /\ Aside(r.t, m)
  BY <1>5, <1>6, HandshakeOK DEF Aside
<1> HIDE DEF m
<1>8. part.app_record = body /\ part.plain = r.t.plain
  <2>1. n \in Sessions
    BY <1>6 DEF SessionOK
  <2> QED BY <1>6, <2>1 DEF Sessions, Aside
<1>9. cut.app_record = r.t.app_record /\ cut.plain = r.t.plain
  <2>1. m \in Sessions
    BY <1>7 DEF SessionOK
  <2> QED BY <1>7, <2>1 DEF Sessions, Aside
<1> HIDE DEF part, cut, whole
<1> SUFFICES ASSUME NEW k, Sole(r.t, r.p, k)
             PROVE  Sole(next, rest, k) /\ (Ends(next, rest) => Ends(r.t, r.p))
  BY <1>1 DEF SoleKept
<1> DEFINE f == ServerFinished(n, body)
           d == AppData(n, body)
<1>10. f.plain = r.t.plain /\ f.app_record = r.t.app_record
  BY <1>5, <1>6, ServerFinishedOK DEF Aside
<1>11. d.app_record = r.t.app_record /\ (d.plain = r.t.plain \/ (Closes(body) /\ d.plain = Page(k)))
  <2>1. Own(body, k) /\ n.plain = r.t.plain
    BY <1>5, <1>6 DEF Sole, Aside
  <2>2. n.plain # <<>> => n.plain = Page(k) /\ ~Closes(body)
    BY <1>5, <2>1 DEF Sole
  <2>3. d.app_record = n.app_record
    BY <1>5, <1>6, AppDataOK
  <2> QED BY <1>5, <1>6, <2>1, <2>2, <2>3, OpenedSole DEF Aside
<1> HIDE DEF f, d
<1>12. ASSUME NEW u, u.app_record = r.t.app_record, u.plain = r.t.plain
       PROVE  Sole(u, rest, k) /\ (Ends(u, rest) => Ends(r.t, r.p))
  BY <1>5, <1>12 DEF Sole, Ends
<1>13. Sole(m, rest, k) /\ (Ends(m, rest) => Ends(r.t, r.p))
  BY <1>7, <1>12 DEF Aside
<1>14. Sole(cut, rest, k) /\ (Ends(cut, rest) => Ends(r.t, r.p))
  BY <1>9, <1>12
<1>15. Sole(f, rest, k) /\ (Ends(f, rest) => Ends(r.t, r.p))
  BY <1>10, <1>12
<1>16. Sole(part, rest, k) /\ (Ends(part, rest) => Ends(r.t, r.p))
  BY <1>5, <1>8 DEF Sole, Ends
<1>17. Sole(d, rest, k) /\ (Ends(d, rest) => Ends(r.t, r.p))
  BY <1>5, <1>11, <1>12 DEF Sole, Ends
<1> QED BY <1>2, <1>13, <1>14, <1>15, <1>16, <1>17 DEF f, d

(* of all of them, *)
LEMMA RecordsSole ==
  ASSUME NEW t, SessionOK(t), NEW us \in Seq(InUnits)
  PROVE  SoleKept(t, us, Records(t, us), <<>>)
<1>0. PICK w : RecordsBy(w, t, us)
  BY RecordsSteps
<1>1. /\ w[0] = [t |-> t, p |-> us]
      /\ \A i \in 1..Len(us) : w[i] = NextRecord(w[i - 1])
      /\ Records(t, us) = w[Len(us)].t
  BY <1>0 DEF RecordsBy
<1> DEFINE Fine(r) == SessionOK(r.t) /\ r.p \in Seq(InUnits) /\ SoleKept(t, us, r.t, r.p)
           P == {i \in Nat : i <= Len(us) => Fine(w[i])}
<1>2. 0 \in P
  BY <1>1 DEF SoleKept
<1>3. ASSUME NEW i \in P PROVE i + 1 \in P
  <2>1. i \in Nat /\ (i <= Len(us) => Fine(w[i]))
    OBVIOUS
  <2> SUFFICES ASSUME i + 1 <= Len(us) PROVE Fine(w[i + 1])
    BY <2>1
  <2>2. Fine(w[i])
    BY <2>1
  <2>3. i + 1 \in 1..Len(us) /\ (i + 1) - 1 = i
    BY <2>1
  <2>4. w[i + 1] = NextRecord(w[i])
    BY <1>1, <2>3
  <2>5. SessionOK(w[i + 1].t) /\ w[i + 1].p \in Seq(InUnits)
    BY <2>2, <2>4, NextRecordOK
  <2>6. SoleKept(w[i].t, w[i].p, w[i + 1].t, w[i + 1].p)
    BY <2>2, <2>4, NextRecordSole
  <2>7. SoleKept(t, us, w[i + 1].t, w[i + 1].p)
    BY <2>2, <2>6 DEF SoleKept
  <2> QED BY <2>5, <2>7
<1>4. P = Nat
  <2>1. P \in SUBSET Nat
    OBVIOUS
  <2> HIDE DEF P
  <2> QED BY <1>2, <1>3, <2>1, NatBySteps
<1>5. Fine(w[Len(us)])
  BY <1>4
<1>6. (\A k : Own(<<>>, k)) /\ Once(<<>>) /\ ~Closes(<<>>)
  BY EmptyType DEF Own, Once, Closes
<1> QED BY <1>1, <1>5, <1>6 DEF SoleKept, Sole, Ends

(* and of a payload. *)
LEMMA CaptureSole ==
  ASSUME NEW t, SessionOK(t), NEW us \in Seq(InUnits)
  PROVE  SoleKept(t, us, Capture(t, us), <<>>)
<1> DEFINE a == RecordContinue(t, us)
           b == AppContinue(a.t, a.p)
<1>1. SessionOK(a.t) /\ a.p \in Seq(InUnits) /\ SoleKept(t, us, a.t, a.p)
  BY RecordContinueOK, RecordContinueSole
<1> HIDE DEF a
<1>2. SessionOK(b.t) /\ b.p \in Seq(InUnits) /\ SoleKept(a.t, a.p, b.t, b.p)
  BY <1>1, AppContinueOK, AppContinueSole
<1> HIDE DEF b
<1>3. SoleKept(b.t, b.p, Capture(t, us), <<>>)
  <2>1. Capture(t, us) = Records(b.t, b.p)
    BY DEF Capture, a, b
  <2> QED BY <1>2, <2>1, RecordsSole
<1> QED BY <1>1, <1>2, <1>3 DEF SoleKept

-----------------------------------------------------------------------------
(* Two sequences, one after the other. *)
LEMMA JoinFacts ==
  ASSUME NEW S, NEW x \in Seq(S), NEW y \in Seq(S)
  PROVE  /\ x \o y \in Seq(S) /\ Len(x \o y) = Len(x) + Len(y)
         /\ \A i \in 1..Len(x) : (x \o y)[i] = x[i]
         /\ \A i \in Len(x) + 1..Len(x) + Len(y) : (x \o y)[i] = y[i - Len(x)]
OBVIOUS

(* A part of a page, as a sequence. *)
LEMMA PageParts ==
  ASSUME NEW k, NEW a \in Nat, NEW b \in Nat, a <= b, b <= PageLen
  PROVE  /\ Page(k) \in Seq([u : {"status", "text"}, conn : {k}]) /\ Len(Page(k)) = PageLen
         /\ SubSeq(Page(k), a + 1, b) \in Seq([u : {"status", "text"}, conn : {k}])
         /\ Len(SubSeq(Page(k), a + 1, b)) = b - a
         /\ \A i \in 1..b - a : SubSeq(Page(k), a + 1, b)[i] = Page(k)[a + i]
<1> DEFINE S == [u : {"status", "text"}, conn : {k}]
           p == Page(k)
           n == a + 1
           q == SubSeq(p, n, b)
<1>1. PageLen \in Nat
  BY PageAssumption
<1>2. p \in Seq(S) /\ Len(p) = PageLen
  BY <1>1 DEF Page
<1>3. n \in Nat \ {0} /\ b \in Int /\ b <= PageLen /\ n = a + 1
  OBVIOUS
<1> HIDE DEF S, p, n
<1>4. /\ q \in Seq(S) /\ Len(q) = IF n <= b THEN b - n + 1 ELSE 0
      /\ \A i \in 1..Len(q) : q[i] = p[n + i - 1]
  BY <1>2, <1>3, SubSeqType
<1> HIDE DEF q
<1>5. Len(q) = b - a
  BY <1>3, <1>4
<1>6. ASSUME NEW i \in 1..b - a PROVE q[i] = p[a + i]
  <2>1. n + i - 1 = a + i
    BY <1>3
  <2> QED BY <1>4, <1>5, <2>1
<1> QED BY <1>2, <1>4, <1>5, <1>6 DEF S, p, n, q

(* What is shown of the first n units of a page. *)
First(k, n) == SubSeq(Page(k), 1, Least(n, Capture_))

(* It is that many, as far as there is space. *)
LEMMA FirstFacts ==
  ASSUME NEW k, NEW n \in Nat, n <= PageLen
  PROVE  /\ First(k, n) \in Seq([u : {"status", "text"}, conn : {k}])
         /\ Len(First(k, n)) = Least(n, Capture_)
         /\ \A i \in 1..Least(n, Capture_) : First(k, n)[i] = Page(k)[i]
<1> DEFINE S == [u : {"status", "text"}, conn : {k}]
           m == Least(n, Capture_)
<1>1. m \in Nat /\ m <= PageLen /\ PageLen \in Nat
  BY PageAssumption, SizesAssumption DEF Least
<1> HIDE DEF m
<1>2. 0 \in Nat /\ 0 <= m
  BY <1>1
<1>3. /\ SubSeq(Page(k), 0 + 1, m) \in Seq(S)
      /\ Len(SubSeq(Page(k), 0 + 1, m)) = m - 0
      /\ \A i \in 1..m - 0 : SubSeq(Page(k), 0 + 1, m)[i] = Page(k)[0 + i]
  BY <1>1, <1>2, PageParts
<1>4. 0 + 1 = 1 /\ m - 0 = m /\ \A i \in 1..m : 0 + i = i
  BY <1>1
<1>5. First(k, n) = SubSeq(Page(k), 1, m)
  BY DEF First, m
<1> HIDE DEF S
<1>6. /\ First(k, n) \in Seq(S) /\ Len(First(k, n)) = m
      /\ \A i \in 1..m : First(k, n)[i] = Page(k)[i]
  BY <1>3, <1>4, <1>5
<1> QED BY <1>6 DEF S, m

(* What a segment holds of a page: the units from a + 1 to b. *)
Part(k, a, b) == SubSeq(Page(k), a + 1, b)

(* net_http_capture_payload goes on with a page where it stood, as far as  *)
(* there is space; the status line is there once something is.             *)
LEMMA CaptureGoesOn ==
  ASSUME NEW r, NetOK(r), NEW k, NEW a \in Nat, NEW b \in Nat, a <= b, b <= PageLen,
         NEW units, units = Part(k, a, b), units # <<>>,
         r.http_response = First(k, a)
  PROVE  LET q == HttpCapture(r, units)
         IN /\ q.http_response = First(k, b)
            /\ q.http_valid <=> r.http_valid \/ a = 0
<1> DEFINE S == [u : {"status", "text"}, conn : {k}]
           c == Capture_
           m == Least(a, c)
           l == Least(b, c)
           room == Least(Len(units), c - Len(r.http_response))
           v == r.http_valid \/ units[1].u = "status"
           all == r.http_response \o SubSeq(units, 1, room)
<1>1. r \in Nets /\ c \in Nat
  BY SizesAssumption DEF NetOK
<1>2. HttpCapture(r, units) = [r EXCEPT !.http_valid = v, !.http_response = all]
  BY <1>1 DEF HttpCapture, Nets
<1>3. HttpCapture(r, units).http_response = all /\ HttpCapture(r, units).http_valid = v
  BY <1>1, <1>2 DEF Nets
<1>4. /\ units \in Seq(S) /\ Len(units) = b - a /\ b > a
      /\ \A i \in 1..b - a : units[i] = Page(k)[a + i]
  <2>1. /\ units \in Seq(S) /\ Len(units) = b - a
        /\ \A i \in 1..b - a : units[i] = Page(k)[a + i]
    BY PageParts DEF Part
  <2>2. Len(units) # 0
    BY <2>1
  <2> QED BY <2>1, <2>2
<1>5. v <=> r.http_valid \/ a = 0
  <2>1. 1 \in 1..b - a /\ a + 1 \in 1..PageLen
    BY <1>4, PageAssumption
  <2>2. units[1] = [u |-> IF a + 1 = 1 THEN "status" ELSE "text", conn |-> k]
    BY <1>4, <2>1 DEF Page
  <2>3. units[1].u = "status" <=> a = 0
    BY <2>2
  <2> QED BY <2>3
<1>6. /\ m \in Nat /\ m <= a /\ m <= c /\ (m = a \/ m = c)
      /\ l \in Nat /\ l <= b /\ l <= c /\ (l = b \/ l = c)
  BY <1>1 DEF Least
<1> HIDE DEF m, l
<1>7. /\ r.http_response \in Seq(S) /\ Len(r.http_response) = m
      /\ \A i \in 1..m : r.http_response[i] = Page(k)[i]
  <2>1. a <= PageLen
    BY PageAssumption
  <2> QED BY <2>1, FirstFacts DEF m
<1>8. /\ First(k, b) \in Seq(S) /\ Len(First(k, b)) = l
      /\ \A i \in 1..l : First(k, b)[i] = Page(k)[i]
  BY FirstFacts DEF l
<1>9. room = l - m /\ room \in Nat /\ room <= b - a
  <2> DEFINE lu == Len(units)
             sp == c - Len(r.http_response)
  <2>1. lu = b - a /\ sp = c - m /\ b > a
    BY <1>4, <1>7
  <2>2. room = Least(lu, sp) /\ c \in Nat
    BY <1>1
  <2> HIDE DEF lu, sp, room, c
  <2> QED BY <1>6, <2>1, <2>2 DEF Least
<1>10. room # 0 => m = a
  BY <1>1, <1>6, <1>9
<1> HIDE DEF room
<1>11. /\ SubSeq(units, 1, room) \in Seq(S) /\ Len(SubSeq(units, 1, room)) = room
       /\ \A i \in 1..room : SubSeq(units, 1, room)[i] = units[i]
  <2>1. 1 \in Nat \ {0} /\ room \in Int /\ room <= Len(units)
    BY <1>4, <1>9
  <2>2. /\ SubSeq(units, 1, room) \in Seq(S)
        /\ Len(SubSeq(units, 1, room)) = IF 1 <= room THEN room - 1 + 1 ELSE 0
        /\ \A i \in 1..Len(SubSeq(units, 1, room)) : SubSeq(units, 1, room)[i] = units[1 + i - 1]
    <3> HIDE DEF S
    <3> QED BY <1>4, <2>1, SubSeqType
  <2>3. Len(SubSeq(units, 1, room)) = room
    BY <1>9, <2>2
  <2>4. \A i \in 1..room : 1 + i - 1 = i
    BY <1>9
  <2> QED BY <2>2, <2>3, <2>4
<1> DEFINE x == r.http_response
           y == SubSeq(units, 1, room)
<1>12. all = x \o y
  OBVIOUS
<1> HIDE DEF x, y, all, S
<1>13. /\ all \in Seq(S) /\ Len(all) = m + room
       /\ \A i \in 1..m : all[i] = x[i]
       /\ \A i \in m + 1..m + room : all[i] = y[i - m]
  <2>1. x \in Seq(S) /\ y \in Seq(S) /\ Len(x) = m /\ Len(y) = room
    BY <1>7, <1>11 DEF x, y
  <2>2. /\ x \o y \in Seq(S) /\ Len(x \o y) = Len(x) + Len(y)
        /\ \A i \in 1..Len(x) : (x \o y)[i] = x[i]
        /\ \A i \in Len(x) + 1..Len(x) + Len(y) : (x \o y)[i] = y[i - Len(x)]
    BY <2>1, JoinFacts
  <2> QED BY <1>12, <2>1, <2>2
<1>14. Len(all) = l
  BY <1>6, <1>9, <1>13
<1>15. ASSUME NEW i \in 1..l PROVE all[i] = Page(k)[i]
  <2>1. CASE i <= m
    <3>1. i \in 1..m
      BY <1>6, <2>1
    <3> QED BY <1>7, <1>13, <3>1 DEF x
  <2>2. CASE i > m
    <3>1. i \in m + 1..m + room /\ i - m \in 1..room /\ i - m \in 1..b - a
      BY <1>6, <1>9, <2>2
    <3>2. m = a
      BY <1>9, <1>10, <3>1
    <3>3. all[i] = units[i - m]
      BY <1>11, <1>13, <3>1 DEF y
    <3>4. a + (i - m) = i
      BY <1>6, <3>2
    <3> QED BY <1>4, <3>1, <3>3, <3>4
  <2> QED BY <1>6, <2>1, <2>2
<1>16. all = First(k, b)
  BY <1>8, <1>13, <1>14, <1>15
<1> QED BY <1>3, <1>5, <1>16

(* What a frame carries of the page of connection k: the units from a + 1  *)
(* to b of it or, over TLS, the end of the record it is in, which takes a  *)
(* from 0 to 1.                                                            *)
Carries(f, k, a, b) ==
    IF f.type = "tcp" /\ f.to = k /\ f.data # <<>>
    THEN IF f.port = HTTP
         THEN b = a + Len(f.data) /\ f.data = Part(k, a, b)
         ELSE /\ Once(f.data)
              /\ IF Closes(f.data) THEN a = 0 /\ b = 1 ELSE b = a
    ELSE b = a

(* The frames of a queue carry it from a to b, one after the other. *)
RunsBy(at, q, k) ==
    /\ at \in [0..Len(q) -> Nat]
    /\ \A i, j \in 0..Len(q) : i <= j => at[i] <= at[j]
    /\ \A i \in 1..Len(q) : Carries(q[i], k, at[i - 1], at[i])
Runs(q, k, a, b) ==
    \E at \in [0..Len(q) -> Nat] : RunsBy(at, q, k) /\ at[0] = a /\ at[Len(q)] = b

(* A run goes forward. *)
LEMMA RunsType ==
  ASSUME NEW q \in Seq(InFrames), NEW k, NEW a, NEW b, Runs(q, k, a, b)
  PROVE  a \in Nat /\ b \in Nat /\ a <= b
<1>1. PICK at \in [0..Len(q) -> Nat] : RunsBy(at, q, k) /\ at[0] = a /\ at[Len(q)] = b
  BY DEF Runs
<1>2. Len(q) \in Nat /\ 0 \in 0..Len(q) /\ Len(q) \in 0..Len(q) /\ 0 <= Len(q)
  OBVIOUS
<1> QED BY <1>1, <1>2 DEF RunsBy

(* A queue that carries nothing stays where it is. *)
LEMMA RunsStill ==
  ASSUME NEW q \in Seq(InFrames), NEW k, NEW a \in Nat, \A i \in 1..Len(q) : Carries(q[i], k, a, a)
  PROVE  Runs(q, k, a, a)
<1> DEFINE at == [i \in 0..Len(q) |-> a]
<1>1. Len(q) \in Nat
  OBVIOUS
<1>2. /\ at \in [0..Len(q) -> Nat] /\ at[0] = a /\ at[Len(q)] = a
      /\ \A i \in 0..Len(q) : at[i] = a
  BY <1>1
<1> HIDE DEF at
<1>3. \A i, j \in 0..Len(q) : i <= j => at[i] <= at[j]
  BY <1>2
<1>4. \A i \in 1..Len(q) : Carries(q[i], k, at[i - 1], at[i])
  BY <1>1, <1>2
<1> QED BY <1>2, <1>3, <1>4 DEF Runs, RunsBy

(* Two runs, one after the other, are one. *)
LEMMA RunsJoin ==
  ASSUME NEW x \in Seq(InFrames), NEW y \in Seq(InFrames), NEW k, NEW a, NEW b, NEW c,
         Runs(x, k, a, b), Runs(y, k, b, c)
  PROVE  Runs(x \o y, k, a, c)
<1> DEFINE z == x \o y
           m == Len(x)
           n == Len(y)
<1>1. PICK u \in [0..m -> Nat] : RunsBy(u, x, k) /\ u[0] = a /\ u[m] = b
  BY DEF Runs
<1>2. PICK v \in [0..n -> Nat] : RunsBy(v, y, k) /\ v[0] = b /\ v[n] = c
  BY DEF Runs
<1>3. /\ m \in Nat /\ n \in Nat /\ z \in Seq(InFrames) /\ Len(z) = m + n
      /\ \A i \in 1..m : z[i] = x[i]
      /\ \A i \in m + 1..m + n : z[i] = y[i - m]
  BY JoinFacts
<1> DEFINE at == [i \in 0..m + n |-> IF i <= m THEN u[i] ELSE v[i - m]]
<1>4. /\ \A i \in 0..m : u[i] \in Nat
      /\ \A i, j \in 0..m : i <= j => u[i] <= u[j]
      /\ \A i \in 1..m : Carries(x[i], k, u[i - 1], u[i])
      /\ \A i \in 0..n : v[i] \in Nat
      /\ \A i, j \in 0..n : i <= j => v[i] <= v[j]
      /\ \A i \in 1..n : Carries(y[i], k, v[i - 1], v[i])
  BY <1>1, <1>2 DEF RunsBy
<1> HIDE DEF z, m, n
<1>5. /\ \A i \in 0..m : at[i] = u[i]
      /\ \A i \in m..m + n : at[i] = v[i - m]
  BY <1>1, <1>2, <1>3, <1>4
<1>6. at \in [0..m + n -> Nat]
  BY <1>3, <1>4
<1> HIDE DEF at
<1>7. ASSUME NEW i \in 0..m + n, NEW j \in 0..m + n, i <= j PROVE at[i] <= at[j]
  <2>1. CASE j <= m
    <3>1. i \in 0..m /\ j \in 0..m
      BY <1>3, <1>7, <2>1
    <3>2. u[i] <= u[j] /\ at[i] = u[i] /\ at[j] = u[j]
      BY <1>4, <1>5, <1>7, <3>1
    <3> QED BY <3>2
  <2>2. CASE i >= m
    <3>1. i - m \in 0..n /\ j - m \in 0..n /\ i - m <= j - m
      BY <1>3, <1>7, <2>2
    <3>2. v[i - m] <= v[j - m]
      BY <1>4, <3>1
    <3>3. at[i] = v[i - m] /\ at[j] = v[j - m]
      BY <1>3, <1>5, <1>7, <2>2
    <3> QED BY <3>2, <3>3
  <2>3. CASE i < m /\ m < j
    <3>1. u[i] <= u[m]
      BY <1>3, <1>4, <1>7, <2>3
    <3>2. j - m \in 0..n /\ 0 \in 0..n /\ 0 <= j - m
      BY <1>3, <1>7, <2>3
    <3>3. v[0] <= v[j - m]
      BY <1>4, <3>2
    <3>4. at[i] = u[i] /\ at[j] = v[j - m]
      BY <1>3, <1>5, <2>3
    <3>5. u[i] \in Nat /\ u[m] \in Nat /\ v[j - m] \in Nat /\ u[m] = v[0]
      BY <1>1, <1>2, <1>3, <1>4, <2>3, <3>2
    <3> QED BY <3>1, <3>3, <3>4, <3>5
  <2> QED BY <1>3, <2>1, <2>2, <2>3
<1>8. ASSUME NEW i \in 1..m + n PROVE Carries(z[i], k, at[i - 1], at[i])
  <2>1. CASE i <= m
    <3>1. i \in 1..m /\ i - 1 \in 0..m /\ i \in 0..m
      BY <1>3, <2>1
    <3> QED BY <1>3, <1>4, <1>5, <3>1
  <2>2. CASE i > m
    <3>1. i \in m + 1..m + n /\ i - m \in 1..n /\ i \in m..m + n /\ i - 1 \in m..m + n
          /\ (i - 1) - m = (i - m) - 1
      BY <1>3, <2>2
    <3>2. z[i] = y[i - m] /\ at[i] = v[i - m] /\ at[i - 1] = v[(i - m) - 1]
      BY <1>3, <1>5, <3>1
    <3>3. Carries(y[i - m], k, v[(i - m) - 1], v[i - m])
      BY <1>4, <3>1
    <3> QED BY <3>2, <3>3
  <2> QED BY <1>3, <2>1, <2>2
<1>9. at[0] = a /\ at[m + n] = c
  <2>1. 0 \in 0..m /\ m + n \in m..m + n /\ (m + n) - m = n
    BY <1>3
  <2> QED BY <1>1, <1>2, <1>5, <2>1
<1>10. Runs(z, k, a, c)
  BY <1>3, <1>6, <1>7, <1>8, <1>9 DEF Runs, RunsBy
<1> QED BY <1>10 DEF z

(* A run over two queues passes a place between them. *)
LEMMA RunsSplit ==
  ASSUME NEW x \in Seq(InFrames), NEW y \in Seq(InFrames), NEW k, NEW a, NEW c,
         Runs(x \o y, k, a, c)
  PROVE  \E b \in Nat : a <= b /\ b <= c /\ Runs(x, k, a, b) /\ Runs(y, k, b, c)
<1> DEFINE z == x \o y
           m == Len(x)
           n == Len(y)
<1>1. /\ m \in Nat /\ n \in Nat /\ z \in Seq(InFrames) /\ Len(z) = m + n
      /\ \A i \in 1..m : z[i] = x[i]
      /\ \A i \in m + 1..m + n : z[i] = y[i - m]
  BY JoinFacts
<1>2. PICK at \in [0..m + n -> Nat] : RunsBy(at, z, k) /\ at[0] = a /\ at[m + n] = c
  BY <1>1 DEF Runs
<1> HIDE DEF z
<1>3. /\ \A i \in 0..m + n : at[i] \in Nat
      /\ \A i, j \in 0..m + n : i <= j => at[i] <= at[j]
      /\ \A i \in 1..m + n : Carries(z[i], k, at[i - 1], at[i])
  BY <1>1, <1>2 DEF RunsBy
<1> DEFINE u == [i \in 0..m |-> at[i]]
           v == [i \in 0..n |-> at[m + i]]
           b == at[m]
<1> HIDE DEF m, n
<1>4. /\ u \in [0..m -> Nat] /\ \A i \in 0..m : u[i] = at[i] /\ i \in 0..m + n
      /\ v \in [0..n -> Nat] /\ \A i \in 0..n : v[i] = at[m + i] /\ m + i \in 0..m + n
  BY <1>1, <1>3
<1> HIDE DEF u, v
<1>5. b \in Nat /\ a <= b /\ b <= c
  <2>1. 0 \in 0..m + n /\ m \in 0..m + n /\ m + n \in 0..m + n /\ 0 <= m /\ m <= m + n
    BY <1>1
  <2> QED BY <1>2, <1>3, <2>1
<1>6. Runs(x, k, a, b)
  <2>1. \A i, j \in 0..m : i <= j => u[i] <= u[j]
    BY <1>3, <1>4
  <2>2. ASSUME NEW i \in 1..m PROVE Carries(x[i], k, u[i - 1], u[i])
    <3>1. i \in 1..m + n /\ i - 1 \in 0..m /\ i \in 0..m
      BY <1>1
    <3>2. x[i] = z[i] /\ u[i - 1] = at[i - 1] /\ u[i] = at[i]
      BY <1>1, <1>4, <3>1
    <3> QED BY <1>3, <3>1, <3>2
  <2>3. u[0] = a /\ u[m] = b
    BY <1>1, <1>2, <1>4
  <2> QED BY <1>4, <2>1, <2>2, <2>3 DEF Runs, RunsBy, m
<1>7. Runs(y, k, b, c)
  <2>1. ASSUME NEW i \in 0..n, NEW j \in 0..n, i <= j PROVE v[i] <= v[j]
    <3>1. m + i <= m + j
      BY <1>1, <2>1
    <3> QED BY <1>3, <1>4, <3>1
  <2>2. ASSUME NEW i \in 1..n PROVE Carries(y[i], k, v[i - 1], v[i])
    <3>1. m + i \in 1..m + n /\ m + i \in m + 1..m + n /\ (m + i) - m = i
          /\ i - 1 \in 0..n /\ i \in 0..n /\ (m + i) - 1 = m + (i - 1)
      BY <1>1
    <3>2. y[i] = z[m + i] /\ v[i - 1] = at[(m + i) - 1] /\ v[i] = at[m + i]
      BY <1>1, <1>4, <3>1
    <3>3. Carries(z[m + i], k, at[(m + i) - 1], at[m + i])
      BY <1>3, <3>1
    <3> QED BY <3>2, <3>3
  <2>3. v[0] = b /\ v[n] = c
    BY <1>1, <1>2, <1>4
  <2> QED BY <1>4, <2>1, <2>2, <2>3 DEF Runs, RunsBy, n
<1> QED BY <1>5, <1>6, <1>7

(* A frame whose payload the machine takes. *)
Taken(r, f) == f.type = "tcp" /\ ForUs(r, f) /\ ~f.syn /\ f.data # <<>>

(* What the receiver shows is as it was. *)
Unshown(r, q) == q.http_response = r.http_response /\ q.http_valid = r.http_valid

(* Payload goes to the capture or to the record parser; nothing else a     *)
(* frame does shows.                                                       *)
LEMMA HandleShows ==
  ASSUME NEW s, StackOK(s), s = [g |-> s.g, t |-> s.t], NEW f \in InFrames
  PROVE  LET h == Handle(s, f)
         IN /\ ~Taken(s.g, f) => Unshown(s.g, h.g) /\ h.t = s.t
            /\ Taken(s.g, f) =>
                 \E b : /\ NetOK(b) /\ Unshown(s.g, b) /\ Kept(s.g, b)
                        /\ s.g.target_port # TLS => h = [g |-> HttpCapture(b, f.data), t |-> s.t]
                        /\ s.g.target_port = TLS => h = TlsPayload([g |-> b, t |-> s.t], f.data)
<1> DEFINE r == s.g
           h == Handle(s, f)
           a == [r EXCEPT !.last_ack = f.ack, !.last_seq = f.seq]
           b == [a EXCEPT !.remote_next = f.seq + Len(f.data)]
           y == [a EXCEPT !.synack = TRUE]
           seen  == [s EXCEPT !.g.last_ack = f.ack, !.g.last_seq = f.seq]
           moved == [seen EXCEPT !.g.remote_next = f.seq + Len(f.data)]
<1>1. r \in Nets /\ Len(r.http_response) <= Capture_ /\ SessionOK(s.t)
  BY DEF StackOK, NetOK
<1>2. CASE f.type = "arp"
  <2>1. h = [s EXCEPT !.g.mac = TRUE]
    BY <1>2 DEF Handle
  <2>2. Unshown(r, h.g) /\ h.t = s.t
    BY <1>1, <2>1 DEF Unshown, Nets
  <2> QED BY <1>2, <2>2 DEF Taken
<1>3. CASE f.type = "dns"
  <2> DEFINE c == r.dns_valid
             d == IF ~c /\ f.ips # <<>> THEN f.ips[1] ELSE r.dns_last
             e == c \/ f.ips # <<>>
             ips == f.ips
             x == [r EXCEPT !.dns_ips = ips, !.dns_last = d, !.dns_valid = e]
  <2>1. h = [s EXCEPT !.g = x]
    BY <1>1, <1>3 DEF Handle, HandleDns, Nets
  <2> HIDE DEF d, e, ips
  <2>3. Unshown(r, x)
    BY <1>1 DEF Unshown, Nets
  <2> HIDE DEF x, h, r
  <2>4. h.g = x /\ h.t = s.t
    BY <2>1
  <2>2. Unshown(r, h.g) /\ h.t = s.t
    BY <2>3, <2>4
  <2> QED BY <1>3, <2>2 DEF Taken, r, h
<1>4. CASE f.type = "tcp"
  <2>1. f \in Segments
    BY <1>4, FrameKinds
  <2>2. /\ f.ack \in Int /\ f.seq \in Int /\ f.data \in Seq(InUnits)
    BY <2>1 DEF Segments
  <2>3. f.seq + Len(f.data) \in Int
    BY <2>2
  <2>4. a \in Nets /\ y \in Nets /\ b \in Nets
    <3>1. a \in Nets
      BY <1>1, <2>2 DEF Nets
    <3> HIDE DEF a
    <3> QED BY <2>3, <3>1 DEF Nets
  <2>5. Unshown(r, a) /\ Kept(r, a)
    BY <1>1 DEF Nets, Kept, Unshown
  <2>6. seen = [g |-> a, t |-> s.t]
    <3>1. seen = [s EXCEPT !.g = a]
      BY <1>1 DEF Nets
    <3> HIDE DEF a, seen
    <3>2. \A q, u, v : [[g |-> q, t |-> u] EXCEPT !.g = v] = [g |-> v, t |-> u]
      OBVIOUS
    <3> QED BY <3>1, <3>2
  <2>7. moved = [g |-> b, t |-> s.t]
    <3>1. \A q, u, v : [[g |-> q, t |-> u] EXCEPT !.g.remote_next = v]
                        = [g |-> [q EXCEPT !.remote_next = v], t |-> u]
      OBVIOUS
    <3> HIDE DEF a, seen
    <3> QED BY <2>6, <3>1
  <2>8. [seen EXCEPT !.g.synack = TRUE] = [g |-> y, t |-> s.t]
    <3> HIDE DEF a, seen
    <3>1. seen.g = a
      BY <2>6
    <3>2. [seen EXCEPT !.g.synack = TRUE] = [seen EXCEPT !.g = y]
      BY <3>1
    <3>3. \A q, u, v : [[g |-> q, t |-> u] EXCEPT !.g = v] = [g |-> v, t |-> u]
      OBVIOUS
    <3> HIDE DEF y
    <3> QED BY <2>6, <3>2, <3>3
  <2>9. /\ ~Taken(r, f) => h \in {s, [seen EXCEPT !.g.synack = TRUE], seen}
        /\ Taken(r, f) /\ r.target_port = TLS => h = TlsPayload(moved, f.data)
        /\ Taken(r, f) /\ r.target_port # TLS => h = [moved EXCEPT !.g = HttpCapture(@, f.data)]
    <3> DEFINE A == ForUs(s.g, f) /\ f.syn
               B == ForUs(s.g, f) /\ ~f.syn /\ f.data = <<>>
               C == ~ForUs(s.g, f)
               T == TlsPayload(moved, f.data)
               H == [moved EXCEPT !.g = HttpCapture(@, f.data)]
               Y == [seen EXCEPT !.g.synack = TRUE]
               O == r.target_port = TLS
               K == Taken(r, f)
    <3>1. h = CASE C -> s [] A -> Y [] B -> seen [] OTHER -> IF O THEN T ELSE H
      BY <1>4 DEF Handle, HandleTcp
    <3>2. /\ K <=> ~A /\ ~B /\ ~C
          /\ (A => ~B /\ ~C) /\ (B => ~C)
      BY <1>4 DEF Taken
    <3> HIDE DEF A, B, C, T, H, Y, O, K, h, seen, moved
    <3>3. CASE A
      BY <3>1, <3>2, <3>3 DEF Y, K
    <3>4. CASE B
      BY <3>1, <3>2, <3>4 DEF Y, K
    <3>5. CASE C
      BY <3>1, <3>2, <3>5 DEF Y, K
    <3>6. CASE K
      <4>1. h = IF O THEN T ELSE H
        BY <3>1, <3>2, <3>6
      <4> QED BY <3>6, <4>1 DEF K, T, H, O
    <3> QED BY <3>2, <3>3, <3>4, <3>5, <3>6 DEF K
  <2> HIDE DEF seen, moved, h
  <2>10. /\ Unshown(r, b) /\ Kept(r, b) /\ Unshown(r, y)
    <3> HIDE DEF r
    <3> QED BY <2>4, <2>5 DEF Nets, Kept, Unshown
  <2> HIDE DEF a, b, y
  <2>11. NetOK(b)
    BY <1>1, <2>4, <2>10 DEF NetOK, Unshown
  <2>12. Unshown(r, r)
    BY DEF Unshown
  <2> HIDE DEF r
  <2>13. ASSUME ~Taken(r, f) PROVE Unshown(r, h.g) /\ h.t = s.t
    <3>1. h \in {s, [g |-> y, t |-> s.t], [g |-> a, t |-> s.t]}
      BY <2>6, <2>8, <2>9, <2>13
    <3>2. r = s.g
      BY DEF r
    <3>3. CASE h = s
      BY <2>12, <3>2, <3>3
    <3>4. CASE h = [g |-> y, t |-> s.t]
      BY <2>10, <3>4
    <3>5. CASE h = [g |-> a, t |-> s.t]
      BY <2>5, <3>5
    <3> QED BY <3>1, <3>3, <3>4, <3>5
  <2>14. [moved EXCEPT !.g = HttpCapture(@, f.data)] = [g |-> HttpCapture(b, f.data), t |-> s.t]
    BY <2>7
  <2>15. ASSUME Taken(r, f)
         PROVE  /\ r.target_port # TLS => h = [g |-> HttpCapture(b, f.data), t |-> s.t]
                /\ r.target_port = TLS => h = TlsPayload([g |-> b, t |-> s.t], f.data)
    BY <2>7, <2>9, <2>14, <2>15
  <2> QED BY <2>10, <2>11, <2>13, <2>15 DEF r, h
<1> QED BY <1>2, <1>3, <1>4, FrameKinds

(* Where the run of frames taken stands at n: over HTTP the first n units  *)
(* of the page are shown; over TLS the end of its record was seen once at  *)
(* most,                                                                   *)
TookPlain(r, n) == /\ r.target_port = HTTP
                   /\ r.http_response = First(r.local_port, n) /\ (r.http_valid <=> n # 0)
TookSecure(r, t, n) == /\ r.target_port = TLS /\ t.plain = <<>> /\ Own(t.app_record, r.local_port)
                       /\ Once(t.app_record) /\ (n = 0 => ~Closes(t.app_record))

(* and, from the request on, nothing is shown or the page, decrypted once. *)
Opened(r, t, n) == \/ r.http_response = <<>>
                   \/ r.http_response = Opening(r.local_port) /\ n # 0 /\ ~Closes(t.app_record)

(* What a payload over TLS does to it. *)
LEMMA SecureTakes ==
  ASSUME NEW s, StackOK(s), NEW data \in Seq(InUnits), NEW n \in Nat, NEW m \in Nat,
         Own(data, s.g.local_port), TookSecure(s.g, s.t, n), Once(data),
         IF Closes(data) THEN n = 0 /\ m = 1 ELSE m = n
  PROVE  LET h == TlsPayload(s, data)
         IN TookSecure(h.g, h.t, m) /\ (Opened(s.g, s.t, n) => Opened(h.g, h.t, m))
<1> DEFINE k == s.g.local_port
           t == s.t
           r == s.g
           c == Capture(t, data)
           d == [c EXCEPT !.plain = <<>>]
           q == HttpCapture(r, c.plain)
           h == TlsPayload(s, data)
<1>1. /\ SessionOK(t) /\ NetOK(r) /\ SessionOK(c) /\ SessionOK(h.t) /\ Kept(r, h.g)
      /\ h.t.plain = <<>>
  BY TlsPayloadOK, CaptureOK DEF StackOK
<1>2. h.g = q /\ h.t = d
  BY DEF TlsPayload
<1>3. c \in Sessions /\ r \in Nets
  BY <1>1 DEF SessionOK, NetOK
<1> HIDE DEF c
<1>4. d.app_record = c.app_record
  BY <1>3 DEF Sessions
<1>5. Sole(t, data, k)
  BY DEF Sole, TookSecure
<1>6. Sole(c, <<>>, k) /\ (Ends(c, <<>>) => Ends(t, data))
  BY <1>1, <1>5, CaptureSole DEF SoleKept, c
<1> HIDE DEF d, h, q
<1>7. Own(h.t.app_record, k) /\ Once(h.t.app_record)
  BY <1>2, <1>4, <1>6 DEF Sole
<1>8. Ends(t, data) => m # 0
  <2>1. Closes(t.app_record) => n # 0
    BY DEF TookSecure
  <2>2. t.plain = <<>>
    BY DEF TookSecure
  <2> QED BY <2>1, <2>2 DEF Ends
<1>9. TookSecure(h.g, h.t, m)
  <2>1. Closes(h.t.app_record) => m # 0
    BY <1>2, <1>4, <1>6, <1>8 DEF Ends
  <2> QED BY <1>1, <1>7, <2>1 DEF TookSecure, Kept
<1>10. ASSUME Opened(r, t, n) PROVE Opened(h.g, h.t, m)
  <2>1. h.g.local_port = k
    BY <1>1 DEF Kept
  <2>2. CASE c.plain = <<>>
    <3>1. q = r
      BY <2>2 DEF HttpCapture, q
    <3>2. CASE r.http_response = <<>>
      BY <1>2, <3>1, <3>2 DEF Opened
    <3>3. CASE r.http_response = Opening(k) /\ n # 0 /\ ~Closes(t.app_record)
      <4>1. ~Closes(data) /\ m = n
        BY <3>3
      <4>2. ~Ends(t, data)
        BY <3>3, <4>1 DEF Ends, TookSecure
      <4>3. ~Closes(c.app_record)
        BY <1>6, <4>2 DEF Ends
      <4> QED BY <1>2, <1>4, <2>1, <3>1, <3>3, <4>1, <4>3 DEF Opened
    <3> QED BY <1>10, <3>2, <3>3 DEF Opened
  <2>3. CASE c.plain # <<>>
    <3>1. c.plain = Page(k) /\ ~Closes(c.app_record) /\ Ends(t, data)
      BY <1>6, <2>3 DEF Sole, Ends
    <3>2. r.http_response = <<>>
      <4>1. CASE n # 0 /\ ~Closes(t.app_record)
        <5>1. ~Closes(data)
          BY <4>1
        <5> QED BY <3>1, <4>1, <5>1 DEF Ends, TookSecure
      <4> QED BY <1>10, <4>1 DEF Opened
    <3>3. q.http_response = Opening(k)
      <4> DEFINE p == c.plain
                 z == r.http_response
                 x == Least(Len(p), Capture_ - Len(z))
                 y == SubSeq(p, 1, x)
                 v == r.http_valid \/ p[1].u = "status"
                 S == [u : {"status", "text"}, conn : {k}]
      <4>1. q.http_response = z \o y
        <5>1. q = [r EXCEPT !.http_valid = v, !.http_response = z \o y]
          BY <2>3, <1>3 DEF HttpCapture, q, Nets
        <5> HIDE DEF v, y, z
        <5> QED BY <1>3, <5>1 DEF Nets
      <4>2. Len(p) = PageLen /\ Capture_ - Len(z) = Capture_
        <5>1. Len(z) = 0 /\ Capture_ \in Nat /\ k \in Int
          BY <1>3, <3>2, SizesAssumption DEF Nets
        <5>2. Len(p) = PageLen
          BY <3>1, <5>1, PageType DEF Mute
        <5> QED BY <5>1, <5>2
      <4>3. y = Opening(k)
        BY <3>1, <4>2 DEF Opening
      <4>4. y \in Seq(S)
        <5> DEFINE l == Capture_ - Len(z)
        <5>1. PageLen \in Nat /\ l \in Nat /\ Len(p) \in Nat /\ Len(p) = PageLen
          BY <4>2, PageAssumption, SizesAssumption
        <5> HIDE DEF l, p, z
        <5>2. Least(Len(p), l) \in Nat /\ Least(Len(p), l) <= PageLen
          BY <5>1, LeastType
        <5>3. x = Least(Len(p), l)
          BY DEF l
        <5> HIDE DEF x
        <5>4. x \in Nat /\ x <= PageLen /\ 0 \in Nat /\ 0 <= x
          BY <5>2, <5>3
        <5>5. SubSeq(Page(k), 0 + 1, x) \in Seq(S)
          BY <5>4, PageParts
        <5>6. 0 + 1 = 1 /\ p = Page(k)
          BY <3>1 DEF p
        <5> HIDE DEF S
        <5> QED BY <5>5, <5>6
      <4> HIDE DEF y
      <4> HIDE DEF S
      <4>5. <<>> \o y = y
        BY <4>4
      <4> QED BY <3>2, <4>1, <4>3, <4>5
    <3> QED BY <1>2, <1>4, <1>8, <2>1, <3>1, <3>3 DEF Opened
  <2> QED BY <2>2, <2>3
<1> QED BY <1>9, <1>10 DEF h

(* Payload on its way to the connection is from its server. *)
Facing(q, r) == \A i \in 1..Len(q) :
    q[i].type = "tcp" /\ q[i].to = r.local_port /\ q[i].data # <<>> => Taken(r, q[i])

(* From n to m: what is taken goes on from where it stood. *)
Goes(s, h, n, m) ==
    /\ TookPlain(s.g, n) => TookPlain(h.g, m)
    /\ TookSecure(s.g, s.t, n) => /\ TookSecure(h.g, h.t, m)
                                  /\ Opened(s.g, s.t, n) => Opened(h.g, h.t, m)

(* What shows and the connection being the same, so is what was taken. *)
LEMMA TookSame ==
  ASSUME NEW r, NEW q, Unshown(r, q), Kept(r, q), NEW t, NEW n
  PROVE  /\ TookPlain(r, n) => TookPlain(q, n)
         /\ TookSecure(r, t, n) => TookSecure(q, t, n)
         /\ Opened(r, t, n) => Opened(q, t, n)
BY DEF TookPlain, TookSecure, Opened, Unshown, Kept

(* A frame that is handled goes on with what was taken. *)
LEMMA HandleTakes ==
  ASSUME NEW ps, NEW s, StackOK(s), Known(ps, s.g), s = [g |-> s.g, t |-> s.t],
         NEW f \in InFrames, FrameOK(ps, f), NEW n \in Nat, NEW m \in Nat, n <= m, m <= PageLen,
         Carries(f, s.g.local_port, n, m),
         f.type = "tcp" /\ f.to = s.g.local_port /\ f.data # <<>> => Taken(s.g, f)
  PROVE  Goes(s, Handle(s, f), n, m)
<1> DEFINE r == s.g
           t == s.t
           k == r.local_port
           h == Handle(s, f)
<1>1. /\ ~Taken(r, f) => Unshown(r, h.g) /\ h.t = t
      /\ Taken(r, f) =>
           \E b : /\ NetOK(b) /\ Unshown(r, b) /\ Kept(r, b)
                  /\ r.target_port # TLS => h = [g |-> HttpCapture(b, f.data), t |-> t]
                  /\ r.target_port = TLS => h = TlsPayload([g |-> b, t |-> t], f.data)
  BY HandleShows
<1>2. Kept(r, h.g)
  BY HandleOK DEF Handled
<1>3. SessionOK(t)
  BY DEF StackOK
<1> HIDE DEF h
<1>4. CASE ~Taken(r, f)
  <2>1. m = n
    BY <1>4 DEF Carries
  <2>2. Unshown(r, h.g) /\ h.t = t
    BY <1>1, <1>4
  <2> QED BY <1>2, <2>1, <2>2, TookSame DEF Goes, h
<1>5. CASE Taken(r, f)
  <2>1. /\ f.type = "tcp" /\ f.data # <<>> /\ f.port = r.target_port /\ f.to = k
    BY <1>5 DEF Taken, ForUs
  <2>2. f \in Segments
    BY <2>1, FrameKinds
  <2>3. f.data \in Seq(InUnits) /\ Own(f.data, k)
    BY <2>1, <2>2 DEF Segments, FrameOK
  <2>4. PICK b : /\ NetOK(b) /\ Unshown(r, b) /\ Kept(r, b)
                 /\ r.target_port # TLS => h = [g |-> HttpCapture(b, f.data), t |-> t]
                 /\ r.target_port = TLS => h = TlsPayload([g |-> b, t |-> t], f.data)
    BY <1>1, <1>5
  <2>5. ASSUME TookPlain(r, n) PROVE TookPlain(h.g, m)
    <3> DEFINE q == HttpCapture(b, f.data)
    <3>1. r.target_port = HTTP /\ r.http_response = First(k, n) /\ (r.http_valid <=> n # 0)
      BY <2>5 DEF TookPlain
    <3>2. HTTP # TLS /\ f.port = HTTP
      BY <2>1, <3>1 DEF HTTP, TLS
    <3>3. m = n + Len(f.data) /\ f.data = Part(k, n, m)
      BY <2>1, <3>2 DEF Carries
    <3>4. h.g = q
      BY <2>4, <3>1, <3>2
    <3>5. q.http_response = First(k, m) /\ (q.http_valid <=> b.http_valid \/ n = 0)
      <4> DEFINE u == f.data
      <4>1. b.http_response = First(k, n) /\ NetOK(b)
        BY <2>4, <3>1 DEF Unshown
      <4>2. u # <<>> /\ q = HttpCapture(b, u) /\ u = Part(k, n, m)
        BY <2>1, <3>3
      <4> HIDE DEF k, u, q
      <4>4. HttpCapture(b, u).http_response = First(k, m)
        BY <4>1, <4>2, CaptureGoesOn
      <4>5. HttpCapture(b, u).http_valid <=> b.http_valid \/ n = 0
        BY <4>1, <4>2, CaptureGoesOn
      <4> QED BY <4>2, <4>4, <4>5
    <3>6. m # 0
      <4>1. Len(f.data) \in Nat \ {0}
        BY <2>1, <2>3, TailType
      <4> QED BY <3>3, <4>1
    <3>7. b.http_valid <=> n # 0
      BY <2>4, <3>1 DEF Unshown
    <3>8. h.g.target_port = HTTP /\ h.g.local_port = k
      BY <1>2, <3>1 DEF Kept
    <3> HIDE DEF q
    <3> QED BY <3>4, <3>5, <3>6, <3>7, <3>8 DEF TookPlain
  <2>6. ASSUME TookSecure(r, t, n)
        PROVE  TookSecure(h.g, h.t, m) /\ (Opened(r, t, n) => Opened(h.g, h.t, m))
    <3> DEFINE e == [g |-> b, t |-> t]
    <3>1. r.target_port = TLS /\ HTTP # TLS
      BY <2>6 DEF TookSecure, HTTP, TLS
    <3>2. Once(f.data) /\ IF Closes(f.data) THEN n = 0 /\ m = 1 ELSE m = n
      BY <2>1, <3>1 DEF Carries
    <3>3. TookSecure(b, t, n) /\ (Opened(r, t, n) => Opened(b, t, n)) /\ b.local_port = k
      BY <2>4, <2>6, TookSame DEF Kept
    <3>4. e.g = b /\ e.t = t
      OBVIOUS
    <3>5. h = TlsPayload(e, f.data)
      BY <2>4, <3>1
    <3> HIDE DEF e, k
    <3>6. StackOK(e)
      BY <1>3, <2>4, <3>4 DEF StackOK
    <3>7. TookSecure(h.g, h.t, m) /\ (Opened(e.g, e.t, n) => Opened(h.g, h.t, m))
      BY <2>3, <3>2, <3>3, <3>4, <3>5, <3>6, SecureTakes
    <3> QED BY <3>3, <3>4, <3>7
  <2> QED BY <2>5, <2>6 DEF Goes, h
<1> QED BY <1>4, <1>5

(* So does net_poll, all along the run of the frames in the ring. *)
LEMMA PolledTakes ==
  ASSUME NEW ps, NEW s, StackOK(s), Known(ps, s.g), s = [g |-> s.g, t |-> s.t],
         NEW frames \in Seq(InFrames), \A i \in 1..Len(frames) : FrameOK(ps, frames[i]),
         Facing(frames, s.g), NEW n, NEW m, m <= PageLen,
         Runs(frames, s.g.local_port, n, m)
  PROVE  Goes(s, Polled(s, frames), n, m)
<1> DEFINE k == s.g.local_port
<1>0. PICK w : PolledBy(w, s, frames)
  BY PolledSteps DEF StackOK, NetOK
<1>1. /\ w[0] = s
      /\ \A i \in 1..Len(frames) : w[i] = Handle(w[i - 1], frames[i])
      /\ Polled(s, frames) = w[Len(frames)]
  BY <1>0 DEF PolledBy
<1>2. PICK at \in [0..Len(frames) -> Nat] : RunsBy(at, frames, k) /\ at[0] = n /\ at[Len(frames)] = m
  BY DEF Runs
<1> DEFINE Fine(x, i) == Handled(ps, s, x) /\ x = [g |-> x.g, t |-> x.t] /\ Goes(s, x, n, at[i])
           P == {i \in Nat : i <= Len(frames) => Fine(w[i], i)}
<1>3. 0 \in P
  <2>1. Goes(s, s, n, n)
    BY DEF Goes
  <2> QED BY <1>1, <1>2, <2>1 DEF Handled, Kept, Secure
<1>4. ASSUME NEW i \in P PROVE i + 1 \in P
  <2>1. i \in Nat /\ (i <= Len(frames) => Fine(w[i], i))
    OBVIOUS
  <2> SUFFICES ASSUME i + 1 <= Len(frames) PROVE Fine(w[i + 1], i + 1)
    BY <2>1
  <2>2. Fine(w[i], i)
    BY <2>1
  <2>3. i + 1 \in 1..Len(frames) /\ (i + 1) - 1 = i
    BY <2>1
  <2> DEFINE x == w[i]
             f == frames[i + 1]
             y == w[i + 1]
             a == at[i]
             b == at[i + 1]
  <2>4. y = Handle(x, f) /\ f \in InFrames /\ FrameOK(ps, f)
    BY <1>1, <2>3
  <2>5. /\ a \in Nat /\ b \in Nat /\ a <= b /\ b <= PageLen /\ Carries(f, k, a, b)
    <3>1. i \in 0..Len(frames) /\ i + 1 \in 0..Len(frames) /\ Len(frames) \in 0..Len(frames)
          /\ i <= i + 1 /\ i + 1 <= Len(frames)
      BY <2>1
    <3>2. a \in Nat /\ b \in Nat /\ m \in Nat /\ a <= b /\ b <= m
      BY <1>2, <3>1 DEF RunsBy
    <3>3. Carries(f, k, a, b)
      BY <1>2, <2>3 DEF RunsBy
    <3> QED BY <3>2, <3>3, PageAssumption
  <2>6. f.type = "tcp" /\ f.to = k /\ f.data # <<>> => Taken(s.g, f)
    BY <2>3 DEF Facing
  <2> HIDE DEF x, y, f, a, b
  <2>7. Handled(ps, s, x) /\ x = [g |-> x.g, t |-> x.t] /\ Goes(s, x, n, a)
    BY <2>2 DEF x, a
  <2>8. StackOK(x) /\ Known(ps, x.g) /\ Kept(s.g, x.g)
        /\ (x.t.verified => s.t.verified \/ Accepted(ps, s.g.local_port))
        /\ Secure(s, x)
    BY <2>7 DEF Handled
  <2>9. Handled(ps, x, y)
    BY <2>4, <2>7, <2>8, HandleOK
  <2>10. y = [g |-> y.g, t |-> y.t]
    BY <2>9 DEF Handled
  <2>11. Secure(s, y)
    <3>1. Kept(s.g, x.g) /\ Secure(s, x) /\ Secure(x, y)
      BY <2>8, <2>9 DEF Handled
    <3> QED BY <3>1 DEF Kept, Secure
  <2>12. Handled(ps, s, y)
    BY <2>8, <2>9, <2>11 DEF Handled, Kept
  <2>13. Goes(x, y, a, b)
    <3>1. Carries(f, x.g.local_port, a, b)
      BY <2>5, <2>8 DEF Kept
    <3>2. f.type = "tcp" /\ f.to = x.g.local_port /\ f.data # <<>> => Taken(x.g, f)
      BY <2>6, <2>8 DEF Kept, Taken, ForUs
    <3> QED BY <2>4, <2>5, <2>7, <2>8, <3>1, <3>2, HandleTakes
  <2>14. Goes(s, y, n, b)
    BY <2>7, <2>13 DEF Goes
  <2> QED BY <2>10, <2>12, <2>14 DEF y, b
<1>5. P = Nat
  <2>1. P \in SUBSET Nat
    OBVIOUS
  <2> HIDE DEF P
  <2> QED BY <1>3, <1>4, <2>1, NatBySteps
<1>6. Fine(w[Len(frames)], Len(frames))
  <2> DEFINE l == Len(frames)
  <2>1. l \in Nat /\ l <= l
    OBVIOUS
  <2>2. l \in P
    BY <1>5, <2>1
  <2> HIDE DEF l, Fine
  <2> QED BY <2>1, <2>2 DEF l
<1>7. Goes(s, w[Len(frames)], n, at[Len(frames)])
  BY <1>6
<1>8. at[Len(frames)] = m
  BY <1>2
<1> DEFINE x == w[Len(frames)]
<1>9. Polled(s, frames) = x
  BY <1>1
<1> QED BY <1>7, <1>8, <1>9

(* Where no payload is taken, a poll shows nothing new. *)
LEMMA PolledQuiet ==
  ASSUME NEW ps, NEW s, StackOK(s), Known(ps, s.g), s = [g |-> s.g, t |-> s.t],
         NEW frames \in Seq(InFrames), \A i \in 1..Len(frames) : FrameOK(ps, frames[i]),
         \A i \in 1..Len(frames) : ~Taken(s.g, frames[i])
  PROVE  LET h == Polled(s, frames) IN Unshown(s.g, h.g) /\ h.t = s.t
<1>0. PICK w : PolledBy(w, s, frames)
  BY PolledSteps DEF StackOK, NetOK
<1>1. /\ w[0] = s
      /\ \A i \in 1..Len(frames) : w[i] = Handle(w[i - 1], frames[i])
      /\ Polled(s, frames) = w[Len(frames)]
  BY <1>0 DEF PolledBy
<1> DEFINE Fine(x) == /\ x = [g |-> x.g, t |-> x.t] /\ StackOK(x) /\ Known(ps, x.g) /\ Kept(s.g, x.g)
                      /\ Unshown(s.g, x.g) /\ x.t = s.t
           P == {i \in Nat : i <= Len(frames) => Fine(w[i])}
<1>3. 0 \in P
  <2>1. Fine(s)
    BY DEF Kept, Unshown
  <2> QED BY <1>1, <2>1
<1>4. ASSUME NEW i \in P PROVE i + 1 \in P
  <2>1. i \in Nat /\ (i <= Len(frames) => Fine(w[i]))
    OBVIOUS
  <2> SUFFICES ASSUME i + 1 <= Len(frames) PROVE Fine(w[i + 1])
    BY <2>1
  <2>2. Fine(w[i])
    BY <2>1
  <2>3. i + 1 \in 1..Len(frames) /\ (i + 1) - 1 = i
    BY <2>1
  <2> DEFINE x == w[i]
             f == frames[i + 1]
             y == w[i + 1]
  <2>4. y = Handle(x, f) /\ f \in InFrames /\ FrameOK(ps, f) /\ ~Taken(s.g, f)
    BY <1>1, <2>3
  <2> HIDE DEF x, y, f
  <2>5. Fine(x)
    BY <2>2 DEF x
  <2>6. Handled(ps, x, y)
    BY <2>4, <2>5, HandleOK
  <2>7. ~Taken(x.g, f)
    BY <2>4, <2>5 DEF Kept, Taken, ForUs
  <2>8. Unshown(x.g, y.g) /\ y.t = x.t
    BY <2>4, <2>5, <2>7, HandleShows
  <2>9. /\ y = [g |-> y.g, t |-> y.t] /\ StackOK(y) /\ Known(ps, y.g) /\ Kept(s.g, y.g)
    BY <2>5, <2>6 DEF Handled, Kept
  <2>10. Unshown(s.g, y.g) /\ y.t = s.t
    BY <2>5, <2>8 DEF Unshown
  <2> QED BY <2>9, <2>10 DEF y
<1>5. P = Nat
  <2>1. P \in SUBSET Nat
    OBVIOUS
  <2> HIDE DEF P
  <2> QED BY <1>3, <1>4, <2>1, NatBySteps
<1>6. Fine(w[Len(frames)])
  <2> DEFINE l == Len(frames)
  <2>1. l \in Nat /\ l <= l
    OBVIOUS
  <2>2. l \in P
    BY <1>5, <2>1
  <2> HIDE DEF l, Fine
  <2> QED BY <2>1, <2>2 DEF l
<1> QED BY <1>1, <1>6

(* What is not sealed does not end a page. *)
LEMMA MuteOpen ==
  ASSUME NEW n, NEW us, Mute(us, n)
  PROVE  ~Closes(us) /\ Once(us)
BY DEF Mute, Closes, Closing, Once

(* A server ends the page once, with the last unit of its answer to the    *)
(* sealed request.                                                         *)
AtEnd(us) == \A i \in 1..Len(us) : Closing(us[i]) => i = Len(us)

(* The end of the page is the end of an answer, to a sealed request only. *)
LEMMA ReplyCloses ==
  ASSUME NEW k \in Int, NEW unit \in OutUnits, NEW us \in Reply(k, unit)
  PROVE  /\ AtEnd(us) /\ Once(us) /\ (Closes(us) => unit.u = "sealed get")
         /\ unit.u = "get" => us = Page(k)
<1>0. PageLen \in Nat \ {0}
  BY PageAssumption
<1> SUFFICES AtEnd(us) /\ (Closes(us) => unit.u = "sealed get") /\ (unit.u = "get" => us = Page(k))
  BY DEF AtEnd, Once
<1>m. ASSUME NEW n, Mute(us, n), unit.u # "get"
      PROVE  AtEnd(us) /\ (Closes(us) => unit.u = "sealed get") /\ (unit.u = "get" => us = Page(k))
  BY <1>m DEF Mute, AtEnd, Closes, Closing
<1>1. unit.u \in {"get", "CH", "CKE", "finished", "sealed get"}
  BY DEF OutUnits
<1>2. CASE unit.u = "get"
  <2>1. us = Page(k)
    BY <1>2 DEF Reply
  <2>2. Mute(us, PageLen)
    BY <1>0, <2>1, PageType
  <2>3. AtEnd(us) /\ ~Closes(us)
    BY <2>2 DEF Mute, AtEnd, Closes, Closing
  <2> QED BY <2>1, <2>3
<1>3. CASE unit.u = "CH"
  <2>1. PICK layout \in Layouts : us = Flight(k, layout)
    BY <1>3 DEF Reply
  <2>2. Mute(us, 10) \/ Mute(us, 16)
    BY <2>1, FlightType
  <2> QED BY <1>3, <2>2, <1>m
<1>a. ASSUME us = Alert, unit.u # "get"
      PROVE  AtEnd(us) /\ (Closes(us) => unit.u = "sealed get") /\ (unit.u = "get" => us = Page(k))
  <2>1. Mute(us, 3)
    BY <1>a, AlertType
  <2> QED BY <1>a, <2>1, <1>m
<1>4. CASE unit.u = "finished" /\ unit.key = k /\ unit.over = Exchanged
  <2> DEFINE e == [u |-> "body", msg |-> "ccs"]
             o == Append(Exchanged, "Finished")
             v == [msg |-> "ServerFinished", over |-> o]
             w == <<v>>
             b == <<e>>
             c == Sealed(k, 0, w)
             p == Record("ccs", b)
             h == <<[u |-> "head", type |-> "handshake", len |-> Len(c)], [u |-> "head2"]>>
             q == h \o c
  <2>1. us = p \o q
    BY <1>4 DEF Reply, Record
  <2>2. e \in InUnits
    BY DEF InUnits, Msgs
  <2>3. o \in Seq(Msgs)
    <3>1. Exchanged \in Seq(Msgs) /\ "Finished" \in Msgs
      BY DEF Exchanged, Msgs
    <3> QED BY <3>1, AppendType
  <2> HIDE DEF o
  <2>4. v \in Vouchers
    BY <2>3 DEF Vouchers
  <2> HIDE DEF v, e
  <2>5. w \in Seq(PageUnits \cup Vouchers) /\ Len(w) = 1
    BY <2>4
  <2> HIDE DEF w
  <2>6. /\ c \in Seq(InUnits) /\ Len(c) = 1
        /\ \A i \in 1..Len(c) : c[i].seq = 0
    BY <2>5, SealedType
  <2>7. b \in Seq(InUnits) /\ Len(b) = 1 /\ Mute(b, 1)
    BY <2>2 DEF Mute, e
  <2> HIDE DEF b, c
  <2>8. p \in Seq(InUnits) /\ ~Closes(p)
    <3>1. Mute(p, 3)
      <4>1. Mute(p, 1 + 2)
        BY <2>7, RecordMute
      <4> QED BY <4>1
    <3> HIDE DEF p
    <3> QED BY <3>1, MuteOpen DEF Mute
  <2>9. h \in Seq(InUnits) /\ ~Closes(h)
    <3>1. Len(h) = 2 /\ h[1].u = "head" /\ h[2].u = "head2" /\ h[1] \in InUnits /\ h[2] \in InUnits
      BY <2>6 DEF InUnits
    <3> HIDE DEF h
    <3>2. \A i \in 1..Len(h) : i = 1 \/ i = 2
      BY <3>1
    <3>3. ~Closes(h)
      BY <3>1, <3>2 DEF Closes, Closing
    <3>4. h = <<h[1], h[2]>>
      BY DEF h
    <3>5. <<h[1], h[2]>> \in Seq(InUnits)
      BY <3>1
    <3> QED BY <3>3, <3>4, <3>5
  <2>10. ~Closes(c)
    BY <2>6 DEF Closes, Closing
  <2> HIDE DEF p, h
  <2>11. q \in Seq(InUnits) /\ ~Closes(q)
    BY <2>6, <2>9, <2>10, ConcatOnce, ConcatType
  <2> HIDE DEF q
  <2>12. p \o q \in Seq(InUnits) /\ ~Closes(p \o q)
    BY <2>8, <2>11, ConcatOnce, ConcatType
  <2> QED BY <1>4, <2>1, <2>12 DEF AtEnd, Closes
<1>5. CASE unit.u = "finished" /\ ~(unit.key = k /\ unit.over = Exchanged)
  <2>1. us = Alert
    BY <1>5 DEF Reply
  <2> QED BY <1>5, <2>1, <1>a
<1>6. CASE unit.u = "sealed get" /\ unit.key = k
  <2> DEFINE b == Sealed(k, 1, Page(k))
             h == <<[u |-> "head", type |-> "data", len |-> Len(b)], [u |-> "head2"]>>
  <2>1. us = h \o b
    BY <1>6 DEF Reply, Record
  <2>2. Page(k) \in Seq(PageUnits \cup Vouchers) /\ Len(Page(k)) = PageLen
    <3>1. \A i \in 1..PageLen : Page(k)[i] \in PageUnits \cup Vouchers
      BY PageType
    <3>2. Page(k) = [i \in 1..PageLen |-> Page(k)[i]]
      BY DEF Page
    <3> QED BY <1>0, <3>1, <3>2
  <2>3. /\ b \in Seq(InUnits) /\ Len(b) = PageLen
        /\ \A i \in 1..PageLen : b[i].place = i
    <3> DEFINE page == Page(k)
    <3>1. page \in Seq(PageUnits \cup Vouchers) /\ Len(page) = PageLen /\ 1 \in Nat
      BY <2>2
    <3> HIDE DEF page
    <3>2. /\ Sealed(k, 1, page) \in Seq(InUnits) /\ Len(Sealed(k, 1, page)) = PageLen
          /\ \A i \in 1..PageLen :
                LET x == Sealed(k, 1, page)[i]
                IN x.seq = 1 /\ x.plain = page[i] /\ x.place = i /\ x.of = PageLen
      BY <3>1, SealedType
    <3> QED BY <3>2 DEF page
  <2> HIDE DEF b
  <2>4. h \in Seq(InUnits) /\ Len(h) = 2 /\ h[1].u = "head" /\ h[2].u = "head2"
    <3>1. Len(h) = 2 /\ h[1].u = "head" /\ h[2].u = "head2" /\ h[1] \in InUnits /\ h[2] \in InUnits
      BY <1>0, <2>3 DEF InUnits
    <3>2. h = <<h[1], h[2]>>
      OBVIOUS
    <3> HIDE DEF h
    <3>3. <<h[1], h[2]>> \in Seq(InUnits)
      BY <3>1
    <3> QED BY <3>1, <3>2, <3>3
  <2> HIDE DEF h
  <2>5. /\ Len(us) = 2 + PageLen
        /\ \A i \in 1..2 : us[i] = h[i]
        /\ \A i \in 2 + 1..2 + PageLen : us[i] = b[i - 2]
    <3>1. /\ Len(us) = Len(h) + Len(b)
          /\ \A i \in 1..Len(h) : us[i] = h[i]
          /\ \A i \in Len(h) + 1..Len(h) + Len(b) : us[i] = b[i - Len(h)]
      <4>1. b \in Seq(InUnits) /\ h \in Seq(InUnits)
        BY <2>3, <2>4
      <4> QED BY <2>1, <4>1, JoinFacts
    <3> QED BY <1>0, <2>3, <2>4, <3>1
  <2>6. AtEnd(us)
    <3> SUFFICES ASSUME NEW i \in 1..Len(us), Closing(us[i]) PROVE i = Len(us)
      BY DEF AtEnd
    <3>1. CASE i \in 1..2
      <4>1. i = 1 \/ i = 2
        BY <3>1
      <4>2. us[i] = h[i]
        BY <2>5, <3>1
      <4> QED BY <2>4, <4>1, <4>2 DEF Closing
    <3>2. CASE i \notin 1..2
      <4>1. i \in 2 + 1..2 + PageLen /\ i - 2 \in 1..PageLen
        BY <1>0, <2>5, <3>2
      <4>2. us[i].place = i - 2
        BY <2>3, <2>5, <4>1
      <4> QED BY <1>0, <2>5, <4>1, <4>2 DEF Closing
    <3> QED BY <3>1, <3>2
  <2> QED BY <1>6, <2>6
<1>7. CASE unit.u = "sealed get" /\ unit.key # k
  <2>1. us = Alert
    BY <1>7 DEF Reply
  <2> QED BY <1>7, <2>1, <1>a
<1>8. CASE unit.u = "CKE"
  <2>1. us = <<>>
    BY <1>8 DEF Reply
  <2>2. Mute(us, 0)
    BY <2>1, EmptyType DEF Mute
  <2> QED BY <1>8, <2>2, <1>m
<1> QED BY <1>1, <1>2, <1>3, <1>4, <1>5, <1>6, <1>7, <1>8

(* The ends of the pieces of a payload of n units. *)
Place(n, cuts) == <<0>> \o cuts \o <<n>>

(* They go forward from 0 to n, and only the last is n. *)
LEMMA PlaceFacts ==
  ASSUME NEW n \in 0..PageLen + 16, NEW cuts \in CutChoices(n)
  PROVE  /\ cuts \in Seq(1..n - 1) /\ Len(cuts) \in Nat
         /\ \A i \in 1..Len(cuts) + 2 : Place(n, cuts)[i] \in 0..n
         /\ Place(n, cuts)[1] = 0 /\ Place(n, cuts)[Len(cuts) + 2] = n
         /\ \A i, j \in 1..Len(cuts) + 2 : i <= j => Place(n, cuts)[i] <= Place(n, cuts)[j]
         /\ n # 0 => \A i \in 1..Len(cuts) + 1 : Place(n, cuts)[i] < n
<1> DEFINE m == Len(cuts)
           place == Place(n, cuts)
<1>0. PageLen \in Nat
  BY PageAssumption
<1>1. cuts \in Seq(1..n - 1) /\ \A i, j \in DOMAIN cuts : i < j => cuts[i] < cuts[j]
  BY CutsAssumption
<1>2. n \in Nat /\ m \in Nat /\ DOMAIN cuts = 1..m /\ \A i \in 1..m : cuts[i] \in 1..n - 1
  BY <1>0, <1>1
<1>3. /\ Len(place) = m + 2 /\ place[1] = 0 /\ place[m + 2] = n
      /\ \A i \in 1..m : place[i + 1] = cuts[i]
  <2> DEFINE a == <<0>> \o cuts
  <2>1. <<0>> \in Seq(0..n) /\ cuts \in Seq(0..n) /\ <<n>> \in Seq(0..n)
    BY <1>1, <1>2
  <2>2. /\ Len(<<0>>) = 1 /\ <<0>>[1] = 0 /\ Len(<<n>>) = 1 /\ <<n>>[1] = n
    OBVIOUS
  <2>3. /\ a \in Seq(0..n) /\ Len(a) = Len(<<0>>) + m
        /\ \A i \in 1..Len(<<0>>) : a[i] = <<0>>[i]
        /\ \A i \in Len(<<0>>) + 1..Len(<<0>>) + m : a[i] = cuts[i - Len(<<0>>)]
    BY <2>1, JoinFacts
  <2>4. Len(a) = m + 1 /\ a[1] = 0 /\ \A i \in 1..m : a[i + 1] = cuts[i]
    <3> HIDE DEF a
    <3>1. ASSUME NEW i \in 1..m PROVE a[i + 1] = cuts[i]
      <4>1. i + 1 \in Len(<<0>>) + 1..Len(<<0>>) + m /\ (i + 1) - Len(<<0>>) = i
        BY <1>2, <2>2
      <4> QED BY <2>3, <4>1
    <3>2. 1 \in 1..Len(<<0>>)
      BY <2>2
    <3> QED BY <1>2, <2>2, <2>3, <3>1, <3>2
  <2> HIDE DEF a
  <2> DEFINE b == a \o <<n>>
  <2>5. /\ Len(b) = Len(a) + Len(<<n>>)
        /\ \A i \in 1..Len(a) : b[i] = a[i]
        /\ \A i \in Len(a) + 1..Len(a) + Len(<<n>>) : b[i] = <<n>>[i - Len(a)]
    BY <2>1, <2>3, JoinFacts
  <2>6. place = b
    BY DEF Place, a
  <2> HIDE DEF b, place
  <2>7. Len(b) = m + 2
    BY <1>2, <2>2, <2>4, <2>5
  <2>8. b[m + 2] = n
    <3>1. m + 2 \in Len(a) + 1..Len(a) + Len(<<n>>) /\ (m + 2) - Len(a) = 1
      BY <1>2, <2>2, <2>4
    <3> QED BY <2>2, <2>5, <3>1
  <2>9. b[1] = 0
    BY <1>2, <2>4, <2>5
  <2>10. ASSUME NEW i \in 1..m PROVE b[i + 1] = cuts[i]
    <3>1. i + 1 \in 1..Len(a)
      BY <1>2, <2>4
    <3> QED BY <2>4, <2>5, <3>1
  <2> QED BY <2>6, <2>7, <2>8, <2>9, <2>10
<1> HIDE DEF place
<1>4. ASSUME NEW i \in 1..m + 2
      PROVE  \/ i = 1 /\ place[i] = 0
             \/ i = m + 2 /\ place[i] = n
             \/ i - 1 \in 1..m /\ place[i] = cuts[i - 1]
  <2>1. i = 1 \/ i = m + 2 \/ i - 1 \in 1..m
    BY <1>2
  <2>2. CASE i - 1 \in 1..m
    <3>1. place[(i - 1) + 1] = cuts[i - 1] /\ (i - 1) + 1 = i
      BY <1>3, <2>2
    <3> QED BY <2>2, <3>1
  <2> QED BY <1>3, <2>1, <2>2
<1>5. \A i \in 1..m + 2 : place[i] \in 0..n
  BY <1>2, <1>4
<1>6. ASSUME NEW i \in 1..m + 2, NEW j \in 1..m + 2, i <= j PROVE place[i] <= place[j]
  <2>1. CASE i = j \/ i = 1 \/ j = m + 2
    BY <1>2, <1>3, <1>5, <2>1
  <2>2. CASE ~(i = j \/ i = 1 \/ j = m + 2)
    <3>1. i - 1 \in 1..m /\ j - 1 \in 1..m /\ i - 1 < j - 1 /\ i # m + 2 /\ j # 1
      BY <1>2, <1>6, <2>2
    <3>2. place[i] = cuts[i - 1] /\ place[j] = cuts[j - 1]
      BY <1>4, <2>2, <3>1
    <3>3. cuts[i - 1] < cuts[j - 1]
      BY <1>1, <1>2, <3>1
    <3> QED BY <1>2, <3>1, <3>2, <3>3
  <2> QED BY <2>1, <2>2
<1>7. ASSUME n # 0, NEW i \in 1..m + 1 PROVE place[i] < n
  <2>1. i \in 1..m + 2 /\ i # m + 2
    BY <1>2
  <2>2. place[i] = 0 \/ (i - 1 \in 1..m /\ place[i] = cuts[i - 1])
    BY <1>4, <2>1
  <2>3. ASSUME NEW j \in 1..m PROVE cuts[j] < n
    BY <1>2
  <2>4. n > 0
    BY <1>2, <1>7
  <2> QED BY <2>2, <2>3, <2>4
<1> QED BY <1>1, <1>2, <1>3, <1>5, <1>6, <1>7 DEF place

(* The segments a server cuts an answer into, by their fields. *)
LEMMA ServedFrames ==
  ASSUME NEW ps, NEW k, NEW q, NEW units, NEW cuts, Len(cuts) \in Nat
  PROVE  LET fs == Served(ps, k, q, units, cuts).frames
             n  == Len(cuts) + 1
         IN /\ Len(fs) = n
            /\ \A i \in 1..n :
                  /\ fs[i].type = "tcp" /\ fs[i].to = k /\ fs[i].port = q.port /\ fs[i].from = q.ip
                  /\ ~fs[i].syn
                  /\ fs[i].data = SubSeq(units, Place(Len(units), cuts)[i] + 1,
                                         Place(Len(units), cuts)[i + 1])
<1> DEFINE n == Len(cuts) + 1
           place == Place(Len(units), cuts)
           piece(i) == [at |-> place[i], data |-> SubSeq(units, place[i] + 1, place[i + 1])]
           f(i) == Segment(q, k, FALSE, q.next + Pieces(units, cuts)[i].at, Pieces(units, cuts)[i].data)
           fs == Served(ps, k, q, units, cuts).frames
<1>1. fs = [i \in 1..n |-> f(i)]
  BY DEF Served
<1>2. Pieces(units, cuts) = [i \in 1..n |-> piece(i)]
  BY DEF Pieces, Place
<1>3. ASSUME NEW i \in 1..n
      PROVE  /\ fs[i].type = "tcp" /\ fs[i].to = k /\ fs[i].port = q.port /\ fs[i].from = q.ip
             /\ ~fs[i].syn
             /\ fs[i].data = SubSeq(units, place[i] + 1, place[i + 1])
  <2>1. fs[i] = f(i)
    BY <1>1
  <2>2. Pieces(units, cuts)[i].data = piece(i).data
    BY <1>2
  <2>3. piece(i).data = SubSeq(units, place[i] + 1, place[i + 1])
    OBVIOUS
  <2> DEFINE d == Pieces(units, cuts)[i].data
             e == SubSeq(units, place[i] + 1, place[i + 1])
  <2>4. d = e
    BY <2>2, <2>3
  <2> HIDE DEF d, e, place, piece
  <2>5. /\ f(i).type = "tcp" /\ f(i).to = k /\ f(i).port = q.port /\ f(i).from = q.ip
        /\ ~f(i).syn /\ f(i).data = d
    BY DEF Segment, d
  <2> QED BY <2>1, <2>4, <2>5 DEF e
<1>4. Len(fs) = n
  <2>1. n \in Nat
    OBVIOUS
  <2> HIDE DEF n, f, fs
  <2> QED BY <1>1, <2>1
<1> QED BY <1>3, <1>4

(* The segments of a page carry it from its beginning to its end, *)
LEMMA PlainServed ==
  ASSUME NEW ps, NEW k \in Int, NEW q, q.port = HTTP, NEW units, units = Page(k),
         Len(units) \in 0..PageLen + 16, NEW cuts \in CutChoices(Len(units))
  PROVE  Runs(Served(ps, k, q, units, cuts).frames, k, 0, PageLen)
<1> DEFINE fs == Served(ps, k, q, units, cuts).frames
           l == Len(units)
           n == Len(cuts) + 1
           place == Place(l, cuts)
           at == [i \in 0..n |-> place[i + 1]]
<1>0. l = PageLen /\ PageLen \in Nat \ {0}
  BY PageAssumption, PageParts DEF Page
<1>1. /\ Len(cuts) \in Nat
      /\ \A i \in 1..Len(cuts) + 2 : place[i] \in 0..l
      /\ place[1] = 0 /\ place[Len(cuts) + 2] = l
      /\ \A i, j \in 1..Len(cuts) + 2 : i <= j => place[i] <= place[j]
  <2> HIDE DEF l, place
  <2>1. l \in 0..PageLen + 16 /\ cuts \in CutChoices(l)
    BY DEF l
  <2> QED BY <2>1, PlaceFacts DEF place
<1>2. /\ Len(fs) = n
      /\ \A i \in 1..n : /\ fs[i].type = "tcp" /\ fs[i].to = k /\ fs[i].port = HTTP
                         /\ fs[i].data = SubSeq(units, place[i] + 1, place[i + 1])
  BY <1>1, ServedFrames
<1> HIDE DEF fs, l, place
<1>3. /\ at \in [0..n -> Nat] /\ at[0] = 0 /\ at[n] = PageLen /\ \A i \in 0..n : at[i] = place[i + 1]
      /\ \A i, j \in 0..n : i <= j => at[i] <= at[j]
  <2>1. \A i \in 0..n : i + 1 \in 1..Len(cuts) + 2 /\ at[i] = place[i + 1]
    BY <1>1
  <2>2. 0 \in 0..n /\ n \in 0..n /\ 0 + 1 = 1 /\ n + 1 = Len(cuts) + 2
    BY <1>1
  <2>3. at[0] = place[1] /\ at[n] = place[Len(cuts) + 2]
    BY <2>1, <2>2
  <2>4. \A i \in 0..n : place[i + 1] \in Nat
    BY <1>0, <1>1, <2>1
  <2>5. ASSUME NEW i \in 0..n, NEW j \in 0..n, i <= j PROVE at[i] <= at[j]
    <3>1. i + 1 \in 1..Len(cuts) + 2 /\ j + 1 \in 1..Len(cuts) + 2 /\ i + 1 <= j + 1
      BY <2>1, <2>5
    <3>2. place[i + 1] <= place[j + 1]
      BY <1>1, <3>1
    <3> QED BY <2>1, <3>2
  <2>6. at \in [0..n -> Nat]
    BY <2>4
  <2> HIDE DEF at, n
  <2> QED BY <1>0, <1>1, <2>1, <2>3, <2>5, <2>6
<1> HIDE DEF at
<1>4. ASSUME NEW i \in 1..n PROVE Carries(fs[i], k, at[i - 1], at[i])
  <2> DEFINE a == at[i - 1]
             b == at[i]
             d == fs[i].data
  <2>1. i - 1 \in 0..n /\ i \in 0..n /\ (i - 1) + 1 = i /\ i - 1 <= i /\ Len(cuts) + 2 = n + 1
        /\ i \in 1..Len(cuts) + 2 /\ i + 1 \in 1..Len(cuts) + 2
    BY <1>1
  <2>2. a = place[i] /\ b = place[i + 1]
    BY <1>3, <2>1
  <2>3. a \in Nat /\ b \in Nat /\ a <= b /\ b <= PageLen
    <3>1. a \in Nat /\ b \in Nat /\ a <= b
      BY <1>3, <2>1
    <3>2. b \in 0..l
      BY <1>1, <2>1, <2>2
    <3> QED BY <1>0, <3>1, <3>2
  <2>4. d = Part(k, a, b)
    BY <1>2, <2>2 DEF Part
  <2> HIDE DEF a, b
  <2>5. Len(Part(k, a, b)) = b - a
    <3> DEFINE x == Part(k, a, b)
    <3>1. x = SubSeq(Page(k), a + 1, b)
      BY DEF Part
    <3> HIDE DEF x
    <3>2. Len(SubSeq(Page(k), a + 1, b)) = b - a
      BY <2>3, PageParts
    <3> QED BY <3>1, <3>2 DEF x
  <2>6. b = a + Len(d)
    BY <2>3, <2>4, <2>5
  <2>7. d = <<>> => b = a
    BY <2>3, <2>6
  <2> HIDE DEF d
  <2>8. fs[i].type = "tcp" /\ fs[i].to = k /\ fs[i].port = HTTP /\ fs[i].data = d
    BY <1>2 DEF d
  <2>9. Carries(fs[i], k, a, b)
    BY <2>4, <2>6, <2>7, <2>8 DEF Carries
  <2> QED BY <2>9 DEF a, b
<1>5. RunsBy(at, fs, k)
  BY <1>2, <1>3, <1>4 DEF RunsBy
<1>6. Runs(fs, k, 0, PageLen)
  BY <1>2, <1>3, <1>5 DEF Runs
<1> QED BY <1>6 DEF fs

(* and those of a TLS payload its end, if it is there, at last. *)
LEMMA SecureServed ==
  ASSUME NEW ps, NEW k \in Int, NEW q, q.port # HTTP, NEW units \in Seq(InUnits),
         AtEnd(units), Once(units),
         Len(units) \in 0..PageLen + 16, NEW cuts \in CutChoices(Len(units))
  PROVE  Runs(Served(ps, k, q, units, cuts).frames, k, 0, IF Closes(units) THEN 1 ELSE 0)
<1> DEFINE fs == Served(ps, k, q, units, cuts).frames
           l == Len(units)
           n == Len(cuts) + 1
           place == Place(l, cuts)
           e == IF Closes(units) THEN 1 ELSE 0
           at == [i \in 0..n |-> IF i < n THEN 0 ELSE e]
<1>0. l \in Nat
  OBVIOUS
<1>1. /\ Len(cuts) \in Nat
      /\ \A i \in 1..Len(cuts) + 2 : place[i] \in 0..l
      /\ place[Len(cuts) + 2] = l
      /\ l # 0 => \A i \in 1..Len(cuts) + 1 : place[i] < l
  <2> HIDE DEF l, place
  <2>1. l \in 0..PageLen + 16 /\ cuts \in CutChoices(l)
    BY DEF l
  <2> QED BY <2>1, PlaceFacts DEF place
<1>2. /\ Len(fs) = n
      /\ \A i \in 1..n : /\ fs[i].type = "tcp" /\ fs[i].to = k /\ fs[i].port = q.port
                         /\ fs[i].data = SubSeq(units, place[i] + 1, place[i + 1])
  BY <1>1, ServedFrames
<1> HIDE DEF fs, l, place
<1>3. e \in {0, 1} /\ (e = 1 <=> Closes(units)) /\ n \in Nat \ {0}
  BY <1>1
<1> HIDE DEF e
<1>4. /\ at \in [0..n -> Nat] /\ at[0] = 0 /\ at[n] = e
      /\ \A i \in 0..n : at[i] = IF i < n THEN 0 ELSE e
      /\ \A i, j \in 0..n : i <= j => at[i] <= at[j]
  BY <1>3
<1> HIDE DEF at
<1>5. ASSUME NEW i \in 1..n
      PROVE  Once(fs[i].data) /\ (Closes(fs[i].data) <=> i = n /\ Closes(units))
  <2> DEFINE a == place[i]
             b == place[i + 1]
             d == SubSeq(units, a + 1, b)
  <2>1. i \in 1..Len(cuts) + 2 /\ i + 1 \in 1..Len(cuts) + 2 /\ n + 1 = Len(cuts) + 2 /\ i \in Nat
        /\ i \in 1..Len(cuts) + 1
    BY <1>1
  <2>2. a \in 0..l /\ b \in 0..l /\ (i = n => b = l)
    <3>1. i = n => i + 1 = Len(cuts) + 2
      BY <2>1
    <3> QED BY <1>1, <2>1, <3>1
  <2>3. l # 0 => a < l
    BY <1>1, <2>1
  <2>4. i # n /\ l # 0 => b < l
    <3>1. i # n => i + 1 \in 1..Len(cuts) + 1
      BY <2>1
    <3> QED BY <1>1, <3>1
  <2>5. fs[i].data = d
    BY <1>2
  <2> HIDE DEF a, b
  <2>6. a + 1 \in Nat \ {0} /\ b \in Int /\ b <= Len(units) /\ a \in Nat /\ b \in Nat
    BY <1>0, <2>2 DEF l
  <2>7. /\ Closes(d) => Closes(units)
        /\ Once(d)
    BY <2>6, SubOnce
  <2>8. /\ d \in Seq(InUnits)
        /\ Len(d) = IF a + 1 <= b THEN b - (a + 1) + 1 ELSE 0
        /\ \A j \in 1..Len(d) : d[j] = units[(a + 1) + j - 1]
    BY <2>6, SubSeqType
  <2> HIDE DEF d
  <2>9. ASSUME Closes(d) PROVE i = n
    <3>1. PICK j \in 1..Len(d) : Closing(d[j])
      BY <2>9 DEF Closes
    <3>2. j \in Nat /\ j >= 1 /\ Len(d) \in Nat /\ a + 1 <= b /\ j <= b - a
      BY <2>6, <2>8, <3>1
    <3>3. (a + 1) + j - 1 = a + j /\ a + j \in 1..l /\ d[j] = units[a + j]
      BY <1>0, <2>2, <2>6, <2>8, <3>1, <3>2
    <3>4. a + j = l
      BY <3>1, <3>3 DEF AtEnd, l
    <3>5. b = l /\ l # 0
      BY <1>0, <2>2, <3>2, <3>4
    <3> QED BY <1>0, <2>4, <3>5
  <2>10. ASSUME i = n, Closes(units) PROVE Closes(d)
    <3>1. PICK j \in 1..l : Closing(units[j])
      BY <2>10 DEF Closes, l
    <3>2. j = l /\ l # 0
      BY <1>0, <3>1 DEF AtEnd, l
    <3>3. b = l /\ a < l
      BY <2>2, <2>3, <2>10, <3>2
    <3>4. l - a \in 1..Len(d) /\ (a + 1) + (l - a) - 1 = l
      BY <1>0, <2>6, <2>8, <3>3
    <3>5. d[l - a] = units[l]
      BY <2>8, <3>4
    <3> QED BY <3>1, <3>2, <3>4, <3>5 DEF Closes
  <2> QED BY <2>5, <2>7, <2>9, <2>10
<1>6. ASSUME NEW i \in 1..n PROVE Carries(fs[i], k, at[i - 1], at[i])
  <2> DEFINE d == fs[i].data
  <2>1. i - 1 \in 0..n /\ i \in 0..n /\ i - 1 < n
    BY <1>3
  <2>2. at[i - 1] = 0 /\ (i < n => at[i] = 0) /\ (i = n => at[i] = e)
    BY <1>4, <2>1
  <2>3. d = <<>> => ~Closes(d)
    BY DEF Closes
  <2>4. i = n \/ i < n
    BY <1>3
  <2>5. fs[i].type = "tcp" /\ fs[i].to = k /\ fs[i].port # HTTP
    BY <1>2
  <2>6. IF Closes(d) THEN at[i - 1] = 0 /\ at[i] = 1 ELSE at[i] = at[i - 1]
    BY <1>3, <1>5, <2>2, <2>4
  <2> HIDE DEF d
  <2>7. fs[i].data = d /\ Once(d)
    BY <1>5 DEF d
  <2> QED BY <2>3, <2>5, <2>6, <2>7 DEF Carries
<1>7. RunsBy(at, fs, k)
  BY <1>2, <1>4, <1>6 DEF RunsBy
<1>8. Runs(fs, k, 0, e)
  BY <1>2, <1>4, <1>7 DEF Runs
<1> QED BY <1>8 DEF fs, e

(* How far the server of connection k has sent its page. *)
Given(ps, k) ==
    IF k \in DOMAIN ps /\ ps[k].port = HTTP /\ ps[k].got # <<>> THEN PageLen
    ELSE IF k \in DOMAIN ps /\ ps[k].port = TLS /\ Len(ps[k].got) = 4 THEN 1 ELSE 0

(* The server of the connection is the one that was dialed. *)
Faced(ps, r) == r.local_port \in DOMAIN ps => /\ ps[r.local_port].ip = r.target_ip
                                              /\ ps[r.local_port].port = r.target_port

(* What the servers send goes on from e with what they sent, as far as they *)
(* then have sent it.                                                       *)
FlowsOn(qs, fs, r, e) ==
    /\ \E d \in Nat : d <= Given(qs, r.local_port) /\ Runs(fs, r.local_port, e, d)
    /\ Faced(qs, r) /\ Facing(fs, r)

(* Frames without payload for it change nothing. *)
LEMMA NothingFlows ==
  ASSUME NEW ps, NEW qs, NEW fs \in Seq(InFrames), NEW r,
         NEW e \in Nat, e <= Given(ps, r.local_port),
         Given(qs, r.local_port) = Given(ps, r.local_port), Faced(qs, r),
         \A i \in 1..Len(fs) : ~(fs[i].type = "tcp" /\ fs[i].to = r.local_port /\ fs[i].data # <<>>)
  PROVE  FlowsOn(qs, fs, r, e)
<1>1. \A i \in 1..Len(fs) : Carries(fs[i], r.local_port, e, e)
  BY DEF Carries
<1>2. Runs(fs, r.local_port, e, e)
  BY <1>1, RunsStill
<1>3. Facing(fs, r)
  BY DEF Facing
<1> QED BY <1>2, <1>3 DEF FlowsOn

(* Another connection's server does not matter. *)
LEMMA GivenWith ==
  ASSUME NEW ps, NEW x, NEW q, NEW r, x # r.local_port
  PROVE  /\ Given(WithPeer(ps, x, q), r.local_port) = Given(ps, r.local_port)
         /\ Faced(ps, r) => Faced(WithPeer(ps, x, q), r)
<1> DEFINE qs == WithPeer(ps, x, q)
           k == r.local_port
<1>1. /\ k \in DOMAIN qs <=> k \in DOMAIN ps
      /\ k \in DOMAIN ps => qs[k] = ps[k]
  BY DEF WithPeer
<1> HIDE DEF qs
<1>2. Given(qs, k) = Given(ps, k) /\ (Faced(ps, r) => Faced(qs, r))
  BY <1>1 DEF Given, Faced
<1> QED BY <1>2 DEF qs

(* A server that gets what is due answers with its page, or with the next  *)
(* payload of the handshake.                                               *)
LEMMA GotFlows ==
  ASSUME NEW ps, NEW n \in Nat, PeersOK(ps, n),
         NEW f \in [type : {"data"}, local : Nat, seq : Int, data : OutUnits],
         SendOK(ps, n, f), NEW r, r.local_port = f.local, Faced(ps, r),
         r.target_port \in {HTTP, TLS}, InOrder(ps, f),
         NEW e \in Nat, e <= Given(ps, f.local),
         NEW units \in Reply(f.local, f.data), NEW cuts \in CutChoices(Len(units)),
         NEW s, s = Served(ps, f.local, Got(ps, f), units, cuts)
  PROVE  FlowsOn(s.peers, s.frames, r, e)
<1> DEFINE k == f.local
           p == ps[k]
           q == Got(ps, f)
           w == [q EXCEPT !.next = @ + Len(units),
                          !.sent = @ \cup {x \in Range(s.frames) : x.data # <<>>}]
<1>0. f.type = "data" /\ f.local \in Nat /\ f.seq \in Int /\ f.data \in OutUnits
  OBVIOUS
<1>1. k \in DOMAIN ps
  BY <1>0 DEF SendOK
<1>2. /\ k \in Nat /\ k < n /\ p \in Peers /\ p.isn = k /\ p.sent \in SUBSET Segments
      /\ p.ip \in Addresses /\ p.port \in Nat /\ p.got \in Seq(OutUnits) /\ p.next \in Int
  BY <1>1, PeerFields
<1>3. p.ip = r.target_ip /\ p.port = r.target_port
  BY <1>1 DEF Faced
<1>4. q = [p EXCEPT !.got = Append(@, f.data)]
  BY DEF Got
<1>5. q \in Peers /\ q.ip = p.ip /\ q.got = Append(p.got, f.data)
  <2>1. Append(p.got, f.data) \in Seq(OutUnits)
    BY <1>0, <1>2
  <2> HIDE DEF p, k, q
  <2> QED BY <1>2, <1>4, <2>1 DEF Peers
<1>6. ServerOK(q) /\ q.port = p.port
  <2> HIDE DEF q
  <2>1. q = Got(ps, f)
    BY DEF q
  <2>2. /\ ServerOK(q) /\ q.port = ps[f.local].port
    BY <1>5, <2>1, GotOK
  <2> QED BY <2>2
<1>7. /\ Len(q.got) = Len(p.got) + 1 /\ Len(p.got) \in Nat
      /\ q.got[Len(p.got) + 1] = f.data
  <2> HIDE DEF p, q
  <2> QED BY <1>0, <1>2, <1>5
<1>8. /\ s.peers = WithPeer(ps, k, w) /\ s.frames = Served(ps, k, q, units, cuts).frames
  BY DEF Served
<1> HIDE DEF q
<1>9. w.port = q.port /\ w.ip = q.ip /\ w.got = q.got
  BY <1>5 DEF Peers
<1> HIDE DEF w
<1>10. k \in DOMAIN s.peers /\ s.peers[k] = w
  BY <1>8 DEF WithPeer
<1>11. /\ units \in Seq(InUnits) /\ Len(units) \in 0..PageLen + 16
       /\ AtEnd(units) /\ Once(units) /\ (Closes(units) => f.data.u = "sealed get")
       /\ f.data.u = "get" => units = Page(k)
  <2> DEFINE x == f.data
  <2>1. k \in Int /\ x \in OutUnits /\ units \in Reply(k, x)
    BY <1>0, <1>2
  <2> HIDE DEF k, x
  <2>2. units \in Seq(InUnits) /\ Len(units) \in 0..PageLen + 16
    BY <2>1, ReplyType
  <2>3. /\ AtEnd(units) /\ Once(units) /\ (Closes(units) => x.u = "sealed get")
        /\ x.u = "get" => units = Page(k)
    BY <2>1, ReplyCloses
  <2> QED BY <2>2, <2>3 DEF x
<1>12. Faced(s.peers, r)
  BY <1>3, <1>5, <1>6, <1>9, <1>10 DEF Faced
<1>13. Facing(s.frames, r)
  <2>1. cuts \in Seq(1..Len(units) - 1)
    BY <1>11, CutsAssumption
  <2>2. Len(cuts) \in Nat
    BY <2>1
  <2> DEFINE fs == Served(ps, k, q, units, cuts).frames
             m == Len(cuts) + 1
  <2>3. /\ Len(fs) = m
        /\ \A i \in 1..m : /\ fs[i].type = "tcp" /\ fs[i].to = k /\ fs[i].port = q.port /\ fs[i].from = q.ip
                           /\ ~fs[i].syn
    BY <2>2, ServedFrames
  <2>4. s.frames = fs
    BY <1>8
  <2> HIDE DEF fs, m
  <2>5. \A i \in 1..Len(s.frames) : /\ s.frames[i].type = "tcp" /\ s.frames[i].to = k
                                    /\ s.frames[i].port = q.port /\ s.frames[i].from = q.ip
                                    /\ ~s.frames[i].syn
    BY <2>3, <2>4
  <2> QED BY <1>3, <1>5, <1>6, <2>5 DEF Facing, Taken, ForUs
<1>14. /\ Len(q.got) <= Len(Order(q.port))
       /\ \A i \in 1..Len(q.got) : q.got[i].u = Order(q.port)[i]
  BY <1>6 DEF ServerOK
<1>15. f.data.u = Order(q.port)[Len(p.got) + 1]
  BY <1>7, <1>14
<1>16. q.port = HTTP \/ q.port = TLS
  BY <1>3, <1>6
<1> DEFINE l == Len(p.got)
           o == Order(q.port)
           u == f.data.u
<1>20. l \in Nat /\ Len(q.got) = l + 1 /\ l + 1 <= Len(o) /\ u = o[l + 1]
  BY <1>7, <1>14, <1>15
<1>21. p.got = <<>> <=> l = 0
  <2> HIDE DEF p
  <2> QED BY <1>2
<1>22. q.got # <<>>
  <2>1. q.got \in Seq(OutUnits)
    BY <1>5 DEF Peers
  <2> HIDE DEF l
  <2> QED BY <1>20, <2>1, EmptyType
<1> HIDE DEF l, o, u
<1>17. HTTP # TLS
  BY DEF HTTP, TLS
<1>18. CASE q.port = HTTP
  <2>0. o = Order(HTTP)
    BY <1>18 DEF o
  <2>1. l = 0
    <3>1. Len(o) = 1
      BY <2>0, Orders
    <3> QED BY <1>20, <3>1
  <2>2. p.got = <<>>
    BY <1>21, <2>1
  <2>3. e = 0
    <3>1. Given(ps, k) = 0
      BY <1>6, <1>17, <1>18, <2>2 DEF Given
    <3> QED BY <3>1
  <2>4. f.data.u = "get"
    <3>1. o[1] = "get"
      BY <2>0, Orders
    <3>2. l + 1 = 1
      BY <2>1
    <3>3. u = "get"
      BY <1>20, <3>1, <3>2
    <3> QED BY <3>3 DEF u
  <2>5. Given(s.peers, k) = PageLen
    BY <1>9, <1>10, <1>18, <1>22 DEF Given
  <2>6. Runs(s.frames, k, 0, PageLen)
    <3>1. k \in Int /\ units = Page(k)
      BY <1>2, <1>11, <2>4
    <3> HIDE DEF k
    <3>2. Runs(Served(ps, k, q, units, cuts).frames, k, 0, PageLen)
      BY <1>11, <1>18, <3>1, PlainServed
    <3> QED BY <1>8, <3>2
  <2>7. PageLen \in Nat /\ PageLen <= PageLen
    BY PageAssumption
  <2> QED BY <1>12, <1>13, <2>3, <2>5, <2>6, <2>7 DEF FlowsOn
<1>19. CASE q.port = TLS
  <2>0. o = Order(TLS)
    BY <1>19 DEF o
  <2>1. l <= 3
    <3>1. Len(o) = 4
      BY <2>0, Orders
    <3> QED BY <1>20, <3>1
  <2>2. e = 0
    <3>1. Given(ps, k) = 0
      <4>1. Len(p.got) # 4
        <5>1. l # 4
          BY <1>20, <2>1
        <5> QED BY <5>1 DEF l
      <4> QED BY <1>6, <1>17, <1>19, <4>1 DEF Given
    <3> QED BY <3>1
  <2> DEFINE d == IF Closes(units) THEN 1 ELSE 0
  <2>3. d <= Given(s.peers, k) /\ d \in Nat
    <3>1. Closes(units) => Len(q.got) = 4
      <4> SUFFICES ASSUME Closes(units) PROVE Len(q.got) = 4
        OBVIOUS
      <4>1. o[l + 1] = "sealed get"
        BY <1>11, <1>20 DEF u
      <4>2. l = 0 \/ l = 1 \/ l = 2 \/ l = 3
        BY <1>20, <2>1
      <4>3. o[1] # "sealed get" /\ o[2] # "sealed get" /\ o[3] # "sealed get"
        BY <2>0, Orders
      <4>4. l # 0 /\ l # 1 /\ l # 2
        <5>1. ASSUME l = 0 PROVE FALSE
          <6>1. l + 1 = 1
            BY <5>1
          <6> QED BY <4>1, <4>3, <6>1
        <5>2. ASSUME l = 1 PROVE FALSE
          <6>1. l + 1 = 2
            BY <5>2
          <6> QED BY <4>1, <4>3, <6>1
        <5>3. ASSUME l = 2 PROVE FALSE
          <6>1. l + 1 = 3
            BY <5>3
          <6> QED BY <4>1, <4>3, <6>1
        <5> QED BY <5>1, <5>2, <5>3
      <4>5. l = 3
        BY <4>2, <4>4
      <4> QED BY <1>20, <4>5
    <3>2. Closes(units) => Given(s.peers, k) = 1
      BY <1>9, <1>10, <1>17, <1>19, <3>1 DEF Given
    <3>3. Given(s.peers, k) \in Nat
      BY PageAssumption DEF Given
    <3> QED BY <3>2, <3>3
  <2>4. Runs(s.frames, k, 0, d)
    <3>1. k \in Int /\ q.port # HTTP
      BY <1>2, <1>17, <1>19
    <3> HIDE DEF k
    <3>2. Runs(Served(ps, k, q, units, cuts).frames, k, 0, IF Closes(units) THEN 1 ELSE 0)
      BY <1>11, <3>1, SecureServed
    <3> QED BY <1>8, <3>2
  <2> HIDE DEF d
  <2> QED BY <1>12, <1>13, <2>2, <2>3, <2>4 DEF FlowsOn
<1> QED BY <1>16, <1>18, <1>19

(* One frame without payload for it changes nothing. *)
LEMMA OneFlows ==
  ASSUME NEW ps, NEW qs, NEW f \in InFrames, NEW r, NEW e \in Nat, e <= Given(ps, r.local_port),
         Given(qs, r.local_port) = Given(ps, r.local_port), Faced(qs, r),
         ~(f.type = "tcp" /\ f.to = r.local_port /\ f.data # <<>>)
  PROVE  FlowsOn(qs, <<f>>, r, e)
<1>1. <<f>> \in Seq(InFrames) /\ Len(<<f>>) = 1 /\ <<f>>[1] = f
  OBVIOUS
<1> DEFINE fs == <<f>>
<1> HIDE DEF fs
<1>2. \A i \in 1..Len(fs) : ~(fs[i].type = "tcp" /\ fs[i].to = r.local_port /\ fs[i].data # <<>>)
  <2> TAKE i \in 1..Len(fs)
  <2>1. i = 1
    BY <1>1 DEF fs
  <2> QED BY <1>1, <2>1 DEF fs
<1>3. fs \in Seq(InFrames)
  BY <1>1 DEF fs
<1>4. FlowsOn(qs, fs, r, e)
  BY <1>2, <1>3, NothingFlows
<1> QED BY <1>4 DEF fs

(* A SYN for the connection is for the server that was dialed. *)
Aimed(f, r) == f.type = "syn" /\ f.local = r.local_port => f.ip = r.target_ip /\ f.port = r.target_port

(* It is answered without payload. *)
LEMMA AcceptFlows ==
  ASSUME NEW ps, NEW n \in Nat, PeersOK(ps, n), NEW r, Faced(ps, r),
         NEW f \in [type : {"syn"}, ip : Addresses, port : Nat, local : Nat, seq : Nat],
         Aimed(f, r), SendOK(ps, n, f), NEW e \in Nat, e <= Given(ps, r.local_port)
  PROVE  LET a == Accept(ps, f)
         IN /\ FlowsOn(a.peers, a.frames, r, e)
            /\ Given(a.peers, r.local_port) = Given(ps, r.local_port)
<1> DEFINE k == f.local
           new == [ip |-> f.ip, port |-> f.port, isn |-> f.seq, got |-> <<>>, next |-> 1,
                   sent |-> {}]
           p == IF k \in DOMAIN ps THEN ps[k] ELSE new
           b == [p EXCEPT !.got = <<>>]
           s == Segment(b, k, TRUE, 0, <<>>)
           qs == WithPeer(ps, k, p)
           a == Accept(ps, f)
<1>1. a = [peers |-> qs, frames |-> <<s>>, cut |-> {}]
  BY DEF Accept
<1>2. s.data = <<>> /\ s.type = "tcp"
  BY DEF Segment
<1>3. Given(qs, r.local_port) = Given(ps, r.local_port) /\ Faced(qs, r)
  <2>1. CASE k # r.local_port
    <3> HIDE DEF p, k
    <3> QED BY <2>1, GivenWith
  <2>2. CASE k = r.local_port /\ k \in DOMAIN ps
    <3>1. DOMAIN qs = DOMAIN ps /\ qs[k] = ps[k]
      BY <2>2 DEF WithPeer
    <3> HIDE DEF qs, k
    <3> QED BY <2>2, <3>1 DEF Given, Faced
  <2>3. CASE k = r.local_port /\ k \notin DOMAIN ps
    <3>1. p = new
      BY <2>3
    <3>2. k \in DOMAIN qs /\ qs[k] = p
      BY DEF WithPeer
    <3>3. p.got = <<>> /\ p.ip = f.ip /\ p.port = f.port
      <4>1. new.got = <<>> /\ new.ip = f.ip /\ new.port = f.port
        OBVIOUS
      <4> HIDE DEF new
      <4> QED BY <3>1, <4>1
    <3> HIDE DEF qs, p
    <3>4. Given(ps, k) = 0
      BY <2>3 DEF Given
    <3>5. Given(qs, k) = 0
      BY <3>2, <3>3, EmptyType DEF Given
    <3>6. f.ip = r.target_ip /\ f.port = r.target_port
      BY <2>3 DEF Aimed
    <3> HIDE DEF k
    <3>7. Faced(qs, r)
      BY <2>3, <3>2, <3>3, <3>6 DEF Faced
    <3> QED BY <2>3, <3>4, <3>5, <3>7
  <2> QED BY <2>1, <2>2, <2>3
<1>4. s \in InFrames
  <2>1. ReactionOK(ps, n, a)
    BY AcceptOK
  <2>2. a.frames = <<s>>
    <3> HIDE DEF s, qs, a
    <3> QED BY <1>1
  <2> HIDE DEF a, s
  <2>3. <<s>> \in Seq(InFrames)
    BY <2>1, <2>2 DEF ReactionOK
  <2>4. 1 \in 1..Len(<<s>>) /\ <<s>>[1] = s
    OBVIOUS
  <2> QED BY <2>3, <2>4
<1> HIDE DEF s, qs
<1>5. FlowsOn(qs, <<s>>, r, e)
  BY <1>2, <1>3, <1>4, OneFlows
<1>6. a.peers = qs /\ a.frames = <<s>>
  BY <1>1
<1> HIDE DEF a
<1>7. FlowsOn(a.peers, a.frames, r, e) /\ Given(a.peers, r.local_port) = Given(ps, r.local_port)
  BY <1>3, <1>5, <1>6
<1> QED BY <1>7 DEF a

(* A segment of payload: what is not for the connection, or not in order,  *)
(* does not matter to it.                                                  *)
LEMMA ServeFlows ==
  ASSUME NEW ps, NEW n \in Nat, PeersOK(ps, n),
         NEW f \in [type : {"data"}, local : Nat, seq : Int, data : OutUnits],
         SendOK(ps, n, f), NEW r, Faced(ps, r), r.target_port \in {HTTP, TLS},
         NEW e \in Nat, e <= Given(ps, r.local_port), NEW s \in Serve(ps, f)
  PROVE  /\ FlowsOn(s.peers, s.frames, r, e)
         /\ f.local # r.local_port => Given(s.peers, r.local_port) = Given(ps, r.local_port)
<1> DEFINE k == f.local
           p == ps[k]
           q == [p EXCEPT !.got = Append(@, f.data)]
<1>0. f.type = "data" /\ f.local \in Nat
  OBVIOUS
<1>1. k \in DOMAIN ps
  BY <1>0 DEF SendOK
<1>2. ReactionOK(ps, n, s)
  BY ServeOK
<1>3. CASE f.seq # p.isn + 1 + Len(p.got)
  <2> DEFINE x == Segment(p, k, FALSE, p.next, <<>>)
  <2>1. s = [peers |-> ps, frames |-> <<x>>, cut |-> {}]
    BY <1>1, <1>3 DEF Serve
  <2>2. x.data = <<>>
    BY DEF Segment
  <2> HIDE DEF x
  <2>3. s.peers = ps /\ s.frames = <<x>>
    BY <2>1
  <2>4. x \in InFrames
    <3>1. <<x>> \in Seq(InFrames)
      BY <1>2, <2>3 DEF ReactionOK
    <3>2. 1 \in 1..Len(<<x>>) /\ <<x>>[1] = x
      OBVIOUS
    <3> QED BY <3>1, <3>2
  <2>5. FlowsOn(ps, <<x>>, r, e)
    BY <2>2, <2>4, OneFlows
  <2> QED BY <2>3, <2>5
<1>4. CASE f.seq = p.isn + 1 + Len(p.got)
  <2>0. s \in UNION {{Served(ps, k, q, units, cuts) : cuts \in CutChoices(Len(units))} :
                     units \in Reply(k, f.data)}
    BY <1>1, <1>4, Zenon DEF Serve, Served
  <2>1. PICK units \in Reply(k, f.data) : \E cuts \in CutChoices(Len(units)) :
          s = Served(ps, k, q, units, cuts)
    <3> HIDE DEF k, q
    <3> QED BY <2>0
  <2>2. PICK cuts \in CutChoices(Len(units)) : s = Served(ps, k, q, units, cuts)
    BY <2>1
  <2>3. q = Got(ps, f) /\ InOrder(ps, f)
    BY <1>4 DEF Got, InOrder
  <2>4. s = Served(ps, f.local, Got(ps, f), units, cuts)
    <3> HIDE DEF q
    <3> QED BY <2>2, <2>3
  <2>5. CASE k = r.local_port
    <3>1. r.local_port = f.local /\ e <= Given(ps, f.local)
      BY <2>5
    <3>2. FlowsOn(s.peers, s.frames, r, e)
      BY <2>3, <2>4, <3>1, GotFlows
    <3> QED BY <2>5, <3>2
  <2>6. CASE k # r.local_port
    <3> HIDE DEF q
    <3>1. PICK w : s.peers = WithPeer(ps, k, w)
      BY <2>2 DEF Served
    <3>2. Given(s.peers, r.local_port) = Given(ps, r.local_port) /\ Faced(s.peers, r)
      <4> HIDE DEF k
      <4> QED BY <2>6, <3>1, GivenWith
    <3>3. \A i \in 1..Len(s.frames) : s.frames[i].to = k
      <4> DEFINE fs == Served(ps, k, q, units, cuts).frames
                 m == Len(cuts) + 1
      <4>1. Len(cuts) \in Nat
        <5>1. units \in Seq(InUnits) /\ Len(units) \in 0..PageLen + 16
          <6> DEFINE x == f.data
          <6>1. k \in Int /\ x \in OutUnits /\ units \in Reply(k, x)
            OBVIOUS
          <6> HIDE DEF k, x
          <6> QED BY <6>1, ReplyType
        <5>2. cuts \in Seq(1..Len(units) - 1)
          BY <5>1, CutsAssumption
        <5> QED BY <5>2
      <4>2. Len(fs) = m /\ \A i \in 1..m : fs[i].to = k
        BY <4>1, ServedFrames
      <4>3. s.frames = fs
        BY <2>2
      <4> HIDE DEF fs, m
      <4> QED BY <4>2, <4>3
    <3>4. s.frames \in Seq(InFrames)
      BY <1>2 DEF ReactionOK
    <3> HIDE DEF k
    <3>5. FlowsOn(s.peers, s.frames, r, e)
      BY <2>6, <3>2, <3>3, <3>4, NothingFlows
    <3> QED BY <3>2, <3>5
  <2> QED BY <2>5, <2>6
<1> QED BY <1>3, <1>4

(* Whatever may come back for a frame of the machine goes on with what the *)
(* server of the connection sent, as far as it has sent it.                *)
LEMMA ReactionFlows ==
  ASSUME NEW ps, NEW n \in Nat, PeersOK(ps, n), NEW f \in OutFrames, SendOK(ps, n, f),
         NEW s \in Reactions(ps, f), NEW r, Faced(ps, r), Aimed(f, r),
         r.target_port \in {HTTP, TLS}, NEW e \in Nat, e <= Given(ps, r.local_port)
  PROVE  /\ FlowsOn(s.peers, s.frames, r, e)
         /\ ~(f.type = "data" /\ f.local = r.local_port)
              => Given(s.peers, r.local_port) = Given(ps, r.local_port)
<1>1. f.type \in {"arp", "dns", "syn", "ack", "data"}
  BY DEF OutFrames
<1>2. CASE f.type = "arp"
  <2> DEFINE x == [type |-> "arp"]
  <2>1. s = [peers |-> ps, frames |-> <<x>>, cut |-> {}]
    BY <1>2 DEF Reactions
  <2>2. x \in InFrames /\ x.type # "tcp"
    BY DEF InFrames
  <2> HIDE DEF x
  <2>3. FlowsOn(ps, <<x>>, r, e)
    BY <2>2, OneFlows
  <2> QED BY <2>1, <2>3
<1>3. CASE f.type = "dns"
  <2>1. f.host \in Hosts
    BY <1>3 DEF OutFrames
  <2>2. PICK a \in Answers(f.host) :
          s = [peers |-> ps, cut |-> {},
               frames |-> <<[type |-> "dns", host |-> f.host, ips |-> a]>>]
    BY <1>3 DEF Reactions
  <2> DEFINE x == [type |-> "dns", host |-> f.host, ips |-> a]
  <2>3. a \in Seq(Ips)
    BY <2>1, AnswersAssumption
  <2>4. x \in InFrames /\ x.type # "tcp"
    BY <2>1, <2>3 DEF InFrames
  <2>5. s = [peers |-> ps, frames |-> <<x>>, cut |-> {}]
    BY <2>2
  <2> HIDE DEF x
  <2>6. FlowsOn(ps, <<x>>, r, e)
    BY <2>4, OneFlows
  <2> QED BY <2>5, <2>6
<1>4. CASE f.type = "syn"
  <2>1. f \in [type : {"syn"}, ip : Addresses, port : Nat, local : Nat, seq : Nat]
    BY <1>4 DEF OutFrames
  <2>2. s = Accept(ps, f)
    BY <1>4 DEF Reactions
  <2> QED BY <2>1, <2>2, AcceptFlows
<1>5. CASE f.type = "ack"
  <2>1. s = [peers |-> ps, frames |-> <<>>, cut |-> {}]
    BY <1>5 DEF Reactions
  <2> DEFINE fs == <<>>
  <2>2. fs \in Seq(InFrames) /\ Len(fs) = 0
    OBVIOUS
  <2>3. s.peers = ps /\ s.frames = fs
    BY <2>1
  <2> HIDE DEF fs
  <2>4. \A i \in 1..Len(fs) : ~(fs[i].type = "tcp" /\ fs[i].to = r.local_port /\ fs[i].data # <<>>)
    BY <2>2
  <2>5. FlowsOn(ps, fs, r, e)
    BY <2>2, <2>4, NothingFlows
  <2> QED BY <2>3, <2>5
<1>6. CASE f.type = "data"
  <2>1. f \in [type : {"data"}, local : Nat, seq : Int, data : OutUnits]
    BY <1>6 DEF OutFrames
  <2>2. s \in Serve(ps, f)
    BY <1>6 DEF Reactions
  <2> QED BY <1>6, <2>1, <2>2, ServeFlows
<1> QED BY <1>1, <1>2, <1>3, <1>4, <1>5, <1>6

(***************************************************************************)
(* The invariant: a call that may still receive has taken the page up to   *)
(* n, and what is on its way goes on from there to e.                      *)
(***************************************************************************)
Mild == harm \subseteq {"late", "slow", "cut"}
Line == nic.rx \o wire

Returning(c) == Busy(c) /\ c.what = "ack" /\ c.back = "idle"
Live(c) == c.kind \in {"http", "https"} /\ (Connection(c) \/ Returning(c))

Took(r, t, c, n) ==
    /\ c.kind = "http"  => TookPlain(r, n) /\ (Returning(c) => n # 0)
    /\ c.kind = "https" => /\ TookSecure(r, t, n)
                           /\ Point(c) \in {"app", "app_wait"} => Opened(r, t, n)
StreamOK(ps, q, r, t, c) ==
    Live(c) => \E n, e \in Nat : /\ Runs(q, r.local_port, n, e) /\ e <= Given(ps, r.local_port)
                                 /\ Took(r, t, c, n)

(* It comes from the server that was dialed; *)
MatchOK(ps, q, tx, r, c) ==
    Live(c) => /\ Faced(ps, r) /\ Facing(q, r)
               /\ \A i \in 1..Len(tx) : Aimed(tx[i], r)
               /\ Busy(c) => Aimed(c.frame, r)

(* that has sent nothing before the connection is made. *)
DialOK(ps, tx, r, c) ==
    Live(c) /\ Dialing(c) =>
        /\ Given(ps, r.local_port) = 0
        /\ \A i \in 1..Len(tx) : ~(tx[i].type = "data" /\ tx[i].local = r.local_port)
        /\ Busy(c) => c.frame.type = "syn"

(* Between two connections nothing is shown, and before the first there is *)
(* none whose payload could be taken.                                      *)
Asking == {"query", "ask", "dns", "dns_wait", "arp", "arp_wait"}
OffOK(r, c) ==
    /\ c.kind = "http" /\ Point(c) \in OffPoints \ {"idle"} => r.http_response = <<>> /\ ~r.http_valid
    /\ Point(c) \in Asking => ~(c.first <= r.local_port /\ r.local_port < r.syns)

(* A call that returned shows the beginning of the page. *)
DoneOK(r, c) ==
    c.pc = "idle" /\ c.ok =>
        /\ c.kind = "http" => \E n \in 1..PageLen : r.http_response = First(r.local_port, n)
        /\ c.kind = "https" => r.http_response = Opening(r.local_port)

PageOK(ps, q, tx, r, t, c) == /\ StreamOK(ps, q, r, t, c) /\ MatchOK(ps, q, tx, r, c)
                              /\ DialOK(ps, tx, r, c) /\ OffOK(r, c) /\ DoneOK(r, c)

PInv == /\ Busy(call) => call.left >= 1
        /\ Mild => PageOK(peers, Line, nic.tx, g, tls, call)

(* Only a call that begins forgets what it met. *)
MildBefore == Mild' => Mild

(* The frames on their way, and what is known of them. *)
LEMMA LineFacts ==
  ASSUME IInv
  PROVE  /\ Line \in Seq(InFrames) /\ nic.rx \in Seq(InFrames) /\ wire \in Seq(InFrames)
         /\ nic.tx \in Seq(OutFrames)
         /\ \A i \in 1..Len(nic.rx) : FrameOK(peers, nic.rx[i])
         /\ \A i \in 1..Len(wire) : FrameOK(peers, wire[i])
         /\ \A i \in 1..Len(Line) : FrameOK(peers, Line[i])
         /\ \A i \in 1..Len(nic.tx) : SendOK(peers, g.syns, nic.tx[i])
<1>1. /\ nic.rx \in Seq(InFrames) /\ wire \in Seq(InFrames) /\ nic.tx \in Seq(OutFrames)
      /\ \A i \in 1..Len(wire) : FrameOK(peers, wire[i])
      /\ \A i \in 1..Len(nic.rx) : FrameOK(peers, nic.rx[i])
      /\ \A i \in 1..Len(nic.tx) : SendOK(peers, g.syns, nic.tx[i])
  BY DEF IInv, Types, Arriving, Leaving
<1> DEFINE x == nic.rx
<1>2. x \in Seq(InFrames) /\ \A i \in 1..Len(x) : FrameOK(peers, x[i])
  BY <1>1
<1>3. Line = x \o wire
  BY DEF Line
<1> HIDE DEF x
<1>4. /\ x \o wire \in Seq(InFrames) /\ Len(x \o wire) = Len(x) + Len(wire)
      /\ \A i \in 1..Len(x) : (x \o wire)[i] = x[i]
      /\ \A i \in Len(x) + 1..Len(x) + Len(wire) : (x \o wire)[i] = wire[i - Len(x)]
  BY <1>1, <1>2, JoinFacts
<1> DEFINE y == x \o wire
<1> HIDE DEF y
<1>5. \A i \in 1..Len(y) : FrameOK(peers, y[i])
  <2> TAKE i \in 1..Len(y)
  <2>1. Len(x) \in Nat /\ Len(wire) \in Nat /\ Len(y) = Len(x) + Len(wire)
    BY <1>1, <1>2, <1>4 DEF y
  <2>2. CASE i <= Len(x)
    <3>1. i \in 1..Len(x) /\ y[i] = x[i]
      BY <1>4, <2>1, <2>2 DEF y
    <3> QED BY <1>2, <3>1
  <2>3. CASE i > Len(x)
    <3>1. i \in Len(x) + 1..Len(x) + Len(wire) /\ i - Len(x) \in 1..Len(wire)
      BY <2>1, <2>3
    <3>2. y[i] = wire[i - Len(x)]
      BY <1>4, <3>1 DEF y
    <3> QED BY <1>1, <3>1, <3>2
  <2> QED BY <2>1, <2>2, <2>3
<1> QED BY <1>1, <1>3, <1>4, <1>5 DEF y

(* A call that stays where it is. *)
LEMMA PageSame ==
  ASSUME NEW ps, NEW q, NEW tx, NEW r, NEW t, NEW c, PageOK(ps, q, tx, r, t, c),
         NEW d, d.kind = c.kind, d.first = c.first, Point(d) = Point(c),
         Returning(d) <=> Returning(c), Busy(d) => Busy(c) /\ d.frame = c.frame,
         d.pc = "idle" => c.pc = "idle" /\ d.ok = c.ok
  PROVE  PageOK(ps, q, tx, r, t, d)
<1>1. (Live(d) <=> Live(c)) /\ (Dialing(d) <=> Dialing(c))
  BY DEF Live, Connection, Dialing, Stage
<1>2. \A n : Took(r, t, c, n) => Took(r, t, d, n)
  BY DEF Took
<1>3. StreamOK(ps, q, r, t, d)
  BY <1>1, <1>2 DEF PageOK, StreamOK
<1>4. MatchOK(ps, q, tx, r, d)
  BY <1>1 DEF PageOK, MatchOK
<1>5. DialOK(ps, tx, r, d)
  BY <1>1 DEF PageOK, DialOK
<1>6. OffOK(r, d)
  BY DEF PageOK, OffOK
<1>7. DoneOK(r, d)
  BY DEF PageOK, DoneOK
<1> QED BY <1>3, <1>4, <1>5, <1>6, <1>7 DEF PageOK

(* The port of a call that may still receive. *)
LEMMA TookPort ==
  ASSUME NEW r, NEW t, NEW c, c.kind \in {"http", "https"}, NEW n, Took(r, t, c, n)
  PROVE  r.target_port \in {HTTP, TLS}
BY DEF Took, TookPlain, TookSecure

(* Three queues, one after the other. *)
LEMMA JoinThree ==
  ASSUME NEW S, NEW x \in Seq(S), NEW y \in Seq(S), NEW z \in Seq(S)
  PROVE  x \o (y \o z) = (x \o y) \o z
OBVIOUS

(* A sequence is its elements. *)
LEMMA SameSequence ==
  ASSUME NEW S, NEW s \in Seq(S), NEW t \in Seq(S), Len(s) = Len(t), \A i \in 1..Len(t) : s[i] = t[i]
  PROVE  s = t
<1>1. DOMAIN s = 1..Len(t) /\ DOMAIN t = 1..Len(t)
  OBVIOUS
<1>2. s = [i \in DOMAIN s |-> s[i]] /\ t = [i \in DOMAIN t |-> t[i]]
  OBVIOUS
<1> QED BY <1>1, <1>2

(* The first frame of a queue goes to the end of the one before it. *)
LEMMA HandedOn ==
  ASSUME NEW S, NEW x \in Seq(S), NEW y \in Seq(S), y # <<>>
  PROVE  Append(x, y[1]) \o RemoveAt(y, 1) = x \o y
<1>1. /\ Tail(y) \in Seq(S) /\ Len(Tail(y)) = Len(y) - 1 /\ Len(y) \in Nat \ {0}
      /\ y[1] \in S
      /\ \A i \in 1..Len(Tail(y)) : i + 1 \in 1..Len(y) /\ Tail(y)[i] = y[i + 1]
  BY TailType
<1>2. RemoveAt(y, 1) = Tail(y)
  <2>1. RemoveAt(y, 1) = SubSeq(y, 1, 0) \o SubSeq(y, 2, Len(y))
    BY DEF RemoveAt
  <2>2. SubSeq(y, 1, 0) = <<>> /\ SubSeq(y, 2, Len(y)) = Tail(y)
    BY <1>1
  <2> QED BY <1>1, <2>1, <2>2
<1> DEFINE z == Tail(y)
           a == Append(x, y[1])
<1>3. a \in Seq(S) /\ Len(a) = Len(x) + 1 /\ a[Len(x) + 1] = y[1] /\ \A i \in 1..Len(x) : a[i] = x[i]
  BY <1>1
<1>4. z \in Seq(S) /\ Len(z) = Len(y) - 1 /\ \A i \in 1..Len(z) : i + 1 \in 1..Len(y) /\ z[i] = y[i + 1]
  BY <1>1
<1> HIDE DEF z, a
<1>5. a \o z = x \o y
  <2> DEFINE u == a \o z
             v == x \o y
  <2>1. /\ u \in Seq(S) /\ Len(u) = Len(a) + Len(z)
        /\ \A i \in 1..Len(a) : u[i] = a[i]
        /\ \A i \in Len(a) + 1..Len(a) + Len(z) : u[i] = z[i - Len(a)]
    BY <1>3, <1>4, JoinFacts
  <2>2. /\ v \in Seq(S) /\ Len(v) = Len(x) + Len(y)
        /\ \A i \in 1..Len(x) : v[i] = x[i]
        /\ \A i \in Len(x) + 1..Len(x) + Len(y) : v[i] = y[i - Len(x)]
    BY JoinFacts
  <2> HIDE DEF u, v
  <2>3. Len(u) = Len(v) /\ Len(x) \in Nat /\ Len(y) \in Nat
    BY <1>1, <1>3, <1>4, <2>1, <2>2
  <2>4. ASSUME NEW i \in 1..Len(v) PROVE u[i] = v[i]
    <3>1. CASE i <= Len(x)
      BY <1>3, <2>1, <2>2, <2>3, <3>1
    <3>2. CASE i = Len(x) + 1
      <4>1. i \in 1..Len(a) /\ i \in Len(x) + 1..Len(x) + Len(y) /\ i - Len(x) = 1
        BY <1>1, <1>3, <2>3, <3>2
      <4>2. u[i] = a[i] /\ v[i] = y[i - Len(x)]
        BY <2>1, <2>2, <4>1
      <4> QED BY <1>3, <3>2, <4>1, <4>2
    <3>3. CASE i > Len(x) + 1
      <4> DEFINE j == i - Len(a)
      <4>1. /\ i \in Len(a) + 1..Len(a) + Len(z) /\ i \in Len(x) + 1..Len(x) + Len(y)
            /\ j \in 1..Len(z) /\ i - Len(x) = j + 1
        BY <1>1, <1>3, <1>4, <2>2, <2>3, <3>3
      <4>2. u[i] = z[j] /\ v[i] = y[i - Len(x)]
        BY <2>1, <2>2, <4>1
      <4> HIDE DEF j
      <4> QED BY <1>4, <4>1, <4>2
    <3> QED BY <2>2, <2>3, <3>1, <3>2, <3>3
  <2>5. u = v
    BY <2>1, <2>2, <2>3, <2>4, SameSequence
  <2> QED BY <2>5 DEF u, v
<1> QED BY <1>2, <1>5 DEF a, z

(* The servers' answers are on their way behind what is already there. *)
LEMMA PageTransmit ==
  ASSUME IInv, PInv, Mild, Transmits, UNCHANGED machine,
         NEW s \in Reactions(peers, Head(nic.tx)), peers' = s.peers, wire' = wire \o s.frames
  PROVE  PageOK(peers', Line', nic'.tx, g', tls', call')
<1> DEFINE f == Head(nic.tx)
           k == g.local_port
           tx == nic.tx
<1>1. /\ Line \in Seq(InFrames) /\ nic.rx \in Seq(InFrames) /\ wire \in Seq(InFrames)
      /\ nic.tx \in Seq(OutFrames)
      /\ \A i \in 1..Len(nic.tx) : SendOK(peers, g.syns, nic.tx[i])
  BY LineFacts
<1>2. g.syns \in Nat /\ PeersOK(peers, g.syns)
  BY DEF IInv, Types, NetOK, Nets
<1>3. nic.tx # <<>> /\ nic' = [nic EXCEPT !.tx = Tail(@)] /\ nic \in [rx : Seq(InFrames), tx : Seq(OutFrames)]
  BY DEF Transmits, IInv, Types
<1>4. nic'.rx = nic.rx /\ nic'.tx = Tail(tx)
  BY <1>3
<1>5. /\ tx # <<>> /\ f = tx[1] /\ Len(tx) \in Nat \ {0}
      /\ \A i \in 1..Len(Tail(tx)) : i + 1 \in 1..Len(tx) /\ Tail(tx)[i] = tx[i + 1]
  BY <1>1, <1>3, TailType
<1>6. f \in OutFrames /\ SendOK(peers, g.syns, f)
  <2>1. 1 \in 1..Len(tx)
    BY <1>5
  <2> QED BY <1>1, <1>5, <2>1
<1>7. ReactionOK(peers, g.syns, s)
  BY <1>2, <1>6, ReactionsOK
<1>8. s.frames \in Seq(InFrames)
  BY <1>7 DEF ReactionOK
<1>9. Line' = Line \o s.frames
  <2> DEFINE x == nic.rx
             z == s.frames
  <2>1. x \in Seq(InFrames) /\ z \in Seq(InFrames)
    BY <1>1, <1>8
  <2>2. Line' = x \o (wire \o z)
    BY <1>4 DEF Line
  <2>3. Line = x \o wire
    BY DEF Line
  <2> HIDE DEF x, z
  <2>4. x \o (wire \o z) = (x \o wire) \o z
    <3> DEFINE y == wire
    <3>1. y \in Seq(InFrames)
      BY <1>1
    <3> HIDE DEF y
    <3>2. x \o (y \o z) = (x \o y) \o z
      BY <2>1, <3>1, JoinThree
    <3> QED BY <3>2 DEF y
  <2> QED BY <2>2, <2>3, <2>4 DEF z
<1>10. g' = g /\ tls' = tls /\ call' = call
  BY DEF machine
<1>11. PageOK(peers, Line, tx, g, tls, call)
  BY DEF PInv
<1> HIDE DEF f, tx
<1>12. ASSUME Live(call)
       PROVE  /\ StreamOK(s.peers, Line \o s.frames, g, tls, call)
              /\ MatchOK(s.peers, Line \o s.frames, Tail(tx), g, call)
              /\ DialOK(s.peers, Tail(tx), g, call)
  <2>1. PICK n \in Nat, e \in Nat : Runs(Line, k, n, e) /\ e <= Given(peers, k) /\ Took(g, tls, call, n)
    BY <1>11, <1>12 DEF PageOK, StreamOK
  <2>2. g.target_port \in {HTTP, TLS}
    BY <1>12, <2>1, TookPort DEF Live
  <2>3. /\ Faced(peers, g) /\ Facing(Line, g) /\ \A i \in 1..Len(tx) : Aimed(tx[i], g)
        /\ Busy(call) => Aimed(call.frame, g)
    BY <1>11, <1>12 DEF PageOK, MatchOK
  <2>4. Aimed(f, g)
    <3>1. 1 \in 1..Len(tx)
      BY <1>5
    <3> QED BY <1>5, <2>3, <3>1
  <2>5. /\ FlowsOn(s.peers, s.frames, g, e)
        /\ ~(f.type = "data" /\ f.local = k) => Given(s.peers, k) = Given(peers, k)
    BY <1>2, <1>6, <2>1, <2>2, <2>3, <2>4, ReactionFlows DEF f
  <2>6. PICK d \in Nat : d <= Given(s.peers, k) /\ Runs(s.frames, k, e, d)
    BY <2>5 DEF FlowsOn
  <2>7. Runs(Line \o s.frames, k, n, d)
    BY <1>1, <1>8, <2>1, <2>6, RunsJoin
  <2>8. StreamOK(s.peers, Line \o s.frames, g, tls, call)
    BY <2>1, <2>6, <2>7 DEF StreamOK
  <2>9. Facing(Line \o s.frames, g)
    <3> DEFINE z == s.frames
               y == Line \o z
    <3>1. /\ z \in Seq(InFrames) /\ Facing(z, g)
      BY <1>8, <2>5 DEF FlowsOn
    <3> HIDE DEF z
    <3>2. /\ Len(y) = Len(Line) + Len(z)
          /\ \A i \in 1..Len(Line) : y[i] = Line[i]
          /\ \A i \in Len(Line) + 1..Len(Line) + Len(z) : y[i] = z[i - Len(Line)]
      BY <1>1, <3>1, JoinFacts
    <3> HIDE DEF y
    <3>3. ASSUME NEW i \in 1..Len(y)
          PROVE  y[i].type = "tcp" /\ y[i].to = g.local_port /\ y[i].data # <<>> => Taken(g, y[i])
      <4>1. Len(Line) \in Nat /\ Len(z) \in Nat
        BY <1>1, <3>1
      <4>2. CASE i <= Len(Line)
        <5>1. i \in 1..Len(Line) /\ y[i] = Line[i]
          BY <3>2, <4>1, <4>2
        <5> QED BY <2>3, <5>1 DEF Facing
      <4>3. CASE i > Len(Line)
        <5>1. i \in Len(Line) + 1..Len(Line) + Len(z) /\ i - Len(Line) \in 1..Len(z)
          BY <3>2, <4>1, <4>3
        <5>2. y[i] = z[i - Len(Line)]
          BY <3>2, <5>1
        <5> QED BY <3>1, <5>1, <5>2 DEF Facing
      <4> QED BY <4>1, <4>2, <4>3
    <3>4. Facing(y, g)
      BY <3>3 DEF Facing
    <3> QED BY <3>4 DEF y, z
  <2>10. \A i \in 1..Len(Tail(tx)) : Aimed(Tail(tx)[i], g)
    BY <1>5, <2>3
  <2>11. MatchOK(s.peers, Line \o s.frames, Tail(tx), g, call)
    <3>1. Faced(s.peers, g)
      BY <2>5 DEF FlowsOn
    <3> QED BY <2>3, <2>9, <2>10, <3>1 DEF MatchOK
  <2>12. DialOK(s.peers, Tail(tx), g, call)
    <3> SUFFICES ASSUME Dialing(call)
                 PROVE  /\ Given(s.peers, k) = 0
                        /\ \A i \in 1..Len(Tail(tx)) : ~(Tail(tx)[i].type = "data" /\ Tail(tx)[i].local = k)
                        /\ Busy(call) => call.frame.type = "syn"
      BY DEF DialOK
    <3>1. /\ Given(peers, k) = 0
          /\ \A i \in 1..Len(tx) : ~(tx[i].type = "data" /\ tx[i].local = k)
          /\ Busy(call) => call.frame.type = "syn"
      BY <1>11, <1>12 DEF PageOK, DialOK
    <3>2. ~(f.type = "data" /\ f.local = k)
      <4>1. 1 \in 1..Len(tx)
        BY <1>5
      <4> QED BY <1>5, <3>1, <4>1
    <3> QED BY <1>5, <2>5, <3>1, <3>2
  <2> QED BY <2>8, <2>11, <2>12
<1>13. ASSUME ~Live(call)
       PROVE  /\ StreamOK(s.peers, Line \o s.frames, g, tls, call)
              /\ MatchOK(s.peers, Line \o s.frames, Tail(tx), g, call)
              /\ DialOK(s.peers, Tail(tx), g, call)
  BY <1>13 DEF StreamOK, MatchOK, DialOK
<1>14. OffOK(g, call) /\ DoneOK(g, call)
  BY <1>11 DEF PageOK
<1> QED BY <1>4, <1>9, <1>10, <1>12, <1>13, <1>14 DEF PageOK

(* Where only the rings and the wire change, and the frames on their way do *)
(* not, nothing changes.                                                    *)
LEMMA PageDeliver ==
  ASSUME IInv, PInv, Mild, Deliver
  PROVE  PageOK(peers', Line', nic'.tx, g', tls', call')
<1>1. /\ nic.rx \in Seq(InFrames) /\ wire \in Seq(InFrames)
  BY LineFacts
<1>2. /\ wire # <<>> /\ wire' = RemoveAt(wire, 1) /\ nic' = [nic EXCEPT !.rx = Append(@, wire[1])]
      /\ g' = g /\ tls' = tls /\ call' = call /\ peers' = peers
  BY DEF Deliver, Arrive, machine
<1>3. nic \in [rx : Seq(InFrames), tx : Seq(OutFrames)]
  BY DEF IInv, Types
<1>4. nic'.rx = Append(nic.rx, wire[1]) /\ nic'.tx = nic.tx
  BY <1>2, <1>3
<1> DEFINE x == nic.rx
<1>5. Line' = Append(x, wire[1]) \o RemoveAt(wire, 1)
  BY <1>2, <1>4 DEF Line
<1>6. Line = x \o wire /\ x \in Seq(InFrames)
  BY <1>1 DEF Line
<1> HIDE DEF x
<1>7. Append(x, wire[1]) \o RemoveAt(wire, 1) = x \o wire
  BY <1>1, <1>2, <1>6, HandedOn
<1>8. Line' = Line
  BY <1>5, <1>6, <1>7
<1>9. PageOK(peers, Line, nic.tx, g, tls, call)
  BY DEF PInv
<1> QED BY <1>2, <1>4, <1>8, <1>9

(* The network keeps it, as long as it only delivers. *)
LEMMA PageNetwork ==
  ASSUME IInv, PInv, Network
  PROVE  PInv'
<1>1. call' = call
  BY DEF Network, Transmit, Deliver, Overtake, Overflow, Lose, Again, Arrive, machine
<1>2. MildBefore
  BY DEF MildBefore, Mild, Network, Transmit, Deliver, Overtake, Overflow, Lose, Again, Struck
<1> SUFFICES ASSUME Mild' PROVE PageOK(peers', Line', nic'.tx, g', tls', call')
  <2>1. Busy(call') => call'.left >= 1
    BY <1>1 DEF PInv
  <2> QED BY <2>1 DEF PInv
<1>3. Mild
  BY <1>2 DEF MildBefore
<1>4. ASSUME NEW f \in {"loss", "again", "reorder"}, Struck(f) PROVE FALSE
  <2>1. f \in harm'
    BY <1>4 DEF Struck
  <2> QED BY <2>1 DEF Mild
<1>5. CASE Transmit
  <2>1. CASE \E s \in Reactions(peers, Head(nic.tx)) : peers' = s.peers /\ wire' = wire \o s.frames
    BY <1>3, <1>5, <2>1, PageTransmit DEF Transmit
  <2>2. CASE Struck("loss")
    BY <1>4, <2>2
  <2> QED BY <1>5, <2>1, <2>2 DEF Transmit
<1>6. CASE Deliver
  BY <1>3, <1>6, PageDeliver
<1>7. CASE Overtake
  BY <1>4, <1>7 DEF Overtake
<1>8. CASE Overflow
  <2>1. "loss" \in harm'
    BY <1>8 DEF Overflow
  <2> QED BY <2>1 DEF Mild
<1>9. CASE Lose
  BY <1>4, <1>9 DEF Lose
<1>10. CASE Again
  BY <1>4, <1>10 DEF Again
<1> QED BY <1>5, <1>6, <1>7, <1>8, <1>9, <1>10 DEF Network

(* A step of the machine: what it has to show of the page. *)
LEMMA PageStep ==
  ASSUME PInv, MildBefore, Busy(call') => call'.left >= 1,
         Mild /\ Mild' /\ PageOK(peers, Line, nic.tx, g, tls, call)
            => PageOK(peers', Line', nic'.tx, g', tls', call')
  PROVE  PInv'
<1>1. Mild' => PageOK(peers', Line', nic'.tx, g', tls', call')
  BY DEF PInv, MildBefore
<1> QED BY <1>1 DEF PInv

(* Nothing that was met is forgotten within a call. *)
LEMMA MildGrows ==
  ASSUME harm \subseteq harm'
  PROVE  MildBefore
BY DEF MildBefore, Mild

(* A frame of the call is handed to the card. *)
LEMMA PageHanded ==
  ASSUME NEW ps, NEW q, NEW tx \in Seq(OutFrames), NEW r, NEW t, NEW c, PageOK(ps, q, tx, r, t, c),
         NEW f \in OutFrames, Live(c) => Aimed(f, r), Live(c) /\ Dialing(c) => f.type # "data"
  PROVE  PageOK(ps, q, Append(tx, f), r, t, c)
<1> DEFINE z == Append(tx, f)
<1>1. \A i \in 1..Len(z) : z[i] = f \/ \E j \in 1..Len(tx) : z[i] = tx[j]
  <2> TAKE i \in 1..Len(z)
  <2>1. Len(z) = Len(tx) + 1 /\ Len(tx) \in Nat
    OBVIOUS
  <2>2. CASE i = Len(tx) + 1
    BY <2>1, <2>2
  <2>3. CASE i # Len(tx) + 1
    <3>1. i \in 1..Len(tx) /\ z[i] = tx[i]
      BY <2>1, <2>3
    <3> QED BY <3>1
  <2> QED BY <2>2, <2>3
<1> HIDE DEF z
<1>2. MatchOK(ps, q, z, r, c)
  BY <1>1 DEF PageOK, MatchOK
<1>3. DialOK(ps, z, r, c)
  BY <1>1 DEF PageOK, DialOK
<1> QED BY <1>2, <1>3 DEF PageOK, z

(* A call that has used up its attempts sends nothing more. *)
LEMMA GivenUp ==
  ASSUME IInv, Busy(call), ~(call.left > 1), call' = Retried
  PROVE  ~Busy(call')
<1>0. call \in Calls
  BY UnderWay
<1>1. call' = AfterFailure
  BY DEF Retried
<1>2. \/ call' = Return(TRUE)
      \/ \E pc \in Pcs \ {"send", "tx"} : call' = Go(pc)
  <2>1. call.what = "ack" => call.back \in Backs
    BY UnderWay DEF CallOK, FlowOK, Backs
  <2>2. Backs \ {"idle"} \subseteq Pcs \ {"send", "tx"}
    BY DEF Backs, Pcs, Waits
  <2>3. {"query", "connect", "fail"} \subseteq Pcs \ {"send", "tx"}
    BY DEF Pcs
  <2> QED BY <1>1, <2>1, <2>2, <2>3 DEF AfterFailure
<1>3. CASE call' = Return(TRUE)
  <2> DEFINE ok == TRUE
  <2>1. call' = Return(ok) /\ ok \in BOOLEAN
    BY <1>3
  <2> HIDE DEF ok
  <2>2. call'.pc = "idle"
    BY <1>0, <2>1, ReturnType
  <2> QED BY <2>2, Points
<1>4. ASSUME NEW pc \in Pcs \ {"send", "tx"}, call' = Go(pc) PROVE ~Busy(call')
  <2>1. call'.pc = pc
    BY <1>0, <1>4, GoType
  <2> QED BY <2>1, Points
<1> QED BY <1>2, <1>3, <1>4

(* The steps that hand a frame to the card, or give it up. *)
LEMMA PageSender ==
  ASSUME IInv, PInv, Sender
  PROVE  PInv'
<1>1. /\ call \in Calls /\ call.pc \in {"send", "tx"} /\ UNCHANGED <<g, tls, wire, peers>>
      /\ harm \subseteq harm' /\ call.left \in Int
  BY UnderWay DEF Sender, HandOver, HandOverRefused, TxTimeout, At, Calls
<1>2. Busy(call) /\ call.left >= 1 /\ MildBefore
  BY <1>1, MildGrows DEF Busy, PInv
<1>3. ASSUME NEW d, d.pc \in {"send", "tx"}, d.what = call.what, d.back = call.back,
             d.kind = call.kind, d.first = call.first, d.frame = call.frame,
             PageOK(peers, Line, nic.tx, g, tls, call)
      PROVE  PageOK(peers, Line, nic.tx, g, tls, d)
  <2>1. Point(d) = Point(call) /\ Busy(d) /\ d.pc # "idle"
    BY <1>1, <1>3, Points
  <2>2. Returning(d) <=> Returning(call)
    BY <1>2, <1>3, <2>1 DEF Returning
  <2> QED BY <1>2, <1>3, <2>1, <2>2, PageSame
<1>4. CASE HandOver
  <2> DEFINE f == call.frame
  <2>1. /\ call' = [call EXCEPT !.pc = "tx"] /\ nic' = [nic EXCEPT !.tx = Append(@, f)]
    BY <1>4 DEF HandOver
  <2>2. /\ call'.pc = "tx" /\ call'.what = call.what /\ call'.back = call.back
        /\ call'.kind = call.kind /\ call'.first = call.first /\ call'.frame = f
        /\ call'.left = call.left
    BY <1>1, <2>1 DEF Calls
  <2>3. nic.tx \in Seq(OutFrames) /\ f \in OutFrames
    BY <1>2, LineFacts DEF IInv, Leaving
  <2>4. nic'.tx = Append(nic.tx, f) /\ nic'.rx = nic.rx
    BY <2>1 DEF IInv, Types
  <2>5. Line' = Line
    BY <1>1, <2>4 DEF Line
  <2> HIDE DEF f
  <2>6. ASSUME PageOK(peers, Line, nic.tx, g, tls, call)
        PROVE  PageOK(peers', Line', nic'.tx, g', tls', call')
    <3>1. Live(call) => Aimed(f, g)
      BY <1>2, <2>6 DEF PageOK, MatchOK, f
    <3>2. Live(call) /\ Dialing(call) => f.type # "data"
      BY <1>2, <2>6 DEF PageOK, DialOK, f
    <3> DEFINE tx == nic.tx
               z == Append(tx, f)
    <3>3. PageOK(peers, Line, z, g, tls, call)
      BY <2>3, <2>6, <3>1, <3>2, PageHanded
    <3>4. tx \in Seq(OutFrames) /\ nic'.tx = z
      BY <2>3, <2>4
    <3> HIDE DEF z
    <3>5. Point(call') = Point(call) /\ Busy(call') /\ call'.pc # "idle"
      BY <1>1, <2>2, Points
    <3>6. Returning(call') <=> Returning(call)
      BY <1>2, <2>2, <3>5 DEF Returning
    <3>7. PageOK(peers, Line, z, g, tls, call')
      BY <1>2, <2>2, <3>3, <3>5, <3>6, PageSame DEF f
    <3> QED BY <1>1, <2>5, <3>4, <3>7
  <2> QED BY <1>2, <2>2, <2>6, PageStep
<1>5. CASE HandOverRefused
  <2>1. "stalled" \in harm' /\ call' = Retried
    BY <1>5 DEF HandOverRefused
  <2>2. ~Mild'
    BY <2>1 DEF Mild
  <2>3. Busy(call') => call'.left >= 1
    <3>1. CASE call.left > 1
      <4> DEFINE m == call.left - 1
      <4>1. m >= 1 /\ call' = [call EXCEPT !.pc = "send", !.left = m]
        BY <1>1, <2>1, <3>1 DEF Retried
      <4> HIDE DEF m
      <4> QED BY <1>1, <4>1 DEF Calls
    <3>2. CASE ~(call.left > 1)
      BY <1>2, <2>1, <3>2, GivenUp
    <3> QED BY <3>1, <3>2
  <2> QED BY <1>2, <2>2, <2>3, PageStep
<1>6. CASE TxTimeout
  <2>1. /\ call' = Retried /\ nic' = nic
        /\ harm' = harm \cup {"slow"} \cup (IF call.left = 1 THEN {"unsent"} ELSE {})
    BY <1>6 DEF TxTimeout
  <2>2. CASE call.left > 1
    <3> DEFINE m == call.left - 1
    <3>1. m >= 1 /\ call' = [call EXCEPT !.pc = "send", !.left = m]
      BY <1>1, <2>1, <2>2 DEF Retried
    <3> HIDE DEF m
    <3>2. /\ call'.pc = "send" /\ call'.what = call.what /\ call'.back = call.back
          /\ call'.kind = call.kind /\ call'.first = call.first /\ call'.frame = call.frame
          /\ call'.left = m
      BY <1>1, <3>1 DEF Calls
    <3>3. Line' = Line
      BY <1>1, <2>1 DEF Line
    <3>4. ASSUME PageOK(peers, Line, nic.tx, g, tls, call)
          PROVE  PageOK(peers', Line', nic'.tx, g', tls', call')
      <4>1. PageOK(peers, Line, nic.tx, g, tls, call')
        BY <1>3, <3>2, <3>4
      <4> QED BY <1>1, <2>1, <3>3, <4>1
    <3> QED BY <1>2, <3>1, <3>2, <3>4, PageStep
  <2>3. CASE ~(call.left > 1)
    <3>1. call.left = 1
      BY <1>1, <1>2, <2>3
    <3>2. "unsent" \in harm'
      BY <2>1, <3>1
    <3>3. ~Mild'
      BY <3>2 DEF Mild
    <3>4. ~Busy(call')
      BY <1>2, <2>1, <2>3, GivenUp
    <3> QED BY <1>2, <3>3, <3>4, PageStep
  <2> QED BY <2>2, <2>3
<1> QED BY <1>4, <1>5, <1>6 DEF Sender

(* What the steps on a connection leave as it is. *)
Untouched == /\ Unshown(g, g') /\ g'.local_port = g.local_port
             /\ g'.target_port = g.target_port /\ g'.target_ip = g.target_ip
             /\ tls'.plain = tls.plain /\ tls'.app_record = tls.app_record

(* A call that keeps its connection keeps what is known of it, *)
LEMMA PageOn ==
  ASSUME IInv, PInv, MildBefore, UNCHANGED <<nic, wire, peers>>, Untouched, Point(call) \in OnPoints,
         NEW pc \in OnPoints, Moved(call', pc),
         pc \in {"syn", "syn_wait"} => Point(call) \in {"syn", "syn_wait"},
         pc \in {"app", "app_wait"} => Point(call) \in {"app", "app_wait"},
         Busy(call') => /\ call'.left >= 1 /\ Aimed(call'.frame, g')
                        /\ pc \in {"syn", "syn_wait"} => call'.frame.type = "syn"
  PROVE  PInv'
<1> SUFFICES ASSUME PageOK(peers, Line, nic.tx, g, tls, call)
             PROVE  PageOK(peers, Line, nic.tx, g', tls', call')
  <2>1. Line' = Line
    BY DEF Line
  <2> QED BY <2>1, PageStep
<1>1. /\ Point(call') = pc /\ call'.pc # "idle" /\ Connection(call) /\ call'.kind = call.kind
      /\ pc \notin OffPoints /\ pc # "idle" /\ Point(call) # "idle"
  BY Points, OnAndOff DEF OnPoints, OffPoints, Moved
<1>2. ~Returning(call) /\ ~Returning(call')
  BY <1>1, Points DEF Returning, Moved, Busy
<1>3. /\ Live(call') => Live(call)
      /\ Dialing(call') => Dialing(call) /\ pc \in {"syn", "syn_wait"}
  BY <1>1 DEF Live, Dialing
<1>4. \A n : Took(g, tls, call, n) => Took(g', tls', call', n)
  <2> TAKE n
  <2>1. TookPlain(g, n) => TookPlain(g', n)
    BY DEF Untouched, Unshown, TookPlain
  <2>2. TookSecure(g, tls, n) => TookSecure(g', tls', n)
    BY DEF Untouched, Unshown, TookSecure
  <2>3. Opened(g, tls, n) => Opened(g', tls', n)
    BY DEF Untouched, Unshown, Opened
  <2> QED BY <1>1, <1>2, <2>1, <2>2, <2>3 DEF Took
<1>5. g'.local_port = g.local_port /\ g'.target_port = g.target_port /\ g'.target_ip = g.target_ip
  BY DEF Untouched
<1>6. StreamOK(peers, Line, g', tls', call')
  BY <1>3, <1>4, <1>5 DEF PageOK, StreamOK
<1>7. \A f : Aimed(f, g) => Aimed(f, g')
  BY <1>5 DEF Aimed
<1>8. Facing(Line, g) => Facing(Line, g')
  BY <1>5 DEF Facing, Taken, ForUs
<1>9. MatchOK(peers, Line, nic.tx, g', call')
  BY <1>3, <1>5, <1>7, <1>8 DEF PageOK, MatchOK, Faced
<1>10. DialOK(peers, nic.tx, g', call')
  BY <1>3, <1>5 DEF PageOK, DialOK
<1>11. OffOK(g', call') /\ DoneOK(g', call')
  <2>1. pc \notin Asking
    BY <1>1 DEF Asking, OffPoints
  <2> QED BY <1>1, <2>1 DEF OffOK, DoneOK
<1> QED BY <1>6, <1>9, <1>10, <1>11 DEF PageOK

(* and one that gives it up, or has none, shows nothing. *)
LEMMA PageOff ==
  ASSUME IInv, PInv, MildBefore, UNCHANGED <<nic, wire, peers>>,
         NEW pc \in OffPoints \ {"idle"}, Point(call') = pc,
         Busy(call') => call'.left >= 1 /\ call'.what # "ack",
         Mild /\ PageOK(peers, Line, nic.tx, g, tls, call) =>
             /\ call'.kind = "http" => g'.http_response = <<>> /\ ~g'.http_valid
             /\ pc \in Asking => ~(call'.first <= g'.local_port /\ g'.local_port < g'.syns)
  PROVE  PInv'
<1> SUFFICES ASSUME Mild, PageOK(peers, Line, nic.tx, g, tls, call)
             PROVE  PageOK(peers, Line, nic.tx, g', tls', call')
  <2>1. Line' = Line
    BY DEF Line
  <2> QED BY <2>1, PageStep
<1>1. call'.pc # "idle"
  BY Points
<1>2. ~Connection(call')
  BY OnAndOff
<1>3. ~Live(call')
  BY <1>2 DEF Live, Returning
<1> QED BY <1>1, <1>3 DEF PageOK, StreamOK, MatchOK, DialOK, OffOK, DoneOK

(* Such a step leaves the frames on their way alone. *)
LEMMA OnwardGrows ==
  ASSUME Onward
  PROVE  MildBefore /\ UNCHANGED <<nic, wire, peers>>
<1>1. harm \subseteq harm'
  BY DEF Onward, Query, ArpSent, ArpDone, Ask, DnsSent, DnsDone, ConnectAsks, NoTargetLeft, SynSent,
         Connected, NotConnected, FinalSent, RequestSent, AckSent, HttpDone, HttpFailed, FlightDone,
         SendClientKeyExchange, CkeSent, DeriveKeys, FinishedSent, SendHttpGet, AppSent, AppDone, Fail,
         Leaves, Ready, GivesUp
<1>2. UNCHANGED <<nic, wire, peers>>
  BY DEF Onward, Query, ArpSent, ArpDone, Ask, DnsSent, DnsDone, ConnectAsks, NoTargetLeft, SynSent,
         Connected, NotConnected, FinalSent, RequestSent, AckSent, HttpDone, HttpFailed, FlightDone,
         SendClientKeyExchange, CkeSent, DeriveKeys, FinishedSent, SendHttpGet, AppSent, AppDone, Fail,
         world
<1> QED BY <1>1, <1>2, MildGrows

(* The frame that is sent, and how often. *)
LEMMA SendingFrame ==
  ASSUME NEW c \in Calls, NEW what, NEW frame, NEW tries
  PROVE  LET d == Sending(c, what, frame, tries)
         IN /\ d.frame = frame /\ d.left = tries /\ d.what = what /\ d.kind = c.kind
            /\ d.first = c.first
BY DEF Sending, Calls

(* An acknowledgement carries nothing, and is tried as often as any segment. *)
LEMMA AcknowledgingFrame ==
  ASSUME NEW c \in Calls, NEW r, NEW back
  PROVE  LET d == Acknowledging(c, r, back)
         IN d.frame.type = "ack" /\ d.left = TxTries /\ d.what = "ack" /\ d.kind = c.kind
            /\ d.first = c.first /\ d.pc = "send" /\ d.back = back
<1> DEFINE f == AckFrame(r)
           s == [c EXCEPT !.pc = "send", !.what = "ack", !.frame = f, !.left = TxTries]
           d == [s EXCEPT !.back = back]
<1>1. f.type = "ack"
  BY DEF AckFrame
<1>2. Acknowledging(c, r, back) = d
  BY DEF Acknowledging, Sending
<1> HIDE DEF f
<1>3. /\ s.frame = f /\ s.left = TxTries /\ s.what = "ack" /\ s.kind = c.kind /\ s.first = c.first
      /\ s.pc = "send" /\ s = [s EXCEPT !.pc = "send"] /\ DOMAIN s = DOMAIN c
  BY DEF Calls
<1> HIDE DEF s
<1>4. d.frame = f /\ d.left = TxTries /\ d.what = "ack" /\ d.kind = c.kind /\ d.first = c.first
      /\ d.pc = "send" /\ d.back = back
  BY <1>3 DEF Calls
<1> QED BY <1>1, <1>2, <1>4

(* A segment is tried at least once. *)
LEMMA TriesAtLeast == TxTries >= 1
BY TriesAssumption

(* The steps of a call on its connection, up to the request. *)
LEMMA PageAlong ==
  ASSUME IInv, SInv, PInv, \/ SynSent \/ Connected \/ (FinalSent /\ call.kind # "tcp") \/ RequestSent
                     \/ (FlightDone /\ tls.valid) \/ (SendClientKeyExchange /\ KexMatch)
                     \/ CkeSent \/ DeriveKeys \/ FinishedSent \/ AppSent
                     \/ (AckSent /\ call.back # "idle")
  PROVE  PInv'
<1>1. call \in Calls /\ g \in Nets /\ SessionOK(tls) /\ tls \in Sessions
  BY UnderWay DEF SessionOK
<1>0. MildBefore /\ UNCHANGED <<nic, wire, peers>>
  BY OnwardGrows DEF Onward
<1> DEFINE n == [g EXCEPT !.local_next = @ + 1]
<1>2. /\ n.local_port = g.local_port /\ n.http_response = g.http_response
      /\ n.target_port = g.target_port /\ n.target_ip = g.target_ip /\ n.http_valid = g.http_valid
  BY <1>1 DEF Nets
<1>3. ASSUME NEW msg \in Msgs
      PROVE  /\ Hashed(tls, msg) \in Sessions
             /\ Hashed(tls, msg).plain = tls.plain /\ Hashed(tls, msg).app_record = tls.app_record
  BY <1>1, HashedOK DEF Aside, SessionOK
<1>4. ASSUME NEW pc \in {"http_wait", "flight_wait", "cke_wait", "fin_wait", "app_wait"}
      PROVE  Moved(Counted(pc), pc) /\ pc \in OnPoints /\ ~Busy(Counted(pc))
  <2>1. Go(pc) \in Calls
    BY <1>1, GoType DEF Pcs, Waits
  <2> DEFINE d == Counted(pc)
             e == g.local_next + 1
  <2>2. d = [Go(pc) EXCEPT !.end = e, !.acked = FALSE]
    BY DEF Counted
  <2>3. /\ Go(pc).kind = call.kind /\ Go(pc).ok = call.ok /\ Go(pc).pc = pc
    BY <1>1 DEF Calls, Go
  <2> HIDE DEF d, e
  <2>4. d.kind = call.kind /\ d.ok = call.ok /\ d.pc = pc
    BY <2>1, <2>2, <2>3 DEF Calls
  <2>5. Point(d) = pc /\ ~Busy(d)
    BY <2>4, Points
  <2> QED BY <2>4, <2>5 DEF Moved, d, OnPoints
<1> HIDE DEF n
<1>5. ASSUME NEW what \in OnPoints \ {"syn", "syn_wait"}, what \in Whats \ {"ack"},
             NEW frame, frame.type \in {"data", "ack"}, call' = Sending(call, what, frame, TxTries),
             Untouched, Point(call) \in OnPoints,
             what \in {"app", "app_wait"} => Point(call) \in {"app", "app_wait"}
      PROVE  PInv'
  <2>1. Moved(call', what)
    BY <1>1, <1>5, SendingMoves
  <2>2. call'.left >= 1 /\ call'.frame.type # "syn"
    BY <1>1, <1>5, SendingFrame, TriesAtLeast
  <2> QED BY <1>0, <1>5, <2>1, <2>2, PageOn DEF Aimed
<1>6. ASSUME NEW pc \in OnPoints, Moved(call', pc), ~Busy(call'), Untouched, Point(call) \in OnPoints,
             pc \in {"syn", "syn_wait"} => Point(call) \in {"syn", "syn_wait"},
             pc \in {"app", "app_wait"} => Point(call) \in {"app", "app_wait"}
      PROVE  PInv'
  BY <1>0, <1>6, PageOn
<1>7. ASSUME NEW u, u = tls', u.plain = tls.plain, u.app_record = tls.app_record, g' = g \/ g' = n
      PROVE  Untouched
  BY <1>2, <1>7 DEF Untouched, Unshown
<1>8. CASE SynSent
  <2>1. Point(call) = "syn" /\ UNCHANGED <<g, tls>> /\ call' = Go("syn_wait")
    BY <1>8, SentFacts DEF SynSent, Whats
  <2>2. Moved(call', "syn_wait") /\ call'.pc = "syn_wait"
    BY <1>1, <2>1, GoMoves, GoType DEF Pcs, Waits
  <2>3. ~Busy(call') /\ Untouched
    BY <1>7, <2>1, <2>2, Points
  <2> QED BY <1>6, <2>1, <2>2, <2>3 DEF OnPoints
<1>9. CASE Connected
  <2> DEFINE w == IF call.kind = "http" THEN "request" ELSE "final"
             r == [g EXCEPT !.local_next = g.syns, !.remote_next = g.last_seq + 1]
             x == [TcpFrame("data", Request) EXCEPT !.seq = g.syns]
             y == [AckFrame(g) EXCEPT !.seq = g.syns]
             frame == IF call.kind = "http" THEN x ELSE y
  <2>1. /\ Point(call) = "syn_wait" /\ tls' = tls /\ g' = r
        /\ call' = Sending(call, w, frame, TxTries)
    BY <1>9, Points DEF Connected, Ready, At
  <2>2. /\ r.local_port = g.local_port /\ r.http_response = g.http_response
        /\ r.target_port = g.target_port /\ r.target_ip = g.target_ip /\ r.http_valid = g.http_valid
    BY <1>1 DEF Nets
  <2>3. w \in OnPoints \ {"syn", "syn_wait"} /\ w \in Whats \ {"ack"} /\ w \notin {"app", "app_wait"}
    BY DEF OnPoints, Whats
  <2>4. frame.type \in {"data", "ack"}
    BY DEF TcpFrame, AckFrame
  <2> HIDE DEF w, r, frame
  <2>5. Untouched
    BY <2>1, <2>2 DEF Untouched, Unshown
  <2>6. Point(call) \in OnPoints
    BY <2>1 DEF OnPoints
  <2> QED BY <1>5, <2>1, <2>3, <2>4, <2>5, <2>6
<1>10. CASE FinalSent /\ call.kind # "tcp"
  <2> DEFINE frame == DataFrame(Request)
  <2>1. Point(call) = "final" /\ UNCHANGED <<g, tls>> /\ call' = Sending(call, "request", frame, TxTries)
    BY <1>10, SentFacts DEF FinalSent, Whats
  <2>2. frame.type = "data"
    BY DEF DataFrame, TcpFrame
  <2> HIDE DEF frame
  <2>3. Untouched
    BY <1>7, <2>1
  <2> QED BY <1>5, <2>1, <2>2, <2>3 DEF OnPoints, Whats
<1>11. CASE RequestSent
  <2> DEFINE pc == IF call.kind = "http" THEN "http_wait" ELSE "flight_wait"
             u == IF call.kind = "https" THEN Hashed(tls, "CH") ELSE tls
  <2>1. /\ Point(call) = "request" /\ g' = n /\ tls' = u
        /\ call' = Counted(pc)
    BY <1>11, SentFacts DEF RequestSent, Advanced, Whats, n
  <2>2. u.plain = tls.plain /\ u.app_record = tls.app_record
    BY <1>3 DEF Msgs
  <2>3. pc \in {"http_wait", "flight_wait"}
    OBVIOUS
  <2> HIDE DEF pc, u
  <2>4. Moved(call', pc) /\ pc \in OnPoints /\ ~Busy(call')
    BY <1>4, <2>1, <2>3
  <2>5. Untouched
    BY <1>7, <2>1, <2>2
  <2> QED BY <1>6, <2>1, <2>3, <2>4, <2>5 DEF OnPoints
<1>12. CASE FlightDone /\ tls.valid
  <2>1. Point(call) = "flight_wait" /\ UNCHANGED <<g, tls>>
    BY <1>12, Points DEF FlightDone, Leaves, Ready, GivesUp, At
  <2>2. call' = Acknowledging(call, g, "kex")
    BY <1>12 DEF FlightDone
  <2>3. Moved(call', "kex")
    BY <1>1, <2>2, AcknowledgingMoves
  <2>4. call'.left >= 1 /\ call'.frame.type # "syn"
    BY <1>1, <2>2, AcknowledgingFrame, TriesAtLeast
  <2>5. Untouched
    BY <1>7, <2>1
  <2> QED BY <1>0, <2>1, <2>3, <2>4, <2>5, PageOn DEF OnPoints, Aimed
<1>13. CASE SendClientKeyExchange /\ KexMatch
  <2> DEFINE frame == DataFrame([u |-> "CKE"])
  <2>1. Point(call) = "kex" /\ UNCHANGED <<g, tls>> /\ call' = Sending(call, "cke", frame, TxTries)
    BY <1>13, Points DEF SendClientKeyExchange, At
  <2>2. frame.type = "data"
    BY DEF DataFrame, TcpFrame
  <2> HIDE DEF frame
  <2>3. Untouched
    BY <1>7, <2>1
  <2> QED BY <1>5, <2>1, <2>2, <2>3 DEF OnPoints, Whats
<1>14. CASE CkeSent
  <2> DEFINE h == Hashed(tls, "CKE")
             u == [h EXCEPT !.cke = TRUE]
  <2>1. /\ Point(call) = "cke" /\ g' = n /\ tls' = u
        /\ call' = Counted("cke_wait")
    BY <1>14, SentFacts DEF CkeSent, Advanced, Whats, n
  <2>2. h \in Sessions /\ h.plain = tls.plain /\ h.app_record = tls.app_record
    BY <1>3 DEF Msgs
  <2> HIDE DEF h
  <2>3. u.plain = tls.plain /\ u.app_record = tls.app_record
    BY <2>2 DEF Sessions
  <2> HIDE DEF u
  <2>4. Moved(call', "cke_wait") /\ ~Busy(call')
    BY <1>4, <2>1
  <2>5. Untouched
    BY <1>7, <2>1, <2>3
  <2> QED BY <1>6, <2>1, <2>4, <2>5 DEF OnPoints
<1>15. CASE DeriveKeys
  <2> DEFINE u == [tls EXCEPT !.keys = tls.kex, !.client_finished = tls.transcript]
             frame == DataFrame(FinishedMessage(tls))
  <2>1. /\ Point(call) = "cke_wait" /\ g' = g /\ tls' = u
        /\ call' = Sending(call, "finished", frame, TxTries)
    BY <1>15, Points DEF DeriveKeys, Leaves, Ready, GivesUp, At
  <2>2. u.plain = tls.plain /\ u.app_record = tls.app_record
    BY <1>1 DEF Sessions
  <2>3. frame.type = "data"
    BY DEF DataFrame, TcpFrame
  <2> HIDE DEF u, frame
  <2>4. Untouched
    BY <1>7, <2>1, <2>2
  <2> QED BY <1>5, <2>1, <2>3, <2>4 DEF OnPoints, Whats
<1>16. CASE FinishedSent
  <2> DEFINE h == Hashed(tls, "Finished")
             u == [h EXCEPT !.finished_tx = TRUE]
  <2>1. /\ Point(call) = "finished" /\ g' = n /\ tls' = u
        /\ call' = Counted("fin_wait")
    BY <1>16, SentFacts DEF FinishedSent, Advanced, Whats, n
  <2>2. h \in Sessions /\ h.plain = tls.plain /\ h.app_record = tls.app_record
    BY <1>3 DEF Msgs
  <2> HIDE DEF h
  <2>3. u.plain = tls.plain /\ u.app_record = tls.app_record
    BY <2>2 DEF Sessions
  <2> HIDE DEF u
  <2>4. Moved(call', "fin_wait") /\ ~Busy(call')
    BY <1>4, <2>1
  <2>5. Untouched
    BY <1>7, <2>1, <2>3
  <2> QED BY <1>6, <2>1, <2>4, <2>5 DEF OnPoints
<1>17. CASE AppSent
  <2> DEFINE u == [tls EXCEPT !.app_tx = TRUE]
  <2>1. /\ Point(call) = "app" /\ g' = n /\ tls' = u
        /\ call' = Counted("app_wait")
    BY <1>17, SentFacts DEF AppSent, Advanced, Whats, n
  <2>2. u.plain = tls.plain /\ u.app_record = tls.app_record
    BY <1>1 DEF Sessions
  <2> HIDE DEF u
  <2>3. Moved(call', "app_wait") /\ ~Busy(call')
    BY <1>4, <2>1
  <2>4. Untouched
    BY <1>7, <2>1, <2>2
  <2> QED BY <1>6, <2>1, <2>3, <2>4 DEF OnPoints
<1>18. CASE AckSent /\ call.back # "idle"
  <2>1. call.pc = "tx" /\ call.what = "ack" /\ UNCHANGED <<g, tls>> /\ call' = Go(call.back)
    BY <1>18 DEF AckSent, Sent, At
  <2>2. Busy(call) /\ Point(call) = call.back /\ call.back \in Backs
    BY <2>1, Points, UnderWay DEF CallOK, FlowOK, Backs
  <2> DEFINE pc == call.back
  <2>3. pc \in OnPoints /\ pc \in Pcs \ {"send", "tx"}
    BY <1>18, <2>2 DEF OnPoints, Pcs, Waits, Backs
  <2>4. call' = Go(pc) /\ Point(call) = pc
    BY <2>1, <2>2
  <2> HIDE DEF pc
  <2>5. Moved(call', pc) /\ call'.pc = pc
    BY <1>1, <2>3, <2>4, GoMoves, GoType
  <2>6. ~Busy(call') /\ Untouched
    BY <1>7, <2>1, <2>3, <2>5, Points
  <2> QED BY <1>6, <2>3, <2>4, <2>5, <2>6
<1> QED BY <1>8, <1>9, <1>10, <1>11, <1>12, <1>13, <1>14, <1>15, <1>16, <1>17, <1>18

(* Before the first unit of the page there is none. *)
LEMMA FirstNone ==
  ASSUME NEW k
  PROVE  First(k, 0) = <<>>
<1>1. 0 \in Nat /\ 0 <= PageLen /\ Capture_ \in Nat
  BY PageAssumption, SizesAssumption
<1>2. Least(0, Capture_) = 0
  BY <1>1 DEF Least
<1>3. /\ First(k, 0) \in Seq([u : {"status", "text"}, conn : {k}])
      /\ Len(First(k, 0)) = 0
  BY <1>1, <1>2, FirstFacts
<1> DEFINE s == First(k, 0)
<1> HIDE DEF s
<1>4. s = <<>>
  BY <1>3 DEF s
<1> QED BY <1>4 DEF s

(* A call that has taken nothing of a page shows nothing. *)
LEMMA NothingTaken ==
  ASSUME NEW t, NEW c, c.kind = "http", NEW r, NEW n, Took(r, t, c, n), n = 0
  PROVE  r.http_response = <<>> /\ ~r.http_valid
BY FirstNone DEF Took, TookPlain

(* The steps of a call without a connection, or that give theirs up. *)
LEMMA PageAway ==
  ASSUME IInv, SInv, PInv, \/ Query \/ ArpSent \/ ArpDone \/ Ask \/ DnsSent \/ DnsDone
                     \/ ConnectAsks \/ NoTargetLeft \/ NotConnected \/ HttpFailed
                     \/ (FlightDone /\ ~tls.valid) \/ (SendClientKeyExchange /\ ~KexMatch)
                     \/ (SendHttpGet /\ ~tls.verified)
  PROVE  PInv'
<1>1. call \in Calls /\ g \in Nets
  BY UnderWay
<1>2. MildBefore /\ UNCHANGED <<nic, wire, peers>>
  BY OnwardGrows DEF Onward
<1>3. ASSUME NEW pc \in OffPoints \ {"idle"}, Point(call') = pc, call'.kind = call.kind,
             call'.first = call.first, Busy(call') => call'.left >= 1 /\ call'.what # "ack",
             Point(call) \in OffPoints \ {"idle"}, Unshown(g, g'),
             pc \in Asking => \/ /\ Point(call) \in Asking
                                 /\ g'.local_port = g.local_port /\ g'.syns = g.syns
                              \/ g'.local_port = g'.syns /\ g'.syns \in Nat
      PROVE  PInv'
  <2>1. ASSUME PageOK(peers, Line, nic.tx, g, tls, call)
        PROVE  /\ call'.kind = "http" => g'.http_response = <<>> /\ ~g'.http_valid
               /\ pc \in Asking => ~(call'.first <= g'.local_port /\ g'.local_port < g'.syns)
    <3>1. OffOK(g, call)
      BY <2>1 DEF PageOK
    <3>2. call'.kind = "http" => g'.http_response = <<>> /\ ~g'.http_valid
      BY <1>3, <3>1 DEF OffOK, Unshown
    <3>3. pc \in Asking => ~(call'.first <= g'.local_port /\ g'.local_port < g'.syns)
      BY <1>3, <3>1 DEF OffOK
    <3> QED BY <3>2, <3>3
  <2> QED BY <1>2, <1>3, <2>1, PageOff
<1>4. ASSUME NEW pc \in OffPoints \ {"idle"}, pc \in Pcs \ {"send", "tx"}, call' = Go(pc)
      PROVE  /\ Point(call') = pc /\ call'.kind = call.kind /\ call'.first = call.first /\ ~Busy(call')
  <2>1. call'.pc = pc /\ call'.kind = call.kind /\ call'.first = call.first
    BY <1>1, <1>4, GoType
  <2> QED BY <1>4, <2>1, Points
<1>5. ASSUME NEW c \in Calls, c.kind = call.kind, c.first = call.first, NEW what \in {"arp", "dns"},
             NEW frame, call' = Sending(c, what, frame, 1)
      PROVE  /\ Point(call') = what /\ call'.kind = call.kind /\ call'.first = call.first
             /\ call'.left = 1 /\ call'.what # "ack"
  <2>1. call'.pc = "send"
    BY <1>5 DEF Sending, Calls
  <2>2. call'.what = what /\ call'.left = 1 /\ call'.kind = c.kind /\ call'.first = c.first
    BY <1>5, SendingFrame
  <2> QED BY <1>5, <2>1, <2>2, Points
<1>6. ASSUME NEW pc \in OffPoints \ {"idle"}, pc \in Pcs \ {"send", "tx"}, call' = Go(pc),
             UNCHANGED <<g, tls>>, Point(call) \in OffPoints \ {"idle"},
             pc \in Asking => Point(call) \in Asking
      PROVE  PInv'
  <2>1. Unshown(g, g')
    BY <1>6 DEF Unshown
  <2> QED BY <1>3, <1>4, <1>6, <2>1
<1>p. {"query", "ask", "connect", "fail", "arp_wait", "dns_wait"} \subseteq
         (OffPoints \ {"idle"}) \cap (Pcs \ {"send", "tx"})
  BY DEF OffPoints, Pcs, Waits
<1>7. CASE Query
  <2> DEFINE e == call.dns_left - 1
             c == [call EXCEPT !.dns_left = e]
             a == [c EXCEPT !.pc = "ask"]
             v == Targets(g)
             b == [call EXCEPT !.pc = "connect", !.targets = v]
             frame == ArpFrame
  <2>1. /\ call.pc = "query" /\ UNCHANGED <<g, tls>>
        /\ \/ call' = b
           \/ call' = Go("fail")
           \/ call.dns_left # 0 /\ (call' = a \/ call' = Sending(c, "arp", frame, 1))
    BY <1>7 DEF Query, At
  <2>2. Point(call) = "query" /\ "query" \in OffPoints \ {"idle"} /\ "query" \in Asking
    BY <2>1, Points DEF OffPoints, Asking
  <2>3. Unshown(g, g')
    BY <2>1 DEF Unshown
  <2> HIDE DEF v
  <2>4. b.kind = call.kind /\ b.first = call.first /\ b.pc = "connect"
    BY <1>1 DEF Calls
  <2>5. call.dns_left # 0 => e \in 0..DnsTries
    <3>1. call.dns_left \in 0..DnsTries /\ DnsTries \in Nat
      BY <1>1, TriesAssumption DEF Calls
    <3> QED BY <3>1
  <2> HIDE DEF e
  <2>6. /\ c.kind = call.kind /\ c.first = call.first
        /\ a.kind = call.kind /\ a.first = call.first /\ a.pc = "ask"
    BY <1>1 DEF Calls
  <2>7. call.dns_left # 0 => c \in Calls
    BY <1>1, <2>5 DEF Calls
  <2> HIDE DEF a, b, c, frame
  <2>8. CASE call' = b
    <3>1. Point(call') = "connect" /\ ~Busy(call')
      BY <2>4, <2>8, Points
    <3>2. "connect" \in OffPoints \ {"idle"} /\ "connect" \notin Asking
      BY DEF OffPoints, Asking
    <3> QED BY <1>3, <2>1, <2>2, <2>3, <2>4, <2>8, <3>1, <3>2
  <2>9. CASE call' = Go("fail")
    BY <1>6, <1>p, <2>1, <2>2, <2>9
  <2>10. CASE call.dns_left # 0 /\ call' = a
    <3>1. Point(call') = "ask" /\ ~Busy(call')
      BY <2>6, <2>10, Points
    <3>2. "ask" \in OffPoints \ {"idle"}
      BY DEF OffPoints
    <3> QED BY <1>3, <2>1, <2>2, <2>3, <2>6, <2>10, <3>1, <3>2
  <2>11. CASE call.dns_left # 0 /\ call' = Sending(c, "arp", frame, 1)
    <3>1. /\ Point(call') = "arp" /\ call'.kind = call.kind /\ call'.first = call.first
          /\ call'.left = 1 /\ call'.what # "ack"
      BY <1>5, <2>6, <2>7, <2>11
    <3>2. "arp" \in OffPoints \ {"idle"}
      BY DEF OffPoints
    <3> QED BY <1>3, <2>1, <2>2, <2>3, <3>1, <3>2
  <2> QED BY <2>1, <2>8, <2>9, <2>10, <2>11
<1>8. CASE ArpSent
  <2>1. Point(call) = "arp" /\ UNCHANGED <<g, tls>> /\ call' = Go("arp_wait")
    BY <1>8, SentFacts DEF ArpSent, Whats
  <2>2. "arp" \in OffPoints \ {"idle"} /\ "arp" \in Asking
    BY DEF OffPoints, Asking
  <2> QED BY <1>6, <1>p, <2>1, <2>2
<1>9. CASE ArpDone
  <2>1. call.pc = "arp_wait" /\ UNCHANGED <<g, tls>>
    BY <1>9 DEF ArpDone, Leaves, Ready, GivesUp, At
  <2>2. \E pc \in {"ask", "connect", "query", "fail"} : call' = Go(pc)
    BY <1>9 DEF ArpDone
  <2>3. Point(call) = "arp_wait" /\ "arp_wait" \in OffPoints \ {"idle"} /\ "arp_wait" \in Asking
    BY <2>1, Points DEF OffPoints, Asking
  <2> QED BY <1>6, <1>p, <2>1, <2>2, <2>3
<1>10. CASE Ask
  <2> DEFINE frame == DnsFrame
             r == [g EXCEPT !.dns_valid = FALSE, !.dns_ips = <<>>]
  <2>1. call.pc = "ask" /\ g' = r /\ call' = Sending(call, "dns", frame, 1)
    BY <1>10 DEF Ask, At
  <2>2. /\ r.http_response = g.http_response /\ r.http_valid = g.http_valid
        /\ r.local_port = g.local_port /\ r.syns = g.syns
    BY <1>1 DEF Nets
  <2> HIDE DEF frame, r
  <2>3. Point(call) = "ask" /\ "ask" \in OffPoints \ {"idle"} /\ "ask" \in Asking
        /\ "dns" \in OffPoints \ {"idle"}
    BY <2>1, Points DEF OffPoints, Asking
  <2>4. Unshown(g, g')
    BY <2>1, <2>2 DEF Unshown
  <2>5. /\ Point(call') = "dns" /\ call'.kind = call.kind /\ call'.first = call.first
        /\ call'.left = 1 /\ call'.what # "ack"
    BY <1>1, <1>5, <2>1
  <2> QED BY <1>3, <2>1, <2>2, <2>3, <2>4, <2>5
<1>11. CASE DnsSent
  <2>1. Point(call) = "dns" /\ UNCHANGED <<g, tls>> /\ call' = Go("dns_wait")
    BY <1>11, SentFacts DEF DnsSent, Whats
  <2>2. "dns" \in OffPoints \ {"idle"} /\ "dns" \in Asking
    BY DEF OffPoints, Asking
  <2> QED BY <1>6, <1>p, <2>1, <2>2
<1>12. CASE DnsDone
  <2>1. call.pc = "dns_wait" /\ UNCHANGED <<g, tls>> /\ call' = Go("query")
    BY <1>12 DEF DnsDone, Leaves, Ready, GivesUp, At
  <2>2. Point(call) = "dns_wait" /\ "dns_wait" \in OffPoints \ {"idle"} /\ "dns_wait" \in Asking
    BY <2>1, Points DEF OffPoints, Asking
  <2> QED BY <1>6, <1>p, <2>1, <2>2
<1>13. CASE ConnectAsks
  <2> DEFINE frame == ArpFrame
             r == Connecting(g)
  <2>1. call.pc = "connect" /\ g' = r /\ call' = Sending(call, "arp", frame, 1)
    BY <1>13 DEF ConnectAsks, At
  <2>2. /\ r.http_response = g.http_response /\ r.http_valid = g.http_valid
        /\ r.local_port = g.syns /\ r.syns = g.syns /\ g.syns \in Nat
    <3> DEFINE h == Head(call.targets)
               p == Port
    <3>1. r = [g EXCEPT !.target_ip = h, !.target_port = p,
              !.local_port = g.syns, !.synack = FALSE, !.last_ack = 0, !.last_seq = 0]
      BY DEF Connecting
    <3> HIDE DEF h, p
    <3> QED BY <1>1, <3>1 DEF Nets
  <2> HIDE DEF frame, r
  <2>3. Point(call) = "connect" /\ "connect" \in OffPoints \ {"idle"} /\ "arp" \in OffPoints \ {"idle"}
    BY <2>1, Points DEF OffPoints
  <2>4. Unshown(g, g')
    BY <2>1, <2>2 DEF Unshown
  <2>5. /\ Point(call') = "arp" /\ call'.kind = call.kind /\ call'.first = call.first
        /\ call'.left = 1 /\ call'.what # "ack"
    BY <1>1, <1>5, <2>1
  <2> QED BY <1>3, <2>1, <2>2, <2>3, <2>4, <2>5
<1>14. CASE NoTargetLeft
  <2>1. call.pc = "connect" /\ UNCHANGED <<g, tls>> /\ call' = Go("fail")
    BY <1>14 DEF NoTargetLeft, At
  <2>2. Point(call) = "connect" /\ "connect" \in OffPoints \ {"idle"} /\ "fail" \notin Asking
    BY <2>1, Points DEF OffPoints, Asking
  <2> QED BY <1>6, <1>p, <2>1, <2>2
<1>15. ASSUME NEW pc \in {"connect", "fail"}, call' = Go(pc),
              PageOK(peers, Line, nic.tx, g, tls, call) /\ call.kind = "http"
                 => g'.http_response = <<>> /\ ~g'.http_valid
       PROVE  PInv'
  <2>1. pc \in OffPoints \ {"idle"} /\ pc \in Pcs \ {"send", "tx"} /\ pc \notin Asking
    BY <1>p DEF Asking
  <2>2. Point(call') = pc /\ call'.kind = call.kind /\ ~Busy(call')
    BY <1>4, <1>15, <2>1
  <2> QED BY <1>2, <1>15, <2>1, <2>2, PageOff
<1>16. CASE NotConnected
  <2>1. call.pc = "syn_wait" /\ g' = g /\ call' = Go("connect")
    BY <1>16 DEF NotConnected, GivesUp, At
  <2>2. Dialing(call) /\ Connection(call)
    BY <2>1, Points DEF Dialing, Connection
  <2>3. ASSUME PageOK(peers, Line, nic.tx, g, tls, call), call.kind = "http"
        PROVE  g.http_response = <<>> /\ ~g.http_valid
    <3>1. Live(call)
      BY <2>2, <2>3 DEF Live
    <3>2. Given(peers, g.local_port) = 0
      BY <2>2, <2>3, <3>1 DEF PageOK, DialOK
    <3>3. PICK n \in Nat, e \in Nat : Runs(Line, g.local_port, n, e) /\ e <= Given(peers, g.local_port)
                                       /\ Took(g, tls, call, n)
      BY <2>3, <3>1 DEF PageOK, StreamOK
    <3>4. n <= e
      BY <3>3, LineFacts, RunsType
    <3>5. n = 0
      BY <3>2, <3>3, <3>4
    <3> QED BY <2>3, <3>3, <3>5, NothingTaken
  <2> QED BY <1>15, <2>1, <2>3
<1>17. CASE HttpFailed
  <2>1. call.pc = "http_wait" /\ g' = g /\ call' = Go("connect") /\ ~g.http_valid
    BY <1>17 DEF HttpFailed, GivesUp, At, Over
  <2>2. Connection(call)
    <3>1. Point(call) \in OnPoints
      BY <2>1, Points DEF OnPoints
    <3> QED BY <3>1, OnAndOff
  <2>3. ASSUME PageOK(peers, Line, nic.tx, g, tls, call), call.kind = "http"
        PROVE  g.http_response = <<>> /\ ~g.http_valid
    <3>1. Live(call)
      BY <2>2, <2>3 DEF Live
    <3>2. PICK n \in Nat : Took(g, tls, call, n)
      BY <2>3, <3>1 DEF PageOK, StreamOK
    <3>3. n = 0
      BY <2>1, <2>3, <3>2 DEF Took, TookPlain
    <3> QED BY <2>3, <3>2, <3>3, NothingTaken
  <2> QED BY <1>15, <2>1, <2>3
<1>18. ASSUME Point(call) \in {"flight_wait", "kex", "fin_wait"} PROVE call.kind # "http"
  <2>1. Stage(call) >= 0
    BY <1>18, Stages
  <2>2. StageOK(peers, g, call)
    BY UnderWay DEF CallOK
  <2> QED BY <1>18, <2>1, <2>2 DEF StageOK
<1>19. CASE FlightDone /\ ~tls.valid
  <2>1. Point(call) = "flight_wait" /\ call' = Go("connect")
    BY <1>19, Points DEF FlightDone, Leaves, Ready, GivesUp, At
  <2> QED BY <1>15, <1>18, <2>1
<1>20. CASE SendClientKeyExchange /\ ~KexMatch
  <2>1. Point(call) = "kex" /\ call' = Go("fail")
    BY <1>20, Points DEF SendClientKeyExchange, At
  <2> QED BY <1>15, <1>18, <2>1
<1>21. CASE SendHttpGet /\ ~tls.verified
  <2>1. Point(call) = "fin_wait" /\ call' = Go("fail")
    BY <1>21, Points DEF SendHttpGet, Leaves, Ready, GivesUp, At
  <2> QED BY <1>15, <1>18, <2>1
<1> QED BY <1>7, <1>8, <1>9, <1>10, <1>11, <1>12, <1>13, <1>14, <1>16, <1>17, <1>19, <1>20, <1>21

(* A server sends no more than its page. *)
LEMMA GivenBound ==
  ASSUME NEW ps, NEW k
  PROVE  Given(ps, k) \in Nat /\ Given(ps, k) <= PageLen
BY PageAssumption DEF Given

(* A call that returns. *)
LEMMA PageReturn ==
  ASSUME IInv, PInv, Onward, UNCHANGED <<g, tls>>, NEW ok \in BOOLEAN, call' = Return(ok),
         PageOK(peers, Line, nic.tx, g, tls, call) /\ ok =>
             /\ call.kind = "http" => \E n \in 1..PageLen : g.http_response = First(g.local_port, n)
             /\ call.kind = "https" => g.http_response = Opening(g.local_port)
  PROVE  PInv'
<1>1. call'.kind = call.kind /\ call'.pc = "idle" /\ call'.ok = ok
  BY NoCallType DEF Return, Calls
<1>2. Point(call') = "idle" /\ ~Busy(call')
  BY <1>1, Points
<1>3. ~Live(call') /\ "idle" \notin Asking
  <2>1. ~Connection(call')
    BY <1>2, OnAndOff DEF OffPoints
  <2> QED BY <1>2, <2>1 DEF Live, Returning, Asking
<1>4. MildBefore /\ UNCHANGED <<nic, wire, peers>>
  BY OnwardGrows
<1>5. Line' = Line
  BY <1>4 DEF Line
<1>6. ASSUME PageOK(peers, Line, nic.tx, g, tls, call)
      PROVE  PageOK(peers, Line, nic.tx, g, tls, call')
  <2>1. DoneOK(g, call')
    BY <1>1, <1>6 DEF DoneOK
  <2>2. OffOK(g, call')
    BY <1>2, <1>3 DEF OffOK
  <2> QED BY <1>3, <2>1, <2>2 DEF PageOK, StreamOK, MatchOK, DialOK
<1> QED BY <1>2, <1>4, <1>5, <1>6, PageStep

(* The steps that end a wait on the connection, and those that return. *)
LEMMA PageEnds ==
  ASSUME IInv, SInv, PInv, \/ HttpDone \/ (AckSent /\ call.back = "idle") \/ (SendHttpGet /\ tls.verified)
                           \/ AppDone \/ Fail \/ (FinalSent /\ call.kind = "tcp")
  PROVE  PInv'
<1>1. call \in Calls /\ g \in Nets /\ SessionOK(tls) /\ tls \in Sessions
  BY UnderWay DEF SessionOK
<1>2. Onward /\ MildBefore /\ UNCHANGED <<nic, wire, peers>>
  BY OnwardGrows DEF Onward
<1>3. Line' = Line
  BY <1>2 DEF Line
<1>4. CASE HttpDone
  <2> DEFINE ok == TRUE
             c == Return(ok)
             back == "idle"
  <2>1. /\ Point(call) = "http_wait" /\ UNCHANGED <<g, tls>> /\ g.http_valid
        /\ ok \in BOOLEAN /\ call' = Acknowledging(c, g, back) /\ back \in Backs /\ back = "idle"
    BY <1>4, Points DEF HttpDone, Ready, At, Over, Backs
  <2> HIDE DEF ok, back
  <2>2. c \in Calls /\ c.kind = call.kind
    BY <1>1, <2>1, ReturnType
  <2> HIDE DEF c
  <2>3. /\ call'.pc = "send" /\ call'.what = "ack" /\ call'.back = "idle" /\ call'.kind = call.kind
        /\ call'.frame.type = "ack" /\ call'.left >= 1
    BY <2>1, <2>2, AcknowledgingFrame, TriesAtLeast
  <2>4. Point(call') = "idle" /\ Busy(call') /\ Returning(call') /\ ~Connection(call')
    <3>1. Point(call') = "idle" /\ Busy(call')
      BY <2>3, Points
    <3> QED BY <2>3, <3>1, OnAndOff DEF OffPoints, Returning
  <2>5. call.kind = "http" /\ Connection(call)
    <3>1. Stage(call) = 1 /\ Point(call) \in OnPoints
      BY <2>1, Stages DEF OnPoints
    <3> QED BY <2>1, <3>1, UnderWay, OnAndOff DEF CallOK, StageOK
  <2>6. ASSUME PageOK(peers, Line, nic.tx, g, tls, call)
        PROVE  PageOK(peers, Line, nic.tx, g, tls, call')
    <3>1. Live(call) /\ ~Dialing(call')
      BY <2>4, <2>5 DEF Live, Connection
    <3>2. PICK n \in Nat, e \in Nat : Runs(Line, g.local_port, n, e) /\ e <= Given(peers, g.local_port)
                                       /\ Took(g, tls, call, n)
      BY <2>6, <3>1 DEF PageOK, StreamOK
    <3>3. TookPlain(g, n) /\ n # 0
      BY <2>1, <2>5, <3>2 DEF Took, TookPlain
    <3>4. Took(g, tls, call', n)
      BY <2>3, <2>5, <3>3 DEF Took
    <3>5. StreamOK(peers, Line, g, tls, call')
      BY <3>2, <3>4 DEF StreamOK
    <3>6. MatchOK(peers, Line, nic.tx, g, call')
      BY <2>3, <2>6, <3>1 DEF PageOK, MatchOK, Aimed
    <3>7. DialOK(peers, nic.tx, g, call')
      BY <3>1 DEF DialOK
    <3>8. OffOK(g, call') /\ DoneOK(g, call')
      BY <2>3, <2>4 DEF OffOK, DoneOK, Asking
    <3> QED BY <3>5, <3>6, <3>7, <3>8 DEF PageOK
  <2> QED BY <1>2, <1>3, <2>1, <2>3, <2>6, PageStep
<1>5. CASE AckSent /\ call.back = "idle"
  <2> DEFINE ok == TRUE
  <2>1. call.pc = "tx" /\ call.what = "ack" /\ UNCHANGED <<g, tls>> /\ call' = Return(ok)
        /\ ok \in BOOLEAN
    BY <1>5 DEF AckSent, Sent, At
  <2> HIDE DEF ok
  <2>2. Busy(call) /\ Returning(call)
    BY <1>5, <2>1 DEF Busy, Returning
  <2>3. call.kind # "https"
    BY <1>5, <2>1, <2>2 DEF SInv, SafeOK
  <2>4. ASSUME PageOK(peers, Line, nic.tx, g, tls, call), call.kind = "http"
        PROVE  \E n \in 1..PageLen : g.http_response = First(g.local_port, n)
    <3>1. Live(call)
      BY <2>2, <2>4 DEF Live
    <3>2. PICK n \in Nat, e \in Nat : Runs(Line, g.local_port, n, e) /\ e <= Given(peers, g.local_port)
                                       /\ Took(g, tls, call, n)
      BY <2>4, <3>1 DEF PageOK, StreamOK
    <3>3. TookPlain(g, n) /\ n # 0
      BY <2>2, <2>4, <3>2 DEF Took
    <3>4. n <= e
      BY <3>2, LineFacts, RunsType
    <3>5. Given(peers, g.local_port) \in Nat /\ Given(peers, g.local_port) <= PageLen
      BY GivenBound
    <3>6. n \in 1..PageLen
      BY <3>2, <3>3, <3>4, <3>5, PageAssumption
    <3> QED BY <3>3, <3>6 DEF TookPlain
  <2> QED BY <1>2, <2>1, <2>3, <2>4, PageReturn
<1>6. CASE SendHttpGet /\ tls.verified
  <2> DEFINE u == [tls EXCEPT !.app_tx = FALSE, !.app_decrypt = FALSE, !.app_need = 0,
                              !.app_record = <<>>]
             r == [g EXCEPT !.http_response = <<>>, !.http_valid = FALSE]
             frame == DataFrame([u |-> "sealed get", key |-> tls.keys])
  <2>1. /\ Point(call) = "fin_wait" /\ tls' = u /\ g' = r /\ call' = Sending(call, "app", frame, TxTries)
    BY <1>6, Points DEF SendHttpGet, Leaves, Ready, GivesUp, At
  <2>2. u.plain = tls.plain /\ u.app_record = <<>>
    BY <1>1 DEF Sessions
  <2>3. /\ r.http_response = <<>> /\ r.local_port = g.local_port
        /\ r.target_port = g.target_port /\ r.target_ip = g.target_ip
    BY <1>1 DEF Nets
  <2>4. frame.type = "data"
    BY DEF DataFrame, TcpFrame
  <2> HIDE DEF u, r, frame
  <2>5. Moved(call', "app")
    BY <1>1, <2>1, SendingMoves DEF Whats
  <2>6. call'.left >= 1 /\ call'.frame.type = "data"
    BY <1>1, <2>1, <2>4, SendingFrame, TriesAtLeast
  <2>7. call.kind = "https" /\ Connection(call)
    <3>1. Stage(call) = 3 /\ Point(call) \in OnPoints
      BY <2>1, Stages DEF OnPoints
    <3>2. StageOK(peers, g, call)
      BY UnderWay DEF CallOK
    <3>3. Connection(call)
      BY <3>1, OnAndOff
    <3> QED BY <2>1, <3>1, <3>2, <3>3 DEF StageOK
  <2>8. /\ Point(call') = "app" /\ call'.kind = "https" /\ ~Returning(call') /\ ~Dialing(call')
        /\ call'.pc # "idle"
    <3>1. Point(call') = "app" /\ call'.kind = "https"
      BY <2>5, <2>7 DEF Moved
    <3>2. ~Returning(call')
      BY <2>5 DEF Moved, Returning
    <3> QED BY <3>1, <3>2, Points DEF Dialing
  <2>9. ASSUME PageOK(peers, Line, nic.tx, g, tls, call)
        PROVE  PageOK(peers, Line, nic.tx, r, u, call')
    <3>1. Live(call)
      BY <2>7 DEF Live
    <3>2. PICK n \in Nat, e \in Nat : Runs(Line, g.local_port, n, e) /\ e <= Given(peers, g.local_port)
                                       /\ Took(g, tls, call, n)
      BY <2>9, <3>1 DEF PageOK, StreamOK
    <3>3. TookSecure(g, tls, n)
      BY <2>7, <3>2 DEF Took
    <3>4. Own(<<>>, r.local_port) /\ Once(<<>>) /\ ~Closes(<<>>)
      BY EmptyType DEF Own, Once, Closes
    <3>5. TookSecure(r, u, n) /\ Opened(r, u, n)
      BY <2>2, <2>3, <3>3, <3>4 DEF TookSecure, Opened
    <3>6. Took(r, u, call', n)
      BY <2>8, <3>5 DEF Took
    <3>7. StreamOK(peers, Line, r, u, call')
      BY <2>3, <3>2, <3>6 DEF StreamOK
    <3>8. \A f : Aimed(f, g) => Aimed(f, r)
      BY <2>3 DEF Aimed
    <3>9. Facing(Line, g) => Facing(Line, r)
      BY <2>3 DEF Facing, Taken, ForUs
    <3>10. MatchOK(peers, Line, nic.tx, r, call')
      <4>1. Aimed(call'.frame, r)
        BY <2>6 DEF Aimed
      <4> QED BY <2>3, <2>9, <3>1, <3>8, <3>9, <4>1 DEF PageOK, MatchOK, Faced
    <3>11. DialOK(peers, nic.tx, r, call')
      BY <2>8 DEF DialOK
    <3>12. OffOK(r, call') /\ DoneOK(r, call')
      BY <2>8 DEF OffOK, DoneOK, Asking
    <3> QED BY <3>7, <3>10, <3>11, <3>12 DEF PageOK
  <2> QED BY <1>2, <1>3, <2>1, <2>6, <2>9, PageStep
<1>7. CASE AppDone
  <2> DEFINE ok == tls.app_decrypt /\ g.http_response # <<>>
  <2>1. Point(call) = "app_wait" /\ UNCHANGED <<g, tls>> /\ call' = Return(ok)
    BY <1>7, Points DEF AppDone, Leaves, Ready, GivesUp, At
  <2>2. ok \in BOOLEAN /\ (ok => g.http_response # <<>>)
    OBVIOUS
  <2> HIDE DEF ok
  <2>3. call.kind = "https" /\ Connection(call)
    <3>1. Stage(call) = 4 /\ Point(call) \in OnPoints
      BY <2>1, Stages DEF OnPoints
    <3>2. StageOK(peers, g, call)
      BY UnderWay DEF CallOK
    <3>3. Connection(call)
      BY <3>1, OnAndOff
    <3> QED BY <2>1, <3>1, <3>2, <3>3 DEF StageOK
  <2>4. ASSUME PageOK(peers, Line, nic.tx, g, tls, call), ok
        PROVE  g.http_response = Opening(g.local_port)
    <3>1. Live(call)
      BY <2>3 DEF Live
    <3>2. PICK n \in Nat : Took(g, tls, call, n)
      BY <2>4, <3>1 DEF PageOK, StreamOK
    <3> QED BY <2>1, <2>2, <2>3, <2>4, <3>2 DEF Took, Opened
  <2> QED BY <1>2, <2>1, <2>2, <2>3, <2>4, PageReturn
<1>8. CASE Fail
  <2> DEFINE ok == FALSE
  <2>1. UNCHANGED <<g, tls>> /\ call' = Return(ok) /\ ok \in BOOLEAN /\ ~ok
    BY <1>8 DEF Fail
  <2> HIDE DEF ok
  <2> QED BY <1>2, <2>1, PageReturn
<1>9. CASE FinalSent /\ call.kind = "tcp"
  <2> DEFINE ok == TRUE
  <2>1. UNCHANGED <<g, tls>> /\ call' = Return(ok) /\ ok \in BOOLEAN
    BY <1>9 DEF FinalSent
  <2> HIDE DEF ok
  <2> QED BY <1>2, <1>9, <2>1, PageReturn
<1> QED BY <1>4, <1>5, <1>6, <1>7, <1>8, <1>9

(* Every step of a call between its sends and its polls. *)
LEMMA PageOnward ==
  ASSUME IInv, SInv, PInv, Onward
  PROVE  PInv'
<1> DEFINE along == \/ SynSent \/ Connected \/ (FinalSent /\ call.kind # "tcp") \/ RequestSent
                     \/ (FlightDone /\ tls.valid) \/ (SendClientKeyExchange /\ KexMatch)
                     \/ CkeSent \/ DeriveKeys \/ FinishedSent \/ AppSent
                     \/ (AckSent /\ call.back # "idle")
           away == \/ Query \/ ArpSent \/ ArpDone \/ Ask \/ DnsSent \/ DnsDone
                   \/ ConnectAsks \/ NoTargetLeft \/ NotConnected \/ HttpFailed
                   \/ (FlightDone /\ ~tls.valid) \/ (SendClientKeyExchange /\ ~KexMatch)
                   \/ (SendHttpGet /\ ~tls.verified)
           ends == \/ HttpDone \/ (AckSent /\ call.back = "idle") \/ (SendHttpGet /\ tls.verified)
                   \/ AppDone \/ Fail \/ (FinalSent /\ call.kind = "tcp")
<1>1. along \/ away \/ ends
  BY Zenon DEF Onward
<1>2. along => PInv'
  BY PageAlong
<1>3. away => PInv'
  BY PageAway
<1>4. ends => PInv'
  BY PageEnds
<1> QED BY <1>1, <1>2, <1>3, <1>4

(* What is known of a page speaks of a few of the globals. *)
LEMMA PageGlobals ==
  ASSUME NEW ps, NEW q, NEW tx, NEW r, NEW t, NEW c, PageOK(ps, q, tx, r, t, c),
         NEW z, Unshown(r, z), z.local_port = r.local_port, z.target_port = r.target_port,
         z.target_ip = r.target_ip, z.syns = r.syns
  PROVE  PageOK(ps, q, tx, z, t, c)
<1>1. \A n : Took(r, t, c, n) => Took(z, t, c, n)
  BY DEF Took, TookPlain, TookSecure, Opened, Unshown
<1>2. StreamOK(ps, q, z, t, c)
  BY <1>1 DEF PageOK, StreamOK
<1>3. \A f : Aimed(f, r) => Aimed(f, z)
  BY DEF Aimed
<1>4. Facing(q, r) => Facing(q, z)
  BY DEF Facing, Taken, ForUs
<1>5. MatchOK(ps, q, tx, z, c)
  BY <1>3, <1>4 DEF PageOK, MatchOK, Faced
<1>6. DialOK(ps, tx, z, c)
  BY DEF PageOK, DialOK
<1>7. OffOK(z, c) /\ DoneOK(z, c)
  BY DEF PageOK, OffOK, DoneOK, Unshown
<1> QED BY <1>2, <1>5, <1>6, <1>7 DEF PageOK

(* A call that acknowledges what it took stays where it is. *)
LEMMA PageAcks ==
  ASSUME NEW ps, NEW q, NEW tx, NEW r, NEW t, NEW c, PageOK(ps, q, tx, r, t, c),
         ~Returning(c), ~Dialing(c),
         NEW d, d.kind = c.kind, d.first = c.first, Point(d) = Point(c), ~Returning(d),
         d.frame.type = "ack", d.pc # "idle"
  PROVE  PageOK(ps, q, tx, r, t, d)
<1>1. (Live(d) => Live(c)) /\ ~Dialing(d)
  BY DEF Live, Connection, Dialing, Stage
<1>2. \A n : Took(r, t, c, n) => Took(r, t, d, n)
  BY DEF Took
<1>3. StreamOK(ps, q, r, t, d)
  BY <1>1, <1>2 DEF PageOK, StreamOK
<1>4. MatchOK(ps, q, tx, r, d)
  BY <1>1 DEF PageOK, MatchOK, Aimed
<1>5. DialOK(ps, tx, r, d) /\ OffOK(r, d) /\ DoneOK(r, d)
  BY <1>1 DEF PageOK, DialOK, OffOK, DoneOK
<1> QED BY <1>3, <1>4, <1>5 DEF PageOK

(* Where a call may still receive, what the poll takes goes on with what it *)
(* took; *)
LEMMA PolledLive ==
  ASSUME IInv, PageOK(peers, Line, nic.tx, g, tls, call), Live(call),
         NEW s, s = Polled([g |-> g, t |-> tls], nic.rx)
  PROVE  /\ StreamOK(peers, wire, s.g, s.t, call) /\ MatchOK(peers, wire, nic.tx, s.g, call)
         /\ DialOK(peers, nic.tx, s.g, call)
<1> DEFINE x == nic.rx
           e == [g |-> g, t |-> tls]
           k == g.local_port
<1>1. /\ x \in Seq(InFrames) /\ wire \in Seq(InFrames) /\ \A i \in 1..Len(x) : FrameOK(peers, x[i])
  BY LineFacts
<1>2. Line = x \o wire
  BY DEF Line
<1>3. Handled(peers, e, s)
  BY UnderWay, RingPolled
<1>4. e.g = g /\ e.t = tls /\ e = [g |-> e.g, t |-> e.t] /\ StackOK(e) /\ Known(peers, e.g)
  BY UnderWay DEF StackOK
<1>5. s = Polled(e, x)
  OBVIOUS
<1> HIDE DEF x, e
<1>6. Kept(g, s.g)
  BY <1>3, <1>4 DEF Handled
<1>7. PICK n \in Nat, m \in Nat : Runs(Line, k, n, m) /\ m <= Given(peers, k) /\ Took(g, tls, call, n)
  BY DEF PageOK, StreamOK
<1>8. PICK b \in Nat : n <= b /\ b <= m /\ Runs(x, k, n, b) /\ Runs(wire, k, b, m)
  BY <1>1, <1>2, <1>7, RunsSplit
<1>9. b <= PageLen
  <2>1. Given(peers, k) \in Nat /\ Given(peers, k) <= PageLen
    BY GivenBound
  <2> QED BY <1>7, <1>8, <2>1, PageAssumption
<1>10. Facing(Line, g)
  BY DEF PageOK, MatchOK
<1>11. /\ Len(x) \in Nat /\ Len(wire) \in Nat /\ Len(x \o wire) = Len(x) + Len(wire)
       /\ \A i \in 1..Len(x) : (x \o wire)[i] = x[i]
       /\ \A i \in Len(x) + 1..Len(x) + Len(wire) : (x \o wire)[i] = wire[i - Len(x)]
  BY <1>1, JoinFacts
<1>12. Facing(x, g)
  <2> SUFFICES ASSUME NEW i \in 1..Len(x), x[i].type = "tcp", x[i].to = g.local_port, x[i].data # <<>>
               PROVE  Taken(g, x[i])
    BY DEF Facing
  <2>1. i \in 1..Len(Line) /\ Line[i] = x[i]
    BY <1>2, <1>11
  <2> QED BY <1>10, <2>1 DEF Facing
<1>13. Facing(wire, g)
  <2> SUFFICES ASSUME NEW i \in 1..Len(wire), wire[i].type = "tcp", wire[i].to = g.local_port,
                      wire[i].data # <<>>
               PROVE  Taken(g, wire[i])
    BY DEF Facing
  <2> DEFINE j == Len(x) + i
  <2>1. j \in Len(x) + 1..Len(x) + Len(wire) /\ j \in 1..Len(x) + Len(wire) /\ j - Len(x) = i
    BY <1>11
  <2>2. j \in 1..Len(Line) /\ Line[j] = wire[i]
    BY <1>2, <1>11, <2>1
  <2> HIDE DEF j
  <2> QED BY <1>10, <2>2 DEF Facing
<1>14. Goes(e, s, n, b)
  BY <1>1, <1>4, <1>5, <1>8, <1>9, <1>12, PolledTakes
<1>15. Took(s.g, s.t, call, b)
  <2>1. n # 0 => b # 0
    BY <1>7, <1>8
  <2> QED BY <1>4, <1>7, <1>14, <2>1 DEF Took, Goes
<1>16. s.g.local_port = k /\ s.g.target_port = g.target_port /\ s.g.target_ip = g.target_ip
  BY <1>6 DEF Kept
<1>17. StreamOK(peers, wire, s.g, s.t, call)
  BY <1>7, <1>8, <1>15, <1>16 DEF StreamOK
<1>18. Facing(wire, s.g)
  BY <1>13, <1>16 DEF Facing, Taken, ForUs
<1>19. MatchOK(peers, wire, nic.tx, s.g, call)
  <2>1. \A f : Aimed(f, g) => Aimed(f, s.g)
    BY <1>16 DEF Aimed
  <2> QED BY <1>16, <1>18, <2>1 DEF PageOK, MatchOK, Faced
<1>20. DialOK(peers, nic.tx, s.g, call)
  BY <1>16 DEF PageOK, DialOK
<1> QED BY <1>17, <1>19, <1>20

(* where it asks for an address there is nothing it could take that is not  *)
(* of an earlier call.                                                      *)
LEMMA PolledAsking ==
  ASSUME IInv, PageOK(peers, Line, nic.tx, g, tls, call), Point(call) \in Asking,
         ~Stale(g, nic.rx), NEW s, s = Polled([g |-> g, t |-> tls], nic.rx)
  PROVE  OffOK(s.g, call)
<1> DEFINE x == nic.rx
           e == [g |-> g, t |-> tls]
<1>1. /\ x \in Seq(InFrames) /\ \A i \in 1..Len(x) : FrameOK(peers, x[i])
  BY LineFacts
<1>2. Handled(peers, e, s)
  BY UnderWay, RingPolled
<1>3. e.g = g /\ e.t = tls /\ e = [g |-> e.g, t |-> e.t] /\ StackOK(e) /\ Known(peers, e.g)
  BY UnderWay DEF StackOK
<1>4. s = Polled(e, x) /\ ~Stale(g, x)
  OBVIOUS
<1> HIDE DEF x, e
<1>5. Kept(g, s.g)
  BY <1>2, <1>3 DEF Handled
<1>6. OffOK(g, call)
  BY DEF PageOK
<1>7. g.local_port \in Nat /\ g.syns \in Nat /\ call.first \in Nat /\ DOMAIN peers \subseteq 0..g.syns - 1
  BY UnderWay DEF Calls, IInv, PeersOK
<1>8. ASSUME NEW i \in 1..Len(x) PROVE ~Taken(g, x[i])
  <2> SUFFICES ASSUME Taken(g, x[i]) PROVE FALSE
    OBVIOUS
  <2>1. x[i].type = "tcp" /\ ForUs(g, x[i]) /\ x[i].data # <<>> /\ x[i].to = g.local_port
    BY DEF Taken, ForUs
  <2>2. x[i].to \in DOMAIN peers
    BY <1>1, <2>1 DEF FrameOK
  <2>3. g.local_port < g.syns
    BY <1>7, <2>1, <2>2
  <2>4. ~(call.first <= g.local_port)
    BY <1>6, <2>3 DEF OffOK
  <2>5. x[i].to < call.first
    BY <1>7, <2>1, <2>4
  <2>6. i \in DOMAIN x
    BY <1>1
  <2> QED BY <1>4, <2>1, <2>5, <2>6 DEF Stale
<1>9. Unshown(g, s.g)
  BY <1>1, <1>3, <1>4, <1>8, PolledQuiet
<1> QED BY <1>5, <1>6, <1>9 DEF OffOK, Unshown, Kept

(* The ring is emptied, and the call stays where it is. *)
LEMMA PagePolled ==
  ASSUME IInv, PageOK(peers, Line, nic.tx, g, tls, call), ~Stale(g, nic.rx),
         call.pc # "idle", Point(call) \in OffPoints \ {"idle"} => Point(call) \in Asking,
         NEW s, s = Polled([g |-> g, t |-> tls], nic.rx)
  PROVE  PageOK(peers, wire, nic.tx, s.g, s.t, call)
<1>1. /\ StreamOK(peers, wire, s.g, s.t, call) /\ MatchOK(peers, wire, nic.tx, s.g, call)
      /\ DialOK(peers, nic.tx, s.g, call)
  <2>1. CASE Live(call)
    BY <2>1, PolledLive
  <2>2. CASE ~Live(call)
    BY <2>2 DEF StreamOK, MatchOK, DialOK
  <2> QED BY <2>1, <2>2
<1>2. OffOK(s.g, call)
  <2>1. CASE Point(call) \in Asking
    BY <2>1, PolledAsking
  <2>2. CASE Point(call) \notin Asking
    BY <2>2 DEF OffOK
  <2> QED BY <2>1, <2>2
<1>3. DoneOK(s.g, call)
  BY DEF DoneOK
<1> QED BY <1>1, <1>2, <1>3 DEF PageOK

(* So the polls keep it. *)
LEMMA PagePoll ==
  ASSUME IInv, PInv, RetryPoll \/ Poll
  PROVE  PInv'
<1> DEFINE s == Polled([g |-> g, t |-> tls], nic.rx)
<1>1. /\ UNCHANGED <<wire, peers>> /\ nic' = [nic EXCEPT !.rx = <<>>] /\ tls' = s.t
      /\ harm \subseteq harm' /\ (Stale(g, nic.rx) => "stale" \in harm')
  BY DEF RetryPoll, Poll, Take, Emptied
<1>2. MildBefore /\ (Mild' => ~Stale(g, nic.rx))
  BY <1>1, MildGrows DEF Mild
<1>3. nic'.tx = nic.tx /\ nic'.rx = <<>> /\ wire \in Seq(InFrames)
  BY <1>1 DEF IInv, Types
<1>4. Line' = wire
  <2>1. Line' = <<>> \o wire
    BY <1>1, <1>3 DEF Line
  <2> QED BY <1>3, <2>1
<1>5. call \in Calls /\ g \in Nets /\ Kept(g, s.g) /\ s.g \in Nets
  BY UnderWay, RingPolled DEF Handled, StackOK, NetOK
<1>6. /\ call.pc # "idle"
      /\ Point(call) \in OffPoints \ {"idle"} => Point(call) \in Asking
  <2>1. CASE RetryPoll
    <3>1. call.pc = "send" /\ call.what \notin {"arp", "dns"}
      BY <2>1 DEF RetryPoll, At
    <3>2. call.what = "ack" => call.back \in Backs
      BY <3>1, UnderWay DEF CallOK, FlowOK, Busy, Backs
    <3>3. Point(call) \notin OffPoints \ {"idle"}
      <4>1. CASE call.what = "ack"
        BY <3>1, <3>2, <4>1, Points DEF OffPoints, Backs
      <4>2. CASE call.what # "ack"
        <5>1. Point(call) = call.what /\ call.what \in Whats
          BY <1>5, <3>1, <4>2, Points DEF Calls
        <5> QED BY <3>1, <5>1 DEF OffPoints, Whats
      <4> QED BY <4>1, <4>2
    <3> QED BY <3>1, <3>3
  <2>2. CASE Poll
    <3>1. call.pc \in Waits
      BY <2>2 DEF Poll, Polls
    <3>2. Point(call) = call.pc
      BY <3>1, Points DEF Waits
    <3> QED BY <3>1, <3>2 DEF Waits, OffPoints, Asking
  <2> QED BY <2>1, <2>2
<1>7. ASSUME Mild', PageOK(peers, Line, nic.tx, g, tls, call)
      PROVE  PageOK(peers, wire, nic.tx, s.g, s.t, call)
  BY <1>2, <1>6, <1>7, PagePolled
<1>8. CASE RetryPoll
  <2>1. g' = s.g /\ call' = call
    BY <1>8 DEF RetryPoll
  <2> HIDE DEF s
  <2>2. Busy(call') => call'.left >= 1
    BY <2>1 DEF PInv
  <2> QED BY <1>1, <1>2, <1>3, <1>4, <1>7, <2>1, <2>2, PageStep
<1>9. CASE Poll
  <2> DEFINE ended == EndAcked(s.g)
             c == IF ended THEN [call EXCEPT !.acked = TRUE] ELSE call
             r == [s.g EXCEPT !.payload_acked = @ \/ ended]
             d == Acknowledging(c, s.g, call.pc)
  <2>1. /\ g' = r /\ call.pc \in Waits
        /\ \/ call' = c
           \/ call' = d /\ call.pc \in {"flight_wait", "fin_wait", "app_wait", "http_wait"}
    BY <1>9 DEF Poll, Polls, At
  <2> HIDE DEF s, ended
  <2>2. /\ r.local_port = s.g.local_port /\ r.http_response = s.g.http_response
        /\ r.http_valid = s.g.http_valid /\ r.target_port = s.g.target_port
        /\ r.target_ip = s.g.target_ip /\ r.syns = s.g.syns
    BY <1>5 DEF Nets
  <2>3. c \in Calls /\ c.kind = call.kind /\ c.first = call.first /\ c.ok = call.ok /\ c.pc = call.pc
    <3> DEFINE marked == [call EXCEPT !.acked = TRUE]
    <3>1. call \in Calls
      BY <1>5
    <3>2. /\ marked \in Calls /\ marked.kind = call.kind /\ marked.first = call.first
           /\ marked.ok = call.ok /\ marked.pc = call.pc
      BY <3>1 DEF Calls
    <3>3. c = marked \/ c = call
      OBVIOUS
    <3> QED BY <3>1, <3>2, <3>3
  <2> HIDE DEF r, c
  <2>4. call.pc \notin {"send", "tx", "idle"}
    BY <2>1 DEF Waits
  <2>5. /\ Point(call) = call.pc /\ Point(c) = call.pc /\ ~Busy(c) /\ ~Busy(call)
        /\ ~Returning(c) /\ ~Returning(call)
    <3>1. Point(call) = call.pc /\ Point(c) = call.pc /\ ~Busy(c) /\ ~Busy(call)
      BY <2>3, <2>4, Points
    <3> QED BY <3>1 DEF Returning
  <2>6. ASSUME Mild', PageOK(peers, Line, nic.tx, g, tls, call)
        PROVE  PageOK(peers, wire, nic.tx, r, s.t, c)
    <3>1. PageOK(peers, wire, nic.tx, s.g, s.t, call)
      BY <1>7, <2>6
    <3>2. Unshown(s.g, r)
      BY <2>2 DEF Unshown
    <3> DEFINE z == s.g
               t == s.t
               tx == nic.tx
    <3> HIDE DEF z, t, tx
    <3>3. PageOK(peers, wire, tx, r, t, call)
      BY <2>2, <3>1, <3>2, PageGlobals DEF z, t, tx
    <3>4. PageOK(peers, wire, tx, r, t, c)
      BY <2>3, <2>4, <2>5, <3>3, PageSame
    <3> QED BY <3>4 DEF t, tx
  <2>7. CASE call' = c
    BY <1>1, <1>2, <1>3, <1>4, <2>1, <2>5, <2>6, <2>7, PageStep
  <2>8. CASE call' = d /\ call.pc \in {"flight_wait", "fin_wait", "app_wait", "http_wait"}
    <3>1. /\ d.frame.type = "ack" /\ d.left = TxTries /\ d.what = "ack" /\ d.kind = c.kind
          /\ d.first = c.first /\ d.pc = "send" /\ d.back = call.pc
      BY <2>3, AcknowledgingFrame
    <3> HIDE DEF d
    <3>2. Point(d) = call.pc /\ d.left >= 1 /\ ~Returning(d)
      BY <2>8, <3>1, TriesAtLeast, Points DEF Returning
    <3>3. ~Dialing(c)
      BY <2>5, <2>8 DEF Dialing
    <3>4. ASSUME PageOK(peers, wire, nic.tx, r, s.t, c)
          PROVE  PageOK(peers, wire, nic.tx, r, s.t, d)
      <4> DEFINE t == s.t
                 tx == nic.tx
      <4> HIDE DEF t, tx
      <4>1. PageOK(peers, wire, tx, r, t, c)
        BY <3>4 DEF t, tx
      <4>2. PageOK(peers, wire, tx, r, t, d)
        BY <2>5, <3>1, <3>2, <3>3, <4>1, PageAcks
      <4> QED BY <4>2 DEF t, tx
    <3> QED BY <1>1, <1>2, <1>3, <1>4, <2>1, <2>6, <2>8, <3>2, <3>4, PageStep
  <2> QED BY <2>1, <2>7, <2>8
<1> QED BY <1>8, <1>9

(* Nothing on its way is for a port that was not dialed yet. *)
LEMMA NoneFor ==
  ASSUME IInv
  PROVE  /\ g.syns \in Nat /\ g.syns \notin DOMAIN peers
         /\ \A i \in 1..Len(nic.rx) : ~(nic.rx[i].type = "tcp" /\ nic.rx[i].to = g.syns)
         /\ \A i \in 1..Len(wire) : ~(wire[i].type = "tcp" /\ wire[i].to = g.syns)
         /\ \A i \in 1..Len(nic.tx) : ~(nic.tx[i].type \in {"syn", "data"} /\ nic.tx[i].local = g.syns)
<1>1. g.syns \in Nat /\ DOMAIN peers \subseteq 0..g.syns - 1
  BY UnderWay DEF IInv, PeersOK
<1>2. g.syns \notin DOMAIN peers
  BY <1>1
<1>3. /\ \A i \in 1..Len(nic.rx) : FrameOK(peers, nic.rx[i])
      /\ \A i \in 1..Len(wire) : FrameOK(peers, wire[i])
      /\ \A i \in 1..Len(nic.tx) : SendOK(peers, g.syns, nic.tx[i])
  BY LineFacts
<1>4. ASSUME NEW f, f.type = "tcp", f.to = g.syns, FrameOK(peers, f) PROVE FALSE
  BY <1>2, <1>4 DEF FrameOK
<1>5. ASSUME NEW f, f.type \in {"syn", "data"}, f.local = g.syns, SendOK(peers, g.syns, f) PROVE FALSE
  <2> DEFINE x == f.local
             y == g.syns
  <2>1. x = y /\ y \in Nat
    BY <1>1, <1>5
  <2>2. x \in DOMAIN peers \/ x < y
    BY <1>5 DEF SendOK
  <2>3. x \notin DOMAIN peers
    BY <1>2, <1>5
  <2> HIDE DEF x, y
  <2> QED BY <2>1, <2>2, <2>3
<1> QED BY <1>1, <1>2, <1>3, <1>4, <1>5

(* A new connection begins with nothing of a page. *)
LEMMA PageConnect ==
  ASSUME IInv, SInv, PInv, Connect
  PROVE  PInv'
<1> DEFINE r == Connecting(g)
           t == IF call.kind = "https" THEN TranscriptReset(tls) ELSE tls
           e == [g |-> r, t |-> t]
           x == nic.rx
           s == Polled(e, x)
           q == [s.g EXCEPT !.syns = @ + 1]
           l == Tail(call.targets)
           b == [call EXCEPT !.targets = l, !.acked = FALSE, !.end = 0]
           f == SynFrame(r)
           d == Sending(b, "syn", f, TxTries)
           k == g.syns
<1>1. /\ g' = q /\ tls' = s.t /\ call' = d /\ call.targets # <<>> /\ call.pc = "connect"
      /\ UNCHANGED <<wire, peers, harm>> /\ nic' = [nic EXCEPT !.rx = <<>>]
  BY DEF Connect, Dials, At, world
<1>2. /\ call \in Calls /\ SessionOK(tls) /\ tls \in Sessions /\ tls.plain = <<>> /\ g \in Nets
      /\ call.targets \in Seq(Addresses)
  BY UnderWay DEF SessionOK, SInv, Calls
<1>3. /\ NetOK(r) /\ Known(peers, r) /\ r.target_port = PortOf(call) /\ r.local_port = k
  BY <1>1, ConnectingOK
<1>4. Unshown(g, r)
  <2> DEFINE h == Head(call.targets)
             p == Port
  <2>1. r = [g EXCEPT !.target_ip = h, !.target_port = p,
            !.local_port = g.syns, !.synack = FALSE, !.last_ack = 0, !.last_seq = 0]
    BY DEF Connecting
  <2> HIDE DEF h, p, r
  <2> QED BY <1>2, <2>1 DEF Nets, Unshown
<1>5. SessionOK(t)
  BY <1>2, ResetOK
<1>6. t.plain = <<>> /\ (call.kind = "https" => t.app_record = <<>>)
  BY <1>2 DEF TranscriptReset, Sessions
<1>7. f.type = "syn" /\ f.ip = r.target_ip /\ f.port = r.target_port
  BY DEF SynFrame
<1> HIDE DEF r, t, f
<1>8. e.g = r /\ e.t = t /\ e = [g |-> e.g, t |-> e.t] /\ StackOK(e) /\ Known(peers, e.g)
  BY <1>3, <1>5 DEF StackOK
<1>9. Handled(peers, e, s)
  BY <1>3, <1>5, RingPolled
<1>10. x \in Seq(InFrames) /\ \A i \in 1..Len(x) : FrameOK(peers, x[i])
  BY LineFacts
<1>11. \A i \in 1..Len(x) : ~Taken(r, x[i])
  BY <1>3, NoneFor DEF Taken, ForUs
<1> HIDE DEF e, x
<1>12. Unshown(r, s.g) /\ s.t = t
  BY <1>8, <1>10, <1>11, PolledQuiet
<1>13. Kept(r, s.g) /\ s.g \in Nets
  BY <1>8, <1>9 DEF Handled, StackOK, NetOK
<1> HIDE DEF s
<1>14. /\ q.local_port = k /\ q.target_port = r.target_port /\ q.target_ip = r.target_ip
       /\ q.http_response = g.http_response /\ q.http_valid = g.http_valid
  BY <1>3, <1>4, <1>12, <1>13 DEF Nets, Kept, Unshown
<1> HIDE DEF q
<1>15. l \in Seq(Addresses)
  <2> DEFINE a == call.targets
  <2>1. a \in Seq(Addresses) /\ a # <<>>
    BY <1>1, <1>2
  <2> HIDE DEF a
  <2>2. Tail(a) \in Seq(Addresses)
    BY <2>1, TailType
  <2> QED BY <2>2 DEF a
<1> HIDE DEF l
<1>16. b \in Calls /\ b.kind = call.kind /\ b.first = call.first
  <2>1. 0 \in Int /\ FALSE \in BOOLEAN
    OBVIOUS
  <2>2. b = [call EXCEPT !.targets = l, !.acked = FALSE, !.end = 0]
    OBVIOUS
  <2> HIDE DEF b
  <2>3. b \in Calls
    BY <1>2, <1>15, <2>1, <2>2 DEF Calls
  <2>4. b.kind = call.kind /\ b.first = call.first
    BY <1>2, <2>2 DEF Calls
  <2> QED BY <2>3, <2>4
<1> HIDE DEF b
<1>17. d.frame = f /\ d.left >= 1 /\ d.what = "syn" /\ d.kind = call.kind /\ d.first = call.first
       /\ d.pc = "send"
  <2>1. d.frame = f /\ d.left = TxTries /\ d.what = "syn" /\ d.kind = b.kind /\ d.first = b.first
    BY <1>16, SendingFrame
  <2>2. d.pc = "send"
    BY <1>16 DEF Sending, Calls
  <2> QED BY <1>16, <2>1, <2>2, TriesAtLeast
<1> HIDE DEF d
<1>18. Point(d) = "syn" /\ Busy(d) /\ ~Returning(d)
  BY <1>17, Points DEF Returning
<1>19. Point(call) = "connect"
  BY <1>1, Points
<1>20. MildBefore
  BY <1>1, MildGrows
<1>21. nic'.tx = nic.tx /\ nic'.rx = <<>> /\ wire \in Seq(InFrames)
  BY <1>1 DEF IInv, Types
<1>22. Line' = wire
  <2>1. Line' = <<>> \o wire
    BY <1>1, <1>21 DEF Line
  <2> QED BY <1>21, <2>1
<1>23. /\ k \in Nat /\ k \notin DOMAIN peers
       /\ \A i \in 1..Len(wire) : ~(wire[i].type = "tcp" /\ wire[i].to = k)
       /\ \A i \in 1..Len(nic.tx) : ~(nic.tx[i].type \in {"syn", "data"} /\ nic.tx[i].local = k)
  BY NoneFor
<1>24. Given(peers, k) = 0
  BY <1>23 DEF Given
<1>25. Runs(wire, k, 0, 0)
  <2>1. \A i \in 1..Len(wire) : Carries(wire[i], k, 0, 0)
    BY <1>23 DEF Carries
  <2> HIDE DEF k
  <2> QED BY <1>21, <2>1, RunsStill
<1> HIDE DEF k
<1>26. ASSUME PageOK(peers, Line, nic.tx, g, tls, call)
       PROVE  PageOK(peers, wire, nic.tx, q, t, d)
  <2>1. ASSUME call.kind = "http"
        PROVE  TookPlain(q, 0)
    <3>1. g.http_response = <<>> /\ ~g.http_valid
      <4>1. OffOK(g, call)
        BY <1>26 DEF PageOK
      <4>2. "connect" \in OffPoints \ {"idle"}
        BY DEF OffPoints
      <4> QED BY <1>19, <2>1, <4>1, <4>2 DEF OffOK
    <3>2. q.target_port = HTTP
      BY <1>3, <1>14, <2>1 DEF PortOf
    <3> QED BY <1>14, <3>1, <3>2, FirstNone DEF TookPlain
  <2>2. ASSUME call.kind = "https"
        PROVE  TookSecure(q, t, 0)
    <3>1. q.target_port = TLS
      BY <1>3, <1>14, <2>2 DEF PortOf
    <3>2. Own(<<>>, q.local_port) /\ Once(<<>>) /\ ~Closes(<<>>)
      BY EmptyType DEF Own, Once, Closes
    <3> QED BY <1>6, <2>2, <3>1, <3>2 DEF TookSecure
  <2>3. Took(q, t, d, 0)
    BY <1>17, <1>18, <2>1, <2>2 DEF Took
  <2>4. StreamOK(peers, wire, q, t, d)
    BY <1>14, <1>24, <1>25, <2>3 DEF StreamOK
  <2>5. Aimed(f, q) /\ \A i \in 1..Len(nic.tx) : Aimed(nic.tx[i], q)
    BY <1>7, <1>14, <1>23 DEF Aimed
  <2>6. Facing(wire, q) /\ Faced(peers, q)
    BY <1>14, <1>23 DEF Facing, Faced
  <2>7. MatchOK(peers, wire, nic.tx, q, d)
    BY <1>17, <2>5, <2>6 DEF MatchOK
  <2>8. DialOK(peers, nic.tx, q, d)
    BY <1>7, <1>14, <1>17, <1>23, <1>24 DEF DialOK
  <2>9. OffOK(q, d) /\ DoneOK(q, d)
    BY <1>17, <1>18 DEF OffOK, DoneOK, OffPoints, Asking
  <2> QED BY <2>4, <2>7, <2>8, <2>9 DEF PageOK
<1> QED BY <1>1, <1>12, <1>17, <1>20, <1>21, <1>22, <1>26, PageStep

(* A call that begins has nothing to show. *)
LEMMA PageCaller ==
  ASSUME IInv, SInv, PInv, Caller
  PROVE  PInv'
<1>1. call \in Calls /\ g \in Nets /\ g.syns \in Nat
  BY UnderWay
<1>2. UNCHANGED <<nic, wire, peers>>
  BY DEF Caller, GetUrl, ConnectDns
<1>3. ASSUME NEW kind, NEW host, NEW c, c = Fresh(call, kind, host)
      PROVE  c.kind = kind /\ c.first = g.syns /\ DOMAIN c = DOMAIN NoCall
  <2> DEFINE m == call.number + 1
  <2>1. c = [NoCall EXCEPT !.kind = kind, !.host = host, !.first = g.syns, !.number = m]
    BY <1>3 DEF Fresh
  <2> HIDE DEF m
  <2> QED BY <2>1 DEF NoCall
<1>4. ASSUME NEW pc \in OffPoints \ {"idle"}, call'.pc = pc, pc \notin {"send", "tx"},
             call'.kind = "http" => g'.http_response = <<>> /\ ~g'.http_valid,
             pc \in Asking => call'.first = g'.syns /\ g'.syns \in Nat /\ g'.local_port \in Nat
      PROVE  PInv'
  <2>1. Point(call') = pc /\ ~Busy(call')
    BY <1>4, Points
  <2>2. ~Connection(call')
    BY <1>4, <2>1, OnAndOff
  <2>3. ~Live(call')
    BY <2>1, <2>2 DEF Live, Returning
  <2>4. OffOK(g', call')
    <3>1. pc \in Asking => ~(call'.first <= g'.local_port /\ g'.local_port < g'.syns)
      <4> DEFINE a == call'.first
                 u == g'.local_port
                 v == g'.syns
      <4>1. pc \in Asking => a = v /\ v \in Nat /\ u \in Nat
        BY <1>4
      <4> HIDE DEF a, u, v
      <4>2. pc \in Asking => ~(a <= u /\ u < v)
        BY <4>1
      <4> QED BY <4>2 DEF a, u, v
    <3> QED BY <1>4, <2>1, <3>1 DEF OffOK
  <2>5. DoneOK(g', call')
    BY <1>4 DEF DoneOK
  <2>6. PageOK(peers', Line', nic'.tx, g', tls', call')
    BY <2>3, <2>4, <2>5 DEF PageOK, StreamOK, MatchOK, DialOK
  <2> QED BY <2>1, <2>6 DEF PInv
<1>5. ASSUME NEW kind, NEW host, GetUrl(kind, host) PROVE PInv'
  <2> DEFINE c == Fresh(call, kind, host)
             d == [c EXCEPT !.pc = "query", !.dns_left = DnsTries]
             r == Forgotten(g)
  <2>1. g' = r /\ call' = d
    BY <1>5 DEF GetUrl
  <2>2. r.http_response = <<>> /\ ~r.http_valid /\ r.syns = g.syns /\ r.local_port = g.local_port
    BY <1>1 DEF Forgotten, Nets
  <2>3. c.kind = kind /\ c.first = g.syns /\ DOMAIN c = DOMAIN NoCall
    BY <1>3
  <2> HIDE DEF c, r
  <2>4. d.pc = "query" /\ d.first = g.syns
    BY <2>3 DEF NoCall
  <2> HIDE DEF d
  <2>5. g.local_port \in Nat /\ "query" \in OffPoints \ {"idle"}
    BY UnderWay DEF OffPoints
  <2> QED BY <1>1, <1>4, <2>1, <2>2, <2>4, <2>5
<1>6. CASE ConnectDns
  <2> DEFINE c == Fresh(call, "tcp", "none")
             d == [c EXCEPT !.pc = "connect", !.targets = <<NameServer>>]
  <2>1. call' = d
    BY <1>6 DEF ConnectDns
  <2>2. c.kind = "tcp" /\ DOMAIN c = DOMAIN NoCall
    BY <1>3
  <2> HIDE DEF c
  <2>3. d.pc = "connect" /\ d.kind = "tcp"
    BY <2>2 DEF NoCall
  <2> HIDE DEF d
  <2>4. "connect" \in OffPoints \ {"idle"} /\ "connect" \notin Asking
    BY DEF OffPoints, Asking
  <2> QED BY <1>4, <2>1, <2>3, <2>4
<1> QED BY <1>5, <1>6 DEF Caller

(* A call that returned something has its kind: Return leaves it. *)
Named == call.ok => call.kind # "none"

(* A call that goes on keeps its kind. *)
LEMMA KindStays ==
  ASSUME call \in Calls
  PROVE  /\ \A pc : Go(pc).kind = call.kind
         /\ \A ok \in BOOLEAN : Return(ok).kind = call.kind
         /\ \A c, what, frame, tries : c \in Calls =>
                Sending(c, what, frame, tries).kind = c.kind
         /\ \A c, r, back : c \in Calls => Acknowledging(c, r, back).kind = c.kind
<1>1. \A pc : Go(pc).kind = call.kind
  BY DEF Go, Calls
<1>2. \A ok \in BOOLEAN : Return(ok).kind = call.kind
  BY ReturnType
<1>3. ASSUME NEW c \in Calls, NEW what, NEW frame, NEW tries
      PROVE  /\ Sending(c, what, frame, tries).kind = c.kind
             /\ DOMAIN Sending(c, what, frame, tries) = DOMAIN c /\ "kind" \in DOMAIN c
  BY DEF Calls, Sending
<1>4. ASSUME NEW c \in Calls, NEW r, NEW back PROVE Acknowledging(c, r, back).kind = c.kind
  <2> DEFINE s == Sending(c, "ack", AckFrame(r), TxTries)
  <2>1. s.kind = c.kind /\ "kind" \in DOMAIN s
    BY <1>3
  <2> HIDE DEF s
  <2>2. [s EXCEPT !.back = back].kind = s.kind
    BY <2>1
  <2> QED BY <2>1, <2>2 DEF Acknowledging, s
<1> QED BY <1>1, <1>2, <1>3, <1>4

(* A call keeps its kind while its frame is handed over. *)
LEMMA KindSent ==
  ASSUME call \in Calls, Sender
  PROVE  call'.kind = call.kind
<1>1. CASE HandOver
  BY <1>1 DEF HandOver, Calls
<1>2. ASSUME call' = Retried PROVE call'.kind = call.kind
  <2>1. CASE call.left > 1
    <3>1. call' = [call EXCEPT !.pc = "send", !.left = @ - 1]
      BY <1>2, <2>1 DEF Retried
    <3> QED BY <3>1 DEF Calls
  <2>2. CASE ~(call.left > 1)
    <3>1. call' = AfterFailure
      BY <1>2, <2>2 DEF Retried
    <3>2. \/ \E pc \in {"query", "connect", "fail"} : AfterFailure = Go(pc)
          \/ AfterFailure = Return(TRUE)
          \/ call.what = "ack" /\ call.back # "idle" /\ AfterFailure = Go(call.back)
      BY Zenon DEF AfterFailure
    <3> QED BY <3>1, <3>2, KindStays
  <2> QED BY <2>1, <2>2
<1>3. CASE HandOverRefused \/ TxTimeout
  BY <1>2, <1>3 DEF HandOverRefused, TxTimeout
<1> QED BY <1>1, <1>3 DEF Sender

(* A call under way keeps its kind, so that no call of none returns. *)
LEMMA NamedStep ==
  ASSUME IInv, IInv', Named, [Next]_vars
  PROVE  Named'
<1>1. call \in Calls /\ (call.pc # "idle" => call.kind # "none")
  BY UnderWay
<1>2. call'.pc # "idle" => call'.kind # "none"
  BY DEF IInv, CallOK, FlowOK
<1>3. ASSUME call.pc # "idle", call'.kind = call.kind PROVE Named'
  BY <1>1, <1>3 DEF Named
<1>4. ASSUME call' = call PROVE Named'
  BY <1>4 DEF Named
<1>5. CASE Caller
  <2>1. call'.pc # "idle"
    <3>1. ASSUME NEW kind, NEW host
          PROVE  DOMAIN Fresh(call, kind, host) = DOMAIN NoCall
      BY DEF Fresh
    <3>2. ASSUME NEW kind, NEW host, GetUrl(kind, host) PROVE call'.pc # "idle"
      BY <3>2 DEF GetUrl, Fresh, NoCall
    <3>3. CASE ConnectDns
      BY <3>3 DEF ConnectDns, Fresh, NoCall
    <3> QED BY <1>5, <3>2, <3>3 DEF Caller
  <2> QED BY <1>2, <2>1 DEF Named
<1>6. CASE Sender
  <2>1. call.pc # "idle"
    BY <1>6 DEF Sender, HandOver, HandOverRefused, TxTimeout, At
  <2> QED BY <1>1, <1>3, <1>6, <2>1, KindSent
<1>7. CASE RetryPoll
  BY <1>4, <1>7 DEF RetryPoll
<1>8. CASE Poll
  <2> DEFINE s == Polled([g |-> g, t |-> tls], nic.rx)
             c == IF EndAcked(s.g) THEN [call EXCEPT !.acked = TRUE] ELSE call
  <2>1. c \in Calls /\ c.kind = call.kind
    BY <1>1 DEF Calls
  <2>2. \/ call' = Acknowledging(c, s.g, call.pc)
        \/ call' = c
    BY <1>8 DEF Poll
  <2>3. call.pc # "idle"
    BY <1>8 DEF Poll, Polls, Waits
  <2> HIDE DEF c, s
  <2> QED BY <1>1, <1>3, <2>1, <2>2, <2>3, KindStays
<1>9. CASE Connect
  <2> DEFINE c == [call EXCEPT !.targets = Tail(@), !.acked = FALSE, !.end = 0]
             f == SynFrame(Connecting(g))
  <2>1. call' = Sending(c, "syn", f, TxTries) /\ call.pc # "idle"
    BY <1>9 DEF Connect, Dials, At
  <2>2. "kind" \in DOMAIN c /\ c.kind = call.kind
    BY <1>1 DEF Calls
  <2> HIDE DEF c, f
  <2>3. Sending(c, "syn", f, TxTries).kind = c.kind
    BY <2>2 DEF Sending
  <2> QED BY <1>3, <2>1, <2>2, <2>3
<1>10. CASE Onward
  <2>1. call.pc # "idle"
    <3>1. \E pc \in Pcs \ {"idle"} : At(pc)
      BY <1>10 DEF Onward, Query, ArpSent, ArpDone, Ask, DnsSent, DnsDone, ConnectAsks,
                   NoTargetLeft, SynSent, Connected, NotConnected, FinalSent, RequestSent,
                   AckSent, HttpDone, HttpFailed, FlightDone, SendClientKeyExchange, CkeSent,
                   DeriveKeys, FinishedSent, SendHttpGet, AppSent, AppDone, Fail,
                   Sent, Leaves, Ready, GivesUp, Pcs, Waits
    <3> QED BY <3>1 DEF At
  <2> DEFINE SameKind(d) == d.kind = call.kind
             b == [call EXCEPT !.dns_left = @ - 1]
  <2>2. /\ \A pc : SameKind(Go(pc)) /\ \A ok \in BOOLEAN : SameKind(Return(ok))
        /\ \A what, frame, tries : SameKind(Sending(call, what, frame, tries))
        /\ \A r, back : SameKind(Acknowledging(call, r, back))
    BY <1>1, KindStays
  <2>3. CASE Query
    <3>1. \/ call' = [call EXCEPT !.pc = "connect", !.targets = Targets(g)]
          \/ call' = Go("fail")
          \/ call' = [b EXCEPT !.pc = "ask"]
          \/ call' = Sending(b, "arp", ArpFrame, 1)
      BY <2>3, Zenon DEF Query
    <3>2. "kind" \in DOMAIN b /\ SameKind(b)
      BY <1>1 DEF Calls
    <3>3. SameKind([call EXCEPT !.pc = "connect", !.targets = Targets(g)])
      BY <1>1 DEF Calls
    <3> HIDE DEF b
    <3>4. SameKind([b EXCEPT !.pc = "ask"]) /\ SameKind(Sending(b, "arp", ArpFrame, 1))
      BY <3>2 DEF Sending
    <3> QED BY <1>3, <2>1, <2>2, <3>1, <3>3, <3>4
  <2>4. CASE HttpDone
    <3> DEFINE r == Return(TRUE)
               a == Acknowledging(r, g, "idle")
    <3>1. r \in Calls /\ SameKind(r)
      BY <1>1, ReturnType
    <3>2. call' = a
      BY <2>4 DEF HttpDone
    <3> HIDE DEF r
    <3>3. SameKind(a)
      BY <1>1, <3>1, KindStays
    <3> QED BY <1>3, <2>1, <3>2, <3>3
  <2>5. CASE RequestSent \/ CkeSent \/ FinishedSent \/ AppSent
    <3>1. \E pc \in Pcs : call' = Counted(pc)
      BY <2>5 DEF RequestSent, CkeSent, FinishedSent, AppSent, Pcs, Waits
    <3>2. \A pc : SameKind(Counted(pc))
      BY <1>1 DEF Counted, Go, Calls
    <3> QED BY <1>3, <2>1, <3>1, <3>2
  <2>6. CASE \/ ArpSent \/ ArpDone \/ Ask \/ DnsSent \/ DnsDone \/ ConnectAsks \/ NoTargetLeft
             \/ SynSent \/ Connected \/ NotConnected \/ FinalSent \/ AckSent \/ HttpFailed
    <3>1. \/ \E pc : call' = Go(pc)
          \/ call' = Return(TRUE)
          \/ \E what, frame, tries : call' = Sending(call, what, frame, tries)
      BY <2>6, Zenon DEF ArpSent, ArpDone, Ask, DnsSent, DnsDone, ConnectAsks, NoTargetLeft,
                  SynSent, Connected, NotConnected, FinalSent, AckSent, HttpFailed
    <3> QED BY <1>3, <2>1, <2>2, <3>1
  <2>7. CASE FlightDone \/ SendClientKeyExchange \/ DeriveKeys \/ SendHttpGet \/ Fail \/ AppDone
    <3>1. \/ \E pc : call' = Go(pc)
          \/ \E ok \in BOOLEAN : call' = Return(ok)
          \/ \E r, back : call' = Acknowledging(call, r, back)
          \/ \E what, frame, tries : call' = Sending(call, what, frame, tries)
      BY <2>7, Zenon DEF FlightDone, SendClientKeyExchange, DeriveKeys, SendHttpGet, Fail, AppDone
    <3> QED BY <1>3, <2>1, <2>2, <3>1
  <2> QED BY <1>10, <2>3, <2>4, <2>5, <2>6, <2>7, Zenon DEF Onward
<1>11. CASE Network
  BY <1>4, <1>11 DEF Network, Transmit, Deliver, Overtake, Overflow, Lose, Again, Arrive, machine
<1>12. CASE UNCHANGED vars
  BY <1>4, <1>12 DEF vars
<1> QED BY <1>5, <1>6, <1>7, <1>8, <1>9, <1>10, <1>11, <1>12 DEF Next

(* Nothing is called before the first call. *)
LEMMA PageInitially == Init => PInv /\ Named
<1> SUFFICES ASSUME Init PROVE PInv /\ Named
  OBVIOUS
<1>1. call.pc = "idle" /\ call.kind = "none" /\ ~call.ok
  <2>1. call = NoCall
    BY DEF Init
  <2>2. ~NoCall.ok
    BY DEF NoCall
  <2> QED BY <2>1, <2>2, NoCallType
<1>2. ~Live(call) /\ ~Busy(call) /\ Point(call) = "idle"
  BY <1>1, Points DEF Live, Busy
<1>3. PageOK(peers, Line, nic.tx, g, tls, call)
  BY <1>1, <1>2 DEF PageOK, StreamOK, MatchOK, DialOK, OffOK, DoneOK, Asking
<1> QED BY <1>1, <1>2, <1>3 DEF PInv, Named

(* Every step keeps what a call without losses has taken of its page. *)
LEMMA PageInvStep == IInv /\ SInv /\ PInv /\ [Next]_vars => PInv'
<1> SUFFICES ASSUME IInv, SInv, PInv, [Next]_vars PROVE PInv'
  OBVIOUS
<1>1. CASE Next
  BY <1>1, PageCaller, PageSender, PagePoll, PageConnect, PageOnward, PageNetwork DEF Next
<1>2. CASE UNCHANGED vars
  <2>1. UNCHANGED <<peers, wire, nic, g, tls, call, harm>>
    BY <1>2 DEF vars
  <2>2. Line' = Line /\ (Mild' <=> Mild) /\ nic'.tx = nic.tx
    BY <2>1 DEF Line, Mild
  <2> QED BY <2>1, <2>2 DEF PInv
<1> QED BY <1>1, <1>2

(* The beginning of a page is one, and is not empty. *)
LEMMA FirstBegins ==
  ASSUME NEW k, NEW n \in 1..PageLen
  PROVE  First(k, n) # <<>> /\ IsPrefix(First(k, n), Page(k))
<1> DEFINE S == [u : {"status", "text"}, conn : {k}]
           s == First(k, n)
           p == Page(k)
<1>1. PageLen \in Nat /\ n \in Nat /\ n <= PageLen /\ n >= 1 /\ 0 \in Nat
  BY PageAssumption
<1>2. p \in Seq(S) /\ Len(p) = PageLen
  BY <1>1, PageParts
<1>3. s \in Seq(S) /\ Len(s) = Least(n, Capture_) /\ \A i \in 1..Least(n, Capture_) : s[i] = p[i]
  BY <1>1, FirstFacts
<1> HIDE DEF S, s, p
<1>4. Least(n, Capture_) \in Nat /\ Least(n, Capture_) <= n /\ Least(n, Capture_) >= 1
  BY <1>1, SizesAssumption, CaptureAssumption DEF Least
<1>5. s # <<>>
  BY <1>3, <1>4
<1>6. IsPrefix(s, p)
  BY <1>1, <1>2, <1>3, <1>4, PrefixOf
<1> QED BY <1>5, <1>6 DEF s, p

(***************************************************************************)
(* A call that returns a page after nothing was lost, doubled, overtaken   *)
(* or left from before returns the beginning of the page of the server it  *)
(* connected to, and no empty one: net_http_get_url as much as came before *)
(* it returned, net_https_get_url all that the capture holds.              *)
(***************************************************************************)
THEOREM PageAlwaysGenuine == Spec => []GenuinePage
<1>1. IInv /\ PInv /\ Named => GenuinePage
  <2> SUFFICES ASSUME IInv, PInv, Named, Finished, call.ok, call.kind # "tcp",
                      harm \subseteq {"late", "slow", "cut"}
               PROVE  g.http_response # <<>> /\ IsPrefix(g.http_response, Page(g.local_port))
    BY DEF GenuinePage
  <2>1. call.kind \in {"http", "https"}
    BY UnderWay DEF Calls, Named
  <2>2. DoneOK(g, call) /\ call.pc = "idle"
    BY DEF PInv, Mild, PageOK, Finished, At
  <2>3. \E n \in 1..PageLen : g.http_response = First(g.local_port, n)
    <3>1. CASE call.kind = "http"
      BY <2>2, <3>1 DEF DoneOK
    <3>2. CASE call.kind = "https"
      <4>1. g.http_response = Opening(g.local_port)
        BY <2>2, <3>2 DEF DoneOK
      <4>2. PageLen \in 1..PageLen
        BY PageAssumption
      <4> QED BY <4>1, <4>2 DEF Opening, First
    <3> QED BY <2>1, <3>1, <3>2
  <2> QED BY <2>3, FirstBegins
<1>2. Spec => [](IInv /\ SInv /\ PInv /\ Named)
  BY InvInitially, InvStep, SafeInitially, SafeStep, PageInitially, PageInvStep, NamedStep,
     PTL DEF Spec
<1> QED BY <1>1, <1>2, PTL
=============================================================================
