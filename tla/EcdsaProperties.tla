-------------------------- MODULE EcdsaProperties --------------------------
(***************************************************************************)
(* What the curve arithmetic must compute, over the integers: the textbook  *)
(* group of the curve, the signatures its owner's key can make, and the     *)
(* secret both sides of an agreement find.                                  *)
(***************************************************************************)
EXTENDS Ecdsa, FiniteSets

Coordinates == 0 .. Prime - 1
Scalars == 0 .. Order - 1

InverseMod(a, m) == CHOOSE i \in 1 .. m - 1 : (a * i) % m = 1
InverseP == [a \in 1 .. Prime - 1 |-> InverseMod(a, Prime)]
Pt(x, y) == [x |-> x, y |-> y]
O == [x |-> -1, y |-> -1]
G == Pt(Gx, Gy)

\* The group law by chord and tangent.
Plus(p, q) ==
  LET slope == IF p = q THEN (3 * p.x * p.x - 3) * InverseP[(2 * p.y) % Prime]
               ELSE (q.y - p.y) * InverseP[(q.x - p.x) % Prime]
      x == ((slope % Prime) * (slope % Prime) - p.x - q.x) % Prime
  IN CASE p = O -> q
       [] p # O /\ q = O -> p
       [] p # O /\ q # O /\ p.x = q.x /\ (p.y + q.y) % Prime = 0 -> O
       [] OTHER -> Pt(x, ((slope % Prime) * (p.x - x) - p.y) % Prime)

\* The multiples of the base point: every point of the curve is one.
Multiple == [k \in Scalars |->
  LET m[i \in 0 .. k] == IF i = 0 THEN O ELSE Plus(m[i - 1], G) IN m[k]]
LogOf == [p \in {Multiple[k] : k \in Scalars} |->
            CHOOSE k \in Scalars : Multiple[k] = p]

\* What the code's points stand for.
Plain(p) == IF p.infinity THEN O ELSE Pt(ToBe32(p.x), ToBe32(p.y))
OfJacobian(j) ==
  IF j.infinity \/ j.z = Zero THEN O
  ELSE LET i == InverseP[ToBe32(j.z)]
           i2 == (i * i) % Prime
       IN Pt((ToBe32(j.x) * i2) % Prime, (ToBe32(j.y) * ((i * i2) % Prime)) % Prime)
Given(with) == Pt(with.x, with.y)

(***************************************************************************)
(* Invariants.                                                              *)
(***************************************************************************)
\* Every number has its limbs in range, and every coordinate of a point under
\* way is reduced: comparing and testing for zero need the one representative
\* (p256_fe_is_zero in the mixed addition, p256_fe_equal in the point addition).
Reduced(w) == w \in Words /\ ToBe32(w) < Prime
TypeOK ==
  /\ job \in Jobs /\ bit \in 0 .. Bits
  /\ \A c \in {"x", "y", "z"} : Reduced(acc[c])
  /\ acc.infinity \in BOOLEAN
  /\ \A i \in DOMAIN todo : todo[i][1] \in 0 .. Base ^ Limbs - 1
                            /\ Reduced(todo[i][2].x) /\ Reduced(todo[i][2].y)
  /\ \A i \in DOMAIN products : Reduced(products[i].x) /\ Reduced(products[i].y)
  /\ {"done", "ok"} \subseteq DOMAIN answer

\* The limb operations compute in the two prime fields: addition and
\* subtraction of reduced operands, the product and the inverse of any, the
\* scalars after their reduction; and the self-test sets all of its flags.
ArithmeticExact ==
  /\ (job.kind = "calculate" /\ answer.done) =>
       LET a == ToBe32(job.with.a)
           b == ToBe32(job.with.b)
           Is(w, n) == ToBe32(w) = n
           got == answer.value
       IN /\ (a < Prime /\ b < Prime) =>
               Is(got.add, (a + b) % Prime) /\ Is(got.sub, (a - b) % Prime)
          /\ Is(got.mul, (a * b) % Prime)
          /\ a % Prime # 0 => Is(got.inv, InverseP[a % Prime])
          /\ Is(got.scalar, a % Order)
          /\ Is(got.sadd, (a + b) % Order) /\ Is(got.smul, (a * b) % Order)
          /\ a % Order # 0 => Is(got.sinv, InverseMod(a % Order, Order))
  /\ (job.kind = "selftest" /\ answer.done) =>
       \A flag \in DOMAIN answer.value : answer.value[flag]

\* After every bit the accumulator is the multiple of the point by the bits
\* taken so far, whatever case of the doubling or of the mixed addition was
\* met on the way: infinity, equal points, opposite points.
LoopExact ==
  todo # <<>> =>
    LET prefix == Head(todo)[1] \div 2 ^ (Bits - bit)
        log == LogOf[Plain(Head(todo)[2])]
    IN OfJacobian(acc) = Multiple[(prefix * log) % Order]

\* A signature is accepted exactly when the owner of the key could have made
\* it: with some nonce k, r the abscissa of kG and s k = z + r d modulo the
\* order.  An agreement answers our key and the secret which the server, who
\* knows the logarithm of its own key, computes from ours; it is refused only
\* for a bad key or scalar.
SignedBy(d, with) ==
  /\ with.r \in 1 .. Order - 1 /\ with.s \in 1 .. Order - 1
  /\ \E k \in 1 .. Order - 1 :
       /\ Multiple[k].x % Order = with.r
       /\ (with.s * k - with.z - with.r * d) % Order = 0
VerdictExact ==
  LET known == Given(job.with) \in DOMAIN LogOf
      log == LogOf[Given(job.with)]
  IN /\ (job.kind = "verify" /\ answer.done) =>
          (answer.ok <=> known /\ SignedBy(log, job.with))
     /\ (job.kind = "agree" /\ answer.done) =>
          /\ answer.ok <=> known /\ job.with.d \in 1 .. Order - 1
          /\ answer.ok =>
               LET ours == LogOf[Plain(answer.value[1])]
               IN /\ ours = job.with.d
                  /\ answer.value[2] = Multiple[(log * ours) % Order].x
=============================================================================
