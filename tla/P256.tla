-------------------------------- MODULE P256 --------------------------------
(***************************************************************************)
(* The elliptic curve arithmetic of src/drivers/p256.c: numbers in limbs,   *)
(* the field, the scalars modulo the order of the base point, and points    *)
(* in affine and in Jacobian coordinates.  The code has 8 limbs of 32 bits  *)
(* and the constants of NIST P-256; here the limbs and the curve            *)
(* y^2 = x^3 - 3x + CurveB are parameters, so that a curve small enough to   *)
(* be searched takes the same path through every carry and branch.          *)
(***************************************************************************)
EXTENDS Integers, Sequences

CONSTANTS
  LimbBits, Limbs,                    \* the width and the number of the limbs
  Prime, Order, CurveB,               \* the field, the group and the curve
  Gx, Gy, TwiceX, TwiceY, ThriceX, ThriceY    \* its base point G, 2G and 3G

Base == 2 ^ LimbBits
Bits == LimbBits * Limbs

ASSUME CurveAssumption ==
  /\ {LimbBits, Limbs} \subseteq Nat \ {0}
  /\ {Prime, Order} \subseteq 5 .. Base ^ Limbs - 1
  /\ {CurveB, Gx, Gy, TwiceX, TwiceY, ThriceX, ThriceY} \subseteq 0 .. Prime - 1
  /\ (Gy * Gy - Gx * Gx * Gx + 3 * Gx - CurveB) % Prime = 0

(***************************************************************************)
(* A number is a sequence of limbs, the least significant first.  A string  *)
(* of 32 bytes stands for itself: the number it encodes, 0 .. 2^Bits - 1.   *)
(***************************************************************************)
Words == [1 .. Limbs -> 0 .. Base - 1]
FromBe32(n) == [i \in 1 .. Limbs |-> (n \div Base ^ (i - 1)) % Base]
Zero == FromBe32(0)
One == FromBe32(1)
PrimeWord == FromBe32(Prime)
OrderWord == FromBe32(Order)

ToBe32(w) ==
  LET value[i \in 0 .. Limbs] ==
        IF i = 0 THEN 0 ELSE value[i - 1] + w[i] * Base ^ (i - 1)
  IN value[Limbs]

Bit(n, i) == (n \div 2 ^ i) % 2

(***************************************************************************)
(* A loop over limbs keeps the low part of each column and carries the rest *)
(* into the next; a borrow is a carry of -1.                                *)
(***************************************************************************)
Carried(below, term) ==
  [word  |-> Append(below.word, (term + below.carry) % Base),
   carry |-> (term + below.carry) \div Base]

Ripple(column) ==
  LET upTo[k \in 0 .. Len(column)] ==
        IF k = 0 THEN [word |-> <<>>, carry |-> 0]
                 ELSE Carried(upTo[k - 1], column[k])
  IN upTo[Len(column)]

RawAdd(a, b) == Ripple([i \in 1 .. Limbs |-> a[i] + b[i]])
RawSub(a, b) == Ripple([i \in 1 .. Limbs |-> a[i] - b[i]])

\* The comparison from the most significant limb down.
Less(a, b) ==
  \E i \in 1 .. Limbs : a[i] < b[i] /\ \A j \in i + 1 .. Limbs : a[j] = b[j]

\* Mutant: the carry out of the highest limb is forgotten.
ReduceOnceNoCarry(sum) ==
  IF ~Less(sum.word, PrimeWord) THEN RawSub(sum.word, PrimeWord).word ELSE sum.word

ReduceOnce(sum) ==
  IF sum.carry # 0 \/ ~Less(sum.word, PrimeWord)
  THEN RawSub(sum.word, PrimeWord).word ELSE sum.word

\* Mutant: a negative difference is left as it wrapped.
AddBackNever(difference) == difference.word

AddBack(difference) ==
  IF difference.carry # 0 THEN RawAdd(difference.word, PrimeWord).word
                          ELSE difference.word

\* The operations on two numbers are functions, the tables of the field.
FeAdd == [a, b \in Words |-> ReduceOnce(RawAdd(a, b))]
FeSub == [a, b \in Words |-> AddBack(RawSub(a, b))]

\* The schoolbook product: one row per limb of a, carried to its end.
AddRow(above, i, factor, b) ==
  Ripple([k \in 1 .. 2 * Limbs |->
    above[k] + IF k - i \in 0 .. Limbs - 1 THEN factor * b[k - i + 1] ELSE 0]).word

Product(a, b) ==
  LET row[i \in 0 .. Limbs] ==
        IF i = 0 THEN [k \in 1 .. 2 * Limbs |-> 0]
        ELSE AddRow(row[i - 1], i, a[i], b)
  IN row[Limbs]

(***************************************************************************)
(* Reduction: the product's bits are shifted into a remainder of one limb   *)
(* more, from which the modulus is taken whenever it is not smaller.        *)
(***************************************************************************)
GetBit(w, i) == Bit(w[i \div LimbBits + 1], i % LimbBits)

RemShiftIn(rem, bit) ==
  Ripple([k \in 1 .. Limbs + 1 |-> 2 * rem[k] + IF k = 1 THEN bit ELSE 0]).word

RemBelow(rem, mod) == rem[Limbs + 1] = 0 /\ Less(rem, mod)

RemSubMod(rem, low) ==
  Append(low.word, (rem[Limbs + 1] + low.carry) % Base)

ReduceRem(rem, mod) ==
  IF RemBelow(rem, mod) THEN rem ELSE RemSubMod(rem, RawSub(rem, mod))

ReduceProduct(product, mod) ==
  LET rem[i \in 0 .. 2 * Bits] ==
        IF i = 0 THEN [k \in 1 .. Limbs + 1 |-> 0]
        ELSE ReduceRem(RemShiftIn(rem[i - 1], GetBit(product, 2 * Bits - i)), mod)
  IN SubSeq(rem[2 * Bits], 1, Limbs)

FeMul == [a, b \in Words |-> ReduceProduct(Product(a, b), PrimeWord)]
FeSquare == [a \in Words |-> FeMul[a, a]]

\* A loop over the bits of a 32-byte string from the highest one.
Ladder(start, Step(_, _), n) ==
  LET acc[i \in 0 .. Bits] ==
        IF i = 0 THEN start ELSE Step(acc[i - 1], Bit(n, Bits - i))
  IN acc[Bits]

\* Inverses are powers: the modulus less 2, by squaring.
MulIf(mul, squared, a, bit) == IF bit = 1 THEN mul[squared, a] ELSE squared
PowerStep(mul, acc, a, bit) == MulIf(mul, mul[acc, acc], a, bit)

FeInv == [a \in Words |->
  LET Step(acc, bit) == PowerStep(FeMul, acc, a, bit)
  IN Ladder(One, Step, Prime - 2)]

(***************************************************************************)
(* Scalars, modulo the order of the base point.                             *)
(***************************************************************************)
ScalarFromFe(w) ==
  LET reduced[v \in Words] ==
        IF Less(v, OrderWord) THEN v ELSE reduced[RawSub(v, OrderWord).word]
  IN reduced[w]
ScalarFromBe32(n) == ScalarFromFe(FromBe32(n))

\* Mutant: the order itself is let through as a scalar.
ScalarValidInclusive(n) == FromBe32(n) # Zero /\ ~Less(OrderWord, FromBe32(n))

ScalarValid(n) == FromBe32(n) # Zero /\ Less(FromBe32(n), OrderWord)

ScalarReduceOnce(sum) ==
  SubSeq(ReduceRem(Append(sum.word, sum.carry), OrderWord), 1, Limbs)
ScalarAdd == [a, b \in Words |-> ScalarReduceOnce(RawAdd(a, b))]
ScalarMul == [a, b \in Words |-> ReduceProduct(Product(a, b), OrderWord)]
ScalarInv == [a \in Words |->
  LET Step(acc, bit) == PowerStep(ScalarMul, acc, a, bit)
  IN Ladder(One, Step, Order - 2)]

(***************************************************************************)
(* Points in affine coordinates.  The coordinates of the point at infinity  *)
(* mean nothing: some operations leave a finite point's behind.             *)
(***************************************************************************)
Point(x, y) == [x |-> x, y |-> y, infinity |-> FALSE]
Infinity == [x |-> Zero, y |-> Zero, infinity |-> TRUE]
BasePoint == Point(FromBe32(Gx), FromBe32(Gy))

OnCurve(p) ==
  \/ p.infinity
  \/ LET cube == FeMul[FeSquare[p.x], p.x]
         less == FeSub[FeSub[FeSub[cube, p.x], p.x], p.x]
     IN FeSquare[p.y] = FeAdd[less, FromBe32(CurveB)]

FeValid(n) == Less(FromBe32(n), PrimeWord)

\* A point read from the wire: Infinity stands for the refusal too.
PointFromBe32(x, y) ==
  LET p == Point(FromBe32(x), FromBe32(y))
  IN IF FeValid(x) /\ FeValid(y) /\ OnCurve(p) THEN p ELSE Infinity

FeTwice == [a \in Words |-> FeAdd[a, a]]
FeThrice == [a \in Words |-> FeAdd[FeAdd[a, a], a]]
FeFour == [a \in Words |-> FeTwice[FeTwice[a]]]
FeEight == [a \in Words |-> FeTwice[FeFour[a]]]

\* The point at x3 whose reflection is on the line of slope lambda through p.
Chord(p, x3, lambda) == Point(x3, FeSub[FeMul[lambda, FeSub[p.x, x3]], p.y])

PointDouble(p) ==
  IF p.infinity \/ p.y = Zero THEN [p EXCEPT !.infinity = TRUE]
  ELSE LET slope == FeMul[FeSub[FeThrice[FeSquare[p.x]], FromBe32(3)],
                          FeInv[FeAdd[p.y, p.y]]]
       IN Chord(p, FeSub[FeSquare[slope], FeAdd[p.x, p.x]], slope)

PointAdd(a, b) ==
  CASE a.infinity -> b
    [] ~a.infinity /\ b.infinity -> a
    [] ~a.infinity /\ ~b.infinity /\ a.x = b.x ->
         IF a.y = b.y THEN PointDouble(a) ELSE [a EXCEPT !.infinity = TRUE]
    [] OTHER ->
         LET slope == FeMul[FeSub[b.y, a.y], FeInv[FeSub[b.x, a.x]]]
         IN Chord(a, FeSub[FeSub[FeSquare[slope], a.x], b.x], slope)

\* Double and add from the scalar's highest bit.
AddIf(doubled, p, bit) == IF bit = 1 THEN PointAdd(doubled, p) ELSE doubled
PointMul(p, n) ==
  LET Step(acc, bit) == AddIf(PointDouble(acc), p, bit)
  IN Ladder(Infinity, Step, n)

(***************************************************************************)
(* Jacobian coordinates: (x, y, z) stands for (x / z^2, y / z^3).            *)
(***************************************************************************)
Jacobian(x, y, z) == [x |-> x, y |-> y, z |-> z, infinity |-> FALSE]
JacobianInfinity == [x |-> Zero, y |-> Zero, z |-> Zero, infinity |-> TRUE]
JacobianFromPoint(p) ==
  IF p.infinity THEN JacobianInfinity ELSE Jacobian(p.x, p.y, One)

JacobianToPoint(p) ==
  IF p.infinity \/ p.z = Zero THEN Infinity
  ELSE LET zinv == FeInv[p.z]
           z2 == FeSquare[zinv]
       IN Point(FeMul[p.x, z2], FeMul[p.y, FeMul[z2, zinv]])

\* Mutant: the result, which shares its memory with p, gets its y too early.
JacobianDoubleAliased(p) ==
  IF p.infinity \/ p.y = Zero THEN JacobianInfinity
  ELSE LET delta == FeSquare[p.z]
           gamma == FeSquare[p.y]
           beta == FeMul[p.x, gamma]
           alpha == FeThrice[FeMul[FeSub[p.x, delta], FeAdd[p.x, delta]]]
           x3 == FeSub[FeSquare[alpha], FeEight[beta]]
           y3 == FeSub[FeMul[alpha, FeSub[FeFour[beta], x3]],
                       FeEight[FeSquare[gamma]]]
           z3 == FeSub[FeSub[FeSquare[FeAdd[y3, p.z]], gamma], delta]
       IN Jacobian(x3, y3, z3)

JacobianDouble(p) ==
  IF p.infinity \/ p.y = Zero THEN JacobianInfinity
  ELSE LET delta == FeSquare[p.z]
           gamma == FeSquare[p.y]
           beta == FeMul[p.x, gamma]
           alpha == FeThrice[FeMul[FeSub[p.x, delta], FeAdd[p.x, delta]]]
           x3 == FeSub[FeSquare[alpha], FeEight[beta]]
           y3 == FeSub[FeMul[alpha, FeSub[FeFour[beta], x3]],
                       FeEight[FeSquare[gamma]]]
           z3 == FeSub[FeSub[FeSquare[FeAdd[p.y, p.z]], gamma], delta]
       IN Jacobian(x3, y3, z3)

\* A Jacobian point plus a finite affine one with another x.
AddDistinct(a, z1z1, h, difference) ==
  LET r == FeTwice[difference]
      hh == FeSquare[h]
      i == FeFour[hh]
      j == FeMul[h, i]
      v == FeMul[a.x, i]
      x3 == FeSub[FeSub[FeSquare[r], j], FeTwice[v]]
      y3 == FeSub[FeMul[r, FeSub[v, x3]], FeTwice[FeMul[a.y, j]]]
      z3 == FeSub[FeSub[FeSquare[FeAdd[a.z, h]], z1z1], hh]
  IN Jacobian(x3, y3, z3)

JacobianAddMixed(a, b) ==
  IF a.infinity THEN JacobianFromPoint(b)
  ELSE IF b.infinity THEN a
  ELSE LET z1z1 == FeSquare[a.z]
           h == FeSub[FeMul[b.x, z1z1], a.x]
           r == FeSub[FeMul[FeMul[a.z, z1z1], b.y], a.y]
       IN IF h # Zero THEN AddDistinct(a, z1z1, h, r)
          ELSE IF r = Zero THEN JacobianDouble(a) ELSE JacobianInfinity

AddMixedIf(doubled, p, bit) ==
  IF bit = 1 THEN JacobianAddMixed(doubled, p) ELSE doubled
ProjectiveStep(acc, p, bit) == AddMixedIf(JacobianDouble(acc), p, bit)

PointMulProjective(p, n) ==
  LET Step(acc, bit) == ProjectiveStep(acc, p, bit)
  IN JacobianToPoint(Ladder(JacobianInfinity, Step, n))

(***************************************************************************)
(* The self-test behind the terminal's p256 command: each check that passes *)
(* sets a flag.  It knows 2G and 3G.                                        *)
(***************************************************************************)
Selftest ==
  LET twiceG == Point(FromBe32(TwiceX), FromBe32(TwiceY))
      thriceG == Point(FromBe32(ThriceX), FromBe32(ThriceY))
      two == FeAdd[One, One]
      three == FeAdd[two, One]
      minusOne == FeSub[Zero, One]
      nMinusOne == RawSub(OrderWord, One).word
      Is(p, known) == ~p.infinity /\ p.x = known.x /\ p.y = known.y
  IN [flag \in 0 .. 15 |->
       CASE flag = 0 -> FeAdd[PrimeWord, One] = One
         [] flag = 1 -> Less(minusOne, PrimeWord) /\ minusOne[1] = PrimeWord[1] - 1
         [] flag = 2 -> FeMul[three, three] = FromBe32(9)
         [] flag = 3 -> FeMul[PrimeWord, three] = Zero
         [] flag = 4 -> FeMul[FeInv[three], three] = One
         [] flag = 5 -> OnCurve(BasePoint)
         [] flag = 6 -> Is(PointDouble(BasePoint), twiceG)
         [] flag = 7 -> Is(PointAdd(PointDouble(BasePoint), BasePoint), thriceG)
         [] flag \in {8, 9} -> Is(PointMul(BasePoint, 3), thriceG)
         [] flag = 10 -> PointMul(BasePoint, 0).infinity
         [] flag = 11 -> ScalarFromBe32(Order) = Zero
         [] flag = 12 -> ScalarAdd[nMinusOne, two] = One
         [] flag = 13 -> ScalarMul[nMinusOne, two] = RawSub(nMinusOne, One).word
         [] flag = 14 -> ScalarMul[ScalarInv[three], three] = One
         [] flag = 15 -> Is(PointMulProjective(BasePoint, 3), thriceG)]
=============================================================================
