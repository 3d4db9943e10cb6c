------------------------------- MODULE Ecdsa -------------------------------
(***************************************************************************)
(* What the TLS client does with the curve of P256: it verifies ECDSA       *)
(* signatures (net_tls_verify_ecdsa_p256 of src/drivers/net.c) and agrees   *)
(* on a secret with the server (the ClientKeyExchange and the key           *)
(* derivation).  Both are two multiplications of a point by a scalar, one   *)
(* step per bit.  The terminal's p256 command, and the calls of the field   *)
(* and scalar operations by themselves, are jobs of one step.               *)
(***************************************************************************)
EXTENDS P256

CONSTANTS
  Signatures,   \* [x, y, r, s, z : byte strings]: key, signature and hash
  Agreements,   \* [x, y, d : byte strings]: the server's key, our scalar
  Operands      \* [a, b : numbers of Limbs limbs]

VARIABLES
  job,          \* [kind, with]: the call and its arguments
  todo,         \* the multiplications to do, each <<scalar, point>>
  bit,          \* the bits of the first of them already taken
  acc,          \* its accumulator, in Jacobian coordinates
  products,     \* the products finished, in affine coordinates
  answer        \* what the call returned, or Running

vars == <<job, todo, bit, acc, products, answer>>

Running == [done |-> FALSE, ok |-> FALSE, value |-> <<>>]
Refused == [done |-> TRUE, ok |-> FALSE, value |-> <<>>]
Accepted(value) == [done |-> TRUE, ok |-> TRUE, value |-> value]

Call(kind, arguments) == [kind : {kind}, with : arguments]
Jobs == Call("verify", Signatures) \cup Call("agree", Agreements)
        \cup Call("calculate", Operands) \cup Call("selftest", {<<>>})

Init ==
  /\ job \in Jobs
  /\ todo = <<>> /\ products = <<>>
  /\ bit = 0 /\ acc = JacobianInfinity
  /\ answer = Running

Fresh(kind) ==
  /\ job.kind = kind /\ ~answer.done
  /\ todo = <<>> /\ products = <<>>

Return(result) ==
  /\ answer' = result
  /\ UNCHANGED <<job, todo, bit, acc, products>>

Multiply(terms) ==
  /\ todo' = terms
  /\ UNCHANGED <<job, bit, acc, products, answer>>

-----------------------------------------------------------------------------
Key(with) == PointFromBe32(with.x, with.y)

SignatureRefused(with) ==
  \/ ~ScalarValid(with.r)
  \/ ~ScalarValid(with.s)
  \/ Key(with).infinity

VerifyBegin ==
  LET r == ScalarFromBe32(job.with.r)
      z == ScalarFromBe32(job.with.z)
      w == ScalarInv[ScalarFromBe32(job.with.s)]
  IN /\ Fresh("verify")
     /\ IF SignatureRefused(job.with) THEN Return(Refused)
        ELSE Multiply(<< <<ToBe32(ScalarMul[z, w]), BasePoint>>,
                         <<ToBe32(ScalarMul[r, w]), Key(job.with)>> >>)

AgreeBegin ==
  /\ Fresh("agree")
  /\ IF Key(job.with).infinity \/ ~ScalarValid(job.with.d) THEN Return(Refused)
     ELSE Multiply(<< <<job.with.d, BasePoint>>, <<job.with.d, Key(job.with)>> >>)

-----------------------------------------------------------------------------
NextBit ==
  LET scalar == Head(todo)[1]
      point == Head(todo)[2]
  IN /\ todo # <<>> /\ bit < Bits
     /\ acc' = ProjectiveStep(acc, point, Bit(scalar, Bits - 1 - bit))
     /\ bit' = bit + 1
     /\ UNCHANGED <<job, todo, products, answer>>

LastBit ==
  /\ todo # <<>> /\ bit = Bits
  /\ products' = Append(products, JacobianToPoint(acc))
  /\ todo' = Tail(todo)
  /\ bit' = 0 /\ acc' = JacobianInfinity
  /\ UNCHANGED <<job, answer>>

Multiplied(kind) ==
  /\ job.kind = kind /\ ~answer.done
  /\ todo = <<>> /\ products # <<>>

VerifyEnd ==
  LET sum == PointAdd(products[1], products[2])
      r == ScalarFromBe32(job.with.r)
  IN /\ Multiplied("verify")
     /\ Return(IF ~sum.infinity /\ ScalarFromFe(sum.x) = r
               THEN Accepted(<<>>) ELSE Refused)

\* Our own key goes out as read back and checked; the secret is the abscissa.
AgreeEnd ==
  LET own == products[1]
      sent == PointFromBe32(ToBe32(own.x), ToBe32(own.y))
      shared == products[2]
  IN /\ Multiplied("agree")
     /\ Return(IF own.infinity \/ sent.infinity \/ shared.infinity THEN Refused
               ELSE Accepted(<<sent, ToBe32(shared.x)>>))

-----------------------------------------------------------------------------
\* The scalar operations take scalars, the inverses what is not zero.
Calculate ==
  LET a == job.with.a
      b == job.with.b
      sa == ScalarFromFe(a)
      sb == ScalarFromFe(b)
  IN /\ Fresh("calculate")
     /\ Return(Accepted([
          add |-> FeAdd[a, b], sub |-> FeSub[a, b], mul |-> FeMul[a, b],
          inv |-> FeInv[a], scalar |-> sa,
          sadd |-> ScalarAdd[sa, sb], smul |-> ScalarMul[sa, sb],
          sinv |-> ScalarInv[sa]]))

P256Command ==
  /\ Fresh("selftest")
  /\ Return(Accepted(Selftest))

Next ==
  \/ VerifyBegin \/ AgreeBegin
  \/ NextBit \/ LastBit
  \/ VerifyEnd \/ AgreeEnd
  \/ Calculate \/ P256Command

Spec == Init /\ [][Next]_vars
=============================================================================
