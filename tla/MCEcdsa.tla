------------------------------ MODULE MCEcdsa ------------------------------
(***************************************************************************)
(* Numbers of three limbs of two bits and the curve y^2 = x^3 - 3x + 47      *)
(* modulo 53, of prime order 41: as for P-256, the order is below the prime, *)
(* some abscissas are not below the order, and the sum of two coordinates   *)
(* may not fit the limbs.                                                   *)
(***************************************************************************)
EXTENDS EcdsaProperties

Strings == 0 .. Base ^ Limbs - 1
Keys == {Multiple[k] : k \in {1, 2, 20, 40}}
BadKeys == {Pt(1, 1), Pt(Prime + Gx, Gy), Pt(Gx, Prime + Gy)}

Signing(keys, rs, ss, zs) ==
  {[x |-> p.x, y |-> p.y, r |-> r, s |-> s, z |-> z] :
     p \in keys, r \in rs, s \in ss, z \in zs}
MCSignatures ==
  Signing(Keys, {Multiple[k].x % Order : k \in 1 .. 8}, {1, 7, 23, 36, 40}, {0, 5, 28, 41, 63})
  \cup Signing({G}, {0, 2, 40, 41, 42, 63}, Strings, {5})
  \cup Signing(BadKeys, {3}, {3}, {5})
MCAgreements ==
  {[x |-> p.x, y |-> p.y, d |-> d] : p \in Keys, d \in Strings}
  \cup {[x |-> p.x, y |-> p.y, d |-> 3] : p \in BadKeys}
MCOperands ==
  {[a |-> FromBe32(a), b |-> FromBe32(b)] :
     a \in Strings, b \in {0, 1, 3, 15, 16, 21, 40, 41, 42, 52, 53, 63}}
=============================================================================
