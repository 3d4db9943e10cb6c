------------------------------ MODULE MCFat32 ------------------------------
EXTENDS Fat32Properties, TLC

CONSTANTS n1, n2

MCNames   == {n1, n2}
MCBuffers == {<<>>, <<1>>, <<1, 1, 2>>}
MCFlags   == {{}, {"create", "truncate"}, {"append"}, {"create", "append", "excl"}}

(* Once the store is spoiled its properties promise nothing any more. *)
NotSpoiled == ~Spoiled

NameSymmetry == Permutations(MCNames)
=============================================================================
