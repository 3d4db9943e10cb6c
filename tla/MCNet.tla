------------------------------- MODULE MCNet -------------------------------
EXTENDS NetProperties

(* One host with two addresses. *)
MCAnswers(h)    == {<<"a", "b">>}
(* Payloads go out whole or in two segments, that of a page also in three. *)
MCCutChoices(n) ==
    {<<>>} \cup {<<c>> : c \in 1..(n - 1)}
    \cup {cuts \in {<<c, d>> : c, d \in 1..(n - 1)} : n = PageLen + 2 /\ cuts[1] < cuts[2]}
=============================================================================
