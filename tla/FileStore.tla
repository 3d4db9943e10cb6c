----------------------------- MODULE FileStore -----------------------------
(***************************************************************************)
(* What a store of named files promises whoever may lose power or a disk   *)
(* write at any time: one directory, whole files, and changes that are     *)
(* either there or not.  Only three changes may be seen half done:         *)
(*                                                                         *)
(*   - an overwrite in place, whose new bytes appear within the old length *)
(*     before the length is set;                                           *)
(*   - a truncation or a deletion, during which the file has no content.   *)
(*                                                                         *)
(* Once the store is lost, by one of the latter two being left half done,  *)
(* or by a name that could not be looked up, nothing is promised.          *)
(***************************************************************************)
EXTENDS Integers, Sequences

CONSTANTS
    Names, Buffers,
    Absent,     \* in place of a content: there is no such file
    Torn        \* the content of a file whose clusters are being freed

VARIABLES
    files,      \* the content of each name
    lost

fvars == <<files, lost>>

(* b cut, or padded with zeros, to length n. *)
Resized(b, n) == [i \in 1..n |-> IF i <= Len(b) THEN b[i] ELSE 0]

FInit == files = [n \in Names |-> Absent] /\ lost = FALSE

(* The content a name may have one step after it had this one. *)
Successors(content) ==
    CASE content = Absent -> {<<>>}
      [] content = Torn   -> {<<>>, Absent}
      [] OTHER -> {Torn, <<>>, Absent}
                    \cup {content \o b : b \in Buffers}
                    \cup {Resized(b, Len(content)) : b \in Buffers}
                    \cup {b \in Buffers : content = Resized(b, Len(content))}

OthersKept(S) == \A m \in Names \ S : files'[m] = files[m]

Change(n) == files'[n] \in Successors(files[n]) /\ OthersKept({n})

Rename(n, m) == /\ files[m] = Absent
                /\ files'[m] = files[n] /\ files'[n] = Absent
                /\ OthersKept({n, m})

FNext ==
    \/ /\ ~lost /\ UNCHANGED lost
       /\ \E n \in Names : Change(n) \/ \E m \in Names : Rename(n, m)
    \/ lost'

FSpec == FInit /\ [][FNext]_fvars
=============================================================================
