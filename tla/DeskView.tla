------------------------------ MODULE DeskView ------------------------------
(***************************************************************************)
(* What the desktop promises its user: windows lie one on another, the one  *)
(* last touched in front, and opening, raising and closing one leaves the   *)
(* others in their order; keys are handled in the order they were typed,     *)
(* each once, and only those that find Room of them waiting are lost.        *)
(***************************************************************************)
EXTENDS Sequences, SequencesExt

CONSTANTS Window, Key, Room, None

VARIABLES
  order,    \* the windows, the front one first
  keys,     \* the keys typed and not yet taken
  taken     \* the key being handled, or None

Init == order \in [{1} -> Window] /\ keys = <<>> /\ taken = None

ToFront(i) == order' = <<order[i]>> \o RemoveAt(order, i)
Close(i) == order' = RemoveAt(order, i)
Add(w) ==
  /\ w \notin ToSet(order)
  /\ order' = <<w>> \o order
Rearrange ==
  \/ \E i \in DOMAIN order : ToFront(i) \/ Close(i)
  \/ \E w \in Window : Add(w)

Type(c) ==
  /\ keys' = IF Len(keys) < Room THEN Append(keys, c) ELSE keys
  /\ UNCHANGED <<order, taken>>
Take ==
  /\ taken = None /\ keys # <<>>
  /\ taken' = Head(keys) /\ keys' = Tail(keys)
  /\ UNCHANGED order
\* The key taken may be a command that changes the windows.
Handle ==
  /\ taken # None /\ taken' = None
  /\ Rearrange \/ UNCHANGED order
  /\ UNCHANGED keys
Click == Rearrange /\ UNCHANGED <<keys, taken>>

Next == Handle \/ Take \/ Click \/ \E c \in Key : Type(c)
Spec == Init /\ [][Next]_<<order, keys, taken>>
=============================================================================
