------------------------------ MODULE Windows ------------------------------
(***************************************************************************)
(* The window manager of src/drivers/window.c on the kernel heap of          *)
(* src/memory/allocator.c.  A window is the address of its structure: one    *)
(* that is closed and another that is opened may have the same address, and  *)
(* a pointer kept too long then points to the wrong window.                 *)
(*                                                                         *)
(* The operations are functions from a state of the manager,                *)
(*   [heap, node, head, focused], to the next one, so that a handler can     *)
(* apply several of them in turn.                                           *)
(***************************************************************************)
EXTENDS Integers, Sequences, SequencesExt

CONSTANTS HeapSize, Header, WindowSize

\* A window fits in the heap when it is empty: the boot code does not ask.
ASSUME HeapAssumption ==
  /\ {HeapSize, Header, WindowSize} \subseteq Nat \ {0}
  /\ Header + WindowSize <= HeapSize

NULL == 0
Addresses == 1 .. HeapSize
Pointers == Addresses \cup {NULL}

(***************************************************************************)
(* The heap: what the header at each place where a block begins says of it. *)
(* The list of the headers runs in the order of their places.               *)
(***************************************************************************)
Block(size, used) == [size |-> size, used |-> used]
HeapInit == [b \in {0} |-> Block(HeapSize - Header, FALSE)]

\* The address kmalloc returns for a block, and where the next block begins.
At(b) == b + Header
End(heap, b) == b + Header + heap[b].size

Fits(heap, size) == {b \in DOMAIN heap : ~heap[b].used /\ heap[b].size >= size}
BestFit(heap, size) ==
  CHOOSE b \in Fits(heap, size) :
    \A c \in Fits(heap, size) :
      \/ heap[b].size < heap[c].size
      \/ heap[b].size = heap[c].size /\ b <= c

\* The rest of a block becomes a block if it can hold more than a header.
Split(heap, b, size) ==
  LET rest == heap[b].size - size
      next == b + Header + size
  IN IF rest > Header
     THEN [c \in DOMAIN heap \cup {next} |->
             CASE c = b    -> Block(size, TRUE)
               [] c = next -> Block(rest - Header, FALSE)
               [] OTHER    -> heap[c]]
     ELSE [heap EXCEPT ![b].used = TRUE]

\* The blocks that the walk of kfree leaves: a free one takes in the free ones
\* that follow it.
Leading(heap) ==
  {b \in DOMAIN heap : heap[b].used \/ ~\E c \in DOMAIN heap : ~heap[c].used /\ End(heap, c) = b}
Joined(heap) ==
  [b \in Leading(heap) |->
     IF heap[b].used THEN heap[b]
     ELSE Block(Min({c \in Leading(heap) : c > b} \cup {HeapSize}) - At(b), FALSE)]

Kfree(heap, ptr) == Joined([heap EXCEPT ![ptr - Header].used = FALSE])

Allocated(heap) == {At(b) : b \in {c \in DOMAIN heap : heap[c].used}}

(***************************************************************************)
(* Windows: a doubly linked list, the front window first.                   *)
(***************************************************************************)
Blank == [next |-> NULL, prev |-> NULL, focused |-> FALSE, minimized |-> FALSE]

WmInit == [heap |-> HeapInit, node |-> [a \in Addresses |-> Blank],
           head |-> NULL, focused |-> NULL]

CanCreate(wm) == Fits(wm.heap, WindowSize) # {}
NewWindow(wm) == At(BestFit(wm.heap, WindowSize))
Create(wm) ==
  [wm EXCEPT !.heap = Split(@, BestFit(@, WindowSize), WindowSize),
             !.node[NewWindow(wm)] = Blank]

\* One assignment through a pointer that may be null.
Link(wm, at, field, to) ==
  IF at = NULL THEN wm ELSE [wm EXCEPT !.node[at][field] = to]

Unlink(wm, w) ==
  LET n == wm.node[w]
  IN Link(Link(wm, n.next, "prev", n.prev), n.prev, "next", n.next)

PutFirst(wm, w) ==
  [Link(wm, wm.head, "prev", w) EXCEPT !.node[w].next = wm.head,
                                       !.node[w].prev = NULL,
                                       !.head = w]

Raise(wm, w) ==
  IF w = NULL \/ wm.head = NULL \/ w = wm.head THEN wm
  ELSE PutFirst(Unlink(wm, w), w)

SetFocus(wm, w) ==
  LET blurred == IF wm.focused = NULL THEN wm
                 ELSE [wm EXCEPT !.node[wm.focused].focused = FALSE]
  IN IF w = NULL THEN blurred
     ELSE Raise([blurred EXCEPT !.focused = w, !.node[w].focused = TRUE], w)

Add(wm, w) == IF w = NULL THEN wm ELSE PutFirst(wm, w)

\* Mutant: the focus stays on the window that goes.
RemovedKeepingFocus(wm, w) ==
  IF w = NULL \/ wm.head = NULL THEN wm
  ELSE IF w = wm.head
       THEN Link([wm EXCEPT !.head = wm.node[w].next], wm.node[w].next, "prev", NULL)
       ELSE Unlink(wm, w)

\* The focus passes to the window that is first now, which is not told of it.
Removed(wm, w) ==
  LET taken == IF w = wm.head
               THEN Link([wm EXCEPT !.head = wm.node[w].next],
                         wm.node[w].next, "prev", NULL)
               ELSE Unlink(wm, w)
  IN IF w = NULL \/ wm.head = NULL THEN wm
     ELSE [taken EXCEPT !.focused = IF @ = w THEN taken.head ELSE @]

\* What freed memory holds is nobody's business.
Destroy(wm, w) ==
  IF w = NULL THEN wm
  ELSE [Removed(wm, w) EXCEPT !.heap = Kfree(@, w), !.node[w] = Blank]

ToggleMinimize(wm, w) ==
  IF w = NULL THEN wm ELSE [wm EXCEPT !.node[w].minimized = ~@]
Restore(wm, w) == IF wm.node[w].minimized THEN ToggleMinimize(wm, w) ELSE wm

\* A walk along the pointers of one field, cut where it would go in circles:
\* from every place, one window and what is walked from the next.
OneMore(wm, field, walk) ==
  [a \in Pointers |-> IF a = NULL THEN <<>> ELSE <<a>> \o walk[wm.node[a][field]]]
Walk(wm, from, field) ==
  LET walk[n \in 0 .. HeapSize] ==
        IF n = 0 THEN [a \in Pointers |-> <<>>] ELSE OneMore(wm, field, walk[n - 1])
  IN walk[HeapSize][from]
FrontToBack(wm) == Walk(wm, wm.head, "next")

\* The windows in the list, and those of them that are drawn.
Listed(wm) == ToSet(FrontToBack(wm))
Visible(wm) == {w \in Listed(wm) : ~wm.node[w].minimized}
Shown(wm) == SelectSeq(FrontToBack(wm), LAMBDA w : w \in Visible(wm))
=============================================================================
