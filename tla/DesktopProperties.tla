------------------------- MODULE DesktopProperties -------------------------
(***************************************************************************)
(* What Desktop.tla is to satisfy.                                          *)
(***************************************************************************)
EXTENDS Desktop

\* The ring's indices stay inside its buffer and every pointer to a window is
\* null or an address of the heap (keyboard.c's two bytes, window.c's list).
TypeOK ==
  /\ win \in [Apps -> Pointers]
  /\ {wm.head, wm.focused, drag} \subseteq Pointers
  /\ wm.node \in [Addresses -> [next : Pointers, prev : Pointers,
                                focused : BOOLEAN, minimized : BOOLEAN]]
  /\ ring.buffer \in [0 .. KeyboardSize - 1 -> Keys \cup {NULL}]
  /\ {ring.head, ring.tail} \subseteq 0 .. KeyboardSize - 1
  /\ {button, prevButton} \subseteq BOOLEAN
  /\ loop \in {"process", "keyboard", "read", "handle"}
  /\ key \in Keys \cup {NULL}

\* The list read backwards from its last window is the list read forwards, it
\* holds each window once, and exactly the windows that are allocated.
ListSound ==
  LET there == FrontToBack(wm)
  IN /\ IsInjective(there)
     /\ there # <<>> => Walk(wm, Last(there), "prev") = Reverse(there)
     /\ Listed(wm) = Allocated(wm.heap)

\* No pointer outlives its window: what has the focus, what is dragged and what
\* the applications hold is in the list, no two of them hold one window, and
\* none is forgotten.
PointersSound ==
  /\ {wm.focused, drag} \subseteq Listed(wm) \cup {NULL}
  /\ \A a, b \in Apps : win[a] = win[b] => a = b \/ win[a] = NULL
  /\ {win[a] : a \in Apps} \ {NULL} = Listed(wm)

\* The window with the focused border is the one with the focus, and it is in front.
FocusSound ==
  /\ \A w \in Listed(wm) : wm.node[w].focused => w = wm.focused
  /\ wm.focused # NULL => wm.focused = wm.head

\* The blocks fill the heap from its first byte to its last, none lies in
\* another, and no two free ones lie side by side.
HeapSound ==
  LET blocks == DOMAIN wm.heap
  IN /\ 0 \in blocks
     /\ \A b \in blocks :
          /\ End(wm.heap, b) \in blocks \cup {HeapSize}
          /\ \A c \in blocks : c <= b \/ End(wm.heap, b) <= c
          /\ wm.heap[b].used \/ End(wm.heap, b) = HeapSize \/ wm.heap[End(wm.heap, b)].used

\* Opening, raising, minimizing and closing keep window.c's list, the pointers
\* into it from desktop.c, kernel.c and the applications, and allocator.c's heap
\* in agreement, though an address is given out again after a window is closed.
WindowsSound == ListSound /\ PointersSound /\ FocusSound /\ HeapSound

\* What was last painted is what there is: every handler that changes the order
\* of the windows or shows or hides one makes the main loop draw again
\* (desktop_process's result, kernel.c's calls of desktop_redraw).
ScreenFresh == screen = Shown(wm)

Typed == [i \in 1 .. (ring.head - ring.tail) % KeyboardSize |->
            ring.buffer[(ring.tail + i - 1) % KeyboardSize]]

View == INSTANCE DeskView WITH
  Window <- Addresses, Key <- Keys, Room <- KeyboardSize - 1, None <- NULL,
  order <- FrontToBack(wm), keys <- Typed,
  taken <- IF loop = "handle" THEN key ELSE NULL

\* The desktop is what its user is promised: the windows in the order they were
\* touched, the keys in the order they were typed, whatever interrupts come
\* between the steps of the loop.
ImplementsDeskView == View!Spec
=============================================================================
