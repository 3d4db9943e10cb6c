------------------------------ MODULE Desktop ------------------------------
(***************************************************************************)
(* The desktop: the main loop of src/kernel.c, the clicks of                *)
(* src/drivers/desktop.c, the keyboard ring and the mouse button that the    *)
(* interrupts write, and the applications' windows.  The geometry is         *)
(* abstracted to what is hit: a click falls on any window that is shown, or  *)
(* on none; how far a drag moves a window is left out.                      *)
(***************************************************************************)
EXTENDS Windows

CONSTANTS
  Apps,         \* the applications: one window each at most
  Commanded,    \* those that the terminal can open too
  Terminal, About,
  Readers,      \* those that take keys: terminal, editor, browser
  KeyboardSize, \* the slots of the keyboard's ring
  Enter, Letter \* the keys: one that runs a command, and any other

Keys == {Enter, Letter}

ASSUME DesktopAssumption ==
  /\ {Terminal, About} \subseteq Apps
  /\ Readers \subseteq Apps \ {About}
  /\ Terminal \in Readers
  /\ Commanded \subseteq Apps \ {Terminal, About}
  /\ KeyboardSize \in Nat \ {0, 1}
  /\ Enter # Letter /\ NULL \notin Keys

VARIABLES
  wm,           \* the window manager and the heap
  win,          \* each application's window: g_tw->win, g_about, g_editor.win ...
  drag,         \* drag_win
  button,       \* the left button as the mouse interrupt last stored it
  prevButton,   \* as desktop_process last read it
  ring,         \* [buffer, head, tail]: kb_buffer, kb_head, kb_tail
  loop,         \* where the main loop is
  key,          \* the key it has read
  screen        \* the windows the last redraw painted, the front one first

vars == <<wm, win, drag, button, prevButton, ring, loop, key, screen>>
windows == <<wm, win, drag>>
devices == <<button, ring>>

-----------------------------------------------------------------------------
(***************************************************************************)
(* Opening and closing.                                                     *)
(***************************************************************************)
\* A window that is there is restored and focused; a new one is added first.
Opened(m, w, a) ==
  IF w[a] # NULL THEN [wm |-> SetFocus(Restore(m, w[a]), w[a]), win |-> w]
  ELSE IF ~CanCreate(m) THEN [wm |-> m, win |-> w]
  ELSE LET new == NewWindow(m)
       IN [wm |-> SetFocus(Add(Create(m), new), new), win |-> [w EXCEPT ![a] = new]]

Open(a) ==
  /\ wm' = Opened(wm, win, a).wm
  /\ win' = Opened(wm, win, a).win

\* create_about(1): the window is added minimized and without the focus.
Boot ==
  LET m == Create(WmInit)
      about == NewWindow(WmInit)
  IN [wm |-> ToggleMinimize(Add(m, about), about),
      win |-> [a \in Apps |-> IF a = About THEN about ELSE NULL]]

Init ==
  /\ wm = Boot.wm /\ win = Boot.win
  /\ drag = NULL
  /\ button = FALSE /\ prevButton = FALSE
  /\ ring = [buffer |-> [i \in 0 .. KeyboardSize - 1 |-> NULL], head |-> 0, tail |-> 0]
  /\ loop = "process" /\ key = NULL
  /\ screen = Shown(Boot.wm)

-----------------------------------------------------------------------------
(***************************************************************************)
(* Interrupts.  They come between any two steps of the loop.                *)
(***************************************************************************)
MouseIrq ==
  /\ button' = ~button
  /\ UNCHANGED <<windows, prevButton, ring, loop, key, screen>>

Next1(i) == (i + 1) % KeyboardSize

\* Mutants: a key is stored although there is no room; the index runs on.
StoredAlways(r, c) ==
  [r EXCEPT !.buffer[r.head] = c, !.head = Next1(r.head)]
StoredPast(r, c) ==
  IF r.head + 1 = r.tail THEN r
  ELSE [r EXCEPT !.buffer = (r.head :> c) @@ @, !.head = r.head + 1]

Stored(r, c) ==
  IF Next1(r.head) = r.tail THEN r
  ELSE [r EXCEPT !.buffer[r.head] = c, !.head = Next1(r.head)]

KeyboardIrq(c) ==
  /\ ring' = Stored(ring, c)
  /\ UNCHANGED <<windows, button, prevButton, loop, key, screen>>

-----------------------------------------------------------------------------
(***************************************************************************)
(* desktop_process: the button is compared with the one of the last time,    *)
(* so what happens between two calls is not seen.                           *)
(***************************************************************************)
Processing ==
  /\ loop = "process"
  /\ loop' = "keyboard"
  /\ prevButton' = button
  /\ UNCHANGED <<devices, key>>

Pressed == button /\ ~prevButton
Released == ~button /\ prevButton

\* Mutant: the screen is drawn from what was there before.
RedrawEarly == screen' = Shown(wm)

\* Painted from the last window to the first.
Redraw == screen' = Shown(wm')

\* A drag that goes on moves its window and draws it again.
ProcessNoClick ==
  /\ Processing /\ ~Pressed
  /\ drag' = IF Released THEN NULL ELSE drag
  /\ UNCHANGED <<wm, win>>
  /\ IF button /\ drag # NULL THEN Redraw ELSE UNCHANGED screen

Clicked == Processing /\ Pressed

\* The taskbar has a button for every window, in the order of the list.
TaskbarClick ==
  /\ Clicked
  /\ \/ \E w \in Listed(wm) : wm' = SetFocus(Restore(wm, w), w)
     \/ UNCHANGED wm
  /\ UNCHANGED <<win, drag>>
  /\ Redraw

CloseClick(w) ==
  /\ Clicked
  /\ drag' = IF drag = w THEN NULL ELSE drag
  /\ win' = [a \in Apps |-> IF win[a] = w THEN NULL ELSE win[a]]
  /\ wm' = Destroy(SetFocus(wm, w), w)
  /\ Redraw

MinimizeClick(w) ==
  /\ Clicked
  /\ wm' = ToggleMinimize(SetFocus(wm, w), w)
  /\ UNCHANGED <<win, drag>>
  /\ Redraw

TitleClick(w) ==
  /\ Clicked
  /\ wm' = SetFocus(wm, w)
  /\ drag' = w
  /\ UNCHANGED win
  /\ Redraw

\* What the browser makes of a click is its own affair; it keeps the focus.
ContentClick(w) ==
  /\ Clicked
  /\ wm' = SetFocus(wm, w)
  /\ UNCHANGED <<win, drag>>
  /\ Redraw

WindowClick ==
  \E w \in Visible(wm) :
    CloseClick(w) \/ MinimizeClick(w) \/ TitleClick(w) \/ ContentClick(w)

IconClick ==
  /\ Clicked
  /\ \E a \in Apps : Open(a)
  /\ UNCHANGED drag
  /\ Redraw

WallpaperClick ==
  /\ Processing /\ Pressed
  /\ UNCHANGED <<windows, screen>>

-----------------------------------------------------------------------------
(***************************************************************************)
(* The keyboard: a key is read, the tail moves on, the front window gets it. *)
(***************************************************************************)
HasKey == ring.head # ring.tail

Keyboard ==
  /\ loop = "keyboard"
  /\ IF HasKey THEN loop' = "read" /\ key' = ring.buffer[ring.tail]
               ELSE loop' = "process" /\ key' = key
  /\ UNCHANGED <<windows, devices, prevButton, screen>>

ReadKey ==
  /\ loop = "read"
  /\ ring' = [ring EXCEPT !.tail = Next1(@)]
  /\ loop' = "handle"
  /\ UNCHANGED <<windows, button, prevButton, key, screen>>

InFront(a) == win[a] # NULL /\ wm.head = win[a] /\ ~wm.node[win[a]].minimized

\* The terminal's command may open an application; after any key the screen is
\* drawn again if a window took it.
HandleKey ==
  /\ loop = "handle"
  /\ loop' = "process" /\ key' = NULL
  /\ UNCHANGED <<drag, devices, prevButton>>
  /\ \/ /\ InFront(Terminal) /\ key = Enter
        /\ \E a \in Commanded : Open(a)
        /\ Redraw
     \/ /\ \E a \in Readers : InFront(a)
        /\ UNCHANGED <<wm, win>>
        /\ Redraw
     \/ /\ ~\E a \in Readers : InFront(a)
        /\ UNCHANGED <<wm, win, screen>>

-----------------------------------------------------------------------------
MainLoop ==
  \/ ProcessNoClick \/ TaskbarClick \/ WindowClick \/ IconClick \/ WallpaperClick
  \/ Keyboard \/ ReadKey \/ HandleKey

Next ==
  \/ MainLoop
  \/ MouseIrq
  \/ \E c \in Keys : KeyboardIrq(c)

Spec == Init /\ [][Next]_vars
=============================================================================
