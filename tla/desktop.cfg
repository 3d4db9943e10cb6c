SPECIFICATION Spec
CONSTANTS
  HeapSize = 10
  Header = 1
  WindowSize = 2
  Apps = {terminal, about, editor, browser}
  Commanded = {editor, browser}
  Readers = {terminal, editor, browser}
  Terminal = terminal
  About = about
  KeyboardSize = 3
  Enter = enter
  Letter = letter
SYMMETRY Alike
INVARIANTS TypeOK WindowsSound ScreenFresh
PROPERTY ImplementsDeskView
