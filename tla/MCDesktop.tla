----------------------------- MODULE MCDesktop -----------------------------
\* Four applications on a heap that holds three windows.  The two that the
\* terminal can open are alike.
EXTENDS DesktopProperties

Alike == Permutations(Commanded)
=============================================================================
