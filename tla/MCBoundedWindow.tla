--------------------------- MODULE MCBoundedWindow ---------------------------
(***************************************************************************)
(* Small instances of BoundedWindow for TLC.                               *)
(***************************************************************************)
EXTENDS BoundedWindow, TLC

CONSTANTS r1, r2, w1, w2

TwoRuns == {r1, r2}
OneRun  == {r1}

TwoWindows == {w1, w2}
OneWindow  == {w1}

\* Two runs that replace different windows of the table.
SplitWindows == (r1 :> w1) @@ (r2 :> w2)
\* One run and its window.
SingleWindow == r1 :> w1
=============================================================================
