------------------------------- MODULE MCBmcs -------------------------------
(***************************************************************************)
(* Bmcs on small instances.  This clock is 2; the neighbours are 1, a      *)
(* better clock, 3, an inferior one, and 4.                                *)
(***************************************************************************)
EXTENDS Bmcs

Ann(pr, gm, steps, src, path) ==
    [pr |-> pr, gm |-> gm, steps |-> steps, src |-> src, srcPort |-> 1,
     path |-> path]

\* Clock 1 directly and through 3, an inferior 3, and a message that has
\* already been here.
TwoPortAnnounces ==
    { Ann(1, 1, 0, 1, <<1>>),
      Ann(1, 1, 1, 3, <<1, 3>>),
      Ann(3, 3, 0, 3, <<3>>),
      Ann(1, 1, 2, 3, <<1, 2, 3>>) }

\* One neighbour whose offer changes: clock 1 through it, with a path that
\* leaves no room for thisClock, itself, no longer GM capable; and messages
\* that qualifyAnnounce rejects.
OnePortAnnounces ==
    { Ann(1, 1, 1, 3, <<1, 3>>),
      Ann(1, 1, 2, 3, <<1, 4, 3>>),
      Ann(1, 3, 0, 3, <<3>>),
      Ann(9, 3, 0, 3, <<3>>),
      Ann(1, 1, 255, 3, <<1, 3>>),
      Ann(1, 2, 0, 2, <<2>>) }
=============================================================================
