----------------------------- MODULE RootWindow -----------------------------
(***************************************************************************)
(* What a root store promises: a sliding window over the last NRoots       *)
(* distinct roots.  A root that is not in the window may be added; it      *)
(* pushes out the oldest one when the window is full, and the roots that   *)
(* are accepted are those in the window.                                   *)
(***************************************************************************)
EXTENDS Integers, Sequences

CONSTANTS NRoots, RootValues

VARIABLES
    latest,    \* the window, oldest root first
    accepted   \* the roots a note may refer to

vars == <<latest, accepted>>

\* The elements of a window.
RootsOf(window) == {window[i] : i \in DOMAIN window}

Push(window, root) ==
    Append(IF Len(window) < NRoots THEN window ELSE Tail(window), root)

Init == latest = << >> /\ accepted = {}

Add(root) ==
    /\ root \notin accepted
    /\ latest' = Push(latest, root)
    /\ accepted' = RootsOf(Push(latest, root))

Next == \E r \in RootValues : Add(r)

Spec == Init /\ [][Next]_vars
=============================================================================
