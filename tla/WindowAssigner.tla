--------------------------- MODULE WindowAssigner ---------------------------
(***************************************************************************)
(* Window assignment: which event-time windows a record falls into.        *)
(*                                                                         *)
(* The engine has two assigners (window/tumbling.cpp, window/sliding.cpp)  *)
(* and the test oracle (oracle/oracle.cpp) has an independent third one.   *)
(* Times are int64 millisecond counts; MaxTime stands for the largest one. *)
(* A window is the half-open interval [start, end).                        *)
(***************************************************************************)
EXTENDS Integers

\* A Window of the given length, as window/window.h represents it.
WindowAt(start, size) == [start |-> start, end |-> start + size]

(***************************************************************************)
(* The nonnegative domain outside of which both assigners throw.           *)
(***************************************************************************)
InTumblingDomain(size, t, maxTime) == 0 <= t /\ t <= maxTime - size

InSlidingDomain(size, slide, t, maxTime) ==
    /\ 0 <= t
    /\ t <= maxTime - (IF size >= slide THEN size ELSE slide)

(***************************************************************************)
(* TumblingAssigner::AssignWindows: one window, floor-division aligned.    *)
(***************************************************************************)
TumblingAssign(size, t) == {WindowAt((t \div size) * size, size)}

(***************************************************************************)
(* SlidingAssigner::AssignWindows: walk the slide grid upwards from the    *)
(* earliest start that can contain t, keeping the windows that do.         *)
(***************************************************************************)
EarliestStart(size, slide, t) ==
    LET numerator == t - size + slide
    IN  IF numerator <= 0 THEN 0 ELSE (numerator \div slide) * slide

\* Mutant: the loop condition is start < t, losing the window that starts at t.
SlidingAssignExclusive(size, slide, t) ==
    LET earliest == EarliestStart(size, slide, t)
    IN  {WindowAt(s, size) : s \in {x \in earliest..(t - 1) :
            (x - earliest) % slide = 0 /\ x + size > t}}

SlidingAssign(size, slide, t) ==
    LET earliest == EarliestStart(size, slide, t)
    IN  {WindowAt(s, size) : s \in {x \in earliest..t :
            (x - earliest) % slide = 0 /\ x + size > t}}

(***************************************************************************)
(* The assigner of a job: tumbling when the slide equals the size (or is   *)
(* not configured), sliding otherwise.                                     *)
(***************************************************************************)
AssignWindows(size, slide, t) ==
    IF slide = size THEN TumblingAssign(size, t) ELSE SlidingAssign(size, slide, t)

(***************************************************************************)
(* Oracle::AssignWindows: walk the slide grid downwards from the last      *)
(* start at or before t.  It takes any t; the division truncates.          *)
(***************************************************************************)
Quotient(t, d) == IF t >= 0 THEN t \div d ELSE -((-t) \div d)

\* Mutant: the walk stops at the window length below t instead of below the
\* last start.
OracleAssignShortWalk(size, slide, t) ==
    LET last == Quotient(t, slide) * slide
    IN  {WindowAt(s, size) : s \in {x \in 0..last :
            (last - x) % slide = 0 /\ x > t - size + 1 /\ t >= x /\ t < x + size}}

OracleAssign(size, slide, t) ==
    LET last == Quotient(t, slide) * slide
    IN  IF slide = size
        THEN {WindowAt(Quotient(t, size) * size, size)}
        ELSE {WindowAt(s, size) : s \in {x \in 0..last :
                /\ (last - x) % slide = 0
                /\ x > last - size
                /\ t >= x /\ t < x + size}}

(***************************************************************************)
(* What all three promise: the windows whose start is a nonnegative        *)
(* multiple of the slide and that contain t.                               *)
(***************************************************************************)
WindowsContaining(size, slide, t) ==
    {WindowAt(s, size) : s \in {x \in 0..t : x % slide = 0 /\ t < x + size}}
=============================================================================
