-------------------------- MODULE MCKeyedProcessor --------------------------
(***************************************************************************)
(* Small instances of KeyedProcessor for model checking.                   *)
(***************************************************************************)
EXTENDS KeyedProcessor

MCEventTimes == {-1, 0, 2, 3}
MCWatermarks == 0..4
MCMinTime == -5
MCValues == {2, -1}
MCMinSum == -2

\* Window sizes and slides, and event times around the watermark, on which
\* the assigners are compared; once is enough, before the first record.
Geometries == (1..5) \X (1..5)
Times == IF stats["records_processed"] = 0 THEN 0..(watermark + 12) ELSE {}

(***************************************************************************)
(* The engine's assigners return exactly the grid windows that contain the *)
(* event time: no boundary window is lost or added, for sizes that are not *)
(* multiples of the slide, slides larger than the size (records that fall  *)
(* in no window at all), and times before the first full window            *)
(* (window/sliding.cpp, window/tumbling.cpp).                              *)
(***************************************************************************)
EngineExact ==
    \A g \in Geometries, t \in Times :
        AssignWindows(g[1], g[2], t) = WindowsContaining(g[1], g[2], t)

(***************************************************************************)
(* The oracle's own downward walk agrees with the engine's upward walk, so *)
(* a disagreement between engine and oracle results is never an artifact   *)
(* of window geometry (oracle/oracle.cpp).                                 *)
(***************************************************************************)
OracleAgrees ==
    \A g \in Geometries, t \in Times :
        OracleAssign(g[1], g[2], t) = AssignWindows(g[1], g[2], t)
=============================================================================
