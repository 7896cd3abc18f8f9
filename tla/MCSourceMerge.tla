--------------------------- MODULE MCSourceMerge ---------------------------
(***************************************************************************)
(* Three channels that differ in how many records, watermarks and barriers *)
(* they deliver, each possibly quiet for a while.                          *)
(***************************************************************************)
EXTENDS SourceMerge

R == [type |-> "record"]
B == [type |-> "barrier"]
W(t) == [type |-> "watermark", time |-> t]

MCScripts == { <<R>>, <<R, W(1), B, R, W(3), B>>, <<W(2), R, B, B>> }
MCIdleSpans == { << >>, <<[start |-> 1, length |-> 3]>> }
=============================================================================
