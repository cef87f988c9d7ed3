--------------------------- MODULE MCSeriesMatcher ---------------------------
(***************************************************************************)
(* SeriesMatcher for TLC: every list of up to two notes, undated, dated,   *)
(* dated to the time, or with a stamp that cannot be sorted.               *)
(***************************************************************************)
EXTENDS SeriesMatcher

MCStamps == {<<>>, <<1>>, <<2>>, <<1, 1>>, <<1, 2>>, <<Foreign>>}
=============================================================================
