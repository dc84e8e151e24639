--------------------------- MODULE MCHistoryIndex ---------------------------
(***************************************************************************)
(* Small instances of HistoryIndex for TLC: two Nova processes share a     *)
(* workspace; the first writes.                                            *)
(***************************************************************************)
EXTENDS HistoryIndex

CONSTANTS p1, p2, s1, s2

WrittenByFirst == [s \in Session |-> p1]
=============================================================================
