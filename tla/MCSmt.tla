------------------------------- MODULE MCSmt -------------------------------
(* Depth 3: all eight keys, two of them with room for a bucket of three,   *)
(* and lists of up to four transactions out of three ids.                  *)
EXTENDS Smt

MCEntries == ((0..7) \X {1}) \cup ({0, 5} \X {2, 3})
MCTxIds == 1..3
=============================================================================
