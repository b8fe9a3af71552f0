--------------------------- MODULE MCSenderWindow ---------------------------
(* A chunk of 24 packets, a window cut at four and a slow start threshold  *)
(* of two: one upload goes through slow start, congestion avoidance, the   *)
(* cut with a flight above it (a negative count), rollbacks and jumps.     *)
EXTENDS SenderWindow
=============================================================================
