--------------------------- MODULE MCChunkTransfer ---------------------------
(* A short chunk, a receive window smaller than the congestion window can  *)
(* get (as 30 is smaller than 128), and a threshold that slow start passes. *)
EXTENDS ChunkTransfer
=============================================================================
