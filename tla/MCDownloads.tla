----------------------------- MODULE MCDownloads -----------------------------
(* Three chunks, three peers, two slots: chunks queued behind a busy peer  *)
(* move to another one, two peers send at once, GETs and downloads time    *)
(* out together, and a chunk may be needed twice.                          *)
EXTENDS Downloads, TLC

Symmetry == Permutations(Hashes) \cup Permutations(Peers)
=============================================================================
