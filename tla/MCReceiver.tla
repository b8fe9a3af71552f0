----------------------------- MODULE MCReceiver -----------------------------
(* Six packets and a window of two ahead of NPE: gaps, runs that close     *)
(* them, packets outside the window on both sides and at both ends of the  *)
(* buffer; payloads of the wanted chunk and of one other.                  *)
EXTENDS Receiver
=============================================================================
