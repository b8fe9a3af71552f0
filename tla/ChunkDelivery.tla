---------------------------- MODULE ChunkDelivery ----------------------------
(***************************************************************************)
(* What the transfer of one chunk promises, with windows, ACK packets and  *)
(* timers left out: the receiver has the first got packets of the chunk,   *)
(* the sender believes it of the first confirmed ones, and the belief is   *)
(* never ahead of the truth.  Neither number ever goes back.               *)
(***************************************************************************)
EXTENDS Integers

CONSTANT ChunkPackets

VARIABLES got, confirmed

Init == got = 0 /\ confirmed = 0

\* The receiver closes one gap or several at once.
Receive ==
  /\ got' \in (got + 1)..ChunkPackets
  /\ UNCHANGED confirmed

\* The sender learns of packets the receiver has.
Confirm ==
  /\ confirmed' \in (confirmed + 1)..got
  /\ UNCHANGED got

Next == Receive \/ Confirm

Spec == Init /\ [][Next]_<<got, confirmed>>
=============================================================================
