------------------------- MODULE SenderWindow_proofs -------------------------
(***************************************************************************)
(* Proofs about the sender window, for every chunk length, threshold and   *)
(* window limit.  IInv is the inductive invariant: the type invariant, the *)
(* order of the sequence numbers, and what count is worth when it is used. *)
(***************************************************************************)
EXTENDS SenderWindow, TLAPS

\* A positive count is exactly the room left in the congestion window.
CountIsRoom == count > 0 => count = congwin - (LPS - LPA)

\* With nothing in flight and something left to send, the window is open.
OpenWhenIdle ==
  phase \in {"recv", "send"} /\ LPS = LPA /\ LPS < LPR - 1 => count = congwin

\* The next datagram is awaited by an upload that has something to send.
BusyInRecv == phase = "recv" => LPA < LPR - 1

IInv ==
  /\ TypeOK /\ WindowOrder /\ NoStall
  /\ CountIsRoom /\ OpenWhenIdle /\ BusyInRecv

USE WindowAssumption DEF MinOf, MaxOf, Phases, InitialCount, Packed, AfterOldAck, AllAcked

-----------------------------------------------------------------------------
(* Room is the free part of the congestion window whenever it is positive, *)
(* and all of the window when nothing is in flight.                        *)
LEMMA RoomWhenPositive ==
  \A w \in Nat, p \in {0, 1}, lpa \in Int, lps \in Int :
    Room(w, p, lpa, lps) > 0 => Room(w, p, lpa, lps) = w - (lps - lpa)
  BY DEF Room

LEMMA RoomWhenIdle ==
  ASSUME NEW win \in Nat, NEW part \in {0, 1}, NEW lpa \in Int, NEW lps \in Int
  PROVE  /\ Room(win, part, lpa, lps) \in Int
         /\ lps = lpa => Room(win, part, lpa, lps) = win
  BY DEF Room

(* A rollback leaves a window that satisfies the invariant and is idle.    *)
LEMMA CollapseIdle ==
  ASSUME TypeOK, WindowOrder, Collapse, phase' \in Phases
  PROVE  /\ TypeOK' /\ WindowOrder' /\ CountIsRoom'
         /\ LPS' = LPA' /\ LPA' = LPA /\ count' = congwin' /\ LPR' = LPR
<1>1. count' = 1
  BY DEF Collapse, Room, TypeOK
<1>2. Halved \in Nat \ {0}
  <2>1. congwin \div 2 \in Int  BY DEF TypeOK
  <2> QED  BY <2>1 DEF Halved
<1>3. /\ LPA' = LPA /\ LPS' = LPA /\ LPR' = LPR /\ congwin' = 1
      /\ frac' \in {0, 1} /\ ssthresh' \in Nat \ {0} /\ ACKed_num' = 1
  BY <1>2 DEF Collapse
<1>4. TypeOK'
  BY <1>1, <1>3 DEF TypeOK
<1> QED  BY <1>1, <1>3, <1>4 DEF TypeOK, WindowOrder, CountIsRoom

LEMMA InitInv == Init => IInv
  BY DEF Init, IInv, TypeOK, WindowOrder, NoStall, CountIsRoom, OpenWhenIdle, BusyInRecv

LEMMA AckPreservesInv ==
  ASSUME IInv, NEW a \in 0..ChunkPackets, UponReceiveACK(a)
  PROVE  IInv'
<1> USE DEF IInv
<1>0. phase = "recv" /\ phase' = "send"  BY DEF UponReceiveACK
<1>1. CASE IllegalAck(a)
  BY <1>0, <1>1 DEF IllegalAck, TypeOK, WindowOrder, NoStall, CountIsRoom, OpenWhenIdle, BusyInRecv
<1>2. CASE OldAck(a)
  BY <1>0, <1>2 DEF OldAck, TypeOK, WindowOrder, NoStall, CountIsRoom, OpenWhenIdle, BusyInRecv
<1>3. CASE JumpAck(a)
  <2>1. /\ LPA' = a /\ LPS' = a /\ congwin' = congwin + 1
        /\ ACKed_num' = 1 /\ UNCHANGED <<LPR, frac, ssthresh>>
        /\ count' = Room(congwin + 1, frac, a, a)
    BY <1>3 DEF JumpAck, JumpTarget
  <2>2. count' = congwin + 1
    BY <2>1 DEF Room, TypeOK
  <2>3. LPR = ChunkPackets + 1
    BY <1>0 DEF TypeOK, BusyInRecv
  <2> QED
    BY <1>0, <2>1, <2>2, <2>3
    DEF TypeOK, WindowOrder, NoStall, CountIsRoom, OpenWhenIdle, BusyInRecv
<1>4. CASE NewAck(a)
  <2>1. congwin' \in Nat \ {0} /\ frac' \in {0, 1}
    BY <1>4 DEF NewAck, SlowStart, CongestionAvoidance, TypeOK
  <2>2. /\ a > LPA /\ a <= LPS /\ LPA' = a /\ ACKed_num' = 1
        /\ count' = Room(congwin', frac', a, LPS)
        /\ UNCHANGED <<LPS, LPR, ssthresh>>
    BY <1>4 DEF NewAck
  <2>3. /\ count' \in Int
        /\ count' > 0 => count' = congwin' - (LPS - a)
        /\ LPS = a => count' = congwin'
    <3>1. LPS \in Int /\ a \in Int /\ congwin' \in Nat /\ frac' \in {0, 1}
      BY <2>1 DEF TypeOK
    <3>2. count' = Room(congwin', frac', a, LPS)
      BY <2>2
    <3> HIDE DEF IInv
    <3>3. count' \in Int
      BY <3>1, <3>2, RoomWhenIdle
    <3>4. count' > 0 => count' = congwin' - (LPS - a)
      <4>1. Room(congwin', frac', a, LPS) > 0 =>
              Room(congwin', frac', a, LPS) = congwin' - (LPS - a)
        BY <3>1, RoomWhenPositive, Zenon
      <4> QED  BY <3>2, <4>1, Zenon
    <3>5. LPS = a => count' = congwin'
      BY <3>1, <3>2, RoomWhenIdle
    <3> QED  BY <3>3, <3>4, <3>5
  <2> QED
    BY <1>0, <2>1, <2>2, <2>3
    DEF TypeOK, WindowOrder, NoStall, CountIsRoom, OpenWhenIdle, BusyInRecv
<1>5. CASE DupAck(a)
  <2>1. CASE Collapse
    BY <1>0, <2>1, CollapseIdle DEF NoStall, OpenWhenIdle, BusyInRecv
  <2>2. CASE /\ Saturated(ACKed_num + 1) <= DupAckLimit
             /\ ACKed_num' = Saturated(ACKed_num + 1)
             /\ count' = Room(congwin, frac, LPA, LPS)
             /\ UNCHANGED <<LPA, LPS, LPR, congwin, frac, ssthresh>>
    <3>1. /\ count' \in Int
          /\ count' > 0 => count' = congwin - (LPS - LPA)
          /\ LPS = LPA => count' = congwin
      BY <2>2 DEF Room, TypeOK
    <3>2. ACKed_num' \in 0..DupAckLimit + 1
      BY <2>2 DEF Saturated, TypeOK
    <3> QED
      BY <1>0, <2>2, <3>1, <3>2
      DEF TypeOK, WindowOrder, NoStall, CountIsRoom, OpenWhenIdle, BusyInRecv
  <2> QED  BY <1>5, <2>1, <2>2 DEF DupAck
<1> QED  BY <1>1, <1>2, <1>3, <1>4, <1>5 DEF UponReceiveACK

LEMMA PassPreservesInv ==
  ASSUME IInv, UploadPass
  PROVE  IInv'
<1> USE DEF IInv
<1>1. CASE WindowSender
  <2>1. Sendable \in Nat /\ Sendable <= LPR - 1 - LPS /\ (count > 0 => Sendable > 0)
    BY <1>1 DEF WindowSender, Sendable, TypeOK, WindowOrder
  <2>2. LPS = LPA => count > 0
    BY <1>1 DEF WindowSender, OpenWhenIdle, TypeOK
  <2> QED
    BY <1>1, <2>1, <2>2
    DEF WindowSender, TypeOK, WindowOrder, NoStall, CountIsRoom, OpenWhenIdle, BusyInRecv
<1>2. CASE NothingToSend
  BY <1>2
  DEF NothingToSend, TypeOK, WindowOrder, NoStall, CountIsRoom, OpenWhenIdle, BusyInRecv
<1>3. CASE FinishUpload
  BY <1>3
  DEF FinishUpload, TypeOK, WindowOrder, NoStall, CountIsRoom, OpenWhenIdle, BusyInRecv
<1>4. CASE CheckDatapackTimeout
  BY <1>4, CollapseIdle
  DEF CheckDatapackTimeout, TypeOK, WindowOrder, NoStall, OpenWhenIdle, BusyInRecv
<1>5. CASE NoTimeout
  BY <1>5
  DEF NoTimeout, TypeOK, WindowOrder, NoStall, CountIsRoom, OpenWhenIdle, BusyInRecv
<1>6. CASE AbortUpload
  BY <1>6
  DEF AbortUpload, TypeOK, WindowOrder, NoStall, CountIsRoom, OpenWhenIdle, BusyInRecv
<1> QED  BY <1>1, <1>2, <1>3, <1>4, <1>5, <1>6 DEF UploadPass

LEMMA NextPreservesInv == IInv /\ [Next]_vars => IInv'
<1> SUFFICES ASSUME IInv, [Next]_vars PROVE IInv'
  OBVIOUS
<1>1. CASE \E a \in 0..ChunkPackets : UponReceiveACK(a)
  BY <1>1, AckPreservesInv
<1>2. CASE NoAck
  BY <1>2
  DEF NoAck, IInv, TypeOK, WindowOrder, NoStall, CountIsRoom, OpenWhenIdle, BusyInRecv
<1>3. CASE UploadPass
  BY <1>3, PassPreservesInv
<1>4. CASE Closed \/ UNCHANGED vars
  BY <1>4
  DEF Closed, vars, IInv, TypeOK, WindowOrder, NoStall, CountIsRoom, OpenWhenIdle, BusyInRecv
<1> QED  BY <1>1, <1>2, <1>3, <1>4 DEF Next

LEMMA InductiveInvariant == Spec => []IInv
<1> QED  BY InitInv, NextPreservesInv, PTL DEF Spec

-----------------------------------------------------------------------------
(* The window's variables keep their types: no ACK takes LPA or LPS out of *)
(* the buffer, and congwin_size and ssthresh stay positive.                *)
THEOREM TypeCorrect == Spec => []TypeOK
<1>1. IInv => TypeOK  BY DEF IInv
<1> QED  BY <1>1, InductiveInvariant, PTL

(* Acknowledged <= sent <= ready to send, through every jump and rollback. *)
THEOREM WindowOrdered == Spec => []WindowOrder
<1>1. IInv => WindowOrder  BY DEF IInv
<1> QED  BY <1>1, InductiveInvariant, PTL

(* An upload that looks at its timers has a packet in flight or is done:   *)
(* count never reaches 0 on an empty flight.                               *)
THEOREM NeverStalls == Spec => []NoStall
<1>1. IInv => NoStall  BY DEF IInv
<1> QED  BY <1>1, InductiveInvariant, PTL

(* window_sender fills the congestion window exactly, or runs into the end *)
(* of the chunk.                                                           *)
THEOREM SendsFillWindow == Spec => SendFillsWindow
<1> DEFINE A == LPS' > LPS /\ LPA' = LPA =>
                  /\ LPS' - LPA <= congwin
                  /\ LPS' < LPR - 1 => LPS' - LPA = congwin
<1>1. IInv /\ [Next]_vars => [A]_vars
  <2> SUFFICES ASSUME IInv, Next, LPS' > LPS, LPA' = LPA
               PROVE  /\ LPS' - LPA <= congwin
                      /\ LPS' < LPR - 1 => LPS' - LPA = congwin
    OBVIOUS
  <2> USE DEF IInv
  <2>1. WindowSender
    <3>1. ASSUME NEW a \in 0..ChunkPackets, UponReceiveACK(a) PROVE FALSE
      BY <3>1 DEF UponReceiveACK, IllegalAck, JumpAck, NewAck, DupAck, OldAck, Collapse,
                  JumpTarget, TypeOK, WindowOrder
    <3>2. CASE NoAck \/ Closed  BY <3>2 DEF NoAck, Closed, vars, TypeOK
    <3>3. CASE UploadPass
      BY <3>3 DEF UploadPass, NothingToSend, FinishUpload, CheckDatapackTimeout, NoTimeout,
                  AbortUpload, Collapse, TypeOK, WindowOrder
    <3> QED  BY <3>1, <3>2, <3>3 DEF Next
  <2> QED
    BY <2>1 DEF WindowSender, Sendable, TypeOK, WindowOrder, CountIsRoom
<1> QED  BY <1>1, InductiveInvariant, PTL DEF Spec, SendFillsWindow

(* Rollbacks keep what is acknowledged, discard the rest, and happen only  *)
(* when there is an acknowledged packet to restart the counter of.         *)
THEOREM RollbacksKeepAcked == Spec => RollbackKeepsAcked
<1> DEFINE A == /\ LPA' >= LPA
                /\ LPS' < LPS => LPS' = LPA' /\ LPA >= 1 /\ ACKed_num' = 1
<1>1. IInv /\ [Next]_vars => [A]_vars
  <2> SUFFICES ASSUME IInv, Next PROVE A
    OBVIOUS
  <2> USE DEF IInv, TypeOK, WindowOrder
  <2>1. ASSUME NEW a \in 0..ChunkPackets, UponReceiveACK(a) PROVE A
    BY <2>1 DEF UponReceiveACK, IllegalAck, JumpAck, JumpTarget, NewAck, DupAck, OldAck, Collapse
  <2>2. CASE NoAck \/ Closed  BY <2>2 DEF NoAck, Closed, vars
  <2>3. CASE WindowSender
    BY <2>3 DEF WindowSender, Sendable
  <2>4. CASE CheckDatapackTimeout
    BY <2>4 DEF CheckDatapackTimeout, TimeoutApplies, Collapse
  <2>5. CASE NothingToSend \/ FinishUpload \/ NoTimeout \/ AbortUpload
    BY <2>5 DEF NothingToSend, FinishUpload, NoTimeout, AbortUpload
  <2> QED  BY <2>1, <2>2, <2>3, <2>4, <2>5 DEF Next, UploadPass
<1> QED  BY <1>1, InductiveInvariant, PTL DEF Spec, RollbackKeepsAcked
=============================================================================
