---------------------------- MODULE SenderWindow ----------------------------
(***************************************************************************)
(* The sliding window of one upload (struct _Window, sock_io.h): its       *)
(* congestion control and the part of peer_run's main loop that drives it. *)
(* One iteration of the loop is  "recv" (at most one datagram is handled), *)
(* "send" (window_sender) and "check" (finished?  timed out?).             *)
(*                                                                         *)
(* Abstractions.  A packet is its sequence number.  The float congwin_size *)
(* is its integer part (congwin) and 1 or 0 for what is left of it (frac). *)
(* ACKed_num is the counter of the packet LPA: LPA never moves back and no *)
(* packet above it has been counted, so no other counter is ever read.     *)
(* Elapsed time is left out: a timeout may fire whenever its other         *)
(* conditions hold.                                                        *)
(***************************************************************************)
EXTENDS Integers

CONSTANTS
  ChunkPackets,   \* data packets of a chunk (SENDER_BUF_SIZE - 2, i.e. 512)
  InitSsthresh,   \* INITIAL_CONGESTION_THRESHOLD
  MaxWin,         \* TCP_MAXWIN
  DupAckLimit     \* equal ACKs tolerated before a rollback (3)

ASSUME WindowAssumption ==
  /\ ChunkPackets \in Nat \ {0}
  /\ InitSsthresh \in Nat \ {0}
  /\ MaxWin \in Nat \ {0}
  /\ DupAckLimit \in Nat \ {0}

VARIABLES
  LPA,         \* last packet ACKed
  LPS,         \* last packet sent
  LPR,         \* the sequence number after the last packet ready to send
  count,       \* how many packets window_sender may send
  congwin,     \* integer part of congwin_size
  frac,        \* 1 when congwin_size is not a whole number, else 0
  ssthresh,    \* slow start threshold
  ACKed_num,   \* ACKs seen for packet LPA, saturating above DupAckLimit
  phase        \* where the main loop is with this upload

vars == <<LPA, LPS, LPR, count, congwin, frac, ssthresh, ACKed_num, phase>>

Phases == {"recv", "send", "check", "done", "aborted"}

MinOf(a, b) == IF a < b THEN a ELSE b
MaxOf(a, b) == IF a > b THEN a ELSE b

-----------------------------------------------------------------------------
(* init_upload runs in the "recv" part of an iteration: create_SW fills in *)
(* the window, send_onechunk packs the chunk.                              *)

\* What LPR is after send_onechunk: the whole chunk is packed or, when the
\* data file cannot be opened, nothing at all.
Packed == {1, ChunkPackets + 1}

InitialCount == 1

Init ==
  /\ LPA = 0 /\ LPS = 0
  /\ LPR \in Packed
  /\ count = InitialCount /\ congwin = 1 /\ frac = 0
  /\ ssthresh = InitSsthresh
  /\ ACKed_num = 0
  /\ phase = "send"

-----------------------------------------------------------------------------
(* upon_receive_ACK                                                        *)

\* `int count = congwin_size - (LPS - LPA)`: the conversion to int drops
\* the fraction, towards zero.
Room_NoFlight(win, part, lpa, lps) == win   \* mutant: packets in flight are not deducted
Room(win, part, lpa, lps) ==
  LET whole == win - (lps - lpa)
  IN  IF whole < 0 THEN whole + part ELSE whole

Saturated(n) == MinOf(n, DupAckLimit + 1)

\* Half of the window, but at least 2.
Halved == MaxOf(2, congwin \div 2)

\* Discard what is sent but not acknowledged, start again with window 1.
Collapse_StaleCount ==   \* mutant: count is left as it was
  /\ ssthresh' = Halved
  /\ congwin' = 1 /\ frac' = 0
  /\ LPS' = LPA
  /\ ACKed_num' = 1
  /\ UNCHANGED <<LPA, LPR, count>>
Collapse ==
  /\ ssthresh' = Halved
  /\ congwin' = 1 /\ frac' = 0
  /\ LPS' = LPA
  /\ ACKed_num' = 1
  /\ count' = Room(1, 0, LPA, LPA)
  /\ UNCHANGED <<LPA, LPR>>

\* An ACK below 1 is reported and ignored.
IllegalAck(a) ==
  /\ a < 1
  /\ UNCHANGED <<LPA, LPS, LPR, count, congwin, frac, ssthresh, ACKed_num>>

\* Where an ACK beyond the last packet sent leaves LPS.
JumpTarget_KeepsLPS(a) == LPS       \* mutant: LPA overtakes LPS
JumpTarget(a) == a

\* An ACK beyond the last packet sent moves the whole window behind it.
JumpAck(a) ==
  /\ a >= 1 /\ a > LPS
  /\ LPA' = a
  /\ LPS' = JumpTarget(a)
  /\ congwin' = congwin + 1
  /\ count' = Room(congwin', frac, a, LPS')
  /\ ACKed_num' = 1
  /\ UNCHANGED <<LPR, frac, ssthresh>>

\* congwin_size > ssthresh, the fraction included.
InAvoidance == congwin > ssthresh \/ (congwin = ssthresh /\ frac = 1)

\* congwin_size += k: slow start.
SlowStart(k) ==
  /\ ~InAvoidance
  /\ congwin' = congwin + k
  /\ frac' = frac

\* congwin_size += k / congwin_size, cut at TCP_MAXWIN: the fraction may or
\* may not carry into the integer part.
CongestionAvoidance(k) ==
  /\ InAvoidance
  /\ \E carry \in {0, 1}, part \in {0, 1} :
       /\ carry = 0 => part = 1
       /\ carry = 1 => frac = 1 \/ k >= congwin
       /\ IF congwin + carry > MaxWin \/ (congwin + carry = MaxWin /\ part = 1)
          THEN congwin' = MaxWin /\ frac' = 0
          ELSE congwin' = congwin + carry /\ frac' = part

\* An ACK for packets in flight opens the window.
NewAck(a) ==
  /\ a >= 1 /\ a > LPA /\ a <= LPS
  /\ LPA' = a
  /\ SlowStart(a - LPA) \/ CongestionAvoidance(a - LPA)
  /\ count' = Room(congwin', frac', a, LPS)
  /\ ACKed_num' = 1
  /\ UNCHANGED <<LPS, LPR, ssthresh>>

\* The same ACK again: one more than DupAckLimit of them is taken as a loss.
DupAck(a) ==
  /\ a >= 1 /\ a = LPA /\ a <= LPS
  /\ \/ /\ Saturated(ACKed_num + 1) > DupAckLimit
        /\ Collapse
     \/ /\ Saturated(ACKed_num + 1) <= DupAckLimit
        /\ ACKed_num' = Saturated(ACKed_num + 1)
        /\ count' = Room(congwin, frac, LPA, LPS)
        /\ UNCHANGED <<LPA, LPS, LPR, congwin, frac, ssthresh>>

AfterOldAck_MovesBack(a) == a   \* mutant: any ACK number becomes LPA
AfterOldAck(a) == LPA

\* An ACK below LPA changes nothing but a counter that is not read again.
OldAck(a) ==
  /\ a >= 1 /\ a < LPA /\ a <= LPS
  /\ LPA' = AfterOldAck(a)
  /\ UNCHANGED <<LPS, LPR, count, congwin, frac, ssthresh, ACKed_num>>

UponReceiveACK(a) ==
  /\ phase = "recv" /\ phase' = "send"
  /\ IllegalAck(a) \/ JumpAck(a) \/ NewAck(a) \/ DupAck(a) \/ OldAck(a)

\* The iteration handles no datagram, or one for another connection.
NoAck ==
  /\ phase = "recv" /\ phase' = "send"
  /\ UNCHANGED <<LPA, LPS, LPR, count, congwin, frac, ssthresh, ACKed_num>>

-----------------------------------------------------------------------------
(* The upload pass of peer_run                                             *)

\* What one call of window_sender sends: count packets, as far as there are.
Sendable_NoEnd == MaxOf(count, 0)   \* mutant: does not stop at the last packet
Sendable == MinOf(MaxOf(count, 0), LPR - 1 - LPS)

WindowSender ==
  /\ phase = "send" /\ phase' = "check"
  /\ LPS < LPR - 1 /\ count # 0
  /\ LPS' = LPS + Sendable
  /\ count' = 0
  /\ UNCHANGED <<LPA, LPR, congwin, frac, ssthresh, ACKed_num>>

NothingToSend ==
  /\ phase = "send" /\ phase' = "check"
  /\ LPS = LPR - 1 \/ count = 0
  /\ UNCHANGED <<LPA, LPS, LPR, count, congwin, frac, ssthresh, ACKed_num>>

AllAcked_AllSent == LPS = LPR - 1   \* mutant: sent is taken for acknowledged
AllAcked == LPA = LPR - 1

\* Everything ready to send is acknowledged: on to the uploaded list.
FinishUpload ==
  /\ phase = "check" /\ AllAcked
  /\ phase' = "done"
  /\ UNCHANGED <<LPA, LPS, LPR, count, congwin, frac, ssthresh, ACKed_num>>

\* check_datapack_timeout looks at the first packet not acknowledged, when it
\* is in flight and is not packet 1.
TimeoutApplies_AnyPacket == LPA + 1 <= LPS   \* mutant: packet 1 times out as well
TimeoutApplies == LPA + 1 <= LPS /\ LPA + 1 # 1

CheckDatapackTimeout ==
  /\ phase = "check" /\ ~AllAcked
  /\ TimeoutApplies
  /\ Collapse
  /\ phase' = "recv"

NoTimeout ==
  /\ phase = "check" /\ ~AllAcked
  /\ phase' = "recv"
  /\ UNCHANGED <<LPA, LPS, LPR, count, congwin, frac, ssthresh, ACKed_num>>

\* check_recvack_timeout: no ACK for 8 * TIMEOUT_SEC, abort_upload.
AbortUpload ==
  /\ phase = "check" /\ ~AllAcked
  /\ phase' = "aborted"
  /\ UNCHANGED <<LPA, LPS, LPR, count, congwin, frac, ssthresh, ACKed_num>>

\* The upload is over: no step of the loop reaches this window any more.
Closed == phase \in {"done", "aborted"} /\ UNCHANGED vars

UploadPass ==
  \/ WindowSender \/ NothingToSend
  \/ FinishUpload \/ CheckDatapackTimeout \/ NoTimeout \/ AbortUpload

Next ==
  \/ \E a \in 0..ChunkPackets : UponReceiveACK(a)
  \/ NoAck
  \/ UploadPass
  \/ Closed

Spec == Init /\ [][Next]_vars

-----------------------------------------------------------------------------
(* Properties                                                              *)

\* Every variable stays in its range: the sequence numbers inside the buffer.
TypeOK ==
  /\ LPA \in 0..ChunkPackets
  /\ LPS \in 0..ChunkPackets
  /\ LPR \in {1, ChunkPackets + 1}
  /\ count \in Int
  /\ congwin \in Nat \ {0}
  /\ frac \in {0, 1}
  /\ ssthresh \in Nat \ {0}
  /\ ACKed_num \in 0..DupAckLimit + 1
  /\ phase \in Phases

\* Acknowledged <= sent <= ready, whatever ACKs arrive: duplicated, stale, or
\* beyond the last packet sent ("jump window"), with rollbacks in between.
WindowOrder == LPA <= LPS /\ LPS <= LPR - 1

\* An upload never waits for nothing: when an iteration looks at its timers
\* the chunk is acknowledged or some packet is in flight.  Otherwise count is
\* 0, no ACK is on its way to raise it, check_datapack_timeout exempts the
\* empty flight, and only the 16 s abort would be left.
NoStall == phase = "check" => LPS > LPA \/ LPA = LPR - 1

\* Sending fills the congestion window and never overfills it: the assertion
\* commented out at the end of window_sender, in the form that holds.  (A flight
\* can exceed the window, when the cut at TCP_MAXWIN shrinks the window under
\* it and count gets negative; then nothing is sent.)
SendFillsWindow ==
  [][LPS' > LPS /\ LPA' = LPA =>
       /\ LPS' - LPA <= congwin
       /\ LPS' < LPR - 1 => LPS' - LPA = congwin]_vars

\* A rollback discards exactly the packets above LPA, it never loses ground
\* on what is acknowledged, and it never happens before the first ACK: it would
\* write to sender_buf[0], which is NULL.
RollbackKeepsAcked ==
  [][/\ LPA' >= LPA
     /\ LPS' < LPS => LPS' = LPA' /\ LPA >= 1 /\ ACKed_num' = 1]_vars
=============================================================================
