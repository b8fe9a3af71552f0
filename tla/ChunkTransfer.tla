---------------------------- MODULE ChunkTransfer ----------------------------
(***************************************************************************)
(* One upload and the download it serves, each in the main loop of its own *)
(* peer, joined by UDP through the router (send_pack and spiffy_sendto on  *)
(* one side, process_inbound_udp and dealwithincomepack on the other).     *)
(* The network is the set of the packets sent so far: any of them may      *)
(* arrive at any time, again, in any order, or never.                      *)
(***************************************************************************)
EXTENDS Integers

CONSTANTS
  ChunkPackets, InitSsthresh, MaxWin, DupAckLimit,   \* as in SenderWindow
  RecvWin,                                           \* as in Receiver
  Chunk,                                             \* the chunk transferred
  None                                               \* an empty buffer slot

ASSUME TransferAssumption ==
  /\ ChunkPackets \in Nat \ {0}
  /\ InitSsthresh \in Nat \ {0}
  /\ MaxWin \in Nat \ {0}
  /\ DupAckLimit \in Nat \ {0}
  /\ RecvWin \in Nat
  /\ Chunk # None

VARIABLES
  LPA, LPS, LPR, count, congwin, frac, ssthresh, ACKed_num, sphase,  \* sender
  NPE, recv_buf, recv_bytesnum, acks, rphase,                       \* receiver
  dataNet,   \* sequence numbers of the DATA packets sent
  ackNet     \* numbers of the ACK packets sent

S == INSTANCE SenderWindow WITH phase <- sphase
R == INSTANCE Receiver WITH phase <- rphase, Wanted <- Chunk, Chunks <- {Chunk}

svars == <<LPA, LPS, LPR, count, congwin, frac, ssthresh, ACKed_num, sphase>>
rvars == <<NPE, recv_buf, recv_bytesnum, acks, rphase>>
vars  == <<LPA, LPS, LPR, count, congwin, frac, ssthresh, ACKed_num, sphase,
           NPE, recv_buf, recv_bytesnum, acks, rphase, dataNet, ackNet>>

Init ==
  /\ S!Init /\ R!Init
  /\ dataNet = {} /\ ackNet = {}

-----------------------------------------------------------------------------
\* The packets window_sender hands to send_pack.
SentData == (LPS + 1)..LPS'

\* The sender's loop: an ACK from the network, or a pass over the upload.
SenderAck ==
  /\ \E a \in ackNet : S!UponReceiveACK(a)
  /\ UNCHANGED <<rvars, dataNet, ackNet>>

SenderIdle ==
  /\ S!NoAck
  /\ UNCHANGED <<rvars, dataNet, ackNet>>

SenderSend ==
  /\ S!WindowSender
  /\ dataNet' = dataNet \cup SentData
  /\ UNCHANGED <<rvars, ackNet>>

SenderPass ==
  /\ \/ S!NothingToSend \/ S!FinishUpload \/ S!CheckDatapackTimeout
     \/ S!NoTimeout \/ S!AbortUpload
  /\ UNCHANGED <<rvars, dataNet, ackNet>>

\* The receiver's loop: a DATA packet from the network, answered at once, or
\* a pass over the download.  Once the download is over dealwithincomepack
\* finds no connection for the packet and ignores it.
ReceiverData ==
  /\ \E seq \in dataNet : R!UponReceivingDatapack(seq, Chunk)
  /\ ackNet' = ackNet \cup acks'
  /\ UNCHANGED <<svars, dataNet>>

ReceiverPass ==
  /\ R!NoData \/ R!DownloadPass
  /\ UNCHANGED <<svars, dataNet, ackNet>>

\* Both ends are through with the transfer.
BothClosed ==
  /\ sphase \in {"done", "aborted"}
  /\ rphase \in {"written", "discarded", "dropped"}
  /\ UNCHANGED vars

Next ==
  \/ SenderAck \/ SenderIdle \/ SenderSend \/ SenderPass
  \/ ReceiverData \/ ReceiverPass
  \/ BothClosed

Spec == Init /\ [][Next]_vars

-----------------------------------------------------------------------------
(* Properties                                                              *)

\* Both ends keep their types, and the network carries numbers of the chunk.
TypeOK ==
  /\ S!TypeOK /\ R!TypeOK
  /\ dataNet \subseteq 1..ChunkPackets
  /\ ackNet \subseteq 0..ChunkPackets

\* The sender never counts a packet as acknowledged that the receiver does not
\* have, with everything before it: not after a rollback, a jump, or an ACK
\* that overtook or repeats another.
AckSound == LPA < NPE

\* An upload of a readable chunk that ends on uploaded_list has been received
\* completely, whether or not the receiver has written it yet.
DoneMeansReceived ==
  sphase = "done" /\ LPR = ChunkPackets + 1 =>
    \A i \in 1..ChunkPackets : recv_buf[i] = Chunk

\* What the receiver has received and the sender knows of it follow the
\* abstract specification of a chunk's delivery.
Delivery == INSTANCE ChunkDelivery WITH got <- NPE - 1, confirmed <- LPA
Delivers == Delivery!Spec

=============================================================================
