------------------------- MODULE ChunkTransfer_proofs -------------------------
(***************************************************************************)
(* The transfer of a chunk implements ChunkDelivery, for every chunk       *)
(* length, window and threshold, over a network that loses, repeats and    *)
(* reorders packets.  The invariant says why: every ACK ever sent is below *)
(* NPE, NPE never goes back, and LPA is only ever raised, to an ACK that   *)
(* was sent.                                                               *)
(***************************************************************************)
EXTENDS ChunkTransfer, TLAPS

\* The sender's numbers are integers, and nothing is acknowledged unsent.
SenderOrder ==
  /\ LPA \in 0..ChunkPackets
  /\ LPS \in Int /\ LPR \in Int /\ count \in Int /\ congwin \in Int /\ frac \in {0, 1}
  /\ LPA <= LPS

\* Every ACK in the network is about packets the receiver has.
AcksTrue == \A a \in ackNet : a \in Int /\ a < NPE

IInv ==
  /\ SenderOrder
  /\ NPE \in 1..(ChunkPackets + 1)
  /\ dataNet \subseteq Int
  /\ AckSound
  /\ AcksTrue

USE TransferAssumption

-----------------------------------------------------------------------------
LEMMA InitInv == Init => IInv
  BY DEF Init, S!Init, S!InitialCount, S!Packed, R!Init, IInv, SenderOrder, AckSound, AcksTrue

(* Room is an integer.                                                     *)
LEMMA RoomInt ==
  \A w \in Int, p \in {0, 1}, lpa \in Int, lps \in Int : S!Room(w, p, lpa, lps) \in Int
  BY DEF S!Room

(* A rollback leaves LPA alone and LPS on it.                              *)
LEMMA CollapseOrder ==
  ASSUME SenderOrder, S!Collapse
  PROVE  SenderOrder' /\ LPA' = LPA
<1>1. S!Room(1, 0, LPA, LPA) \in Int
  BY DEF S!Room, SenderOrder
<1> QED  BY <1>1 DEF SenderOrder, S!Collapse

(* Handling an ACK the receiver sent keeps the order of the sender's       *)
(* numbers, and leaves LPA or raises it to the number of the ACK.          *)
LEMMA AckRaisesLPA ==
  ASSUME SenderOrder, NEW a \in Int, a <= ChunkPackets, S!UponReceiveACK(a)
  PROVE  SenderOrder' /\ (LPA' = LPA \/ (LPA' = a /\ a > LPA))
<1>1. CASE S!IllegalAck(a)
  BY <1>1 DEF S!IllegalAck, SenderOrder
<1>2. CASE S!OldAck(a)
  BY <1>2 DEF S!OldAck, S!AfterOldAck, SenderOrder
<1>3. CASE S!JumpAck(a)
  <2>1. S!Room(congwin + 1, frac, a, a) \in Int
    BY DEF S!Room, SenderOrder
  <2> QED  BY <1>3, <2>1 DEF S!JumpAck, S!JumpTarget, SenderOrder
<1>4. CASE S!NewAck(a)
  <2>1. congwin' \in Int /\ frac' \in {0, 1}
    <3>1. MaxWin \in Int  BY TransferAssumption
    <3>2. CASE S!SlowStart(a - LPA)
      BY <3>2 DEF S!SlowStart, SenderOrder
    <3>3. CASE S!CongestionAvoidance(a - LPA)
      BY <3>1, <3>3 DEF S!CongestionAvoidance, SenderOrder
    <3> QED  BY <1>4, <3>2, <3>3 DEF S!NewAck
  <2>2. LPS \in Int  BY DEF SenderOrder
  <2>3. S!Room(congwin', frac', a, LPS) \in Int
    BY <2>1, <2>2, RoomInt, Zenon
  <2> QED  BY <1>4, <2>1, <2>3 DEF S!NewAck, SenderOrder
<1>5. CASE S!DupAck(a)
  <2>1. CASE S!Collapse
    BY <2>1, CollapseOrder
  <2>2. CASE /\ count' = S!Room(congwin, frac, LPA, LPS)
             /\ UNCHANGED <<LPA, LPS, LPR, congwin, frac, ssthresh>>
    <3>1. S!Room(congwin, frac, LPA, LPS) \in Int
      BY DEF S!Room, SenderOrder
    <3> QED  BY <2>2, <3>1 DEF SenderOrder
  <2> QED  BY <1>5, <2>1, <2>2 DEF S!DupAck
<1> QED  BY <1>1, <1>2, <1>3, <1>4, <1>5 DEF S!UponReceiveACK

(* No other step of the sender touches LPA, and what it sends are numbers. *)
LEMMA SenderStepKeepsLPA ==
  ASSUME SenderOrder, dataNet \subseteq Int, SenderIdle \/ SenderSend \/ SenderPass
  PROVE  SenderOrder' /\ dataNet' \subseteq Int /\ UNCHANGED <<LPA, NPE, ackNet>>
<1>1. CASE SenderIdle
  BY <1>1 DEF SenderIdle, S!NoAck, rvars, SenderOrder
<1>2. CASE SenderSend
  <2>1. S!Sendable \in Nat
    BY <1>2 DEF SenderSend, S!WindowSender, S!Sendable, S!MinOf, S!MaxOf, SenderOrder
  <2> QED
    BY <1>2, <2>1 DEF SenderSend, S!WindowSender, SentData, rvars, SenderOrder
<1>3. CASE SenderPass
  <2>1. CASE S!CheckDatapackTimeout
    BY <1>3, <2>1, CollapseOrder DEF SenderPass, S!CheckDatapackTimeout, rvars
  <2>2. CASE S!NothingToSend \/ S!FinishUpload \/ S!NoTimeout \/ S!AbortUpload
    BY <1>3, <2>2 DEF SenderPass, S!NothingToSend, S!FinishUpload, S!NoTimeout,
                      S!AbortUpload, rvars, SenderOrder
  <2> QED  BY <1>3, <2>1, <2>2 DEF SenderPass
<1> QED  BY <1>1, <1>2, <1>3

(* A DATA packet moves NPE up within the chunk or leaves it, and what is   *)
(* acknowledged lies below the new NPE.                                    *)
LEMMA DataRaisesNPE ==
  ASSUME NPE \in 1..(ChunkPackets + 1), NEW seq \in Int, R!UponReceivingDatapack(seq, Chunk)
  PROVE  /\ NPE' \in NPE..(ChunkPackets + 1)
         /\ \A a \in acks' : a \in Int /\ a < NPE'
<1>1. CASE R!Outside(seq)
  BY <1>1 DEF R!Outside
<1>2. CASE R!InOrder(seq, Chunk)
  BY <1>2 DEF R!InOrder, R!NextAfter
<1>3. CASE R!Ahead(seq, Chunk)
  BY <1>3 DEF R!Ahead, R!AckAhead
<1>4. CASE R!Behind(seq, Chunk)
  BY <1>4 DEF R!Behind
<1> QED  BY <1>1, <1>2, <1>3, <1>4 DEF R!UponReceivingDatapack

(* A pass of the receiver, or no step at all, changes none of this.        *)
LEMMA PassKeeps ==
  ASSUME ReceiverPass \/ BothClosed \/ UNCHANGED vars
  PROVE  UNCHANGED <<LPA, LPS, LPR, count, congwin, frac, NPE, dataNet, ackNet>>
  BY DEF ReceiverPass, BothClosed, R!NoData, R!DownloadPass, R!Reap, R!KeepReceiving,
         R!RecvTimeout, svars, vars

-----------------------------------------------------------------------------
(* Arithmetic of the step from NPE to NPE - 1.                             *)
LEMMA Below ==
  \A m \in Int, n \in Int, c \in Int : m < n /\ n <= c + 1 => n - 1 \in m..c
  OBVIOUS

(* One step: the invariant is kept, and the abstract state takes a step of *)
(* ChunkDelivery or stutters.                                              *)
LEMMA StepImplements ==
  ASSUME IInv, [Next]_vars
  PROVE  IInv' /\ [Delivery!Next]_<<NPE - 1, LPA>>
<1> USE DEF IInv
<1>1. CASE SenderAck
  <2>1. PICK a \in ackNet : S!UponReceiveACK(a)
    BY <1>1 DEF SenderAck
  <2>2. UNCHANGED <<NPE, dataNet, ackNet>>
    BY <1>1 DEF SenderAck, rvars
  <2>3. a \in Int /\ a < NPE /\ a <= ChunkPackets
    BY DEF AcksTrue
  <2>4. SenderOrder' /\ (LPA' = LPA \/ (LPA' = a /\ a > LPA))
    BY <2>1, <2>3, AckRaisesLPA
  <2>5. IInv'
    BY <2>2, <2>3, <2>4 DEF AckSound, AcksTrue
  <2>6. LPA' = LPA \/ LPA' \in (LPA + 1)..(NPE - 1)
    BY <2>3, <2>4 DEF SenderOrder
  <2> QED  BY <2>2, <2>5, <2>6 DEF Delivery!Next, Delivery!Confirm
<1>2. CASE SenderIdle \/ SenderSend \/ SenderPass
  BY <1>2, SenderStepKeepsLPA DEF AckSound, AcksTrue
<1>3. CASE ReceiverData
  <2>1. PICK seq \in dataNet : R!UponReceivingDatapack(seq, Chunk)
    BY <1>3 DEF ReceiverData
  <2>2. /\ ackNet' = ackNet \cup acks'
        /\ UNCHANGED <<LPA, LPS, LPR, count, congwin, frac, dataNet>>
    BY <1>3 DEF ReceiverData, svars
  <2>3. /\ NPE' \in NPE..(ChunkPackets + 1)
        /\ \A a \in acks' : a \in Int /\ a < NPE'
    BY <2>1, DataRaisesNPE
  <2>4. SenderOrder'
    BY <2>2 DEF SenderOrder
  <2>5. /\ NPE \in Int /\ NPE' \in Int /\ ChunkPackets \in Int
        /\ NPE <= NPE' /\ NPE' <= ChunkPackets + 1 /\ NPE >= 1
    BY <2>3
  <2>6. AckSound'
    BY <2>2, <2>5 DEF AckSound, SenderOrder
  <2>7. AcksTrue'
    BY <2>2, <2>3, <2>5 DEF AcksTrue
  <2>8. IInv'
    BY <2>2, <2>4, <2>5, <2>6, <2>7
  <2>9. NPE' = NPE \/ NPE' - 1 \in ((NPE - 1) + 1)..ChunkPackets
    <3>1. (NPE - 1) + 1 = NPE
      BY <2>5
    <3>2. NPE' # NPE => NPE < NPE'
      BY <2>5
    <3>3. NPE < NPE' => NPE' - 1 \in NPE..ChunkPackets
      BY <2>5, Below, Zenon
    <3> QED  BY <3>1, <3>2, <3>3, Zenon
  <2> QED  BY <2>2, <2>8, <2>9 DEF Delivery!Next, Delivery!Receive
<1>4. CASE ReceiverPass \/ BothClosed \/ UNCHANGED vars
  BY <1>4, PassKeeps DEF SenderOrder, AckSound, AcksTrue
<1> QED  BY <1>1, <1>2, <1>3, <1>4 DEF Next

LEMMA InductiveInvariant == Spec => []IInv
<1>1. IInv /\ [Next]_vars => IInv'  BY StepImplements
<1> QED  BY <1>1, InitInv, PTL DEF Spec

-----------------------------------------------------------------------------
(* The sender never counts a packet as acknowledged that the receiver does *)
(* not have in order.                                                      *)
THEOREM SenderNeverAhead == Spec => []AckSound
<1>1. IInv => AckSound  BY DEF IInv
<1> QED  BY <1>1, InductiveInvariant, PTL

(* Windows, rollbacks, jumps and the receive buffer over an unreliable     *)
(* network implement the abstract delivery of a chunk.                     *)
THEOREM ImplementsDelivery == Spec => Delivers
<1>1. Init => Delivery!Init
  BY DEF Init, S!Init, R!Init, Delivery!Init
<1>2. IInv /\ [Next]_vars => [Delivery!Next]_<<NPE - 1, LPA>>
  BY StepImplements
<1> QED  BY <1>1, <1>2, InductiveInvariant, PTL DEF Spec, Delivers, Delivery!Spec
-----------------------------------------------------------------------------
(* The parts.  Each side of a transfer is a run of its own module, so what *)
(* is proved of SenderWindow and of Receiver holds in the transfer.  What  *)
(* they assume of each other is that the network carries numbers of the    *)
(* chunk.                                                                  *)

SP == INSTANCE SenderWindow_proofs WITH phase <- sphase
RP == INSTANCE Receiver_proofs WITH phase <- rphase, Wanted <- Chunk, Chunks <- {Chunk}

LEMMA PartsAssumptions == SP!WindowAssumption /\ RP!ReceiverAssumption
  BY DEF SP!WindowAssumption, RP!ReceiverAssumption

(* The modules with the proofs have the definitions of the modules.        *)
LEMMA SameInit == (S!Init => SP!Init) /\ (R!Init => RP!Init)
  BY DEF S!Init, S!InitialCount, S!Packed, SP!Init, SP!InitialCount, SP!Packed, R!Init, RP!Init,
         R!Seqs, RP!Seqs

LEMMA SameSender == S!Next => SP!Next
  BY
  DEF S!Next, S!UponReceiveACK, S!IllegalAck, S!JumpAck, S!JumpTarget, S!NewAck,
      S!SlowStart, S!CongestionAvoidance, S!InAvoidance, S!DupAck, S!Collapse,
      S!Halved, S!Room, S!Saturated, S!OldAck, S!AfterOldAck, S!NoAck, S!UploadPass,
      S!WindowSender, S!Sendable, S!NothingToSend, S!FinishUpload, S!AllAcked,
      S!CheckDatapackTimeout, S!TimeoutApplies, S!NoTimeout, S!AbortUpload,
      S!Closed, S!vars, S!MinOf, S!MaxOf, SP!Next, SP!UponReceiveACK, SP!IllegalAck,
      SP!JumpAck, SP!JumpTarget, SP!NewAck, SP!SlowStart, SP!CongestionAvoidance,
      SP!InAvoidance, SP!DupAck, SP!Collapse, SP!Halved, SP!Room, SP!Saturated,
      SP!OldAck, SP!AfterOldAck, SP!NoAck, SP!UploadPass, SP!WindowSender,
      SP!Sendable, SP!NothingToSend, SP!FinishUpload, SP!AllAcked,
      SP!CheckDatapackTimeout, SP!TimeoutApplies, SP!NoTimeout, SP!AbortUpload,
      SP!Closed, SP!vars, SP!MinOf, SP!MaxOf

LEMMA SameReceiver == R!Next => RP!Next
  BY
  DEF R!Next, R!UponReceivingDatapack, R!InOrder, R!Stored, R!FirstGap, R!NextAfter,
      R!Counted, R!Ahead, R!AckAhead, R!Behind, R!Outside, R!Accepted, R!MinOf,
      R!NoData, R!DownloadPass, R!Reap, R!Complete, R!HashMatches, R!KeepReceiving,
      R!RecvTimeout, R!Closed, R!vars, RP!Next, RP!UponReceivingDatapack,
      RP!InOrder, RP!Stored, RP!FirstGap, RP!NextAfter, RP!Counted, RP!Ahead,
      RP!AckAhead, RP!Behind, RP!Outside, RP!Accepted, RP!MinOf, RP!NoData,
      RP!DownloadPass, RP!Reap, RP!Complete, RP!HashMatches, RP!KeepReceiving,
      RP!RecvTimeout, RP!Closed, RP!vars

\* A window that is done has every packet acknowledged.
DoneIsAcked == sphase = "done" => LPA = LPR - 1

Parts ==
  /\ SP!IInv /\ RP!IInv
  /\ dataNet \subseteq 1..ChunkPackets
  /\ ackNet \subseteq 0..ChunkPackets
  /\ DoneIsAcked

SenderStep   == SenderAck \/ SenderIdle \/ SenderSend \/ SenderPass
ReceiverStep == ReceiverData \/ ReceiverPass

LEMMA InitParts == Init => Parts
<1> SUFFICES ASSUME Init PROVE Parts
  OBVIOUS
<1>1. SP!IInv /\ RP!IInv
  BY SameInit, PartsAssumptions, SP!InitInv, RP!InitInv DEF Init
<1> QED  BY <1>1 DEF Init, S!Init, Parts, DoneIsAcked

(* An ACK from the network is one that SenderWindow is prepared for.       *)
LEMMA SenderTakesStep ==
  ASSUME Parts, SenderStep
  PROVE  S!Next /\ UNCHANGED rvars
<1>1. CASE SenderAck
  BY <1>1 DEF SenderAck, S!Next, Parts
<1>2. CASE SenderIdle
  BY <1>2 DEF SenderIdle, S!Next
<1>3. CASE SenderSend
  BY <1>3 DEF SenderSend, S!Next, S!UploadPass
<1>4. CASE SenderPass
  BY <1>4 DEF SenderPass, S!Next, S!UploadPass
<1> QED  BY <1>1, <1>2, <1>3, <1>4 DEF SenderStep

LEMMA ReceiverTakesStep ==
  ASSUME Parts, ReceiverStep
  PROVE  R!Next /\ UNCHANGED svars
<1>1. CASE ReceiverData
  <2>1. PICK seq \in dataNet : R!UponReceivingDatapack(seq, Chunk)
    BY <1>1 DEF ReceiverData
  <2>2. seq \in 0..(ChunkPackets + 1)
    BY DEF Parts
  <2> QED  BY <1>1, <2>1, <2>2 DEF ReceiverData, R!Next
<1>2. CASE ReceiverPass
  BY <1>2 DEF ReceiverPass, R!Next
<1> QED  BY <1>1, <1>2 DEF ReceiverStep

(* What window_sender sends are packets of the chunk.                      *)
LEMMA SentInChunk ==
  ASSUME SP!IInv, SP!IInv', SenderStep, dataNet \subseteq 1..ChunkPackets
  PROVE  dataNet' \subseteq 1..ChunkPackets
<1>1. LPS \in Int /\ LPS >= 0 /\ LPS' \in Int /\ LPS' <= ChunkPackets
  BY DEF SP!IInv, SP!TypeOK
<1>2. \A x \in SentData : x \in 1..ChunkPackets
  BY <1>1 DEF SentData
<1>3. dataNet' = dataNet \/ dataNet' = dataNet \cup SentData
  BY DEF SenderStep, SenderAck, SenderIdle, SenderSend, SenderPass
<1> QED  BY <1>2, <1>3

LEMMA DoneIsKept ==
  ASSUME DoneIsAcked, SenderStep
  PROVE  DoneIsAcked'
BY DEF DoneIsAcked, SenderStep, SenderAck, SenderIdle, SenderSend, SenderPass, S!UponReceiveACK,
       S!NoAck, S!WindowSender, S!NothingToSend, S!FinishUpload, S!AllAcked,
       S!CheckDatapackTimeout, S!NoTimeout, S!AbortUpload

LEMMA PartsStep ==
  ASSUME Parts, [Next]_vars
  PROVE  Parts' /\ [S!Next]_svars /\ [R!Next]_rvars
<1>1. CASE SenderStep
  <2>1. S!Next /\ UNCHANGED rvars
    BY <1>1, SenderTakesStep
  <2>2. SP!IInv'
    BY <2>1, SameSender, PartsAssumptions, SP!NextPreservesInv DEF Parts
  <2>3. RP!IInv'
    BY <2>1, PartsAssumptions, RP!QuietPreserves DEF Parts, rvars, RP!IInv, RP!TypeOK
  <2>4. dataNet' \subseteq 1..ChunkPackets
    BY <1>1, <2>2, SentInChunk DEF Parts
  <2>5. ackNet' = ackNet /\ DoneIsAcked'
    BY <1>1, DoneIsKept DEF Parts, SenderStep, SenderAck, SenderIdle, SenderSend, SenderPass
  <2> QED  BY <2>1, <2>2, <2>3, <2>4, <2>5 DEF Parts
<1>2. CASE ReceiverStep
  <2>1. R!Next /\ UNCHANGED svars
    BY <1>2, ReceiverTakesStep
  <2>2. SP!IInv' /\ DoneIsAcked'
    <3>1. SP!IInv'
      BY <2>1, PartsAssumptions, SP!NextPreservesInv DEF Parts, svars, SP!vars
    <3> QED  BY <2>1, <3>1 DEF Parts, DoneIsAcked, svars
  <2>3. RP!IInv'
    BY <2>1, SameReceiver, PartsAssumptions, RP!NextPreservesInv DEF Parts
  <2>4. dataNet' = dataNet /\ (ackNet' = ackNet \/ ackNet' = ackNet \cup acks')
    BY <1>2 DEF ReceiverStep, ReceiverData, ReceiverPass
  <2>5. acks' \subseteq 0..ChunkPackets
    BY <2>3 DEF RP!IInv, RP!TypeOK
  <2> QED  BY <2>1, <2>2, <2>3, <2>4, <2>5 DEF Parts
<1>3. CASE UNCHANGED vars
  <2>1. UNCHANGED <<svars, rvars, dataNet, ackNet>>
    BY <1>3 DEF vars, svars, rvars
  <2>2. SP!IInv' /\ RP!IInv'
    BY <2>1, PartsAssumptions, SP!NextPreservesInv, RP!QuietPreserves
    DEF Parts, svars, rvars, SP!vars, RP!IInv, RP!TypeOK
  <2> QED  BY <2>1, <2>2 DEF Parts, DoneIsAcked, svars
<1> QED  BY <1>1, <1>2, <1>3 DEF Next, SenderStep, ReceiverStep, BothClosed

LEMMA PartsInvariant == Spec => []Parts
<1>1. Parts /\ [Next]_vars => Parts'  BY PartsStep
<1> QED  BY <1>1, InitParts, PTL DEF Spec

(* The uploading side of a transfer is a run of SenderWindow.              *)
THEOREM SenderIsWindow == Spec => S!Spec
<1>1. Init => S!Init  BY DEF Init
<1>2. Parts /\ [Next]_vars => [S!Next]_(S!vars)
  BY PartsStep DEF svars, S!vars
<1> QED  BY <1>1, <1>2, PartsInvariant, PTL DEF Spec, S!Spec

(* The downloading side of a transfer is a run of Receiver.                *)
THEOREM ReceiverIsReceiver == Spec => R!Spec
<1>1. Init => R!Init  BY DEF Init
<1>2. Parts /\ [Next]_vars => [R!Next]_(R!vars)
  BY PartsStep DEF rvars, R!vars
<1> QED  BY <1>1, <1>2, PartsInvariant, PTL DEF Spec, R!Spec

(* Both ends keep their types, and only numbers of the chunk travel.       *)
THEOREM TypeCorrect == Spec => []TypeOK
<1>1. Parts => TypeOK
  BY DEF Parts, SP!IInv, SP!TypeOK, RP!IInv, RP!TypeOK, TypeOK, S!TypeOK, R!TypeOK,
         S!Phases, SP!Phases, R!Phases, RP!Phases, R!Seqs, RP!Seqs
<1> QED  BY <1>1, PartsInvariant, PTL

(* An upload that is listed as finished has been received in full: what    *)
(* the ACKs said is true of the buffer.                                    *)
THEOREM DoneIsReceived == Spec => []DoneMeansReceived
<1>1. Parts /\ IInv => DoneMeansReceived
  <2> SUFFICES ASSUME Parts, IInv, sphase = "done", LPR = ChunkPackets + 1,
                      NEW i \in 1..ChunkPackets
               PROVE  recv_buf[i] = Chunk
    BY DEF DoneMeansReceived
  <2>1. LPA = ChunkPackets
    BY DEF Parts, DoneIsAcked
  <2>2. NPE = ChunkPackets + 1
    BY <2>1 DEF IInv, AckSound
  <2>3. recv_buf[i] # None
    BY <2>2 DEF Parts, RP!IInv, RP!NextIsFirstGap
  <2>4. recv_buf[i] \in {Chunk, None}
    BY DEF Parts, RP!IInv, RP!TypeOK, RP!Seqs
  <2> QED  BY <2>3, <2>4
<1> QED  BY <1>1, PartsInvariant, InductiveInvariant, PTL
=============================================================================
