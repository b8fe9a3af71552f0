--------------------------- MODULE Receiver_proofs ---------------------------
(***************************************************************************)
(* Proofs about the receiver, for every chunk length and receive window.   *)
(* IInv is inductive: NPE is the first gap, the byte count follows it, the *)
(* buffer stays inside the window, and the ACKs just sent are below NPE.   *)
(***************************************************************************)
EXTENDS Receiver, TLAPS

\* Everything acknowledged by the last step lies below NPE.
AcksBelowNPE == \A a \in acks : a < NPE

\* Nothing is buffered further ahead than the receive window.
BufferedInWindow == \A i \in Seqs : recv_buf[i] # None => i <= NPE + RecvWin

IInv == TypeOK /\ NextIsFirstGap /\ BytesMatchNPE /\ BufferedInWindow /\ AcksBelowNPE

USE ReceiverAssumption DEF Seqs, Phases, MinOf

-----------------------------------------------------------------------------
LEMMA InitInv == Init => IInv
  BY DEF Init, IInv, TypeOK, NextIsFirstGap, BytesMatchNPE, BufferedInWindow, AcksBelowNPE

(* Storing a packet fills its slot and leaves the others alone.            *)
LEMMA StoredFills ==
  ASSUME TypeOK, NEW seq \in Seqs, NEW payload \in Chunks
  PROVE  /\ Stored(seq, payload) \in [Seqs -> Chunks \cup {None}]
         /\ Stored(seq, payload)[seq] = payload
         /\ \A i \in Seqs : i # seq => Stored(seq, payload)[i] = recv_buf[i]
  BY DEF TypeOK, Stored

LEMMA InOrderPreserves ==
  ASSUME IInv, NEW seq \in Seqs, NEW payload \in Chunks,
         Accepted(seq), InOrder(seq, payload), phase' \in Phases
  PROVE  IInv' /\ NPE' > NPE
<1> USE DEF IInv
<1>1. PICK n \in (seq + 1)..(ChunkPackets + 1) :
        /\ FirstGap(recv_buf', seq, n)
        /\ NPE' = n
        /\ recv_bytesnum' = recv_bytesnum + (n - seq)
        /\ acks' = seq..(n - 1)
  BY DEF InOrder, NextAfter, Counted
<1>2. /\ seq = NPE /\ NPE \in Int /\ n \in Int /\ NPE < n /\ n <= ChunkPackets + 1
      /\ NPE >= 1
  BY <1>1 DEF InOrder, TypeOK
<1>3. /\ recv_buf' \in [Seqs -> Chunks \cup {None}]
      /\ recv_buf'[seq] = payload
      /\ \A i \in Seqs : i # seq => recv_buf'[i] = recv_buf[i]
  BY StoredFills DEF InOrder
<1>4. BytesMatchNPE'
  BY <1>1, <1>2 DEF BytesMatchNPE
<1>5. TypeOK'
  <2>1. acks' \in SUBSET (0..ChunkPackets)
    BY <1>1, <1>2
  <2>2. recv_bytesnum' \in 0..ChunkPackets
    BY <1>1, <1>2, <1>4 DEF BytesMatchNPE
  <2> QED  BY <1>1, <1>2, <1>3, <2>1, <2>2 DEF TypeOK
<1>6. NextIsFirstGap'
  <2>1. ASSUME NEW i \in 1..(NPE' - 1) PROVE recv_buf'[i] # None
    <3>1. CASE i < seq
      BY <1>1, <1>2, <1>3, <3>1 DEF NextIsFirstGap
    <3>2. CASE i >= seq
      BY <1>1, <1>2, <3>2 DEF FirstGap
    <3> QED  BY <1>1, <1>2, <3>1, <3>2
  <2>2. NPE' <= ChunkPackets => recv_buf'[NPE'] = None
    BY <1>1 DEF FirstGap
  <2> QED  BY <2>1, <2>2 DEF NextIsFirstGap
<1>7. BufferedInWindow'
  BY <1>1, <1>2, <1>3 DEF BufferedInWindow, TypeOK
<1>8. AcksBelowNPE'
  BY <1>1, <1>2 DEF AcksBelowNPE
<1> QED  BY <1>1, <1>2, <1>4, <1>5, <1>6, <1>7, <1>8

LEMMA AheadPreserves ==
  ASSUME IInv, NEW seq \in Seqs, NEW payload \in Chunks,
         Accepted(seq), Ahead(seq, payload), phase' \in Phases
  PROVE  IInv' /\ NPE' = NPE
<1> USE DEF IInv
<1>1. /\ NPE' = NPE /\ recv_bytesnum' = recv_bytesnum
      /\ acks' = {NPE - 1} /\ seq > NPE /\ NPE \in Nat /\ NPE >= 1
  BY DEF Ahead, AckAhead, TypeOK
<1>2. /\ recv_buf' \in [Seqs -> Chunks \cup {None}]
      /\ recv_buf'[seq] = payload
      /\ \A i \in Seqs : i # seq => recv_buf'[i] = recv_buf[i]
  BY StoredFills DEF Ahead
<1>3. TypeOK'
  BY <1>1, <1>2 DEF TypeOK
<1>4. NextIsFirstGap'
  BY <1>1, <1>2 DEF NextIsFirstGap, TypeOK
<1>5. BufferedInWindow'
  BY <1>1, <1>2 DEF BufferedInWindow, Accepted
<1> QED  BY <1>1, <1>3, <1>4, <1>5 DEF BytesMatchNPE, AcksBelowNPE

LEMMA BehindPreserves ==
  ASSUME IInv, NEW seq \in Seqs, NEW payload \in Chunks,
         Behind(seq, payload), phase' \in Phases
  PROVE  IInv' /\ NPE' = NPE
<1> USE DEF IInv
<1>1. /\ NPE' = NPE /\ recv_bytesnum' = recv_bytesnum
      /\ acks' = {seq} /\ seq < NPE /\ NPE \in Nat /\ NPE >= 1
  BY DEF Behind, TypeOK
<1>2. /\ recv_buf' \in [Seqs -> Chunks \cup {None}]
      /\ recv_buf'[seq] = payload
      /\ \A i \in Seqs : i # seq => recv_buf'[i] = recv_buf[i]
  BY StoredFills DEF Behind
<1>3. TypeOK'
  BY <1>1, <1>2 DEF TypeOK
<1>4. NextIsFirstGap'
  BY <1>1, <1>2 DEF NextIsFirstGap, TypeOK
<1>5. BufferedInWindow'
  BY <1>1, <1>2 DEF BufferedInWindow
<1> QED  BY <1>1, <1>3, <1>4, <1>5 DEF BytesMatchNPE, AcksBelowNPE

(* A step that leaves the buffer alone and sends nothing.                  *)
LEMMA QuietPreserves ==
  ASSUME IInv, acks' = {} \/ acks' = acks, UNCHANGED <<NPE, recv_buf, recv_bytesnum>>,
         phase' \in Phases
  PROVE  IInv'
  BY DEF IInv, TypeOK, NextIsFirstGap, BytesMatchNPE, BufferedInWindow, AcksBelowNPE

LEMMA DataPreserves ==
  ASSUME IInv, NEW seq \in 0..(ChunkPackets + 1), NEW payload \in Chunks,
         UponReceivingDatapack(seq, payload)
  PROVE  IInv' /\ NPE' >= NPE
<1>1. phase' \in Phases  BY DEF UponReceivingDatapack
<1>2. NPE \in Int  BY DEF IInv, TypeOK
<1>3. CASE Outside(seq)
  BY <1>1, <1>2, <1>3, QuietPreserves DEF Outside
<1>4. CASE /\ Accepted(seq)
           /\ InOrder(seq, payload) \/ Ahead(seq, payload) \/ Behind(seq, payload)
  <2>1. seq \in Seqs
    BY <1>2, <1>4 DEF Accepted
  <2>2. CASE InOrder(seq, payload)
    <3>1. IInv' /\ NPE' > NPE  BY <1>1, <1>4, <2>1, <2>2, InOrderPreserves
    <3>2. NPE' \in Int  BY <3>1 DEF IInv, TypeOK
    <3> QED  BY <1>2, <3>1, <3>2
  <2>3. CASE Ahead(seq, payload)
    BY <1>1, <1>2, <1>4, <2>1, <2>3, AheadPreserves
  <2>4. CASE Behind(seq, payload)
    BY <1>1, <1>2, <2>1, <2>4, BehindPreserves
  <2> QED  BY <1>4, <2>2, <2>3, <2>4
<1> QED  BY <1>3, <1>4 DEF UponReceivingDatapack

LEMMA PassPreserves ==
  ASSUME IInv, NoData \/ DownloadPass \/ Closed
  PROVE  IInv'
<1>1. phase' \in Phases
  BY DEF NoData, DownloadPass, Reap, KeepReceiving, RecvTimeout, Closed, vars, IInv, TypeOK
<1> QED
  BY <1>1, QuietPreserves
  DEF NoData, DownloadPass, Reap, KeepReceiving, RecvTimeout, Closed, vars

LEMMA NextPreservesInv == IInv /\ [Next]_vars => IInv'
<1> SUFFICES ASSUME IInv, [Next]_vars PROVE IInv'
  OBVIOUS
<1>1. CASE \E seq \in 0..(ChunkPackets + 1), payload \in Chunks :
             UponReceivingDatapack(seq, payload)
  BY <1>1, DataPreserves
<1>2. CASE NoData \/ DownloadPass \/ Closed
  BY <1>2, PassPreserves
<1>3. CASE UNCHANGED vars
  BY <1>3, QuietPreserves DEF vars, IInv, TypeOK
<1> QED  BY <1>1, <1>2, <1>3 DEF Next

LEMMA InductiveInvariant == Spec => []IInv
  BY NextPreservesInv, InitInv, PTL DEF Spec

-----------------------------------------------------------------------------
(* The receiver's variables keep their types: no sequence number leads     *)
(* outside recv_buf.                                                       *)
THEOREM TypeCorrect == Spec => []TypeOK
<1>1. IInv => TypeOK  BY DEF IInv
<1> QED  BY <1>1, InductiveInvariant, PTL

(* reap never meets an empty slot: everything below NPE has been received. *)
THEOREM NextIsGap == Spec => []NextIsFirstGap
<1>1. IInv => NextIsFirstGap  BY DEF IInv
<1> QED  BY <1>1, InductiveInvariant, PTL

(* The byte count that ends a download counts each packet once.            *)
THEOREM BytesExact == Spec => []BytesMatchNPE
<1>1. IInv => BytesMatchNPE  BY DEF IInv
<1> QED  BY <1>1, InductiveInvariant, PTL

(* Every ACK sent is cumulative.                                           *)
THEOREM AcksAreCumulative == Spec => []AcksCumulative
<1>1. IInv => AcksCumulative
  BY DEF IInv, TypeOK, AcksBelowNPE, NextIsFirstGap, AcksCumulative
<1> QED  BY <1>1, InductiveInvariant, PTL

(* Nothing is buffered beyond the receive window.                          *)
THEOREM BufferInWindow == Spec => []BufferedInWindow
<1>1. IInv => BufferedInWindow  BY DEF IInv
<1> QED  BY <1>1, InductiveInvariant, PTL
=============================================================================
