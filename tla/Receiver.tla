------------------------------ MODULE Receiver ------------------------------
(***************************************************************************)
(* The receiving end of one download (Recv_State, sock_io.h): the buffer   *)
(* of upon_receiving_datapack, the ACKs it sends, and the download pass of *)
(* peer_run that reaps a complete chunk.  One iteration of the main loop   *)
(* is "recv" (at most one datagram) and "reap".                            *)
(*                                                                         *)
(* Abstractions.  A payload is the chunk it was cut from: the position is  *)
(* the sequence number.  Every packet of a chunk is full (CHUNK_SIZE is a  *)
(* multiple of the payload), so recv_bytesnum counts packets.  SHA-1 tells *)
(* the wanted chunk from every other content.                              *)
(***************************************************************************)
EXTENDS Integers

CONSTANTS
  ChunkPackets,   \* data packets of a chunk (512)
  RecvWin,        \* how far ahead of NPE a packet is still buffered (30)
  Chunks,         \* the chunks a peer may be sending
  Wanted,         \* the chunk this download asked for
  None            \* an empty buffer slot

ASSUME ReceiverAssumption ==
  /\ ChunkPackets \in Nat \ {0}
  /\ RecvWin \in Nat
  /\ Wanted \in Chunks
  /\ None \notin Chunks

VARIABLES
  NPE,             \* next packet expected
  recv_buf,        \* sequence number -> payload or None
  recv_bytesnum,   \* in-order payload received, in packets
  acks,            \* numbers of the ACK packets sent by the last step
  phase            \* where the main loop is with this download

vars == <<NPE, recv_buf, recv_bytesnum, acks, phase>>

Seqs   == 1..ChunkPackets
Phases == {"recv", "reap", "written", "discarded", "dropped"}

MinOf(a, b) == IF a < b THEN a ELSE b

\* create_Recver
Init ==
  /\ NPE = 1
  /\ recv_buf = [i \in Seqs |-> None]
  /\ recv_bytesnum = 0
  /\ acks = {}
  /\ phase = "recv"

-----------------------------------------------------------------------------
(* upon_receiving_datapack                                                 *)

Accepted_NoWindow(seq) == seq \in Seqs   \* mutant: no receive window
Accepted(seq) == seq >= 1 /\ seq <= MinOf(NPE + RecvWin, ChunkPackets)

\* A slot is overwritten, whether it was filled before or not.
Stored(seq, payload) == [recv_buf EXCEPT ![seq] = payload]

\* n is the first empty slot after the packet seq was put into buf.
FirstGap_StopsAtSeq(buf, seq, n) == n = seq + 1   \* mutant: does not look ahead
FirstGap(buf, seq, n) ==
  /\ \A i \in seq..(n - 1) : buf[i] # None
  /\ n <= ChunkPackets => buf[n] = None

\* Packets ahead of NPE are not counted before the gap is closed.
Counted_OnlyOne(seq, n) == 1   \* mutant: counts the packet, not the run it completes
Counted(seq, n) == n - seq

\* What NPE is after a run of packets ending below n.
NextAfter_Skips(n) == n + 1   \* mutant: off by one
NextAfter(n) == n

\* The expected packet: one ACK for each packet up to the next gap.
InOrder(seq, payload) ==
  /\ seq = NPE
  /\ recv_buf' = Stored(seq, payload)
  /\ \E n \in (seq + 1)..(ChunkPackets + 1) :
       /\ FirstGap(recv_buf', seq, n)
       /\ NPE' = NextAfter(n)
       /\ recv_bytesnum' = recv_bytesnum + Counted(seq, n)
       /\ acks' = seq..(n - 1)

\* What is acknowledged for a packet that leaves a gap behind it.
AckAhead_Selective(seq) == seq     \* mutant: acknowledges the packet itself
AckAhead(seq) == NPE - 1

\* A packet ahead of the gap is kept, and the last one before the gap
\* acknowledged again; NPE > 0 holds always, so that may be number 0.
Ahead(seq, payload) ==
  /\ seq > NPE
  /\ recv_buf' = Stored(seq, payload)
  /\ acks' = IF NPE > 0 THEN {AckAhead(seq)} ELSE {}
  /\ UNCHANGED <<NPE, recv_bytesnum>>

\* A packet below NPE replaces the stored one and is acknowledged as it is.
Behind(seq, payload) ==
  /\ seq < NPE
  /\ recv_buf' = Stored(seq, payload)
  /\ acks' = {seq}
  /\ UNCHANGED <<NPE, recv_bytesnum>>

\* Outside the window the function returns: nothing stored, no ACK.
Outside(seq) ==
  /\ ~Accepted(seq)
  /\ acks' = {}
  /\ UNCHANGED <<NPE, recv_buf, recv_bytesnum>>

UponReceivingDatapack(seq, payload) ==
  /\ phase = "recv" /\ phase' = "reap"
  /\ \/ Outside(seq)
     \/ /\ Accepted(seq)
        /\ InOrder(seq, payload) \/ Ahead(seq, payload) \/ Behind(seq, payload)

\* The iteration handles no datagram, or one for another connection.
NoData ==
  /\ phase = "recv" /\ phase' = "reap"
  /\ acks' = {}
  /\ UNCHANGED <<NPE, recv_buf, recv_bytesnum>>

-----------------------------------------------------------------------------
(* The download pass of peer_run                                           *)

Complete == recv_bytesnum = ChunkPackets

\* reap copies the packets below NPE and checks the hash of what it copied.
HashMatches == \A i \in 1..(NPE - 1) : recv_buf[i] = Wanted

\* The chunk is written to the output file, or not; the download ends
\* (finish_one_download) in both cases.
Reap ==
  /\ phase = "reap" /\ Complete
  /\ phase' = IF HashMatches THEN "written" ELSE "discarded"
  /\ acks' = {}
  /\ UNCHANGED <<NPE, recv_buf, recv_bytesnum>>

KeepReceiving ==
  /\ phase = "reap" /\ ~Complete
  /\ phase' = "recv" /\ acks' = {}
  /\ UNCHANGED <<NPE, recv_buf, recv_bytesnum>>

\* check_recvdata_timeout: no data for 5 * TIMEOUT_SEC.
RecvTimeout ==
  /\ phase = "reap" /\ ~Complete
  /\ phase' = "dropped" /\ acks' = {}
  /\ UNCHANGED <<NPE, recv_buf, recv_bytesnum>>

DownloadPass == Reap \/ KeepReceiving \/ RecvTimeout

Closed == phase \in {"written", "discarded", "dropped"} /\ UNCHANGED vars

Next ==
  \/ \E seq \in 0..(ChunkPackets + 1), payload \in Chunks : UponReceivingDatapack(seq, payload)
  \/ NoData
  \/ DownloadPass
  \/ Closed

Spec == Init /\ [][Next]_vars

-----------------------------------------------------------------------------
(* Properties                                                              *)

\* Every variable stays in its range.
TypeOK ==
  /\ NPE \in 1..(ChunkPackets + 1)
  /\ recv_buf \in [Seqs -> Chunks \cup {None}]
  /\ recv_bytesnum \in 0..ChunkPackets
  /\ acks \in SUBSET (0..ChunkPackets)
  /\ phase \in Phases

\* NPE is the first gap of the buffer, in whatever order packets arrive and
\* repeat: reap reads every slot below NPE without looking whether it is set.
NextIsFirstGap ==
  /\ \A i \in 1..(NPE - 1) : recv_buf[i] # None
  /\ NPE <= ChunkPackets => recv_buf[NPE] = None

\* The byte count that decides that a chunk is complete agrees with NPE:
\* duplicates and packets that closed a gap later are counted once.
BytesMatchNPE == recv_bytesnum = NPE - 1

\* An ACK is cumulative although one is sent for each packet: everything up to
\* its number has been received.  The sender drops those packets for good.
AcksCumulative == \A a \in acks : \A i \in 1..a : recv_buf[i] # None
=============================================================================
