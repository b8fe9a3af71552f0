--------------------------- MODULE PeerPair_proofs ---------------------------
(***************************************************************************)
(* Two peers over any number of transfers, chunks, faults and GET          *)
(* commands, and for any lengths of the timeouts: the invariants of the    *)
(* two ends (modules SenderWindow and Receiver) hold although both are     *)
(* used for one transfer after the other and meet packets of earlier ones; *)
(* the downloading peer implements the download manager (module Downloads),*)
(* step by step; and the chunks of different transfers do not mix unless   *)
(* an upload is orphaned near its start or packets outlive a connection.   *)
(***************************************************************************)
EXTENDS PeerPair, FiniteSetTheorems, FunctionTheorems, SequenceTheorems, TLAPS

SP == INSTANCE SenderWindow_proofs WITH phase <- sphase

\* The lemmas about the buffer do not depend on which chunk is wanted.
RP == INSTANCE Receiver_proofs WITH phase <- "recv", Wanted <- CHOOSE c \in Chunks : TRUE

ToA == [seq : Seqs, payload : Chunks]
ToB == [type : {"GET"}, hash : Chunks] \cup [type : {"ACK"}, num : 0..ChunkPackets]

Channels == toA \in Seq(ToA) /\ toB \in Seq(ToB)

\* A running upload has a chunk to send.
Uploads ==
  /\ {up, last} \subseteq Chunks \cup {None}
  /\ UploadOpen => up \in Chunks

\* Without a download the buffer is as create_Recver leaves it.
EmptyWhenIdle ==
  downloading = None => NPE = 1 /\ recv_bytesnum = 0 /\ recv_buf = [i \in Seqs |-> None]

\* The ACKs of a datagram have been sent when the input is read.
AcksGone == aphase # "input" => acks = {}

Buffer == RP!IInv /\ EmptyWhenIdle /\ AcksGone

\* A chunk is queued, asked for or arriving in at most one way, and needed; one
\* that is written is not needed any more.  Nothing happens before the first GET.
Lists ==
  /\ need \subseteq Chunks /\ queue \subseteq need /\ whohas \subseteq Chunks
  /\ {asked, downloading} \subseteq need \cup {None}
  /\ asked = None \/ downloading = None
  /\ asked \notin queue /\ downloading \notin queue
  /\ written \subseteq Chunks /\ written \cap need = {}
  /\ gets = 0 => need = {} /\ whohas = {}

Timers ==
  /\ sinceAck \in 0..AckLimit + 1
  /\ sinceSent \in [Seqs -> 0..DataLimit + 1]
  /\ sinceData \in 0..RecvLimit + 1

Rest ==
  /\ aphase \in {"recv", "input", "timeouts", "gets", "downloads"} /\ alive \in BOOLEAN
  /\ faults \in 0..MaxFaults /\ gets \in 0..MaxGets /\ unread \subseteq Chunks

Inv == SP!IInv /\ Buffer /\ Channels /\ Uploads /\ Lists /\ Timers /\ Rest

USE PairAssumption DEF Seqs

-----------------------------------------------------------------------------
LEMMA SenderAssumption == SP!WindowAssumption
  BY DEF SP!WindowAssumption

LEMMA ReceiverAssumption == Chunks # {} => RP!ReceiverAssumption
  BY DEF RP!ReceiverAssumption

\* The types of the window, for the leaves below.
LEMMA WindowTypes ==
  ASSUME SP!IInv
  PROVE  /\ LPA \in Int /\ LPS \in Int /\ LPR \in Int /\ count \in Int /\ congwin \in Int
         /\ ssthresh \in Int /\ frac \in {0, 1}
         /\ 0 <= LPA /\ LPA <= LPS /\ LPS <= LPR - 1 /\ LPR \in {1, ChunkPackets + 1}
         /\ congwin >= 1 /\ ssthresh >= 1
         /\ sphase \in {"recv", "send", "check", "done", "aborted"}
BY DEF SP!IInv, SP!TypeOK, SP!WindowOrder, SP!Phases

LEMMA InitInv == Init => Inv
<1> SUFFICES ASSUME Init PROVE Inv
  OBVIOUS
<1>1. SP!IInv
  BY DEF Init, SP!IInv, SP!TypeOK, SP!WindowOrder, SP!NoStall, SP!CountIsRoom,
         SP!OpenWhenIdle, SP!BusyInRecv, SP!Phases
<1>2. Buffer
  BY DEF Init, Buffer, EmptyWhenIdle, AcksGone, RP!IInv, RP!TypeOK, RP!Seqs, RP!Phases,
         RP!NextIsFirstGap, RP!BytesMatchNPE, RP!BufferedInWindow, RP!AcksBelowNPE
<1>3. Channels /\ Uploads /\ Lists /\ Timers /\ Rest
  BY EmptySeq DEF Init, Channels, Uploads, UploadOpen, Lists, Timers, Rest
<1> QED  BY <1>1, <1>2, <1>3 DEF Inv

-----------------------------------------------------------------------------
(* B's window                                                              *)

\* The window of PeerPair is the one the lemmas of SenderWindow_proofs are about.
LEMMA SameAck == \A n : S!UponReceiveACK(n) => SP!UponReceiveACK(n)
BY DEF S!UponReceiveACK, S!IllegalAck, S!JumpAck, S!JumpTarget, S!NewAck, S!SlowStart,
       S!CongestionAvoidance, S!InAvoidance, S!DupAck, S!Collapse, S!Halved, S!Room,
       S!Saturated, S!OldAck, S!AfterOldAck, S!MinOf, S!MaxOf,
       SP!UponReceiveACK, SP!IllegalAck, SP!JumpAck, SP!JumpTarget, SP!NewAck, SP!SlowStart,
       SP!CongestionAvoidance, SP!InAvoidance, SP!DupAck, SP!Collapse, SP!Halved, SP!Room,
       SP!Saturated, SP!OldAck, SP!AfterOldAck, SP!MinOf, SP!MaxOf

LEMMA SamePass == (S!NoAck => SP!NoAck) /\ (S!UploadPass => SP!UploadPass)
BY DEF S!NoAck, S!UploadPass, S!WindowSender, S!Sendable, S!NothingToSend, S!FinishUpload,
       S!AllAcked, S!CheckDatapackTimeout, S!TimeoutApplies, S!NoTimeout, S!AbortUpload,
       S!Collapse, S!Halved, S!Room, S!MinOf, S!MaxOf,
       SP!NoAck, SP!UploadPass, SP!WindowSender, SP!Sendable, SP!NothingToSend,
       SP!FinishUpload, SP!AllAcked, SP!CheckDatapackTimeout, SP!TimeoutApplies,
       SP!NoTimeout, SP!AbortUpload, SP!Collapse, SP!Halved, SP!Room, SP!MinOf, SP!MaxOf

LEMMA PassPreservesWindow ==
  ASSUME SP!IInv, S!UploadPass \/ S!NoAck \/ UNCHANGED window
  PROVE  SP!IInv'
<1>1. SP!UploadPass \/ SP!NoAck \/ UNCHANGED SP!vars
  BY SamePass DEF window, SP!vars
<1>2. CASE SP!UploadPass
  BY <1>2, SenderAssumption, SP!PassPreservesInv
<1>3. CASE SP!NoAck \/ UNCHANGED SP!vars
  BY <1>3, SenderAssumption, SP!NextPreservesInv DEF SP!Next
<1> QED  BY <1>1, <1>2, <1>3

\* What is at the head of a channel, and what is left when it is taken.
LEMMA HeadOfToB ==
  ASSUME Channels, toB # <<>>
  PROVE  /\ Head(toB) \in ToB /\ Tail(toB) \in Seq(ToB)
         /\ Head(toB).type = "GET" => Head(toB).hash \in Chunks
         /\ Head(toB).type = "ACK" => Head(toB).num \in 0..ChunkPackets
<1>1. Head(toB) \in ToB /\ Tail(toB) \in Seq(ToB)
  BY HeadTailProperties DEF Channels
<1> QED  BY <1>1 DEF ToB

LEMMA InitUploadWindow ==
  ASSUME NEW c, InitUpload(c)
  PROVE  SP!IInv'
BY DEF InitUpload, SP!IInv, SP!TypeOK, SP!WindowOrder, SP!NoStall, SP!CountIsRoom,
       SP!OpenWhenIdle, SP!BusyInRecv, SP!Phases, S!InitialCount

LEMMA WindowPreserved == Inv /\ [Next]_vars => SP!IInv'
<1> SUFFICES ASSUME Inv, [Next]_vars PROVE SP!IInv'
  OBVIOUS
<1> USE DEF Inv
<1>1. CASE OnGet
  <2>1. CASE InitUpload(Head(toB).hash)
    BY <2>1, InitUploadWindow
  <2>2. CASE IgnoreGet
    BY <2>2, PassPreservesWindow DEF IgnoreGet
  <2> QED  BY <1>1, <2>1, <2>2 DEF OnGet
<1>2. CASE OnAck
  <2>1. Head(toB).num \in 0..ChunkPackets
    BY <1>2, HeadOfToB DEF OnAck
  <2>2. CASE S!UponReceiveACK(Head(toB).num)
    BY <2>1, <2>2, SameAck, SenderAssumption, SP!AckPreservesInv
  <2> QED  BY <1>2, <2>2, PassPreservesWindow DEF OnAck
<1>3. CASE NoPacketAtB
  BY <1>3, PassPreservesWindow DEF NoPacketAtB
<1>4. CASE SendWindow
  BY <1>4, PassPreservesWindow DEF SendWindow, S!UploadPass
<1>5. CASE UploadPass
  BY <1>5, PassPreservesWindow DEF UploadPass, S!UploadPass
<1>6. CASE RestartB
  BY <1>6 DEF RestartB, SP!IInv, SP!TypeOK, SP!WindowOrder, SP!NoStall, SP!CountIsRoom,
              SP!OpenWhenIdle, SP!BusyInRecv, SP!Phases
<1>7. CASE OnData \/ OnIHave \/ NoPacketAtA \/ UserGet \/ NoInput \/ CheckTimeout \/ SendGet
           \/ Reap \/ DownloadPass \/ Lose \/ CrashA \/ Late \/ Tick \/ Over \/ UNCHANGED vars
  <2>1. UNCHANGED window
    BY <1>7 DEF OnData, OnIHave, NoPacketAtA, UserGet, NoInput, CheckTimeout, SendGet, Reap,
                DownloadPass, Lose, CrashA, Late, Tick, Pass, Over, vars, bvars
  <2> QED  BY <2>1, PassPreservesWindow
<1> QED  BY <1>1, <1>2, <1>3, <1>4, <1>5, <1>6, <1>7 DEF Next

-----------------------------------------------------------------------------
(* A's receive buffer                                                      *)

LEMMA HeadOfToA ==
  ASSUME Channels, toA # <<>>
  PROVE  /\ Head(toA) \in ToA /\ Tail(toA) \in Seq(ToA)
         /\ Head(toA).seq \in Seqs /\ Head(toA).payload \in Chunks
<1>1. Head(toA) \in ToA /\ Tail(toA) \in Seq(ToA)
  BY HeadTailProperties DEF Channels
<1> QED  BY <1>1 DEF ToA

\* The buffer of PeerPair is the one the lemmas of Receiver_proofs are about.
LEMMA SameData ==
  \A seq, payload :
    /\ R(None)!Accepted(seq) => RP!Accepted(seq)
    /\ R(None)!InOrder(seq, payload) => RP!InOrder(seq, payload)
    /\ R(None)!Ahead(seq, payload) => RP!Ahead(seq, payload)
    /\ R(None)!Behind(seq, payload) => RP!Behind(seq, payload)
BY DEF R!Accepted, R!InOrder, R!Ahead, R!Behind, R!Stored, R!FirstGap, R!NextAfter, R!Counted,
       R!AckAhead, R!MinOf, R!Seqs,
       RP!Accepted, RP!InOrder, RP!Ahead, RP!Behind, RP!Stored, RP!FirstGap, RP!NextAfter,
       RP!Counted, RP!AckAhead, RP!MinOf, RP!Seqs

LEMMA QuietBuffer ==
  ASSUME RP!IInv, acks' = {} \/ acks' = acks, UNCHANGED buffer
  PROVE  RP!IInv'
BY DEF buffer, RP!IInv, RP!TypeOK, RP!Seqs, RP!Phases, RP!NextIsFirstGap, RP!BytesMatchNPE,
       RP!BufferedInWindow, RP!AcksBelowNPE

LEMMA NoBufferSound ==
  ASSUME NoBuffer, acks' = {}
  PROVE  RP!IInv'
BY DEF NoBuffer, RP!IInv, RP!TypeOK, RP!Seqs, RP!Phases, RP!NextIsFirstGap, RP!BytesMatchNPE,
       RP!BufferedInWindow, RP!AcksBelowNPE

LEMMA DataBuffer ==
  ASSUME RP!IInv, Channels, toA # <<>>, NEW p, p = Head(toA),
         \/ R(None)!Outside(p.seq)
         \/ /\ R(None)!Accepted(p.seq)
            /\ \/ R(None)!InOrder(p.seq, p.payload)
               \/ R(None)!Ahead(p.seq, p.payload)
               \/ R(None)!Behind(p.seq, p.payload)
  PROVE  RP!IInv'
<1>1. p.seq \in RP!Seqs /\ p.payload \in Chunks /\ RP!ReceiverAssumption
  BY HeadOfToA, ReceiverAssumption DEF RP!Seqs
<1>2. "recv" \in RP!Phases
  BY DEF RP!Phases
<1>3. CASE R(None)!Outside(p.seq)
  BY <1>3, QuietBuffer DEF R!Outside, buffer
<1>4. CASE R(None)!Accepted(p.seq) /\ R(None)!InOrder(p.seq, p.payload)
  BY <1>1, <1>2, <1>4, SameData, RP!InOrderPreserves
<1>5. CASE R(None)!Accepted(p.seq) /\ R(None)!Ahead(p.seq, p.payload)
  BY <1>1, <1>2, <1>5, SameData, RP!AheadPreserves
<1>6. CASE R(None)!Accepted(p.seq) /\ R(None)!Behind(p.seq, p.payload)
  BY <1>1, <1>2, <1>6, SameData, RP!BehindPreserves
<1> QED  BY <1>3, <1>4, <1>5, <1>6

LEMMA BufferPreserved == Inv /\ [Next]_vars => Buffer'
<1> SUFFICES ASSUME Inv, [Next]_vars PROVE Buffer'
  OBVIOUS
<1> USE DEF Inv, Buffer, EmptyWhenIdle, AcksGone
<1>1. CASE OnData
  <2>1. CASE asked = None /\ downloading = None /\ UNCHANGED <<conn, buffer, acks, toB>>
    BY <1>1, <2>1, QuietBuffer DEF OnData, conn, buffer
  <2>2. CASE /\ asked # None \/ downloading # None
             /\ downloading' = IF downloading # None THEN downloading ELSE asked
             /\ LET p == Head(toA)
                IN  \/ R(None)!Outside(p.seq)
                    \/ /\ R(None)!Accepted(p.seq)
                       /\ \/ R(None)!InOrder(p.seq, p.payload)
                          \/ R(None)!Ahead(p.seq, p.payload)
                          \/ R(None)!Behind(p.seq, p.payload)
    <3>1. RP!IInv'
      BY <1>1, <2>2, DataBuffer DEF OnData
    <3> QED  BY <1>1, <2>2, <3>1 DEF OnData
  <2> QED  BY <1>1, <2>1, <2>2 DEF OnData
<1>2. CASE OnIHave \/ NoPacketAtA
  BY <1>2, QuietBuffer DEF OnIHave, NoPacketAtA, Rested, conn, buffer
<1>3. CASE UserGet
  BY <1>3, NoBufferSound DEF UserGet, NoBuffer
<1>4. CASE NoInput
  BY <1>4, QuietBuffer DEF NoInput, conn, buffer
<1>5. CASE CheckTimeout
  BY <1>5, QuietBuffer DEF CheckTimeout, buffer
<1>6. CASE SendGet
  BY <1>6, QuietBuffer DEF SendGet, conn, buffer
<1>7. CASE Reap
  BY <1>7, NoBufferSound DEF Reap, NoBuffer
<1>8. CASE DownloadPass
  <2>1. CASE NoBuffer
    BY <1>8, <2>1, NoBufferSound DEF DownloadPass, NoBuffer
  <2>2. CASE UNCHANGED <<downloading, buffer>>
    BY <1>8, <2>2, QuietBuffer DEF DownloadPass, buffer
  <2> QED  BY <1>8, <2>1, <2>2 DEF DownloadPass
<1>9. CASE OnGet \/ OnAck \/ NoPacketAtB \/ SendWindow \/ UploadPass \/ Lose \/ RestartB
           \/ CrashA \/ Late \/ Tick \/ Over \/ UNCHANGED vars
  <2>1. UNCHANGED <<buffer, acks, downloading, aphase>>
    BY <1>9 DEF OnGet, OnAck, NoPacketAtB, SendWindow, UploadPass, Lose, RestartB, CrashA,
                Late, Tick, Pass, Over, vars, avars, conn
  <2> QED  BY <2>1, QuietBuffer DEF buffer
<1> QED  BY <1>1, <1>2, <1>3, <1>4, <1>5, <1>6, <1>7, <1>8, <1>9 DEF Next

-----------------------------------------------------------------------------
(* The channels                                                            *)

\* The ACKs of a step are for packets of the chunk.
LEMMA AckSeqType ==
  ASSUME NEW a \in 0..ChunkPackets, NEW b \in Int, b <= ChunkPackets
  PROVE  AckSeq(a..b) \in Seq(ToB)
<1> DEFINE least == CHOOSE n \in a..b : \A k \in a..b : n <= k
           size  == Cardinality(a..b)
<1>1. size = IF a > b THEN 0 ELSE b - a + 1
  BY FS_Interval
<1>2. a <= b => least = a
  <2>1. ASSUME a <= b, NEW n \in a..b, \A k \in a..b : n <= k PROVE n = a
    <3>1. a \in a..b  BY <2>1
    <3> QED  BY <2>1, <3>1
  <2>2. a <= b => a \in a..b /\ \A k \in a..b : a <= k
    OBVIOUS
  <2> QED  BY <2>1, <2>2
<1>3. AckSeq(a..b) = [i \in 1..size |-> Ack(least + i - 1)]
  BY DEF AckSeq
<1>4. size \in Nat
  BY <1>1
<1> HIDE DEF least, size
<1>5. ASSUME NEW i \in 1..size PROVE Ack(least + i - 1) \in ToB
  <2>1. a <= b /\ least = a /\ i <= b - a + 1
    BY <1>1, <1>2
  <2>2. a + i - 1 \in 0..ChunkPackets
    BY <2>1
  <2> QED  BY <2>1, <2>2 DEF Ack, ToB
<1> DEFINE ack(i) == Ack(least + i - 1)
<1>6. [i \in 1..size |-> ack(i)] \in [1..size -> ToB]
  BY <1>5
<1> QED  BY <1>3, <1>4, <1>6, SeqDef

\* The ACKs of a step are an interval.
LEMMA AcksInterval ==
  ASSUME Inv, toA # <<>>, NEW p, p = Head(toA),
         \/ R(None)!Outside(p.seq)
         \/ /\ R(None)!Accepted(p.seq)
            /\ \/ R(None)!InOrder(p.seq, p.payload)
               \/ R(None)!Ahead(p.seq, p.payload)
               \/ R(None)!Behind(p.seq, p.payload)
  PROVE  \E a \in 0..ChunkPackets, b \in Int : b <= ChunkPackets /\ acks' = a..b
<1>1. p.seq \in Seqs /\ NPE \in 1..(ChunkPackets + 1)
  BY HeadOfToA DEF Inv, Buffer, RP!IInv, RP!TypeOK
<1>2. CASE R(None)!Outside(p.seq)
  <2>1. acks' = 1..0
    BY <1>2 DEF R!Outside
  <2>2. 1 \in 0..ChunkPackets /\ 0 \in Int /\ 0 <= ChunkPackets
    OBVIOUS
  <2> QED  BY <2>1, <2>2, Zenon
<1>3. CASE R(None)!InOrder(p.seq, p.payload)
  <2>1. PICK n \in (p.seq + 1)..(ChunkPackets + 1) : acks' = p.seq..(n - 1)
    BY <1>3 DEF R!InOrder
  <2>2. n - 1 \in Int /\ n - 1 <= ChunkPackets /\ p.seq \in 0..ChunkPackets
    BY <1>1
  <2> QED  BY <2>1, <2>2
<1>4. CASE R(None)!Ahead(p.seq, p.payload)
  <2>1. acks' = (NPE - 1)..(NPE - 1)
    BY <1>1, <1>4 DEF R!Ahead, R!AckAhead
  <2> QED  BY <1>1, <2>1
<1>5. CASE R(None)!Behind(p.seq, p.payload)
  <2>1. acks' = p.seq..p.seq
    BY <1>1, <1>5 DEF R!Behind
  <2> QED  BY <1>1, <2>1
<1> QED  BY <1>2, <1>3, <1>4, <1>5

LEMMA WindowToA ==
  ASSUME Inv, S!WindowSender
  PROVE  [i \in 1..(LPS' - LPS) |-> Data(LPS + i, up)] \in Seq(ToA)
<1>1. LPS' - LPS \in Nat /\ LPS \in Nat /\ LPS' <= ChunkPackets
  BY DEF S!WindowSender, S!Sendable, S!MinOf, S!MaxOf, Inv, SP!IInv, SP!TypeOK, SP!WindowOrder
<1>2. LPS' \in Int
  BY <1>1 DEF S!WindowSender, S!Sendable, S!MinOf, S!MaxOf, Inv, SP!IInv, SP!TypeOK
<1>3. up \in Chunks
  BY DEF S!WindowSender, Inv, Uploads, UploadOpen
<1>4. \A l, m \in Int : l >= 0 /\ m <= ChunkPackets => \A i \in 1..(m - l) : l + i \in Seqs
  OBVIOUS
<1>5. \A i \in 1..(LPS' - LPS) : Data(LPS + i, up) \in ToA
  <2>1. \A i \in 1..(LPS' - LPS) : LPS + i \in Seqs
    <3>1. LPS \in Int /\ LPS >= 0  BY <1>1
    <3> QED  BY <1>1, <1>2, <1>4, <3>1, Zenon
  <2> QED  BY <1>3, <2>1 DEF Data, ToA
<1> QED  BY <1>1, <1>5, SeqDef

LEMMA ChannelsPreserved == Inv /\ [Next]_vars => Channels'
<1> SUFFICES ASSUME Inv, [Next]_vars PROVE Channels'
  OBVIOUS
<1>0. Channels
  BY DEF Inv
<1>1. CASE OnGet \/ OnAck
  BY <1>0, <1>1, HeadOfToB DEF OnGet, OnAck, Channels
<1>2. CASE SendWindow
  <2>1. CASE S!WindowSender
    <3>1. toA \o [i \in 1..(LPS' - LPS) |-> Data(LPS + i, up)] \in Seq(ToA)
      BY <1>0, <2>1, WindowToA, ConcatProperties DEF Channels
    <3>2. UNCHANGED toB /\ (S!WindowSender \/ UNCHANGED toA)
      BY <1>2 DEF SendWindow
    <3>3. toA' \in {toA, toA \o [i \in 1..(LPS' - LPS) |-> Data(LPS + i, up)]}
      BY <1>2 DEF SendWindow
    <3> QED  BY <1>0, <3>1, <3>2, <3>3 DEF Channels
  <2>2. CASE UNCHANGED toA
    BY <1>0, <1>2, <2>2 DEF SendWindow, Channels
  <2> QED  BY <1>2, <2>1, <2>2 DEF SendWindow
<1>3. CASE OnData
  <2>1. toA' \in Seq(ToA)
    BY <1>0, <1>3, HeadOfToA DEF OnData
  <2>2. CASE UNCHANGED toB
    BY <1>0, <2>1, <2>2 DEF Channels
  <2>3. CASE /\ LET p == Head(toA)
                IN  \/ R(None)!Outside(p.seq)
                    \/ /\ R(None)!Accepted(p.seq)
                       /\ \/ R(None)!InOrder(p.seq, p.payload)
                          \/ R(None)!Ahead(p.seq, p.payload)
                          \/ R(None)!Behind(p.seq, p.payload)
             /\ toB' = toB \o AckSeq(acks')
    <3>1. PICK a \in 0..ChunkPackets, b \in Int : b <= ChunkPackets /\ acks' = a..b
      BY <1>3, <2>3, AcksInterval DEF OnData
    <3>2. AckSeq(a..b) \in Seq(ToB)
      BY <3>1, AckSeqType
    <3>3. toB' = toB \o AckSeq(a..b)
      BY <2>3, <3>1
    <3>4. toB' \in Seq(ToB)
      BY <1>0, <3>2, <3>3, ConcatProperties DEF Channels
    <3> QED  BY <2>1, <3>4 DEF Channels
  <2> QED  BY <1>3, <2>2, <2>3 DEF OnData
<1>4. CASE SendGet
  <2>1. ASSUME NEW c \in queue, toB' = Append(toB, Get(c)) PROVE toB' \in Seq(ToB)
    <3>1. Get(c) \in ToB
      BY DEF Get, ToB, Inv, Lists
    <3> QED  BY <1>0, <2>1, <3>1 DEF Channels
  <2>2. toA' = toA
    BY <1>4 DEF SendGet
  <2>3. toB' = toB \/ \E c \in queue : toB' = Append(toB, Get(c))
    BY <1>4 DEF SendGet
  <2> QED  BY <1>0, <2>1, <2>2, <2>3 DEF Channels
<1>5. CASE Lose
  BY <1>0, <1>5, HeadOfToA, HeadOfToB DEF Lose, Channels
<1>6. CASE CrashA
  BY <1>0, <1>6, EmptySeq DEF CrashA, Channels
<1>7. CASE NoPacketAtB \/ UploadPass \/ OnIHave \/ NoPacketAtA \/ UserGet \/ NoInput
           \/ CheckTimeout \/ Reap \/ DownloadPass \/ RestartB \/ Late \/ Tick \/ Over
           \/ UNCHANGED vars
  BY <1>0, <1>7 DEF NoPacketAtB, UploadPass, OnIHave, NoPacketAtA, UserGet, NoInput, CheckTimeout,
                    Reap, DownloadPass, RestartB, Late, Tick, Pass, Over, vars, Channels
<1> QED  BY <1>1, <1>2, <1>3, <1>4, <1>5, <1>6, <1>7 DEF Next

-----------------------------------------------------------------------------
(* The connections of both peers, the timers and the rest                  *)

LEMMA UploadsPreserved == Inv /\ [Next]_vars => Uploads'
<1> SUFFICES ASSUME Inv, [Next]_vars PROVE Uploads'
  OBVIOUS
<1> USE DEF Inv, Uploads, UploadOpen
<1>1. CASE OnGet
  BY <1>1, HeadOfToB
  DEF OnGet, InitUpload, IgnoreGet, S!NoAck, window
<1>2. CASE OnAck
  BY <1>2 DEF OnAck, S!UponReceiveACK, window
<1>3. CASE NoPacketAtB
  BY <1>3 DEF NoPacketAtB, UploadWork
<1>4. CASE SendWindow
  BY <1>4 DEF SendWindow, S!WindowSender, S!NothingToSend
<1>5. CASE UploadPass
  BY <1>5 DEF UploadPass, LastAfterAbort, S!FinishUpload, S!AbortUpload, S!CheckDatapackTimeout,
              S!NoTimeout
<1>6. CASE RestartB
  BY <1>6 DEF RestartB
<1>7. CASE OnData \/ OnIHave \/ NoPacketAtA \/ UserGet \/ NoInput \/ CheckTimeout \/ SendGet
           \/ Reap \/ DownloadPass \/ Lose \/ CrashA \/ Late \/ Tick \/ Over \/ UNCHANGED vars
  BY <1>7 DEF OnData, OnIHave, NoPacketAtA, UserGet, NoInput, CheckTimeout, SendGet, Reap,
              DownloadPass, Lose, CrashA, Late, Tick, Pass, Over, vars, bvars, window
<1> QED  BY <1>1, <1>2, <1>3, <1>4, <1>5, <1>6, <1>7 DEF Next

LEMMA ListsPreserved == Inv /\ [Next]_vars => Lists'
<1> SUFFICES ASSUME Inv, [Next]_vars PROVE Lists'
  OBVIOUS
<1> USE DEF Inv, Lists
<1>1. CASE OnData
  BY <1>1 DEF OnData, used, conn
<1>2. CASE OnIHave
  BY <1>2 DEF OnIHave, used, conn
<1>3. CASE UserGet
  BY <1>3 DEF UserGet, Rest
<1>4. CASE CheckTimeout
  BY <1>4 DEF CheckTimeout, used
<1>5. CASE SendGet
  BY <1>5 DEF SendGet, NoConn, used, conn
<1>6. CASE Reap
  BY <1>6 DEF Reap, used
<1>7. CASE DownloadPass
  BY <1>7 DEF DownloadPass, used
<1>8. CASE OnGet \/ OnAck \/ NoPacketAtB \/ SendWindow \/ UploadPass \/ NoPacketAtA \/ NoInput
           \/ Lose \/ RestartB \/ CrashA \/ Late \/ Tick \/ Over \/ UNCHANGED vars
  BY <1>8 DEF OnGet, OnAck, NoPacketAtB, SendWindow, UploadPass, NoPacketAtA, NoInput, Lose,
              RestartB, CrashA, Late, Tick, Pass, Over, vars, avars, used, conn
<1> QED  BY <1>1, <1>2, <1>3, <1>4, <1>5, <1>6, <1>7, <1>8 DEF Next

\* Time stops at a timeout: no timer goes on that has fired and not been served.
LEMMA PassTimers ==
  ASSUME Inv, NEW d \in Nat, Pass(d),
         UploadOpen => sinceAck + d <= AckLimit + 1, Asking => sinceData + d <= RecvLimit + 1
  PROVE  Timers'
<1>1. sinceAck' \in 0..AckLimit + 1 /\ sinceData' \in 0..RecvLimit + 1
  BY DEF Pass, Inv, Timers
<1>2. \A i \in Seqs : S!MinOf(sinceSent[i] + d, DataLimit + 1) \in 0..DataLimit + 1
  BY DEF S!MinOf, Inv, Timers
<1>3. sinceSent' \in [Seqs -> 0..DataLimit + 1]
  BY <1>2 DEF Pass
<1> QED  BY <1>1, <1>3 DEF Timers

LEMMA TickTimers ==
  ASSUME Inv, Tick
  PROVE  Timers'
<1>1. UploadOpen => sinceAck + 1 <= AckLimit + 1
  BY DEF Tick, Quiet, Idle, UploadWork, AckDue, Inv, Timers
<1>2. Asking => sinceData + 1 <= RecvLimit + 1
  BY DEF Tick, Quiet, Idle, Asking, NoConn, DownloadWork, GetDue, DownloadDue, Inv, Timers
<1> QED  BY <1>1, <1>2, PassTimers DEF Tick

\* A delay ends when the first timer expires.
LEMMA LateTimers ==
  ASSUME Inv, Late
  PROVE  Timers'
<1>1. PICK d \in TimeLeft : (\A e \in TimeLeft : d <= e) /\ Pass(d)
  BY DEF Late
<1>2. UploadOpen => AckLimit + 1 - sinceAck \in TimeLeft /\ sinceAck <= AckLimit
  BY DEF TimeLeft, Late, Idle, UploadWork, AckDue, Inv, Timers
<1>3. Asking => RecvLimit + 1 - sinceData \in TimeLeft /\ sinceData <= RecvLimit
  BY DEF TimeLeft, Late, Idle, Asking, NoConn, DownloadWork, GetDue, DownloadDue, Inv, Timers
<1>4. UploadOpen /\ LPA < LPS /\ S!TimeoutApplies => sinceSent[LPA + 1] <= DataLimit
  <2>1. LPA < LPS => LPA + 1 \in Seqs
    BY WindowTypes DEF Inv
  <2>2. ASSUME UploadOpen, LPA < LPS, S!TimeoutApplies
        PROVE  ~(sinceSent[LPA + 1] > DataLimit)
    BY <2>2 DEF Late, Idle, UploadWork, DataDue
  <2> QED  BY <2>1, <2>2 DEF Inv, Timers
<1>5. d \in Nat
  BY <1>1, <1>2, <1>3, <1>4, WindowTypes DEF TimeLeft, Inv, Timers
<1>6. UploadOpen => sinceAck + d <= AckLimit + 1
  BY <1>1, <1>2, <1>5 DEF Inv, Timers
<1>7. Asking => sinceData + d <= RecvLimit + 1
  BY <1>1, <1>3, <1>5 DEF Inv, Timers
<1> QED  BY <1>1, <1>5, <1>6, <1>7, PassTimers

LEMMA TimersPreserved == Inv /\ [Next]_vars => Timers'
<1> SUFFICES ASSUME Inv, [Next]_vars PROVE Timers'
  OBVIOUS
<1> USE DEF Inv, Timers
<1>1. CASE OnGet
  BY <1>1 DEF OnGet, InitUpload, IgnoreGet, avars, conn
<1>2. CASE OnAck
  BY <1>2 DEF OnAck, avars, conn
<1>3. CASE SendWindow
  BY <1>3 DEF SendWindow, AckAgeAfterSend, avars, conn
<1>4. CASE OnData \/ OnIHave \/ UserGet \/ CheckTimeout \/ SendGet \/ Reap \/ DownloadPass
  BY <1>4 DEF OnData, OnIHave, UserGet, CheckTimeout, SendGet, Reap, DownloadPass, bvars, conn
<1>5. CASE Tick \/ Late
  BY <1>5, TickTimers, LateTimers
<1>6. CASE NoPacketAtB \/ UploadPass \/ NoPacketAtA \/ NoInput \/ Lose \/ RestartB \/ CrashA
           \/ Over \/ UNCHANGED vars
  BY <1>6 DEF NoPacketAtB, UploadPass, NoPacketAtA, NoInput, Lose, RestartB, CrashA, Over, vars,
              avars, bvars, conn
<1> QED  BY <1>1, <1>2, <1>3, <1>4, <1>5, <1>6 DEF Next

LEMMA RestPreserved == Inv /\ [Next]_vars => Rest'
<1> SUFFICES ASSUME Inv, [Next]_vars PROVE Rest'
  OBVIOUS
<1> USE DEF Inv, Rest, Fault
<1>1. CASE OnGet
  BY <1>1, HeadOfToB DEF OnGet, InitUpload, IgnoreGet, avars
<1>2. CASE UserGet
  BY <1>2 DEF UserGet
<1>3. CASE Lose \/ RestartB \/ CrashA
  <2>1. faults' \in 0..MaxFaults /\ UNCHANGED <<aphase, gets, unread>>
    BY <1>3 DEF Lose, RestartB, CrashA, avars
  <2>2. alive' \in BOOLEAN
    BY <1>3, Zenon DEF Lose, RestartB, CrashA, avars
  <2> QED  BY <2>1, <2>2
<1>4. CASE OnData \/ OnIHave \/ NoPacketAtA \/ NoInput \/ CheckTimeout \/ SendGet \/ Reap
           \/ DownloadPass
  BY <1>4 DEF OnData, OnIHave, NoPacketAtA, NoInput, CheckTimeout, SendGet, Reap, DownloadPass,
              used
<1>5. CASE OnAck \/ NoPacketAtB \/ SendWindow \/ UploadPass \/ Tick \/ Over \/ UNCHANGED vars
  BY <1>5 DEF OnAck, NoPacketAtB, SendWindow, UploadPass, Tick, Pass, Over, vars, avars, used
<1>6. CASE Late
  BY <1>6 DEF Late, Pass
<1> QED  BY <1>1, <1>2, <1>3, <1>4, <1>5, <1>6 DEF Next

LEMMA InvStep == Inv /\ [Next]_vars => Inv'
BY WindowPreserved, BufferPreserved, ChannelsPreserved, UploadsPreserved, ListsPreserved,
   TimersPreserved, RestPreserved DEF Inv

LEMMA Invariance == Spec => []Inv
BY InitInv, InvStep, PTL DEF Spec

\* Every variable of the two peers and the channels stays in its range, through any number of
\* transfers, faults and restarts: no sequence number leaves a buffer, no chunk that was not asked
\* for is sent, and no timer goes on after it has fired.
THEOREM TypeCorrect == Spec => []TypeOK
<1>1. Inv => TypeOK
  BY DEF Inv, TypeOK, Buffer, Channels, ToA, ToB, Uploads, Lists, Timers, Rest, SP!IInv,
         SP!TypeOK, S!TypeOK, S!Phases, SP!Phases, RP!IInv, RP!TypeOK, RP!Seqs
<1> QED  BY Invariance, <1>1, PTL

\* The two ends of a transfer, as in SenderWindow and Receiver.
EndsSound ==
  /\ S!WindowOrder /\ S!NoStall
  /\ R(None)!NextIsFirstGap /\ R(None)!BytesMatchNPE

\* What holds of one upload and one download (WindowOrder, NoStall; NextIsFirstGap,
\* BytesMatchNPE) holds of the two ends in every transfer of a sequence of them, although
\* packets of earlier ones arrive (dealwithincomepack knows a packet by its sender only).
THEOREM EndsStaySound == Spec => []EndsSound
<1>1. Inv => EndsSound
  BY DEF Inv, Buffer, EndsSound, SP!IInv, SP!WindowOrder, SP!NoStall, S!WindowOrder, S!NoStall,
         RP!IInv, RP!NextIsFirstGap, RP!BytesMatchNPE, R!NextIsFirstGap, R!BytesMatchNPE
<1> QED  BY Invariance, <1>1, PTL

-----------------------------------------------------------------------------
(* A is a download manager: the refinement of module Downloads             *)

\* The counters of the download manager as functions of A's state.
MRunning == IF NoConn THEN 0 ELSE 1
MMax     == IF gets # 0 /\ need = {} /\ Chunks # {} THEN 0 ELSE 1
MNeed    == IF gets = 0 THEN 0 ELSE Cardinality(Chunks)
MFound   == IF gets = 0 THEN 0
            ELSE Cardinality(To(queue \cup {asked, downloading})) + Cardinality(Chunks \ need)

NodeB(c) == [hash |-> c, from |-> "B"]

LEMMA ToNodes ==
  ASSUME NEW cs
  PROVE  /\ \A c : NodeB(c) \in To(cs) <=> c \in cs /\ c # None
         /\ \A e \in To(cs) : e.from = "B" /\ e.hash \in cs /\ e.hash # None /\ e = NodeB(e.hash)
<1>1. ASSUME NEW e \in To(cs)
      PROVE  e.from = "B" /\ e.hash \in cs /\ e.hash # None /\ e = NodeB(e.hash)
  BY DEF To, NodeB
<1>2. ASSUME NEW c PROVE NodeB(c).hash = c
  BY DEF NodeB
<1>3. ASSUME NEW c, c \in cs, c # None PROVE NodeB(c) \in To(cs)
  BY <1>3 DEF To, NodeB
<1> QED  BY <1>1, <1>2, <1>3

LEMMA ToEmpty == To({}) = {} /\ To({None}) = {}
BY DEF To

LEMMA ToOne == \A c : c # None => To({c}) = {NodeB(c)}
BY DEF To, NodeB

\* To is one to one: as many nodes as chunks.
LEMMA ToSize ==
  ASSUME NEW cs \in SUBSET (Chunks \cup {None})
  PROVE  /\ IsFiniteSet(To(cs)) /\ IsFiniteSet(cs \ {None})
         /\ Cardinality(To(cs)) = Cardinality(cs \ {None})
         /\ Cardinality(To(cs)) \in Nat
<1> DEFINE D == cs \ {None}
           f == [c \in D |-> NodeB(c)]
<1>1. IsFiniteSet(D)
  <2>1. D \subseteq Chunks  OBVIOUS
  <2> QED  BY <2>1, FS_Subset
<1>2. f \in Bijection(D, To(cs))
  <2>1. f \in [D -> To(cs)]
    BY DEF To, NodeB
  <2>2. \A a, b \in D : f[a] = f[b] => a = b
    BY DEF NodeB
  <2>3. \A e \in To(cs) : \E c \in D : f[c] = e
    BY DEF To, NodeB
  <2> QED  BY <2>1, <2>2, <2>3, Fun_IsBij
<1> QED  BY <1>1, <1>2, FS_Bijection, FS_CardinalityType DEF ExistsBijection

LEMMA DisjointSize ==
  ASSUME NEW A, NEW B, IsFiniteSet(A), IsFiniteSet(B), A \cap B = {}
  PROVE  Cardinality(A \cup B) = Cardinality(A) + Cardinality(B)
<1>1. Cardinality(A \cup B) = Cardinality(A) + Cardinality(B) - Cardinality(A \cap B)
  BY FS_Union
<1>2. Cardinality(A \cap B) = 0
  BY FS_EmptySet
<1>3. Cardinality(A) \in Nat /\ Cardinality(B) \in Nat
  BY FS_CardinalityType
<1>4. \A x, y, z \in Int : z = 0 => x + y - z = x + y
  OBVIOUS
<1> QED  BY <1>1, <1>2, <1>3, <1>4

\* Chunks that join a list of A's.
LEMMA ToJoins ==
  ASSUME NEW cs \in SUBSET (Chunks \cup {None}), NEW new \in SUBSET Chunks, cs \cap new = {}
  PROVE  /\ Cardinality(To(cs \cup new)) = Cardinality(To(cs)) + Cardinality(new)
         /\ Cardinality(To(cs)) \in Nat /\ Cardinality(new) \in Nat
<1>1. (cs \cup new) \ {None} = (cs \ {None}) \cup new
  OBVIOUS
<1>2. /\ IsFiniteSet(cs \ {None}) /\ Cardinality(To(cs)) = Cardinality(cs \ {None})
      /\ Cardinality(To(cs)) \in Nat
  BY ToSize
<1>3. Cardinality(To(cs \cup new)) = Cardinality((cs \ {None}) \cup new)
  <2>1. cs \cup new \in SUBSET (Chunks \cup {None})
    OBVIOUS
  <2> QED  BY <1>1, <2>1, ToSize
<1>4. IsFiniteSet(new) /\ Cardinality(new) \in Nat
  BY FS_Subset, FS_CardinalityType
<1>5. Cardinality((cs \ {None}) \cup new) = Cardinality(cs \ {None}) + Cardinality(new)
  <2>1. (cs \ {None}) \cap new = {}
    OBVIOUS
  <2> QED  BY <1>2, <1>4, <2>1, DisjointSize
<1> QED  BY <1>2, <1>3, <1>4, <1>5

LEMMA ManagerInit == Init => Manager!Init
<1> SUFFICES ASSUME Init PROVE Manager!Init
  OBVIOUS
<1>1. Once({}) = Manager!NoNeed
  BY DEF Once, Manager!NoNeed
<1>2. [c \in Chunks |-> Filled(c)] = [h \in Chunks |-> "none"]
  BY DEF Init, Filled
<1> QED  BY <1>1, <1>2, ToEmpty DEF Init, Manager!Init, NoConn

\* A step of B, of time or of the channels does not concern the manager.
LEMMA ManagerStutters ==
  ASSUME UNCHANGED <<need, queue, asked, downloading, buffer, written, whohas, aphase, gets>>
  PROVE  UNCHANGED Manager!vars
BY DEF Manager!vars, Once, To, Filled, NoConn, buffer, R!Complete, R!HashMatches

\* find_node and find_node_by_addr on A's lists.
LEMMA ManagerFinds ==
  ASSUME NEW cs
  PROVE  /\ \A h : Manager!HasHash(To(cs), h) <=> h \in cs /\ h # None
         /\ Manager!HasPeer(To(cs), "B") <=> \E c \in cs : c # None
         /\ \A h : NodeB(h).hash = h /\ NodeB(h).from = "B"
<1>1. \A h : NodeB(h).hash = h /\ NodeB(h).from = "B"
  BY DEF NodeB
<1>2. ASSUME NEW h PROVE Manager!HasHash(To(cs), h) <=> h \in cs /\ h # None
  BY <1>1, ToNodes DEF Manager!HasHash
<1>3. Manager!HasPeer(To(cs), "B") <=> \E c \in cs : c # None
  BY <1>1, ToNodes DEF Manager!HasPeer
<1> QED  BY <1>1, <1>2, <1>3

LEMMA ManagerBusy == Manager!Busy("B") <=> ~NoConn
BY ManagerFinds DEF Manager!Busy, NoConn

\* The copy of FiniteSets in the instance.
LEMMA ManagerCardinality == \A cs : Manager!Cardinality(cs) = Cardinality(cs)
BY DEF Manager!Cardinality, Cardinality

\* Length and howmany_found for a list that has each hash once.
LEMMA ManagerLength ==
  ASSUME NEW cs \in SUBSET Chunks
  PROVE  Manager!Length(Once(cs)) = Cardinality(cs)
<1>1. Manager!Entries(Once(cs)) = cs \X (1..1)
  BY DEF Manager!Entries, Once
<1>2. Cardinality(1..1) = 1 /\ IsFiniteSet(1..1)
  <2>1. 1..1 = {1}  OBVIOUS
  <2>2. Cardinality({1}) = 1 /\ IsFiniteSet({1})  BY FS_Singleton
  <2> QED  BY <2>1, <2>2, Zenon
<1>3. IsFiniteSet(cs) /\ Cardinality(cs) \in Nat
  BY FS_Subset, FS_CardinalityType
<1>4. Cardinality(cs \X (1..1)) = Cardinality(cs) * Cardinality(1..1)
  BY <1>2, <1>3, FS_Product
<1> QED  BY <1>1, <1>2, <1>3, <1>4, ManagerCardinality DEF Manager!Length

-----------------------------------------------------------------------------
(* "recv" and "input"                                                      *)

LEMMA NoPacketRefines == NoPacketAtA => Manager!NoDatagram
BY ManagerStutters DEF NoPacketAtA, Rested, Manager!NoDatagram, Manager!lists, Manager!nums,
   Once, To, Filled, NoConn, buffer, R!Complete, R!HashMatches, conn, used

LEMMA NoInputRefines == NoInput => Manager!NoInput
BY DEF NoInput, Manager!NoInput, Manager!lists, Manager!nums,
   Once, To, Filled, NoConn, buffer, R!Complete, R!HashMatches, conn, used

\* fill_toget_list: all that was asked for and is needed and not under way is queued; nothing is
\* moved, for there is no other peer.
LEMMA IHaveRefines == Inv /\ OnIHave => Manager!IHave("B", whohas)
<1> SUFFICES ASSUME Inv, OnIHave PROVE Manager!IHave("B", whohas)
  OBVIOUS
<1> DEFINE found == {c \in whohas \cap need : c # asked /\ c # downloading}
           new   == {h \in Manager!Wanted(whohas) : ~Manager!HasHash(To(queue), h)}
           moved == {h \in Manager!Wanted(whohas) :
                       \E c \in To(queue) : c.hash = h /\ c.from # "B" /\ Manager!Busy(c.from)}
<1>1. /\ aphase = "recv" /\ aphase' = "input" /\ whohas # {}
      /\ queue' = queue \cup found
      /\ UNCHANGED <<need, asked, downloading, buffer, written, whohas, gets>>
  BY DEF OnIHave, Rested, conn, used
<1>2. gets # 0 /\ whohas \subseteq Chunks /\ queue \subseteq Chunks /\ None \notin queue
  BY <1>1 DEF Inv, Lists
<1>3. Manager!Wanted(whohas) = found
  <2>1. \A h \in whohas : Once(need)[h] > 0 <=> h \in need
    BY <1>2 DEF Once
  <2>2. \A h \in whohas : h # None
    BY <1>2
  <2> QED  BY <2>1, <2>2, ManagerFinds DEF Manager!Wanted
<1>4. new = found \ queue
  BY <1>2, <1>3, ManagerFinds
<1>5. moved = {}
  BY ToNodes
<1>6. To(queue') = {c \in To(queue) : c.hash \notin moved}
                     \cup {[hash |-> h, from |-> "B"] : h \in new \cup moved}
  <2>1. To(queue \cup found) = To(queue) \cup {[hash |-> h, from |-> "B"] : h \in found \ queue}
    BY <1>2 DEF To
  <2> QED  BY <1>1, <1>4, <1>5, <2>1
<1>7. MFound' = MFound + Cardinality(new)
  <2> DEFINE cs == queue \cup {asked, downloading}
             m  == Cardinality(Chunks \ need)
  <2>1. queue' \cup {asked', downloading'} = cs \cup new
    BY <1>1, <1>4
  <2>2. cs \in SUBSET (Chunks \cup {None}) /\ new \in SUBSET Chunks /\ cs \cap new = {}
    BY <1>2, <1>4 DEF Inv, Lists
  <2>3. m \in Nat
    BY FS_Difference, FS_CardinalityType
  <2>4. /\ Cardinality(To(cs \cup new)) = Cardinality(To(cs)) + Cardinality(new)
        /\ Cardinality(To(cs)) \in Nat /\ Cardinality(new) \in Nat
    BY <2>2, ToJoins
  <2>5. MFound = Cardinality(To(cs)) + m
    BY <1>2 DEF MFound
  <2>6. MFound' = Cardinality(To(cs \cup new)) + m
    BY <1>1, <1>2, <2>1 DEF MFound
  <2> HIDE DEF new, cs, m
  <2> QED  BY <2>3, <2>4, <2>5, <2>6
<1>8. /\ UNCHANGED <<Once(need), To({asked}), To({downloading}), Once(written), whohas>>
      /\ [c \in Chunks |-> Filled(c)]' = [c \in Chunks |-> Filled(c)]
      /\ UNCHANGED <<MRunning, MMax, MNeed>>
  BY <1>1 DEF Once, To, Filled, R!Complete, R!HashMatches, buffer, MRunning, MMax, MNeed, NoConn
<1> HIDE DEF new, moved
<1> QED
  BY <1>1, <1>6, <1>7, <1>8, ManagerCardinality
  DEF Manager!IHave, new, moved, MRunning, MMax, MNeed, MFound

\* The first packet does not complete a chunk: it is more than one packet.
LEMMA FirstDataIsPart ==
  ASSUME Inv, OnData, downloading = None, asked # None
  PROVE  recv_bytesnum' # ChunkPackets
<1>1. NPE = 1 /\ recv_bytesnum = 0 /\ recv_buf = [i \in Seqs |-> None]
  BY DEF Inv, Buffer, EmptyWhenIdle
<1>2. PICK p \in ToA :
        \/ R(None)!Outside(p.seq)
        \/ R(None)!InOrder(p.seq, p.payload)
        \/ R(None)!Ahead(p.seq, p.payload)
        \/ R(None)!Behind(p.seq, p.payload)
  <2>1. Head(toA) \in ToA
    BY HeadOfToA DEF OnData, Inv
  <2> QED  BY <2>1 DEF OnData
<1>3. CASE R(None)!InOrder(p.seq, p.payload)
  <2>1. p.seq = 1 /\ recv_buf' = [recv_buf EXCEPT ![1] = p.payload]
    BY <1>1, <1>3 DEF R!InOrder, R!Stored
  <2>2. PICK n \in 2..(ChunkPackets + 1) :
          /\ \A i \in 1..(n - 1) : recv_buf'[i] # None
          /\ recv_bytesnum' = n - 1
    BY <1>1, <1>3, <2>1 DEF R!InOrder, R!FirstGap, R!Counted
  <2>3. 2 \in Seqs /\ recv_buf'[2] = None
    BY <1>1, <2>1
  <2>4. n = 2
    BY <2>2, <2>3
  <2> QED  BY <2>2, <2>4
<1>4. CASE R(None)!Outside(p.seq) \/ R(None)!Ahead(p.seq, p.payload)
           \/ R(None)!Behind(p.seq, p.payload)
  BY <1>1, <1>4 DEF R!Outside, R!Ahead, R!Behind
<1> QED  BY <1>2, <1>3, <1>4

\* dealwithincomepack: DATA of the download, the first DATA of a GET, or DATA of no connection.
LEMMA DataRefines ==
  Inv /\ OnData => Manager!Data("B") \/ Manager!FirstData("B") \/ Manager!NoDatagram
<1> SUFFICES ASSUME Inv, OnData
             PROVE  Manager!Data("B") \/ Manager!FirstData("B") \/ Manager!NoDatagram
  OBVIOUS
<1>1. /\ aphase = "recv" /\ aphase' = "input"
      /\ UNCHANGED <<need, queue, written, whohas, gets>>
  BY DEF OnData, Rested, used
<1>2. UNCHANGED <<Once(need), To(queue), Once(written), whohas, MMax, MNeed>>
  BY <1>1 DEF Once, To, MMax, MNeed
<1>3. asked = None \/ downloading = None
  BY DEF Inv, Lists
<1>4. CASE asked = None /\ downloading = None
  <2>1. UNCHANGED <<asked, downloading, buffer>>
    BY <1>4 DEF OnData, conn
  <2> QED
    BY <1>1, <2>1
    DEF Manager!NoDatagram, Manager!lists, Manager!nums, Once, To, Filled, NoConn, buffer,
        R!Complete, R!HashMatches
<1>5. CASE downloading # None
  <2> PICK d \in Chunks : d = downloading
    BY <1>5 DEF Inv, Lists
  <2>1. downloading' = d /\ downloading = d /\ asked' = asked
    BY <1>3, <1>5 DEF OnData, Inv, Lists
  <2>2. UNCHANGED <<To({asked}), To({downloading}), MRunning, MFound>>
    BY <1>1, <2>1 DEF To, MRunning, MFound, NoConn
  <2>3. NodeB(downloading) \in To({downloading}) /\ NodeB(downloading).from = "B"
        /\ NodeB(downloading).hash = downloading
    BY <1>5, ManagerFinds, ToNodes
  <2>4. Filled(d)' \in {"part", "good", "bad"}
    BY <2>1 DEF Filled
  <2>5. \A c \in Chunks : c # d => Filled(c) = "none" /\ Filled(c)' = "none"
    BY <2>1 DEF Filled
  <2>6. [c \in Chunks |-> Filled(c)]' = [[c \in Chunks |-> Filled(c)] EXCEPT ![d] = Filled(d)']
    BY <2>1, <2>5
  <2>7. Manager!Data("B")
    BY <1>1, <1>2, <2>1, <2>2, <2>3, <2>4, <2>6
    DEF Manager!Data, Manager!lists, Manager!nums, MRunning, MMax, MNeed, MFound
  <2> QED  BY <2>7
<1>6. CASE downloading = None /\ asked # None
  <2>1. downloading' = asked /\ asked' = None /\ asked \in Chunks
    BY <1>6 DEF OnData, Inv, Lists
  <2>2. UNCHANGED <<MRunning, MFound>>
    <3>1. queue' \cup {asked', downloading'} = queue \cup {asked, downloading}
      BY <1>1, <1>6, <2>1
    <3> QED  BY <1>1, <1>6, <2>1, <3>1 DEF MRunning, MFound, NoConn
  <2>3. /\ To({asked}) = {NodeB(asked)} /\ To({asked'}) = {}
        /\ To({downloading}) = {} /\ To({downloading'}) = {NodeB(asked)}
    BY <1>6, <2>1, ToEmpty, ToOne
  <2>4. NodeB(asked).from = "B" /\ NodeB(asked).hash = asked
    BY ManagerFinds
  <2>5. ~Manager!HasPeer(To({downloading}), "B")
    BY <1>6, ManagerFinds
  <2>6. [c \in Chunks |-> Filled(c)]' = [[c \in Chunks |-> Filled(c)] EXCEPT ![asked] = "part"]
    <3>1. recv_bytesnum' # ChunkPackets
      BY <1>6, FirstDataIsPart
    <3>2. \A c \in Chunks : Filled(c)' = IF c = asked THEN "part" ELSE "none"
      BY <2>1, <3>1 DEF Filled, R!Complete
    <3>3. \A c \in Chunks : Filled(c) = "none"
      BY <1>6 DEF Filled
    <3> QED  BY <3>2, <3>3
  <2>7. Manager!FirstData("B")
    BY <1>1, <1>2, <2>2, <2>3, <2>4, <2>5, <2>6
    DEF Manager!FirstData, Manager!nums, MRunning, MMax, MNeed, MFound
  <2> QED  BY <2>7
<1> QED  BY <1>4, <1>5, <1>6

\* reset_mydownload: the chunks of the user's list are needed, and nothing is under way.
LEMMA UserGetRefines == Inv /\ UserGet => Manager!UserGet(Once(Chunks))
<1> SUFFICES ASSUME Inv, UserGet PROVE Manager!UserGet(Once(Chunks))
  OBVIOUS
<1>1. /\ aphase = "input" /\ aphase' = "timeouts" /\ gets' # 0
      /\ need' = Chunks /\ queue' = {} /\ asked' = None /\ downloading' = None /\ written' = {}
      /\ whohas' = whohas
  BY DEF UserGet, Inv, Rest
<1>2. To(queue') = {} /\ To({asked'}) = {} /\ To({downloading'}) = {}
  BY <1>1, ToEmpty
<1>3. [c \in Chunks |-> Filled(c)]' = [h \in Chunks |-> "none"]
  <2>1. \A c \in Chunks : Filled(c)' = "none"
    BY <1>1 DEF Filled
  <2> QED  BY <2>1
<1>4. MRunning' = 0 /\ MMax' = 1
  BY <1>1 DEF MRunning, MMax, NoConn
<1>5. MFound' = 0
  <2>1. queue' \cup {asked', downloading'} = {None} /\ Chunks \ need' = {}
    BY <1>1
  <2>2. Cardinality({}) = 0
    BY FS_EmptySet
  <2> QED  BY <1>1, <2>1, <2>2, ToEmpty DEF MFound
<1>6. MNeed' = Manager!Length(Once(Chunks))
  BY <1>1, ManagerLength DEF MNeed
<1>7. Once(written)' = Manager!NoNeed /\ Once(need)' = Once(Chunks)
  BY <1>1 DEF Once, Manager!NoNeed
<1> QED
  BY <1>1, <1>2, <1>3, <1>4, <1>5, <1>6, <1>7, ManagerCardinality
  DEF Manager!UserGet, MRunning, MMax, MNeed, MFound

-----------------------------------------------------------------------------
(* "timeouts" and "gets"                                                   *)

LEMMA FoundType == Inv => MFound \in Nat
<1> SUFFICES ASSUME Inv PROVE MFound \in Nat
  OBVIOUS
<1>1. queue \cup {asked, downloading} \in SUBSET (Chunks \cup {None})
  BY DEF Inv, Lists
<1>2. Cardinality(To(queue \cup {asked, downloading})) \in Nat
  BY <1>1, ToSize
<1>3. Cardinality(Chunks \ need) \in Nat
  BY FS_Difference, FS_CardinalityType
<1> QED  BY <1>2, <1>3 DEF MFound

\* A connection that is given up leaves its chunk needed, and not found.
LEMMA FoundGivenUp ==
  ASSUME Inv, NEW c, c \in {asked, downloading}, c # None,
         UNCHANGED <<need, queue, gets>>, asked' = None, downloading' = None
  PROVE  MFound' = MFound - 1
<1> DEFINE cs == queue \cup {None}
           m  == Cardinality(Chunks \ need)
<1>1. c \in Chunks /\ gets # 0 /\ cs \in SUBSET (Chunks \cup {None}) /\ {c} \in SUBSET Chunks
      /\ cs \cap {c} = {}
  BY DEF Inv, Lists
<1>2. m \in Nat
  BY FS_Difference, FS_CardinalityType
<1>3. Cardinality({c}) = 1
  BY FS_Singleton
<1>4. Cardinality(To(cs \cup {c})) = Cardinality(To(cs)) + 1 /\ Cardinality(To(cs)) \in Nat
  BY <1>1, <1>3, ToJoins
<1>5. To(queue \cup {asked, downloading}) = To(cs \cup {c})
  BY DEF To, Inv, Lists
<1>6. MFound = Cardinality(To(cs \cup {c})) + m /\ MFound' = Cardinality(To(cs)) + m
  <2>1. queue' \cup {asked', downloading'} = cs
    OBVIOUS
  <2> QED  BY <1>1, <1>5, <2>1 DEF MFound
<1> HIDE DEF cs, m
<1> QED  BY <1>2, <1>4, <1>6

LEMMA CheckTimeoutRefines ==
  Inv /\ CheckTimeout => \E expired \in SUBSET To({asked}) : Manager!CheckTimeout(expired)
<1> SUFFICES ASSUME Inv, CheckTimeout
             PROVE  \E expired \in SUBSET To({asked}) : Manager!CheckTimeout(expired)
  OBVIOUS
<1>1. /\ aphase = "timeouts" /\ aphase' = "gets"
      /\ asked' = IF GetDue THEN None ELSE asked
      /\ UNCHANGED <<need, queue, downloading, buffer, written, whohas, gets>>
  BY DEF CheckTimeout, used
<1>2. /\ UNCHANGED <<Once(need), To(queue), To({downloading}), Once(written), whohas, MMax, MNeed>>
      /\ [c \in Chunks |-> Filled(c)]' = [c \in Chunks |-> Filled(c)]
  BY <1>1 DEF Once, To, MMax, MNeed, Filled, R!Complete, R!HashMatches, buffer
<1>3. MFound \in Nat /\ MRunning \in Nat
  BY FoundType DEF MRunning
<1>4. CASE ~GetDue
  <2>1. asked' = asked
    BY <1>1, <1>4
  <2>2. UNCHANGED <<To({asked}), MRunning, MFound>>
    BY <1>1, <2>1 DEF To, MRunning, MFound, NoConn
  <2>3. Cardinality({}) = 0
    BY FS_EmptySet
  <2>4. MRunning' = MRunning - Cardinality({}) /\ MFound' = MFound - Cardinality({})
    BY <1>3, <2>2, <2>3
  <2>5. Manager!CheckTimeout({})
    BY <1>1, <1>2, <2>2, <2>4, ManagerCardinality
    DEF Manager!CheckTimeout, Manager!FoundAfterDrop, MRunning, MMax, MNeed, MFound
  <2> QED  BY <2>5
<1>5. CASE GetDue
  <2>1. asked # None /\ asked' = None /\ downloading = None
    BY <1>1, <1>5 DEF GetDue, Inv, Lists
  <2>2. To({asked}) = {NodeB(asked)} /\ To({asked'}) = {}
    BY <2>1, ToEmpty, ToOne
  <2>3. Cardinality({NodeB(asked)}) = 1
    BY FS_Singleton
  <2>4. MFound' = MFound - 1
    BY <1>1, <2>1, FoundGivenUp
  <2>5. MRunning = 1 /\ MRunning' = 0
    BY <1>1, <2>1 DEF MRunning, NoConn
  <2>6. /\ MRunning' = MRunning - Cardinality({NodeB(asked)})
        /\ MFound' = MFound - Cardinality({NodeB(asked)})
    BY <2>3, <2>4, <2>5
  <2>7. Manager!CheckTimeout({NodeB(asked)})
    BY <1>1, <1>2, <2>2, <2>6, ManagerCardinality
    DEF Manager!CheckTimeout, Manager!FoundAfterDrop, MRunning, MMax, MNeed, MFound
  <2> QED  BY <2>2, <2>7
<1> QED  BY <1>4, <1>5

\* WhoHas_sender: with nothing queued and nothing under way it asks for exactly what is needed.
LEMMA AsksForNeed ==
  ASSUME Inv, queue = {}, NoConn
  PROVE  need = IF Manager!AskAgain THEN Manager!Unlisted ELSE {}
<1>1. Manager!Unlisted = need
  <2>1. \A h : ~Manager!HasHash(To(queue) \cup To({asked}) \cup To({downloading}), h)
    BY ToEmpty DEF NoConn, Manager!HasHash
  <2>2. \A h \in Chunks : Once(need)[h] > 0 <=> h \in need
    BY DEF Once
  <2>3. need \subseteq Chunks
    BY DEF Inv, Lists
  <2> QED  BY <2>1, <2>2, <2>3 DEF Manager!Unlisted
<1>2. ASSUME need # {} PROVE Manager!AskAgain
  <2>1. gets # 0 /\ need \subseteq Chunks /\ MMax = 1 /\ MRunning = 0
    BY <1>2 DEF Inv, Lists, MMax, MRunning
  <2>2. MFound = Cardinality(Chunks \ need)
    <3>1. Cardinality(Chunks \ need) \in Nat
      BY FS_Difference, FS_CardinalityType
    <3>2. Cardinality(To(queue \cup {asked, downloading})) = 0
      <4>1. queue \cup {asked, downloading} = {None}
        BY DEF NoConn
      <4>2. Cardinality({}) = 0
        BY FS_EmptySet
      <4> QED  BY <4>1, <4>2, ToEmpty
    <3> QED  BY <2>1, <3>1, <3>2 DEF MFound
  <2>3. Cardinality(Chunks) = Cardinality(Chunks \ need) + Cardinality(need)
    <3>1. IsFiniteSet(need) /\ IsFiniteSet(Chunks \ need)
      BY <2>1, FS_Subset, FS_Difference
    <3>2. (Chunks \ need) \cup need = Chunks /\ (Chunks \ need) \cap need = {}
      BY <2>1
    <3> QED  BY <3>1, <3>2, DisjointSize
  <2>4. Cardinality(need) \in Nat /\ Cardinality(need) # 0 /\ Cardinality(Chunks \ need) \in Nat
    <3>1. IsFiniteSet(need) /\ IsFiniteSet(Chunks \ need)
      BY <2>1, FS_Subset, FS_Difference
    <3> QED  BY <1>2, <3>1, FS_EmptySet, FS_CardinalityType
  <2>5. MFound < MNeed
    BY <2>1, <2>2, <2>3, <2>4 DEF MNeed
  <2> QED  BY <2>1, <2>5, ManagerCardinality DEF Manager!AskAgain, MFound, MNeed, MMax, MRunning
<1> QED  BY <1>1, <1>2

\* GET_sender and WhoHas_sender
LEMMA SendGetRefines == Inv /\ SendGet => Manager!SendGet \/ Manager!NoGet
<1> SUFFICES ASSUME Inv, SendGet PROVE Manager!SendGet \/ Manager!NoGet
  OBVIOUS
<1>1. /\ aphase = "gets" /\ aphase' = "downloads"
      /\ UNCHANGED <<need, downloading, buffer, written, gets>>
  BY DEF SendGet, used, conn
<1>2. /\ UNCHANGED <<Once(need), To({downloading}), Once(written), MMax, MNeed>>
      /\ [c \in Chunks |-> Filled(c)]' = [c \in Chunks |-> Filled(c)]
  BY <1>1 DEF Once, To, MMax, MNeed, Filled, R!Complete, R!HashMatches, buffer
<1>3. ASSUME NoConn, NEW c \in queue, asked' = c, queue' = queue \ {c}, whohas' = {}
      PROVE  Manager!SendGet
  <2>1. c \in Chunks /\ c # None /\ need # {} /\ c \in need
    BY <1>3 DEF Inv, Lists
  <2>2. Manager!SlotFree
    BY <1>3, <2>1 DEF Manager!SlotFree, Inv, Lists
  <2>3. NodeB(c) \in To(queue) /\ NodeB(c).from = "B"
    BY <1>3, <2>1, ToNodes, ManagerFinds
  <2>4. NodeB(c) \in Manager!Ready
    BY <1>3, <2>3, ManagerBusy DEF Manager!Ready
  <2>5. To(queue') = To(queue) \ {NodeB(c)}
    BY <1>3 DEF To, NodeB
  <2>6. To({asked}) = {} /\ To({asked'}) = To({asked}) \cup {NodeB(c)}
    BY <1>3, <2>1, ToEmpty, ToOne DEF NoConn
  <2>7. MRunning' = MRunning + 1
    BY <1>3, <2>1 DEF MRunning, NoConn
  <2>8. MFound' = MFound
    <3>1. To(queue' \cup {asked', downloading'}) = To(queue \cup {asked, downloading})
      BY <1>1, <1>3 DEF To, NoConn
    <3> QED  BY <1>1, <3>1 DEF MFound
  <2> QED
    BY <1>1, <1>2, <1>3, <2>2, <2>4, <2>5, <2>6, <2>7, <2>8
    DEF Manager!SendGet, MRunning, MMax, MNeed, MFound
<1>4. ASSUME ~NoConn \/ queue = {}, whohas' = (IF NoConn THEN need ELSE {}),
             UNCHANGED <<queue, conn>>
      PROVE  Manager!NoGet
  <2>1. UNCHANGED <<To(queue), To({asked}), MRunning, MFound>>
    BY <1>1, <1>4 DEF To, MRunning, MFound, NoConn, conn
  <2>2. ~Manager!SlotFree \/ Manager!Ready = {}
    BY <1>4, ToEmpty DEF Manager!SlotFree, Manager!Ready
  <2>3. whohas' = IF Manager!AskAgain THEN Manager!Unlisted ELSE {}
    <3>1. CASE NoConn
      BY <1>4, <3>1, AsksForNeed
    <3>2. CASE ~NoConn
      BY <1>4, <3>2 DEF Manager!AskAgain
    <3> QED  BY <3>1, <3>2
  <2> QED
    BY <1>1, <1>2, <2>1, <2>2, <2>3
    DEF Manager!NoGet, Manager!lists, Manager!nums, MRunning, MMax, MNeed, MFound
<1> QED  BY <1>3, <1>4 DEF SendGet

-----------------------------------------------------------------------------
(* "downloads"                                                             *)

LEMMA OnceMore ==
  ASSUME NEW cs \in SUBSET Chunks, NEW d \in Chunks, d \notin cs
  PROVE  Once(cs \cup {d}) = [Once(cs) EXCEPT ![d] = @ + 1]
<1>1. Once(cs)[d] + 1 = 1 /\ Once(cs \cup {d})[d] = 1
  BY DEF Once
<1>2. \A c \in Chunks : c # d => Once(cs \cup {d})[c] = Once(cs)[c]
  BY DEF Once
<1> QED  BY <1>1, <1>2 DEF Once

LEMMA OnceLess ==
  ASSUME NEW cs \in SUBSET Chunks, NEW d \in cs
  PROVE  Once(cs \ {d}) = [Once(cs) EXCEPT ![d] = @ - 1]
<1>1. Once(cs)[d] - 1 = 0 /\ Once(cs \ {d})[d] = 0
  BY DEF Once
<1>2. \A c \in Chunks : c # d => Once(cs \ {d})[c] = Once(cs)[c]
  BY DEF Once
<1> QED  BY <1>1, <1>2 DEF Once

\* reap and finish_one_download: what is written has not been written before.
LEMMA ReapRefines ==
  Inv /\ Reap => \E c \in To({downloading}) : Manager!FinishDownload(c)
<1> SUFFICES ASSUME Inv, Reap PROVE \E c \in To({downloading}) : Manager!FinishDownload(c)
  OBVIOUS
<1> PICK d \in Chunks : d = downloading
  BY DEF Reap, Inv, Lists
<1>1. /\ aphase = "downloads" /\ d = downloading /\ d # None /\ R(None)!Complete
      /\ written' = IF R(d)!HashMatches THEN written \cup {d} ELSE written
      /\ need' = need \ {d} /\ downloading' = None
      /\ \/ need' # {} /\ UNCHANGED <<queue, aphase>>
         \/ need' = {} /\ queue' = {} /\ aphase' = "recv"
      /\ UNCHANGED <<asked, whohas, gets>>
  BY DEF Reap, used
<1>2. /\ d \in Chunks /\ d \in need /\ asked = None /\ d \notin written /\ gets # 0
      /\ need \subseteq Chunks /\ written \subseteq Chunks /\ d \notin queue
      /\ queue \subseteq need
  BY <1>1 DEF Inv, Lists
<1>3. /\ NodeB(d) \in To({d}) /\ NodeB(d).hash = d
      /\ To({d}) = {NodeB(d)} /\ To({downloading'}) = {} /\ To({asked}) = {} /\ To({asked'}) = {}
  BY <1>1, <1>2, ManagerFinds, ToNodes, ToEmpty, ToOne
<1>4. Filled(d) = IF R(d)!HashMatches THEN "good" ELSE "bad"
  BY <1>1 DEF Filled, R!Complete
<1>5. Manager!Complete(NodeB(d))
  BY <1>2, <1>3, <1>4 DEF Manager!Complete
<1>6. Once(written)' = IF Filled(d) = "good" THEN [Once(written) EXCEPT ![d] = @ + 1]
                                             ELSE Once(written)
  <2>1. CASE R(d)!HashMatches
    <3>1. Once(written)' = Once(written \cup {d})
      BY <1>1, <2>1 DEF Once
    <3> QED  BY <1>2, <1>4, <2>1, <3>1, OnceMore
  <2>2. CASE ~R(d)!HashMatches
    BY <1>1, <1>2, <1>4, <2>2 DEF Once
  <2> QED  BY <2>1, <2>2
<1>7. Once(need)' = Manager!Left(d)
  <2>1. Once(need)' = Once(need \ {d})
    BY <1>1 DEF Once
  <2> QED  BY <1>2, <2>1, OnceLess DEF Manager!Left
<1>8. [c \in Chunks |-> Filled(c)]' = [[c \in Chunks |-> Filled(c)] EXCEPT ![d] = "none"]
  <2>1. \A c \in Chunks : Filled(c)' = "none" /\ (c # d => Filled(c) = "none")
    BY <1>1 DEF Filled
  <2> QED  BY <2>1
<1>9. MRunning = 1 /\ MRunning' = 0 /\ MNeed' = MNeed
  BY <1>1, <1>2 DEF MRunning, NoConn, MNeed
<1>10. need' # {} => To(queue') = To(queue) /\ MMax' = MMax
  BY <1>1, <1>2 DEF To, MMax
<1>11. need' = {} => To(queue') = {} /\ MMax' = 0
  BY <1>1, <1>2, ToEmpty DEF MMax
<1>12. need' = {} <=> Once(need)' = Manager!NoNeed
  <2>1. \A c \in Chunks : Once(need')[c] = 0 <=> c \notin need'
    BY DEF Once
  <2>2. need' \subseteq Chunks
    BY <1>1, <1>2
  <2> QED  BY <2>1, <2>2 DEF Once, Manager!NoNeed
<1>13. MFound' = MFound
  <2> DEFINE cs == queue \cup {None}
             m  == Cardinality(Chunks \ need)
  <2>1. cs \in SUBSET (Chunks \cup {None}) /\ {d} \in SUBSET Chunks /\ cs \cap {d} = {}
    BY <1>1, <1>2
  <2>2. Cardinality({d}) = 1
    BY FS_Singleton
  <2>3. Cardinality(To(cs \cup {d})) = Cardinality(To(cs)) + 1 /\ Cardinality(To(cs)) \in Nat
    BY <2>1, <2>2, ToJoins
  <2>4. m \in Nat /\ Cardinality(Chunks \ need') = m + 1
    <3>1. IsFiniteSet(Chunks \ need) /\ IsFiniteSet({d})
      BY FS_Difference, FS_Singleton
    <3>2. (Chunks \ need) \cap {d} = {} /\ Chunks \ need' = (Chunks \ need) \cup {d}
      BY <1>1, <1>2
    <3>3. Cardinality((Chunks \ need) \cup {d}) = m + Cardinality({d})
      BY <3>1, <3>2, DisjointSize
    <3> QED  BY <2>2, <3>1, <3>2, <3>3, FS_CardinalityType
  <2>5. MFound = Cardinality(To(cs \cup {d})) + m
    <3>1. To(queue \cup {asked, downloading}) = To(cs \cup {d})
      BY <1>2 DEF To
    <3> QED  BY <1>2, <3>1 DEF MFound
  <2>6. MFound' = Cardinality(To(cs)) + Cardinality(Chunks \ need')
    <3>1. queue' = queue
      BY <1>1, <1>2
    <3>2. queue' \cup {asked', downloading'} = cs
      BY <1>1, <1>2, <3>1
    <3> QED  BY <1>1, <1>2, <3>2 DEF MFound
  <2> HIDE DEF cs, m
  <2> QED  BY <2>3, <2>4, <2>5, <2>6
<1>14. MRunning' = MRunning - 1
  BY <1>9
<1>15. /\ [c \in Chunks |-> Filled(c)][d] = Filled(d)
       /\ To({downloading}) \ {NodeB(d)} = {}
  BY <1>2, <1>3
<1>16. Manager!FinishDownload(NodeB(d))
  <2>1. CASE need' # {}
    BY <1>1, <1>2, <1>3, <1>5, <1>6, <1>7, <1>8, <1>9, <1>10, <1>12, <1>13, <1>14, <1>15, <2>1
    DEF Manager!FinishDownload, Manager!SlotsAfter, MRunning, MMax, MNeed, MFound
  <2>2. CASE need' = {}
    BY <1>1, <1>2, <1>3, <1>5, <1>6, <1>7, <1>8, <1>9, <1>11, <1>12, <1>13, <1>14, <1>15, <2>2
    DEF Manager!FinishDownload, Manager!SlotsAfter, MRunning, MMax, MNeed, MFound
  <2> QED  BY <2>1, <2>2
<1> QED  BY <1>1, <1>3, <1>16

\* check_recvdata_timeout
LEMMA DownloadPassRefines ==
  Inv /\ DownloadPass => \E silent \in SUBSET To({downloading}) : Manager!DataTimeouts(silent)
<1> SUFFICES ASSUME Inv, DownloadPass
             PROVE  \E silent \in SUBSET To({downloading}) : Manager!DataTimeouts(silent)
  OBVIOUS
<1>1. /\ aphase = "downloads" /\ aphase' = "recv"
      /\ ~(downloading # None /\ R(None)!Complete)
      /\ UNCHANGED <<need, queue, asked, written, whohas, gets>>
  BY DEF DownloadPass, used
<1>2. UNCHANGED <<Once(need), To(queue), To({asked}), Once(written), whohas, MMax, MNeed>>
  BY <1>1 DEF Once, To, MMax, MNeed
<1>3. \A c \in To({downloading}) : ~Manager!Complete(c)
  <2>1. ASSUME NEW c \in To({downloading}) PROVE ~Manager!Complete(c)
    <3>1. c.hash = downloading /\ downloading # None /\ downloading \in Chunks
      BY ToNodes DEF Inv, Lists
    <3>2. \A d \in Chunks : d = downloading => Filled(d) = "part"
      BY <1>1, <3>1 DEF Filled, R!Complete
    <3> QED  BY <3>1, <3>2 DEF Manager!Complete
  <2> QED  BY <2>1
<1>4. MFound \in Nat /\ MRunning \in Nat
  BY FoundType DEF MRunning
<1>5. CASE UNCHANGED <<downloading, buffer>>
  <2>1. UNCHANGED <<To({downloading}), MRunning, MFound>>
    BY <1>1, <1>5 DEF To, MRunning, MFound, NoConn
  <2>2. Cardinality({}) = 0
    BY FS_EmptySet
  <2>3. MRunning' = MRunning - Cardinality({}) /\ MFound' = MFound - Cardinality({})
    BY <1>4, <2>1, <2>2
  <2>4. \A c \in Chunks : Filled(c)' = Filled(c) /\ ~Manager!HasHash({}, c)
    BY <1>5 DEF Filled, R!Complete, R!HashMatches, buffer, Manager!HasHash
  <2>5. [c \in Chunks |-> Filled(c)]'
          = [h \in Chunks |-> IF Manager!HasHash({}, h) THEN "none"
                              ELSE [c \in Chunks |-> Filled(c)][h]]
    BY <2>4
  <2>6. Manager!DataTimeouts({})
    BY <1>1, <1>2, <1>3, <2>1, <2>3, <2>5, ManagerCardinality
    DEF Manager!DataTimeouts, Manager!SlotsAfter, MRunning, MMax, MNeed, MFound
  <2> QED  BY <2>6
<1>6. CASE DownloadDue /\ downloading' = None
  <2>1. downloading # None /\ asked = None /\ downloading' = None /\ asked' = None
    BY <1>1, <1>6 DEF DownloadDue, Inv, Lists
  <2>2. To({downloading}) = {NodeB(downloading)} /\ To({downloading'}) = {}
    BY <2>1, ToEmpty, ToOne
  <2>3. Cardinality({NodeB(downloading)}) = 1
    BY FS_Singleton
  <2>4. MFound' = MFound - 1
    BY <1>1, <2>1, FoundGivenUp
  <2>5. MRunning = 1 /\ MRunning' = 0
    BY <2>1 DEF MRunning, NoConn
  <2>6. /\ MRunning' = MRunning - Cardinality({NodeB(downloading)})
        /\ MFound' = MFound - Cardinality({NodeB(downloading)})
    BY <2>3, <2>4, <2>5
  <2>7. \A c \in Chunks : /\ Filled(c)' = "none"
                          /\ ~Manager!HasHash({NodeB(downloading)}, c) => Filled(c) = "none"
    <3>1. \A c : c = downloading => Manager!HasHash({NodeB(downloading)}, c)
      BY ManagerFinds DEF Manager!HasHash
    <3> QED  BY <2>1, <3>1 DEF Filled
  <2>8. [c \in Chunks |-> Filled(c)]'
          = [h \in Chunks |-> IF Manager!HasHash({NodeB(downloading)}, h) THEN "none"
                              ELSE [c \in Chunks |-> Filled(c)][h]]
    BY <2>7
  <2>9. Manager!DataTimeouts({NodeB(downloading)})
    BY <1>1, <1>2, <1>3, <2>2, <2>6, <2>8, ManagerCardinality
    DEF Manager!DataTimeouts, Manager!SlotsAfter, MRunning, MMax, MNeed, MFound
  <2> QED  BY <2>2, <2>9
<1> QED  BY <1>5, <1>6 DEF DownloadPass

-----------------------------------------------------------------------------
LEMMA StepRefines == Inv /\ [Next]_vars => [Manager!Next]_(Manager!vars)
<1> SUFFICES ASSUME Inv, [Next]_vars PROVE [Manager!Next]_(Manager!vars)
  OBVIOUS
<1>1. CASE OnData
  BY <1>1, DataRefines DEF Manager!Next
<1>2. CASE OnIHave
  <2>1. whohas \in SUBSET Chunks
    BY DEF Inv, Lists
  <2> QED  BY <1>2, <2>1, IHaveRefines DEF Manager!Next
<1>3. CASE NoPacketAtA
  BY <1>3, NoPacketRefines DEF Manager!Next
<1>4. CASE UserGet
  <2>1. Once(Chunks) \in [Chunks -> 0..1]
    BY DEF Once
  <2> QED  BY <1>4, <2>1, UserGetRefines DEF Manager!Next
<1>5. CASE NoInput
  BY <1>5, NoInputRefines DEF Manager!Next
<1>6. CASE CheckTimeout
  BY <1>6, CheckTimeoutRefines DEF Manager!Next
<1>7. CASE SendGet
  BY <1>7, SendGetRefines DEF Manager!Next
<1>8. CASE Reap
  BY <1>8, ReapRefines DEF Manager!Next
<1>9. CASE DownloadPass
  BY <1>9, DownloadPassRefines DEF Manager!Next
<1>10. CASE OnGet \/ OnAck \/ NoPacketAtB \/ SendWindow \/ UploadPass \/ Lose \/ RestartB
            \/ CrashA \/ Late \/ Tick \/ Over \/ UNCHANGED vars
  <2>1. UNCHANGED <<need, queue, asked, downloading, buffer, written, whohas, aphase, gets>>
    BY <1>10 DEF OnGet, OnAck, NoPacketAtB, SendWindow, UploadPass, Lose, RestartB, CrashA,
                 Late, Tick, Pass, Over, vars, avars, used, conn
  <2> QED  BY <2>1, ManagerStutters
<1> QED  BY <1>1, <1>2, <1>3, <1>4, <1>5, <1>6, <1>7, <1>8, <1>9, <1>10 DEF Next

\* A peer with its packets, buffers, timers and faults implements the download manager: every step
\* of its main loop (peer_run) is one of the manager's, and what B, the network and time do
\* is a stutter.  What Downloads_proofs proves therefore holds of it.
THEOREM RefinesManager == Spec => Manages
BY ManagerInit, StepRefines, Invariance, PTL DEF Spec, Manages, Manager!Spec

-----------------------------------------------------------------------------
(* Chunks do not mix without strays                                        *)
(*                                                                         *)
(* While B's upload is the one A waits for (Joined), what is in flight is  *)
(* a narrow band of its packets, which follow at most some stale ones that *)
(* A's empty buffer refuses.  When A is done with it or gives it up, the   *)
(* rest of it is beyond what an empty buffer accepts (Detached), until A's *)
(* next GET opens another one.                                             *)

\* The thresholds that the sender's window can reach, and the packets it can have in flight.
Threshold == S!MaxOf(2, S!MaxOf(InitSsthresh, (MaxWin + 1) \div 2))
Flight    == 2 * Threshold

\* A chunk is longer than all that can be in flight and the receive window together; the code has
\* Threshold = 64 (INITIAL_CONGESTION_THRESHOLD), MaxWin = 128 and 512 > 30 + 128.
LongChunks == Threshold < MaxWin /\ ChunkPackets > RecvWin + Flight

\* The chunk A has asked for, arriving or not.
Current == IF asked # None THEN asked ELSE downloading

AllSent     == LPS = LPR - 1
EmptyBuffer == NPE = 1 /\ \A i \in Seqs : recv_buf[i] = None

\* A packet that an empty buffer refuses, and one of the running upload that cannot be taken for
\* the next one of its number.
Stale(p) == p.seq > RecvWin + 1
Fresh(p) ==
  /\ p.payload = up /\ p.seq <= LPA + Flight
  /\ \A i \in Seqs : recv_buf[i] # None => i < p.seq + Flight

\* How much an upload has in flight, and that it is silent until its first packet is acknowledged.
Sending ==
  UploadOpen =>
    /\ ssthresh <= Threshold /\ congwin <= Flight /\ LPS - LPA <= Flight
    /\ LPS - LPA <= congwin \/ MaxWin <= congwin
    /\ count <= 0 => congwin <= LPS - LPA \/ AllSent
    /\ sphase = "recv" => count <= 0 \/ congwin = 1 \/ AllSent
    /\ sphase = "check" => count = 0 \/ AllSent
    /\ LPA = 0 => count = 0 \/ AllSent \/ (sphase = "send" /\ LPS = 0)

\* What holds whatever the user types.
Calm ==
  /\ aphase # "recv" => sphase \in {"recv", "done", "aborted"} /\ alive
  /\ ~alive => toA = <<>>
  /\ Current # None => whohas = {}
  /\ sphase = "done" => LPA = LPR - 1
  /\ gets = 0 => sphase = "aborted" /\ toA = <<>> /\ toB = <<>>

\* B's upload, running or closed, is the one A waits for: behind k packets of earlier ones the
\* packets under way are its own, and no two differ by more than what can be in flight.
Arriving(k) ==
  /\ \A i \in 1..Len(toA) : i <= k => Stale(toA[i])
  /\ k > 0 => EmptyBuffer
  /\ \A i \in 1..Len(toA) : i > k => Fresh(toA[i])
  /\ \A i, j \in 1..Len(toA) : k < i /\ i < j => toA[i].seq < toA[j].seq + Flight

Joined ==
  /\ alive /\ Current = up /\ up # None
  /\ \A i \in 1..Len(toB) : toB[i].type = "ACK" /\ toB[i].num <= NPE - 1
  /\ LPA <= NPE - 1
  /\ \A i \in Seqs : recv_buf[i] # None => recv_buf[i] = up /\ i <= LPA + Flight
  /\ \E k \in 0..Len(toA) : Arriving(k)

\* It is not: A's buffer is empty, and nothing is sent or under way that it would accept; an ACK
\* under way is for a chunk that is written.
Detached ==
  /\ alive /\ EmptyBuffer
  /\ \A i \in 1..Len(toA) : Stale(toA[i])
  /\ \A i \in 1..Len(toB) : toB[i].type = "GET" => i = Len(toB) /\ toB[i].hash = Current
  /\ UploadOpen => LPA > RecvWin \/ (LPA = 0 /\ (count = 0 \/ AllSent))
  /\ UploadOpen => \A i \in 1..Len(toB) :
       toB[i].type = "ACK" => up \in written /\ LPA >= ChunkPackets - Flight
  /\ (UploadOpen \/ sphase = "done") /\ LPR # 1 /\ LPA = ChunkPackets => up \in written

Dead == ~alive /\ \A i \in Seqs : recv_buf[i] \in {None, downloading}

Peers == Joined \/ Detached \/ Dead
Apart == Calm /\ (Undisturbed => (alive => Sending) /\ Peers)

LEMMA ThresholdBounds ==
  /\ Threshold \in Nat /\ 2 <= Threshold /\ InitSsthresh <= Threshold
  /\ Flight \in Nat /\ Flight = 2 * Threshold /\ MaxWin <= Flight
<1>1. MaxWin <= 2 * ((MaxWin + 1) \div 2) /\ (MaxWin + 1) \div 2 \in Int
  OBVIOUS
<1>2. \A x \in Int : LET m == S!MaxOf(2, S!MaxOf(InitSsthresh, x))
                     IN  m \in Int /\ 2 <= m /\ InitSsthresh <= m /\ x <= m
  BY DEF S!MaxOf
<1>3. /\ Threshold \in Int /\ 2 <= Threshold /\ InitSsthresh <= Threshold
      /\ (MaxWin + 1) \div 2 <= Threshold
  BY <1>1, <1>2 DEF Threshold
<1> QED  BY <1>1, <1>3 DEF Flight

\* A rollback leaves a window of one packet and nothing in flight.
LEMMA CollapseKeepsSending ==
  ASSUME SP!IInv, Sending, S!Collapse, UploadOpen, LPA >= 1, sphase' \in {"recv", "send"}
  PROVE  Sending'
<1>1. LPA' = LPA /\ LPS' = LPA /\ congwin' = 1 /\ count' = 1 /\ ssthresh' = S!Halved
  BY WindowTypes DEF S!Collapse, S!Room
<1>2. S!Halved <= Threshold
  <2>1. congwin \in Int /\ congwin <= 2 * Threshold /\ Threshold \in Int /\ 2 <= Threshold
    BY ThresholdBounds, WindowTypes DEF Sending
  <2>2. congwin \div 2 <= Threshold /\ congwin \div 2 \in Int
    BY <2>1
  <2> QED  BY <2>1, <2>2 DEF S!Halved, S!MaxOf
<1> QED  BY <1>1, <1>2, ThresholdBounds, WindowTypes DEF Sending

LEMMA RoomBounds ==
  \A w, l, s \in Int, p \in {0, 1} :
    /\ S!Room(w, p, l, s) \in Int
    /\ S!Room(w, p, l, s) <= 0 => w <= s - l
    /\ l = s /\ w >= 0 => S!Room(w, p, l, s) = w
BY DEF S!Room

\* upon_receive_ACK for no more than what can be in flight.
LEMMA AckKeepsSending ==
  ASSUME LongChunks, SP!IInv, Sending, NEW a \in 0..ChunkPackets, S!UponReceiveACK(a),
         a <= LPA + Flight
  PROVE  Sending'
<1>0. /\ sphase = "recv" /\ sphase' = "send" /\ UploadOpen
      /\ LPA < LPR - 1
  BY DEF S!UponReceiveACK, UploadOpen, SP!IInv, SP!BusyInRecv
<1>1. CASE S!IllegalAck(a) \/ S!OldAck(a)
  <2>1. UNCHANGED <<LPA, LPS, LPR, count, congwin, frac, ssthresh>>
    BY <1>1 DEF S!IllegalAck, S!OldAck, S!AfterOldAck
  <2> QED  BY <1>0, <2>1, WindowTypes DEF Sending, AllSent, UploadOpen
<1>2. CASE S!JumpAck(a)
  <2>1. /\ a >= 1 /\ a > LPS /\ LPA' = a /\ LPS' = a /\ congwin' = congwin + 1
        /\ count' = S!Room(congwin + 1, frac, a, a) /\ UNCHANGED <<LPR, ssthresh>>
    BY <1>2 DEF S!JumpAck, S!JumpTarget
  <2>2. count' = congwin + 1
    <3>1. a \in Int /\ congwin + 1 \in Int /\ congwin + 1 >= 0 /\ frac \in {0, 1}
      BY WindowTypes
    <3> QED  BY <2>1, <3>1, RoomBounds
  <2>3. ~AllSent
    BY <1>0, <2>1, WindowTypes DEF AllSent
  <2>4. congwin + 1 <= Flight
    BY <1>0, <2>1, <2>3, WindowTypes, ThresholdBounds DEF Sending
  <2>5. LPS' - LPA' = 0 /\ count' > 0 /\ LPA' # 0
    BY <2>1, <2>2, WindowTypes
  <2> QED  BY <1>0, <2>1, <2>2, <2>4, <2>5, WindowTypes, ThresholdBounds DEF Sending
<1>3. CASE S!NewAck(a)
  <2>1. /\ a >= 1 /\ a > LPA /\ a <= LPS /\ LPA' = a
        /\ S!SlowStart(a - LPA) \/ S!CongestionAvoidance(a - LPA)
        /\ count' = S!Room(congwin', frac', a, LPS) /\ UNCHANGED <<LPS, LPR, ssthresh>>
    BY <1>3 DEF S!NewAck
  <2>2. /\ congwin' \in Int /\ frac' \in {0, 1} /\ congwin' <= Flight
        /\ LPS - a <= congwin' \/ MaxWin <= congwin'
    <3>1. CASE S!SlowStart(a - LPA)
      <4>1. congwin <= ssthresh /\ congwin' = congwin + (a - LPA) /\ frac' = frac
        BY <3>1, WindowTypes DEF S!SlowStart, S!InAvoidance
      <4>2. LPS - LPA <= congwin
        BY <1>0, <4>1, WindowTypes, ThresholdBounds DEF Sending, LongChunks
      <4> QED  BY <1>0, <2>1, <4>1, <4>2, WindowTypes, ThresholdBounds DEF Sending
    <3>2. CASE S!CongestionAvoidance(a - LPA)
      <4>1. PICK carry \in {0, 1}, part \in {0, 1} :
              IF congwin + carry > MaxWin \/ (congwin + carry = MaxWin /\ part = 1)
              THEN congwin' = MaxWin /\ frac' = 0
              ELSE congwin' = congwin + carry /\ frac' = part
        BY <3>2 DEF S!CongestionAvoidance
      <4> QED  BY <1>0, <2>1, <4>1, WindowTypes, ThresholdBounds DEF Sending
    <3> QED  BY <2>1, <3>1, <3>2
  <2>3. count' <= 0 => congwin' <= LPS - a
    <3>1. a \in Int /\ LPS \in Int
      BY WindowTypes
    <3> QED  BY <2>1, <2>2, <3>1, RoomBounds
  <2>4. LPS' - LPA' = LPS - a /\ LPS - a <= Flight /\ LPA' # 0 /\ ssthresh' <= Threshold
    BY <1>0, <2>1, WindowTypes, ThresholdBounds DEF Sending
  <2> QED  BY <1>0, <2>1, <2>2, <2>3, <2>4 DEF Sending
<1>4. CASE S!DupAck(a)
  <2>1. a >= 1 /\ a = LPA
    BY <1>4 DEF S!DupAck
  <2>2. CASE S!Collapse
    BY <1>0, <2>1, <2>2, CollapseKeepsSending
  <2>3. CASE count' = S!Room(congwin, frac, LPA, LPS)
             /\ UNCHANGED <<LPA, LPS, LPR, congwin, frac, ssthresh>>
    <3>1. count' <= 0 => congwin <= LPS - LPA
      BY <2>3, RoomBounds, WindowTypes
    <3> QED  BY <1>0, <2>1, <2>3, <3>1, WindowTypes DEF Sending
  <2> QED  BY <1>4, <2>2, <2>3 DEF S!DupAck
<1> QED  BY <1>1, <1>2, <1>3, <1>4 DEF S!UponReceiveACK

\* The upload pass.
LEMMA PassKeepsSending ==
  ASSUME SP!IInv, Sending, S!UploadPass \/ S!NoAck \/ UNCHANGED window
  PROVE  Sending'
<1>1. CASE S!WindowSender
  <2>1. /\ sphase = "send" /\ sphase' = "check" /\ LPS < LPR - 1 /\ count # 0
        /\ LPS' = LPS + S!Sendable /\ count' = 0
        /\ UNCHANGED <<LPA, LPR, congwin, frac, ssthresh>>
    BY <1>1 DEF S!WindowSender
  <2>2. /\ count > 0 => count = congwin - (LPS - LPA)
    BY DEF SP!IInv, SP!CountIsRoom
  <2>3. /\ S!Sendable \in Int /\ S!Sendable >= 0
        /\ count < 0 => S!Sendable = 0
        /\ count > 0 => S!Sendable <= count
        /\ count > 0 => S!Sendable = count \/ S!Sendable = LPR - 1 - LPS
    BY <2>1, WindowTypes DEF S!Sendable, S!MinOf, S!MaxOf
  <2> QED  BY <2>1, <2>2, <2>3, WindowTypes, ThresholdBounds DEF Sending, AllSent, UploadOpen
<1>2. CASE S!NothingToSend
  BY <1>2, WindowTypes DEF S!NothingToSend, Sending, AllSent, UploadOpen
<1>3. CASE S!FinishUpload \/ S!AbortUpload
  BY <1>3 DEF S!FinishUpload, S!AbortUpload, Sending, UploadOpen
<1>4. CASE S!CheckDatapackTimeout
  <2>1. LPA >= 1 /\ UploadOpen
    BY <1>4, WindowTypes DEF S!CheckDatapackTimeout, S!TimeoutApplies, UploadOpen
  <2> QED  BY <1>4, <2>1, CollapseKeepsSending DEF S!CheckDatapackTimeout
<1>5. CASE S!NoTimeout
  BY <1>5, WindowTypes DEF S!NoTimeout, Sending, AllSent, UploadOpen
<1>6. CASE S!NoAck
  BY <1>6, WindowTypes DEF S!NoAck, Sending, AllSent, UploadOpen
<1>7. CASE UNCHANGED window
  BY <1>7 DEF window, Sending, AllSent, UploadOpen
<1> QED  BY <1>1, <1>2, <1>3, <1>4, <1>5, <1>6, <1>7 DEF S!UploadPass

LEMMA InitUploadSends ==
  ASSUME NEW c, InitUpload(c)
  PROVE  Sending'
BY ThresholdBounds DEF InitUpload, S!InitialCount, Sending, AllSent, UploadOpen

-----------------------------------------------------------------------------
(* Packets in the channels                                                 *)

LEMMA TailItems ==
  ASSUME NEW T, NEW s \in Seq(T), s # <<>>
  PROVE  /\ Len(s) \in Nat /\ Len(s) >= 1 /\ Head(s) = s[1]
         /\ Tail(s) \in Seq(T) /\ Len(Tail(s)) = Len(s) - 1
         /\ \A i \in 1..Len(Tail(s)) : i + 1 \in 1..Len(s) /\ Tail(s)[i] = s[i + 1]
OBVIOUS

LEMMA JoinItems ==
  ASSUME NEW T, NEW s \in Seq(T), NEW t \in Seq(T)
  PROVE  /\ Len(s) \in Nat /\ Len(t) \in Nat /\ Len(s \o t) = Len(s) + Len(t)
         /\ \A i \in 1..Len(s \o t) :
              \/ i \in 1..Len(s) /\ (s \o t)[i] = s[i]
              \/ i > Len(s) /\ i - Len(s) \in 1..Len(t) /\ (s \o t)[i] = t[i - Len(s)]
OBVIOUS

LEMMA AppendItems ==
  ASSUME NEW T, NEW s \in Seq(T), NEW e \in T
  PROVE  /\ Len(s) \in Nat /\ Len(Append(s, e)) = Len(s) + 1
         /\ \A i \in 1..Len(Append(s, e)) :
              \/ i \in 1..Len(s) /\ Append(s, e)[i] = s[i]
              \/ i = Len(s) + 1 /\ Append(s, e)[i] = e
OBVIOUS

LEMMA Lengths == Channels => Len(toA) \in Nat /\ Len(toB) \in Nat
BY DEF Channels

LEMMA ToBItems ==
  ASSUME Channels
  PROVE  \A i \in 1..Len(toB) :
           /\ toB[i] \in ToB
           /\ toB[i].type \in {"GET", "ACK"}
           /\ toB[i].type = "GET" => toB[i].hash \in Chunks
           /\ toB[i].type = "ACK" => toB[i].num \in 0..ChunkPackets
<1>1. \A i \in 1..Len(toB) : toB[i] \in ToB
  BY DEF Channels
<1> QED  BY <1>1 DEF ToB

LEMMA ToAItems ==
  ASSUME Channels
  PROVE  \A i \in 1..Len(toA) : toA[i].seq \in Seqs /\ toA[i].payload \in Chunks
<1>1. \A i \in 1..Len(toA) : toA[i] \in ToA
  BY DEF Channels
<1> QED  BY <1>1 DEF ToA

\* The ACKs of a step carry the numbers it acknowledges.
LEMMA AckSeqItems ==
  ASSUME NEW a \in 0..ChunkPackets, NEW b \in Int, b <= ChunkPackets
  PROVE  \A i \in 1..Len(AckSeq(a..b)) :
           AckSeq(a..b)[i].type = "ACK" /\ AckSeq(a..b)[i].num \in a..b
<1> DEFINE least == CHOOSE n \in a..b : \A k \in a..b : n <= k
           size  == Cardinality(a..b)
<1>1. size = IF a > b THEN 0 ELSE b - a + 1
  BY FS_Interval
<1>2. a <= b => least = a
  <2>1. ASSUME a <= b, NEW n \in a..b, \A k \in a..b : n <= k PROVE n = a
    <3>1. a \in a..b  BY <2>1
    <3> QED  BY <2>1, <3>1
  <2>2. a <= b => a \in a..b /\ \A k \in a..b : a <= k
    OBVIOUS
  <2> QED  BY <2>1, <2>2
<1>3. AckSeq(a..b) = [i \in 1..size |-> Ack(least + i - 1)]
  BY DEF AckSeq
<1>4. size \in Nat
  BY <1>1
<1> HIDE DEF least, size
<1>5. Len(AckSeq(a..b)) = size
  BY <1>3, <1>4
<1>6. ASSUME NEW i \in 1..size
      PROVE  Ack(least + i - 1).type = "ACK" /\ Ack(least + i - 1).num \in a..b
  <2>1. a <= b /\ least = a /\ i <= b - a + 1
    BY <1>1, <1>2
  <2>2. a + i - 1 \in a..b
    BY <2>1
  <2> QED  BY <2>1, <2>2 DEF Ack
<1>7. \A i \in 1..size : AckSeq(a..b)[i] = Ack(least + i - 1)
  BY <1>3
<1> QED  BY <1>5, <1>6, <1>7

\* No ACK, no packet.
LEMMA NoAcks == AckSeq({}) = <<>>
<1>1. Cardinality({}) = 0
  BY FS_EmptySet
<1> QED  BY <1>1 DEF AckSeq

\* upon_receive_ACK never moves the acknowledged packet back, nor to another one than it says.
LEMMA AckMoves ==
  ASSUME SP!IInv, NEW a \in 0..ChunkPackets, S!UponReceiveACK(a)
  PROVE  LPA' \in {LPA, a} /\ LPA' >= LPA /\ LPR' = LPR /\ sphase = "recv" /\ sphase' = "send"
BY WindowTypes
DEF S!UponReceiveACK, S!IllegalAck, S!JumpAck, S!NewAck, S!DupAck, S!Collapse, S!OldAck,
    S!AfterOldAck

-----------------------------------------------------------------------------
(* Calm                                                                    *)

LEMMA CalmPreserved ==
  ASSUME Inv, Calm, [Next]_vars
  PROVE  Calm'
<1> USE DEF Calm, Current
<1>0. /\ asked = None \/ downloading = None
      /\ gets = 0 => need = {} /\ queue = {} /\ whohas = {} /\ Current = None
  BY DEF Inv, Lists
<1>1. CASE OnGet
  BY <1>1 DEF OnGet, avars, conn, Rested, InitUpload, IgnoreGet, S!NoAck, window
<1>2. CASE OnAck
  BY <1>2 DEF OnAck, avars, conn, used, Rested, S!UponReceiveACK, window, UploadOpen
<1>3. CASE NoPacketAtB
  BY <1>3 DEF NoPacketAtB, avars, conn, used, Rested, S!NoAck
<1>4. CASE SendWindow
  BY <1>4 DEF SendWindow, avars, conn, used, S!WindowSender, S!NothingToSend
<1>5. CASE UploadPass
  BY <1>5 DEF UploadPass, avars, conn, used, S!FinishUpload, S!AllAcked, S!AbortUpload,
              S!CheckDatapackTimeout, S!NoTimeout
<1>6. CASE OnData
  BY <1>0, <1>6 DEF OnData, Rested, conn, bvars, window, used
<1>7. CASE OnIHave
  BY <1>0, <1>7 DEF OnIHave, Rested, conn, bvars, window, used
<1>8. CASE NoPacketAtA
  BY <1>8 DEF NoPacketAtA, Rested, conn, bvars, window, used
<1>9. CASE UserGet
  BY <1>9 DEF UserGet, Rest, Inv, bvars, window
<1>10. CASE NoInput
  BY <1>10 DEF NoInput, conn, bvars, window, used
<1>11. CASE CheckTimeout
  BY <1>0, <1>11 DEF CheckTimeout, bvars, window, used
<1>12. CASE SendGet
  BY <1>0, <1>12 DEF SendGet, NoConn, conn, bvars, window, used
<1>13. CASE Reap
  BY <1>0, <1>13 DEF Reap, bvars, window, used
<1>14. CASE DownloadPass
  BY <1>0, <1>14 DEF DownloadPass, bvars, window, used
<1>15. CASE Lose
  BY <1>15 DEF Lose, Rested, avars, conn, bvars, window
<1>16. CASE RestartB
  BY <1>16 DEF RestartB, Rested, avars, conn
<1>17. CASE CrashA
  BY <1>17 DEF CrashA, Rested, conn, bvars, window
<1>18. CASE Tick \/ Late
  BY <1>18 DEF Tick, Late, Pass, Quiet, Idle, Rested, window
<1>19. CASE Over \/ UNCHANGED vars
  BY <1>19 DEF Over, vars, avars, conn, bvars, window, used
<1> QED  BY <1>1, <1>2, <1>3, <1>4, <1>5, <1>6, <1>7, <1>8, <1>9, <1>10, <1>11, <1>12, <1>13,
            <1>14, <1>15, <1>16, <1>17, <1>18, <1>19 DEF Next

-----------------------------------------------------------------------------
(* The peers stay apart or joined                                          *)

\* What Peers is about, the phase of B's loop apart.
ends == <<LPA, LPS, LPR, count, up, buffer, asked, downloading, written, alive, toA, toB>>

LEMMA PeersUnaffected ==
  ASSUME Peers, UNCHANGED ends,
         \/ UNCHANGED sphase
         \/ UploadOpen /\ sphase' = "done" /\ LPA = LPR - 1
         \/ sphase' = "aborted"
         \/ UploadOpen /\ sphase' \in {"recv", "send", "check"}
  PROVE  Peers'
<1> USE DEF ends
<1>1. UploadOpen' => UploadOpen
  BY DEF UploadOpen
<1>2. EmptyBuffer' = EmptyBuffer /\ Current' = Current /\ AllSent' = AllSent
  BY DEF EmptyBuffer, Current, AllSent, buffer
<1>3. \A p : Stale(p)' <=> Stale(p)
  BY DEF Stale
<1>4. \A p : Fresh(p)' <=> Fresh(p)
  BY DEF Fresh, buffer
<1>5. CASE Joined
  <2>1. \A k : Arriving(k)' <=> Arriving(k)
    BY <1>2, <1>3, <1>4 DEF Arriving
  <2> QED  BY <1>2, <1>5, <2>1 DEF Peers, Joined, buffer
<1>6. CASE Detached
  BY <1>1, <1>2, <1>3, <1>6 DEF Peers, Detached, UploadOpen
<1>7. CASE Dead
  BY <1>7 DEF Peers, Dead, buffer
<1> QED  BY <1>5, <1>6, <1>7 DEF Peers

\* Once A is gone its buffer stays.
LEMMA DeadPreserved ==
  ASSUME Inv, Calm, Dead, [Next]_vars
  PROVE  Dead'
<1>1. ~alive /\ aphase = "recv" /\ toA = <<>>
  BY DEF Dead, Calm
<1>2. UNCHANGED <<alive, recv_buf, downloading>>
  BY <1>1 DEF Next, OnGet, OnAck, NoPacketAtB, SendWindow, UploadPass, OnData, OnIHave,
     NoPacketAtA, UserGet, NoInput, CheckTimeout, SendGet, Reap, DownloadPass, Lose, RestartB,
     CrashA, Late, Tick, Pass, Over, vars, avars, conn, buffer
<1> QED  BY <1>1, <1>2 DEF Dead

\* B reads a GET: either its upload is the one A waits for from now on, or nothing changes.
LEMMA GetPeers ==
  ASSUME Inv, LongChunks, Detached, OnGet
  PROVE  Peers'
<1> DEFINE c == Head(toB).hash
<1>1. /\ toB # <<>> /\ Head(toB).type = "GET" /\ toB' = Tail(toB) /\ toB \in Seq(ToB)
      /\ InitUpload(c) \/ IgnoreGet
      /\ UNCHANGED <<buffer, asked, downloading, written, alive, toA>>
  BY DEF OnGet, avars, conn, Inv, Channels
<1>2. Head(toB) = toB[1] /\ 1 \in 1..Len(toB) /\ Len(toB) \in Nat
  BY <1>1, TailItems
<1>3. c = Current /\ Len(toB) = 1 /\ c \in Chunks
  BY <1>1, <1>2, ToBItems DEF Detached, Inv
<1>4. Len(toB') = 0
  BY <1>1, <1>3, TailItems
<1>5. EmptyBuffer' /\ EmptyBuffer /\ Current' = Current /\ NPE = 1
  BY <1>1 DEF EmptyBuffer, Current, buffer, Detached
<1>6. \A i \in 1..Len(toA) : Stale(toA[i])'
  BY <1>1 DEF Stale, Detached
<1>7. CASE InitUpload(c)
  <2>1. up' = c /\ LPA' = 0 /\ c # None
    BY <1>3, <1>7 DEF InitUpload
  <2>2. Len(toA) \in Nat
    BY Lengths DEF Inv
  <2>3. Arriving(Len(toA))'
    BY <1>1, <1>5, <1>6, <2>2 DEF Arriving
  <2>4. Len(toA) \in 0..Len(toA)'
    BY <1>1, <2>2
  <2>5. \E k \in 0..Len(toA)' : Arriving(k)'
    BY <1>1, <2>3, <2>4
  <2>6. \A i \in Seqs : recv_buf'[i] = None
    BY <1>5 DEF EmptyBuffer
  <2>7. Joined'
    BY <1>1, <1>3, <1>4, <1>5, <2>1, <2>5, <2>6 DEF Joined, Detached, EmptyBuffer
  <2> QED  BY <2>7 DEF Peers
<1>8. CASE IgnoreGet
  <2>1. UNCHANGED <<LPA, LPS, LPR, count, up>> /\ (UploadOpen' <=> UploadOpen)
        /\ (UNCHANGED sphase \/ sphase' = "send")
    BY <1>8 DEF IgnoreGet, S!NoAck, window, UploadOpen
  <2>2. Detached'
    BY <1>1, <1>4, <1>5, <1>6, <2>1 DEF Detached, AllSent
  <2> QED  BY <2>2 DEF Peers
<1> QED  BY <1>1, <1>7, <1>8

\* An ACK for no more than what can be in flight: what A has acknowledged, or the last ACKs of a
\* chunk it has written.
LEMMA AckInFlight ==
  ASSUME Inv, LongChunks, Joined \/ Detached, toB # <<>>, Head(toB).type = "ACK", UploadOpen
  PROVE  /\ Head(toB).num \in 0..ChunkPackets /\ Head(toB).num <= LPA + Flight
         /\ Joined => Head(toB).num <= NPE - 1
         /\ Detached => up \in written /\ LPA >= ChunkPackets - Flight
<1>1. /\ Head(toB).num \in 0..ChunkPackets /\ Head(toB) = toB[1] /\ 1 \in 1..Len(toB)
      /\ Flight \in Nat /\ LPA \in Nat
  <2>1. toB \in Seq(ToB)
    BY DEF Inv, Channels
  <2>2. Head(toB) = toB[1] /\ 1 \in 1..Len(toB)
    BY <2>1, TailItems
  <2> QED  BY <2>2, ToBItems, ThresholdBounds, WindowTypes DEF Inv
<1>2. CASE Joined
  <2>1. Head(toB).num <= NPE - 1
    BY <1>1, <1>2 DEF Joined
  <2>2. /\ NPE \in 1..ChunkPackets + 1
        /\ \A i \in 1..(NPE - 1) : recv_buf[i] # None
    BY DEF Inv, Buffer, RP!IInv, RP!TypeOK, RP!NextIsFirstGap
  <2>3. NPE - 1 <= LPA + Flight
    <3>1. CASE NPE = 1  BY <1>1, <3>1
    <3>2. CASE NPE > 1
      <4>1. recv_buf[NPE - 1] # None /\ NPE - 1 \in Seqs
        BY <2>2, <3>2
      <4> QED  BY <1>2, <4>1 DEF Joined
    <3> QED  BY <2>2, <3>1, <3>2
  <2>4. ~Detached \/ (up \in written /\ LPA >= ChunkPackets - Flight)
    BY <1>1 DEF Detached
  <2> QED  BY <1>1, <1>2, <2>1, <2>2, <2>3, <2>4
<1>3. CASE Detached
  <2>1. up \in written /\ LPA >= ChunkPackets - Flight
    BY <1>1, <1>3 DEF Detached
  <2>2. Joined => Head(toB).num <= NPE - 1
    BY <1>1 DEF Joined
  <2> QED  BY <1>1, <2>1, <2>2
<1> QED  BY <1>2, <1>3

\* The buffer and the packets under way as B acknowledges more.
LEMMA FreshMonotone ==
  ASSUME Inv, Inv', LPA' >= LPA, UNCHANGED <<up, recv_buf>>, NEW p, p.seq \in Seqs, Fresh(p)
  PROVE  Fresh(p)'
BY ThresholdBounds DEF Fresh, Inv, SP!IInv, SP!TypeOK

LEMMA AckPeers ==
  ASSUME Inv, Inv', LongChunks, Joined \/ Detached, OnAck
  PROVE  Peers'
<1> DEFINE a == Head(toB).num
<1>1. /\ toB # <<>> /\ Head(toB).type = "ACK" /\ toB' = Tail(toB) /\ toB \in Seq(ToB)
      /\ S!UponReceiveACK(a) \/ (~UploadOpen /\ UNCHANGED window)
      /\ UNCHANGED <<up, buffer, asked, downloading, written, alive, toA>>
  BY DEF OnAck, avars, conn, Inv, Channels
<1>2. /\ Len(toB) \in Nat /\ Len(toB') = Len(toB) - 1
      /\ \A i \in 1..Len(toB') : i + 1 \in 1..Len(toB) /\ toB'[i] = toB[i + 1]
  BY <1>1, TailItems
<1>3. UNCHANGED <<NPE, recv_buf, Current, EmptyBuffer>>
  BY <1>1 DEF buffer, Current, EmptyBuffer
<1>4. S!UponReceiveACK(a) => UploadOpen /\ sphase = "recv"
  BY DEF S!UponReceiveACK, UploadOpen
<1>5. UNCHANGED window \/ ( /\ UploadOpen /\ a \in 0..ChunkPackets
                           /\ LPA' \in {LPA, a} /\ LPA' >= LPA /\ LPR' = LPR
                           /\ sphase' = "send")
  <2>1. SP!IInv
    BY DEF Inv
  <2> QED  BY <1>1, <1>4, <2>1, AckInFlight, AckMoves
<1>6. LPA' >= LPA /\ LPA \in Int /\ LPA' \in Int
  BY <1>5, WindowTypes DEF window, Inv, SP!IInv, SP!TypeOK
<1>7. CASE Joined
  <2>1. LPA' <= NPE - 1
    BY <1>1, <1>5, <1>7, AckInFlight DEF Joined, window
  <2>2. \A i \in Seqs : recv_buf[i] # None => recv_buf[i] = up /\ i <= LPA' + Flight
    BY <1>6, <1>7, ThresholdBounds DEF Joined
  <2>3. ASSUME NEW k \in 0..Len(toA), Arriving(k) PROVE Arriving(k)'
    <3>1. \A i \in 1..Len(toA) : i > k => Fresh(toA[i])'
      <4>1. ASSUME NEW i \in 1..Len(toA), i > k PROVE Fresh(toA[i])'
        <5>1. toA[i].seq \in Seqs
          BY ToAItems DEF Inv
        <5>2. Fresh(toA[i]) /\ toA' = toA
          BY <1>1, <2>3, <4>1 DEF Arriving
        <5>3. ASSUME NEW p, p = toA[i] PROVE Fresh(p)'
          BY <1>1, <1>3, <1>6, <5>1, <5>2, <5>3, FreshMonotone
        <5> QED  BY <5>2, <5>3
      <4> QED  BY <4>1
    <3> QED  BY <1>1, <1>3, <2>3, <3>1 DEF Arriving, Stale
  <2>4. \E k \in 0..Len(toA)' : Arriving(k)'
    <3>1. PICK k \in 0..Len(toA) : Arriving(k)
      BY <1>7 DEF Joined
    <3>2. Arriving(k)' /\ k \in 0..Len(toA)'
      BY <1>1, <2>3, <3>1
    <3> QED  BY <3>2
  <2>5. \A i \in 1..Len(toB') : toB'[i].type = "ACK" /\ toB'[i].num <= NPE - 1
    BY <1>2, <1>7 DEF Joined
  <2>6. Joined'
    BY <1>1, <1>3, <1>7, <2>1, <2>2, <2>4, <2>5 DEF Joined
  <2> QED  BY <2>6 DEF Peers
<1>8. CASE Detached
  <2>1. \A i \in 1..Len(toA) : Stale(toA[i])'
    BY <1>1, <1>8 DEF Detached, Stale
  <2>2. \A i \in 1..Len(toB') : toB'[i].type = "GET" => i = Len(toB') /\ toB'[i].hash = Current
    BY <1>2, <1>8 DEF Detached
  <2>3. CASE UNCHANGED window
    BY <1>1, <1>2, <1>3, <1>8, <2>1, <2>2, <2>3 DEF Peers, Detached, window, AllSent, UploadOpen
  <2>4. CASE UploadOpen /\ LPA' >= LPA /\ LPR' = LPR /\ sphase' = "send"
    <3>1. up \in written /\ LPA >= ChunkPackets - Flight
      BY <1>1, <1>8, <2>4, AckInFlight
    <3>2. LPA' > RecvWin /\ LPA' >= ChunkPackets - Flight
      BY <1>6, <3>1, ThresholdBounds DEF LongChunks
    <3>3. Detached'
      BY <1>1, <1>3, <1>8, <2>1, <2>2, <2>4, <3>1, <3>2 DEF Detached
    <3> QED  BY <3>3 DEF Peers
  <2> QED  BY <1>5, <2>3, <2>4
<1> QED  BY <1>7, <1>8

\* What is in a channel after the m packets above l have been sent.
LEMMA SentItems ==
  ASSUME NEW s \in Seq(ToA), NEW l \in Int, NEW m \in Nat, NEW c, NEW ps \in Seq(ToA),
         Len(ps) = m, \A i \in 1..m : ps[i].seq = l + i /\ ps[i].payload = c,
         NEW t, t = s \o ps
  PROVE  /\ Len(s) \in Nat /\ Len(t) \in Nat /\ Len(s) <= Len(t)
         /\ \A i \in 1..Len(t) :
              \/ i \in 1..Len(s) /\ t[i] = s[i]
              \/ /\ i > Len(s) /\ t[i].payload = c
                 /\ t[i].seq = l + (i - Len(s)) /\ t[i].seq \in Int
                 /\ l < t[i].seq /\ t[i].seq <= l + m
<1>1. Len(s) \in Nat /\ Len(s \o ps) = Len(s) + Len(ps)
  BY JoinItems
<1>2. Len(s) \in Nat /\ Len(t) \in Nat /\ Len(t) = Len(s) + m
  BY <1>1
<1>3. \A i \in 1..Len(t) :
        \/ i \in 1..Len(s) /\ t[i] = s[i]
        \/ i > Len(s) /\ i - Len(s) \in 1..m /\ t[i] = ps[i - Len(s)]
  <2>1. \A i \in 1..Len(s \o ps) :
          \/ i \in 1..Len(s) /\ (s \o ps)[i] = s[i]
          \/ i > Len(s) /\ i - Len(s) \in 1..Len(ps) /\ (s \o ps)[i] = ps[i - Len(s)]
    BY JoinItems
  <2> QED  BY <2>1, Zenon
<1>4. ASSUME NEW i \in 1..Len(t), i > Len(s), i - Len(s) \in 1..m, t[i] = ps[i - Len(s)]
      PROVE  /\ t[i].payload = c
             /\ t[i].seq = l + (i - Len(s)) /\ t[i].seq \in Int
             /\ l < t[i].seq /\ t[i].seq <= l + m
  <2>1. t[i].seq = l + (i - Len(s)) /\ t[i].payload = c
    BY <1>4, Zenon
  <2>2. \A x \in 1..m : l + x \in Int /\ l < l + x /\ l + x <= l + m
    OBVIOUS
  <2> QED  BY <1>4, <2>1, <2>2, Zenon
<1> QED  BY <1>2, <1>3, <1>4

\* window_sender: what it sends to a new buffer is its own, and beyond what an empty one accepts
\* if nobody waits for it.
LEMMA SendPeers ==
  ASSUME Inv, Inv', LongChunks, Sending, Sending', Joined \/ Detached, SendWindow
  PROVE  Peers'
<1>1. /\ UNCHANGED <<up, LPA, LPR, buffer, asked, downloading, written, alive, toB>>
      /\ sphase = "send" /\ sphase' = "check"
  BY DEF SendWindow, S!WindowSender, S!NothingToSend, avars, conn
<1>2. UNCHANGED <<NPE, recv_buf, Current, EmptyBuffer>>
  BY <1>1 DEF buffer, Current, EmptyBuffer
<1>3. CASE S!NothingToSend /\ UNCHANGED toA
  <2>1. UNCHANGED <<LPS, count>> /\ UploadOpen
    BY <1>1, <1>3 DEF S!NothingToSend, UploadOpen
  <2> QED  BY <1>1, <1>3, <2>1, PeersUnaffected DEF Peers, ends
<1>4. CASE S!WindowSender /\ toA' = toA \o [i \in 1..(LPS' - LPS) |-> Data(LPS + i, up)]
  <2>1. /\ LPS' >= LPS /\ LPS' \in Int /\ LPS \in Int /\ count' = 0 /\ LPS' <= ChunkPackets
        /\ LPS < LPR - 1 /\ count # 0 /\ UploadOpen /\ UploadOpen'
    BY <1>1, <1>4, WindowTypes
    DEF S!WindowSender, S!Sendable, S!MinOf, S!MaxOf, UploadOpen, Inv
  <2>2. PICK m : m = LPS' - LPS /\ m \in Nat
    BY <2>1
  <2>3. LPA \in Int /\ 0 <= LPA /\ LPA <= LPS /\ Flight \in Nat
    BY ThresholdBounds, WindowTypes DEF Inv
  <2>4. LPS + m <= LPA + Flight
    <3>1. LPS' - LPA' <= Flight
      BY <2>1 DEF Sending
    <3>2. LPS' - LPA <= Flight
      BY <1>1, <3>1, Zenon
    <3>3. \A x, y, z, f, d \in Int : x - y <= f /\ d = x - z => z + d <= y + f
      OBVIOUS
    <3>4. m \in Int /\ Flight \in Int
      BY <2>2, <2>3
    <3> QED  BY <2>1, <2>2, <2>3, <3>2, <3>3, <3>4, Zenon
  <2>5. PICK ps : ps = [i \in 1..m |-> Data(LPS + i, up)] /\ toA' = toA \o ps
    BY <1>4, <2>2
  <2>6. PICK t : t = toA' /\ t = toA \o ps
    BY <2>5
  <2>7. m \in Nat /\ LPS \in Int
    BY <2>1, <2>2
  <2>8. /\ Len(toA) \in Nat /\ Len(t) \in Nat /\ Len(toA) <= Len(t)
        /\ \A i \in 1..Len(t) :
             \/ i \in 1..Len(toA) /\ t[i] = toA[i]
             \/ /\ i > Len(toA) /\ t[i].payload = up
                /\ t[i].seq = LPS + (i - Len(toA)) /\ t[i].seq \in Int
                /\ LPS < t[i].seq /\ t[i].seq <= LPS + m
    <3>1. ps \in Seq(ToA) /\ toA \in Seq(ToA) /\ t = toA \o ps
      BY <1>4, <2>2, <2>5, <2>6, WindowToA DEF Inv, Channels
    <3>2. Len(ps) = m
      BY <2>5, <2>7
    <3>3. \A i \in 1..m : ps[i].seq = LPS + i /\ ps[i].payload = up
      BY <2>5 DEF Data
    <3>4. m \in Nat /\ LPS \in Int /\ t = toA \o ps
      BY <2>7, <3>1
    <3> QED  BY <3>1, <3>2, <3>3, <3>4, SentItems
  <2>9. CASE Joined
    <3>1. PICK k \in 0..Len(toA) : Arriving(k)
      BY <2>9 DEF Joined
    <3>2. \A p : Fresh(p)' <=> Fresh(p)
      BY <1>1, <1>2 DEF Fresh
    <3>3. \A i \in 1..Len(t) : i > k => Fresh(t[i])
      <4>1. ASSUME NEW i \in 1..Len(t), i > Len(toA) PROVE Fresh(t[i])
        <5>1. /\ t[i].payload = up /\ t[i].seq > LPS /\ t[i].seq \in Int
              /\ t[i].seq <= LPA + Flight
          <6>1. LPS < t[i].seq /\ t[i].seq <= LPS + m /\ t[i].seq \in Int /\ t[i].payload = up
            BY <2>8, <4>1
          <6> QED  BY <2>3, <2>4, <2>7, <6>1
        <5>2. \A j \in Seqs : recv_buf[j] # None => j <= LPA + Flight
          BY <2>9 DEF Joined
        <5>3. \A q, j \in Int : q > LPS /\ j <= LPA + Flight => j < q + Flight
          BY <2>3, <2>7
        <5> QED  BY <5>1, <5>2, <5>3 DEF Fresh
      <4> QED  BY <2>8, <3>1, <4>1 DEF Arriving
    <3>4. \A i, j \in 1..Len(t) : k < i /\ i < j => t[i].seq < t[j].seq + Flight
      <4>1. ASSUME NEW i \in 1..Len(t), NEW j \in 1..Len(t), k < i, i < j
            PROVE  t[i].seq < t[j].seq + Flight
        <5>1. CASE j \in 1..Len(toA)
          <6>1. i \in 1..Len(toA) /\ t[i] = toA[i] /\ t[j] = toA[j]
            BY <2>8, <4>1, <5>1
          <6> QED  BY <3>1, <4>1, <5>1, <6>1 DEF Arriving
        <5>2. CASE j > Len(toA) /\ i \in 1..Len(toA)
          <6>1. t[i] = toA[i] /\ toA[i].seq \in Int
            BY <2>8, <5>2, ToAItems DEF Inv
          <6>2. toA[i].seq <= LPA + Flight
            BY <3>1, <4>1, <5>2 DEF Arriving, Fresh
          <6>3. t[j].seq > LPS /\ t[j].seq \in Int
            BY <2>8, <4>1, <5>2
          <6> QED  BY <2>3, <2>7, <6>1, <6>2, <6>3
        <5>3. CASE j > Len(toA) /\ i > Len(toA)
          <6>1. /\ t[j].seq = LPS + (j - Len(toA)) /\ t[i].seq = LPS + (i - Len(toA))
            BY <2>8, <4>1, <5>3
          <6>2. \A x, y, l \in Int : x < y => LPS + (x - l) < LPS + (y - l) + Flight
            BY <2>3, <2>7
          <6>3. i \in Int /\ j \in Int /\ Len(toA) \in Int
            BY <2>8
          <6> QED  BY <4>1, <6>1, <6>2, <6>3, Zenon
        <5> QED  BY <2>8, <5>1, <5>2, <5>3
      <4> QED  BY <4>1
    <3>5. \A i \in 1..Len(t) : i <= k => Stale(t[i])
      BY <2>8, <3>1 DEF Arriving
    <3>6. Arriving(k)'
      BY <1>2, <2>6, <3>1, <3>2, <3>3, <3>4, <3>5 DEF Arriving, Stale
    <3>7. k \in 0..Len(toA)'
      <4>1. k \in 0..Len(t)
        BY <2>8
      <4> QED  BY <2>6, <4>1, Zenon
    <3>8. Joined'
      BY <1>1, <1>2, <2>9, <3>6, <3>7 DEF Joined
    <3> QED  BY <3>8 DEF Peers
  <2>10. CASE Detached
    <3>1. LPA > RecvWin
      <4>1. ~AllSent
        BY <2>1 DEF AllSent, Inv, SP!IInv, SP!TypeOK
      <4> QED  BY <2>1, <2>10, <4>1 DEF Detached
    <3>2. \A i \in 1..Len(t) : Stale(t[i])
      <4>1. ASSUME NEW i \in 1..Len(t), i > Len(toA) PROVE Stale(t[i])
        BY <2>3, <2>7, <2>8, <3>1, <4>1 DEF Stale
      <4> QED  BY <2>8, <2>10, <4>1 DEF Detached
    <3>3. Detached'
      BY <1>1, <1>2, <2>1, <2>6, <2>10, <3>1, <3>2 DEF Detached, Stale
    <3> QED  BY <3>3 DEF Peers
  <2> QED  BY <2>9, <2>10
<1> QED  BY <1>1, <1>3, <1>4 DEF SendWindow, Joined, Detached

LEMMA PassPeers ==
  ASSUME Inv, Joined \/ Detached, UploadPass
  PROVE  Peers'
<1>1. /\ UNCHANGED <<up, LPA, LPR, buffer, asked, downloading, written, alive, toA, toB>>
      /\ sphase = "check" /\ UploadOpen
  BY DEF UploadPass, S!FinishUpload, S!AbortUpload, S!CheckDatapackTimeout, S!NoTimeout,
         S!Collapse, avars, conn, UploadOpen
<1>2. CASE UNCHANGED <<LPS, count>>
  <2>1. \/ sphase' = "done" /\ LPA = LPR - 1
        \/ sphase' = "aborted"
        \/ sphase' = "recv"
    BY DEF UploadPass, S!FinishUpload, S!AllAcked, S!AbortUpload, S!CheckDatapackTimeout,
           S!NoTimeout
  <2> QED  BY <1>1, <1>2, <2>1, PeersUnaffected DEF Peers, ends
<1>3. CASE S!CheckDatapackTimeout
  <2>1. LPA # 0 /\ LPA >= 1
    BY <1>3, WindowTypes DEF S!CheckDatapackTimeout, S!TimeoutApplies, Inv
  <2>2. UNCHANGED <<NPE, recv_buf, Current, EmptyBuffer>> /\ UploadOpen'
    BY <1>1, <1>3 DEF buffer, Current, EmptyBuffer, S!CheckDatapackTimeout, UploadOpen
  <2>3. CASE Joined
    <3>1. \A p : (Fresh(p)' <=> Fresh(p)) /\ (Stale(p)' <=> Stale(p))
      BY <1>1, <2>2 DEF Fresh, Stale
    <3>2. \A k : Arriving(k)' <=> Arriving(k)
      BY <1>1, <2>2, <3>1 DEF Arriving
    <3>3. Joined'
      BY <1>1, <2>2, <2>3, <3>2 DEF Joined
    <3> QED  BY <3>3 DEF Peers
  <2>4. CASE Detached
    <3>1. LPA > RecvWin
      BY <1>1, <2>1, <2>4 DEF Detached
    <3>2. Detached'
      BY <1>1, <2>2, <2>4, <3>1 DEF Detached, Stale
    <3> QED  BY <3>2 DEF Peers
  <2> QED  BY <2>3, <2>4
<1> QED
  BY <1>2, <1>3 DEF UploadPass, S!FinishUpload, S!AbortUpload, S!NoTimeout

\* The buffer of a new download refuses what an earlier one has left.
LEMMA StaleRefused ==
  ASSUME Inv, toA # <<>>, NEW p, p = Head(toA), Stale(p), EmptyBuffer,
         \/ R(None)!Outside(p.seq)
         \/ R(None)!Accepted(p.seq)
  PROVE  R(None)!Outside(p.seq) /\ ~R(None)!Accepted(p.seq)
<1>1. p.seq \in Seqs
  BY HeadOfToA DEF Inv
<1>2. NPE = 1 /\ p.seq > RecvWin + 1
  BY DEF EmptyBuffer, Stale
<1>3. ~R(None)!Accepted(p.seq)
  BY <1>1, <1>2 DEF R!Accepted, R!MinOf
<1> QED  BY <1>3

\* What upon_receiving_datapack does to the buffer: at most the slot of the packet is filled with
\* its payload, NPE does not move back, and the ACKs are below it.
LEMMA BufferAfterData ==
  ASSUME Inv, Inv', toA # <<>>, NEW p, p = Head(toA),
         \/ R(None)!Outside(p.seq)
         \/ /\ R(None)!Accepted(p.seq)
            /\ \/ R(None)!InOrder(p.seq, p.payload)
               \/ R(None)!Ahead(p.seq, p.payload)
               \/ R(None)!Behind(p.seq, p.payload)
  PROVE  /\ \A i \in Seqs : recv_buf'[i] = recv_buf[i] \/ (i = p.seq /\ recv_buf'[i] = p.payload)
         /\ NPE' \in Int /\ NPE' >= NPE
         /\ \A n \in acks' : n <= NPE' - 1
<1>1. /\ p.seq \in Seqs /\ NPE \in 1..(ChunkPackets + 1)
      /\ recv_buf \in [Seqs -> Chunks \cup {None}]
  BY HeadOfToA DEF Inv, Buffer, RP!IInv, RP!TypeOK, RP!Seqs
<1>2. /\ NPE' \in Int /\ acks' \in SUBSET (0..ChunkPackets)
      /\ \A n \in acks' : n < NPE'
  BY DEF Inv, Buffer, RP!IInv, RP!TypeOK, RP!AcksBelowNPE
<1>3. \A n \in acks' : n <= NPE' - 1
  <2>1. \A x, y \in Int : x < y => x <= y - 1
    OBVIOUS
  <2>2. \A n \in acks' : n \in Int
    BY <1>2
  <2> QED  BY <1>2, <2>1, <2>2, Zenon
<1>4. CASE R(None)!Outside(p.seq)
  BY <1>1, <1>3, <1>4 DEF R!Outside
<1>5. CASE R(None)!InOrder(p.seq, p.payload)
  <2>1. PICK n \in (p.seq + 1)..(ChunkPackets + 1) : NPE' = n
    BY <1>5 DEF R!InOrder, R!NextAfter
  <2>2. NPE' \in Int /\ NPE' >= NPE
    BY <1>1, <1>5, <2>1 DEF R!InOrder
  <2>3. recv_buf' = [recv_buf EXCEPT ![p.seq] = p.payload]
    BY <1>5 DEF R!InOrder, R!Stored
  <2> QED  BY <1>1, <1>3, <2>2, <2>3
<1>6. CASE R(None)!Ahead(p.seq, p.payload) \/ R(None)!Behind(p.seq, p.payload)
  <2>1. NPE' = NPE /\ recv_buf' = [recv_buf EXCEPT ![p.seq] = p.payload]
    BY <1>6 DEF R!Ahead, R!Behind, R!Stored
  <2> QED  BY <1>1, <1>3, <2>1
<1> QED  BY <1>4, <1>5, <1>6

\* The ACKs that join the channel.
LEMMA AcksJoin ==
  ASSUME Inv, toA # <<>>, NEW p, p = Head(toA), toB' = toB \o AckSeq(acks'),
         \/ R(None)!Outside(p.seq)
         \/ /\ R(None)!Accepted(p.seq)
            /\ \/ R(None)!InOrder(p.seq, p.payload)
               \/ R(None)!Ahead(p.seq, p.payload)
               \/ R(None)!Behind(p.seq, p.payload)
  PROVE  \A i \in 1..Len(toB') :
           \/ i \in 1..Len(toB) /\ toB'[i] = toB[i]
           \/ toB'[i].type = "ACK" /\ toB'[i].num \in acks'
<1>1. PICK a \in 0..ChunkPackets, b \in Int : b <= ChunkPackets /\ acks' = a..b
  BY AcksInterval
<1>2. PICK as : as = AckSeq(a..b) /\ as = AckSeq(acks')
  BY <1>1
<1>3. as \in Seq(ToB) /\ \A i \in 1..Len(as) : as[i].type = "ACK" /\ as[i].num \in acks'
  BY <1>1, <1>2, AckSeqType, AckSeqItems
<1>4. toB \in Seq(ToB) /\ toB' = toB \o as
  BY <1>2 DEF Inv, Channels
<1>5. \A i \in 1..Len(toB \o as) :
        \/ i \in 1..Len(toB) /\ (toB \o as)[i] = toB[i]
        \/ i - Len(toB) \in 1..Len(as) /\ (toB \o as)[i] = as[i - Len(toB)]
  BY <1>3, <1>4, JoinItems
<1>6. \A i \in 1..Len(toB \o as) :
        \/ i \in 1..Len(toB) /\ (toB \o as)[i] = toB[i]
        \/ (toB \o as)[i].type = "ACK" /\ (toB \o as)[i].num \in acks'
  BY <1>3, <1>5, Zenon
<1> QED  BY <1>4, <1>6, Zenon

\* upon_receiving_datapack with the upload A waits for: a packet of its own, or one that is refused.
LEMMA DataJoined ==
  ASSUME Inv, Inv', LongChunks, Joined, OnData
  PROVE  Joined'
<1> DEFINE p == Head(toA)
<1>1. /\ toA # <<>> /\ toA' = Tail(toA) /\ toA \in Seq(ToA)
      /\ downloading' = IF downloading # None THEN downloading ELSE asked
      /\ asked' = None
      /\ \/ R(None)!Outside(p.seq)
         \/ /\ R(None)!Accepted(p.seq)
            /\ \/ R(None)!InOrder(p.seq, p.payload)
               \/ R(None)!Ahead(p.seq, p.payload)
               \/ R(None)!Behind(p.seq, p.payload)
      /\ toB' = toB \o AckSeq(acks')
      /\ UNCHANGED <<LPA, up, alive>>
  BY DEF OnData, Inv, Channels, Joined, Current, bvars, window
<1>2. Current' = Current
  BY <1>1 DEF Current, Joined, Inv, Lists
<1>3. /\ Len(toA) \in Nat /\ Len(toA) >= 1 /\ p = toA[1] /\ 1 \in 1..Len(toA)
      /\ Len(toA') = Len(toA) - 1
      /\ \A i \in 1..Len(toA') : i + 1 \in 1..Len(toA) /\ toA'[i] = toA[i + 1]
  BY <1>1, TailItems
<1>4. p.seq \in Seqs /\ p.payload \in Chunks
  BY <1>1, HeadOfToA DEF Inv
<1>5. /\ \A i \in Seqs : recv_buf'[i] = recv_buf[i] \/ (i = p.seq /\ recv_buf'[i] = p.payload)
      /\ NPE' \in Int /\ NPE' >= NPE /\ \A n \in acks' : n <= NPE' - 1
  BY <1>1, BufferAfterData
<1>6. NPE \in Int /\ LPA \in Int /\ Flight \in Nat
  BY ThresholdBounds, WindowTypes DEF Inv, Buffer, RP!IInv, RP!TypeOK
<1>7. \A i \in 1..Len(toB') : toB'[i].type = "ACK" /\ toB'[i].num <= NPE' - 1
  <2>1. ASSUME NEW i \in 1..Len(toB), toB'[i] = toB[i]
        PROVE  toB'[i].type = "ACK" /\ toB'[i].num <= NPE' - 1
    <3>1. toB[i].type = "ACK" /\ toB[i].num <= NPE - 1 /\ toB[i].num \in Int
      BY ToBItems DEF Joined, Inv
    <3> QED  BY <1>5, <1>6, <2>1, <3>1
  <2>2. \A i \in 1..Len(toB') :
          \/ i \in 1..Len(toB) /\ toB'[i] = toB[i]
          \/ toB'[i].type = "ACK" /\ toB'[i].num \in acks'
    BY <1>1, AcksJoin
  <2> QED  BY <1>5, <2>1, <2>2, Zenon
<1>8. LPA <= NPE' - 1
  BY <1>5, <1>6 DEF Joined
<1>9. PICK k \in 0..Len(toA) : Arriving(k)
  BY DEF Joined
<1>10. CASE k = 0
  <2>1. Fresh(p)
    BY <1>3, <1>9, <1>10 DEF Arriving
  <2>2. \A i \in Seqs : recv_buf'[i] # None => recv_buf'[i] = up /\ i <= LPA + Flight
    BY <1>5, <2>1 DEF Fresh, Joined
  <2>3. \A i \in 1..Len(toA') :
          /\ toA'[i].payload = up' /\ toA'[i].seq <= LPA' + Flight
          /\ \A j \in Seqs : recv_buf'[j] # None => j < toA'[i].seq + Flight
    <3>1. ASSUME NEW i \in 1..Len(toA')
          PROVE  /\ toA'[i].payload = up' /\ toA'[i].seq <= LPA' + Flight
                 /\ \A j \in Seqs : recv_buf'[j] # None => j < toA'[i].seq + Flight
      <4>1. PICK q : q = toA'[i] /\ q = toA[i + 1] /\ i + 1 \in 1..Len(toA) /\ i + 1 > 1
        BY <1>3
      <4>2. Fresh(q) /\ p.seq < q.seq + Flight
        <5>1. \A n \in 1..Len(toA) : n > 0 => Fresh(toA[n])
          BY <1>9, <1>10 DEF Arriving
        <5>2. \A m, n \in 1..Len(toA) : 0 < m /\ m < n => toA[m].seq < toA[n].seq + Flight
          BY <1>9, <1>10 DEF Arriving
        <5>3. 1 \in 1..Len(toA) /\ p = toA[1]
          BY <1>3
        <5> QED  BY <4>1, <5>1, <5>2, <5>3
      <4>3. q.payload = up' /\ q.seq <= LPA' + Flight
        BY <1>1, <4>2 DEF Fresh
      <4>4. \A j \in Seqs : recv_buf'[j] # None => j < q.seq + Flight
        BY <1>5, <4>2 DEF Fresh
      <4> QED  BY <4>1, <4>3, <4>4
    <3> QED  BY <3>1
  <2>4. \A i, j \in 1..Len(toA') : i < j => toA'[i].seq < toA'[j].seq + Flight
    <3>1. ASSUME NEW i \in 1..Len(toA'), NEW j \in 1..Len(toA'), i < j
          PROVE  toA[i + 1].seq < toA[j + 1].seq + Flight
      <4>1. i + 1 \in 1..Len(toA) /\ j + 1 \in 1..Len(toA) /\ 0 < i + 1 /\ i + 1 < j + 1
        BY <1>3, <3>1
      <4> QED  BY <1>9, <1>10, <4>1 DEF Arriving
    <3> QED  BY <1>3, <3>1
  <2>5. Arriving(0)'
    <3>1. \A i \in 1..Len(toA)' : i > 0 /\ ~(i <= 0)
      BY <1>3
    <3> QED  BY <2>3, <2>4, <3>1 DEF Arriving, Fresh
  <2>6. 0 \in 0..Len(toA)'
    BY <1>3
  <2> QED  BY <1>1, <1>2, <1>7, <1>8, <2>2, <2>5, <2>6 DEF Joined
<1>11. CASE k > 0
  <2>1. Stale(p) /\ EmptyBuffer
    BY <1>3, <1>9, <1>11 DEF Arriving
  <2>2. R(None)!Outside(p.seq)
    BY <1>1, <2>1, StaleRefused
  <2>3. UNCHANGED <<NPE, recv_buf>>
    BY <2>2 DEF R!Outside
  <2>4. \A q : (Fresh(q)' <=> Fresh(q)) /\ (Stale(q)' <=> Stale(q))
    BY <1>1, <2>3 DEF Fresh, Stale
  <2>5. PICK l : l = k - 1 /\ l \in Nat /\ l <= Len(toA')
    BY <1>3, <1>11
  <2>6. /\ \A i \in 1..Len(toA') : i <= l => Stale(toA'[i])
        /\ \A i \in 1..Len(toA') : i > l => Fresh(toA'[i])
        /\ \A i, j \in 1..Len(toA') : l < i /\ i < j => toA'[i].seq < toA'[j].seq + Flight
    BY <1>3, <1>9, <2>5 DEF Arriving
  <2>7. EmptyBuffer'
    BY <2>1, <2>3 DEF EmptyBuffer
  <2>8. Arriving(l)'
    BY <2>4, <2>6, <2>7 DEF Arriving
  <2>9. l \in 0..Len(toA)'
    BY <1>3, <2>5
  <2>10. \A i \in Seqs : recv_buf'[i] = None
    BY <2>7 DEF EmptyBuffer
  <2> QED  BY <1>1, <1>2, <1>7, <1>8, <2>8, <2>9, <2>10 DEF Joined
<1> QED  BY <1>9, <1>10, <1>11

LEMMA DataDetached ==
  ASSUME Inv, Inv', LongChunks, Detached, OnData
  PROVE  Detached'
<1> DEFINE p == Head(toA)
<1>1. /\ toA # <<>> /\ toA' = Tail(toA) /\ toA \in Seq(ToA)
      /\ UNCHANGED <<LPA, LPS, LPR, count, sphase, up, written, alive>>
  BY DEF OnData, Inv, Channels, bvars, window
<1>2. /\ Len(toA) \in Nat /\ p = toA[1] /\ 1 \in 1..Len(toA)
      /\ \A i \in 1..Len(toA') : i + 1 \in 1..Len(toA) /\ toA'[i] = toA[i + 1]
  BY <1>1, TailItems
<1>3. Stale(p) /\ EmptyBuffer
  BY <1>2 DEF Detached
<1>4. Current' = Current /\ UNCHANGED <<buffer, toB>>
  <2>1. CASE asked = None /\ downloading = None /\ UNCHANGED <<conn, buffer, acks, toB>>
    BY <2>1 DEF Current, conn
  <2>2. CASE /\ downloading' = IF downloading # None THEN downloading ELSE asked
             /\ asked' = None
             /\ \/ R(None)!Outside(p.seq)
                \/ /\ R(None)!Accepted(p.seq)
                   /\ \/ R(None)!InOrder(p.seq, p.payload)
                      \/ R(None)!Ahead(p.seq, p.payload)
                      \/ R(None)!Behind(p.seq, p.payload)
             /\ toB' = toB \o AckSeq(acks')
    <3>1. Current' = Current
      BY <2>2 DEF Current, Inv, Lists
    <3>2. R(None)!Outside(p.seq)
      BY <1>1, <1>3, <2>2, StaleRefused
    <3>3. acks' = {} /\ UNCHANGED buffer
      BY <3>2 DEF R!Outside, buffer
    <3>4. toB' = toB \o <<>>
      BY <2>2, <3>3, NoAcks
    <3>5. toB' = toB
      BY <3>4 DEF Inv, Channels
    <3> QED  BY <3>1, <3>3, <3>5
  <2> QED  BY <2>1, <2>2 DEF OnData
<1>5. \A i \in 1..Len(toA') : Stale(toA'[i])
  BY <1>2 DEF Detached
<1> QED  BY <1>1, <1>4, <1>5 DEF Detached, EmptyBuffer, buffer, AllSent, UploadOpen, Stale

-----------------------------------------------------------------------------
(* A's passes                                                              *)

\* A gives up a download: nothing is under way, and B's upload is silent or far beyond what the
\* next download accepts.
LEMMA GiveUp ==
  ASSUME Inv, Inv', LongChunks, Calm, Sending, ~NearOrphan', Joined \/ Detached,
         Current # None, Current' = None, toA = <<>>, toB = <<>>, aphase # "recv",
         downloading = None \/ ~R(None)!Complete, EmptyBuffer', downloading' = None,
         UNCHANGED <<LPA, LPS, LPR, count, sphase, up, written, alive, toA, toB>>
  PROVE  Detached'
<1>1. alive /\ sphase \in {"recv", "done", "aborted"}
  BY DEF Calm
<1>2. Len(toA) = 0 /\ Len(toB) = 0
  BY <1>1
<1>3. LPA \in Int /\ 0 <= LPA
  BY WindowTypes DEF Inv
<1>4. UploadOpen => LPA > RecvWin \/ (LPA = 0 /\ (count = 0 \/ AllSent))
  <2>1. ASSUME UploadOpen, LPA = 0 PROVE count = 0 \/ AllSent
    BY <1>1, <2>1 DEF Sending
  <2>2. ASSUME UploadOpen, LPA > 0 PROVE LPA > RecvWin
    <3>1. Orphaned'
      BY <2>2 DEF Orphaned, UploadOpen
    <3>2. alive'
      BY <1>1
    <3> QED  BY <1>3, <3>1, <3>2 DEF NearOrphan
  <2> QED  BY <1>3, <2>1, <2>2
<1>5. (UploadOpen \/ sphase = "done") /\ LPR # 1 /\ LPA = ChunkPackets => up \in written
  <2>1. CASE Detached
    BY <2>1 DEF Detached
  <2>2. CASE Joined
    <3>1. LPA <= NPE - 1 /\ recv_bytesnum = NPE - 1 /\ NPE \in 1..(ChunkPackets + 1)
          /\ (downloading = None => NPE = 1)
      BY <2>2 DEF Joined, Inv, Buffer, EmptyWhenIdle, RP!IInv, RP!TypeOK, RP!BytesMatchNPE
    <3>2. ~(LPA = ChunkPackets)
      <4>1. CASE downloading = None
        BY <3>1, <4>1
      <4>2. CASE recv_bytesnum # ChunkPackets
        BY <3>1, <4>2
      <4> QED  BY <4>1, <4>2 DEF R!Complete
    <3> QED  BY <3>2
  <2> QED  BY <2>1, <2>2
<1> QED  BY <1>1, <1>2, <1>4, <1>5 DEF Detached, UploadOpen, AllSent

LEMMA CheckTimeoutPeers ==
  ASSUME Inv, Inv', LongChunks, Calm, Sending, ~LeavesPackets, ~NearOrphan',
         Joined \/ Detached, CheckTimeout
  PROVE  Peers'
<1>1. /\ aphase = "timeouts" /\ asked' = IF GetDue THEN None ELSE asked
      /\ UNCHANGED <<buffer, downloading, sphase, LPA, LPS, LPR, count, up, written, alive, toA, toB>>
  BY DEF CheckTimeout, bvars, window
<1>2. CASE GetDue
  <2>1. asked # None /\ downloading = None /\ toA = <<>> /\ toB = <<>>
    BY <1>1, <1>2 DEF GetDue, LeavesPackets, Calm, Inv, Lists
  <2>2. Current # None /\ Current' = None /\ downloading' = None
    BY <1>1, <1>2, <2>1 DEF Current
  <2>3. EmptyBuffer'
    BY <1>1, <2>1 DEF EmptyBuffer, buffer, Inv, Buffer, EmptyWhenIdle
  <2> QED  BY <1>1, <2>1, <2>2, <2>3, GiveUp DEF Peers
<1>3. CASE ~GetDue
  BY <1>1, <1>3, PeersUnaffected DEF Peers, ends
<1> QED  BY <1>2, <1>3

LEMMA DownloadPassPeers ==
  ASSUME Inv, Inv', LongChunks, Calm, Sending, ~LeavesPackets, ~NearOrphan',
         Joined \/ Detached, DownloadPass
  PROVE  Peers'
<1>1. /\ aphase = "downloads" /\ ~(downloading # None /\ R(None)!Complete)
      /\ UNCHANGED <<asked, sphase, LPA, LPS, LPR, count, up, written, alive, toA, toB>>
  BY DEF DownloadPass, bvars, window
<1>2. CASE DownloadDue /\ downloading' = None /\ NoBuffer
  <2>1. downloading # None /\ asked = None /\ toA = <<>> /\ toB = <<>>
    BY <1>1, <1>2 DEF DownloadDue, LeavesPackets, Calm, Inv, Lists
  <2>2. Current # None /\ Current' = None
    BY <1>1, <1>2, <2>1 DEF Current
  <2>3. EmptyBuffer'
    BY <1>2 DEF EmptyBuffer, NoBuffer
  <2> QED  BY <1>1, <1>2, <2>1, <2>2, <2>3, GiveUp DEF Peers
<1>3. CASE UNCHANGED <<downloading, buffer>>
  BY <1>1, <1>3, PeersUnaffected DEF Peers, ends
<1> QED  BY <1>2, <1>3 DEF DownloadPass

\* A asks for the next chunk only when it waits for none.
LEMMA SendGetPeers ==
  ASSUME Inv, Joined \/ Detached, SendGet
  PROVE  Peers'
<1>1. UNCHANGED <<buffer, downloading, sphase, LPA, LPS, LPR, count, up, written, alive, toA>>
  BY DEF SendGet, bvars, window, conn
<1>2. ASSUME NoConn, NEW c \in queue, asked' = c, toB' = Append(toB, Get(c))
      PROVE  Peers'
  <2>1. c \in Chunks /\ c # None /\ Get(c) \in ToB /\ toB \in Seq(ToB)
        /\ Get(c).type = "GET" /\ Get(c).hash = c
    BY DEF Inv, Lists, Get, ToB, Channels
  <2>2. Current = None /\ Current' = c
    BY <1>2, <2>1 DEF Current, NoConn
  <2>3. Detached
    BY <2>2 DEF Joined
  <2>4. /\ Len(toB) \in Nat /\ Len(toB') = Len(toB) + 1
        /\ \A i \in 1..Len(toB') :
             \/ i \in 1..Len(toB) /\ toB'[i] = toB[i]
             \/ i = Len(toB) + 1 /\ toB'[i] = Get(c)
    BY <1>2, <2>1, AppendItems
  <2>5. \A i \in 1..Len(toB) : toB[i].type = "ACK"
    BY <2>2, <2>3, ToBItems DEF Detached, Inv
  <2>6. \A i \in 1..Len(toB') : toB'[i].type = "GET" => i = Len(toB') /\ toB'[i].hash = c
    BY <2>1, <2>4, <2>5
  <2>7. UploadOpen => \A i \in 1..Len(toB') :
          toB'[i].type = "ACK" => up \in written /\ LPA >= ChunkPackets - Flight
    BY <2>1, <2>3, <2>4 DEF Detached
  <2>8. Detached'
    BY <1>1, <2>2, <2>3, <2>6, <2>7 DEF Detached, EmptyBuffer, buffer, Stale, UploadOpen, AllSent
  <2> QED  BY <2>8 DEF Peers
<1>3. CASE UNCHANGED <<asked, toB>>
  BY <1>1, <1>3, PeersUnaffected DEF Peers, ends
<1> QED  BY <1>2, <1>3 DEF SendGet, conn

\* A complete chunk is B's, and what is still under way of it is beyond a new download's reach.
LEMMA ReapPeers ==
  ASSUME Inv, Inv', LongChunks, Joined \/ Detached, Reap
  PROVE  Peers'
<1>1. /\ downloading # None /\ recv_bytesnum = ChunkPackets
      /\ downloading' = None /\ NoBuffer /\ asked = None /\ asked' = None
      /\ UNCHANGED <<sphase, LPA, LPS, LPR, count, up, alive, toA, toB>>
  BY DEF Reap, R!Complete, bvars, window, Inv, Lists
<1>2. NPE = ChunkPackets + 1 /\ \A i \in Seqs : recv_buf[i] # None
  BY <1>1 DEF Inv, Buffer, RP!IInv, RP!TypeOK, RP!BytesMatchNPE, RP!NextIsFirstGap
<1>3. Joined /\ ~EmptyBuffer
  BY <1>2 DEF Detached, EmptyBuffer
<1>4. up = downloading /\ \A i \in Seqs : recv_buf[i] = up
  BY <1>1, <1>2, <1>3 DEF Joined, Current
<1>5. up \in written'
  <2>1. PICK d : d = downloading
    OBVIOUS
  <2>2. R(d)!HashMatches
    BY <1>2, <1>4, <2>1 DEF R!HashMatches
  <2>3. written' = written \cup {d}
    BY <2>1, <2>2 DEF Reap
  <2> QED  BY <1>4, <2>1, <2>3
<1>6. LPA >= ChunkPackets - Flight /\ LPA > RecvWin
  <2>1. ChunkPackets \in Seqs
    OBVIOUS
  <2>2. ChunkPackets <= LPA + Flight
    BY <1>2, <1>3, <2>1 DEF Joined
  <2>3. LPA \in Int /\ Flight \in Nat
    BY ThresholdBounds, WindowTypes DEF Inv
  <2> QED  BY <2>2, <2>3 DEF LongChunks
<1>7. \A i \in 1..Len(toA) : Stale(toA[i])
  <2>1. PICK k \in 0..Len(toA) : Arriving(k)
    BY <1>3 DEF Joined
  <2>2. k = 0
    BY <1>3, <2>1, Lengths DEF Arriving, Inv
  <2>3. ASSUME NEW i \in 1..Len(toA) PROVE Stale(toA[i])
    <3>1. Fresh(toA[i]) /\ toA[i].seq \in Seqs
      BY <2>1, <2>2, ToAItems DEF Arriving, Inv
    <3>2. ChunkPackets < toA[i].seq + Flight
      BY <1>2, <3>1 DEF Fresh
    <3> QED  BY <3>1, <3>2, ThresholdBounds DEF Stale, LongChunks
  <2> QED  BY <2>3
<1>8. EmptyBuffer'
  BY <1>1 DEF EmptyBuffer, NoBuffer
<1>9. \A i \in 1..Len(toB) : toB[i].type = "ACK"
  BY <1>3 DEF Joined
<1>10. Detached'
  BY <1>1, <1>3, <1>5, <1>6, <1>7, <1>8, <1>9 DEF Detached, Joined, Stale
<1> QED  BY <1>10 DEF Peers

\* The first GET command.
LEMMA UserGetPeers ==
  ASSUME Inv, Calm, alive, gets' <= 1, UserGet
  PROVE  Detached'
<1>1. gets = 0 /\ sphase = "aborted" /\ toA = <<>> /\ toB = <<>>
  BY DEF UserGet, Calm, Inv, Rest
<1>2. EmptyBuffer' /\ UNCHANGED <<sphase, toA, toB, alive>>
  BY DEF UserGet, NoBuffer, EmptyBuffer, bvars, window
<1>3. Len(toA') = 0 /\ Len(toB') = 0
  BY <1>1, <1>2
<1> QED  BY <1>1, <1>2, <1>3 DEF Detached, UploadOpen

-----------------------------------------------------------------------------
(* Faults                                                                  *)

LEMMA LosePeers ==
  ASSUME Inv, Joined \/ Detached, Lose
  PROVE  Peers'
<1>1. /\ UNCHANGED <<buffer, asked, downloading, sphase, LPA, LPS, LPR, count, up, written, alive>>
      /\ UNCHANGED <<Current, EmptyBuffer, NPE, recv_buf>>
      /\ toA \in Seq(ToA) /\ toB \in Seq(ToB)
  BY DEF Lose, avars, bvars, window, conn, buffer, Current, EmptyBuffer, Inv, Channels
<1>2. \A p : (Fresh(p)' <=> Fresh(p)) /\ (Stale(p)' <=> Stale(p))
  BY <1>1 DEF Fresh, Stale
<1>3. CASE toA # <<>> /\ toA' = Tail(toA) /\ UNCHANGED toB
  <2>1. /\ Len(toA) \in Nat /\ Len(toA) >= 1 /\ Len(toA') = Len(toA) - 1
        /\ \A i \in 1..Len(toA') : i + 1 \in 1..Len(toA) /\ toA'[i] = toA[i + 1]
    BY <1>1, <1>3, TailItems
  <2>2. CASE Joined
    <3>1. PICK k \in 0..Len(toA) : Arriving(k)
      BY <2>2 DEF Joined
    <3>2. \E l \in 0..Len(toA') : l = k - 1 \/ (k = 0 /\ l = 0)
      <4>1. CASE k = 0
        <5>1. 0 \in 0..Len(toA')
          BY <2>1
        <5> QED  BY <4>1, <5>1
      <4>2. CASE k > 0
        <5>1. k - 1 \in 0..Len(toA')
          BY <2>1, <4>2
        <5> QED  BY <5>1
      <4> QED  BY <4>1, <4>2
    <3>3. PICK l \in 0..Len(toA') : l = k - 1 \/ (k = 0 /\ l = 0)
      BY <3>2
    <3>4. /\ \A i \in 1..Len(toA') : i <= l => Stale(toA'[i])
          /\ \A i \in 1..Len(toA') : i > l => Fresh(toA'[i])
          /\ \A i, j \in 1..Len(toA') : l < i /\ i < j => toA'[i].seq < toA'[j].seq + Flight
      <4>1. CASE k = 0
        <5>1. l = 0
          BY <3>3, <4>1
        <5>2. \A i \in 1..Len(toA') : i + 1 \in 1..Len(toA) /\ i + 1 > k /\ toA'[i] = toA[i + 1]
          BY <2>1, <4>1
        <5>3. \A i \in 1..Len(toA') : Fresh(toA'[i])
          BY <3>1, <5>2 DEF Arriving
        <5>4. \A i, j \in 1..Len(toA') : i < j => toA'[i].seq < toA'[j].seq + Flight
          <6>1. ASSUME NEW i \in 1..Len(toA'), NEW j \in 1..Len(toA'), i < j
                PROVE  toA[i + 1].seq < toA[j + 1].seq + Flight
            BY <3>1, <5>2, <6>1 DEF Arriving
          <6> QED  BY <5>2, <6>1
        <5>5. \A i \in 1..Len(toA') : ~(i <= l)
          BY <2>1, <5>1
        <5> QED  BY <5>3, <5>4, <5>5
      <4>2. CASE l = k - 1
        <5>1. k \in Int /\ Len(toA) \in Int
          BY <2>1
        <5>2. \A i \in 1..Len(toA') :
                /\ i + 1 \in 1..Len(toA) /\ toA'[i] = toA[i + 1]
                /\ i <= l <=> i + 1 <= k
                /\ i > l <=> i + 1 > k
          BY <2>1, <4>2, <5>1
        <5>3. /\ \A i \in 1..Len(toA') : i <= l => Stale(toA[i + 1])
              /\ \A i \in 1..Len(toA') : i > l => Fresh(toA[i + 1])
          BY <3>1, <5>2 DEF Arriving
        <5>4. \A i, j \in 1..Len(toA') : l < i /\ i < j => toA'[i].seq < toA'[j].seq + Flight
          <6>1. ASSUME NEW i \in 1..Len(toA'), NEW j \in 1..Len(toA'), l < i, i < j
                PROVE  toA[i + 1].seq < toA[j + 1].seq + Flight
            <7>1. i + 1 \in 1..Len(toA) /\ j + 1 \in 1..Len(toA) /\ k < i + 1 /\ i + 1 < j + 1
              BY <4>2, <5>1, <5>2, <6>1
            <7> QED  BY <3>1, <7>1 DEF Arriving
          <6> QED  BY <5>2, <6>1
        <5> QED  BY <5>2, <5>3, <5>4
      <4> QED  BY <3>3, <4>1, <4>2
    <3>5. l > 0 => EmptyBuffer
      BY <3>1, <3>3 DEF Arriving
    <3>6. Arriving(l)'
      BY <1>1, <1>2, <3>4, <3>5 DEF Arriving
    <3>7. l \in 0..Len(toA)'
      BY <3>3, <2>1
    <3>8. Joined'
      BY <1>1, <1>3, <2>2, <3>6, <3>7 DEF Joined
    <3> QED  BY <3>8 DEF Peers
  <2>3. CASE Detached
    <3>1. \A i \in 1..Len(toA') : Stale(toA'[i])
      BY <2>1, <2>3 DEF Detached
    <3>2. Detached'
      BY <1>1, <1>2, <1>3, <2>3, <3>1 DEF Detached, UploadOpen, AllSent
    <3> QED  BY <3>2 DEF Peers
  <2> QED  BY <2>2, <2>3
<1>4. CASE toB # <<>> /\ toB' = Tail(toB) /\ UNCHANGED toA
  <2>1. /\ Len(toB) \in Nat /\ Len(toB') = Len(toB) - 1
        /\ \A i \in 1..Len(toB') : i + 1 \in 1..Len(toB) /\ toB'[i] = toB[i + 1]
    BY <1>1, <1>4, TailItems
  <2>2. CASE Joined
    <3>1. \A k : Arriving(k)' <=> Arriving(k)
      BY <1>1, <1>2, <1>4 DEF Arriving
    <3>2. \A i \in 1..Len(toB') : toB'[i].type = "ACK" /\ toB'[i].num <= NPE - 1
      BY <2>1, <2>2 DEF Joined
    <3>3. Joined'
      BY <1>1, <1>4, <2>2, <3>1, <3>2 DEF Joined
    <3> QED  BY <3>3 DEF Peers
  <2>3. CASE Detached
    <3>1. \A i \in 1..Len(toB') : toB'[i].type = "GET" => i = Len(toB') /\ toB'[i].hash = Current
      <4>1. ASSUME NEW i \in 1..Len(toB'), toB'[i].type = "GET"
            PROVE  i = Len(toB') /\ toB'[i].hash = Current
        <5>1. i + 1 \in 1..Len(toB) /\ toB[i + 1].type = "GET" /\ toB'[i] = toB[i + 1]
          BY <2>1, <4>1
        <5>2. i + 1 = Len(toB) /\ toB[i + 1].hash = Current
          BY <2>3, <5>1 DEF Detached
        <5> QED  BY <2>1, <5>1, <5>2
      <4> QED  BY <4>1
    <3>2. UploadOpen => \A i \in 1..Len(toB') :
            toB'[i].type = "ACK" => up \in written /\ LPA >= ChunkPackets - Flight
      BY <2>1, <2>3 DEF Detached
    <3>3. Detached'
      BY <1>1, <1>2, <1>4, <2>3, <3>1, <3>2 DEF Detached, UploadOpen, AllSent
    <3> QED  BY <3>3 DEF Peers
  <2> QED  BY <2>2, <2>3
<1> QED  BY <1>3, <1>4 DEF Lose

LEMMA CrashPeers ==
  ASSUME Inv, Joined \/ Detached, CrashA
  PROVE  Dead'
<1>1. ~alive' /\ UNCHANGED <<recv_buf, downloading>>
  BY DEF CrashA, buffer, conn
<1>2. \A i \in Seqs : recv_buf[i] \in {None, downloading}
  BY DEF Joined, Detached, EmptyBuffer, Current, Inv, Buffer, EmptyWhenIdle, Lists
<1> QED  BY <1>1, <1>2 DEF Dead

-----------------------------------------------------------------------------
LEMMA SendingPreserved ==
  ASSUME Inv, LongChunks, Calm, Undisturbed, Sending, Joined \/ Detached, [Next]_vars
  PROVE  Sending'
<1>1. SP!IInv
  BY DEF Inv
<1>2. CASE OnGet
  <2>1. InitUpload(Head(toB).hash) \/ IgnoreGet
    BY <1>2 DEF OnGet
  <2> QED  BY <1>1, <2>1, InitUploadSends, PassKeepsSending DEF IgnoreGet
<1>3. CASE OnAck
  <2>1. CASE UploadOpen /\ S!UponReceiveACK(Head(toB).num)
    <3>1. Head(toB).num \in 0..ChunkPackets /\ Head(toB).num <= LPA + Flight
      BY <1>3, <2>1, AckInFlight DEF OnAck
    <3> QED  BY <1>1, <2>1, <3>1, AckKeepsSending
  <2>2. CASE UNCHANGED window
    BY <1>1, <2>2, PassKeepsSending
  <2> QED  BY <1>3, <2>1, <2>2 DEF OnAck, S!UponReceiveACK, UploadOpen
<1>4. CASE NoPacketAtB \/ SendWindow \/ UploadPass
  BY <1>1, <1>4, PassKeepsSending DEF NoPacketAtB, SendWindow, UploadPass, S!UploadPass
<1>5. CASE RestartB
  BY <1>5 DEF RestartB, Sending, UploadOpen
<1>6. CASE OnData \/ OnIHave \/ NoPacketAtA \/ UserGet \/ NoInput \/ CheckTimeout \/ SendGet
           \/ Reap \/ DownloadPass \/ Lose \/ CrashA \/ Late \/ Tick \/ Over \/ UNCHANGED vars
  <2>1. UNCHANGED window
    BY <1>6 DEF OnData, OnIHave, NoPacketAtA, UserGet, NoInput, CheckTimeout, SendGet, Reap,
                DownloadPass, Lose, CrashA, Late, Tick, Pass, Over, vars, bvars
  <2> QED  BY <1>1, <2>1, PassKeepsSending
<1> QED  BY <1>2, <1>3, <1>4, <1>5, <1>6 DEF Next

LEMMA PeersPreserved ==
  ASSUME Inv, Inv', LongChunks, Calm, Undisturbed', alive => Sending, alive => Sending',
         ~LeavesPackets, ~NearOrphan', Peers, [Next]_vars
  PROVE  Peers'
<1>1. CASE Dead
  BY <1>1, DeadPreserved DEF Peers
<1>2. CASE Joined \/ Detached
  <2>0. alive /\ Sending /\ Sending'
    BY <1>2 DEF Joined, Detached
  <2>1. CASE OnGet
    <3>1. ~Joined
      <4>1. Head(toB) = toB[1] /\ 1 \in 1..Len(toB)
        BY <2>1, TailItems DEF OnGet, Inv, Channels
      <4> QED  BY <2>1, <4>1 DEF OnGet, Joined
    <3> QED  BY <1>2, <2>1, <3>1, GetPeers
  <2>2. CASE OnAck
    BY <1>2, <2>2, AckPeers
  <2>3. CASE SendWindow
    BY <1>2, <2>0, <2>3, SendPeers
  <2>4. CASE UploadPass
    BY <1>2, <2>4, PassPeers
  <2>5. CASE OnData
    BY <1>2, <2>5, DataJoined, DataDetached DEF Peers
  <2>6. CASE UserGet
    <3>1. gets' <= 1
      BY DEF Undisturbed
    <3> QED  BY <2>0, <2>6, <3>1, UserGetPeers DEF Peers
  <2>7. CASE CheckTimeout
    BY <1>2, <2>0, <2>7, CheckTimeoutPeers
  <2>8. CASE SendGet
    BY <1>2, <2>8, SendGetPeers
  <2>9. CASE Reap
    BY <1>2, <2>9, ReapPeers
  <2>10. CASE DownloadPass
    BY <1>2, <2>0, <2>10, DownloadPassPeers
  <2>11. CASE Lose
    BY <1>2, <2>11, LosePeers
  <2>12. CASE CrashA
    BY <1>2, <2>12, CrashPeers DEF Peers
  <2>13. CASE NoPacketAtB
    <3>1. /\ UNCHANGED ends
          /\ UploadOpen /\ sphase' = "send"
      BY <2>13 DEF ends, NoPacketAtB, S!NoAck, UploadWork, avars, conn
    <3> QED  BY <3>1, PeersUnaffected
  <2>14. CASE RestartB
    <3>1. /\ UNCHANGED ends
          /\ sphase' = "aborted"
      BY <2>14 DEF ends, RestartB, avars, conn
    <3> QED  BY <3>1, PeersUnaffected
  <2>15. CASE OnIHave \/ NoPacketAtA \/ NoInput \/ Late \/ Tick \/ Over \/ UNCHANGED vars
    <3>1. UNCHANGED ends /\ UNCHANGED sphase
      BY <2>15 DEF ends, OnIHave, NoPacketAtA, NoInput, Late, Tick, Pass, Over, vars, avars, conn,
                   bvars, window
    <3> QED  BY <3>1, PeersUnaffected
  <2> QED  BY <2>1, <2>2, <2>3, <2>4, <2>5, <2>6, <2>7, <2>8, <2>9, <2>10, <2>11, <2>12, <2>13,
              <2>14, <2>15 DEF Next
<1> QED  BY <1>1, <1>2 DEF Peers

\* The user's commands are only counted up.
LEMMA GetsGrow == Inv /\ [Next]_vars /\ Undisturbed' => Undisturbed
<1> SUFFICES ASSUME Inv, [Next]_vars PROVE gets \in Int /\ gets' \in {gets, gets + 1}
  BY DEF Undisturbed
<1>1. CASE UserGet
  BY <1>1 DEF UserGet, Inv, Rest
<1>2. CASE ~UserGet
  BY <1>2 DEF Inv, Rest, Next, OnGet, OnAck, NoPacketAtB, SendWindow, UploadPass, OnData, OnIHave,
     NoPacketAtA, NoInput, CheckTimeout, SendGet, Reap, DownloadPass, Lose, RestartB, CrashA, Late,
     Tick, Pass, Over, vars, used
<1> QED  BY <1>1, <1>2

LEMMA ApartPreserved ==
  ASSUME Inv, LongChunks, Apart, ~LeavesPackets, ~NearOrphan', [Next]_vars
  PROVE  Apart'
<1>1. Calm' /\ Inv'
  BY CalmPreserved, InvStep DEF Apart
<1>2. ASSUME Undisturbed' PROVE (alive => Sending)' /\ Peers'
  <2>1. Undisturbed /\ Calm /\ (alive => Sending) /\ Peers
    BY <1>2, GetsGrow DEF Apart
  <2>2. CASE Dead
    <3>1. Dead'
      BY <2>1, <2>2, DeadPreserved
    <3> QED  BY <3>1 DEF Dead, Peers
  <2>3. CASE Joined \/ Detached
    <3>1. Sending /\ Sending'
      BY <2>1, <2>3, SendingPreserved DEF Joined, Detached
    <3> QED  BY <1>1, <1>2, <2>1, <3>1, PeersPreserved
  <2> QED  BY <2>1, <2>2, <2>3 DEF Peers
<1> QED  BY <1>1, <1>2 DEF Apart

LEMMA InitApart == Init => Apart
<1> SUFFICES ASSUME Init PROVE Apart
  OBVIOUS
<1>1. Calm
  BY DEF Init, Calm, Current
<1>2. Sending
  BY DEF Init, Sending, UploadOpen
<1>3. Len(toA) = 0 /\ Len(toB) = 0
  BY DEF Init
<1>4. Detached
  BY <1>3 DEF Init, Detached, EmptyBuffer, UploadOpen
<1> QED  BY <1>1, <1>2, <1>4 DEF Apart, Peers

LEMMA ApartInvariance ==
  ASSUME LongChunks
  PROVE  Init /\ [][Next]_vars /\ []~Stray => [](Inv /\ Apart)
<1>1. Init => Inv /\ Apart
  BY InitInv, InitApart
<1>2. Inv /\ Apart /\ ~Stray /\ ~Stray' /\ [Next]_vars => (Inv /\ Apart)'
  <2>1. (~Stray => ~LeavesPackets) /\ (~Stray' => ~NearOrphan')
    BY DEF Stray
  <2> QED  BY <2>1, InvStep, ApartPreserved
<1> QED  BY <1>1, <1>2, PTL

\* Where no upload is orphaned near its start and no packet outlives its connection (Stray), no
\* packet of an earlier transfer gets into the buffer of the present one while the chunks of one
\* GET command arrive, whatever is lost, delayed, refused, repeated or restarted, although DATA
\* carries no chunk (upon_receiving_datapack knows a packet by its number only): what an earlier
\* upload has left is beyond the receive window of the next download.
THEOREM ChunksStayApart ==
  ASSUME LongChunks
  PROVE  Spec => OwnPackets
<1>1. Inv /\ Apart => (Undisturbed => \A i \in Seqs : recv_buf[i] \in {None, downloading})
  <2> SUFFICES ASSUME Inv, Peers, NEW i \in Seqs PROVE recv_buf[i] \in {None, downloading}
    BY DEF Apart
  <2>1. CASE Joined
    BY <2>1 DEF Joined, Current, Inv, Lists, Buffer, EmptyWhenIdle
  <2>2. CASE Detached
    BY <2>2 DEF Detached, EmptyBuffer
  <2>3. CASE Dead
    BY <2>3 DEF Dead
  <2> QED  BY <2>1, <2>2, <2>3 DEF Peers
<1> QED  BY <1>1, ApartInvariance, PTL DEF Spec, OwnPackets

\* Under the same condition an upload that counts as finished (uploaded_list) has been received
\* by the peer that asked for it, although the ACKs that say so carry no chunk either.
THEOREM UploadsAreReceived ==
  ASSUME LongChunks
  PROVE  Spec => UploadedIsReceived
<1>1. Inv /\ Apart => (Undisturbed /\ alive /\ sphase = "done" /\ LPR # 1 =>
                        up \in written \/ (downloading = up /\ R(None)!Complete))
  <2> SUFFICES ASSUME Inv, Calm, Peers, alive, sphase = "done", LPR # 1
               PROVE  up \in written \/ (downloading = up /\ R(None)!Complete)
    BY DEF Apart
  <2>1. LPA = ChunkPackets
    BY WindowTypes DEF Calm, Inv
  <2>2. CASE Joined
    <3>1. NPE = ChunkPackets + 1 /\ recv_bytesnum = ChunkPackets /\ downloading # None
      BY <2>1, <2>2
      DEF Joined, Inv, Buffer, EmptyWhenIdle, RP!IInv, RP!TypeOK, RP!BytesMatchNPE
    <3>2. downloading = up
      BY <2>2, <3>1 DEF Joined, Current, Inv, Lists
    <3> QED  BY <3>1, <3>2 DEF R!Complete
  <2>3. CASE Detached
    BY <2>1, <2>3 DEF Detached
  <2>4. CASE Dead
    BY <2>4 DEF Dead
  <2> QED  BY <2>2, <2>3, <2>4 DEF Peers
<1> QED  BY <1>1, ApartInvariance, PTL DEF Spec, UploadedIsReceived

\* What A answers is the last upload that B has opened, and the one whose chunk it downloads.
AnswersOwn ==
  [][OnData /\ Undisturbed /\ acks' # {} => downloading' = up /\ Head(toA).payload = up]_vars

\* Under the same condition every ACK (upon_receiving_datapack) is for a packet of the upload that
\* B has open or opened last, and of the chunk that A is downloading: an upload that nobody waits
\* for is never answered, and is left to its own timer (check_recvack_timeout).
THEOREM AnswersOwnUpload ==
  ASSUME LongChunks
  PROVE  Spec /\ []~Stray => AnswersOwn
<1>1. Inv /\ Apart /\ [Next]_vars =>
        [OnData /\ Undisturbed /\ acks' # {} => downloading' = up /\ Head(toA).payload = up]_vars
  <2> SUFFICES ASSUME Inv, Calm, Peers, OnData, acks' # {}
               PROVE  downloading' = up /\ Head(toA).payload = up
    BY DEF Apart
  <2>1. acks = {} /\ toA # <<>> /\ toA \in Seq(ToA)
    BY DEF OnData, Rested, Inv, Buffer, AcksGone, Channels
  <2>2. /\ downloading' = IF downloading # None THEN downloading ELSE asked
        /\ asked # None \/ downloading # None
        /\ R(None)!Accepted(Head(toA).seq) /\ ~R(None)!Outside(Head(toA).seq)
    BY <2>1 DEF OnData, R!Outside
  <2>3. Head(toA) = toA[1] /\ 1 \in 1..Len(toA) /\ Len(toA) \in Nat
    BY <2>1, TailItems
  <2>4. ~(Stale(Head(toA)) /\ EmptyBuffer)
    BY <2>1, <2>2, StaleRefused
  <2>5. CASE Joined
    <3>1. PICK k \in 0..Len(toA) : Arriving(k)
      BY <2>5 DEF Joined
    <3>2. Fresh(toA[1])
      BY <2>3, <2>4, <3>1 DEF Arriving
    <3>3. downloading' = up
      BY <2>2, <2>5 DEF Joined, Current, Inv, Lists
    <3> QED  BY <2>3, <3>2, <3>3 DEF Fresh
  <2>6. CASE Detached
    BY <2>3, <2>4, <2>6 DEF Detached
  <2>7. CASE Dead
    BY <2>1, <2>7 DEF Dead, Calm
  <2> QED  BY <2>5, <2>6, <2>7 DEF Peers
<1> QED  BY <1>1, ApartInvariance, PTL DEF Spec, AnswersOwn
=============================================================================
