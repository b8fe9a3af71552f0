------------------------------ MODULE PeerPair ------------------------------
(***************************************************************************)
(* A peer (A) that downloads a list of chunks from another one (B) that    *)
(* holds them all: one transfer after the other, with the GETs, the        *)
(* windows of both ends, every timer, and what the peers know of each      *)
(* other's connections, which is nothing but the packets.  A packet that   *)
(* belongs to an earlier transfer looks like one of the present transfer:  *)
(* DATA carries no chunk, ACK neither.                                     *)
(*                                                                         *)
(* Abstractions.  One peer on each side, so get_sent_list, downloading_list*)
(* and uploading_list hold one connection at most (OneConnPerPeer of       *)
(* Downloads, OneUploadPerPeer of Uploads) and slots are always free.      *)
(* WHOHAS and IHAVE are one step (module Discovery).  Channels keep their  *)
(* order, as hupsim.pl's queues do; they lose and delay packets within a   *)
(* budget of faults.  The iterations of the two loops do not overlap: an   *)
(* iteration reads one packet before it sends any, and the peers share     *)
(* nothing but the channels.  Iterations that do nothing are left out.     *)
(* Time is counted in seconds and passes when both loops have nothing left *)
(* to do.  A round trip is short against a timeout, but for delays.        *)
(***************************************************************************)
EXTENDS Integers, Sequences, FiniteSets

CONSTANTS
  ChunkPackets, InitSsthresh, MaxWin, DupAckLimit,   \* as in SenderWindow
  RecvWin,       \* as in Receiver
  Chunks,        \* the chunks A wants and B has
  None,          \* no chunk
  DataLimit,     \* TIMEOUT_SEC (2)
  RecvLimit,     \* 5 * TIMEOUT_SEC, of a GET and of a download
  AckLimit,      \* 8 * TIMEOUT_SEC, of an upload
  MaxFaults,     \* bound of the model: lost and late packets, crashes, unreadable
                 \* files, and GET commands typed again
  LateCost,      \* bound of the model: what a delay uses of MaxFaults
  MaxGets        \* bound of the model: GET commands of A's user

ASSUME PairAssumption ==
  /\ ChunkPackets \in Nat \ {0, 1}   \* a chunk is more than one packet (512)
  /\ RecvWin \in Nat
  /\ InitSsthresh \in Nat \ {0} /\ MaxWin \in Nat \ {0} /\ DupAckLimit \in Nat \ {0}
  /\ IsFiniteSet(Chunks) /\ None \notin Chunks
  /\ DataLimit \in Nat /\ RecvLimit \in Nat /\ AckLimit \in Nat
  /\ MaxFaults \in Nat /\ LateCost \in Nat \ {0} /\ MaxGets \in Nat \ {0}

VARIABLES
  LPA, LPS, LPR, count, congwin, frac, ssthresh, ACKed_num, sphase,   \* B: the window
  up,            \* B: the chunk of the last upload opened
  last,          \* B: the first entry of uploaded_list, None if there is none
  sinceAck,      \* B: age of the upload's timestamp
  sinceSent,     \* B: ages of the timestamps of the packets in flight
  NPE, recv_buf, recv_bytesnum, acks,   \* A: the receive buffer
  need, queue,   \* A: needlist and get_tosend_quene
  asked,         \* A: the chunk in get_sent_list, or None
  downloading,   \* A: the chunk in downloading_list, or None
  written,       \* A: chunks in the output file
  sinceData,     \* A: age of the timestamp of the GET or download
  whohas,        \* A: hashes asked for by the last WHOHAS, not answered yet
  aphase,        \* A: where its main loop is, as in Downloads
  alive,         \* A has not crashed
  toA, toB,      \* the channels
  faults, gets,  \* what has been used of MaxFaults and MaxGets
  unread         \* history: the chunks whose upload was opened without its file

window == <<LPA, LPS, LPR, count, congwin, frac, ssthresh, ACKed_num, sphase>>
buffer == <<NPE, recv_buf, recv_bytesnum>>
conn   == <<asked, downloading, sinceData>>
bvars  == <<window, up, last, sinceAck, sinceSent>>
avars  == <<buffer, acks, need, queue, conn, written, whohas, aphase, alive>>
used   == <<faults, gets, unread>>
vars   == <<bvars, avars, toA, toB, used>>

S == INSTANCE SenderWindow WITH phase <- sphase
R(c) == INSTANCE Receiver WITH phase <- aphase, Wanted <- c

Data(seq, c) == [seq |-> seq, payload |-> c]
Get(c)       == [type |-> "GET", hash |-> c]
Ack(n)       == [type |-> "ACK", num |-> n]

Seqs       == 1..ChunkPackets
UploadOpen == sphase \notin {"done", "aborted"}

\* Neither loop is inside an iteration.
Rested == aphase = "recv" /\ sphase \in {"recv", "done", "aborted"}

\* No connection, and nothing left of the one that there was.
NoBuffer_Kept ==   \* mutant: the new download begins with the old buffer
  NPE' = 1 /\ recv_bytesnum' = 0 /\ UNCHANGED recv_buf
NoBuffer ==
  /\ NPE' = 1 /\ recv_bytesnum' = 0
  /\ recv_buf' = [i \in Seqs |-> None]

Init ==
  /\ LPA = 0 /\ LPS = 0 /\ LPR = 1 /\ count = 0 /\ congwin = 1 /\ frac = 0
  /\ ssthresh = InitSsthresh /\ ACKed_num = 0 /\ sphase = "aborted"
  /\ up = None /\ last = None
  /\ sinceAck = 0 /\ sinceSent = [i \in Seqs |-> 0]
  /\ NPE = 1 /\ recv_bytesnum = 0 /\ acks = {}
  /\ recv_buf = [i \in Seqs |-> None]
  /\ need = {} /\ queue = {} /\ asked = None /\ downloading = None
  /\ written = {} /\ sinceData = 0 /\ whohas = {} /\ aphase = "recv" /\ alive = TRUE
  /\ toA = <<>> /\ toB = <<>> /\ faults = 0 /\ gets = 0 /\ unread = {}

-----------------------------------------------------------------------------
(* The timers                                                              *)

GetDue  == asked # None /\ sinceData > RecvLimit
DataDue == LPA < LPS /\ sinceSent[LPA + 1] > DataLimit

DownloadDue == downloading # None /\ sinceData > RecvLimit

AckDue_OneMore == sinceAck > AckLimit + 1   \* mutant: off by one
AckDue == sinceAck > AckLimit

-----------------------------------------------------------------------------
(* B: dealwithincomepack and the upload pass                               *)

\* The guards of the GET case.
Serves(c) == ~UploadOpen /\ c # last

Fault == faults < MaxFaults /\ faults' = faults + 1

\* init_upload: a new window; send_onechunk packs the chunk or, when the data
\* file cannot be opened, nothing.
InitUpload(c) ==
  /\ LPA' = 0 /\ LPS' = 0 /\ count' = S!InitialCount /\ congwin' = 1 /\ frac' = 0
  /\ \/ LPR' = ChunkPackets + 1 /\ UNCHANGED <<faults, unread>>
     \/ LPR' = 1 /\ Fault /\ unread' = unread \cup {c}
  /\ ssthresh' = InitSsthresh /\ ACKed_num' = 0 /\ sphase' = "send"
  /\ up' = c
  /\ sinceAck' = 0

\* A GET that is not served is dropped; the pass goes on with a running upload.
IgnoreGet ==
  /\ S!NoAck \/ (~UploadOpen /\ UNCHANGED window)
  /\ UNCHANGED <<up, sinceAck, faults, unread>>

OnGet ==
  /\ Rested
  /\ toB # <<>> /\ Head(toB).type = "GET"
  /\ LET c == Head(toB).hash
     IN  \/ Serves(c) /\ InitUpload(c)
         \/ ~Serves(c) /\ IgnoreGet
  /\ toB' = Tail(toB)
  /\ UNCHANGED <<last, sinceSent, avars, toA, gets>>

\* Any ACK of the peer refreshes the upload's timestamp, whatever its number.
OnAck ==
  /\ Rested
  /\ toB # <<>> /\ Head(toB).type = "ACK"
  /\ \/ S!UponReceiveACK(Head(toB).num) /\ sinceAck' = 0
     \/ ~UploadOpen /\ UNCHANGED <<window, sinceAck>>
  /\ toB' = Tail(toB)
  /\ UNCHANGED <<up, last, sinceSent, avars, toA, used>>

\* Something for the pass to do although no packet has come.
UploadWork ==
  UploadOpen /\ \/ (LPS < LPR - 1 /\ count # 0)
                \/ S!AllAcked \/ (DataDue /\ S!TimeoutApplies) \/ AckDue

\* Nothing has come, or not yet.
NoPacketAtB ==
  /\ Rested
  /\ UploadWork
  /\ S!NoAck
  /\ UNCHANGED <<up, last, sinceAck, sinceSent, avars, toA, toB, used>>

\* The upload's timestamp after packets have been sent.
AckAgeAfterSend_Refreshed == 0   \* mutant: sending again counts as a sign of life
AckAgeAfterSend == sinceAck

\* window_sender: the packets leave, each with a timestamp.
SendWindow ==
  /\ \/ /\ S!WindowSender
        /\ toA' = IF alive THEN toA \o [i \in 1..(LPS' - LPS) |-> Data(LPS + i, up)] ELSE toA
        /\ sinceSent' = [i \in Seqs |-> IF i \in LPS + 1..LPS' THEN 0 ELSE sinceSent[i]]
        /\ sinceAck' = AckAgeAfterSend
     \/ S!NothingToSend /\ UNCHANGED <<toA, sinceSent, sinceAck>>
  /\ UNCHANGED <<up, last, avars, toB, used>>

\* abort_upload deletes the upload; only a finished one is listed as uploaded.
LastAfterAbort_Listed == up   \* mutant: the node is moved to uploaded_list
LastAfterAbort == last

\* Finished, given up after check_recvack_timeout, rolled back by
\* check_datapack_timeout, or none of them.
UploadPass ==
  /\ \/ S!FinishUpload /\ last' = up
     \/ S!AbortUpload /\ AckDue /\ last' = LastAfterAbort
     \/ S!CheckDatapackTimeout /\ DataDue /\ ~AckDue /\ UNCHANGED last
     \/ S!NoTimeout /\ ~(DataDue /\ S!TimeoutApplies) /\ ~AckDue /\ UNCHANGED last
  /\ UNCHANGED <<up, sinceAck, sinceSent, avars, toA, toB, used>>

BLoop == OnGet \/ OnAck \/ NoPacketAtB \/ SendWindow \/ UploadPass

-----------------------------------------------------------------------------
(* A: dealwithincomepack, the GETs and the download pass                   *)

\* The ACK packets of the last step, in the order of the loop that sends them.
AckSeq(ns) ==
  LET least == CHOOSE n \in ns : \A k \in ns : n <= k
  IN  [i \in 1..Cardinality(ns) |-> Ack(least + i - 1)]

\* Any DATA of the peer refreshes the timestamp; with only a GET out to it,
\* it opens the download (init_download) before it is received.
OnData ==
  /\ Rested /\ aphase' = "input"
  /\ toA # <<>>
  /\ toA' = Tail(toA)
  /\ \/ /\ asked # None \/ downloading # None
        /\ downloading' = IF downloading # None THEN downloading ELSE asked
        /\ asked' = None
        /\ sinceData' = 0
        /\ LET p == Head(toA)
           IN  \/ R(None)!Outside(p.seq)
               \/ /\ R(None)!Accepted(p.seq)
                  /\ \/ R(None)!InOrder(p.seq, p.payload)
                     \/ R(None)!Ahead(p.seq, p.payload)
                     \/ R(None)!Behind(p.seq, p.payload)
        /\ toB' = toB \o AckSeq(acks')
     \/ /\ asked = None /\ downloading = None
        /\ UNCHANGED <<conn, buffer, acks, toB>>
  /\ UNCHANGED <<need, queue, written, whohas, alive, bvars, used>>

\* An IHAVE for all that the last WHOHAS asked for: fill_toget_list.
OnIHave ==
  /\ Rested /\ aphase' = "input"
  /\ alive /\ whohas # {}
  /\ queue' = queue \cup {c \in whohas \cap need : c # asked /\ c # downloading}
  /\ UNCHANGED <<buffer, acks, need, conn, written, whohas, alive, bvars, toA, toB, used>>

NoConn == asked = None /\ downloading = None

\* Something for the passes to do although no packet has come: the first
\* command, a timeout, a GET or a WHOHAS to send.
DownloadWork ==
  \/ gets = 0 \/ GetDue \/ DownloadDue
  \/ NoConn /\ need # {} /\ (queue # {} \/ whohas = {})

NoPacketAtA ==
  /\ Rested /\ aphase' = "input"
  /\ alive /\ DownloadWork
  /\ UNCHANGED <<buffer, acks, need, queue, conn, written, whohas, alive, bvars, toA, toB,
                 used>>

\* The user types the GET command, or types it again: reset_mydownload.
UserGet ==
  /\ aphase = "input" /\ aphase' = "timeouts"
  /\ gets < MaxGets /\ gets' = gets + 1
  /\ IF gets = 0 THEN UNCHANGED faults ELSE Fault
  /\ need' = Chunks /\ queue' = {} /\ asked' = None /\ downloading' = None
  /\ written' = {} /\ sinceData' = 0
  /\ NoBuffer /\ acks' = {}
  /\ UNCHANGED <<whohas, alive, bvars, toA, toB, unread>>

NoInput ==
  /\ aphase = "input" /\ aphase' = "timeouts"
  /\ gets # 0
  /\ acks' = {}
  /\ UNCHANGED <<buffer, need, queue, conn, written, whohas, alive, bvars, toA, toB, used>>

\* check_timeout drops a GET that nothing has come for.
CheckTimeout ==
  /\ aphase = "timeouts" /\ aphase' = "gets"
  /\ asked' = IF GetDue THEN None ELSE asked
  /\ UNCHANGED <<buffer, acks, need, queue, downloading, sinceData, written, whohas, alive,
                 bvars, toA, toB, used>>

\* GET_sender sends the next GET, or WhoHas_sender asks for what is needed.
SendGet ==
  /\ aphase = "gets" /\ aphase' = "downloads"
  /\ \/ /\ NoConn
        /\ \E c \in queue :
             asked' = c /\ queue' = queue \ {c} /\ toB' = Append(toB, Get(c))
        /\ sinceData' = 0 /\ whohas' = {}
        /\ UNCHANGED downloading
     \/ /\ ~NoConn \/ queue = {}
        /\ whohas' = IF NoConn THEN need ELSE {}
        /\ UNCHANGED <<queue, conn, toB>>
  /\ UNCHANGED <<buffer, acks, need, written, alive, bvars, toA, used>>

\* A chunk is complete: it is written if its hash matches, and is not needed
\* any more in either case.  When it was the last one, complete_mydownload.
Reap ==
  /\ aphase = "downloads"
  /\ downloading # None /\ R(None)!Complete
  /\ \E c \in {downloading} :
       /\ written' = IF R(c)!HashMatches THEN written \cup {c} ELSE written
       /\ need' = need \ {c}
  /\ \/ need' # {} /\ UNCHANGED <<queue, aphase>>
     \/ need' = {} /\ queue' = {} /\ aphase' = "recv"
  /\ downloading' = None /\ NoBuffer
  /\ UNCHANGED <<acks, asked, sinceData, whohas, alive, bvars, toA, toB, used>>

\* check_recvdata_timeout
DownloadPass ==
  /\ aphase = "downloads" /\ aphase' = "recv"
  /\ ~(downloading # None /\ R(None)!Complete)
  /\ \/ DownloadDue /\ downloading' = None /\ NoBuffer
     \/ ~DownloadDue /\ UNCHANGED <<downloading, buffer>>
  /\ UNCHANGED <<acks, need, queue, asked, sinceData, written, whohas, alive, bvars, toA, toB,
                 used>>

ALoop ==
  \/ OnData \/ OnIHave \/ NoPacketAtA \/ UserGet \/ NoInput
  \/ CheckTimeout \/ SendGet \/ Reap \/ DownloadPass

-----------------------------------------------------------------------------
(* Faults, and time                                                        *)

\* A packet is lost: the network, or the socket's buffer, drops it.
Lose ==
  /\ Rested /\ Fault
  /\ \/ toA # <<>> /\ toA' = Tail(toA) /\ UNCHANGED toB
     \/ toB # <<>> /\ toB' = Tail(toB) /\ UNCHANGED toA
  /\ UNCHANGED <<bvars, avars, gets, unread>>

\* B starts anew on its address, with nothing but its chunks.
RestartB ==
  /\ Rested /\ Fault
  /\ sphase' = "aborted" /\ last' = None
  /\ UNCHANGED <<LPA, LPS, LPR, count, congwin, frac, ssthresh, ACKed_num, up,
                 sinceAck, sinceSent, avars, toA, toB, gets, unread>>

\* A stops for good, and what is sent to it is lost.
CrashA ==
  /\ Rested /\ Fault
  /\ alive /\ alive' = FALSE
  /\ toA' = <<>>
  /\ UNCHANGED <<buffer, acks, need, queue, conn, written, whohas, aphase, bvars, toB,
                 gets, unread>>

\* Neither loop has anything to do but to wait.
Idle ==
  /\ Rested /\ ~UploadWork
  /\ alive => ~DownloadWork /\ whohas = {}

Quiet == Idle /\ toA = <<>> /\ toB = <<>>

Asking  == alive /\ ~NoConn
Waiting == UploadOpen \/ Asking

\* The ages after d seconds; those of packets are counted up to their timeout.
Pass(d) ==
  /\ sinceAck' = IF UploadOpen THEN sinceAck + d ELSE 0
  /\ sinceSent' = [i \in Seqs |-> IF UploadOpen /\ i \in LPA + 1..LPS
                                  THEN S!MinOf(sinceSent[i] + d, DataLimit + 1) ELSE 0]
  /\ sinceData' = IF Asking THEN sinceData + d ELSE 0
  /\ UNCHANGED <<window, up, last, buffer, acks, need, queue, asked, downloading, written,
                 whohas, aphase, alive, toA, toB, gets, unread>>

Tick == Quiet /\ Waiting /\ Pass(1) /\ UNCHANGED faults

\* The seconds until each timer expires.
TimeLeft ==
  (IF UploadOpen THEN {AckLimit + 1 - sinceAck} ELSE {})
  \cup (IF Asking THEN {RecvLimit + 1 - sinceData} ELSE {})
  \cup (IF UploadOpen /\ LPA < LPS /\ S!TimeoutApplies
        THEN {DataLimit + 1 - sinceSent[LPA + 1]} ELSE {})

\* What is under way stays there until the next timer expires.
Late ==
  /\ Idle /\ (toA # <<>> \/ toB # <<>>)
  /\ faults' = faults + LateCost /\ faults' <= MaxFaults
  /\ \E d \in TimeLeft : (\A e \in TimeLeft : d <= e) /\ Pass(d)

\* Nothing is under way: the loops go on, and change nothing.
Over == Quiet /\ ~Waiting /\ UNCHANGED vars

Next ==
  \/ OnGet \/ OnAck \/ NoPacketAtB \/ SendWindow \/ UploadPass
  \/ OnData \/ OnIHave \/ NoPacketAtA \/ UserGet \/ NoInput
  \/ CheckTimeout \/ SendGet \/ Reap \/ DownloadPass
  \/ Lose \/ RestartB \/ CrashA
  \/ Late \/ Tick \/ Over

\* The loops of both peers go on, and so does time.
Spec == Init /\ [][Next]_vars /\ WF_vars(BLoop) /\ WF_vars(ALoop) /\ WF_vars(Tick)

-----------------------------------------------------------------------------
(* Properties                                                              *)

\* Every variable stays in its range.
TypeOK ==
  /\ S!TypeOK
  /\ {up, last, asked, downloading} \subseteq Chunks \cup {None}
  /\ sinceAck \in 0..AckLimit + 1
  /\ sinceSent \in [Seqs -> 0..DataLimit + 1]
  /\ NPE \in 1..ChunkPackets + 1
  /\ recv_buf \in [Seqs -> Chunks \cup {None}]
  /\ recv_bytesnum \in 0..ChunkPackets
  /\ acks \in SUBSET (0..ChunkPackets)
  /\ need \subseteq Chunks /\ queue \subseteq need /\ written \subseteq Chunks
  /\ sinceData \in 0..RecvLimit + 1
  /\ whohas \subseteq Chunks
  /\ aphase \in {"recv", "input", "timeouts", "gets", "downloads"} /\ alive \in BOOLEAN
  /\ toA \in Seq([seq : Seqs, payload : Chunks])
  /\ toB \in Seq([type : {"GET"}, hash : Chunks] \cup [type : {"ACK"}, num : 0..ChunkPackets])
  /\ faults \in 0..MaxFaults /\ gets \in 0..MaxGets /\ unread \subseteq Chunks

\* The user lets the download run.
Undisturbed == gets <= 1

\* The receiver of B's upload has given it up, or begun again, and B does not
\* know.
Orphaned == UploadOpen /\ LPA > 0 /\ (~alive \/ downloading = None \/ NPE <= LPA)

\* An orphaned upload whose next packets lie in the receive window of a new
\* download.  Four losses of one packet lead there: its repeats keep leaving
\* for seconds after A's timeout.
NearOrphan == Orphaned /\ alive /\ LPA <= RecvWin

\* A is about to give a GET or a download up while packets are under way.
LeavesPackets ==
  /\ alive /\ (toA # <<>> \/ toB # <<>>)
  /\ \/ aphase = "timeouts" /\ GetDue
     \/ aphase = "downloads" /\ DownloadDue /\ ~R(None)!Complete

\* What an earlier transfer left behind can pass for a part of the next one
\* ("data packet may be delayed", vulnerabilities.txt, item 3).  Where this
\* never happens, the peers keep their chunks apart:
Stray == NearOrphan \/ LeavesPackets

\* "set a receiver window size to fixed 30" (tests.txt:55): without strays, and
\* as long as packets arrive in order, no packet left over from an earlier
\* transfer gets into the buffer of the present one, which the receive window
\* keeps from an orphaned upload's repeats.
OwnPackets ==
  []~Stray => [](Undisturbed => \A i \in Seqs : recv_buf[i] \in {None, downloading})

\* Without strays, what a peer lists as uploaded has been received by the one
\* that asked for it, although the ACKs that say so carry no chunk, and may be
\* lost or late.
UploadedIsReceived ==
  []~Stray =>
    [](Undisturbed /\ alive /\ sphase = "done" /\ LPR # 1 =>
         up \in written \/ (downloading = up /\ R(None)!Complete))

\* "set a timer for eache upload connection" (tests.txt:111): every upload
\* ends, when its last ACKs are lost, its receiver crashes, or its GET was
\* dropped, and not because packets are sent again to nobody.  An upload that
\* stays open for good is an orphan in the window of another download, and
\* nothing else is (OrphanClosed).
UploadsEnd == []<>~UploadOpen \/ <>[]NearOrphan

\* Without strays every chunk is written in the end, with a first packet that
\* is never sent again, lost GETs and ACKs, and a sender that starts anew.  The
\* one exception is a chunk whose file B could not read: its empty upload
\* counts as finished, and the chunk is refused from then on.
Fetched ==
  []~Stray /\ []Undisturbed =>
    <>(~alive \/ \A c \in Chunks : c \in written \/ (c = last /\ c \in unread))

\* An orphaned upload beyond the receive window of a new download gets no
\* answer and is closed.
FarOrphanClosed == (Orphaned /\ LPA > RecvWin) ~> ~Orphaned

\* "If the receiver has closed the conneciton, the sender can detect it"
\* (tests.txt:37).
OrphanClosed == Orphaned ~> ~Orphaned

\* A's lists, counters and loop, with the packets, buffers and timers left out,
\* are the download manager of module Downloads for one other peer.
To(cs) == {[hash |-> c, from |-> "B"] : c \in cs \ {None}}
Once(cs) == [c \in Chunks |-> IF c \in cs THEN 1 ELSE 0]
Filled(c) ==
  CASE c # downloading -> "none"
    [] c = downloading /\ ~R(c)!Complete -> "part"
    [] c = downloading /\ R(c)!Complete -> IF R(c)!HashMatches THEN "good" ELSE "bad"

Manager == INSTANCE Downloads WITH
  Hashes <- Chunks, Peers <- {"B"}, MaxConn <- 1, MaxCopies <- 1,
  needlist <- Once(need), output <- Once(written), phase <- aphase,
  get_tosend_quene <- To(queue), get_sent_list <- To({asked}),
  downloading_list <- To({downloading}), filled <- [c \in Chunks |-> Filled(c)],
  concurr_download_num <- IF NoConn THEN 0 ELSE 1,
  max_download_num <- IF gets # 0 /\ need = {} /\ Chunks # {} THEN 0 ELSE 1,
  howmany_need <- IF gets = 0 THEN 0 ELSE Cardinality(Chunks),
  howmany_found <- IF gets = 0 THEN 0
                   ELSE Cardinality(To(queue \cup {asked, downloading}))
                        + Cardinality(Chunks \ need)
Manages == Manager!Spec
=============================================================================
