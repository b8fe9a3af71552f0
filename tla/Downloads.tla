------------------------------ MODULE Downloads ------------------------------
(***************************************************************************)
(* The download side of one peer (Download_conn, hashlist.h): which chunks *)
(* it still needs, from whom it may get them, which GETs are out and which *)
(* downloads run, through the main loop of peer_run:                       *)
(*   "recv"       one datagram (IHAVE, DATA) or none                       *)
(*   "input"      a GET command of the user, or none                       *)
(*   "timeouts"   check_timeout on the GETs sent                           *)
(*   "gets"       GET_sender, and WhoHas_sender when nothing is going on   *)
(*   "downloads"  the download pass: reap, finish, time out                *)
(* The other peers are the environment: they may send anything a peer ever *)
(* sends, at any time, as datagrams are lost, delayed and repeated.        *)
(*                                                                         *)
(* Abstractions.  needlist is how often each hash occurs in it (the same   *)
(* content may be needed twice).  The other lists are sets of connections  *)
(* [hash, from]: no operation depends on their order except which of the   *)
(* chunks that could be asked for is asked for first.  A peer is its       *)
(* address.  The receive buffer of a download (module Receiver) is         *)
(* "part", or "good" or "bad" once it is full, by what its hash will be.   *)
(* Elapsed time is left out: a timeout may fire at every check.            *)
(***************************************************************************)
EXTENDS Integers, FiniteSets

CONSTANTS
  Hashes,     \* the chunks' hashes
  Peers,      \* the other peers
  MaxConn,    \* max_conn of the configuration (-m)
  MaxCopies   \* how often one hash may occur in a user's chunk list

ASSUME DownloadsAssumption ==
  /\ IsFiniteSet(Hashes) /\ IsFiniteSet(Peers)
  /\ MaxConn \in Nat \ {0}
  /\ MaxCopies \in Nat

VARIABLES
  needlist,           \* hash -> occurrences
  get_tosend_quene,   \* chunks found, GET not sent
  get_sent_list,      \* GET sent, no data yet
  downloading_list,   \* receiving data
  filled,             \* hash -> state of the download's receive buffer
  concurr_download_num,
  max_download_num,
  howmany_found,
  howmany_need,
  output,             \* hash -> chunks of it written to the output file
  whohas,             \* hashes asked for by WHOHAS in this iteration
  phase

lists == <<get_tosend_quene, get_sent_list, downloading_list>>
nums  == <<concurr_download_num, max_download_num, howmany_found, howmany_need>>
vars  == <<needlist, get_tosend_quene, get_sent_list, downloading_list, filled,
           concurr_download_num, max_download_num, howmany_found, howmany_need,
           output, whohas, phase>>

Conn    == [hash : Hashes, from : Peers]
Phases  == {"recv", "input", "timeouts", "gets", "downloads"}
Buffers == {"none", "part", "good", "bad"}

\* find_node and find_node_by_addr
HasHash(list, h) == \E c \in list : c.hash = h
HasPeer(list, p) == \E c \in list : c.from = p

NoNeed == [h \in Hashes |-> 0]

\* length_of_list: the nodes of a list that has each hash h list[h] times.
Entries(list) == {e \in Hashes \X (1..MaxCopies) : e[2] <= list[e[1]]}
Length(list)  == Cardinality(Entries(list))

\* init_peerme
Init ==
  /\ needlist = NoNeed
  /\ get_tosend_quene = {} /\ get_sent_list = {} /\ downloading_list = {}
  /\ filled = [h \in Hashes |-> "none"]
  /\ concurr_download_num = 0 /\ max_download_num = MaxConn
  /\ howmany_found = 0 /\ howmany_need = 0
  /\ output = NoNeed
  /\ whohas = {}
  /\ phase = "recv"

-----------------------------------------------------------------------------
(* "recv": process_inbound_udp and dealwithincomepack                      *)

\* A peer with a GET out to it, or one that is sending.
Busy_Sending(p) == HasPeer(downloading_list, p)   \* mutant: forgets the GETs sent
Busy(p) == HasPeer(get_sent_list, p) \/ HasPeer(downloading_list, p)

\* Hashes of an IHAVE that are needed and not asked for yet.
Wanted_EvenIfSent(hs) ==   \* mutant: asks again while a GET is out
  {h \in hs : needlist[h] > 0 /\ ~HasHash(downloading_list, h)}
Wanted_NotNeeded(hs) ==    \* mutant: whether the chunk is needed is not looked at
  {h \in hs : ~HasHash(downloading_list, h) /\ ~HasHash(get_sent_list, h)}
Wanted(hs) ==
  {h \in hs : needlist[h] > 0 /\ ~HasHash(downloading_list, h) /\ ~HasHash(get_sent_list, h)}

\* fill_toget_list: a new hash is queued for the sender of the IHAVE; one
\* queued for a busy peer is queued for the sender instead.
IHave(p, hs) ==
  LET new   == {h \in Wanted(hs) : ~HasHash(get_tosend_quene, h)}
      moved == {h \in Wanted(hs) : \E c \in get_tosend_quene :
                                     c.hash = h /\ c.from # p /\ Busy(c.from)}
  IN  /\ phase = "recv" /\ phase' = "input"
      /\ get_tosend_quene' =
           {c \in get_tosend_quene : c.hash \notin moved}
             \cup {[hash |-> h, from |-> p] : h \in new \cup moved}
      /\ howmany_found' = howmany_found + Cardinality(new)
      /\ UNCHANGED <<needlist, get_sent_list, downloading_list, filled, concurr_download_num,
                     max_download_num, howmany_need, output, whohas>>

\* DATA of a download under way: the buffer may fill up, with the right
\* content or with one whose hash does not match.
Data(p) ==
  /\ phase = "recv" /\ phase' = "input"
  /\ \E c \in downloading_list, b \in {"part", "good", "bad"} :
       /\ c.from = p
       /\ filled' = [filled EXCEPT ![c.hash] = b]
  /\ UNCHANGED <<needlist, lists, nums, output, whohas>>

\* The first DATA of a peer with a GET out to it opens the download
\* (init_download) and is received.  No packet fills a buffer alone.
FirstData(p) ==
  /\ phase = "recv" /\ phase' = "input"
  /\ ~HasPeer(downloading_list, p)
  /\ \E c \in get_sent_list :
       /\ c.from = p
       /\ get_sent_list' = get_sent_list \ {c}
       /\ downloading_list' = downloading_list \cup {c}
       /\ filled' = [filled EXCEPT ![c.hash] = "part"]
  /\ UNCHANGED <<needlist, get_tosend_quene, nums, output, whohas>>

\* No datagram, one for the upload side, or DATA without a connection.
NoDatagram ==
  /\ phase = "recv" /\ phase' = "input"
  /\ UNCHANGED <<needlist, lists, filled, nums, output, whohas>>

-----------------------------------------------------------------------------
(* "input": handle_user_input, process_get, reset_mydownload               *)

\* A new GET drops everything under way.
UserGet(need) ==
  /\ phase = "input" /\ phase' = "timeouts"
  /\ needlist' = need
  /\ get_tosend_quene' = {} /\ get_sent_list' = {} /\ downloading_list' = {}
  /\ filled' = [h \in Hashes |-> "none"]
  /\ concurr_download_num' = 0 /\ max_download_num' = MaxConn
  /\ howmany_found' = 0 /\ howmany_need' = Length(need)
  /\ output' = NoNeed
  /\ UNCHANGED whohas

NoInput ==
  /\ phase = "input" /\ phase' = "timeouts"
  /\ UNCHANGED <<needlist, lists, filled, nums, output, whohas>>

-----------------------------------------------------------------------------
(* "timeouts": check_timeout                                               *)

\* Every GET that has waited for 5 * TIMEOUT_SEC is dropped.
FoundAfterDrop_Kept(n) == howmany_found   \* mutant: howmany_found is not taken back
FoundAfterDrop(n) == howmany_found - n

CheckTimeout(expired) ==
  /\ phase = "timeouts" /\ phase' = "gets"
  /\ get_sent_list' = get_sent_list \ expired
  /\ concurr_download_num' = concurr_download_num - Cardinality(expired)
  /\ howmany_found' = FoundAfterDrop(Cardinality(expired))
  /\ UNCHANGED <<needlist, get_tosend_quene, downloading_list, filled, max_download_num,
                 howmany_need, output, whohas>>

-----------------------------------------------------------------------------
(* "gets": GET_sender, pick_tosend_GET, WhoHas_sender                      *)

\* Chunks queued for peers that are free.
Ready == {c \in get_tosend_quene : ~Busy(c.from)}

\* maxpick_num > 0
SlotFree_OneTooMany == max_download_num - concurr_download_num >= 0   \* mutant: off by one
SlotFree == max_download_num - concurr_download_num > 0

\* At most one GET a call: once a node has moved, the loop over the queue goes
\* on along its next pointer, now in get_sent_list, whose peers are all busy.
SendGet ==
  /\ phase = "gets" /\ phase' = "downloads"
  /\ SlotFree
  /\ \E c \in Ready :
       /\ get_tosend_quene' = get_tosend_quene \ {c}
       /\ get_sent_list' = get_sent_list \cup {c}
  /\ concurr_download_num' = concurr_download_num + 1
  /\ whohas' = {}
  /\ UNCHANGED <<needlist, downloading_list, filled, max_download_num, howmany_found,
                 howmany_need, output>>

\* form_WhoHas over the whole needlist, packet by packet.
Unlisted ==
  {h \in Hashes : /\ needlist[h] > 0
                  /\ ~HasHash(get_tosend_quene \cup get_sent_list \cup downloading_list, h)}

AskAgain_NothingFound ==   \* mutant: stops asking after the first find
  howmany_found = 0 /\ howmany_need > 0 /\ concurr_download_num = 0

\* No GET to send: ask for what is not found yet, when nothing is under way.
AskAgain ==
  /\ howmany_found < howmany_need
  /\ max_download_num > concurr_download_num
  /\ concurr_download_num = 0

NoGet ==
  /\ phase = "gets" /\ phase' = "downloads"
  /\ ~SlotFree \/ Ready = {}
  /\ whohas' = IF AskAgain THEN Unlisted ELSE {}
  /\ UNCHANGED <<needlist, lists, filled, nums, output>>

-----------------------------------------------------------------------------
(* "downloads": the download pass                                          *)

Complete(c) == filled[c.hash] \in {"good", "bad"}

Left(h) == [needlist EXCEPT ![h] = @ - 1]

\* A node of downloading_list given up: finish_one_download, or the timeout of
\* check_recvdata_timeout for several.
SlotsAfter_Leaked(n) == concurr_download_num   \* mutant: the slot is not given back
SlotsAfter(n) == concurr_download_num - n

\* reap and finish_one_download.  The return value of reap is not looked at.
\* When the needlist has become empty, complete_mydownload.
FinishDownload(c) ==
  /\ phase = "downloads"
  /\ Complete(c)
  /\ output' = IF filled[c.hash] = "good" THEN [output EXCEPT ![c.hash] = @ + 1] ELSE output
  /\ needlist' = Left(c.hash)
  /\ filled' = [filled EXCEPT ![c.hash] = "none"]
  /\ concurr_download_num' = SlotsAfter(1)
  /\ \/ /\ needlist' # NoNeed
        /\ downloading_list' = downloading_list \ {c}
        /\ UNCHANGED <<get_tosend_quene, get_sent_list, max_download_num, phase>>
     \/ /\ needlist' = NoNeed
        /\ get_tosend_quene' = {} /\ get_sent_list' = {} /\ downloading_list' = {}
        /\ max_download_num' = 0
        /\ phase' = "recv"
  /\ UNCHANGED <<howmany_found, howmany_need, whohas>>

\* Nothing more to reap: check_recvdata_timeout drops the silent downloads.
DataTimeouts(silent) ==
  /\ phase = "downloads" /\ phase' = "recv"
  /\ \A c \in downloading_list : ~Complete(c)
  /\ downloading_list' = downloading_list \ silent
  /\ filled' = [h \in Hashes |-> IF HasHash(silent, h) THEN "none" ELSE filled[h]]
  /\ concurr_download_num' = SlotsAfter(Cardinality(silent))
  /\ howmany_found' = howmany_found - Cardinality(silent)
  /\ UNCHANGED <<needlist, get_tosend_quene, get_sent_list, max_download_num, howmany_need,
                 output, whohas>>

-----------------------------------------------------------------------------
Next ==
  \/ \E p \in Peers, hs \in SUBSET Hashes : IHave(p, hs)
  \/ \E p \in Peers : Data(p) \/ FirstData(p)
  \/ NoDatagram
  \/ \E need \in [Hashes -> 0..MaxCopies] : UserGet(need)
  \/ NoInput
  \/ \E expired \in SUBSET get_sent_list : CheckTimeout(expired)
  \/ SendGet \/ NoGet
  \/ \E c \in downloading_list : FinishDownload(c)
  \/ \E silent \in SUBSET downloading_list : DataTimeouts(silent)

Spec == Init /\ [][Next]_vars

-----------------------------------------------------------------------------
(* Properties                                                              *)

\* Every variable stays in its range.
TypeOK ==
  /\ needlist \in [Hashes -> 0..MaxCopies]
  /\ get_tosend_quene \subseteq Conn
  /\ get_sent_list \subseteq Conn
  /\ downloading_list \subseteq Conn
  /\ filled \in [Hashes -> Buffers]
  /\ concurr_download_num \in 0..MaxConn
  /\ max_download_num \in {0, MaxConn}
  /\ howmany_found \in Nat
  /\ howmany_need \in Nat
  /\ output \in [Hashes -> 0..MaxCopies]
  /\ whohas \subseteq Hashes
  /\ phase \in Phases

Listed == get_tosend_quene \cup get_sent_list \cup downloading_list

\* The counter of running downloads is exact: one for each GET out and each
\* download.  One count too many that survives its connection would keep
\* WhoHas_sender from ever running again, without any error.
SlotsExact ==
  concurr_download_num = Cardinality(get_sent_list) + Cardinality(downloading_list)

\* At most one GET or download with a peer: DATA packets carry no chunk, the
\* peer's address is all that says where they belong.
OneConnPerPeer ==
  \A c, d \in get_sent_list \cup downloading_list : c.from = d.from => c = d

\* A hash is in one of the three lists at most, and once: the same chunk is
\* never requested from two peers.
HashListedOnce ==
  /\ \A c, d \in Listed : c.hash = d.hash => c = d
  /\ get_tosend_quene \cap get_sent_list = {}
  /\ get_tosend_quene \cap downloading_list = {}
  /\ get_sent_list \cap downloading_list = {}

\* The lists hold needed chunks only ("should be subset of needlist"):
\* delete_node_by_hash dereferences NULL for a hash that is not in needlist.
ListedIsNeeded == \A c \in Listed : needlist[c.hash] > 0

\* howmany_found counts the chunks in the lists and the finished ones, across
\* timeouts, moves between peers and repeated IHAVEs: the test howmany_found <
\* howmany_need is what brings WhoHas_sender back.
FoundExact ==
  max_download_num # 0 =>
    howmany_found = Cardinality(Listed) + (howmany_need - Length(needlist))

\* A peer that needs chunks is never silent: after the GET pass of every
\* iteration some chunk is requested or arriving, or a WHOHAS for everything
\* needed has just been broadcast.
NeverSilent ==
  [][phase = "gets" /\ concurr_download_num' = 0 =>
       \A h \in Hashes : needlist[h] > 0 => h \in whohas']_vars

\* "GOT file!" (peer.c:201): when the needlist of a download has become empty,
\* every chunk of it has been written to the output file.
GotFileMeansWritten ==
  howmany_need > 0 /\ needlist = NoNeed => Length(output) = howmany_need

=============================================================================
