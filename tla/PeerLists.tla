------------------------------ MODULE PeerLists ------------------------------
(***************************************************************************)
(* The lists of a peer as linked nodes, three of the download and two of   *)
(* the upload side, under the loops of peer_run that walk them while nodes *)
(* are moved, deleted and freed.  Every iteration of a loop is a step, so  *)
(* that a pointer kept from one iteration to the next can go stale.  All   *)
(* nodes come from one heap: an address freed by one side may be taken by  *)
(* the other.                                                              *)
(*                                                                         *)
(* Abstractions.  A node of the download side carries the peer it is to    *)
(* come from; chunks, counters and windows are modules Downloads, Uploads  *)
(* and SenderWindow.  needlist and haslist are left out: nothing walks     *)
(* them while they change.  Downloads and uploads finish and time out at   *)
(* any node.                                                               *)
(***************************************************************************)
EXTENDS NodeLists

CONSTANTS
  Peers,         \* the other peers
  MaxConn        \* max_conn of the configuration

DownLists == {"tosend", "sent", "downloading"}
UpLists == {"uploading", "uploaded"}

ASSUME PeerListsAssumption ==
  /\ Lists = DownLists \cup UpLists
  /\ Peers # {}
  /\ MaxConn \in Nat \ {0}

VARIABLES
  heap,      \* the lists: get_tosend_quene, get_sent_list, downloading_list,
             \*   uploading_list, uploaded_list
  from,      \* node -> peer, the address in the node
  pc,        \* the loop that runs, or "recv", "input" between them
  curr,      \* the loop's pointer
  sender,    \* the peer whose IHAVE is being read
  sent_list, \* pick_tosend_GET: get_sent_list as it was when the loop began
  maxpick,   \* pick_tosend_GET: how many GETs it may send
  count,     \* pick_tosend_GET: how many GETs it has sent
  todo       \* history: nodes that the upload or download pass has not reached yet

vars == <<heap, from, pc, curr, sender, sent_list, maxpick, count, todo>>

PCs == {"recv", "ihave", "input", "timeouts", "gets", "uploads", "next upload",
        "downloads", "next download", "crashed"}

Init ==
  /\ heap = EmptyHeap
  /\ from = [n \in Nodes |-> NULL]
  /\ pc = "recv" /\ curr = NULL
  /\ sender = NULL
  /\ sent_list = NULL /\ maxpick = 0 /\ count = 0
  /\ todo = {}

\* find_node_by_addr on the list that begins at p.
HasPeerFrom(p, peer) == \E n \in From(heap, p) : from[n] = peer
HasPeer(l, peer) == HasPeerFrom(heap.head[l], peer)

picking == <<sent_list, maxpick, count>>

-----------------------------------------------------------------------------
(* One datagram                                                            *)

\* An IHAVE, read hash by hash.
IHave(p) ==
  /\ pc = "recv" /\ pc' = "ihave"
  /\ sender' = p
  /\ UNCHANGED <<heap, from, curr, picking, todo>>

\* fill_toget_list, a hash that is not queued.
QueueNew(n) ==
  /\ pc = "ihave"
  /\ n \notin heap.live
  /\ heap' = Append(Create(heap, n), "tosend", n)
  /\ from' = [from EXCEPT ![n] = sender]
  /\ UNCHANGED <<pc, curr, sender, picking, todo>>

\* fill_toget_list, a hash queued for a busy peer: its node is freed and a
\* new one appended, at the same address or at another.
QueueMoved(old, n) ==
  /\ pc = "ihave"
  /\ old \in On(heap, "tosend")
  /\ from[old] # sender
  /\ HasPeer("downloading", from[old]) \/ HasPeer("sent", from[old])
  /\ n \notin heap.live \ {old}
  /\ heap' = Append(Create(Delete(heap, "tosend", old), n), "tosend", n)
  /\ from' = [from EXCEPT ![n] = sender]
  /\ UNCHANGED <<pc, curr, sender, picking, todo>>

IHaveRead ==
  /\ pc = "ihave" /\ pc' = "input"
  /\ sender' = NULL
  /\ UNCHANGED <<heap, from, curr, picking, todo>>

\* A GET that is served: init_upload.
ServeGet(n) ==
  /\ pc = "recv" /\ pc' = "input"
  /\ n \notin heap.live
  /\ heap' = Append(Create(heap, n), "uploading", n)
  /\ UNCHANGED <<from, curr, sender, picking, todo>>

\* The first DATA from a peer with a GET out to it: init_download.  The loop of
\* find_node_by_addr stops at the first node with the address.
FirstData(n) ==
  /\ pc = "recv" /\ pc' = "input"
  /\ n \in On(heap, "sent")
  /\ ~HasPeer("downloading", from[n])
  /\ heap' = Move(heap, "downloading", "sent", n)
  /\ UNCHANGED <<from, curr, sender, picking, todo>>

OtherDatagram ==
  /\ pc = "recv" /\ pc' = "input"
  /\ UNCHANGED <<heap, from, curr, sender, picking, todo>>

-----------------------------------------------------------------------------
(* User input: reset_mydownload clears the lists                           *)

UserGet ==
  /\ pc = "input" /\ pc' = "timeouts"
  /\ heap' = Clear(Clear(Clear(heap, "tosend"), "sent"), "downloading")
  /\ curr' = NULL
  /\ UNCHANGED <<from, sender, picking, todo>>

NoInput ==
  /\ pc = "input" /\ pc' = "timeouts"
  /\ curr' = heap.head["sent"]
  /\ UNCHANGED <<heap, from, sender, picking, todo>>

-----------------------------------------------------------------------------
(* check_timeout: the next node is read before the present one is freed    *)

DropGet ==
  /\ pc = "timeouts" /\ curr # NULL
  /\ heap' = Delete(heap, "sent", curr)
  /\ curr' = heap.next[curr]
  /\ UNCHANGED <<from, pc, sender, picking, todo>>

KeepGet ==
  /\ pc = "timeouts" /\ curr # NULL
  /\ curr' = heap.next[curr]
  /\ UNCHANGED <<heap, from, pc, sender, picking, todo>>

\* max_send of GET_sender: the counter of connections is exact (Downloads).
MaxSend == MaxConn - Cardinality(On(heap, "sent")) - Cardinality(On(heap, "downloading"))

\* GET_sender and the first lines of pick_tosend_GET.
BeginPick ==
  /\ pc = "timeouts" /\ curr = NULL
  /\ pc' = "gets"
  /\ curr' = heap.head["tosend"]
  /\ sent_list' = heap.head["sent"]
  /\ maxpick' = MaxSend
  /\ count' = 0
  /\ UNCHANGED <<heap, from, sender, todo>>

-----------------------------------------------------------------------------
(* pick_tosend_GET                                                         *)

Picking == pc = "gets" /\ curr # NULL /\ count < maxpick

\* No GET is out to the node's peer and nothing is being received from it.
\* downloading_list does not change in this loop, get_sent_list does.
PeerFree_NotSent(n) == ~HasPeer("downloading", from[n])   \* mutant: GETs sent are not looked at
PeerFree(n) == ~HasPeerFrom(sent_list, from[n]) /\ ~HasPeer("downloading", from[n])

\* Where curr->next leads once the node has moved.
Onward_Saved(before, after, n) == before.next[n]   \* mutant: next is read before the move
Onward(before, after, n) == after.next[n]

\* The node moves to get_sent_list, and the loop follows its next pointer there.
PickGet ==
  /\ Picking /\ PeerFree(curr)
  /\ IF Crashes(heap, "tosend", curr)
     THEN pc' = "crashed" /\ UNCHANGED <<heap, curr, count>>
     ELSE /\ heap' = Move(heap, "sent", "tosend", curr)
          /\ curr' = Onward(heap, heap', curr)
          /\ count' = count + 1
          /\ pc' = pc
  /\ UNCHANGED <<from, sender, sent_list, maxpick, todo>>

SkipGet ==
  /\ Picking /\ ~PeerFree(curr)
  /\ curr' = heap.next[curr]
  /\ UNCHANGED <<heap, from, pc, sender, picking, todo>>

EndPick ==
  /\ pc = "gets" /\ ~Picking
  /\ pc' = "uploads"
  /\ curr' = heap.head["uploading"]
  /\ todo' = On(heap, "uploading")
  /\ sent_list' = NULL /\ maxpick' = 0 /\ count' = 0
  /\ UNCHANGED <<heap, from, sender>>

-----------------------------------------------------------------------------
(* The upload pass                                                         *)

AtUpload == pc = "uploads" /\ curr # NULL

\* The node is taken out of uploading_list, which leaves the heap `after`.
TakeOut(after, goto) ==
  /\ UNCHANGED <<from, sender, picking>>
  /\ IF Crashes(heap, "uploading", curr)
     THEN pc' = "crashed" /\ UNCHANGED <<heap, todo>>
     ELSE pc' = goto /\ heap' = after /\ todo' = todo \ {curr}

\* tmp, the node to go on with: read before move_node sets the next pointer.
AfterFinish(before, after, n) == before.next[n]

FinishUpload ==
  /\ AtUpload
  /\ TakeOut(Move(heap, "uploaded", "uploading", curr), "uploads")
  /\ curr' = AfterFinish(heap, heap', curr)

\* check_recvack_timeout frees the node (abort_upload).
AbortUpload ==
  /\ AtUpload
  /\ TakeOut(Delete(heap, "uploading", curr), "next upload")
  /\ UNCHANGED curr

KeepUpload ==
  /\ AtUpload
  /\ pc' = "next upload"
  /\ todo' = todo \ {curr}
  /\ UNCHANGED <<heap, from, curr, sender, picking>>

\* currupload=currupload->next, of a node that may have been freed.
NextUpload ==
  /\ pc = "next upload" /\ pc' = "uploads"
  /\ curr' = heap.next[curr]
  /\ UNCHANGED <<heap, from, sender, picking, todo>>

EndUploads ==
  /\ pc = "uploads" /\ curr = NULL
  /\ pc' = "downloads"
  /\ curr' = heap.head["downloading"]
  /\ todo' = todo \cup On(heap, "downloading")
  /\ UNCHANGED <<heap, from, sender, picking>>

-----------------------------------------------------------------------------
(* The download pass                                                       *)

\* finish_one_download or check_recvdata_timeout frees the node.  After the first
\* the second reads the freed node's timestamp, which is fresh: the packet that
\* completed the chunk came in this iteration.  Leaving the loop when needlist is
\* empty is the same as going on: the list is empty then.
EndDownload ==
  /\ pc = "downloads" /\ curr # NULL
  /\ heap' = Delete(heap, "downloading", curr)
  /\ pc' = "next download"
  /\ todo' = todo \ {curr}
  /\ UNCHANGED <<from, curr, sender, picking>>

KeepDownload ==
  /\ pc = "downloads" /\ curr # NULL
  /\ pc' = "next download"
  /\ todo' = todo \ {curr}
  /\ UNCHANGED <<heap, from, curr, sender, picking>>

\* currdownload=currdownload->next, of a node that may have been freed.
NextDownload ==
  /\ pc = "next download" /\ pc' = "downloads"
  /\ curr' = heap.next[curr]
  /\ UNCHANGED <<heap, from, sender, picking, todo>>

EndDownloads ==
  /\ pc = "downloads" /\ curr = NULL
  /\ pc' = "recv"
  /\ UNCHANGED <<heap, from, curr, sender, picking, todo>>

-----------------------------------------------------------------------------
Next ==
  \/ \E p \in Peers : IHave(p)
  \/ \E n \in Nodes : QueueNew(n) \/ FirstData(n) \/ ServeGet(n)
  \/ \E old, n \in Nodes : QueueMoved(old, n)
  \/ IHaveRead \/ OtherDatagram
  \/ UserGet \/ NoInput
  \/ DropGet \/ KeepGet \/ BeginPick
  \/ PickGet \/ SkipGet \/ EndPick
  \/ FinishUpload \/ AbortUpload \/ KeepUpload \/ NextUpload \/ EndUploads
  \/ EndDownload \/ KeepDownload \/ NextDownload \/ EndDownloads

Spec == Init /\ [][Next]_vars

-----------------------------------------------------------------------------
(* Properties                                                              *)

\* Every variable stays in its range.
TypeOK ==
  /\ heap \in Heaps
  /\ from \in [Nodes -> Peers \cup {NULL}]
  /\ pc \in PCs
  /\ curr \in Pointers /\ sent_list \in Pointers
  /\ sender \in Peers \cup {NULL}
  /\ maxpick \in 0..MaxConn /\ count \in 0..MaxConn
  /\ todo \subseteq On(heap, "uploading") \cup On(heap, "downloading")

\* No list is cut off, closed to a ring or shared, no node leaks and none on a
\* list has been freed, while loops move and delete the nodes they stand on.
ListsSound == Sound(heap)

\* move_node and delete_node never take a node out of a list it is not on.
\* pick_tosend_GET walks on into get_sent_list, and only the test for busy peers
\* keeps it from moving nodes out of get_tosend_quene again that left it; the
\* upload pass stays on its list only by reading next before the move.
NoCrash == pc # "crashed"

\* One call of pick_tosend_GET sends one GET at most, however many peers are
\* free: the assumption of Downloads!SendGet.
OneGetPerPass == count <= 1

\* The passes reach every upload and every download, although they read the next
\* pointer of nodes they have just moved or freed: no window misses its turn to
\* send, no connection its timeout.
PassesComplete == pc = "recv" => todo = {}
=============================================================================
