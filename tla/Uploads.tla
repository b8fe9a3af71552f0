------------------------------- MODULE Uploads -------------------------------
(***************************************************************************)
(* The upload side of one peer (Upload_conn, hashlist.h): which chunks it  *)
(* is sending to whom, through the main loop of peer_run: "recv" handles a *)
(* GET (or another datagram), "uploads" is the pass over uploading_list    *)
(* where each window finishes, is given up, or goes on.                    *)
(*                                                                         *)
(* Abstractions.  What happens inside a window is module SenderWindow;     *)
(* here an upload may finish or time out at any pass.  uploading_list is a *)
(* set, as nothing depends on its order; uploaded_list is a sequence with  *)
(* the last finished upload first, as move_node puts it there.             *)
(***************************************************************************)
EXTENDS Integers, FiniteSets, Sequences, SequencesExt

CONSTANTS
  Hashes,        \* the hashes that may be asked for
  Has,           \* the ones in haslist
  Peers,         \* the other peers
  MaxConn,       \* max_conn of the configuration (-m)
  MaxUploaded    \* bound of the model: finished uploads

ASSUME UploadsAssumption ==
  /\ IsFiniteSet(Peers)
  /\ Has \subseteq Hashes
  /\ MaxConn \in Nat \ {0}
  /\ MaxUploaded \in Nat

VARIABLES
  uploading_list, uploaded_list, concurr_upload_num, phase

vars == <<uploading_list, uploaded_list, concurr_upload_num, phase>>

Conn   == [hash : Hashes, from : Peers]
Phases == {"recv", "uploads"}

Init ==
  /\ uploading_list = {}
  /\ uploaded_list = <<>>
  /\ concurr_upload_num = 0
  /\ phase = "recv"

-----------------------------------------------------------------------------
(* "recv": dealwithincomepack, the GET case, and init_upload               *)

Uploading_Never(p) == FALSE   \* mutant: a second GET of a peer is served as well
Uploading(p) == \E c \in uploading_list : c.from = p

\* find_node_by_addr finds the upload to p that finished last.
LastUploaded(p) ==
  LET of == SelectSeq(uploaded_list, LAMBDA c : c.from = p)
  IN  IF of = <<>> THEN {} ELSE {of[1].hash}

SlotFree_OneTooMany == concurr_upload_num <= MaxConn   \* mutant: off by one
SlotFree == concurr_upload_num < MaxConn

Served(p, h) ==
  /\ SlotFree
  /\ ~Uploading(p)
  /\ h \notin LastUploaded(p)

\* The slot is taken before haslist is looked at, and not given back when the
\* chunk is not there.
Get(p, h) ==
  /\ phase = "recv" /\ phase' = "uploads"
  /\ \/ /\ Served(p, h)
        /\ concurr_upload_num' = concurr_upload_num + 1
        /\ uploading_list' = IF h \in Has
                             THEN uploading_list \cup {[hash |-> h, from |-> p]}
                             ELSE uploading_list
     \/ /\ ~Served(p, h)
        /\ UNCHANGED <<uploading_list, concurr_upload_num>>
  /\ UNCHANGED uploaded_list

OtherDatagram ==
  /\ phase = "recv" /\ phase' = "uploads"
  /\ UNCHANGED <<uploading_list, uploaded_list, concurr_upload_num>>

-----------------------------------------------------------------------------
(* "uploads": the pass over uploading_list                                 *)

\* Slots after n uploads have ended.
SlotsAfter_TwiceForAbort(n) == concurr_upload_num - 2 * n   \* mutant: given back twice
SlotsAfter(n) == concurr_upload_num - n

\* At most one upload finishes in a pass, the one whose ACK (or whose GET, when
\* the data file cannot be read) was handled in this iteration.
Finishing == {F \in SUBSET uploading_list : Cardinality(F) <= 1}

UploadPass(done, aborted) ==
  /\ phase = "uploads" /\ phase' = "recv"
  /\ Len(uploaded_list) + Cardinality(done) <= MaxUploaded
  /\ uploading_list' = uploading_list \ (done \cup aborted)
  /\ uploaded_list' = SetToSeq(done) \o uploaded_list
  /\ concurr_upload_num' = SlotsAfter(Cardinality(done \cup aborted))

Next ==
  \/ \E p \in Peers, h \in Hashes : Get(p, h)
  \/ OtherDatagram
  \/ \E done \in Finishing : \E aborted \in SUBSET (uploading_list \ done) :
       UploadPass(done, aborted)

Spec == Init /\ [][Next]_vars

-----------------------------------------------------------------------------
(* Properties                                                              *)

\* Every variable stays in its range.
TypeOK ==
  /\ uploading_list \subseteq Conn
  /\ uploaded_list \in Seq(Conn)
  /\ concurr_upload_num \in 0..MaxConn
  /\ phase \in Phases

\* One upload at most to each peer: an ACK carries no chunk, the address is all
\* that says which window it belongs to.
OneUploadPerPeer == \A c, d \in uploading_list : c.from = d.from => c = d

\* The slots in use are never fewer than the uploads, through refused, failed,
\* finished and aborted ones: the limit of max_upload_num is kept.
SlotsCoverUploads == Cardinality(uploading_list) <= concurr_upload_num

=============================================================================
