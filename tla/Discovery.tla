------------------------------ MODULE Discovery ------------------------------
(***************************************************************************)
(* How a peer finds out who has the chunks it needs: WhoHas_sender asks    *)
(* all other peers, in packets of at most PageSize hashes, for what is on  *)
(* its needlist and on none of its lists of chunks found; each of them     *)
(* answers with the hashes it has (form_IHav).  It asks again whenever     *)
(* nothing is queued, requested or arriving and chunks are missing.        *)
(* Packets are lost, repeated and reordered.                               *)
(*                                                                         *)
(* Abstractions.  listed stands for the three lists of chunks that have    *)
(* been found, each with the peer it comes from; how they change is module *)
(* Downloads.  A node of needlist is its position in the list the user     *)
(* gave, and so is a hash in a packet: packets are made in its order.      *)
(***************************************************************************)
EXTENDS Integers, Sequences, FiniteSets

CONSTANTS
  Hashes,     \* hashes of chunks
  Peers,      \* the peers asked
  has,        \* peer -> the hashes of its haslist
  needlist,   \* the user's list of hashes; a hash may occur twice
  PageSize,   \* MAX_HASHNUM_PER_PACK
  MaxNet,     \* bound: packets in the network
  None        \* no page has been formed

ASSUME DiscoveryAssumption ==
  /\ has \in [Peers -> SUBSET Hashes]
  /\ needlist \in Seq(Hashes)
  /\ PageSize \in Nat \ {0}
  /\ MaxNet \in Nat \ {0}
  /\ \A hs \in SUBSET (1..Len(needlist)) : None # hs

VARIABLES
  need,     \* the positions of needlist whose chunks are not finished
  listed,   \* hash -> the peer it was found at, for the hashes found
  phase,    \* of an iteration: "recv", a packet may be read; "gets", GET_sender
  curr,     \* the position in needlist, Len(needlist) + 1 between two rounds
  page,     \* the hashes of the packet just formed, or None
  asked,    \* history: the hashes this round has broadcast
  net       \* packets under way: WHOHAS to a peer, IHAVE from one

vars == <<need, listed, phase, curr, page, asked, net>>

Places == 1..Len(needlist)
Idle == Len(needlist) + 1

Init ==
  /\ need = Places
  /\ listed = <<>>
  /\ phase = "recv"
  /\ curr = Idle
  /\ page = None
  /\ asked = {}
  /\ net = {}

IsListed(h) == h \in DOMAIN listed
Needed == {needlist[i] : i \in need}

\* The nodes of the list from i on whose hash is on none of the lists.
Open(i) == {j \in need : j >= i /\ ~IsListed(needlist[j])}

\* dealwithincomepack and the timeouts run between two rounds, never inside one.
InLoop == curr = Idle /\ page = None

-----------------------------------------------------------------------------
(* WhoHas_sender                                                           *)

\* The first node at position i or behind it.
First(js) == IF js = {} THEN Idle ELSE CHOOSE j \in js : \A k \in js : j <= k
NodeFrom(i) == First({j \in need : j >= i})

\* GET_sender has sent nothing, a slot is free and no GET or download runs: then
\* nothing is queued either, as no peer is busy (AsksWithNothingListed, a theorem
\* of Downloads_proofs).
Unoccupied == DOMAIN listed = {}

\* peer_run asks when nothing goes on and something is missing.
BeginRound ==
  /\ InLoop /\ phase = "gets"
  /\ Unoccupied /\ need # {}
  /\ phase' = "recv"
  /\ curr' = NodeFrom(1)
  /\ asked' = {}
  /\ UNCHANGED <<need, listed, page, net>>

\* Otherwise the iteration goes on.
NoRound ==
  /\ InLoop /\ phase = "gets"
  /\ ~Unoccupied \/ need = {}
  /\ phase' = "recv"
  /\ UNCHANGED <<need, listed, curr, page, asked, net>>

\* form_WhoHas copies until the packet is full or the list ends, and returns the
\* node behind the last one it looked at.
Filling_OneMore(i) ==   \* mutant: one hash more than fits
  {j \in Open(i) : Cardinality(Open(i) \cap i..j) = PageSize + 1}
Filling(i) == {j \in Open(i) : Cardinality(Open(i) \cap i..j) = PageSize}
PageEnd(i) == IF Filling(i) = {} THEN Idle ELSE (CHOOSE j \in Filling(i) : TRUE) + 1

\* Where the next packet begins.
NextPage_Skips(end) == NodeFrom(end + 1)   \* mutant: a node is passed over
NextPage_Repeats(end) ==                   \* mutant: the last node is looked at again
  IF end = Idle THEN end ELSE NodeFrom(end - 1)
NextPage(end) == NodeFrom(end)

PageHashes(i, end) == {j \in Open(i) : j < end}

FormWhoHas ==
  /\ curr < Idle /\ page = None
  /\ page' = PageHashes(curr, PageEnd(curr))
  /\ curr' = NextPage(PageEnd(curr))
  /\ UNCHANGED <<need, listed, phase, asked, net>>

\* A packet with no hash is not sent.
Worth(hs) == Cardinality(hs) # 0

WhoHas(p, hs) == [type |-> "WHOHAS", peer |-> p, hashes |-> hs]
IHave(p, hs)  == [type |-> "IHAVE",  peer |-> p, hashes |-> hs]

\* The packets `sent` join the network `rest`; any of them may be lost, and those
\* beyond the bound MaxNet are.
Send(rest, sent) ==
  \E carried \in SUBSET sent :
    /\ net' = rest \cup carried
    /\ Cardinality(net') <= MaxNet

\* broadcast sends it to each of the peers.
Broadcast ==
  /\ page # None
  /\ IF Worth(page)
     THEN /\ Send(net, {WhoHas(p, page) : p \in Peers})
          /\ asked' = asked \cup page
     ELSE UNCHANGED <<net, asked>>
  /\ page' = None
  /\ UNCHANGED <<need, listed, phase, curr>>

-----------------------------------------------------------------------------
(* The peer that is asked: IHav_sender, form_IHav                          *)

Held(p, hs) == {i \in hs : needlist[i] \in has[p]}

\* The answer goes out when it has a hash.  The packet may stay in the network, to
\* arrive again.
Answer(m) ==
  LET hs == Held(m.peer, m.hashes)
  IN  /\ m.type = "WHOHAS"
      /\ \E rest \in {net, net \ {m}} : Send(rest, IF Cardinality(hs) > 0 THEN {IHave(m.peer, hs)} ELSE {})
      /\ UNCHANGED <<need, listed, phase, curr, page, asked>>

-----------------------------------------------------------------------------
(* The answer, and what happens to chunks found                            *)

\* fill_toget_list: hashes needed that are not listed yet, and some of those that are
\* (they are queued for a peer that is busy), are listed for the peer that answers.
HearIHave(m) ==
  LET heard == {needlist[i] : i \in m.hashes} \cap Needed
      new   == {h \in heard : ~IsListed(h)}
  IN  /\ InLoop /\ phase = "recv" /\ phase' = "gets"
      /\ m.type = "IHAVE"
      /\ \E moved \in SUBSET (heard \ new) :
           listed' = [h \in DOMAIN listed \cup new |->
                        IF h \in new \cup moved THEN m.peer ELSE listed[h]]
      /\ net' \in {net, net \ {m}}
      /\ UNCHANGED <<need, curr, page, asked>>

\* No packet, or one that is about something else.
NoIHave ==
  /\ InLoop /\ phase = "recv" /\ phase' = "gets"
  /\ UNCHANGED <<need, listed, curr, page, asked, net>>

\* A GET or a download that times out leaves the lists.
Unlist(h) == [g \in DOMAIN listed \ {h} |-> listed[g]]

Drop(h) ==
  /\ InLoop
  /\ IsListed(h)
  /\ listed' = Unlist(h)
  /\ UNCHANGED <<need, phase, curr, page, asked, net>>

\* finish_one_download: the chunk leaves the lists, and its first node needlist.
Finish(h) ==
  /\ InLoop
  /\ IsListed(h)
  /\ listed' = Unlist(h)
  /\ need' = need \ {First({i \in need : needlist[i] = h})}
  /\ UNCHANGED <<phase, curr, page, asked, net>>

-----------------------------------------------------------------------------
\* The loop of peer_run, as far as it does not wait for packets.
Loop == NoIHave \/ BeginRound \/ NoRound \/ FormWhoHas \/ Broadcast

Next ==
  \/ NoIHave \/ BeginRound \/ NoRound \/ FormWhoHas \/ Broadcast
  \/ \E m \in net : Answer(m) \/ HearIHave(m)
  \/ \E h \in Hashes : Drop(h) \/ Finish(h)

Spec == Init /\ [][Next]_vars

-----------------------------------------------------------------------------
(* Properties                                                              *)

\* Every variable stays in its range, and no packet has more hashes than fit or none.
PageOK(hs) == hs \subseteq Places /\ Cardinality(hs) \in 1..PageSize
TypeOK ==
  /\ need \subseteq Places
  /\ DOMAIN listed \subseteq Hashes /\ \A h \in DOMAIN listed : listed[h] \in Peers
  /\ phase \in {"recv", "gets"}
  /\ curr \in need \cup {Idle}
  /\ page = None \/ page \subseteq Places
  /\ asked \subseteq Places
  /\ \A m \in net : m.type \in {"WHOHAS", "IHAVE"} /\ m.peer \in Peers /\ PageOK(m.hashes)

\* A round asks for every open position of the needlist once, in order, however the
\* packets of PageSize hashes fall and whatever has been found: what it has asked
\* for, the packet in hand and what lies before it are always all that is open
\* (WhoHas_sender, form_WhoHas).
InHand == IF page = None THEN {} ELSE page
RoundAsksAll ==
  ~InLoop =>
    /\ asked \cup InHand \cup Open(curr) = Open(1)
    /\ \A i \in asked, j \in InHand \cup Open(curr) : i < j
    /\ \A i \in InHand, j \in Open(curr) : i < j

\* While the peer comes to rest again and again, with nothing queued, requested or
\* arriving, every chunk it still needs is listed again and again for a peer that has
\* it, if there is one, in spite of all losses.  The condition is needed: an upload
\* kept alive by a stray packet (OrphanClosed of PeerPair) occupies the peer for
\* ever, and nothing is asked for meanwhile (peer.c:146-148).
Rests == InLoop /\ phase = "gets" /\ Unoccupied
FoundAtHolder(h) == IsListed(h) /\ h \in has[listed[h]]
KeepsFinding ==
  \A h \in Hashes :
    (\E p \in Peers : h \in has[p]) =>
      ([]<>Rests => []<>(FoundAtHolder(h) \/ h \notin Needed))

\* The loop of peer_run goes on.  Of the packets about a hash that pass between the
\* asking peer and one that has it, sent again and again, some arrive and are read.
About(m, p, h) == m.peer = p /\ \E i \in m.hashes : needlist[i] = h
AskReaches(p, h) == Broadcast /\ \E m \in net' : m = WhoHas(p, page) /\ About(m, p, h)
AnswerReaches(p, h) ==
  \E m \in net : About(m, p, h) /\ Answer(m) /\ IHave(p, Held(p, m.hashes)) \in net'
AnswerIsRead(p, h) == \E m \in net : About(m, p, h) /\ HearIHave(m)

Fairness ==
  /\ WF_vars(Loop)
  /\ \A p \in Peers : \A h \in {needlist[i] : i \in Places} \cap has[p] :
       SF_vars(AskReaches(p, h)) /\ SF_vars(AnswerReaches(p, h)) /\ SF_vars(AnswerIsRead(p, h))

LiveSpec == Spec /\ Fairness
=============================================================================
