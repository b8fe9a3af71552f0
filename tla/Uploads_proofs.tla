---------------------------- MODULE Uploads_proofs ----------------------------
(***************************************************************************)
(* The safety of module Uploads for any peers, chunks and limit.  IInv is  *)
(* the inductive invariant: the types, one upload for each peer, and at    *)
(* least one slot for each upload, which needs the list to be finite.      *)
(***************************************************************************)
EXTENDS Uploads, FiniteSetTheorems, TLAPS

ListFinite == IsFiniteSet(uploading_list)

IInv == TypeOK /\ OneUploadPerPeer /\ ListFinite /\ SlotsCoverUploads

USE UploadsAssumption

-----------------------------------------------------------------------------
LEMMA InitInv == Init => IInv
<1> SUFFICES ASSUME Init PROVE IInv
  OBVIOUS
<1>1. TypeOK /\ OneUploadPerPeer
  BY DEF Init, TypeOK, OneUploadPerPeer, Phases
<1>2. ListFinite /\ SlotsCoverUploads
  BY FS_EmptySet DEF Init, ListFinite, SlotsCoverUploads
<1> QED  BY <1>1, <1>2 DEF IInv

-----------------------------------------------------------------------------
\* What a served GET does to the list and to the slots.
LEMMA GetPreservesInv ==
  ASSUME IInv, NEW p \in Peers, NEW h \in Hashes, Get(p, h)
  PROVE  IInv'
<1> DEFINE c == [hash |-> h, from |-> p]
<1> USE DEF IInv
<1>0. uploaded_list' = uploaded_list /\ phase' \in Phases
  BY DEF Get, Phases
<1>1. CASE Served(p, h)
  <2>1. concurr_upload_num' = concurr_upload_num + 1 /\ concurr_upload_num < MaxConn
    BY <1>1 DEF Get, Served, SlotFree
  <2>2. CASE h \in Has
    <3>1. uploading_list' = uploading_list \cup {c}
      BY <1>1, <2>2 DEF Get
    <3>2. c \in Conn /\ c.from = p
      BY DEF Conn
    <3>3. \A d \in uploading_list : d.from # p
      BY <1>1 DEF Served, Uploading
    <3>4. TypeOK'
      BY <1>0, <2>1, <3>1, <3>2 DEF TypeOK
    <3>5. OneUploadPerPeer'
      BY <3>1, <3>2, <3>3 DEF OneUploadPerPeer
    <3>6. /\ IsFiniteSet(uploading_list \cup {c})
          /\ Cardinality(uploading_list \cup {c}) <= Cardinality(uploading_list) + 1
      <4> HIDE DEF c
      <4>1. IsFiniteSet(uploading_list)  BY DEF ListFinite
      <4>2. Cardinality(uploading_list) \in Nat  BY <4>1, FS_CardinalityType
      <4>3. /\ IsFiniteSet(uploading_list \cup {c})
            /\ Cardinality(uploading_list \cup {c}) =
                 IF c \in uploading_list THEN Cardinality(uploading_list) ELSE Cardinality(uploading_list) + 1
        BY <4>1, FS_AddElement, Zenon
      <4> QED  BY <4>2, <4>3
    <3>7. ListFinite' /\ SlotsCoverUploads'
      BY <2>1, <3>1, <3>6, FS_CardinalityType DEF TypeOK, ListFinite, SlotsCoverUploads
    <3> QED  BY <3>4, <3>5, <3>7
  <2>3. CASE h \notin Has
    <3>1. uploading_list' = uploading_list
      BY <1>1, <2>3 DEF Get
    <3>2. TypeOK' /\ OneUploadPerPeer' /\ ListFinite'
      BY <1>0, <2>1, <3>1 DEF TypeOK, OneUploadPerPeer, ListFinite
    <3>3. SlotsCoverUploads'
      BY <2>1, <3>1, FS_CardinalityType DEF TypeOK, ListFinite, SlotsCoverUploads
    <3> QED  BY <3>2, <3>3
  <2> QED  BY <2>2, <2>3
<1>2. CASE ~Served(p, h)
  <2>1. uploading_list' = uploading_list /\ concurr_upload_num' = concurr_upload_num
    BY <1>2 DEF Get
  <2> QED  BY <1>0, <2>1 DEF TypeOK, OneUploadPerPeer, ListFinite, SlotsCoverUploads
<1> QED  BY <1>1, <1>2

-----------------------------------------------------------------------------
\* SetToSeq of the finished uploads is a sequence of connections.
LEMMA FinishedIsSeq ==
  ASSUME TypeOK, ListFinite, NEW done \in Finishing
  PROVE  SetToSeq(done) \in Seq(Conn)
<1>1. done \subseteq Conn /\ IsFiniteSet(done) /\ Cardinality(done) <= 1 /\ Cardinality(done) \in Nat
  BY FS_Subset, FS_CardinalityType DEF Finishing, TypeOK, ListFinite
<1> DEFINE n == Cardinality(done)
<1>2. PICK f \in [1..n -> done] : IsInjective(f)
  <2>1. CASE n = 0
    <3>1. done = {}  BY <1>1, <2>1, FS_EmptySet
    <3>2. [i \in 1..n |-> i] \in [1..n -> done]  BY <2>1, <3>1
    <3> QED  BY <2>1, <3>2 DEF IsInjective
  <2>2. CASE n = 1
    <3>1. PICK x : x \in done  BY <1>1, <2>2, FS_EmptySet
    <3>2. [i \in 1..n |-> x] \in [1..n -> done]  BY <3>1
    <3>3. IsInjective([i \in 1..n |-> x])  BY <2>2 DEF IsInjective
    <3> QED  BY <3>2, <3>3
  <2> QED  BY <1>1, <2>1, <2>2
<1>3. SetToSeq(done) \in [1..n -> done]
  BY <1>2 DEF SetToSeq
<1> QED  BY <1>1, <1>3

LEMMA PassPreservesInv ==
  ASSUME IInv, NEW done \in Finishing, NEW aborted \in SUBSET (uploading_list \ done),
         UploadPass(done, aborted)
  PROVE  IInv'
<1> DEFINE gone == done \cup aborted
<1> USE DEF IInv
<1>1. gone \subseteq uploading_list  BY DEF Finishing
<1>2. /\ uploading_list' = uploading_list \ gone
      /\ concurr_upload_num' = concurr_upload_num - Cardinality(gone)
      /\ uploaded_list' = SetToSeq(done) \o uploaded_list
      /\ phase' \in Phases
  BY DEF UploadPass, SlotsAfter, Phases
<1>3. /\ IsFiniteSet(gone) /\ IsFiniteSet(uploading_list \ gone)
      /\ Cardinality(gone) \in Nat /\ Cardinality(uploading_list) \in Nat
      /\ Cardinality(uploading_list \ gone) = Cardinality(uploading_list) - Cardinality(gone)
  <2>1. uploading_list \cap gone = gone  BY <1>1
  <2>2. IsFiniteSet(gone)  BY <1>1, FS_Subset DEF ListFinite
  <2> QED  BY <2>1, <2>2, FS_Difference, FS_CardinalityType DEF ListFinite
<1>4. Cardinality(uploading_list \ gone) \in Nat  BY <1>3, FS_CardinalityType
<1>5. uploaded_list' \in Seq(Conn)
  BY <1>2, FinishedIsSeq DEF TypeOK
<1>6. concurr_upload_num' \in 0..MaxConn /\ SlotsCoverUploads'
  BY <1>2, <1>3, <1>4 DEF TypeOK, SlotsCoverUploads
<1>7. TypeOK' /\ OneUploadPerPeer' /\ ListFinite'
  BY <1>2, <1>3, <1>5, <1>6 DEF TypeOK, OneUploadPerPeer, ListFinite
<1> QED  BY <1>6, <1>7

-----------------------------------------------------------------------------
LEMMA NextPreservesInv == IInv /\ [Next]_vars => IInv'
<1> SUFFICES ASSUME IInv, [Next]_vars PROVE IInv'
  OBVIOUS
<1>1. ASSUME NEW p \in Peers, NEW h \in Hashes, Get(p, h) PROVE IInv'
  BY <1>1, GetPreservesInv
<1>2. CASE OtherDatagram
  BY <1>2 DEF OtherDatagram, IInv, TypeOK, OneUploadPerPeer, ListFinite, SlotsCoverUploads, Phases
<1>3. ASSUME NEW done \in Finishing, NEW aborted \in SUBSET (uploading_list \ done),
             UploadPass(done, aborted)
      PROVE IInv'
  BY <1>3, PassPreservesInv
<1>4. CASE UNCHANGED vars
  BY <1>4 DEF vars, IInv, TypeOK, OneUploadPerPeer, ListFinite, SlotsCoverUploads
<1> QED  BY <1>1, <1>2, <1>3, <1>4 DEF Next

LEMMA Invariance == Spec => []IInv
  BY InitInv, NextPreservesInv, PTL DEF Spec

\* The upload manager's variables stay in range; the slots in use stay between none
\* and max_upload_num.
THEOREM TypeCorrect == Spec => []TypeOK
<1>1. IInv => TypeOK  BY DEF IInv
<1> QED  BY Invariance, <1>1, PTL

\* However many peers send GETs, each has one upload at most (dealwithincomepack,
\* peer.c:293-309).
THEOREM OneForEachPeer == Spec => []OneUploadPerPeer
<1>1. IInv => OneUploadPerPeer  BY DEF IInv
<1> QED  BY Invariance, <1>1, PTL

\* Slots are never given back twice: there are always as many in use as uploads, or
\* more, so the limit of max_upload_num holds for the uploads themselves.
THEOREM SlotsSuffice == Spec => []SlotsCoverUploads
<1>1. IInv => SlotsCoverUploads  BY DEF IInv
<1> QED  BY Invariance, <1>1, PTL
=============================================================================
