--------------------------- MODULE Downloads_proofs ---------------------------
(***************************************************************************)
(* The safety of the download manager for any chunks, peers and limit, and *)
(* whatever the other peers send.  The properties need each other:         *)
(* that complete_mydownload may drop the lists without touching the        *)
(* counter (SlotsExact) rests on their being empty, which follows from     *)
(* ListedIsNeeded and HashListedOnce; and a finished chunk leaves no other *)
(* entry without its need only because of HashListedOnce.  The count of    *)
(* what is found (FoundExact) rests on all of them, and with it that the   *)
(* peer asks again whenever nothing is under way (NeverSilent).            *)
(***************************************************************************)
EXTENDS Downloads, FiniteSetTheorems, FunctionTheorems, TLAPS

Types ==
  /\ needlist \in [Hashes -> 0..MaxCopies]
  /\ get_tosend_quene \subseteq Conn
  /\ get_sent_list \subseteq Conn
  /\ downloading_list \subseteq Conn
  /\ max_download_num \in {0, MaxConn}

\* The lists of connections are finite, without which their cardinality says nothing.
ConnsFinite == IsFiniteSet(get_sent_list) /\ IsFiniteSet(downloading_list)

\* The limit of the configuration (-m) holds for the counter.
LimitKept == concurr_download_num <= MaxConn

Lists == HashListedOnce /\ ListedIsNeeded /\ OneConnPerPeer
Slots == ConnsFinite /\ SlotsExact /\ LimitKept
IInv  == Types /\ Lists /\ Slots

USE DownloadsAssumption

-----------------------------------------------------------------------------
LEMMA InitInv == Init => IInv
<1> SUFFICES ASSUME Init PROVE IInv
  OBVIOUS
<1>1. Types
  BY DEF Init, Types, NoNeed
<1>2. Lists
  BY DEF Init, Lists, HashListedOnce, ListedIsNeeded, OneConnPerPeer, Listed
<1>3. Slots
  BY FS_EmptySet DEF Init, Slots, ConnsFinite, SlotsExact, LimitKept
<1> QED  BY <1>1, <1>2, <1>3 DEF IInv

\* A step that leaves the lists, the needlist and the counters alone.
LEMMA SameListsPreserveInv ==
  ASSUME IInv, UNCHANGED <<needlist, lists, nums>>
  PROVE  IInv'
BY DEF IInv, Types, Lists, Slots, ConnsFinite, SlotsExact, LimitKept, HashListedOnce,
       ListedIsNeeded, OneConnPerPeer, Listed, lists, nums

\* A step that drops everything under way and the counter with it.
LEMMA NoListsPreserveInv ==
  ASSUME IInv, needlist' \in [Hashes -> 0..MaxCopies],
         get_tosend_quene' = {}, get_sent_list' = {}, downloading_list' = {},
         concurr_download_num' = 0, max_download_num' \in {0, MaxConn}
  PROVE  IInv'
<1>1. Types'
  BY DEF Types
<1>2. Lists'
  BY DEF Lists, HashListedOnce, ListedIsNeeded, OneConnPerPeer, Listed
<1>3. Slots'
  BY FS_EmptySet DEF Slots, ConnsFinite, SlotsExact, LimitKept
<1> QED  BY <1>1, <1>2, <1>3 DEF IInv

-----------------------------------------------------------------------------
(* Cardinalities                                                           *)

LEMMA AddOne ==
  ASSUME NEW S, IsFiniteSet(S), NEW x, x \notin S
  PROVE  /\ IsFiniteSet(S \cup {x})
         /\ Cardinality(S \cup {x}) = Cardinality(S) + 1
BY FS_AddElement, Zenon

LEMMA TakeAway ==
  ASSUME NEW S, IsFiniteSet(S), NEW T, T \subseteq S
  PROVE  /\ IsFiniteSet(S \ T) /\ IsFiniteSet(T)
         /\ Cardinality(S) \in Nat /\ Cardinality(T) \in Nat /\ Cardinality(S \ T) \in Nat
         /\ Cardinality(S \ T) = Cardinality(S) - Cardinality(T)
<1>1. S \cap T = T  OBVIOUS
<1>2. IsFiniteSet(T) /\ IsFiniteSet(S \ T)  BY FS_Subset, FS_Difference
<1>3. Cardinality(S \ T) = Cardinality(S) - Cardinality(S \cap T)  BY FS_Difference
<1> QED  BY <1>1, <1>2, <1>3, FS_CardinalityType

LEMMA TakeOne ==
  ASSUME NEW S, IsFiniteSet(S), NEW x \in S
  PROVE  /\ IsFiniteSet(S \ {x}) /\ Cardinality(S) \in Nat /\ Cardinality(S \ {x}) \in Nat
         /\ Cardinality(S \ {x}) = Cardinality(S) - 1
<1>1. Cardinality({x}) = 1  BY FS_Singleton
<1>2. {x} \subseteq S  OBVIOUS
<1> QED  BY <1>1, <1>2, TakeAway

-----------------------------------------------------------------------------
(* Connections that are given up                                           *)

\* The lists may lose entries: check_timeout and check_recvdata_timeout.
LEMMA FewerPreserveLists ==
  ASSUME Types, Lists, needlist' = needlist, max_download_num' = max_download_num,
         get_tosend_quene' \subseteq get_tosend_quene,
         get_sent_list' \subseteq get_sent_list,
         downloading_list' \subseteq downloading_list
  PROVE  Types' /\ Lists'
<1>1. Types'
  BY DEF Types
<1>2. Listed' \subseteq Listed
  BY DEF Listed
<1>3. HashListedOnce' /\ ListedIsNeeded' /\ OneConnPerPeer'
  BY <1>2 DEF Lists, HashListedOnce, ListedIsNeeded, OneConnPerPeer
<1> QED  BY <1>1, <1>3 DEF Lists

LEMMA TimeoutPreservesInv ==
  ASSUME IInv, NEW expired \in SUBSET get_sent_list, CheckTimeout(expired)
  PROVE  IInv'
<1>1. /\ get_sent_list' = get_sent_list \ expired
      /\ concurr_download_num' = concurr_download_num - Cardinality(expired)
      /\ UNCHANGED <<needlist, get_tosend_quene, downloading_list, max_download_num>>
  BY DEF CheckTimeout
<1>2. Types' /\ Lists'
  BY <1>1, FewerPreserveLists DEF IInv
<1>3. /\ IsFiniteSet(get_sent_list \ expired) /\ Cardinality(expired) \in Nat
      /\ Cardinality(get_sent_list) \in Nat /\ Cardinality(downloading_list) \in Nat
      /\ Cardinality(get_sent_list \ expired) = Cardinality(get_sent_list) - Cardinality(expired)
  BY TakeAway, FS_CardinalityType DEF IInv, Slots, ConnsFinite
<1>4. Slots'
  BY <1>1, <1>3 DEF IInv, Slots, ConnsFinite, SlotsExact, LimitKept
<1> QED  BY <1>2, <1>4 DEF IInv

LEMMA SilencePreservesInv ==
  ASSUME IInv, NEW silent \in SUBSET downloading_list, DataTimeouts(silent)
  PROVE  IInv'
<1>1. /\ downloading_list' = downloading_list \ silent
      /\ concurr_download_num' = concurr_download_num - Cardinality(silent)
      /\ UNCHANGED <<needlist, get_tosend_quene, get_sent_list, max_download_num>>
  BY DEF DataTimeouts, SlotsAfter
<1>2. Types' /\ Lists'
  BY <1>1, FewerPreserveLists DEF IInv
<1>3. /\ IsFiniteSet(downloading_list \ silent) /\ Cardinality(silent) \in Nat
      /\ Cardinality(get_sent_list) \in Nat /\ Cardinality(downloading_list) \in Nat
      /\ Cardinality(downloading_list \ silent) = Cardinality(downloading_list) - Cardinality(silent)
  BY TakeAway, FS_CardinalityType DEF IInv, Slots, ConnsFinite
<1>4. Slots'
  BY <1>1, <1>3 DEF IInv, Slots, ConnsFinite, SlotsExact, LimitKept
<1> QED  BY <1>2, <1>4 DEF IInv
-----------------------------------------------------------------------------
(* Connections that move or begin                                          *)

\* fill_toget_list: what is queued is needed, and not in a list yet or moved
\* from one peer to another.
LEMMA IHavePreservesInv ==
  ASSUME IInv, NEW p \in Peers, NEW hs \in SUBSET Hashes, IHave(p, hs)
  PROVE  IInv'
<1> DEFINE new   == {h \in Wanted(hs) : ~HasHash(get_tosend_quene, h)}
           moved == {h \in Wanted(hs) : \E c \in get_tosend_quene :
                                          c.hash = h /\ c.from # p /\ Busy(c.from)}
           kept  == {c \in get_tosend_quene : c.hash \notin moved}
           added == {[hash |-> h, from |-> p] : h \in new \cup moved}
<1>1. /\ get_tosend_quene' = kept \cup added
      /\ UNCHANGED <<needlist, get_sent_list, downloading_list, concurr_download_num,
                     max_download_num>>
  BY DEF IHave
<1>2. /\ added \subseteq Conn
      /\ \A c \in added : c.hash \in new \cup moved
      /\ \A c, d \in added : c.hash = d.hash => c = d
  BY DEF Conn, Wanted
<1>3. \A c \in kept : c.hash \notin new \cup moved
  BY DEF HasHash
<1>4. \A h \in new \cup moved :
        /\ needlist[h] > 0
        /\ \A c \in get_sent_list \cup downloading_list : c.hash # h
  BY DEF Wanted, HasHash
<1> HIDE DEF new, moved, added
<1>5. Types'
  BY <1>1, <1>2 DEF IInv, Types, kept
<1>6. HashListedOnce'
  <2>1. \A c \in added, d \in get_sent_list \cup downloading_list : c.hash # d.hash
    BY <1>2, <1>4
  <2>2. \A c \in added, d \in kept : c.hash # d.hash
    BY <1>2, <1>3
  <2> QED  BY <1>1, <1>2, <2>1, <2>2 DEF IInv, Lists, HashListedOnce, Listed, kept
<1>7. ListedIsNeeded'
  BY <1>1, <1>2, <1>4 DEF IInv, Lists, ListedIsNeeded, Listed, kept
<1>8. OneConnPerPeer' /\ Slots'
  BY <1>1 DEF IInv, Lists, OneConnPerPeer, Slots, ConnsFinite, SlotsExact, LimitKept
<1> QED  BY <1>5, <1>6, <1>7, <1>8 DEF IInv, Lists

\* init_download
LEMMA FirstDataPreservesInv ==
  ASSUME IInv, NEW p \in Peers, FirstData(p)
  PROVE  IInv'
<1>1. PICK c \in get_sent_list :
        /\ get_sent_list' = get_sent_list \ {c}
        /\ downloading_list' = downloading_list \cup {c}
  BY DEF FirstData
<1>2. UNCHANGED <<needlist, get_tosend_quene, concurr_download_num, max_download_num>>
  BY DEF FirstData, nums
<1>3. c \notin downloading_list /\ c \notin get_tosend_quene
  BY DEF IInv, Lists, HashListedOnce
<1>4. Types'
  BY <1>1, <1>2 DEF IInv, Types
<1>5. Lists'
  BY <1>1, <1>2, <1>3 DEF IInv, Lists, HashListedOnce, ListedIsNeeded, OneConnPerPeer, Listed
<1>6. /\ IsFiniteSet(get_sent_list \ {c}) /\ IsFiniteSet(downloading_list \cup {c})
      /\ Cardinality(get_sent_list) \in Nat /\ Cardinality(downloading_list) \in Nat
      /\ Cardinality(get_sent_list \ {c}) = Cardinality(get_sent_list) - 1
      /\ Cardinality(downloading_list \cup {c}) = Cardinality(downloading_list) + 1
  BY <1>3, TakeOne, AddOne, FS_CardinalityType DEF IInv, Slots, ConnsFinite
<1>7. Slots'
  BY <1>1, <1>2, <1>6 DEF IInv, Slots, ConnsFinite, SlotsExact, LimitKept
<1> QED  BY <1>4, <1>5, <1>7 DEF IInv

\* pick_tosend_GET: a peer that is not busy gets one connection.
LEMMA SendGetPreservesInv ==
  ASSUME IInv, SendGet
  PROVE  IInv'
<1>1. PICK c \in Ready :
        /\ get_tosend_quene' = get_tosend_quene \ {c}
        /\ get_sent_list' = get_sent_list \cup {c}
  BY DEF SendGet
<1>2. /\ concurr_download_num' = concurr_download_num + 1
      /\ UNCHANGED <<needlist, downloading_list, max_download_num>>
  BY DEF SendGet
<1>3. /\ c \in get_tosend_quene /\ c \notin get_sent_list /\ c \notin downloading_list
      /\ \A d \in get_sent_list \cup downloading_list : d.from # c.from
  BY DEF Ready, Busy, HasPeer, IInv, Lists, HashListedOnce
<1>4. Types'
  BY <1>1, <1>2, <1>3 DEF IInv, Types
<1>5. HashListedOnce' /\ ListedIsNeeded'
  BY <1>1, <1>2, <1>3 DEF IInv, Lists, HashListedOnce, ListedIsNeeded, Listed
<1>6. OneConnPerPeer'
  BY <1>1, <1>2, <1>3 DEF IInv, Lists, OneConnPerPeer
<1>7. /\ IsFiniteSet(get_sent_list \cup {c})
      /\ Cardinality(get_sent_list) \in Nat /\ Cardinality(downloading_list) \in Nat
      /\ Cardinality(get_sent_list \cup {c}) = Cardinality(get_sent_list) + 1
  BY <1>3, AddOne, FS_CardinalityType DEF IInv, Slots, ConnsFinite
<1>8. ConnsFinite' /\ SlotsExact'
  BY <1>1, <1>2, <1>7 DEF IInv, Slots, ConnsFinite, SlotsExact
<1>9. LimitKept'
  <2>1. concurr_download_num \in Int
    BY <1>7 DEF IInv, Slots, SlotsExact
  <2>2. max_download_num - concurr_download_num > 0
    BY DEF SendGet, SlotFree
  <2>3. max_download_num \in Int /\ max_download_num <= MaxConn
    BY DEF IInv, Types
  <2> QED  BY <1>2, <2>1, <2>2, <2>3 DEF LimitKept
<1> QED  BY <1>4, <1>5, <1>6, <1>8, <1>9 DEF IInv, Lists, Slots

-----------------------------------------------------------------------------
(* A finished chunk: reap, finish_one_download, complete_mydownload        *)

LEMMA FinishPreservesInv ==
  ASSUME IInv, NEW c \in downloading_list, FinishDownload(c)
  PROVE  IInv'
<1>1. /\ needlist' = Left(c.hash)
      /\ concurr_download_num' = concurr_download_num - 1
  BY DEF FinishDownload, SlotsAfter
<1>2. c.hash \in Hashes /\ needlist[c.hash] > 0
  BY DEF IInv, Types, Lists, ListedIsNeeded, Listed, Conn
<1>3. /\ needlist' \in [Hashes -> 0..MaxCopies]
      /\ \A h \in Hashes : h # c.hash => needlist'[h] = needlist[h]
  BY <1>1, <1>2 DEF IInv, Types, Left
<1>4. \A d \in Listed : d # c => d.hash # c.hash
  BY DEF IInv, Lists, HashListedOnce, Listed
<1>5. c \notin get_tosend_quene /\ c \notin get_sent_list
  BY DEF IInv, Lists, HashListedOnce
<1>6. \A d \in Listed : d.hash \in Hashes /\ (d # c => needlist'[d.hash] > 0)
  BY <1>3, <1>4 DEF IInv, Types, Lists, ListedIsNeeded, Listed, Conn
<1>7. /\ IsFiniteSet(downloading_list \ {c})
      /\ Cardinality(get_sent_list) \in Nat /\ Cardinality(downloading_list) \in Nat
      /\ Cardinality(downloading_list \ {c}) = Cardinality(downloading_list) - 1
  BY TakeOne, FS_CardinalityType DEF IInv, Slots, ConnsFinite
<1>8. CASE /\ downloading_list' = downloading_list \ {c}
           /\ UNCHANGED <<get_tosend_quene, get_sent_list, max_download_num>>
  <2>1. Types'
    BY <1>3, <1>8 DEF IInv, Types
  <2>2. HashListedOnce' /\ OneConnPerPeer'
    BY <1>8 DEF IInv, Lists, HashListedOnce, OneConnPerPeer, Listed
  <2>3. ListedIsNeeded'
    BY <1>5, <1>6, <1>8 DEF ListedIsNeeded, Listed
  <2>4. Slots'
    BY <1>1, <1>7, <1>8 DEF IInv, Slots, ConnsFinite, SlotsExact, LimitKept
  <2> QED  BY <2>1, <2>2, <2>3, <2>4 DEF IInv, Lists
<1>9. CASE /\ needlist' = NoNeed
           /\ get_tosend_quene' = {} /\ get_sent_list' = {} /\ downloading_list' = {}
           /\ max_download_num' = 0
  <2>1. \A d \in Listed : d = c
    BY <1>6, <1>9 DEF NoNeed
  <2>2. get_sent_list = {} /\ downloading_list = {c}
    BY <1>5, <2>1 DEF Listed
  <2>3. concurr_download_num = 1
    <3>1. Cardinality(get_sent_list) = 0  BY <2>2, FS_EmptySet
    <3>2. Cardinality(downloading_list) = 1  BY <2>2, FS_Singleton
    <3> QED  BY <3>1, <3>2 DEF IInv, Slots, SlotsExact
  <2> QED  BY <1>1, <1>3, <1>9, <2>3, NoListsPreserveInv
<1> QED  BY <1>8, <1>9 DEF FinishDownload

-----------------------------------------------------------------------------
LEMMA NextPreservesInv == IInv /\ [Next]_vars => IInv'
<1> SUFFICES ASSUME IInv, [Next]_vars PROVE IInv'
  OBVIOUS
<1>1. ASSUME NEW p \in Peers, NEW hs \in SUBSET Hashes, IHave(p, hs) PROVE IInv'
  BY <1>1, IHavePreservesInv
<1>2. ASSUME NEW p \in Peers, Data(p) PROVE IInv'
  BY <1>2, SameListsPreserveInv DEF Data
<1>3. ASSUME NEW p \in Peers, FirstData(p) PROVE IInv'
  BY <1>3, FirstDataPreservesInv
<1>4. CASE NoDatagram \/ NoInput \/ NoGet
  BY <1>4, SameListsPreserveInv DEF NoDatagram, NoInput, NoGet
<1>5. ASSUME NEW need \in [Hashes -> 0..MaxCopies], UserGet(need) PROVE IInv'
  BY <1>5, NoListsPreserveInv DEF UserGet
<1>6. ASSUME NEW expired \in SUBSET get_sent_list, CheckTimeout(expired) PROVE IInv'
  BY <1>6, TimeoutPreservesInv
<1>7. CASE SendGet
  BY <1>7, SendGetPreservesInv
<1>8. ASSUME NEW c \in downloading_list, FinishDownload(c) PROVE IInv'
  BY <1>8, FinishPreservesInv
<1>9. ASSUME NEW silent \in SUBSET downloading_list, DataTimeouts(silent) PROVE IInv'
  BY <1>9, SilencePreservesInv
<1>10. CASE UNCHANGED vars
  BY <1>10, SameListsPreserveInv DEF vars, lists, nums
<1> QED  BY <1>1, <1>2, <1>3, <1>4, <1>5, <1>6, <1>7, <1>8, <1>9, <1>10 DEF Next

-----------------------------------------------------------------------------
(* The counters of chunks.  What is listed is counted by its hashes: they  *)
(* belong to a finite set, and HashListedOnce makes the two counts equal.  *)

HashesOf(list) == {h \in Hashes : HasHash(list, h)}

LEMMA CountedByHash ==
  ASSUME NEW list \in SUBSET Conn, \A c, d \in list : c.hash = d.hash => c = d
  PROVE  /\ IsFiniteSet(list) /\ Cardinality(list) \in Nat
         /\ IsFiniteSet(HashesOf(list)) /\ Cardinality(list) = Cardinality(HashesOf(list))
<1> DEFINE entry == [h \in HashesOf(list) |-> CHOOSE c \in list : c.hash = h]
<1>1. \A h \in HashesOf(list) : entry[h] \in list /\ entry[h].hash = h
  BY DEF HashesOf, HasHash
<1>2. \A c \in list : c.hash \in HashesOf(list)
  BY DEF HashesOf, HasHash, Conn
<1> HIDE DEF entry
<1>3. \A c \in list : entry[c.hash] = c
  BY <1>1, <1>2
<1>4. entry \in [HashesOf(list) -> list]
  BY <1>1 DEF entry
<1>5. \A g, h \in HashesOf(list) : entry[g] = entry[h] => g = h
  BY <1>1
<1>6. \A c \in list : \E h \in HashesOf(list) : entry[h] = c
  BY <1>2, <1>3
<1>7. entry \in Bijection(HashesOf(list), list)
  BY <1>4, <1>5, <1>6, Fun_IsBij
<1>8. IsFiniteSet(HashesOf(list))
  BY FS_Subset DEF HashesOf
<1> QED  BY <1>7, <1>8, FS_Bijection, FS_CardinalityType DEF ExistsBijection

LEMMA ListedByHash ==
  ASSUME IInv
  PROVE  /\ IsFiniteSet(Listed) /\ Cardinality(Listed) \in Nat
         /\ IsFiniteSet(HashesOf(Listed)) /\ Cardinality(Listed) = Cardinality(HashesOf(Listed))
BY CountedByHash DEF IInv, Types, Lists, HashListedOnce, Listed

LEMMA LengthType ==
  ASSUME NEW list \in [Hashes -> 0..MaxCopies]
  PROVE  IsFiniteSet(Entries(list)) /\ Length(list) \in Nat
<1>1. IsFiniteSet(Hashes \X (1..MaxCopies))
  <2>1. IsFiniteSet(1..MaxCopies)
    BY FS_Interval
  <2> QED  BY <2>1, FS_Product
<1>2. IsFiniteSet(Entries(list))
  BY <1>1, FS_Subset DEF Entries
<1> QED  BY <1>2, FS_CardinalityType DEF Length

LEMMA LengthOfNone == Length(NoNeed) = 0
<1>1. Entries(NoNeed) = {}
  BY DEF Entries, NoNeed
<1> QED  BY <1>1, FS_EmptySet DEF Length

\* A list with a hash on it is not empty.
LEMMA LengthOfSome ==
  ASSUME NEW list \in [Hashes -> 0..MaxCopies], NEW h \in Hashes, list[h] > 0
  PROVE  Length(list) > 0
<1>1. <<h, list[h]>> \in Entries(list)
  BY DEF Entries
<1>2. Length(list) # 0
  BY <1>1, LengthType, FS_EmptySet DEF Length
<1> QED  BY <1>2, LengthType

\* delete_node_by_hash takes one node out.
LEMMA LengthOfLeft ==
  ASSUME Types, NEW h \in Hashes, needlist[h] > 0
  PROVE  /\ Left(h) \in [Hashes -> 0..MaxCopies]
         /\ Length(Left(h)) = Length(needlist) - 1
<1>1. Left(h) \in [Hashes -> 0..MaxCopies] /\ Left(h)[h] = needlist[h] - 1
      /\ \A g \in Hashes : g # h => Left(h)[g] = needlist[g]
  BY DEF Left, Types
<1>2. Entries(Left(h)) = Entries(needlist) \ {<<h, needlist[h]>>}
  <2>1. ASSUME NEW g \in Hashes, NEW i \in 1..MaxCopies
        PROVE  i <= Left(h)[g] <=> i <= needlist[g] /\ <<g, i>> # <<h, needlist[h]>>
    BY <1>1 DEF Types
  <2> QED  BY <2>1 DEF Entries
<1>3. <<h, needlist[h]>> \in Entries(needlist)
  BY DEF Entries, Types
<1> QED  BY <1>1, <1>2, <1>3, LengthType, TakeOne DEF Length, Types

\* howmany_found and howmany_need, and what becomes of them when all is done.
Found ==
  /\ howmany_found \in Nat /\ howmany_need \in Nat
  /\ Length(needlist) <= howmany_need
  /\ FoundExact
  /\ max_download_num = 0 => needlist = NoNeed

\* The variables that no other part of the invariant constrains.
Rest ==
  /\ filled \in [Hashes -> Buffers]
  /\ output \in [Hashes -> Nat] /\ \A h \in Hashes : output[h] + needlist[h] <= MaxCopies
  /\ whohas \subseteq Hashes
  /\ phase \in Phases

Inv == IInv /\ Found /\ Rest

-----------------------------------------------------------------------------
LEMMA InitFound == Init => Found
<1> SUFFICES ASSUME Init PROVE Found
  OBVIOUS
<1>1. Listed = {} /\ Length(needlist) = 0
  BY LengthOfNone DEF Init, Listed
<1> QED  BY <1>1, FS_EmptySet DEF Init, Found, FoundExact

\* A step that leaves what is listed, what is needed and the counters alone.
LEMMA SameFound ==
  ASSUME Found, Listed' = Listed,
         UNCHANGED <<needlist, max_download_num, howmany_found, howmany_need>>
  PROVE  Found'
BY DEF Found, FoundExact, Length, Entries

\* Chunks that time out are taken back, from the lists and from the counter.
LEMMA TakenBackFound ==
  ASSUME IInv, Found, NEW T \in SUBSET Listed, Listed' = Listed \ T,
         howmany_found' = howmany_found - Cardinality(T),
         UNCHANGED <<needlist, max_download_num, howmany_need>>
  PROVE  Found'
<1>1. /\ Cardinality(Listed) \in Nat /\ Cardinality(T) \in Nat
      /\ Cardinality(Listed') \in Nat
      /\ Cardinality(Listed') = Cardinality(Listed) - Cardinality(T)
  BY ListedByHash, TakeAway
<1>2. Length(needlist) \in Nat /\ Length(needlist)' = Length(needlist)
  BY LengthType DEF IInv, Types, Length, Entries
<1>3. CASE max_download_num # 0
  BY <1>1, <1>2, <1>3 DEF Found, FoundExact
<1>4. CASE max_download_num = 0
  <2>1. Listed = {}
    BY <1>4 DEF Found, IInv, Lists, ListedIsNeeded, NoNeed, Types, Listed, Conn
  <2>2. Cardinality(T) = 0
    BY <2>1, FS_EmptySet
  <2> QED  BY <1>2, <1>4, <2>2 DEF Found, FoundExact
<1> QED  BY <1>3, <1>4

LEMMA IHaveFound ==
  ASSUME IInv, IInv', Found, NEW p \in Peers, NEW hs \in SUBSET Hashes, IHave(p, hs)
  PROVE  Found'
<1> DEFINE new   == {h \in Wanted(hs) : ~HasHash(get_tosend_quene, h)}
           moved == {h \in Wanted(hs) : \E c \in get_tosend_quene :
                                          c.hash = h /\ c.from # p /\ Busy(c.from)}
           kept  == {c \in get_tosend_quene : c.hash \notin moved}
           added == {[hash |-> h, from |-> p] : h \in new \cup moved}
<1>1. /\ get_tosend_quene' = kept \cup added
      /\ howmany_found' = howmany_found + Cardinality(new)
      /\ UNCHANGED <<needlist, get_sent_list, downloading_list, max_download_num, howmany_need>>
  BY DEF IHave
<1>2. new \subseteq Hashes /\ \A h \in new : needlist[h] > 0 /\ h \notin HashesOf(Listed)
  BY DEF Wanted, HasHash, HashesOf, Listed
<1>3. \A h \in Hashes : HasHash(added, h) <=> h \in new \cup moved
  <2>1. \A c \in added : c.hash \in new \cup moved
    OBVIOUS
  <2>2. \A h \in new \cup moved : [hash |-> h, from |-> p] \in added /\ [hash |-> h, from |-> p].hash = h
    OBVIOUS
  <2> HIDE DEF added
  <2> QED  BY <2>1, <2>2 DEF HasHash
<1>4. \A h \in Hashes : HasHash(get_tosend_quene, h) <=> HasHash(kept, h) \/ h \in moved
  BY DEF HasHash, Wanted
<1> HIDE DEF new, moved, kept, added
<1>5. HashesOf(Listed)' = HashesOf(Listed) \cup new
  BY <1>1, <1>2, <1>3, <1>4 DEF HashesOf, Listed, HasHash
<1>6. /\ IsFiniteSet(new) /\ Cardinality(new) \in Nat
      /\ Cardinality(Listed') = Cardinality(Listed) + Cardinality(new)
      /\ Cardinality(Listed) \in Nat
  <2>1. IsFiniteSet(new) /\ Cardinality(new) \in Nat
    BY <1>2, FS_Subset, FS_CardinalityType
  <2>2. HashesOf(Listed) \cap new = {}
    BY <1>2
  <2>3. /\ IsFiniteSet(HashesOf(Listed)) /\ Cardinality(Listed) = Cardinality(HashesOf(Listed))
        /\ Cardinality(Listed) \in Nat
    BY ListedByHash
  <2>4. Cardinality(Listed') = Cardinality(HashesOf(Listed)')
    <3>1. Listed' \in SUBSET Conn /\ \A c, d \in Listed' : c.hash = d.hash => c = d
      BY DEF IInv, Types, Lists, HashListedOnce, Listed
    <3>2. HashesOf(Listed)' = HashesOf(Listed')
      BY DEF HashesOf, HasHash
    <3> QED  BY <3>1, <3>2, CountedByHash
  <2>5. Cardinality(HashesOf(Listed) \cup new)
          = Cardinality(HashesOf(Listed)) + Cardinality(new) - Cardinality(HashesOf(Listed) \cap new)
    BY <2>1, <2>3, FS_Union
  <2>6. Cardinality(HashesOf(Listed) \cap new) = 0
    BY <2>2, FS_EmptySet
  <2> QED  BY <1>5, <2>1, <2>3, <2>4, <2>5, <2>6
<1>7. Length(needlist) \in Nat /\ Length(needlist)' = Length(needlist)
  BY <1>1, LengthType DEF IInv, Types, Length, Entries
<1>8. CASE max_download_num # 0
  BY <1>1, <1>6, <1>7, <1>8 DEF Found, FoundExact
<1>9. CASE max_download_num = 0
  BY <1>1, <1>6, <1>7, <1>9 DEF Found, FoundExact
<1> QED  BY <1>8, <1>9

LEMMA FinishFound ==
  ASSUME IInv, Found, NEW c \in downloading_list, FinishDownload(c)
  PROVE  Found'
<1>1. /\ needlist' = Left(c.hash)
      /\ UNCHANGED <<howmany_found, howmany_need>>
  BY DEF FinishDownload
<1>2. c.hash \in Hashes /\ needlist[c.hash] > 0 /\ c \in Listed
  BY DEF IInv, Types, Lists, ListedIsNeeded, Listed, Conn
<1>3. /\ Length(needlist) \in Nat /\ Length(needlist') = Length(needlist) - 1
      /\ Length(needlist') = Length(needlist)'
  BY <1>1, <1>2, LengthType, LengthOfLeft DEF IInv, Types, Length, Entries
<1>4. max_download_num # 0
  BY <1>2 DEF Found, NoNeed
<1>5. CASE /\ downloading_list' = downloading_list \ {c}
           /\ UNCHANGED <<get_tosend_quene, get_sent_list, max_download_num>>
  <2>1. Listed' = Listed \ {c}
    BY <1>5 DEF Listed, IInv, Lists, HashListedOnce
  <2>2. /\ Cardinality(Listed) \in Nat /\ Cardinality(Listed') = Cardinality(Listed) - 1
    BY <1>2, <2>1, ListedByHash, TakeOne
  <2> QED  BY <1>1, <1>3, <1>4, <1>5, <2>2 DEF Found, FoundExact
<1>6. CASE needlist' = NoNeed /\ max_download_num' = 0
  BY <1>1, <1>3, <1>6 DEF Found, FoundExact
<1> QED  BY <1>5, <1>6 DEF FinishDownload

LEMMA NextPreservesFound == Inv /\ [Next]_vars => Found'
<1> SUFFICES ASSUME Inv, [Next]_vars PROVE Found'
  OBVIOUS
<1>0. IInv'
  BY NextPreservesInv DEF Inv
<1>1. ASSUME NEW p \in Peers, NEW hs \in SUBSET Hashes, IHave(p, hs) PROVE Found'
  BY <1>0, <1>1, IHaveFound DEF Inv
<1>2. ASSUME NEW p \in Peers, Data(p) PROVE Found'
  BY <1>2, SameFound DEF Data, Listed, lists, nums, Inv
<1>3. ASSUME NEW p \in Peers, FirstData(p) PROVE Found'
  <2>1. Listed' = Listed
    BY <1>3 DEF FirstData, Listed
  <2> QED  BY <1>3, <2>1, SameFound DEF FirstData, nums, Inv
<1>4. CASE NoDatagram \/ NoInput \/ NoGet
  BY <1>4, SameFound DEF NoDatagram, NoInput, NoGet, Listed, lists, nums, Inv
<1>5. ASSUME NEW need \in [Hashes -> 0..MaxCopies], UserGet(need) PROVE Found'
  <2>1. Listed' = {} /\ Length(need) \in Nat /\ Length(needlist)' = Length(need)
    BY <1>5, LengthType DEF UserGet, Listed, Length, Entries
  <2> QED  BY <1>5, <2>1, FS_EmptySet DEF UserGet, Found, FoundExact
<1>6. ASSUME NEW expired \in SUBSET get_sent_list, CheckTimeout(expired) PROVE Found'
  <2>1. expired \in SUBSET Listed /\ Listed' = Listed \ expired
    BY <1>6 DEF CheckTimeout, Listed, Inv, IInv, Lists, HashListedOnce
  <2> QED  BY <1>6, <2>1, TakenBackFound DEF CheckTimeout, FoundAfterDrop, Inv
<1>7. CASE SendGet
  <2>1. Listed' = Listed
    BY <1>7 DEF SendGet, Listed, Ready
  <2> QED  BY <1>7, <2>1, SameFound DEF SendGet, Inv
<1>8. ASSUME NEW c \in downloading_list, FinishDownload(c) PROVE Found'
  BY <1>8, FinishFound DEF Inv
<1>9. ASSUME NEW silent \in SUBSET downloading_list, DataTimeouts(silent) PROVE Found'
  <2>1. silent \in SUBSET Listed /\ Listed' = Listed \ silent
    BY <1>9 DEF DataTimeouts, Listed, Inv, IInv, Lists, HashListedOnce
  <2> QED  BY <1>9, <2>1, TakenBackFound DEF DataTimeouts, Inv
<1>10. CASE UNCHANGED vars
  BY <1>10, SameFound DEF vars, Listed, Inv
<1> QED  BY <1>1, <1>2, <1>3, <1>4, <1>5, <1>6, <1>7, <1>8, <1>9, <1>10 DEF Next

-----------------------------------------------------------------------------
(* The receive buffers and the output file                                 *)

LEMMA InitRest == Init => Rest
BY DEF Init, Rest, Buffers, Phases, NoNeed

\* A chunk is written at most as often as it was needed: what is written is no longer needed.
LEMMA FinishRest ==
  ASSUME IInv, Rest, NEW c \in downloading_list, FinishDownload(c)
  PROVE  Rest'
<1>1. c.hash \in Hashes /\ needlist[c.hash] > 0
  BY DEF IInv, Types, Lists, ListedIsNeeded, Listed, Conn
<1>2. /\ needlist' = [needlist EXCEPT ![c.hash] = @ - 1]
      /\ output' = IF filled[c.hash] = "good" THEN [output EXCEPT ![c.hash] = @ + 1] ELSE output
      /\ filled' = [filled EXCEPT ![c.hash] = "none"]
      /\ whohas' = whohas
  BY DEF FinishDownload, Left
<1>3. filled' \in [Hashes -> Buffers]
  BY <1>1, <1>2 DEF Rest, Buffers
<1>4. output' \in [Hashes -> Nat] /\ \A h \in Hashes : output'[h] + needlist'[h] <= MaxCopies
  <2>1. ASSUME NEW h \in Hashes PROVE output'[h] \in Nat /\ output'[h] + needlist'[h] <= MaxCopies
    BY <1>1, <1>2 DEF Rest, IInv, Types
  <2>2. output' \in [Hashes -> Nat]
    BY <1>1, <1>2 DEF Rest
  <2> QED  BY <2>1, <2>2
<1>5. phase' \in Phases
  BY DEF FinishDownload, Rest, Phases
<1> QED  BY <1>2, <1>3, <1>4, <1>5 DEF Rest

LEMMA NextPreservesRest == Inv /\ [Next]_vars => Rest'
<1> SUFFICES ASSUME Inv, [Next]_vars PROVE Rest'
  OBVIOUS
<1> USE DEF Inv, Rest, Phases
<1>1. ASSUME NEW p \in Peers, NEW hs \in SUBSET Hashes, IHave(p, hs) PROVE Rest'
  BY <1>1 DEF IHave
<1>2. ASSUME NEW p \in Peers, Data(p) PROVE Rest'
  BY <1>2 DEF Data, Buffers, IInv, Types, Conn
<1>3. ASSUME NEW p \in Peers, FirstData(p) PROVE Rest'
  BY <1>3 DEF FirstData, Buffers, IInv, Types, Conn
<1>4. CASE NoDatagram \/ NoInput
  BY <1>4 DEF NoDatagram, NoInput
<1>5. CASE NoGet
  BY <1>5 DEF NoGet, Unlisted
<1>6. ASSUME NEW need \in [Hashes -> 0..MaxCopies], UserGet(need) PROVE Rest'
  BY <1>6 DEF UserGet, Buffers, NoNeed
<1>7. ASSUME NEW expired \in SUBSET get_sent_list, CheckTimeout(expired) PROVE Rest'
  BY <1>7 DEF CheckTimeout
<1>8. CASE SendGet
  BY <1>8 DEF SendGet
<1>9. ASSUME NEW c \in downloading_list, FinishDownload(c) PROVE Rest'
  BY <1>9, FinishRest
<1>10. ASSUME NEW silent \in SUBSET downloading_list, DataTimeouts(silent) PROVE Rest'
  BY <1>10 DEF DataTimeouts, Buffers
<1>11. CASE UNCHANGED vars
  BY <1>11 DEF vars
<1> QED  BY <1>1, <1>2, <1>3, <1>4, <1>5, <1>6, <1>7, <1>8, <1>9, <1>10, <1>11 DEF Next

LEMMA Invariance == Spec => []Inv
<1>1. Init => Inv
  BY InitInv, InitFound, InitRest DEF Inv
<1>2. Inv /\ [Next]_vars => Inv'
  BY NextPreservesInv, NextPreservesFound, NextPreservesRest DEF Inv
<1> QED  BY <1>1, <1>2, PTL DEF Spec

-----------------------------------------------------------------------------
(* The asking: what the GET pass leaves behind                             *)

\* Nothing sent, nothing arriving and nothing to send: nothing is listed.
LEMMA IdleListsNothing ==
  ASSUME Inv, phase = "gets", concurr_download_num = 0, max_download_num # 0,
         ~SlotFree \/ Ready = {}
  PROVE  Listed = {}
<1>1. Cardinality(get_sent_list) = 0 /\ Cardinality(downloading_list) = 0
  BY FS_CardinalityType DEF Inv, IInv, Slots, ConnsFinite, SlotsExact
<1>2. get_sent_list = {} /\ downloading_list = {}
  BY <1>1, FS_EmptySet DEF Inv, IInv, Slots, ConnsFinite
<1>3. SlotFree
  BY DEF SlotFree, Inv, IInv, Types
<1> QED  BY <1>2, <1>3 DEF Ready, Busy, HasPeer, Listed

LEMMA AsksForAll ==
  ASSUME Inv, NoGet, concurr_download_num = 0, NEW h \in Hashes, needlist[h] > 0
  PROVE  h \in whohas'
<1>1. max_download_num # 0
  BY DEF Inv, Found, NoNeed
<1>2. Listed = {}
  BY <1>1, IdleListsNothing DEF NoGet
<1>3. AskAgain
  <2>1. Cardinality(Listed) = 0
    BY <1>2, FS_EmptySet
  <2>2. Length(needlist) \in Nat /\ Length(needlist) > 0
    BY LengthType, LengthOfSome DEF Inv, IInv, Types
  <2>3. howmany_found < howmany_need
    BY <1>1, <2>1, <2>2 DEF Inv, Found, FoundExact
  <2> QED  BY <1>1, <2>3 DEF AskAgain, Inv, IInv, Types
<1>4. h \in Unlisted
  BY <1>2 DEF Unlisted, HasHash, Listed
<1> QED  BY <1>3, <1>4 DEF NoGet

LEMMA StepIsNotSilent ==
  ASSUME Inv, [Next]_vars, phase = "gets", concurr_download_num' = 0, phase' # "gets"
  PROVE  \A h \in Hashes : needlist[h] > 0 => h \in whohas'
<1>1. SendGet \/ NoGet
  BY DEF Next, vars, IHave, Data, FirstData, NoDatagram, UserGet, NoInput, CheckTimeout,
         FinishDownload, DataTimeouts
<1>2. CASE SendGet
  <2>1. concurr_download_num \in Nat
    BY FS_CardinalityType DEF Inv, IInv, Slots, ConnsFinite, SlotsExact
  <2> QED  BY <1>2, <2>1 DEF SendGet
<1>3. CASE NoGet
  BY <1>3, AsksForAll DEF NoGet, nums
<1> QED  BY <1>1, <1>2, <1>3

\* The counters tell the same as the lists.
LEMMA AskAgainMeans ==
  ASSUME Inv, NoGet
  PROVE  AskAgain <=> Listed = {} /\ needlist # NoNeed
<1>1. Length(needlist) \in Nat /\ Length(NoNeed) = 0
  BY LengthType, LengthOfNone DEF Inv, IInv, Types
<1>2. ASSUME AskAgain PROVE Listed = {} /\ needlist # NoNeed
  <2>1. max_download_num # 0
    BY <1>2 DEF AskAgain
  <2>2. Listed = {}
    BY <1>2, <2>1, IdleListsNothing DEF NoGet, AskAgain
  <2>3. Cardinality(Listed) = 0
    BY <2>2, FS_EmptySet
  <2>4. howmany_found = howmany_need - Length(needlist)
    BY <1>1, <2>1, <2>3 DEF Inv, Found, FoundExact
  <2>5. Length(needlist) # 0
    BY <1>1, <1>2, <2>4 DEF AskAgain, Inv, Found
  <2> QED  BY <1>1, <2>2, <2>5
<1>3. ASSUME Listed = {}, needlist # NoNeed PROVE AskAgain
  <2>1. get_sent_list = {} /\ downloading_list = {}
    BY <1>3 DEF Listed
  <2>2. concurr_download_num = 0
    BY <2>1, FS_EmptySet DEF Inv, IInv, Slots, SlotsExact
  <2>3. PICK h \in Hashes : needlist[h] > 0
    BY <1>3 DEF NoNeed, Inv, IInv, Types
  <2>4. needlist[h] > 0 => h \in whohas'
    BY <2>2, AsksForAll
  <2> QED  BY <2>3, <2>4 DEF NoGet
<1> QED  BY <1>2, <1>3

-----------------------------------------------------------------------------
(* Theorems                                                                *)

\* Every variable of Download_conn stays in its range: the counter between nothing and the limit
\* of the configuration, and a chunk written no more often than the user asked for it.
THEOREM TypeCorrect == Spec => []TypeOK
<1>1. Inv => TypeOK
  <2> SUFFICES ASSUME Inv PROVE TypeOK
    OBVIOUS
  <2>1. concurr_download_num \in 0..MaxConn
    BY FS_CardinalityType DEF Inv, IInv, Slots, ConnsFinite, SlotsExact, LimitKept
  <2>2. output \in [Hashes -> 0..MaxCopies]
    BY DEF Inv, IInv, Types, Rest
  <2> QED  BY <2>1, <2>2 DEF TypeOK, Inv, IInv, Types, Found, Rest
<1> QED  BY Invariance, <1>1, PTL

\* howmany_found counts what is listed and what is finished, through fill_toget_list,
\* check_timeout, check_recvdata_timeout and finish_one_download.
THEOREM FoundIsExact == Spec => []FoundExact
<1>1. Inv => FoundExact  BY DEF Inv, Found
<1> QED  BY Invariance, <1>1, PTL

\* After GET_sender and WhoHas_sender (peer.c:146) a peer in need waits for a chunk or has just
\* asked for everything it needs.
THEOREM NeverIsSilent == Spec => NeverSilent
<1>1. Inv /\ [Next]_vars =>
        [phase = "gets" /\ concurr_download_num' = 0 =>
           \A h \in Hashes : needlist[h] > 0 => h \in whohas']_vars
  <2> SUFFICES ASSUME Inv, [Next]_vars, vars' # vars, phase = "gets", concurr_download_num' = 0
               PROVE  \A h \in Hashes : needlist[h] > 0 => h \in whohas'
    OBVIOUS
  <2>1. phase' # "gets"
    BY DEF Next, IHave, Data, FirstData, NoDatagram, UserGet, NoInput, CheckTimeout, SendGet,
           NoGet, FinishDownload, DataTimeouts
  <2> QED  BY <2>1, StepIsNotSilent
<1> QED  BY Invariance, <1>1, PTL DEF Spec, NeverSilent

\* The test of the counters in peer.c:145-148 (GET_sender has sent nothing, a slot is free,
\* nothing runs, something is not found) is true exactly when none of the three lists has a chunk
\* and the needlist has one. This is the guard of a round of WHOHAS in module Discovery.
THEOREM AsksWithNothingListed ==
  Spec => [][NoGet => (AskAgain <=> Listed = {} /\ needlist # NoNeed)]_vars
<1>1. Inv => [NoGet => (AskAgain <=> Listed = {} /\ needlist # NoNeed)]_vars
  BY AskAgainMeans
<1> QED  BY Invariance, <1>1, PTL

\* The counter of running downloads is exact, through all six places that change it
\* (peer.c:228, 468, 493, 531, 615, 630) and the one that does not (complete_mydownload).
THEOREM SlotsAreExact == Spec => []SlotsExact
<1>1. Inv => SlotsExact  BY DEF Inv, IInv, Slots
<1> QED  BY Invariance, <1>1, PTL

\* There is one GET or download with a peer at most, so DATA belongs to it
\* (dealwithincomepack, peer.c:314-338).
THEOREM OneForEachPeer == Spec => []OneConnPerPeer
<1>1. Inv => OneConnPerPeer  BY DEF Inv, IInv, Lists
<1> QED  BY Invariance, <1>1, PTL

\* No chunk is requested from two peers, however IHAVEs repeat (fill_toget_list).
THEOREM HashesListedOnce == Spec => []HashListedOnce
<1>1. Inv => HashListedOnce  BY DEF Inv, IInv, Lists
<1> QED  BY Invariance, <1>1, PTL

\* What is listed is needed, so delete_node_by_hash finds its node (hashlist.c:82).
THEOREM ListedAreNeeded == Spec => []ListedIsNeeded
<1>1. Inv => ListedIsNeeded  BY DEF Inv, IInv, Lists
<1> QED  BY Invariance, <1>1, PTL

\* Never more downloads at once than the configuration allows (GET_sender).
THEOREM LimitIsKept == Spec => []LimitKept
<1>1. Inv => LimitKept  BY DEF Inv, IInv, Slots
<1> QED  BY Invariance, <1>1, PTL
=============================================================================
