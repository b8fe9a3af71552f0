--------------------------- MODULE PeerLists_proofs ---------------------------
(***************************************************************************)
(* The lists of module PeerLists stay sound, whatever the number of nodes, *)
(* peers and connections, and the loops that walk them reach all nodes.    *)
(*                                                                         *)
(* The argument.  From, where the loop that begins at a node ends up, is   *)
(* computed node by node and says nothing of its own accord about what a   *)
(* pointer that is written does to it.  Shape says it: each list has a set *)
(* of nodes that next pointers do not leave, along which a rank grows, in  *)
(* which every node but the first has one before it, and only one.  A loop *)
(* over such a set ends, since growing ranks repeat no node (Path), and    *)
(* reaches all of it, since the lowest node it missed would have a lower   *)
(* one before it (FromAll).  PutNew, TakeOff, MoveOver and ClearOne give   *)
(* the sets after append_node, delete_node, move_node and                  *)
(* clear_hashchunk_list.                                                   *)
(*                                                                         *)
(* Inv adds where each loop stands.  Passing carries the passes over nodes *)
(* that they free: what a pass has not reached is behind the next pointer  *)
(* of the node it stands on, on its list or no longer.  Picks says that    *)
(* the walk of pick_tosend_GET beyond its first GET finds no free peer.    *)
(***************************************************************************)
EXTENDS PeerLists, FiniteSetTheorems, WellFoundedInduction, TLAPS

-----------------------------------------------------------------------------
(* Following next pointers                                                 *)

\* A set of numbers that is not empty has a least one.
LEMMA Least ==
  ASSUME NEW S \in SUBSET Nat, S # {}
  PROVE  \E m \in S : \A k \in S : m <= k
<1>1. IsWellFoundedOn(OpToRel(<, Nat), Nat)
  BY NatLessThanWellFounded
<1>2. PICK m \in S : \A k \in S : <<k, m>> \notin OpToRel(<, Nat)
  BY <1>1, WFMin, Zenon
<1>3. \A k \in S : ~(k < m)
  BY <1>2, Zenon DEF OpToRel
<1> QED
  BY <1>3

\* So has a set of things that have numbers.
LEMMA LeastRank ==
  ASSUME NEW S, NEW r, \A n \in S : r[n] \in Nat, S # {}
  PROVE  \E m \in S : \A k \in S : r[m] <= r[k]
<1> DEFINE R == {r[n] : n \in S}
<1>1. R \in SUBSET Nat /\ R # {}
  OBVIOUS
<1>2. PICK i \in R : \A k \in R : i <= k
  BY <1>1, Least, Zenon
<1> QED
  BY <1>2

LEMMA NodesFinite == IsFiniteSet(Nodes) /\ Cardinality(Nodes) \in Nat
  BY NodeListsAssumption, FS_CardinalityType

\* Where step k leads, when the function f says where the steps before it led.
Lead(h, p, f, k) ==
  IF k = 0 THEN p ELSE IF f[k - 1] = NULL THEN NULL ELSE h.next[f[k - 1]]

\* The recursion of Follow has a solution, for every number of steps.
LEMMA FollowExists ==
  ASSUME NEW h, NEW p
  PROVE  \A n \in Nat : \E f : f = [k \in 0..n |-> Lead(h, p, f, k)]
<1> DEFINE Good(n) == \E f : f = [k \in 0..n |-> Lead(h, p, f, k)]
           Bad == {n \in Nat : ~Good(n)}
<1>1. SUFFICES ASSUME Bad # {} PROVE FALSE
  OBVIOUS
<1>2. PICK n \in Bad : \A k \in Bad : n <= k
  <2>1. Bad \in SUBSET Nat
    OBVIOUS
  <2> QED
    BY <1>1, <2>1, Least, Zenon
<1>3. n \in Nat /\ ~Good(n)
  BY <1>2
<1>4. CASE n = 0
  <2> DEFINE f == [k \in 0..0 |-> p]
  <2>1. f = [k \in 0..0 |-> Lead(h, p, f, k)]
    BY DEF Lead
  <2> QED
    BY <1>3, <1>4, <2>1
<1>5. CASE n # 0
  <2>1. n - 1 \in Nat /\ n - 1 \notin Bad
    BY <1>2, <1>3, <1>5
  <2>2. PICK f : f = [k \in 0..(n - 1) |-> Lead(h, p, f, k)]
    BY <2>1
  <2> DEFINE g == [k \in 0..n |-> IF k = n THEN Lead(h, p, f, n) ELSE f[k]]
  <2>3. \A k \in 0..n : g[k] = Lead(h, p, g, k)
    <3> SUFFICES ASSUME NEW k \in 0..n PROVE g[k] = Lead(h, p, g, k)
      OBVIOUS
    <3>1. k # 0 => k - 1 \in 0..n /\ k - 1 # n
      BY <1>3
    <3>2. k # 0 => g[k - 1] = f[k - 1]
      BY <3>1
    <3>3. Lead(h, p, g, k) = Lead(h, p, f, k)
      BY <3>2 DEF Lead
    <3>4. k # n => k \in 0..(n - 1)
      BY <1>3
    <3>5. k # n => f[k] = Lead(h, p, f, k)
      BY <2>2, <3>4
    <3> QED
      BY <3>3, <3>5
  <2>4. g = [k \in 0..n |-> Lead(h, p, g, k)]
    BY <2>3
  <2> HIDE DEF g
  <2> QED
    BY <1>3, <2>4
<1> QED
  BY <1>4, <1>5

LEMMA FollowDef ==
  ASSUME NEW h, NEW p
  PROVE  Follow(h, p) = [k \in 0..Cardinality(Nodes) |-> Lead(h, p, Follow(h, p), k)]
<1>1. \E f : f = [k \in 0..Cardinality(Nodes) |-> Lead(h, p, f, k)]
  BY FollowExists, NodesFinite
<1> QED
  BY <1>1 DEF Follow, Lead

\* One step after another.
LEMMA FollowSteps ==
  ASSUME NEW h, NEW p
  PROVE  /\ Follow(h, p)[0] = p
         /\ \A k \in 1..Cardinality(Nodes) :
              Follow(h, p)[k] = IF Follow(h, p)[k - 1] = NULL THEN NULL
                                ELSE h.next[Follow(h, p)[k - 1]]
<1> DEFINE F == Follow(h, p)
<1>1. F = [k \in 0..Cardinality(Nodes) |-> Lead(h, p, F, k)]
  BY FollowDef
<1> HIDE DEF F
<1>2. F[0] = p
  BY <1>1, NodesFinite DEF Lead
<1>3. \A k \in 1..Cardinality(Nodes) :
        F[k] = IF F[k - 1] = NULL THEN NULL ELSE h.next[F[k - 1]]
  BY <1>1, NodesFinite DEF Lead
<1> QED
  BY <1>2, <1>3 DEF F

-----------------------------------------------------------------------------
(* Sets of nodes that next pointers do not leave, with ranks that grow     *)
(* along them                                                              *)

Ranks == [Nodes -> Nat]

Closed(h, S, r) ==
  \A n \in S : /\ h.next[n] \in S \cup {NULL}
               /\ h.next[n] # NULL => r[n] < r[h.next[n]]

\* Every node of T is p or the next of a node of T.
Behind(h, p, T) == \A n \in T : n = p \/ \E m \in T : h.next[m] = n

LEMMA NotANode == \A n \in Nodes : n # NULL
  BY NodeListsAssumption

\* A loop that starts in a closed set stays in it, and ends.
LEMMA Path ==
  ASSUME NEW h, NEW S \in SUBSET Nodes, NEW r \in Ranks, Closed(h, S, r),
         NEW p \in S \cup {NULL}
  PROVE  /\ \A k \in 0..Cardinality(Nodes) : Follow(h, p)[k] \in S \cup {NULL}
         /\ Follow(h, p)[Cardinality(Nodes)] = NULL
<1> DEFINE N == Cardinality(Nodes)
           F == Follow(h, p)
           \* The steps up to k are nodes with growing ranks.
           Fine(k) == /\ F[k] \in S \cup {NULL}
                      /\ F[k] # NULL => \A j \in 0..(k - 1) :
                           F[j] \in S /\ r[F[j]] < r[F[k]]
           Bad == {k \in 0..N : ~Fine(k)}
<1>1. N \in Nat
  BY NodesFinite
<1>2. F[0] = p /\ \A k \in 1..N : F[k] = IF F[k - 1] = NULL THEN NULL ELSE h.next[F[k - 1]]
  BY FollowSteps
<1>3. \A n \in S : n \in Nodes /\ n # NULL /\ r[n] \in Nat
  BY NotANode DEF Ranks
<1> HIDE DEF N, F
<1>4. Bad = {}
  <2> SUFFICES ASSUME Bad # {} PROVE FALSE
    OBVIOUS
  <2>1. PICK k \in Bad : \A i \in Bad : k <= i
    <3>1. Bad \in SUBSET Nat
      BY <1>1
    <3> QED
      BY <3>1, Least, Zenon
  <2>2. k \in 0..N /\ ~Fine(k)
    BY <2>1
  <2>3. CASE k = 0
    <3>1. 0..(0 - 1) = {}
      OBVIOUS
    <3>2. Fine(0)
      BY <3>1, <1>2
    <3> QED
      BY <3>2, <2>2, <2>3, Zenon
  <2>4. CASE k # 0
    <3>1. k - 1 \in 0..N /\ k \in 1..N /\ k - 1 \notin Bad
      BY <2>1, <2>2, <2>4, <1>1
    <3>2. Fine(k - 1)
      BY <3>1
    <3>3. F[k] = IF F[k - 1] = NULL THEN NULL ELSE h.next[F[k - 1]]
      BY <1>2, <3>1
    <3>4. F[k] \in S \cup {NULL}
      BY <3>2, <3>3 DEF Closed
    <3>5. ASSUME F[k] # NULL, NEW j \in 0..(k - 1)
          PROVE  F[j] \in S /\ r[F[j]] < r[F[k]]
      <4>1. F[k - 1] \in S /\ F[k] \in S /\ r[F[k - 1]] < r[F[k]]
        BY <3>2, <3>3, <3>4, <3>5 DEF Closed
      <4>2. CASE j = k - 1
        BY <4>1, <4>2
      <4>3. CASE j # k - 1
        <5>1. j \in 0..(k - 1 - 1)
          BY <4>3, <3>1, <1>1
        <5>2. F[k - 1] # NULL
          BY <4>1, <1>3
        <5>3. F[j] \in S /\ r[F[j]] < r[F[k - 1]]
          BY <3>2, <5>1, <5>2
        <5>4. r[F[j]] \in Nat /\ r[F[k - 1]] \in Nat /\ r[F[k]] \in Nat
          BY <5>3, <4>1, <1>3
        <5>5. \A a, b, c \in Nat : a < b /\ b < c => a < c
          OBVIOUS
        <5> QED
          BY <5>3, <4>1, <5>4, <5>5, Zenon
      <4> QED
        BY <4>2, <4>3
    <3>6. Fine(k)
      BY <3>4, <3>5
    <3> QED
      BY <3>6, <2>2
  <2> QED
    BY <2>3, <2>4
<1>5. \A k \in 0..N : Fine(k)
  BY <1>4
<1>6. F[N] = NULL
  <2> SUFFICES ASSUME F[N] # NULL PROVE FALSE
    OBVIOUS
  <2>1. \A j \in 0..N : F[j] \in S
    <3> TAKE j \in 0..N
    <3>1. N \in 0..N /\ (j = N \/ j \in 0..(N - 1))
      BY <1>1
    <3> QED
      BY <3>1, <1>5
  <2>2. \A i, j \in 0..N : i < j => r[F[i]] < r[F[j]]
    <3> TAKE i, j \in 0..N
    <3> HAVE i < j
    <3>1. i \in 0..(j - 1) /\ F[j] # NULL /\ Fine(j)
      BY <1>1, <1>3, <1>5, <2>1
    <3> QED
      BY <3>1
  <2>3. \A i, j \in 0..N : F[i] = F[j] => i = j
    <3> TAKE i, j \in 0..N
    <3> HAVE F[i] = F[j]
    <3>1. r[F[i]] \in Nat /\ r[F[j]] \in Nat /\ r[F[i]] = r[F[j]]
      BY <2>1, <1>3
    <3>2. ~(i < j) /\ ~(j < i)
      BY <3>1, <2>2
    <3> QED
      BY <3>2, <1>1
  <2> DEFINE f == [k \in 0..N |-> F[k]]
  <2>4. f \in [0..N -> Nodes] /\ \A x, y \in 0..N : x # y => f[x] # f[y]
    BY <2>1, <2>3, <1>3
  <2>5. Cardinality(0..N) = N + 1 /\ IsFiniteSet(0..N)
    BY <1>1, FS_Interval
  <2>6. Cardinality(0..N) <= Cardinality(Nodes)
    <3> HIDE DEF f
    <3>1. \E g \in [0..N -> Nodes] : \A x, y \in 0..N : x # y => g[x] # g[y]
      BY <2>4
    <3>2. ~(Cardinality(0..N) > Cardinality(Nodes))
      BY <3>1, <2>5, NodesFinite, FS_PigeonHole
    <3> QED
      BY <3>2, <2>5, <1>1 DEF N
  <2> QED
    BY <2>5, <2>6, <1>1 DEF N
<1> QED
  BY <1>5, <1>6 DEF F, N

\* It visits its first node, and the next of each node that it visits.
LEMMA FromSteps ==
  ASSUME NEW h, NEW S \in SUBSET Nodes, NEW r \in Ranks, Closed(h, S, r),
         NEW p \in S \cup {NULL}
  PROVE  /\ From(h, p) \subseteq S
         /\ p \in From(h, p) \cup {NULL}
         /\ \A n \in From(h, p) : h.next[n] \in From(h, p) \cup {NULL}
<1> DEFINE N == Cardinality(Nodes)
           F == Follow(h, p)
<1>1. N \in Nat
  BY NodesFinite
<1>2. F[0] = p /\ \A k \in 1..N : F[k] = IF F[k - 1] = NULL THEN NULL ELSE h.next[F[k - 1]]
  BY FollowSteps
<1>3. (\A k \in 0..N : F[k] \in S \cup {NULL}) /\ F[N] = NULL
  BY Path
<1>4. From(h, p) = {F[k] : k \in 0..N} \ {NULL}
  BY DEF From
<1> HIDE DEF F, N
<1>5. ASSUME NEW n \in From(h, p) PROVE h.next[n] \in From(h, p) \cup {NULL}
  <2>1. PICK k \in 0..N : n = F[k] /\ n # NULL
    BY <1>4
  <2>2. k + 1 \in 1..N /\ k + 1 \in 0..N /\ (k + 1) - 1 = k
    BY <2>1, <1>3, <1>1
  <2>3. F[k + 1] = h.next[n]
    BY <2>1, <2>2, <1>2
  <2> QED
    BY <2>2, <2>3, <1>4
<1>6. 0 \in 0..N
  BY <1>1
<1> QED
  BY <1>2, <1>3, <1>4, <1>5, <1>6

\* Without a first node, there is none.
LEMMA BehindNothing ==
  ASSUME NEW h, NEW S \in SUBSET Nodes, NEW r \in Ranks, Closed(h, S, r),
         NEW T \in SUBSET S, Behind(h, NULL, T)
  PROVE  T = {}
<1> SUFFICES ASSUME T # {} PROVE FALSE
  OBVIOUS
<1>1. \A n \in T : r[n] \in Nat /\ n # NULL
  BY NotANode DEF Ranks
<1>2. PICK n \in T : \A k \in T : r[n] <= r[k]
  BY <1>1, LeastRank
<1>3. PICK m \in T : h.next[m] = n
  BY <1>1 DEF Behind
<1>4. r[m] < r[n] /\ r[n] <= r[m]
  BY <1>1, <1>2, <1>3 DEF Closed
<1> QED
  BY <1>1, <1>4

\* A loop that starts at p visits all that is behind p.
LEMMA FromAll ==
  ASSUME NEW h, NEW S \in SUBSET Nodes, NEW r \in Ranks, Closed(h, S, r),
         NEW p \in S \cup {NULL}, Behind(h, p, S)
  PROVE  From(h, p) = S
<1>1. /\ From(h, p) \subseteq S
      /\ p \in From(h, p) \cup {NULL}
      /\ \A n \in From(h, p) : h.next[n] \in From(h, p) \cup {NULL}
  BY FromSteps
<1> SUFFICES ASSUME S \ From(h, p) # {} PROVE FALSE
  BY <1>1
<1> DEFINE T == S \ From(h, p)
<1>2. Behind(h, NULL, T)
  <2> SUFFICES ASSUME NEW n \in T PROVE \E m \in T : h.next[m] = n
    BY DEF Behind
  <2>1. n # p /\ n # NULL
    BY <1>1, NotANode
  <2>2. PICK m \in S : h.next[m] = n
    BY <2>1 DEF Behind
  <2>3. m \notin From(h, p)
    BY <2>1, <2>2, <1>1
  <2> QED
    BY <2>2, <2>3
<1>3. T = {}
  <2> HIDE DEF T
  <2>1. T \in SUBSET S
    BY DEF T
  <2> QED
    BY <1>2, <2>1, BehindNothing
<1> QED
  BY <1>3

-----------------------------------------------------------------------------
(* A heap whose lists have no rings, no ends cut off and no nodes in common *)

\* The nodes of S are a list that begins at p.
Chain(h, p, S, r) ==
  /\ p \in S \cup {NULL}
  /\ Closed(h, S, r)
  /\ Behind(h, p, S)
  /\ \A m \in S : h.next[m] = p => p = NULL
  /\ \A m, n \in S : h.next[m] = h.next[n] => m = n \/ h.next[m] = NULL

\* L gives the nodes of each list.
Shape(h, L, r) ==
  /\ \A l \in Lists : Chain(h, h.head[l], L[l], r)
  /\ \A l, m \in Lists : l # m => L[l] \cap L[m] = {}
  /\ h.live = UNION {L[l] : l \in Lists}

Members == [Lists -> SUBSET Nodes]

OnLists(h) == [l \in Lists |-> On(h, l)]

Linked(h) == h \in Heaps /\ \E L \in Members, r \in Ranks : Shape(h, L, r)

LEMMA HeapParts ==
  ASSUME NEW h \in Heaps
  PROVE  /\ h.head \in [Lists -> Pointers]
         /\ h.next \in [Nodes -> Pointers]
         /\ h.live \in SUBSET Nodes
         /\ h = [head |-> h.head, next |-> h.next, live |-> h.live]
  BY DEF Heaps

\* Any L that gives a heap a shape is what the loops over its lists visit.
LEMMA ShapeIsOn ==
  ASSUME NEW h \in Heaps, NEW L \in Members, NEW r \in Ranks, Shape(h, L, r)
  PROVE  OnLists(h) = L /\ Linked(h) /\ Sound(h)
<1>1. \A l \in Lists : On(h, l) = L[l] /\ Terminates(h, l)
  <2> TAKE l \in Lists
  <2>1. /\ L[l] \in SUBSET Nodes /\ Closed(h, L[l], r)
        /\ h.head[l] \in L[l] \cup {NULL} /\ Behind(h, h.head[l], L[l])
    BY DEF Shape, Chain, Members
  <2>2. From(h, h.head[l]) = L[l]
    BY <2>1, FromAll
  <2>3. Follow(h, h.head[l])[Cardinality(Nodes)] = NULL
    BY <2>1, Path
  <2> QED
    BY <2>2, <2>3 DEF On, Terminates
<1>2. OnLists(h) = L
  BY <1>1 DEF OnLists, Members
<1>3. UNION {On(h, l) : l \in Lists} = UNION {L[l] : l \in Lists}
  BY <1>1
<1>4. Sound(h)
  BY <1>1, <1>3 DEF Shape, Sound
<1> QED
  BY <1>2, <1>4 DEF Linked

LEMMA LinkedShape ==
  ASSUME NEW h, Linked(h)
  PROVE  /\ h \in Heaps /\ Sound(h)
         /\ OnLists(h) \in Members
         /\ \E r \in Ranks : Shape(h, OnLists(h), r)
<1>1. PICK L \in Members, r \in Ranks : Shape(h, L, r)
  BY DEF Linked
<1>2. h \in Heaps
  BY DEF Linked
<1> QED
  BY <1>1, <1>2, ShapeIsOn

\* What a loop over a list may count on.
LEMMA LinkedFacts ==
  ASSUME NEW h, Linked(h), NEW l \in Lists
  PROVE  /\ On(h, l) \in SUBSET Nodes /\ On(h, l) \subseteq h.live
         /\ h.head[l] \in On(h, l) \cup {NULL}
         /\ h.head[l] = NULL => On(h, l) = {}
         /\ \A m \in Lists : l # m => On(h, l) \cap On(h, m) = {}
         /\ Behind(h, h.head[l], On(h, l))
         /\ \A n \in On(h, l) : /\ h.next[n] \in On(h, l) \cup {NULL}
                                /\ h.next[n] # n
         /\ \A T \in SUBSET On(h, l) : Behind(h, NULL, T) => T = {}
<1>1. /\ h \in Heaps /\ OnLists(h) \in Members
      /\ \A k \in Lists : OnLists(h)[k] = On(h, k)
  BY LinkedShape DEF OnLists
<1>2. PICK r \in Ranks : Shape(h, OnLists(h), r)
  BY LinkedShape
<1>3. Chain(h, h.head[l], On(h, l), r)
  BY <1>1, <1>2 DEF Shape
<1>4. On(h, l) \in SUBSET Nodes
  BY <1>1 DEF Members
<1>5. \A T \in SUBSET On(h, l) : Behind(h, NULL, T) => T = {}
  BY <1>2, <1>3, <1>4, BehindNothing DEF Chain
<1>6. h.head[l] = NULL => On(h, l) = {}
  BY <1>3, <1>5 DEF Chain
<1>7. On(h, l) \subseteq h.live
  BY <1>1, <1>2 DEF Shape
<1>8. \A m \in Lists : l # m => On(h, l) \cap On(h, m) = {}
  BY <1>1, <1>2 DEF Shape
<1>9. \A n \in On(h, l) : h.next[n] \in On(h, l) \cup {NULL} /\ h.next[n] # n
  <2> TAKE n \in On(h, l)
  <2>1. n # NULL /\ r[n] \in Nat
    BY <1>4, NotANode DEF Ranks
  <2> QED
    BY <2>1, <1>3 DEF Chain, Closed
<1> QED
  BY <1>3, <1>4, <1>5, <1>6, <1>7, <1>8, <1>9 DEF Chain

-----------------------------------------------------------------------------
(* The operations keep a heap linked                                       *)

\* A list none of whose nodes is written stays as it is.
LEMMA ChainKept ==
  ASSUME NEW h, NEW g, NEW p, NEW S, NEW r, NEW q, Chain(h, p, S, r),
         \A m \in S : g.next[m] = h.next[m],
         \A m, n \in S : r[m] < r[n] => q[m] < q[n],
         NULL \notin S
  PROVE  Chain(g, p, S, q)
<1>1. Closed(g, S, q)
  BY DEF Chain, Closed
<1>2. Behind(g, p, S)
  BY DEF Chain, Behind
<1> QED
  BY <1>1, <1>2 DEF Chain

\* append_node of a node that create_node has allocated.
LEMMA PutNew ==
  ASSUME NEW h, Linked(h), NEW l \in Lists, NEW n \in Nodes, n \notin h.live,
         NEW g, g = Append(Create(h, n), l, n)
  PROVE  /\ Linked(g) /\ g.live = h.live \cup {n}
         /\ On(g, l) = On(h, l) \cup {n}
         /\ \A m \in Lists : m # l => On(g, m) = On(h, m) /\ g.head[m] = h.head[m]
         /\ g.head[l] = n /\ g.next[n] = h.head[l]
         /\ \A m \in Nodes : m # n => g.next[m] = h.next[m]
<1>1. h \in Heaps /\ OnLists(h) \in Members
  BY LinkedShape
<1>2. PICK r \in Ranks : Shape(h, OnLists(h), r)
  BY LinkedShape
<1>3. /\ h.head \in [Lists -> Pointers] /\ h.next \in [Nodes -> Pointers]
      /\ h.live \in SUBSET Nodes
  BY <1>1, HeapParts
<1>4. /\ g.head = [h.head EXCEPT ![l] = n]
      /\ g.next = [h.next EXCEPT ![n] = h.head[l]]
      /\ g.live = h.live \cup {n}
      /\ g = [head |-> g.head, next |-> g.next, live |-> g.live]
  BY <1>1, <1>3 DEF Append, Create, Heaps
<1>5. g \in Heaps
  <2>1. /\ g.head \in [Lists -> Pointers] /\ g.next \in [Nodes -> Pointers]
        /\ g.live \in SUBSET Nodes
    BY <1>3, <1>4 DEF Pointers
  <2> QED
    BY <2>1, <1>4 DEF Heaps
<1> DEFINE L == [k \in Lists |-> IF k = l THEN On(h, l) \cup {n} ELSE On(h, k)]
           q == [m \in Nodes |-> IF m = n THEN 0 ELSE r[m] + 1]
<1>6. \A k \in Lists : /\ OnLists(h)[k] = On(h, k) /\ On(h, k) \in SUBSET Nodes
                       /\ n \notin On(h, k) /\ NULL \notin On(h, k)
                       /\ Chain(h, h.head[k], On(h, k), r)
  <2> TAKE k \in Lists
  <2>1. OnLists(h)[k] = On(h, k)
    BY DEF OnLists
  <2>2. On(h, k) \in SUBSET Nodes /\ On(h, k) \subseteq h.live
    BY LinkedFacts
  <2> QED
    BY <2>1, <2>2, <1>2, NotANode DEF Shape
<1>7. L \in Members /\ q \in Ranks
  BY <1>6 DEF Members, Ranks
<1>8. \A k \in Lists : Chain(g, h.head[k], On(h, k), q)
  <2> TAKE k \in Lists
  <2>1. \A m \in On(h, k) : m \in Nodes /\ m # n /\ g.next[m] = h.next[m] /\ r[m] \in Nat
    BY <1>3, <1>4, <1>6 DEF Ranks
  <2>2. \A m, j \in On(h, k) : r[m] < r[j] => q[m] < q[j]
    BY <2>1
  <2> HIDE DEF q
  <2> QED
    BY <2>1, <2>2, <1>6, ChainKept
<1>9. Chain(g, n, On(h, l) \cup {n}, q)
  <2> DEFINE S == On(h, l)
  <2>1. Chain(g, h.head[l], S, q) /\ S \subseteq Nodes /\ n \notin S /\ NULL \notin S /\ n # NULL
    BY <1>6, <1>8, NotANode
  <2>2. g.next[n] = h.head[l]
    BY <1>3, <1>4
  <2>3. q[n] = 0 /\ \A m \in S : q[m] > 0
    BY <2>1 DEF Ranks
  <2>4. \A m \in S : g.next[m] \in S \cup {NULL}
    BY <2>1 DEF Chain, Closed
  <2> HIDE DEF S, q
  <2>5. Closed(g, S \cup {n}, q)
    BY <2>1, <2>2, <2>3 DEF Chain, Closed
  <2>6. Behind(g, n, S \cup {n})
    BY <2>1, <2>2 DEF Chain, Behind
  <2>7. \A m \in S \cup {n} : g.next[m] # n
    BY <2>1, <2>2, <2>4 DEF Chain
  <2>8. \A m, j \in S \cup {n} : g.next[m] = g.next[j] => m = j \/ g.next[m] = NULL
    BY <2>1, <2>2 DEF Chain
  <2> QED
    BY <2>5, <2>6, <2>7, <2>8 DEF Chain, S
<1>10. \A k \in Lists : g.head[k] = IF k = l THEN n ELSE h.head[k]
  BY <1>3, <1>4
<1>11. Shape(g, L, q)
  <2> HIDE DEF q
  <2>1. \A k \in Lists : Chain(g, g.head[k], L[k], q)
    BY <1>8, <1>9, <1>10
  <2>2. \A k, m \in Lists : k # m => L[k] \cap L[m] = {}
    <3> TAKE k, m \in Lists
    <3>1. k # m => On(h, k) \cap On(h, m) = {}
      BY LinkedFacts
    <3> QED
      BY <3>1, <1>6
  <2>3. h.live = UNION {On(h, k) : k \in Lists}
    BY <1>2, <1>6 DEF Shape
  <2>4. g.live = UNION {L[k] : k \in Lists}
    BY <2>3, <1>4
  <2> QED
    BY <2>1, <2>2, <2>4 DEF Shape
<1>12. OnLists(g) = L /\ Linked(g)
  <2> HIDE DEF L, q
  <2> QED
    BY <1>5, <1>7, <1>11, ShapeIsOn
<1>13. \A k \in Lists : On(g, k) = L[k]
  BY <1>12 DEF OnLists
<1> QED
  BY <1>3, <1>4, <1>10, <1>12, <1>13

\* delete_node.
LEMMA TakeOff ==
  ASSUME NEW h, Linked(h), NEW l \in Lists, NEW n \in On(h, l),
         NEW g, g = Delete(h, l, n)
  PROVE  /\ Linked(g) /\ g.live = h.live \ {n}
         /\ On(g, l) = On(h, l) \ {n}
         /\ \A m \in Lists : m # l => On(g, m) = On(h, m) /\ g.head[m] = h.head[m]
         /\ \A m \in Nodes : h.next[m] # n => g.next[m] = h.next[m]
<1>1. h \in Heaps /\ OnLists(h) \in Members
  BY LinkedShape
<1>2. PICK r \in Ranks : Shape(h, OnLists(h), r)
  BY LinkedShape
<1>3. /\ h.head \in [Lists -> Pointers] /\ h.next \in [Nodes -> Pointers]
      /\ h.live \in SUBSET Nodes
  BY <1>1, HeapParts
<1>4. \A k \in Lists : /\ OnLists(h)[k] = On(h, k) /\ On(h, k) \in SUBSET Nodes
                       /\ NULL \notin On(h, k)
                       /\ Chain(h, h.head[k], On(h, k), r)
  <2> TAKE k \in Lists
  <2>1. OnLists(h)[k] = On(h, k)
    BY DEF OnLists
  <2>2. On(h, k) \in SUBSET Nodes
    BY LinkedFacts
  <2> QED
    BY <2>1, <2>2, <1>2, NotANode DEF Shape
<1>5. h.head[l] # NULL /\ h.next[n] # n /\ n \in Nodes /\ n # NULL
      /\ h.next[n] \in On(h, l) \cup {NULL}
  BY LinkedFacts, <1>4
<1> DEFINE S == On(h, l)
           L == [k \in Lists |-> IF k = l THEN S \ {n} ELSE On(h, k)]
<1>6. /\ g \in Heaps /\ g.live = h.live \ {n}
      /\ \A m \in Lists : m # l => g.head[m] = h.head[m]
      /\ \A m \in Nodes : h.next[m] # n => g.next[m] = h.next[m]
      /\ Chain(g, g.head[l], S \ {n}, r)
  <2>1. CASE h.head[l] = n
    <3>1. /\ g.head = [h.head EXCEPT ![l] = h.next[n]]
          /\ g.next = h.next
          /\ g.live = h.live \ {n}
          /\ g = [head |-> g.head, next |-> g.next, live |-> g.live]
      BY <1>1, <1>3, <1>5, <2>1 DEF Delete, Unlink, Heaps
    <3>2. g \in Heaps
      <4>1. /\ g.head \in [Lists -> Pointers] /\ g.next \in [Nodes -> Pointers]
            /\ g.live \in SUBSET Nodes
        BY <1>3, <1>5, <3>1 DEF Pointers
      <4> QED
        BY <4>1, <3>1 DEF Heaps
    <3>3. g.head[l] = h.next[n] /\ \A m \in Lists : m # l => g.head[m] = h.head[m]
      BY <1>3, <3>1
    <3>4. Chain(h, n, S, r) /\ NULL \notin S
      BY <1>4, <2>1
    <3> HIDE DEF S
    <3>5. n \in S /\ h.next[n] \in S \cup {NULL}
      BY <1>5 DEF S
    <3>6. Chain(h, h.next[n], S \ {n}, r)
      <4>1. \A m \in S : h.next[m] # n
        BY <3>4, <1>5 DEF Chain
      <4>2. Closed(h, S \ {n}, r)
        BY <3>4, <4>1 DEF Chain, Closed
      <4>3. Behind(h, h.next[n], S \ {n})
        BY <3>4 DEF Chain, Behind
      <4>4. h.next[n] \in (S \ {n}) \cup {NULL}
        BY <3>5, <1>5
      <4>5. \A m \in S \ {n} : h.next[m] = h.next[n] => h.next[n] = NULL
        BY <3>4, <3>5 DEF Chain
      <4>6. \A m, j \in S \ {n} : h.next[m] = h.next[j] => m = j \/ h.next[m] = NULL
        BY <3>4 DEF Chain
      <4> QED
        BY <4>2, <4>3, <4>4, <4>5, <4>6 DEF Chain
    <3>7. Chain(g, h.next[n], S \ {n}, r)
      BY <3>1, <3>4, <3>6, ChainKept
    <3> QED
      BY <3>1, <3>2, <3>3, <3>7
  <2>2. CASE h.head[l] # n
    <3> DEFINE b == Prev(h, l, n)
    <3>1. b \in S /\ h.next[b] = n
      <4>1. \E m \in On(h, l) : h.next[m] = n
        BY <1>4, <2>2 DEF Chain, Behind
      <4> QED
        BY <4>1 DEF Prev
    <3>2. /\ g.head = h.head
          /\ g.next = [h.next EXCEPT ![b] = h.next[n]]
          /\ g.live = h.live \ {n}
          /\ g = [head |-> g.head, next |-> g.next, live |-> g.live]
      BY <1>1, <1>3, <1>5, <2>2 DEF Delete, Unlink, Heaps
    <3> HIDE DEF b
    <3>3. g \in Heaps
      <4>1. h.next[n] \in Pointers
        BY <1>3, <1>5
      <4>2. g.next \in [Nodes -> Pointers] /\ g.live \in SUBSET Nodes
        BY <1>3, <3>2, <4>1
      <4> QED
        BY <4>2, <1>3, <3>2 DEF Heaps
    <3>4. Chain(h, h.head[l], S, r) /\ NULL \notin S /\ S \subseteq Nodes /\ n \in S
      BY <1>4
    <3>5. b \in Nodes /\ b # n /\ g.next[b] = h.next[n]
          /\ \A m \in Nodes : m # b => g.next[m] = h.next[m]
      BY <3>1, <3>2, <3>4, <1>3, <1>5
    <3> HIDE DEF S
    <3>6. r[b] \in Nat /\ r[n] \in Nat /\ r[b] < r[n]
          /\ \A m \in S : r[m] \in Nat
      BY <3>1, <3>4, <1>5 DEF Chain, Closed, Ranks
    <3>7. h.next[n] \in (S \ {n}) \cup {NULL} /\ h.next[n] # b
      <4>1. h.next[n] = b => r[n] < r[b]
        BY <3>1, <3>4 DEF Chain, Closed
      <4> QED
        BY <4>1, <3>6, <1>5 DEF S
    <3>8. \A m \in S : m # b => h.next[m] # n
      BY <3>1, <3>4, <1>5 DEF Chain
    <3>9. Closed(g, S \ {n}, r)
      <4>1. ASSUME h.next[n] # NULL PROVE r[b] < r[h.next[n]]
        <5>1. r[n] < r[h.next[n]] /\ h.next[n] \in S
          BY <3>4, <4>1 DEF Chain, Closed
        <5> QED
          BY <5>1, <3>6
      <4>2. \A m \in S : m # b => h.next[m] \in (S \ {n}) \cup {NULL}
                                  /\ (h.next[m] # NULL => r[m] < r[h.next[m]])
        BY <3>4, <3>8 DEF Chain, Closed
      <4>3. \A m \in S : m # b => g.next[m] = h.next[m]
        BY <3>4, <3>5
      <4> QED
        BY <4>1, <4>2, <4>3, <3>5, <3>7 DEF Closed
    <3>10. Behind(g, h.head[l], S \ {n})
      <4> SUFFICES ASSUME NEW m \in S \ {n}, m # h.head[l]
                   PROVE  \E j \in S \ {n} : g.next[j] = m
        BY DEF Behind
      <4>1. PICK j \in S : h.next[j] = m
        BY <3>4 DEF Chain, Behind
      <4>2. CASE j = n
        BY <4>1, <4>2, <3>1, <3>5
      <4>3. CASE j # n
        <5>1. j # b /\ j \in Nodes
          BY <4>1, <3>1, <3>4
        <5> QED
          BY <5>1, <4>1, <4>3, <3>5
      <4> QED
        BY <4>2, <4>3
    <3>11. \A m \in S \ {n} : g.next[m] = h.head[l] => h.head[l] = NULL
      BY <3>4, <3>5 DEF Chain
    <3>12. \A m, j \in S \ {n} : g.next[m] = g.next[j] => m = j \/ g.next[m] = NULL
      BY <3>4, <3>5 DEF Chain
    <3>13. h.head[l] \in (S \ {n}) \cup {NULL}
      BY <3>4, <2>2 DEF Chain
    <3>14. Chain(g, g.head[l], S \ {n}, r)
      BY <3>2, <3>9, <3>10, <3>11, <3>12, <3>13 DEF Chain
    <3> QED
      BY <3>1, <3>2, <3>3, <3>5, <3>14
  <2> QED
    BY <2>1, <2>2
<1>7. \A k \in Lists : k # l => On(h, k) \cap S = {} /\ Chain(g, g.head[k], On(h, k), r)
  <2> TAKE k \in Lists
  <2> HAVE k # l
  <2>1. On(h, k) \cap S = {}
    BY LinkedFacts
  <2>2. \A m \in On(h, k) : h.next[m] \in On(h, k) \cup {NULL}
    BY LinkedFacts
  <2>3. \A m \in On(h, k) : m \in Nodes /\ h.next[m] # n
    BY <2>1, <2>2, <1>4, <1>5
  <2>4. \A m \in On(h, k) : g.next[m] = h.next[m]
    BY <2>3, <1>6
  <2>5. Chain(g, h.head[k], On(h, k), r)
    BY <2>4, <1>4, ChainKept
  <2>6. g.head[k] = h.head[k]
    BY <1>6
  <2> QED
    BY <2>1, <2>5, <2>6
<1>8. L \in Members
  BY <1>4 DEF Members
<1>9. Shape(g, L, r)
  <2>1. \A k \in Lists : Chain(g, g.head[k], L[k], r)
    BY <1>6, <1>7
  <2>2. \A k, m \in Lists : k # m => L[k] \cap L[m] = {}
    <3> TAKE k, m \in Lists
    <3>1. k # m => On(h, k) \cap On(h, m) = {}
      BY LinkedFacts
    <3> QED
      BY <3>1
  <2>3. h.live = UNION {On(h, k) : k \in Lists}
    BY <1>2, <1>4 DEF Shape
  <2>4. g.live = UNION {L[k] : k \in Lists}
    BY <2>3, <1>6, <1>7
  <2> QED
    BY <2>1, <2>2, <2>4 DEF Shape
<1>10. OnLists(g) = L /\ Linked(g)
  <2> HIDE DEF L
  <2> QED
    BY <1>6, <1>8, <1>9, ShapeIsOn
<1>11. \A k \in Lists : On(g, k) = L[k]
  BY <1>10 DEF OnLists
<1> QED
  BY <1>6, <1>10, <1>11

\* append_node and create_node, field by field.
LEMMA PutOf ==
  ASSUME NEW h \in Heaps, NEW l \in Lists, NEW n \in Nodes, NEW g, g = Append(h, l, n)
  PROVE  /\ g \in Heaps
         /\ \A k \in Lists : g.head[k] = IF k = l THEN n ELSE h.head[k]
         /\ \A k \in Nodes : g.next[k] = IF k = n THEN h.head[l] ELSE h.next[k]
         /\ g.live = h.live
<1>1. h.head \in [Lists -> Pointers] /\ h.next \in [Nodes -> Pointers] /\ h.live \in SUBSET Nodes
  BY HeapParts
<1>2. /\ g.head = [h.head EXCEPT ![l] = n]
      /\ g.next = [h.next EXCEPT ![n] = h.head[l]]
      /\ g.live = h.live
      /\ g = [head |-> g.head, next |-> g.next, live |-> g.live]
  BY <1>1 DEF Append, Heaps
<1>3. g.head \in [Lists -> Pointers] /\ g.next \in [Nodes -> Pointers] /\ g.live \in SUBSET Nodes
  BY <1>1, <1>2 DEF Pointers
<1> QED
  BY <1>1, <1>2, <1>3 DEF Heaps

LEMMA NewOf ==
  ASSUME NEW h \in Heaps, NEW n \in Nodes, NEW g, g = Create(h, n)
  PROVE  /\ g \in Heaps
         /\ g.head = h.head
         /\ g.next = [h.next EXCEPT ![n] = NULL]
         /\ g.live = h.live \cup {n}
<1>1. h.head \in [Lists -> Pointers] /\ h.next \in [Nodes -> Pointers] /\ h.live \in SUBSET Nodes
  BY HeapParts
<1>2. /\ g.head = h.head
      /\ g.next = [h.next EXCEPT ![n] = NULL]
      /\ g.live = h.live \cup {n}
      /\ g = [head |-> g.head, next |-> g.next, live |-> g.live]
  BY <1>1 DEF Create, Heaps
<1>3. g.head \in [Lists -> Pointers] /\ g.next \in [Nodes -> Pointers] /\ g.live \in SUBSET Nodes
  BY <1>1, <1>2 DEF Pointers
<1> QED
  BY <1>2, <1>3 DEF Heaps

\* A node that is freed and allocated again may as well not be freed.
LEMMA PutAgain ==
  ASSUME NEW u \in Heaps, NEW to \in Lists, NEW n \in Nodes, n \in u.live,
         NEW d \in Heaps, d.head = u.head, d.next = u.next, d.live = u.live \ {n}
  PROVE  Append(Create(d, n), to, n) = Append(u, to, n)
<1> SUFFICES ASSUME NEW c, c = Create(d, n), NEW a, a = Append(c, to, n),
                    NEW m, m = Append(u, to, n)
             PROVE  a = m
  OBVIOUS
<1>1. /\ c \in Heaps /\ c.head = u.head /\ c.next = [u.next EXCEPT ![n] = NULL]
      /\ c.live = u.live
  <2>1. c \in Heaps /\ c.head = d.head /\ c.next = [d.next EXCEPT ![n] = NULL]
        /\ c.live = d.live \cup {n}
    BY NewOf
  <2>2. (u.live \ {n}) \cup {n} = u.live
    OBVIOUS
  <2> QED
    BY <2>1, <2>2
<1>2. /\ a \in Heaps /\ a.live = c.live
      /\ \A k \in Lists : a.head[k] = IF k = to THEN n ELSE c.head[k]
      /\ \A k \in Nodes : a.next[k] = IF k = n THEN c.head[to] ELSE c.next[k]
  <2>1. c \in Heaps
    BY <1>1
  <2> QED
    BY <2>1, PutOf
<1>3. /\ m \in Heaps /\ m.live = u.live
      /\ \A k \in Lists : m.head[k] = IF k = to THEN n ELSE u.head[k]
      /\ \A k \in Nodes : m.next[k] = IF k = n THEN u.head[to] ELSE u.next[k]
  BY PutOf
<1>4. \A x \in Heaps : x.head \in [Lists -> Pointers] /\ x.next \in [Nodes -> Pointers]
  BY HeapParts
<1>5. a.head = m.head
  <2>1. \A k \in Lists : a.head[k] = m.head[k]
    BY <1>1, <1>2, <1>3
  <2> QED
    BY <2>1, <1>2, <1>3, <1>4
<1>6. a.next = m.next
  <2>1. \A k \in Nodes : a.next[k] = m.next[k]
    BY <1>1, <1>2, <1>3, <1>4
  <2> QED
    BY <2>1, <1>2, <1>3, <1>4
<1>7. /\ a = [head |-> a.head, next |-> a.next, live |-> a.live]
      /\ m = [head |-> m.head, next |-> m.next, live |-> m.live]
  BY <1>2, <1>3, HeapParts
<1> QED
  BY <1>1, <1>2, <1>3, <1>5, <1>6, <1>7

\* move_node is to delete the node and to append it, new, to the other list.
LEMMA MoveIs ==
  ASSUME NEW h, Linked(h), NEW to \in Lists, NEW l \in Lists, NEW n \in On(h, l)
  PROVE  Move(h, to, l, n) = Append(Create(Delete(h, l, n), n), to, n)
<1>1. /\ h \in Heaps /\ h.head[l] # NULL /\ n \in Nodes /\ n \in h.live
  BY LinkedShape, LinkedFacts
<1>2. /\ h.head \in [Lists -> Pointers] /\ h.next \in [Nodes -> Pointers]
      /\ h.live \in SUBSET Nodes
  BY <1>1, HeapParts
<1> DEFINE u == Unlink(h, l, n)
           d == Delete(h, l, n)
<1>3. u \in Heaps /\ u.live = h.live
  <2>1. CASE h.head[l] = n
    BY <1>1, <1>2, <2>1 DEF Unlink, Heaps, Pointers
  <2>2. CASE h.head[l] # n
    <3>1. u = [h EXCEPT !.next = [h.next EXCEPT ![Prev(h, l, n)] = h.next[n]]]
      BY <2>2 DEF Unlink
    <3>2. [h.next EXCEPT ![Prev(h, l, n)] = h.next[n]] \in [Nodes -> Pointers]
      BY <1>1, <1>2
    <3> HIDE DEF u
    <3> QED
      BY <1>1, <3>1, <3>2 DEF Heaps
  <2> QED
    BY <2>1, <2>2
<1>4. d = [u EXCEPT !.live = @ \ {n}]
  BY <1>1 DEF Delete
<1>5. Move(h, to, l, n) = Append(u, to, n)
  BY <1>1 DEF Move
<1> HIDE DEF u, d
<1>6. d \in Heaps /\ d.head = u.head /\ d.next = u.next /\ d.live = u.live \ {n}
  BY <1>3, <1>4 DEF Heaps
<1>7. Append(Create(d, n), to, n) = Append(u, to, n)
  BY <1>1, <1>3, <1>6, PutAgain
<1> QED
  BY <1>5, <1>7 DEF d

LEMMA MoveOver ==
  ASSUME NEW h, Linked(h), NEW to \in Lists, NEW l \in Lists, to # l, NEW n \in On(h, l),
         NEW g, g = Move(h, to, l, n)
  PROVE  /\ Linked(g) /\ g.live = h.live
         /\ On(g, l) = On(h, l) \ {n} /\ On(g, to) = On(h, to) \cup {n}
         /\ \A m \in Lists : m # l /\ m # to =>
              On(g, m) = On(h, m) /\ g.head[m] = h.head[m]
         /\ g.head[to] = n /\ g.next[n] = h.head[to]
         /\ \A m \in Nodes : m # n /\ h.next[m] # n => g.next[m] = h.next[m]
<1> DEFINE d == Delete(h, l, n)
<1>1. g = Append(Create(d, n), to, n)
  BY MoveIs
<1>2. /\ Linked(d) /\ d.live = h.live \ {n}
      /\ On(d, l) = On(h, l) \ {n}
      /\ \A m \in Lists : m # l => On(d, m) = On(h, m) /\ d.head[m] = h.head[m]
      /\ \A m \in Nodes : h.next[m] # n => d.next[m] = h.next[m]
  BY TakeOff
<1>3. n \in Nodes /\ n \in h.live
  BY LinkedFacts
<1> HIDE DEF d
<1>4. n \notin d.live
  BY <1>2
<1>5. /\ Linked(g) /\ g.live = d.live \cup {n}
      /\ On(g, to) = On(d, to) \cup {n}
      /\ \A m \in Lists : m # to => On(g, m) = On(d, m) /\ g.head[m] = d.head[m]
      /\ g.head[to] = n /\ g.next[n] = d.head[to]
      /\ \A m \in Nodes : m # n => g.next[m] = d.next[m]
  BY <1>1, <1>2, <1>3, <1>4, PutNew
<1>6. g.live = h.live
  BY <1>2, <1>3, <1>5
<1> QED
  BY <1>2, <1>5, <1>6

\* clear_hashchunk_list.
LEMMA ClearOne ==
  ASSUME NEW h, Linked(h), NEW l \in Lists, NEW g, g = Clear(h, l)
  PROVE  /\ Linked(g)
         /\ On(g, l) = {}
         /\ \A m \in Lists : m # l => On(g, m) = On(h, m)
<1>1. h \in Heaps /\ OnLists(h) \in Members
  BY LinkedShape
<1>2. PICK r \in Ranks : Shape(h, OnLists(h), r)
  BY LinkedShape
<1>3. /\ h.head \in [Lists -> Pointers] /\ h.next \in [Nodes -> Pointers]
      /\ h.live \in SUBSET Nodes
  BY <1>1, HeapParts
<1>4. /\ g.head = [h.head EXCEPT ![l] = NULL] /\ g.next = h.next
      /\ g.live = h.live \ On(h, l)
      /\ g = [head |-> g.head, next |-> g.next, live |-> g.live]
  BY <1>1, <1>3 DEF Clear, Heaps
<1>5. g \in Heaps
  <2>1. g.head \in [Lists -> Pointers] /\ g.live \in SUBSET Nodes
    BY <1>3, <1>4 DEF Pointers
  <2> QED
    BY <2>1, <1>3, <1>4 DEF Heaps
<1> DEFINE L == [k \in Lists |-> IF k = l THEN {} ELSE On(h, k)]
<1>6. \A k \in Lists : /\ OnLists(h)[k] = On(h, k) /\ On(h, k) \in SUBSET Nodes
                       /\ NULL \notin On(h, k)
                       /\ Chain(h, h.head[k], On(h, k), r)
  <2> TAKE k \in Lists
  <2>1. OnLists(h)[k] = On(h, k)
    BY DEF OnLists
  <2>2. On(h, k) \in SUBSET Nodes
    BY LinkedFacts
  <2> QED
    BY <2>1, <2>2, <1>2, NotANode DEF Shape
<1>7. L \in Members
  BY <1>6 DEF Members
<1>8. \A k \in Lists : Chain(g, g.head[k], L[k], r)
  <2> TAKE k \in Lists
  <2>1. CASE k = l
    <3>1. g.head[k] = NULL /\ L[k] = {}
      BY <2>1, <1>3, <1>4
    <3> QED
      BY <3>1 DEF Chain, Closed, Behind
  <2>2. CASE k # l
    <3>1. g.head[k] = h.head[k] /\ L[k] = On(h, k)
      BY <2>2, <1>3, <1>4
    <3>2. Chain(g, h.head[k], On(h, k), r)
      BY <1>4, <1>6, ChainKept
    <3> QED
      BY <3>1, <3>2
  <2> QED
    BY <2>1, <2>2
<1>9. Shape(g, L, r)
  <2>1. \A k, m \in Lists : k # m => L[k] \cap L[m] = {} /\ On(h, k) \cap On(h, m) = {}
    <3> TAKE k, m \in Lists
    <3>1. k # m => On(h, k) \cap On(h, m) = {}
      BY LinkedFacts
    <3> QED
      BY <3>1
  <2>2. h.live = UNION {On(h, k) : k \in Lists}
    BY <1>2, <1>6 DEF Shape
  <2>3. g.live = UNION {L[k] : k \in Lists}
    BY <2>1, <2>2, <1>4
  <2> QED
    BY <1>8, <2>1, <2>3 DEF Shape
<1>10. OnLists(g) = L /\ Linked(g)
  <2> HIDE DEF L
  <2> QED
    BY <1>5, <1>7, <1>9, ShapeIsOn
<1>11. \A k \in Lists : On(g, k) = L[k]
  BY <1>10 DEF OnLists
<1> QED
  BY <1>10, <1>11

LEMMA EmptyLinked == Linked(EmptyHeap) /\ \A l \in Lists : On(EmptyHeap, l) = {}
<1> DEFINE L == [l \in Lists |-> {}]
           r == [n \in Nodes |-> 0]
<1>1. EmptyHeap \in Heaps /\ L \in Members /\ r \in Ranks
  BY DEF EmptyHeap, Heaps, Pointers, Members, Ranks
<1>2. Shape(EmptyHeap, L, r)
  BY DEF EmptyHeap, Shape, Chain, Closed, Behind
<1>3. OnLists(EmptyHeap) = L /\ Linked(EmptyHeap)
  <2> HIDE DEF L, r
  <2> QED
    BY <1>1, <1>2, ShapeIsOn
<1>4. \A l \in Lists : On(EmptyHeap, l) = L[l]
  BY <1>3 DEF OnLists
<1> QED
  BY <1>3, <1>4

-----------------------------------------------------------------------------
(* The invariant                                                           *)

\* Connections in use, as Downloads counts them.
Used(h) == Cardinality(On(h, "sent")) + Cardinality(On(h, "downloading"))

Types ==
  /\ from \in [Nodes -> Peers \cup {NULL}]
  /\ pc \in PCs \ {"crashed"}
  /\ curr \in Pointers /\ sent_list \in Pointers
  /\ sender \in Peers \cup {NULL}
  /\ maxpick \in 0..MaxConn /\ count \in 0..MaxConn
  /\ pc = "ihave" => sender \in Peers

Slots == Used(heap) <= MaxConn

\* check_timeout stands on get_sent_list.
Timing == pc = "timeouts" => curr \in On(heap, "sent") \cup {NULL}

\* pick_tosend_GET stands on get_tosend_quene until it has sent a GET.  From
\* then on it walks over get_sent_list as it was at its first line, of which no
\* peer is free.
Picks ==
  /\ pc # "gets" => count = 0
  /\ pc = "gets" =>
       /\ count <= maxpick /\ Used(heap) = MaxConn - maxpick + count
       /\ \/ /\ count = 0 /\ sent_list = heap.head["sent"]
             /\ curr \in On(heap, "tosend") \cup {NULL}
          \/ /\ count = 1 /\ sent_list \in On(heap, "sent") \cup {NULL}
             /\ curr \in From(heap, sent_list) \cup {NULL}

\* A pass that goes on at p has before it all of T.
Remaining(h, T, l, p) ==
  /\ p \in On(h, l) \cup {NULL}
  /\ T \subseteq On(h, l)
  /\ Behind(h, p, T)

\* The passes stand on their list, or on a node whose next is on it: one that
\* they have freed keeps its next until it is allocated again.
Passing ==
  /\ pc = "uploads" => Remaining(heap, todo, "uploading", curr)
  /\ pc = "next upload" =>
       curr \in Nodes /\ Remaining(heap, todo, "uploading", heap.next[curr])
  /\ pc = "downloads" => Remaining(heap, todo, "downloading", curr)
  /\ pc = "next download" =>
       curr \in Nodes /\ Remaining(heap, todo, "downloading", heap.next[curr])
  /\ pc \notin {"uploads", "next upload", "downloads", "next download"} => todo = {}

Inv == Linked(heap) /\ Types /\ Slots /\ Timing /\ Picks /\ Passing

LEMMA Names ==
  /\ "tosend" \in Lists /\ "sent" \in Lists /\ "downloading" \in Lists
  /\ "uploading" \in Lists /\ "uploaded" \in Lists
  BY PeerListsAssumption DEF DownLists, UpLists

LEMMA OnFinite ==
  ASSUME NEW h, Linked(h), NEW l \in Lists
  PROVE  IsFiniteSet(On(h, l)) /\ Cardinality(On(h, l)) \in Nat
<1>1. On(h, l) \subseteq Nodes
  BY LinkedFacts
<1> QED
  BY <1>1, NodesFinite, FS_Subset, FS_CardinalityType

LEMMA UsedNat == ASSUME NEW h, Linked(h) PROVE Used(h) \in Nat
<1>1. Cardinality(On(h, "sent")) \in Nat /\ Cardinality(On(h, "downloading")) \in Nat
  BY OnFinite, Names
<1> QED
  BY <1>1 DEF Used

\* The lists alone decide how many connections are in use.
LEMMA UsedSame ==
  ASSUME NEW h, NEW g, On(g, "sent") = On(h, "sent"), On(g, "downloading") = On(h, "downloading")
  PROVE  Used(g) = Used(h)
  BY DEF Used

\* One element less, one more.
LEMMA OneLess ==
  ASSUME NEW S, IsFiniteSet(S), NEW n \in S
  PROVE  Cardinality(S \ {n}) = Cardinality(S) - 1 /\ Cardinality(S) \in Nat
  BY FS_RemoveElement, FS_CardinalityType

LEMMA OneMore ==
  ASSUME NEW S, IsFiniteSet(S), NEW n, n \notin S
  PROVE  Cardinality(S \cup {n}) = Cardinality(S) + 1 /\ Cardinality(S) \in Nat
  BY FS_AddElement, FS_CardinalityType

-----------------------------------------------------------------------------
(* One datagram                                                            *)

LEMMA InitInv == ASSUME Init PROVE Inv
<1>1. Linked(heap) /\ \A l \in Lists : On(heap, l) = {}
  BY EmptyLinked DEF Init
<1>2. Used(heap) = 0
  BY <1>1, Names, FS_EmptySet DEF Used
<1>3. Types
  BY PeerListsAssumption DEF Init, Types, PCs, Pointers
<1> QED
  BY <1>1, <1>2, <1>3, PeerListsAssumption DEF Init, Inv, Slots, Timing, Picks, Passing

LEMMA StutterInv == ASSUME Inv, UNCHANGED vars PROVE Inv'
  BY DEF Inv, Types, Slots, Timing, Picks, Passing, vars

LEMMA IHaveInv == ASSUME Inv, NEW p \in Peers, IHave(p) PROVE Inv'
<1>1. Types'
  BY DEF Inv, Types, IHave, PCs, picking
<1> QED
  BY <1>1 DEF Inv, Slots, Timing, Picks, Passing, IHave, picking

LEMMA IHaveReadInv == ASSUME Inv, IHaveRead PROVE Inv'
<1>1. Types'
  BY DEF Inv, Types, IHaveRead, PCs, picking
<1> QED
  BY <1>1 DEF Inv, Slots, Timing, Picks, Passing, IHaveRead, picking

LEMMA OtherDatagramInv == ASSUME Inv, OtherDatagram PROVE Inv'
<1>1. Types'
  BY DEF Inv, Types, OtherDatagram, PCs, picking
<1> QED
  BY <1>1 DEF Inv, Slots, Timing, Picks, Passing, OtherDatagram, picking

LEMMA QueueNewInv == ASSUME Inv, NEW n \in Nodes, QueueNew(n) PROVE Inv'
<1>1. /\ Linked(heap') /\ On(heap', "sent") = On(heap, "sent")
      /\ On(heap', "downloading") = On(heap, "downloading")
  BY PutNew, Names DEF Inv, QueueNew
<1>2. Used(heap') = Used(heap)
  BY <1>1, UsedSame
<1>3. Types'
  BY DEF Inv, Types, QueueNew, picking
<1> QED
  BY <1>1, <1>2, <1>3 DEF Inv, Slots, Timing, Picks, Passing, QueueNew, picking

LEMMA QueueMovedInv ==
  ASSUME Inv, NEW old \in Nodes, NEW n \in Nodes, QueueMoved(old, n) PROVE Inv'
<1> DEFINE d == Delete(heap, "tosend", old)
<1>1. /\ Linked(d) /\ d.live = heap.live \ {old}
      /\ On(d, "sent") = On(heap, "sent") /\ On(d, "downloading") = On(heap, "downloading")
  BY TakeOff, Names DEF Inv, QueueMoved
<1>2. n \notin heap.live \ {old} /\ heap' = Append(Create(d, n), "tosend", n)
  BY DEF QueueMoved
<1> HIDE DEF d
<1>3. /\ Linked(heap') /\ On(heap', "sent") = On(heap, "sent")
      /\ On(heap', "downloading") = On(heap, "downloading")
  BY <1>1, <1>2, PutNew, Names
<1>4. Used(heap') = Used(heap)
  BY <1>3, UsedSame
<1>5. Types'
  BY DEF Inv, Types, QueueMoved, picking
<1> QED
  BY <1>3, <1>4, <1>5 DEF Inv, Slots, Timing, Picks, Passing, QueueMoved, picking

LEMMA ServeGetInv == ASSUME Inv, NEW n \in Nodes, ServeGet(n) PROVE Inv'
<1>1. /\ Linked(heap') /\ On(heap', "sent") = On(heap, "sent")
      /\ On(heap', "downloading") = On(heap, "downloading")
  BY PutNew, Names DEF Inv, ServeGet
<1>2. Used(heap') = Used(heap)
  BY <1>1, UsedSame
<1>3. Types'
  BY DEF Inv, Types, ServeGet, PCs, picking
<1> QED
  BY <1>1, <1>2, <1>3 DEF Inv, Slots, Timing, Picks, Passing, ServeGet, picking

LEMMA FirstDataInv == ASSUME Inv, NEW n \in Nodes, FirstData(n) PROVE Inv'
<1>1. /\ Linked(heap') /\ On(heap', "sent") = On(heap, "sent") \ {n}
      /\ On(heap', "downloading") = On(heap, "downloading") \cup {n}
  BY MoveOver, Names DEF Inv, FirstData
<1>2. Used(heap') = Used(heap)
  <2>1. IsFiniteSet(On(heap, "sent")) /\ IsFiniteSet(On(heap, "downloading"))
    BY OnFinite, Names DEF Inv
  <2>2. n \in On(heap, "sent") /\ n \notin On(heap, "downloading")
    <3>1. On(heap, "sent") \cap On(heap, "downloading") = {}
      BY LinkedFacts, Names DEF Inv
    <3> QED
      BY <3>1 DEF FirstData
  <2>3. /\ Cardinality(On(heap', "sent")) = Cardinality(On(heap, "sent")) - 1
        /\ Cardinality(On(heap', "downloading")) = Cardinality(On(heap, "downloading")) + 1
        /\ Cardinality(On(heap, "sent")) \in Nat /\ Cardinality(On(heap, "downloading")) \in Nat
    BY <1>1, <2>1, <2>2, OneLess, OneMore
  <2> QED
    BY <2>3 DEF Used
<1>3. Types'
  BY DEF Inv, Types, FirstData, PCs, picking
<1> QED
  BY <1>1, <1>2, <1>3 DEF Inv, Slots, Timing, Picks, Passing, FirstData, picking

-----------------------------------------------------------------------------
(* User input, check_timeout and pick_tosend_GET                           *)

LEMMA UserGetInv == ASSUME Inv, UserGet PROVE Inv'
<1> DEFINE a == Clear(heap, "tosend")
           b == Clear(a, "sent")
<1>1. Linked(a)
  BY ClearOne, Names DEF Inv
<1> HIDE DEF a
<1>2. Linked(b) /\ On(b, "sent") = {}
  BY <1>1, ClearOne, Names
<1>3. heap' = Clear(b, "downloading")
  BY DEF UserGet, a
<1> HIDE DEF b
<1>4. Linked(heap') /\ On(heap', "sent") = {} /\ On(heap', "downloading") = {}
  BY <1>2, <1>3, ClearOne, Names
<1>5. Used(heap') = 0
  BY <1>4, FS_EmptySet DEF Used
<1>6. Types'
  BY DEF Inv, Types, UserGet, PCs, Pointers, picking
<1> QED
  BY <1>4, <1>5, <1>6, PeerListsAssumption
     DEF Inv, Slots, Timing, Picks, Passing, UserGet, picking

LEMMA NoInputInv == ASSUME Inv, NoInput PROVE Inv'
<1>1. heap.head["sent"] \in On(heap, "sent") \cup {NULL} /\ On(heap, "sent") \subseteq Nodes
  BY LinkedFacts, Names DEF Inv
<1>2. Types'
  BY <1>1 DEF Inv, Types, NoInput, PCs, Pointers, picking
<1> QED
  BY <1>1, <1>2 DEF Inv, Slots, Timing, Picks, Passing, NoInput, picking

LEMMA DropGetInv == ASSUME Inv, DropGet PROVE Inv'
<1>1. curr \in On(heap, "sent")
  BY DEF Inv, Timing, DropGet
<1>2. /\ heap.next[curr] \in On(heap, "sent") \cup {NULL} /\ heap.next[curr] # curr
      /\ On(heap, "sent") \subseteq Nodes
  BY <1>1, LinkedFacts, Names DEF Inv
<1>3. /\ Linked(heap') /\ On(heap', "sent") = On(heap, "sent") \ {curr}
      /\ On(heap', "downloading") = On(heap, "downloading")
  BY <1>1, TakeOff, Names DEF Inv, DropGet
<1>4. Used(heap') = Used(heap) - 1
  <2>1. /\ Cardinality(On(heap', "sent")) = Cardinality(On(heap, "sent")) - 1
        /\ Cardinality(On(heap, "sent")) \in Nat /\ Cardinality(On(heap, "downloading")) \in Nat
    BY <1>1, <1>3, OneLess, OnFinite, Names DEF Inv
  <2> QED
    BY <2>1, <1>3 DEF Used
<1>5. Slots'
  <2>1. Used(heap) \in Nat /\ Used(heap) <= MaxConn
    BY UsedNat DEF Inv, Slots
  <2> QED
    BY <2>1, <1>4, PeerListsAssumption DEF Slots
<1>6. Types'
  BY <1>2 DEF Inv, Types, DropGet, Pointers, picking
<1>7. Timing'
  BY <1>2, <1>3 DEF Timing, DropGet
<1> QED
  BY <1>3, <1>5, <1>6, <1>7 DEF Inv, Picks, Passing, DropGet, picking

LEMMA KeepGetInv == ASSUME Inv, KeepGet PROVE Inv'
<1>1. curr \in On(heap, "sent")
  BY DEF Inv, Timing, KeepGet
<1>2. heap.next[curr] \in On(heap, "sent") \cup {NULL} /\ On(heap, "sent") \subseteq Nodes
  BY <1>1, LinkedFacts, Names DEF Inv
<1>3. Types'
  BY <1>2 DEF Inv, Types, KeepGet, Pointers, picking
<1> QED
  BY <1>2, <1>3 DEF Inv, Slots, Timing, Picks, Passing, KeepGet, picking

LEMMA BeginPickInv == ASSUME Inv, BeginPick PROVE Inv'
<1>1. /\ heap.head["tosend"] \in On(heap, "tosend") \cup {NULL}
      /\ On(heap, "tosend") \subseteq Nodes
      /\ heap.head["sent"] \in On(heap, "sent") \cup {NULL} /\ On(heap, "sent") \subseteq Nodes
  BY LinkedFacts, Names DEF Inv
<1>2. maxpick' = MaxConn - Used(heap)
  <2>1. Cardinality(On(heap, "sent")) \in Nat /\ Cardinality(On(heap, "downloading")) \in Nat
    BY OnFinite, Names DEF Inv
  <2>2. maxpick' = MaxConn - Cardinality(On(heap, "sent")) - Cardinality(On(heap, "downloading"))
    BY DEF BeginPick, MaxSend
  <2> QED
    BY <2>1, <2>2, PeerListsAssumption DEF Used
<1>3. Used(heap) \in Nat /\ Used(heap) <= MaxConn
  BY UsedNat DEF Inv, Slots
<1>4. maxpick' \in 0..MaxConn /\ 0 <= maxpick' /\ Used(heap) = MaxConn - maxpick' + 0
  BY <1>2, <1>3, PeerListsAssumption
<1>5. Types'
  <2>1. count' \in 0..MaxConn
    BY PeerListsAssumption DEF BeginPick
  <2>2. curr' \in Pointers /\ sent_list' \in Pointers
    BY <1>1 DEF BeginPick, Pointers
  <2>3. pc' = "gets" /\ UNCHANGED <<from, sender>>
    BY DEF BeginPick
  <2> QED
    BY <1>4, <2>1, <2>2, <2>3 DEF Inv, Types, PCs
<1>6. Picks'
  BY <1>1, <1>4 DEF Picks, BeginPick
<1> QED
  BY <1>5, <1>6 DEF Inv, Slots, Timing, Passing, BeginPick

\* The node is free only while no GET has been sent, and then it is on its list.
LEMMA PickFrom ==
  ASSUME Inv, Picking, PeerFree(curr)
  PROVE  curr \in On(heap, "tosend") /\ count = 0 /\ sent_list = heap.head["sent"]
<1>1. curr \notin From(heap, sent_list)
  BY DEF PeerFree, HasPeerFrom
<1> QED
  BY <1>1 DEF Inv, Picks, Picking

LEMMA PickGetInv == ASSUME Inv, PickGet PROVE Inv'
<1>1. /\ curr \in On(heap, "tosend") /\ count = 0 /\ sent_list = heap.head["sent"]
      /\ pc = "gets" /\ count < maxpick
  BY PickFrom DEF PickGet, Picking
<1>2. /\ heap' = Move(heap, "sent", "tosend", curr) /\ curr' = heap'.next[curr]
      /\ count' = 1 /\ pc' = "gets"
      /\ UNCHANGED <<from, sender, sent_list, maxpick, todo>>
  BY <1>1 DEF PickGet, Crashes, Onward
<1>3. /\ Linked(heap') /\ On(heap', "sent") = On(heap, "sent") \cup {curr}
      /\ On(heap', "downloading") = On(heap, "downloading")
      /\ heap'.next[curr] = heap.head["sent"]
  BY <1>1, <1>2, MoveOver, Names DEF Inv
<1>4. /\ heap.head["sent"] \in On(heap, "sent") \cup {NULL}
      /\ On(heap, "sent") \cap On(heap, "tosend") = {}
      /\ On(heap, "sent") \subseteq Nodes
  BY LinkedFacts, Names DEF Inv
<1>5. Used(heap') = Used(heap) + 1
  <2>1. /\ Cardinality(On(heap', "sent")) = Cardinality(On(heap, "sent")) + 1
        /\ Cardinality(On(heap, "sent")) \in Nat /\ Cardinality(On(heap, "downloading")) \in Nat
    BY <1>1, <1>3, <1>4, OneMore, OnFinite, Names DEF Inv
  <2> QED
    BY <2>1, <1>3 DEF Used
<1>6. /\ maxpick \in 0..MaxConn /\ Used(heap) = MaxConn - maxpick + 0
      /\ MaxConn \in Nat /\ 0 < maxpick
  BY <1>1, PeerListsAssumption DEF Inv, Types, Picks
<1>7. Slots' /\ Used(heap') = MaxConn - maxpick + 1 /\ 1 <= maxpick
  BY <1>5, <1>6 DEF Slots
<1>8. Types'
  <2>1. count' \in 0..MaxConn /\ maxpick' \in 0..MaxConn
    BY <1>2, <1>6
  <2>2. curr' \in Pointers
    BY <1>2, <1>3, <1>4 DEF Pointers
  <2> QED
    BY <1>2, <2>1, <2>2 DEF Inv, Types, PCs
<1>9. curr' \in From(heap', sent_list) \cup {NULL} /\ sent_list \in On(heap', "sent") \cup {NULL}
  <2>1. OnLists(heap') \in Members /\ \E r \in Ranks : Shape(heap', OnLists(heap'), r)
    BY <1>3, LinkedShape
  <2>2. PICK r \in Ranks : Shape(heap', OnLists(heap'), r)
    BY <2>1
  <2>3. Closed(heap', On(heap', "sent"), r) /\ On(heap', "sent") \in SUBSET Nodes
    BY <2>1, <2>2, Names DEF Shape, Chain, OnLists, Members
  <2>4. sent_list \in On(heap', "sent") \cup {NULL}
    BY <1>1, <1>3, <1>4
  <2>5. sent_list \in From(heap', sent_list) \cup {NULL}
    BY <2>3, <2>4, FromSteps
  <2> QED
    BY <1>1, <1>2, <1>3, <2>4, <2>5
<1>10. Picks'
  BY <1>2, <1>7, <1>9 DEF Picks
<1> QED
  BY <1>1, <1>2, <1>3, <1>7, <1>8, <1>10 DEF Inv, Timing, Passing

LEMMA SkipGetInv == ASSUME Inv, SkipGet PROVE Inv'
<1>1. curr # NULL /\ pc = "gets"
  BY DEF SkipGet, Picking
<1>2. CASE count = 0 /\ sent_list = heap.head["sent"] /\ curr \in On(heap, "tosend")
  <2>1. heap.next[curr] \in On(heap, "tosend") \cup {NULL} /\ On(heap, "tosend") \subseteq Nodes
    BY <1>2, LinkedFacts, Names DEF Inv
  <2>2. Types'
    BY <2>1 DEF Inv, Types, SkipGet, Pointers, picking
  <2>3. Picks'
    BY <1>2, <2>1 DEF Inv, Picks, SkipGet, picking
  <2> QED
    BY <1>1, <2>2, <2>3 DEF Inv, Slots, Timing, Passing, SkipGet, picking
<1>3. CASE /\ count = 1 /\ sent_list \in On(heap, "sent") \cup {NULL}
           /\ curr \in From(heap, sent_list)
  <2>1. OnLists(heap) \in Members /\ \E r \in Ranks : Shape(heap, OnLists(heap), r)
    BY LinkedShape DEF Inv
  <2>2. PICK r \in Ranks : Shape(heap, OnLists(heap), r)
    BY <2>1
  <2>3. Closed(heap, On(heap, "sent"), r) /\ On(heap, "sent") \in SUBSET Nodes
    BY <2>1, <2>2, Names DEF Shape, Chain, OnLists, Members
  <2>4. /\ From(heap, sent_list) \subseteq On(heap, "sent")
        /\ heap.next[curr] \in From(heap, sent_list) \cup {NULL}
    BY <1>3, <2>3, FromSteps
  <2>5. Types'
    BY <2>3, <2>4 DEF Inv, Types, SkipGet, Pointers, picking
  <2>6. Picks'
    BY <1>3, <2>4 DEF Inv, Picks, SkipGet, picking
  <2> QED
    BY <1>1, <2>5, <2>6 DEF Inv, Slots, Timing, Passing, SkipGet, picking
<1> QED
  BY <1>1, <1>2, <1>3 DEF Inv, Picks

LEMMA EndPickInv == ASSUME Inv, EndPick PROVE Inv'
<1>1. /\ heap.head["uploading"] \in On(heap, "uploading") \cup {NULL}
      /\ On(heap, "uploading") \subseteq Nodes
      /\ Behind(heap, heap.head["uploading"], On(heap, "uploading"))
  BY LinkedFacts, Names DEF Inv
<1>2. Types'
  BY <1>1, PeerListsAssumption DEF Inv, Types, EndPick, PCs, Pointers
<1>3. Passing'
  BY <1>1 DEF Passing, Remaining, EndPick
<1> QED
  BY <1>2, <1>3 DEF Inv, Slots, Timing, Picks, EndPick

-----------------------------------------------------------------------------
(* The passes                                                              *)

\* A node is behind the next of the node before it, wherever that one goes.
LEMMA BehindNext ==
  ASSUME NEW h, NEW g, NEW n, NEW T, Behind(h, n, T), n \in Nodes, T \subseteq Nodes,
         \A m \in T : h.next[m] # n /\ m # n => g.next[m] = h.next[m]
  PROVE  Behind(g, h.next[n], T \ {n})
<1> SUFFICES ASSUME NEW m \in T \ {n}, m # h.next[n]
             PROVE  \E j \in T \ {n} : g.next[j] = m
  BY DEF Behind
<1>1. PICK j \in T : h.next[j] = m
  BY DEF Behind
<1> QED
  BY <1>1

LEMMA KeepUploadInv == ASSUME Inv, KeepUpload PROVE Inv'
<1>1. /\ Remaining(heap, todo, "uploading", curr) /\ curr \in On(heap, "uploading")
  BY DEF Inv, Passing, KeepUpload, AtUpload, Remaining
<1>2. /\ On(heap, "uploading") \subseteq Nodes
      /\ heap.next[curr] \in On(heap, "uploading") \cup {NULL}
  BY <1>1, LinkedFacts, Names DEF Inv
<1>3. Behind(heap, heap.next[curr], todo \ {curr})
  BY <1>1, <1>2, BehindNext DEF Remaining
<1>4. Types'
  BY DEF Inv, Types, KeepUpload, PCs, picking
<1>5. Passing'
  BY <1>1, <1>2, <1>3 DEF Passing, Remaining, KeepUpload
<1> QED
  BY <1>4, <1>5 DEF Inv, Slots, Timing, Picks, KeepUpload, AtUpload, picking

LEMMA KeepDownloadInv == ASSUME Inv, KeepDownload PROVE Inv'
<1>1. /\ Remaining(heap, todo, "downloading", curr) /\ curr \in On(heap, "downloading")
  BY DEF Inv, Passing, KeepDownload, Remaining
<1>2. /\ On(heap, "downloading") \subseteq Nodes
      /\ heap.next[curr] \in On(heap, "downloading") \cup {NULL}
  BY <1>1, LinkedFacts, Names DEF Inv
<1>3. Behind(heap, heap.next[curr], todo \ {curr})
  BY <1>1, <1>2, BehindNext DEF Remaining
<1>4. Types'
  BY DEF Inv, Types, KeepDownload, PCs, picking
<1>5. Passing'
  BY <1>1, <1>2, <1>3 DEF Passing, Remaining, KeepDownload
<1> QED
  BY <1>4, <1>5 DEF Inv, Slots, Timing, Picks, KeepDownload, picking

\* Taking curr out of its list leaves the nodes behind it where they are.
LEMMA LeftBehind ==
  ASSUME NEW h, Linked(h), NEW g, NEW l \in Lists, NEW n \in On(h, l),
         NEW T, Remaining(h, T, l, n), On(g, l) = On(h, l) \ {n},
         \A m \in Nodes : m # n /\ h.next[m] # n => g.next[m] = h.next[m]
  PROVE  Remaining(g, T \ {n}, l, h.next[n])
<1>1. /\ On(h, l) \subseteq Nodes
      /\ h.next[n] \in On(h, l) \cup {NULL} /\ h.next[n] # n
  BY LinkedFacts
<1>2. T \subseteq Nodes /\ n \in Nodes
  BY <1>1 DEF Remaining
<1>3. Behind(g, h.next[n], T \ {n})
  <2>1. \A m \in T : h.next[m] # n /\ m # n => g.next[m] = h.next[m]
    BY <1>2
  <2> QED
    BY <1>2, <2>1, BehindNext DEF Remaining
<1> QED
  BY <1>1, <1>3 DEF Remaining

LEMMA FinishUploadInv == ASSUME Inv, FinishUpload PROVE Inv'
<1>1. /\ Remaining(heap, todo, "uploading", curr) /\ curr \in On(heap, "uploading")
      /\ pc = "uploads"
  BY DEF Inv, Passing, FinishUpload, AtUpload, Remaining
<1>2. /\ heap' = Move(heap, "uploaded", "uploading", curr) /\ curr' = heap.next[curr]
      /\ pc' = "uploads" /\ todo' = todo \ {curr}
      /\ UNCHANGED <<from, sender, sent_list, maxpick, count>>
  BY <1>1 DEF FinishUpload, TakeOut, Crashes, AfterFinish, picking
<1>3. /\ Linked(heap') /\ On(heap', "uploading") = On(heap, "uploading") \ {curr}
      /\ On(heap', "sent") = On(heap, "sent")
      /\ On(heap', "downloading") = On(heap, "downloading")
      /\ \A m \in Nodes : m # curr /\ heap.next[m] # curr => heap'.next[m] = heap.next[m]
  BY <1>1, <1>2, MoveOver, Names DEF Inv
<1>4. Remaining(heap', todo', "uploading", curr')
  BY <1>1, <1>2, <1>3, LeftBehind, Names DEF Inv
<1>5. Used(heap') = Used(heap)
  BY <1>3, UsedSame
<1>6. On(heap', "uploading") \subseteq Nodes
  BY <1>3, LinkedFacts, Names
<1>7. Types'
  BY <1>2, <1>4, <1>6 DEF Inv, Types, PCs, Pointers, Remaining
<1> QED
  BY <1>1, <1>2, <1>3, <1>4, <1>5, <1>7 DEF Inv, Slots, Timing, Picks, Passing

LEMMA AbortUploadInv == ASSUME Inv, AbortUpload PROVE Inv'
<1>1. /\ Remaining(heap, todo, "uploading", curr) /\ curr \in On(heap, "uploading")
      /\ pc = "uploads"
  BY DEF Inv, Passing, AbortUpload, AtUpload, Remaining
<1>2. /\ heap' = Delete(heap, "uploading", curr) /\ curr' = curr
      /\ pc' = "next upload" /\ todo' = todo \ {curr}
      /\ UNCHANGED <<from, sender, sent_list, maxpick, count>>
  BY <1>1 DEF AbortUpload, TakeOut, Crashes, picking
<1>3. /\ Linked(heap') /\ On(heap', "uploading") = On(heap, "uploading") \ {curr}
      /\ On(heap', "sent") = On(heap, "sent")
      /\ On(heap', "downloading") = On(heap, "downloading")
      /\ \A m \in Nodes : heap.next[m] # curr => heap'.next[m] = heap.next[m]
  <2>1. /\ Linked(heap) /\ "uploading" \in Lists /\ curr \in On(heap, "uploading")
        /\ heap' = Delete(heap, "uploading", curr)
    BY <1>1, <1>2, Names DEF Inv
  <2> QED
    BY <2>1, TakeOff, Names
<1>4. Remaining(heap', todo', "uploading", heap.next[curr])
  BY <1>1, <1>2, <1>3, LeftBehind, Names DEF Inv
<1>5. curr \in Nodes /\ heap'.next[curr'] = heap.next[curr]
  BY <1>1, <1>2, <1>3, LinkedFacts, Names DEF Inv
<1>6. Used(heap') = Used(heap)
  BY <1>3, UsedSame
<1>7. Types'
  BY <1>2 DEF Inv, Types, PCs
<1> QED
  BY <1>1, <1>2, <1>3, <1>4, <1>5, <1>6, <1>7 DEF Inv, Slots, Timing, Picks, Passing

LEMMA NextUploadInv == ASSUME Inv, NextUpload PROVE Inv'
<1>1. Remaining(heap, todo, "uploading", heap.next[curr])
  BY DEF Inv, Passing, NextUpload
<1>2. On(heap, "uploading") \subseteq Nodes
  BY LinkedFacts, Names DEF Inv
<1>3. Types'
  BY <1>1, <1>2 DEF Inv, Types, NextUpload, PCs, Pointers, Remaining, picking
<1> QED
  BY <1>1, <1>3 DEF Inv, Slots, Timing, Picks, Passing, NextUpload, picking

LEMMA EndUploadsInv == ASSUME Inv, EndUploads PROVE Inv'
<1>1. Remaining(heap, todo, "uploading", NULL)
  BY DEF Inv, Passing, EndUploads
<1>2. todo = {}
  BY <1>1, LinkedFacts, Names DEF Inv, Remaining
<1>3. /\ heap.head["downloading"] \in On(heap, "downloading") \cup {NULL}
      /\ On(heap, "downloading") \subseteq Nodes
      /\ Behind(heap, heap.head["downloading"], On(heap, "downloading"))
  BY LinkedFacts, Names DEF Inv
<1>4. Types'
  BY <1>3 DEF Inv, Types, EndUploads, PCs, Pointers, picking
<1>5. Passing'
  BY <1>2, <1>3 DEF Passing, Remaining, EndUploads
<1> QED
  BY <1>4, <1>5 DEF Inv, Slots, Timing, Picks, EndUploads, picking

LEMMA EndDownloadInv == ASSUME Inv, EndDownload PROVE Inv'
<1>1. /\ Remaining(heap, todo, "downloading", curr) /\ curr \in On(heap, "downloading")
      /\ pc = "downloads"
  BY DEF Inv, Passing, EndDownload, Remaining
<1>2. /\ heap' = Delete(heap, "downloading", curr) /\ curr' = curr
      /\ pc' = "next download" /\ todo' = todo \ {curr}
      /\ UNCHANGED <<from, sender, sent_list, maxpick, count>>
  BY DEF EndDownload, picking
<1>3. /\ Linked(heap') /\ On(heap', "downloading") = On(heap, "downloading") \ {curr}
      /\ On(heap', "sent") = On(heap, "sent")
      /\ \A m \in Nodes : heap.next[m] # curr => heap'.next[m] = heap.next[m]
  <2>1. /\ Linked(heap) /\ "downloading" \in Lists /\ curr \in On(heap, "downloading")
        /\ heap' = Delete(heap, "downloading", curr)
    BY <1>1, <1>2, Names DEF Inv
  <2> QED
    BY <2>1, TakeOff, Names
<1>4. Remaining(heap', todo', "downloading", heap.next[curr])
  BY <1>1, <1>2, <1>3, LeftBehind, Names DEF Inv
<1>5. curr \in Nodes /\ heap'.next[curr'] = heap.next[curr]
  BY <1>1, <1>2, <1>3, LinkedFacts, Names DEF Inv
<1>6. Used(heap') = Used(heap) - 1
  <2>1. /\ Cardinality(On(heap', "downloading")) = Cardinality(On(heap, "downloading")) - 1
        /\ Cardinality(On(heap, "downloading")) \in Nat /\ Cardinality(On(heap, "sent")) \in Nat
    BY <1>1, <1>3, OneLess, OnFinite, Names DEF Inv
  <2> QED
    BY <2>1, <1>3 DEF Used
<1>7. Slots'
  <2>1. Used(heap) \in Nat /\ Used(heap) <= MaxConn
    BY UsedNat DEF Inv, Slots
  <2> QED
    BY <2>1, <1>6, PeerListsAssumption DEF Slots
<1>8. Types'
  BY <1>2 DEF Inv, Types, PCs
<1> QED
  BY <1>1, <1>2, <1>3, <1>4, <1>5, <1>7, <1>8 DEF Inv, Timing, Picks, Passing

LEMMA NextDownloadInv == ASSUME Inv, NextDownload PROVE Inv'
<1>1. Remaining(heap, todo, "downloading", heap.next[curr])
  BY DEF Inv, Passing, NextDownload
<1>2. On(heap, "downloading") \subseteq Nodes
  BY LinkedFacts, Names DEF Inv
<1>3. Types'
  BY <1>1, <1>2 DEF Inv, Types, NextDownload, PCs, Pointers, Remaining, picking
<1> QED
  BY <1>1, <1>3 DEF Inv, Slots, Timing, Picks, Passing, NextDownload, picking

LEMMA EndDownloadsInv == ASSUME Inv, EndDownloads PROVE Inv'
<1>1. Remaining(heap, todo, "downloading", NULL)
  BY DEF Inv, Passing, EndDownloads
<1>2. todo = {}
  BY <1>1, LinkedFacts, Names DEF Inv, Remaining
<1>3. Types'
  BY DEF Inv, Types, EndDownloads, PCs, picking
<1> QED
  BY <1>2, <1>3 DEF Inv, Slots, Timing, Picks, Passing, EndDownloads, picking

-----------------------------------------------------------------------------
(* The theorems                                                            *)

LEMMA NextInv == ASSUME Inv, Next PROVE Inv'
<1>1. CASE \E p \in Peers : IHave(p)
  BY <1>1, IHaveInv
<1>2. CASE \E n \in Nodes : QueueNew(n)
  BY <1>2, QueueNewInv
<1>3. CASE \E n \in Nodes : FirstData(n)
  BY <1>3, FirstDataInv
<1>4. CASE \E n \in Nodes : ServeGet(n)
  BY <1>4, ServeGetInv
<1>5. CASE \E old, n \in Nodes : QueueMoved(old, n)
  BY <1>5, QueueMovedInv
<1>6. CASE IHaveRead \/ OtherDatagram
  BY <1>6, IHaveReadInv, OtherDatagramInv
<1>7. CASE UserGet \/ NoInput
  BY <1>7, UserGetInv, NoInputInv
<1>8. CASE DropGet \/ KeepGet \/ BeginPick
  BY <1>8, DropGetInv, KeepGetInv, BeginPickInv
<1>9. CASE PickGet \/ SkipGet \/ EndPick
  BY <1>9, PickGetInv, SkipGetInv, EndPickInv
<1>10. CASE FinishUpload \/ AbortUpload \/ KeepUpload \/ NextUpload \/ EndUploads
  BY <1>10, FinishUploadInv, AbortUploadInv, KeepUploadInv, NextUploadInv, EndUploadsInv
<1>11. CASE EndDownload \/ KeepDownload \/ NextDownload \/ EndDownloads
  BY <1>11, EndDownloadInv, KeepDownloadInv, NextDownloadInv, EndDownloadsInv
<1> QED
  BY <1>1, <1>2, <1>3, <1>4, <1>5, <1>6, <1>7, <1>8, <1>9, <1>10, <1>11 DEF Next

\* Every step of every loop of peer_run keeps the lists linked and what the loops
\* know of them true.
THEOREM Invariance == Spec => []Inv
<1>1. Inv /\ [Next]_vars => Inv'
  BY NextInv, StutterInv
<1> QED
  BY <1>1, InitInv, PTL DEF Spec

\* Every variable stays in its range: a pass that is cut short would leave nodes
\* in todo that are on no list, a dangling pointer one that is no address.
THEOREM TypeCorrect == Spec => []TypeOK
<1>1. Inv => TypeOK
  <2> SUFFICES ASSUME Inv PROVE TypeOK
    OBVIOUS
  <2>1. heap \in Heaps
    BY LinkedShape DEF Inv
  <2>2. todo \subseteq On(heap, "uploading") \cup On(heap, "downloading")
    BY DEF Inv, Passing, Remaining
  <2> QED
    BY <2>1, <2>2 DEF Inv, Types, TypeOK
<1> QED
  BY <1>1, Invariance, PTL

\* For any number of nodes, peers and connections, the loops of peer_run keep the
\* five lists whole while they move and free the nodes they stand on: each list
\* ends, no two share a node, and the nodes allocated are those on a list.
THEOREM ListsStaySound == Spec => []ListsSound
<1>1. Inv => ListsSound
  BY LinkedShape DEF Inv, ListsSound
<1> QED
  BY <1>1, Invariance, PTL

\* No node is ever taken out of a list it is not on, which would follow NULL.
THEOREM NeverCrashes == Spec => []NoCrash
<1>1. Inv => NoCrash
  BY DEF Inv, Types, NoCrash
<1> QED
  BY <1>1, Invariance, PTL

\* pick_tosend_GET follows the node it has moved into get_sent_list and finds no
\* free peer there: it sends one GET, however many it might.
THEOREM OneGetOnly == Spec => []OneGetPerPass
<1>1. Inv => OneGetPerPass
  BY DEF Inv, Picks, OneGetPerPass
<1> QED
  BY <1>1, Invariance, PTL

\* A pass that reads the next of nodes it has moved or freed still reaches every
\* upload and every download.
THEOREM PassesReachAll == Spec => []PassesComplete
<1>1. Inv => PassesComplete
  BY DEF Inv, Passing, PassesComplete
<1> QED
  BY <1>1, Invariance, PTL
=============================================================================
