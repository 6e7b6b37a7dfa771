-------------------------- MODULE TimersLinkedProofs --------------------------
(***************************************************************************)
(* timer.lua with its doubly linked lists implements Timers, whose lists   *)
(* are sequences, and keeps its links sound: for every set of timers and   *)
(* idlers, every set of durations and every bound.                         *)
(*                                                                         *)
(* The invariant LInv says what the links are worth.  Every list in use is *)
(* a Ring: from the list object along _idlePrev one meets the items, each  *)
(* once, and comes back, and along _idleNext the same way in reverse.  The *)
(* items of the ring are exactly those in a list with its duration; an     *)
(* item in no list is linked to itself or not at all (Linkage).  The list  *)
(* object of a duration was made for it and is open, and the one that      *)
(* expiration walks is in use or closed (Objects).                         *)
(*                                                                         *)
(* A ring determines its items (WalkUnique), so ItemsOf, which the         *)
(* refinement mapping takes the sequences from, is the ring (ItemsOfRing). *)
(* What remove, append and init do to the rings is then what Unlink and    *)
(* Append do to the sequences (RemoveRing, LinkRing; RemoveItem and        *)
(* AppendItem for all the lists at once), and one lemma per action shows   *)
(* that it keeps LInv and is an action of Timers or none.                  *)
(*                                                                         *)
(* Induction over the places of a ring is by the least place at which a    *)
(* claim fails (LeastNat).                                                 *)
(***************************************************************************)
EXTENDS TimersLinked, FiniteSetTheorems, NaturalsInduction, WellFoundedInduction,
        SequenceTheorems, TLAPS

\* The links k make a ring of the list object l and the items s, in both
\* directions.
Ring(k, l, s) ==
  /\ s \in Seq(Items)
  /\ \A i, j \in DOMAIN s : s[i] = s[j] => i = j
  /\ \A j \in 0..Len(s) : /\ k.prev[Place(l, s, j)] = Place(l, s, j + 1)
                          /\ k.next[Place(l, s, j + 1)] = Place(l, s, j)

AllLinks == [next : [Nodes -> Nodes \cup {None}], prev : [Nodes -> Nodes \cup {None}]]

-----------------------------------------------------------------------------
\* A set of naturals that is not empty has a least member.
LEMMA LeastNat ==
  ASSUME NEW T \in SUBSET Nat, T # {}
  PROVE  \E n \in T : \A m \in T : n <= m
<1> DEFINE R == OpToRel(<, Nat)
<1>1. IsWellFoundedOn(R, Nat)
  BY NatLessThanWellFounded, Zenon
<1>2. \A x, y \in Nat : <<y, x>> \in R <=> y < x
  BY DEF OpToRel
<1> HIDE DEF R
<1>3. PICK x \in T : \A y \in T : ~(<<y, x>> \in R)
  BY <1>1, WFMin
<1>4. \A y \in T : x <= y
  <2> TAKE y \in T
  <2>1. ~(y < x)
    BY <1>2, <1>3, Zenon
  <2> QED BY <2>1
<1> QED BY <1>4

\* The places of a ring.
LEMMA Places ==
  ASSUME NEW l, NEW s \in Seq(Items)
  PROVE  /\ Len(s) \in Nat /\ DOMAIN s = 1..Len(s)
         /\ Place(l, s, 0) = l /\ Place(l, s, Len(s) + 1) = l
         /\ \A j \in 1..Len(s) : Place(l, s, j) = s[j] /\ s[j] \in Items
<1>1. Len(s) \in Nat /\ DOMAIN s = 1..Len(s) /\ \A j \in 1..Len(s) : s[j] \in Items
  OBVIOUS
<1>2. 0 \notin 1..Len(s) /\ Len(s) + 1 \notin 1..Len(s)
  BY <1>1
<1> QED BY <1>1, <1>2 DEF Place

\* Two walks from l along _idlePrev see the same items.
LEMMA WalkUnique ==
  ASSUME NEW p, NEW l \in Lists, NEW s \in Seq(Items), NEW t \in Seq(Items),
         \A j \in 0..Len(s) : p[Place(l, s, j)] = Place(l, s, j + 1),
         \A j \in 0..Len(t) : p[Place(l, t, j)] = Place(l, t, j + 1)
  PROVE  s = t
<1>1. /\ Len(s) \in Nat /\ DOMAIN s = 1..Len(s)
      /\ Place(l, s, 0) = l /\ Place(l, s, Len(s) + 1) = l
      /\ \A j \in 1..Len(s) : Place(l, s, j) = s[j] /\ s[j] \in Items
  BY Places
<1>2. /\ Len(t) \in Nat /\ DOMAIN t = 1..Len(t)
      /\ Place(l, t, 0) = l /\ Place(l, t, Len(t) + 1) = l
      /\ \A j \in 1..Len(t) : Place(l, t, j) = t[j] /\ t[j] \in Items
  BY Places
<1>3. l \notin Items
  BY LinkedAssumption
<1> DEFINE Differ == {j \in Nat : j <= Len(s) + 1 /\ j <= Len(t) + 1 /\ Place(l, s, j) # Place(l, t, j)}
<1>4. Differ = {}
  <2> SUFFICES ASSUME Differ # {} PROVE FALSE
    OBVIOUS
  <2>1. PICK n \in Differ : \A j \in Differ : n <= j
    BY LeastNat
  <2>2. n \in Nat /\ n # 0 /\ n - 1 \in Nat /\ n - 1 <= Len(s) /\ n - 1 <= Len(t) /\ (n - 1) + 1 = n
    BY <1>1, <1>2
  <2>3. n - 1 \notin Differ
    BY <2>1, <2>2
  <2>4. Place(l, s, n - 1) = Place(l, t, n - 1)
    BY <1>1, <1>2, <2>2, <2>3
  <2>5. n - 1 \in 0..Len(s) /\ n - 1 \in 0..Len(t)
    BY <1>1, <1>2, <2>2
  <2>6. /\ p[Place(l, s, n - 1)] = Place(l, s, (n - 1) + 1)
        /\ p[Place(l, t, n - 1)] = Place(l, t, (n - 1) + 1)
    BY <2>5
  <2>7. Place(l, s, n) = Place(l, t, n)
    BY <2>2, <2>4, <2>6
  <2> QED BY <2>1, <2>7
<1>5. \A j \in Nat : j <= Len(s) + 1 /\ j <= Len(t) + 1 => Place(l, s, j) = Place(l, t, j)
  BY <1>4
<1> HIDE DEF Differ
<1>6. Len(s) = Len(t)
  <2>1. CASE Len(s) < Len(t)
    <3>1. Len(s) + 1 \in 1..Len(t) /\ Len(s) + 1 \in Nat
      BY <1>1, <1>2, <2>1
    <3>2. Place(l, s, Len(s) + 1) = t[Len(s) + 1]
      BY <1>1, <1>2, <1>5, <2>1, <3>1
    <3> QED BY <1>1, <1>2, <1>3, <3>1, <3>2
  <2>2. CASE Len(t) < Len(s)
    <3>1. Len(t) + 1 \in 1..Len(s) /\ Len(t) + 1 \in Nat
      BY <1>1, <1>2, <2>2
    <3>2. Place(l, t, Len(t) + 1) = s[Len(t) + 1]
      BY <1>1, <1>2, <1>5, <2>2, <3>1
    <3> QED BY <1>1, <1>2, <1>3, <3>1, <3>2
  <2>3. Len(s) \in Nat /\ Len(t) \in Nat
    BY <1>1, <1>2
  <2> QED BY <2>1, <2>2, <2>3
<1>7. \A j \in 1..Len(s) : s[j] = t[j]
  BY <1>1, <1>2, <1>5, <1>6
<1> QED BY <1>1, <1>2, <1>6, <1>7

\* A ring has no more items than there are, and ItemsOf finds them.
LEMMA ItemsOfRing ==
  ASSUME NEW k, NEW l \in Lists, NEW s, Ring(k, l, s)
  PROVE  ItemsOf(k, l) = s
<1> DEFINE Is(q) == \A j \in 0..Len(q) : k.prev[Place(l, q, j)] = Place(l, q, j + 1)
<1>1. /\ s \in Seq(Items) /\ Len(s) \in Nat /\ DOMAIN s = 1..Len(s) /\ Is(s)
      /\ \A i, j \in DOMAIN s : s[i] = s[j] => i = j
  BY DEF Ring
<1>2. IsFiniteSet(Items) /\ Cardinality(Items) \in Nat
  BY LinkedAssumption, FS_CardinalityType
<1>3. Len(s) <= Cardinality(Items)
  <2> SUFFICES ASSUME Cardinality(Items) < Len(s) PROVE FALSE
    BY <1>1, <1>2
  <2>1. IsFiniteSet(1..Len(s)) /\ Cardinality(1..Len(s)) = Len(s)
    <3>1. 1 \in Int /\ Len(s) \in Int
      BY <1>1
    <3>2. IsFiniteSet(1..Len(s)) /\ Cardinality(1..Len(s)) = IF 1 > Len(s) THEN 0 ELSE Len(s) - 1 + 1
      BY <3>1, FS_Interval, Zenon
    <3> QED BY <1>1, <3>2
  <2>2. s \in [1..Len(s) -> Items]
    BY <1>1
  <2>3. \E i, j \in 1..Len(s) : i # j /\ s[i] = s[j]
    BY <1>2, <2>1, <2>2, FS_PigeonHole
  <2> QED BY <1>1, <2>3
<1>4. s \in SeqOf(Items, Cardinality(Items))
  <2>1. Len(s) \in 0..Cardinality(Items) /\ s \in [1..Len(s) -> Items]
    BY <1>1, <1>2, <1>3
  <2> QED BY <2>1, Zenon DEF SeqOf
<1>5. \A q \in SeqOf(Items, Cardinality(Items)) : q \in Seq(Items)
  BY <1>2 DEF SeqOf
<1>6. \A q \in SeqOf(Items, Cardinality(Items)) : Is(q) => q = s
  <2> TAKE q \in SeqOf(Items, Cardinality(Items))
  <2> HAVE Is(q)
  <2>1. /\ q \in Seq(Items) /\ s \in Seq(Items)
        /\ \A j \in 0..Len(s) : k.prev[Place(l, s, j)] = Place(l, s, j + 1)
        /\ \A j \in 0..Len(q) : k.prev[Place(l, q, j)] = Place(l, q, j + 1)
    BY <1>1, <1>5
  <2>2. PICK p : p = k.prev
    OBVIOUS
  <2>3. s = q
    BY <2>1, <2>2, WalkUnique
  <2> QED BY <2>3
<1>7. ItemsOf(k, l) = CHOOSE q \in SeqOf(Items, Cardinality(Items)) : Is(q)
  BY DEF ItemsOf
<1> HIDE DEF Is
<1> QED BY <1>1, <1>4, <1>6, <1>7

-----------------------------------------------------------------------------
\* The items of a ring are distinct, and so are its places but for the two ends.
LEMMA PlacesDiffer ==
  ASSUME NEW k, NEW l \in Lists, NEW s, Ring(k, l, s)
  PROVE  /\ \A i, j \in 0..Len(s) : Place(l, s, i) = Place(l, s, j) => i = j
         /\ \A i, j \in 1..(Len(s) + 1) : Place(l, s, i) = Place(l, s, j) => i = j
         /\ \A i \in 0..(Len(s) + 1) : Place(l, s, i) \in ToSet(s) \cup {l} /\ Place(l, s, i) \in Nodes
<1>1. s \in Seq(Items) /\ \A i, j \in DOMAIN s : s[i] = s[j] => i = j
  BY DEF Ring
<1>2. /\ Len(s) \in Nat /\ DOMAIN s = 1..Len(s)
      /\ Place(l, s, 0) = l /\ Place(l, s, Len(s) + 1) = l
      /\ \A j \in 1..Len(s) : Place(l, s, j) = s[j] /\ s[j] \in Items
  <2>1. s \in Seq(Items)
    BY <1>1
  <2> QED BY <2>1, Places
<1>3. l \notin Items
  BY LinkedAssumption
<1>4. \A i \in 0..Len(s) : i = 0 \/ i \in 1..Len(s)
  BY <1>2
<1>5. \A i \in 1..(Len(s) + 1) : i = Len(s) + 1 \/ i \in 1..Len(s)
  BY <1>2
<1>6. \A i, j \in 0..Len(s) : Place(l, s, i) = Place(l, s, j) => i = j
  BY <1>1, <1>2, <1>3, <1>4
<1>7. \A i, j \in 1..(Len(s) + 1) : Place(l, s, i) = Place(l, s, j) => i = j
  BY <1>1, <1>2, <1>3, <1>5
<1>8. \A i \in 0..(Len(s) + 1) : Place(l, s, i) \in ToSet(s) \cup {l} /\ Place(l, s, i) \in Nodes
  <2> TAKE i \in 0..(Len(s) + 1)
  <2>1. i \in 1..Len(s) \/ i = 0 \/ i = Len(s) + 1
    BY <1>2
  <2>2. CASE i \in 1..Len(s)
    BY <1>2, <2>2 DEF ToSet, Nodes
  <2>3. CASE i \notin 1..Len(s)
    BY <1>2, <2>1, <2>3 DEF Nodes
  <2> QED BY <2>2, <2>3
<1> QED BY <1>6, <1>7, <1>8

\* The neighbours of a member are members, and know it.
Neighbours(k, l, s) ==
  \A i \in ToSet(s) \cup {l} :
    /\ k.next[i] \in ToSet(s) \cup {l} /\ k.prev[i] \in ToSet(s) \cup {l}
    /\ k.prev[k.next[i]] = i /\ k.next[k.prev[i]] = i

\* What a ring says of its members.
LEMMA RingMembers ==
  ASSUME NEW k, NEW l \in Lists, NEW s, Ring(k, l, s)
  PROVE  /\ \A i \in ToSet(s) : i \in Items /\ k.next[i] \notin {None, i}
         /\ isEmpty(k, l) <=> s = <<>>
         /\ peek(k, l) = IF s = <<>> THEN None ELSE Head(s)
         /\ k.next[l] # None
         /\ Neighbours(k, l, s)
<1>1. /\ s \in Seq(Items)
      /\ \A j \in 0..Len(s) : /\ k.prev[Place(l, s, j)] = Place(l, s, j + 1)
                              /\ k.next[Place(l, s, j + 1)] = Place(l, s, j)
  BY DEF Ring
<1>2. /\ Len(s) \in Nat /\ DOMAIN s = 1..Len(s)
      /\ Place(l, s, 0) = l /\ Place(l, s, Len(s) + 1) = l
      /\ \A j \in 1..Len(s) : Place(l, s, j) = s[j] /\ s[j] \in Items
  <2>1. s \in Seq(Items)
    BY <1>1
  <2> QED BY <2>1, Places
<1>3. l \notin Items /\ None \notin Nodes /\ Items \subseteq Nodes /\ l \in Nodes
  BY LinkedAssumption DEF Nodes
<1>4. /\ \A i, j \in 0..Len(s) : Place(l, s, i) = Place(l, s, j) => i = j
      /\ \A i, j \in 1..(Len(s) + 1) : Place(l, s, i) = Place(l, s, j) => i = j
      /\ \A i \in 0..(Len(s) + 1) : Place(l, s, i) \in ToSet(s) \cup {l} /\ Place(l, s, i) \in Nodes
  BY PlacesDiffer
<1>5. ASSUME NEW j \in 0..Len(s)
      PROVE  LET i == Place(l, s, j) IN
             /\ k.prev[i] = Place(l, s, j + 1) /\ k.next[k.prev[i]] = i
             /\ k.prev[i] \in ToSet(s) \cup {l}
  <2>1. j + 1 \in 0..(Len(s) + 1)
    BY <1>2
  <2> QED BY <1>1, <1>4, <2>1
<1>6. ASSUME NEW j \in 1..(Len(s) + 1)
      PROVE  LET i == Place(l, s, j) IN
             /\ k.next[i] = Place(l, s, j - 1) /\ k.prev[k.next[i]] = i
             /\ k.next[i] \in ToSet(s) \cup {l} /\ k.next[i] \in Nodes
  <2>1. j - 1 \in 0..Len(s) /\ j - 1 \in 0..(Len(s) + 1) /\ (j - 1) + 1 = j
    BY <1>2
  <2>2. /\ k.prev[Place(l, s, j - 1)] = Place(l, s, (j - 1) + 1)
        /\ k.next[Place(l, s, (j - 1) + 1)] = Place(l, s, j - 1)
    BY <1>1, <2>1
  <2> QED BY <1>4, <2>1, <2>2
<1>7. \A i \in ToSet(s) : \E j \in 1..Len(s) : i = Place(l, s, j)
  BY <1>2 DEF ToSet
<1>8. ASSUME NEW i \in ToSet(s) \cup {l}
      PROVE  /\ k.next[i] \in ToSet(s) \cup {l} /\ k.prev[i] \in ToSet(s) \cup {l}
             /\ k.prev[k.next[i]] = i /\ k.next[k.prev[i]] = i
  <2>1. PICK j \in 0..Len(s) : i = Place(l, s, j)
    BY <1>2, <1>7
  <2>2. PICK h \in 1..(Len(s) + 1) : i = Place(l, s, h)
    BY <1>2, <1>7
  <2>3. /\ k.next[k.prev[i]] = i /\ k.prev[i] \in ToSet(s) \cup {l}
    BY <1>5, <2>1
  <2>4. k.prev[k.next[i]] = i /\ k.next[i] \in ToSet(s) \cup {l}
    BY <1>6, <2>2
  <2> QED BY <2>3, <2>4
<1>9. ASSUME NEW i \in ToSet(s) PROVE i \in Items /\ k.next[i] \notin {None, i}
  <2>1. PICK j \in 1..Len(s) : i = Place(l, s, j)
    BY <1>7
  <2>2. j \in 1..(Len(s) + 1) /\ j - 1 \in 0..Len(s) /\ j \in 0..Len(s) /\ j - 1 # j
    BY <1>2
  <2>3. k.next[i] = Place(l, s, j - 1) /\ k.next[i] \in Nodes
    BY <1>6, <2>1, <2>2
  <2>4. Place(l, s, j - 1) # Place(l, s, j)
    BY <1>4, <2>2
  <2> QED BY <1>2, <1>3, <2>1, <2>3, <2>4
<1>10. /\ k.next[l] = Place(l, s, Len(s)) /\ k.next[l] # None
       /\ k.prev[l] = Place(l, s, 1)
  <2>1. Len(s) + 1 \in 1..(Len(s) + 1) /\ 0 \in 0..Len(s) /\ (Len(s) + 1) - 1 = Len(s) /\ 0 + 1 = 1
    BY <1>2
  <2>2. k.next[l] = Place(l, s, (Len(s) + 1) - 1) /\ k.next[l] \in Nodes
    BY <1>2, <1>6, <2>1
  <2>3. k.prev[l] = Place(l, s, 0 + 1)
    BY <1>2, <1>5, <2>1
  <2> QED BY <1>3, <2>1, <2>2, <2>3
<1>11. Neighbours(k, l, s)
  BY <1>8 DEF Neighbours
<1>12. CASE s = <<>>
  <2>1. Len(s) = 0
    BY <1>12
  <2>2. k.next[l] = l /\ k.prev[l] = l
    BY <1>2, <1>10, <2>1
  <2> QED BY <1>9, <1>10, <1>12, <1>11, <2>2 DEF isEmpty, peek
<1>13. CASE s # <<>>
  <2>1. 1 \in 1..Len(s) /\ Len(s) \in 1..Len(s) /\ Head(s) = s[1]
    BY <1>1, <1>13
  <2>2. k.next[l] \in Items /\ k.prev[l] = Head(s) /\ k.prev[l] \in Items
    BY <1>2, <1>10, <2>1
  <2> QED BY <1>3, <1>9, <1>10, <1>13, <1>11, <2>2 DEF isEmpty, peek
<1> QED BY <1>12, <1>13

\* A ring stays one when nothing of it changes.
LEMMA RingFrame ==
  ASSUME NEW k, NEW h, NEW l \in Lists, NEW s, Ring(k, l, s),
         \A y \in ToSet(s) \cup {l} : h.next[y] = k.next[y] /\ h.prev[y] = k.prev[y]
  PROVE  Ring(h, l, s)
<1>1. s \in Seq(Items) /\ Len(s) \in Nat
  BY DEF Ring
<1>2. ASSUME NEW j \in 0..Len(s)
      PROVE  /\ h.prev[Place(l, s, j)] = Place(l, s, j + 1)
             /\ h.next[Place(l, s, j + 1)] = Place(l, s, j)
  <2>1. j \in 0..(Len(s) + 1) /\ j + 1 \in 0..(Len(s) + 1)
    BY <1>1
  <2>2. Place(l, s, j) \in ToSet(s) \cup {l} /\ Place(l, s, j + 1) \in ToSet(s) \cup {l}
    BY <2>1, PlacesDiffer
  <2> QED BY <2>2 DEF Ring
<1> QED BY <1>2 DEF Ring

\* A list object that was initialised is a ring without items.
LEMMA InitRing ==
  ASSUME NEW k \in AllLinks, NEW x \in Nodes
  PROVE  /\ init(k, x) \in AllLinks /\ init(k, x).next[x] = x /\ init(k, x).prev[x] = x
         /\ \A y \in Nodes : y # x => init(k, x).next[y] = k.next[y] /\ init(k, x).prev[y] = k.prev[y]
         /\ Ring(init(k, x), x, <<>>)
<1>1. k.next \in [Nodes -> Nodes \cup {None}] /\ k.prev \in [Nodes -> Nodes \cup {None}]
  BY DEF AllLinks
<1>2. init(k, x).next = [k.next EXCEPT ![x] = x] /\ init(k, x).prev = [k.prev EXCEPT ![x] = x]
  BY DEF init
<1>3. init(k, x) \in AllLinks
  BY <1>1 DEF init, AllLinks
<1>4. Ring(init(k, x), x, <<>>)
  BY <1>1, <1>2 DEF Ring, Place
<1> QED BY <1>1, <1>2, <1>3, <1>4

\* remove of an item in no list: an item that is linked to itself, or not at all.
LEMMA RemoveLoose ==
  ASSUME NEW k \in AllLinks, NEW x \in Nodes, k.next[x] \in {None, x}, k.prev[x] = k.next[x]
  PROVE  LET r == remove(k, x) IN
         /\ r \in AllLinks /\ r.next[x] = None /\ r.prev[x] = None
         /\ \A y \in Nodes : y # x => r.next[y] = k.next[y] /\ r.prev[y] = k.prev[y]
<1>1. k.next \in [Nodes -> Nodes \cup {None}] /\ k.prev \in [Nodes -> Nodes \cup {None}]
  BY DEF AllLinks
<1>2. None \notin Nodes
  BY LinkedAssumption
<1>3. CASE k.next[x] = None
  <2>1. remove(k, x) = [next |-> [k.next EXCEPT ![x] = None], prev |-> [k.prev EXCEPT ![x] = None]]
    BY <1>3 DEF remove
  <2> QED BY <1>1, <2>1 DEF AllLinks
<1>4. CASE k.next[x] = x
  <2> DEFINE p1 == [k.prev EXCEPT ![x] = x]
             n1 == [k.next EXCEPT ![x] = x]
  <2>1. p1[x] = x /\ x # None
    BY <1>1, <1>2
  <2>2. remove(k, x) = [next |-> [n1 EXCEPT ![x] = None], prev |-> [p1 EXCEPT ![x] = None]]
    BY <1>4, <2>1 DEF remove
  <2> QED BY <1>1, <2>2 DEF AllLinks
<1> QED BY <1>3, <1>4

\* remove of an item in a ring: its neighbours are linked to each other.
LEMMA RemoveBetween ==
  ASSUME NEW k \in AllLinks, NEW x \in Nodes, NEW a \in Nodes, NEW b \in Nodes,
         k.next[x] = a, k.prev[x] = b, a # x, b # x
  PROVE  LET r == remove(k, x) IN
         /\ r \in AllLinks /\ r.next[x] = None /\ r.prev[x] = None
         /\ r.prev[a] = b /\ r.next[b] = a
         /\ \A y \in Nodes : y # x /\ y # a => r.prev[y] = k.prev[y]
         /\ \A y \in Nodes : y # x /\ y # b => r.next[y] = k.next[y]
<1>1. k.next \in [Nodes -> Nodes \cup {None}] /\ k.prev \in [Nodes -> Nodes \cup {None}]
  BY DEF AllLinks
<1>2. a # None /\ b # None
  BY LinkedAssumption
<1> DEFINE p1 == [k.prev EXCEPT ![a] = b]
           n1 == [k.next EXCEPT ![b] = a]
<1>3. p1[x] = b
  BY <1>1
<1>4. remove(k, x) = [next |-> [n1 EXCEPT ![x] = None], prev |-> [p1 EXCEPT ![x] = None]]
  BY <1>2, <1>3 DEF remove
<1>5. n1 \in [Nodes -> Nodes \cup {None}] /\ p1 \in [Nodes -> Nodes \cup {None}]
  BY <1>1
<1> QED BY <1>1, <1>4, <1>5 DEF AllLinks

\* What is left of a sequence without its p-th member.
Cut(s, u, p) ==
  /\ u \in Seq(Items) /\ Len(u) = Len(s) - 1
  /\ \A j \in 1..(Len(s) - 1) : u[j] = IF j < p THEN s[j] ELSE s[j + 1]

\* ... and of the places of a ring.
LEMMA CutPlaces ==
  ASSUME NEW l, NEW s \in Seq(Items), NEW u, NEW p \in 1..Len(s), Cut(s, u, p)
  PROVE  \A j \in 0..(Len(u) + 1) : Place(l, u, j) = IF j < p THEN Place(l, s, j) ELSE Place(l, s, j + 1)
<1>1. u \in Seq(Items) /\ Len(u) = Len(s) - 1
  BY DEF Cut
<1>2. /\ Len(s) \in Nat /\ DOMAIN s = 1..Len(s)
      /\ Place(l, s, 0) = l /\ Place(l, s, Len(s) + 1) = l
      /\ \A j \in 1..Len(s) : Place(l, s, j) = s[j] /\ s[j] \in Items
  BY Places
<1>3. /\ Len(u) \in Nat /\ DOMAIN u = 1..Len(u)
      /\ Place(l, u, 0) = l /\ Place(l, u, Len(u) + 1) = l
      /\ \A j \in 1..Len(u) : Place(l, u, j) = u[j] /\ u[j] \in Items
  <2>1. u \in Seq(Items)
    BY <1>1
  <2> QED BY <2>1, Places
<1> TAKE j \in 0..(Len(u) + 1)
<1>4. CASE j = 0
  BY <1>2, <1>3, <1>4
<1>5. CASE j = Len(u) + 1
  <2>1. ~(j < p) /\ j + 1 = Len(s) + 1
    BY <1>1, <1>2, <1>3, <1>5
  <2> QED BY <1>2, <1>3, <1>5, <2>1
<1>6. CASE j \in 1..Len(u)
  <2>1. j \in 1..(Len(s) - 1) /\ j \in 1..Len(s) /\ j + 1 \in 1..Len(s)
    BY <1>1, <1>2, <1>3, <1>6
  <2>2. u[j] = IF j < p THEN s[j] ELSE s[j + 1]
    BY <2>1 DEF Cut
  <2> QED BY <1>2, <1>3, <1>6, <2>1, <2>2
<1> QED BY <1>3, <1>4, <1>5, <1>6

\* remove takes one item out of a ring and changes no other.
LEMMA RemoveRing ==
  ASSUME NEW k \in AllLinks, NEW l \in Lists, NEW s, Ring(k, l, s),
         NEW p \in 1..Len(s), NEW u, Cut(s, u, p)
  PROVE  LET r == remove(k, s[p]) IN
         /\ r \in AllLinks /\ Ring(r, l, u)
         /\ r.next[s[p]] = None /\ r.prev[s[p]] = None
         /\ \A y \in Nodes : y \notin ToSet(s) \cup {l} => r.next[y] = k.next[y] /\ r.prev[y] = k.prev[y]
<1>0. s \in Seq(Items)
  BY DEF Ring
<1>2. /\ Len(s) \in Nat /\ DOMAIN s = 1..Len(s)
      /\ Place(l, s, 0) = l /\ Place(l, s, Len(s) + 1) = l
      /\ \A j \in 1..Len(s) : Place(l, s, j) = s[j] /\ s[j] \in Items
  BY <1>0, Places
<1> DEFINE x == s[p]
           a == Place(l, s, p - 1)
           b == Place(l, s, p + 1)
           r == remove(k, x)
<1>1. /\ s \in Seq(Items)
      /\ \A i, j \in DOMAIN s : s[i] = s[j] => i = j
      /\ \A j \in 0..Len(s) : /\ k.prev[Place(l, s, j)] = Place(l, s, j + 1)
                              /\ k.next[Place(l, s, j + 1)] = Place(l, s, j)
  BY DEF Ring
<1>3. /\ \A i, j \in 0..Len(s) : Place(l, s, i) = Place(l, s, j) => i = j
      /\ \A i, j \in 1..(Len(s) + 1) : Place(l, s, i) = Place(l, s, j) => i = j
      /\ \A i \in 0..(Len(s) + 1) : Place(l, s, i) \in ToSet(s) \cup {l} /\ Place(l, s, i) \in Nodes
  BY PlacesDiffer
<1>4. /\ p - 1 \in 0..Len(s) /\ p \in 0..Len(s) /\ p \in 1..(Len(s) + 1) /\ p + 1 \in 1..(Len(s) + 1)
      /\ p - 1 \in 0..(Len(s) + 1) /\ p + 1 \in 0..(Len(s) + 1) /\ p \in 0..(Len(s) + 1)
      /\ p - 1 # p /\ p + 1 # p /\ (p - 1) + 1 = p /\ p \in Int
  BY <1>2
<1>5. /\ x = Place(l, s, p) /\ x \in Nodes /\ a \in Nodes /\ b \in Nodes
      /\ k.next[x] = a /\ k.prev[x] = b /\ a # x /\ b # x
  <2>1. x = Place(l, s, p)
    BY <1>2
  <2>2. k.next[Place(l, s, (p - 1) + 1)] = Place(l, s, p - 1)
    BY <1>1, <1>4
  <2>3. k.prev[Place(l, s, p)] = Place(l, s, p + 1)
    BY <1>1, <1>4
  <2>4. Place(l, s, p - 1) # Place(l, s, p) /\ Place(l, s, p + 1) # Place(l, s, p)
    BY <1>3, <1>4
  <2> QED BY <1>3, <1>4, <2>1, <2>2, <2>3, <2>4
<1> HIDE DEF x, a, b
<1>6. /\ r \in AllLinks /\ r.next[x] = None /\ r.prev[x] = None
      /\ r.prev[a] = b /\ r.next[b] = a
      /\ \A y \in Nodes : y # x /\ y # a => r.prev[y] = k.prev[y]
      /\ \A y \in Nodes : y # x /\ y # b => r.next[y] = k.next[y]
  BY <1>5, RemoveBetween
<1> HIDE DEF r
<1>7. u \in Seq(Items) /\ Len(u) = Len(s) - 1 /\ Len(u) \in Nat
  BY <1>2 DEF Cut
<1>8. \A j \in 0..(Len(u) + 1) : Place(l, u, j) = IF j < p THEN Place(l, s, j) ELSE Place(l, s, j + 1)
  BY <1>1, CutPlaces
<1>9. ASSUME NEW j \in 0..Len(s), j # p, j # p - 1
      PROVE  r.prev[Place(l, s, j)] = Place(l, s, j + 1)
  <2>1. Place(l, s, j) # Place(l, s, p) /\ Place(l, s, j) # Place(l, s, p - 1)
    BY <1>3, <1>4, <1>9
  <2>2. j \in 0..(Len(s) + 1)
    BY <1>2
  <2>3. Place(l, s, j) \in Nodes /\ k.prev[Place(l, s, j)] = Place(l, s, j + 1)
    BY <1>1, <1>3, <2>2
  <2> QED BY <1>5, <1>6, <2>1, <2>3 DEF a
<1>10. ASSUME NEW j \in 0..Len(s), j + 1 # p, j # p
       PROVE  r.next[Place(l, s, j + 1)] = Place(l, s, j)
  <2>1. j + 1 \in 1..(Len(s) + 1) /\ j + 1 # p + 1 /\ j + 1 \in 0..(Len(s) + 1)
    BY <1>2, <1>4, <1>10
  <2>2. Place(l, s, j + 1) # Place(l, s, p) /\ Place(l, s, j + 1) # Place(l, s, p + 1)
    BY <1>3, <1>4, <1>10, <2>1
  <2>3. Place(l, s, j + 1) \in Nodes /\ k.next[Place(l, s, j + 1)] = Place(l, s, j)
    BY <1>1, <1>3, <2>1
  <2> QED BY <1>5, <1>6, <2>2, <2>3 DEF b
<1>11. ASSUME NEW j \in 0..Len(u)
       PROVE  /\ r.prev[Place(l, u, j)] = Place(l, u, j + 1)
              /\ r.next[Place(l, u, j + 1)] = Place(l, u, j)
  <2>0. /\ j \in 0..(Len(u) + 1) /\ j + 1 \in 0..(Len(u) + 1) /\ j \in Nat /\ j \in 0..Len(s)
        /\ j + 1 \in 0..Len(s) /\ p \in Nat
    BY <1>2, <1>7
  <2>1. CASE j + 1 < p
    <3>1. j < p /\ j # p /\ j # p - 1 /\ j + 1 # p
      BY <1>4, <2>0, <2>1
    <3>2. Place(l, u, j) = Place(l, s, j) /\ Place(l, u, j + 1) = Place(l, s, j + 1)
      BY <1>8, <2>0, <2>1, <3>1
    <3> QED BY <1>9, <1>10, <2>0, <3>1, <3>2
  <2>2. CASE j + 1 = p
    <3>1. j < p /\ ~(j + 1 < p) /\ (j + 1) + 1 = p + 1 /\ j = p - 1
      BY <1>4, <2>0, <2>2
    <3>2. Place(l, u, j) = a /\ Place(l, u, j + 1) = b
      BY <1>8, <2>0, <3>1 DEF a, b
    <3> QED BY <1>6, <3>2
  <2>3. CASE j + 1 > p
    <3>1. ~(j < p) /\ ~(j + 1 < p) /\ (j + 1) # p /\ j + 1 # p - 1 /\ (j + 1) + 1 # p
      BY <1>4, <2>0, <2>3
    <3>2. Place(l, u, j) = Place(l, s, j + 1) /\ Place(l, u, j + 1) = Place(l, s, (j + 1) + 1)
      BY <1>8, <2>0, <3>1
    <3>3. r.prev[Place(l, s, j + 1)] = Place(l, s, (j + 1) + 1)
      BY <1>9, <2>0, <3>1
    <3>4. r.next[Place(l, s, (j + 1) + 1)] = Place(l, s, j + 1)
      BY <1>10, <2>0, <3>1
    <3> QED BY <3>2, <3>3, <3>4
  <2> QED BY <2>0, <2>1, <2>2, <2>3
<1>12. \A i, j \in DOMAIN u : u[i] = u[j] => i = j
  <2> SUFFICES ASSUME NEW i \in 1..Len(u), NEW j \in 1..Len(u), u[i] = u[j] PROVE i = j
    BY <1>7
  <2> DEFINE at(n) == IF n < p THEN n ELSE n + 1
  <2>1. at(i) \in DOMAIN s /\ at(j) \in DOMAIN s /\ (at(i) = at(j) => i = j)
    BY <1>2, <1>4, <1>7
  <2>2. u[i] = s[at(i)] /\ u[j] = s[at(j)]
    BY <1>7 DEF Cut
  <2> QED BY <1>1, <2>1, <2>2
<1>13. Ring(r, l, u)
  BY <1>7, <1>11, <1>12 DEF Ring
<1>14. ASSUME NEW y \in Nodes, y \notin ToSet(s) \cup {l}
       PROVE  r.next[y] = k.next[y] /\ r.prev[y] = k.prev[y]
  <2>1. y # x /\ y # a /\ y # b
    BY <1>3, <1>4, <1>5, <1>14 DEF a, b
  <2> QED BY <1>6, <2>1
<1> QED BY <1>6, <1>13, <1>14 DEF r, x

\* append, once the item is out of its list: it becomes the youngest of the ring.
LEMMA LinkRing ==
  ASSUME NEW k \in AllLinks, NEW l \in Lists, NEW s, NEW x \in Items,
         LET r == remove(k, x) IN r \in AllLinks /\ Ring(r, l, s) /\ x \notin ToSet(s)
  PROVE  LET r == remove(k, x)
             h == append(k, l, x)
         IN  /\ h \in AllLinks /\ Ring(h, l, Append(s, x))
             /\ \A y \in Nodes : y \notin ToSet(s) \cup {l, x} => h.next[y] = r.next[y] /\ h.prev[y] = r.prev[y]
<1>0. s \in Seq(Items)
  BY DEF Ring
<1>2. /\ Len(s) \in Nat /\ DOMAIN s = 1..Len(s)
      /\ Place(l, s, 0) = l /\ Place(l, s, Len(s) + 1) = l
      /\ \A j \in 1..Len(s) : Place(l, s, j) = s[j] /\ s[j] \in Items
  BY <1>0, Places
<1> DEFINE r == remove(k, x)
           h == append(k, l, x)
           u == Append(s, x)
           y == Place(l, s, Len(s))
<1>1. /\ s \in Seq(Items) /\ r \in AllLinks /\ x \notin ToSet(s)
      /\ \A i, j \in DOMAIN s : s[i] = s[j] => i = j
      /\ \A j \in 0..Len(s) : /\ r.prev[Place(l, s, j)] = Place(l, s, j + 1)
                              /\ r.next[Place(l, s, j + 1)] = Place(l, s, j)
  BY DEF Ring
<1> HIDE DEF r
<1>3. /\ \A i, j \in 0..Len(s) : Place(l, s, i) = Place(l, s, j) => i = j
      /\ \A i, j \in 1..(Len(s) + 1) : Place(l, s, i) = Place(l, s, j) => i = j
      /\ \A i \in 0..(Len(s) + 1) : Place(l, s, i) \in ToSet(s) \cup {l} /\ Place(l, s, i) \in Nodes
  <2>1. Ring(r, l, s)
    BY DEF r
  <2> QED BY <2>1, PlacesDiffer
<1>4. l \notin Items /\ l # x /\ x \in Nodes /\ l \in Nodes
  BY LinkedAssumption DEF Nodes
<1>5. /\ Len(s) \in 0..Len(s) /\ Len(s) \in 0..(Len(s) + 1)
      /\ y \in ToSet(s) \cup {l} /\ y \in Nodes /\ y # x /\ r.next[l] = y
  <2>1. Len(s) \in 0..Len(s) /\ Len(s) \in 0..(Len(s) + 1)
    BY <1>2
  <2>2. r.next[Place(l, s, Len(s) + 1)] = Place(l, s, Len(s))
    BY <1>1, <2>1
  <2> QED BY <1>1, <1>2, <1>3, <1>4, <2>1, <2>2
<1> HIDE DEF y
<1>6. r.next \in [Nodes -> Nodes \cup {None}] /\ r.prev \in [Nodes -> Nodes \cup {None}]
  BY <1>1 DEF AllLinks
<1>7. h = [next |-> [[r.next EXCEPT ![x] = y] EXCEPT ![l] = x], prev |-> [[r.prev EXCEPT ![y] = x] EXCEPT ![x] = l]]
  <2> DEFINE n1 == [r.next EXCEPT ![x] = r.next[l]]
             p1 == [r.prev EXCEPT ![n1[l]] = x]
  <2>1. h = [next |-> [n1 EXCEPT ![l] = x], prev |-> [p1 EXCEPT ![x] = l]]
    BY DEF append, r
  <2>2. n1[l] = y
    BY <1>4, <1>5, <1>6
  <2> QED BY <1>5, <2>1, <2>2
<1> HIDE DEF h
<1>8. /\ h \in AllLinks
      /\ h.next[x] = y /\ h.next[l] = x /\ h.prev[y] = x /\ h.prev[x] = l
      /\ \A z \in Nodes : z # x /\ z # l => h.next[z] = r.next[z]
      /\ \A z \in Nodes : z # x /\ z # y => h.prev[z] = r.prev[z]
  BY <1>4, <1>5, <1>6, <1>7 DEF AllLinks
<1>9. u \in Seq(Items) /\ Len(u) = Len(s) + 1 /\ DOMAIN u = 1..(Len(s) + 1) /\ u[Len(s) + 1] = x
      /\ \A j \in 1..Len(s) : u[j] = s[j]
  BY <1>1, <1>2
<1> HIDE DEF u
<1>10. /\ \A j \in 0..Len(s) : Place(l, u, j) = Place(l, s, j)
       /\ Place(l, u, Len(s) + 1) = x /\ Place(l, u, (Len(s) + 1) + 1) = l
  <2>0. u \in Seq(Items)
    BY <1>9
  <2>1. /\ Len(u) \in Nat /\ DOMAIN u = 1..Len(u)
        /\ Place(l, u, 0) = l /\ Place(l, u, Len(u) + 1) = l
        /\ \A j \in 1..Len(u) : Place(l, u, j) = u[j] /\ u[j] \in Items
    BY <2>0, Places
  <2>2. Len(s) + 1 \in 1..Len(u) /\ \A j \in 1..Len(s) : j \in 1..Len(u)
    BY <1>2, <1>9
  <2>3. \A j \in 0..Len(s) : j = 0 \/ j \in 1..Len(s)
    BY <1>2
  <2> QED BY <1>2, <1>9, <2>1, <2>2, <2>3
<1>11. ASSUME NEW j \in 0..Len(u)
       PROVE  /\ h.prev[Place(l, u, j)] = Place(l, u, j + 1)
              /\ h.next[Place(l, u, j + 1)] = Place(l, u, j)
  <2>0. j \in Nat /\ j <= Len(s) + 1 /\ Len(s) \in Nat
    BY <1>2, <1>9
  <2>1. CASE j < Len(s)
    <3>1. j \in 0..Len(s) /\ j + 1 \in 0..Len(s) /\ j \in 0..(Len(s) + 1) /\ j + 1 \in 0..(Len(s) + 1) /\ j # Len(s)
          /\ j + 1 # 0
      BY <2>0, <2>1
    <3>2. Place(l, s, j) # y /\ Place(l, s, j) # x /\ Place(l, s, j) \in Nodes
      BY <1>1, <1>3, <1>4, <1>5, <3>1 DEF y
    <3>3. Place(l, s, j + 1) # l /\ Place(l, s, j + 1) # x /\ Place(l, s, j + 1) \in Nodes
      <4>1. 0 \in 0..Len(s)
        BY <1>2
      <4> QED BY <1>1, <1>2, <1>3, <1>4, <3>1, <4>1
    <3> QED BY <1>1, <1>8, <1>10, <3>1, <3>2, <3>3
  <2>2. CASE j = Len(s)
    <3>1. Place(l, u, j) = y /\ Place(l, u, j + 1) = x
      BY <1>5, <1>10, <2>2 DEF y
    <3> QED BY <1>8, <3>1
  <2>3. CASE j = Len(s) + 1
    BY <1>8, <1>10, <2>3
  <2> QED BY <2>0, <2>1, <2>2, <2>3
<1>12. \A i, j \in DOMAIN u : u[i] = u[j] => i = j
  <2>1. \A j \in 1..Len(s) : s[j] # x
    BY <1>1, <1>2 DEF ToSet
  <2>2. \A j \in DOMAIN u : j = Len(s) + 1 \/ j \in 1..Len(s)
    BY <1>2, <1>9
  <2> QED BY <1>1, <1>2, <1>9, <2>1, <2>2
<1>13. Ring(h, l, u)
  BY <1>9, <1>11, <1>12 DEF Ring
<1>14. \A z \in Nodes : z \notin ToSet(s) \cup {l, x} => h.next[z] = r.next[z] /\ h.prev[z] = r.prev[z]
  BY <1>5, <1>8
<1> QED BY <1>8, <1>13, <1>14 DEF h, r, u

-----------------------------------------------------------------------------
\* Timers takes an item out of a sequence where it is ...
LEMMA UnlinkIn ==
  ASSUME NEW s \in Seq(Items), NEW i \in ToSet(s)
  PROVE  \E p \in 1..Len(s) : s[p] = i /\ Cut(s, Abstract!Unlink(s, i), p)
<1> DEFINE p == CHOOSE n \in 1..Len(s) : s[n] = i
           u == SubSeq(s, 1, p - 1)
           v == SubSeq(s, p + 1, Len(s))
<1>0. Len(s) \in Nat /\ DOMAIN s = 1..Len(s) /\ \A j \in 1..Len(s) : s[j] \in Items
  OBVIOUS
<1>1. p \in 1..Len(s) /\ s[p] = i
  BY <1>0 DEF ToSet
<1>2. Abstract!Unlink(s, i) = u \o v
  <2>1. Abstract!Contains(s, i)
    BY <1>1 DEF Abstract!Contains
  <2> QED BY <2>1 DEF Abstract!Unlink, Abstract!RemoveAt
<1> HIDE DEF p
<1>3. u \in Seq(Items) /\ Len(u) = p - 1 /\ \A j \in 1..(p - 1) : u[j] = s[j]
  <2>1. \A j \in 1..(p - 1) : s[j] \in Items
    BY <1>0, <1>1
  <2>2. 1 \in Int /\ p - 1 \in Int
    BY <1>0, <1>1
  <2>3. /\ u \in Seq(Items)
        /\ Len(u) = IF 1 <= p - 1 THEN (p - 1) - 1 + 1 ELSE 0
        /\ \A j \in 1..((p - 1) - 1 + 1) : u[j] = s[1 + j - 1]
    BY <2>1, <2>2, SubSeqProperties
  <2> QED BY <1>0, <1>1, <2>3
<1>4. v \in Seq(Items) /\ Len(v) = Len(s) - p /\ \A j \in 1..(Len(s) - p) : v[j] = s[p + j]
  <2>1. \A j \in (p + 1)..Len(s) : s[j] \in Items
    BY <1>0, <1>1
  <2>2. p + 1 \in Int /\ Len(s) \in Int
    BY <1>0, <1>1
  <2>3. /\ v \in Seq(Items)
        /\ Len(v) = IF p + 1 <= Len(s) THEN Len(s) - (p + 1) + 1 ELSE 0
        /\ \A j \in 1..(Len(s) - (p + 1) + 1) : v[j] = s[(p + 1) + j - 1]
    BY <2>1, <2>2, SubSeqProperties
  <2>4. /\ p \in Nat /\ p <= Len(s) /\ Len(s) - (p + 1) + 1 = Len(s) - p
        /\ \A j \in 1..(Len(s) - p) : (p + 1) + j - 1 = p + j
    BY <1>0, <1>1
  <2> HIDE DEF v
  <2>5. Len(v) = Len(s) - p
    <3>0. Len(s) \in Int /\ p \in Int /\ p <= Len(s)
      BY <1>0, <1>1
    <3>1. CASE p + 1 <= Len(s)
      BY <2>3, <2>4, <3>1
    <3>2. CASE ~(p + 1 <= Len(s))
      <4>1. Len(s) - p = 0
        BY <3>0, <3>2
      <4> QED BY <2>3, <3>2, <4>1
    <3> QED BY <3>1, <3>2
  <2>6. \A j \in 1..(Len(s) - p) : v[j] = s[p + j]
    BY <2>3, <2>4
  <2> QED BY <2>3, <2>5, <2>6
<1> HIDE DEF u, v
<1>5. /\ u \o v \in Seq(Items)
      /\ Len(u \o v) = Len(u) + Len(v)
      /\ \A j \in 1..(Len(u) + Len(v)) : (u \o v)[j] = IF j <= Len(u) THEN u[j] ELSE v[j - Len(u)]
  BY <1>3, <1>4, ConcatProperties
<1>6. Len(u \o v) = Len(s) - 1 /\ Len(u) + Len(v) = Len(s) - 1
  BY <1>0, <1>1, <1>3, <1>4, <1>5
<1>7. ASSUME NEW j \in 1..(Len(s) - 1)
      PROVE  (u \o v)[j] = IF j < p THEN s[j] ELSE s[j + 1]
  <2>1. CASE j < p
    <3>1. j <= Len(u) /\ j \in 1..(p - 1) /\ j \in 1..(Len(u) + Len(v))
      BY <1>0, <1>1, <1>3, <1>6, <2>1
    <3> QED BY <1>3, <1>5, <2>1, <3>1
  <2>2. CASE ~(j < p)
    <3>1. /\ j - (p - 1) \in 1..(Len(s) - p) /\ p + (j - (p - 1)) = j + 1 /\ ~(j <= Len(u))
          /\ j \in 1..(Len(u) + Len(v)) /\ j - Len(u) = j - (p - 1)
      BY <1>0, <1>1, <1>3, <1>6, <2>2
    <3>2. v[j - (p - 1)] = s[j + 1]
      BY <1>4, <3>1
    <3>3. (u \o v)[j] = v[j - (p - 1)]
      BY <1>5, <3>1
    <3> QED BY <2>2, <3>2, <3>3
  <2> QED BY <2>1, <2>2
<1>8. Cut(s, u \o v, p)
  BY <1>5, <1>6, <1>7 DEF Cut
<1> QED BY <1>1, <1>2, <1>8

\* ... and does nothing where it is not.
LEMMA UnlinkOut ==
  ASSUME NEW s \in Seq(Items), NEW i, i \notin ToSet(s)
  PROVE  Abstract!Unlink(s, i) = s
BY DEF Abstract!Unlink, Abstract!Contains, ToSet

\* What is cut out is gone, and nothing else.
LEMMA CutSet ==
  ASSUME NEW k, NEW l, NEW s, Ring(k, l, s), NEW p \in 1..Len(s), NEW u, Cut(s, u, p)
  PROVE  ToSet(u) = ToSet(s) \ {s[p]}
<1>1. /\ s \in Seq(Items) /\ Len(s) \in Nat /\ DOMAIN s = 1..Len(s)
      /\ \A i, j \in DOMAIN s : s[i] = s[j] => i = j
  BY DEF Ring
<1>2. u \in Seq(Items) /\ Len(u) = Len(s) - 1 /\ DOMAIN u = 1..(Len(s) - 1)
  BY <1>1 DEF Cut
<1>3. ASSUME NEW j \in 1..(Len(s) - 1) PROVE u[j] \in ToSet(s) \ {s[p]}
  <2>1. u[j] = IF j < p THEN s[j] ELSE s[j + 1]
    BY DEF Cut
  <2>2. CASE j < p
    <3>1. j \in DOMAIN s /\ j # p /\ p \in DOMAIN s
      BY <1>1, <2>2
    <3> QED BY <1>1, <2>1, <2>2, <3>1 DEF ToSet
  <2>3. CASE ~(j < p)
    <3>1. j + 1 \in DOMAIN s /\ j + 1 # p /\ p \in DOMAIN s
      BY <1>1, <2>3
    <3> QED BY <1>1, <2>1, <2>3, <3>1 DEF ToSet
  <2> QED BY <2>2, <2>3
<1>4. ASSUME NEW j \in 1..Len(s), s[j] # s[p] PROVE s[j] \in ToSet(u)
  <2>1. CASE j < p
    <3>1. j \in 1..(Len(s) - 1)
      BY <1>1, <2>1
    <3>2. u[j] = s[j]
      BY <2>1, <3>1 DEF Cut
    <3> QED BY <1>2, <3>1, <3>2 DEF ToSet
  <2>2. CASE j > p
    <3>1. j - 1 \in 1..(Len(s) - 1) /\ ~(j - 1 < p) /\ (j - 1) + 1 = j
      BY <1>1, <2>2
    <3>2. u[j - 1] = s[(j - 1) + 1]
      BY <3>1 DEF Cut
    <3> QED BY <1>2, <3>1, <3>2 DEF ToSet
  <2> QED BY <1>1, <1>4, <2>1, <2>2
<1> QED BY <1>1, <1>2, <1>3, <1>4 DEF ToSet

-----------------------------------------------------------------------------
\* The item i is in a list.
In(k, i) == k.next[i] \notin {None, i}

\* The items that are in a list and have the duration m.
Members(k, to, m) == {i \in Items : In(k, i) /\ to[i] = m}

\* How the links k, the durations `to' of the items and the lists ls fit: each
\* list is a ring of the items with its duration, and an item that is in none
\* is linked to itself or not at all.
Linkage(k, to, ls) ==
  /\ k \in AllLinks
  /\ to \in [Items -> Durations \cup {Off, Unset}]
  /\ ls \in [Durations -> Lists \cup {None}]
  /\ \A m, n \in Durations : ls[m] # None /\ ls[m] = ls[n] => m = n
  /\ \A i \in Items : ~In(k, i) => k.prev[i] = k.next[i]
  /\ \A i \in Items : In(k, i) => to[i] \in Durations /\ ls[to[i]] # None
  /\ \A m \in Durations : ls[m] # None => \E s : Ring(k, ls[m], s) /\ ToSet(s) = Members(k, to, m)

\* Nothing changes for the items other than i, except who their neighbours are.
Others(k, h, i) ==
  \A j \in Items : j # i =>
    /\ In(h, j) <=> In(k, j)
    /\ ~In(k, j) => h.next[j] = k.next[j] /\ h.prev[j] = k.prev[j]

\* Nothing changes for the list objects that are not in ls.
Aside(k, h, ls) ==
  \A l \in Lists : (\A m \in Durations : ls[m] # l) => h.next[l] = k.next[l] /\ h.prev[l] = k.prev[l]

\* The sequence of a list is its ring and has the items with its duration.
LEMMA ListSeq ==
  ASSUME NEW k, NEW to, NEW ls, Linkage(k, to, ls), NEW m \in Durations
  PROVE  /\ SeqsOf(k, ls)[m] \in Seq(Items)
         /\ ToSet(SeqsOf(k, ls)[m]) = Members(k, to, m)
         /\ ls[m] # None => ls[m] \in Lists /\ Ring(k, ls[m], SeqsOf(k, ls)[m])
         /\ ls[m] = None => SeqsOf(k, ls)[m] = <<>>
<1>1. CASE ls[m] = None
  <2>1. SeqsOf(k, ls)[m] = <<>>
    BY <1>1 DEF SeqsOf
  <2>2. Members(k, to, m) = {}
    BY <1>1 DEF Linkage, Members
  <2>3. ToSet(<<>>) = {} /\ <<>> \in Seq(Items)
    BY DEF ToSet
  <2> QED BY <1>1, <2>1, <2>2, <2>3
<1>2. CASE ls[m] # None
  <2>1. ls[m] \in Lists
    BY <1>2 DEF Linkage
  <2>2. PICK s : Ring(k, ls[m], s) /\ ToSet(s) = Members(k, to, m)
    BY <1>2 DEF Linkage
  <2>3. ItemsOf(k, ls[m]) = s
    BY <2>1, <2>2, ItemsOfRing
  <2>4. SeqsOf(k, ls)[m] = s
    BY <1>2, <2>3 DEF SeqsOf
  <2>5. s \in Seq(Items)
    BY <2>2 DEF Ring
  <2> QED BY <1>2, <2>1, <2>2, <2>4, <2>5
<1> QED BY <1>1, <1>2

\* Rings that are known are the sequences.
LEMMA SeqsAre ==
  ASSUME NEW k, NEW ls \in [Durations -> Lists \cup {None}], NEW f, f = [m \in Durations |-> f[m]],
         \A m \in Durations : ls[m] = None => f[m] = <<>>,
         \A m \in Durations : ls[m] # None => Ring(k, ls[m], f[m])
  PROVE  SeqsOf(k, ls) = f
<1>1. ASSUME NEW m \in Durations PROVE (IF ls[m] = None THEN <<>> ELSE ItemsOf(k, ls[m])) = f[m]
  <2>1. CASE ls[m] = None
    BY <2>1
  <2>2. CASE ls[m] # None
    <3>1. ls[m] \in Lists /\ Ring(k, ls[m], f[m])
      BY <2>2
    <3>2. ItemsOf(k, ls[m]) = f[m]
      BY <3>1, ItemsOfRing
    <3> QED BY <2>2, <3>2
  <2> QED BY <2>1, <2>2
<1>2. SeqsOf(k, ls) = [m \in Durations |-> f[m]]
  BY <1>1 DEF SeqsOf
<1> QED BY <1>2

\* What is left to show of a linkage when one item was moved: its rings.
LEMMA Relinked ==
  ASSUME NEW k, NEW to, NEW ls, Linkage(k, to, ls), NEW h \in AllLinks, NEW i \in Items, Others(k, h, i),
         ~In(h, i) => h.prev[i] = h.next[i],
         In(h, i) => to[i] \in Durations /\ ls[to[i]] # None,
         NEW f, f = [m \in Durations |-> f[m]],
         \A m \in Durations : ls[m] = None => f[m] = <<>>,
         \A m \in Durations : ls[m] # None => Ring(h, ls[m], f[m]) /\ ToSet(f[m]) = Members(h, to, m)
  PROVE  Linkage(h, to, ls) /\ SeqsOf(h, ls) = f
<1>1. SeqsOf(h, ls) = f
  <2>1. ls \in [Durations -> Lists \cup {None}] /\ \A m \in Durations : ls[m] # None => Ring(h, ls[m], f[m])
    BY DEF Linkage
  <2> QED BY <2>1, SeqsAre
<1>2. ASSUME NEW j \in Items, ~In(h, j) PROVE h.prev[j] = h.next[j]
  <2>1. CASE j = i
    BY <1>2, <2>1
  <2>2. CASE j # i
    BY <1>2, <2>2 DEF Others, Linkage
  <2> QED BY <2>1, <2>2
<1>3. ASSUME NEW j \in Items, In(h, j) PROVE to[j] \in Durations /\ ls[to[j]] # None
  <2>1. CASE j = i
    BY <1>3, <2>1
  <2>2. CASE j # i
    <3>1. In(k, j)
      BY <1>3, <2>2 DEF Others
    <3> QED BY <3>1 DEF Linkage
  <2> QED BY <2>1, <2>2
<1>4. \A m \in Durations : ls[m] # None => \E s : Ring(h, ls[m], s) /\ ToSet(s) = Members(h, to, m)
  OBVIOUS
<1> QED BY <1>1, <1>2, <1>3, <1>4 DEF Linkage

\* remove(item): the item leaves the list it is in, if any.
LEMMA RemoveItem ==
  ASSUME NEW k, NEW to, NEW ls, Linkage(k, to, ls), NEW i \in Items
  PROVE  LET r == remove(k, i) IN
         /\ Linkage(r, to, ls)
         /\ SeqsOf(r, ls) = [m \in Durations |-> Abstract!Unlink(SeqsOf(k, ls)[m], i)]
         /\ r.next[i] = None /\ r.prev[i] = None
         /\ Others(k, r, i) /\ Aside(k, r, ls)
<1> DEFINE r == remove(k, i)
           q(m) == SeqsOf(k, ls)[m]
           f == [m \in Durations |-> Abstract!Unlink(q(m), i)]
<1>0. k \in AllLinks /\ i \in Nodes /\ None \notin Nodes /\ Items \subseteq Nodes /\ Lists \subseteq Nodes
      /\ (\A l \in Lists : l \notin Items) /\ k.next[i] \in Nodes \cup {None}
  BY LinkedAssumption DEF Linkage, Nodes, AllLinks
<1>1. ASSUME NEW m \in Durations
      PROVE  /\ q(m) \in Seq(Items) /\ ToSet(q(m)) = Members(k, to, m)
             /\ ls[m] # None => ls[m] \in Lists /\ Ring(k, ls[m], q(m))
             /\ ls[m] = None => q(m) = <<>>
  BY ListSeq
<1> HIDE DEF q, r
<1>2. ASSUME r \in AllLinks, r.next[i] = None, r.prev[i] = None, Others(k, r, i), Aside(k, r, ls),
             \A m \in Durations : ls[m] # None => Ring(r, ls[m], f[m]) /\ ToSet(f[m]) = ToSet(q(m)) \ {i}
      PROVE  Linkage(r, to, ls) /\ SeqsOf(r, ls) = f
  <2>1. ~In(r, i) /\ r.prev[i] = r.next[i]
    BY <1>2 DEF In
  <2>2. \A m \in Durations : Members(r, to, m) = Members(k, to, m) \ {i}
    BY <1>2, <2>1 DEF Members, Others
  <2>3. ASSUME NEW m \in Durations, ls[m] = None PROVE f[m] = <<>>
    <3>1. q(m) = <<>> /\ <<>> \in Seq(Items) /\ i \notin ToSet(<<>>)
      BY <1>1, <2>3 DEF ToSet
    <3>2. Abstract!Unlink(<<>>, i) = <<>>
      BY <3>1, UnlinkOut
    <3> QED BY <3>1, <3>2
  <2>4. \A m \in Durations : ls[m] # None => Ring(r, ls[m], f[m]) /\ ToSet(f[m]) = Members(r, to, m)
    BY <1>1, <1>2, <2>2
  <2>5. f = [m \in Durations |-> f[m]]
    OBVIOUS
  <2> HIDE DEF f
  <2> QED BY <1>2, <2>1, <2>3, <2>4, <2>5, Relinked
<1>3. CASE ~In(k, i)
  <2>1. k.next[i] \in {None, i} /\ k.prev[i] = k.next[i]
    BY <1>3 DEF In, Linkage
  <2>2. /\ r \in AllLinks /\ r.next[i] = None /\ r.prev[i] = None
        /\ \A y \in Nodes : y # i => r.next[y] = k.next[y] /\ r.prev[y] = k.prev[y]
    BY <1>0, <2>1, RemoveLoose DEF r
  <2>3. Others(k, r, i) /\ Aside(k, r, ls)
    BY <1>0, <2>2 DEF Others, Aside, In
  <2>4. ASSUME NEW m \in Durations, ls[m] # None
        PROVE  Ring(r, ls[m], f[m]) /\ ToSet(f[m]) = ToSet(q(m)) \ {i}
    <3>1. i \notin ToSet(q(m)) /\ q(m) \in Seq(Items) /\ ls[m] \in Lists /\ Ring(k, ls[m], q(m))
      BY <1>1, <1>3, <2>4 DEF Members
    <3>2. f[m] = q(m)
      BY <3>1, UnlinkOut
    <3>3. ToSet(q(m)) \subseteq Items /\ ls[m] # i
      BY <1>0, <1>1, <3>1 DEF Members
    <3>4. \A y \in ToSet(q(m)) \cup {ls[m]} : r.next[y] = k.next[y] /\ r.prev[y] = k.prev[y]
      BY <1>0, <2>2, <3>1, <3>3
    <3>5. Ring(r, ls[m], q(m))
      BY <3>1, <3>4, RingFrame
    <3> QED BY <3>1, <3>2, <3>5
  <2> QED BY <1>2, <2>2, <2>3, <2>4 DEF r, q
<1>4. CASE In(k, i)
  <2> DEFINE c == to[i]
             l == ls[c]
             s == q(c)
             u == Abstract!Unlink(s, i)
  <2>1. /\ c \in Durations /\ l # None /\ l \in Lists /\ s \in Seq(Items) /\ Ring(k, l, s)
        /\ ToSet(s) = Members(k, to, c) /\ i \in ToSet(s)
    <3>1. c \in Durations /\ l # None
      BY <1>4 DEF Linkage
    <3> QED BY <1>1, <1>4, <3>1 DEF Members
  <2>2. PICK p \in 1..Len(s) : s[p] = i /\ Cut(s, u, p)
    BY <2>1, UnlinkIn
  <2>3. ToSet(u) = ToSet(s) \ {i}
    BY <2>1, <2>2, CutSet
  <2>9. f[c] = u
    BY <2>1
  <2> HIDE DEF c, l, s, u
  <2>4. /\ r \in AllLinks /\ Ring(r, l, u) /\ r.next[i] = None /\ r.prev[i] = None
        /\ \A y \in Nodes : y \notin ToSet(s) \cup {l} => r.next[y] = k.next[y] /\ r.prev[y] = k.prev[y]
    BY <1>0, <2>1, <2>2, RemoveRing DEF r
  <2>5. Others(k, r, i)
    <3> SUFFICES ASSUME NEW j \in Items, j # i
                 PROVE  /\ In(r, j) <=> In(k, j)
                        /\ ~In(k, j) => r.next[j] = k.next[j] /\ r.prev[j] = k.prev[j]
      BY DEF Others
    <3>1. CASE j \in ToSet(s)
      <4>1. j \in ToSet(u)
        BY <2>3, <3>1
      <4>2. In(r, j) /\ In(k, j)
        BY <2>1, <2>4, <3>1, <4>1, RingMembers DEF In
      <4> QED BY <4>2
    <3>2. CASE j \notin ToSet(s)
      <4>1. r.next[j] = k.next[j] /\ r.prev[j] = k.prev[j]
        BY <1>0, <2>1, <2>4, <3>2
      <4> QED BY <4>1 DEF In
    <3> QED BY <3>1, <3>2
  <2>6. Aside(k, r, ls)
    <3> SUFFICES ASSUME NEW y \in Lists, \A m \in Durations : ls[m] # y
                 PROVE  r.next[y] = k.next[y] /\ r.prev[y] = k.prev[y]
      BY DEF Aside
    <3>1. y # l /\ y \notin ToSet(s) /\ y \in Nodes
      BY <1>0, <2>1 DEF l, Members
    <3> QED BY <2>4, <3>1
  <2>7. ASSUME NEW m \in Durations, ls[m] # None
        PROVE  Ring(r, ls[m], f[m]) /\ ToSet(f[m]) = ToSet(q(m)) \ {i}
    <3>1. CASE m = c
      BY <2>3, <2>4, <2>9, <3>1 DEF s, l
    <3>2. CASE m # c
      <4>1. /\ q(m) \in Seq(Items) /\ ls[m] \in Lists /\ Ring(k, ls[m], q(m))
            /\ ToSet(q(m)) = Members(k, to, m)
        BY <1>1, <2>7
      <4>2. ls[m] # l /\ \A j \in ToSet(q(m)) : j \notin ToSet(s) /\ j \in Items
        BY <2>1, <2>7, <3>2, <4>1 DEF Linkage, Members, l
      <4>3. i \notin ToSet(q(m))
        BY <2>1, <4>2
      <4>4. f[m] = q(m)
        BY <4>1, <4>3, UnlinkOut
      <4>5. \A y \in ToSet(q(m)) \cup {ls[m]} : r.next[y] = k.next[y] /\ r.prev[y] = k.prev[y]
        <5>1. \A j \in ToSet(s) : j \in Items
          BY <2>1 DEF Members
        <5> QED BY <1>0, <2>1, <2>4, <4>1, <4>2, <5>1
      <4>6. Ring(r, ls[m], q(m))
        BY <4>1, <4>5, RingFrame
      <4> QED BY <4>3, <4>4, <4>6
    <3> QED BY <3>1, <3>2
  <2> QED BY <1>2, <2>4, <2>5, <2>6, <2>7 DEF r, q
<1> QED BY <1>3, <1>4

\* append(list, item): the item becomes the youngest of that list.
LEMMA AppendItem ==
  ASSUME NEW k, NEW to, NEW ls, Linkage(k, to, ls), NEW i \in Items, NEW c \in Durations,
         to[i] = c, ls[c] # None
  PROVE  LET h == append(k, ls[c], i) IN
         /\ Linkage(h, to, ls)
         /\ SeqsOf(h, ls) = [[m \in Durations |-> Abstract!Unlink(SeqsOf(k, ls)[m], i)]
                              EXCEPT ![c] = Append(@, i)]
         /\ In(h, i) /\ Others(k, h, i) /\ Aside(k, h, ls)
<1> DEFINE r == remove(k, i)
           h == append(k, ls[c], i)
           g == [m \in Durations |-> Abstract!Unlink(SeqsOf(k, ls)[m], i)]
           l == ls[c]
           s == g[c]
           u == Append(s, i)
           f == [g EXCEPT ![c] = u]
<1>0. /\ k \in AllLinks /\ i \in Nodes /\ None \notin Nodes /\ Items \subseteq Nodes /\ Lists \subseteq Nodes
      /\ (\A y \in Lists : y \notin Items) /\ l \in Lists
  BY LinkedAssumption DEF Linkage, Nodes
<1>1. /\ Linkage(r, to, ls) /\ SeqsOf(r, ls) = g /\ r.next[i] = None /\ r.prev[i] = None
      /\ Others(k, r, i) /\ Aside(k, r, ls)
  BY RemoveItem
<1>g. g = [m \in Durations |-> g[m]]
  OBVIOUS
<1> HIDE DEF g, r
<1>2. ASSUME NEW m \in Durations
      PROVE  /\ g[m] \in Seq(Items) /\ ToSet(g[m]) = Members(r, to, m)
             /\ ls[m] # None => ls[m] \in Lists /\ Ring(r, ls[m], g[m])
             /\ ls[m] = None => g[m] = <<>>
  <2>1. /\ SeqsOf(r, ls)[m] \in Seq(Items)
        /\ ToSet(SeqsOf(r, ls)[m]) = Members(r, to, m)
        /\ ls[m] # None => ls[m] \in Lists /\ Ring(r, ls[m], SeqsOf(r, ls)[m])
        /\ ls[m] = None => SeqsOf(r, ls)[m] = <<>>
    BY <1>1, ListSeq
  <2> QED BY <1>1, <2>1
<1>3. s \in Seq(Items) /\ ToSet(s) = Members(r, to, c) /\ Ring(r, l, s) /\ i \notin ToSet(s)
  <2>1. i \notin Members(r, to, c)
    BY <1>1 DEF Members, In
  <2> QED BY <1>2, <2>1
<1> HIDE DEF s, l
<1>4. /\ h \in AllLinks /\ Ring(h, l, u)
      /\ \A y \in Nodes : y \notin ToSet(s) \cup {l, i} => h.next[y] = r.next[y] /\ h.prev[y] = r.prev[y]
  <2>1. remove(k, i) \in AllLinks /\ Ring(remove(k, i), l, s) /\ i \notin ToSet(s)
    BY <1>1, <1>3 DEF r, Linkage
  <2>2. append(k, l, i) = h
    BY DEF l
  <2> QED BY <1>0, <2>1, <2>2, LinkRing DEF r
<1> HIDE DEF h
<1>5. ToSet(u) = ToSet(s) \cup {i} /\ u \in Seq(Items)
  <2>1. /\ Len(s) \in Nat /\ DOMAIN s = 1..Len(s) /\ DOMAIN u = 1..(Len(s) + 1) /\ u[Len(s) + 1] = i
        /\ \A j \in 1..Len(s) : u[j] = s[j]
    BY <1>3
  <2>2. \A j \in DOMAIN u : j = Len(s) + 1 \/ j \in DOMAIN s
    BY <2>1
  <2>3. Len(s) + 1 \in DOMAIN u /\ \A j \in DOMAIN s : j \in DOMAIN u
    BY <2>1
  <2>4. u \in Seq(Items)
    BY <1>3
  <2> HIDE DEF u
  <2> QED BY <2>1, <2>2, <2>3, <2>4 DEF ToSet
<1>6. In(h, i)
  <2>1. i \in ToSet(u)
    BY <1>5
  <2> HIDE DEF u
  <2> QED BY <1>0, <1>4, <2>1, RingMembers DEF In
<1>7. ASSUME NEW j \in Items, j # i
      PROVE  /\ In(h, j) <=> In(r, j)
             /\ ~In(r, j) => h.next[j] = r.next[j] /\ h.prev[j] = r.prev[j]
  <2>1. CASE j \in ToSet(s)
    <3>1. j \in ToSet(u)
      BY <1>5, <2>1
    <3> HIDE DEF u
    <3>2. In(h, j) /\ In(r, j)
      BY <1>0, <1>3, <1>4, <2>1, <3>1, RingMembers DEF In
    <3> QED BY <3>2
  <2>2. CASE j \notin ToSet(s)
    <3>1. h.next[j] = r.next[j] /\ h.prev[j] = r.prev[j]
      BY <1>0, <1>4, <1>7, <2>2
    <3> QED BY <3>1 DEF In
  <2> QED BY <2>1, <2>2
<1>8. Others(r, h, i) /\ Others(k, h, i)
  BY <1>1, <1>7 DEF Others
<1>9. Aside(k, h, ls)
  <2> SUFFICES ASSUME NEW y \in Lists, \A m \in Durations : ls[m] # y
               PROVE  h.next[y] = k.next[y] /\ h.prev[y] = k.prev[y]
    BY DEF Aside
  <2>1. y # l /\ y # i /\ y \in Nodes
    BY <1>0 DEF l
  <2>2. y \notin ToSet(s)
    BY <1>0, <1>3 DEF Members
  <2>3. r.next[y] = k.next[y] /\ r.prev[y] = k.prev[y]
    BY <1>1 DEF Aside
  <2> QED BY <1>4, <2>1, <2>2, <2>3
<1>10. f = [m \in Durations |-> f[m]] /\ f[c] = u /\ \A m \in Durations : m # c => f[m] = g[m]
  BY <1>g
<1> HIDE DEF f, u
<1>11. ASSUME NEW m \in Durations, ls[m] # None PROVE Ring(h, ls[m], f[m]) /\ ToSet(f[m]) = Members(h, to, m)
  <2>1. CASE m = c
    <3>1. Members(h, to, c) = Members(r, to, c) \cup {i}
      BY <1>6, <1>8 DEF Members, Others
    <3> QED BY <1>3, <1>4, <1>5, <1>10, <2>1, <3>1 DEF l
  <2>2. CASE m # c
    <3>1. g[m] \in Seq(Items) /\ ToSet(g[m]) = Members(r, to, m) /\ ls[m] \in Lists /\ Ring(r, ls[m], g[m])
      BY <1>2, <1>11
    <3>2. Members(h, to, m) = Members(r, to, m) /\ i \notin Members(r, to, m)
      BY <1>8, <2>2 DEF Members, Others
    <3>3. ls[m] # l /\ \A j \in ToSet(g[m]) : j \notin ToSet(s) /\ j \in Items
      BY <1>3, <1>11, <2>2, <3>1 DEF Linkage, Members, l
    <3>4. \A j \in ToSet(s) : j \in Items
      BY <1>3 DEF Members
    <3>5. \A y \in ToSet(g[m]) \cup {ls[m]} : h.next[y] = r.next[y] /\ h.prev[y] = r.prev[y]
      BY <1>0, <1>4, <3>1, <3>2, <3>3, <3>4
    <3>6. Ring(h, ls[m], g[m])
      BY <3>1, <3>5, RingFrame
    <3> QED BY <1>10, <2>2, <3>1, <3>2, <3>6
  <2> QED BY <2>1, <2>2
<1>12. \A m \in Durations : ls[m] = None => f[m] = <<>>
  BY <1>2, <1>10
<1>13. Linkage(h, to, ls) /\ SeqsOf(h, ls) = f
  BY <1>4, <1>6, <1>8, <1>10, <1>11, <1>12, Relinked
<1> QED BY <1>6, <1>8, <1>9, <1>13 DEF h, f, u, s, g

\* init(list) of a list object that is not in use, for a duration without list.
LEMMA NewList ==
  ASSUME NEW k, NEW to, NEW ls, Linkage(k, to, ls), NEW c \in Durations, ls[c] = None,
         NEW l \in Lists, \A m \in Durations : ls[m] # l
  PROVE  LET h == init(k, l)
             new == [ls EXCEPT ![c] = l]
         IN  /\ Linkage(h, to, new)
             /\ SeqsOf(h, new) = SeqsOf(k, ls)
             /\ \A y \in Nodes : y # l => h.next[y] = k.next[y] /\ h.prev[y] = k.prev[y]
<1> DEFINE h == init(k, l)
           new == [ls EXCEPT ![c] = l]
           f == SeqsOf(k, ls)
<1>0. /\ k \in AllLinks /\ l \in Nodes /\ None \notin Nodes /\ Items \subseteq Nodes /\ Lists \subseteq Nodes
      /\ l \notin Items /\ l # None /\ ls \in [Durations -> Lists \cup {None}]
      /\ \A y \in Lists : y \notin Items
  BY LinkedAssumption DEF Linkage, Nodes
<1>1. /\ h \in AllLinks /\ Ring(h, l, <<>>)
      /\ \A y \in Nodes : y # l => h.next[y] = k.next[y] /\ h.prev[y] = k.prev[y]
  BY <1>0, InitRing
<1>2. /\ new \in [Durations -> Lists \cup {None}] /\ new[c] = l
      /\ \A m \in Durations : m # c => new[m] = ls[m]
  BY <1>0
<1> HIDE DEF h, new
<1>3. \A j \in Items : h.next[j] = k.next[j] /\ h.prev[j] = k.prev[j] /\ (In(h, j) <=> In(k, j))
  BY <1>0, <1>1 DEF In
<1>4. \A m \in Durations : Members(h, to, m) = Members(k, to, m)
  BY <1>3 DEF Members
<1>5. ASSUME NEW m \in Durations
      PROVE  /\ f[m] \in Seq(Items) /\ ToSet(f[m]) = Members(k, to, m)
             /\ ls[m] # None => ls[m] \in Lists /\ Ring(k, ls[m], f[m])
             /\ ls[m] = None => f[m] = <<>>
  BY ListSeq
<1>6. f = [m \in Durations |-> f[m]]
  BY DEF SeqsOf
<1> HIDE DEF f
<1>7. ASSUME NEW m \in Durations, new[m] # None PROVE Ring(h, new[m], f[m]) /\ ToSet(f[m]) = Members(h, to, m)
  <2>1. CASE m = c
    BY <1>1, <1>2, <1>4, <1>5, <2>1
  <2>2. CASE m # c
    <3>1. /\ ls[m] \in Lists /\ ls[m] # l /\ Ring(k, ls[m], f[m]) /\ new[m] = ls[m]
          /\ ToSet(f[m]) = Members(k, to, m)
      BY <1>2, <1>5, <1>7, <2>2
    <3>2. \A y \in ToSet(f[m]) \cup {ls[m]} : h.next[y] = k.next[y] /\ h.prev[y] = k.prev[y]
      BY <1>0, <1>1, <3>1 DEF Members
    <3>3. Ring(h, ls[m], f[m])
      BY <3>1, <3>2, RingFrame
    <3> QED BY <1>4, <3>1, <3>3
  <2> QED BY <2>1, <2>2
<1>8. \A m \in Durations : new[m] = None => f[m] = <<>>
  BY <1>0, <1>2, <1>5
<1>9. SeqsOf(h, new) = f
  BY <1>2, <1>6, <1>7, <1>8, SeqsAre
<1>10. \A m, n \in Durations : new[m] # None /\ new[m] = new[n] => m = n
  BY <1>2 DEF Linkage
<1>11. \A i \in Items : In(h, i) => to[i] \in Durations /\ new[to[i]] # None
  BY <1>0, <1>2, <1>3 DEF Linkage
<1>12. \A m \in Durations : new[m] # None => \E s : Ring(h, new[m], s) /\ ToSet(s) = Members(h, to, m)
  BY <1>7
<1>13. Linkage(h, to, new)
  BY <1>1, <1>2, <1>3, <1>10, <1>11, <1>12 DEF Linkage
<1> QED BY <1>1, <1>9, <1>13 DEF h, new, f

\* A list without items is forgotten.
LEMMA ForgetList ==
  ASSUME NEW k, NEW to, NEW ls, Linkage(k, to, ls), NEW c \in Durations, SeqsOf(k, ls)[c] = <<>>
  PROVE  LET new == [ls EXCEPT ![c] = None] IN
         Linkage(k, to, new) /\ SeqsOf(k, new) = SeqsOf(k, ls)
<1> DEFINE new == [ls EXCEPT ![c] = None]
           f == SeqsOf(k, ls)
<1>1. /\ new \in [Durations -> Lists \cup {None}] /\ new[c] = None
      /\ \A m \in Durations : m # c => new[m] = ls[m]
  BY DEF Linkage
<1>2. ASSUME NEW m \in Durations
      PROVE  /\ f[m] \in Seq(Items) /\ ToSet(f[m]) = Members(k, to, m)
             /\ ls[m] # None => ls[m] \in Lists /\ Ring(k, ls[m], f[m])
             /\ ls[m] = None => f[m] = <<>>
  BY ListSeq
<1>3. f = [m \in Durations |-> f[m]]
  BY DEF SeqsOf
<1> HIDE DEF new, f
<1>4. f[c] = <<>>
  BY DEF f
<1>5. SeqsOf(k, new) = f
  <2>1. \A m \in Durations : new[m] = None => f[m] = <<>>
    BY <1>1, <1>2, <1>4
  <2>2. \A m \in Durations : new[m] # None => Ring(k, new[m], f[m])
    BY <1>1, <1>2
  <2> QED BY <1>1, <1>3, <2>1, <2>2, SeqsAre
<1>6. Members(k, to, c) = {}
  <2>1. ToSet(<<>>) = {}
    BY DEF ToSet
  <2> QED BY <1>2, <1>4, <2>1
<1>7. \A i \in Items : In(k, i) => to[i] \in Durations /\ new[to[i]] # None
  BY <1>1, <1>6 DEF Linkage, Members
<1>8. \A m \in Durations : new[m] # None => \E s : Ring(k, new[m], s) /\ ToSet(s) = Members(k, to, m)
  BY <1>1, <1>2
<1>9. \A m, n \in Durations : new[m] # None /\ new[m] = new[n] => m = n
  BY <1>1 DEF Linkage
<1>10. Linkage(k, to, new)
  BY <1>1, <1>7, <1>8, <1>9 DEF Linkage
<1> QED BY <1>5, <1>10 DEF new, f

\* init(item) of an item in no list.
LEMMA InitItem ==
  ASSUME NEW k, NEW to, NEW ls, Linkage(k, to, ls), NEW i \in Items, ~In(k, i)
  PROVE  LET h == init(k, i) IN
         /\ Linkage(h, to, ls) /\ SeqsOf(h, ls) = SeqsOf(k, ls)
         /\ h.next[i] = i /\ Others(k, h, i) /\ Aside(k, h, ls)
<1> DEFINE h == init(k, i)
           f == SeqsOf(k, ls)
<1>0. /\ k \in AllLinks /\ i \in Nodes /\ Items \subseteq Nodes /\ Lists \subseteq Nodes
      /\ (\A y \in Lists : y \notin Items)
  BY LinkedAssumption DEF Linkage, Nodes
<1>1. /\ h \in AllLinks /\ h.next[i] = i /\ h.prev[i] = i
      /\ \A y \in Nodes : y # i => h.next[y] = k.next[y] /\ h.prev[y] = k.prev[y]
  BY <1>0, InitRing
<1> HIDE DEF h
<1>2. Others(k, h, i) /\ Aside(k, h, ls) /\ ~In(h, i)
  BY <1>0, <1>1 DEF Others, Aside, In
<1>3. ASSUME NEW m \in Durations
      PROVE  /\ f[m] \in Seq(Items) /\ ToSet(f[m]) = Members(k, to, m)
             /\ ls[m] # None => ls[m] \in Lists /\ Ring(k, ls[m], f[m])
             /\ ls[m] = None => f[m] = <<>>
  BY ListSeq
<1>4. f = [m \in Durations |-> f[m]]
  BY DEF SeqsOf
<1> HIDE DEF f
<1>5. ASSUME NEW m \in Durations, ls[m] # None PROVE Ring(h, ls[m], f[m]) /\ ToSet(f[m]) = Members(h, to, m)
  <2>1. Members(h, to, m) = Members(k, to, m) /\ i \notin Members(k, to, m)
    BY <1>2 DEF Members, Others
  <2>2. ls[m] \in Lists /\ Ring(k, ls[m], f[m]) /\ ToSet(f[m]) = Members(k, to, m)
    BY <1>3, <1>5
  <2>3. \A y \in ToSet(f[m]) \cup {ls[m]} : h.next[y] = k.next[y] /\ h.prev[y] = k.prev[y]
    <3>1. \A y \in ToSet(f[m]) : y \in Items /\ y # i
      BY <2>1, <2>2 DEF Members
    <3> QED BY <1>0, <1>1, <2>2, <3>1
  <2>4. Ring(h, ls[m], f[m])
    BY <2>2, <2>3, RingFrame
  <2> QED BY <2>1, <2>2, <2>4
<1>6. \A m \in Durations : ls[m] = None => f[m] = <<>>
  BY <1>3
<1>7. Linkage(h, to, ls) /\ SeqsOf(h, ls) = f
  BY <1>1, <1>2, <1>4, <1>5, <1>6, Relinked
<1> QED BY <1>1, <1>2, <1>7 DEF h, f

\* An item in no list may have any duration.
LEMMA Retimed ==
  ASSUME NEW k, NEW to, NEW ls, Linkage(k, to, ls), NEW i \in Items, ~In(k, i),
         NEW c \in Durations \cup {Off, Unset}
  PROVE  Linkage(k, [to EXCEPT ![i] = c], ls)
<1> DEFINE new == [to EXCEPT ![i] = c]
<1>1. new \in [Items -> Durations \cup {Off, Unset}] /\ \A j \in Items : j # i => new[j] = to[j]
  BY DEF Linkage
<1> HIDE DEF new
<1>2. \A m \in Durations : Members(k, new, m) = Members(k, to, m)
  BY <1>1 DEF Members
<1>3. \A j \in Items : In(k, j) => new[j] \in Durations /\ ls[new[j]] # None
  BY <1>1 DEF Linkage
<1>4. \A m \in Durations : ls[m] # None => \E s : Ring(k, ls[m], s) /\ ToSet(s) = Members(k, new, m)
  BY <1>2 DEF Linkage
<1>5. Linkage(k, new, ls)
  BY <1>1, <1>3, <1>4 DEF Linkage
<1> QED BY <1>5 DEF new

-----------------------------------------------------------------------------
\* The list objects: the one of a duration was made for it and is open; the one
\* that expiration walks is still in use or was closed; one that was closed is
\* a ring of its own; only one in use is started.
Objects(k, ls, lf, md, cl, tm) ==
  /\ lf \in [Lists -> Nat \cup {Off}] /\ \A l \in Lists : lf[l] <= md[l]
  /\ md \in [Lists -> Durations \cup {Unset}]
  /\ cl \in [Lists -> BOOLEAN]
  /\ tm \in Lists \cup {None}
  /\ \A m \in Durations : ls[m] # None => md[ls[m]] = m /\ ~cl[ls[m]]
  /\ tm # None => md[tm] \in Durations /\ (ls[md[tm]] = tm \/ cl[tm])
  /\ \A l \in Lists : cl[l] => lf[l] = Off /\ k.next[l] = l /\ k.prev[l] = l
  /\ \A l \in Lists : lf[l] # Off => \E m \in Durations : ls[m] = l

ItemsTyped ==
  /\ age \in [Items -> Nat]
  /\ onTimeout \in [Items -> BOOLEAN]
  /\ running \in Items \cup {None}
  /\ broken \in BOOLEAN

\* The inductive invariant.
LInv == ItemsTyped /\ Linkage(links, timeout, lists) /\ Objects(links, lists, left, made, closed, timer)

\* The values that Timers sees.
HasOf(ls) == [m \in Durations |-> ls[m] # None]
LeftOf(ls, lf) == [m \in Durations |-> IF ls[m] = None THEN Off ELSE lf[ls[m]]]
LinkedOf(k) == [i \in Items |-> k.next[i] # None]

\* Timers is instantiated with the same items and the same marks.
LEMMA SameConstants ==
  /\ Abstract!Items = Items /\ Abstract!None = None /\ Abstract!Off = Off /\ Abstract!Unset = Unset
BY DEF Abstract!Items, Items, Abstract!None, None, Abstract!Off, Off, Abstract!Unset, Unset

\* Moving the item i links or unlinks no other.
LEMMA LinkedOthers ==
  ASSUME NEW k, NEW h, NEW i \in Items, Others(k, h, i)
  PROVE  /\ h.next[i] # None => LinkedOf(h) = [LinkedOf(k) EXCEPT ![i] = TRUE]
         /\ h.next[i] = None => LinkedOf(h) = [LinkedOf(k) EXCEPT ![i] = FALSE]
<1>1. ASSUME NEW j \in Items, j # i PROVE h.next[j] # None <=> k.next[j] # None
  BY <1>1 DEF Others, In
<1> QED BY <1>1, Zenon DEF LinkedOf

\* The links that changed are not those of a closed list object.
LEMMA ObjectsAside ==
  ASSUME NEW k, NEW h, NEW ls, NEW lf, NEW md, NEW cl, NEW tm, Objects(k, ls, lf, md, cl, tm),
         ls \in [Durations -> Lists \cup {None}], Aside(k, h, ls)
  PROVE  Objects(h, ls, lf, md, cl, tm)
<1>1. \A l \in Lists : cl[l] => \A m \in Durations : ls[m] # l
  BY LinkedAssumption DEF Objects, Nodes
<1>2. \A l \in Lists : cl[l] => h.next[l] = l /\ h.prev[l] = l
  BY <1>1 DEF Objects, Aside
<1> QED BY <1>2 DEF Objects

\* What closing the list of the duration c makes of the lists.
Shut(k, to, ls, lf, md, cl, tm, c, ls2, lf2, cl2) ==
  /\ cl[ls[c]] = FALSE
  /\ Linkage(k, to, ls2) /\ SeqsOf(k, ls2) = SeqsOf(k, ls)
  /\ Objects(k, ls2, lf2, md, cl2, tm)
  /\ \A m \in Durations : ls2[m] # None <=> ls[m] # None /\ m # c
  /\ \A m \in Durations : LeftOf(ls2, lf2)[m] = IF m = c THEN Off ELSE LeftOf(ls, lf)[m]
  /\ tm # None => (ls2[md[tm]] = tm <=> ls[md[tm]] = tm /\ md[tm] # c)

\* A list in use that is empty is closed, which is not an error.
LEMMA CloseStep ==
  ASSUME NEW k, NEW to, NEW ls, NEW lf, NEW md, NEW cl, NEW tm,
         Linkage(k, to, ls), Objects(k, ls, lf, md, cl, tm),
         NEW c \in Durations, ls[c] # None, SeqsOf(k, ls)[c] = <<>>,
         NEW ls2, ls2 = [ls EXCEPT ![c] = None],
         NEW lf2, lf2 = [lf EXCEPT ![ls[c]] = Off],
         NEW cl2, cl2 = [cl EXCEPT ![ls[c]] = TRUE]
  PROVE  Shut(k, to, ls, lf, md, cl, tm, c, ls2, lf2, cl2)
<1>0. None \notin Lists /\ ls \in [Durations -> Lists \cup {None}]
  BY LinkedAssumption DEF Nodes, Linkage
<1> DEFINE l == ls[c]
<1>1. l \in Lists /\ cl[l] = FALSE /\ md[l] = c
  BY <1>0 DEF Objects
<1>3. Linkage(k, to, ls2) /\ SeqsOf(k, ls2) = SeqsOf(k, ls)
  BY ForgetList
<1>4. ls2[c] = None /\ \A m \in Durations : m # c => ls2[m] = ls[m] /\ ls[m] # l
  BY <1>0 DEF Linkage
<1>5. /\ lf2 \in [Lists -> Nat \cup {Off}] /\ lf2[l] = Off /\ cl2 \in [Lists -> BOOLEAN] /\ cl2[l]
      /\ \A y \in Lists : y # l => lf2[y] = lf[y] /\ cl2[y] = cl[y]
  BY <1>1 DEF Objects
<1>6. k.next[l] = l /\ k.prev[l] = l
  <2>1. Ring(k, l, <<>>)
    BY ListSeq
  <2>2. k.next[l] \in ToSet(<<>>) \cup {l} /\ k.prev[l] \in ToSet(<<>>) \cup {l}
    <3>1. Neighbours(k, l, <<>>)
      BY <1>1, <2>1, RingMembers
    <3> QED BY <3>1 DEF Neighbours
  <2> QED BY <2>2 DEF ToSet
<1> HIDE DEF l
<1>7. ASSUME NEW y \in Lists PROVE lf2[y] <= md[y]
  <2>1. md[y] \in Durations \cup {0}
    BY DEF Objects, Unset
  <2>2. Durations \cup {0} \subseteq Nat
    BY LinkedAssumption
  <2>3. lf[y] <= md[y]
    BY DEF Objects
  <2>4. CASE y = l
    BY <1>5, <2>1, <2>2, <2>4 DEF Off
  <2>5. CASE y # l
    BY <1>5, <2>3, <2>5
  <2> QED BY <2>4, <2>5
<1>8. \A m \in Durations : ls2[m] # None => md[ls2[m]] = m /\ ~cl2[ls2[m]]
  BY <1>0, <1>4, <1>5 DEF Objects
<1>9. tm # None => md[tm] \in Durations /\ (ls2[md[tm]] = tm \/ cl2[tm])
  <2> HAVE tm # None
  <2>1. tm \in Lists /\ md[tm] \in Durations /\ (ls[md[tm]] = tm \/ cl[tm])
    BY DEF Objects
  <2> QED BY <1>4, <1>5, <2>1 DEF l
<1>10. \A y \in Lists : cl2[y] => lf2[y] = Off /\ k.next[y] = y /\ k.prev[y] = y
  BY <1>5, <1>6 DEF Objects
<1>11. ASSUME NEW y \in Lists, lf2[y] # Off PROVE \E m \in Durations : ls2[m] = y
  <2>1. y # l /\ lf[y] # Off
    BY <1>5, <1>11
  <2>2. PICK m \in Durations : ls[m] = y
    BY <2>1 DEF Objects
  <2> QED BY <1>4, <2>1, <2>2 DEF l
<1>12. Objects(k, ls2, lf2, md, cl2, tm)
  BY <1>5, <1>7, <1>8, <1>9, <1>10, <1>11 DEF Objects
<1>13. \A m \in Durations : ls2[m] # None <=> ls[m] # None /\ m # c
  BY <1>4
<1>14. \A m \in Durations : LeftOf(ls2, lf2)[m] = IF m = c THEN Off ELSE LeftOf(ls, lf)[m]
  <2> TAKE m \in Durations
  <2>1. CASE m = c
    BY <1>4, <2>1 DEF LeftOf
  <2>2. CASE m # c /\ ls[m] = None
    BY <1>4, <2>2 DEF LeftOf
  <2>3. CASE m # c /\ ls[m] # None
    <3>1. ls[m] \in Lists /\ ls2[m] = ls[m] /\ ls[m] # l
      BY <1>0, <1>4, <2>3
    <3>2. lf2[ls[m]] = lf[ls[m]]
      BY <1>5, <3>1
    <3> QED BY <2>3, <3>1, <3>2 DEF LeftOf
  <2> QED BY <2>1, <2>2, <2>3
<1>15. tm # None => (ls2[md[tm]] = tm <=> ls[md[tm]] = tm /\ md[tm] # c)
  <2> HAVE tm # None
  <2>1. md[tm] \in Durations
    BY DEF Objects
  <2> QED BY <1>4, <2>1
<1> QED BY <1>1, <1>3, <1>12, <1>13, <1>14, <1>15 DEF l, Shut

\* An item leaves its list, in the way of unenroll.
LEMMA LeaveStep ==
  ASSUME LInv, ~broken, NEW i \in Items, NEW k, k = remove(links, i),
         links' = k \/ links' = init(k, i), CloseIfEmpty(k, timeout[i]),
         age' = [age EXCEPT ![i] = 0], timer' = timer, made' = made
  PROVE  /\ Linkage(links', timeout, lists') /\ Objects(links', lists', left', made', closed', timer')
         /\ age' \in [Items -> Nat] /\ broken' = FALSE
         /\ ~In(links', i) /\ Others(links, links', i)
         /\ links' = k => links'.next[i] = None
         /\ links' = init(k, i) => links'.next[i] = i
         /\ Abstract!LeaveList(i)
<1>0. broken = FALSE
  BY DEF LInv, ItemsTyped
<1>1. /\ Linkage(k, timeout, lists) /\ SeqsOf(k, lists) = [m \in Durations |-> Abstract!Unlink(SeqsOf(links, lists)[m], i)]
      /\ k.next[i] = None /\ k.prev[i] = None /\ Others(links, k, i) /\ Aside(links, k, lists)
  BY RemoveItem DEF LInv
<1>2. Objects(k, lists, left, made, closed, timer)
  BY <1>1, ObjectsAside DEF LInv, Linkage
<1>3. PICK gone : gone = {m \in Durations : m = timeout[i] /\ lists[m] # None /\ SeqsOf(k, lists)[m] = <<>>}
  OBVIOUS
<1>4. /\ Linkage(k, timeout, lists') /\ SeqsOf(k, lists') = SeqsOf(k, lists)
      /\ Objects(k, lists', left', made, closed', timer) /\ broken' = FALSE
      /\ \A m \in Durations : lists'[m] # None <=> lists[m] # None /\ m \notin gone
      /\ \A m \in Durations : LeftOf(lists', left')[m] = IF m \in gone THEN Off ELSE LeftOf(lists, left)[m]
      /\ timer # None => (lists'[made[timer]] = timer <=> lists[made[timer]] = timer /\ made[timer] \notin gone)
  <2> DEFINE c == timeout[i]
  <2>0. c \in Durations /\ lists[c] # None => (isEmpty(k, lists[c]) <=> SeqsOf(k, lists)[c] = <<>>)
    <3> HAVE c \in Durations /\ lists[c] # None
    <3>1. lists[c] \in Lists /\ Ring(k, lists[c], SeqsOf(k, lists)[c])
      BY <1>1, ListSeq
    <3> QED BY <3>1, RingMembers
  <2>1. CASE c \in Durations /\ lists[c] # None /\ isEmpty(k, lists[c])
    <3>1. /\ lists' = [lists EXCEPT ![c] = None] /\ left' = [left EXCEPT ![lists[c]] = Off]
          /\ closed' = [closed EXCEPT ![lists[c]] = TRUE] /\ broken' = closed[lists[c]]
      BY <2>1 DEF CloseIfEmpty, CloseList
    <3>2. gone = {c}
      BY <1>3, <2>0, <2>1
    <3>3. PICK d \in Durations : d = c
      BY <2>1
    <3>4. /\ lists' = [lists EXCEPT ![d] = None] /\ left' = [left EXCEPT ![lists[d]] = Off]
          /\ closed' = [closed EXCEPT ![lists[d]] = TRUE] /\ broken' = closed[lists[d]]
          /\ lists[d] # None /\ SeqsOf(k, lists)[d] = <<>>
      BY <2>0, <2>1, <3>1, <3>3
    <3> HIDE DEF c
    <3>5. /\ closed[lists[d]] = FALSE
          /\ Linkage(k, timeout, lists') /\ SeqsOf(k, lists') = SeqsOf(k, lists)
          /\ Objects(k, lists', left', made, closed', timer)
          /\ \A m \in Durations : lists'[m] # None <=> lists[m] # None /\ m # d
          /\ \A m \in Durations : LeftOf(lists', left')[m] = IF m = d THEN Off ELSE LeftOf(lists, left)[m]
          /\ timer # None => (lists'[made[timer]] = timer <=> lists[made[timer]] = timer /\ made[timer] # d)
      <4>1. Linkage(k, timeout, lists) /\ Objects(k, lists, left, made, closed, timer)
        BY <1>1, <1>2
      <4>2. PICK ls2, lf2, cl2 : ls2 = lists' /\ lf2 = left' /\ cl2 = closed'
        OBVIOUS
      <4>3. /\ ls2 = [lists EXCEPT ![d] = None] /\ lf2 = [left EXCEPT ![lists[d]] = Off]
            /\ cl2 = [closed EXCEPT ![lists[d]] = TRUE]
        BY <3>4, <4>2
      <4>4. Shut(k, timeout, lists, left, made, closed, timer, d, ls2, lf2, cl2)
        BY <4>1, <3>4, <4>3, CloseStep
      <4> QED BY <4>2, <4>4 DEF Shut
    <3>6. \A m : m \in gone <=> m = d
      BY <3>2, <3>3
    <3> QED BY <3>4, <3>5, <3>6
  <2>2. CASE ~(c \in Durations /\ lists[c] # None /\ isEmpty(k, lists[c]))
    <3>1. lists' = lists /\ left' = left /\ closed' = closed /\ broken' = FALSE
      BY <1>0, <2>2 DEF CloseIfEmpty, KeepLists
    <3>2. gone = {}
      BY <1>3, <2>0, <2>2
    <3> QED BY <1>1, <1>2, <3>1, <3>2
  <2> QED BY <2>1, <2>2
<1>5. ~In(k, i)
  BY <1>1 DEF In
<1>6. /\ Linkage(links', timeout, lists') /\ SeqsOf(links', lists') = SeqsOf(k, lists)
      /\ Objects(links', lists', left', made', closed', timer')
      /\ ~In(links', i) /\ Others(links, links', i)
      /\ links' = k => links'.next[i] = None
      /\ links' = init(k, i) => links'.next[i] = i
  <2>1. CASE links' = k
    <3>1. i # None
      BY LinkedAssumption DEF Nodes
    <3>2. links' = init(k, i) => links'.next[i] = i
      <4>1. k \in AllLinks /\ i \in Nodes
        BY <1>1 DEF Linkage, Nodes
      <4> QED BY <4>1, InitRing
    <3> QED BY <1>1, <1>4, <1>5, <2>1, <3>2
  <2>2. CASE links' = init(k, i) /\ links' # k
    <3>1. /\ Linkage(links', timeout, lists') /\ SeqsOf(links', lists') = SeqsOf(k, lists')
          /\ links'.next[i] = i /\ Others(k, links', i) /\ Aside(k, links', lists')
      BY <1>4, <1>5, <2>2, InitItem
    <3>2. Objects(links', lists', left', made, closed', timer)
      BY <1>4, <3>1, ObjectsAside DEF Linkage
    <3>3. ~In(links', i)
      BY <3>1 DEF In
    <3>4. Others(links, links', i)
      BY <1>1, <3>1 DEF Others
    <3> QED BY <1>4, <2>2, <3>1, <3>2, <3>3, <3>4
  <2> QED BY <2>1, <2>2
<1>7. age' \in [Items -> Nat]
  BY DEF LInv, ItemsTyped
<1>8. Abstract!LeaveList(i)
  <2>1. Abstract!Removed(i) = SeqsOf(k, lists)
    BY <1>1 DEF Abstract!Removed
  <2>2. {m \in Durations : m = timeout[i] /\ HasOf(lists)[m] /\ Abstract!Removed(i)[m] = <<>>} = gone
    BY <1>3, <2>1 DEF HasOf
  <2>3. HasOf(lists') = [m \in Durations |-> HasOf(lists)[m] /\ m \notin gone]
    BY <1>4 DEF HasOf
  <2>4. LeftOf(lists', left') = [m \in Durations |-> IF m \in gone THEN Off ELSE LeftOf(lists, left)[m]]
    <3>1. LeftOf(lists', left') = [m \in Durations |-> LeftOf(lists', left')[m]]
      BY DEF LeftOf
    <3> QED BY <1>4, <3>1
  <2>5. (timer' # None /\ lists'[made'[timer']] = timer')
           = ((timer # None /\ lists[made[timer]] = timer) /\ (IF timer = None THEN Off ELSE made[timer]) \notin gone)
    <3>1. timer' = timer /\ made' = made
      OBVIOUS
    <3> QED BY <1>4, <3>1
  <2> QED BY <1>6, <2>1, <2>2, <2>3, <2>4, <2>5 DEF Abstract!LeaveList, HasOf, LeftOf, Abstract!Off, Off
<1> QED BY <1>4, <1>6, <1>7, <1>8

\* A list object l that is not in use is linked with others, for a duration c.
Fresh(k, h, ls, tm, c, l) ==
  /\ ls[c] = None /\ tm # l
  /\ \A m \in Durations : ls[m] # l
  /\ \A y \in Lists : y # l /\ (\A m \in Durations : ls[m] # y) => h.next[y] = k.next[y] /\ h.prev[y] = k.prev[y]

\* What starting a list object l for the duration c makes of the lists.
Opened(h, ls, lf, md, tm, c, ls2, lf2, md2, cl2) ==
  /\ Objects(h, ls2, lf2, md2, cl2, tm)
  /\ \A m \in Durations : ls2[m] # None <=> ls[m] # None \/ m = c
  /\ \A m \in Durations : LeftOf(ls2, lf2)[m] = IF m = c THEN c ELSE LeftOf(ls, lf)[m]
  /\ tm # None => md2[tm] = md[tm] /\ (ls2[md[tm]] = tm <=> ls[md[tm]] = tm)

\* A list object that is not in use becomes the list of a duration without one.
LEMMA OpenStep ==
  ASSUME NEW k, NEW h, NEW ls, NEW lf, NEW md, NEW cl, NEW tm, Objects(k, ls, lf, md, cl, tm),
         ls \in [Durations -> Lists \cup {None}],
         NEW c \in Durations, NEW l \in Lists, Fresh(k, h, ls, tm, c, l),
         NEW ls2, ls2 = [ls EXCEPT ![c] = l],
         NEW lf2, lf2 = [lf EXCEPT ![l] = c],
         NEW md2, md2 = [md EXCEPT ![l] = c],
         NEW cl2, cl2 = [cl EXCEPT ![l] = FALSE]
  PROVE  Opened(h, ls, lf, md, tm, c, ls2, lf2, md2, cl2)
<1>0. None \notin Lists /\ Durations \subseteq Nat
  BY LinkedAssumption DEF Nodes
<1>f. /\ ls[c] = None /\ tm # l
      /\ \A m \in Durations : ls[m] # l
      /\ \A y \in Lists : y # l /\ (\A m \in Durations : ls[m] # y) => h.next[y] = k.next[y] /\ h.prev[y] = k.prev[y]
  BY DEF Fresh
<1>1. ls2[c] = l /\ \A m \in Durations : m # c => ls2[m] = ls[m]
  OBVIOUS
<1>2. /\ lf2 \in [Lists -> Nat \cup {Off}] /\ md2 \in [Lists -> Durations \cup {Unset}] /\ cl2 \in [Lists -> BOOLEAN]
      /\ lf2[l] = c /\ md2[l] = c /\ cl2[l] = FALSE
      /\ \A y \in Lists : y # l => lf2[y] = lf[y] /\ md2[y] = md[y] /\ cl2[y] = cl[y]
  BY <1>0 DEF Objects
<1>3. ASSUME NEW y \in Lists PROVE lf2[y] <= md2[y]
  <2>1. CASE y = l
    BY <1>0, <1>2, <2>1
  <2>2. CASE y # l
    BY <1>2, <2>2 DEF Objects
  <2> QED BY <2>1, <2>2
<1>4. ASSUME NEW m \in Durations, ls2[m] # None PROVE md2[ls2[m]] = m /\ ~cl2[ls2[m]]
  <2>1. CASE m = c
    BY <1>1, <1>2, <2>1
  <2>2. CASE m # c
    <3>1. ls2[m] = ls[m] /\ ls[m] \in Lists /\ ls[m] # l
      BY <1>1, <1>4, <1>f, <2>2
    <3>2. md[ls[m]] = m /\ ~cl[ls[m]]
      BY <1>4, <3>1 DEF Objects
    <3> QED BY <1>2, <3>1, <3>2
  <2> QED BY <2>1, <2>2
<1>5. ASSUME tm # None
      PROVE  /\ md2[tm] = md[tm] /\ md[tm] \in Durations /\ (ls2[md[tm]] = tm <=> ls[md[tm]] = tm)
             /\ ls2[md[tm]] = tm \/ cl2[tm]
  <2>1. tm \in Lists /\ md[tm] \in Durations /\ (ls[md[tm]] = tm \/ cl[tm])
    BY <1>5 DEF Objects
  <2>2. md2[tm] = md[tm] /\ cl2[tm] = cl[tm]
    BY <1>2, <1>f, <2>1
  <2>3. ls2[md[tm]] = tm <=> ls[md[tm]] = tm
    BY <1>0, <1>1, <1>f, <2>1
  <2> QED BY <2>1, <2>2, <2>3
<1>6. ASSUME NEW y \in Lists, cl2[y] PROVE lf2[y] = Off /\ h.next[y] = y /\ h.prev[y] = y
  <2>1. y # l /\ cl[y]
    BY <1>2, <1>6
  <2>2. \A m \in Durations : ls[m] # y
    BY <1>0, <2>1 DEF Objects
  <2>3. lf[y] = Off /\ k.next[y] = y /\ k.prev[y] = y
    BY <2>1 DEF Objects
  <2> QED BY <1>2, <1>f, <2>1, <2>2, <2>3
<1>7. ASSUME NEW y \in Lists, lf2[y] # Off PROVE \E m \in Durations : ls2[m] = y
  <2>1. CASE y = l
    BY <1>1, <2>1
  <2>2. CASE y # l
    <3>1. PICK m \in Durations : ls[m] = y
      BY <1>2, <1>7, <2>2 DEF Objects
    <3> QED BY <1>0, <1>1, <1>f, <3>1
  <2> QED BY <2>1, <2>2
<1>8. Objects(h, ls2, lf2, md2, cl2, tm)
  <2>1. tm \in Lists \cup {None}
    BY DEF Objects
  <2> QED BY <1>2, <1>3, <1>4, <1>5, <1>6, <1>7, <2>1 DEF Objects
<1>9. \A m \in Durations : ls2[m] # None <=> ls[m] # None \/ m = c
  BY <1>0, <1>1, <1>f
<1>10. ASSUME NEW m \in Durations PROVE LeftOf(ls2, lf2)[m] = IF m = c THEN c ELSE LeftOf(ls, lf)[m]
  <2>1. CASE m = c
    BY <1>0, <1>1, <1>2, <2>1 DEF LeftOf
  <2>2. CASE m # c /\ ls[m] = None
    BY <1>1, <2>2 DEF LeftOf
  <2>3. CASE m # c /\ ls[m] # None
    <3>1. ls[m] \in Lists /\ ls2[m] = ls[m] /\ ls[m] # l
      BY <1>1, <1>f, <2>3
    <3>2. lf2[ls[m]] = lf[ls[m]]
      BY <1>2, <3>1
    <3> QED BY <2>3, <3>1, <3>2 DEF LeftOf
  <2> QED BY <2>1, <2>2, <2>3
<1> QED BY <1>5, <1>8, <1>9, <1>10 DEF Opened

\* What Timers sees of active(item) for the duration c.
Activated(i, c) ==
  /\ SeqsOf(links', lists') = [[m \in Durations |-> Abstract!Unlink(SeqsOf(links, lists)[m], i)]
                               EXCEPT ![c] = Append(@, i)]
  /\ \A m \in Durations : lists'[m] # None <=> lists[m] # None \/ m = c
  /\ \A m \in Durations : LeftOf(lists', left')[m] =
                            IF m = c /\ lists[c] = None THEN c ELSE LeftOf(lists, left)[m]
  /\ timer # None => made'[timer] = made[timer] /\ (lists'[made[timer]] = timer <=> lists[made[timer]] = timer)

\* An item becomes the youngest of the list of the duration c, which may be new.
LEMMA ActivateStep ==
  ASSUME LInv, NEW i \in Items, NEW c \in Durations, NEW to, Linkage(links, to, lists), to[i] = c,
         Activate(i, c), timer' = timer
  PROVE  /\ Linkage(links', to, lists') /\ Objects(links', lists', left', made', closed', timer')
         /\ age' = [age EXCEPT ![i] = 0] /\ age' \in [Items -> Nat]
         /\ In(links', i) /\ Others(links, links', i)
         /\ Activated(i, c)
<1>0. Objects(links, lists, left, made, closed, timer) /\ lists \in [Durations -> Lists \cup {None}]
  BY DEF LInv, Linkage
<1>1. age' = [age EXCEPT ![i] = 0] /\ age' \in [Items -> Nat]
  BY DEF Activate, LInv, ItemsTyped
<1>2. CASE lists[c] # None
  <2>1. links' = append(links, lists[c], i) /\ lists' = lists /\ left' = left /\ made' = made /\ closed' = closed
    BY <1>2 DEF Activate
  <2>2. /\ Linkage(links', to, lists)
        /\ SeqsOf(links', lists) = [[m \in Durations |-> Abstract!Unlink(SeqsOf(links, lists)[m], i)]
                                    EXCEPT ![c] = Append(@, i)]
        /\ In(links', i) /\ Others(links, links', i) /\ Aside(links, links', lists)
    BY <1>2, <2>1, AppendItem
  <2>3. Objects(links', lists, left, made, closed, timer)
    BY <1>0, <2>2, ObjectsAside
  <2>4. Activated(i, c)
    BY <1>2, <2>1, <2>2 DEF Activated
  <2> QED BY <1>1, <2>1, <2>2, <2>3, <2>4
<1>3. CASE lists[c] = None
  <2>1. PICK l \in Lists \ (Range(lists) \cup {timer}) :
          /\ links' = append(init(links, l), l, i)
          /\ lists' = [lists EXCEPT ![c] = l]
          /\ left' = [left EXCEPT ![l] = c]
          /\ made' = [made EXCEPT ![l] = c]
          /\ closed' = [closed EXCEPT ![l] = FALSE]
    BY <1>3 DEF Activate
  <2>2. l \in Lists /\ (\A m \in Durations : lists[m] # l) /\ timer # l /\ l # None
    BY <1>0, LinkedAssumption DEF Range, Nodes
  <2>3. PICK k : k = init(links, l)
    OBVIOUS
  <2>4. PICK ls2, lf2, md2, cl2 : ls2 = lists' /\ lf2 = left' /\ md2 = made' /\ cl2 = closed'
    OBVIOUS
  <2>5. /\ ls2 = [lists EXCEPT ![c] = l] /\ lf2 = [left EXCEPT ![l] = c]
        /\ md2 = [made EXCEPT ![l] = c] /\ cl2 = [closed EXCEPT ![l] = FALSE]
    BY <2>1, <2>4
  <2>6. /\ Linkage(k, to, ls2) /\ SeqsOf(k, ls2) = SeqsOf(links, lists)
        /\ \A y \in Nodes : y # l => k.next[y] = links.next[y] /\ k.prev[y] = links.prev[y]
    <3>1. /\ Linkage(init(links, l), to, [lists EXCEPT ![c] = l])
          /\ SeqsOf(init(links, l), [lists EXCEPT ![c] = l]) = SeqsOf(links, lists)
          /\ \A y \in Nodes : y # l => init(links, l).next[y] = links.next[y] /\ init(links, l).prev[y] = links.prev[y]
      BY <1>3, <2>2, NewList
    <3> QED BY <2>3, <2>5, <3>1
  <2>7. ls2[c] = l /\ (\A m \in Durations : m # c => ls2[m] = lists[m]) /\ links' = append(k, ls2[c], i)
    BY <1>0, <2>1, <2>3, <2>5
  <2>8. /\ Linkage(links', to, ls2)
        /\ SeqsOf(links', ls2) = [[m \in Durations |-> Abstract!Unlink(SeqsOf(k, ls2)[m], i)]
                                    EXCEPT ![c] = Append(@, i)]
        /\ In(links', i) /\ Others(k, links', i) /\ Aside(k, links', ls2)
    <3>1. PICK h : h = append(k, ls2[c], i)
      OBVIOUS
    <3>2. /\ Linkage(h, to, ls2)
          /\ SeqsOf(h, ls2) = [[m \in Durations |-> Abstract!Unlink(SeqsOf(k, ls2)[m], i)]
                               EXCEPT ![c] = Append(@, i)]
          /\ In(h, i) /\ Others(k, h, i) /\ Aside(k, h, ls2)
      <4>1. Linkage(k, to, ls2) /\ ls2[c] # None
        BY <2>2, <2>6, <2>7
      <4> QED BY <3>1, <4>1, AppendItem
    <3> QED BY <2>7, <3>1, <3>2
  <2>9. \A y \in Lists : y # l /\ (\A m \in Durations : lists[m] # y) =>
                            links'.next[y] = links.next[y] /\ links'.prev[y] = links.prev[y]
    <3> TAKE y \in Lists
    <3> HAVE y # l /\ \A m \in Durations : lists[m] # y
    <3>1. \A m \in Durations : ls2[m] # y
      BY <2>7
    <3>2. links'.next[y] = k.next[y] /\ links'.prev[y] = k.prev[y]
      BY <2>8, <3>1 DEF Aside
    <3> QED BY <2>6, <3>2 DEF Nodes
  <2>10. PICK h : h = links'
    OBVIOUS
  <2>11. Opened(h, lists, left, made, timer, c, ls2, lf2, md2, cl2)
    <3>1. \A y \in Lists : y # l /\ (\A m \in Durations : lists[m] # y) =>
                              h.next[y] = links.next[y] /\ h.prev[y] = links.prev[y]
      BY <2>9, <2>10
    <3>2. Fresh(links, h, lists, timer, c, l)
      BY <1>3, <2>2, <3>1 DEF Fresh
    <3> QED BY <1>0, <2>2, <2>5, <3>2, OpenStep
  <2>12. Others(links, links', i)
    <3>1. \A j \in Items : k.next[j] = links.next[j] /\ k.prev[j] = links.prev[j]
      BY <2>2, <2>6, LinkedAssumption DEF Nodes
    <3> QED BY <2>8, <3>1 DEF Others, In
  <2>13. Activated(i, c)
    <3>1. SeqsOf(links', lists') = [[m \in Durations |-> Abstract!Unlink(SeqsOf(links, lists)[m], i)]
                                    EXCEPT ![c] = Append(@, i)]
      BY <2>4, <2>6, <2>8
    <3>2. /\ \A m \in Durations : lists'[m] # None <=> lists[m] # None \/ m = c
          /\ \A m \in Durations : LeftOf(lists', left')[m] = IF m = c THEN c ELSE LeftOf(lists, left)[m]
          /\ timer # None => made'[timer] = made[timer] /\ (lists'[made[timer]] = timer <=> lists[made[timer]] = timer)
      BY <2>4, <2>11 DEF Opened
    <3> QED BY <1>3, <3>1, <3>2 DEF Activated
  <2> QED BY <1>1, <2>4, <2>8, <2>10, <2>11, <2>12, <2>13 DEF Opened
<1> QED BY <1>2, <1>3

\* unenroll(item).
LEMMA UnenrollStep ==
  ASSUME LInv, NEW i \in Items, ~broken, Unenroll(i), onTimeout' \in [Items -> BOOLEAN]
  PROVE  /\ LInv'
         /\ ~broken'
         /\ Abstract!LeaveList(i)
         /\ LinkedOf(links') = [LinkedOf(links) EXCEPT ![i] = FALSE]
<1>0. /\ links' = remove(links, i) /\ CloseIfEmpty(links', timeout[i]) /\ age' = [age EXCEPT ![i] = 0]
      /\ timeout' = [timeout EXCEPT ![i] = Off] /\ made' = made /\ timer' = timer /\ running' = running
  BY DEF Unenroll
<1>1. PICK k : k = remove(links, i)
  OBVIOUS
<1>2. CloseIfEmpty(k, timeout[i])
  BY <1>0, <1>1 DEF CloseIfEmpty, CloseList, KeepLists
<1>3. links' = k \/ links' = init(k, i)
  BY <1>0, <1>1
<1>4. /\ Linkage(links', timeout, lists') /\ Objects(links', lists', left', made', closed', timer')
      /\ age' \in [Items -> Nat] /\ broken' = FALSE
      /\ ~In(links', i) /\ Others(links, links', i)
      /\ links' = k => links'.next[i] = None
      /\ links' = init(k, i) => links'.next[i] = i
      /\ Abstract!LeaveList(i)
  BY <1>0, <1>1, <1>2, <1>3, LeaveStep
<1>5. Linkage(links', timeout', lists')
  <2>1. Linkage(links', [timeout EXCEPT ![i] = Off], lists')
    BY <1>4, Retimed
  <2> QED BY <1>0, <2>1
<1>6. LInv'
  BY <1>0, <1>4, <1>5 DEF LInv, ItemsTyped
<1>7. LinkedOf(links') = [LinkedOf(links) EXCEPT ![i] = FALSE]
  <2>1. links'.next[i] = None /\ Others(links, links', i)
    BY <1>0, <1>1, <1>4
  <2> QED BY <2>1, LinkedOthers
<1> QED BY <1>4, <1>6, <1>7

-----------------------------------------------------------------------------
\* What Timers sees of the item that is in a list, of the code that may run and
\* of the list that expiration walks.
LEMMA InListSame ==
  ASSUME LInv, NEW i \in Items
  PROVE  Abstract!InList(i) <=> InList(i)
<1>1. ASSUME NEW m \in Durations
      PROVE  Abstract!Contains(SeqsOf(links, lists)[m], i) <=> InList(i) /\ timeout[i] = m
  <2>1. PICK s : s = SeqsOf(links, lists)[m]
    OBVIOUS
  <2>2. s \in Seq(Items) /\ ToSet(s) = Members(links, timeout, m)
    BY <2>1, ListSeq DEF LInv
  <2>3. Abstract!Contains(s, i) <=> i \in ToSet(s)
    BY <2>2 DEF Abstract!Contains, ToSet
  <2> QED BY <2>1, <2>2, <2>3 DEF Members, In, InList
<1>2. InList(i) => timeout[i] \in Durations
  BY DEF LInv, Linkage, In, InList
<1> QED BY <1>1, <1>2 DEF Abstract!InList

\* The list object that expiration walks was made for a duration.
LEMMA TimerMade ==
  ASSUME LInv, timer # None
  PROVE  timer \in Lists /\ made[timer] \in Durations /\ made[timer] \in Nat \ {0} /\ made[timer] # Off
<1>1. timer \in Lists /\ made[timer] \in Durations
  BY DEF LInv, Objects
<1>2. Durations \subseteq Nat \ {0}
  BY LinkedAssumption
<1>3. made[timer] \in Nat \ {0}
  BY <1>1, <1>2
<1> QED BY <1>1, <1>3 DEF Off

\* User code may run in the same states of both.
LEMMA UserCodeSame ==
  ASSUME LInv
  PROVE  Abstract!UserCode <=> UserCode
BY TimerMade DEF Abstract!UserCode, UserCode, Abstract!Off, Off, Abstract!None, None

\* peek(list) is the head of the sequence while the walked list is in use, and
\* finds nothing in one that was closed.
LEMMA PeekSame ==
  ASSUME LInv, timer # None,
         NEW c, c = made[timer], NEW s, s = SeqsOf(links, lists)[c]
  PROVE  \/ /\ lists[c] = timer /\ s = <<>> /\ peek(links, timer) = None
         \/ /\ lists[c] = timer /\ s # <<>> /\ peek(links, timer) = Head(s)
            /\ Head(s) \in Items /\ Head(s) # None /\ s \in Seq(Items) /\ ToSet(s) = Members(links, timeout, c)
            /\ \A i, j \in DOMAIN s : s[i] = s[j] => i = j
         \/ /\ lists[c] # timer /\ peek(links, timer) = None
<1>1. timer \in Lists /\ c \in Durations /\ (lists[c] = timer \/ closed[timer])
  BY TimerMade DEF LInv, Objects
<1>2. CASE lists[c] # timer
  <2>1. links.prev[timer] = timer
    BY <1>1, <1>2 DEF LInv, Objects
  <2> QED BY <1>2, <2>1 DEF peek
<1>3. CASE lists[c] = timer
  <2>1. s \in Seq(Items) /\ ToSet(s) = Members(links, timeout, c) /\ Ring(links, timer, s)
    BY <1>1, <1>3, ListSeq DEF LInv
  <2>2. peek(links, timer) = IF s = <<>> THEN None ELSE Head(s)
    BY <1>1, <2>1, RingMembers
  <2>3. s # <<>> => Head(s) \in Items
    BY <2>1
  <2>4. None \notin Items
    BY LinkedAssumption DEF Nodes
  <2>5. \A i, j \in DOMAIN s : s[i] = s[j] => i = j
    BY <2>1 DEF Ring
  <2> QED BY <1>3, <2>1, <2>2, <2>3, <2>4, <2>5
<1> QED BY <1>2, <1>3

\* Taking out the oldest item is taking the tail.
LEMMA UnlinkHead ==
  ASSUME NEW s \in Seq(Items), s # <<>>, \A i, j \in DOMAIN s : s[i] = s[j] => i = j
  PROVE  Abstract!Unlink(s, Head(s)) = Tail(s)
<1>0. Len(s) \in Nat /\ DOMAIN s = 1..Len(s) /\ 1 \in 1..Len(s) /\ Head(s) = s[1]
  OBVIOUS
<1>1. Head(s) \in ToSet(s)
  BY <1>0 DEF ToSet
<1>2. PICK p \in 1..Len(s) : s[p] = Head(s) /\ Cut(s, Abstract!Unlink(s, Head(s)), p)
  BY <1>1, UnlinkIn
<1>3. p = 1
  BY <1>0, <1>2
<1>4. PICK u : u = Abstract!Unlink(s, Head(s))
  OBVIOUS
<1>5. u \in Seq(Items) /\ Len(u) = Len(s) - 1 /\ \A j \in 1..(Len(s) - 1) : u[j] = IF j < 1 THEN s[j] ELSE s[j + 1]
  BY <1>2, <1>3, <1>4 DEF Cut
<1>6. \A j \in 1..(Len(s) - 1) : u[j] = s[j + 1]
  BY <1>0, <1>5
<1>7. PICK v : v = Tail(s)
  OBVIOUS
<1>8. v \in Seq(Items) /\ Len(v) = Len(s) - 1 /\ \A j \in 1..(Len(s) - 1) : v[j] = s[j + 1]
  BY <1>0, <1>7
<1>9. u = v
  BY <1>5, <1>6, <1>8
<1> QED BY <1>4, <1>7, <1>9

\* What active(item) is in Timers: the item is taken out of its sequence and
\* appended to the sequence of its duration.
LEMMA AbstractActivate ==
  ASSUME LInv, NEW i \in Items, NEW c \in Durations, Activated(i, c), In(links', i), Others(links, links', i),
         age' = [age EXCEPT ![i] = 0], timer' = timer
  PROVE  /\ Abstract!Activate(i, c)
         /\ (IF timer' = None THEN Off ELSE made'[timer']) = (IF timer = None THEN Off ELSE made[timer])
         /\ (timer' # None /\ lists'[made'[timer']] = timer') = (timer # None /\ lists[made[timer]] = timer)
<1>1. LinkedOf(links') = [LinkedOf(links) EXCEPT ![i] = TRUE]
  <2>1. links'.next[i] # None
    BY DEF In
  <2> QED BY <2>1, LinkedOthers
<1>2. HasOf(lists') = [HasOf(lists) EXCEPT ![c] = TRUE]
  BY DEF Activated, HasOf
<1>3. LeftOf(lists', left') = IF HasOf(lists)[c] THEN LeftOf(lists, left) ELSE [LeftOf(lists, left) EXCEPT ![c] = c]
  <2>1. LeftOf(lists', left') = [m \in Durations |-> LeftOf(lists', left')[m]]
    BY DEF LeftOf
  <2>2. LeftOf(lists, left) = [m \in Durations |-> LeftOf(lists, left)[m]]
    BY DEF LeftOf
  <2>3. HasOf(lists)[c] <=> lists[c] # None
    BY DEF HasOf
  <2>4. \A m \in Durations : LeftOf(lists', left')[m] =
                              IF m = c /\ lists[c] = None THEN c ELSE LeftOf(lists, left)[m]
    BY DEF Activated
  <2>5. CASE lists[c] = None
    BY <2>1, <2>2, <2>3, <2>4, <2>5
  <2>6. CASE lists[c] # None
    BY <2>1, <2>2, <2>3, <2>4, <2>6
  <2> QED BY <2>5, <2>6
<1>4. SeqsOf(links', lists') = [Abstract!Removed(i) EXCEPT ![c] = Append(@, i)]
  BY DEF Activated, Abstract!Removed
<1>5. Abstract!Activate(i, c)
  BY <1>1, <1>2, <1>3, <1>4 DEF Abstract!Activate, LinkedOf, HasOf, LeftOf, Abstract!Items, Items, Abstract!Off, Off
<1>6. timer # None => made'[timer] = made[timer] /\ (lists'[made[timer]] = timer <=> lists[made[timer]] = timer)
  BY DEF Activated
<1> QED BY <1>5, <1>6

-----------------------------------------------------------------------------
\* setTimeout: the item becomes the youngest of the list of its duration.
LEMMA SetTimeoutStep ==
  ASSUME LInv, NEW i \in Items, NEW c \in Durations, setTimeout(i, c)
  PROVE  LInv' /\ Abstract!setTimeout(i, c)
<1>0. /\ UserCode /\ i \in Timeouts /\ ~InList(i) /\ running # i
      /\ timeout' = [timeout EXCEPT ![i] = c] /\ onTimeout' = [onTimeout EXCEPT ![i] = TRUE]
      /\ Activate(i, c) /\ timer' = timer /\ running' = running /\ broken' = broken
  BY DEF setTimeout
<1>1. PICK to : to = timeout'
  OBVIOUS
<1>2. Linkage(links, to, lists) /\ to[i] = c
  <2>1. ~In(links, i) /\ c \in Durations \cup {Off, Unset} /\ Linkage(links, timeout, lists)
    BY <1>0 DEF InList, In, LInv
  <2>2. Linkage(links, [timeout EXCEPT ![i] = c], lists)
    BY <2>1, Retimed
  <2>3. to[i] = c
    BY <1>0, <1>1 DEF LInv, Linkage
  <2> QED BY <1>0, <1>1, <2>2, <2>3
<1>3. /\ Linkage(links', to, lists') /\ Objects(links', lists', left', made', closed', timer')
      /\ age' = [age EXCEPT ![i] = 0] /\ age' \in [Items -> Nat]
      /\ In(links', i) /\ Others(links, links', i) /\ Activated(i, c)
  BY <1>0, <1>2, ActivateStep
<1>4. LInv'
  BY <1>0, <1>1, <1>3 DEF LInv, ItemsTyped
<1>5. /\ Abstract!Activate(i, c)
      /\ (IF timer' = None THEN Off ELSE made'[timer']) = (IF timer = None THEN Off ELSE made[timer])
      /\ (timer' # None /\ lists'[made'[timer']] = timer') = (timer # None /\ lists[made[timer]] = timer)
  BY <1>0, <1>3, AbstractActivate
<1>6. Abstract!UserCode /\ ~Abstract!InList(i)
  BY <1>0, UserCodeSame, InListSame
<1>7. Abstract!setTimeout(i, c)
  BY <1>0, <1>5, <1>6 DEF Abstract!setTimeout, Abstract!Off, Off
<1> QED BY <1>4, <1>7

\* clearTimer of an item that has its callback.
LEMMA ClearTimerStep ==
  ASSUME LInv, NEW i \in Items, clearTimer(i)
  PROVE  LInv' /\ Abstract!clearTimer(i)
<1>0. /\ UserCode /\ i \in Timeouts /\ onTimeout[i] /\ onTimeout' = [onTimeout EXCEPT ![i] = FALSE] /\ Unenroll(i)
      /\ ~broken /\ broken' = FALSE
      /\ timeout' = [timeout EXCEPT ![i] = Off] /\ timer' = timer /\ made' = made /\ running' = running
  <2>1. Unenroll(i) /\ UserCode /\ i \in Timeouts /\ onTimeout[i] /\ onTimeout' = [onTimeout EXCEPT ![i] = FALSE] /\ ~broken
    BY DEF clearTimer, UserCode
  <2>2. onTimeout' \in [Items -> BOOLEAN]
    BY <2>1 DEF LInv, ItemsTyped
  <2>3. LInv' /\ ~broken'
    BY <2>1, <2>2, UnenrollStep
  <2> QED BY <2>1, <2>3 DEF LInv, ItemsTyped, Unenroll
<1>1. onTimeout' \in [Items -> BOOLEAN]
  BY <1>0 DEF LInv, ItemsTyped
<1>2. LInv' /\ Abstract!LeaveList(i) /\ LinkedOf(links') = [LinkedOf(links) EXCEPT ![i] = FALSE]
  BY <1>0, <1>1, UnenrollStep
<1>3. Abstract!UserCode
  BY <1>0, UserCodeSame
<1>4. broken' = broken
  BY <1>0 DEF LInv, ItemsTyped
<1>5. Abstract!clearTimer(i)
  BY <1>0, <1>2, <1>3, <1>4 DEF Abstract!clearTimer, LinkedOf, Abstract!Off, Off
<1> QED BY <1>2, <1>5

\* A second clearTimer of an item raises a Lua error, the only one Timers knows.
LEMMA ClearTimerAgainStep ==
  ASSUME LInv, NEW i \in Items, clearTimerAgain(i)
  PROVE  LInv' /\ Abstract!clearTimerAgain(i)
<1>1. /\ UserCode /\ i \in Timeouts /\ timeout[i] # Unset /\ ~onTimeout[i] /\ broken' = TRUE
      /\ lists' = lists /\ links' = links /\ left' = left /\ made' = made /\ closed' = closed /\ age' = age
      /\ timeout' = timeout /\ onTimeout' = onTimeout /\ timer' = timer /\ running' = running
  BY DEF clearTimerAgain, itemVars
<1>2. LInv'
  BY <1>1 DEF LInv, ItemsTyped
<1>3. Abstract!UserCode
  BY <1>1, UserCodeSame
<1> QED BY <1>1, <1>2, <1>3 DEF Abstract!clearTimerAgain, Abstract!Unset, Unset

\* unenroll of an idler, from user code.
LEMMA UnenrollIdler ==
  ASSUME LInv, NEW i \in Items, unenroll(i)
  PROVE  LInv' /\ Abstract!unenroll(i)
<1>0. UserCode /\ i \in Idlers /\ Unenroll(i) /\ onTimeout' = onTimeout /\ ~broken
  BY DEF unenroll, UserCode
<1>1. onTimeout' \in [Items -> BOOLEAN]
  BY <1>0 DEF LInv, ItemsTyped
<1>2. /\ LInv' /\ ~broken' /\ Abstract!LeaveList(i)
      /\ LinkedOf(links') = [LinkedOf(links) EXCEPT ![i] = FALSE]
  BY <1>0, <1>1, UnenrollStep
<1>3. Abstract!UserCode
  BY <1>0, UserCodeSame
<1>4. timeout' = [timeout EXCEPT ![i] = Off] /\ timer' = timer /\ made' = made /\ running' = running
  BY <1>0 DEF Unenroll
<1>5. broken' = broken
  BY <1>0, <1>2 DEF LInv, ItemsTyped
<1> QED BY <1>0, <1>2, <1>3, <1>4, <1>5 DEF Abstract!unenroll, LinkedOf, Abstract!Off, Off

\* active of an idler: the item becomes the youngest of the list of its duration.
LEMMA ActiveStep ==
  ASSUME LInv, NEW i \in Items, active(i)
  PROVE  LInv' /\ Abstract!active(i)
<1>0. /\ UserCode /\ i \in Idlers /\ timeout[i] \notin {Off, Unset} /\ Activate(i, timeout[i])
      /\ timeout' = timeout /\ onTimeout' = onTimeout /\ timer' = timer /\ running' = running /\ broken' = broken
  BY DEF active
<1>1. timeout[i] \in Durations
  BY <1>0 DEF LInv, Linkage
<1>2. PICK c \in Durations : c = timeout[i]
  BY <1>1
<1>3. Activate(i, c)
  BY <1>0, <1>2 DEF Activate
<1>4. PICK to : to = timeout
  OBVIOUS
<1>5. Linkage(links, to, lists) /\ to[i] = c
  BY <1>2, <1>4 DEF LInv
<1>6. /\ Linkage(links', to, lists') /\ Objects(links', lists', left', made', closed', timer')
      /\ age' = [age EXCEPT ![i] = 0] /\ age' \in [Items -> Nat]
      /\ In(links', i) /\ Others(links, links', i) /\ Activated(i, c)
  BY <1>0, <1>3, <1>5, ActivateStep
<1>7. LInv'
  BY <1>0, <1>4, <1>6 DEF LInv, ItemsTyped
<1>8. /\ Abstract!Activate(i, c)
      /\ (IF timer' = None THEN Off ELSE made'[timer']) = (IF timer = None THEN Off ELSE made[timer])
      /\ (timer' # None /\ lists'[made'[timer']] = timer') = (timer # None /\ lists[made[timer]] = timer)
  BY <1>0, <1>6, AbstractActivate
<1>9. Abstract!UserCode
  BY <1>0, UserCodeSame
<1>10. Abstract!Activate(i, timeout[i])
  BY <1>2, <1>8 DEF Abstract!Activate
<1> QED BY <1>0, <1>7, <1>8, <1>9, <1>10 DEF Abstract!active, Abstract!Off, Off, Abstract!Unset, Unset

\* enroll: an item with links leaves the list it is in, if any; then it is linked
\* to itself and gets its duration.
LEMMA EnrollStep ==
  ASSUME LInv, NEW i \in Items, NEW c \in Durations, enroll(i, c)
  PROVE  LInv' /\ Abstract!enroll(i, c)
<1>0. /\ UserCode /\ i \in Idlers /\ timeout' = [timeout EXCEPT ![i] = c]
      /\ made' = made /\ onTimeout' = onTimeout /\ timer' = timer /\ running' = running /\ ~broken /\ broken = FALSE
  BY DEF enroll, UserCode, LInv, ItemsTyped
<1>1. Abstract!UserCode
  BY <1>0, UserCodeSame
<1>2. LinkedOf(links)[i] <=> links.next[i] # None
  BY DEF LinkedOf
<1>3. ASSUME Linkage(links', timeout, lists'), ~In(links', i) PROVE Linkage(links', timeout', lists')
  <2>1. Linkage(links', [timeout EXCEPT ![i] = c], lists')
    BY <1>3, Retimed
  <2> QED BY <1>0, <2>1
<1>4. i # None
  BY LinkedAssumption DEF Nodes
<1>5. CASE links.next[i] # None
  <2>1. PICK k : k = remove(links, i)
    OBVIOUS
  <2>2. links' = init(k, i) /\ CloseIfEmpty(k, timeout[i]) /\ age' = [age EXCEPT ![i] = 0]
    BY <1>5, <2>1 DEF enroll, CloseIfEmpty, CloseList, KeepLists
  <2>3. /\ Linkage(links', timeout, lists') /\ Objects(links', lists', left', made', closed', timer')
        /\ age' \in [Items -> Nat] /\ broken' = FALSE
        /\ ~In(links', i) /\ Others(links, links', i)
        /\ links' = k => links'.next[i] = None
        /\ links' = init(k, i) => links'.next[i] = i
        /\ Abstract!LeaveList(i)
    BY <1>0, <2>1, <2>2, LeaveStep
  <2>4. LInv'
    BY <1>0, <1>3, <2>3 DEF LInv, ItemsTyped
  <2>5. LinkedOf(links') = [LinkedOf(links) EXCEPT ![i] = TRUE]
    <3>1. links'.next[i] # None /\ Others(links, links', i)
      BY <1>4, <2>2, <2>3
    <3> QED BY <3>1, LinkedOthers
  <2> QED BY <1>0, <1>1, <1>2, <1>5, <2>3, <2>4, <2>5 DEF Abstract!enroll, LinkedOf
<1>6. CASE links.next[i] = None
  <2>1. links' = init(links, i) /\ lists' = lists /\ left' = left /\ closed' = closed /\ broken' = broken /\ age' = age
    BY <1>6 DEF enroll, KeepLists
  <2>2. ~In(links, i) /\ Linkage(links, timeout, lists)
    BY <1>6 DEF In, LInv
  <2>3. /\ Linkage(links', timeout, lists) /\ SeqsOf(links', lists) = SeqsOf(links, lists)
        /\ links'.next[i] = i /\ Others(links, links', i) /\ Aside(links, links', lists)
    BY <2>1, <2>2, InitItem
  <2>4. Objects(links', lists, left, made, closed, timer)
    BY <2>3, ObjectsAside DEF LInv, Linkage
  <2>5. ~In(links', i)
    BY <2>3 DEF In
  <2>6. LInv'
    BY <1>0, <1>3, <2>1, <2>3, <2>4, <2>5 DEF LInv, ItemsTyped
  <2>7. LinkedOf(links') = [LinkedOf(links) EXCEPT ![i] = TRUE]
    <3>1. links'.next[i] # None /\ Others(links, links', i)
      BY <1>4, <2>3
    <3> QED BY <3>1, LinkedOthers
  <2> QED BY <1>0, <1>1, <1>2, <1>6, <2>1, <2>3, <2>6, <2>7 DEF Abstract!enroll, LinkedOf
<1> QED BY <1>5, <1>6

\* Time passes: the list objects in use count down as the durations do in Timers.
LEMMA TickStep ==
  ASSUME LInv, NEW d \in 1..MaxStep, Tick(d)
  PROVE  LInv' /\ Abstract!Tick(d)
<1>0. /\ ~broken /\ timer = None /\ \A l \in Lists : left[l] # 0
      /\ left' = [l \in Lists |-> CASE left[l] = Off    -> Off
                                     [] left[l] \in 0..d -> 0
                                     [] OTHER            -> left[l] - d]
      /\ age' = [i \in Items |-> IF InList(i) THEN age[i] + d ELSE 0]
      /\ lists' = lists /\ links' = links /\ made' = made /\ closed' = closed /\ timeout' = timeout
      /\ onTimeout' = onTimeout /\ timer' = timer /\ running' = running /\ broken' = broken
  BY DEF Tick
<1>1. d \in Nat \ {0} /\ left \in [Lists -> Nat \cup {Off}] /\ (\A l \in Lists : left[l] <= made[l])
      /\ lists \in [Durations -> Lists \cup {None}] /\ made \in [Lists -> Durations \cup {Unset}]
  <2>1. d \in Nat \ {0}
    BY LinkedAssumption
  <2> QED BY <2>1 DEF LInv, Objects, Linkage
<1>2. ASSUME NEW l \in Lists
      PROVE  /\ left'[l] \in Nat \cup {Off} /\ left'[l] <= made[l] /\ (left'[l] = Off <=> left[l] = Off)
  <2>1. left[l] \in Nat \cup {Off} /\ left[l] <= made[l] /\ made[l] \in Nat
    <3>1. made[l] \in Durations \cup {0} /\ Durations \cup {0} \subseteq Nat
      BY <1>1, LinkedAssumption DEF Unset
    <3> QED BY <1>1, <3>1
  <2>2. CASE left[l] = Off
    <3>1. left'[l] = Off
      BY <1>0, <2>2 DEF Off
    <3> QED BY <2>1, <2>2, <3>1
  <2>3. CASE left[l] # Off /\ left[l] \in 0..d
    <3>1. left'[l] = 0
      BY <1>0, <2>3
    <3> QED BY <2>1, <2>3, <3>1 DEF Off
  <2>4. CASE left[l] # Off /\ left[l] \notin 0..d
    <3>1. left'[l] = left[l] - d
      BY <1>0, <2>4
    <3>2. left[l] \in Nat /\ left[l] > d
      BY <1>1, <2>1, <2>4
    <3> QED BY <1>1, <2>1, <2>4, <3>1, <3>2 DEF Off
  <2> QED BY <2>2, <2>3, <2>4
<1>3. left' \in [Lists -> Nat \cup {Off}]
  <2>1. left' = [l \in Lists |-> left'[l]]
    BY <1>0
  <2> QED BY <1>2, <2>1
<1>4. age' \in [Items -> Nat]
  BY <1>0, <1>1 DEF LInv, ItemsTyped
<1>5. Objects(links', lists', left', made', closed', timer')
  <2>1. Objects(links, lists, left, made, closed, timer)
    BY DEF LInv
  <2> QED BY <1>0, <1>2, <1>3, <2>1 DEF Objects
<1>6. LInv'
  BY <1>0, <1>4, <1>5 DEF LInv, ItemsTyped
<1>7. ASSUME NEW m \in Durations
      PROVE  /\ LeftOf(lists, left)[m] # 0
             /\ LeftOf(lists', left')[m] = CASE LeftOf(lists, left)[m] = Off    -> Off
                                            [] LeftOf(lists, left)[m] \in 0..d -> 0
                                            [] OTHER            -> LeftOf(lists, left)[m] - d
  <2>1. CASE lists[m] = None
    <3>1. LeftOf(lists, left)[m] = Off /\ LeftOf(lists', left')[m] = Off
      BY <1>0, <2>1 DEF LeftOf
    <3> QED BY <3>1 DEF Off
  <2>2. CASE lists[m] # None
    <3>1. lists[m] \in Lists /\ LeftOf(lists, left)[m] = left[lists[m]] /\ LeftOf(lists', left')[m] = left'[lists[m]]
      BY <1>0, <1>1, <2>2 DEF LeftOf
    <3> QED BY <1>0, <3>1
  <2> QED BY <2>1, <2>2
<1>8. LeftOf(lists', left') = [m \in Durations |-> CASE LeftOf(lists, left)[m] = Off    -> Off
                                                  [] LeftOf(lists, left)[m] \in 0..d -> 0
                                                  [] OTHER            -> LeftOf(lists, left)[m] - d]
  <2>1. LeftOf(lists', left') = [m \in Durations |-> LeftOf(lists', left')[m]]
    BY DEF LeftOf
  <2> HIDE DEF LeftOf
  <2> QED BY <1>7, <2>1
<1>9. age' = [i \in Items |-> IF Abstract!InList(i) THEN age[i] + d ELSE 0]
  BY <1>0, InListSame
<1>10. Abstract!Tick(d)
  BY <1>0, <1>7, <1>8, <1>9 DEF Abstract!Tick, LeftOf, Abstract!Off, Off, Abstract!Items, Items
<1> QED BY <1>6, <1>10

\* libuv calls the expiration function of a list object: it is the list of a
\* duration.
LEMMA CallStep ==
  ASSUME LInv, NEW l \in Lists, expirationCall(l)
  PROVE  LInv' /\ \E m \in Durations : Abstract!expirationCall(m)
<1>0. /\ ~broken /\ timer = None /\ left[l] = 0 /\ timer' = l /\ left' = [left EXCEPT ![l] = Off]
      /\ lists' = lists /\ links' = links /\ made' = made /\ closed' = closed /\ age' = age
      /\ timeout' = timeout /\ onTimeout' = onTimeout /\ running' = running /\ broken' = broken
  BY DEF expirationCall, itemVars
<1>1. Objects(links, lists, left, made, closed, timer) /\ lists \in [Durations -> Lists \cup {None}] /\ l # None
  BY LinkedAssumption DEF LInv, Linkage, Nodes
<1>2. PICK m \in Durations : lists[m] = l
  BY <1>0, <1>1 DEF Objects, Off
<1>3. made[l] = m
  BY <1>1, <1>2 DEF Objects
<1>4. /\ left' \in [Lists -> Nat \cup {Off}] /\ left'[l] = Off
      /\ \A y \in Lists : y # l => left'[y] = left[y]
  BY <1>0, <1>1 DEF Objects
<1>5. ASSUME NEW y \in Lists PROVE left'[y] <= made[y]
  <2>1. CASE y = l
    <3>1. m \in Nat
      BY LinkedAssumption
    <3> QED BY <1>3, <1>4, <2>1, <3>1 DEF Off
  <2>2. CASE y # l
    BY <1>1, <1>4, <2>2 DEF Objects
  <2> QED BY <2>1, <2>2
<1>6. Objects(links', lists', left', made', closed', timer')
  <2>1. \A y \in Lists : left'[y] # Off => left[y] # Off
    BY <1>4
  <2>2. \A y \in Lists : left[y] = Off => left'[y] = Off
    BY <1>4
  <2> QED BY <1>0, <1>1, <1>2, <1>3, <1>4, <1>5, <2>1, <2>2 DEF Objects
<1>7. LInv'
  BY <1>0, <1>6 DEF LInv, ItemsTyped
<1>8. LeftOf(lists', left') = [LeftOf(lists, left) EXCEPT ![m] = Off] /\ LeftOf(lists, left)[m] = 0
  <2>1. \A n \in Durations : lists[n] = l => n = m
    BY <1>1, <1>2 DEF LInv, Linkage
  <2>2. ASSUME NEW n \in Durations PROVE LeftOf(lists', left')[n] = IF n = m THEN Off ELSE LeftOf(lists, left)[n]
    <3>1. CASE n = m
      BY <1>0, <1>1, <1>2, <1>4, <3>1 DEF LeftOf
    <3>2. CASE n # m /\ lists[n] = None
      BY <1>0, <3>2 DEF LeftOf
    <3>3. CASE n # m /\ lists[n] # None
      <4>1. lists[n] \in Lists /\ lists[n] # l
        BY <1>1, <2>1, <3>3
      <4>2. left'[lists[n]] = left[lists[n]]
        BY <1>4, <4>1
      <4> QED BY <1>0, <3>3, <4>2 DEF LeftOf
    <3> QED BY <3>1, <3>2, <3>3
  <2>3. /\ LeftOf(lists', left') = [n \in Durations |-> LeftOf(lists', left')[n]]
        /\ LeftOf(lists, left) = [n \in Durations |-> LeftOf(lists, left)[n]]
    BY DEF LeftOf
  <2>4. LeftOf(lists, left)[m] = 0
    BY <1>0, <1>1, <1>2 DEF LeftOf
  <2> QED BY <2>2, <2>3, <2>4
<1>9. Abstract!expirationCall(m)
  BY <1>0, <1>1, <1>2, <1>3, <1>8 DEF Abstract!expirationCall, LeftOf, Abstract!Off, Off
<1> QED BY <1>7, <1>9

\* The callback of an item returns to expiration.
LEMMA ReturnStep ==
  ASSUME LInv, expirationReturn
  PROVE  LInv' /\ Abstract!expirationReturn
<1>0. /\ ~broken /\ running # None /\ running' = None
      /\ lists' = lists /\ links' = links /\ left' = left /\ made' = made /\ closed' = closed /\ age' = age
      /\ timeout' = timeout /\ onTimeout' = onTimeout /\ timer' = timer /\ broken' = broken
  BY DEF expirationReturn, itemVars
<1>1. LInv'
  BY <1>0 DEF LInv, ItemsTyped
<1> QED BY <1>0, <1>1 DEF Abstract!expirationReturn, Abstract!None, None

\* expiration meets an item that is too young and starts the timer again.
LEMMA RestartStep ==
  ASSUME LInv, expirationRestart
  PROVE  LInv' /\ Abstract!expirationRestart
<1> DEFINE elem == peek(links, timer)
<1>0. /\ ~broken /\ broken = FALSE /\ timer # None /\ running = None /\ elem # None /\ age[elem] + 1 < made[timer]
      /\ left' = [left EXCEPT ![timer] = made[timer] - age[elem]]
      /\ broken' = closed[timer] /\ timer' = None
      /\ lists' = lists /\ links' = links /\ made' = made /\ closed' = closed /\ age' = age
      /\ timeout' = timeout /\ onTimeout' = onTimeout /\ running' = running
  BY DEF expirationRestart, AtLoop, msecs, itemVars, LInv, ItemsTyped
<1>1. PICK c : c = made[timer]
  OBVIOUS
<1>2. PICK s : s = SeqsOf(links, lists)[c]
  OBVIOUS
<1>3. timer \in Lists /\ c \in Durations /\ c \in Nat \ {0} /\ c # Off
  BY <1>0, <1>1, TimerMade
<1>4. lists[c] = timer /\ s # <<>> /\ elem = Head(s) /\ elem \in Items
  BY <1>0, <1>1, <1>2, PeekSame
<1> HIDE DEF elem
<1>5. Objects(links, lists, left, made, closed, timer)
  BY DEF LInv
<1>6. closed[timer] = FALSE /\ age[elem] \in Nat /\ c - age[elem] \in Nat /\ c - age[elem] <= c
  <2>1. closed[timer] = FALSE
    BY <1>0, <1>3, <1>4, <1>5 DEF Objects
  <2>2. age[elem] \in Nat
    BY <1>4 DEF LInv, ItemsTyped
  <2> QED BY <1>0, <1>1, <1>3, <2>1, <2>2
<1>7. /\ left' \in [Lists -> Nat \cup {Off}] /\ left'[timer] = c - age[elem]
      /\ \A y \in Lists : y # timer => left'[y] = left[y]
  BY <1>0, <1>1, <1>3, <1>5, <1>6 DEF Objects
<1>8. ASSUME NEW y \in Lists PROVE left'[y] <= made[y]
  <2>1. CASE y = timer
    BY <1>1, <1>6, <1>7, <2>1
  <2>2. CASE y # timer
    BY <1>5, <1>7, <2>2 DEF Objects
  <2> QED BY <2>1, <2>2
<1>9. Objects(links', lists', left', made', closed', timer')
  <2>1. ASSUME NEW y \in Lists, closed[y] PROVE left'[y] = Off /\ links.next[y] = y /\ links.prev[y] = y
    BY <1>5, <1>6, <1>7, <2>1 DEF Objects
  <2>2. ASSUME NEW y \in Lists, left'[y] # Off PROVE \E m \in Durations : lists[m] = y
    <3>1. CASE y = timer
      BY <1>3, <1>4, <3>1
    <3>2. CASE y # timer
      BY <1>5, <1>7, <2>2, <3>2 DEF Objects
    <3> QED BY <3>1, <3>2
  <2> QED BY <1>0, <1>5, <1>7, <1>8, <2>1, <2>2 DEF Objects
<1>10. LInv'
  BY <1>0, <1>6, <1>9 DEF LInv, ItemsTyped
<1>11. LeftOf(lists', left') = [LeftOf(lists, left) EXCEPT ![c] = c - age[Head(s)]]
  <2>1. \A n \in Durations : lists[n] = timer => n = c
    BY <1>0, <1>3, <1>4 DEF LInv, Linkage
  <2>2. ASSUME NEW n \in Durations
        PROVE  LeftOf(lists', left')[n] = IF n = c THEN c - age[Head(s)] ELSE LeftOf(lists, left)[n]
    <3>1. CASE n = c
      BY <1>0, <1>3, <1>4, <1>7, <3>1 DEF LeftOf
    <3>2. CASE n # c /\ lists[n] = None
      BY <1>0, <3>2 DEF LeftOf
    <3>3. CASE n # c /\ lists[n] # None
      <4>1. lists[n] \in Lists /\ lists[n] # timer
        BY <2>1, <3>3 DEF LInv, Linkage
      <4>2. left'[lists[n]] = left[lists[n]]
        BY <1>7, <4>1
      <4> QED BY <1>0, <3>3, <4>2 DEF LeftOf
    <3> QED BY <3>1, <3>2, <3>3
  <2>3. /\ LeftOf(lists', left') = [n \in Durations |-> LeftOf(lists', left')[n]]
        /\ LeftOf(lists, left) = [n \in Durations |-> LeftOf(lists, left)[n]]
    BY DEF LeftOf
  <2> QED BY <2>2, <2>3
<1>12. Abstract!AtLoop /\ Abstract!More /\ Abstract!TooYoung(Head(s))
  BY <1>0, <1>1, <1>2, <1>3, <1>4
     DEF Abstract!AtLoop, Abstract!More, Abstract!TooYoung, Abstract!Off, Off, Abstract!None, None
<1>13. broken' = broken
  BY <1>0, <1>6
<1>14. Abstract!expirationRestart
  BY <1>0, <1>1, <1>2, <1>11, <1>12, <1>13 DEF Abstract!expirationRestart, LeftOf, Abstract!Off, Off, Abstract!TooYoung
<1> QED BY <1>10, <1>14

\* expiration takes the oldest item out of the list and runs its callback.
LEMMA FireStep ==
  ASSUME LInv, expirationFire
  PROVE  LInv' /\ Abstract!expirationFire
<1> DEFINE elem == peek(links, timer)
<1>0. /\ ~broken /\ timer # None /\ running = None /\ elem # None /\ ~(age[elem] + 1 < made[timer])
      /\ links' = remove(links, elem) /\ age' = [age EXCEPT ![elem] = 0]
      /\ running' = IF onTimeout[elem] THEN elem ELSE None
      /\ lists' = lists /\ left' = left /\ made' = made /\ closed' = closed
      /\ timeout' = timeout /\ onTimeout' = onTimeout /\ timer' = timer /\ broken' = broken
  BY DEF expirationFire, AtLoop, msecs
<1>1. PICK c : c = made[timer]
  OBVIOUS
<1>2. PICK s : s = SeqsOf(links, lists)[c]
  OBVIOUS
<1>3. timer \in Lists /\ c \in Durations /\ c \in Nat \ {0} /\ c # Off
  BY <1>0, <1>1, TimerMade
<1>4. /\ lists[c] = timer /\ s # <<>> /\ elem = Head(s) /\ elem \in Items
      /\ s \in Seq(Items) /\ ToSet(s) = Members(links, timeout, c)
      /\ \A i, j \in DOMAIN s : s[i] = s[j] => i = j
  BY <1>0, <1>1, <1>2, PeekSame
<1>5. PICK e \in Items : e = elem
  BY <1>4
<1> HIDE DEF elem
<1>6. Linkage(links, timeout, lists) /\ Objects(links, lists, left, made, closed, timer)
  BY DEF LInv
<1>7. /\ Linkage(links', timeout, lists)
      /\ SeqsOf(links', lists) = [m \in Durations |-> Abstract!Unlink(SeqsOf(links, lists)[m], e)]
      /\ links'.next[e] = None /\ links'.prev[e] = None
      /\ Others(links, links', e) /\ Aside(links, links', lists)
  BY <1>0, <1>5, <1>6, RemoveItem
<1>8. Objects(links', lists, left, made, closed, timer)
  BY <1>6, <1>7, ObjectsAside DEF Linkage
<1>9. LInv'
  <2>1. age' \in [Items -> Nat] /\ running' \in Items \cup {None}
    BY <1>0, <1>4 DEF LInv, ItemsTyped
  <2> QED BY <1>0, <1>7, <1>8, <2>1 DEF LInv, ItemsTyped
<1>10. SeqsOf(links', lists') = [SeqsOf(links, lists) EXCEPT ![c] = Tail(@)]
  <2>1. SeqsOf(links, lists) = [m \in Durations |-> SeqsOf(links, lists)[m]]
    BY DEF SeqsOf
  <2>2. Abstract!Unlink(s, e) = Tail(s)
    BY <1>4, <1>5, UnlinkHead
  <2>3. ASSUME NEW m \in Durations, m # c
        PROVE  Abstract!Unlink(SeqsOf(links, lists)[m], e) = SeqsOf(links, lists)[m]
    <3>1. PICK q : q = SeqsOf(links, lists)[m]
      OBVIOUS
    <3>2. q \in Seq(Items) /\ ToSet(q) = Members(links, timeout, m)
      BY <1>6, <3>1, ListSeq
    <3>3. e \in ToSet(s)
      <4>1. 1 \in DOMAIN s /\ Head(s) = s[1]
        BY <1>4
      <4> QED BY <1>4, <1>5, <4>1 DEF ToSet
    <3>4. e \notin ToSet(q)
      BY <1>4, <2>3, <3>2, <3>3 DEF Members
    <3> QED BY <3>1, <3>2, <3>4, UnlinkOut
  <2> QED BY <1>0, <1>2, <1>3, <1>7, <2>1, <2>2, <2>3
<1>11. LinkedOf(links') = [LinkedOf(links) EXCEPT ![e] = FALSE]
  BY <1>7, LinkedOthers
<1>12. Abstract!AtLoop /\ Abstract!More /\ ~Abstract!TooYoung(Head(s))
  BY <1>0, <1>1, <1>2, <1>3, <1>4
     DEF Abstract!AtLoop, Abstract!More, Abstract!TooYoung, Abstract!Off, Off, Abstract!None, None
<1>13. e = Head(s)
  BY <1>4, <1>5
<1>14. /\ age' = [age EXCEPT ![Head(s)] = 0] /\ running' = IF onTimeout[Head(s)] THEN Head(s) ELSE None
       /\ LinkedOf(links') = [LinkedOf(links) EXCEPT ![Head(s)] = FALSE]
  BY <1>0, <1>4, <1>11, <1>13
<1>15. Abstract!expirationFire
  BY <1>0, <1>1, <1>2, <1>10, <1>12, <1>14
     DEF Abstract!expirationFire, LinkedOf, Abstract!TooYoung, Abstract!None, None, Abstract!Off, Off
<1> QED BY <1>9, <1>15

\* expiration finds no more items and closes the list of its duration, which
\* may be another than the one it walked, or none.
LEMMA EndStep ==
  ASSUME LInv, expirationEnd
  PROVE  LInv' /\ Abstract!expirationEnd
<1>0. /\ ~broken /\ broken = FALSE /\ timer # None /\ running = None /\ peek(links, timer) = None
      /\ CloseIfEmpty(links, made[timer]) /\ timer' = None
      /\ links' = links /\ made' = made /\ age' = age /\ timeout' = timeout /\ onTimeout' = onTimeout /\ running' = running
  BY DEF expirationEnd, AtLoop, msecs, itemVars, LInv, ItemsTyped, CloseIfEmpty, CloseList, KeepLists
<1>1. PICK c : c = made[timer]
  OBVIOUS
<1>2. PICK s : s = SeqsOf(links, lists)[c]
  OBVIOUS
<1>3. timer \in Lists /\ c \in Durations /\ c \in Nat \ {0} /\ c # Off
  BY <1>0, <1>1, TimerMade
<1>4. lists[c] = timer => s = <<>>
  BY <1>0, <1>1, <1>2, PeekSame
<1>5. Linkage(links, timeout, lists) /\ Objects(links, lists, left, made, closed, timer)
  BY DEF LInv
<1>6. Abstract!AtLoop /\ ~Abstract!More
  BY <1>0, <1>1, <1>2, <1>3, <1>4 DEF Abstract!AtLoop, Abstract!More, Abstract!Off, Off, Abstract!None, None
<1>7. lists[c] # None => (isEmpty(links, lists[c]) <=> s = <<>>)
  <2> HAVE lists[c] # None
  <2>1. lists[c] \in Lists /\ Ring(links, lists[c], s)
    BY <1>2, <1>3, <1>5, ListSeq
  <2> QED BY <2>1, RingMembers
<1>8. ASSUME Objects(links, lists', left', made, closed', timer) PROVE Objects(links', lists', left', made', closed', timer')
  BY <1>0, <1>8 DEF Objects
<1>9. CASE lists[c] # None /\ s = <<>>
  <2>1. /\ lists' = [lists EXCEPT ![c] = None] /\ left' = [left EXCEPT ![lists[c]] = Off]
        /\ closed' = [closed EXCEPT ![lists[c]] = TRUE] /\ broken' = closed[lists[c]]
    BY <1>0, <1>1, <1>3, <1>7, <1>9 DEF CloseIfEmpty, CloseList
  <2>2. PICK ls2, lf2, cl2 : ls2 = lists' /\ lf2 = left' /\ cl2 = closed'
    OBVIOUS
  <2>3. /\ ls2 = [lists EXCEPT ![c] = None] /\ lf2 = [left EXCEPT ![lists[c]] = Off]
        /\ cl2 = [closed EXCEPT ![lists[c]] = TRUE] /\ SeqsOf(links, lists)[c] = <<>>
    BY <1>2, <1>9, <2>1, <2>2
  <2>4. Shut(links, timeout, lists, left, made, closed, timer, c, ls2, lf2, cl2)
    BY <1>3, <1>5, <1>9, <2>3, CloseStep
  <2>5. /\ closed[lists[c]] = FALSE
        /\ Linkage(links, timeout, lists') /\ SeqsOf(links, lists') = SeqsOf(links, lists)
        /\ Objects(links, lists', left', made, closed', timer)
        /\ \A m \in Durations : lists'[m] # None <=> lists[m] # None /\ m # c
        /\ \A m \in Durations : LeftOf(lists', left')[m] = IF m = c THEN Off ELSE LeftOf(lists, left)[m]
    BY <2>2, <2>4 DEF Shut
  <2>6. broken' = broken
    BY <1>0, <2>1, <2>5
  <2>7. LInv'
    BY <1>0, <1>8, <2>5, <2>6 DEF LInv, ItemsTyped
  <2>8. HasOf(lists') = [HasOf(lists) EXCEPT ![c] = FALSE] /\ HasOf(lists)[c]
    BY <1>3, <1>9, <2>5 DEF HasOf
  <2>9. LeftOf(lists', left') = [LeftOf(lists, left) EXCEPT ![c] = Off]
    <3>1. /\ LeftOf(lists', left') = [n \in Durations |-> LeftOf(lists', left')[n]]
          /\ LeftOf(lists, left) = [n \in Durations |-> LeftOf(lists, left)[n]]
      BY DEF LeftOf
    <3> QED BY <2>5, <3>1
  <2>10. HasOf(lists') = [HasOf(lists) EXCEPT ![c] = @ /\ ~(HasOf(lists)[c] /\ s = <<>>)]
    BY <1>9, <2>8
  <2>11. Abstract!expirationEnd
    BY <1>0, <1>1, <1>2, <1>6, <1>9, <2>5, <2>6, <2>8, <2>9, <2>10
       DEF Abstract!expirationEnd, HasOf, LeftOf, Abstract!Off, Off
  <2> QED BY <2>7, <2>11
<1>10. CASE ~(lists[c] # None /\ s = <<>>)
  <2>1. lists' = lists /\ left' = left /\ closed' = closed /\ broken' = broken
    BY <1>0, <1>1, <1>3, <1>7, <1>10 DEF CloseIfEmpty, KeepLists
  <2>2. LInv'
    BY <1>0, <1>5, <1>8, <2>1 DEF LInv, ItemsTyped
  <2>3. ~(HasOf(lists)[c] /\ s = <<>>)
    BY <1>3, <1>10 DEF HasOf
  <2>4. HasOf(lists') = [HasOf(lists) EXCEPT ![c] = @ /\ ~(HasOf(lists)[c] /\ s = <<>>)]
    BY <2>1, <2>3 DEF HasOf
  <2>5. Abstract!expirationEnd
    BY <1>0, <1>1, <1>2, <1>6, <2>1, <2>3, <2>4
       DEF Abstract!expirationEnd, HasOf, LeftOf, Abstract!Off, Off
  <2> QED BY <2>2, <2>5
<1> QED BY <1>9, <1>10

-----------------------------------------------------------------------------
\* In the beginning there is no list and no item is linked; Timers starts there
\* too.
LEMMA LInvInit ==
  ASSUME Init
  PROVE  LInv /\ Abstract!Init
<1>1. /\ lists = [m \in Durations |-> None] /\ left = [l \in Lists |-> Off] /\ made = [l \in Lists |-> Unset]
      /\ closed = [l \in Lists |-> FALSE] /\ age = [i \in Items |-> 0] /\ timeout = [i \in Items |-> Unset]
      /\ onTimeout = [i \in Items |-> i \in Idlers] /\ timer = None /\ running = None /\ broken = FALSE
      /\ links = [next |-> [x \in Nodes |-> None], prev |-> [x \in Nodes |-> None]]
  BY DEF Init
<1>2. links \in AllLinks /\ \A i \in Items : ~In(links, i) /\ links.prev[i] = links.next[i] /\ links.next[i] = None
  BY <1>1 DEF AllLinks, In, Nodes
<1>3. Linkage(links, timeout, lists)
  BY <1>1, <1>2 DEF Linkage
<1>4. Objects(links, lists, left, made, closed, timer)
  <2>1. left \in [Lists -> Nat \cup {Off}] /\ (\A l \in Lists : left[l] <= made[l])
    BY <1>1 DEF Off, Unset
  <2> QED BY <1>1, <2>1 DEF Objects
<1>5. ItemsTyped
  <2>1. onTimeout \in [Items -> BOOLEAN]
    <3>1. \A i \in Items : (i \in Idlers) \in BOOLEAN
      OBVIOUS
    <3> QED BY <1>1, <3>1
  <2> QED BY <1>1, <2>1 DEF ItemsTyped
<1>6. SeqsOf(links, lists) = [m \in Durations |-> <<>>]
  BY <1>1 DEF SeqsOf
<1>7. Abstract!Init
  <2>1. [m \in Durations |-> lists[m] # None] = [m \in Durations |-> FALSE]
    BY <1>1
  <2>2. [m \in Durations |-> IF lists[m] = None THEN Off ELSE left[lists[m]]] = [m \in Durations |-> Off]
    BY <1>1
  <2>3. [i \in Items |-> links.next[i] # None] = [i \in Items |-> FALSE]
    BY <1>2
  <2> QED BY <1>1, <1>6, <2>1, <2>2, <2>3, SameConstants DEF Abstract!Init
<1> QED BY <1>3, <1>4, <1>5, <1>7 DEF LInv

\* Every step of timer.lua keeps the invariant and is one of Timers.
LEMMA LInvNext ==
  ASSUME LInv, [Next]_vars
  PROVE  LInv' /\ [Abstract!Next]_(Abstract!vars)
<1>1. ASSUME NEW i \in Items, NEW m \in Durations, setTimeout(i, m) PROVE LInv' /\ Abstract!Next
  BY <1>1, SetTimeoutStep DEF Abstract!Next, Abstract!User, Abstract!Items, Items
<1>2. ASSUME NEW i \in Items, NEW m \in Durations, enroll(i, m) PROVE LInv' /\ Abstract!Next
  BY <1>2, EnrollStep DEF Abstract!Next, Abstract!User, Abstract!Items, Items
<1>3. ASSUME NEW i \in Items, clearTimer(i) PROVE LInv' /\ Abstract!Next
  BY <1>3, ClearTimerStep DEF Abstract!Next, Abstract!User, Abstract!Items, Items
<1>4. ASSUME NEW i \in Items, clearTimerAgain(i) PROVE LInv' /\ Abstract!Next
  BY <1>4, ClearTimerAgainStep DEF Abstract!Next, Abstract!User, Abstract!Items, Items
<1>5. ASSUME NEW i \in Items, active(i) PROVE LInv' /\ Abstract!Next
  BY <1>5, ActiveStep DEF Abstract!Next, Abstract!User, Abstract!Items, Items
<1>6. ASSUME NEW i \in Items, unenroll(i) PROVE LInv' /\ Abstract!Next
  BY <1>6, UnenrollIdler DEF Abstract!Next, Abstract!User, Abstract!Items, Items
<1>7. ASSUME NEW l \in Lists, expirationCall(l) PROVE LInv' /\ Abstract!Next
  BY <1>7, CallStep DEF Abstract!Next, Abstract!Expire
<1>8. ASSUME expirationRestart PROVE LInv' /\ Abstract!Next
  BY <1>8, RestartStep DEF Abstract!Next, Abstract!Expire
<1>9. ASSUME expirationFire PROVE LInv' /\ Abstract!Next
  BY <1>9, FireStep DEF Abstract!Next, Abstract!Expire
<1>10. ASSUME expirationReturn PROVE LInv' /\ Abstract!Next
  BY <1>10, ReturnStep DEF Abstract!Next, Abstract!Expire
<1>11. ASSUME expirationEnd PROVE LInv' /\ Abstract!Next
  BY <1>11, EndStep DEF Abstract!Next, Abstract!Expire
<1>12. ASSUME NEW d \in 1..MaxStep, Tick(d) PROVE LInv' /\ Abstract!Next
  BY <1>12, TickStep DEF Abstract!Next
<1>13. CASE UNCHANGED vars
  <2>1. /\ lists' = lists /\ links' = links /\ left' = left /\ made' = made /\ closed' = closed /\ age' = age
        /\ timeout' = timeout /\ onTimeout' = onTimeout /\ timer' = timer /\ running' = running /\ broken' = broken
    BY <1>13 DEF vars, itemVars
  <2>2. LInv'
    BY <2>1 DEF LInv, ItemsTyped
  <2>3. UNCHANGED Abstract!vars
    BY <2>1 DEF Abstract!vars
  <2> QED BY <2>2, <2>3
<1>14. CASE Next
  <2>1. CASE User
    BY <1>1, <1>2, <1>3, <1>4, <1>5, <1>6, <2>1 DEF User
  <2>2. CASE Expire
    BY <1>7, <1>8, <1>9, <1>10, <1>11, <2>2 DEF Expire
  <2>3. CASE \E d \in 1..MaxStep : Tick(d)
    BY <1>12, <2>3
  <2> QED BY <1>14, <2>1, <2>2, <2>3 DEF Next
<1> QED BY <1>13, <1>14

\* The rings are what LinksSound asks for.
LEMMA LInvSound ==
  ASSUME LInv
  PROVE  LinksSound
<1>0. None \notin Nodes /\ Items \subseteq Nodes /\ Lists \subseteq Nodes /\ None \notin Lists
  BY LinkedAssumption DEF Nodes
<1>1. TypeOK
  BY DEF TypeOK, LInv, Linkage, Objects, ItemsTyped, AllLinks
<1>2. ASSUME NEW m \in Durations, lists[m] # None,
             NEW x \in ToSet(SeqsOf(links, lists)[m]) \cup {lists[m]}
      PROVE  /\ links.next[x] # None /\ links.prev[x] # None
             /\ links.prev[links.next[x]] = x /\ links.next[links.prev[x]] = x
  <2>1. PICK s : s = SeqsOf(links, lists)[m]
    OBVIOUS
  <2>2. s \in Seq(Items) /\ lists[m] \in Lists /\ Ring(links, lists[m], s)
    BY <1>2, <2>1, ListSeq DEF LInv
  <2>3. /\ \A i \in ToSet(s) : i \in Items
        /\ links.next[x] \in ToSet(s) \cup {lists[m]} /\ links.prev[x] \in ToSet(s) \cup {lists[m]}
        /\ links.prev[links.next[x]] = x /\ links.next[links.prev[x]] = x
    <3>1. Neighbours(links, lists[m], s) /\ \A i \in ToSet(s) : i \in Items
      BY <2>2, RingMembers
    <3> QED BY <2>1, <3>1 DEF Neighbours
  <2> QED BY <1>0, <2>1, <2>2, <2>3
<1>3. ASSUME NEW x \in Items \cup Used
      PROVE  /\ links.next[x] = None <=> links.prev[x] = None
             /\ links.next[x] # None => /\ links.prev[links.next[x]] = x
                                        /\ links.next[links.prev[x]] = x
  <2>1. CASE x \in Items /\ ~In(links, x)
    <3>1. links.prev[x] = links.next[x] /\ links.next[x] \in {None, x}
      BY <2>1 DEF LInv, Linkage, In
    <3> QED BY <3>1
  <2>2. CASE x \in Items /\ In(links, x)
    <3>1. timeout[x] \in Durations /\ lists[timeout[x]] # None
      BY <2>2 DEF LInv, Linkage
    <3>2. x \in Members(links, timeout, timeout[x])
      BY <2>2 DEF Members
    <3>3. x \in ToSet(SeqsOf(links, lists)[timeout[x]])
      BY <3>1, <3>2, ListSeq DEF LInv
    <3> QED BY <1>2, <3>1, <3>3
  <2>3. CASE x \in Used /\ \E m \in Durations : lists[m] = x
    <3>1. PICK m \in Durations : lists[m] = x
      BY <2>3
    <3>2. x # None
      BY <1>0, <2>3 DEF Used
    <3> QED BY <1>2, <3>1, <3>2
  <2>4. CASE x \in Used /\ ~\E m \in Durations : lists[m] = x
    <3>1. x \in Lists /\ timer = x /\ timer # None
      BY <1>0, <1>1, <2>4 DEF Used, Range, TypeOK
    <3>2. closed[x] /\ links.next[x] = x /\ links.prev[x] = x
      BY <2>4, <3>1 DEF LInv, Objects
    <3> QED BY <1>0, <3>1, <3>2
  <2> QED BY <2>1, <2>2, <2>3, <2>4
<1>4. WellLinked
  BY <1>3 DEF WellLinked
<1>5. ClosedListIdle
  <2> SUFFICES ASSUME NEW l \in Lists, closed[l]
               PROVE  left[l] = Off /\ l \notin Range(lists) /\ isEmpty(links, l)
    BY DEF ClosedListIdle
  <2>1. left[l] = Off /\ links.next[l] = l
    BY DEF LInv, Objects
  <2>2. l \notin Range(lists)
    BY <1>0, <1>1 DEF LInv, Objects, Range, TypeOK
  <2> QED BY <2>1, <2>2 DEF isEmpty
<1> QED BY <1>1, <1>4, <1>5 DEF LinksSound

\* The links of every list in use can be walked in both directions and a list
\* that was closed stays out of the way, whatever init, append and remove do
\* while expiration is walking.
THEOREM LinksStaySound == Spec => []LinksSound
<1>1. Init => LInv
  BY LInvInit
<1>2. LInv /\ [Next]_vars => LInv'
  BY LInvNext
<1>3. LInv => LinksSound
  BY LInvSound
<1> QED BY <1>1, <1>2, <1>3, PTL DEF Spec

\* timer.lua with its links implements the lists as sequences: every step of
\* it is a step of Timers or none.
THEOREM TimersImplemented == Spec => ImplementsTimers
<1>1. Init => LInv /\ Abstract!Init
  BY LInvInit
<1>2. LInv /\ [Next]_vars => LInv' /\ [Abstract!Next]_(Abstract!vars)
  BY LInvNext
<1> QED BY <1>1, <1>2, PTL DEF Spec, ImplementsTimers, Abstract!Spec
=============================================================================
