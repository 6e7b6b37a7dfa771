----------------------------- MODULE TimersProofs -----------------------------
(***************************************************************************)
(* Proofs about the idle lists of Timers, for any items, any durations and *)
(* any steps of the loop's time.                                           *)
(*                                                                         *)
(* ListsSound is inductive as it stands: what an operation does to the one *)
(* list it changes follows from three lemmas about sequences (an item is   *)
(* unlinked, appended, or taken from the front), and the timer of a list   *)
(* is covered because unlinking can only make the oldest item younger.     *)
(***************************************************************************)
EXTENDS Timers, SequenceTheorems, TLAPS

\* The items of a sequence get no older along it, when a gives their ages.
Sorted(s, a) == \A j, k \in 1..Len(s) : j < k => a[s[j]] >= a[s[k]]

\* What an item that leaves a sequence leaves behind.
LEMMA UnlinkAt ==
  ASSUME NEW s \in Seq(Items), NEW i, Contains(s, i)
  PROVE  \E k \in 1..Len(s) :
           /\ s[k] = i
           /\ Unlink(s, i) \in Seq(Items)
           /\ Len(Unlink(s, i)) = Len(s) - 1
           /\ \A j \in 1..(Len(s) - 1) :
                Unlink(s, i)[j] = IF j < k THEN s[j] ELSE s[j + 1]
<1> DEFINE k == CHOOSE k \in 1..Len(s) : s[k] = i
           u == SubSeq(s, 1, k - 1)
           v == SubSeq(s, k + 1, Len(s))
<1>1. k \in 1..Len(s) /\ s[k] = i
  BY DEF Contains
<1>2. Unlink(s, i) = u \o v
  BY DEF Unlink, RemoveAt
<1> HIDE DEF k
<1>0. Len(s) \in Nat /\ \A j \in 1..Len(s) : s[j] \in Items
  OBVIOUS
<1>3. u \in Seq(Items) /\ Len(u) = k - 1 /\ \A j \in 1..(k - 1) : u[j] = s[j]
  <2>1. \A j \in 1..(k - 1) : s[j] \in Items
    BY <1>0, <1>1
  <2>2. /\ u \in Seq(Items)
        /\ Len(u) = IF 1 <= k - 1 THEN (k - 1) - 1 + 1 ELSE 0
        /\ \A j \in 1..((k - 1) - 1 + 1) : u[j] = s[1 + j - 1]
    <3>1. 1 \in Int /\ k - 1 \in Int
      BY <1>0, <1>1
    <3> QED
      BY <2>1, <3>1, SubSeqProperties
  <2> QED
    BY <1>0, <1>1, <2>2
<1>4. v \in Seq(Items) /\ Len(v) = Len(s) - k /\ \A j \in 1..(Len(s) - k) : v[j] = s[k + j]
  <2>1. \A j \in (k + 1)..Len(s) : s[j] \in Items
    BY <1>0, <1>1
  <2>2. /\ v \in Seq(Items)
        /\ Len(v) = IF k + 1 <= Len(s) THEN Len(s) - (k + 1) + 1 ELSE 0
        /\ \A j \in 1..(Len(s) - (k + 1) + 1) : v[j] = s[(k + 1) + j - 1]
    <3>1. k + 1 \in Int /\ Len(s) \in Int
      BY <1>0, <1>1
    <3> QED
      BY <2>1, <3>1, SubSeqProperties
  <2> QED
    BY <1>0, <1>1, <2>2
<1> HIDE DEF u, v
<1>5. /\ u \o v \in Seq(Items)
      /\ Len(u \o v) = Len(u) + Len(v)
      /\ \A j \in 1..(Len(u) + Len(v)) : (u \o v)[j] = IF j <= Len(u) THEN u[j] ELSE v[j - Len(u)]
  BY <1>3, <1>4, ConcatProperties
<1>6. Len(u \o v) = Len(s) - 1
  BY <1>0, <1>1, <1>3, <1>4, <1>5
<1>7. \A j \in 1..(Len(s) - 1) : (u \o v)[j] = IF j < k THEN s[j] ELSE s[j + 1]
  <2> TAKE j \in 1..(Len(s) - 1)
  <2>1. CASE j < k
    BY <2>1, <1>0, <1>1, <1>3, <1>4, <1>5, SMTT(30)
  <2>2. CASE ~(j < k)
    <3>1. j - (k - 1) \in 1..(Len(s) - k) /\ k + (j - (k - 1)) = j + 1
      BY <2>2, <1>0, <1>1
    <3>2. v[j - (k - 1)] = s[j + 1]
      BY <3>1, <1>4
    <3>3. (u \o v)[j] = v[j - (k - 1)]
      BY <2>2, <1>0, <1>1, <1>3, <1>4, <1>5
    <3> QED
      BY <2>2, <3>2, <3>3
  <2> QED
    BY <2>1, <2>2
<1> QED
  BY <1>1, <1>2, <1>5, <1>6, <1>7

\* Unlinking takes out that item and no other, and keeps the others' order.
LEMMA UnlinkKeeps ==
  ASSUME NEW s \in Seq(Items), NEW i, IsInjective(s)
  PROVE  /\ Unlink(s, i) \in Seq(Items)
         /\ IsInjective(Unlink(s, i))
         /\ ToSet(Unlink(s, i)) = ToSet(s) \ {i}
         /\ \A j, k \in 1..Len(Unlink(s, i)) : j < k =>
              \E p, q \in 1..Len(s) :
                p < q /\ Unlink(s, i)[j] = s[p] /\ Unlink(s, i)[k] = s[q]
<1>0. Len(s) \in Nat /\ DOMAIN s = 1..Len(s)
  OBVIOUS
<1>1. CASE ~Contains(s, i)
  <2>1. Unlink(s, i) = s
    BY <1>1 DEF Unlink
  <2>2. i \notin ToSet(s)
    BY <1>0, <1>1 DEF Contains, ToSet
  <2> QED
    BY <2>1, <2>2
<1>2. CASE Contains(s, i)
  <2> DEFINE u == Unlink(s, i)
  <2>1. PICK p \in 1..Len(s) :
          /\ s[p] = i
          /\ u \in Seq(Items)
          /\ Len(u) = Len(s) - 1
          /\ \A j \in 1..(Len(s) - 1) : u[j] = IF j < p THEN s[j] ELSE s[j + 1]
    BY <1>2, UnlinkAt
  <2> HIDE DEF u
  <2> DEFINE at(j) == IF j < p THEN j ELSE j + 1
  <2>2. \A j \in 1..Len(u) : at(j) \in 1..Len(s) /\ at(j) # p /\ u[j] = s[at(j)]
    BY <1>0, <2>1
  <2>3. \A j, k \in 1..Len(u) : j < k => at(j) < at(k)
    BY <1>0, <2>1
  <2>4. DOMAIN u = 1..Len(u) /\ Len(u) \in Nat
    BY <2>1
  <2>5. \A q \in 1..Len(s) : q # p => \E j \in 1..Len(u) : at(j) = q
    <3> TAKE q \in 1..Len(s)
    <3> HAVE q # p
    <3>1. CASE q < p
      <4>1. q \in 1..Len(u) /\ at(q) = q
        BY <3>1, <1>0, <2>1
      <4> QED
        BY <4>1
    <3>2. CASE q > p
      <4>1. q - 1 \in 1..Len(u) /\ at(q - 1) = q
        BY <3>2, <1>0, <2>1
      <4> QED
        BY <4>1
    <3> QED
      BY <3>1, <3>2, <1>0
  <2>6. \A j, k \in 1..Len(u) : at(j) = at(k) => j = k
    BY <1>0, <2>1
  <2> HIDE DEF at
  <2>7. IsInjective(u)
    BY <1>0, <2>2, <2>4, <2>6 DEF IsInjective
  <2>8. ToSet(u) = ToSet(s) \ {i}
    <3>1. \A x \in ToSet(u) : x \in ToSet(s) \ {i}
      BY <1>0, <2>1, <2>2, <2>4 DEF ToSet, IsInjective
    <3>2. \A x \in ToSet(s) \ {i} : x \in ToSet(u)
      <4> TAKE x \in ToSet(s) \ {i}
      <4>1. PICK q \in 1..Len(s) : x = s[q]
        BY <1>0 DEF ToSet
      <4>2. PICK j \in 1..Len(u) : at(j) = q
        BY <2>1, <2>5, <4>1
      <4>3. x = u[j]
        BY <2>2, <4>1, <4>2
      <4> QED
        BY <2>4, <4>3 DEF ToSet
    <3> QED
      BY <3>1, <3>2
  <2>9. \A j, k \in 1..Len(u) : j < k => \E a, b \in 1..Len(s) : a < b /\ u[j] = s[a] /\ u[k] = s[b]
    BY <2>2, <2>3
  <2> QED
    BY <2>1, <2>7, <2>8, <2>9 DEF u
<1> QED
  BY <1>1, <1>2

\* So a list stays sorted, also when the age of the item that left is reset.
LEMMA UnlinkSorted ==
  ASSUME NEW s \in Seq(Items), NEW i \in Items, IsInjective(s),
         NEW a \in [Items -> Nat], Sorted(s, a)
  PROVE  Sorted(Unlink(s, i), [a EXCEPT ![i] = 0])
<1> DEFINE u == Unlink(s, i)
<1>1. /\ u \in Seq(Items)
      /\ ToSet(u) = ToSet(s) \ {i}
      /\ \A j, k \in 1..Len(u) : j < k =>
           \E p, q \in 1..Len(s) : p < q /\ u[j] = s[p] /\ u[k] = s[q]
  BY UnlinkKeeps
<1> HIDE DEF u
<1>2. \A j \in 1..Len(u) : u[j] \in Items /\ u[j] # i
  <2>1. DOMAIN u = 1..Len(u)
    BY <1>1
  <2>2. \A j \in 1..Len(u) : u[j] \in ToSet(u)
    BY <2>1 DEF ToSet
  <2> QED
    BY <1>1, <2>2
<1>3. SUFFICES ASSUME NEW j \in 1..Len(u), NEW k \in 1..Len(u), j < k
               PROVE  a[u[j]] >= a[u[k]]
  BY <1>2 DEF Sorted, u
<1>4. PICK p, q \in 1..Len(s) : p < q /\ u[j] = s[p] /\ u[k] = s[q]
  BY <1>1, <1>3
<1> QED
  BY <1>4 DEF Sorted

\* The oldest of the items that are left is no older than the oldest was.
LEMMA UnlinkHead ==
  ASSUME NEW s \in Seq(Items), NEW i \in Items, IsInjective(s),
         NEW a \in [Items -> Nat], Sorted(s, a), Unlink(s, i) # <<>>
  PROVE  /\ s # <<>>
         /\ Head(Unlink(s, i)) \in Items \ {i}
         /\ a[Head(Unlink(s, i))] <= a[Head(s)]
<1> DEFINE u == Unlink(s, i)
<1>1. u \in Seq(Items) /\ ToSet(u) = ToSet(s) \ {i}
  BY UnlinkKeeps
<1>2. u # <<>>
  OBVIOUS
<1> HIDE DEF u
<1>3. 1 \in 1..Len(u) /\ Head(u) = u[1]
  BY <1>1, <1>2
<1>4. Head(u) \in ToSet(s) \ {i}
  <2>1. DOMAIN u = 1..Len(u)
    BY <1>1
  <2>2. u[1] \in ToSet(u)
    BY <1>3, <2>1 DEF ToSet
  <2> QED
    BY <1>1, <1>3, <2>2
<1>5. PICK k \in 1..Len(s) : s[k] = Head(u)
  BY <1>4, SMTT(30) DEF ToSet
<1>6. s # <<>> /\ Head(s) = s[1] /\ 1 \in 1..Len(s)
  BY <1>5
<1>7. a[s[k]] <= a[s[1]]
  <2>1. CASE k = 1
    BY <2>1, <1>5, <1>6
  <2>2. CASE 1 < k
    BY <2>2, <1>5, <1>6 DEF Sorted
  <2> QED
    BY <2>1, <2>2
<1>8. Head(u) \in Items \ {i}
  BY <1>4, <1>5
<1> QED
  BY <1>5, <1>6, <1>7, <1>8 DEF u

\* An item whose age is zero goes to the end of a sorted list.
LEMMA AppendKeeps ==
  ASSUME NEW s \in Seq(Items), NEW i \in Items, IsInjective(s), i \notin ToSet(s),
         NEW a \in [Items -> Nat], Sorted(s, a), a[i] = 0
  PROVE  /\ Append(s, i) \in Seq(Items)
         /\ Append(s, i) # <<>>
         /\ IsInjective(Append(s, i))
         /\ ToSet(Append(s, i)) = ToSet(s) \cup {i}
         /\ Sorted(Append(s, i), a)
         /\ Head(Append(s, i)) = IF s = <<>> THEN i ELSE Head(s)
<1> DEFINE t == Append(s, i)
<1>0. Len(s) \in Nat /\ DOMAIN s = 1..Len(s) /\ \A j \in 1..Len(s) : s[j] \in Items
  OBVIOUS
<1>1. t \in Seq(Items) /\ Len(t) = Len(s) + 1 /\ t[Len(s) + 1] = i
      /\ \A j \in 1..Len(s) : t[j] = s[j]
  BY AppendProperties
<1> HIDE DEF t
<1>2. DOMAIN t = 1..(Len(s) + 1)
  BY <1>1
<1>3. \A j \in 1..Len(s) : s[j] # i
  BY <1>0 DEF ToSet
<1>4. \A j \in 1..(Len(s) + 1) : j \in 1..Len(s) \/ j = Len(s) + 1
  BY <1>0
<1>5. IsInjective(t)
  BY <1>0, <1>1, <1>2, <1>3, <1>4 DEF IsInjective
<1>6. ToSet(t) = ToSet(s) \cup {i}
  <2>1. \A x \in ToSet(t) : x \in ToSet(s) \cup {i}
    BY <1>0, <1>1, <1>2, <1>4 DEF ToSet
  <2>2. \A x \in ToSet(s) : x \in ToSet(t)
    BY <1>0, <1>1, <1>2 DEF ToSet
  <2>3. i \in ToSet(t)
    BY <1>0, <1>1, <1>2 DEF ToSet
  <2> QED
    BY <2>1, <2>2, <2>3
<1>7. Sorted(t, a)
  <2> SUFFICES ASSUME NEW j \in 1..Len(t), NEW k \in 1..Len(t), j < k
               PROVE  a[t[j]] >= a[t[k]]
    BY DEF Sorted
  <2>1. j \in 1..Len(s) /\ t[j] = s[j]
    BY <1>0, <1>1
  <2>2. CASE k = Len(s) + 1
    BY <2>1, <2>2, <1>0, <1>1
  <2>3. CASE k \in 1..Len(s)
    BY <2>1, <2>3, <1>1 DEF Sorted
  <2> QED
    BY <2>2, <2>3, <1>1, <1>4
<1>8. t # <<>> /\ Head(t) = t[1]
  BY <1>0, <1>1
<1>9. t[1] = IF s = <<>> THEN i ELSE Head(s)
  <2>1. CASE s = <<>>
    BY <2>1, <1>1
  <2>2. CASE s # <<>>
    BY <2>2, <1>0, <1>1
  <2> QED
    BY <2>1, <2>2
<1> QED
  BY <1>1, <1>5, <1>6, <1>7, <1>8, <1>9 DEF t

\* The oldest item is taken from a sorted list.
LEMMA TailKeeps ==
  ASSUME NEW s \in Seq(Items), s # <<>>, IsInjective(s),
         NEW a \in [Items -> Nat], Sorted(s, a)
  PROVE  /\ Head(s) \in ToSet(s) \cap Items
         /\ Tail(s) \in Seq(Items)
         /\ IsInjective(Tail(s))
         /\ ToSet(Tail(s)) = ToSet(s) \ {Head(s)}
         /\ Sorted(Tail(s), [a EXCEPT ![Head(s)] = 0])
<1> DEFINE t == Tail(s)
<1>0. Len(s) \in Nat \ {0} /\ DOMAIN s = 1..Len(s) /\ \A j \in 1..Len(s) : s[j] \in Items
  OBVIOUS
<1>1. t \in Seq(Items) /\ Len(t) = Len(s) - 1 /\ \A j \in 1..(Len(s) - 1) : t[j] = s[j + 1]
  BY HeadTailProperties
<1>h. Head(s) = s[1]
  OBVIOUS
<1> HIDE DEF t
<1>2. DOMAIN t = 1..(Len(s) - 1)
  BY <1>0, <1>1
<1>3. \A j \in 1..(Len(s) - 1) : j + 1 \in 1..Len(s) /\ j + 1 # 1
  BY <1>0
<1>4. \A j, k \in 1..(Len(s) - 1) : j + 1 = k + 1 => j = k
  BY <1>0
<1>5. IsInjective(t)
  <2> SUFFICES ASSUME NEW j \in 1..(Len(s) - 1), NEW k \in 1..(Len(s) - 1), t[j] = t[k]
               PROVE  j = k
    BY <1>2 DEF IsInjective
  <2>1. s[j + 1] = s[k + 1]
    BY <1>1
  <2>2. j + 1 = k + 1
    BY <1>0, <1>3, <2>1 DEF IsInjective
  <2> QED
    BY <1>4, <2>2
<1>6. ToSet(t) = ToSet(s) \ {Head(s)}
  <2>1. \A x \in ToSet(t) : x \in ToSet(s) \ {Head(s)}
    <3> TAKE x \in ToSet(t)
    <3>1. PICK j \in 1..(Len(s) - 1) : x = s[j + 1]
      BY <1>1, <1>2 DEF ToSet
    <3>2. 1 \in 1..Len(s)
      BY <1>0
    <3> QED
      BY <1>0, <1>3, <1>h, <3>1, <3>2 DEF ToSet, IsInjective
  <2>2. \A x \in ToSet(s) \ {Head(s)} : x \in ToSet(t)
    <3> TAKE x \in ToSet(s) \ {Head(s)}
    <3>1. PICK j \in 1..Len(s) : x = s[j]
      BY <1>0 DEF ToSet
    <3>2. j - 1 \in 1..(Len(s) - 1) /\ (j - 1) + 1 = j
      BY <1>0, <1>h, <3>1
    <3>3. t[j - 1] = x
      BY <1>1, <3>1, <3>2
    <3> QED
      BY <1>2, <3>2, <3>3 DEF ToSet
  <2> QED
    BY <2>1, <2>2
<1>7. Sorted(t, [a EXCEPT ![Head(s)] = 0])
  <2> SUFFICES ASSUME NEW j \in 1..Len(t), NEW k \in 1..Len(t), j < k
               PROVE  [a EXCEPT ![Head(s)] = 0][t[j]] >= [a EXCEPT ![Head(s)] = 0][t[k]]
    BY DEF Sorted
  <2>1. t[j] = s[j + 1] /\ t[k] = s[k + 1] /\ j + 1 \in 1..Len(s) /\ k + 1 \in 1..Len(s)
        /\ j + 1 < k + 1
    BY <1>1, <1>3
  <2>2. s[j + 1] # Head(s) /\ s[k + 1] # Head(s)
    <3>1. j \in DOMAIN t /\ k \in DOMAIN t
      BY <1>1, <1>2
    <3> QED
      BY <1>6, <2>1, <3>1 DEF ToSet
  <2>3. a[s[j + 1]] >= a[s[k + 1]]
    BY <2>1 DEF Sorted
  <2> QED
    BY <1>0, <2>1, <2>2, <2>3
<1>8. Head(s) \in ToSet(s) \cap Items
  BY <1>0, <1>h DEF ToSet
<1> QED
  BY <1>1, <1>5, <1>6, <1>7, <1>8 DEF t

\* An item that is not there is not looked for.
LEMMA UnlinkAbsent ==
  ASSUME NEW s \in Seq(Items), NEW i, i \notin ToSet(s)
  PROVE  Unlink(s, i) = s
<1>1. DOMAIN s = 1..Len(s)
  OBVIOUS
<1>2. ~Contains(s, i)
  BY <1>1 DEF Contains, ToSet
<1> QED
  BY <1>2 DEF Unlink

-----------------------------------------------------------------------------
\* What ListsSound says of one list: its items are its own.
ItsOwn(m) == IsInjective(seq[m]) /\ \A i \in ToSet(seq[m]) : timeout[i] = m /\ linked[i]

\* It has items, or its own expiration will close it; and a timer.
Timed(m) ==
  /\ lists[m] /\ seq[m] = <<>> => exp = m /\ own
  /\ ~lists[m] => left[m] = Off /\ seq[m] = <<>>
  /\ lists[m] /\ ~(exp = m /\ own) =>
       left[m] # Off /\ (left[m] = 0 \/ left[m] + age[Head(seq[m])] <= m)

\* All of it.
OneList(m) == ItsOwn(m) /\ Sorted(seq[m], age) /\ Timed(m)

\* ListsSound, list by list.
LEMMA OfEachList == ListsSound <=> TypeOK /\ \A m \in Durations : OneList(m)
BY DEF ListsSound, InItsOwnList, OldestFirst, NoEmptyListLeft, TimerCoversOldest,
       OneList, ItsOwn, Timed, Sorted

\* The types ListsSound needs after a step, the variables written out.
LEMMA TypeParts ==
  ASSUME ListsSound
  PROVE  /\ lists \in [Durations -> BOOLEAN]
         /\ seq \in [Durations -> Seq(Items)]
         /\ left \in [Durations -> Nat \cup {Off}]
         /\ \A m \in Durations : left[m] <= m
         /\ age \in [Items -> Nat]
         /\ timeout \in [Items -> Durations \cup {Off, Unset}]
         /\ linked \in [Items -> BOOLEAN]
         /\ onTimeout \in [Items -> BOOLEAN]
         /\ exp \in Durations \cup {Off}
         /\ own \in BOOLEAN
         /\ running \in Items \cup {None}
         /\ broken \in BOOLEAN
         /\ \A m \in Durations : OneList(m)
BY OfEachList DEF TypeOK

\* No duration is one of the two marks of an item without a list.
LEMMA Marks == \A m \in Durations : m \in Nat /\ m > 0 /\ m # Off /\ m # Unset
BY TimersAssumption DEF Off, Unset

-----------------------------------------------------------------------------
\* An item leaves its list, and the list goes when it is empty: clearTimer,
\* unenroll, and enroll of an item that is linked.
LEMMA LeaveSound ==
  ASSUME ListsSound, NEW i \in Items, LeaveList(i), UNCHANGED exp,
         NEW x, timeout' = [timeout EXCEPT ![i] = x],
         NEW b, linked' = [linked EXCEPT ![i] = b]
  PROVE  /\ lists' \in [Durations -> BOOLEAN]
         /\ seq' \in [Durations -> Seq(Items)]
         /\ left' \in [Durations -> Nat \cup {Off}]
         /\ \A m \in Durations : left'[m] <= m
         /\ age' \in [Items -> Nat]
         /\ own' \in BOOLEAN
         /\ \A m \in Durations : OneList(m)'
<1> DEFINE gone(m) == m = timeout[i] /\ lists[m] /\ Unlink(seq[m], i) = <<>>
<1>T. /\ lists \in [Durations -> BOOLEAN]
      /\ seq \in [Durations -> Seq(Items)]
      /\ left \in [Durations -> Nat \cup {Off}]
      /\ \A m \in Durations : left[m] <= m
      /\ age \in [Items -> Nat]
      /\ timeout \in [Items -> Durations \cup {Off, Unset}]
      /\ linked \in [Items -> BOOLEAN]
      /\ own \in BOOLEAN
      /\ \A m \in Durations : OneList(m)
  BY TypeParts
<1>1. /\ seq' = [m \in Durations |-> Unlink(seq[m], i)]
      /\ age' = [age EXCEPT ![i] = 0]
      /\ lists' = [m \in Durations |-> lists[m] /\ ~gone(m)]
      /\ left' = [m \in Durations |-> IF gone(m) THEN Off ELSE left[m]]
      /\ own' = (own /\ ~(exp \in Durations /\ gone(exp)))
  <2>1. {m \in Durations : m = timeout[i] /\ lists[m] /\ Removed(i)[m] = <<>>}
          = {m \in Durations : gone(m)}
    BY DEF Removed
  <2>2. /\ seq' = Removed(i)
        /\ age' = [age EXCEPT ![i] = 0]
        /\ lists' = [m \in Durations |-> lists[m] /\ m \notin {n \in Durations : gone(n)}]
        /\ left' = [m \in Durations |-> IF m \in {n \in Durations : gone(n)} THEN Off ELSE left[m]]
        /\ own' = (own /\ exp \notin {n \in Durations : gone(n)})
    BY <2>1, Zenon DEF LeaveList
  <2>3. \A m : m \in {n \in Durations : gone(n)} <=> m \in Durations /\ gone(m)
    OBVIOUS
  <2> HIDE DEF gone
  <2>4. lists' = [m \in Durations |-> lists[m] /\ ~gone(m)]
    BY <2>2, <2>3
  <2>5. left' = [m \in Durations |-> IF gone(m) THEN Off ELSE left[m]]
    BY <2>2, <2>3
  <2>6. own' = (own /\ ~(exp \in Durations /\ gone(exp)))
    BY <2>2, <2>3
  <2> QED
    BY <2>2, <2>4, <2>5, <2>6 DEF Removed
<1>2. ASSUME NEW m \in Durations
      PROVE  /\ seq[m] \in Seq(Items) /\ IsInjective(seq[m]) /\ Sorted(seq[m], age)
             /\ \A j \in ToSet(seq[m]) : j \in Items /\ timeout[j] = m /\ linked[j]
             /\ seq'[m] = Unlink(seq[m], i)
             /\ seq'[m] \in Seq(Items)
             /\ IsInjective(seq'[m])
             /\ ToSet(seq'[m]) = ToSet(seq[m]) \ {i}
             /\ Sorted(seq'[m], age')
             /\ m # timeout[i] => seq'[m] = seq[m]
  <2>1. seq[m] \in Seq(Items) /\ IsInjective(seq[m]) /\ Sorted(seq[m], age)
    BY <1>T DEF OneList, ItsOwn
  <2>2. \A j \in ToSet(seq[m]) : j \in Items /\ timeout[j] = m /\ linked[j]
    <3>1. ToSet(seq[m]) \subseteq Items
      BY <2>1 DEF ToSet
    <3> QED
      BY <1>T, <3>1 DEF OneList, ItsOwn
  <2>3. seq'[m] = Unlink(seq[m], i)
    BY <1>1
  <2>4. seq'[m] \in Seq(Items) /\ IsInjective(seq'[m]) /\ ToSet(seq'[m]) = ToSet(seq[m]) \ {i}
    BY <2>1, <2>3, UnlinkKeeps
  <2>5. Sorted(seq'[m], age')
    BY <1>1, <1>T, <2>1, <2>3, UnlinkSorted
  <2>6. m # timeout[i] => seq'[m] = seq[m]
    BY <2>1, <2>2, <2>3, UnlinkAbsent
  <2> QED
    BY <2>1, <2>2, <2>3, <2>4, <2>5, <2>6
<1>3. ASSUME NEW m \in Durations
      PROVE  /\ lists'[m] <=> lists[m] /\ ~gone(m)
             /\ left'[m] = IF gone(m) THEN Off ELSE left[m]
             /\ exp = m => (own' <=> own /\ ~gone(m))
  BY <1>1
<1>4. ASSUME NEW m \in Durations
      PROVE  gone(m) <=> m = timeout[i] /\ lists[m] /\ seq'[m] = <<>>
  BY <1>1
<1>5. lists' \in [Durations -> BOOLEAN] /\ own' \in BOOLEAN
  BY <1>1
<1>6. /\ left' \in [Durations -> Nat \cup {Off}]
      /\ \A m \in Durations : left'[m] <= m
  BY <1>T, <1>1, Marks DEF Off
<1>7. age' \in [Items -> Nat]
  BY <1>T, <1>1
<1>8. seq' \in [Durations -> Seq(Items)]
  BY <1>1, <1>2
<1> HIDE DEF gone
<1>9. ASSUME NEW m \in Durations
      PROVE  OneList(m)'
  <2>1. ItsOwn(m)'
    <3>1. \A j \in ToSet(seq'[m]) : timeout'[j] = m /\ linked'[j]
      <4> TAKE j \in ToSet(seq'[m])
      <4>1. j \in Items /\ j # i /\ timeout[j] = m /\ linked[j]
        BY <1>2, SMTT(30)
      <4>2. timeout'[j] = timeout[j]
        BY <4>1, <1>T
      <4>3. linked'[j] = linked[j]
        BY <4>1, <1>T
      <4> QED
        BY <4>1, <4>2, <4>3
    <3> QED
      BY <1>2, <3>1 DEF ItsOwn
  <2>2. lists'[m] /\ seq'[m] = <<>> => exp = m /\ own'
    <3>1. SUFFICES ASSUME lists'[m], seq'[m] = <<>> PROVE exp = m /\ own'
      OBVIOUS
    <3>2. lists[m] /\ ~gone(m)
      BY <3>1, <1>3
    <3>3. m # timeout[i]
      BY <3>1, <3>2, <1>4
    <3>4. seq[m] = <<>>
      BY <3>1, <3>3, <1>2
    <3>5. exp = m /\ own
      BY <3>2, <3>4, <1>T DEF OneList, Timed
    <3> QED
      BY <3>2, <3>5, <1>3
  <2>3. ~lists'[m] => left'[m] = Off /\ seq'[m] = <<>>
    <3>1. CASE gone(m)
      BY <3>1, <1>3, <1>4
    <3>2. CASE ~gone(m) /\ ~lists[m]
      <4>1. left[m] = Off /\ seq[m] = <<>>
        BY <3>2, <1>T DEF OneList, Timed
      <4>2. i \notin ToSet(seq[m])
        BY <4>1 DEF ToSet
      <4>3. seq'[m] = seq[m]
        BY <4>2, <1>2, UnlinkAbsent
      <4> QED
        BY <3>2, <4>1, <4>3, <1>3
    <3> QED
      BY <3>1, <3>2, <1>3
  <2>4. lists'[m] /\ ~(exp = m /\ own') =>
          left'[m] # Off /\ (left'[m] = 0 \/ left'[m] + age'[Head(seq'[m])] <= m)
    <3>1. SUFFICES ASSUME lists'[m], ~(exp = m /\ own')
                   PROVE  left'[m] # Off /\ (left'[m] = 0 \/ left'[m] + age'[Head(seq'[m])] <= m)
      OBVIOUS
    <3>2. lists[m] /\ ~gone(m) /\ left'[m] = left[m] /\ ~(exp = m /\ own)
      BY <3>1, <1>3
    <3>3. seq'[m] # <<>>
      BY <3>1, <2>2
    <3>4. left[m] # Off /\ (left[m] = 0 \/ left[m] + age[Head(seq[m])] <= m)
      BY <3>2, <1>T DEF OneList, Timed
    <3>5. /\ seq[m] # <<>>
          /\ Head(seq'[m]) \in Items \ {i}
          /\ age[Head(seq'[m])] <= age[Head(seq[m])]
      BY <3>3, <1>2, <1>T, UnlinkHead
    <3>6. age'[Head(seq'[m])] = age[Head(seq'[m])]
      BY <3>5, <1>1, <1>T
    <3>7. Head(seq[m]) \in Items
      BY <3>5, <1>2
    <3>8. left[m] \in Nat /\ age[Head(seq[m])] \in Nat /\ age[Head(seq'[m])] \in Nat /\ m \in Nat
      BY <3>4, <3>5, <3>7, <1>T, Marks
    <3> QED
      BY <3>2, <3>4, <3>5, <3>6, <3>8
  <2> QED
    BY <2>1, <2>2, <2>3, <2>4, <1>2 DEF OneList, Timed
<1> QED
  BY <1>5, <1>6, <1>7, <1>8, <1>9

\* A list stands when the one item whose fields change is not in it.
LEMMA OtherList ==
  ASSUME ListsSound, NEW i \in Items, NEW n \in Durations, i \notin ToSet(seq[n]),
         seq'[n] = seq[n], left'[n] = left[n], lists'[n] = lists[n],
         age' = [age EXCEPT ![i] = 0],
         NEW x, timeout' = [timeout EXCEPT ![i] = x],
         NEW b, linked' = [linked EXCEPT ![i] = b],
         exp' = exp, own' = own
  PROVE  OneList(n)'
<1>T. /\ lists \in [Durations -> BOOLEAN]
      /\ seq[n] \in Seq(Items) /\ ToSet(seq[n]) \subseteq Items
      /\ age \in [Items -> Nat]
      /\ timeout \in [Items -> Durations \cup {Off, Unset}]
      /\ linked \in [Items -> BOOLEAN]
      /\ OneList(n)
  BY TypeParts DEF ToSet
<1>4. \A j \in ToSet(seq[n]) : j \in Items /\ age'[j] = age[j] /\ timeout'[j] = timeout[j]
  BY <1>T
<1>5. \A j \in ToSet(seq[n]) : linked'[j] = linked[j]
  BY <1>T
<1>6. ItsOwn(n)'
  <2>1. \A j \in ToSet(seq[n]) : timeout'[j] = n /\ linked'[j]
    BY <1>4, <1>5, <1>T DEF OneList, ItsOwn
  <2> QED
    BY <2>1, <1>T DEF OneList, ItsOwn
<1>7. \A k \in 1..Len(seq[n]) : age'[seq[n][k]] = age[seq[n][k]]
  <2>1. DOMAIN seq[n] = 1..Len(seq[n])
    BY <1>T
  <2>2. \A k \in 1..Len(seq[n]) : seq[n][k] \in ToSet(seq[n])
    BY <2>1 DEF ToSet
  <2> QED
    BY <2>2, <1>4
<1>8. Sorted(seq'[n], age')
  BY <1>7, <1>T DEF OneList, Sorted
<1>9. seq[n] # <<>> => age'[Head(seq'[n])] = age[Head(seq[n])]
  <2>1. seq[n] # <<>> => 1 \in 1..Len(seq[n]) /\ Head(seq[n]) = seq[n][1]
    BY <1>T
  <2> QED
    BY <1>7, <2>1
<1>10. Timed(n)'
  BY <1>9, <1>T DEF OneList, Timed
<1> QED
  BY <1>6, <1>8, <1>10 DEF OneList

\* An item becomes active with the duration m, and is in no other list than
\* that one: setTimeout and active.
LEMMA ActivateSound ==
  ASSUME ListsSound, NEW i \in Items, NEW m \in Durations, Activate(i, m),
         \A n \in Durations : i \in ToSet(seq[n]) => n = m,
         UNCHANGED <<exp, own>>, timeout' = [timeout EXCEPT ![i] = m]
  PROVE  /\ lists' \in [Durations -> BOOLEAN]
         /\ seq' \in [Durations -> Seq(Items)]
         /\ left' \in [Durations -> Nat \cup {Off}]
         /\ \A n \in Durations : left'[n] <= n
         /\ age' \in [Items -> Nat]
         /\ linked' \in [Items -> BOOLEAN]
         /\ \A n \in Durations : OneList(n)'
<1>T. /\ lists \in [Durations -> BOOLEAN]
      /\ seq \in [Durations -> Seq(Items)]
      /\ left \in [Durations -> Nat \cup {Off}]
      /\ \A n \in Durations : left[n] <= n
      /\ age \in [Items -> Nat]
      /\ timeout \in [Items -> Durations \cup {Off, Unset}]
      /\ linked \in [Items -> BOOLEAN]
      /\ own \in BOOLEAN
      /\ \A n \in Durations : OneList(n)
  BY TypeParts
<1>1. /\ lists' = [lists EXCEPT ![m] = TRUE]
      /\ left' = IF lists[m] THEN left ELSE [left EXCEPT ![m] = m]
      /\ seq' = [Removed(i) EXCEPT ![m] = Append(Unlink(seq[m], i), i)]
      /\ age' = [age EXCEPT ![i] = 0]
      /\ linked' = [linked EXCEPT ![i] = TRUE]
      /\ exp' = exp /\ own' = own
  BY DEF Activate, Removed
<1>2. \A n \in Durations : /\ seq[n] \in Seq(Items) /\ IsInjective(seq[n])
                           /\ Sorted(seq[n], age)
                           /\ ToSet(seq[n]) \subseteq Items
                           /\ \A j \in ToSet(seq[n]) : timeout[j] = n /\ linked[j]
  BY <1>T DEF OneList, ItsOwn, ToSet
<1>3. \A n \in Durations : n # m => seq'[n] = seq[n]
  BY <1>1, <1>2, UnlinkAbsent DEF Removed
<1>u. /\ Unlink(seq[m], i) \in Seq(Items)
      /\ IsInjective(Unlink(seq[m], i))
      /\ ToSet(Unlink(seq[m], i)) = ToSet(seq[m]) \ {i}
      /\ Sorted(Unlink(seq[m], i), age')
  BY <1>1, <1>2, <1>T, UnlinkKeeps, UnlinkSorted
<1>a. age' \in [Items -> Nat] /\ age'[i] = 0 /\ \A j \in Items : j # i => age'[j] = age[j]
  BY <1>T, <1>1
<1>s. seq'[m] = Append(Unlink(seq[m], i), i)
  BY <1>1 DEF Removed
<1>4. /\ seq'[m] \in Seq(Items) /\ seq'[m] # <<>> /\ IsInjective(seq'[m])
      /\ ToSet(seq'[m]) = ToSet(seq[m]) \cup {i}
      /\ Sorted(seq'[m], age')
      /\ Head(seq'[m]) = IF Unlink(seq[m], i) = <<>> THEN i ELSE Head(Unlink(seq[m], i))
  BY <1>u, <1>a, <1>s, AppendKeeps
<1>5. /\ lists' \in [Durations -> BOOLEAN]
      /\ linked' \in [Items -> BOOLEAN]
  BY <1>T, <1>1, Zenon
<1>6. left' \in [Durations -> Nat \cup {Off}] /\ \A n \in Durations : left'[n] <= n
  <2>1. CASE lists[m]
    BY <2>1, <1>T, <1>1
  <2>2. CASE ~lists[m]
    BY <2>2, <1>T, <1>1, Marks
  <2> QED
    BY <2>1, <2>2
<1>7. seq' \in [Durations -> Seq(Items)]
  <2>1. \A n \in Durations : seq'[n] \in Seq(Items)
    BY <1>2, <1>3, <1>4
  <2> QED
    BY <1>1, <2>1 DEF Removed
<1>8. OneList(m)'
  <2>1. ItsOwn(m)'
    <3>1. \A j \in ToSet(seq'[m]) : timeout'[j] = m /\ linked'[j]
      <4> TAKE j \in ToSet(seq'[m])
      <4>1. CASE j = i
        <5>1. timeout'[j] = m
          BY <4>1, <1>T
        <5>2. linked'[j] = TRUE
          BY <4>1, <1>T, <1>1
        <5> QED
          BY <5>1, <5>2
      <4>2. CASE j # i
        <5>1. j \in Items /\ timeout[j] = m /\ linked[j]
          BY <4>2, <1>2, <1>4
        <5>2. timeout'[j] = timeout[j]
          BY <4>2, <5>1, <1>T
        <5>3. linked'[j] = linked[j]
          BY <4>2, <5>1, <1>T, <1>1
        <5> QED
          BY <5>1, <5>2, <5>3
      <4> QED
        BY <4>1, <4>2
    <3> QED
      BY <3>1, <1>4 DEF ItsOwn
  <2>2. lists'[m]
    BY <1>T, <1>1
  <2>3. ~(exp = m /\ own) => left'[m] # Off /\ (left'[m] = 0 \/ left'[m] + age'[Head(seq'[m])] <= m)
    <3>1. SUFFICES ASSUME ~(exp = m /\ own)
                   PROVE  left'[m] # Off /\ (left'[m] = 0 \/ left'[m] + age'[Head(seq'[m])] <= m)
      OBVIOUS
    <3>m. m \in Nat /\ m # Off
      BY Marks
    <3>2. CASE Unlink(seq[m], i) = <<>>
      <4>1. age'[Head(seq'[m])] = 0
        BY <3>2, <1>4, <1>a
      <4>2. CASE lists[m]
        <5>1. left'[m] = left[m]
          BY <4>2, <1>1
        <5>2. left[m] # Off
          BY <4>2, <3>1, <1>T DEF OneList, Timed
        <5>3. left[m] \in Nat /\ left[m] <= m
          BY <5>2, <1>T
        <5> QED
          BY <4>1, <5>1, <5>2, <5>3, <3>m
      <4>3. CASE ~lists[m]
        <5>1. left'[m] = m
          BY <4>3, <1>1, <1>T
        <5> QED
          BY <4>1, <5>1, <3>m
      <4> QED
        BY <4>2, <4>3
    <3>3. CASE Unlink(seq[m], i) # <<>>
      <4>1. /\ seq[m] # <<>>
            /\ Head(seq'[m]) \in Items \ {i}
            /\ age[Head(seq'[m])] <= age[Head(seq[m])]
        BY <3>3, <1>2, <1>4, <1>T, UnlinkHead
      <4>2. lists[m]
        BY <4>1, <1>T DEF OneList, Timed
      <4>3. left'[m] = left[m]
        BY <4>2, <1>1
      <4>4. left[m] # Off /\ (left[m] = 0 \/ left[m] + age[Head(seq[m])] <= m)
        BY <4>2, <3>1, <1>T DEF OneList, Timed
      <4>5. age'[Head(seq'[m])] = age[Head(seq'[m])]
        BY <4>1, <1>a
      <4>6. Head(seq[m]) \in Items
        BY <4>1, <1>2
      <4>7. left[m] \in Nat /\ age[Head(seq[m])] \in Nat /\ age[Head(seq'[m])] \in Nat
        BY <4>1, <4>4, <4>6, <1>T
      <4> QED
        BY <4>1, <4>3, <4>4, <4>5, <4>7, <3>m
    <3> QED
      BY <3>2, <3>3
  <2> QED
    BY <2>1, <2>2, <2>3, <1>1, <1>4 DEF OneList, Timed
<1>9. ASSUME NEW n \in Durations, n # m
      PROVE  OneList(n)'
  <2>1. seq'[n] = seq[n] /\ i \notin ToSet(seq[n])
    BY <1>3, <1>9
  <2>2. left'[n] = left[n]
    BY <1>9, <1>T, <1>1
  <2>3. lists'[n] = lists[n]
    BY <1>9, <1>T, <1>1
  <2> QED
    BY <2>1, <2>2, <2>3, <1>1, OtherList
<1> QED
  BY <1>5, <1>6, <1>7, <1>a, <1>8, <1>9

-----------------------------------------------------------------------------
\* In the beginning there is no list.
LEMMA InitSound == Init => ListsSound
<1> SUFFICES ASSUME Init PROVE ListsSound
  OBVIOUS
<1>1. TypeOK
  <2>1. seq \in [Durations -> Seq(Items)] /\ age \in [Items -> Nat]
    BY DEF Init
  <2>2. left \in [Durations -> Nat \cup {Off}] /\ \A m \in Durations : left[m] <= m
    BY Marks DEF Init, Off
  <2>3. /\ timeout \in [Items -> Durations \cup {Off, Unset}]
        /\ exp \in Durations \cup {Off}
        /\ running \in Items \cup {None}
    BY DEF Init
  <2>4. /\ lists \in [Durations -> BOOLEAN]
        /\ linked \in [Items -> BOOLEAN]
        /\ own \in BOOLEAN /\ broken \in BOOLEAN
    BY DEF Init
  <2>5. onTimeout \in [Items -> BOOLEAN]
    BY DEF Init
  <2> QED
    BY <2>1, <2>2, <2>3, <2>4, <2>5 DEF TypeOK
<1>2. ASSUME NEW m \in Durations PROVE OneList(m)
  <2>1. seq[m] = <<>> /\ left[m] = Off /\ lists[m] = FALSE
    BY DEF Init
  <2>2. ItsOwn(m) /\ Sorted(seq[m], age)
    BY <2>1 DEF ItsOwn, Sorted, IsInjective, ToSet
  <2>3. Timed(m)
    BY <2>1 DEF Timed
  <2> QED
    BY <2>2, <2>3 DEF OneList
<1> QED
  BY <1>1, <1>2, OfEachList

\* ListsSound after a step, from its parts.
LEMMA PartsNext ==
  ASSUME lists' \in [Durations -> BOOLEAN],
         seq' \in [Durations -> Seq(Items)],
         left' \in [Durations -> Nat \cup {Off}],
         \A m \in Durations : left'[m] <= m,
         age' \in [Items -> Nat],
         timeout' \in [Items -> Durations \cup {Off, Unset}],
         linked' \in [Items -> BOOLEAN],
         onTimeout' \in [Items -> BOOLEAN],
         exp' \in Durations \cup {Off},
         own' \in BOOLEAN,
         running' \in Items \cup {None},
         broken' \in BOOLEAN,
         \A m \in Durations : OneList(m)'
  PROVE  ListsSound'
<1>1. TypeOK'
  BY DEF TypeOK
<1> QED
  BY <1>1 DEF ListsSound, InItsOwnList, OldestFirst, NoEmptyListLeft, TimerCoversOldest,
              OneList, ItsOwn, Timed, Sorted

\* The program's calls.
LEMMA UserSound == ListsSound /\ User => ListsSound'
<1> SUFFICES ASSUME ListsSound, User PROVE ListsSound'
  OBVIOUS
<1>T. /\ lists \in [Durations -> BOOLEAN]
      /\ seq \in [Durations -> Seq(Items)]
      /\ left \in [Durations -> Nat \cup {Off}]
      /\ \A m \in Durations : left[m] <= m
      /\ age \in [Items -> Nat]
      /\ timeout \in [Items -> Durations \cup {Off, Unset}]
      /\ linked \in [Items -> BOOLEAN]
      /\ onTimeout \in [Items -> BOOLEAN]
      /\ exp \in Durations \cup {Off}
      /\ own \in BOOLEAN
      /\ running \in Items \cup {None}
      /\ broken \in BOOLEAN
      /\ \A m \in Durations : OneList(m)
  BY TypeParts
<1>i. \A i : InList(i) <=> \E m \in Durations : i \in ToSet(seq[m])
  <2>1. \A m \in Durations : DOMAIN seq[m] = 1..Len(seq[m])
    BY <1>T
  <2> QED
    BY <2>1 DEF InList, Contains, ToSet
<1>o. \A m \in Durations : \A j \in ToSet(seq[m]) : timeout[j] = m /\ linked[j]
  BY <1>T DEF OneList, ItsOwn
<1>1. ASSUME NEW i \in Items, NEW m \in Durations, setTimeout(i, m) PROVE ListsSound'
  <2>1. /\ Activate(i, m)
        /\ timeout' = [timeout EXCEPT ![i] = m]
        /\ onTimeout' = [onTimeout EXCEPT ![i] = TRUE]
        /\ ~InList(i)
        /\ UNCHANGED <<exp, own, running, broken>>
    BY <1>1 DEF setTimeout
  <2>2. \A n \in Durations : i \in ToSet(seq[n]) => n = m
    BY <2>1, <1>i
  <2>3. /\ lists' \in [Durations -> BOOLEAN]
        /\ seq' \in [Durations -> Seq(Items)]
        /\ left' \in [Durations -> Nat \cup {Off}]
        /\ \A n \in Durations : left'[n] <= n
        /\ age' \in [Items -> Nat]
        /\ linked' \in [Items -> BOOLEAN]
        /\ \A n \in Durations : OneList(n)'
    BY <2>1, <2>2, ActivateSound
  <2>4. timeout' \in [Items -> Durations \cup {Off, Unset}]
    BY <2>1, <1>T
  <2>5. onTimeout' \in [Items -> BOOLEAN]
    BY <2>1, <1>T
  <2> QED
    BY <2>1, <2>3, <2>4, <2>5, <1>T, PartsNext
<1>2. ASSUME NEW i \in Items, active(i) PROVE ListsSound'
  <2> DEFINE m == timeout[i]
  <2>1. m \in Durations
    BY <1>2, <1>T DEF active
  <2>2. Activate(i, m) /\ UNCHANGED <<timeout, onTimeout, exp, own, running, broken>>
    BY <1>2 DEF active
  <2>3. timeout' = [timeout EXCEPT ![i] = m]
    BY <2>2, <1>T
  <2>4. \A n \in Durations : i \in ToSet(seq[n]) => n = m
    BY <1>o
  <2> HIDE DEF m
  <2>5. /\ lists' \in [Durations -> BOOLEAN]
        /\ seq' \in [Durations -> Seq(Items)]
        /\ left' \in [Durations -> Nat \cup {Off}]
        /\ \A n \in Durations : left'[n] <= n
        /\ age' \in [Items -> Nat]
        /\ linked' \in [Items -> BOOLEAN]
        /\ \A n \in Durations : OneList(n)'
    BY <2>1, <2>2, <2>3, <2>4, ActivateSound
  <2> QED
    BY <2>2, <2>5, <1>T, PartsNext
<1>3. ASSUME NEW i \in Items, LeaveList(i), UNCHANGED <<exp, running, broken>>,
             NEW x \in Durations \cup {Off, Unset}, timeout' = [timeout EXCEPT ![i] = x],
             NEW b \in BOOLEAN, linked' = [linked EXCEPT ![i] = b],
             onTimeout' \in [Items -> BOOLEAN]
      PROVE  ListsSound'
  <2>1. /\ lists' \in [Durations -> BOOLEAN]
        /\ seq' \in [Durations -> Seq(Items)]
        /\ left' \in [Durations -> Nat \cup {Off}]
        /\ \A m \in Durations : left'[m] <= m
        /\ age' \in [Items -> Nat]
        /\ own' \in BOOLEAN
        /\ \A m \in Durations : OneList(m)'
    BY <1>3, LeaveSound
  <2>2. timeout' \in [Items -> Durations \cup {Off, Unset}]
    BY <1>3, <1>T
  <2>3. linked' \in [Items -> BOOLEAN]
    BY <1>3, <1>T
  <2> QED
    BY <2>1, <2>2, <2>3, <1>3, <1>T, PartsNext
<1>4. ASSUME NEW i \in Items, clearTimer(i) PROVE ListsSound'
  <2>1. onTimeout' \in [Items -> BOOLEAN]
    BY <1>4, <1>T DEF clearTimer
  <2>2. /\ LeaveList(i) /\ UNCHANGED <<exp, running, broken>>
        /\ timeout' = [timeout EXCEPT ![i] = Off]
        /\ linked' = [linked EXCEPT ![i] = FALSE]
    BY <1>4 DEF clearTimer
  <2> QED
    BY <2>1, <2>2, <1>3
<1>5. ASSUME NEW i \in Items, unenroll(i) PROVE ListsSound'
  <2>1. onTimeout' \in [Items -> BOOLEAN]
    BY <1>5, <1>T DEF unenroll
  <2>2. /\ LeaveList(i) /\ UNCHANGED <<exp, running, broken>>
        /\ timeout' = [timeout EXCEPT ![i] = Off]
        /\ linked' = [linked EXCEPT ![i] = FALSE]
    BY <1>5 DEF unenroll
  <2> QED
    BY <2>1, <2>2, <1>3
<1>6. ASSUME NEW i \in Items, NEW m \in Durations, enroll(i, m) PROVE ListsSound'
  <2>1. /\ timeout' = [timeout EXCEPT ![i] = m]
        /\ linked' = [linked EXCEPT ![i] = TRUE]
        /\ UNCHANGED <<onTimeout, exp, running, broken>>
    BY <1>6 DEF enroll
  <2>2. CASE linked[i]
    <3>1. LeaveList(i)
      BY <1>6, <2>2 DEF enroll
    <3> QED
      BY <2>1, <3>1, <1>3, <1>T
  <2>3. CASE ~linked[i]
    <3>1. UNCHANGED <<lists, seq, left, age, own>>
      BY <1>6, <2>3 DEF enroll
    <3>2. \A n \in Durations : i \notin ToSet(seq[n])
      BY <2>3, <1>o
    <3>3. timeout' \in [Items -> Durations \cup {Off, Unset}]
      BY <2>1, <1>T
    <3>4. linked' \in [Items -> BOOLEAN]
      BY <2>1, <1>T
    <3>5. ASSUME NEW n \in Durations PROVE OneList(n)'
      <4>1. \A j \in ToSet(seq[n]) : j # i /\ j \in Items
        BY <3>2, <1>T DEF ToSet
      <4>2. \A j \in ToSet(seq[n]) : timeout'[j] = timeout[j] /\ linked'[j] = linked[j]
        BY <4>1, <2>1, <1>T
      <4>3. ItsOwn(n)'
        BY <4>2, <3>1, <1>T DEF OneList, ItsOwn
      <4>4. Sorted(seq[n], age)' /\ Timed(n)'
        BY <2>1, <3>1, <1>T DEF OneList, Timed, Sorted
      <4> QED
        BY <4>3, <4>4 DEF OneList
    <3> QED
      BY <2>1, <3>1, <3>3, <3>4, <3>5, <1>T, PartsNext
  <2> QED
    BY <2>2, <2>3
<1>7. ASSUME NEW i \in Items, clearTimerAgain(i) PROVE ListsSound'
  <2>1. broken' = TRUE /\ UNCHANGED <<lists, seq, left, age, timeout, linked, onTimeout, exp, own, running>>
    BY <1>7 DEF clearTimerAgain
  <2>2. \A m \in Durations : OneList(m)'
    BY <2>1, <1>T DEF OneList, ItsOwn, Timed, Sorted
  <2> QED
    BY <2>1, <2>2, <1>T, PartsNext
<1> QED
  BY <1>1, <1>2, <1>4, <1>5, <1>6, <1>7 DEF User

\* The calls of a list's expiration function.
LEMMA ExpireSound == ListsSound /\ Expire => ListsSound'
<1> SUFFICES ASSUME ListsSound, Expire PROVE ListsSound'
  OBVIOUS
<1>T. /\ lists \in [Durations -> BOOLEAN]
      /\ seq \in [Durations -> Seq(Items)]
      /\ left \in [Durations -> Nat \cup {Off}]
      /\ \A m \in Durations : left[m] <= m
      /\ age \in [Items -> Nat]
      /\ timeout \in [Items -> Durations \cup {Off, Unset}]
      /\ linked \in [Items -> BOOLEAN]
      /\ onTimeout \in [Items -> BOOLEAN]
      /\ exp \in Durations \cup {Off}
      /\ own \in BOOLEAN
      /\ running \in Items \cup {None}
      /\ broken \in BOOLEAN
      /\ \A m \in Durations : OneList(m)
  BY TypeParts
<1>m. \A m \in Durations : m \in Nat /\ m # Off /\ 0 # Off
  BY Marks DEF Off
<1>1. ASSUME NEW m \in Durations, expirationCall(m) PROVE ListsSound'
  <2>1. /\ left[m] = 0 /\ exp = Off /\ exp' = m /\ own' = TRUE
        /\ left' = [left EXCEPT ![m] = Off]
        /\ UNCHANGED <<lists, seq, age, timeout, linked, onTimeout, running, broken>>
    BY <1>1 DEF expirationCall
  <2>2. left' \in [Durations -> Nat \cup {Off}] /\ \A n \in Durations : left'[n] <= n
    BY <2>1, <1>T, <1>m DEF Off
  <2>3. lists[m]
    BY <2>1, <1>T, <1>m DEF OneList, Timed
  <2>4. ASSUME NEW n \in Durations PROVE OneList(n)'
    <3>1. ItsOwn(n)' /\ Sorted(seq[n], age)'
      BY <2>1, <1>T DEF OneList, ItsOwn, Sorted
    <3> SUFFICES Timed(n)'
      BY <3>1 DEF OneList
    <3>2. CASE n = m
      BY <3>2, <2>1, <2>3, <1>T DEF Timed
    <3>3. CASE n # m
      <4>1. left'[n] = left[n] /\ exp # n
        BY <3>3, <2>1, <1>T, <1>m
      <4> QED
        BY <3>3, <4>1, <2>1, <1>T DEF OneList, Timed
    <3> QED
      BY <3>2, <3>3
  <2> QED
    BY <2>1, <2>2, <2>4, <1>T, PartsNext
<1>2. ASSUME expirationRestart PROVE ListsSound'
  <2> DEFINE i == Head(seq[exp])
  <2>1. /\ exp # Off /\ own /\ seq[exp] # <<>>
        /\ age[i] + 1 < exp
        /\ left' = [left EXCEPT ![exp] = exp - age[i]]
        /\ exp' = Off /\ own' = FALSE
        /\ UNCHANGED <<lists, seq, age, timeout, linked, onTimeout, running, broken>>
    BY <1>2 DEF expirationRestart, AtLoop, More, TooYoung
  <2>2. exp \in Durations
    BY <2>1, <1>T
  <2>3. i \in Items /\ age[i] \in Nat
    <3>1. seq[exp] \in Seq(Items)
      BY <2>2, <1>T
    <3>2. i \in Items
      BY <2>1, <3>1
    <3> QED
      BY <3>2, <1>T
  <2> HIDE DEF i
  <2>4. exp - age[i] \in Nat /\ exp - age[i] <= exp /\ exp - age[i] # Off
        /\ (exp - age[i]) + age[i] = exp
    BY <2>1, <2>2, <2>3, <1>m DEF Off
  <2>5. left' \in [Durations -> Nat \cup {Off}] /\ \A n \in Durations : left'[n] <= n
    BY <2>1, <2>2, <2>4, <1>T
  <2>6. ASSUME NEW n \in Durations PROVE OneList(n)'
    <3>1. ItsOwn(n)' /\ Sorted(seq[n], age)'
      BY <2>1, <1>T DEF OneList, ItsOwn, Sorted
    <3> SUFFICES Timed(n)'
      BY <3>1 DEF OneList
    <3>2. CASE n = exp
      <4>1. lists[n] /\ seq'[n] # <<>> /\ left'[n] = exp - age[i]
        BY <3>2, <2>1, <1>T DEF OneList, Timed
      <4>2. left'[n] + age'[Head(seq'[n])] = n
        BY <3>2, <4>1, <2>1, <2>4 DEF i
      <4> QED
        BY <3>2, <4>1, <4>2, <2>1, <2>4, <1>m DEF Timed
    <3>3. CASE n # exp
      <4>1. left'[n] = left[n] /\ exp' # n
        BY <3>3, <2>1, <1>T, <1>m
      <4> QED
        BY <3>3, <4>1, <2>1, <1>T DEF OneList, Timed
    <3> QED
      BY <3>2, <3>3
  <2> QED
    BY <2>1, <2>5, <2>6, <1>T, PartsNext
<1>3. ASSUME expirationFire PROVE ListsSound'
  <2> DEFINE i == Head(seq[exp])
  <2>1. /\ exp # Off /\ own /\ seq[exp] # <<>>
        /\ seq' = [seq EXCEPT ![exp] = Tail(@)]
        /\ age' = [age EXCEPT ![i] = 0]
        /\ linked' = [linked EXCEPT ![i] = FALSE]
        /\ running' = IF onTimeout[i] THEN i ELSE None
        /\ UNCHANGED <<lists, left, timeout, onTimeout, exp, own, broken>>
    BY <1>3 DEF expirationFire, AtLoop, More
  <2>2. exp \in Durations
    BY <2>1, <1>T
  <2>3. seq[exp] \in Seq(Items) /\ IsInjective(seq[exp]) /\ Sorted(seq[exp], age)
        /\ \A j \in ToSet(seq[exp]) : timeout[j] = exp /\ linked[j]
    BY <2>2, <1>T DEF OneList, ItsOwn
  <2>4. /\ i \in ToSet(seq[exp]) \cap Items
        /\ Tail(seq[exp]) \in Seq(Items)
        /\ IsInjective(Tail(seq[exp]))
        /\ ToSet(Tail(seq[exp])) = ToSet(seq[exp]) \ {i}
        /\ Sorted(Tail(seq[exp]), age')
    BY <2>1, <2>3, <1>T, TailKeeps
  <2>5. seq'[exp] = Tail(seq[exp]) /\ \A n \in Durations : n # exp => seq'[n] = seq[n]
    BY <2>1, <2>2, <1>T
  <2> HIDE DEF i
  <2>6. seq' \in [Durations -> Seq(Items)]
    BY <2>1, <2>2, <2>4, <1>T
  <2>7. age' \in [Items -> Nat]
    BY <2>1, <2>4, <1>T
  <2>8. linked' \in [Items -> BOOLEAN]
    BY <2>1, <2>4, <1>T
  <2>9. running' \in Items \cup {None}
    BY <2>1, <2>4, <1>T
  <2>10. ASSUME NEW n \in Durations PROVE OneList(n)'
    <3>1. CASE n = exp
      <4>1. lists[n]
        BY <3>1, <2>1, <1>T DEF OneList, Timed
      <4>2. Timed(n)'
        BY <3>1, <4>1, <2>1 DEF Timed
      <4>3. \A j \in ToSet(seq'[n]) : timeout'[j] = n /\ linked'[j]
        <5> TAKE j \in ToSet(seq'[n])
        <5>1. j \in ToSet(seq[n]) /\ j # i
          BY <3>1, <2>4, <2>5
        <5>2. timeout'[j] = n /\ linked[j]
          BY <3>1, <5>1, <2>1, <2>3
        <5>3. ToSet(seq[n]) \subseteq Items
          BY <1>T DEF ToSet
        <5>4. linked'[j] = linked[j]
          BY <5>1, <5>3, <2>1, <1>T
        <5> QED
          BY <5>2, <5>4
      <4>4. ItsOwn(n)' /\ Sorted(seq[n], age)'
        BY <3>1, <4>3, <2>4, <2>5 DEF ItsOwn
      <4> QED
        BY <4>2, <4>4 DEF OneList
    <3>2. CASE n # exp
      <4>1. i \notin ToSet(seq[n])
        <5>1. \A j \in ToSet(seq[n]) : timeout[j] = n
          BY <1>T DEF OneList, ItsOwn
        <5>2. timeout[i] = exp
          BY <2>3, <2>4
        <5> QED
          BY <3>2, <5>1, <5>2
      <4>2. timeout' = [timeout EXCEPT ![i] = timeout[i]]
        BY <2>1, <1>T
      <4>3. seq'[n] = seq[n] /\ left'[n] = left[n] /\ lists'[n] = lists[n]
        BY <3>2, <2>1, <2>5
      <4> QED
        BY <4>1, <4>2, <4>3, <2>1, <2>4, OtherList
    <3> QED
      BY <3>1, <3>2
  <2> QED
    BY <2>1, <2>6, <2>7, <2>8, <2>9, <2>10, <1>T, PartsNext
<1>4. ASSUME expirationReturn PROVE ListsSound'
  <2>1. running' = None /\ UNCHANGED <<lists, seq, left, age, timeout, linked, onTimeout, exp, own, broken>>
    BY <1>4 DEF expirationReturn
  <2>2. \A m \in Durations : OneList(m)'
    BY <2>1, <1>T DEF OneList, ItsOwn, Timed, Sorted
  <2> QED
    BY <2>1, <2>2, <1>T, PartsNext
<1>5. ASSUME expirationEnd PROVE ListsSound'
  <2> DEFINE empty == lists[exp] /\ seq[exp] = <<>>
  <2>1. /\ exp # Off /\ ~(own /\ seq[exp] # <<>>)
        /\ lists' = [lists EXCEPT ![exp] = lists[exp] /\ ~empty]
        /\ left' = IF empty THEN [left EXCEPT ![exp] = Off] ELSE left
        /\ exp' = Off /\ own' = FALSE
        /\ UNCHANGED <<seq, age, timeout, linked, onTimeout, running, broken>>
    BY <1>5 DEF expirationEnd, AtLoop, More
  <2>2. exp \in Durations
    BY <2>1, <1>T
  <2>3. lists' \in [Durations -> BOOLEAN]
    BY <2>1, <2>2, <1>T
  <2>4. left' \in [Durations -> Nat \cup {Off}] /\ \A n \in Durations : left'[n] <= n
    BY <2>1, <2>2, <1>T, <1>m DEF Off
  <2>5. ASSUME NEW n \in Durations PROVE OneList(n)'
    <3>1. ItsOwn(n)' /\ Sorted(seq[n], age)'
      BY <2>1, <1>T DEF OneList, ItsOwn, Sorted
    <3> SUFFICES Timed(n)'
      BY <3>1 DEF OneList
    <3>2. CASE n = exp
      <4>1. Timed(exp)
        BY <2>2, <1>T DEF OneList
      <4>2. CASE empty
        <5>1. lists'[n] = FALSE
          BY <3>2, <4>2, <2>1, <2>2, <1>T
        <5>2. left'[n] = Off /\ seq'[n] = <<>>
          BY <3>2, <4>2, <2>1, <2>2, <1>T
        <5> QED
          BY <5>1, <5>2 DEF Timed
      <4>3. CASE ~empty
        <5>1. lists'[n] = lists[n] /\ left'[n] = left[n] /\ seq'[n] = seq[n] /\ age' = age
          BY <3>2, <4>3, <2>1, <2>2, <1>T
        <5>2. CASE lists[n]
          <6>1. seq[n] # <<>> /\ ~own
            BY <3>2, <4>3, <5>2, <2>1
          <6> QED
            BY <3>2, <4>1, <5>1, <5>2, <6>1 DEF Timed
        <5>3. CASE ~lists[n]
          BY <3>2, <4>1, <5>1, <5>3 DEF Timed
        <5> QED
          BY <5>2, <5>3
      <4> QED
        BY <4>2, <4>3
    <3>3. CASE n # exp
      <4>1. left'[n] = left[n] /\ exp' # n
        BY <3>3, <2>1, <2>2, <1>T, <1>m
      <4>2. lists'[n] = lists[n]
        BY <3>3, <2>1, <2>2, <1>T
      <4> QED
        BY <3>3, <4>1, <4>2, <2>1, <1>T DEF OneList, Timed
    <3> QED
      BY <3>2, <3>3
  <2> QED
    BY <2>1, <2>3, <2>4, <2>5, <1>T, PartsNext
<1> QED
  BY <1>1, <1>2, <1>3, <1>4, <1>5 DEF Expire

\* The loop's time moves on.
LEMMA TickSound == ASSUME ListsSound, NEW d \in 1..MaxStep, Tick(d) PROVE ListsSound'
<1>T. /\ lists \in [Durations -> BOOLEAN]
      /\ seq \in [Durations -> Seq(Items)]
      /\ left \in [Durations -> Nat \cup {Off}]
      /\ \A m \in Durations : left[m] <= m
      /\ age \in [Items -> Nat]
      /\ timeout \in [Items -> Durations \cup {Off, Unset}]
      /\ linked \in [Items -> BOOLEAN]
      /\ onTimeout \in [Items -> BOOLEAN]
      /\ exp \in Durations \cup {Off}
      /\ own \in BOOLEAN
      /\ running \in Items \cup {None}
      /\ broken \in BOOLEAN
      /\ \A m \in Durations : OneList(m)
  BY TypeParts
<1>d. d \in Nat /\ 0 # Off /\ \A m \in Durations : m \in Nat
  BY TimersAssumption, Marks DEF Off
<1>1. /\ exp = Off
      /\ left' = [m \in Durations |-> CASE left[m] = Off -> Off
                                        [] left[m] \in 0..d -> 0
                                        [] OTHER         -> left[m] - d]
      /\ age' = [i \in Items |-> IF InList(i) THEN age[i] + d ELSE 0]
      /\ UNCHANGED <<lists, seq, timeout, linked, onTimeout, exp, own, running, broken>>
  BY DEF Tick
<1>2. ASSUME NEW m \in Durations
      PROVE  /\ left[m] = Off => left'[m] = Off
             /\ left[m] # Off /\ left[m] <= d => left'[m] = 0
             /\ left[m] # Off /\ ~(left[m] <= d) => left'[m] = left[m] - d
  <2>1. left'[m] = CASE left[m] = Off -> Off [] left[m] \in 0..d -> 0 [] OTHER -> left[m] - d
    BY <1>1
  <2>2. left[m] \in Nat \cup {Off} /\ Off \notin 0..d
    BY <1>T DEF Off
  <2>3. left[m] # Off => (left[m] \in 0..d <=> left[m] <= d)
    BY <2>2, <1>d
  <2> QED
    BY <2>1, <2>2, <2>3
<1>3. left' \in [Durations -> Nat \cup {Off}] /\ \A m \in Durations : left'[m] <= m
  <2>1. ASSUME NEW m \in Durations PROVE left'[m] \in Nat \cup {Off} /\ left'[m] <= m
    <3>1. left[m] \in Nat \cup {Off} /\ left[m] <= m
      BY <1>T
    <3> QED
      BY <3>1, <1>2, <1>d DEF Off
  <2>2. left' = [m \in Durations |-> left'[m]]
    BY <1>1
  <2> QED
    BY <2>1, <2>2
<1>4. age' \in [Items -> Nat]
  BY <1>1, <1>T, <1>d
<1>5. ASSUME NEW m \in Durations PROVE OneList(m)'
  <2>1. \A k \in 1..Len(seq[m]) : seq[m][k] \in Items /\ age'[seq[m][k]] = age[seq[m][k]] + d
    <3>1. seq[m] \in Seq(Items)
      BY <1>T
    <3>2. \A k \in 1..Len(seq[m]) : seq[m][k] \in Items /\ InList(seq[m][k])
      BY <3>1 DEF InList, Contains
    <3> QED
      BY <3>2, <1>1
  <2>2. \A k \in 1..Len(seq[m]) : age[seq[m][k]] \in Nat
    BY <2>1, <1>T
  <2>3. Sorted(seq[m], age)
    BY <1>T DEF OneList
  <2>4. Sorted(seq[m], age)'
    <3>1. seq' = seq
      BY <1>1
    <3>2. \A j, k \in 1..Len(seq[m]) : j < k => age'[seq[m][j]] >= age'[seq[m][k]]
      <4> TAKE j, k \in 1..Len(seq[m])
      <4> HAVE j < k
      <4>1. age[seq[m][j]] >= age[seq[m][k]]
        BY <2>3 DEF Sorted
      <4>2. age[seq[m][j]] \in Nat /\ age[seq[m][k]] \in Nat
        BY <2>2
      <4>3. age'[seq[m][j]] = age[seq[m][j]] + d /\ age'[seq[m][k]] = age[seq[m][k]] + d
        BY <2>1
      <4> QED
        BY <4>1, <4>2, <4>3, <1>d
    <3> QED
      BY <3>1, <3>2 DEF Sorted
  <2>5. ItsOwn(m)'
    BY <1>1, <1>T DEF OneList, ItsOwn
  <2>6. lists[m] => left'[m] # Off /\ (left'[m] = 0 \/ left'[m] + age'[Head(seq[m])] <= m)
    <3>1. SUFFICES ASSUME lists[m] PROVE left'[m] # Off /\ (left'[m] = 0 \/ left'[m] + age'[Head(seq[m])] <= m)
      OBVIOUS
    <3>2. exp # m
      BY <1>1, Marks
    <3>3. seq[m] # <<>> /\ left[m] # Off /\ (left[m] = 0 \/ left[m] + age[Head(seq[m])] <= m)
      BY <3>1, <3>2, <1>T DEF OneList, Timed
    <3>4. 1 \in 1..Len(seq[m]) /\ Head(seq[m]) = seq[m][1]
      <4>1. seq[m] \in Seq(Items)
        BY <1>T
      <4> QED
        BY <4>1, <3>3
    <3>5. age'[Head(seq[m])] = age[Head(seq[m])] + d /\ age[Head(seq[m])] \in Nat
      BY <3>4, <2>1, <2>2
    <3>6. left[m] \in Nat
      BY <3>3, <1>T
    <3> QED
      BY <3>3, <3>5, <3>6, <1>2, <1>d DEF Off
  <2>7. ~lists[m] => left'[m] = Off /\ seq[m] = <<>>
    BY <1>T, <1>2 DEF OneList, Timed
  <2>8. Timed(m)'
    BY <2>6, <2>7, <1>1, <1>T DEF OneList, Timed
  <2> QED
    BY <2>4, <2>5, <2>8 DEF OneList
<1> QED
  BY <1>1, <1>3, <1>4, <1>5, <1>T, PartsNext

-----------------------------------------------------------------------------
\* Every state has sound lists: each item is once in the list of its own
\* duration, oldest first, and every list has items and a timer that goes off
\* no later than its oldest item is due, except while its own expiration runs.
THEOREM Lists == Spec => []ListsSound
<1>1. Init => ListsSound
  BY InitSound
<1>2. ListsSound /\ [Next]_vars => ListsSound'
  <2> SUFFICES ASSUME ListsSound, [Next]_vars PROVE ListsSound'
    OBVIOUS
  <2>1. CASE User
    BY <2>1, UserSound
  <2>2. CASE Expire
    BY <2>2, ExpireSound
  <2>3. CASE \E d \in 1..MaxStep : Tick(d)
    BY <2>3, TickSound
  <2>4. CASE UNCHANGED vars
    BY <2>4 DEF vars, ListsSound, TypeOK, InItsOwnList, OldestFirst, NoEmptyListLeft,
                TimerCoversOldest
  <2> QED
    BY <2>1, <2>2, <2>3, <2>4 DEF Next
<1> QED
  BY <1>1, <1>2, PTL DEF Spec

\* When the loop's time moves on, every item in a list is still within its
\* duration: expiration overlooks none when it stops at the first item that is
\* too young and starts the timer for the rest.
THEOREM Overdue == Spec => []NeverOverdue
<1>1. ListsSound => NeverOverdue
  <2> SUFFICES ASSUME ListsSound, exp = Off, \A m \in Durations : left[m] # 0,
                      NEW i \in Items, InList(i)
               PROVE  age[i] < timeout[i]
    BY DEF NeverOverdue
  <2>1. PICK m \in Durations : \E k \in 1..Len(seq[m]) : seq[m][k] = i
    BY DEF InList, Contains
  <2>2. PICK k \in 1..Len(seq[m]) : seq[m][k] = i
    BY <2>1
  <2>3. /\ seq[m] \in Seq(Items) /\ left[m] \in Nat \cup {Off} /\ age \in [Items -> Nat]
        /\ OneList(m)
    BY TypeParts
  <2>4. 1 \in 1..Len(seq[m]) /\ seq[m] # <<>> /\ Head(seq[m]) = seq[m][1] /\ Head(seq[m]) \in Items
        /\ i \in ToSet(seq[m])
    BY <2>2, <2>3 DEF ToSet
  <2>5. timeout[i] = m
    BY <2>3, <2>4 DEF OneList, ItsOwn
  <2>6. age[i] <= age[Head(seq[m])]
    <3>1. CASE k = 1
      BY <3>1, <2>2, <2>3, <2>4
    <3>2. CASE 1 < k
      BY <3>2, <2>2, <2>3, <2>4 DEF OneList, Sorted
    <3> QED
      BY <3>1, <3>2
  <2>7. left[m] # Off /\ left[m] + age[Head(seq[m])] <= m
    BY <2>3, <2>4, Marks DEF OneList, Timed
  <2>8. left[m] \in Nat /\ left[m] # 0 /\ age[i] \in Nat /\ age[Head(seq[m])] \in Nat /\ m \in Nat
    BY <2>3, <2>4, <2>7, Marks
  <2> QED
    BY <2>5, <2>6, <2>7, <2>8
<1> QED
  BY <1>1, Lists, PTL
=============================================================================
