--------------------------- MODULE NetSocketProofs ---------------------------
(***************************************************************************)
(* Proofs about the two ends of an event: net.Socket, which emits it, and  *)
(* Emitter, which hands it to the listeners.                               *)
(*                                                                         *)
(* First the order and completeness of what a net.Socket writes, its       *)
(* counters and its "close" event, for any number of writes.               *)
(*                                                                         *)
(* Then Emitter.  Its table loses and doubles nobody because closing the   *)
(* holes only moves registrations to lower slots (CompactLowers, by        *)
(* induction over the rounds of the loop), and a new one goes to a slot    *)
(* that is free and within the table (InsertTable).  An emission calls     *)
(* nobody twice because whom it has called is never in a slot it has yet   *)
(* to reach; a quiet one reaches everyone because those it owes a call are *)
(* in the slots it has yet to reach, without a hole (FrameSound).          *)
(***************************************************************************)
EXTENDS Emitter, NetSocket, FiniteSetTheorems, NaturalsInduction, WellFoundedInduction, TLAPS

\* Everything handed to write and not lost: on the wire, in libuv's queue, and
\* waiting for the connection.
All == wire \o uvWrites \o connectQueue

\* In order, and while nothing has failed the chunk with number i is the i-th.
InOrder ==
  /\ Sorted(All)
  /\ \A i \in 1..Len(All) : All[i] <= chunks
  /\ ~failed => Len(All) = chunks /\ \A i \in 1..Len(All) : All[i] = i

\* The queue for the connection is empty once it was flushed: then connecting is
\* off, and nothing turns it on again.
QueueFlushed ==
  crash = "none" =>
    /\ ~connecting => connectQueue = <<>>
    /\ uvConn = "up" /\ emitting # "connect" => ~connecting
    /\ emitting = "connect" => uvConn = "up"
    /\ lookup \in {"none", "pending", "failed"} => uvConn = "idle"

\* _pendingWriteRequests covers libuv's queue, and each chunk is counted once.
PendingBounds ==
  crash = "none" => Len(uvWrites) <= pending /\ pending + Len(connectQueue) <= chunks

\* A shutdown that libuv accepted, and what was written by then.
ShutdownWaits ==
  /\ doneAt <= chunks
  /\ uvShut # "no" => uvConn # "idle"
  /\ uvConn = "failed" => failed
  /\ uvShut = "done" /\ ~failed => doneAt <= Len(wire)

\* The inductive invariant.
Inv ==
  /\ TypeOK
  /\ InOrder
  /\ QueueFlushed
  /\ PendingBounds
  /\ PendingMatchesQueue
  /\ ShutdownWaits
  /\ CloseOnce

-----------------------------------------------------------------------------
\* Where the elements of three sequences in a row are.
LEMMA Joined ==
  ASSUME NEW S, NEW a \in Seq(S), NEW b \in Seq(S), NEW c \in Seq(S)
  PROVE  /\ a \o b \o c \in Seq(S)
         /\ Len(a \o b \o c) = Len(a) + Len(b) + Len(c)
         /\ \A i \in 1..Len(a) : (a \o b \o c)[i] = a[i]
         /\ \A i \in 1..Len(b) : (a \o b \o c)[Len(a) + i] = b[i]
         /\ \A i \in 1..Len(c) : (a \o b \o c)[Len(a) + Len(b) + i] = c[i]
<1>1. a \o b \in Seq(S) /\ Len(a \o b) = Len(a) + Len(b)
  OBVIOUS
<1>2. \A i \in 1..Len(a) : (a \o b)[i] = a[i]
  OBVIOUS
<1>3. \A i \in 1..Len(b) : (a \o b)[Len(a) + i] = b[i]
  OBVIOUS
<1> DEFINE d == a \o b
<1> HIDE DEF d
<1>4. d \in Seq(S) /\ Len(d) = Len(a) + Len(b)
  BY <1>1 DEF d
<1>5. d \o c \in Seq(S) /\ Len(d \o c) = Len(d) + Len(c)
  BY <1>4, SMTT(30)
<1>6. \A i \in 1..Len(d) : (d \o c)[i] = d[i]
  BY <1>4
<1>7. \A i \in 1..Len(c) : (d \o c)[Len(d) + i] = c[i]
  BY <1>4
<1>8. \A i \in 1..Len(a) : (d \o c)[i] = a[i]
  BY <1>2, <1>4, <1>6 DEF d
<1>9. \A i \in 1..Len(b) : (d \o c)[Len(a) + i] = b[i]
  BY <1>3, <1>4, <1>6 DEF d
<1> QED BY <1>4, <1>5, <1>7, <1>8, <1>9 DEF d

\* The completion of the oldest request moves a chunk from libuv's queue to the
\* wire and leaves the whole as it was.
LEMMA MoveHead ==
  ASSUME NEW S, NEW a \in Seq(S), NEW b \in Seq(S), NEW c \in Seq(S), b # <<>>
  PROVE  Append(a, Head(b)) \o Tail(b) \o c = a \o b \o c
<1> DEFINE x == Append(a, Head(b))
           y == Tail(b)
           l == x \o y \o c
           r == a \o b \o c
<1>1. /\ x \in Seq(S) /\ Len(x) = Len(a) + 1 /\ x[Len(a) + 1] = b[1]
      /\ \A i \in 1..Len(a) : x[i] = a[i]
      /\ y \in Seq(S) /\ Len(y) = Len(b) - 1 /\ Len(b) > 0
      /\ \A i \in 1..Len(y) : y[i] = b[i + 1]
  OBVIOUS
<1> HIDE DEF x, y
<1>a. x \in Seq(S) /\ y \in Seq(S)
  BY <1>1
<1>2. /\ l \in Seq(S) /\ Len(l) = Len(x) + Len(y) + Len(c)
      /\ \A i \in 1..Len(x) : l[i] = x[i]
      /\ \A i \in 1..Len(y) : l[Len(x) + i] = y[i]
      /\ \A i \in 1..Len(c) : l[Len(x) + Len(y) + i] = c[i]
  BY <1>a, Joined, SMTT(30)
<1>3. /\ r \in Seq(S) /\ Len(r) = Len(a) + Len(b) + Len(c)
      /\ \A i \in 1..Len(a) : r[i] = a[i]
      /\ \A i \in 1..Len(b) : r[Len(a) + i] = b[i]
      /\ \A i \in 1..Len(c) : r[Len(a) + Len(b) + i] = c[i]
  BY Joined
<1> HIDE DEF l, r
<1>4. Len(l) = Len(r)
  BY <1>1, <1>2, <1>3
<1>5. ASSUME NEW i \in 1..Len(r) PROVE l[i] = r[i]
  <2>1. CASE i <= Len(a)
    BY <1>1, <1>2, <1>3, <2>1
  <2>2. CASE i = Len(a) + 1
    <3>1. l[i] = b[1]
      BY <1>1, <1>2, <2>2
    <3>2. r[Len(a) + 1] = b[1]
      BY <1>1, <1>3
    <3> QED BY <2>2, <3>1, <3>2
  <2>3. CASE i > Len(a) + 1 /\ i <= Len(a) + Len(b)
    <3> DEFINE k == i - (Len(a) + 1)
    <3>1. k \in 1..Len(y) /\ i = Len(x) + k /\ k + 1 \in 1..Len(b) /\ i = Len(a) + (k + 1)
      BY <1>1, <2>3
    <3> HIDE DEF k
    <3>2. l[i] = y[k] /\ y[k] = b[k + 1]
      BY <1>1, <1>2, <3>1
    <3>3. r[i] = b[k + 1]
      BY <1>3, <3>1
    <3> QED BY <3>2, <3>3
  <2>4. CASE i > Len(a) + Len(b)
    <3> DEFINE k == i - (Len(a) + Len(b))
    <3>1. k \in 1..Len(c) /\ i = Len(x) + Len(y) + k /\ i = Len(a) + Len(b) + k
      BY <1>1, <1>3, <2>4
    <3> HIDE DEF k
    <3> QED BY <1>2, <1>3, <3>1
  <2> QED BY <2>1, <2>2, <2>3, <2>4
<1>6. l = r
  BY <1>2, <1>3, <1>4, <1>5
<1> QED BY <1>6 DEF l, r, x, y

\* Without the oldest request the chunks after it move up by one.
LEMMA DropHead ==
  ASSUME NEW S, NEW a \in Seq(S), NEW b \in Seq(S), NEW c \in Seq(S), b # <<>>
  PROVE  LET r == a \o b \o c
             l == a \o Tail(b) \o c
         IN  /\ l \in Seq(S) /\ r \in Seq(S) /\ Len(l) = Len(r) - 1
             /\ \A i \in 1..Len(l) : l[i] = IF i <= Len(a) THEN r[i] ELSE r[i + 1]
<1> DEFINE y == Tail(b)
           l == a \o y \o c
           r == a \o b \o c
<1>1. /\ y \in Seq(S) /\ Len(y) = Len(b) - 1 /\ Len(b) > 0
      /\ \A i \in 1..Len(y) : y[i] = b[i + 1]
  OBVIOUS
<1> HIDE DEF y
<1>a. y \in Seq(S)
  BY <1>1
<1>2. /\ l \in Seq(S) /\ Len(l) = Len(a) + Len(y) + Len(c)
      /\ \A i \in 1..Len(a) : l[i] = a[i]
      /\ \A i \in 1..Len(y) : l[Len(a) + i] = y[i]
      /\ \A i \in 1..Len(c) : l[Len(a) + Len(y) + i] = c[i]
  BY <1>a, Joined
<1>3. /\ r \in Seq(S) /\ Len(r) = Len(a) + Len(b) + Len(c)
      /\ \A i \in 1..Len(a) : r[i] = a[i]
      /\ \A i \in 1..Len(b) : r[Len(a) + i] = b[i]
      /\ \A i \in 1..Len(c) : r[Len(a) + Len(b) + i] = c[i]
  BY Joined
<1> HIDE DEF l, r
<1>4. Len(l) = Len(r) - 1
  BY <1>1, <1>2, <1>3
<1>5. ASSUME NEW i \in 1..Len(l) PROVE l[i] = IF i <= Len(a) THEN r[i] ELSE r[i + 1]
  <2>1. CASE i <= Len(a)
    BY <1>2, <1>3, <2>1
  <2>2. CASE i > Len(a) /\ i <= Len(a) + Len(y)
    <3> DEFINE k == i - Len(a)
    <3>1. k \in 1..Len(y) /\ i = Len(a) + k /\ k + 1 \in 1..Len(b) /\ i + 1 = Len(a) + (k + 1)
      BY <1>1, <2>2
    <3> HIDE DEF k
    <3>2. l[i] = y[k] /\ y[k] = b[k + 1]
      BY <1>1, <1>2, <3>1
    <3>3. r[i + 1] = b[k + 1]
      BY <1>3, <3>1
    <3> QED BY <2>2, <3>2, <3>3
  <2>3. CASE i > Len(a) + Len(y)
    <3> DEFINE k == i - (Len(a) + Len(y))
    <3>1. k \in 1..Len(c) /\ i = Len(a) + Len(y) + k /\ i + 1 = Len(a) + Len(b) + k
      BY <1>1, <1>2, <2>3, SMTT(30)
    <3> HIDE DEF k
    <3>2. l[i] = c[k]
      BY <1>2, <3>1
    <3>3. r[i + 1] = c[k]
      BY <1>3, <3>1
    <3>4. i > Len(a)
      BY <1>1, <2>3
    <3> QED BY <3>2, <3>3, <3>4
  <2> QED BY <2>1, <2>2, <2>3
<1> QED BY <1>2, <1>3, <1>4, <1>5 DEF l, r, y

\* A chunk at the end of the last queue is at the end of the whole.
LEMMA PutLast ==
  ASSUME NEW S, NEW a \in Seq(S), NEW b \in Seq(S), NEW c \in Seq(S), NEW x \in S
  PROVE  /\ a \o b \o Append(c, x) = Append(a \o b \o c, x)
         /\ a \o Append(b, x) = Append(a \o b, x)
<1>1. ASSUME NEW d \in Seq(S), NEW e \in Seq(S)
      PROVE  d \o Append(e, x) = Append(d \o e, x)
  OBVIOUS
<1>2. a \o b \in Seq(S)
  OBVIOUS
<1> QED BY <1>1, <1>2

\* Flushing joins the last two queues.
LEMMA Flush ==
  ASSUME NEW S, NEW a \in Seq(S), NEW b \in Seq(S), NEW c \in Seq(S)
  PROVE  a \o (b \o c) \o <<>> = a \o b \o c
<1>1. a \o (b \o c) = a \o b \o c
  OBVIOUS
<1>2. b \o c \in Seq(S) /\ a \o (b \o c) \in Seq(S)
  OBVIOUS
<1> QED BY <1>1, <1>2

-----------------------------------------------------------------------------
\* The chunk numbers of the whole, in the state before a step.
LEMMA AllTyped ==
  ASSUME Inv
  PROVE  /\ wire \in Seq(Chunks) /\ uvWrites \in Seq(Chunks) /\ connectQueue \in Seq(Chunks)
         /\ All \in Seq(Chunks) /\ Len(All) = Len(wire) + Len(uvWrites) + Len(connectQueue)
         /\ \A i \in 1..Len(All) : All[i] \in Nat
<1>1. wire \in Seq(Chunks) /\ uvWrites \in Seq(Chunks) /\ connectQueue \in Seq(Chunks)
  BY DEF Inv, TypeOK
<1>2. All \in Seq(Chunks) /\ Len(All) = Len(wire) + Len(uvWrites) + Len(connectQueue)
  BY <1>1, Joined DEF All
<1>3. ASSUME NEW i \in 1..Len(All) PROVE All[i] \in Nat
  <2>1. All[i] \in Chunks
    BY <1>2
  <2> QED BY <2>1, BoundsAssumption DEF Chunks
<1> QED BY <1>1, <1>2, <1>3

\* What is in order stays so while the queues do not change; a failure only
\* weakens it.
LEMMA OrderKept ==
  ASSUME InOrder, UNCHANGED <<wire, uvWrites, connectQueue, chunks>>, failed' \/ failed' = failed
  PROVE  InOrder'
<1>1. All' = All
  BY DEF All
<1> QED BY <1>1 DEF InOrder, Sorted

\* A chunk that is the next by number and comes last keeps the order.
LEMMA OrderAppend ==
  ASSUME Inv, chunks < MaxChunks, All' = Append(All, chunks + 1), chunks' = chunks + 1,
         failed' = failed
  PROVE  InOrder'
<1>1. /\ All \in Seq(Chunks) /\ Len(All) \in Nat /\ \A i \in 1..Len(All) : All[i] \in Nat
      /\ chunks \in Nat
  BY AllTyped DEF Inv, TypeOK
<1>2. /\ Len(All') = Len(All) + 1 /\ All'[Len(All) + 1] = chunks + 1
      /\ \A i \in 1..Len(All) : All'[i] = All[i]
      /\ DOMAIN All' = 1..Len(All')
  BY <1>1
<1>3. Sorted(All)'
  BY <1>1, <1>2 DEF Inv, InOrder, Sorted
<1>4. \A i \in 1..Len(All') : All'[i] <= chunks'
  BY <1>1, <1>2 DEF Inv, InOrder
<1>5. ~failed' => Len(All') = chunks' /\ \A i \in 1..Len(All') : All'[i] = i
  BY <1>1, <1>2 DEF Inv, InOrder
<1> QED BY <1>3, <1>4, <1>5 DEF InOrder

\* write on a socket that is connecting: the chunk goes behind all others.
LEMMA Order_writeQueued == ASSUME Inv, writeQueued PROVE InOrder'
<1>1. chunks + 1 \in Chunks /\ chunks < MaxChunks
  BY BoundsAssumption DEF writeQueued, Inv, TypeOK, Chunks
<1>2. All' = wire \o uvWrites \o Append(connectQueue, chunks + 1)
  BY DEF writeQueued, All, uv
<1>3. All' = Append(All, chunks + 1)
  <2>1. wire \in Seq(Chunks) /\ uvWrites \in Seq(Chunks) /\ connectQueue \in Seq(Chunks)
    BY AllTyped
  <2>2. wire \o uvWrites \o Append(connectQueue, chunks + 1)
          = Append(wire \o uvWrites \o connectQueue, chunks + 1)
    BY <1>1, <2>1, PutLast
  <2> QED BY <1>2, <2>2, Zenon DEF All
<1> QED BY <1>1, <1>3, OrderAppend DEF writeQueued

\* write on a connection: nothing waits for the connection any more, so the end
\* of libuv's queue is the end of the whole.
LEMMA Order_write == ASSUME Inv, write PROVE InOrder'
<1>1. chunks + 1 \in Chunks /\ chunks < MaxChunks
  BY BoundsAssumption DEF write, Inv, TypeOK, Chunks
<1>2. connectQueue = <<>>
  BY DEF write, Inv, QueueFlushed
<1>3. All = wire \o uvWrites \o <<>> /\ All' = wire \o Append(uvWrites, chunks + 1) \o <<>>
  BY <1>2 DEF write, All
<1>4. All' = Append(All, chunks + 1)
  <2>1. wire \in Seq(Chunks) /\ uvWrites \in Seq(Chunks)
    BY AllTyped
  <2>2. Append(uvWrites, chunks + 1) \in Seq(Chunks)
    BY <1>1, <2>1
  <2>3. /\ wire \o uvWrites \o <<>> = wire \o uvWrites
        /\ wire \o Append(uvWrites, chunks + 1) \o <<>> = wire \o Append(uvWrites, chunks + 1)
    <3>1. ASSUME NEW b \in Seq(Chunks) PROVE wire \o b \o <<>> = wire \o b
      BY <2>1
    <3> QED BY <2>1, <2>2, <3>1
  <2>4. wire \o Append(uvWrites, chunks + 1) = Append(wire \o uvWrites, chunks + 1)
    BY <1>1, <2>1, PutLast
  <2> QED BY <1>3, <2>3, <2>4, Zenon
<1> QED BY <1>1, <1>4, OrderAppend DEF write

\* write before connect: the chunk is lost.
LEMMA Order_writeUnconnected == ASSUME Inv, writeUnconnected PROVE InOrder'
<1>1. All' = All /\ chunks' = chunks + 1 /\ failed' /\ chunks \in Nat
  BY DEF writeUnconnected, All, uv, Inv, TypeOK
<1>2. \A i \in 1..Len(All) : All[i] \in Nat
  BY AllTyped
<1> QED BY <1>1, <1>2 DEF Inv, InOrder, Sorted

\* The flush of the queue moves the border between two parts of the whole.
LEMMA Order_connectFlush == ASSUME Inv, connectFlush PROVE InOrder'
<1>1. CASE hasHandle
  <2>1. All' = wire \o (uvWrites \o connectQueue) \o <<>>
    BY <1>1 DEF connectFlush, All, hist
  <2>2. All' = All
    BY <2>1, AllTyped, Flush DEF All
  <2> QED BY <2>2 DEF connectFlush, hist, Inv, InOrder, Sorted
<1>2. CASE ~hasHandle
  BY <1>2, OrderKept DEF connectFlush, hist, Inv
<1> QED BY <1>1, <1>2

\* A chunk that was written moves to the wire.
LEMMA Order_writeDone == ASSUME Inv, writeDone PROVE InOrder'
<1>1. All' = Append(wire, Head(uvWrites)) \o Tail(uvWrites) \o connectQueue /\ uvWrites # <<>>
  BY DEF writeDone, All
<1>2. All' = All
  BY <1>1, AllTyped, MoveHead DEF All
<1> QED BY <1>2 DEF writeDone, Inv, InOrder, Sorted

\* A chunk whose write failed leaves a gap, and the others keep their order.
LEMMA Order_writeFails == ASSUME Inv, writeFails PROVE InOrder'
<1>1. /\ All' = wire \o Tail(uvWrites) \o connectQueue /\ uvWrites # <<>>
      /\ failed' /\ chunks' = chunks
  BY DEF writeFails, All, sock
<1>2. /\ All' \in Seq(Chunks) /\ All \in Seq(Chunks) /\ Len(All') = Len(All) - 1
      /\ \A i \in 1..Len(All') : All'[i] = IF i <= Len(wire) THEN All[i] ELSE All[i + 1]
  BY <1>1, AllTyped, DropHead DEF All
<1>3. /\ Len(All) \in Nat /\ Len(All') \in Nat /\ Len(wire) \in Nat
      /\ DOMAIN All = 1..Len(All) /\ DOMAIN All' = 1..Len(All')
      /\ \A i \in 1..Len(All) : All[i] \in Nat
  BY <1>2, AllTyped
<1>4. Sorted(All)'
  <2> SUFFICES ASSUME NEW i \in 1..Len(All'), NEW j \in 1..Len(All'), i < j
               PROVE  All'[i] < All'[j]
    BY <1>3 DEF Sorted
  <2>1. \A m, n \in 1..Len(All) : m < n => All[m] < All[n]
    BY <1>3 DEF Inv, InOrder, Sorted
  <2>2. i \in 1..Len(All) /\ j \in 1..Len(All) /\ i + 1 \in 1..Len(All) /\ j + 1 \in 1..Len(All)
    BY <1>2, <1>3
  <2>3. All[i] < All[j] /\ All[i + 1] < All[j + 1] /\ All[i] < All[j + 1]
    BY <2>1, <2>2
  <2> QED BY <1>2, <1>3, <2>3
<1>5. \A i \in 1..Len(All') : All'[i] <= chunks'
  BY <1>1, <1>2, <1>3 DEF Inv, InOrder
<1> QED BY <1>1, <1>4, <1>5 DEF InOrder

-----------------------------------------------------------------------------
\* Socket:shutdown notes what was written when libuv accepts, which it does at
\* most once and not before the socket has begun to connect.
LEMMA ShutdownStep ==
  ASSUME Inv, Shutdown, UNCHANGED <<uvConn, chunks, failed, wire>>
  PROVE  /\ ShutdownWaits'
         /\ uvShut' \in {"no", "pending", "done"} /\ doneAt' \in 0..MaxChunks
         /\ refused' \in BOOLEAN
<1>1. PICK accepts \in uv_shutdown_accepts :
        /\ uvShut' = IF accepts THEN "pending" ELSE uvShut
        /\ doneAt' = IF accepts THEN chunks ELSE doneAt
        /\ refused' = (refused \/ ~accepts)
  BY DEF Shutdown
<1>2. CASE accepts
  <2>1. uvConn # "idle" /\ uvShut = "no"
    BY <1>1, <1>2 DEF uv_shutdown_accepts
  <2>2. uvShut' = "pending" /\ doneAt' = chunks
    BY <1>1, <1>2
  <2> QED BY <1>1, <2>1, <2>2 DEF Inv, TypeOK, ShutdownWaits
<1>3. CASE ~accepts
  BY <1>1, <1>3 DEF Inv, TypeOK, ShutdownWaits
<1> QED BY <1>2, <1>3

\* A complete shutdown has all that was written before it on the wire: libuv's
\* queue is empty, and so is the one for the connection, because the connection
\* is up and its listeners have run.
LEMMA ShutdownComplete ==
  ASSUME Inv, shutdownDone
  PROVE  ShutdownWaits'
<1>1. /\ uvShut = "pending" /\ uvWrites = <<>> /\ uvConn # "pending" /\ crash = "none"
      /\ emitting = "none" /\ UNCHANGED <<uvConn, wire, chunks, doneAt, failed>>
  BY DEF shutdownDone, Idle, hist
<1>2. CASE failed
  BY <1>1, <1>2 DEF Inv, ShutdownWaits
<1>3. CASE ~failed
  <2>1. uvConn = "up"
    BY <1>1, <1>3 DEF Inv, TypeOK, ShutdownWaits
  <2>2. connectQueue = <<>>
    BY <1>1, <2>1 DEF Inv, QueueFlushed
  <2>3. Len(All) = Len(wire)
    BY <1>1, <2>2, AllTyped
  <2>4. Len(All) = chunks
    BY <1>3 DEF Inv, InOrder
  <2> QED BY <1>1, <2>1, <2>3, <2>4 DEF Inv, ShutdownWaits
<1> QED BY <1>2, <1>3

\* The types after the two events that only set flags and counters.
LEMMA EventTypes ==
  ASSUME TypeOK, endEvent \/ closeEvent
  PROVE  TypeOK'
<1>1. CASE endEvent
  <2>1. UNCHANGED <<hasHandle, destroyed, connecting, connectQueue, pending, idle, lookup, closeTick,
                    uvConn, uvWrites, uvShut, uvClosing, hist, crash>>
    BY <1>1 DEF endEvent, sock
  <2>2. uvReading' \in BOOLEAN /\ ended' \in BOOLEAN /\ emitting' \in {"none", "connect", "end"}
    BY <1>1, Zenon DEF endEvent
  <2> QED BY <2>1, <2>2 DEF TypeOK, hist
<1>2. CASE closeEvent
  <2>1. UNCHANGED <<sock, lookup, emitting, uv, wire, chunks, refused, doneAt, failed, owed, crash>>
    BY <1>2 DEF closeEvent
  <2>2. closes' \in Nat
    BY <1>2 DEF TypeOK, closeEvent
  <2>3. closeTick' \in BOOLEAN
    BY <1>2, Zenon DEF closeEvent
  <2> QED BY <2>1, <2>2, <2>3 DEF TypeOK, sock, uv
<1> QED BY <1>1, <1>2

\* Every action preserves the invariant.
LEMMA NextInv == Inv /\ [Next]_vars => Inv'
<1> SUFFICES ASSUME Inv, [Next]_vars PROVE Inv'
  OBVIOUS
<1> USE BoundsAssumption
<1> USE DEF Inv, TypeOK, QueueFlushed, PendingBounds, PendingMatchesQueue, ShutdownWaits,
            CloseOnce, Idle, sock, loop, uv, hist, Chunks
<1>1. CASE \E set \in BOOLEAN : setTimeout(set)
  <2>0. InOrder'
    BY <1>1, OrderKept DEF setTimeout
  <2>1. TypeOK'
    BY <1>1 DEF setTimeout
  <2>2. QueueFlushed'
    BY <1>1 DEF setTimeout
  <2>3. PendingBounds'
    BY <1>1 DEF setTimeout
  <2>4. PendingMatchesQueue'
    BY <1>1 DEF setTimeout
  <2>5. ShutdownWaits'
    BY <1>1 DEF setTimeout
  <2>6. CloseOnce'
    BY <1>1 DEF setTimeout
  <2> QED BY <2>0, <2>1, <2>2, <2>3, <2>4, <2>5, <2>6
<1>2. CASE \E read \in BOOLEAN : pauseResume(read)
  <2>0. InOrder'
    BY <1>2, OrderKept DEF pauseResume
  <2>1. TypeOK'
    BY <1>2 DEF pauseResume
  <2>2. QueueFlushed'
    BY <1>2 DEF pauseResume
  <2>3. PendingBounds'
    BY <1>2 DEF pauseResume
  <2>4. PendingMatchesQueue'
    BY <1>2 DEF pauseResume
  <2>5. ShutdownWaits'
    BY <1>2 DEF pauseResume
  <2>6. CloseOnce'
    BY <1>2 DEF pauseResume
  <2> QED BY <2>0, <2>1, <2>2, <2>3, <2>4, <2>5, <2>6
<1>3. CASE connect
  <2>0. InOrder'
    BY <1>3, OrderKept DEF connect, Activated
  <2>1. TypeOK'
    BY <1>3 DEF connect, Activated
  <2>2. QueueFlushed'
    BY <1>3 DEF connect, Activated
  <2>3. PendingBounds'
    BY <1>3 DEF connect, Activated
  <2>4. PendingMatchesQueue'
    BY <1>3 DEF connect, Activated
  <2>5. ShutdownWaits'
    BY <1>3 DEF connect, Activated
  <2>6. CloseOnce'
    BY <1>3 DEF connect, Activated
  <2> QED BY <2>0, <2>1, <2>2, <2>3, <2>4, <2>5, <2>6
<1>4. CASE connectDestroyed
  <2>0. InOrder'
    BY <1>4, OrderKept DEF connectDestroyed, Activated
  <2>1. TypeOK'
    BY <1>4 DEF connectDestroyed, Activated
  <2>2. QueueFlushed'
    BY <1>4 DEF connectDestroyed, Activated
  <2>3. PendingBounds'
    BY <1>4 DEF connectDestroyed, Activated
  <2>4. PendingMatchesQueue'
    BY <1>4 DEF connectDestroyed, Activated
  <2>5. ShutdownWaits'
    BY <1>4 DEF connectDestroyed, Activated
  <2>6. CloseOnce'
    BY <1>4 DEF connectDestroyed, Activated
  <2> QED BY <2>0, <2>1, <2>2, <2>3, <2>4, <2>5, <2>6
<1>5. CASE writeQueued
  <2>0. InOrder'
    BY <1>5, Order_writeQueued
  <2>1. TypeOK'
    BY <1>5 DEF writeQueued
  <2>2. QueueFlushed'
    BY <1>5 DEF writeQueued
  <2>3. PendingBounds'
    BY <1>5 DEF writeQueued
  <2>4. PendingMatchesQueue'
    BY <1>5 DEF writeQueued
  <2>5. ShutdownWaits'
    BY <1>5 DEF writeQueued
  <2>6. CloseOnce'
    BY <1>5 DEF writeQueued
  <2> QED BY <2>0, <2>1, <2>2, <2>3, <2>4, <2>5, <2>6
<1>6. CASE writeUnconnected
  <2>0. InOrder'
    BY <1>6, Order_writeUnconnected
  <2>1. TypeOK'
    BY <1>6 DEF writeUnconnected, Activated
  <2>2. QueueFlushed'
    BY <1>6 DEF writeUnconnected, Activated
  <2>3. PendingBounds'
    BY <1>6 DEF writeUnconnected, Activated
  <2>4. PendingMatchesQueue'
    BY <1>6 DEF writeUnconnected, Activated
  <2>5. ShutdownWaits'
    BY <1>6 DEF writeUnconnected, Activated
  <2>6. CloseOnce'
    BY <1>6 DEF writeUnconnected, Activated
  <2> QED BY <2>0, <2>1, <2>2, <2>3, <2>4, <2>5, <2>6
<1>7. CASE write
  <2>0. InOrder'
    BY <1>7, Order_write
  <2>1. TypeOK'
    <3>1. /\ chunks' \in 0..MaxChunks /\ pending' \in 0..MaxChunks
          /\ uvWrites' \in Seq(Chunks) /\ idle' \in {"nil", "set", "armed", "off"}
      BY <1>7 DEF write, Activated
    <3>2. owed' \in BOOLEAN
      BY <1>7, Zenon DEF write
    <3> QED BY <1>7, <3>1, <3>2, ZenonT(60) DEF write
  <2>2. QueueFlushed'
    BY <1>7 DEF write, Activated
  <2>3. PendingBounds'
    BY <1>7 DEF write, Activated
  <2>4. PendingMatchesQueue'
    BY <1>7 DEF write, Activated
  <2>5. ShutdownWaits'
    BY <1>7 DEF write, Activated
  <2>6. CloseOnce'
    BY <1>7 DEF write, Activated
  <2> QED BY <2>0, <2>1, <2>2, <2>3, <2>4, <2>5, <2>6
<1>8. CASE done
  <2>0. InOrder'
    BY <1>8, OrderKept DEF done, Shutdown, uv_shutdown_accepts
  <2>1. TypeOK'
    BY <1>8, ShutdownStep DEF done
  <2>2. QueueFlushed'
    BY <1>8 DEF done, Shutdown, uv_shutdown_accepts
  <2>3. PendingBounds'
    BY <1>8 DEF done, Shutdown, uv_shutdown_accepts
  <2>4. PendingMatchesQueue'
    BY <1>8 DEF done, Shutdown, uv_shutdown_accepts
  <2>5. ShutdownWaits'
    BY <1>8, ShutdownStep DEF done
  <2>6. CloseOnce'
    BY <1>8 DEF done, Shutdown, uv_shutdown_accepts
  <2> QED BY <2>0, <2>1, <2>2, <2>3, <2>4, <2>5, <2>6
<1>9. CASE destroy
  <2>0. InOrder'
    BY <1>9, OrderKept DEF destroy, Destroy
  <2>1. TypeOK'
    BY <1>9, ZenonT(60) DEF destroy, Destroy
  <2>2. QueueFlushed'
    BY <1>9 DEF destroy, Destroy
  <2>3. PendingBounds'
    BY <1>9 DEF destroy, Destroy
  <2>4. PendingMatchesQueue'
    BY <1>9 DEF destroy, Destroy
  <2>5. ShutdownWaits'
    BY <1>9 DEF destroy, Destroy
  <2>6. CloseOnce'
    BY <1>9 DEF destroy, Destroy
  <2> QED BY <2>0, <2>1, <2>2, <2>3, <2>4, <2>5, <2>6
<1>10. CASE lookupDone
  <2>0. InOrder'
    BY <1>10, OrderKept DEF lookupDone, Activated
  <2>1. TypeOK'
    BY <1>10 DEF lookupDone, Activated
  <2>2. QueueFlushed'
    BY <1>10 DEF lookupDone, Activated
  <2>3. PendingBounds'
    BY <1>10 DEF lookupDone, Activated
  <2>4. PendingMatchesQueue'
    BY <1>10 DEF lookupDone, Activated
  <2>5. ShutdownWaits'
    BY <1>10 DEF lookupDone, Activated
  <2>6. CloseOnce'
    BY <1>10 DEF lookupDone, Activated
  <2> QED BY <2>0, <2>1, <2>2, <2>3, <2>4, <2>5, <2>6
<1>11. CASE lookupFails
  <2>0. InOrder'
    BY <1>11, OrderKept DEF lookupFails
  <2>1. TypeOK'
    BY <1>11 DEF lookupFails
  <2>2. QueueFlushed'
    BY <1>11 DEF lookupFails
  <2>3. PendingBounds'
    BY <1>11 DEF lookupFails
  <2>4. PendingMatchesQueue'
    BY <1>11 DEF lookupFails
  <2>5. ShutdownWaits'
    BY <1>11 DEF lookupFails
  <2>6. CloseOnce'
    BY <1>11 DEF lookupFails
  <2> QED BY <2>0, <2>1, <2>2, <2>3, <2>4, <2>5, <2>6
<1>12. CASE lookupTick
  <2>0. InOrder'
    BY <1>12, OrderKept DEF lookupTick, DestroyOnce, Destroy, KeepSocket
  <2>1. TypeOK'
    BY <1>12 DEF lookupTick, DestroyOnce, Destroy, KeepSocket
  <2>2. QueueFlushed'
    BY <1>12 DEF lookupTick, DestroyOnce, Destroy, KeepSocket
  <2>3. PendingBounds'
    BY <1>12 DEF lookupTick, DestroyOnce, Destroy, KeepSocket
  <2>4. PendingMatchesQueue'
    BY <1>12 DEF lookupTick, DestroyOnce, Destroy, KeepSocket
  <2>5. ShutdownWaits'
    BY <1>12 DEF lookupTick, DestroyOnce, Destroy, KeepSocket
  <2>6. CloseOnce'
    BY <1>12 DEF lookupTick, DestroyOnce, Destroy, KeepSocket
  <2> QED BY <2>0, <2>1, <2>2, <2>3, <2>4, <2>5, <2>6
<1>13. CASE \E r \in BOOLEAN : connectFails(r)
  <2>0. InOrder'
    BY <1>13, OrderKept DEF connectFails, DestroyOnce, Destroy, KeepSocket
  <2>1. TypeOK'
    <3>1. CASE UNCHANGED <<destroyed, hasHandle, idle, closeTick, uvClosing, uvReading>>
      BY <1>13, <3>1, SMTT(60) DEF connectFails
    <3>2. CASE Destroy
      <4>1. uvClosing' \in {"no", "closing", "closed"}
        BY <3>2 DEF Destroy
      <4> QED BY <1>13, <3>2, <4>1, Zenon DEF connectFails, Destroy
    <3> QED BY <1>13, <3>1, <3>2 DEF connectFails, DestroyOnce, KeepSocket
  <2>2. QueueFlushed'
    BY <1>13 DEF connectFails, DestroyOnce, Destroy, KeepSocket
  <2>3. PendingBounds'
    BY <1>13 DEF connectFails, DestroyOnce, Destroy, KeepSocket
  <2>4. PendingMatchesQueue'
    BY <1>13 DEF connectFails, DestroyOnce, Destroy, KeepSocket
  <2>5. ShutdownWaits'
    BY <1>13 DEF connectFails, DestroyOnce, Destroy, KeepSocket
  <2>6. CloseOnce'
    BY <1>13 DEF connectFails, DestroyOnce, Destroy, KeepSocket
  <2> QED BY <2>0, <2>1, <2>2, <2>3, <2>4, <2>5, <2>6
<1>14. CASE connectEvent
  <2>0. InOrder'
    BY <1>14, OrderKept DEF connectEvent
  <2>1. TypeOK'
    BY <1>14 DEF connectEvent
  <2>2. QueueFlushed'
    BY <1>14 DEF connectEvent
  <2>3. PendingBounds'
    BY <1>14 DEF connectEvent
  <2>4. PendingMatchesQueue'
    BY <1>14 DEF connectEvent
  <2>5. ShutdownWaits'
    BY <1>14 DEF connectEvent
  <2>6. CloseOnce'
    BY <1>14 DEF connectEvent
  <2> QED BY <2>0, <2>1, <2>2, <2>3, <2>4, <2>5, <2>6
<1>15. CASE connectFlush
  <2>0. InOrder'
    BY <1>15, Order_connectFlush
  <2>1. TypeOK'
    <3>1. idle' \in {"nil", "set", "armed", "off"}
      BY <1>15 DEF connectFlush, Activated
    <3>2. /\ pending' \in 0..MaxChunks /\ uvWrites' \in Seq(Chunks)
          /\ connectQueue' \in Seq(Chunks)
      <4>1. connectQueue = <<>> \/ Len(connectQueue) > 0
        OBVIOUS
      <4>2. CASE hasHandle
        <5>1. uvWrites \o connectQueue \in Seq(Chunks) /\ <<>> \in Seq(Chunks)
          OBVIOUS
        <5>2. pending + Len(connectQueue) \in 0..MaxChunks
          BY <1>15 DEF connectFlush
        <5> QED BY <1>15, <4>2, <5>1, <5>2 DEF connectFlush
      <4>3. CASE ~hasHandle
        <5>1. connectQueue # <<>> => pending + 1 \in 0..MaxChunks
          BY <1>15, <4>1 DEF connectFlush
        <5> QED BY <1>15, <4>3, <5>1 DEF connectFlush
      <4> QED BY <4>2, <4>3
    <3>3. /\ uvReading' \in BOOLEAN /\ crash' \in {"none", "flush"} /\ connecting' \in BOOLEAN
          /\ emitting' \in {"none", "connect", "end"}
      BY <1>15, Zenon DEF connectFlush
    <3> QED BY <1>15, <3>1, <3>2, <3>3, SMTT(60) DEF connectFlush
  <2>2. QueueFlushed'
    BY <1>15 DEF connectFlush, Activated
  <2>3. PendingBounds'
    BY <1>15 DEF connectFlush, Activated
  <2>4. PendingMatchesQueue'
    BY <1>15 DEF connectFlush, Activated
  <2>5. ShutdownWaits'
    BY <1>15 DEF connectFlush, Activated
  <2>6. CloseOnce'
    BY <1>15 DEF connectFlush, Activated
  <2> QED BY <2>0, <2>1, <2>2, <2>3, <2>4, <2>5, <2>6
<1>16. CASE writeDone
  <2>0. InOrder'
    BY <1>16, Order_writeDone
  <2>1. TypeOK'
    BY <1>16 DEF writeDone, Activated
  <2>2. QueueFlushed'
    BY <1>16 DEF writeDone, Activated
  <2>3. PendingBounds'
    BY <1>16 DEF writeDone, Activated
  <2>4. PendingMatchesQueue'
    BY <1>16 DEF writeDone, Activated
  <2>5. ShutdownWaits'
    BY <1>16 DEF writeDone, Activated
  <2>6. CloseOnce'
    BY <1>16 DEF writeDone, Activated
  <2> QED BY <2>0, <2>1, <2>2, <2>3, <2>4, <2>5, <2>6
<1>17. CASE writeFails
  <2>0. InOrder'
    BY <1>17, Order_writeFails
  <2>1. TypeOK'
    BY <1>17 DEF writeFails
  <2>2. QueueFlushed'
    BY <1>17 DEF writeFails
  <2>3. PendingBounds'
    BY <1>17 DEF writeFails
  <2>4. PendingMatchesQueue'
    BY <1>17 DEF writeFails
  <2>5. ShutdownWaits'
    BY <1>17 DEF writeFails
  <2>6. CloseOnce'
    BY <1>17 DEF writeFails
  <2> QED BY <2>0, <2>1, <2>2, <2>3, <2>4, <2>5, <2>6
<1>18. CASE data
  <2>0. InOrder'
    BY <1>18, OrderKept DEF data, Activated
  <2>1. TypeOK'
    BY <1>18 DEF data, Activated
  <2>2. QueueFlushed'
    BY <1>18 DEF data, Activated
  <2>3. PendingBounds'
    BY <1>18 DEF data, Activated
  <2>4. PendingMatchesQueue'
    BY <1>18 DEF data, Activated
  <2>5. ShutdownWaits'
    BY <1>18 DEF data, Activated
  <2>6. CloseOnce'
    BY <1>18 DEF data, Activated
  <2> QED BY <2>0, <2>1, <2>2, <2>3, <2>4, <2>5, <2>6
<1>19. CASE endEvent
  <2>0. InOrder'
    BY <1>19, OrderKept DEF endEvent
  <2>1. TypeOK'
    BY <1>19, EventTypes
  <2>2. QueueFlushed'
    BY <1>19 DEF endEvent
  <2>3. PendingBounds'
    BY <1>19 DEF endEvent
  <2>4. PendingMatchesQueue'
    BY <1>19 DEF endEvent
  <2>5. ShutdownWaits'
    BY <1>19 DEF endEvent
  <2>6. CloseOnce'
    BY <1>19 DEF endEvent
  <2> QED BY <2>0, <2>1, <2>2, <2>3, <2>4, <2>5, <2>6
<1>20. CASE endDone
  <2>0. InOrder'
    BY <1>20, OrderKept DEF endDone, Shutdown, uv_shutdown_accepts
  <2>1. TypeOK'
    <3>1. CASE destroyed
      BY <1>20, <3>1 DEF endDone
    <3>2. CASE ~destroyed
      BY <1>20, <3>2, ShutdownStep DEF endDone
    <3> QED BY <3>1, <3>2
  <2>2. QueueFlushed'
    BY <1>20 DEF endDone, Shutdown, uv_shutdown_accepts
  <2>3. PendingBounds'
    BY <1>20 DEF endDone, Shutdown, uv_shutdown_accepts
  <2>4. PendingMatchesQueue'
    BY <1>20 DEF endDone, Shutdown, uv_shutdown_accepts
  <2>5. ShutdownWaits'
    BY <1>20, ShutdownStep DEF endDone
  <2>6. CloseOnce'
    BY <1>20 DEF endDone, Shutdown, uv_shutdown_accepts
  <2> QED BY <2>0, <2>1, <2>2, <2>3, <2>4, <2>5, <2>6
<1>21. CASE shutdownDone
  <2>0. InOrder'
    BY <1>21, OrderKept DEF shutdownDone, DestroyOnce, Destroy, KeepSocket
  <2>1. TypeOK'
    <3>1. CASE UNCHANGED <<destroyed, hasHandle, idle, closeTick, uvClosing, uvReading>>
      BY <1>21, <3>1, SMTT(60) DEF shutdownDone
    <3>2. CASE Destroy
      <4>1. uvClosing' \in {"no", "closing", "closed"}
        BY <3>2 DEF Destroy
      <4> QED BY <1>21, <3>2, <4>1, Zenon DEF shutdownDone, Destroy
    <3> QED BY <1>21, <3>1, <3>2 DEF shutdownDone, DestroyOnce, KeepSocket
  <2>2. QueueFlushed'
    BY <1>21 DEF shutdownDone, DestroyOnce, Destroy, KeepSocket
  <2>3. PendingBounds'
    BY <1>21 DEF shutdownDone, DestroyOnce, Destroy, KeepSocket
  <2>4. PendingMatchesQueue'
    BY <1>21 DEF shutdownDone, DestroyOnce, Destroy, KeepSocket
  <2>5. ShutdownWaits'
    BY <1>21, ShutdownComplete
  <2>6. CloseOnce'
    BY <1>21 DEF shutdownDone, DestroyOnce, Destroy, KeepSocket
  <2> QED BY <2>0, <2>1, <2>2, <2>3, <2>4, <2>5, <2>6
<1>22. CASE handleClosed
  <2>0. InOrder'
    BY <1>22, OrderKept DEF handleClosed
  <2>1. TypeOK'
    BY <1>22 DEF handleClosed
  <2>2. QueueFlushed'
    BY <1>22 DEF handleClosed
  <2>3. PendingBounds'
    BY <1>22 DEF handleClosed
  <2>4. PendingMatchesQueue'
    BY <1>22 DEF handleClosed
  <2>5. ShutdownWaits'
    BY <1>22 DEF handleClosed
  <2>6. CloseOnce'
    BY <1>22 DEF handleClosed
  <2> QED BY <2>0, <2>1, <2>2, <2>3, <2>4, <2>5, <2>6
<1>23. CASE closeEvent
  <2>0. InOrder'
    BY <1>23, OrderKept DEF closeEvent
  <2>1. TypeOK'
    BY <1>23, EventTypes
  <2>2. QueueFlushed'
    BY <1>23 DEF closeEvent
  <2>3. PendingBounds'
    BY <1>23 DEF closeEvent
  <2>4. PendingMatchesQueue'
    BY <1>23 DEF closeEvent
  <2>5. ShutdownWaits'
    BY <1>23 DEF closeEvent
  <2>6. CloseOnce'
    BY <1>23 DEF closeEvent
  <2> QED BY <2>0, <2>1, <2>2, <2>3, <2>4, <2>5, <2>6
<1>24. CASE onTimeout
  <2>0. InOrder'
    BY <1>24, OrderKept DEF onTimeout
  <2>1. TypeOK'
    BY <1>24 DEF onTimeout
  <2>2. QueueFlushed'
    BY <1>24 DEF onTimeout
  <2>3. PendingBounds'
    BY <1>24 DEF onTimeout
  <2>4. PendingMatchesQueue'
    BY <1>24 DEF onTimeout
  <2>5. ShutdownWaits'
    BY <1>24 DEF onTimeout
  <2>6. CloseOnce'
    BY <1>24 DEF onTimeout
  <2> QED BY <2>0, <2>1, <2>2, <2>3, <2>4, <2>5, <2>6
<1>25. CASE UNCHANGED vars
  <2>0. InOrder'
    BY <1>25, OrderKept DEF vars
  <2>1. TypeOK'
    BY <1>25 DEF vars
  <2>2. QueueFlushed'
    BY <1>25 DEF vars
  <2>3. PendingBounds'
    BY <1>25 DEF vars
  <2>4. PendingMatchesQueue'
    BY <1>25 DEF vars
  <2>5. ShutdownWaits'
    BY <1>25 DEF vars
  <2>6. CloseOnce'
    BY <1>25 DEF vars
  <2> QED BY <2>0, <2>1, <2>2, <2>3, <2>4, <2>5, <2>6
<1> QED
  BY <1>1, <1>2, <1>3, <1>4, <1>5, <1>6, <1>7, <1>8, <1>9, <1>10, <1>11, <1>12, <1>13, <1>14, <1>15, <1>16, <1>17, <1>18, <1>19, <1>20, <1>21, <1>22, <1>23, <1>24, <1>25
  DEF Next, Program, Callback

\* A new socket.
LEMMA InitInv == Init => Inv
<1> SUFFICES ASSUME Init PROVE Inv
  OBVIOUS
<1>1. TypeOK
  <2>1. /\ connectQueue \in Seq(Chunks) /\ uvWrites \in Seq(Chunks) /\ wire \in Seq(Chunks)
        /\ pending \in 0..MaxChunks /\ chunks \in 0..MaxChunks /\ doneAt \in 0..MaxChunks
        /\ closes \in Nat
    BY BoundsAssumption DEF Init
  <2> QED BY <2>1, Zenon DEF Init, TypeOK
<1>2. InOrder
  <2>1. All = <<>>
    BY DEF Init, All
  <2> QED BY <2>1 DEF Init, InOrder, Sorted
<1>3. QueueFlushed /\ PendingBounds /\ PendingMatchesQueue /\ ShutdownWaits /\ CloseOnce
  BY DEF Init, QueueFlushed, PendingBounds, PendingMatchesQueue, ShutdownWaits, CloseOnce
<1> QED BY <1>1, <1>2, <1>3 DEF Inv

-----------------------------------------------------------------------------
\* The invariant holds in every reachable state.
THEOREM Invariance == Spec => []Inv
<1> QED BY InitInv, NextInv, PTL DEF Spec

\* However many writes there are, before, during and after the connect: they
\* leave in the order of the calls and none is lost unless an error is reported;
\* the pending count is libuv's queue; a done that completes comes after the
\* data; "close" comes once.
THEOREM Sockets == Spec => []SocketSound
<1>1. Inv => WritesInOrder
  <2> SUFFICES ASSUME Inv PROVE WritesInOrder
    OBVIOUS
  <2>1. All \in Seq(Chunks)
    BY AllTyped
  <2>2. ~failed => ToSet(All) = 1..chunks
    BY <2>1 DEF Inv, InOrder, ToSet
  <2> QED BY <2>2 DEF Inv, InOrder, WritesInOrder, All
<1>2. Inv => DoneFlushes
  <2> SUFFICES ASSUME Inv, uvShut = "done", ~failed, NEW i \in 1..doneAt
               PROVE  i \in ToSet(wire)
    BY DEF DoneFlushes
  <2>1. i \in 1..Len(wire) /\ wire \in Seq(Chunks) /\ i \in 1..Len(All)
    BY AllTyped DEF Inv, TypeOK, ShutdownWaits
  <2>2. All[i] = i
    BY <2>1 DEF Inv, InOrder
  <2>3. All[i] = wire[i]
    BY <2>1, AllTyped, Joined DEF All
  <2> QED BY <2>1, <2>2, <2>3 DEF ToSet
<1>3. Inv => SocketSound
  BY <1>1, <1>2 DEF Inv, SocketSound
<1> QED BY Invariance, <1>3, PTL

\* After destroy nothing but a setTimeout of the program arms the idle timer:
\* not the answer of a lookup, not a late write callback.
THEOREM TimerOff == Spec => DestroyedTimerOff
<1>1. ASSUME [Next]_vars
      PROVE  [destroyed /\ idle = "off" /\ idle' # "off" => setTimeout(TRUE)]_vars
  <2> SUFFICES ASSUME Next, idle = "off", idle' # "off", destroyed PROVE setTimeout(TRUE)
    BY <1>1
  <2>1. PICK set \in BOOLEAN : setTimeout(set)
    BY DEF Next, Program, Callback, connect, connectDestroyed, pauseResume, writeQueued,
           writeUnconnected, write, done, destroy, lookupDone, lookupFails, lookupTick,
           connectFails, connectEvent, connectFlush, writeDone, writeFails, data, endEvent,
           endDone, shutdownDone, handleClosed, closeEvent, onTimeout, Activated, Destroy,
           DestroyOnce, KeepSocket, sock
  <2>2. set
    BY <2>1 DEF setTimeout
  <2> QED BY <2>1, <2>2
<1> QED BY <1>1, PTL DEF Spec, DestroyedTimerOff

-----------------------------------------------------------------------------
\* No registration is in two slots.
Distinct(t) == \A i, j \in Slots : t[i] = t[j] /\ t[i] # nil => i = j

\* The slots hold registrations that were made, and no more slots were ever
\* used than registrations were made: table.insert stays within the table.
Fits(t, r) == \A i \in Slots : t[i] \in 0..r /\ (t[i] # nil => i <= r)

\* An emission has called nobody twice, and whom it has called is not in a slot
\* that ipairs has yet to reach.  A quiet one finds everyone it owes a call in
\* the slots it has yet to reach, without a hole between them.
FrameSound(t, lv, r, f) ==
  /\ ToSet(f.called) \subseteq 1..r /\ f.due \subseteq 1..r
  /\ IsInjective(f.called)
  /\ f.cur # nil => f.cur \in ToSet(f.called)
  /\ \A j \in Slots : j > f.i => t[j] \notin ToSet(f.called)
  /\ f.quiet =>
       /\ \A x \in (f.due \cap lv) \ ToSet(f.called) : \E j \in Slots : j > f.i /\ t[j] = x
       /\ \A h, j \in Slots : f.i < h /\ h <= j /\ t[j] # nil => t[h] # nil

\* The inductive invariant.
EmitterInv ==
  /\ EmitterTypeOK
  /\ NoListenerLost
  /\ Fits(table, regs)
  /\ \A k \in DOMAIN stack : FrameSound(table, live, regs, stack[k])
  /\ QuietEmissionReachesAll

-----------------------------------------------------------------------------
\* A set of naturals that is not empty has a least member.
LEMMA LeastNat ==
  ASSUME NEW T \in SUBSET Nat, T # {}
  PROVE  \E n \in T : \A m \in T : n <= m
<1> DEFINE R == OpToRel(<, Nat)
<1>1. IsWellFoundedOn(R, Nat)
  BY NatLessThanWellFounded, Zenon
<1>2. \A x, y \in Nat : <<y, x>> \in R <=> y < x
  BY DEF OpToRel
<1> HIDE DEF R
<1>3. PICK x \in T : \A y \in T : ~(<<y, x>> \in R)
  BY <1>1, WFMin
<1>4. \A y \in T : x <= y
  <2> TAKE y \in T
  <2>1. ~(y < x)
    BY <1>2, <1>3, Zenon
  <2> QED BY <2>1
<1> QED BY <1>4

\* A table of registrations, 0 standing for nil.
Tables == [Slots -> Ids \cup {nil}]

\* The table u has the registrations of t, each in the slot it had or in a lower
\* one.
Lowered(t, u) ==
  /\ u \in Tables /\ Distinct(u)
  /\ \A i \in Slots : t[i] # nil => \E j \in Slots : u[j] = t[i]
  /\ \A j \in Slots : u[j] # nil => \E i \in Slots : j <= i /\ u[j] = t[i]

\* Nothing to close, and several holes to close.
LEMMA LoweredSelf ==
  ASSUME NEW t \in Tables, Distinct(t)
  PROVE  Lowered(t, t)
<1>1. \A j \in Slots : j <= j
  BY DEF Slots
<1> QED BY <1>1 DEF Lowered

LEMMA LoweredAgain ==
  ASSUME NEW t, NEW u, NEW v, Lowered(t, u), Lowered(u, v)
  PROVE  Lowered(t, v)
<1>0. MaxRegs \in Nat /\ Slots = 1..MaxRegs
  BY EmitterAssumption DEF Slots
<1>1. ASSUME NEW i \in Slots, t[i] # nil PROVE \E j \in Slots : v[j] = t[i]
  <2>1. PICK j \in Slots : u[j] = t[i]
    BY <1>1 DEF Lowered
  <2> QED BY <1>1, <2>1 DEF Lowered
<1>2. ASSUME NEW j \in Slots, v[j] # nil PROVE \E i \in Slots : j <= i /\ v[j] = t[i]
  <2>1. PICK h \in Slots : j <= h /\ v[j] = u[h]
    BY <1>2 DEF Lowered
  <2>2. PICK i \in Slots : h <= i /\ u[h] = t[i]
    BY <1>2, <2>1 DEF Lowered
  <2> QED BY <1>0, <2>1, <2>2
<1> QED BY <1>1, <1>2 DEF Lowered

\* table.remove of a hole moves the slots behind it down, as far as the border.
LEMMA RemoveHole ==
  ASSUME NEW t \in Tables, Distinct(t), NEW p \in Slots, t[p] = nil, NEW e \in Borders(t)
  PROVE  Lowered(t, table_remove(t, p, e))
<1> DEFINE u == table_remove(t, p, e)
<1>0. MaxRegs \in Nat /\ p \in 1..MaxRegs /\ e \in 0..MaxRegs /\ Slots = 1..MaxRegs
  BY EmitterAssumption DEF Slots, Borders
<1>1. CASE p > e
  <2>1. u = t
    BY <1>1 DEF table_remove
  <2> HIDE DEF u
  <2>2. Lowered(t, t)
    BY LoweredSelf
  <2> QED BY <2>1, <2>2 DEF u
<1>2. CASE ~(p > e)
  <2>1. t[e] # nil /\ e \in Slots /\ p < e
    <3>1. e # 0 /\ e \in Slots
      BY <1>0, <1>2
    <3>2. t[e] # nil
      BY <3>1 DEF Borders, At
    <3>3. e # p
      BY <3>2
    <3> QED BY <1>0, <1>2, <3>1, <3>2, <3>3
  <2>2. u = [i \in Slots |-> CASE i < p \/ i > e -> t[i]
                               [] i = e          -> nil
                               [] OTHER          -> t[i + 1]]
    BY <1>2 DEF table_remove
  <2>3. ASSUME NEW i \in Slots
        PROVE  /\ i < p => u[i] = t[i]
               /\ i > e => u[i] = t[i]
               /\ i = e => u[i] = nil
               /\ p <= i /\ i < e => u[i] = t[i + 1] /\ i + 1 \in Slots
    BY <1>0, <2>1, <2>2
  <2>4. DOMAIN u = Slots
    BY <2>2
  <2>7. u = [i \in Slots |-> u[i]]
    BY <2>2
  <2> HIDE DEF u
  <2>5. ASSUME NEW i \in Slots
        PROVE  u[i] = nil \/ \E j \in Slots : u[i] = t[j] /\ i <= j /\ (j = i \/ j = i + 1)
                                              /\ (j = i <=> i < p \/ i > e)
    <3>1. CASE i < p \/ i > e
      BY <1>0, <2>3, <3>1
    <3>2. CASE i = e
      BY <2>3, <3>2
    <3>3. CASE p <= i /\ i < e
      <4>1. u[i] = t[i + 1] /\ i + 1 \in Slots
        BY <2>3, <3>3
      <4> QED BY <1>0, <3>3, <4>1
    <3> QED BY <1>0, <3>1, <3>2, <3>3
  <2>6. u \in Tables
    <3>1. \A i \in Slots : u[i] \in Ids \cup {nil}
      BY <2>5 DEF Tables
    <3> QED BY <2>7, <3>1 DEF Tables
  <2>8. Distinct(u)
    <3> SUFFICES ASSUME NEW i \in Slots, NEW j \in Slots, u[i] = u[j], u[i] # nil PROVE i = j
      BY DEF Distinct
    <3>1. PICK a \in Slots : u[i] = t[a] /\ i <= a /\ (a = i \/ a = i + 1) /\ (a = i <=> i < p \/ i > e)
      BY <2>5
    <3>2. PICK b \in Slots : u[j] = t[b] /\ j <= b /\ (b = j \/ b = j + 1) /\ (b = j <=> j < p \/ j > e)
      BY <2>5
    <3>3. a = b /\ t[a] # nil
      BY <3>1, <3>2 DEF Distinct
    <3>4. a # p
      BY <3>3
    <3>5. i # e /\ j # e
      BY <2>3
    <3>6. ~(a = i /\ b = j + 1) /\ ~(a = i + 1 /\ b = j)
      BY <1>0, <2>1, <3>1, <3>2, <3>3, <3>5
    <3> QED BY <1>0, <3>1, <3>2, <3>3, <3>6
  <2>9. ASSUME NEW i \in Slots, t[i] # nil PROVE \E j \in Slots : u[j] = t[i]
    <3>1. CASE i < p \/ i > e
      BY <2>3, <3>1
    <3>2. CASE p < i /\ i <= e
      <4>1. i - 1 \in Slots /\ p <= i - 1 /\ i - 1 < e /\ (i - 1) + 1 = i
        BY <1>0, <3>2
      <4> QED BY <2>3, <4>1
    <3> QED BY <1>0, <2>9, <3>1, <3>2
  <2> QED BY <2>5, <2>6, <2>8, <2>9 DEF Lowered, u
<1> QED BY <1>1, <1>2

\* The rounds of the loop that closes the holes: g[k] are the tables it may have
\* reached when it has dealt with the slots behind k.
Round(u, k) == IF u[k + 1] # nil THEN {u} ELSE {table_remove(u, k + 1, e) : e \in Borders(u)}
Rounds(t, n, g) == [k \in 0..n |-> IF k = n THEN {t} ELSE UNION {Round(u, k) : u \in g[k + 1]}]

\* There is such a function, by induction over the rounds.
LEMMA RoundsExist ==
  ASSUME NEW t, NEW n \in Nat
  PROVE  \E g : g = Rounds(t, n, g)
<1> DEFINE After(g, k) == IF k = n THEN {t} ELSE UNION {Round(u, k) : u \in g[k + 1]}
           Upto(g, m) == \A k \in 0..n : k >= n - m => g[k] = After(g, k)
           Bad == {m \in 0..n : ~(\E g : Upto(g, m))}
<1>1. Bad = {}
  <2> SUFFICES ASSUME Bad # {} PROVE FALSE
    OBVIOUS
  <2>1. Bad \in SUBSET Nat
    OBVIOUS
  <2>2. PICK m \in Bad : \A x \in Bad : m <= x
    BY <2>1, LeastNat
  <2>3. m \in 0..n /\ ~(\E g : Upto(g, m))
    OBVIOUS
  <2>4. CASE m = 0
    <3> DEFINE g == [k \in 0..n |-> {t}]
    <3>1. Upto(g, 0)
      <4> SUFFICES ASSUME NEW k \in 0..n, k >= n - 0 PROVE g[k] = After(g, k)
        OBVIOUS
      <4>1. k = n
        OBVIOUS
      <4> QED BY <4>1
    <3> HIDE DEF Upto, g
    <3>2. Upto(g, m)
      BY <2>4, <3>1
    <3> QED BY <2>3, <3>2
  <2>5. CASE m # 0
    <3>1. m - 1 \in 0..n /\ ~(m <= m - 1)
      BY <2>3, <2>5
    <3>2. m - 1 \notin Bad
      BY <2>2, <3>1
    <3>3. PICK f : Upto(f, m - 1)
      BY <3>1, <3>2
    <3> DEFINE g == [k \in 0..n |-> IF k = n - m THEN After(f, k) ELSE f[k]]
    <3>4. Upto(g, m)
      <4> SUFFICES ASSUME NEW k \in 0..n, k >= n - m PROVE g[k] = After(g, k)
        OBVIOUS
      <4>1. k # n => k + 1 \in 0..n /\ g[k + 1] = f[k + 1]
        BY <2>3, <2>5
      <4>2. After(g, k) = After(f, k)
        BY <4>1
      <4>3. CASE k = n - m
        BY <4>2, <4>3
      <4>4. CASE k # n - m
        <5>1. k >= n - (m - 1) /\ g[k] = f[k]
          BY <2>3, <4>4
        <5> QED BY <3>3, <4>2, <5>1
      <4> QED BY <4>3, <4>4
    <3> HIDE DEF Upto, g
    <3> QED BY <2>3, <3>4
  <2> QED BY <2>4, <2>5
<1>2. PICK f : Upto(f, n)
  <2> HIDE DEF Bad, Upto
  <2>1. n \in 0..n /\ n \notin Bad
    BY <1>1
  <2> QED BY <2>1 DEF Bad
<1> DEFINE g == [k \in 0..n |-> f[k]]
<1>3. ASSUME NEW k \in 0..n PROVE g[k] = After(g, k)
  <2>1. k >= n - n /\ g[k] = f[k]
    OBVIOUS
  <2>3. g[k] = After(f, k)
    BY <1>2, <2>1
  <2>2. k # n => k + 1 \in 0..n /\ g[k + 1] = f[k + 1]
    OBVIOUS
  <2> QED BY <2>2, <2>3
<1>4. g = Rounds(t, n, g)
  BY <1>3 DEF Rounds
<1> QED BY <1>4

\* What the loop leaves: the registrations of the table it began with, none of
\* them in a higher slot than before.
LEMMA CompactLowers ==
  ASSUME NEW t \in Tables, Distinct(t), NEW n \in 0..MaxRegs, NEW u \in Compact(t, n)
  PROVE  Lowered(t, u)
<1>0. MaxRegs \in Nat /\ n \in Nat /\ n <= MaxRegs /\ Slots = 1..MaxRegs
  BY EmitterAssumption DEF Slots
<1>1. Compact(t, n) = (CHOOSE g : g = Rounds(t, n, g))[0]
  BY DEF Compact, Rounds, Round
<1>2. PICK g : g = Rounds(t, n, g) /\ Compact(t, n) = g[0]
  <2>1. \E g : g = Rounds(t, n, g)
    BY <1>0, RoundsExist
  <2> QED BY <1>1, <2>1
<1>3. ASSUME NEW k \in 0..n PROVE g[k] = IF k = n THEN {t} ELSE UNION {Round(v, k) : v \in g[k + 1]}
  BY <1>2 DEF Rounds
<1> DEFINE Fine(m) == \A v \in g[n - m] : Lowered(t, v)
           Bad == {m \in 0..n : ~Fine(m)}
<1>4. Bad = {}
  <2> SUFFICES ASSUME Bad # {} PROVE FALSE
    OBVIOUS
  <2>1. Bad \in SUBSET Nat
    OBVIOUS
  <2>2. PICK m \in Bad : \A x \in Bad : m <= x
    BY <2>1, LeastNat
  <2>3. m \in 0..n /\ ~Fine(m)
    OBVIOUS
  <2>4. PICK v \in g[n - m] : ~Lowered(t, v)
    BY <2>3
  <2>5. m # 0
    <3> SUFFICES ASSUME m = 0 PROVE FALSE
      OBVIOUS
    <3>1. n \in 0..n /\ n - m = n
      BY <1>0
    <3>2. v = t
      BY <1>3, <2>4, <3>1
    <3>3. Lowered(t, t)
      BY LoweredSelf
    <3> QED BY <2>4, <3>2, <3>3
  <2>6. m - 1 \in 0..n /\ ~(m <= m - 1) /\ n - m \in 0..n /\ n - m # n /\ (n - m) + 1 = n - (m - 1)
    BY <1>0, <2>3, <2>5
  <2>7. Fine(m - 1)
    BY <2>2, <2>6
  <2>8. PICK w \in g[n - (m - 1)] : v \in Round(w, n - m)
    <3>1. g[n - m] = UNION {Round(x, n - m) : x \in g[(n - m) + 1]}
      BY <1>3, <2>6
    <3> QED BY <2>4, <2>6, <3>1
  <2>9. Lowered(t, w)
    BY <2>7
  <2>10. CASE w[(n - m) + 1] # nil
    <3>1. v = w
      BY <2>8, <2>10 DEF Round
    <3> QED BY <2>4, <2>9, <3>1
  <2>11. CASE w[(n - m) + 1] = nil
    <3>1. PICK e \in Borders(w) : v = table_remove(w, (n - m) + 1, e)
      BY <2>8, <2>11 DEF Round
    <3>2. w \in Tables /\ Distinct(w) /\ (n - m) + 1 \in Slots
      BY <1>0, <2>6, <2>9 DEF Lowered
    <3>3. Lowered(w, v)
      BY <2>11, <3>1, <3>2, RemoveHole
    <3> QED BY <2>4, <2>9, <3>3, LoweredAgain
  <2> QED BY <2>10, <2>11
<1>5. Fine(n)
  <2> HIDE DEF Bad, Fine
  <2>1. n \in 0..n /\ n \notin Bad
    BY <1>0, <1>4
  <2> QED BY <2>1 DEF Bad
<1>6. n - n = 0
  BY <1>0
<1> QED BY <1>2, <1>5, <1>6

-----------------------------------------------------------------------------
\* What a border is: the slot behind it is free.
LEMMA BorderFacts ==
  ASSUME NEW t, NEW n \in Borders(t)
  PROVE  /\ n \in 0..MaxRegs /\ n \in Nat
         /\ n # 0 => n \in Slots /\ t[n] # nil
         /\ n + 1 \in Slots => t[n + 1] = nil
<1>0. MaxRegs \in Nat /\ Slots = 1..MaxRegs
  BY EmitterAssumption DEF Slots
<1>1. n \in 0..MaxRegs /\ (n = 0 \/ At(t, n) # nil) /\ At(t, n + 1) = nil
  BY DEF Borders
<1> QED BY <1>0, <1>1 DEF At

\* A new registration, in the slot behind a border: it is one more, in a slot of
\* its own ...
LEMMA InsertTable ==
  ASSUME NEW t \in Tables, Distinct(t), NEW r \in Nat, r < MaxRegs, Fits(t, r), NEW n \in Borders(t),
         NEW u, u = table_insert(t, n, r + 1)
  PROVE  /\ n + 1 \in Slots /\ u \in Tables /\ Distinct(u) /\ Fits(u, r + 1)
         /\ u[n + 1] = r + 1 /\ \A i \in Slots : i # n + 1 => u[i] = t[i]
         /\ t[n + 1] = nil
<1>0. MaxRegs \in Nat /\ Slots = 1..MaxRegs /\ Ids = 1..MaxRegs /\ nil = 0
  BY EmitterAssumption DEF Slots, Ids, nil
<1>1. n + 1 \in Slots /\ n \in Nat /\ n <= r
  BY <1>0, BorderFacts DEF Fits
<1>2. t[n + 1] = nil
  BY <1>1, BorderFacts
<1>3. u \in Tables /\ u[n + 1] = r + 1 /\ \A i \in Slots : i # n + 1 => u[i] = t[i]
  BY <1>0, <1>1 DEF table_insert, Tables
<1>4. \A i \in Slots : t[i] # r + 1
  BY <1>0 DEF Fits
<1>5. Distinct(u)
  BY <1>3, <1>4 DEF Distinct
<1>6. Fits(u, r + 1)
  <2> SUFFICES ASSUME NEW i \in Slots PROVE u[i] \in 0..(r + 1) /\ (u[i] # nil => i <= r + 1)
    BY DEF Fits
  <2>1. CASE i = n + 1
    BY <1>1, <1>3, <2>1
  <2>2. CASE i # n + 1
    <3>1. u[i] = t[i] /\ t[i] \in 0..r /\ (t[i] # nil => i <= r)
      BY <1>3, <2>2 DEF Fits
    <3> QED BY <1>0, <3>1
  <2> QED BY <2>1, <2>2
<1> QED BY <1>1, <1>2, <1>3, <1>5, <1>6

\* ... and no emission in progress minds: it will reach the new listener or not.
LEMMA InsertFrame ==
  ASSUME NEW t \in Tables, Distinct(t), NEW r \in Nat, r < MaxRegs, Fits(t, r), NEW n \in Borders(t),
         NEW u, u = table_insert(t, n, r + 1),
         NEW f \in Frames, NEW lv, FrameSound(t, lv, r, f)
  PROVE  FrameSound(u, lv \cup {r + 1}, r + 1, f)
<1>0. MaxRegs \in Nat /\ Slots = 1..MaxRegs /\ nil = 0 /\ f.i \in 0..MaxRegs
  BY EmitterAssumption DEF Slots, nil, Frames
<1>1. /\ n + 1 \in Slots /\ n \in Nat /\ (n # 0 => n \in Slots /\ t[n] # nil) /\ t[n + 1] = nil
      /\ u[n + 1] = r + 1 /\ \A i \in Slots : i # n + 1 => u[i] = t[i]
  BY InsertTable, BorderFacts
<1>2. r + 1 \notin ToSet(f.called) /\ r + 1 \notin f.due /\ ToSet(f.called) \subseteq 1..(r + 1) /\ f.due \subseteq 1..(r + 1)
  BY DEF FrameSound
<1>3. ASSUME NEW j \in Slots, j > f.i PROVE u[j] \notin ToSet(f.called)
  BY <1>1, <1>2, <1>3 DEF FrameSound
<1>4. ASSUME f.quiet, NEW x \in (f.due \cap (lv \cup {r + 1})) \ ToSet(f.called)
      PROVE  \E j \in Slots : j > f.i /\ u[j] = x
  <2>1. x \in (f.due \cap lv) \ ToSet(f.called) /\ x # 0
    BY <1>2, <1>4 DEF FrameSound
  <2>2. PICK j \in Slots : j > f.i /\ t[j] = x
    BY <1>4, <2>1 DEF FrameSound
  <2>3. u[j] = x
    BY <1>0, <1>1, <2>1, <2>2
  <2> QED BY <2>2, <2>3
<1>5. ASSUME f.quiet, NEW h \in Slots, NEW j \in Slots, f.i < h, h <= j, u[j] # nil PROVE u[h] # nil
  <2>1. \A a, b \in Slots : f.i < a /\ a <= b /\ t[b] # nil => t[a] # nil
    BY <1>5 DEF FrameSound
  <2>2. CASE h = n + 1
    BY <1>0, <1>1, <2>2
  <2>3. CASE h # n + 1 /\ j # n + 1
    BY <1>1, <1>5, <2>1, <2>3
  <2>4. CASE h # n + 1 /\ j = n + 1
    <3>1. h <= n /\ n # 0
      BY <1>0, <1>1, <1>5, <2>4
    <3>2. t[h] # nil
      BY <1>1, <1>5, <2>1, <3>1
    <3> QED BY <1>1, <2>4, <3>2
  <2> QED BY <2>2, <2>3, <2>4
<1> QED BY <1>2, <1>3, <1>4, <1>5 DEF FrameSound

\* removeListener: what is removed leaves a hole or, behind the border, stays.
LEMMA WithoutTable ==
  ASSUME NEW t \in Tables, Distinct(t), NEW r \in Nat, Fits(t, r), NEW n \in Borders(t), NEW R,
         NEW u, u = Without(t, n, R)
  PROVE  /\ u \in Tables /\ Distinct(u) /\ Fits(u, r)
         /\ \A i \in Slots : u[i] = t[i] \/ (u[i] = nil /\ t[i] \in R)
<1>1. \A i \in Slots : u[i] = t[i] \/ (u[i] = nil /\ t[i] \in R)
  BY DEF Without
<1>2. u = [i \in Slots |-> u[i]]
  BY DEF Without
<1>3. u \in Tables
  <2>1. \A i \in Slots : u[i] \in Ids \cup {nil}
    BY <1>1 DEF Tables
  <2> QED BY <1>2, <2>1 DEF Tables
<1>4. Distinct(u)
  BY <1>1 DEF Distinct
<1>5. Fits(u, r)
  BY <1>1 DEF Fits, nil
<1> QED BY <1>1, <1>3, <1>4, <1>5

\* Nobody but the removed is gone.
LEMMA WithoutLive ==
  ASSUME NEW t, NEW u, NEW R, NEW lv, lv \subseteq In(t),
         \A i \in Slots : u[i] = t[i] \/ (u[i] = nil /\ t[i] \in R)
  PROVE  lv \ R \subseteq In(u)
<1> SUFFICES ASSUME NEW x \in lv \ R PROVE x \in In(u)
  OBVIOUS
<1>1. PICK i \in Slots : t[i] = x /\ x # nil
  BY DEF In
<1>2. u[i] = x
  BY <1>1
<1> QED BY <1>1, <1>2 DEF In

\* An emission whose running listener removes itself, and nobody else, stays
\* quiet: that listener is behind it.
LEMMA WithoutFrame ==
  ASSUME NEW t, NEW u, NEW R, NEW lv, NEW r \in Nat,
         \A i \in Slots : u[i] = t[i] \/ (u[i] = nil /\ t[i] \in R),
         NEW f \in Frames, FrameSound(t, lv, r, f),
         NEW g, g.i = f.i, g.cur = f.cur, g.due = f.due, g.called = f.called,
         g.quiet => f.quiet /\ R \subseteq {f.cur}
  PROVE  FrameSound(u, lv \ R, r, g)
<1>1. nil \notin ToSet(f.called)
  BY DEF FrameSound, nil
<1>2. ASSUME NEW j \in Slots, j > g.i PROVE u[j] \notin ToSet(g.called)
  BY <1>1, <1>2 DEF FrameSound
<1>3. ASSUME g.quiet, NEW j \in Slots, j > f.i PROVE u[j] = t[j]
  <2>1. t[j] \notin ToSet(f.called)
    BY <1>3 DEF FrameSound
  <2>2. t[j] \in R => t[j] = f.cur
    BY <1>3
  <2>3. f.cur # nil => f.cur \in ToSet(f.called)
    BY DEF FrameSound
  <2> QED BY <2>1, <2>2, <2>3
<1>4. ASSUME g.quiet, NEW x \in (g.due \cap (lv \ R)) \ ToSet(g.called)
      PROVE  \E j \in Slots : j > g.i /\ u[j] = x
  <2>1. PICK j \in Slots : j > f.i /\ t[j] = x
    BY <1>4 DEF FrameSound
  <2> QED BY <1>3, <1>4, <2>1
<1>5. ASSUME g.quiet, NEW h \in Slots, NEW j \in Slots, g.i < h, h <= j, u[j] # nil PROVE u[h] # nil
  <2>1. f.i \in 0..MaxRegs /\ Slots = 1..MaxRegs /\ MaxRegs \in Nat
    BY EmitterAssumption DEF Frames, Slots
  <2>2. j > f.i /\ h > f.i
    BY <1>5, <2>1
  <2>3. u[j] = t[j] /\ u[h] = t[h]
    BY <1>3, <1>5, <2>2
  <2> QED BY <1>5, <2>3 DEF FrameSound
<1> QED BY <1>2, <1>4, <1>5 DEF FrameSound

\* Holes are closed: only an emission under which no slot has moved stays quiet.
LEMMA LoweredFrame ==
  ASSUME NEW t, NEW u, Lowered(t, u), NEW lv, NEW r \in Nat,
         NEW f \in Frames, FrameSound(t, lv, r, f),
         NEW g, g.i = f.i, g.cur = f.cur, g.due = f.due, g.called = f.called,
         g.quiet => f.quiet /\ u = t
  PROVE  FrameSound(u, lv, r, g)
<1>0. f.i \in 0..MaxRegs /\ Slots = 1..MaxRegs /\ MaxRegs \in Nat
  BY EmitterAssumption DEF Frames, Slots
<1>1. nil \notin ToSet(f.called)
  BY DEF FrameSound, nil
<1>2. ASSUME NEW j \in Slots, j > g.i PROVE u[j] \notin ToSet(g.called)
  <2>1. CASE u[j] = nil
    BY <1>1, <2>1
  <2>2. CASE u[j] # nil
    <3>1. PICK i \in Slots : j <= i /\ u[j] = t[i]
      BY <2>2 DEF Lowered
    <3>2. i > f.i
      BY <1>0, <1>2, <3>1
    <3> QED BY <3>1, <3>2 DEF FrameSound
  <2> QED BY <2>1, <2>2
<1>3. g.quiet => /\ \A x \in (g.due \cap lv) \ ToSet(g.called) : \E j \in Slots : j > g.i /\ u[j] = x
                 /\ \A h, j \in Slots : g.i < h /\ h <= j /\ u[j] # nil => u[h] # nil
  BY DEF FrameSound
<1> QED BY <1>2, <1>3 DEF FrameSound

\* The loop calls the listener in the next slot, which it has not called before.
LEMMA CallFrame ==
  ASSUME NEW t \in Tables, Distinct(t), NEW r \in Nat, Fits(t, r), NEW lv,
         NEW f \in Frames, FrameSound(t, lv, r, f),
         NEW x, x = At(t, f.i + 1), x # nil,
         NEW g, g.i = f.i + 1, g.cur = x, g.due = f.due, g.called = Append(f.called, x), g.quiet = f.quiet
  PROVE  FrameSound(t, lv, r, g) /\ f.i + 1 \in 0..MaxRegs /\ x \in Ids
<1>0. f.i \in 0..MaxRegs /\ Slots = 1..MaxRegs /\ MaxRegs \in Nat /\ f.called \in Seq(Ids) /\ nil = 0
  BY EmitterAssumption DEF Frames, Slots, nil
<1>1. f.i + 1 \in Slots /\ x = t[f.i + 1]
  BY DEF At
<1>2. x \in 1..r /\ x \in Ids
  BY <1>0, <1>1 DEF Fits, Tables
<1>3. x \notin ToSet(f.called)
  <2>1. f.i + 1 > f.i
    BY <1>0
  <2> QED BY <1>1, <2>1 DEF FrameSound
<1>4. ToSet(g.called) = ToSet(f.called) \cup {x}
  <2>1. /\ DOMAIN g.called = DOMAIN f.called \cup {Len(f.called) + 1}
        /\ g.called[Len(f.called) + 1] = x
        /\ \A a \in DOMAIN f.called : g.called[a] = f.called[a]
        /\ Len(f.called) + 1 \notin DOMAIN f.called
    BY <1>0, <1>2
  <2> QED BY <2>1 DEF ToSet
<1>5. IsInjective(g.called)
  <2>1. /\ DOMAIN g.called = DOMAIN f.called \cup {Len(f.called) + 1}
        /\ g.called[Len(f.called) + 1] = x
        /\ \A a \in DOMAIN f.called : g.called[a] = f.called[a]
    BY <1>0, <1>2
  <2>2. \A a \in DOMAIN f.called : f.called[a] # x
    BY <1>3 DEF ToSet
  <2>3. \A a, b \in DOMAIN f.called : f.called[a] = f.called[b] => a = b
    BY DEF FrameSound, IsInjective
  <2> QED BY <2>1, <2>2, <2>3 DEF IsInjective
<1>6. ASSUME NEW j \in Slots, j > g.i PROVE t[j] \notin ToSet(g.called)
  <2>1. j > f.i /\ j # f.i + 1
    BY <1>0, <1>6
  <2>2. t[j] \notin ToSet(f.called)
    BY <2>1 DEF FrameSound
  <2>3. t[j] # x
    BY <1>1, <2>1 DEF Distinct
  <2> QED BY <1>4, <2>2, <2>3
<1>7. ASSUME g.quiet, NEW y \in (g.due \cap lv) \ ToSet(g.called) PROVE \E j \in Slots : j > g.i /\ t[j] = y
  <2>1. y \in (f.due \cap lv) \ ToSet(f.called) /\ y # x
    BY <1>4, <1>7
  <2>2. PICK j \in Slots : j > f.i /\ t[j] = y
    BY <1>7, <2>1 DEF FrameSound
  <2>3. j # f.i + 1
    BY <1>1, <2>1, <2>2
  <2>4. j > g.i
    BY <1>0, <2>2, <2>3
  <2> QED BY <2>2, <2>4
<1>8. ASSUME g.quiet, NEW h \in Slots, NEW j \in Slots, g.i < h, h <= j, t[j] # nil PROVE t[h] # nil
  <2>1. f.i < h
    BY <1>0, <1>8
  <2> QED BY <1>8, <2>1 DEF FrameSound
<1>9. ToSet(g.called) \subseteq 1..r /\ g.due \subseteq 1..r /\ g.cur \in ToSet(g.called)
  BY <1>2, <1>4 DEF FrameSound
<1> QED BY <1>0, <1>1, <1>2, <1>5, <1>6, <1>7, <1>8, <1>9 DEF FrameSound

-----------------------------------------------------------------------------
\* The invariant, in the terms of the lemmas.
LEMMA InvFacts ==
  ASSUME EmitterInv
  PROVE  /\ table \in Tables /\ Distinct(table) /\ Fits(table, regs) /\ live \subseteq In(table)
         /\ regs \in Nat /\ regs <= MaxRegs /\ live \subseteq 1..regs /\ onces \subseteq 1..regs
         /\ stack \in Seq(Frames) /\ Len(stack) \in Nat /\ DOMAIN stack = 1..Len(stack)
         /\ \A k \in 1..Len(stack) : stack[k] \in Frames /\ FrameSound(table, live, regs, stack[k])
         /\ MaxRegs \in Nat
<1>1. MaxRegs \in Nat
  BY EmitterAssumption
<1>2. EmitterTypeOK
  BY DEF EmitterInv
<1>3. stack \in Seq(Frames)
  BY <1>2 DEF EmitterTypeOK
<1>4. Len(stack) \in Nat /\ DOMAIN stack = 1..Len(stack) /\ \A k \in 1..Len(stack) : stack[k] \in Frames
  BY <1>3
<1>5. \A k \in 1..Len(stack) : FrameSound(table, live, regs, stack[k])
  BY <1>4 DEF EmitterInv
<1>6. Distinct(table) /\ live \subseteq In(table) /\ Fits(table, regs)
  BY DEF EmitterInv, NoListenerLost, Distinct
<1>7. /\ table \in Tables /\ regs \in Nat /\ regs <= MaxRegs
      /\ live \subseteq 1..regs /\ onces \subseteq 1..regs
  BY <1>1, <1>2 DEF EmitterTypeOK, Tables
<1> QED BY <1>1, <1>3, <1>4, <1>5, <1>6, <1>7

\* What has to be shown of a step that ends no emission.
LEMMA InvAfter ==
  ASSUME EmitterInv, last' = last, exists' \in BOOLEAN, emits' \in 0..MaxEmits,
         table' \in Tables, Distinct(table'), Fits(table', regs'), live' \subseteq In(table'),
         regs' \in 0..MaxRegs, live' \subseteq 1..regs', onces' \subseteq 1..regs',
         stack' \in Seq(Frames), Len(stack') <= MaxDepth,
         \A k \in 1..Len(stack') : FrameSound(table', live', regs', stack'[k])
  PROVE  EmitterInv'
<1>1. EmitterTypeOK'
  BY DEF EmitterInv, EmitterTypeOK, Tables
<1>2. NoListenerLost'
  BY DEF NoListenerLost, Distinct
<1>3. QuietEmissionReachesAll'
  BY DEF EmitterInv, QuietEmissionReachesAll
<1>4. \A k \in DOMAIN stack' : FrameSound(table', live', regs', stack'[k])
  <2>1. DOMAIN stack' = 1..Len(stack')
    OBVIOUS
  <2> QED BY <2>1
<1> QED BY <1>1, <1>2, <1>3, <1>4 DEF EmitterInv

\* on and once.
LEMMA RegisterInv ==
  ASSUME EmitterInv, NEW single \in BOOLEAN, Register(single)
  PROVE  EmitterInv'
<1>1. /\ regs < MaxRegs /\ exists' = TRUE /\ regs' = regs + 1 /\ live' = live \cup {regs + 1}
      /\ onces' \subseteq onces \cup {regs + 1}
      /\ stack' = stack /\ emits' = emits /\ last' = last
  BY DEF Register
<1>2. PICK n \in Borders(table) : table' = table_insert(table, n, regs + 1)
  BY DEF Register
<1>3. /\ n + 1 \in Slots /\ table' \in Tables /\ Distinct(table') /\ Fits(table', regs + 1)
      /\ table'[n + 1] = regs + 1 /\ (\A i \in Slots : i # n + 1 => table'[i] = table[i]) /\ table[n + 1] = nil
  BY <1>1, <1>2, InvFacts, InsertTable
<1>4. live' \subseteq In(table')
  <2> SUFFICES ASSUME NEW x \in live' PROVE x \in In(table')
    OBVIOUS
  <2>1. CASE x = regs + 1
    BY <1>3, <2>1, InvFacts DEF In, nil
  <2>2. CASE x \in live
    <3>1. PICK i \in Slots : table[i] = x /\ x # nil
      BY <2>2, InvFacts DEF In
    <3>2. table'[i] = x
      BY <1>3, <3>1
    <3> QED BY <3>1, <3>2 DEF In
  <2> QED BY <1>1, <2>1, <2>2
<1>5. ASSUME NEW k \in 1..Len(stack) PROVE FrameSound(table', live', regs', stack[k])
  BY <1>1, <1>2, InvFacts, InsertFrame
<1>6. regs' \in 0..MaxRegs /\ live' \subseteq 1..regs' /\ onces' \subseteq 1..regs'
  BY <1>1, InvFacts
<1>7. emits' \in 0..MaxEmits /\ stack' \in Seq(Frames) /\ Len(stack') <= MaxDepth
  BY <1>1 DEF EmitterInv, EmitterTypeOK
<1> QED BY <1>1, <1>3, <1>4, <1>5, <1>6, <1>7, InvAfter

\* What Disturb does to the emissions in progress.
LEMMA DisturbFields ==
  ASSUME NEW s \in Seq(Frames), NEW R
  PROVE  /\ Disturb(s, R) \in Seq(Frames) /\ Len(Disturb(s, R)) = Len(s)
         /\ \A k \in 1..Len(s) :
              LET g == Disturb(s, R)[k] IN
              /\ g.i = s[k].i /\ g.cur = s[k].cur /\ g.due = s[k].due /\ g.called = s[k].called
              /\ g.quiet <=> s[k].quiet /\ R \subseteq {s[k].cur}
<1> DEFINE G(k) == [s[k] EXCEPT !.quiet = s[k].quiet /\ R \subseteq {s[k].cur}]
<1>1. ASSUME NEW k \in 1..Len(s)
      PROVE  /\ G(k) \in Frames
             /\ G(k).i = s[k].i /\ G(k).cur = s[k].cur /\ G(k).due = s[k].due /\ G(k).called = s[k].called
             /\ G(k).quiet <=> s[k].quiet /\ R \subseteq {s[k].cur}
  <2>1. s[k] \in Frames
    OBVIOUS
  <2>2. (s[k].quiet /\ R \subseteq {s[k].cur}) \in BOOLEAN
    OBVIOUS
  <2> QED BY <2>1, <2>2 DEF Frames
<1>2. Len(s) \in Nat
  OBVIOUS
<1>3. Disturb(s, R) = [k \in 1..Len(s) |-> G(k)]
  BY DEF Disturb
<1> HIDE DEF G
<1>4. Disturb(s, R) \in Seq(Frames) /\ Len(Disturb(s, R)) = Len(s)
  BY <1>1, <1>2, <1>3
<1> QED BY <1>1, <1>3, <1>4

\* removeListener, from the program or from the wrapper of once, when the
\* emissions in progress are s.
LEMMA RemoveInv ==
  ASSUME EmitterInv, NEW R, NEW n \in Borders(table), table' = Without(table, n, R), live' = live \ R,
         NEW s \in Seq(Frames), Len(s) <= MaxDepth,
         \A k \in 1..Len(s) : FrameSound(table, live, regs, s[k]),
         stack' = Disturb(s, R),
         exists' = exists, regs' = regs, onces' = onces, emits' = emits, last' = last
  PROVE  EmitterInv'
<1>1. /\ table' \in Tables /\ Distinct(table') /\ Fits(table', regs)
      /\ \A i \in Slots : table'[i] = table[i] \/ (table'[i] = nil /\ table[i] \in R)
  BY InvFacts, WithoutTable
<1>2. live' \subseteq In(table')
  BY <1>1, InvFacts, WithoutLive
<1>3. stack' \in Seq(Frames) /\ Len(stack') = Len(s)
  BY DisturbFields
<1>4. ASSUME NEW k \in 1..Len(s) PROVE FrameSound(table', live', regs, stack'[k])
  <2>1. PICK f \in Frames : f = s[k] /\ FrameSound(table, live, regs, f)
    OBVIOUS
  <2>2. PICK g : g = stack'[k]
    OBVIOUS
  <2>3. /\ g.i = f.i /\ g.cur = f.cur /\ g.due = f.due /\ g.called = f.called
        /\ g.quiet => f.quiet /\ R \subseteq {f.cur}
    BY <2>1, <2>2, DisturbFields
  <2>4. regs \in Nat
    BY InvFacts
  <2>5. FrameSound(table', live \ R, regs, g)
    BY <1>1, <2>1, <2>3, <2>4, WithoutFrame
  <2> QED BY <2>2, <2>5
<1>5. /\ regs' \in 0..MaxRegs /\ live' \subseteq 1..regs' /\ onces' \subseteq 1..regs'
      /\ exists' \in BOOLEAN /\ emits' \in 0..MaxEmits
  BY InvFacts DEF EmitterInv, EmitterTypeOK
<1> QED BY <1>1, <1>2, <1>3, <1>4, <1>5, InvAfter

\* emit: everyone who is registered is in a slot that ipairs has yet to reach.
LEMMA emitInv ==
  ASSUME EmitterInv, emit
  PROVE  EmitterInv'
<1> DEFINE f == [i |-> 0, cur |-> nil, due |-> live, called |-> <<>>, quiet |-> HoleFree(table)]
<1>1. /\ stack' = Append(stack, f) /\ Len(stack) < MaxDepth /\ emits < MaxEmits /\ emits' = emits + 1
      /\ exists' = exists /\ table' = table /\ regs' = regs /\ onces' = onces /\ live' = live /\ last' = last
  BY DEF emit
<1>2. f \in Frames
  <2>1. live \subseteq Ids
    BY InvFacts DEF Ids
  <2>2. HoleFree(table) \in BOOLEAN
    BY DEF HoleFree
  <2> QED BY <2>1, <2>2, InvFacts DEF Frames
<1>3. FrameSound(table, live, regs, f)
  <2>1. ToSet(f.called) = {} /\ IsInjective(f.called)
    BY DEF ToSet, IsInjective
  <2>2. /\ f.due = live /\ f.i = 0 /\ f.cur = nil /\ (f.quiet <=> HoleFree(table))
    OBVIOUS
  <2> HIDE DEF f
  <2>3. \A x \in live : \E j \in Slots : j > 0 /\ table[j] = x
    <3> TAKE x \in live
    <3>1. PICK j \in Slots : table[j] = x
      BY InvFacts DEF In
    <3>2. j > 0
      BY EmitterAssumption DEF Slots
    <3> QED BY <3>1, <3>2
  <2>4. f.quiet => \A h, j \in Slots : 0 < h /\ h <= j /\ table[j] # nil => table[h] # nil
    BY <2>2, EmitterAssumption DEF HoleFree, Slots
  <2> QED BY <2>1, <2>2, <2>3, <2>4, InvFacts DEF FrameSound
<1> HIDE DEF f
<1>4. /\ stack' \in Seq(Frames) /\ Len(stack') = Len(stack) + 1 /\ stack'[Len(stack) + 1] = f
      /\ \A k \in 1..Len(stack) : stack'[k] = stack[k]
  BY <1>1, <1>2, InvFacts
<1>5. \A k \in 1..Len(stack') : FrameSound(table', live', regs', stack'[k])
  <2> TAKE k \in 1..Len(stack')
  <2>1. CASE k = Len(stack) + 1
    BY <1>1, <1>3, <1>4, <2>1
  <2>2. CASE k \in 1..Len(stack)
    BY <1>1, <1>4, <2>2, InvFacts
  <2> QED BY <1>4, <2>1, <2>2, InvFacts
<1>6. /\ exists' \in BOOLEAN /\ emits' \in 0..MaxEmits /\ Len(stack') <= MaxDepth /\ regs' \in 0..MaxRegs
  BY <1>1, <1>4, InvFacts, EmitterAssumption DEF EmitterInv, EmitterTypeOK
<1> QED BY <1>1, <1>4, <1>5, <1>6, InvFacts, InvAfter

\* The frame on top, changed by emitCall or emitReturn.
LEMMA TopChanged ==
  ASSUME EmitterInv, stack # <<>>, NEW g \in Frames, FrameSound(table, live, regs, g),
         NEW s, s = [stack EXCEPT ![Len(stack)] = g]
  PROVE  /\ s \in Seq(Frames) /\ Len(s) = Len(stack) /\ Len(s) <= MaxDepth
         /\ \A k \in 1..Len(s) : FrameSound(table, live, regs, s[k])
<1>1. Len(stack) \in Nat /\ Len(stack) # 0 /\ DOMAIN stack = 1..Len(stack) /\ stack \in Seq(Frames)
  BY InvFacts
<1>2. /\ s \in Seq(Frames) /\ Len(s) = Len(stack) /\ s[Len(stack)] = g
      /\ \A k \in 1..Len(stack) : k # Len(stack) => s[k] = stack[k]
  <2>1. DOMAIN s = 1..Len(stack) /\ s = [k \in 1..Len(stack) |-> s[k]]
    BY <1>1
  <2>2. PICK m : m = Len(stack) /\ m \in DOMAIN stack
    BY <1>1
  <2>3. s = [stack EXCEPT ![m] = g]
    BY <2>2
  <2>4. s[m] = g /\ \A k \in DOMAIN stack : k # m => s[k] = stack[k]
    BY <2>2, <2>3
  <2>5. s[Len(stack)] = g /\ \A k \in 1..Len(stack) : k # Len(stack) => s[k] = stack[k]
    BY <1>1, <2>2, <2>4
  <2>6. \A k \in 1..Len(stack) : s[k] \in Frames
    BY <2>5, InvFacts
  <2>7. s \in Seq(Frames) /\ Len(s) = Len(stack)
    BY <1>1, <2>1, <2>6
  <2> QED BY <2>5, <2>7
<1>3. Len(s) <= MaxDepth
  BY <1>2 DEF EmitterInv, EmitterTypeOK
<1>4. ASSUME NEW k \in 1..Len(s) PROVE FrameSound(table, live, regs, s[k])
  <2>1. CASE k = Len(stack)
    BY <1>2, <2>1
  <2>2. CASE k # Len(stack)
    BY <1>2, <2>2, InvFacts
  <2> QED BY <2>1, <2>2
<1> QED BY <1>2, <1>3, <1>4

\* emit calls the next listener.
LEMMA emitCallInv ==
  ASSUME EmitterInv, emitCall
  PROVE  EmitterInv'
<1> DEFINE r == At(table, Top.i + 1)
           s == [stack EXCEPT ![Len(stack)].i = Top.i + 1,
                              ![Len(stack)].cur = r,
                              ![Len(stack)].called = Append(Top.called, r)]
<1>1. /\ stack # <<>> /\ r # nil
      /\ exists' = exists /\ regs' = regs /\ onces' = onces /\ emits' = emits /\ last' = last
      /\ IF r \in onces
         THEN /\ \E n \in Borders(table) : table' = Without(table, n, {r})
              /\ live' = live \ {r} /\ stack' = Disturb(s, {r})
         ELSE stack' = s /\ table' = table /\ live' = live
  BY DEF emitCall
<1>2. Top = stack[Len(stack)] /\ Len(stack) \in 1..Len(stack) /\ Top \in Frames /\ FrameSound(table, live, regs, Top)
  BY <1>1, InvFacts DEF Top, Last
<1> DEFINE g == [Top EXCEPT !.i = Top.i + 1, !.cur = r, !.called = Append(Top.called, r)]
<1>3. /\ g.i = Top.i + 1 /\ g.cur = r /\ g.due = Top.due /\ g.called = Append(Top.called, r) /\ g.quiet = Top.quiet
  BY <1>2 DEF Frames
<1>4. s = [stack EXCEPT ![Len(stack)] = g]
  BY <1>2, InvFacts DEF Frames
<1>5. FrameSound(table, live, regs, g) /\ Top.i + 1 \in 0..MaxRegs /\ r \in Ids
  <2> HIDE DEF g
  <2> QED BY <1>1, <1>2, <1>3, InvFacts, CallFrame
<1>6. g \in Frames
  <2>1. Append(Top.called, r) \in Seq(Ids)
    <3> HIDE DEF r
    <3>1. Top.called \in Seq(Ids)
      BY <1>2 DEF Frames
    <3> QED BY <1>5, <3>1
  <2> HIDE DEF r
  <2> QED BY <1>2, <1>5, <2>1 DEF Frames
<1> HIDE DEF g, s, r
<1>7. /\ s \in Seq(Frames) /\ Len(s) = Len(stack) /\ Len(s) <= MaxDepth
      /\ \A k \in 1..Len(s) : FrameSound(table, live, regs, s[k])
  BY <1>1, <1>4, <1>5, <1>6, TopChanged
<1>8. CASE r \in onces
  <2>1. PICK n \in Borders(table) : table' = Without(table, n, {r})
    BY <1>1, <1>8
  <2> QED BY <1>1, <1>7, <1>8, <2>1, RemoveInv
<1>9. CASE r \notin onces
  <2>1. /\ exists' \in BOOLEAN /\ emits' \in 0..MaxEmits /\ regs' \in 0..MaxRegs
    BY <1>1, InvFacts DEF EmitterInv, EmitterTypeOK
  <2> QED BY <1>1, <1>7, <1>9, <2>1, InvFacts, InvAfter
<1> QED BY <1>8, <1>9

\* The listener returns.
LEMMA emitReturnInv ==
  ASSUME EmitterInv, emitReturn
  PROVE  EmitterInv'
<1>1. /\ stack # <<>> /\ stack' = [stack EXCEPT ![Len(stack)].cur = nil]
      /\ exists' = exists /\ table' = table /\ regs' = regs /\ onces' = onces
      /\ emits' = emits /\ live' = live /\ last' = last
  BY DEF emitReturn
<1> DEFINE f == stack[Len(stack)]
           g == [f EXCEPT !.cur = nil]
<1>2. f \in Frames /\ FrameSound(table, live, regs, f)
  BY <1>1, InvFacts
<1>3. g \in Frames /\ g.i = f.i /\ g.cur = nil /\ g.due = f.due /\ g.called = f.called /\ g.quiet = f.quiet
  BY <1>2 DEF Frames
<1>4. stack' = [stack EXCEPT ![Len(stack)] = g]
  BY <1>1
<1> HIDE DEF f, g
<1>5. FrameSound(table, live, regs, g)
  BY <1>2, <1>3 DEF FrameSound
<1>6. /\ stack' \in Seq(Frames) /\ Len(stack') <= MaxDepth
      /\ \A k \in 1..Len(stack') : FrameSound(table, live, regs, stack'[k])
  BY <1>1, <1>3, <1>4, <1>5, TopChanged
<1>7. /\ exists' \in BOOLEAN /\ emits' \in 0..MaxEmits /\ regs' \in 0..MaxRegs
  BY <1>1, InvFacts DEF EmitterInv, EmitterTypeOK
<1> QED BY <1>1, <1>6, <1>7, InvFacts, InvAfter

\* The loop is over.  If the emission was quiet there is nobody in the slots it
\* has not reached, so it owes nobody a call.
LEMMA emitEndInv ==
  ASSUME EmitterInv, emitEnd
  PROVE  EmitterInv'
<1>1. /\ stack # <<>> /\ At(table, Top.i + 1) = nil
      /\ last' = [missed |-> (Top.due \cap live) \ ToSet(Top.called), quiet |-> Top.quiet]
      /\ exists' = exists /\ regs' = regs /\ onces' = onces /\ emits' = emits /\ live' = live
  BY DEF emitEnd
<1>2. PICK n \in Borders(table) : \E t \in Compact(table, n) :
         /\ table' = t
         /\ stack' = [k \in 1..(Len(stack) - 1) |-> [stack[k] EXCEPT !.quiet = stack[k].quiet /\ t = table]]
  BY DEF emitEnd
<1>3. Lowered(table, table')
  <2>1. n \in 0..MaxRegs /\ table' \in Compact(table, n)
    BY <1>2, BorderFacts
  <2> QED BY <2>1, InvFacts, CompactLowers
<1>4. table' \in Tables /\ Distinct(table') /\ Fits(table', regs) /\ live \subseteq In(table')
  <2>1. ASSUME NEW j \in Slots PROVE table'[j] \in 0..regs /\ (table'[j] # nil => j <= regs)
    <3>1. CASE table'[j] = nil
      BY <3>1, InvFacts DEF nil
    <3>2. CASE table'[j] # nil
      <4>1. PICK i \in Slots : j <= i /\ table'[j] = table[i]
        BY <1>3, <3>2 DEF Lowered
      <4>2. table[i] \in 0..regs /\ i <= regs
        BY <3>2, <4>1, InvFacts DEF Fits
      <4> QED BY <4>1, <4>2, InvFacts DEF Slots
    <3> QED BY <3>1, <3>2
  <2>2. ASSUME NEW x \in live PROVE x \in In(table')
    <3>1. PICK i \in Slots : table[i] = x /\ x # nil
      BY InvFacts DEF In
    <3>2. PICK j \in Slots : table'[j] = x
      BY <1>3, <3>1 DEF Lowered
    <3> QED BY <3>1, <3>2 DEF In
  <2> QED BY <1>3, <2>1, <2>2 DEF Lowered, Fits
<1>5. Top = stack[Len(stack)] /\ Len(stack) \in 1..Len(stack) /\ Top \in Frames /\ FrameSound(table, live, regs, Top)
  BY <1>1, InvFacts DEF Top, Last
<1> DEFINE G(k) == [stack[k] EXCEPT !.quiet = stack[k].quiet /\ table' = table]
<1>6. stack' = [k \in 1..(Len(stack) - 1) |-> G(k)]
  BY <1>2
<1>7. ASSUME NEW k \in 1..(Len(stack) - 1)
      PROVE  G(k) \in Frames /\ FrameSound(table', live, regs, G(k))
  <2>1. PICK f \in Frames : f = stack[k] /\ FrameSound(table, live, regs, f)
    BY InvFacts
  <2>2. PICK g : g = G(k)
    OBVIOUS
  <2>3. /\ g \in Frames /\ g.i = f.i /\ g.cur = f.cur /\ g.due = f.due /\ g.called = f.called
        /\ g.quiet => f.quiet /\ table' = table
    BY <2>1, <2>2 DEF Frames
  <2>4. FrameSound(table', live, regs, g)
    BY <1>3, <2>1, <2>3, InvFacts, LoweredFrame
  <2> QED BY <2>2, <2>3, <2>4
<1> HIDE DEF G
<1>8. /\ stack' \in Seq(Frames) /\ Len(stack') = Len(stack) - 1
      /\ \A k \in 1..Len(stack') : FrameSound(table', live, regs, stack'[k])
  <2>1. Len(stack) - 1 \in Nat
    BY <1>5, InvFacts
  <2>2. stack' \in Seq(Frames) /\ Len(stack') = Len(stack) - 1
    BY <1>6, <1>7, <2>1
  <2> QED BY <1>6, <1>7, <2>2
<1>9. Top.quiet => (Top.due \cap live) \ ToSet(Top.called) = {}
  <2> SUFFICES ASSUME Top.quiet, NEW x \in (Top.due \cap live) \ ToSet(Top.called) PROVE FALSE
    OBVIOUS
  <2>1. PICK j \in Slots : j > Top.i /\ table[j] = x
    BY <1>5 DEF FrameSound
  <2>2. x # nil
    BY InvFacts DEF nil
  <2>3. Top.i + 1 \in Slots /\ Top.i < Top.i + 1 /\ Top.i + 1 <= j
    BY <1>5, <2>1, EmitterAssumption DEF Frames, Slots
  <2>4. table[Top.i + 1] # nil
    BY <1>5, <2>1, <2>2, <2>3 DEF FrameSound
  <2> QED BY <1>1, <2>3, <2>4 DEF At
<1>10. QuietEmissionReachesAll'
  BY <1>1, <1>9 DEF QuietEmissionReachesAll
<1>11. EmitterTypeOK'
  <2>1. last' \in [missed : SUBSET Ids, quiet : BOOLEAN]
    <3>1. Top.due \in SUBSET Ids /\ Top.quiet \in BOOLEAN
      BY <1>5 DEF Frames
    <3> QED BY <1>1, <3>1
  <2>2. /\ exists' \in BOOLEAN /\ emits' \in 0..MaxEmits /\ regs' \in 0..MaxRegs
        /\ live' \subseteq 1..regs' /\ onces' \subseteq 1..regs'
    BY <1>1, InvFacts DEF EmitterInv, EmitterTypeOK
  <2>3. Len(stack') <= MaxDepth
    BY <1>8, InvFacts, EmitterAssumption DEF EmitterInv, EmitterTypeOK
  <2> QED BY <1>4, <1>8, <2>1, <2>2, <2>3 DEF EmitterTypeOK, Tables
<1>12. NoListenerLost' /\ Fits(table', regs')
  BY <1>1, <1>4 DEF NoListenerLost, Distinct
<1>13. \A k \in DOMAIN stack' : FrameSound(table', live', regs', stack'[k])
  <2>1. DOMAIN stack' = 1..Len(stack')
    BY <1>8
  <2> QED BY <1>1, <1>8, <2>1
<1> QED BY <1>10, <1>11, <1>12, <1>13 DEF EmitterInv

\* No table, no registration, no emission.
LEMMA EmitterInitInv == EmitterInit => EmitterInv
<1> SUFFICES ASSUME EmitterInit PROVE EmitterInv
  OBVIOUS
<1>1. EmitterTypeOK
  <2>1. 0 \in 0..MaxRegs /\ 0 \in 0..MaxEmits /\ 0 <= MaxDepth
    BY EmitterAssumption
  <2>2. stack \in Seq(Frames) /\ Len(stack) = 0
    BY DEF EmitterInit
  <2>3. last \in [missed : SUBSET Ids, quiet : BOOLEAN]
    BY DEF EmitterInit
  <2> QED BY <2>1, <2>2, <2>3 DEF EmitterInit, EmitterTypeOK
<1>2. NoListenerLost /\ Fits(table, regs) /\ QuietEmissionReachesAll
  BY DEF EmitterInit, NoListenerLost, Fits, QuietEmissionReachesAll, nil
<1>3. \A k \in DOMAIN stack : FrameSound(table, live, regs, stack[k])
  BY DEF EmitterInit
<1> QED BY <1>1, <1>2, <1>3 DEF EmitterInv

\* Every step keeps the invariant.
LEMMA EmitterNextInv == EmitterInv /\ [EmitterNext]_emitterVars => EmitterInv'
<1> SUFFICES ASSUME EmitterInv, [EmitterNext]_emitterVars PROVE EmitterInv'
  OBVIOUS
<1>1. CASE on
  BY <1>1, RegisterInv DEF on
<1>2. CASE once
  BY <1>2, RegisterInv DEF once
<1>3. ASSUME NEW R, RemoveAny(R) PROVE EmitterInv'
  <2>1. PICK n \in Borders(table) : table' = Without(table, n, R)
    BY <1>3 DEF RemoveAny
  <2>2. /\ live' = live \ R /\ stack' = Disturb(stack, R)
        /\ exists' = exists /\ regs' = regs /\ onces' = onces /\ emits' = emits /\ last' = last
    BY <1>3 DEF RemoveAny
  <2>3. Len(stack) <= MaxDepth
    BY DEF EmitterInv, EmitterTypeOK
  <2> QED BY <2>1, <2>2, <2>3, InvFacts, RemoveInv
<1>4. CASE removeListener
  BY <1>3, <1>4 DEF removeListener
<1>5. CASE removeAll
  BY <1>3, <1>5 DEF removeAll
<1>6. CASE emitMissing
  <2>1. /\ exists' = exists /\ table' = table /\ regs' = regs /\ onces' = onces /\ stack' = stack
        /\ live' = live /\ last' = last /\ emits' = emits + 1 /\ emits < MaxEmits
    BY <1>6 DEF emitMissing
  <2>2. /\ exists' \in BOOLEAN /\ emits' \in 0..MaxEmits /\ regs' \in 0..MaxRegs /\ Len(stack') <= MaxDepth
    BY <2>1, InvFacts, EmitterAssumption DEF EmitterInv, EmitterTypeOK
  <2> QED BY <2>1, <2>2, InvFacts, InvAfter
<1>7. CASE emit
  BY <1>7, emitInv
<1>8. CASE emitCall
  BY <1>8, emitCallInv
<1>9. CASE emitReturn
  BY <1>9, emitReturnInv
<1>10. CASE emitEnd
  BY <1>10, emitEndInv
<1>11. CASE UNCHANGED emitterVars
  <2>1. /\ exists' = exists /\ table' = table /\ regs' = regs /\ onces' = onces /\ stack' = stack
        /\ live' = live /\ last' = last /\ emits' = emits
    BY <1>11 DEF emitterVars
  <2>2. /\ exists' \in BOOLEAN /\ emits' \in 0..MaxEmits /\ regs' \in 0..MaxRegs /\ Len(stack') <= MaxDepth
    BY <2>1, InvFacts DEF EmitterInv, EmitterTypeOK
  <2> QED BY <2>1, <2>2, InvFacts, InvAfter
<1> QED BY <1>1, <1>2, <1>4, <1>5, <1>6, <1>7, <1>8, <1>9, <1>10, <1>11 DEF EmitterNext

\* The invariant of Emitter, for any number of registrations and emissions.
THEOREM EmitterSpecInv == EmitterSpec => []EmitterInv
<1>1. EmitterInit => EmitterInv
  BY EmitterInitInv
<1>2. EmitterInv /\ [EmitterNext]_emitterVars => EmitterInv'
  BY EmitterNextInv
<1> QED BY <1>1, <1>2, PTL DEF EmitterSpec

\* No listener that was not removed is lost or doubled, whatever listeners
\* register, remove and emit while an event is emitted, and whichever border
\* Lua answers for #t.
THEOREM ListenersAreKept == EmitterSpec => []ListenersKept
<1>1. EmitterInv => ListenersKept
  BY DEF EmitterInv, ListenersKept
<1> QED BY <1>1, EmitterSpecInv, PTL

\* An emission calls nobody twice, and if its listeners remove only themselves
\* and no slots move under it, it reaches everyone.
THEOREM EmissionsReachEachOnce == EmitterSpec => []EachListenerOnce
<1>1. EmitterInv => EachListenerOnce
  <2> SUFFICES ASSUME EmitterInv PROVE EachListenerOnce
    OBVIOUS
  <2>1. \A k \in 1..Len(stack) : IsInjective(stack[k].called)
    BY InvFacts DEF FrameSound
  <2> QED BY <2>1 DEF EmitterInv, EachListenerOnce, AtMostOncePerEmission
<1> QED BY <1>1, EmitterSpecInv, PTL
=============================================================================
