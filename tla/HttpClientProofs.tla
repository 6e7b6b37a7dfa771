--------------------------- MODULE HttpClientProofs ---------------------------
(***************************************************************************)
(* What holds of every http.request of module HttpClient, for every set of *)
(* lengths and every bound: the request is framed as its head announces    *)
(* (the sizes of its chunks as far as tonumber(len, 16) gets them right),  *)
(* the head of the response is that of its own message, and nothing of it  *)
(* comes after "close".                                                    *)
(***************************************************************************)
EXTENDS HttpClient, WellFoundedInduction, SequenceTheorems, TLAPS

-----------------------------------------------------------------------------
\* tonumber(len, 16), which is defined by recursion.  Each induction takes the
\* smallest number for which the claim fails.

\* A set of natural numbers that is not empty has a smallest element.
LEMMA Smallest ==
  ASSUME NEW T \in SUBSET Nat, T # {}
  PROVE  \E m \in T : \A k \in T : m <= k
<1> DEFINE R == OpToRel(<, Nat)
<1>1. IsWellFoundedOn(R, Nat)
  BY NatLessThanWellFounded
<1>2. \A x, y \in Nat : x < y => <<x, y>> \in R
  BY DEF OpToRel
<1> HIDE DEF R
<1>3. T \subseteq Nat
  OBVIOUS
<1>4. PICK m \in T : \A y \in T : ~(<<y, m>> \in R)
  BY <1>1, <1>3, WFMin
<1>5. \A k \in T : ~(k < m)
  BY <1>2, <1>3, <1>4
<1> QED BY <1>5

\* The number without its last digit, and the digit.
LEMMA Digits ==
  ASSUME NEW n \in Nat, n >= 10
  PROVE  /\ n \div 10 \in Nat /\ n \div 10 >= 1 /\ n \div 10 < n
         /\ n % 10 \in 0..9 /\ n = 10 * (n \div 10) + (n % 10)
OBVIOUS

\* A function that reads the numbers up to k the way tonumber16 does.
Reads(g, k) == g = [n \in 0..k |-> IF n < 10 THEN n ELSE 16 * g[n \div 10] + (n % 10)]

\* Two such functions agree where both are defined.
LEMMA ReadsUnique ==
  ASSUME NEW g, NEW h, NEW k \in Nat, NEW j \in Nat, Reads(g, k), Reads(h, j)
  PROVE  \A n \in Nat : n <= k /\ n <= j => g[n] = h[n]
<1> DEFINE T == {n \in Nat : n <= k /\ n <= j /\ g[n] # h[n]}
<1>1. SUFFICES ASSUME T # {} PROVE FALSE
  OBVIOUS
<1>2. T \in SUBSET Nat
  OBVIOUS
<1>3. PICK m \in T : \A n \in T : m <= n
  BY <1>1, <1>2, Smallest
<1>4. m >= 10
  BY DEF Reads
<1>5. m \div 10 \in Nat /\ m \div 10 < m
  BY <1>4, Digits
<1>6. g[m \div 10] = h[m \div 10]
  BY <1>3, <1>5
<1>7. g[m] = 16 * g[m \div 10] + (m % 10)
  BY <1>4 DEF Reads
<1>8. h[m] = 16 * h[m \div 10] + (m % 10)
  BY <1>4 DEF Reads
<1> QED BY <1>6, <1>7, <1>8

\* There is one for every k.
LEMMA ReadsExists == \A k \in Nat : \E g : Reads(g, k)
<1> DEFINE T == {k \in Nat : ~ \E g : Reads(g, k)}
<1>1. SUFFICES ASSUME T # {} PROVE FALSE
  OBVIOUS
<1>2. T \in SUBSET Nat
  OBVIOUS
<1>3. PICK m \in T : \A n \in T : m <= n
  BY <1>1, <1>2, Smallest
<1>4. CASE m < 10
  <2>1. Reads([n \in 0..m |-> n], m)
    BY <1>4 DEF Reads
  <2> QED BY <2>1
<1>5. CASE m >= 10
  <2>1. m - 1 \in Nat /\ m - 1 \notin T
    BY <1>3, <1>5
  <2>2. PICK g : Reads(g, m - 1)
    BY <2>1
  <2> DEFINE h == [n \in 0..m |-> IF n < m THEN g[n] ELSE 16 * g[m \div 10] + (m % 10)]
  <2>3. \A n \in 0..m : h[n] = IF n < 10 THEN n ELSE 16 * h[n \div 10] + (n % 10)
    <3> TAKE n \in 0..m
    <3>1. CASE n < 10
      BY <1>5, <2>2, <3>1 DEF Reads
    <3>2. CASE n >= 10
      <4>1. n \div 10 \in 0..(m - 1) /\ n \div 10 < m
        BY <3>2, Digits
      <4>2. h[n \div 10] = g[n \div 10]
        BY <4>1
      <4>3. CASE n < m
        BY <2>2, <3>2, <4>2, <4>3 DEF Reads
      <4>4. CASE n = m
        BY <3>2, <4>2, <4>4
      <4> QED BY <4>3, <4>4
    <3> QED BY <3>1, <3>2
  <2>4. Reads(h, m)
    BY <2>3 DEF Reads
  <2> QED BY <2>4
<1> QED BY <1>4, <1>5

\* The equation that defines tonumber16 holds of it.
LEMMA tonumber16Def ==
  tonumber16 = [n \in Nat |-> IF n < 10 THEN n ELSE 16 * tonumber16[n \div 10] + (n % 10)]
<1> DEFINE G(k) == CHOOSE g : Reads(g, k)
           f == [n \in Nat |-> G(n)[n]]
<1>1. \A k \in Nat : Reads(G(k), k)
  BY ReadsExists
<1> HIDE DEF G
<1>2. \A k \in Nat, n \in Nat : n <= k => G(k)[n] = f[n]
  BY <1>1, ReadsUnique
<1>3. \A n \in Nat : f[n] = IF n < 10 THEN n ELSE 16 * f[n \div 10] + (n % 10)
  <2> TAKE n \in Nat
  <2>1. G(n)[n] = IF n < 10 THEN n ELSE 16 * G(n)[n \div 10] + (n % 10)
    BY <1>1 DEF Reads
  <2>2. n >= 10 => n \div 10 \in Nat /\ n \div 10 <= n
    BY Digits
  <2> QED BY <1>2, <2>1, <2>2
<1>4. f = [n \in Nat |-> IF n < 10 THEN n ELSE 16 * f[n \div 10] + (n % 10)]
  BY <1>3
<1> HIDE DEF f
<1> QED BY <1>4 DEF tonumber16

\* A number of one digit is read as itself, a longer one as a greater number.
LEMMA tonumber16Value ==
  \A n \in Nat : /\ tonumber16[n] \in Nat
                 /\ n < 10 => tonumber16[n] = n
                 /\ n >= 10 => tonumber16[n] > n
<1> DEFINE T == {n \in Nat : ~(tonumber16[n] \in Nat /\ tonumber16[n] >= n)}
<1>1. T = {}
  <2>1. SUFFICES ASSUME T # {} PROVE FALSE
    OBVIOUS
  <2>2. T \in SUBSET Nat
    OBVIOUS
  <2>3. PICK m \in T : \A n \in T : m <= n
    BY <2>1, <2>2, Smallest
  <2>4. tonumber16[m] = IF m < 10 THEN m ELSE 16 * tonumber16[m \div 10] + (m % 10)
    BY tonumber16Def
  <2>5. m >= 10
    BY <2>4
  <2>6. m \div 10 \in Nat /\ m \div 10 < m /\ m % 10 \in 0..9 /\ m = 10 * (m \div 10) + (m % 10)
    BY <2>5, Digits
  <2>7. tonumber16[m \div 10] \in Nat /\ tonumber16[m \div 10] >= m \div 10
    BY <2>3, <2>6
  <2>8. tonumber16[m] \in Nat /\ tonumber16[m] >= m
    BY <2>4, <2>5, <2>6, <2>7
  <2> QED BY <2>8
<1> TAKE n \in Nat
<1>2. tonumber16[n] = IF n < 10 THEN n ELSE 16 * tonumber16[n \div 10] + (n % 10)
  BY tonumber16Def
<1>3. CASE n < 10
  BY <1>2, <1>3
<1>4. CASE n >= 10
  <2>1. n \div 10 \in Nat /\ n \div 10 >= 1 /\ n % 10 \in 0..9 /\ n = 10 * (n \div 10) + (n % 10)
    BY <1>4, Digits
  <2>2. tonumber16[n \div 10] \in Nat /\ tonumber16[n \div 10] >= n \div 10
    BY <1>1, <2>1
  <2> QED BY <1>2, <1>4, <2>1, <2>2
<1> QED BY <1>3, <1>4

\* The size that is announced for a chunk of OutgoingMessage:write and done is
\* the chunk's own for chunks of less than ten bytes, and for no others.
THEOREM ChunkSizes ==
  \A n \in Nat : tonumber16[tonumber16[n]] = n <=> n < 10
<1> TAKE n \in Nat
<1>1. CASE n < 10
  BY <1>1, tonumber16Value
<1>2. CASE n >= 10
  <2>1. tonumber16[n] \in Nat /\ tonumber16[n] > n
    BY <1>2, tonumber16Value
  <2>2. tonumber16[tonumber16[n]] \in Nat /\ tonumber16[tonumber16[n]] > tonumber16[n]
    BY <1>2, <2>1, tonumber16Value
  <2> QED BY <1>2, <2>1, <2>2
<1> QED BY <1>1, <1>2

-----------------------------------------------------------------------------
\* The inductive invariant, by what it is about.

\* Until the connection is there everything waits in the queue.
QueueOrWire == IF phase = "open" THEN queue = <<>> ELSE wire = <<>>

\* A head is stored before it is sent, and is sent or kept in output, where only
\* a socket that takes no more leaves it.
HeadFirst ==
  /\ out.headerSent => out.header
  /\ Sent # <<>> => out.headerSent
  /\ out.headerSent => Sent # <<>> \/ out.output
  /\ out.output => ~writable
  /\ out.finish => out.finished

\* destroy gives nextTick one "close", which the request emits once, and only a
\* lookup that failed gives another tick, before it or after it.
TicksOnce ==
  \/ /\ ticks = <<>> \/ (ticks = <<"lookup">> /\ phase = "failed")
     /\ closed = IF destroyed THEN 1 ELSE 0
  \/ /\ destroyed /\ closed = 0
     /\ \E c \in {"close", "errorClose"} :
          ticks = <<c>> \/ (phase = "failed" /\ ticks \in {<<c, "lookup">>, <<"lookup", c>>})

\* A token of the head of the latest message, whole unless one was cut.
Own(t) == t[1] = msg.n /\ (~msg.cut => t[2] = "whole")

\* The fields and values that came are those of the latest message, and so is
\* the field a value is expected for; a cut is remembered; the table that
\* response.headers refers to is the current one.
TokensOwn ==
  /\ \A e \in headers : Own(e[1]) /\ Own(e[2])
  /\ parser \in {"value", "valueCut"} => current_field # <<>> /\ Own(current_field)
  /\ parser \in {"fieldCut", "valueCut"} => msg.cut
  /\ msg.headed => response.headers = headers
  /\ parser \notin {"start", "closed", "dead"} => msg.n > 0

\* The request on its way out.
SendInv == QueueOrWire /\ HeadFirst /\ RequestFramed /\ FinishMeansSent

\* The inductive invariant.
Inv ==
  /\ TypeOK /\ SendInv
  /\ TicksOnce /\ TokensOwn

-----------------------------------------------------------------------------
\* What the program sends.

\* The type of out.
Outs ==
  [header : BOOLEAN, headerSent : BOOLEAN, chunked : BOOLEAN, output : BOOLEAN,
   finished : BOOLEAN, finish : BOOLEAN, writes : 0..MaxWrites]

\* RequestFramed of any sequence of pieces and any request.
Framed(s, o) ==
  \A i \in DOMAIN s :
    /\ (s[i] = <<"head">>) <=> (i = 1)
    /\ s[i] = <<"last">> => i = Len(s) /\ o.finished
    /\ i > 1 => (s[i] = <<"raw">> <=> ~o.chunked)
    /\ s[i][1] = "chunk" /\ s[i][3] < 10 => s[i][2] = s[i][3]

\* Pieces of the body of a request, with the last chunk if it is finished.
Body(s, o) ==
  \A i \in DOMAIN s :
    /\ s[i] # <<"head">>
    /\ s[i] = <<"last">> => i = Len(s) /\ o.finished
    /\ s[i] = <<"raw">> <=> ~o.chunked
    /\ s[i][1] = "chunk" /\ s[i][3] < 10 => s[i][2] = s[i][3]

\* A body after the head, and more of the body after what was not finished.
LEMMA FramedStart ==
  ASSUME NEW s \in Seq(Pieces), NEW o, Body(s, o)
  PROVE  Framed(<<<<"head">>>> \o s, o)
BY DEF Framed, Body, Pieces

\* More pieces of the body after pieces that are framed.
LEMMA FramedMore ==
  ASSUME NEW s \in Seq(Pieces), s # <<>>, NEW o, ~o.finished, Framed(s, o),
         NEW t \in Seq(Pieces), NEW q, q.chunked = o.chunked, Body(t, q)
  PROVE  Framed(s \o t, q)
<1> DEFINE st == s \o t
<1>1. /\ Len(st) = Len(s) + Len(t) /\ DOMAIN st = 1..Len(st) /\ Len(s) > 0
      /\ \A i \in DOMAIN st : i <= Len(s) => i \in DOMAIN s /\ st[i] = s[i]
      /\ \A i \in DOMAIN st : i > Len(s) => /\ i - Len(s) \in DOMAIN t /\ st[i] = t[i - Len(s)]
                                           /\ i > 1 /\ (i - Len(s) = Len(t) <=> i = Len(st))
  OBVIOUS
<1> HIDE DEF st
<1>2. SUFFICES ASSUME NEW i \in DOMAIN st
               PROVE  /\ (st[i] = <<"head">>) <=> (i = 1)
                      /\ st[i] = <<"last">> => i = Len(st) /\ q.finished
                      /\ i > 1 => (st[i] = <<"raw">> <=> ~q.chunked)
                      /\ st[i][1] = "chunk" /\ st[i][3] < 10 => st[i][2] = st[i][3]
  BY DEF Framed, st
<1>3. CASE i <= Len(s)
  BY <1>1, <1>3 DEF Framed
<1>4. CASE i > Len(s)
  <2> DEFINE j == i - Len(s)
  <2>1. j \in DOMAIN t /\ st[i] = t[j] /\ i # 1 /\ (j = Len(t) <=> i = Len(st))
    BY <1>1, <1>4
  <2> HIDE DEF j
  <2>2. /\ t[j] # <<"head">>
        /\ t[j] = <<"last">> => j = Len(t) /\ q.finished
        /\ t[j] = <<"raw">> <=> ~q.chunked
        /\ t[j][1] = "chunk" /\ t[j][3] < 10 => t[j][2] = t[j][3]
    BY <2>1 DEF Body
  <2> QED BY <2>1, <2>2
<1> QED BY <1>1, <1>3, <1>4

\* The piece for a chunk of data.
LEMMA ChunkPiece ==
  ASSUME NEW p \in Outs, NEW n \in Lengths
  PROVE  /\ Chunk(p, n) \in Pieces
         /\ Chunk(p, n) # <<"head">> /\ Chunk(p, n) # <<"last">>
         /\ Chunk(p, n) = <<"raw">> <=> ~p.chunked
         /\ Chunk(p, n)[1] = "chunk" /\ Chunk(p, n)[3] < 10 => Chunk(p, n)[2] = Chunk(p, n)[3]
<1>1. n \in Nat
  BY BoundsAssumption
<1>2. tonumber16[tonumber16[n]] \in Nat /\ (n < 10 => tonumber16[tonumber16[n]] = n)
  BY <1>1, tonumber16Value
<1>3. CASE p.chunked
  BY <1>2, <1>3 DEF Chunk, Pieces, Outs
<1>4. CASE ~p.chunked
  BY <1>4 DEF Chunk, Pieces, Outs
<1> QED BY <1>3, <1>4

\* What write and done send is a body.
LEMMA WriteBody ==
  ASSUME NEW p \in Outs, NEW n \in Lengths, NEW o, o.chunked = p.chunked
  PROVE  <<Chunk(p, n)>> \in Seq(Pieces) /\ Body(<<Chunk(p, n)>>, o)
BY ChunkPiece DEF Body

\* What done sends is a body with its end: a chunked one closes with the last
\* chunk.
LEMMA DoneBody ==
  ASSUME NEW p \in Outs, NEW n \in Lengths \cup {0}, NEW o, o.chunked = p.chunked, o.finished
  PROVE  /\ LastPieces(p, n) \in Seq(Pieces) /\ Body(LastPieces(p, n), o)
         /\ p.chunked => LastPieces(p, n) # <<>> /\ LastPieces(p, n)[Len(LastPieces(p, n))] = <<"last">>
<1> DEFINE c == Chunk(p, n)
<1>1. n # 0 => /\ c \in Pieces /\ c # <<"head">> /\ c # <<"last">> /\ (c = <<"raw">> <=> ~p.chunked)
               /\ c[1] = "chunk" /\ c[3] < 10 => c[2] = c[3]
  BY ChunkPiece
<1>2. <<"last">> \in Pieces /\ <<"last">> # <<"raw">> /\ <<"last">> # <<"head">> /\ <<"last">>[1] # "chunk"
  BY DEF Pieces
<1> HIDE DEF c
<1>3. LastPieces(p, n) = IF n = 0 THEN IF p.chunked THEN <<<<"last">>>> ELSE <<>>
                         ELSE IF p.chunked THEN <<c, <<"last">>>> ELSE <<c>>
  <2>1. CASE n = 0
    BY <2>1 DEF LastPieces
  <2>2. CASE n # 0
    <3>1. LastPieces(p, n) = <<c>> \o (IF p.chunked THEN <<<<"last">>>> ELSE <<>>)
      BY <2>2 DEF LastPieces, c
    <3> QED BY <2>2, <3>1
  <2> QED BY <2>1, <2>2
<1> QED BY <1>1, <1>2, <1>3 DEF Body

\* _storeHeader changes the header and the encoding, once.
LEMMA StoredFields ==
  ASSUME NEW o \in Outs, NEW p \in Stored(o)
  PROVE  /\ p \in Outs /\ p.header /\ (o.header => p = o)
         /\ p.headerSent = o.headerSent /\ p.output = o.output /\ p.writes = o.writes
         /\ p.finished = o.finished /\ p.finish = o.finish
<1>1. CASE o.header
  BY <1>1 DEF Stored, Outs
<1>2. CASE ~o.header
  <2>1. PICK c \in BOOLEAN : p = [o EXCEPT !.header = TRUE, !.chunked = c]
    BY <1>2 DEF Stored
  <2> QED BY <1>2, <2>1 DEF Outs
<1> QED BY <1>1, <1>2

\* What _send gives to the socket, and what it leaves in the request.
All(p, pieces) == (IF p.headerSent THEN <<>> ELSE <<<<"head">>>>) \o pieces

\* _send: on a socket that no longer takes data the pieces stay in output.
LEMMA SendFields ==
  ASSUME NEW p \in Outs, NEW pieces \in Seq(Pieces), writable \in BOOLEAN
  PROVE  /\ _send(p, pieces).pieces = IF writable THEN All(p, pieces) ELSE <<>>
         /\ _send(p, pieces).pieces \in Seq(Pieces)
         /\ _send(p, pieces).req = [p EXCEPT !.headerSent = TRUE,
                                             !.output = p.output \/ (~writable /\ All(p, pieces) # <<>>)]
         /\ _send(p, pieces).req \in Outs
<1>1. All(p, pieces) \in Seq(Pieces)
  <2>1. <<"head">> \in Pieces
    BY DEF Pieces
  <2> QED BY <2>1 DEF All
<1>2. _send(p, pieces) = [req |-> [p EXCEPT !.headerSent = TRUE,
                                            !.output = p.output \/ (~writable /\ All(p, pieces) # <<>>)],
                          pieces |-> IF writable THEN All(p, pieces) ELSE <<>>]
  BY DEF _send, All, Outs
<1>3. (p.output \/ (~writable /\ All(p, pieces) # <<>>)) \in BOOLEAN
  OBVIOUS
<1>4. [p EXCEPT !.headerSent = TRUE, !.output = p.output \/ (~writable /\ All(p, pieces) # <<>>)] \in Outs
  BY <1>3 DEF Outs
<1>5. <<>> \in Seq(Pieces)
  OBVIOUS
<1>6. _send(p, pieces).pieces = IF writable THEN All(p, pieces) ELSE <<>>
  BY <1>2
<1> QED BY <1>1, <1>2, <1>4, <1>5, <1>6

\* Socket:write puts the pieces after those that were sent.
LEMMA WriteSent ==
  ASSUME TypeOK, QueueOrWire, NEW pieces \in Seq(Pieces), SocketWrite(pieces), phase' = phase
  PROVE  /\ Sent' = Sent \o pieces /\ QueueOrWire'
         /\ queue' \in Seq(Pieces) /\ wire' \in Seq(Pieces) /\ inflight' \in BOOLEAN
<1>1. queue \in Seq(Pieces) /\ wire \in Seq(Pieces) /\ inflight \in BOOLEAN
  BY DEF TypeOK
<1>2. CASE phase = "open"
  <2>1. queue = <<>> /\ wire' = wire \o pieces /\ queue' = queue /\ inflight' = (inflight \/ pieces # <<>>)
    BY <1>2 DEF QueueOrWire, SocketWrite
  <2> QED BY <1>1, <1>2, <2>1 DEF Sent, QueueOrWire
<1>3. CASE phase # "open"
  <2>1. wire = <<>> /\ queue' = queue \o pieces /\ wire' = wire /\ inflight' = inflight
    BY <1>3 DEF QueueOrWire, SocketWrite
  <2> QED BY <1>1, <1>3, <2>1 DEF Sent, QueueOrWire
<1> QED BY <1>2, <1>3

\* A call that sends pieces of the body, and the head if it was not sent, keeps
\* the request framed.
LEMMA Sending ==
  ASSUME TypeOK, SendInv, ~out.finished,
         NEW p \in Stored(out), NEW pieces \in Seq(Pieces), NEW o \in Outs, Body(pieces, o),
         o.header, o.headerSent, o.chunked = p.chunked,
         o.output <=> p.output \/ (~writable /\ All(p, pieces) # <<>>),
         o.finish => /\ o.finished /\ ~o.output
                     /\ o.chunked => pieces # <<>> /\ pieces[Len(pieces)] = <<"last">>,
         SocketWrite(_send(p, pieces).pieces),
         out' = o, phase' = phase, writable' = writable
  PROVE  SendInv' /\ queue' \in Seq(Pieces) /\ wire' \in Seq(Pieces) /\ inflight' \in BOOLEAN
<1> DEFINE w == _send(p, pieces).pieces
           s == Sent
           S == Sent'
<1>1. /\ p \in Outs /\ (out.header => p = out) /\ out \in Outs
      /\ p.headerSent = out.headerSent /\ p.output = out.output
  BY StoredFields DEF TypeOK, Outs
<1>2. w \in Seq(Pieces) /\ w = (IF writable THEN All(p, pieces) ELSE <<>>) /\ writable \in BOOLEAN
  BY <1>1, SendFields DEF TypeOK
<1>3. S = s \o w /\ QueueOrWire' /\ queue' \in Seq(Pieces) /\ wire' \in Seq(Pieces) /\ inflight' \in BOOLEAN
  BY <1>2, WriteSent DEF SendInv
<1>4. s \in Seq(Pieces)
  BY DEF TypeOK, Sent
<1>5. /\ out.headerSent => out.header
      /\ s # <<>> => out.headerSent
      /\ out.headerSent => s # <<>> \/ out.output
      /\ out.output => ~writable
  BY DEF SendInv, HeadFirst
<1>6. Framed(s, out)
  BY DEF SendInv, RequestFramed, Framed
<1> SUFFICES /\ Framed(S, o)
             /\ S # <<>> \/ o.output
             /\ o.output => ~writable
             /\ o.finish => S # <<>> /\ (o.chunked => S[Len(S)] = <<"last">>)
  BY <1>3 DEF SendInv, HeadFirst, RequestFramed, FinishMeansSent, Framed, Sent, Last
<1> HIDE DEF w, s, S
<1>7. CASE ~writable
  <2>1. S = s
    BY <1>2, <1>3, <1>4, <1>7
  <2>2. s # <<>> => o.chunked = out.chunked
    BY <1>1, <1>5
  <2>3. Framed(s, o)
    BY <1>4, <1>6, <2>2 DEF Framed
  <2>4. All(p, pieces) = <<>> => p.headerSent /\ pieces = <<>>
    BY DEF All
  <2>5. s # <<>> \/ o.output
    BY <1>1, <1>5, <1>7, <2>4
  <2>6. o.finish => s # <<>> /\ ~o.chunked
    BY <1>7, <2>4, <2>5
  <2> QED BY <1>7, <2>1, <2>3, <2>5, <2>6
<1>8. CASE writable /\ p.headerSent
  <2>1. w = pieces /\ S = s \o pieces
    BY <1>2, <1>3, <1>8 DEF All
  <2>2. s # <<>> /\ o.chunked = out.chunked
    BY <1>1, <1>5, <1>8
  <2>3. Framed(s \o pieces, o)
    BY <1>4, <1>6, <2>2, FramedMore
  <2>4. pieces # <<>> => (s \o pieces)[Len(s \o pieces)] = pieces[Len(pieces)]
    BY <1>4
  <2>5. s \o pieces # <<>>
    BY <1>4, <2>2
  <2> QED BY <1>1, <1>5, <1>8, <2>1, <2>3, <2>4, <2>5
<1>9. CASE writable /\ ~p.headerSent
  <2>1. s = <<>> /\ ~p.output
    BY <1>1, <1>5, <1>9
  <2>2. S = <<<<"head">>>> \o pieces
    BY <1>2, <1>3, <1>9, <2>1 DEF All
  <2>3. Framed(<<<<"head">>>> \o pieces, o)
    BY FramedStart
  <2>4. pieces # <<>> => (<<<<"head">>>> \o pieces)[Len(<<<<"head">>>> \o pieces)] = pieces[Len(pieces)]
    OBVIOUS
  <2>5. <<<<"head">>>> \o pieces # <<>>
    OBVIOUS
  <2> QED BY <1>9, <2>1, <2>2, <2>3, <2>4, <2>5
<1> QED BY <1>2, <1>7, <1>8, <1>9

\* SendInv depends on the queue, the wire, the request, whether the socket is
\* open and, one way, whether it is writable.
LEMMA SendKept ==
  ASSUME SendInv, queue' = queue, wire' = wire, out' = out,
         phase' = phase \/ (phase # "open" /\ phase' # "open"), writable' => writable
  PROVE  SendInv'
BY DEF SendInv, QueueOrWire, HeadFirst, RequestFramed, FinishMeansSent, Sent

\* The other parts where nothing of theirs changes.
LEMMA TicksKept ==
  ASSUME TicksOnce, ticks' = ticks, closed' = closed, destroyed' = destroyed,
         phase' = phase \/ phase' = "failed"
  PROVE  TicksOnce'
BY DEF TicksOnce

\* The tokens of the head; a parser that failed has none to add.
LEMMA TokensKept ==
  ASSUME TokensOwn, UNCHANGED <<headers, current_field, response, msg>>,
         parser' = parser \/ parser' = "dead"
  PROVE  TokensOwn'
BY DEF TokensOwn, Own

\* OutgoingMessage:write.
LEMMA WriteInv ==
  ASSUME Inv, NEW n \in Lengths, write(n)
  PROVE  Inv'
<1> USE DEF Inv
<1>1. PICK p \in Stored(out) :
        /\ out' = [_send(p, <<Chunk(p, n)>>).req EXCEPT !.writes = @ + 1]
        /\ SocketWrite(_send(p, <<Chunk(p, n)>>).pieces)
  BY DEF write
<1>2. /\ ~out.finished /\ out.writes < MaxWrites
      /\ UNCHANGED <<phase, destroyed, writable, reading, shutting, ticks, reply, told>>
  BY DEF write
<1> DEFINE pieces == <<Chunk(p, n)>>
           r == _send(p, pieces).req
<1>3. /\ p \in Outs /\ p.header /\ out \in Outs /\ p.output = out.output /\ p.writes = out.writes
      /\ p.finished = out.finished /\ p.finish = out.finish
  BY StoredFields DEF TypeOK, Outs
<1>4. pieces \in Seq(Pieces)
  BY <1>3, WriteBody
<1>5. /\ r = [p EXCEPT !.headerSent = TRUE, !.output = p.output \/ (~writable /\ All(p, pieces) # <<>>)]
      /\ r \in Outs
  BY <1>3, <1>4, SendFields DEF TypeOK
<1>6. MaxWrites \in Nat
  BY BoundsAssumption
<1> HIDE DEF pieces
<1>7. /\ out' \in Outs /\ out'.header /\ out'.headerSent /\ out'.chunked = p.chunked /\ ~out'.finish
      /\ out'.output <=> p.output \/ (~writable /\ All(p, pieces) # <<>>)
  <2>1. r.writes = out.writes /\ r.header /\ r.headerSent /\ r.chunked = p.chunked /\ r.finish = out.finish
    BY <1>3, <1>5 DEF Outs
  <2>2. ~out.finish
    BY <1>2 DEF SendInv, HeadFirst
  <2>3. r.output <=> p.output \/ (~writable /\ All(p, pieces) # <<>>)
    BY <1>3, <1>5 DEF Outs
  <2> HIDE DEF r
  <2>4. out' = [r EXCEPT !.writes = r.writes + 1]
    BY <1>1, <1>5 DEF r, pieces, Outs
  <2>5. out.writes \in 0..MaxWrites
    BY DEF TypeOK
  <2>6. r.writes + 1 \in 0..MaxWrites
    BY <1>2, <1>6, <2>1, <2>5
  <2>7. /\ out' \in Outs /\ out'.header = r.header /\ out'.headerSent = r.headerSent
        /\ out'.chunked = r.chunked /\ out'.finish = r.finish /\ out'.output = r.output
    BY <1>5, <2>4, <2>6, ZenonT(60) DEF Outs
  <2> QED BY <2>1, <2>2, <2>3, <2>7
<1>8. Body(pieces, out')
  BY <1>3, <1>7, WriteBody DEF pieces
<1>9. SendInv' /\ queue' \in Seq(Pieces) /\ wire' \in Seq(Pieces) /\ inflight' \in BOOLEAN
  BY <1>1, <1>2, <1>4, <1>7, <1>8, Sending DEF pieces
<1>10. TypeOK'
  BY <1>2, <1>7, <1>9 DEF TypeOK, Outs, reply, told
<1> QED BY <1>2, <1>9, <1>10, TicksKept, TokensKept DEF reply, told

\* OutgoingMessage:done.
LEMMA DoneInv ==
  ASSUME Inv, NEW n \in Lengths \cup {0}, done(n)
  PROVE  Inv'
<1> USE DEF Inv
<1>1. PICK p \in Stored(out) :
        /\ out' = [_send(p, LastPieces(p, n)).req EXCEPT
                     !.finished = TRUE, !.finish = ~_send(p, LastPieces(p, n)).req.output]
        /\ SocketWrite(_send(p, LastPieces(p, n)).pieces)
  BY DEF done
<1>2. ~out.finished /\ UNCHANGED <<phase, destroyed, writable, reading, shutting, ticks, reply, told>>
  BY DEF done
<1> DEFINE pieces == LastPieces(p, n)
           r == _send(p, pieces).req
           o == [p EXCEPT !.finished = TRUE]
<1>3. p \in Outs /\ p.header
  BY StoredFields DEF TypeOK, Outs
<1>4. /\ pieces \in Seq(Pieces) /\ (p.chunked => pieces # <<>> /\ pieces[Len(pieces)] = <<"last">>)
      /\ Body(pieces, o)
  BY <1>3, DoneBody DEF Outs
<1>5. /\ r = [p EXCEPT !.headerSent = TRUE, !.output = p.output \/ (~writable /\ All(p, pieces) # <<>>)]
      /\ r \in Outs
  BY <1>3, <1>4, SendFields DEF TypeOK
<1> HIDE DEF pieces
<1>6. /\ out' \in Outs /\ out'.header /\ out'.headerSent /\ out'.chunked = p.chunked
      /\ out'.finished /\ (out'.finish => ~out'.output)
      /\ out'.output <=> p.output \/ (~writable /\ All(p, pieces) # <<>>)
  <2>1. r.header /\ r.headerSent /\ r.chunked = p.chunked
    BY <1>3, <1>5 DEF Outs
  <2>2. r.output <=> p.output \/ (~writable /\ All(p, pieces) # <<>>)
    BY <1>3, <1>5 DEF Outs
  <2> HIDE DEF r
  <2>3. out' = [r EXCEPT !.finished = TRUE, !.finish = ~r.output]
    BY <1>1 DEF r, pieces
  <2>4. /\ out' \in Outs /\ out'.header = r.header /\ out'.headerSent = r.headerSent
        /\ out'.chunked = r.chunked /\ out'.finished /\ out'.finish = ~r.output /\ out'.output = r.output
    BY <1>5, <2>3, ZenonT(60) DEF Outs
  <2> QED BY <2>1, <2>2, <2>4
<1>7. Body(pieces, out')
  BY <1>3, <1>4, <1>6, DoneBody DEF pieces
<1>8. SendInv' /\ queue' \in Seq(Pieces) /\ wire' \in Seq(Pieces) /\ inflight' \in BOOLEAN
  BY <1>1, <1>2, <1>4, <1>6, <1>7, Sending DEF pieces
<1>9. TypeOK'
  BY <1>2, <1>6, <1>8 DEF TypeOK, Outs, reply, told
<1> QED BY <1>2, <1>8, <1>9, TicksKept, TokensKept DEF reply, told

-----------------------------------------------------------------------------
\* The socket.

\* Short sequences.
LEMMA ShortSeqs ==
  ASSUME NEW S, NEW b \in S, NEW c \in S
  PROVE  /\ Append(<<>>, c) = <<c>> /\ Append(<<b>>, c) = <<b, c>>
         /\ Tail(<<c>>) = <<>> /\ Tail(<<b, c>>) = <<c>> /\ Head(<<c>>) = c /\ Head(<<b, c>>) = b
<1>1. Append(<<b>>, c) = <<b, c>>
  <2> DEFINE s == <<b>>
             t == Append(s, c)
  <2>1. s \in Seq(S) /\ Len(s) = 1 /\ s[1] = b
    OBVIOUS
  <2> HIDE DEF s
  <2>2. t \in Seq(S) /\ Len(t) = Len(s) + 1
    BY <2>1, AppendProperties
  <2>3. t[1] = b /\ t[2] = c
    BY <2>1
  <2> HIDE DEF t
  <2>4. t = <<b, c>>
    BY <2>1, <2>2, <2>3
  <2> QED BY <2>4 DEF s, t
<1> QED BY <1>1

\* Socket:destroy and the ticks: a socket is destroyed once.
LEMMA DestroyTicks ==
  ASSUME TypeOK, TicksOnce, NEW x \in BOOLEAN, Destroy(x), closed' = closed,
         phase' = phase \/ phase' = "failed"
  PROVE  TicksOnce' /\ ticks' \in Seq({"lookup", "close", "errorClose"}) /\ Len(ticks') <= 2
<1>1. CASE destroyed
  BY <1>1 DEF Destroy, TicksOnce, TypeOK
<1>2. CASE ~destroyed
  <2>1. PICK c \in {"close", "errorClose"} : ticks' = Append(ticks, c)
    BY <1>2 DEF Destroy
  <2>2. (ticks = <<>> \/ (ticks = <<"lookup">> /\ phase = "failed")) /\ closed = 0 /\ destroyed'
    BY <1>2 DEF TicksOnce, Destroy
  <2>3. CASE ticks = <<>>
    <3>1. ticks' = <<c>>
      BY <2>1, <2>3
    <3> QED BY <2>2, <3>1 DEF TicksOnce
  <2>4. CASE ticks = <<"lookup">> /\ phase = "failed"
    <3>1. Append(<<"lookup">>, c) = <<"lookup", c>>
      <4>1. "lookup" \in {"lookup", "close", "errorClose"} /\ c \in {"lookup", "close", "errorClose"}
        OBVIOUS
      <4> QED BY <4>1, ShortSeqs
    <3>2. ticks' = <<"lookup", c>> /\ phase' = "failed"
      BY <2>1, <2>4, <3>1
    <3> QED BY <2>2, <3>2 DEF TicksOnce
  <2> QED BY <2>2, <2>3, <2>4
<1> QED BY <1>1, <1>2 DEF TypeOK

\* The type of the socket's variables and of what the program was told.
SockType ==
  /\ phase \in {"lookup", "connecting", "open", "failed"}
  /\ destroyed \in BOOLEAN /\ writable \in BOOLEAN /\ reading \in BOOLEAN /\ shutting \in BOOLEAN
  /\ inflight \in BOOLEAN
  /\ queue \in Seq(Pieces) /\ wire \in Seq(Pieces)
  /\ ticks \in Seq({"lookup", "close", "errorClose"}) /\ Len(ticks) <= 2
  /\ hadError \in BOOLEAN /\ errors \subseteq {"socket", "hangup", "parse"} /\ closed \in 0..1

\* The types are kept by a step of the socket that keeps the types of its own.
LEMMA SockTypeOK ==
  ASSUME TypeOK, UNCHANGED <<out, reply, hadResponse>>
  PROVE  SockType /\ (SockType' => TypeOK')
<1>1. SockType
  BY DEF TypeOK, SockType
<1>2. /\ out' = out /\ hadResponse' = hadResponse /\ executing' = executing /\ parser' = parser
      /\ headers' = headers /\ current_field' = current_field /\ response' = response /\ msg' = msg
  BY DEF reply
<1> QED BY <1>1, <1>2, ZenonT(60) DEF TypeOK, SockType

\* The program's destroy, and the calls together.
LEMMA CallsInv ==
  ASSUME Inv, Calls
  PROVE  Inv'
<1>1. ASSUME NEW x \in BOOLEAN, destroy(x) PROVE Inv'
  <2>1. /\ Destroy(x) /\ UNCHANGED <<phase, shutting, queue, wire, inflight, out, reply, told>>
    BY <1>1 DEF destroy
  <2>2. TicksOnce' /\ ticks' \in Seq({"lookup", "close", "errorClose"}) /\ Len(ticks') <= 2
    BY <2>1, DestroyTicks DEF Inv, told
  <2>3. destroyed' = TRUE /\ writable' = FALSE /\ reading' = FALSE
    BY <2>1 DEF Destroy
  <2>4. SockType
    BY <2>1, SockTypeOK DEF Inv, told
  <2>5. SockType'
    BY <2>1, <2>2, <2>3, <2>4, Zenon DEF SockType, told
  <2>6. TypeOK'
    BY <2>1, <2>5, SockTypeOK DEF Inv, told
  <2> QED BY <2>1, <2>2, <2>3, <2>6, SendKept, TokensKept DEF Inv, reply, told
<1> QED BY <1>1, WriteInv, DoneInv DEF Calls

\* A tick given to nextTick before the lookup is answered, and the next tick.
LEMMA LookupTicks ==
  ASSUME TypeOK, TicksOnce, phase = "lookup", phase' = "failed", ticks' = Append(ticks, "lookup"),
         closed' = closed, destroyed' = destroyed
  PROVE  TicksOnce' /\ ticks' \in Seq({"lookup", "close", "errorClose"}) /\ Len(ticks') <= 2
<1> DEFINE Ticks == {"lookup", "close", "errorClose"}
<1>1. ticks = <<>> \/ \E c \in {"close", "errorClose"} : ticks = <<c>>
  BY DEF TicksOnce
<1>2. CASE ticks = <<>>
  <2>1. ticks' = <<"lookup">>
    BY <1>2
  <2> QED BY <1>2, <2>1 DEF TicksOnce
<1>3. ASSUME NEW c \in {"close", "errorClose"}, ticks = <<c>> PROVE TicksOnce' /\ ticks' \in Seq(Ticks) /\ Len(ticks') <= 2
  <2>1. "lookup" \in Ticks /\ c \in Ticks
    OBVIOUS
  <2>2. ticks' = <<c, "lookup">>
    <3> HIDE DEF Ticks
    <3> QED BY <1>3, <2>1, ShortSeqs
  <2>3. destroyed /\ closed = 0
    BY <1>3 DEF TicksOnce
  <2>4. TicksOnce'
    BY <2>2, <2>3 DEF TicksOnce
  <2>5. <<c, "lookup">> \in Seq(Ticks) /\ Len(<<c, "lookup">>) <= 2
    OBVIOUS
  <2> QED BY <2>2, <2>4, <2>5
<1> QED BY <1>1, <1>2, <1>3

\* The head of the ticks is run.
LEMMA NextTick ==
  ASSUME TypeOK, TicksOnce, ticks # <<>>
  PROVE  \/ /\ Head(ticks) = "lookup" /\ phase = "failed"
            /\ \/ Tail(ticks) = <<>> /\ closed = IF destroyed THEN 1 ELSE 0
               \/ destroyed /\ closed = 0 /\ \E c \in {"close", "errorClose"} : Tail(ticks) = <<c>>
         \/ /\ Head(ticks) \in {"close", "errorClose"} /\ destroyed /\ closed = 0
            /\ Tail(ticks) = <<>> \/ (Tail(ticks) = <<"lookup">> /\ phase = "failed")
<1> DEFINE Ticks == {"lookup", "close", "errorClose"}
<1>1. CASE ticks = <<"lookup">> /\ phase = "failed" /\ closed = IF destroyed THEN 1 ELSE 0
  BY <1>1
<1>2. ASSUME NEW c \in {"close", "errorClose"}, destroyed, closed = 0,
             ticks = <<c>> \/ (phase = "failed" /\ ticks \in {<<c, "lookup">>, <<"lookup", c>>})
      PROVE  \/ /\ Head(ticks) = "lookup" /\ phase = "failed" /\ Tail(ticks) = <<c>>
             \/ /\ Head(ticks) = c
                /\ Tail(ticks) = <<>> \/ (Tail(ticks) = <<"lookup">> /\ phase = "failed")
  <2>1. "lookup" \in Ticks /\ c \in Ticks
    OBVIOUS
  <2>2. /\ Tail(<<c>>) = <<>> /\ Head(<<c>>) = c
        /\ Tail(<<c, "lookup">>) = <<"lookup">> /\ Head(<<c, "lookup">>) = c
        /\ Tail(<<"lookup", c>>) = <<c>> /\ Head(<<"lookup", c>>) = "lookup"
    <3> HIDE DEF Ticks
    <3> QED BY <2>1, ShortSeqs
  <2>3. CASE ticks = <<c>>
    BY <2>2, <2>3
  <2>4. CASE phase = "failed" /\ ticks = <<c, "lookup">>
    BY <2>2, <2>4
  <2>5. CASE phase = "failed" /\ ticks = <<"lookup", c>>
    BY <2>2, <2>5
  <2> QED BY <1>2, <2>3, <2>4, <2>5
<1> QED BY <1>1, <1>2 DEF TicksOnce

\* What is left of the ticks when one has run, of a socket that is destroyed.
LEMMA TicksLeft ==
  ASSUME destroyed' = TRUE,
         \/ closed' = 1 /\ (ticks' = <<>> \/ (ticks' = <<"lookup">> /\ phase' = "failed"))
         \/ closed' = 0 /\ \E c \in {"close", "errorClose"} : ticks' = <<c>>
  PROVE  TicksOnce' /\ ticks' \in Seq({"lookup", "close", "errorClose"}) /\ Len(ticks') <= 2
<1>1. TicksOnce'
  BY DEF TicksOnce
<1>2. <<>> \in Seq({"lookup", "close", "errorClose"}) /\ Len(<<>>) <= 2
  OBVIOUS
<1>3. \A c \in {"lookup", "close", "errorClose"} :
        <<c>> \in Seq({"lookup", "close", "errorClose"}) /\ Len(<<c>>) <= 2
  OBVIOUS
<1> QED BY <1>1, <1>2, <1>3, Zenon

\* The lookup, and the connection.
LEMMA LookupInv ==
  ASSUME Inv, lookupFails \/ \E b \in BOOLEAN : lookupAnswers(b)
  PROVE  Inv'
<1>1. /\ phase = "lookup" /\ phase' \in {"connecting", "failed"}
      /\ UNCHANGED <<shutting, queue, wire, inflight, out, reply, told>>
  BY DEF lookupFails, lookupAnswers
<1> DEFINE Ticked ==
      /\ TicksOnce' /\ ticks' \in Seq({"lookup", "close", "errorClose"}) /\ Len(ticks') <= 2
      /\ \/ UNCHANGED <<destroyed, writable, reading>>
         \/ destroyed' = TRUE /\ writable' = FALSE /\ reading' = FALSE
<1>2. Ticked
  <2>1. CASE lookupFails
    BY <1>1, <2>1, LookupTicks DEF Inv, lookupFails, told
  <2>2. ASSUME NEW b \in BOOLEAN, lookupAnswers(b), b \/ destroyed PROVE Ticked
    <3>1. UNCHANGED <<destroyed, writable, reading, ticks>> /\ phase = "lookup" /\ phase' \in {"connecting", "failed"}
      BY <2>2 DEF lookupAnswers
    <3>2. TicksOnce'
      BY <1>1, <3>1 DEF Inv, TicksOnce, told
    <3> QED BY <3>1, <3>2 DEF Inv, TypeOK
  <2>3. ASSUME NEW b \in BOOLEAN, lookupAnswers(b), ~b, ~destroyed PROVE Ticked
    <3>1. Destroy(FALSE) /\ phase' = "failed"
      BY <2>3 DEF lookupAnswers
    <3> QED BY <1>1, <3>1, DestroyTicks DEF Inv, told, Destroy
  <2> QED BY <2>1, <2>2, <2>3
<1>3. SockType
  BY <1>1, SockTypeOK DEF Inv, told
<1>4. SockType'
  BY <1>1, <1>2, <1>3, Zenon DEF SockType, told
<1>5. TypeOK'
  BY <1>1, <1>4, SockTypeOK DEF Inv, told
<1>6. writable' => writable
  BY <1>2
<1> QED BY <1>1, <1>2, <1>5, <1>6, SendKept, TokensKept DEF Inv, reply, told

\* The handle's "connect": what waited is what was sent.
LEMMA ConnectedInv ==
  ASSUME Inv, connected
  PROVE  Inv'
<1>1. /\ phase = "connecting" /\ phase' = "open" /\ wire' = queue /\ queue' = <<>>
      /\ inflight' = (queue # <<>>) /\ reading' = TRUE
      /\ UNCHANGED <<destroyed, writable, shutting, ticks, out, reply, told>>
  BY DEF connected
<1>2. queue \in Seq(Pieces) /\ wire \in Seq(Pieces) /\ wire = <<>>
  BY <1>1 DEF Inv, TypeOK, SendInv, QueueOrWire
<1>3. Sent' = Sent
  BY <1>1, <1>2 DEF Sent
<1>4. SendInv'
  BY <1>1, <1>3 DEF Inv, SendInv, QueueOrWire, HeadFirst, RequestFramed, FinishMeansSent
<1>5. TicksOnce'
  BY <1>1 DEF Inv, TicksOnce, told
<1>6. SockType
  BY <1>1, SockTypeOK DEF Inv, told
<1>7. <<>> \in Seq(Pieces)
  OBVIOUS
<1>8. SockType'
  BY <1>1, <1>2, <1>6, <1>7, Zenon DEF SockType, told
<1>9. TypeOK'
  BY <1>1, <1>8, SockTypeOK DEF Inv, told
<1> QED BY <1>1, <1>4, <1>5, <1>9, TokensKept DEF Inv, reply, told

\* An error of the socket is emitted on the request.
LEMMA ErrorTold ==
  ASSUME TypeOK, OnSocketError
  PROVE  hadError' \in BOOLEAN /\ errors' \subseteq {"socket", "hangup", "parse"}
BY DEF TypeOK, OnSocketError

\* The errors: of the connection, of a write and of a read.
LEMMA ErrorsInv ==
  ASSUME Inv, readFails \/ \E b \in BOOLEAN : connectFails(b) \/ writeReturns(b)
  PROVE  Inv'
<1>1. /\ phase' = phase \/ (phase = "connecting" /\ phase' = "failed")
      /\ UNCHANGED <<shutting, queue, wire, out, reply, hadResponse, closed>>
      /\ inflight' = inflight \/ inflight' = FALSE
      /\ OnSocketError \/ UNCHANGED <<hadError, errors>>
  BY DEF readFails, connectFails, writeReturns
<1> DEFINE Ticked ==
      /\ TicksOnce' /\ ticks' \in Seq({"lookup", "close", "errorClose"}) /\ Len(ticks') <= 2
      /\ destroyed' = destroyed \/ destroyed' = TRUE
      /\ writable' = writable \/ writable' = FALSE
      /\ reading' = reading \/ reading' = FALSE
<1>2. Ticked
  <2>1. ASSUME connectFails(TRUE) PROVE Ticked
    <3>1. Destroy(TRUE) \/ Destroy(FALSE)
      BY <2>1 DEF connectFails
    <3> QED BY <1>1, <2>1, <3>1, DestroyTicks DEF Inv, Destroy
  <2>2. ASSUME ~connectFails(TRUE) PROVE Ticked
    <3>1. /\ UNCHANGED <<destroyed, writable, ticks>>
          /\ reading' = reading \/ reading' = FALSE
      BY <2>2 DEF readFails, connectFails, writeReturns
    <3> QED BY <1>1, <3>1, TicksKept DEF Inv, TypeOK
  <2> QED BY <2>1, <2>2
<1>3. /\ hadError' \in BOOLEAN /\ errors' \subseteq {"socket", "hangup", "parse"}
  <2>1. CASE OnSocketError
    BY <1>1, <2>1, ErrorTold DEF Inv
  <2>2. CASE UNCHANGED <<hadError, errors>>
    BY <1>1, <2>2 DEF Inv, TypeOK
  <2> QED BY <1>1, <2>1, <2>2
<1>4. SockType
  BY <1>1, SockTypeOK DEF Inv
<1>5. SockType'
  BY <1>1, <1>2, <1>3, <1>4, Zenon DEF SockType
<1>6. TypeOK'
  BY <1>1, <1>5, SockTypeOK DEF Inv
<1>7. writable' => writable
  BY <1>2
<1> QED BY <1>1, <1>2, <1>3, <1>6, <1>7, SendKept, TokensKept DEF Inv, reply

\* The server's end, and the shutdown.
LEMMA EndInv ==
  ASSUME Inv, socketEnd \/ shutdownReturns
  PROVE  Inv'
<1>1. UNCHANGED <<phase, queue, wire, inflight, out, reply, told>>
  BY DEF socketEnd, shutdownReturns
<1> DEFINE Ticked ==
      /\ TicksOnce' /\ ticks' \in Seq({"lookup", "close", "errorClose"}) /\ Len(ticks') <= 2
      /\ destroyed' = destroyed \/ destroyed' = TRUE
      /\ writable' = FALSE /\ reading' = FALSE /\ (shutting' = TRUE \/ shutting' = FALSE)
<1>2. Ticked
  <2>1. CASE socketEnd
    BY <1>1, <2>1, TicksKept DEF Inv, TypeOK, socketEnd, told
  <2>2. CASE shutdownReturns
    <3>1. Destroy(FALSE) /\ shutting' = FALSE
      BY <2>2 DEF shutdownReturns
    <3> QED BY <1>1, <3>1, DestroyTicks DEF Inv, Destroy, told
  <2> QED BY <2>1, <2>2
<1>3. SockType
  BY <1>1, SockTypeOK DEF Inv, told
<1>4. SockType'
  BY <1>1, <1>2, <1>3, Zenon DEF SockType, told
<1>5. TypeOK'
  BY <1>1, <1>4, SockTypeOK DEF Inv, told
<1>6. writable' => writable
  BY <1>2
<1> QED BY <1>1, <1>2, <1>5, <1>6, SendKept, TokensKept DEF Inv, reply, told

\* The tick of the failed lookup.
LEMMA LookupTickInv ==
  ASSUME Inv, lookupTick
  PROVE  Inv'
<1>1. /\ ticks # <<>> /\ Head(ticks) = "lookup" /\ OnSocketError
      /\ destroyed' = TRUE /\ writable' = FALSE
      /\ ticks' = IF destroyed THEN Tail(ticks) ELSE Append(Tail(ticks), "close")
      /\ UNCHANGED <<phase, reading, shutting, queue, wire, inflight, out, reply, hadResponse, closed>>
  BY DEF lookupTick
<1>2. \/ Tail(ticks) = <<>> /\ closed = IF destroyed THEN 1 ELSE 0
      \/ destroyed /\ closed = 0 /\ \E c \in {"close", "errorClose"} : Tail(ticks) = <<c>>
  BY <1>1, NextTick DEF Inv
<1>3. \/ ticks' = <<>> /\ closed = 1
      \/ closed = 0 /\ \E c \in {"close", "errorClose"} : ticks' = <<c>>
  <2>1. Append(<<>>, "close") = <<"close">>
    OBVIOUS
  <2> QED BY <1>1, <1>2, <2>1
<1>4. TicksOnce' /\ ticks' \in Seq({"lookup", "close", "errorClose"}) /\ Len(ticks') <= 2
  BY <1>1, <1>3, TicksLeft
<1>5. /\ hadError' \in BOOLEAN /\ errors' \subseteq {"socket", "hangup", "parse"}
  BY <1>1, ErrorTold DEF Inv
<1>6. SockType
  BY <1>1, SockTypeOK DEF Inv
<1>7. SockType'
  BY <1>1, <1>4, <1>5, <1>6, Zenon DEF SockType
<1>8. TypeOK'
  BY <1>1, <1>7, SockTypeOK DEF Inv
<1> QED BY <1>1, <1>4, <1>5, <1>8, SendKept, TokensKept DEF Inv, reply

\* The tick of destroy: ClientRequest:onSocketClose.
LEMMA CloseTickInv ==
  ASSUME Inv, closeTick
  PROVE  Inv'
<1>1. /\ ticks # <<>> /\ Head(ticks) # "lookup" /\ ticks' = Tail(ticks)
      /\ onSocketClose(Head(ticks) = "errorClose")
      /\ UNCHANGED <<phase, destroyed, writable, reading, shutting, queue, wire, inflight, out, reply, hadResponse>>
  BY DEF closeTick
<1>2. /\ destroyed /\ closed = 0
      /\ Tail(ticks) = <<>> \/ (Tail(ticks) = <<"lookup">> /\ phase = "failed")
  BY <1>1, NextTick DEF Inv
<1>3. closed' = 1
  BY <1>1, <1>2 DEF onSocketClose
<1>4. TicksOnce' /\ ticks' \in Seq({"lookup", "close", "errorClose"}) /\ Len(ticks') <= 2
  <2>1. destroyed' = TRUE
    BY <1>1, <1>2 DEF Inv, TypeOK
  <2> QED BY <1>1, <1>2, <1>3, <2>1, TicksLeft
<1>5. hadError' \in BOOLEAN /\ errors' \subseteq {"socket", "hangup", "parse"}
  <2> DEFINE failed == Head(ticks) = "errorClose"
  <2>1. /\ hadError' = (hadError \/ failed)
        /\ errors' = errors \cup (IF failed THEN {"socket"} ELSE {})
                            \cup (IF ~hadError' /\ ~hadResponse THEN {"hangup"} ELSE {})
    BY <1>1 DEF onSocketClose
  <2>2. errors \subseteq {"socket", "hangup", "parse"}
    BY DEF Inv, TypeOK
  <2> HIDE DEF failed
  <2>3. hadError' \in BOOLEAN
    BY <2>1, Zenon
  <2> QED BY <2>1, <2>2, <2>3
<1>7. SockType
  BY <1>1, SockTypeOK DEF Inv
<1>8. closed' \in 0..1
  BY <1>3
<1>9. SockType'
  BY <1>1, <1>4, <1>5, <1>7, <1>8, Zenon DEF SockType
<1>10. TypeOK'
  BY <1>1, <1>9, SockTypeOK DEF Inv
<1> QED BY <1>1, <1>4, <1>10, SendKept, TokensKept DEF Inv, reply

-----------------------------------------------------------------------------
\* The response.

\* The type of what the parser's callbacks change.
Msgs == [n : 0..MaxMessages, headed : BOOLEAN, cut : BOOLEAN, fields : 0..MaxFields]
Replies == [headers : SUBSET (Tokens \X Tokens), events : SUBSET {"data", "end"}]

\* The variables of the response.
ReplyType ==
  /\ executing \in BOOLEAN
  /\ parser \in {"start", "fields", "fieldCut", "value", "valueCut", "body", "eofBody", "closed", "dead"}
  /\ headers \in SUBSET (Tokens \X Tokens)
  /\ current_field \in {<<>>} \cup Tokens
  /\ response \in Replies /\ msg \in Msgs
  /\ hadResponse \in BOOLEAN /\ errors \subseteq {"socket", "hangup", "parse"}

\* The types are kept by a step of the parser that keeps the types of its own.
LEMMA ReplyTypeOK ==
  ASSUME TypeOK, UNCHANGED <<sock, out, hadError, closed>>
  PROVE  ReplyType /\ (ReplyType' => TypeOK')
<1>1. ReplyType
  BY DEF TypeOK, ReplyType, Msgs, Replies
<1>2. /\ phase' = phase /\ destroyed' = destroyed /\ writable' = writable /\ reading' = reading
      /\ shutting' = shutting /\ queue' = queue /\ wire' = wire /\ inflight' = inflight /\ ticks' = ticks
      /\ out' = out /\ hadError' = hadError /\ closed' = closed
  BY DEF sock
<1> QED BY <1>1, <1>2, ZenonT(60) DEF TypeOK, ReplyType, Msgs, Replies

\* A callback of the parser that keeps the types and the tokens of the head.
LEMMA ParserStep ==
  ASSUME Inv, UNCHANGED <<sock, out, hadError, closed>>, ReplyType', TokensOwn'
  PROVE  Inv'
<1>1. TypeOK'
  BY ReplyTypeOK DEF Inv
<1>2. SendInv' /\ TicksOnce'
  BY SendKept, TicksKept DEF Inv, sock
<1> QED BY <1>1, <1>2 DEF Inv

\* execute begins and returns.
LEMMA ExecuteInv ==
  ASSUME Inv, lhttp_parser_execute \/ \E b \in BOOLEAN : lhttp_parser_return(b)
  PROVE  Inv'
<1>1. /\ UNCHANGED <<sock, out, hadError, closed, hadResponse, headers, current_field, response, msg>>
      /\ parser' = parser \/ parser' = "dead"
      /\ errors' = errors \/ errors' = errors \cup {"parse"}
      /\ executing' = TRUE \/ executing' = FALSE
  BY DEF lhttp_parser_execute, lhttp_parser_return, told
<1>2. ReplyType
  BY <1>1, ReplyTypeOK DEF Inv
<1>3. errors' \subseteq {"socket", "hangup", "parse"} /\ errors \subseteq errors'
  BY <1>1, <1>2 DEF ReplyType
<1>4. ReplyType'
  BY <1>1, <1>2, <1>3, Zenon DEF ReplyType
<1>5. TokensOwn'
  BY <1>1, TokensKept DEF Inv
<1> QED BY <1>1, <1>3, <1>4, <1>5, ParserStep

\* A message begins.
LEMMA BeginInv ==
  ASSUME Inv, lhttp_parser_on_message_begin
  PROVE  Inv'
<1>1. /\ UNCHANGED <<sock, out, current_field, response, told>> /\ executing' = TRUE
      /\ msg.n < MaxMessages /\ parser' = "fields" /\ headers' = {}
      /\ msg' = [msg EXCEPT !.n = @ + 1, !.headed = FALSE, !.cut = FALSE]
  BY DEF lhttp_parser_on_message_begin, Parse, onMessageBegin
<1>2. ReplyType
  BY <1>1, ReplyTypeOK DEF Inv, told
<1>3. msg' \in Msgs /\ msg'.n = msg.n + 1 /\ ~msg'.headed
  <2>1. MaxMessages \in Nat /\ msg \in Msgs
    BY <1>2, BoundsAssumption DEF ReplyType
  <2>2. msg.n + 1 \in 0..MaxMessages
    BY <1>1, <2>1 DEF Msgs
  <2>3. msg' = [msg EXCEPT !.n = msg.n + 1, !.headed = FALSE, !.cut = FALSE]
    BY <1>1
  <2> QED BY <2>1, <2>2, <2>3 DEF Msgs
<1>4. ReplyType'
  BY <1>1, <1>2, <1>3, Zenon DEF ReplyType, told
<1>5. TokensOwn'
  BY <1>1, <1>2, <1>3 DEF TokensOwn, ReplyType, Msgs
<1> QED BY <1>1, <1>4, <1>5, ParserStep DEF told

\* A field, or a part of one.
LEMMA FieldInv ==
  ASSUME Inv, NEW part \in {"whole", "first", "rest"}, lhttp_parser_on_header_field(part)
  PROVE  Inv'
<1> DEFINE token == <<msg.n, part>>
<1>1. /\ UNCHANGED <<sock, out, headers, response, told>>
      /\ executing' = (part # "first")
      /\ part \in IF parser = "fieldCut" THEN {"rest"} ELSE {"whole", "first"}
      /\ \/ parser = "fieldCut"
         \/ parser \in {"fields", "body"} /\ msg.fields < MaxFields
      /\ parser' = IF part = "first" THEN "fieldCut" ELSE "value"
      /\ msg' = [msg EXCEPT !.fields = IF part = "rest" THEN @ ELSE @ + 1, !.cut = @ \/ part = "first"]
      /\ current_field' = token
  BY DEF lhttp_parser_on_header_field, Parse, Parts, onHeaderField
<1>2. ReplyType
  BY <1>1, ReplyTypeOK DEF Inv, told
<1>3. /\ msg' \in Msgs /\ msg'.n = msg.n /\ msg'.headed = msg.headed
      /\ msg'.cut <=> msg.cut \/ part = "first"
  <2> DEFINE f == IF part = "rest" THEN msg.fields ELSE msg.fields + 1
             c == msg.cut \/ part = "first"
  <2>1. msg \in Msgs
    BY <1>2 DEF ReplyType
  <2>2. f \in 0..MaxFields
    BY <1>1, <2>1, BoundsAssumption DEF Msgs
  <2>3. c \in BOOLEAN
    BY Zenon
  <2>4. msg' = [msg EXCEPT !.fields = f, !.cut = c]
    BY <1>1, <2>1 DEF Msgs
  <2> HIDE DEF f, c
  <2>5. msg' \in Msgs /\ msg'.n = msg.n /\ msg'.headed = msg.headed /\ msg'.cut = c
    BY <2>1, <2>2, <2>3, <2>4 DEF Msgs
  <2> QED BY <2>5 DEF c
<1>4. msg.n \in 1..MaxMessages /\ msg.n > 0
  BY <1>1, <1>2 DEF Inv, TokensOwn, ReplyType, Msgs
<1>5. token \in Tokens
  BY <1>4 DEF Tokens
<1>6. part = "whole" \/ msg'.cut
  BY <1>1, <1>3 DEF Inv, TokensOwn
<1>7. ReplyType'
  <2>1. parser' \in {"start", "fields", "fieldCut", "value", "valueCut", "body", "eofBody", "closed", "dead"}
    BY <1>1
  <2>2. executing' \in BOOLEAN
    BY <1>1, Zenon
  <2> HIDE DEF token
  <2> QED BY <1>1, <1>2, <1>3, <1>5, <2>1, <2>2, Zenon DEF ReplyType, told
<1>8. TokensOwn'
  <2>1. current_field' # <<>> /\ current_field'[1] = msg'.n /\ (~msg'.cut => current_field'[2] = "whole")
    BY <1>1, <1>3, <1>6
  <2>2. \A e \in headers' : Own(e[1])' /\ Own(e[2])'
    BY <1>1, <1>3 DEF Inv, TokensOwn, Own
  <2>3. parser' = "fieldCut" => msg'.cut
    BY <1>1, <1>3
  <2> QED BY <1>1, <1>3, <1>4, <2>1, <2>2, <2>3 DEF Inv, TokensOwn, Own
<1> QED BY <1>1, <1>7, <1>8, ParserStep DEF told

\* A value, or a part of one, is entered in the table of the latest message.
LEMMA ValueInv ==
  ASSUME Inv, NEW part \in {"whole", "first", "rest"}, lhttp_parser_on_header_value(part)
  PROVE  Inv'
<1> DEFINE token == <<msg.n, part>>
           table == {e \in headers : e[1] # current_field} \cup {<<current_field, token>>}
<1>1. /\ UNCHANGED <<sock, out, current_field, told>>
      /\ executing' = (part # "first")
      /\ parser \in {"value", "valueCut"}
      /\ part \in IF parser = "valueCut" THEN {"rest"} ELSE {"whole", "first"}
      /\ parser' = IF part = "first" THEN "valueCut" ELSE "fields"
      /\ msg' = [msg EXCEPT !.cut = @ \/ part = "first"]
      /\ headers' = table
      /\ response' = IF msg.headed THEN [response EXCEPT !.headers = table] ELSE response
  BY DEF lhttp_parser_on_header_value, Parse, Parts, onHeaderValue
<1>2. ReplyType
  BY <1>1, ReplyTypeOK DEF Inv, told
<1>3. /\ msg' \in Msgs /\ msg'.n = msg.n /\ msg'.headed = msg.headed
      /\ msg'.cut <=> msg.cut \/ part = "first"
  <2> DEFINE c == msg.cut \/ part = "first"
  <2>1. msg \in Msgs
    BY <1>2 DEF ReplyType
  <2>2. c \in BOOLEAN
    BY Zenon
  <2>3. msg' = [msg EXCEPT !.cut = c]
    BY <1>1, <2>1 DEF Msgs
  <2> HIDE DEF c
  <2>4. msg' \in Msgs /\ msg'.n = msg.n /\ msg'.headed = msg.headed /\ msg'.cut = c
    BY <2>1, <2>2, <2>3 DEF Msgs
  <2> QED BY <2>4 DEF c
<1>4. /\ msg.n \in 1..MaxMessages /\ msg.n > 0
      /\ current_field # <<>> /\ current_field[1] = msg.n /\ (~msg.cut => current_field[2] = "whole")
  BY <1>1, <1>2 DEF Inv, TokensOwn, Own, ReplyType, Msgs
<1>5. token \in Tokens /\ current_field \in Tokens
  BY <1>2, <1>4 DEF Tokens, ReplyType
<1>6. part = "whole" \/ msg'.cut
  BY <1>1, <1>3 DEF Inv, TokensOwn
<1>7. table \in SUBSET (Tokens \X Tokens)
  <2> HIDE DEF token
  <2> QED BY <1>2, <1>5 DEF ReplyType
<1>8. \A e \in table : Own(e[1])' /\ Own(e[2])'
  <2>1. ASSUME NEW e \in headers PROVE Own(e[1])' /\ Own(e[2])'
    BY <1>3, <2>1 DEF Inv, TokensOwn, Own
  <2>2. Own(current_field)'
    BY <1>1, <1>3, <1>4 DEF Own
  <2>3. token[1] = msg.n /\ token[2] = part
    OBVIOUS
  <2> HIDE DEF token
  <2>4. token[1] = msg'.n /\ (~msg'.cut => token[2] = "whole")
    BY <1>3, <1>6, <2>3
  <2>5. current_field[1] = msg'.n /\ (~msg'.cut => current_field[2] = "whole")
    BY <1>3, <1>4
  <2>6. ASSUME NEW e \in table PROVE Own(e[1])' /\ Own(e[2])'
    <3>1. CASE e \in headers
      BY <2>1, <3>1
    <3>2. CASE e = <<current_field, token>>
      BY <2>4, <2>5, <3>2 DEF Own
    <3> QED BY <2>6, <3>1, <3>2
  <2> QED BY <2>6
<1> HIDE DEF table, token
<1>9. response' \in Replies /\ (msg.headed => response'.headers = table)
  BY <1>1, <1>2, <1>7 DEF ReplyType, Replies
<1>10. ReplyType'
  <2>1. parser' \in {"start", "fields", "fieldCut", "value", "valueCut", "body", "eofBody", "closed", "dead"}
    BY <1>1
  <2>2. executing' \in BOOLEAN
    BY <1>1, Zenon
  <2> QED BY <1>1, <1>2, <1>3, <1>7, <1>9, <2>1, <2>2, Zenon DEF ReplyType, told
<1>11. TokensOwn'
  <2>1. parser' = "valueCut" => msg'.cut
    BY <1>1, <1>3
  <2>2. Own(current_field)'
    BY <1>1, <1>3, <1>4 DEF Own
  <2> QED BY <1>1, <1>3, <1>4, <1>8, <1>9, <2>1, <2>2 DEF TokensOwn
<1> QED BY <1>1, <1>10, <1>11, ParserStep DEF told

\* The head is complete, data of the body came, the message is complete.
LEMMA MessageInv ==
  ASSUME Inv, \/ lhttp_parser_on_body \/ lhttp_parser_on_message_complete
              \/ \E b \in BOOLEAN : lhttp_parser_on_headers_complete(b)
  PROVE  Inv'
<1>1. /\ UNCHANGED <<sock, out, headers, current_field, hadError, errors, closed>> /\ executing' = TRUE
      /\ hadResponse' = hadResponse \/ hadResponse' = TRUE
  BY DEF lhttp_parser_on_body, lhttp_parser_on_message_complete, lhttp_parser_on_headers_complete,
         onHeadersComplete, Parse, told
<1>2. ReplyType
  BY <1>1, ReplyTypeOK DEF Inv
<1> DEFINE Kept ==
      /\ response' \in Replies /\ msg' \in Msgs /\ TokensOwn'
      /\ parser' \in {"start", "fields", "fieldCut", "value", "valueCut", "body", "eofBody", "closed", "dead"}
<1>3. ASSUME lhttp_parser_on_body PROVE Kept
  <2>1. response' = [response EXCEPT !.events = @ \cup {"data"}] /\ UNCHANGED <<parser, msg>>
    BY <1>3 DEF lhttp_parser_on_body
  <2>2. response' \in Replies /\ response'.headers = response.headers
    BY <1>2, <2>1 DEF ReplyType, Replies
  <2>3. TokensOwn'
    BY <1>1, <2>1, <2>2 DEF Inv, TokensOwn, Own
  <2> QED BY <1>2, <2>1, <2>2, <2>3 DEF ReplyType
<1>4. ASSUME lhttp_parser_on_message_complete PROVE Kept
  <2>1. /\ response' = [response EXCEPT !.events = @ \cup {"end"}] /\ UNCHANGED msg
        /\ parser' \in {"start", "closed"}
    BY <1>4 DEF lhttp_parser_on_message_complete
  <2>2. response' \in Replies /\ response'.headers = response.headers
    BY <1>2, <2>1 DEF ReplyType, Replies
  <2>3. TokensOwn'
    BY <1>1, <2>1, <2>2 DEF Inv, TokensOwn, Own
  <2> QED BY <1>2, <2>1, <2>2, <2>3 DEF ReplyType
<1>5. ASSUME NEW b \in BOOLEAN, lhttp_parser_on_headers_complete(b) PROVE Kept
  <2>1. /\ response' = [response EXCEPT !.headers = headers] /\ msg' = [msg EXCEPT !.headed = TRUE]
        /\ parser' \in {"body", "eofBody"} /\ parser = "fields"
    BY <1>5 DEF lhttp_parser_on_headers_complete, onHeadersComplete
  <2>2. response' \in Replies /\ response'.headers = headers
    BY <1>2, <2>1 DEF ReplyType, Replies
  <2>3. msg' \in Msgs /\ msg'.n = msg.n /\ msg'.cut = msg.cut
    BY <1>2, <2>1 DEF ReplyType, Msgs
  <2>4. TokensOwn'
    BY <1>1, <2>1, <2>2, <2>3 DEF Inv, TokensOwn, Own
  <2> QED BY <2>1, <2>2, <2>3, <2>4
<1>6. Kept
  BY <1>3, <1>4, <1>5
<1>7. ReplyType'
  BY <1>1, <1>2, <1>6, Zenon DEF ReplyType
<1> QED BY <1>1, <1>6, <1>7, ParserStep

-----------------------------------------------------------------------------
\* A request that was just made; with "Expect" its head is already queued.
LEMMA InitInv == Init => Inv
<1> SUFFICES ASSUME Init PROVE Inv
  OBVIOUS
<1>1. PICK expect \in BOOLEAN, chunked \in BOOLEAN :
        /\ out = [header |-> expect, headerSent |-> expect, chunked |-> expect /\ chunked,
                  output |-> FALSE, finished |-> FALSE, finish |-> FALSE, writes |-> 0]
        /\ queue = IF expect THEN <<<<"head">>>> ELSE <<>>
  BY DEF Init
<1>2. /\ phase = "lookup" /\ writable = TRUE /\ destroyed = FALSE /\ reading = FALSE /\ shutting = FALSE
      /\ inflight = FALSE /\ wire = <<>> /\ ticks = <<>> /\ parser = "start" /\ executing = FALSE
      /\ headers = {} /\ current_field = <<>> /\ response = [headers |-> {}, events |-> {}]
      /\ msg = [n |-> 0, headed |-> FALSE, cut |-> FALSE, fields |-> 0]
      /\ hadError = FALSE /\ hadResponse = FALSE /\ errors = {} /\ closed = 0
  BY DEF Init, lhttp_parser_new
<1>3. MaxWrites \in Nat /\ MaxMessages \in Nat /\ MaxFields \in Nat
  BY BoundsAssumption
<1>4. (expect /\ chunked) \in BOOLEAN
  BY Zenon
<1>5. out \in Outs /\ out.headerSent = expect /\ out.header = expect /\ ~out.output /\ ~out.finish
  BY <1>1, <1>3, <1>4 DEF Outs
<1>6. queue \in Seq(Pieces) /\ <<>> \in Seq(Pieces)
  <2>1. <<"head">> \in Pieces
    BY DEF Pieces
  <2> QED BY <1>1, <2>1
<1>7. Sent = queue
  BY <1>2, <1>6 DEF Sent
<1>8. SendInv
  <2>1. QueueOrWire
    BY <1>2 DEF QueueOrWire
  <2>2. HeadFirst
    BY <1>1, <1>5, <1>7 DEF HeadFirst
  <2>3. RequestFramed
    BY <1>1, <1>7 DEF RequestFramed
  <2> QED BY <1>5, <2>1, <2>2, <2>3 DEF SendInv, FinishMeansSent
<1>9. SockType
  <2>1. ticks \in Seq({"lookup", "close", "errorClose"}) /\ Len(ticks) <= 2 /\ closed \in 0..1
    BY <1>2
  <2> QED BY <1>2, <1>6, <2>1, Zenon DEF SockType
<1>10. ReplyType
  <2>1. msg \in Msgs /\ response \in Replies
    BY <1>2, <1>3 DEF Msgs, Replies
  <2> QED BY <1>2, <2>1, Zenon DEF ReplyType
<1>11. TypeOK
  BY <1>5, <1>9, <1>10, Zenon DEF TypeOK, SockType, ReplyType, Outs, Msgs, Replies
<1>12. TicksOnce /\ TokensOwn
  BY <1>2 DEF TicksOnce, TokensOwn
<1> QED BY <1>8, <1>11, <1>12 DEF Inv

\* The invariant is inductive, by the kinds of steps.
LEMMA NextInv == Inv /\ [Next]_vars => Inv'
<1> SUFFICES ASSUME Inv, [Next]_vars PROVE Inv'
  OBVIOUS
<1>1. CASE Calls
  BY <1>1, CallsInv
<1>2. CASE Socket
  BY <1>2, LookupInv, ConnectedInv, ErrorsInv, EndInv, LookupTickInv, CloseTickInv DEF Socket
<1>3. CASE Parser
  BY <1>3, ExecuteInv, BeginInv, FieldInv, ValueInv, MessageInv DEF Parser
<1>4. CASE UNCHANGED vars
  <2>1. UNCHANGED <<sock, out, hadError, closed, headers, current_field, response, msg, parser, executing, hadResponse, errors>>
    BY <1>4 DEF vars, reply, told
  <2>2. ReplyType'
    BY <2>1, ReplyTypeOK DEF Inv, ReplyType
  <2>3. TokensOwn'
    BY <2>1, TokensKept DEF Inv
  <2> QED BY <2>1, <2>2, <2>3, ParserStep
<1> QED BY <1>1, <1>2, <1>3, <1>4 DEF Next

\* Every reachable state satisfies the invariant.
THEOREM Invariance == Spec => []Inv
<1> QED BY InitInv, NextInv, PTL DEF Spec

\* HeadIsOwn: onHeaderField, onHeaderValue and onHeadersComplete never give the
\* program a field or value of an earlier message, nor a part of one unless the
\* end of a chunk fell into a token of this head.
THEOREM Heads == Spec => []HeadIsOwn
<1>1. Inv => HeadIsOwn
  BY DEF Inv, TokensOwn, Own, HeadIsOwn
<1> QED BY <1>1, Invariance, PTL

\* RequestSound: whatever the order of write, done, connect, errors and the
\* server's end, what OutgoingMessage gives to the socket is one head, the body in
\* the encoding it announced and at most one last chunk, and "finish" is emitted
\* only for a request of which nothing was kept back; and the head given to the
\* program is the answer's own (Heads).
THEOREM Requests == Spec => []RequestSound
<1>1. Inv /\ HeadIsOwn => RequestSound
  BY DEF Inv, SendInv, RequestSound
<1> QED BY <1>1, Invariance, Heads, PTL

\* Only a connected socket is read, a destroyed one neither read nor written, and
\* when "close" was emitted no chunk is being parsed.
Quiet ==
  /\ reading => phase = "open"
  /\ destroyed => ~reading /\ ~writable
  /\ closed > 0 => ~executing

\* A step of the request keeps it so: "close" is emitted by the loop, and what was
\* emitted came from a destroyed socket.
LEMMA QuietStep == Inv /\ Quiet /\ [Next]_vars => Quiet'
<1> SUFFICES ASSUME Inv, Quiet, [Next]_vars PROVE Quiet'
  OBVIOUS
<1>1. closed > 0 => destroyed
  BY DEF Inv, TicksOnce, TypeOK
<1>2. CASE Calls
  <2>1. /\ UNCHANGED <<phase, executing, closed>>
        /\ \/ UNCHANGED <<destroyed, writable, reading>>
           \/ destroyed' = TRUE /\ writable' = FALSE /\ reading' = FALSE
    BY <1>2 DEF Calls, write, done, destroy, Destroy, reply, told
  <2> QED BY <2>1 DEF Quiet
<1>3. CASE closeTick
  <2>1. ticks # <<>> /\ Head(ticks) # "lookup"
    BY <1>3 DEF closeTick
  <2>2. destroyed
    BY <2>1, NextTick DEF Inv
  <2> QED BY <1>3, <2>2 DEF closeTick, Loop, Quiet, reply
<1>4. CASE Socket /\ ~closeTick
  <2>1. closed' = closed /\ executing' = executing
    BY <1>4 DEF Socket, lookupFails, lookupAnswers, connected, connectFails, writeReturns, readFails,
                socketEnd, shutdownReturns, lookupTick, reply, told
  <2>2. (reading' => phase' = "open") /\ (destroyed' => ~reading' /\ ~writable')
    <3>1. CASE lookupTick
      <4>1. phase = "failed" /\ ticks # <<>> /\ Head(ticks) = "lookup"
        BY <3>1, NextTick DEF lookupTick, Inv
      <4> QED BY <3>1, <4>1 DEF lookupTick, Quiet
    <3>2. CASE ~lookupTick
      BY <1>4, <3>2 DEF Socket, lookupFails, lookupAnswers, connected, connectFails, writeReturns,
                        readFails, socketEnd, shutdownReturns, Destroy, Quiet
    <3> QED BY <3>1, <3>2
  <2> QED BY <2>1, <2>2 DEF Quiet
<1>5. CASE Parser
  <2>1. UNCHANGED <<sock, closed>>
    BY <1>5 DEF Parser, Parse, lhttp_parser_execute, lhttp_parser_return, lhttp_parser_on_message_begin,
                lhttp_parser_on_header_field, lhttp_parser_on_header_value, lhttp_parser_on_headers_complete,
                lhttp_parser_on_body, lhttp_parser_on_message_complete, told
  <2>2. executing' => executing \/ reading
    BY <1>5 DEF Parser, Parse, lhttp_parser_execute, lhttp_parser_return, lhttp_parser_on_message_begin,
                lhttp_parser_on_header_field, lhttp_parser_on_header_value, lhttp_parser_on_headers_complete,
                lhttp_parser_on_body, lhttp_parser_on_message_complete
  <2> QED BY <1>1, <2>1, <2>2 DEF Quiet, sock
<1>6. CASE UNCHANGED vars
  BY <1>6 DEF vars, sock, reply, told, Quiet
<1> QED BY <1>2, <1>3, <1>4, <1>5, <1>6 DEF Next

\* QuietAfterClose: after the "close" of ClientRequest:onSocketClose no callback of
\* the parser, no lookup and no connection changes what the program got of the
\* response or what was sent, and "close" is not emitted again.
THEOREM Closes == Spec => QuietAfterClose
<1>1. Init => Quiet
  BY DEF Init, Quiet
<1>2. Inv /\ Quiet /\ [Next]_vars => [closed > 0 => UNCHANGED <<response, hadResponse, wire, closed>>]_vars
  <2>1. SUFFICES ASSUME Inv, Quiet, Next, closed > 0
                 PROVE  UNCHANGED <<response, hadResponse, wire, closed>>
    BY DEF vars
  <2>2. destroyed /\ closed = 1 /\ ~reading /\ ~writable /\ ~executing
    BY <2>1 DEF Inv, TicksOnce, TypeOK, Quiet
  <2>3. ~closeTick
    <3>1. SUFFICES ASSUME ticks # <<>>, Head(ticks) # "lookup" PROVE FALSE
      BY DEF closeTick
    <3>2. TypeOK /\ TicksOnce
      BY <2>1 DEF Inv
    <3>3. closed = 0
      BY <3>1, <3>2, NextTick
    <3> QED BY <2>2, <3>3
  <2>4. CASE Calls
    <3>1. ASSUME NEW p, NEW s PROVE _send(p, s).pieces = <<>>
      BY <2>2 DEF _send
    <3>2. SocketWrite(<<>>) => wire' = wire
      <4>1. wire \in Seq(Pieces)
        BY <2>1 DEF Inv, TypeOK
      <4> QED BY <4>1 DEF SocketWrite
    <3>3. ASSUME NEW n \in Lengths, write(n) PROVE wire' = wire
      BY <3>1, <3>2, <3>3 DEF write
    <3>4. ASSUME NEW n \in Lengths \cup {0}, done(n) PROVE wire' = wire
      BY <3>1, <3>2, <3>4 DEF done
    <3> QED BY <2>4, <3>3, <3>4 DEF Calls, write, done, destroy, reply, told
  <2>5. CASE Socket
    BY <2>2, <2>3, <2>5 DEF Socket, lookupFails, lookupAnswers, connected, connectFails, writeReturns,
                            readFails, socketEnd, shutdownReturns, lookupTick, reply, told
  <2>6. CASE Parser
    BY <2>2, <2>6 DEF Parser, Parse, lhttp_parser_execute, lhttp_parser_return, lhttp_parser_on_message_begin,
                      lhttp_parser_on_header_field, lhttp_parser_on_header_value,
                      lhttp_parser_on_headers_complete, lhttp_parser_on_body, lhttp_parser_on_message_complete
  <2> QED BY <2>1, <2>4, <2>5, <2>6 DEF Next
<1> QED BY <1>1, <1>2, QuietStep, Invariance, PTL DEF Spec, QuietAfterClose
=============================================================================
