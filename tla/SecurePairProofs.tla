-------------------------- MODULE SecurePairProofs --------------------------
(***************************************************************************)
(* Proofs about the TLS connection, for any chunks, high-water mark and    *)
(* number of handler calls.                                                *)
(*                                                                         *)
(* First, who uses the engine of a pair that was destroyed.  The invariant *)
(* is about the call stack: once the pair is destroyed the encrypted       *)
(* stream is not writable, so that cycle calls no encrypted:_push any      *)
(* more, and the calls that have not returned were on the stack when the   *)
(* pair was destroyed (EngineGone).                                        *)
(*                                                                         *)
(* Then that the pair is a channel in both directions.  The data is spread *)
(* over buffers, the engine, the frames of _pull and _push that have not   *)
(* returned, and the wire, and nested calls of cycle move it.  The         *)
(* invariant has layers, each of which needs the ones before it:           *)
(*   Control   the type of everything, which frames may be below which     *)
(*             (at most one _pull or _push holds data, and it is on top or *)
(*             under the handlers it called), and what the flags say;      *)
(*   Sends     what is on its way out, gathered from its five places, is   *)
(*             what was written;                                           *)
(*   Awake     the encrypted stream has at most one entry, and if the      *)
(*             engine is there some frame on the stack will look at it;    *)
(*   Receives  what the program got, and what is on its way in, make up    *)
(*             what the peer sent: a line of handshake flights, chunks and *)
(*             a closing;                                                  *)
(*   Counts    the pending bytes of a stream count the entries that wait   *)
(*             or are offered to the engine, so that they never fall below *)
(*             zero.                                                       *)
(* The first lemmas are about flattening sequences (Joins, Gather), with   *)
(* an induction over places in place of one over sequences.                *)
(***************************************************************************)
EXTENDS SecurePair, FiniteSetTheorems, NaturalsInduction, WellFoundedInduction, SequenceTheorems,
        TLAPS

-----------------------------------------------------------------------------
\* A frame has a method, a stream and a program counter; a call stack is a
\* sequence of frames.
FrameFine(x) == {"f", "w", "pc"} \subseteq DOMAIN x /\ x.w \in Sides /\ x.pc \in Nat
StackFine(s) == (\E S : s \in Seq(S)) /\ \A i \in DOMAIN s : FrameFine(s[i])

\* A call of encrypted:_push has not returned.
Pushing(s) == OnStack(s, "push", "enc")

\* A destroyed pair has no engine, its encrypted stream takes no more data, and
\* the encrypted:_push calls that have not returned were there when it was
\* destroyed.  Before that there is no fault.
EngineGone ==
  /\ pair.done <=> ~ssl.up
  /\ pair.done => ~st["enc"].writable
  /\ pair.done /\ Pushing(stack) => pair.ripped
  /\ pair.fault => pair.done

\* The inductive invariant.
PairInv ==
  /\ StackFine(stack)
  /\ {"done", "ripped", "fault"} \subseteq DOMAIN pair
  /\ pair.done \in BOOLEAN /\ pair.ripped \in BOOLEAN /\ pair.fault \in BOOLEAN
  /\ "up" \in DOMAIN ssl /\ ssl.up \in BOOLEAN
  /\ Sides \subseteq DOMAIN st
  /\ \A w \in Sides : "writable" \in DOMAIN st[w]
  /\ st["enc"].writable \in BOOLEAN
  /\ EngineGone
  /\ NoUseAfterDestroy

-----------------------------------------------------------------------------
\* A method returns, and what its frame was.
LEMMA StackTail ==
  ASSUME NEW s, StackFine(s), s # <<>>
  PROVE  /\ StackFine(Tail(s)) /\ (Pushing(Tail(s)) => Pushing(s))
         /\ FrameFine(Head(s))
         /\ Head(s).f = "push" /\ Head(s).w = "enc" => Pushing(s)
<1>1. PICK S : s \in Seq(S) BY DEF StackFine
<1>2. Len(s) \in Nat /\ Len(s) # 0 /\ DOMAIN s = 1..Len(s) /\ 1 \in DOMAIN s /\ Head(s) = s[1] BY <1>1
<1>3. /\ Tail(s) \in Seq(S) /\ DOMAIN Tail(s) = 1..(Len(s) - 1)
      /\ \A i \in 1..(Len(s) - 1) : Tail(s)[i] = s[i + 1] BY <1>1, <1>2
<1>4. \A i \in DOMAIN Tail(s) : i + 1 \in DOMAIN s /\ Tail(s)[i] = s[i + 1] BY <1>2, <1>3
<1>5. StackFine(Tail(s)) BY <1>3, <1>4 DEF StackFine
<1>6. Pushing(Tail(s)) => Pushing(s) BY <1>4 DEF Pushing, OnStack
<1> QED BY <1>2, <1>5, <1>6 DEF StackFine, Pushing, OnStack

\* A method is called.
LEMMA StackCons ==
  ASSUME NEW s, StackFine(s), NEW x, FrameFine(x)
  PROVE  /\ StackFine(<<x>> \o s)
         /\ Pushing(<<x>> \o s) => Pushing(s) \/ (x.f = "push" /\ x.w = "enc")
<1>1. PICK S : s \in Seq(S) BY DEF StackFine
<1>2. s \in Seq(S \cup {x}) /\ <<x>> \in Seq(S \cup {x})
  <2>1. Len(s) \in Nat /\ DOMAIN s = 1..Len(s) /\ s = [i \in 1..Len(s) |-> s[i]] /\ \A i \in 1..Len(s) : s[i] \in S
    BY <1>1
  <2>2. s \in Seq(S \cup {x}) BY <2>1
  <2> QED BY <2>2
<1> DEFINE u == <<x>> \o s
<1>3. u \in Seq(S \cup {x}) /\ Len(u) = Len(s) + 1 /\ u[1] = x /\ Len(s) \in Nat /\ DOMAIN s = 1..Len(s)
      /\ \A i \in 1..Len(s) : u[i + 1] = s[i] BY <1>1, <1>2
<1> HIDE DEF u
<1>4. \A i \in DOMAIN u : i = 1 \/ (i - 1 \in DOMAIN s /\ u[i] = s[i - 1])
  <2> TAKE i \in DOMAIN u
  <2>1. i \in 1..(Len(s) + 1) BY <1>3
  <2>2. i # 1 => i - 1 \in 1..Len(s) /\ (i - 1) + 1 = i BY <1>3, <2>1
  <2> QED BY <1>3, <2>2
<1>5. StackFine(u)
  <2>1. \A i \in DOMAIN u : FrameFine(u[i]) BY <1>3, <1>4 DEF StackFine
  <2> QED BY <1>3, <2>1 DEF StackFine
<1>6. Pushing(u) => Pushing(s) \/ (x.f = "push" /\ x.w = "enc") BY <1>3, <1>4 DEF Pushing, OnStack
<1> QED BY <1>5, <1>6 DEF u

\* Two calls, the first from the second.
LEMMA StackTwo ==
  ASSUME NEW s, StackFine(s), NEW x, NEW y
  PROVE  <<x, y>> \o s = <<x>> \o (<<y>> \o s) /\ <<>> \o s = s
<1>1. PICK S : s \in Seq(S) BY DEF StackFine
<1>2. s \in Seq(S \cup {x, y})
  <2>1. Len(s) \in Nat /\ DOMAIN s = 1..Len(s) /\ s = [i \in 1..Len(s) |-> s[i]] /\ \A i \in 1..Len(s) : s[i] \in S
    BY <1>1
  <2> QED BY <2>1
<1> DEFINE T == S \cup {x, y}
           a == <<x, y>> \o s
           b == <<y>> \o s
           c == <<x>> \o b
<1>3. s \in Seq(T) /\ <<x, y>> \in Seq(T) /\ <<x>> \in Seq(T) /\ <<y>> \in Seq(T) BY <1>2
<1> HIDE DEF T
<1>4. a \in Seq(T) /\ Len(a) = Len(s) + 2 /\ \A i \in 1..(Len(s) + 2) : a[i] = IF i <= 2 THEN <<x, y>>[i] ELSE s[i - 2]
  BY <1>3
<1>5. b \in Seq(T) /\ Len(b) = Len(s) + 1 /\ \A i \in 1..(Len(s) + 1) : b[i] = IF i <= 1 THEN y ELSE s[i - 1] BY <1>3
<1> HIDE DEF a, b
<1>6. c \in Seq(T) /\ Len(c) = Len(b) + 1 /\ \A i \in 1..(Len(b) + 1) : c[i] = IF i <= 1 THEN x ELSE b[i - 1]
  BY <1>3, <1>5
<1> HIDE DEF c
<1>7. a = c
  <2>1. Len(s) \in Nat /\ Len(a) = Len(c) BY <1>3, <1>4, <1>5, <1>6
  <2>2. ASSUME NEW i \in 1..Len(a) PROVE a[i] = c[i]
    <3>1. CASE i = 1 BY <1>4, <1>6, <2>1, <3>1
    <3>2. CASE i # 1
      <4>1. i - 1 \in 1..(Len(s) + 1) /\ i \in 1..(Len(s) + 2) /\ ~(i <= 1) /\ c[i] = b[i - 1]
        BY <1>4, <1>5, <1>6, <2>1, <3>2
      <4>2. CASE i = 2 BY <1>4, <1>5, <2>1, <4>1, <4>2
      <4>3. CASE i # 2 BY <1>4, <1>5, <2>1, <3>2, <4>1, <4>3
      <4> QED BY <4>2, <4>3
    <3> QED BY <3>1, <3>2
  <2> QED BY <1>4, <1>6, <2>1, <2>2
<1>8. <<>> \o s = s BY <1>1
<1> QED BY <1>7, <1>8 DEF a, b, c

\* The frames the code makes.
LEMMA FrameFields ==
  ASSUME NEW f, NEW w \in Sides, NEW pc \in Nat
  PROVE  FrameFine(Frame(f, w, pc)) /\ Frame(f, w, pc).f = f /\ Frame(f, w, pc).w = w
BY DEF Frame, FrameFine

\* A frame that is changed stays that of its method.
LEMMA FrameKept ==
  ASSUME NEW x, FrameFine(x), NEW v, NEW g,
         \/ g = [x EXCEPT !.pc = v] /\ v \in Nat
         \/ g = [x EXCEPT !.n = v] \/ g = [x EXCEPT !.b = v] \/ g = [x EXCEPT !.data = v]
  PROVE  FrameFine(g) /\ g.f = x.f /\ g.w = x.w
BY DEF FrameFine

-----------------------------------------------------------------------------
\* The engine h is e, further on: it is closed by nothing but tls_conn_close.
StillUp(e, h) == "up" \in DOMAIN h /\ h.up = e.up

\* A flight of the handshake ...
LEMMA FlightUp ==
  ASSUME NEW e, "up" \in DOMAIN e
  PROVE  StillUp(e, Flight(e))
BY DEF StillUp, Flight

\* ... and all of tls_conn_start leave the engine open.
LEMMA HandshakeUp ==
  ASSUME NEW e, "up" \in DOMAIN e
  PROVE  StillUp(e, tls_conn_start(e))
<1> DEFINE b == IF e.server \/ e.begun THEN e ELSE [e EXCEPT !.begun = TRUE, !.out = Append(@, "hs")]
           h == Flight(b)
<1>1. StillUp(e, b) BY DEF StillUp
<1> HIDE DEF b
<1>2. StillUp(e, h) BY <1>1, FlightUp DEF StillUp
<1> HIDE DEF h
<1>3. StillUp(e, Flight(h)) BY <1>2, FlightUp DEF StillUp
<1>4. Handshake(e) = h \/ Handshake(e) = Flight(h) BY DEF Handshake, h, b
<1>5. tls_conn_start(e) = e \/ tls_conn_start(e) = Handshake(e) BY DEF tls_conn_start
<1> QED BY <1>2, <1>3, <1>4, <1>5 DEF StillUp

\* So do encIn and clearIn ...
LEMMA PullerUp ==
  ASSUME NEW e, "up" \in DOMAIN e, NEW w, NEW data
  PROVE  StillUp(e, _puller(w, e, data).ssl)
<1> DEFINE h == tls_conn_start(e)
<1>1. StillUp(e, h) BY HandshakeUp
<1> HIDE DEF h
<1>2. StillUp(e, SSL_write(h, data).ssl) BY <1>1 DEF StillUp, SSL_write, Moved
<1>3. StillUp(e, Moved(h, <<>>, FALSE).ssl) BY <1>1 DEF StillUp, Moved
<1>4. StillUp(e, tls_conn_enc_in(e, data).ssl) BY DEF StillUp, tls_conn_enc_in, Moved
<1>5. tls_conn_clear_in(e, data) = SSL_write(h, data) \/ tls_conn_clear_in(e, data) = Moved(h, <<>>, FALSE)
  BY Zenon DEF tls_conn_clear_in, h
<1> QED BY <1>2, <1>3, <1>4, <1>5, Zenon DEF _puller

\* ... and encOut and clearOut.
LEMMA PusherUp ==
  ASSUME NEW e, "up" \in DOMAIN e, NEW w
  PROVE  StillUp(e, _pusher(w, e).ssl)
<1> DEFINE h == tls_conn_start(e)
<1>1. StillUp(e, h) BY HandshakeUp
<1> HIDE DEF h
<1>2. StillUp(e, SSL_read(h).ssl) BY <1>1 DEF StillUp, SSL_read, Moved
<1>3. StillUp(e, Moved(h, <<>>, FALSE).ssl) BY <1>1 DEF StillUp, Moved
<1>4. StillUp(e, tls_conn_enc_out(e).ssl) BY DEF StillUp, tls_conn_enc_out, tls_handle_bio_error_x, Moved
<1>5. tls_conn_clear_out(e) = SSL_read(h) \/ tls_conn_clear_out(e) = Moved(h, <<>>, FALSE)
  BY Zenon DEF tls_conn_clear_out, h
<1>6. StillUp(e, Moved(e, <<>>, FALSE).ssl) BY DEF StillUp, Moved
<1> QED BY <1>2, <1>3, <1>4, <1>5, <1>6, Zenon DEF _pusher

-----------------------------------------------------------------------------
\* The streams t are the streams s, further on: nothing makes the encrypted one
\* writable again.
StreamsKept(s, t) ==
  /\ Sides \subseteq DOMAIN t /\ \A w \in Sides : "writable" \in DOMAIN t[w]
  /\ t["enc"].writable = s["enc"].writable \/ t["enc"].writable = FALSE

\* The flags q are the flags p, further on, without the pair being destroyed.
FlagsKept(p, q) ==
  /\ {"done", "ripped", "fault"} \subseteq DOMAIN q
  /\ q.done = p.done /\ q.ripped = p.ripped /\ q.fault = p.fault

\* What has to be shown of a step that does not destroy the pair.
LEMMA PairAfter ==
  ASSUME PairInv, StackFine(stack'), StillUp(ssl, ssl'), StreamsKept(st, st'), FlagsKept(pair, pair'),
         pair.done /\ Pushing(stack') => Pushing(stack)
  PROVE  PairInv'
<1>1. /\ pair.done <=> ~ssl.up
      /\ pair.done => ~st["enc"].writable
      /\ pair.done /\ Pushing(stack) => pair.ripped
      /\ pair.fault => pair.ripped
      /\ pair.fault => pair.done
      /\ pair.done \in BOOLEAN /\ pair.ripped \in BOOLEAN /\ pair.fault \in BOOLEAN
      /\ ssl.up \in BOOLEAN /\ st["enc"].writable \in BOOLEAN BY DEF PairInv, EngineGone, NoUseAfterDestroy
<1>2. EngineGone' BY <1>1 DEF EngineGone, StillUp, StreamsKept, FlagsKept
<1>3. NoUseAfterDestroy' BY <1>1 DEF NoUseAfterDestroy, FlagsKept
<1>4. /\ {"done", "ripped", "fault"} \subseteq DOMAIN pair'
      /\ pair'.done \in BOOLEAN /\ pair'.ripped \in BOOLEAN /\ pair'.fault \in BOOLEAN BY <1>1 DEF FlagsKept
<1>5. "up" \in DOMAIN ssl' /\ ssl'.up \in BOOLEAN BY <1>1 DEF StillUp
<1>6. /\ Sides \subseteq DOMAIN st' /\ (\A w \in Sides : "writable" \in DOMAIN st'[w])
      /\ st'["enc"].writable \in BOOLEAN BY <1>1, Zenon DEF StreamsKept
<1> QED BY <1>2, <1>3, <1>4, <1>5, <1>6 DEF PairInv

\* A variable that does not change is kept.
LEMMA Unmoved ==
  ASSUME PairInv
  PROVE  /\ ssl' = ssl => StillUp(ssl, ssl')
         /\ st' = st => StreamsKept(st, st')
         /\ pair' = pair => FlagsKept(pair, pair')
BY DEF PairInv, StillUp, StreamsKept, FlagsKept

\* SecurePair:destroy, when the stack afterwards is `rest': the pair remembers
\* whether a call of encrypted:_push is on it.
LEMMA DestroyInv ==
  ASSUME PairInv, NEW s, StreamsKept(st, s), NEW how, NEW rest, destroy(s, how, rest),
         StackFine(rest), Pushing(rest) => Pushing(stack), stack' = rest
  PROVE  PairInv'
<1>1. CASE pair.done
  <2>1. st' = s /\ ssl' = ssl /\ pair' = pair BY <1>1 DEF destroy
  <2> QED BY <2>1, Unmoved, PairAfter
<1>2. CASE ~pair.done
  <2>1. /\ pair' = [pair EXCEPT !.done = TRUE, !.how = how, !.ripped = OnStack(rest, "push", "enc")]
        /\ ssl' = tls_conn_close(ssl)
        /\ st' = [w \in Sides |-> [s[w] EXCEPT !.writable = FALSE]] BY <1>2 DEF destroy
  <2>2. /\ {"done", "ripped", "fault"} \subseteq DOMAIN pair'
        /\ pair'.done = TRUE /\ pair'.ripped = Pushing(rest) /\ pair'.fault = pair.fault BY <2>1 DEF PairInv, Pushing
  <2>3. "up" \in DOMAIN ssl' /\ ssl'.up = FALSE BY <2>1 DEF PairInv, tls_conn_close
  <2>4. /\ Sides \subseteq DOMAIN st' /\ (\A w \in Sides : "writable" \in DOMAIN st'[w])
        /\ st'["enc"].writable = FALSE BY <2>1 DEF StreamsKept, Sides
  <2>5. Pushing(rest) \in BOOLEAN BY DEF Pushing, OnStack
  <2>6. EngineGone' BY <2>2, <2>3, <2>4 DEF EngineGone
  <2>7. ~pair.fault BY <1>2 DEF PairInv, EngineGone
  <2>8. NoUseAfterDestroy' BY <2>2, <2>7 DEF NoUseAfterDestroy
  <2>9. pair'.done \in BOOLEAN /\ pair'.ripped \in BOOLEAN /\ pair'.fault \in BOOLEAN BY <2>2, <2>5, Zenon DEF PairInv
  <2> QED BY <2>2, <2>3, <2>4, <2>6, <2>8, <2>9, Zenon DEF PairInv
<1> QED BY <1>1, <1>2

-----------------------------------------------------------------------------
\* From the stack s to the stack t no call of encrypted:_push is made.
NoPush(s, t) == StackFine(t) /\ (Pushing(t) => Pushing(s))

\* The frame of any other method.
OtherFrame(x) == FrameFine(x) /\ ~(x.f = "push" /\ x.w = "enc")

\* All the frames the code makes but one are such.
LEMMA OtherFrames ==
  /\ \A n : OtherFrame(Cycle(n))
  /\ \A event : OtherFrame(User(event))
  /\ OtherFrame(Err) /\ OtherFrame(Destroy) /\ OtherFrame(Frame("verify", "clr", 0))
  /\ \A f : \A w \in Sides, pc \in Nat : f # "push" => OtherFrame(Frame(f, w, pc))
<1>1. \A event : OtherFrame(User(event)) BY FrameFields DEF OtherFrame, User, Sides
<1>2. OtherFrame(Err) /\ OtherFrame(Destroy) /\ OtherFrame(Frame("verify", "clr", 0))
  BY FrameFields DEF OtherFrame, Err, Destroy, Sides
<1>3. \A n : OtherFrame(Cycle(n))
  <2> TAKE n
  <2>1. PICK x : x = Frame("cycle", "clr", 0) OBVIOUS
  <2>2. FrameFine(x) /\ x.w = "clr" BY <2>1, FrameFields DEF Sides
  <2>3. Cycle(n) = [x EXCEPT !.n = n] BY <2>1 DEF Cycle
  <2>4. FrameFine(Cycle(n)) /\ Cycle(n).w = "clr" BY <2>2, <2>3, FrameKept
  <2> QED BY <2>4 DEF OtherFrame
<1>4. \A f : \A w \in Sides, pc \in Nat : f # "push" => OtherFrame(Frame(f, w, pc)) BY FrameFields DEF OtherFrame
<1> QED BY <1>1, <1>2, <1>3, <1>4

\* A call of another method ...
LEMMA NoNewPushCons ==
  ASSUME NEW s, NEW t, NoPush(s, t), NEW x, OtherFrame(x)
  PROVE  NoPush(s, <<x>> \o t)
BY StackCons DEF NoPush, OtherFrame

\* ... and two, the first from the second, add no call of encrypted:_push.
LEMMA NoNewPushTwo ==
  ASSUME NEW s, NEW t, NoPush(s, t), NEW x, OtherFrame(x), NEW y, OtherFrame(y)
  PROVE  NoPush(s, <<x, y>> \o t)
<1>1. NoPush(s, <<x>> \o (<<y>> \o t)) BY NoNewPushCons
<1>2. <<x, y>> \o t = <<x>> \o (<<y>> \o t) BY StackTwo DEF NoPush
<1> QED BY <1>1, <1>2, Zenon

\* The method on top returns, or goes on.
LEMMA TopFrame ==
  ASSUME PairInv, ~Idle
  PROVE  /\ NoPush(stack, Tail(stack)) /\ FrameFine(Head(stack))
         /\ \A x : FrameFine(x) /\ x.f = Head(stack).f /\ x.w = Head(stack).w
                     => NoPush(stack, <<x>> \o Tail(stack))
<1>1. StackFine(stack) /\ stack # <<>> BY DEF PairInv, Idle
<1>2. /\ NoPush(stack, Tail(stack)) /\ FrameFine(Head(stack))
      /\ Head(stack).f = "push" /\ Head(stack).w = "enc" => Pushing(stack) BY <1>1, StackTail DEF NoPush
<1>3. ASSUME NEW x, FrameFine(x), x.f = Head(stack).f, x.w = Head(stack).w
      PROVE  NoPush(stack, <<x>> \o Tail(stack)) BY <1>2, <1>3, StackCons DEF NoPush
<1> QED BY <1>2, <1>3

\* Nor does staying where one is.
LEMMA SameStack ==
  ASSUME PairInv
  PROVE  NoPush(stack, stack)
BY DEF PairInv, NoPush

-----------------------------------------------------------------------------
\* SecurePair:err.
LEMMA errInv ==
  ASSUME PairInv, err
  PROVE  PairInv'
<1>1. ~Idle /\ NoPush(stack, Tail(stack)) BY TopFrame DEF err, Top
<1>2. CASE /\ Top("err", 0) /\ stack' = <<User("error"), Destroy>> \o Tail(stack)
           /\ UNCHANGED <<st, ssl, pair>>
  <2>1. NoPush(stack, stack') BY <1>1, <1>2, OtherFrames, NoNewPushTwo
  <2> QED BY <1>2, <2>1, Unmoved, PairAfter DEF NoPush
<1>3. CASE /\ Top("err", 0) /\ ssl' = tls_conn_clear_error(ssl) /\ stack' = <<User("error")>> \o Tail(stack)
           /\ UNCHANGED <<st, pair>>
  <2>1. NoPush(stack, stack') BY <1>1, <1>3, OtherFrames, NoNewPushCons
  <2>2. StillUp(ssl, ssl') BY <1>3 DEF PairInv, StillUp, tls_conn_clear_error
  <2> QED BY <1>3, <2>1, <2>2, Unmoved, PairAfter DEF NoPush
<1>4. CASE destroy(st, "error", Tail(stack)) /\ stack' = Tail(stack)
  <2>1. StreamsKept(st, st) BY DEF PairInv, StreamsKept
  <2> QED BY <1>1, <1>4, <2>1, DestroyInv, Zenon DEF NoPush
<1> QED BY <1>2, <1>3, <1>4 DEF err

\* The listeners of 'secure'.
LEMMA secureInv ==
  ASSUME PairInv, secure
  PROVE  PairInv'
<1>1. ~Idle /\ NoPush(stack, Tail(stack)) BY TopFrame DEF secure, Top
<1>2. /\ UNCHANGED <<st, ssl, pair>>
      /\ \/ stack' = <<User("secure")>> \o Tail(stack)
         \/ stack' = <<Destroy>> \o Tail(stack)
         \/ stack' = <<User("error"), Destroy>> \o Tail(stack) BY Zenon DEF secure
<1>3. NoPush(stack, stack') BY <1>1, <1>2, OtherFrames, NoNewPushCons, NoNewPushTwo, Zenon
<1> QED BY <1>2, <1>3, Unmoved, PairAfter DEF NoPush

\* maybeInitFinished goes on with frames.
LEMMA InitFinished ==
  ASSUME PairInv, NEW e, NEW frames, maybeInitFinished(e, frames), NoPush(stack, frames)
  PROVE  NoPush(stack, stack') /\ FlagsKept(pair, pair')
<1>1. CASE stack' = frames /\ pair' = pair BY <1>1, Unmoved
<1>2. CASE pair' = [pair EXCEPT !.secure = TRUE] /\ stack' = <<Frame("verify", "clr", 0)>> \o frames
  <2>1. FlagsKept(pair, pair') BY <1>2 DEF PairInv, FlagsKept
  <2> QED BY <1>2, <2>1, OtherFrames, NoNewPushCons
<1> QED BY <1>1, <1>2 DEF maybeInitFinished

\* SecurePair:cycle.  It calls encrypted:_push only while that stream is
\* writable: not in a pair that was destroyed.
LEMMA cycleInv ==
  ASSUME PairInv, cycle
  PROVE  PairInv'
<1> DEFINE top == Head(stack) rest == Tail(stack)
<1>1. ~Idle /\ NoPush(stack, rest) /\ FrameFine(top) BY TopFrame, Zenon DEF cycle, Top
<1>2. ASSUME NEW x, FrameFine(x), x.f = top.f, x.w = top.w
      PROVE  NoPush(stack, <<x>> \o rest) BY <1>1, <1>2, TopFrame
<1>3. CASE /\ pair' = IF ~pair.done /\ top.n = 0 THEN [pair EXCEPT !.writeCalled = FALSE] ELSE pair
           /\ stack' = IF pair.done THEN rest ELSE <<[top EXCEPT !.pc = 1, !.b = pair.secure]>> \o rest
           /\ UNCHANGED <<st, ssl>>
  <2>1. FlagsKept(pair, pair') BY <1>3 DEF PairInv, FlagsKept
  <2>2. PICK x, y : x = [top EXCEPT !.pc = 1] /\ y = [x EXCEPT !.b = pair.secure] BY Zenon
  <2>3. y = [top EXCEPT !.pc = 1, !.b = pair.secure] BY <2>2
  <2>4. FrameFine(x) /\ x.f = top.f /\ x.w = top.w BY <1>1, <2>2, FrameKept
  <2>5. FrameFine(y) /\ y.f = top.f /\ y.w = top.w BY <2>2, <2>4 DEF FrameFine
  <2>6. NoPush(stack, stack') BY <1>1, <1>2, <1>3, <2>3, <2>5, Zenon
  <2> QED BY <1>3, <2>1, <2>6, Unmoved, PairAfter DEF NoPush
<1> DEFINE todo == {k \in top.pc..4 : ~Locked(k) /\ ~NoWork(k)}
<1>4. CASE /\ top.pc > 0 /\ todo # {}
           /\ stack' = <<Frame(Stage[Min(todo)][1], Stage[Min(todo)][2], 0), [top EXCEPT !.pc = Min(todo) + 1]>> \o rest
           /\ UNCHANGED <<st, ssl, pair>>
  <2>1. PICK k : k = Min(todo) OBVIOUS
  <2>2. k \in todo
    <3>1. top.pc \in Nat BY <1>1 DEF FrameFine
    <3>2. \E m \in todo : \A y \in todo : m <= y
      <4>1. PICK a \in todo : TRUE BY <1>4
      <4>2. \A y \in todo : y \in Nat /\ y <= 4 BY <3>1
      <4> HIDE DEF todo
      <4>3. CASE 0 \in todo BY <4>2, <4>3
      <4>4. CASE 0 \notin todo /\ 1 \in todo BY <4>2, <4>4
      <4>5. CASE 0 \notin todo /\ 1 \notin todo /\ 2 \in todo BY <4>2, <4>5
      <4>6. CASE 0 \notin todo /\ 1 \notin todo /\ 2 \notin todo /\ 3 \in todo BY <4>2, <4>6
      <4>7. CASE 0 \notin todo /\ 1 \notin todo /\ 2 \notin todo /\ 3 \notin todo BY <4>1, <4>2, <4>7
      <4> QED BY <4>3, <4>4, <4>5, <4>6, <4>7
    <3> HIDE DEF todo
    <3> QED BY <2>1, <3>2 DEF Min
  <2>3. k \in 1..4 /\ ~NoWork(k) BY <1>1, <1>4, <2>2 DEF FrameFine
  <2>4. PICK x : x = [top EXCEPT !.pc = k + 1] BY Zenon
  <2>5. FrameFine(x) /\ x.f = top.f /\ x.w = top.w BY <1>1, <2>3, <2>4, FrameKept
  <2>6. NoPush(stack, <<x>> \o rest) BY <1>2, <2>5
  <2>7. PICK y : y = Frame(Stage[k][1], Stage[k][2], 0) OBVIOUS
  <2>8. stack' = <<y>> \o (<<x>> \o rest)
    <3>1. stack' = <<y, x>> \o rest BY <1>4, <2>1, <2>4, <2>7
    <3>2. StackFine(rest) BY <1>1 DEF NoPush
    <3>3. <<y, x>> \o rest = <<y>> \o (<<x>> \o rest) BY <3>2, StackTwo
    <3> QED BY <3>1, <3>3
  <2>9. FrameFine(y) /\ y.f = Stage[k][1] /\ y.w = Stage[k][2]
    <3>1. Stage[k][2] \in Sides BY <2>3 DEF Stage, Sides
    <3> QED BY <2>7, <3>1, FrameFields
  <2>10. StackFine(stack') /\ (Pushing(stack') => Pushing(stack) \/ (y.f = "push" /\ y.w = "enc"))
    BY <2>6, <2>8, <2>9, StackCons DEF NoPush
  <2>11. y.f = "push" /\ y.w = "enc" => ~pair.done
    <3> SUFFICES ASSUME y.f = "push", y.w = "enc" PROVE ~pair.done OBVIOUS
    <3>1. k = 4 BY <2>3, <2>9 DEF Stage
    <3>2. st["enc"].writable BY <2>3, <3>1 DEF NoWork, Stage
    <3> QED BY <3>2 DEF PairInv, EngineGone
  <2> QED BY <1>4, <2>10, <2>11, Unmoved, PairAfter
<1>5. CASE /\ stack' = (IF (~top.b /\ pair.secure) \/ (top.n = 0 /\ pair.writeCalled)
                       THEN <<Cycle(top.n + 1)>> ELSE <<>>) \o rest
           /\ UNCHANGED <<st, ssl, pair>>
  <2>1. stack' = <<Cycle(top.n + 1)>> \o rest \/ stack' = <<>> \o rest BY <1>5, Zenon
  <2>2. <<>> \o rest = rest BY <1>1, StackTwo DEF NoPush
  <2>3. NoPush(stack, stack') BY <1>1, <2>1, <2>2, OtherFrames, NoNewPushCons, Zenon
  <2> QED BY <1>5, <2>3, Unmoved, PairAfter DEF NoPush
<1> QED BY <1>3, <1>4, <1>5, Zenon DEF cycle

\* CryptoStream:_done.
LEMMA DoneInv ==
  ASSUME PairInv, NEW w \in Sides, NEW rest, _done(w, rest), NoPush(stack, rest)
  PROVE  PairInv'
<1> DEFINE s == [st EXCEPT ![w].done = TRUE]
<1>1. StreamsKept(st, s) BY DEF PairInv, StreamsKept, Sides
<1>2. CASE destroy(s, "done", rest) /\ stack' = rest BY <1>1, <1>2, DestroyInv DEF NoPush
<1>3. CASE st' = s /\ UNCHANGED <<ssl, pair>> /\ (stack' = rest \/ stack' = <<Err>> \o rest)
  <2>1. NoPush(stack, stack') BY <1>3, OtherFrames, NoNewPushCons, Zenon
  <2> QED BY <1>1, <1>3, <2>1, Unmoved, PairAfter DEF NoPush
<1> QED BY <1>2, <1>3 DEF _done

\* CryptoStream:_pull.  It gives nothing to an engine that is closed, and calls
\* no encrypted:_push itself.
LEMMA PullInv ==
  ASSUME PairInv, _pull
  PROVE  PairInv'
<1> DEFINE top == Head(stack) rest == Tail(stack) w == top.w
<1>1. ~Idle /\ NoPush(stack, rest) /\ w \in Sides BY TopFrame DEF _pull, Top, FrameFine
<1>2. CASE pull_empty(w, rest)
  <2>1. StreamsKept(st, st') BY <1>2 DEF pull_empty, PairInv, StreamsKept, Sides
  <2>2. stack' = rest /\ UNCHANGED <<ssl, pair>> BY <1>2 DEF pull_empty
  <2> QED BY <1>1, <2>1, <2>2, Unmoved, PairAfter DEF NoPush
<1>3. CASE pull_closed(w, rest)
  <2>1. stack' = rest /\ UNCHANGED <<st, ssl, pair>> BY <1>3 DEF pull_closed
  <2> QED BY <1>1, <2>1, Unmoved, PairAfter DEF NoPush
<1>4. CASE pull_eof(w, rest)
  <2>1. /\ st' = [st EXCEPT ![w].pend = Front(@), ![Other(w)].destroyAfterPush = TRUE]
        /\ ssl' = (IF w = "clr" THEN tls_conn_shutdown(ssl) ELSE ssl) /\ pair' = pair
        /\ stack' = <<Cycle(0), Frame("pull", w, 1)>> \o rest BY <1>4 DEF pull_eof
  <2>2. StreamsKept(st, st') BY <2>1 DEF PairInv, StreamsKept, Sides
  <2>3. StillUp(ssl, ssl') BY <2>1 DEF PairInv, StillUp, tls_conn_shutdown
  <2>4. NoPush(stack, stack') BY <1>1, <2>1, OtherFrames, NoNewPushTwo
  <2> QED BY <2>1, <2>2, <2>3, <2>4, Unmoved, PairAfter DEF NoPush
<1>5. CASE pull_data(w, rest)
  <2> DEFINE tmp == Last(st[w].pend)
             r == _puller(w, ssl, tmp)
             x == [Frame("pull", w, 2) EXCEPT !.b = r.ok, !.data = tmp]
  <2>1. /\ ssl' = r.ssl
        /\ st' = [st EXCEPT ![w].pend = Front(@)]
        /\ \/ pair' = [pair EXCEPT !.failed = TRUE] /\ stack' = <<Err>> \o rest
           \/ maybeInitFinished(r.ssl, <<x>> \o rest) BY <1>5 DEF pull_data
  <2>2. StreamsKept(st, st') BY <2>1 DEF PairInv, StreamsKept, Sides
  <2>3. StillUp(ssl, ssl') BY <2>1, PullerUp DEF PairInv
  <2>4. OtherFrame(x)
    <3>1. PICK y : y = Frame("pull", w, 2) OBVIOUS
    <3>2. FrameFine(y) /\ y.f = "pull" BY <1>1, <3>1, FrameFields
    <3>3. PICK a, b : x = [y EXCEPT !.b = a, !.data = b] BY <3>1, Zenon
    <3>4. FrameFine(x) /\ x.f = "pull" BY <3>2, <3>3, Zenon DEF FrameFine
    <3> QED BY <3>4 DEF OtherFrame
  <2> HIDE DEF x, r, tmp
  <2>5. CASE pair' = [pair EXCEPT !.failed = TRUE] /\ stack' = <<Err>> \o rest
    <3>1. FlagsKept(pair, pair') BY <2>5 DEF PairInv, FlagsKept
    <3>2. NoPush(stack, stack') BY <1>1, <2>5, OtherFrames, NoNewPushCons
    <3> QED BY <2>2, <2>3, <3>1, <3>2, PairAfter DEF NoPush
  <2>6. CASE maybeInitFinished(r.ssl, <<x>> \o rest)
    <3>1. NoPush(stack, <<x>> \o rest) BY <1>1, <2>4, NoNewPushCons
    <3>2. PICK e, fs : maybeInitFinished(e, fs) /\ NoPush(stack, fs) BY <2>6, <3>1
    <3>3. NoPush(stack, stack') /\ FlagsKept(pair, pair') BY <3>2, InitFinished
    <3> QED BY <2>2, <2>3, <3>3, PairAfter DEF NoPush
  <2> QED BY <2>1, <2>5, <2>6
<1>6. CASE _done(w, rest) BY <1>1, <1>6, DoneInv
<1>7. CASE pull_refused(top, rest)
  <2>1. st' = [st EXCEPT ![w].pend = <<top.data>> \o @] /\ stack' = rest /\ UNCHANGED <<ssl, pair>>
    BY <1>7 DEF pull_refused
  <2>2. StreamsKept(st, st') BY <2>1 DEF PairInv, StreamsKept, Sides
  <2> QED BY <1>1, <2>1, <2>2, Unmoved, PairAfter DEF NoPush
<1>8. CASE pull_taken(top, rest)
  <2>1. /\ st' = [st EXCEPT ![w].bytes = @ - 1] /\ UNCHANGED <<ssl, pair>>
        /\ \/ stack' = <<>> \o <<Frame("pull", w, 0)>> \o rest
           \/ stack' = <<User("callback")>> \o <<Frame("pull", w, 0)>> \o rest BY <1>8, Zenon DEF pull_taken
  <2>2. StreamsKept(st, st') BY <2>1 DEF PairInv, StreamsKept, Sides
  <2>3. \/ stack' = <<Frame("pull", w, 0)>> \o rest
        \/ stack' = <<User("callback"), Frame("pull", w, 0)>> \o rest BY <2>1
  <2>4. NoPush(stack, stack') BY <1>1, <2>3, OtherFrames, NoNewPushCons, NoNewPushTwo, Zenon
  <2> QED BY <2>1, <2>2, <2>4, Unmoved, PairAfter DEF NoPush
<1> QED BY <1>2, <1>3, <1>4, <1>5, <1>6, <1>7, <1>8 DEF _pull

\* One call of _pusher in _push: the frame goes on, or err is called.
LEMMA PushReadInv ==
  ASSUME PairInv, ~Idle, push_read(Head(stack), Tail(stack))
  PROVE  PairInv'
<1> DEFINE top == Head(stack) rest == Tail(stack)
           r == _pusher(top.w, ssl)
           x == [top EXCEPT !.pc = IF r.ok /\ top.w = "clr" THEN 2 ELSE 3, !.data = @ \o r.data]
<1>1. /\ ssl' = r.ssl /\ st' = st
      /\ \/ pair' = [pair EXCEPT !.failed = TRUE] /\ stack' = <<Err>> \o rest
         \/ maybeInitFinished(r.ssl, <<x>> \o rest) BY DEF push_read
<1>2. StillUp(ssl, ssl') BY <1>1, PusherUp DEF PairInv
<1>3. NoPush(stack, rest) /\ FrameFine(top) BY TopFrame
<1>4. FrameFine(x) /\ x.f = top.f /\ x.w = top.w
  <2>1. PICK y : y = top OBVIOUS
  <2>2. PICK a, b : a \in Nat /\ x = [y EXCEPT !.pc = a, !.data = b] BY <2>1, Zenon
  <2> QED BY <1>3, <2>1, <2>2 DEF FrameFine
<1> HIDE DEF x, r
<1>5. CASE pair' = [pair EXCEPT !.failed = TRUE] /\ stack' = <<Err>> \o rest
  <2>1. FlagsKept(pair, pair') BY <1>5 DEF PairInv, FlagsKept
  <2>2. NoPush(stack, stack') BY <1>3, <1>5, OtherFrames, NoNewPushCons
  <2> QED BY <1>1, <1>2, <2>1, <2>2, Unmoved, PairAfter DEF NoPush
<1>6. CASE maybeInitFinished(r.ssl, <<x>> \o rest)
  <2>1. NoPush(stack, <<x>> \o rest) BY <1>4, TopFrame
  <2>2. PICK e, fs : maybeInitFinished(e, fs) /\ NoPush(stack, fs) BY <1>6, <2>1
  <2>3. NoPush(stack, stack') /\ FlagsKept(pair, pair') BY <2>2, InitFinished
  <2> QED BY <1>1, <1>2, <2>3, Unmoved, PairAfter DEF NoPush
<1> QED BY <1>1, <1>5, <1>6

\* CryptoStream:_push.  The fault is its own: a call of encrypted:_push finds the
\* engine closed that was there when it began.
LEMMA PushInv ==
  ASSUME PairInv, _push
  PROVE  PairInv'
<1> DEFINE top == Head(stack) rest == Tail(stack) w == top.w
<1>1. ~Idle /\ top.f = "push" BY Zenon DEF _push, Top
<1>2. NoPush(stack, rest) /\ FrameFine(top) /\ w \in Sides BY <1>1, TopFrame DEF FrameFine
<1>3. CASE stack' = rest /\ UNCHANGED <<st, ssl, pair>> BY <1>2, <1>3, Unmoved, PairAfter DEF NoPush
<1>4. CASE push_read(top, rest) BY <1>1, <1>4, PushReadInv
<1>5. CASE /\ w = "enc" /\ ~ssl.up
           /\ pair' = [pair EXCEPT !.fault = TRUE] /\ stack' = <<>> /\ UNCHANGED <<st, ssl>>
  <2>1. pair.done /\ pair.ripped = TRUE
    <3>1. Pushing(stack) BY <1>1, <1>5, StackTail DEF PairInv, Idle
    <3> QED BY <1>5, <3>1 DEF PairInv, EngineGone
  <2>2. /\ {"done", "ripped", "fault"} \subseteq DOMAIN pair'
        /\ pair'.done = pair.done /\ pair'.ripped = TRUE /\ pair'.fault = TRUE BY <1>5, <2>1, Zenon DEF PairInv
  <2>3. StackFine(stack')
    <3>1. \A i \in DOMAIN stack' : FrameFine(stack'[i]) BY <1>5
    <3>2. stack' \in Seq({}) BY <1>5
    <3> QED BY <3>1, <3>2 DEF StackFine
  <2>4. EngineGone' /\ NoUseAfterDestroy' BY <1>5, <2>1, <2>2 DEF PairInv, EngineGone, NoUseAfterDestroy
  <2> QED BY <1>5, <2>2, <2>3, <2>4 DEF PairInv
<1>6. CASE _done(w, rest) BY <1>2, <1>6, DoneInv
<1>7. CASE stack' = <<Frame("data", w, 0), Frame("push", w, 0)>> \o rest /\ UNCHANGED <<st, ssl, pair>>
  <2>1. PICK x, y : x = Frame("push", w, 0) /\ y = Frame("data", w, 0) OBVIOUS
  <2>2. FrameFine(x) /\ x.f = top.f /\ x.w = top.w /\ OtherFrame(y) BY <1>1, <1>2, <2>1, FrameFields, OtherFrames
  <2>3. NoPush(stack, <<x>> \o rest) BY <1>1, <2>2, TopFrame
  <2>4. NoPush(stack, <<y>> \o (<<x>> \o rest)) BY <2>2, <2>3, NoNewPushCons
  <2>5. stack' = <<y>> \o (<<x>> \o rest)
    <3>1. stack' = <<y, x>> \o rest BY <1>7, <2>1
    <3>2. StackFine(rest) BY <1>2 DEF NoPush
    <3>3. <<y, x>> \o rest = <<y>> \o (<<x>> \o rest) BY <3>2, StackTwo
    <3> QED BY <3>1, <3>3
  <2> QED BY <1>7, <2>4, <2>5, Unmoved, PairAfter, Zenon DEF NoPush
<1> QED BY <1>3, <1>4, <1>5, <1>6, <1>7, Zenon DEF _push

\* CryptoStream:write, up to its cycle.
LEMMA WriteInv ==
  ASSUME PairInv, NEW w \in Sides, NEW data, write(w, data), ssl' = ssl
  PROVE  PairInv'
<1>1. /\ st' = [st EXCEPT ![w].pend = Append(@, data), ![w].bytes = @ + 1]
      /\ \E q : pair' = [pair EXCEPT !.writeCalled = TRUE, !.queued = q]
      /\ stack' = <<Cycle(0), Frame("write", w, 0)>> \o stack BY Zenon DEF write
<1>2. StreamsKept(st, st') BY <1>1 DEF PairInv, StreamsKept, Sides
<1>3. FlagsKept(pair, pair') BY <1>1 DEF PairInv, FlagsKept
<1>4. NoPush(stack, stack') BY <1>1, SameStack, OtherFrames, NoNewPushTwo
<1> QED BY <1>2, <1>3, <1>4, Unmoved, PairAfter DEF NoPush

\* The rest of write.
LEMMA WrittenInv ==
  ASSUME PairInv, written
  PROVE  PairInv'
<1>1. ~Idle /\ stack' = Tail(stack) /\ UNCHANGED <<ssl, pair>> BY DEF written, Top
<1>2. StreamsKept(st, st') BY DEF written, PairInv, StreamsKept, Sides
<1>3. NoPush(stack, stack') BY <1>1, TopFrame
<1> QED BY <1>1, <1>2, <1>3, Unmoved, PairAfter DEF NoPush

\* CryptoStream:done.
LEMMA EndInv ==
  ASSUME PairInv, NEW w \in Sides, done(w)
  PROVE  PairInv'
<1>1. /\ st' = [st EXCEPT ![w].pend = Append(@, END_OF_FILE), ![w].writable = FALSE]
      /\ \E q : pair' = [pair EXCEPT !.queued = q]
      /\ stack' = <<Cycle(0)>> \o stack /\ ssl' = ssl BY Zenon DEF done
<1>2. StreamsKept(st, st') BY <1>1 DEF PairInv, StreamsKept, Sides
<1>3. FlagsKept(pair, pair') BY <1>1 DEF PairInv, FlagsKept
<1>4. NoPush(stack, stack') BY <1>1, SameStack, OtherFrames, NoNewPushCons
<1> QED BY <1>1, <1>2, <1>3, <1>4, Unmoved, PairAfter DEF NoPush

\* CryptoStream:pause and resume.
LEMMA PauseInv ==
  ASSUME PairInv, NEW w \in Sides, pause(w) \/ resume(w)
  PROVE  PairInv'
<1>1. /\ st' = [st EXCEPT ![w].paused = TRUE] \/ st' = [st EXCEPT ![w].paused = FALSE]
      /\ UNCHANGED <<ssl, pair>> /\ (stack' = stack \/ stack' = <<Cycle(0)>> \o stack) BY DEF pause, resume
<1>2. StreamsKept(st, st') BY <1>1 DEF PairInv, StreamsKept, Sides
<1>3. NoPush(stack, stack')
  <2>1. NoPush(stack, stack) /\ OtherFrame(Cycle(0)) BY SameStack, OtherFrames
  <2>2. NoPush(stack, <<Cycle(0)>> \o stack) BY <2>1, NoNewPushCons
  <2> QED BY <1>1, <2>1, <2>2, Zenon
<1> QED BY <1>1, <1>2, <1>3, Unmoved, PairAfter DEF NoPush

\* From the event loop: a stack of one frame.
LEMMA LoopStack ==
  ASSUME PairInv, NEW x, OtherFrame(x), Idle
  PROVE  NoPush(stack, <<x>>) /\ NoPush(stack, <<>>)
<1>1. NoPush(stack, <<x>> \o stack) /\ NoPush(stack, stack) BY SameStack, NoNewPushCons
<1>2. <<x>> \o stack = <<x>> /\ stack = <<>> BY DEF Idle
<1> QED BY <1>1, <1>2

-----------------------------------------------------------------------------
\* A new pair.
LEMMA PairInitInv == PairInit => PairInv
<1> SUFFICES ASSUME PairInit PROVE PairInv OBVIOUS
<1>1. StackFine(stack)
  <2>1. stack = <<>> /\ stack \in Seq({}) BY DEF PairInit
  <2> QED BY <2>1 DEF StackFine
<1>2. /\ {"done", "ripped", "fault"} \subseteq DOMAIN pair
      /\ pair.done = FALSE /\ pair.ripped = FALSE /\ pair.fault = FALSE BY DEF PairInit
<1>3. "up" \in DOMAIN ssl /\ ssl.up = TRUE BY DEF PairInit, newCONN
<1>4. /\ Sides \subseteq DOMAIN st /\ (\A w \in Sides : "writable" \in DOMAIN st[w])
      /\ st["enc"].writable = TRUE BY DEF PairInit, CryptoStream_initialize, Sides
<1> QED BY <1>1, <1>2, <1>3, <1>4, Zenon DEF PairInv, EngineGone, NoUseAfterDestroy

\* Every step keeps the invariant.
LEMMA PairNextInv == PairInv /\ [PairNext]_pairVars => PairInv'
<1> SUFFICES ASSUME PairInv, [PairNext]_pairVars PROVE PairInv' OBVIOUS
<1>0. "enc" \in Sides /\ "clr" \in Sides BY DEF Sides
<1>1. CASE cycle BY <1>1, cycleInv
<1>2. CASE _pull BY <1>2, PullInv
<1>3. CASE _push BY <1>3, PushInv
<1>4. CASE written BY <1>4, WrittenInv
<1>5. CASE err BY <1>5, errInv
<1>6. CASE secure BY <1>6, secureInv
<1>7. CASE handler_returns
  <2>1. ~Idle /\ stack' = Tail(stack) /\ UNCHANGED <<st, ssl, pair>> BY <1>7 DEF handler_returns
  <2> QED BY <2>1, TopFrame, Unmoved, PairAfter DEF NoPush
<1>8. CASE start
  <2>1. /\ Idle /\ pair' = [pair EXCEPT !.started = TRUE] /\ stack' = <<Cycle(0)>> /\ st' = st
        /\ ssl' = IF ssl.up THEN tls_conn_start(ssl) ELSE ssl BY <1>8 DEF start
  <2>2. StillUp(ssl, ssl') BY <2>1, HandshakeUp, Unmoved DEF PairInv
  <2>3. FlagsKept(pair, pair') BY <2>1 DEF PairInv, FlagsKept
  <2>4. NoPush(stack, stack') BY <2>1, OtherFrames, LoopStack
  <2> QED BY <2>1, <2>2, <2>3, <2>4, Unmoved, PairAfter DEF NoPush
<1>9. CASE destroyed
  <2>1. Idle /\ pair' = [pair EXCEPT !.closed = TRUE] /\ stack' = <<User("close")>> /\ UNCHANGED <<st, ssl>>
    BY <1>9 DEF destroyed
  <2>2. FlagsKept(pair, pair') BY <2>1 DEF PairInv, FlagsKept
  <2>3. NoPush(stack, stack') BY <2>1, OtherFrames, LoopStack
  <2> QED BY <2>1, <2>2, <2>3, Unmoved, PairAfter DEF NoPush
<1>10. CASE program_writes
  <2>1. PICK c : write("clr", <<c>>) /\ ssl' = ssl BY <1>10, Zenon DEF program_writes
  <2> QED BY <1>0, <2>1, WriteInv
<1>11. ASSUME destroy(st, "program", stack), stack' = stack PROVE PairInv'
  <2>1. StreamsKept(st, st) /\ StackFine(stack) BY DEF PairInv, StreamsKept
  <2> QED BY <1>11, <2>1, DestroyInv
<1>12. CASE program_calls
  <2>1. \/ done("clr") \/ pause("clr")
        \/ destroy(st, "program", stack) /\ stack' = stack
        \/ UNCHANGED <<st, ssl, pair, stack>>
    BY <1>12 DEF program_calls, CleartextStream_destroy, CryptoStream_destroy
  <2> QED BY <1>0, <1>11, <2>1, EndInv, PauseInv, Unmoved, SameStack, PairAfter DEF NoPush
<1>13. CASE program_resumes BY <1>0, <1>13, PauseInv DEF program_resumes
<1>14. CASE peer_sends BY <1>14, Unmoved, SameStack, PairAfter DEF peer_sends, NoPush
<1>15. CASE socket_data
  <2>1. PICK c : write("enc", c) /\ ssl' = ssl BY <1>15 DEF socket_data
  <2> QED BY <1>0, <2>1, WriteInv
<1>16. CASE socket_end
  <2>1. done("enc") \/ UNCHANGED <<st, ssl, pair, stack>> BY <1>16 DEF socket_end, done_late
  <2> QED BY <1>0, <2>1, EndInv, Unmoved, SameStack, PairAfter DEF NoPush
<1>17. CASE socket_close \/ socket_destroyed
  <2>1. \/ destroy(st, "program", stack) /\ stack' = stack
        \/ UNCHANGED <<st, ssl, pair, stack>> BY <1>17 DEF socket_close, socket_destroyed
  <2> QED BY <1>11, <2>1, Unmoved, SameStack, PairAfter DEF NoPush
<1>18. CASE socket_full \/ socket_drain BY <1>0, <1>18, PauseInv DEF socket_full, socket_drain
<1>19. ASSUME NEW w \in Sides, emit_drain(w) PROVE PairInv'
  <2>1. /\ Idle /\ st' = [st EXCEPT ![w].due = @ - 1] /\ UNCHANGED <<ssl, pair>>
        /\ stack' = <<User("drain")>> \/ stack' = <<>> BY <1>19 DEF emit_drain
  <2>2. StreamsKept(st, st') BY <2>1 DEF PairInv, StreamsKept, Sides
  <2>3. NoPush(stack, stack') BY <2>1, OtherFrames, LoopStack, Zenon
  <2> QED BY <2>1, <2>2, <2>3, Unmoved, PairAfter DEF NoPush
<1>20. CASE UNCHANGED pairVars
  <2>1. UNCHANGED <<st, ssl, pair, stack>> BY <1>20 DEF pairVars
  <2> QED BY <2>1, Unmoved, SameStack, PairAfter DEF NoPush
<1> QED BY <1>1, <1>2, <1>3, <1>4, <1>5, <1>6, <1>7, <1>8, <1>9, <1>10, <1>12, <1>13, <1>14, <1>15,
           <1>16, <1>17, <1>18, <1>19, <1>20 DEF PairNext, Internal

\* Whatever handlers do in the middle of cycle, and however often: the only call
\* that uses the engine after SecurePair:destroy is an encrypted:_push that was
\* on the stack when the pair was destroyed.
THEOREM EngineUsedBeforeDestroy == PairSpec => []NoUseAfterDestroy
<1>1. PairInit => PairInv BY PairInitInv
<1>2. PairInv /\ [PairNext]_pairVars => PairInv' BY PairNextInv
<1>3. PairInv => NoUseAfterDestroy BY DEF PairInv
<1> QED BY <1>1, <1>2, <1>3, PTL DEF PairSpec
-----------------------------------------------------------------------------
\* A set of naturals that is not empty has a least member.
LEMMA LeastNat ==
  ASSUME NEW T \in SUBSET Nat, T # {}
  PROVE  \E n \in T : \A m \in T : n <= m
<1> DEFINE R == OpToRel(<, Nat)
<1>1. IsWellFoundedOn(R, Nat) BY NatLessThanWellFounded, Zenon
<1>2. \A x, y \in Nat : <<y, x>> \in R <=> y < x BY DEF OpToRel
<1> HIDE DEF R
<1>3. PICK x \in T : \A y \in T : ~(<<y, x>> \in R) BY <1>1, WFMin, Zenon
<1>4. \A y \in T : x <= y
  <2> TAKE y \in T
  <2>1. ~(y < x) BY <1>2, <1>3, Zenon
  <2> QED BY <2>1
<1> QED BY <1>4

\* What FlattenSeq computes from the front, place by place.
Joins(s, g) == [i \in 1..Len(s) |-> IF i = 1 THEN s[i] ELSE g[i - 1] \o s[i]]

\* There is such a function, by induction over the places.
LEMMA JoinsExist ==
  ASSUME NEW s, Len(s) \in Nat
  PROVE  \E g : g = Joins(s, g)
<1> DEFINE n == Len(s)
           Val(g, i) == IF i = 1 THEN s[i] ELSE g[i - 1] \o s[i]
           Upto(g, m) == \A i \in 1..n : i <= m => g[i] = Val(g, i)
           Bad == {m \in 0..n : ~(\E g : Upto(g, m))}
<1> HIDE DEF n
<1>0. n \in Nat BY DEF n
<1>1. Bad = {}
  <2> SUFFICES ASSUME Bad # {} PROVE FALSE OBVIOUS
  <2>1. Bad \in SUBSET Nat BY <1>0
  <2>2. PICK m \in Bad : \A x \in Bad : m <= x BY <2>1, LeastNat, Zenon
  <2>3. m \in 0..n /\ ~(\E g : Upto(g, m)) OBVIOUS
  <2>4. CASE m = 0
    <3>1. Upto(s, 0) BY <1>0
    <3> HIDE DEF Upto
    <3> QED BY <2>3, <2>4, <3>1
  <2>5. CASE m # 0
    <3>1. m - 1 \in 0..n /\ ~(m <= m - 1) BY <1>0, <2>3, <2>5
    <3>2. m - 1 \notin Bad BY <2>2, <3>1
    <3>3. PICK f : Upto(f, m - 1) BY <3>1, <3>2, Zenon
    <3> DEFINE g == [i \in 1..n |-> IF i = m THEN Val(f, i) ELSE f[i]]
    <3>4. Upto(g, m)
      <4> SUFFICES ASSUME NEW i \in 1..n, i <= m PROVE g[i] = Val(g, i) BY Zenon
      <4>1. i # 1 => i - 1 \in 1..n /\ g[i - 1] = f[i - 1] BY <1>0, <2>3, <2>5
      <4>2. Val(g, i) = Val(f, i) BY <4>1
      <4>3. CASE i = m BY <4>2, <4>3
      <4>4. CASE i # m
        <5>1. i <= m - 1 /\ g[i] = f[i] BY <1>0, <2>3, <4>4
        <5> QED BY <3>3, <4>2, <5>1, Zenon
      <4> QED BY <4>3, <4>4
    <3> HIDE DEF Upto, g
    <3> QED BY <2>3, <3>4
  <2> QED BY <2>4, <2>5
<1>2. PICK f : Upto(f, n)
  <2> HIDE DEF Bad, Upto
  <2>1. n \in 0..n /\ n \notin Bad BY <1>0, <1>1
  <2> QED BY <2>1 DEF Bad
<1> DEFINE g == [i \in 1..n |-> f[i]]
<1>3. ASSUME NEW i \in 1..n PROVE g[i] = Val(g, i)
  <2>1. i <= n /\ g[i] = f[i] BY <1>0
  <2>2. g[i] = Val(f, i) BY <1>2, <2>1
  <2>3. i # 1 => i - 1 \in 1..n /\ g[i - 1] = f[i - 1] BY <1>0
  <2> QED BY <2>2, <2>3
<1>4. g = Joins(s, g) BY <1>3, Zenon DEF Joins, n
<1> QED BY <1>4

\* FlattenSeq, by such a function.
LEMMA FlatDef ==
  ASSUME NEW T, NEW s \in Seq(Seq(T)), s # <<>>
  PROVE  \E g : /\ FlattenSeq(s) = g[Len(s)]
                /\ \A i \in 1..Len(s) : /\ g[i] = IF i = 1 THEN s[i] ELSE g[i - 1] \o s[i]
                                        /\ g[i] \in Seq(T)
<1>1. Len(s) \in Nat /\ Len(s) # 0 /\ \A i \in 1..Len(s) : s[i] \in Seq(T) OBVIOUS
<1>2. FlattenSeq(s) = (CHOOSE g : g = Joins(s, g))[Len(s)] BY <1>1 DEF FlattenSeq, Joins
<1>3. PICK g : g = Joins(s, g) /\ FlattenSeq(s) = g[Len(s)]
  <2>1. \E g : g = Joins(s, g) BY <1>1, JoinsExist
  <2> QED BY <1>2, <2>1, Zenon
<1>4. \A i \in 1..Len(s) : g[i] = IF i = 1 THEN s[i] ELSE g[i - 1] \o s[i] BY <1>3, Zenon DEF Joins
<1> DEFINE Bad == {i \in 1..Len(s) : g[i] \notin Seq(T)}
<1>5. Bad = {}
  <2> SUFFICES ASSUME Bad # {} PROVE FALSE OBVIOUS
  <2>1. Bad \in SUBSET Nat BY <1>1
  <2>2. PICK i \in Bad : \A x \in Bad : i <= x BY <2>1, LeastNat, Zenon
  <2>3. i \in 1..Len(s) /\ g[i] \notin Seq(T) OBVIOUS
  <2>4. i # 1 BY <1>1, <1>4, <2>3, Zenon
  <2>5. i - 1 \in 1..Len(s) /\ ~(i <= i - 1) BY <1>1, <2>3, <2>4
  <2>6. g[i - 1] \in Seq(T) BY <2>2, <2>5
  <2>7. g[i] = g[i - 1] \o s[i] /\ s[i] \in Seq(T) BY <1>1, <1>4, <2>3, <2>4, Zenon
  <2>8. g[i] \in Seq(T) BY <2>6, <2>7, ConcatProperties
  <2> QED BY <2>3, <2>8
<1> QED BY <1>3, <1>4, <1>5, Zenon

\* Nothing, and one sequence.
LEMMA FlatNone == FlattenSeq(<<>>) = <<>>
BY DEF FlattenSeq

\* Flattening sequences over a set gives a sequence over it.
LEMMA FlatType ==
  ASSUME NEW T, NEW s \in Seq(Seq(T))
  PROVE  FlattenSeq(s) \in Seq(T)
<1>1. CASE s = <<>>
  <2>1. <<>> \in Seq(T) OBVIOUS
  <2> QED BY <1>1, <2>1, FlatNone, Zenon
<1>2. CASE s # <<>>
  <2>1. Len(s) \in 1..Len(s) BY <1>2
  <2> QED BY <1>2, <2>1, FlatDef
<1> QED BY <1>1, <1>2

\* One more at the end.
LEMMA FlatAppend ==
  ASSUME NEW T, NEW s \in Seq(Seq(T)), NEW x \in Seq(T)
  PROVE  FlattenSeq(Append(s, x)) = FlattenSeq(s) \o x
<1> DEFINE t == Append(s, x)
           n == Len(s)
<1>1. /\ t \in Seq(Seq(T)) /\ t # <<>> /\ Len(t) = n + 1 /\ t[n + 1] = x /\ n \in Nat
      /\ \A i \in 1..n : t[i] = s[i] BY AppendProperties
<1> HIDE DEF t
<1>2. PICK h : /\ FlattenSeq(t) = h[Len(t)]
               /\ \A i \in 1..Len(t) : /\ h[i] = IF i = 1 THEN t[i] ELSE h[i - 1] \o t[i]
                                       /\ h[i] \in Seq(T) BY <1>1, FlatDef, Zenon
<1>3. CASE s = <<>>
  <2>1. n = 0 /\ FlattenSeq(s) = <<>> BY <1>3, FlatNone
  <2>2. FlattenSeq(t) = x BY <1>1, <1>2, <2>1
  <2> QED BY <2>1, <2>2 DEF t
<1>4. CASE s # <<>>
  <2>0. n # 0 BY <1>4
  <2>1. PICK g : /\ FlattenSeq(s) = g[n]
                 /\ \A i \in 1..n : g[i] = IF i = 1 THEN s[i] ELSE g[i - 1] \o s[i] BY <1>4, FlatDef
  <2> DEFINE Bad == {i \in 1..n : g[i] # h[i]}
  <2>2. Bad = {}
    <3> SUFFICES ASSUME Bad # {} PROVE FALSE OBVIOUS
    <3>1. Bad \in SUBSET Nat OBVIOUS
    <3>2. PICK i \in Bad : \A y \in Bad : i <= y BY <3>1, LeastNat, Zenon
    <3>3. i \in 1..n /\ g[i] # h[i] /\ i \in 1..Len(t) /\ t[i] = s[i] BY <1>1
    <3>4. i # 1 BY <1>2, <2>1, <3>3
    <3>5. i - 1 \in 1..n /\ ~(i <= i - 1) BY <1>1, <3>3, <3>4
    <3>6. g[i - 1] = h[i - 1] BY <3>2, <3>5
    <3> QED BY <1>2, <2>1, <3>3, <3>4, <3>6
  <2>3. n \in 1..n BY <1>1, <2>0
  <2>4. g[n] = h[n] BY <2>2, <2>3, Zenon
  <2>5. h[n + 1] = h[n] \o x
    <3>1. n + 1 \in 1..Len(t) /\ n + 1 # 1 /\ (n + 1) - 1 = n BY <1>1, <2>0
    <3> QED BY <1>1, <1>2, <3>1, Zenon
  <2> QED BY <1>1, <1>2, <2>1, <2>4, <2>5 DEF t
<1> QED BY <1>3, <1>4

\* Flattening a single sequence.
LEMMA FlatOne ==
  ASSUME NEW T, NEW x \in Seq(T)
  PROVE  FlattenSeq(<<x>>) = x
<1>1. <<>> \in Seq(Seq(T)) /\ <<x>> = Append(<<>>, x) OBVIOUS
<1>2. FlattenSeq(<<x>>) = <<>> \o x BY <1>1, FlatAppend, FlatNone, Zenon
<1> QED BY <1>2

\* Concatenation is associative.
LEMMA CatAssoc ==
  \A T : \A a, b, c \in Seq(T) : (a \o b) \o c = a \o (b \o c)
OBVIOUS

\* Appending to a concatenation.
LEMMA CatAppend ==
  ASSUME NEW T, NEW a \in Seq(T), NEW b \in Seq(T), NEW x \in T
  PROVE  a \o Append(b, x) = Append(a \o b, x) /\ a \o b \in Seq(T)
OBVIOUS

\* Two sequences of sequences, one after the other.
LEMMA FlatCat ==
  ASSUME NEW T, NEW s \in Seq(Seq(T)), NEW t \in Seq(Seq(T))
  PROVE  FlattenSeq(s \o t) = FlattenSeq(s) \o FlattenSeq(t)
<1> DEFINE Fine(u) == FlattenSeq(s \o u) = FlattenSeq(s) \o FlattenSeq(u)
           Bad == {m \in Nat : \E u \in Seq(Seq(T)) : Len(u) = m /\ ~Fine(u)}
<1>0. FlattenSeq(s) \in Seq(T) BY FlatType
<1>1. Bad = {}
  <2> SUFFICES ASSUME Bad # {} PROVE FALSE OBVIOUS
  <2>1. Bad \in SUBSET Nat OBVIOUS
  <2>2. PICK m \in Bad : \A y \in Bad : m <= y BY <2>1, LeastNat, Zenon
  <2>3. PICK u \in Seq(Seq(T)) : Len(u) = m /\ ~Fine(u) OBVIOUS
  <2>4. CASE u = <<>>
    <3>1. s \o u = s /\ FlattenSeq(u) = <<>> BY <2>4, FlatNone
    <3>2. FlattenSeq(s) \o <<>> = FlattenSeq(s) BY <1>0
    <3> QED BY <2>3, <3>1, <3>2
  <2>5. CASE u # <<>>
    <3>1. PICK v \in Seq(Seq(T)), x \in Seq(T) : u = Append(v, x) BY <2>5, SequenceEmptyOrAppend
    <3>2. Len(v) \in Nat /\ ~(m <= Len(v))
      <4>1. Len(u) = m BY <2>3, Zenon
      <4>2. Len(v) \in Nat /\ Len(u) = Len(v) + 1 BY <3>1, AppendProperties
      <4> HIDE DEF Fine, Bad
      <4> QED BY <4>1, <4>2
    <3>3. Fine(v) BY <2>2, <3>2, Zenon
    <3> HIDE DEF Fine, Bad
    <3>4. s \o u = Append(s \o v, x) /\ s \o v \in Seq(Seq(T))
      <4>1. s \o Append(v, x) = Append(s \o v, x) /\ s \o v \in Seq(Seq(T)) BY CatAppend, Zenon
      <4> QED BY <3>1, <4>1, Zenon
    <3>5. FlattenSeq(s \o u) = FlattenSeq(s \o v) \o x BY <3>4, FlatAppend, Zenon
    <3>6. FlattenSeq(u) = FlattenSeq(v) \o x /\ FlattenSeq(v) \in Seq(T) BY <3>1, FlatAppend, FlatType, Zenon
    <3>7. (FlattenSeq(s) \o FlattenSeq(v)) \o x = FlattenSeq(s) \o (FlattenSeq(v) \o x)
      <4>1. PICK a \in Seq(T), b \in Seq(T) : a = FlattenSeq(s) /\ b = FlattenSeq(v) BY <1>0, <3>6
      <4>2. (a \o b) \o x = a \o (b \o x) BY CatAssoc
      <4> QED BY <4>1, <4>2, Zenon
    <3> QED BY <2>3, <3>3, <3>5, <3>6, <3>7 DEF Fine
  <2> QED BY <2>4, <2>5
<1>2. Len(t) \in Nat OBVIOUS
<1> HIDE DEF Fine
<1>3. ~(\E u \in Seq(Seq(T)) : Len(u) = Len(t) /\ ~Fine(u)) BY <1>1, <1>2, Zenon
<1> QED BY <1>3 DEF Fine

-----------------------------------------------------------------------------
\* What h makes of each element of s, one after the other.
Gather(s, h) == FlattenSeq([i \in DOMAIN s |-> h[s[i]]])

\* Each place gives a sequence.
LEMMA GatherMap ==
  ASSUME NEW U, NEW T, NEW h \in [U -> Seq(T)], NEW s \in Seq(U)
  PROVE  [i \in DOMAIN s |-> h[s[i]]] \in Seq(Seq(T))
<1>1. Len(s) \in Nat /\ DOMAIN s = 1..Len(s) /\ \A i \in 1..Len(s) : h[s[i]] \in Seq(T) OBVIOUS
<1> QED BY <1>1

\* What is gathered is over the set the pieces are over.
LEMMA GatherType ==
  ASSUME NEW U, NEW T, NEW h \in [U -> Seq(T)], NEW s \in Seq(U)
  PROVE  Gather(s, h) \in Seq(T)
<1>1. PICK m \in Seq(Seq(T)) : m = [i \in DOMAIN s |-> h[s[i]]] BY GatherMap, Zenon
<1>2. FlattenSeq(m) \in Seq(T) BY FlatType
<1> QED BY <1>1, <1>2 DEF Gather

\* Nothing is gathered from nothing.
LEMMA GatherNone == \A h : Gather(<<>>, h) = <<>>
<1> TAKE h
<1>1. [i \in DOMAIN <<>> |-> h[<<>>[i]]] = <<>> OBVIOUS
<1> QED BY <1>1, FlatNone DEF Gather

\* A concatenation, place by place.
LEMMA CatPlaces ==
  ASSUME NEW T, NEW a \in Seq(T), NEW b \in Seq(T)
  PROVE  /\ a \o b \in Seq(T) /\ Len(a \o b) = Len(a) + Len(b) /\ Len(a) \in Nat /\ Len(b) \in Nat
         /\ \A i \in 1..Len(a) : (a \o b)[i] = a[i]
         /\ \A i \in 1..Len(b) : (a \o b)[Len(a) + i] = b[i]
OBVIOUS

\* Sequences are equal if they are so place by place.
LEMMA SameSeq ==
  ASSUME NEW T, NEW a \in Seq(T), NEW b \in Seq(T), Len(a) = Len(b),
         \A i \in 1..Len(a) : a[i] = b[i]
  PROVE  a = b
OBVIOUS

\* Gathering from a concatenation.
LEMMA GatherCat ==
  ASSUME NEW U, NEW T, NEW h \in [U -> Seq(T)], NEW s \in Seq(U), NEW t \in Seq(U)
  PROVE  Gather(s \o t, h) = Gather(s, h) \o Gather(t, h)
<1> DEFINE a == [i \in DOMAIN s |-> h[s[i]]]
           b == [i \in DOMAIN t |-> h[t[i]]]
           u == s \o t
           c == [i \in DOMAIN u |-> h[u[i]]]
<1>1. a \in Seq(Seq(T)) /\ b \in Seq(Seq(T)) BY GatherMap, Zenon
<1>2. u \in Seq(U) /\ Len(u) = Len(s) + Len(t) /\ DOMAIN u = 1..(Len(s) + Len(t))
      /\ \A i \in 1..(Len(s) + Len(t)) : u[i] = IF i <= Len(s) THEN s[i] ELSE t[i - Len(s)] OBVIOUS
<1>3. /\ Len(s) \in Nat /\ Len(t) \in Nat /\ DOMAIN s = 1..Len(s) /\ DOMAIN t = 1..Len(t)
      /\ Len(a) = Len(s) /\ Len(b) = Len(t)
      /\ \A i \in 1..Len(s) : a[i] = h[s[i]]
      /\ \A i \in 1..Len(t) : b[i] = h[t[i]] OBVIOUS
<1> HIDE DEF a, b, u
<1>4. c = a \o b
  <2> DEFINE d == a \o b
  <2>0. PICK V : V = Seq(T) /\ a \in Seq(V) /\ b \in Seq(V) BY <1>1
  <2>1. /\ d \in Seq(V) /\ Len(d) = Len(s) + Len(t)
        /\ \A i \in 1..Len(s) : d[i] = a[i]
        /\ \A i \in 1..Len(t) : d[Len(s) + i] = b[i]
    <3>1. /\ d \in Seq(V) /\ Len(d) = Len(a) + Len(b)
          /\ \A i \in 1..Len(a) : d[i] = a[i]
          /\ \A i \in 1..Len(b) : d[Len(a) + i] = b[i] BY <2>0, CatPlaces
    <3> HIDE DEF d
    <3> QED BY <1>3, <3>1
  <2>2. c \in Seq(V) /\ Len(c) = Len(s) + Len(t) /\ \A i \in 1..(Len(s) + Len(t)) : c[i] = h[u[i]]
    <3>1. c \in Seq(V) BY <1>2, <2>0, GatherMap
    <3> QED BY <1>2, <1>3, <3>1
  <2> HIDE DEF c, d
  <2>3. ASSUME NEW i \in 1..(Len(s) + Len(t)) PROVE c[i] = d[i]
    <3>1. CASE i <= Len(s)
      <4>1. i \in 1..Len(s) BY <1>3, <3>1
      <4>2. u[i] = s[i] BY <1>2, <3>1, Zenon
      <4>3. d[i] = a[i] /\ a[i] = h[s[i]] BY <1>3, <2>1, <4>1, Zenon
      <4>4. c[i] = h[u[i]] BY <2>2, Zenon
      <4> QED BY <4>2, <4>3, <4>4, Zenon
    <3>2. CASE ~(i <= Len(s))
      <4>1. i - Len(s) \in 1..Len(t) /\ Len(s) + (i - Len(s)) = i BY <1>3, <3>2
      <4>2. u[i] = t[i - Len(s)] /\ d[i] = b[i - Len(s)] BY <1>2, <2>1, <3>2, <4>1, Zenon
      <4>3. b[i - Len(s)] = h[t[i - Len(s)]] BY <1>3, <4>1
      <4> QED BY <2>2, <4>2, <4>3, Zenon
    <3> QED BY <3>1, <3>2
  <2> QED BY <2>1, <2>2, <2>3, SameSeq, Zenon DEF d
<1>5. FlattenSeq(c) = FlattenSeq(a) \o FlattenSeq(b) BY <1>1, <1>4, FlatCat, Zenon
<1> QED BY <1>5, Zenon DEF Gather, a, b, c, u

\* Gathering from one element.
LEMMA GatherOne ==
  ASSUME NEW U, NEW T, NEW h \in [U -> Seq(T)], NEW x \in U
  PROVE  Gather(<<x>>, h) = h[x]
<1> DEFINE s == <<x>>
<1>1. [i \in DOMAIN s |-> h[s[i]]] = <<h[x]>> OBVIOUS
<1>2. h[x] \in Seq(T) OBVIOUS
<1> HIDE DEF s
<1> QED BY <1>1, <1>2, FlatOne DEF Gather, s

\* The empty sequence, at either end.
LEMMA CatNone ==
  \A T : \A a \in Seq(T) : a \o <<>> = a /\ <<>> \o a = a
OBVIOUS

-----------------------------------------------------------------------------
\* The shape of the variables.
Items == Chunks \cup Others
Peers == {"x", "y"}

Methods == {"cycle", "pull", "push", "write", "err", "verify"} \cup Handlers

Frames ==
  [f : Methods, w : Sides, pc : 0..5, n : Nat, b : BOOLEAN, data : Seq(Items)]

Streams ==
  [pend : Seq(Seq(Items)), bytes : Int, paused : BOOLEAN, needDrain : BOOLEAN, due : Nat,
   writable : BOOLEAN, done : BOOLEAN, destroyAfterPush : BOOLEAN]

Engines ==
  [up : BOOLEAN, server : BOOLEAN, in : Seq(Items), out : Seq(Items), begun : BOOLEAN,
   flights : 0..Flights, error : BOOLEAN, shut : BOOLEAN]

Flags ==
  [started : BOOLEAN, secure : BOOLEAN, writeCalled : BOOLEAN, done : BOOLEAN, closed : BOOLEAN,
   how : {"none", "error", "done", "program"}, ripped : BOOLEAN, fault : BOOLEAN,
   failed : BOOLEAN, queued : BOOLEAN]

Nets ==
  [todo : Seq(Peers), queue : Seq(Items), flights : 0..Flights, over : BOOLEAN, paused : BOOLEAN,
   destroyed : BOOLEAN, closed : BOOLEAN, ended : BOOLEAN, raised : BOOLEAN]

Ios == [written : Seq(Chunks), wire : Seq(Items), got : Seq(Items), secures : Nat]

Types ==
  /\ st \in [Sides -> Streams] /\ ssl \in Engines /\ pair \in Flags /\ stack \in Seq(Frames)
  /\ net \in Nets /\ io \in Ios /\ calls \in 0..MaxCalls

\* The elements of a sequence of items that are in the set S.
Those(s, S) == FlattenSeq([i \in DOMAIN s |-> IF s[i] \in S THEN <<s[i]>> ELSE <<>>])

\* Selecting is gathering.
LEMMA ThoseGather ==
  ASSUME NEW S, NEW s \in Seq(Items)
  PROVE  /\ Those(s, S) = Gather(s, [x \in Items |-> IF x \in S THEN <<x>> ELSE <<>>])
         /\ [x \in Items |-> IF x \in S THEN <<x>> ELSE <<>>] \in [Items -> Seq(Items)]
<1> DEFINE h == [x \in Items |-> IF x \in S THEN <<x>> ELSE <<>>]
<1>1. h \in [Items -> Seq(Items)]
  <2>1. \A x \in Items : <<x>> \in Seq(Items) /\ <<>> \in Seq(Items) OBVIOUS
  <2> HIDE DEF Items
  <2> QED BY <2>1
<1>2. \A i \in DOMAIN s : s[i] \in Items OBVIOUS
<1>3. [i \in DOMAIN s |-> IF s[i] \in S THEN <<s[i]>> ELSE <<>>] = [i \in DOMAIN s |-> h[s[i]]] BY <1>2
<1> QED BY <1>1, <1>3, Zenon DEF Those, Gather

\* Nothing is selected from nothing.
LEMMA ThoseNone == \A S : Those(<<>>, S) = <<>>
<1> TAKE S
<1> DEFINE s == <<>>
<1>1. [i \in DOMAIN s |-> IF s[i] \in S THEN <<s[i]>> ELSE <<>>] = <<>> OBVIOUS
<1> QED BY <1>1, FlatNone DEF Those

\* Selecting from one item.
LEMMA ThoseOne ==
  ASSUME NEW S, NEW x \in Items
  PROVE  Those(<<x>>, S) = IF x \in S THEN <<x>> ELSE <<>>
<1> DEFINE h == [y \in Items |-> IF y \in S THEN <<y>> ELSE <<>>]
<1>1. <<x>> \in Seq(Items) OBVIOUS
<1>2. Those(<<x>>, S) = Gather(<<x>>, h) /\ h \in [Items -> Seq(Items)] BY <1>1, ThoseGather, Zenon
<1>3. h[x] = IF x \in S THEN <<x>> ELSE <<>> OBVIOUS
<1> HIDE DEF h
<1> QED BY <1>2, <1>3, GatherOne

\* Selecting from a concatenation.
LEMMA ThoseCat ==
  ASSUME NEW S, NEW s \in Seq(Items), NEW t \in Seq(Items)
  PROVE  Those(s \o t, S) = Those(s, S) \o Those(t, S)
<1> DEFINE h == [y \in Items |-> IF y \in S THEN <<y>> ELSE <<>>]
<1>1. s \o t \in Seq(Items) OBVIOUS
<1>2. /\ Those(s, S) = Gather(s, h) /\ Those(t, S) = Gather(t, h) /\ Those(s \o t, S) = Gather(s \o t, h)
      /\ h \in [Items -> Seq(Items)] BY <1>1, ThoseGather, Zenon
<1> HIDE DEF h
<1> QED BY <1>2, GatherCat

\* What is selected are items.
LEMMA ThoseType ==
  ASSUME NEW S, NEW s \in Seq(Items)
  PROVE  Those(s, S) \in Seq(Items)
<1> DEFINE h == [y \in Items |-> IF y \in S THEN <<y>> ELSE <<>>]
<1>1. Those(s, S) = Gather(s, h) /\ h \in [Items -> Seq(Items)] BY ThoseGather
<1> HIDE DEF h
<1> QED BY <1>1, GatherType

-----------------------------------------------------------------------------
\* Sequences that contribute nothing.
LEMMA FlatEmpty ==
  ASSUME NEW T, NEW s \in Seq(Seq(T)), \A i \in DOMAIN s : s[i] = <<>>
  PROVE  FlattenSeq(s) = <<>>
<1>1. CASE s = <<>> BY <1>1, FlatNone
<1>2. CASE s # <<>>
  <2>1. PICK g : /\ FlattenSeq(s) = g[Len(s)]
                 /\ \A i \in 1..Len(s) : g[i] = IF i = 1 THEN s[i] ELSE g[i - 1] \o s[i] BY <1>2, FlatDef
  <2>2. Len(s) \in Nat /\ Len(s) \in 1..Len(s) /\ DOMAIN s = 1..Len(s) BY <1>2
  <2> DEFINE Bad == {i \in 1..Len(s) : g[i] # <<>>}
  <2>3. Bad = {}
    <3> SUFFICES ASSUME Bad # {} PROVE FALSE OBVIOUS
    <3>1. Bad \in SUBSET Nat BY <2>2
    <3>2. PICK i \in Bad : \A y \in Bad : i <= y BY <3>1, LeastNat, Zenon
    <3>3. i \in 1..Len(s) /\ g[i] # <<>> /\ s[i] = <<>> BY <2>2, Zenon
    <3>4. i # 1 BY <2>1, <3>3
    <3>5. i - 1 \in 1..Len(s) /\ ~(i <= i - 1) BY <2>2, <3>3, <3>4
    <3>6. g[i - 1] = <<>> BY <3>2, <3>5
    <3>7. g[i] = <<>> \o <<>> BY <2>1, <3>3, <3>4, <3>6, Zenon
    <3>8. <<>> \o <<>> = <<>> OBVIOUS
    <3> QED BY <3>3, <3>7, <3>8
  <2> QED BY <2>1, <2>2, <2>3, Zenon
<1> QED BY <1>1, <1>2

\* A frame on top of a stack.
LEMMA ConsPlaces ==
  ASSUME NEW T, NEW s \in Seq(T), NEW x \in T, NEW u, u = <<x>> \o s
  PROVE  /\ u \in Seq(T) /\ u # <<>> /\ Head(u) = x /\ Tail(u) = s
         /\ Len(s) \in Nat /\ DOMAIN s = 1..Len(s) /\ Len(u) = Len(s) + 1 /\ DOMAIN u = 1..(Len(s) + 1)
         /\ u[1] = x /\ \A i \in 1..Len(s) : u[i + 1] = s[i]
<1>1. u \in Seq(T) /\ Len(s) \in Nat /\ DOMAIN s = 1..Len(s) /\ Len(u) = Len(s) + 1 /\ DOMAIN u = 1..(Len(s) + 1)
  OBVIOUS
<1>2. u[1] = x /\ \A i \in 1..Len(s) : u[i + 1] = s[i] OBVIOUS
<1>3. u # <<>> /\ Head(u) = x BY <1>1, <1>2
<1>4. Tail(u) = s
  <2>1. Tail(u) \in Seq(T) /\ Len(Tail(u)) = Len(s) /\ \A i \in 1..Len(s) : Tail(u)[i] = u[i + 1] BY <1>1, <1>3
  <2> QED BY <1>2, <2>1, SameSeq
<1> QED BY <1>1, <1>2, <1>3, <1>4

\* A sequence that is not empty has a first element and the rest.
LEMMA ConsParts ==
  ASSUME NEW T, NEW s \in Seq(T), s # <<>>
  PROVE  Head(s) \in T /\ Tail(s) \in Seq(T) /\ s = <<Head(s)>> \o Tail(s) /\ Head(s) = s[1] /\ Len(s) > 0
<1>1. Head(s) \in T /\ Tail(s) \in Seq(T) /\ Head(s) = s[1] /\ Len(s) > 0 /\ Len(s) \in Nat
      /\ Len(Tail(s)) = Len(s) - 1 /\ \A i \in 1..(Len(s) - 1) : Tail(s)[i] = s[i + 1] OBVIOUS
<1> DEFINE u == <<Head(s)>> \o Tail(s)
<1>2. /\ u \in Seq(T) /\ Len(u) = Len(s) /\ u[1] = s[1]
      /\ \A i \in 1..(Len(s) - 1) : u[i + 1] = s[i + 1] BY <1>1, ConsPlaces
<1> HIDE DEF u
<1>3. ASSUME NEW i \in 1..Len(s) PROVE u[i] = s[i]
  <2>1. CASE i = 1 BY <1>2, <2>1
  <2>2. CASE i # 1
    <3>1. i - 1 \in 1..(Len(s) - 1) /\ (i - 1) + 1 = i BY <1>1, <2>2
    <3> QED BY <1>2, <3>1
  <2> QED BY <2>1, <2>2
<1>4. u = s BY <1>2, <1>3, SameSeq
<1> QED BY <1>1, <1>4 DEF u

\* Two frames at once.
LEMMA ConsTwo ==
  ASSUME NEW T, NEW s \in Seq(T), NEW x \in T, NEW y \in T
  PROVE  <<x, y>> \o s = <<x>> \o (<<y>> \o s) /\ <<>> \o s = s
<1>0. <<x>> \in Seq(T) /\ <<y>> \in Seq(T) /\ <<x, y>> \in Seq(T) OBVIOUS
<1>1. <<x, y>> = <<x>> \o <<y>>
  <2> DEFINE u == <<x>> \o <<y>>
  <2>1. u \in Seq(T) /\ Len(u) = 2 /\ u[1] = x /\ u[2] = y BY <1>0, CatPlaces
  <2> HIDE DEF u
  <2>2. \A i \in 1..2 : u[i] = <<x, y>>[i] BY <2>1
  <2>3. u = <<x, y>> BY <1>0, <2>1, <2>2, SameSeq
  <2> QED BY <2>3, Zenon DEF u
<1>2. (<<x>> \o <<y>>) \o s = <<x>> \o (<<y>> \o s) BY <1>0, CatAssoc
<1> QED BY <1>1, <1>2, CatNone

\* The last entry of a queue and the entries before it.
LEMMA FrontLast ==
  ASSUME NEW T, NEW s \in Seq(T), s # <<>>
  PROVE  /\ Front(s) \in Seq(T) /\ Last(s) \in T /\ s = Append(Front(s), Last(s))
         /\ Len(Front(s)) = Len(s) - 1
<1>1. Len(s) \in Nat /\ Len(s) > 0 /\ Last(s) = s[Len(s)] /\ Last(s) \in T BY DEF Last
<1>2. /\ Front(s) \in Seq(T) /\ Len(Front(s)) = Len(s) - 1
      /\ \A i \in 1..(Len(s) - 1) : Front(s)[i] = s[i]
  <2>1. \A i \in 1..(Len(s) - 1) : s[i] \in T BY <1>1
  <2>2. Front(s) = SubSeq(s, 1, Len(s) - 1) BY <1>1 DEF Front
  <2>3. PICK n : n = Len(s) - 1 /\ n \in Nat /\ n \in Int /\ 1 \in Int BY <1>1
  <2>4. \A i \in 1..n : s[i] \in T BY <2>1, <2>3
  <2> DEFINE u == SubSeq(s, 1, n)
  <2>5. /\ u \in Seq(T) /\ Len(u) = (IF 1 <= n THEN n - 1 + 1 ELSE 0)
        /\ \A i \in 1..(n - 1 + 1) : u[i] = s[1 + i - 1]
    <3>1. u \in Seq(T) BY <2>3, <2>4
    <3>2. Len(u) = (IF 1 <= n THEN n - 1 + 1 ELSE 0) BY <2>3
    <3>3. \A i \in 1..(n - 1 + 1) : u[i] = s[1 + i - 1] BY <2>3
    <3> QED BY <3>1, <3>2, <3>3
  <2> HIDE DEF u
  <2>6. Len(u) = n /\ \A i \in 1..n : u[i] = s[i]
    <3>1. n - 1 + 1 = n /\ \A i \in 1..n : 1 + i - 1 = i BY <2>3
    <3> QED BY <2>3, <2>5, <3>1
  <2>7. Front(s) = u BY <2>2, <2>3 DEF u
  <2> QED BY <2>3, <2>5, <2>6, <2>7
<1> DEFINE u == Append(Front(s), Last(s))
<1>3. /\ u \in Seq(T) /\ Len(u) = Len(s) /\ u[Len(s)] = s[Len(s)]
      /\ \A i \in 1..(Len(s) - 1) : u[i] = s[i] BY <1>1, <1>2
<1> HIDE DEF u
<1>4. \A i \in 1..Len(s) : u[i] = s[i] BY <1>1, <1>3
<1>5. u = s BY <1>3, <1>4, SameSeq
<1> QED BY <1>1, <1>2, <1>5 DEF u

-----------------------------------------------------------------------------
\* What one frame has in its hands.
Hand(x, f, w) == IF InHand(x, f, w) THEN x.data ELSE <<>>

\* What a stack has in its hands is gathered from its frames.
LEMMA HeldGather ==
  ASSUME NEW s \in Seq(Frames), NEW f, NEW w
  PROVE  /\ Held(s, f, w) = Gather(s, [x \in Frames |-> Hand(x, f, w)])
         /\ [x \in Frames |-> Hand(x, f, w)] \in [Frames -> Seq(Items)]
<1> DEFINE h == [x \in Frames |-> Hand(x, f, w)]
<1>1. h \in [Frames -> Seq(Items)]
  <2>1. \A x \in Frames : x.data \in Seq(Items) BY DEF Frames
  <2>2. <<>> \in Seq(Items) OBVIOUS
  <2>3. \A x \in Frames : Hand(x, f, w) \in Seq(Items) BY <2>1, <2>2 DEF Hand
  <2> QED BY <2>3
<1>2. \A i \in DOMAIN s : s[i] \in Frames OBVIOUS
<1>3. [i \in DOMAIN s |-> IF InHand(s[i], f, w) THEN s[i].data ELSE <<>>] = [i \in DOMAIN s |-> h[s[i]]]
  BY <1>2 DEF Hand
<1> QED BY <1>1, <1>3, Zenon DEF Held, Gather

\* What a stack with a frame more has in its hands.
LEMMA HeldCons ==
  ASSUME NEW s \in Seq(Frames), NEW x \in Frames, NEW f, NEW w
  PROVE  /\ Held(<<x>> \o s, f, w) = Hand(x, f, w) \o Held(s, f, w)
         /\ Held(s, f, w) \in Seq(Items) /\ Hand(x, f, w) \in Seq(Items)
<1> DEFINE h == [y \in Frames |-> Hand(y, f, w)]
<1>1. <<x>> \in Seq(Frames) /\ <<x>> \o s \in Seq(Frames) OBVIOUS
<1>2. /\ Held(s, f, w) = Gather(s, h) /\ Held(<<x>> \o s, f, w) = Gather(<<x>> \o s, h)
      /\ h \in [Frames -> Seq(Items)] BY <1>1, HeldGather, Zenon
<1>3. h[x] = Hand(x, f, w) OBVIOUS
<1> HIDE DEF h
<1>4. Gather(<<x>> \o s, h) = Gather(<<x>>, h) \o Gather(s, h) BY <1>1, <1>2, GatherCat, Zenon
<1>5. Gather(<<x>>, h) = h[x] /\ Gather(s, h) \in Seq(Items) /\ h[x] \in Seq(Items)
  BY <1>2, GatherOne, GatherType, Zenon
<1> QED BY <1>2, <1>3, <1>4, <1>5, Zenon

\* An empty stack has nothing in its hands.
LEMMA HeldNone == \A f, w : Held(<<>>, f, w) = <<>>
<1> TAKE f, w
<1>1. <<>> \in Seq(Frames) OBVIOUS
<1> QED BY <1>1, HeldGather, GatherNone, Zenon

\* Only frames on the stack have something in their hands.
LEMMA HeldNobody ==
  ASSUME NEW s \in Seq(Frames), NEW f, NEW w, \A i \in DOMAIN s : Hand(s[i], f, w) = <<>>
  PROVE  Held(s, f, w) = <<>>
<1> DEFINE h == [x \in Frames |-> Hand(x, f, w)]
           m == [i \in DOMAIN s |-> h[s[i]]]
<1>1. Held(s, f, w) = FlattenSeq(m) /\ h \in [Frames -> Seq(Items)] BY HeldGather, Zenon DEF Gather
<1>2. \A i \in DOMAIN s : s[i] \in Frames OBVIOUS
<1>3. \A i \in DOMAIN s : m[i] = <<>> BY <1>2
<1> HIDE DEF h
<1>4. m \in Seq(Seq(Items)) BY <1>1, GatherMap, Zenon
<1>5. DOMAIN m = DOMAIN s OBVIOUS
<1> HIDE DEF m
<1> QED BY <1>1, <1>3, <1>4, <1>5, FlatEmpty

-----------------------------------------------------------------------------
\* The stage of cycle that calls the method of a frame.
StageOf(x) ==
  IF x.f = "pull" THEN (IF x.w = "enc" THEN 1 ELSE 2) ELSE (IF x.w = "clr" THEN 3 ELSE 4)

Moving(x) == x.f \in {"pull", "push"}

\* The methods that a lock of cycle keeps from being called twice.
Exclusive(x) == x.f = "push" \/ (x.f = "pull" /\ x.w = "clr")

\* A _pull whose entry the engine did not take, and a _push that has read
\* nothing.
Refusing(x) == x.f = "pull" /\ x.pc = 2 /\ ~x.b
EmptyPush(x) == x.f = "push" /\ x.pc = 3 /\ x.data = <<>>

\* What the program writes at once: one chunk.
Chunked(d) == \E c \in Chunks : d = <<c>>

\* A single frame, when the flags of the pair are p.
FrameFits(x, p) ==
  /\ x.f = "pull" => x.pc \in 0..2
  /\ x.f = "push" => x.pc \in {0, 2, 3} /\ (x.pc = 2 => x.w = "clr") /\ (x.pc = 0 => x.data = <<>>)
  /\ Refusing(x) => x.w = "clr" /\ Chunked(x.data)
  /\ x.f = "push" /\ x.w = "clr" /\ x.data # <<>> => p.secure
  /\ x.f = "cycle" /\ x.b => p.secure
  /\ p.fault => x.f \in Handlers \cup {"write"} \/ (x.f = "cycle" /\ x.pc = 0)

\* What lies under another frame: it waits for nothing the engine refused, and
\* a _push that has read nothing waits for the listeners of 'secure', so that
\* its cycle will go round again.
Waits(s, i, p) ==
  /\ ~Refusing(s[i])
  /\ EmptyPush(s[i]) => i + 1 \in DOMAIN s /\ ~s[i + 1].b /\ p.secure

\* The call stack: every _pull and _push was called by its stage of cycle, and
\* the locks hold.
StackFits(s, p) ==
  /\ s \in Seq(Frames)
  /\ \A i \in DOMAIN s : FrameFits(s[i], p)
  /\ \A i \in DOMAIN s : Moving(s[i]) =>
       i + 1 \in DOMAIN s /\ s[i + 1].f = "cycle" /\ s[i + 1].pc = StageOf(s[i]) + 1
  /\ \A i, j \in DOMAIN s : s[i].f = s[j].f /\ s[i].w = s[j].w /\ Exclusive(s[i]) => i = j
  /\ \A i \in DOMAIN s : i > 1 => Waits(s, i, p)

\* A method returns.
LEMMA FitsTail ==
  ASSUME NEW s, NEW p, StackFits(s, p), s # <<>>
  PROVE  /\ StackFits(Tail(s), p)
         /\ Head(s) \in Frames /\ FrameFits(Head(s), p) /\ s = <<Head(s)>> \o Tail(s) /\ Tail(s) \in Seq(Frames)
         /\ Moving(Head(s)) => /\ Tail(s) # <<>> /\ Head(Tail(s)).f = "cycle"
                               /\ Head(Tail(s)).pc = StageOf(Head(s)) + 1
         /\ Exclusive(Head(s)) => ~OnStack(Tail(s), Head(s).f, Head(s).w)
         /\ Tail(s) # <<>> => /\ ~Refusing(Head(Tail(s)))
                              /\ EmptyPush(Head(Tail(s))) => /\ Tail(Tail(s)) # <<>> /\ ~Head(Tail(Tail(s))).b
                                                             /\ p.secure
<1> DEFINE t == Tail(s)
<1>1. s \in Seq(Frames) BY DEF StackFits
<1>2. Head(s) \in Frames /\ t \in Seq(Frames) /\ s = <<Head(s)>> \o t /\ Head(s) = s[1] /\ Len(s) > 0
  BY <1>1, ConsParts
<1>3. /\ Len(t) \in Nat /\ DOMAIN t = 1..Len(t) /\ Len(s) = Len(t) + 1 /\ DOMAIN s = 1..(Len(t) + 1)
      /\ \A i \in 1..Len(t) : s[i + 1] = t[i] BY <1>2, ConsPlaces
<1> HIDE DEF t
<1>4. ASSUME NEW i \in DOMAIN t PROVE i + 1 \in DOMAIN s /\ t[i] = s[i + 1] /\ i + 1 > 1 BY <1>3
<1>5. ASSUME NEW i \in DOMAIN t, (i + 1) + 1 \in DOMAIN s PROVE i + 1 \in DOMAIN t /\ t[i + 1] = s[(i + 1) + 1]
  BY <1>3, <1>5
<1>6. StackFits(t, p)
  <2>1. \A i \in DOMAIN t : FrameFits(t[i], p) BY <1>4 DEF StackFits
  <2>2. ASSUME NEW i \in DOMAIN t, Moving(t[i])
        PROVE  i + 1 \in DOMAIN t /\ t[i + 1].f = "cycle" /\ t[i + 1].pc = StageOf(t[i]) + 1
    <3>1. i + 1 \in DOMAIN s /\ Moving(s[i + 1]) /\ t[i] = s[i + 1] BY <1>4, <2>2
    <3>2. (i + 1) + 1 \in DOMAIN s /\ s[(i + 1) + 1].f = "cycle" /\ s[(i + 1) + 1].pc = StageOf(s[i + 1]) + 1
      BY <3>1 DEF StackFits
    <3> QED BY <1>5, <3>1, <3>2
  <2>3. ASSUME NEW i \in DOMAIN t, NEW j \in DOMAIN t, t[i].f = t[j].f, t[i].w = t[j].w, Exclusive(t[i])
        PROVE  i = j
    <3>1. i + 1 = j + 1 BY <1>4, <2>3 DEF StackFits
    <3> QED BY <1>3, <3>1
  <2>4. ASSUME NEW i \in DOMAIN t, i > 1 PROVE Waits(t, i, p)
    <3>1. Waits(s, i + 1, p) BY <1>4 DEF StackFits
    <3> QED BY <1>4, <1>5, <3>1 DEF Waits
  <2> QED BY <1>2, <2>1, <2>2, <2>3, <2>4 DEF StackFits
<1>7. 1 \in DOMAIN s BY <1>3
<1>8. FrameFits(Head(s), p) BY <1>2, <1>7 DEF StackFits
<1>9. t # <<>> => 1 \in DOMAIN t /\ Head(t) = t[1] /\ t[1] = s[2] /\ 2 \in DOMAIN s BY <1>2, <1>3
<1>10. 2 \in DOMAIN s => t # <<>> BY <1>2, <1>3
<1>11. Moving(Head(s)) => t # <<>> /\ Head(t).f = "cycle" /\ Head(t).pc = StageOf(Head(s)) + 1
  <2>1. Moving(s[1]) => 1 + 1 \in DOMAIN s /\ s[1 + 1].f = "cycle" /\ s[1 + 1].pc = StageOf(s[1]) + 1
    BY <1>7 DEF StackFits
  <2>2. 1 + 1 = 2 OBVIOUS
  <2> QED BY <1>2, <1>9, <1>10, <2>1, <2>2
<1>12. Exclusive(Head(s)) => ~OnStack(t, Head(s).f, Head(s).w)
  <2> SUFFICES ASSUME Exclusive(s[1]), NEW i \in DOMAIN t, t[i].f = s[1].f, t[i].w = s[1].w PROVE FALSE
    BY <1>2 DEF OnStack
  <2>1. 1 = i + 1 BY <1>4, <1>7 DEF StackFits
  <2> QED BY <1>4, <2>1
<1>13. ASSUME t # <<>>
       PROVE  /\ ~Refusing(Head(t))
              /\ EmptyPush(Head(t)) => Tail(t) # <<>> /\ ~Head(Tail(t)).b /\ p.secure
  <2>1. 2 \in DOMAIN s /\ 2 > 1 /\ s[2] = Head(t) /\ 2 + 1 = 3 BY <1>9, <1>13
  <2>2. Waits(s, 2, p) BY <2>1 DEF StackFits
  <2>3. 3 \in DOMAIN s => Tail(t) # <<>> /\ Head(Tail(t)) = s[3]
    <3> SUFFICES ASSUME 3 \in DOMAIN s PROVE Tail(t) # <<>> /\ Head(Tail(t)) = s[3] OBVIOUS
    <3> DEFINE v == Tail(t)
    <3>0. v \in Seq(Frames) /\ t = <<Head(t)>> \o v BY <1>2, <1>13, ConsParts
    <3>3. Head(t) \in Frames BY <1>2, <1>13, ConsParts
    <3>1. v \in Seq(Frames) /\ Len(t) = Len(v) + 1 /\ Len(v) \in Nat /\ \A i \in 1..Len(v) : t[i + 1] = v[i]
      BY <3>0, <3>3, ConsPlaces
    <3> HIDE DEF v
    <3>2. Len(v) >= 1 /\ v[1] = t[2] /\ t[2] = s[3] BY <1>3, <3>1
    <3>4. v # <<>> /\ Head(v) = v[1] BY <3>1, <3>2
    <3> QED BY <3>2, <3>4 DEF v
  <2> QED BY <2>1, <2>2, <2>3 DEF Waits
<1> QED BY <1>2, <1>6, <1>8, <1>11, <1>12, <1>13, Zenon DEF t

\* A method is called.
LEMMA FitsCons ==
  ASSUME NEW s, NEW p, StackFits(s, p), NEW x \in Frames, FrameFits(x, p),
         Moving(x) => s # <<>> /\ Head(s).f = "cycle" /\ Head(s).pc = StageOf(x) + 1,
         Exclusive(x) => ~OnStack(s, x.f, x.w),
         s # <<>> => /\ ~Refusing(Head(s))
                     /\ EmptyPush(Head(s)) => Tail(s) # <<>> /\ ~Head(Tail(s)).b /\ p.secure
  PROVE  StackFits(<<x>> \o s, p)
<1> DEFINE u == <<x>> \o s
<1>0. s \in Seq(Frames) BY DEF StackFits
<1>1. /\ u \in Seq(Frames) /\ Len(s) \in Nat /\ DOMAIN s = 1..Len(s) /\ Len(u) = Len(s) + 1
      /\ DOMAIN u = 1..(Len(s) + 1) /\ u[1] = x /\ \A i \in 1..Len(s) : u[i + 1] = s[i] BY <1>0, ConsPlaces
<1> HIDE DEF u
<1>2. \A i \in DOMAIN u : i = 1 \/ (i - 1 \in DOMAIN s /\ u[i] = s[i - 1] /\ (i - 1) + 1 = i)
  <2> TAKE i \in DOMAIN u
  <2>1. i # 1 => i - 1 \in 1..Len(s) /\ (i - 1) + 1 = i BY <1>1
  <2> QED BY <1>1, <2>1
<1>3. \A i \in DOMAIN s : i + 1 \in DOMAIN u /\ u[i + 1] = s[i] BY <1>1
<1>4. s # <<>> => Head(s) = s[1] /\ 1 \in DOMAIN s BY <1>0, <1>1
<1>5. \A i \in DOMAIN u : FrameFits(u[i], p) BY <1>1, <1>2, Zenon DEF StackFits
<1>6. ASSUME NEW i \in DOMAIN u, Moving(u[i])
      PROVE  i + 1 \in DOMAIN u /\ u[i + 1].f = "cycle" /\ u[i + 1].pc = StageOf(u[i]) + 1
  <2>1. CASE i = 1 BY <1>1, <1>3, <1>4, <1>6, <2>1, Zenon
  <2>2. CASE i # 1
    <3>1. i - 1 \in DOMAIN s /\ u[i] = s[i - 1] /\ (i - 1) + 1 = i BY <1>2, <2>2
    <3>2. i \in DOMAIN s /\ s[i].f = "cycle" /\ s[i].pc = StageOf(s[i - 1]) + 1 BY <1>6, <3>1 DEF StackFits
    <3> QED BY <1>3, <3>1, <3>2
  <2> QED BY <2>1, <2>2
<1>7. ASSUME NEW i \in DOMAIN u, NEW j \in DOMAIN u, u[i].f = u[j].f, u[i].w = u[j].w, Exclusive(u[i])
      PROVE  i = j
  <2>1. Exclusive(u[j]) BY <1>7 DEF Exclusive
  <2>2. CASE i = 1 /\ j # 1 BY <1>1, <1>2, <1>7, <2>2 DEF OnStack
  <2>3. CASE i # 1 /\ j = 1 BY <1>1, <1>2, <1>7, <2>1, <2>3 DEF OnStack
  <2>4. CASE i # 1 /\ j # 1
    <3>1. i - 1 = j - 1
      <4>1. i - 1 \in DOMAIN s /\ j - 1 \in DOMAIN s /\ u[i] = s[i - 1] /\ u[j] = s[j - 1] BY <1>2, <1>7, <2>4
      <4>2. \A k, l \in DOMAIN s : s[k].f = s[l].f /\ s[k].w = s[l].w /\ Exclusive(s[k]) => k = l
        BY Zenon DEF StackFits
      <4> QED BY <1>7, <4>1, <4>2, Zenon
    <3> QED BY <1>1, <3>1
  <2> QED BY <2>2, <2>3, <2>4
<1>8. ASSUME NEW i \in DOMAIN u, i > 1 PROVE Waits(u, i, p)
  <2>0. i - 1 \in DOMAIN s /\ u[i] = s[i - 1] /\ (i - 1) + 1 = i BY <1>2, <1>8
  <2>1. CASE i = 2
    <3>1. s # <<>> /\ u[2] = Head(s) /\ i - 1 = 1 BY <1>0, <1>1, <1>4, <2>0, <2>1
    <3>2. ~Refusing(u[2]) BY <3>1
    <3>3. ASSUME EmptyPush(u[2]) PROVE 2 + 1 \in DOMAIN u /\ ~u[2 + 1].b /\ p.secure
      <4>1. Tail(s) # <<>> /\ ~Head(Tail(s)).b /\ p.secure BY <3>1, <3>3
      <4>2. 2 \in DOMAIN s /\ s[2] = Head(Tail(s))
        <5> DEFINE v == Tail(s)
        <5>1. v \in Seq(Frames) /\ s = <<Head(s)>> \o v /\ Head(s) \in Frames BY <1>0, <3>1, ConsParts
        <5>2. Len(s) = Len(v) + 1 /\ Len(v) \in Nat /\ \A k \in 1..Len(v) : s[k + 1] = v[k] BY <5>1, ConsPlaces
        <5>3. v # <<>> BY <4>1
        <5> HIDE DEF v
        <5>4. Len(v) >= 1 /\ Head(v) = v[1] BY <5>1, <5>3
        <5>5. s[1 + 1] = v[1] /\ 1 + 1 = 2 BY <5>2, <5>4
        <5> QED BY <1>1, <5>2, <5>4, <5>5 DEF v
      <4> QED BY <1>3, <4>1, <4>2
    <3> QED BY <2>1, <3>2, <3>3 DEF Waits
  <2>2. CASE i # 2
    <3>1. i - 1 > 1 BY <1>1, <1>8, <2>2
    <3>2. Waits(s, i - 1, p) BY <2>0, <3>1 DEF StackFits
    <3> QED BY <1>3, <2>0, <3>2 DEF Waits
  <2> QED BY <2>1, <2>2
<1>9. StackFits(u, p) BY <1>1, <1>5, <1>6, <1>7, <1>8 DEF StackFits
<1> QED BY <1>9 DEF u

\* The stack stays as it is and the flags of the pair go on.
LEMMA FitsLater ==
  ASSUME NEW s, NEW p, NEW q, StackFits(s, p), p.secure => q.secure, q.fault => p.fault
  PROVE  StackFits(s, q)
<1>1. \A x : FrameFits(x, p) => FrameFits(x, q) BY DEF FrameFits
<1>2. \A i : Waits(s, i, p) => Waits(s, i, q) BY DEF Waits
<1> QED BY <1>1, <1>2 DEF StackFits

\* The empty stack fits.
LEMMA FitsNone == \A p : StackFits(<<>>, p)
BY DEF StackFits

\* The top frame gives way to another one, of the same method if it moves data.
LEMMA FitsSwap ==
  ASSUME NEW s, NEW p, StackFits(s, p), s # <<>>, NEW x \in Frames, FrameFits(x, p),
         Moving(x) => x.f = Head(s).f /\ x.w = Head(s).w
  PROVE  StackFits(<<x>> \o Tail(s), p)
<1>1. Moving(x) => Moving(Head(s)) /\ StageOf(x) = StageOf(Head(s)) BY DEF Moving, StageOf
<1>2. Exclusive(x) => Moving(x) /\ Exclusive(Head(s)) BY DEF Exclusive, Moving
<1> QED BY <1>1, <1>2, FitsTail, FitsCons, Zenon

\* The same, and it calls one that moves no data.
LEMMA FitsSwapTwo ==
  ASSUME NEW s, NEW p, StackFits(s, p), s # <<>>, NEW x \in Frames, FrameFits(x, p), ~Moving(x),
         NEW y \in Frames, FrameFits(y, p), Moving(y) => y.f = Head(s).f /\ y.w = Head(s).w,
         ~Refusing(y), EmptyPush(y) => ~Head(Tail(s)).b /\ p.secure
  PROVE  /\ StackFits(<<x, y>> \o Tail(s), p)
         /\ <<x, y>> \o Tail(s) = <<x>> \o (<<y>> \o Tail(s))
<1> DEFINE u == <<y>> \o Tail(s)
<1>1. Tail(s) \in Seq(Frames) BY FitsTail, Zenon
<1>2. StackFits(u, p) BY FitsSwap
<1>3. u # <<>> /\ Head(u) = y /\ Tail(u) = Tail(s) BY <1>1, ConsPlaces
<1>4. EmptyPush(y) => Tail(s) # <<>>
  <2>1. EmptyPush(y) => Moving(y) BY DEF EmptyPush, Moving
  <2>2. Moving(y) => Moving(Head(s)) BY DEF Moving
  <2> QED BY <2>1, <2>2, FitsTail, Zenon
<1>5. ~Exclusive(x) BY DEF Exclusive, Moving
<1>6. <<x, y>> \o Tail(s) = <<x>> \o u BY <1>1, ConsTwo
<1> HIDE DEF u
<1>7. StackFits(<<x>> \o u, p) BY <1>2, <1>3, <1>4, <1>5, FitsCons, Zenon
<1> QED BY <1>6, <1>7, Zenon DEF u

\* A stage of cycle calls its method.
LEMMA FitsStage ==
  ASSUME NEW s, NEW p, StackFits(s, p), s # <<>>, Head(s).f = "cycle",
         NEW y \in Frames, FrameFits(y, p), y.f = "cycle",
         NEW x \in Frames, FrameFits(x, p), ~Refusing(x), Moving(x), y.pc = StageOf(x) + 1,
         Exclusive(x) => ~OnStack(s, x.f, x.w)
  PROVE  StackFits(<<x, y>> \o Tail(s), p) /\ <<x, y>> \o Tail(s) = <<x>> \o (<<y>> \o Tail(s))
<1> DEFINE u == <<y>> \o Tail(s)
<1>1. Tail(s) \in Seq(Frames) /\ s = <<Head(s)>> \o Tail(s) /\ Head(s) \in Frames /\ StackFits(Tail(s), p) BY FitsTail
<1>2. ~Moving(y) /\ ~Refusing(y) /\ ~EmptyPush(y) BY DEF Moving, Refusing, EmptyPush
<1>3. StackFits(u, p) BY <1>2, FitsSwap
<1>4. /\ u # <<>> /\ Head(u) = y /\ u \in Seq(Frames) /\ DOMAIN u = 1..(Len(Tail(s)) + 1) /\ Len(Tail(s)) \in Nat
      /\ u[1] = y /\ \A i \in 1..Len(Tail(s)) : u[i + 1] = Tail(s)[i] BY <1>1, ConsPlaces
<1>5. DOMAIN s = 1..(Len(Tail(s)) + 1) /\ \A i \in 1..Len(Tail(s)) : s[i + 1] = Tail(s)[i] BY <1>1, ConsPlaces
<1>6. <<x, y>> \o Tail(s) = <<x>> \o u BY <1>1, ConsTwo
<1> HIDE DEF u
<1>7. \A i \in DOMAIN u : i = 1 \/ (i \in DOMAIN s /\ u[i] = s[i])
  <2> TAKE i \in DOMAIN u
  <2>1. i # 1 => i - 1 \in 1..Len(Tail(s)) /\ (i - 1) + 1 = i BY <1>4
  <2> QED BY <1>4, <1>5, <2>1
<1>8. Exclusive(x) => ~OnStack(u, x.f, x.w) BY <1>4, <1>7 DEF OnStack, Exclusive
<1>9. StackFits(<<x>> \o u, p) BY <1>2, <1>3, <1>4, <1>8, FitsCons
<1> QED BY <1>6, <1>9, Zenon DEF u

\* The program, in a handler or from the event loop, calls a method.
LEMMA FitsCall ==
  ASSUME NEW s, NEW p, StackFits(s, p), s = <<>> \/ ~Moving(Head(s)),
         NEW x \in Frames, FrameFits(x, p), ~Moving(x)
  PROVE  StackFits(<<x>> \o s, p)
<1>1. ~Exclusive(x) BY DEF Exclusive, Moving
<1>2. s # <<>> => ~Refusing(Head(s)) /\ ~EmptyPush(Head(s)) BY DEF Refusing, EmptyPush, Moving
<1> QED BY <1>1, <1>2, FitsCons

\* Two frames more that hold nothing.
LEMMA FitsCallTwo ==
  ASSUME NEW s, NEW p, StackFits(s, p), s = <<>> \/ ~Moving(Head(s)),
         NEW x \in Frames, FrameFits(x, p), ~Moving(x), NEW y \in Frames, FrameFits(y, p), ~Moving(y)
  PROVE  StackFits(<<x, y>> \o s, p) /\ <<x, y>> \o s = <<x>> \o (<<y>> \o s)
<1> DEFINE u == <<y>> \o s
<1>1. s \in Seq(Frames) BY DEF StackFits
<1>2. StackFits(u, p) BY FitsCall
<1>3. u # <<>> /\ Head(u) = y /\ <<x, y>> \o s = <<x>> \o u BY <1>1, ConsPlaces, ConsTwo
<1> HIDE DEF u
<1>4. StackFits(<<x>> \o u, p) BY <1>2, <1>3, FitsCall
<1> QED BY <1>3, <1>4, Zenon DEF u

-----------------------------------------------------------------------------
\* The frames of the code.
LEMMA FrameMade ==
  ASSUME NEW f \in Methods, NEW w \in Sides, NEW pc \in 0..5
  PROVE  /\ Frame(f, w, pc) \in Frames /\ Frame(f, w, pc).f = f /\ Frame(f, w, pc).w = w
         /\ Frame(f, w, pc).pc = pc /\ Frame(f, w, pc).n = 0 /\ ~Frame(f, w, pc).b
         /\ Frame(f, w, pc).data = <<>>
<1>1. <<>> \in Seq(Items) OBVIOUS
<1> HIDE DEF Items, Methods
<1> QED BY <1>1 DEF Frame, Frames

\* What a frame may be changed to: where it is ...
LEMMA FrameAt ==
  ASSUME NEW x \in Frames, NEW pc \in 0..5
  PROVE  LET y == [x EXCEPT !.pc = pc] IN
         /\ y \in Frames /\ y.pc = pc
         /\ y.n = x.n /\ y.f = x.f /\ y.w = x.w /\ y.b = x.b /\ y.data = x.data
<1> DEFINE D == Seq(Items)
<1>0. Frames = [f : Methods, w : Sides, pc : 0..5, n : Nat, b : BOOLEAN, data : D] BY DEF Frames
<1> HIDE DEF Items, Methods, Sides, D, Frames
<1> QED BY <1>0

\* A frame whose method moves no data, made afresh, fits everywhere, unless the
\* engine was used when it was gone.
LEMMA PlainFits ==
  ASSUME NEW x \in Frames, NEW p, ~Moving(x), x.f = "cycle" => ~x.b /\ x.pc = 0,
         p.fault => x.f \in Handlers \cup {"write", "cycle"}
  PROVE  FrameFits(x, p)
BY DEF FrameFits, Moving, Refusing

\* The frames the model makes, and their fields.
LEMMA Made ==
  /\ \A n \in Nat : /\ Cycle(n) \in Frames /\ Cycle(n).f = "cycle" /\ ~Cycle(n).b /\ Cycle(n).pc = 0
                    /\ Cycle(n).data = <<>> /\ ~Moving(Cycle(n))
  /\ \A e \in Handlers : /\ User(e) \in Frames /\ User(e).f = e /\ User(e).data = <<>> /\ ~Moving(User(e))
                         /\ User(e).w = "clr"
  /\ Err \in Frames /\ Err.f = "err" /\ Err.pc = 0 /\ Err.data = <<>> /\ ~Moving(Err)
  /\ Destroy \in Frames /\ Destroy.f = "err" /\ Destroy.pc = 1 /\ Destroy.data = <<>> /\ ~Moving(Destroy)
<1>1. "clr" \in Sides /\ 0 \in 0..5 /\ 1 \in 0..5 /\ "cycle" \in Methods /\ "err" \in Methods
      /\ \A e \in Handlers : e \in Methods BY DEF Sides, Methods
<1>2. ASSUME NEW n \in Nat
      PROVE  /\ Cycle(n) \in Frames /\ Cycle(n).f = "cycle" /\ ~Cycle(n).b /\ Cycle(n).pc = 0
             /\ Cycle(n).data = <<>> /\ ~Moving(Cycle(n))
  <2> DEFINE z == Frame("cycle", "clr", 0)
  <2>1. z \in Frames /\ z.f = "cycle" /\ ~z.b /\ z.pc = 0 /\ z.data = <<>> BY <1>1, FrameMade
  <2> HIDE DEF z
  <2>2. /\ [z EXCEPT !.n = n] \in Frames /\ [z EXCEPT !.n = n].f = "cycle" /\ ~[z EXCEPT !.n = n].b
        /\ [z EXCEPT !.n = n].pc = 0 /\ [z EXCEPT !.n = n].data = <<>>
    <3> HIDE DEF Items, Methods
    <3> QED BY <2>1 DEF Frames
  <2>3. Cycle(n) = [z EXCEPT !.n = n] BY DEF Cycle, z
  <2> QED BY <2>2, <2>3 DEF Moving
<1>3. ASSUME NEW e \in Handlers
      PROVE  /\ User(e) \in Frames /\ User(e).f = e /\ User(e).data = <<>> /\ ~Moving(User(e))
             /\ User(e).w = "clr"
  <2>1. User(e) = Frame(e, "clr", 0) /\ e \in Methods BY <1>1 DEF User
  <2>2. e \notin {"pull", "push"} BY DEF Handlers
  <2>3. User(e) \in Frames /\ User(e).f = e /\ User(e).data = <<>> /\ User(e).w = "clr" BY <1>1, <2>1, FrameMade
  <2> QED BY <2>2, <2>3 DEF Moving
<1>4. Err = Frame("err", "clr", 0) /\ Destroy = Frame("err", "clr", 1) /\ "err" \in Methods BY <1>1 DEF Err, Destroy
<1>5. /\ Err \in Frames /\ Err.f = "err" /\ Err.pc = 0 /\ Err.data = <<>>
      /\ Destroy \in Frames /\ Destroy.f = "err" /\ Destroy.pc = 1 /\ Destroy.data = <<>> BY <1>1, <1>4, FrameMade
<1> QED BY <1>2, <1>3, <1>5 DEF Moving

-----------------------------------------------------------------------------
\* What the engine says of itself belongs to no chunk.
LEMMA OwnItems ==
  /\ \A z \in {"hs", "alert", "fin", "bad"} : z \in Items /\ z \notin Chunks /\ z \notin Peers
  /\ Peers \subseteq Items /\ Peers \cap Chunks = {} /\ Chunks \subseteq Items
BY PairAssumption DEF Items, Others, Peers

\* Selecting after one item more.
LEMMA ThoseAppend ==
  ASSUME NEW S, NEW s \in Seq(Items), NEW x \in Items
  PROVE  /\ Append(s, x) \in Seq(Items)
         /\ Those(Append(s, x), S) = IF x \in S THEN Append(Those(s, S), x) ELSE Those(s, S)
<1> DEFINE D == Those(s, S)
<1>1. Append(s, x) = s \o <<x>> /\ <<x>> \in Seq(Items) /\ Append(s, x) \in Seq(Items) OBVIOUS
<1>2. Those(Append(s, x), S) = D \o Those(<<x>>, S) BY <1>1, ThoseCat, Zenon
<1>3. Those(<<x>>, S) = IF x \in S THEN <<x>> ELSE <<>> BY ThoseOne
<1>4. D \in Seq(Items) BY ThoseType
<1> HIDE DEF D
<1>5. D \o <<>> = D /\ D \o <<x>> = Append(D, x) BY <1>4
<1> QED BY <1>1, <1>2, <1>3, <1>5, Zenon DEF D

\* The engine h is e after a step of the handshake: no chunk of the program is
\* touched, and nothing but flights of the peer is taken, unless it fails.
Shakes(e, h) ==
  /\ h \in Engines /\ h.up = e.up /\ h.server = e.server /\ h.shut = e.shut
  /\ e.error => h.error
  /\ Those(h.out, Chunks) = Those(e.out, Chunks)

\* One item less: a flight of the handshake, or one that ends it.
Takes(e, h) ==
  /\ e.in # <<>> /\ h.in = Tail(e.in)
  /\ \/ Head(e.in) = "hs" /\ h.flights = e.flights + 1 /\ h.error = e.error
     \/ Head(e.in) # "hs" /\ h.flights = e.flights /\ h.error

\* Nothing is read.
Rests(e, h) == h.in = e.in /\ h.flights = e.flights /\ h.error = e.error

\* SSL_do_handshake consumes at most one flight of the peer.
LEMMA FlightFields ==
  ASSUME NEW e \in Engines, e.flights < Flights
  PROVE  /\ Shakes(e, Flight(e))
         /\ IF e.in = <<>> THEN Flight(e) = e ELSE Takes(e, Flight(e))
<1> DEFINE D == Seq(Items)
           h == Flight(e)
<1>0. Engines = [up : BOOLEAN, server : BOOLEAN, in : D, out : D, begun : BOOLEAN,
                 flights : 0..Flights, error : BOOLEAN, shut : BOOLEAN] BY DEF Engines
<1>1. e.out \in D /\ e.in \in D BY <1>0
<1>2. /\ Append(e.out, "hs") \in D /\ Append(e.out, "alert") \in D
      /\ Those(Append(e.out, "hs"), Chunks) = Those(e.out, Chunks)
      /\ Those(Append(e.out, "alert"), Chunks) = Those(e.out, Chunks) BY <1>1, OwnItems, ThoseAppend
<1>3. e.in # <<>> => Tail(e.in) \in D BY <1>1, ConsParts
<1>4. Flights = 2 BY DEF Flights
<1> HIDE DEF D
<1>5. CASE e.in = <<>>
  <2>1. h = e BY <1>5 DEF Flight
  <2> QED BY <1>0, <1>5, <2>1 DEF Shakes
<1>6. CASE e.in # <<>> /\ Head(e.in) = "hs"
  <2>1. PICK o \in {e.out, Append(e.out, "hs")} :
          h = [e EXCEPT !.in = Tail(@), !.flights = @ + 1, !.out = o] BY <1>6, Zenon DEF Flight, tls_conn_verify_cb
  <2>2. o \in D /\ Those(o, Chunks) = Those(e.out, Chunks) BY <1>1, <1>2, Zenon
  <2>3. e.flights + 1 \in 0..Flights BY <1>0, <1>4
  <2>4. /\ h \in Engines /\ h.up = e.up /\ h.server = e.server /\ h.shut = e.shut /\ h.error = e.error
        /\ h.out = o /\ h.in = Tail(e.in) /\ h.flights = e.flights + 1 BY <1>0, <1>3, <1>6, <2>1, <2>2, <2>3, Zenon
  <2> HIDE DEF h
  <2>5. Shakes(e, h) /\ Takes(e, h) BY <1>6, <2>2, <2>4 DEF Shakes, Takes
  <2> QED BY <1>6, <2>5 DEF h
<1>7. CASE e.in # <<>> /\ Head(e.in) # "hs"
  <2>1. h = [e EXCEPT !.in = Tail(@), !.error = TRUE, !.out = Append(@, "alert")] BY <1>7 DEF Flight
  <2>4. /\ h \in Engines /\ h.up = e.up /\ h.server = e.server /\ h.shut = e.shut /\ h.error
        /\ h.out = Append(e.out, "alert") /\ h.in = Tail(e.in) /\ h.flights = e.flights
    BY <1>0, <1>2, <1>3, <1>7, <2>1, Zenon
  <2> HIDE DEF h
  <2>5. Shakes(e, h) /\ Takes(e, h) BY <1>2, <1>7, <2>4, Zenon DEF Shakes, Takes
  <2> QED BY <1>7, <2>5 DEF h
<1> QED BY <1>5, <1>6, <1>7

\* The handshake takes up to two items, and stops before the end of the input
\* only when it is over or failed.
LEMMA StartFields ==
  ASSUME NEW e \in Engines
  PROVE  LET h == tls_conn_start(e) IN
         /\ Shakes(e, h)
         /\ e.flights = 2 => h = e
         /\ \/ Rests(e, h) /\ (e.flights = 2 \/ e.in = <<>>)
            \/ e.flights < 2 /\ Takes(e, h) /\ (h.error \/ h.flights = 2 \/ h.in = <<>>)
            \/ \E m \in Engines : /\ e.flights < 2 /\ Takes(e, m) /\ m.flights < 2
                                  /\ Takes(m, h) /\ ~m.error
<1> DEFINE D == Seq(Items)
           b == IF e.server \/ e.begun THEN e ELSE [e EXCEPT !.begun = TRUE, !.out = Append(@, "hs")]
           m == Flight(b)
           h == tls_conn_start(e)
<1>0. Engines = [up : BOOLEAN, server : BOOLEAN, in : D, out : D, begun : BOOLEAN,
                 flights : 0..Flights, error : BOOLEAN, shut : BOOLEAN] BY DEF Engines
<1>1. Flights = 2 /\ e.flights \in 0..2 BY DEF Flights, Engines
<1>2. CASE e.flights = 2
  <2>1. h = e BY <1>1, <1>2 DEF tls_conn_start, tls_conn_is_init_finished
  <2> QED BY <1>0, <1>2, <2>1 DEF Shakes, Rests
<1>3. CASE e.flights < 2
  <2>1. h = IF m.error \/ tls_conn_is_init_finished(m) THEN m ELSE Flight(m)
    BY <1>1, <1>3 DEF tls_conn_start, tls_conn_is_init_finished, Handshake
  <2>2. /\ b \in Engines /\ b.up = e.up /\ b.server = e.server /\ b.shut = e.shut /\ b.in = e.in
        /\ b.error = e.error /\ b.flights = e.flights /\ Those(b.out, Chunks) = Those(e.out, Chunks)
    <3>1. Append(e.out, "hs") \in D /\ Those(Append(e.out, "hs"), Chunks) = Those(e.out, Chunks)
      <4>1. e.out \in Seq(Items) BY DEF Engines
      <4> QED BY <4>1, OwnItems, ThoseAppend
    <3> HIDE DEF D
    <3> QED BY <1>0, <3>1, Zenon
  <2> HIDE DEF b, D, h
  <2>3. Shakes(b, m) /\ IF b.in = <<>> THEN m = b ELSE Takes(b, m) BY <1>1, <1>3, <2>2, FlightFields
  <2> HIDE DEF m
  <2>4. Shakes(e, m) /\ IF e.in = <<>> THEN Rests(e, m) ELSE Takes(e, m) BY <2>2, <2>3 DEF Shakes, Takes, Rests
  <2>5. m \in Engines /\ m.flights \in 0..2 BY <1>0, <1>1, <2>4 DEF Shakes
  <2>6. CASE m.error \/ m.flights = 2
    <3>1. h = m BY <1>1, <2>1, <2>6 DEF tls_conn_is_init_finished
    <3> QED BY <1>3, <2>4, <2>6, <3>1 DEF h
  <2>7. CASE ~m.error /\ m.flights < 2
    <3>1. h = Flight(m) BY <1>1, <2>1, <2>7 DEF tls_conn_is_init_finished
    <3>2. Shakes(m, h) /\ IF m.in = <<>> THEN h = m ELSE Takes(m, h) BY <1>1, <2>5, <2>7, <3>1, FlightFields
    <3>3. Shakes(e, h) BY <2>4, <3>2 DEF Shakes
    <3>4. CASE m.in = <<>> BY <1>3, <2>4, <3>2, <3>3, <3>4 DEF h
    <3>5. CASE m.in # <<>> /\ e.in # <<>> BY <1>3, <2>4, <2>5, <2>7, <3>2, <3>3, <3>5 DEF h
    <3>6. m.in # <<>> => e.in # <<>> BY <2>4 DEF Rests
    <3> QED BY <3>4, <3>5, <3>6
  <2> QED BY <2>5, <2>6, <2>7
<1> QED BY <1>1, <1>2, <1>3

-----------------------------------------------------------------------------
\* One stream changes, the other one does not.
\* An entry is taken or put back.
WithPend(s, w, q) == [s EXCEPT ![w].pend = q]

\* A stream with another buffer.
LEMMA PutPend ==
  ASSUME NEW s \in [Sides -> Streams], NEW w \in Sides, NEW q \in Seq(Seq(Items)),
         NEW t, t = WithPend(s, w, q)
  PROVE  /\ t \in [Sides -> Streams] /\ t[Other(w)] = s[Other(w)]
         /\ t[w].pend = q
         /\ t[w].bytes = s[w].bytes /\ t[w].paused = s[w].paused /\ t[w].needDrain = s[w].needDrain /\ t[w].due = s[w].due
         /\ t[w].writable = s[w].writable /\ t[w].done = s[w].done /\ t[w].destroyAfterPush = s[w].destroyAfterPush
<1> DEFINE D == Seq(Seq(Items))
<1>1. Streams = [pend : D, bytes : Int, paused : BOOLEAN, needDrain : BOOLEAN, due : Nat,
                 writable : BOOLEAN, done : BOOLEAN, destroyAfterPush : BOOLEAN] BY DEF Streams
<1>2. q \in D OBVIOUS
<1> HIDE DEF D, Streams, Items
<1> QED BY <1>1, <1>2, Zenon DEF Sides, Other, WithPend

\* CryptoStream:write adds an entry.
WithEntry(s, w, q, n) == [s EXCEPT ![w].pend = q, ![w].bytes = n]

\* A stream with another buffer and count.
LEMMA PutEntry ==
  ASSUME NEW s \in [Sides -> Streams], NEW w \in Sides, NEW q \in Seq(Seq(Items)), NEW n \in Int,
         NEW t, t = WithEntry(s, w, q, n)
  PROVE  /\ t \in [Sides -> Streams] /\ t[Other(w)] = s[Other(w)]
         /\ t[w].pend = q /\ t[w].bytes = n
         /\ t[w].paused = s[w].paused /\ t[w].needDrain = s[w].needDrain /\ t[w].due = s[w].due /\ t[w].writable = s[w].writable
         /\ t[w].done = s[w].done /\ t[w].destroyAfterPush = s[w].destroyAfterPush
<1> DEFINE D == Seq(Seq(Items))
<1>1. Streams = [pend : D, bytes : Int, paused : BOOLEAN, needDrain : BOOLEAN, due : Nat,
                 writable : BOOLEAN, done : BOOLEAN, destroyAfterPush : BOOLEAN] BY DEF Streams
<1>2. q \in D OBVIOUS
<1> HIDE DEF D, Streams, Items
<1> QED BY <1>1, <1>2, Zenon DEF Sides, Other, WithEntry

\* CryptoStream:done adds the end.
WithEnd(s, w, q) == [s EXCEPT ![w].pend = q, ![w].writable = FALSE]

\* A stream with another buffer that was ended.
LEMMA PutEnd ==
  ASSUME NEW s \in [Sides -> Streams], NEW w \in Sides, NEW q \in Seq(Seq(Items)),
         NEW t, t = WithEnd(s, w, q)
  PROVE  /\ t \in [Sides -> Streams] /\ t[Other(w)] = s[Other(w)]
         /\ t[w].pend = q /\ ~t[w].writable
         /\ t[w].bytes = s[w].bytes /\ t[w].paused = s[w].paused /\ t[w].needDrain = s[w].needDrain /\ t[w].due = s[w].due
         /\ t[w].done = s[w].done /\ t[w].destroyAfterPush = s[w].destroyAfterPush
<1> DEFINE D == Seq(Seq(Items))
<1>1. Streams = [pend : D, bytes : Int, paused : BOOLEAN, needDrain : BOOLEAN, due : Nat,
                 writable : BOOLEAN, done : BOOLEAN, destroyAfterPush : BOOLEAN] BY DEF Streams
<1>2. q \in D OBVIOUS
<1> HIDE DEF D, Streams, Items
<1> QED BY <1>1, <1>2, Zenon DEF Sides, Other, WithEnd

\* A writer is told to wait.
WithNeed(s, w, b) == [s EXCEPT ![w].needDrain = b]

\* A stream whose writer was told to wait, or no more.
LEMMA PutNeed ==
  ASSUME NEW s \in [Sides -> Streams], NEW w \in Sides, NEW b \in BOOLEAN,
         NEW t, t = WithNeed(s, w, b)
  PROVE  /\ t \in [Sides -> Streams] /\ t[Other(w)] = s[Other(w)]
         /\ t[w].needDrain = b
         /\ t[w].pend = s[w].pend /\ t[w].bytes = s[w].bytes /\ t[w].paused = s[w].paused /\ t[w].due = s[w].due
         /\ t[w].writable = s[w].writable /\ t[w].done = s[w].done /\ t[w].destroyAfterPush = s[w].destroyAfterPush
<1> DEFINE D == Seq(Seq(Items))
<1>1. Streams = [pend : D, bytes : Int, paused : BOOLEAN, needDrain : BOOLEAN, due : Nat,
                 writable : BOOLEAN, done : BOOLEAN, destroyAfterPush : BOOLEAN] BY DEF Streams
<1> HIDE DEF D, Streams, Items
<1> QED BY <1>1 DEF Sides, Other, WithNeed

\* A writer that waits is told to go on, in a timer.
WithDue(s, w, d) == [s EXCEPT ![w].needDrain = FALSE, ![w].due = d]

\* A stream that owes another 'drain'.
LEMMA PutDue ==
  ASSUME NEW s \in [Sides -> Streams], NEW w \in Sides, NEW d \in Nat,
         NEW t, t = WithDue(s, w, d)
  PROVE  /\ t \in [Sides -> Streams] /\ t[Other(w)] = s[Other(w)]
         /\ ~t[w].needDrain /\ t[w].due = d
         /\ t[w].pend = s[w].pend /\ t[w].bytes = s[w].bytes /\ t[w].paused = s[w].paused /\ t[w].writable = s[w].writable
         /\ t[w].done = s[w].done /\ t[w].destroyAfterPush = s[w].destroyAfterPush
<1> DEFINE D == Seq(Seq(Items))
<1>1. Streams = [pend : D, bytes : Int, paused : BOOLEAN, needDrain : BOOLEAN, due : Nat,
                 writable : BOOLEAN, done : BOOLEAN, destroyAfterPush : BOOLEAN] BY DEF Streams
<1> HIDE DEF D, Streams, Items
<1> QED BY <1>1, Zenon DEF Sides, Other, WithDue

\* The timer.
WithDrained(s, w, d) == [s EXCEPT ![w].due = d]

\* A stream that emitted 'drain'.
LEMMA PutDrained ==
  ASSUME NEW s \in [Sides -> Streams], NEW w \in Sides, NEW d \in Nat,
         NEW t, t = WithDrained(s, w, d)
  PROVE  /\ t \in [Sides -> Streams] /\ t[Other(w)] = s[Other(w)]
         /\ t[w].due = d
         /\ t[w].pend = s[w].pend /\ t[w].bytes = s[w].bytes /\ t[w].paused = s[w].paused /\ t[w].needDrain = s[w].needDrain
         /\ t[w].writable = s[w].writable /\ t[w].done = s[w].done /\ t[w].destroyAfterPush = s[w].destroyAfterPush
<1> DEFINE D == Seq(Seq(Items))
<1>1. Streams = [pend : D, bytes : Int, paused : BOOLEAN, needDrain : BOOLEAN, due : Nat,
                 writable : BOOLEAN, done : BOOLEAN, destroyAfterPush : BOOLEAN] BY DEF Streams
<1> HIDE DEF D, Streams, Items
<1> QED BY <1>1 DEF Sides, Other, WithDrained

\* pause and resume.
WithPaused(s, w, b) == [s EXCEPT ![w].paused = b]

\* A stream that was paused or resumed.
LEMMA PutPaused ==
  ASSUME NEW s \in [Sides -> Streams], NEW w \in Sides, NEW b \in BOOLEAN,
         NEW t, t = WithPaused(s, w, b)
  PROVE  /\ t \in [Sides -> Streams] /\ t[Other(w)] = s[Other(w)]
         /\ t[w].paused = b
         /\ t[w].pend = s[w].pend /\ t[w].bytes = s[w].bytes /\ t[w].needDrain = s[w].needDrain /\ t[w].due = s[w].due
         /\ t[w].writable = s[w].writable /\ t[w].done = s[w].done /\ t[w].destroyAfterPush = s[w].destroyAfterPush
<1> DEFINE D == Seq(Seq(Items))
<1>1. Streams = [pend : D, bytes : Int, paused : BOOLEAN, needDrain : BOOLEAN, due : Nat,
                 writable : BOOLEAN, done : BOOLEAN, destroyAfterPush : BOOLEAN] BY DEF Streams
<1> HIDE DEF D, Streams, Items
<1> QED BY <1>1 DEF Sides, Other, WithPaused

\* CryptoStream:_done.
WithDone(s, w) == [s EXCEPT ![w].done = TRUE]

\* A stream that is done.
LEMMA PutDone ==
  ASSUME NEW s \in [Sides -> Streams], NEW w \in Sides,
         NEW t, t = WithDone(s, w)
  PROVE  /\ t \in [Sides -> Streams] /\ t[Other(w)] = s[Other(w)]
         /\ t[w].done
         /\ t[w].pend = s[w].pend /\ t[w].bytes = s[w].bytes /\ t[w].paused = s[w].paused /\ t[w].needDrain = s[w].needDrain
         /\ t[w].due = s[w].due /\ t[w].writable = s[w].writable /\ t[w].destroyAfterPush = s[w].destroyAfterPush
<1> DEFINE D == Seq(Seq(Items))
<1>1. Streams = [pend : D, bytes : Int, paused : BOOLEAN, needDrain : BOOLEAN, due : Nat,
                 writable : BOOLEAN, done : BOOLEAN, destroyAfterPush : BOOLEAN] BY DEF Streams
<1> HIDE DEF D, Streams, Items
<1> QED BY <1>1, Zenon DEF Sides, Other, WithDone

\* An entry was taken.
WithBytes(s, w, n) == [s EXCEPT ![w].bytes = n]

\* A stream with another count.
LEMMA PutBytes ==
  ASSUME NEW s \in [Sides -> Streams], NEW w \in Sides, NEW n \in Int,
         NEW t, t = WithBytes(s, w, n)
  PROVE  /\ t \in [Sides -> Streams] /\ t[Other(w)] = s[Other(w)]
         /\ t[w].bytes = n
         /\ t[w].pend = s[w].pend /\ t[w].paused = s[w].paused /\ t[w].needDrain = s[w].needDrain /\ t[w].due = s[w].due
         /\ t[w].writable = s[w].writable /\ t[w].done = s[w].done /\ t[w].destroyAfterPush = s[w].destroyAfterPush
<1> DEFINE D == Seq(Seq(Items))
<1>1. Streams = [pend : D, bytes : Int, paused : BOOLEAN, needDrain : BOOLEAN, due : Nat,
                 writable : BOOLEAN, done : BOOLEAN, destroyAfterPush : BOOLEAN] BY DEF Streams
<1> HIDE DEF D, Streams, Items
<1> QED BY <1>1 DEF Sides, Other, WithBytes

\* The stream will close after its last push.
WithLast(s, w) == [s EXCEPT ![w].destroyAfterPush = TRUE]

\* A stream that is to be destroyed after the next _push.
LEMMA PutLast ==
  ASSUME NEW s \in [Sides -> Streams], NEW w \in Sides,
         NEW t, t = WithLast(s, w)
  PROVE  /\ t \in [Sides -> Streams] /\ t[Other(w)] = s[Other(w)]
         /\ t[w].destroyAfterPush
         /\ t[w].pend = s[w].pend /\ t[w].bytes = s[w].bytes /\ t[w].paused = s[w].paused /\ t[w].needDrain = s[w].needDrain
         /\ t[w].due = s[w].due /\ t[w].writable = s[w].writable /\ t[w].done = s[w].done
<1> DEFINE D == Seq(Seq(Items))
<1>1. Streams = [pend : D, bytes : Int, paused : BOOLEAN, needDrain : BOOLEAN, due : Nat,
                 writable : BOOLEAN, done : BOOLEAN, destroyAfterPush : BOOLEAN] BY DEF Streams
<1> HIDE DEF D, Streams, Items
<1> QED BY <1>1, Zenon DEF Sides, Other, WithLast

-----------------------------------------------------------------------------
\* What the program writes are chunks, and the end of the stream.
Shaped(q) == \A i \in DOMAIN q : q[i] = <<>> \/ Chunked(q[i])

\* SecurePair:err runs.
AtErr == stack # <<>> /\ Head(stack).f = "err" /\ Head(stack).pc = 0

\* The engine, the flags and the top of the stack: a secure pair has ended its
\* handshake, an entry is refused only before that, and an error of a secure
\* pair is on its way to the program.
Guards ==
  /\ Shaped(st["clr"].pend)
  /\ pair.secure => ssl.flights = 2
  /\ stack # <<>> /\ Refusing(Head(stack)) => ssl.flights # 2
  /\ pair.secure /\ ssl.error /\ ssl.up => AtErr
  /\ io.secures = IF pair.secure THEN 1 ELSE 0
  /\ io.got # <<>> => pair.secure

\* The first layer of the invariant.
Control == Types /\ StackFits(stack, pair) /\ Guards

\* A step that leaves the engine and the flag alone.
LEMMA GuardsAfter ==
  ASSUME Guards, ~AtErr, Shaped(st'["clr"].pend), pair'.secure = pair.secure,
         ssl'.flights = ssl.flights, ssl'.up => ssl.up, ssl'.error => ssl.error,
         io'.secures = io.secures, io'.got = io.got, stack' # <<>> => ~Refusing(Head(stack'))
  PROVE  Guards'
BY DEF Guards, AtErr

\* A new pair has the right shape.
LEMMA InitControl == PairInit => Control
<1> SUFFICES ASSUME PairInit PROVE Control OBVIOUS
<1>1. PeerChunks \in Seq(Peers)
  <2>1. MaxPeer \in 0..2 BY PairAssumption
  <2>2. <<"x", "y">> \in Seq(Peers) /\ Len(<<"x", "y">>) = 2 BY DEF Peers
  <2> DEFINE xy == <<"x", "y">>
  <2> HIDE DEF xy
  <2>3. SubSeq(xy, 1, MaxPeer) \in Seq(Peers) BY <2>1, <2>2 DEF xy
  <2> QED BY <2>3 DEF PeerChunks, xy
<1>2. st \in [Sides -> Streams]
  <2>1. <<>> \in Seq(Seq(Items)) OBVIOUS
  <2> DEFINE D == Seq(Seq(Items))
  <2> HIDE DEF D
  <2>2. CryptoStream_initialize \in
          [pend : D, bytes : Int, paused : BOOLEAN, needDrain : BOOLEAN, due : Nat,
           writable : BOOLEAN, done : BOOLEAN, destroyAfterPush : BOOLEAN] BY <2>1 DEF CryptoStream_initialize, D
  <2> QED BY <2>2 DEF PairInit, Streams, D
<1>3. ssl \in Engines /\ ~ssl.error BY DEF PairInit, newCONN, Engines, Flights
<1>4. pair \in Flags /\ ~pair.secure /\ stack = <<>> BY DEF PairInit, Flags
<1>5. net \in Nets BY <1>1 DEF PairInit, Nets, Flights
<1>6. io \in Ios /\ io.secures = 0 /\ io.got = <<>> BY DEF PairInit, Ios
<1>7. calls \in 0..MaxCalls BY PairAssumption DEF PairInit
<1>8. Shaped(st["clr"].pend) BY DEF PairInit, Shaped, CryptoStream_initialize, Sides
<1>9. stack \in Seq(Frames) BY <1>4
<1> QED BY <1>2, <1>3, <1>4, <1>5, <1>6, <1>7, <1>8, <1>9, FitsNone DEF Control, Types, Guards

\* What is on top of the stack.
LEMMA TopFits ==
  ASSUME Control, ~Idle
  PROVE  /\ StackFits(Tail(stack), pair) /\ Tail(stack) \in Seq(Frames)
         /\ Head(stack) \in Frames /\ FrameFits(Head(stack), pair) /\ stack = <<Head(stack)>> \o Tail(stack)
         /\ Moving(Head(stack)) => /\ Tail(stack) # <<>> /\ Head(Tail(stack)).f = "cycle"
                                   /\ Head(Tail(stack)).pc = StageOf(Head(stack)) + 1
         /\ Exclusive(Head(stack)) => ~OnStack(Tail(stack), Head(stack).f, Head(stack).w)
         /\ Tail(stack) # <<>> => ~Refusing(Head(Tail(stack)))
BY FitsTail, Zenon DEF Control, Idle

\* Frames on top of a stack.
LEMMA OnTop ==
  ASSUME NEW s \in Seq(Frames), NEW x \in Frames
  PROVE  Head(<<x>> \o s) = x /\ Tail(<<x>> \o s) = s /\ <<x>> \o s # <<>> /\ <<x>> \o s \in Seq(Frames)
BY ConsPlaces

\* Only frames of _pull and _push hold anything.
LEMMA HandlerFits ==
  \A x \in Frames : x.f \notin {"pull", "push"} => ~Moving(x) /\ ~Refusing(x) /\ ~EmptyPush(x)
BY DEF Moving, Refusing, EmptyPush

\* SecurePair:destroy closes the engine and the streams, and touches no buffer.
SameStream(a, b) ==
  /\ a.pend = b.pend /\ a.bytes = b.bytes /\ a.paused = b.paused /\ a.needDrain = b.needDrain
  /\ a.due = b.due /\ a.done = b.done /\ a.destroyAfterPush = b.destroyAfterPush
SameEngine(a, b) ==
  a.in = b.in /\ a.out = b.out /\ a.flights = b.flights /\ a.error = b.error /\ a.server = b.server
SameFlags(a, b) ==
  /\ a.secure = b.secure /\ a.fault = b.fault /\ a.failed = b.failed /\ a.queued = b.queued
  /\ a.started = b.started /\ a.writeCalled = b.writeCalled

\* What destroy changes: the flags that say so, once.
LEMMA DestroyFields ==
  ASSUME Types, NEW s \in [Sides -> Streams], NEW how \in {"error", "done", "program"}, NEW rest,
         destroy(s, how, rest)
  PROVE  /\ st' \in [Sides -> Streams] /\ ssl' \in Engines /\ pair' \in Flags
         /\ \A w \in Sides : SameStream(s[w], st'[w]) /\ (st'[w].writable => s[w].writable)
         /\ SameEngine(ssl, ssl') /\ SameFlags(pair, pair')
         /\ IF pair.done THEN st' = s /\ ssl' = ssl /\ pair' = pair
            ELSE ~ssl'.up /\ pair'.done /\ pair'.how = how /\ \A w \in Sides : ~st'[w].writable
<1>1. ssl \in Engines /\ pair \in Flags BY DEF Types
<1>2. CASE pair.done
  <2>1. st' = s /\ ssl' = ssl /\ pair' = pair BY <1>2 DEF destroy
  <2> QED BY <1>1, <1>2, <2>1 DEF SameStream, SameEngine, SameFlags
<1>3. CASE ~pair.done
  <2>1. /\ pair' = [pair EXCEPT !.done = TRUE, !.how = how, !.ripped = OnStack(rest, "push", "enc")]
        /\ ssl' = tls_conn_close(ssl)
        /\ st' = [w \in Sides |-> [s[w] EXCEPT !.writable = FALSE]] BY <1>3 DEF destroy
  <2>2. OnStack(rest, "push", "enc") \in BOOLEAN BY DEF OnStack
  <2>3. pair' \in Flags /\ SameFlags(pair, pair') /\ pair'.done /\ pair'.how = how
    BY <1>1, <2>1, <2>2, Zenon DEF Flags, SameFlags
  <2>4. ssl' \in Engines /\ SameEngine(ssl, ssl') /\ ~ssl'.up
    <3> HIDE DEF Items
    <3> QED BY <1>1, <2>1, Zenon DEF Engines, SameEngine, tls_conn_close
  <2>5. ASSUME NEW w \in Sides
        PROVE  st'[w] \in Streams /\ SameStream(s[w], st'[w]) /\ ~st'[w].writable
    <3> DEFINE D == Seq(Seq(Items))
    <3>1. Streams = [pend : D, bytes : Int, paused : BOOLEAN, needDrain : BOOLEAN, due : Nat,
                     writable : BOOLEAN, done : BOOLEAN, destroyAfterPush : BOOLEAN] BY DEF Streams
    <3>2. s[w] \in Streams /\ st'[w] = [s[w] EXCEPT !.writable = FALSE] BY <2>1
    <3> HIDE DEF D, Streams
    <3> QED BY <3>1, <3>2, Zenon DEF SameStream
  <2>6. st' \in [Sides -> Streams] BY <2>1, <2>5, Zenon
  <2> QED BY <1>3, <2>3, <2>4, <2>5, <2>6
<1> QED BY <1>2, <1>3

-----------------------------------------------------------------------------
\* The steps of the first layer: a step that moves nothing between the buffers.
LEMMA errControl == Control /\ err => Control'
<1> SUFFICES ASSUME Control, err PROVE Control' OBVIOUS
<1> DEFINE h == Head(stack)
           r == Tail(stack)
<1>0. ~Idle /\ h.f = "err" BY DEF err, Top
<1>1. /\ r \in Seq(Frames) /\ h \in Frames /\ FrameFits(h, pair) /\ StackFits(r, pair)
      /\ r # <<>> => ~Refusing(Head(r)) BY <1>0, TopFits
<1>2. ~pair.fault BY <1>0, <1>1 DEF FrameFits, Handlers
<1>3. StackFits(stack, pair) /\ stack # <<>> BY <1>0 DEF Control, Idle
<1>4. "error" \in Handlers BY DEF Handlers
<1>5. Types /\ Guards BY DEF Control
<1>6. /\ FrameFits(User("error"), pair) /\ User("error") \in Frames /\ ~Moving(User("error"))
      /\ FrameFits(Destroy, pair) /\ Destroy \in Frames /\ ~Moving(Destroy) /\ ~Refusing(Destroy)
      /\ ~EmptyPush(Destroy) /\ ~Refusing(User("error")) /\ User("error").f = "error"
  BY <1>2, <1>4, Made, PlainFits, HandlerFits
<1>7. CASE Top("err", 0) /\ ~pair.secure
  <2>1. stack' = <<User("error"), Destroy>> \o r /\ UNCHANGED <<st, ssl, pair, net, io, calls>> BY <1>7 DEF err, Top
  <2>2. StackFits(stack', pair') /\ stack' = <<User("error")>> \o (<<Destroy>> \o r)
    BY <1>3, <1>6, <2>1, FitsSwapTwo, Zenon
  <2>3. <<Destroy>> \o r \in Seq(Frames) BY <1>1, <1>6, OnTop
  <2>4. Head(stack') = User("error") /\ stack' \in Seq(Frames) BY <1>6, <2>2, <2>3, OnTop
  <2>5. Types' BY <1>5, <2>1, <2>4 DEF Types
  <2>6. Guards' BY <1>5, <1>6, <1>7, <2>1, <2>4 DEF Guards
  <2> QED BY <2>2, <2>5, <2>6 DEF Control
<1>8. CASE Top("err", 0) /\ pair.secure
  <2>1. stack' = <<User("error")>> \o r /\ ssl' = tls_conn_clear_error(ssl) /\ UNCHANGED <<st, pair, net, io, calls>>
    BY <1>8 DEF err, Top
  <2>2. StackFits(stack', pair') BY <1>3, <1>6, <2>1, FitsSwap
  <2>4. Head(stack') = User("error") /\ stack' \in Seq(Frames) BY <1>1, <1>6, <2>1, OnTop
  <2>5. ssl' \in Engines /\ ssl'.flights = ssl.flights /\ ~ssl'.error
    <3>1. ssl \in Engines BY <1>5 DEF Types
    <3> HIDE DEF Items
    <3> QED BY <2>1, <3>1, Zenon DEF Engines, tls_conn_clear_error
  <2>6. Types' BY <1>5, <2>1, <2>4, <2>5 DEF Types
  <2>7. Guards' BY <1>5, <1>6, <2>1, <2>4, <2>5 DEF Guards
  <2> QED BY <2>2, <2>6, <2>7 DEF Control
<1>9. CASE Top("err", 1)
  <2>1. destroy(st, "error", r) /\ stack' = r /\ UNCHANGED <<net, io, calls>> BY <1>9 DEF err, Top
  <2>2. /\ st' \in [Sides -> Streams] /\ ssl' \in Engines /\ pair' \in Flags
        /\ pair'.secure = pair.secure /\ pair'.fault = pair.fault /\ ssl'.flights = ssl.flights
        /\ (ssl'.up => ssl.up) /\ ssl'.error = ssl.error /\ st'["clr"].pend = st["clr"].pend
    BY <1>5, <2>1, DestroyFields DEF Types, Sides, SameStream, SameEngine, SameFlags
  <2>3. StackFits(stack', pair') BY <1>1, <2>1, <2>2, FitsLater
  <2>4. ~AtErr BY <1>9 DEF AtErr, Top
  <2>5. Guards' BY <1>1, <1>5, <2>1, <2>2, <2>4, GuardsAfter DEF Guards
  <2>6. Types' BY <1>1, <1>5, <2>1, <2>2 DEF Types
  <2> QED BY <2>3, <2>5, <2>6 DEF Control
<1> QED BY <1>7, <1>8, <1>9 DEF err

\* The listeners of 'secure'.
LEMMA secureControl == Control /\ secure => Control'
<1> SUFFICES ASSUME Control, secure PROVE Control' OBVIOUS
<1> DEFINE h == Head(stack)
           r == Tail(stack)
<1>0. ~Idle /\ h.f = "verify" /\ UNCHANGED <<st, ssl, pair, net, io, calls>> BY DEF secure, Top
<1>1. /\ r \in Seq(Frames) /\ h \in Frames /\ FrameFits(h, pair) /\ StackFits(r, pair)
      /\ r # <<>> => ~Refusing(Head(r)) BY <1>0, TopFits
<1>2. ~pair.fault BY <1>0, <1>1 DEF FrameFits, Handlers
<1>3. StackFits(stack, pair) /\ stack # <<>> /\ Types /\ Guards BY <1>0 DEF Control, Idle
<1>4. "error" \in Handlers /\ "secure" \in Handlers BY DEF Handlers
<1>6. /\ FrameFits(User("error"), pair) /\ User("error") \in Frames /\ ~Moving(User("error"))
      /\ FrameFits(User("secure"), pair) /\ User("secure") \in Frames /\ ~Moving(User("secure"))
      /\ FrameFits(Destroy, pair) /\ Destroy \in Frames /\ ~Moving(Destroy) /\ ~Refusing(Destroy)
      /\ ~EmptyPush(Destroy) /\ ~Refusing(User("error")) /\ ~Refusing(User("secure"))
  BY <1>2, <1>4, Made, PlainFits, HandlerFits
<1>7. ASSUME NEW x \in {Destroy, User("secure")}, stack' = <<x>> \o r
      PROVE  StackFits(stack', pair) /\ stack' \in Seq(Frames) /\ ~Refusing(Head(stack'))
  BY <1>1, <1>3, <1>6, <1>7, FitsSwap, OnTop
<1>8. ASSUME stack' = <<User("error"), Destroy>> \o r
      PROVE  StackFits(stack', pair) /\ stack' \in Seq(Frames) /\ ~Refusing(Head(stack'))
  <2>2. StackFits(stack', pair) /\ stack' = <<User("error")>> \o (<<Destroy>> \o r)
    BY <1>3, <1>6, <1>8, FitsSwapTwo, Zenon
  <2>3. <<Destroy>> \o r \in Seq(Frames) BY <1>1, <1>6, OnTop
  <2> QED BY <1>6, <2>2, <2>3, OnTop
<1>9. \/ stack' = <<Destroy>> \o r \/ stack' = <<User("secure")>> \o r
      \/ stack' = <<User("error"), Destroy>> \o r BY Zenon DEF secure, tls_conn_verify_error
<1>10. StackFits(stack', pair) /\ stack' \in Seq(Frames) /\ ~Refusing(Head(stack')) BY <1>7, <1>8, <1>9
<1>11. ~AtErr BY <1>0 DEF AtErr
<1>12. Guards' BY <1>0, <1>3, <1>10, <1>11, GuardsAfter DEF Guards
<1> QED BY <1>0, <1>3, <1>10, <1>12 DEF Control, Types

\* The stages, and the methods they call.
LEMMA StageFrames ==
  ASSUME NEW k \in 1..4
  PROVE  LET x == Frame(Stage[k][1], Stage[k][2], 0) IN
         /\ x \in Frames /\ x.f = Stage[k][1] /\ x.w = Stage[k][2] /\ x.pc = 0 /\ ~x.b /\ x.data = <<>>
         /\ Moving(x) /\ StageOf(x) = k /\ ~Refusing(x) /\ (Exclusive(x) => k > 1)
         /\ \A p : ~p.fault => FrameFits(x, p)
<1> DEFINE f == Stage[k][1]
           w == Stage[k][2]
           x == Frame(f, w, 0)
<1>1. \/ k = 1 /\ f = "pull" /\ w = "enc"
      \/ k = 2 /\ f = "pull" /\ w = "clr"
      \/ k = 3 /\ f = "push" /\ w = "clr"
      \/ k = 4 /\ f = "push" /\ w = "enc" BY DEF Stage
<1> HIDE DEF f, w
<1>2. f \in Methods /\ w \in Sides /\ 0 \in 0..5 BY <1>1 DEF Methods, Sides
<1>3. x \in Frames /\ x.f = f /\ x.w = w /\ x.pc = 0 /\ ~x.b /\ x.data = <<>> BY <1>2, FrameMade
<1> HIDE DEF x
<1>4. Moving(x) /\ StageOf(x) = k /\ ~Refusing(x) /\ (Exclusive(x) => k > 1)
  BY <1>1, <1>3 DEF Moving, StageOf, Refusing, Exclusive
<1>5. \A p : ~p.fault => FrameFits(x, p) BY <1>1, <1>3 DEF FrameFits, Refusing
<1> QED BY <1>3, <1>4, <1>5 DEF x, f, w

\* The least element of a set of numbers.
LEMMA MinLeast ==
  ASSUME NEW T \in SUBSET Nat, T # {}
  PROVE  Min(T) \in T /\ \A y \in T : Min(T) <= y
<1>1. \E n \in T : \A m \in T : n <= m BY LeastNat
<1> QED BY <1>1, Zenon DEF Min

\* What cycle does next: it returns at once in a destroyed pair, begins, calls
\* the method of the next stage that has work, goes round again or returns.
CycleEnds(h) == \A j \in h.pc..4 : Locked(j) \/ NoWork(j)
CycleAgain(h) == (~h.b /\ pair.secure) \/ (h.n = 0 /\ pair.writeCalled)

\* What a step of cycle does: it starts, moves one stage on, or ends.
LEMMA CycleCases ==
  ASSUME Control, cycle
  PROVE  LET h == Head(stack)
             r == Tail(stack) IN
         /\ h.f = "cycle" /\ ~Idle /\ UNCHANGED <<st, ssl, net, io, calls>> /\ pair \in Flags
         /\ \/ h.pc = 0 /\ pair.done /\ stack' = r /\ pair' = pair
            \/ /\ h.pc = 0 /\ ~pair.done /\ stack' = <<[h EXCEPT !.pc = 1, !.b = pair.secure]>> \o r
               /\ pair' \in {pair, [pair EXCEPT !.writeCalled = FALSE]}
            \/ /\ h.pc > 0 /\ pair' = pair
               /\ \E k \in 1..4 : /\ k >= h.pc /\ ~Locked(k) /\ ~NoWork(k)
                                  /\ \A j \in h.pc..(k - 1) : Locked(j) \/ NoWork(j)
                                  /\ stack' = <<Frame(Stage[k][1], Stage[k][2], 0), [h EXCEPT !.pc = k + 1]>> \o r
            \/ h.pc > 0 /\ pair' = pair /\ CycleEnds(h) /\ CycleAgain(h) /\ stack' = <<Cycle(h.n + 1)>> \o r
            \/ h.pc > 0 /\ pair' = pair /\ CycleEnds(h) /\ ~CycleAgain(h) /\ stack' = r
<1> DEFINE h == Head(stack)
           r == Tail(stack)
           todo == {k \in h.pc..4 : ~Locked(k) /\ ~NoWork(k)}
<1>0. ~Idle /\ h.f = "cycle" /\ UNCHANGED <<st, ssl, net, io, calls>> BY Zenon DEF cycle, Top
<1>1. r \in Seq(Frames) /\ h \in Frames /\ pair \in Flags BY <1>0, TopFits DEF Control, Types
<1>2. h.pc \in 0..5 BY <1>1, Zenon DEF Frames
<1>3. CASE h.pc = 0
  <2>1. /\ pair' = IF ~pair.done /\ h.n = 0 THEN [pair EXCEPT !.writeCalled = FALSE] ELSE pair
        /\ stack' = IF pair.done THEN r ELSE <<[h EXCEPT !.pc = 1, !.b = pair.secure]>> \o r
    BY <1>0, <1>3 DEF cycle, Top, Idle
  <2> QED BY <1>0, <1>1, <1>3, <2>1, Zenon
<1>4. CASE h.pc > 0
  <2> DEFINE Steps(T) ==
        IF T # {}
        THEN LET k == Min(T) IN
             stack' = <<Frame(Stage[k][1], Stage[k][2], 0), [h EXCEPT !.pc = k + 1]>> \o r
        ELSE stack' = (IF (~h.b /\ pair.secure) \/ (h.n = 0 /\ pair.writeCalled)
                       THEN <<Cycle(h.n + 1)>> ELSE <<>>) \o r
  <2>1. pair' = pair /\ Steps(todo)
    <3>1. ~Top("cycle", 0) BY <1>2, <1>4 DEF Top
    <3> QED BY <3>1, Zenon DEF cycle
  <2>2. todo \in SUBSET Nat /\ \A k : k \in todo <=> k \in h.pc..4 /\ ~Locked(k) /\ ~NoWork(k) BY <1>2
  <2> HIDE DEF todo
  <2>3. CASE todo # {}
    <3>1. PICK k : k = Min(todo) OBVIOUS
    <3>2. k \in todo /\ \A y \in todo : k <= y BY <2>2, <2>3, <3>1, MinLeast
    <3>3. k \in 1..4 /\ k >= h.pc /\ ~Locked(k) /\ ~NoWork(k) BY <1>2, <1>4, <2>2, <3>2
    <3>4. \A j \in h.pc..(k - 1) : Locked(j) \/ NoWork(j)
      <4> SUFFICES ASSUME NEW j \in h.pc..(k - 1), ~(Locked(j) \/ NoWork(j)) PROVE FALSE OBVIOUS
      <4>1. j \in h.pc..4 /\ j < k BY <1>2, <3>3
      <4>2. j \in todo BY <2>2, <4>1
      <4> QED BY <1>2, <3>2, <3>3, <4>1, <4>2
    <3>5. stack' = <<Frame(Stage[k][1], Stage[k][2], 0), [h EXCEPT !.pc = k + 1]>> \o r BY <2>1, <2>3, <3>1, Zenon
    <3> QED BY <1>0, <1>1, <1>4, <2>1, <3>3, <3>4, <3>5, Zenon
  <2>4. CASE todo = {}
    <3>1. CycleEnds(h) BY <2>2, <2>4 DEF CycleEnds
    <3>2. stack' = (IF CycleAgain(h) THEN <<Cycle(h.n + 1)>> ELSE <<>>) \o r BY <2>1, <2>4, Zenon DEF CycleAgain
    <3>3. <<>> \o r = r BY <1>1
    <3> QED BY <1>0, <1>1, <1>4, <2>1, <3>1, <3>2, <3>3, Zenon
  <2> QED BY <2>3, <2>4, Zenon
<1>5. h.pc = 0 \/ h.pc > 0 BY <1>2
<1> QED BY <1>3, <1>4, <1>5, Zenon

\* A step of cycle.
LEMMA cycleControl == Control /\ EngineGone /\ cycle => Control'
<1> SUFFICES ASSUME Control, EngineGone, cycle PROVE Control' OBVIOUS
<1> DEFINE h == Head(stack)
           r == Tail(stack)
<1>0. ~Idle /\ h.f = "cycle" /\ UNCHANGED <<st, ssl, net, io, calls>> BY CycleCases
<1>1. /\ r \in Seq(Frames) /\ h \in Frames /\ FrameFits(h, pair) /\ StackFits(r, pair)
      /\ r # <<>> => ~Refusing(Head(r)) BY <1>0, TopFits
<1>2. /\ StackFits(stack, pair) /\ stack # <<>> /\ Types /\ Guards /\ pair \in Flags
      /\ st["clr"].pend = st'["clr"].pend /\ Shaped(st["clr"].pend) BY <1>0 DEF Control, Idle, Types, Guards
<1>3. ~AtErr BY <1>0 DEF AtErr
<1>4. h.pc \in 0..5 /\ h.n \in Nat /\ h.b \in BOOLEAN BY <1>1, Zenon DEF Frames
<1>5. pair' \in Flags /\ pair'.secure = pair.secure /\ pair'.fault = pair.fault
  <2>1. pair' \in {pair, [pair EXCEPT !.writeCalled = FALSE]} BY CycleCases
  <2> QED BY <1>2, <2>1, Zenon DEF Flags
<1>6. SUFFICES /\ StackFits(stack', pair) /\ stack' \in Seq(Frames)
               /\ stack' # <<>> => ~Refusing(Head(stack'))
  <2>1. StackFits(stack', pair') BY <1>5, <1>6, FitsLater
  <2>2. Types' BY <1>0, <1>2, <1>5, <1>6 DEF Types
  <2>3. Guards' BY <1>0, <1>2, <1>3, <1>5, <1>6, GuardsAfter
  <2> QED BY <2>1, <2>2, <2>3 DEF Control
<1>7. CASE stack' = r BY <1>1, <1>7
<1>8. CASE ~pair.done /\ stack' = <<[h EXCEPT !.pc = 1, !.b = pair.secure]>> \o r
  <2> DEFINE y == [h EXCEPT !.pc = 1, !.b = pair.secure]
  <2>1. pair.secure \in BOOLEAN /\ 1 \in 0..5 BY <1>2 DEF Flags
  <2>2. y \in Frames /\ y.f = "cycle" /\ y.pc = 1 /\ (y.b <=> pair.secure)
    <3> HIDE DEF Items, Methods
    <3> QED BY <1>0, <1>1, <2>1, Zenon DEF Frames
  <2> HIDE DEF y
  <2>3. ~pair.fault BY <1>8 DEF EngineGone
  <2>4. FrameFits(y, pair) /\ ~Moving(y) /\ ~Refusing(y) BY <2>2, <2>3 DEF FrameFits, Moving, Refusing
  <2>5. stack' = <<y>> \o r BY <1>8 DEF y
  <2> QED BY <1>1, <1>2, <2>2, <2>4, <2>5, FitsSwap, OnTop
<1>9. ASSUME h.pc > 0, NEW k \in 1..4, ~Locked(k),
             stack' = <<Frame(Stage[k][1], Stage[k][2], 0), [h EXCEPT !.pc = k + 1]>> \o r
      PROVE  StackFits(stack', pair) /\ stack' \in Seq(Frames) /\ ~Refusing(Head(stack'))
  <2> DEFINE x == Frame(Stage[k][1], Stage[k][2], 0)
             y == [h EXCEPT !.pc = k + 1]
  <2>0. ~pair.fault BY <1>0, <1>1, <1>9 DEF FrameFits, Handlers
  <2>3. /\ x \in Frames /\ x.f = Stage[k][1] /\ x.w = Stage[k][2] /\ Moving(x) /\ StageOf(x) = k
        /\ ~Refusing(x) /\ FrameFits(x, pair) /\ (Exclusive(x) => k > 1) BY <2>0, StageFrames
  <2>4. k + 1 \in 0..5 OBVIOUS
  <2>5. y \in Frames /\ y.f = "cycle" /\ y.pc = k + 1 /\ y.b = h.b BY <1>0, <1>1, <2>4, FrameAt, Zenon
  <2>6. stack' = <<x, y>> \o r BY <1>9
  <2> HIDE DEF x, y
  <2>7. FrameFits(y, pair) BY <1>0, <1>1, <2>0, <2>5 DEF FrameFits, Refusing
  <2>8. Exclusive(x) => ~OnStack(stack, x.f, x.w) BY <1>9, <2>3 DEF Locked
  <2>9. StackFits(stack', pair) /\ stack' = <<x>> \o (<<y>> \o r)
    BY <1>0, <1>2, <2>3, <2>5, <2>6, <2>7, <2>8, FitsStage, Zenon
  <2>10. <<y>> \o r \in Seq(Frames) BY <1>1, <2>5, OnTop
  <2> QED BY <2>3, <2>9, <2>10, OnTop
<1>10. CASE stack' = <<Cycle(h.n + 1)>> \o r
  <2> DEFINE x == Cycle(h.n + 1)
  <2>2. h.n + 1 \in Nat BY <1>4
  <2>3. x \in Frames /\ x.f = "cycle" /\ ~x.b /\ x.pc = 0 /\ ~Moving(x) BY <2>2, Made
  <2>1. stack' = <<x>> \o r BY <1>10
  <2> HIDE DEF x
  <2>4. FrameFits(x, pair) /\ ~Refusing(x) BY <2>3, PlainFits, HandlerFits
  <2> QED BY <1>1, <1>2, <2>1, <2>3, <2>4, FitsSwap, OnTop
<1> QED BY <1>7, <1>8, <1>9, <1>10, CycleCases, Zenon

\* Everything but the stack.
TypesBut ==
  /\ st \in [Sides -> Streams] /\ ssl \in Engines /\ pair \in Flags
  /\ net \in Nets /\ io \in Ios /\ calls \in 0..MaxCalls

\* While the program runs no frame on top holds anything.
LEMMA RunningTop ==
  ASSUME Control, Running
  PROVE  stack \in Seq(Frames) /\ ~AtErr /\ (stack = <<>> \/ (~Moving(Head(stack)) /\ ~Refusing(Head(stack))))
BY DEF Control, Types, Running, Idle, Handlers, AtErr, Moving, Refusing

\* The program or the event loop calls a method, which may call another one.
LEMMA CallControl ==
  ASSUME Control, Running, TypesBut', Shaped(st'["clr"].pend),
         pair'.secure = pair.secure, pair'.fault = pair.fault,
         ssl'.flights = ssl.flights, ssl'.up => ssl.up, ssl'.error => ssl.error,
         io'.secures = io.secures, io'.got = io.got,
         \/ stack' = stack
         \/ \E x \in Frames : /\ stack' = <<x>> \o stack
                              /\ x.f \in Handlers \cup {"cycle"} /\ (x.f = "cycle" => ~x.b /\ x.pc = 0)
         \/ \E x, y \in Frames : /\ stack' = <<x, y>> \o stack
                                 /\ x.f = "cycle" /\ ~x.b /\ x.pc = 0 /\ y.f = "write"
  PROVE  Control'
<1>1. /\ stack \in Seq(Frames) /\ ~AtErr /\ (stack = <<>> \/ ~Moving(Head(stack)))
      /\ (stack = <<>> \/ ~Refusing(Head(stack))) BY RunningTop
<1>2. Guards /\ StackFits(stack, pair) BY DEF Control
<1>3. SUFFICES /\ StackFits(stack', pair) /\ stack' \in Seq(Frames)
               /\ stack' # <<>> => ~Refusing(Head(stack'))
  <2>1. StackFits(stack', pair') BY <1>3, FitsLater
  <2>2. Types' BY <1>3 DEF Types, TypesBut
  <2>3. Guards' BY <1>1, <1>2, <1>3, GuardsAfter
  <2> QED BY <2>1, <2>2, <2>3 DEF Control
<1>4. CASE stack' = stack BY <1>1, <1>2, <1>4
<1>5. ASSUME NEW x \in Frames, stack' = <<x>> \o stack,
             x.f \in Handlers \cup {"cycle"}, x.f = "cycle" => ~x.b /\ x.pc = 0
      PROVE  StackFits(stack', pair) /\ stack' \in Seq(Frames) /\ ~Refusing(Head(stack'))
  <2>1. ~Moving(x) BY <1>5 DEF Moving, Handlers
  <2>2. FrameFits(x, pair) /\ ~Refusing(x) BY <1>5, <2>1, PlainFits DEF Refusing, Moving
  <2> QED BY <1>1, <1>2, <1>5, <2>1, <2>2, FitsCall, OnTop
<1>6. ASSUME NEW x \in Frames, NEW y \in Frames, stack' = <<x, y>> \o stack,
             x.f = "cycle", ~x.b, x.pc = 0, y.f = "write"
      PROVE  StackFits(stack', pair) /\ stack' \in Seq(Frames) /\ ~Refusing(Head(stack'))
  <2>1. ~Moving(x) /\ ~Moving(y) BY <1>6 DEF Moving
  <2>2. FrameFits(x, pair) /\ ~Refusing(x) /\ FrameFits(y, pair) BY <1>6, <2>1, PlainFits, Zenon DEF Refusing, Moving
  <2>3. StackFits(stack', pair) /\ stack' = <<x>> \o (<<y>> \o stack)
    BY <1>1, <1>2, <1>6, <2>1, <2>2, FitsCallTwo, Zenon
  <2>4. <<y>> \o stack \in Seq(Frames) BY <1>1, OnTop
  <2> QED BY <2>2, <2>3, <2>4, OnTop
<1> QED BY <1>4, <1>5, <1>6, Zenon

\* One more entry.
Grown(q, e) == Append(q, e)

\* CryptoStream:write, up to the cycle it runs.
LEMMA WriteFields ==
  ASSUME Types, NEW w \in Sides, NEW data \in Seq(Items), write(w, data)
  PROVE  /\ st' \in [Sides -> Streams] /\ st'[Other(w)] = st[Other(w)]
         /\ st'[w].pend = Grown(st[w].pend, data) /\ st'[w].bytes = st[w].bytes + 1
         /\ st'[w].paused = st[w].paused /\ st'[w].needDrain = st[w].needDrain /\ st'[w].due = st[w].due
         /\ st'[w].writable = st[w].writable /\ st'[w].done = st[w].done
         /\ st'[w].destroyAfterPush = st[w].destroyAfterPush
         /\ pair' \in Flags /\ pair'.secure = pair.secure /\ pair'.fault = pair.fault
         /\ pair'.failed = pair.failed /\ pair'.done = pair.done /\ pair'.how = pair.how
         /\ pair'.started = pair.started
         /\ pair'.queued <=> pair.queued \/ (w = "clr" /\ (st[w].pend # <<>> \/ ~st[w].writable))
         /\ Cycle(0) \in Frames /\ Cycle(0).f = "cycle" /\ ~Cycle(0).b /\ Cycle(0).pc = 0
         /\ Frame("write", w, 0) \in Frames /\ Frame("write", w, 0).f = "write"
<1>1. st[w] \in Streams /\ pair \in Flags /\ st \in [Sides -> Streams] BY DEF Types
<1>2. st[w].pend \in Seq(Seq(Items)) /\ st[w].bytes \in Int /\ st[w].writable \in BOOLEAN BY <1>1 DEF Streams
<1>3. Append(st[w].pend, data) \in Seq(Seq(Items)) /\ st[w].bytes + 1 \in Int BY <1>2, AppendProperties
<1>4. st' = [st EXCEPT ![w].pend = Append(st[w].pend, data), ![w].bytes = st[w].bytes + 1]
  <2>1. st' = [st EXCEPT ![w].pend = Append(@, data), ![w].bytes = @ + 1] BY DEF write
  <2> DEFINE D == Seq(Seq(Items))
  <2>2. Streams = [pend : D, bytes : Int, paused : BOOLEAN, needDrain : BOOLEAN, due : Nat,
                   writable : BOOLEAN, done : BOOLEAN, destroyAfterPush : BOOLEAN] BY DEF Streams
  <2> HIDE DEF D, Streams, Items
  <2> QED BY <1>1, <2>1, <2>2
<1>5. /\ st' \in [Sides -> Streams] /\ st'[Other(w)] = st[Other(w)]
      /\ st'[w].pend = Append(st[w].pend, data) /\ st'[w].bytes = st[w].bytes + 1
      /\ st'[w].paused = st[w].paused /\ st'[w].needDrain = st[w].needDrain /\ st'[w].due = st[w].due
      /\ st'[w].writable = st[w].writable /\ st'[w].done = st[w].done
      /\ st'[w].destroyAfterPush = st[w].destroyAfterPush
  <2>1. PICK q, n : q = Append(st[w].pend, data) /\ n = st[w].bytes + 1 BY Zenon
  <2>2. q \in Seq(Seq(Items)) /\ n \in Int /\ st' = WithEntry(st, w, q, n) BY <1>3, <1>4, <2>1 DEF WithEntry
  <2>3. /\ st' \in [Sides -> Streams] /\ st'[Other(w)] = st[Other(w)] /\ st'[w].pend = q /\ st'[w].bytes = n
        /\ st'[w].paused = st[w].paused /\ st'[w].needDrain = st[w].needDrain /\ st'[w].due = st[w].due
        /\ st'[w].writable = st[w].writable /\ st'[w].done = st[w].done
        /\ st'[w].destroyAfterPush = st[w].destroyAfterPush BY <1>1, <2>2, PutEntry
  <2> QED BY <2>1, <2>3
<1>6. /\ pair' \in Flags /\ pair'.secure = pair.secure /\ pair'.fault = pair.fault
      /\ pair'.failed = pair.failed /\ pair'.done = pair.done /\ pair'.how = pair.how
      /\ pair'.started = pair.started
      /\ pair'.queued <=> pair.queued \/ (w = "clr" /\ (st[w].pend # <<>> \/ ~st[w].writable))
  BY <1>1, <1>2, Zenon DEF write, Flags
<1>7. "write" \in Methods /\ 0 \in 0..5 BY DEF Methods
<1>8. Frame("write", w, 0) \in Frames /\ Frame("write", w, 0).f = "write" BY <1>7, FrameMade
<1> QED BY <1>5, <1>6, <1>8, Made DEF Grown

\* CryptoStream:done.
LEMMA DoneFields ==
  ASSUME Types, NEW w \in Sides, done(w)
  PROVE  /\ ~pair.done /\ st[w].writable
         /\ st' \in [Sides -> Streams] /\ st'[Other(w)] = st[Other(w)]
         /\ st'[w].pend = Grown(st[w].pend, <<>>) /\ st'[w].bytes = st[w].bytes
         /\ st'[w].paused = st[w].paused /\ st'[w].needDrain = st[w].needDrain /\ st'[w].due = st[w].due
         /\ ~st'[w].writable /\ st'[w].done = st[w].done
         /\ st'[w].destroyAfterPush = st[w].destroyAfterPush
         /\ pair' \in Flags /\ pair'.secure = pair.secure /\ pair'.fault = pair.fault
         /\ pair'.failed = pair.failed /\ pair'.done = pair.done /\ pair'.how = pair.how
         /\ pair'.started = pair.started
         /\ pair'.queued <=> pair.queued \/ (w = "clr" /\ st[w].pend # <<>>)
         /\ stack' = <<Cycle(0)>> \o stack /\ ssl' = ssl /\ io' = io
         /\ Cycle(0) \in Frames /\ Cycle(0).f = "cycle" /\ ~Cycle(0).b /\ Cycle(0).pc = 0
<1>1. st[w] \in Streams /\ pair \in Flags /\ st \in [Sides -> Streams] BY DEF Types
<1>2. st[w].pend \in Seq(Seq(Items)) /\ <<>> \in Seq(Items) BY <1>1 DEF Streams
<1>3. Append(st[w].pend, <<>>) \in Seq(Seq(Items)) BY <1>2, AppendProperties
<1>4. st' = [st EXCEPT ![w].pend = Append(st[w].pend, <<>>), ![w].writable = FALSE] BY DEF done, END_OF_FILE
<1>5. /\ st' \in [Sides -> Streams] /\ st'[Other(w)] = st[Other(w)]
      /\ st'[w].pend = Append(st[w].pend, <<>>) /\ st'[w].bytes = st[w].bytes
      /\ st'[w].paused = st[w].paused /\ st'[w].needDrain = st[w].needDrain /\ st'[w].due = st[w].due
      /\ ~st'[w].writable /\ st'[w].done = st[w].done
      /\ st'[w].destroyAfterPush = st[w].destroyAfterPush
  <2>1. PICK q : q = Append(st[w].pend, <<>>) BY Zenon
  <2>2. q \in Seq(Seq(Items)) /\ st' = WithEnd(st, w, q) BY <1>3, <1>4, <2>1 DEF WithEnd
  <2>3. /\ st' \in [Sides -> Streams] /\ st'[Other(w)] = st[Other(w)] /\ st'[w].pend = q /\ ~st'[w].writable
        /\ st'[w].bytes = st[w].bytes /\ st'[w].paused = st[w].paused /\ st'[w].needDrain = st[w].needDrain
        /\ st'[w].due = st[w].due /\ st'[w].done = st[w].done
        /\ st'[w].destroyAfterPush = st[w].destroyAfterPush BY <1>1, <2>2, PutEnd
  <2> QED BY <2>1, <2>3
<1>6. /\ pair' \in Flags /\ pair'.secure = pair.secure /\ pair'.fault = pair.fault
      /\ pair'.failed = pair.failed /\ pair'.done = pair.done /\ pair'.how = pair.how
      /\ pair'.started = pair.started
      /\ pair'.queued <=> pair.queued \/ (w = "clr" /\ st[w].pend # <<>>) BY <1>1, <1>2, Zenon DEF done, Flags
<1>7. ~pair.done /\ st[w].writable /\ stack' = <<Cycle(0)>> \o stack /\ ssl' = ssl /\ io' = io BY DEF done
<1> QED BY <1>5, <1>6, <1>7, Made DEF Grown

\* pause and resume.
LEMMA PauseFields ==
  ASSUME Types, NEW w \in Sides
  PROVE  /\ pause(w) => /\ st' \in [Sides -> Streams] /\ st'[Other(w)] = st[Other(w)] /\ st'[w].paused
                        /\ UNCHANGED <<ssl, pair, stack, net, io>>
                        /\ st'[w].pend = st[w].pend /\ st'[w].bytes = st[w].bytes /\ st'[w].due = st[w].due
                        /\ st'[w].needDrain = st[w].needDrain /\ st'[w].writable = st[w].writable
                        /\ st'[w].done = st[w].done /\ st'[w].destroyAfterPush = st[w].destroyAfterPush
         /\ resume(w) => /\ st' \in [Sides -> Streams] /\ st'[Other(w)] = st[Other(w)] /\ ~st'[w].paused
                         /\ UNCHANGED <<ssl, pair, net, io>> /\ stack' = <<Cycle(0)>> \o stack
                         /\ Cycle(0) \in Frames /\ Cycle(0).f = "cycle" /\ ~Cycle(0).b /\ Cycle(0).pc = 0
                         /\ st'[w].pend = st[w].pend /\ st'[w].bytes = st[w].bytes /\ st'[w].due = st[w].due
                         /\ st'[w].needDrain = st[w].needDrain /\ st'[w].writable = st[w].writable
                         /\ st'[w].done = st[w].done /\ st'[w].destroyAfterPush = st[w].destroyAfterPush
<1>1. st \in [Sides -> Streams] BY DEF Types
<1>2. ASSUME NEW b \in BOOLEAN, st' = WithPaused(st, w, b)
      PROVE  /\ st' \in [Sides -> Streams] /\ st'[Other(w)] = st[Other(w)] /\ st'[w].paused = b
             /\ st'[w].pend = st[w].pend /\ st'[w].bytes = st[w].bytes /\ st'[w].due = st[w].due
             /\ st'[w].needDrain = st[w].needDrain /\ st'[w].writable = st[w].writable
             /\ st'[w].done = st[w].done /\ st'[w].destroyAfterPush = st[w].destroyAfterPush BY <1>1, <1>2, PutPaused
<1>3. pause(w) => st' = WithPaused(st, w, TRUE) /\ UNCHANGED <<ssl, pair, stack, net, io>> BY DEF pause, WithPaused
<1>4. resume(w) => st' = WithPaused(st, w, FALSE) /\ UNCHANGED <<ssl, pair, net, io>> /\ stack' = <<Cycle(0)>> \o stack
  BY DEF resume, WithPaused
<1>5. Cycle(0) \in Frames /\ Cycle(0).f = "cycle" /\ ~Cycle(0).b /\ Cycle(0).pc = 0 BY Made
<1>6. CASE st' = WithPaused(st, w, TRUE) BY <1>2, <1>3, <1>4, <1>5, <1>6, Zenon
<1>7. CASE st' = WithPaused(st, w, FALSE) BY <1>2, <1>3, <1>4, <1>5, <1>7, Zenon
<1> QED BY <1>3, <1>4, <1>6, <1>7, Zenon

\* An entry is added.
LEMMA ShapedAppend ==
  ASSUME NEW q \in Seq(Seq(Items)), Shaped(q), NEW e \in Seq(Items), e = <<>> \/ Chunked(e)
  PROVE  Shaped(Append(q, e))
<1> DEFINE u == Append(q, e)
<1>1. PICK V : V = Seq(Items) /\ q \in Seq(V) /\ e \in V OBVIOUS
<1>2. Len(q) \in Nat /\ DOMAIN q = 1..Len(q) /\ DOMAIN u = 1..(Len(q) + 1) /\ u[Len(q) + 1] = e
      /\ \A i \in 1..Len(q) : u[i] = q[i] BY <1>1
<1> HIDE DEF u
<1>3. \A i \in DOMAIN u : i \in DOMAIN q \/ i = Len(q) + 1 BY <1>2
<1>4. Shaped(u) BY <1>2, <1>3, Zenon DEF Shaped
<1> QED BY <1>4 DEF u

\* The fields the first layer is about.
LEMMA TypeFacts ==
  ASSUME Types
  PROVE  /\ TypesBut /\ stack \in Seq(Frames)
         /\ \A w \in Sides : /\ st[w] \in Streams /\ st[w].pend \in Seq(Seq(Items)) /\ st[w].bytes \in Int
                             /\ st[w].due \in Nat /\ st[w].paused \in BOOLEAN /\ st[w].needDrain \in BOOLEAN
                             /\ st[w].writable \in BOOLEAN
         /\ "enc" \in Sides /\ "clr" \in Sides /\ Other("enc") = "clr" /\ Other("clr") = "enc"
         /\ \A w \in Sides : Other(w) \in Sides /\ Other(w) # w /\ Other(Other(w)) = w
         /\ io.written \in Seq(Chunks) /\ io.wire \in Seq(Items) /\ io.got \in Seq(Items)
         /\ ssl.in \in Seq(Items) /\ ssl.out \in Seq(Items) /\ ssl.flights \in 0..2
         /\ net.queue \in Seq(Items) /\ net.todo \in Seq(Peers) /\ net.flights \in 0..2
<1>1. TypesBut /\ stack \in Seq(Frames) BY DEF Types, TypesBut
<1>2. ASSUME NEW w \in Sides
      PROVE  /\ st[w] \in Streams /\ st[w].pend \in Seq(Seq(Items)) /\ st[w].bytes \in Int
             /\ st[w].due \in Nat /\ st[w].paused \in BOOLEAN /\ st[w].needDrain \in BOOLEAN
             /\ st[w].writable \in BOOLEAN BY <1>1 DEF TypesBut, Streams
<1>3. /\ "enc" \in Sides /\ "clr" \in Sides /\ Other("enc") = "clr" /\ Other("clr") = "enc"
      /\ \A w \in Sides : Other(w) \in Sides /\ Other(w) # w /\ Other(Other(w)) = w BY DEF Sides, Other
<1>4. io.written \in Seq(Chunks) /\ io.wire \in Seq(Items) /\ io.got \in Seq(Items) BY <1>1 DEF TypesBut, Ios
<1>5. ssl.in \in Seq(Items) /\ ssl.out \in Seq(Items) /\ ssl.flights \in 0..2 BY <1>1 DEF TypesBut, Engines, Flights
<1>6. net.queue \in Seq(Items) /\ net.todo \in Seq(Peers) /\ net.flights \in 0..2 BY <1>1 DEF TypesBut, Nets, Flights
<1> QED BY <1>1, <1>2, <1>3, <1>4, <1>5, <1>6

\* The program writes a chunk.
LEMMA program_writesControl == Control /\ program_writes => Control'
<1> SUFFICES ASSUME Control, program_writes PROVE Control' OBVIOUS
<1>1. PICK c \in Chunks : write("clr", <<c>>) /\ io' = [io EXCEPT !.written = Append(@, c)]
  BY Zenon DEF program_writes
<1>2. Running /\ UNCHANGED <<ssl, net, calls>> /\ Types /\ Guards BY DEF program_writes, Control
<1>3. <<c>> \in Seq(Items) /\ "clr" \in Sides /\ st["clr"].pend \in Seq(Seq(Items)) BY <1>2, OwnItems, TypeFacts
<1>4. /\ st' \in [Sides -> Streams] /\ pair' \in Flags /\ pair'.secure = pair.secure /\ pair'.fault = pair.fault
      /\ st'["clr"].pend = Append(st["clr"].pend, <<c>>)
      /\ stack' = <<Cycle(0), Frame("write", "clr", 0)>> \o stack
      /\ Cycle(0) \in Frames /\ Cycle(0).f = "cycle" /\ ~Cycle(0).b /\ Cycle(0).pc = 0
      /\ Frame("write", "clr", 0) \in Frames /\ Frame("write", "clr", 0).f = "write"
  <2>1. PICK d \in Seq(Items) : d = <<c>> /\ write("clr", d) BY <1>1, <1>3, Zenon
  <2>2. /\ st' \in [Sides -> Streams] /\ pair' \in Flags /\ pair'.secure = pair.secure /\ pair'.fault = pair.fault
        /\ st'["clr"].pend = Grown(st["clr"].pend, d)
        /\ Cycle(0) \in Frames /\ Cycle(0).f = "cycle" /\ ~Cycle(0).b /\ Cycle(0).pc = 0
        /\ Frame("write", "clr", 0) \in Frames /\ Frame("write", "clr", 0).f = "write"
    <3>1. Types /\ write("clr", d) /\ "clr" \in Sides BY <1>2, <1>3, <2>1
    <3> QED BY <3>1, WriteFields
  <2>3. stack' = <<Cycle(0), Frame("write", "clr", 0)>> \o stack BY <1>1 DEF write
  <2> QED BY <2>1, <2>2, <2>3 DEF Grown
<1>5. io' \in Ios /\ io'.secures = io.secures /\ io'.got = io.got
  <2>1. io \in Ios /\ Append(io.written, c) \in Seq(Chunks) BY <1>2, TypeFacts DEF TypesBut
  <2> HIDE DEF Items
  <2> QED BY <1>1, <2>1, Zenon DEF Ios
<1>6. Shaped(st'["clr"].pend) BY <1>2, <1>3, <1>4, ShapedAppend, Zenon DEF Guards, Chunked
<1>7. TypesBut' BY <1>2, <1>4, <1>5, TypeFacts DEF TypesBut
<1> QED BY <1>2, <1>4, <1>5, <1>6, <1>7, CallControl, Zenon

\* The program resumes its stream.
LEMMA program_resumesControl == Control /\ program_resumes => Control'
<1> SUFFICES ASSUME Control, program_resumes PROVE Control' OBVIOUS
<1>1. Running /\ resume("clr") /\ UNCHANGED calls /\ Types /\ Guards BY DEF program_resumes, Control
<1>2. "clr" \in Sides /\ TypesBut BY <1>1, TypeFacts
<1>3. /\ st' \in [Sides -> Streams] /\ UNCHANGED <<ssl, pair, net, io>> /\ stack' = <<Cycle(0)>> \o stack
      /\ Cycle(0) \in Frames /\ Cycle(0).f = "cycle" /\ ~Cycle(0).b /\ Cycle(0).pc = 0
      /\ st'["clr"].pend = st["clr"].pend BY <1>1, <1>2, PauseFields
<1>4. TypesBut' /\ Shaped(st'["clr"].pend) BY <1>1, <1>2, <1>3 DEF TypesBut, Guards
<1> QED BY <1>1, <1>3, <1>4, CallControl, Zenon

\* The flags of the socket change, and nothing else of it.
Marked(n, a) == [n EXCEPT !.destroyed = a]
Shut(n, a, b) == [n EXCEPT !.closed = a, !.ended = b]
Stopped(n, a, b) == [n EXCEPT !.paused = a, !.raised = b]
Ended(n, a, b, c) == [n EXCEPT !.over = a, !.ended = b, !.destroyed = c]
SameQueue(n, m) == m \in Nets /\ m.todo = n.todo /\ m.queue = n.queue /\ m.flights = n.flights

\* Such a change leaves the peer and the queue alone.
LEMMA NetMarked ==
  ASSUME NEW n \in Nets
  PROVE  /\ SameQueue(n, Marked(n, TRUE)) /\ Marked(n, TRUE).over = n.over
         /\ SameQueue(n, Shut(n, TRUE, TRUE)) /\ Shut(n, TRUE, TRUE).over = n.over
<1> HIDE DEF Peers, Items, Flights
<1>1. SameQueue(n, Marked(n, TRUE)) /\ Marked(n, TRUE).over = n.over BY Zenon DEF Nets, SameQueue, Marked
<1>2. SameQueue(n, Shut(n, TRUE, TRUE)) /\ Shut(n, TRUE, TRUE).over = n.over BY Zenon DEF Nets, SameQueue, Shut
<1> QED BY <1>1, <1>2

\* So does a change of what is read.
LEMMA NetStopped ==
  ASSUME NEW n \in Nets, NEW a \in BOOLEAN, NEW b \in BOOLEAN
  PROVE  SameQueue(n, Stopped(n, a, b)) /\ Stopped(n, a, b).over = n.over
<1> HIDE DEF Peers, Items, Flights
<1> QED BY Zenon DEF Nets, SameQueue, Stopped

\* The end of the socket is the end of the peer.
LEMMA NetEnded ==
  ASSUME NEW n \in Nets, NEW c \in BOOLEAN
  PROVE  SameQueue(n, Ended(n, TRUE, TRUE, c)) /\ Ended(n, TRUE, TRUE, c).over
<1> HIDE DEF Peers, Items, Flights
<1> QED BY Zenon DEF Nets, SameQueue, Ended

\* A handler calls done, pause or destroy.
LEMMA program_callsControl == Control /\ program_calls => Control'
<1> SUFFICES ASSUME Control, program_calls PROVE Control' OBVIOUS
<1>1. Running /\ calls < MaxCalls /\ calls' = calls + 1 /\ Types /\ Guards BY DEF program_calls, Control
<1>2. "clr" \in Sides /\ TypesBut /\ calls' \in 0..MaxCalls /\ st["clr"].pend \in Seq(Seq(Items)) /\ <<>> \in Seq(Items)
  <2>1. calls' \in 0..MaxCalls BY <1>1, PairAssumption DEF Types
  <2> QED BY <1>1, <2>1, TypeFacts
<1>3. CASE done("clr") /\ UNCHANGED net
  <2>1. /\ st' \in [Sides -> Streams] /\ pair' \in Flags /\ pair'.secure = pair.secure /\ pair'.fault = pair.fault
        /\ st'["clr"].pend = Grown(st["clr"].pend, <<>>)
        /\ stack' = <<Cycle(0)>> \o stack /\ ssl' = ssl /\ io' = io
        /\ Cycle(0) \in Frames /\ Cycle(0).f = "cycle" /\ ~Cycle(0).b /\ Cycle(0).pc = 0
    BY <1>1, <1>2, <1>3, DoneFields
  <2>2. Shaped(st'["clr"].pend) BY <1>1, <1>2, <2>1, ShapedAppend, Zenon DEF Guards, Grown
  <2>3. TypesBut' BY <1>2, <1>3, <2>1 DEF TypesBut
  <2> QED BY <1>1, <2>1, <2>2, <2>3, CallControl, Zenon
<1>4. CASE pause("clr")
  <2>1. st' \in [Sides -> Streams] /\ UNCHANGED <<ssl, pair, stack, net, io>> /\ st'["clr"].pend = st["clr"].pend
    BY <1>1, <1>2, <1>4, PauseFields
  <2>2. TypesBut' /\ Shaped(st'["clr"].pend) BY <1>1, <1>2, <2>1 DEF TypesBut, Guards
  <2> QED BY <1>1, <2>1, <2>2, CallControl
<1>5. CASE destroy(st, "program", stack) /\ UNCHANGED <<stack, net, io>>
  <2>1. /\ st' \in [Sides -> Streams] /\ ssl' \in Engines /\ pair' \in Flags
        /\ pair'.secure = pair.secure /\ pair'.fault = pair.fault /\ ssl'.flights = ssl.flights
        /\ (ssl'.up => ssl.up) /\ ssl'.error = ssl.error /\ st'["clr"].pend = st["clr"].pend
    BY <1>1, <1>2, <1>5, DestroyFields DEF TypesBut, SameStream, SameEngine, SameFlags
  <2>2. TypesBut' /\ Shaped(st'["clr"].pend) BY <1>1, <1>2, <1>5, <2>1 DEF TypesBut, Guards
  <2> QED BY <1>1, <1>5, <2>1, <2>2, CallControl
<1>6. CASE CleartextStream_destroy
  <2>1. net' = Marked(net, TRUE) /\ UNCHANGED <<st, ssl, pair, stack, io>> BY <1>6 DEF CleartextStream_destroy, Marked
  <2>2. net' \in Nets BY <1>2, <2>1, NetMarked DEF TypesBut, SameQueue
  <2>3. TypesBut' /\ Shaped(st'["clr"].pend) BY <1>1, <1>2, <2>1, <2>2 DEF TypesBut, Guards
  <2> QED BY <1>1, <2>1, <2>3, CallControl
<1> QED BY <1>3, <1>4, <1>5, <1>6 DEF program_calls, CryptoStream_destroy

\* A handler returns.
LEMMA handler_returnsControl == Control /\ handler_returns => Control'
<1> SUFFICES ASSUME Control, handler_returns PROVE Control' OBVIOUS
<1>1. ~Idle /\ Running /\ stack' = Tail(stack) /\ UNCHANGED <<st, ssl, pair, net, io, calls>> /\ Types /\ Guards
  BY DEF handler_returns, Control
<1>2. StackFits(stack', pair') /\ stack' \in Seq(Frames) /\ (stack' # <<>> => ~Refusing(Head(stack')))
  BY <1>1, TopFits
<1>3. Types' BY <1>1, <1>2 DEF Types
<1>4. Guards' BY <1>1, <1>2, RunningTop, GuardsAfter DEF Guards
<1> QED BY <1>2, <1>3, <1>4 DEF Control

\* The streams of a destroyed pair report their end.
LEMMA destroyedControl == Control /\ destroyed => Control'
<1> SUFFICES ASSUME Control, destroyed PROVE Control' OBVIOUS
<1>1. /\ Idle /\ pair' = [pair EXCEPT !.closed = TRUE] /\ stack' = <<User("close")>>
      /\ UNCHANGED <<st, ssl, io, calls>> /\ Types /\ Guards /\ net' \in Nets
  <2>1. net' = Marked(net, TRUE) /\ net \in Nets BY DEF destroyed, Marked, Control, Types
  <2>2. net' \in Nets BY <2>1, NetMarked DEF SameQueue
  <2> QED BY <2>2 DEF destroyed, Control
<1>2. pair' \in Flags /\ pair'.secure = pair.secure /\ pair'.fault = pair.fault BY <1>1, Zenon DEF Types, Flags
<1>3. PICK x \in Frames : x = User("close") /\ x.f = "close" /\ x.f \in Handlers \cup {"cycle"} BY Made DEF Handlers
<1>4. stack' = <<x>> \o stack
  <2>1. stack = <<>> BY <1>1 DEF Idle
  <2>2. <<x>> \o <<>> = <<x>> OBVIOUS
  <2> QED BY <1>1, <1>3, <2>1, <2>2
<1>5. TypesBut' /\ Running /\ Shaped(st'["clr"].pend) BY <1>1, <1>2 DEF TypesBut, Types, Running, Guards
<1> QED BY <1>1, <1>2, <1>3, <1>4, <1>5, CallControl, Zenon

\* The frame of the first cycle.
LEMMA FirstCycle ==
  /\ <<Cycle(0)>> \o <<>> = <<Cycle(0)>>
  /\ Cycle(0) \in Frames /\ Cycle(0).f = "cycle" /\ ~Cycle(0).b /\ Cycle(0).pc = 0
BY Made

\* The timer starts the pair.
LEMMA startControl == Control /\ start => Control'
<1> SUFFICES ASSUME Control, start PROVE Control' OBVIOUS
<1>1. /\ Idle /\ pair' = [pair EXCEPT !.started = TRUE] /\ stack' = <<Cycle(0)>>
      /\ ssl' = (IF ssl.up THEN tls_conn_start(ssl) ELSE ssl)
      /\ UNCHANGED <<st, net, io, calls>> /\ Types /\ Guards /\ StackFits(stack, pair) BY DEF start, Control
<1>2. pair' \in Flags /\ pair'.secure = pair.secure /\ pair'.fault = pair.fault BY <1>1, Zenon DEF Types, Flags
<1>3. PICK x \in Frames : x = Cycle(0) /\ x.f = "cycle" /\ ~x.b /\ x.pc = 0 BY FirstCycle
<1>4. stack' = <<x>> \o stack /\ stack = <<>> BY <1>1, <1>3, FirstCycle DEF Idle
<1>5. ssl \in Engines BY <1>1 DEF Types
<1>6. ssl' \in Engines /\ (ssl.flights = 2 => ssl' = ssl) BY <1>1, <1>5, StartFields DEF Shakes
<1>7. ~Moving(x) /\ ~Refusing(x) BY <1>3 DEF Moving, Refusing
<1>8. FrameFits(x, pair) BY <1>3, <1>7, PlainFits
<1>9. StackFits(stack', pair) BY <1>1, <1>4, <1>7, <1>8, FitsCall, Zenon
<1>10. StackFits(stack', pair') BY <1>2, <1>9, FitsLater
<1>11. stack' \in Seq(Frames) /\ Head(stack') = x
  <2>1. stack \in Seq(Frames) BY <1>1 DEF Types
  <2> QED BY <1>4, <2>1, OnTop
<1>12. Types' BY <1>1, <1>2, <1>6, <1>11 DEF Types
<1>13. Guards'
  <2>1. ~AtErr BY <1>4 DEF AtErr
  <2> QED BY <1>1, <1>2, <1>6, <1>7, <1>11, <2>1 DEF Guards, AtErr
<1> QED BY <1>10, <1>12, <1>13 DEF Control

\* The rest of write.
LEMMA WrittenFields ==
  ASSUME Control, written
  PROVE  LET w == Head(stack).w IN
         /\ w \in Sides /\ ~Idle /\ Head(stack).f = "write"
         /\ st' \in [Sides -> Streams] /\ st'[Other(w)] = st[Other(w)]
         /\ st'[w].needDrain <=> st[w].needDrain \/ st[w].bytes >= HighWater \/ st[Other(w)].paused
         /\ st'[w].pend = st[w].pend /\ st'[w].bytes = st[w].bytes /\ st'[w].paused = st[w].paused
         /\ st'[w].due = st[w].due /\ st'[w].writable = st[w].writable
         /\ st'[w].done = st[w].done /\ st'[w].destroyAfterPush = st[w].destroyAfterPush
         /\ net' \in Nets /\ net'.todo = net.todo /\ net'.queue = net.queue /\ net'.flights = net.flights
         /\ net'.over = net.over /\ stack' = Tail(stack) /\ UNCHANGED <<ssl, pair, io, calls>>
<1> DEFINE w == Head(stack).w
           need == st[w].needDrain \/ st[w].bytes >= HighWater \/ st[Other(w)].paused
<1>0. Types /\ ~Idle /\ Head(stack).f = "write" BY DEF Control, written, Top
<1>1. st \in [Sides -> Streams] /\ net \in Nets /\ w \in Sides BY <1>0, TopFits DEF Types, Frames
<1>2. /\ st' = [st EXCEPT ![w].needDrain = need]
      /\ \E a, b \in BOOLEAN : net' = Stopped(net, a, b)
      /\ stack' = Tail(stack) /\ UNCHANGED <<ssl, pair, io, calls>>
  <2>1. /\ (net.paused \/ (w = "enc" /\ need)) \in BOOLEAN
        /\ (net.raised \/ (w = "enc" /\ need /\ net.destroyed)) \in BOOLEAN OBVIOUS
  <2> QED BY <2>1, Zenon DEF written, Stopped
<1>3. need \in BOOLEAN OBVIOUS
<1>4. net' \in Nets /\ net'.todo = net.todo /\ net'.queue = net.queue /\ net'.flights = net.flights
      /\ net'.over = net.over
  <2> HIDE DEF need, w
  <2>1. PICK a, b \in BOOLEAN : net' = Stopped(net, a, b) BY <1>2
  <2> QED BY <1>1, <2>1, NetStopped DEF SameQueue
<1>5. /\ st' \in [Sides -> Streams] /\ st'[Other(w)] = st[Other(w)] /\ st'[w].needDrain = need
      /\ st'[w].pend = st[w].pend /\ st'[w].bytes = st[w].bytes /\ st'[w].paused = st[w].paused
      /\ st'[w].due = st[w].due /\ st'[w].writable = st[w].writable
      /\ st'[w].done = st[w].done /\ st'[w].destroyAfterPush = st[w].destroyAfterPush
  <2>1. st' = WithNeed(st, w, need) BY <1>2 DEF WithNeed
  <2> HIDE DEF need, w
  <2> QED BY <1>1, <1>3, <2>1, PutNeed
<1> QED BY <1>0, <1>1, <1>2, <1>4, <1>5, Zenon

\* The rest of write.
LEMMA writtenControl == Control /\ written => Control'
<1> SUFFICES ASSUME Control, written PROVE Control' OBVIOUS
<1>1. PICK w \in Sides :
        /\ ~Idle /\ Head(stack).f = "write" /\ st' \in [Sides -> Streams] /\ st'[Other(w)] = st[Other(w)]
        /\ st'[w].pend = st[w].pend /\ net' \in Nets /\ stack' = Tail(stack) /\ UNCHANGED <<ssl, pair, io, calls>>
  BY WrittenFields
<1>2. Types /\ Guards BY DEF Control
<1>3. StackFits(stack', pair') /\ stack' \in Seq(Frames) /\ (stack' # <<>> => ~Refusing(Head(stack')))
  BY <1>1, TopFits
<1>4. Types' BY <1>1, <1>2, <1>3 DEF Types
<1>5. Shaped(st'["clr"].pend) BY <1>1, <1>2 DEF Guards, Sides, Other
<1>6. ~AtErr BY <1>1 DEF AtErr
<1>7. Guards' BY <1>1, <1>2, <1>3, <1>5, <1>6, GuardsAfter
<1> QED BY <1>3, <1>4, <1>7 DEF Control

\* The timer of _pull.
LEMMA DrainFields ==
  ASSUME Types, NEW w \in Sides, emit_drain(w)
  PROVE  /\ Idle /\ st[w].due > 0 /\ st' \in [Sides -> Streams] /\ st'[Other(w)] = st[Other(w)]
         /\ st'[w].pend = st[w].pend /\ st'[w].bytes = st[w].bytes /\ st'[w].paused = st[w].paused
         /\ st'[w].needDrain = st[w].needDrain /\ st'[w].writable = st[w].writable
         /\ st'[w].done = st[w].done /\ st'[w].destroyAfterPush = st[w].destroyAfterPush
         /\ net' \in Nets /\ net'.todo = net.todo /\ net'.queue = net.queue /\ net'.flights = net.flights
         /\ net'.over = net.over /\ UNCHANGED <<ssl, pair, io, calls>>
         /\ stack' = IF w = "clr" THEN <<User("drain")>> ELSE <<>>
<1>1. st \in [Sides -> Streams] /\ net \in Nets /\ st[w].due \in Nat BY TypeFacts DEF Types
<1>2. /\ Idle /\ st[w].due > 0 /\ st' = [st EXCEPT ![w].due = @ - 1]
      /\ \E a, b \in BOOLEAN : net' = Stopped(net, a, b)
      /\ stack' = (IF w = "clr" THEN <<User("drain")>> ELSE <<>>) /\ UNCHANGED <<ssl, pair, io, calls>>
  <2>1. net.paused \in BOOLEAN BY <1>1 DEF Nets
  <2>4. PICK a, b \in BOOLEAN : net' = Stopped(net, a, b)
    <3>1. net' = Stopped(net, IF w = "enc" THEN FALSE ELSE net.paused, net.raised \/ (w = "enc" /\ net.destroyed))
      BY Zenon DEF emit_drain, Stopped
    <3>2. PICK a, b : /\ a = (IF w = "enc" THEN FALSE ELSE net.paused)
                      /\ b = (net.raised \/ (w = "enc" /\ net.destroyed)) OBVIOUS
    <3>3. a \in BOOLEAN /\ b \in BOOLEAN
      <4>1. a \in BOOLEAN BY <2>1, <3>2
      <4>2. b \in BOOLEAN BY <3>2, Zenon
      <4> QED BY <4>1, <4>2
    <3>4. net' = Stopped(net, a, b) BY <3>1, <3>2
    <3> QED BY <3>3, <3>4, Zenon
  <2> QED BY <2>4, Zenon DEF emit_drain
<1>3. net' \in Nets /\ net'.todo = net.todo /\ net'.queue = net.queue /\ net'.flights = net.flights
      /\ net'.over = net.over
  <2>1. PICK a, b \in BOOLEAN : net' = Stopped(net, a, b) BY <1>2
  <2> QED BY <1>1, <2>1, NetStopped DEF SameQueue
<1>4. /\ st' \in [Sides -> Streams] /\ st'[Other(w)] = st[Other(w)]
      /\ st'[w].pend = st[w].pend /\ st'[w].bytes = st[w].bytes /\ st'[w].paused = st[w].paused
      /\ st'[w].needDrain = st[w].needDrain /\ st'[w].writable = st[w].writable
      /\ st'[w].done = st[w].done /\ st'[w].destroyAfterPush = st[w].destroyAfterPush
  <2>1. st[w].due - 1 \in Nat BY <1>1, <1>2
  <2>2. st' = WithDrained(st, w, st[w].due - 1) BY <1>2 DEF WithDrained
  <2> QED BY <1>1, <2>1, <2>2, PutDrained
<1> QED BY <1>2, <1>3, <1>4

\* 'drain' is emitted.
LEMMA emit_drainControl == ASSUME Control, NEW w \in Sides, emit_drain(w) PROVE Control'
<1>1. Types /\ Guards BY DEF Control
<1>2. /\ Idle /\ st' \in [Sides -> Streams] /\ st'[Other(w)] = st[Other(w)] /\ st'[w].pend = st[w].pend
      /\ net' \in Nets /\ UNCHANGED <<ssl, pair, io, calls>>
      /\ stack' = IF w = "clr" THEN <<User("drain")>> ELSE <<>> BY <1>1, DrainFields
<1>3. PICK x \in Frames : x = User("drain") /\ x.f = "drain" /\ x.f \in Handlers \cup {"cycle"} BY Made DEF Handlers
<1>4. stack' = stack \/ stack' = <<x>> \o stack
  <2>1. stack = <<>> BY <1>2 DEF Idle
  <2>2. <<x>> \o <<>> = <<x>> OBVIOUS
  <2> QED BY <1>2, <1>3, <2>1, <2>2
<1>5. TypesBut' /\ Running BY <1>1, <1>2 DEF TypesBut, Types, Running
<1>6. Shaped(st'["clr"].pend) BY <1>1, <1>2 DEF Guards, Sides, Other
<1> QED BY <1>2, <1>3, <1>4, <1>5, <1>6, CallControl, Zenon

\* The peer puts one item in the queue.
LEMMA PeerFields ==
  ASSUME Types, peer_sends
  PROVE  /\ Idle /\ ~net.over /\ net' \in Nets /\ UNCHANGED <<st, ssl, pair, stack, io, calls>>
         /\ \/ /\ net.flights < 2 /\ net'.flights = net.flights + 1 /\ net'.queue = Append(net.queue, "hs")
               /\ net'.todo = net.todo /\ ~net'.over
            \/ /\ net.flights = 2 /\ net'.flights = 2 /\ net.todo # <<>> /\ net'.todo = Tail(net.todo)
               /\ net'.queue = Append(net.queue, Head(net.todo)) /\ ~net'.over
            \/ /\ net.flights = 2 /\ net'.flights = 2 /\ net'.todo = net.todo
               /\ net'.queue = Append(net.queue, "fin") /\ net'.over
            \/ /\ net'.flights = net.flights /\ net'.todo = net.todo
               /\ net'.queue = Append(net.queue, "bad") /\ net'.over
<1>1. /\ net \in Nets /\ net.queue \in Seq(Items) /\ net.todo \in Seq(Peers) /\ net.flights \in 0..2
  BY TypeFacts DEF TypesBut
<1>2. Idle /\ ~net.over /\ UNCHANGED <<st, ssl, pair, stack, io, calls>> /\ Flights = 2 BY DEF peer_sends, Flights
<1>3. \A z \in {"hs", "fin", "bad"} : Append(net.queue, z) \in Seq(Items) BY <1>1, OwnItems
<1>4. net.todo # <<>> => Head(net.todo) \in Items /\ Tail(net.todo) \in Seq(Peers) BY <1>1, ConsParts, OwnItems
<1>5. net.todo # <<>> => Append(net.queue, Head(net.todo)) \in Seq(Items) BY <1>1, <1>4
<1> DEFINE D == Seq(Items)
           P == Seq(Peers)
<1>6. Nets = [todo : P, queue : D, flights : 0..2, over : BOOLEAN, paused : BOOLEAN,
   destroyed : BOOLEAN, closed : BOOLEAN, ended : BOOLEAN, raised : BOOLEAN] BY <1>2 DEF Nets
<1>7. net.todo \in P /\ net.queue \in D BY <1>1
<1>8. CASE net.flights < Flights /\ net' = [net EXCEPT !.flights = @ + 1, !.queue = Append(@, "hs")]
  <2>1. PICK q \in D : q = Append(net.queue, "hs") /\ net' = [net EXCEPT !.flights = net.flights + 1, !.queue = q]
    BY <1>3, <1>8, Zenon
  <2>3. net.flights + 1 \in 0..2 BY <1>1, <1>2, <1>8
  <2> HIDE DEF D, P
  <2>2. /\ net' \in Nets /\ net'.flights = net.flights + 1 /\ net'.queue = q /\ net'.todo = net.todo
        /\ net'.over = net.over BY <1>1, <1>2, <1>6, <1>7, <2>1, <2>3, Zenon
  <2> QED BY <1>2, <1>8, <2>1, <2>2
<1>9. CASE /\ net.flights = Flights /\ net.todo # <<>>
           /\ net' = [net EXCEPT !.todo = Tail(@), !.queue = Append(@, Head(net.todo))]
  <2>1. PICK q \in D, t \in P : /\ q = Append(net.queue, Head(net.todo)) /\ t = Tail(net.todo)
                                /\ net' = [net EXCEPT !.todo = t, !.queue = q] BY <1>4, <1>5, <1>9, Zenon
  <2> HIDE DEF D, P
  <2>2. /\ net' \in Nets /\ net'.flights = net.flights /\ net'.queue = q /\ net'.todo = t
        /\ net'.over = net.over BY <1>1, <1>2, <1>6, <1>7, <2>1, Zenon
  <2> QED BY <1>2, <1>9, <2>1, <2>2
<1>10. CASE net.flights = Flights /\ net' = [net EXCEPT !.over = TRUE, !.queue = Append(@, "fin")]
  <2>1. PICK q \in D : q = Append(net.queue, "fin") /\ net' = [net EXCEPT !.over = TRUE, !.queue = q]
    BY <1>3, <1>10, Zenon
  <2> HIDE DEF D, P
  <2>2. /\ net' \in Nets /\ net'.flights = net.flights /\ net'.queue = q /\ net'.todo = net.todo
        /\ net'.over BY <1>1, <1>2, <1>6, <1>7, <2>1, Zenon
  <2> QED BY <1>2, <1>10, <2>1, <2>2
<1>11. CASE net' = [net EXCEPT !.over = TRUE, !.queue = Append(@, "bad")]
  <2>1. PICK q \in D : q = Append(net.queue, "bad") /\ net' = [net EXCEPT !.over = TRUE, !.queue = q]
    BY <1>3, <1>11, Zenon
  <2> HIDE DEF D, P
  <2>2. /\ net' \in Nets /\ net'.flights = net.flights /\ net'.queue = q /\ net'.todo = net.todo
        /\ net'.over BY <1>1, <1>2, <1>6, <1>7, <2>1, Zenon
  <2> QED BY <1>2, <1>11, <2>1, <2>2
<1> QED BY <1>8, <1>9, <1>10, <1>11 DEF peer_sends

\* The peer sends.
LEMMA peer_sendsControl == Control /\ peer_sends => Control'
<1> SUFFICES ASSUME Control, peer_sends PROVE Control' OBVIOUS
<1>1. Types /\ Guards BY DEF Control
<1>2. Idle /\ net' \in Nets /\ UNCHANGED <<st, ssl, pair, stack, io, calls>> BY <1>1, PeerFields
<1>3. TypesBut' /\ Running /\ Shaped(st'["clr"].pend) BY <1>1, <1>2 DEF TypesBut, Types, Running, Guards
<1> QED BY <1>2, <1>3, CallControl

\* The socket has data.
LEMMA socket_dataControl == Control /\ socket_data => Control'
<1> SUFFICES ASSUME Control, socket_data PROVE Control' OBVIOUS
<1>1. Types /\ Guards BY DEF Control
<1>2. Idle /\ write("enc", net.queue) /\ net' = [net EXCEPT !.queue = <<>>] /\ UNCHANGED <<ssl, io, calls>>
  BY DEF socket_data
<1>3. "enc" \in Sides /\ net.queue \in Seq(Items) /\ Other("enc") = "clr" /\ TypesBut BY <1>1, TypeFacts
<1>4. /\ st' \in [Sides -> Streams] /\ st'["clr"] = st["clr"]
      /\ pair' \in Flags /\ pair'.secure = pair.secure /\ pair'.fault = pair.fault
      /\ Cycle(0) \in Frames /\ Cycle(0).f = "cycle" /\ ~Cycle(0).b /\ Cycle(0).pc = 0
      /\ Frame("write", "enc", 0) \in Frames /\ Frame("write", "enc", 0).f = "write" BY <1>1, <1>2, <1>3, WriteFields
<1>5. stack' = <<Cycle(0), Frame("write", "enc", 0)>> \o stack BY <1>2 DEF write
<1>6. net' \in Nets
  <2>1. <<>> \in Seq(Items) /\ net \in Nets BY <1>3 DEF TypesBut
  <2> HIDE DEF Items, Peers
  <2> QED BY <1>2, <2>1, Zenon DEF Nets
<1>7. TypesBut' /\ Running /\ Shaped(st'["clr"].pend)
  BY <1>1, <1>2, <1>3, <1>4, <1>6 DEF TypesBut, Running, Guards
<1> QED BY <1>2, <1>4, <1>5, <1>7, CallControl, Zenon

\* The socket ends.
LEMMA socket_endControl == Control /\ socket_end => Control'
<1> SUFFICES ASSUME Control, socket_end PROVE Control' OBVIOUS
<1>1. Types /\ Guards BY DEF Control
<1>2. /\ Idle /\ net' = Ended(net, TRUE, TRUE, ssl.server) /\ UNCHANGED calls
      /\ done("enc") \/ UNCHANGED <<st, ssl, pair, stack, io>> BY DEF socket_end, done_late, Ended
<1>3. "enc" \in Sides /\ Other("enc") = "clr" /\ TypesBut /\ ssl.server \in BOOLEAN
  BY <1>1, TypeFacts DEF TypesBut, Engines
<1>4. net' \in Nets BY <1>2, <1>3, NetEnded DEF TypesBut, SameQueue
<1>5. CASE done("enc")
  <2>1. /\ st' \in [Sides -> Streams] /\ st'["clr"] = st["clr"]
        /\ pair' \in Flags /\ pair'.secure = pair.secure /\ pair'.fault = pair.fault
        /\ stack' = <<Cycle(0)>> \o stack /\ ssl' = ssl /\ io' = io
        /\ Cycle(0) \in Frames /\ Cycle(0).f = "cycle" /\ ~Cycle(0).b /\ Cycle(0).pc = 0
    BY <1>1, <1>3, <1>5, DoneFields
  <2>2. TypesBut' /\ Running /\ Shaped(st'["clr"].pend)
    BY <1>1, <1>2, <1>3, <1>4, <2>1 DEF TypesBut, Running, Guards
  <2> QED BY <1>2, <2>1, <2>2, CallControl, Zenon
<1>6. CASE UNCHANGED <<st, ssl, pair, stack, io>>
  <2>1. TypesBut' /\ Running /\ Shaped(st'["clr"].pend)
    BY <1>1, <1>2, <1>3, <1>4, <1>6 DEF TypesBut, Running, Guards
  <2> QED BY <1>2, <1>6, <2>1, CallControl
<1> QED BY <1>2, <1>5, <1>6

\* The socket is destroyed and closes.
LEMMA socket_closeControl == Control /\ (socket_close \/ socket_destroyed) => Control'
<1> SUFFICES ASSUME Control, socket_close \/ socket_destroyed PROVE Control' OBVIOUS
<1>1. Types /\ Guards BY DEF Control
<1>3. TypesBut /\ "clr" \in Sides BY <1>1, TypeFacts
<1>2. /\ Idle /\ UNCHANGED <<stack, io, calls>> /\ net' \in Nets
      /\ destroy(st, "program", stack) \/ UNCHANGED <<st, ssl, pair>>
  <2>1. net' = Marked(net, TRUE) \/ net' = Shut(net, TRUE, TRUE) BY DEF socket_close, socket_destroyed, Marked, Shut
  <2>2. net' \in Nets BY <1>3, <2>1, NetMarked DEF TypesBut, SameQueue
  <2> QED BY <2>2 DEF socket_close, socket_destroyed
<1>4. /\ st' \in [Sides -> Streams] /\ ssl' \in Engines /\ pair' \in Flags
      /\ pair'.secure = pair.secure /\ pair'.fault = pair.fault /\ ssl'.flights = ssl.flights
      /\ (ssl'.up => ssl.up) /\ ssl'.error = ssl.error /\ st'["clr"].pend = st["clr"].pend
  <2>1. CASE destroy(st, "program", stack)
    BY <1>1, <1>2, <1>3, <2>1, DestroyFields DEF TypesBut, SameStream, SameEngine, SameFlags
  <2>2. CASE UNCHANGED <<st, ssl, pair>> BY <1>3, <2>2 DEF TypesBut
  <2> QED BY <1>2, <2>1, <2>2
<1>5. TypesBut' /\ Running /\ Shaped(st'["clr"].pend) BY <1>1, <1>2, <1>3, <1>4 DEF TypesBut, Running, Guards
<1> QED BY <1>2, <1>4, <1>5, CallControl

\* The socket is full, or drained.
LEMMA socket_pausesControl == Control /\ (socket_full \/ socket_drain) => Control'
<1> SUFFICES ASSUME Control, socket_full \/ socket_drain PROVE Control' OBVIOUS
<1>1. Types /\ Guards BY DEF Control
<1>2. TypesBut /\ "enc" \in Sides /\ Other("enc") = "clr" BY <1>1, TypeFacts
<1>3. CASE socket_full
  <2>1. Running /\ pause("enc") /\ UNCHANGED calls BY <1>3 DEF socket_full, Top, Running, Handlers
  <2>2. st' \in [Sides -> Streams] /\ st'["clr"] = st["clr"] /\ UNCHANGED <<ssl, pair, stack, net, io>>
    BY <1>1, <1>2, <2>1, PauseFields
  <2>3. TypesBut' /\ Shaped(st'["clr"].pend) BY <1>1, <1>2, <2>1, <2>2 DEF TypesBut, Guards
  <2> QED BY <2>1, <2>2, <2>3, CallControl
<1>4. CASE socket_drain
  <2>1. Running /\ resume("enc") /\ UNCHANGED calls BY <1>4 DEF socket_drain, Running
  <2>2. /\ st' \in [Sides -> Streams] /\ st'["clr"] = st["clr"] /\ UNCHANGED <<ssl, pair, net, io>>
        /\ stack' = <<Cycle(0)>> \o stack
        /\ Cycle(0) \in Frames /\ Cycle(0).f = "cycle" /\ ~Cycle(0).b /\ Cycle(0).pc = 0
    BY <1>1, <1>2, <2>1, PauseFields
  <2>3. TypesBut' /\ Shaped(st'["clr"].pend) BY <1>1, <1>2, <2>1, <2>2 DEF TypesBut, Guards
  <2> QED BY <2>1, <2>2, <2>3, CallControl, Zenon
<1> QED BY <1>3, <1>4

-----------------------------------------------------------------------------
\* What a call of the engine leaves alone.
SameButIn(e, g) ==
  /\ g \in Engines /\ g.up = e.up /\ g.server = e.server /\ g.shut = e.shut /\ g.begun = e.begun
  /\ g.flights = e.flights

\* tls_conn_enc_in and tls_conn_enc_out move bytes of the BIOs and nothing else.
LEMMA BioFields ==
  ASSUME NEW e \in Engines, NEW d \in Seq(Items)
  PROVE  /\ LET m == tls_conn_enc_in(e, d) IN
            /\ SameButIn(e, m.ssl) /\ m.ssl.error = e.error /\ m.ssl.out = e.out
            /\ m.ssl.in = e.in \o d /\ m.ok /\ m.ok \in BOOLEAN /\ m.data = <<>>
         /\ LET m == tls_conn_enc_out(e) IN
            /\ SameButIn(e, m.ssl) /\ m.ssl.error = e.error /\ m.ssl.in = e.in
            /\ m.ssl.out = <<>> /\ m.data = e.out /\ m.ok \in BOOLEAN
         /\ LET m == tls_conn_shutdown(e) IN
            /\ m \in Engines /\ m.up = e.up /\ m.flights = e.flights /\ m.error = e.error /\ m.in = e.in
            /\ m.out = e.out \/ m.out = Append(e.out, "fin")
<1> DEFINE D == Seq(Items)
<1>1. Engines = [up : BOOLEAN, server : BOOLEAN, in : D, out : D, begun : BOOLEAN,
                 flights : 0..Flights, error : BOOLEAN, shut : BOOLEAN] BY DEF Engines
<1>2. e.in \in D /\ e.out \in D BY <1>1
<1>3. e.in \o d \in D /\ <<>> \in D /\ Append(e.out, "fin") \in D BY <1>2, OwnItems
<1>4. PICK q \in D : q = e.in \o d BY <1>3, Zenon
<1>5. PICK z \in D : z = <<>> BY <1>3, Zenon
<1>6. PICK a \in D : a = Append(e.out, "fin") BY <1>3, Zenon
<1> HIDE DEF D
<1>7. PICK g : g = [e EXCEPT !.in = q] BY Zenon
<1>7a. SameButIn(e, g) /\ g.error = e.error /\ g.out = e.out /\ g.in = q BY <1>7, <1>1, <1>4, Zenon DEF SameButIn
<1>8. PICK f : f = [e EXCEPT !.out = z] BY Zenon
<1>8a. SameButIn(e, f) /\ f.error = e.error /\ f.in = e.in /\ f.out = z BY <1>8, <1>1, <1>5 DEF SameButIn
<1>9. PICK k : k = [e EXCEPT !.shut = TRUE, !.out = a] OBVIOUS
<1>9a. /\ k \in Engines /\ k.up = e.up /\ k.flights = e.flights /\ k.error = e.error /\ k.in = e.in /\ k.out = a
  BY <1>1, <1>6, <1>9, Zenon
<1>10. tls_conn_enc_in(e, d) = [ssl |-> g, data |-> <<>>, ok |-> TRUE] BY <1>4, <1>7 DEF tls_conn_enc_in, Moved
<1>11. tls_conn_enc_out(e) = [ssl |-> f, data |-> e.out, ok |-> (e.out # <<>>)]
  BY <1>5, <1>8 DEF tls_conn_enc_out, tls_handle_bio_error_x, Moved
<1>12. tls_conn_shutdown(e) = k \/ tls_conn_shutdown(e) = e BY <1>6, <1>9 DEF tls_conn_shutdown
<1>13. LET m == tls_conn_enc_in(e, d) IN
       /\ SameButIn(e, m.ssl) /\ m.ssl.error = e.error /\ m.ssl.out = e.out
       /\ m.ssl.in = e.in \o d /\ m.ok /\ m.ok \in BOOLEAN /\ m.data = <<>> BY <1>4, <1>7a, <1>10
<1>14. LET m == tls_conn_enc_out(e) IN
       /\ SameButIn(e, m.ssl) /\ m.ssl.error = e.error /\ m.ssl.in = e.in
       /\ m.ssl.out = <<>> /\ m.data = e.out /\ m.ok \in BOOLEAN BY <1>5, <1>8a, <1>11
<1>15. LET m == tls_conn_shutdown(e) IN
       /\ m \in Engines /\ m.up = e.up /\ m.flights = e.flights /\ m.error = e.error /\ m.in = e.in
       /\ m.out = e.out \/ m.out = Append(e.out, "fin") BY <1>6, <1>9a, <1>12
<1> QED BY <1>13, <1>14, <1>15

\* tls_conn_clear_in: the handshake goes on, and the bytes are taken when it is
\* over and the engine is not shut down.
LEMMA ClearInFields ==
  ASSUME NEW e \in Engines, NEW d \in Seq(Items)
  PROVE  LET h == tls_conn_start(e)
             m == tls_conn_clear_in(e, d) IN
         /\ h \in Engines /\ m.ok \in BOOLEAN
         /\ \/ h.flights # 2 /\ m.ssl = h /\ ~m.ok
            \/ /\ h.flights = 2 /\ h.shut /\ m.ssl.error /\ ~m.ok
               /\ SameButIn(h, m.ssl) /\ m.ssl.in = h.in /\ m.ssl.out = h.out
            \/ /\ h.flights = 2 /\ ~h.shut /\ m.ok /\ m.ssl.error = h.error
               /\ SameButIn(h, m.ssl) /\ m.ssl.in = h.in /\ m.ssl.out = h.out \o d
<1> DEFINE D == Seq(Items)
           h == tls_conn_start(e)
           m == tls_conn_clear_in(e, d)
<1>1. Engines = [up : BOOLEAN, server : BOOLEAN, in : D, out : D, begun : BOOLEAN,
                 flights : 0..Flights, error : BOOLEAN, shut : BOOLEAN] BY DEF Engines
<1>2. h \in Engines BY StartFields DEF Shakes
<1>3. m = IF h.flights = 2 THEN (IF h.shut THEN Moved([h EXCEPT !.error = TRUE], <<>>, FALSE)
                                 ELSE Moved([h EXCEPT !.out = @ \o d], <<>>, TRUE))
          ELSE Moved(h, <<>>, FALSE) BY DEF tls_conn_clear_in, SSL_write, tls_conn_is_init_finished, Flights
<1> HIDE DEF h, m
<1>4. h.out \in D BY <1>1, <1>2
<1>5. h.out \o d \in D BY <1>4
<1>6. PICK q \in D : q = h.out \o d BY <1>5, Zenon
<1> HIDE DEF D
<1>10. /\ h \in Engines /\ m.ok \in BOOLEAN
       /\ \/ h.flights # 2 /\ m.ssl = h /\ ~m.ok
          \/ /\ h.flights = 2 /\ h.shut /\ m.ssl.error /\ ~m.ok
             /\ SameButIn(h, m.ssl) /\ m.ssl.in = h.in /\ m.ssl.out = h.out
          \/ /\ h.flights = 2 /\ ~h.shut /\ m.ok /\ m.ssl.error = h.error
             /\ SameButIn(h, m.ssl) /\ m.ssl.in = h.in /\ m.ssl.out = h.out \o d
  <2>7. CASE h.flights # 2 BY <1>2, <1>3, <2>7 DEF Moved
  <2>8. CASE h.flights = 2 /\ h.shut
    <3>1. m = [ssl |-> [h EXCEPT !.error = TRUE], data |-> <<>>, ok |-> FALSE] BY <1>3, <2>8 DEF Moved
    <3>2. PICK g : g = [h EXCEPT !.error = TRUE] BY Zenon
    <3>2a. SameButIn(h, g) /\ g.error /\ g.in = h.in /\ g.out = h.out BY <3>2, <1>1, <1>2, Zenon DEF SameButIn
    <3> QED BY <1>2, <2>8, <3>1, <3>2, <3>2a, Zenon
  <2>9. CASE h.flights = 2 /\ ~h.shut
    <3>1. m = [ssl |-> [h EXCEPT !.out = q], data |-> <<>>, ok |-> TRUE] BY <1>3, <1>6, <2>9 DEF Moved
    <3>2. PICK g : g = [h EXCEPT !.out = q] BY Zenon
    <3>2a. SameButIn(h, g) /\ g.error = h.error /\ g.in = h.in /\ g.out = q
      BY <3>2, <1>1, <1>2, <1>6, Zenon DEF SameButIn
    <3> QED BY <1>2, <1>6, <2>9, <3>1, <3>2, <3>2a, Zenon
  <2> QED BY <2>7, <2>8, <2>9
<1> QED BY <1>10 DEF h, m

\* tls_conn_clear_out: the handshake goes on, and when it is over one item is
\* read: a chunk, a goodbye or what cannot be accepted.
LEMMA ClearOutFields ==
  ASSUME NEW e \in Engines
  PROVE  LET h == tls_conn_start(e)
             m == tls_conn_clear_out(e) IN
         /\ h \in Engines /\ m.ok \in BOOLEAN /\ m.data \in Seq(Items)
         /\ \/ (h.flights # 2 \/ h.in = <<>>) /\ m.ssl = h /\ ~m.ok /\ m.data = <<>>
            \/ /\ h.flights = 2 /\ h.in # <<>> /\ SameButIn(h, m.ssl) /\ m.ssl.in = Tail(h.in)
               /\ \/ /\ Head(h.in) = "fin" /\ ~m.ok /\ m.data = <<>>
                     /\ m.ssl.out = h.out /\ m.ssl.error = h.error
                  \/ /\ Head(h.in) = "bad" /\ ~m.ok /\ m.data = <<>>
                     /\ m.ssl.out = Append(h.out, "alert") /\ m.ssl.error
                  \/ /\ Head(h.in) \notin {"fin", "bad"} /\ m.ok /\ m.data = <<Head(h.in)>>
                     /\ m.ssl.out = h.out /\ m.ssl.error = h.error
<1> DEFINE D == Seq(Items)
           h == tls_conn_start(e)
           m == tls_conn_clear_out(e)
<1>1. Engines = [up : BOOLEAN, server : BOOLEAN, in : D, out : D, begun : BOOLEAN,
                 flights : 0..Flights, error : BOOLEAN, shut : BOOLEAN] BY DEF Engines
<1>2. h \in Engines BY StartFields DEF Shakes
<1>3. m = IF h.flights = 2 THEN SSL_read(h) ELSE Moved(h, <<>>, FALSE)
  BY DEF tls_conn_clear_out, tls_conn_is_init_finished, Flights
<1> HIDE DEF h, m
<1>4. h.out \in D /\ h.in \in D BY <1>1, <1>2
<1>5. <<>> \in D /\ Append(h.out, "alert") \in D BY <1>4, OwnItems
<1>6. h.in # <<>> => Tail(h.in) \in D /\ <<Head(h.in)>> \in D BY <1>4, ConsParts
<1>10. /\ h \in Engines /\ m.ok \in BOOLEAN /\ m.data \in D
       /\ \/ (h.flights # 2 \/ h.in = <<>>) /\ m.ssl = h /\ ~m.ok /\ m.data = <<>>
          \/ /\ h.flights = 2 /\ h.in # <<>> /\ SameButIn(h, m.ssl) /\ m.ssl.in = Tail(h.in)
             /\ \/ /\ Head(h.in) = "fin" /\ ~m.ok /\ m.data = <<>>
                   /\ m.ssl.out = h.out /\ m.ssl.error = h.error
                \/ /\ Head(h.in) = "bad" /\ ~m.ok /\ m.data = <<>>
                   /\ m.ssl.out = Append(h.out, "alert") /\ m.ssl.error
                \/ /\ Head(h.in) \notin {"fin", "bad"} /\ m.ok /\ m.data = <<Head(h.in)>>
                   /\ m.ssl.out = h.out /\ m.ssl.error = h.error
  <2>7. CASE h.flights # 2 \/ h.in = <<>> BY <1>2, <1>3, <1>5, <2>7, Zenon DEF Moved, SSL_read
  <2>8. CASE h.flights = 2 /\ h.in # <<>>
    <3>1. PICK t \in D : t = Tail(h.in) BY <1>6, <2>8, Zenon
    <3>2. PICK o \in D : o = Append(h.out, "alert") BY <1>5, Zenon
    <3>3. PICK d \in D : d = <<Head(h.in)>> BY <1>6, <2>8, Zenon
    <3>4. PICK z \in D : z = <<>> BY <1>5, Zenon
    <3> HIDE DEF D
    <3>5. PICK g : g = [h EXCEPT !.in = t] BY Zenon
    <3>5a. SameButIn(h, g) /\ g.error = h.error /\ g.out = h.out /\ g.in = t
      BY <3>5, <1>1, <1>2, <3>1, Zenon DEF SameButIn
    <3>6. PICK f : f = [h EXCEPT !.in = t, !.error = TRUE, !.out = o] OBVIOUS
    <3>6a. SameButIn(h, f) /\ f.error /\ f.out = o /\ f.in = t BY <3>6, <1>1, <1>2, <3>1, <3>2, Zenon DEF SameButIn
    <3>7. CASE Head(h.in) = "fin"
      <4>1. m = [ssl |-> [h EXCEPT !.in = t], data |-> z, ok |-> FALSE]
        BY <1>3, <2>8, <3>1, <3>4, <3>7 DEF Moved, SSL_read
      <4> QED BY <1>2, <2>8, <3>1, <3>4, <3>5, <3>5a, <3>7, <4>1, Zenon DEF D
    <3>8. CASE Head(h.in) = "bad"
      <4>1. m = [ssl |-> [h EXCEPT !.in = t, !.error = TRUE, !.out = o], data |-> z, ok |-> FALSE]
        BY <1>3, <2>8, <3>1, <3>2, <3>4, <3>8 DEF Moved, SSL_read
      <4> QED BY <1>2, <2>8, <3>1, <3>2, <3>4, <3>6, <3>6a, <3>8, <4>1, Zenon DEF D
    <3>9. CASE Head(h.in) \notin {"fin", "bad"}
      <4>1. m = [ssl |-> [h EXCEPT !.in = t], data |-> d, ok |-> TRUE]
        BY <1>3, <2>8, <3>1, <3>3, <3>9 DEF Moved, SSL_read
      <4> QED BY <1>2, <2>8, <3>1, <3>3, <3>5, <3>5a, <3>9, <4>1, Zenon DEF D
    <3> QED BY <3>7, <3>8, <3>9
  <2> QED BY <2>7, <2>8
<1> QED BY <1>10 DEF h, m

-----------------------------------------------------------------------------
\* What follows a call of the engine in _pull and _push: the error is reported,
\* or the method goes on with frame x, before or after the end of the handshake.
Went(x, r) ==
  IF ssl'.up /\ ssl'.error
  THEN pair' = [pair EXCEPT !.failed = TRUE] /\ stack' = <<Err>> \o r /\ UNCHANGED io
  ELSE maybeInitFinished(ssl', <<x>> \o r)

Fails(r) == ssl'.up /\ ssl'.error /\ pair'.failed /\ pair'.secure = pair.secure /\ io' = io /\ stack' = <<Err>> \o r

Quiet(x, r) ==
  /\ ~(ssl'.up /\ ssl'.error) /\ (~ssl'.up \/ pair.secure \/ ssl'.flights # 2)
  /\ pair' = pair /\ io' = io /\ stack' = <<x>> \o r

Ends(x, r) ==
  /\ ~ssl'.error /\ ssl'.up /\ ~pair.secure /\ ssl'.flights = 2
  /\ pair'.secure /\ pair'.failed = pair.failed /\ io'.secures = io.secures + 1
  /\ stack' = <<Frame("verify", "clr", 0)>> \o (<<x>> \o r)

\* What a call of the engine by _pull or _push does to the flags.
LEMMA WentFields ==
  ASSUME Types, NEW x \in Frames, NEW r \in Seq(Frames), Went(x, r)
  PROVE  /\ pair' \in Flags /\ io' \in Ios
         /\ pair'.fault = pair.fault /\ pair'.queued = pair.queued /\ pair'.done = pair.done
         /\ pair'.how = pair.how /\ pair'.started = pair.started /\ (pair.failed => pair'.failed)
         /\ pair'.writeCalled = pair.writeCalled
         /\ io'.written = io.written /\ io'.wire = io.wire /\ io'.got = io.got
         /\ Fails(r) \/ Quiet(x, r) \/ Ends(x, r)
<1>1. pair \in Flags /\ io \in Ios BY DEF Types
<1>2. CASE ssl'.up /\ ssl'.error
  <2>1. pair' = [pair EXCEPT !.failed = TRUE] /\ stack' = <<Err>> \o r /\ io' = io BY <1>2 DEF Went
  <2>2. /\ pair' \in Flags /\ pair'.failed /\ pair'.secure = pair.secure
        /\ pair'.fault = pair.fault /\ pair'.queued = pair.queued /\ pair'.done = pair.done
        /\ pair'.how = pair.how /\ pair'.started = pair.started /\ pair'.writeCalled = pair.writeCalled
    BY <1>1, <2>1, Zenon DEF Flags
  <2> QED BY <1>1, <1>2, <2>1, <2>2 DEF Fails
<1>3. CASE ~(ssl'.up /\ ssl'.error)
  <2>0. maybeInitFinished(ssl', <<x>> \o r) BY <1>3 DEF Went
  <2>1. CASE ~ssl'.up \/ pair.secure \/ ssl'.flights # 2
    <3>1. stack' = <<x>> \o r /\ pair' = pair /\ io' = io
      BY <2>0, <2>1 DEF maybeInitFinished, tls_conn_is_init_finished, Flights
    <3> QED BY <1>1, <1>3, <2>1, <3>1 DEF Quiet
  <2>2. CASE ~(~ssl'.up \/ pair.secure \/ ssl'.flights # 2)
    <3>1. /\ pair' = [pair EXCEPT !.secure = TRUE] /\ io' = [io EXCEPT !.secures = @ + 1]
          /\ stack' = <<Frame("verify", "clr", 0)>> \o (<<x>> \o r)
      BY <2>0, <2>2 DEF maybeInitFinished, tls_conn_is_init_finished, Flights
    <3>2. /\ pair' \in Flags /\ pair'.failed = pair.failed /\ pair'.secure
          /\ pair'.fault = pair.fault /\ pair'.queued = pair.queued /\ pair'.done = pair.done
          /\ pair'.how = pair.how /\ pair'.started = pair.started /\ pair'.writeCalled = pair.writeCalled
      BY <1>1, <3>1, Zenon DEF Flags
    <3>3. /\ io' \in Ios /\ io'.secures = io.secures + 1
          /\ io'.written = io.written /\ io'.wire = io.wire /\ io'.got = io.got
      <4> DEFINE D == Seq(Items)
                 C == Seq(Chunks)
      <4>1. Ios = [written : C, wire : D, got : D, secures : Nat] BY DEF Ios
      <4>2. io.secures \in Nat /\ io' = [io EXCEPT !.secures = io.secures + 1] BY <1>1, <3>1, <4>1
      <4>3. PICK n \in Nat : n = io.secures + 1 BY <4>2
      <4>4. io' = [io EXCEPT !.secures = n] BY <4>2, <4>3
      <4> HIDE DEF D, C
      <4> QED BY <1>1, <4>1, <4>3, <4>4
    <3> QED BY <1>3, <2>2, <3>1, <3>2, <3>3 DEF Ends
  <2> QED BY <2>1, <2>2
<1> QED BY <1>2, <1>3

\* Such a step keeps the first layer of the invariant.
LEMMA WentControl ==
  ASSUME Control, ~Idle, Moving(Head(stack)), ~AtErr, NEW x \in Frames, x.f = Head(stack).f, x.w = Head(stack).w,
         Went(x, Tail(stack)),
         ~(ssl'.up /\ ssl'.error) => FrameFits(x, pair'),
         st' \in [Sides -> Streams], Shaped(st'["clr"].pend),
         ssl' \in Engines, ssl.flights = 2 => ssl'.flights = 2, Refusing(x) => ssl'.flights # 2 \/ (ssl'.up /\ ssl'.error),
         UNCHANGED <<net, calls>>
  PROVE  Control'
<1> DEFINE r == Tail(stack)
           v == Frame("verify", "clr", 0)
<1>0. Types /\ Guards /\ StackFits(stack, pair) /\ stack # <<>> BY DEF Control, Idle
<1>1. /\ r \in Seq(Frames) /\ Head(stack) \in Frames /\ FrameFits(Head(stack), pair) /\ StackFits(r, pair)
      /\ r # <<>> /\ Head(r).f = "cycle" BY TopFits
<1>2. ~pair.fault BY <1>1 DEF FrameFits, Handlers, Moving
<1>3. /\ pair' \in Flags /\ io' \in Ios /\ pair'.fault = pair.fault /\ io'.got = io.got
      /\ Fails(r) \/ Quiet(x, r) \/ Ends(x, r) BY <1>0, <1>1, WentFields, Zenon
<1>4. FrameFits(Head(r), pair) /\ Head(r) \in Frames BY <1>1, FitsTail, Zenon
<1>5. CASE Fails(r)
  <2>1. pair'.secure = pair.secure /\ io' = io /\ stack' = <<Err>> \o r BY <1>5 DEF Fails
  <2>2. Err \in Frames /\ ~Moving(Err) /\ FrameFits(Err, pair) /\ Err.f = "err" /\ Err.pc = 0 BY <1>2, Made, PlainFits
  <2>3. StackFits(stack', pair) BY <1>0, <2>1, <2>2, FitsSwap
  <2>4. StackFits(stack', pair') BY <1>3, <2>1, <2>3, FitsLater
  <2>5. stack' \in Seq(Frames) /\ Head(stack') = Err /\ stack' # <<>> BY <1>1, <2>1, <2>2, OnTop
  <2>6. Types' BY <1>0, <1>3, <2>5 DEF Types
  <2>7. AtErr' /\ ~Refusing(Head(stack')) BY <2>2, <2>5 DEF AtErr, Refusing
  <2>8. Guards' BY <1>0, <2>1, <2>7 DEF Guards
  <2> QED BY <2>4, <2>6, <2>8 DEF Control
<1>6. CASE Quiet(x, r)
  <2>1. /\ pair' = pair /\ io' = io /\ stack' = <<x>> \o r /\ ~(ssl'.up /\ ssl'.error) BY <1>6 DEF Quiet
  <2>3. StackFits(stack', pair) BY <1>0, <2>1, FitsSwap
  <2>5. stack' \in Seq(Frames) /\ Head(stack') = x BY <1>1, <2>1, OnTop
  <2>6. Types' BY <1>0, <1>3, <2>1, <2>5 DEF Types
  <2>8. Guards' BY <1>0, <2>1, <2>5 DEF Guards
  <2> QED BY <2>1, <2>3, <2>6, <2>8 DEF Control
<1>7. CASE Ends(x, r)
  <2>1. /\ ~ssl'.error /\ ssl'.up /\ ~pair.secure /\ ssl'.flights = 2 /\ pair'.secure
        /\ io'.secures = io.secures + 1 /\ stack' = <<v>> \o (<<x>> \o r) BY <1>7 DEF Ends
  <2>2. /\ v \in Frames /\ v.f = "verify" /\ ~v.b /\ v.pc = 0 BY FrameMade DEF Methods, Sides
  <2> HIDE DEF v
  <2>3. ~Moving(v) /\ ~Refusing(v) /\ FrameFits(v, pair') BY <1>2, <1>3, <2>2, PlainFits DEF Moving, Refusing
  <2>4. FrameFits(x, pair') /\ ~Refusing(x) BY <2>1
  <2>5. ~Head(r).b BY <1>1, <1>4, <2>1 DEF FrameFits
  <2>6. StackFits(stack, pair') BY <1>0, <1>3, <2>1, FitsLater
  <2>7. StackFits(<<x>> \o r, pair') BY <1>0, <2>4, <2>6, FitsSwap
  <2>8. <<x>> \o r \in Seq(Frames) /\ Head(<<x>> \o r) = x /\ Tail(<<x>> \o r) = r BY <1>1, OnTop, Zenon
  <2> DEFINE u == <<x>> \o r
  <2> HIDE DEF u
  <2>9. u \in Seq(Frames) /\ Head(u) = x /\ Tail(u) = r /\ StackFits(u, pair') /\ stack' = <<v>> \o u
    BY <2>1, <2>7, <2>8, Zenon DEF u
  <2>10. StackFits(<<v>> \o u, pair')
    <3>1. Exclusive(v) => Moving(v) BY DEF Exclusive, Moving
    <3> QED BY <1>1, <2>1, <2>2, <2>3, <2>4, <2>5, <2>9, <3>1, FitsCons, Zenon
  <2>11. stack' \in Seq(Frames) /\ Head(stack') = v BY <2>2, <2>9, OnTop
  <2>12. Types' BY <1>0, <1>3, <2>11 DEF Types
  <2>13. Guards' BY <1>0, <1>3, <2>1, <2>3, <2>11 DEF Guards
  <2> QED BY <2>9, <2>10, <2>12, <2>13 DEF Control
<1> QED BY <1>3, <1>5, <1>6, <1>7

-----------------------------------------------------------------------------
\* tls_conn_clear_in takes the bytes d from engine e to engine g.
GoesIn(e, g, d, ok) ==
  LET h == tls_conn_start(e) IN
  \/ h.flights # 2 /\ g = h /\ ~ok
  \/ h.flights = 2 /\ g.error /\ ~ok /\ SameButIn(h, g) /\ g.in = h.in /\ g.out = h.out
  \/ h.flights = 2 /\ ok /\ g.error = h.error /\ SameButIn(h, g) /\ g.in = h.in /\ g.out = h.out \o d

\* tls_conn_clear_out reads d from engine e, which becomes g.
ReadsOut(e, g, d, ok) ==
  LET h == tls_conn_start(e) IN
  \/ (h.flights # 2 \/ h.in = <<>>) /\ g = h /\ ~ok /\ d = <<>>
  \/ /\ h.flights = 2 /\ h.in # <<>> /\ SameButIn(h, g) /\ g.in = Tail(h.in)
     /\ \/ Head(h.in) = "fin" /\ ~ok /\ d = <<>> /\ g.out = h.out /\ g.error = h.error
        \/ Head(h.in) = "bad" /\ ~ok /\ d = <<>> /\ g.out = Append(h.out, "alert") /\ g.error
        \/ /\ Head(h.in) \notin {"fin", "bad"} /\ ok /\ d = <<Head(h.in)>>
           /\ g.out = h.out /\ g.error = h.error

\* tls_conn_enc_in and tls_conn_enc_out.
GoesInBio(e, g, d) == SameButIn(e, g) /\ g.error = e.error /\ g.out = e.out /\ g.in = e.in \o d
ReadsBio(e, g, d) == SameButIn(e, g) /\ g.error = e.error /\ g.in = e.in /\ g.out = <<>> /\ d = e.out

SameRest(a, b) ==
  /\ a.bytes = b.bytes /\ a.paused = b.paused /\ a.needDrain = b.needDrain /\ a.due = b.due
  /\ a.writable = b.writable /\ a.done = b.done /\ a.destroyAfterPush = b.destroyAfterPush

\* The newest entry goes to the engine: x is the frame that goes on with it.
PullStep(w, x, q) ==
  /\ x.f = "pull" /\ x.w = w /\ x.pc = 2 /\ x.data # <<>> /\ ssl.up
  /\ st[w].pend = Grown(q, x.data) /\ st'[w].pend = q
  /\ st' \in [Sides -> Streams] /\ st'[Other(w)] = st[Other(w)] /\ SameRest(st[w], st'[w])
  /\ Went(x, Tail(stack)) /\ ssl' \in Engines /\ ssl'.up = ssl.up
  /\ (ssl.flights = 2 => ssl'.flights = 2)
  /\ \/ w = "enc" /\ x.b /\ GoesInBio(ssl, ssl', x.data)
     \/ w = "clr" /\ GoesIn(ssl, ssl', x.data, x.b)

Offers(w, b, d) == [Frame("pull", w, 2) EXCEPT !.b = b, !.data = d]

\* The frame of a _pull that has offered its entry to the engine.
LEMMA PullFrame ==
  ASSUME NEW w \in Sides, NEW b \in BOOLEAN, NEW d \in Seq(Items)
  PROVE  \E x \in Frames : /\ x = Offers(w, b, d)
                           /\ x.f = "pull" /\ x.w = w /\ x.pc = 2 /\ x.b = b /\ x.data = d /\ x.n = 0
<1>1. PICK y \in Frames : y = Frame("pull", w, 2) /\ y.f = "pull" /\ y.w = w /\ y.pc = 2 /\ y.n = 0
  BY FrameMade DEF Methods
<1>2. PICK x : x = [y EXCEPT !.b = b, !.data = d] OBVIOUS
<1>3. x \in Frames /\ x.f = y.f /\ x.w = y.w /\ x.pc = y.pc /\ x.b = b /\ x.data = d /\ x.n = y.n
  <2> DEFINE D == Seq(Items)
  <2>1. Frames = [f : Methods, w : Sides, pc : 0..5, n : Nat, b : BOOLEAN, data : D] /\ d \in D BY DEF Frames
  <2> HIDE DEF D
  <2> QED BY <1>2, <2>1, Zenon
<1>4. x = Offers(w, b, d) BY <1>1, <1>2 DEF Offers
<1> QED BY <1>1, <1>3, <1>4

\* _pull takes the first entry and offers it to the engine.
LEMMA PullDataCases ==
  ASSUME Control, NEW w, w = Head(stack).w, ~Idle, pull_data(w, Tail(stack))
  PROVE  w \in Sides /\ \E x \in Frames, q \in Seq(Seq(Items)) : PullStep(w, x, q)
<1> DEFINE tmp == Last(st[w].pend)
           q == Front(st[w].pend)
           m == _puller(w, ssl, tmp)
           r == Tail(stack)
<1>0. Types BY DEF Control
<1>1. w \in Sides /\ r \in Seq(Frames) BY TopFits DEF Frames
<1>2. /\ st[w].pend \in Seq(Seq(Items)) /\ st[w].pend # <<>> /\ ssl.up /\ tmp # <<>>
      /\ st' = [st EXCEPT ![w].pend = Front(@)] /\ st \in [Sides -> Streams] /\ ssl \in Engines
  BY <1>0, <1>1, TypeFacts, Zenon DEF pull_data, END_OF_FILE, TypesBut
<1>3. /\ ssl' = m.ssl
      /\ IF tls_conn_get_error(m.ssl)
         THEN pair' = [pair EXCEPT !.failed = TRUE] /\ stack' = <<Err>> \o r /\ UNCHANGED io
         ELSE maybeInitFinished(m.ssl, <<[Frame("pull", w, 2) EXCEPT !.b = m.ok, !.data = tmp]>> \o r)
  BY DEF pull_data
<1>4. q \in Seq(Seq(Items)) /\ tmp \in Seq(Items) /\ st[w].pend = Append(q, tmp) BY <1>2, FrontLast, Zenon
<1>5. st' = WithPend(st, w, q) BY <1>2 DEF WithPend
<1> HIDE DEF q, tmp
<1>6. st' \in [Sides -> Streams] /\ st'[Other(w)] = st[Other(w)] /\ st'[w].pend = q /\ SameRest(st[w], st'[w])
  <2>1. q \in Seq(Seq(Items)) /\ st \in [Sides -> Streams] BY <1>2, <1>4
  <2> QED BY <1>1, <1>5, <2>1, PutPend DEF SameRest
<1>7. /\ m.ok \in BOOLEAN /\ ssl' \in Engines /\ ssl'.up = ssl.up /\ (ssl.flights = 2 => ssl'.flights = 2)
      /\ \/ w = "enc" /\ m.ok /\ GoesInBio(ssl, ssl', tmp)
         \/ w = "clr" /\ GoesIn(ssl, ssl', tmp, m.ok)
  <2>1. CASE w = "enc"
    <3>1. m = tls_conn_enc_in(ssl, tmp) BY <2>1 DEF _puller
    <3>2. SameButIn(ssl, m.ssl) /\ m.ssl.error = ssl.error /\ m.ssl.out = ssl.out
          /\ m.ssl.in = ssl.in \o tmp /\ m.ok /\ m.ok \in BOOLEAN BY <1>2, <1>4, <3>1, BioFields
    <3> HIDE DEF m
    <3> QED BY <1>3, <2>1, <3>2, Zenon DEF GoesInBio, SameButIn
  <2>2. CASE w = "clr"
    <3>1. m = tls_conn_clear_in(ssl, tmp) BY <2>2 DEF _puller
    <3>2. PICK h : h = tls_conn_start(ssl) OBVIOUS
    <3>3. /\ m.ok \in BOOLEAN
          /\ \/ h.flights # 2 /\ m.ssl = h /\ ~m.ok
             \/ /\ h.flights = 2 /\ h.shut /\ m.ssl.error /\ ~m.ok
                /\ SameButIn(h, m.ssl) /\ m.ssl.in = h.in /\ m.ssl.out = h.out
             \/ /\ h.flights = 2 /\ ~h.shut /\ m.ok /\ m.ssl.error = h.error
                /\ SameButIn(h, m.ssl) /\ m.ssl.in = h.in /\ m.ssl.out = h.out \o tmp
      BY <1>2, <1>4, <3>1, <3>2, ClearInFields, Zenon
    <3>4. h \in Engines /\ h.up = ssl.up /\ (ssl.flights = 2 => h = ssl) BY <1>2, <3>2, StartFields, Zenon DEF Shakes
    <3> HIDE DEF m
    <3>6. ssl' \in Engines /\ ssl'.up = ssl.up /\ (ssl.flights = 2 => ssl'.flights = 2)
      BY <1>3, <3>3, <3>4 DEF SameButIn
    <3>7. GoesIn(ssl, ssl', tmp, m.ok) BY <1>3, <3>2, <3>3 DEF GoesIn
    <3> QED BY <2>2, <3>3, <3>6, <3>7
  <2> QED BY <1>1, <2>1, <2>2 DEF Sides
<1>8. PICK x \in Frames : /\ x = Offers(w, m.ok, tmp)
                          /\ x.f = "pull" /\ x.w = w /\ x.pc = 2 /\ x.b = m.ok /\ x.data = tmp
  BY <1>1, <1>4, <1>7, PullFrame
<1>9. Went(x, r) BY <1>2, <1>3, <1>7, <1>8, Zenon DEF Went, tls_conn_get_error, Offers
<1>10. PullStep(w, x, q) BY <1>2, <1>4, <1>6, <1>7, <1>8, <1>9 DEF PullStep, Grown
<1> QED BY <1>1, <1>4, <1>10

-----------------------------------------------------------------------------
\* What a step of _pull or _push that moves nothing leaves alone.
Moves0 ==
  /\ \A v \in Sides : st'[v].pend = st[v].pend /\ st'[v].bytes = st[v].bytes
  /\ SameEngine(ssl, ssl') /\ SameFlags(pair, pair') /\ io' = io /\ net' = net /\ calls' = calls

\* CryptoStream:_done
DoneStep(w, r) ==
  /\ st' \in [Sides -> Streams] /\ ssl' \in Engines /\ pair' \in Flags /\ Moves0
  /\ \A v \in Sides : /\ st'[v].paused = st[v].paused /\ st'[v].needDrain = st[v].needDrain
                      /\ st'[v].due = st[v].due /\ st'[v].destroyAfterPush = st[v].destroyAfterPush
                      /\ (st'[v].writable => st[v].writable)
  /\ st'[w].done /\ st'[Other(w)].done = st[Other(w)].done /\ (ssl'.up => ssl.up)
  /\ \/ /\ st[Other(w)].done /\ ~pair.done /\ pair.secure /\ pair'.done /\ pair'.how = "done"
        /\ ~ssl'.up /\ (\A v \in Sides : ~st'[v].writable) /\ stack' = r
     \/ /\ ssl' = ssl /\ pair' = pair /\ (\A v \in Sides : st'[v].writable = st[v].writable)
        /\ \/ stack' = <<Err>> \o r /\ ~pair.secure /\ st[Other(w)].done /\ ~pair.done
           \/ stack' = r /\ (~st[Other(w)].done \/ pair.done)

\* _done marks the stream, and destroys the pair if both are done.
LEMMA DoneCases ==
  ASSUME Types, NEW w \in Sides, NEW r, _done(w, r), UNCHANGED <<net, io, calls>>
  PROVE  DoneStep(w, r)
<1> DEFINE s == WithDone(st, w)
<1>0. st \in [Sides -> Streams] /\ Other(w) \in Sides /\ Other(w) # w /\ ssl \in Engines /\ pair \in Flags
  BY TypeFacts DEF Types
<1>1. /\ s \in [Sides -> Streams] /\ s[Other(w)] = st[Other(w)] /\ s[w].done
      /\ s[w].pend = st[w].pend /\ s[w].bytes = st[w].bytes /\ s[w].paused = st[w].paused
      /\ s[w].needDrain = st[w].needDrain /\ s[w].due = st[w].due /\ s[w].writable = st[w].writable
      /\ s[w].destroyAfterPush = st[w].destroyAfterPush BY <1>0, PutDone
<1>2. s = [st EXCEPT ![w].done = TRUE] BY DEF WithDone
<1>3. \A v \in Sides : v = w \/ v = Other(w) BY DEF Sides, Other
<1>4. (s["enc"].done /\ s["clr"].done) <=> st[Other(w)].done BY <1>1 DEF Sides, Other
<1> HIDE DEF s
<1>5. CASE st[Other(w)].done /\ ~pair.done /\ pair.secure
  <2>1. destroy(s, "done", r) /\ stack' = r BY <1>2, <1>4, <1>5 DEF _done
  <2>2. /\ st' \in [Sides -> Streams] /\ ssl' \in Engines /\ pair' \in Flags
        /\ \A v \in Sides : SameStream(s[v], st'[v]) /\ (st'[v].writable => s[v].writable)
        /\ SameEngine(ssl, ssl') /\ SameFlags(pair, pair')
        /\ ~ssl'.up /\ pair'.done /\ pair'.how = "done" /\ \A v \in Sides : ~st'[v].writable
    BY <1>1, <1>5, <2>1, DestroyFields
  <2>3. Moves0 BY <1>1, <1>3, <2>2 DEF Moves0, SameStream
  <2>4. \A v \in Sides : /\ st'[v].paused = st[v].paused /\ st'[v].needDrain = st[v].needDrain
                         /\ st'[v].due = st[v].due /\ st'[v].destroyAfterPush = st[v].destroyAfterPush
                         /\ ~st'[v].writable BY <1>1, <1>3, <2>2 DEF SameStream
  <2>5. st'[w].done /\ st'[Other(w)].done = st[Other(w)].done BY <1>0, <1>1, <2>2 DEF SameStream
  <2> QED BY <1>5, <2>1, <2>2, <2>3, <2>4, <2>5 DEF DoneStep
<1>6. CASE ~(st[Other(w)].done /\ ~pair.done /\ pair.secure)
  <2>1. /\ st' = s /\ ssl' = ssl /\ pair' = pair
        /\ stack' = IF st[Other(w)].done /\ ~pair.done THEN <<Err>> \o r ELSE r BY <1>2, <1>4, <1>6 DEF _done
  <2>2. Moves0 BY <1>1, <1>3, <2>1 DEF Moves0, SameEngine, SameFlags
  <2>3. \/ stack' = <<Err>> \o r /\ ~pair.secure /\ st[Other(w)].done /\ ~pair.done
        \/ stack' = r /\ (~st[Other(w)].done \/ pair.done) BY <1>6, <2>1
  <2> QED BY <1>0, <1>1, <1>3, <2>1, <2>2, <2>3 DEF DoneStep
<1> QED BY <1>5, <1>6

\* _pull with nothing pending, or with the engine gone.
RestStep(w, r) ==
  /\ st' \in [Sides -> Streams] /\ Moves0 /\ ssl' = ssl /\ pair' = pair /\ stack' = r
  /\ \A v \in Sides : /\ st'[v].paused = st[v].paused /\ st'[v].writable = st[v].writable
                      /\ st'[v].done = st[v].done /\ st'[v].destroyAfterPush = st[v].destroyAfterPush
                      /\ (v # w => st'[v].needDrain = st[v].needDrain)
  /\ \/ st[w].pend # <<>> /\ ~ssl.up /\ st'[w].needDrain = st[w].needDrain
     \/ st[w].pend = <<>> /\ (st'[w].needDrain <=> st[w].needDrain /\ st[Other(w)].paused)

\* _pull with nothing to offer.
LEMMA RestCases ==
  ASSUME Types, NEW w \in Sides, NEW r, pull_empty(w, r) \/ pull_closed(w, r), UNCHANGED <<net, calls>>
  PROVE  RestStep(w, r)
<1>0. st \in [Sides -> Streams] /\ Other(w) \in Sides /\ Other(w) # w /\ st[w].due \in Nat
      /\ st[w].needDrain \in BOOLEAN /\ \A v \in Sides : v = w \/ v = Other(w)
  BY TypeFacts, Zenon DEF Types, Sides, Other
<1>1. stack' = r /\ UNCHANGED <<ssl, pair, io>> BY DEF pull_empty, pull_closed
<1>2. CASE pull_closed(w, r)
  <2>1. st' = st /\ st[w].pend # <<>> /\ ~ssl.up BY <1>2 DEF pull_closed
  <2> QED BY <1>0, <1>1, <2>1 DEF RestStep, Moves0, SameEngine, SameFlags
<1>3. CASE pull_empty(w, r) /\ st[w].needDrain /\ ~st[Other(w)].paused
  <2>1. st' = WithDue(st, w, st[w].due + 1) /\ st[w].pend = <<>> BY <1>3 DEF pull_empty, WithDue
  <2>2. PICK d \in Nat : d = st[w].due + 1 BY <1>0
  <2>3. st' = WithDue(st, w, d) BY <2>1, <2>2
  <2>4. /\ st' \in [Sides -> Streams] /\ st'[Other(w)] = st[Other(w)]
        /\ ~st'[w].needDrain
        /\ st'[w].pend = st[w].pend /\ st'[w].bytes = st[w].bytes /\ st'[w].paused = st[w].paused
        /\ st'[w].writable = st[w].writable
        /\ st'[w].done = st[w].done /\ st'[w].destroyAfterPush = st[w].destroyAfterPush BY <1>0, <2>3, PutDue
  <2>5. \A v \in Sides : /\ st'[v].paused = st[v].paused /\ st'[v].writable = st[v].writable
                      /\ st'[v].done = st[v].done /\ st'[v].destroyAfterPush = st[v].destroyAfterPush
                      /\ (v # w => st'[v].needDrain = st[v].needDrain) BY <1>0, <2>4
  <2>6. \A v \in Sides : st'[v].pend = st[v].pend /\ st'[v].bytes = st[v].bytes BY <1>0, <2>4
  <2> QED BY <1>1, <1>3, <2>1, <2>4, <2>5, <2>6 DEF RestStep, Moves0, SameEngine, SameFlags
<1>4. CASE pull_empty(w, r) /\ ~(st[w].needDrain /\ ~st[Other(w)].paused)
  <2>1. st' = st /\ st[w].pend = <<>> BY <1>4 DEF pull_empty
  <2> QED BY <1>0, <1>1, <1>4, <2>1 DEF RestStep, Moves0, SameEngine, SameFlags
<1> QED BY <1>2, <1>3, <1>4

\* The end of the stream.
EofStep(w, q, r) ==
  /\ st' \in [Sides -> Streams] /\ ssl' \in Engines /\ pair' = pair /\ io' = io /\ net' = net /\ calls' = calls
  /\ ssl.up /\ st[w].pend = Grown(q, <<>>) /\ st'[w].pend = q /\ SameRest(st[w], st'[w])
  /\ st'[Other(w)].destroyAfterPush /\ st'[Other(w)].pend = st[Other(w)].pend
  /\ st'[Other(w)].bytes = st[Other(w)].bytes /\ st'[Other(w)].paused = st[Other(w)].paused
  /\ st'[Other(w)].needDrain = st[Other(w)].needDrain /\ st'[Other(w)].writable = st[Other(w)].writable
  /\ st'[Other(w)].done = st[Other(w)].done
  /\ ssl'.up = ssl.up /\ ssl'.flights = ssl.flights /\ ssl'.error = ssl.error /\ ssl'.in = ssl.in
  /\ ssl'.out = ssl.out \/ (w = "clr" /\ ssl'.out = Append(ssl.out, "fin"))
  /\ stack' = <<Cycle(0), Frame("pull", w, 1)>> \o r

\* _pull takes the end.
LEMMA EofCases ==
  ASSUME Types, NEW w \in Sides, NEW r, pull_eof(w, r), UNCHANGED <<net, calls>>
  PROVE  \E q \in Seq(Seq(Items)) : EofStep(w, q, r)
<1> DEFINE q == Front(st[w].pend)
           s == WithPend(st, w, q)
<1>0. st \in [Sides -> Streams] /\ Other(w) \in Sides /\ Other(w) # w /\ ssl \in Engines
      /\ st[w].pend \in Seq(Seq(Items)) /\ Other(Other(w)) = w BY TypeFacts DEF Types
<1>1. /\ st[w].pend # <<>> /\ ssl.up /\ Last(st[w].pend) = <<>>
      /\ st' = [st EXCEPT ![w].pend = Front(@), ![Other(w)].destroyAfterPush = TRUE]
      /\ ssl' = (IF w = "clr" THEN tls_conn_shutdown(ssl) ELSE ssl)
      /\ stack' = <<Cycle(0), Frame("pull", w, 1)>> \o r
      /\ UNCHANGED <<pair, io>> BY DEF pull_eof, END_OF_FILE
<1>2. q \in Seq(Seq(Items)) /\ st[w].pend = Append(q, <<>>) BY <1>0, <1>1, FrontLast, Zenon
<1>3. st' = WithLast(s, Other(w)) BY <1>1 DEF WithLast, WithPend
<1>4. q \in Seq(Seq(Items)) /\ st[w].pend = Grown(q, <<>>) BY <1>2 DEF Grown
<1> HIDE DEF q
<1>10. PICK z : z = s OBVIOUS
<1>11. z = WithPend(st, w, q) BY <1>10
<1> HIDE DEF s
<1>5. /\ s \in [Sides -> Streams] /\ s[Other(w)] = st[Other(w)] /\ s[w].pend = q /\ SameRest(st[w], s[w])
  BY <1>0, <1>4, <1>10, <1>11, PutPend DEF SameRest
<1>6. /\ st' \in [Sides -> Streams] /\ st'[w] = s[w]
      /\ st'[Other(w)].destroyAfterPush
      /\ st'[Other(w)].pend = s[Other(w)].pend /\ st'[Other(w)].bytes = s[Other(w)].bytes
      /\ st'[Other(w)].paused = s[Other(w)].paused /\ st'[Other(w)].needDrain = s[Other(w)].needDrain
      /\ st'[Other(w)].writable = s[Other(w)].writable /\ st'[Other(w)].done = s[Other(w)].done
  BY <1>0, <1>3, <1>5, PutLast
<1>7. /\ ssl' \in Engines /\ ssl'.up = ssl.up /\ ssl'.flights = ssl.flights /\ ssl'.error = ssl.error
      /\ ssl'.in = ssl.in
      /\ ssl'.out = ssl.out \/ (w = "clr" /\ ssl'.out = Append(ssl.out, "fin"))
  <2>1. /\ tls_conn_shutdown(ssl) \in Engines /\ tls_conn_shutdown(ssl).up = ssl.up
        /\ tls_conn_shutdown(ssl).flights = ssl.flights /\ tls_conn_shutdown(ssl).error = ssl.error
        /\ tls_conn_shutdown(ssl).in = ssl.in
        /\ tls_conn_shutdown(ssl).out = ssl.out \/ tls_conn_shutdown(ssl).out = Append(ssl.out, "fin")
    <3>1. <<>> \in Seq(Items) OBVIOUS
    <3> QED BY <1>0, <3>1, BioFields
  <2> QED BY <1>0, <1>1, <2>1, Zenon
<1>8. EofStep(w, q, r) BY <1>1, <1>4, <1>5, <1>6, <1>7, Zenon DEF EofStep
<1> QED BY <1>4, <1>8

\* An entry the engine did not take.
RefusedStep(w, d, r) ==
  /\ st' \in [Sides -> Streams] /\ st'[Other(w)] = st[Other(w)] /\ SameRest(st[w], st'[w])
  /\ st'[w].pend = <<d>> \o st[w].pend /\ stack' = r /\ UNCHANGED <<ssl, pair, io, net, calls>>

\* An entry it took: cb is the callback, if there is one.
TakenStep(w, r) ==
  /\ st' \in [Sides -> Streams] /\ st'[Other(w)] = st[Other(w)] /\ st'[w].bytes = st[w].bytes - 1
  /\ st'[w].pend = st[w].pend /\ st'[w].paused = st[w].paused /\ st'[w].needDrain = st[w].needDrain
  /\ st'[w].due = st[w].due
  /\ st'[w].writable = st[w].writable /\ st'[w].done = st[w].done
  /\ st'[w].destroyAfterPush = st[w].destroyAfterPush
  /\ \/ stack' = <<Frame("pull", w, 0)>> \o r
     \/ w = "clr" /\ stack' = <<User("callback"), Frame("pull", w, 0)>> \o r
  /\ UNCHANGED <<ssl, pair, io, net, calls>>

\* _pull hears what the engine made of its entry.
LEMMA AnswerCases ==
  ASSUME Types, NEW x \in Frames, NEW r \in Seq(Frames), UNCHANGED <<net, calls>>
  PROVE  /\ pull_refused(x, r) => ~x.b /\ RefusedStep(x.w, x.data, r)
         /\ pull_taken(x, r) => x.b /\ TakenStep(x.w, r)
<1> DEFINE w == x.w
<1>0. st \in [Sides -> Streams] /\ w \in Sides /\ x.data \in Seq(Items) BY DEF Types, Frames
<1>1. st[w].pend \in Seq(Seq(Items)) /\ st[w].bytes \in Int BY <1>0, TypeFacts
<1>2. ASSUME pull_refused(x, r) PROVE ~x.b /\ RefusedStep(w, x.data, r)
  <2>1. <<x.data>> \o st[w].pend \in Seq(Seq(Items)) BY <1>0, <1>1, ConsPlaces
  <2>2. PICK q \in Seq(Seq(Items)) : q = <<x.data>> \o st[w].pend BY <2>1, Zenon
  <2>3. ~x.b /\ st' = WithPend(st, w, q) /\ stack' = r /\ UNCHANGED <<ssl, pair, io>>
    BY <1>2, <2>2 DEF pull_refused, WithPend
  <2>4. /\ st' \in [Sides -> Streams] /\ st'[Other(w)] = st[Other(w)] /\ SameRest(st[w], st'[w]) /\ st'[w].pend = q
    <3> HIDE DEF w
    <3> QED BY <1>0, <2>3, PutPend DEF SameRest
  <2> QED BY <2>2, <2>3, <2>4, Zenon DEF RefusedStep
<1>3. ASSUME pull_taken(x, r) PROVE x.b /\ TakenStep(w, r)
  <2>1. PICK n \in Int : n = st[w].bytes - 1 BY <1>1
  <2>2. x.b /\ st' = WithBytes(st, w, n) /\ UNCHANGED <<ssl, pair, io>> BY <1>3, <2>1 DEF pull_taken, WithBytes
  <2>3. /\ st' \in [Sides -> Streams] /\ st'[Other(w)] = st[Other(w)] /\ st'[w].bytes = n
        /\ st'[w].pend = st[w].pend /\ st'[w].paused = st[w].paused /\ st'[w].needDrain = st[w].needDrain
        /\ st'[w].due = st[w].due
        /\ st'[w].writable = st[w].writable /\ st'[w].done = st[w].done
        /\ st'[w].destroyAfterPush = st[w].destroyAfterPush
    <3> HIDE DEF w
    <3> QED BY <1>0, <2>2, PutBytes
  <2>4. PICK cb \in (IF w = "clr" THEN {<<>>, <<User("callback")>>} ELSE {<<>>}) :
          stack' = cb \o <<Frame("pull", w, 0)>> \o r BY <1>3, Zenon DEF pull_taken
  <2>5. Frame("pull", w, 0) \in Frames /\ User("callback") \in Frames BY <1>0, Made, FrameMade DEF Methods, Handlers
  <2>6. \/ stack' = <<Frame("pull", w, 0)>> \o r
        \/ w = "clr" /\ stack' = <<User("callback"), Frame("pull", w, 0)>> \o r
    <3>1. PICK y, z : y = Frame("pull", w, 0) /\ z = User("callback") OBVIOUS
    <3>2. PICK F : F = Frames OBVIOUS
    <3>3. y \in F /\ z \in F /\ r \in Seq(F) BY <1>0, <2>5, <3>1, <3>2
    <3>4. <<>> \o <<y>> \o r = <<y>> \o r /\ <<z>> \o <<y>> \o r = <<z, y>> \o r
      <4>1. <<>> \o <<y>> = <<y>> /\ <<y>> \in Seq(F) /\ <<z>> \in Seq(F) BY <3>3
      <4>2. <<z, y>> \o r = <<z>> \o (<<y>> \o r) BY <3>3, ConsTwo
      <4>3. (<<z>> \o <<y>>) \o r = <<z>> \o (<<y>> \o r)
        <5>1. PICK a \in Seq(F), b \in Seq(F) : a = <<z>> /\ b = <<y>> BY <4>1
        <5>2. (a \o b) \o r = a \o (b \o r) BY <3>3, CatAssoc
        <5> QED BY <5>1, <5>2, Zenon
      <4> QED BY <4>1, <4>2, <4>3, Zenon
    <3> QED BY <2>4, <3>1, <3>4, Zenon
  <2> QED BY <2>1, <2>2, <2>3, <2>6, Zenon DEF TakenStep
<1> QED BY <1>2, <1>3

\* CryptoStream:_pull
LEMMA PullCases ==
  ASSUME Control, _pull
  PROVE  LET h == Head(stack)
             w == Head(stack).w
             r == Tail(stack) IN
         /\ ~Idle /\ h.f = "pull" /\ w \in Sides /\ h \in Frames /\ r \in Seq(Frames)
         /\ \/ h.pc = 0 /\ RestStep(w, r)
            \/ h.pc = 0 /\ \E q \in Seq(Seq(Items)) : EofStep(w, q, r)
            \/ h.pc = 0 /\ UNCHANGED <<net, calls>> /\ \E x \in Frames, q \in Seq(Seq(Items)) : PullStep(w, x, q)
            \/ h.pc = 1 /\ DoneStep(w, r)
            \/ h.pc = 2 /\ ~h.b /\ RefusedStep(w, h.data, r)
            \/ h.pc = 2 /\ h.b /\ TakenStep(w, r)
<1> DEFINE h == Head(stack)
           w == h.w
           r == Tail(stack)
<1>0. Types /\ UNCHANGED <<net, calls>> BY DEF Control, _pull
<1>1. ~Idle /\ h.f = "pull" /\ h.pc \in {0, 1, 2} BY DEF _pull, Top
<1>2. h \in Frames /\ r \in Seq(Frames) /\ w \in Sides BY <1>1, TopFits DEF Frames
<1>3. \/ h.pc = 0 /\ (pull_empty(w, r) \/ pull_closed(w, r) \/ pull_eof(w, r) \/ pull_data(w, r))
      \/ h.pc = 1 /\ _done(w, r) /\ UNCHANGED io
      \/ h.pc = 2 /\ (pull_refused(h, r) \/ pull_taken(h, r)) BY DEF _pull, Top
<1> HIDE DEF h, r, w
<1>4. pull_empty(w, r) \/ pull_closed(w, r) => RestStep(w, r) BY <1>0, <1>2, RestCases
<1>5. pull_eof(w, r) => \E q \in Seq(Seq(Items)) : EofStep(w, q, r) BY <1>0, <1>2, EofCases
<1>6. pull_data(w, r) => \E x \in Frames, q \in Seq(Seq(Items)) : PullStep(w, x, q) BY <1>1, PullDataCases DEF w, h, r
<1>7. _done(w, r) /\ UNCHANGED io => DoneStep(w, r) BY <1>0, <1>2, DoneCases
<1>8. pull_refused(h, r) => ~h.b /\ RefusedStep(w, h.data, r) BY <1>0, <1>2, AnswerCases DEF w
<1>9. pull_taken(h, r) => h.b /\ TakenStep(w, r) BY <1>0, <1>2, AnswerCases DEF w
<1>10. /\ ~Idle /\ h.f = "pull" /\ w \in Sides /\ h \in Frames /\ r \in Seq(Frames)
       /\ \/ h.pc = 0 /\ RestStep(w, r)
          \/ h.pc = 0 /\ \E q \in Seq(Seq(Items)) : EofStep(w, q, r)
          \/ h.pc = 0 /\ UNCHANGED <<net, calls>> /\ \E x \in Frames, q \in Seq(Seq(Items)) : PullStep(w, x, q)
          \/ h.pc = 1 /\ DoneStep(w, r)
          \/ h.pc = 2 /\ ~h.b /\ RefusedStep(w, h.data, r)
          \/ h.pc = 2 /\ h.b /\ TakenStep(w, r) BY <1>0, <1>1, <1>2, <1>3, <1>4, <1>5, <1>6, <1>7, <1>8, <1>9
<1> QED BY <1>10 DEF w, h, r

\* A method returns and nothing has moved.
LEMMA ReturnControl ==
  ASSUME Control, ~Idle, ~AtErr, st' \in [Sides -> Streams], ssl' \in Engines, pair' \in Flags,
         io' = io, net' = net, calls' = calls,
         st'["clr"].pend = st["clr"].pend, SameEngine(ssl, ssl'), SameFlags(pair, pair'), ssl'.up => ssl.up,
         stack' = Tail(stack)
  PROVE  Control'
<1>0. Types /\ Guards BY DEF Control
<1>1. /\ stack' \in Seq(Frames) /\ StackFits(stack', pair) /\ (stack' # <<>> => ~Refusing(Head(stack'))) BY TopFits
<1>2. StackFits(stack', pair') BY <1>1, FitsLater DEF SameFlags
<1>3. Types' BY <1>0, <1>1 DEF Types
<1>4. Guards' BY <1>0, <1>1, GuardsAfter DEF Guards, SameEngine, SameFlags
<1> QED BY <1>2, <1>3, <1>4 DEF Control

\* _done may report instead that the handshake was cut short.
LEMMA DoneControl ==
  ASSUME Control, ~Idle, Moving(Head(stack)), ~AtErr, NEW w \in Sides, DoneStep(w, Tail(stack))
  PROVE  Control'
<1>1. /\ st' \in [Sides -> Streams] /\ ssl' \in Engines /\ pair' \in Flags
      /\ io' = io /\ net' = net /\ calls' = calls /\ st'["clr"].pend = st["clr"].pend
      /\ SameEngine(ssl, ssl') /\ SameFlags(pair, pair') /\ (ssl'.up => ssl.up) BY DEF DoneStep, Moves0, Sides
<1>2. CASE stack' = Tail(stack) BY <1>1, <1>2, ReturnControl
<1>3. CASE stack' # Tail(stack)
  <2>0. Types /\ Guards /\ StackFits(stack, pair) /\ stack # <<>> BY DEF Control, Idle
  <2>1. stack' = <<Err>> \o Tail(stack) /\ pair' = pair /\ ssl' = ssl BY <1>3 DEF DoneStep
  <2>2. Head(stack) \in Frames /\ FrameFits(Head(stack), pair) /\ Tail(stack) \in Seq(Frames) BY TopFits
  <2>3. ~pair.fault BY <2>2 DEF FrameFits, Handlers, Moving
  <2>4. Err \in Frames /\ ~Moving(Err) /\ FrameFits(Err, pair) /\ Err.f = "err" /\ Err.pc = 0 BY <2>3, Made, PlainFits
  <2>5. StackFits(stack', pair) BY <2>0, <2>1, <2>4, FitsSwap
  <2>6. stack' \in Seq(Frames) /\ Head(stack') = Err /\ stack' # <<>> BY <2>1, <2>2, <2>4, OnTop
  <2>7. Types' BY <1>1, <2>0, <2>6 DEF Types
  <2>8. AtErr' /\ ~Refusing(Head(stack')) BY <2>4, <2>6 DEF AtErr, Refusing
  <2>9. Guards' BY <1>1, <2>0, <2>1, <2>8 DEF Guards
  <2> QED BY <2>1, <2>5, <2>7, <2>9 DEF Control
<1> QED BY <1>2, <1>3

\* A prefix, and an entry put back, keep the shape of the buffer.
LEMMA ShapedParts ==
  ASSUME NEW q \in Seq(Seq(Items)), NEW e \in Seq(Items)
  PROVE  Shaped(Grown(q, e)) => Shaped(q) /\ (e = <<>> \/ Chunked(e))
<1>1. PICK V : V = Seq(Items) OBVIOUS
<1>2. q \in Seq(V) /\ e \in V BY <1>1
<1>3. PICK g : g = Append(q, e) BY Zenon
<1>4. Len(q) \in Nat /\ Len(g) = Len(q) + 1 /\ DOMAIN g = 1..Len(g) /\ DOMAIN q = 1..Len(q)
      /\ g[Len(q) + 1] = e /\ \A i \in 1..Len(q) : g[i] = q[i] BY <1>2, <1>3
<1>5. Shaped(g) => Shaped(q) /\ (e = <<>> \/ Chunked(e))
  <2> SUFFICES ASSUME Shaped(g) PROVE Shaped(q) /\ (e = <<>> \/ Chunked(e)) OBVIOUS
  <2>1. \A i \in DOMAIN q : i \in DOMAIN g /\ g[i] = q[i] BY <1>4
  <2>2. Len(q) + 1 \in DOMAIN g BY <1>4
  <2>3. Shaped(q) BY <2>1 DEF Shaped
  <2>4. e = <<>> \/ Chunked(e) BY <1>4, <2>2 DEF Shaped
  <2> QED BY <2>3, <2>4
<1> QED BY <1>3, <1>5 DEF Grown

\* An entry that was refused goes back to the front.
LEMMA ShapedBack ==
  ASSUME NEW q \in Seq(Seq(Items)), NEW e \in Seq(Items), Shaped(q), Chunked(e)
  PROVE  Shaped(<<e>> \o q)
<1>1. PICK V : V = Seq(Items) OBVIOUS
<1>2. q \in Seq(V) /\ e \in V BY <1>1
<1>4. Len(q) \in Nat /\ DOMAIN q = 1..Len(q) BY <1>2
<1>6. PICK u : u = <<e>> \o q BY Zenon
<1>7. DOMAIN u = 1..(Len(q) + 1) /\ u[1] = e /\ \A i \in 1..Len(q) : u[i + 1] = q[i] BY <1>2, <1>6, ConsPlaces
<1>8. Shaped(u)
  <2> SUFFICES ASSUME NEW i \in DOMAIN u
               PROVE  u[i] = <<>> \/ Chunked(u[i]) BY DEF Shaped
  <2>1. i # 1 => i - 1 \in DOMAIN q /\ u[(i - 1) + 1] = q[i - 1] /\ (i - 1) + 1 = i BY <1>4, <1>7
  <2>2. CASE i = 1 BY <1>7, <2>2
  <2>3. CASE i # 1 BY <2>1, <2>3 DEF Shaped
  <2> QED BY <2>2, <2>3
<1> QED BY <1>6, <1>8

\* A step of CryptoStream:_pull.
LEMMA _pullControl == Control /\ _pull => Control'
<1> SUFFICES ASSUME Control, _pull PROVE Control' OBVIOUS
<1> DEFINE h == Head(stack)
           w == h.w
           r == Tail(stack)
<1>0. Types /\ Guards /\ StackFits(stack, pair) /\ st["clr"].pend \in Seq(Seq(Items)) /\ "clr" \in Sides
  BY TypeFacts DEF Control
<1>1. /\ ~Idle /\ h.f = "pull" /\ w \in Sides /\ h \in Frames /\ r \in Seq(Frames)
      /\ \/ h.pc = 0 /\ RestStep(w, r)
         \/ h.pc = 0 /\ \E q \in Seq(Seq(Items)) : EofStep(w, q, r)
         \/ h.pc = 0 /\ UNCHANGED <<net, calls>> /\ \E x \in Frames, q \in Seq(Seq(Items)) : PullStep(w, x, q)
         \/ h.pc = 1 /\ DoneStep(w, r)
         \/ h.pc = 2 /\ ~h.b /\ RefusedStep(w, h.data, r)
         \/ h.pc = 2 /\ h.b /\ TakenStep(w, r) BY PullCases
<1>2. ~AtErr /\ Moving(h) /\ stack # <<>> BY <1>1 DEF AtErr, Moving, Idle
<1>3. /\ FrameFits(h, pair) /\ (r # <<>> => ~Refusing(Head(r))) BY <1>1, TopFits
<1>4. ~pair.fault BY <1>1, <1>3 DEF FrameFits, Handlers
<1>5. Other(w) = "clr" \/ w = "clr" BY <1>1 DEF Sides, Other
<1>6. ASSUME RestStep(w, r) PROVE Control'
  <2>1. st' \in [Sides -> Streams] /\ Moves0 /\ ssl' = ssl /\ pair' = pair /\ stack' = r BY <1>6 DEF RestStep
  <2> QED BY <1>0, <1>1, <1>2, <2>1, ReturnControl DEF Moves0, Types
<1>7. ASSUME h.pc = 0, NEW q \in Seq(Seq(Items)), EofStep(w, q, r) PROVE Control'
  <2>1. /\ st' \in [Sides -> Streams] /\ ssl' \in Engines /\ pair' = pair /\ io' = io /\ net' = net /\ calls' = calls
        /\ st[w].pend = Grown(q, <<>>) /\ st'[w].pend = q /\ st'[Other(w)].pend = st[Other(w)].pend
        /\ ssl'.up = ssl.up /\ ssl'.flights = ssl.flights /\ ssl'.error = ssl.error
        /\ stack' = <<Cycle(0), Frame("pull", w, 1)>> \o r BY <1>7 DEF EofStep
  <2>2. PICK y \in Frames : y = Frame("pull", w, 1) /\ y.f = "pull" /\ y.w = w /\ y.pc = 1
    BY <1>1, FrameMade DEF Methods
  <2>3. PICK c \in Frames : c = Cycle(0) /\ c.f = "cycle" /\ ~c.b /\ c.pc = 0 BY FirstCycle
  <2>4. stack' = <<c, y>> \o r BY <2>1, <2>2, <2>3
  <2>5. ~Moving(c) /\ ~Refusing(c) /\ FrameFits(c, pair) BY <1>4, <2>3, PlainFits DEF Moving, Refusing
  <2>6. FrameFits(y, pair) /\ ~Refusing(y) /\ ~EmptyPush(y) /\ y.f = h.f /\ y.w = h.w
    BY <1>1, <1>4, <2>2 DEF FrameFits, Refusing, EmptyPush
  <2>7. StackFits(stack', pair) /\ stack' = <<c>> \o (<<y>> \o r) BY <1>0, <1>2, <2>4, <2>5, <2>6, FitsSwapTwo, Zenon
  <2>8. <<y>> \o r \in Seq(Frames) BY <1>1, OnTop
  <2>9. stack' \in Seq(Frames) /\ Head(stack') = c BY <2>7, <2>8, OnTop
  <2>10. Shaped(st'["clr"].pend)
    <3>1. CASE w = "clr"
      <4>1. <<>> \in Seq(Items) OBVIOUS
      <4> QED BY <1>0, <2>1, <3>1, <4>1, ShapedParts, Zenon DEF Guards
    <3>2. CASE w # "clr" BY <1>0, <1>5, <2>1, <3>2 DEF Guards
    <3> QED BY <3>1, <3>2
  <2>11. Types' BY <1>0, <2>1, <2>9 DEF Types
  <2>12. Guards' BY <1>0, <1>2, <2>1, <2>5, <2>9, <2>10, GuardsAfter
  <2> QED BY <2>1, <2>7, <2>11, <2>12 DEF Control
<1>8. ASSUME h.pc = 0, UNCHANGED <<net, calls>>, NEW x \in Frames, NEW q \in Seq(Seq(Items)), PullStep(w, x, q)
      PROVE  Control'
  <2>1. /\ x.f = "pull" /\ x.w = w /\ x.pc = 2 /\ x.data # <<>> /\ st[w].pend = Grown(q, x.data) /\ st'[w].pend = q
        /\ st' \in [Sides -> Streams] /\ st'[Other(w)] = st[Other(w)] /\ Went(x, r) /\ ssl' \in Engines
        /\ (ssl.flights = 2 => ssl'.flights = 2) /\ ssl'.up
        /\ \/ w = "enc" /\ x.b
           \/ w = "clr" /\ GoesIn(ssl, ssl', x.data, x.b) BY <1>8 DEF PullStep
  <2>2. x.data \in Seq(Items) BY DEF Frames
  <2>3. /\ Shaped(st'["clr"].pend)
        /\ w = "clr" => Chunked(x.data)
    <3>1. CASE w = "clr" BY <1>0, <2>1, <2>2, <3>1, ShapedParts DEF Guards
    <3>2. CASE w # "clr" BY <1>0, <1>5, <2>1, <3>2 DEF Guards
    <3> QED BY <3>1, <3>2
  <2>4. Refusing(x) => ssl'.flights # 2 \/ (ssl'.up /\ ssl'.error) BY <2>1, Zenon DEF GoesIn, Refusing
  <2>5. FrameFits(x, pair')
    <3>1. pair'.fault = pair.fault BY <1>0, <1>1, <2>1, WentFields, Zenon
    <3> QED BY <1>4, <2>1, <2>3, <3>1 DEF FrameFits, Refusing
  <2>6. x.f = h.f /\ x.w = h.w BY <1>1, <2>1
  <2> QED BY <1>1, <1>2, <1>8, <2>1, <2>3, <2>4, <2>5, <2>6, WentControl
<1>9. ASSUME DoneStep(w, r) PROVE Control' BY <1>1, <1>2, <1>9, DoneControl
<1>10. ASSUME h.pc = 2, ~h.b, RefusedStep(w, h.data, r) PROVE Control'
  <2>1. /\ st' \in [Sides -> Streams] /\ st'[Other(w)] = st[Other(w)]
        /\ st'[w].pend = <<h.data>> \o st[w].pend /\ stack' = r /\ UNCHANGED <<ssl, pair, io, net, calls>>
    BY <1>10 DEF RefusedStep
  <2>2. w = "clr" /\ Chunked(h.data) /\ h.data \in Seq(Items)
    BY <1>1, <1>3, <1>10, Zenon DEF FrameFits, Refusing, Frames
  <2>3. Shaped(<<h.data>> \o st["clr"].pend) BY <1>0, <2>2, ShapedBack DEF Guards
  <2>4. StackFits(stack', pair') /\ stack' \in Seq(Frames)
    <3>1. stack' = r /\ pair' = pair BY <2>1
    <3>2. StackFits(r, pair) /\ r \in Seq(Frames) BY <1>1, TopFits
    <3> QED BY <3>1, <3>2
  <2>5. Types' BY <1>0, <2>1, <2>4 DEF Types
  <2>6. Guards' BY <1>0, <1>2, <1>3, <2>1, <2>2, <2>3, GuardsAfter, Zenon
  <2> QED BY <2>4, <2>5, <2>6 DEF Control
<1>11. ASSUME h.pc = 2, h.b, TakenStep(w, r) PROVE Control'
  <2>1. /\ st' \in [Sides -> Streams] /\ st'[Other(w)] = st[Other(w)]
        /\ st'[w].pend = st[w].pend /\ UNCHANGED <<ssl, pair, io, net, calls>>
        /\ \/ stack' = <<Frame("pull", w, 0)>> \o r
           \/ stack' = <<User("callback"), Frame("pull", w, 0)>> \o r BY <1>11 DEF TakenStep
  <2>2. PICK y \in Frames : y = Frame("pull", w, 0) /\ y.f = "pull" /\ y.w = w /\ y.pc = 0
    BY <1>1, FrameMade DEF Methods
  <2>3. PICK c \in Frames : c = User("callback") /\ c.f = "callback" BY Made DEF Handlers
  <2>4. FrameFits(y, pair) /\ ~Refusing(y) /\ ~EmptyPush(y) /\ y.f = h.f /\ y.w = h.w
    BY <1>1, <1>4, <2>2 DEF FrameFits, Refusing, EmptyPush
  <2>5. FrameFits(c, pair) /\ ~Refusing(c) /\ ~Moving(c) BY <1>4, <2>3, PlainFits DEF Moving, Refusing
  <2>6. /\ StackFits(<<c, y>> \o r, pair) /\ <<c, y>> \o r = <<c>> \o (<<y>> \o r)
        /\ StackFits(<<y>> \o r, pair) BY <1>0, <1>2, <2>4, <2>5, FitsSwap, FitsSwapTwo, Zenon
  <2>7. <<y>> \o r \in Seq(Frames) /\ Head(<<y>> \o r) = y BY <1>1, OnTop
  <2>8. /\ <<c>> \o (<<y>> \o r) \in Seq(Frames) /\ Head(<<c>> \o (<<y>> \o r)) = c BY <2>7, OnTop
  <2>9. StackFits(stack', pair') /\ stack' \in Seq(Frames) /\ ~Refusing(Head(stack'))
    <3>1. CASE stack' = <<y>> \o r BY <2>1, <2>4, <2>6, <2>7, <3>1
    <3>2. CASE stack' = <<c, y>> \o r BY <2>1, <2>5, <2>6, <2>8, <3>2
    <3> QED BY <2>1, <2>2, <2>3, <3>1, <3>2
  <2>10. Shaped(st'["clr"].pend) BY <1>0, <1>5, <2>1 DEF Guards
  <2>11. Types' BY <1>0, <2>1, <2>9 DEF Types
  <2>12. Guards' BY <1>0, <1>2, <2>1, <2>9, <2>10, GuardsAfter
  <2> QED BY <2>9, <2>11, <2>12 DEF Control
<1> QED BY <1>1, <1>6, <1>7, <1>8, <1>9, <1>10, <1>11

-----------------------------------------------------------------------------
\* One call of _pusher: d is what it read, x the frame that goes on with it.
PushStep(x, d) ==
  LET h == Head(stack) IN
  /\ x.f = "push" /\ x.w = h.w /\ x.b = h.b /\ x.data = h.data \o d /\ x.pc \in {2, 3}
  /\ Went(x, Tail(stack)) /\ ssl' \in Engines /\ ssl'.up = ssl.up /\ st' = st
  /\ (ssl.flights = 2 => ssl'.flights = 2)
  /\ \/ ~ssl.up /\ ssl' = ssl /\ d = <<>> /\ x.pc = 3
     \/ ssl.up /\ h.w = "enc" /\ ReadsBio(ssl, ssl', d) /\ x.pc = 3
     \/ ssl.up /\ h.w = "clr" /\ ReadsOut(ssl, ssl', d, x.pc = 2)

\* _push reads from the engine what it then emits.
LEMMA PushReadCases ==
  ASSUME Control, ~Idle, Head(stack).f = "push", push_read(Head(stack), Tail(stack))
  PROVE  \E x \in Frames, d \in Seq(Items) : PushStep(x, d)
<1> DEFINE h == Head(stack)
           m == _pusher(h.w, ssl)
           pc == IF m.ok /\ h.w = "clr" THEN 2 ELSE 3
           r == Tail(stack)
<1>0. Types /\ ssl \in Engines BY DEF Control, Types
<1>1. h \in Frames /\ r \in Seq(Frames) /\ h.w \in Sides /\ h.data \in Seq(Items) BY TopFits DEF Frames
<1>2. /\ ssl' = m.ssl /\ st' = st
      /\ IF m.ssl.up /\ m.ssl.error
         THEN pair' = [pair EXCEPT !.failed = TRUE] /\ stack' = <<Err>> \o r /\ UNCHANGED io
         ELSE maybeInitFinished(m.ssl, <<[h EXCEPT !.pc = pc, !.data = @ \o m.data]>> \o r)
  BY DEF push_read, tls_conn_get_error
<1>3. /\ m.data \in Seq(Items) /\ ssl' \in Engines /\ ssl'.up = ssl.up /\ (ssl.flights = 2 => ssl'.flights = 2)
      /\ \/ ~ssl.up /\ ssl' = ssl /\ m.data = <<>> /\ pc = 3
         \/ ssl.up /\ h.w = "enc" /\ ReadsBio(ssl, ssl', m.data) /\ pc = 3
         \/ ssl.up /\ h.w = "clr" /\ ReadsOut(ssl, ssl', m.data, pc = 2)
  <2>1. CASE ~ssl.up
    <3>1. m = Moved(ssl, <<>>, FALSE) BY <2>1, Zenon DEF _pusher
    <3>2. m.ssl = ssl /\ m.data = <<>> /\ ~m.ok BY <3>1 DEF Moved
    <3> HIDE DEF m
    <3> QED BY <1>0, <1>2, <2>1, <3>2
  <2>2. CASE ssl.up /\ h.w = "enc"
    <3>1. m = tls_conn_enc_out(ssl) BY <2>2 DEF _pusher
    <3>2. /\ SameButIn(ssl, m.ssl) /\ m.ssl.error = ssl.error /\ m.ssl.in = ssl.in
          /\ m.ssl.out = <<>> /\ m.data = ssl.out
      <4>1. <<>> \in Seq(Items) OBVIOUS
      <4> HIDE DEF m
      <4> QED BY <1>0, <3>1, <4>1, BioFields, Zenon
    <3>3. ssl.out \in Seq(Items) BY <1>0 DEF Engines
    <3> HIDE DEF m
    <3> QED BY <1>2, <2>2, <3>2, <3>3 DEF ReadsBio, SameButIn
  <2>3. CASE ssl.up /\ h.w = "clr"
    <3>1. m = tls_conn_clear_out(ssl) BY <2>3 DEF _pusher
    <3>2. PICK g : g = tls_conn_start(ssl) OBVIOUS
    <3>3. /\ m.data \in Seq(Items)
          /\ \/ (g.flights # 2 \/ g.in = <<>>) /\ m.ssl = g /\ ~m.ok /\ m.data = <<>>
             \/ /\ g.flights = 2 /\ g.in # <<>> /\ SameButIn(g, m.ssl) /\ m.ssl.in = Tail(g.in)
                /\ \/ /\ Head(g.in) = "fin" /\ ~m.ok /\ m.data = <<>>
                      /\ m.ssl.out = g.out /\ m.ssl.error = g.error
                   \/ /\ Head(g.in) = "bad" /\ ~m.ok /\ m.data = <<>>
                      /\ m.ssl.out = Append(g.out, "alert") /\ m.ssl.error
                   \/ /\ Head(g.in) \notin {"fin", "bad"} /\ m.ok /\ m.data = <<Head(g.in)>>
                      /\ m.ssl.out = g.out /\ m.ssl.error = g.error BY <1>0, <3>1, <3>2, ClearOutFields
    <3>4. g \in Engines /\ g.up = ssl.up /\ (ssl.flights = 2 => g = ssl) BY <1>0, <3>2, StartFields DEF Shakes
    <3> HIDE DEF m
    <3>5. (pc = 2 <=> m.ok) /\ pc \in {2, 3} BY <2>3
    <3> HIDE DEF pc
    <3>6. ssl' \in Engines /\ ssl'.up = ssl.up /\ (ssl.flights = 2 => ssl'.flights = 2)
      BY <1>2, <3>3, <3>4 DEF SameButIn
    <3>7. ReadsOut(ssl, ssl', m.data, pc = 2) BY <1>2, <3>2, <3>3, <3>5 DEF ReadsOut
    <3> QED BY <2>3, <3>3, <3>6, <3>7
  <2> QED BY <1>1, <2>1, <2>2, <2>3 DEF Sides
<1>4. PICK d \in Seq(Items) : d = m.data BY <1>3
<1>5. PICK n \in 0..5 : n = pc /\ n \in {2, 3} OBVIOUS
<1>6. h.data \o d \in Seq(Items) BY <1>1
<1>7. PICK e \in Seq(Items) : e = h.data \o d BY <1>6, Zenon
<1>8. PICK x : x = [h EXCEPT !.pc = n, !.data = e] OBVIOUS
<1>9. /\ x \in Frames /\ x.pc = n /\ x.data = e /\ x.f = h.f /\ x.w = h.w /\ x.b = h.b
  <2> DEFINE D == Seq(Items)
  <2>1. Frames = [f : Methods, w : Sides, pc : 0..5, n : Nat, b : BOOLEAN, data : D] /\ e \in D BY DEF Frames
  <2>2. h \in Frames BY <1>1
  <2> HIDE DEF D, h, m, pc, r
  <2> QED BY <1>8, <2>1, <2>2, Zenon
<1>10. Went(x, r) BY <1>2, <1>4, <1>5, <1>7, <1>8 DEF Went
<1>11. PushStep(x, d)
  <2> HIDE DEF m, pc
  <2> QED BY <1>2, <1>3, <1>4, <1>5, <1>7, <1>9, <1>10 DEF PushStep
<1> QED BY <1>9, <1>11

\* What was read is emitted.
EmitStep(w, d, r) ==
  /\ io' \in Ios /\ io'.written = io.written /\ io'.secures = io.secures
  /\ IF w = "enc" THEN io'.wire = io.wire \o d /\ io'.got = io.got
     ELSE io'.got = io.got \o d /\ io'.wire = io.wire
  /\ UNCHANGED <<st, ssl, pair, net, calls>>
  /\ stack' = <<Frame("data", w, 0), Frame("push", w, 0)>> \o r

\* CryptoStream:_push
LEMMA PushCases ==
  ASSUME Control, _push
  PROVE  LET h == Head(stack)
             w == Head(stack).w
             r == Tail(stack) IN
         /\ ~Idle /\ h.f = "push" /\ w \in Sides /\ h \in Frames /\ r \in Seq(Frames)
         /\ \/ h.pc = 0 /\ st[w].paused /\ stack' = r /\ UNCHANGED <<st, ssl, pair, net, io, calls>>
            \/ /\ h.pc \in {0, 2} /\ (h.pc = 0 => ~st[w].paused) /\ UNCHANGED <<net, calls>>
               /\ \E x \in Frames, d \in Seq(Items) : PushStep(x, d)
            \/ /\ h.pc = 3 /\ h.data = <<>> /\ w = "enc" /\ ~ssl.up /\ pair' = [pair EXCEPT !.fault = TRUE]
               /\ stack' = <<>> /\ UNCHANGED <<st, ssl, net, io, calls>>
            \/ /\ h.pc = 3 /\ h.data = <<>> /\ (w = "enc" => ssl.up) /\ Pending(w) = 0
               /\ st[w].destroyAfterPush /\ DoneStep(w, r)
            \/ /\ h.pc = 3 /\ h.data = <<>> /\ (w = "enc" => ssl.up) /\ ~(Pending(w) = 0 /\ st[w].destroyAfterPush)
               /\ stack' = r /\ UNCHANGED <<st, ssl, pair, net, io, calls>>
            \/ h.pc = 3 /\ h.data # <<>> /\ EmitStep(w, h.data, r)
<1> DEFINE h == Head(stack)
           w == h.w
           r == Tail(stack)
<1>0. Types /\ io \in Ios BY DEF Control, Types
<1>1. ~Idle /\ h.f = "push" BY Zenon DEF _push, Top
<1>2. h \in Frames /\ r \in Seq(Frames) /\ w \in Sides /\ h.data \in Seq(Items) BY <1>1, TopFits DEF Frames
<1>3. \/ h.pc = 0 /\ st[w].paused /\ stack' = r /\ UNCHANGED <<st, ssl, pair, net, io, calls>>
      \/ h.pc = 0 /\ ~st[w].paused /\ push_read(h, r)
      \/ h.pc = 2 /\ push_read(h, r)
      \/ /\ h.pc = 3 /\ h.data = <<>>
         /\ IF w = "enc" /\ ~ssl.up
            THEN pair' = [pair EXCEPT !.fault = TRUE] /\ stack' = <<>> /\ UNCHANGED <<st, ssl>>
            ELSE IF Pending(w) = 0 /\ st[w].destroyAfterPush THEN _done(w, r)
            ELSE stack' = r /\ UNCHANGED <<st, ssl, pair>>
         /\ UNCHANGED <<net, io, calls>>
      \/ /\ h.pc = 3 /\ h.data # <<>>
         /\ io' = (IF w = "enc" THEN [io EXCEPT !.wire = @ \o h.data] ELSE [io EXCEPT !.got = @ \o h.data])
         /\ stack' = <<Frame("data", w, 0), Frame("push", w, 0)>> \o r
         /\ UNCHANGED <<st, ssl, pair, net, calls>> BY Zenon DEF _push, Top
<1>4. push_read(h, r) => UNCHANGED <<net, calls>> /\ \E x \in Frames, d \in Seq(Items) : PushStep(x, d)
  BY <1>1, PushReadCases DEF push_read
<1>5. _done(w, r) /\ UNCHANGED <<net, io, calls>> => DoneStep(w, r) BY <1>0, <1>2, DoneCases
<1>6. ASSUME /\ io' = (IF w = "enc" THEN [io EXCEPT !.wire = @ \o h.data] ELSE [io EXCEPT !.got = @ \o h.data])
             /\ stack' = <<Frame("data", w, 0), Frame("push", w, 0)>> \o r
             /\ UNCHANGED <<st, ssl, pair, net, calls>>
      PROVE  EmitStep(w, h.data, r)
  <2> DEFINE D == Seq(Items)
             C == Seq(Chunks)
  <2>1. Ios = [written : C, wire : D, got : D, secures : Nat] BY DEF Ios
  <2>2. io.wire \in D /\ io.got \in D BY <1>0, <2>1
  <2>3. io.wire \o h.data \in D /\ io.got \o h.data \in D BY <1>2, <2>2
  <2>4. PICK a \in D : a = io.wire \o h.data BY <2>3, Zenon
  <2>5. PICK b \in D : b = io.got \o h.data BY <2>3, Zenon
  <2>6. io' = IF w = "enc" THEN [io EXCEPT !.wire = a] ELSE [io EXCEPT !.got = b] BY <1>6, <2>4, <2>5
  <2> HIDE DEF D, C, h
  <2>7. /\ io' \in Ios /\ io'.written = io.written /\ io'.secures = io.secures
        /\ IF w = "enc" THEN io'.wire = a /\ io'.got = io.got ELSE io'.got = b /\ io'.wire = io.wire
    BY <1>0, <2>1, <2>4, <2>5, <2>6, Zenon
  <2> QED BY <1>6, <2>4, <2>5, <2>7, Zenon DEF EmitStep
<1> HIDE DEF h, w, r
<1>7. /\ ~Idle /\ h.f = "push" /\ w \in Sides /\ h \in Frames /\ r \in Seq(Frames)
      /\ \/ h.pc = 0 /\ st[w].paused /\ stack' = r /\ UNCHANGED <<st, ssl, pair, net, io, calls>>
         \/ /\ h.pc \in {0, 2} /\ (h.pc = 0 => ~st[w].paused) /\ UNCHANGED <<net, calls>>
            /\ \E x \in Frames, d \in Seq(Items) : PushStep(x, d)
         \/ /\ h.pc = 3 /\ h.data = <<>> /\ w = "enc" /\ ~ssl.up /\ pair' = [pair EXCEPT !.fault = TRUE]
            /\ stack' = <<>> /\ UNCHANGED <<st, ssl, net, io, calls>>
         \/ /\ h.pc = 3 /\ h.data = <<>> /\ (w = "enc" => ssl.up) /\ Pending(w) = 0
            /\ st[w].destroyAfterPush /\ DoneStep(w, r)
         \/ /\ h.pc = 3 /\ h.data = <<>> /\ (w = "enc" => ssl.up) /\ ~(Pending(w) = 0 /\ st[w].destroyAfterPush)
            /\ stack' = r /\ UNCHANGED <<st, ssl, pair, net, io, calls>>
         \/ h.pc = 3 /\ h.data # <<>> /\ EmitStep(w, h.data, r)
  <2>1. CASE h.pc = 0 /\ st[w].paused /\ stack' = r /\ UNCHANGED <<st, ssl, pair, net, io, calls>> BY <1>1, <1>2, <2>1
  <2>2. CASE h.pc \in {0, 2} /\ (h.pc = 0 => ~st[w].paused) /\ push_read(h, r) BY <1>1, <1>2, <1>4, <2>2
  <2>3. CASE /\ h.pc = 3 /\ h.data = <<>>
             /\ IF w = "enc" /\ ~ssl.up
                THEN pair' = [pair EXCEPT !.fault = TRUE] /\ stack' = <<>> /\ UNCHANGED <<st, ssl>>
                ELSE IF Pending(w) = 0 /\ st[w].destroyAfterPush THEN _done(w, r)
                ELSE stack' = r /\ UNCHANGED <<st, ssl, pair>>
             /\ UNCHANGED <<net, io, calls>>
    <3>1. CASE w = "enc" /\ ~ssl.up BY <1>1, <1>2, <2>3, <3>1
    <3>2. CASE ~(w = "enc" /\ ~ssl.up) /\ Pending(w) = 0 /\ st[w].destroyAfterPush BY <1>1, <1>2, <1>5, <2>3, <3>2
    <3>3. CASE ~(w = "enc" /\ ~ssl.up) /\ ~(Pending(w) = 0 /\ st[w].destroyAfterPush) BY <1>1, <1>2, <2>3, <3>3
    <3> QED BY <3>1, <3>2, <3>3
  <2>4. CASE /\ h.pc = 3 /\ h.data # <<>>
             /\ io' = (IF w = "enc" THEN [io EXCEPT !.wire = @ \o h.data] ELSE [io EXCEPT !.got = @ \o h.data])
             /\ stack' = <<Frame("data", w, 0), Frame("push", w, 0)>> \o r
             /\ UNCHANGED <<st, ssl, pair, net, calls>> BY <1>1, <1>2, <1>6, <2>4, Zenon
  <2>5. (h.pc = 0 /\ ~st[w].paused /\ push_read(h, r)) \/ (h.pc = 2 /\ push_read(h, r))
        => h.pc \in {0, 2} /\ (h.pc = 0 => ~st[w].paused) /\ push_read(h, r) OBVIOUS
  <2> QED BY <1>3, <2>1, <2>2, <2>3, <2>4, <2>5, Zenon
<1> QED BY <1>7 DEF h, w, r

\* A step of CryptoStream:_push.
LEMMA _pushControl == Control /\ _push => Control'
<1> SUFFICES ASSUME Control, _push PROVE Control' OBVIOUS
<1> DEFINE h == Head(stack)
           w == h.w
           r == Tail(stack)
<1>0. Types /\ Guards /\ StackFits(stack, pair) /\ pair \in Flags BY DEF Control, Types
<1>1. ~Idle /\ h.f = "push" /\ w \in Sides /\ h \in Frames /\ r \in Seq(Frames) BY PushCases
<1>2. ~AtErr /\ Moving(h) /\ stack # <<>> BY <1>1 DEF AtErr, Moving, Idle
<1>3. /\ FrameFits(h, pair) /\ (r # <<>> => ~Refusing(Head(r))) /\ r # <<>> BY <1>1, <1>2, TopFits
<1>4. ~pair.fault BY <1>1, <1>3 DEF FrameFits, Handlers
<1>5. ASSUME stack' = r, UNCHANGED <<st, ssl, pair, net, io, calls>> PROVE Control'
  BY <1>0, <1>1, <1>2, <1>5, ReturnControl DEF Types, SameEngine, SameFlags
<1>6. ASSUME h.pc \in {0, 2}, UNCHANGED <<net, calls>>, NEW x \in Frames, NEW d \in Seq(Items), PushStep(x, d)
      PROVE  Control'
  <2>1. /\ x.f = "push" /\ x.w = h.w /\ x.data = h.data \o d /\ x.pc \in {2, 3}
        /\ Went(x, r) /\ ssl' \in Engines /\ ssl'.up = ssl.up /\ st' = st
        /\ (ssl.flights = 2 => ssl'.flights = 2)
        /\ \/ ~ssl.up /\ d = <<>> /\ x.pc = 3
           \/ h.w = "enc" /\ x.pc = 3
           \/ ssl.up /\ h.w = "clr" /\ ReadsOut(ssl, ssl', d, x.pc = 2) BY <1>6 DEF PushStep
  <2>2. /\ pair'.fault = pair.fault
        /\ Fails(r) \/ Quiet(x, r) \/ Ends(x, r) BY <1>0, <1>1, <2>1, WentFields, Zenon
  <2>3. h.data # <<>> /\ w = "clr" => pair.secure BY <1>1, <1>3 DEF FrameFits
  <2>4. pair.secure /\ ~Fails(r) => pair'.secure BY <2>2 DEF Quiet, Ends
  <2>5. ASSUME ~(ssl'.up /\ ssl'.error) PROVE FrameFits(x, pair')
    <3>1. ~Fails(r) BY <2>5 DEF Fails
    <3>2. ASSUME x.w = "clr", x.data # <<>> PROVE pair'.secure
      <4>1. CASE h.data # <<>> BY <2>1, <2>3, <2>4, <3>1, <3>2, <4>1
      <4>2. CASE h.data = <<>>
        <5>1. d # <<>> BY <2>1, <3>2, <4>2
        <5>2. ssl.up /\ ReadsOut(ssl, ssl', d, x.pc = 2) BY <2>1, <3>2, <5>1
        <5>3. ssl'.flights = 2 BY <5>1, <5>2 DEF ReadsOut, SameButIn
        <5> QED BY <2>1, <2>2, <3>1, <5>2, <5>3 DEF Quiet, Ends
      <4> QED BY <4>1, <4>2
    <3>3. x.pc = 2 => x.w = "clr" BY <2>1
    <3> QED BY <1>4, <2>1, <2>2, <3>2, <3>3 DEF FrameFits, Refusing
  <2>6. ~Refusing(x) BY <2>1 DEF Refusing
  <2>7. Shaped(st'["clr"].pend) /\ st' \in [Sides -> Streams] BY <1>0, <2>1 DEF Guards, Types
  <2>8. x.f = h.f /\ x.w = h.w BY <1>1, <2>1
  <2> QED BY <1>1, <1>2, <1>6, <2>1, <2>5, <2>6, <2>7, <2>8, WentControl
<1>7. ASSUME pair' = [pair EXCEPT !.fault = TRUE], stack' = <<>>, UNCHANGED <<st, ssl, net, io, calls>> PROVE Control'
  <2>1. pair' \in Flags /\ pair'.secure = pair.secure BY <1>0, <1>7, Zenon DEF Flags
  <2>2. stack' \in Seq(Frames) BY <1>7
  <2>3. Types' BY <1>0, <1>7, <2>1, <2>2 DEF Types
  <2>4. Guards' BY <1>0, <1>2, <1>7, <2>1, GuardsAfter DEF Guards
  <2> QED BY <1>7, <2>3, <2>4, FitsNone DEF Control
<1>8. ASSUME DoneStep(w, r) PROVE Control' BY <1>1, <1>2, <1>8, DoneControl
<1>9. ASSUME h.data # <<>>, EmitStep(w, h.data, r) PROVE Control'
  <2>1. /\ io' \in Ios /\ io'.secures = io.secures /\ (w = "enc" => io'.got = io.got)
        /\ UNCHANGED <<st, ssl, pair, net, calls>>
        /\ stack' = <<Frame("data", w, 0), Frame("push", w, 0)>> \o r BY <1>9, Zenon DEF EmitStep
  <2>2. PICK y \in Frames : y = Frame("push", w, 0) /\ y.f = "push" /\ y.w = w /\ y.pc = 0 /\ y.data = <<>>
    BY <1>1, FrameMade DEF Methods
  <2>3. PICK c \in Frames : c = Frame("data", w, 0) /\ c.f = "data" BY <1>1, FrameMade DEF Methods, Handlers
  <2>4. FrameFits(y, pair) /\ ~Refusing(y) /\ ~EmptyPush(y) /\ y.f = h.f /\ y.w = h.w
    BY <1>1, <1>4, <2>2 DEF FrameFits, Refusing, EmptyPush
  <2>5. FrameFits(c, pair) /\ ~Refusing(c) /\ ~Moving(c) BY <1>4, <2>3, PlainFits DEF Moving, Refusing
  <2>6. StackFits(<<c, y>> \o r, pair) /\ <<c, y>> \o r = <<c>> \o (<<y>> \o r)
    BY <1>0, <1>2, <2>4, <2>5, FitsSwapTwo, Zenon
  <2>7. <<y>> \o r \in Seq(Frames) BY <1>1, OnTop
  <2>8. <<c>> \o (<<y>> \o r) \in Seq(Frames) /\ Head(<<c>> \o (<<y>> \o r)) = c BY <2>7, OnTop
  <2>9. StackFits(stack', pair') /\ stack' \in Seq(Frames) /\ Head(stack') = c BY <2>1, <2>2, <2>3, <2>6, <2>8
  <2>10. w = "clr" => pair.secure BY <1>1, <1>3, <1>9 DEF FrameFits
  <2>11. Types' BY <1>0, <2>1, <2>9 DEF Types
  <2>12. Guards' BY <1>0, <1>1, <1>2, <2>1, <2>5, <2>9, <2>10 DEF Guards, Sides
  <2> QED BY <2>9, <2>11, <2>12 DEF Control
<1>10. \/ stack' = r /\ UNCHANGED <<st, ssl, pair, net, io, calls>>
       \/ h.pc \in {0, 2} /\ UNCHANGED <<net, calls>> /\ \E x \in Frames, d \in Seq(Items) : PushStep(x, d)
       \/ pair' = [pair EXCEPT !.fault = TRUE] /\ stack' = <<>> /\ UNCHANGED <<st, ssl, net, io, calls>>
       \/ DoneStep(w, r)
       \/ h.data # <<>> /\ EmitStep(w, h.data, r) BY PushCases
<1> QED BY <1>5, <1>6, <1>7, <1>8, <1>9, <1>10

-----------------------------------------------------------------------------
\* The first layer is an invariant of the pair; that a pair that is done has no
\* engine is known.
LEMMA NextControl == Control /\ EngineGone /\ [PairNext]_pairVars => Control'
<1> SUFFICES ASSUME Control, EngineGone, [PairNext]_pairVars PROVE Control' OBVIOUS
<1>1. CASE UNCHANGED pairVars BY <1>1 DEF pairVars, Control, Types, Guards, AtErr
<1>2. CASE Internal
  BY <1>2, cycleControl, _pullControl, _pushControl, writtenControl, errControl, secureControl,
     handler_returnsControl DEF Internal
<1>3. CASE start \/ destroyed \/ program_writes \/ program_calls \/ program_resumes
  BY <1>3, startControl, destroyedControl, program_writesControl, program_callsControl, program_resumesControl
<1>4. CASE peer_sends \/ socket_data \/ socket_end \/ socket_destroyed \/ socket_close \/ socket_full \/ socket_drain
  BY <1>4, peer_sendsControl, socket_dataControl, socket_endControl, socket_closeControl, socket_pausesControl
<1>5. CASE \E w \in Sides : emit_drain(w) BY <1>5, emit_drainControl
<1> QED BY <1>1, <1>2, <1>3, <1>4, <1>5 DEF PairNext

-----------------------------------------------------------------------------
\* What the frames of the stack hold, and how many of them have an entry that
\* the engine was asked to take.
NoHand(x) == \A f \in {"pull", "push"}, w \in Sides : Hand(x, f, w) = <<>>
SameHeld(s, t) == \A f \in {"pull", "push"}, w \in Sides : Held(t, f, w) = Held(s, f, w)

Asks(x, w) == x.f = "pull" /\ x.w = w /\ x.pc = 2
Asked(w) == [x \in Frames |-> IF Asks(x, w) THEN <<1>> ELSE <<>>]
Tok(s, w) == Len(Gather(s, Asked(w)))

\* Frames that have nothing in their hands.
LEMMA NoHandFrames ==
  \A x : ~Moving(x) \/ x.data = <<>> \/ (x.f = "pull" /\ ~Refusing(x)) => NoHand(x)
BY DEF NoHand, Hand, InHand, Moving, Refusing

\* What a call adds to what the stack has in its hands.
LEMMA HeldPush ==
  ASSUME NEW s \in Seq(Frames), NEW x \in Frames, NEW f, NEW w
  PROVE  /\ Held(Cons(x, s), f, w) = Hand(x, f, w) \o Held(s, f, w)
         /\ Held(s, f, w) \in Seq(Items) /\ Hand(x, f, w) \in Seq(Items)
<1> DEFINE u == <<x>> \o s
<1>1. u = Cons(x, s) BY DEF Cons
<1>2. /\ Held(u, f, w) = Hand(x, f, w) \o Held(s, f, w)
      /\ Held(s, f, w) \in Seq(Items) /\ Hand(x, f, w) \in Seq(Items) BY HeldCons, Zenon
<1> HIDE DEF u
<1> QED BY <1>1, <1>2

\* A frame with nothing in its hands adds nothing.
LEMMA HeldTop ==
  ASSUME NEW s \in Seq(Frames), NEW x \in Frames, NoHand(x)
  PROVE  SameHeld(s, Cons(x, s))
<1> SUFFICES ASSUME NEW f \in {"pull", "push"}, NEW w \in Sides PROVE Held(Cons(x, s), f, w) = Held(s, f, w)
  BY DEF SameHeld
<1>1. Held(Cons(x, s), f, w) = Hand(x, f, w) \o Held(s, f, w) /\ Held(s, f, w) \in Seq(Items) BY HeldPush
<1>2. Hand(x, f, w) = <<>> BY DEF NoHand
<1>3. PICK d : d = Held(s, f, w) /\ d \in Seq(Items) BY <1>1
<1>4. <<>> \o d = d BY <1>3, CatNone
<1> QED BY <1>1, <1>2, <1>3, <1>4

\* One token for each frame that asked the engine.
LEMMA AskedFun == \A w : Asked(w) \in [Frames -> Seq(Nat)]
<1> TAKE w
<1>1. <<1>> \in Seq(Nat) /\ <<>> \in Seq(Nat) OBVIOUS
<1>2. PICK N, a, z : N = Seq(Nat) /\ a = <<1>> /\ z = <<>> BY Zenon
<1>3. a \in N /\ z \in N BY <1>1, <1>2
<1>4. [x \in Frames |-> IF Asks(x, w) THEN a ELSE z] \in [Frames -> N] BY <1>3
<1> QED BY <1>2, <1>4 DEF Asked

\* The tokens of a stack with a frame more.
LEMMA TokTop ==
  ASSUME NEW s \in Seq(Frames), NEW x \in Frames, NEW w
  PROVE  /\ Tok(s, w) \in Nat /\ Tok(Cons(x, s), w) \in Nat
         /\ Tok(Cons(x, s), w) = IF Asks(x, w) THEN Tok(s, w) + 1 ELSE Tok(s, w)
<1> DEFINE u == <<x>>
           h == Asked(w)
<1>1. u \in Seq(Frames) /\ h \in [Frames -> Seq(Nat)] /\ Cons(x, s) = u \o s BY AskedFun DEF Cons
<1>2. Gather(u, h) = h[x] BY <1>1, GatherOne, Zenon
<1>3. h[x] = IF Asks(x, w) THEN <<1>> ELSE <<>> BY DEF Asked
<1> HIDE DEF u, h
<1>4. Gather(u \o s, h) = Gather(u, h) \o Gather(s, h) /\ Gather(s, h) \in Seq(Nat)
  BY <1>1, GatherCat, GatherType, Zenon
<1>5. PICK g : g \in Seq(Nat) /\ g = Gather(s, h) BY <1>4
<1>6. Len(<<1>> \o g) = Len(g) + 1 /\ Len(<<>> \o g) = Len(g) /\ Len(g) \in Nat BY <1>5
<1>7. Tok(s, w) = Len(g) /\ Tok(Cons(x, s), w) = Len(h[x] \o g) BY <1>1, <1>2, <1>4, <1>5 DEF Tok, h
<1> QED BY <1>3, <1>6, <1>7

\* No frames, no tokens.
LEMMA TokNone == \A w : Tok(<<>>, w) = 0
BY GatherNone DEF Tok

\* A stack that holds what another one holds, and asks what it asks.
Alike(s, t) == SameHeld(s, t) /\ \A w \in Sides : Tok(t, w) = Tok(s, w)

Plain(x) == NoHand(x) /\ \A w \in Sides : ~Asks(x, w)

\* Which frames are plain.
LEMMA PlainFrames ==
  /\ \A x : ~Moving(x) => Plain(x)
  /\ \A x : x.pc # 2 /\ x.data = <<>> => Plain(x)
  /\ \A x : x.f = "pull" /\ x.pc # 2 => Plain(x)
BY NoHandFrames DEF Plain, Asks, Moving, Refusing

\* Calling a plain frame.
LEMMA AlikeTop ==
  ASSUME NEW s \in Seq(Frames), NEW x \in Frames, Plain(x)
  PROVE  Alike(s, Cons(x, s))
<1>1. SameHeld(s, Cons(x, s)) BY HeldTop DEF Plain
<1>2. \A w \in Sides : Tok(Cons(x, s), w) = Tok(s, w) BY TokTop DEF Plain
<1> QED BY <1>1, <1>2 DEF Alike

\* A plain frame returns, or goes on as a plain frame.
LEMMA AlikeSwap ==
  ASSUME NEW s \in Seq(Frames), s # <<>>, Plain(Head(s))
  PROVE  /\ Alike(s, Tail(s))
         /\ \A x \in Frames : Plain(x) => Alike(s, Cons(x, Tail(s)))
<1>1. Head(s) \in Frames /\ Tail(s) \in Seq(Frames) /\ s = Cons(Head(s), Tail(s)) BY ConsParts DEF Cons
<1>2. Alike(Tail(s), s) BY <1>1, AlikeTop, Zenon
<1>3. \A x \in Frames : Plain(x) => Alike(Tail(s), Cons(x, Tail(s))) BY <1>1, AlikeTop, Zenon
<1> QED BY <1>2, <1>3 DEF Alike, SameHeld

\* Another plain frame on top.
LEMMA AlikeTwo ==
  ASSUME NEW s \in Seq(Frames), NEW t \in Seq(Frames), Alike(s, t), NEW x \in Frames, Plain(x)
  PROVE  Alike(s, Cons(x, t))
<1>1. Alike(t, Cons(x, t)) BY AlikeTop
<1> QED BY <1>1 DEF Alike, SameHeld

\* A stack is like itself.
LEMMA AlikeSame == \A s : Alike(s, s)
BY DEF Alike, SameHeld

-----------------------------------------------------------------------------
\* A step that moves nothing: no buffer of the pair changes.
Calm ==
  /\ \A v \in Sides : st'[v].pend = st[v].pend /\ st'[v].bytes = st[v].bytes
  /\ ssl'.in = ssl.in /\ ssl'.out = ssl.out /\ ssl'.flights = ssl.flights
  /\ (ssl'.error = ssl.error \/ pair.secure)
  /\ pair'.failed = pair.failed /\ pair'.fault = pair.fault /\ pair'.queued = pair.queued
  /\ pair'.secure = pair.secure /\ io' = io
  /\ net'.todo = net.todo /\ net'.queue = net.queue /\ net'.flights = net.flights /\ (net.over => net'.over)
  /\ Alike(stack, stack')
  /\ stack' # <<>> => ~Refusing(Head(stack'))

\* Frames that hold nothing come and go.
Restacked ==
  \E b \in Seq(Frames) :
    /\ b = stack \/ (stack # <<>> /\ b = Tail(stack))
    /\ \/ stack' = b
       \/ \E x \in Frames : Plain(x) /\ stack' = Cons(x, b)
       \/ \E x, y \in Frames : Plain(x) /\ Plain(y) /\ stack' = Cons(x, Cons(y, b))

\* A plain frame has no entry to give back.
LEMMA PlainNotRefusing == \A x \in Frames : Plain(x) => ~Refusing(x)
BY DEF Plain, Refusing, Asks, Frames

\* The frame on top and the rest.
LEMMA ConsTop ==
  ASSUME NEW s \in Seq(Frames), NEW x \in Frames
  PROVE  Head(Cons(x, s)) = x /\ Tail(Cons(x, s)) = s /\ Cons(x, s) # <<>> /\ Cons(x, s) \in Seq(Frames)
BY OnTop, Zenon DEF Cons

\* A plain frame on top may be replaced by plain frames.
LEMMA RestackedCalm ==
  ASSUME Control, stack # <<>> => Plain(Head(stack)), Restacked
  PROVE  Alike(stack, stack') /\ (stack' # <<>> => ~Refusing(Head(stack')))
<1>0. stack \in Seq(Frames) BY DEF Control, Types
<1>1. PICK b \in Seq(Frames) :
        /\ b = stack \/ (stack # <<>> /\ b = Tail(stack))
        /\ \/ stack' = b
           \/ \E x \in Frames : Plain(x) /\ stack' = Cons(x, b)
           \/ \E x, y \in Frames : Plain(x) /\ Plain(y) /\ stack' = Cons(x, Cons(y, b)) BY DEF Restacked
<1>2. Alike(stack, b) BY <1>0, <1>1, AlikeSwap, AlikeSame, Zenon
<1>3. b # <<>> => ~Refusing(Head(b))
  <2>1. CASE b = stack
    <3>1. stack # <<>> => Head(stack) \in Frames BY <1>0, ConsParts
    <3> QED BY <2>1, <3>1, PlainNotRefusing
  <2>2. CASE stack # <<>> /\ b = Tail(stack) BY <2>2, TopFits DEF Idle
  <2> QED BY <1>1, <2>1, <2>2
<1>4. CASE stack' = b BY <1>2, <1>3, <1>4
<1>5. ASSUME NEW x \in Frames, Plain(x), stack' = Cons(x, b)
      PROVE  Alike(stack, stack') /\ ~Refusing(Head(stack'))
  BY <1>0, <1>2, <1>5, AlikeTwo, ConsTop, PlainNotRefusing, Zenon
<1>6. ASSUME NEW x \in Frames, NEW y \in Frames, Plain(x), Plain(y), stack' = Cons(x, Cons(y, b))
      PROVE  Alike(stack, stack') /\ ~Refusing(Head(stack'))
  <2>1. Alike(stack, Cons(y, b)) /\ Cons(y, b) \in Seq(Frames) BY <1>0, <1>2, <1>6, AlikeTwo, ConsTop
  <2> QED BY <1>0, <1>6, <2>1, AlikeTwo, ConsTop, PlainNotRefusing, Zenon
<1> QED BY <1>1, <1>4, <1>5, <1>6

\* Stacks as the actions write them.
LEMMA ConsPair ==
  ASSUME NEW x \in Frames, NEW y \in Frames, NEW s \in Seq(Frames)
  PROVE  <<x, y>> \o s = Cons(x, Cons(y, s)) /\ <<x>> \o s = Cons(x, s)
BY ConsTwo, Zenon DEF Cons

\* The frames that hold nothing.
LEMMA PlainMade ==
  /\ \A n \in Nat : Cycle(n) \in Frames /\ Plain(Cycle(n))
  /\ \A e \in Handlers : User(e) \in Frames /\ Plain(User(e))
  /\ Err \in Frames /\ Plain(Err) /\ Destroy \in Frames /\ Plain(Destroy)
  /\ \A f \in Methods, w \in Sides, pc \in {0, 1} : Frame(f, w, pc) \in Frames /\ Plain(Frame(f, w, pc))
<1>1. \A f \in Methods, w \in Sides, pc \in {0, 1} : Frame(f, w, pc) \in Frames /\ Plain(Frame(f, w, pc))
  <2> TAKE f \in Methods, w \in Sides, pc \in {0, 1}
  <2>1. pc \in 0..5 /\ pc # 2 OBVIOUS
  <2>2. Frame(f, w, pc) \in Frames /\ Frame(f, w, pc).pc = pc /\ Frame(f, w, pc).data = <<>> BY <2>1, FrameMade
  <2> QED BY <2>1, <2>2, PlainFrames
<1> QED BY <1>1, Made, PlainFrames

\* While the program runs the frame on top is plain.
LEMMA RunningPlain == ASSUME Control, Running PROVE stack # <<>> => Plain(Head(stack))
BY RunningTop, PlainFrames

\* A step of the error path.
LEMMA errCalm == ASSUME Control, err PROVE Calm
<1> DEFINE h == Head(stack)
           r == Tail(stack)
<1>0. ~Idle /\ h.f = "err" /\ Types BY DEF err, Top, Control
<1>1. r \in Seq(Frames) /\ stack # <<>> BY <1>0, TopFits DEF Idle
<1>2. Plain(h) BY <1>0, PlainFrames DEF Moving
<1>3. User("error") \in Frames /\ Plain(User("error")) /\ Destroy \in Frames /\ Plain(Destroy)
  BY PlainMade DEF Handlers
<1>4. CASE Top("err", 0) /\ ~pair.secure
  <2>1. stack' = <<User("error"), Destroy>> \o r /\ UNCHANGED <<st, ssl, pair, net, io, calls>> BY <1>4 DEF err, Top
  <2>2. stack' = Cons(User("error"), Cons(Destroy, r)) BY <1>1, <1>3, <2>1, ConsPair, Zenon
  <2>3. Restacked BY <1>1, <1>3, <2>2, Zenon DEF Restacked
  <2> QED BY <1>2, <2>1, <2>3, RestackedCalm DEF Calm
<1>5. CASE Top("err", 0) /\ pair.secure
  <2>1. stack' = <<User("error")>> \o r /\ ssl' = tls_conn_clear_error(ssl) /\ UNCHANGED <<st, pair, net, io, calls>>
    BY <1>5 DEF err, Top
  <2>2. stack' = Cons(User("error"), r) BY <2>1 DEF Cons
  <2>3. Restacked BY <1>1, <1>3, <2>2, Zenon DEF Restacked
  <2>4. ssl'.in = ssl.in /\ ssl'.out = ssl.out /\ ssl'.flights = ssl.flights
    BY <1>0, <2>1 DEF Types, Engines, tls_conn_clear_error
  <2> QED BY <1>2, <1>5, <2>1, <2>3, <2>4, RestackedCalm, Zenon DEF Calm
<1>6. CASE Top("err", 1)
  <2>1. destroy(st, "error", r) /\ stack' = r /\ UNCHANGED <<net, io, calls>> BY <1>6 DEF err, Top
  <2>2. /\ \A v \in Sides : SameStream(st[v], st'[v])
        /\ SameEngine(ssl, ssl') /\ SameFlags(pair, pair') BY <1>0, <2>1, DestroyFields DEF Types
  <2>3. Restacked BY <1>1, <2>1, Zenon DEF Restacked
  <2> QED BY <1>2, <2>1, <2>2, <2>3, RestackedCalm DEF Calm, SameStream, SameEngine, SameFlags
<1> QED BY <1>4, <1>5, <1>6 DEF err

\* The listeners of 'secure'.
LEMMA secureCalm == ASSUME Control, secure PROVE Calm
<1> DEFINE h == Head(stack)
           r == Tail(stack)
<1>0. ~Idle /\ h.f = "verify" /\ Types /\ UNCHANGED <<st, ssl, pair, net, io, calls>> BY DEF secure, Top, Control
<1>1. r \in Seq(Frames) /\ stack # <<>> BY <1>0, TopFits DEF Idle
<1>2. Plain(h) BY <1>0, PlainFrames DEF Moving
<1>3. /\ User("error") \in Frames /\ Plain(User("error")) /\ Destroy \in Frames /\ Plain(Destroy)
      /\ User("secure") \in Frames /\ Plain(User("secure")) BY PlainMade DEF Handlers
<1>4. \/ stack' = <<User("secure")>> \o r \/ stack' = <<Destroy>> \o r \/ stack' = <<User("error"), Destroy>> \o r
  BY Zenon DEF secure
<1>5. \/ stack' = Cons(User("secure"), r) \/ stack' = Cons(Destroy, r) \/ stack' = Cons(User("error"), Cons(Destroy, r))
  BY <1>1, <1>3, <1>4, ConsPair, Zenon
<1>6. Restacked BY <1>1, <1>3, <1>5, Zenon DEF Restacked
<1> QED BY <1>0, <1>2, <1>6, RestackedCalm DEF Calm

\* The rest of write.
LEMMA writtenCalm == ASSUME Control, written PROVE Calm
<1>1. PICK w \in Sides :
        /\ ~Idle /\ Head(stack).f = "write" /\ st' \in [Sides -> Streams] /\ st'[Other(w)] = st[Other(w)]
        /\ st'[w].pend = st[w].pend /\ st'[w].bytes = st[w].bytes
        /\ net'.todo = net.todo /\ net'.queue = net.queue /\ net'.flights = net.flights
        /\ net'.over = net.over /\ stack' = Tail(stack) /\ UNCHANGED <<ssl, pair, io, calls>> BY WrittenFields
<1>2. Plain(Head(stack)) /\ Tail(stack) \in Seq(Frames) /\ stack # <<>> BY <1>1, TopFits, PlainFrames DEF Moving, Idle
<1>3. Restacked BY <1>1, <1>2, Zenon DEF Restacked
<1>4. \A v \in Sides : v = w \/ v = Other(w) BY DEF Sides, Other
<1> QED BY <1>1, <1>2, <1>3, <1>4, RestackedCalm DEF Calm

\* A handler returns.
LEMMA returnsCalm == ASSUME Control, handler_returns PROVE Calm
<1>1. ~Idle /\ Running /\ stack' = Tail(stack) /\ UNCHANGED <<st, ssl, pair, net, io, calls>> BY DEF handler_returns
<1>2. Tail(stack) \in Seq(Frames) /\ stack # <<>> BY <1>1, TopFits DEF Idle
<1>3. Restacked BY <1>1, <1>2, Zenon DEF Restacked
<1> QED BY <1>1, <1>3, RunningPlain, RestackedCalm DEF Calm

\* From the event loop or a handler of the program.
LEMMA outsideCalm ==
  ASSUME Control, \/ destroyed \/ program_resumes \/ socket_full \/ socket_drain \/ socket_destroyed \/ socket_close
                  \/ (socket_end /\ ~done("enc"))
  PROVE  Calm
<1>0. /\ Types /\ stack \in Seq(Frames) /\ "enc" \in Sides /\ "clr" \in Sides /\ Other("enc") = "clr"
      /\ Other("clr") = "enc" /\ \A v \in Sides : v \in {"enc", "clr"} BY TypeFacts DEF Control, Sides
<1>1. Running
  BY DEF destroyed, program_resumes, socket_full, socket_drain, socket_destroyed, socket_close, socket_end, Running, Top, Handlers
<1>2. Cycle(0) \in Frames /\ Plain(Cycle(0)) /\ User("close") \in Frames /\ Plain(User("close"))
  BY PlainMade DEF Handlers
<1>3. CASE destroyed
  <2>1. /\ stack = <<>> /\ pair' = [pair EXCEPT !.closed = TRUE] /\ stack' = <<User("close")>>
        /\ UNCHANGED <<st, ssl, io, calls>>
        /\ net'.todo = net.todo /\ net'.queue = net.queue /\ net'.flights = net.flights /\ net'.over = net.over
    <3>1. net' = Marked(net, TRUE) /\ net \in Nets BY <1>0, <1>3 DEF destroyed, Marked, Types
    <3>2. SameQueue(net, net') /\ net'.over = net.over BY <3>1, NetMarked
    <3> QED BY <1>3, <3>2 DEF destroyed, Idle, SameQueue
  <2>2. stack' = Cons(User("close"), stack) BY <1>2, <2>1 DEF Cons
  <2>3. Restacked BY <1>0, <1>2, <2>2 DEF Restacked
  <2>4. /\ pair'.failed = pair.failed /\ pair'.fault = pair.fault /\ pair'.queued = pair.queued
        /\ pair'.secure = pair.secure BY <1>0, <2>1 DEF Types, Flags
  <2> QED BY <1>1, <2>1, <2>3, <2>4, RunningPlain, RestackedCalm DEF Calm
<1>4. ASSUME NEW w \in Sides, resume(w) PROVE Calm
  <2>1. /\ st'[Other(w)] = st[Other(w)] /\ UNCHANGED <<ssl, pair, net, io>> /\ stack' = <<Cycle(0)>> \o stack
        /\ st'[w].pend = st[w].pend /\ st'[w].bytes = st[w].bytes BY <1>0, <1>4, PauseFields
  <2>2. stack' = Cons(Cycle(0), stack) BY <2>1 DEF Cons
  <2>3. Restacked BY <1>0, <1>2, <2>2 DEF Restacked
  <2>4. \A v \in Sides : v = w \/ v = Other(w) BY DEF Sides, Other
  <2> QED BY <1>1, <2>1, <2>3, <2>4, RunningPlain, RestackedCalm DEF Calm
<1>5. ASSUME NEW w \in Sides, pause(w) PROVE Calm
  <2>1. /\ st'[Other(w)] = st[Other(w)] /\ UNCHANGED <<ssl, pair, stack, net, io>>
        /\ st'[w].pend = st[w].pend /\ st'[w].bytes = st[w].bytes BY <1>0, <1>5, PauseFields
  <2>3. Restacked BY <1>0, <2>1 DEF Restacked
  <2>4. \A v \in Sides : v = w \/ v = Other(w) BY DEF Sides, Other
  <2> QED BY <1>1, <2>1, <2>3, <2>4, RunningPlain, RestackedCalm DEF Calm
<1>6. ASSUME stack' = stack PROVE Restacked BY <1>0, <1>6 DEF Restacked
<1>7. CASE socket_destroyed \/ socket_close
  <2>1. /\ destroy(st, "program", stack) \/ UNCHANGED <<st, ssl, pair>>
        /\ UNCHANGED <<stack, io, calls>>
        /\ net'.todo = net.todo /\ net'.queue = net.queue /\ net'.flights = net.flights /\ net'.over = net.over
    <3>1. (net' = Marked(net, TRUE) \/ net' = Shut(net, TRUE, TRUE)) /\ net \in Nets
      BY <1>0, <1>7 DEF socket_close, socket_destroyed, Marked, Shut, Types
    <3>2. SameQueue(net, net') /\ net'.over = net.over BY <3>1, NetMarked
    <3> QED BY <1>7, <3>2 DEF socket_destroyed, socket_close, SameQueue
  <2>2. CASE destroy(st, "program", stack)
    <3>1. /\ \A v \in Sides : SameStream(st[v], st'[v])
          /\ SameEngine(ssl, ssl') /\ SameFlags(pair, pair') BY <1>0, <2>2, DestroyFields DEF Types
    <3> QED BY <1>1, <1>6, <2>1, <3>1, RunningPlain, RestackedCalm DEF Calm, SameStream, SameEngine, SameFlags
  <2>3. CASE UNCHANGED <<st, ssl, pair>> BY <1>1, <1>6, <2>1, <2>3, RunningPlain, RestackedCalm DEF Calm
  <2> QED BY <2>1, <2>2, <2>3
<1>8. CASE socket_end /\ ~done("enc")
  <2>1. UNCHANGED <<st, ssl, pair, stack, io>> BY <1>8 DEF socket_end, done_late
  <2>2. net'.todo = net.todo /\ net'.queue = net.queue /\ net'.flights = net.flights /\ (net.over => net'.over)
    <3>1. ssl.server \in BOOLEAN /\ net \in Nets BY <1>0 DEF Types, Engines
    <3>2. net' = Ended(net, TRUE, TRUE, ssl.server) BY <1>8 DEF socket_end, Ended
    <3> QED BY <3>1, <3>2, NetEnded DEF SameQueue
  <2> QED BY <1>1, <1>6, <2>1, <2>2, RunningPlain, RestackedCalm DEF Calm
<1> QED BY <1>0, <1>3, <1>4, <1>5, <1>7, <1>8 DEF program_resumes, socket_full, socket_drain

\* 'drain' is emitted.
LEMMA drainCalm == ASSUME Control, NEW w \in Sides, emit_drain(w) PROVE Calm
<1>0. Types /\ stack \in Seq(Frames) BY DEF Control, Types
<1>1. /\ Idle /\ st' \in [Sides -> Streams] /\ st'[Other(w)] = st[Other(w)]
      /\ st'[w].pend = st[w].pend /\ st'[w].bytes = st[w].bytes
      /\ net'.todo = net.todo /\ net'.queue = net.queue /\ net'.flights = net.flights
      /\ net'.over = net.over /\ UNCHANGED <<ssl, pair, io, calls>>
      /\ stack' = IF w = "clr" THEN <<User("drain")>> ELSE <<>> BY <1>0, DrainFields
<1>2. User("drain") \in Frames /\ Plain(User("drain")) /\ stack = <<>> BY <1>1, PlainMade DEF Handlers, Idle
<1>3. stack' = Cons(User("drain"), stack) \/ stack' = stack BY <1>1, <1>2 DEF Cons
<1>4. Restacked BY <1>0, <1>2, <1>3, Zenon DEF Restacked
<1>5. \A v \in Sides : v = w \/ v = Other(w) BY DEF Sides, Other
<1> QED BY <1>1, <1>2, <1>4, <1>5, RestackedCalm DEF Calm

\* A step of cycle.
LEMMA cycleCalm == ASSUME Control, cycle PROVE Calm
<1> DEFINE h == Head(stack)
           r == Tail(stack)
<1>0. Types /\ pair \in Flags BY DEF Control, Types
<1>1. h.f = "cycle" /\ ~Idle /\ UNCHANGED <<st, ssl, net, io, calls>> BY CycleCases
<1>2. r \in Seq(Frames) /\ stack # <<>> /\ h \in Frames /\ h.n \in Nat BY <1>1, TopFits DEF Idle, Frames
<1>3. Plain(h) BY <1>1, PlainFrames DEF Moving
<1>4. \A x \in Frames : x.f = "cycle" => Plain(x) BY PlainFrames DEF Moving
<1>5. /\ pair'.failed = pair.failed /\ pair'.fault = pair.fault /\ pair'.queued = pair.queued
      /\ pair'.secure = pair.secure
  <2>1. pair' \in {pair, [pair EXCEPT !.writeCalled = FALSE]} BY CycleCases
  <2> QED BY <1>0, <2>1 DEF Flags
<1>6. Restacked
  <2>1. CASE stack' = r BY <1>2, <2>1, Zenon DEF Restacked
  <2>2. CASE stack' = <<[h EXCEPT !.pc = 1, !.b = pair.secure]>> \o r
    <3>1. PICK x : x = [h EXCEPT !.pc = 1, !.b = pair.secure] OBVIOUS
    <3>2. x \in Frames /\ x.f = "cycle"
      <4>1. 1 \in 0..5 /\ pair.secure \in BOOLEAN BY <1>0 DEF Flags
      <4> QED BY <1>1, <1>2, <3>1, <4>1, Zenon DEF Frames
    <3>3. stack' = Cons(x, r) BY <2>2, <3>1 DEF Cons
    <3> QED BY <1>2, <1>4, <3>2, <3>3, Zenon DEF Restacked
  <2>3. ASSUME NEW k \in 1..4, stack' = <<Frame(Stage[k][1], Stage[k][2], 0), [h EXCEPT !.pc = k + 1]>> \o r
        PROVE  Restacked
    <3>1. PICK y : y = [h EXCEPT !.pc = k + 1] BY Zenon
    <3>2. y \in Frames /\ y.f = "cycle"
      <4>1. k + 1 \in 0..5 OBVIOUS
      <4> QED BY <1>1, <1>2, <3>1, <4>1, Zenon DEF Frames
    <3>3. PICK x \in Frames : x = Frame(Stage[k][1], Stage[k][2], 0) /\ x.pc = 0 /\ x.data = <<>> BY StageFrames
    <3>4. Plain(x) /\ Plain(y) BY <1>4, <3>2, <3>3, PlainFrames
    <3>5. stack' = <<x, y>> \o r BY <2>3, <3>1, <3>3
    <3>6. stack' = Cons(x, Cons(y, r)) BY <1>2, <3>2, <3>5, ConsPair, Zenon
    <3> QED BY <1>2, <3>2, <3>4, <3>6, Zenon DEF Restacked
  <2>4. CASE stack' = <<Cycle(h.n + 1)>> \o r
    <3>1. h.n + 1 \in Nat BY <1>2
    <3>2. Cycle(h.n + 1) \in Frames /\ Plain(Cycle(h.n + 1)) BY <3>1, PlainMade
    <3>3. stack' = Cons(Cycle(h.n + 1), r) BY <2>4 DEF Cons
    <3> QED BY <1>2, <3>2, <3>3, Zenon DEF Restacked
  <2> QED BY <2>1, <2>2, <2>3, <2>4, CycleCases, Zenon
<1> QED BY <1>1, <1>3, <1>5, <1>6, RestackedCalm DEF Calm

\* _pull and _push that return, with or without _done.
LEMMA returnCalm ==
  ASSUME Control, ~Idle, Plain(Head(stack)), NEW w \in Sides,
         \/ RestStep(w, Tail(stack)) \/ DoneStep(w, Tail(stack))
         \/ stack' = Tail(stack) /\ UNCHANGED <<st, ssl, pair, net, io, calls>>
  PROVE  Calm
<1> DEFINE r == Tail(stack)
<1>1. r \in Seq(Frames) /\ stack # <<>> BY TopFits DEF Idle
<1>2. Err \in Frames /\ Plain(Err) BY PlainMade
<1>3. stack' = r \/ stack' = Cons(Err, r) BY DEF RestStep, DoneStep, Cons
<1>4. Restacked BY <1>1, <1>2, <1>3, Zenon DEF Restacked
<1>5. CASE stack' = Tail(stack) /\ UNCHANGED <<st, ssl, pair, net, io, calls>> BY <1>4, <1>5, RestackedCalm DEF Calm
<1>6. CASE Moves0 BY <1>4, <1>6, RestackedCalm DEF Calm, Moves0, SameEngine, SameFlags
<1> QED BY <1>5, <1>6 DEF RestStep, DoneStep

\* Of the calls of a handler only done moves data.
LEMMA program_callsCases ==
  ASSUME Control, program_calls
  PROVE  Calm \/ (Running /\ done("clr") /\ UNCHANGED net)
<1>0. Types /\ stack \in Seq(Frames) /\ "clr" \in Sides BY TypeFacts DEF Control
<1>1. Running BY DEF program_calls
<1>2. ASSUME pause("clr") PROVE Calm
  <2>1. /\ st'[Other("clr")] = st[Other("clr")] /\ UNCHANGED <<ssl, pair, stack, net, io>>
        /\ st'["clr"].pend = st["clr"].pend /\ st'["clr"].bytes = st["clr"].bytes BY <1>0, <1>2, PauseFields
  <2>3. Restacked BY <1>0, <2>1 DEF Restacked
  <2>4. \A v \in Sides : v = "clr" \/ v = Other("clr") BY DEF Sides, Other
  <2> QED BY <1>1, <2>1, <2>3, <2>4, RunningPlain, RestackedCalm DEF Calm
<1>3. ASSUME destroy(st, "program", stack), UNCHANGED <<stack, net, io>> PROVE Calm
  <2>2. /\ \A v \in Sides : SameStream(st[v], st'[v])
        /\ SameEngine(ssl, ssl') /\ SameFlags(pair, pair') BY <1>0, <1>3, DestroyFields DEF Types
  <2>3. Restacked BY <1>0, <1>3 DEF Restacked
  <2> QED BY <1>1, <1>3, <2>2, <2>3, RunningPlain, RestackedCalm DEF Calm, SameStream, SameEngine, SameFlags
<1>4. ASSUME CleartextStream_destroy PROVE Calm
  <2>1. /\ UNCHANGED <<st, ssl, pair, stack, io>>
        /\ net'.todo = net.todo /\ net'.queue = net.queue /\ net'.flights = net.flights /\ net'.over = net.over
    <3>1. net' = Marked(net, TRUE) /\ net \in Nets BY <1>0, <1>4 DEF CleartextStream_destroy, Marked, Types
    <3>2. SameQueue(net, net') /\ net'.over = net.over BY <3>1, NetMarked
    <3> QED BY <1>4, <3>2 DEF CleartextStream_destroy, SameQueue
  <2>2. Restacked BY <1>0, <2>1 DEF Restacked
  <2> QED BY <1>1, <2>1, <2>2, RunningPlain, RestackedCalm DEF Calm
<1> QED BY <1>1, <1>2, <1>3, <1>4 DEF program_calls, CryptoStream_destroy

\* Every step is one of these.
LEMMA StepCases ==
  ASSUME Control, PairNext
  PROVE  \/ Calm
         \/ start
         \/ _pull
         \/ _push
         \/ program_writes
         \/ Running /\ done("clr") /\ UNCHANGED net
         \/ peer_sends
         \/ socket_data
         \/ (socket_end /\ done("enc"))
BY errCalm, secureCalm, writtenCalm, returnsCalm, outsideCalm, drainCalm, cycleCalm, program_callsCases
   DEF PairNext, Internal

-----------------------------------------------------------------------------
\* Concatenation and the empty sequence, by name.
Join(a, b) == a \o b
Nil == <<>>

\* The elements of a concatenation.
LEMMA SetCat ==
  ASSUME NEW T, NEW a \in Seq(T), NEW b \in Seq(T)
  PROVE  ToSet(a \o b) = ToSet(a) \cup ToSet(b)
<1>1. /\ a \o b \in Seq(T) /\ Len(a \o b) = Len(a) + Len(b) /\ Len(a) \in Nat /\ Len(b) \in Nat
      /\ \A i \in 1..Len(a) : (a \o b)[i] = a[i]
      /\ \A i \in 1..Len(b) : (a \o b)[Len(a) + i] = b[i] BY CatPlaces
<1> DEFINE u == a \o b
<1>2. DOMAIN u = 1..(Len(a) + Len(b)) /\ DOMAIN a = 1..Len(a) /\ DOMAIN b = 1..Len(b) BY <1>1
<1> HIDE DEF u
<1>3. ASSUME NEW i \in DOMAIN u PROVE u[i] \in ToSet(a) \cup ToSet(b)
  <2>1. CASE i <= Len(a)
    <3>1. i \in 1..Len(a) /\ u[i] = a[i] BY <1>1, <1>2, <2>1 DEF u
    <3> QED BY <1>2, <3>1 DEF ToSet
  <2>2. CASE ~(i <= Len(a))
    <3>1. i - Len(a) \in 1..Len(b) /\ Len(a) + (i - Len(a)) = i BY <1>1, <1>2, <2>2
    <3>2. u[i] = b[i - Len(a)] BY <1>1, <3>1 DEF u
    <3> QED BY <1>2, <3>1, <3>2 DEF ToSet
  <2> QED BY <2>1, <2>2
<1>4. ASSUME NEW i \in DOMAIN a PROVE a[i] \in ToSet(u)
  <2>1. i \in DOMAIN u /\ u[i] = a[i] BY <1>1, <1>2 DEF u
  <2> QED BY <2>1 DEF ToSet
<1>5. ASSUME NEW i \in DOMAIN b PROVE b[i] \in ToSet(u)
  <2>1. Len(a) + i \in DOMAIN u /\ u[Len(a) + i] = b[i] BY <1>1, <1>2 DEF u
  <2> QED BY <2>1 DEF ToSet
<1>6. ToSet(u) = ToSet(a) \cup ToSet(b) BY <1>3, <1>4, <1>5 DEF ToSet
<1> QED BY <1>6 DEF u

\* Join, its type and length.
LEMMA JoinFacts ==
  ASSUME NEW T, NEW a \in Seq(T), NEW b \in Seq(T)
  PROVE  Join(a, b) \in Seq(T) /\ Len(Join(a, b)) = Len(a) + Len(b)
<1>1. a \o b \in Seq(T) /\ Len(a \o b) = Len(a) + Len(b) OBVIOUS
<1> QED BY <1>1, Zenon DEF Join

\* The elements of a join.
LEMMA JoinSet ==
  ASSUME NEW T, NEW a \in Seq(T), NEW b \in Seq(T)
  PROVE  \A z : z \in ToSet(Join(a, b)) <=> z \in ToSet(a) \/ z \in ToSet(b)
<1>1. ToSet(a \o b) = ToSet(a) \cup ToSet(b) BY SetCat
<1>2. ToSet(Join(a, b)) = ToSet(a) \cup ToSet(b) BY <1>1, Zenon DEF Join
<1> QED BY <1>2

\* Join is associative.
LEMMA JoinAssoc ==
  ASSUME NEW T, NEW a \in Seq(T), NEW b \in Seq(T), NEW c \in Seq(T)
  PROVE  Join(Join(a, b), c) = Join(a, Join(b, c))
BY CatAssoc DEF Join

\* Joining nothing.
LEMMA JoinNil ==
  ASSUME NEW T, NEW a \in Seq(T)
  PROVE  Join(a, Nil) = a /\ Join(Nil, a) = a
BY CatNone DEF Join, Nil

\* The empty sequence.
LEMMA NilFacts == (\A T : Nil \in Seq(T)) /\ Len(Nil) = 0 /\ ToSet(Nil) = {}
<1>1. Len(Nil) = 0 /\ \A T : Nil \in Seq(T) BY DEF Nil
<1>2. DOMAIN Nil = {} BY DEF Nil
<1> QED BY <1>1, <1>2 DEF ToSet

\* Lengths are natural numbers.
LEMMA LenType == ASSUME NEW T, NEW a \in Seq(T) PROVE Len(a) \in Nat
OBVIOUS

\* The five places where a chunk that was written may be: on the wire, with a
\* _push of the encrypted stream, in the engine, with a _pull of the cleartext
\* stream, in its buffer.
Five(a, b, c, d, e) == Join(a, Join(b, Join(c, Join(d, e))))

\* The same elements, and as many of them.
Shuffled(a, b) == Len(a) = Len(b) /\ ToSet(a) = ToSet(b)

\* Joining in the other order has the same elements.
LEMMA ShuffledSwap ==
  ASSUME NEW T, NEW a \in Seq(T), NEW b \in Seq(T)
  PROVE  Shuffled(Join(a, b), Join(b, a))
<1>1. Len(Join(a, b)) = Len(a) + Len(b) /\ Len(Join(b, a)) = Len(b) + Len(a) BY JoinFacts
<1>2. Len(a) \in Nat /\ Len(b) \in Nat BY LenType
<1>3. Len(Join(a, b)) = Len(Join(b, a)) BY <1>1, <1>2
<1>4. \A z : z \in ToSet(Join(a, b)) <=> z \in ToSet(a) \/ z \in ToSet(b) BY JoinSet
<1>5. \A z : z \in ToSet(Join(b, a)) <=> z \in ToSet(b) \/ z \in ToSet(a) BY JoinSet
<1>6. ToSet(Join(a, b)) = ToSet(Join(b, a)) BY <1>4, <1>5, Zenon
<1> QED BY <1>3, <1>6 DEF Shuffled

\* The same elements, joined with the same.
LEMMA ShuffledJoin ==
  ASSUME NEW T, NEW a \in Seq(T), NEW b \in Seq(T), NEW c \in Seq(T), Shuffled(b, c)
  PROVE  Shuffled(Join(a, b), Join(a, c)) /\ Shuffled(Join(b, a), Join(c, a))
<1>1. /\ Len(Join(a, b)) = Len(a) + Len(b) /\ Len(Join(a, c)) = Len(a) + Len(c)
      /\ Len(Join(b, a)) = Len(b) + Len(a) /\ Len(Join(c, a)) = Len(c) + Len(a) BY JoinFacts
<1>2. Len(Join(a, b)) = Len(Join(a, c)) /\ Len(Join(b, a)) = Len(Join(c, a)) /\ ToSet(b) = ToSet(c)
  BY <1>1 DEF Shuffled
<1>3. \A z : z \in ToSet(Join(a, b)) <=> z \in ToSet(a) \/ z \in ToSet(b) BY JoinSet
<1>4. \A z : z \in ToSet(Join(a, c)) <=> z \in ToSet(a) \/ z \in ToSet(c) BY JoinSet
<1>5. \A z : z \in ToSet(Join(b, a)) <=> z \in ToSet(b) \/ z \in ToSet(a) BY JoinSet
<1>6. \A z : z \in ToSet(Join(c, a)) <=> z \in ToSet(c) \/ z \in ToSet(a) BY JoinSet
<1>7. ToSet(Join(a, b)) = ToSet(Join(a, c)) BY <1>2, <1>3, <1>4, Zenon
<1>8. ToSet(Join(b, a)) = ToSet(Join(c, a)) BY <1>2, <1>5, <1>6, Zenon
<1> QED BY <1>2, <1>7, <1>8 DEF Shuffled

\* Five sequences, one after the other.
LEMMA FiveType ==
  ASSUME NEW T, NEW a \in Seq(T), NEW b \in Seq(T), NEW c \in Seq(T), NEW d \in Seq(T), NEW e \in Seq(T)
  PROVE  Five(a, b, c, d, e) \in Seq(T)
<1>1. Join(d, e) \in Seq(T) BY JoinFacts
<1>2. Join(c, Join(d, e)) \in Seq(T) BY <1>1, JoinFacts
<1>3. Join(b, Join(c, Join(d, e))) \in Seq(T) BY <1>2, JoinFacts
<1> QED BY <1>3, JoinFacts DEF Five

\* A chunk goes from the buffer to the engine or into the hands of _pull.
LEMMA FiveTake ==
  ASSUME NEW T, NEW a \in Seq(T), NEW b \in Seq(T), NEW c \in Seq(T), NEW e \in Seq(T), NEW t \in Seq(T)
  PROVE  /\ Five(a, b, Join(c, t), Nil, e) = Five(a, b, c, t, e)
         /\ Shuffled(Five(a, b, c, t, e), Five(a, b, c, Nil, Join(e, t)))
         /\ e = Nil => Five(a, b, c, t, e) = Five(a, b, c, Nil, Join(e, t))
<1>1. PICK et, te : et = Join(e, t) /\ te = Join(t, e) OBVIOUS
<1>2. et \in Seq(T) /\ te \in Seq(T) /\ Nil \in Seq(T) BY <1>1, JoinFacts, NilFacts
<1>3. Join(Nil, et) = et /\ Join(Nil, e) = e /\ Join(Join(c, t), e) = Join(c, te) BY <1>1, <1>2, JoinNil, JoinAssoc
<1>4. Five(a, b, Join(c, t), Nil, e) = Five(a, b, c, t, e) BY <1>1, <1>3 DEF Five
<1>5. PICK cet, cte : cet = Join(c, et) /\ cte = Join(c, te) OBVIOUS
<1>6. cet \in Seq(T) /\ cte \in Seq(T) BY <1>2, <1>5, JoinFacts, Zenon
<1>7. PICK bet, bte : bet = Join(b, cet) /\ bte = Join(b, cte) OBVIOUS
<1>8. bet \in Seq(T) /\ bte \in Seq(T) BY <1>6, <1>7, JoinFacts
<1>9. Shuffled(te, et) BY <1>1, ShuffledSwap
<1>10. Shuffled(cte, cet) BY <1>2, <1>5, <1>9, ShuffledJoin
<1>11. Shuffled(bte, bet) BY <1>6, <1>7, <1>10, ShuffledJoin
<1>12. Shuffled(Join(a, bte), Join(a, bet)) BY <1>8, <1>11, ShuffledJoin
<1>13. Shuffled(Five(a, b, c, t, e), Five(a, b, c, Nil, et)) BY <1>1, <1>3, <1>5, <1>7, <1>12 DEF Five
<1>14. ASSUME e = Nil PROVE et = te BY <1>1, <1>14, JoinNil
<1>15. e = Nil => Five(a, b, c, t, e) = Five(a, b, c, Nil, et) BY <1>1, <1>3, <1>14 DEF Five
<1> QED BY <1>1, <1>4, <1>13, <1>15

\* An entry is put back, the engine is read, what was read is sent.
LEMMA FiveMove ==
  ASSUME NEW T, NEW a \in Seq(T), NEW b \in Seq(T), NEW c \in Seq(T), NEW d \in Seq(T), NEW e \in Seq(T)
  PROVE  /\ Five(a, b, c, d, e) = Five(a, b, c, Nil, Join(d, e))
         /\ Five(a, Nil, c, d, e) = Five(a, c, Nil, d, e)
         /\ Five(a, b, c, d, e) = Five(Join(a, b), Nil, c, d, e)
<1>1. PICK u : u = Join(d, e) OBVIOUS
<1>2. u \in Seq(T) BY <1>1, JoinFacts
<1>3. PICK v : v = Join(c, u) OBVIOUS
<1>4. v \in Seq(T) BY <1>2, <1>3, JoinFacts
<1>5. Join(Nil, u) = u /\ Join(Nil, v) = v BY <1>2, <1>4, JoinNil
<1>6. Join(Join(a, b), v) = Join(a, Join(b, v)) BY <1>4, JoinAssoc
<1> QED BY <1>1, <1>3, <1>5, <1>6 DEF Five

\* A chunk is written.
LEMMA FiveWrite ==
  ASSUME NEW T, NEW a \in Seq(T), NEW b \in Seq(T), NEW c \in Seq(T), NEW d \in Seq(T), NEW e \in Seq(T),
         NEW t \in Seq(T)
  PROVE  Five(a, b, c, d, Join(e, t)) = Join(Five(a, b, c, d, e), t)
<1>1. PICK u : u = Join(d, e) OBVIOUS
<1>2. u \in Seq(T) BY <1>1, JoinFacts
<1>3. PICK v : v = Join(c, u) OBVIOUS
<1>4. v \in Seq(T) BY <1>2, <1>3, JoinFacts
<1>5. PICK x : x = Join(b, v) OBVIOUS
<1>6. x \in Seq(T) BY <1>4, <1>5, JoinFacts
<1>7. Join(d, Join(e, t)) = Join(u, t) BY <1>1, JoinAssoc
<1>8. Join(c, Join(u, t)) = Join(v, t) BY <1>2, <1>3, JoinAssoc
<1>9. Join(b, Join(v, t)) = Join(x, t) BY <1>4, <1>5, JoinAssoc
<1>10. Join(a, Join(x, t)) = Join(Join(a, x), t) BY <1>6, JoinAssoc
<1> QED BY <1>1, <1>3, <1>5, <1>7, <1>8, <1>9, <1>10 DEF Five

\* The chunks in a sequence.
LEMMA MineFacts ==
  /\ \A s \in Seq(Items) : Mine(s) \in Seq(Items)
  /\ \A s, t \in Seq(Items) : Mine(Join(s, t)) = Join(Mine(s), Mine(t))
  /\ \A s : Mine(s) = Those(s, Chunks)
  /\ Mine(Nil) = Nil
<1>0. \A s : Mine(s) = Those(s, Chunks) BY DEF Mine, Those
<1>1. \A s \in Seq(Items) : Those(s, Chunks) \in Seq(Items) BY ThoseType
<1>2. ASSUME NEW s \in Seq(Items), NEW t \in Seq(Items) PROVE Those(s \o t, Chunks) = Those(s, Chunks) \o Those(t, Chunks)
  BY ThoseCat
<1>3. Those(<<>>, Chunks) = <<>> BY ThoseNone
<1>4. \A s, t \in Seq(Items) : Mine(Join(s, t)) = Join(Mine(s), Mine(t))
  <2> TAKE s \in Seq(Items), t \in Seq(Items)
  <2>1. Those(s \o t, Chunks) = Those(s, Chunks) \o Those(t, Chunks) BY <1>2
  <2> QED BY <1>0, <2>1, Zenon DEF Join
<1> QED BY <1>0, <1>1, <1>3, <1>4 DEF Nil

\* The chunks in five sequences, one after the other.
LEMMA MineSum ==
  ASSUME NEW a \in Seq(Items), NEW b \in Seq(Items), NEW c \in Seq(Items), NEW d \in Seq(Items), NEW e \in Seq(Items)
  PROVE  Mine(a \o b \o c \o d \o e) = Five(Mine(a), Mine(b), Mine(c), Mine(d), Mine(e))
<1>1. PICK u : u = Join(d, e) OBVIOUS
<1>2. u \in Seq(Items) BY <1>1, JoinFacts
<1>3. PICK v : v = Join(c, u) OBVIOUS
<1>4. v \in Seq(Items) BY <1>2, <1>3, JoinFacts
<1>5. PICK x : x = Join(b, v) OBVIOUS
<1>6. x \in Seq(Items) BY <1>4, <1>5, JoinFacts
<1>7. Mine(Join(a, x)) = Five(Mine(a), Mine(b), Mine(c), Mine(d), Mine(e))
  <2>1. /\ Mine(u) = Join(Mine(d), Mine(e)) /\ Mine(v) = Join(Mine(c), Mine(u))
        /\ Mine(x) = Join(Mine(b), Mine(v)) /\ Mine(Join(a, x)) = Join(Mine(a), Mine(x))
    BY <1>1, <1>2, <1>3, <1>4, <1>5, <1>6, MineFacts
  <2> QED BY <2>1 DEF Five
<1>8. PICK ab : ab = Join(a, b) OBVIOUS
<1>9. PICK abc : abc = Join(ab, c) OBVIOUS
<1>10. ab \in Seq(Items) BY <1>8, JoinFacts
<1>11. abc \in Seq(Items) BY <1>9, <1>10, JoinFacts
<1>12. Join(Join(abc, d), e) = Join(abc, u) BY <1>1, <1>11, JoinAssoc
<1>13. Join(abc, u) = Join(ab, v) BY <1>2, <1>3, <1>9, <1>10, JoinAssoc
<1>14. Join(ab, v) = Join(a, x) BY <1>4, <1>5, <1>8, JoinAssoc
<1>15. a \o b \o c \o d \o e = Join(Join(Join(Join(a, b), c), d), e) BY Zenon DEF Join
<1>16. a \o b \o c \o d \o e = Join(a, x) BY <1>8, <1>9, <1>12, <1>13, <1>14, <1>15, Zenon
<1> QED BY <1>7, <1>16, Zenon

-----------------------------------------------------------------------------
\* Where the chunks are that the program wrote.
OutOf(wire, s, out, pend) ==
  Mine(wire \o Held(s, "push", "enc") \o out \o Held(s, "pull", "clr") \o FlattenSeq(pend))

SumOf(wire, s, out, pend) ==
  Five(Mine(wire), Mine(Held(s, "push", "enc")), Mine(out), Mine(Held(s, "pull", "clr")), Mine(FlattenSeq(pend)))

\* What a stack has in its hands are items.
LEMMA HeldType == ASSUME NEW s \in Seq(Frames), NEW f, NEW w PROVE Held(s, f, w) \in Seq(Items)
<1> DEFINE h == [x \in Frames |-> Hand(x, f, w)]
<1>1. Held(s, f, w) = Gather(s, h) /\ h \in [Frames -> Seq(Items)] BY HeldGather, Zenon
<1> HIDE DEF h
<1> QED BY <1>1, GatherType

\* What is on its way out, as a sum of its five places.
LEMMA OutSum ==
  ASSUME NEW wire \in Seq(Items), NEW s \in Seq(Frames), NEW out \in Seq(Items), NEW pend \in Seq(Seq(Items))
  PROVE  /\ OutOf(wire, s, out, pend) = SumOf(wire, s, out, pend)
         /\ Mine(wire) \in Seq(Items) /\ Mine(Held(s, "push", "enc")) \in Seq(Items) /\ Mine(out) \in Seq(Items)
         /\ Mine(Held(s, "pull", "clr")) \in Seq(Items) /\ Mine(FlattenSeq(pend)) \in Seq(Items)
<1>1. Held(s, "push", "enc") \in Seq(Items) /\ Held(s, "pull", "clr") \in Seq(Items) BY HeldType
<1>2. FlattenSeq(pend) \in Seq(Items) BY FlatType
<1>3. OutOf(wire, s, out, pend) = SumOf(wire, s, out, pend)
  <2>1. PICK p, q, m : p = Held(s, "push", "enc") /\ q = Held(s, "pull", "clr") /\ m = FlattenSeq(pend) OBVIOUS
  <2>2. p \in Seq(Items) /\ q \in Seq(Items) /\ m \in Seq(Items) BY <1>1, <1>2, <2>1
  <2>3. Mine(wire \o p \o out \o q \o m) = Five(Mine(wire), Mine(p), Mine(out), Mine(q), Mine(m)) BY <2>2, MineSum
  <2> QED BY <2>1, <2>3, Zenon DEF OutOf, SumOf
<1> QED BY <1>1, <1>2, <1>3, MineFacts

\* The same before and after a step.
LEMMA OutBoth ==
  ASSUME Types, Types'
  PROVE  /\ Outgoing = SumOf(io.wire, stack, ssl.out, st["clr"].pend)
         /\ Outgoing' = SumOf(io'.wire, stack', ssl'.out, st'["clr"].pend)
<1>1. io.wire \in Seq(Items) /\ ssl.out \in Seq(Items) /\ stack \in Seq(Frames) /\ st["clr"].pend \in Seq(Seq(Items))
  BY TypeFacts
<1>2. io'.wire \in Seq(Items) /\ ssl'.out \in Seq(Items) /\ stack' \in Seq(Frames) /\ st'["clr"].pend \in Seq(Seq(Items))
  BY DEF Types, Ios, Engines, Streams, Sides
<1>3. Outgoing = OutOf(io.wire, stack, ssl.out, st["clr"].pend) BY DEF Outgoing, OutOf
<1>4. Outgoing' = OutOf(io'.wire, stack', ssl'.out, st'["clr"].pend) BY DEF Outgoing, OutOf
<1> QED BY <1>1, <1>2, <1>3, <1>4, OutSum, Zenon

\* What the program wrote is on its way, once, and in order unless it wrote or
\* ended the stream while something was waiting.
Short ==
  ~pair.queued => /\ Len(st["clr"].pend) <= 1
                  /\ stack # <<>> /\ Refusing(Head(stack)) => st["clr"].pend = <<>>

Sends ==
  /\ Short
  /\ ~pair.failed /\ ~pair.fault => Shuffled(Outgoing, io.written) /\ (~pair.queued => Outgoing = io.written)

\* A step after which the same chunks are on their way out.
LEMMA SendsAfter ==
  ASSUME Sends, Short', io'.written = io.written, pair.queued => pair'.queued,
         pair.failed => pair'.failed, pair.fault => pair'.fault,
         ~pair'.failed /\ ~pair'.fault => Shuffled(Outgoing', Outgoing) /\ (~pair'.queued => Outgoing' = Outgoing)
  PROVE  Sends'
BY DEF Sends, Shuffled

\* The chunks of a buffer with an entry more, at either end.
LEMMA FlatGrown ==
  ASSUME NEW q \in Seq(Seq(Items)), NEW e \in Seq(Items)
  PROVE  /\ FlattenSeq(Grown(q, e)) = Join(FlattenSeq(q), e)
         /\ Mine(FlattenSeq(Grown(q, e))) = Join(Mine(FlattenSeq(q)), Mine(e))
         /\ FlattenSeq(q) \in Seq(Items)
<1>1. FlattenSeq(Append(q, e)) = FlattenSeq(q) \o e BY FlatAppend
<1>2. FlattenSeq(Grown(q, e)) = Join(FlattenSeq(q), e) BY <1>1, Zenon DEF Grown, Join
<1>3. FlattenSeq(q) \in Seq(Items) BY FlatType
<1> QED BY <1>2, <1>3, MineFacts

\* The chunks of a buffer with an entry put back.
LEMMA FlatBack ==
  ASSUME NEW q \in Seq(Seq(Items)), NEW e \in Seq(Items)
  PROVE  Mine(FlattenSeq(<<e>> \o q)) = Join(Mine(e), Mine(FlattenSeq(q)))
<1>1. <<e>> \in Seq(Seq(Items)) OBVIOUS
<1>2. PICK u \in Seq(Seq(Items)) : u = <<e>> BY <1>1, Zenon
<1>3. FlattenSeq(u \o q) = FlattenSeq(u) \o FlattenSeq(q) BY <1>2, FlatCat, Zenon
<1>4. FlattenSeq(u) = e BY <1>2, FlatOne
<1>5. FlattenSeq(u \o q) = Join(e, FlattenSeq(q)) BY <1>3, <1>4, Zenon DEF Join
<1>6. FlattenSeq(q) \in Seq(Items) BY FlatType
<1>7. Mine(Join(e, FlattenSeq(q))) = Join(Mine(e), Mine(FlattenSeq(q))) BY <1>6, MineFacts
<1> QED BY <1>2, <1>5, <1>7

\* What is held by a stack with a frame on top.
LEMMA MineHeld ==
  ASSUME NEW s \in Seq(Frames), NEW x \in Frames, NEW f, NEW w
  PROVE  /\ Mine(Held(Cons(x, s), f, w)) = Join(Mine(Hand(x, f, w)), Mine(Held(s, f, w)))
         /\ Mine(Held(s, f, w)) \in Seq(Items) /\ Mine(Hand(x, f, w)) \in Seq(Items)
<1>1. Held(Cons(x, s), f, w) = Join(Hand(x, f, w), Held(s, f, w))
      /\ Held(s, f, w) \in Seq(Items) /\ Hand(x, f, w) \in Seq(Items) BY HeldPush DEF Join
<1> QED BY <1>1, MineFacts

\* Nobody else is in a method that is locked.
LEMMA HeldAlone ==
  ASSUME Control, ~Idle, Exclusive(Head(stack))
  PROVE  Held(Tail(stack), Head(stack).f, Head(stack).w) = Nil
<1> DEFINE r == Tail(stack)
           f == Head(stack).f
           w == Head(stack).w
<1>1. r \in Seq(Frames) /\ ~OnStack(r, f, w) BY TopFits
<1>2. \A i \in DOMAIN r : Hand(r[i], f, w) = <<>> BY <1>1 DEF OnStack, Hand, InHand
<1> HIDE DEF r, f, w
<1>3. Held(r, f, w) = <<>> BY <1>1, <1>2, HeldNobody
<1> QED BY <1>3 DEF r, f, w, Nil

\* A step that leaves the parts of the sum alone.
LEMMA SendsSame ==
  ASSUME Control, Control', Sends, io'.written = io.written,
         pair'.queued = pair.queued, pair'.failed = pair.failed, pair'.fault = pair.fault,
         SameHeld(stack, stack'), Mine(ssl'.out) = Mine(ssl.out), io'.wire = io.wire,
         Mine(FlattenSeq(st'["clr"].pend)) = Mine(FlattenSeq(st["clr"].pend)),
         Len(st'["clr"].pend) <= Len(st["clr"].pend),
         stack' # <<>> /\ Refusing(Head(stack')) => st'["clr"].pend = <<>>
  PROVE  Sends'
<1>0. Types /\ Types' BY DEF Control
<1>1. Held(stack', "push", "enc") = Held(stack, "push", "enc") /\ Held(stack', "pull", "clr") = Held(stack, "pull", "clr")
  BY DEF SameHeld, Sides
<1>2. Outgoing' = Outgoing BY <1>0, <1>1, OutBoth DEF SumOf
<1>3. Len(st["clr"].pend) \in Nat /\ Len(st'["clr"].pend) \in Nat
  <2>1. st["clr"].pend \in Seq(Seq(Items)) /\ st'["clr"].pend \in Seq(Seq(Items))
    BY <1>0, TypeFacts DEF Types, Streams, Sides
  <2> QED BY <2>1, LenType
<1>4. Short' BY <1>3 DEF Sends, Short
<1> QED BY <1>2, <1>4, SendsAfter DEF Shuffled

\* A calm step.
LEMMA CalmSends == ASSUME Control, Control', Sends, Calm PROVE Sends'
<1>1. st'["clr"].pend = st["clr"].pend BY DEF Calm, Sides
<1>2. Len(st["clr"].pend) \in Nat
  <2>1. st["clr"].pend \in Seq(Seq(Items)) BY TypeFacts DEF Control
  <2> QED BY <2>1, LenType
<1> QED BY <1>1, <1>2, SendsSame DEF Calm, Alike

\* The timer starts the pair.
LEMMA startSends == ASSUME Control, Control', Sends, start PROVE Sends'
<1>0. Types /\ ssl \in Engines /\ pair \in Flags BY DEF Control, Types
<1>1. /\ stack = <<>> /\ stack' = <<Cycle(0)>> /\ UNCHANGED <<st, net, io, calls>>
      /\ pair' = [pair EXCEPT !.started = TRUE] /\ ssl' = (IF ssl.up THEN tls_conn_start(ssl) ELSE ssl)
  BY DEF start, Idle
<1>2. pair'.queued = pair.queued /\ pair'.failed = pair.failed /\ pair'.fault = pair.fault BY <1>0, <1>1 DEF Flags
<1>3. Mine(ssl'.out) = Mine(ssl.out) BY <1>0, <1>1, StartFields, MineFacts DEF Shakes
<1>4. Cycle(0) \in Frames /\ Plain(Cycle(0)) /\ stack \in Seq(Frames) BY <1>1, PlainMade
<1>5. stack' = Cons(Cycle(0), stack) BY <1>1, <1>4 DEF Cons
<1>6. SameHeld(stack, stack') /\ Head(stack') = Cycle(0) BY <1>4, <1>5, HeldTop, ConsTop, Zenon DEF Plain
<1>7. Len(st["clr"].pend) \in Nat
  <2>1. st["clr"].pend \in Seq(Seq(Items)) BY <1>0, TypeFacts
  <2> QED BY <2>1, LenType
<1>8. ~Refusing(Head(stack')) BY <1>4, <1>6, PlainNotRefusing
<1> QED BY <1>1, <1>2, <1>3, <1>6, <1>7, <1>8, SendsSame

\* What the peer and the socket do.
LEMMA outsideSends ==
  ASSUME Control, Control', Sends, peer_sends \/ socket_data \/ (socket_end /\ done("enc"))
  PROVE  Sends'
<1>0. Types /\ "enc" \in Sides /\ Other("enc") = "clr" /\ net.queue \in Seq(Items) /\ stack \in Seq(Frames)
  BY TypeFacts DEF Control
<1>1. Cycle(0) \in Frames /\ Plain(Cycle(0)) /\ Frame("write", "enc", 0) \in Frames /\ Plain(Frame("write", "enc", 0))
  BY <1>0, PlainMade DEF Methods
<1>2. stack = <<>> /\ io' = io /\ ssl' = ssl BY DEF peer_sends, socket_data, socket_end, done, Idle
<1>3. /\ st'["clr"].pend = st["clr"].pend /\ pair'.queued = pair.queued /\ pair'.failed = pair.failed
      /\ pair'.fault = pair.fault
  <2>1. CASE peer_sends BY <2>1 DEF peer_sends
  <2>2. CASE socket_data
    <3>1. write("enc", net.queue) BY <2>2 DEF socket_data
    <3>2. pair.queued \in BOOLEAN /\ pair'.queued \in BOOLEAN BY DEF Control, Types, Flags
    <3>3. st'["clr"] = st["clr"] /\ (pair'.queued <=> pair.queued) /\ pair'.failed = pair.failed /\ pair'.fault = pair.fault
      BY <1>0, <3>1, WriteFields
    <3> QED BY <3>2, <3>3
  <2>3. CASE socket_end /\ done("enc")
    <3>1. done("enc") BY <2>3
    <3>2. pair.queued \in BOOLEAN /\ pair'.queued \in BOOLEAN BY DEF Control, Types, Flags
    <3>3. st'["clr"] = st["clr"] /\ (pair'.queued <=> pair.queued) /\ pair'.failed = pair.failed /\ pair'.fault = pair.fault
      BY <1>0, <3>1, DoneFields
    <3> QED BY <3>2, <3>3
  <2> QED BY <2>1, <2>2, <2>3
<1>4. \/ stack' = stack \/ stack' = <<Cycle(0)>> \o stack \/ stack' = <<Cycle(0), Frame("write", "enc", 0)>> \o stack
  BY DEF peer_sends, socket_data, socket_end, write, done
<1>5. \/ stack' = stack \/ stack' = Cons(Cycle(0), stack) \/ stack' = Cons(Cycle(0), Cons(Frame("write", "enc", 0), stack))
  BY <1>0, <1>1, <1>4, ConsPair, Zenon
<1>6. Restacked BY <1>0, <1>1, <1>5 DEF Restacked
<1>7. SameHeld(stack, stack') /\ (stack' # <<>> => ~Refusing(Head(stack'))) BY <1>2, <1>6, RestackedCalm DEF Alike
<1>8. Len(st["clr"].pend) \in Nat
  <2>1. st["clr"].pend \in Seq(Seq(Items)) BY <1>0, TypeFacts
  <2> QED BY <2>1, LenType
<1> QED BY <1>2, <1>3, <1>7, <1>8, SendsSame

\* A chunk is written.
LEMMA ShuffledType == ASSUME NEW T, NEW a \in Seq(T), NEW b \in Seq(T), Shuffled(a, b), NEW t \in Seq(T)
  PROVE Shuffled(Join(a, t), Join(b, t))
BY ShuffledJoin

\* A buffer with an entry more.
LEMMA GrownLen ==
  ASSUME NEW q \in Seq(Seq(Items)), NEW e \in Seq(Items)
  PROVE  /\ Len(Grown(q, e)) = Len(q) + 1 /\ Len(q) \in Nat /\ Grown(q, e) # <<>>
         /\ (Len(q) = 0 => q = Nil) /\ (q = <<>> => Len(q) = 0)
<1>1. PICK V : V = Seq(Items) OBVIOUS
<1>2. q \in Seq(V) /\ e \in V BY <1>1
<1>3. Len(q) \in Nat /\ (Len(q) = 0 => q = <<>>) /\ (q = <<>> => Len(q) = 0) BY <1>2
<1>4. Len(Append(q, e)) = Len(q) + 1 /\ Append(q, e) # <<>> BY <1>2, AppendProperties
<1> QED BY <1>3, <1>4 DEF Grown, Nil

\* The program writes a chunk.
LEMMA program_writesSends == ASSUME Control, Control', Sends, program_writes PROVE Sends'
<1>0. Types /\ Types' /\ "clr" \in Sides /\ stack \in Seq(Frames) /\ Running
  BY TypeFacts DEF Control, program_writes
<1>1. PICK c \in Chunks : write("clr", <<c>>) /\ io' = [io EXCEPT !.written = Append(@, c)] /\ ssl' = ssl
  BY Zenon DEF program_writes
<1>2. PICK t : t = <<c>> BY Zenon
<1>3. t \in Seq(Items) /\ Mine(t) = t
  <2>1. c \in Items BY OwnItems
  <2>2. Those(<<c>>, Chunks) = <<c>> BY <2>1, ThoseOne
  <2>3. <<c>> \in Seq(Items) BY <2>1
  <2> QED BY <1>2, <2>2, <2>3, MineFacts
<1>4. /\ st'["clr"].pend = Grown(st["clr"].pend, t)
      /\ pair'.queued <=> pair.queued \/ st["clr"].pend # <<>> \/ ~st["clr"].writable
      /\ pair'.failed = pair.failed /\ pair'.fault = pair.fault
  <2>1. write("clr", t) BY <1>1, <1>2
  <2> QED BY <1>0, <1>3, <2>1, WriteFields
<1>5. Cycle(0) \in Frames /\ Plain(Cycle(0)) /\ Frame("write", "clr", 0) \in Frames /\ Plain(Frame("write", "clr", 0))
  BY <1>0, PlainMade DEF Methods
<1>6. stack' = <<Cycle(0), Frame("write", "clr", 0)>> \o stack BY <1>1 DEF write
<1>7. stack' = Cons(Cycle(0), Cons(Frame("write", "clr", 0), stack)) BY <1>0, <1>5, <1>6, ConsPair, Zenon
<1>8. Restacked BY <1>0, <1>5, <1>7 DEF Restacked
<1>9. SameHeld(stack, stack') /\ (stack' # <<>> => ~Refusing(Head(stack')))
  BY <1>0, <1>8, RunningPlain, RestackedCalm DEF Alike
<1>10. io'.written = Join(io.written, t) /\ io'.wire = io.wire /\ io.written \in Seq(Items) /\ io.wire \in Seq(Items)
  <2>1. io \in Ios /\ io.written \in Seq(Chunks) /\ io.wire \in Seq(Items) BY <1>0, TypeFacts DEF TypesBut
  <2>2. io'.written = Append(io.written, c) /\ io'.wire = io.wire BY <1>1, <2>1 DEF Ios
  <2>3. Append(io.written, c) = io.written \o <<c>> BY <2>1
  <2>4. io.written \in Seq(Items) BY <2>1, OwnItems
  <2> QED BY <1>2, <2>1, <2>2, <2>3, <2>4 DEF Join
<1>11. PICK q : q = st["clr"].pend OBVIOUS
<1>12. q \in Seq(Seq(Items)) /\ ssl.out \in Seq(Items) BY <1>0, <1>11, TypeFacts
<1>13. Outgoing' = Join(Outgoing, t) /\ Outgoing \in Seq(Items)
  <2>1. PICK a, b, o, d, e : /\ a = Mine(io.wire) /\ b = Mine(Held(stack, "push", "enc")) /\ o = Mine(ssl.out)
                             /\ d = Mine(Held(stack, "pull", "clr")) /\ e = Mine(FlattenSeq(q)) OBVIOUS
  <2>2. a \in Seq(Items) /\ b \in Seq(Items) /\ o \in Seq(Items) /\ d \in Seq(Items) /\ e \in Seq(Items)
    BY <1>0, <1>10, <1>12, <2>1, OutSum
  <2>3. Mine(FlattenSeq(Grown(q, t))) = Join(e, t) BY <1>3, <1>12, <2>1, FlatGrown
  <2>4. Held(stack', "push", "enc") = Held(stack, "push", "enc") /\ Held(stack', "pull", "clr") = Held(stack, "pull", "clr")
    BY <1>9 DEF SameHeld, Sides
  <2>5. Outgoing = Five(a, b, o, d, e) BY <1>0, <1>11, <2>1, OutBoth DEF SumOf
  <2>6. Outgoing' = Five(a, b, o, d, Join(e, t))
    BY <1>0, <1>1, <1>4, <1>10, <1>11, <2>1, <2>3, <2>4, OutBoth DEF SumOf
  <2>7. Five(a, b, o, d, Join(e, t)) = Join(Five(a, b, o, d, e), t) BY <1>3, <2>2, FiveWrite
  <2> QED BY <2>2, <2>5, <2>6, <2>7, FiveType
<1>14. Short'
  <2>1. Len(Grown(q, t)) = Len(q) + 1 /\ (q = <<>> => Len(q) = 0) BY <1>3, <1>12, GrownLen
  <2> QED BY <1>4, <1>9, <1>11, <2>1 DEF Short
<1>15. ~pair'.failed /\ ~pair'.fault => Shuffled(Outgoing', io'.written)
  <2>1. ~pair'.failed /\ ~pair'.fault => Shuffled(Outgoing, io.written) BY <1>4 DEF Sends
  <2> QED BY <1>3, <1>10, <1>13, <2>1, ShuffledType
<1>16. ~pair'.failed /\ ~pair'.fault /\ ~pair'.queued => Outgoing' = io'.written BY <1>4, <1>10, <1>13 DEF Sends
<1> QED BY <1>14, <1>15, <1>16 DEF Sends

\* The program ends the stream.
LEMMA doneSends == ASSUME Control, Control', Sends, Running, done("clr") PROVE Sends'
<1>0. Types /\ Types' /\ "clr" \in Sides /\ stack \in Seq(Frames) BY TypeFacts DEF Control
<1>1. /\ st'["clr"].pend = Grown(st["clr"].pend, <<>>)
      /\ pair'.queued <=> pair.queued \/ st["clr"].pend # <<>>
      /\ pair'.failed = pair.failed /\ pair'.fault = pair.fault
      /\ stack' = <<Cycle(0)>> \o stack /\ ssl' = ssl /\ io' = io BY <1>0, DoneFields
<1>2. Cycle(0) \in Frames /\ Plain(Cycle(0)) BY PlainMade
<1>3. stack' = Cons(Cycle(0), stack) BY <1>1 DEF Cons
<1>4. Restacked BY <1>0, <1>2, <1>3 DEF Restacked
<1>5. SameHeld(stack, stack') /\ (stack' # <<>> => ~Refusing(Head(stack')))
  BY <1>0, <1>4, RunningPlain, RestackedCalm DEF Alike
<1>6. PICK q : q = st["clr"].pend OBVIOUS
<1>7. q \in Seq(Seq(Items)) /\ Nil \in Seq(Items) BY <1>0, <1>6, TypeFacts, NilFacts
<1>8. Mine(FlattenSeq(st'["clr"].pend)) = Mine(FlattenSeq(st["clr"].pend))
  <2>1. Mine(FlattenSeq(Grown(q, Nil))) = Join(Mine(FlattenSeq(q)), Mine(Nil)) /\ FlattenSeq(q) \in Seq(Items)
    BY <1>7, FlatGrown
  <2>2. Mine(Nil) = Nil /\ Mine(FlattenSeq(q)) \in Seq(Items) BY <2>1, MineFacts
  <2>3. Join(Mine(FlattenSeq(q)), Nil) = Mine(FlattenSeq(q)) BY <2>2, JoinNil
  <2> QED BY <1>1, <1>6, <2>1, <2>2, <2>3 DEF Nil
<1>9. Outgoing' = Outgoing
  <2>4. Held(stack', "push", "enc") = Held(stack, "push", "enc") /\ Held(stack', "pull", "clr") = Held(stack, "pull", "clr")
    BY <1>5 DEF SameHeld, Sides
  <2> QED BY <1>0, <1>1, <1>8, <2>4, OutBoth DEF SumOf
<1>10. Short'
  <2>1. Len(Grown(q, Nil)) = Len(q) + 1 /\ (q = <<>> => Len(q) = 0) BY <1>7, GrownLen
  <2> QED BY <1>1, <1>5, <1>6, <2>1 DEF Short, Nil
<1> QED BY <1>1, <1>9, <1>10, SendsAfter DEF Shuffled

-----------------------------------------------------------------------------
\* After a call of the engine the frame x goes on, under the handler of
\* 'secure' if the handshake is over.
LEMMA WentHeld ==
  ASSUME NEW x \in Frames, NEW r \in Seq(Frames), Quiet(x, r) \/ Ends(x, r)
  PROVE  /\ Alike(Cons(x, r), stack') /\ stack' # <<>>
         /\ Refusing(Head(stack')) => Refusing(x)
<1> DEFINE v == Frame("verify", "clr", 0)
<1>1. v \in Frames /\ Plain(v) BY PlainMade DEF Methods, Sides
<1>2. stack' = Cons(x, r) \/ stack' = Cons(v, Cons(x, r)) BY Zenon DEF Quiet, Ends, Cons
<1> HIDE DEF v
<1>3. Cons(x, r) \in Seq(Frames) /\ Head(Cons(x, r)) = x /\ Cons(x, r) # <<>> BY ConsTop
<1>4. Head(Cons(v, Cons(x, r))) = v /\ Cons(v, Cons(x, r)) # <<>> /\ ~Refusing(v)
  BY <1>1, <1>3, ConsTop, PlainNotRefusing
<1>5. Alike(Cons(x, r), Cons(v, Cons(x, r))) BY <1>1, <1>3, AlikeTop
<1> QED BY <1>2, <1>3, <1>4, <1>5, AlikeSame

\* It fails: nothing on the stack holds more than before.
LEMMA FailsTop ==
  ASSUME NEW r \in Seq(Frames), Fails(r)
  PROVE  Alike(r, stack') /\ stack' # <<>> /\ ~Refusing(Head(stack'))
<1>1. Err \in Frames /\ Plain(Err) BY PlainMade
<1>2. stack' = Cons(Err, r) BY DEF Fails, Cons
<1> QED BY <1>1, <1>2, ConsTop, PlainNotRefusing, AlikeTop, Zenon

\* What the frames hold that change places on top of the stack.
LEMMA HeldTwo ==
  ASSUME Control, ~Idle, NEW x \in Frames, NEW s \in Seq(Frames), Alike(Cons(x, Tail(stack)), s)
  PROVE  \A f \in {"pull", "push"}, w \in Sides :
           /\ Mine(Held(s, f, w)) = Join(Mine(Hand(x, f, w)), Mine(Held(Tail(stack), f, w)))
           /\ Mine(Held(stack, f, w)) = Join(Mine(Hand(Head(stack), f, w)), Mine(Held(Tail(stack), f, w)))
           /\ Mine(Held(Tail(stack), f, w)) \in Seq(Items) /\ Mine(Hand(x, f, w)) \in Seq(Items)
           /\ Mine(Hand(Head(stack), f, w)) \in Seq(Items)
<1>1. Head(stack) \in Frames /\ Tail(stack) \in Seq(Frames) /\ stack = Cons(Head(stack), Tail(stack))
  BY TopFits DEF Cons
<1> SUFFICES ASSUME NEW f \in {"pull", "push"}, NEW w \in Sides
    PROVE  /\ Mine(Held(s, f, w)) = Join(Mine(Hand(x, f, w)), Mine(Held(Tail(stack), f, w)))
           /\ Mine(Held(stack, f, w)) = Join(Mine(Hand(Head(stack), f, w)), Mine(Held(Tail(stack), f, w)))
           /\ Mine(Held(Tail(stack), f, w)) \in Seq(Items) /\ Mine(Hand(x, f, w)) \in Seq(Items)
           /\ Mine(Hand(Head(stack), f, w)) \in Seq(Items) OBVIOUS
<1>2. Held(s, f, w) = Held(Cons(x, Tail(stack)), f, w) BY DEF Alike, SameHeld
<1>3. /\ Mine(Held(Cons(x, Tail(stack)), f, w)) = Join(Mine(Hand(x, f, w)), Mine(Held(Tail(stack), f, w)))
      /\ Mine(Held(Tail(stack), f, w)) \in Seq(Items) /\ Mine(Hand(x, f, w)) \in Seq(Items) BY <1>1, MineHeld, Zenon
<1>4. PICK y \in Frames, r \in Seq(Frames) : y = Head(stack) /\ r = Tail(stack) /\ stack = Cons(y, r) BY <1>1, Zenon
<1>5. Mine(Held(Cons(y, r), f, w)) = Join(Mine(Hand(y, f, w)), Mine(Held(r, f, w))) /\ Mine(Hand(y, f, w)) \in Seq(Items)
  BY MineHeld
<1> QED BY <1>2, <1>3, <1>4, <1>5

\* The newest entry is offered to the engine.
LEMMA offerSends ==
  ASSUME Control, Control', Sends, ~Idle, Head(stack).f = "pull", Head(stack).pc = 0,
         NEW w \in Sides, w = Head(stack).w, NEW x \in Frames, NEW q \in Seq(Seq(Items)), PullStep(w, x, q)
  PROVE  Sends'
<1> DEFINE h == Head(stack)
           r == Tail(stack)
<1>0. Types /\ Types' /\ h \in Frames /\ r \in Seq(Frames) BY TopFits DEF Control
<1>1. /\ x.f = "pull" /\ x.w = w /\ x.pc = 2 /\ x.data # <<>> /\ st[w].pend = Grown(q, x.data) /\ st'[w].pend = q
      /\ st'[Other(w)] = st[Other(w)] /\ Went(x, r) /\ ssl' \in Engines
      /\ \/ w = "enc" /\ x.b /\ ssl'.out = ssl.out
         \/ w = "clr" /\ GoesIn(ssl, ssl', x.data, x.b) BY Zenon DEF PullStep, GoesInBio
<1>2. /\ pair'.fault = pair.fault /\ pair'.queued = pair.queued /\ (pair.failed => pair'.failed)
      /\ io'.written = io.written /\ io'.wire = io.wire
      /\ Fails(r) \/ Quiet(x, r) \/ Ends(x, r) BY <1>0, <1>1, WentFields, Zenon
<1>3. x.data \in Seq(Items) BY DEF Frames
<1>4. Len(st["clr"].pend) \in Nat /\ Len(q) \in Nat /\ Len(Grown(q, x.data)) = Len(q) + 1 /\ (Len(q) = 0 => q = Nil)
  <2>1. st["clr"].pend \in Seq(Seq(Items)) BY <1>0, TypeFacts, Zenon
  <2> QED BY <1>3, <2>1, LenType, GrownLen
<1>5. w = "clr" \/ (w = "enc" /\ Other(w) = "clr") BY DEF Sides, Other
<1>6. /\ Len(st'["clr"].pend) <= Len(st["clr"].pend) /\ (w = "clr" /\ ~pair.queued => q = Nil)
      /\ (w = "clr" /\ ~pair.queued => st'["clr"].pend = <<>>) BY <1>1, <1>4, <1>5 DEF Sends, Short, Nil
<1>7. Refusing(x) => w = "clr" BY <1>1 DEF Refusing
<1>8. Short'
  <2>1. stack' # <<>> /\ Refusing(Head(stack')) => w = "clr" BY <1>0, <1>2, <1>7, WentHeld, FailsTop, Zenon
  <2>2. Len(st'["clr"].pend) \in Nat BY <1>1, <1>4, <1>5
  <2> QED BY <1>2, <1>4, <1>6, <2>1, <2>2 DEF Sends, Short
<1>9. CASE Fails(r) BY <1>2, <1>8, <1>9, SendsAfter DEF Fails
<1>10. CASE Quiet(x, r) \/ Ends(x, r)
  <2>1. Alike(Cons(x, r), stack') /\ stack' \in Seq(Frames) BY <1>0, <1>10, WentHeld, Zenon DEF Types
  <2>2. Hand(h, "push", "enc") = Nil /\ Hand(h, "pull", "clr") = Nil /\ Hand(x, "push", "enc") = Nil
        /\ Hand(x, "pull", "clr") = IF w = "clr" /\ ~x.b THEN x.data ELSE Nil BY <1>1 DEF Hand, InHand, Nil
  <2>3. Mine(Nil) = Nil BY MineFacts
  <2>4. /\ Mine(Held(stack', "push", "enc")) = Mine(Held(stack, "push", "enc"))
        /\ Mine(Held(stack, "pull", "clr")) = Mine(Held(r, "pull", "clr"))
        /\ Mine(Held(stack', "pull", "clr")) =
             Join(IF w = "clr" /\ ~x.b THEN Mine(x.data) ELSE Nil, Mine(Held(r, "pull", "clr")))
        /\ Mine(Held(r, "pull", "clr")) \in Seq(Items)
    <3>1. \A f \in {"pull", "push"}, v \in Sides :
            /\ Mine(Held(stack', f, v)) = Join(Mine(Hand(x, f, v)), Mine(Held(r, f, v)))
            /\ Mine(Held(stack, f, v)) = Join(Mine(Hand(h, f, v)), Mine(Held(r, f, v)))
            /\ Mine(Held(r, f, v)) \in Seq(Items) BY <2>1, HeldTwo
    <3>2. "enc" \in Sides /\ "clr" \in Sides BY DEF Sides
    <3>3. /\ Mine(Held(stack', "push", "enc")) = Join(Nil, Mine(Held(r, "push", "enc")))
          /\ Mine(Held(stack, "push", "enc")) = Join(Nil, Mine(Held(r, "push", "enc")))
          /\ Mine(Held(stack, "pull", "clr")) = Join(Nil, Mine(Held(r, "pull", "clr")))
          /\ Mine(Held(r, "pull", "clr")) \in Seq(Items) BY <2>2, <2>3, <3>1, <3>2
    <3>4. Join(Nil, Mine(Held(r, "pull", "clr"))) = Mine(Held(r, "pull", "clr")) BY <3>3, JoinNil
    <3>5. Mine(Hand(x, "pull", "clr")) = IF w = "clr" /\ ~x.b THEN Mine(x.data) ELSE Nil BY <2>2, <2>3
    <3> QED BY <3>1, <3>2, <3>3, <3>4, <3>5
  <2>5. CASE w = "enc"
    <3>1. Mine(Held(stack', "pull", "clr")) = Mine(Held(stack, "pull", "clr")) BY <2>4, <2>5, JoinNil
    <3>2. st'["clr"].pend = st["clr"].pend /\ ssl'.out = ssl.out BY <1>1, <1>5, <2>5
    <3>3. Outgoing' = Outgoing BY <1>0, <1>2, <2>4, <3>1, <3>2, OutBoth DEF SumOf
    <3> QED BY <1>2, <1>8, <3>3, SendsAfter DEF Shuffled
  <2>6. CASE w = "clr"
    <3>1. Held(r, "pull", "clr") = Nil BY <2>6, HeldAlone DEF Exclusive
    <3>2. PICK a, b, c, e, t : /\ a = Mine(io.wire) /\ b = Mine(Held(stack, "push", "enc")) /\ c = Mine(ssl.out)
                               /\ e = Mine(FlattenSeq(q)) /\ t = Mine(x.data) OBVIOUS
    <3>3. a \in Seq(Items) /\ b \in Seq(Items) /\ c \in Seq(Items)
      <4>1. io.wire \in Seq(Items) /\ ssl.out \in Seq(Items) /\ stack \in Seq(Frames) /\ st["clr"].pend \in Seq(Seq(Items))
        BY <1>0, TypeFacts, Zenon
      <4> QED BY <3>2, <4>1, OutSum, Zenon
    <3>4. e \in Seq(Items) /\ t \in Seq(Items) BY <1>3, <3>2, FlatGrown, MineFacts
    <3>5. Mine(FlattenSeq(st["clr"].pend)) = Join(e, t) BY <1>1, <1>3, <2>6, <3>2, FlatGrown
    <3>6. Outgoing = Five(a, b, c, Nil, Join(e, t)) BY <1>0, <2>3, <2>4, <3>1, <3>2, <3>5, OutBoth DEF SumOf
    <3>7. st'["clr"].pend = q BY <1>1, <2>6
    <3>8. ~pair.queued => e = Nil
      <4>1. FlattenSeq(Nil) = Nil BY FlatNone DEF Nil
      <4> QED BY <1>6, <2>3, <2>6, <3>2, <4>1
    <3>9. Mine(ssl'.out) = IF x.b THEN Join(c, t) ELSE c
      <4>1. PICK g : g = tls_conn_start(ssl) OBVIOUS
      <4>2. Mine(g.out) = c /\ g.out \in Seq(Items)
        <5>1. ssl \in Engines BY <1>0 DEF Types
        <5>2. Shakes(ssl, g) BY <4>1, <5>1, StartFields
        <5> QED BY <3>2, <5>2, MineFacts DEF Shakes, Engines
      <4>3. x.b => ssl'.out = Join(g.out, x.data) BY <1>1, <2>6, <4>1, Zenon DEF GoesIn, Join
      <4>4. ~x.b => ssl'.out = g.out BY <1>1, <2>6, <4>1, Zenon DEF GoesIn
      <4> QED BY <1>3, <3>2, <4>2, <4>3, <4>4, MineFacts
    <3>10. Join(t, Nil) = t /\ Join(Nil, Nil) = Nil BY <3>4, JoinNil, NilFacts, Zenon
    <3>11. Mine(Held(stack', "pull", "clr")) = IF x.b THEN Nil ELSE t BY <2>3, <2>4, <2>6, <3>1, <3>2, <3>10
    <3>12. Outgoing' = IF x.b THEN Five(a, b, Join(c, t), Nil, e) ELSE Five(a, b, c, t, e)
      BY <1>0, <1>2, <2>4, <3>2, <3>7, <3>9, <3>11, OutBoth DEF SumOf
    <3>13. /\ Five(a, b, Join(c, t), Nil, e) = Five(a, b, c, t, e)
           /\ Shuffled(Five(a, b, c, t, e), Five(a, b, c, Nil, Join(e, t)))
           /\ e = Nil => Five(a, b, c, t, e) = Five(a, b, c, Nil, Join(e, t)) BY <3>3, <3>4, FiveTake
    <3>14. Shuffled(Outgoing', Outgoing) /\ (~pair'.queued => Outgoing' = Outgoing) BY <1>2, <3>6, <3>8, <3>12, <3>13
    <3> QED BY <1>2, <1>8, <3>14, SendsAfter
  <2> QED BY <1>5, <2>5, <2>6
<1> QED BY <1>2, <1>9, <1>10

\* The end of the stream, an entry that goes back, an entry that was taken.
LEMMA eofSends ==
  ASSUME Control, Control', Sends, ~Idle, Head(stack).f = "pull", Head(stack).pc = 0,
         NEW w \in Sides, NEW q \in Seq(Seq(Items)), EofStep(w, q, Tail(stack))
  PROVE  Sends'
<1> DEFINE r == Tail(stack)
<1>0. Types /\ Types' /\ r \in Seq(Frames) /\ stack # <<>> /\ Plain(Head(stack))
  BY TopFits, PlainFrames DEF Control, Idle
<1>1. /\ pair' = pair /\ io' = io
      /\ st[w].pend = Grown(q, Nil) /\ st'[w].pend = q /\ st'[Other(w)].pend = st[Other(w)].pend
      /\ ssl'.out = ssl.out \/ (w = "clr" /\ ssl'.out = Append(ssl.out, "fin"))
      /\ stack' = <<Cycle(0), Frame("pull", w, 1)>> \o r BY DEF EofStep, Nil
<1>2. Cycle(0) \in Frames /\ Plain(Cycle(0)) /\ Frame("pull", w, 1) \in Frames /\ Plain(Frame("pull", w, 1))
  BY PlainMade DEF Methods
<1>3. stack' = Cons(Cycle(0), Cons(Frame("pull", w, 1), r)) BY <1>0, <1>1, <1>2, ConsPair, Zenon
<1>4. Restacked BY <1>0, <1>2, <1>3, Zenon DEF Restacked
<1>5. SameHeld(stack, stack') /\ (stack' # <<>> => ~Refusing(Head(stack'))) BY <1>0, <1>4, RestackedCalm DEF Alike
<1>6. Mine(ssl'.out) = Mine(ssl.out)
  <2>1. ssl.out \in Seq(Items) /\ "fin" \in Items /\ "fin" \notin Chunks BY <1>0, TypeFacts, OwnItems
  <2>2. Those(Append(ssl.out, "fin"), Chunks) = Those(ssl.out, Chunks) BY <2>1, ThoseAppend
  <2> QED BY <1>1, <2>2, MineFacts, Zenon
<1>7. w = "clr" \/ (w = "enc" /\ Other(w) = "clr") BY DEF Sides, Other
<1>8. Mine(FlattenSeq(Grown(q, Nil))) = Mine(FlattenSeq(q)) /\ Len(Grown(q, Nil)) = Len(q) + 1 /\ Len(q) \in Nat
  <2>0. Nil \in Seq(Items) BY NilFacts
  <2>1. Mine(FlattenSeq(Grown(q, Nil))) = Join(Mine(FlattenSeq(q)), Mine(Nil)) /\ FlattenSeq(q) \in Seq(Items)
    BY <2>0, FlatGrown
  <2>2. Mine(Nil) = Nil /\ Mine(FlattenSeq(q)) \in Seq(Items) BY <2>1, MineFacts
  <2>3. Join(Mine(FlattenSeq(q)), Nil) = Mine(FlattenSeq(q)) BY <2>2, JoinNil
  <2> QED BY <2>0, <2>1, <2>2, <2>3, GrownLen
<1>9. Len(st["clr"].pend) \in Nat
  <2>1. st["clr"].pend \in Seq(Seq(Items)) BY <1>0, TypeFacts, Zenon
  <2> QED BY <2>1, LenType
<1>10. /\ Mine(FlattenSeq(st'["clr"].pend)) = Mine(FlattenSeq(st["clr"].pend))
       /\ Len(st'["clr"].pend) <= Len(st["clr"].pend) BY <1>1, <1>7, <1>8, <1>9
<1> QED BY <1>1, <1>5, <1>6, <1>10, SendsSame

\* The engine refuses an entry, which goes back to the front.
LEMMA refusedSends ==
  ASSUME Control, Control', Sends, ~Idle, Head(stack).f = "pull", Head(stack).pc = 2, ~Head(stack).b,
         RefusedStep(Head(stack).w, Head(stack).data, Tail(stack))
  PROVE  Sends'
<1> DEFINE h == Head(stack)
           r == Tail(stack)
<1>0. Types /\ Types' /\ r \in Seq(Frames) /\ stack # <<>> /\ h \in Frames /\ FrameFits(h, pair)
      /\ (r # <<>> => ~Refusing(Head(r))) BY TopFits DEF Control, Idle
<1>1. Refusing(h) /\ h.w = "clr" /\ h.data \in Seq(Items) BY <1>0, Zenon DEF Refusing, FrameFits, Frames
<1>2. /\ st'["clr"].pend = <<h.data>> \o st["clr"].pend /\ stack' = r /\ ssl' = ssl /\ pair' = pair /\ io' = io
  BY <1>1, Zenon DEF RefusedStep
<1>3. PICK q, d : q = st["clr"].pend /\ d = h.data OBVIOUS
<1>4. q \in Seq(Seq(Items)) /\ d \in Seq(Items) /\ ssl.out \in Seq(Items) /\ io.wire \in Seq(Items) /\ stack \in Seq(Frames)
  BY <1>0, <1>1, <1>3, TypeFacts
<1>5. PICK a, b, c, t, e : /\ a = Mine(io.wire) /\ b = Mine(Held(stack, "push", "enc")) /\ c = Mine(ssl.out)
                           /\ t = Mine(d) /\ e = Mine(FlattenSeq(q)) OBVIOUS
<1>6. a \in Seq(Items) /\ b \in Seq(Items) /\ c \in Seq(Items) /\ e \in Seq(Items) /\ t \in Seq(Items)
  BY <1>4, <1>5, OutSum, MineFacts, Zenon
<1>7. Hand(h, "push", "enc") = Nil /\ Hand(h, "pull", "clr") = d BY <1>1, <1>3 DEF Hand, InHand, Refusing, Nil
<1>8. Mine(Held(r, "push", "enc")) = b /\ Mine(Held(stack, "pull", "clr")) = t /\ Mine(Held(r, "pull", "clr")) = Nil
  <2>1. PICK y \in Frames, s \in Seq(Frames) : y = h /\ s = r /\ stack = Cons(y, s) BY <1>0, TopFits, Zenon DEF Cons
  <2>2. /\ Mine(Held(Cons(y, s), "push", "enc")) = Join(Mine(Hand(y, "push", "enc")), Mine(Held(s, "push", "enc")))
        /\ Mine(Held(s, "push", "enc")) \in Seq(Items) BY MineHeld
  <2>3. Mine(Held(Cons(y, s), "pull", "clr")) = Join(Mine(Hand(y, "pull", "clr")), Mine(Held(s, "pull", "clr")))
    BY MineHeld
  <2>4. Held(s, "pull", "clr") = Nil BY <1>1, <2>1, HeldAlone DEF Exclusive
  <2>5. Mine(Nil) = Nil BY MineFacts
  <2>6. b = Mine(Held(s, "push", "enc")) BY <1>5, <1>7, <2>1, <2>2, <2>5, JoinNil
  <2>7. Mine(Held(stack, "pull", "clr")) = t BY <1>5, <1>6, <1>7, <2>1, <2>3, <2>4, <2>5, JoinNil
  <2> QED BY <2>1, <2>4, <2>5, <2>6, <2>7, Zenon
<1>9. Outgoing = Five(a, b, c, t, e) BY <1>0, <1>3, <1>5, <1>8, OutBoth DEF SumOf
<1>10. Mine(FlattenSeq(st'["clr"].pend)) = Join(t, e) BY <1>2, <1>3, <1>4, <1>5, FlatBack
<1>11. Outgoing' = Five(a, b, c, Nil, Join(t, e)) BY <1>0, <1>2, <1>5, <1>8, <1>10, OutBoth DEF SumOf
<1>12. Outgoing' = Outgoing BY <1>6, <1>9, <1>11, FiveMove
<1>13. Short'
  <2>1. pair.queued \/ q = <<>> BY <1>0, <1>1, <1>3 DEF Sends, Short
  <2>2. q = <<>> => Len(<<d>> \o q) <= 1
    <3>1. Len(<<d>> \o <<>>) = 1 OBVIOUS
    <3> QED BY <3>1
  <2> QED BY <1>0, <1>2, <1>3, <2>1, <2>2 DEF Short
<1> QED BY <1>2, <1>12, <1>13, SendsAfter DEF Shuffled

\* The engine takes an entry.
LEMMA takenSends ==
  ASSUME Control, Control', Sends, ~Idle, Head(stack).f = "pull", Head(stack).pc = 2, Head(stack).b,
         NEW w \in Sides, TakenStep(w, Tail(stack))
  PROVE  Sends'
<1> DEFINE h == Head(stack)
           r == Tail(stack)
           y == Frame("pull", w, 0)
           c == User("callback")
<1>0. Types /\ r \in Seq(Frames) /\ stack # <<>> /\ h \in Frames /\ stack = Cons(h, r)
  BY TopFits DEF Control, Idle, Cons
<1>1. /\ pair' = pair /\ io' = io /\ ssl' = ssl /\ st'[w].pend = st[w].pend /\ st'[Other(w)] = st[Other(w)]
      /\ \/ stack' = <<y>> \o r \/ stack' = <<c, y>> \o r BY DEF TakenStep
<1>2. y \in Frames /\ Plain(y) /\ c \in Frames /\ Plain(c) BY PlainMade DEF Methods, Handlers
<1> HIDE DEF h, y, c, r
<1>3. stack' = Cons(y, r) \/ stack' = Cons(c, Cons(y, r)) BY <1>0, <1>1, <1>2, ConsPair, Zenon
<1>4. SameHeld(r, stack)
  <2>1. NoHand(h) BY NoHandFrames DEF h, Refusing
  <2> QED BY <1>0, <2>1, HeldTop
<1>5. Alike(r, Cons(y, r)) /\ Cons(y, r) \in Seq(Frames) /\ Head(Cons(y, r)) = y BY <1>0, <1>2, AlikeTop, ConsTop
<1>6. Alike(r, Cons(c, Cons(y, r))) /\ Head(Cons(c, Cons(y, r))) = c BY <1>0, <1>2, <1>5, AlikeTwo, ConsTop
<1>7. SameHeld(stack, stack') /\ ~Refusing(Head(stack'))
  BY <1>2, <1>3, <1>4, <1>5, <1>6, PlainNotRefusing DEF Alike, SameHeld
<1>8. st'["clr"].pend = st["clr"].pend BY <1>1 DEF Sides, Other
<1>9. Len(st["clr"].pend) \in Nat
  <2>1. st["clr"].pend \in Seq(Seq(Items)) BY <1>0, TypeFacts, Zenon
  <2> QED BY <2>1, LenType
<1> QED BY <1>1, <1>7, <1>8, <1>9, SendsSame

\* A step of CryptoStream:_pull.
LEMMA _pullSends == ASSUME Control, Control', Sends, _pull PROVE Sends'
<1> DEFINE h == Head(stack)
           w == h.w
           r == Tail(stack)
<1>1. /\ ~Idle /\ h.f = "pull" /\ w \in Sides /\ h \in Frames /\ r \in Seq(Frames)
      /\ \/ h.pc = 0 /\ RestStep(w, r)
         \/ h.pc = 0 /\ \E q \in Seq(Seq(Items)) : EofStep(w, q, r)
         \/ h.pc = 0 /\ UNCHANGED <<net, calls>> /\ \E x \in Frames, q \in Seq(Seq(Items)) : PullStep(w, x, q)
         \/ h.pc = 1 /\ DoneStep(w, r)
         \/ h.pc = 2 /\ ~h.b /\ RefusedStep(w, h.data, r)
         \/ h.pc = 2 /\ h.b /\ TakenStep(w, r) BY PullCases
<1>2. ASSUME h.pc \in {0, 1}, RestStep(w, r) \/ DoneStep(w, r) PROVE Sends'
  <2>1. Plain(h) BY <1>1, <1>2, PlainFrames
  <2>2. Calm BY <1>1, <1>2, <2>1, returnCalm
  <2> QED BY <2>2, CalmSends
<1>3. ASSUME h.pc = 0, NEW q \in Seq(Seq(Items)), EofStep(w, q, r) PROVE Sends' BY <1>1, <1>3, eofSends
<1>4. ASSUME h.pc = 0, NEW x \in Frames, NEW q \in Seq(Seq(Items)), PullStep(w, x, q) PROVE Sends'
  BY <1>1, <1>4, offerSends
<1>5. ASSUME h.pc = 2, ~h.b, RefusedStep(w, h.data, r) PROVE Sends' BY <1>1, <1>5, refusedSends
<1>6. ASSUME h.pc = 2, h.b, TakenStep(w, r) PROVE Sends' BY <1>1, <1>6, takenSends
<1> QED BY <1>1, <1>2, <1>3, <1>4, <1>5, <1>6

\* _push asks the engine.
LEMMA readSends ==
  ASSUME Control, Control', Sends, ~Idle, Head(stack).f = "push", Head(stack).pc \in {0, 2},
         NEW x \in Frames, NEW d \in Seq(Items), PushStep(x, d)
  PROVE  Sends'
<1> DEFINE h == Head(stack)
           r == Tail(stack)
<1>0. Types /\ Types' /\ h \in Frames /\ r \in Seq(Frames) /\ FrameFits(h, pair) /\ h.w \in Sides
  BY TopFits DEF Control, Frames
<1>1. /\ x.f = "push" /\ x.w = h.w /\ x.data = h.data \o d
      /\ Went(x, r) /\ ssl' \in Engines /\ st' = st
      /\ \/ ~ssl.up /\ ssl' = ssl /\ d = <<>>
         \/ h.w = "enc" /\ ReadsBio(ssl, ssl', d)
         \/ h.w = "clr" /\ \E ok : ReadsOut(ssl, ssl', d, ok) BY DEF PushStep
<1>2. /\ pair'.fault = pair.fault /\ pair'.queued = pair.queued /\ (pair.failed => pair'.failed)
      /\ io'.written = io.written /\ io'.wire = io.wire
      /\ Fails(r) \/ Quiet(x, r) \/ Ends(x, r) BY <1>0, <1>1, WentFields, Zenon
<1>3. ~Refusing(x) BY <1>1 DEF Refusing
<1>4. Short'
  <2>1. stack' # <<>> => ~Refusing(Head(stack')) BY <1>0, <1>2, <1>3, WentHeld, FailsTop, Zenon
  <2> QED BY <1>1, <1>2, <2>1 DEF Sends, Short
<1>5. CASE Fails(r) BY <1>2, <1>4, <1>5, SendsAfter DEF Fails
<1>6. CASE Quiet(x, r) \/ Ends(x, r)
  <2>1. Alike(Cons(x, r), stack') /\ stack' \in Seq(Frames) BY <1>0, <1>6, WentHeld, Zenon DEF Types
  <2>2. Hand(h, "pull", "clr") = Nil /\ Hand(x, "pull", "clr") = Nil
        /\ Hand(x, "push", "enc") = (IF h.w = "enc" THEN x.data ELSE Nil)
        /\ Hand(h, "push", "enc") = (IF h.w = "enc" THEN h.data ELSE Nil) BY <1>1 DEF Hand, InHand, Nil
  <2>3. Mine(Nil) = Nil BY MineFacts
  <2>4. \A f \in {"pull", "push"}, v \in Sides :
          /\ Mine(Held(stack', f, v)) = Join(Mine(Hand(x, f, v)), Mine(Held(r, f, v)))
          /\ Mine(Held(stack, f, v)) = Join(Mine(Hand(h, f, v)), Mine(Held(r, f, v)))
          /\ Mine(Held(r, f, v)) \in Seq(Items) BY <2>1, HeldTwo
  <2>5. "enc" \in Sides /\ "clr" \in Sides BY DEF Sides
  <2>6. Mine(Held(stack', "pull", "clr")) = Mine(Held(stack, "pull", "clr")) BY <2>2, <2>4, <2>5
  <2>7. ssl.out \in Seq(Items) /\ ssl \in Engines BY <1>0, TypeFacts DEF Types
  <2>8. CASE h.w = "clr"
    <3>1. Mine(Held(stack', "push", "enc")) = Mine(Held(stack, "push", "enc")) BY <2>2, <2>4, <2>5, <2>8
    <3>2. Mine(ssl'.out) = Mine(ssl.out)
      <4>1. CASE ssl' = ssl BY <4>1
      <4>2. CASE ssl' # ssl
        <5>1. PICK ok : ReadsOut(ssl, ssl', d, ok) BY <1>1, <2>8, <4>2
        <5>2. PICK g : g = tls_conn_start(ssl) OBVIOUS
        <5>3. Shakes(ssl, g) BY <2>7, <5>2, StartFields
        <5>4. ssl'.out = g.out \/ ssl'.out = Append(g.out, "alert") BY <5>1, <5>2 DEF ReadsOut
        <5>5. g.out \in Seq(Items) /\ Those(g.out, Chunks) = Those(ssl.out, Chunks) BY <5>3 DEF Shakes, Engines
        <5>6. Those(Append(g.out, "alert"), Chunks) = Those(g.out, Chunks)
          <6>1. "alert" \in Items /\ "alert" \notin Chunks BY OwnItems
          <6> QED BY <5>5, <6>1, ThoseAppend
        <5> QED BY <5>4, <5>5, <5>6, MineFacts, Zenon
      <4> QED BY <4>1, <4>2
    <3>3. Outgoing' = Outgoing BY <1>0, <1>1, <1>2, <2>6, <3>1, <3>2, OutBoth DEF SumOf
    <3> QED BY <1>2, <1>4, <3>3, SendsAfter DEF Shuffled
  <2>9. CASE h.w = "enc"
    <3>1. h.data = <<>> BY <1>0, <2>9 DEF FrameFits
    <3>2. x.data = d
      <4>1. <<>> \o d = d BY CatNone
      <4> QED BY <1>1, <3>1, <4>1
    <3>3. Held(r, "push", "enc") = Nil BY <2>9, HeldAlone DEF Exclusive
    <3>4. Mine(d) \in Seq(Items) /\ Mine(Held(stack, "push", "enc")) = Nil /\ Mine(Held(stack', "push", "enc")) = Mine(d)
      <4>1. Mine(d) \in Seq(Items) BY MineFacts
      <4>2. Mine(Held(stack, "push", "enc")) = Join(Nil, Nil) /\ Mine(Held(stack', "push", "enc")) = Join(Mine(d), Nil)
        BY <2>2, <2>3, <2>4, <2>5, <2>9, <3>1, <3>2, <3>3 DEF Nil
      <4>3. Join(Nil, Nil) = Nil /\ Join(Mine(d), Nil) = Mine(d) BY <4>1, JoinNil, NilFacts, Zenon
      <4> QED BY <4>1, <4>2, <4>3
    <3>5. PICK a, c, t, e : /\ a = Mine(io.wire) /\ c = Mine(ssl.out)
                            /\ t = Mine(Held(stack, "pull", "clr")) /\ e = Mine(FlattenSeq(st["clr"].pend)) OBVIOUS
    <3>6. a \in Seq(Items) /\ c \in Seq(Items) /\ t \in Seq(Items) /\ e \in Seq(Items)
      <4>1. io.wire \in Seq(Items) /\ ssl.out \in Seq(Items) /\ stack \in Seq(Frames) /\ st["clr"].pend \in Seq(Seq(Items))
        BY <1>0, TypeFacts, Zenon
      <4> QED BY <3>5, <4>1, OutSum
    <3>7. Outgoing = Five(a, Nil, c, t, e) BY <1>0, <3>4, <3>5, OutBoth DEF SumOf
    <3>8. (Mine(d) = Nil /\ Mine(ssl'.out) = c) \/ (Mine(d) = c /\ Mine(ssl'.out) = Nil)
      BY <1>1, <2>3, <2>9, <3>5 DEF ReadsBio, Nil
    <3>9. Outgoing' = Five(a, Mine(d), Mine(ssl'.out), t, e) BY <1>0, <1>1, <1>2, <2>6, <3>4, <3>5, OutBoth DEF SumOf
    <3>10. Five(a, Nil, c, t, e) = Five(a, c, Nil, t, e) BY <3>6, FiveMove
    <3>11. Outgoing' = Outgoing BY <3>7, <3>8, <3>9, <3>10
    <3> QED BY <1>2, <1>4, <3>11, SendsAfter DEF Shuffled
  <2> QED BY <1>0, <2>8, <2>9 DEF Sides
<1> QED BY <1>2, <1>5, <1>6

\* _push emits what it read.
LEMMA emitSends ==
  ASSUME Control, Control', Sends, ~Idle, Head(stack).f = "push", EmitStep(Head(stack).w, Head(stack).data, Tail(stack))
  PROVE  Sends'
<1> DEFINE h == Head(stack)
           w == h.w
           r == Tail(stack)
           y == Frame("push", w, 0)
           z == Frame("data", w, 0)
<1>0. Types /\ Types' /\ h \in Frames /\ r \in Seq(Frames) /\ w \in Sides /\ h.data \in Seq(Items)
  BY TopFits DEF Control, Frames
<1>1. /\ io'.written = io.written /\ io'.wire = (IF w = "enc" THEN io.wire \o h.data ELSE io.wire)
      /\ UNCHANGED <<st, ssl, pair>> /\ stack' = <<z, y>> \o r BY Zenon DEF EmitStep
<1>2. y \in Frames /\ Plain(y) /\ z \in Frames /\ Plain(z) BY <1>0, PlainMade DEF Methods, Handlers
<1>3. Hand(h, "pull", "clr") = Nil /\ Hand(h, "push", "enc") = (IF w = "enc" THEN h.data ELSE Nil)
  BY DEF Hand, InHand, Nil
<1>11. w = "enc" => Held(r, "push", "enc") = Nil BY HeldAlone DEF Exclusive
<1>4. PICK s \in Seq(Frames), g \in Frames, t \in Seq(Items) : s = r /\ g = h /\ t = h.data /\ stack = Cons(g, s)
  BY <1>0, TopFits, Zenon DEF Cons
<1> HIDE DEF y, z
<1>5. stack' = Cons(z, Cons(y, s)) BY <1>1, <1>2, <1>4, ConsPair, Zenon
<1>6. Alike(s, stack') /\ ~Refusing(Head(stack')) /\ stack' # <<>>
  <2>1. Alike(s, Cons(y, s)) /\ Cons(y, s) \in Seq(Frames) BY <1>2, AlikeTop, ConsTop
  <2> QED BY <1>2, <1>5, <2>1, AlikeTwo, ConsTop, PlainNotRefusing, Zenon
<1>7. PICK a, b, c, d, e : /\ a = Mine(io.wire) /\ b = Mine(Held(stack, "push", "enc")) /\ c = Mine(ssl.out)
                           /\ d = Mine(Held(stack, "pull", "clr")) /\ e = Mine(FlattenSeq(st["clr"].pend)) OBVIOUS
<1>8. /\ io.wire \in Seq(Items)
      /\ a \in Seq(Items) /\ b \in Seq(Items) /\ c \in Seq(Items) /\ d \in Seq(Items) /\ e \in Seq(Items)
  <2>1. io.wire \in Seq(Items) /\ ssl.out \in Seq(Items) /\ stack \in Seq(Frames) /\ st["clr"].pend \in Seq(Seq(Items))
    BY <1>0, TypeFacts, Zenon
  <2> QED BY <1>7, <2>1, OutSum
<1>9. Outgoing = Five(a, b, c, d, e) BY <1>0, <1>7, OutBoth DEF SumOf
<1>10. Mine(Nil) = Nil BY MineFacts
<1>12. /\ Mine(Held(Cons(g, s), "pull", "clr")) = Join(Mine(Hand(g, "pull", "clr")), Mine(Held(s, "pull", "clr")))
       /\ Mine(Held(s, "pull", "clr")) \in Seq(Items) BY MineHeld
<1>13. /\ Mine(Held(Cons(g, s), "push", "enc")) = Join(Mine(Hand(g, "push", "enc")), Mine(Held(s, "push", "enc")))
       /\ Mine(Held(s, "push", "enc")) \in Seq(Items) BY MineHeld
<1>14. d = Mine(Held(s, "pull", "clr")) BY <1>3, <1>4, <1>7, <1>10, <1>12, JoinNil
<1>15. Held(stack', "push", "enc") = Held(s, "push", "enc") /\ Held(stack', "pull", "clr") = Held(s, "pull", "clr")
  BY <1>6 DEF Alike, SameHeld, Sides
<1>16. Outgoing' = Outgoing
  <2>1. CASE w = "enc"
    <3>1. b = Mine(t) /\ Mine(Held(s, "push", "enc")) = Nil
      <4>1. b = Join(Mine(t), Nil) BY <1>3, <1>4, <1>7, <1>10, <1>11, <1>13, <2>1
      <4>2. Mine(t) \in Seq(Items) BY MineFacts
      <4> QED BY <1>4, <1>10, <1>11, <2>1, <4>1, <4>2, JoinNil, Zenon
    <3>2. io'.wire = Join(io.wire, t) BY <1>1, <1>4, <2>1, Zenon DEF Join
    <3>3. Mine(io'.wire) = Join(a, b)
      <4>1. PICK k \in Seq(Items) : k = io.wire BY <1>8
      <4>2. Mine(Join(k, t)) = Join(Mine(k), Mine(t)) BY MineFacts
      <4> QED BY <1>7, <3>1, <3>2, <4>1, <4>2
    <3>4. Outgoing' = Five(Join(a, b), Nil, c, d, e) BY <1>0, <1>1, <1>7, <1>14, <1>15, <3>1, <3>3, OutBoth DEF SumOf
    <3> QED BY <1>8, <1>9, <3>4, FiveMove
  <2>2. CASE w # "enc"
    <3>1. b = Mine(Held(s, "push", "enc")) BY <1>3, <1>4, <1>7, <1>10, <1>13, <2>2, JoinNil
    <3> QED BY <1>0, <1>1, <1>7, <1>9, <1>14, <1>15, <2>2, <3>1, OutBoth DEF SumOf
  <2> QED BY <2>1, <2>2
<1>17. Short' BY <1>1, <1>6 DEF Sends, Short
<1> QED BY <1>1, <1>16, <1>17, SendsAfter DEF Shuffled

\* A step of CryptoStream:_push.
LEMMA _pushSends == ASSUME Control, Control', Sends, _push PROVE Sends'
<1> DEFINE h == Head(stack)
           w == h.w
           r == Tail(stack)
<1>0. pair \in Flags BY DEF Control, Types
<1>1. /\ ~Idle /\ h.f = "push" /\ w \in Sides /\ h \in Frames /\ r \in Seq(Frames) BY PushCases
<1>2. \/ Plain(h) /\ stack' = r /\ UNCHANGED <<st, ssl, pair, net, io, calls>>
      \/ h.pc \in {0, 2} /\ \E x \in Frames, d \in Seq(Items) : PushStep(x, d)
      \/ pair' = [pair EXCEPT !.fault = TRUE] /\ stack' = <<>> /\ UNCHANGED <<st, ssl, net, io, calls>>
      \/ Plain(h) /\ DoneStep(w, r)
      \/ EmitStep(w, h.data, r)
  <2>1. h.pc = 0 => Plain(h)
    <3>1. FrameFits(h, pair) BY <1>1, TopFits
    <3> QED BY <1>1, <3>1, PlainFrames DEF FrameFits
  <2>2. h.pc = 3 /\ h.data = <<>> => Plain(h) BY PlainFrames
  <2> QED BY <2>1, <2>2, PushCases
<1>3. ASSUME Plain(h), (stack' = r /\ UNCHANGED <<st, ssl, pair, net, io, calls>>) \/ DoneStep(w, r) PROVE Sends'
  <2>1. Calm BY <1>1, <1>3, returnCalm
  <2> QED BY <2>1, CalmSends
<1>4. ASSUME h.pc \in {0, 2}, NEW x \in Frames, NEW d \in Seq(Items), PushStep(x, d) PROVE Sends'
  BY <1>1, <1>4, readSends
<1>5. ASSUME pair' = [pair EXCEPT !.fault = TRUE], stack' = <<>>, UNCHANGED <<st, ssl, net, io, calls>> PROVE Sends'
  <2>1. pair'.fault /\ pair'.queued = pair.queued /\ pair'.failed = pair.failed BY <1>0, <1>5 DEF Flags
  <2>2. Short' BY <1>5, <2>1 DEF Sends, Short
  <2> QED BY <1>5, <2>1, <2>2, SendsAfter
<1>6. ASSUME EmitStep(w, h.data, r) PROVE Sends' BY <1>1, <1>6, emitSends
<1> QED BY <1>2, <1>3, <1>4, <1>5, <1>6

\* At first nothing was written.
LEMMA InitSends == ASSUME PairInit, Control PROVE Sends
<1>0. Types BY DEF Control
<1>1. /\ st["clr"].pend = Nil /\ ssl.out = Nil /\ io.wire = Nil /\ io.written = Nil /\ stack = Nil
  BY DEF PairInit, newCONN, CryptoStream_initialize, Sides, Nil
<1>2. Held(Nil, "push", "enc") = Nil /\ Held(Nil, "pull", "clr") = Nil /\ FlattenSeq(Nil) = Nil /\ Mine(Nil) = Nil
  BY HeldNone, FlatNone, MineFacts DEF Nil
<1>3. Join(Nil, Nil) = Nil /\ Len(Nil) = 0 BY NilFacts, JoinNil, Zenon
<1>4. io.wire \in Seq(Items) /\ stack \in Seq(Frames) /\ ssl.out \in Seq(Items) /\ st["clr"].pend \in Seq(Seq(Items))
  BY <1>0, TypeFacts
<1>5. Outgoing = OutOf(io.wire, stack, ssl.out, st["clr"].pend) BY DEF Outgoing, OutOf
<1>6. Outgoing = SumOf(io.wire, stack, ssl.out, st["clr"].pend) BY <1>4, <1>5, OutSum, Zenon
<1>7. Outgoing = Nil BY <1>1, <1>2, <1>3, <1>6 DEF SumOf, Five
<1> QED BY <1>1, <1>3, <1>7 DEF Sends, Short, Shuffled, Nil

\* Every step keeps what is on its way out.
LEMMA NextSends == Control /\ Control' /\ Sends /\ [PairNext]_pairVars => Sends'
<1> SUFFICES ASSUME Control, Control', Sends, [PairNext]_pairVars PROVE Sends' OBVIOUS
<1>1. CASE UNCHANGED pairVars BY <1>1 DEF pairVars, Sends, Short, Outgoing
<1>2. CASE PairNext
  BY <1>2, StepCases, CalmSends, startSends, _pullSends, _pushSends, program_writesSends, doneSends, outsideSends
<1> QED BY <1>1, <1>2

-----------------------------------------------------------------------------
\* A frame of the set S is on the stack s, and what a step leaves there.
Some(s, S) == \E i \in DOMAIN s : s[i] \in S
Keeps(s, t) == \A S : Some(s, S) => Some(t, S)

\* Some frame of a stack with a frame more.
LEMMA SomeTop ==
  ASSUME NEW s \in Seq(Frames), NEW x \in Frames
  PROVE  \A S : Some(Cons(x, s), S) <=> x \in S \/ Some(s, S)
<1> TAKE S
<1> DEFINE u == Cons(x, s)
<1>1. /\ Len(s) \in Nat /\ DOMAIN s = 1..Len(s) /\ DOMAIN u = 1..(Len(s) + 1) /\ u[1] = x
      /\ \A i \in 1..Len(s) : u[i + 1] = s[i] BY ConsPlaces DEF Cons
<1> HIDE DEF u
<1>2. ASSUME Some(u, S) PROVE x \in S \/ Some(s, S)
  <2>1. PICK i \in DOMAIN u : u[i] \in S BY <1>2 DEF Some
  <2>2. CASE i = 1 BY <1>1, <2>1, <2>2
  <2>3. CASE i # 1
    <3>1. i - 1 \in 1..Len(s) /\ (i - 1) + 1 = i BY <1>1, <2>3
    <3>2. s[i - 1] \in S BY <1>1, <2>1, <3>1
    <3> QED BY <1>1, <3>1, <3>2 DEF Some
  <2> QED BY <2>2, <2>3
<1>3. ASSUME Some(s, S) PROVE Some(u, S)
  <2>1. PICK i \in DOMAIN s : s[i] \in S BY <1>3 DEF Some
  <2>2. i + 1 \in DOMAIN u /\ u[i + 1] \in S BY <1>1, <2>1
  <2> QED BY <2>2 DEF Some
<1>4. ASSUME x \in S PROVE Some(u, S)
  <2>1. 1 \in DOMAIN u /\ u[1] \in S BY <1>1, <1>4
  <2> QED BY <2>1 DEF Some
<1> QED BY <1>2, <1>3, <1>4 DEF u

\* The empty stack has no frame.
LEMMA SomeNone == \A S : ~Some(<<>>, S)
BY DEF Some

\* Some frame is on top or below.
LEMMA SomeStack ==
  ASSUME Control, ~Idle
  PROVE  \A S : Some(stack, S) <=> Head(stack) \in S \/ Some(Tail(stack), S)
<1>1. PICK x \in Frames, s \in Seq(Frames) : x = Head(stack) /\ s = Tail(stack) /\ stack = Cons(x, s)
  BY TopFits, Zenon DEF Cons
<1> QED BY <1>1, SomeTop, Zenon

\* A call keeps all frames.
LEMMA KeepsTop ==
  ASSUME NEW s \in Seq(Frames), NEW x \in Frames
  PROVE  /\ Keeps(s, s) /\ Keeps(s, Cons(x, s))
         /\ \A y \in Frames : Keeps(s, Cons(y, Cons(x, s)))
<1>1. Keeps(s, s) /\ Keeps(s, Cons(x, s)) BY SomeTop DEF Keeps
<1>2. ASSUME NEW y \in Frames PROVE Keeps(s, Cons(y, Cons(x, s)))
  <2>1. Cons(x, s) \in Seq(Frames) BY ConsTop
  <2> QED BY <1>1, <2>1, SomeTop DEF Keeps
<1> QED BY <1>1, <1>2

\* The empty stack has none to keep.
LEMMA KeepsIdle == ASSUME Idle PROVE \A t : Keeps(stack, t)
BY SomeNone DEF Idle, Keeps

\* A method goes on with frames of its own, or returns.
LEMMA KeepsGoes ==
  ASSUME NEW x \in Frames, NEW r \in Seq(Frames), Fails(r) \/ Quiet(x, r) \/ Ends(x, r)
  PROVE  Keeps(r, stack')
<1>1. Err \in Frames /\ Frame("verify", "clr", 0) \in Frames BY PlainMade DEF Methods, Sides
<1>2. \/ stack' = Cons(Err, r) \/ stack' = Cons(x, r) \/ stack' = Cons(Frame("verify", "clr", 0), Cons(x, r))
  BY DEF Fails, Quiet, Ends, Cons
<1> QED BY <1>1, <1>2, KeepsTop

\* The steps of err, the listeners of 'secure', write, the handlers and _push.
Leaves == ~Idle /\ Head(stack).f \notin {"cycle", "pull"} /\ Keeps(Tail(stack), stack')

\* The error path takes no frame but its own off the stack.
LEMMA errLeaves == ASSUME Control, err PROVE Leaves /\ (ssl'.up => ssl.up)
<1>0. ~Idle /\ Head(stack).f = "err" /\ Types /\ ssl \in Engines BY DEF err, Top, Control, Types
<1>1. Tail(stack) \in Seq(Frames) BY <1>0, TopFits
<1>2. User("error") \in Frames /\ Destroy \in Frames BY PlainMade DEF Handlers
<1>3. \/ stack' = <<User("error"), Destroy>> \o Tail(stack) \/ stack' = <<User("error")>> \o Tail(stack)
      \/ stack' = Tail(stack) BY DEF err
<1>4. \/ stack' = Cons(User("error"), Cons(Destroy, Tail(stack))) \/ stack' = Cons(User("error"), Tail(stack))
      \/ stack' = Tail(stack) BY <1>1, <1>2, <1>3, ConsPair, Zenon
<1>5. Keeps(Tail(stack), stack') BY <1>1, <1>2, <1>4, KeepsTop, Zenon
<1>6. CASE destroy(st, "error", Tail(stack))
  <2>1. st \in [Sides -> Streams] BY <1>0 DEF Types
  <2>2. ssl' = ssl \/ ~ssl'.up BY <1>0, <1>6, <2>1, DestroyFields
  <2> QED BY <1>0, <1>5, <2>2 DEF Leaves
<1>7. CASE ssl' = ssl \/ ssl' = tls_conn_clear_error(ssl)
  <2>1. ssl'.up = ssl.up BY <1>0, <1>7 DEF tls_conn_clear_error, Engines
  <2> QED BY <1>0, <1>5, <2>1 DEF Leaves
<1> QED BY <1>6, <1>7 DEF err

\* Neither do the listeners of secure, the rest of write and a return.
LEMMA returnLeaves ==
  ASSUME Control, secure \/ written \/ (handler_returns)
  PROVE  Leaves /\ ssl' = ssl
<1>0. ~Idle /\ Head(stack).f \in Handlers \cup {"verify", "write"} /\ ssl' = ssl
  BY Zenon DEF secure, written, handler_returns, Top, Running
<1>1. Tail(stack) \in Seq(Frames) /\ Head(stack).f \notin {"cycle", "pull"} BY <1>0, TopFits DEF Handlers
<1>2. User("error") \in Frames /\ User("secure") \in Frames /\ Destroy \in Frames BY PlainMade DEF Handlers
<1>3. \/ stack' = <<User("error"), Destroy>> \o Tail(stack) \/ stack' = <<User("secure")>> \o Tail(stack)
      \/ stack' = <<Destroy>> \o Tail(stack) \/ stack' = Tail(stack)
  BY Zenon DEF secure, written, handler_returns, tls_conn_verify_error
<1>4. \/ stack' = Cons(User("error"), Cons(Destroy, Tail(stack))) \/ stack' = Cons(User("secure"), Tail(stack))
      \/ stack' = Cons(Destroy, Tail(stack)) \/ stack' = Tail(stack) BY <1>1, <1>2, <1>3, ConsPair, Zenon
<1>5. Keeps(Tail(stack), stack') BY <1>1, <1>2, <1>4, KeepsTop, Zenon
<1> QED BY <1>0, <1>1, <1>5 DEF Leaves

\* Neither does _push, unless the engine is gone.
LEMMA _pushLeaves == ASSUME Control, _push PROVE (Leaves \/ ~ssl'.up) /\ (ssl'.up => ssl.up)
<1> DEFINE h == Head(stack)
           w == h.w
           r == Tail(stack)
<1>1. ~Idle /\ h.f = "push" /\ w \in Sides /\ h \in Frames /\ r \in Seq(Frames) BY PushCases
<1>2. \/ stack' = r /\ ssl' = ssl
      \/ \E x \in Frames, d \in Seq(Items) : PushStep(x, d)
      \/ ~ssl.up /\ ssl' = ssl
      \/ DoneStep(w, r)
      \/ EmitStep(w, h.data, r) BY PushCases
<1>4. CASE stack' = r /\ ssl' = ssl BY <1>1, <1>4 DEF Leaves, Keeps
<1>5. ASSUME NEW x \in Frames, NEW d \in Seq(Items), PushStep(x, d) PROVE Leaves /\ (ssl'.up => ssl.up)
  <2>1. Went(x, r) /\ ssl'.up = ssl.up BY <1>5 DEF PushStep
  <2>2. Fails(r) \/ Quiet(x, r) \/ Ends(x, r) BY <1>1, <2>1, WentFields, Zenon DEF Control
  <2> QED BY <1>1, <2>1, <2>2, KeepsGoes, Zenon DEF Leaves
<1>6. CASE DoneStep(w, r)
  <2>1. Err \in Frames BY PlainMade
  <2>2. stack' = r \/ stack' = Cons(Err, r) BY <1>6 DEF DoneStep, Cons
  <2>3. Keeps(r, stack') BY <1>1, <2>1, <2>2, KeepsTop, Zenon
  <2> QED BY <1>1, <1>6, <2>3 DEF DoneStep, Leaves
<1>7. CASE EmitStep(w, h.data, r)
  <2>1. Frame("data", w, 0) \in Frames /\ Frame("push", w, 0) \in Frames BY <1>1, PlainMade DEF Methods, Handlers
  <2>2. stack' = Cons(Frame("data", w, 0), Cons(Frame("push", w, 0), r)) /\ ssl' = ssl
    BY <1>1, <1>7, <2>1, ConsPair, Zenon DEF EmitStep
  <2>3. Keeps(r, stack') BY <1>1, <2>1, <2>2, KeepsTop, Zenon
  <2> QED BY <1>1, <2>2, <2>3 DEF Leaves
<1> QED BY <1>2, <1>4, <1>5, <1>6, <1>7

\* The steps from outside leave the stack as it is, under what they add.
LEMMA outsideKeeps ==
  ASSUME Control,
         \/ start \/ destroyed \/ program_writes \/ program_calls \/ program_resumes
         \/ peer_sends \/ socket_data \/ socket_end \/ socket_destroyed \/ socket_close \/ socket_full \/ socket_drain
         \/ \E w \in Sides : emit_drain(w)
  PROVE  Keeps(stack, stack') /\ (ssl'.up => ssl.up)
<1>0. Types /\ stack \in Seq(Frames) /\ ssl \in Engines /\ st \in [Sides -> Streams] /\ "clr" \in Sides
  BY TypeFacts DEF Control, Types
<1>1. Cycle(0) \in Frames /\ Frame("write", "clr", 0) \in Frames BY PlainMade DEF Methods, Sides
<1>2. Idle \/ stack' = stack \/ stack' = Cons(Cycle(0), stack) \/ stack' = Cons(Cycle(0), Cons(Frame("write", "clr", 0), stack))
  <2>1. \/ Idle \/ stack' = stack \/ stack' = <<Cycle(0)>> \o stack
        \/ stack' = <<Cycle(0), Frame("write", "clr", 0)>> \o stack
    BY Zenon DEF start, destroyed, program_writes, program_calls, program_resumes, peer_sends, socket_data, socket_end,
           socket_destroyed, socket_close, socket_full, socket_drain, emit_drain, write, done, done_late, pause, resume,
           CleartextStream_destroy, CryptoStream_destroy
  <2> QED BY <1>0, <1>1, <2>1, ConsPair, Zenon
<1>3. Keeps(stack, stack') BY <1>0, <1>1, <1>2, KeepsTop, KeepsIdle
<1>4. ssl'.up => ssl.up
  <2>1. CASE start
    <3>1. ssl' = ssl \/ ssl' = tls_conn_start(ssl) BY <2>1 DEF start
    <3> QED BY <1>0, <3>1, StartFields DEF Shakes
  <2>2. CASE destroy(st, "program", stack) BY <1>0, <2>2, DestroyFields
  <2>3. CASE ssl' = ssl BY <2>3
  <2> QED BY <2>1, <2>2, <2>3, Zenon DEF destroyed, program_writes, program_calls, program_resumes, peer_sends, socket_data,
           socket_end, socket_destroyed, socket_close, socket_full, socket_drain, emit_drain, write, done, done_late,
           pause, resume, CleartextStream_destroy, CryptoStream_destroy
<1> QED BY <1>3, <1>4

-----------------------------------------------------------------------------
\* Frames that will look at the buffer of the encrypted stream.
Brings == {x \in Frames : (x.f = "pull" /\ x.w = "enc" /\ x.pc # 1) \/ (x.f = "cycle" /\ x.pc <= 1)}

\* While the engine is up the encrypted stream has one entry at most, and
\* somebody is there to take it.
Awake ==
  /\ ssl.up => Len(st["enc"].pend) <= 1
  /\ ssl.up /\ st["enc"].pend # <<>> => Some(stack, Brings)

\* A call of cycle that has not begun will look at the buffers.
LEMMA CycleBrings == Cycle(0) \in Brings
<1>1. Cycle(0) \in Frames /\ Cycle(0).f = "cycle" /\ Cycle(0).pc = 0 BY Made
<1> QED BY <1>1 DEF Brings

\* A step of cycle.
LEMMA cycleAwake == ASSUME Control, EngineGone, Awake, cycle PROVE Awake'
<1> DEFINE h == Head(stack)
           r == Tail(stack)
<1>0. Types /\ "enc" \in Sides BY TypeFacts DEF Control
<1>1. h.f = "cycle" /\ ~Idle /\ st' = st /\ ssl' = ssl BY CycleCases
<1>2. r \in Seq(Frames) /\ h \in Frames /\ h.n \in Nat BY <1>1, TopFits DEF Frames
<1> SUFFICES ASSUME ssl.up, st["enc"].pend # <<>> PROVE Some(stack', Brings) BY <1>1 DEF Awake
<1>3. h \in Brings \/ Some(r, Brings) BY <1>1, SomeStack DEF Awake
<1>4. ~Locked(1) /\ ~NoWork(1) BY DEF Locked, NoWork, Stage
<1>5. CASE h.pc = 0
  <2>1. stack' = <<[h EXCEPT !.pc = 1, !.b = pair.secure]>> \o r /\ pair \in Flags BY <1>5, CycleCases DEF EngineGone
  <2>2. PICK x : x = [h EXCEPT !.pc = 1, !.b = pair.secure] OBVIOUS
  <2>3. x \in Frames /\ x.pc = 1 /\ x.f = "cycle"
    <3>1. 1 \in 0..5 /\ pair.secure \in BOOLEAN BY <2>1 DEF Flags
    <3> QED BY <1>1, <1>2, <2>2, <3>1, Zenon DEF Frames
  <2>4. stack' = Cons(x, r) BY <2>1, <2>2 DEF Cons
  <2>5. x \in Brings BY <2>3 DEF Brings
  <2> QED BY <1>2, <2>3, <2>4, <2>5, SomeTop, Zenon
<1>6. ASSUME NEW k \in 1..4, h.pc > 0, k >= h.pc, \A j \in h.pc..(k - 1) : Locked(j) \/ NoWork(j),
             stack' = <<Frame(Stage[k][1], Stage[k][2], 0), [h EXCEPT !.pc = k + 1]>> \o r
      PROVE  Some(stack', Brings)
  <2>1. PICK x \in Frames : x = Frame(Stage[k][1], Stage[k][2], 0) /\ x.f = Stage[k][1] /\ x.w = Stage[k][2] /\ x.pc = 0
    BY StageFrames
  <2>2. PICK y \in Frames : y = [h EXCEPT !.pc = k + 1]
    <3>1. k + 1 \in 0..5 OBVIOUS
    <3> QED BY <1>2, <3>1, FrameAt, Zenon
  <2>3. stack' = Cons(x, Cons(y, r)) /\ Cons(y, r) \in Seq(Frames)
    <3>1. stack' = <<x, y>> \o r BY <1>6, <2>1, <2>2
    <3> QED BY <1>2, <3>1, ConsPair, ConsTop, Zenon
  <2>4. CASE k = 1
    <3>1. x \in Brings BY <2>1, <2>4 DEF Brings, Stage
    <3> QED BY <2>3, <3>1, SomeTop
  <2>5. CASE k # 1
    <3>1. h.pc # 1
      <4>1. h.pc = 1 => 1 \in h.pc..(k - 1) BY <2>5
      <4> QED BY <1>4, <1>6, <4>1
    <3>2. h.pc > 1
      <4>1. h.pc \in 0..5 BY <1>2, Zenon DEF Frames
      <4>2. h.pc > 0 BY <1>6
      <4> QED BY <3>1, <4>1, <4>2
    <3>3. h \notin Brings
      <4>1. ~(h.pc <= 1) BY <1>2, <3>2 DEF Frames
      <4>2. h.f # "pull" BY <1>1
      <4> QED BY <4>1, <4>2 DEF Brings
    <3> QED BY <1>2, <1>3, <2>3, <3>3, SomeTop, Zenon
  <2> QED BY <2>4, <2>5
<1>7. ASSUME h.pc > 0, CycleEnds(h), stack' = r \/ stack' = <<Cycle(h.n + 1)>> \o r PROVE Some(stack', Brings)
  <2>1. h.pc # 1 BY <1>4, <1>7 DEF CycleEnds
  <2>2. h.pc > 1 BY <1>2, <1>7, <2>1 DEF Frames
  <2>3. h \notin Brings BY <1>1, <1>2, <2>2 DEF Brings, Frames
  <2>4. PICK c \in Frames : c = Cycle(h.n + 1) BY <1>2, PlainMade
  <2>5. stack' = r \/ stack' = Cons(c, r)
    <3>1. stack' = r \/ stack' = <<c>> \o r BY <1>7, <2>4
    <3>2. <<c>> \o r = Cons(c, r) BY <1>2, <2>4, ConsPair, Zenon
    <3> QED BY <3>1, <3>2, Zenon
  <2>6. Some(r, Brings) BY <1>3, <2>3
  <2>7. Some(Cons(c, r), Brings) BY <1>2, <2>6, SomeTop, Zenon
  <2> QED BY <2>5, <2>6, <2>7, Zenon
<1>8. h.pc \in 0..5 BY <1>2, Zenon DEF Frames
<1> QED BY <1>5, <1>6, <1>7, <1>8, CycleCases, Zenon

\* A step of CryptoStream:_pull.
LEMMA _pullAwake == ASSUME Control, Awake, _pull PROVE Awake'
<1> DEFINE h == Head(stack)
           w == h.w
           r == Tail(stack)
<1>0. Types /\ Len(st["enc"].pend) \in Nat
  <2>1. st["enc"].pend \in Seq(Seq(Items)) BY TypeFacts DEF Control
  <2> QED BY <2>1, LenType DEF Control
<1>1. /\ ~Idle /\ h.f = "pull" /\ w \in Sides /\ h \in Frames /\ r \in Seq(Frames)
      /\ \/ h.pc = 0 /\ RestStep(w, r)
         \/ h.pc = 0 /\ \E q \in Seq(Seq(Items)) : EofStep(w, q, r)
         \/ h.pc = 0 /\ UNCHANGED <<net, calls>> /\ \E x \in Frames, q \in Seq(Seq(Items)) : PullStep(w, x, q)
         \/ h.pc = 1 /\ DoneStep(w, r)
         \/ h.pc = 2 /\ ~h.b /\ RefusedStep(w, h.data, r)
         \/ h.pc = 2 /\ h.b /\ TakenStep(w, r) BY PullCases
<1>2. w = "enc" \/ (w = "clr" /\ Other(w) = "enc") BY <1>1 DEF Sides, Other
<1>3. ssl.up /\ st["enc"].pend # <<>> => h \in Brings \/ Some(r, Brings) BY <1>1, SomeStack DEF Awake
<1>4. w = "clr" \/ h.pc = 1 => h \notin Brings BY <1>1 DEF Brings
<1>5. ASSUME w = "clr" \/ h.pc = 1, st'["enc"].pend = st["enc"].pend, ssl'.up => ssl.up, Keeps(r, stack') PROVE Awake'
  BY <1>3, <1>4, <1>5 DEF Awake, Keeps
<1>6. ASSUME NEW q \in Seq(Seq(Items)), NEW e \in Seq(Items), ssl.up, st["enc"].pend = Grown(q, e), st'["enc"].pend = q
      PROVE  Awake'
  <2>1. Len(Grown(q, e)) = Len(q) + 1 /\ Len(q) \in Nat /\ (Len(q) = 0 => q = Nil) BY GrownLen
  <2>2. Len(q) = 0 /\ q = <<>> BY <1>6, <2>1 DEF Awake, Nil
  <2> QED BY <1>6, <2>2 DEF Awake
<1>7. ASSUME h.pc = 0, RestStep(w, r) PROVE Awake'
  <2>1. stack' = r /\ ssl' = ssl /\ st'["enc"].pend = st["enc"].pend /\ (w = "enc" => st["enc"].pend = <<>> \/ ~ssl.up)
    BY <1>7 DEF RestStep, Moves0, Sides
  <2>2. Keeps(r, stack') BY <2>1 DEF Keeps
  <2>3. CASE w = "enc" BY <2>1, <2>3 DEF Awake
  <2> QED BY <1>2, <1>5, <2>1, <2>2, <2>3
<1>8. ASSUME NEW q \in Seq(Seq(Items)), EofStep(w, q, r) PROVE Awake'
  <2>1. /\ ssl.up /\ ssl'.up = ssl.up /\ st[w].pend = Grown(q, Nil) /\ st'[w].pend = q
        /\ st'[Other(w)].pend = st[Other(w)].pend /\ stack' = <<Cycle(0), Frame("pull", w, 1)>> \o r
    BY <1>8 DEF EofStep, Nil
  <2>2. CASE w = "enc" BY <1>6, <2>1, <2>2, NilFacts, Zenon
  <2>3. CASE w = "clr"
    <3>1. Cycle(0) \in Frames /\ Frame("pull", w, 1) \in Frames BY <1>1, PlainMade DEF Methods
    <3>2. stack' = Cons(Cycle(0), Cons(Frame("pull", w, 1), r)) /\ Cons(Frame("pull", w, 1), r) \in Seq(Frames)
      BY <1>1, <2>1, <3>1, ConsPair, ConsTop, Zenon
    <3>3. Some(stack', Brings) BY <3>1, <3>2, CycleBrings, SomeTop
    <3> QED BY <1>2, <2>1, <2>3, <3>3 DEF Awake
  <2> QED BY <1>2, <2>2, <2>3
<1>9. ASSUME NEW x \in Frames, NEW q \in Seq(Seq(Items)), PullStep(w, x, q) PROVE Awake'
  <2>1. /\ Went(x, r) /\ ssl.up /\ ssl'.up = ssl.up /\ st[w].pend = Grown(q, x.data) /\ st'[w].pend = q
        /\ st'[Other(w)] = st[Other(w)] /\ x.data \in Seq(Items) BY <1>9 DEF PullStep, Frames
  <2>2. CASE w = "enc" BY <1>6, <2>1, <2>2
  <2>3. CASE w = "clr"
    <3>1. Fails(r) \/ Quiet(x, r) \/ Ends(x, r) BY <1>0, <1>1, <2>1, WentFields, Zenon
    <3>2. Keeps(r, stack') BY <1>1, <3>1, KeepsGoes, Zenon
    <3> QED BY <1>2, <1>5, <2>1, <2>3, <3>2
  <2> QED BY <1>2, <2>2, <2>3
<1>10. ASSUME h.pc = 1, DoneStep(w, r) PROVE Awake'
  <2>1. st'["enc"].pend = st["enc"].pend /\ (ssl'.up => ssl.up) /\ (stack' = r \/ stack' = Cons(Err, r))
    BY <1>10 DEF DoneStep, Moves0, Sides, Cons
  <2>2. Err \in Frames BY PlainMade
  <2>3. Keeps(r, stack') BY <1>1, <2>1, <2>2, KeepsTop, Zenon
  <2> QED BY <1>5, <1>10, <2>1, <2>3
<1>11. ASSUME h.pc = 2, ~h.b, RefusedStep(w, h.data, r) PROVE Awake'
  <2>1. w = "clr"
    <3>1. FrameFits(h, pair) BY <1>1, TopFits
    <3> QED BY <1>1, <1>11, <3>1 DEF FrameFits, Refusing
  <2>2. st'["enc"] = st["enc"] /\ stack' = r /\ ssl' = ssl BY <1>2, <1>11, <2>1 DEF RefusedStep
  <2> QED BY <1>5, <2>1, <2>2 DEF Keeps
<1>12. ASSUME TakenStep(w, r) PROVE Awake'
  <2>1. /\ st'["enc"].pend = st["enc"].pend /\ ssl' = ssl
        /\ stack' = <<Frame("pull", w, 0)>> \o r \/ stack' = <<User("callback"), Frame("pull", w, 0)>> \o r
    BY <1>2, <1>12 DEF TakenStep
  <2>2. PICK y \in Frames : y = Frame("pull", w, 0) /\ y.f = "pull" /\ y.w = w /\ y.pc = 0
    BY <1>1, FrameMade DEF Methods
  <2>3. User("callback") \in Frames BY PlainMade DEF Handlers
  <2>4. Cons(y, r) \in Seq(Frames) /\ (stack' = Cons(y, r) \/ stack' = Cons(User("callback"), Cons(y, r)))
    BY <1>1, <2>1, <2>2, <2>3, ConsPair, ConsTop, Zenon
  <2>5. w = "enc" => y \in Brings BY <2>2 DEF Brings
  <2>6. CASE w = "enc"
    <3>1. Some(stack', Brings) BY <1>1, <2>3, <2>4, <2>5, <2>6, SomeTop, Zenon
    <3> QED BY <2>1, <3>1 DEF Awake
  <2>7. CASE w = "clr"
    <3>1. Keeps(r, stack') BY <1>1, <2>3, <2>4, KeepsTop, Zenon
    <3> QED BY <1>5, <2>1, <2>7, <3>1
  <2> QED BY <1>2, <2>6, <2>7
<1> QED BY <1>1, <1>7, <1>8, <1>9, <1>10, <1>11, <1>12

\* The buffer is empty when the event loop runs.
LEMMA IdleEmpty ==
  ASSUME Control, Awake, Idle, ssl.up
  PROVE  st["enc"].pend = Nil
BY SomeNone DEF Awake, Idle, Nil

\* The socket gives what it received to the encrypted stream.
LEMMA socketAwake ==
  ASSUME Control, EngineGone, Awake, socket_data \/ (socket_end /\ done("enc"))
  PROVE  Awake'
<1>0. Types /\ "enc" \in Sides /\ Idle /\ stack \in Seq(Frames) /\ net.queue \in Seq(Items) /\ ssl' = ssl
  BY TypeFacts DEF Control, socket_data, socket_end, done
<1>1. CASE ~ssl.up BY <1>0, <1>1 DEF Awake
<1>2. SUFFICES ASSUME ssl.up PROVE Awake' BY <1>1
<1>9. st["enc"].pend = Nil BY <1>0, <1>2, IdleEmpty
<1>3. Cycle(0) \in Frames /\ Frame("write", "enc", 0) \in Frames BY PlainMade DEF Methods, Sides
<1>4. stack' = Cons(Cycle(0), stack) \/ stack' = Cons(Cycle(0), Cons(Frame("write", "enc", 0), stack))
  <2>1. stack' = <<Cycle(0)>> \o stack \/ stack' = <<Cycle(0), Frame("write", "enc", 0)>> \o stack
    BY DEF socket_data, socket_end, write, done
  <2> QED BY <1>0, <1>3, <2>1, ConsPair, Zenon
<1>5. Some(stack', Brings)
  <2>1. Cons(Frame("write", "enc", 0), stack) \in Seq(Frames) BY <1>0, <1>3, ConsTop
  <2> QED BY <1>0, <1>3, <1>4, <2>1, CycleBrings, SomeTop
<1>6. \E e \in Seq(Items) : st'["enc"].pend = Grown(Nil, e)
  <2>1. CASE socket_data
    <3>1. write("enc", net.queue) BY <2>1 DEF socket_data
    <3> QED BY <1>0, <1>9, <3>1, WriteFields
  <2>2. CASE socket_end /\ done("enc")
    <3>1. done("enc") BY <2>2
    <3>2. st'["enc"].pend = Grown(Nil, Nil) /\ Nil \in Seq(Items) BY <1>0, <1>9, <3>1, DoneFields, NilFacts DEF Nil
    <3> QED BY <3>2
  <2> QED BY <2>1, <2>2
<1>7. Len(st'["enc"].pend) = 1
  <2>1. Nil \in Seq(Seq(Items)) BY NilFacts
  <2>2. PICK e \in Seq(Items) : st'["enc"].pend = Grown(Nil, e) BY <1>6
  <2>3. Len(Grown(Nil, e)) = Len(Nil) + 1 BY <2>1, GrownLen
  <2>4. Len(Nil) = 0 BY DEF Nil
  <2> QED BY <2>2, <2>3, <2>4
<1> QED BY <1>5, <1>7 DEF Awake

\* Every other step.
LEMMA restAwake ==
  ASSUME Control, Awake, st'["enc"].pend = st["enc"].pend, ssl'.up => ssl.up,
         Leaves \/ Keeps(stack, stack') \/ ~ssl'.up
  PROVE  Awake'
<1>1. CASE Leaves
  <2>1. ~Idle /\ Head(stack) \notin Brings /\ Keeps(Tail(stack), stack') BY <1>1 DEF Leaves, Brings
  <2> QED BY <2>1, SomeStack DEF Awake, Keeps
<1>2. CASE Keeps(stack, stack') \/ ~ssl'.up BY <1>2 DEF Awake, Keeps
<1> QED BY <1>1, <1>2

\* Every step keeps somebody awake.
LEMMA NextAwake == Control /\ EngineGone /\ Awake /\ [PairNext]_pairVars => Awake'
<1> SUFFICES ASSUME Control, EngineGone, Awake, [PairNext]_pairVars PROVE Awake' OBVIOUS
<1>1. CASE UNCHANGED pairVars BY <1>1 DEF pairVars, Awake
<1>2. CASE cycle \/ _pull \/ socket_data \/ (socket_end /\ done("enc")) BY <1>2, cycleAwake, _pullAwake, socketAwake
<1>3. CASE PairNext /\ ~(cycle \/ _pull \/ socket_data \/ (socket_end /\ done("enc")))
  <2>0. Types /\ "clr" \in Sides /\ Other("clr") = "enc" BY TypeFacts DEF Control
  <2>1. (Leaves \/ Keeps(stack, stack') \/ ~ssl'.up) /\ (ssl'.up => ssl.up)
    BY <1>3, errLeaves, returnLeaves, _pushLeaves, outsideKeeps DEF PairNext, Internal
  <2>2. st'["enc"].pend = st["enc"].pend
    <3>1. CASE Calm BY <3>1 DEF Calm, Sides
    <3>2. CASE start \/ peer_sends BY <3>2 DEF start, peer_sends
    <3>3. CASE _push BY <3>3, PushCases, Zenon DEF PushStep, DoneStep, Moves0, EmitStep, Sides
    <3>4. CASE program_writes
      <4>1. PICK c \in Chunks : write("clr", <<c>>) BY <3>4 DEF program_writes
      <4>2. PICK t \in Seq(Items) : write("clr", t)
        <5>1. <<c>> \in Seq(Items) BY OwnItems
        <5> QED BY <4>1, <5>1, Zenon
      <4> QED BY <2>0, <4>2, WriteFields
    <3>5. CASE done("clr") BY <2>0, <3>5, DoneFields
    <3> QED BY <1>3, <3>1, <3>2, <3>3, <3>4, <3>5, StepCases
  <2> QED BY <2>1, <2>2, restAwake
<1> QED BY <1>1, <1>2, <1>3

\* At first nothing waits.
LEMMA InitAwake == PairInit => Awake
BY DEF PairInit, CryptoStream_initialize, Awake, Sides

-----------------------------------------------------------------------------
\* Sequences of items, from the front.
LEMMA ItemParts ==
  ASSUME NEW s \in Seq(Items), s # Nil
  PROVE  Head(s) \in Items /\ Tail(s) \in Seq(Items) /\ s = Cons(Head(s), Tail(s))
BY ConsParts DEF Cons, Nil

\* An item in front of a sequence.
LEMMA ItemCons ==
  ASSUME NEW s \in Seq(Items), NEW x \in Items
  PROVE  Cons(x, s) \in Seq(Items) /\ Head(Cons(x, s)) = x /\ Tail(Cons(x, s)) = s /\ Cons(x, s) # Nil
<1>1. <<x>> \o s \in Seq(Items) /\ Head(<<x>> \o s) = x /\ Tail(<<x>> \o s) = s /\ <<x>> \o s # <<>> BY ConsPlaces
<1> QED BY <1>1 DEF Cons, Nil

\* An item in front of a join.
LEMMA ItemJoin ==
  ASSUME NEW s \in Seq(Items), NEW t \in Seq(Items), NEW x \in Items
  PROVE  Join(Cons(x, s), t) = Cons(x, Join(s, t))
<1>1. <<x>> \in Seq(Items) OBVIOUS
<1>2. PICK u \in Seq(Items) : u = <<x>> BY <1>1, Zenon
<1>3. (u \o s) \o t = u \o (s \o t) BY CatAssoc
<1> QED BY <1>2, <1>3 DEF Join, Cons

\* A sequence of one item.
LEMMA ItemOne ==
  ASSUME NEW x \in Items
  PROVE  Cons(x, Nil) = <<x>> /\ <<x>> \in Seq(Items) /\ \A s \in Seq(Items) : Append(s, x) = Join(s, <<x>>)
<1>1. Cons(x, Nil) = <<x>> /\ <<x>> \in Seq(Items) BY DEF Cons, Nil
<1>2. \A s \in Seq(Items) : Append(s, x) = s \o <<x>> OBVIOUS
<1> QED BY <1>1, <1>2, Zenon DEF Join

\* What the peer has sent and nobody read yet: flights, chunks, and how it ended.
Hs(k) == IF k = 0 THEN Nil ELSE IF k = 1 THEN Cons("hs", Nil) ELSE Cons("hs", Cons("hs", Nil))
Fin == Cons("fin", Nil)
Bad == Cons("bad", Nil)
Closings == {Nil, Fin, Bad}

\* The line L from the peer to an engine that has read n flights, when the
\* program has got, or is about to get, B; N is the peer and f whether the
\* engine failed.
Fed(L, B, n, N, f) ==
  \E k \in 0..2, p \in Seq(Peers), e \in Closings, z \in Seq(Items) :
    /\ L = Join(Hs(k), Join(p, e)) /\ N.flights = n + k
    /\ e # Nil => N.over
    /\ p # Nil \/ e = Fin => N.flights = 2
    /\ Join(B, Join(p, z)) = PeerChunks
    /\ ~N.over \/ ~f => z = N.todo

\* What the peer sends are items.
LEMMA PeerItems ==
  /\ Peers \subseteq Items /\ Seq(Peers) \subseteq Seq(Items) /\ PeerChunks \in Seq(Peers)
  /\ "hs" \in Items /\ "fin" \in Items /\ "bad" \in Items
  /\ "hs" \notin Peers /\ "fin" \notin Peers /\ "bad" \notin Peers
<1>1. Peers \subseteq Items BY DEF Peers, Items, Others
<1>2. PeerChunks \in Seq(Peers)
  <2>1. MaxPeer \in 0..2 BY PairAssumption
  <2>2. <<"x", "y">> \in Seq(Peers) /\ Len(<<"x", "y">>) = 2 BY DEF Peers
  <2>3. SubSeq(<<"x", "y">>, 1, MaxPeer) \in Seq(Peers) BY <2>1, <2>2, SubSeqProperties
  <2> QED BY <2>3 DEF PeerChunks
<1>3. Seq(Peers) \subseteq Seq(Items) BY <1>1
<1> QED BY <1>1, <1>2, <1>3 DEF Peers, Items, Others

\* The parts of the line from the peer.
LEMMA LineParts ==
  /\ \A k \in 0..2 : Hs(k) \in Seq(Items)
  /\ Hs(0) = Nil
  /\ \A k \in 0..1 : Hs(k + 1) = Cons("hs", Hs(k)) /\ Hs(k + 1) = Join(Hs(k), Cons("hs", Nil))
  /\ Fin \in Seq(Items) /\ Bad \in Seq(Items) /\ Closings \subseteq Seq(Items)
  /\ Fin # Nil /\ Bad # Nil /\ Fin # Bad
<1>0. Nil \in Seq(Items) /\ "hs" \in Items /\ "fin" \in Items /\ "bad" \in Items BY NilFacts, PeerItems
<1>1. Cons("hs", Nil) \in Seq(Items) /\ Fin \in Seq(Items) /\ Bad \in Seq(Items) /\ Fin # Nil /\ Bad # Nil
  BY <1>0, ItemCons DEF Fin, Bad
<1>2. Cons("hs", Cons("hs", Nil)) \in Seq(Items) BY <1>0, <1>1, ItemCons
<1>3. Fin # Bad
  <2>1. Head(Cons("fin", Nil)) = "fin" /\ Head(Cons("bad", Nil)) = "bad" BY <1>0, ItemCons
  <2> QED BY <2>1 DEF Fin, Bad
<1>4. PICK o \in Seq(Items) : o = Cons("hs", Nil) BY <1>1
<1>5. Hs(0) = Nil /\ Hs(1) = o /\ Hs(2) = Cons("hs", o) BY <1>4 DEF Hs
<1>6. Join(Nil, o) = o /\ Join(o, o) = Cons("hs", o)
  <2>1. Join(Cons("hs", Nil), o) = Cons("hs", Join(Nil, o)) BY <1>0, ItemJoin
  <2>2. Join(Nil, o) = o BY JoinNil
  <2> QED BY <1>4, <2>1, <2>2
<1>7. ASSUME NEW k \in 0..1 PROVE Hs(k + 1) = Cons("hs", Hs(k)) /\ Hs(k + 1) = Join(Hs(k), Cons("hs", Nil))
  <2>1. CASE k = 0 BY <1>4, <1>5, <1>6, <2>1
  <2>2. CASE k = 1 BY <1>4, <1>5, <1>6, <2>2
  <2> QED BY <2>1, <2>2
<1>8. \A k \in 0..2 : Hs(k) \in Seq(Items) BY <1>0, <1>1, <1>2 DEF Hs
<1> QED BY <1>0, <1>1, <1>3, <1>5, <1>7, <1>8 DEF Closings

\* The front of the line, once the flights are read.
LEMMA FrontChunk ==
  ASSUME NEW p \in Seq(Peers), NEW e \in Closings, NEW x \in Items, NEW t \in Seq(Items), Join(p, e) = Cons(x, t)
  PROVE  \/ \E q \in Seq(Peers) : x \in Peers /\ p # Nil /\ p = Join(<<x>>, q) /\ t = Join(q, e)
         \/ x = "fin" /\ p = Nil /\ e = Fin /\ t = Nil
         \/ x = "bad" /\ p = Nil /\ e = Bad /\ t = Nil
<1>0. p \in Seq(Items) /\ e \in Seq(Items) BY PeerItems, LineParts
<1>1. CASE p = Nil
  <2>1. e = Cons(x, t) BY <1>0, <1>1, JoinNil
  <2>2. Head(Cons(x, t)) = x /\ Tail(Cons(x, t)) = t /\ Cons(x, t) # Nil BY ItemCons
  <2>3. "fin" \in Items /\ "bad" \in Items /\ Nil \in Seq(Items) BY PeerItems, NilFacts
  <2>4. Head(Fin) = "fin" /\ Tail(Fin) = Nil /\ Head(Bad) = "bad" /\ Tail(Bad) = Nil
    BY <2>3, ItemCons, Zenon DEF Fin, Bad
  <2>5. e = Nil \/ e = Fin \/ e = Bad BY DEF Closings
  <2> QED BY <1>1, <2>1, <2>2, <2>4, <2>5, Zenon
<1>2. CASE p # Nil
  <2>1. PICK y \in Peers, q \in Seq(Peers) : p = <<y>> \o q
    <3>1. Head(p) \in Peers /\ Tail(p) \in Seq(Peers) /\ p = <<Head(p)>> \o Tail(p) BY <1>2, ConsParts DEF Nil
    <3> QED BY <3>1, Zenon
  <2>2. y \in Items /\ q \in Seq(Items) BY PeerItems
  <2>3. p = Cons(y, q) /\ p = Join(<<y>>, q) BY <2>1 DEF Cons, Join
  <2>4. Join(p, e) = Cons(y, Join(q, e)) /\ Join(q, e) \in Seq(Items)
    <3>1. Join(Cons(y, q), e) = Cons(y, Join(q, e)) BY <1>0, <2>2, ItemJoin
    <3>2. Join(q, e) \in Seq(Items) BY <1>0, <2>2, JoinFacts
    <3> QED BY <2>3, <3>1, <3>2
  <2>5. PICK v \in Seq(Items) : v = Join(q, e) BY <2>4
  <2>6. Head(Cons(y, v)) = y /\ Tail(Cons(y, v)) = v /\ Head(Cons(x, t)) = x /\ Tail(Cons(x, t)) = t
    BY <2>2, ItemCons, Zenon
  <2>7. x = y /\ t = v BY <2>4, <2>5, <2>6, Zenon
  <2> QED BY <1>2, <2>3, <2>5, <2>7
<1> QED BY <1>1, <1>2

\* A flight is read.
LEMMA FedFlight ==
  ASSUME NEW i \in Seq(Items), NEW u \in Seq(Items), NEW B, NEW n \in Nat, NEW N, NEW f,
         i # Nil, Head(i) = "hs", N.flights \in 0..2, Fed(Join(i, u), B, n, N, f)
  PROVE  Fed(Join(Tail(i), u), B, n + 1, N, f)
<1>1. PICK k \in 0..2, p \in Seq(Peers), e \in Closings, z \in Seq(Items) :
        /\ Join(i, u) = Join(Hs(k), Join(p, e)) /\ N.flights = n + k
        /\ e # Nil => N.over
        /\ p # Nil \/ e = Fin => N.flights = 2
        /\ Join(B, Join(p, z)) = PeerChunks
        /\ ~N.over \/ ~f => z = N.todo BY DEF Fed
<1>2. p \in Seq(Items) /\ e \in Seq(Items) /\ "hs" \in Items BY PeerItems, LineParts
<1>3. PICK s \in Seq(Items) : s = Join(p, e) BY <1>2, JoinFacts
<1>4. PICK t \in Seq(Items) : t = Tail(i) /\ i = Cons("hs", t) BY ItemParts, Zenon
<1>5. PICK v \in Seq(Items) : v = Join(t, u) BY JoinFacts
<1>6. Cons("hs", v) = Join(Hs(k), s)
  <2>1. Join(Cons("hs", t), u) = Cons("hs", Join(t, u)) BY <1>2, ItemJoin
  <2> QED BY <1>1, <1>3, <1>4, <1>5, <2>1, Zenon
<1>7. k # 0
  <2> SUFFICES ASSUME k = 0 PROVE FALSE OBVIOUS
  <2>1. Join(p, e) = Cons("hs", v) BY <1>3, <1>6, JoinNil, LineParts
  <2>2. "hs" \in Peers \/ "hs" = "fin" \/ "hs" = "bad"
    <3>1. PICK x \in Items : x = "hs" BY <1>2
    <3>2. Join(p, e) = Cons(x, v) BY <2>1, <3>1
    <3>3. \/ \E q \in Seq(Peers) : x \in Peers /\ p # Nil /\ p = Join(<<x>>, q) /\ v = Join(q, e)
          \/ x = "fin" /\ p = Nil /\ e = Fin /\ v = Nil
          \/ x = "bad" /\ p = Nil /\ e = Bad /\ v = Nil BY <3>2, FrontChunk
    <3> QED BY <3>1, <3>3
  <2> QED BY <2>2, PeerItems
<1>8. PICK j \in 0..1 : k = j + 1
  <2>1. k - 1 \in 0..1 /\ k = (k - 1) + 1 BY <1>7
  <2> QED BY <2>1
<1>9. Hs(j) \in Seq(Items) /\ Hs(k) = Cons("hs", Hs(j)) /\ j \in 0..2 BY <1>8, LineParts
<1>10. PICK a \in Seq(Items) : a = Hs(j) BY <1>9
<1>11. Join(Hs(k), s) = Cons("hs", Join(a, s)) /\ Join(a, s) \in Seq(Items)
  <2>1. Join(Cons("hs", a), s) = Cons("hs", Join(a, s)) BY <1>2, ItemJoin
  <2>2. Join(a, s) \in Seq(Items) BY JoinFacts
  <2> QED BY <1>9, <1>10, <2>1, <2>2
<1>12. v = Join(a, s)
  <2>1. PICK b \in Seq(Items) : b = Join(a, s) BY <1>11
  <2>2. Tail(Cons("hs", v)) = v /\ Tail(Cons("hs", b)) = b BY <1>2, ItemCons, Zenon
  <2> QED BY <1>6, <1>11, <2>1, <2>2, Zenon
<1>13. Join(Tail(i), u) = Join(Hs(j), Join(p, e)) /\ N.flights = (n + 1) + j
  BY <1>1, <1>3, <1>4, <1>5, <1>8, <1>10, <1>12
<1> QED BY <1>1, <1>9, <1>13, Zenon DEF Fed

\* tls_conn_start that does not fail.
LEMMA FedShake ==
  ASSUME NEW g \in Engines, NEW u \in Seq(Items), NEW B, NEW N, NEW f, N.flights \in 0..2,
         g.flights = 2 \/ ~tls_conn_start(g).error, Fed(Join(g.in, u), B, g.flights, N, f)
  PROVE  Fed(Join(tls_conn_start(g).in, u), B, tls_conn_start(g).flights, N, f)
<1>1. PICK h : h = tls_conn_start(g) OBVIOUS
<1>2. /\ Shakes(g, h) /\ (g.flights = 2 => h = g)
      /\ \/ Rests(g, h)
         \/ g.flights < 2 /\ Takes(g, h)
         \/ \E m \in Engines : g.flights < 2 /\ Takes(g, m) /\ m.flights < 2 /\ Takes(m, h) /\ ~m.error
  BY <1>1, StartFields
<1>3. ASSUME NEW a \in Engines, NEW b \in Engines, Takes(a, b), ~b.error, Fed(Join(a.in, u), B, a.flights, N, f)
      PROVE  Fed(Join(b.in, u), B, b.flights, N, f)
  <2>1. a.in # Nil /\ b.in = Tail(a.in) /\ Head(a.in) = "hs" /\ b.flights = a.flights + 1 BY <1>3 DEF Takes, Nil
  <2>2. a.in \in Seq(Items) /\ a.flights \in Nat BY DEF Engines, Flights
  <2>3. PICK i \in Seq(Items), n \in Nat : i = a.in /\ n = a.flights BY <2>2
  <2>4. Fed(Join(Tail(i), u), B, n + 1, N, f) BY <1>3, <2>1, <2>3, FedFlight
  <2> QED BY <2>1, <2>3, <2>4
<1>4. h \in Engines BY <1>2 DEF Shakes
<1>5. CASE g.flights = 2 BY <1>1, <1>2, <1>5
<1>6. CASE Rests(g, h) BY <1>1, <1>6 DEF Rests
<1>7. CASE g.flights < 2 /\ Takes(g, h) BY <1>1, <1>3, <1>4, <1>7
<1>8. ASSUME NEW m \in Engines, g.flights < 2, Takes(g, m), Takes(m, h), ~m.error PROVE Fed(Join(h.in, u), B, h.flights, N, f)
  <2>1. ~h.error BY <1>1, <1>8
  <2>2. Fed(Join(m.in, u), B, m.flights, N, f) BY <1>3, <1>8
  <2> QED BY <1>3, <1>4, <1>8, <2>1, <2>2
<1> QED BY <1>1, <1>2, <1>5, <1>6, <1>7, <1>8

\* SSL_read takes one item.
LEMMA FedRead ==
  ASSUME NEW i \in Seq(Items), NEW u \in Seq(Items), NEW B \in Seq(Items), NEW N, NEW f,
         i # Nil, N.flights \in 0..2, Fed(Join(i, u), B, 2, N, f)
  PROVE  /\ Head(i) = "fin" => Fed(Join(Tail(i), u), B, 2, N, f)
         /\ Head(i) \notin {"fin", "bad"} => Fed(Join(Tail(i), u), Join(B, <<Head(i)>>), 2, N, f)
         /\ Head(i) = "bad" => \A A, d \in Seq(Items) : B = Join(A, d) => Fed(Join(Tail(i), u), A, 2, N, TRUE)
<1>1. PICK k \in 0..2, p \in Seq(Peers), e \in Closings, z \in Seq(Items) :
        /\ Join(i, u) = Join(Hs(k), Join(p, e)) /\ N.flights = 2 + k
        /\ e # Nil => N.over
        /\ p # Nil \/ e = Fin => N.flights = 2
        /\ Join(B, Join(p, z)) = PeerChunks
        /\ ~N.over \/ ~f => z = N.todo BY DEF Fed
<1>2. p \in Seq(Items) /\ e \in Seq(Items) /\ Nil \in Seq(Peers) /\ Nil \in Seq(Items) /\ Nil \in Closings
  BY PeerItems, LineParts, NilFacts, Zenon DEF Closings
<1>3. k = 0 /\ Hs(0) = Nil /\ N.flights = 2 + 0 /\ 0 \in 0..2 BY <1>1, LineParts
<1>4. PICK x \in Items, t \in Seq(Items) : x = Head(i) /\ t = Tail(i) /\ i = Cons(x, t) BY ItemParts, Zenon
<1>5. PICK v \in Seq(Items) : v = Join(t, u) BY JoinFacts
<1>6. Join(p, e) \in Seq(Items) BY <1>2, JoinFacts
<1>7. Join(p, e) = Cons(x, v)
  <2>1. Join(Nil, Join(p, e)) = Join(p, e) BY <1>6, JoinNil
  <2>2. Join(i, u) = Cons(x, v)
    <3>1. Join(Cons(x, t), u) = Cons(x, Join(t, u)) BY ItemJoin
    <3> QED BY <1>4, <1>5, <3>1, Zenon
  <2> QED BY <1>1, <1>3, <2>1, <2>2
<1>8. Join(Nil, Join(Nil, Nil)) = Nil /\ Join(Nil, z) = z BY <1>2, JoinNil
<1>9. CASE x = "fin" /\ p = Nil /\ e = Fin /\ v = Nil
  <2>1. v = Join(Hs(0), Join(Nil, Nil)) /\ Join(B, Join(Nil, z)) = PeerChunks BY <1>1, <1>3, <1>8, <1>9
  <2>2. Fed(v, B, 2, N, f)
    <3>1. Nil # Nil \/ Nil = Fin => N.flights = 2 BY <1>3
    <3> QED BY <1>1, <1>2, <1>3, <2>1, <3>1, Zenon DEF Fed
  <2> QED BY <1>4, <1>5, <1>9, <2>2, Zenon
<1>10. CASE x = "bad" /\ p = Nil /\ e = Bad /\ v = Nil
  <2>1. ASSUME NEW A \in Seq(Items), NEW d \in Seq(Items), B = Join(A, d) PROVE Fed(v, A, 2, N, TRUE)
    <3>1. PICK y \in Seq(Items) : y = Join(d, z) BY JoinFacts
    <3>2. Join(A, Join(Nil, y)) = PeerChunks
      <4>1. Join(Nil, y) = y /\ Join(Join(A, d), z) = Join(A, Join(d, z)) BY JoinNil, JoinAssoc
      <4> QED BY <1>1, <1>8, <1>10, <2>1, <3>1, <4>1
    <3>3. v = Join(Hs(0), Join(Nil, Nil)) /\ N.over BY <1>1, <1>3, <1>8, <1>10, LineParts
    <3>4. y \in Seq(Items) /\ Nil \in Seq(Peers) /\ Nil \in Closings /\ 0 \in 0..2 /\ N.flights = 2 + 0
      BY <1>2, <1>3, Zenon
    <3>5. ~(Nil # Nil) /\ (Nil = Fin => N.flights = 2) BY <1>3, LineParts
    <3>6. ~N.over \/ ~TRUE => y = N.todo BY <3>3
    <3> QED BY <3>2, <3>3, <3>4, <3>5, <3>6, Zenon DEF Fed
  <2> QED BY <1>4, <1>5, <1>10, <2>1, Zenon
<1>11. ASSUME NEW q \in Seq(Peers), x \in Peers, p # Nil, p = Join(<<x>>, q), v = Join(q, e)
       PROVE  Fed(v, Join(B, <<x>>), 2, N, f)
  <2>0. q \in Seq(Items) /\ <<x>> \in Seq(Items) BY PeerItems, ItemOne
  <2>1. PICK o \in Seq(Items) : o = <<x>> BY <2>0, Zenon
  <2>2. Join(q, z) \in Seq(Items) /\ Join(q, e) \in Seq(Items) BY <1>2, <2>0, JoinFacts
  <2>3. PICK y \in Seq(Items) : y = Join(q, z) BY <2>2
  <2>4. Join(Join(o, q), z) = Join(o, y) BY <2>0, <2>3, JoinAssoc
  <2>5. Join(Join(B, o), y) = Join(B, Join(o, y)) BY JoinAssoc
  <2>6. Join(Join(B, <<x>>), Join(q, z)) = PeerChunks BY <1>1, <1>11, <2>1, <2>3, <2>4, <2>5
  <2>7. v = Join(Hs(0), Join(q, e)) BY <1>3, <1>11, <2>2, JoinNil
  <2>8. N.flights = 2 BY <1>3
  <2>9. PICK C : C = Join(B, <<x>>) OBVIOUS
  <2>10. Fed(v, C, 2, N, f) BY <1>1, <1>2, <1>3, <2>6, <2>7, <2>8, <2>9, Zenon DEF Fed
  <2> QED BY <2>9, <2>10
<1>12. \/ \E q \in Seq(Peers) : x \in Peers /\ p # Nil /\ p = Join(<<x>>, q) /\ v = Join(q, e)
       \/ x = "fin" /\ p = Nil /\ e = Fin /\ v = Nil
       \/ x = "bad" /\ p = Nil /\ e = Bad /\ v = Nil BY <1>7, FrontChunk
<1>13. x \in Peers => x \notin {"fin", "bad"} BY PeerItems
<1> QED BY <1>4, <1>5, <1>9, <1>10, <1>11, <1>12, <1>13, Zenon

\* More is known, and less is asked.
LEMMA FedLater ==
  ASSUME NEW L, NEW B, NEW n, NEW N, NEW f, NEW M, NEW g, Fed(L, B, n, N, f), f => g, N.over => M.over,
         M.todo = N.todo, M.flights = N.flights
  PROVE  Fed(L, B, n, M, g)
BY DEF Fed

\* What came out of the line first is a prefix of what the peer sent.
LEMMA FedPrefix ==
  ASSUME NEW L, NEW a \in Seq(Items), NEW b \in Seq(Items), NEW n, NEW N, NEW f, Fed(L, Join(a, b), n, N, f)
  PROVE  IsPrefix(a, PeerChunks)
<1>1. PICK p \in Seq(Peers), z \in Seq(Items) : Join(Join(a, b), Join(p, z)) = PeerChunks BY DEF Fed
<1>2. p \in Seq(Items) BY PeerItems
<1>3. PICK y \in Seq(Items) : y = Join(p, z) BY <1>2, JoinFacts
<1>4. PICK x \in Seq(Items) : x = Join(b, y) BY JoinFacts
<1>5. Join(a, x) = PeerChunks BY <1>1, <1>3, <1>4, JoinAssoc
<1>6. Len(a) \in Nat /\ Len(x) \in Nat /\ Len(PeerChunks) = Len(a) + Len(x) BY <1>5, JoinFacts, LenType
<1>7. SubSeq(PeerChunks, 1, Len(a)) = SubSeq(a, 1, Len(a))
  <2>1. SubSeq(a \o x, 1, Len(a)) = a /\ SubSeq(a, 1, Len(a)) = a OBVIOUS
  <2> QED BY <1>5, <2>1 DEF Join
<1> QED BY <1>6, <1>7 DEF IsPrefix

-----------------------------------------------------------------------------
\* What is on its way to the program.
Line(i, q, u) == Join(i, Join(FlattenSeq(q), u))
Incoming == Line(ssl.in, st["enc"].pend, net.queue)
Coming == Join(io.got, Held(stack, "push", "clr"))

\* The pair may still deliver: its handshake did not fail.
Sane == ~pair.fault /\ (pair.secure \/ ~ssl.error)

Receives ==
  /\ IsPrefix(io.got, PeerChunks)
  /\ Sane => Fed(Incoming, Coming, ssl.flights, net, pair.failed)

\* The types of what the line is made of.
LEMMA LineTypes ==
  ASSUME Types
  PROVE  /\ ssl.in \in Seq(Items) /\ net.queue \in Seq(Items) /\ FlattenSeq(st["enc"].pend) \in Seq(Items)
         /\ Join(FlattenSeq(st["enc"].pend), net.queue) \in Seq(Items)
         /\ io.got \in Seq(Items) /\ Held(stack, "push", "clr") \in Seq(Items) /\ Coming \in Seq(Items)
         /\ net.flights \in 0..2 /\ net.todo \in Seq(Peers) /\ ssl \in Engines
         /\ st["enc"].pend \in Seq(Seq(Items))
<1>1. /\ ssl.in \in Seq(Items) /\ net.queue \in Seq(Items) /\ st["enc"].pend \in Seq(Seq(Items))
      /\ io.got \in Seq(Items) /\ net.flights \in 0..2 /\ net.todo \in Seq(Peers) /\ stack \in Seq(Frames)
      /\ ssl \in Engines BY TypeFacts DEF TypesBut
<1>2. FlattenSeq(st["enc"].pend) \in Seq(Items) BY <1>1, FlatType
<1>3. Held(stack, "push", "clr") \in Seq(Items) BY <1>1, HeldType
<1>4. Join(FlattenSeq(st["enc"].pend), net.queue) \in Seq(Items) /\ Coming \in Seq(Items)
  BY <1>1, <1>2, <1>3, JoinFacts, Zenon DEF Coming
<1> QED BY <1>1, <1>2, <1>3, <1>4

\* A step that leaves the line alone, or moves something along it.
LEMMA SameLine ==
  ASSUME Receives, io'.got = io.got, Sane' => Sane, Incoming' = Incoming,
         Held(stack', "push", "clr") = Held(stack, "push", "clr"), ssl'.flights = ssl.flights,
         net'.todo = net.todo, net'.flights = net.flights, net.over => net'.over, pair.failed => pair'.failed
  PROVE  Receives'
<1>1. Coming' = Coming BY DEF Coming
<1>2. Sane' => Fed(Incoming, Coming, ssl.flights, net', pair'.failed)
  <2>1. Sane' => Fed(Incoming, Coming, ssl.flights, net, pair.failed) BY DEF Receives
  <2> QED BY <2>1, FedLater
<1> QED BY <1>1, <1>2 DEF Receives

\* A calm step.
LEMMA CalmReceives == ASSUME Receives, Calm PROVE Receives'
<1>1. Incoming' = Incoming BY DEF Calm, Incoming, Sides
<1>2. Held(stack', "push", "clr") = Held(stack, "push", "clr") BY DEF Calm, Alike, SameHeld, Sides
<1>3. Sane' => Sane BY DEF Calm, Sane
<1> QED BY <1>1, <1>2, <1>3, SameLine DEF Calm

\* The timer starts the pair.
LEMMA startReceives == ASSUME Control, Control', Receives, start PROVE Receives'
<1>0. Types /\ ssl \in Engines /\ pair \in Flags BY DEF Control, Types
<1>1. /\ stack = <<>> /\ stack' = <<Cycle(0)>> /\ UNCHANGED <<st, net, io, calls>>
      /\ pair' = [pair EXCEPT !.started = TRUE] /\ ssl' = (IF ssl.up THEN tls_conn_start(ssl) ELSE ssl)
  BY DEF start, Idle
<1>2. pair'.secure = pair.secure /\ pair'.failed = pair.failed /\ pair'.fault = pair.fault BY <1>0, <1>1 DEF Flags
<1>3. Cycle(0) \in Frames /\ Plain(Cycle(0)) /\ stack \in Seq(Frames) BY <1>1, PlainMade
<1>4. stack' = Cons(Cycle(0), stack) BY <1>1, <1>3 DEF Cons
<1>5. Held(stack', "push", "clr") = Held(stack, "push", "clr") BY <1>3, <1>4, HeldTop DEF Plain, SameHeld, Sides
<1>6. Coming' = Coming /\ io'.got = io.got BY <1>1, <1>5 DEF Coming
<1>7. ssl.error => ssl'.error BY <1>0, <1>1, StartFields DEF Shakes
<1>8. Sane' => Sane BY <1>2, <1>7 DEF Sane
<1>9. ASSUME Sane' PROVE Fed(Incoming', Coming, ssl'.flights, net, pair.failed)
  <2>1. Fed(Incoming, Coming, ssl.flights, net, pair.failed) BY <1>8, <1>9 DEF Receives
  <2>2. CASE ssl' = ssl BY <1>1, <2>1, <2>2 DEF Incoming
  <2>3. CASE ssl' = tls_conn_start(ssl)
    <3>1. ssl.flights = 2 \/ ~ssl'.error BY <1>2, <1>9 DEF Sane, Control, Guards
    <3>2. PICK u \in Seq(Items) : u = Join(FlattenSeq(st["enc"].pend), net.queue) BY <1>0, LineTypes
    <3>3. net.flights \in 0..2 BY <1>0, LineTypes
    <3>4. Fed(Join(ssl.in, u), Coming, ssl.flights, net, pair.failed) BY <2>1, <3>2 DEF Incoming, Line
    <3>5. Fed(Join(ssl'.in, u), Coming, ssl'.flights, net, pair.failed)
      <4>1. PICK g \in Engines : g = ssl BY <1>0
      <4>2. PICK C, N, f : C = Coming /\ N = net /\ f = pair.failed OBVIOUS
      <4>3. Fed(Join(tls_conn_start(g).in, u), C, tls_conn_start(g).flights, N, f)
        BY <2>3, <3>1, <3>3, <3>4, <4>1, <4>2, FedShake, Zenon
      <4> QED BY <2>3, <4>1, <4>2, <4>3
    <3> QED BY <1>1, <3>2, <3>5 DEF Incoming, Line
  <2> QED BY <1>1, <2>2, <2>3
<1> QED BY <1>1, <1>2, <1>6, <1>9 DEF Receives

\* The program writes or ends the stream.
LEMMA programReceives ==
  ASSUME Control, Receives, program_writes \/ (Running /\ done("clr") /\ UNCHANGED net)
  PROVE  Receives'
<1>0. Types /\ "clr" \in Sides /\ Other("clr") = "enc" /\ stack \in Seq(Frames) /\ Running
  BY TypeFacts DEF Control, program_writes
<1>1. Cycle(0) \in Frames /\ Plain(Cycle(0)) /\ Frame("write", "clr", 0) \in Frames /\ Plain(Frame("write", "clr", 0))
  BY <1>0, PlainMade DEF Methods
<1>2. /\ st'["enc"] = st["enc"] /\ pair'.secure = pair.secure /\ pair'.failed = pair.failed /\ pair'.fault = pair.fault
      /\ io'.got = io.got /\ ssl' = ssl /\ net' = net
  <2>1. CASE program_writes
    <3>1. PICK c \in Chunks : write("clr", <<c>>) /\ io' = [io EXCEPT !.written = Append(@, c)] /\ ssl' = ssl /\ net' = net
      BY <2>1, Zenon DEF program_writes
    <3>2. PICK t \in Seq(Items) : write("clr", t)
      <4>1. <<c>> \in Seq(Items) BY OwnItems
      <4> QED BY <3>1, <4>1, Zenon
    <3>3. io'.got = io.got BY <1>0, <3>1 DEF Types, Ios
    <3> QED BY <1>0, <3>1, <3>2, <3>3, WriteFields
  <2>2. CASE done("clr") /\ UNCHANGED net BY <1>0, <2>2, DoneFields
  <2> QED BY <2>1, <2>2
<1>3. stack' = <<Cycle(0)>> \o stack \/ stack' = <<Cycle(0), Frame("write", "clr", 0)>> \o stack
  BY Zenon DEF program_writes, write, done
<1>4. stack' = Cons(Cycle(0), stack) \/ stack' = Cons(Cycle(0), Cons(Frame("write", "clr", 0), stack))
  BY <1>0, <1>1, <1>3, ConsPair, Zenon
<1>5. Restacked BY <1>0, <1>1, <1>4 DEF Restacked
<1>6. Held(stack', "push", "clr") = Held(stack, "push", "clr")
  <2>1. Alike(stack, stack') BY <1>0, <1>5, RunningPlain, RestackedCalm
  <2> QED BY <2>1 DEF Alike, SameHeld, Sides
<1>7. Incoming' = Incoming /\ (Sane' => Sane) BY <1>2 DEF Incoming, Sane
<1> QED BY <1>2, <1>6, <1>7, SameLine

\* The socket gives what it has to the encrypted stream, or ends.
LEMMA socketReceives ==
  ASSUME Control, EngineGone, Awake, Receives, socket_data \/ (socket_end /\ done("enc"))
  PROVE  Receives'
<1>0. Types /\ "enc" \in Sides /\ stack \in Seq(Frames) /\ stack = <<>> /\ net.queue \in Seq(Items) /\ net \in Nets
  BY TypeFacts DEF Control, Types, socket_data, socket_end, Idle
<1>1. st["enc"].pend \in Seq(Seq(Items)) /\ FlattenSeq(st["enc"].pend) \in Seq(Items) BY <1>0, LineTypes
<1>2. Cycle(0) \in Frames /\ Plain(Cycle(0)) /\ Frame("write", "enc", 0) \in Frames /\ Plain(Frame("write", "enc", 0))
  BY <1>0, PlainMade DEF Methods
<1>3. stack' = <<Cycle(0)>> \o stack \/ stack' = <<Cycle(0), Frame("write", "enc", 0)>> \o stack
  BY DEF socket_data, socket_end, write, done
<1>4. stack' = Cons(Cycle(0), stack) \/ stack' = Cons(Cycle(0), Cons(Frame("write", "enc", 0), stack))
  BY <1>0, <1>2, <1>3, ConsPair, Zenon
<1>5. Restacked BY <1>0, <1>2, <1>4, Zenon DEF Restacked
<1>6. Held(stack', "push", "clr") = Held(stack, "push", "clr")
  <2>1. Alike(stack, stack') BY <1>0, <1>5, RestackedCalm
  <2> QED BY <2>1 DEF Alike, SameHeld, Sides
<1>7. \E e \in Seq(Items), u \in Seq(Items) :
        /\ st'["enc"].pend = Grown(st["enc"].pend, e) /\ net'.queue = u /\ Join(e, u) = net.queue
        /\ net'.todo = net.todo /\ net'.flights = net.flights /\ (net.over => net'.over)
        /\ io' = io /\ ssl' = ssl /\ pair'.secure = pair.secure /\ pair'.failed = pair.failed /\ pair'.fault = pair.fault
  <2>0. Nil \in Seq(Items) /\ Join(net.queue, Nil) = net.queue /\ Join(Nil, net.queue) = net.queue
    BY <1>0, NilFacts, JoinNil
  <2>1. CASE socket_data
    <3>1. write("enc", net.queue) /\ net' = [net EXCEPT !.queue = <<>>] /\ ssl' = ssl /\ io' = io
      BY <2>1 DEF socket_data
    <3>2. net'.queue = Nil /\ net'.todo = net.todo /\ net'.flights = net.flights /\ net'.over = net.over
      BY <1>0, <3>1 DEF Nets, Nil
    <3>3. st'["enc"].pend = Grown(st["enc"].pend, net.queue) /\ pair'.secure = pair.secure /\ pair'.failed = pair.failed /\ pair'.fault = pair.fault
      BY <1>0, <1>1, <3>1, WriteFields
    <3> QED BY <1>0, <2>0, <3>1, <3>2, <3>3, Zenon
  <2>2. CASE socket_end /\ done("enc")
    <3>1. /\ done("enc") /\ net' = Ended(net, TRUE, TRUE, ssl.server)
          /\ net.queue = Nil /\ ssl.server \in BOOLEAN BY <1>0, <2>2 DEF socket_end, Nil, Types, Engines, Ended
    <3>2. net'.queue = Nil /\ net'.todo = net.todo /\ net'.flights = net.flights /\ net'.over
      BY <1>0, <3>1, NetEnded DEF SameQueue
    <3>3. st'["enc"].pend = Grown(st["enc"].pend, Nil) /\ pair'.secure = pair.secure /\ pair'.failed = pair.failed /\ pair'.fault = pair.fault
          /\ ssl' = ssl /\ io' = io BY <1>0, <1>1, <3>1, DoneFields DEF Nil
    <3> QED BY <1>0, <2>0, <3>1, <3>2, <3>3
  <2> QED BY <2>1, <2>2
<1>8. PICK e \in Seq(Items), u \in Seq(Items) :
        /\ st'["enc"].pend = Grown(st["enc"].pend, e) /\ net'.queue = u /\ Join(e, u) = net.queue
        /\ net'.todo = net.todo /\ net'.flights = net.flights /\ (net.over => net'.over)
        /\ io' = io /\ ssl' = ssl /\ pair'.secure = pair.secure /\ pair'.failed = pair.failed /\ pair'.fault = pair.fault
  BY <1>7
<1>9. FlattenSeq(Grown(st["enc"].pend, e)) = Join(FlattenSeq(st["enc"].pend), e) BY <1>1, FlatGrown
<1>10. Incoming' = Incoming
  <2>1. PICK g \in Seq(Items) : g = FlattenSeq(st["enc"].pend) BY <1>1
  <2>2. Incoming = Join(ssl.in, Join(g, Join(e, u))) BY <1>8, <2>1 DEF Incoming, Line
  <2>3. Incoming' = Join(ssl.in, Join(Join(g, e), u)) BY <1>8, <1>9, <2>1 DEF Incoming, Line
  <2>4. Join(Join(g, e), u) = Join(g, Join(e, u)) BY <2>1, JoinAssoc
  <2> QED BY <2>2, <2>3, <2>4
<1>11. Sane' => Sane BY <1>8 DEF Sane
<1> QED BY <1>6, <1>8, <1>10, <1>11, SameLine

\* The peer sends one item more.
LEMMA FedMore ==
  ASSUME NEW L, NEW B, NEW n \in Nat, NEW N, NEW M, NEW f, Fed(L, B, n, N, f), ~N.over,
         N.flights \in 0..2, N.todo \in Seq(Peers)
  PROVE  /\ N.flights < 2 /\ M.flights = N.flights + 1 /\ M.todo = N.todo
              => Fed(Join(L, Cons("hs", Nil)), B, n, M, f)
         /\ N.flights = 2 /\ N.todo # Nil /\ M.flights = N.flights /\ M.todo = Tail(N.todo)
              => Fed(Join(L, <<Head(N.todo)>>), B, n, M, f)
         /\ \A c \in {Fin, Bad} : (c = Fin => N.flights = 2) /\ M.flights = N.flights /\ M.todo = N.todo /\ M.over
              => Fed(Join(L, c), B, n, M, f)
<1>1. PICK k \in 0..2, p \in Seq(Peers), e \in Closings, z \in Seq(Items) :
        /\ L = Join(Hs(k), Join(p, e)) /\ N.flights = n + k
        /\ e # Nil => N.over
        /\ p # Nil \/ e = Fin => N.flights = 2
        /\ Join(B, Join(p, z)) = PeerChunks
        /\ ~N.over \/ ~f => z = N.todo BY DEF Fed
<1>2. e = Nil /\ z = N.todo /\ p \in Seq(Items) /\ Nil \in Seq(Items) /\ Nil \in Seq(Peers) /\ Nil \in Closings
  BY <1>1, PeerItems, NilFacts DEF Closings
<1>3. PICK a \in Seq(Items) : a = Hs(k) BY LineParts
<1>4. L = Join(a, p) BY <1>1, <1>2, <1>3, JoinNil
<1>5. ASSUME N.flights < 2, M.flights = N.flights + 1, M.todo = N.todo PROVE Fed(Join(L, Cons("hs", Nil)), B, n, M, f)
  <2>1. p = Nil /\ k \in 0..1 /\ k + 1 \in 0..2 BY <1>1, <1>5
  <2>2. L = a BY <1>4, <2>1, JoinNil
  <2>3. Join(L, Cons("hs", Nil)) = Hs(k + 1) /\ Hs(k + 1) \in Seq(Items) BY <1>3, <2>1, <2>2, LineParts, Zenon
  <2>4. Hs(k + 1) = Join(Hs(k + 1), Join(Nil, Nil)) BY <1>2, <2>3, JoinNil
  <2>5. M.flights = n + (k + 1) BY <1>1, <1>5
  <2>6. Join(B, Join(Nil, z)) = PeerChunks BY <1>1, <2>1
  <2> QED BY <1>2, <1>5, <2>1, <2>3, <2>4, <2>5, <2>6, LineParts, Zenon DEF Fed
<1>6. ASSUME N.flights = 2, N.todo # Nil, M.flights = N.flights, M.todo = Tail(N.todo)
      PROVE  Fed(Join(L, <<Head(N.todo)>>), B, n, M, f)
  <2>0. PICK T \in Seq(Peers) : T = N.todo OBVIOUS
  <2>00. Head(T) \in Peers /\ Tail(T) \in Seq(Peers) /\ T = <<Head(T)>> \o Tail(T) BY <1>6, <2>0, ConsParts DEF Nil
  <2>1. PICK y \in Peers, t \in Seq(Peers) : y = Head(N.todo) /\ t = Tail(N.todo) /\ N.todo = <<y>> \o t
    BY <2>0, <2>00, Zenon
  <2>2. y \in Items /\ t \in Seq(Items) /\ <<y>> \in Seq(Items) /\ <<y>> \in Seq(Peers) BY PeerItems, ItemOne
  <2>3. PICK o \in Seq(Items) : o = <<y>> /\ o \in Seq(Peers) BY <2>2, Zenon
  <2>4. N.todo = Join(o, t) BY <2>1, <2>3, Zenon DEF Join
  <2>5. PICK q \in Seq(Peers) : q = Join(p, o) BY <2>3, JoinFacts, Zenon
  <2>6. Join(q, t) = Join(p, N.todo) BY <1>2, <2>2, <2>4, <2>5, JoinAssoc
  <2>7. Join(B, Join(q, t)) = PeerChunks BY <1>1, <1>2, <2>6
  <2>8. Join(L, o) = Join(Hs(k), Join(q, Nil))
    <3>1. q \in Seq(Items) BY PeerItems
    <3>2. Join(Join(a, p), o) = Join(a, Join(p, o)) /\ Join(q, Nil) = q BY <1>2, <3>1, JoinAssoc, JoinNil
    <3> QED BY <1>3, <1>4, <2>5, <3>2
  <2>9. M.flights = n + k /\ M.flights = 2 BY <1>1, <1>6, Zenon
  <2>10. Fed(Join(L, o), B, n, M, f)
    <3>1. Nil # Fin BY LineParts
    <3> QED BY <1>2, <1>6, <2>1, <2>2, <2>7, <2>8, <2>9, <3>1, Zenon DEF Fed
  <2> QED BY <2>1, <2>3, <2>10
<1>7. ASSUME NEW c \in {Fin, Bad}, c = Fin => N.flights = 2, M.flights = N.flights, M.todo = N.todo, M.over
      PROVE  Fed(Join(L, c), B, n, M, f)
  <2>1. c \in Closings /\ c \in Seq(Items) BY LineParts, Zenon DEF Closings
  <2>2. Join(L, c) = Join(Hs(k), Join(p, c)) BY <1>2, <1>3, <1>4, <2>1, JoinAssoc
  <2> QED BY <1>1, <1>2, <1>7, <2>1, <2>2 DEF Fed
<1> QED BY <1>5, <1>6, <1>7

\* The peer sends.
LEMMA peer_sendsReceives == ASSUME Control, Receives, peer_sends PROVE Receives'
<1>0. Types /\ net \in Nets /\ net.queue \in Seq(Items) /\ net.flights \in 0..2 /\ net.todo \in Seq(Peers)
      /\ ssl.flights \in Nat BY TypeFacts DEF Control, Types
<1>1. ~net.over /\ UNCHANGED <<st, ssl, pair, stack, io, calls>> BY DEF peer_sends
<1>2. PICK y \in Items :
        /\ net'.queue = Append(net.queue, y)
        /\ \/ y = "hs" /\ net.flights < 2 /\ net'.flights = net.flights + 1 /\ net'.todo = net.todo
           \/ /\ net.flights = 2 /\ net.todo # Nil /\ y = Head(net.todo)
              /\ net'.flights = net.flights /\ net'.todo = Tail(net.todo)
           \/ /\ y \in {"fin", "bad"} /\ (y = "fin" => net.flights = 2) /\ net'.over
              /\ net'.flights = net.flights /\ net'.todo = net.todo
  <2>1. CASE net.flights < Flights /\ net' = [net EXCEPT !.flights = @ + 1, !.queue = Append(@, "hs")]
    <3>1. net'.queue = Append(net.queue, "hs") /\ net'.flights = net.flights + 1 /\ net'.todo = net.todo
      BY <1>0, <2>1 DEF Nets
    <3> QED BY <2>1, <3>1, PeerItems DEF Flights
  <2>2. CASE net.flights = Flights /\ net.todo # <<>>
             /\ net' = [net EXCEPT !.todo = Tail(@), !.queue = Append(@, Head(net.todo))]
    <3>1. net'.queue = Append(net.queue, Head(net.todo)) /\ net'.flights = net.flights /\ net'.todo = Tail(net.todo)
      BY <1>0, <2>2 DEF Nets
    <3>2. Head(net.todo) \in Items BY <1>0, <2>2, ConsParts, PeerItems
    <3> QED BY <2>2, <3>1, <3>2 DEF Flights, Nil
  <2>3. CASE net.flights = Flights /\ net' = [net EXCEPT !.over = TRUE, !.queue = Append(@, "fin")]
    <3>1. net'.queue = Append(net.queue, "fin") /\ net'.flights = net.flights /\ net'.todo = net.todo /\ net'.over
      BY <1>0, <2>3 DEF Nets
    <3> QED BY <2>3, <3>1, PeerItems DEF Flights
  <2>4. CASE net' = [net EXCEPT !.over = TRUE, !.queue = Append(@, "bad")]
    <3>1. net'.queue = Append(net.queue, "bad") /\ net'.flights = net.flights /\ net'.todo = net.todo /\ net'.over
      BY <1>0, <2>4 DEF Nets
    <3> QED BY <2>4, <3>1, PeerItems
  <2> QED BY <2>1, <2>2, <2>3, <2>4 DEF peer_sends
<1>3. <<y>> \in Seq(Items) /\ Cons(y, Nil) = <<y>> /\ net'.queue = Join(net.queue, <<y>>) BY <1>0, <1>2, ItemOne
<1>4. PICK o \in Seq(Items) : o = <<y>> BY <1>3, Zenon
<1>5. Incoming' = Join(Incoming, o)
  <2>1. PICK i \in Seq(Items), q \in Seq(Items), u \in Seq(Items) : i = ssl.in /\ q = FlattenSeq(st["enc"].pend) /\ u = net.queue
    BY <1>0, LineTypes, Zenon
  <2>2. Join(q, u) \in Seq(Items) BY JoinFacts
  <2>3. PICK v \in Seq(Items) : v = Join(q, u) BY <2>2
  <2>4. Join(q, Join(u, o)) = Join(v, o) BY <2>3, JoinAssoc
  <2>5. Join(i, Join(v, o)) = Join(Join(i, v), o) BY JoinAssoc
  <2>6. Incoming = Join(i, v) BY <2>1, <2>3 DEF Incoming, Line
  <2>7. Incoming' = Join(i, Join(q, Join(u, o))) BY <1>1, <1>3, <1>4, <2>1 DEF Incoming, Line
  <2> QED BY <2>4, <2>5, <2>6, <2>7
<1>6. ASSUME Sane PROVE Fed(Join(Incoming, o), Coming, ssl.flights, net', pair.failed)
  <2>1. Fed(Incoming, Coming, ssl.flights, net, pair.failed) BY <1>6 DEF Receives
  <2>2. PICK L, B, n, N, M, f : /\ L = Incoming /\ B = Coming /\ n = ssl.flights /\ N = net /\ M = net'
                                /\ f = pair.failed OBVIOUS
  <2>3. /\ N.flights < 2 /\ M.flights = N.flights + 1 /\ M.todo = N.todo
              => Fed(Join(L, Cons("hs", Nil)), B, n, M, f)
        /\ N.flights = 2 /\ N.todo # Nil /\ M.flights = N.flights /\ M.todo = Tail(N.todo)
              => Fed(Join(L, <<Head(N.todo)>>), B, n, M, f)
        /\ \A c \in {Fin, Bad} : (c = Fin => N.flights = 2) /\ M.flights = N.flights /\ M.todo = N.todo /\ M.over
              => Fed(Join(L, c), B, n, M, f) BY <1>0, <1>1, <2>1, <2>2, FedMore, Zenon
  <2>4. CASE y = "hs" /\ net.flights < 2 /\ net'.flights = net.flights + 1 /\ net'.todo = net.todo
    BY <1>3, <1>4, <2>2, <2>3, <2>4
  <2>5. CASE /\ net.flights = 2 /\ net.todo # Nil /\ y = Head(net.todo)
             /\ net'.flights = net.flights /\ net'.todo = Tail(net.todo) BY <1>4, <2>2, <2>3, <2>5
  <2>6. CASE /\ y \in {"fin", "bad"} /\ (y = "fin" => net.flights = 2) /\ net'.over
             /\ net'.flights = net.flights /\ net'.todo = net.todo
    <3>1. o \in {Fin, Bad} /\ (o = Fin => y = "fin") BY <1>3, <1>4, <2>6, LineParts DEF Fin, Bad
    <3> QED BY <2>2, <2>3, <2>6, <3>1
  <2> QED BY <1>2, <2>4, <2>5, <2>6
<1>7. Coming' = Coming /\ (Sane' <=> Sane) /\ io'.got = io.got /\ ssl'.flights = ssl.flights /\ pair'.failed = pair.failed
  BY <1>1 DEF Coming, Sane
<1> QED BY <1>5, <1>6, <1>7 DEF Receives

\* What the program is about to get, from the frame on top of the stack.
LEMMA HeldNow ==
  ASSUME Control, ~Idle
  PROVE  /\ Held(stack, "push", "clr") = Join(Hand(Head(stack), "push", "clr"), Held(Tail(stack), "push", "clr"))
         /\ Held(Tail(stack), "push", "clr") \in Seq(Items) /\ Hand(Head(stack), "push", "clr") \in Seq(Items)
<1>1. PICK y \in Frames, s \in Seq(Frames) : y = Head(stack) /\ s = Tail(stack) /\ stack = Cons(y, s)
  BY TopFits, Zenon DEF Cons
<1>2. /\ Held(Cons(y, s), "push", "clr") = Join(Hand(y, "push", "clr"), Held(s, "push", "clr"))
      /\ Held(s, "push", "clr") \in Seq(Items) /\ Hand(y, "push", "clr") \in Seq(Items) BY HeldPush DEF Join
<1> QED BY <1>1, <1>2

\* The same after a call of the engine.
LEMMA WentHolds ==
  ASSUME Control, ~Idle, NEW x \in Frames
  PROVE  /\ Quiet(x, Tail(stack)) \/ Ends(x, Tail(stack)) =>
              Held(stack', "push", "clr") = Join(Hand(x, "push", "clr"), Held(Tail(stack), "push", "clr"))
         /\ Fails(Tail(stack)) => Held(stack', "push", "clr") = Held(Tail(stack), "push", "clr")
<1>1. PICK s \in Seq(Frames) : s = Tail(stack) BY TopFits, Zenon
<1>2. Held(Cons(x, s), "push", "clr") = Join(Hand(x, "push", "clr"), Held(s, "push", "clr")) BY HeldPush DEF Join
<1>3. ASSUME Quiet(x, s) \/ Ends(x, s) PROVE Held(stack', "push", "clr") = Held(Cons(x, s), "push", "clr")
  <2>1. Alike(Cons(x, s), stack') BY <1>3, WentHeld
  <2> QED BY <2>1 DEF Alike, SameHeld, Sides
<1>4. ASSUME Fails(s) PROVE Held(stack', "push", "clr") = Held(s, "push", "clr")
  <2>1. Alike(s, stack') BY <1>4, FailsTop
  <2> QED BY <2>1 DEF Alike, SameHeld, Sides
<1> QED BY <1>1, <1>2, <1>3, <1>4

\* A pair that is sane after a call of the engine was sane before, and its
\* handshake did not fail.
LEMMA WentSane ==
  ASSUME Control, NEW x \in Frames, NEW r \in Seq(Frames), Went(x, r), ssl.error => ssl'.error, Sane'
  PROVE  /\ Sane /\ (ssl.flights = 2 \/ ~ssl'.error) /\ (Fails(r) => pair.secure)
         /\ pair'.fault = pair.fault /\ (pair.failed => pair'.failed) /\ io'.got = io.got
         /\ Fails(r) \/ Quiet(x, r) \/ Ends(x, r)
<1>0. Types BY DEF Control
<1>1. /\ pair'.fault = pair.fault /\ (pair.failed => pair'.failed) /\ io'.got = io.got
      /\ Fails(r) \/ Quiet(x, r) \/ Ends(x, r) BY <1>0, WentFields
<1>2. pair.secure => ssl.flights = 2 BY DEF Control, Guards
<1>3. CASE Fails(r) BY <1>1, <1>2, <1>3 DEF Fails, Sane
<1>4. CASE Quiet(x, r) BY <1>1, <1>2, <1>4 DEF Quiet, Sane, Fails
<1>5. CASE Ends(x, r) BY <1>1, <1>2, <1>5, Zenon DEF Ends, Sane, Fails
<1> QED BY <1>1, <1>3, <1>4, <1>5

\* _pull offers an entry to the engine.
LEMMA offerReceives ==
  ASSUME Control, Awake, Receives, ~Idle, Head(stack).f = "pull",
         NEW w \in Sides, NEW x \in Frames, NEW q \in Seq(Seq(Items)), PullStep(w, x, q), net' = net
  PROVE  Receives'
<1> DEFINE r == Tail(stack)
<1>0. Types /\ r \in Seq(Frames) /\ ssl \in Engines BY TopFits DEF Control, Types
<1>1. /\ x.f = "pull" /\ ssl.up /\ st[w].pend = Grown(q, x.data) /\ st'[w].pend = q
      /\ st'[Other(w)] = st[Other(w)] /\ Went(x, r) /\ ssl' \in Engines
      /\ \/ w = "enc" /\ GoesInBio(ssl, ssl', x.data)
         \/ w = "clr" /\ GoesIn(ssl, ssl', x.data, x.b) BY DEF PullStep
<1>2. x.data \in Seq(Items) BY DEF Frames
<1>3. /\ io'.got = io.got /\ (pair.failed => pair'.failed) /\ pair'.fault = pair.fault
      /\ Fails(r) \/ Quiet(x, r) \/ Ends(x, r) BY <1>0, <1>1, WentFields, Zenon
<1>4. Held(stack', "push", "clr") = Held(stack, "push", "clr")
  <2>1. Hand(Head(stack), "push", "clr") = Nil /\ Hand(x, "push", "clr") = Nil BY <1>1 DEF Hand, InHand, Nil
  <2>2. Held(stack, "push", "clr") = Held(r, "push", "clr") BY <2>1, HeldNow, JoinNil
  <2>3. Join(Nil, Held(r, "push", "clr")) = Held(r, "push", "clr") BY HeldNow, JoinNil
  <2> QED BY <1>3, <2>1, <2>2, <2>3, WentHolds
<1>5. Coming' = Coming BY <1>3, <1>4 DEF Coming
<1>6. PICK g : g = tls_conn_start(ssl) OBVIOUS
<1>7. Shakes(ssl, g) BY <1>0, <1>6, StartFields
<1>8. ssl.error => ssl'.error BY <1>1, <1>6, <1>7, Zenon DEF GoesIn, GoesInBio, Shakes
<1>9. Sane' => Sane /\ (ssl.flights = 2 \/ ~ssl'.error) BY <1>0, <1>1, <1>8, WentSane, Zenon
<1>10. CASE w = "enc"
  <2>1. GoesInBio(ssl, ssl', x.data) BY <1>1, <1>10
  <2>2. ssl'.flights = ssl.flights /\ ssl'.in = Join(ssl.in, x.data) BY <2>1 DEF GoesInBio, SameButIn, Join
  <2>3. q = Nil
    <3>1. Len(Grown(q, x.data)) <= 1 BY <1>1, <1>10 DEF Awake
    <3>2. Len(Grown(q, x.data)) = Len(q) + 1 /\ Len(q) \in Nat /\ (Len(q) = 0 => q = Nil) BY <1>2, GrownLen
    <3> QED BY <3>1, <3>2
  <2>4. FlattenSeq(Nil) = Nil BY FlatNone DEF Nil
  <2>5. PICK i \in Seq(Items), d \in Seq(Items), u \in Seq(Items) : i = ssl.in /\ d = x.data /\ u = net.queue
    BY <1>0, <1>2, LineTypes, Zenon
  <2>6. FlattenSeq(Grown(q, x.data)) = d
    <3>1. FlattenSeq(Grown(q, x.data)) = Join(FlattenSeq(q), x.data) BY <1>2, FlatGrown
    <3>2. Join(Nil, d) = d BY JoinNil
    <3> QED BY <2>3, <2>4, <2>5, <3>1, <3>2
  <2>7. Incoming = Join(i, Join(d, u)) BY <1>1, <1>10, <2>5, <2>6 DEF Incoming, Line
  <2>8. Incoming' = Join(Join(i, d), Join(Nil, u)) BY <1>1, <1>10, <2>2, <2>3, <2>4, <2>5 DEF Incoming, Line
  <2>9. Join(Nil, u) = u /\ Join(Join(i, d), u) = Join(i, Join(d, u)) BY JoinNil, JoinAssoc
  <2>10. Incoming' = Incoming BY <2>7, <2>8, <2>9
  <2> QED BY <1>3, <1>4, <1>9, <2>2, <2>10, SameLine
<1>11. CASE w = "clr"
  <2>1. GoesIn(ssl, ssl', x.data, x.b) BY <1>1, <1>11
  <2>2. ssl'.in = g.in /\ ssl'.flights = g.flights /\ (g.error => ssl'.error)
    BY <1>6, <2>1, Zenon DEF GoesIn, SameButIn
  <2>3. PICK u \in Seq(Items) : u = Join(FlattenSeq(st["enc"].pend), net.queue) BY <1>0, LineTypes
  <2>4. st'["enc"] = st["enc"] BY <1>1, <1>11 DEF Other
  <2>5. Incoming = Join(ssl.in, u) /\ Incoming' = Join(g.in, u) BY <2>2, <2>3, <2>4 DEF Incoming, Line
  <2>6. ASSUME Sane' PROVE Fed(Join(g.in, u), Coming, g.flights, net, pair.failed)
    <3>1. Fed(Join(ssl.in, u), Coming, ssl.flights, net, pair.failed) BY <1>9, <2>5, <2>6 DEF Receives
    <3>2. ssl.flights = 2 \/ ~g.error BY <1>9, <2>2, <2>6
    <3>3. PICK e, C, N, f : e = ssl /\ e \in Engines /\ C = Coming /\ N = net /\ f = pair.failed BY <1>0
    <3>4. N.flights \in 0..2 BY <1>0, <3>3, LineTypes
    <3>5. Fed(Join(tls_conn_start(e).in, u), C, tls_conn_start(e).flights, N, f)
      BY <1>6, <3>1, <3>2, <3>3, <3>4, FedShake, Zenon
    <3> QED BY <1>6, <3>3, <3>5
  <2>7. ASSUME Sane' PROVE Fed(Incoming', Coming', ssl'.flights, net', pair'.failed)
    <3>1. Fed(Incoming', Coming', ssl'.flights, net, pair.failed) BY <1>5, <2>2, <2>5, <2>6, <2>7
    <3> QED BY <1>3, <3>1, FedLater
  <2> QED BY <1>3, <2>7 DEF Receives
<1> QED BY <1>1, <1>10, <1>11

\* The end of the socket, an entry that goes back, an entry that was taken.
LEMMA eofReceives ==
  ASSUME Control, Awake, Receives, ~Idle, Head(stack).f = "pull", Head(stack).pc = 0,
         NEW w \in Sides, NEW q \in Seq(Seq(Items)), EofStep(w, q, Tail(stack))
  PROVE  Receives'
<1> DEFINE r == Tail(stack)
<1>0. Types /\ r \in Seq(Frames) /\ stack # <<>> /\ Plain(Head(stack)) BY TopFits, PlainFrames DEF Control, Idle
<1>1. /\ pair' = pair /\ io' = io /\ net' = net
      /\ st[w].pend = Grown(q, Nil) /\ st'[w].pend = q /\ st'[Other(w)].pend = st[Other(w)].pend
      /\ ssl'.in = ssl.in /\ ssl'.flights = ssl.flights /\ ssl'.error = ssl.error
      /\ stack' = <<Cycle(0), Frame("pull", w, 1)>> \o r BY DEF EofStep, Nil
<1>2. Cycle(0) \in Frames /\ Plain(Cycle(0)) /\ Frame("pull", w, 1) \in Frames /\ Plain(Frame("pull", w, 1))
  BY PlainMade DEF Methods
<1>3. stack' = Cons(Cycle(0), Cons(Frame("pull", w, 1), r)) BY <1>0, <1>1, <1>2, ConsPair, Zenon
<1>4. Restacked BY <1>0, <1>2, <1>3, Zenon DEF Restacked
<1>5. Held(stack', "push", "clr") = Held(stack, "push", "clr")
  <2>1. Alike(stack, stack') BY <1>0, <1>4, RestackedCalm
  <2> QED BY <2>1 DEF Alike, SameHeld, Sides
<1>6. FlattenSeq(st'["enc"].pend) = FlattenSeq(st["enc"].pend)
  <2>1. CASE w = "clr" BY <1>1, <2>1 DEF Other
  <2>2. CASE w = "enc"
    <3>1. Nil \in Seq(Items) BY NilFacts
    <3>2. FlattenSeq(Grown(q, Nil)) = Join(FlattenSeq(q), Nil) /\ FlattenSeq(q) \in Seq(Items) BY <3>1, FlatGrown
    <3>3. Join(FlattenSeq(q), Nil) = FlattenSeq(q) BY <3>2, JoinNil
    <3> QED BY <1>1, <2>2, <3>2, <3>3
  <2> QED BY <2>1, <2>2 DEF Sides
<1>7. Incoming' = Incoming /\ (Sane' => Sane) BY <1>1, <1>6 DEF Incoming, Line, Sane
<1> QED BY <1>1, <1>5, <1>7, SameLine

\* The engine answers _pull.
LEMMA answerReceives ==
  ASSUME Control, Receives, ~Idle, Head(stack).f = "pull", Head(stack).pc = 2,
         \/ ~Head(stack).b /\ RefusedStep(Head(stack).w, Head(stack).data, Tail(stack))
         \/ Head(stack).b /\ TakenStep(Head(stack).w, Tail(stack))
  PROVE  Receives'
<1> DEFINE h == Head(stack)
           r == Tail(stack)
           y == Frame("pull", h.w, 0)
           c == User("callback")
<1>0. r \in Seq(Frames) /\ h \in Frames /\ FrameFits(h, pair) /\ h.w \in Sides BY TopFits DEF Frames
<1>1. ~h.b => h.w = "clr" BY <1>0 DEF FrameFits, Refusing
<1>2. /\ pair' = pair /\ io' = io /\ ssl' = ssl /\ net' = net
      /\ st'["enc"].pend = st["enc"].pend
      /\ stack' = r \/ stack' = <<y>> \o r \/ stack' = <<c, y>> \o r
  BY <1>0, <1>1, Zenon DEF TakenStep, RefusedStep, Sides, Other
<1>3. y \in Frames /\ Plain(y) /\ c \in Frames /\ Plain(c) BY <1>0, PlainMade DEF Methods, Handlers
<1>4. Held(stack, "push", "clr") = Held(r, "push", "clr")
  <2>1. Hand(h, "push", "clr") = Nil BY DEF Hand, InHand, Nil
  <2> QED BY <2>1, HeldNow, JoinNil
<1> HIDE DEF h, y, c, r
<1>5. stack' = r \/ stack' = Cons(y, r) \/ stack' = Cons(c, Cons(y, r)) BY <1>0, <1>2, <1>3, ConsPair, Zenon
<1>6. Alike(r, Cons(y, r)) /\ Cons(y, r) \in Seq(Frames) BY <1>0, <1>3, AlikeTop, ConsTop
<1>7. Alike(r, Cons(c, Cons(y, r))) BY <1>0, <1>3, <1>6, AlikeTwo
<1>8. Held(stack', "push", "clr") = Held(stack, "push", "clr") BY <1>4, <1>5, <1>6, <1>7 DEF Alike, SameHeld, Sides
<1>9. Incoming' = Incoming /\ (Sane' => Sane) BY <1>2 DEF Incoming, Sane
<1> QED BY <1>2, <1>8, <1>9, SameLine

\* A step of CryptoStream:_pull.
LEMMA _pullReceives == ASSUME Control, Awake, Receives, _pull PROVE Receives'
<1> DEFINE h == Head(stack)
           w == h.w
           r == Tail(stack)
<1>1. /\ ~Idle /\ h.f = "pull" /\ w \in Sides /\ h \in Frames /\ r \in Seq(Frames)
      /\ \/ h.pc = 0 /\ RestStep(w, r)
         \/ h.pc = 0 /\ \E q \in Seq(Seq(Items)) : EofStep(w, q, r)
         \/ h.pc = 0 /\ UNCHANGED <<net, calls>> /\ \E x \in Frames, q \in Seq(Seq(Items)) : PullStep(w, x, q)
         \/ h.pc = 1 /\ DoneStep(w, r)
         \/ h.pc = 2 /\ ~h.b /\ RefusedStep(w, h.data, r)
         \/ h.pc = 2 /\ h.b /\ TakenStep(w, r) BY PullCases
<1>2. ASSUME h.pc \in {0, 1}, RestStep(w, r) \/ DoneStep(w, r) PROVE Receives'
  <2>1. Plain(h) BY <1>1, <1>2, PlainFrames
  <2>2. Calm BY <1>1, <1>2, <2>1, returnCalm
  <2> QED BY <2>2, CalmReceives
<1>3. ASSUME h.pc = 0, NEW q \in Seq(Seq(Items)), EofStep(w, q, r) PROVE Receives' BY <1>1, <1>3, eofReceives
<1>4. ASSUME NEW x \in Frames, NEW q \in Seq(Seq(Items)), PullStep(w, x, q), net' = net PROVE Receives'
  BY <1>1, <1>4, offerReceives
<1>5. ASSUME h.pc = 2, (~h.b /\ RefusedStep(w, h.data, r)) \/ (h.b /\ TakenStep(w, r)) PROVE Receives'
  BY <1>1, <1>5, answerReceives
<1> QED BY <1>1, <1>2, <1>3, <1>4, <1>5

\* _push asks the engine.
LEMMA readReceives ==
  ASSUME Control, Receives, ~Idle, Head(stack).f = "push",
         NEW x \in Frames, NEW d \in Seq(Items), PushStep(x, d), net' = net
  PROVE  Receives'
<1> DEFINE h == Head(stack)
           r == Tail(stack)
<1>0. Types /\ h \in Frames /\ r \in Seq(Frames) /\ h.w \in Sides /\ h.data \in Seq(Items) /\ ssl \in Engines
      /\ ssl.in \in Seq(Items) /\ net.flights \in 0..2 BY TopFits, TypeFacts, Zenon DEF Control, Frames, Types
<1>1. /\ x.f = "push" /\ x.w = h.w /\ x.data = h.data \o d
      /\ Went(x, r) /\ ssl' \in Engines /\ st' = st /\ ssl'.up = ssl.up
      /\ \/ ~ssl.up /\ ssl' = ssl /\ d = <<>>
         \/ h.w = "enc" /\ ReadsBio(ssl, ssl', d)
         \/ ssl.up /\ h.w = "clr" /\ ReadsOut(ssl, ssl', d, x.pc = 2) BY DEF PushStep
<1>2. /\ io'.got = io.got /\ (pair.failed => pair'.failed) /\ pair'.fault = pair.fault
      /\ Fails(r) \/ Quiet(x, r) \/ Ends(x, r) BY <1>0, <1>1, WentFields, Zenon
<1>3. PICK g : g = tls_conn_start(ssl) OBVIOUS
<1>4. Shakes(ssl, g) /\ (ssl.flights = 2 => g = ssl) BY <1>0, <1>3, StartFields
<1>5. ssl.error => ssl'.error BY <1>1, <1>3, <1>4, Zenon DEF ReadsOut, ReadsBio, Shakes
<1>6. Sane' => Sane /\ (ssl.flights = 2 \/ ~ssl'.error) /\ (Fails(r) => pair.secure)
  BY <1>0, <1>1, <1>5, WentSane, Zenon
<1>7. CASE ~(ssl.up /\ h.w = "clr")
  <2>1. ssl'.in = ssl.in /\ ssl'.flights = ssl.flights BY <1>1, <1>7 DEF ReadsBio, SameButIn
  <2>2. Incoming' = Incoming BY <1>1, <2>1 DEF Incoming
  <2>3. Held(stack', "push", "clr") = Held(stack, "push", "clr")
    <3>1. CASE h.w = "enc"
      <4>1. Hand(h, "push", "clr") = Nil /\ Hand(x, "push", "clr") = Nil BY <1>1, <3>1 DEF Hand, InHand, Nil
      <4>2. Held(stack, "push", "clr") = Held(r, "push", "clr") BY <4>1, HeldNow, JoinNil
      <4>3. Join(Nil, Held(r, "push", "clr")) = Held(r, "push", "clr") BY HeldNow, JoinNil
      <4> QED BY <1>2, <4>1, <4>2, <4>3, WentHolds
    <3>2. CASE h.w = "clr"
      <4>1. ~ssl.up /\ ssl' = ssl /\ d = Nil BY <1>1, <1>7, <3>2 DEF Nil
      <4>2. x.data = h.data BY <1>0, <1>1, <4>1, JoinNil, Zenon DEF Join
      <4>3. Hand(x, "push", "clr") = Hand(h, "push", "clr") BY <1>1, <4>2, Zenon DEF Hand, InHand
      <4>4. Quiet(x, r) BY <1>2, <4>1 DEF Fails, Ends
      <4> QED BY <4>3, <4>4, HeldNow, WentHolds
    <3> QED BY <1>0, <3>1, <3>2 DEF Sides
  <2> QED BY <1>2, <1>6, <2>1, <2>2, <2>3, SameLine
<1>8. CASE ssl.up /\ h.w = "clr"
  <2>1. ReadsOut(ssl, ssl', d, x.pc = 2) /\ ssl'.up BY <1>1, <1>8
  <2>2. PICK u \in Seq(Items) : u = Join(FlattenSeq(st["enc"].pend), net.queue) BY <1>0, LineTypes
  <2>3. PICK A \in Seq(Items), k \in Seq(Items) : A = io.got /\ k = h.data BY <1>0, LineTypes, Zenon
  <2>4. PICK B \in Seq(Items) : B = Join(A, k) BY JoinFacts
  <2>5. Held(r, "push", "clr") = Nil /\ Hand(h, "push", "clr") = k /\ Hand(x, "push", "clr") = Join(k, d)
    BY <1>1, <1>8, <2>3, HeldAlone, Zenon DEF Exclusive, Hand, InHand, Join
  <2>6. Coming = B
    <3>1. Held(stack, "push", "clr") = Join(k, Nil) BY <2>5, HeldNow
    <3>2. Join(k, Nil) = k BY JoinNil
    <3> QED BY <2>3, <2>4, <3>1, <3>2 DEF Coming
  <2>7. Incoming = Join(ssl.in, u) /\ Incoming' = Join(ssl'.in, u) BY <1>1, <2>2 DEF Incoming, Line
  <2>8. \/ ssl' = g /\ d = Nil
        \/ /\ g.flights = 2 /\ g.in # Nil /\ ssl'.in = Tail(g.in) /\ ssl'.flights = 2
           /\ \/ Head(g.in) = "fin" /\ d = Nil /\ ssl'.error = g.error
              \/ Head(g.in) = "bad" /\ ssl'.error
              \/ Head(g.in) \notin {"fin", "bad"} /\ d = <<Head(g.in)>> /\ ssl'.error = g.error
    BY <1>3, <2>1, Zenon DEF ReadsOut, SameButIn, Nil
  <2>9. SUFFICES ASSUME Sane' PROVE Fed(Incoming', Coming', ssl'.flights, net', pair'.failed) BY <1>2 DEF Receives
  <2>10. Fed(Join(g.in, u), B, g.flights, net, pair.failed)
    <3>1. Fed(Join(ssl.in, u), B, ssl.flights, net, pair.failed) BY <1>6, <2>6, <2>7, <2>9 DEF Receives
    <3>2. ssl.flights = 2 \/ ~g.error BY <1>6, <2>8, <2>9
    <3>3. PICK e, N, f : e = ssl /\ e \in Engines /\ N = net /\ f = pair.failed BY <1>0
    <3>4. Fed(Join(tls_conn_start(e).in, u), B, tls_conn_start(e).flights, N, f)
      BY <1>0, <1>3, <3>1, <3>2, <3>3, FedShake, Zenon
    <3> QED BY <1>3, <3>3, <3>4
  <2>11. g.in \in Seq(Items) BY <1>4 DEF Shakes, Engines
  <2>12. ASSUME g.flights = 2, g.in # Nil
         PROVE  /\ Head(g.in) = "fin" => Fed(Join(Tail(g.in), u), B, 2, net, pair.failed)
                /\ Head(g.in) \notin {"fin", "bad"} => Fed(Join(Tail(g.in), u), Join(B, <<Head(g.in)>>), 2, net, pair.failed)
                /\ Head(g.in) = "bad" => Fed(Join(Tail(g.in), u), A, 2, net, TRUE)
    <3>1. PICK i \in Seq(Items) : i = g.in BY <2>11
    <3>2. PICK N, f : N = net /\ f = pair.failed OBVIOUS
    <3>3. Fed(Join(i, u), B, 2, N, f) /\ N.flights \in 0..2 /\ i # Nil BY <1>0, <2>10, <2>12, <3>1, <3>2
    <3>4. /\ Head(i) = "fin" => Fed(Join(Tail(i), u), B, 2, N, f)
          /\ Head(i) \notin {"fin", "bad"} => Fed(Join(Tail(i), u), Join(B, <<Head(i)>>), 2, N, f)
          /\ Head(i) = "bad" => \A a, b \in Seq(Items) : B = Join(a, b) => Fed(Join(Tail(i), u), a, 2, N, TRUE)
      BY <3>3, FedRead, Zenon
    <3> QED BY <2>4, <3>1, <3>2, <3>4, Zenon
  <2>13. CASE Fails(r)
    <3>1. Coming' = A
      <4>1. Held(stack', "push", "clr") = Nil BY <2>5, <2>13, WentHolds
      <4>2. Join(A, Nil) = A BY JoinNil
      <4> QED BY <1>2, <2>3, <4>1, <4>2 DEF Coming
    <3>2. pair.secure /\ pair'.failed /\ ssl'.error BY <1>6, <2>9, <2>13 DEF Fails
    <3>3. ~ssl.error /\ g = ssl BY <1>4, <1>8, <3>2 DEF Control, Guards, AtErr
    <3>4. g.flights = 2 /\ g.in # Nil /\ ssl'.in = Tail(g.in) /\ ssl'.flights = 2 /\ Head(g.in) = "bad"
      BY <2>8, <3>2, <3>3, Zenon
    <3>5. Fed(Incoming', A, 2, net, TRUE) BY <2>7, <2>12, <3>4, Zenon
    <3>6. Fed(Incoming', A, 2, net', pair'.failed) BY <3>2, <3>5, FedLater, Zenon
    <3> QED BY <3>1, <3>4, <3>6
  <2>14. CASE Quiet(x, r) \/ Ends(x, r)
    <3>1. Coming' = Join(B, d)
      <4>1. Held(stack', "push", "clr") = Join(Join(k, d), Nil) /\ Join(k, d) \in Seq(Items)
        BY <2>5, <2>14, WentHolds, JoinFacts
      <4>2. Join(Join(k, d), Nil) = Join(k, d) BY <4>1, JoinNil
      <4>3. Join(Join(A, k), d) = Join(A, Join(k, d)) BY JoinAssoc
      <4> QED BY <1>2, <2>3, <2>4, <4>1, <4>2, <4>3 DEF Coming
    <3>2. ~ssl'.error BY <2>1, <2>14 DEF Quiet, Ends
    <3>3. Fed(Incoming', Join(B, d), ssl'.flights, net, pair.failed)
      <4>1. Join(B, Nil) = B BY JoinNil
      <4>2. CASE ssl' = g /\ d = Nil BY <2>7, <2>10, <4>1, <4>2
      <4>3. CASE ssl' # g \/ d # Nil
        <5>1. g.flights = 2 /\ g.in # Nil /\ ssl'.in = Tail(g.in) /\ ssl'.flights = 2 BY <2>8, <4>3
        <5>2. (Head(g.in) = "fin" /\ d = Nil) \/ (Head(g.in) \notin {"fin", "bad"} /\ d = <<Head(g.in)>>)
          BY <2>8, <3>2, <4>3
        <5> QED BY <2>7, <2>12, <4>1, <5>1, <5>2, Zenon
      <4> QED BY <4>2, <4>3
    <3>4. Fed(Incoming', Join(B, d), ssl'.flights, net', pair'.failed) BY <1>2, <3>3, FedLater
    <3> QED BY <3>1, <3>4
  <2> QED BY <1>2, <2>13, <2>14
<1> QED BY <1>7, <1>8

\* _push emits what it read.
LEMMA emitReceives ==
  ASSUME Control, Receives, ~Idle, Head(stack).f = "push", Head(stack).data # <<>>,
         EmitStep(Head(stack).w, Head(stack).data, Tail(stack))
  PROVE  Receives'
<1> DEFINE h == Head(stack)
           w == h.w
           r == Tail(stack)
           y == Frame("push", w, 0)
           z == Frame("data", w, 0)
<1>0. Types /\ h \in Frames /\ r \in Seq(Frames) /\ w \in Sides /\ h.data \in Seq(Items) /\ FrameFits(h, pair)
  BY TopFits DEF Control, Frames
<1>1. /\ IF w = "enc" THEN io'.got = io.got ELSE io'.got = io.got \o h.data
      /\ UNCHANGED <<st, ssl, pair, net>> /\ stack' = <<z, y>> \o r BY Zenon DEF EmitStep
<1>2. y \in Frames /\ Plain(y) /\ z \in Frames /\ Plain(z) BY <1>0, PlainMade DEF Methods, Handlers
<1>3. Held(stack', "push", "clr") = Held(r, "push", "clr")
  <2>1. PICK s \in Seq(Frames) : s = r BY <1>0, Zenon
  <2> HIDE DEF y, z
  <2>2. stack' = Cons(z, Cons(y, s)) BY <1>1, <1>2, <2>1, ConsPair, Zenon
  <2>3. Alike(s, Cons(y, s)) /\ Cons(y, s) \in Seq(Frames) BY <1>2, AlikeTop, ConsTop
  <2>4. Alike(s, Cons(z, Cons(y, s))) BY <1>2, <2>3, AlikeTwo
  <2> QED BY <2>1, <2>2, <2>4 DEF Alike, SameHeld, Sides
<1>4. Incoming' = Incoming /\ (Sane' <=> Sane) BY <1>1 DEF Incoming, Sane
<1>5. CASE w = "enc"
  <2>1. Hand(h, "push", "clr") = Nil BY <1>5 DEF Hand, InHand, Nil
  <2>2. Held(stack, "push", "clr") = Held(r, "push", "clr") BY <2>1, HeldNow, JoinNil
  <2> QED BY <1>1, <1>3, <1>4, <1>5, <2>2, SameLine
<1>6. CASE w = "clr"
  <2>1. Sane BY <1>0, <1>6 DEF FrameFits, Sane, Handlers
  <2>2. PICK A \in Seq(Items), k \in Seq(Items) : A = io.got /\ k = h.data BY <1>0, LineTypes, Zenon
  <2>3. Held(r, "push", "clr") = Nil /\ Hand(h, "push", "clr") = k
    BY <1>6, <2>2, HeldAlone DEF Exclusive, Hand, InHand
  <2>4. PICK B \in Seq(Items) : B = Join(A, k) BY JoinFacts
  <2>5. Join(k, Nil) = k /\ Join(B, Nil) = B /\ Nil \in Seq(Items) BY JoinNil, NilFacts
  <2>6. Coming = B BY <2>2, <2>3, <2>4, <2>5, HeldNow DEF Coming
  <2>7. io'.got = B BY <1>1, <1>6, <2>2, <2>4, Zenon DEF Join
  <2>8. Coming' = B BY <1>3, <2>3, <2>5, <2>7 DEF Coming
  <2>9. Fed(Incoming, B, ssl.flights, net, pair.failed) BY <2>1, <2>6 DEF Receives
  <2>10. IsPrefix(B, PeerChunks)
    <3>1. Fed(Incoming, Join(B, Nil), ssl.flights, net, pair.failed) BY <2>5, <2>9
    <3> QED BY <2>5, <3>1, FedPrefix
  <2> QED BY <1>1, <1>4, <2>7, <2>8, <2>9, <2>10 DEF Receives
<1> QED BY <1>0, <1>5, <1>6 DEF Sides

\* A step of CryptoStream:_push.
LEMMA _pushReceives == ASSUME Control, Receives, _push PROVE Receives'
<1> DEFINE h == Head(stack)
           w == h.w
           r == Tail(stack)
<1>0. pair \in Flags BY DEF Control, Types
<1>1. /\ ~Idle /\ h.f = "push" /\ w \in Sides /\ h \in Frames /\ r \in Seq(Frames) BY PushCases
<1>2. \/ Plain(h) /\ stack' = r /\ UNCHANGED <<st, ssl, pair, net, io, calls>>
      \/ UNCHANGED <<net, calls>> /\ \E x \in Frames, d \in Seq(Items) : PushStep(x, d)
      \/ pair' = [pair EXCEPT !.fault = TRUE] /\ stack' = <<>> /\ UNCHANGED <<st, ssl, net, io, calls>>
      \/ Plain(h) /\ DoneStep(w, r)
      \/ h.data # <<>> /\ EmitStep(w, h.data, r)
  <2>1. h.pc = 0 => Plain(h)
    <3>1. FrameFits(h, pair) BY <1>1, TopFits
    <3> QED BY <1>1, <3>1, PlainFrames DEF FrameFits
  <2>2. h.pc = 3 /\ h.data = <<>> => Plain(h) BY PlainFrames
  <2> QED BY <2>1, <2>2, PushCases
<1>3. ASSUME Plain(h), (stack' = r /\ UNCHANGED <<st, ssl, pair, net, io, calls>>) \/ DoneStep(w, r) PROVE Receives'
  <2>1. Calm BY <1>1, <1>3, returnCalm
  <2> QED BY <2>1, CalmReceives
<1>4. ASSUME NEW x \in Frames, NEW d \in Seq(Items), PushStep(x, d), net' = net PROVE Receives'
  BY <1>1, <1>4, readReceives
<1>5. ASSUME pair' = [pair EXCEPT !.fault = TRUE], UNCHANGED <<st, ssl, net, io, calls>> PROVE Receives'
  <2>1. pair'.fault BY <1>0, <1>5 DEF Flags
  <2> QED BY <1>5, <2>1 DEF Receives, Sane
<1>6. ASSUME h.data # <<>>, EmitStep(w, h.data, r) PROVE Receives' BY <1>1, <1>6, emitReceives
<1> QED BY <1>2, <1>3, <1>4, <1>5, <1>6

\* At first the line holds what the peer will send.
LEMMA InitReceives == ASSUME PairInit PROVE Receives
<1>0. Control BY InitControl
<1>1. /\ st["enc"].pend = Nil /\ ssl.in = Nil /\ ssl.flights = 0 /\ io.got = Nil /\ stack = Nil /\ ~ssl.error
      /\ net.queue = Nil /\ net.todo = PeerChunks /\ net.flights = 0
  BY DEF PairInit, newCONN, CryptoStream_initialize, Sides, Nil
<1>2. Held(Nil, "push", "clr") = Nil /\ FlattenSeq(Nil) = Nil BY HeldNone, FlatNone DEF Nil
<1>3. Nil \in Seq(Items) /\ Nil \in Seq(Peers) /\ Nil \in Closings /\ PeerChunks \in Seq(Items) /\ Hs(0) = Nil /\ Nil # Fin
  BY NilFacts, PeerItems, LineParts DEF Closings
<1>4. Join(Nil, Nil) = Nil /\ Join(Nil, PeerChunks) = PeerChunks BY <1>3, JoinNil
<1>5. Incoming = Nil /\ Coming = Nil BY <1>1, <1>2, <1>4 DEF Incoming, Line, Coming
<1>6. Fed(Incoming, Coming, ssl.flights, net, pair.failed)
  <2>1. Nil = Join(Hs(0), Join(Nil, Nil)) /\ net.flights = 0 + 0 /\ 0 \in 0..2 BY <1>1, <1>3, <1>4
  <2>2. Join(Nil, Join(Nil, PeerChunks)) = PeerChunks BY <1>4
  <2> QED BY <1>1, <1>3, <1>5, <2>1, <2>2 DEF Fed
<1>7. IsPrefix(Nil, PeerChunks)
  <2>1. Fed(Incoming, Join(Nil, Nil), ssl.flights, net, pair.failed) BY <1>4, <1>5, <1>6
  <2> QED BY <1>3, <2>1, FedPrefix
<1> QED BY <1>1, <1>6, <1>7 DEF Receives

\* Every step keeps the line from the peer.
LEMMA NextReceives ==
  Control /\ Control' /\ EngineGone /\ Awake /\ Receives /\ [PairNext]_pairVars => Receives'
<1> SUFFICES ASSUME Control, Control', EngineGone, Awake, Receives, [PairNext]_pairVars PROVE Receives' OBVIOUS
<1>1. CASE UNCHANGED pairVars BY <1>1 DEF pairVars, Receives, Sane, Incoming, Coming
<1>2. CASE PairNext
  BY <1>2, StepCases, CalmReceives, startReceives, _pullReceives, _pushReceives, programReceives, socketReceives,
     peer_sendsReceives
<1> QED BY <1>1, <1>2

-----------------------------------------------------------------------------
\* The bytes of a stream: at least the entries that wait in its buffer and the
\* ones the engine was asked to take.
Full == [e \in Seq(Items) |-> IF e # <<>> THEN <<1>> ELSE <<>>]
Cnt(q) == Len(Gather(q, Full))

Counts ==
  \A w \in Sides : st[w].bytes >= Cnt(st[w].pend) + Tok(stack, w)

\* One token for each entry that is not the end.
LEMMA FullFun == Full \in [Seq(Items) -> Seq(Nat)]
<1>1. <<1>> \in Seq(Nat) /\ <<>> \in Seq(Nat) OBVIOUS
<1>2. PICK V, N, a, z : V = Seq(Items) /\ N = Seq(Nat) /\ a = <<1>> /\ z = <<>> BY Zenon
<1>3. a \in N /\ z \in N BY <1>1, <1>2
<1>4. [e \in V |-> IF e # z THEN a ELSE z] \in [V -> N] BY <1>3
<1> QED BY <1>2, <1>4 DEF Full

\* One entry more, at either end of the buffer.
LEMMA CntFacts ==
  ASSUME NEW q \in Seq(Seq(Items)), NEW e \in Seq(Items)
  PROVE  /\ Cnt(q) \in Nat
         /\ Cnt(Grown(q, e)) = IF e = Nil THEN Cnt(q) ELSE Cnt(q) + 1
         /\ Cnt(Cons(e, q)) = IF e = Nil THEN Cnt(q) ELSE Cnt(q) + 1
<1>1. PICK V, h : V = Seq(Items) /\ h = Full OBVIOUS
<1>2. h \in [V -> Seq(Nat)] /\ e \in V /\ q \in Seq(V) BY <1>1, FullFun
<1>3. <<e>> \in Seq(V) /\ Append(q, e) = q \o <<e>> BY <1>2
<1>4. PICK u \in Seq(V) : u = <<e>> BY <1>3, Zenon
<1>5. Gather(u, h) = h[e] BY <1>2, <1>4, GatherOne, Zenon
<1>6. h[e] = IF e # <<>> THEN <<1>> ELSE <<>> BY <1>1 DEF Full
<1>7. /\ Gather(q \o u, h) = Gather(q, h) \o Gather(u, h) /\ Gather(u \o q, h) = Gather(u, h) \o Gather(q, h)
      /\ Gather(q, h) \in Seq(Nat)
  <2>1. Gather(q, h) \in Seq(Nat) BY <1>2, GatherType, Zenon
  <2>2. Gather(q \o u, h) = Gather(q, h) \o Gather(u, h) BY <1>2, GatherCat, Zenon
  <2>3. Gather(u \o q, h) = Gather(u, h) \o Gather(q, h) BY <1>2, GatherCat, Zenon
  <2> QED BY <2>1, <2>2, <2>3
<1>8. PICK g \in Seq(Nat) : g = Gather(q, h) BY <1>7
<1>9. /\ Len(g \o <<1>>) = Len(g) + 1 /\ Len(<<1>> \o g) = Len(g) + 1 /\ Len(g) \in Nat
      /\ Len(g \o <<>>) = Len(g) /\ Len(<<>> \o g) = Len(g) BY <1>8
<1>10. Cnt(q) = Len(g) /\ Cnt(Grown(q, e)) = Len(g \o h[e]) /\ Cnt(Cons(e, q)) = Len(h[e] \o g)
  BY <1>1, <1>3, <1>4, <1>5, <1>7, <1>8, Zenon DEF Cnt, Grown, Cons
<1> QED BY <1>6, <1>9, <1>10 DEF Nil

\* The tokens of the stack, by the frame on top.
LEMMA TopTok ==
  ASSUME Control, ~Idle, NEW w
  PROVE  /\ Tok(stack, w) \in Nat /\ Tok(Tail(stack), w) \in Nat
         /\ Tok(stack, w) = IF Asks(Head(stack), w) THEN Tok(Tail(stack), w) + 1 ELSE Tok(Tail(stack), w)
<1>1. PICK y \in Frames, s \in Seq(Frames) : y = Head(stack) /\ s = Tail(stack) /\ stack = Cons(y, s)
  BY TopFits, Zenon DEF Cons
<1>2. /\ Tok(s, w) \in Nat /\ Tok(Cons(y, s), w) \in Nat
      /\ Tok(Cons(y, s), w) = IF Asks(y, w) THEN Tok(s, w) + 1 ELSE Tok(s, w) BY TokTop
<1> QED BY <1>1, <1>2

\* Tokens are counted by a natural number.
LEMMA TokType == ASSUME NEW s \in Seq(Frames), NEW w PROVE Tok(s, w) \in Nat
<1>1. Asked(w) \in [Frames -> Seq(Nat)] BY AskedFun
<1>2. Gather(s, Asked(w)) \in Seq(Nat) BY <1>1, GatherType
<1> QED BY <1>2, LenType DEF Tok

\* Types of what is counted.
LEMMA CountTypes ==
  ASSUME Types, NEW w \in Sides
  PROVE  st[w].bytes \in Int /\ Cnt(st[w].pend) \in Nat /\ Tok(stack, w) \in Nat
<1>1. st[w].pend \in Seq(Seq(Items)) /\ stack \in Seq(Frames) /\ st[w].bytes \in Int BY TypeFacts, Zenon
<1>2. Nil \in Seq(Items) BY NilFacts
<1> QED BY <1>1, <1>2, CntFacts, TokType

\* A calm step.
LEMMA CalmCounts == ASSUME Counts, Calm PROVE Counts'
BY DEF Counts, Calm, Alike

\* A step that leaves the buffers and the engine's questions alone.
LEMMA SameCounts ==
  ASSUME Counts, st' = st, \A w \in Sides : Tok(stack', w) = Tok(stack, w)
  PROVE  Counts'
BY DEF Counts

\* One entry more, written by the program or the socket, or the end.
LEMMA moreCounts ==
  ASSUME Control, Counts, Running, NEW w \in Sides,
         \/ \E d \in Seq(Items) : write(w, d)
         \/ done(w)
  PROVE  Counts'
<1>0. Types /\ stack \in Seq(Frames) /\ st[w].pend \in Seq(Seq(Items)) /\ Nil \in Seq(Items)
  BY TypeFacts, NilFacts DEF Control
<1>1. Cycle(0) \in Frames /\ Plain(Cycle(0)) /\ Frame("write", w, 0) \in Frames /\ Plain(Frame("write", w, 0))
  BY PlainMade DEF Methods
<1>2. stack' = <<Cycle(0)>> \o stack \/ stack' = <<Cycle(0), Frame("write", w, 0)>> \o stack BY Zenon DEF write, done
<1>3. stack' = Cons(Cycle(0), stack) \/ stack' = Cons(Cycle(0), Cons(Frame("write", w, 0), stack))
  BY <1>0, <1>1, <1>2, ConsPair, Zenon
<1>4. Restacked BY <1>0, <1>1, <1>3 DEF Restacked
<1>5. \A v \in Sides : Tok(stack', v) = Tok(stack, v) BY <1>4, RunningPlain, RestackedCalm DEF Alike
<1>6. st'[Other(w)] = st[Other(w)] /\ \A v \in Sides : v = w \/ v = Other(w)
  <2>1. \A v \in Sides : v = w \/ v = Other(w) BY DEF Sides, Other
  <2> QED BY <1>0, <2>1, WriteFields, DoneFields
<1>7. st'[w].bytes >= Cnt(st'[w].pend) + Tok(stack, w)
  <2>0. st[w].bytes >= Cnt(st[w].pend) + Tok(stack, w) /\ st[w].bytes \in Int /\ Tok(stack, w) \in Nat /\ Cnt(st[w].pend) \in Nat
    BY <1>0, CountTypes DEF Counts
  <2>1. PICK q \in Seq(Seq(Items)) : q = st[w].pend BY <1>0
  <2>2. ASSUME NEW d \in Seq(Items), write(w, d) PROVE st'[w].bytes >= Cnt(st'[w].pend) + Tok(stack, w)
    <3>1. st'[w].bytes = st[w].bytes + 1 /\ st'[w].pend = Grown(q, d) BY <1>0, <2>1, <2>2, WriteFields
    <3>2. Cnt(Grown(q, d)) = IF d = Nil THEN Cnt(q) ELSE Cnt(q) + 1 BY CntFacts
    <3> QED BY <2>0, <2>1, <3>1, <3>2
  <2>3. ASSUME done(w) PROVE st'[w].bytes >= Cnt(st'[w].pend) + Tok(stack, w)
    <3>1. st'[w].bytes = st[w].bytes /\ st'[w].pend = Grown(q, Nil) BY <1>0, <2>1, <2>3, DoneFields DEF Nil
    <3>2. Cnt(Grown(q, Nil)) = Cnt(q) BY <1>0, CntFacts
    <3> QED BY <2>0, <2>1, <3>1, <3>2
  <2> QED BY <2>2, <2>3
<1> QED BY <1>5, <1>6, <1>7 DEF Counts

\* The newest entry is offered to the engine.
LEMMA offerCounts ==
  ASSUME Control, Counts, ~Idle, Head(stack).f = "pull", Head(stack).pc = 0,
         NEW w \in Sides, NEW x \in Frames, NEW q \in Seq(Seq(Items)), PullStep(w, x, q)
  PROVE  Counts'
<1> DEFINE r == Tail(stack)
<1>0. Types /\ r \in Seq(Frames) /\ x.data \in Seq(Items) BY TopFits DEF Control, Frames
<1>1. /\ x.f = "pull" /\ x.w = w /\ x.pc = 2 /\ x.data # Nil /\ st[w].pend = Grown(q, x.data) /\ st'[w].pend = q
      /\ st'[Other(w)] = st[Other(w)] /\ Went(x, r) /\ st'[w].bytes = st[w].bytes BY DEF PullStep, SameRest, Nil
<1>2. Fails(r) \/ Quiet(x, r) \/ Ends(x, r) BY <1>0, <1>1, WentFields, Zenon
<1>3. \A v \in Sides : Tok(stack, v) = Tok(r, v) /\ Tok(r, v) \in Nat
  <2>1. \A v \in Sides : ~Asks(Head(stack), v) BY DEF Asks
  <2> QED BY <2>1, TopTok
<1>4. \A v \in Sides : /\ Tok(stack', v) \in Nat
                       /\ v = w => Tok(stack', v) <= Tok(r, v) + 1
                       /\ v # w => Tok(stack', v) = Tok(r, v)
  <2> SUFFICES ASSUME NEW v \in Sides
      PROVE  Tok(stack', v) \in Nat /\ (v = w => Tok(stack', v) <= Tok(r, v) + 1) /\ (v # w => Tok(stack', v) = Tok(r, v))
    OBVIOUS
  <2>1. /\ Tok(Cons(x, r), v) \in Nat
        /\ Tok(Cons(x, r), v) = IF Asks(x, v) THEN Tok(r, v) + 1 ELSE Tok(r, v) BY <1>0, TokTop, Zenon
  <2>2. Asks(x, v) <=> v = w BY <1>1 DEF Asks
  <2>3. CASE Fails(r)
    <3>1. Tok(stack', v) = Tok(r, v) BY <1>0, <2>3, FailsTop, Zenon DEF Alike
    <3> QED BY <1>3, <3>1
  <2>4. CASE Quiet(x, r) \/ Ends(x, r)
    <3>1. Tok(stack', v) = Tok(Cons(x, r), v) BY <1>0, <2>4, WentHeld, Zenon DEF Alike
    <3> QED BY <1>3, <2>1, <2>2, <3>1
  <2> QED BY <1>2, <2>3, <2>4
<1>5. Cnt(st[w].pend) = Cnt(q) + 1 /\ Cnt(q) \in Nat
  <2>1. Cnt(Grown(q, x.data)) = (IF x.data = Nil THEN Cnt(q) ELSE Cnt(q) + 1) /\ Cnt(q) \in Nat BY <1>0, CntFacts
  <2> QED BY <1>1, <2>1
<1>6. st'[w].bytes >= Cnt(st'[w].pend) + Tok(stack', w)
  <2>1. st[w].bytes >= Cnt(st[w].pend) + Tok(stack, w) /\ st[w].bytes \in Int BY <1>0, CountTypes DEF Counts
  <2> QED BY <1>1, <1>3, <1>4, <1>5, <2>1
<1>7. \A v \in Sides : v = w \/ (v = Other(w) /\ v # w) BY DEF Sides, Other
<1>8. ASSUME NEW v \in Sides, v # w PROVE st'[v].bytes >= Cnt(st'[v].pend) + Tok(stack', v)
  <2>1. st'[v] = st[v] /\ Tok(stack', v) = Tok(stack, v) BY <1>1, <1>3, <1>4, <1>7, <1>8
  <2> QED BY <2>1 DEF Counts
<1> QED BY <1>6, <1>8 DEF Counts

\* The end is taken from a buffer.
LEMMA eofCounts ==
  ASSUME Control, Counts, ~Idle, Head(stack).f = "pull", Head(stack).pc = 0,
         NEW w \in Sides, NEW q \in Seq(Seq(Items)), EofStep(w, q, Tail(stack))
  PROVE  Counts'
<1> DEFINE r == Tail(stack)
<1>0. r \in Seq(Frames) /\ stack # <<>> /\ Plain(Head(stack)) /\ Nil \in Seq(Items)
  BY TopFits, PlainFrames, NilFacts DEF Idle
<1>1. /\ st[w].pend = Grown(q, Nil) /\ st'[w].pend = q /\ st'[Other(w)].pend = st[Other(w)].pend
      /\ st'[w].bytes = st[w].bytes /\ st'[Other(w)].bytes = st[Other(w)].bytes
      /\ stack' = <<Cycle(0), Frame("pull", w, 1)>> \o r BY DEF EofStep, SameRest, Nil
<1>2. Cycle(0) \in Frames /\ Plain(Cycle(0)) /\ Frame("pull", w, 1) \in Frames /\ Plain(Frame("pull", w, 1))
  BY PlainMade DEF Methods
<1>3. stack' = Cons(Cycle(0), Cons(Frame("pull", w, 1), r)) BY <1>0, <1>1, <1>2, ConsPair, Zenon
<1>4. Restacked BY <1>0, <1>2, <1>3, Zenon DEF Restacked
<1>5. \A v \in Sides : Tok(stack', v) = Tok(stack, v) BY <1>0, <1>4, RestackedCalm DEF Alike
<1>6. Cnt(Grown(q, Nil)) = Cnt(q) BY <1>0, CntFacts
<1>7. \A v \in Sides : v = w \/ v = Other(w) BY DEF Sides, Other
<1> QED BY <1>1, <1>5, <1>6, <1>7, Zenon DEF Counts

\* The engine answers _pull: the count falls by one if it took the entry.
LEMMA answerCounts ==
  ASSUME Control, Counts, ~Idle, Head(stack).f = "pull", Head(stack).pc = 2, NEW w \in Sides, w = Head(stack).w,
         RefusedStep(w, Head(stack).data, Tail(stack)) \/ TakenStep(w, Tail(stack))
  PROVE  Counts'
<1> DEFINE h == Head(stack)
           r == Tail(stack)
           y == Frame("pull", w, 0)
           c == User("callback")
<1>0. Types /\ r \in Seq(Frames) /\ h \in Frames /\ h.data \in Seq(Items) BY TopFits DEF Frames, Control
<1>1. st'[Other(w)] = st[Other(w)] /\ (stack' = r \/ stack' = <<y>> \o r \/ stack' = <<c, y>> \o r)
  BY Zenon DEF TakenStep, RefusedStep
<1>2. y \in Frames /\ Plain(y) /\ c \in Frames /\ Plain(c) BY PlainMade DEF Methods, Handlers
<1>3. \A v \in Sides : /\ Tok(r, v) \in Nat
                       /\ Tok(stack, v) = IF v = w THEN Tok(r, v) + 1 ELSE Tok(r, v)
  <2>1. \A v \in Sides : Asks(h, v) <=> v = w BY DEF Asks
  <2> QED BY <2>1, TopTok
<1> HIDE DEF h, y, c, r
<1>4. stack' = r \/ stack' = Cons(y, r) \/ stack' = Cons(c, Cons(y, r)) BY <1>0, <1>1, <1>2, ConsPair, Zenon
<1>5. Alike(r, Cons(y, r)) /\ Cons(y, r) \in Seq(Frames) BY <1>0, <1>2, AlikeTop, ConsTop
<1>6. Alike(r, Cons(c, Cons(y, r))) BY <1>0, <1>2, <1>5, AlikeTwo
<1>7. \A v \in Sides : Tok(stack', v) = Tok(r, v) BY <1>4, <1>5, <1>6 DEF Alike
<1>8. /\ st[w].bytes >= Cnt(st[w].pend) + Tok(stack, w) /\ st[w].bytes \in Int
      /\ Cnt(st[w].pend) \in Nat /\ Tok(stack, w) = Tok(r, w) + 1 /\ Tok(r, w) \in Nat
  BY <1>0, <1>3, CountTypes, Zenon DEF Counts
<1>9. CASE RefusedStep(w, h.data, r)
  <2>1. st'[w].bytes = st[w].bytes /\ st'[w].pend = Cons(h.data, st[w].pend)
    BY <1>9, Zenon DEF RefusedStep, SameRest, Cons
  <2>2. PICK q \in Seq(Seq(Items)), d \in Seq(Items) : q = st[w].pend /\ d = h.data BY <1>0, TypeFacts, Zenon
  <2>3. Cnt(Cons(d, q)) = IF d = Nil THEN Cnt(q) ELSE Cnt(q) + 1 BY CntFacts
  <2>4. st'[w].bytes >= Cnt(st'[w].pend) + Tok(stack', w) BY <1>7, <1>8, <2>1, <2>2, <2>3
  <2>5. \A v \in Sides : v = w \/ (v = Other(w) /\ v # w) BY DEF Sides, Other
  <2>6. ASSUME NEW v \in Sides, v # w PROVE st'[v].bytes >= Cnt(st'[v].pend) + Tok(stack', v)
    BY <1>1, <1>3, <1>7, <2>5, <2>6 DEF Counts
  <2> QED BY <2>4, <2>6 DEF Counts
<1>10. CASE TakenStep(w, r)
  <2>1. st'[w].bytes = st[w].bytes - 1 /\ st'[w].pend = st[w].pend BY <1>10 DEF TakenStep
  <2>4. st'[w].bytes >= Cnt(st'[w].pend) + Tok(stack', w) BY <1>7, <1>8, <2>1
  <2>5. \A v \in Sides : v = w \/ (v = Other(w) /\ v # w) BY DEF Sides, Other
  <2>6. ASSUME NEW v \in Sides, v # w PROVE st'[v].bytes >= Cnt(st'[v].pend) + Tok(stack', v)
    BY <1>1, <1>3, <1>7, <2>5, <2>6 DEF Counts
  <2> QED BY <2>4, <2>6 DEF Counts
<1> QED BY <1>9, <1>10 DEF h, r

\* A step of CryptoStream:_pull.
LEMMA _pullCounts == ASSUME Control, Counts, _pull PROVE Counts'
<1> DEFINE h == Head(stack)
           w == h.w
           r == Tail(stack)
<1>1. /\ ~Idle /\ h.f = "pull" /\ w \in Sides /\ h \in Frames /\ r \in Seq(Frames)
      /\ \/ h.pc = 0 /\ RestStep(w, r)
         \/ h.pc = 0 /\ \E q \in Seq(Seq(Items)) : EofStep(w, q, r)
         \/ h.pc = 0 /\ UNCHANGED <<net, calls>> /\ \E x \in Frames, q \in Seq(Seq(Items)) : PullStep(w, x, q)
         \/ h.pc = 1 /\ DoneStep(w, r)
         \/ h.pc = 2 /\ ~h.b /\ RefusedStep(w, h.data, r)
         \/ h.pc = 2 /\ h.b /\ TakenStep(w, r) BY PullCases
<1>2. ASSUME h.pc \in {0, 1}, RestStep(w, r) \/ DoneStep(w, r) PROVE Counts'
  <2>1. Plain(h) BY <1>1, <1>2, PlainFrames
  <2>2. Calm BY <1>1, <1>2, <2>1, returnCalm
  <2> QED BY <2>2, CalmCounts
<1>3. ASSUME h.pc = 0, NEW q \in Seq(Seq(Items)), EofStep(w, q, r) PROVE Counts' BY <1>1, <1>3, eofCounts
<1>4. ASSUME h.pc = 0, NEW x \in Frames, NEW q \in Seq(Seq(Items)), PullStep(w, x, q) PROVE Counts'
  BY <1>1, <1>4, offerCounts
<1>5. ASSUME h.pc = 2, RefusedStep(w, h.data, r) \/ TakenStep(w, r) PROVE Counts' BY <1>1, <1>5, answerCounts
<1> QED BY <1>1, <1>2, <1>3, <1>4, <1>5

\* A step of CryptoStream:_push.
LEMMA _pushCounts == ASSUME Control, Counts, _push PROVE Counts'
<1> DEFINE h == Head(stack)
           w == h.w
           r == Tail(stack)
           y == Frame("push", w, 0)
           z == Frame("data", w, 0)
<1>0. Types BY DEF Control
<1>1. /\ ~Idle /\ h.f = "push" /\ w \in Sides /\ h \in Frames /\ r \in Seq(Frames) BY PushCases
<1>2. \/ Plain(h) /\ stack' = r /\ UNCHANGED <<st, ssl, pair, net, io, calls>>
      \/ \E x \in Frames, d \in Seq(Items) : PushStep(x, d)
      \/ stack' = <<>> /\ st' = st
      \/ Plain(h) /\ DoneStep(w, r)
      \/ EmitStep(w, h.data, r)
  <2>1. h.pc = 0 => Plain(h)
    <3>1. FrameFits(h, pair) BY <1>1, TopFits
    <3> QED BY <1>1, <3>1, PlainFrames DEF FrameFits
  <2>2. h.pc = 3 /\ h.data = <<>> => Plain(h) BY PlainFrames
  <2> QED BY <2>1, <2>2, PushCases
<1>3. ASSUME Plain(h), (stack' = r /\ UNCHANGED <<st, ssl, pair, net, io, calls>>) \/ DoneStep(w, r) PROVE Counts'
  <2>1. Calm BY <1>1, <1>3, returnCalm
  <2> QED BY <2>1, CalmCounts
<1>4. \A v \in Sides : Tok(stack, v) = Tok(r, v)
  <2>1. \A v \in Sides : ~Asks(h, v) BY <1>1 DEF Asks
  <2> QED BY <1>1, <2>1, TopTok
<1>5. ASSUME NEW x \in Frames, NEW d \in Seq(Items), PushStep(x, d) PROVE Counts'
  <2>1. x.f = "push" /\ Went(x, r) /\ st' = st BY <1>5 DEF PushStep
  <2>2. Fails(r) \/ Quiet(x, r) \/ Ends(x, r) BY <1>0, <1>1, <2>1, WentFields, Zenon
  <2>3. \A v \in Sides : Tok(Cons(x, r), v) = Tok(r, v)
    <3>1. \A v \in Sides : ~Asks(x, v) BY <2>1 DEF Asks
    <3> QED BY <1>1, <3>1, TokTop, Zenon
  <2>4. \A v \in Sides : Tok(stack', v) = Tok(stack, v)
    <3>1. CASE Fails(r) BY <1>1, <1>4, <3>1, FailsTop, Zenon DEF Alike
    <3>2. CASE Quiet(x, r) \/ Ends(x, r) BY <1>1, <1>4, <2>3, <3>2, WentHeld, Zenon DEF Alike
    <3> QED BY <2>2, <3>1, <3>2
  <2> QED BY <2>1, <2>4, SameCounts
<1>6. ASSUME stack' = <<>>, st' = st PROVE Counts'
  <2>1. \A v \in Sides : Tok(stack', v) = 0 /\ Tok(stack, v) \in Nat BY <1>0, <1>6, TokNone, CountTypes
  <2>2. ASSUME NEW v \in Sides PROVE st'[v].bytes >= Cnt(st'[v].pend) + Tok(stack', v)
    <3>1. st[v].bytes >= Cnt(st[v].pend) + Tok(stack, v) /\ st[v].bytes \in Int /\ Cnt(st[v].pend) \in Nat
      BY <1>0, CountTypes DEF Counts
    <3> QED BY <1>6, <2>1, <3>1
  <2> QED BY <2>2 DEF Counts
<1>7. ASSUME EmitStep(w, h.data, r) PROVE Counts'
  <2>1. st' = st /\ stack' = <<z, y>> \o r BY <1>7 DEF EmitStep
  <2>2. y \in Frames /\ Plain(y) /\ z \in Frames /\ Plain(z) BY <1>1, PlainMade DEF Methods, Handlers
  <2> HIDE DEF y, z
  <2>3. stack' = Cons(z, Cons(y, r)) BY <1>1, <2>1, <2>2, ConsPair, Zenon
  <2>4. Alike(r, Cons(y, r)) /\ Cons(y, r) \in Seq(Frames) BY <1>1, <2>2, AlikeTop, ConsTop, Zenon
  <2>5. Alike(r, Cons(z, Cons(y, r))) BY <1>1, <2>2, <2>4, AlikeTwo, Zenon
  <2>6. \A v \in Sides : Tok(stack', v) = Tok(stack, v) BY <1>4, <2>3, <2>5 DEF Alike
  <2> QED BY <2>1, <2>6, SameCounts, Zenon
<1> QED BY <1>2, <1>3, <1>5, <1>6, <1>7

\* The timer starts the pair.
LEMMA startCounts == ASSUME Control, Counts, start PROVE Counts'
<1>1. stack = <<>> /\ stack' = <<Cycle(0)>> /\ st' = st BY DEF start, Idle
<1>2. Cycle(0) \in Frames /\ Plain(Cycle(0)) /\ stack \in Seq(Frames) BY <1>1, PlainMade
<1>3. stack' = Cons(Cycle(0), stack) BY <1>1, <1>2 DEF Cons
<1>4. \A v \in Sides : Tok(stack', v) = Tok(stack, v) BY <1>2, <1>3, AlikeTop DEF Alike
<1> QED BY <1>1, <1>4, SameCounts

\* Every step keeps the counts.
LEMMA NextCounts == Control /\ Counts /\ [PairNext]_pairVars => Counts'
<1> SUFFICES ASSUME Control, Counts, [PairNext]_pairVars PROVE Counts' OBVIOUS
<1>1. CASE UNCHANGED pairVars BY <1>1 DEF pairVars, Counts
<1>2. CASE peer_sends BY <1>2, SameCounts DEF peer_sends
<1>3. ASSUME program_writes PROVE Counts'
  <2>1. PICK c \in Chunks : write("clr", <<c>>) /\ Running BY <1>3 DEF program_writes
  <2>2. <<c>> \in Seq(Items) BY OwnItems
  <2> QED BY <2>1, <2>2, moreCounts, Zenon DEF Sides
<1>4. ASSUME Running, done("clr") PROVE Counts' BY <1>4, moreCounts DEF Sides
<1>5. ASSUME socket_data PROVE Counts'
  <2>1. write("enc", net.queue) /\ Running BY <1>5 DEF socket_data, Running
  <2>2. net.queue \in Seq(Items) BY TypeFacts DEF Control
  <2> QED BY <2>1, <2>2, moreCounts DEF Sides
<1>6. ASSUME socket_end, done("enc") PROVE Counts' BY <1>6, moreCounts DEF socket_end, Running, Sides
<1>7. CASE PairNext
  BY <1>2, <1>3, <1>4, <1>5, <1>6, <1>7, StepCases, CalmCounts, startCounts, _pullCounts, _pushCounts
<1> QED BY <1>1, <1>7

\* At first the buffers are empty.
LEMMA InitCounts == PairInit => Counts
<1> SUFFICES ASSUME PairInit, NEW w \in Sides PROVE st[w].bytes >= Cnt(st[w].pend) + Tok(stack, w) BY DEF Counts
<1>1. st[w].bytes = 0 /\ st[w].pend = <<>> /\ stack = <<>> BY DEF PairInit, CryptoStream_initialize
<1>2. Cnt(<<>>) = 0 /\ Tok(<<>>, w) = 0 BY TokNone, GatherNone DEF Cnt
<1> QED BY <1>1, <1>2

-----------------------------------------------------------------------------
\* The layers together are inductive.
PairOrder == Control /\ EngineGone /\ Sends /\ Awake /\ Receives /\ Counts

\* The layers hold when the pair is created.
LEMMA InitOrder == ASSUME PairInit, EngineGone PROVE PairOrder
BY InitControl, InitSends, InitAwake, InitReceives, InitCounts DEF PairOrder

\* Every step keeps them.
LEMMA NextOrder == ASSUME PairOrder, EngineGone', [PairNext]_pairVars PROVE PairOrder'
<1>1. Control' BY NextControl DEF PairOrder
<1>2. Sends' BY <1>1, NextSends DEF PairOrder
<1>3. Awake' BY NextAwake DEF PairOrder
<1>4. Receives' BY <1>1, NextReceives DEF PairOrder
<1>5. Counts' BY NextCounts DEF PairOrder
<1> QED BY <1>1, <1>2, <1>3, <1>4, <1>5 DEF PairOrder

\* They say what the program and the peer see.
LEMMA OrderDelivers == ASSUME PairOrder, PairInv PROVE DeliveredInOrder
<1>1. Types /\ Guards BY DEF PairOrder, Control
<1>2. PairTypeOK
  <2>1. DOMAIN st = Sides BY <1>1 DEF Types
  <2>2. ASSUME NEW w \in Sides
        PROVE  /\ st[w].bytes \in Nat /\ st[w].due \in Nat
               /\ st[w].paused \in BOOLEAN /\ st[w].needDrain \in BOOLEAN
    <3>1. st[w] \in Streams BY <1>1 DEF Types
    <3>2. st[w].bytes \in Int /\ Cnt(st[w].pend) \in Nat /\ Tok(stack, w) \in Nat BY <1>1, CountTypes
    <3>3. st[w].bytes >= Cnt(st[w].pend) + Tok(stack, w) BY DEF PairOrder, Counts
    <3>4. st[w].bytes \in Nat BY <3>2, <3>3
    <3>5. st[w].due \in Nat /\ st[w].paused \in BOOLEAN /\ st[w].needDrain \in BOOLEAN BY <3>1 DEF Streams
    <3> QED BY <3>4, <3>5
  <2>3. ssl.flights \in 0..Flights BY <1>1 DEF Types, Engines, Flights
  <2>4. calls \in 0..MaxCalls /\ pair.how \in {"none", "error", "done", "program"} BY <1>1 DEF Types, Flags
  <2> QED BY <2>1, <2>2, <2>3, <2>4 DEF PairTypeOK
<1>3. NothingLost /\ SentInOrder BY DEF PairOrder, Sends, Shuffled, NothingLost, SentInOrder
<1>4. ReceivedInOrder BY <1>1 DEF PairOrder, Receives, Guards, ReceivedInOrder
<1>5. NoUseAfterDestroy BY DEF PairInv
<1> QED BY <1>2, <1>3, <1>4, <1>5 DEF DeliveredInOrder

\* A TLS connection is a channel, whatever the handlers do and however the calls
\* of cycle nest: as long as the engine reports no error, every chunk the program
\* wrote is on the wire, in the engine or still waiting, once, and in the order of
\* the writes unless one was written while another waited; the program gets what
\* the peer sent, in order, and only after 'secure', which comes once.  And no call
\* uses the engine after destroy but the one NoUseAfterDestroy names.
THEOREM PairDeliversInOrder == PairSpec => []DeliveredInOrder
<1>1. PairInit => PairInv BY PairInitInv
<1>2. PairInv /\ [PairNext]_pairVars => PairInv' BY PairNextInv
<1>3. PairInit => PairOrder BY <1>1, InitOrder DEF PairInv
<1>4. PairInv /\ PairInv' /\ PairOrder /\ [PairNext]_pairVars => PairOrder' BY NextOrder DEF PairInv
<1>5. PairInv /\ PairOrder => DeliveredInOrder BY OrderDelivers
<1> QED BY <1>1, <1>2, <1>3, <1>4, <1>5, PTL DEF PairSpec
=============================================================================
