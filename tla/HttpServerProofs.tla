--------------------------- MODULE HttpServerProofs ---------------------------
(***************************************************************************)
(* What holds of every connection of module HttpServer, for every bound on *)
(* the requests, the writes and the headers: each response is framed on    *)
(* the wire as its head announced (WellFramed), and each request gets its  *)
(* "end" (RequestsSound).                                                  *)
(***************************************************************************)
EXTENDS HttpServer, FiniteSetTheorems, TLAPS

-----------------------------------------------------------------------------
\* The inductive invariant, by what it is about.

\* The pieces s of response p: c times "continue", the head, and then a body in
\* the encoding the head announced, whose last chunk is the end of it.
Ordered(p, s, c) ==
  \A i \in DOMAIN s :
    /\ s[i] = "continue" <=> i <= c
    /\ s[i] = "head" <=> i = c + 1
    /\ s[i] = "last" => i = Len(s) /\ p.finished
    /\ s[i] = "raw" => "chunked" \notin KindsOf(p)
    /\ s[i] \in {"chunk", "last"} => "chunked" \in KindsOf(p)
    /\ s[i] \in {"chunk", "raw", "last"} => p.has_body # "no"

\* The head is on the wire only if it was sent, and unless the socket ignored
\* it; of a response that is finished then all is there.
Complete(p, s, c) ==
  /\ Len(s) > c => p.headers_sent
  /\ sock # "destroyed" /\ p.headers_sent => Len(s) > c
  /\ sock # "destroyed" /\ p.finished /\ "chunked" \in KindsOf(p) => s[Len(s)] = "last"

\* The wire.
WireOrdered ==
  \/ wire.of = 0 /\ wire.pieces = <<>>
  \/ /\ wire.of \in DOMAIN response /\ wire.pieces # <<>>
     /\ \E c \in 0..1 : /\ Ordered(response[wire.of], wire.pieces, c)
                        /\ Complete(response[wire.of], wire.pieces, c)

\* The responses before the one on the wire are finished, those after it have
\* not begun.
InTurn ==
  sock # "destroyed" =>
    \A q \in DOMAIN response :
      (q < wire.of => response[q].finished) /\ (q > wire.of => ~response[q].headers_sent)

\* What a head says of the body: none, and then no chunks, or where it ends.
Announced(p) ==
  /\ p.has_body = "no" => "chunked" \notin KindsOf(p)
  /\ p.keep /\ p.code = "full" /\ ~p.bare => KindsOf(p) \cap {"length", "chunked"} # {}

\* The encoding a response uses is the one its head announced.
Encoded ==
  \A q \in DOMAIN response :
    /\ response[q].headers_sent /\ ~response[q].finished =>
         (response[q].chunked <=> "chunked" \in KindsOf(response[q]))
    /\ response[q].finished => response[q].headers_sent
    /\ response[q].headers_sent => Announced(response[q])
    /\ ~response[q].headers_sent => response[q].has_body = "nil"

\* The socket's end: nothing is read from a destroyed socket, and once its
\* "close" was emitted no callback of the parser is on its way.
ConnSound ==
  /\ sock = "destroyed" => ~reading
  /\ closeTick => sock = "destroyed"
  /\ sock = "destroyed" /\ ~closeTick => ~executing

\* The parser's place in the messages: between two of them the latest request
\* has ended.
ParserSound ==
  /\ shutFor \in {0} \cup DOMAIN response
  /\ shutting => shutFor # 0
  /\ parser = "headers" => Len(response) < MaxRequests
  /\ parser = "body" => response # <<>>
  /\ parser \in {"start", "headers"} /\ response # <<>> => response[Len(response)].request_ended

\* The inductive invariant.  What is on the wire is ordered only as long as the
\* program answers one request at a time.
Inv ==
  /\ TypeOK /\ RequestsEnd /\ ConnSound /\ ParserSound /\ Encoded
  /\ ~outOfTurn => WireOrdered /\ InTurn

-----------------------------------------------------------------------------
\* What the calls make of a response.

\* setCode, setHeader and the like, before the head is sent.
LEMMA ConfiguredFields ==
  ASSUME NEW p \in Responses, NEW q \in Configured(p)
  PROVE  /\ q \in Responses /\ (p.headers_sent => q = p)
         /\ q.headers_sent = p.headers_sent /\ q.finished = p.finished /\ q.writes = p.writes
         /\ q.has_body = p.has_body /\ q.request_ended = p.request_ended
<1>1. CASE p.headers_sent
  BY <1>1 DEF Configured
<1>2. CASE ~p.headers_sent
  <2>1. PICK x \in Codes \X {h \in SUBSET Headers : Cardinality(h) <= MaxHeaders} :
          q = [p EXCEPT !.code = x[1], !.headers = x[2]]
    BY <1>2 DEF Configured
  <2> QED BY <1>2, <2>1 DEF Responses
<1> QED BY <1>1, <1>2

\* The headers of the head say whether the body is chunked.
LEMMA SentKinds ==
  ASSUME NEW p \in Responses, NEW q, q.headers = SentHeaders(p)
  PROVE  /\ SentHeaders(p) \in SUBSET Headers
         /\ "chunked" \in KindsOf(q) <=> "chunked" \in KindsOf(p) \/ AutoChunked(p)
         /\ "length" \in KindsOf(p) => "length" \in KindsOf(q)
<1> DEFINE K == (KindsOf(p) \ {"type"}) \cup (IF AutoChunked(p) THEN {"chunked"} ELSE {})
<1>1. K \subseteq Kinds
  BY DEF KindsOf, Responses, Headers, Kinds
<1>2. SentHeaders(p) = {"named"} \X K
  BY DEF SentHeaders
<1>3. /\ "chunked" \in K <=> "chunked" \in KindsOf(p) \/ AutoChunked(p)
      /\ "length" \in KindsOf(p) => "length" \in K
  OBVIOUS
<1> HIDE DEF K
<1>4. KindsOf(q) = {h[2] : h \in {"named"} \X K}
  BY <1>2 DEF KindsOf
<1>5. \A k \in K : <<"named", k>> \in {"named"} \X K /\ <<"named", k>>[2] = k
  OBVIOUS
<1>6. \A h \in {"named"} \X K : h[2] \in K
  OBVIOUS
<1>7. /\ "chunked" \in KindsOf(q) <=> "chunked" \in K
      /\ "length" \in K => "length" \in KindsOf(q)
  BY <1>4, <1>5, <1>6
<1> QED BY <1>1, <1>2, <1>3, <1>7 DEF Headers

\* Response:flushHead switches on the encoding it announces.
LEMMA FlushFields ==
  ASSUME NEW p \in Responses
  PROVE  /\ flushHead(p) \in Responses /\ flushHead(p).headers_sent
         /\ flushHead(p).finished = p.finished /\ flushHead(p).writes = p.writes
         /\ flushHead(p).request_ended = p.request_ended
         /\ flushHead(p).chunked <=> "chunked" \in KindsOf(flushHead(p))
<1> DEFINE b == IF KindsOf(p) # {} THEN "yes" ELSE Guess(p)
           c == "chunked" \in KindsOf(p) \/ AutoChunked(p)
           h == SentHeaders(p)
           f == [p EXCEPT !.headers_sent = TRUE, !.has_body = b, !.chunked = c, !.headers = h]
<1>1. flushHead(p) = f
  BY DEF flushHead
<1>2. b \in {"nil", "yes", "no"}
  BY DEF Guess, Responses
<1>3. c \in BOOLEAN
  BY Zenon
<1>4. h \in SUBSET Headers
  <2>1. [headers |-> h].headers = h
    OBVIOUS
  <2> QED BY <2>1, SentKinds
<1> HIDE DEF b, h
<1>5. /\ f \in Responses /\ f.headers_sent /\ f.finished = p.finished /\ f.writes = p.writes /\ f.headers = h
      /\ f.request_ended = p.request_ended
  <2> HIDE DEF c
  <2> QED BY <1>2, <1>3, <1>4 DEF Responses
<1>6. f.chunked = c
  <2> HIDE DEF c
  <2> QED BY DEF Responses
<1>7. c <=> "chunked" \in KindsOf(f)
  <2> HIDE DEF f
  <2> QED BY <1>5, SentKinds DEF h
<1> HIDE DEF f, c
<1> QED BY <1>1, <1>5, <1>6, <1>7

\* A head that allows no body announces no chunks, and one that has a body
\* announces its end; a code that allows a body leaves it out only if finish said so.
LEMMA FlushAnnounces ==
  ASSUME NEW p \in Responses
  PROVE  /\ flushHead(p).has_body = "no" => "chunked" \notin KindsOf(flushHead(p))
         /\ p.has_body # "no" /\ p.code = "full" =>
              KindsOf(flushHead(p)) \cap {"length", "chunked"} # {}
         /\ p.has_body = "yes" => flushHead(p).has_body = "yes"
         /\ flushHead(p).code = p.code /\ flushHead(p).keep = p.keep /\ flushHead(p).bare = p.bare
<1> DEFINE f == flushHead(p)
<1>1. /\ f.headers = SentHeaders(p) /\ f.has_body = (IF KindsOf(p) # {} THEN "yes" ELSE Guess(p))
      /\ f.code = p.code /\ f.keep = p.keep /\ f.bare = p.bare
  BY DEF flushHead, Responses
<1> HIDE DEF f
<1>2. /\ "chunked" \in KindsOf(f) <=> "chunked" \in KindsOf(p) \/ AutoChunked(p)
      /\ "length" \in KindsOf(p) => "length" \in KindsOf(f)
  BY <1>1, SentKinds
<1>3. f.has_body = "no" => KindsOf(p) = {} /\ Guess(p) = "no"
  BY <1>1
<1>4. f.has_body = "no" => "chunked" \notin KindsOf(f)
  BY <1>2, <1>3 DEF AutoChunked
<1>5. p.has_body # "no" /\ p.code = "full" => Guess(p) = "yes"
  BY DEF Guess, Responses
<1>6. Guess(p) = "yes" => "length" \in KindsOf(f) \/ "chunked" \in KindsOf(f)
  BY <1>2 DEF AutoChunked
<1>7. p.has_body = "yes" => f.has_body = "yes"
  BY <1>1 DEF Guess
<1> QED BY <1>1, <1>4, <1>5, <1>6, <1>7 DEF f

\* The part of finish before the head is sent.
LEMMA AnnounceFields ==
  ASSUME NEW p \in Responses, NEW chunk
  PROVE  /\ AnnounceBody(p, chunk) \in Responses /\ (p.headers_sent => AnnounceBody(p, chunk) = p)
         /\ AnnounceBody(p, chunk).headers_sent = p.headers_sent
         /\ AnnounceBody(p, chunk).finished = p.finished
         /\ AnnounceBody(p, chunk).request_ended = p.request_ended
         /\ ~p.headers_sent /\ p.has_body = "nil" =>
              AnnounceBody(p, chunk).has_body = IF chunk = "nil" THEN "no" ELSE "yes"
<1> DEFINE h == IF p.keep \/ \E x \in p.headers : x[1] = "added" \/ x \in {"named"} \X {"length", "chunked"}
                THEN p.headers ELSE p.headers \cup {<<"named", "length">>}
<1>1. h \in SUBSET Headers
  BY DEF Responses, Headers, Kinds
<1>2. CASE p.headers_sent \/ p.has_body # "nil"
  BY <1>2 DEF AnnounceBody
<1>3. CASE ~(p.headers_sent \/ p.has_body # "nil") /\ chunk = "nil"
  <2>1. AnnounceBody(p, chunk) = [p EXCEPT !.has_body = "no"]
    BY <1>3 DEF AnnounceBody
  <2> QED BY <1>3, <2>1 DEF Responses
<1>4. CASE ~(p.headers_sent \/ p.has_body # "nil") /\ chunk # "nil"
  <2>1. AnnounceBody(p, chunk) = [p EXCEPT !.has_body = "yes", !.headers = h]
    BY <1>4 DEF AnnounceBody
  <2> HIDE DEF h
  <2> QED BY <1>1, <1>4, <2>1 DEF Responses
<1> QED BY <1>2, <1>3, <1>4

-----------------------------------------------------------------------------
\* What a call puts on the wire.

\* Pieces of a body for response p, the last chunk at its end if it is finished.
BodyOf(p, b) ==
  \A i \in DOMAIN b :
    /\ b[i] \in {"chunk", "raw", "last"}
    /\ b[i] = "last" => i = Len(b) /\ p.finished
    /\ b[i] = "raw" => "chunked" \notin KindsOf(p)
    /\ b[i] \in {"chunk", "last"} => "chunked" \in KindsOf(p)
    /\ p.has_body # "no"

\* What was in order stays so as long as the headers of a head that was sent are
\* not changed.
LEMMA OrderedSame ==
  ASSUME NEW p, ~p.finished, NEW q, NEW s \in Seq(Pieces), NEW c \in 0..1, Ordered(p, s, c),
         Len(s) > c => q.headers = p.headers /\ q.has_body = p.has_body
  PROVE  Ordered(q, s, c) /\ \A i \in DOMAIN s : s[i] # "last"
<1>1. SUFFICES ASSUME NEW i \in DOMAIN s, s[i] # "continue"
               PROVE  /\ "chunked" \in KindsOf(p) <=> "chunked" \in KindsOf(q)
                      /\ p.has_body = q.has_body /\ s[i] # "last"
  BY DEF Ordered
<1>2. i > c /\ i <= Len(s)
  BY <1>1 DEF Ordered
<1>3. q.headers = p.headers /\ q.has_body = p.has_body
  BY <1>2
<1> QED BY <1>1, <1>3 DEF Ordered, KindsOf

\* More of the body after the head.
LEMMA OrderedMore ==
  ASSUME NEW q, NEW s \in Seq(Pieces), NEW c \in 0..1, Ordered(q, s, c), Len(s) > c,
         \A i \in DOMAIN s : s[i] # "last", NEW b \in Seq(Pieces), BodyOf(q, b)
  PROVE  Ordered(q, s \o b, c)
<1> DEFINE t == s \o b
<1>1. /\ Len(t) = Len(s) + Len(b) /\ DOMAIN t = 1..Len(t)
      /\ \A i \in DOMAIN t : i <= Len(s) => i \in DOMAIN s /\ t[i] = s[i]
      /\ \A i \in DOMAIN t : i > Len(s) => /\ i - Len(s) \in DOMAIN b /\ t[i] = b[i - Len(s)]
                                          /\ i - Len(s) = Len(b) <=> i = Len(t)
  OBVIOUS
<1> HIDE DEF t
<1>2. SUFFICES ASSUME NEW i \in DOMAIN t
               PROVE  /\ t[i] = "continue" <=> i <= c
                      /\ t[i] = "head" <=> i = c + 1
                      /\ t[i] = "last" => i = Len(t) /\ q.finished
                      /\ t[i] = "raw" => "chunked" \notin KindsOf(q)
                      /\ t[i] \in {"chunk", "last"} => "chunked" \in KindsOf(q)
                      /\ t[i] \in {"chunk", "raw", "last"} => q.has_body # "no"
  BY DEF Ordered, t
<1>3. CASE i <= Len(s)
  BY <1>1, <1>3 DEF Ordered
<1>4. CASE i > Len(s)
  <2> DEFINE j == i - Len(s)
  <2>1. j \in DOMAIN b /\ t[i] = b[j] /\ (j = Len(b) <=> i = Len(t))
    <3>1. i \in 1..(Len(s) + Len(b)) /\ Len(t) = Len(s) + Len(b) /\ Len(s) \in Nat /\ Len(b) \in Nat
      BY <1>1
    <3>2. j \in 1..Len(b) /\ (j = Len(b) <=> i = Len(t))
      BY <1>4, <3>1
    <3>3. t[i] = b[j]
      BY <1>4, <3>1 DEF t
    <3> QED BY <3>2, <3>3
  <2>3. i > c + 1
    <3>1. i \in Int /\ Len(s) \in Int /\ c \in Int
      BY <1>1
    <3> QED BY <1>4, <3>1
  <2> HIDE DEF j
  <2>2. /\ b[j] \in {"chunk", "raw", "last"}
        /\ b[j] = "last" => j = Len(b) /\ q.finished
        /\ b[j] = "raw" => "chunked" \notin KindsOf(q)
        /\ b[j] \in {"chunk", "last"} => "chunked" \in KindsOf(q)
        /\ q.has_body # "no"
    BY <2>1 DEF BodyOf
  <2> QED BY <2>1, <2>2, <2>3
<1> QED BY <1>1, <1>3, <1>4

\* The head, after at most a "continue", and then the body.
LEMMA OrderedHead ==
  ASSUME NEW q, NEW s \in Seq(Pieces), NEW c \in 0..1, Len(s) = c, \A i \in DOMAIN s : s[i] = "continue",
         NEW b \in Seq(Pieces), BodyOf(q, b)
  PROVE  Ordered(q, s \o (<<"head">> \o b), c) /\ Len(s \o (<<"head">> \o b)) = c + 1 + Len(b)
<1> DEFINE h == s \o <<"head">>
<1>1. "head" \in Pieces
  BY DEF Pieces
<1>2. h \in Seq(Pieces) /\ Len(h) = c + 1 /\ (\A i \in DOMAIN h : h[i] = IF i <= c THEN "continue" ELSE "head")
  BY <1>1
<1>3. s \o (<<"head">> \o b) = h \o b /\ Len(h \o b) = c + 1 + Len(b)
  BY <1>1, <1>2
<1> HIDE DEF h
<1>4. Ordered(q, h, c) /\ \A i \in DOMAIN h : h[i] # "last"
  BY <1>2 DEF Ordered
<1>5. Ordered(q, h \o b, c)
  BY <1>2, <1>4, OrderedMore
<1> QED BY <1>3, <1>5

\* The length of what comes before the head, if that is something.
LEMMA OnlyOne == \A n \in Nat, c \in 0..1 : n <= c /\ n > 0 => c = 1 /\ n = 1
OBVIOUS

\* The type of wire.
Wires == [of : {0} \cup Ids, pieces : Seq(Pieces)]

\* A call that takes the responses in turn, sends the head of response r if it is
\* to be sent, and some of the body, keeps the wire in order.
LEMMA Writing ==
  ASSUME TypeOK, ~outOfTurn, WireOrdered, InTurn,
         NEW r \in DOMAIN response, ~response[r].finished, \A q \in 1..(r - 1) : response[q].finished,
         NEW p \in Responses, p.headers_sent,
         response[r].headers_sent => p.headers = response[r].headers /\ p.has_body = response[r].has_body,
         NEW b \in Seq(Pieces), BodyOf(p, b),
         p.finished /\ "chunked" \in KindsOf(p) => b # <<>> /\ b[Len(b)] = "last",
         Send(r, HeadPiece(response[r]) \o b), Set(r, p), sock' = "destroyed" <=> sock = "destroyed"
  PROVE  ~outOfTurn' /\ outOfTurn' \in BOOLEAN /\ wire' \in Wires /\ WireOrdered' /\ InTurn'
<1> DEFINE old == response[r]
           s == wire.pieces
           pieces == HeadPiece(response[r]) \o b
<1>1. /\ response \in Seq(Responses) /\ old \in Responses /\ Len(response) <= MaxRequests
      /\ wire \in Wires /\ s \in Seq(Pieces) /\ wire.of \in {0} \cup Ids /\ r \in Ids
  <2>1. MaxRequests \in Nat
    BY BoundsAssumption
  <2> QED BY <2>1 DEF TypeOK, Wires, Ids
<1>2. ~outOfTurn' /\ outOfTurn' \in BOOLEAN
  BY DEF Send
<1>3. wire' = IF sock = "destroyed" \/ pieces = <<>> THEN wire
              ELSE [of |-> r, pieces |-> (IF wire.of = r THEN wire.pieces ELSE <<>>) \o pieces]
  BY DEF Send
<1>4. /\ DOMAIN response' = DOMAIN response /\ response'[r] = p
      /\ \A q \in DOMAIN response : q # r => response'[q] = response[q]
  BY <1>1 DEF Set
<1>5. pieces = IF old.headers_sent THEN b ELSE <<"head">> \o b
  <2>1. <<>> \o b = b
    OBVIOUS
  <2> QED BY <2>1 DEF HeadPiece
<1>6. pieces \in Seq(Pieces)
  <2>1. "head" \in Pieces
    BY DEF Pieces
  <2> QED BY <1>5, <2>1
<1>7. wire.of = r => s # <<>> /\ \E c \in 0..1 : Ordered(old, s, c) /\ Complete(old, s, c)
  BY <1>1 DEF WireOrdered, Ids
<1>8. sock # "destroyed" => wire.of <= r /\ (old.headers_sent => wire.of = r)
  BY <1>1 DEF InTurn, Ids
<1> HIDE DEF pieces
<1>9. CASE wire' = wire /\ wire.of # r
  <2>1. WireOrdered'
    BY <1>4, <1>9 DEF WireOrdered, Complete
  <2>2. sock = "destroyed"
    <3>1. SUFFICES ASSUME sock # "destroyed" PROVE FALSE
      OBVIOUS
    <3>2. ~old.headers_sent /\ pieces = <<"head">> \o b
      BY <1>5, <1>8, <1>9, <3>1
    <3>3. pieces # <<>>
      BY <3>2
    <3> QED BY <1>3, <1>9, <3>1, <3>3
  <2> QED BY <1>1, <1>2, <1>9, <2>1, <2>2 DEF InTurn
<1>10. CASE wire' = wire /\ wire.of = r
  <2>1. PICK c \in 0..1 : Ordered(old, s, c) /\ Complete(old, s, c)
    BY <1>7, <1>10
  <2>2. Ordered(p, s, c)
    BY <1>1, <2>1, OrderedSame DEF Complete
  <2>3. sock = "destroyed" \/ (old.headers_sent /\ b = <<>>)
    <3>1. ASSUME sock # "destroyed", pieces # <<>> PROVE FALSE
      <4>1. wire'.pieces = s \o pieces
        BY <1>3, <1>10, <3>1
      <4>2. s \o pieces # s
        BY <1>1, <1>6, <3>1
      <4> QED BY <1>10, <4>1, <4>2
    <3>2. <<"head">> \o b # <<>>
      OBVIOUS
    <3> QED BY <1>5, <3>1, <3>2
  <2>4. Complete(p, s, c)'
    <3>1. Len(s) > c => p.headers_sent
      OBVIOUS
    <3>2. sock # "destroyed" => Len(s) > c
      BY <2>1, <2>3 DEF Complete
    <3>3. sock # "destroyed" => ~(p.finished /\ "chunked" \in KindsOf(p))
      BY <2>3
    <3> QED BY <1>10, <3>1, <3>2, <3>3 DEF Complete
  <2>5. WireOrdered'
    <3>1. wire'.of = r /\ r \in DOMAIN response' /\ wire'.pieces = s /\ s # <<>> /\ response'[r] = p
      BY <1>4, <1>7, <1>10
    <3> QED BY <1>10, <2>2, <2>4, <3>1 DEF WireOrdered, Complete
  <2>6. InTurn'
    BY <1>1, <1>4, <1>10 DEF InTurn, Ids
  <2> QED BY <1>1, <1>2, <1>10, <2>5, <2>6
<1>11. CASE sock # "destroyed" /\ pieces # <<>>
  <2> DEFINE t == (IF wire.of = r THEN wire.pieces ELSE <<>>) \o pieces
  <2>1. wire' = [of |-> r, pieces |-> t] /\ t \in Seq(Pieces) /\ t # <<>>
    BY <1>1, <1>3, <1>6, <1>11
  <2>2. \E c \in 0..1 : Ordered(p, t, c) /\ Len(t) > c /\ (b # <<>> => t[Len(t)] = b[Len(b)])
    <3>1. CASE old.headers_sent
      <4>1. wire.of = r /\ t = s \o b
        BY <1>5, <1>8, <1>11, <3>1
      <4>2. PICK c \in 0..1 : Ordered(old, s, c) /\ Complete(old, s, c)
        BY <1>7, <4>1
      <4>3. Len(s) > c
        BY <1>11, <3>1, <4>2 DEF Complete
      <4>4. Ordered(p, s, c) /\ \A i \in DOMAIN s : s[i] # "last"
        BY <1>1, <3>1, <4>2, OrderedSame
      <4>5. Ordered(p, s \o b, c)
        BY <1>1, <4>3, <4>4, OrderedMore
      <4>6. Len(s \o b) > c /\ (b # <<>> => (s \o b)[Len(s \o b)] = b[Len(b)])
        BY <1>1, <4>3
      <4> QED BY <4>1, <4>5, <4>6
    <3>2. CASE ~old.headers_sent
      <4> DEFINE u == IF wire.of = r THEN wire.pieces ELSE <<>>
      <4>1. u \in Seq(Pieces) /\ \E c \in 0..1 : Len(u) = c /\ \A i \in DOMAIN u : u[i] = "continue"
        <5>1. CASE wire.of = r
          <6>1. PICK c \in 0..1 : Ordered(old, s, c) /\ Complete(old, s, c)
            BY <1>7, <5>1
          <6>2. Len(s) <= c /\ Len(s) > 0
            BY <1>1, <1>7, <3>2, <5>1, <6>1 DEF Complete
          <6>3. c = 1 /\ Len(s) = 1
            <7>1. Len(s) \in Nat
              BY <1>1
            <7> HIDE DEF s
            <7> QED BY <6>2, <7>1, OnlyOne
          <6> QED BY <1>1, <5>1, <6>1, <6>3 DEF Ordered
        <5>2. CASE wire.of # r
          BY <5>2
        <5> QED BY <5>1, <5>2
      <4>2. PICK c \in 0..1 : Len(u) = c /\ \A i \in DOMAIN u : u[i] = "continue"
        BY <4>1
      <4> HIDE DEF u
      <4>3. Ordered(p, u \o (<<"head">> \o b), c) /\ Len(u \o (<<"head">> \o b)) = c + 1 + Len(b)
        BY <4>1, <4>2, OrderedHead
      <4>4. b # <<>> => (u \o (<<"head">> \o b))[c + 1 + Len(b)] = b[Len(b)]
        BY <4>1, <4>2
      <4>5. t = u \o (<<"head">> \o b)
        BY <1>5, <3>2 DEF u
      <4>6. c + 1 + Len(b) > c
        OBVIOUS
      <4> HIDE DEF t
      <4> QED BY <4>3, <4>4, <4>5, <4>6
    <3> QED BY <3>1, <3>2
  <2> HIDE DEF t
  <2>3. WireOrdered'
    <3>1. PICK c \in 0..1 : Ordered(p, t, c) /\ Len(t) > c /\ (b # <<>> => t[Len(t)] = b[Len(b)])
      BY <2>2
    <3>2. /\ Len(t) > c => p.headers_sent
          /\ sock' # "destroyed" /\ p.headers_sent => Len(t) > c
          /\ sock' # "destroyed" /\ p.finished /\ "chunked" \in KindsOf(p) => t[Len(t)] = "last"
      BY <3>1
    <3>3. wire'.of = r /\ r \in DOMAIN response' /\ wire'.pieces = t /\ response'[r] = p
      BY <1>4, <2>1
    <3> QED BY <2>1, <3>1, <3>2, <3>3 DEF WireOrdered, Complete
  <2>4. InTurn'
    <3>1. ASSUME NEW q \in DOMAIN response', sock' # "destroyed"
          PROVE  (q < r => response'[q].finished) /\ (q > r => ~response'[q].headers_sent)
      BY <1>1, <1>4, <1>8, <1>11, <3>1 DEF InTurn, Ids
    <3> QED BY <2>1, <3>1 DEF InTurn
  <2>5. wire' \in Wires
    BY <1>1, <2>1 DEF Wires
  <2> QED BY <1>2, <2>3, <2>4, <2>5
<1> QED BY <1>3, <1>9, <1>10, <1>11

-----------------------------------------------------------------------------
\* The calls of the program.

\* The type of all but the responses and the wire.
ConnType ==
  /\ parser \in {"start", "headers", "body", "dead", "upgraded"}
  /\ executing \in BOOLEAN
  /\ reading \in BOOLEAN /\ closeTick \in BOOLEAN /\ onError \in BOOLEAN
  /\ sock \in {"open", "destroyed"} /\ shutting \in BOOLEAN
  /\ shutFor \in {0} \cup Ids
  /\ raised \in {"none", "end", "error", "close"}

\* The type invariant in groups, which the steps keep one by one.
LEMMA TypeParts ==
  /\ TypeOK => /\ ConnType /\ response \in Seq(Responses) /\ Len(response) <= MaxRequests
               /\ wire \in Wires /\ outOfTurn \in BOOLEAN
  /\ (ConnType /\ response \in Seq(Responses) /\ Len(response) <= MaxRequests
               /\ wire \in Wires /\ outOfTurn \in BOOLEAN)' => TypeOK'
BY Zenon DEF TypeOK, ConnType, Wires

\* A call that sends pieces of response r and leaves p of it, as writeHead, write
\* and finish do.
LEMMA CallInv ==
  ASSUME Inv, ~outOfTurn,
         NEW r \in DOMAIN response, ~response[r].finished, \A q \in 1..(r - 1) : response[q].finished,
         NEW p \in Responses, p.headers_sent,
         response[r].headers_sent => p.headers = response[r].headers /\ p.has_body = response[r].has_body,
         ~p.finished => (p.chunked <=> "chunked" \in KindsOf(p)), Announced(p),
         p.request_ended = response[r].request_ended,
         NEW b \in Seq(Pieces), BodyOf(p, b),
         p.finished /\ "chunked" \in KindsOf(p) => b # <<>> /\ b[Len(b)] = "last",
         Send(r, HeadPiece(response[r]) \o b), Set(r, p),
         UNCHANGED <<parser, executing, reading, sock, closeTick, onError, raised>>,
         \/ UNCHANGED <<shutting, shutFor>>
         \/ shutting' = TRUE /\ shutFor' = r
  PROVE  Inv'
<1>1. /\ ConnType /\ response \in Seq(Responses) /\ Len(response) <= MaxRequests
      /\ wire \in Wires /\ outOfTurn \in BOOLEAN
  BY TypeParts DEF Inv
<1>2. ~outOfTurn' /\ outOfTurn' \in BOOLEAN /\ wire' \in Wires /\ WireOrdered' /\ InTurn'
  BY Writing DEF Inv
<1>3. /\ response' \in Seq(Responses) /\ Len(response') = Len(response)
      /\ DOMAIN response' = DOMAIN response /\ response'[r] = p
      /\ \A q \in DOMAIN response : q # r => response'[q] = response[q]
  BY <1>1 DEF Set
<1>4. r \in Ids /\ MaxRequests \in Nat
  BY <1>1, BoundsAssumption DEF Ids
<1>5. shutting' \in BOOLEAN /\ shutFor' \in {0} \cup Ids
  BY <1>1, <1>4 DEF ConnType
<1>6. ConnType'
  BY <1>1, <1>5, ZenonT(60) DEF ConnType
<1>7. TypeOK'
  BY <1>1, <1>2, <1>3, <1>6, TypeParts
<1>8. /\ \A q \in DOMAIN response : response'[q].request_ended = response[q].request_ended
      /\ response' # <<>> <=> response # <<>>
  BY <1>1, <1>3
<1>9. RequestsEnd'
  BY <1>3, <1>8 DEF Inv, RequestsEnd
<1>10. ConnSound'
  BY DEF Inv, ConnSound
<1>11. ParserSound'
  <2>1. response # <<>> => Len(response) \in DOMAIN response
    BY <1>1
  <2>2. shutFor' \in {0} \cup DOMAIN response' /\ (shutting' => shutFor' # 0)
    BY <1>3, <1>4 DEF Inv, ParserSound, Ids
  <2> QED BY <1>3, <1>8, <2>1, <2>2 DEF Inv, ParserSound
<1>12. Encoded'
  BY <1>3 DEF Inv, Encoded
<1> QED BY <1>2, <1>7, <1>9, <1>10, <1>11, <1>12 DEF Inv

\* The guards of the calls.
LEMMA UsableFacts ==
  ASSUME Inv, NEW r, Usable(r)
  PROVE  /\ ~outOfTurn /\ r \in DOMAIN response /\ ~response[r].finished /\ response[r] \in Responses
         /\ \A q \in 1..(r - 1) : response[q].finished
         /\ response[r].headers_sent => (response[r].chunked <=> "chunked" \in KindsOf(response[r]))
         /\ response[r].headers_sent => Announced(response[r])
         /\ ~response[r].headers_sent => response[r].has_body = "nil"
BY DEF Inv, TypeOK, Usable, Followed, Encoded

\* Response:write's piece, and the last chunk.
LEMMA BodyPiecesOf ==
  ASSUME NEW q, q.chunked <=> "chunked" \in KindsOf(q), NEW p, p.headers = q.headers, NEW e,
         p.has_body # "no"
  PROVE  BodyPieces(q, e) \in Seq(Pieces) /\ BodyOf(p, BodyPieces(q, e))
<1>1. KindsOf(p) = KindsOf(q)
  BY DEF KindsOf
<1>2. "chunk" \in Pieces /\ "raw" \in Pieces
  BY DEF Pieces
<1> QED BY <1>1, <1>2 DEF BodyPieces, BodyOf

\* finish: the pieces of its body, and the last chunk of a chunked one.
LEMMA LastPiecesOf ==
  ASSUME NEW q, q.chunked <=> "chunked" \in KindsOf(q), NEW p, p.headers = q.headers, p.finished,
         p.has_body = q.has_body, q.chunked => q.has_body # "no",
         NEW a \in Seq(Pieces), BodyOf(q, a), \A i \in DOMAIN a : a[i] # "last"
  PROVE  LET b == a \o LastPiece(q)
         IN  /\ b \in Seq(Pieces) /\ BodyOf(p, b)
             /\ "chunked" \in KindsOf(p) => b # <<>> /\ b[Len(b)] = "last"
<1>1. KindsOf(p) = KindsOf(q)
  BY DEF KindsOf
<1>2. "last" \in Pieces
  BY DEF Pieces
<1>3. CASE q.chunked
  <2> DEFINE b == a \o <<"last">>
  <2>1. LastPiece(q) = <<"last">>
    BY <1>3 DEF LastPiece
  <2>2. b \in Seq(Pieces) /\ Len(b) = Len(a) + 1 /\ b[Len(b)] = "last" /\ b # <<>>
    BY <1>2
  <2>3. \A i \in DOMAIN b : i # Len(b) => i \in DOMAIN a /\ b[i] = a[i]
    BY <1>2
  <2> HIDE DEF b
  <2>4. BodyOf(p, b)
    BY <1>1, <1>3, <2>2, <2>3 DEF BodyOf
  <2> QED BY <2>1, <2>2, <2>4 DEF b
<1>4. CASE ~q.chunked
  <2>1. a \o LastPiece(q) = a
    BY <1>4 DEF LastPiece
  <2>2. BodyOf(p, a)
    BY <1>1 DEF BodyOf
  <2> QED BY <1>1, <1>4, <2>1, <2>2
<1> QED BY <1>3, <1>4

\* Response:flushHead and writeHead.
LEMMA WriteHeadInv ==
  ASSUME Inv, NEW r \in Ids, writeHead(r)
  PROVE  Inv'
<1>1. /\ Usable(r) /\ ~response[r].headers_sent /\ Send(r, <<"head">>) /\ KeepConnection
  BY DEF writeHead
<1>2. PICK c \in Configured(response[r]) : Set(r, flushHead(c))
  BY DEF writeHead
<1>3. /\ ~outOfTurn /\ r \in DOMAIN response /\ ~response[r].finished /\ response[r] \in Responses
      /\ \A q \in 1..(r - 1) : response[q].finished
      /\ response[r].has_body = "nil"
  BY <1>1, UsableFacts
<1>4. /\ c \in Responses /\ c.finished = response[r].finished /\ c.has_body = "nil"
      /\ c.request_ended = response[r].request_ended
  BY <1>3, ConfiguredFields
<1> DEFINE p == flushHead(c)
<1>5. p \in Responses /\ p.headers_sent /\ ~p.finished /\ (p.chunked <=> "chunked" \in KindsOf(p))
  BY <1>3, <1>4, FlushFields
<1>10. Announced(p) /\ p.request_ended = response[r].request_ended
  BY <1>4, FlushAnnounces, FlushFields DEF Announced
<1>6. HeadPiece(response[r]) \o <<>> = <<"head">>
  BY <1>1 DEF HeadPiece
<1>7. <<>> \in Seq(Pieces) /\ BodyOf(p, <<>>)
  BY DEF BodyOf
<1>8. UNCHANGED <<parser, executing, reading, sock, closeTick, onError, raised, shutting, shutFor>>
  BY <1>1 DEF KeepConnection, conn
<1>9. Set(r, p) /\ Send(r, HeadPiece(response[r]) \o <<>>)
  BY <1>1, <1>2, <1>6
<1> HIDE DEF p
<1> QED BY <1>1, <1>3, <1>5, <1>7, <1>8, <1>9, <1>10, CallInv

\* Response:write.
LEMMA WriteInv ==
  ASSUME Inv, NEW r \in Ids, NEW e \in BOOLEAN, write(r, e)
  PROVE  Inv'
<1> DEFINE Flushed(c) == IF c.headers_sent THEN c ELSE flushHead([c EXCEPT !.has_body = "yes"])
<1>1. Usable(r) /\ response[r].has_body # "no" /\ response[r].writes < MaxWrites /\ KeepConnection
  BY DEF write
<1>2. PICK c \in Configured(response[r]) :
        /\ Set(r, [Flushed(c) EXCEPT !.writes = @ + 1])
        /\ Send(r, HeadPiece(c) \o BodyPieces(Flushed(c), e))
  BY DEF write
<1>3. /\ ~outOfTurn /\ r \in DOMAIN response /\ ~response[r].finished /\ response[r] \in Responses
      /\ \A q \in 1..(r - 1) : response[q].finished
      /\ response[r].headers_sent => (response[r].chunked <=> "chunked" \in KindsOf(response[r]))
      /\ response[r].headers_sent => Announced(response[r])
  BY <1>1, UsableFacts
<1>4. /\ c \in Responses /\ (response[r].headers_sent => c = response[r])
      /\ c.headers_sent = response[r].headers_sent /\ c.finished = response[r].finished
      /\ c.writes = response[r].writes /\ c.request_ended = response[r].request_ended
  BY <1>3, ConfiguredFields
<1> DEFINE q == Flushed(c)
           p == [q EXCEPT !.writes = q.writes + 1]
<1>5. /\ q \in Responses /\ q.headers_sent /\ ~q.finished /\ q.writes = response[r].writes
      /\ q.chunked <=> "chunked" \in KindsOf(q)
      /\ response[r].headers_sent => q.headers = response[r].headers /\ q.has_body = response[r].has_body
      /\ q.has_body # "no" /\ Announced(q) /\ q.request_ended = response[r].request_ended
  <2>1. CASE c.headers_sent
    BY <1>1, <1>3, <1>4, <2>1
  <2>2. CASE ~c.headers_sent
    <3> DEFINE d == [c EXCEPT !.has_body = "yes"]
    <3>1. /\ d \in Responses /\ d.finished = c.finished /\ d.writes = c.writes /\ d.has_body = "yes"
          /\ d.request_ended = c.request_ended
      BY <1>4 DEF Responses
    <3>2. q = flushHead(d)
      BY <2>2
    <3> HIDE DEF d, q
    <3>3. q.has_body = "yes" /\ Announced(q)
      BY <3>1, <3>2, FlushAnnounces DEF Announced
    <3> QED BY <1>3, <1>4, <2>2, <3>1, <3>2, <3>3, FlushFields
  <2> QED BY <2>1, <2>2
<1> HIDE DEF Flushed, q
<1>6. /\ p \in Responses /\ p.headers_sent /\ ~p.finished /\ p.headers = q.headers /\ p.chunked = q.chunked
      /\ p.has_body = q.has_body /\ p.keep = q.keep /\ p.code = q.code /\ p.bare = q.bare
      /\ p.request_ended = q.request_ended
  <2>1. q.writes + 1 \in 0..MaxWrites
    BY <1>1, <1>3, <1>5, BoundsAssumption DEF Responses
  <2> QED BY <1>5, <2>1 DEF Responses
<1>7. Set(r, p) /\ HeadPiece(c) = HeadPiece(response[r])
  BY <1>2, <1>4, <1>5 DEF q, HeadPiece
<1> HIDE DEF p
<1>8. BodyPieces(q, e) \in Seq(Pieces) /\ BodyOf(p, BodyPieces(q, e))
  BY <1>5, <1>6, BodyPiecesOf
<1>9. (p.chunked <=> "chunked" \in KindsOf(p)) /\ Announced(p)
  BY <1>5, <1>6 DEF KindsOf, Announced
<1>10. UNCHANGED <<parser, executing, reading, sock, closeTick, onError, raised, shutting, shutFor>>
  BY <1>1 DEF KeepConnection, conn
<1>11. Send(r, HeadPiece(response[r]) \o BodyPieces(q, e))
  BY <1>2, <1>7 DEF q
<1> QED BY <1>3, <1>5, <1>6, <1>7, <1>8, <1>9, <1>10, <1>11, CallInv

\* Response:finish.
LEMMA FinishInv ==
  ASSUME Inv, NEW r \in Ids, NEW chunk \in {"nil", "data", "function"}, finish(r, chunk)
  PROVE  Inv'
<1> DEFINE Bare(c) == chunk = "nil" /\ c.has_body = "nil"
           Flushed(x, c) == IF x.headers_sent THEN x ELSE [flushHead(x) EXCEPT !.bare = Bare(c)]
           Data(x) == IF chunk = "data" THEN BodyPieces(x, FALSE) ELSE <<>>
<1>1. /\ Usable(r) /\ (chunk # "nil" => response[r].has_body # "no")
      /\ UNCHANGED <<parser, executing, reading, sock, closeTick, onError, raised>>
  BY DEF finish
<1>2. PICK c \in Configured(response[r]) :
        LET a == AnnounceBody(c, chunk)
        IN  /\ Send(r, HeadPiece(a) \o Data(Flushed(a, c)) \o LastPiece(Flushed(a, c)))
            /\ done(r, Flushed(a, c))
  BY DEF finish
<1>3. /\ ~outOfTurn /\ r \in DOMAIN response /\ ~response[r].finished /\ response[r] \in Responses
      /\ \A q \in 1..(r - 1) : response[q].finished
      /\ response[r].headers_sent => (response[r].chunked <=> "chunked" \in KindsOf(response[r]))
      /\ response[r].headers_sent => Announced(response[r])
      /\ ~response[r].headers_sent => response[r].has_body = "nil"
  BY <1>1, UsableFacts
<1>4. /\ c \in Responses /\ (response[r].headers_sent => c = response[r])
      /\ c.headers_sent = response[r].headers_sent /\ c.finished = response[r].finished
      /\ c.has_body = response[r].has_body /\ c.request_ended = response[r].request_ended
  BY <1>3, ConfiguredFields
<1> DEFINE a == AnnounceBody(c, chunk)
           q == Flushed(a, c)
           p == [q EXCEPT !.finished = TRUE, !.ended = q.keep, !.writes = 0, !.chunked = FALSE]
           b == Data(q) \o LastPiece(q)
<1>5. /\ a \in Responses /\ (response[r].headers_sent => a = response[r])
      /\ a.headers_sent = response[r].headers_sent /\ a.finished = response[r].finished
      /\ a.request_ended = response[r].request_ended
      /\ ~a.headers_sent => a.has_body = IF chunk = "nil" THEN "no" ELSE "yes"
  BY <1>3, <1>4, AnnounceFields
<1>6. Send(r, HeadPiece(a) \o Data(q) \o LastPiece(q)) /\ done(r, q)
  BY <1>2
<1> HIDE DEF a
<1>7. /\ q \in Responses /\ q.headers_sent
      /\ q.chunked <=> "chunked" \in KindsOf(q)
      /\ response[r].headers_sent => q.headers = response[r].headers /\ q.has_body = response[r].has_body
      /\ chunk # "nil" => q.has_body # "no"
      /\ Announced(q) /\ q.request_ended = response[r].request_ended
  <2>1. CASE a.headers_sent
    BY <1>1, <1>3, <1>5, <2>1
  <2>2. CASE ~a.headers_sent
    <3> DEFINE f == flushHead(a)
               e == Bare(c)
    <3>1. q = [f EXCEPT !.bare = e] /\ e \in BOOLEAN /\ (e <=> chunk = "nil")
      BY <1>3, <1>4, <1>5, <2>2, Zenon
    <3>2. /\ f \in Responses /\ f.headers_sent /\ f.request_ended = a.request_ended
          /\ f.chunked <=> "chunked" \in KindsOf(f)
      BY <1>5, FlushFields
    <3>3. /\ f.has_body = "no" => "chunked" \notin KindsOf(f)
          /\ chunk # "nil" /\ f.code = "full" => KindsOf(f) \cap {"length", "chunked"} # {}
          /\ chunk # "nil" => f.has_body = "yes"
      BY <1>5, <2>2, FlushAnnounces
    <3> HIDE DEF q, f, e
    <3>4. /\ q \in Responses /\ q.headers_sent /\ q.request_ended = f.request_ended /\ q.bare = e
          /\ q.chunked = f.chunked /\ q.headers = f.headers /\ q.has_body = f.has_body /\ q.code = f.code
      BY <3>1, <3>2 DEF Responses
    <3>5. KindsOf(q) = KindsOf(f)
      BY <3>4 DEF KindsOf
    <3> QED BY <1>5, <2>2, <3>1, <3>2, <3>3, <3>4, <3>5 DEF Announced
  <2> QED BY <2>1, <2>2
<1> HIDE DEF Flushed, Bare, q
<1>8. /\ p \in Responses /\ p.headers_sent /\ p.finished /\ p.headers = q.headers
      /\ p.has_body = q.has_body /\ p.keep = q.keep /\ p.code = q.code /\ p.bare = q.bare
      /\ p.request_ended = q.request_ended
  <2>1. 0 \in 0..MaxWrites
    BY BoundsAssumption
  <2> QED BY <1>7, <2>1 DEF Responses
<1>9. Set(r, p)
  BY <1>6 DEF done
<1>15. UNCHANGED <<shutting, shutFor>> \/ (shutting' = TRUE /\ shutFor' = r)
  <2>1. /\ shutting' = (shutting \/ (~q.keep /\ sock = "open" /\ shutFor = 0))
        /\ shutFor' = IF ~q.keep /\ sock = "open" /\ shutFor = 0 THEN r ELSE shutFor
    BY <1>6 DEF done
  <2>2. shutting \in BOOLEAN
    BY DEF Inv, TypeOK
  <2> QED BY <2>1, <2>2, Zenon
<1> HIDE DEF p
<1>16. Announced(p)
  BY <1>7, <1>8 DEF Announced, KindsOf
<1>10. Data(q) \in Seq(Pieces) /\ BodyOf(q, Data(q)) /\ \A i \in DOMAIN Data(q) : Data(q)[i] # "last"
  <2>1. CASE chunk = "data"
    <3>1. Data(q) = BodyPieces(q, FALSE)
      BY <2>1
    <3>2. \A i \in DOMAIN BodyPieces(q, FALSE) : BodyPieces(q, FALSE)[i] # "last"
      BY DEF BodyPieces
    <3>3. q.has_body # "no"
      BY <1>7, <2>1
    <3> HIDE DEF Data
    <3> QED BY <1>7, <3>1, <3>2, <3>3, BodyPiecesOf
  <2>2. CASE chunk # "data"
    <3>1. Data(q) = <<>>
      BY <2>2
    <3> HIDE DEF Data
    <3> QED BY <3>1 DEF BodyOf
  <2> QED BY <2>1, <2>2
<1> HIDE DEF Data
<1>17. q.chunked => q.has_body # "no"
  BY <1>7 DEF Announced
<1>11. /\ b \in Seq(Pieces) /\ BodyOf(p, b)
       /\ "chunked" \in KindsOf(p) => b # <<>> /\ b[Len(b)] = "last"
  BY <1>7, <1>8, <1>10, <1>17, LastPiecesOf
<1>12. LastPiece(q) \in Seq(Pieces)
  <2>1. "last" \in Pieces
    BY DEF Pieces
  <2> QED BY <2>1 DEF LastPiece
<1>13. HeadPiece(a) \o Data(q) \o LastPiece(q) = HeadPiece(response[r]) \o b
  <2>1. HeadPiece(a) = HeadPiece(response[r]) /\ HeadPiece(a) \in Seq(Pieces)
    <3>1. <<>> \in Seq(Pieces) /\ <<"head">> \in Seq(Pieces)
      BY DEF Pieces
    <3> QED BY <1>5, <3>1 DEF HeadPiece
  <2> QED BY <1>10, <1>12, <2>1
<1> HIDE DEF b
<1>14. Send(r, HeadPiece(response[r]) \o b)
  BY <1>6, <1>13
<1> QED BY <1>1, <1>3, <1>7, <1>8, <1>9, <1>11, <1>14, <1>15, <1>16, CallInv

\* Response:writeContinue: there was none, and the head was not sent.
LEMMA WriteContinueInv ==
  ASSUME Inv, NEW r \in Ids, writeContinue(r)
  PROVE  Inv'
<1>1. /\ Usable(r) /\ ~response[r].headers_sent /\ Send(r, <<"continue">>) /\ KeepConnection
      /\ wire.of = r => \A i \in DOMAIN wire.pieces : wire.pieces[i] # "continue"
      /\ response' = response
  BY DEF writeContinue
<1>2. /\ ~outOfTurn /\ r \in DOMAIN response /\ ~response[r].finished /\ response[r] \in Responses
      /\ \A q \in 1..(r - 1) : response[q].finished
  BY <1>1, UsableFacts
<1>3. /\ ConnType /\ response \in Seq(Responses) /\ Len(response) <= MaxRequests
      /\ wire \in Wires /\ outOfTurn \in BOOLEAN /\ wire.of \in Nat /\ r \in Nat /\ wire.pieces \in Seq(Pieces)
  BY TypeParts DEF Inv, Wires, Ids
<1>4. UNCHANGED <<parser, executing, reading, sock, closeTick, onError, raised, shutting, shutFor>>
  BY <1>1 DEF KeepConnection, conn
<1>5. ~outOfTurn' /\ outOfTurn' \in BOOLEAN
  BY <1>1, <1>2 DEF Send
<1>6. sock # "destroyed" => wire.of < r
  <2>1. SUFFICES ASSUME sock # "destroyed", wire.of = r PROVE FALSE
    BY <1>2, <1>3 DEF Inv, InTurn
  <2>2. PICK c \in 0..1 : /\ Ordered(response[r], wire.pieces, c)
                          /\ Complete(response[r], wire.pieces, c) /\ wire.pieces # <<>>
    BY <1>2, <1>3, <2>1 DEF Inv, WireOrdered, Ids
  <2>3. 1 \in DOMAIN wire.pieces /\ Len(wire.pieces) >= 1
    BY <1>3, <2>2
  <2>4. ~(1 <= c)
    BY <1>1, <2>1, <2>2, <2>3 DEF Ordered
  <2> QED BY <1>1, <2>2, <2>3, <2>4 DEF Complete
<1>7. wire' = IF sock = "destroyed" THEN wire ELSE [of |-> r, pieces |-> <<"continue">>]
  BY <1>1, <1>3, <1>6 DEF Send
<1>8. wire' \in Wires
  <2>1. "continue" \in Pieces
    BY DEF Pieces
  <2> QED BY <1>3, <1>7, <2>1 DEF Wires
<1>9. WireOrdered' /\ InTurn'
  <2>1. CASE sock = "destroyed"
    BY <1>1, <1>2, <1>4, <1>7, <2>1 DEF Inv, WireOrdered, Complete, InTurn
  <2>2. CASE sock # "destroyed"
    <3>1. wire'.of = r /\ wire'.pieces = <<"continue">> /\ response' = response
      BY <1>1, <1>7, <2>2
    <3>2. Ordered(response[r], <<"continue">>, 1) /\ Len(<<"continue">>) = 1
      BY DEF Ordered
    <3>3. WireOrdered'
      BY <1>1, <1>2, <3>1, <3>2 DEF WireOrdered, Complete
    <3>4. \A q \in DOMAIN response : (q < r => response[q].finished) /\ (q > r => ~response[q].headers_sent)
      BY <1>2, <1>3, <1>6, <2>2 DEF Inv, InTurn
    <3> QED BY <3>1, <3>3, <3>4 DEF InTurn
  <2> QED BY <2>1, <2>2
<1>10. ConnType'
  BY <1>3, <1>4 DEF ConnType
<1>11. TypeOK'
  BY <1>1, <1>3, <1>5, <1>8, <1>10, TypeParts
<1>12. RequestsEnd' /\ ConnSound' /\ ParserSound' /\ Encoded'
  BY <1>1, <1>4 DEF Inv, RequestsEnd, ConnSound, ParserSound, Encoded
<1> QED BY <1>5, <1>9, <1>11, <1>12 DEF Inv

\* The responses are as they were, but for the "end" events of them and of their
\* requests.
Alike ==
  /\ response' \in Seq(Responses) /\ Len(response') = Len(response)
  /\ \A q \in DOMAIN response :
       /\ response'[q].keep = response[q].keep /\ response'[q].code = response[q].code
       /\ response'[q].headers = response[q].headers /\ response'[q].has_body = response[q].has_body
       /\ response'[q].chunked = response[q].chunked /\ response'[q].bare = response[q].bare
       /\ response'[q].headers_sent = response[q].headers_sent
       /\ response'[q].finished = response[q].finished

\* A step that leaves the wire alone, and the responses but for "end" events.
LEMMA ConnStep ==
  ASSUME Inv, Alike, UNCHANGED <<wire, outOfTurn>>, ConnType', RequestsEnd', ConnSound', ParserSound',
         sock = "destroyed" => sock' = "destroyed"
  PROVE  Inv'
<1>1. /\ response \in Seq(Responses) /\ Len(response) <= MaxRequests
      /\ wire \in Wires /\ outOfTurn \in BOOLEAN
  BY TypeParts DEF Inv
<1>2. DOMAIN response' = DOMAIN response
  BY <1>1 DEF Alike
<1>3. TypeOK'
  BY <1>1, TypeParts DEF Alike
<1>4. \A q \in DOMAIN response : KindsOf(response'[q]) = KindsOf(response[q])
  BY DEF Alike, KindsOf
<1>5. Encoded'
  BY <1>2, <1>4 DEF Inv, Encoded, Alike, Announced
<1>6. ~outOfTurn' => WireOrdered' /\ InTurn'
  <2>1. SUFFICES ASSUME ~outOfTurn' PROVE WireOrdered' /\ InTurn'
    OBVIOUS
  <2>2. WireOrdered /\ InTurn
    BY <2>1 DEF Inv
  <2>3. InTurn'
    BY <1>2, <2>2, SMTT(30) DEF InTurn, Alike
  <2>4. CASE wire.of = 0 /\ wire.pieces = <<>>
    BY <2>3, <2>4 DEF WireOrdered
  <2>5. CASE ~(wire.of = 0 /\ wire.pieces = <<>>)
    <3> DEFINE o == wire.of
               s == wire.pieces
    <3>1. PICK c \in 0..1 : /\ o \in DOMAIN response /\ s # <<>>
                            /\ Ordered(response[o], s, c) /\ Complete(response[o], s, c)
      BY <2>2, <2>5, Zenon DEF WireOrdered
    <3>2. /\ wire' = wire /\ o \in DOMAIN response'
          /\ response'[o].finished = response[o].finished
          /\ response'[o].headers_sent = response[o].headers_sent
          /\ response'[o].has_body = response[o].has_body
          /\ KindsOf(response'[o]) = KindsOf(response[o])
      BY <1>2, <1>4, <3>1 DEF Alike
    <3> HIDE DEF o, s
    <3>3. Ordered(response'[o], s, c)
      BY <3>1, <3>2 DEF Ordered
    <3>4. /\ Len(s) > c => response'[o].headers_sent
          /\ sock' # "destroyed" /\ response'[o].headers_sent => Len(s) > c
          /\ sock' # "destroyed" /\ response'[o].finished /\ "chunked" \in KindsOf(response'[o])
               => s[Len(s)] = "last"
      BY <3>1, <3>2 DEF Complete
    <3>5. wire'.of = o /\ wire'.pieces = s
      BY <3>2 DEF o, s
    <3>6. Complete(response[o], s, c)'
      BY <3>4, <3>5 DEF Complete, o, s
    <3>7. Ordered(response[o], s, c)'
      BY <3>3, <3>5 DEF Ordered, o, s
    <3> QED BY <2>3, <3>1, <3>2, <3>5, <3>6, <3>7, Zenon DEF WireOrdered, o, s
  <2> QED BY <2>4, <2>5, Zenon
<1> QED BY <1>3, <1>5, <1>6 DEF Inv

\* Nothing happened to the responses.
LEMMA AlikeSame ==
  ASSUME Inv, response' = response
  PROVE  Alike
<1>1. response \in Seq(Responses)
  BY TypeParts DEF Inv
<1> QED BY <1>1 DEF Alike

\* "end" on response k and on its request.
LEMMA AlikeEnd ==
  ASSUME Inv, NEW k \in DOMAIN response, NEW e \in BOOLEAN, NEW f \in BOOLEAN,
         response' = [response EXCEPT ![k] = [response[k] EXCEPT !.ended = e, !.request_ended = f]]
  PROVE  /\ Alike /\ response'[k].request_ended = f
         /\ \A q \in DOMAIN response : q # k => response'[q] = response[q]
<1> DEFINE p == [response[k] EXCEPT !.ended = e, !.request_ended = f]
<1>1. response \in Seq(Responses) /\ response[k] \in Responses
  BY TypeParts DEF Inv
<1>2. /\ p \in Responses /\ p.keep = response[k].keep /\ p.code = response[k].code
      /\ p.headers = response[k].headers /\ p.has_body = response[k].has_body
      /\ p.chunked = response[k].chunked /\ p.bare = response[k].bare
      /\ p.headers_sent = response[k].headers_sent /\ p.finished = response[k].finished
      /\ p.request_ended = f
  BY <1>1 DEF Responses
<1> HIDE DEF p
<1>3. response' = [response EXCEPT ![k] = p]
  BY DEF p
<1>4. /\ response' \in Seq(Responses) /\ Len(response') = Len(response) /\ response'[k] = p
      /\ \A q \in DOMAIN response : q # k => response'[q] = response[q]
  BY <1>1, <1>2, <1>3
<1> QED BY <1>2, <1>4 DEF Alike

\* "end" on the request at hand.
LEMMA EndRequestAlike ==
  ASSUME Inv, response' = EndRequest(response)
  PROVE  /\ Alike /\ (response' = <<>> <=> response = <<>>)
         /\ \A q \in DOMAIN response : response[q].request_ended => response'[q].request_ended
         /\ response # <<>> => response'[Len(response)].request_ended
<1>1. response \in Seq(Responses)
  BY TypeParts DEF Inv
<1>2. CASE response = <<>>
  <2>1. response' = response
    BY <1>2 DEF EndRequest
  <2> QED BY <1>2, <2>1, AlikeSame
<1>3. CASE response # <<>>
  <2> DEFINE k == Len(response)
             e == response[k].ended
  <2>1. k \in DOMAIN response /\ response[k] \in Responses
    BY <1>1, <1>3
  <2>2. response' = [response EXCEPT ![k].request_ended = TRUE]
    BY <1>3 DEF EndRequest
  <2>3. [response[k] EXCEPT !.request_ended = TRUE] = [response[k] EXCEPT !.ended = e, !.request_ended = TRUE]
    BY <2>1 DEF Responses
  <2>4. e \in BOOLEAN
    BY <2>1 DEF Responses
  <2>5. response' = [response EXCEPT ![k] = [response[k] EXCEPT !.ended = e, !.request_ended = TRUE]]
    BY <2>1, <2>2, <2>3
  <2> HIDE DEF k, e
  <2>6. /\ Alike /\ response'[k].request_ended
        /\ \A q \in DOMAIN response : q # k => response'[q] = response[q]
    BY <2>1, <2>4, <2>5, AlikeEnd
  <2>7. response' # <<>>
    BY <1>1, <1>3, <2>6 DEF Alike
  <2> QED BY <1>3, <2>6, <2>7 DEF k
<1> QED BY <1>2, <1>3

\* Response:destroy, and the calls together.
LEMMA ProgramInv ==
  ASSUME Inv, Program
  PROVE  Inv'
<1>1. ASSUME NEW r \in Ids, destroy(r) PROVE Inv'
  <2>1. /\ sock' = "destroyed" /\ closeTick' = TRUE /\ reading' = FALSE
        /\ UNCHANGED <<parser, executing, response, shutting, shutFor, onError, wire, outOfTurn, raised>>
    BY <1>1 DEF destroy, DestroySocket
  <2>2. ConnType
    BY TypeParts DEF Inv
  <2>3. sock' \in {"open", "destroyed"}
    BY <2>1
  <2>4. ConnType'
    BY <2>1, <2>2, <2>3, Zenon DEF ConnType
  <2>5. RequestsEnd' /\ ConnSound' /\ ParserSound'
    BY <2>1 DEF Inv, RequestsEnd, ConnSound, ParserSound
  <2> QED BY <2>1, <2>4, <2>5, ConnStep, AlikeSame
<1> QED BY <1>1, WriteHeadInv, WriteContinueInv, WriteInv, FinishInv DEF Program

-----------------------------------------------------------------------------
\* The client.

\* The chunks of data, and the messages in them, as far as no request begins.
LEMMA DataInv ==
  ASSUME Inv, \/ data \/ onMessageBegin \/ \E b \in BOOLEAN : executeReturn(b)
  PROVE  Inv'
<1>1. UNCHANGED <<response, conn, wire, outOfTurn, raised>>
  BY DEF data, onMessageBegin, executeReturn
<1>2. \/ executing' = TRUE /\ reading /\ parser' = parser
      \/ executing' = executing /\ parser = "start" /\ parser' = "headers" /\ Len(response) < MaxRequests
      \/ executing' = FALSE /\ (parser' = parser \/ parser' = "dead")
  BY DEF data, onMessageBegin, executeReturn
<1>3. ConnType
  BY TypeParts DEF Inv
<1>4. parser' \in {"start", "headers", "body", "dead", "upgraded"} /\ executing' \in BOOLEAN
  BY <1>2, <1>3 DEF ConnType
<1>5. ConnType'
  BY <1>1, <1>3, <1>4, Zenon DEF ConnType, conn
<1>6. RequestsEnd' /\ ParserSound'
  BY <1>1, <1>2 DEF Inv, RequestsEnd, ParserSound, conn
<1>7. ConnSound'
  BY <1>1, <1>2 DEF Inv, ConnSound, conn
<1> QED BY <1>1, <1>5, <1>6, <1>7, ConnStep, AlikeSame DEF conn

\* onHeadersComplete: the new response is the last, and only a "continue" of it
\* is on the wire.
LEMMA HeadersInv ==
  ASSUME Inv, NEW keep \in BOOLEAN, NEW expect \in BOOLEAN, onHeadersComplete(keep, expect)
  PROVE  Inv'
<1> DEFINE r == Len(response) + 1
           new == NewResponse(keep)
<1>1. /\ ~outOfTurn /\ executing /\ parser = "headers" /\ parser' = "body"
      /\ response' = Append(response, new)
      /\ Send(r, IF expect THEN <<"continue">> ELSE <<>>)
      /\ UNCHANGED <<executing, conn, raised>>
  BY DEF onHeadersComplete, Followed
<1>2. /\ ConnType /\ response \in Seq(Responses) /\ Len(response) <= MaxRequests /\ wire \in Wires
      /\ MaxRequests \in Nat /\ MaxWrites \in Nat
  BY TypeParts, BoundsAssumption DEF Inv
<1>3. /\ new \in Responses /\ ~new.headers_sent /\ ~new.finished /\ new.has_body = "nil"
  <2>1. 0 \in 0..MaxWrites /\ {} \in SUBSET Headers /\ "full" \in Codes
    BY <1>2 DEF Codes
  <2> QED BY <2>1 DEF NewResponse, Responses
<1> HIDE DEF new
<1>4. /\ response' \in Seq(Responses) /\ Len(response') = r /\ r \in Ids /\ Len(response') <= MaxRequests
      /\ response'[r] = new /\ DOMAIN response' = 1..r /\ DOMAIN response = 1..(r - 1)
      /\ \A q \in DOMAIN response : response'[q] = response[q]
  <2>1. Len(response) < MaxRequests
    BY <1>1 DEF Inv, ParserSound
  <2>2. response' \in Seq(Responses) /\ Len(response') = Len(response) + 1
    BY <1>1, <1>2, <1>3
  <2>3. response'[Len(response) + 1] = new /\ \A q \in 1..Len(response) : response'[q] = response[q]
    BY <1>1, <1>2, <1>3
  <2>4. DOMAIN response = 1..Len(response) /\ Len(response) \in Nat
    BY <1>2
  <2>5. DOMAIN response' = 1..Len(response')
    BY <2>2
  <2> QED BY <1>2, <2>1, <2>2, <2>3, <2>4, <2>5 DEF Ids
<1>5. /\ outOfTurn' \in BOOLEAN
      /\ expect /\ ~outOfTurn' => \A q \in 1..(r - 1) : response[q].finished
      /\ wire' = IF sock # "destroyed" /\ expect
                 THEN [of |-> r, pieces |-> (IF wire.of = r THEN wire.pieces ELSE <<>>) \o <<"continue">>]
                 ELSE wire
  BY <1>1 DEF Send
<1>6. WireOrdered /\ InTurn
  BY <1>1 DEF Inv
<1>7. wire.of \in 0..(r - 1)
  <2>1. wire.of = 0 \/ wire.of \in 1..(r - 1)
    BY <1>4, <1>6 DEF WireOrdered
  <2> QED BY <1>4, <2>1 DEF Ids
<1> DEFINE Wired == wire' \in Wires /\ (~outOfTurn' => WireOrdered' /\ InTurn')
<1>8. ASSUME sock # "destroyed", expect PROVE Wired
  <2>1. wire' = [of |-> r, pieces |-> <<"continue">>]
    BY <1>5, <1>7, <1>8
  <2>2. wire' \in Wires
    <3>1. "continue" \in Pieces
      BY DEF Pieces
    <3> QED BY <1>4, <2>1, <3>1 DEF Wires
  <2>3. Ordered(new, <<"continue">>, 1) /\ Len(<<"continue">>) = 1
    BY DEF Ordered
  <2>4. WireOrdered'
    <3>1. wire'.of = r /\ wire'.pieces = <<"continue">> /\ r \in DOMAIN response' /\ response'[r] = new
      BY <1>4, <2>1 DEF Ids
    <3>2. <<"continue">> # <<>>
      OBVIOUS
    <3> HIDE DEF r
    <3> QED BY <1>3, <2>3, <3>1, <3>2 DEF WireOrdered, Complete
  <2>5. ~outOfTurn' => InTurn'
    <3>1. ASSUME ~outOfTurn', NEW q \in 1..r
          PROVE  (q < r => response'[q].finished) /\ ~(q > r)
      BY <1>4, <1>5, <1>8, <3>1, SMTT(30) DEF Ids
    <3> QED BY <1>4, <2>1, <3>1 DEF InTurn
  <2> QED BY <2>2, <2>4, <2>5
<1>9. ASSUME sock = "destroyed" \/ ~expect PROVE Wired
  <2>1. wire' = wire /\ sock' = sock
    BY <1>1, <1>5, <1>9 DEF conn
  <2>2. wire.of \in DOMAIN response => wire.of \in DOMAIN response' /\ response'[wire.of] = response[wire.of]
    BY <1>4 DEF Ids
  <2>3. WireOrdered'
    BY <1>6, <2>1, <2>2 DEF WireOrdered, Complete
  <2>4. InTurn'
    <3>1. ASSUME sock # "destroyed", NEW q \in 1..r
          PROVE  (q < wire.of => response'[q].finished) /\ (q > wire.of => ~response'[q].headers_sent)
      <4>1. CASE q = r
        BY <1>3, <1>4, <1>7, <4>1 DEF Ids
      <4>2. CASE q # r
        <5>1. q \in DOMAIN response /\ response'[q] = response[q]
          BY <1>4, <4>2 DEF Ids
        <5> QED BY <1>6, <3>1, <5>1 DEF InTurn
      <4> QED BY <4>1, <4>2
    <3> QED BY <1>4, <2>1, <3>1 DEF InTurn
  <2> QED BY <1>2, <2>1, <2>3, <2>4
<1>10. Wired
  BY <1>8, <1>9
<1>11. ConnType'
  BY <1>1, <1>2, Zenon DEF ConnType, conn
<1>12. TypeOK'
  BY <1>4, <1>5, <1>10, <1>11, TypeParts
<1>13. ConnSound'
  BY <1>1 DEF Inv, ConnSound, conn
<1>14. RequestsEnd'
  <2>1. ASSUME NEW q \in 1..(r - 1) PROVE response[q].request_ended
    <3>1. q \in DOMAIN response /\ Len(response) \in Nat /\ q \in Int /\ q <= Len(response) /\ q >= 1
      BY <1>2, <1>4, <2>1
    <3>2. response # <<>>
      BY <1>2, <3>1
    <3>3. q < Len(response) \/ q = Len(response)
      BY <3>1
    <3> QED BY <1>1, <3>1, <3>2, <3>3 DEF Inv, RequestsEnd, ParserSound
  <2>2. sock' = "destroyed" => closeTick'
    BY <1>1 DEF Inv, ConnSound, conn
  <2>3. ASSUME NEW q \in 1..r, q < r PROVE response'[q].request_ended
    <3>1. q \in 1..(r - 1)
      BY <1>4, <2>3 DEF Ids
    <3> QED BY <1>4, <2>1, <3>1
  <2> QED BY <1>4, <2>2, <2>3 DEF RequestsEnd
<1>15. ParserSound'
  <2>1. response' # <<>>
    BY <1>1, <1>2, <1>3
  <2>2. shutFor' \in {0} \cup DOMAIN response' /\ (shutting' => shutFor' # 0)
    BY <1>1, <1>4 DEF Inv, ParserSound, conn, Ids
  <2> QED BY <1>1, <2>1, <2>2 DEF ParserSound
<1>16. Encoded'
  <2>1. ASSUME NEW q \in 1..r PROVE response'[q] = new \/ (q \in DOMAIN response /\ response'[q] = response[q])
    BY <1>4 DEF Ids
  <2> QED BY <1>3, <1>4, <2>1 DEF Inv, Encoded
<1> QED BY <1>10, <1>12, <1>13, <1>14, <1>15, <1>16 DEF Inv

\* onMessageComplete.
LEMMA MessageInv ==
  ASSUME Inv, NEW upgrade \in BOOLEAN, onMessageComplete(upgrade)
  PROVE  Inv'
<1>1. /\ response' = EndRequest(response) /\ parser' \in {"upgraded", "start", "dead"}
      /\ executing' = (executing /\ ~upgrade)
      /\ UNCHANGED <<conn, wire, outOfTurn, raised>>
  BY DEF onMessageComplete
<1>2. ConnType /\ response \in Seq(Responses)
  BY TypeParts DEF Inv
<1>3. executing' \in BOOLEAN /\ (executing' => executing)
  BY <1>1, Zenon
<1>4. parser' \in {"start", "headers", "body", "dead", "upgraded"}
  BY <1>1
<1>5. ConnType'
  BY <1>1, <1>2, <1>3, <1>4, Zenon DEF ConnType, conn
<1>6. /\ Alike /\ (response' = <<>> <=> response = <<>>)
      /\ \A q \in DOMAIN response : response[q].request_ended => response'[q].request_ended
      /\ response # <<>> => response'[Len(response)].request_ended
  BY <1>1, EndRequestAlike
<1>7. DOMAIN response' = DOMAIN response /\ Len(response') = Len(response)
  BY <1>2, <1>6 DEF Alike
<1>8. RequestsEnd'
  BY <1>1, <1>6, <1>7 DEF Inv, RequestsEnd, conn
<1>9. ConnSound'
  BY <1>1, <1>3 DEF Inv, ConnSound, conn
<1>10. ParserSound'
  BY <1>1, <1>6, <1>7 DEF Inv, ParserSound, conn
<1> QED BY <1>1, <1>5, <1>6, <1>8, <1>9, <1>10, ConnStep DEF conn

\* The client's "end", "error" and "close", with parser:finish.
LEMMA ClientInv ==
  ASSUME Inv, \/ clientEnd \/ clientClose \/ \E b \in BOOLEAN : clientError(b)
  PROVE  Inv'
<1>1. /\ ~executing /\ UNCHANGED <<executing, shutting, shutFor, wire, outOfTurn>>
      /\ parser' = parser \/ parser' = "dead"
      /\ raised' \in {"none", "end", "error", "close"}
  BY DEF clientEnd, clientClose, clientError, Loop, ParserFinish, FinishRaises
<1>2. ConnType /\ response \in Seq(Responses)
  BY TypeParts DEF Inv
<1> DEFINE Sock ==
      /\ reading' \in BOOLEAN /\ (reading' => reading) /\ onError' \in BOOLEAN /\ closeTick' \in BOOLEAN
      /\ sock' \in {"open", "destroyed"} /\ (sock = "destroyed" => sock' = "destroyed")
      /\ sock' = "destroyed" /\ sock # "destroyed" => closeTick' /\ ~reading'
      /\ closeTick' => sock' = "destroyed"
      /\ closeTick /\ ~closeTick' => response' = EndRequest(response)
      /\ response' = response \/ response' = EndRequest(response)
<1>3. Sock
  <2>1. CASE clientEnd
    <3>1. /\ sock' = "destroyed" /\ reading' = FALSE /\ closeTick' = (closeTick \/ sock # "destroyed")
          /\ onError' = onError /\ response' = EndRequest(response)
      BY <2>1 DEF clientEnd, acceptedEnd, DestroySocket
    <3>2. closeTick' \in BOOLEAN /\ (sock # "destroyed" => closeTick') /\ (closeTick => closeTick')
      BY <3>1, Zenon
    <3> QED BY <1>2, <3>1, <3>2 DEF ConnType
  <2>2. CASE clientClose
    <3>1. closeTick' = FALSE /\ response' = EndRequest(response) /\ UNCHANGED <<reading, sock, onError>>
      BY <2>2 DEF clientClose
    <3> QED BY <1>2, <3>1 DEF ConnType
  <2>3. ASSUME NEW b \in BOOLEAN, clientError(b) PROVE Sock
    <3>1. reading' = (reading /\ ~b) /\ onError' = FALSE /\ UNCHANGED <<sock, closeTick, response>>
      BY <2>3 DEF clientError
    <3>2. reading' \in BOOLEAN /\ (reading' => reading)
      BY <3>1, Zenon
    <3>3. closeTick => sock = "destroyed"
      BY DEF Inv, ConnSound
    <3> QED BY <1>2, <3>1, <3>2, <3>3 DEF ConnType
  <2> QED BY <2>1, <2>2, <2>3
<1>4. parser' \in {"start", "headers", "body", "dead", "upgraded"}
  BY <1>1, <1>2 DEF ConnType
<1>5. ConnType'
  BY <1>1, <1>2, <1>3, <1>4, Zenon DEF ConnType
<1>6. /\ Alike /\ (response' = <<>> <=> response = <<>>)
      /\ \A q \in DOMAIN response : response[q].request_ended => response'[q].request_ended
      /\ closeTick /\ ~closeTick' /\ response # <<>> => response'[Len(response)].request_ended
  <2>1. CASE response' = response
    <3>1. Alike
      BY <2>1, AlikeSame
    <3>2. CASE closeTick /\ ~closeTick'
      BY <1>3, <3>2, EndRequestAlike
    <3> QED BY <2>1, <3>1, <3>2
  <2>2. CASE response' = EndRequest(response)
    BY <2>2, EndRequestAlike
  <2> QED BY <1>3, <2>1, <2>2
<1>7. DOMAIN response' = DOMAIN response /\ Len(response') = Len(response)
  BY <1>2, <1>6 DEF Alike
<1>8. RequestsEnd'
  <2>1. SUFFICES ASSUME NEW q \in DOMAIN response,
                        q < Len(response) \/ (sock' = "destroyed" /\ ~closeTick')
                 PROVE  response'[q].request_ended
    BY <1>7 DEF RequestsEnd
  <2>2. q < Len(response) \/ q = Len(response)
    BY <1>2
  <2>3. CASE q < Len(response) \/ (sock = "destroyed" /\ ~closeTick)
    BY <1>6, <2>3 DEF Inv, RequestsEnd
  <2>4. CASE q = Len(response) /\ closeTick
    BY <1>2, <1>6, <2>1, <2>4
  <2> QED BY <1>2, <1>3, <2>1, <2>2, <2>3, <2>4
<1>9. ConnSound'
  BY <1>1, <1>3 DEF Inv, ConnSound
<1>10. ParserSound'
  <2>1. response # <<>> => Len(response) \in DOMAIN response
    BY <1>2
  <2> QED BY <1>1, <1>6, <1>7, <2>1 DEF Inv, ParserSound
<1> QED BY <1>1, <1>3, <1>5, <1>6, <1>8, <1>9, <1>10, ConnStep

\* The shutdown is complete, or was cancelled.
LEMMA ShutdownInv ==
  ASSUME Inv, shutdownDone
  PROVE  Inv'
<1> DEFINE k == shutFor
           f == response[k].request_ended
<1>1. /\ shutting /\ ~executing /\ shutting' = FALSE /\ sock' = "destroyed" /\ reading' = FALSE
      /\ closeTick' = (closeTick \/ sock # "destroyed")
      /\ response' = [response EXCEPT ![k].ended = TRUE]
      /\ UNCHANGED <<parser, executing, shutFor, onError, wire, outOfTurn, raised>>
  BY DEF shutdownDone, DestroySocket, Loop
<1>2. ConnType /\ response \in Seq(Responses)
  BY TypeParts DEF Inv
<1>3. k \in DOMAIN response /\ response[k] \in Responses
  BY <1>1, <1>2 DEF Inv, ParserSound
<1>4. closeTick' \in BOOLEAN /\ (closeTick => closeTick') /\ (sock # "destroyed" => closeTick')
  BY <1>1, Zenon
<1>5. ConnType'
  <2>1. sock' \in {"open", "destroyed"}
    BY <1>1
  <2> QED BY <1>1, <1>2, <1>4, <2>1, Zenon DEF ConnType
<1>6. [response[k] EXCEPT !.ended = TRUE] = [response[k] EXCEPT !.ended = TRUE, !.request_ended = f]
  BY <1>3 DEF Responses
<1>7. f \in BOOLEAN
  BY <1>3 DEF Responses
<1>8. response' = [response EXCEPT ![k] = [response[k] EXCEPT !.ended = TRUE, !.request_ended = f]]
  BY <1>1, <1>3, <1>6
<1> HIDE DEF k
<1>9. /\ Alike /\ response'[k].request_ended = f
      /\ \A q \in DOMAIN response : q # k => response'[q] = response[q]
  <2> HIDE DEF f
  <2> QED BY <1>3, <1>7, <1>8, AlikeEnd DEF f
<1>10. /\ DOMAIN response' = DOMAIN response /\ Len(response') = Len(response)
       /\ response' # <<>> /\ response # <<>>
  BY <1>2, <1>3, <1>9 DEF Alike
<1>11. \A q \in DOMAIN response : response'[q].request_ended = response[q].request_ended
  BY <1>9
<1>12. RequestsEnd'
  BY <1>1, <1>4, <1>10, <1>11 DEF Inv, RequestsEnd
<1>13. ConnSound'
  BY <1>1, <1>4 DEF Inv, ConnSound
<1>14. ParserSound'
  <2>1. Len(response) \in DOMAIN response
    BY <1>2, <1>10
  <2> QED BY <1>1, <1>10, <1>11, <2>1 DEF Inv, ParserSound
<1> QED BY <1>1, <1>5, <1>9, <1>12, <1>13, <1>14, ConnStep

-----------------------------------------------------------------------------
\* The invariant holds at first.
LEMMA InitInv == Init => Inv
<1> SUFFICES ASSUME Init PROVE Inv
  OBVIOUS
<1> USE DEF Init
<1>1. /\ wire \in Wires /\ wire.of = 0 /\ wire.pieces = <<>>
  BY DEF Wires
<1>2. response \in Seq(Responses) /\ Len(response) = 0 /\ DOMAIN response = {}
  OBVIOUS
<1>3. MaxRequests \in Nat \ {0}
  BY BoundsAssumption
<1>4. TypeOK
  <2>1. Len(response) <= MaxRequests
    BY <1>2, <1>3
  <2> QED BY <1>1, <1>2, <2>1, Zenon DEF TypeOK, Wires
<1>5. RequestsEnd /\ ConnSound /\ ParserSound
  BY <1>2, <1>3 DEF RequestsEnd, ConnSound, ParserSound
<1>6. Encoded /\ WireOrdered /\ InTurn
  BY <1>1, <1>2 DEF Encoded, WireOrdered, InTurn
<1> QED BY <1>4, <1>5, <1>6 DEF Inv

\* The invariant holds after every step.
LEMMA NextInv == Inv /\ [Next]_vars => Inv'
<1> SUFFICES ASSUME Inv, [Next]_vars PROVE Inv'
  OBVIOUS
<1>1. CASE Program
  BY <1>1, ProgramInv
<1>2. CASE Client
  BY <1>2, DataInv, HeadersInv, MessageInv, ClientInv, ShutdownInv DEF Client
<1>3. CASE UNCHANGED vars
  <2>1. /\ UNCHANGED <<response, wire, outOfTurn, sock, parser, executing, raised>>
        /\ UNCHANGED <<reading, shutting, shutFor, closeTick, onError>>
    BY <1>3 DEF vars, conn
  <2>2. ConnType
    BY TypeParts DEF Inv
  <2>3. ConnType'
    BY <2>1, <2>2 DEF ConnType
  <2>4. RequestsEnd' /\ ConnSound' /\ ParserSound'
    BY <2>1 DEF Inv, RequestsEnd, ConnSound, ParserSound
  <2> QED BY <2>1, <2>3, <2>4, ConnStep, AlikeSame
<1> QED BY <1>1, <1>2, <1>3 DEF Next

\* Every reachable state satisfies the invariant.
THEOREM Invariance == Spec => []Inv
<1> QED BY InitInv, NextInv, PTL DEF Spec

\* RequestsSound: every request that onHeadersComplete built has emitted "end" when
\* the next one is handed over, and when the socket's "close" is through, whatever
\* messages, errors, ends and destroys the connection saw.
THEOREM Requests == Spec => []RequestsSound
<1>1. Inv => RequestsSound
  BY DEF Inv, RequestsSound
<1> QED BY <1>1, Invariance, PTL

\* How often a piece occurs.
Count(s, a) == Cardinality({i \in DOMAIN s : s[i] = a})

\* None, or the one at position k.
LEMMA Counted ==
  ASSUME NEW s, NEW a
  PROVE  /\ (\A i \in DOMAIN s : s[i] # a) => Count(s, a) = 0
         /\ \A k \in DOMAIN s : (\A i \in DOMAIN s : s[i] = a <=> i = k) => Count(s, a) = 1
<1>1. ASSUME \A i \in DOMAIN s : s[i] # a PROVE Count(s, a) = 0
  <2>1. {i \in DOMAIN s : s[i] = a} = {}
    BY <1>1
  <2> QED BY <2>1, FS_EmptySet DEF Count
<1>2. ASSUME NEW k \in DOMAIN s, \A i \in DOMAIN s : s[i] = a <=> i = k PROVE Count(s, a) = 1
  <2>1. {i \in DOMAIN s : s[i] = a} = {k}
    BY <1>2
  <2> QED BY <2>1, FS_Singleton DEF Count
<1> QED BY <1>1, <1>2

\* The order of the pieces is the one a client can parse.
LEMMA OrderedFramed ==
  ASSUME NEW r \in DOMAIN response, NEW s \in Seq(Pieces), s # <<>>, NEW c \in 0..1,
         Ordered(response[r], s, c), Complete(response[r], s, c),
         response[r].finished => response[r].headers_sent,
         response[r].headers_sent => Announced(response[r])
  PROVE  Framed(r, s)
<1> DEFINE p == response[r]
<1>1. /\ Len(s) \in Nat /\ DOMAIN s = 1..Len(s) /\ Len(s) > 0 /\ c \in {0, 1}
  OBVIOUS
<1>2. \A i \in DOMAIN s :
        /\ s[i] = "continue" <=> i <= c
        /\ s[i] = "head" <=> i = c + 1
        /\ s[i] = "last" => i = Len(s) /\ p.finished
        /\ s[i] = "raw" => "chunked" \notin KindsOf(p)
        /\ s[i] \in {"chunk", "last"} => "chunked" \in KindsOf(p)
        /\ s[i] \in {"chunk", "raw", "last"} => p.has_body # "no"
  BY DEF Ordered
<1>3. /\ \A i, j \in DOMAIN s : s[i] \in {"continue"} /\ s[j] \in {"head"} => i < j
      /\ \A i, j \in DOMAIN s : s[i] \in {"head"} /\ s[j] \in {"chunk", "raw", "last"} => i < j
      /\ \A i, j \in DOMAIN s : s[i] \in {"chunk", "raw"} /\ s[j] \in {"last"} => i < j
  <2>1. ASSUME NEW i \in DOMAIN s, NEW j \in DOMAIN s
        PROVE  /\ s[i] = "continue" /\ s[j] = "head" => i < j
               /\ s[i] = "head" /\ s[j] \in {"chunk", "raw", "last"} => i < j
               /\ s[i] \in {"chunk", "raw"} /\ s[j] = "last" => i < j
    <3>1. i \in Int /\ j \in Int /\ i <= Len(s) /\ j <= Len(s)
      BY <1>1
    <3>2. s[j] \in {"chunk", "raw", "last"} => ~(j <= c) /\ j # c + 1
      BY <1>2
    <3>3. s[i] = "continue" => i <= c
      BY <1>2
    <3>4. s[i] = "head" => i = c + 1
      BY <1>2
    <3>5. s[j] = "head" => j = c + 1
      BY <1>2
    <3>6. s[j] = "last" => j = Len(s)
      BY <1>2
    <3>7. s[i] \in {"chunk", "raw"} /\ s[j] = "last" => i # j
      OBVIOUS
    <3> QED BY <1>1, <3>1, <3>2, <3>3, <3>4, <3>5, <3>6, <3>7
  <2> QED BY <2>1
<1>4. Len(s) > c => c + 1 \in DOMAIN s /\ Count(s, "head") = 1
  <2>1. ASSUME Len(s) > c PROVE c + 1 \in DOMAIN s /\ Count(s, "head") = 1
    <3>1. c + 1 \in DOMAIN s
      BY <1>1, <2>1
    <3> QED BY <1>2, <3>1, Counted
  <2> QED BY <2>1
<1>5. ~(Len(s) > c) => Count(s, "head") = 0 /\ s[Len(s)] = "continue"
  <2>1. ASSUME ~(Len(s) > c) PROVE Count(s, "head") = 0 /\ s[Len(s)] = "continue"
    <3>1. \A i \in DOMAIN s : i # c + 1
      BY <1>1, <2>1
    <3>2. Len(s) \in DOMAIN s /\ Len(s) <= c
      BY <1>1, <2>1
    <3> QED BY <1>2, <3>1, <3>2, Counted
  <2> QED BY <2>1
<1>6. s[Len(s)] = "last" => Count(s, "last") = 1
  <2>1. Len(s) \in DOMAIN s
    BY <1>1
  <2> QED BY <1>2, <2>1, Counted
<1>7. s[Len(s)] # "last" => Count(s, "last") = 0
  BY <1>2, Counted
<1>8. "chunked" \in KindsOf(p) => Count(s, "raw") = 0
  BY <1>2, Counted
<1>9. "chunked" \notin KindsOf(p) => Count(s, "chunk") = 0 /\ Count(s, "last") = 0
  BY <1>2, Counted
<1>10. p.finished /\ sock # "destroyed" =>
         Count(s, "head") = 1 /\ ("chunked" \in KindsOf(p) => Count(s, "last") = 1)
  BY <1>4, <1>6 DEF Complete
<1>11. Last(s) = s[Len(s)]
  BY DEF Last
<1>12. Count(s, "head") <= 1 /\ Count(s, "last") <= 1
  BY <1>4, <1>5, <1>6, <1>7
<1>13. s[Len(s)] # "continue" => Count(s, "head") = 1
  BY <1>4, <1>5
<1>14. p.has_body = "no" => s[Len(s)] \in {"continue", "head"}
  <2>1. Len(s) \in DOMAIN s /\ s[Len(s)] \in Pieces
    BY <1>1
  <2> QED BY <1>2, <2>1 DEF Pieces
<1>15. p.headers_sent /\ p.keep /\ p.code = "full" /\ ~p.bare => KindsOf(p) \cap {"length", "chunked"} # {}
  BY DEF Announced
<1> HIDE DEF p
<1> QED BY <1>3, <1>8, <1>9, <1>10, <1>11, <1>12, <1>13, <1>14, <1>15 DEF Framed, Count, p

\* WellFramed: whatever mixture of setHeader, writeHead, writeContinue, write and
\* finish produced it, on a socket that is open or destroyed, what
\* is on the wire of a response is framed as its head announced.
THEOREM Framing == Spec => []WellFramed
<1>1. Inv => WellFramed
  <2>1. SUFFICES ASSUME Inv, wire.pieces # <<>>, ~outOfTurn PROVE Framed(wire.of, wire.pieces)
    BY DEF WellFramed
  <2>2. wire.pieces \in Seq(Pieces)
    BY <2>1 DEF Inv, TypeOK
  <2>3. wire.of \in DOMAIN response
    BY <2>1 DEF Inv, WireOrdered
  <2>4. PICK c \in 0..1 : /\ Ordered(response[wire.of], wire.pieces, c)
                          /\ Complete(response[wire.of], wire.pieces, c)
    BY <2>1 DEF Inv, WireOrdered
  <2>5. /\ response[wire.of].finished => response[wire.of].headers_sent
        /\ response[wire.of].headers_sent => Announced(response[wire.of])
    BY <2>1, <2>3 DEF Inv, Encoded
  <2> QED BY <2>1, <2>2, <2>3, <2>4, <2>5, OrderedFramed
<1> QED BY <1>1, Invariance, PTL
=============================================================================
