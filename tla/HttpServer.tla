------------------------------ MODULE HttpServer ------------------------------
(***************************************************************************)
(* One client connection of http.createServer (src/lib/luvit/http.lua,     *)
(* Response and onClient; src/src/lhttp_parser.c): the parser's callbacks  *)
(* for the requests that arrive, the Response object each of them gets,    *)
(* and the socket all of them share.                                       *)
(*                                                                         *)
(* parser:execute runs the callbacks of one chunk without returning to the *)
(* loop (`executing'), and the program may use any response from inside    *)
(* them.  A response is followed until its finish: the program is taken to *)
(* call nothing on it afterwards, and to listen for "error" on its request *)
(* and response (emitting it would raise an error otherwise).  Headers are *)
(* reduced to the kinds that decide the framing, the wire to the pieces    *)
(* that are written on it.                                                 *)
(***************************************************************************)
EXTENDS Integers, Sequences, FiniteSets, SequencesExt

CONSTANTS
  MaxRequests, \* bound: requests on the connection
  MaxWrites,   \* bound: calls of write for one response
  MaxHeaders   \* bound: headers the program chooses for one response

ASSUME BoundsAssumption ==
  MaxRequests \in Nat \ {0} /\ MaxWrites \in Nat /\ MaxHeaders \in Nat

Codes   == {"full", "empty"}                \* such as 200; 1xx, 204 or 304
Kinds   == {"length", "chunked", "type"}    \* Content-Length, Transfer-Encoding, Content-Type
Headers == {"named", "added"} \X Kinds      \* by setHeader, by addHeader

\* A Response: the fields of the object, keep for should_keep_alive, and as
\* history the calls of write, whether finish was called (`bare': it sent the head
\* and had no body to give), and the "end" events of the response and its request.
Responses ==
  [keep : BOOLEAN, code : Codes, headers : SUBSET Headers, has_body : {"nil", "yes", "no"},
   chunked : BOOLEAN, headers_sent : BOOLEAN, writes : 0..MaxWrites,
   finished : BOOLEAN, bare : BOOLEAN, ended : BOOLEAN, request_ended : BOOLEAN]

VARIABLES
  parser,      \* "start" of a message, "headers", "body", "dead" (takes no more), "upgraded"
  executing,   \* parser:execute is running
  response,    \* the responses, in the order of their requests
  reading,     \* uv: the client may send
  sock,        \* the net.Socket: "open" or "destroyed"
  shutting,    \* uv: a shutdown is queued, or cancelled and not yet called back
  shutFor,     \* the response whose done asked for the shutdown, or 0
  closeTick,   \* the socket's "close" event is queued
  onError,     \* the listener client:once("error") is still there
  wire,        \* what was written for the latest response: which one, and the pieces
  outOfTurn,   \* history: a "continue" was sent while an earlier response was unfinished
  raised       \* "none", or the client event in which parser:finish raised an error

conn == <<reading, sock, shutting, shutFor, closeTick, onError>>
vars == <<parser, executing, response, conn, wire, outOfTurn, raised>>

Ids == 1..MaxRequests
Pieces == {"continue", "head", "chunk", "raw", "last"}

TypeOK ==
  /\ parser \in {"start", "headers", "body", "dead", "upgraded"}
  /\ executing \in BOOLEAN
  /\ response \in Seq(Responses) /\ Len(response) <= MaxRequests
  /\ reading \in BOOLEAN /\ closeTick \in BOOLEAN /\ onError \in BOOLEAN
  /\ sock \in {"open", "destroyed"} /\ shutting \in BOOLEAN
  /\ shutFor \in {0} \cup Ids
  /\ wire \in [of : {0} \cup Ids, pieces : Seq(Pieces)]
  /\ outOfTurn \in BOOLEAN
  /\ raised \in {"none", "end", "error", "close"}

Init ==
  /\ parser = "start" /\ executing = FALSE
  /\ response = <<>>
  /\ reading = TRUE /\ sock = "open" /\ shutting = FALSE /\ shutFor = 0
  /\ closeTick = FALSE /\ onError = TRUE
  /\ wire = [of |-> 0, pieces |-> <<>>] /\ outOfTurn = FALSE
  /\ raised = "none"

-----------------------------------------------------------------------------
\* The connection is followed until an error is raised, or until an automatic
\* "continue" falls into an earlier response.
Followed == raised = "none" /\ ~outOfTurn

\* self.socket:write for each of the pieces; a destroyed socket ignores it.  The
\* pieces of an earlier response are forgotten.
Send(r, pieces) ==
  /\ outOfTurn' = (outOfTurn \/ (pieces # <<>> /\ \E q \in 1..(r - 1) : ~response[q].finished))
  /\ wire' = IF sock = "destroyed" \/ pieces = <<>> THEN wire
             ELSE [of |-> r, pieces |-> (IF wire.of = r THEN wire.pieces ELSE <<>>) \o pieces]

\* Response:initialize, and the part of onHeadersComplete that sets it up.
NewResponse(keep) ==
  [keep |-> keep, code |-> "full", headers |-> {}, has_body |-> "nil", chunked |-> FALSE,
   headers_sent |-> FALSE, writes |-> 0, finished |-> FALSE, bare |-> FALSE,
   ended |-> FALSE, request_ended |-> FALSE]

KindsOf(p) == {h[2] : h \in p.headers}

\* What the head guesses about the body.
Guess(p) ==
  IF p.has_body # "nil" THEN p.has_body ELSE IF p.code = "empty" THEN "no" ELSE "yes"

\* The automatic Transfer-Encoding, which goes by the guess and the headers.
AutoChunked(p) == Guess(p) = "yes" /\ "length" \notin KindsOf(p)

\* The headers of the head that was sent, as far as the framing depends on them.
SentHeaders(p) ==
  {"named"} \X ((KindsOf(p) \ {"type"}) \cup (IF AutoChunked(p) THEN {"chunked"} ELSE {}))

\* Mutant: the automatic encoding is announced and not switched on.
flushHead_announced(p) ==
  [p EXCEPT !.headers_sent = TRUE,
            !.has_body = IF KindsOf(p) # {} THEN "yes" ELSE Guess(p),
            !.chunked = "chunked" \in KindsOf(p),
            !.headers = SentHeaders(p)]

\* Response:flushHead with a valid code: three kinds of headers say that there
\* is a body, whatever the guess was.
flushHead(p) ==
  [p EXCEPT !.headers_sent = TRUE,
            !.has_body = IF KindsOf(p) # {} THEN "yes" ELSE Guess(p),
            !.chunked = "chunked" \in KindsOf(p) \/ AutoChunked(p),
            !.headers = SentHeaders(p)]

\* The head, if it is still to be sent.
HeadPiece(p) == IF p.headers_sent THEN <<>> ELSE <<"head">>

-----------------------------------------------------------------------------
\* Calls of the program on response r.

\* Response:write knows nothing of the other responses on the socket: a program
\* that answers pipelined requests has to take them in turn, as this one does.
Usable(r) ==
  /\ Followed /\ r \in DOMAIN response /\ ~response[r].finished
  /\ \A q \in 1..(r - 1) : response[q].finished

Set(r, p) == response' = [response EXCEPT ![r] = p]

KeepConnection == UNCHANGED <<parser, executing, conn, raised>>

\* The calls of setCode, setHeader, addHeader and unsetHeader.  They are errors
\* once the head is sent, and until then nothing depends on their results, so
\* they are taken together with the call that sends the head: the response may
\* by then have any code and headers.
Configured(p) ==
  IF p.headers_sent THEN {p}
  ELSE {[p EXCEPT !.code = x[1], !.headers = x[2]] :
          x \in Codes \X {h \in SUBSET Headers : Cardinality(h) <= MaxHeaders}}

\* Response:flushHead called by the program, and writeHead(code, headers).
writeHead(r) ==
  /\ Usable(r) /\ ~response[r].headers_sent
  /\ \E p \in Configured(response[r]) : Set(r, flushHead(p))
  /\ Send(r, <<"head">>)
  /\ KeepConnection

\* Response:writeContinue, for a program that listens for "check_continue".
writeContinue(r) ==
  /\ Usable(r) /\ ~response[r].headers_sent
  /\ wire.of = r => \A i \in DOMAIN wire.pieces : wire.pieces[i] # "continue"
  /\ Send(r, <<"continue">>)
  /\ KeepConnection /\ UNCHANGED response

\* What Response:write puts on the wire for a chunk, which may be empty.
BodyPieces(p, empty) ==
  IF empty THEN <<>> ELSE IF p.chunked THEN <<"chunk">> ELSE <<"raw">>

\* Response:write: an error where has_body is false.
write(r, empty) ==
  /\ Usable(r) /\ response[r].has_body # "no" /\ response[r].writes < MaxWrites
  /\ \E p \in Configured(response[r]) :
       LET q == IF p.headers_sent THEN p ELSE flushHead([p EXCEPT !.has_body = "yes"])
       IN  /\ Set(r, [q EXCEPT !.writes = @ + 1])
           /\ Send(r, HeadPiece(p) \o BodyPieces(q, empty))
  /\ KeepConnection

\* The part of finish before the head is sent: a body given here is announced
\* by its length, unless the connection is kept or the program chose headers.
AnnounceBody(p, chunk) ==
  IF p.headers_sent \/ p.has_body # "nil" THEN p
  ELSE IF chunk = "nil" THEN [p EXCEPT !.has_body = "no"]
  ELSE [p EXCEPT !.has_body = "yes",
                 !.headers = IF p.keep \/ \E h \in @ : h[1] = "added" \/ h \in {"named"} \X {"length", "chunked"}
                             THEN @ ELSE @ \cup {<<"named", "length">>}]

LastPiece(p) == IF p.chunked THEN <<"last">> ELSE <<>>

\* Mutant: a response that closes the connection only emits "end".
done_kept(r, p) ==
  /\ Set(r, [p EXCEPT !.finished = TRUE, !.ended = TRUE])
  /\ UNCHANGED <<shutting, shutFor>>

\* Response:done, after which the response is not used.  A destroyed socket
\* ignores the shutdown, and one for which it was asked before refuses it: then the
\* callback that emits "end" is lost.
done(r, p) ==
  LET asks == ~p.keep /\ sock = "open" /\ shutFor = 0 IN
  /\ Set(r, [p EXCEPT !.finished = TRUE, !.ended = p.keep, !.writes = 0, !.chunked = FALSE])
  /\ shutting' = (shutting \/ asks)
  /\ shutFor' = IF asks THEN r ELSE shutFor

\* Response:finish(chunk), where chunk may be nil, data or a callback (which is
\* taken for a body until the head is out; asking for its length is an error).
finish(r, chunk) ==
  /\ Usable(r)
  /\ chunk # "nil" => response[r].has_body # "no"
  /\ \E c \in Configured(response[r]) :
       LET p == AnnounceBody(c, chunk)
           q == IF p.headers_sent THEN p
                ELSE [flushHead(p) EXCEPT !.bare = chunk = "nil" /\ c.has_body = "nil"]
       IN  /\ chunk = "function" => p.headers = c.headers
           /\ Send(r, HeadPiece(p) \o (IF chunk = "data" THEN BodyPieces(q, FALSE) ELSE <<>>)
                        \o LastPiece(q))
           /\ done(r, q)
  /\ UNCHANGED <<parser, executing, reading, sock, closeTick, onError, raised>>

\* Socket:destroy, which a destroyed socket ignores.
DestroySocket ==
  /\ sock' = "destroyed" /\ reading' = FALSE
  /\ closeTick' = (closeTick \/ sock # "destroyed")

\* Response:destroy.
destroy(r) ==
  /\ Usable(r) /\ sock # "destroyed"
  /\ DestroySocket
  /\ UNCHANGED <<parser, executing, response, shutting, shutFor, onError, wire, outOfTurn, raised>>

-----------------------------------------------------------------------------
\* The client's data, through the parser.

Loop == Followed /\ ~executing

\* The socket's "data" event: parser:execute begins.  After an upgrade the data
\* is handed to the request instead.
data ==
  /\ Loop /\ reading /\ parser # "upgraded"
  /\ executing' = TRUE
  /\ UNCHANGED <<parser, response, conn, wire, outOfTurn, raised>>

\* onMessageBegin: the headers are emptied, and the parser is inside a message.
onMessageBegin ==
  /\ Followed /\ executing
  /\ parser = "start" /\ Len(response) < MaxRequests
  /\ parser' = "headers"
  /\ UNCHANGED <<executing, response, conn, wire, outOfTurn, raised>>

\* "end" on the request at hand, which is the latest one.
EndRequest(rs) == IF rs = <<>> THEN rs ELSE [rs EXCEPT ![Len(rs)].request_ended = TRUE]

\* onHeadersComplete: a new request and response.  To a request that expects it
\* and a program that does not listen for "check_continue", 100 is sent here.
onHeadersComplete(keep, expect) ==
  LET r == Len(response) + 1 IN
  /\ Followed /\ executing /\ parser = "headers"
  /\ parser' = "body"
  /\ response' = Append(response, NewResponse(keep))
  /\ Send(r, IF expect THEN <<"continue">> ELSE <<>>)
  /\ UNCHANGED <<executing, conn, raised>>

\* onMessageComplete: "end" on the request, and its listeners are removed.  The
\* parser is ready for the next message; after one that does not keep the
\* connection that depends on how it was built.
onMessageComplete(upgrade) ==
  /\ Followed /\ executing /\ parser = "body"
  /\ response' = EndRequest(response)
  /\ parser' \in IF upgrade THEN {"upgraded"}
                 ELSE IF Last(response).keep THEN {"start"} ELSE {"start", "dead"}
  /\ executing' = (executing /\ ~upgrade)
  /\ UNCHANGED <<conn, wire, outOfTurn, raised>>

\* execute returns: everything was parsed, or the rest was not (then "error" is
\* emitted on the request, and the parser accepts no more).
executeReturn(parsed) ==
  /\ Followed /\ executing
  /\ executing' = FALSE
  /\ parser' = IF parsed THEN parser ELSE "dead"
  /\ UNCHANGED <<response, conn, wire, outOfTurn, raised>>

-----------------------------------------------------------------------------
\* What the other listeners on the client do.

\* parser:finish raises an error in the middle of a message.
FinishRaises == parser \in {"headers", "body"}

\* parser:finish, called for `event'.
ParserFinish(event) ==
  /\ parser' = IF FinishRaises THEN "dead" ELSE parser
  /\ raised' = IF FinishRaises THEN event ELSE "none"

\* The listener for "end" that Server:listen puts on the socket it accepted.
acceptedEnd == DestroySocket

\* client "end": the listener of Server:listen comes first, then that of onClient.
\* Socket:done, which follows, finds a destroyed socket.
clientEnd ==
  /\ Loop /\ reading
  /\ acceptedEnd
  /\ response' = EndRequest(response)
  /\ ParserFinish("end")
  /\ UNCHANGED <<executing, shutting, shutFor, onError, wire, outOfTurn>>

\* client "error": a read that failed, or a write, which may be one that destroy
\* cancelled.  Nothing destroys the socket.
clientError(read) ==
  /\ Loop /\ onError
  /\ IF read THEN reading ELSE wire.of # 0
  /\ reading' = (reading /\ ~read)
  /\ onError' = FALSE
  /\ ParserFinish("error")
  /\ UNCHANGED <<executing, response, sock, shutting, shutFor, closeTick, wire, outOfTurn>>

\* The callback of Response:done, when the shutdown is complete or was cancelled
\* because the socket was destroyed: "end" on the response, and destroy.
shutdownDone ==
  /\ Loop /\ shutting
  /\ shutting' = FALSE
  /\ DestroySocket
  /\ response' = [response EXCEPT ![shutFor].ended = TRUE]
  /\ UNCHANGED <<parser, executing, shutFor, onError, wire, outOfTurn, raised>>

\* Mutant: the request is left without "end".
clientClose_silent ==
  /\ Loop /\ closeTick
  /\ closeTick' = FALSE
  /\ ParserFinish("close")
  /\ UNCHANGED <<executing, response, reading, sock, shutting, shutFor, onError, wire, outOfTurn>>

\* client "close".
clientClose ==
  /\ Loop /\ closeTick
  /\ closeTick' = FALSE
  /\ response' = EndRequest(response)
  /\ ParserFinish("close")
  /\ UNCHANGED <<executing, reading, sock, shutting, shutFor, onError, wire, outOfTurn>>

-----------------------------------------------------------------------------
Program ==
  \E r \in Ids :
    \/ writeHead(r) \/ writeContinue(r) \/ destroy(r)
    \/ \E e \in BOOLEAN : write(r, e)
    \/ \E c \in {"nil", "data", "function"} : finish(r, c)

Client ==
  \/ data \/ onMessageBegin
  \/ \E k, e \in BOOLEAN : onHeadersComplete(k, e)
  \/ \E b \in BOOLEAN : onMessageComplete(b) \/ executeReturn(b) \/ clientError(b)
  \/ clientEnd \/ shutdownDone \/ clientClose

Next == Program \/ Client

Spec == Init /\ [][Next]_vars

\* parser:execute returns, libuv completes the shutdown, ticks run.  Strong
\* fairness, because data that keeps coming disables both again and again, and
\* each round of the loop still gets to them.
Fairness ==
  WF_vars(\E b \in BOOLEAN : executeReturn(b)) /\ SF_vars(shutdownDone) /\ SF_vars(clientClose)

FairSpec == Spec /\ Fairness

-----------------------------------------------------------------------------
\* The pieces of a response in the only order a client can parse: "continue",
\* then the head, then what the head announced, and after the last chunk
\* nothing.  What was finished on a socket that still takes data is complete.  A
\* head that allows no body has none, and one that leaves the connection open says
\* where its body ends, unless finish sent it without a body.
Framed(r, pieces) ==
  LET p == response[r]
      before(a, b) == \A i, j \in DOMAIN pieces : pieces[i] \in a /\ pieces[j] \in b => i < j
      count(a) == Cardinality({i \in DOMAIN pieces : pieces[i] = a})
  IN  /\ before({"continue"}, {"head"}) /\ before({"head"}, {"chunk", "raw", "last"})
      /\ before({"chunk", "raw"}, {"last"})
      /\ count("head") <= 1 /\ count("last") <= 1
      /\ Last(pieces) # "continue" => count("head") = 1
      /\ "chunked" \in KindsOf(p) /\ p.headers_sent => count("raw") = 0
      /\ "chunked" \notin KindsOf(p) => count("chunk") = 0 /\ count("last") = 0
      /\ p.finished /\ sock # "destroyed" =>
           count("head") = 1 /\ ("chunked" \in KindsOf(p) => count("last") = 1)
      /\ p.headers_sent /\ p.has_body = "no" => Last(pieces) \in {"continue", "head"}
      /\ p.headers_sent /\ p.keep /\ p.code = "full" /\ ~p.bare =>
           KindsOf(p) \cap {"length", "chunked"} # {}

\* As long as the program (and, for "continue", the client) takes one request
\* at a time, every response is framed on the wire as its head announced,
\* whatever mixture of setHeader, writeHead, write and finish produced it.  Two
\* things it leaves to SelfDefined below: a body the program gives to a 204, and
\* finish() without a body on a kept connection.
WellFramed ==
  wire.pieces # <<>> /\ ~outOfTurn => Framed(wire.of, wire.pieces)

\* A 204, 304 or 1xx "is always terminated by the first empty line after the header
\* fields" (http.lua:911).  The code asks for the code only while it guesses about a
\* body, so write or finish with a body, or a header that speaks of one, sends it
\* anyway.
EmptyHasNoBody ==
  wire.pieces # <<>> /\ response[wire.of].headers_sent /\ response[wire.of].code = "empty"
    => Last(wire.pieces) \in {"continue", "head"}

\* Every other response on a connection that is kept announces a length or chunks.
\* finish() without a body, before the head was sent, announces neither.
LengthAnnounced ==
  \A r \in DOMAIN response :
    response[r].finished /\ response[r].keep /\ response[r].code = "full"
      => KindsOf(response[r]) \cap {"length", "chunked"} # {}

\* What the comment in onHeadersComplete says of every message on a connection that is
\* kept: "In order to remain persistent, all messages on the connection MUST have a
\* self-defined message length" (http.lua:1130), by the rule of its code or by what
\* its head announces.
SelfDefined == EmptyHasNoBody /\ LengthAnnounced

\* A response that does not keep the connection closes it once it is finished: the
\* socket is destroyed, whether the shutdown completes or a destroy, a client's
\* end or another response's shutdown comes in between; and the response whose done
\* asked for the shutdown emits "end".
LastResponseCloses ==
  \A r \in Ids :
    r \in DOMAIN response /\ response[r].finished /\ ~response[r].keep
      ~> (sock = "destroyed" /\ (shutFor = r => response[r].ended)) \/ ~Followed

\* Every request handed to the program emits "end": before the next one is
\* handed over, and before the socket's "close" is through, after which none is
\* handed over; though the listeners only know the latest request, and messages,
\* parse errors, the client's end and a destroy inside a parser callback may come
\* in any order.
RequestsEnd ==
  \A r \in DOMAIN response :
    r < Len(response) \/ (sock = "destroyed" /\ ~closeTick) => response[r].request_ended

\* What the program is told of its requests.
RequestsSound == TypeOK /\ RequestsEnd
=============================================================================
