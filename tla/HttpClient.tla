------------------------------ MODULE HttpClient ------------------------------
(***************************************************************************)
(* One http.request (ClientRequest and OutgoingMessage in                  *)
(* src/lib/luvit/http.lua) with its socket (src/lib/luvit/net.lua) and the *)
(* parser of the response (src/src/lhttp_parser.c).                        *)
(*                                                                         *)
(* The callbacks of one chunk run inside parser:execute (`executing').     *)
(* http_parser calls back for as much of a token as the chunk holds, so a  *)
(* field or a value may come in two calls, the "first" part and the        *)
(* "rest", which is empty if the chunk ended right after the token.  The   *)
(* program listens for "error" and writes nothing after done.              *)
(***************************************************************************)
EXTENDS Integers, Sequences, SequencesExt

CONSTANTS
  Lengths,      \* the lengths of the chunks the program writes
  MaxWrites,    \* bound: calls of write
  MaxMessages,  \* bound: messages of the server, interim ones (1xx) included
  MaxFields     \* bound: headers and trailers of the messages, together

ASSUME BoundsAssumption ==
  Lengths \subseteq Nat \ {0} /\ {MaxWrites, MaxMessages, MaxFields} \subseteq Nat

VARIABLES
  phase,      \* the socket: "lookup", "connecting", "open", "failed" (still _connecting)
  destroyed, writable, reading, shutting,  \* of the socket
  queue,      \* _connectQueue
  wire,       \* what the socket wrote
  inflight,   \* a uv_write is not complete
  ticks,      \* the socket's callbacks given to nextTick
  out,        \* the OutgoingMessage
  parser,     \* "start", "fields", "fieldCut", "value", "valueCut", "body", "eofBody",
              \* "closed" (after the last message), "dead" (after an error)
  executing,  \* parser:execute is running
  headers, current_field,  \* the variables of onSocket
  response,   \* response.headers, and the events the response emitted
  msg,        \* the server's messages: their number, of the latest whether its head is
              \* complete, whether a token of it was cut; the fields that came
  hadError, hadResponse,
  errors,     \* the "error" events the request emitted, by their cause
  closed      \* the "close" events it emitted

sock  == <<phase, destroyed, writable, reading, shutting, queue, wire, inflight, ticks>>
reply == <<parser, executing, headers, current_field, response, msg>>
told  == <<hadError, hadResponse, errors, closed>>
vars  == <<sock, out, reply, told>>

\* A token of the head of message n, and what of it one callback was given.
Tokens == (1..MaxMessages) \X {"whole", "first", "rest"}
\* A piece of the request; a chunk with the size announced and the size it has.
Pieces == {<<"head">>, <<"raw">>, <<"last">>} \cup ({"chunk"} \X Nat \X Lengths)

TypeOK ==
  /\ phase \in {"lookup", "connecting", "open", "failed"}
  /\ destroyed \in BOOLEAN /\ writable \in BOOLEAN /\ reading \in BOOLEAN /\ shutting \in BOOLEAN
  /\ inflight \in BOOLEAN /\ executing \in BOOLEAN /\ hadError \in BOOLEAN /\ hadResponse \in BOOLEAN
  /\ queue \in Seq(Pieces) /\ wire \in Seq(Pieces)
  /\ ticks \in Seq({"lookup", "close", "errorClose"}) /\ Len(ticks) <= 2
  /\ out \in [header : BOOLEAN, headerSent : BOOLEAN, chunked : BOOLEAN, output : BOOLEAN,
              finished : BOOLEAN, finish : BOOLEAN, writes : 0..MaxWrites]
  /\ parser \in {"start", "fields", "fieldCut", "value", "valueCut", "body", "eofBody", "closed", "dead"}
  /\ headers \in SUBSET (Tokens \X Tokens)
  /\ current_field \in {<<>>} \cup Tokens
  /\ response \in [headers : SUBSET (Tokens \X Tokens), events : SUBSET {"data", "end"}]
  /\ msg \in [n : 0..MaxMessages, headed : BOOLEAN, cut : BOOLEAN, fields : 0..MaxFields]
  /\ errors \subseteq {"socket", "hangup", "parse"} /\ closed \in 0..1

\* HttpParser.new: http_parser_init.
lhttp_parser_new == "start"

\* ClientRequest:initialize.  A request with an Expect header stores and sends
\* its head at once, which waits for the connection.
Init ==
  /\ phase = "lookup" /\ writable = TRUE
  /\ destroyed = FALSE /\ reading = FALSE /\ shutting = FALSE /\ inflight = FALSE
  /\ wire = <<>> /\ ticks = <<>>
  /\ \E expect, chunked \in BOOLEAN :
       /\ out = [header |-> expect, headerSent |-> expect, chunked |-> expect /\ chunked,
                 output |-> FALSE, finished |-> FALSE, finish |-> FALSE, writes |-> 0]
       /\ queue = IF expect THEN <<<<"head">>>> ELSE <<>>
  /\ parser = lhttp_parser_new /\ executing = FALSE
  /\ headers = {} /\ current_field = <<>>
  /\ response = [headers |-> {}, events |-> {}]
  /\ msg = [n |-> 0, headed |-> FALSE, cut |-> FALSE, fields |-> 0]
  /\ hadError = FALSE /\ hadResponse = FALSE /\ errors = {} /\ closed = 0

-----------------------------------------------------------------------------
\* The request on its way out.

\* Program code runs between the callbacks of the loop and inside those that
\* emit, which the ones for the head do not.
Program == executing => parser \in {"start", "body", "eofBody", "closed", "dead"}

\* Socket:write: until the connection is there the data waits in the queue.
SocketWrite(pieces) ==
  IF phase = "open"
  THEN wire' = wire \o pieces /\ inflight' = (inflight \/ pieces # <<>>) /\ UNCHANGED queue
  ELSE queue' = queue \o pieces /\ UNCHANGED <<wire, inflight>>

\* tonumber(len, 16) reads the decimal digits as hexadecimal ones.
tonumber16[n \in Nat] == IF n < 10 THEN n ELSE 16 * tonumber16[n \div 10] + (n % 10)

\* A chunk of length n, announced by tostring(tonumber(n, 16)), a decimal number
\* that the server reads as a hexadecimal one again.
Chunk(p, n) == IF p.chunked THEN <<"chunk", tonumber16[tonumber16[n]], n>> ELSE <<"raw">>

\* _implicitHeader, _storeHeader: the headers and the method choose the encoding.
Stored(p) ==
  IF p.header THEN {p} ELSE {[p EXCEPT !.header = TRUE, !.chunked = c] : c \in BOOLEAN}

\* _send and _writeRaw: the head goes with the first data.  What a socket does
\* not take any more stays in output.
_send(p, pieces) ==
  LET all == (IF p.headerSent THEN <<>> ELSE <<<<"head">>>>) \o pieces
  IN  [req |-> [p EXCEPT !.headerSent = TRUE, !.output = @ \/ (~writable /\ all # <<>>)],
       pieces |-> IF writable THEN all ELSE <<>>]

\* OutgoingMessage:write.
write(n) ==
  /\ Program /\ ~out.finished /\ out.writes < MaxWrites
  /\ \E p \in Stored(out) :
       LET s == _send(p, <<Chunk(p, n)>>)
       IN  out' = [s.req EXCEPT !.writes = @ + 1] /\ SocketWrite(s.pieces)
  /\ UNCHANGED <<phase, destroyed, writable, reading, shutting, ticks, reply, told>>

\* What is left to send when data (or none, n = 0) is given to done.
LastPieces(p, n) ==
  (IF n = 0 THEN <<>> ELSE <<Chunk(p, n)>>) \o (IF p.chunked THEN <<<<"last">>>> ELSE <<>>)

\* Mutant: "finish" does not wait for the output.
done_hasty(n) ==
  /\ Program /\ ~out.finished
  /\ \E p \in Stored(out) :
       LET s == _send(p, LastPieces(p, n))
       IN  /\ out' = [s.req EXCEPT !.finished = TRUE, !.finish = TRUE]
           /\ SocketWrite(s.pieces)
  /\ UNCHANGED <<phase, destroyed, writable, reading, shutting, ticks, reply, told>>

\* OutgoingMessage:done, the way that writes the head, the data and the end at
\* once included.
done(n) ==
  /\ Program /\ ~out.finished
  /\ \E p \in Stored(out) :
       LET s == _send(p, LastPieces(p, n))
       IN  /\ out' = [s.req EXCEPT !.finished = TRUE, !.finish = ~s.req.output]
           /\ SocketWrite(s.pieces)
  /\ UNCHANGED <<phase, destroyed, writable, reading, shutting, ticks, reply, told>>

-----------------------------------------------------------------------------
\* The socket, as far as the request depends on it (module NetSocket has all).

Loop == ~executing

\* Mutant: the handle is not closed.
Destroy_unclosed(exception) ==
  /\ destroyed' = TRUE /\ writable' = FALSE /\ UNCHANGED reading
  /\ ticks' = IF destroyed THEN ticks ELSE Append(ticks, IF exception THEN "errorClose" ELSE "close")

\* Socket:destroy.
Destroy(exception) ==
  /\ destroyed' = TRUE /\ writable' = FALSE /\ reading' = FALSE
  /\ ticks' = IF destroyed THEN ticks ELSE Append(ticks, IF exception THEN "errorClose" ELSE "close")

\* The listener for the socket's "error".
OnSocketError == hadError' = TRUE /\ errors' = errors \cup {"socket"}

\* The program destroys the request.
destroy(exception) ==
  /\ Program /\ ~destroyed
  /\ Destroy(exception)
  /\ UNCHANGED <<phase, shutting, queue, wire, inflight, out, reply, told>>

\* dns.lookup calls back: with an error, which is emitted in a tick, or with the
\* address, for which connect may fail at once.
lookupFails ==
  /\ Loop /\ phase = "lookup"
  /\ phase' = "failed" /\ ticks' = Append(ticks, "lookup")
  /\ UNCHANGED <<destroyed, writable, reading, shutting, queue, wire, inflight, out, reply, told>>

lookupAnswers(accepted) ==
  /\ Loop /\ phase = "lookup"
  /\ phase' = IF accepted /\ ~destroyed THEN "connecting" ELSE "failed"
  /\ IF accepted \/ destroyed THEN UNCHANGED <<destroyed, writable, reading, ticks>> ELSE Destroy(FALSE)
  /\ UNCHANGED <<shutting, queue, wire, inflight, out, reply, told>>

\* The handle's "connect": the queue is written and reading starts.
connected ==
  /\ Loop /\ phase = "connecting" /\ ~destroyed
  /\ phase' = "open" /\ wire' = queue /\ queue' = <<>>
  /\ inflight' = (queue # <<>>) /\ reading' = TRUE
  /\ UNCHANGED <<destroyed, writable, shutting, ticks, out, reply, told>>

\* The handle's "error" for the connection.  Only a refusal destroys the socket,
\* and one that was closed while it connected fails too.
connectFails(refused) ==
  /\ Loop /\ phase = "connecting"
  /\ phase' = "failed"
  /\ IF refused THEN Destroy(FALSE) ELSE UNCHANGED <<destroyed, writable, reading, ticks>>
  /\ OnSocketError
  /\ UNCHANGED <<shutting, queue, wire, inflight, out, reply, hadResponse, closed>>

\* The uv_write calls complete, or one of them fails; those of a closed handle
\* fail.
writeReturns(ok) ==
  /\ Loop /\ inflight /\ (ok => ~destroyed)
  /\ inflight' = FALSE
  /\ IF ok THEN UNCHANGED <<hadError, errors>> ELSE OnSocketError
  /\ UNCHANGED <<phase, destroyed, writable, reading, shutting, queue, wire, ticks, out, reply, hadResponse, closed>>

\* A read fails: nothing destroys the socket.
readFails ==
  /\ Loop /\ reading
  /\ reading' = FALSE /\ OnSocketError
  /\ UNCHANGED <<phase, destroyed, writable, shutting, queue, wire, inflight, ticks, out, reply, hadResponse, closed>>

\* Mutant: the socket stays open after the server's end.
socketEnd_open ==
  /\ Loop /\ reading
  /\ reading' = FALSE /\ writable' = FALSE
  /\ UNCHANGED <<phase, destroyed, shutting, queue, wire, inflight, ticks, out, reply, told>>

\* The server's end: "end" on the request, and Socket:done.  The parser is not
\* told.
socketEnd ==
  /\ Loop /\ reading
  /\ reading' = FALSE /\ writable' = FALSE /\ shutting' = TRUE
  /\ UNCHANGED <<phase, destroyed, queue, wire, inflight, ticks, out, reply, told>>

\* The callback of Socket:done's shutdown.
shutdownReturns ==
  /\ Loop /\ shutting
  /\ shutting' = FALSE /\ Destroy(FALSE)
  /\ UNCHANGED <<phase, queue, wire, inflight, out, reply, told>>

\* ClientRequest:onSocketClose, after the "error" of a socket that was destroyed
\* with an exception.
onSocketClose(failed) ==
  /\ closed' = closed + 1
  /\ hadError' = (hadError \/ failed)
  /\ errors' = errors \cup (IF failed THEN {"socket"} ELSE {})
                      \cup (IF ~hadError' /\ ~hadResponse THEN {"hangup"} ELSE {})

\* The next tick: the failed lookup's, or destroy's.
lookupTick ==
  /\ Loop /\ ticks # <<>> /\ Head(ticks) = "lookup"
  /\ OnSocketError
  /\ destroyed' = TRUE /\ writable' = FALSE
  /\ ticks' = IF destroyed THEN Tail(ticks) ELSE Append(Tail(ticks), "close")
  /\ UNCHANGED <<phase, reading, shutting, queue, wire, inflight, out, reply, hadResponse, closed>>

closeTick ==
  /\ Loop /\ ticks # <<>> /\ Head(ticks) # "lookup"
  /\ ticks' = Tail(ticks)
  /\ onSocketClose(Head(ticks) = "errorClose")
  /\ UNCHANGED <<phase, destroyed, writable, reading, shutting, queue, wire, inflight, out, reply, hadResponse>>

-----------------------------------------------------------------------------
\* The response, through the parser.  With a token that is cut the chunk is used
\* up and execute returns.

Parse(more) == executing /\ executing' = more /\ UNCHANGED <<sock, out>>

\* The socket's "data", and parser:execute.
lhttp_parser_execute ==
  /\ Loop /\ reading
  /\ executing' = TRUE
  /\ UNCHANGED <<sock, out, parser, headers, current_field, response, msg, told>>

\* execute returns: if not all was parsed "error" is emitted, and the parser
\* takes no more.
lhttp_parser_return(parsed) ==
  /\ executing /\ executing' = FALSE
  /\ parsed => parser # "dead"
  /\ parser' = IF parsed THEN parser ELSE "dead"
  /\ errors' = errors \cup (IF parsed THEN {} ELSE {"parse"})
  /\ UNCHANGED <<sock, out, headers, current_field, response, msg, hadError, hadResponse, closed>>

onMessageBegin == headers' = {}

lhttp_parser_on_message_begin ==
  /\ Parse(TRUE) /\ parser = "start" /\ msg.n < MaxMessages
  /\ parser' = "fields"
  /\ msg' = [msg EXCEPT !.n = @ + 1, !.headed = FALSE, !.cut = FALSE]
  /\ onMessageBegin
  /\ UNCHANGED <<current_field, response, told>>

\* What the next callback is given of a token: a token that the end of the chunk
\* cut comes as its "first" part, and its "rest" with a later chunk.
Parts(cut) == IF parser = cut THEN {"rest"} ELSE {"whole", "first"}

onHeaderField(field) == current_field' = field

\* The callback for a field, of the head or of the trailer of a chunked body.
lhttp_parser_on_header_field(part) ==
  /\ Parse(part # "first") /\ part \in Parts("fieldCut")
  /\ \/ parser = "fieldCut"
     \/ parser = "fields" /\ msg.fields < MaxFields
     \/ parser = "body" /\ msg.fields < MaxFields
  /\ parser' = IF part = "first" THEN "fieldCut" ELSE "value"
  /\ msg' = [msg EXCEPT !.fields = IF part = "rest" THEN @ ELSE @ + 1, !.cut = @ \/ part = "first"]
  /\ onHeaderField(<<msg.n, part>>)
  /\ UNCHANGED <<headers, response, told>>

\* headers[current_field] = value, in the table that response.headers is as well
\* once the head is complete.
onHeaderValue(value) ==
  LET set(h) == {e \in h : e[1] # current_field} \cup {<<current_field, value>>}
  IN  /\ headers' = set(headers)
      /\ response' = IF msg.headed THEN [response EXCEPT !.headers = set(headers)] ELSE response

lhttp_parser_on_header_value(part) ==
  /\ Parse(part # "first") /\ parser \in {"value", "valueCut"} /\ part \in Parts("valueCut")
  /\ parser' = IF part = "first" THEN "valueCut" ELSE "fields"
  /\ msg' = [msg EXCEPT !.cut = @ \/ part = "first"]
  /\ onHeaderValue(<<msg.n, part>>)
  /\ UNCHANGED <<current_field, told>>

\* The head is handed to the listeners for "response", of which the one of
\* ClientRequest:initialize is called once.
onHeadersComplete ==
  /\ response' = [response EXCEPT !.headers = headers]
  /\ hadResponse' = TRUE

\* The body has a length (perhaps none) or extends to the end of the connection.
lhttp_parser_on_headers_complete(length) ==
  /\ Parse(TRUE) /\ parser = "fields" /\ ~msg.headed
  /\ parser' = IF length THEN "body" ELSE "eofBody"
  /\ msg' = [msg EXCEPT !.headed = TRUE]
  /\ onHeadersComplete
  /\ UNCHANGED <<headers, current_field, hadError, errors, closed>>

lhttp_parser_on_body ==
  /\ Parse(TRUE) /\ parser \in {"body", "eofBody"}
  /\ response' = [response EXCEPT !.events = @ \cup {"data"}]
  /\ UNCHANGED <<parser, headers, current_field, msg, told>>

\* The message is complete, with its trailer if it had one.  A body that extends
\* to the end of the connection never is: that takes parser:finish.
lhttp_parser_on_message_complete ==
  /\ Parse(TRUE) /\ parser \in {"body", "fields"} /\ msg.headed
  /\ parser' \in {"start", "closed"}
  /\ response' = [response EXCEPT !.events = @ \cup {"end"}]
  /\ UNCHANGED <<headers, current_field, msg, told>>

-----------------------------------------------------------------------------
Calls ==
  \/ \E n \in Lengths : write(n)
  \/ \E n \in Lengths \cup {0} : done(n)
  \/ \E x \in BOOLEAN : destroy(x)

Socket ==
  \/ lookupFails \/ connected \/ readFails \/ socketEnd \/ shutdownReturns \/ lookupTick \/ closeTick
  \/ \E b \in BOOLEAN : lookupAnswers(b) \/ connectFails(b) \/ writeReturns(b)

Parser ==
  \/ lhttp_parser_execute \/ lhttp_parser_on_message_begin
  \/ lhttp_parser_on_body \/ lhttp_parser_on_message_complete
  \/ \E p \in {"whole", "first", "rest"} : lhttp_parser_on_header_field(p) \/ lhttp_parser_on_header_value(p)
  \/ \E b \in BOOLEAN : lhttp_parser_on_headers_complete(b) \/ lhttp_parser_return(b)

Next == Calls \/ Socket \/ Parser

Spec == Init /\ [][Next]_vars

\* parser:execute returns, libuv completes the shutdown, the ticks run.  Data
\* that keeps coming may disable the last two, in every round for a while.
FairSpec ==
  /\ Spec
  /\ WF_vars(\E b \in BOOLEAN : lhttp_parser_return(b))
  /\ SF_vars(shutdownReturns) /\ SF_vars(lookupTick \/ closeTick)

-----------------------------------------------------------------------------
\* What the server gets of the request, now or once it is connected.
Sent == wire \o queue

\* One head, then the body in the encoding the head announced, then (of a
\* chunked body) one last chunk, whatever mixture of write and done at whatever
\* stage of the connection produced them.  A chunk is announced with its size
\* as long as that has one digit, which is what tonumber(len, 16) gets right.
RequestFramed ==
  \A i \in DOMAIN Sent :
    /\ (Sent[i] = <<"head">>) <=> (i = 1)
    /\ Sent[i] = <<"last">> => i = Len(Sent) /\ out.finished
    /\ i > 1 => (Sent[i] = <<"raw">> <=> ~out.chunked)
    /\ Sent[i][1] = "chunk" /\ Sent[i][3] < 10 => Sent[i][2] = Sent[i][3]

\* "finish" is emitted only for a request that the socket was given to the last
\* piece: none of it was kept in output because the server had ended first.
FinishMeansSent ==
  out.finish => /\ ~out.output /\ Sent # <<>>
                /\ out.chunked => Last(Sent) = <<"last">>

\* The head the program is given is that of the latest complete head, none of
\* its fields is left from an interim message before it, and each field and
\* value is whole, unless the end of a chunk fell into one of them.
HeadIsOwn ==
  msg.headed =>
    \A e \in response.headers : \A t \in {e[1], e[2]} :
      t[1] = msg.n /\ (~msg.cut => t[2] = "whole")

\* "close" is the last the program hears of the response, and comes once: no
\* callback of a chunk that was being parsed when a listener destroyed the request
\* comes after it, no lookup or connection that was under way then sends what was
\* queued, and the ticks of a failed lookup and of a destroy close it once.  Errors
\* may still follow: the writes and the connection that destroy cancelled fail.
QuietAfterClose == [][closed > 0 => UNCHANGED <<response, hadResponse, wire, closed>>]_vars

\* The server's end, and a destroy, lead to the request's "close", also while
\* data keeps coming and when the response is incomplete.
ServerEndCloses == phase = "open" /\ ~writable ~> closed > 0

\* The request on the wire is framed as announced, and complete when the program
\* is told so; the head of the answer is the answer's own.
RequestSound == TypeOK /\ RequestFramed /\ FinishMeansSent /\ HeadIsOwn
=============================================================================
