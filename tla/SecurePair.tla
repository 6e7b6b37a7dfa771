----------------------------- MODULE SecurePair -----------------------------
(***************************************************************************)
(* tls.lua and luv_tls_conn.c: one TLS connection.  The program writes to  *)
(* and reads from the cleartext stream, the socket is piped to and from    *)
(* the encrypted stream, and SecurePair:cycle moves data between their     *)
(* pending buffers and the SSL engine.                                     *)
(*                                                                         *)
(* Every event handler runs inside the method that emits it and may call   *)
(* the pair again, so the call stack is part of the state: `stack' holds   *)
(* the frames of cycle, _pull, _push, write, err and of the program's      *)
(* handlers, innermost first.  A lock of cycle is held exactly while a     *)
(* frame of the locked method is on the stack.                             *)
(*                                                                         *)
(* The engine's input and output are sequences of items: "hs" a flight of  *)
(* the handshake, a chunk, "fin" a close notify, "alert", and "bad", bytes *)
(* the engine cannot accept.  Chunks have length one.  Which callback      *)
(* belongs to which chunk is left out: a pull may run one or none.         *)
(***************************************************************************)
EXTENDS Integers, Sequences, SequencesExt

CONSTANTS
  Chunks,      \* the chunks the program may write, each at most once
  MaxPeer,     \* bound: chunks the peer sends
  HighWater,   \* 128 * 1024 in CryptoStream:write, in chunks
  MaxCalls     \* bound: calls of done, pause and destroy by the program

\* What else goes through the engine, next to the chunks the program writes.
Others == {"hs", "fin", "bad", "alert", "x", "y"}

ASSUME PairAssumption ==
  HighWater \in Nat \ {0} /\ MaxCalls \in Nat /\ MaxPeer \in 0..2 /\ Chunks \cap Others = {}

PeerChunks == SubSeq(<<"x", "y">>, 1, MaxPeer)
END_OF_FILE == <<>>
Flights == 2   \* of each side in a handshake
Sides == {"enc", "clr"}
Other(w) == IF w = "enc" THEN "clr" ELSE "enc"

VARIABLES
  st,      \* the two CryptoStreams
  ssl,     \* the tls_conn_t: BIOs, handshake and error
  pair,    \* the flags of the SecurePair
  stack,   \* frames, innermost first
  net,     \* the peer [todo, flights, over] and the socket: what arrived (queue),
           \* reading stopped (paused), Socket:destroy called (destroyed) and its
           \* 'close' emitted (closed), didOnEnd of the pipe (ended), and whether
           \* pause or resume found no handle (raised)
  io,      \* history: chunks written, sent to the socket, delivered
  calls    \* calls the program made

pairVars == <<st, ssl, pair, stack, net, io, calls>>

-----------------------------------------------------------------------------
\* Frames

Frame(f, w, pc) == [f |-> f, w |-> w, pc |-> pc, n |-> 0, b |-> FALSE, data |-> <<>>]
Cycle(depth) == [Frame("cycle", "clr", 0) EXCEPT !.n = depth]
User(event) == Frame(event, "clr", 0)
Err == Frame("err", "clr", 0)
Destroy == Frame("err", "clr", 1)
Handlers == {"secure", "callback", "data", "error", "drain", "close"}

Idle == stack = <<>>
Top(f, pc) == ~Idle /\ Head(stack).f = f /\ Head(stack).pc = pc
OnStack(s, f, w) == \E i \in DOMAIN s : s[i].f = f /\ s[i].w = w

\* The program runs: from the event loop, or in one of its handlers.
Running == Idle \/ (~Idle /\ Head(stack).f \in Handlers)

-----------------------------------------------------------------------------
\* Initial state

CryptoStream_initialize ==
  [pend |-> <<>>, bytes |-> 0, paused |-> FALSE, needDrain |-> FALSE, due |-> 0,
   writable |-> TRUE, done |-> FALSE, destroyAfterPush |-> FALSE]

newCONN(server) ==
  [up |-> TRUE, server |-> server, in |-> <<>>, out |-> <<>>, begun |-> FALSE,
   flights |-> 0, error |-> FALSE, shut |-> FALSE]

PairInit ==
  /\ st = [w \in Sides |-> CryptoStream_initialize]
  /\ \E server \in BOOLEAN : ssl = newCONN(server)
  /\ pair = [started |-> FALSE, secure |-> FALSE, writeCalled |-> FALSE, done |-> FALSE,
             closed |-> FALSE, how |-> "none", ripped |-> FALSE, fault |-> FALSE,
             failed |-> FALSE, queued |-> FALSE]
  /\ stack = <<>>
  /\ net = [todo |-> PeerChunks, queue |-> <<>>, flights |-> 0, over |-> FALSE, paused |-> FALSE,
            destroyed |-> FALSE, closed |-> FALSE, ended |-> FALSE, raised |-> FALSE]
  /\ io = [written |-> <<>>, wire |-> <<>>, got |-> <<>>, secures |-> 0]
  /\ calls = 0

-----------------------------------------------------------------------------
\* luv_tls_conn.c: the engine as a function of its state

tls_conn_is_init_finished(e) == e.flights = Flights

\* Every certificate is accepted in the handshake.
tls_conn_verify_cb == TRUE

\* One flight of the peer: each side answers it with its own, except that the
\* client has none for the last one.
Flight(e) ==
  CASE e.in = <<>> -> e
    [] e.in # <<>> /\ Head(e.in) = "hs" /\ tls_conn_verify_cb ->
         [e EXCEPT !.in = Tail(@), !.flights = @ + 1,
                   !.out = IF e.server \/ e.flights = 0 THEN Append(@, "hs") ELSE @]
    [] OTHER -> [e EXCEPT !.in = Tail(@), !.error = TRUE, !.out = Append(@, "alert")]

\* SSL_accept and SSL_connect: the client begins.  They read on until the
\* handshake is over, fails or needs more; a second flight can only be bad.
Handshake(e) ==
  LET b == IF e.server \/ e.begun THEN e ELSE [e EXCEPT !.begun = TRUE, !.out = Append(@, "hs")]
      h == Flight(b)
  IN IF h.error \/ tls_conn_is_init_finished(h) THEN h ELSE Flight(h)

tls_conn_start(e) == IF tls_conn_is_init_finished(e) THEN e ELSE Handshake(e)

\* Each of these returns the engine, a chunk and whether bytes were moved.
Moved(e, data, ok) == [ssl |-> e, data |-> data, ok |-> ok]

SSL_read(e) ==
  CASE e.in = <<>> -> Moved(e, <<>>, FALSE)
    [] e.in # <<>> /\ Head(e.in) = "fin" -> Moved([e EXCEPT !.in = Tail(@)], <<>>, FALSE)
    [] e.in # <<>> /\ Head(e.in) = "bad" ->
         Moved([e EXCEPT !.in = Tail(@), !.error = TRUE, !.out = Append(@, "alert")], <<>>, FALSE)
    [] OTHER -> Moved([e EXCEPT !.in = Tail(@)], <<Head(e.in)>>, TRUE)

SSL_write(e, data) ==
  IF e.shut THEN Moved([e EXCEPT !.error = TRUE], <<>>, FALSE)
  ELSE Moved([e EXCEPT !.out = @ \o data], <<>>, TRUE)

tls_conn_clear_out(e) ==
  LET h == tls_conn_start(e)
  IN IF tls_conn_is_init_finished(h) THEN SSL_read(h) ELSE Moved(h, <<>>, FALSE)

tls_conn_clear_in(e, data) ==
  LET h == tls_conn_start(e)
  IN IF tls_conn_is_init_finished(h) THEN SSL_write(h, data) ELSE Moved(h, <<>>, FALSE)

\* A memory BIO that is empty asks to retry, which counts as nothing moved, and
\* has no other error.
tls_handle_bio_error_x(e, data) == Moved(e, data, data # <<>>)

tls_conn_enc_in(e, data) == Moved([e EXCEPT !.in = @ \o data], <<>>, TRUE)

tls_conn_enc_out(e) == tls_handle_bio_error_x([e EXCEPT !.out = <<>>], e.out)

\* SSL_shutdown does nothing during the handshake.
tls_conn_shutdown(e) ==
  IF tls_conn_is_init_finished(e) /\ ~e.shut
  THEN [e EXCEPT !.shut = TRUE, !.out = Append(@, "fin")] ELSE e

tls_conn_get_error(e) == e.error
tls_conn_clear_error(e) == [e EXCEPT !.error = FALSE]
tls_conn_close(e) == [e EXCEPT !.up = FALSE]

_puller(w, e, data) == IF w = "enc" THEN tls_conn_enc_in(e, data) ELSE tls_conn_clear_in(e, data)
_pusher(w, e) ==
  CASE ~e.up -> Moved(e, <<>>, FALSE)
    [] e.up /\ w = "enc" -> tls_conn_enc_out(e)
    [] OTHER -> tls_conn_clear_out(e)

\* The bytes in the BIO a stream pushes from: _internallyPendingBytes.
tls_conn_enc_pending(e) == Len(e.out)
tls_conn_clear_pending(e) == Len(e.in)
Pending(w) ==
  IF w = "enc" THEN tls_conn_enc_pending(ssl) ELSE IF ssl.up THEN tls_conn_clear_pending(ssl) ELSE 0

-----------------------------------------------------------------------------
\* SecurePair

\* SecurePair:destroy with streams s: once, whoever asks first.
destroy(s, how, rest) ==
  IF pair.done THEN st' = s /\ UNCHANGED <<ssl, pair>>
  ELSE /\ pair' = [pair EXCEPT !.done = TRUE, !.how = how, !.ripped = OnStack(rest, "push", "enc")]
       /\ ssl' = tls_conn_close(ssl)
       /\ st' = [w \in Sides |-> [s[w] EXCEPT !.writable = FALSE]]

\* nextTick in SecurePair:destroy: the streams report their end, and the pipe
\* of the encrypted one destroys the socket.
destroyed ==
  /\ Idle /\ pair.done /\ ~pair.closed
  /\ pair' = [pair EXCEPT !.closed = TRUE]
  /\ net' = [net EXCEPT !.destroyed = TRUE]
  /\ stack' = <<User("close")>>
  /\ UNCHANGED <<st, ssl, io, calls>>

\* SecurePair:err: fatal before the handshake is over, reported after.
err ==
  LET rest == Tail(stack) IN
  \/ /\ Top("err", 0) /\ ~pair.secure
     /\ stack' = <<User("error"), Destroy>> \o rest
     /\ UNCHANGED <<st, ssl, pair, net, io, calls>>
  \/ /\ Top("err", 0) /\ pair.secure
     /\ ssl' = tls_conn_clear_error(ssl)
     /\ stack' = <<User("error")>> \o rest
     /\ UNCHANGED <<st, pair, net, io, calls>>
  \/ /\ Top("err", 1)
     /\ destroy(st, "error", rest)
     /\ stack' = rest
     /\ UNCHANGED <<net, io, calls>>

\* What verifyError returns: nil, or why the peer is not trusted.  The engine
\* itself accepted every certificate and kept the result of the verification.
tls_conn_verify_error(present, verify) ==
  CASE ~present -> "Unable to get peer certificate"
    [] present /\ verify = "X509_V_OK" -> "nil"
    [] OTHER -> verify

\* The listeners of 'secure' in tls.connect and tls.Server.  A client always asks
\* for a certificate; a server that does not never looks at one.
secure ==
  /\ Top("verify", 0)
  /\ \E requestCert, rejectUnauthorized, present \in BOOLEAN, verify \in {"X509_V_OK", "CERT_UNTRUSTED"} :
       LET refused == /\ ~ssl.server \/ requestCert
                      /\ tls_conn_verify_error(present, verify) # "nil"
                      /\ rejectUnauthorized
       IN stack' = (CASE ~refused -> <<User("secure")>>
                      [] refused /\ ssl.server -> <<Destroy>>
                      [] OTHER -> <<User("error"), Destroy>>) \o Tail(stack)
  /\ UNCHANGED <<st, ssl, pair, net, io, calls>>

\* maybeInitFinished: emits 'secure', then goes on with frames.
maybeInitFinished(e, frames) ==
  IF ~e.up \/ pair.secure \/ ~tls_conn_is_init_finished(e)
  THEN stack' = frames /\ UNCHANGED <<pair, io>>
  ELSE /\ pair' = [pair EXCEPT !.secure = TRUE]
       /\ io' = [io EXCEPT !.secures = @ + 1]
       /\ stack' = <<Frame("verify", "clr", 0)>> \o frames

Stage == << <<"pull", "enc">>, <<"pull", "clr">>, <<"push", "clr">>, <<"push", "enc">> >>

\* The locks of cycle.  The one of encrypted:_pull is set under another name,
\* _cycleEncyptedPullLock, and never holds.
Locked(k) == k > 1 /\ OnStack(stack, Stage[k][1], Stage[k][2])

\* A call that finds nothing to do returns at once.
NoWork(k) ==
  LET s == st[Stage[k][2]] o == st[Other(Stage[k][2])] IN
  IF k <= 2 THEN IF s.pend = <<>> THEN ~(s.needDrain /\ ~o.paused) ELSE ~ssl.up
  ELSE s.paused \/ (k = 4 /\ ~s.writable)

\* SecurePair:cycle: the four stages, and once more when the handshake ended.
cycle ==
  LET top == Head(stack) rest == Tail(stack) IN
  \/ /\ Top("cycle", 0)
     /\ pair' = IF ~pair.done /\ top.n = 0 THEN [pair EXCEPT !.writeCalled = FALSE] ELSE pair
     /\ stack' = IF pair.done THEN rest ELSE <<[top EXCEPT !.pc = 1, !.b = pair.secure]>> \o rest
     /\ UNCHANGED <<st, ssl, net, io, calls>>
  \/ /\ ~Idle /\ Head(stack).f = "cycle" /\ Head(stack).pc > 0
     /\ LET todo == {k \in top.pc..4 : ~Locked(k) /\ ~NoWork(k)} IN
        IF todo # {}
        THEN LET k == Min(todo) IN
             stack' = <<Frame(Stage[k][1], Stage[k][2], 0), [top EXCEPT !.pc = k + 1]>> \o rest
        ELSE stack' = (IF (~top.b /\ pair.secure) \/ (top.n = 0 /\ pair.writeCalled)
                       THEN <<Cycle(top.n + 1)>> ELSE <<>>) \o rest
     /\ UNCHANGED <<st, ssl, pair, net, io, calls>>

\* The timer of SecurePair:initialize.
start ==
  /\ Idle /\ ~pair.started
  /\ pair' = [pair EXCEPT !.started = TRUE]
  /\ ssl' = IF ssl.up THEN tls_conn_start(ssl) ELSE ssl
  /\ stack' = <<Cycle(0)>>
  /\ UNCHANGED <<st, net, io, calls>>

-----------------------------------------------------------------------------
\* CryptoStream

\* Mutant: the pair goes with the first stream that is done.
_done_either(w, rest) ==
  IF pair.secure THEN destroy([st EXCEPT ![w].done = TRUE], "done", rest) /\ stack' = rest
  ELSE st' = [st EXCEPT ![w].done = TRUE] /\ stack' = rest /\ UNCHANGED <<ssl, pair>>

\* CryptoStream:_done: the pair goes when both streams are done.
_done(w, rest) ==
  LET s    == [st EXCEPT ![w].done = TRUE]
      both == s["enc"].done /\ s["clr"].done /\ ~pair.done
  IN IF both /\ pair.secure THEN destroy(s, "done", rest) /\ stack' = rest
     ELSE /\ st' = s /\ UNCHANGED <<ssl, pair>>
          /\ stack' = IF both THEN <<Err>> \o rest ELSE rest

\* Mutant: a stream looks at its own pause, not at the other's.
pull_empty_own(w, rest) ==
  /\ st[w].pend = <<>>
  /\ st' = IF st[w].needDrain /\ ~st[w].paused
           THEN [st EXCEPT ![w].needDrain = FALSE, ![w].due = @ + 1] ELSE st
  /\ stack' = rest
  /\ UNCHANGED <<ssl, pair, io>>

\* _pull with nothing pending: a writer that waits is told, in a timer.
pull_empty(w, rest) ==
  /\ st[w].pend = <<>>
  /\ st' = IF st[w].needDrain /\ ~st[Other(w)].paused
           THEN [st EXCEPT ![w].needDrain = FALSE, ![w].due = @ + 1] ELSE st
  /\ stack' = rest
  /\ UNCHANGED <<ssl, pair, io>>

pull_closed(w, rest) == st[w].pend # <<>> /\ ~ssl.up /\ stack' = rest /\ UNCHANGED <<st, ssl, pair, io>>

\* The end of the stream: the other one closes when it has pushed everything.
pull_eof(w, rest) ==
  /\ st[w].pend # <<>> /\ ssl.up /\ Last(st[w].pend) = END_OF_FILE
  /\ st' = [st EXCEPT ![w].pend = Front(@), ![Other(w)].destroyAfterPush = TRUE]
  /\ ssl' = IF w = "clr" THEN tls_conn_shutdown(ssl) ELSE ssl
  /\ stack' = <<Cycle(0), Frame("pull", w, 1)>> \o rest
  /\ UNCHANGED <<pair, io>>

\* The newest entry is given to the engine.
pull_data(w, rest) ==
  /\ st[w].pend # <<>> /\ ssl.up /\ Last(st[w].pend) # END_OF_FILE
  /\ LET tmp == Last(st[w].pend)
         r   == _puller(w, ssl, tmp)
     IN /\ ssl' = r.ssl
        /\ st' = [st EXCEPT ![w].pend = Front(@)]
        /\ IF tls_conn_get_error(r.ssl)
           THEN pair' = [pair EXCEPT !.failed = TRUE] /\ stack' = <<Err>> \o rest /\ UNCHANGED io
           ELSE maybeInitFinished(r.ssl,
                  <<[Frame("pull", w, 2) EXCEPT !.b = r.ok, !.data = tmp]>> \o rest)

\* Mutant: an entry the engine did not take is not put back.
pull_refused_dropped(top, rest) ==
  ~top.b /\ stack' = rest /\ UNCHANGED <<st, ssl, pair, io>>

\* An entry the engine did not take goes in front of the others.
pull_refused(top, rest) ==
  /\ ~top.b
  /\ st' = [st EXCEPT ![top.w].pend = <<top.data>> \o @]
  /\ stack' = rest
  /\ UNCHANGED <<ssl, pair, io>>

\* An entry it took: the callback, if there is one, and the next round.
pull_taken(top, rest) ==
  /\ top.b
  /\ st' = [st EXCEPT ![top.w].bytes = @ - 1]
  /\ \E cb \in (IF top.w = "clr" THEN {<<>>, <<User("callback")>>} ELSE {<<>>}) :
       stack' = cb \o <<Frame("pull", top.w, 0)>> \o rest
  /\ UNCHANGED <<ssl, pair, io>>

\* CryptoStream:_pull
_pull ==
  LET top == Head(stack) rest == Tail(stack) w == top.w IN
  /\ \/ Top("pull", 0) /\ (pull_empty(w, rest) \/ pull_closed(w, rest) \/ pull_eof(w, rest) \/ pull_data(w, rest))
     \/ Top("pull", 1) /\ _done(w, rest) /\ UNCHANGED io
     \/ Top("pull", 2) /\ (pull_refused(top, rest) \/ pull_taken(top, rest))
  /\ UNCHANGED <<net, calls>>

\* One call of _pusher in _push, with the checks that follow it.  encOut empties
\* the BIO: a second call would find nothing.
push_read(top, rest) ==
  LET r == _pusher(top.w, ssl) IN
  /\ ssl' = r.ssl
  /\ IF r.ssl.up /\ tls_conn_get_error(r.ssl)
     THEN pair' = [pair EXCEPT !.failed = TRUE] /\ stack' = <<Err>> \o rest /\ UNCHANGED io
     ELSE maybeInitFinished(r.ssl,
            <<[top EXCEPT !.pc = IF r.ok /\ top.w = "clr" THEN 2 ELSE 3, !.data = @ \o r.data]>> \o rest)
  /\ UNCHANGED <<st, net, calls>>

\* _push: while the stream is not paused, everything the engine has is read
\* and emitted.  The encrypted stream asks the engine for what is pending even
\* when the pair was destroyed in between, which raises.
_push ==
  LET top == Head(stack) rest == Tail(stack) w == top.w IN
  \/ Top("push", 0) /\ st[w].paused /\ stack' = rest /\ UNCHANGED <<st, ssl, pair, net, io, calls>>
  \/ Top("push", 0) /\ ~st[w].paused /\ push_read(top, rest)
  \/ Top("push", 2) /\ push_read(top, rest)
  \/ /\ Top("push", 3) /\ top.data = <<>>
     /\ IF w = "enc" /\ ~ssl.up
        THEN pair' = [pair EXCEPT !.fault = TRUE] /\ stack' = <<>> /\ UNCHANGED <<st, ssl>>
        ELSE IF Pending(w) = 0 /\ st[w].destroyAfterPush THEN _done(w, rest)
        ELSE stack' = rest /\ UNCHANGED <<st, ssl, pair>>
     /\ UNCHANGED <<net, io, calls>>
  \/ /\ Top("push", 3) /\ top.data # <<>>
     /\ io' = IF w = "enc" THEN [io EXCEPT !.wire = @ \o top.data]
              ELSE [io EXCEPT !.got = @ \o top.data]
     /\ stack' = <<Frame("data", w, 0), Frame("push", w, 0)>> \o rest
     /\ UNCHANGED <<st, ssl, pair, net, calls>>

\* CryptoStream:write, up to the cycle it runs.
write(w, data) ==
  /\ st' = [st EXCEPT ![w].pend = Append(@, data), ![w].bytes = @ + 1]
  /\ pair' = [pair EXCEPT !.writeCalled = TRUE,
                          !.queued = @ \/ (w = "clr" /\ (st[w].pend # <<>> \/ ~st[w].writable))]
  /\ stack' = <<Cycle(0), Frame("write", w, 0)>> \o stack

\* The rest of write.  The pipe pauses the socket when it returns false: without
\* a handle, after Socket:destroy, that raises.
written ==
  LET w    == Head(stack).w
      need == st[w].needDrain \/ st[w].bytes >= HighWater \/ st[Other(w)].paused
  IN
  /\ Top("write", 0)
  /\ st' = [st EXCEPT ![w].needDrain = need]
  /\ net' = [net EXCEPT !.paused = @ \/ (w = "enc" /\ need),
                        !.raised = @ \/ (w = "enc" /\ need /\ net.destroyed)]
  /\ stack' = Tail(stack)
  /\ UNCHANGED <<ssl, pair, io, calls>>

\* The timer of _pull: 'drain'.  The pipe resumes the socket, which raises when
\* the socket was destroyed before the timer ran out.
emit_drain(w) ==
  /\ Idle /\ st[w].due > 0
  /\ st' = [st EXCEPT ![w].due = @ - 1]
  /\ net' = [net EXCEPT !.paused = IF w = "enc" THEN FALSE ELSE @,
                        !.raised = @ \/ (w = "enc" /\ net.destroyed)]
  /\ stack' = IF w = "clr" THEN <<User("drain")>> ELSE <<>>
  /\ UNCHANGED <<ssl, pair, io, calls>>

\* CryptoStream:done without data: it may come too late to do anything.
done_late(w) == (pair.done \/ ~st[w].writable) /\ UNCHANGED <<st, ssl, pair, stack, io>>

done(w) ==
  /\ ~pair.done /\ st[w].writable
  /\ st' = [st EXCEPT ![w].pend = Append(@, END_OF_FILE), ![w].writable = FALSE]
  /\ pair' = [pair EXCEPT !.queued = @ \/ (w = "clr" /\ st[w].pend # <<>>)]
  /\ stack' = <<Cycle(0)>> \o stack
  /\ UNCHANGED <<ssl, io>>

pause(w) == st' = [st EXCEPT ![w].paused = TRUE] /\ UNCHANGED <<ssl, pair, stack, net, io>>

resume(w) ==
  /\ st' = [st EXCEPT ![w].paused = FALSE]
  /\ stack' = <<Cycle(0)>> \o stack
  /\ UNCHANGED <<ssl, pair, net, io>>

-----------------------------------------------------------------------------
\* The program, from the event loop or from a handler

program_writes ==
  /\ Running
  /\ \E c \in Chunks \ ToSet(io.written) :
       write("clr", <<c>>) /\ io' = [io EXCEPT !.written = Append(@, c)]
  /\ UNCHANGED <<ssl, net, calls>>

program_resumes == Running /\ st["clr"].paused /\ resume("clr") /\ UNCHANGED calls

\* CleartextStream:destroy goes to the socket and reaches the pair when that has
\* closed; the destroy of the encrypted stream, which the program is given next
\* to the cleartext one, goes to the pair.
CleartextStream_destroy ==
  /\ ~net.destroyed
  /\ net' = [net EXCEPT !.destroyed = TRUE]
  /\ UNCHANGED <<st, ssl, pair, stack, io>>

CryptoStream_destroy ==
  /\ ~pair.done
  /\ destroy(st, "program", stack)
  /\ UNCHANGED <<stack, net, io>>

program_calls ==
  /\ Running /\ calls < MaxCalls /\ calls' = calls + 1
  /\ \/ done("clr") /\ UNCHANGED net
     \/ ~st["clr"].paused /\ pause("clr")
     \/ CleartextStream_destroy
     \/ CryptoStream_destroy

handler_returns ==
  /\ ~Idle /\ Running
  /\ stack' = Tail(stack)
  /\ UNCHANGED <<st, ssl, pair, net, io, calls>>

-----------------------------------------------------------------------------
\* The socket, piped both ways, and the peer behind it

FlightsSent == Len(SelectSeq(io.wire, LAMBDA i : i = "hs"))

\* The peer answers a flight, sends its chunks after its last flight, says
\* goodbye or sends what the engine cannot accept.
peer_sends ==
  /\ Idle /\ ~net.over
  /\ \/ /\ net.flights < Flights /\ FlightsSent + (IF ssl.server THEN 1 ELSE 0) > net.flights
        /\ net' = [net EXCEPT !.flights = @ + 1, !.queue = Append(@, "hs")]
     \/ /\ net.flights = Flights /\ net.todo # <<>>
        /\ net' = [net EXCEPT !.todo = Tail(@), !.queue = Append(@, Head(net.todo))]
     \/ net.flights = Flights /\ net' = [net EXCEPT !.over = TRUE, !.queue = Append(@, "fin")]
     \/ net' = [net EXCEPT !.over = TRUE, !.queue = Append(@, "bad")]
  /\ UNCHANGED <<st, ssl, pair, stack, io, calls>>

\* What arrived is one chunk for the encrypted stream, which takes it whatever
\* became of the pair.
socket_data ==
  /\ Idle /\ net.queue # <<>> /\ ~net.paused /\ ~net.destroyed
  /\ write("enc", net.queue)
  /\ net' = [net EXCEPT !.queue = <<>>]
  /\ UNCHANGED <<ssl, io, calls>>

\* onend of the pipe.  An accepted socket has destroyed itself when it runs.
socket_end ==
  /\ Idle /\ net.queue = <<>> /\ ~net.paused /\ ~net.destroyed /\ ~net.ended
  /\ done("enc") \/ done_late("enc")
  /\ net' = [net EXCEPT !.over = TRUE, !.ended = TRUE, !.destroyed = ssl.server]
  /\ UNCHANGED calls

\* The socket is destroyed: the shutdown that follows its end is over, it could
\* not connect, or the program gave it up.
socket_destroyed ==
  /\ Idle /\ ~net.destroyed
  /\ net' = [net EXCEPT !.destroyed = TRUE]
  /\ UNCHANGED <<st, ssl, pair, stack, io, calls>>

\* 'close' of the socket: onclose of the pipe does nothing after onend.
socket_close ==
  /\ Idle /\ net.destroyed /\ ~net.closed
  /\ net' = [net EXCEPT !.closed = TRUE, !.ended = TRUE]
  /\ IF net.ended THEN UNCHANGED <<st, ssl, pair>> ELSE destroy(st, "program", stack)
  /\ UNCHANGED <<stack, io, calls>>

\* The socket's buffer is full when encrypted data is written to it.
socket_full ==
  /\ Top("data", 0) /\ Head(stack).w = "enc" /\ ~st["enc"].paused /\ ~net.destroyed
  /\ pause("enc") /\ UNCHANGED calls

\* 'drain' of the socket, after something was written to it: the pipe resumes
\* the encrypted stream, paused or not.
socket_drain == Idle /\ io.wire # <<>> /\ resume("enc") /\ UNCHANGED calls

-----------------------------------------------------------------------------
Internal == cycle \/ _pull \/ _push \/ written \/ err \/ secure \/ handler_returns

PairNext ==
  \/ Internal \/ start \/ destroyed
  \/ program_writes \/ program_calls \/ program_resumes
  \/ peer_sends \/ socket_data \/ socket_end \/ socket_destroyed \/ socket_close
  \/ socket_full \/ socket_drain
  \/ \E w \in Sides : emit_drain(w)

PairSpec == PairInit /\ [][PairNext]_pairVars

PairSymmetry == Permutations(Chunks)

-----------------------------------------------------------------------------
\* The shape of every variable.
PairTypeOK ==
  /\ DOMAIN st = Sides
  /\ \A w \in Sides :
       /\ st[w].bytes \in Nat /\ st[w].due \in Nat
       /\ st[w].paused \in BOOLEAN /\ st[w].needDrain \in BOOLEAN
  /\ ssl.flights \in 0..Flights
  /\ calls \in 0..MaxCalls
  /\ pair.how \in {"none", "error", "done", "program"}

Mine(s) == FlattenSeq([i \in DOMAIN s |-> IF s[i] \in Chunks THEN <<s[i]>> ELSE <<>>])

\* The chunks that some _pull or _push on the stack s has in its hands.
InHand(x, f, w) == x.f = f /\ x.w = w /\ (f = "pull" => x.pc = 2 /\ ~x.b)
Held(s, f, w) == FlattenSeq([i \in DOMAIN s |-> IF InHand(s[i], f, w) THEN s[i].data ELSE <<>>])

Outgoing ==
  Mine(io.wire \o Held(stack, "push", "enc") \o ssl.out \o Held(stack, "pull", "clr")
         \o FlattenSeq(st["clr"].pend))

\* No chunk that was written is lost or sent twice, however calls of cycle nest,
\* while the engine reports no error.
NothingLost ==
  ~pair.failed /\ ~pair.fault =>
    Len(Outgoing) = Len(io.written) /\ ToSet(Outgoing) = ToSet(io.written)

\* Chunks are sent in the order of the writes, unless one was written or the
\* stream was ended while another was still waiting.
SentInOrder == ~pair.failed /\ ~pair.fault /\ ~pair.queued => Outgoing = io.written

\* What the program receives is what the peer sent, in order, and nothing of it
\* comes before 'secure', which comes once.
ReceivedInOrder ==
  /\ IsPrefix(io.got, PeerChunks)
  /\ io.secures <= 1
  /\ io.got # <<>> => io.secures = 1

\* When the event loop is idle and the engine reported no error, nothing waits
\* that could move: no chunk of an established pair, no output unless the socket
\* is full, no input unless the program paused.  Chunks that were queued behind
\* another, or before the end of the stream, are left out: the end overtakes them
\* and they may stay for ever.
NothingStuck ==
  Idle /\ pair.started /\ ssl.up /\ ~pair.failed =>
    /\ st["enc"].pend = <<>>
    /\ pair.secure /\ ~pair.queued => st["clr"].pend = <<>>
    /\ st["enc"].paused \/ ~st["enc"].writable \/ ssl.out = <<>>
    /\ st["clr"].paused \/ ssl.in = <<>>

\* A writer that was told to wait will hear 'drain': something is still waiting
\* or the other side is paused.
NoMissedDrain ==
  Idle /\ ssl.up /\ ~pair.failed => \A w \in Sides :
    st[w].needDrain /\ st[w].writable => st[w].pend # <<>> \/ st[Other(w)].paused

\* When the pair ends by itself, nothing is cut off on the side that did not end
\* first: what the program wrote was given to Socket:write, what the peer sent was
\* given to the program.  Left out are a pair whose engine reported an error and
\* one with queued chunks: the end of the stream overtakes those, as it does
\* with what was written before the handshake.
FlushedBeforeDone ==
  pair.how = "done" /\ ~pair.failed /\ ~pair.queued =>
    /\ ~st["clr"].destroyAfterPush => Mine(io.wire) = io.written
    /\ ~st["enc"].destroyAfterPush => io.got = SubSeq(PeerChunks, 1, MaxPeer - Len(net.todo))

\* cycle, _pull and _push use the destroyed engine only in an encrypted:_push
\* whose own handler led to the destruction.
NoUseAfterDestroy == pair.fault => pair.ripped

\* The pair is a channel in both directions: nothing is lost, doubled or
\* reordered between the program and the socket, and no call that is still on the
\* stack when the pair is destroyed goes on with the engine, except the one
\* NoUseAfterDestroy names.
DeliveredInOrder == PairTypeOK /\ NothingLost /\ SentInOrder /\ ReceivedInOrder /\ NoUseAfterDestroy

\* Nobody waits for a call of cycle that does not come: neither data that could
\* move nor a writer that was told to wait.
NoLostWakeUp == NothingStuck /\ NoMissedDrain
=============================================================================
