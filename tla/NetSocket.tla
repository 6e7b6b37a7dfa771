------------------------------ MODULE NetSocket ------------------------------
(***************************************************************************)
(* net.Socket of src/lib/luvit/net.lua as a client: name lookup, connect,  *)
(* writes queued until the connection is up, shutdown, destroy, and the    *)
(* idle timer of timer.lua that the socket is enrolled in.                 *)
(*                                                                         *)
(* libuv calls back into the listeners on self._handle; these emit events  *)
(* on the socket, and the program's listeners may call the socket again    *)
(* before the handler goes on.  There are two places where it matters how  *)
(* far the handler is, told apart by `emitting': between the two listeners *)
(* of the handle's "connect" event (the first emits "connect" on the       *)
(* socket, the second flushes the queue), and in the listener of its "end" *)
(* event (which emits "end" and then calls done).  Chunks are numbered in  *)
(* the order write got them.                                               *)
(***************************************************************************)
EXTENDS Integers, Sequences, SequencesExt

CONSTANTS
  MaxChunks    \* bound: calls of write

ASSUME BoundsAssumption == MaxChunks \in Nat

VARIABLES
  hasHandle,   \* self._handle is not nil
  destroyed, connecting,
  connectQueue,\* self._connectQueue
  pending,     \* self._pendingWriteRequests
  idle,        \* the idle timer: "nil", "set" (enrolled), "armed", "off"
  lookup,      \* dns.lookup: "none", "pending", "failed" (tick queued), "done"
  emitting,    \* the event whose listeners run: "none", "connect" or "end"
  closeTick,   \* destroy has queued the tick that emits "close"
  uvConn,      \* uv: "idle", "pending", "up", "failed"
  uvWrites,    \* uv: the chunks of the queued write requests
  uvShut,      \* uv: "no", "pending", "done"
  uvReading,   \* uv: reading, and the handle's "end" listener is still there
  ended,       \* that listener, registered with once, has been called
  uvClosing,   \* uv: "no", "closing", "closed"
  wire,        \* history: chunks whose write succeeded
  chunks,      \* history: calls of write that were not ignored
  refused,     \* history: libuv refused a shutdown, whose callback never comes
  doneAt,      \* history: chunks written when it accepted one
  failed,      \* history: an "error" event, or a write that libuv refused
  owed,        \* history: write returned false and no "drain" came since
  closes,      \* history: "close" events emitted
  crash        \* "none", or where a method was called on the nil that was _handle

sock  == <<hasHandle, destroyed, connecting, connectQueue, pending, idle>>
loop  == <<lookup, emitting, closeTick>>
uv    == <<uvConn, uvWrites, uvShut, uvReading, ended, uvClosing>>
hist  == <<wire, chunks, refused, doneAt, failed, owed, closes>>
vars  == <<sock, loop, uv, hist, crash>>

Chunks == 1..MaxChunks

TypeOK ==
  /\ hasHandle \in BOOLEAN /\ destroyed \in BOOLEAN /\ connecting \in BOOLEAN
  /\ connectQueue \in Seq(Chunks)
  /\ pending \in 0..MaxChunks
  /\ idle \in {"nil", "set", "armed", "off"}
  /\ lookup \in {"none", "pending", "failed", "done"}
  /\ emitting \in {"none", "connect", "end"} /\ closeTick \in BOOLEAN
  /\ uvConn \in {"idle", "pending", "up", "failed"}
  /\ uvWrites \in Seq(Chunks)
  /\ uvShut \in {"no", "pending", "done"}
  /\ uvReading \in BOOLEAN /\ ended \in BOOLEAN
  /\ uvClosing \in {"no", "closing", "closed"}
  /\ wire \in Seq(Chunks)
  /\ chunks \in 0..MaxChunks
  /\ refused \in BOOLEAN /\ doneAt \in 0..MaxChunks
  /\ failed \in BOOLEAN /\ owed \in BOOLEAN
  /\ closes \in Nat
  /\ crash \in {"none", "connect", "flush", "pause"}

\* Socket:initialize with a new Tcp.
Init ==
  /\ hasHandle = TRUE /\ destroyed = FALSE /\ connecting = FALSE
  /\ connectQueue = <<>> /\ pending = 0 /\ idle = "nil"
  /\ lookup = "none" /\ emitting = "none" /\ closeTick = FALSE
  /\ uvConn = "idle" /\ uvWrites = <<>> /\ uvShut = "no"
  /\ uvReading = FALSE /\ ended = FALSE /\ uvClosing = "no"
  /\ wire = <<>> /\ chunks = 0 /\ refused = FALSE /\ doneAt = 0
  /\ failed = FALSE /\ owed = FALSE /\ closes = 0
  /\ crash = "none"

-----------------------------------------------------------------------------
\* Mutant: an item that was unenrolled is armed again.
Activated_unenrolled == IF idle = "nil" THEN idle ELSE "armed"

\* timer.active(self): arms the timer of an enrolled socket.
Activated == IF idle \in {"set", "armed"} THEN "armed" ELSE idle

\* Mutant: no tick is queued for the "close" event.
Destroy_silent ==
  /\ destroyed' = TRUE
  /\ hasHandle' = FALSE
  /\ idle' = "off"
  /\ uvClosing' = IF hasHandle THEN "closing" ELSE uvClosing
  /\ uvReading' = FALSE
  /\ UNCHANGED closeTick

\* Socket:destroy where it is not a no-op: unenroll, close the handle, and
\* leave the "close" event to the next tick.  uv_close stops reading.
Destroy ==
  /\ destroyed' = TRUE
  /\ hasHandle' = FALSE
  /\ idle' = "off"
  /\ closeTick' = TRUE
  /\ uvClosing' = IF hasHandle THEN "closing" ELSE uvClosing
  /\ uvReading' = FALSE

KeepSocket == UNCHANGED <<destroyed, hasHandle, idle, closeTick, uvClosing, uvReading>>

DestroyOnce == IF destroyed THEN KeepSocket ELSE Destroy

\* libuv accepts a shutdown on a connected stream, once; on one whose connect is
\* pending or has failed it depends on the platform.
uv_shutdown_accepts ==
  IF uvConn = "idle" \/ uvShut # "no" \/ uvClosing # "no" THEN {FALSE}
  ELSE IF uvConn = "up" THEN {TRUE} ELSE BOOLEAN

\* Socket:shutdown on a socket that is not destroyed.
Shutdown ==
  \E accepts \in uv_shutdown_accepts :
    /\ uvShut' = IF accepts THEN "pending" ELSE uvShut
    /\ doneAt' = IF accepts THEN chunks ELSE doneAt
    /\ refused' = (refused \/ ~accepts)

-----------------------------------------------------------------------------
\* Calls of the program.

\* Socket:setTimeout(msecs): enroll and active, or with 0 unenroll.
setTimeout(on) ==
  /\ crash = "none"
  /\ idle' = IF on THEN "armed" ELSE "off"
  /\ UNCHANGED <<hasHandle, destroyed, connecting, connectQueue, pending, loop, uv,
                 hist, crash>>

\* Socket:connect.
connect ==
  /\ crash = "none" /\ ~destroyed
  /\ lookup = "none"
  /\ connecting' = TRUE
  /\ idle' = Activated
  /\ lookup' = "pending"
  /\ UNCHANGED <<hasHandle, destroyed, connectQueue, pending, emitting, closeTick, uv,
                 hist, crash>>

\* Socket:connect on a destroyed socket: there is no _handle to listen on.
connectDestroyed ==
  /\ crash = "none" /\ destroyed
  /\ connecting' = TRUE
  /\ idle' = Activated
  /\ crash' = "connect"
  /\ UNCHANGED <<hasHandle, destroyed, connectQueue, pending, loop, uv, hist>>

\* Socket:pause and Socket:resume: readStop and readStart (LuvStream counts the
\* references they take), with no check that the handle is there.
pauseResume(read) ==
  /\ crash = "none"
  /\ uvReading' = (hasHandle /\ read /\ uvConn = "up" /\ ~ended)
  /\ crash' = IF hasHandle THEN "none" ELSE "pause"
  /\ UNCHANGED <<sock, loop, uvConn, uvWrites, uvShut, ended, uvClosing, hist>>

\* Socket:write on a socket that is connecting.
writeQueued ==
  /\ crash = "none" /\ ~destroyed
  /\ chunks < MaxChunks
  /\ connecting
  /\ chunks' = chunks + 1
  /\ connectQueue' = Append(connectQueue, chunks + 1)
  /\ owed' = TRUE
  /\ UNCHANGED <<hasHandle, destroyed, connecting, pending, idle, loop, uv, wire,
                 refused, doneAt, failed, closes, crash>>

\* Socket:write before connect was called: uv_write refuses the stream, and no
\* callback ever undoes the count.
writeUnconnected ==
  /\ crash = "none" /\ ~destroyed
  /\ chunks < MaxChunks
  /\ ~connecting /\ uvConn = "idle"
  /\ chunks' = chunks + 1
  /\ idle' = Activated
  /\ pending' = pending + 1
  /\ failed' = TRUE
  /\ UNCHANGED <<hasHandle, destroyed, connecting, connectQueue, loop, uv, wire, refused,
                 doneAt, owed, closes, crash>>

\* Socket:write on a connection: _write, which returns whether all of the data
\* went out at once.
write ==
  /\ crash = "none" /\ ~destroyed
  /\ chunks < MaxChunks
  /\ ~connecting /\ uvConn = "up"
  /\ chunks' = chunks + 1
  /\ idle' = Activated
  /\ pending' = pending + 1
  /\ uvWrites' = Append(uvWrites, chunks + 1)
  /\ owed' \in {TRUE, owed}
  /\ UNCHANGED <<hasHandle, destroyed, connecting, connectQueue, loop, uvConn, uvShut,
                 uvReading, ended, uvClosing, wire, refused, doneAt, failed, closes, crash>>

\* Socket:done: shutdown, and destroy from its callback.
done ==
  /\ crash = "none" /\ ~destroyed
  /\ Shutdown
  /\ UNCHANGED <<sock, loop, uvConn, uvWrites, uvReading, ended, uvClosing, wire, chunks,
                 failed, owed, closes, crash>>

\* Socket:destroy called by the program.
destroy ==
  /\ crash = "none" /\ ~destroyed
  /\ Destroy
  /\ UNCHANGED <<connecting, connectQueue, pending, lookup, emitting, uvConn, uvWrites,
                 uvShut, ended, hist, crash>>

-----------------------------------------------------------------------------
\* Callbacks.  They run one at a time.
Idle == crash = "none" /\ emitting = "none"

\* The idle timer goes off: the item is taken out of its list, "timeout" emitted.
onTimeout ==
  /\ Idle /\ idle = "armed"
  /\ idle' = "set"
  /\ UNCHANGED <<hasHandle, destroyed, connecting, connectQueue, pending, loop, uv,
                 hist, crash>>

\* dns.lookup succeeds: active and _connect, which does nothing on a destroyed
\* socket.
lookupDone ==
  /\ Idle /\ lookup = "pending"
  /\ lookup' = "done"
  /\ idle' = Activated
  /\ uvConn' = IF destroyed THEN uvConn ELSE "pending"
  /\ UNCHANGED <<hasHandle, destroyed, connecting, connectQueue, pending, emitting,
                 closeTick, uvWrites, uvShut, uvReading, ended, uvClosing, hist, crash>>

\* dns.lookup fails: the error is left to the next tick.
lookupFails ==
  /\ Idle /\ lookup = "pending"
  /\ lookup' = "failed"
  /\ UNCHANGED <<sock, emitting, closeTick, uv, hist, crash>>

\* That tick: "error" is emitted and the socket destroyed.
lookupTick ==
  /\ Idle /\ lookup = "failed"
  /\ lookup' = "done"
  /\ failed' = TRUE
  /\ DestroyOnce
  /\ UNCHANGED <<connecting, connectQueue, pending, emitting, uvConn, uvWrites, uvShut,
                 ended, wire, chunks, refused, doneAt, owed, closes, crash>>

\* The handle's "error" event for a connect that failed: only ECONNREFUSED
\* destroys the socket.  On a closing handle the request was cancelled.
connectFails(isRefused) ==
  /\ Idle /\ uvConn = "pending"
  /\ uvConn' = "failed"
  /\ failed' = TRUE
  /\ IF isRefused /\ uvClosing = "no" THEN DestroyOnce ELSE KeepSocket
  /\ UNCHANGED <<connecting, connectQueue, pending, lookup, emitting, uvWrites, uvShut,
                 ended, wire, chunks, refused, doneAt, owed, closes, crash>>

\* The handle's "connect" event, first listener: "connect" is emitted on the
\* socket, and the program's listeners run.
connectEvent ==
  /\ Idle /\ uvConn = "pending" /\ uvClosing = "no"
  /\ uvConn' = "up"
  /\ emitting' = "connect"
  /\ UNCHANGED <<sock, lookup, closeTick, uvWrites, uvShut, uvReading, ended, uvClosing, hist,
                 crash>>

\* Mutant: the queue is written only when nothing was done yet.
connectFlush_late ==
  /\ crash = "none" /\ emitting = "connect"
  /\ emitting' = "none"
  /\ connecting' = FALSE
  /\ crash' = IF hasHandle THEN "none" ELSE "flush"
  /\ LET out == IF uvShut = "no" THEN connectQueue ELSE <<>>
     IN  uvWrites' = uvWrites \o out /\ pending' = pending + Len(out)
  /\ connectQueue' = <<>>
  /\ uvReading' = ~ended
  /\ UNCHANGED <<idle, hasHandle, destroyed, lookup, closeTick, uvConn, uvShut, ended,
                 uvClosing, hist>>

\* Second listener: the queue is written, reading starts.  Both need _handle.
connectFlush ==
  /\ crash = "none" /\ emitting = "connect"
  /\ emitting' = "none"
  /\ connecting' = FALSE
  /\ idle' = IF connectQueue = <<>> THEN idle ELSE Activated
  /\ IF hasHandle
     THEN /\ pending' = pending + Len(connectQueue)
          /\ uvWrites' = uvWrites \o connectQueue
          /\ connectQueue' = <<>>
          /\ uvReading' = ~ended
          /\ UNCHANGED crash
     ELSE /\ crash' = "flush"
          /\ pending' = IF connectQueue = <<>> THEN pending ELSE pending + 1
          /\ UNCHANGED <<uvWrites, connectQueue, uvReading>>
  /\ UNCHANGED <<hasHandle, destroyed, lookup, closeTick, uvConn, uvShut, ended, uvClosing,
                 hist>>

\* Mutant: "drain" is emitted when one request is left.
writeDone_early ==
  /\ Idle /\ uvWrites # <<>> /\ uvConn = "up"
  /\ uvWrites' = Tail(uvWrites)
  /\ wire' = Append(wire, Head(uvWrites))
  /\ idle' = Activated
  /\ pending' = pending - 1
  /\ owed' = (owed /\ pending' # 1)
  /\ UNCHANGED <<hasHandle, destroyed, connecting, connectQueue, loop, uvConn, uvShut,
                 uvReading, ended, uvClosing, chunks, refused, doneAt, failed, closes, crash>>

\* The callback of _write with no error, which may come after destroy for data
\* that was out by then: "drain" when it was the last.
writeDone ==
  /\ Idle /\ uvWrites # <<>> /\ uvConn = "up"
  /\ uvWrites' = Tail(uvWrites)
  /\ wire' = Append(wire, Head(uvWrites))
  /\ idle' = Activated
  /\ pending' = pending - 1
  /\ owed' = (owed /\ pending' # 0)
  /\ UNCHANGED <<hasHandle, destroyed, connecting, connectQueue, loop, uvConn, uvShut,
                 uvReading, ended, uvClosing, chunks, refused, doneAt, failed, closes, crash>>

\* The callback of _write with an error (or cancelled by uv_close): "error" is
\* emitted, the request stays counted.
writeFails ==
  /\ Idle /\ uvWrites # <<>>
  /\ uvWrites' = Tail(uvWrites)
  /\ failed' = TRUE
  /\ UNCHANGED <<sock, loop, uvConn, uvShut, uvReading, ended, uvClosing, wire, chunks, refused,
                 doneAt, owed, closes, crash>>

\* The handle's "data" event.
data ==
  /\ Idle /\ uvReading
  /\ idle' = Activated
  /\ UNCHANGED <<hasHandle, destroyed, connecting, connectQueue, pending, loop, uv, hist,
                 crash>>

\* The handle's "end" event: "end" is emitted on the socket.
endEvent ==
  /\ Idle /\ uvReading
  /\ uvReading' = FALSE
  /\ ended' = TRUE
  /\ emitting' = "end"
  /\ UNCHANGED <<sock, lookup, closeTick, uvConn, uvWrites, uvShut, uvClosing, hist, crash>>

\* Then the handler calls done, which on a destroyed socket does nothing.
endDone ==
  /\ crash = "none" /\ emitting = "end"
  /\ emitting' = "none"
  /\ IF destroyed THEN UNCHANGED <<uvShut, refused, doneAt>> ELSE Shutdown
  /\ UNCHANGED <<sock, lookup, closeTick, uvConn, uvWrites, uvReading, ended, uvClosing, wire,
                 chunks, failed, owed, closes, crash>>

\* The shutdown completes, or uv_close cancels it: the callback of done.
shutdownDone ==
  /\ Idle /\ uvShut = "pending" /\ uvWrites = <<>> /\ uvConn # "pending"
  /\ uvShut' = "done"
  /\ DestroyOnce
  /\ UNCHANGED <<connecting, connectQueue, pending, lookup, emitting, uvConn, uvWrites,
                 ended, hist, crash>>

\* The handle is closed, after its requests were cancelled.  The listener of its
\* "close" event is gone by then: Handle:close emits that event too.
handleClosed ==
  /\ Idle /\ uvClosing = "closing"
  /\ uvWrites = <<>> /\ uvShut # "pending" /\ uvConn # "pending"
  /\ uvClosing' = "closed"
  /\ UNCHANGED <<sock, loop, uvConn, uvWrites, uvShut, uvReading, ended, hist,
                 crash>>

\* The tick queued by destroy.
closeEvent ==
  /\ Idle /\ closeTick
  /\ closeTick' = FALSE
  /\ closes' = closes + 1
  /\ UNCHANGED <<sock, lookup, emitting, uv, wire, chunks, refused, doneAt, failed, owed, crash>>

-----------------------------------------------------------------------------
Program ==
  \/ \E b \in BOOLEAN : setTimeout(b) \/ pauseResume(b)
  \/ connect \/ connectDestroyed \/ writeQueued \/ writeUnconnected \/ write \/ done \/ destroy

Callback ==
  \/ lookupDone \/ lookupFails \/ lookupTick
  \/ \E r \in BOOLEAN : connectFails(r)
  \/ connectEvent \/ connectFlush \/ writeDone \/ writeFails \/ data \/ endEvent \/ endDone
  \/ shutdownDone \/ handleClosed \/ closeEvent \/ onTimeout

Next == Program \/ Callback

Spec == Init /\ [][Next]_vars

\* Every tick that was queued runs, and libuv completes every request, one way
\* or the other; nothing obliges the peer to send.
Fairness ==
  /\ WF_vars(lookupDone \/ lookupFails) /\ WF_vars(lookupTick)
  /\ WF_vars(connectEvent \/ \E r \in BOOLEAN : connectFails(r))
  /\ WF_vars(connectFlush) /\ WF_vars(endDone)
  /\ WF_vars(writeDone \/ writeFails)
  /\ WF_vars(shutdownDone) /\ WF_vars(handleClosed) /\ WF_vars(closeEvent)

FairSpec == Spec /\ Fairness

-----------------------------------------------------------------------------
Sorted(s) == \A i, j \in DOMAIN s : i < j => s[i] < s[j]

\* Data leaves in the order of the calls of write, over the change from queueing
\* to writing and with calls from inside the "connect" event: what is on the
\* wire, in libuv's queue and in _connectQueue is in order, and complete as
\* long as nothing failed.
WritesInOrder ==
  LET all == wire \o uvWrites \o connectQueue
  IN  /\ Sorted(all)
      /\ ~failed => ToSet(all) = 1..chunks

\* _pendingWriteRequests counts libuv's queue while no write has failed, so
\* "drain" is emitted exactly when that is empty.
PendingMatchesQueue == ~failed /\ crash # "flush" => pending = Len(uvWrites)

\* destroy turns the idle timer off, and no late lookup, write callback or read
\* arms it again: only the program can, with setTimeout.
DestroyedTimerOff ==
  [][destroyed /\ idle = "off" /\ idle' # "off" => setTimeout(TRUE)]_vars

\* "close" is emitted once, and only after destroy has given up the handle.
CloseOnce == closes + (IF closeTick THEN 1 ELSE 0) = IF destroyed THEN 1 ELSE 0

\* When the shutdown that done asked for is complete, all that was written
\* before done is on the wire, also what was still queued when a listener of
\* "connect" called it.
DoneFlushes == uvShut = "done" /\ ~failed => 1..doneAt \subseteq ToSet(wire)

\* Every destroyed socket emits "close", and its native handle is closed.
DestroyCompletes == destroyed ~> (closes = 1 /\ uvClosing = "closed") \/ crash # "none"

\* After write has returned false comes "drain", or an error, or the end of the
\* socket.
DrainFollows == owed ~> ~owed \/ failed \/ destroyed

\* The callback of a done that libuv accepted always comes, and destroys.
DoneDestroys == (uvShut = "pending") ~> destroyed \/ crash # "none"

\* The socket's queues and counters at every moment: data in order and complete,
\* the pending count right, done after the data, "close" once.
SocketSound ==
  TypeOK /\ WritesInOrder /\ PendingMatchesQueue /\ DoneFlushes /\ CloseOnce

\* What was ended comes to its end: done leads to destroy, destroy to "close".
SocketsEnd == DestroyCompletes /\ DoneDestroys
=============================================================================
