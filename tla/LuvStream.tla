------------------------------ MODULE LuvStream ------------------------------
(***************************************************************************)
(* One stream handle, a TCP socket, a pipe or a terminal: the functions of *)
(* luv_stream.c, luv_tcp.c, luv_pipe.c, luv_tty.c, luv_handle.c and luv.c  *)
(* that Lua calls on it or that libuv calls back, with the reference each  *)
(* takes or gives up on the userdata.                                      *)
(*                                                                         *)
(* A callback into Lua is not one step: while it runs, Lua may call any    *)
(* function on the same handle, and only then does the C function go on,   *)
(* often with luv_handle_unref.  The variable `frame' names the C callback *)
(* that is waiting for Lua to return, `inListen' the luv_listen call that  *)
(* is emitting "listening".                                                *)
(*                                                                         *)
(* What Lua does is unrestricted.  Five calls break the contract the C     *)
(* code relies on without checking it, and set the history variable        *)
(* `misused': a readStop that no readStart is paired with, a call on a     *)
(* handle whose "close" event is over, any use of a terminal whose init    *)
(* failed, letting go of a handle that was never closed, and connecting a  *)
(* pipe (luv_pipe_connect takes no reference).  The properties say what    *)
(* holds until then.                                                       *)
(***************************************************************************)
EXTENDS LuvHandle

CONSTANTS
  MaxWrites,   \* bound: write requests pending at a time
  MaxReads,    \* bound: reads started and not stopped at a time
  MaxRefs      \* bound: references at which connect, write and shutdown are not called

ASSUME BoundsAssumption ==
  MaxWrites \in Nat /\ MaxReads \in Nat /\ MaxRefs \in Nat

VARIABLES
  lhandle,     \* the luv_handle_t
  conn,        \* uv: "none", "pending" (uv_connect_t queued), "up", or "bad":
               \* the native struct was never initialised
  reading,     \* uv: luv_on_read may be called
  listening,   \* uv: luv_on_connection may be called
  writes,      \* uv: the number of uv_write_t queued
  shut,        \* uv: "no", "pending" (uv_shutdown_t queued) or "done"
  closing,     \* uv: uv_close was called
  closed,      \* Lua: self._closed
  held,        \* Lua: the program still refers to the object
  collected,   \* Lua: the collector has freed the userdata
  frame,       \* the C callback that is waiting for Lua to return
  inListen,    \* luv_listen is emitting "listening"
  readRefs,    \* history: readStart calls no readStop has undone
  misused,     \* history: the program broke the contract
  fault        \* "none", or how the process died

uv    == <<conn, reading, listening, writes, shut, closing>>
lua   == <<closed, held, collected>>
calls == <<frame, inListen>>
hist  == <<readRefs, misused>>
vars  == <<lhandle, uv, lua, calls, hist, fault>>

Frames == {"none", "connection", "read", "connect", "shutdown", "write", "close"}

\* One type invariant: the shape of every variable.
TypeOK ==
  /\ lhandle \in LHandles
  /\ conn \in {"none", "pending", "up", "bad"}
  /\ reading \in BOOLEAN
  /\ listening \in BOOLEAN
  /\ writes \in 0..MaxWrites
  /\ shut \in {"no", "pending", "done"}
  /\ closing \in BOOLEAN
  /\ closed \in BOOLEAN
  /\ held \in BOOLEAN
  /\ collected \in BOOLEAN
  /\ frame \in Frames
  /\ inListen \in BOOLEAN
  /\ readRefs \in 0..MaxReads
  /\ misused \in BOOLEAN
  /\ fault \in {"none", "unref", "get_lua", "on_close", "null", "freed", "uninit"}

\* The state of a new stream's descriptor.  luv_new_tcp and luv_new_pipe make
\* it without one; uv_tty_init gives a terminal its own or fails (not a
\* terminal), and luv_new_tty ignores its result.
luv_new_tcp == {"none"}
luv_new_pipe == {"none"}
luv_new_tty == {"up", "bad"}

\* A new stream, on the main thread or in a coroutine.
Init ==
  /\ lhandle \in {luv_handle_create(c) : c \in BOOLEAN}
  /\ conn \in luv_new_tcp \cup luv_new_pipe \cup luv_new_tty
  /\ reading = FALSE
  /\ listening = FALSE
  /\ writes = 0
  /\ shut = "no"
  /\ closing = FALSE
  /\ closed = FALSE
  /\ held = TRUE
  /\ collected = FALSE
  /\ frame = "none"
  /\ inListen = FALSE
  /\ readRefs = 0
  /\ misused = FALSE
  /\ fault = "none"

-----------------------------------------------------------------------------
\* What libuv accepts.

\* uv_write queues on a stream with a descriptor: connected, or connecting.
uv_write_accepts == conn # "none" /\ ~closing

\* uv_shutdown refuses (ENOTCONN) a stream that is not connected, is already
\* shut down or is closing; one that is still connecting it accepts on some
\* platforms.
uv_shutdown_results ==
  IF conn = "none" \/ shut # "no" \/ closing
  THEN {shut}
  ELSE {"pending"} \cup (IF conn = "up" THEN {} ELSE {shut})

-----------------------------------------------------------------------------
\* Calls from Lua.

\* Lua can name the object: it kept it, or it runs in one of its callbacks.
CanCall == fault = "none" /\ ~collected /\ (held \/ frame # "none" \/ inListen)

\* luv_checkudata yields a live native handle, and it was initialised.
Live == CanCall /\ lhandle.handle /\ conn # "bad"

\* Mutant: no reference for the request, as in luv_pipe_connect.
luv_tcp_connect_unreferenced ==
  /\ Live /\ ~closing
  /\ conn = "none" /\ ~listening
  /\ conn' = "pending"
  /\ UNCHANGED <<lhandle, reading, listening, writes, shut, closing, lua, calls, hist, fault>>

\* luv_tcp_connect: no reference when uv_tcp_connect fails.  A connect that is
\* reported to have failed may be tried again: each try keeps a reference.
luv_tcp_connect ==
  /\ Live /\ ~closing
  /\ conn = "none" /\ ~listening /\ lhandle.refCount < MaxRefs
  /\ conn' = "pending"
  /\ lhandle' = luv_handle_ref(lhandle)
  /\ UNCHANGED <<reading, listening, writes, shut, closing, lua, calls, hist, fault>>

\* luv_pipe_connect: queues the same request, but takes no reference for it.
luv_pipe_connect ==
  /\ Live /\ ~closing
  /\ conn = "none" /\ ~listening
  /\ conn' = "pending"
  /\ misused' = TRUE
  /\ UNCHANGED <<lhandle, reading, listening, writes, shut, closing, lua, calls,
                 readRefs, fault>>

\* uv_accept and uv_pipe_open: the stream gets a descriptor that is connected
\* already; no reference.
Given ==
  /\ Live /\ ~closing
  /\ conn = "none" /\ ~listening
  /\ conn' = "up"
  /\ UNCHANGED <<lhandle, reading, listening, writes, shut, closing, lua, calls, hist, fault>>

\* luv_accept, with this handle as the client; an error it raises changes nothing.
luv_accept == Given

\* luv_pipe_open: the descriptor of a standard stream or of a child's pipe.
luv_pipe_open == Given

\* luv_read_start: the result of uv_read_start is ignored (it fails on a stream
\* that is closing or has no descriptor), the reference is taken each time.
luv_read_start ==
  /\ Live
  /\ readRefs < MaxReads
  /\ reading' = (reading \/ (conn = "up" /\ ~closing))
  /\ lhandle' = luv_handle_ref(lhandle)
  /\ readRefs' = readRefs + 1
  /\ UNCHANGED <<conn, listening, writes, shut, closing, lua, calls, misused, fault>>

\* luv_read_stop: gives up a reference whether or not a read was started.
luv_read_stop ==
  /\ Live
  /\ reading' = FALSE
  /\ lhandle' = luv_handle_unref(lhandle)
  /\ fault' = IF luv_handle_unref_fails(lhandle) THEN "unref" ELSE "none"
  /\ misused' = (misused \/ readRefs = 0)
  /\ readRefs' = IF readRefs = 0 THEN 0 ELSE readRefs - 1
  /\ UNCHANGED <<conn, listening, writes, shut, closing, lua, calls>>

\* luv_read_stop_noref: stops reading and leaves the reference in place.
luv_read_stop_noref ==
  /\ Live
  /\ reading' = FALSE
  /\ UNCHANGED <<lhandle, conn, listening, writes, shut, closing, lua, calls, hist, fault>>

\* Mutant: the reference is taken only when uv_write fails.
luv_write_unreferenced ==
  /\ Live /\ ~closed
  /\ writes < MaxWrites /\ lhandle.refCount < MaxRefs
  /\ writes' = IF uv_write_accepts THEN writes + 1 ELSE writes
  /\ lhandle' = IF uv_write_accepts THEN lhandle ELSE luv_handle_ref(lhandle)
  /\ UNCHANGED <<conn, reading, listening, shut, closing, lua, calls, hist, fault>>

\* Stream:write and luv_write: refused on a closed stream; otherwise the
\* reference is taken, and kept even when uv_write queues nothing.
luv_write ==
  /\ Live /\ ~closed
  /\ writes < MaxWrites /\ lhandle.refCount < MaxRefs
  /\ writes' = IF uv_write_accepts THEN writes + 1 ELSE writes
  /\ lhandle' = luv_handle_ref(lhandle)
  /\ UNCHANGED <<conn, reading, listening, shut, closing, lua, calls, hist, fault>>

\* luv_shutdown: the reference is taken, and kept even when uv_shutdown refuses.
luv_shutdown ==
  /\ Live
  /\ lhandle.refCount < MaxRefs
  /\ shut' \in uv_shutdown_results
  /\ lhandle' = luv_handle_ref(lhandle)
  /\ UNCHANGED <<conn, reading, listening, writes, closing, lua, calls, hist, fault>>

\* luv_listen, up to the emission of "listening" (net.lua listens on a bound
\* handle, once).
luv_listen ==
  /\ Live /\ ~closing
  /\ conn = "none" /\ ~listening /\ ~inListen
  /\ listening' = TRUE
  /\ inListen' = TRUE
  /\ UNCHANGED <<lhandle, conn, reading, writes, shut, closing, lua, frame, hist, fault>>

\* luv_listen, once the "listening" listeners have returned.
luv_listen_return ==
  /\ fault = "none"
  /\ inListen
  /\ inListen' = FALSE
  /\ lhandle' = luv_handle_ref(lhandle)
  /\ UNCHANGED <<uv, lua, frame, hist, fault>>

\* Handle:close and luv_close: refused on a closed handle; uv_close ends
\* reading and listening, and the reference stands until luv_on_close.
luv_close ==
  /\ Live /\ ~closed
  /\ closed' = TRUE
  /\ closing' = TRUE
  /\ reading' = FALSE
  /\ listening' = FALSE
  /\ lhandle' = luv_handle_ref(lhandle)
  /\ UNCHANGED <<conn, writes, shut, held, collected, calls, hist, fault>>

\* Any call after the "close" event, except setHandler: luv_checkudata returns
\* the null pointer that luv_on_close left, and the function dereferences it.
CallAfterClose ==
  /\ CanCall /\ ~lhandle.handle
  /\ fault' = "null"
  /\ misused' = TRUE
  /\ UNCHANGED <<lhandle, uv, lua, calls, readRefs>>

\* Any use of a terminal whose init failed reads uninitialised memory.
UseUninitialised ==
  /\ CanCall /\ conn = "bad"
  /\ fault' = "uninit"
  /\ misused' = TRUE
  /\ UNCHANGED <<lhandle, uv, lua, calls, readRefs>>

\* The program lets go of the object.
Drop ==
  /\ fault = "none"
  /\ held
  /\ held' = FALSE
  /\ misused' = (misused \/ ~closed)
  /\ UNCHANGED <<lhandle, uv, closed, collected, calls, readRefs, fault>>

\* luv_handle_gc: the collector frees a userdata that neither the program nor
\* the registry refers to; a native handle that is still there is closed.
luv_handle_gc ==
  /\ fault = "none"
  /\ ~held /\ ~collected /\ ~lhandle.ref
  /\ frame = "none" /\ ~inListen
  /\ collected' = TRUE
  /\ closing' = (closing \/ lhandle.handle)
  /\ reading' = (reading /\ ~lhandle.handle)
  /\ listening' = (listening /\ ~lhandle.handle)
  /\ UNCHANGED <<lhandle, conn, writes, shut, closed, held, calls, hist, fault>>

-----------------------------------------------------------------------------
\* Callbacks from libuv.

\* The loop may call back: nothing else is running.
LoopIdle == fault = "none" /\ frame = "none" /\ ~inListen /\ lhandle.handle /\ conn # "bad"

\* A callback enters Lua: luv_handle_get_lua, then the event or the callback.
\* On a userdata that was collected, handle->data points to freed memory.
Enter(f) ==
  /\ frame' = IF collected \/ luv_handle_get_lua_fails(lhandle) THEN "none" ELSE f
  /\ fault' = IF collected THEN "freed"
              ELSE IF luv_handle_get_lua_fails(lhandle) THEN "get_lua" ELSE "none"
  /\ UNCHANGED <<lhandle, inListen, lua, hist>>

luv_on_connection ==
  /\ LoopIdle /\ listening /\ ~closing
  /\ Enter("connection")
  /\ UNCHANGED uv

\* luv_on_read: data leaves the stream reading, end of file or an error stops it.
luv_on_read ==
  /\ LoopIdle /\ reading /\ ~closing
  /\ reading' \in BOOLEAN
  /\ Enter("read")
  /\ UNCHANGED <<conn, listening, writes, shut, closing>>

\* luv_after_connect: with success, failure or, on a closing handle, ECANCELED.
luv_after_connect ==
  /\ LoopIdle /\ conn = "pending"
  /\ conn' \in IF closing THEN {"none"} ELSE {"none", "up"}
  /\ Enter("connect")
  /\ UNCHANGED <<reading, listening, writes, shut, closing>>

\* luv_after_shutdown: after the writes queued before it.
luv_after_shutdown ==
  /\ LoopIdle /\ shut = "pending"
  /\ writes = 0 /\ conn # "pending"
  /\ shut' = "done"
  /\ Enter("shutdown")
  /\ UNCHANGED <<conn, reading, listening, writes, closing>>

luv_after_write ==
  /\ LoopIdle /\ writes > 0
  /\ conn # "pending"
  /\ writes' = writes - 1
  /\ Enter("write")
  /\ UNCHANGED <<conn, reading, listening, shut, closing>>

\* luv_on_close, up to the emission of "close": libuv has completed every
\* request of the handle before.
luv_on_close ==
  /\ LoopIdle /\ closing
  /\ conn # "pending" /\ writes = 0 /\ shut # "pending"
  /\ frame' = IF collected THEN "none" ELSE "close"
  /\ fault' = IF collected THEN "freed" ELSE "none"
  /\ UNCHANGED <<lhandle, uv, inListen, lua, hist>>

\* Mutant: a read gives up its reference each time it calls back.
ReturnPlain_unref ==
  /\ fault = "none" /\ ~inListen
  /\ frame \in {"connection", "read", "connect"}
  /\ frame' = "none"
  /\ lhandle' = IF frame = "read" THEN luv_handle_unref(lhandle) ELSE lhandle
  /\ UNCHANGED <<uv, lua, inListen, hist, fault>>

\* Lua returns to luv_on_connection, luv_on_read or luv_after_connect.
ReturnPlain ==
  /\ fault = "none" /\ ~inListen
  /\ frame \in {"connection", "read", "connect"}
  /\ frame' = "none"
  /\ UNCHANGED <<lhandle, uv, lua, inListen, hist, fault>>

\* Lua returns to luv_after_shutdown or luv_after_write.
ReturnRequest ==
  /\ fault = "none" /\ ~inListen
  /\ frame \in {"shutdown", "write"}
  /\ frame' = "none"
  /\ lhandle' = luv_handle_unref(lhandle)
  /\ fault' = IF luv_handle_unref_fails(lhandle) THEN "unref" ELSE "none"
  /\ UNCHANGED <<uv, lua, inListen, hist>>

\* Lua returns to luv_on_close, which frees the native handle.
ReturnClose ==
  /\ fault = "none" /\ ~inListen
  /\ frame = "close"
  /\ frame' = "none"
  /\ lhandle' = luv_on_close_release(lhandle)
  /\ fault' = IF luv_on_close_fails(lhandle) THEN "on_close" ELSE "none"
  /\ UNCHANGED <<uv, lua, inListen, hist>>

-----------------------------------------------------------------------------
FromLua ==
  \/ luv_tcp_connect \/ luv_pipe_connect \/ luv_accept \/ luv_pipe_open
  \/ luv_read_start \/ luv_read_stop \/ luv_read_stop_noref
  \/ luv_write \/ luv_shutdown \/ luv_listen \/ luv_close
  \/ CallAfterClose \/ UseUninitialised \/ Drop \/ luv_handle_gc

FromLoop ==
  \/ luv_on_connection \/ luv_on_read \/ luv_after_connect
  \/ luv_after_shutdown \/ luv_after_write \/ luv_on_close

Return == luv_listen_return \/ ReturnPlain \/ ReturnRequest \/ ReturnClose

Next == FromLua \/ FromLoop \/ Return

\* Lua callbacks return, and the loop completes requests and closes: libuv
\* polls every descriptor and runs its closing queue on each iteration.
Fairness ==
  /\ WF_vars(Return)
  /\ WF_vars(luv_after_connect) /\ WF_vars(luv_after_shutdown)
  /\ WF_vars(luv_after_write) /\ WF_vars(luv_on_close)

Spec == Init /\ [][Next]_vars

FairSpec == Spec /\ Fairness

-----------------------------------------------------------------------------
One(b) == IF b THEN 1 ELSE 0

\* The calls that luv_handle_unref or luv_on_close has still to answer.
Outstanding ==
  readRefs + writes
    + One(conn = "pending") + One(shut = "pending")
    + One(listening /\ ~inListen) + One(closing)
    + One(frame \in {"shutdown", "write"})

\* libuv may still call back into this handle.
MayCallBack ==
  /\ lhandle.handle
  /\ \/ reading \/ writes > 0 \/ conn = "pending" \/ shut = "pending" \/ closing
     \/ listening /\ ~inListen

\* The asserts of luv_handle_unref, luv_handle_get_lua and luv_on_close never
\* fail, no call meets a null handle and no callback meets a freed userdata,
\* as long as the program keeps the contract, whatever it calls from inside
\* which callback.
NoFaultUnlessMisused == ~misused => fault = "none"

\* luv_handle_ref "needs to be called when an async function is started" and
\* luv_handle_unref "when an async callback fires": at every moment, in the
\* middle of callbacks too, there is a reference for each read, request,
\* listener and close in progress.
RefsCoverOutstanding ==
  ~misused /\ lhandle.handle => lhandle.refCount >= Outstanding

\* A handle that libuv may still call back is anchored in the registry, so the
\* collector cannot free the userdata that handle->data points to.
AnchoredWhileActive ==
  ~misused /\ MayCallBack => lhandle.ref /\ ~collected

\* The collector frees the userdata of a closed handle only after luv_on_close
\* has freed the native handle: luv_handle_gc never finds one left.
CollectedOnlyAfterClose ==
  ~misused /\ collected => ~lhandle.handle

\* Every close ends: the native handle is freed and all references are gone,
\* whatever requests were pending and whatever their callbacks do.
CloseCompletes ==
  closing /\ ~misused ~> misused \/ (~lhandle.handle /\ lhandle.refCount = 0)
=============================================================================
