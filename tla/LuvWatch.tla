------------------------------- MODULE LuvWatch -------------------------------
(***************************************************************************)
(* One handle that is not a stream: a UDP socket, a timer, a child         *)
(* process, a signal watcher or a file watcher (luv_udp.c, luv_timer.c,    *)
(* luv_process.c, luv_signal.c, luv_fs_watcher.c).                         *)
(* They share the lifetime of LuvHandle but not its discipline: a timer    *)
(* pairs start with stop, a signal watcher never gives its references up,  *)
(* a process holds one until it exits, a file watcher one from birth.      *)
(*                                                                         *)
(* `frame' is the C callback that waits for Lua to return, as in           *)
(* LuvStream.  Calls that the C code does not check and cannot survive set *)
(* `misused': a stop without its start, `again' on a timer whose reference *)
(* is gone, anything that starts a closing handle, any call after the      *)
(* "close" event, any use of a file watcher whose init failed (the result  *)
(* is ignored and the native struct stays uninitialised), and letting go   *)
(* of a handle that was never closed.                                      *)
(***************************************************************************)
EXTENDS LuvHandle

CONSTANTS
  Kinds,      \* the handle types to look at
  MaxStarts,  \* bound: starts that no stop has undone
  MaxSends,   \* bound: datagrams queued at a time
  MaxStrays   \* bound: datagrams that uv_udp_send refuses

AllKinds == {"udp", "timer", "process", "signal", "fs_watcher"}

ASSUME WatchAssumption ==
  /\ Kinds \subseteq AllKinds
  /\ MaxStarts \in Nat /\ MaxSends \in Nat /\ MaxStrays \in Nat

VARIABLES
  kind,      \* the type of the handle
  lhandle,   \* the luv_handle_t
  ready,     \* uv: the native struct was initialised
  active,    \* uv: receiving, armed, running or watching
  armed,     \* uv, timers: timer_cb is set
  repeats,   \* uv, timers: the repeat value is not zero
  sends,     \* uv, udp: the number of uv_udp_send_t queued
  closing,   \* uv: uv_close was called
  closed,    \* Lua: self._closed
  held,      \* Lua: the program refers to the object
  collected, \* Lua: the collector has freed the userdata
  frame,     \* the C callback waiting for Lua
  starts,    \* history: references taken by starts and not given up
  strays,    \* history: references of sends that were refused
  misused,   \* history: the program made a call the C code cannot survive
  fault      \* "none", or how the process died

uv   == <<ready, active, armed, repeats, sends, closing>>
lua  == <<closed, held, collected>>
hist == <<starts, strays, misused>>
vars == <<kind, lhandle, uv, lua, frame, hist, fault>>

\* The shape of every variable.
TypeOK ==
  /\ kind \in Kinds
  /\ lhandle \in LHandles
  /\ ready \in BOOLEAN /\ active \in BOOLEAN /\ armed \in BOOLEAN
  /\ repeats \in BOOLEAN /\ closing \in BOOLEAN
  /\ sends \in 0..MaxSends
  /\ closed \in BOOLEAN /\ held \in BOOLEAN /\ collected \in BOOLEAN
  /\ frame \in {"none", "event", "send", "close"}
  /\ starts \in 0..(MaxStarts + 1) /\ strays \in 0..MaxStrays
  /\ misused \in BOOLEAN
  /\ fault \in {"none", "unref", "get_lua", "on_close", "null", "freed", "uninit"}

-----------------------------------------------------------------------------
\* Creation.  A new handle: its struct, whether it runs, whether its native
\* part was initialised, and whether the caller gets to see the object.
New(lh, run, ok, seen) ==
  [lhandle |-> lh, active |-> run, ready |-> ok, held |-> seen]

luv_new_udp(c) == {New(luv_handle_create(c), FALSE, TRUE, TRUE)}
luv_new_timer(c) == {New(luv_handle_create(c), FALSE, TRUE, TRUE)}
luv_new_signal(c) == {New(luv_handle_create(c), FALSE, TRUE, TRUE)}

\* uv_fs_event_init may fail (no such file); its result is ignored and the
\* reference is taken all the same.
luv_new_fs_watcher(c) ==
  {New(luv_handle_ref(luv_handle_create(c)), ok, ok, TRUE) : ok \in BOOLEAN}

\* luv_spawn takes the reference first; when uv_spawn fails, an error is raised
\* and the caller never sees the userdata.
luv_spawn(c) ==
  {New(luv_handle_ref(luv_handle_create(c)), ok, TRUE, ok) : ok \in BOOLEAN}

Created(k, c) ==
  CASE k = "udp"        -> luv_new_udp(c)
    [] k = "timer"      -> luv_new_timer(c)
    [] k = "process"    -> luv_spawn(c)
    [] k = "signal"     -> luv_new_signal(c)
    [] k = "fs_watcher" -> luv_new_fs_watcher(c)

Init ==
  /\ kind \in Kinds
  /\ \E c \in BOOLEAN : \E new \in Created(kind, c) :
       /\ lhandle = new.lhandle
       /\ active = new.active
       /\ ready = new.ready
       /\ held = new.held
       /\ starts = new.lhandle.refCount
  /\ armed = FALSE /\ repeats = FALSE /\ sends = 0 /\ closing = FALSE
  /\ closed = FALSE /\ collected = FALSE
  /\ frame = "none"
  /\ strays = 0 /\ misused = FALSE /\ fault = "none"

-----------------------------------------------------------------------------
\* Calls from Lua.

\* Lua can name the object, and luv_checkudata yields a live native handle.
CanCall == fault = "none" /\ ~collected /\ (held \/ frame # "none")
Live == CanCall /\ lhandle.handle /\ ready

\* A start: register the handler, let libuv go, take a reference each time.
Start(k) ==
  /\ Live /\ kind = k
  /\ starts < MaxStarts
  /\ active' = TRUE
  /\ lhandle' = luv_handle_ref(lhandle)
  /\ starts' = starts + 1
  /\ misused' = (misused \/ closing)
  /\ UNCHANGED <<kind, ready, sends, closing, lua, frame, strays, fault>>

\* A stop that gives up a reference whether or not something was started.
StopUnref(k) ==
  /\ Live /\ kind = k
  /\ active' = FALSE
  /\ lhandle' = luv_handle_unref(lhandle)
  /\ fault' = IF luv_handle_unref_fails(lhandle) THEN "unref" ELSE "none"
  /\ misused' = (misused \/ starts = 0)
  /\ starts' = IF starts = 0 THEN 0 ELSE starts - 1
  /\ UNCHANGED <<kind, ready, armed, repeats, sends, closing, lua, frame, strays>>

\* uv_udp_recv_start; the answer EALREADY counts as success.
luv_udp_recv_start == Start("udp") /\ UNCHANGED <<armed, repeats>>

luv_udp_recv_stop == StopUnref("udp")

\* Mutant: no reference for a datagram that was queued.
luv_udp__send_unreferenced ==
  /\ Live /\ kind = "udp"
  /\ sends < MaxSends
  /\ sends' = sends + 1
  /\ misused' = (misused \/ closing)
  /\ UNCHANGED <<kind, lhandle, ready, active, armed, repeats, closing, lua, frame,
                 starts, strays, fault>>

\* luv_udp__send: the callback and a reference are stored first; when
\* uv_udp_send refuses, the error leaves both behind.
luv_udp__send ==
  /\ Live /\ kind = "udp"
  /\ lhandle' = luv_handle_ref(lhandle)
  /\ misused' = (misused \/ closing)
  /\ \/ sends < MaxSends /\ sends' = sends + 1 /\ UNCHANGED strays
     \/ strays < MaxStrays /\ strays' = strays + 1 /\ UNCHANGED sends
  /\ UNCHANGED <<kind, ready, active, armed, repeats, closing, lua, frame, starts, fault>>

\* luv_timer_start, also on a timer that is running.
luv_timer_start ==
  /\ Start("timer")
  /\ armed' = TRUE
  /\ repeats' \in BOOLEAN

luv_timer_stop == StopUnref("timer")

\* luv_timer_again: uv_timer_again runs a repeating timer again; no reference
\* is taken for it.
luv_timer_again ==
  /\ Live /\ kind = "timer"
  /\ armed /\ repeats
  /\ active' = TRUE
  /\ misused' = (misused \/ closing \/ lhandle.refCount = 0)
  /\ UNCHANGED <<kind, lhandle, ready, armed, repeats, sends, closing, lua, frame,
                 starts, strays, fault>>

luv_timer_set_repeat ==
  /\ Live /\ kind = "timer"
  /\ repeats' \in BOOLEAN
  /\ UNCHANGED <<kind, lhandle, ready, active, armed, sends, closing, lua, frame, hist, fault>>

luv_signal_start == Start("signal") /\ UNCHANGED <<armed, repeats>>

\* luv_signal_stop: the watcher stops, its references stay.
luv_signal_stop ==
  /\ Live /\ kind = "signal"
  /\ active' = FALSE
  /\ UNCHANGED <<kind, lhandle, ready, armed, repeats, sends, closing, lua, frame, hist, fault>>

\* Any call after the "close" event: luv_checkudata returns the null pointer
\* that luv_on_close left.  luv_process_kill alone looks before it uses it.
CallAfterClose ==
  /\ CanCall /\ ~lhandle.handle
  /\ fault' = "null"
  /\ misused' = TRUE
  /\ UNCHANGED <<kind, lhandle, uv, lua, frame, starts, strays>>

\* uv_process_kill reaches the process only while it runs; on a closed handle
\* the call returns at once, on one that has exited it raises an error.
luv_process_kill_signals == kind = "process" /\ lhandle.handle /\ active

\* Any use of a handle whose init failed, uv_is_closing in luv_close included,
\* reads uninitialised memory.
UseUninitialised ==
  /\ CanCall /\ ~ready
  /\ fault' = "uninit"
  /\ misused' = TRUE
  /\ UNCHANGED <<kind, lhandle, uv, lua, frame, starts, strays>>

\* Handle:close and luv_close.  uv_close ends what the handle was doing: a
\* process that is still running will not be reported any more.
luv_close ==
  /\ Live /\ ~closed
  /\ closed' = TRUE /\ closing' = TRUE /\ active' = FALSE
  /\ lhandle' = luv_handle_ref(lhandle)
  /\ UNCHANGED <<kind, ready, armed, repeats, sends, held, collected, frame, hist, fault>>

\* The program lets go of the object.
Drop ==
  /\ fault = "none" /\ held
  /\ held' = FALSE
  /\ misused' = (misused \/ ~closed)
  /\ UNCHANGED <<kind, lhandle, uv, closed, collected, frame, starts, strays, fault>>

\* luv_handle_gc: closes a native handle that is still there.
luv_handle_gc ==
  /\ fault = "none"
  /\ ~held /\ ~collected /\ ~lhandle.ref /\ frame = "none"
  /\ collected' = TRUE
  /\ closing' = (closing \/ lhandle.handle)
  /\ active' = (active /\ ~lhandle.handle)
  /\ UNCHANGED <<kind, lhandle, ready, armed, repeats, sends, closed, held, frame, hist, fault>>

-----------------------------------------------------------------------------
\* Callbacks from libuv.

LoopIdle == fault = "none" /\ frame = "none" /\ lhandle.handle /\ ready

\* luv_handle_get_lua, then the event.
Enter(f) ==
  /\ frame' = IF collected \/ luv_handle_get_lua_fails(lhandle) THEN "none" ELSE f
  /\ fault' = IF collected THEN "freed"
              ELSE IF luv_handle_get_lua_fails(lhandle) THEN "get_lua" ELSE "none"
  /\ UNCHANGED <<kind, lhandle, ready, armed, repeats, closing, lua, hist>>

\* Data, nothing (EAGAIN) or an error: receiving goes on.
luv_on_udp_recv == LoopIdle /\ kind = "udp" /\ active /\ Enter("event") /\ UNCHANGED <<active, sends>>

\* A queued datagram was sent, failed, or was cancelled by the close.
luv_on_udp_send ==
  /\ LoopIdle /\ sends > 0
  /\ sends' = sends - 1
  /\ Enter("send")
  /\ UNCHANGED active

\* A timer that does not repeat is stopped before its callback.
luv_on_timer ==
  /\ LoopIdle /\ kind = "timer" /\ active
  /\ active' = repeats
  /\ Enter("event")
  /\ UNCHANGED sends

luv_on_signal == LoopIdle /\ kind = "signal" /\ active /\ Enter("event") /\ UNCHANGED <<active, sends>>

luv_on_fs_event == LoopIdle /\ kind = "fs_watcher" /\ active /\ Enter("event") /\ UNCHANGED <<active, sends>>

\* The child has ended, by itself or by a signal.
luv_process_on_exit ==
  /\ LoopIdle /\ luv_process_kill_signals
  /\ active' = FALSE
  /\ Enter("event")
  /\ UNCHANGED sends

\* Mutant: the close waits until every other reference is given up.
luv_on_close_waits ==
  /\ LoopIdle /\ closing /\ sends = 0 /\ lhandle.refCount = 1
  /\ frame' = IF collected THEN "none" ELSE "close"
  /\ fault' = IF collected THEN "freed" ELSE "none"
  /\ UNCHANGED <<kind, lhandle, uv, lua, hist>>

\* libuv has completed every request of the handle before.
luv_on_close ==
  /\ LoopIdle /\ closing /\ sends = 0
  /\ frame' = IF collected THEN "none" ELSE "close"
  /\ fault' = IF collected THEN "freed" ELSE "none"
  /\ UNCHANGED <<kind, lhandle, uv, lua, hist>>

\* Mutant: the exit callback keeps its reference.
ReturnEvent_keep ==
  /\ fault = "none" /\ frame = "event"
  /\ frame' = "none"
  /\ starts' = IF kind = "process" THEN 0 ELSE starts
  /\ UNCHANGED <<kind, lhandle, uv, lua, strays, misused, fault>>

\* Lua returns to the event callback; the one of a process gives up the
\* reference that luv_spawn took.
ReturnEvent ==
  /\ fault = "none" /\ frame = "event"
  /\ frame' = "none"
  /\ IF kind = "process"
     THEN /\ lhandle' = luv_handle_unref(lhandle)
          /\ fault' = IF luv_handle_unref_fails(lhandle) THEN "unref" ELSE "none"
          /\ starts' = 0
     ELSE UNCHANGED <<lhandle, fault, starts>>
  /\ UNCHANGED <<kind, uv, lua, strays, misused>>

\* Lua returns to luv_on_udp_send.
ReturnSend ==
  /\ fault = "none" /\ frame = "send"
  /\ frame' = "none"
  /\ lhandle' = luv_handle_unref(lhandle)
  /\ fault' = IF luv_handle_unref_fails(lhandle) THEN "unref" ELSE "none"
  /\ UNCHANGED <<kind, uv, lua, hist>>

\* Lua returns to luv_on_close.
ReturnClose ==
  /\ fault = "none" /\ frame = "close"
  /\ frame' = "none"
  /\ lhandle' = luv_on_close_release(lhandle)
  /\ fault' = IF luv_on_close_fails(lhandle) THEN "on_close" ELSE "none"
  /\ UNCHANGED <<kind, uv, lua, hist>>

-----------------------------------------------------------------------------
FromLua ==
  \/ luv_udp_recv_start \/ luv_udp_recv_stop \/ luv_udp__send
  \/ luv_timer_start \/ luv_timer_stop \/ luv_timer_again \/ luv_timer_set_repeat
  \/ luv_signal_start \/ luv_signal_stop
  \/ luv_close \/ CallAfterClose \/ UseUninitialised \/ Drop

FromLoop ==
  \/ luv_on_udp_recv \/ luv_on_udp_send \/ luv_on_timer \/ luv_on_signal
  \/ luv_on_fs_event \/ luv_process_on_exit \/ luv_on_close

Return == ReturnEvent \/ ReturnSend \/ ReturnClose

Next == FromLua \/ FromLoop \/ Return \/ luv_handle_gc

Spec == Init /\ [][Next]_vars

\* Lua callbacks return; the loop completes sends and runs its closing queue on
\* every iteration (events that keep coming cannot hold it up: they are taken
\* in turn); an unreachable userdata is collected some time.
Fairness ==
  /\ WF_vars(Return)
  /\ SF_vars(luv_on_udp_send) /\ SF_vars(luv_on_close)
  /\ WF_vars(luv_handle_gc)

FairSpec == Spec /\ Fairness

-----------------------------------------------------------------------------
One(b) == IF b THEN 1 ELSE 0

\* The asserts of utils.c and luv_handle.c hold for every handle type, whatever
\* the program calls from inside which callback, as long as it makes none of
\* the calls that set misused.
NoFaultUnlessMisused == ~misused => fault = "none"

\* Every reference is accounted for: one per start not undone, per datagram
\* queued or being reported, for the close, and for each refused datagram.
RefsAccounted ==
  ~misused /\ lhandle.handle =>
    lhandle.refCount = starts + strays + sends + One(frame = "send") + One(closing)

\* While libuv may call the handle back, the registry holds its userdata.
AnchoredWhileActive ==
  ~misused /\ lhandle.handle /\ ready /\ (active \/ sends > 0 \/ closing)
    => lhandle.ref /\ ~collected

\* A handle that was closed and let go of is freed in the end, with its
\* userdata: stray references of refused sends and unpaired starts included.
ClosedIsCollected ==
  closed /\ ~held /\ ~misused ~> misused \/ (collected /\ ~lhandle.handle)

\* The references of a handle are exactly what its calls and callbacks account
\* for, and there is one, and with it the anchor, while libuv may call back.
RefsSound == TypeOK /\ RefsAccounted /\ AnchoredWhileActive
=============================================================================
