------------------------------ MODULE LuvProofs ------------------------------
(***************************************************************************)
(* Proofs about the bindings in C: the handles that are not streams, the   *)
(* registry, and the TLS contexts.  (LuvStreamProofs has the streams.)     *)
(*                                                                         *)
(* First the functions of LuvHandle: what they do to the struct, for every *)
(* value of it.                                                            *)
(*                                                                         *)
(* Then LuvWatch, whose actions cite these lemmas instead of expanding the *)
(* records: its lifetime properties, for every set of handle types and     *)
(* every bound.                                                            *)
(*                                                                         *)
(* Then LuvRegistry.  Its properties speak of owners and of a free list    *)
(* that runs through the slots; what makes them inductive is that every    *)
(* reference somebody still holds names a slot of that owner (RequestsOwn  *)
(* to ConnsOwn), so that luaL_unref is only ever called for a slot that is *)
(* not free, and that there is a sequence of distinct slots which is the   *)
(* free list (FreeList).  RefSound, UnrefSound and LeakSound say what the  *)
(* three registry operations do to that sequence and to the owners; every  *)
(* call is then a composition of them.                                     *)
(*                                                                         *)
(* Then SecureContext: who owns which certificate store, and what a        *)
(* context trusts, for any number of contexts, certificates, stores and    *)
(* connections.                                                            *)
(***************************************************************************)
EXTENDS LuvWatch, LuvRegistry, SecureContext, SequenceTheorems, FiniteSetTheorems, TLAPS

\* luv_handle_create: no reference, no anchor, a live native handle.
LEMMA CreateFields ==
  ASSUME NEW c \in BOOLEAN
  PROVE  /\ luv_handle_create(c) \in LHandles
         /\ luv_handle_create(c).refCount = 0
         /\ ~luv_handle_create(c).ref
         /\ luv_handle_create(c).handle
BY DEF luv_handle_create, LHandles

\* luv_handle_ref adds one reference and anchors the userdata.
LEMMA RefFields ==
  ASSUME NEW h \in LHandles
  PROVE  /\ luv_handle_ref(h) \in LHandles
         /\ luv_handle_ref(h).refCount = h.refCount + 1
         /\ luv_handle_ref(h).ref <=> h.ref \/ h.refCount = 0
         /\ luv_handle_ref(h).handle = h.handle
<1>1. luv_handle_ref(h) \in LHandles
  BY DEF LHandles, luv_handle_ref
<1>2. luv_handle_ref(h).refCount = h.refCount + 1
  BY DEF LHandles, luv_handle_ref
<1>3. luv_handle_ref(h).ref <=> h.ref \/ h.refCount = 0
  BY DEF LHandles, luv_handle_ref
<1>4. luv_handle_ref(h).handle = h.handle
  BY DEF LHandles, luv_handle_ref
<1> QED BY <1>1, <1>2, <1>3, <1>4

\* luv_handle_unref removes one and lets go of the anchor with the last.
LEMMA UnrefFields ==
  ASSUME NEW h \in LHandles
  PROVE  /\ luv_handle_unref(h) \in LHandles
         /\ luv_handle_unref(h).refCount = h.refCount - 1
         /\ luv_handle_unref(h).ref <=> h.ref /\ h.refCount # 1
         /\ luv_handle_unref(h).handle = h.handle
<1>1. luv_handle_unref(h) \in LHandles
  BY DEF LHandles, luv_handle_unref
<1>2. luv_handle_unref(h).refCount = h.refCount - 1
  BY DEF LHandles, luv_handle_unref
<1>3. luv_handle_unref(h).ref <=> h.ref /\ h.refCount # 1
  BY DEF LHandles, luv_handle_unref
<1>4. luv_handle_unref(h).handle = h.handle
  BY DEF LHandles, luv_handle_unref
<1> QED BY <1>1, <1>2, <1>3, <1>4

\* Whatever references are left, luv_on_close ends with none and without the
\* native handle, and none of its asserts fails, if there was one to give up.
LEMMA OnCloseFields ==
  ASSUME NEW h \in LHandles, h.refCount >= 0, h.ref <=> h.refCount > 0
  PROVE  /\ luv_on_close_release(h) \in LHandles
         /\ ~luv_on_close_release(h).handle
         /\ h.refCount > 0 => /\ luv_on_close_release(h).refCount = 0
                              /\ ~luv_on_close_release(h).ref
                              /\ ~luv_on_close_fails(h)
         /\ h.refCount = 0 => luv_on_close_fails(h)
<1> DEFINE once == luv_handle_unref(h)
           rest == luv_handle_unref([once EXCEPT !.refCount = 1])
<1>1. /\ once \in LHandles
      /\ once.refCount = h.refCount - 1
      /\ once.ref <=> h.ref /\ h.refCount # 1
  BY UnrefFields
<1>2. rest \in LHandles /\ rest.refCount = 0 /\ ~rest.ref
  <2> DEFINE left == [once EXCEPT !.refCount = 1]
  <2>1. left \in LHandles /\ left.refCount = 1
    BY <1>1 DEF LHandles
  <2>2. rest = luv_handle_unref(left)
    OBVIOUS
  <2> HIDE DEF left, rest
  <2> QED BY <2>1, <2>2, UnrefFields
<1> HIDE DEF once, rest
<1>3. luv_on_close_release(h) = [(IF once.ref THEN rest ELSE once) EXCEPT !.handle = FALSE]
  BY DEF luv_on_close_release, once, rest
<1>5. CASE once.ref
  <2>1. /\ luv_on_close_release(h) \in LHandles
        /\ ~luv_on_close_release(h).handle
        /\ luv_on_close_release(h).refCount = 0
        /\ ~luv_on_close_release(h).ref
    BY <1>2, <1>3, <1>5 DEF LHandles
  <2>2. h.refCount > 1
    BY <1>1, <1>5 DEF LHandles
  <2>3. luv_on_close_fails(h) <=> once.refCount = 0
    BY <1>1, <1>5, <2>1, <2>2 DEF luv_on_close_fails, luv_handle_unref_fails, once, LHandles
  <2> QED BY <1>1, <2>1, <2>2, <2>3 DEF LHandles
<1>6. CASE ~once.ref
  <2>1. /\ luv_on_close_release(h) \in LHandles
        /\ ~luv_on_close_release(h).handle
        /\ luv_on_close_release(h).refCount = once.refCount
        /\ ~luv_on_close_release(h).ref
    BY <1>1, <1>3, <1>6 DEF LHandles
  <2>2. luv_on_close_fails(h) <=> h.refCount - 1 < 0
    BY <1>1, <1>6, <2>1 DEF luv_on_close_fails, luv_handle_unref_fails, once
  <2>3. h.refCount \in Int /\ h.refCount <= 1
    BY <1>1, <1>6 DEF LHandles
  <2> QED BY <1>1, <2>1, <2>2, <2>3
<1> QED BY <1>5, <1>6

-----------------------------------------------------------------------------
\* The registry holds the userdata exactly while there are references.
AnchorMatches ==
  fault = "none" => /\ lhandle.refCount >= 0
                    /\ lhandle.ref <=> lhandle.refCount > 0

\* Which C callbacks can be waiting for Lua, for a handle of which type.
FramesFit ==
  /\ frame # "none" => lhandle.handle
  /\ frame = "close" => closing
  /\ kind # "udp" => sends = 0 /\ strays = 0 /\ frame # "send"
  /\ kind = "process" /\ frame = "event" => starts = 1 /\ ~active

\* Without a reference of its own a handle does not run.  A process has one
\* reference at most, the one of luv_spawn.
ActiveIsStarted ==
  /\ ~misused /\ active => starts > 0
  /\ kind = "process" => starts \in 0..1 /\ (active => starts = 1)

\* The only handle nobody refers to that was not closed is the one of a spawn
\* that failed: its reference is never given up and nothing calls it back.
UnheldIsClosed ==
  /\ closed => closing
  /\ ~misused /\ closing => closed
  /\ ~misused /\ ~held /\ ~closed =>
       kind = "process" /\ starts = 1 /\ ~active /\ frame = "none" /\ lhandle.handle
  /\ ~misused /\ collected => ~lhandle.handle

\* The inductive invariant.
WatchInv ==
  /\ TypeOK
  /\ AnchorMatches
  /\ FramesFit
  /\ ActiveIsStarted
  /\ UnheldIsClosed
  /\ NoFaultUnlessMisused
  /\ RefsAccounted

-----------------------------------------------------------------------------
\* What the constructor of each type returns: a live handle with one reference
\* or none.  A process or a watcher starts with one, and only they may run from
\* the start; only a failed spawn leaves an object that nobody sees.
LEMMA CreatedFields ==
  ASSUME NEW k \in AllKinds, NEW c \in BOOLEAN, NEW new \in Created(k, c)
  PROVE  /\ new.lhandle \in LHandles /\ new.lhandle.handle
         /\ new.lhandle.refCount = IF k \in {"process", "fs_watcher"} THEN 1 ELSE 0
         /\ new.lhandle.ref <=> new.lhandle.refCount > 0
         /\ new.active \in BOOLEAN /\ new.ready \in BOOLEAN /\ new.held \in BOOLEAN
         /\ new.active => new.lhandle.refCount = 1
         /\ ~new.held => k = "process" /\ ~new.active
<1> DEFINE plain == luv_handle_create(c)
           taken == luv_handle_ref(plain)
<1>1. plain \in LHandles /\ plain.refCount = 0 /\ ~plain.ref /\ plain.handle
  BY CreateFields
<1>2. taken \in LHandles /\ taken.refCount = 1 /\ taken.ref /\ taken.handle
  BY <1>1, RefFields
<1> HIDE DEF plain, taken
<1>3. CASE k \in {"udp", "timer", "signal"}
  <2>1. new = New(plain, FALSE, TRUE, TRUE)
    BY <1>3 DEF Created, luv_new_udp, luv_new_timer, luv_new_signal, plain
  <2> QED BY <1>1, <1>3, <2>1 DEF New
<1>5. CASE k = "fs_watcher"
  <2>1. PICK ok \in BOOLEAN : new = New(taken, ok, ok, TRUE)
    BY <1>5 DEF Created, luv_new_fs_watcher, plain, taken
  <2> QED BY <1>2, <1>5, <2>1 DEF New
<1>6. CASE k = "process"
  <2>1. PICK ok \in BOOLEAN : new = New(taken, ok, TRUE, ok)
    BY <1>6 DEF Created, luv_spawn, plain, taken
  <2> QED BY <1>2, <1>6, <2>1 DEF New
<1> QED BY <1>3, <1>5, <1>6 DEF AllKinds

\* A new handle of any type satisfies the invariant.
LEMMA WatchInitInv == Init => WatchInv
<1> SUFFICES ASSUME Init PROVE WatchInv
  OBVIOUS
<1>0. kind \in AllKinds
  BY WatchAssumption DEF Init
<1>c. PICK c \in BOOLEAN : \E new \in Created(kind, c) :
        /\ lhandle = new.lhandle /\ active = new.active /\ ready = new.ready
        /\ held = new.held /\ starts = new.lhandle.refCount
  BY DEF Init
<1>1. PICK new \in Created(kind, c) :
        /\ lhandle = new.lhandle /\ active = new.active /\ ready = new.ready
        /\ held = new.held /\ starts = new.lhandle.refCount
  BY <1>c
<1>2. /\ lhandle \in LHandles /\ lhandle.handle
      /\ lhandle.refCount = IF kind \in {"process", "fs_watcher"} THEN 1 ELSE 0
      /\ lhandle.ref <=> lhandle.refCount > 0
      /\ active => lhandle.refCount = 1
      /\ ~held => kind = "process" /\ ~active
  BY <1>0, <1>1, CreatedFields
<1>3. active \in BOOLEAN /\ ready \in BOOLEAN /\ held \in BOOLEAN
  BY <1>0, <1>1, CreatedFields
<1>4. starts = lhandle.refCount /\ starts \in 0..1
  BY <1>1, <1>2
<1>5. TypeOK
  <2>1. starts \in 0..(MaxStarts + 1) /\ sends \in 0..MaxSends /\ strays \in 0..MaxStrays
    BY <1>4, WatchAssumption DEF Init
  <2> QED BY <1>2, <1>3, <2>1, Zenon DEF Init, TypeOK
<1>6. AnchorMatches /\ FramesFit /\ ActiveIsStarted
  BY <1>2, <1>4 DEF Init, AnchorMatches, FramesFit, ActiveIsStarted
<1>7. UnheldIsClosed /\ NoFaultUnlessMisused /\ RefsAccounted
  BY <1>2, <1>4 DEF Init, UnheldIsClosed, NoFaultUnlessMisused, RefsAccounted, One
<1> QED BY <1>5, <1>6, <1>7 DEF WatchInv

-----------------------------------------------------------------------------
\* Every action preserves the invariant.
LEMMA WatchNextInv == WatchInv /\ [Next]_vars => WatchInv'
<1> SUFFICES ASSUME WatchInv, [Next]_vars PROVE WatchInv'
  OBVIOUS
<1> USE WatchAssumption
<1> USE DEF WatchInv, TypeOK, AnchorMatches, FramesFit, ActiveIsStarted, UnheldIsClosed,
            NoFaultUnlessMisused, RefsAccounted, One, CanCall, Live, LoopIdle,
            uv, lua, hist
<1>0. lhandle \in LHandles /\ lhandle.refCount \in Int
  BY DEF LHandles
<1>1. CASE luv_udp_recv_start
  BY <1>0, <1>1, RefFields DEF luv_udp_recv_start, Start
<1>2. CASE luv_udp_recv_stop
  <2>1. TypeOK'
    <3>1. lhandle' \in LHandles /\ starts' \in 0..(MaxStarts + 1)
      BY <1>0, <1>2, UnrefFields DEF luv_udp_recv_stop, StopUnref
    <3>2. active' \in BOOLEAN /\ misused' \in BOOLEAN /\ fault' \in {"none", "unref"}
      BY <1>2, Zenon DEF luv_udp_recv_stop, StopUnref
    <3> QED BY <1>2, <3>1, <3>2, Zenon DEF luv_udp_recv_stop, StopUnref
  <2>2. AnchorMatches'
    BY <1>0, <1>2, UnrefFields DEF luv_udp_recv_stop, StopUnref, luv_handle_unref_fails
  <2>3. FramesFit'
    BY <1>0, <1>2, UnrefFields DEF luv_udp_recv_stop, StopUnref, luv_handle_unref_fails
  <2>4. ActiveIsStarted'
    BY <1>0, <1>2, UnrefFields DEF luv_udp_recv_stop, StopUnref, luv_handle_unref_fails
  <2>5. UnheldIsClosed'
    BY <1>0, <1>2, UnrefFields DEF luv_udp_recv_stop, StopUnref, luv_handle_unref_fails
  <2>6. NoFaultUnlessMisused'
    BY <1>0, <1>2, UnrefFields DEF luv_udp_recv_stop, StopUnref, luv_handle_unref_fails
  <2>7. RefsAccounted'
    BY <1>0, <1>2, UnrefFields DEF luv_udp_recv_stop, StopUnref, luv_handle_unref_fails
  <2> QED BY <2>1, <2>2, <2>3, <2>4, <2>5, <2>6, <2>7
<1>3. CASE luv_udp__send
  BY <1>0, <1>3, RefFields DEF luv_udp__send
<1>4. CASE luv_timer_start
  BY <1>0, <1>4, RefFields DEF luv_timer_start, Start
<1>5. CASE luv_timer_stop
  <2>1. TypeOK'
    <3>1. lhandle' \in LHandles /\ starts' \in 0..(MaxStarts + 1)
      BY <1>0, <1>5, UnrefFields DEF luv_timer_stop, StopUnref
    <3>2. active' \in BOOLEAN /\ misused' \in BOOLEAN /\ fault' \in {"none", "unref"}
      BY <1>5, Zenon DEF luv_timer_stop, StopUnref
    <3> QED BY <1>5, <3>1, <3>2, Zenon DEF luv_timer_stop, StopUnref
  <2>2. AnchorMatches'
    BY <1>0, <1>5, UnrefFields DEF luv_timer_stop, StopUnref, luv_handle_unref_fails
  <2>3. FramesFit'
    BY <1>0, <1>5, UnrefFields DEF luv_timer_stop, StopUnref, luv_handle_unref_fails
  <2>4. ActiveIsStarted'
    BY <1>0, <1>5, UnrefFields DEF luv_timer_stop, StopUnref, luv_handle_unref_fails
  <2>5. UnheldIsClosed'
    BY <1>0, <1>5, UnrefFields DEF luv_timer_stop, StopUnref, luv_handle_unref_fails
  <2>6. NoFaultUnlessMisused'
    BY <1>0, <1>5, UnrefFields DEF luv_timer_stop, StopUnref, luv_handle_unref_fails
  <2>7. RefsAccounted'
    BY <1>0, <1>5, UnrefFields DEF luv_timer_stop, StopUnref, luv_handle_unref_fails
  <2> QED BY <2>1, <2>2, <2>3, <2>4, <2>5, <2>6, <2>7
<1>6. CASE luv_timer_again
  BY <1>0, <1>6 DEF luv_timer_again
<1>7. CASE luv_timer_set_repeat
  BY <1>0, <1>7 DEF luv_timer_set_repeat
<1>8. CASE luv_signal_start
  BY <1>0, <1>8, RefFields DEF luv_signal_start, Start
<1>9. CASE luv_signal_stop
  BY <1>0, <1>9 DEF luv_signal_stop
<1>10. CASE luv_close
  <2>1. TypeOK'
    BY <1>0, <1>10, RefFields DEF luv_close
  <2>2. AnchorMatches'
    BY <1>0, <1>10, RefFields DEF luv_close
  <2>3. FramesFit'
    BY <1>0, <1>10, RefFields DEF luv_close
  <2>4. ActiveIsStarted'
    BY <1>0, <1>10, RefFields DEF luv_close
  <2>5. UnheldIsClosed'
    BY <1>0, <1>10, RefFields DEF luv_close
  <2>6. NoFaultUnlessMisused'
    BY <1>0, <1>10, RefFields DEF luv_close
  <2>7. RefsAccounted'
    BY <1>0, <1>10, RefFields DEF luv_close
  <2> QED BY <2>1, <2>2, <2>3, <2>4, <2>5, <2>6, <2>7
<1>11. CASE CallAfterClose
  BY <1>0, <1>11 DEF CallAfterClose
<1>12. CASE UseUninitialised
  BY <1>0, <1>12 DEF UseUninitialised
<1>13. CASE Drop
  <2>1. TypeOK'
    BY <1>0, <1>13 DEF Drop
  <2>2. AnchorMatches'
    BY <1>0, <1>13 DEF Drop
  <2>3. FramesFit'
    BY <1>0, <1>13 DEF Drop
  <2>4. ActiveIsStarted'
    BY <1>0, <1>13 DEF Drop
  <2>5. UnheldIsClosed'
    BY <1>0, <1>13 DEF Drop
  <2>6. NoFaultUnlessMisused'
    BY <1>0, <1>13 DEF Drop
  <2>7. RefsAccounted'
    BY <1>0, <1>13 DEF Drop
  <2> QED BY <2>1, <2>2, <2>3, <2>4, <2>5, <2>6, <2>7
<1>14. CASE luv_on_udp_recv
  BY <1>0, <1>14 DEF luv_on_udp_recv, Enter, luv_handle_get_lua_fails
<1>15. CASE luv_on_udp_send
  BY <1>0, <1>15 DEF luv_on_udp_send, Enter, luv_handle_get_lua_fails
<1>16. CASE luv_on_timer
  BY <1>0, <1>16 DEF luv_on_timer, Enter, luv_handle_get_lua_fails
<1>17. CASE luv_on_signal
  BY <1>0, <1>17 DEF luv_on_signal, Enter, luv_handle_get_lua_fails
<1>18. CASE luv_on_fs_event
  BY <1>0, <1>18 DEF luv_on_fs_event, Enter, luv_handle_get_lua_fails
<1>19. CASE luv_process_on_exit
  <2>1. TypeOK'
    BY <1>0, <1>19 DEF luv_process_on_exit, Enter, luv_handle_get_lua_fails, luv_process_kill_signals
  <2>2. AnchorMatches'
    BY <1>0, <1>19 DEF luv_process_on_exit, Enter, luv_handle_get_lua_fails, luv_process_kill_signals
  <2>3. FramesFit'
    BY <1>0, <1>19 DEF luv_process_on_exit, Enter, luv_handle_get_lua_fails, luv_process_kill_signals
  <2>4. ActiveIsStarted'
    BY <1>0, <1>19 DEF luv_process_on_exit, Enter, luv_handle_get_lua_fails, luv_process_kill_signals
  <2>5. UnheldIsClosed'
    BY <1>0, <1>19 DEF luv_process_on_exit, Enter, luv_handle_get_lua_fails, luv_process_kill_signals
  <2>6. NoFaultUnlessMisused'
    BY <1>0, <1>19 DEF luv_process_on_exit, Enter, luv_handle_get_lua_fails, luv_process_kill_signals
  <2>7. RefsAccounted'
    BY <1>0, <1>19 DEF luv_process_on_exit, Enter, luv_handle_get_lua_fails, luv_process_kill_signals
  <2> QED BY <2>1, <2>2, <2>3, <2>4, <2>5, <2>6, <2>7
<1>20. CASE luv_on_close
  BY <1>0, <1>20 DEF luv_on_close
<1>21. CASE ReturnEvent
  <2>1. TypeOK'
    BY <1>0, <1>21, UnrefFields DEF ReturnEvent, luv_handle_unref_fails
  <2>2. AnchorMatches'
    BY <1>0, <1>21, UnrefFields DEF ReturnEvent, luv_handle_unref_fails
  <2>3. FramesFit'
    BY <1>0, <1>21, UnrefFields DEF ReturnEvent, luv_handle_unref_fails
  <2>4. ActiveIsStarted'
    BY <1>0, <1>21, UnrefFields DEF ReturnEvent, luv_handle_unref_fails
  <2>5. UnheldIsClosed'
    BY <1>0, <1>21, UnrefFields DEF ReturnEvent, luv_handle_unref_fails
  <2>6. NoFaultUnlessMisused'
    BY <1>0, <1>21, UnrefFields DEF ReturnEvent, luv_handle_unref_fails
  <2>7. RefsAccounted'
    BY <1>0, <1>21, UnrefFields DEF ReturnEvent, luv_handle_unref_fails
  <2> QED BY <2>1, <2>2, <2>3, <2>4, <2>5, <2>6, <2>7
<1>22. CASE ReturnSend
  BY <1>0, <1>22, UnrefFields DEF ReturnSend, luv_handle_unref_fails
<1>23. CASE ReturnClose
  BY <1>0, <1>23, OnCloseFields DEF ReturnClose
<1>24. CASE luv_handle_gc
  BY <1>0, <1>24 DEF luv_handle_gc
<1>25. CASE UNCHANGED vars
  BY <1>0, <1>25 DEF vars
<1> QED
  BY <1>1, <1>2, <1>3, <1>4, <1>5, <1>6, <1>7, <1>8, <1>9, <1>10, <1>11, <1>12, <1>13, <1>14, <1>15, <1>16, <1>17, <1>18, <1>19, <1>20, <1>21, <1>22, <1>23, <1>24, <1>25
  DEF Next, FromLua, FromLoop, Return

-----------------------------------------------------------------------------
\* The invariant holds in every reachable state.
THEOREM WatchInvariance == Spec => []WatchInv
<1> QED BY WatchInitInv, WatchNextInv, PTL DEF Spec

\* No assert of utils.c or luv_handle.c fails for a UDP socket, a timer, a
\* process, a signal or file watcher or a terminal, however often it is started,
\* and from whichever callback it is called, while the program keeps to the
\* calls the C code can survive.
THEOREM WatchNoFault == Spec => []NoFaultUnlessMisused
<1>1. WatchInv => NoFaultUnlessMisused
  BY DEF WatchInv
<1> QED BY WatchInvariance, <1>1, PTL

\* The reference count is exactly the sum of what is outstanding, and a handle
\* libuv may call back is anchored: it was started, has a datagram queued or is
\* closing, so by RefsAccounted there is a reference, and AnchorMatches gives the
\* anchor.
THEOREM WatchRefs == Spec => []RefsSound
<1>1. WatchInv => AnchoredWhileActive
  <2> SUFFICES ASSUME WatchInv, ~misused, lhandle.handle, active \/ sends > 0 \/ closing
               PROVE  lhandle.ref /\ ~collected
    BY DEF AnchoredWhileActive
  <2>1. lhandle.refCount > 0
    BY DEF WatchInv, TypeOK, LHandles, RefsAccounted, ActiveIsStarted, One
  <2>2. fault = "none"
    BY DEF WatchInv, NoFaultUnlessMisused
  <2> QED BY <2>1, <2>2 DEF WatchInv, AnchorMatches, UnheldIsClosed
<1>2. WatchInv => RefsSound
  BY <1>1 DEF WatchInv, RefsSound
<1> QED BY WatchInvariance, <1>2, PTL

-----------------------------------------------------------------------------
\* A registry value, and the records it is made of.
SlotRecs == [owner : Owners \cup {Leaked, <<>>}, next : Slots]
Registries == [slots : Seq(SlotRecs), free : Slots]

\* c is the free list of the registry t: each slot on it is there once, belongs
\* to nobody and names the next one.  Unless the list was cut (k), every slot
\* that belongs to nobody is on it.
FreeList(t, c, k) ==
  /\ c \in Seq(DOMAIN t.slots)
  /\ \A i, j \in DOMAIN c : c[i] = c[j] => i = j
  /\ t.free = IF Len(c) = 0 THEN 0 ELSE c[1]
  /\ \A i \in DOMAIN c : /\ t.slots[c[i]].owner = <<>>
                         /\ t.slots[c[i]].next = IF i = Len(c) THEN 0 ELSE c[i + 1]
  /\ ~k => \A i \in DOMAIN t.slots : t.slots[i].owner = <<>> => \E j \in DOMAIN c : c[j] = i

\* From t to u only slots of the owners O were given up, and only the owners N
\* have gained any.
Keeps(t, u, O) ==
  \A i \in DOMAIN t.slots :
    t.slots[i].owner \in O \/ (i \in DOMAIN u.slots /\ u.slots[i].owner = t.slots[i].owner)
Gains(t, u, N) ==
  \A i \in DOMAIN u.slots :
    u.slots[i].owner \in N \/ (i \in DOMAIN t.slots /\ u.slots[i].owner = t.slots[i].owner)

\* From t to u no slots but R have changed hands.
Only(t, u, R) ==
  \A i \in DOMAIN u.slots : i \in R \/ (i \in DOMAIN t.slots /\ u.slots[i].owner = t.slots[i].owner)

\* A slot of the registry t that belongs to o.
Owned(t, i, o) == i \in DOMAIN t.slots /\ t.slots[i].owner = o

-----------------------------------------------------------------------------
\* A slot is nobody's, lost, or one user's.
LEMMA OwnersApart ==
  /\ <<>> \notin Owners /\ Leaked \notin Owners /\ Leaked # <<>>
  /\ \A r \in Reqs : <<"cb", r>> \in Owners /\ <<"data", r>> \in Owners
  /\ \A p \in Parsers : <<"parser", p>> \in Owners
  /\ \A g \in Gens : <<"print", g>> \in Owners
  /\ \A c \in Conns : <<"sni", c>> \in Owners
BY DEF Owners, Leaked

\* luaL_ref.
LEMMA RefSound ==
  ASSUME NEW t \in Registries, NEW c, NEW k, FreeList(t, c, k),
         NEW o \in Owners \cup {Leaked}
  PROVE  LET u == luaL_ref(t, o) r == RefSlot(t) IN
         /\ u \in Registries
         /\ Owned(u, r, o) /\ r # NOREF /\ r \in Nat
         /\ Keeps(t, u, {<<>>}) /\ Gains(t, u, {o}) /\ Only(t, u, {r})
         /\ \E d : FreeList(u, d, k)
         /\ Len(t.slots) <= Len(u.slots)
<1> DEFINE s == t.slots
           u == luaL_ref(t, o)
           r == RefSlot(t)
           x == [owner |-> o, next |-> 0]
<1>1. s \in Seq(SlotRecs) /\ t.free \in Slots /\ c \in Seq(DOMAIN s) /\ DOMAIN s = 1..Len(s) /\ Len(s) \in Nat
  BY DEF Registries, FreeList
<1>2. x \in SlotRecs /\ x.owner = o /\ x.next = 0 /\ o # <<>>
  BY OwnersApart, RegistryAssumption DEF SlotRecs, Slots
<1>5. /\ \A i, j \in DOMAIN c : c[i] = c[j] => i = j
      /\ t.free = IF Len(c) = 0 THEN 0 ELSE c[1]
      /\ \A i \in DOMAIN c : /\ c[i] \in DOMAIN s
                             /\ s[c[i]].owner = <<>>
                             /\ s[c[i]].next = IF i = Len(c) THEN 0 ELSE c[i + 1]
      /\ DOMAIN c = 1..Len(c) /\ Len(c) \in Nat
      /\ \A i \in DOMAIN s : s[i] \in SlotRecs /\ s[i].next \in Slots
  <2>1. \A i \in DOMAIN s : s[i] \in SlotRecs
    BY <1>1
  <2>2. \A y \in SlotRecs : y.next \in Slots
    BY DEF SlotRecs
  <2>3. \A i \in DOMAIN c : c[i] \in DOMAIN s
    BY <1>1
  <2> HIDE DEF u, r, x
  <2> QED BY <1>1, <2>1, <2>2, <2>3 DEF FreeList
<1>3. CASE t.free = 0
  <2>1. r = Len(s) + 1 /\ u = [slots |-> Append(s, x), free |-> 0]
    BY <1>3 DEF RefSlot, luaL_ref
  <2>2. c = <<>>
    BY <1>1, <1>3 DEF FreeList
  <2>3. /\ Append(s, x) \in Seq(SlotRecs) /\ Len(Append(s, x)) = Len(s) + 1
        /\ Append(s, x)[Len(s) + 1] = x /\ \A i \in 1..Len(s) : Append(s, x)[i] = s[i]
        /\ DOMAIN Append(s, x) = 1..(Len(s) + 1)
    BY <1>1, <1>2
  <2> DEFINE a == Append(s, x)
  <2> HIDE DEF a, s, x, u, r
  <2>4. u \in Registries /\ u.slots = a /\ u.free = 0
    BY <2>1, <2>3, RegistryAssumption DEF Registries, Slots, a
  <2>5. Owned(u, r, o) /\ r # NOREF /\ r \in Nat
    BY <1>1, <1>2, <2>1, <2>3, <2>4 DEF Owned, NOREF, a
  <2>6. Keeps(t, u, {<<>>}) /\ Gains(t, u, {o}) /\ Only(t, u, {r})
    BY <1>1, <1>2, <2>1, <2>3, <2>4 DEF Keeps, Gains, Only, a, s
  <2>7. FreeList(u, <<>>, k)
    BY <1>1, <1>2, <2>2, <2>3, <2>4 DEF FreeList, a, s
  <2> QED BY <1>1, <2>3, <2>4, <2>5, <2>6, <2>7 DEF u, r, a, s
<1>4. CASE t.free # 0
  <2>1. r = t.free /\ u = [slots |-> [s EXCEPT ![r] = x], free |-> s[r].next]
    BY <1>4 DEF RefSlot, luaL_ref
  <2> HIDE DEF s, x, u, r
  <2>2. /\ Len(c) # 0 /\ r = c[1] /\ r \in DOMAIN s /\ s[r].owner = <<>>
        /\ s[r].next = IF 1 = Len(c) THEN 0 ELSE c[2]
    <3>1. Len(c) # 0 /\ r = c[1]
      BY <1>4, <1>5, <2>1
    <3>2. 1 \in DOMAIN c
      BY <1>5, <3>1
    <3>3. 1 + 1 = 2
      OBVIOUS
    <3> QED BY <1>5, <3>1, <3>2, <3>3
  <2>3. /\ s[r] \in SlotRecs /\ s[r].next \in Slots
    BY <1>5, <2>2
  <2> DEFINE a == [s EXCEPT ![r] = x]
             d == Tail(c)
  <2>4. /\ a \in Seq(SlotRecs) /\ Len(a) = Len(s) /\ a[r] = x /\ DOMAIN a = DOMAIN s
        /\ \A i \in DOMAIN s : i # r => a[i] = s[i]
    BY <1>1, <1>2, <2>2
  <2>5. /\ d \in Seq(DOMAIN s) /\ Len(d) = Len(c) - 1
        /\ \A i \in 1..Len(d) : d[i] = c[i + 1]
        /\ DOMAIN d = 1..Len(d) /\ DOMAIN c = 1..Len(c) /\ Len(c) \in Nat
    BY <1>1, <2>2
  <2>6. u.slots = a /\ u.free = s[r].next
    BY <2>1
  <2> HIDE DEF a, d, s, x, u, r
  <2>7. u \in Registries
    BY <2>1, <2>3, <2>4 DEF Registries, a
  <2>8. Owned(u, r, o) /\ r # NOREF /\ r \in Nat
    BY <1>1, <1>2, <1>4, <2>1, <2>2, <2>4, <2>6 DEF Owned, NOREF
  <2>9. Keeps(t, u, {<<>>}) /\ Gains(t, u, {o}) /\ Only(t, u, {r})
    BY <1>1, <1>2, <2>2, <2>4, <2>6 DEF Keeps, Gains, Only, s
  <2>10. FreeList(u, d, k)
    <3>1. d \in Seq(DOMAIN u.slots) /\ \A i, j \in DOMAIN d : d[i] = d[j] => i = j
      <4>1. ASSUME NEW i \in DOMAIN d, NEW j \in DOMAIN d, d[i] = d[j] PROVE i = j
        <5>1. i + 1 \in DOMAIN c /\ j + 1 \in DOMAIN c /\ c[i + 1] = c[j + 1] /\ i \in Nat /\ j \in Nat
          BY <2>5, <4>1
        <5>2. i + 1 = j + 1
          BY <1>5, <5>1
        <5> QED BY <5>1, <5>2
      <4> QED BY <2>4, <2>5, <2>6, <4>1
    <3>2. u.free = IF Len(d) = 0 THEN 0 ELSE d[1]
      <4>1. CASE Len(c) = 1
        BY <2>2, <2>5, <2>6, <4>1
      <4>2. CASE Len(c) # 1
        <5>1. Len(d) # 0 /\ 1 \in 1..Len(d) /\ d[1] = c[2]
          BY <2>2, <2>5, <4>2
        <5> QED BY <2>2, <2>6, <4>2, <5>1
      <4> QED BY <4>1, <4>2
    <3>3. ASSUME NEW i \in DOMAIN d
          PROVE  /\ d[i] # r /\ d[i] \in DOMAIN s /\ a[d[i]] = s[d[i]]
                 /\ s[d[i]].owner = <<>>
                 /\ s[d[i]].next = IF i = Len(d) THEN 0 ELSE d[i + 1]
      <4>1. i + 1 \in DOMAIN c /\ d[i] = c[i + 1] /\ 1 \in DOMAIN c /\ i \in Nat
        BY <2>2, <2>5
      <4>2. c[i + 1] # c[1] /\ c[i + 1] \in DOMAIN s
        <5>1. i + 1 # 1
          BY <2>5, <4>1
        <5> QED BY <1>5, <4>1, <5>1
      <4>3. /\ s[c[i + 1]].owner = <<>>
            /\ s[c[i + 1]].next = IF i + 1 = Len(c) THEN 0 ELSE c[i + 2]
        BY <1>5, <4>1
      <4>4. i # Len(d) => d[i + 1] = c[i + 2]
        BY <2>5, <4>1
      <4> QED BY <2>2, <2>4, <2>5, <4>1, <4>2, <4>3, <4>4
    <3>4. ASSUME ~k, NEW i \in DOMAIN a, a[i].owner = <<>> PROVE \E j \in DOMAIN d : d[j] = i
      <4>1. i # r /\ i \in DOMAIN s /\ s[i].owner = <<>>
        BY <1>2, <2>4, <3>4
      <4>2. PICK j \in DOMAIN c : c[j] = i
        BY <3>4, <4>1 DEF FreeList, s
      <4>3. j # 1 /\ j - 1 \in DOMAIN d /\ d[j - 1] = c[j]
        BY <2>2, <2>5, <4>1, <4>2
      <4> QED BY <4>2, <4>3
    <3> QED BY <2>6, <3>1, <3>2, <3>3, <3>4 DEF FreeList
  <2> QED BY <2>4, <2>6, <2>7, <2>8, <2>9, <2>10 DEF u, r, s
<1> QED BY <1>1, <1>3, <1>4 DEF Slots

\* luaL_unref of a slot that has an owner: it is the first free one then.
LEMMA UnrefSound ==
  ASSUME NEW t \in Registries, Len(t.slots) <= MaxSlots, NEW c, NEW k, FreeList(t, c, k),
         NEW o \in Owners, NEW r, Owned(t, r, o)
  PROVE  LET u == luaL_unref(t, r) IN
         /\ u \in Registries /\ Len(u.slots) = Len(t.slots)
         /\ Keeps(t, u, {o}) /\ Gains(t, u, {<<>>}) /\ Owned(u, r, <<>>)
         /\ \E d : FreeList(u, d, k)
<1> DEFINE s == t.slots
           x == [owner |-> <<>>, next |-> t.free]
           a == [s EXCEPT ![r] = x]
           u == luaL_unref(t, r)
           d == <<r>> \o c
<1>1. /\ s \in Seq(SlotRecs) /\ t.free \in Slots /\ c \in Seq(DOMAIN s) /\ DOMAIN s = 1..Len(s) /\ Len(s) \in Nat
      /\ Len(s) <= MaxSlots
  BY DEF Registries, FreeList
<1>2. r \in DOMAIN s /\ s[r].owner = o /\ o # <<>> /\ r \in Slots /\ r # 0
  BY <1>1, OwnersApart, RegistryAssumption DEF Owned, Slots
<1>3. x \in SlotRecs /\ x.owner = <<>> /\ x.next = t.free
  BY <1>1 DEF SlotRecs
<1>4. /\ \A i, j \in DOMAIN c : c[i] = c[j] => i = j
      /\ t.free = IF Len(c) = 0 THEN 0 ELSE c[1]
      /\ \A i \in DOMAIN c : /\ c[i] \in DOMAIN s
                             /\ s[c[i]].owner = <<>>
                             /\ s[c[i]].next = IF i = Len(c) THEN 0 ELSE c[i + 1]
      /\ DOMAIN c = 1..Len(c) /\ Len(c) \in Nat
  <2>1. \A i \in DOMAIN c : c[i] \in DOMAIN s
    BY <1>1
  <2> HIDE DEF x, a, u, d
  <2> QED BY <1>1, <2>1 DEF FreeList
<1>5. u = [slots |-> a, free |-> r]
  BY <1>2 DEF luaL_unref, NOREF
<1>6. /\ a \in Seq(SlotRecs) /\ Len(a) = Len(s) /\ a[r] = x /\ DOMAIN a = DOMAIN s
      /\ \A i \in DOMAIN s : i # r => a[i] = s[i]
  BY <1>1, <1>2, <1>3
<1>7. /\ d \in Seq(DOMAIN s) /\ Len(d) = Len(c) + 1 /\ d[1] = r /\ DOMAIN d = 1..Len(d)
      /\ \A i \in 1..Len(c) : d[i + 1] = c[i]
  BY <1>1, <1>2
<1>8. \A i \in DOMAIN d : i = 1 \/ (i - 1 \in DOMAIN c /\ d[i] = c[i - 1] /\ i \in Nat)
  BY <1>4, <1>7
<1> HIDE DEF s, x, a, u, d
<1>9. u \in Registries /\ u.slots = a /\ u.free = r
  BY <1>2, <1>5, <1>6 DEF Registries
<1>10. Keeps(t, u, {o}) /\ Gains(t, u, {<<>>}) /\ Owned(u, r, <<>>)
  BY <1>2, <1>3, <1>6, <1>9 DEF Keeps, Gains, Owned, s
<1>11. \A i \in DOMAIN c : c[i] # r /\ a[c[i]] = s[c[i]]
  BY <1>2, <1>4, <1>6
<1>12. \A i, j \in DOMAIN d : d[i] = d[j] => i = j
  <2> SUFFICES ASSUME NEW i \in DOMAIN d, NEW j \in DOMAIN d, d[i] = d[j] PROVE i = j
    OBVIOUS
  <2>1. CASE i = 1 \/ j = 1
    BY <1>7, <1>8, <1>11, <2>1
  <2>2. CASE i # 1 /\ j # 1
    <3>1. i - 1 \in DOMAIN c /\ j - 1 \in DOMAIN c /\ c[i - 1] = c[j - 1] /\ i \in Nat /\ j \in Nat
      BY <1>8, <2>2
    <3>2. i - 1 = j - 1
      BY <1>4, <3>1
    <3> QED BY <3>1, <3>2
  <2> QED BY <2>1, <2>2
<1>13. ASSUME NEW i \in DOMAIN d
       PROVE  a[d[i]].owner = <<>> /\ a[d[i]].next = IF i = Len(d) THEN 0 ELSE d[i + 1]
  <2>1. CASE i = 1
    <3>1. Len(c) = 0 => Len(d) = 1
      BY <1>7
    <3>2. Len(c) # 0 => Len(d) # 1 /\ d[1 + 1] = c[1]
      <4>1. Len(c) # 0 => 1 \in 1..Len(c)
        BY <1>4
      <4> QED BY <1>4, <1>7, <4>1
    <3> QED BY <1>3, <1>4, <1>6, <1>7, <2>1, <3>1, <3>2
  <2>2. CASE i # 1
    <3>1. i - 1 \in DOMAIN c /\ d[i] = c[i - 1] /\ i \in Nat
      BY <1>8, <2>2
    <3>2. a[d[i]] = s[c[i - 1]]
      BY <1>11, <3>1
    <3>3. /\ s[c[i - 1]].owner = <<>>
          /\ s[c[i - 1]].next = IF i - 1 = Len(c) THEN 0 ELSE c[(i - 1) + 1]
      BY <1>4, <3>1
    <3>4. i - 1 = Len(c) <=> i = Len(d)
      BY <1>4, <1>7, <3>1
    <3>5. i # Len(d) => c[(i - 1) + 1] = d[i + 1]
      <4>1. i # Len(d) => i \in 1..Len(c) /\ (i - 1) + 1 = i
        BY <1>4, <1>7, <3>1
      <4> QED BY <1>7, <4>1
    <3> QED BY <3>2, <3>3, <3>4, <3>5
  <2> QED BY <2>1, <2>2
<1>14. ASSUME ~k, NEW i \in DOMAIN a, a[i].owner = <<>> PROVE \E j \in DOMAIN d : d[j] = i
  <2>1. CASE i = r
    BY <1>4, <1>7, <2>1
  <2>2. CASE i # r
    <3>1. i \in DOMAIN s /\ s[i].owner = <<>>
      BY <1>6, <1>14, <2>2
    <3>2. PICK j \in DOMAIN c : c[j] = i
      BY <1>14, <3>1 DEF FreeList, s
    <3>3. j + 1 \in DOMAIN d /\ d[j + 1] = i
      BY <1>4, <1>7, <3>2
    <3> QED BY <3>3
  <2> QED BY <2>1, <2>2
<1>15. u.free = IF Len(d) = 0 THEN 0 ELSE d[1]
  BY <1>4, <1>7, <1>9
<1>16. FreeList(u, d, k)
  BY <1>6, <1>7, <1>9, <1>12, <1>13, <1>14, <1>15 DEF FreeList
<1> QED BY <1>6, <1>9, <1>10, <1>16 DEF u, s

\* A slot that is left behind stays out of the free list.
LEMMA LeakSound ==
  ASSUME NEW t \in Registries, NEW c, NEW k, FreeList(t, c, k),
         NEW o \in Owners, NEW r, Owned(t, r, o)
  PROVE  LET u == Leak(t, r) IN
         /\ u \in Registries /\ Len(u.slots) = Len(t.slots) /\ RefSlot(u) = RefSlot(t)
         /\ Keeps(t, u, {o}) /\ Gains(t, u, {Leaked}) /\ Owned(u, r, Leaked)
         /\ FreeList(u, c, k)
<1> DEFINE s == t.slots
           x == [s[r] EXCEPT !.owner = Leaked]
           a == [s EXCEPT ![r] = x]
           u == Leak(t, r)
<1>1. /\ s \in Seq(SlotRecs) /\ t.free \in Slots /\ c \in Seq(DOMAIN s) /\ DOMAIN s = 1..Len(s) /\ Len(s) \in Nat
      /\ t = [slots |-> s, free |-> t.free]
  BY DEF Registries, FreeList
<1>2. r \in DOMAIN s /\ s[r].owner = o /\ o # <<>> /\ r # 0 /\ Leaked # <<>> /\ s[r] \in SlotRecs
  BY <1>1, OwnersApart, RegistryAssumption DEF Owned
<1>3. x \in SlotRecs /\ x.owner = Leaked /\ x.next = s[r].next
  BY <1>2 DEF SlotRecs
<1>4. /\ \A i \in DOMAIN c : c[i] \in DOMAIN s /\ s[c[i]].owner = <<>>
  <2>1. \A i \in DOMAIN c : c[i] \in DOMAIN s
    BY <1>1
  <2> HIDE DEF x, a, u
  <2> QED BY <1>1, <2>1 DEF FreeList
<1>5. u = [slots |-> a, free |-> t.free]
  BY <1>1, <1>2 DEF Leak, NOREF
<1>6. /\ a \in Seq(SlotRecs) /\ Len(a) = Len(s) /\ a[r] = x /\ DOMAIN a = DOMAIN s
      /\ \A i \in DOMAIN s : i # r => a[i] = s[i]
  BY <1>1, <1>2, <1>3
<1> HIDE DEF s, x, a, u
<1>9. u \in Registries /\ u.slots = a /\ u.free = t.free /\ RefSlot(u) = RefSlot(t)
  BY <1>1, <1>2, <1>5, <1>6 DEF Registries, RefSlot, s
<1>10. Keeps(t, u, {o}) /\ Gains(t, u, {Leaked}) /\ Owned(u, r, Leaked)
  BY <1>2, <1>3, <1>6, <1>9 DEF Keeps, Gains, Owned, s
<1>11. \A i \in DOMAIN c : c[i] # r /\ a[c[i]] = s[c[i]]
  BY <1>2, <1>4, <1>6
<1>12. \A i \in DOMAIN s : a[i].owner = <<>> => s[i].owner = <<>>
  BY <1>2, <1>3, <1>6
<1>16. FreeList(u, c, k)
  BY <1>6, <1>9, <1>11, <1>12 DEF FreeList, s
<1> QED BY <1>6, <1>9, <1>10, <1>16 DEF u, s

-----------------------------------------------------------------------------
\* Every reference in use names a slot of its owner.
RequestsOwn ==
  \A r \in Reqs :
    /\ reqs[r].cb # NOREF => Owned(Registry, reqs[r].cb, <<"cb", r>>)
    /\ reqs[r].data # NOREF => Owned(Registry, reqs[r].data, <<"data", r>>)
ParsersOwn ==
  \A p \in Parsers : parsers[p].st = "open" => Owned(Registry, parsers[p].r, <<"parser", p>>)
GensOwn ==
  \A g \in Gens : gens[g].r # NOREF => Owned(Registry, gens[g].r, <<"print", g>>)
ConnsOwn ==
  \A c \in Conns : conns[c].st = "set" => Owned(Registry, conns[c].r, <<"sni", c>>)

\* A file request has its callback until luv_after_fs has fetched it, a query has
\* nothing else, and a request that is not in progress has no references.
RequestsReady ==
  \A r \in Reqs :
    /\ reqs[r].op = NoOne => reqs[r].cb = NOREF /\ reqs[r].data = NOREF
    /\ reqs[r].op \in Ops /\ r # running => reqs[r].cb # NOREF
    /\ reqs[r].op = Query => reqs[r].data = NOREF /\ r # running
    /\ r = running => reqs[r].op \in Ops /\ reqs[r].cb = NOREF /\ reqs[r].data = NOREF
ParsingReady == \A k \in DOMAIN parsing : parsers[parsing[k].p].st # "none"

\* The slots of a request are the ones it names.
RequestsName ==
  \A i \in DOMAIN slots, r \in Reqs :
    slots[i].owner \in {<<"cb", r>>, <<"data", r>>} => i \in {reqs[r].cb, reqs[r].data}

UsersSound ==
  /\ RequestsOwn /\ ParsersOwn /\ GensOwn /\ ConnsOwn
  /\ RequestsReady /\ ParsingReady /\ RequestsName

\* The inductive invariant.
RegistryInv ==
  /\ RegistryTypeOK
  /\ ~abused => ~foreign /\ UsersSound /\ \E c : FreeList(Registry, c, cut)

-----------------------------------------------------------------------------
\* The owners of two users differ.
LEMMA OwnersDiffer ==
  /\ \A r, q \in Reqs : /\ <<"cb", r>> # <<"data", q>>
                        /\ <<"cb", r>> = <<"cb", q>> => r = q
                        /\ <<"data", r>> = <<"data", q>> => r = q
  /\ \A r \in Reqs, p \in Parsers : <<"cb", r>> # <<"parser", p>> /\ <<"data", r>> # <<"parser", p>>
  /\ \A r \in Reqs, g \in Gens : <<"cb", r>> # <<"print", g>> /\ <<"data", r>> # <<"print", g>>
  /\ \A r \in Reqs, c \in Conns : <<"cb", r>> # <<"sni", c>> /\ <<"data", r>> # <<"sni", c>>
  /\ \A p \in Parsers, g \in Gens : <<"parser", p>> # <<"print", g>>
  /\ \A p \in Parsers, c \in Conns : <<"parser", p>> # <<"sni", c>>
  /\ \A g \in Gens, c \in Conns : <<"print", g>> # <<"sni", c>>
  /\ \A p, q \in Parsers : <<"parser", p>> = <<"parser", q>> => p = q
  /\ \A g, h \in Gens : <<"print", g>> = <<"print", h>> => g = h
  /\ \A c, d \in Conns : <<"sni", c>> = <<"sni", d>> => c = d
OBVIOUS

\* No request owns what somebody else owns, nobody, or nobody any more.
LEMMA RequestsApart ==
  \A r \in Reqs : \A o \in {<<"cb", r>>, <<"data", r>>} :
    /\ o # <<>> /\ o # Leaked
    /\ \A p \in Parsers : o # <<"parser", p>>
    /\ \A g \in Gens : o # <<"print", g>>
    /\ \A c \in Conns : o # <<"sni", c>>
<1> TAKE r \in Reqs
<1>1. <<"cb", r>> \in Owners /\ <<"data", r>> \in Owners
  BY OwnersApart
<1>2. /\ <<"cb", r>> # <<>> /\ <<"data", r>> # <<>>
      /\ <<"cb", r>> # Leaked /\ <<"data", r>> # Leaked
  BY <1>1, OwnersApart, Zenon
<1> QED BY <1>2, OwnersDiffer

\* The registry in a state, from the type invariant.
LEMMA RegistryTyped ==
  ASSUME RegistryTypeOK
  PROVE  /\ Registry \in Registries /\ Registry.slots = slots /\ Registry.free = free
         /\ Len(Registry.slots) <= MaxSlots
         /\ \A i \in DOMAIN slots : i \in Slots /\ i # NOREF
BY RegistryAssumption DEF RegistryTypeOK, Registries, SlotRecs, Registry, Slots, NOREF

\* ... and after a call.
LEMMA BecomesTyped ==
  ASSUME NEW t \in Registries, Becomes(t)
  PROVE  /\ Registry' = t /\ slots' = t.slots
         /\ slots' \in Seq(SlotRecs) /\ Len(slots') <= MaxSlots /\ free' \in Slots
         /\ \A i \in DOMAIN t.slots : i \in Slots /\ i # NOREF
<1>1. /\ Registry' = [slots |-> slots', free |-> free']
      /\ slots' = t.slots /\ free' = t.free /\ Len(slots') <= MaxSlots
  BY DEF Becomes, Registry
<1>2. t = [slots |-> t.slots, free |-> t.free] /\ t.slots \in Seq(SlotRecs) /\ t.free \in Slots
  BY DEF Registries
<1>3. \A i \in DOMAIN t.slots : i \in Slots /\ i # NOREF
  BY <1>1, <1>2, RegistryAssumption DEF Slots, NOREF
<1> QED BY <1>1, <1>2, <1>3

\* The references that are not concerned by a change stay their owners'.
LEMMA OthersKept ==
  ASSUME NEW O, Keeps(Registry, Registry', O)
  PROVE  /\ /\ RequestsOwn /\ reqs' = reqs
            /\ \A r \in Reqs : <<"cb", r>> \notin O /\ <<"data", r>> \notin O
            => RequestsOwn'
         /\ /\ ParsersOwn /\ parsers' = parsers /\ \A p \in Parsers : <<"parser", p>> \notin O
            => ParsersOwn'
         /\ /\ GensOwn /\ gens' = gens /\ \A g \in Gens : <<"print", g>> \notin O
            => GensOwn'
         /\ /\ ConnsOwn /\ conns' = conns /\ \A c \in Conns : <<"sni", c>> \notin O
            => ConnsOwn'
<1>1. \A i, o : Owned(Registry, i, o) /\ o \notin O => Owned(Registry', i, o)
  BY DEF Keeps, Owned
<1> QED BY <1>1 DEF RequestsOwn, ParsersOwn, GensOwn, ConnsOwn

\* ... and the slots of the requests the ones they name.
LEMMA NamesKept ==
  ASSUME NEW N, Gains(Registry, Registry', N), RequestsName, reqs' = reqs,
         \A r \in Reqs : <<"cb", r>> \notin N /\ <<"data", r>> \notin N
  PROVE  RequestsName'
<1>1. Registry.slots = slots /\ Registry'.slots = slots'
  BY DEF Registry
<1> SUFFICES ASSUME NEW i \in DOMAIN slots', NEW r \in Reqs,
                    slots'[i].owner \in {<<"cb", r>>, <<"data", r>>}
             PROVE  i \in {reqs[r].cb, reqs[r].data}
  BY DEF RequestsName
<1>2. slots'[i].owner \notin N
  OBVIOUS
<1>3. i \in DOMAIN slots /\ slots'[i].owner = slots[i].owner
  BY <1>1, <1>2 DEF Gains
<1> QED BY <1>3 DEF RequestsName

\* The state before a call.
LEMMA CallsSound ==
  ASSUME RegistryInv, Calls
  PROVE  /\ RegistryTypeOK /\ UsersSound /\ ~foreign /\ ~abused
         /\ Registry \in Registries /\ Registry.slots = slots
         /\ Len(Registry.slots) <= MaxSlots
         /\ \E c : FreeList(Registry, c, cut)
BY RegistryTyped DEF RegistryInv, Calls

\* A call that leaves the registry alone.
LEMMA RegistryKept ==
  ASSUME RegistryTypeOK, registry' = registry
  PROVE  /\ Registry' = Registry /\ slots' = slots
         /\ slots' \in Seq(SlotRecs) /\ Len(slots') <= MaxSlots /\ free' \in Slots
         /\ Keeps(Registry, Registry', {}) /\ Gains(Registry, Registry', {})
<1>1. Registry' = Registry /\ slots' = slots /\ free' = free
  BY DEF registry, Registry
<1>2. slots \in Seq(SlotRecs) /\ Len(slots) <= MaxSlots /\ free \in Slots
  BY DEF RegistryTypeOK, SlotRecs
<1>3. Keeps(Registry, Registry', {}) /\ Gains(Registry, Registry', {})
  BY <1>1 DEF Keeps, Gains
<1> QED BY <1>1, <1>2, <1>3

\* The two references of a file operation.
LEMMA FsRefs ==
  ASSUME NEW t \in Registries, NEW c, NEW k, FreeList(t, c, k), NEW op,
         NEW o1 \in Owners \cup {Leaked}, NEW o2 \in Owners \cup {Leaked}
  PROVE  LET t1 == luv_io_ctx_add(t, op, o1)
             u  == luv_io_ctx_callback_add(t1, o2)
         IN  /\ u \in Registries /\ \E d : FreeList(u, d, k)
             /\ Keeps(t, u, {<<>>}) /\ Gains(t, u, {o1, o2})
             /\ Owned(u, RefSlot(t1), o2) /\ RefSlot(t1) # NOREF
             /\ op = "write" => Owned(u, RefSlot(t), o1) /\ RefSlot(t) # NOREF
             /\ Only(t, u, {RefSlot(t1)} \cup (IF op = "write" THEN {RefSlot(t)} ELSE {}))
<1> DEFINE t1 == luv_io_ctx_add(t, op, o1)
           u  == luv_io_ctx_callback_add(t1, o2)
<1>1. /\ t1 \in Registries /\ \E d : FreeList(t1, d, k)
      /\ Keeps(t, t1, {<<>>}) /\ Gains(t, t1, {o1})
      /\ op = "write" => Owned(t1, RefSlot(t), o1) /\ RefSlot(t) # NOREF /\ Only(t, t1, {RefSlot(t)})
      /\ op # "write" => t1 = t
  <2>1. CASE op = "write"
    BY <2>1, RefSound DEF luv_io_ctx_add
  <2>2. CASE op # "write"
    BY <2>2 DEF luv_io_ctx_add, Keeps, Gains
  <2> QED BY <2>1, <2>2
<1> HIDE DEF t1
<1>2. PICK d : FreeList(t1, d, k)
  BY <1>1
<1>3. /\ u \in Registries /\ \E e : FreeList(u, e, k)
      /\ Owned(u, RefSlot(t1), o2) /\ RefSlot(t1) # NOREF
      /\ Keeps(t1, u, {<<>>}) /\ Gains(t1, u, {o2}) /\ Only(t1, u, {RefSlot(t1)})
  BY <1>1, <1>2, RefSound DEF luv_io_ctx_callback_add
<1> HIDE DEF u
<1>4. o1 # <<>> /\ o2 # <<>>
  BY OwnersApart
<1>5. Keeps(t, u, {<<>>}) /\ Gains(t, u, {o1, o2})
  BY <1>1, <1>3 DEF Keeps, Gains
<1>6. op = "write" => Owned(u, RefSlot(t), o1)
  BY <1>1, <1>3, <1>4 DEF Keeps, Owned
<1>7. Only(t, u, {RefSlot(t1)} \cup (IF op = "write" THEN {RefSlot(t)} ELSE {}))
  BY <1>1, <1>3 DEF Only
<1> QED BY <1>1, <1>3, <1>5, <1>6, <1>7 DEF t1, u

\* Both references of a request given up.
LEMMA FsUnrefs ==
  ASSUME NEW t \in Registries, Len(t.slots) <= MaxSlots, NEW c, NEW k, FreeList(t, c, k),
         NEW r \in Reqs, NEW q, Owned(t, q.cb, <<"cb", r>>),
         q.data # NOREF => Owned(t, q.data, <<"data", r>>)
  PROVE  LET u == luv_io_ctx_unref(t, q)
         IN  /\ u \in Registries /\ \E d : FreeList(u, d, k)
             /\ Keeps(t, u, {<<"cb", r>>, <<"data", r>>}) /\ Gains(t, u, {<<>>})
             /\ Owned(u, q.cb, <<>>)
             /\ q.data # NOREF => Owned(u, q.data, <<>>)
<1> DEFINE t1 == luaL_unref(t, q.data)
           u  == luaL_unref(t1, q.cb)
<1>1. /\ t1 \in Registries /\ \E d : FreeList(t1, d, k) /\ Len(t1.slots) <= MaxSlots
      /\ Keeps(t, t1, {<<"data", r>>}) /\ Gains(t, t1, {<<>>})
      /\ q.data # NOREF => Owned(t1, q.data, <<>>)
  <2>1. CASE q.data = NOREF
    BY <2>1 DEF luaL_unref, Keeps, Gains
  <2>2. CASE q.data # NOREF
    BY <2>2, UnrefSound, OwnersApart
  <2> QED BY <2>1, <2>2
<1> HIDE DEF t1
<1>2. PICK d : FreeList(t1, d, k)
  BY <1>1
<1>3. Owned(t1, q.cb, <<"cb", r>>) /\ <<"cb", r>> \in Owners
  BY <1>1, OwnersApart, OwnersDiffer DEF Keeps, Owned
<1>4. /\ u \in Registries /\ \E e : FreeList(u, e, k)
      /\ Keeps(t1, u, {<<"cb", r>>}) /\ Gains(t1, u, {<<>>}) /\ Owned(u, q.cb, <<>>)
      /\ Len(u.slots) = Len(t1.slots)
  BY <1>1, <1>2, <1>3, UnrefSound
<1>5. DOMAIN u.slots = DOMAIN t1.slots
  BY <1>1, <1>4 DEF Registries
<1>6. u = luv_io_ctx_unref(t, q)
  BY DEF luv_io_ctx_unref, t1
<1> HIDE DEF u
<1>7. Keeps(t, u, {<<"cb", r>>, <<"data", r>>}) /\ Gains(t, u, {<<>>})
  BY <1>1, <1>4 DEF Keeps, Gains
<1>8. q.data # NOREF => Owned(u, q.data, <<>>)
  BY <1>1, <1>4, <1>5 DEF Owned, Gains
<1> QED BY <1>4, <1>6, <1>7, <1>8

-----------------------------------------------------------------------------
\* The invariant after a call: the parts of it.
LEMMA InvAfter ==
  ASSUME RegistryTypeOK', UsersSound', ~foreign', \E c : FreeList(Registry', c, cut')
  PROVE  RegistryInv'
BY DEF RegistryInv

\* A request that is queued has its own slots.
LEMMA Queue_Inv ==
  ASSUME RegistryInv, NEW r \in Reqs, NEW op \in Ops \cup {Query}, Queue(r, op)
  PROVE  RegistryInv'
<1> DEFINE t1 == luv_io_ctx_add(Registry, op, <<"data", r>>)
           t2 == luv_io_ctx_callback_add(t1, <<"cb", r>>)
           q  == [op |-> op, cb |-> RefSlot(t1), data |-> IF op = "write" THEN RefSlot(Registry) ELSE NOREF]
<1>1. /\ Becomes(t2) /\ reqs[r].op = NoOne
      /\ reqs' = [reqs EXCEPT ![r] = q]
      /\ UNCHANGED <<running, parsers, parsing, gens, conns, cut, abused, foreign>>
      /\ Calls
  BY DEF Queue
<1>2. /\ RegistryTypeOK /\ UsersSound /\ ~foreign /\ ~abused
      /\ Registry \in Registries /\ Registry.slots = slots
      /\ \E c : FreeList(Registry, c, cut)
  BY <1>1, CallsSound
<1>3. PICK c : FreeList(Registry, c, cut)
  BY <1>2
<1>4. /\ t2 \in Registries /\ \E d : FreeList(t2, d, cut)
      /\ Keeps(Registry, t2, {<<>>}) /\ Gains(Registry, t2, {<<"data", r>>, <<"cb", r>>})
      /\ Owned(t2, RefSlot(t1), <<"cb", r>>) /\ RefSlot(t1) # NOREF
      /\ op = "write" => Owned(t2, RefSlot(Registry), <<"data", r>>) /\ RefSlot(Registry) # NOREF
      /\ \A i \in DOMAIN t2.slots :
           \/ i = RefSlot(t1) \/ (op = "write" /\ i = RefSlot(Registry))
           \/ i \in DOMAIN slots /\ t2.slots[i].owner = slots[i].owner
  <2>1. <<"data", r>> \in Owners \cup {Leaked} /\ <<"cb", r>> \in Owners \cup {Leaked}
    BY OwnersApart
  <2>2. /\ t2 \in Registries /\ \E d : FreeList(t2, d, cut)
        /\ Keeps(Registry, t2, {<<>>}) /\ Gains(Registry, t2, {<<"data", r>>, <<"cb", r>>})
        /\ Owned(t2, RefSlot(t1), <<"cb", r>>) /\ RefSlot(t1) # NOREF
        /\ op = "write" => Owned(t2, RefSlot(Registry), <<"data", r>>) /\ RefSlot(Registry) # NOREF
        /\ Only(Registry, t2, {RefSlot(t1)} \cup (IF op = "write" THEN {RefSlot(Registry)} ELSE {}))
    BY <1>2, <1>3, <2>1, FsRefs
  <2> HIDE DEF t1, t2, q
  <2> QED BY <1>2, <2>2 DEF Only
<1>q. /\ q.op = op /\ q.cb = RefSlot(t1) /\ (op = "write" => q.data = RefSlot(Registry))
      /\ (op # "write" => q.data = NOREF)
  OBVIOUS
<1> HIDE DEF t1, t2, q
<1>5. /\ Registry' = t2 /\ slots' = t2.slots
      /\ slots' \in Seq(SlotRecs) /\ Len(slots') <= MaxSlots /\ free' \in Slots
      /\ \A i \in DOMAIN t2.slots : i \in Slots /\ i # NOREF
  BY <1>1, <1>4, BecomesTyped
<1>6. q \in [op : Ops \cup {NoOne, Query}, cb : Slots, data : Slots]
  <2>1. q.cb \in Slots /\ q.data \in Slots
    BY <1>4, <1>5, <1>q, RegistryAssumption DEF Owned, NOREF, Slots
  <2> QED BY <2>1 DEF q
<1>7. RegistryTypeOK'
  BY <1>1, <1>2, <1>5, <1>6 DEF RegistryTypeOK, SlotRecs
<1>8. /\ reqs'[r] = q /\ \A p \in Reqs : p # r => reqs'[p] = reqs[p]
  BY <1>1, <1>2 DEF RegistryTypeOK
<1>9. ParsersOwn' /\ GensOwn' /\ ConnsOwn'
  BY <1>1, <1>2, <1>4, <1>5, OthersKept, OwnersApart DEF UsersSound
<1>10. RequestsOwn'
  <2> SUFFICES ASSUME NEW p \in Reqs
               PROVE  /\ reqs'[p].cb # NOREF => Owned(t2, reqs'[p].cb, <<"cb", p>>)
                      /\ reqs'[p].data # NOREF => Owned(t2, reqs'[p].data, <<"data", p>>)
    BY <1>5 DEF RequestsOwn
  <2>1. CASE p = r
    BY <1>4, <1>8, <1>q, <2>1
  <2>2. CASE p # r
    <3>1. /\ reqs[p].cb # NOREF => Owned(Registry, reqs[p].cb, <<"cb", p>>)
          /\ reqs[p].data # NOREF => Owned(Registry, reqs[p].data, <<"data", p>>)
      BY <1>2 DEF UsersSound, RequestsOwn
    <3> QED BY <1>4, <1>8, <2>2, <3>1, OwnersApart DEF Keeps, Owned
  <2> QED BY <2>1, <2>2
<1>11. RequestsReady'
  <2>1. r # running /\ Query # "write"
    BY <1>1, <1>2, RegistryAssumption DEF UsersSound, RequestsReady, Query, NoOne
  <2>2. op # NoOne /\ Query # NoOne /\ Query \notin Ops
    BY RegistryAssumption DEF Query, NoOne
  <2>3. RequestsReady /\ running' = running
    BY <1>1, <1>2 DEF UsersSound
  <2> QED BY <1>4, <1>8, <1>q, <2>1, <2>2, <2>3 DEF RequestsReady
<1>12. RequestsName'
  <2> SUFFICES ASSUME NEW i \in DOMAIN t2.slots, NEW p \in Reqs,
                      t2.slots[i].owner \in {<<"cb", p>>, <<"data", p>>}
               PROVE  i \in {reqs'[p].cb, reqs'[p].data}
    BY <1>5 DEF RequestsName
  <2>1. CASE p = r
    <3>1. CASE i \in DOMAIN slots /\ t2.slots[i].owner = slots[i].owner
      <4>1. i \in {reqs[r].cb, reqs[r].data}
        BY <1>2, <2>1, <3>1 DEF UsersSound, RequestsName
      <4>2. i = NOREF
        BY <1>1, <1>2, <4>1 DEF UsersSound, RequestsReady
      <4> QED BY <1>5, <4>2
    <3>2. CASE i = RefSlot(t1) \/ (op = "write" /\ i = RefSlot(Registry))
      BY <1>8, <1>q, <2>1, <3>2
    <3> QED BY <1>4, <3>1, <3>2
  <2>2. CASE p # r
    <3>1. t2.slots[i].owner \notin {<<"data", r>>, <<"cb", r>>}
      BY <2>2, OwnersDiffer
    <3>2. i \in DOMAIN slots /\ t2.slots[i].owner = slots[i].owner
      BY <1>2, <1>4, <3>1 DEF Gains
    <3> QED BY <1>2, <1>8, <2>2, <3>2 DEF UsersSound, RequestsName
  <2> QED BY <2>1, <2>2
<1>13. ParsingReady'
  BY <1>1, <1>2 DEF UsersSound, ParsingReady
<1> QED BY <1>1, <1>2, <1>4, <1>5, <1>7, <1>9, <1>10, <1>11, <1>12, <1>13, InvAfter DEF UsersSound

\* A refused or a synchronous call leaves slots behind and takes none from
\* anybody.
LEMMA FS_CALL_Inv ==
  ASSUME RegistryInv, NEW op \in Ops, FS_CALL_refused(op) \/ FS_CALL_sync(op)
  PROVE  RegistryInv'
<1>1. Calls /\ UNCHANGED <<users, cut, abused, foreign>>
  BY DEF FS_CALL_refused, FS_CALL_sync
<1>2. /\ RegistryTypeOK /\ UsersSound /\ ~foreign /\ ~abused
      /\ Registry \in Registries /\ Registry.slots = slots
      /\ \E c : FreeList(Registry, c, cut)
  BY <1>1, CallsSound
<1>3. PICK c : FreeList(Registry, c, cut)
  BY <1>2
<1>4. PICK t \in Registries :
        /\ Becomes(t) /\ \E d : FreeList(t, d, cut)
        /\ Keeps(Registry, t, {<<>>}) /\ Gains(Registry, t, {Leaked})
  <2>1. CASE FS_CALL_refused(op)
    <3> DEFINE t2 == luv_io_ctx_callback_add(luv_io_ctx_add(Registry, op, Leaked), Leaked)
    <3>1. /\ t2 \in Registries /\ \E d : FreeList(t2, d, cut)
          /\ Keeps(Registry, t2, {<<>>}) /\ Gains(Registry, t2, {Leaked, Leaked})
      BY <1>2, <1>3, FsRefs
    <3>2. Becomes(t2)
      BY <2>1 DEF FS_CALL_refused
    <3> HIDE DEF t2
    <3>3. {Leaked, Leaked} = {Leaked}
      OBVIOUS
    <3> QED BY <3>1, <3>2, <3>3
  <2>2. CASE FS_CALL_sync(op)
    <3>1. Becomes(luaL_ref(Registry, Leaked))
      BY <2>2 DEF FS_CALL_sync, luv_io_ctx_add
    <3> QED BY <1>2, <1>3, <3>1, RefSound
  <2> QED BY <2>1, <2>2
<1>5. /\ Registry' = t /\ slots' = t.slots
      /\ slots' \in Seq(SlotRecs) /\ Len(slots') <= MaxSlots /\ free' \in Slots
  BY <1>4, BecomesTyped
<1>6. RegistryTypeOK'
  BY <1>1, <1>2, <1>5 DEF RegistryTypeOK, SlotRecs, users
<1>7. RequestsOwn' /\ ParsersOwn' /\ GensOwn' /\ ConnsOwn'
  BY <1>1, <1>2, <1>4, <1>5, OthersKept, OwnersApart DEF UsersSound, users
<1>8. RequestsName'
  <2>1. reqs' = reqs /\ \A r \in Reqs : <<"cb", r>> \notin {Leaked} /\ <<"data", r>> \notin {Leaked}
    BY <1>1, OwnersApart DEF users
  <2> QED BY <1>2, <1>4, <1>5, <2>1, NamesKept DEF UsersSound
<1>9. RequestsReady' /\ ParsingReady'
  BY <1>1, <1>2 DEF UsersSound, RequestsReady, ParsingReady, users
<1> QED BY <1>1, <1>2, <1>4, <1>5, <1>6, <1>7, <1>8, <1>9, InvAfter DEF UsersSound

\* One value below others on the stack.
LEMMA Below ==
  ASSUME NEW S, NEW y \in Seq(S), Len(y) = 1, NEW v \in Seq(S)
  PROVE  y \o v \in Seq(S) /\ Len(y \o v) = Len(v) + 1 /\ (y \o v)[1] = y[1]
<1>1. /\ y \o v \in Seq(S) /\ Len(y \o v) = Len(y) + Len(v)
      /\ \A i \in 1 .. Len(y) + Len(v) : (y \o v)[i] = IF i <= Len(y) THEN y[i] ELSE v[i - Len(y)]
  BY ConcatProperties, Zenon
<1>2. Len(v) \in Nat
  OBVIOUS
<1>3. 1 \in 1 .. Len(y) + Len(v) /\ 1 <= Len(y)
  BY <1>2
<1>4. (y \o v)[1] = y[1]
  BY <1>1, <1>3
<1>5. Len(y) + Len(v) = Len(v) + 1
  BY <1>2
<1> QED BY <1>1, <1>4, <1>5, Zenon

\* luv_acall finds the callback below what luv_process_fs_result pushed: that is
\* one value more than it counts.
LEMMA CallsItsCallback ==
  ASSUME NEW op, NEW ok \in BOOLEAN
  PROVE  luv_acall(luv_process_fs_result(op, ok)) = "callback"
<1> DEFINE S == {"callback", "nil", "error", "chunk", "length", "value"}
           result == Results[op]
           v == Values(result)
           n == IF ~ok \/ result = "nothing" THEN 0 ELSE IF result = "chunk" THEN 2 ELSE 1
           nil == <<"nil">>
           s == IF ok THEN nil \o v ELSE luv_push_async_error
           cb == <<"callback">>
<1>1. luv_acall(luv_process_fs_result(op, ok)) = LET stack == cb \o s IN stack[Len(stack) - (n + 1)]
  BY DEF luv_acall, luv_process_fs_result
<1>2. cb \in Seq(S) /\ Len(cb) = 1 /\ cb[1] = "callback" /\ nil \in Seq(S) /\ Len(nil) = 1
  OBVIOUS
<1> HIDE DEF result, cb, nil
<1>3. v \in Seq(S) /\ (ok => Len(v) = n)
  <2>1. CASE result = "nothing"
    BY <2>1 DEF Values
  <2>2. CASE result = "chunk"
    BY <2>2 DEF Values
  <2>3. CASE result # "nothing" /\ result # "chunk"
    BY <2>3 DEF Values
  <2> QED BY <2>1, <2>2, <2>3
<1>4. s \in Seq(S) /\ Len(s) = n + 1 /\ n \in Nat
  <2>1. n \in Nat
    OBVIOUS
  <2>2. CASE ~ok
    BY <2>2 DEF luv_push_async_error
  <2> HIDE DEF v, S, n
  <2>3. CASE ok
    <3>1. nil \o v \in Seq(S) /\ Len(nil \o v) = Len(v) + 1
      BY <1>2, <1>3, Below, Zenon
    <3>2. s = nil \o v /\ Len(v) = n
      BY <1>3, <2>3
    <3> QED BY <2>1, <3>1, <3>2
  <2> QED BY <2>1, <2>2, <2>3
<1> HIDE DEF s, n, S
<1>5. Len(cb \o s) = Len(s) + 1 /\ (cb \o s)[1] = cb[1]
  BY <1>2, <1>4, Below, Zenon
<1>6. Len(cb \o s) - (n + 1) = 1
  BY <1>4, <1>5
<1> QED BY <1>1, <1>2, <1>5, <1>6

\* luv_after_fs finds the request's own callback and gives up both slots.
LEMMA luv_after_fs_Inv ==
  ASSUME RegistryInv, NEW r \in Reqs, luv_after_fs(r)
  PROVE  RegistryInv'
<1> DEFINE q == reqs[r]
           u == luv_io_ctx_unref(Registry, q)
<1>1. /\ Calls /\ running = NoOne /\ q.op \in Ops
      /\ \E ok \in BOOLEAN : foreign' = \/ OwnerOf(q.cb) # <<"cb", r>>
                                       \/ luv_acall(luv_process_fs_result(q.op, ok)) # "callback"
      /\ Becomes(u)
      /\ reqs' = [reqs EXCEPT ![r].cb = NOREF, ![r].data = NOREF]
      /\ running' = r
      /\ UNCHANGED <<parsers, parsing, gens, conns, cut, abused>>
  BY DEF luv_after_fs
<1>2. /\ RegistryTypeOK /\ UsersSound /\ ~foreign /\ ~abused
      /\ Registry \in Registries /\ Registry.slots = slots /\ Len(Registry.slots) <= MaxSlots
      /\ \E c : FreeList(Registry, c, cut)
  BY <1>1, CallsSound
<1>3. PICK c : FreeList(Registry, c, cut)
  BY <1>2
<1>4. running = NoOne /\ r # NoOne /\ \A p \in Reqs : p # running
  BY <1>1, RegistryAssumption
<1>5. /\ Owned(Registry, q.cb, <<"cb", r>>) /\ q.cb # NOREF
      /\ q.data # NOREF => Owned(Registry, q.data, <<"data", r>>)
  BY <1>1, <1>2, <1>4 DEF UsersSound, RequestsReady, RequestsOwn
<1>6. /\ u \in Registries /\ \E d : FreeList(u, d, cut)
      /\ Keeps(Registry, u, {<<"cb", r>>, <<"data", r>>}) /\ Gains(Registry, u, {<<>>})
      /\ Owned(u, q.cb, <<>>)
      /\ q.data # NOREF => Owned(u, q.data, <<>>)
  BY <1>2, <1>3, <1>5, FsUnrefs
<1>7. /\ reqs'[r].op = q.op /\ reqs'[r].cb = NOREF /\ reqs'[r].data = NOREF
      /\ \A p \in Reqs : p # r => reqs'[p] = reqs[p]
      /\ reqs' \in [Reqs -> [op : Ops \cup {NoOne, Query}, cb : Slots, data : Slots]]
  <2> HIDE DEF u
  <2>1. reqs \in [Reqs -> [op : Ops \cup {NoOne, Query}, cb : Slots, data : Slots]] /\ NOREF \in Slots
    BY <1>2, RegistryAssumption DEF RegistryTypeOK, NOREF, Slots
  <2>2. reqs' = [reqs EXCEPT ![r] = [reqs[r] EXCEPT !.cb = NOREF, !.data = NOREF]]
    BY <1>1, <2>1
  <2>3. reqs[r] \in [op : Ops \cup {NoOne, Query}, cb : Slots, data : Slots]
    BY <2>1
  <2> DEFINE x == [reqs[r] EXCEPT !.cb = NOREF, !.data = NOREF]
  <2>4. /\ x \in [op : Ops \cup {NoOne, Query}, cb : Slots, data : Slots]
        /\ x.op = q.op /\ x.cb = NOREF /\ x.data = NOREF
    BY <2>1, <2>3
  <2> HIDE DEF x
  <2>5. reqs' = [reqs EXCEPT ![r] = x]
    BY <2>2 DEF x
  <2> QED BY <2>1, <2>4, <2>5
<1>8. running' \in Reqs \cup {NoOne} /\ running' = r
  BY <1>1
<1> HIDE DEF q, u
<1>9. /\ Registry' = u /\ slots' = u.slots
      /\ slots' \in Seq(SlotRecs) /\ Len(slots') <= MaxSlots /\ free' \in Slots
      /\ \A i \in DOMAIN u.slots : i \in Slots /\ i # NOREF
  BY <1>1, <1>6, BecomesTyped
<1>10. RegistryTypeOK' /\ ~foreign'
  <2>1. OwnerOf(q.cb) = <<"cb", r>>
    BY <1>2, <1>5 DEF OwnerOf, Owned
  <2>2. foreign' = FALSE
    BY <1>1, <2>1, CallsItsCallback
  <2> QED BY <1>1, <1>2, <1>7, <1>8, <1>9, <2>2 DEF RegistryTypeOK, SlotRecs
<1>11. ParsersOwn' /\ GensOwn' /\ ConnsOwn'
  BY <1>1, <1>2, <1>6, <1>9, OthersKept, OwnersDiffer DEF UsersSound
<1>12. RequestsOwn'
  <2> SUFFICES ASSUME NEW p \in Reqs
               PROVE  /\ reqs'[p].cb # NOREF => Owned(u, reqs'[p].cb, <<"cb", p>>)
                      /\ reqs'[p].data # NOREF => Owned(u, reqs'[p].data, <<"data", p>>)
    BY <1>9 DEF RequestsOwn
  <2>1. CASE p = r
    BY <1>7, <2>1
  <2>2. CASE p # r
    <3>1. /\ reqs[p].cb # NOREF => Owned(Registry, reqs[p].cb, <<"cb", p>>)
          /\ reqs[p].data # NOREF => Owned(Registry, reqs[p].data, <<"data", p>>)
      BY <1>2 DEF UsersSound, RequestsOwn
    <3> QED BY <1>6, <1>7, <2>2, <3>1, OwnersDiffer DEF Keeps, Owned
  <2> QED BY <2>1, <2>2
<1>13. RequestsReady'
  <2>1. q.op # NoOne /\ q.op # Query
    BY <1>1, RegistryAssumption
  <2> QED BY <1>1, <1>2, <1>4, <1>7, <1>8, <2>1 DEF UsersSound, RequestsReady, q
<1>14. RequestsName'
  <2> SUFFICES ASSUME NEW i \in DOMAIN u.slots, NEW p \in Reqs,
                      u.slots[i].owner \in {<<"cb", p>>, <<"data", p>>}
               PROVE  i \in {reqs'[p].cb, reqs'[p].data}
    BY <1>9 DEF RequestsName
  <2>1. u.slots[i].owner # <<>>
    BY OwnersApart
  <2>2. i \in DOMAIN slots /\ u.slots[i].owner = slots[i].owner
    BY <1>2, <1>6, <2>1 DEF Gains
  <2>3. i \in {reqs[p].cb, reqs[p].data}
    BY <1>2, <2>2 DEF UsersSound, RequestsName
  <2>4. CASE p = r
    <3>1. i = q.cb \/ (i = q.data /\ q.data # NOREF)
      BY <1>9, <2>3, <2>4 DEF q
    <3> QED BY <1>6, <2>1, <3>1 DEF Owned
  <2> QED BY <1>7, <2>3, <2>4
<1>15. ParsingReady'
  BY <1>1, <1>2, <1>4, <1>8 DEF UsersSound, ParsingReady
<1> QED BY <1>1, <1>6, <1>9, <1>10, <1>11, <1>12, <1>13, <1>14, <1>15, InvAfter DEF UsersSound

\* The request is freed when its callback has returned; it has no slots then.
LEMMA luv_after_fs_return_Inv ==
  ASSUME RegistryInv, luv_after_fs_return
  PROVE  RegistryInv'
<1>1. /\ Calls /\ running # NoOne /\ reqs' = [reqs EXCEPT ![running] = NoRequest]
      /\ running' = NoOne /\ registry' = registry
      /\ UNCHANGED <<parsers, parsing, gens, conns, cut, abused, foreign>>
  BY DEF luv_after_fs_return, registry
<1>2. /\ RegistryTypeOK /\ UsersSound /\ ~foreign /\ ~abused
      /\ Registry \in Registries /\ Registry.slots = slots /\ Len(Registry.slots) <= MaxSlots
      /\ \E c : FreeList(Registry, c, cut)
  BY <1>1, CallsSound
<1>3. PICK c : FreeList(Registry, c, cut)
  BY <1>2
<1>4. /\ Registry' = Registry /\ slots' = slots
      /\ slots' \in Seq(SlotRecs) /\ Len(slots') <= MaxSlots /\ free' \in Slots
      /\ Keeps(Registry, Registry', {}) /\ Gains(Registry, Registry', {})
  BY <1>1, <1>2, RegistryKept
<1>5. /\ running \in Reqs /\ NoRequest \in [op : Ops \cup {NoOne, Query}, cb : Slots, data : Slots]
      /\ NoRequest.op = NoOne /\ NoRequest.cb = NOREF /\ NoRequest.data = NOREF
  BY <1>1, <1>2, RegistryAssumption DEF RegistryTypeOK, UsersSound, NoRequest, Slots, NOREF
<1>6. /\ reqs'[running] = NoRequest
      /\ \A p \in Reqs : p # running => reqs'[p] = reqs[p]
      /\ reqs' \in [Reqs -> [op : Ops \cup {NoOne, Query}, cb : Slots, data : Slots]]
  BY <1>1, <1>2, <1>5 DEF RegistryTypeOK
<1>7. RegistryTypeOK'
  BY <1>1, <1>2, <1>4, <1>5, <1>6 DEF RegistryTypeOK, SlotRecs
<1>8. ParsersOwn' /\ GensOwn' /\ ConnsOwn'
  BY <1>1, <1>2, <1>4, OthersKept DEF UsersSound
<1>9. RequestsOwn'
  BY <1>2, <1>4, <1>5, <1>6 DEF UsersSound, RequestsOwn
<1>10. RequestsReady' /\ ParsingReady'
  BY <1>1, <1>2, <1>5, <1>6, RegistryAssumption DEF UsersSound, RequestsReady, ParsingReady
<1>11. RequestsName'
  <2> SUFFICES ASSUME NEW i \in DOMAIN slots, NEW p \in Reqs,
                      slots[i].owner \in {<<"cb", p>>, <<"data", p>>}
               PROVE  i \in {reqs'[p].cb, reqs'[p].data}
    BY <1>4 DEF RequestsName
  <2>1. i \in {reqs[p].cb, reqs[p].data} /\ i # NOREF
    BY <1>2, RegistryTyped DEF UsersSound, RequestsName
  <2>2. p # running
    BY <1>2, <2>1 DEF UsersSound, RequestsReady
  <2> QED BY <1>6, <2>1, <2>2
<1> QED BY <1>1, <1>2, <1>3, <1>4, <1>7, <1>8, <1>9, <1>10, <1>11, InvAfter DEF UsersSound

-----------------------------------------------------------------------------
\* What a call does not concern the requests with.
LEMMA RequestsStay ==
  ASSUME UsersSound, reqs' = reqs, running' = running,
         NEW O, NEW N, Keeps(Registry, Registry', O), Gains(Registry, Registry', N),
         \A r \in Reqs : <<"cb", r>> \notin O \cup N /\ <<"data", r>> \notin O \cup N
  PROVE  RequestsOwn' /\ RequestsReady' /\ RequestsName'
<1>1. RequestsOwn'
  BY OthersKept DEF UsersSound
<1>2. RequestsName'
  <2>1. RequestsName /\ \A r \in Reqs : <<"cb", r>> \notin N /\ <<"data", r>> \notin N
    BY DEF UsersSound
  <2> QED BY <2>1, NamesKept
<1>3. RequestsReady'
  BY DEF UsersSound, RequestsReady
<1> QED BY <1>1, <1>2, <1>3

\* A call that changes neither the registry nor a reference in it.
LEMMA RegistryUntouched ==
  ASSUME RegistryInv, Calls, registry' = registry, cut' = cut, foreign' \in BOOLEAN, abused' \in BOOLEAN,
         UNCHANGED <<reqs, running, parsers, conns>>,
         ~abused' => ~foreign' /\ GensOwn' /\ ParsingReady',
         gens' \in [Gens -> [live : BOOLEAN, r : Slots]],
         parsing' \in Seq(ParseCalls), Len(parsing') <= MaxNested
  PROVE  RegistryInv'
<1>2. /\ RegistryTypeOK /\ UsersSound /\ ~foreign /\ ~abused
      /\ Registry \in Registries /\ Registry.slots = slots /\ Len(Registry.slots) <= MaxSlots
      /\ \E c : FreeList(Registry, c, cut)
  BY CallsSound
<1>3. PICK c : FreeList(Registry, c, cut)
  BY <1>2
<1>4. /\ Registry' = Registry /\ slots' = slots
      /\ slots' \in Seq(SlotRecs) /\ Len(slots') <= MaxSlots /\ free' \in Slots
      /\ Keeps(Registry, Registry', {}) /\ Gains(Registry, Registry', {})
  BY <1>2, RegistryKept
<1>5. RegistryTypeOK'
  BY <1>2, <1>4 DEF RegistryTypeOK, SlotRecs
<1>6. RequestsOwn' /\ RequestsReady' /\ RequestsName'
  BY <1>2, <1>4, RequestsStay
<1>7. ParsersOwn' /\ ConnsOwn'
  BY <1>2, <1>4, OthersKept DEF UsersSound
<1> QED BY <1>3, <1>4, <1>5, <1>6, <1>7 DEF RegistryInv, UsersSound

\* Calls that return leave the outer ones as they were.
LEMMA CallsCut ==
  ASSUME NEW s \in Seq(ParseCalls), Len(s) <= MaxNested, s # <<>>, NEW u,
         u = Front(s) \/ \E k \in 0..(Len(s) - 1) : u = SubSeq(s, 1, k)
  PROVE  /\ u \in Seq(ParseCalls) /\ Len(u) <= MaxNested
         /\ \A i \in DOMAIN u : i \in DOMAIN s /\ u[i] = s[i]
<1>1. PICK k \in 0..(Len(s) - 1) : u = SubSeq(s, 1, k)
  BY DEF Front
<1>2. k \in Nat /\ k < Len(s) /\ Len(s) \in Nat
  OBVIOUS
<1>3. Len(u) = k /\ \A i \in 1..k : u[i] = s[i]
  BY <1>1, <1>2
<1>4. u \in Seq(ParseCalls)
  BY <1>1, <1>2
<1> QED BY <1>2, <1>3, <1>4, RegistryAssumption

\* The calls that only look at the registry look at their own slots.
LEMMA ReadersInv ==
  ASSUME RegistryInv,
         \/ \E p \in Parsers : lyajl_parse(p) \/ lyajl_complete_parse(p)
         \/ lyajl_event \/ lyajl_parse_return \/ lyajl_raise
         \/ \E g \in Gens : lyajl_new_generator(g) \/ lyajl_gen_calls(g) \/ lyajl_gen_get_buf(g)
  PROVE  RegistryInv'
<1>1. Calls /\ registry' = registry /\ cut' = cut /\ UNCHANGED <<reqs, running, parsers, conns>>
  BY DEF lyajl_parse, lyajl_complete_parse, lyajl_event, lyajl_parse_return, lyajl_raise, lyajl_new_generator, lyajl_gen_calls, lyajl_gen_get_buf,
         users, registry
<1>2. /\ RegistryTypeOK /\ UsersSound /\ ~foreign /\ ~abused
      /\ Registry \in Registries /\ Registry.slots = slots /\ Len(Registry.slots) <= MaxSlots
      /\ \E c : FreeList(Registry, c, cut)
  BY <1>1, CallsSound
<1>3. PICK c : FreeList(Registry, c, cut)
  BY <1>2
<1>4. /\ parsers \in [Parsers -> [st : {"none", "open", "completed"}, r : Slots]]
      /\ parsing \in Seq(ParseCalls) /\ Len(parsing) <= MaxNested /\ gens \in [Gens -> [live : BOOLEAN, r : Slots]]
      /\ Registry' = Registry
  BY <1>1, <1>2, RegistryKept DEF RegistryTypeOK
<1>5. ParsersOwn /\ GensOwn /\ ParsingReady
  BY <1>2 DEF UsersSound
<1>6. \A i, o : Owned(Registry, i, o) => OwnerOf(i) = o
  <2>1. \A i : i \in DOMAIN slots => i # NOREF
    BY <1>2, RegistryTyped
  <2> QED BY <1>2, <2>1 DEF Owned, OwnerOf
<1>7. ASSUME NEW p \in Parsers, lyajl_parse(p) \/ lyajl_complete_parse(p) PROVE RegistryInv'
  <2>1. PICK x \in ParseCalls : x.p = p /\ parsing' = Append(parsing, x)
    BY <1>7 DEF lyajl_parse, lyajl_complete_parse, ParseCalls
  <2>2. /\ gens' = gens /\ abused' = abused /\ foreign' = foreign
        /\ parsers[p].st # "none" /\ Len(parsing) < MaxNested
    BY <1>7 DEF lyajl_parse, lyajl_complete_parse
  <2>3. parsing' \in Seq(ParseCalls) /\ Len(parsing') <= MaxNested
    BY <1>4, <2>1, <2>2, RegistryAssumption
  <2>4. GensOwn' /\ ParsingReady'
    <3>1. \A k \in DOMAIN parsing' : (k \in DOMAIN parsing /\ parsing'[k] = parsing[k]) \/ parsing'[k] = x
      BY <1>4, <2>1
    <3> QED BY <1>1, <1>4, <1>5, <2>1, <2>2, <3>1 DEF GensOwn, ParsingReady
  <2>5. ~foreign' /\ foreign' \in BOOLEAN /\ abused' \in BOOLEAN
    BY <1>2, <2>2 DEF RegistryTypeOK
  <2> QED BY <1>1, <1>4, <2>2, <2>3, <2>4, <2>5, RegistryUntouched
<1>8. CASE lyajl_event
  <2> DEFINE p == Innermost.p
  <2>1. ~abused' => ~foreign'
    <3>1. /\ parsing # <<>> /\ abused' = (abused \/ parsers[p].st = "completed")
          /\ foreign' = ~(lyajl_on_scalar(p) /\ lyajl_on_container(p))
      BY <1>8 DEF lyajl_event
    <3>2. p \in Parsers /\ parsers[p].st # "none"
      <4>1. Len(parsing) \in DOMAIN parsing
        BY <1>4, <3>1
      <4>2. Innermost \in ParseCalls
        BY <1>4, <4>1 DEF Innermost
      <4> QED BY <1>5, <4>1, <4>2 DEF ParsingReady, Innermost, ParseCalls
    <3> HIDE DEF p
    <3>3. ~abused' => parsers[p].st = "open"
      <4>1. parsers[p].st \in {"none", "open", "completed"}
        BY <1>4, <3>2
      <4> QED BY <3>1, <3>2, <4>1
    <3>4. ~abused' => OwnerOf(parsers[p].r) = <<"parser", p>>
      BY <1>4, <1>5, <1>6, <3>2, <3>3 DEF ParsersOwn
    <3> QED BY <3>1, <3>4 DEF lyajl_on_scalar, lyajl_on_container
  <2>2. foreign' \in BOOLEAN /\ abused' \in BOOLEAN /\ gens' = gens /\ parsing' = parsing
    BY <1>8 DEF lyajl_event, users
  <2>3. GensOwn' /\ ParsingReady'
    BY <1>1, <1>4, <1>5, <2>2 DEF GensOwn, ParsingReady
  <2> QED BY <1>1, <1>4, <2>1, <2>2, <2>3, RegistryUntouched
<1>9. CASE lyajl_parse_return \/ lyajl_raise
  <2>1. /\ parsing # <<>> /\ gens' = gens /\ abused' = abused /\ foreign' = foreign
        /\ parsing' = Front(parsing) \/ \E k \in 0..(Len(parsing) - 1) : parsing' = SubSeq(parsing, 1, k)
    BY <1>9 DEF lyajl_parse_return, lyajl_raise
  <2>2. /\ parsing' \in Seq(ParseCalls) /\ Len(parsing') <= MaxNested
        /\ \A i \in DOMAIN parsing' : i \in DOMAIN parsing /\ parsing'[i] = parsing[i]
    BY <1>4, <2>1, CallsCut, RegistryAssumption
  <2>3. GensOwn' /\ ParsingReady'
    BY <1>1, <1>4, <1>5, <2>1, <2>2 DEF GensOwn, ParsingReady
  <2>4. ~foreign' /\ foreign' \in BOOLEAN /\ abused' \in BOOLEAN
    BY <1>2, <2>1 DEF RegistryTypeOK
  <2> QED BY <1>1, <1>4, <2>1, <2>2, <2>3, <2>4, RegistryUntouched
<1>10. ASSUME NEW g \in Gens, lyajl_new_generator(g) PROVE RegistryInv'
  <2>1. gens' = [gens EXCEPT ![g] = [live |-> TRUE, r |-> NOREF]] /\ parsing' = parsing /\ abused' = abused /\ foreign' = foreign
    BY <1>10 DEF lyajl_new_generator
  <2>2. gens' \in [Gens -> [live : BOOLEAN, r : Slots]]
    BY <1>4, <2>1, RegistryAssumption DEF NOREF, Slots
  <2>3. GensOwn'
    BY <1>4, <1>5, <2>1 DEF GensOwn
  <2>4. ParsingReady' /\ ~foreign' /\ foreign' \in BOOLEAN /\ abused' \in BOOLEAN
    BY <1>1, <1>2, <1>5, <2>1 DEF ParsingReady, RegistryTypeOK
  <2> QED BY <1>1, <1>4, <2>1, <2>2, <2>3, <2>4, RegistryUntouched
<1>11. ASSUME NEW g \in Gens, lyajl_gen_calls(g) \/ lyajl_gen_get_buf(g) PROVE RegistryInv'
  <2>1. gens' = gens /\ parsing' = parsing
    BY <1>11 DEF lyajl_gen_calls, lyajl_gen_get_buf, users
  <2>2. ~foreign' /\ foreign' \in BOOLEAN /\ abused' \in BOOLEAN
    <3>1. CASE lyajl_gen_calls(g)
      <4>1. foreign' = ~(gens[g].r = NOREF \/ lyajl_gen_on_print(g)) /\ abused' = abused
        BY <3>1 DEF lyajl_gen_calls
      <4>2. gens[g].r # NOREF => lyajl_gen_on_print(g)
        BY <1>5, <1>6 DEF GensOwn, lyajl_gen_on_print
      <4> QED BY <1>2, <4>1, <4>2 DEF RegistryTypeOK
    <3>2. CASE lyajl_gen_get_buf(g)
      BY <1>2, <3>2 DEF lyajl_gen_get_buf, RegistryTypeOK
    <3> QED BY <1>11, <3>1, <3>2
  <2>3. GensOwn' /\ ParsingReady'
    BY <1>1, <1>4, <1>5, <2>1 DEF GensOwn, ParsingReady
  <2> QED BY <1>1, <1>4, <2>1, <2>2, <2>3, RegistryUntouched
<1> QED BY <1>7, <1>8, <1>9, <1>10, <1>11

\* A call that changes the registry for one user u: what it does to the other
\* users is nothing.
LEMMA RegistryTouched ==
  ASSUME RegistryInv, Calls, NEW t \in Registries, Becomes(t), \E d : FreeList(t, d, cut),
         NEW O, NEW N, Keeps(Registry, t, O), Gains(Registry, t, N),
         UNCHANGED <<reqs, running, cut, abused, foreign>>,
         parsing' = parsing \/ (parsing' \in Seq(ParseCalls) /\ Len(parsing') <= MaxNested),
         \A r \in Reqs : <<"cb", r>> \notin O \cup N /\ <<"data", r>> \notin O \cup N,
         parsers' \in [Parsers -> [st : {"none", "open", "completed"}, r : Slots]],
         gens' \in [Gens -> [live : BOOLEAN, r : Slots]],
         conns' \in [Conns -> [st : {"none", "set", "used"}, r : Slots]],
         ParsersOwn', GensOwn', ConnsOwn', ParsingReady'
  PROVE  RegistryInv'
<1>1. Calls
  OBVIOUS
<1>2. /\ RegistryTypeOK /\ UsersSound /\ ~foreign /\ ~abused
      /\ Registry \in Registries /\ Registry.slots = slots /\ Len(Registry.slots) <= MaxSlots
      /\ \E c : FreeList(Registry, c, cut)
  BY <1>1, CallsSound
<1>3. PICK c : FreeList(Registry, c, cut)
  BY <1>2
<1>4. /\ Registry' = t /\ slots' = t.slots
      /\ slots' \in Seq(SlotRecs) /\ Len(slots') <= MaxSlots /\ free' \in Slots
  BY BecomesTyped
<1>5. RegistryTypeOK'
  BY <1>2, <1>4 DEF RegistryTypeOK, SlotRecs
<1>6. RequestsOwn' /\ RequestsReady' /\ RequestsName'
  BY <1>2, <1>4, RequestsStay
<1> QED BY <1>2, <1>4, <1>5, <1>6, InvAfter DEF UsersSound

\* The typed users of a state that a call may rely on.
LEMMA UsersTyped ==
  ASSUME RegistryTypeOK, UsersSound
  PROVE  /\ parsers \in [Parsers -> [st : {"none", "open", "completed"}, r : Slots]]
         /\ gens \in [Gens -> [live : BOOLEAN, r : Slots]]
         /\ conns \in [Conns -> [st : {"none", "set", "used"}, r : Slots]]
         /\ ParsersOwn /\ GensOwn /\ ConnsOwn /\ ParsingReady
BY DEF RegistryTypeOK, UsersSound

\* ... and the parsers that are called.
LEMMA ParsingTyped ==
  ASSUME RegistryTypeOK
  PROVE  \A k \in DOMAIN parsing : parsing[k].p \in Parsers
<1>1. parsing \in Seq(ParseCalls)
  BY DEF RegistryTypeOK
<1>2. \A k \in DOMAIN parsing : parsing[k] \in ParseCalls
  BY <1>1
<1> QED BY <1>2 DEF ParseCalls

\* A new parser owns the slot of its handlers.
LEMMA lyajl_new_parser_Inv ==
  ASSUME RegistryInv, NEW p \in Parsers, lyajl_new_parser(p)
  PROVE  RegistryInv'
<1> DEFINE u == luaL_ref(Registry, <<"parser", p>>)
           x == [st |-> "open", r |-> RefSlot(Registry)]
<1>1. Calls
  BY DEF lyajl_new_parser
<1>2. /\ RegistryTypeOK /\ UsersSound /\ ~foreign /\ ~abused
      /\ Registry \in Registries /\ Registry.slots = slots /\ Len(Registry.slots) <= MaxSlots
      /\ \E c : FreeList(Registry, c, cut)
  BY <1>1, CallsSound
<1>3. PICK c : FreeList(Registry, c, cut)
  BY <1>2
<1>4. /\ Becomes(u) /\ parsers' = [parsers EXCEPT ![p] = x]
      /\ UNCHANGED <<reqs, running, parsing, gens, conns, cut, abused, foreign>>
  BY DEF lyajl_new_parser
<1>5. /\ u \in Registries /\ \E d : FreeList(u, d, cut) /\ Owned(u, RefSlot(Registry), <<"parser", p>>)
      /\ Keeps(Registry, u, {<<>>}) /\ Gains(Registry, u, {<<"parser", p>>})
  BY <1>2, <1>3, RefSound, OwnersApart
<1>6. Registry' = u /\ \A i \in DOMAIN u.slots : i \in Slots
  BY <1>4, <1>5, BecomesTyped
<1>7. x \in [st : {"none", "open", "completed"}, r : Slots] /\ x.r = RefSlot(Registry) /\ x.st = "open"
  BY <1>5, <1>6 DEF Owned
<1> HIDE DEF u, x
<1>8. /\ parsers'[p] = x /\ \A q \in Parsers : q # p => parsers'[q] = parsers[q]
      /\ parsers' \in [Parsers -> [st : {"none", "open", "completed"}, r : Slots]]
  BY <1>2, <1>4, <1>7, UsersTyped
<1>9. GensOwn' /\ ConnsOwn'
  BY <1>2, <1>4, <1>5, <1>6, OthersKept, OwnersApart, UsersTyped
<1>10. ParsersOwn'
  <2> SUFFICES ASSUME NEW q \in Parsers, parsers'[q].st = "open"
               PROVE  Owned(u, parsers'[q].r, <<"parser", q>>)
    BY <1>6 DEF ParsersOwn
  <2>1. CASE q = p
    BY <1>5, <1>7, <1>8, <2>1
  <2>2. CASE q # p
    <3>1. Owned(Registry, parsers[q].r, <<"parser", q>>)
      BY <1>2, <1>8, <2>2, UsersTyped DEF ParsersOwn
    <3> QED BY <1>5, <1>8, <2>2, <3>1, OwnersApart DEF Keeps, Owned
  <2> QED BY <2>1, <2>2
<1>11. ParsingReady'
  <2>1. ParsingReady /\ parsing' = parsing /\ \A k \in DOMAIN parsing : parsing[k].p \in Parsers
    BY <1>2, <1>4, UsersTyped, ParsingTyped
  <2> QED BY <1>7, <1>8, <2>1 DEF ParsingReady
<1>12. \A r \in Reqs : /\ <<"cb", r>> \notin {<<>>} \cup {<<"parser", p>>}
                       /\ <<"data", r>> \notin {<<>>} \cup {<<"parser", p>>}
  BY RequestsApart
<1>13. /\ gens' \in [Gens -> [live : BOOLEAN, r : Slots]]
       /\ conns' \in [Conns -> [st : {"none", "set", "used"}, r : Slots]]
  BY <1>2, <1>4, UsersTyped
<1> QED BY <1>1, <1>4, <1>5, <1>8, <1>9, <1>10, <1>11, <1>12, <1>13, RegistryTouched

\* Completing a parser gives up its slot; completing it twice is abuse.
LEMMA lyajl_complete_parse_return_Inv ==
  ASSUME RegistryInv, lyajl_complete_parse_return
  PROVE  RegistryInv'
<1>1. Calls /\ parsing # <<>> /\ parsing' = Front(parsing)
  BY DEF lyajl_complete_parse_return
<1>0. PICK p \in Parsers : p = Innermost.p /\ parsers[p].st # "none"
  <2>1. parsing \in Seq(ParseCalls) /\ ParsingReady
    BY <1>1, CallsSound DEF RegistryTypeOK, UsersSound
  <2>2. Len(parsing) \in DOMAIN parsing
    BY <1>1, <2>1
  <2>3. Innermost \in ParseCalls
    BY <2>1, <2>2 DEF Innermost
  <2> QED BY <2>1, <2>2, <2>3 DEF ParsingReady, Innermost, ParseCalls
<1> DEFINE u == luaL_unref(Registry, parsers[p].r)
<1>2. /\ RegistryTypeOK /\ UsersSound /\ ~foreign /\ ~abused
      /\ Registry \in Registries /\ Registry.slots = slots /\ Len(Registry.slots) <= MaxSlots
      /\ \E c : FreeList(Registry, c, cut)
  BY <1>1, CallsSound
<1>3. PICK c : FreeList(Registry, c, cut)
  BY <1>2
<1>4. /\ Becomes(u) /\ parsers' = [parsers EXCEPT ![p].st = "completed"] /\ parsers[p].st # "none"
      /\ abused' = (abused \/ parsers[p].st = "completed")
      /\ UNCHANGED <<reqs, running, gens, conns, cut, foreign>>
  BY <1>0 DEF lyajl_complete_parse_return
<1>n. /\ parsing' \in Seq(ParseCalls) /\ Len(parsing') <= MaxNested
      /\ \A i \in DOMAIN parsing' : i \in DOMAIN parsing /\ parsing'[i] = parsing[i]
  BY <1>1, <1>2, CallsCut DEF RegistryTypeOK
<1>5. /\ parsers'[p].st = "completed" /\ \A q \in Parsers : q # p => parsers'[q] = parsers[q]
      /\ parsers' \in [Parsers -> [st : {"none", "open", "completed"}, r : Slots]]
      /\ parsers[p].st \in {"none", "open", "completed"} /\ parsers[p].r \in Slots
  <2> HIDE DEF u
  <2> QED BY <1>2, <1>4, UsersTyped
<1>6. CASE parsers[p].st = "open"
  <2>1. Owned(Registry, parsers[p].r, <<"parser", p>>) /\ abused' = abused /\ <<"parser", p>> \in Owners
    <3>1. Owned(Registry, parsers[p].r, <<"parser", p>>) /\ <<"parser", p>> \in Owners
      BY <1>2, <1>6, UsersTyped, OwnersApart DEF ParsersOwn
    <3>2. abused' = abused
      BY <1>2, <1>4, <1>6 DEF RegistryTypeOK
    <3> QED BY <3>1, <3>2
  <2>2. /\ u \in Registries /\ \E d : FreeList(u, d, cut)
        /\ Keeps(Registry, u, {<<"parser", p>>}) /\ Gains(Registry, u, {<<>>})
    BY <1>2, <1>3, <2>1, UnrefSound
  <2>3. Registry' = u
    BY <1>4, <2>2, BecomesTyped
  <2> HIDE DEF u
  <2>4. GensOwn' /\ ConnsOwn'
    BY <1>2, <1>4, <2>2, <2>3, OthersKept, OwnersDiffer, UsersTyped
  <2>5. ParsersOwn'
    <3> SUFFICES ASSUME NEW q \in Parsers, parsers'[q].st = "open"
                 PROVE  Owned(u, parsers'[q].r, <<"parser", q>>)
      BY <2>3 DEF ParsersOwn
    <3>1. q # p /\ Owned(Registry, parsers[q].r, <<"parser", q>>)
      BY <1>2, <1>5, UsersTyped DEF ParsersOwn
    <3> QED BY <1>5, <2>2, <3>1, OwnersDiffer DEF Keeps, Owned
  <2>6. ParsingReady'
    <3>1. ParsingReady /\ \A k \in DOMAIN parsing : parsing[k].p \in Parsers
      BY <1>2, UsersTyped, ParsingTyped
    <3> QED BY <1>5, <1>n, <3>1 DEF ParsingReady
  <2>7. \A r \in Reqs : /\ <<"cb", r>> \notin {<<"parser", p>>} \cup {<<>>}
                        /\ <<"data", r>> \notin {<<"parser", p>>} \cup {<<>>}
    BY OwnersApart, OwnersDiffer
  <2>8. /\ gens' \in [Gens -> [live : BOOLEAN, r : Slots]]
        /\ conns' \in [Conns -> [st : {"none", "set", "used"}, r : Slots]]
    BY <1>2, <1>4, UsersTyped
  <2> QED BY <1>1, <1>4, <1>5, <1>n, <2>1, <2>2, <2>4, <2>5, <2>6, <2>7, <2>8, RegistryTouched
<1>7. CASE parsers[p].st = "completed"
  <2>1. u \in Registries
    <3>1. CASE parsers[p].r = NOREF
      BY <1>2, <3>1 DEF luaL_unref
    <3>2. CASE parsers[p].r # NOREF
      <4> DEFINE x == [owner |-> <<>>, next |-> Registry.free]
                 a == [Registry.slots EXCEPT ![parsers[p].r] = x]
      <4>1. u = [slots |-> a, free |-> parsers[p].r]
        BY <3>2 DEF luaL_unref
      <4>2. x \in SlotRecs /\ Registry.slots \in Seq(SlotRecs)
        BY <1>2 DEF SlotRecs, Registries
      <4>3. a \in Seq(SlotRecs)
        <5> DEFINE s == Registry.slots
        <5>1. Len(s) \in Nat /\ s \in [1..Len(s) -> SlotRecs]
          BY <4>2
        <5> HIDE DEF x, s
        <5>2. [s EXCEPT ![parsers[p].r] = x] \in [1..Len(s) -> SlotRecs]
          BY <4>2, <5>1
        <5>3. [s EXCEPT ![parsers[p].r] = x] \in Seq(SlotRecs)
          BY <5>1, <5>2, SeqDef, Zenon
        <5> QED BY <5>3 DEF s
      <4> QED BY <1>5, <4>1, <4>3 DEF Registries
    <3> QED BY <3>1, <3>2
  <2>2. slots' \in Seq(SlotRecs) /\ Len(slots') <= MaxSlots /\ free' \in Slots
    BY <1>4, <2>1, BecomesTyped
  <2>3. RegistryTypeOK' /\ abused'
    BY <1>2, <1>4, <1>5, <1>7, <1>n, <2>2 DEF RegistryTypeOK, SlotRecs
  <2> QED BY <2>3 DEF RegistryInv
<1> QED BY <1>4, <1>5, <1>6, <1>7

\* A parser that is collected open leaves its slot behind.
LEMMA lyajl_parser_gc_Inv ==
  ASSUME RegistryInv, NEW p \in Parsers, lyajl_parser_gc(p)
  PROVE  RegistryInv'
<1> DEFINE u == IF parsers[p].st = "open" THEN Leak(Registry, parsers[p].r) ELSE Registry
           x == [st |-> "none", r |-> NOREF]
<1>1. Calls
  BY DEF lyajl_parser_gc
<1>2. /\ RegistryTypeOK /\ UsersSound /\ ~foreign /\ ~abused
      /\ Registry \in Registries /\ Registry.slots = slots /\ Len(Registry.slots) <= MaxSlots
      /\ \E c : FreeList(Registry, c, cut)
  BY <1>1, CallsSound
<1>3. PICK c : FreeList(Registry, c, cut)
  BY <1>2
<1>4. /\ Becomes(u) /\ parsers' = [parsers EXCEPT ![p] = x] /\ (\A k \in DOMAIN parsing : parsing[k].p # p)
      /\ UNCHANGED <<reqs, running, parsing, gens, conns, cut, abused, foreign>>
  BY DEF lyajl_parser_gc
<1>5. /\ u \in Registries /\ \E d : FreeList(u, d, cut)
      /\ Keeps(Registry, u, {<<"parser", p>>}) /\ Gains(Registry, u, {Leaked})
  <2>1. CASE parsers[p].st = "open"
    <3>1. Owned(Registry, parsers[p].r, <<"parser", p>>) /\ <<"parser", p>> \in Owners
      BY <1>2, <2>1, UsersTyped, OwnersApart DEF ParsersOwn
    <3> QED BY <1>2, <1>3, <2>1, <3>1, LeakSound
  <2>2. CASE parsers[p].st # "open"
    BY <1>2, <2>2 DEF Keeps, Gains
  <2> QED BY <2>1, <2>2
<1>6. Registry' = u
  BY <1>4, <1>5, BecomesTyped
<1>7. x \in [st : {"none", "open", "completed"}, r : Slots] /\ x.st = "none"
  BY RegistryAssumption DEF NOREF, Slots
<1> HIDE DEF u, x
<1>8. /\ parsers'[p] = x /\ \A q \in Parsers : q # p => parsers'[q] = parsers[q]
      /\ parsers' \in [Parsers -> [st : {"none", "open", "completed"}, r : Slots]]
  BY <1>2, <1>4, <1>7, UsersTyped
<1>9. GensOwn' /\ ConnsOwn'
  BY <1>2, <1>4, <1>5, <1>6, OthersKept, OwnersDiffer, UsersTyped
<1>10. ParsersOwn'
  <2> SUFFICES ASSUME NEW q \in Parsers, parsers'[q].st = "open"
               PROVE  Owned(u, parsers'[q].r, <<"parser", q>>)
    BY <1>6 DEF ParsersOwn
  <2>1. q # p /\ Owned(Registry, parsers[q].r, <<"parser", q>>)
    BY <1>2, <1>7, <1>8, UsersTyped DEF ParsersOwn
  <2> QED BY <1>5, <1>8, <2>1, OwnersDiffer DEF Keeps, Owned
<1>11. ParsingReady'
  <2>1. ParsingReady /\ parsing' = parsing /\ \A k \in DOMAIN parsing : parsing[k].p \in Parsers
    BY <1>2, <1>4, UsersTyped, ParsingTyped
  <2> QED BY <1>4, <1>8, <2>1 DEF ParsingReady
<1>12. \A r \in Reqs : /\ <<"cb", r>> \notin {<<"parser", p>>} \cup {Leaked}
                       /\ <<"data", r>> \notin {<<"parser", p>>} \cup {Leaked}
  BY RequestsApart
<1>13. /\ gens' \in [Gens -> [live : BOOLEAN, r : Slots]]
       /\ conns' \in [Conns -> [st : {"none", "set", "used"}, r : Slots]]
  BY <1>2, <1>4, UsersTyped
<1> QED BY <1>1, <1>4, <1>5, <1>8, <1>9, <1>10, <1>11, <1>12, <1>13, RegistryTouched

\* lyajl_gen_config leaves the old callback's slot behind and owns a new one.
LEMMA lyajl_gen_config_Inv ==
  ASSUME RegistryInv, NEW g \in Gens, lyajl_gen_config(g)
  PROVE  RegistryInv'
<1> DEFINE t1 == Leak(Registry, gens[g].r)
           u == luaL_ref(t1, <<"print", g>>)
<1>1. Calls
  BY DEF lyajl_gen_config
<1>2. /\ RegistryTypeOK /\ UsersSound /\ ~foreign /\ ~abused
      /\ Registry \in Registries /\ Registry.slots = slots /\ Len(Registry.slots) <= MaxSlots
      /\ \E c : FreeList(Registry, c, cut)
  BY <1>1, CallsSound
<1>3. PICK c : FreeList(Registry, c, cut)
  BY <1>2
<1>4. /\ Becomes(u) /\ gens' = [gens EXCEPT ![g].r = RefSlot(Registry)]
      /\ UNCHANGED <<reqs, running, parsers, parsing, conns, cut, abused, foreign>>
  BY DEF lyajl_gen_config
<1>t. /\ t1 \in Registries /\ FreeList(t1, c, cut) /\ RefSlot(t1) = RefSlot(Registry)
      /\ Keeps(Registry, t1, {<<"print", g>>}) /\ Gains(Registry, t1, {Leaked})
  <2>1. CASE gens[g].r # NOREF
    <3>1. Owned(Registry, gens[g].r, <<"print", g>>) /\ <<"print", g>> \in Owners
      BY <1>2, <2>1, UsersTyped, OwnersApart DEF GensOwn
    <3> QED BY <1>2, <1>3, <3>1, LeakSound
  <2>2. CASE gens[g].r = NOREF
    BY <1>2, <1>3, <2>2 DEF Leak, Keeps, Gains
  <2> QED BY <2>1, <2>2
<1> HIDE DEF t1
<1>5. /\ u \in Registries /\ \E d : FreeList(u, d, cut) /\ Owned(u, RefSlot(Registry), <<"print", g>>)
      /\ Keeps(Registry, u, {<<>>, <<"print", g>>}) /\ Gains(Registry, u, {Leaked, <<"print", g>>})
  <2>1. /\ u \in Registries /\ \E d : FreeList(u, d, cut) /\ Owned(u, RefSlot(Registry), <<"print", g>>)
        /\ Keeps(t1, u, {<<>>}) /\ Gains(t1, u, {<<"print", g>>})
    BY <1>t, RefSound, OwnersApart
  <2> HIDE DEF u
  <2> QED BY <1>t, <2>1 DEF Keeps, Gains
<1>6. Registry' = u /\ \A i \in DOMAIN u.slots : i \in Slots
  BY <1>4, <1>5, BecomesTyped
<1> HIDE DEF u
<1>8. /\ gens'[g].r = RefSlot(Registry) /\ \A h \in Gens : h # g => gens'[h] = gens[h]
      /\ gens' \in [Gens -> [live : BOOLEAN, r : Slots]]
  <2>1. RefSlot(Registry) \in Slots
    BY <1>5, <1>6 DEF Owned
  <2> QED BY <1>2, <1>4, <2>1, UsersTyped
<1>9. ParsersOwn' /\ ConnsOwn'
  BY <1>2, <1>4, <1>5, <1>6, OthersKept, OwnersApart, OwnersDiffer, UsersTyped
<1>10. GensOwn'
  <2> SUFFICES ASSUME NEW h \in Gens, gens'[h].r # NOREF
               PROVE  Owned(u, gens'[h].r, <<"print", h>>)
    BY <1>6 DEF GensOwn
  <2>1. CASE h = g
    BY <1>5, <1>8, <2>1
  <2>2. CASE h # g
    <3>1. Owned(Registry, gens[h].r, <<"print", h>>)
      BY <1>2, <1>8, <2>2, UsersTyped DEF GensOwn
    <3>2. <<"print", h>> \notin {<<>>, <<"print", g>>}
      BY <2>2, OwnersApart, OwnersDiffer
    <3> QED BY <1>5, <1>8, <2>2, <3>1, <3>2 DEF Keeps, Owned
  <2> QED BY <2>1, <2>2
<1>11. ParsingReady'
  BY <1>2, <1>4, UsersTyped DEF ParsingReady
<1>12. \A r \in Reqs : /\ <<"cb", r>> \notin {<<>>, <<"print", g>>} \cup {Leaked, <<"print", g>>}
                       /\ <<"data", r>> \notin {<<>>, <<"print", g>>} \cup {Leaked, <<"print", g>>}
  BY RequestsApart
<1>13. /\ parsers' \in [Parsers -> [st : {"none", "open", "completed"}, r : Slots]]
       /\ conns' \in [Conns -> [st : {"none", "set", "used"}, r : Slots]]
  BY <1>2, <1>4, UsersTyped
<1> QED BY <1>1, <1>4, <1>5, <1>8, <1>9, <1>10, <1>11, <1>12, <1>13, RegistryTouched

\* A generator that is collected leaves the slot of its callback behind.
LEMMA lyajl_gen_gc_Inv ==
  ASSUME RegistryInv, NEW g \in Gens, lyajl_gen_gc(g)
  PROVE  RegistryInv'
<1> DEFINE u == Leak(Registry, gens[g].r)
           x == [live |-> FALSE, r |-> NOREF]
<1>1. Calls
  BY DEF lyajl_gen_gc
<1>2. /\ RegistryTypeOK /\ UsersSound /\ ~foreign /\ ~abused
      /\ Registry \in Registries /\ Registry.slots = slots /\ Len(Registry.slots) <= MaxSlots
      /\ \E c : FreeList(Registry, c, cut)
  BY <1>1, CallsSound
<1>3. PICK c : FreeList(Registry, c, cut)
  BY <1>2
<1>4. /\ Becomes(u) /\ gens' = [gens EXCEPT ![g] = x]
      /\ UNCHANGED <<reqs, running, parsers, parsing, conns, cut, abused, foreign>>
  BY DEF lyajl_gen_gc
<1>5. /\ u \in Registries /\ \E d : FreeList(u, d, cut)
      /\ Keeps(Registry, u, {<<"print", g>>}) /\ Gains(Registry, u, {Leaked})
  <2>1. CASE gens[g].r # NOREF
    <3>1. Owned(Registry, gens[g].r, <<"print", g>>) /\ <<"print", g>> \in Owners
      BY <1>2, <2>1, UsersTyped, OwnersApart DEF GensOwn
    <3> QED BY <1>2, <1>3, <3>1, LeakSound
  <2>2. CASE gens[g].r = NOREF
    BY <1>2, <1>3, <2>2 DEF Leak, Keeps, Gains
  <2> QED BY <2>1, <2>2
<1>6. Registry' = u
  BY <1>4, <1>5, BecomesTyped
<1>7. x \in [live : BOOLEAN, r : Slots] /\ x.r = NOREF
  BY RegistryAssumption DEF NOREF, Slots
<1> HIDE DEF u, x
<1>8. /\ gens'[g] = x /\ \A h \in Gens : h # g => gens'[h] = gens[h]
      /\ gens' \in [Gens -> [live : BOOLEAN, r : Slots]]
  BY <1>2, <1>4, <1>7, UsersTyped
<1>9. ParsersOwn' /\ ConnsOwn'
  BY <1>2, <1>4, <1>5, <1>6, OthersKept, OwnersDiffer, UsersTyped
<1>10. GensOwn'
  <2> SUFFICES ASSUME NEW h \in Gens, gens'[h].r # NOREF
               PROVE  Owned(u, gens'[h].r, <<"print", h>>)
    BY <1>6 DEF GensOwn
  <2>1. h # g /\ Owned(Registry, gens[h].r, <<"print", h>>)
    BY <1>2, <1>7, <1>8, UsersTyped DEF GensOwn
  <2> QED BY <1>5, <1>8, <2>1, OwnersDiffer DEF Keeps, Owned
<1>11. ParsingReady'
  BY <1>2, <1>4, UsersTyped DEF ParsingReady
<1>12. \A r \in Reqs : /\ <<"cb", r>> \notin {<<"print", g>>} \cup {Leaked}
                       /\ <<"data", r>> \notin {<<"print", g>>} \cup {Leaked}
  BY RequestsApart
<1>13. /\ parsers' \in [Parsers -> [st : {"none", "open", "completed"}, r : Slots]]
       /\ conns' \in [Conns -> [st : {"none", "set", "used"}, r : Slots]]
  BY <1>2, <1>4, UsersTyped
<1> QED BY <1>1, <1>4, <1>5, <1>8, <1>9, <1>10, <1>11, <1>12, <1>13, RegistryTouched

\* A connection owns the slot of its SNI callback ...
LEMMA tls_conn_set_sni_callback_Inv ==
  ASSUME RegistryInv, NEW k \in Conns, tls_conn_set_sni_callback(k)
  PROVE  RegistryInv'
<1> DEFINE t1 == IF conns[k].st = "set" THEN Leak(Registry, conns[k].r) ELSE Registry
           u == luaL_ref(t1, <<"sni", k>>)
           x == [st |-> "set", r |-> RefSlot(t1)]
<1>1. Calls
  BY DEF tls_conn_set_sni_callback
<1>2. /\ RegistryTypeOK /\ UsersSound /\ ~foreign /\ ~abused
      /\ Registry \in Registries /\ Registry.slots = slots /\ Len(Registry.slots) <= MaxSlots
      /\ \E c : FreeList(Registry, c, cut)
  BY <1>1, CallsSound
<1>3. PICK c : FreeList(Registry, c, cut)
  BY <1>2
<1>4. /\ Becomes(u) /\ conns' = [conns EXCEPT ![k] = x]
      /\ UNCHANGED <<reqs, running, parsers, parsing, gens, cut, abused, foreign>>
  BY DEF tls_conn_set_sni_callback
<1>t. /\ t1 \in Registries /\ FreeList(t1, c, cut)
      /\ Keeps(Registry, t1, {<<"sni", k>>}) /\ Gains(Registry, t1, {Leaked})
  <2>1. CASE conns[k].st = "set"
    <3>1. Owned(Registry, conns[k].r, <<"sni", k>>) /\ <<"sni", k>> \in Owners
      BY <1>2, <2>1, UsersTyped, OwnersApart DEF ConnsOwn
    <3> QED BY <1>2, <1>3, <2>1, <3>1, LeakSound
  <2>2. CASE conns[k].st # "set"
    BY <1>2, <1>3, <2>2 DEF Keeps, Gains
  <2> QED BY <2>1, <2>2
<1> HIDE DEF t1
<1>5. /\ u \in Registries /\ \E d : FreeList(u, d, cut) /\ Owned(u, RefSlot(t1), <<"sni", k>>)
      /\ Keeps(Registry, u, {<<>>, <<"sni", k>>}) /\ Gains(Registry, u, {Leaked, <<"sni", k>>})
  <2>1. /\ u \in Registries /\ \E d : FreeList(u, d, cut) /\ Owned(u, RefSlot(t1), <<"sni", k>>)
        /\ Keeps(t1, u, {<<>>}) /\ Gains(t1, u, {<<"sni", k>>})
    BY <1>t, RefSound, OwnersApart
  <2> HIDE DEF u
  <2> QED BY <1>t, <2>1 DEF Keeps, Gains
<1>6. Registry' = u /\ \A i \in DOMAIN u.slots : i \in Slots
  BY <1>4, <1>5, BecomesTyped
<1>7. x \in [st : {"none", "set", "used"}, r : Slots] /\ x.r = RefSlot(t1)
  BY <1>5, <1>6 DEF Owned
<1> HIDE DEF u, x
<1>8. /\ conns'[k] = x /\ \A d \in Conns : d # k => conns'[d] = conns[d]
      /\ conns' \in [Conns -> [st : {"none", "set", "used"}, r : Slots]]
  BY <1>2, <1>4, <1>7, UsersTyped
<1>9. ParsersOwn' /\ GensOwn'
  BY <1>2, <1>4, <1>5, <1>6, OthersKept, OwnersApart, OwnersDiffer, UsersTyped
<1>10. ConnsOwn'
  <2> SUFFICES ASSUME NEW d \in Conns, conns'[d].st = "set"
               PROVE  Owned(u, conns'[d].r, <<"sni", d>>)
    BY <1>6 DEF ConnsOwn
  <2>1. CASE d = k
    BY <1>5, <1>7, <1>8, <2>1
  <2>2. CASE d # k
    <3>1. Owned(Registry, conns[d].r, <<"sni", d>>)
      BY <1>2, <1>8, <2>2, UsersTyped DEF ConnsOwn
    <3>2. <<"sni", d>> \notin {<<>>, <<"sni", k>>}
      BY <2>2, OwnersApart, OwnersDiffer
    <3> QED BY <1>5, <1>8, <2>2, <3>1, <3>2 DEF Keeps, Owned
  <2> QED BY <2>1, <2>2
<1>11. ParsingReady'
  BY <1>2, <1>4, UsersTyped DEF ParsingReady
<1>12. \A r \in Reqs : /\ <<"cb", r>> \notin {<<>>, <<"sni", k>>} \cup {Leaked, <<"sni", k>>}
                       /\ <<"data", r>> \notin {<<>>, <<"sni", k>>} \cup {Leaked, <<"sni", k>>}
  BY RequestsApart
<1>13. /\ parsers' \in [Parsers -> [st : {"none", "open", "completed"}, r : Slots]]
       /\ gens' \in [Gens -> [live : BOOLEAN, r : Slots]]
  BY <1>2, <1>4, UsersTyped
<1> QED BY <1>1, <1>4, <1>5, <1>8, <1>9, <1>10, <1>11, <1>12, <1>13, RegistryTouched

\* ... fetches its own when the client names the server ...
LEMMA sni_context_callback_Inv ==
  ASSUME RegistryInv, NEW k \in Conns, sni_context_callback(k)
  PROVE  RegistryInv'
<1> DEFINE u == luaL_unref(Registry, conns[k].r)
<1>1. Calls
  BY DEF sni_context_callback
<1>2. /\ RegistryTypeOK /\ UsersSound /\ ~foreign /\ ~abused
      /\ Registry \in Registries /\ Registry.slots = slots /\ Len(Registry.slots) <= MaxSlots
      /\ \E c : FreeList(Registry, c, cut)
  BY <1>1, CallsSound
<1>3. PICK c : FreeList(Registry, c, cut)
  BY <1>2
<1>4. /\ abused' = (conns[k].st # "set")
      /\ foreign' = (~abused' /\ OwnerOf(conns[k].r) # <<"sni", k>>)
      /\ Becomes(IF abused' THEN Registry ELSE u)
      /\ conns' = IF abused' THEN conns ELSE [conns EXCEPT ![k].st = "used"]
      /\ UNCHANGED <<reqs, running, parsers, parsing, gens, cut>>
  BY DEF sni_context_callback
<1>5. CASE conns[k].st # "set"
  <2>1. abused' /\ foreign' = FALSE /\ Becomes(Registry) /\ conns' = conns
    BY <1>4, <1>5
  <2>2. slots' \in Seq(SlotRecs) /\ Len(slots') <= MaxSlots /\ free' \in Slots
    BY <1>2, <2>1, BecomesTyped
  <2>3. RegistryTypeOK'
    BY <1>2, <1>4, <2>1, <2>2 DEF RegistryTypeOK, SlotRecs
  <2> QED BY <2>1, <2>3 DEF RegistryInv
<1>6. CASE conns[k].st = "set"
  <2>1. Owned(Registry, conns[k].r, <<"sni", k>>) /\ <<"sni", k>> \in Owners
    BY <1>2, <1>6, UsersTyped, OwnersApart DEF ConnsOwn
  <2>2. OwnerOf(conns[k].r) = <<"sni", k>>
    <3>1. conns[k].r # NOREF
      BY <1>2, <2>1, RegistryTyped DEF Owned
    <3> QED BY <1>2, <2>1, <3>1 DEF Owned, OwnerOf
  <2>3. /\ abused' = FALSE /\ foreign' = FALSE /\ Becomes(u)
        /\ conns' = [conns EXCEPT ![k].st = "used"]
    BY <1>4, <1>6, <2>2
  <2>4. abused' = abused /\ foreign' = foreign
    BY <1>2, <2>3 DEF RegistryTypeOK
  <2>5. /\ u \in Registries /\ \E d : FreeList(u, d, cut)
        /\ Keeps(Registry, u, {<<"sni", k>>}) /\ Gains(Registry, u, {<<>>})
    BY <1>2, <1>3, <2>1, UnrefSound
  <2>6. Registry' = u
    BY <2>3, <2>5, BecomesTyped
  <2> HIDE DEF u
  <2>7. /\ conns'[k].st = "used" /\ \A d \in Conns : d # k => conns'[d] = conns[d]
        /\ conns' \in [Conns -> [st : {"none", "set", "used"}, r : Slots]]
    BY <1>2, <2>3, UsersTyped
  <2>8. ParsersOwn' /\ GensOwn'
    BY <1>2, <1>4, <2>5, <2>6, OthersKept, OwnersDiffer, UsersTyped
  <2>9. ConnsOwn'
    <3> SUFFICES ASSUME NEW d \in Conns, conns'[d].st = "set"
                 PROVE  Owned(u, conns'[d].r, <<"sni", d>>)
      BY <2>6 DEF ConnsOwn
    <3>1. d # k /\ Owned(Registry, conns[d].r, <<"sni", d>>)
      BY <1>2, <2>7, UsersTyped DEF ConnsOwn
    <3> QED BY <2>5, <2>7, <3>1, OwnersDiffer DEF Keeps, Owned
  <2>10. ParsingReady'
    BY <1>2, <1>4, UsersTyped DEF ParsingReady
  <2>11. \A r \in Reqs : /\ <<"cb", r>> \notin {<<"sni", k>>} \cup {<<>>}
                         /\ <<"data", r>> \notin {<<"sni", k>>} \cup {<<>>}
    BY OwnersApart, OwnersDiffer
  <2>12. /\ parsers' \in [Parsers -> [st : {"none", "open", "completed"}, r : Slots]]
         /\ gens' \in [Gens -> [live : BOOLEAN, r : Slots]]
    BY <1>2, <1>4, UsersTyped
  <2> QED BY <1>1, <1>4, <2>3, <2>4, <2>5, <2>7, <2>8, <2>9, <2>10, <2>11, <2>12, RegistryTouched
<1> QED BY <1>5, <1>6

\* ... and leaves it behind when it is closed before that.
LEMMA tls_conn_close_Inv ==
  ASSUME RegistryInv, NEW k \in Conns, tls_conn_close(k)
  PROVE  RegistryInv'
<1> DEFINE u == IF conns[k].st = "set" THEN Leak(Registry, conns[k].r) ELSE Registry
           x == [st |-> "none", r |-> NOREF]
<1>1. Calls
  BY DEF tls_conn_close
<1>2. /\ RegistryTypeOK /\ UsersSound /\ ~foreign /\ ~abused
      /\ Registry \in Registries /\ Registry.slots = slots /\ Len(Registry.slots) <= MaxSlots
      /\ \E c : FreeList(Registry, c, cut)
  BY <1>1, CallsSound
<1>3. PICK c : FreeList(Registry, c, cut)
  BY <1>2
<1>4. /\ Becomes(u) /\ conns' = [conns EXCEPT ![k] = x]
      /\ UNCHANGED <<reqs, running, parsers, parsing, gens, cut, abused, foreign>>
  BY DEF tls_conn_close
<1>5. /\ u \in Registries /\ \E d : FreeList(u, d, cut)
      /\ Keeps(Registry, u, {<<"sni", k>>}) /\ Gains(Registry, u, {Leaked})
  <2>1. CASE conns[k].st = "set"
    <3>1. Owned(Registry, conns[k].r, <<"sni", k>>) /\ <<"sni", k>> \in Owners
      BY <1>2, <2>1, UsersTyped, OwnersApart DEF ConnsOwn
    <3> QED BY <1>2, <1>3, <2>1, <3>1, LeakSound
  <2>2. CASE conns[k].st # "set"
    BY <1>2, <2>2 DEF Keeps, Gains
  <2> QED BY <2>1, <2>2
<1>6. Registry' = u
  BY <1>4, <1>5, BecomesTyped
<1>7. x \in [st : {"none", "set", "used"}, r : Slots] /\ x.st = "none"
  BY RegistryAssumption DEF NOREF, Slots
<1> HIDE DEF u, x
<1>8. /\ conns'[k] = x /\ \A d \in Conns : d # k => conns'[d] = conns[d]
      /\ conns' \in [Conns -> [st : {"none", "set", "used"}, r : Slots]]
  BY <1>2, <1>4, <1>7, UsersTyped
<1>9. ParsersOwn' /\ GensOwn'
  BY <1>2, <1>4, <1>5, <1>6, OthersKept, OwnersDiffer, UsersTyped
<1>10. ConnsOwn'
  <2> SUFFICES ASSUME NEW d \in Conns, conns'[d].st = "set"
               PROVE  Owned(u, conns'[d].r, <<"sni", d>>)
    BY <1>6 DEF ConnsOwn
  <2>1. d # k /\ Owned(Registry, conns[d].r, <<"sni", d>>)
    BY <1>2, <1>7, <1>8, UsersTyped DEF ConnsOwn
  <2> QED BY <1>5, <1>8, <2>1, OwnersDiffer DEF Keeps, Owned
<1>11. ParsingReady'
  BY <1>2, <1>4, UsersTyped DEF ParsingReady
<1>12. \A r \in Reqs : /\ <<"cb", r>> \notin {<<"sni", k>>} \cup {Leaked}
                       /\ <<"data", r>> \notin {<<"sni", k>>} \cup {Leaked}
  BY RequestsApart
<1>13. /\ parsers' \in [Parsers -> [st : {"none", "open", "completed"}, r : Slots]]
       /\ gens' \in [Gens -> [live : BOOLEAN, r : Slots]]
  BY <1>2, <1>4, UsersTyped
<1> QED BY <1>1, <1>4, <1>5, <1>8, <1>9, <1>10, <1>11, <1>12, <1>13, RegistryTouched

\* A query takes a slot for its callback, or none.
LEMMA luv_dns_store_callback_Inv ==
  ASSUME RegistryInv, NEW r \in Reqs, luv_dns_store_callback(r)
  PROVE  RegistryInv'
<1> DEFINE x == [op |-> Query, cb |-> NOREF, data |-> NOREF]
<1>1. CASE Queue(r, Query)
  BY <1>1, Queue_Inv
<1>2. CASE ~Queue(r, Query)
  <2>1. /\ Calls /\ reqs[r].op = NoOne /\ reqs' = [reqs EXCEPT ![r] = x] /\ registry' = registry
        /\ UNCHANGED <<running, parsers, parsing, gens, conns, cut, abused, foreign>>
    BY <1>2 DEF luv_dns_store_callback, registry
  <2>2. /\ RegistryTypeOK /\ UsersSound /\ ~foreign /\ ~abused
        /\ Registry \in Registries /\ Registry.slots = slots /\ Len(Registry.slots) <= MaxSlots
        /\ \E c : FreeList(Registry, c, cut)
    BY <2>1, CallsSound
  <2>3. /\ Registry' = Registry /\ slots' = slots
        /\ slots' \in Seq(SlotRecs) /\ Len(slots') <= MaxSlots /\ free' \in Slots
        /\ Keeps(Registry, Registry', {}) /\ Gains(Registry, Registry', {})
    BY <2>1, <2>2, RegistryKept
  <2>4. /\ x \in [op : Ops \cup {NoOne, Query}, cb : Slots, data : Slots]
        /\ x.op = Query /\ x.cb = NOREF /\ x.data = NOREF
    BY RegistryAssumption DEF NOREF, Slots
  <2> HIDE DEF x
  <2>5. /\ reqs'[r] = x /\ \A p \in Reqs : p # r => reqs'[p] = reqs[p]
        /\ reqs' \in [Reqs -> [op : Ops \cup {NoOne, Query}, cb : Slots, data : Slots]]
    BY <2>1, <2>2, <2>4 DEF RegistryTypeOK
  <2>6. RegistryTypeOK'
    BY <2>1, <2>2, <2>3, <2>5 DEF RegistryTypeOK, SlotRecs
  <2>7. ParsersOwn' /\ GensOwn' /\ ConnsOwn' /\ ParsingReady'
    BY <2>1, <2>2, <2>3, OthersKept DEF UsersSound, ParsingReady
  <2>8. RequestsOwn'
    BY <2>2, <2>3, <2>4, <2>5 DEF UsersSound, RequestsOwn
  <2>9. RequestsReady'
    <3>1. Query # NoOne /\ Query \notin Ops /\ NoOne \notin Ops
      BY RegistryAssumption DEF Query, NoOne
    <3>2. r # running
      BY <2>1, <2>2, <3>1 DEF UsersSound, RequestsReady
    <3> QED BY <2>1, <2>2, <2>4, <2>5, <3>1, <3>2 DEF UsersSound, RequestsReady
  <2>10. RequestsName'
    <3> SUFFICES ASSUME NEW i \in DOMAIN slots, NEW p \in Reqs,
                        slots[i].owner \in {<<"cb", p>>, <<"data", p>>}
                 PROVE  i \in {reqs'[p].cb, reqs'[p].data}
      BY <2>3 DEF RequestsName
    <3>1. i \in {reqs[p].cb, reqs[p].data} /\ i # NOREF
      BY <2>2, RegistryTyped DEF UsersSound, RequestsName
    <3>2. p # r
      BY <2>1, <2>2, <3>1 DEF UsersSound, RequestsReady
    <3> QED BY <2>5, <3>1, <3>2
  <2> QED BY <2>1, <2>2, <2>3, <2>6, <2>7, <2>8, <2>9, <2>10, InvAfter DEF UsersSound
<1> QED BY <1>1, <1>2

\* A query gives its own slot up with its answer; one without a callback loses
\* the free list, and nothing else.
LEMMA luv_dns_get_callback_Inv ==
  ASSUME RegistryInv, NEW r \in Reqs, luv_dns_get_callback(r)
  PROVE  RegistryInv'
<1> DEFINE q == reqs[r]
           u == IF q.cb = NOREF THEN [Registry EXCEPT !.free = 0] ELSE luaL_unref(Registry, q.cb)
<1>1. /\ Calls /\ q.op = Query /\ Becomes(u)
      /\ foreign' = (q.cb # NOREF /\ OwnerOf(q.cb) # <<"cb", r>>)
      /\ cut' = (cut \/ q.cb = NOREF)
      /\ reqs' = [reqs EXCEPT ![r] = NoRequest]
      /\ UNCHANGED <<running, parsers, parsing, gens, conns, abused>>
  BY DEF luv_dns_get_callback
<1>2. /\ RegistryTypeOK /\ UsersSound /\ ~foreign /\ ~abused
      /\ Registry \in Registries /\ Registry.slots = slots /\ Len(Registry.slots) <= MaxSlots
      /\ \E c : FreeList(Registry, c, cut)
  BY <1>1, CallsSound
<1>3. PICK c : FreeList(Registry, c, cut)
  BY <1>2
<1>4. /\ q.data = NOREF /\ r # running
      /\ q.cb # NOREF => Owned(Registry, q.cb, <<"cb", r>>)
  BY <1>1, <1>2 DEF UsersSound, RequestsReady, RequestsOwn
<1>5. /\ u \in Registries /\ \E d : FreeList(u, d, cut')
      /\ Keeps(Registry, u, {<<"cb", r>>}) /\ Gains(Registry, u, {<<>>})
      /\ q.cb # NOREF => Owned(u, q.cb, <<>>)
  <2>1. CASE q.cb = NOREF
    <3> DEFINE v == [slots |-> slots, free |-> 0]
    <3>1. Registry = [slots |-> slots, free |-> free]
      BY DEF Registry
    <3>2. [Registry EXCEPT !.free = 0] = v
      BY <3>1
    <3>3. u = v
      BY <2>1, <3>2
    <3>4. v.slots = slots /\ v \in Registries
      BY <1>2, RegistryAssumption DEF Registries, Slots
    <3>5. cut' = TRUE
      BY <1>1, <2>1
    <3>7. FreeList(v, <<>>, TRUE)
      BY DEF FreeList
    <3> HIDE DEF v, u, q
    <3>6. Keeps(Registry, v, {<<"cb", r>>}) /\ Gains(Registry, v, {<<>>})
      BY <1>2, <3>4 DEF Keeps, Gains
    <3> QED BY <2>1, <3>3, <3>4, <3>5, <3>6, <3>7
  <2>2. CASE q.cb # NOREF
    <3>1. Owned(Registry, q.cb, <<"cb", r>>) /\ <<"cb", r>> \in Owners
      BY <1>4, <2>2, OwnersApart
    <3>2. cut' = cut /\ u = luaL_unref(Registry, q.cb)
      BY <1>1, <1>2, <2>2 DEF RegistryTypeOK
    <3> HIDE DEF u, q
    <3> QED BY <1>2, <1>3, <3>1, <3>2, UnrefSound
  <2> QED BY <2>1, <2>2
<1>6. /\ NoRequest \in [op : Ops \cup {NoOne, Query}, cb : Slots, data : Slots]
      /\ NoRequest.op = NoOne /\ NoRequest.cb = NOREF /\ NoRequest.data = NOREF
  BY RegistryAssumption DEF NoRequest, NOREF, Slots
<1>7. /\ reqs'[r] = NoRequest /\ \A p \in Reqs : p # r => reqs'[p] = reqs[p]
      /\ reqs' \in [Reqs -> [op : Ops \cup {NoOne, Query}, cb : Slots, data : Slots]]
  <2> HIDE DEF u
  <2> QED BY <1>1, <1>2, <1>6 DEF RegistryTypeOK
<1> HIDE DEF u
<1>9. /\ Registry' = u /\ slots' = u.slots
      /\ slots' \in Seq(SlotRecs) /\ Len(slots') <= MaxSlots /\ free' \in Slots
      /\ \A i \in DOMAIN u.slots : i \in Slots /\ i # NOREF
  BY <1>1, <1>5, BecomesTyped
<1>10. RegistryTypeOK' /\ ~foreign'
  <2>1. q.cb # NOREF => OwnerOf(q.cb) = <<"cb", r>>
    BY <1>2, <1>4 DEF OwnerOf, Owned
  <2>2. foreign' = FALSE /\ cut' \in BOOLEAN
    BY <1>1, <2>1
  <2> QED BY <1>1, <1>2, <1>7, <1>9, <2>2 DEF RegistryTypeOK, SlotRecs
<1>11. ParsersOwn' /\ GensOwn' /\ ConnsOwn' /\ ParsingReady'
  <2>1. ParsersOwn' /\ GensOwn' /\ ConnsOwn'
    BY <1>1, <1>2, <1>5, <1>9, OthersKept, OwnersDiffer DEF UsersSound
  <2>2. ParsingReady'
    BY <1>1, <1>2 DEF UsersSound, ParsingReady
  <2> QED BY <2>1, <2>2
<1>12. RequestsOwn'
  <2> SUFFICES ASSUME NEW p \in Reqs
               PROVE  /\ reqs'[p].cb # NOREF => Owned(u, reqs'[p].cb, <<"cb", p>>)
                      /\ reqs'[p].data # NOREF => Owned(u, reqs'[p].data, <<"data", p>>)
    BY <1>9 DEF RequestsOwn
  <2>1. CASE p = r
    BY <1>6, <1>7, <2>1
  <2>2. CASE p # r
    <3>1. /\ reqs[p].cb # NOREF => Owned(Registry, reqs[p].cb, <<"cb", p>>)
          /\ reqs[p].data # NOREF => Owned(Registry, reqs[p].data, <<"data", p>>)
      BY <1>2 DEF UsersSound, RequestsOwn
    <3> QED BY <1>5, <1>7, <2>2, <3>1, OwnersDiffer DEF Keeps, Owned
  <2> QED BY <2>1, <2>2
<1>13. RequestsReady'
  <2>1. RequestsReady /\ running' = running /\ NoOne \notin Ops /\ NoOne # Query
    BY <1>1, <1>2, RegistryAssumption DEF UsersSound, NoOne, Query
  <2> QED BY <1>4, <1>6, <1>7, <2>1 DEF RequestsReady
<1>14. RequestsName'
  <2> SUFFICES ASSUME NEW i \in DOMAIN u.slots, NEW p \in Reqs,
                      u.slots[i].owner \in {<<"cb", p>>, <<"data", p>>}
               PROVE  i \in {reqs'[p].cb, reqs'[p].data}
    BY <1>9 DEF RequestsName
  <2>1. u.slots[i].owner # <<>>
    BY OwnersApart
  <2>2. i \in DOMAIN slots /\ u.slots[i].owner = slots[i].owner
    BY <1>2, <1>5, <2>1 DEF Gains
  <2>3. i \in {reqs[p].cb, reqs[p].data}
    BY <1>2, <2>2 DEF UsersSound, RequestsName
  <2>4. CASE p = r
    <3>1. i = q.cb /\ q.cb # NOREF
      BY <1>4, <1>9, <2>3, <2>4
    <3> QED BY <1>5, <2>1, <3>1 DEF Owned
  <2> QED BY <1>7, <2>3, <2>4
<1> QED BY <1>1, <1>2, <1>5, <1>9, <1>10, <1>11, <1>12, <1>13, <1>14, InvAfter DEF UsersSound

-----------------------------------------------------------------------------
\* The invariant holds at first ...
LEMMA RegistryInitInv == RegistryInit => RegistryInv
<1> SUFFICES ASSUME RegistryInit PROVE RegistryInv
  OBVIOUS
<1>1. NoRequest \in [op : Ops \cup {NoOne, Query}, cb : Slots, data : Slots] /\ NOREF \in Slots
  BY RegistryAssumption DEF NoRequest, NOREF, Slots
<1>2. RegistryTypeOK
  <2>1. slots \in Seq([owner : Owners \cup {Leaked, <<>>}, next : Slots]) /\ Len(slots) <= MaxSlots
    BY RegistryAssumption DEF RegistryInit
  <2>2. free \in Slots /\ running \in Reqs \cup {NoOne} /\ parsing \in Seq(ParseCalls) /\ Len(parsing) <= MaxNested
    BY RegistryAssumption DEF RegistryInit, Slots
  <2>3. reqs \in [Reqs -> [op : Ops \cup {NoOne, Query}, cb : Slots, data : Slots]]
    BY <1>1 DEF RegistryInit
  <2>4. parsers \in [Parsers -> [st : {"none", "open", "completed"}, r : Slots]]
    BY <1>1 DEF RegistryInit
  <2>5. gens \in [Gens -> [live : BOOLEAN, r : Slots]] /\ conns \in [Conns -> [st : {"none", "set", "used"}, r : Slots]]
    BY <1>1 DEF RegistryInit
  <2> QED BY <2>1, <2>2, <2>3, <2>4, <2>5 DEF RegistryInit, RegistryTypeOK
<1>3. UsersSound
  BY RegistryAssumption DEF RegistryInit, UsersSound, RequestsOwn, ParsersOwn, GensOwn, ConnsOwn, RequestsReady,
     ParsingReady, RequestsName, NoRequest, Query, NoOne
<1>4. FreeList(Registry, <<>>, cut)
  BY DEF RegistryInit, Registry, FreeList
<1> QED BY <1>2, <1>3, <1>4 DEF RegistryInit, RegistryInv

\* ... and after every call.
LEMMA RegistryNextInv == RegistryInv /\ [RegistryNext]_registryVars => RegistryInv'
<1> SUFFICES ASSUME RegistryInv, [RegistryNext]_registryVars PROVE RegistryInv'
  OBVIOUS
<1>1. CASE RegistryNext
  <2>1. ASSUME NEW r \in Reqs, NEW op \in Ops, FS_CALL_queued(r, op) PROVE RegistryInv'
    BY <2>1, Queue_Inv DEF FS_CALL_queued
  <2> QED BY <1>1, <2>1, FS_CALL_Inv, luv_after_fs_Inv, luv_after_fs_return_Inv, luv_dns_store_callback_Inv,
     luv_dns_get_callback_Inv, ReadersInv, lyajl_new_parser_Inv, lyajl_complete_parse_return_Inv,
     lyajl_parser_gc_Inv, lyajl_gen_config_Inv, lyajl_gen_gc_Inv, tls_conn_set_sni_callback_Inv,
     sni_context_callback_Inv, tls_conn_close_Inv
     DEF RegistryNext
<1>2. CASE UNCHANGED registryVars
  <2>1. /\ UNCHANGED <<slots, free, reqs, running, parsers, parsing, gens, conns, cut, abused, foreign>>
        /\ Registry' = Registry
    BY <1>2 DEF registryVars, registry, users, Registry
  <2>2. RegistryTypeOK => RegistryTypeOK'
    BY <2>1 DEF RegistryTypeOK
  <2>3. UsersSound => UsersSound'
    BY <2>1 DEF UsersSound, RequestsOwn, ParsersOwn, GensOwn, ConnsOwn, RequestsReady, ParsingReady,
       RequestsName
  <2> QED BY <2>1, <2>2, <2>3 DEF RegistryInv
<1> QED BY <1>1, <1>2

\* The inductive invariant holds always.
THEOREM RegistrySpecInv == RegistrySpec => []RegistryInv
BY RegistryInitInv, RegistryNextInv, PTL DEF RegistrySpec

\* Callbacks never get mixed up, whatever is called and completes in which
\* order: every reference that luv_after_fs, the JSON handlers, a generator or
\* an SNI callback will read is its owner's, and none that ran was another's.
THEOREM CallbacksNeverMixedUp == RegistrySpec => []CallbacksSound
<1>1. RegistryInv => CallbacksSound
  <2> SUFFICES ASSUME RegistryInv, ~abused PROVE CallbacksSound
    BY DEF CallbacksSound, RefsUnshared, OwnCallbacksOnly
  <2>1. RegistryTypeOK /\ UsersSound /\ ~foreign
    BY DEF RegistryInv
  <2>2. \A i, o : Owned(Registry, i, o) => OwnerOf(i) = o
    <3>1. Registry.slots = slots /\ \A i : i \in DOMAIN slots => i # NOREF
      BY <2>1, RegistryTyped
    <3> QED BY <3>1 DEF Owned, OwnerOf
  <2>3. \A h \in Held : h[2] # NOREF => OwnerOf(h[2]) = h[1]
    <3> SUFFICES ASSUME NEW h \in Held, h[2] # NOREF PROVE OwnerOf(h[2]) = h[1]
      OBVIOUS
    <3>1. ASSUME NEW r \in Reqs, h = <<<<"cb", r>>, reqs[r].cb>> PROVE OwnerOf(h[2]) = h[1]
      BY <2>1, <2>2, <3>1 DEF UsersSound, RequestsOwn
    <3>5. ASSUME NEW r \in Reqs, h = <<<<"data", r>>, reqs[r].data>> PROVE OwnerOf(h[2]) = h[1]
      BY <2>1, <2>2, <3>5 DEF UsersSound, RequestsOwn
    <3>2. ASSUME NEW p \in Parsers, parsers[p].st = "open", h = <<<<"parser", p>>, parsers[p].r>>
          PROVE  OwnerOf(h[2]) = h[1]
      BY <2>1, <2>2, <3>2 DEF UsersSound, ParsersOwn
    <3>3. ASSUME NEW g \in Gens, h = <<<<"print", g>>, gens[g].r>> PROVE OwnerOf(h[2]) = h[1]
      BY <2>1, <2>2, <3>3 DEF UsersSound, GensOwn
    <3>4. ASSUME NEW c \in Conns, conns[c].st = "set", h = <<<<"sni", c>>, conns[c].r>>
          PROVE  OwnerOf(h[2]) = h[1]
      BY <2>1, <2>2, <3>4 DEF UsersSound, ConnsOwn
    <3> QED BY <3>1, <3>2, <3>3, <3>4, <3>5, Zenon DEF Held
  <2> QED BY <2>1, <2>3 DEF CallbacksSound, RefsUnshared, OwnCallbacksOnly
<1> QED BY <1>1, RegistrySpecInv, PTL

\* luv_io_ctx_unref gives up what luv_io_ctx_add and luv_io_ctx_callback_add
\* took: a slot that still belongs to a request is one the request still names.
THEOREM RequestsGiveUpTheirSlots == RegistrySpec => []RequestsLeaveNothing
<1>1. RegistryInv => RequestsLeaveNothing
  BY DEF RegistryInv, UsersSound, RequestsName, RequestsLeaveNothing
<1> QED BY <1>1, RegistrySpecInv, PTL

\* The free list of the registry stays one list, without a cycle and without a
\* slot somebody owns, and complete until a DNS query without a callback cuts
\* it: no sequence of luaL_ref and luaL_unref by all these users breaks it, and
\* what a request took is back on it when the request is gone.
THEOREM FreeListStaysSound == RegistrySpec => []FreeSlotsSound
<1>1. RegistryInv => RegistryTypeOK /\ FreeListSound
  <2> SUFFICES ASSUME RegistryInv, ~abused PROVE FreeListSound
    BY DEF FreeListSound, RegistryInv
  <2>1. PICK c : FreeList(Registry, c, cut)
    BY DEF RegistryInv
  <2>2. /\ slots \in Seq(SlotRecs) /\ Registry.slots = slots /\ Registry.free = free
        /\ DOMAIN slots = 1..Len(slots) /\ Len(slots) \in Nat
    BY DEF RegistryInv, RegistryTypeOK, SlotRecs, Registry
  <2>3. /\ c \in Seq(DOMAIN slots)
        /\ \A i, j \in DOMAIN c : c[i] = c[j] => i = j
        /\ free = IF Len(c) = 0 THEN 0 ELSE c[1]
        /\ \A i \in DOMAIN c : /\ slots[c[i]].owner = <<>>
                               /\ slots[c[i]].next = IF i = Len(c) THEN 0 ELSE c[i + 1]
        /\ ~cut => \A i \in DOMAIN slots : slots[i].owner = <<>> => \E j \in DOMAIN c : c[j] = i
    BY <2>1, <2>2 DEF FreeList
  <2>4. Len(c) \in Nat /\ DOMAIN c = 1..Len(c) /\ c \in [1..Len(c) -> 1..Len(slots)]
    BY <2>2, <2>3
  <2>5. Len(c) <= Len(slots)
    <3> SUFFICES ASSUME Len(slots) < Len(c) PROVE FALSE
      BY <2>2, <2>4
    <3>1. /\ IsFiniteSet(1..Len(c)) /\ Cardinality(1..Len(c)) = Len(c)
          /\ IsFiniteSet(1..Len(slots)) /\ Cardinality(1..Len(slots)) = Len(slots)
      <4>1. \A n \in Nat : IsFiniteSet(1..n) /\ Cardinality(1..n) = n
        <5> TAKE n \in Nat
        <5>1. IsFiniteSet(1..n) /\ Cardinality(1..n) = IF 1 > n THEN 0 ELSE n - 1 + 1
          <6>1. 1 \in Int /\ n \in Int
            OBVIOUS
          <6> QED BY <6>1, FS_Interval, Zenon
        <5> QED BY <5>1
      <4> QED BY <2>2, <2>4, <4>1
    <3>2. \E i, j \in 1..Len(c) : i # j /\ c[i] = c[j]
      BY <2>4, <3>1, FS_PigeonHole
    <3> QED BY <2>3, <2>4, <3>2
  <2>6. c \in SeqOf(DOMAIN slots, Len(slots))
    <3>1. Len(c) \in 0..Len(slots) /\ c \in [1..Len(c) -> DOMAIN slots]
      BY <2>2, <2>4, <2>5
    <3> QED BY <3>1, Zenon DEF SeqOf
  <2>7. IsFreeList(c)
    <3> DEFINE named == Append(c, 0)
    <3>1. named[Len(c) + 1] = 0 /\ \A i \in 1..Len(c) : named[i] = c[i]
      <4>1. c \in Seq(Nat)
        BY <2>2, <2>3
      <4> QED BY <4>1
    <3> HIDE DEF named
    <3>2. free = named[1]
      BY <2>3, <2>4, <3>1
    <3>3. ASSUME NEW k \in DOMAIN c PROVE slots[c[k]].next = named[k + 1]
      <4>1. CASE k = Len(c)
        BY <2>3, <3>1, <4>1
      <4>2. CASE k # Len(c)
        <5>1. k + 1 \in 1..Len(c)
          BY <2>4, <4>2
        <5> QED BY <2>3, <3>1, <4>2, <5>1
      <4> QED BY <4>1, <4>2
    <3> QED BY <3>2, <3>3 DEF IsFreeList, named
  <2> QED BY <2>3, <2>6, <2>7 DEF FreeListSound
<1>2. RegistryTypeOK /\ FreeListSound /\ RequestsLeaveNothing => FreeSlotsSound
  BY DEF FreeSlotsSound
<1> QED BY <1>1, <1>2, RegistrySpecInv, RequestsGiveUpTheirSlots, PTL
-----------------------------------------------------------------------------
\* The pointers of a context.  While it is in use its store is allocated; the
\* store of ca_store is the same one, unless a bad first certificate left one
\* that was never set.  A closed context does not own the root store.
OwnsStores(c) ==
  /\ sc[c].ca <= Len(stores) /\ sc[c].store <= Len(stores)
  /\ sc[c].st = "none" => sc[c] = NoContext
  /\ InUse(c) => sc[c].store # NULL /\ stores[sc[c].store].refs = 1
  /\ sc[c].st = "open" /\ sc[c].ca # NULL => stores[sc[c].ca].refs = 1
  /\ sc[c].st = "open" /\ sc[c].ca \notin {NULL, sc[c].store} => stray[c]
  /\ sc[c].st \in {"open", "dropped"} /\ root # NULL => (sc[c].store = root <=> sc[c].ca = root)
  /\ sc[c].st = "closed" /\ sc[c].store # NULL => sc[c].store # root
  /\ sc[c].ca = NULL => given[c] = {}

\* Two contexts share a store only if it is the root store.
Apart(c, d) ==
  \A p \in {sc[c].ca, sc[c].store}, q \in {sc[d].ca, sc[d].store} :
    p # NULL /\ p = q => p = root

\* The root store, once allocated, stays, and nobody adds to it unnoticed.
RootKept ==
  /\ root <= Len(stores)
  /\ root # NULL => stores[root].refs = 1
  /\ root # NULL /\ ~tainted => stores[root].certs \subseteq {RootCert} /\ ~stores[root].crl

\* A store that is not freed has a context or a connection that will free it,
\* if no bad first certificate left one behind.
HasOwner(s) ==
  \/ s = root
  \/ stores[s].refs = 0
  \/ \E c \in Ctxs : InUse(c) /\ sc[c].store = s
  \/ \E c \in Ctxs : stray[c]

\* What a context with a store of its own trusts is what it was given.
TrustsGiven(c) ==
  sc[c].st = "open" /\ sc[c].store # root =>
    /\ stores[sc[c].store].certs \subseteq given[c]
    /\ ~stray[c] => given[c] \subseteq stores[sc[c].store].certs

\* Who owns what.
Ownership ==
  /\ RootKept
  /\ \A c \in Ctxs : OwnsStores(c) /\ TrustsGiven(c)
  /\ \A c, d \in Ctxs : c # d => Apart(c, d)
  /\ \A s \in 1..Len(stores) : stores[s].refs \in 0..1 /\ HasOwner(s)

\* A part of a chain is only found in a context whose caller was told.
CutIsDropped == \A c \in Ctxs : sc[c].chain = "cut" => sc[c].st \in {"dropped", "closed"}

\* The inductive invariant.
ContextInv ==
  /\ ContextTypeOK
  /\ ~mishandled => Ownership
  /\ CutIsDropped
  /\ PeersFreed

-----------------------------------------------------------------------------
\* X509_STORE_free takes one reference of one store and touches nothing else.
LEMMA FreeFields ==
  ASSUME NEW ss \in Seq(X509_STOREs), NEW s \in 1..Len(ss), ss[s].refs \in 0..1
  PROVE  /\ X509_STORE_free(ss, s) \in Seq(X509_STOREs)
         /\ Len(X509_STORE_free(ss, s)) = Len(ss)
         /\ X509_STORE_free(ss, s)[s].refs = ss[s].refs - 1
         /\ \A i \in 1..Len(ss) : i # s => X509_STORE_free(ss, s)[i] = ss[i]
<1> DEFINE y == [ss[s] EXCEPT !.refs = @ - 1]
<1>0. ss[s] \in X509_STOREs
  OBVIOUS
<1>1. y \in X509_STOREs /\ y.refs = ss[s].refs - 1
  BY <1>0 DEF X509_STOREs
<1>2. X509_STORE_free(ss, s) = [ss EXCEPT ![s] = y]
  BY DEF X509_STORE_free, NULL
<1> HIDE DEF y
<1> QED BY <1>1, <1>2

\* Adding certificates to a store grows its contents only.
LEMMA AddFields ==
  ASSUME NEW ss \in Seq(X509_STOREs), NEW s \in 1..Len(ss), NEW new \in SUBSET Certs
  PROVE  /\ AddTo(ss, s, new) \in Seq(X509_STOREs)
         /\ Len(AddTo(ss, s, new)) = Len(ss)
         /\ AddTo(ss, s, new)[s].refs = ss[s].refs
         /\ AddTo(ss, s, new)[s].certs = ss[s].certs \cup new
         /\ AddTo(ss, s, new)[s].crl = ss[s].crl
         /\ \A i \in 1..Len(ss) : i # s => AddTo(ss, s, new)[i] = ss[i]
<1> DEFINE y == [ss[s] EXCEPT !.certs = @ \cup new]
<1>0. ss[s] \in X509_STOREs
  OBVIOUS
<1>1. /\ y \in X509_STOREs /\ y.refs = ss[s].refs /\ y.crl = ss[s].crl
      /\ y.certs = ss[s].certs \cup new
  BY <1>0 DEF X509_STOREs
<1>2. AddTo(ss, s, new) = [ss EXCEPT ![s] = y]
  BY DEF AddTo
<1> HIDE DEF y
<1> QED BY <1>1, <1>2

\* A new store leaves the others where they are.
LEMMA NewFields ==
  ASSUME NEW ss \in Seq(X509_STOREs), NEW x \in X509_STOREs
  PROVE  /\ Append(ss, x) \in Seq(X509_STOREs)
         /\ Len(Append(ss, x)) = Len(ss) + 1
         /\ Append(ss, x)[Len(ss) + 1] = x
         /\ \A i \in 1..Len(ss) : Append(ss, x)[i] = ss[i]
OBVIOUS

\* X509_STORE_new: one reference, no certificate, no revocation lists.
LEMMA NewStoreFields ==
  /\ NewStore \in X509_STOREs /\ NewStore.refs = 1 /\ NewStore.certs = {} /\ ~NewStore.crl
BY DEF NewStore, X509_STOREs

-----------------------------------------------------------------------------
\* A step that changes neither the pointers of a context nor the stores: it may
\* be dropped, connect, or lose a connection while something else uses it.
LEMMA Quiet ==
  ASSUME ContextInv, ~mishandled, NEW c \in Ctxs, NEW x \in tls_sc_ts,
         sc' = [sc EXCEPT ![c] = x], sc[c].st # "none",
         x.ca = sc[c].ca, x.store = sc[c].store,
         x.st = sc[c].st \/ (sc[c].st = "open" /\ x.st = "dropped"),
         InUse(c)' <=> InUse(c),
         UNCHANGED <<stores, root, given, stray, tainted>>
  PROVE  Ownership'
<1> USE DEF ContextInv, ContextTypeOK, Ownership
<1>1. sc'[c] = x /\ \A d \in Ctxs : d # c => sc'[d] = sc[d]
  OBVIOUS
<1>2. \A d \in Ctxs : InUse(d)' <=> InUse(d)
  BY <1>1 DEF InUse
<1>3. RootKept'
  BY DEF RootKept
<1>4. \A d \in Ctxs : OwnsStores(d)' /\ TrustsGiven(d)'
  BY <1>1, <1>2 DEF OwnsStores, TrustsGiven
<1>5. \A d, e \in Ctxs : d # e => Apart(d, e)'
  BY <1>1 DEF Apart
<1>6. \A s \in 1..Len(stores') : stores'[s].refs \in 0..1 /\ HasOwner(s)'
  BY <1>1, <1>2 DEF HasOwner
<1> QED BY <1>3, <1>4, <1>5, <1>6

\* A step that adds to the store ca_store points to, which only the root store
\* can share with another context.
LEMMA Grow ==
  ASSUME ContextInv, ~mishandled, NEW c \in Ctxs, NEW x \in tls_sc_ts, NEW new \in SUBSET Certs,
         sc' = [sc EXCEPT ![c] = x], sc[c].st = "open", sc[c].ca # NULL,
         x.ca = sc[c].ca, x.store = sc[c].store, x.st \in {"open", "dropped"},
         x.conns = sc[c].conns,
         stores' \in Seq(X509_STOREs), Len(stores') = Len(stores),
         \A i \in 1..Len(stores) : i # sc[c].ca => stores'[i] = stores[i],
         stores'[sc[c].ca].refs = stores[sc[c].ca].refs,
         stores'[sc[c].ca].certs = stores[sc[c].ca].certs \cup new,
         given' = [given EXCEPT ![c] = @ \cup new],
         tainted' \/ (~tainted /\ (sc[c].ca = root => stores'[root] = stores[root])),
         UNCHANGED <<root, stray>>
  PROVE  Ownership'
<1> USE DEF ContextInv, ContextTypeOK, Ownership
<1>1. sc'[c] = x /\ \A d \in Ctxs : d # c => sc'[d] = sc[d]
  OBVIOUS
<1>2. /\ given'[c] = given[c] \cup new
      /\ \A d \in Ctxs : d # c => given'[d] = given[d]
  OBVIOUS
<1>3. \A d \in Ctxs : InUse(d)' <=> InUse(d)
  BY <1>1 DEF InUse
<1>4. \A d \in Ctxs : sc[d].ca \in 0..Len(stores) /\ sc[d].store \in 0..Len(stores)
  BY DEF OwnsStores, tls_sc_ts
<1>5. \A s \in 1..Len(stores) : stores'[s].refs = stores[s].refs
  OBVIOUS
<1>6. RootKept'
  BY <1>4 DEF RootKept, NULL
<1>7. \A d \in Ctxs : OwnsStores(d)'
  BY <1>1, <1>2, <1>3, <1>4, <1>5 DEF OwnsStores, NULL
<1>8. \A d \in Ctxs : TrustsGiven(d)'
  <2> SUFFICES ASSUME NEW d \in Ctxs PROVE TrustsGiven(d)'
    OBVIOUS
  <2>1. CASE d = c
    BY <1>1, <1>2, <1>4, <2>1 DEF TrustsGiven, OwnsStores, InUse, NULL
  <2>2. CASE d # c
    BY <1>1, <1>2, <1>4, <2>2 DEF TrustsGiven, OwnsStores, InUse, Apart, NULL
  <2> QED BY <2>1, <2>2
<1>9. \A d, e \in Ctxs : d # e => Apart(d, e)'
  BY <1>1 DEF Apart
<1>10. \A s \in 1..Len(stores') : stores'[s].refs \in 0..1 /\ HasOwner(s)'
  BY <1>1, <1>3, <1>5 DEF HasOwner
<1> QED BY <1>6, <1>7, <1>8, <1>9, <1>10

\* A step that gives a context another store, a new one or the root store, and
\* frees the one it had.
LEMMA Replace ==
  ASSUME ContextInv, ~mishandled, NEW c \in Ctxs, NEW x \in tls_sc_ts, NEW r \in 1..Len(stores'),
         sc' = [sc EXCEPT ![c] = x], sc[c].st = "open", sc[c].store # root,
         x.ca = r, x.store = r, x.st \in {"open", "dropped"},
         stores' \in Seq(X509_STOREs), r \notin 1..Len(stores) \/ r = root,
         Len(stores') = IF r = root THEN Len(stores) ELSE Len(stores) + 1,
         \A i \in 1..Len(stores) : i # sc[c].store => stores'[i] = stores[i],
         stores'[sc[c].store].refs = 0, stores'[r].refs = 1,
         root' = root \/ (root = NULL /\ root' = r),
         root' # r => stores'[r].certs = given'[c],
         root # root' => stores'[r].certs \subseteq {RootCert} /\ ~stores'[r].crl,
         \A d \in Ctxs : d # c => given'[d] = given[d],
         stray' = stray, tainted' = tainted
  PROVE  Ownership'
<1> USE DEF ContextInv, ContextTypeOK, Ownership
<1> DEFINE o == sc[c].store
<1>1. sc'[c] = x /\ \A d \in Ctxs : d # c => sc'[d] = sc[d]
  OBVIOUS
<1>2. \A d \in Ctxs : InUse(d)' <=> InUse(d)
  BY <1>1 DEF InUse
<1>3. \A d \in Ctxs : sc[d].ca \in 0..Len(stores) /\ sc[d].store \in 0..Len(stores)
  BY DEF OwnsStores, tls_sc_ts
<1>4. o \in 1..Len(stores) /\ o # root /\ o # r
  BY <1>3 DEF OwnsStores, InUse, NULL
<1>5. root \in 0..Len(stores)
  BY DEF RootKept
<1>6. RootKept'
  BY <1>4, <1>5 DEF RootKept, NULL
<1>7. \A d, e \in Ctxs : d # e => Apart(d, e)'
  BY <1>1, <1>3, <1>5 DEF Apart, NULL
<1>8. \A d \in Ctxs : d # c => sc[d].ca # o /\ sc[d].store # o
  BY <1>4 DEF Apart, NULL
<1>9. \A d \in Ctxs : OwnsStores(d)'
  <2> SUFFICES ASSUME NEW d \in Ctxs PROVE OwnsStores(d)'
    OBVIOUS
  <2>1. CASE d = c
    BY <1>1, <2>1 DEF OwnsStores, NULL
  <2>2. CASE d # c
    BY <1>1, <1>2, <1>3, <1>5, <1>8, <2>2 DEF OwnsStores, NULL
  <2> QED BY <2>1, <2>2
<1>10. \A d \in Ctxs : TrustsGiven(d)'
  <2> SUFFICES ASSUME NEW d \in Ctxs PROVE TrustsGiven(d)'
    OBVIOUS
  <2>1. CASE d = c
    BY <1>1, <2>1 DEF TrustsGiven
  <2>2. CASE d # c
    BY <1>1, <1>3, <1>5, <1>8, <2>2 DEF TrustsGiven, OwnsStores, InUse, NULL
  <2> QED BY <2>1, <2>2
<1>11. \A s \in 1..Len(stores') : stores'[s].refs \in 0..1 /\ HasOwner(s)'
  <2> SUFFICES ASSUME NEW s \in 1..Len(stores') PROVE stores'[s].refs \in 0..1 /\ HasOwner(s)'
    OBVIOUS
  <2>1. CASE s = r
    <3>1. InUse(c)' /\ sc'[c].store = s
      BY <1>1, <2>1 DEF InUse
    <3> QED BY <2>1, <3>1 DEF HasOwner
  <2>2. CASE s = o
    BY <2>2 DEF HasOwner
  <2>3. CASE s # r /\ s # o
    <3>1. s \in 1..Len(stores) /\ stores'[s] = stores[s]
      BY <2>3
    <3>2. \A d \in Ctxs : InUse(d) /\ sc[d].store = s => InUse(d)' /\ sc'[d].store = s
      BY <1>1, <1>2, <2>3
    <3>3. s = root => s = root'
      BY <3>1 DEF NULL
    <3> QED BY <3>1, <3>2, <3>3 DEF HasOwner
  <2> QED BY <2>1, <2>2, <2>3
<1> QED BY <1>6, <1>7, <1>9, <1>10, <1>11

\* A step that ends the last use of a context: its store, if it still has one,
\* is freed.
LEMMA Release ==
  ASSUME ContextInv, ~mishandled, NEW c \in Ctxs, NEW x \in tls_sc_ts,
         sc' = [sc EXCEPT ![c] = x], InUse(c), x.st = "closed", x.conns = 0,
         x.ca = sc[c].ca,
         \/ x.store = NULL /\ sc[c].store = root /\ stores' = stores
         \/ /\ x.store = sc[c].store /\ sc[c].store # root
            /\ stores' = X509_STORE_free(stores, sc[c].store),
         UNCHANGED <<root, given, stray, tainted>>
  PROVE  stores' \in Seq(X509_STOREs) /\ Len(stores') = Len(stores) /\ Ownership'
<1> USE DEF ContextInv, ContextTypeOK, Ownership
<1> DEFINE o == sc[c].store
<1>1. sc'[c] = x /\ \A d \in Ctxs : d # c => sc'[d] = sc[d]
  OBVIOUS
<1>2. ~InUse(c)' /\ \A d \in Ctxs : d # c => (InUse(d)' <=> InUse(d))
  BY <1>1 DEF InUse
<1>3. \A d \in Ctxs : sc[d].ca \in 0..Len(stores) /\ sc[d].store \in 0..Len(stores)
  BY DEF OwnsStores, tls_sc_ts
<1>4. o \in 1..Len(stores) /\ stores[o].refs = 1
  BY <1>3 DEF OwnsStores, NULL
<1>5. /\ stores' \in Seq(X509_STOREs) /\ Len(stores') = Len(stores)
      /\ \A i \in 1..Len(stores) : i # o \/ o = root => stores'[i] = stores[i]
      /\ o # root => stores'[o].refs = 0
  BY <1>4, FreeFields
<1>6. root \in 0..Len(stores)
  BY DEF RootKept
<1>7. RootKept'
  BY <1>5, <1>6 DEF RootKept, NULL
<1>8. \A d, e \in Ctxs : d # e => Apart(d, e)'
  BY <1>1 DEF Apart, NULL
<1>9. \A d \in Ctxs : d # c => (sc[d].ca # o /\ sc[d].store # o) \/ o = root
  BY <1>4 DEF Apart, NULL
<1>10. \A d \in Ctxs : OwnsStores(d)' /\ TrustsGiven(d)'
  <2> SUFFICES ASSUME NEW d \in Ctxs PROVE OwnsStores(d)' /\ TrustsGiven(d)'
    OBVIOUS
  <2>1. CASE d = c
    BY <1>1, <1>2, <1>3, <1>5, <2>1 DEF OwnsStores, TrustsGiven, NULL
  <2>2. CASE d # c
    <3>1. OwnsStores(d)'
      BY <1>1, <1>2, <1>3, <1>5, <1>9, <2>2 DEF OwnsStores, NULL
    <3>2. TrustsGiven(d)'
      BY <1>1, <1>2, <1>3, <1>5, <1>9, <2>2 DEF TrustsGiven, OwnsStores, InUse, NULL
    <3> QED BY <3>1, <3>2
  <2> QED BY <2>1, <2>2
<1>11. \A s \in 1..Len(stores') : stores'[s].refs \in 0..1 /\ HasOwner(s)'
  <2> SUFFICES ASSUME NEW s \in 1..Len(stores') PROVE stores'[s].refs \in 0..1 /\ HasOwner(s)'
    OBVIOUS
  <2>1. CASE s = o
    BY <1>4, <1>5, <2>1 DEF HasOwner
  <2>2. CASE s # o
    <3>1. s \in 1..Len(stores) /\ stores'[s] = stores[s]
      BY <1>5, <2>2
    <3>2. \A d \in Ctxs : InUse(d) /\ sc[d].store = s => InUse(d)' /\ sc'[d].store = s
      BY <1>1, <1>2, <2>2
    <3> QED BY <3>1, <3>2 DEF HasOwner
  <2> QED BY <2>1, <2>2
<1> QED BY <1>5, <1>7, <1>8, <1>10, <1>11

\* A step that allocates a store: for a new context, for a context that fails to
\* set it, or as the root store.
LEMMA Allocate ==
  ASSUME ContextInv, ~mishandled, NEW c \in Ctxs, NEW x \in tls_sc_ts,
         sc' = [sc EXCEPT ![c] = x], stores' = Append(stores, NewStore),
         \/ /\ sc[c].st = "none" /\ x = [NoContext EXCEPT !.st = "open", !.store = Len(stores) + 1]
            /\ UNCHANGED <<root, stray>>
         \/ /\ sc[c].st = "open" /\ sc[c].ca = NULL /\ x = [sc[c] EXCEPT !.ca = Len(stores) + 1]
            /\ stray' = [stray EXCEPT ![c] = TRUE] /\ root' = root
         \/ /\ root = NULL /\ root' = Len(stores) + 1 /\ x = sc[c] /\ stray' = stray,
         UNCHANGED <<given, tainted>>
  PROVE  Ownership'
<1> USE DEF ContextInv, ContextTypeOK, Ownership
<1> DEFINE n == Len(stores) + 1
<1>1. sc'[c] = x /\ \A d \in Ctxs : d # c => sc'[d] = sc[d]
  OBVIOUS
<1>2. /\ stores' \in Seq(X509_STOREs) /\ Len(stores') = n
      /\ \A i \in 1..Len(stores) : stores'[i] = stores[i]
      /\ stores'[n].refs = 1 /\ stores'[n].certs = {} /\ ~stores'[n].crl
  BY NewFields, NewStoreFields
<1>3. \A d \in Ctxs : sc[d].ca \in 0..Len(stores) /\ sc[d].store \in 0..Len(stores)
  BY DEF OwnsStores, tls_sc_ts
<1>4. root \in 0..Len(stores)
  BY DEF RootKept
<1>5. RootKept'
  BY <1>2, <1>4 DEF RootKept, NULL
<1>6. \A d, e \in Ctxs : d # e => Apart(d, e)'
  <2>1. x.ca \in {NULL, sc[c].ca, n} /\ x.store \in {NULL, sc[c].store, n}
    BY DEF NoContext, tls_sc_ts
  <2>2. root' = root \/ root = NULL
    OBVIOUS
  <2> HIDE DEF n
  <2>3. \A d \in Ctxs : sc[d].ca # n /\ sc[d].store # n
    BY <1>3 DEF n
  <2> QED BY <1>1, <2>1, <2>2, <2>3 DEF Apart
<1>7. \A d \in Ctxs : d # c => (InUse(d)' <=> InUse(d)) /\ stray'[d] = stray[d]
  BY <1>1 DEF InUse
<1>8. \A d \in Ctxs : d # c => OwnsStores(d)' /\ TrustsGiven(d)'
  <2> SUFFICES ASSUME NEW d \in Ctxs, d # c PROVE OwnsStores(d)' /\ TrustsGiven(d)'
    OBVIOUS
  <2>1. OwnsStores(d)'
    BY <1>1, <1>2, <1>3, <1>4, <1>7 DEF OwnsStores, NULL
  <2>2. TrustsGiven(d)'
    BY <1>1, <1>2, <1>3, <1>4, <1>7 DEF TrustsGiven, OwnsStores, InUse, NULL
  <2> QED BY <2>1, <2>2
<1>9. CASE sc[c].st = "none" /\ x = [NoContext EXCEPT !.st = "open", !.store = n]
           /\ UNCHANGED <<root, stray>>
  <2>1. /\ x.st = "open" /\ x.ca = NULL /\ x.store = n /\ x.conns = 0
        /\ sc[c] = NoContext /\ given[c] = {}
    BY <1>9 DEF NoContext, OwnsStores, NULL
  <2>2. InUse(c)' /\ ~InUse(c)
    BY <1>1, <2>1 DEF InUse, NoContext
  <2>3. OwnsStores(c)' /\ TrustsGiven(c)'
    BY <1>1, <1>2, <1>4, <1>9, <2>1, <2>2 DEF OwnsStores, TrustsGiven, NULL
  <2>4. \A s \in 1..Len(stores') : stores'[s].refs \in 0..1 /\ HasOwner(s)'
    <3> SUFFICES ASSUME NEW s \in 1..Len(stores') PROVE stores'[s].refs \in 0..1 /\ HasOwner(s)'
      OBVIOUS
    <3>1. CASE s = n
      BY <1>1, <1>2, <2>1, <2>2, <3>1 DEF HasOwner
    <3>2. CASE s # n
      <4>1. s \in 1..Len(stores) /\ stores'[s] = stores[s]
        BY <1>2, <3>2
      <4>2. \A d \in Ctxs : InUse(d) /\ sc[d].store = s => InUse(d)' /\ sc'[d].store = s
        BY <1>1, <1>7, <2>2
      <4> QED BY <1>9, <4>1, <4>2 DEF HasOwner
    <3> QED BY <3>1, <3>2
  <2> QED BY <1>5, <1>6, <1>8, <2>3, <2>4
<1>10. CASE sc[c].st = "open" /\ sc[c].ca = NULL /\ x = [sc[c] EXCEPT !.ca = n]
            /\ stray' = [stray EXCEPT ![c] = TRUE] /\ root' = root
  <2>1. /\ x.st = "open" /\ x.ca = n /\ x.store = sc[c].store /\ x.conns = sc[c].conns
        /\ stray'[c]
    BY <1>10 DEF tls_sc_ts
  <2>2. InUse(c)' /\ InUse(c)
    BY <1>1, <1>10, <2>1 DEF InUse
  <2>3. OwnsStores(c)' /\ TrustsGiven(c)'
    BY <1>1, <1>2, <1>3, <1>4, <1>10, <2>1, <2>2 DEF OwnsStores, TrustsGiven, NULL
  <2>4. \A s \in 1..Len(stores') : stores'[s].refs \in 0..1 /\ HasOwner(s)'
    BY <1>2, <2>1 DEF HasOwner
  <2> QED BY <1>5, <1>6, <1>8, <2>3, <2>4
<1>11. CASE root = NULL /\ root' = n /\ x = sc[c] /\ stray' = stray
  <2>1. sc' = sc /\ (InUse(c)' <=> InUse(c))
    BY <1>1, <1>11 DEF InUse
  <2>2. OwnsStores(c)' /\ TrustsGiven(c)'
    <3>1. OwnsStores(c)'
      BY <1>2, <1>3, <1>11, <2>1 DEF OwnsStores, NULL
    <3>2. TrustsGiven(c)'
      BY <1>2, <1>3, <1>11, <2>1 DEF TrustsGiven, OwnsStores, InUse, NULL
    <3> QED BY <3>1, <3>2
  <2>4. \A s \in 1..Len(stores') : stores'[s].refs \in 0..1 /\ HasOwner(s)'
    <3> SUFFICES ASSUME NEW s \in 1..Len(stores') PROVE stores'[s].refs \in 0..1 /\ HasOwner(s)'
      OBVIOUS
    <3>1. CASE s = n
      BY <1>2, <1>11, <3>1 DEF HasOwner
    <3>2. CASE s # n
      <4>1. s \in 1..Len(stores) /\ stores'[s] = stores[s] /\ s # root
        BY <1>2, <1>11, <3>2 DEF NULL
      <4>2. \A d \in Ctxs : InUse(d)' <=> InUse(d)
        BY <1>7, <2>1
      <4> QED BY <1>11, <2>1, <4>1, <4>2 DEF HasOwner
    <3> QED BY <3>1, <3>2
  <2> QED BY <1>5, <1>6, <1>8, <2>2, <2>4
<1> QED BY <1>9, <1>10, <1>11

-----------------------------------------------------------------------------
\* Before anything was created.
LEMMA ContextInitInv == ContextInit => ContextInv
<1> SUFFICES ASSUME ContextInit PROVE ContextInv
  OBVIOUS
<1> USE DEF ContextInit, NoContext, NULL
<1>1. ContextTypeOK
  <2>1. NoContext \in tls_sc_ts
    BY ContextAssumption DEF tls_sc_ts
  <2>2. stores \in Seq(X509_STOREs) /\ Len(stores) <= MaxStores /\ root \in 0..MaxStores
    BY ContextAssumption
  <2> QED BY <2>1, <2>2 DEF ContextTypeOK
<1>2. Ownership
  BY DEF Ownership, RootKept, OwnsStores, TrustsGiven, Apart, InUse
<1>3. CutIsDropped /\ PeersFreed
  BY DEF CutIsDropped, PeersFreed
<1> QED BY <1>1, <1>2, <1>3 DEF ContextInv

\* The parts of the invariant that do not speak of stores depend on the fields
\* of the one context that changed.
LEMMA ContextStep ==
  ASSUME ContextInv, NEW c \in Ctxs, NEW x \in tls_sc_ts, sc' = [sc EXCEPT ![c] = x],
         x.peer <= x.conns,
         x.chain = "cut" => x.st \in {"dropped", "closed"}
  PROVE  sc' \in [Ctxs -> tls_sc_ts] /\ CutIsDropped' /\ PeersFreed'
BY DEF ContextInv, ContextTypeOK, CutIsDropped, PeersFreed

\* The fields of the context an operation is called on.
LEMMA Fields ==
  ASSUME ContextInv, NEW c \in Ctxs
  PROVE  /\ sc[c] \in tls_sc_ts
         /\ sc[c].peer <= sc[c].conns
         /\ sc[c].chain = "cut" => sc[c].st \in {"dropped", "closed"}
         /\ ~mishandled => /\ sc[c].st = "none" => sc[c] = NoContext
                        /\ sc[c].ca <= Len(stores) /\ sc[c].store <= Len(stores)
                        /\ root <= Len(stores)
BY DEF ContextInv, ContextTypeOK, CutIsDropped, PeersFreed, Ownership, OwnsStores, RootKept

\* tls_sc_set_key, tls_sc_set_cert and tls_sc_set_ciphers leave the stores alone
\* and drop the context when they fail.
LEMMA SettersInv ==
  ASSUME ContextInv, NEW c \in Ctxs, tls_sc_set_key(c) \/ tls_sc_set_cert(c) \/ tls_sc_set_ciphers(c)
  PROVE  ContextInv'
<1>1. PICK x \in tls_sc_ts :
        /\ sc' = [sc EXCEPT ![c] = x]
        /\ x.ca = sc[c].ca /\ x.store = sc[c].store /\ x.conns = sc[c].conns
        /\ x.peer = sc[c].peer /\ x.st \in {"open", "dropped"}
        /\ x.chain = "cut" => x.st = "dropped"
  <2>0. sc \in [Ctxs -> tls_sc_ts] /\ sc[c] \in tls_sc_ts
    BY DEF ContextInv, ContextTypeOK
  <2>1. CASE UNCHANGED sc
    <3>1. sc[c].st = "open" /\ sc[c].chain # "cut"
      BY Fields DEF tls_sc_set_key, tls_sc_set_cert, tls_sc_set_ciphers, Usable
    <3>2. sc' = [sc EXCEPT ![c] = sc[c]]
      BY <2>0, <2>1
    <3> QED BY <2>0, <3>1, <3>2
  <2>2. CASE Raise(c)
    <3> DEFINE x == [sc[c] EXCEPT !.st = "dropped"]
    <3>1. sc' = [sc EXCEPT ![c] = x]
      BY <2>2 DEF Raise
    <3>2. x \in tls_sc_ts
      BY <2>0 DEF tls_sc_ts
    <3> QED BY <2>0, <3>1, <3>2 DEF tls_sc_ts
  <2>3. CASE tls_sc_set_cert(c)
    <3>1. PICK r \in SSL_CTX_use_certificate_chain(sc[c].chain) :
            sc' = [sc EXCEPT ![c].chain = r[1], ![c].st = IF r[2] THEN "open" ELSE "dropped"]
      BY <2>3 DEF tls_sc_set_cert
    <3> DEFINE x == [sc[c] EXCEPT !.chain = r[1], !.st = IF r[2] THEN "open" ELSE "dropped"]
    <3>2. sc' = [sc EXCEPT ![c] = x]
      BY <2>0, <3>1 DEF tls_sc_ts
    <3>3. /\ r[1] \in {"none", "whole", "cut"} /\ r[2] \in BOOLEAN
          /\ r[1] = "cut" => ~r[2]
      <4>1. sc[c].chain \in {"none", "whole", "cut"}
        BY <2>0 DEF tls_sc_ts
      <4>2. r \in {<<sc[c].chain, FALSE>>, <<"cut", FALSE>>, <<"whole", TRUE>>}
        BY <3>1 DEF SSL_CTX_use_certificate_chain
      <4>3. CASE r = <<sc[c].chain, FALSE>>
        BY <4>1, <4>3
      <4>4. CASE r = <<"cut", FALSE>>
        BY <4>4
      <4>5. CASE r = <<"whole", TRUE>>
        BY <4>5
      <4> QED BY <4>2, <4>3, <4>4, <4>5
    <3>4. x \in tls_sc_ts
      BY <2>0, <3>3 DEF tls_sc_ts
    <3> QED BY <2>0, <3>2, <3>3, <3>4 DEF tls_sc_ts
  <2> QED BY <2>1, <2>2, <2>3 DEF tls_sc_set_key, tls_sc_set_ciphers
<1>2. /\ ~mishandled /\ sc[c].st = "open" /\ UNCHANGED <<stores, root, history, mishandled>>
  BY DEF tls_sc_set_key, tls_sc_set_cert, tls_sc_set_ciphers, Usable
<1>3. sc' \in [Ctxs -> tls_sc_ts] /\ CutIsDropped' /\ PeersFreed'
  BY <1>1, Fields, ContextStep
<1>4. InUse(c) /\ InUse(c)'
  BY <1>1, <1>2, Fields DEF InUse, ContextInv, ContextTypeOK
<1>5. Ownership'
  BY <1>1, <1>2, <1>4, Quiet DEF history
<1> QED BY <1>2, <1>3, <1>5 DEF ContextInv, ContextTypeOK, history

\* SSL_new, the handshake and getPeerCertificate: the connections of a context
\* and the references on the certificates of their peers.
LEMMA ConnectionsInv ==
  ASSUME ContextInv, NEW c \in Ctxs,
         SSL_new(c) \/ SSL_handshake(c) \/ tls_conn_get_peer_certificate(c)
  PROVE  ContextInv'
<1>0. /\ sc \in [Ctxs -> tls_sc_ts] /\ sc[c] \in tls_sc_ts
      /\ sc[c].conns \in 0..MaxConns /\ sc[c].peer \in 0..(2 * MaxConns)
      /\ sc[c].peer <= sc[c].conns /\ MaxConns \in Nat
      /\ ~mishandled /\ (sc[c].conns > 0 => sc[c].st # "none")
  BY Fields, ContextAssumption
  DEF ContextInv, ContextTypeOK, tls_sc_ts, NoContext, SSL_new, SSL_handshake, tls_conn_get_peer_certificate, Usable
<1>1. PICK x \in tls_sc_ts :
        /\ sc' = [sc EXCEPT ![c] = x]
        /\ x.ca = sc[c].ca /\ x.store = sc[c].store /\ x.chain = sc[c].chain /\ x.st = sc[c].st
        /\ x.peer <= x.conns
        /\ x.conns > 0
        /\ x.conns = sc[c].conns \/ sc[c].st = "open"
  <2>1. CASE SSL_new(c)
    <3> DEFINE x == [sc[c] EXCEPT !.conns = @ + 1]
    <3>1. sc' = [sc EXCEPT ![c] = x] /\ sc[c].conns < MaxConns /\ sc[c].st = "open"
      BY <2>1 DEF SSL_new, Usable
    <3>2. /\ x \in tls_sc_ts /\ x.peer <= x.conns /\ x.conns > 0
          /\ x.ca = sc[c].ca /\ x.store = sc[c].store /\ x.chain = sc[c].chain /\ x.st = sc[c].st
          /\ x.conns = sc[c].conns \/ sc[c].st = "open"
      BY <1>0, <3>1 DEF tls_sc_ts
    <3> HIDE DEF x
    <3> QED BY <3>1, <3>2
  <2>2. CASE SSL_handshake(c)
    <3> DEFINE x == [sc[c] EXCEPT !.peer = @ + 1]
    <3>1. sc' = [sc EXCEPT ![c] = x] /\ sc[c].peer < sc[c].conns
      BY <2>2 DEF SSL_handshake
    <3>2. /\ x \in tls_sc_ts /\ x.peer <= x.conns /\ x.conns > 0
          /\ x.ca = sc[c].ca /\ x.store = sc[c].store /\ x.chain = sc[c].chain /\ x.st = sc[c].st
          /\ x.conns = sc[c].conns \/ sc[c].st = "open"
      BY <1>0, <3>1 DEF tls_sc_ts
    <3> HIDE DEF x
    <3> QED BY <3>1, <3>2
  <2>3. CASE tls_conn_get_peer_certificate(c)
    <3> DEFINE y == SSL_get_peer_certificate(sc[c])
    <3>1. sc' = [sc EXCEPT ![c] = X509_free(y)] /\ sc[c].conns > 0
      BY <2>3 DEF tls_conn_get_peer_certificate
    <3>2. /\ y \in [st : {"none", "open", "dropped", "closed"}, ca : 0..MaxStores,
                   store : 0..MaxStores, conns : 0..MaxConns, peer : Nat,
                   chain : {"none", "whole", "cut"}]
          /\ y = [sc[c] EXCEPT !.peer = sc[c].peer + 1]
          /\ y.peer = sc[c].peer + 1
      BY <1>0 DEF tls_sc_ts, SSL_get_peer_certificate
    <3>3. X509_free(y) = [y EXCEPT !.peer = sc[c].peer]
      <4>1. y.peer - 1 = sc[c].peer
        BY <1>0, <3>2
      <4> QED BY <4>1 DEF X509_free
    <3>4. X509_free(y) = sc[c]
      BY <1>0, <3>2, <3>3 DEF tls_sc_ts
    <3> QED BY <1>0, <3>1, <3>4
  <2> QED BY <2>1, <2>2, <2>3
<1>2. /\ UNCHANGED <<stores, root, given, stray, tainted, mishandled>>
      /\ keyLost' \in BOOLEAN
  BY DEF SSL_new, SSL_handshake, tls_conn_get_peer_certificate, history, ContextInv, ContextTypeOK
<1>3. sc[c].st # "none" /\ (InUse(c)' <=> InUse(c))
  BY <1>0, <1>1 DEF InUse
<1>4. sc' \in [Ctxs -> tls_sc_ts] /\ CutIsDropped' /\ PeersFreed'
  BY <1>1, Fields, ContextStep
<1>5. Ownership'
  BY <1>0, <1>1, <1>2, <1>3, Quiet
<1> QED BY <1>2, <1>4, <1>5 DEF ContextInv, ContextTypeOK

\* SSL_free: the last connection of a closed context frees the store.
LEMMA FreeInv ==
  ASSUME ContextInv, NEW c \in Ctxs, SSL_free(c)
  PROVE  ContextInv'
<1>0. /\ sc \in [Ctxs -> tls_sc_ts] /\ sc[c] \in tls_sc_ts
      /\ sc[c].conns \in 0..MaxConns /\ sc[c].peer \in 0..(2 * MaxConns)
      /\ sc[c].peer <= sc[c].conns /\ MaxConns \in Nat
      /\ ~mishandled /\ sc[c].conns > 0 /\ sc[c].st # "none"
  BY Fields, ContextAssumption DEF ContextInv, ContextTypeOK, tls_sc_ts, NoContext, SSL_free
<1>1. PICK n \in {0, 1} :
        LET x == [sc[c] EXCEPT !.conns = @ - 1, !.peer = @ - n] IN
        /\ IF n = 0 THEN sc[c].peer < sc[c].conns ELSE sc[c].peer > 0
        /\ sc' = [sc EXCEPT ![c] = x]
        /\ stores' = IF x.st = "closed" THEN SSL_CTX_free(stores, x) ELSE stores
        /\ UNCHANGED <<root, history, mishandled>>
  BY DEF SSL_free
<1> DEFINE x == [sc[c] EXCEPT !.conns = @ - 1, !.peer = @ - n]
<1>2. /\ x \in tls_sc_ts /\ x.ca = sc[c].ca /\ x.store = sc[c].store /\ x.st = sc[c].st
      /\ x.conns = sc[c].conns - 1 /\ x.peer = sc[c].peer - n /\ x.chain = sc[c].chain
  <2>1. sc[c].conns - 1 \in 0..MaxConns /\ sc[c].peer - n \in 0..(2 * MaxConns)
    BY <1>0, <1>1
  <2> QED BY <1>0, <2>1 DEF tls_sc_ts
<1>3. /\ sc' = [sc EXCEPT ![c] = x]
      /\ stores' = IF x.st = "closed" THEN SSL_CTX_free(stores, x) ELSE stores
      /\ x.peer <= x.conns
      /\ UNCHANGED <<root, given, stray, tainted, keyLost, mishandled>>
  BY <1>0, <1>1, <1>2 DEF history
<1> HIDE DEF x
<1>4. sc' \in [Ctxs -> tls_sc_ts] /\ CutIsDropped' /\ PeersFreed'
  BY <1>2, <1>3, Fields, ContextStep
<1>5. InUse(c)
  BY <1>0 DEF InUse
<1>6. CASE x.st = "closed" /\ x.conns = 0
  <2>1. sc[c].store # NULL /\ sc[c].store # root
    BY <1>0, <1>2, <1>5, <1>6 DEF ContextInv, Ownership, OwnsStores
  <2>2. stores' = X509_STORE_free(stores, sc[c].store)
    BY <1>2, <1>3, <1>6 DEF SSL_CTX_free
  <2>3. stores' \in Seq(X509_STOREs) /\ Len(stores') = Len(stores) /\ Ownership'
    BY <1>0, <1>2, <1>3, <1>5, <1>6, <2>1, <2>2, Release
  <2> QED BY <1>3, <1>4, <2>3 DEF ContextInv, ContextTypeOK
<1>7. CASE ~(x.st = "closed" /\ x.conns = 0)
  <2>1. stores' = stores
    BY <1>3, <1>7 DEF SSL_CTX_free
  <2>2. InUse(c)'
    BY <1>0, <1>2, <1>3, <1>7 DEF InUse, tls_sc_ts
  <2>3. Ownership'
    BY <1>0, <1>2, <1>3, <1>5, <2>1, <2>2, Quiet
  <2> QED BY <1>3, <1>4, <2>1, <2>3 DEF ContextInv, ContextTypeOK
<1> QED BY <1>6, <1>7

\* tls_sc_close: a context without connections frees the store, unless it is the
\* root store.
LEMMA CloseInv ==
  ASSUME ContextInv, NEW c \in Ctxs, tls_sc_close(c)
  PROVE  ContextInv'
<1> DEFINE y == IF sc[c].store = root THEN [sc[c] EXCEPT !.store = NULL] ELSE sc[c]
           x == [y EXCEPT !.st = "closed"]
<1>0. /\ sc[c] \in tls_sc_ts /\ ~mishandled /\ sc[c].st \in {"open", "dropped"}
      /\ sc[c].conns \in Nat
  BY Fields DEF tls_sc_close, tls_sc_ts
<1>1. /\ stores' = SSL_CTX_free(stores, y) /\ sc' = [sc EXCEPT ![c] = x]
      /\ mishandled' = (sc[c].conns > 0 /\ sc[c].store = root)
      /\ UNCHANGED <<root, given, stray, tainted, keyLost>>
  BY DEF tls_sc_close, history
<1>2. /\ x \in tls_sc_ts /\ x.ca = sc[c].ca /\ x.st = "closed" /\ x.conns = sc[c].conns
      /\ x.peer = sc[c].peer /\ x.store = y.store /\ y.conns = sc[c].conns
      /\ sc[c].store = root => y.store = NULL
      /\ sc[c].store # root => y.store = sc[c].store
  BY <1>0, ContextAssumption DEF tls_sc_ts, NULL
<1> HIDE DEF y, x
<1>3. sc' \in [Ctxs -> tls_sc_ts] /\ CutIsDropped' /\ PeersFreed'
  BY <1>1, <1>2, Fields, ContextStep
<1>4. InUse(c) /\ mishandled' \in BOOLEAN
  BY <1>0, <1>1 DEF InUse
<1>5. CASE sc[c].conns = 0
  <2>1. \/ x.store = NULL /\ sc[c].store = root /\ stores' = stores
        \/ /\ x.store = sc[c].store /\ sc[c].store # root
           /\ stores' = X509_STORE_free(stores, sc[c].store)
    BY <1>1, <1>2, <1>5 DEF SSL_CTX_free, X509_STORE_free
  <2>2. stores' \in Seq(X509_STOREs) /\ Len(stores') = Len(stores) /\ Ownership'
    BY <1>0, <1>1, <1>2, <1>4, <1>5, <2>1, Release
  <2> QED BY <1>1, <1>3, <1>4, <2>2 DEF ContextInv, ContextTypeOK
<1>6. CASE sc[c].conns # 0 /\ sc[c].store = root
  <2>1. stores' = stores /\ sc[c].conns > 0
    BY <1>0, <1>1, <1>2, <1>6 DEF SSL_CTX_free
  <2>2. mishandled'
    BY <1>1, <1>6, <2>1, Zenon
  <2> QED BY <1>1, <1>3, <1>4, <2>1, <2>2 DEF ContextInv, ContextTypeOK
<1>7. CASE sc[c].conns # 0 /\ sc[c].store # root
  <2>1. stores' = stores
    BY <1>1, <1>2, <1>7 DEF SSL_CTX_free
  <2>2. InUse(c)'
    BY <1>0, <1>1, <1>2, <1>7 DEF InUse, ContextInv, ContextTypeOK
  <2>3. Ownership'
    <3> USE <1>1, <1>2, <1>4, <1>7, <2>1, <2>2 DEF ContextInv, ContextTypeOK, Ownership
    <3>1. sc'[c] = x /\ \A d \in Ctxs : d # c => sc'[d] = sc[d]
      OBVIOUS
    <3>2. \A d \in Ctxs : InUse(d)' <=> InUse(d)
      BY <3>1 DEF InUse
    <3>3. RootKept'
      BY <1>0 DEF RootKept
    <3>4. \A d \in Ctxs : OwnsStores(d)' /\ TrustsGiven(d)'
      BY <1>0, <3>1, <3>2 DEF OwnsStores, TrustsGiven
    <3>5. \A d, e \in Ctxs : d # e => Apart(d, e)'
      BY <1>0, <3>1 DEF Apart
    <3>6. \A s \in 1..Len(stores') : stores'[s].refs \in 0..1 /\ HasOwner(s)'
      BY <1>0, <3>1, <3>2 DEF HasOwner
    <3> QED BY <3>3, <3>4, <3>5, <3>6
  <2> QED BY <1>1, <1>3, <1>4, <2>1, <2>3 DEF ContextInv, ContextTypeOK
<1> QED BY <1>5, <1>6, <1>7

\* tls_sc_create: a context with a store of its own.
LEMMA CreateInv ==
  ASSUME ContextInv, NEW c \in Ctxs, tls_sc_create(c)
  PROVE  ContextInv'
<1> DEFINE x == [NoContext EXCEPT !.st = "open", !.store = Len(stores) + 1]
<1>0. /\ ~mishandled /\ sc[c].st = "none" /\ Len(stores) < MaxStores
      /\ stores \in Seq(X509_STOREs) /\ Len(stores) \in Nat
  BY DEF tls_sc_create, ContextInv, ContextTypeOK
<1>1. /\ stores' = Append(stores, NewStore) /\ sc' = [sc EXCEPT ![c] = x]
      /\ UNCHANGED <<root, given, stray, tainted, keyLost, mishandled>>
  BY DEF tls_sc_create, newSC, history
<1>2. x \in tls_sc_ts /\ x.peer <= x.conns /\ x.chain # "cut"
  <2>1. /\ Len(stores) + 1 \in 0..MaxStores /\ 0 \in 0..MaxStores
        /\ 0 \in 0..MaxConns /\ 0 \in 0..(2 * MaxConns)
    BY <1>0, ContextAssumption
  <2>2. NoContext \in tls_sc_ts /\ NoContext.peer = 0 /\ NoContext.conns = 0 /\ NoContext.chain = "none"
    BY <2>1 DEF NoContext, NULL, tls_sc_ts
  <2>3. x \in tls_sc_ts
    BY <2>1, <2>2 DEF tls_sc_ts
  <2>4. x.peer = 0 /\ x.conns = 0 /\ x.chain = "none"
    BY <2>2 DEF tls_sc_ts
  <2> QED BY <2>3, <2>4
<1>3. sc' \in [Ctxs -> tls_sc_ts] /\ CutIsDropped' /\ PeersFreed'
  BY <1>1, <1>2, ContextStep
<1>4. stores' \in Seq(X509_STOREs) /\ Len(stores') <= MaxStores
  <2>1. /\ Append(stores, NewStore) \in Seq(X509_STOREs)
        /\ Len(Append(stores, NewStore)) = Len(stores) + 1
    BY <1>0, NewFields, NewStoreFields
  <2> QED BY <1>0, <1>1, <2>1, ContextAssumption
<1>5. Ownership'
  BY <1>0, <1>1, <1>2, Allocate
<1> QED BY <1>1, <1>3, <1>4, <1>5 DEF ContextInv, ContextTypeOK

\* The stores after SSL_CTX_set_cert_store gave a context that had the store o
\* the new store n.
Swapped(ss, n, o) == X509_STORE_free(Append(ss, n), o)

\* The old store is freed and the new one is the last.
LEMMA SwappedFields ==
  ASSUME NEW ss \in Seq(X509_STOREs), NEW o \in 1..Len(ss), ss[o].refs = 1,
         NEW n \in X509_STOREs
  PROVE  /\ Swapped(ss, n, o) \in Seq(X509_STOREs) /\ Len(Swapped(ss, n, o)) = Len(ss) + 1
         /\ \A i \in 1..Len(ss) : i # o => Swapped(ss, n, o)[i] = ss[i]
         /\ Swapped(ss, n, o)[o].refs = 0 /\ Swapped(ss, n, o)[Len(ss) + 1] = n
<1> DEFINE b == Append(ss, n)
<1>1. /\ b \in Seq(X509_STOREs) /\ Len(b) = Len(ss) + 1 /\ b[Len(ss) + 1] = n
      /\ \A i \in 1..Len(ss) : b[i] = ss[i]
      /\ Swapped(ss, n, o) = X509_STORE_free(b, o)
  BY NewFields DEF Swapped
<1> HIDE DEF b
<1>2. o \in 1..Len(b) /\ o # Len(ss) + 1 /\ b[o].refs = 1 /\ Len(ss) + 1 \in 1..Len(b)
  BY <1>1
<1> DEFINE f == X509_STORE_free(b, o)
<1>3. /\ f \in Seq(X509_STOREs) /\ Len(f) = Len(b)
      /\ f[o].refs = b[o].refs - 1
      /\ \A i \in 1..Len(b) : i # o => f[i] = b[i]
  <2>1. b[o].refs \in 0..1
    BY <1>2
  <2> QED BY <1>1, <1>2, <2>1, FreeFields
<1> HIDE DEF f
<1>4. Swapped(ss, n, o) = f
  BY <1>1 DEF f
<1>5. \A i \in 1..Len(ss) : i # o => f[i] = ss[i]
  BY <1>1, <1>3
<1>6. f[o].refs = 0 /\ f[Len(ss) + 1] = n
  BY <1>1, <1>2, <1>3
<1> QED BY <1>1, <1>3, <1>4, <1>5, <1>6

\* The same, after certificates were added to it.
Filled(ss, o, new) == AddTo(X509_STORE_free(Append(ss, NewStore), o), Len(ss) + 1, new)

\* The old store is freed and the last one has the new certificates.
LEMMA FilledFields ==
  ASSUME NEW ss \in Seq(X509_STOREs), NEW o \in 1..Len(ss), ss[o].refs = 1,
         NEW new \in SUBSET Certs
  PROVE  /\ Filled(ss, o, new) \in Seq(X509_STOREs) /\ Len(Filled(ss, o, new)) = Len(ss) + 1
         /\ \A i \in 1..Len(ss) : i # o => Filled(ss, o, new)[i] = ss[i]
         /\ Filled(ss, o, new)[o].refs = 0
         /\ Filled(ss, o, new)[Len(ss) + 1].refs = 1
         /\ Filled(ss, o, new)[Len(ss) + 1].certs = new
<1> DEFINE f == Swapped(ss, NewStore, o)
<1>1. NewStore \in X509_STOREs /\ NewStore.refs = 1 /\ NewStore.certs = {}
  BY NewStoreFields
<1>2. /\ f \in Seq(X509_STOREs) /\ Len(f) = Len(ss) + 1 /\ f[o].refs = 0 /\ f[Len(ss) + 1] = NewStore
      /\ \A i \in 1..Len(ss) : i # o => f[i] = ss[i]
  <2>1. PICK n \in X509_STOREs : n = NewStore
    BY <1>1
  <2>2. /\ Swapped(ss, n, o) \in Seq(X509_STOREs) /\ Len(Swapped(ss, n, o)) = Len(ss) + 1
        /\ \A i \in 1..Len(ss) : i # o => Swapped(ss, n, o)[i] = ss[i]
        /\ Swapped(ss, n, o)[o].refs = 0 /\ Swapped(ss, n, o)[Len(ss) + 1] = n
    BY SwappedFields
  <2> QED BY <2>1, <2>2
<1>3. Filled(ss, o, new) = AddTo(f, Len(ss) + 1, new)
  BY DEF Swapped, Filled
<1> HIDE DEF f
<1> DEFINE k == Len(ss) + 1
           a == AddTo(f, k, new)
<1>4. k \in 1..Len(f) /\ o # k
  BY <1>2
<1>6. Filled(ss, o, new) = a
  BY <1>3
<1> HIDE DEF k
<1>5. /\ a \in Seq(X509_STOREs) /\ Len(a) = Len(f)
      /\ a[k].refs = f[k].refs
      /\ a[k].certs = f[k].certs \cup new
      /\ \A i \in 1..Len(f) : i # k => a[i] = f[i]
  BY <1>2, <1>4, AddFields
<1> HIDE DEF a
<1> USE DEF k
<1>7. \A i \in 1..Len(ss) : i # o => a[i] = ss[i]
  BY <1>2, <1>5
<1>8. a[o].refs = 0
  BY <1>2, <1>4, <1>5
<1>9. a[Len(ss) + 1].refs = 1 /\ a[Len(ss) + 1].certs = new
  <2>1. f[Len(ss) + 1].refs = 1 /\ f[Len(ss) + 1].certs = {}
    BY <1>1, <1>2
  <2> QED BY <1>5, <2>1
<1> QED BY <1>2, <1>5, <1>6, <1>7, <1>8, <1>9

\* The first certificate of a context brings a store that replaces the one it
\* was created with.
LEMMA FirstCertificate ==
  ASSUME ContextInv, NEW c \in Ctxs, NEW new \in SUBSET Certs, NEW x \in tls_sc_ts,
         Usable(c), sc[c].ca = NULL, Len(stores) < MaxStores,
         sc' = [sc EXCEPT ![c] = x], x.ca = Len(stores) + 1, x.store = Len(stores) + 1,
         x.st \in {"open", "dropped"}, x.conns = sc[c].conns, x.peer = sc[c].peer,
         x.chain = sc[c].chain,
         stores' = AddTo(X509_STORE_free(Append(stores, NewStore), sc[c].store),
                         Len(stores) + 1, new),
         given' = [given EXCEPT ![c] = @ \cup new],
         UNCHANGED <<root, stray, tainted, keyLost, mishandled>>
  PROVE  ContextInv'
<1>1. /\ stores \in Seq(X509_STOREs) /\ given \in [Ctxs -> SUBSET Certs]
      /\ ~mishandled /\ sc[c].st = "open" /\ InUse(c)
      /\ sc[c].store \in 1..Len(stores) /\ stores[sc[c].store].refs = 1
      /\ sc[c].store # root /\ root <= Len(stores) /\ given[c] = {}
  <2>1. ~mishandled /\ sc[c].st = "open" /\ InUse(c) /\ root \in Nat /\ sc[c] \in tls_sc_ts
    BY Fields DEF Usable, InUse, ContextInv, ContextTypeOK
  <2>2. OwnsStores(c) /\ RootKept
    BY <2>1 DEF ContextInv, Ownership
  <2> QED BY <2>1, <2>2 DEF OwnsStores, RootKept, ContextInv, ContextTypeOK, NULL, tls_sc_ts
<1> DEFINE r == Len(stores) + 1
<1>2. /\ stores' \in Seq(X509_STOREs) /\ Len(stores') = r
      /\ \A i \in 1..Len(stores) : i # sc[c].store => stores'[i] = stores[i]
      /\ stores'[sc[c].store].refs = 0 /\ stores'[r].refs = 1 /\ stores'[r].certs = new
  <2>1. stores' = Filled(stores, sc[c].store, new)
    BY DEF Filled
  <2> QED BY <1>1, <2>1, FilledFields
<1>3. sc' \in [Ctxs -> tls_sc_ts] /\ CutIsDropped' /\ PeersFreed'
  BY <1>1, Fields, ContextStep
<1>4. given' \in [Ctxs -> SUBSET Certs] /\ given'[c] = new /\ \A d \in Ctxs : d # c => given'[d] = given[d]
  BY <1>1
<1>5. r \in 1..Len(stores') /\ r \notin 1..Len(stores) /\ r # root
  BY <1>1, <1>2
<1>6. Ownership'
  BY <1>1, <1>2, <1>4, <1>5, Replace, ZenonT(60)
<1>7. Len(stores') <= MaxStores
  BY <1>1, <1>2, ContextAssumption
<1> QED BY <1>2, <1>3, <1>4, <1>6, <1>7 DEF ContextInv, ContextTypeOK

\* A later one goes into the store ca_store points to.
LEMMA LaterCertificate ==
  ASSUME ContextInv, NEW c \in Ctxs, NEW new \in SUBSET Certs, NEW x \in tls_sc_ts,
         Usable(c), sc[c].ca # NULL,
         sc' = [sc EXCEPT ![c] = x], x.ca = sc[c].ca, x.store = sc[c].store,
         x.st \in {"open", "dropped"}, x.conns = sc[c].conns, x.peer = sc[c].peer,
         x.chain = sc[c].chain,
         stores' = AddTo(stores, sc[c].ca, new),
         given' = [given EXCEPT ![c] = @ \cup new],
         tainted' = (tainted \/ (sc[c].ca = root /\ new # {})),
         UNCHANGED <<root, stray, keyLost, mishandled>>
  PROVE  ContextInv'
<1>1. /\ stores \in Seq(X509_STOREs) /\ given \in [Ctxs -> SUBSET Certs]
      /\ ~mishandled /\ sc[c].st = "open" /\ sc[c].ca \in 1..Len(stores)
  BY Fields DEF Usable, ContextInv, ContextTypeOK, NULL, tls_sc_ts
<1>2. /\ stores' \in Seq(X509_STOREs) /\ Len(stores') = Len(stores)
      /\ stores'[sc[c].ca].refs = stores[sc[c].ca].refs
      /\ stores'[sc[c].ca].certs = stores[sc[c].ca].certs \cup new
      /\ stores'[sc[c].ca].crl = stores[sc[c].ca].crl
      /\ \A i \in 1..Len(stores) : i # sc[c].ca => stores'[i] = stores[i]
  BY <1>1, AddFields
<1>3. sc' \in [Ctxs -> tls_sc_ts] /\ CutIsDropped' /\ PeersFreed'
  BY <1>1, Fields, ContextStep
<1>4. given' \in [Ctxs -> SUBSET Certs] /\ tainted' \in BOOLEAN
  BY <1>1
<1>5. tainted' \/ (~tainted /\ (sc[c].ca = root => stores'[root] = stores[root]))
  <2>1. CASE new = {}
    <3>1. stores'[sc[c].ca] = stores[sc[c].ca]
      <4>1. stores[sc[c].ca] \in X509_STOREs /\ stores'[sc[c].ca] \in X509_STOREs
        BY <1>1, <1>2
      <4>2. stores'[sc[c].ca].certs = stores[sc[c].ca].certs
        BY <1>2, <2>1
      <4> QED BY <1>2, <4>1, <4>2, SMTT(30) DEF X509_STOREs
    <3>2. tainted' = tainted /\ tainted \in BOOLEAN
      BY <2>1 DEF ContextInv, ContextTypeOK
    <3> QED BY <3>1, <3>2
  <2>2. CASE new # {}
    BY <2>2, Zenon
  <2> QED BY <2>1, <2>2
<1>6. Ownership'
  BY <1>1, <1>2, <1>5, Grow
<1> QED BY <1>2, <1>3, <1>4, <1>6 DEF ContextInv, ContextTypeOK

\* tls_sc_add_trusted_cert, with everything it may have read before an error.
LEMMA AddTrustedInv ==
  ASSUME ContextInv, NEW c \in Ctxs, tls_sc_add_trusted_cert(c)
  PROVE  ContextInv'
<1>0. /\ Usable(c) /\ sc[c] \in tls_sc_ts /\ sc[c].st = "open" /\ root \in 0..Len(stores)
      /\ stores \in Seq(X509_STOREs) /\ tainted \in BOOLEAN
  BY Fields DEF tls_sc_add_trusted_cert, Usable, ContextInv, ContextTypeOK
<1>1. CASE sc[c].ca = NULL
  <2> DEFINE s == Len(stores) + 1
             y == [sc[c] EXCEPT !.ca = s, !.store = s]
  <2>1. PICK r \in X509_STORE_load_bio :
          /\ stores' = AddTo(X509_STORE_free(Append(stores, NewStore), sc[c].store), s, r[1])
          /\ sc' = [sc EXCEPT ![c] = IF r[2] THEN [[sc[c] EXCEPT !.ca = s] EXCEPT !.store = s]
                ELSE [[[sc[c] EXCEPT !.ca = s] EXCEPT !.store = s] EXCEPT !.st = "dropped"]]
          /\ given' = [given EXCEPT ![c] = @ \cup r[1]]
          /\ tainted' = (tainted \/ (s = root /\ r[1] # {}))
          /\ Len(stores) < MaxStores
          /\ UNCHANGED <<root, stray, keyLost, mishandled>>
    BY <1>0, <1>1 DEF tls_sc_add_trusted_cert, SSL_CTX_set_cert_store, tls_sc_ts
  <2> DEFINE x == IF r[2] THEN [[sc[c] EXCEPT !.ca = s] EXCEPT !.store = s]
                  ELSE [[[sc[c] EXCEPT !.ca = s] EXCEPT !.store = s] EXCEPT !.st = "dropped"]
  <2>2. s \in 0..MaxStores /\ s # root
    BY <1>0, <2>1, ContextAssumption
  <2>3. /\ x \in tls_sc_ts /\ x.ca = s /\ x.store = s /\ x.st \in {"open", "dropped"}
        /\ x.conns = sc[c].conns /\ x.peer = sc[c].peer /\ x.chain = sc[c].chain
    BY <1>0, <2>2 DEF tls_sc_ts
  <2>4. r[1] \in SUBSET Certs
    BY <2>1 DEF X509_STORE_load_bio
  <2>5. sc' = [sc EXCEPT ![c] = x] /\ tainted' = tainted
    BY <1>0, <2>1, <2>2
  <2> HIDE DEF x
  <2> QED BY <1>0, <1>1, <2>1, <2>3, <2>4, <2>5, FirstCertificate
<1>2. CASE sc[c].ca # NULL
  <2>1. PICK r \in X509_STORE_load_bio :
          /\ stores' = AddTo(stores, sc[c].ca, r[1])
          /\ sc' = [sc EXCEPT ![c] = IF r[2] THEN sc[c] ELSE [sc[c] EXCEPT !.st = "dropped"]]
          /\ given' = [given EXCEPT ![c] = @ \cup r[1]]
          /\ tainted' = (tainted \/ (sc[c].ca = root /\ r[1] # {}))
          /\ UNCHANGED <<root, stray, keyLost, mishandled>>
    BY <1>2 DEF tls_sc_add_trusted_cert
  <2> DEFINE x == IF r[2] THEN sc[c] ELSE [sc[c] EXCEPT !.st = "dropped"]
  <2>2. /\ x \in tls_sc_ts /\ x.ca = sc[c].ca /\ x.store = sc[c].store /\ x.st \in {"open", "dropped"}
        /\ x.conns = sc[c].conns /\ x.peer = sc[c].peer /\ x.chain = sc[c].chain
    BY <1>0 DEF tls_sc_ts
  <2>3. r[1] \in SUBSET Certs
    BY <2>1 DEF X509_STORE_load_bio
  <2>4. sc' = [sc EXCEPT ![c] = x]
    BY <2>1
  <2> HIDE DEF x
  <2> QED BY <1>0, <1>2, <2>1, <2>2, <2>3, <2>4, LaterCertificate
<1> QED BY <1>1, <1>2

\* tls_sc_add_ca_cert.
LEMMA AddCaInv ==
  ASSUME ContextInv, NEW c \in Ctxs, tls_sc_add_ca_cert(c)
  PROVE  ContextInv'
<1>0. /\ Usable(c) /\ sc[c] \in tls_sc_ts /\ sc[c].st = "open" /\ root \in 0..Len(stores)
      /\ stores \in Seq(X509_STOREs) /\ sc \in [Ctxs -> tls_sc_ts]
      /\ tainted \in BOOLEAN /\ stray \in [Ctxs -> BOOLEAN] /\ given \in [Ctxs -> SUBSET Certs]
  BY Fields DEF tls_sc_add_ca_cert, Usable, ContextInv, ContextTypeOK
<1>1. \A x509 \in _lua_load_x509 : x509 \in SUBSET Certs
  BY DEF _lua_load_x509
<1>2. CASE sc[c].ca = NULL
  <2> DEFINE s == Len(stores) + 1
             y == [sc[c] EXCEPT !.ca = s]
  <2>1. PICK x509 \in _lua_load_x509 :
          /\ given' = [given EXCEPT ![c] = @ \cup x509]
          /\ tainted' = (tainted \/ (x509 # {} /\ s = root))
          /\ stray' = [stray EXCEPT ![c] = @ \/ (x509 = {} /\ TRUE)]
          /\ IF x509 = {} THEN stores' = Append(stores, NewStore) /\ sc' = [sc EXCEPT ![c] = y]
             ELSE /\ stores' = AddTo(X509_STORE_free(Append(stores, NewStore), y.store), s, x509)
                  /\ sc' = [sc EXCEPT ![c] = [y EXCEPT !.store = s]]
          /\ Len(stores) < MaxStores
          /\ UNCHANGED <<root, keyLost, mishandled>>
    BY <1>2 DEF tls_sc_add_ca_cert, SSL_CTX_set_cert_store
  <2>2. s \in 0..MaxStores /\ s # root
    BY <1>0, <2>1, ContextAssumption
  <2>3. /\ y \in tls_sc_ts /\ y.ca = s /\ y.store = sc[c].store /\ y.st = "open"
        /\ y.conns = sc[c].conns /\ y.peer = sc[c].peer /\ y.chain = sc[c].chain
    BY <1>0, <2>2 DEF tls_sc_ts
  <2>4. tainted' = tainted /\ x509 \in SUBSET Certs
    BY <1>0, <1>1, <2>1, <2>2
  <2>5. CASE x509 = {}
    <3>1. given' = given
      BY <1>0, <2>1, <2>5
    <3>2. stray' = [stray EXCEPT ![c] = TRUE]
      BY <1>0, <2>1, <2>5
    <3>3. sc' = [sc EXCEPT ![c] = y] /\ stores' = Append(stores, NewStore)
      BY <2>1, <2>5
    <3>4. Ownership'
      BY <1>0, <1>2, <2>1, <2>3, <2>4, <3>1, <3>2, <3>3, Allocate DEF Usable
    <3>5. sc' \in [Ctxs -> tls_sc_ts] /\ CutIsDropped' /\ PeersFreed'
      BY <1>0, <2>3, <3>3, Fields, ContextStep
    <3>6. stores' \in Seq(X509_STOREs) /\ Len(stores') <= MaxStores
      <4>1. stores' \in Seq(X509_STOREs) /\ Len(stores') = Len(stores) + 1
        BY <1>0, <3>3, NewFields, NewStoreFields
      <4> QED BY <1>0, <2>1, <4>1, ContextAssumption
    <3>7. stray' \in [Ctxs -> BOOLEAN]
      BY <1>0, <3>2
    <3> QED BY <2>1, <2>4, <3>1, <3>4, <3>5, <3>6, <3>7 DEF ContextInv, ContextTypeOK
  <2>6. CASE x509 # {}
    <3> DEFINE x == [y EXCEPT !.store = s]
    <3>1. /\ x \in tls_sc_ts /\ x.ca = s /\ x.store = s /\ x.st = "open"
          /\ x.conns = sc[c].conns /\ x.peer = sc[c].peer /\ x.chain = sc[c].chain
      BY <2>2, <2>3 DEF tls_sc_ts
    <3>2. stray' = stray
      <4>1. stray' = [stray EXCEPT ![c] = @ \/ FALSE]
        BY <2>1, <2>6
      <4>2. stray[c] \/ FALSE = stray[c]
        BY <1>0
      <4> QED BY <1>0, <4>1, <4>2
    <3>3. /\ sc' = [sc EXCEPT ![c] = x]
          /\ stores' = AddTo(X509_STORE_free(Append(stores, NewStore), sc[c].store), s, x509)
      BY <2>1, <2>3, <2>6
    <3> HIDE DEF x
    <3> QED BY <1>0, <1>2, <2>1, <2>4, <3>1, <3>2, <3>3, FirstCertificate
  <2> QED BY <2>5, <2>6
<1>3. CASE sc[c].ca # NULL
  <2> DEFINE x == [sc[c] EXCEPT !.ca = sc[c].ca]
  <2>1. PICK x509 \in _lua_load_x509 :
          /\ given' = [given EXCEPT ![c] = @ \cup x509]
          /\ tainted' = (tainted \/ (x509 # {} /\ sc[c].ca = root))
          /\ stray' = [stray EXCEPT ![c] = @ \/ (x509 = {} /\ FALSE)]
          /\ IF x509 = {} THEN stores' = stores /\ sc' = [sc EXCEPT ![c] = x]
             ELSE stores' = AddTo(stores, sc[c].ca, x509) /\ sc' = [sc EXCEPT ![c] = x]
          /\ UNCHANGED <<root, keyLost, mishandled>>
    BY <1>3 DEF tls_sc_add_ca_cert
  <2>2. x = sc[c]
    BY <1>0 DEF tls_sc_ts
  <2>3. stray' = stray
    BY <1>0, <2>1
  <2>4. x509 \in SUBSET Certs
    BY <1>1
  <2>5. sc' = [sc EXCEPT ![c] = sc[c]] /\ sc' = sc
    BY <1>0, <2>1, <2>2
  <2>6. CASE x509 = {}
    <3>1. stores' = stores /\ given' = given /\ tainted' = tainted
      BY <1>0, <2>1, <2>6
    <3>2. InUse(c)' <=> InUse(c)
      BY <2>5 DEF InUse
    <3>3. Ownership'
      BY <1>0, <2>1, <2>3, <2>5, <3>1, <3>2, Quiet DEF Usable
    <3> QED BY <2>1, <2>3, <2>5, <3>1, <3>3 DEF ContextInv, ContextTypeOK, CutIsDropped, PeersFreed
  <2>7. CASE x509 # {}
    <3>1. stores' = AddTo(stores, sc[c].ca, x509)
      BY <2>1, <2>7
    <3>2. tainted' = (tainted \/ (sc[c].ca = root /\ x509 # {}))
      BY <1>0, <2>1
    <3> QED BY <1>0, <1>3, <2>1, <2>3, <2>4, <2>5, <3>1, <3>2, LaterCertificate
  <2> QED BY <2>6, <2>7
<1> QED BY <1>2, <1>3

\* tls_sc_add_root_certs: the store is made by the first context that asks for
\* it, or fails half way; every other one gets it in place of its own.
LEMMA AddRootInv ==
  ASSUME ContextInv, NEW c \in Ctxs, tls_sc_add_root_certs(c)
  PROVE  ContextInv'
<1> DEFINE r == IF root = NULL THEN Len(stores) + 1 ELSE root
           n == [NewStore EXCEPT !.certs = {RootCert}]
           filled == IF root = NULL THEN Append(stores, n) ELSE stores
           o == sc[c].store
           y == [sc[c] EXCEPT !.ca = r]
           x == [y EXCEPT !.store = r]
<1>0. /\ ~mishandled /\ sc[c] \in tls_sc_ts /\ sc \in [Ctxs -> tls_sc_ts] /\ sc[c].st = "open"
      /\ root \in 0..Len(stores) /\ stores \in Seq(X509_STOREs) /\ Len(stores) <= MaxStores
      /\ root = NULL => Len(stores) < MaxStores
      /\ o \in 1..Len(stores) /\ stores[o].refs = 1
      /\ UNCHANGED <<given, stray, tainted, keyLost>> /\ root' = r
  <2>1. /\ ~mishandled /\ sc[c] \in tls_sc_ts /\ sc[c].st = "open" /\ InUse(c)
        /\ root = NULL => Len(stores) < MaxStores
        /\ UNCHANGED <<given, stray, tainted, keyLost>> /\ root' = r
    BY Fields DEF tls_sc_add_root_certs, Usable, InUse, history
  <2>2. OwnsStores(c)
    BY <2>1 DEF ContextInv, Ownership
  <2> QED BY <2>1, <2>2, Fields DEF OwnsStores, ContextInv, ContextTypeOK, NULL, tls_sc_ts
<1>1. /\ n \in X509_STOREs /\ n.refs = 1 /\ n.certs = {RootCert} /\ ~n.crl
  BY NewStoreFields DEF X509_STOREs
<1>2. r \in 1..MaxStores
  BY <1>0, ContextAssumption DEF NULL
<1>3. CASE root = NULL /\ stores' = Append(stores, NewStore) /\ UNCHANGED <<sc, mishandled>>
  <2>1. sc' = [sc EXCEPT ![c] = sc[c]]
    BY <1>0, <1>3
  <2>2. Ownership'
    BY <1>0, <1>3, <2>1, Allocate
  <2>3. stores' \in Seq(X509_STOREs) /\ Len(stores') = Len(stores) + 1
    BY <1>0, <1>3, NewFields, NewStoreFields
  <2>4. Len(stores') <= MaxStores
    BY <1>0, <1>3, <2>3, ContextAssumption
  <2> HIDE DEF r
  <2> QED BY <1>0, <1>2, <1>3, <2>2, <2>3, <2>4 DEF ContextInv, ContextTypeOK, CutIsDropped, PeersFreed
<1>4. CASE /\ stores' = X509_STORE_free(filled, y.store)
           /\ sc' = [sc EXCEPT ![c] = x]
           /\ mishandled' = (sc[c].store = r)
  <2> HIDE DEF n, r
  <2>1. /\ y.store = o /\ x \in tls_sc_ts /\ x.ca = r /\ x.store = r /\ x.st = "open"
        /\ x.conns = sc[c].conns /\ x.peer = sc[c].peer /\ x.chain = sc[c].chain
    <3>1. r \in 0..MaxStores
      BY <1>2
    <3>2. /\ y \in tls_sc_ts /\ y.store = o /\ y.ca = r /\ y.st = "open"
          /\ y.conns = sc[c].conns /\ y.peer = sc[c].peer /\ y.chain = sc[c].chain
      BY <1>0, <3>1 DEF tls_sc_ts
    <3> HIDE DEF y
    <3> QED BY <3>1, <3>2 DEF tls_sc_ts
  <2> HIDE DEF y, x
  <2>2. sc' \in [Ctxs -> tls_sc_ts] /\ CutIsDropped' /\ PeersFreed'
    BY <1>0, <1>4, <2>1, Fields, ContextStep
  <2>3. CASE root = NULL
    <3>1. stores' = Swapped(stores, n, o) /\ r = Len(stores) + 1
      BY <1>4, <2>1, <2>3 DEF Swapped, r
    <3>2. /\ stores' \in Seq(X509_STOREs) /\ Len(stores') = Len(stores) + 1
          /\ \A i \in 1..Len(stores) : i # o => stores'[i] = stores[i]
          /\ stores'[o].refs = 0 /\ stores'[r] = n
      <4>1. stores \in Seq(X509_STOREs) /\ o \in 1..Len(stores) /\ stores[o].refs = 1 /\ n \in X509_STOREs
        BY <1>0, <1>1
      <4> HIDE DEF o
      <4>2. /\ Swapped(stores, n, o) \in Seq(X509_STOREs) /\ Len(Swapped(stores, n, o)) = Len(stores) + 1
            /\ \A i \in 1..Len(stores) : i # o => Swapped(stores, n, o)[i] = stores[i]
            /\ Swapped(stores, n, o)[o].refs = 0 /\ Swapped(stores, n, o)[Len(stores) + 1] = n
        BY <4>1, SwappedFields
      <4> QED BY <3>1, <4>2, Zenon
    <3>3. r \in 1..Len(stores') /\ r \notin 1..Len(stores) /\ r # root /\ o # root /\ o # r
      BY <1>0, <2>3, <3>1, <3>2 DEF NULL
    <3>a. Len(stores') <= MaxStores
      BY <1>0, <2>3, <3>2, ContextAssumption
    <3>b. root' = r /\ stores'[r].refs = 1 /\ stores'[r].certs = {RootCert} /\ ~stores'[r].crl
      BY <1>0, <1>1, <3>2
    <3>4. Ownership'
      BY <1>0, <1>4, <2>1, <2>3, <3>2, <3>3, <3>b, Replace
    <3>5. mishandled' \in BOOLEAN
      BY <1>4
    <3> QED BY <1>0, <1>2, <2>2, <3>2, <3>a, <3>4, <3>5 DEF ContextInv, ContextTypeOK
  <2>4. CASE root # NULL
    <3>0. r = root /\ stores' = X509_STORE_free(stores, o) /\ root \in 1..Len(stores)
          /\ stores[root].refs = 1
      BY <1>0, <1>4, <2>1, <2>4 DEF r, NULL, ContextInv, Ownership, RootKept
    <3>1. /\ stores' \in Seq(X509_STOREs) /\ Len(stores') = Len(stores)
          /\ \A i \in 1..Len(stores) : i # o => stores'[i] = stores[i]
          /\ stores'[o].refs = 0
      BY <1>0, <3>0, FreeFields
    <3>2. mishandled' \in BOOLEAN
      BY <1>4
    <3>3. CASE o = root
      <4>1. mishandled'
        BY <1>4, <3>0, <3>3, Zenon
      <4> QED BY <1>0, <1>2, <2>2, <3>1, <4>1 DEF ContextInv, ContextTypeOK
    <3>4. CASE o # root
      <4>1. Ownership'
        BY <1>0, <1>4, <2>1, <3>0, <3>1, <3>4, Replace
      <4> QED BY <1>0, <1>2, <2>2, <3>1, <3>2, <4>1 DEF ContextInv, ContextTypeOK
    <3> QED BY <3>3, <3>4
  <2> QED BY <2>3, <2>4
<1> QED BY <1>3, <1>4 DEF tls_sc_add_root_certs, SSL_CTX_set_cert_store

\* tls_sc_add_crl.
LEMMA AddCrlInv ==
  ASSUME ContextInv, NEW c \in Ctxs, tls_sc_add_crl(c)
  PROVE  ContextInv'
<1>0. /\ ~mishandled /\ sc[c] \in tls_sc_ts /\ sc \in [Ctxs -> tls_sc_ts] /\ sc[c].st = "open"
      /\ root \in 0..Len(stores) /\ stores \in Seq(X509_STOREs) /\ Len(stores) <= MaxStores
      /\ sc[c].ca \in 0..Len(stores) /\ given \in [Ctxs -> SUBSET Certs] /\ tainted \in BOOLEAN
      /\ UNCHANGED <<root, sc, given, stray, keyLost>>
  BY Fields DEF tls_sc_add_crl, Usable, ContextInv, ContextTypeOK, tls_sc_ts
<1>1. PICK read \in BOOLEAN :
        /\ mishandled' = (read /\ sc[c].ca = NULL)
        /\ stores' = IF ~read \/ sc[c].ca = NULL THEN stores ELSE [stores EXCEPT ![sc[c].ca].crl = TRUE]
        /\ tainted' = (tainted \/ (read /\ root # NULL /\ sc[c].ca = root))
  BY DEF tls_sc_add_crl, _lua_load_bio
<1>2. CutIsDropped' /\ PeersFreed' /\ mishandled' \in BOOLEAN /\ tainted' \in BOOLEAN
  BY <1>0, <1>1 DEF ContextInv, CutIsDropped, PeersFreed
<1>3. CASE ~read \/ sc[c].ca = NULL
  <2>1. stores' = stores
    BY <1>1, <1>3
  <2>2. CASE ~read
    <3>1. tainted' = tainted /\ sc' = [sc EXCEPT ![c] = sc[c]] /\ (InUse(c)' <=> InUse(c))
      BY <1>0, <1>1, <2>2 DEF InUse
    <3>2. Ownership'
      BY <1>0, <2>1, <3>1, Quiet
    <3> QED BY <1>0, <1>2, <2>1, <3>2 DEF ContextInv, ContextTypeOK
  <2>3. CASE read /\ sc[c].ca = NULL
    <3>1. mishandled'
      BY <1>1, <2>3, Zenon
    <3> QED BY <1>0, <1>2, <2>1, <3>1 DEF ContextInv, ContextTypeOK
  <2> QED BY <1>3, <2>2, <2>3
<1>4. CASE read /\ sc[c].ca # NULL
  <2> DEFINE z == [stores[sc[c].ca] EXCEPT !.crl = TRUE]
  <2>1. sc[c].ca \in 1..Len(stores) /\ stores[sc[c].ca] \in X509_STOREs
    BY <1>0, <1>4 DEF NULL
  <2>2. z \in X509_STOREs /\ z.refs = stores[sc[c].ca].refs /\ z.certs = stores[sc[c].ca].certs
    BY <2>1 DEF X509_STOREs
  <2>3. stores' = [stores EXCEPT ![sc[c].ca] = z]
    BY <1>1, <1>4
  <2> HIDE DEF z
  <2>4. /\ stores' \in Seq(X509_STOREs) /\ Len(stores') = Len(stores)
        /\ \A i \in 1..Len(stores) : i # sc[c].ca => stores'[i] = stores[i]
        /\ stores'[sc[c].ca].refs = stores[sc[c].ca].refs
        /\ stores'[sc[c].ca].certs = stores[sc[c].ca].certs \cup {}
    BY <1>0, <2>1, <2>2, <2>3
  <2>5. sc' = [sc EXCEPT ![c] = sc[c]] /\ given' = [given EXCEPT ![c] = @ \cup {}] /\ {} \in SUBSET Certs
    BY <1>0
  <2>6. tainted' \/ (~tainted /\ (sc[c].ca = root => stores'[root] = stores[root]))
    BY <1>0, <1>1, <1>4, Zenon
  <2>7. Ownership'
    BY <1>0, <1>4, <2>4, <2>5, <2>6, Grow
  <2> QED BY <1>0, <1>2, <2>4, <2>7 DEF ContextInv, ContextTypeOK
<1> QED BY <1>3, <1>4

\* The invariant is inductive, action by action.
LEMMA ContextNextInv == ContextInv /\ [ContextNext]_contextVars => ContextInv'
<1> SUFFICES ASSUME ContextInv, [ContextNext]_contextVars PROVE ContextInv'
  OBVIOUS
<1>1. CASE UNCHANGED contextVars
  BY <1>1 DEF contextVars, history, ContextInv, ContextTypeOK, Ownership, RootKept, OwnsStores, TrustsGiven, Apart, HasOwner,
              InUse, CutIsDropped, PeersFreed
<1>2. ASSUME NEW c \in Ctxs,
             \/ tls_sc_create(c) \/ tls_sc_set_key(c) \/ tls_sc_set_cert(c) \/ tls_sc_set_ciphers(c)
             \/ tls_sc_add_trusted_cert(c) \/ tls_sc_add_ca_cert(c)
             \/ tls_sc_add_root_certs(c) \/ tls_sc_add_crl(c)
             \/ SSL_new(c) \/ SSL_handshake(c) \/ tls_conn_get_peer_certificate(c) \/ SSL_free(c)
             \/ tls_sc_close(c)
      PROVE  ContextInv'
  BY <1>2, CreateInv, SettersInv, AddTrustedInv, AddCaInv, AddRootInv, AddCrlInv,
     ConnectionsInv, FreeInv, CloseInv
<1>3. ASSUME NEW c \in Ctxs, NEW d \in Ctxs, SSL_set_SSL_CTX(c, d)
      PROVE  ContextInv'
  <2>1. SSL_new(d)
    BY <1>3 DEF SSL_set_SSL_CTX, SSL_new
  <2> QED BY <2>1, ConnectionsInv
<1> QED BY <1>1, <1>2, <1>3 DEF ContextNext

-----------------------------------------------------------------------------
\* The invariant holds in every reachable state.
THEOREM ContextInvariance == ContextSpec => []ContextInv
<1> QED BY ContextInitInv, ContextNextInv, PTL DEF ContextSpec

\* No certificate store is used after it was freed and none is freed twice,
\* whatever contexts and connections are made and in whatever order they end.
THEOREM Stores == ContextSpec => [](ContextTypeOK /\ StoresSound)
<1>1. ContextInv => ContextTypeOK /\ StoresSound
  BY DEF ContextInv, ContextTypeOK, Ownership, RootKept, OwnsStores, StoresSound, StoresAlive, FreedOnce
<1> QED BY ContextInvariance, <1>1, PTL

\* When the last context and connection are gone every store is freed, except
\* the root store and those a bad first certificate left; no peer certificate
\* is kept past its connection.
THEOREM Leaks == ContextSpec => []NothingLeaked
<1>1. ContextInv => NothingLeaked
  BY DEF ContextInv, ContextTypeOK, Ownership, HasOwner, NothingLeaked, StoresFreed
<1> QED BY ContextInvariance, <1>1, PTL

\* A context trusts exactly what it was given, and no other context sees it.
THEOREM Trust == ContextSpec => []TrustSound
<1>1. ContextInv => AddedIsTrusted
  BY DEF ContextInv, Ownership, TrustsGiven, AddedIsTrusted
<1>2. ContextInv => ContextsIsolated
  <2> SUFFICES ASSUME ContextInv, ~mishandled, ~tainted, NEW c \in Ctxs, sc[c].st = "open"
               PROVE  /\ stores[sc[c].store].certs \subseteq given[c] \cup {RootCert}
                      /\ \A d \in Ctxs \ {c} :
                           sc[d].st = "open" /\ sc[c].store = sc[d].store =>
                             sc[c].store = root /\ ~stores[root].crl
    BY DEF ContextsIsolated
  <2>1. sc[c].store # NULL /\ TrustsGiven(c) /\ RootKept /\ \A d \in Ctxs \ {c} : Apart(c, d)
    BY DEF ContextInv, Ownership, OwnsStores, InUse
  <2> QED BY <2>1 DEF TrustsGiven, RootKept, Apart
<1>3. ContextInv => NoCutChain
  BY DEF ContextInv, CutIsDropped, NoCutChain
<1> QED BY ContextInvariance, <1>1, <1>2, <1>3, PTL DEF TrustSound

\* The three together: contexts, connections and the shared root store never break
\* the ownership of a store or the trust of a context.
THEOREM ContextsStaySound == ContextSpec => []ContextsSound
<1>1. ContextTypeOK /\ StoresSound /\ NothingLeaked /\ TrustSound => ContextsSound
  BY DEF ContextsSound
<1> QED BY <1>1, Stores, Leaks, Trust, PTL
=============================================================================
