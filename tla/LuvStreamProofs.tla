--------------------------- MODULE LuvStreamProofs ---------------------------
(***************************************************************************)
(* The lifetime properties of LuvStream, for every bound.  What the        *)
(* functions of LuvHandle do to the struct comes first, so that the        *)
(* actions cite it instead of expanding the records.                       *)
(***************************************************************************)
EXTENDS LuvStream, TLAPS

\* luv_handle_ref adds one reference and anchors the userdata.
LEMMA RefFields ==
  ASSUME NEW h \in LHandles
  PROVE  /\ luv_handle_ref(h) \in LHandles
         /\ luv_handle_ref(h).refCount = h.refCount + 1
         /\ luv_handle_ref(h).ref <=> h.ref \/ h.refCount = 0
         /\ luv_handle_ref(h).handle = h.handle
<1>1. luv_handle_ref(h) \in LHandles
  BY DEF LHandles, luv_handle_ref
<1>2. luv_handle_ref(h).refCount = h.refCount + 1
  BY DEF LHandles, luv_handle_ref
<1>3. luv_handle_ref(h).ref <=> h.ref \/ h.refCount = 0
  BY DEF LHandles, luv_handle_ref
<1>4. luv_handle_ref(h).handle = h.handle
  BY DEF LHandles, luv_handle_ref
<1> QED BY <1>1, <1>2, <1>3, <1>4

\* luv_handle_unref removes one and lets go of the anchor with the last.
LEMMA UnrefFields ==
  ASSUME NEW h \in LHandles
  PROVE  /\ luv_handle_unref(h) \in LHandles
         /\ luv_handle_unref(h).refCount = h.refCount - 1
         /\ luv_handle_unref(h).ref <=> h.ref /\ h.refCount # 1
         /\ luv_handle_unref(h).handle = h.handle
<1>1. luv_handle_unref(h) \in LHandles
  BY DEF LHandles, luv_handle_unref
<1>2. luv_handle_unref(h).refCount = h.refCount - 1
  BY DEF LHandles, luv_handle_unref
<1>3. luv_handle_unref(h).ref <=> h.ref /\ h.refCount # 1
  BY DEF LHandles, luv_handle_unref
<1>4. luv_handle_unref(h).handle = h.handle
  BY DEF LHandles, luv_handle_unref
<1> QED BY <1>1, <1>2, <1>3, <1>4

\* Whatever references are left, luv_on_close ends with none and without the
\* native handle, and none of its asserts fails, if there was one to give up.
LEMMA OnCloseFields ==
  ASSUME NEW h \in LHandles, h.refCount >= 0, h.ref <=> h.refCount > 0
  PROVE  /\ luv_on_close_release(h) \in LHandles
         /\ ~luv_on_close_release(h).handle
         /\ h.refCount > 0 => /\ luv_on_close_release(h).refCount = 0
                              /\ ~luv_on_close_release(h).ref
                              /\ ~luv_on_close_fails(h)
         /\ h.refCount = 0 => luv_on_close_fails(h)
<1> DEFINE once == luv_handle_unref(h)
           rest == luv_handle_unref([once EXCEPT !.refCount = 1])
<1>1. /\ once \in LHandles
      /\ once.refCount = h.refCount - 1
      /\ once.ref <=> h.ref /\ h.refCount # 1
  BY UnrefFields
<1>2. rest \in LHandles /\ rest.refCount = 0 /\ ~rest.ref
  <2> DEFINE left == [once EXCEPT !.refCount = 1]
  <2>1. left \in LHandles /\ left.refCount = 1
    BY <1>1 DEF LHandles
  <2>2. rest = luv_handle_unref(left)
    OBVIOUS
  <2> HIDE DEF left, rest
  <2> QED BY <2>1, <2>2, UnrefFields
<1> HIDE DEF once, rest
<1>3. luv_on_close_release(h) = [(IF once.ref THEN rest ELSE once) EXCEPT !.handle = FALSE]
  BY DEF luv_on_close_release, once, rest
<1>5. CASE once.ref
  <2>1. /\ luv_on_close_release(h) \in LHandles
        /\ ~luv_on_close_release(h).handle
        /\ luv_on_close_release(h).refCount = 0
        /\ ~luv_on_close_release(h).ref
    BY <1>2, <1>3, <1>5 DEF LHandles
  <2>2. h.refCount > 1
    BY <1>1, <1>5 DEF LHandles
  <2>3. luv_on_close_fails(h) <=> once.refCount = 0
    BY <1>1, <1>5, <2>1, <2>2 DEF luv_on_close_fails, luv_handle_unref_fails, once, LHandles
  <2> QED BY <1>1, <2>1, <2>2, <2>3 DEF LHandles
<1>6. CASE ~once.ref
  <2>1. /\ luv_on_close_release(h) \in LHandles
        /\ ~luv_on_close_release(h).handle
        /\ luv_on_close_release(h).refCount = once.refCount
        /\ ~luv_on_close_release(h).ref
    BY <1>1, <1>3, <1>6 DEF LHandles
  <2>2. luv_on_close_fails(h) <=> h.refCount - 1 < 0
    BY <1>1, <1>6, <2>1 DEF luv_on_close_fails, luv_handle_unref_fails, once
  <2>3. h.refCount \in Int /\ h.refCount <= 1
    BY <1>1, <1>6 DEF LHandles
  <2> QED BY <1>1, <2>1, <2>2, <2>3
<1> QED BY <1>5, <1>6

-----------------------------------------------------------------------------
\* The registry holds the userdata exactly while there are references.
AnchorMatches ==
  fault = "none" => /\ lhandle.refCount >= 0
                    /\ lhandle.ref <=> lhandle.refCount > 0

\* How the native state, the Lua flags and the frames hang together.
Coherent ==
  /\ reading => readRefs > 0
  /\ ~misused /\ ~held => closed
  /\ closed => closing
  /\ frame = "close" => closing
  /\ frame # "none" => lhandle.handle

\* The inductive invariant.
Inv ==
  /\ TypeOK
  /\ AnchorMatches
  /\ Coherent
  /\ NoFaultUnlessMisused
  /\ RefsCoverOutstanding
  /\ CollectedOnlyAfterClose

-----------------------------------------------------------------------------
\* A new handle, on the main thread or in a coroutine, satisfies the invariant.
LEMMA InitInv == Init => Inv
<1> SUFFICES ASSUME Init PROVE Inv
  OBVIOUS
<1>1. PICK c \in BOOLEAN : lhandle = luv_handle_create(c)
  BY DEF Init
<1>2. /\ lhandle \in LHandles
      /\ lhandle.refCount = 0
      /\ ~lhandle.ref
      /\ lhandle.handle
  BY <1>1 DEF luv_handle_create, LHandles
<1>3. TypeOK
  <2>1. writes \in 0..MaxWrites /\ readRefs \in 0..MaxReads
    BY BoundsAssumption DEF Init
  <2>2. conn \in {"none", "pending", "up", "bad"}
    BY DEF Init, luv_new_tcp, luv_new_pipe, luv_new_tty
  <2> QED BY <1>2, <2>1, <2>2, Zenon DEF Init, TypeOK, Frames
<1>4. AnchorMatches
  BY <1>2, BoundsAssumption DEF Init, AnchorMatches
<1>5. Coherent
  BY <1>2, BoundsAssumption DEF Init, Coherent
<1>6. NoFaultUnlessMisused
  BY <1>2, BoundsAssumption DEF Init, NoFaultUnlessMisused
<1>7. RefsCoverOutstanding
  BY <1>2, BoundsAssumption
  DEF Init, luv_new_tcp, luv_new_pipe, luv_new_tty, RefsCoverOutstanding, Outstanding, One
<1>8. CollectedOnlyAfterClose
  BY <1>2, BoundsAssumption DEF Init, CollectedOnlyAfterClose
<1> QED BY <1>3, <1>4, <1>5, <1>6, <1>7, <1>8 DEF Inv

\* Every action preserves the invariant.
LEMMA NextInv == Inv /\ [Next]_vars => Inv'
<1> SUFFICES ASSUME Inv, [Next]_vars PROVE Inv'
  OBVIOUS
<1> USE BoundsAssumption
<1> USE DEF Inv, TypeOK, Frames, AnchorMatches, Coherent, NoFaultUnlessMisused,
            RefsCoverOutstanding, CollectedOnlyAfterClose, Outstanding, One,
            CanCall, Live, LoopIdle, uv, lua, calls, hist
<1>0. lhandle \in LHandles /\ lhandle.refCount \in Int
  BY DEF LHandles
<1>1. CASE luv_tcp_connect
  BY <1>0, <1>1, RefFields DEF luv_tcp_connect
<1>2. CASE luv_pipe_connect
  BY <1>0, <1>2 DEF luv_pipe_connect
<1>3. CASE luv_read_start
  BY <1>0, <1>3, RefFields DEF luv_read_start
<1>4. CASE luv_read_stop
  <2>1. TypeOK'
    <3>1. lhandle' \in LHandles /\ readRefs' \in 0..MaxReads
      BY <1>0, <1>4, UnrefFields DEF luv_read_stop
    <3>2. reading' \in BOOLEAN /\ misused' \in BOOLEAN
      BY <1>4, Zenon DEF luv_read_stop
    <3>3. fault' \in {"none", "unref"}
      BY <1>4, Zenon DEF luv_read_stop
    <3> QED BY <1>4, <3>1, <3>2, <3>3, ZenonT(60) DEF luv_read_stop
  <2>2. AnchorMatches'
    BY <1>0, <1>4, UnrefFields DEF luv_read_stop, luv_handle_unref_fails
  <2>3. Coherent'
    BY <1>0, <1>4, UnrefFields DEF luv_read_stop, luv_handle_unref_fails
  <2>4. NoFaultUnlessMisused'
    BY <1>0, <1>4, UnrefFields DEF luv_read_stop, luv_handle_unref_fails
  <2>5. RefsCoverOutstanding'
    BY <1>0, <1>4, UnrefFields DEF luv_read_stop, luv_handle_unref_fails
  <2>6. CollectedOnlyAfterClose'
    BY <1>0, <1>4, UnrefFields DEF luv_read_stop, luv_handle_unref_fails
  <2> QED BY <2>1, <2>2, <2>3, <2>4, <2>5, <2>6
<1>5. CASE luv_read_stop_noref
  <2>1. TypeOK'
    BY <1>0, <1>5, ZenonT(60) DEF luv_read_stop_noref
  <2>2. AnchorMatches'
    BY <1>0, <1>5 DEF luv_read_stop_noref
  <2>3. Coherent'
    BY <1>0, <1>5 DEF luv_read_stop_noref
  <2>4. NoFaultUnlessMisused'
    BY <1>0, <1>5 DEF luv_read_stop_noref
  <2>5. RefsCoverOutstanding'
    BY <1>0, <1>5 DEF luv_read_stop_noref
  <2>6. CollectedOnlyAfterClose'
    BY <1>0, <1>5 DEF luv_read_stop_noref
  <2> QED BY <2>1, <2>2, <2>3, <2>4, <2>5, <2>6
<1>6. CASE luv_write
  BY <1>0, <1>6, RefFields DEF luv_write, uv_write_accepts
<1>7. CASE luv_shutdown
  BY <1>0, <1>7, RefFields DEF luv_shutdown, uv_shutdown_results
<1>8. CASE luv_listen
  BY <1>0, <1>8 DEF luv_listen
<1>9. CASE luv_close
  <2>1. TypeOK'
    BY <1>0, <1>9, RefFields DEF luv_close
  <2>2. AnchorMatches'
    BY <1>0, <1>9, RefFields DEF luv_close
  <2>3. Coherent'
    BY <1>0, <1>9, RefFields DEF luv_close
  <2>4. NoFaultUnlessMisused'
    BY <1>0, <1>9, RefFields DEF luv_close
  <2>5. RefsCoverOutstanding'
    BY <1>0, <1>9, RefFields DEF luv_close
  <2>6. CollectedOnlyAfterClose'
    BY <1>0, <1>9, RefFields DEF luv_close
  <2> QED BY <2>1, <2>2, <2>3, <2>4, <2>5, <2>6
<1>10. CASE CallAfterClose
  BY <1>0, <1>10 DEF CallAfterClose
<1>11. CASE Drop
  <2>1. TypeOK'
    BY <1>0, <1>11, ZenonT(60) DEF Drop
  <2>2. AnchorMatches'
    BY <1>0, <1>11 DEF Drop
  <2>3. Coherent'
    BY <1>0, <1>11 DEF Drop
  <2>4. NoFaultUnlessMisused'
    BY <1>0, <1>11 DEF Drop
  <2>5. RefsCoverOutstanding'
    BY <1>0, <1>11 DEF Drop
  <2>6. CollectedOnlyAfterClose'
    BY <1>0, <1>11 DEF Drop
  <2> QED BY <2>1, <2>2, <2>3, <2>4, <2>5, <2>6
<1>12. CASE luv_handle_gc
  BY <1>0, <1>12 DEF luv_handle_gc
<1>13. CASE luv_on_connection
  BY <1>0, <1>13 DEF luv_on_connection, Enter, luv_handle_get_lua_fails
<1>14. CASE luv_on_read
  BY <1>0, <1>14 DEF luv_on_read, Enter, luv_handle_get_lua_fails
<1>15. CASE luv_after_connect
  BY <1>0, <1>15 DEF luv_after_connect, Enter, luv_handle_get_lua_fails
<1>16. CASE luv_after_shutdown
  BY <1>0, <1>16 DEF luv_after_shutdown, Enter, luv_handle_get_lua_fails
<1>17. CASE luv_after_write
  BY <1>0, <1>17 DEF luv_after_write, Enter, luv_handle_get_lua_fails
<1>18. CASE luv_on_close
  BY <1>0, <1>18 DEF luv_on_close
<1>19. CASE luv_listen_return
  <2>1. TypeOK'
    <3>1. lhandle' \in LHandles
      BY <1>0, <1>19, RefFields DEF luv_listen_return
    <3>2. inListen' \in BOOLEAN
      BY <1>19, Zenon DEF luv_listen_return
    <3>3. UNCHANGED <<conn, reading, listening, writes, shut, closing, closed, held,
                      collected, frame, readRefs, misused, fault>>
      BY <1>19, Zenon DEF luv_listen_return
    <3> QED BY <3>1, <3>2, <3>3
  <2>2. AnchorMatches'
    BY <1>0, <1>19, RefFields DEF luv_listen_return
  <2>3. Coherent'
    BY <1>0, <1>19, RefFields DEF luv_listen_return
  <2>4. NoFaultUnlessMisused'
    BY <1>0, <1>19, RefFields DEF luv_listen_return
  <2>5. RefsCoverOutstanding'
    BY <1>0, <1>19, RefFields DEF luv_listen_return
  <2>6. CollectedOnlyAfterClose'
    BY <1>0, <1>19, RefFields DEF luv_listen_return
  <2> QED BY <2>1, <2>2, <2>3, <2>4, <2>5, <2>6
<1>20. CASE ReturnPlain
  BY <1>0, <1>20 DEF ReturnPlain
<1>21. CASE ReturnRequest
  BY <1>0, <1>21, UnrefFields DEF ReturnRequest, luv_handle_unref_fails
<1>22. CASE ReturnClose
  BY <1>0, <1>22, OnCloseFields DEF ReturnClose
<1>23. CASE Given
  BY <1>0, <1>23 DEF Given
<1>24. CASE UNCHANGED vars
  BY <1>0, <1>24 DEF vars
<1>25. CASE UseUninitialised
  BY <1>0, <1>25 DEF UseUninitialised
<1> QED
  BY <1>1, <1>2, <1>3, <1>4, <1>5, <1>6, <1>7, <1>8, <1>9, <1>10, <1>11, <1>12, <1>13, <1>14, <1>15, <1>16, <1>17, <1>18, <1>19, <1>20, <1>21, <1>22, <1>23, <1>24, <1>25
  DEF Next, FromLua, FromLoop, Return, luv_accept, luv_pipe_open

-----------------------------------------------------------------------------
\* The invariant holds in every reachable state.
THEOREM Invariance == Spec => []Inv
<1> QED BY InitInv, NextInv, PTL DEF Spec

\* The types of LuvStream, for every bound.
THEOREM TypeCorrect == Spec => []TypeOK
<1>1. Inv => TypeOK
  BY DEF Inv
<1> QED BY Invariance, <1>1, PTL

\* No assert of the C code fails, no null handle and no freed userdata is
\* touched, as long as the program keeps the contract: any number of reads and
\* writes, any calls from inside any callback.
THEOREM NoFault == Spec => []NoFaultUnlessMisused
<1>1. Inv => NoFaultUnlessMisused
  BY DEF Inv
<1> QED BY Invariance, <1>1, PTL

\* There is a reference for everything in progress.
THEOREM RefsCover == Spec => []RefsCoverOutstanding
<1>1. Inv => RefsCoverOutstanding
  BY DEF Inv
<1> QED BY Invariance, <1>1, PTL

\* A handle libuv may call back is anchored: by RefsCoverOutstanding there is a
\* reference, by AnchorMatches the registry then holds the userdata.
THEOREM Anchored == Spec => []AnchoredWhileActive
<1>1. Inv => AnchoredWhileActive
  <2> SUFFICES ASSUME Inv, ~misused, MayCallBack
               PROVE  lhandle.ref /\ ~collected
    BY DEF AnchoredWhileActive
  <2>1. lhandle.handle /\ fault = "none"
    BY DEF Inv, MayCallBack, NoFaultUnlessMisused
  <2>2. Outstanding > 0
    BY DEF Inv, TypeOK, Coherent, MayCallBack, Outstanding, One
  <2>3. lhandle.refCount > 0
    BY <2>1, <2>2 DEF Inv, TypeOK, LHandles, RefsCoverOutstanding, Outstanding, One
  <2> QED BY <2>1, <2>3 DEF Inv, AnchorMatches, CollectedOnlyAfterClose
<1> QED BY Invariance, <1>1, PTL

\* The collector never finds a native handle left to close.
THEOREM CollectedLate == Spec => []CollectedOnlyAfterClose
<1>1. Inv => CollectedOnlyAfterClose
  BY DEF Inv
<1> QED BY Invariance, <1>1, PTL
=============================================================================
