------------------------------ MODULE LuvHandle ------------------------------
(***************************************************************************)
(* The lifetime of a luv_handle_t, the userdata that stands between a Lua  *)
(* object and a libuv handle (src/src/utils.c, src/src/luv_handle.c).      *)
(*                                                                         *)
(* The struct is a record of the fields the lifetime depends on:           *)
(*   refCount   the number of luv_handle_ref calls not yet undone;         *)
(*   ref        whether the registry holds the userdata (ref # LUA_NOREF); *)
(*   thread     whether the handle was created inside a coroutine, so that *)
(*              its L is a coroutine and not the main thread;              *)
(*   threadref  whether the registry holds that coroutine;                 *)
(*   handle     whether the uv_handle_t still exists (handle # 0).         *)
(*                                                                         *)
(* The functions below are pure: the modules of the different handle types *)
(* apply them to their own lhandle variable.  An assert() that fails is    *)
(* reported by the predicates ending in _fails.                            *)
(***************************************************************************)
EXTENDS Integers

\* Every value the struct may take.
LHandles ==
  [refCount  : Int,
   ref       : BOOLEAN,
   thread    : BOOLEAN,
   threadref : BOOLEAN,
   handle    : BOOLEAN]

\* luv_handle_create: nothing outstanding, no anchor, and a hold on the
\* coroutine when there is one.
luv_handle_create(inCoroutine) ==
  [refCount  |-> 0,
   ref       |-> FALSE,
   thread    |-> inCoroutine,
   threadref |-> inCoroutine,
   handle    |-> TRUE]

\* luv_handle_ref: the first reference anchors the userdata in the registry.
luv_handle_ref(h) ==
  [refCount  |-> h.refCount + 1,
   ref       |-> h.ref \/ h.refCount = 0,
   thread    |-> h.thread,
   threadref |-> h.threadref,
   handle    |-> h.handle]

\* luv_handle_unref: the last reference drops the anchor, and with it the hold
\* on the coroutine.
luv_handle_unref(h) ==
  [refCount  |-> h.refCount - 1,
   ref       |-> h.ref /\ h.refCount # 1,
   thread    |-> h.thread,
   threadref |-> h.threadref /\ h.refCount # 1,
   handle    |-> h.handle]

\* assert(lhandle->refCount >= 0), after the decrement.
luv_handle_unref_fails(h) == h.refCount - 1 < 0

\* assert(lhandle->refCount) and assert(lhandle->ref != LUA_NOREF): what every
\* callback that libuv makes begins with.
luv_handle_get_lua_fails(h) == h.refCount = 0 \/ ~h.ref

\* Mutant: the references nobody gave up are left in place.
luv_on_close_release_once(h) == [luv_handle_unref(h) EXCEPT !.handle = FALSE]

\* What luv_on_close does to the struct once the "close" event was emitted: it
\* gives up its own reference, then all the ones nobody gave up, and forgets
\* the native handle.
luv_on_close_release(h) ==
  LET once == luv_handle_unref(h)
      all  == IF once.ref THEN luv_handle_unref([once EXCEPT !.refCount = 1])
                          ELSE once
  IN  [all EXCEPT !.handle = FALSE]

\* The asserts luv_on_close meets on the way.
luv_on_close_fails(h) ==
  LET once == luv_handle_unref(h)
  IN  \/ luv_handle_unref_fails(h)
      \/ once.ref /\ once.refCount = 0
      \/ luv_on_close_release(h).ref
=============================================================================
