----------------------------- MODULE TimersLinked -----------------------------
(***************************************************************************)
(* src/lib/luvit/timer.lua with its circular, doubly linked lists: the     *)
(* functions init, peek, remove, append and isEmpty on _idleNext and       *)
(* _idlePrev, and the list objects themselves, each of which is a native   *)
(* Timer that is started, stopped and closed.  Time is kept as in Timers,  *)
(* which this module implements.                                           *)
(***************************************************************************)
EXTENDS Integers, Sequences, FiniteSets, Functions, SequencesExt

CONSTANTS
  Timeouts, Idlers, Durations, MaxStep,
  Lists        \* list objects; one that was closed and forgotten may be reused

Items == Timeouts \cup Idlers
Nodes == Items \cup Lists
None  == "none"              \* Lua's nil
Off   == -1
Unset == 0

ASSUME LinkedAssumption ==
  /\ Timeouts \cap Idlers = {} /\ IsFiniteSet(Items)
  /\ Durations \subseteq Nat \ {0}
  /\ MaxStep \in Nat \ {0}
  /\ Lists \cap Items = {} /\ None \notin Nodes

VARIABLES
  lists,       \* lists[msecs]: a list object or nil
  links,       \* links.next and links.prev: _idleNext and _idlePrev
  left,        \* of a list object: time until it is due, Off if not started
  made,        \* of a list object: the msecs its expiration function was made with
  closed,      \* of a list object: self._closed
  age, timeout, onTimeout,    \* of the items, as in Timers
  timer,       \* the list object whose expiration function is running
  running,     \* the item whose _onTimeout is running
  broken       \* a Lua error was raised

itemVars == <<age, timeout, onTimeout>>
vars == <<lists, links, left, made, closed, itemVars, timer, running, broken>>

TypeOK ==
  /\ lists \in [Durations -> Lists \cup {None}]
  /\ links \in [next : [Nodes -> Nodes \cup {None}], prev : [Nodes -> Nodes \cup {None}]]
  /\ left \in [Lists -> Nat \cup {Off}] /\ \A l \in Lists : left[l] <= made[l]
  /\ made \in [Lists -> Durations \cup {Unset}]
  /\ closed \in [Lists -> BOOLEAN]
  /\ age \in [Items -> Nat]
  /\ timeout \in [Items -> Durations \cup {Off, Unset}]
  /\ onTimeout \in [Items -> BOOLEAN]
  /\ timer \in Lists \cup {None}
  /\ running \in Items \cup {None}
  /\ broken \in BOOLEAN

Init ==
  /\ lists = [m \in Durations |-> None]
  /\ links = [next |-> [x \in Nodes |-> None], prev |-> [x \in Nodes |-> None]]
  /\ left = [l \in Lists |-> Off]
  /\ made = [l \in Lists |-> Unset]
  /\ closed = [l \in Lists |-> FALSE]
  /\ age = [i \in Items |-> 0]
  /\ timeout = [i \in Items |-> Unset]
  /\ onTimeout = [i \in Items |-> i \in Idlers]
  /\ timer = None
  /\ running = None
  /\ broken = FALSE

-----------------------------------------------------------------------------
\* The functions on links, each from the links before to the links after.

init(k, x) == [next |-> [k.next EXCEPT ![x] = x], prev |-> [k.prev EXCEPT ![x] = x]]

peek(k, l) == IF k.prev[l] = l THEN None ELSE k.prev[l]

isEmpty(k, l) == k.next[l] = l

remove(k, x) ==
  LET nx == k.next[x]
      p1 == IF nx # None THEN [k.prev EXCEPT ![nx] = k.prev[x]] ELSE k.prev
      pv == p1[x]
      n1 == IF pv # None THEN [k.next EXCEPT ![pv] = k.next[x]] ELSE k.next
  IN  [next |-> [n1 EXCEPT ![x] = None], prev |-> [p1 EXCEPT ![x] = None]]

append(k, l, x) ==
  LET r  == remove(k, x)
      n1 == [r.next EXCEPT ![x] = r.next[l]]
      p1 == [r.prev EXCEPT ![n1[l]] = x]
  IN  [next |-> [n1 EXCEPT ![l] = x], prev |-> [p1 EXCEPT ![x] = l]]

-----------------------------------------------------------------------------
UserCode == ~broken /\ (timer = None \/ running # None)

\* Mutant: the list is closed but not forgotten.
CloseList_kept(m) ==
  LET l == lists[m] IN
  /\ left' = [left EXCEPT ![l] = Off]
  /\ closed' = [closed EXCEPT ![l] = TRUE]
  /\ broken' = closed[l]
  /\ UNCHANGED lists

\* list:stop(), list:close(), lists[msecs] = nil.  Handle:close raises an error
\* on a handle that is closed.
CloseList(m) ==
  LET l == lists[m] IN
  /\ lists' = [lists EXCEPT ![m] = None]
  /\ left' = [left EXCEPT ![l] = Off]
  /\ closed' = [closed EXCEPT ![l] = TRUE]
  /\ broken' = closed[l]

KeepLists == UNCHANGED <<lists, left, closed, broken>>

\* The part of unenroll after remove(item): k are the links by then.
CloseIfEmpty(k, m) ==
  IF m \in Durations /\ lists[m] # None /\ isEmpty(k, lists[m])
  THEN CloseList(m)
  ELSE KeepLists

\* active(item) with _insert(item, msecs): a new list object is linked to
\* itself and started.  The two branches of active do the same where the list
\* exists.
Activate(i, m) ==
  /\ \/ /\ lists[m] # None
        /\ links' = append(links, lists[m], i)
        /\ UNCHANGED <<lists, left, made, closed>>
     \/ /\ lists[m] = None
        /\ \E l \in Lists \ (Range(lists) \cup {timer}) :
             /\ links' = append(init(links, l), l, i)
             /\ lists' = [lists EXCEPT ![m] = l]
             /\ left' = [left EXCEPT ![l] = m]
             /\ made' = [made EXCEPT ![l] = m]
             /\ closed' = [closed EXCEPT ![l] = FALSE]
  /\ age' = [age EXCEPT ![i] = 0]

InList(i) == links.next[i] \notin {None, i}

\* A new table links to itself before active puts it in a list.
setTimeout(i, m) ==
  /\ UserCode /\ i \in Timeouts
  /\ ~InList(i) /\ running # i
  /\ timeout' = [timeout EXCEPT ![i] = m]
  /\ onTimeout' = [onTimeout EXCEPT ![i] = TRUE]
  /\ Activate(i, m)
  /\ UNCHANGED <<timer, running, broken>>

\* unenroll(item): out of the list, and the list closed when that empties it.
Unenroll(i) ==
  /\ links' = remove(links, i)
  /\ CloseIfEmpty(links', timeout[i])
  /\ age' = [age EXCEPT ![i] = 0]
  /\ timeout' = [timeout EXCEPT ![i] = Off]
  /\ UNCHANGED <<made, timer, running>>

clearTimer(i) ==
  /\ UserCode /\ i \in Timeouts
  /\ onTimeout[i]
  /\ onTimeout' = [onTimeout EXCEPT ![i] = FALSE]
  /\ Unenroll(i)

clearTimerAgain(i) ==
  /\ UserCode /\ i \in Timeouts
  /\ timeout[i] # Unset /\ ~onTimeout[i]
  /\ broken' = TRUE
  /\ UNCHANGED <<lists, links, left, made, closed, itemVars, timer, running>>

unenroll(i) ==
  /\ UserCode /\ i \in Idlers
  /\ Unenroll(i)
  /\ UNCHANGED onTimeout

enroll(i, m) ==
  /\ UserCode /\ i \in Idlers
  /\ \/ /\ links.next[i] # None
        /\ links' = init(remove(links, i), i)
        /\ CloseIfEmpty(remove(links, i), timeout[i])
        /\ age' = [age EXCEPT ![i] = 0]
     \/ /\ links.next[i] = None
        /\ links' = init(links, i)
        /\ KeepLists /\ UNCHANGED age
  /\ timeout' = [timeout EXCEPT ![i] = m]
  /\ UNCHANGED <<made, onTimeout, timer, running>>

active(i) ==
  /\ UserCode /\ i \in Idlers
  /\ timeout[i] \notin {Off, Unset}
  /\ Activate(i, timeout[i])
  /\ UNCHANGED <<timeout, onTimeout, timer, running, broken>>

-----------------------------------------------------------------------------
Tick(d) ==
  /\ ~broken /\ timer = None
  /\ \A l \in Lists : left[l] # 0
  /\ left' = [l \in Lists |-> CASE left[l] = Off    -> Off
                                [] left[l] \in 0..d -> 0
                                [] OTHER            -> left[l] - d]
  /\ age' = [i \in Items |-> IF InList(i) THEN age[i] + d ELSE 0]
  /\ UNCHANGED <<lists, links, made, closed, timeout, onTimeout, timer, running, broken>>

\* libuv calls the expiration function of the list object l.
expirationCall(l) ==
  /\ ~broken /\ timer = None
  /\ left[l] = 0
  /\ timer' = l
  /\ left' = [left EXCEPT ![l] = Off]
  /\ UNCHANGED <<lists, links, made, closed, itemVars, running, broken>>

AtLoop == ~broken /\ timer # None /\ running = None

msecs == made[timer]

\* while peek(timer), with (diff + 1) < msecs: timer:start for the rest.  On a
\* closed timer that is an error.
expirationRestart ==
  /\ AtLoop
  /\ LET elem == peek(links, timer) IN
       /\ elem # None
       /\ age[elem] + 1 < msecs
       /\ left' = [left EXCEPT ![timer] = msecs - age[elem]]
  /\ broken' = closed[timer]
  /\ timer' = None
  /\ UNCHANGED <<lists, links, made, closed, itemVars, running>>

\* Otherwise remove(elem) and elem._onTimeout().
expirationFire ==
  /\ AtLoop
  /\ LET elem == peek(links, timer) IN
       /\ elem # None
       /\ ~(age[elem] + 1 < msecs)
       /\ links' = remove(links, elem)
       /\ age' = [age EXCEPT ![elem] = 0]
       /\ running' = IF onTimeout[elem] THEN elem ELSE None
  /\ UNCHANGED <<lists, left, made, closed, timeout, onTimeout, timer, broken>>

expirationReturn ==
  /\ ~broken /\ running # None
  /\ running' = None
  /\ UNCHANGED <<lists, links, left, made, closed, itemVars, timer, broken>>

\* Mutant: the list that was walked is closed, whether or not unenroll has.
expirationEnd_walked ==
  /\ AtLoop
  /\ peek(links, timer) = None
  /\ lists' = [lists EXCEPT ![msecs] = None]
  /\ left' = [left EXCEPT ![timer] = Off]
  /\ closed' = [closed EXCEPT ![timer] = TRUE]
  /\ broken' = closed[timer]
  /\ timer' = None
  /\ UNCHANGED <<links, made, itemVars, running>>

\* The loop is over; the list to close is looked up again.
expirationEnd ==
  /\ AtLoop
  /\ peek(links, timer) = None
  /\ CloseIfEmpty(links, msecs)
  /\ timer' = None
  /\ UNCHANGED <<links, made, itemVars, running>>

-----------------------------------------------------------------------------
User ==
  \E i \in Items :
    \/ \E m \in Durations : setTimeout(i, m) \/ enroll(i, m)
    \/ clearTimer(i) \/ clearTimerAgain(i) \/ active(i) \/ unenroll(i)

Expire ==
  \/ \E l \in Lists : expirationCall(l)
  \/ expirationRestart \/ expirationFire \/ expirationReturn \/ expirationEnd

Next == User \/ Expire \/ \E d \in 1..MaxStep : Tick(d)

Spec == Init /\ [][Next]_vars

-----------------------------------------------------------------------------
\* The ring of a list object l with the items s: the j-th item, and l itself
\* before the first and after the last.
Place(l, s, j) == IF j \in DOMAIN s THEN s[j] ELSE l

\* The items of a list object, oldest first: along _idlePrev from l back to l.
ItemsOf(k, l) ==
  CHOOSE s \in SeqOf(Items, Cardinality(Items)) :
    \A j \in 0..Len(s) : k.prev[Place(l, s, j)] = Place(l, s, j + 1)

SeqsOf(k, ls) == [m \in Durations |-> IF ls[m] = None THEN <<>> ELSE ItemsOf(k, ls[m])]

Used == {l \in Lists : l \in Range(lists) \cup {timer}}

\* _idleNext and _idlePrev are each other's inverse, on the items and on the
\* list objects in use, whatever is removed, appended or closed in the middle
\* of expiration.
WellLinked ==
  \A x \in Items \cup Used :
    /\ links.next[x] = None <=> links.prev[x] = None
    /\ links.next[x] # None => /\ links.prev[links.next[x]] = x
                               /\ links.next[links.prev[x]] = x

\* A list object that was closed holds no items and is not started, so that
\* expiration, which may still be walking it, neither restarts it nor closes it
\* or its successor a second time.
ClosedListIdle ==
  \A l \in Lists : closed[l] =>
    /\ left[l] = Off
    /\ l \notin Range(lists)
    /\ isEmpty(links, l)

\* The links of the lists in use can be walked in both directions, and what was
\* closed stays out of the way.
LinksSound == TypeOK /\ WellLinked /\ ClosedListIdle

-----------------------------------------------------------------------------
\* Timers, with every list as the sequence of its items.
Abstract == INSTANCE Timers WITH
  lists   <- [m \in Durations |-> lists[m] # None],
  seq     <- SeqsOf(links, lists),
  left    <- [m \in Durations |-> IF lists[m] = None THEN Off ELSE left[lists[m]]],
  linked  <- [i \in Items |-> links.next[i] # None],
  exp     <- IF timer = None THEN Off ELSE made[timer],
  own     <- timer # None /\ lists[made[timer]] = timer

\* The links implement the sequences: every step of the code is a step of
\* Timers, so its invariants hold of the lists as they are linked.  No list is
\* stopped, started or closed after it was closed either: Timers knows no error
\* but the program's second clearTimer.
ImplementsTimers == Abstract!Spec
=============================================================================
