-------------------------------- MODULE Timers --------------------------------
(***************************************************************************)
(* The idle lists of src/lib/luvit/timer.lua, with each circular list of   *)
(* items written as the sequence from its oldest item (list._idlePrev) to  *)
(* its youngest.  TimersLinked has the links.                              *)
(*                                                                         *)
(* There is one list, with one native timer, for each duration in use.     *)
(* Two kinds of items are in them: the tables setTimeout makes, which      *)
(* clearTimer takes out, and objects such as net.Socket that are enrolled  *)
(* once and call active whenever something happens on them.                *)
(*                                                                         *)
(* Time is the loop's cached time, which libuv moves on only between two   *)
(* rounds of callbacks and only after it has run every timer that was due. *)
(* It is kept relative: the age of an item is now - item._idleStart, and   *)
(* `left' is the time until a native timer is due.                         *)
(***************************************************************************)
EXTENDS Integers, Sequences, FiniteSets, SequencesExt

CONSTANTS
  Timeouts,    \* tables made by setTimeout
  Idlers,      \* objects with an idle timeout of their own
  Durations,   \* the values of msecs in use
  MaxStep      \* bound: how far the loop's time moves at once

ASSUME TimersAssumption ==
  /\ Timeouts \cap Idlers = {}
  /\ Durations \subseteq Nat \ {0}
  /\ MaxStep \in Nat \ {0}

Items == Timeouts \cup Idlers
None  == "none"
Off   == -1                  \* unenrolled; for `left', not started
Unset == 0                   \* _idleTimeout is nil

VARIABLES
  lists,       \* lists[msecs] is not nil
  seq,         \* the items of lists[msecs], oldest first
  left,        \* time until the native timer of lists[msecs] is due
  age,         \* of the items in a list; 0 elsewhere
  timeout,     \* item._idleTimeout
  linked,      \* item._idleNext is not nil
  onTimeout,   \* item._onTimeout is not nil
  exp,         \* the duration whose expiration function is running
  own,         \* the list it was made for is still lists[exp]
  running,     \* the item whose _onTimeout is running
  broken       \* a Lua error: clearTimer called a method that is not there

vars == <<lists, seq, left, age, timeout, linked, onTimeout, exp, own, running, broken>>

TypeOK ==
  /\ lists \in [Durations -> BOOLEAN]
  /\ seq \in [Durations -> Seq(Items)]
  /\ left \in [Durations -> Nat \cup {Off}] /\ \A m \in Durations : left[m] <= m
  /\ age \in [Items -> Nat]
  /\ timeout \in [Items -> Durations \cup {Off, Unset}]
  /\ linked \in [Items -> BOOLEAN]
  /\ onTimeout \in [Items -> BOOLEAN]
  /\ exp \in Durations \cup {Off}
  /\ own \in BOOLEAN
  /\ running \in Items \cup {None}
  /\ broken \in BOOLEAN

Init ==
  /\ lists = [m \in Durations |-> FALSE]
  /\ seq = [m \in Durations |-> <<>>]
  /\ left = [m \in Durations |-> Off]
  /\ age = [i \in Items |-> 0]
  /\ timeout = [i \in Items |-> Unset]
  /\ linked = [i \in Items |-> FALSE]
  /\ onTimeout = [i \in Items |-> i \in Idlers]
  /\ exp = Off
  /\ own = FALSE
  /\ running = None
  /\ broken = FALSE

-----------------------------------------------------------------------------
InList(i) == \E m \in Durations : Contains(seq[m], i)

\* remove(item): out of whatever list it is in, where it has one place.
Unlink(s, i) ==
  IF Contains(s, i) THEN RemoveAt(s, CHOOSE k \in 1..Len(s) : s[k] = i) ELSE s

Removed(i) == [m \in Durations |-> Unlink(seq[m], i)]

\* A piece of Lua of the program runs: not inside the loop of expiration.
UserCode == ~broken /\ (exp = Off \/ running # None)

\* What active(item) does for the duration m: a list that is not there is made
\* and its timer started, and the item goes to the end.
Activate(i, m) ==
  /\ lists' = [lists EXCEPT ![m] = TRUE]
  /\ left' = IF lists[m] THEN left ELSE [left EXCEPT ![m] = m]
  /\ seq' = [Removed(i) EXCEPT ![m] = Append(@, i)]
  /\ age' = [age EXCEPT ![i] = 0]
  /\ linked' = [linked EXCEPT ![i] = TRUE]

\* unenroll(item), except for the fields of the item: it leaves its list, and
\* a list it leaves empty is stopped, closed and forgotten.
LeaveList(i) ==
  LET rest == Removed(i)
      gone == {m \in Durations : m = timeout[i] /\ lists[m] /\ rest[m] = <<>>}
  IN  /\ seq' = rest
      /\ age' = [age EXCEPT ![i] = 0]
      /\ lists' = [m \in Durations |-> lists[m] /\ m \notin gone]
      /\ left' = [m \in Durations |-> IF m \in gone THEN Off ELSE left[m]]
      /\ own' = (own /\ exp \notin gone)

setTimeout(i, m) ==
  /\ UserCode /\ i \in Timeouts
  /\ ~InList(i) /\ running # i          \* a new table
  /\ timeout' = [timeout EXCEPT ![i] = m]
  /\ onTimeout' = [onTimeout EXCEPT ![i] = TRUE]
  /\ Activate(i, m)
  /\ UNCHANGED <<exp, own, running, broken>>

\* clearTimer on such a table; the second time _onTimeout is nil already and
\* the table has no method close.
clearTimer(i) ==
  /\ UserCode /\ i \in Timeouts
  /\ onTimeout[i]
  /\ onTimeout' = [onTimeout EXCEPT ![i] = FALSE]
  /\ LeaveList(i)
  /\ timeout' = [timeout EXCEPT ![i] = Off]
  /\ linked' = [linked EXCEPT ![i] = FALSE]
  /\ UNCHANGED <<exp, running, broken>>

clearTimerAgain(i) ==
  /\ UserCode /\ i \in Timeouts
  /\ timeout[i] # Unset /\ ~onTimeout[i]
  /\ broken' = TRUE
  /\ UNCHANGED <<lists, seq, left, age, timeout, linked, onTimeout, exp, own, running>>

\* Mutant: an item that is in a list is not unenrolled.
enroll_inPlace(i, m) ==
  /\ UserCode /\ i \in Idlers
  /\ timeout' = [timeout EXCEPT ![i] = m]
  /\ linked' = [linked EXCEPT ![i] = TRUE]
  /\ UNCHANGED <<lists, seq, left, age, own, onTimeout, exp, running, broken>>

\* enroll(item, msecs): an item that is linked is unenrolled first.
enroll(i, m) ==
  /\ UserCode /\ i \in Idlers
  /\ IF linked[i] THEN LeaveList(i)
                  ELSE UNCHANGED <<lists, seq, left, age, own>>
  /\ timeout' = [timeout EXCEPT ![i] = m]
  /\ linked' = [linked EXCEPT ![i] = TRUE]
  /\ UNCHANGED <<onTimeout, exp, running, broken>>

\* active(item): nothing for an item that is not enrolled.
active(i) ==
  /\ UserCode /\ i \in Idlers
  /\ timeout[i] \notin {Off, Unset}
  /\ Activate(i, timeout[i])
  /\ UNCHANGED <<timeout, onTimeout, exp, own, running, broken>>

unenroll(i) ==
  /\ UserCode /\ i \in Idlers
  /\ LeaveList(i)
  /\ timeout' = [timeout EXCEPT ![i] = Off]
  /\ linked' = [linked EXCEPT ![i] = FALSE]
  /\ UNCHANGED <<onTimeout, exp, running, broken>>

-----------------------------------------------------------------------------
\* The loop's time moves by d.  No timer is due, or it would have run.
Tick(d) ==
  /\ ~broken /\ exp = Off
  /\ \A m \in Durations : left[m] # 0
  /\ left' = [m \in Durations |-> CASE left[m] = Off    -> Off
                                    [] left[m] \in 0..d -> 0
                                    [] OTHER            -> left[m] - d]
  /\ age' = [i \in Items |-> IF InList(i) THEN age[i] + d ELSE 0]
  /\ UNCHANGED <<lists, seq, timeout, linked, onTimeout, exp, own, running, broken>>

\* libuv calls the function that expiration(timer, msecs) made; a timer
\* without repeat is stopped before its callback.
expirationCall(m) ==
  /\ ~broken /\ exp = Off
  /\ left[m] = 0
  /\ exp' = m
  /\ own' = TRUE
  /\ left' = [left EXCEPT ![m] = Off]
  /\ UNCHANGED <<lists, seq, age, timeout, linked, onTimeout, running, broken>>

\* The loop of expiration is at its head.
AtLoop == ~broken /\ exp # Off /\ running = None

\* peek(timer): the oldest item of the list the function was made for.
More == own /\ seq[exp] # <<>>

\* Mutant: the allowance is two instead of one.
TooYoung_two(i) == age[i] + 2 < exp

\* (diff + 1) < msecs: the item is too young.
TooYoung(i) == age[i] + 1 < exp

\* Mutant: the arguments of timer:start are swapped, the timer is due at once.
expirationRestart_swapped ==
  /\ AtLoop /\ More
  /\ TooYoung(Head(seq[exp]))
  /\ left' = [left EXCEPT ![exp] = 0]
  /\ exp' = Off
  /\ own' = FALSE
  /\ UNCHANGED <<lists, seq, age, timeout, linked, onTimeout, running, broken>>

\* Mutant: the timer is started for the whole duration again.
expirationRestart_whole ==
  /\ AtLoop /\ More
  /\ TooYoung(Head(seq[exp]))
  /\ left' = [left EXCEPT ![exp] = exp]
  /\ exp' = Off
  /\ own' = FALSE
  /\ UNCHANGED <<lists, seq, age, timeout, linked, onTimeout, running, broken>>

\* The oldest item is too young: start the timer for the rest and return.
expirationRestart ==
  /\ AtLoop /\ More
  /\ TooYoung(Head(seq[exp]))
  /\ left' = [left EXCEPT ![exp] = exp - age[Head(seq[exp])]]
  /\ exp' = Off
  /\ own' = FALSE
  /\ UNCHANGED <<lists, seq, age, timeout, linked, onTimeout, running, broken>>

\* The oldest item is taken out and its _onTimeout called, if it has one.
expirationFire ==
  /\ AtLoop /\ More
  /\ LET i == Head(seq[exp]) IN
       /\ ~TooYoung(i)
       /\ seq' = [seq EXCEPT ![exp] = Tail(@)]
       /\ age' = [age EXCEPT ![i] = 0]
       /\ linked' = [linked EXCEPT ![i] = FALSE]
       /\ running' = IF onTimeout[i] THEN i ELSE None
  /\ UNCHANGED <<lists, left, timeout, onTimeout, exp, own, broken>>

\* _onTimeout returns to the loop.
expirationReturn ==
  /\ ~broken /\ running # None
  /\ running' = None
  /\ UNCHANGED <<lists, seq, left, age, timeout, linked, onTimeout, exp, own, broken>>

\* The list is empty: "Remove the timer if it wasn't already removed by
\* unenroll".
expirationEnd ==
  /\ AtLoop /\ ~More
  /\ LET empty == lists[exp] /\ seq[exp] = <<>> IN
       /\ lists' = [lists EXCEPT ![exp] = @ /\ ~empty]
       /\ left' = IF empty THEN [left EXCEPT ![exp] = Off] ELSE left
  /\ exp' = Off
  /\ own' = FALSE
  /\ UNCHANGED <<seq, age, timeout, linked, onTimeout, running, broken>>

-----------------------------------------------------------------------------
User ==
  \E i \in Items :
    \/ \E m \in Durations : setTimeout(i, m) \/ enroll(i, m)
    \/ clearTimer(i) \/ clearTimerAgain(i) \/ active(i) \/ unenroll(i)

Expire ==
  \/ \E m \in Durations : expirationCall(m)
  \/ expirationRestart \/ expirationFire \/ expirationReturn \/ expirationEnd

Next == User \/ Expire \/ \E d \in 1..MaxStep : Tick(d)

Spec == Init /\ [][Next]_vars

\* The loop runs: callbacks return, due timers are called, time goes on.
Fairness ==
  /\ WF_vars(expirationRestart \/ expirationFire \/ expirationReturn \/ expirationEnd)
  /\ \A m \in Durations : WF_vars(expirationCall(m))
  /\ WF_vars(\E d \in 1..MaxStep : Tick(d))

FairSpec == Spec /\ Fairness

-----------------------------------------------------------------------------
\* An item is in one list at most, once, and that list is the one of its own
\* _idleTimeout: unenroll and clearTimer look it up there.
InItsOwnList ==
  \A m \in Durations :
    /\ IsInjective(seq[m])
    /\ \A i \in ToSet(seq[m]) : timeout[i] = m /\ linked[i]

\* A list is in the order in which its items became active, so expiration may
\* stop at the first item that is too young.
OldestFirst ==
  \A m \in Durations : \A j, k \in 1..Len(seq[m]) :
    j < k => age[seq[m][j]] >= age[seq[m][k]]

\* lists[msecs] is empty only inside its own expiration, and then the function
\* that is running will close it; an empty list left behind would have a timer
\* that nobody starts again.
NoEmptyListLeft ==
  \A m \in Durations : lists[m] /\ seq[m] = <<>> => exp = m /\ own

\* Every list outside expiration has its timer started, to go off no later than
\* its oldest item is due; a list that is gone has no timer.
TimerCoversOldest ==
  \A m \in Durations :
    /\ ~lists[m] => left[m] = Off /\ seq[m] = <<>>
    /\ lists[m] /\ ~(exp = m /\ own) =>
         /\ left[m] # Off
         /\ left[m] = 0 \/ left[m] + age[Head(seq[m])] <= m

\* The loop's time moves on only while every item in a list is still within its
\* duration: none is forgotten behind a timer that goes off later.
NeverOverdue ==
  exp = Off /\ (\A m \in Durations : left[m] # 0) =>
    \A i \in Items : InList(i) => age[i] < timeout[i]

\* The one way to keep an expiration going: the list of one millisecond, for which
\* no item is ever too young, and items that are put into it again and again.
ArmsOne == \E i \in Items : setTimeout(i, 1) \/ (timeout[i] = 1 /\ active(i))
Starved == <>[](exp = 1) /\ []<><<ArmsOne>>_vars

\* A timeout that was set fires, or is cleared, whatever the other callbacks arm and
\* clear; nothing else ends its wait, except callbacks that keep arming timers of one
\* millisecond (as setTimeout(0) and nextTick do), which nothing else gets past.
TimeoutsFire == Starved \/ \A i \in Timeouts : InList(i) ~> ~InList(i) \/ broken

\* One call of expiration comes to an end, even when every callback arms itself
\* again: an item just armed is too young, unless its list is the one of one
\* millisecond.
ExpirationEnds == Starved \/ (exp # Off ~> exp = Off \/ broken)

\* The lists can be walked and looked up as timer.lua does: every item is in the
\* list of its own duration, oldest first, and a list that exists has items and
\* a timer that goes off in time for the first.
ListsSound ==
  TypeOK /\ InItsOwnList /\ OldestFirst /\ NoEmptyListLeft /\ TimerCoversOldest
=============================================================================
