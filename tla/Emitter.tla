------------------------------- MODULE Emitter -------------------------------
(***************************************************************************)
(* Emitter of src/lib/luvit/core.lua, for one event name: on, once, emit,  *)
(* removeListener, missingHandlerType.                                     *)
(*                                                                         *)
(* The listeners of an event are a Lua table.  removeListener writes nil   *)
(* into it and so leaves holes; emit walks it with ipairs, which stops at  *)
(* the first hole, and closes the holes afterwards.  Where the code asks   *)
(* for #t, Lua may answer with any border of t: an n with t[n] # nil (or   *)
(* n = 0) and t[n+1] = nil.  A table with holes has several, and LuaJIT    *)
(* picks one by a binary search over its array part.                       *)
(*                                                                         *)
(* A listener may call on, once, removeListener and emit on the same event *)
(* while it runs: `stack' holds the emissions in progress, the innermost   *)
(* last.  Registrations are numbered in the order they are made.           *)
(***************************************************************************)
EXTENDS Integers, Sequences, FiniteSets, SequencesExt

CONSTANTS
  MaxRegs,     \* bound: registrations made in a behaviour
  MaxDepth,    \* bound: emissions nested in one another
  MaxEmits     \* bound: emissions started in a behaviour

ASSUME EmitterAssumption ==
  /\ MaxRegs \in Nat \ {0}
  /\ MaxDepth \in Nat \ {0}
  /\ MaxEmits \in Nat \ {0}

VARIABLES
  exists,      \* handlers[name] is a table (it never goes back to nil)
  table,       \* handlers_for_type, 0 standing for nil
  regs,        \* registrations made so far
  onces,       \* the registrations made by once
  stack,       \* the emissions in progress
  emits,       \* history: emissions started
  live,        \* history: registrations removeListener was not called for
  last         \* history: whom the last emission left out

emitterVars == <<exists, table, regs, onces, stack, emits, live, last>>

nil   == 0
Slots == 1..MaxRegs
Ids   == 1..MaxRegs

\* The registrations a table holds.
In(t) == {t[i] : i \in Slots} \ {nil}

\* Reading one slot past the end gives nil.
At(t, i) == IF i \in Slots THEN t[i] ELSE nil

\* The values Lua may answer for #t.
Borders(t) == {n \in 0..MaxRegs : (n = 0 \/ At(t, n) # nil) /\ At(t, n + 1) = nil}

HoleFree(t) == \A i \in Slots : \A j \in 1..i : t[i] # nil => t[j] # nil

\* An emission: the index ipairs is at, the listener that is running (nil
\* between two), and three history fields: the registrations it was due to
\* reach, those it has called, and whether it was `quiet': it began on a
\* table without holes, its listeners removed nobody but themselves and no
\* emission inside it closed a hole.
Frames ==
  [i : 0..MaxRegs, cur : Ids \cup {nil}, due : SUBSET Ids, called : Seq(Ids), quiet : BOOLEAN]

EmitterTypeOK ==
  /\ exists \in BOOLEAN
  /\ table \in [Slots -> Ids \cup {nil}]
  /\ regs \in 0..MaxRegs
  /\ onces \subseteq 1..regs
  /\ stack \in Seq(Frames) /\ Len(stack) <= MaxDepth
  /\ emits \in 0..MaxEmits
  /\ live \subseteq 1..regs
  /\ last \in [missed : SUBSET Ids, quiet : BOOLEAN]

EmitterInit ==
  /\ exists = FALSE
  /\ table = [i \in Slots |-> nil]
  /\ regs = 0
  /\ onces = {}
  /\ stack = <<>>
  /\ emits = 0
  /\ live = {}
  /\ last = [missed |-> {}, quiet |-> FALSE]

-----------------------------------------------------------------------------
\* Lua code of the program runs: outside all emissions, or in a listener.
Running == IF stack = <<>> THEN nil ELSE Last(stack).cur
UserCode == stack = <<>> \/ Running # nil

\* Mutant: the last slot is overwritten.
table_insert_over(t, n, x) == [t EXCEPT ![IF n = 0 THEN 1 ELSE n] = x]

\* table.insert(t, x), on the border n.
table_insert(t, n, x) == [t EXCEPT ![n + 1] = x]

\* Emitter:on, or once when `single': the wrapper that once registers is the
\* registration here.  The table is created by the first one.
Register(single) ==
  /\ UserCode /\ regs < MaxRegs
  /\ exists' = TRUE
  /\ regs' = regs + 1
  /\ live' = live \cup {regs + 1}
  /\ onces' = IF single THEN onces \cup {regs + 1} ELSE onces
  /\ \E n \in Borders(table) : table' = table_insert(table, n, regs + 1)
  /\ UNCHANGED <<stack, emits, last>>

on   == Register(FALSE)
once == Register(TRUE)

\* Mutant: removal closes the hole at once, under the index of ipairs.
Without_shift(t, n, R) ==
  LET kept == SelectSeq(t, LAMBDA x : x \notin R)
  IN  [i \in Slots |-> IF i <= Len(kept) THEN kept[i] ELSE nil]

\* The loop of removeListener, from the border n down: t without the
\* registrations R, as far as the loop reaches.
Without(t, n, R) == [i \in Slots |-> IF i <= n /\ t[i] \in R THEN nil ELSE t[i]]

\* The emissions in progress that the removal of R disturbs: all but those
\* whose running listener removes itself.
Disturb(s, R) ==
  [k \in 1..Len(s) |-> [s[k] EXCEPT !.quiet = s[k].quiet /\ R \subseteq {s[k].cur}]]

\* Emitter:removeListener(name, callback), and with callback = nil, for all.
RemoveAny(R) ==
  /\ UserCode /\ exists
  /\ \E n \in Borders(table) : table' = Without(table, n, R)
  /\ live' = live \ R
  /\ stack' = Disturb(stack, R)
  /\ UNCHANGED <<exists, regs, onces, emits, last>>

removeListener == \E r \in live : RemoveAny({r})
removeAll      == RemoveAny(1..regs)

-----------------------------------------------------------------------------
\* emit when no listener was ever registered: missingHandlerType, which throws
\* for the event "error" (or hands it to the listeners of process).
emitMissing ==
  /\ UserCode /\ emits < MaxEmits
  /\ ~exists
  /\ emits' = emits + 1
  /\ UNCHANGED <<exists, table, regs, onces, stack, live, last>>

\* emit up to the loop.
emit ==
  /\ UserCode /\ emits < MaxEmits /\ Len(stack) < MaxDepth
  /\ exists
  /\ emits' = emits + 1
  /\ stack' = Append(stack, [i |-> 0, cur |-> nil, due |-> live, called |-> <<>>,
                             quiet |-> HoleFree(table)])
  /\ UNCHANGED <<exists, table, regs, onces, live, last>>

Top == Last(stack)

\* ipairs yields the next slot and its listener is called; the wrapper of once
\* removes itself before it calls the program's function.
emitCall ==
  /\ stack # <<>> /\ Top.cur = nil
  /\ LET r == At(table, Top.i + 1)
         s == [stack EXCEPT ![Len(stack)].i = Top.i + 1,
                            ![Len(stack)].cur = r,
                            ![Len(stack)].called = Append(Top.called, r)]
     IN  /\ r # nil
         /\ IF r \in onces
            THEN /\ \E n \in Borders(table) : table' = Without(table, n, {r})
                 /\ live' = live \ {r}
                 /\ stack' = Disturb(s, {r})
            ELSE stack' = s /\ UNCHANGED <<table, live>>
  /\ UNCHANGED <<exists, regs, onces, emits, last>>

\* The listener returns.
emitReturn ==
  /\ stack # <<>> /\ Top.cur # nil
  /\ stack' = [stack EXCEPT ![Len(stack)].cur = nil]
  /\ UNCHANGED <<exists, table, regs, onces, emits, live, last>>

\* table.remove(t, p), on the border e: nothing when p is past it.
table_remove(t, p, e) ==
  IF p > e THEN t
  ELSE [i \in Slots |-> CASE i < p \/ i > e -> t[i]
                          [] i = e          -> nil
                          [] OTHER          -> t[i + 1]]

\* The tables the closing loop of emit may leave when it starts at slot n.
Compact(t, n) ==
  LET from[k \in 0..n] ==     \* after the slots n, n-1, ..., k+1
        IF k = n THEN {t}
        ELSE UNION {IF u[k + 1] # nil THEN {u}
                    ELSE {table_remove(u, k + 1, e) : e \in Borders(u)} : u \in from[k + 1]}
  IN  from[0]

\* Mutant: the loop runs until its index is #t.
emitEnd_atLength ==
  /\ stack # <<>> /\ Top.cur = nil
  /\ Top.i \in Borders(table)
  /\ \E t \in Compact(table, Top.i) :
       /\ table' = t
       /\ stack' = [k \in 1..(Len(stack) - 1) |->
                      [stack[k] EXCEPT !.quiet = stack[k].quiet /\ t = table]]
  /\ last' = [missed |-> (Top.due \cap live) \ ToSet(Top.called),
              quiet  |-> Top.quiet]
  /\ UNCHANGED <<exists, regs, onces, emits, live>>

\* The loop is over: holes are closed and emit returns.  An emission around
\* this one is no longer quiet if slots have moved under its index.
emitEnd ==
  /\ stack # <<>> /\ Top.cur = nil
  /\ At(table, Top.i + 1) = nil
  /\ \E n \in Borders(table) : \E t \in Compact(table, n) :
       /\ table' = t
       /\ stack' = [k \in 1..(Len(stack) - 1) |->
                      [stack[k] EXCEPT !.quiet = stack[k].quiet /\ t = table]]
  /\ last' = [missed |-> (Top.due \cap live) \ ToSet(Top.called),
              quiet  |-> Top.quiet]
  /\ UNCHANGED <<exists, regs, onces, emits, live>>

-----------------------------------------------------------------------------
EmitterNext ==
  \/ on \/ once \/ removeListener \/ removeAll
  \/ emitMissing \/ emit \/ emitCall \/ emitReturn \/ emitEnd

EmitterSpec == EmitterInit /\ [][EmitterNext]_emitterVars

\* Listeners return and the loops of emit go on.
Progress == emitCall \/ emitReturn \/ emitEnd

EmitterFairness == WF_emitterVars(Progress)

-----------------------------------------------------------------------------
\* Holes, nested emissions and every answer Lua may give for #t included, no
\* registration is lost or doubled: one that was not removed is in the table,
\* in one slot.
NoListenerLost ==
  /\ live \subseteq In(table)
  /\ \A i, j \in Slots : table[i] = table[j] /\ table[i] # nil => i = j

\* One emission calls no registration twice, whatever its listeners register,
\* remove and emit.
AtMostOncePerEmission ==
  \A k \in 1..Len(stack) : IsInjective(stack[k].called)

\* An emission that begins on a table without holes, whose listeners remove
\* only themselves (as once does) and inside which no other emission closes a
\* hole, reaches everyone who was registered when it began.
QuietEmissionReachesAll == last.quiet => last.missed = {}

\* A listener is registered or an emission begun.
Feeds == on \/ once \/ emit \/ emitMissing

\* Every emission ends, nested ones and holes included, provided that at some point
\* its listeners register and emit no more.  The condition is needed: ipairs goes on
\* to whatever on() appends, so a listener that registers another for the same event
\* whenever one is called keeps its emission going for ever.
EmissionsEnd == <>[][~Feeds]_emitterVars => (stack # <<>> ~> stack = <<>>)

\* The table and the registrations agree: the variables have their shape and
\* no listener is lost or doubled.
ListenersKept == EmitterTypeOK /\ NoListenerLost

\* What an emission owes its listeners: nobody is called twice, and if nothing
\* disturbs it nobody is left out.
EachListenerOnce == AtMostOncePerEmission /\ QuietEmissionReachesAll
=============================================================================
