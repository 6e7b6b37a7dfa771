------------------------------ MODULE Debugger ------------------------------
(***************************************************************************)
(* The console of luv_debug.c: its linked list of breakpoints, the one     *)
(* line hook that breakpoints and tracing share, and the consoles, which   *)
(* may be inside each other: a chunk typed at a prompt may call debugger() *)
(* again or reach a breakpoint.                                            *)
(*                                                                         *)
(* Lua is external: it calls the hook on a line of Lua code while no hook  *)
(* runs, and lua_pcall hands an error to the function below the chunk.     *)
(***************************************************************************)
EXTENDS Integers, Sequences, SequencesExt

CONSTANTS
  Files,       \* the names of sources
  Lines,       \* the lines of each
  MaxPoints,   \* bound: breakpoints
  MaxConsoles, \* bound: consoles inside each other
  MaxCommands, \* bound: commands that change breakpoints or the hook
  MaxResults   \* bound: results of a chunk

ASSUME DebuggerAssumption ==
  /\ Lines \subseteq Nat \ {0}
  /\ MaxPoints \in Nat /\ MaxConsoles \in Nat /\ MaxCommands \in Nat /\ MaxResults \in Nat

NULL == 0
Nodes == 1..MaxPoints
Free == <<>>

\* What break and clear name: a source and a line, or 0 when no line was given.
Points == Files \X (Lines \cup {0})

VARIABLES
  heap,       \* breakpoint_head and the breakpoint_t: name, line and next
  hook,       \* the hook of the Lua state
  debugger_trace_enabled,
  consoles,   \* the calls of luahook_debugger, the innermost last
  commands,   \* how many commands were given
  wanted,     \* history: the breakpoints set and not cleared, the latest first
  unbalanced, \* history: a console left values on the stack of its caller
  fault       \* history: what the C code did not survive

debuggerVars == <<heap, hook, debugger_trace_enabled, consoles, commands, wanted, unbalanced, fault>>

\* A console: who opened it, the breakpoint it is for, what it has on the Lua
\* stack, and whether a chunk runs.
Consoles ==
  [by : {"call", "hook"}, at : Nodes \cup {NULL},
   stack : Seq({"handler", "chunk", "error", "value"}), running : BOOLEAN]

\* The shape of every variable.
DebuggerTypeOK ==
  /\ heap \in [head : Nodes \cup {NULL}, next : [Nodes -> Nodes \cup {NULL}], point : [Nodes -> Points \cup {Free}]]
  /\ hook \in {"none", "breakpoint", "trace"}
  /\ debugger_trace_enabled \in BOOLEAN
  /\ consoles \in Seq(Consoles) /\ Len(consoles) <= MaxConsoles
  /\ commands \in 0..MaxCommands
  /\ wanted \in Seq(Points)
  /\ unbalanced \in BOOLEAN
  /\ fault \in {"none", "null", "freed", "message"}

DebuggerInit ==
  /\ heap = [head |-> NULL, next |-> [n \in Nodes |-> NULL], point |-> [n \in Nodes |-> Free]]
  /\ hook = "none" /\ debugger_trace_enabled = FALSE
  /\ consoles = <<>> /\ commands = 0
  /\ wanted = <<>> /\ unbalanced = FALSE /\ fault = "none"

-----------------------------------------------------------------------------
\* The list of breakpoints.

\* calloc and free of a breakpoint_t.
Allocated(h) == {n \in Nodes : h.point[n] # Free}
Freed(h, n) == [h EXCEPT !.point[n] = Free]

breakpoint_add(h, n, p) == [head |-> n, next |-> [h.next EXCEPT ![n] = h.head], point |-> [h.point EXCEPT ![n] = p]]

\* The heap after a call and what went wrong in it.
Done(h, f) == [heap |-> h, fault |-> f]

\* The loop of breakpoint_clear.  The node before the cleared one is looked at
\* again; before the first there is none.
RECURSIVE ClearFrom(_, _, _, _)
ClearFrom(h, prev, tmp, p) ==
  CASE tmp = NULL -> Done(h, "none")
    [] tmp # NULL /\ h.point[tmp] = Free -> Done(h, "freed")
    [] tmp # NULL /\ h.point[tmp] = p /\ prev = NULL -> Done(Freed([h EXCEPT !.head = NULL], tmp), "null")
    [] tmp # NULL /\ h.point[tmp] = p /\ prev # NULL ->
         ClearFrom(Freed([h EXCEPT !.next[prev] = h.next[tmp]], tmp), prev, h.next[tmp], p)
    [] OTHER -> ClearFrom(h, tmp, h.next[tmp], p)

breakpoint_clear(h, p) == ClearFrom(h, NULL, h.head, p)

RECURSIVE ClearAllFrom(_, _)
ClearAllFrom(h, tmp) ==
  CASE tmp = NULL -> Done([h EXCEPT !.head = NULL], "none")
    [] tmp # NULL /\ h.point[tmp] = Free -> Done(h, "freed")
    [] OTHER -> ClearAllFrom(Freed(h, tmp), h.next[tmp])

breakpoint_clearall(h) == ClearAllFrom(h, h.head)

\* debugger_breakpoint: the first breakpoint with this line, or with none, whose
\* name is not the source's (strcmp is not compared with 0).
RECURSIVE HitFrom(_, _, _)
HitFrom(tmp, file, line) ==
  IF tmp = NULL \/ heap.point[tmp] = Free THEN tmp
  ELSE IF heap.point[tmp][2] \in {line, 0} /\ heap.point[tmp][1] # file THEN tmp
  ELSE HitFrom(heap.next[tmp], file, line)

-----------------------------------------------------------------------------
\* Lua code runs: the program's, or a chunk of the innermost console.
LuaRuns == fault = "none" /\ (consoles # <<>> => Last(consoles).running)
Prompt == fault = "none" /\ consoles # <<>> /\ ~Last(consoles).running

\* luahook_debugger, up to its loop.
luahook_debugger(by, at) ==
  /\ Len(consoles) < MaxConsoles
  /\ consoles' = Append(consoles, [by |-> by, at |-> at, stack |-> <<"handler">>, running |-> FALSE])
  /\ UNCHANGED <<heap, hook, debugger_trace_enabled, commands, wanted, unbalanced, fault>>

\* The program, or a chunk, calls require('_debug').debugger().
debugger == LuaRuns /\ luahook_debugger("call", NULL)

\* A line of a Lua function, while no hook runs.
debugger_breakpoint ==
  /\ LuaRuns /\ hook = "breakpoint"
  /\ \A k \in DOMAIN consoles : consoles[k].by # "hook"
  /\ \E file \in Files, line \in Lines :
       LET tmp == HitFrom(heap.head, file, line) IN
       /\ tmp # NULL
       /\ IF heap.point[tmp] = Free
          THEN fault' = "freed" /\ UNCHANGED <<heap, hook, debugger_trace_enabled, consoles, commands, wanted, unbalanced>>
          ELSE luahook_debugger("hook", tmp)

\* Mutant: the walk over the breakpoints goes on after the console.
AfterConsole_walks(c) == IF c.by = "hook" /\ heap.point[c.at] = Free THEN "freed" ELSE "none"

\* What the caller of a console does with it: debugger_breakpoint returns at
\* once and looks at no breakpoint any more.
AfterConsole(c) == "none"

\* quit, exit, q or the end of the input: the handler is popped.
console_exits ==
  LET c == Last(consoles) IN
  /\ Prompt
  /\ consoles' = Front(consoles)
  /\ unbalanced' = (unbalanced \/ Len(c.stack) # 1)
  /\ fault' = AfterConsole(c)
  /\ UNCHANGED <<heap, hook, debugger_trace_enabled, commands, wanted>>

-----------------------------------------------------------------------------
\* The commands.
Command == Prompt /\ commands < MaxCommands /\ commands' = commands + 1

console_break ==
  /\ Command
  /\ \E p \in Points, n \in Nodes :
       /\ n \notin Allocated(heap)
       /\ heap' = breakpoint_add(heap, n, p)
       /\ wanted' = <<p>> \o wanted
  /\ hook' = "breakpoint"
  /\ UNCHANGED <<debugger_trace_enabled, consoles, unbalanced, fault>>

\* lua_sethook with mask 0 takes away whatever hook there is.
console_clear ==
  /\ Command
  /\ \E p \in Points :
       LET r == breakpoint_clear(heap, p) IN
       /\ heap' = r.heap /\ fault' = r.fault
       /\ wanted' = SelectSeq(wanted, LAMBDA q : q # p)
  /\ hook' = "none"
  /\ UNCHANGED <<debugger_trace_enabled, consoles, unbalanced>>

console_clearall ==
  /\ Command
  /\ LET r == breakpoint_clearall(heap) IN heap' = r.heap /\ fault' = r.fault
  /\ wanted' = <<>> /\ hook' = "none"
  /\ UNCHANGED <<debugger_trace_enabled, consoles, unbalanced>>

\* trace changes its flag and puts its own hook, or none, in place of the other.
console_trace ==
  /\ Command
  /\ hook' = IF debugger_trace_enabled THEN "none" ELSE "trace"
  /\ debugger_trace_enabled' = ~debugger_trace_enabled
  /\ UNCHANGED <<heap, consoles, wanted, unbalanced, fault>>

-----------------------------------------------------------------------------
\* Any other text is a chunk; bt is one too.

Becomes(c) == consoles' = Append(Front(consoles), c)
Pop(s, n) == SubSeq(s, 1, Len(s) - n)

\* luaL_loadstring refuses the text: its message is printed and popped.
chunk_refused ==
  /\ Prompt
  /\ Becomes([Last(consoles) EXCEPT !.stack = Pop(Append(@, "error"), 1)])
  /\ UNCHANGED <<heap, hook, debugger_trace_enabled, commands, wanted, unbalanced, fault>>

\* luaL_loadstring succeeds and lua_pcall begins.
chunk_begins ==
  /\ Prompt
  /\ Becomes([Last(consoles) EXCEPT !.stack = Append(@, "chunk"), !.running = TRUE])
  /\ UNCHANGED <<heap, hook, debugger_trace_enabled, commands, wanted, unbalanced, fault>>

\* The results are counted from origtop and popped.
chunk_returns ==
  LET c == Last(consoles) origtop == 1 IN
  /\ LuaRuns /\ consoles # <<>>
  /\ \E n \in 0..MaxResults :
       LET s == Pop(c.stack, 1) \o [i \in 1..n |-> "value"]
       IN  Becomes([c EXCEPT !.stack = Pop(s, Len(s) - origtop), !.running = FALSE])
  /\ UNCHANGED <<heap, hook, debugger_trace_enabled, commands, wanted, unbalanced, fault>>

\* The handler of lua_pcall is the value below the chunk.  luv_lua_debug_stackwalk
\* prints the levels of the stack and returns nothing, which is nil.
luv_lua_debug_stackwalk == "nil"
Message(c) == IF c.stack[Len(c.stack) - 1] = "handler" THEN luv_lua_debug_stackwalk ELSE "text"

\* Mutant: the error stays on the stack.
chunk_fails_kept ==
  LET c == Last(consoles) IN
  /\ LuaRuns /\ consoles # <<>>
  /\ Becomes([c EXCEPT !.stack = Append(Pop(@, 1), "error"), !.running = FALSE])
  /\ fault' \in IF Message(c) = "nil" THEN {"none", "message"} ELSE {"none"}
  /\ UNCHANGED <<heap, hook, debugger_trace_enabled, commands, wanted, unbalanced>>

\* The chunk raises an error: it is replaced by the message, which is printed
\* with %s and popped.  A message that is nil is a null pointer for printf.
chunk_fails ==
  LET c == Last(consoles) IN
  /\ LuaRuns /\ consoles # <<>>
  /\ Becomes([c EXCEPT !.stack = Pop(Append(Pop(@, 1), "error"), 1), !.running = FALSE])
  /\ fault' \in IF Message(c) = "nil" THEN {"none", "message"} ELSE {"none"}
  /\ UNCHANGED <<heap, hook, debugger_trace_enabled, commands, wanted, unbalanced>>

-----------------------------------------------------------------------------
DebuggerNext ==
  \/ debugger \/ debugger_breakpoint \/ console_exits
  \/ console_break \/ console_clear \/ console_clearall \/ console_trace
  \/ chunk_refused \/ chunk_begins \/ chunk_returns \/ chunk_fails

DebuggerSpec == DebuggerInit /\ [][DebuggerNext]_debuggerVars

-----------------------------------------------------------------------------
\* The list from a node, as far as it is one.
RECURSIVE ListFrom(_, _)
ListFrom(n, left) == IF n = NULL \/ left = 0 THEN <<>> ELSE <<n>> \o ListFrom(heap.next[n], left - 1)

\* The list holds the breakpoints that were set and not cleared, in order, and
\* nothing else is allocated.
ListSound ==
  LET list == ListFrom(heap.head, MaxPoints)
  IN  /\ ToSet(list) = Allocated(heap)
      /\ [k \in DOMAIN list |-> heap.point[list[k]]] = wanted

\* A line hook that would never do anything is not left behind: the hook of the
\* breakpoints is there only while there are some, the other only while tracing
\* is enabled.
HookNeeded ==
  /\ fault = "none" /\ hook = "breakpoint" => heap.head # NULL
  /\ hook = "trace" => debugger_trace_enabled

\* Until the program is lost (by clearing the first breakpoint, luv_debug.c:170, or
\* by the message of a failed chunk), the list of breakpoint_t and the hook follow
\* break, clear and clearall, also when they are typed while a breakpoint of the
\* list is being served, and no freed breakpoint is read.
BreakpointsSound ==
  DebuggerTypeOK /\ (fault = "none" => ListSound) /\ fault # "freed" /\ HookNeeded

\* At every prompt, however consoles and chunks are nested, the console has its
\* error handler and nothing else on the Lua stack, and it leaves its caller's
\* stack as it found it.
ConsolesBalanced ==
  /\ ~unbalanced
  /\ \A k \in DOMAIN consoles : ~consoles[k].running => consoles[k].stack = <<"handler">>
=============================================================================
