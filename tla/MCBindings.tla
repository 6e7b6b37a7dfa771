----------------------------- MODULE MCBindings -----------------------------
(***************************************************************************)
(* The debugger's console, a zlib stream and the environment.  They share  *)
(* nothing, so a behaviour is one of one of them: `part' says of which.    *)
(***************************************************************************)
EXTENDS Debugger, Zlib, Environ

VARIABLE part  \* which of the bindings is at work

vars == <<debuggerVars, zlibVars, environVars, part>>

Init ==
  /\ part \in {"debugger", "zlib", "environ"}
  /\ DebuggerInit /\ ZlibInit /\ EnvironInit
  /\ part # "zlib" => z \in lz_stream_new("deflate")

Next ==
  /\ UNCHANGED part
  /\ \/ part = "debugger" /\ DebuggerNext /\ UNCHANGED <<zlibVars, environVars>>
     \/ part = "zlib" /\ ZlibNext /\ UNCHANGED <<debuggerVars, environVars>>
     \/ part = "environ" /\ EnvironNext /\ UNCHANGED <<debuggerVars, zlibVars>>

FairSpec == Init /\ [][Next]_vars /\ ZlibFairness
=============================================================================
