-------------------------------- MODULE MCNet --------------------------------
(***************************************************************************)
(* A net.Socket, and the emitter that it and everything else in the        *)
(* library is built on.  NetSocket has the socket's own events in it, so   *)
(* the two share no variable and a behaviour is one of one of them: `part' *)
(* says of which.                                                          *)
(***************************************************************************)
EXTENDS NetSocket, Emitter

VARIABLE part  \* "socket" or "emitter"

NetVars == <<vars, emitterVars, part>>

NetInit == part \in {"socket", "emitter"} /\ Init /\ EmitterInit

NetNext ==
  /\ UNCHANGED part
  /\ \/ part = "socket" /\ Next /\ UNCHANGED emitterVars
     \/ part = "emitter" /\ EmitterNext /\ UNCHANGED vars

\* The fairness of both; nothing fairness speaks of is enabled in the
\* initial state of the one that is not at work.
NetFairSpec == NetInit /\ [][NetNext]_NetVars /\ Fairness /\ EmitterFairness
=============================================================================
