-------------------------------- MODULE MCTls --------------------------------
(***************************************************************************)
(* TLS: the contexts of a process with their certificate stores, and one   *)
(* connection with its engine.  A connection reads nothing of its context  *)
(* after newCONN but through OpenSSL, so the two share no variable and a   *)
(* behaviour is one of one of them: `part' says of which.                  *)
(***************************************************************************)
EXTENDS SecureContext, SecurePair

VARIABLE part  \* "contexts" or "pair"

vars == <<contextVars, pairVars, part>>

\* While the contexts are at work the connection stays as a client's was made.
Init ==
  /\ part \in {"contexts", "pair"} /\ ContextInit /\ PairInit
  /\ part = "contexts" => ~ssl.server

Next ==
  /\ UNCHANGED part
  /\ \/ part = "contexts" /\ ContextNext /\ UNCHANGED pairVars
     \/ part = "pair" /\ PairNext /\ UNCHANGED contextVars

Spec == Init /\ [][Next]_vars
=============================================================================
