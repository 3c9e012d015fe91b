------------------------------ MODULE Session ------------------------------
(***************************************************************************)
(* What a connection promises its caller (NATIVE_PROTOCOL.md 5.1): calls   *)
(* one at a time, each answered by the decision the server took on that    *)
(* very call, until one fails on the way; a failed connection is not used  *)
(* again.                                                                  *)
(***************************************************************************)
EXTENDS Naturals

CONSTANT MaxCalls   \* bound: calls made in the session

VARIABLES
  phase,     \* "ready", "busy", "failed" or "closed"
  call,      \* number of the last call made
  decision,  \* what the server decided on it: "none", "ok" or "exception";
             \* nobody asks any more once the call has failed on the way
  outcome    \* what the call returned: also "error" and "unsupported"

vars == <<phase, call, decision, outcome>>

Init == phase = "ready" /\ call = 0 /\ decision = "none" /\ outcome = "none"

(* READY to READING_RESPONSE. *)
Start ==
  /\ phase = "ready" /\ call < MaxCalls
  /\ phase' = "busy" /\ call' = call + 1
  /\ decision' = "none" /\ outcome' = "none"

(* A call refused before it touches the connection. *)
Refuse ==
  /\ phase = "ready" /\ call < MaxCalls
  /\ call' = call + 1 /\ decision' = "none" /\ outcome' = "unsupported"
  /\ UNCHANGED phase

(* The server decides on a call once, while its caller waits. *)
Decide ==
  /\ phase = "busy" /\ decision = "none"
  /\ decision' \in {"ok", "exception"}
  /\ UNCHANGED <<phase, call, outcome>>

Answer ==
  /\ phase = "busy" /\ decision # "none"
  /\ phase' = "ready" /\ outcome' = decision
  /\ UNCHANGED <<call, decision>>

Fail ==
  /\ phase = "busy"
  /\ phase' = "failed" /\ decision' = "none" /\ outcome' = "error"
  /\ UNCHANGED call

Close ==
  /\ phase \in {"ready", "failed"} /\ phase' = "closed"
  /\ UNCHANGED <<call, decision, outcome>>

Next == Start \/ Refuse \/ Decide \/ Answer \/ Fail \/ Close

Spec == Init /\ [][Next]_vars
=============================================================================
