------------------------------ MODULE ApiCall ------------------------------
(***************************************************************************)
(* What one call of the Weaviate Cloud client promises the command that    *)
(* makes it, whatever the network does: the server may carry a replayable  *)
(* request out several times, at any moment, even after the call returned; *)
(* a write is carried out at most once; and an answer the command sees     *)
(* tells the truth about the write.  ApiClient, the retry loop of          *)
(* internal/api/client.go, implements it.                                  *)
(***************************************************************************)
EXTENDS Naturals

CONSTANTS Methods,      \* the HTTP methods a call may use
          Replayable    \* those of them that may be sent again

VARIABLES method,    \* of this call
          outcome,   \* what the command was told
          carried    \* how often the server carried the request out

vars == <<method, outcome, carried>>

Outcomes == {"pending", "ok", "rejected", "unknown"}

Init == /\ method \in Methods
        /\ outcome = "pending"
        /\ carried = 0

\* A write is carried out once, and never after the command was told it was not.
CarryOut == /\ method \notin Replayable => carried = 0 /\ outcome # "rejected"
            /\ carried' = carried + 1
            /\ UNCHANGED <<method, outcome>>

Return(o) == /\ outcome = "pending"
             /\ o = "ok" => carried > 0
             /\ o = "rejected" /\ method \notin Replayable => carried = 0
             /\ outcome' = o
             /\ UNCHANGED <<method, carried>>

Next == CarryOut \/ \E o \in Outcomes \ {"pending"} : Return(o)

SafeSpec == Init /\ [][Next]_vars

Spec == SafeSpec /\ WF_vars(\E o \in Outcomes \ {"pending"} : Return(o))

=============================================================================
