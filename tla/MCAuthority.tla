---------------------------- MODULE MCAuthority ----------------------------
(* Small instances of Authority. *)
EXTENDS Authority, TLC

CONSTANTS c1, c2, e1, p1, p2

\* An operator who approves, and a process that writes and sends.
MCApproveSend == p1 :> {"approve", "override"} @@ p2 :> {"create", "update", "send"}
\* Two processes that activate and revise; one of them creates and approves, the other
\* one sends.
MCPolicySend == p1 :> {"activate", "create", "update", "approve"}
                    @@ p2 :> {"activate", "update", "send"}
\* Two operators on one draft.
MCOperators == p1 :> {"create", "approve", "activate"} @@ p2 :> {"activate"}
=============================================================================
