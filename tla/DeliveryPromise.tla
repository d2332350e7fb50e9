-------------------------- MODULE DeliveryPromise ---------------------------
(***************************************************************************)
(* What the delivery of a draft revision promises to someone who sees only *)
(* the recorded status and the Discord channel: the state machine of       *)
(* repo-com-delivery/src/model.rs without processes, rows or transactions. *)
(***************************************************************************)
CONSTANTS
    Revision,   \* draft revisions
    Message     \* the Discord messages that could ever appear

VARIABLES
    status,     \* [Revision -> status]
    messages    \* [Revision -> messages that exist for it]

vars == <<status, messages>>

Init ==
    /\ status = [r \in Revision |-> "unclaimed"]
    /\ messages = [r \in Revision |-> {}]

\* A transport attempt is authorised, first or after a safe failure.
Claim(r) ==
    /\ status[r] \in {"unclaimed", "retry_wait"}
    /\ status' = [status EXCEPT ![r] = "claimed"]
    /\ UNCHANGED messages

\* The one message of the revision appears.  After an unknown outcome it may
\* still do so; after any other outcome it never does.
Appear(r, m) ==
    /\ status[r] \in {"claimed", "unknown"}
    /\ messages[r] = {}
    /\ messages' = [messages EXCEPT ![r] = {m}]
    /\ UNCHANGED status

\* The outcome is recorded, and it is true.
Settle(r, outcome) ==
    /\ status[r] = "claimed"
    /\ outcome = "accepted" => messages[r] # {}
    /\ outcome \in {"failed", "retry_wait"} => messages[r] = {}
    /\ status' = [status EXCEPT ![r] = outcome]
    /\ UNCHANGED messages

Next ==
    \E r \in Revision :
        \/ Claim(r)
        \/ \E m \in Message : Appear(r, m)
        \/ \E outcome \in {"accepted", "failed", "retry_wait", "unknown"} :
              Settle(r, outcome)

Spec == Init /\ [][Next]_vars
=============================================================================
