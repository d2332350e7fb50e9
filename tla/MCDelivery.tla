----------------------------- MODULE MCDelivery -----------------------------
(* Finite instances of Delivery. *)
EXTENDS Delivery

CONSTANTS c1, c2, a1, a2, e1, cli, runner, step

MCKind == [s \in Sender |-> CASE s = cli -> "cli"
                              [] s = runner -> "runner"
                              [] s = step -> "step"]
=============================================================================
