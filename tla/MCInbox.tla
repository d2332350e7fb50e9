------------------------------- MODULE MCInbox -------------------------------
(* Finite instances of Inbox. *)
EXTENDS Inbox, TLC

CONSTANTS f1, f2

\* The last message is not addressed to the bot; a later edit may change that.
MCAddressed == {<<m, v>> \in Message \X Version : m < MaxMessage \/ v > 1}

Interchangeable == Permutations(Fetcher)
=============================================================================
