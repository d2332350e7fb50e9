---------------------------- MODULE MCInvocation ----------------------------
(***************************************************************************)
(* What one invocation of the executable does beside its transactions: the *)
(* command with its prompt and its output, the draft that it composes and  *)
(* loads, the configuration file, the setup check and the reconciliation   *)
(* of an unknown send.  The five share no state; a behaviour is one of one *)
(* part, and the others stay in their initial state.                       *)
(***************************************************************************)
EXTENDS Composition

CONSTANTS
    Depth, MaxRows,                                                 \* Command
    MaxFileEdits,                                                   \* Configuration
    MaxChanges,                                                     \* Setup
    m1, m2, Window, MinReads, Latency, MaxTime, MaxReads            \* Reconcile

VARIABLES
    part,
    db, rows, pc, inv, shown, stdout, code, result, error, touched,
    file, fileEdits, accepted, earlier, index, rejected,
    guild, changes, uses, step, context, granted, issues, moved,
    clock, behind, channel, asking, target, reads, terminal, evidence, verdicts

commandVars == <<db, rows, pc, inv, shown, stdout, code, result, error, touched>>
configurationVars == <<file, fileEdits, accepted, earlier, index, rejected>>
setupVars == <<guild, changes, uses, step, context, granted, issues, moved>>
reconcileVars == <<clock, behind, channel, asking, target, reads, terminal, evidence, verdicts>>

I == INSTANCE Command
C == INSTANCE Configuration WITH
        MaxEdits <- MaxFileEdits, Alias <- {"a", "b"}, Target <- {"role:1", "user:1"},
        edits <- fileEdits, config <- accepted, error <- rejected
S == INSTANCE Setup
R == INSTANCE Reconcile WITH Message <- {m1, m2}, time <- clock

PartsInit ==
    /\ part \in {"command", "composition", "configuration", "setup", "reconcile"}
    /\ Init /\ I!Init /\ C!Init /\ S!Init /\ R!Init

PartsNext ==
    \/ /\ part = "command" /\ I!Next
       /\ UNCHANGED <<part, vars, configurationVars, setupVars, reconcileVars>>
    \/ /\ part = "composition" /\ Next
       /\ UNCHANGED <<part, commandVars, configurationVars, setupVars, reconcileVars>>
    \/ /\ part = "configuration" /\ C!Next
       /\ UNCHANGED <<part, vars, commandVars, setupVars, reconcileVars>>
    \/ /\ part = "setup" /\ S!Next
       /\ UNCHANGED <<part, vars, commandVars, configurationVars, reconcileVars>>
    \/ /\ part = "reconcile" /\ R!Next
       /\ UNCHANGED <<part, vars, commandVars, configurationVars, setupVars>>

PartsSpec ==
    PartsInit /\ [][PartsNext]_<<part, vars, commandVars, configurationVars, setupVars, reconcileVars>>

-----------------------------------------------------------------------------
\* Command: a machine reader finds at most one document on standard output
MachineReadsOneDocument == I!MachineReadsOneDocument

\* Command: without a terminal, a command that widens or deletes leaves no trace
AutomationLeavesNoTrace == I!AutomationLeavesNoTrace

\* Command: the exit code says how the handler ended
ExitTellsTheEnd == I!ExitTellsTheEnd

\* Configuration: the hash changes exactly with what the configuration means
HashIsMeaning == C!HashIsMeaning

\* Setup: a configuration is called ready exactly when the service lets it work
ReadyIsUsable == S!ReadyIsUsable

\* Reconcile: who reads "absent" may send again
AbsenceIsTrue == R!AbsenceIsTrue

\* Reconcile: a decision rests on all the complete pages that the reconciler read
VerdictFromCompletePages == R!VerdictFromCompletePages
=============================================================================
