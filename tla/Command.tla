------------------------------ MODULE Command ------------------------------
(***************************************************************************)
(* One invocation of the executable after another: the command line, the  *)
(* structured input on standard input, the configuration, the local state,*)
(* the handler with its prompt, the domain operation and the rendered      *)
(* result.  Other invocations may change the rows between any two steps,  *)
(* also while a prompt is open.  The domain operations are those of the    *)
(* other modules; here one of them is a commit or a failure.               *)
(***************************************************************************)
EXTENDS Naturals, Sequences, FiniteSets

CONSTANTS
    Depth,      \* directories between the working directory and the root
    MaxRows     \* bound on the changes of the rows

VARIABLES
    db,         \* whether the database exists
    rows,       \* the generation of the rows a plan or a preview reads
    pc,         \* the step of the running invocation
    inv,        \* the running invocation
    shown,      \* the generation that the open or answered prompt shows
    stdout,     \* what was written to standard output
    code,       \* the exit code
    result,     \* what the handler returned: nothing, a good result or a bad one
    error,      \* the category of its failure
    touched     \* whether this invocation created the database or changed rows

vars == <<db, rows, pc, inv, shown, stdout, code, result, error, touched>>

-----------------------------------------------------------------------------
(* Commands *)

OperationsCommand ==
    {"config validate", "policy status", "policy activate", "state verify",
     "state inspect", "audit query", "purge plan", "purge execute"}

MessagingCommand ==
    {"draft create", "draft show", "draft update", "draft preview",
     "draft approve", "draft secret-override", "send", "setup check",
     "inbox fetch", "inbox acknowledge", "inbox archive", "reply draft-create"}

Command == OperationsCommand \union MessagingCommand

\* Commands that ask an operator at the terminal
Prompting == {"policy activate", "purge execute", "draft approve", "draft secret-override"}

\* Commands that the dispatcher runs without the local state
Stateless == {"config validate", "state verify", "setup check"}

Reading == {"policy status", "state inspect", "audit query", "purge plan",
            "draft show", "draft preview"}

Writing == Command \ (Prompting \union Stateless \union Reading)

\* Commands whose handler compares the repository of the input and of the file
RepositoryBound ==
    {"config validate", "policy status", "policy activate", "send",
     "setup check", "inbox fetch", "reply draft-create"}

LifecycleFields == {"object_type", "object_id", "revision", "page_size", "after"}

\* What the strict parser of an operations input checks
OperationsFields ==
    [command \in OperationsCommand |->
        {"repository_id"} \union
        CASE command = "config validate" -> {"config_path"}
          [] command = "policy status" -> {"tuple"}
          [] command = "policy activate" -> {"tuple", "activation_id", "activated_at"}
          [] command = "state verify" -> {"database_path", "expected_migration"}
          [] command = "state inspect" -> LifecycleFields
          [] command = "audit query" -> {"page_size", "cursor", "filter"}
          [] command = "purge plan" -> {"scope", "cutoff", "expected_config_hash"}
          [] command = "purge execute" -> {"scope", "cutoff", "config_hash", "plan_hash", "executed_at"}]

\* What the strict parser of a messaging input checks
MessagingFields ==
    [command \in MessagingCommand |->
        {"repository_id"} \union
        CASE command \in {"draft create", "reply draft-create"} ->
                {"draft_id", "target", "event_type", "severity", "text", "metadata", "created_at"}
          [] command = "draft update" ->
                {"draft_id", "revision", "target", "event_type", "severity", "text", "metadata", "created_at"}
          [] command \in {"draft show", "draft preview", "draft approve", "draft secret-override", "send"} ->
                {"draft_id", "revision"}
          [] command = "setup check" -> {}
          [] command = "inbox fetch" -> {"alias", "bot_user_id", "boundary", "retrieved_at"}
          [] command \in {"inbox acknowledge", "inbox archive"} -> {"item_ids", "at"}]

\* An input is one object of version 1 that names the command of the line
Envelope == {"readable", "bounded", "object", "protocol_version", "command", "input"}

-----------------------------------------------------------------------------
(* Invocations *)

Invocation == [command : Command, json : BOOLEAN, asked : {"tty", "non-tty", "none"},
               terminal : BOOLEAN, plan : 0..MaxRows]

ExitCode ==
    [usage |-> 2, operator |-> 3, policy |-> 4, authentication |-> 5,
     permission |-> 6, conflict |-> 7, delivery |-> 8, storage |-> 9,
     connectivity |-> 10, internal |-> 1]

Category == DOMAIN ExitCode

\* explicit_tty_mode without the machine clause
Tty_Json(i) == i.terminal /\ i.asked # "non-tty"

\* --tty cannot make a terminal of a pipe, and machine output never prompts
Tty(i) == i.terminal /\ i.asked # "non-tty" /\ ~i.json

\* the dispatcher without the exception for gated commands
OpensState_Eager(i) == ~(i.command \in Stateless)

\* The dispatcher opens no state that the gate of the handler would leave unused
OpensState(i) == ~(i.command \in Stateless \/ (i.command \in Prompting /\ ~Tty(i)))

Document(i) == IF i.json THEN "envelope" ELSE "view"

\* A closed pipe loses what is written
Written(kind) == {stdout, Append(stdout, kind)}

\* One file inside the root, named or found; two candidates are an error
Resolves(named, files) ==
    \/ named = "inside"
    \/ named = "none" /\ Cardinality(files) = 1

-----------------------------------------------------------------------------
(* Before the dispatch *)

\* A failure before the dispatch keeps its code also when the pipe is closed
EmitError(category) ==
    /\ stdout' \in Written(Document(inv))
    /\ code' = ExitCode[category]
    /\ error' = category
    /\ pc' = "done"
    /\ UNCHANGED <<db, rows, inv, shown, result, touched>>

Start ==
    /\ pc = "idle"
    /\ inv' \in Invocation
    /\ inv'.plan # 0 => inv'.command = "purge execute"
    /\ pc' = "parse"
    /\ UNCHANGED <<db, rows, shown, stdout, code, result, error, touched>>

\* --help and --version answer with text in every mode
Help ==
    /\ pc = "parse"
    /\ \E out \in Written("text") :
          /\ stdout' = out
          /\ code' = IF out = stdout THEN 1 ELSE 0
    /\ pc' = "done"
    /\ UNCHANGED <<db, rows, inv, shown, result, error, touched>>

ParseLine ==
    /\ pc = "parse"
    /\ \E valid \in BOOLEAN :
          IF valid THEN pc' = "input" /\ UNCHANGED <<db, rows, inv, shown, stdout, code, result, error, touched>>
          ELSE EmitError("usage")

\* Standard input is read to its end and every field is checked before the
\* configuration and the state are looked at
Checked(command) ==
    Envelope \union IF command \in OperationsCommand THEN OperationsFields[command]
                    ELSE MessagingFields[command]

ReadInput ==
    /\ pc = "input"
    /\ \E wrong \in {{}} \union {{field} : field \in Checked(inv.command)} :
          IF wrong = {} THEN pc' = "config" /\ UNCHANGED <<db, rows, inv, shown, stdout, code, result, error, touched>>
          ELSE EmitError("usage")

ResolveConfig ==
    /\ pc = "config"
    /\ \E named \in {"none", "inside", "outside"}, files \in SUBSET (0..Depth), valid \in BOOLEAN :
          IF Resolves(named, files) /\ valid
          THEN pc' = "open" /\ UNCHANGED <<db, rows, inv, shown, stdout, code, result, error, touched>>
          ELSE EmitError("usage")

OpenState ==
    /\ pc = "open"
    /\ \/ /\ OpensState(inv)
          /\ db' = TRUE
          /\ touched' = ~db
          /\ pc' = "gate"
          /\ UNCHANGED <<rows, inv, shown, stdout, code, result, error>>
       \/ /\ OpensState(inv)
          /\ EmitError("storage")
       \/ /\ ~OpensState(inv)
          /\ pc' = "gate"
          /\ UNCHANGED <<db, rows, inv, shown, stdout, code, result, error, touched>>

-----------------------------------------------------------------------------
(* The handler *)

Outcome(returned, category) ==
    /\ result' = returned
    /\ error' = category
    /\ pc' = "render"
    /\ UNCHANGED <<inv, shown, stdout, code>>

Refused(category) == Outcome("none", category) /\ UNCHANGED <<db, rows, touched>>

\* A delivery recorded as failed, unknown or to be retried, a workspace that is
\* not ready and an unhealthy state are results, not errors
Results(command) ==
    IF command \in {"send", "setup check", "state verify"} THEN {"good", "bad"} ELSE {"good"}

\* The handler returns a result and has written nothing
Return == \E returned \in Results(inv.command) :
    Outcome(returned, "none") /\ UNCHANGED <<db, rows, touched>>

Gate ==
    /\ pc = "gate"
    /\ IF inv.command \in Prompting /\ ~Tty(inv) THEN Refused("operator")
       ELSE pc' = "check" /\ UNCHANGED <<db, rows, inv, shown, stdout, code, result, error, touched>>

\* A fetch also needs a configured and enabled alias
Check ==
    /\ pc = "check"
    /\ \E ours, enabled \in BOOLEAN :
          IF \/ inv.command \in RepositoryBound /\ ~ours
             \/ inv.command = "inbox fetch" /\ ~enabled
          THEN Refused("usage")
          ELSE /\ pc' = IF inv.command \in Prompting THEN "preview" ELSE "work"
               /\ UNCHANGED <<db, rows, inv, shown, stdout, code, result, error, touched>>

ShowPrompt ==
    /\ shown' = rows
    /\ stdout' = Append(stdout, "prompt")
    /\ pc' = "prompt"
    /\ UNCHANGED <<db, rows, inv, code, result, error, touched>>

\* The plan is made again and must be the one the input names
PreviewPurge ==
    /\ pc = "preview"
    /\ inv.command = "purge execute"
    /\ \/ inv.plan = rows /\ ShowPrompt
       \/ inv.plan # rows /\ Refused("policy")
       \/ \E category \in {"usage", "storage", "policy"} : Refused(category)

PreviewActivation ==
    /\ pc = "preview"
    /\ inv.command = "policy activate"
    /\ ShowPrompt \/ \E category \in {"usage", "policy", "storage"} : Refused(category)

\* An override needs a finding, and no prompt is shown for an expired draft
PreviewDraft ==
    /\ pc = "preview"
    /\ inv.command \in {"draft approve", "draft secret-override"}
    /\ \E expired, clear \in BOOLEAN :
          IF expired \/ (clear /\ inv.command = "draft secret-override") THEN Refused("policy")
          ELSE ShowPrompt \/ \E category \in {"usage", "storage"} : Refused(category)

\* What is typed: the exact line, its first word with another hash or with
\* another identity, a word, nothing, or the end of the stream
Line == {"exact", "another hash", "another identity", "word", "blank", "end"}

\* A line names the identity of the shown preview or plan in full
OperationsResponse(line) ==
    CASE line = "exact" -> "confirmed"
      [] line = "another hash" -> "plan hash changed"
      [] line = "another identity" -> "scope mismatch"
      [] line = "word" -> "invalid"
      [] line = "blank" -> "defaulted"
      [] line = "end" -> "unavailable"

\* A line of an outbound prompt carries the hash of the preview only
OutboundResponse(line) ==
    CASE line = "exact" -> "confirmed"
      [] line = "another hash" -> "preview hash mismatch"
      [] line \in {"another identity", "word"} -> "invalid"
      [] line = "blank" -> "defaulted"
      [] line = "end" -> "unavailable"

Response(line) ==
    IF inv.command \in OperationsCommand THEN OperationsResponse(line) ELSE OutboundResponse(line)

\* Not confirming is the operator's answer; a wrong line is a usage error
Unconfirmed(response) ==
    IF response \in {"defaulted", "unavailable"} THEN "operator" ELSE "usage"

Answer ==
    /\ pc = "prompt"
    /\ \E line \in Line :
          IF Response(line) = "confirmed"
          THEN pc' = "work" /\ UNCHANGED <<db, rows, inv, shown, stdout, code, result, error, touched>>
          ELSE Refused(Unconfirmed(Response(line)))

Commit(returned, category) ==
    /\ rows < MaxRows
    /\ rows' = rows + 1
    /\ touched' = TRUE
    /\ Outcome(returned, category)
    /\ UNCHANGED db

\* A confirmed action commits as a whole or not at all; the purge plans again
\* in its transaction, the other three compute what they record anew, and an
\* approval may be there already
WorkPrompted ==
    /\ pc = "work"
    /\ inv.command \in Prompting
    /\ \/ inv.command = "purge execute" /\ rows # shown /\ Refused("policy")
       \/ (inv.command = "purge execute" => rows = shown) /\ Commit("good", "none")
       \/ inv.command = "draft approve" /\ Return
       \/ inv.command # "purge execute" /\ \E category \in {"usage", "policy", "conflict"} : Refused(category)
       \/ Refused("storage")

\* Commands that find done what they are asked for, and return it
Repeatable == {"send", "inbox acknowledge", "inbox archive"}

\* A writing command has several transactions and may fail after any of them
WorkWriting ==
    /\ pc = "work"
    /\ inv.command \in Writing
    /\ \/ \E returned \in Results(inv.command) : Commit(returned, "none")
       \/ inv.command \in Repeatable /\ Return
       \/ \E category \in Category : Commit("none", category)
       \/ \E category \in Category : Refused(category)

WorkReading ==
    /\ pc = "work"
    /\ inv.command \in Reading
    /\ \/ Return
       \/ \E category \in {"usage", "storage"} : Refused(category)

\* The setup check reads Discord and the verifier a copy of the state
WorkStateless ==
    /\ pc = "work"
    /\ inv.command \in Stateless
    /\ \/ Return
       \/ /\ inv.command = "setup check"
          /\ \E category \in {"authentication", "permission", "conflict", "connectivity"} : Refused(category)

\* exit_code that looks only at what could be rendered
OutcomeCode_Rendered == 0

\* The exit code of an outcome: zero with every result, whatever it says
OutcomeCode == IF result # "none" THEN 0 ELSE ExitCode[error]

\* Standard output is buffered by lines: a document without a line end is written
\* when the process ends, and nobody learns that it was lost
Render ==
    /\ pc = "render"
    /\ \E out \in Written(Document(inv)) :
          /\ stdout' = out
          /\ code' \in IF out = stdout THEN {1, OutcomeCode} ELSE {OutcomeCode}
    /\ pc' = "done"
    /\ UNCHANGED <<db, rows, inv, shown, result, error, touched>>

-----------------------------------------------------------------------------
(* The world around the invocation *)

\* Another invocation commits
Others ==
    /\ rows < MaxRows
    /\ rows' = rows + 1
    /\ db' = TRUE
    /\ UNCHANGED <<pc, inv, shown, stdout, code, result, error, touched>>

NoInvocation == [command |-> "config validate", json |-> FALSE, asked |-> "none",
                 terminal |-> FALSE, plan |-> 0]

\* The process ends, also where the operator stops it; the database stays
Ended ==
    /\ pc # "idle"
    /\ pc' = "idle" /\ inv' = NoInvocation
    /\ shown' = 0 /\ stdout' = <<>> /\ code' = 0
    /\ result' = "none" /\ error' = "none" /\ touched' = FALSE
    /\ UNCHANGED <<db, rows>>

Init ==
    /\ db = FALSE /\ rows = 0 /\ pc = "idle" /\ inv = NoInvocation
    /\ shown = 0 /\ stdout = <<>> /\ code = 0
    /\ result = "none" /\ error = "none" /\ touched = FALSE

Next ==
    \/ Start \/ Help \/ ParseLine \/ ReadInput \/ ResolveConfig \/ OpenState
    \/ Gate \/ Check \/ PreviewPurge \/ PreviewActivation \/ PreviewDraft \/ Answer
    \/ WorkPrompted \/ WorkWriting \/ WorkReading \/ WorkStateless
    \/ Render \/ Others \/ Ended

Spec == Init /\ [][Next]_vars

-----------------------------------------------------------------------------
(* Properties *)

TypeOK ==
    /\ db \in BOOLEAN /\ rows \in 0..MaxRows
    /\ pc \in {"idle", "parse", "input", "config", "open", "gate", "check", "preview",
               "prompt", "work", "render", "done"}
    /\ inv \in Invocation
    /\ shown \in 0..MaxRows
    /\ stdout \in Seq({"text", "prompt", "envelope", "view"})
    /\ code \in {0} \union {ExitCode[c] : c \in Category}
    /\ result \in {"none", "good", "bad"} /\ touched \in BOOLEAN
    /\ error \in Category \union {"none"}

\* A program that reads the output with --output json finds at most one
\* document there, whatever failed and at whichever terminal it runs: no
\* prompt and no human view is ever mixed in.
MachineReadsOneDocument ==
    inv.json => stdout \in {<<>>, <<"text">>, <<"envelope">>}

\* Automation cannot widen a permission or delete: without a terminal on both
\* streams such a command leaves no trace, not even an empty database.
AutomationLeavesNoTrace ==
    inv.command \in Prompting /\ (inv.json \/ ~inv.terminal \/ inv.asked = "non-tty")
        => ~touched /\ "prompt" \notin {stdout[k] : k \in DOMAIN stdout}

\* The exit code tells the caller how the handler ended: zero means that it
\* returned a result, or that text was asked for; and a handler that returned a
\* result ends in zero or, when the result was not written, in one, never in the
\* code of a refusal, which a caller takes for leave to repeat.  Zero says neither
\* that the result is good (a send of which nobody knows whether it reached
\* Discord ends in zero too) nor that it was written.
ExitTellsTheEnd ==
    pc = "done" =>
        /\ code = 0 => result # "none" \/ stdout = <<"text">>
        /\ result # "none" => code = 0 \/ (code = 1 /\ stdout \in {<<>>, <<"prompt">>})
=============================================================================
