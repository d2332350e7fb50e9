--------------------------- MODULE Configuration ---------------------------
(***************************************************************************)
(* The configuration file of a repository, edited one line at a time, and   *)
(* the invocations that load it: the shape of the document, the references *)
(* between its tables, the resolution of its aliases, and the canonical    *)
(* hash that approvals and activations are bound to.                       *)
(***************************************************************************)
EXTENDS Naturals, Sequences, FiniteSets, SequencesExt

CONSTANTS
    Alias,      \* names of destinations, mentions and inbound channels
    Target,     \* what a mention can name, {"role:1", ...}; others are malformed
    MaxEdits    \* bound on the edits of the file

VARIABLES
    file,       \* the document
    edits,      \* the edits so far
    config,     \* the configuration that the last invocation accepted, or {}
    earlier,    \* the one that the invocation before it accepted, or {}
    index,      \* mention targets known to belong to another workspace
    error       \* the error of the last load, "none" without one

vars == <<file, edits, config, earlier, index, error>>

-----------------------------------------------------------------------------
(* Documents *)

\* The tables, in the order in which their shape is checked
Tables == <<"root", "discord", "destinations", "mentions", "inbound", "retention", "auto_send">>

\* What can be wrong with the keys and the types of a table
ShapeFault ==
    [secret |-> "secret-field", raw |-> "raw-destination-field", unknown |-> "unknown-field",
     missing |-> "missing-field", type |-> "invalid-field-type"]

\* allowed_mentions is a list, and so is auto_send
Lists(S) == {<<>>} \union {<<x>> : x \in S} \union {<<x, y>> : x, y \in S}

Tuple == [event : {"build"}, destination : Alias, severity : {"info", "*"}]

Base ==
    [syntax |-> TRUE, faults |-> {}, identity |-> TRUE, workspace |-> TRUE,
     destinations |-> [alias \in {} |-> <<>>], malformed |-> {},
     mentions |-> [alias \in {} |-> "empty"], inbound |-> [alias \in {} |-> TRUE],
     retention |-> [content |-> 30, metadata |-> 365], auto_send |-> <<>>]

\* validate_config without the search for repeated entries
NoRepeat_Any(list) == TRUE

\* No entry of a list occurs twice
NoRepeat(list) == \A i, j \in DOMAIN list : list[i] = list[j] => i = j

-----------------------------------------------------------------------------
(* Loading *)

\* Secret-like keys are looked for in the whole document first
ShapeError(doc) ==
    LET faulty == SelectSeq(Tables, LAMBDA t : \E f \in doc.faults : f[2] = t)
        first == CHOOSE f \in doc.faults : f[2] = faulty[1]
    IN  IF ~doc.syntax THEN "invalid-toml"
        ELSE IF \E f \in doc.faults : f[1] = "secret" THEN "secret-field"
        ELSE IF \E f \in doc.faults : f[2] # "auto_send" THEN ShapeFault[first[1]]
        ELSE IF 0 \in {doc.retention.content, doc.retention.metadata} THEN "invalid-retention"
        ELSE IF doc.faults # {} THEN ShapeFault[first[1]]
        ELSE "none"

\* A disabled inbound alias names a channel as well
InboundConfigured(doc) == DOMAIN doc.inbound \subseteq DOMAIN doc.destinations

\* The references of a document of the right shape that do not hold
ReferenceChecks(doc) ==
    LET destinations == DOMAIN doc.destinations
    IN  {check \in
          {<<"invalid-repository-id", doc.identity>>,
           <<"invalid-workspace-id", doc.workspace>>,
           <<"invalid-channel-id", doc.malformed \cap destinations = {}>>,
           <<"duplicate-alias", \A d \in destinations : NoRepeat(doc.destinations[d])>>,
           <<"missing-mention-alias", \A d \in destinations :
                Range(doc.destinations[d]) \subseteq DOMAIN doc.mentions>>,
           <<"invalid-mention-target", \A m \in DOMAIN doc.mentions : doc.mentions[m] \in Target>>,
           <<"unconfigured-inbound-alias", InboundConfigured(doc)>>,
           <<"invalid-auto-send", \A t \in Range(doc.auto_send) : t.severity # "*">>,
           <<"unknown-destination-alias", \A t \in Range(doc.auto_send) :
                t.destination \in destinations>>,
           <<"duplicate-auto-send", NoRepeat(doc.auto_send)>>} : ~check[2]}

\* A known reference to another workspace fails, an unknown one is left open
WorkspaceError(doc) ==
    IF \E m \in DOMAIN doc.mentions : doc.mentions[m] \in index
    THEN "cross-workspace-reference" ELSE "none"

\* The error that the loader reports is the first; which of several broken
\* references comes first is left open
LoadErrors(doc) ==
    IF ShapeError(doc) # "none" THEN {ShapeError(doc)}
    ELSE IF ReferenceChecks(doc) # {} THEN {check[1] : check \in ReferenceChecks(doc)}
    ELSE {WorkspaceError(doc)}

-----------------------------------------------------------------------------
(* What a configuration means *)

\* The channel and the mentions that a message to the alias may use; nothing for
\* an alias or a mention that is not there
ResolveDestination(doc, alias) ==
    {[channel |-> alias, mentions |-> {doc.mentions[m] : m \in Range(doc.destinations[alias])}] :
        found \in {d \in {alias} \cap DOMAIN doc.destinations :
                    Range(doc.destinations[d]) \subseteq DOMAIN doc.mentions}}

\* An inbound alias reads the channel of the destination of the same name
ResolveInbound(doc, alias) ==
    {[channel |-> d, enabled |-> doc.inbound[alias]] :
        d \in {alias} \cap DOMAIN doc.destinations}

\* How often each entry of a list occurs: a sorted list, without its order
Sorted(list) ==
    [x \in Range(list) |-> Cardinality({i \in DOMAIN list : list[i] = x})]

\* The canonical form, which the hash is taken of, sorts the lists
Canonical(doc) ==
    [doc EXCEPT !.faults = {}, !.malformed = {},
                !.destinations = [d \in DOMAIN doc.destinations |-> Sorted(doc.destinations[d])],
                !.auto_send = Sorted(doc.auto_send)]

\* What the program can tell apart: the tuples it may send without a review, the
\* mentions an alias may use, what it reads and what it keeps
Meaning(doc) ==
    <<[d \in DOMAIN doc.destinations |-> Range(doc.destinations[d])], doc.mentions,
      doc.inbound, doc.retention, Range(doc.auto_send)>>

-----------------------------------------------------------------------------
(* Edits and loads *)

\* One line of the file
Edited ==
    {[file EXCEPT !.syntax = FALSE], [file EXCEPT !.identity = FALSE],
     [file EXCEPT !.workspace = FALSE], [file EXCEPT !.retention.content = 0],
     [file EXCEPT !.retention.metadata = 0], [file EXCEPT !.retention.content = 7]}
    \union {[file EXCEPT !.faults = {<<kind, table>>}] :
                kind \in DOMAIN ShapeFault, table \in Range(Tables)}
    \union {[file EXCEPT !.malformed = {alias}] : alias \in Alias}
    \union {[file EXCEPT !.destinations =
                [d \in DOMAIN file.destinations \union {alias} |->
                    IF d = alias THEN list ELSE file.destinations[d]]] :
                alias \in Alias, list \in Lists(Alias)}
    \union {[file EXCEPT !.destinations =
                [d \in DOMAIN file.destinations \ {alias} |-> file.destinations[d]]] :
                alias \in Alias}
    \union {[file EXCEPT !.mentions =
                [m \in DOMAIN file.mentions \union {alias} |->
                    IF m = alias THEN target ELSE file.mentions[m]]] :
                alias \in Alias, target \in Target \union {"channel:1"}}
    \union {[file EXCEPT !.mentions = [m \in DOMAIN file.mentions \ {alias} |-> file.mentions[m]]] :
                alias \in Alias}
    \union {[file EXCEPT !.inbound =
                [a \in DOMAIN file.inbound \union {alias} |->
                    IF a = alias THEN enabled ELSE file.inbound[a]]] :
                alias \in Alias, enabled \in BOOLEAN}
    \union {[file EXCEPT !.auto_send = list] : list \in Lists(Tuple)}

Edit ==
    /\ edits < MaxEdits
    /\ edits' = edits + 1
    /\ file' \in Edited \ {file}
    /\ UNCHANGED <<config, earlier, index, error>>

\* A setup check tells the workspace of a mention
Learn ==
    \E target \in Target :
        /\ index = {}
        /\ index' = {target}
        /\ UNCHANGED <<file, edits, config, earlier, error>>

\* One invocation reads the whole file once
Load ==
    /\ error' \in LoadErrors(file)
    /\ IF error' = "none"
       THEN config' = {file} /\ earlier' = config
       ELSE UNCHANGED <<config, earlier>>
    /\ UNCHANGED <<file, edits, index>>

Init ==
    /\ file = [Base EXCEPT !.destinations = [d \in Alias |-> <<>>],
                           !.mentions = [m \in Alias |-> CHOOSE t \in Target : TRUE]]
    /\ edits = 0 /\ config = {} /\ earlier = {} /\ index = {} /\ error = "none"

Next == Edit \/ Learn \/ Load

Spec == Init /\ [][Next]_vars

-----------------------------------------------------------------------------
(* Properties *)

\* An approval or an activation that is bound to the hash survives exactly the
\* edits that change nothing the program does (canonical_hash, validate_config).
HashIsMeaning ==
    \A new \in config, old \in earlier :
        Canonical(new) = Canonical(old) <=> Meaning(new) = Meaning(old)

=============================================================================
