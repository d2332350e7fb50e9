------------------------------- MODULE Setup -------------------------------
(***************************************************************************)
(* The setup check: a sequence of reads that asks the service who the bot   *)
(* is, whether it is a member of the workspace, which roles exist, and what*)
(* the overwrites of a channel leave of its permissions, and concludes     *)
(* whether a configuration can work.  Administrators change the workspace  *)
(* between any two reads.                                                  *)
(***************************************************************************)
EXTENDS Naturals, FiniteSets

CONSTANT MaxChanges     \* bound on the changes of the workspace

VARIABLES
    guild,      \* the workspace, at the service
    changes,    \* its changes so far
    uses,       \* what the configuration uses the channel and mentions for
    step,       \* the next read, "done" or "failed"
    context,    \* roles and permissions from the reads so far
    granted,    \* permissions in the channel, if it can be used
    issues,     \* what the report complains about
    moved       \* whether the workspace changed since the check began

vars == <<guild, changes, uses, step, context, granted, issues, moved>>

-----------------------------------------------------------------------------
(* Workspaces *)

Permission == {"view", "send", "history", "mention"}

Overwrite == {"everyone", "role", "bot"}

NoOverwrite == [allow |-> {}, deny |-> {}]

\* One role besides @everyone; the bot may have it
Healthy ==
    [dedicated |-> TRUE, member |-> TRUE, has_role |-> TRUE, role_exists |-> TRUE,
     mentionable |-> TRUE, user |-> TRUE, channel |-> "here", admin |-> FALSE,
     everyone |-> {"view", "send", "history"}, role |-> {"mention"},
     overwrites |-> [o \in Overwrite |-> NoOverwrite]]

\* The changes an administrator can make
Changed ==
    {[guild EXCEPT !.dedicated = FALSE], [guild EXCEPT !.member = ~guild.member],
     [guild EXCEPT !.has_role = FALSE], [guild EXCEPT !.mentionable = FALSE],
     [guild EXCEPT !.role_exists = FALSE, !.has_role = FALSE,
                   !.overwrites["role"] = NoOverwrite],
     [guild EXCEPT !.user = FALSE]}
    \union (IF guild.has_role THEN {[guild EXCEPT !.admin = TRUE]} ELSE {})
    \union {[guild EXCEPT !.channel = c] : c \in {"gone", "forbidden", "elsewhere"}}
    \union {[guild EXCEPT !.everyone = guild.everyone \ {p}] : p \in Permission}
    \union {[guild EXCEPT !.role = guild.role \union {p}] : p \in Permission}
    \union {[guild EXCEPT !.overwrites[o].allow = @ \union {p}, !.overwrites[o].deny = @ \ {p}] :
                o \in Overwrite, p \in Permission}
    \union {[guild EXCEPT !.overwrites[o].deny = @ \union {p}, !.overwrites[o].allow = @ \ {p}] :
                o \in Overwrite, p \in Permission}

-----------------------------------------------------------------------------
(* Permissions *)

\* apply_one
Apply(permissions, overwrite) ==
    (permissions \ overwrite.deny) \union overwrite.allow

\* permissions_for with the overwrite of the bot before those of its roles
PermissionsFor_BotFirst(ctx, overwrites) ==
    LET everyone == Apply(ctx.base, overwrites["everyone"])
        bot == Apply(everyone, overwrites["bot"])
    IN  IF ctx.admin THEN Permission
        ELSE IF ctx.has_role THEN Apply(bot, overwrites["role"]) ELSE bot

\* @everyone, then the roles of the bot, then the bot; an administrator skips them
PermissionsFor(ctx, overwrites) ==
    LET everyone == Apply(ctx.base, overwrites["everyone"])
        roles == IF ctx.has_role THEN Apply(everyone, overwrites["role"]) ELSE everyone
    IN  IF ctx.admin THEN Permission ELSE Apply(roles, overwrites["bot"])

\* What the aliases of the channel require
Required ==
    (IF "destination" \in uses THEN {"view", "send"} ELSE {})
    \union (IF "inbound" \in uses THEN {"view", "history"} ELSE {})

-----------------------------------------------------------------------------
(* The check *)

Begin ==
    /\ step \in {"done", "failed"}
    /\ step' = "identity"
    /\ context' = {} /\ granted' = {} /\ issues' = {} /\ moved' = FALSE
    /\ uses' \in {u \in SUBSET {"destination", "inbound", "role", "user", "self"} :
                    u \cap {"role", "user", "self"} # {} => "destination" \in u}
    /\ UNCHANGED <<guild, changes>>

ReadIdentity ==
    /\ step = "identity"
    /\ IF guild.dedicated
       THEN step' = "membership" /\ UNCHANGED issues
       ELSE step' = "done" /\ issues' = {"not a bot"}
    /\ UNCHANGED <<guild, changes, uses, context, granted, moved>>

\* The roles of the bot come with its membership
ReadMembership ==
    /\ step = "membership"
    /\ IF guild.member
       THEN step' = "guild" /\ context' = {[has_role |-> guild.has_role]} /\ UNCHANGED issues
       ELSE step' = "done" /\ issues' = {"not a member"} /\ UNCHANGED context
    /\ UNCHANGED <<guild, changes, uses, granted, moved>>

\* A role of the bot that the workspace no longer lists ends the check
ReadGuild ==
    /\ step = "guild"
    /\ \E member \in context :
        IF member.has_role /\ ~guild.role_exists
        THEN step' = "failed" /\ UNCHANGED context
        ELSE /\ step' = "channel"
             /\ context' =
                {[has_role |-> member.has_role, admin |-> member.has_role /\ guild.admin,
                  base |-> guild.everyone \union (IF member.has_role THEN guild.role ELSE {}),
                  role_exists |-> guild.role_exists, mentionable |-> guild.mentionable]}
    /\ UNCHANGED <<guild, changes, uses, granted, issues, moved>>

\* Each unavailable or insufficient use of the channel is an issue; a channel of
\* another workspace counts as unavailable
ReadChannel ==
    /\ step = "channel"
    /\ \E ctx \in context :
        LET permissions == PermissionsFor(ctx, guild.overwrites)
        IN  IF Required = {} THEN granted' = {} /\ UNCHANGED issues
            ELSE IF guild.channel # "here"
            THEN issues' = {"channel"} /\ UNCHANGED granted
            ELSE /\ issues' = Required \ permissions
                 /\ granted' = IF issues' = {} THEN permissions ELSE {}
    /\ step' = "mentions"
    /\ UNCHANGED <<guild, changes, uses, context, moved>>

\* Mentions are only looked at in a channel that can be used; a mention of the bot
\* itself ("self") is an issue whoever is a member
ReadMentions ==
    /\ step = "mentions"
    /\ \E ctx \in context :
        issues' = issues \union
            (IF granted = {} THEN {}
             ELSE (IF "role" \notin uses THEN {}
                   ELSE IF ~ctx.role_exists THEN {"role gone"}
                   ELSE (IF ctx.mentionable THEN {} ELSE {"not mentionable"})
                        \union ({"mention"} \ granted))
                  \union (IF "user" \in uses /\ ~guild.user THEN {"user gone"} ELSE {})
                  \union (IF "self" \in uses THEN {"mentions the bot"} ELSE {}))
    /\ step' = "done"
    /\ UNCHANGED <<guild, changes, uses, context, granted, moved>>

\* A read that is refused, limited or not answered ends the check with an error
ReadFails ==
    /\ step \notin {"done", "failed"}
    /\ step' = "failed"
    /\ UNCHANGED <<guild, changes, uses, context, granted, issues, moved>>

Administer ==
    /\ changes < MaxChanges
    /\ changes' = changes + 1
    /\ guild' \in Changed \ {guild}
    /\ moved' = TRUE
    /\ UNCHANGED <<uses, step, context, granted, issues>>

Init ==
    /\ guild = Healthy /\ changes = 0 /\ uses = {}
    /\ step = "failed" /\ context = {} /\ granted = {} /\ issues = {} /\ moved = FALSE

Next ==
    \/ Begin \/ ReadIdentity \/ ReadMembership \/ ReadGuild \/ ReadChannel
    \/ ReadMentions \/ ReadFails \/ Administer

Spec == Init /\ [][Next]_vars

-----------------------------------------------------------------------------
(* Properties *)

\* The service decides a permission from the most specific statement about it
Allowed(p) ==
    LET o == guild.overwrites
        role == IF guild.has_role THEN o["role"] ELSE NoOverwrite
    IN  \/ guild.admin /\ guild.has_role
        \/ p \in o["bot"].allow
        \/ /\ p \notin o["bot"].deny
           /\ \/ p \in role.allow
              \/ /\ p \notin role.deny
                 /\ \/ p \in o["everyone"].allow
                    \/ /\ p \notin o["everyone"].deny
                       /\ \/ p \in guild.everyone
                          \/ guild.has_role /\ p \in guild.role

\* What the configuration asks for is there
Usable ==
    /\ guild.dedicated /\ guild.member
    /\ Required # {} => guild.channel = "here"
    /\ \A p \in Required : Allowed(p)
    /\ "role" \in uses => guild.role_exists /\ guild.mentionable /\ Allowed("mention")
    /\ "user" \in uses => guild.user
    /\ "self" \notin uses

\* A check during which nothing changed calls a configuration ready exactly when
\* the service would let the bot do all of it (SetupReport::ready, permissions_for).
ReadyIsUsable ==
    step = "done" /\ ~moved => (issues = {} <=> Usable)

=============================================================================
