------------------------------ MODULE QueryCache ------------------------------
(***************************************************************************)
(* The screens of the web application (apps/web/lib/hooks): every screen   *)
(* shows a query of the cache under a key, every mutation names, when it   *)
(* has succeeded, the keys whose queries are to be fetched again, and a    *)
(* key stands for all the keys it is a prefix of.  One screen is followed, *)
(* while its page comes and goes, with the mutations of the same browser   *)
(* that write what it shows and with those of other people.                *)
(*                                                                         *)
(* Of a row only its writes are kept: a screen shows the state after the   *)
(* n-th of those that concern it.  The pickers and the counters of the     *)
(* dashboard, which no mutation names, and the drags, which BoardCache     *)
(* models, are left out.  The cache itself is a library.                   *)
(***************************************************************************)
EXTENDS Naturals, Sequences

CONSTANTS
    None,
    Caller,      \* mutations that may be under way at once
    MaxWrites,   \* bound on the writes that concern the screen
    MaxFaults    \* bound on refused and lost calls

VARIABLES
    screen,      \* the screen: its key and the rows it shows
    version,     \* the writes of those rows so far
    shown,       \* the state in the cache, None before the first fetch
    stale,       \* whether the query is invalidated
    watched,     \* whether the screen is on the page
    pull,        \* its fetch
    call,        \* the mutations
    owed,        \* the state that a mutation, answered, has promised the screen
    faults

vars == <<screen, version, shown, stale, watched, pull, call, owed, faults>>
--------------------------------------------------------------------------------
(* What the hooks show, write and name, by area.                           *)

Screen(key, reads) == [key |-> key, reads |-> reads]
Hook(name, writes, names) == [name |-> name, writes |-> writes, names |-> names]

\* One list, which all the mutations of its rows name.
Plain(key, rows) ==
    [shows |-> {Screen(key, {rows})}, does |-> {Hook(rows, {rows}, {key})}]

Departments == Plain(<<"admin", "departments">>, "departments")
Statuses == Plain(<<"admin", "statuses">>, "statuses")
Priorities == Plain(<<"admin", "priorities">>, "priorities")
TicketTypes == Plain(<<"admin", "ticket-types">>, "types")
Workflows == Plain(<<"admin", "workflows">>, "workflows")
CustomFields == Plain(<<"admin", "custom-field-groups">>, "fields")
FollowUps == Plain(<<"follow-ups", "list", "id">>, "follow-ups")
SavedViews == Plain(<<"saved-views">>, "views")
TimeEntries == Plain(<<"time-entries", "id">>, "entries")

SlaKey(part) == <<"admin", "sla", part>>

\* Plans and schedules; a schedule that is deleted is taken out of its plans.
SlaPlans ==
    [shows |-> {Screen(SlaKey("plans"), {"plans", "rules"}), Screen(SlaKey("schedules"), {"schedules"})},
     does |-> {Hook("plan", {"plans"}, {SlaKey("plans")}),
               Hook("schedule", {"schedules"}, {SlaKey("schedules")}),
               Hook("useDeleteSlaSchedule", {"schedules", "plans"}, {SlaKey("schedules")})}]

Holidays == Plain(<<"admin", "sla", "holidays", "id">>, "holidays")

\* Mutant: only the list of the plan that is open.
EscalationRulesOfPlan ==
    Plain(<<"admin", "sla", "escalation-rules", "id">>, "rules")

\* A plan is listed with its rules.
EscalationRules ==
    LET rules == <<"admin", "sla", "escalation-rules", "id">>
    IN [shows |-> {Screen(rules, {"rules"})}, does |-> {Hook("rule", {"rules"}, {rules, SlaKey("plans")})}]

StaffKey == <<"admin", "staff">>
AuditKey == <<"admin", "rbac", "audit">>

\* The lists of groups and of the audit have longer keys than these.
StaffMembers ==
    [shows |-> {Screen(<<"admin", "staff", "filter">>, {"staff"}),
                Screen(<<"admin", "rbac", "audit", "page", "limit">>, {"audit"})},
     does |-> {Hook("staff", {"staff", "audit"}, {StaffKey, AuditKey})}]
StaffGroups ==
    LET groups == <<"admin", "staff", "groups">>
    IN [shows |-> {Screen(groups, {"groups"})},
        does |-> {Hook("group", {"groups", "audit"}, {groups, AuditKey})}]

\* Macros without a category in the filter have a key of their own, "undefined".
MacroKey(category) == <<"admin", "macros", category>>
MacroCategories ==
    LET categories == <<"admin", "macro-categories">>
    IN [shows |-> {Screen(categories, {"categories"})},
        does |-> {Hook("category", {"categories"}, {categories}),
                  Hook("useDeleteMacroCategory", {"categories", "macros"}, {categories})}]
Macros ==
    [shows |-> {Screen(MacroKey("undefined"), {"macros"}), Screen(MacroKey("id"), {"macros"})},
     does |-> {Hook("macro", {"macros"}, {MacroKey("undefined")})}]

\* Mailboxes, their health, and the mail that waits for an operator.
MailKey(part) == <<"admin", part>>
Mailboxes ==
    LET both == {MailKey("email-queues"), MailKey("inbound-health")}
    IN [shows |-> {Screen(MailKey("email-queues"), {"queues"}),
                   Screen(MailKey("inbound-health"), {"queues", "quarantine", "captured"})},
        does |-> {Hook("queue", {"queues"}, both)}]
WaitingMail(part, rows) ==
    [shows |-> {Screen(<<"admin", part, "filters">>, {rows}), Screen(<<"admin", part, "id">>, {rows})},
     does |-> {Hook(rows, {rows}, {MailKey(part), MailKey("inbound-health")})}]
Quarantine == WaitingMail("inbound-quarantine", "quarantine")
Captured == WaitingMail("inbound-captured", "captured")
WorkflowEvents ==
    LET events == MailKey("workflow-email-events")
        health == MailKey("workflow-email-health")
    IN [shows |-> {Screen(<<"admin", "workflow-email-events", "filters">>, {"events"}), Screen(health, {"events"}),
                   Screen(<<"admin", "workflow-email-event", "id">>, {"events"})},
        does |-> {Hook("useReplayWorkflowEmailEvent", {"events"}, {events, health})}]

\* One ticket, and the lists that it is in.
TicketLists == <<"tickets", "list">>
Listed == <<"tickets", "list", "params">>
Detail == <<"tickets", "detail", "id">>
PartKey(part) == <<"tickets", "id", part>>
Tickets ==
    [shows |-> {Screen(Listed, {"tickets", "ticket", "tags"}),
                Screen(Detail, {"ticket", "posts", "tags", "mails"}), Screen(PartKey("replies"), {"posts"})},
     does |-> {Hook("useCreateTicket", {"tickets"}, {TicketLists}),
               Hook("useBulkTicketAction", {"ticket"}, {<<"tickets">>}),
               Hook("useReply", {"ticket", "posts", "mails"}, {PartKey("replies"), Detail}),
               Hook("useRetryOutboundEmail", {"mails"}, {Detail, PartKey("replies")}),
               Hook("useUpdateTicket", {"ticket"}, {Detail, TicketLists}),
               Hook("useChangeTicketDepartment", {"ticket", "watchers"}, {Detail, TicketLists}),
               Hook("useApplyMacro", {"ticket", "posts", "mails"}, {PartKey("replies"), Detail, TicketLists}),
               Hook("useTicketTags", {"tags"}, {Detail, TicketLists}),
               Hook("useMergeTicket", {"ticket", "posts"}, {Detail, TicketLists}),
               Hook("useSplitTicket", {"tickets", "ticket", "posts"}, {TicketLists})}]
TicketLinks ==
    [shows |-> {Screen(PartKey("links"), {"links"})},
     does |-> {Hook("link", {"links"}, {PartKey("links")}),
               Hook("spawnSupplier", {"links", "tickets"}, {PartKey("links")})}]
Watchers == Plain(PartKey("watchers"), "watchers")
Recipients == Plain(PartKey("recipients"), "recipients")

\* The customer's own tickets.
Portal ==
    LET own == <<"client-tickets", "detail", "id">>
    IN [shows |-> {Screen(<<"client-tickets", "list">>, {"own"}), Screen(own, {"own", "own-posts"})},
        does |-> {Hook("useClientReply", {"own", "own-posts"}, {own})}]

Areas ==
    {Departments, Statuses, Priorities, TicketTypes, Workflows, CustomFields, FollowUps, SavedViews, TimeEntries,
     SlaPlans, Holidays, EscalationRules, StaffMembers, StaffGroups, MacroCategories, Macros,
     Mailboxes, Quarantine, Captured, WorkflowEvents, Tickets, TicketLinks, Watchers, Recipients, Portal}
Screens == UNION {a.shows : a \in Areas}
Hooks == UNION {a.does : a \in Areas}

\* What the mutations change without naming it: these screens wait for their age.
Overlooked ==
    {<<"useDeleteSlaSchedule", SlaKey("plans")>>, <<"useDeleteMacroCategory", MacroKey("undefined")>>,
     <<"useDeleteMacroCategory", MacroKey("id")>>, <<"macro", MacroKey("id")>>,
     <<"useReplayWorkflowEmailEvent", <<"admin", "workflow-email-event", "id">> >>,
     <<"useReply", Listed>>, <<"spawnSupplier", Listed>>,
     <<"useChangeTicketDepartment", PartKey("watchers")>>,
     <<"useMergeTicket", PartKey("replies")>>, <<"useSplitTicket", Detail>>, <<"useSplitTicket", PartKey("replies")>>,
     <<"useClientReply", <<"client-tickets", "list">> >>}
--------------------------------------------------------------------------------
(* The query of the screen in the cache.                                   *)

NoPull == [pc |-> "none"]
Sent == [pc |-> "sent", passed |-> FALSE]
Idle == [pc |-> "idle"]

Init ==
    /\ screen \in Screens
    /\ version = 0
    /\ shown = None
    /\ stale = FALSE
    /\ watched = FALSE
    /\ pull = NoPull
    /\ call = [c \in Caller |-> Idle]
    /\ owed = 0
    /\ faults = 0

Faulty == faults < MaxFaults /\ faults' = faults + 1

\* The screen is mounted: it joins a fetch that runs, or starts one when it has
\* no data, invalidated data, or data older than staleTime.
Watch ==
    /\ ~watched /\ watched' = TRUE
    /\ \E aged \in BOOLEAN :
        pull' = IF pull = NoPull /\ (shown = None \/ stale \/ aged) THEN Sent ELSE pull
    /\ UNCHANGED <<screen, version, shown, stale, call, owed, faults>>

Leave ==
    /\ watched /\ watched' = FALSE
    /\ UNCHANGED <<screen, version, shown, stale, pull, call, owed, faults>>

\* Data that nobody has watched for a while is dropped.
Forget ==
    /\ ~watched /\ pull = NoPull /\ shown # None
    /\ shown' = None
    /\ stale' = FALSE
    /\ UNCHANGED <<screen, version, watched, pull, call, owed, faults>>

\* refetchInterval, and the window that comes back.
Refresh ==
    /\ watched /\ pull = NoPull
    /\ pull' = Sent
    /\ UNCHANGED <<screen, version, shown, stale, watched, call, owed, faults>>

PullReads ==
    /\ pull.pc = "sent"
    /\ pull' = [pc |-> "read", passed |-> pull.passed, data |-> version]
    /\ UNCHANGED <<screen, version, shown, stale, watched, call, owed, faults>>

\* Data counts as fresh however old the request was: of a fetch that an
\* invalidation has passed, nothing can be promised.
PullLands ==
    /\ pull.pc = "read"
    /\ shown' = pull.data
    /\ stale' = FALSE
    /\ pull' = NoPull
    /\ owed' = IF pull.passed THEN 0 ELSE owed
    /\ UNCHANGED <<screen, version, watched, call, faults>>

\* The retry is used up.
PullFails ==
    /\ pull # NoPull /\ Faulty
    /\ pull' = NoPull
    /\ UNCHANGED <<screen, version, shown, stale, watched, call, owed>>

\* invalidateQueries fetches again what is watched; a first fetch is not
\* cancelled for it, nor is one that nobody watches any more.
Invalidate ==
    /\ stale' = TRUE
    /\ pull' = IF watched /\ (pull = NoPull \/ shown # None) THEN Sent
               ELSE IF pull # NoPull THEN [pull EXCEPT !.passed = TRUE]
               ELSE pull
--------------------------------------------------------------------------------
(* The mutations that write a row of the screen.                           *)

Goes(c, step) == call' = [call EXCEPT ![c] = step]

\* partialMatchKey of the library.
Covers(key, k) == Len(key) <= Len(k) /\ \A i \in 1 .. Len(key) : key[i] = k[i]

\* The hook names the key of the screen.
Names(h, k) == \E key \in h.names : Covers(key, k)

Mutate(c) ==
    /\ call[c] = Idle
    /\ \E h \in Hooks : h.writes \cap screen.reads # {} /\ Goes(c, [pc |-> "sent", hook |-> h])
    /\ UNCHANGED <<screen, version, shown, stale, watched, pull, owed, faults>>

Write(c) ==
    /\ call[c].pc = "sent" /\ version < MaxWrites
    /\ version' = version + 1
    /\ Goes(c, [pc |-> "done", hook |-> call[c].hook, at |-> version'])
    /\ UNCHANGED <<screen, shown, stale, watched, pull, owed, faults>>

\* onSuccess
Answer(c) ==
    LET h == call[c].hook
    IN /\ call[c].pc = "done"
       /\ IF Names(h, screen.key) THEN Invalidate ELSE UNCHANGED <<stale, pull>>
       /\ owed' = IF <<h.name, screen.key>> \in Overlooked \/ call[c].at < owed THEN owed ELSE call[c].at
       /\ Goes(c, Idle)
       /\ UNCHANGED <<screen, version, shown, watched, faults>>

\* The server refuses, or its answer is lost: onSuccess is not called.
Fail(c) ==
    /\ call[c] # Idle /\ Faulty
    /\ Goes(c, Idle)
    /\ UNCHANGED <<screen, version, shown, stale, watched, pull, owed>>

\* Somebody else writes a row.
Elsewhere ==
    /\ version < MaxWrites
    /\ version' = version + 1
    /\ UNCHANGED <<screen, shown, stale, watched, pull, call, owed, faults>>

Next ==
    \/ Watch \/ Leave \/ Forget \/ Refresh \/ PullReads \/ PullLands \/ PullFails \/ Elsewhere
    \/ \E c \in Caller : Mutate(c) \/ Write(c) \/ Answer(c) \/ Fail(c)

Spec == Init /\ [][Next]_vars
--------------------------------------------------------------------------------
\* use-admin.ts, use-mail.ts, use-tickets.ts: a screen on the page that counts as
\* fresh, with nothing under way for it, shows every write that this browser was
\* told of, whichever hook made it, for every screen that the hook does not overlook.
ScreensKeepUp ==
    watched /\ pull = NoPull /\ ~stale /\ shown # None => shown >= owed
================================================================================
