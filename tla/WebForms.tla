------------------------------- MODULE WebForms -------------------------------
(***************************************************************************)
(* The forms of the web application: the dialogs of the administration     *)
(* pages and the panels and composers of a ticket.  A form is opened on a  *)
(* row of a list, which may be stale, is typed into, closed, and sent      *)
(* while earlier requests of it, other people's writes and refetches of    *)
(* the list are under way.                                                 *)
(*                                                                         *)
(* A row has the value of the inputs of its form and the value that is     *)
(* kept beside them in a state of its own; values are numbered as they are *)
(* typed.  Texts, validation beyond "required" and layout are left out.    *)
(***************************************************************************)
EXTENDS Naturals

CONSTANTS
    None,
    Row,          \* the rows of the list, as numbers from 1
    Call,         \* the requests of the page, as numbers in the order they are sent
    FieldsOnly,   \* whether the form is the one of the custom fields
    MaxOpenings,  \* bound on openings of the form
    MaxTyped,     \* bound on values typed into the form
    MaxWrites,    \* bound on other people's edits of the rows
    MaxFaults     \* bound on lost and refused requests

VARIABLES
    form,     \* the form
    row,      \* the rows of the server: version, existence and value of each part
    list,     \* the list of the page
    dialog,   \* the form on the screen
    call,     \* the requests
    latest,   \* of each mutation hook, the request it shows as pending
    count,    \* openings, values typed, edits elsewhere
    made,     \* openings that have made a row
    blind,    \* openings that missed an answer
    harm,     \* the promises that have been broken
    faults

vars == <<form, row, list, dialog, call, latest, count, made, blind, harm, faults>>
--------------------------------------------------------------------------------
(* What the forms are.                                                     *)

Blank == 0
Odd == 99                       \* a value of a row that the form has no input for
Part == {"fields", "beside"}
Nothing == [p \in Part |-> Blank]

\* does: what it can do.  sends: the parts it sends, of which it loads some from the
\* row and keeps some when it is opened again.  odd: parts that can be odd.
\* toggles: what a switch in the list sends of the row beside the switch.
Dialog(does, sends, ways) ==
    [does |-> does, sends |-> sends, loads |-> sends, keeps |-> {}, odd |-> {}, toggles |-> {}, ways |-> ways]

\* A panel writes something new; what was typed stays while it is closed.
Panel(sends, ways) == [Dialog({"create"}, sends, ways) EXCEPT !.loads = {}, !.keeps = sends]

\* An act on a row asks for a reason, which is always typed anew.
Act(ways) == [Dialog({"edit"}, {"fields"}, ways) EXCEPT !.loads = {}]

Edits == {"create", "edit", "delete"}
Fields == {"fields"}

\* guarded: no second request while one is pending.  held: nor another opening, switch
\* or deletion.  shut: nor may it be closed.  frozen: nor typed into.
\* versioned: the server refuses what was opened on another version, and the form
\* closes for it.  inline: always open.  latest: only the last request is answered.
\* mounted: guarded by a hook of the opening, not of the page.  repeats: a deletion asks
\* nothing of the one before.
GuardedDialog == {"guarded"}
DeletesAgain == {"repeats"}
--------------------------------------------------------------------------------
\* Plans of service levels, with their schedules, rules and holidays.
PlanDialog == GuardedDialog
Plans == Dialog(Edits, Fields, PlanDialog)

\* The hours of a week are kept beside the form; a row without any shows the default.
WorkHours == {"beside"}
WorkHoursEditor == {"beside"}
ScheduleDialog == GuardedDialog \cup DeletesAgain
Schedules == [Dialog(Edits, Fields \cup WorkHoursEditor, ScheduleDialog) EXCEPT !.odd = WorkHours]

\* The actions of a rule are kept beside the form.
ActionsBuilder == {"beside"}
RuleDialog == GuardedDialog
Rules == Dialog(Edits, Fields \cup ActionsBuilder, RuleDialog)

HolidayDialog == GuardedDialog
Holidays == Dialog(Edits, Fields, HolidayDialog)

\* The conditions and actions of a workflow; an action of several keys shows as one text.
\* The switch in the list sends the title along.
ActionPickers == {"beside"}
WorkflowList == Fields
WorkflowDialog == GuardedDialog
Workflows == [Dialog(Edits \cup {"toggle"}, Fields \cup ActionPickers, WorkflowDialog)
                  EXCEPT !.odd = ActionPickers, !.toggles = WorkflowList]

MacroDialog == GuardedDialog
Macros == [Dialog(Edits, Fields \cup ActionPickers, MacroDialog) EXCEPT !.odd = ActionPickers]
RenameCategory == Dialog({"edit"}, Fields, {"mounted"})
NewCategory == Panel(Fields, {"guarded", "inline"})

\* The survey and the icon of a status are inputs that the opening leaves blank.
StatusDialog == GuardedDialog
Statuses == [Dialog(Edits, Part, StatusDialog) EXCEPT !.loads = Fields]
PriorityDialog == GuardedDialog
Priorities == Dialog(Edits, Fields, PriorityDialog)
TicketTypeDialog == GuardedDialog
TicketTypes == Dialog(Edits, Fields, TicketTypeDialog)
DepartmentDialog == GuardedDialog
Departments == Dialog(Edits, Fields, DepartmentDialog)

\* The template of a new group is chosen beside the form; the rights of a group are
\* saved as a whole list.
GroupDialog == GuardedDialog
NewGroup == Dialog({"create"}, Part, GroupDialog)
RenameGroup == Dialog({"edit", "delete"}, Fields, GuardedDialog)
GroupRights == Dialog({"edit"}, {"beside"}, GuardedDialog)
StaffDialog == GuardedDialog
StaffMembers == Dialog(Edits, Fields, StaffDialog)

\* A field's title is required; the rest of it is the other part.
FieldGroups == Dialog(Edits, Fields, GuardedDialog \cup DeletesAgain)
FieldDialog == [Dialog(Edits, Part, GuardedDialog \cup DeletesAgain) EXCEPT !.keeps = Part]

\* Mailboxes, and what an operator does to one and to the mail that waits.
QueueList == {"held"}
QueueDialog == {"guarded", "shut", "frozen", "versioned"}
Queues == Dialog(Edits \cup {"toggle"}, Fields, QueueDialog \cup QueueList)
ReconcileDialog == {"guarded", "held", "versioned", "latest"}
Reconcile == Act(ReconcileDialog)
ReplayDialog == {"guarded", "held", "versioned", "latest"}
Replay == Act(ReplayDialog)
PromotionDialog == {"guarded", "held", "shut", "versioned", "latest"}
Promotion == Act(PromotionDialog)
WorkflowReplayDialog == {"guarded", "held", "versioned", "latest"}
WorkflowReplay == Act(WorkflowReplayDialog)

\* The page of a ticket. The Enter key of some panels asks nothing of the button.
Reply == Panel(Part, {"guarded", "inline"})
Note == Panel(Part, {"guarded", "inline"})
RetryMail == Dialog({"edit"}, {}, {"guarded", "shut"})
FollowUps == Panel(Part, {"guarded", "inline", "latest"})
TimeEntries == Panel(Part, {"guarded", "inline", "latest"})
Links == Panel(Fields, {"inline", "latest"})
SupplierTicket == Panel(Fields, {"guarded", "latest"})
Merge == Panel(Fields, {"latest"})
Split == [Panel(Part, {"guarded", "latest"}) EXCEPT !.keeps = Fields]
Recipients == Panel(Fields, {"inline", "latest"})
Watchers == Panel(Fields, {"inline", "latest"})
SavedViews == [Panel(Fields, {"latest"}) EXCEPT !.keeps = {}]
ClientReply == Panel(Part, {"guarded", "inline"})

Forms ==
    {Plans, Schedules, Rules, Holidays, Workflows, Macros, RenameCategory, NewCategory,
     Statuses, Priorities, TicketTypes, Departments, NewGroup, RenameGroup, GroupRights, StaffMembers, FieldGroups,
     Queues, Reconcile, Replay, Promotion, WorkflowReplay,
     Reply, Note, RetryMail, FollowUps, TimeEntries, Links, SupplierTicket, Merge, Split, Recipients, Watchers,
     SavedViews, ClientReply}
--------------------------------------------------------------------------------
Idle == [pc |-> "idle"]
Over == [pc |-> "over"]
Hook == {"create", "update", "delete"}
HookOf(op) == IF op \in {"create", "delete"} THEN op ELSE "update"

Is(way) == way \in form.ways
Pending == \E h \in Hook : latest[h] # None /\ (h = "delete" => Is("held"))
PendsHere == \E h \in Hook : latest[h] # None /\ call[latest[h]].id = dialog.id

\* A guarded form makes one row of one opening, but for an answer that was lost; the
\* answer of a held or shut one closes no other; a frozen one loses nothing that was
\* typed; a versioned one writes over nothing that the user has not seen.
Promise ==
    {h \in {"twice", "dialog", "text", "unseen"} :
        CASE h = "twice" -> Is("guarded")
          [] h = "dialog" -> Is("held") \/ Is("shut")
          [] h = "text" -> Is("frozen")
          [] h = "unseen" -> Is("versioned")}
Broken(h, when) == IF when THEN {h} \cap Promise ELSE {}

\* Nothing typed: the inputs of a form that has just been mounted, or cleared.
Cleared(open, id) == [open |-> open, on |-> None, seen |-> None, val |-> Nothing, touched |-> {}, id |-> id]

Init ==
    /\ form \in IF FieldsOnly THEN {FieldDialog} ELSE Forms
    /\ \E odd \in SUBSET form.odd :
        row = [r \in Row |-> [there |-> TRUE, at |-> 0, val |-> [p \in Part |-> IF p \in odd THEN Odd ELSE r]]]
    /\ list = row
    /\ dialog = Cleared(Is("inline"), 0)
    /\ call = [c \in Call |-> Idle]
    /\ latest = [h \in Hook |-> None]
    /\ count = [openings |-> 0, typed |-> 0, writes |-> 0]
    /\ made = {}
    /\ blind = {}
    /\ harm = {}
    /\ faults = 0

\* Values that nobody has typed before.
Typed == 10 + count.typed
Written == 20 + count.writes
Faulty == faults < MaxFaults /\ faults' = faults + 1
--------------------------------------------------------------------------------
(* The form on the screen.                                                 *)

Loaded(p, r) == IF list[r].val[p] = Odd THEN Blank ELSE list[r].val[p]

\* Mutant: what is kept beside the form stays as it was.
ValueOfInputs(p, r) ==
    IF p \in form.keeps \cup {"beside"} THEN dialog.val[p]
    ELSE IF r # None /\ p \in form.loads THEN Loaded(p, r)
    ELSE Blank

\* What a part shows when the form opens on a row, or on none.
Value(p, r) ==
    IF p \in form.keeps THEN dialog.val[p]
    ELSE IF r # None /\ p \in form.loads THEN Loaded(p, r)
    ELSE Blank

Open(r) ==
    /\ ~dialog.open /\ count.openings < MaxOpenings
    /\ ~(Is("held") /\ Pending)
    /\ IF r = None THEN "create" \in form.does ELSE "edit" \in form.does /\ list[r].there
    /\ count' = [count EXCEPT !.openings = @ + 1]
    /\ dialog' = [open |-> TRUE, on |-> r, seen |-> IF r = None THEN None ELSE list[r],
                  val |-> [p \in Part |-> Value(p, r)],
                  touched |-> IF "edit" \in form.does THEN {} ELSE dialog.touched \cap form.keeps,
                  id |-> count.openings + 1]
    /\ UNCHANGED <<form, row, list, call, latest, made, blind, harm, faults>>

Type(p) ==
    /\ dialog.open /\ p \in form.sends /\ count.typed < MaxTyped
    /\ ~(Is("frozen") /\ Pending)
    /\ dialog' = [dialog EXCEPT !.val[p] = Typed, !.touched = @ \cup {p}]
    /\ count' = [count EXCEPT !.typed = @ + 1]
    /\ UNCHANGED <<form, row, list, call, latest, made, blind, harm, faults>>

Close ==
    /\ dialog.open /\ ~Is("inline")
    /\ ~(Is("shut") /\ Pending)
    /\ dialog' = [dialog EXCEPT !.open = FALSE]
    /\ UNCHANGED <<form, row, list, call, latest, count, made, blind, harm, faults>>
--------------------------------------------------------------------------------
(* Its requests.                                                           *)

Sends(c, request) ==
    /\ call[c] = Idle /\ \A d \in Call : d < c => call[d] # Idle
    /\ call' = [call EXCEPT ![c] = request]
    /\ latest' = [latest EXCEPT ![HookOf(request.op)] = c]
    /\ UNCHANGED <<form, row, list, dialog, count, made, blind, harm, faults>>

\* Mutant: the version is the one of the list by now.
VersionListed(d) == IF d.on = None THEN 0 ELSE list[d.on].at

\* The version that the form was opened on.
Version(d) == IF d.on = None THEN 0 ELSE d.seen.at

Submit(c) ==
    /\ dialog.open
    /\ ~(Is("guarded") /\ Pending) /\ ~(Is("mounted") /\ PendsHere)
    /\ "fields" \in form.sends => dialog.val["fields"] # Blank
    /\ Sends(c, [pc |-> "sent", op |-> IF dialog.on = None THEN "create" ELSE "edit",
                 on |-> dialog.on, seen |-> dialog.seen,
                 val |-> dialog.val, parts |-> form.sends, touched |-> dialog.touched,
                 version |-> Version(dialog), id |-> dialog.id])

\* From the list: a switch, which is a part of its own, or the deletion.
FromList(c, r, op, parts) ==
    /\ ~dialog.open /\ list[r].there
    /\ op \in form.does
    /\ ~(Is("held") /\ Pending)
    /\ op = "delete" /\ ~Is("repeats") => latest["delete"] = None
    /\ Sends(c, [pc |-> "sent", op |-> op, on |-> r, seen |-> list[r], val |-> list[r].val, parts |-> parts,
                 touched |-> {}, version |-> list[r].at, id |-> 0])

Toggle(c, r) == FromList(c, r, "toggle", form.toggles)
Delete(c, r) == FromList(c, r, "delete", {})

\* The server does what is asked.
Lands(c) ==
    LET q == call[c]
    IN /\ q.pc = "sent"
       /\ q.on # None => row[q.on].there /\ (Is("versioned") => row[q.on].at = q.version)
       /\ call' = [call EXCEPT ![c].pc = "done"]
       /\ row' = IF q.on = None THEN row
                 ELSE [row EXCEPT ![q.on].at = @ + 1, ![q.on].there = q.op # "delete",
                                  ![q.on].val = [p \in Part |-> IF p \in q.parts THEN q.val[p] ELSE @[p]]]
       /\ made' = IF q.op = "create" THEN made \cup {q.id} ELSE made
       /\ harm' = harm \cup Broken("twice", q.op = "create" /\ q.id \in made \ blind)
                       \cup Broken("unseen", q.on # None /\ row[q.on].at # q.seen.at)
       /\ UNCHANGED <<form, list, dialog, latest, count, blind, faults>>

Ends(c) ==
    /\ call' = [call EXCEPT ![c] = Over]
    /\ latest' = [h \in Hook |-> IF latest[h] = c THEN None ELSE latest[h]]

\* Success closes the form that is open, or clears the panel.
Answer(c) ==
    LET q == call[c]
        heard == Is("latest") => latest[HookOf(q.op)] = c
    IN /\ q.pc = "done"
       /\ IF q.op \in {"create", "edit"} /\ heard
          THEN /\ dialog' = IF "edit" \in form.does \/ form.keeps = {} THEN [dialog EXCEPT !.open = FALSE]
                            ELSE Cleared(Is("inline"), count.openings + 1)
               /\ count' = IF Is("inline") THEN [count EXCEPT !.openings = @ + 1] ELSE count
               /\ harm' = harm \cup Broken("dialog", dialog.open /\ dialog.id # q.id)
                               \cup Broken("text", dialog.open /\ dialog.id = q.id /\ dialog.val # q.val)
          ELSE UNCHANGED <<dialog, count, harm>>
       /\ Ends(c)
       /\ UNCHANGED <<form, row, list, made, blind, faults>>

\* A refusal leaves the form as it is, but for a conflict of a mailbox.
Conflicts(q) == Is("versioned") /\ q.on # None /\ row[q.on].at # q.version
Refused(c) ==
    LET q == call[c]
    IN /\ q.pc = "sent"
       /\ \/ q.on # None /\ ~row[q.on].there /\ UNCHANGED faults
          \/ Conflicts(q) /\ UNCHANGED faults
          \/ Faulty
       /\ IF Conflicts(q) /\ Is("frozen")
          THEN /\ dialog' = [dialog EXCEPT !.open = FALSE]
               /\ harm' = harm \cup Broken("dialog", dialog.open /\ dialog.id # q.id)
          ELSE UNCHANGED <<dialog, harm>>
       /\ Ends(c)
       /\ UNCHANGED <<form, row, list, count, made, blind>>

\* The request has landed, and shows as failed.
AnswerLost(c) ==
    /\ call[c].pc = "done" /\ Faulty
    /\ blind' = blind \cup {call[c].id}
    /\ Ends(c)
    /\ UNCHANGED <<form, row, list, dialog, count, made, harm>>
--------------------------------------------------------------------------------
\* Somebody else edits a row.
Elsewhere(r) ==
    /\ row[r].there /\ count.writes < MaxWrites
    /\ count' = [count EXCEPT !.writes = @ + 1]
    /\ \/ \E p \in form.sends : row' = [row EXCEPT ![r].at = @ + 1, ![r].val[p] = Written]
       \/ row' = [row EXCEPT ![r].there = FALSE]
    /\ UNCHANGED <<form, list, dialog, call, latest, made, blind, harm, faults>>

\* The list is fetched again, after an answer or by itself.
Refetch ==
    /\ list # row /\ list' = row
    /\ UNCHANGED <<form, row, dialog, call, latest, count, made, blind, harm, faults>>

Next ==
    \/ \E r \in Row \cup {None} : Open(r)
    \/ \E p \in Part : Type(p)
    \/ Close \/ Refetch
    \/ \E c \in Call : Submit(c) \/ Lands(c) \/ Answer(c) \/ Refused(c) \/ AnswerLost(c)
    \/ \E c \in Call, r \in Row : Toggle(c, r) \/ Delete(c, r)
    \/ \E r \in Row : Elsewhere(r)

Spec == Init /\ [][Next]_vars
--------------------------------------------------------------------------------
\* What was not typed is saved as the list showed it when the form was opened, or
\* blank where the form opens blank, whatever the form was used for before.
SavesAreAsShown ==
    \A c \in Call : call[c].pc \in {"sent", "done"} /\ call[c].op \in {"create", "edit"} =>
        \A p \in form.sends \ call[c].touched :
            call[c].val[p] = IF call[c].on = None \/ p \notin form.loads \/ call[c].seen.val[p] = Odd THEN Blank
                             ELSE call[c].seen.val[p]

FormsKeepTheirWord == SavesAreAsShown /\ harm = {}
================================================================================
