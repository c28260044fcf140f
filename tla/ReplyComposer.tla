------------------------------ MODULE ReplyComposer ------------------------------
(***************************************************************************)
(* The forms in which messages are written: the reply and note tabs of a   *)
(* ticket's page for staff, the reply of the client portal, the public     *)
(* form of a new ticket; with the zone of files that uploads as soon as a  *)
(* file is chosen (FileUploadZone.tsx), the challenges of the public form  *)
(* and the drafts of the staff page.                                       *)
(*                                                                         *)
(* A file stands, on the public form, for all that are chosen at once: one *)
(* request carries them.  Ids are sets, since no file is uploaded twice.   *)
(***************************************************************************)
EXTENDS Naturals, FiniteSets

CONSTANTS
    File,
    Send,      \* submissions
    MaxTokens, \* bound: challenges that a widget solves
    MaxFaults  \* bound: lost answers and reloads

VARIABLES
    page,      \* which form
    tab,       \* the tab in front
    file,      \* of each file: its upload, its tab, its challenge, whether the server has it
    listed,    \* the files that the zone of each tab shows
    ids,       \* replyAttachmentIds, noteAttachmentIds, attachmentIds
    text,      \* whether something is written
    draft,     \* the drafts in localStorage
    send,      \* the submissions; "adrift" when the page that waited is gone
    challenge, \* of each widget: the token it holds, and how many it has solved
    spent,     \* tokens the server has verified
    removed,   \* history: files taken out of a zone
    carried,   \* history: in how many messages a file is
    tickets,   \* history: tickets made with each token
    faults

vars == <<page, tab, file, listed, ids, text, draft, send, challenge, spent, removed, carried,
          tickets, faults>>

Tab == {"reply", "note"}
Widget == {"upload", "ticket"}
Token == Widget \X (1..MaxTokens)
NoToken == <<"upload", 0>>

Init ==
    /\ page \in {"staff", "client", "public"} /\ tab = "reply"
    /\ file = [f \in File |-> [pc |-> "new", tab |-> "reply", token |-> NoToken, at |-> "nowhere"]]
    /\ listed = [t \in Tab |-> {}] /\ ids = listed
    /\ text = [t \in Tab |-> FALSE] /\ draft = text
    /\ send = [s \in Send |-> [pc |-> "new", tab |-> "reply", files |-> {}, token |-> NoToken]]
    /\ challenge = [w \in Widget |-> [held |-> 0, solved |-> 0]]
    /\ spent = {} /\ removed = {} /\ faults = 0
    /\ carried = [f \in File |-> 0] /\ tickets = [k \in Token |-> 0]

Fault == faults < MaxFaults /\ faults' = faults + 1
Held(w) == <<w, challenge[w].held>>
Sends == <<send, carried, tickets>>
Files == <<file, listed, ids, removed>>
Texts == <<text, draft>>
--------------------------------------------------------------------------------
(* Writing.                                                                *)

\* The page of staff has two tabs; the zone of the tab that is left is unmounted,
\* its texts and ids are the page's.
SwitchTab ==
    /\ page = "staff"
    /\ tab' = IF tab = "reply" THEN "note" ELSE "reply"
    /\ listed' = [listed EXCEPT ![tab] = {}]
    /\ UNCHANGED <<page, file, ids, removed, Texts, Sends, challenge, spent, faults>>

\* The draft follows the text.
Type ==
    /\ text' = [text EXCEPT ![tab] = TRUE]
    /\ draft' = IF page = "staff" THEN text' ELSE draft
    /\ UNCHANGED <<page, tab, Files, Sends, challenge, spent, faults>>

\* The callback of a Turnstile widget.
Solve(w) ==
    /\ page = "public" /\ challenge[w].held = 0 /\ challenge[w].solved < MaxTokens
    /\ challenge' = [challenge EXCEPT ![w] = [held |-> @.solved + 1, solved |-> @.solved + 1]]
    /\ UNCHANGED <<page, tab, Files, Texts, Sends, spent, faults>>

\* processFiles, uploadBatch: without a challenge the public form shows an error.
Choose(f) ==
    /\ file[f].pc = "new"
    /\ LET refused == page = "public" /\ challenge["upload"].held = 0
       IN  file' = [file EXCEPT ![f] = [pc |-> IF refused THEN "error" ELSE "uploading", tab |-> tab,
                                        token |-> Held("upload"), at |-> "nowhere"]]
    /\ listed' = [listed EXCEPT ![tab] = @ \cup {f}]
    /\ UNCHANGED <<page, tab, ids, removed, Texts, Sends, challenge, spent, faults>>

\* The server stores a file once it has verified the challenge, which counts once.
Store(f) ==
    /\ file[f].pc = "uploading" /\ file[f].at = "nowhere"
    /\ page = "public" => file[f].token \notin spent
    /\ spent' = IF page = "public" THEN spent \cup {file[f].token} ELSE spent
    /\ file' = [file EXCEPT ![f].at = "orphan"]
    /\ UNCHANGED <<page, tab, listed, ids, removed, Texts, Sends, challenge, faults>>

\* uploadFile gets its answer; its page may show the file no more.
EndUpload(f) ==
    LET t == file[f].tab
    IN  /\ file[f].pc = "uploading"
        /\ \/ /\ file[f].at # "nowhere"
              /\ file' = [file EXCEPT ![f].pc = "done"]
              /\ ids' = [ids EXCEPT ![t] = @ \cup {f}] /\ UNCHANGED faults
           \/ /\ file[f].at = "nowhere" \/ faults < MaxFaults
              /\ faults' = IF file[f].at = "nowhere" THEN faults ELSE faults + 1
              /\ file' = [file EXCEPT ![f].pc = "error"] /\ UNCHANGED ids
        /\ challenge' = IF page = "public" THEN [challenge EXCEPT !["upload"].held = 0] ELSE challenge
        /\ UNCHANGED <<page, tab, listed, removed, Texts, Sends, spent>>

\* Mutant: a file may be removed at any time.
RemovableAlways(f) == f \in listed[tab]

\* The button that removes a file is not there while it is uploaded.
Removable(f) == f \in listed[tab] /\ file[f].pc \in {"done", "error"}

RemoveFile(f) ==
    /\ Removable(f)
    /\ listed' = [listed EXCEPT ![tab] = @ \ {f}]
    /\ ids' = [ids EXCEPT ![tab] = @ \ {f}]
    /\ removed' = removed \cup {f}
    /\ UNCHANGED <<page, tab, file, Texts, Sends, challenge, spent, faults>>
--------------------------------------------------------------------------------
(* Sending.                                                                *)

\* The buttons are disabled while the mutation is pending, which on the public form
\* begins only when the priority has been looked up.
IsPending == \E s \in Send : send[s].pc \in {"sent", "made", "refused"}

Submit(s) ==
    /\ send[s].pc = "new" /\ text[tab] /\ ~IsPending
    /\ page = "public" => challenge["ticket"].held # 0
    /\ send' = [send EXCEPT ![s] = [pc |-> IF page = "public" THEN "lookup" ELSE "sent", tab |-> tab,
                                    files |-> ids[tab], token |-> Held("ticket")]]
    /\ UNCHANGED <<page, tab, Files, Texts, carried, tickets, challenge, spent, faults>>

ResolvePriorityId(s) ==
    /\ send[s].pc = "lookup" /\ send' = [send EXCEPT ![s].pc = "sent"]
    /\ UNCHANGED <<page, tab, Files, Texts, carried, tickets, challenge, spent, faults>>

\* The message and its files in one transaction, or nothing: every file must be an
\* orphan, the challenge must be new.
Receive(s) ==
    LET m == send[s]
        known == page = "public" /\ m.token \in spent
        ok == ~known /\ \A f \in m.files : file[f].at = "orphan"
    IN  /\ m.pc \in {"sent", "adrift"}
        /\ spent' = IF page = "public" THEN spent \cup {m.token} ELSE spent
        /\ send' = [send EXCEPT ![s].pc = CASE m.pc = "adrift" -> "over"
                                                [] ok -> "made"
                                                [] OTHER -> "refused"]
        /\ file' = [f \in File |-> IF ok /\ f \in m.files THEN [file[f] EXCEPT !.at = m.tab] ELSE file[f]]
        /\ carried' = [f \in File |-> IF ok /\ f \in m.files THEN carried[f] + 1 ELSE carried[f]]
        /\ tickets' = IF ok /\ page = "public" THEN [tickets EXCEPT ![m.token] = @ + 1] ELSE tickets
        /\ UNCHANGED <<page, tab, listed, ids, removed, Texts, challenge, faults>>

\* The answer.  Success empties the form, its zone too except on the page of staff;
\* a failure keeps everything but the challenge.
EndSend(s) ==
    LET t == send[s].tab
        good == send[s].pc = "made"
        Emptied(ok) ==
            IF ok THEN /\ text' = [text EXCEPT ![t] = FALSE] /\ draft' = [draft EXCEPT ![t] = FALSE]
                       /\ ids' = [ids EXCEPT ![t] = {}]
                       /\ listed' = IF page = "staff" THEN listed ELSE [listed EXCEPT ![t] = {}]
            ELSE UNCHANGED <<text, draft, ids, listed>>
    IN  /\ send[s].pc \in {"made", "refused"}
        /\ \/ Emptied(good) /\ UNCHANGED faults
           \/ good /\ Fault /\ Emptied(FALSE)
        /\ send' = [send EXCEPT ![s].pc = "over"]
        /\ challenge' = IF page = "public" THEN [challenge EXCEPT !["ticket"].held = 0] ELSE challenge
        /\ UNCHANGED <<page, tab, file, removed, carried, tickets, spent>>

\* A reload starts the page anew, with the drafts of staff; the server goes on with
\* what was sent.
Reload ==
    /\ Fault
    /\ tab' = "reply" /\ listed' = [t \in Tab |-> {}] /\ ids' = listed'
    /\ text' = draft
    /\ file' = [f \in File |-> IF file[f].pc = "uploading" THEN [file[f] EXCEPT !.pc = "gone"] ELSE file[f]]
    /\ send' = [s \in Send |-> [send[s] EXCEPT !.pc = CASE @ \in {"new", "adrift"} -> @
                                                       [] @ = "sent" -> "adrift"
                                                       [] OTHER -> "over"]]
    /\ challenge' = [w \in Widget |-> [challenge[w] EXCEPT !.held = 0]]
    /\ UNCHANGED <<page, draft, removed, carried, tickets, spent>>

Next ==
    \/ SwitchTab \/ Type \/ Reload \/ \E w \in Widget : Solve(w)
    \/ \E f \in File : Choose(f) \/ Store(f) \/ EndUpload(f) \/ RemoveFile(f)
    \/ \E s \in Send : Submit(s) \/ ResolvePriorityId(s) \/ Receive(s) \/ EndSend(s)

Spec == Init /\ [][Next]_vars
--------------------------------------------------------------------------------
\* A file is in one message at the most, of the tab it was chosen for; a file that
\* was removed is in none that is sent afterwards.
FilesStayPut ==
    \A f \in File :
        /\ carried[f] <= 1 /\ file[f].at \in {"nowhere", "orphan", file[f].tab}
        /\ \A t \in Tab : f \in ids[t] => t = file[f].tab /\ f \notin removed

\* A challenge makes one ticket, and what the forms of the portal show as loaded is
\* what their next message will carry.
FormsTellTheTruth ==
    /\ \A k \in Token : tickets[k] <= 1
    /\ page # "staff" => {f \in listed["reply"] : file[f].pc = "done"} \subseteq ids["reply"]

ComposerKeepsItsWord == FilesStayPut /\ FormsTellTheTruth
================================================================================
