------------------------------ MODULE MCBrowser ------------------------------
(* The pages of a browser, side by side: the board of tickets, a screen, a *)
(* form, a message that is written, and the calls that all of them make.   *)
(* A behaviour tells the story of one of them, the others stay as they     *)
(* started.                                                                *)
EXTENDS Naturals, FiniteSets, Sequences

CONSTANTS
    None, PageFaults,
    Ticket, Status, Job,                                        \* of BoardCache
    Caller, MaxScreenWrites,                                    \* of QueryCache
    Row, Request, FieldsOnly, MaxOpenings, MaxTyped, MaxWrites, \* of WebForms
    File, Submission, MaxTokens,                                \* of ReplyComposer
    Window, Ask, MaxChanges                                     \* of ApiRequests

ASSUME BrowserAssumption ==
    /\ {PageFaults, MaxTokens} \subseteq Nat
    /\ Row \subseteq Nat /\ Request \subseteq Nat
    /\ None \notin Nat
    /\ Window \cap Ask = {}

VARIABLES
    story, failures,
    server, lists, marked, fetch, job, missed,
    screen, writes, shown, stale, watched, pull, call, owed,
    form, row, list, dialog, request, latest, count, made, blind, harm,
    page, front, file, listed, ids, text, draft, send, challenge, spent, removed, carried, tickets, slips,
    cookies, tabs, boots, sent, account, minted, issued, ran, changes, errors

boardVars == <<server, lists, marked, fetch, job, missed>>
screenVars == <<screen, writes, shown, stale, watched, pull, call, owed>>
formVars == <<form, row, list, dialog, request, latest, count, made, blind, harm>>
composerVars == <<page, front, file, listed, ids, text, draft, send, challenge, spent, removed, carried,
                  tickets, slips>>
askVars == <<cookies, tabs, boots, sent, account, minted, issued, ran, changes, errors>>
browserVars == <<story, failures, boardVars, screenVars, formVars, composerVars, askVars>>

Board == INSTANCE BoardCache WITH MaxFaults <- PageFaults, faults <- failures
Screens == INSTANCE QueryCache WITH
    MaxWrites <- MaxScreenWrites, version <- writes, MaxFaults <- PageFaults, faults <- failures
Forms == INSTANCE WebForms WITH
    Call <- Request, call <- request, MaxFaults <- PageFaults, faults <- failures
Composer == INSTANCE ReplyComposer WITH
    Send <- Submission, tab <- front, MaxFaults <- PageFaults, faults <- slips
Calls == INSTANCE ApiRequests WITH
    Page <- Window, page <- tabs, Call <- Ask, jar <- cookies, MaxFaults <- PageFaults, faults <- errors

\* The parts that have no story start in one state.
BrowserInit ==
    /\ story \in {"board", "screen", "form", "message", "calls"}
    /\ Board!Init /\ Screens!Init /\ Forms!Init
    /\ story # "board" => \A s, t \in Ticket : server[s] = server[t] /\ server[s] = CHOOSE x \in Status : TRUE
    /\ story # "screen" => screen = CHOOSE x \in Screens!Screens : TRUE
    /\ Composer!Init
    /\ story # "message" => page = "staff"
    /\ Calls!Init
    /\ story # "calls" => \A a \in Ask : sent[a].path = "login"
    /\ story # "form" => form = CHOOSE x \in Forms!Forms : x.odd = {}

BoardStory ==
    story = "board" /\ Board!Next /\ UNCHANGED <<story, screenVars, formVars, composerVars, askVars>>
ScreenStory ==
    story = "screen" /\ Screens!Next /\ UNCHANGED <<story, boardVars, formVars, composerVars, askVars>>
FormStory ==
    story = "form" /\ Forms!Next /\ UNCHANGED <<story, boardVars, screenVars, composerVars, askVars>>
MessageStory ==
    /\ story = "message" /\ Composer!Next
    /\ UNCHANGED <<story, failures, boardVars, screenVars, formVars, askVars>>
CallStory ==
    /\ story = "calls" /\ Calls!Next
    /\ UNCHANGED <<story, failures, boardVars, screenVars, formVars, composerVars>>

BrowserNext == BoardStory \/ ScreenStory \/ FormStory \/ MessageStory \/ CallStory

\* A form is opened twice, or opened once and meets a fault or an edit elsewhere.
OneDisturbance == story = "form" => failures + count.writes + count.openings <= 2

BrowserSpec == BrowserInit /\ [][BrowserNext]_browserVars
--------------------------------------------------------------------------------
\* What the modules state of the lists on the screen, and of what is typed, chosen and sent.
ScreensKeepUp == Board!RestingListsAreTrue /\ Screens!ScreensKeepUp
PagesKeepTheirWord ==
    Forms!FormsKeepTheirWord /\ Composer!ComposerKeepsItsWord /\ Calls!CallsKeepTheirWord
================================================================================
