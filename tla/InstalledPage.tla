---------------------------- MODULE InstalledPage ----------------------------
(***************************************************************************)
(* src/gs-installed-page.c: the rows of the apps that are installed, and   *)
(* of those that wait in the queue of the loader or are being installed.   *)
(* Rows are made from the answers of two jobs, the list of installed apps  *)
(* and the refinement of the queue, and from a signal; they are moved and  *)
(* removed by the notifications of their app's state, which an idle source *)
(* delivers later (gs_app_queue_notify()).                                 *)
(***************************************************************************)
EXTENDS AppState, FiniteSetsExt, Naturals, Sequences

CONSTANTS PageApps, MaxChanges      \* MaxChanges: bound of the changes of states, and of loads

ASSUME PageAssumption == IsFiniteSet(PageApps) /\ MaxChanges \in Nat

VARIABLES
    pageApp,            \* the apps
    changes, loads,     \* how often one of them has changed, and the page was loaded
    notifies,           \* apps whose notify::state waits in the main loop
    pending, pendingChanged,        \* the queue of the loader, and its signal
    rows,               \* the rows of each app, in the order they were added
    handlers,           \* how often notify::state of each app is connected
    pageWaiting,        \* waiting
    listJob,            \* the job that lists the installed apps
    refineJobs,         \* the lists of those that refine the queue
    counter             \* pending_apps_counter
queueVars == <<pending, pendingChanged>>
jobVars == <<pageWaiting, listJob, refineJobs>>
installedVars == <<pageApp, changes, loads, notifies, queueVars, rows, handlers, jobVars, counter>>

Row == [section : {"in progress", "apps"}, leaving : BOOLEAN]
NoList == [stage |-> "none", list |-> {}]

InstalledTypeOK ==
    /\ pageApp \in [PageApps -> GsApp] /\ {changes, loads} \subseteq 0..MaxChanges
    /\ {notifies, pending} \subseteq SUBSET PageApps /\ {pendingChanged, pageWaiting} \subseteq BOOLEAN
    /\ rows \in [PageApps -> UNION {[1..n -> Row] : n \in 0..2}] /\ handlers \in [PageApps -> 0..2]
    /\ listJob \in [stage : {"none", "run", "done"}, list : SUBSET PageApps]
    /\ pageWaiting <=> listJob.stage # "none"
    /\ refineJobs \subseteq SUBSET PageApps /\ counter \in 0..Cardinality(PageApps)

InstalledInit ==
    /\ pageApp \in [PageApps -> {SetState(NewApp, "available"), SetState(NewApp, "installed")}]
    /\ changes = 0 /\ loads = 0 /\ notifies = {} /\ pending = {} /\ pendingChanged = FALSE
    /\ rows = [a \in PageApps |-> <<>>] /\ handlers = [a \in PageApps |-> 0]
    /\ pageWaiting = FALSE /\ listJob = NoList /\ refineJobs = {} /\ counter = 0

-----------------------------------------------------------------------------
\* gs_app_is_installed(), gs_installed_page_get_app_section(), and the states
\* the notification lets stay.
Installed(app) == app.state \in {"installed", "updatable", "updatable live", "removing"}
SectionOf(app) == IF app.state \in {"installing", "queued", "removing"} THEN "in progress" ELSE "apps"
Stays(app) == app.state \in {"installing", "installed", "removing", "updatable", "updatable live"}

\* gs_installed_page_find_app_row(): the sections in their order.
FirstRow(list) ==
    LET busy == {i \in DOMAIN list : list[i].section = "in progress"} IN IF busy # {} THEN Min(busy) ELSE 1

\* What happens to rows and handlers together.
Page == [rows |-> rows, handlers |-> handlers]
PageBecomes(p) == rows' = p.rows /\ handlers' = p.handlers
AddRow(p, a, app) ==
    [rows |-> [p.rows EXCEPT ![a] = Append(@, [section |-> SectionOf(app), leaving |-> FALSE])],
     handlers |-> [p.handlers EXCEPT ![a] = @ + 1]]

StaysConnected(p, a) ==                 \* mutant: the handler is not disconnected
    IF p.rows[a] = <<>> THEN p ELSE [p EXCEPT !.rows[a][FirstRow(p.rows[a])].leaving = TRUE]
\* gs_installed_page_unreveal_row()
Unreveal(p, a) ==
    IF p.rows[a] = <<>> THEN p
    ELSE [rows |-> [p.rows EXCEPT ![a][FirstRow(p.rows[a])].leaving = TRUE], handlers |-> [p.handlers EXCEPT ![a] = 0]]

RemovedAt(list, i) == SubSeq(list, 1, i - 1) \o SubSeq(list, i + 1, Len(list))

\* gs_installed_page_maybe_move_app_row()
MoveRow(p, a) ==
    LET i == FirstRow(p.rows[a])
        section == SectionOf(pageApp[a])
    IN  IF p.rows[a][i].section = section THEN p
        ELSE [rows |-> [p.rows EXCEPT ![a] = Append(RemovedAt(@, i), [@[i] EXCEPT !.section = section])],
              handlers |-> p.handlers]

-----------------------------------------------------------------------------
\* Jobs of the loader change an app in their threads, and queue it.
NextStates(app) ==
    CASE app.state = "available" -> {"installing", "queued"} [] app.state = "queued" -> {"installing", "available"}
      [] app.state = "installing" -> {"installed", "available"} [] app.state = "installed" -> {"removing", "updatable"}
      [] app.state = "removing" -> {"available", "installed"} [] OTHER -> {"installed"}
AppChanges(a) ==
    /\ changes < MaxChanges /\ changes' = changes + 1
    /\ \E s \in NextStates(pageApp[a]) :
         /\ pageApp' = [pageApp EXCEPT ![a] = SetState(@, s)] /\ notifies' = notifies \union {a}
         /\ pending' = IF s = "queued" THEN pending \union {a} ELSE IF s = "installing" THEN pending \ {a} ELSE pending
         /\ pendingChanged' = (pendingChanged \/ pending' # pending)
    /\ UNCHANGED <<loads, rows, handlers, jobVars, counter>>

\* gs_installed_page_notify_state_changed_cb(), once for each connection; the
\* first that unreveals a row disconnects the others.
NotifyState(a) ==
    /\ a \in notifies /\ notifies' = notifies \ {a}
    /\ CASE handlers[a] = 0 -> UNCHANGED <<rows, handlers>>
         [] handlers[a] > 0 /\ ~Stays(pageApp[a]) -> PageBecomes(Unreveal(Page, a))
         [] handlers[a] = 1 /\ Stays(pageApp[a]) -> PageBecomes(MoveRow(Page, a))
         [] handlers[a] = 2 /\ Stays(pageApp[a]) -> PageBecomes(MoveRow(MoveRow(Page, a), a))
    /\ UNCHANGED <<pageApp, changes, loads, queueVars, jobVars, counter>>

\* row_unrevealed(), and gs_installed_page_app_removed() of a job of this page
RowUnrevealed(a) ==
    /\ \E i \in DOMAIN rows[a] : rows[a][i].leaving /\ rows' = [rows EXCEPT ![a] = RemovedAt(@, i)]
    /\ UNCHANGED <<pageApp, changes, loads, notifies, queueVars, handlers, jobVars, counter>>
AppRemoved(a) ==
    /\ ~Installed(pageApp[a]) /\ rows[a] # <<>> /\ PageBecomes(Unreveal(Page, a))
    /\ UNCHANGED <<pageApp, changes, loads, notifies, queueVars, jobVars, counter>>

\* gs_installed_page_load(), of switch_to() and reload()
LoadInstalled ==
    /\ ~pageWaiting /\ loads < MaxChanges /\ loads' = loads + 1 /\ pageWaiting' = TRUE
    /\ rows' = [a \in PageApps |-> <<>>] /\ handlers' = [a \in PageApps |-> IF rows[a] = <<>> THEN handlers[a] ELSE 0]
    /\ listJob' = [stage |-> "run", list |-> {}]
    /\ UNCHANGED <<pageApp, changes, notifies, queueVars, refineJobs, counter>>

\* The job lists what is installed, or fails.
ListInstalled ==
    /\ listJob.stage = "run"
    /\ listJob' \in {[stage |-> "done", list |-> list] : list \in {{}, {a \in PageApps : Installed(pageApp[a])}}}
    /\ UNCHANGED <<pageApp, changes, loads, notifies, queueVars, rows, handlers, pageWaiting, refineJobs, counter>>
\* gs_installed_page_get_installed_cb(): a row for each, without a look at
\* those there are.
GetInstalled ==
    /\ listJob.stage = "done" /\ pageWaiting' = FALSE /\ listJob' = NoList
    /\ rows' = [a \in PageApps |-> IF a \in listJob.list THEN AddRow(Page, a, pageApp[a]).rows[a] ELSE rows[a]]
    /\ handlers' = [a \in PageApps |-> IF a \in listJob.list THEN handlers[a] + 1 ELSE handlers[a]]
    /\ refineJobs' = IF pending # {} THEN refineJobs \union {pending} ELSE refineJobs
    /\ UNCHANGED <<pageApp, changes, loads, notifies, queueVars, counter>>

\* gs_installed_page_add_pending_apps(); what it installs, the loader queues.
AddPendingApps(list) ==
    LET waits == {a \in list : ~Installed(pageApp[a])}
        app(a) == IF pageApp[a].state = "available" THEN SetState(pageApp[a], "queued") ELSE pageApp[a]
        new == {a \in waits : rows[a] = <<>>}
    IN  /\ pageApp' = [a \in PageApps |-> IF a \in waits THEN app(a) ELSE pageApp[a]]
        /\ notifies' = notifies \union {a \in waits : pageApp[a].state = "available"}
        /\ counter' = Cardinality(waits)
        /\ rows' = [a \in PageApps |-> IF a \in new THEN AddRow(Page, a, app(a)).rows[a] ELSE rows[a]]
        /\ handlers' = [a \in PageApps |-> IF a \in new THEN handlers[a] + 1 ELSE handlers[a]]

PendingAppsRefined ==
    /\ \E list \in refineJobs :
         /\ refineJobs' = refineJobs \ {list}
         /\ AddPendingApps(list) \/ UNCHANGED <<pageApp, notifies, counter, rows, handlers>>
    /\ UNCHANGED <<changes, loads, queueVars, pageWaiting, listJob>>
AddChangedApps ==
    /\ pendingChanged /\ pendingChanged' = FALSE /\ AddPendingApps(pending)
    /\ UNCHANGED <<changes, loads, pending, jobVars>>

InstalledNext ==
    \/ LoadInstalled \/ ListInstalled \/ GetInstalled \/ PendingAppsRefined \/ AddChangedApps
    \/ \E a \in PageApps : AppChanges(a) \/ NotifyState(a) \/ RowUnrevealed(a) \/ AppRemoved(a)

\* The job that lists the installed apps ends, and the main loop calls back.
InstalledFairness == WF_installedVars(ListInstalled) /\ WF_installedVars(GetInstalled)

InstalledSpec == InstalledInit /\ [][InstalledNext]_installedVars

-----------------------------------------------------------------------------
\* The assertion of gs_installed_page_notify_state_changed_cb(): an app that is
\* listened to has a row, though rows go away when an animation ends, and are
\* all removed by a reload.
HandlerHasRow == \A a \in PageApps : handlers[a] > 0 => rows[a] # <<>>

\* A load ends, and the page can be loaded again (gs_installed_page_load()
\* returns at once as long as one waits).
ListIsLoaded == pageWaiting ~> ~pageWaiting

\* The rows and the handlers of the page agree.
InstalledInv == InstalledTypeOK /\ HandlerHasRow

\* The inductive invariant of its proof: a connection is one of a row that
\* stays, and while the installed apps are listed there is one row at most.
RowsAreCounted ==
    \A a \in PageApps :
        /\ Len(rows[a]) <= (IF pageWaiting THEN 1 ELSE 2) /\ handlers[a] <= Len(rows[a])
        /\ handlers[a] > 0 => \E i \in DOMAIN rows[a] : ~rows[a][i].leaving
        /\ handlers[a] = 2 => \A i \in DOMAIN rows[a] : ~rows[a][i].leaving
InstalledIInv == InstalledTypeOK /\ RowsAreCounted

\* Violated: an app that becomes installed while the installed apps are listed
\* gets a second row.  A notification moves or removes the first that is found
\* and disconnects the handlers of both, so nothing moves or removes the other
\* before the next load.
OneRowPerApp == \A a \in PageApps : Len(rows[a]) <= 1

\* Violated: what waits in the queue is listed once the answers are there.  The
\* row that is added for an app goes away when the state the app was given is
\* notified, although gs_installed_page_get_app_sort_key() has a place for it.
QueuedIsListed ==
    \A a \in pending : pageApp[a].state = "queued" /\ ~pendingChanged /\ ~pageWaiting /\ refineJobs = {} =>
        \E i \in DOMAIN rows[a] : ~rows[a][i].leaving
=============================================================================
