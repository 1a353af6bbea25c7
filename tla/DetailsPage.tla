----------------------------- MODULE DetailsPage -----------------------------
(***************************************************************************)
(* src/gs-details-page.c: the page of one app.  It is loaded in two        *)
(* stages, a refinement and then, when the page is shown, more data and    *)
(* the other places the app can come from; a file or an address is first   *)
(* turned into an app.  The answers are about the page, not about the app  *)
(* they were asked for: each callback works on self->app, which may have   *)
(* become another, or NULL, since its job was started.                     *)
(***************************************************************************)
EXTENDS Naturals

CONSTANTS
    ListedApps,         \* apps of the other pages
    Alternates,         \* of each of them: the apps that "alternate-of" it may list
    FileApp, NoApp,     \* the app that is made of a file; self->app == NULL
    MaxDetailLoads      \* bound: loads

DetailApps == ListedApps \union {FileApp}
ASSUME DetailsAssumption ==
    /\ NoApp \notin DetailApps /\ FileApp \notin ListedApps /\ MaxDetailLoads \in Nat
    /\ Alternates \in [ListedApps -> SUBSET ListedApps] /\ \A a \in ListedApps : a \in Alternates[a]

VARIABLES
    detailsActive,      \* the shell shows this page
    detailsState,       \* gs_details_page_get_state()
    detailsApp,         \* app
    fromFile,           \* app_local_file # NULL
    byFormat,           \* origin_by_packaging_format
    known,              \* apps whose kind and state some refinement has found
    origins, originBox, \* origin_popover_list_box, and the button that opens it
    detailsJobs,        \* the jobs
    detailLoads,        \* how many loads there have been
    watched             \* apps whose notifications refresh the page, from an idle source
shownVars == <<detailsActive, detailsState, detailsApp, fromFile, byFormat, origins, originBox>>
detailsVars == <<shownVars, known, detailsJobs, detailLoads, watched>>

\* linked: its cancellable is self->cancellable
DetailKinds == {"stage1", "refine", "alternates", "refine instance", "file", "metainfo"}
DetailsTypeOK ==
    /\ {detailsActive, fromFile, byFormat} \subseteq BOOLEAN
    /\ detailsState \in {"loading", "ready", "failed"} /\ detailsApp \in DetailApps \union {NoApp}
    /\ {known, origins, watched} \subseteq SUBSET DetailApps /\ originBox \in {"hidden", "insensitive", "sensitive"}
    /\ detailLoads \in 0..MaxDetailLoads
    /\ detailsJobs \subseteq [load : 1..MaxDetailLoads, kind : DetailKinds, app : DetailApps \union {NoApp},
                              linked : BOOLEAN, cancelled : BOOLEAN]
    /\ \A x, y \in detailsJobs : x.load = y.load /\ x.kind = y.kind => x = y
    /\ (detailsApp # NoApp => detailsApp \in watched)

DetailsInit ==
    /\ detailsActive = FALSE /\ detailsState = "loading" /\ detailsApp = NoApp /\ fromFile = FALSE /\ byFormat = FALSE
    /\ known = {} /\ origins = {} /\ originBox = "hidden" /\ detailsJobs = {} /\ detailLoads = 0
    /\ watched = {}

-----------------------------------------------------------------------------
NewJob(load, kind, a) == [load |-> load, kind |-> kind, app |-> a, linked |-> TRUE, cancelled |-> FALSE]
Cancelled(jobs) == {IF x.linked THEN [x EXCEPT !.linked = FALSE, !.cancelled = TRUE] ELSE x : x \in jobs}

\* _set_app(): only the app there was is not listened to any more
SetAppTo(a) == detailsApp' = a /\ watched' = (watched \ {detailsApp}) \union {a}

\* gs_details_page_load_stage1(), of the app that is set
LoadStage1(a) ==
    /\ detailLoads < MaxDetailLoads /\ detailLoads' = detailLoads + 1
    /\ detailsState' = "loading" /\ originBox' = "hidden"
    /\ detailsJobs' = Cancelled(detailsJobs) \union {NewJob(detailLoads + 1, "stage1", a)}

\* gs_shell_change_mode() to this page: gs_details_page_set_app() of another
\* app, or of the same when the page was left
SetApp(a) ==
    /\ ~(detailsActive /\ detailsApp = a) /\ detailsActive' = TRUE
    /\ fromFile' = FALSE /\ SetAppTo(a) /\ byFormat' = TRUE /\ LoadStage1(a)
    /\ UNCHANGED <<known, origins>>

\* gs_details_page_set_local_file(), gs_details_page_set_url(),
\* gs_details_page_set_metainfo(): what runs is not cancelled, and the app that
\* is cleared is still listened to.
SetFile(kind) ==
    /\ detailLoads < MaxDetailLoads /\ detailLoads' = detailLoads + 1 /\ detailsActive' = TRUE
    /\ originBox' = (IF detailsActive THEN originBox ELSE "hidden")
    /\ detailsState' = "loading" /\ fromFile' = FALSE /\ detailsApp' = NoApp /\ byFormat' = FALSE
    /\ detailsJobs' = detailsJobs \union {NewJob(detailLoads + 1, kind, NoApp)}
    /\ UNCHANGED <<known, origins, watched>>

\* gs_details_page_reload(), of an app that is not busy; the app is another
\* place's (origin_popover_row_activated_cb())
ReloadDetails ==
    /\ detailsApp # NoApp /\ detailsActive /\ LoadStage1(detailsApp)
    /\ UNCHANGED <<detailsActive, detailsApp, fromFile, byFormat, known, origins, watched>>
SelectOrigin(a) ==
    /\ detailsActive /\ originBox = "sensitive" /\ a \in origins \ {detailsApp} /\ SetAppTo(a) /\ LoadStage1(a)
    /\ UNCHANGED <<detailsActive, fromFile, byFormat, known, origins>>

\* gs_details_page_app_launch_button_cb() takes another cancellable and leaves
\* the one of the jobs; the shell shows another page.
Launch ==
    /\ detailsActive /\ detailsState = "ready" /\ detailsJobs' = {[x EXCEPT !.linked = FALSE] : x \in detailsJobs}
    /\ UNCHANGED <<shownVars, known, detailLoads, watched>>
Leave ==
    /\ detailsActive /\ detailsActive' = FALSE
    /\ UNCHANGED <<detailsState, detailsApp, fromFile, byFormat, origins, originBox, known, detailsJobs, detailLoads, watched>>

-----------------------------------------------------------------------------
\* gs_details_page_load_stage2(), in the callback of job x
LoadStage2(x, a, continue) ==
    /\ detailsState' = "ready" /\ originBox' = IF detailsActive THEN "insensitive" ELSE "hidden"
    /\ detailsJobs' = (detailsJobs \ {x}) \union
         (IF continue THEN {NewJob(x.load, "refine", a), NewJob(x.load, "alternates", a)} ELSE {})

\* gs_details_page_load_stage1_cb(): goes on after an error, with the app of
\* the page; an app that is not known, or the parental filter hides, and NULL
\* fail.
Stage1Ends(x) ==
    /\ x.kind = "stage1"
    /\ \E ok \in {FALSE} \union {~x.cancelled} :
         /\ known' = IF ok THEN known \union {x.app} ELSE known
         /\ \/ detailsState' = "failed" /\ detailsJobs' = detailsJobs \ {x} /\ UNCHANGED originBox
            \/ detailsApp \in known' /\ LoadStage2(x, detailsApp, TRUE)
    /\ UNCHANGED <<detailsActive, detailsApp, fromFile, byFormat, origins, detailLoads, watched>>

\* gs_details_page_app_refine_cb(): only fills the page
RefineEnds(x) ==
    /\ x.kind \in {"refine", "refine instance"} /\ detailsJobs' = detailsJobs \ {x}
    /\ UNCHANGED <<shownVars, known, detailLoads, watched>>

\* gs_details_page_get_alternates_cb(): the last of the list that is the app of
\* the page or is like it, in its kind, scope, origin, branch and version, or the
\* one preferred for its packaging, or else the first becomes the app of the
\* page: which are alike and which preferred is data, so it may be any.  One that
\* was replaced, by a like one before, is refined although it came back.
ListAnyway(x) ==                        \* mutant: the list is not compared with the app
    /\ x.kind = "alternates" /\ byFormat' = FALSE
    /\ \/ /\ originBox' = "hidden" /\ origins' = {} /\ detailsJobs' = detailsJobs \ {x}
          /\ UNCHANGED <<detailsApp, watched, known>>
       \/ /\ detailsActive /\ ~x.cancelled
          /\ \E found \in SUBSET (IF x.app = FileApp THEN {} ELSE Alternates[x.app]) :
               LET list == IF fromFile THEN found \union {FileApp} ELSE found
               IN  /\ known' = known \union list /\ origins' = list /\ list # {}
                   /\ originBox' = "sensitive" /\ detailsJobs' = detailsJobs \ {x} /\ UNCHANGED <<detailsApp, watched>>
    /\ UNCHANGED <<detailsActive, detailsState, fromFile, detailLoads>>
AlternatesEnd(x) ==
    /\ x.kind = "alternates" /\ byFormat' = FALSE
    /\ \/ /\ originBox' = "hidden" /\ origins' = {} /\ detailsJobs' = detailsJobs \ {x}
          /\ UNCHANGED <<detailsApp, watched, known>>
       \/ /\ detailsActive /\ ~x.cancelled
          /\ \E found \in SUBSET (IF x.app = FileApp THEN {} ELSE Alternates[x.app]) :
               LET list == IF fromFile THEN found \union {FileApp} ELSE found
               IN  /\ known' = known \union list /\ origins' = list /\ list # {}
                   /\ \E a \in list, changed \in BOOLEAN :
                        /\ a # detailsApp => changed
                        /\ originBox' = "sensitive" /\ SetAppTo(a)
                        /\ detailsJobs' = (detailsJobs \ {x}) \union
                             (IF changed THEN {NewJob(x.load, "refine instance", a)} ELSE {})
    /\ UNCHANGED <<detailsActive, detailsState, fromFile, detailLoads>>

\* gs_details_page_file_to_app_cb(), gs_details_page_url_to_app_cb(): after an
\* error, that of a cancelled job too, the shell shows the overview.
FileEnds(x) ==
    /\ x.kind = "file"
    /\ \/ /\ detailsActive' = FALSE /\ detailsJobs' = detailsJobs \ {x}
          /\ UNCHANGED <<detailsState, detailsApp, fromFile, originBox, known, watched>>
       \/ /\ ~x.cancelled /\ fromFile' = TRUE /\ SetAppTo(FileApp) /\ known' = known \union {FileApp}
          /\ LoadStage2(x, FileApp, TRUE) /\ UNCHANGED detailsActive
    /\ UNCHANGED <<byFormat, origins, detailLoads>>

\* gs_details_page_metainfo_ready_cb()
MetainfoEnds(x) ==
    /\ x.kind = "metainfo"
    /\ \/ /\ detailsState' = "failed" /\ detailsJobs' = detailsJobs \ {x}
          /\ UNCHANGED <<detailsApp, fromFile, originBox, watched>>
       \/ ~x.cancelled /\ fromFile' = TRUE /\ SetAppTo(FileApp) /\ LoadStage2(x, FileApp, FALSE)
    /\ UNCHANGED <<detailsActive, byFormat, origins, known, detailLoads>>

DetailsJobEnds(x) == Stage1Ends(x) \/ RefineEnds(x) \/ AlternatesEnd(x) \/ FileEnds(x) \/ MetainfoEnds(x)

DetailsNext ==
    \/ \E a \in ListedApps : SetApp(a) \/ SelectOrigin(a)
    \/ \E kind \in {"file", "metainfo"} : SetFile(kind)
    \/ ReloadDetails \/ Launch \/ Leave
    \/ \E x \in detailsJobs : DetailsJobEnds(x)

\* The jobs of the page end.
DetailsFairness == WF_detailsVars(\E x \in detailsJobs : DetailsJobEnds(x))

DetailsSpec == DetailsInit /\ [][DetailsNext]_detailsVars

-----------------------------------------------------------------------------
\* The spinner is shown only as long as a job goes on that replaces it, though
\* the answers of older loads set the state of the page too
\* (gs_details_page_set_state()).
LoadingIsLoading ==
    detailsActive /\ detailsState = "loading" => \E x \in detailsJobs : x.kind \in {"stage1", "file", "metainfo"}

\* The page that is shown becomes ready or failed, or is left, whichever of the
\* loads that overlap ends last (gs_details_page_set_state()).
SpinnerIsReplaced ==
    detailsActive /\ detailsState = "loading" ~> ~detailsActive \/ detailsState # "loading"

\* A page that is ready has an app, whichever answer has made it ready
\* (gs_details_page_load_stage2()).
ReadyHasApp == detailsState = "ready" => detailsApp # NoApp

\* The places a user can choose from are those of an app and have it among
\* them, once the page has one (gs_details_page_get_alternates_cb()).
OriginsHaveTheApp == originBox = "sensitive" /\ detailsApp # NoApp => detailsApp \in origins

\* What the page shows and the jobs and the app it has agree.
DetailsInv == DetailsTypeOK /\ LoadingIsLoading /\ ReadyHasApp /\ OriginsHaveTheApp

\* Violated: without the user no page becomes that of an app which is not an
\* alternate of its own.  After an app was launched, the answer to its
\* "alternate-of" is not cancelled when another is shown.
StaysOnItsApp ==
    [][detailsApp' # detailsApp /\ detailsApp \in ListedApps /\ detailsApp' \in ListedApps /\ detailLoads' = detailLoads =>
         detailsApp' \in Alternates[detailsApp]]_detailsVars

\* Violated: the page of an app is not left by an answer about a file.
FileDoesNotLeave == [][detailsActive /\ ~detailsActive' /\ detailsApp \in ListedApps => detailsJobs' = detailsJobs]_detailsVars

\* Violated: a notification does not refresh a page without an app
\* (gs_details_page_refresh_idle()).  The app that a file replaces is still
\* listened to, and refresh_all() is called with NULL.
RefreshesAnApp == detailsActive /\ detailsApp = NoApp => watched = {}

\* Violated: a preference for a packaging format is for the app that was shown,
\* and is not used up by the answer about the app before.
FormatIsOfTheApp == [][byFormat /\ ~byFormat' /\ detailLoads' = detailLoads => \E x \in detailsJobs \ detailsJobs' : ~x.cancelled]_detailsVars
=============================================================================
