---------------------------- MODULE OverviewPage ----------------------------
(***************************************************************************)
(* src/gs-overview-page.c: the sections of the page, each loaded by a job, *)
(* and the question about the third-party repositories.  The answers come  *)
(* in any order and share one counter, one flag that the page is valid and *)
(* one that it is empty; a reload may come between two of them.            *)
(***************************************************************************)
EXTENDS FiniteSets, Naturals

CONSTANTS Sections, Featured, MaxCatalog     \* MaxCatalog: bound of the changes of what there is to show

ASSUME OverviewAssumption == Featured \in Sections /\ IsFiniteSet(Sections) /\ MaxCatalog \in Nat

VARIABLES
    catalog,            \* what the plug-ins would answer
    sectionJobs,        \* the jobs, and the catalog when each was started
    loading, overviewCnt,       \* the flags loading_..., and action_cnt
    overviewValid, empty, noResults,    \* cache_valid, empty, and what stack_overview shows
    sectionShows,       \* the catalog each section is from, or that it is hidden
    overwritten,        \* featured_overwritten
    asks,               \* what fedora-third-party would answer
    queries, switches,  \* calls of it: those that have read it, those that have changed it
    needsQuestion, infobar
sectionVars == <<catalog, sectionJobs, loading, overviewCnt, overviewValid, empty, noResults, sectionShows, overwritten>>
thirdPartyVars == <<asks, queries, switches, needsQuestion, infobar>>
overviewVars == <<sectionVars, thirdPartyVars>>

Hidden == MaxCatalog + 1
Overridden == MaxCatalog + 2            \* the featured app a user has opened from a file

OverviewTypeOK ==
    /\ catalog \in 0..MaxCatalog /\ loading \subseteq Sections /\ overviewCnt \in 0..Cardinality(Sections)
    /\ sectionJobs \subseteq [section : Sections, since : 0..MaxCatalog]
    /\ {overviewValid, empty, noResults, overwritten, asks, needsQuestion, infobar} \subseteq BOOLEAN
    /\ sectionShows \in [Sections -> 0..Overridden]
    /\ queries \subseteq {"starts", "ask", "answered"} /\ switches \subseteq {"runs", "done"}

OverviewInit ==
    /\ catalog = 0 /\ sectionJobs = {} /\ loading = {} /\ overviewCnt = 0
    /\ overviewValid = FALSE /\ empty = FALSE /\ noResults = FALSE /\ overwritten = FALSE
    /\ sectionShows = [s \in Sections |-> Hidden]
    /\ asks \in BOOLEAN /\ queries = {"starts"} /\ switches = {} /\ needsQuestion = FALSE /\ infobar = FALSE

-----------------------------------------------------------------------------
\* gs_overview_page_load(), with reload_third_party_repo()
LoadOverview(now) ==
    /\ empty' = TRUE
    /\ sectionJobs' = sectionJobs \union {[section |-> s, since |-> now] : s \in Sections \ loading}
    /\ loading' = Sections /\ overviewCnt' = overviewCnt + Cardinality(Sections \ loading)
    /\ queries' = queries \union {"starts"}

\* gs_overview_page_reload(), gs_overview_page_switch_to()
ReloadOverview ==
    /\ overwritten' = FALSE /\ overviewValid' = FALSE /\ LoadOverview(catalog)
    /\ UNCHANGED <<catalog, noResults, sectionShows, asks, switches, needsQuestion, infobar>>
SwitchToOverview ==
    /\ ~overviewValid /\ overviewCnt = 0 /\ LoadOverview(catalog)
    /\ UNCHANGED <<catalog, overviewValid, noResults, sectionShows, overwritten, asks, switches, needsQuestion, infobar>>

\* A job changes what there is, and the loader emits "reload".
CatalogChanges ==
    /\ catalog < MaxCatalog /\ catalog' = catalog + 1 /\ overwritten' = FALSE /\ overviewValid' = FALSE /\ LoadOverview(catalog + 1)
    /\ UNCHANGED <<noResults, sectionShows, asks, switches, needsQuestion, infobar>>

EachIsDone ==                           \* mutant: every answer is taken for the last one
    /\ overviewCnt' = overviewCnt - 1 /\ overviewValid' = TRUE /\ noResults' = empty' /\ loading' = {}
\* gs_overview_page_decrement_action_cnt(), refreshed_cb()
DecrementActionCnt ==
    /\ overviewCnt' = overviewCnt - 1
    /\ IF overviewCnt > 1 THEN UNCHANGED <<overviewValid, noResults, loading>>
       ELSE overviewValid' = TRUE /\ noResults' = empty' /\ loading' = {}

\* gs_overview_page_get_..._cb(): an answer, from a moment the job ran, too
\* few apps for the section, or an error.
SectionAnswers(job) ==
    /\ sectionJobs' = sectionJobs \ {job}
    /\ \/ /\ ~(job.section = Featured /\ overwritten) /\ empty' = FALSE
          /\ \E seen \in job.since..catalog : sectionShows' = [sectionShows EXCEPT ![job.section] = seen]
       \/ ~(job.section = Featured /\ overwritten) /\ sectionShows' = [sectionShows EXCEPT ![job.section] = Hidden] /\ UNCHANGED empty
       \/ UNCHANGED <<sectionShows, empty>>
    /\ DecrementActionCnt
    /\ UNCHANGED <<catalog, overwritten, thirdPartyVars>>

\* gs_overview_page_override_featured()
OverrideFeatured ==
    /\ overwritten' = TRUE /\ sectionShows' = [sectionShows EXCEPT ![Featured] = Overridden]
    /\ UNCHANGED <<catalog, sectionJobs, loading, overviewCnt, overviewValid, empty, noResults, thirdPartyVars>>

-----------------------------------------------------------------------------
\* fedora-third-party runs, and fedora_third_party_query_done_cb() takes its
\* answer; a query that is cancelled changes nothing.
Queried ==
    /\ "starts" \in queries /\ queries' = (queries \ {"starts"}) \union {IF asks THEN "ask" ELSE "answered"}
    /\ UNCHANGED <<sectionVars, asks, switches, needsQuestion, infobar>>
QueryDone ==
    /\ \E answer \in queries \ {"starts"} :
         /\ queries' = queries \ {answer}
         /\ \/ needsQuestion' = (answer = "ask") /\ infobar' = needsQuestion'
            \/ infobar' = needsQuestion /\ UNCHANGED needsQuestion
    /\ UNCHANGED <<sectionVars, asks, switches>>

\* third_party_response_cb(), and the end of the call that tells the answer,
\* which may fail
ThirdPartyResponse ==
    /\ infobar /\ switches' = switches \union {"runs"} /\ needsQuestion' = FALSE /\ infobar' = FALSE
    /\ UNCHANGED <<sectionVars, asks, queries>>
Switched ==
    /\ "runs" \in switches /\ switches' = (switches \ {"runs"}) \union {"done"} /\ asks' \in {asks, FALSE}
    /\ UNCHANGED <<sectionVars, queries, needsQuestion, infobar>>
SwitchDone ==
    /\ "done" \in switches /\ switches' = switches \ {"done"} /\ infobar' = needsQuestion
    /\ UNCHANGED <<sectionVars, asks, queries, needsQuestion>>

OverviewNext ==
    \/ ReloadOverview \/ SwitchToOverview \/ CatalogChanges \/ OverrideFeatured
    \/ \E job \in sectionJobs : SectionAnswers(job)
    \/ Queried \/ QueryDone \/ ThirdPartyResponse \/ Switched \/ SwitchDone

\* Each job of the page ends, in one of its ways.
OverviewFairness == WF_overviewVars(\E job \in sectionJobs : SectionAnswers(job))

OverviewSpec == OverviewInit /\ [][OverviewNext]_overviewVars

-----------------------------------------------------------------------------
\* action_cnt counts the jobs that run, one for each section at most, and the
\* flags of the sections do not outlast them: "action_cnt already zero!" is
\* never written, and no section is kept from being loaded for ever.
ActionsAreJobs ==
    /\ overviewCnt = Cardinality(sectionJobs) /\ Cardinality({job.section : job \in sectionJobs}) = overviewCnt
    /\ {job.section : job \in sectionJobs} \subseteq loading /\ (loading # {} => sectionJobs # {})

\* The page is not valid while a part of it is loaded, though a reload may
\* come before each answer.
ValidIsQuiet == overviewValid => sectionJobs = {} /\ loading = {}

\* Every load ends: however many reloads come while sections are loaded, none
\* of them is loaded for ever, though each reload adds to the jobs that run.
LoadingEnds == loading # {} ~> loading = {}

\* The counter, the flags and the validity of the page agree with its jobs.
OverviewInv == OverviewTypeOK /\ ActionsAreJobs /\ ValidIsQuiet

\* The inductive invariant of the proof of OverviewInv: no section has two jobs.
OneJobPerSection ==
    /\ \A j, k \in sectionJobs : j.section = k.section => j = k
    /\ \A j \in sectionJobs : j.section \in loading
    /\ IsFiniteSet(sectionJobs) /\ overviewCnt = Cardinality(sectionJobs)
    /\ loading # {} => sectionJobs # {}
    /\ overviewValid => loading = {}
OverviewIInv == OverviewTypeOK /\ OneJobPerSection

\* Violated: a valid page shows what there is, or did when its jobs ran.  A
\* reload does not load a section again whose answer is there already, if
\* another section is still loaded.
ValidIsCurrent ==
    overviewValid => \A s \in Sections : sectionShows[s] # Hidden /\ sectionShows[s] # Overridden => sectionShows[s] = catalog

\* Violated: a page with a section that is shown does not say that there are no
\* results.  Such a reload, or one whose jobs fail, makes it say so.
NoResultsIsEmpty == overviewValid /\ noResults => \A s \in Sections : sectionShows[s] \in {Hidden, Overridden}

\* Violated: a question that was answered, and the answer stored, is not asked
\* again.  The answer of a query that began before comes after.
AnsweredIsNotAsked == infobar => asks
=============================================================================
