------------------------------- MODULE MCPages -------------------------------
(* The pages of the application.  Each has its own state and jobs, and they  *)
(* are checked in one run: each behaviour is one of the page its focus       *)
(* names, and the other pages stay as they begin.                            *)
EXTENDS UpdatesPage, OverviewPage, SearchPage, InstalledPage, CategoryPage, DetailsPage, TLC

CONSTANTS one, other        \* apps of the details page: other is listed for one, and not one for other
MCAlternates == (one :> {one, other}) @@ (other :> {other})

VARIABLE focus
pagesVars == <<focus, vars, overviewVars, searchVars, installedVars, categoryVars, detailsVars>>

PagesInit ==
    /\ focus \in {"updates", "overview", "search", "installed", "category", "details"}
    /\ Init /\ OverviewInit /\ SearchInit /\ InstalledInit /\ CategoryInit /\ DetailsInit
    /\ focus = "overview" \/ asks = FALSE
    /\ focus = "installed" \/ \A a \in PageApps : pageApp[a].state = "available"

PagesNext ==
    /\ UNCHANGED focus
    /\ \/ focus = "updates" /\ Next /\ UNCHANGED <<overviewVars, searchVars, installedVars, categoryVars, detailsVars>>
       \/ focus = "overview" /\ OverviewNext /\ UNCHANGED <<vars, searchVars, installedVars, categoryVars, detailsVars>>
       \/ focus = "search" /\ SearchNext /\ UNCHANGED <<vars, overviewVars, installedVars, categoryVars, detailsVars>>
       \/ focus = "installed" /\ InstalledNext /\ UNCHANGED <<vars, overviewVars, searchVars, categoryVars, detailsVars>>
       \/ focus = "category" /\ CategoryNext /\ UNCHANGED <<vars, overviewVars, searchVars, installedVars, detailsVars>>
       \/ focus = "details" /\ DetailsNext /\ UNCHANGED <<vars, overviewVars, searchVars, installedVars, categoryVars>>

\* The fairness of a page, which only the page that moves can enable.
PagesSpec ==
    /\ PagesInit /\ [][PagesNext]_pagesVars
    /\ Fairness /\ OverviewFairness /\ SearchFairness /\ InstalledFairness /\ CategoryFairness /\ DetailsFairness

\* No page goes on loading for ever, provided the user, the loader and the other
\* pages stop loading it again at some time (the bounds on loads): the updates,
\* the overview, the installed apps, the tiles of a category and the details of
\* an app are all shown, or an error.  The search page is the exception: a
\* search that is not left is answered, one that is left may keep its spinner
\* (SpinnerEnds).
LoadsEnd ==
    /\ SpinnerStops /\ LoadingEnds /\ ListIsLoaded /\ TilesAreReplaced /\ SpinnerIsReplaced
    /\ SearchIsAnswered
=============================================================================
