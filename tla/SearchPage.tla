----------------------------- MODULE SearchPage -----------------------------
(***************************************************************************)
(* src/gs-search-page.c, with what src/gs-shell.c does about it: the pages *)
(* it switches between, its stack of places to go back to and its entry.   *)
(* A search is a job of the loader; its answer comes when the page may     *)
(* have another text or may be hidden.  Of the pages with the entry, the   *)
(* overview stands for all; those of one app are above them.               *)
(***************************************************************************)
EXTENDS Naturals, Sequences

CONSTANTS
    Texts,              \* what is searched for
    NoText,             \* self->value == NULL
    MaxStamp,           \* bound: searches
    MaxBack             \* bound: the length of the stack

ASSUME SearchAssumption == NoText \notin Texts /\ {MaxStamp, MaxBack} \subseteq Nat

VARIABLES
    details,            \* whether the page of an app is shown above the others
    mainPage,           \* what is shown below it
    backStack,          \* back_entry_stack, the head first
    entry, entryChanged,        \* entry_search, and its delayed "search-changed"
    searchPage,         \* the page
    searches,           \* its jobs
    appToShow, creating \* appid_to_show, and the call that creates the app
searchVars == <<details, mainPage, backStack, entry, entryChanged, searchPage, searches, appToShow, creating>>

\* gs_shell_get_mode()
ModeOf(above, main) == IF above THEN "details" ELSE main
shellMode == ModeOf(details, mainPage)

SearchTypeOK ==
    /\ details \in BOOLEAN /\ mainPage \in {"overview", "search"}
    /\ backStack \in Seq([mode : {"overview", "search", "details"}, search : Texts \union {NoText}])
    /\ entry \in Texts \union {NoText} /\ {entryChanged, appToShow, creating} \subseteq BOOLEAN
    /\ searchPage \in [value : Texts \union {NoText}, changed : BOOLEAN, stamp : 0..MaxStamp, waiting : BOOLEAN,
                       shows : {"nothing", "spinner", "no results", "results"}, of : Texts \union {NoText}]
    /\ searches \subseteq [stamp : 1..MaxStamp, text : Texts, cancelled : BOOLEAN]
    /\ \A s, t \in searches : s.stamp = t.stamp => s = t

SearchInit ==
    /\ details = FALSE /\ mainPage = "overview" /\ backStack = <<>>
    /\ entry = NoText /\ entryChanged = FALSE /\ appToShow = FALSE /\ creating = FALSE
    /\ searchPage = [value |-> NoText, changed |-> FALSE, stamp |-> 0, waiting |-> FALSE, shows |-> "nothing", of |-> NoText]
    /\ searches = {}

-----------------------------------------------------------------------------
\* What is done to the page, of the page and its jobs together.
Both == [page |-> searchPage, jobs |-> searches]
Become(x) == searchPage' = x.page /\ searches' = x.jobs
CancelAll(jobs) == {[s EXCEPT !.cancelled = TRUE] : s \in jobs}

LoadBeside(x) ==                        \* mutant: the search that runs is neither cancelled nor outdated
    [page |-> [x.page EXCEPT !.changed = FALSE, !.stamp = IF @ = 0 THEN 1 ELSE @, !.waiting = TRUE],
     jobs |-> x.jobs \union {[stamp |-> IF x.page.stamp = 0 THEN 1 ELSE x.page.stamp, text |-> x.page.value, cancelled |-> FALSE]}]
\* gs_search_page_load()
LoadSearch(x) ==
    [page |-> [x.page EXCEPT !.changed = FALSE, !.stamp = @ + 1, !.waiting = TRUE],
     jobs |-> CancelAll(x.jobs) \union {[stamp |-> x.page.stamp + 1, text |-> x.page.value, cancelled |-> FALSE]}]

\* gs_search_page_reload(); set_text() of the active page; switch_to();
\* switch_from()
Repeated(x) == IF x.page.value # NoText THEN LoadSearch(x) ELSE x
SetText(x, text) == IF text = x.page.value THEN x ELSE LoadSearch([x EXCEPT !.page.value = text])
SwitchToSearch(x) == IF x.page.value # NoText /\ x.page.changed THEN LoadSearch(x) ELSE x
SwitchFrom(x) == [x EXCEPT !.jobs = CancelAll(@)]

Pushed == <<[mode |-> shellMode, search |-> IF shellMode = "search" THEN searchPage.value ELSE NoText]>> \o backStack

\* gs_shell_change_mode(), with stack_notify_visible_child_cb() for each page
\* that is shown on the way: to a search...
ShowSearchPage(text, stack, x) ==
    IF shellMode = "search" THEN backStack' = stack /\ Become(x) /\ UNCHANGED <<details, mainPage, entry, entryChanged>>
    ELSE /\ details' = FALSE /\ mainPage' = "search"
         /\ backStack' = IF shellMode = "details" /\ mainPage = "overview" THEN <<>> ELSE stack
         /\ Become(SetText(SwitchToSearch(x), text)) /\ entry' = text /\ entryChanged' = TRUE

\* ... to another page, which hides the entry and so empties it...
HideEntry == entry' = NoText /\ entryChanged' = FALSE
ShowOverview ==
    /\ details' = FALSE /\ mainPage' = "overview" /\ HideEntry /\ backStack' = <<>>
    /\ IF mainPage = "overview" THEN UNCHANGED <<searchPage, searches>>
       ELSE Become(SwitchFrom(IF details THEN SwitchToSearch(Both) ELSE Both))
\* ... and to an app.
ShowAppPage(stack, x) ==
    /\ details' = TRUE /\ backStack' = stack /\ HideEntry /\ UNCHANGED mainPage
    /\ Become(IF shellMode = "search" THEN SwitchFrom(x) ELSE x)

Room == Len(backStack) < MaxBack
AppToShowStays == UNCHANGED <<appToShow, creating>>

Typed(text) ==
    /\ ~details /\ text # entry /\ entry' = text /\ entryChanged' = TRUE
    /\ UNCHANGED <<details, mainPage, backStack, searchPage, searches>> /\ AppToShowStays

\* search_changed_handler()
SearchChanged ==
    /\ entryChanged /\ AppToShowStays
    /\ IF shellMode # "search" THEN Room /\ ShowSearchPage(entry, Pushed, Both)
       ELSE /\ entryChanged' = FALSE /\ Become(SwitchToSearch(SetText(Both, entry)))
            /\ UNCHANGED <<details, mainPage, backStack, entry>>

\* gs_shell_show_search(), gs_shell_show_search_result()
ShowSearch(text) == Room /\ ShowSearchPage(text, Pushed, Both) /\ AppToShowStays
ShowSearchResult(text) ==
    /\ Room /\ appToShow' = TRUE /\ UNCHANGED creating
    /\ ShowSearchPage(text, Pushed, IF appToShow THEN Both ELSE [Both EXCEPT !.page.changed = TRUE])

\* gs_shell_show_app(); the header's buttons; gs_shell_go_back()
ShowApp == Room /\ ShowAppPage(Pushed, Both) /\ AppToShowStays
OverviewButton == shellMode # "overview" /\ ShowOverview /\ AppToShowStays
GoBack ==
    /\ shellMode # "overview" /\ AppToShowStays
    /\ IF backStack = <<>> THEN ShowOverview
       ELSE CASE Head(backStack).mode = "overview" -> ShowOverview
              [] Head(backStack).mode = "details" -> ShowAppPage(Tail(backStack), Both)
              [] Head(backStack).mode = "search" /\ shellMode # "search" -> ShowSearchPage(Head(backStack).search, Tail(backStack), Both)
              [] OTHER -> /\ backStack' = Tail(backStack) /\ entry' = Head(backStack).search
                          /\ UNCHANGED <<details, mainPage, entryChanged, searchPage, searches>>

\* The loader emits "reload", or an app of the page is installed or removed;
\* the row for more results is activated.
ReloadSearch ==
    /\ Become(Repeated(Both)) /\ UNCHANGED <<details, mainPage, backStack, entry, entryChanged>> /\ AppToShowStays
MoreResults ==
    /\ shellMode = "search" /\ searchPage.shows = "results" /\ Become(LoadSearch(Both))
    /\ UNCHANGED <<details, mainPage, backStack, entry, entryChanged>> /\ AppToShowStays

\* gs_search_page_waiting_show_cb()
WaitingShow ==
    /\ searchPage.waiting /\ searchPage' = [searchPage EXCEPT !.waiting = FALSE, !.shows = "spinner"]
    /\ UNCHANGED <<details, mainPage, backStack, entry, entryChanged, searches>> /\ AppToShowStays

NeverOutdated(s) == FALSE               \* mutant: the stamp is not compared
Outdated(s) == s.stamp # searchPage.stamp

\* gs_search_page_get_search_cb(): a search that was cancelled has no answer.
SearchEnds(s) ==
    /\ s \in searches
    /\ LET gone == searches \ {s}
           x(shows, of) == [page |-> [searchPage EXCEPT !.waiting = FALSE, !.shows = shows, !.of = of], jobs |-> gone]
           stays == /\ UNCHANGED <<details, mainPage, backStack, entry, entryChanged>> /\ AppToShowStays
       IN  IF Outdated(s) THEN searches' = gone /\ UNCHANGED searchPage /\ stays
           ELSE IF s.cancelled THEN Become(x(searchPage.shows, searchPage.of)) /\ stays
           ELSE \/ Become(x("no results", NoText)) /\ stays
                \/ ~appToShow /\ Become(x("results", s.text)) /\ stays
                \/ appToShow /\ appToShow' = FALSE
                   /\ \/ /\ creating' = TRUE /\ Become(x("results", s.text))
                         /\ UNCHANGED <<details, mainPage, backStack, entry, entryChanged>>
                      \/ Room /\ ShowAppPage(Pushed, x("results", s.text)) /\ UNCHANGED creating

\* gs_search_page_app_to_show_created_cb()
AppCreated ==
    /\ creating /\ creating' = FALSE /\ UNCHANGED appToShow
    /\ \/ Room /\ ShowAppPage(Pushed, Both)
       \/ UNCHANGED <<details, mainPage, backStack, entry, entryChanged, searchPage, searches>>

SearchNext ==
    /\ \/ SearchChanged \/ ShowApp \/ OverviewButton \/ GoBack \/ ReloadSearch \/ MoreResults \/ WaitingShow \/ AppCreated
       \/ \E text \in Texts : Typed(text) \/ ShowSearch(text) \/ ShowSearchResult(text)
       \/ \E s \in searches : SearchEnds(s)
    /\ searchPage'.stamp <= MaxStamp

\* The searches end, the cancelled ones too.
SearchFairness == WF_searchVars(\E s \in searches : SearchEnds(s))

SearchSpec == SearchInit /\ [][SearchNext]_searchVars

-----------------------------------------------------------------------------
\* The results that are put on the page are those of its text, however the
\* answers are delayed (gs_search_page_get_search_cb()).
ResultsAreOfTheText ==
    [][searchPage'.shows = "results" /\ searchPage'.of # searchPage.of => searchPage'.of = searchPage'.value]_searchVars

\* The search of the page goes on.
SearchRuns(s) == s.stamp = searchPage.stamp /\ ~s.cancelled

\* A search that goes on gets its spinner: an answer to another one does not
\* stop the timer (gs_search_page_waiting_cancel()).
SearchIsWaitedFor ==
    (\E s \in searches : SearchRuns(s)) => searchPage.waiting \/ searchPage.shows = "spinner"

\* The spinner of a search that runs is replaced by what is found, whatever is
\* searched for meanwhile, unless the user leaves the page, which cancels the
\* search.  (What becomes of the spinner then is SpinnerEnds below.)
SearchIsAnswered ==
    searchPage.shows = "spinner" /\ (\E s \in searches : SearchRuns(s))
    ~> searchPage.shows # "spinner" \/ (shellMode # "search" /\ ~\E s \in searches : SearchRuns(s))

\* From the overview there is nowhere to go back to
\* (gs_shell_clean_back_entry_stack()).
OverviewIsTheRoot == shellMode = "overview" => backStack = <<>>

\* The page, its timer and the stack of the shell agree with each other.
SearchInv == SearchTypeOK /\ SearchIsWaitedFor /\ OverviewIsTheRoot

\* The inductive invariant of the proofs of SearchInv and ResultsAreOfTheText:
\* what is searched for is a text wherever it comes from, and the search with
\* the stamp of the page is for the text of the page.
TextsAreThere ==
    /\ mainPage = "search" => searchPage.value \in Texts
    /\ entryChanged => entry \in Texts
    /\ \A i \in 1..Len(backStack) : backStack[i].mode = "search" => backStack[i].search \in Texts
StampIsOfTheText ==
    \A s \in searches : s.stamp <= searchPage.stamp /\ (s.stamp = searchPage.stamp => s.text = searchPage.value)
SearchIInv == SearchInv /\ TextsAreThere /\ StampIsOfTheText

\* Violated: the page shows a spinner and nothing runs.  A search that is left
\* before it ends is cancelled and not started again.
SpinnerEnds ==
    shellMode = "search" /\ searchPage.shows = "spinner" =>
        searchPage.changed \/ \E s \in searches : s.stamp = searchPage.stamp
=============================================================================
