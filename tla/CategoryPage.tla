---------------------------- MODULE CategoryPage ----------------------------
(***************************************************************************)
(* src/gs-category-page.c: the apps of a category, loaded by two jobs that *)
(* run at the same time.  Another category, or a reload, cancels the jobs  *)
(* of the load before; a cancelled job still answers, with an error, and   *)
(* answers of two loads come in any order.                                 *)
(***************************************************************************)
EXTENDS Naturals

CONSTANTS
    Categories, NoCategory,
    WithFeatured,       \* categories with a subcategory "featured"
    MaxCategoryLoads    \* bound: loads

ASSUME CategoryAssumption ==
    /\ NoCategory \notin Categories /\ "placeholders" \notin Categories \union {NoCategory}
    /\ WithFeatured \subseteq Categories /\ MaxCategoryLoads \in Nat

VARIABLES
    category,           \* category; subcategory is its "all", which each has
    categoryLoads,      \* loads, by their LoadCategoryData
    nextLoad,           \* how many there have been
    tiles               \* what the boxes show: the apps of a category, or none
categoryVars == <<category, categoryLoads, nextLoad, tiles>>

Finished == {"apps", "failed"}          \* the callback has stored apps, or nothing
CategoryTypeOK ==
    /\ category \in Categories \union {NoCategory} /\ nextLoad \in 0..MaxCategoryLoads
    /\ categoryLoads \subseteq [id : 1..MaxCategoryLoads, of : Categories, featured : {"runs"} \union Finished,
                                main : {"runs"} \union Finished, cancelled : BOOLEAN]
    /\ tiles \in Categories \union {NoCategory, "placeholders"}
    /\ \A x, y \in categoryLoads : x.id = y.id => x = y
    /\ \A x \in categoryLoads : x.id <= nextLoad /\ (x.cancelled <=> x.id # nextLoad)

CategoryInit == category = NoCategory /\ categoryLoads = {} /\ nextLoad = 0 /\ tiles = NoCategory

-----------------------------------------------------------------------------
\* gs_category_page_load_category()
LoadCategory(of) ==
    /\ nextLoad < MaxCategoryLoads /\ nextLoad' = nextLoad + 1 /\ tiles' = "placeholders"
    /\ categoryLoads' = {[x EXCEPT !.cancelled = TRUE] : x \in categoryLoads}
         \union {[id |-> nextLoad + 1, of |-> of, main |-> "runs", cancelled |-> FALSE,
                  featured |-> IF of \in WithFeatured THEN "runs" ELSE "failed"]}

\* gs_category_page_set_category(), gs_category_page_reload()
SetCategory(c) == c # category /\ category' = c /\ LoadCategory(c)
ReloadCategory == category # NoCategory /\ LoadCategory(category) /\ UNCHANGED category

ForgetsFailures(x, y) ==                \* mutant: a callback that gets an error does not finish the load
    IF "runs" \in {y.featured, y.main} \/ y.main = "failed" THEN UNCHANGED tiles /\ categoryLoads' = (categoryLoads \ {x}) \union {y}
    ELSE tiles' = y.of /\ categoryLoads' = categoryLoads \ {x}
\* load_category_finish(), in the callback that makes y of x: without a list
\* of apps the boxes are emptied
LoadCategoryFinish(x, y) ==
    IF "runs" \in {y.featured, y.main} THEN UNCHANGED tiles /\ categoryLoads' = (categoryLoads \ {x}) \union {y}
    ELSE tiles' = (IF y.main = "apps" THEN y.of ELSE NoCategory) /\ categoryLoads' = categoryLoads \ {x}

\* gs_category_page_get_featured_apps_cb(), gs_category_page_get_apps_cb()
Answers(x) == IF x.cancelled THEN {"failed"} ELSE Finished
GetFeaturedApps(x) ==
    /\ x.featured = "runs" /\ \E f \in Answers(x) : LoadCategoryFinish(x, [x EXCEPT !.featured = f])
    /\ UNCHANGED <<category, nextLoad>>
GetApps(x) ==
    /\ x.main = "runs" /\ \E f \in Answers(x) : LoadCategoryFinish(x, [x EXCEPT !.main = f])
    /\ UNCHANGED <<category, nextLoad>>

CategoryNext ==
    \/ \E c \in Categories : SetCategory(c)
    \/ ReloadCategory
    \/ \E x \in categoryLoads : GetFeaturedApps(x) \/ GetApps(x)

\* The jobs of a load answer, the cancelled ones too.
CategoryFairness == WF_categoryVars(\E x \in categoryLoads : GetFeaturedApps(x) \/ GetApps(x))

CategorySpec == CategoryInit /\ [][CategoryNext]_categoryVars

-----------------------------------------------------------------------------
\* The loading tiles are shown only while a load goes on that replaces them,
\* whichever of its jobs fails and however many loads there are
\* (load_category_finish()).
PlaceholdersEnd ==
    /\ tiles = "placeholders" => \E x \in categoryLoads : ~x.cancelled
    /\ \A x \in categoryLoads : "runs" \in {x.featured, x.main}

\* The loading tiles are replaced in the end, by apps or by nothing, although
\* loads cancel each other (load_category_finish()).
TilesAreReplaced == tiles = "placeholders" ~> tiles # "placeholders"

\* The loads are cancelled but for the last, and each ends in the boxes.
CategoryInv == CategoryTypeOK /\ PlaceholdersEnd

\* Violated: the apps that are displayed are those of "the category to display
\* the apps from" (GsCategoryPage:category).  A load whose list of apps is
\* stored when it is cancelled still waits for the featured ones, and then
\* shows its list in place of the new category's.
ShowsItsCategory == tiles \in Categories => tiles = category

\* Violated: when nothing is loaded any more, the list is that of the last load.
\* A load that was cancelled empties the boxes, after the load that replaced
\* it has filled them too.
LastLoadIsShown ==
    [][\A x \in categoryLoads : x.cancelled /\ x \notin categoryLoads' /\ nextLoad' = nextLoad => tiles' = tiles]_categoryVars
=============================================================================
