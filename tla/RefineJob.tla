------------------------------ MODULE RefineJob ------------------------------
(***************************************************************************)
(* lib/gs-plugin-job-refine.c: GsPluginJobRefine.  A refine of a list asks *)
(* the plugins one after the other, then the reviews service, then runs    *)
(* further refines of the addons, the runtimes and the related apps of the *)
(* list at the same time, each with fewer flags, and returns when all of   *)
(* them have returned.                                                     *)
(*                                                                         *)
(* A refine is named by its path: <<>> is the one the job was made for,    *)
(* Append(path, "addons") the one of the addons of the apps of path.       *)
(* Everything runs on the main thread; the callbacks come in any order.    *)
(***************************************************************************)
EXTENDS Naturals, FiniteSets, Sequences, SequencesExt

CONSTANTS
    NPlugins,       \* plugins 1..NPlugins, in the order of the loader
    Apps, Wildcards,\* apps, and those that are wildcards
    Resolved,       \* Resolved[w]: the apps a plugin replaces the wildcard w by
    Parts,          \* Parts[layer][a]: the apps the refine of a layer adds for a
    Addon,          \* an addon with the same source as its parent, or None
    Adopted,        \* apps some plugin adopts
    Valid,          \* apps gs_plugin_loader_app_is_valid() keeps
    None

Layers == {"addons", "runtime", "related"}
Flags == Layers \union {"reviews", "review-ratings", "rating", "other"}
PluginIds == 1..NPlugins
Reviews == NPlugins + 1             \* the reviews service, asked after the plugins

Errors == {"failed"} \X (PluginIds \union {Reviews})
Ok == <<"ok", 0>>
Outcomes == {Ok} \union Errors

ASSUME RefineAssumption ==
    /\ NPlugins \in Nat /\ IsFiniteSet(Apps) /\ Wildcards \subseteq Apps /\ Adopted \subseteq Apps
    /\ Valid \subseteq Apps \ Wildcards
    /\ Resolved \in [Wildcards -> SUBSET Apps]
    /\ Parts \in [Layers -> [Apps -> SUBSET Apps]]
    /\ Addon \in Apps \union {None} /\ None \notin Apps \union Outcomes

VARIABLES
    refiners,       \* plugins that are enabled and have refine_async()
    reviewed,       \* whether the loader has a reviews service
    appList,        \* self->app_list
    refineFlags,    \* self->flags
    filtering,      \* no DISABLE_FILTERING in the flags
    refine,         \* the refines that have started and were not taken notice of
    refined,        \* <<p, a>>: plugin p, or the reviews service, has refined app a
    addons,         \* the addons of each app
    management,     \* the apps with a management plugin
    frozen,         \* how often notifications of each app are frozen
    thaws,          \* app_thaw_notify_idle() sources, as a sequence of apps
    resultList,     \* self->result_list
    refineEnd       \* what the job returned: None, Ok or an error
inputs == <<refiners, reviewed, appList, refineFlags, filtering>>
refineVars == <<inputs, refine, refined, addons, management, frozen, thaws, resultList, refineEnd>>

Paths == {s \in UNION {[1..n -> Layers] : n \in 0..3} : IsInjective(s)}
RefineOp == [list : SUBSET Apps, flags : SUBSET Flags,
             op : 0..Reviews,               \* what runs; nothing is 0
             next : 0..Reviews,             \* next_plugin_index
             layers : SUBSET Layers,        \* the refines it waits for
             error : Errors \union {None}, returned : BOOLEAN]

RefineTypeOK ==
    /\ refiners \subseteq PluginIds /\ reviewed \in BOOLEAN /\ filtering \in BOOLEAN
    /\ appList \subseteq Apps /\ refineFlags \subseteq Flags /\ resultList \subseteq Apps
    /\ DOMAIN refine \subseteq Paths /\ \A path \in DOMAIN refine : refine[path] \in RefineOp
    /\ refined \subseteq (PluginIds \union {Reviews}) \X Apps /\ addons \in [Apps -> SUBSET Apps]
    /\ management \subseteq Apps /\ frozen \in [Apps -> Nat] /\ thaws \in Seq(Apps)
    /\ refineEnd \in Outcomes \union {None}

RefineInit ==
    /\ refiners \in SUBSET PluginIds /\ reviewed \in BOOLEAN /\ appList = {} /\ refineFlags = {} /\ filtering = TRUE
    /\ refine = <<>> /\ refined = {} /\ addons = Parts["addons"]
    /\ management = {} /\ frozen = [a \in Apps |-> 0] /\ thaws = <<>>
    /\ resultList = {} /\ refineEnd = None

-----------------------------------------------------------------------------
NextRefiners(after) == {p \in refiners : p > after}
First(plugins) == CHOOSE p \in plugins : \A q \in plugins : p <= q

\* run_refine_internal_async(): the first plugin is asked; with no plugin to
\* ask the operation goes on at once, in NothingToAsk.
NewRefine(list, flags) ==
    LET first == IF refiners = {} THEN 0 ELSE First(refiners)
    IN  [list |-> list, flags |-> flags, op |-> first, next |-> first,
         layers |-> {}, error |-> None, returned |-> FALSE]

\* gs_plugin_loader_run_adopt(): wildcards are left alone.
Adopt(list) == (list \intersect Adopted) \ Wildcards

\* The flags the refine of each layer runs with, and its apps.
LayerFlags(flags, layer) ==
    flags \ (IF layer = "addons" THEN {"addons", "reviews", "review-ratings"} ELSE {layer})
LayerList(list, layer) ==
    UNION {IF layer = "addons" THEN addons[a] ELSE Parts[layer][a] : a \in list}
LayersOf(t) == {layer \in t.flags \intersect Layers :
                   LayerList(t.list, layer) # {} /\ LayerFlags(t.flags, layer) # {}}

AsksReviews(t) == reviewed /\ t.flags \intersect {"reviews", "review-ratings", "rating"} # {}

\* finish_refine_internal_recursion(): whether the refine returns.
ReturnsAtOnce(layers) == TRUE                   \* mutant: the recursions are not counted
Returns(layers) == layers = {}

\* After the plugins and the reviews service: the refines of the layers start,
\* or the refine returns.
Recurse(path, t) ==
    LET u == [t EXCEPT !.list = @ \ Wildcards, !.op = 0]
        layers == LayersOf(u)
        child == {Append(path, layer) : layer \in layers}
    IN  IF t.error # None
        THEN /\ refine' = [refine EXCEPT ![path] = [t EXCEPT !.op = 0, !.returned = TRUE]]
             /\ UNCHANGED management
        ELSE /\ refine' = [q \in DOMAIN refine \union child |->
                    IF q \in child
                    THEN NewRefine(LayerList(u.list, Last(q)), LayerFlags(u.flags, Last(q)))
                    ELSE IF q = path THEN [u EXCEPT !.layers = layers, !.returned = Returns(layers)]
                                     ELSE refine[q]]
             /\ management' = management \union
                    UNION {Adopt(LayerList(u.list, layer)) : layer \in layers}

\* finish_refine_internal_op(), with the refine after its error was kept.  The
\* reviews service is asked only when the last plugin of the loader was asked.
FinishOp(path, t) ==
    LET rest == NextRefiners(t.next)
        ask(op, next) == /\ refine' = [refine EXCEPT ![path] = [t EXCEPT !.op = op, !.next = next]]
                         /\ UNCHANGED management
    IN  IF rest # {} THEN ask(First(rest), First(rest))
        ELSE IF t.next = NPlugins
             THEN IF AsksReviews(t) THEN ask(Reviews, NPlugins + 1)
                  ELSE Recurse(path, [t EXCEPT !.next = NPlugins + 1])
             ELSE Recurse(path, t)

\* The first error is kept.
Kept(error, new) == IF error = None THEN new ELSE error

\* finish_run()
Result(list, filter) == IF filter THEN list \intersect Valid ELSE list \ Wildcards

\* gs_plugin_job_refine_run_async().  constructed() has added its flags.
RefineRun(list, flags, filter) ==
    /\ appList' = list /\ refineFlags' = flags /\ filtering' = filter /\ refined' = {}
    /\ IF flags = {} \/ list = {}
       THEN /\ resultList' = Result(list, filter) /\ refineEnd' = Ok /\ refine' = <<>>
            /\ UNCHANGED <<frozen, management>>
       ELSE /\ resultList' = {} /\ refineEnd' = None
            /\ refine' = [path \in {<<>>} |-> NewRefine(list, flags)]
            /\ frozen' = [a \in Apps |-> frozen[a] + IF a \in list THEN 1 ELSE 0]
            /\ management' = management \union Adopt(list)
    /\ UNCHANGED <<refiners, reviewed, addons, thaws>>

\* A refine with no plugin to ask goes on at once.
NothingToAsk(path) ==
    /\ path \in DOMAIN refine
    /\ LET t == refine[path]
       IN  t.op = 0 /\ t.layers = {} /\ ~t.returned /\ FinishOp(path, t)
    /\ UNCHANGED <<inputs, refined, addons, frozen, thaws, resultList, refineEnd>>

\* plugin_refine_cb(), odrs_provider_refine_cb(): what was asked answers.  A
\* plugin that succeeds has refined the list and may have resolved wildcards.
RefineCb(path) ==
    /\ path \in DOMAIN refine /\ refine[path].op # 0
    /\ LET t == refine[path]
       IN  \/ /\ FinishOp(path, [t EXCEPT !.op = 0, !.error = Kept(@, <<"failed", t.op>>)])
              /\ UNCHANGED refined
           \/ \E resolves \in {w \in t.list \intersect Wildcards : t.op # Reviews} \union {None} :
                LET list == t.list \union IF resolves = None THEN {} ELSE Resolved[resolves]
                IN  /\ FinishOp(path, [t EXCEPT !.op = 0, !.list = list])
                    /\ refined' = refined \union ({t.op} \X (list \ Wildcards))
    /\ UNCHANGED <<inputs, addons, frozen, thaws, resultList, refineEnd>>

RecursionFails(path) ==     \* mutant: an error of a layer is lost with the count
    /\ path \in DOMAIN refine /\ path # <<>> /\ refine[path].returned
    /\ LET parent == Front(path)
           left == refine[parent].layers \ IF refine[path].error = None THEN {Last(path)} ELSE {}
       IN  refine' = [q \in DOMAIN refine \ {path} |->
                IF q = parent THEN [refine[q] EXCEPT !.layers = left, !.returned = Returns(left)]
                ELSE refine[q]]
    /\ UNCHANGED <<inputs, refined, addons, management, frozen, thaws, resultList, refineEnd>>

\* recursive_internal_refine_cb(): the refine of a layer has returned.
RecursionCb(path) ==
    /\ path \in DOMAIN refine /\ path # <<>> /\ refine[path].returned
    /\ LET parent == Front(path)
           t == refine[parent]
           left == t.layers \ {Last(path)}
       IN  refine' = [q \in DOMAIN refine \ {path} |->
                IF q = parent
                THEN [t EXCEPT !.layers = left, !.error = Kept(@, refine[path].error),
                               !.returned = Returns(left)]
                ELSE refine[q]]
    /\ UNCHANGED <<inputs, refined, addons, management, frozen, thaws, resultList, refineEnd>>

ThawedOnSuccess(t) == IF t.error = None THEN thaws \o SetToSeq(appList) ELSE thaws   \* mutant
Thawed(t) == thaws \o SetToSeq(appList)

\* run_cb(): on success the addons with their parent's source go; the apps are
\* thawed from idle sources in any case.
RefineRunCb ==
    /\ refine # <<>> /\ refine[<<>>].returned
    /\ LET t == refine[<<>>]
       IN  IF t.error # None
           THEN refineEnd' = t.error /\ UNCHANGED <<addons, resultList>>
           ELSE /\ addons' = [a \in Apps |-> addons[a] \ IF a \in t.list THEN {Addon} ELSE {}]
                /\ resultList' = Result(t.list, filtering)
                /\ refineEnd' = Ok
    /\ thaws' = Thawed(refine[<<>>])
    /\ refine' = <<>>
    /\ UNCHANGED <<inputs, refined, management, frozen>>

\* app_thaw_notify_idle()
ThawIdle ==
    /\ thaws # <<>>
    /\ frozen' = [frozen EXCEPT ![Head(thaws)] = @ - 1] /\ thaws' = Tail(thaws)
    /\ UNCHANGED <<inputs, refine, refined, addons, management, resultList, refineEnd>>

RefineStep == \/ \E path \in Paths : NothingToAsk(path) \/ RefineCb(path) \/ RecursionCb(path)
              \/ RefineRunCb \/ ThawIdle
=============================================================================
