---------------------------- MODULE Pages_proofs ----------------------------
(***************************************************************************)
(* Proofs about the pages, of which each answer may come after the page    *)
(* was loaded again: of a category, of an app, of the overview, of a       *)
(* search, and of the installed apps.  The invariants say which job will   *)
(* bring a page to rest, and what the widgets of a page still listen to.   *)
(***************************************************************************)
EXTENDS CategoryPage, DetailsPage, OverviewPage, SearchPage, InstalledPage,
        FiniteSetTheorems, FunctionTheorems, SequenceTheorems, TLAPS

-----------------------------------------------------------------------------
(* The category page: the loads of a load that are cancelled, and the new    *)
(* one, which brings the page to rest.                                       *)
LEMMA LoadKeepsCategory ==
    ASSUME CategoryInv, NEW c \in Categories, LoadCategory(c), category' \in Categories \union {NoCategory}
    PROVE  CategoryInv'
<1> DEFINE Load == [id : 1..MaxCategoryLoads, of : Categories, featured : {"runs"} \union Finished,
                    main : {"runs"} \union Finished, cancelled : BOOLEAN]
           new == [id |-> nextLoad + 1, of |-> c, main |-> "runs", cancelled |-> FALSE,
                   featured |-> IF c \in WithFeatured THEN "runs" ELSE "failed"]
           off(x) == [x EXCEPT !.cancelled = TRUE]
           old == {off(x) : x \in categoryLoads}
<1>1. categoryLoads' = old \union {new} /\ nextLoad' = nextLoad + 1 /\ tiles' = "placeholders" /\ nextLoad < MaxCategoryLoads
  BY DEF LoadCategory
<1>2. nextLoad \in Nat /\ nextLoad' \in 0..MaxCategoryLoads
  BY <1>1, CategoryAssumption DEF CategoryInv, CategoryTypeOK
<1>3. new \in Load
  BY <1>1, <1>2 DEF Finished
<1>4. ASSUME NEW x \in categoryLoads
      PROVE  /\ x \in Load /\ off(x) \in Load /\ off(x).id = x.id /\ off(x).cancelled
             /\ "runs" \in {off(x).featured, off(x).main} /\ off(x).id < new.id
  <2>1. x \in Load /\ x.id <= nextLoad /\ "runs" \in {x.featured, x.main}
    BY DEF CategoryInv, CategoryTypeOK, PlaceholdersEnd
  <2>2. off(x) \in Load
    BY <2>1
  <2>3. off(x).id = x.id /\ off(x).featured = x.featured /\ off(x).main = x.main /\ off(x).cancelled
    BY <2>1
  <2>4. new.id = nextLoad + 1 /\ x.id \in Nat
    BY <2>1
  <2> QED
    BY <1>2, <2>1, <2>2, <2>3, <2>4
<1>5. new.id = nextLoad + 1 /\ new.cancelled = FALSE /\ "runs" \in {new.featured, new.main}
  OBVIOUS
<1>6. \A x \in old : x \in Load /\ x.id < new.id /\ x.cancelled /\ "runs" \in {x.featured, x.main}
  BY <1>4
<1>7. ASSUME NEW x \in old, NEW y \in old, x.id = y.id PROVE x = y
  <2>1. PICK p \in categoryLoads : x = off(p)
    OBVIOUS
  <2>2. PICK q \in categoryLoads : y = off(q)
    OBVIOUS
  <2>3. p.id = q.id
    BY <1>4, <1>7, <2>1, <2>2
  <2>4. p = q
    BY <2>3 DEF CategoryInv, CategoryTypeOK
  <2> QED
    BY <2>1, <2>2, <2>4
<1> HIDE DEF old, new
<1>8. CategoryTypeOK'
  <2>1. \A x, y \in old \union {new} : x.id = y.id => x = y
    BY <1>2, <1>5, <1>6, <1>7
  <2>2. \A x \in old \union {new} : x.id <= nextLoad' /\ (x.cancelled <=> x.id # nextLoad')
    BY <1>1, <1>2, <1>5, <1>6
  <2> QED
    BY <1>1, <1>2, <1>3, <1>6, <2>1, <2>2 DEF CategoryTypeOK
<1>9. PlaceholdersEnd'
  BY <1>1, <1>5, <1>6 DEF PlaceholdersEnd
<1> QED
  BY <1>8, <1>9 DEF CategoryInv

(* The callback of one of the jobs of load x.                                *)
LEMMA FinishKeepsCategory ==
    ASSUME CategoryInv, NEW x \in categoryLoads, UNCHANGED <<category, nextLoad>>,
           NEW f \in Answers(x), NEW y,
           \/ x.featured = "runs" /\ y = [x EXCEPT !.featured = f]
           \/ x.main = "runs" /\ y = [x EXCEPT !.main = f],
           LoadCategoryFinish(x, y)
    PROVE  CategoryInv'
<1> DEFINE Load == [id : 1..MaxCategoryLoads, of : Categories, featured : {"runs"} \union Finished,
                    main : {"runs"} \union Finished, cancelled : BOOLEAN]
<1>1. x \in Load /\ f \in Finished
  BY DEF CategoryInv, CategoryTypeOK, Answers, Finished
<1>2. y \in Load /\ y.id = x.id /\ y.cancelled = x.cancelled /\ y.of = x.of
  BY <1>1
<1>3. CASE "runs" \in {y.featured, y.main}
  <2>1. categoryLoads' = (categoryLoads \ {x}) \union {y} /\ tiles' = tiles
    BY <1>3 DEF LoadCategoryFinish
  <2> QED
    BY <1>2, <1>3, <2>1 DEF CategoryInv, CategoryTypeOK, PlaceholdersEnd
<1>4. CASE "runs" \notin {y.featured, y.main}
  <2>1. categoryLoads' = categoryLoads \ {x} /\ tiles' \in {y.of, NoCategory}
    BY <1>4 DEF LoadCategoryFinish
  <2>2. tiles' \in Categories \union {NoCategory}
    BY <1>2, <2>1
  <2> QED
    BY <2>1, <2>2, CategoryAssumption DEF CategoryInv, CategoryTypeOK, PlaceholdersEnd
<1> QED
  BY <1>3, <1>4

(* For any categories and any number of loads, the loading tiles are shown   *)
(* only while a load goes on that replaces them (CategoryInv of the run      *)
(* page): the load that is not cancelled is the last one, and each load      *)
(* waits for one of its jobs (load_category_finish()).                       *)
THEOREM PlaceholdersAreReplaced == CategorySpec => []CategoryInv
<1>1. CategoryInit => CategoryInv
  BY CategoryAssumption DEF CategoryInit, CategoryInv, CategoryTypeOK, PlaceholdersEnd
<1>2. CategoryInv /\ [CategoryNext]_categoryVars => CategoryInv'
  <2> SUFFICES ASSUME CategoryInv, [CategoryNext]_categoryVars PROVE CategoryInv'
    OBVIOUS
  <2>1. ASSUME NEW c \in Categories, SetCategory(c) PROVE CategoryInv'
    BY <2>1, LoadKeepsCategory DEF SetCategory
  <2>2. CASE ReloadCategory
    BY <2>2, LoadKeepsCategory DEF ReloadCategory, CategoryInv, CategoryTypeOK
  <2>3. ASSUME NEW x \in categoryLoads, GetFeaturedApps(x) PROVE CategoryInv'
    BY <2>3, FinishKeepsCategory DEF GetFeaturedApps
  <2>4. ASSUME NEW x \in categoryLoads, GetApps(x) PROVE CategoryInv'
    BY <2>4, FinishKeepsCategory DEF GetApps
  <2>5. CASE UNCHANGED categoryVars
    BY <2>5 DEF categoryVars, CategoryInv, CategoryTypeOK, PlaceholdersEnd
  <2> QED
    BY <2>1, <2>2, <2>3, <2>4, <2>5 DEF CategoryNext
<1> QED
  BY <1>1, <1>2, PTL DEF CategorySpec

-----------------------------------------------------------------------------
(* The page of an app.  The jobs of a load follow each other: the first is   *)
(* alone, and the last comes after the one that looks for alternates.        *)
Job == [load : 1..MaxDetailLoads, kind : DetailKinds, app : DetailApps \union {NoApp}, linked : BOOLEAN, cancelled : BOOLEAN]
First == {"stage1", "file", "metainfo"}
JobsFollow(jobs, n) ==
    /\ jobs \subseteq Job
    /\ \A x, y \in jobs : x.load = y.load /\ x.kind = y.kind => x = y
    /\ \A x \in jobs : x.load <= n /\ (x.kind \notin {"file", "metainfo"} => x.app \in DetailApps)
    /\ \A x, y \in jobs : x.load = y.load /\ x.kind \in First => x = y
    /\ \A x, y \in jobs : x.load = y.load /\ x.kind = "alternates" => y.kind # "refine instance"

(* The types of what the page shows, and the invariant of all: with the      *)
(* order of the jobs, the page comes to rest and what it offers is of its    *)
(* app.                                                                      *)
ShownTypeOK ==
    /\ {detailsActive, fromFile, byFormat} \subseteq BOOLEAN
    /\ detailsState \in {"loading", "ready", "failed"} /\ detailsApp \in DetailApps \union {NoApp}
    /\ {known, origins, watched} \subseteq SUBSET DetailApps /\ originBox \in {"hidden", "insensitive", "sensitive"}
    /\ detailLoads \in 0..MaxDetailLoads
    /\ (detailsApp # NoApp => detailsApp \in watched)
DetailsIInv ==
    /\ ShownTypeOK /\ JobsFollow(detailsJobs, detailLoads)
    /\ LoadingIsLoading /\ ReadyHasApp /\ OriginsHaveTheApp

LEMMA LoadsAreCounted == MaxDetailLoads \in Nat
BY DetailsAssumption

(* Jobs whose cancellable changes are the same jobs.                         *)
LEMMA SameJobsFollow ==
    ASSUME NEW S, NEW n, JobsFollow(S, n), NEW g \in [S -> Job],
           \A x \in S : g[x].load = x.load /\ g[x].kind = x.kind /\ g[x].app = x.app
    PROVE  JobsFollow({g[x] : x \in S}, n)
<1> DEFINE T == {g[x] : x \in S}
<1>1. \A y \in T : \E x \in S : y = g[x] /\ y \in Job /\ y.load = x.load /\ y.kind = x.kind /\ y.app = x.app
  OBVIOUS
<1> HIDE DEF T
<1>a. \A p, q \in S : p.load = q.load /\ (p.kind = q.kind \/ p.kind \in First) => p = q
  BY DEF JobsFollow
<1>b. \A p, q \in S : p.load = q.load /\ p.kind = "alternates" => q.kind # "refine instance"
  BY DEF JobsFollow
<1>2. ASSUME NEW x \in T, NEW y \in T, x.load = y.load
      PROVE  /\ (x.kind = y.kind \/ x.kind \in First) => x = y
             /\ x.kind = "alternates" => y.kind # "refine instance"
  <2>1. PICK p \in S : x = g[p] /\ x.load = p.load /\ x.kind = p.kind
    BY <1>1
  <2>2. PICK q \in S : y = g[q] /\ y.load = q.load /\ y.kind = q.kind
    BY <1>1
  <2>3. p.load = q.load
    BY <1>2, <2>1, <2>2
  <2>4. (x.kind = y.kind \/ x.kind \in First) => x = y
    BY <1>a, <2>1, <2>2, <2>3
  <2>5. x.kind = "alternates" => y.kind # "refine instance"
    BY <1>b, <2>1, <2>2, <2>3
  <2> QED
    BY <2>4, <2>5
<1>3. \A x \in T : x \in Job /\ x.load <= n /\ (x.kind \notin {"file", "metainfo"} => x.app \in DetailApps)
  BY <1>1 DEF JobsFollow
<1> QED
  BY <1>2, <1>3 DEF JobsFollow, T

(* What is cancelled stays, and so does what runs beside another cancellable.*)
LEMMA CancelledFollow ==
    ASSUME NEW S, NEW n, JobsFollow(S, n)
    PROVE  /\ JobsFollow(Cancelled(S), n)
           /\ JobsFollow({[x EXCEPT !.linked = FALSE] : x \in S}, n)
           /\ \A x \in S : \E y \in {[z EXCEPT !.linked = FALSE] : z \in S} : y.kind = x.kind
<1> DEFINE g == [x \in S |-> IF x.linked THEN [x EXCEPT !.linked = FALSE, !.cancelled = TRUE] ELSE x]
           h == [x \in S |-> [x EXCEPT !.linked = FALSE]]
<1>1. \A x \in S : x \in Job
  BY DEF JobsFollow
<1>2. g \in [S -> Job] /\ \A x \in S : g[x].load = x.load /\ g[x].kind = x.kind /\ g[x].app = x.app
  BY <1>1 DEF Job
<1>3. h \in [S -> Job] /\ \A x \in S : h[x].load = x.load /\ h[x].kind = x.kind /\ h[x].app = x.app
  BY <1>1 DEF Job
<1>4. Cancelled(S) = {g[x] : x \in S} /\ {[x EXCEPT !.linked = FALSE] : x \in S} = {h[x] : x \in S}
  BY DEF Cancelled
<1>5. \A x \in S : h[x] \in {h[z] : z \in S} /\ h[x].kind = x.kind
  BY <1>3
<1> HIDE DEF g, h
<1>6. JobsFollow({g[x] : x \in S}, n)
  BY <1>2, SameJobsFollow
<1>7. JobsFollow({h[x] : x \in S}, n)
  BY <1>3, SameJobsFollow
<1> QED
  BY <1>4, <1>5, <1>6, <1>7, Zenon

(* A load adds its first job.                                                *)
LEMMA FirstFollows ==
    ASSUME NEW S, NEW n \in Nat, JobsFollow(S, n), n < MaxDetailLoads, NEW k \in First, NEW a \in DetailApps \union {NoApp},
           k = "stage1" => a \in DetailApps
    PROVE  JobsFollow(S \union {NewJob(n + 1, k, a)}, n + 1)
<1> DEFINE new == NewJob(n + 1, k, a)
<1>0. k \in DetailKinds
  BY DEF First, DetailKinds
<1>1. n + 1 \in 1..MaxDetailLoads
  BY LoadsAreCounted
<1>2. new \in Job
  BY <1>0, <1>1 DEF NewJob, Job
<1>3. new.load = n + 1 /\ new.kind = k /\ new.app = a
  BY DEF NewJob
<1>4. \A x \in S : x \in Job /\ x.load \in Nat /\ x.load <= n
  <2>1. \A x \in S : x \in Job /\ x.load <= n
    BY DEF JobsFollow
  <2>2. \A x \in Job : x.load \in Nat
    BY LoadsAreCounted DEF Job
  <2> QED
    BY <2>1, <2>2
<1>5. \A x \in S : x.load # new.load /\ x.load <= n + 1
  BY <1>3, <1>4
<1>6. new.load <= n + 1 /\ new.kind \in First /\ (new.kind \notin {"file", "metainfo"} => new.app \in DetailApps)
  BY <1>3 DEF First
<1> HIDE DEF new
<1>7. \A x, y \in S \union {new} : x.load = y.load => (x \in S /\ y \in S) \/ x = y
  BY <1>5
<1>9. \A x, y \in S \union {new} : x.load = y.load /\ (x.kind = y.kind \/ x.kind \in First) => x = y
  BY <1>7 DEF JobsFollow
<1>10. \A x, y \in S \union {new} : x.load = y.load /\ x.kind = "alternates" => y.kind # "refine instance"
  BY <1>6, <1>7 DEF JobsFollow, First
<1>11. \A x \in S \union {new} : x.load <= n + 1 /\ (x.kind \notin {"file", "metainfo"} => x.app \in DetailApps)
  BY <1>5, <1>6 DEF JobsFollow
<1>12. JobsFollow(S \union {new}, n + 1)
  BY <1>2, <1>9, <1>10, <1>11 DEF JobsFollow
<1> QED
  BY <1>12 DEF new

(* The first job of a load is followed by two.                               *)
LEMMA SecondFollow ==
    ASSUME NEW S, NEW n, JobsFollow(S, n), NEW x \in S, x.kind \in First, NEW a \in DetailApps
    PROVE  JobsFollow((S \ {x}) \union {NewJob(x.load, "refine", a), NewJob(x.load, "alternates", a)}, n)
<1> DEFINE p == NewJob(x.load, "refine", a)
           q == NewJob(x.load, "alternates", a)
<1>1. p \in Job /\ p.load = x.load /\ p.kind = "refine" /\ p.app = a
  BY DEF NewJob, Job, DetailKinds, JobsFollow
<1>2. q \in Job /\ q.load = x.load /\ q.kind = "alternates" /\ q.app = a
  BY DEF NewJob, Job, DetailKinds, JobsFollow
<1>3. \A y \in S \ {x} : y.load # x.load
  BY DEF JobsFollow
<1> DEFINE T == (S \ {x}) \union {p, q}
<1> HIDE DEF p, q
<1>4. \A y, z \in T : y.load = z.load => {y, z} \subseteq S \ {x} \/ {y, z} \subseteq {p, q}
  BY <1>1, <1>2, <1>3
<1>5. \A y, z \in T : y.load = z.load /\ (y.kind = z.kind \/ y.kind \in First) => y = z
  BY <1>1, <1>2, <1>4 DEF JobsFollow, First
<1>6. \A y, z \in T : y.load = z.load /\ y.kind = "alternates" => z.kind # "refine instance"
  BY <1>1, <1>2, <1>4 DEF JobsFollow
<1>7. T \subseteq Job /\ \A y \in T : y.kind \notin {"file", "metainfo"} => y.app \in DetailApps
  BY <1>1, <1>2 DEF JobsFollow
<1>8. \A y \in T : y.load <= n
  BY <1>1, <1>2 DEF JobsFollow
<1>9. JobsFollow(T, n)
  BY <1>5, <1>6, <1>7, <1>8 DEF JobsFollow
<1> QED
  BY <1>9 DEF p, q

(* The job that looks for alternates is followed by one, or none.            *)
LEMMA InstanceFollows ==
    ASSUME NEW S, NEW n, JobsFollow(S, n), NEW x \in S, x.kind = "alternates", NEW a \in DetailApps
    PROVE  JobsFollow((S \ {x}) \union {NewJob(x.load, "refine instance", a)}, n)
<1> DEFINE p == NewJob(x.load, "refine instance", a)
<1>1. p \in Job /\ p.load = x.load /\ p.kind = "refine instance" /\ p.app = a
  BY DEF NewJob, Job, DetailKinds, JobsFollow
<1>2. \A y \in S \ {x} : y.load = x.load => y.kind \notin First \union {"alternates", "refine instance"}
  BY DEF JobsFollow
<1> DEFINE T == (S \ {x}) \union {p}
<1> HIDE DEF p
<1>3. \A y, z \in T : y.load = z.load => {y, z} \subseteq S \ {x} \/ y = z \/ p \in {y, z}
  OBVIOUS
<1>4. \A y, z \in T : y.load = z.load /\ (y.kind = z.kind \/ y.kind \in First) => y = z
  BY <1>1, <1>2, <1>3 DEF JobsFollow, First
<1>5. \A y, z \in T : y.load = z.load /\ y.kind = "alternates" => z.kind # "refine instance"
  BY <1>1, <1>2, <1>3 DEF JobsFollow
<1>6. T \subseteq Job /\ \A y \in T : y.kind \notin {"file", "metainfo"} => y.app \in DetailApps
  BY <1>1 DEF JobsFollow
<1>7. \A y \in T : y.load <= n
  BY <1>1 DEF JobsFollow
<1>8. JobsFollow(T, n)
  BY <1>4, <1>5, <1>6, <1>7 DEF JobsFollow
<1> QED
  BY <1>8 DEF p

LEMMA FewerFollow ==
    ASSUME NEW S, NEW n, JobsFollow(S, n), NEW T \in SUBSET S
    PROVE  JobsFollow(T, n)
BY DEF JobsFollow

(* A load of the app that becomes, or stays, that of the page.               *)
LEMMA LoadKeepsDetails ==
    ASSUME DetailsIInv, NEW a \in DetailApps, LoadStage1(a), detailsApp' = a, detailsActive' = TRUE,
           fromFile' \in BOOLEAN, byFormat' \in BOOLEAN, a \in watched', watched' \subseteq DetailApps,
           UNCHANGED <<known, origins>>
    PROVE  DetailsIInv'
<1>1. detailLoads \in Nat /\ detailLoads < MaxDetailLoads /\ detailLoads' = detailLoads + 1 /\ detailLoads' \in 0..MaxDetailLoads
  BY LoadsAreCounted DEF DetailsIInv, ShownTypeOK, LoadStage1
<1>2. detailsState' = "loading" /\ originBox' = "hidden"
      /\ detailsJobs' = Cancelled(detailsJobs) \union {NewJob(detailLoads + 1, "stage1", a)}
  BY DEF LoadStage1
<1>3. JobsFollow(Cancelled(detailsJobs), detailLoads)
  BY CancelledFollow DEF DetailsIInv
<1>4. JobsFollow(detailsJobs', detailLoads')
  BY <1>1, <1>2, <1>3, FirstFollows DEF First
<1>5. NewJob(detailLoads + 1, "stage1", a) \in detailsJobs' /\ NewJob(detailLoads + 1, "stage1", a).kind = "stage1"
  BY <1>2 DEF NewJob
<1>6. ShownTypeOK'
  BY <1>1, <1>2 DEF DetailsIInv, ShownTypeOK
<1>7. LoadingIsLoading' /\ ReadyHasApp' /\ OriginsHaveTheApp'
  BY <1>2, <1>5 DEF LoadingIsLoading, ReadyHasApp, OriginsHaveTheApp
<1> QED
  BY <1>4, <1>6, <1>7 DEF DetailsIInv

(* The page of a file, or of an address, that is still to become an app.     *)
LEMMA SetFileKeepsDetails ==
    ASSUME DetailsIInv, NEW kind \in {"file", "metainfo"}, SetFile(kind)
    PROVE  DetailsIInv'
<1>1. detailLoads \in Nat /\ detailLoads < MaxDetailLoads /\ detailLoads' = detailLoads + 1 /\ detailLoads' \in 0..MaxDetailLoads
  BY LoadsAreCounted DEF DetailsIInv, ShownTypeOK, SetFile
<1>2. /\ detailsState' = "loading" /\ detailsApp' = NoApp /\ UNCHANGED <<known, origins, watched>>
      /\ detailsJobs' = detailsJobs \union {NewJob(detailLoads + 1, kind, NoApp)}
      /\ detailsActive' = TRUE /\ fromFile' = FALSE /\ byFormat' = FALSE /\ originBox' \in {originBox, "hidden"}
  BY DEF SetFile
<1>3. JobsFollow(detailsJobs', detailLoads')
  BY <1>1, <1>2, FirstFollows DEF First, DetailsIInv
<1>4. NewJob(detailLoads + 1, kind, NoApp) \in detailsJobs' /\ NewJob(detailLoads + 1, kind, NoApp).kind = kind
  BY <1>2 DEF NewJob
<1>5. ShownTypeOK'
  BY <1>1, <1>2 DEF DetailsIInv, ShownTypeOK
<1>6. LoadingIsLoading' /\ ReadyHasApp' /\ OriginsHaveTheApp'
  BY <1>2, <1>4 DEF LoadingIsLoading, ReadyHasApp, OriginsHaveTheApp
<1> QED
  BY <1>3, <1>5, <1>6 DEF DetailsIInv

(* A page that becomes ready with its app, in the callback of the first job. *)
LEMMA ReadyKeepsDetails ==
    ASSUME DetailsIInv, NEW x \in detailsJobs, x.kind \in First, NEW a \in DetailApps, NEW more \in BOOLEAN,
           LoadStage2(x, a, more), detailsApp' = a, a \in watched', watched' \subseteq DetailApps, known' \subseteq DetailApps,
           fromFile' \in BOOLEAN, UNCHANGED <<detailsActive, byFormat, origins, detailLoads>>
    PROVE  DetailsIInv'
<1>1. detailsState' = "ready" /\ originBox' \in {"insensitive", "hidden"}
  BY DEF LoadStage2
<1>2. JobsFollow(detailsJobs', detailLoads')
  <2>1. CASE more
    BY <2>1, SecondFollow DEF LoadStage2, DetailsIInv
  <2>2. CASE ~more
    <3>1. detailsJobs' \in SUBSET detailsJobs
      BY <2>2 DEF LoadStage2
    <3> QED
      BY <3>1, FewerFollow DEF DetailsIInv
  <2> QED
    BY <2>1, <2>2
<1>3. ShownTypeOK'
  BY <1>1 DEF DetailsIInv, ShownTypeOK
<1>4. LoadingIsLoading' /\ ReadyHasApp' /\ OriginsHaveTheApp'
  BY <1>1, DetailsAssumption DEF LoadingIsLoading, ReadyHasApp, OriginsHaveTheApp
<1> QED
  BY <1>2, <1>3, <1>4 DEF DetailsIInv

(* A callback that removes its job, and leaves the rest of the page alone.   *)
LEMMA EndKeepsDetails ==
    ASSUME DetailsIInv, NEW x \in detailsJobs, detailsJobs' = detailsJobs \ {x},
           x.kind \notin First \/ detailsState' = "failed" \/ ~detailsActive',
           detailsState' \in {detailsState, "failed"}, detailsActive' \in {detailsActive, FALSE},
           known' \subseteq DetailApps, originBox' = originBox \/ originBox' = "hidden",
           UNCHANGED <<detailsApp, fromFile, detailLoads, watched>>, byFormat' \in BOOLEAN, origins' \subseteq DetailApps,
           origins' = origins \/ originBox' = "hidden"
    PROVE  DetailsIInv'
<1>1. JobsFollow(detailsJobs', detailLoads')
  BY FewerFollow DEF DetailsIInv
<1>2. ShownTypeOK'
  BY DEF DetailsIInv, ShownTypeOK
<1>3. LoadingIsLoading'
  BY DEF DetailsIInv, LoadingIsLoading, First
<1>4. ReadyHasApp' /\ OriginsHaveTheApp'
  BY DEF DetailsIInv, ReadyHasApp, OriginsHaveTheApp
<1> QED
  BY <1>1, <1>2, <1>3, <1>4 DEF DetailsIInv

LEMMA Stage1KeepsDetails ==
    ASSUME DetailsIInv, NEW x \in detailsJobs, Stage1Ends(x)
    PROVE  DetailsIInv'
<1>1. x.kind = "stage1" /\ x.app \in DetailApps
  BY DEF Stage1Ends, DetailsIInv, JobsFollow
<1>2. UNCHANGED <<detailsActive, detailsApp, fromFile, byFormat, origins, detailLoads, watched>>
      /\ known' \subseteq DetailApps
  BY <1>1 DEF Stage1Ends, DetailsIInv, ShownTypeOK
<1>3. CASE detailsState' = "failed" /\ detailsJobs' = detailsJobs \ {x} /\ UNCHANGED originBox
  BY <1>2, <1>3, EndKeepsDetails DEF DetailsIInv, ShownTypeOK
<1>4. CASE detailsApp \in known' /\ LoadStage2(x, detailsApp, TRUE)
  <2>1. detailsApp \in DetailApps /\ detailsApp \in watched /\ watched \subseteq DetailApps /\ fromFile \in BOOLEAN
    BY <1>2, <1>4, DetailsAssumption DEF DetailsIInv, ShownTypeOK
  <2> QED
    BY <1>1, <1>2, <1>4, <2>1, ReadyKeepsDetails DEF First
<1> QED
  BY <1>3, <1>4 DEF Stage1Ends

LEMMA AlternatesKeepDetails ==
    ASSUME DetailsIInv, NEW x \in detailsJobs, AlternatesEnd(x)
    PROVE  DetailsIInv'
<1>1. x.kind = "alternates" /\ byFormat' = FALSE /\ UNCHANGED <<detailsActive, detailsState, fromFile, detailLoads>>
      /\ x.app \in DetailApps
  BY DEF AlternatesEnd, DetailsIInv, JobsFollow
<1>2. CASE originBox' = "hidden" /\ origins' = {} /\ detailsJobs' = detailsJobs \ {x} /\ UNCHANGED <<detailsApp, watched, known>>
  BY <1>1, <1>2, EndKeepsDetails DEF First, DetailsIInv, ShownTypeOK
<1>3. ASSUME NEW found \in SUBSET (IF x.app = FileApp THEN {} ELSE Alternates[x.app]),
             NEW list, list = (IF fromFile THEN found \union {FileApp} ELSE found),
             known' = known \union list, origins' = list, NEW a \in list, NEW changed \in BOOLEAN, originBox' = "sensitive", SetAppTo(a),
             detailsJobs' = (detailsJobs \ {x}) \union (IF changed THEN {NewJob(x.load, "refine instance", a)} ELSE {})
      PROVE  DetailsIInv'
  <2>1. list \subseteq DetailApps
    BY <1>1, <1>3, DetailsAssumption DEF DetailApps
  <2>2. a \in list
    BY <1>3
  <2>3. detailsApp' = a /\ watched' = (watched \ {detailsApp}) \union {a}
    BY <1>3 DEF SetAppTo
  <2>4. JobsFollow(detailsJobs', detailLoads')
    <3>1. CASE ~changed
      BY <1>1, <1>3, <3>1, FewerFollow DEF DetailsIInv
    <3>2. CASE changed
      BY <1>1, <1>3, <3>2, <2>1, <2>2, InstanceFollows DEF DetailsIInv
    <3> QED
      BY <3>1, <3>2
  <2>5. ShownTypeOK'
    BY <1>1, <1>3, <2>1, <2>2, <2>3 DEF DetailsIInv, ShownTypeOK
  <2>6. \A y \in detailsJobs : y.kind \in First => y \in detailsJobs'
    BY <1>1, <1>3 DEF First
  <2>7. LoadingIsLoading'
    BY <1>1, <2>6 DEF DetailsIInv, LoadingIsLoading, First
  <2>8. ReadyHasApp' /\ OriginsHaveTheApp'
    BY <1>3, <2>1, <2>2, <2>3, DetailsAssumption DEF ReadyHasApp, OriginsHaveTheApp
  <2> QED
    BY <2>4, <2>5, <2>7, <2>8 DEF DetailsIInv
<1> QED
  BY <1>2, <1>3 DEF AlternatesEnd

LEMMA FileKeepsDetails ==
    ASSUME DetailsIInv, NEW x \in detailsJobs, FileEnds(x) \/ MetainfoEnds(x)
    PROVE  DetailsIInv'
<1> USE DEF DetailsIInv, ShownTypeOK
<1>1. FileApp \in DetailApps /\ watched \subseteq DetailApps
  BY DEF DetailApps
<1>2. CASE FileEnds(x)
  <2>1. x.kind = "file" /\ UNCHANGED <<byFormat, origins, detailLoads>>
    BY <1>2 DEF FileEnds
  <2>2. CASE detailsActive' = FALSE /\ detailsJobs' = detailsJobs \ {x}
             /\ UNCHANGED <<detailsState, detailsApp, fromFile, originBox, known, watched>>
    BY <2>1, <2>2, EndKeepsDetails
  <2>3. CASE fromFile' = TRUE /\ SetAppTo(FileApp) /\ known' = known \union {FileApp}
             /\ LoadStage2(x, FileApp, TRUE) /\ UNCHANGED detailsActive
    BY <1>1, <2>1, <2>3, ReadyKeepsDetails DEF First, SetAppTo
  <2> QED
    BY <1>2, <2>2, <2>3 DEF FileEnds
<1>3. CASE MetainfoEnds(x)
  <2>1. x.kind = "metainfo" /\ UNCHANGED <<detailsActive, byFormat, origins, known, detailLoads>>
    BY <1>3 DEF MetainfoEnds
  <2>2. CASE detailsState' = "failed" /\ detailsJobs' = detailsJobs \ {x} /\ UNCHANGED <<detailsApp, fromFile, originBox, watched>>
    BY <2>1, <2>2, EndKeepsDetails
  <2>3. CASE fromFile' = TRUE /\ SetAppTo(FileApp) /\ LoadStage2(x, FileApp, FALSE)
    BY <1>1, <2>1, <2>3, ReadyKeepsDetails DEF First, SetAppTo
  <2> QED
    BY <1>3, <2>2, <2>3 DEF MetainfoEnds
<1> QED
  BY <1>2, <1>3

LEMMA UserKeepsDetails ==
    ASSUME DetailsIInv, NEW a \in ListedApps, SetApp(a) \/ SelectOrigin(a)
    PROVE  DetailsIInv'
<1> USE DEF DetailsIInv
<1>1. a \in DetailApps
  BY DEF DetailApps
<1>2. CASE SetApp(a)
  BY <1>1, <1>2, LoadKeepsDetails DEF SetApp, SetAppTo, ShownTypeOK
<1>3. CASE SelectOrigin(a)
  <2>1. detailsActive' = TRUE
    BY <1>3 DEF SelectOrigin, ShownTypeOK
  <2> QED
    BY <1>1, <1>3, <2>1, LoadKeepsDetails DEF SelectOrigin, SetAppTo, ShownTypeOK
<1> QED
  BY <1>2, <1>3

LEMMA LaunchKeepsDetails ==
    ASSUME DetailsIInv, Launch
    PROVE  DetailsIInv'
<1>1. detailsJobs' = {[x EXCEPT !.linked = FALSE] : x \in detailsJobs} /\ UNCHANGED <<shownVars, known, detailLoads, watched>>
  BY DEF Launch
<1>2. JobsFollow(detailsJobs', detailLoads') /\ \A x \in detailsJobs : \E y \in detailsJobs' : y.kind = x.kind
  BY <1>1, CancelledFollow DEF DetailsIInv
<1>3. ShownTypeOK' /\ ReadyHasApp' /\ OriginsHaveTheApp'
  BY <1>1 DEF DetailsIInv, shownVars, ShownTypeOK, ReadyHasApp, OriginsHaveTheApp
<1>4. LoadingIsLoading'
  BY <1>1, <1>2 DEF DetailsIInv, shownVars, LoadingIsLoading
<1> QED
  BY <1>2, <1>3, <1>4 DEF DetailsIInv

(* For any apps, alternates and number of loads, whatever order the answers  *)
(* of old and new loads come in: the page that loads has a job that ends the *)
(* loading, a page that is ready has an app, and the places to choose from   *)
(* are those of its app (DetailsInv of the run page).                        *)
THEOREM DetailsPageAgrees == DetailsSpec => []DetailsInv
<1>1. DetailsInit => DetailsIInv
  <2>1. 0 \in 0..MaxDetailLoads
    BY LoadsAreCounted
  <2>2. JobsFollow({}, 0)
    BY DEF JobsFollow
  <2> QED
    BY <2>1, <2>2 DEF DetailsInit, DetailsIInv, ShownTypeOK, LoadingIsLoading, ReadyHasApp, OriginsHaveTheApp
<1>2. DetailsIInv /\ [DetailsNext]_detailsVars => DetailsIInv'
  <2> SUFFICES ASSUME DetailsIInv, [DetailsNext]_detailsVars PROVE DetailsIInv'
    OBVIOUS
  <2>1. ASSUME NEW a \in ListedApps, SetApp(a) \/ SelectOrigin(a) PROVE DetailsIInv'
    BY <2>1, UserKeepsDetails
  <2>2. ASSUME NEW kind \in {"file", "metainfo"}, SetFile(kind) PROVE DetailsIInv'
    BY <2>2, SetFileKeepsDetails
  <2>3. CASE ReloadDetails
    <3>1. detailsApp \in DetailApps /\ detailsActive
      BY <2>3 DEF ReloadDetails, DetailsIInv, ShownTypeOK
    <3> QED
      BY <2>3, <3>1, LoadKeepsDetails DEF ReloadDetails, DetailsIInv, ShownTypeOK
  <2>4. CASE Launch
    BY <2>4, LaunchKeepsDetails
  <2>5. CASE Leave
    BY <2>5 DEF Leave, DetailsIInv, ShownTypeOK, LoadingIsLoading, ReadyHasApp, OriginsHaveTheApp
  <2>6. ASSUME NEW x \in detailsJobs, Stage1Ends(x) PROVE DetailsIInv'
    BY <2>6, Stage1KeepsDetails
  <2>7. ASSUME NEW x \in detailsJobs, RefineEnds(x) PROVE DetailsIInv'
    BY <2>7, EndKeepsDetails DEF RefineEnds, shownVars, DetailsIInv, ShownTypeOK, First
  <2>8. ASSUME NEW x \in detailsJobs, AlternatesEnd(x) PROVE DetailsIInv'
    BY <2>8, AlternatesKeepDetails
  <2>9. ASSUME NEW x \in detailsJobs, FileEnds(x) \/ MetainfoEnds(x) PROVE DetailsIInv'
    BY <2>9, FileKeepsDetails
  <2>10. CASE UNCHANGED detailsVars
    BY <2>10 DEF detailsVars, shownVars, DetailsIInv, ShownTypeOK, LoadingIsLoading, ReadyHasApp, OriginsHaveTheApp
  <2> QED
    BY <2>1, <2>2, <2>3, <2>4, <2>5, <2>6, <2>7, <2>8, <2>9, <2>10 DEF DetailsNext, DetailsJobEnds
<1>3. DetailsIInv => DetailsInv
  BY DEF DetailsIInv, ShownTypeOK, JobsFollow, Job, DetailsInv, DetailsTypeOK
<1> QED
  BY <1>1, <1>2, <1>3, PTL DEF DetailsSpec

-----------------------------------------------------------------------------
(* The overview page.  Where each section has one job, there are as many     *)
(* jobs as sections that have one.                                           *)
LEMMA JobsAreSections ==
    ASSUME NEW js, IsFiniteSet(js), \A j, k \in js : j.section = k.section => j = k
    PROVE  Cardinality({j.section : j \in js}) = Cardinality(js)
<1> DEFINE S == {j.section : j \in js}
           of == [j \in js |-> j.section]
<1>1. of \in [js -> S] /\ \A j, k \in js : of[j] = of[k] => j = k
  OBVIOUS
<1>2. \A x \in S : \E j \in js : of[j] = x
  OBVIOUS
<1>3. of \in Injection(js, S) /\ of \in Surjection(js, S)
  BY <1>1, <1>2 DEF Injection, IsInjective, Surjection
<1> QED
  BY <1>3, FS_Surjection

(* A load gives one job to each section that has none.                       *)
LEMMA LoadKeepsOverview ==
    ASSUME OverviewIInv, NEW now \in 0..MaxCatalog, LoadOverview(now), ~overviewValid'
    PROVE  /\ OneJobPerSection'
           /\ sectionJobs' \subseteq [section : Sections, since : 0..MaxCatalog]
           /\ loading' \subseteq Sections
<1> DEFINE bare == Sections \ loading
           job(s) == [section |-> s, since |-> now]
           new == {job(s) : s \in bare}
<1>1. sectionJobs' = sectionJobs \union new /\ loading' = Sections
  BY DEF LoadOverview
<1>2. IsFiniteSet(bare) /\ IsFiniteSet(Sections) /\ Cardinality(bare) \in Nat
  BY FS_Subset, FS_CardinalityType, OverviewAssumption DEF OverviewAssumption
<1>3. IsFiniteSet(new) /\ Cardinality(new) = Cardinality(bare)
  <2> DEFINE give == [s \in bare |-> job(s)]
  <2>1. give \in [bare -> new] /\ \A x \in new : \E s \in bare : give[s] = x
    OBVIOUS
  <2>2. \A s, t \in bare : give[s] = give[t] => s = t
    <3>1. \A s \in bare : give[s].section = s
      OBVIOUS
    <3> QED
      BY <3>1
  <2>3. give \in Injection(bare, new) /\ give \in Surjection(bare, new)
    BY <2>1, <2>2 DEF Injection, IsInjective, Surjection
  <2> QED
    BY <1>2, <2>3, FS_Surjection
<1>4. \A j \in new : j.section \in Sections /\ j.section \notin loading /\ j.since = now
  OBVIOUS
<1>5. \A j \in sectionJobs : j.section \in loading
  BY DEF OverviewIInv, OneJobPerSection
<1>6. sectionJobs \intersect new = {}
  BY <1>4, <1>5
<1>7. /\ IsFiniteSet(sectionJobs')
      /\ Cardinality(sectionJobs') = Cardinality(sectionJobs) + Cardinality(bare)
  <2>1. Cardinality(sectionJobs \intersect new) = 0
    BY <1>6, FS_EmptySet
  <2>2. IsFiniteSet(sectionJobs) /\ Cardinality(sectionJobs) \in Nat
    BY FS_CardinalityType DEF OverviewIInv, OneJobPerSection
  <2> QED
    BY <1>1, <1>2, <1>3, <2>1, <2>2, FS_Union
<1>8. overviewCnt' = Cardinality(sectionJobs')
  BY <1>7 DEF LoadOverview, OverviewIInv, OneJobPerSection
<1>9. new \subseteq [section : Sections, since : 0..MaxCatalog]
  OBVIOUS
<1>10. \A j, k \in new : j.section = k.section => j = k
  OBVIOUS
<1> HIDE DEF new
<1>11. \A j, k \in sectionJobs' : j.section = k.section => j = k
  BY <1>1, <1>4, <1>5, <1>10 DEF OverviewIInv, OneJobPerSection
<1>12. \A j \in sectionJobs' : j.section \in loading'
  BY <1>1, <1>4, <1>5 DEF OverviewIInv, OverviewTypeOK
<1>13. sectionJobs' # {}
  <2>1. CASE loading # {}
    BY <1>1, <2>1 DEF OverviewIInv, OneJobPerSection
  <2>2. CASE loading = {}
    BY <1>1, <2>2, OverviewAssumption DEF OverviewAssumption, new
  <2> QED
    BY <2>1, <2>2
<1> QED
  BY <1>1, <1>7, <1>8, <1>9, <1>11, <1>12, <1>13 DEF OneJobPerSection, OverviewIInv, OverviewTypeOK

(* An answer takes its job away, and the last one ends the load.             *)
LEMMA AnswerKeepsOverview ==
    ASSUME OverviewIInv, NEW job \in sectionJobs, sectionJobs' = sectionJobs \ {job},
           DecrementActionCnt
    PROVE  OneJobPerSection' /\ loading' \subseteq Sections
<1>1. /\ IsFiniteSet(sectionJobs') /\ Cardinality(sectionJobs') = Cardinality(sectionJobs) - 1
      /\ Cardinality(sectionJobs) \in Nat /\ Cardinality(sectionJobs') \in Nat
  BY FS_RemoveElement, FS_CardinalityType DEF OverviewIInv, OneJobPerSection
<1>2. overviewCnt' = Cardinality(sectionJobs')
  BY <1>1 DEF OverviewIInv, OneJobPerSection, DecrementActionCnt
<1>3. CASE overviewCnt > 1
  <2>1. sectionJobs' # {}
    BY <1>1, <1>3, FS_EmptySet DEF OverviewIInv, OneJobPerSection
  <2>2. UNCHANGED <<overviewValid, loading>>
    BY <1>3 DEF DecrementActionCnt
  <2>3. ~overviewValid
    BY DEF OverviewIInv, OneJobPerSection
  <2> QED
    BY <1>1, <1>2, <2>1, <2>2, <2>3 DEF OverviewIInv, OneJobPerSection, OverviewTypeOK
<1>4. CASE ~(overviewCnt > 1)
  <2>1. Cardinality(sectionJobs') = 0 /\ loading' = {}
    BY <1>1, <1>2, <1>4 DEF OverviewIInv, OneJobPerSection, DecrementActionCnt
  <2>2. sectionJobs' = {}
    BY <1>1, <2>1, FS_EmptySet
  <2> QED
    BY <1>1, <1>2, <2>1, <2>2 DEF OneJobPerSection
<1> QED
  BY <1>3, <1>4

(* The rest of the page, with what it asks of fedora-third-party, keeps its  *)
(* type.                                                                     *)
LEMMA OverviewKeepsType ==
    ASSUME OverviewIInv, [OverviewNext]_overviewVars
    PROVE  /\ catalog' \in 0..MaxCatalog
           /\ {overviewValid', empty', noResults', overwritten', asks', needsQuestion', infobar'} \subseteq BOOLEAN
           /\ sectionShows' \in [Sections -> 0..Overridden]
           /\ queries' \subseteq {"starts", "ask", "answered"} /\ switches' \subseteq {"runs", "done"}
<1> DEFINE Rest ==
        /\ catalog \in 0..MaxCatalog
        /\ overviewValid \in BOOLEAN /\ empty \in BOOLEAN /\ noResults \in BOOLEAN /\ overwritten \in BOOLEAN
        /\ asks \in BOOLEAN /\ needsQuestion \in BOOLEAN /\ infobar \in BOOLEAN
        /\ sectionShows \in [Sections -> 0..Overridden]
        /\ queries \subseteq {"starts", "ask", "answered"} /\ switches \subseteq {"runs", "done"}
<1> SUFFICES Rest'
  OBVIOUS
<1>1. Rest
  BY DEF OverviewIInv, OverviewTypeOK
<1>2. MaxCatalog \in Nat /\ Overridden = MaxCatalog + 2 /\ Hidden = MaxCatalog + 1 /\ Featured \in Sections
  BY OverviewAssumption DEF OverviewAssumption, Overridden, Hidden
<1>3. CASE ReloadOverview \/ SwitchToOverview \/ CatalogChanges
  <2>1. catalog' \in 0..MaxCatalog
    BY <1>1, <1>2, <1>3 DEF ReloadOverview, SwitchToOverview, CatalogChanges
  <2> QED
    BY <1>1, <1>3, <2>1 DEF ReloadOverview, SwitchToOverview, CatalogChanges, LoadOverview
<1>4. CASE OverrideFeatured
  BY <1>1, <1>2, <1>4 DEF OverrideFeatured, thirdPartyVars
<1>5. ASSUME NEW job \in sectionJobs, SectionAnswers(job) PROVE Rest'
  <2>1. job.section \in Sections /\ job.since \in 0..MaxCatalog
    BY DEF OverviewIInv, OverviewTypeOK
  <2>2. \A seen \in job.since..catalog : seen \in 0..Overridden
    BY <1>1, <1>2, <2>1
  <2>3. Hidden \in 0..Overridden
    BY <1>2
  <2>4. sectionShows' \in [Sections -> 0..Overridden] /\ empty' \in BOOLEAN
    <3>1. CASE UNCHANGED sectionShows /\ (UNCHANGED empty \/ empty' = FALSE)
      BY <1>1, <3>1
    <3>2. CASE \E seen \in 0..Overridden : sectionShows' = [sectionShows EXCEPT ![job.section] = seen]
      BY <1>1, <1>5, <2>1, <3>2 DEF SectionAnswers
    <3> QED
      BY <1>5, <2>2, <2>3, <3>1, <3>2 DEF SectionAnswers
  <2>5. overviewValid' \in BOOLEAN /\ noResults' \in BOOLEAN
    BY <1>1, <1>5, <2>4 DEF SectionAnswers, DecrementActionCnt
  <2> QED
    BY <1>1, <1>5, <2>4, <2>5 DEF SectionAnswers, thirdPartyVars
<1>6. CASE Queried \/ QueryDone \/ ThirdPartyResponse \/ Switched \/ SwitchDone
  <2>1. UNCHANGED sectionVars
    BY <1>6 DEF Queried, QueryDone, ThirdPartyResponse, Switched, SwitchDone
  <2>2. queries' \subseteq {"starts", "ask", "answered"} /\ switches' \subseteq {"runs", "done"}
    BY <1>1, <1>6 DEF Queried, QueryDone, ThirdPartyResponse, Switched, SwitchDone
  <2>3. asks' \in BOOLEAN /\ needsQuestion' \in BOOLEAN /\ infobar' \in BOOLEAN
    BY <1>1, <1>6 DEF Queried, QueryDone, ThirdPartyResponse, Switched, SwitchDone
  <2> QED
    BY <1>1, <2>1, <2>2, <2>3 DEF sectionVars
<1>7. CASE UNCHANGED overviewVars
  BY <1>1, <1>7 DEF overviewVars, sectionVars, thirdPartyVars
<1> QED
  BY <1>3, <1>4, <1>5, <1>6, <1>7 DEF OverviewNext

(* The counter stays in its bound, as no section has two jobs.               *)
LEMMA JobsAreBounded ==
    ASSUME NEW js \in SUBSET [section : Sections, since : 0..MaxCatalog], IsFiniteSet(js),
           \A j, k \in js : j.section = k.section => j = k
    PROVE  Cardinality(js) \in 0..Cardinality(Sections)
<1>1. {j.section : j \in js} \subseteq Sections
  OBVIOUS
<1>2. Cardinality({j.section : j \in js}) = Cardinality(js)
  BY JobsAreSections
<1>3. Cardinality(js) <= Cardinality(Sections) /\ Cardinality(Sections) \in Nat
  BY <1>1, <1>2, OverviewAssumption, FS_Subset, FS_CardinalityType DEF OverviewAssumption
<1> QED
  BY <1>3, FS_CardinalityType

(* The inductive step.                                                       *)
LEMMA OverviewNextInv ==
    ASSUME OverviewIInv, [OverviewNext]_overviewVars
    PROVE  OverviewIInv'
<1> DEFINE Jobs == sectionJobs \subseteq [section : Sections, since : 0..MaxCatalog] /\ loading \subseteq Sections
<1>1. Jobs
  BY DEF OverviewIInv, OverviewTypeOK
<1>2. ASSUME ReloadOverview \/ SwitchToOverview \/ CatalogChanges
      PROVE  OneJobPerSection' /\ Jobs'
  <2>1. PICK now \in 0..MaxCatalog : LoadOverview(now) /\ ~overviewValid'
    <3>1. catalog \in 0..MaxCatalog /\ overviewValid \in BOOLEAN
      BY DEF OverviewIInv, OverviewTypeOK
    <3>2. catalog < MaxCatalog => catalog + 1 \in 0..MaxCatalog
      BY <3>1, OverviewAssumption DEF OverviewAssumption
    <3> QED
      BY <1>2, <3>1, <3>2 DEF ReloadOverview, SwitchToOverview, CatalogChanges
  <2> QED
    BY <2>1, LoadKeepsOverview
<1>3. ASSUME NEW job \in sectionJobs, SectionAnswers(job)
      PROVE  OneJobPerSection' /\ Jobs'
  BY <1>1, <1>3, AnswerKeepsOverview DEF SectionAnswers
<1>4. ASSUME UNCHANGED <<sectionJobs, loading, overviewCnt, overviewValid>>
      PROVE  OneJobPerSection' /\ Jobs'
  BY <1>1, <1>4 DEF OverviewIInv, OneJobPerSection
<1>5. OneJobPerSection' /\ Jobs'
  BY <1>2, <1>3, <1>4
  DEF OverviewNext, OverrideFeatured, Queried, QueryDone, ThirdPartyResponse, Switched, SwitchDone,
      overviewVars, sectionVars
<1>6. overviewCnt' \in 0..Cardinality(Sections)
  BY <1>5, JobsAreBounded DEF OneJobPerSection
<1> QED
  BY <1>5, <1>6, OverviewKeepsType DEF OverviewIInv, OverviewTypeOK

(* Whatever reloads come while sections are loaded, and in whatever order    *)
(* the answers come: action_cnt is the number of jobs, no section has two,   *)
(* and the page is valid only when none runs (OverviewInv of the run page).  *)
THEOREM OverviewAgrees == OverviewSpec => []OverviewInv
<1>1. OverviewInit => OverviewIInv
  <2>1. 0 \in 0..Cardinality(Sections)
    BY OverviewAssumption, FS_CardinalityType DEF OverviewAssumption
  <2>2. 0 \in 0..MaxCatalog /\ Hidden \in 0..Overridden
    BY OverviewAssumption DEF OverviewAssumption, Hidden, Overridden
  <2> QED
    BY <2>1, <2>2, FS_EmptySet DEF OverviewInit, OverviewIInv, OverviewTypeOK, OneJobPerSection
<1>2. OverviewIInv => OverviewInv
  BY JobsAreSections DEF OverviewIInv, OverviewInv, OneJobPerSection, ActionsAreJobs, ValidIsQuiet
<1> QED
  BY <1>1, <1>2, OverviewNextInv, PTL DEF OverviewSpec

-----------------------------------------------------------------------------
(* The search page.  What the invariant says of the page and its searches,   *)
(* which the shell's operations take and return together.                    *)
PageType == [value : Texts \union {NoText}, changed : BOOLEAN, stamp : Nat, waiting : BOOLEAN,
             shows : {"nothing", "spinner", "no results", "results"}, of : Texts \union {NoText}]
Shown == {"nothing", "spinner", "no results", "results"}
SearchType == [stamp : Nat \ {0}, text : Texts, cancelled : BOOLEAN]

Stamped(p, js) ==
    /\ p \in PageType /\ js \subseteq SearchType
    /\ \A s, t \in js : s.stamp = t.stamp => s = t
    /\ \A s \in js : s.stamp <= p.stamp
Agree(p, js) ==
    /\ Stamped(p, js)
    /\ \A s \in js : s.stamp = p.stamp => s.text = p.value
    /\ (\E s \in js : s.stamp = p.stamp /\ ~s.cancelled) => p.waiting \/ p.shows = "spinner"
Kept(x, y) ==
    /\ Agree(y.page, y.jobs) /\ y = [page |-> y.page, jobs |-> y.jobs]
    /\ y.page.of = x.page.of /\ y.page.shows = x.page.shows
IsPair(x) == x = [page |-> x.page, jobs |-> x.jobs]

(* The searches that are cancelled keep their stamps and texts.              *)
LEMMA CancelKeepsAgreement ==
    ASSUME NEW p, NEW js, Stamped(p, js)
    PROVE  /\ Stamped(p, CancelAll(js)) /\ \A s \in CancelAll(js) : s.cancelled
           /\ Agree(p, js) => Agree(p, CancelAll(js))
<1> DEFINE off(s) == [s EXCEPT !.cancelled = TRUE]
<1>1. ASSUME NEW s \in js
      PROVE  /\ off(s) \in SearchType /\ off(s).stamp = s.stamp /\ off(s).text = s.text
             /\ off(s).cancelled
  BY DEF Stamped, SearchType
<1>2. CancelAll(js) = {off(s) : s \in js}
  BY DEF CancelAll
<1> HIDE DEF off
<1>3. \A s \in CancelAll(js) : s \in SearchType /\ s.cancelled /\ \E t \in js : s = off(t)
  BY <1>1, <1>2
<1>4. \A s, t \in CancelAll(js) : s.stamp = t.stamp => s = t
  BY <1>1, <1>2 DEF Stamped
<1>5. \A s \in CancelAll(js) : s.stamp <= p.stamp
  BY <1>1, <1>2 DEF Stamped
<1>6. Agree(p, js) => \A s \in CancelAll(js) : s.stamp = p.stamp => s.text = p.value
  BY <1>1, <1>2 DEF Agree
<1> QED
  BY <1>3, <1>4, <1>5, <1>6 DEF Stamped, Agree

(* The page of a search that begins.                                         *)
LEMMA RestartIsTyped ==
    ASSUME NEW g \in PageType
    PROVE  LET p == [g EXCEPT !.changed = FALSE, !.stamp = @ + 1, !.waiting = TRUE]
           IN  /\ p \in PageType /\ p.stamp = g.stamp + 1 /\ p.waiting /\ p.value = g.value
               /\ p.of = g.of /\ p.shows = g.shows
<1>1. g.stamp \in Nat
  BY DEF PageType
<1>2. g.stamp + 1 \in Nat
  BY <1>1
<1> QED
  BY <1>2 DEF PageType

(* A search that begins is the only one with the stamp of the page.          *)
LEMMA LoadKeepsAgreement ==
    ASSUME NEW x, Stamped(x.page, x.jobs), x.page.value \in Texts
    PROVE  Kept(x, LoadSearch(x)) /\ LoadSearch(x).page.value = x.page.value
<1> DEFINE p == [x.page EXCEPT !.changed = FALSE, !.stamp = @ + 1, !.waiting = TRUE]
           new == [stamp |-> x.page.stamp + 1, text |-> x.page.value, cancelled |-> FALSE]
           old == CancelAll(x.jobs)
<1>1. LoadSearch(x) = [page |-> p, jobs |-> old \union {new}]
  BY DEF LoadSearch
<1>2. x.page \in PageType /\ x.page.stamp \in Nat
  BY DEF Stamped, PageType
<1>3. /\ p \in PageType /\ p.stamp = x.page.stamp + 1 /\ p.waiting /\ p.value = x.page.value
      /\ p.of = x.page.of /\ p.shows = x.page.shows
  BY <1>2, RestartIsTyped
<1>4. new \in SearchType /\ new.stamp = p.stamp /\ new.text = p.value
  BY <1>2, <1>3 DEF SearchType
<1>5. /\ old \subseteq SearchType /\ \A s, t \in old : s.stamp = t.stamp => s = t
      /\ \A s \in old : s.stamp <= x.page.stamp /\ s.stamp \in Nat
  BY CancelKeepsAgreement DEF Stamped, SearchType
<1> HIDE DEF p, new, old
<1>6. \A s \in old : s.stamp < p.stamp
  BY <1>2, <1>3, <1>5
<1>7. Stamped(p, old \union {new})
  BY <1>2, <1>3, <1>4, <1>5, <1>6 DEF Stamped
<1>8. Agree(p, old \union {new})
  BY <1>2, <1>3, <1>4, <1>5, <1>6, <1>7 DEF Agree
<1> QED
  BY <1>1, <1>3, <1>8 DEF Kept

(* So do the operations of the page that search again or stop searching.     *)
LEMMA PageOperationsKeepAgreement ==
    ASSUME NEW x, Agree(x.page, x.jobs), IsPair(x)
    PROVE  /\ Kept(x, x)
           /\ Kept(x, Repeated(x)) /\ Repeated(x).page.value = x.page.value
           /\ Kept(x, SwitchToSearch(x)) /\ SwitchToSearch(x).page.value = x.page.value
           /\ Kept(x, SwitchFrom(x)) /\ SwitchFrom(x).page.value = x.page.value
           /\ \A text \in Texts : Kept(x, SetText(x, text)) /\ SetText(x, text).page.value = text
<1>1. Kept(x, x)
  BY DEF Kept, IsPair
<1>2. Stamped(x.page, x.jobs) /\ x.page \in PageType
  BY DEF Agree, Stamped
<1>3. x.page.value # NoText => x.page.value \in Texts
  BY <1>2 DEF PageType
<1>4. Kept(x, Repeated(x)) /\ Repeated(x).page.value = x.page.value
  BY <1>1, <1>2, <1>3, LoadKeepsAgreement DEF Repeated
<1>5. Kept(x, SwitchToSearch(x)) /\ SwitchToSearch(x).page.value = x.page.value
  BY <1>1, <1>2, <1>3, LoadKeepsAgreement DEF SwitchToSearch
<1>6. Kept(x, SwitchFrom(x)) /\ SwitchFrom(x).page.value = x.page.value
  <2>1. SwitchFrom(x) = [page |-> x.page, jobs |-> CancelAll(x.jobs)]
    BY DEF SwitchFrom, IsPair
  <2> QED
    BY <1>2, <2>1, CancelKeepsAgreement DEF Kept
<1>7. ASSUME NEW text \in Texts
      PROVE  Kept(x, SetText(x, text)) /\ SetText(x, text).page.value = text
  <2>1. CASE text = x.page.value
    BY <1>1, <2>1 DEF SetText
  <2>2. CASE text # x.page.value
    <3> DEFINE y == [x EXCEPT !.page.value = text]
               q == [x.page EXCEPT !.value = text]
    <3>1. y = [page |-> q, jobs |-> x.jobs]
      BY DEF IsPair
    <3>2. q \in PageType /\ q.stamp = x.page.stamp /\ q.value = text /\ q.of = x.page.of /\ q.shows = x.page.shows
      BY <1>2 DEF PageType
    <3>3. y.page = q /\ y.jobs = x.jobs
      BY <3>1
    <3>4. Stamped(y.page, y.jobs) /\ y.page.value = text
      BY <1>2, <3>2, <3>3 DEF Stamped
    <3>5. SetText(x, text) = LoadSearch(y)
      BY <2>2 DEF SetText
    <3> HIDE DEF y, q
    <3> QED
      BY <3>2, <3>3, <3>4, <3>5, LoadKeepsAgreement DEF Kept
  <2> QED
    BY <2>1, <2>2
<1> QED
  BY <1>1, <1>4, <1>5, <1>6, <1>7

(* Both are the pair of the page and its searches.                           *)
Shell ==
    /\ details \in BOOLEAN /\ mainPage \in {"overview", "search"}
    /\ backStack \in Seq([mode : {"overview", "search", "details"}, search : Texts \union {NoText}])
    /\ entry \in Texts \union {NoText} /\ entryChanged \in BOOLEAN
    /\ TextsAreThere /\ OverviewIsTheRoot
Places == Seq([mode : {"overview", "search", "details"}, search : Texts \union {NoText}])
Searchable(stack) ==
    stack \in Places /\ \A i \in 1..Len(stack) : stack[i].mode = "search" => stack[i].search \in Texts

LEMMA BothIsPair ==
    ASSUME Agree(searchPage, searches)
    PROVE  /\ IsPair(Both) /\ Agree(Both.page, Both.jobs) /\ Kept(Both, Both)
           /\ Both.page = searchPage /\ Both.jobs = searches
BY DEF Both, IsPair, Kept

(* The place the shell leaves can be pushed, and the head of the stack       *)
(* popped.                                                                   *)
LEMMA PlacesAreSearchable ==
    ASSUME Shell, searchPage \in PageType
    PROVE  /\ Searchable(Pushed)
           /\ backStack # <<>> => Searchable(Tail(backStack)) /\ Head(backStack) \in [mode : {"overview", "search", "details"}, search : Texts \union {NoText}]
           /\ backStack # <<>> /\ Head(backStack).mode = "search" => Head(backStack).search \in Texts
<1> DEFINE Place == [mode : {"overview", "search", "details"}, search : Texts \union {NoText}]
           place == [mode |-> shellMode, search |-> IF shellMode = "search" THEN searchPage.value ELSE NoText]
<1>1. place \in Place
  BY DEF shellMode, ModeOf, Shell, PageType
<1>2. place.mode = "search" => place.search \in Texts
  BY DEF shellMode, ModeOf, Shell, TextsAreThere
<1>3. backStack \in Seq(Place) /\ \A i \in 1..Len(backStack) : backStack[i].mode = "search" => backStack[i].search \in Texts
  BY DEF Shell, TextsAreThere
<1> HIDE DEF place, Place
<1>4. Searchable(<<place>> \o backStack)
  <2> DEFINE pushed == <<place>> \o backStack
  <2>1. pushed \in Seq(Place) /\ Len(pushed) = Len(backStack) + 1
    BY <1>1, <1>3
  <2>2. \A i \in 1..Len(pushed) : pushed[i] = IF i = 1 THEN place ELSE backStack[i - 1]
    BY <1>1, <1>3
  <2>3. \A i \in 1..Len(pushed) : i # 1 => i - 1 \in 1..Len(backStack)
    BY <1>3, <2>1
  <2> HIDE DEF pushed
  <2>4. \A i \in 1..Len(pushed) : pushed[i].mode = "search" => pushed[i].search \in Texts
    BY <1>2, <1>3, <2>2, <2>3
  <2>5. Searchable(pushed)
    BY <2>1, <2>4 DEF Searchable, Places, Place
  <2> QED
    BY <2>5 DEF pushed
<1>5. Searchable(Pushed)
  BY <1>4 DEF Pushed, place
<1>6. ASSUME backStack # <<>>
      PROVE  /\ Searchable(Tail(backStack)) /\ Head(backStack) \in Place
             /\ Head(backStack).mode = "search" => Head(backStack).search \in Texts
  <2>1. /\ Tail(backStack) \in Seq(Place) /\ Len(Tail(backStack)) = Len(backStack) - 1
        /\ Head(backStack) = backStack[1] /\ 1 \in 1..Len(backStack) /\ Len(backStack) \in Nat
    BY <1>3, <1>6
  <2>2. \A i \in 1..Len(Tail(backStack)) : Tail(backStack)[i] = backStack[i + 1] /\ i + 1 \in 1..Len(backStack)
    BY <1>3, <1>6
  <2>3. Searchable(Tail(backStack))
    BY <1>3, <2>1, <2>2 DEF Searchable, Places, Place
  <2> QED
    BY <1>3, <2>1, <2>3
<1> QED
  BY <1>5, <1>6 DEF Place

LEMMA ChangedIsPair ==
    ASSUME NEW x, IsPair(x), NEW v
    PROVE  [x EXCEPT !.page.changed = v] = [page |-> [x.page EXCEPT !.changed = v], jobs |-> x.jobs]
BY DEF IsPair

LEMMA NowhereIsSearchable == Searchable(<<>>)
BY DEF Searchable, Places

(* The shell goes to a search, to the overview and to an app.                *)
LEMMA ShowSearchPageAgrees ==
    ASSUME Shell, NEW text \in Texts, NEW stack, Searchable(stack), NEW x, IsPair(x), Agree(x.page, x.jobs),
           x.page.value = searchPage.value, x.page.of = searchPage.of, ShowSearchPage(text, stack, x)
    PROVE  Shell' /\ Agree(searchPage', searches') /\ searchPage'.of = searchPage.of
<1>1. CASE shellMode = "search"
  <2>1. details = FALSE /\ mainPage = "search"
    BY <1>1 DEF shellMode, ModeOf, Shell
  <2>2. /\ backStack' = stack /\ searchPage' = x.page /\ searches' = x.jobs
        /\ UNCHANGED <<details, mainPage, entry, entryChanged>>
    BY <1>1 DEF ShowSearchPage, Become
  <2>3. TextsAreThere'
    BY <2>2 DEF TextsAreThere, Shell, Searchable
  <2>4. OverviewIsTheRoot'
    BY <2>1, <2>2 DEF OverviewIsTheRoot, shellMode, ModeOf
  <2> QED
    BY <2>2, <2>3, <2>4 DEF Shell, Searchable, Places
<1>2. CASE shellMode # "search"
  <2> DEFINE y == SwitchToSearch(x)
             z == SetText(y, text)
  <2>1. Kept(x, y) /\ Kept(y, z) /\ z.page.value = text
    <3>1. Kept(x, y)
      BY PageOperationsKeepAgreement
    <3>2. IsPair(y) /\ Agree(y.page, y.jobs)
      BY <3>1 DEF Kept, IsPair
    <3> HIDE DEF y
    <3> QED
      BY <3>1, <3>2, PageOperationsKeepAgreement
  <2>2. /\ details' = FALSE /\ mainPage' = "search" /\ entry' = text /\ entryChanged' = TRUE
        /\ backStack' = <<>> \/ backStack' = stack
        /\ searchPage' = z.page /\ searches' = z.jobs
    BY <1>2 DEF ShowSearchPage, Become
  <2> HIDE DEF y, z
  <2>3. Agree(searchPage', searches') /\ searchPage'.of = searchPage.of /\ searchPage'.value = text
    BY <2>1, <2>2 DEF Kept
  <2>4. Searchable(backStack')
    BY <2>2, NowhereIsSearchable
  <2>5. TextsAreThere'
    BY <2>2, <2>3, <2>4 DEF TextsAreThere, Searchable
  <2>6. OverviewIsTheRoot'
    BY <2>2 DEF OverviewIsTheRoot, shellMode, ModeOf
  <2> QED
    BY <2>2, <2>3, <2>4, <2>5, <2>6 DEF Shell, Searchable, Places
<1> QED
  BY <1>1, <1>2

LEMMA ShowOverviewAgrees ==
    ASSUME Shell, Agree(searchPage, searches), ShowOverview
    PROVE  Shell' /\ Agree(searchPage', searches') /\ searchPage'.of = searchPage.of
<1>1. Shell'
  <2>1. /\ details' = FALSE /\ mainPage' = "overview" /\ entry' = NoText /\ entryChanged' = FALSE /\ backStack' = <<>>
    BY DEF ShowOverview, HideEntry
  <2> QED
    BY <2>1, NowhereIsSearchable DEF Shell, TextsAreThere, OverviewIsTheRoot, Searchable, Places
<1> DEFINE x == IF details THEN SwitchToSearch(Both) ELSE Both
<1>2. Kept(Both, x)
  BY BothIsPair, PageOperationsKeepAgreement
<1>3. IsPair(x) /\ Agree(x.page, x.jobs) /\ x.page.of = searchPage.of
  BY <1>2, BothIsPair DEF Kept, IsPair
<1>4. UNCHANGED <<searchPage, searches>> \/ Become(SwitchFrom(x))
  BY DEF ShowOverview
<1> HIDE DEF x
<1>5. Kept(x, SwitchFrom(x))
  BY <1>3, PageOperationsKeepAgreement
<1> QED
  BY <1>1, <1>3, <1>4, <1>5 DEF Kept, Become

LEMMA ShowAppPageAgrees ==
    ASSUME Shell, NEW stack, Searchable(stack), NEW x, IsPair(x), Agree(x.page, x.jobs),
           x.page.value = searchPage.value, ShowAppPage(stack, x)
    PROVE  /\ Shell' /\ Agree(searchPage', searches')
           /\ searchPage'.of = x.page.of /\ searchPage'.value = searchPage.value
<1> DEFINE y == IF shellMode = "search" THEN SwitchFrom(x) ELSE x
<1>1. Kept(x, y) /\ y.page.value = x.page.value
  BY PageOperationsKeepAgreement
<1>2. /\ details' = TRUE /\ mainPage' = mainPage /\ backStack' = stack /\ entry' = NoText /\ entryChanged' = FALSE
      /\ searchPage' = y.page /\ searches' = y.jobs
  BY DEF ShowAppPage, HideEntry, Become
<1> HIDE DEF y
<1>3. Agree(searchPage', searches') /\ searchPage'.of = x.page.of /\ searchPage'.value = searchPage.value
  BY <1>1, <1>2 DEF Kept
<1>4. TextsAreThere'
  BY <1>2, <1>3 DEF Shell, TextsAreThere, Searchable
<1>5. OverviewIsTheRoot'
  BY <1>2 DEF OverviewIsTheRoot, shellMode, ModeOf
<1> QED
  BY <1>2, <1>3, <1>4, <1>5 DEF Shell, Searchable, Places

(* A search that ends is taken away; only the one with the stamp of the page *)
(* changes what the page shows, and it is the last of them.                  *)
Ended(s, shows, of) ==
    [page |-> [searchPage EXCEPT !.waiting = FALSE, !.shows = shows, !.of = of], jobs |-> searches \ {s}]

LEMMA GoneAgrees ==
    ASSUME Agree(searchPage, searches), NEW s \in searches
    PROVE  Agree(searchPage, searches \ {s})
BY DEF Agree, Stamped

LEMMA EndAgrees ==
    ASSUME Agree(searchPage, searches), NEW s \in searches, ~Outdated(s),
           NEW shows \in Shown, NEW of \in Texts \union {NoText}
    PROVE  /\ IsPair(Ended(s, shows, of)) /\ Agree(Ended(s, shows, of).page, Ended(s, shows, of).jobs)
           /\ Ended(s, shows, of).page.of = of /\ Ended(s, shows, of).page.value = searchPage.value
           /\ Ended(s, shows, of).page.shows = shows
<1> DEFINE p == [searchPage EXCEPT !.waiting = FALSE, !.shows = shows, !.of = of]
           x == Ended(s, shows, of)
<1>1. /\ p \in PageType /\ p.stamp = searchPage.stamp /\ p.value = searchPage.value
      /\ p.of = of /\ p.shows = shows
  BY DEF Agree, Stamped, PageType, Shown
<1>2. s.stamp = searchPage.stamp
  BY DEF Outdated
<1>3. \A t \in searches \ {s} : t.stamp # searchPage.stamp
  BY <1>2 DEF Agree, Stamped
<1>4. x = [page |-> p, jobs |-> searches \ {s}]
  BY DEF Ended
<1> HIDE DEF p, x
<1>5. Agree(p, searches \ {s})
  BY <1>1, <1>3 DEF Agree, Stamped
<1>6. x.page = p /\ x.jobs = searches \ {s} /\ IsPair(x)
  BY <1>4 DEF IsPair
<1>7. /\ IsPair(x) /\ Agree(x.page, x.jobs)
      /\ x.page.of = of /\ x.page.value = searchPage.value /\ x.page.shows = shows
  BY <1>1, <1>5, <1>6
<1> QED
  BY <1>7 DEF x

-----------------------------------------------------------------------------
(* Each step, and what it does to the results that are shown.                *)
Good == Shell /\ Agree(searchPage, searches) /\ {appToShow, creating} \subseteq BOOLEAN
ResultsFit == searchPage'.shows = "results" /\ searchPage'.of # searchPage.of => searchPage'.of = searchPage'.value

LEMMA ShellMovesAgree ==
    ASSUME Good, \/ SearchChanged \/ ShowApp \/ OverviewButton \/ GoBack
                 \/ \E text \in Texts : Typed(text) \/ ShowSearch(text) \/ ShowSearchResult(text)
    PROVE  Good' /\ ResultsFit
<1>1. /\ Shell /\ Agree(searchPage, searches) /\ searchPage \in PageType
      /\ IsPair(Both) /\ Agree(Both.page, Both.jobs) /\ Both.page = searchPage /\ Both.jobs = searches
  BY BothIsPair DEF Good, Agree, Stamped
<1>2. /\ Searchable(Pushed)
      /\ backStack # <<>> => Searchable(Tail(backStack))
      /\ backStack # <<>> /\ Head(backStack).mode = "search" => Head(backStack).search \in Texts
  BY <1>1, PlacesAreSearchable
<1>3. {appToShow', creating'} \subseteq BOOLEAN
  BY DEF Good, SearchChanged, ShowApp, OverviewButton, GoBack, Typed, ShowSearch, ShowSearchResult, AppToShowStays
<1> SUFFICES Shell' /\ Agree(searchPage', searches') /\ searchPage'.of = searchPage.of
  BY <1>3 DEF Good, ResultsFit
<1>4. ASSUME SearchChanged PROVE Shell' /\ Agree(searchPage', searches') /\ searchPage'.of = searchPage.of
  <2>1. entry \in Texts /\ entryChanged
    BY <1>1, <1>4 DEF SearchChanged, Shell, TextsAreThere
  <2>2. CASE shellMode # "search"
    BY <1>1, <1>2, <1>4, <2>1, <2>2, ShowSearchPageAgrees DEF SearchChanged
  <2>3. CASE shellMode = "search"
    <3> DEFINE y == SetText(Both, entry)
    <3>1. Kept(Both, y) /\ y.page.value = entry
      BY <1>1, <2>1, PageOperationsKeepAgreement
    <3>2. IsPair(y) /\ Agree(y.page, y.jobs)
      BY <3>1 DEF Kept, IsPair
    <3>3. /\ searchPage' = SwitchToSearch(y).page /\ searches' = SwitchToSearch(y).jobs
          /\ entryChanged' = FALSE /\ UNCHANGED <<details, mainPage, backStack, entry>>
      BY <1>4, <2>3 DEF SearchChanged, Become
    <3> HIDE DEF y
    <3>4. Kept(y, SwitchToSearch(y)) /\ SwitchToSearch(y).page.value = entry
      BY <3>1, <3>2, PageOperationsKeepAgreement
    <3>5. Agree(searchPage', searches') /\ searchPage'.of = searchPage.of /\ searchPage'.value = entry
      BY <1>1, <3>1, <3>3, <3>4 DEF Kept
    <3>6. TextsAreThere' /\ OverviewIsTheRoot'
      BY <1>1, <2>1, <3>3, <3>5 DEF Shell, TextsAreThere, OverviewIsTheRoot, shellMode, ModeOf
    <3> QED
      BY <1>1, <3>3, <3>5, <3>6 DEF Shell
  <2> QED
    BY <2>2, <2>3
<1>5. ASSUME ShowApp PROVE Shell' /\ Agree(searchPage', searches') /\ searchPage'.of = searchPage.of
  BY <1>1, <1>2, <1>5, ShowAppPageAgrees DEF ShowApp
<1>6. ASSUME ShowOverview PROVE Shell' /\ Agree(searchPage', searches') /\ searchPage'.of = searchPage.of
  BY <1>1, <1>6, ShowOverviewAgrees
<1>7. ASSUME GoBack, ~ShowOverview PROVE Shell' /\ Agree(searchPage', searches') /\ searchPage'.of = searchPage.of
  <2>1. backStack # <<>> /\ Head(backStack).mode \in {"search", "details"} /\ shellMode # "overview"
    <3>1. backStack # <<>> /\ Head(backStack).mode # "overview" /\ shellMode # "overview"
      BY <1>7 DEF GoBack
    <3>2. Head(backStack).mode \in {"overview", "search", "details"}
      BY <1>1, <3>1, PlacesAreSearchable
    <3> QED
      BY <3>1, <3>2
  <2>2. CASE Head(backStack).mode = "details"
    <3>1. ShowAppPage(Tail(backStack), Both)
      BY <1>7, <2>1, <2>2 DEF GoBack
    <3> QED
      BY <1>1, <1>2, <2>1, <3>1, ShowAppPageAgrees
  <2>3. CASE Head(backStack).mode = "search" /\ shellMode # "search"
    <3>1. ShowSearchPage(Head(backStack).search, Tail(backStack), Both)
      BY <1>7, <2>1, <2>3 DEF GoBack
    <3> QED
      BY <1>1, <1>2, <2>1, <2>3, <3>1, ShowSearchPageAgrees
  <2>4. CASE Head(backStack).mode = "search" /\ shellMode = "search"
    <3>1. /\ backStack' = Tail(backStack) /\ entry' = Head(backStack).search
          /\ UNCHANGED <<details, mainPage, entryChanged, searchPage, searches>>
      BY <1>7, <2>1, <2>4 DEF GoBack
    <3>2. TextsAreThere'
      BY <1>1, <1>2, <2>1, <2>4, <3>1 DEF Shell, TextsAreThere, Searchable
    <3>3. OverviewIsTheRoot'
      BY <2>1, <3>1 DEF OverviewIsTheRoot, shellMode, ModeOf
    <3> QED
      BY <1>1, <1>2, <2>1, <2>4, <3>1, <3>2, <3>3 DEF Shell, Searchable, Places
  <2> QED
    BY <2>1, <2>2, <2>3, <2>4
<1>8. ASSUME NEW text \in Texts, Typed(text)
      PROVE  Shell' /\ Agree(searchPage', searches') /\ searchPage'.of = searchPage.of
  BY <1>1, <1>8 DEF Typed, Shell, TextsAreThere, OverviewIsTheRoot, shellMode, ModeOf
<1>9. ASSUME NEW text \in Texts, ShowSearch(text)
      PROVE  Shell' /\ Agree(searchPage', searches') /\ searchPage'.of = searchPage.of
  BY <1>1, <1>2, <1>9, ShowSearchPageAgrees DEF ShowSearch
<1>10. ASSUME NEW text \in Texts, ShowSearchResult(text)
       PROVE  Shell' /\ Agree(searchPage', searches') /\ searchPage'.of = searchPage.of
  <2> DEFINE q == [searchPage EXCEPT !.changed = TRUE]
             y == [Both EXCEPT !.page.changed = TRUE]
  <2>1. y = [page |-> q, jobs |-> searches] /\ y.page = q /\ y.jobs = searches
    <3>1. y = [page |-> q, jobs |-> searches]
      BY <1>1, ChangedIsPair
    <3> QED
      BY <3>1
  <2>2. /\ q \in PageType /\ q.stamp = searchPage.stamp /\ q.value = searchPage.value /\ q.of = searchPage.of
        /\ q.shows = searchPage.shows /\ q.waiting = searchPage.waiting
    BY <1>1 DEF PageType
  <2> HIDE DEF q, y
  <2>3. IsPair(y) /\ Agree(y.page, y.jobs)
    BY <1>1, <2>1, <2>2 DEF IsPair, Agree, Stamped
  <2>4. ShowSearchPage(text, Pushed, Both) \/ ShowSearchPage(text, Pushed, y)
    BY <1>10 DEF ShowSearchResult, y
  <2> QED
    BY <1>1, <1>2, <2>1, <2>2, <2>3, <2>4, ShowSearchPageAgrees
<1> QED
  BY <1>4, <1>5, <1>6, <1>7, <1>8, <1>9, <1>10 DEF OverviewButton

LEMMA SearchesAgree ==
    ASSUME Good, ReloadSearch \/ MoreResults \/ WaitingShow \/ AppCreated \/ \E s \in searches : SearchEnds(s)
    PROVE  Good' /\ ResultsFit
<1>1. /\ Shell /\ Agree(searchPage, searches) /\ searchPage \in PageType
      /\ IsPair(Both) /\ Agree(Both.page, Both.jobs) /\ Both.page = searchPage /\ Both.jobs = searches
  BY BothIsPair DEF Good, Agree, Stamped
<1>2. Searchable(Pushed)
  BY <1>1, PlacesAreSearchable
<1>3. {appToShow', creating'} \subseteq BOOLEAN
  BY DEF Good, ReloadSearch, MoreResults, WaitingShow, AppCreated, SearchEnds, AppToShowStays
<1> SUFFICES Shell' /\ Agree(searchPage', searches') /\ ResultsFit
  BY <1>3 DEF Good
<1>4. ASSUME UNCHANGED <<details, mainPage, backStack, entry, entryChanged>>, searchPage'.value = searchPage.value
      PROVE  Shell'
  BY <1>1, <1>4 DEF Shell, TextsAreThere, OverviewIsTheRoot, shellMode, ModeOf
<1>5. ASSUME ReloadSearch \/ MoreResults PROVE Shell' /\ Agree(searchPage', searches') /\ ResultsFit
  <2>1. MoreResults => searchPage.value \in Texts
    BY <1>1 DEF MoreResults, shellMode, ModeOf, Shell, TextsAreThere
  <2>2. Stamped(Both.page, Both.jobs)
    BY <1>1 DEF Agree
  <2>3. PICK x : Kept(Both, x) /\ x.page.value = Both.page.value /\ Become(x)
    BY <1>1, <1>5, <2>1, <2>2, PageOperationsKeepAgreement, LoadKeepsAgreement DEF ReloadSearch, MoreResults
  <2>4. Agree(searchPage', searches') /\ searchPage'.of = searchPage.of /\ searchPage'.value = searchPage.value
    BY <1>1, <2>3 DEF Kept, Become
  <2> QED
    BY <1>4, <1>5, <2>4 DEF ReloadSearch, MoreResults, ResultsFit
<1>6. ASSUME WaitingShow PROVE Shell' /\ Agree(searchPage', searches') /\ ResultsFit
  <2>1. /\ searchPage' \in PageType /\ searchPage'.value = searchPage.value /\ searchPage'.of = searchPage.of
        /\ searchPage'.shows = "spinner" /\ searchPage'.stamp = searchPage.stamp /\ searches' = searches
    BY <1>1, <1>6 DEF WaitingShow, PageType
  <2>2. Agree(searchPage', searches')
    BY <1>1, <2>1 DEF Agree, Stamped
  <2> QED
    BY <1>4, <1>6, <2>1, <2>2 DEF WaitingShow, ResultsFit
<1>7. ASSUME AppCreated PROVE Shell' /\ Agree(searchPage', searches') /\ ResultsFit
  BY <1>1, <1>2, <1>4, <1>7, ShowAppPageAgrees DEF AppCreated, ResultsFit
<1>8. ASSUME NEW s \in searches, SearchEnds(s) PROVE Shell' /\ Agree(searchPage', searches') /\ ResultsFit
  <2>1. CASE Outdated(s)
    BY <1>1, <1>4, <1>8, <2>1, GoneAgrees DEF SearchEnds, ResultsFit
  <2>2. CASE ~Outdated(s)
    <3>1. /\ s.text \in Texts /\ s.text = searchPage.value
          /\ searchPage.of \in Texts \union {NoText}
          /\ searchPage.shows \in Shown
      BY <1>1, <2>2 DEF Outdated, Agree, Stamped, SearchType, PageType, Shown
    <3>2. PICK sh \in Shown, o \in Texts \union {NoText} :
            /\ o = searchPage.of \/ o = searchPage.value \/ sh = "no results"
            /\ \/ Become(Ended(s, sh, o)) /\ UNCHANGED <<details, mainPage, backStack, entry, entryChanged>>
               \/ ShowAppPage(Pushed, Ended(s, sh, o)) /\ (o = searchPage.of \/ o = searchPage.value)
      <4>1. "no results" \in Shown /\ "results" \in Shown
        BY DEF Shown
      <4> QED
        BY <1>8, <2>2, <3>1, <4>1 DEF SearchEnds, Ended
    <3> DEFINE y == Ended(s, sh, o)
    <3>3. /\ IsPair(y) /\ Agree(y.page, y.jobs) /\ y.page.of = o /\ y.page.value = searchPage.value
          /\ y.page.shows = sh
      BY <1>1, <2>2, EndAgrees
    <3>4. \/ Become(y) /\ UNCHANGED <<details, mainPage, backStack, entry, entryChanged>>
          \/ ShowAppPage(Pushed, y) /\ (o = searchPage.of \/ o = searchPage.value)
      BY <3>2
    <3> HIDE DEF y
    <3>5. CASE Become(y) /\ UNCHANGED <<details, mainPage, backStack, entry, entryChanged>>
      BY <1>4, <3>2, <3>3, <3>5 DEF Become, ResultsFit
    <3>6. CASE ShowAppPage(Pushed, y) /\ (o = searchPage.of \/ o = searchPage.value)
      BY <1>1, <1>2, <3>3, <3>6, ShowAppPageAgrees DEF ResultsFit
    <3> QED
      BY <3>4, <3>5, <3>6
  <2> QED
    BY <2>1, <2>2
<1> QED
  BY <1>5, <1>6, <1>7, <1>8

LEMMA StampBound == MaxStamp \in Nat
BY SearchAssumption DEF SearchAssumption

(* The invariant of the module is what the page, its searches and the shell  *)
(* agree on.                                                                 *)
LEMMA SearchIInvIsGood == SearchIInv <=> Good /\ searchPage.stamp <= MaxStamp
<1>1. ASSUME SearchIInv PROVE Good /\ searchPage.stamp <= MaxStamp
  <2>1. /\ searchPage \in PageType /\ searchPage.stamp <= MaxStamp /\ searches \subseteq SearchType
    <3>1. 0..MaxStamp \subseteq Nat /\ 1..MaxStamp \subseteq Nat \ {0} /\ \A n \in 0..MaxStamp : n <= MaxStamp
      BY StampBound
    <3> QED
      BY <1>1, <3>1 DEF SearchIInv, SearchInv, SearchTypeOK, PageType, SearchType
  <2>2. Agree(searchPage, searches)
    BY <1>1, <2>1 DEF Agree, Stamped, SearchIInv, SearchInv, SearchTypeOK, StampIsOfTheText, SearchIsWaitedFor, SearchRuns
  <2> QED
    BY <1>1, <2>1, <2>2 DEF Good, Shell, SearchIInv, SearchInv, SearchTypeOK
<1>2. ASSUME Good, searchPage.stamp <= MaxStamp PROVE SearchIInv
  <2>1. searchPage \in PageType /\ searches \subseteq SearchType
    BY <1>2 DEF Good, Agree, Stamped
  <2>2. searchPage.stamp \in 0..MaxStamp
    <3>1. searchPage.stamp \in Nat
      BY <2>1 DEF PageType
    <3> QED
      BY <1>2, <3>1, StampBound
  <2>3. \A s \in searches : s.stamp \in 1..MaxStamp
    <3> SUFFICES ASSUME NEW s \in searches PROVE s.stamp \in 1..MaxStamp
      OBVIOUS
    <3>1. s.stamp \in Nat \ {0} /\ searchPage.stamp \in Nat /\ s.stamp <= searchPage.stamp
      BY <1>2, <2>1 DEF PageType, SearchType, Good, Agree, Stamped
    <3> QED
      BY <1>2, <3>1, StampBound
  <2>4. SearchTypeOK
    BY <1>2, <2>1, <2>2, <2>3 DEF SearchTypeOK, Good, Shell, Agree, Stamped, PageType, SearchType
  <2> QED
    BY <1>2, <2>4 DEF SearchIInv, SearchInv, StampIsOfTheText, SearchIsWaitedFor, SearchRuns, Good, Agree, Stamped, Shell
<1> QED
  BY <1>1, <1>2

LEMMA SearchInitInv == SearchInit => SearchIInv
<1> SUFFICES ASSUME SearchInit PROVE Good /\ searchPage.stamp <= MaxStamp
  BY SearchIInvIsGood
<1>1. Shell
  BY NowhereIsSearchable DEF SearchInit, Shell, Searchable, Places, TextsAreThere, OverviewIsTheRoot
<1>2. Agree(searchPage, searches) /\ searchPage.stamp = 0
  BY DEF SearchInit, Agree, Stamped, PageType
<1>3. searchPage.stamp <= MaxStamp
  BY <1>2, StampBound
<1> QED
  BY <1>1, <1>2, <1>3 DEF Good, SearchInit

LEMMA SearchNextInv == SearchIInv /\ [SearchNext]_searchVars => SearchIInv' /\ ResultsFit
<1> SUFFICES ASSUME SearchIInv, [SearchNext]_searchVars PROVE SearchIInv' /\ ResultsFit
  OBVIOUS
<1>1. Good /\ searchPage.stamp <= MaxStamp
  BY SearchIInvIsGood
<1>2. (SearchIInv <=> Good /\ searchPage.stamp <= MaxStamp)'
  BY SearchIInvIsGood, PTL
<1>3. CASE SearchNext
  BY <1>1, <1>2, <1>3, ShellMovesAgree, SearchesAgree DEF SearchNext
<1>4. CASE UNCHANGED searchVars
  BY <1>1, <1>2, <1>4
  DEF searchVars, Good, Shell, ResultsFit, TextsAreThere, OverviewIsTheRoot, shellMode, ModeOf
<1> QED
  BY <1>3, <1>4

(* However the answers are delayed and the shell goes between its pages: a   *)
(* search that goes on gets its spinner, and from the overview there is      *)
(* nowhere to go back to (SearchInv of the run page).                        *)
THEOREM SearchAndShellAgree == SearchSpec => []SearchInv
<1>1. SearchIInv => SearchInv
  BY DEF SearchIInv
<1> QED
  BY <1>1, SearchInitInv, SearchNextInv, PTL DEF SearchSpec

(* The results that are put on the page are those of its text                *)
(* (ResultsAreOfTheText of the run page).                                    *)
THEOREM ResultsFitTheText == SearchSpec => ResultsAreOfTheText
<1>1. SearchIInv /\ [SearchNext]_searchVars => [ResultsFit]_searchVars
  BY SearchNextInv
<1> QED
  BY <1>1, SearchInitInv, SearchNextInv, PTL DEF SearchSpec, ResultsAreOfTheText, ResultsFit

-----------------------------------------------------------------------------
(* The installed page.  What the invariant says of the rows of one app, of   *)
(* which n are listened to and there are m at most.                          *)
RowList == UNION {[1..n -> Row] : n \in 0..2}
Fits(list, n, m) ==
    /\ list \in Seq(Row) /\ Len(list) <= m /\ n \in 0..2 /\ n <= Len(list)
    /\ n > 0 => \E i \in 1..Len(list) : ~list[i].leaving
    /\ n = 2 => \A i \in 1..Len(list) : ~list[i].leaving

LEMMA UpToTwo ==
    ASSUME NEW k \in Nat
    PROVE  /\ k <= 2 <=> k \in {0, 1, 2}
           /\ k <= 1 <=> k \in {0, 1}
OBVIOUS

LEMMA RowListsAreShort ==
    ASSUME NEW list
    PROVE  list \in RowList <=> list \in Seq(Row) /\ Len(list) <= 2
<1>1. ASSUME list \in RowList PROVE list \in Seq(Row) /\ Len(list) <= 2
  <2>1. PICK n \in 0..2 : list \in [1..n -> Row]
    BY <1>1 DEF RowList
  <2>2. list \in Seq(Row) /\ Len(list) = n
    BY <2>1
  <2> QED
    BY <2>2
<1>2. ASSUME list \in Seq(Row), Len(list) <= 2 PROVE list \in RowList
  <2>1. list \in [1..Len(list) -> Row] /\ Len(list) \in Nat
    BY <1>2, LenProperties
  <2>2. Len(list) \in 0..2
    BY <1>2, <2>1
  <2> QED
    BY <2>1, <2>2 DEF RowList
<1> QED
  BY <1>1, <1>2

(* The first row is one of those there are.                                  *)
LEMMA FirstRowIsThere ==
    ASSUME NEW list \in Seq(Row), list # <<>>, Len(list) <= 2
    PROVE  FirstRow(list) \in 1..Len(list)
<1> DEFINE busy == {i \in DOMAIN list : list[i].section = "in progress"}
<1>0. Len(list) \in {1, 2}
  <2>1. Len(list) \in Nat /\ Len(list) # 0
    BY LenProperties, EmptySeq
  <2> HIDE DEF busy
  <2> QED
    BY <2>1, UpToTwo
<1>1. busy \subseteq 1..Len(list) /\ 1 \in 1..Len(list)
  <2>1. DOMAIN list = 1..Len(list)
    BY LenProperties
  <2>2. busy \subseteq 1..Len(list)
    BY <2>1
  <2>3. 1 \in 1..Len(list)
    BY <1>0
  <2> QED
    BY <2>2, <2>3
<1>2. ASSUME busy # {} PROVE Min(busy) \in busy
  <2> HIDE DEF busy
  <2>1. \E x \in busy : \A y \in busy : x <= y
    <3>1. busy \subseteq {1, 2}
      <4>1. 1..Len(list) \subseteq {1, 2}
        BY <1>0
      <4> QED
        BY <1>1, <4>1
    <3>2. CASE 1 \in busy
      BY <3>1, <3>2
    <3>3. CASE 1 \notin busy
      <4>1. \A y \in busy : y = 2
        BY <3>1, <3>3
      <4> QED
        BY <1>2, <4>1
    <3> QED
      BY <3>2, <3>3
  <2> QED
    BY <2>1 DEF Min
<1> HIDE DEF busy
<1>3. FirstRow(list) = IF busy # {} THEN Min(busy) ELSE 1
  BY DEF FirstRow, busy
<1> QED
  BY <1>1, <1>2, <1>3

(* A list without one of its rows.                                           *)
LEMMA RemovedAtIs ==
    ASSUME NEW list \in Seq(Row), NEW i \in 1..Len(list)
    PROVE  /\ RemovedAt(list, i) \in Seq(Row) /\ Len(RemovedAt(list, i)) = Len(list) - 1
           /\ \A j \in 1..(Len(list) - 1) : RemovedAt(list, i)[j] = IF j < i THEN list[j] ELSE list[j + 1]
<1> DEFINE front == SubSeq(list, 1, i - 1)
           back == SubSeq(list, i + 1, Len(list))
<1>1. front \in Seq(Row) /\ Len(front) = i - 1 /\ \A j \in 1..(i - 1) : front[j] = list[j]
  OBVIOUS
<1>2. back \in Seq(Row) /\ Len(back) = Len(list) - i /\ \A j \in 1..(Len(list) - i) : back[j] = list[i + j]
  OBVIOUS
<1> HIDE DEF front, back
<1>3. front \o back \in Seq(Row) /\ Len(front \o back) = Len(list) - 1
  BY <1>1, <1>2
<1>4. \A j \in 1..(Len(list) - 1) : (front \o back)[j] = IF j < i THEN list[j] ELSE list[j + 1]
  <2> SUFFICES ASSUME NEW j \in 1..(Len(list) - 1)
               PROVE  (front \o back)[j] = IF j < i THEN list[j] ELSE list[j + 1]
    OBVIOUS
  <2>1. CASE j < i
    BY <1>1, <1>2, <2>1
  <2>2. CASE ~(j < i)
    <3>1. (front \o back)[j] = back[j - (i - 1)]
      BY <1>1, <1>2, <2>2
    <3>2. j - (i - 1) \in 1..(Len(list) - i) /\ i + (j - (i - 1)) = j + 1
      BY <2>2
    <3>3. back[j - (i - 1)] = list[i + (j - (i - 1))]
      BY <1>2, <3>2
    <3> QED
      BY <2>2, <3>1, <3>2, <3>3
  <2> QED
    BY <2>1, <2>2
<1> QED
  BY <1>3, <1>4 DEF RemovedAt, front, back

(* How many rows and connections there are.                                  *)
LEMMA FitsCounts ==
    ASSUME NEW list, NEW n, NEW m \in 0..2, Fits(list, n, m)
    PROVE  /\ list \in Seq(Row) /\ Len(list) <= m /\ n <= Len(list) /\ Len(list) \in Nat
           /\ m \in {0, 1, 2} /\ n \in {0, 1, 2} /\ Len(list) \in {0, 1, 2}
           /\ \A i \in 1..Len(list) : list[i] \in Row
<1>1. list \in Seq(Row) /\ Len(list) \in Nat
  BY LenProperties DEF Fits
<1>2. \A i \in 1..Len(list) : list[i] \in Row
  BY <1>1, ElementOfSeq
<1>3. Len(list) <= m /\ n \in 0..2 /\ n <= Len(list)
  BY DEF Fits
<1>4. m \in {0, 1, 2} /\ n \in {0, 1, 2}
  BY <1>3
<1>5. Len(list) \in {0, 1, 2}
  <2>1. Len(list) <= 2
    BY <1>1, <1>3, <1>4
  <2> QED
    BY <1>1, <2>1, UpToTwo
<1>6. /\ list \in Seq(Row) /\ Len(list) <= m /\ n <= Len(list) /\ Len(list) \in Nat
  BY <1>1, <1>3
<1> QED
  BY <1>2, <1>4, <1>5, <1>6, Zenon

(* A row that is added is listened to.                                       *)
LEMMA AppendFits ==
    ASSUME NEW list, NEW n, Fits(list, n, 1), NEW r \in Row, ~r.leaving
    PROVE  Fits(Append(list, r), n + 1, 2)
<1> DEFINE new == Append(list, r)
<1>1. /\ new \in Seq(Row) /\ Len(new) = Len(list) + 1 /\ new[Len(list) + 1] = r
      /\ \A i \in 1..Len(list) : new[i] = list[i]
  BY AppendProperties DEF Fits
<1>2. Len(list) \in {0, 1} /\ n \in {0, 1} /\ n <= Len(list)
  <2>1. Len(list) <= 1 /\ n <= Len(list) /\ n \in {0, 1, 2} /\ Len(list) \in Nat
    BY FitsCounts
  <2>2. n <= 1 /\ n \in Nat
    BY <2>1
  <2> QED
    BY <2>1, <2>2, UpToTwo
<1> HIDE DEF new
<1>3. n = 1 => Len(list) = 1 /\ ~list[1].leaving
  BY <1>2 DEF Fits
<1>4. Len(new) <= 2 /\ n + 1 \in 0..2 /\ n + 1 <= Len(new) /\ ~new[Len(list) + 1].leaving /\ Len(list) + 1 \in 1..Len(new)
  BY <1>1, <1>2, <1>3
<1>5. n + 1 = 2 => \A i \in 1..Len(new) : ~new[i].leaving
  BY <1>1, <1>2, <1>3
<1> QED
  BY <1>1, <1>4, <1>5 DEF Fits, new

LEMMA FirstFits ==
    ASSUME NEW n, Fits(<<>>, n, 2), NEW r \in Row, ~r.leaving
    PROVE  n = 0 /\ Fits(<<r>>, 1, 1)
<1>1. n = 0
  <2>1. n <= Len(<<>>) /\ n \in {0, 1, 2}
    BY FitsCounts
  <2>2. Len(<<>>) = 0
    OBVIOUS
  <2> QED
    BY <2>1, <2>2
<1>2. <<r>> \in Seq(Row) /\ Len(<<r>>) = 1 /\ <<r>>[1] = r
  OBVIOUS
<1> QED
  BY <1>1, <1>2 DEF Fits

(* A row that leaves disconnects all.                                        *)
LEMMA UnrevealFits ==
    ASSUME NEW list, NEW n, NEW m, Fits(list, n, m), NEW i \in 1..Len(list), NEW r \in Row
    PROVE  Fits([list EXCEPT ![i] = r], 0, m)
BY ExceptSeq DEF Fits

(* It is removed later, and takes no connection with it.                     *)
LEMMA RemoveFits ==
    ASSUME NEW list, NEW n, NEW m \in 0..2, Fits(list, n, m), NEW i \in 1..Len(list), list[i].leaving
    PROVE  Fits(RemovedAt(list, i), n, m)
<1> DEFINE new == RemovedAt(list, i)
<1>1. /\ new \in Seq(Row) /\ Len(new) = Len(list) - 1
      /\ \A j \in 1..(Len(list) - 1) : new[j] = IF j < i THEN list[j] ELSE list[j + 1]
  BY RemovedAtIs DEF Fits
<1>2. n # 2 /\ Len(list) \in {1, 2} /\ n \in 0..2
  <2>1. Len(list) \in {0, 1, 2} /\ n \in {0, 1, 2} /\ i \in 1..Len(list)
    BY FitsCounts
  <2>2. n # 2
    BY DEF Fits
  <2> QED
    BY <2>1, <2>2
<1> HIDE DEF new
<1>3. ASSUME n > 0 PROVE n <= Len(new) /\ \E j \in 1..Len(new) : ~new[j].leaving
  <2>1. PICK k \in 1..Len(list) : ~list[k].leaving
    BY <1>3 DEF Fits
  <2>2. k # i /\ Len(list) = 2
    BY <1>2, <2>1
  <2>3. new[1] = list[k] /\ Len(new) = 1
    BY <1>1, <2>2
  <2> QED
    BY <1>2, <1>3, <2>1, <2>3
<1>4. Len(new) <= m /\ n <= Len(new)
  BY <1>1, <1>2, <1>3 DEF Fits
<1> QED
  BY <1>1, <1>2, <1>3, <1>4 DEF Fits, new

(* A row that moves stays.                                                   *)
LEMMA MoveFits ==
    ASSUME NEW list, NEW n, NEW m \in 0..2, Fits(list, n, m), NEW i \in 1..Len(list),
           NEW r \in Row, r.leaving = list[i].leaving
    PROVE  Fits(Append(RemovedAt(list, i), r), n, m)
<1> DEFINE gone == RemovedAt(list, i)
           new == Append(gone, r)
<1>1. /\ gone \in Seq(Row) /\ Len(gone) = Len(list) - 1
      /\ \A j \in 1..(Len(list) - 1) : gone[j] = IF j < i THEN list[j] ELSE list[j + 1]
  BY RemovedAtIs DEF Fits
<1>2. Len(list) \in {1, 2} /\ n \in 0..2
  <2>1. Len(list) \in {0, 1, 2} /\ n \in {0, 1, 2} /\ i \in 1..Len(list)
    BY FitsCounts
  <2> QED
    BY <2>1
<1> HIDE DEF gone
<1>3. /\ new \in Seq(Row) /\ Len(new) = Len(list) /\ new[Len(list)] = r
      /\ \A j \in 1..(Len(list) - 1) : new[j] = gone[j]
  BY <1>1, <1>2
<1> HIDE DEF new
<1>4. ASSUME NEW j \in 1..Len(new) PROVE new[j] = r \/ \E k \in 1..Len(list) : new[j] = list[k]
  BY <1>1, <1>2, <1>3
<1>5. ASSUME NEW k \in 1..Len(list), k # i PROVE \E j \in 1..Len(new) : new[j] = list[k]
  <2>1. Len(list) = 2 /\ new[1] = list[k]
    BY <1>1, <1>2, <1>3, <1>5
  <2> QED
    BY <1>3, <2>1
<1>6. Len(list) \in 1..Len(new)
  BY <1>2, <1>3
<1>7. n > 0 => \E j \in 1..Len(new) : ~new[j].leaving
  <2> SUFFICES ASSUME n > 0 PROVE \E j \in 1..Len(new) : ~new[j].leaving
    OBVIOUS
  <2>1. PICK k \in 1..Len(list) : ~list[k].leaving
    BY DEF Fits
  <2>2. CASE k = i
    BY <1>3, <1>6, <2>1, <2>2
  <2>3. CASE k # i
    BY <1>5, <2>1, <2>3
  <2> QED
    BY <2>2, <2>3
<1>8. n = 2 => \A j \in 1..Len(new) : ~new[j].leaving
  BY <1>4 DEF Fits
<1>9. new \in Seq(Row) /\ Len(new) = Len(list)
  BY <1>3
<1> QED
  BY <1>7, <1>8, <1>9 DEF Fits, new, gone

-----------------------------------------------------------------------------
(* All rows of a page fit.                                                   *)
AllFit(R, H, m) ==
    /\ R \in [PageApps -> Seq(Row)] /\ H \in [PageApps -> 0..2] /\ m \in 0..2
    /\ \A a \in PageApps : Fits(R[a], H[a], m)

(* One app has other rows, or other connections.                             *)
LEMMA OneChangeFits ==
    ASSUME NEW R, NEW H, NEW m, AllFit(R, H, m), NEW a \in PageApps, NEW list, NEW n, Fits(list, n, m)
    PROVE  AllFit([R EXCEPT ![a] = list], [H EXCEPT ![a] = n], m)
<1>1. list \in Seq(Row) /\ n \in 0..2
  BY DEF Fits
<1> QED
  BY <1>1 DEF AllFit

LEMMA OtherSectionIsARow ==
    ASSUME NEW r \in Row, NEW app
    PROVE  /\ [r EXCEPT !.section = SectionOf(app)] \in Row
           /\ [r EXCEPT !.section = SectionOf(app)].leaving = r.leaving
           /\ [r EXCEPT !.leaving = TRUE] \in Row
BY DEF Row, SectionOf

LEMMA UnrevealKeepsFit ==
    ASSUME NEW p, NEW m, AllFit(p.rows, p.handlers, m), NEW a \in PageApps
    PROVE  AllFit(Unreveal(p, a).rows, Unreveal(p, a).handlers, m)
<1> DEFINE R == p.rows
           H == p.handlers
           i == FirstRow(R[a])
<1>1. CASE R[a] = <<>>
  BY <1>1 DEF Unreveal
<1>2. CASE R[a] # <<>>
  <2>1. Fits(R[a], H[a], m) /\ m \in 0..2 /\ R[a] \in Seq(Row) /\ R \in [PageApps -> Seq(Row)]
    BY DEF AllFit
  <2>2. Len(R[a]) <= 2
    <3> HIDE DEF R, H
    <3> QED
      BY <2>1, FitsCounts
  <2>3. i \in 1..Len(R[a]) /\ R[a][i] \in Row
    BY <1>2, <2>1, <2>2, FirstRowIsThere, ElementOfSeq
  <2>4. Unreveal(p, a) = [rows |-> [R EXCEPT ![a] = [R[a] EXCEPT ![i] = [R[a][i] EXCEPT !.leaving = TRUE]]],
                          handlers |-> [H EXCEPT ![a] = 0]]
    BY <1>2 DEF Unreveal
  <2> HIDE DEF R, H, i
  <2>5. Fits([R[a] EXCEPT ![i] = [R[a][i] EXCEPT !.leaving = TRUE]], 0, m)
    BY <2>1, <2>3, UnrevealFits, OtherSectionIsARow
  <2>6. AllFit([R EXCEPT ![a] = [R[a] EXCEPT ![i] = [R[a][i] EXCEPT !.leaving = TRUE]]], [H EXCEPT ![a] = 0], m)
    BY <2>5, OneChangeFits DEF R, H
  <2> QED
    BY <2>4, <2>6
<1> QED
  BY <1>1, <1>2

LEMMA MoveKeepsFit ==
    ASSUME NEW p, NEW m, AllFit(p.rows, p.handlers, m), NEW a \in PageApps, p.rows[a] # <<>>
    PROVE  /\ AllFit(MoveRow(p, a).rows, MoveRow(p, a).handlers, m)
           /\ MoveRow(p, a).rows[a] # <<>>
<1> DEFINE R == p.rows
           H == p.handlers
           i == FirstRow(R[a])
           section == SectionOf(pageApp[a])
           r == [R[a][i] EXCEPT !.section = section]
           list == Append(RemovedAt(R[a], i), r)
<1>1. CASE R[a][i].section = section
  BY <1>1 DEF MoveRow
<1>2. CASE R[a][i].section # section
  <2>1. Fits(R[a], H[a], m) /\ m \in 0..2 /\ R[a] \in Seq(Row) /\ R \in [PageApps -> Seq(Row)] /\ H \in [PageApps -> 0..2]
    BY DEF AllFit
  <2>2. Len(R[a]) <= 2
    <3> HIDE DEF R, H
    <3> QED
      BY <2>1, FitsCounts
  <2>3. i \in 1..Len(R[a]) /\ R[a][i] \in Row
    BY <2>1, <2>2, FirstRowIsThere, ElementOfSeq
  <2>4. MoveRow(p, a) = [rows |-> [R EXCEPT ![a] = list], handlers |-> H]
    BY <1>2 DEF MoveRow
  <2>5. r \in Row /\ r.leaving = R[a][i].leaving
    <3> HIDE DEF R, i
    <3> QED
      BY <2>3, OtherSectionIsARow
  <2>6. Fits(list, H[a], m)
    <3> HIDE DEF R, H, i, r
    <3> QED
      BY <2>1, <2>3, <2>5, MoveFits
  <2>7. list # <<>>
    <3>1. RemovedAt(R[a], i) \in Seq(Row)
      BY <2>1, <2>3, RemovedAtIs
    <3> HIDE DEF R, H, i, r
    <3> QED
      BY <2>5, <3>1, AppendProperties
  <2> HIDE DEF R, H, i, r, list, section
  <2>8. AllFit([R EXCEPT ![a] = list], [H EXCEPT ![a] = H[a]], m)
    BY <2>6, OneChangeFits DEF R, H
  <2>9. [H EXCEPT ![a] = H[a]] = H /\ [R EXCEPT ![a] = list][a] = list
    BY <2>1
  <2> QED
    BY <2>4, <2>7, <2>8, <2>9
<1> QED
  BY <1>1, <1>2

-----------------------------------------------------------------------------
(* The invariant in these terms.                                             *)
Limit == IF pageWaiting THEN 1 ELSE 2
RestOK ==
    /\ pageApp \in [PageApps -> GsApp] /\ {changes, loads} \subseteq 0..MaxChanges
    /\ {notifies, pending} \subseteq SUBSET PageApps /\ {pendingChanged, pageWaiting} \subseteq BOOLEAN
    /\ listJob \in [stage : {"none", "run", "done"}, list : SUBSET PageApps]
    /\ pageWaiting <=> listJob.stage # "none"
    /\ refineJobs \subseteq SUBSET PageApps /\ counter \in 0..Cardinality(PageApps)

LEMMA InstalledIInvIs == InstalledIInv <=> RestOK /\ AllFit(rows, handlers, Limit)
<1>1. ASSUME RestOK, AllFit(rows, handlers, Limit) PROVE InstalledIInv
  <2>1. Limit \in {1, 2} /\ rows \in [PageApps -> Seq(Row)] /\ handlers \in [PageApps -> 0..2]
    BY <1>1 DEF Limit, AllFit
  <2>2. ASSUME NEW a \in PageApps
        PROVE  /\ Fits(rows[a], handlers[a], Limit) /\ rows[a] \in Seq(Row) /\ Len(rows[a]) <= Limit
               /\ DOMAIN rows[a] = 1..Len(rows[a]) /\ Len(rows[a]) <= 2
    BY <1>1, <2>1, FitsCounts, LenProperties DEF AllFit
  <2>3. rows \in [PageApps -> RowList]
    BY <2>1, <2>2, RowListsAreShort
  <2>4. InstalledTypeOK
    BY <1>1, <2>1, <2>3 DEF RestOK, InstalledTypeOK, RowList
  <2>5. RowsAreCounted
    BY <2>2 DEF RowsAreCounted, Fits, Limit
  <2> QED
    BY <2>4, <2>5 DEF InstalledIInv
<1>2. ASSUME InstalledIInv PROVE RestOK /\ AllFit(rows, handlers, Limit)
  <2>1. Limit \in 0..2 /\ handlers \in [PageApps -> 0..2] /\ rows \in [PageApps -> RowList]
    BY <1>2 DEF Limit, InstalledIInv, InstalledTypeOK, RowList
  <2>2. ASSUME NEW a \in PageApps PROVE rows[a] \in Seq(Row) /\ DOMAIN rows[a] = 1..Len(rows[a])
    BY <2>1, RowListsAreShort, LenProperties
  <2>3. rows \in [PageApps -> Seq(Row)]
    BY <2>1, <2>2
  <2>4. ASSUME NEW a \in PageApps PROVE Fits(rows[a], handlers[a], Limit)
    BY <1>2, <2>1, <2>2 DEF InstalledIInv, RowsAreCounted, Fits, Limit
  <2>5. AllFit(rows, handlers, Limit)
    BY <2>1, <2>3, <2>4 DEF AllFit
  <2>6. RestOK
    BY <1>2 DEF InstalledIInv, InstalledTypeOK, RestOK
  <2> QED
    BY <2>5, <2>6
<1> QED
  BY <1>1, <1>2

LEMMA SetStateIsAnApp ==
    ASSUME NEW app \in GsApp, NEW s \in States
    PROVE  SetState(app, s) \in GsApp
BY DEF GsApp, SetState, Remember, Actions

(* A row that is added.                                                      *)
RowOf(app) == [section |-> SectionOf(app), leaving |-> FALSE]
LEMMA AddedRow ==
    ASSUME NEW a \in PageApps, NEW app, rows \in [PageApps -> Seq(Row)]
    PROVE  /\ AddRow(Page, a, app).rows[a] = Append(rows[a], RowOf(app))
           /\ RowOf(app) \in Row /\ RowOf(app).leaving = FALSE
<1>1. AddRow(Page, a, app).rows = [rows EXCEPT ![a] = Append(rows[a], RowOf(app))]
  BY DEF AddRow, Page, RowOf
<1>2. RowOf(app) \in Row /\ RowOf(app).leaving = FALSE
  BY DEF RowOf, Row, SectionOf
<1> QED
  BY <1>1, <1>2

(* The apps of the queue get a row where they have none.                     *)
LEMMA AddPendingKeeps ==
    ASSUME RestOK, AllFit(rows, handlers, Limit), NEW list \in SUBSET PageApps, AddPendingApps(list),
           pageWaiting' = pageWaiting
    PROVE  /\ AllFit(rows', handlers', Limit') /\ pageApp' \in [PageApps -> GsApp]
           /\ notifies' \subseteq PageApps /\ counter' \in 0..Cardinality(PageApps)
<1> DEFINE waits == {a \in list : ~Installed(pageApp[a])}
           app(a) == IF pageApp[a].state = "available" THEN SetState(pageApp[a], "queued") ELSE pageApp[a]
           new == {a \in waits : rows[a] = <<>>}
<1>1. /\ pageApp' = [a \in PageApps |-> IF a \in waits THEN app(a) ELSE pageApp[a]]
      /\ notifies' = notifies \union {a \in waits : pageApp[a].state = "available"}
      /\ counter' = Cardinality(waits)
      /\ rows' = [a \in PageApps |-> IF a \in new THEN AddRow(Page, a, app(a)).rows[a] ELSE rows[a]]
      /\ handlers' = [a \in PageApps |-> IF a \in new THEN handlers[a] + 1 ELSE handlers[a]]
  BY DEF AddPendingApps
<1>2. waits \subseteq PageApps /\ new \subseteq PageApps /\ \A a \in new : rows[a] = <<>>
  OBVIOUS
<1>3. counter' \in 0..Cardinality(PageApps)
  <2>1. IsFiniteSet(waits) /\ Cardinality(waits) <= Cardinality(PageApps)
    BY <1>2, PageAssumption, FS_Subset
  <2>2. Cardinality(waits) \in Nat /\ Cardinality(PageApps) \in Nat
    BY <2>1, PageAssumption, FS_CardinalityType
  <2> HIDE DEF waits
  <2> QED
    BY <1>1, <2>1, <2>2
<1>4. notifies' \subseteq PageApps
  BY <1>1, <1>2 DEF RestOK
<1>5. pageApp' \in [PageApps -> GsApp]
  <2>1. ASSUME NEW a \in PageApps PROVE pageApp[a] \in GsApp /\ app(a) \in GsApp
    BY SetStateIsAnApp DEF RestOK, States
  <2> HIDE DEF app, waits
  <2> QED
    BY <1>1, <2>1
<1> HIDE DEF app, waits, new
<1>6. /\ rows \in [PageApps -> Seq(Row)] /\ handlers \in [PageApps -> 0..2]
      /\ Limit' = Limit /\ Limit \in {1, 2} /\ \A a \in PageApps : Fits(rows[a], handlers[a], Limit)
  BY DEF AllFit, Limit
<1>7. ASSUME NEW a \in PageApps
      PROVE  rows'[a] \in Seq(Row) /\ handlers'[a] \in 0..2 /\ Fits(rows'[a], handlers'[a], Limit)
  <2>1. CASE a \in new
    <3> DEFINE r == RowOf(app(a))
    <3>1. rows'[a] = Append(<<>>, r) /\ handlers'[a] = handlers[a] + 1 /\ r \in Row /\ ~r.leaving
      BY <1>1, <1>2, <1>6, <2>1, AddedRow
    <3> HIDE DEF r
    <3>2. Append(<<>>, r) = <<r>>
      OBVIOUS
    <3>3. Fits(<<>>, handlers[a], 2)
      BY <1>2, <1>6, <2>1 DEF Fits
    <3>4. handlers[a] = 0 /\ Fits(<<r>>, 1, 1)
      BY <3>1, <3>3, FirstFits
    <3>5. rows'[a] = <<r>> /\ handlers'[a] = 1
      BY <3>1, <3>2, <3>4
    <3>6. Fits(<<r>>, 1, Limit)
      <4>1. <<r>> \in Seq(Row) /\ Len(<<r>>) = 1
        BY <3>1
      <4> QED
        BY <1>6, <3>4, <4>1 DEF Fits
    <3> QED
      BY <3>5, <3>6 DEF Fits
  <2>2. CASE a \notin new
    BY <1>1, <1>6, <2>2
  <2> QED
    BY <2>1, <2>2
<1>8. rows' \in [PageApps -> Seq(Row)] /\ handlers' \in [PageApps -> 0..2]
  BY <1>1, <1>7
<1>9. AllFit(rows', handlers', Limit')
  BY <1>6, <1>7, <1>8 DEF AllFit
<1> QED
  BY <1>3, <1>4, <1>5, <1>9

(* The operations of the page on the rows of one app.                        *)
LEMMA RowsStayFit ==
    ASSUME AllFit(rows, handlers, Limit), NEW a \in PageApps, pageWaiting' = pageWaiting,
           NotifyState(a) \/ RowUnrevealed(a) \/ AppRemoved(a)
    PROVE  AllFit(rows', handlers', Limit')
<1>1. /\ rows \in [PageApps -> Seq(Row)] /\ handlers \in [PageApps -> 0..2]
      /\ Limit' = Limit /\ Limit \in 0..2 /\ Fits(rows[a], handlers[a], Limit)
  BY DEF AllFit, Limit
<1>2. Page.rows = rows /\ Page.handlers = handlers /\ AllFit(Page.rows, Page.handlers, Limit)
  BY DEF Page
<1>3. AllFit(Unreveal(Page, a).rows, Unreveal(Page, a).handlers, Limit)
  BY <1>2, UnrevealKeepsFit
<1>4. CASE NotifyState(a)
  <2>1. CASE handlers[a] = 0
    BY <1>1, <1>4, <2>1 DEF NotifyState
  <2>2. CASE handlers[a] > 0
    <3>1. rows[a] # <<>>
      BY <1>1, <2>2, EmptySeq DEF Fits
    <3> DEFINE once == MoveRow(Page, a)
               twice == MoveRow(once, a)
    <3>2. AllFit(once.rows, once.handlers, Limit) /\ once.rows[a] # <<>>
      BY <1>2, <3>1, MoveKeepsFit
    <3> HIDE DEF once
    <3>3. AllFit(twice.rows, twice.handlers, Limit)
      BY <3>2, MoveKeepsFit
    <3>4. handlers[a] # 0 /\ handlers[a] \in {1, 2}
      BY <1>1, <2>2
    <3>5. \/ PageBecomes(Unreveal(Page, a)) \/ PageBecomes(once) \/ PageBecomes(twice)
      BY <1>4, <2>2, <3>4 DEF NotifyState, once
    <3> QED
      BY <1>1, <1>3, <3>2, <3>3, <3>5 DEF PageBecomes
  <2>3. handlers[a] = 0 \/ handlers[a] > 0
    BY <1>1
  <2> QED
    BY <2>1, <2>2, <2>3
<1>5. CASE RowUnrevealed(a)
  <2>1. PICK i \in DOMAIN rows[a] : rows[a][i].leaving /\ rows' = [rows EXCEPT ![a] = RemovedAt(@, i)]
    BY <1>5 DEF RowUnrevealed
  <2>2. i \in 1..Len(rows[a]) /\ handlers' = handlers /\ handlers = [handlers EXCEPT ![a] = handlers[a]]
    BY <1>1, <1>5, LenProperties DEF RowUnrevealed
  <2>3. Fits(RemovedAt(rows[a], i), handlers[a], Limit)
    BY <1>1, <2>1, <2>2, RemoveFits
  <2>4. AllFit([rows EXCEPT ![a] = RemovedAt(rows[a], i)], [handlers EXCEPT ![a] = handlers[a]], Limit)
    BY <2>3, OneChangeFits
  <2> QED
    BY <1>1, <2>1, <2>2, <2>4
<1>6. CASE AppRemoved(a)
  BY <1>1, <1>3, <1>6 DEF AppRemoved, PageBecomes
<1> QED
  BY <1>4, <1>5, <1>6

LEMMA NothingFits == Fits(<<>>, 0, 1) /\ Fits(<<>>, 0, 2) /\ <<>> \in Seq(Row)
<1>1. <<>> \in Seq(Row) /\ Len(<<>>) = 0
  OBVIOUS
<1> QED
  BY <1>1 DEF Fits

(* A load empties the page.                                                  *)
LEMMA LoadFits ==
    ASSUME AllFit(rows, handlers, Limit), LoadInstalled
    PROVE  AllFit(rows', handlers', Limit')
<1>1. /\ rows' = [a \in PageApps |-> <<>>] /\ Limit' = 1
      /\ handlers' = [a \in PageApps |-> IF rows[a] = <<>> THEN handlers[a] ELSE 0]
  BY DEF LoadInstalled, Limit
<1>2. ASSUME NEW a \in PageApps PROVE handlers'[a] = 0
  <2>1. Limit \in 0..2 /\ Fits(rows[a], handlers[a], Limit)
    BY DEF AllFit
  <2>2. CASE rows[a] = <<>>
    <3>1. handlers[a] \in 0..2 /\ handlers[a] <= Len(<<>>) /\ Len(<<>>) = 0
      BY <2>1, <2>2 DEF Fits
    <3> QED
      BY <1>1, <2>2, <3>1
  <2>3. CASE rows[a] # <<>>
    BY <1>1, <2>3
  <2> QED
    BY <2>2, <2>3
<1>3. \A a \in PageApps : rows'[a] = <<>>
  BY <1>1
<1>4. rows' \in [PageApps -> Seq(Row)] /\ handlers' \in [PageApps -> 0..2]
  <2>1. rows' \in [PageApps -> Seq(Row)]
    BY <1>1, NothingFits
  <2>2. DOMAIN handlers' = PageApps /\ handlers' = [a \in PageApps |-> handlers'[a]]
    BY <1>1
  <2> QED
    BY <1>2, <2>1, <2>2
<1> QED
  BY <1>1, <1>2, <1>3, <1>4, NothingFits DEF AllFit

(* The list adds a row to each that it has.                                  *)
LEMMA GetFits ==
    ASSUME RestOK, AllFit(rows, handlers, Limit), GetInstalled
    PROVE  AllFit(rows', handlers', Limit')
<1>1. /\ rows' = [a \in PageApps |-> IF a \in listJob.list THEN AddRow(Page, a, pageApp[a]).rows[a] ELSE rows[a]]
      /\ handlers' = [a \in PageApps |-> IF a \in listJob.list THEN handlers[a] + 1 ELSE handlers[a]]
      /\ Limit = 1 /\ Limit' = 2
  BY DEF GetInstalled, Limit, RestOK
<1>2. rows \in [PageApps -> Seq(Row)]
  BY DEF AllFit
<1>3. ASSUME NEW a \in PageApps PROVE Fits(rows'[a], handlers'[a], 2)
  <2>1. Fits(rows[a], handlers[a], 1)
    BY <1>1 DEF AllFit
  <2>2. CASE a \in listJob.list
    <3> DEFINE r == RowOf(pageApp[a])
    <3>1. rows'[a] = Append(rows[a], r) /\ handlers'[a] = handlers[a] + 1 /\ r \in Row /\ ~r.leaving
      BY <1>1, <1>2, <2>2, AddedRow
    <3> HIDE DEF r
    <3> QED
      BY <2>1, <3>1, AppendFits
  <2>3. CASE a \notin listJob.list
    <3>1. rows'[a] = rows[a] /\ handlers'[a] = handlers[a]
      BY <1>1, <2>3
    <3>2. Fits(rows[a], handlers[a], 2)
      <4>1. Len(rows[a]) \in Nat /\ Len(rows[a]) <= 1
        BY <2>1, FitsCounts
      <4>2. Len(rows[a]) <= 2
        BY <4>1
      <4> QED
        BY <2>1, <4>2 DEF Fits
    <3> QED
      BY <3>1, <3>2
  <2> QED
    BY <2>2, <2>3
<1>4. \A a \in PageApps : rows'[a] \in Seq(Row) /\ handlers'[a] \in 0..2
  BY <1>3 DEF Fits
<1>5. rows' \in [PageApps -> Seq(Row)] /\ handlers' \in [PageApps -> 0..2]
  <2>1. rows' = [a \in PageApps |-> rows'[a]] /\ handlers' = [a \in PageApps |-> handlers'[a]]
    BY <1>1
  <2> QED
    BY <1>4, <2>1
<1> QED
  BY <1>1, <1>3, <1>5 DEF AllFit

LEMMA InstalledInitInv == InstalledInit => InstalledIInv
<1> SUFFICES ASSUME InstalledInit PROVE RestOK /\ AllFit(rows, handlers, Limit)
  BY InstalledIInvIs
<1>1. NewApp \in GsApp
  BY DEF NewApp, GsApp, States, Actions
<1>2. SetState(NewApp, "available") \in GsApp /\ SetState(NewApp, "installed") \in GsApp
  BY <1>1, SetStateIsAnApp DEF States
<1>3. pageApp \in [PageApps -> GsApp]
  BY <1>2 DEF InstalledInit
<1>4. Cardinality(PageApps) \in Nat /\ MaxChanges \in Nat
  BY PageAssumption, FS_CardinalityType
<1>5. RestOK
  <2>1. listJob = [stage |-> "none", list |-> {}] /\ pageWaiting = FALSE
    BY DEF InstalledInit, NoList
  <2>2. /\ listJob \in [stage : {"none", "run", "done"}, list : SUBSET PageApps]
        /\ pageWaiting <=> listJob.stage # "none"
    BY <2>1
  <2>3. changes = 0 /\ loads = 0 /\ notifies = {} /\ pending = {} /\ pendingChanged = FALSE /\ refineJobs = {} /\ counter = 0
    BY DEF InstalledInit
  <2>4. {changes, loads} \subseteq 0..MaxChanges /\ counter \in 0..Cardinality(PageApps)
    BY <1>4, <2>3
  <2>5. {notifies, pending} \subseteq SUBSET PageApps /\ refineJobs \subseteq SUBSET PageApps
    BY <2>3
  <2>6. {pendingChanged, pageWaiting} \subseteq BOOLEAN
    BY <2>1, <2>3
  <2> QED
    BY <1>3, <2>2, <2>4, <2>5, <2>6 DEF RestOK
<1>6. AllFit(rows, handlers, Limit)
  BY NothingFits DEF InstalledInit, AllFit, Limit
<1> QED
  BY <1>5, <1>6

LEMMA InstalledNextInv == InstalledIInv /\ [InstalledNext]_installedVars => InstalledIInv'
<1> SUFFICES ASSUME RestOK, AllFit(rows, handlers, Limit), [InstalledNext]_installedVars
             PROVE  RestOK' /\ AllFit(rows', handlers', Limit')
  <2>1. InstalledIInv' <=> RestOK' /\ AllFit(rows, handlers, Limit)'
    BY InstalledIInvIs, PTL
  <2>2. AllFit(rows, handlers, Limit)' <=> AllFit(rows', handlers', Limit')
    BY DEF AllFit, Fits
  <2> QED
    BY InstalledIInvIs, <2>1, <2>2
<1> USE DEF queueVars, jobVars
<1>1. CASE LoadInstalled
  <2>1. /\ loads' = loads + 1 /\ loads < MaxChanges /\ pageWaiting' = TRUE
        /\ listJob' = [stage |-> "run", list |-> {}]
        /\ UNCHANGED <<pageApp, changes, notifies, pending, pendingChanged, refineJobs, counter>>
    BY <1>1 DEF LoadInstalled
  <2>2. loads' \in 0..MaxChanges
    BY <2>1, PageAssumption DEF RestOK
  <2>3. listJob' \in [stage : {"none", "run", "done"}, list : SUBSET PageApps] /\ listJob'.stage # "none"
    BY <2>1
  <2>4. RestOK'
    BY <2>1, <2>2, <2>3 DEF RestOK
  <2> QED
    BY <1>1, <2>4, LoadFits
<1>2. CASE ListInstalled
  <2>1. /\ UNCHANGED <<pageApp, changes, loads, notifies, pending, pendingChanged, rows, handlers, pageWaiting, refineJobs, counter>>
        /\ listJob.stage = "run"
    BY <1>2 DEF ListInstalled
  <2>2. \E list \in SUBSET PageApps : listJob' = [stage |-> "done", list |-> list]
    BY <1>2 DEF ListInstalled
  <2>3. listJob' \in [stage : {"none", "run", "done"}, list : SUBSET PageApps] /\ listJob'.stage # "none"
    BY <2>2
  <2>4. RestOK'
    BY <2>1, <2>3 DEF RestOK
  <2> QED
    BY <2>1, <2>4 DEF Limit
<1>3. CASE GetInstalled
  <2>1. /\ pageWaiting' = FALSE /\ listJob' = NoList
        /\ UNCHANGED <<pageApp, changes, loads, notifies, pending, pendingChanged, counter>>
        /\ refineJobs' = IF pending # {} THEN refineJobs \union {pending} ELSE refineJobs
    BY <1>3 DEF GetInstalled
  <2>2. listJob' \in [stage : {"none", "run", "done"}, list : SUBSET PageApps] /\ listJob'.stage = "none"
    BY <2>1 DEF NoList
  <2>3. refineJobs' \subseteq SUBSET PageApps
    BY <2>1 DEF RestOK
  <2>4. RestOK'
    BY <2>1, <2>2, <2>3 DEF RestOK
  <2> QED
    BY <1>3, <2>4, GetFits
<1>4. CASE PendingAppsRefined
  <2>1. PICK list \in refineJobs :
            /\ refineJobs' = refineJobs \ {list}
            /\ AddPendingApps(list) \/ UNCHANGED <<pageApp, notifies, counter, rows, handlers>>
    BY <1>4 DEF PendingAppsRefined
  <2>2. UNCHANGED <<changes, loads, pending, pendingChanged, pageWaiting, listJob>>
    BY <1>4 DEF PendingAppsRefined
  <2>3. list \in SUBSET PageApps /\ refineJobs' \subseteq SUBSET PageApps
    BY <2>1 DEF RestOK
  <2>4. /\ AllFit(rows', handlers', Limit') /\ pageApp' \in [PageApps -> GsApp]
        /\ notifies' \subseteq PageApps /\ counter' \in 0..Cardinality(PageApps)
    <3>1. CASE AddPendingApps(list)
      BY <2>2, <2>3, <3>1, AddPendingKeeps
    <3>2. CASE UNCHANGED <<pageApp, notifies, counter, rows, handlers>>
      BY <2>2, <3>2 DEF RestOK, Limit
    <3> QED
      BY <2>1, <3>1, <3>2
  <2>5. RestOK'
    BY <2>2, <2>3, <2>4 DEF RestOK
  <2> QED
    BY <2>4, <2>5
<1>5. CASE AddChangedApps
  <2>1. pendingChanged' = FALSE /\ AddPendingApps(pending) /\ UNCHANGED <<changes, loads, pending, pageWaiting, listJob, refineJobs>>
    BY <1>5 DEF AddChangedApps
  <2>2. pending \in SUBSET PageApps
    BY DEF RestOK
  <2>3. /\ AllFit(rows', handlers', Limit') /\ pageApp' \in [PageApps -> GsApp]
        /\ notifies' \subseteq PageApps /\ counter' \in 0..Cardinality(PageApps)
    BY <2>1, <2>2, AddPendingKeeps
  <2>4. RestOK'
    BY <2>1, <2>3 DEF RestOK
  <2> QED
    BY <2>3, <2>4
<1>6. ASSUME NEW a \in PageApps, AppChanges(a) PROVE RestOK' /\ AllFit(rows', handlers', Limit')
  <2>1. PICK s \in NextStates(pageApp[a]) :
            /\ pageApp' = [pageApp EXCEPT ![a] = SetState(@, s)] /\ notifies' = notifies \union {a}
            /\ pending' = IF s = "queued" THEN pending \union {a} ELSE IF s = "installing" THEN pending \ {a} ELSE pending
            /\ pendingChanged' = (pendingChanged \/ pending' # pending)
    BY <1>6 DEF AppChanges
  <2>2. /\ changes < MaxChanges /\ changes' = changes + 1
        /\ UNCHANGED <<loads, rows, handlers, pageWaiting, listJob, refineJobs, counter>>
    BY <1>6 DEF AppChanges
  <2>3. s \in States
    BY DEF NextStates, States
  <2>4. pageApp' \in [PageApps -> GsApp]
    BY <2>1, <2>3, SetStateIsAnApp DEF RestOK
  <2>5. changes' \in 0..MaxChanges
    BY <2>2, PageAssumption DEF RestOK
  <2>6. notifies' \subseteq PageApps /\ pending' \subseteq PageApps
    BY <2>1 DEF RestOK
  <2>7. pendingChanged' \in BOOLEAN
    BY <2>1, Zenon
  <2>8. RestOK'
    BY <2>2, <2>4, <2>5, <2>6, <2>7 DEF RestOK
  <2> QED
    BY <2>2, <2>8 DEF Limit
<1>7. ASSUME NEW a \in PageApps, NotifyState(a) \/ RowUnrevealed(a) \/ AppRemoved(a)
      PROVE  RestOK' /\ AllFit(rows', handlers', Limit')
  <2>1. /\ notifies' \subseteq PageApps
        /\ UNCHANGED <<pageApp, changes, loads, pending, pendingChanged, pageWaiting, listJob, refineJobs, counter>>
    BY <1>7 DEF NotifyState, RowUnrevealed, AppRemoved, RestOK
  <2>2. RestOK'
    BY <2>1 DEF RestOK
  <2> QED
    BY <1>7, <2>1, <2>2, RowsStayFit
<1>8. CASE UNCHANGED installedVars
  BY <1>8 DEF installedVars, RestOK, Limit
<1> QED
  BY <1>1, <1>2, <1>3, <1>4, <1>5, <1>6, <1>7, <1>8 DEF InstalledNext

(* Every connection to an app that has one is of a row the page shows, and   *)
(* the connections are as many as the assertion of the notification expects. *)
THEOREM InstalledAgrees == InstalledSpec => []InstalledInv
<1>1. InstalledIInv => InstalledInv
  <2> SUFFICES ASSUME InstalledIInv, NEW a \in PageApps, handlers[a] > 0 PROVE rows[a] # <<>>
    BY DEF InstalledIInv, InstalledInv, HandlerHasRow
  <2>1. Fits(rows[a], handlers[a], Limit)
    BY InstalledIInvIs DEF AllFit
  <2> QED
    BY <2>1, EmptySeq DEF Fits
<1> QED
  BY <1>1, InstalledInitInv, InstalledNextInv, PTL DEF InstalledSpec
=============================================================================
