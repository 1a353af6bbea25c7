--------------------------- MODULE Flatpak_proofs ---------------------------
(***************************************************************************)
(* Proofs about the Flatpak plugin, for any number of threads, apps, jobs  *)
(* and changes: readers of the silo, and of the installed refs, see what   *)
(* was claimed, and the installs, removals, updates and downloads leave no *)
(* app busy and show of every app what its ref is.                         *)
(*                                                                         *)
(* The writer's lock is what makes the first true: the silo is invalidated *)
(* only when nobody builds, so whoever builds has listed the installation  *)
(* after the last claim.  The second rests on the last stable states of    *)
(* the apps, which errors go back to, and on the lists of the jobs being   *)
(* apart.                                                                  *)
(***************************************************************************)
EXTENDS FlatpakJobs, FlatpakSilo, FiniteSetTheorems, Integers, TLAPS

-----------------------------------------------------------------------------
(* The inductive invariant: types, the count of transactions, and then what  *)
(* the locks exclude and which version each of the caches has at least.      *)
StateTypes ==
    /\ content \in Versions0 /\ claiming \in Versions0 /\ claimed \in Versions0
    /\ signals \in Versions0 /\ signals <= content /\ idleClaims \in Nat
    /\ silo \in Built \union {NoSilo} /\ installedRefs \in Versions0 \union {NoSilo}
    /\ siloReaders \subseteq SiloThreads /\ siloWriter \in SiloThreads \union {NoSilo}
    /\ (siloWriter # NoSilo => siloReaders = {})
    /\ changedWhileBusy \in BOOLEAN /\ requiresFullRescan \in BOOLEAN
    /\ siloMain \in {"idle", "flag", "claim", "invalidate"}
CallTypes == siloThread \in [SiloThreads -> SiloCall]

Transacting == {t \in SiloThreads : In(t, "transaction")}
BusyCount == busy = Cardinality(Transacting)

LocksAreHeld == \A t \in SiloThreads : (In(t, "reading") <=> t \in siloReaders) /\ (In(t, "build") <=> siloWriter = t)
ClaimsFollow == claimed <= claiming /\ claiming <= content
BuildsAreCurrent ==
    \A t \in SiloThreads :
        /\ siloThread[t].since <= claimed
        /\ In(t, "build") => claimed <= siloThread[t].version /\ siloThread[t].version <= content
SiloIsCurrent ==
    silo # NoSilo =>
        /\ silo.valid => silo.version >= claimed
        /\ \A t \in SiloThreads : In(t, "lock") \/ In(t, "reading") => silo.version >= siloThread[t].since
ReadersHaveIt == \A t \in SiloThreads : In(t, "reading") => silo # NoSilo
RefsAreCurrent ==
    installedRefs # NoSilo => installedRefs >= claimed /\ (siloMain = "invalidate" => installedRefs >= claiming)
Remembered ==
    /\ ChangeIsRemembered
    /\ siloMain = "invalidate" /\ claiming < content => signals > 0 \/ idleClaims > 0 \/ changedWhileBusy

Current == ClaimsFollow /\ BuildsAreCurrent /\ SiloIsCurrent /\ ReadersHaveIt /\ RefsAreCurrent /\ Remembered
SiloIInv == StateTypes /\ CallTypes /\ BusyCount /\ LocksAreHeld /\ Current

(* What the constants are.                                                   *)
LEMMA SiloConstants == MaxContent \in Nat /\ NoSilo \notin Nat /\ NoSilo \notin SiloThreads
                       /\ IsFiniteSet(SiloThreads) /\ SiloThreads # {}
BY SiloAssumption

LEMMA ZeroIsVersion == 0 \in Versions0
BY SiloConstants DEF Versions0

(* A call that goes on to another stage.                                     *)
LEMMA GoesOn ==
    ASSUME CallTypes, NEW t \in SiloThreads, NEW stage, Goes(t, stage),
           stage \in {"idle", "ensure", "drop", "invalidate", "check", "write", "build", "failed",
                      "fail", "lock", "reading", "refs", "transaction", "unflag"}
    PROVE  CallTypes'
BY DEF CallTypes, Goes, SiloCall

LEMMA OneCall ==
    ASSUME CallTypes, NEW t \in SiloThreads, NEW c \in SiloCall, siloThread' = [siloThread EXCEPT ![t] = c]
    PROVE  CallTypes'
BY DEF CallTypes

(* The store that was rescanned is read, or the refresh has ended.           *)
LEMMA RescannedGoesOn ==
    ASSUME NEW t \in SiloThreads, Rescanned(t), requiresFullRescan \in BOOLEAN
    PROVE  (Goes(t, "idle") \/ Goes(t, "lock")) /\ requiresFullRescan' \in BOOLEAN
BY DEF Rescanned

(* What the threads share keeps its types.                                   *)
LEMMA TypesStay ==
    ASSUME SiloIInv, NEW t \in SiloThreads
    PROVE  (ContentChanges \/ SiloMainStep \/ StartCall(t) \/ SiloStep(t)) => StateTypes'
<1> USE DEF SiloIInv, StateTypes, In, Goes, mayWrite, Invalidated, lockVars, busyVars, historyVars,
            worldVars, Versions0, Built, Change
<1>1. ContentChanges => StateTypes'
  BY SiloConstants DEF ContentChanges
<1>2. ChangedCb => StateTypes'
  BY SiloConstants DEF ChangedCb
<1>3. ChangedWhileBusy => StateTypes'
  BY SiloConstants DEF ChangedWhileBusy
<1>4. ClaimSource => StateTypes'
  BY SiloConstants DEF ClaimSource
<1>5. ClaimDrops => StateTypes'
  BY SiloConstants DEF ClaimDrops
<1>6. ClaimInvalidates => StateTypes'
  BY SiloConstants DEF ClaimInvalidates
<1>7. StartCall(t) => StateTypes'
  BY SiloConstants DEF StartCall, NoCall
<1>8. TransactionEnds(t) => StateTypes'
  BY SiloConstants DEF TransactionEnds
<1>9. ASSUME Unflag(t) PROVE StateTypes'
  <2>1. idleClaims' \in Nat
    BY <1>9 DEF Unflag
  <2> QED
    BY <1>9, <2>1 DEF Unflag
<1>10. UseRefs(t) => StateTypes'
  BY SiloConstants DEF UseRefs
<1>11. RescanAppData(t) => StateTypes'
  BY SiloConstants DEF RescanAppData
<1>12. RefreshDrops(t) => StateTypes'
  BY SiloConstants DEF RefreshDrops
<1>13. RefreshInvalidates(t) => StateTypes'
  BY SiloConstants DEF RefreshInvalidates
<1>14. ASSUME RescanStore(t) PROVE StateTypes'
  BY <1>14, RescannedGoesOn DEF RescanStore
<1>15. BuildBegins(t) => StateTypes'
  BY SiloConstants DEF BuildBegins
<1>16. ASSUME BuildEnds(t) PROVE StateTypes'
  <2>1. siloThread[t].version \in Versions0
    BY DEF CallTypes, SiloCall
  <2>2. [version |-> siloThread[t].version, valid |-> TRUE] \in Built
    BY <2>1 DEF Built
  <2> HIDE DEF Built
  <2>3. silo' \in Built \union {NoSilo} /\ requiresFullRescan' \in BOOLEAN
    BY <1>16, <2>2, RescannedGoesOn DEF BuildEnds
  <2> QED
    BY <1>16, <2>3 DEF BuildEnds
<1>17. FailDrops(t) => StateTypes'
  BY SiloConstants DEF FailDrops
<1>18. FailInvalidates(t) => StateTypes'
  BY SiloConstants DEF FailInvalidates
<1>19. LockSilo(t) => StateTypes'
  BY SiloConstants DEF LockSilo
<1>20. UnlockSilo(t) => StateTypes'
  BY SiloConstants DEF UnlockSilo
<1> QED
  BY <1>1, <1>2, <1>3, <1>4, <1>5, <1>6, <1>7, <1>8, <1>9, <1>10,
     <1>11, <1>12, <1>13, <1>14, <1>15, <1>16, <1>17, <1>18, <1>19, <1>20
  DEF SiloMainStep, SiloStep

(* So do their calls.                                                        *)
LEMMA CallsStay ==
    ASSUME SiloIInv, NEW t \in SiloThreads
    PROVE  (ContentChanges \/ SiloMainStep \/ StartCall(t) \/ SiloStep(t)) => CallTypes'
<1> USE DEF SiloIInv
<1>1. ContentChanges => CallTypes'
  BY DEF CallTypes, ContentChanges
<1>2. ChangedCb => CallTypes'
  BY DEF CallTypes, ChangedCb
<1>3. ChangedWhileBusy => CallTypes'
  BY DEF CallTypes, ChangedWhileBusy
<1>4. ClaimSource => CallTypes'
  BY DEF CallTypes, ClaimSource
<1>5. ClaimDrops => CallTypes'
  BY DEF CallTypes, ClaimDrops
<1>6. ClaimInvalidates => CallTypes'
  BY DEF CallTypes, ClaimInvalidates
<1>7. ASSUME StartCall(t) PROVE CallTypes'
  <2>1. PICK how \in {"ensure", "refs", "drop", "transaction"} :
             siloThread' = [siloThread EXCEPT ![t] =
                 [NoCall EXCEPT !.stage = how, !.for = IF how = "ensure" THEN "ensure" ELSE "refresh", !.since = claimed]]
    BY <1>7 DEF StartCall
  <2>2. [NoCall EXCEPT !.stage = how, !.for = IF how = "ensure" THEN "ensure" ELSE "refresh", !.since = claimed] \in SiloCall
    BY ZeroIsVersion DEF NoCall, SiloCall, StateTypes
  <2> QED
    BY <2>1, <2>2, OneCall
<1>8. TransactionEnds(t) => CallTypes'
  BY GoesOn DEF TransactionEnds
<1>9. Unflag(t) => CallTypes'
  BY GoesOn DEF Unflag
<1>10. ASSUME UseRefs(t) PROVE CallTypes'
  <2>1. [siloThread[t] EXCEPT !.stage = "idle", !.since = 0] \in SiloCall
    BY ZeroIsVersion DEF CallTypes, SiloCall
  <2>2. siloThread' = [siloThread EXCEPT ![t] = [siloThread[t] EXCEPT !.stage = "idle", !.since = 0]]
    BY <1>10 DEF UseRefs, CallTypes
  <2> QED
    BY <2>1, <2>2, OneCall
<1>11. ASSUME RescanAppData(t) PROVE CallTypes'
  <2> DEFINE c == [siloThread[t] EXCEPT !.stage = IF requiresFullRescan THEN "drop" ELSE "check",
                                        !.for = IF requiresFullRescan THEN "full" ELSE "ensure"]
  <2>1. c \in SiloCall
    BY DEF CallTypes, SiloCall
  <2>2. siloThread' = [siloThread EXCEPT ![t] = c]
    BY <1>11 DEF RescanAppData, CallTypes
  <2> QED
    BY <2>1, <2>2, OneCall
<1>12. RefreshDrops(t) => CallTypes'
  BY GoesOn DEF RefreshDrops
<1>13. RefreshInvalidates(t) => CallTypes'
  BY GoesOn DEF RefreshInvalidates
<1>14. ASSUME RescanStore(t) PROVE CallTypes'
  BY <1>14, RescannedGoesOn, GoesOn DEF RescanStore, StateTypes
<1>15. ASSUME BuildBegins(t) PROVE CallTypes'
  <2>1. [siloThread[t] EXCEPT !.stage = "build", !.version = content] \in SiloCall
    BY DEF CallTypes, SiloCall, StateTypes
  <2>2. siloThread' = [siloThread EXCEPT ![t] = [siloThread[t] EXCEPT !.stage = "build", !.version = content]]
    BY <1>15 DEF BuildBegins, CallTypes
  <2> QED
    BY <2>1, <2>2, OneCall
<1>16. ASSUME BuildEnds(t) PROVE CallTypes'
  BY <1>16, RescannedGoesOn, GoesOn DEF BuildEnds, StateTypes
<1>17. FailDrops(t) => CallTypes'
  BY GoesOn DEF FailDrops
<1>18. FailInvalidates(t) => CallTypes'
  BY GoesOn DEF FailInvalidates
<1>19. ASSUME LockSilo(t) PROVE CallTypes'
  <2>1. [siloThread[t] EXCEPT !.stage = "check", !.for = "ensure"] \in SiloCall
    BY DEF CallTypes, SiloCall
  <2>2. siloThread' = [siloThread EXCEPT ![t] = [siloThread[t] EXCEPT !.stage = "check", !.for = "ensure"]] \/ Goes(t, "reading")
    BY <1>19 DEF LockSilo, CallTypes
  <2> QED
    BY <2>1, <2>2, OneCall, GoesOn
<1>20. UnlockSilo(t) => CallTypes'
  BY GoesOn DEF UnlockSilo
<1> QED
  BY <1>1, <1>2, <1>3, <1>4, <1>5, <1>6, <1>7, <1>8, <1>9, <1>10,
     <1>11, <1>12, <1>13, <1>14, <1>15, <1>16, <1>17, <1>18, <1>19, <1>20
  DEF SiloMainStep, SiloStep

LEMMA TransactingFinite == IsFiniteSet(Transacting)
BY SiloConstants, FS_Subset DEF Transacting

(* busy counts the transactions.                                             *)
LEMMA BusyStays ==
    ASSUME SiloIInv, NEW t \in SiloThreads
    PROVE  (ContentChanges \/ SiloMainStep \/ StartCall(t) \/ SiloStep(t)) => BusyCount'
<1> USE DEF SiloIInv, CallTypes, SiloCall, In, Goes, worldVars, busyVars, StateTypes
<1>1. ASSUME ContentChanges PROVE BusyCount'
  <2>1. Transacting' = Transacting /\ busy' = busy
    BY <1>1 DEF ContentChanges, Transacting
  <2> QED
    BY <2>1 DEF BusyCount
<1>2. ASSUME ChangedCb PROVE BusyCount'
  <2>1. Transacting' = Transacting /\ busy' = busy
    BY <1>2 DEF ChangedCb, Transacting
  <2> QED
    BY <2>1 DEF BusyCount
<1>3. ASSUME ChangedWhileBusy PROVE BusyCount'
  <2>1. Transacting' = Transacting /\ busy' = busy
    BY <1>3 DEF ChangedWhileBusy, Transacting
  <2> QED
    BY <2>1 DEF BusyCount
<1>4. ASSUME ClaimSource PROVE BusyCount'
  <2>1. Transacting' = Transacting /\ busy' = busy
    BY <1>4 DEF ClaimSource, Transacting
  <2> QED
    BY <2>1 DEF BusyCount
<1>5. ASSUME ClaimDrops PROVE BusyCount'
  <2>1. Transacting' = Transacting /\ busy' = busy
    BY <1>5 DEF ClaimDrops, Transacting
  <2> QED
    BY <2>1 DEF BusyCount
<1>6. ASSUME ClaimInvalidates PROVE BusyCount'
  <2>1. Transacting' = Transacting /\ busy' = busy
    BY <1>6 DEF ClaimInvalidates, Transacting
  <2> QED
    BY <2>1 DEF BusyCount
<1>7. ASSUME StartCall(t) PROVE BusyCount'
  <2>1. CASE In(t, "idle") /\ siloThread'[t].stage = "transaction"
    <3>1. Transacting' = Transacting \union {t} /\ t \notin Transacting /\ busy' = busy + 1
      BY <1>7, <2>1 DEF StartCall, Transacting, NoCall
    <3> QED
      BY <3>1, TransactingFinite, FS_AddElement DEF BusyCount
  <2>2. CASE siloThread'[t].stage # "transaction"
    <3>1. Transacting' = Transacting /\ busy' = busy
      BY <1>7, <2>2 DEF StartCall, Transacting, NoCall
    <3> QED
      BY <3>1 DEF BusyCount
  <2> QED
    BY <1>7, <2>1, <2>2 DEF StartCall
<1>8. ASSUME TransactionEnds(t) PROVE BusyCount'
  <2>1. Transacting' = Transacting \ {t} /\ t \in Transacting /\ busy' = busy - 1
    BY <1>8 DEF TransactionEnds, Transacting
  <2> QED
    BY <2>1, TransactingFinite, FS_RemoveElement, FS_CardinalityType DEF BusyCount
<1>9. ASSUME Unflag(t) PROVE BusyCount'
  <2>1. Transacting' = Transacting /\ busy' = busy
    BY <1>9 DEF Unflag, Transacting
  <2> QED
    BY <2>1 DEF BusyCount
<1>10. ASSUME UseRefs(t) PROVE BusyCount'
  <2>1. Transacting' = Transacting /\ busy' = busy
    BY <1>10 DEF UseRefs, Transacting
  <2> QED
    BY <2>1 DEF BusyCount
<1>11. ASSUME RescanAppData(t) PROVE BusyCount'
  <2>1. Transacting' = Transacting /\ busy' = busy
    BY <1>11 DEF RescanAppData, Transacting
  <2> QED
    BY <2>1 DEF BusyCount
<1>12. ASSUME RefreshDrops(t) PROVE BusyCount'
  <2>1. Transacting' = Transacting /\ busy' = busy
    BY <1>12 DEF RefreshDrops, Transacting
  <2> QED
    BY <2>1 DEF BusyCount
<1>13. ASSUME RefreshInvalidates(t) PROVE BusyCount'
  <2>1. Transacting' = Transacting /\ busy' = busy
    BY <1>13 DEF RefreshInvalidates, Transacting
  <2> QED
    BY <2>1 DEF BusyCount
<1>14. ASSUME RescanStore(t) PROVE BusyCount'
  <2>1. Transacting' = Transacting /\ busy' = busy
    BY <1>14, RescannedGoesOn DEF RescanStore, Transacting
  <2> QED
    BY <2>1 DEF BusyCount
<1>15. ASSUME BuildBegins(t) PROVE BusyCount'
  <2>1. Transacting' = Transacting /\ busy' = busy
    BY <1>15 DEF BuildBegins, Transacting
  <2> QED
    BY <2>1 DEF BusyCount
<1>16. ASSUME BuildEnds(t) PROVE BusyCount'
  <2>1. Transacting' = Transacting /\ busy' = busy
    BY <1>16, RescannedGoesOn DEF BuildEnds, Transacting
  <2> QED
    BY <2>1 DEF BusyCount
<1>17. ASSUME FailDrops(t) PROVE BusyCount'
  <2>1. Transacting' = Transacting /\ busy' = busy
    BY <1>17 DEF FailDrops, Transacting
  <2> QED
    BY <2>1 DEF BusyCount
<1>18. ASSUME FailInvalidates(t) PROVE BusyCount'
  <2>1. Transacting' = Transacting /\ busy' = busy
    BY <1>18 DEF FailInvalidates, Transacting
  <2> QED
    BY <2>1 DEF BusyCount
<1>19. ASSUME LockSilo(t) PROVE BusyCount'
  <2>1. Transacting' = Transacting /\ busy' = busy
    BY <1>19 DEF LockSilo, Transacting
  <2> QED
    BY <2>1 DEF BusyCount
<1>20. ASSUME UnlockSilo(t) PROVE BusyCount'
  <2>1. Transacting' = Transacting /\ busy' = busy
    BY <1>20 DEF UnlockSilo, Transacting
  <2> QED
    BY <2>1 DEF BusyCount
<1> QED
  BY <1>1, <1>2, <1>3, <1>4, <1>5, <1>6, <1>7, <1>8, <1>9, <1>10,
     <1>11, <1>12, <1>13, <1>14, <1>15, <1>16, <1>17, <1>18, <1>19, <1>20
  DEF SiloMainStep, SiloStep

-----------------------------------------------------------------------------
(* What the locks exclude, and what they keep current.                       *)
(* Each reader and the writer hold the lock.                                 *)
LEMMA LocksStay ==
    ASSUME SiloIInv, NEW t \in SiloThreads
    PROVE  (ContentChanges \/ SiloMainStep \/ StartCall(t) \/ SiloStep(t)) => LocksAreHeld'
<1> USE DEF SiloIInv, StateTypes, CallTypes, SiloCall, LocksAreHeld, In, Goes, mayWrite, Invalidated,
            lockVars, busyVars, historyVars, worldVars, Versions0, Built, Change
<1>1. ContentChanges => LocksAreHeld'
  BY SiloConstants DEF ContentChanges
<1>2. ChangedCb => LocksAreHeld'
  BY SiloConstants DEF ChangedCb
<1>3. ChangedWhileBusy => LocksAreHeld'
  BY SiloConstants DEF ChangedWhileBusy
<1>4. ClaimSource => LocksAreHeld'
  BY SiloConstants DEF ClaimSource
<1>5. ClaimDrops => LocksAreHeld'
  BY SiloConstants DEF ClaimDrops
<1>6. ClaimInvalidates => LocksAreHeld'
  BY SiloConstants DEF ClaimInvalidates
<1>7. StartCall(t) => LocksAreHeld'
  BY SiloConstants DEF StartCall, NoCall
<1>8. TransactionEnds(t) => LocksAreHeld'
  BY SiloConstants DEF TransactionEnds
<1>9. Unflag(t) => LocksAreHeld'
  BY SiloConstants DEF Unflag
<1>10. UseRefs(t) => LocksAreHeld'
  BY SiloConstants DEF UseRefs
<1>11. RescanAppData(t) => LocksAreHeld'
  BY SiloConstants DEF RescanAppData
<1>12. RefreshDrops(t) => LocksAreHeld'
  BY SiloConstants DEF RefreshDrops
<1>13. RefreshInvalidates(t) => LocksAreHeld'
  BY SiloConstants DEF RefreshInvalidates
<1>14. ASSUME RescanStore(t) PROVE LocksAreHeld'
  <2>1. CASE Goes(t, "idle")
    BY <1>14, <2>1, SiloConstants DEF RescanStore
  <2>2. CASE Goes(t, "lock")
    BY <1>14, <2>2, SiloConstants DEF RescanStore
  <2>3. CASE Goes(t, "write")
    BY <1>14, <2>3, SiloConstants DEF RescanStore
  <2> QED
    BY <1>14, <2>1, <2>2, <2>3, RescannedGoesOn DEF RescanStore
<1>15. BuildBegins(t) => LocksAreHeld'
  BY SiloConstants DEF BuildBegins
<1>16. ASSUME BuildEnds(t) PROVE LocksAreHeld'
  <2>1. CASE Goes(t, "idle")
    BY <1>16, <2>1, SiloConstants DEF BuildEnds
  <2>2. CASE Goes(t, "lock")
    BY <1>16, <2>2, SiloConstants DEF BuildEnds
  <2>3. CASE Goes(t, "failed")
    BY <1>16, <2>3, SiloConstants DEF BuildEnds
  <2> QED
    BY <1>16, <2>1, <2>2, <2>3, RescannedGoesOn DEF BuildEnds
<1>17. FailDrops(t) => LocksAreHeld'
  BY SiloConstants DEF FailDrops
<1>18. FailInvalidates(t) => LocksAreHeld'
  BY SiloConstants DEF FailInvalidates
<1>19. LockSilo(t) => LocksAreHeld'
  BY SiloConstants DEF LockSilo
<1>20. UnlockSilo(t) => LocksAreHeld'
  BY SiloConstants DEF UnlockSilo
<1> QED
  BY <1>1, <1>2, <1>3, <1>4, <1>5, <1>6, <1>7, <1>8, <1>9, <1>10,
     <1>11, <1>12, <1>13, <1>14, <1>15, <1>16, <1>17, <1>18, <1>19, <1>20
  DEF SiloMainStep, SiloStep

(* What is read is as current as the last claim, and no change is forgotten.   *)
LEMMA CurrentStays ==
    ASSUME SiloIInv, NEW t \in SiloThreads
    PROVE  (ContentChanges \/ SiloMainStep \/ StartCall(t) \/ SiloStep(t)) => Current'
<1> USE DEF SiloIInv, StateTypes, CallTypes, SiloCall, LocksAreHeld, In, Goes, mayWrite, Invalidated,
            lockVars, busyVars, historyVars, worldVars, Versions0, Built, Change, Current, ClaimsFollow,
            BuildsAreCurrent, SiloIsCurrent, ReadersHaveIt, RefsAreCurrent, Remembered,
            ChangeIsRemembered
<1>1. ContentChanges => Current'
  BY SiloConstants DEF ContentChanges
<1>2. ChangedCb => Current'
  BY SiloConstants DEF ChangedCb
<1>3. ChangedWhileBusy => Current'
  BY SiloConstants DEF ChangedWhileBusy
<1>4. ClaimSource => Current'
  BY SiloConstants DEF ClaimSource
<1>5. ClaimDrops => Current'
  BY SiloConstants DEF ClaimDrops
<1>6. ClaimInvalidates => Current'
  BY SiloConstants DEF ClaimInvalidates
<1>7. StartCall(t) => Current'
  BY SiloConstants DEF StartCall, NoCall
<1>8. TransactionEnds(t) => Current'
  BY SiloConstants DEF TransactionEnds
<1>9. Unflag(t) => Current'
  BY SiloConstants DEF Unflag
<1>10. UseRefs(t) => Current'
  BY SiloConstants DEF UseRefs
<1>11. RescanAppData(t) => Current'
  BY SiloConstants DEF RescanAppData
<1>12. RefreshDrops(t) => Current'
  BY SiloConstants DEF RefreshDrops
<1>13. RefreshInvalidates(t) => Current'
  BY SiloConstants DEF RefreshInvalidates
<1>14. ASSUME RescanStore(t) PROVE Current'
  <2>1. CASE Goes(t, "idle")
    BY <1>14, <2>1, SiloConstants DEF RescanStore
  <2>2. CASE Goes(t, "lock")
    BY <1>14, <2>2, SiloConstants DEF RescanStore
  <2>3. CASE Goes(t, "write")
    BY <1>14, <2>3, SiloConstants DEF RescanStore
  <2> QED
    BY <1>14, <2>1, <2>2, <2>3, RescannedGoesOn DEF RescanStore
<1>15. BuildBegins(t) => Current'
  BY SiloConstants DEF BuildBegins
<1>16. ASSUME BuildEnds(t) PROVE Current'
  <2>1. CASE Goes(t, "idle")
    BY <1>16, <2>1, SiloConstants DEF BuildEnds
  <2>2. CASE Goes(t, "lock")
    BY <1>16, <2>2, SiloConstants DEF BuildEnds
  <2>3. CASE Goes(t, "failed")
    BY <1>16, <2>3, SiloConstants DEF BuildEnds
  <2> QED
    BY <1>16, <2>1, <2>2, <2>3, RescannedGoesOn DEF BuildEnds
<1>17. FailDrops(t) => Current'
  BY SiloConstants DEF FailDrops
<1>18. FailInvalidates(t) => Current'
  BY SiloConstants DEF FailInvalidates
<1>19. LockSilo(t) => Current'
  BY SiloConstants DEF LockSilo
<1>20. UnlockSilo(t) => Current'
  BY SiloConstants DEF UnlockSilo
<1> QED
  BY <1>1, <1>2, <1>3, <1>4, <1>5, <1>6, <1>7, <1>8, <1>9, <1>10,
     <1>11, <1>12, <1>13, <1>14, <1>15, <1>16, <1>17, <1>18, <1>19, <1>20
  DEF SiloMainStep, SiloStep

(* For any number of threads and of changes of the installation: whoever     *)
(* reads the silo has one that nobody drops meanwhile and that knows what    *)
(* was claimed before the call, so do the listed refs, and no change is      *)
(* forgotten (SiloInv of the run parts).                                     *)
THEOREM SiloKnowsTheClaimed == SiloSpec => []SiloInv
<1>1. SiloInit => SiloIInv
  <2> SUFFICES ASSUME SiloInit PROVE SiloIInv
    OBVIOUS
  <2>0. signals <= content /\ idleClaims \in Nat
    BY DEF SiloInit
  <2>1. StateTypes
    BY <2>0, ZeroIsVersion DEF SiloInit, StateTypes
  <2>2. CallTypes
    BY ZeroIsVersion DEF SiloInit, CallTypes, SiloCall, NoCall
  <2>3. \A t \in SiloThreads : In(t, "idle") /\ siloThread[t].since = 0
    BY DEF SiloInit, In, NoCall
  <2>4. BusyCount
    <3>1. Transacting = {}
      BY <2>3 DEF Transacting, In
    <3> QED
      BY <3>1, FS_EmptySet DEF BusyCount, SiloInit
  <2>5. LocksAreHeld
    BY <2>3, SiloConstants DEF LocksAreHeld, In, SiloInit
  <2>6. Current
    BY <2>3, SiloConstants
    DEF Current, ClaimsFollow, BuildsAreCurrent, SiloIsCurrent, ReadersHaveIt, RefsAreCurrent, Remembered, ChangeIsRemembered, In, SiloInit
  <2> QED
    BY <2>1, <2>2, <2>4, <2>5, <2>6 DEF SiloIInv
<1>2. SiloIInv /\ [SiloNext]_siloVars => SiloIInv'
  <2> SUFFICES ASSUME SiloIInv, [SiloNext]_siloVars PROVE SiloIInv'
    OBVIOUS
  <2>1. ASSUME NEW t \in SiloThreads, ContentChanges \/ SiloMainStep \/ StartCall(t) \/ SiloStep(t) PROVE SiloIInv'
    BY <2>1, TypesStay, CallsStay, BusyStays, LocksStay, CurrentStays DEF SiloIInv
  <2>2. CASE ContentChanges \/ SiloMainStep
    BY <2>1, <2>2, SiloConstants
  <2>3. CASE UNCHANGED siloVars
    <3> USE <2>3 DEF siloVars
    <3>1. StateTypes' /\ CallTypes' /\ LocksAreHeld'
      BY DEF SiloIInv, StateTypes, CallTypes, LocksAreHeld, In
    <3>2. Transacting' = Transacting
      BY DEF Transacting, In
    <3>3. BusyCount'
      BY <3>2 DEF SiloIInv, BusyCount
    <3>4. Current'
      BY DEF SiloIInv, Current, ClaimsFollow, BuildsAreCurrent, SiloIsCurrent, ReadersHaveIt, RefsAreCurrent, Remembered,
             ChangeIsRemembered, In
    <3> QED
      BY <3>1, <3>3, <3>4 DEF SiloIInv
  <2> QED
    BY <2>1, <2>2, <2>3 DEF SiloNext
<1>3. SiloIInv => SiloInv
  <2> SUFFICES ASSUME SiloIInv PROVE SiloInv
    OBVIOUS
  <2>1. busy \in Nat
    BY TransactingFinite, FS_CardinalityType DEF SiloIInv, BusyCount
  <2>2. SiloTypeOK
    BY <2>1 DEF SiloIInv, StateTypes, CallTypes, SiloTypeOK
  <2>3. ReadersSeeTheClaimed /\ RefsKnowTheClaimed /\ ChangeIsRemembered
    BY DEF SiloIInv, Current, SiloIsCurrent, ReadersHaveIt, RefsAreCurrent, Remembered, ReadersSeeTheClaimed, RefsKnowTheClaimed
  <2> QED
    BY <2>2, <2>3 DEF SiloInv
<1> QED
  BY <1>1, <1>2, <1>3, PTL DEF SiloSpec

-----------------------------------------------------------------------------
(* ---- The jobs of the Flatpak plugin ---- *)
LEMMA RefsAre ==
    /\ MainApps \subseteq Refs /\ Runtime \in Refs /\ Runtime \notin MainApps /\ NoRef \notin Refs
    /\ Extensions \subseteq Refs /\ \A p \in Extensions : p \notin MainApps /\ p # Runtime
BY FlatpakAssumption

(* What the setters of the state do to an app.                               *)
Fit(app) == app \in GsApp /\ AtRest(app)
TrueOf(app, installed) ==
    /\ app.recover \in {"installed", "updatable live"} => installed
    /\ app.recover = "available" => ~installed
KnownIf(app) == app.state \in Transient => app.recover # "unknown"

LEMMA SetIs ==
    ASSUME NEW app, Fit(app), NEW s \in States
    PROVE  /\ Fit(SetState(app, s)) /\ SetState(app, s).state = s
           /\ SetState(app, s).recover = IF s \in Transient THEN app.recover ELSE s
<1>1. app \in GsApp /\ AtRest(app)
  BY DEF Fit
<1>2. CASE app.state = s
  BY <1>1, <1>2 DEF Fit, SetState, AtRest
<1>3. CASE app.state # s
  BY <1>1, <1>3 DEF Fit, SetState, AtRest, Remember, GsApp, States, Actions, Transient
<1> QED
  BY <1>2, <1>3

LEMMA RecoveredIs ==
    ASSUME NEW app, Fit(app)
    PROVE  /\ Fit(SetStateRecover(app)) /\ SetStateRecover(app).recover = app.recover
           /\ app.recover # "unknown" => SetStateRecover(app).state = app.recover
           /\ app.recover = "unknown" => SetStateRecover(app) = app
BY DEF Fit, SetStateRecover, AtRest, GsApp, States, Actions, Transient

LEMMA StateNames ==
    /\ "unknown" \in States /\ "installed" \in States /\ "available" \in States /\ "queued" \in States
    /\ "installing" \in States /\ "removing" \in States /\ "updatable live" \in States
    /\ "unknown" \notin Transient /\ "installed" \notin Transient /\ "available" \notin Transient
    /\ "updatable live" \notin Transient
    /\ "queued" \in Transient /\ "installing" \in Transient /\ "removing" \in Transient
BY DEF States, Transient

LEMMA SetToUnknown ==
    ASSUME NEW app, Fit(app)
    PROVE  Fit(SetState(app, "unknown")) /\ SetState(app, "unknown").state = "unknown" /\ SetState(app, "unknown").recover = "unknown"
BY SetIs, StateNames

LEMMA SetToTransient ==
    ASSUME NEW app, Fit(app), NEW s \in Transient
    PROVE  Fit(SetState(app, s)) /\ SetState(app, s).state = s /\ SetState(app, s).recover = app.recover
<1>1. s \in States
  BY DEF Transient, States
<1> QED
  BY <1>1, SetIs

LEMMA SetToStable ==
    ASSUME NEW app, Fit(app), NEW s \in {"unknown", "installed", "available", "updatable live"}
    PROVE  Fit(SetState(app, s)) /\ SetState(app, s).state = s /\ SetState(app, s).recover = s
<1>1. s \in States /\ s \notin Transient
  BY DEF Transient, States
<1> QED
  BY <1>1, SetIs

LEMMA CreatedIs ==
    ASSUME NEW app, Fit(app)
    PROVE  Fit(CreatedInstalled(app)) /\ CreatedInstalled(app).state = "installed" /\ CreatedInstalled(app).recover = "installed"
<1>1. Fit(SetState(app, "unknown"))
  BY SetIs, StateNames
<1> QED
  BY <1>1, SetIs, StateNames DEF CreatedInstalled

LEMMA ListedIs ==
    ASSUME NEW app, Fit(app), NEW kind
    PROVE  /\ Fit(Listed(app, kind)) /\ Listed(app, kind).state \in {"installed", "updatable live"}
           /\ Listed(app, kind).recover \in {"installed", "updatable live"}
<1>1. CASE kind = "installed"
  BY <1>1, CreatedIs DEF Listed
<1>2. CASE kind # "installed"
  BY <1>2, CreatedIs, SetIs, StateNames DEF Listed
<1> QED
  BY <1>1, <1>2

LEMMA UpdateStartsIs ==
    ASSUME NEW app, Fit(app)
    PROVE  /\ Fit(UpdateStarts(app)) /\ UpdateStarts(app).state = "installing"
           /\ UpdateStarts(app).recover = IF app.state \in {"unknown", "installed"} THEN "updatable live" ELSE app.recover
<1>1. CASE app.state \in {"unknown", "installed"}
  <2>1. Fit(SetState(app, "updatable live")) /\ SetState(app, "updatable live").recover = "updatable live"
    BY SetIs, StateNames
  <2> QED
    BY <1>1, <2>1, SetIs, StateNames DEF UpdateStarts
<1>2. CASE app.state \notin {"unknown", "installed"}
  BY <1>2, SetIs, StateNames DEF UpdateStarts
<1> QED
  BY <1>1, <1>2

(* An app at rest is never of an unknown state that is not its last one.     *)
LEMMA KnownWhenRestful ==
    ASSUME NEW app, Fit(app), KnownIf(app), app.state # "unknown"
    PROVE  app.recover # "unknown"
BY DEF Fit, AtRest, KnownIf

LEMMA UpdateStartsWell ==
    ASSUME NEW app, Fit(app), NEW main \in BOOLEAN, main => KnownIf(app), NEW sure \in BOOLEAN, sure => TrueOf(app, TRUE)
    PROVE  /\ Fit(UpdateStarts(app)) /\ (sure => TrueOf(UpdateStarts(app), TRUE))
           /\ main => KnownIf(UpdateStarts(app))
<1>1. main /\ app.state \notin {"unknown", "installed"} => app.recover # "unknown"
  BY KnownWhenRestful
<1> QED
  BY <1>1, UpdateStartsIs DEF TrueOf, KnownIf
-----------------------------------------------------------------------------
(* The parts of the invariant.                                               *)
AppInv ==
    /\ shown \in [Refs -> GsApp]
    /\ \A p \in Refs : Fit(shown[p])
    /\ \A p \in Refs \ overtaken : TrueOf(shown[p], p \in deployed)
    /\ \A p \in MainApps : KnownIf(shown[p])
RefTypes == newer \subseteq deployed /\ deployed \subseteq Refs
ListTypes ==
    /\ listing \in [kind : {"installed", "updates", "none"}, refs : SUBSET Refs]
    /\ activities \in 0..MaxActivities /\ overtaken \subseteq Refs
FlatpakTypes == jobs \in [JobThreads -> FlatpakJob]
JobInvOf(t) ==
    /\ JobShape(jobs[t]) /\ JobIsOfRefs(jobs[t])
    /\ \A p \in jobs[t].list \intersect MainApps : JobHasSet(jobs[t], p)
FlatpakJobsInv == FlatpakTypes /\ ListsApart /\ BusyIsListed /\ \A t \in JobThreads : JobInvOf(t)

LEMMA FlatpakParts ==
    /\ FlatpakIInv <=> AppInv /\ RefTypes /\ ListTypes /\ FlatpakJobsInv
    /\ FlatpakIInv' <=> AppInv' /\ RefTypes' /\ ListTypes' /\ FlatpakJobsInv'
<1>1. shown \in [Refs -> GsApp] => \A p \in Refs : shown[p] \in GsApp
  OBVIOUS
<1>2. shown' \in [Refs -> GsApp] => \A p \in Refs : shown'[p] \in GsApp
  OBVIOUS
<1>3. FlatpakIInv <=> AppInv /\ RefTypes /\ ListTypes /\ FlatpakJobsInv
  BY <1>1, RefsAre
  DEF FlatpakIInv, FlatpakTypeOK, RecoverIsTrue, RecoverIsKnown, JobsInv, AppInv, RefTypes, ListTypes, FlatpakTypes, JobInvOf,
      FlatpakJobsInv, Fit, TrueOf, KnownIf
<1>4. FlatpakIInv' <=> AppInv' /\ RefTypes' /\ ListTypes' /\ FlatpakJobsInv'
  BY <1>2, RefsAre
  DEF FlatpakIInv, FlatpakTypeOK, RecoverIsTrue, RecoverIsKnown, JobsInv, AppInv, RefTypes, ListTypes, FlatpakTypes, JobInvOf,
      FlatpakJobsInv, Fit, TrueOf, KnownIf
<1> QED
  BY <1>3, <1>4

(* What a step of a job may do to the others: nothing to their lists, nor to *)
(* the apps on them.                                                         *)
Puts(t) == \E job \in FlatpakJob : Put(t, job)
KeepsRefs(t) ==
    /\ newer' \subseteq deployed' /\ deployed' \subseteq Refs /\ deployed \ deployed' \subseteq jobs[t].list
    /\ \A p \in MainApps \ jobs[t].list : p \in deployed' => p \in deployed
KeepsApps(t) == \A p \in MainApps \ jobs[t].list : shown'[p] = shown[p]
LetsGo(t) ==
    /\ jobs'[t].list \subseteq jobs[t].list
    /\ \A p \in MainApps \intersect (jobs[t].list \ jobs'[t].list) : ~Busy(p)'
Keeps(t) == Puts(t) /\ KeepsRefs(t) /\ KeepsApps(t) /\ LetsGo(t) /\ UNCHANGED listVars

LEMMA PutIs ==
    ASSUME FlatpakTypes, NEW t \in JobThreads, Puts(t)
    PROVE  /\ FlatpakTypes' /\ jobs'[t] \in FlatpakJob
           /\ \A s \in JobThreads \ {t} : jobs'[s] = jobs[s]
BY DEF FlatpakTypes, Puts, Put

LEMMA OthersStay ==
    ASSUME FlatpakJobsInv, NEW t \in JobThreads, Keeps(t), NEW s \in JobThreads \ {t}
    PROVE  JobInvOf(s)'
<1>1. jobs'[s] = jobs[s] /\ JobInvOf(s) /\ jobs[s].list \intersect jobs[t].list = {}
  BY PutIs DEF FlatpakJobsInv, Keeps, ListsApart
<1>2. JobShape(jobs[s])'
  BY <1>1 DEF JobInvOf, JobShape
<1>3. JobIsOfRefs(jobs[s])'
  <2>1. jobs[s].op \in {"update", "download"} => jobs[s].ops \subseteq jobs[s].list
    BY <1>1 DEF JobInvOf, JobShape
  <2>2. overtaken' = overtaken /\ deployed \ deployed' \subseteq jobs[t].list
        /\ \A p \in MainApps \ jobs[t].list : p \in deployed' => p \in deployed
    BY DEF Keeps, KeepsRefs, listVars
  <2> QED
    BY <1>1, <2>1, <2>2 DEF JobInvOf, JobIsOfRefs
<1>4. ASSUME NEW p \in jobs[s].list \intersect MainApps PROVE JobHasSet(jobs[s], p)'
  <2>1. shown'[p] = shown[p] /\ JobHasSet(jobs[s], p)
    BY <1>1 DEF Keeps, KeepsApps, JobInvOf
  <2> QED
    BY <1>1, <2>1 DEF JobHasSet, Busy
<1> QED
  BY <1>1, <1>2, <1>3, <1>4 DEF JobInvOf

LEMMA KeepsEnough ==
    ASSUME AppInv, RefTypes, ListTypes, FlatpakJobsInv, NEW t \in JobThreads, Keeps(t), AppInv', JobInvOf(t)'
    PROVE  FlatpakIInv'
<1>1. FlatpakTypes' /\ \A s \in JobThreads \ {t} : jobs'[s] = jobs[s]
  BY PutIs DEF FlatpakJobsInv, Keeps
<1>2. RefTypes' /\ ListTypes'
  BY DEF Keeps, KeepsRefs, RefTypes, ListTypes, listVars
<1>3. ListsApart'
  <2> SUFFICES ASSUME NEW r \in JobThreads, NEW s \in JobThreads, r # s PROVE jobs'[r].list \intersect jobs'[s].list = {}
    BY DEF ListsApart
  <2>1. jobs[r].list \intersect jobs[s].list = {}
    BY DEF FlatpakJobsInv, ListsApart
  <2>2. jobs'[r].list \subseteq jobs[r].list /\ jobs'[s].list \subseteq jobs[s].list
    BY <1>1 DEF Keeps, LetsGo
  <2> QED
    BY <2>1, <2>2
<1>4. BusyIsListed'
  <2> SUFFICES ASSUME NEW p \in MainApps, Busy(p)' PROVE \E s \in JobThreads : p \in jobs'[s].list
    BY DEF BusyIsListed
  <2>1. CASE p \in jobs[t].list
    BY <2>1 DEF Keeps, LetsGo
  <2>2. CASE p \notin jobs[t].list
    <3>1. Busy(p)
      BY <2>2 DEF Keeps, KeepsApps, Busy
    <3>2. PICK s \in JobThreads : p \in jobs[s].list
      BY <3>1 DEF FlatpakJobsInv, BusyIsListed
    <3> QED
      BY <1>1, <2>2, <3>2
  <2> QED
    BY <2>1, <2>2
<1>5. \A s \in JobThreads : JobInvOf(s)'
  BY OthersStay
<1> QED
  BY <1>1, <1>2, <1>3, <1>4, <1>5, FlatpakParts DEF FlatpakJobsInv

(* The job ends.                                                             *)
LEMMA IdleIsJob ==
    /\ IdleJob \in FlatpakJob /\ IdleJob.list = {} /\ IdleJob.ops = {} /\ IdleJob.todo = {} /\ IdleJob.stage = "idle"
    /\ IdleJob.at = NoRef /\ IdleJob.op = "install"
BY DEF IdleJob, FlatpakJob, Ops

LEMMA EndIs ==
    ASSUME FlatpakTypes, NEW t \in JobThreads, EndJob(t)
    PROVE  Puts(t) /\ jobs'[t].list = {} /\ JobInvOf(t)'
<1>1. Puts(t) /\ jobs'[t] = IdleJob
  BY IdleIsJob DEF EndJob, Puts, Put, FlatpakTypes
<1>2. JobShape(IdleJob)
  BY IdleIsJob DEF JobShape
<1>3. JobIsOfRefs(jobs[t])'
  BY <1>1, IdleIsJob DEF JobIsOfRefs
<1> QED
  BY <1>1, <1>2, <1>3, IdleIsJob DEF JobInvOf, JobShape

(* An update of some apps, of which the others stay as they are.             *)
LEMMA AppsFit ==
    ASSUME AppInv, UNCHANGED <<deployed, overtaken>>, DOMAIN shown' = Refs, shown' = [p \in Refs |-> shown'[p]],
           \A p \in Refs : shown'[p] = shown[p] \/ (/\ Fit(shown'[p])
                                                    /\ p \notin overtaken => TrueOf(shown'[p], p \in deployed)
                                                    /\ p \in MainApps => KnownIf(shown'[p]))
    PROVE  AppInv'
<1>1. ASSUME NEW p \in Refs
      PROVE  Fit(shown'[p]) /\ (p \notin overtaken => TrueOf(shown'[p], p \in deployed)) /\ (p \in MainApps => KnownIf(shown'[p]))
  BY DEF AppInv
<1>2. \A p \in Refs : shown'[p] \in GsApp
  BY <1>1 DEF Fit
<1>3. shown' \in [Refs -> GsApp]
  BY <1>2
<1> QED
  BY <1>1, <1>3, RefsAre DEF AppInv

LEMMA AppsSame ==
    ASSUME AppInv, UNCHANGED <<shown, deployed, overtaken>>
    PROVE  AppInv'
BY DEF AppInv

(* The apps of some refs go to another state: to a transient one from one    *)
(* that is known, to "unknown", or to what their refs are.                   *)
LEMMA AllToFits ==
    ASSUME AppInv, NEW ps \in SUBSET Refs, NEW s \in States, shown' = AllTo(ps, s), UNCHANGED <<deployed, overtaken>>,
           \/ s \in Transient /\ \A p \in ps \intersect MainApps : shown[p].state # "unknown"
           \/ s = "unknown"
           \/ s \in {"installed", "updatable live"} /\ ps \subseteq deployed \union overtaken
    PROVE  AppInv' /\ \A p \in Refs : IF p \in ps THEN shown'[p].state = s ELSE shown'[p] = shown[p]
<1>1. ASSUME NEW p \in Refs PROVE IF p \in ps THEN shown'[p] = SetState(shown[p], s) ELSE shown'[p] = shown[p]
  BY DEF AllTo
<1>2. ASSUME NEW p \in ps
      PROVE  Fit(shown'[p]) /\ (p \notin overtaken => TrueOf(shown'[p], p \in deployed))
             /\ (p \in MainApps => KnownIf(shown'[p])) /\ shown'[p].state = s
  <2>1. Fit(shown[p]) /\ (p \notin overtaken => TrueOf(shown[p], p \in deployed)) /\ (p \in MainApps => KnownIf(shown[p]))
    BY DEF AppInv
  <2>2. shown'[p] = SetState(shown[p], s)
    BY <1>1
  <2>3. Fit(shown'[p]) /\ shown'[p].state = s /\ shown'[p].recover = IF s \in Transient THEN shown[p].recover ELSE s
    BY <2>1, <2>2, SetIs
  <2>4. CASE s \in Transient
    <3>1. p \in MainApps => shown[p].recover # "unknown"
      BY <2>1, <2>4, KnownWhenRestful, StateNames
    <3> QED
      BY <2>1, <2>3, <2>4, <3>1 DEF TrueOf, KnownIf
  <2>5. CASE s \notin Transient
    BY <2>3, <2>5 DEF TrueOf, KnownIf
  <2> QED
    BY <2>4, <2>5
<1>3. DOMAIN shown' = Refs /\ shown' = [p \in Refs |-> shown'[p]]
  BY DEF AllTo
<1> QED
  BY <1>1, <1>2, <1>3, AppsFit

LEMMA AllToTransient ==
    ASSUME AppInv, NEW ps \in SUBSET Refs, NEW s \in Transient, shown' = AllTo(ps, s), UNCHANGED <<deployed, overtaken>>,
           \A p \in ps \intersect MainApps : shown[p].state # "unknown"
    PROVE  AppInv' /\ \A p \in Refs : IF p \in ps THEN shown'[p].state = s ELSE shown'[p] = shown[p]
<1>1. s \in States
  BY DEF Transient, States
<1> QED
  BY <1>1, AllToFits

LEMMA AllToUnknown ==
    ASSUME AppInv, NEW ps \in SUBSET Refs, shown' = AllTo(ps, "unknown"), UNCHANGED <<deployed, overtaken>>
    PROVE  AppInv' /\ \A p \in Refs : IF p \in ps THEN shown'[p].state = "unknown" ELSE shown'[p] = shown[p]
<1>1. "unknown" \in States
  BY StateNames
<1> QED
  BY <1>1, AllToFits
-----------------------------------------------------------------------------
(* The stages up to the run of the transaction.                              *)
JobStages == {"prepare", "ready", "run", "refresh", "refine", "addons", "idle"}

LEMMA StageIs ==
    ASSUME FlatpakTypes, NEW t \in JobThreads, NEW stage \in JobStages, Put(t, [jobs[t] EXCEPT !.stage = stage])
    PROVE  /\ Puts(t) /\ jobs'[t].stage = stage /\ jobs'[t].op = jobs[t].op /\ jobs'[t].list = jobs[t].list
           /\ jobs'[t].ops = jobs[t].ops /\ jobs'[t].todo = jobs[t].todo /\ jobs'[t].at = jobs[t].at
<1>1. jobs[t] \in FlatpakJob
  BY DEF FlatpakTypes
<1> DEFINE job == [jobs[t] EXCEPT !.stage = stage]
<1>2. job \in FlatpakJob
  BY <1>1 DEF FlatpakJob, JobStages
<1>3. jobs'[t] = job
  BY DEF Put, FlatpakTypes
<1>4. Puts(t)
  BY <1>2 DEF Puts
<1>5. /\ job.stage = stage /\ job.op = jobs[t].op /\ job.list = jobs[t].list
      /\ job.ops = jobs[t].ops /\ job.todo = jobs[t].todo /\ job.at = jobs[t].at
  BY <1>1 DEF FlatpakJob
<1> QED
  BY <1>3, <1>4, <1>5

LEMMA SameRefs ==
    ASSUME RefTypes, NEW t, UNCHANGED refVars
    PROVE  KeepsRefs(t)
BY DEF RefTypes, KeepsRefs, refVars

(* A step that ends a job whose apps are not busy any more.                  *)
LEMMA EndKeeps ==
    ASSUME RefTypes, FlatpakTypes, NEW t \in JobThreads, EndJob(t), UNCHANGED <<refVars, listVars>>, KeepsApps(t),
           \A p \in MainApps \intersect jobs[t].list : ~Busy(p)'
    PROVE  Keeps(t) /\ JobInvOf(t)'
BY EndIs, SameRefs DEF Keeps, LetsGo

(* A step to a stage at which the job has no operations.                     *)
LEMMA StageKeeps ==
    ASSUME RefTypes, FlatpakTypes, NEW t \in JobThreads, JobInvOf(t), NEW stage \in JobStages \ {"run", "idle"},
           Put(t, [jobs[t] EXCEPT !.stage = stage]), UNCHANGED <<refVars, listVars>>, KeepsApps(t), jobs[t].stage # "run",
           stage # "prepare",
           stage = "ready" => /\ jobs[t].op = "install" => jobs[t].list \intersect MainApps \intersect deployed = {}
                              /\ jobs[t].op = "remove" => jobs[t].list \intersect MainApps \subseteq deployed
                              /\ \A p \in MainApps \intersect jobs[t].list :
                                    (jobs[t].op = "remove" => shown'[p].state # "unknown") /\ (jobs[t].op = "download" => ~Busy(p)'),
           stage # "ready" => \A p \in MainApps \intersect jobs[t].list : ~Busy(p)'
    PROVE  Keeps(t) /\ JobInvOf(t)'
<1>1. /\ Puts(t) /\ jobs'[t].stage = stage /\ jobs'[t].op = jobs[t].op /\ jobs'[t].list = jobs[t].list
      /\ jobs'[t].ops = jobs[t].ops /\ jobs'[t].todo = jobs[t].todo /\ jobs'[t].at = jobs[t].at
  BY StageIs
<1>2. Keeps(t)
  BY <1>1, SameRefs DEF Keeps, LetsGo
<1>3. JobShape(jobs[t])'
  BY <1>1 DEF JobInvOf, JobShape
<1>4. JobIsOfRefs(jobs[t])'
  BY <1>1 DEF JobInvOf, JobIsOfRefs, refVars, listVars
<1>5. ASSUME NEW p \in jobs'[t].list \intersect MainApps PROVE JobHasSet(jobs[t], p)'
  BY <1>1, <1>5 DEF JobHasSet
<1> QED
  BY <1>2, <1>3, <1>4, <1>5 DEF JobInvOf

LEMMA ListIsOfRefs ==
    ASSUME FlatpakTypes, NEW t \in JobThreads
    PROVE  /\ jobs[t] \in FlatpakJob /\ jobs[t].list \subseteq Refs /\ jobs[t].ops \subseteq Refs /\ jobs[t].todo \subseteq Refs
           /\ jobs[t].at \in Refs \union {NoRef}
BY DEF FlatpakTypes, FlatpakJob

LEMMA InstallPreparesWell ==
    ASSUME AppInv, RefTypes, FlatpakTypes, NEW t \in JobThreads, JobInvOf(t), InstallPrepares(t)
    PROVE  AppInv' /\ JobInvOf(t)' /\ Keeps(t)
<1> DEFINE main == jobs[t].list \intersect MainApps
           addons == jobs[t].list \ main
<1>0. jobs[t].list \subseteq Refs /\ main \subseteq Refs /\ addons \subseteq Refs
  BY ListIsOfRefs
<1>a. /\ jobs[t].op = "install" /\ jobs[t].stage = "prepare" /\ UNCHANGED <<refVars, listVars>>
      /\ UNCHANGED <<deployed, overtaken>>
  BY DEF InstallPrepares, At, refVars, listVars
<1>b. \A p \in main : ~Busy(p) /\ shown[p].state # "unknown"
  BY <1>a DEF JobInvOf, JobHasSet
<1>c. /\ jobs[t].list \in SUBSET Refs /\ main \in SUBSET Refs /\ "queued" \in Transient /\ "installing" \in Transient
      /\ \A p \in jobs[t].list \intersect MainApps : shown[p].state # "unknown"
      /\ \A p \in main \intersect MainApps : shown[p].state # "unknown"
  BY <1>0, <1>b, StateNames
<1>1. CASE shown' = AllTo(main, "queued") /\ EndJob(t)
  <2>1. AppInv' /\ \A p \in Refs : IF p \in main THEN shown'[p].state = "queued" ELSE shown'[p] = shown[p]
    <3> HIDE DEF main
    <3> QED
      BY <1>a, <1>c, <1>1, AllToTransient
  <2>2. KeepsApps(t) /\ \A p \in MainApps \intersect jobs[t].list : ~Busy(p)'
    BY <1>0, <2>1, RefsAre DEF KeepsApps, Busy
  <2> QED
    BY <1>1, <1>a, <2>1, <2>2, EndKeeps
<1>2. CASE UNCHANGED shown /\ EndJob(t)
  <2>1. AppInv'
    BY <1>2, <1>a, AppsSame
  <2>2. KeepsApps(t) /\ \A p \in MainApps \intersect jobs[t].list : ~Busy(p)'
    BY <1>2, <1>b DEF KeepsApps, Busy
  <2> QED
    BY <1>2, <1>a, <2>1, <2>2, EndKeeps
<1>3. CASE /\ shown' = [p \in Refs |-> IF p \in main THEN SetState(shown[p], "unknown") ELSE AllTo(addons, "installing")[p]]
           /\ Put(t, [jobs[t] EXCEPT !.stage = "refresh"])
  <2>1. ASSUME NEW p \in Refs
        PROVE  shown'[p] = IF p \in main THEN SetState(shown[p], "unknown")
                           ELSE IF p \in addons THEN SetState(shown[p], "installing") ELSE shown[p]
    BY <1>3 DEF AllTo
  <2>2. ASSUME NEW p \in Refs
        PROVE  \/ shown'[p] = shown[p]
               \/ Fit(shown'[p]) /\ (p \notin overtaken => TrueOf(shown'[p], p \in deployed)) /\ (p \in MainApps => KnownIf(shown'[p]))
    <3>1. Fit(shown[p]) /\ (p \notin overtaken => TrueOf(shown[p], p \in deployed))
      BY DEF AppInv
    <3>2. CASE p \in main
      <4>1. shown'[p] = SetState(shown[p], "unknown")
        BY <2>1, <3>2
      <4>2. Fit(shown'[p]) /\ shown'[p].state = "unknown" /\ shown'[p].recover = "unknown"
        BY <3>1, <4>1, SetToUnknown
      <4> QED
        BY <4>2, StateNames DEF TrueOf, KnownIf
    <3>3. CASE p \in addons
      <4>1. p \notin MainApps /\ shown'[p] = SetState(shown[p], "installing")
        BY <2>1, <3>3
      <4> QED
        <5>1. Fit(shown'[p]) /\ shown'[p].recover = shown[p].recover
          BY <1>c, <3>1, <4>1, SetToTransient
        <5> QED
          BY <3>1, <4>1, <5>1 DEF TrueOf
    <3> QED
      BY <2>1, <3>2, <3>3
  <2>3. DOMAIN shown' = Refs /\ shown' = [p \in Refs |-> shown'[p]]
    BY <1>3
  <2>4. AppInv'
    BY <1>a, <2>2, <2>3, AppsFit
  <2>5. ASSUME NEW p \in MainApps PROVE IF p \in jobs[t].list THEN ~Busy(p)' ELSE shown'[p] = shown[p]
    <3>1. CASE p \in jobs[t].list
      <4>1. Fit(shown[p]) /\ shown'[p] = SetState(shown[p], "unknown")
        BY <2>1, <3>1, RefsAre DEF AppInv
      <4> QED
        BY <3>1, <4>1, SetToUnknown DEF Busy
    <3> QED
      BY <2>1, <3>1, RefsAre
  <2>6. KeepsApps(t)
    BY <2>5 DEF KeepsApps
  <2> QED
    BY <1>3, <1>a, <2>4, <2>5, <2>6, StageKeeps DEF JobStages
<1>4. CASE ~(main \subseteq deployed) /\ shown' = AllTo(jobs[t].list, "installing") /\ Put(t, [jobs[t] EXCEPT !.stage = "ready"])
  <2>1. AppInv' /\ \A p \in Refs : IF p \in jobs[t].list THEN shown'[p].state = "installing" ELSE shown'[p] = shown[p]
    BY <1>a, <1>c, <1>4, AllToTransient
  <2>2. KeepsApps(t)
    BY <2>1, RefsAre DEF KeepsApps
  <2>3. main \intersect deployed = {}
    BY <1>4, <1>a DEF JobInvOf, JobIsOfRefs
  <2> QED
    BY <1>4, <1>a, <2>1, <2>2, <2>3, StageKeeps DEF JobStages
<1> QED
  BY <1>1, <1>2, <1>3, <1>4 DEF InstallPrepares

LEMMA BusyPreparesWell ==
    ASSUME AppInv, RefTypes, FlatpakTypes, NEW t \in JobThreads, JobInvOf(t), RemovePrepares(t) \/ UpdatePrepares(t)
    PROVE  AppInv' /\ JobInvOf(t)' /\ Keeps(t)
<1>a. /\ jobs[t].op \in {"remove", "update"} /\ jobs[t].stage = "prepare" /\ UNCHANGED <<refVars, listVars>>
      /\ UNCHANGED <<deployed, overtaken>>
  BY DEF RemovePrepares, UpdatePrepares, At, refVars, listVars
<1>b. \A p \in jobs[t].list \intersect MainApps : ~Busy(p) /\ shown[p].state # "unknown"
  BY <1>a DEF JobInvOf, JobHasSet
<1>c. jobs[t].list \in SUBSET Refs /\ "removing" \in Transient /\ "installing" \in Transient
      /\ "removing" # "unknown" /\ "installing" # "unknown"
  BY ListIsOfRefs, StateNames
<1>1. CASE UNCHANGED shown /\ EndJob(t)
  <2>1. AppInv'
    BY <1>1, <1>a, AppsSame
  <2>2. KeepsApps(t) /\ \A p \in MainApps \intersect jobs[t].list : ~Busy(p)'
    BY <1>1, <1>b DEF KeepsApps, Busy
  <2> QED
    BY <1>1, <1>a, <2>1, <2>2, EndKeeps
<1>2. ASSUME NEW s \in Transient, s # "unknown", shown' = AllTo(jobs[t].list, s), Put(t, [jobs[t] EXCEPT !.stage = "ready"])
      PROVE  AppInv' /\ JobInvOf(t)' /\ Keeps(t)
  <2>1. AppInv' /\ \A p \in Refs : IF p \in jobs[t].list THEN shown'[p].state = s ELSE shown'[p] = shown[p]
    BY <1>a, <1>b, <1>c, <1>2, AllToTransient
  <2>2. KeepsApps(t)
    BY <2>1, RefsAre DEF KeepsApps
  <2>3. jobs[t].op = "remove" => jobs[t].list \intersect MainApps \subseteq deployed
    BY <1>a DEF JobInvOf, JobIsOfRefs
  <2>4. \A p \in MainApps \intersect jobs[t].list : shown'[p].state # "unknown"
    BY <1>2, <2>1, RefsAre
  <2> QED
    BY <1>2, <1>a, <2>1, <2>2, <2>3, <2>4, StageKeeps DEF JobStages
<1> QED
  BY <1>1, <1>2, <1>c DEF RemovePrepares, UpdatePrepares

LEMMA DownloadPreparesWell ==
    ASSUME AppInv, RefTypes, FlatpakTypes, NEW t \in JobThreads, JobInvOf(t), DownloadPrepares(t)
    PROVE  AppInv' /\ JobInvOf(t)' /\ Keeps(t)
<1>a. /\ jobs[t].op = "download" /\ jobs[t].stage = "prepare" /\ UNCHANGED <<shown, refVars, listVars>>
      /\ UNCHANGED <<deployed, overtaken>>
  BY DEF DownloadPrepares, At, refVars, listVars
<1>b. \A p \in jobs[t].list \intersect MainApps : ~Busy(p)
  BY <1>a DEF JobInvOf, JobHasSet
<1>c. AppInv' /\ KeepsApps(t) /\ \A p \in MainApps \intersect jobs[t].list : ~Busy(p)'
  BY <1>a, <1>b, AppsSame DEF KeepsApps, Busy
<1>1. CASE EndJob(t)
  BY <1>1, <1>a, <1>c, EndKeeps
<1>2. ASSUME NEW list \in SUBSET jobs[t].list, Put(t, [jobs[t] EXCEPT !.stage = "ready", !.list = list])
      PROVE  JobInvOf(t)' /\ Keeps(t)
  <2>0. jobs[t] \in FlatpakJob /\ list \in SUBSET Refs
    BY ListIsOfRefs
  <2> DEFINE job == [jobs[t] EXCEPT !.stage = "ready", !.list = list]
  <2>1. job \in FlatpakJob
    BY <2>0 DEF FlatpakJob
  <2>2. jobs'[t] = job /\ Puts(t)
    BY <1>2, <2>1 DEF Put, Puts, FlatpakTypes
  <2>3. job.stage = "ready" /\ job.op = "download" /\ job.list = list /\ job.ops = {} /\ job.todo = {} /\ job.at = NoRef
    BY <2>0, <1>a DEF FlatpakJob, JobInvOf, JobShape
  <2> HIDE DEF job
  <2>4. Keeps(t)
    BY <1>a, <1>c, <2>2, <2>3, SameRefs DEF Keeps, LetsGo
  <2>5. JobShape(jobs[t])'
    BY <2>2, <2>3 DEF JobShape
  <2>6. JobIsOfRefs(jobs[t])'
    BY <1>a, <2>2, <2>3 DEF JobInvOf, JobIsOfRefs
  <2>7. ASSUME NEW p \in jobs'[t].list \intersect MainApps PROVE JobHasSet(jobs[t], p)'
    BY <1>c, <2>2, <2>3, <2>7 DEF JobHasSet
  <2> QED
    BY <2>4, <2>5, <2>6, <2>7 DEF JobInvOf
<1> QED
  BY <1>1, <1>2, <1>c DEF DownloadPrepares

(* The operations libflatpak finds necessary.                                *)
LEMMA NecessaryIs ==
    ASSUME RefTypes, NEW list \in SUBSET Refs, NEW op \in Ops
    PROVE  /\ Necessary(op, list) \subseteq list \union (IF op = "install" THEN {Runtime} ELSE {})
           /\ Necessary(op, list) \subseteq Refs
           /\ op \in {"update", "download"} => Necessary(op, list) \subseteq deployed
           /\ op = "install" => list \ deployed \subseteq Necessary(op, list)
           /\ op = "remove" => list \intersect deployed = Necessary(op, list)
<1>1. CASE op = "install"
  BY <1>1, RefsAre DEF Necessary
<1>2. CASE op = "remove"
  BY <1>2 DEF Necessary
<1>3. CASE op \in {"update", "download"}
  BY <1>3 DEF Necessary, RefTypes
<1> QED
  BY <1>1, <1>2, <1>3 DEF Ops

LEMMA AppOfIs ==
    ASSUME AppInv, NEW known, NEW p \in Refs
    PROVE  /\ Fit(AppOf(known, p)) /\ (p \notin overtaken => TrueOf(AppOf(known, p), p \in deployed))
           /\ p \in MainApps => KnownIf(AppOf(known, p))
           /\ AppOf(known, p) = shown[p] \/ AppOf(known, p).state = "installed"
<1>1. Fit(shown[p]) /\ (p \notin overtaken => TrueOf(shown[p], p \in deployed)) /\ (p \in MainApps => KnownIf(shown[p]))
  BY DEF AppInv
<1>2. CASE p \in deployed \ known
  BY <1>1, <1>2, CreatedIs, StateNames DEF AppOf, TrueOf, KnownIf
<1>3. CASE p \notin deployed \ known
  BY <1>1, <1>3 DEF AppOf
<1> QED
  BY <1>2, <1>3

LEMMA UpdateOf ==
    ASSUME NEW app, Fit(app), NEW p, p \notin overtaken => TrueOf(app, TRUE), p \in MainApps => KnownIf(app)
    PROVE  /\ Fit(UpdateStarts(app)) /\ (p \notin overtaken => TrueOf(UpdateStarts(app), TRUE))
           /\ p \in MainApps => KnownIf(UpdateStarts(app))
<1>1. (p \notin overtaken) \in BOOLEAN /\ (p \in MainApps) \in BOOLEAN
  OBVIOUS
<1> DEFINE sure == p \notin overtaken
           main == p \in MainApps
<1>2. sure \in BOOLEAN /\ main \in BOOLEAN
  BY <1>1
<1>a. sure => TrueOf(app, TRUE)
  OBVIOUS
<1>b. main => KnownIf(app)
  OBVIOUS
<1> HIDE DEF sure, main
<1>3. Fit(UpdateStarts(app)) /\ (sure => TrueOf(UpdateStarts(app), TRUE)) /\ (main => KnownIf(UpdateStarts(app)))
  BY <1>2, <1>a, <1>b, UpdateStartsWell
<1> QED
  BY <1>3 DEF sure, main

LEMMA ReadyWell ==
    ASSUME AppInv, RefTypes, FlatpakTypes, NEW t \in JobThreads, JobInvOf(t), Ready(t)
    PROVE  AppInv' /\ JobInvOf(t)' /\ Keeps(t)
<1> DEFINE old == jobs[t]
           ops == Necessary(old.op, old.list)
           job == [old EXCEPT !.stage = "run", !.ops = ops, !.todo = ops]
<1>0. old \in FlatpakJob /\ old.list \in SUBSET Refs /\ old.op \in Ops
  BY ListIsOfRefs DEF FlatpakJob
<1>a. old.stage = "ready" /\ UNCHANGED <<refVars, listVars>> /\ UNCHANGED <<deployed, overtaken>>
  BY DEF Ready, refVars, listVars
<1>b. JobShape(old) /\ JobIsOfRefs(old) /\ \A p \in old.list \intersect MainApps : JobHasSet(old, p)
  BY DEF JobInvOf
<1>c. PICK known \in Known(old) :
      /\ shown' = [p \in Refs |-> CASE p \notin ops -> shown[p]
                                   [] p \in ops /\ IsUpdate(old, p) -> UpdateStarts(AppOf(known, p))
                                   [] OTHER -> AppOf(known, p)]
      /\ Put(t, job)
  BY DEF Ready
<1>d. /\ ops \subseteq old.list \union (IF old.op = "install" THEN {Runtime} ELSE {}) /\ ops \subseteq Refs
      /\ old.op \in {"update", "download"} => ops \subseteq deployed
      /\ old.op = "install" => old.list \ deployed \subseteq ops
      /\ old.op = "remove" => old.list \intersect deployed = ops
  BY <1>0, NecessaryIs
<1> HIDE DEF ops
<1>1. job \in FlatpakJob
  BY <1>0, <1>d DEF FlatpakJob
<1>2. job.stage = "run" /\ job.op = old.op /\ job.list = old.list /\ job.ops = ops /\ job.todo = ops /\ job.at = NoRef
  BY <1>0, <1>a, <1>b DEF FlatpakJob, JobShape
<1>3. jobs'[t] = job /\ Puts(t)
  BY <1>c, <1>1 DEF Put, Puts, FlatpakTypes
<1> HIDE DEF job
<1>4. ASSUME NEW p \in Refs
      PROVE  IF p \notin ops THEN shown'[p] = shown[p]
             ELSE IF IsUpdate(old, p) THEN shown'[p] = UpdateStarts(AppOf(known, p)) ELSE shown'[p] = AppOf(known, p)
  <2> HIDE DEF old
  <2>1. CASE p \notin ops
    BY <1>c, <2>1
  <2>2. CASE p \in ops /\ IsUpdate(old, p)
    BY <1>c, <2>2
  <2>3. CASE p \in ops /\ ~IsUpdate(old, p)
    BY <1>c, <2>3
  <2> QED
    BY <2>1, <2>2, <2>3
<1>5. ASSUME NEW p \in Refs
      PROVE  \/ shown'[p] = shown[p]
             \/ Fit(shown'[p]) /\ (p \notin overtaken => TrueOf(shown'[p], p \in deployed)) /\ (p \in MainApps => KnownIf(shown'[p]))
  <2>1. CASE p \in ops /\ IsUpdate(old, p)
    <3>1. p \in deployed
      BY <1>d, <2>1 DEF IsUpdate
    <3>2. Fit(AppOf(known, p)) /\ (p \notin overtaken => TrueOf(AppOf(known, p), TRUE)) /\ (p \in MainApps => KnownIf(AppOf(known, p)))
      BY <3>1, AppOfIs
    <3>3. shown'[p] = UpdateStarts(AppOf(known, p))
      BY <1>4, <2>1
    <3> QED
      BY <3>1, <3>2, <3>3, UpdateOf
  <2>2. CASE p \in ops /\ ~IsUpdate(old, p)
    BY <1>4, <2>2, AppOfIs
  <2> QED
    BY <1>4, <2>1, <2>2
<1>6. AppInv'
  <2>1. DOMAIN shown' = Refs /\ shown' = [p \in Refs |-> shown'[p]]
    BY <1>c
  <2> QED
    BY <1>5, <1>a, <2>1, AppsFit
<1>7. Keeps(t)
  <2>1. KeepsApps(t)
    BY <1>d, <1>4, RefsAre DEF KeepsApps
  <2> QED
    BY <1>2, <1>3, <1>a, <2>1, SameRefs DEF Keeps, LetsGo
<1>8. JobShape(jobs[t])'
  BY <1>2, <1>3, <1>d, RefsAre DEF JobShape
<1>9. JobIsOfRefs(jobs[t])'
  BY <1>2, <1>3, <1>a, <1>b, <1>d DEF JobIsOfRefs
<1>10. ASSUME NEW p \in jobs'[t].list \intersect MainApps PROVE JobHasSet(jobs[t], p)'
  <2>1. p \in Refs /\ JobHasSet(old, p)
    BY <1>2, <1>3, <1>b, RefsAre
  <2>2. ASSUME old.op = "remove", p \in ops PROVE shown'[p].state # "unknown"
    <3>1. shown'[p] = AppOf(known, p) /\ shown[p].state # "unknown"
      BY <1>4, <1>a, <2>1, <2>2 DEF IsUpdate, JobHasSet
    <3> QED
      BY <2>1, <3>1, AppOfIs
  <2>3. ASSUME old.op = "download", p \notin ops PROVE ~Busy(p)'
    BY <1>4, <1>a, <2>1, <2>3 DEF JobHasSet, Busy
  <2> QED
    BY <1>2, <1>3, <2>2, <2>3 DEF JobHasSet
<1> QED
  BY <1>6, <1>7, <1>8, <1>9, <1>10 DEF JobInvOf
-----------------------------------------------------------------------------
(* The run of the transaction.                                               *)
LEMMA OpsAre ==
    ASSUME FlatpakTypes, NEW t \in JobThreads, JobInvOf(t)
    PROVE  /\ jobs[t].ops \subseteq Refs /\ \A p \in jobs[t].ops : p \notin jobs[t].list => p = Runtime /\ jobs[t].op = "install"
           /\ jobs[t].todo \subseteq jobs[t].ops /\ jobs[t].at \in jobs[t].ops \union {NoRef} /\ jobs[t].at \notin jobs[t].todo
           /\ jobs[t].op \in {"update", "download"} => jobs[t].ops \subseteq deployed
<1>1. JobShape(jobs[t]) /\ JobIsOfRefs(jobs[t])
  BY DEF JobInvOf
<1> QED
  BY <1>1, ListIsOfRefs DEF JobShape, JobIsOfRefs

(* What an operation that begins makes of the app.                           *)
Begun(t, p) ==
    LET known == IF shown[p].state = "unknown" THEN SetState(shown[p], "available") ELSE shown[p]
    IN  CASE jobs[t].op = "remove" -> SetState(shown[p], "removing")
          [] IsUpdate(jobs[t], p) -> UpdateStarts(shown[p])
          [] OTHER -> SetState(known, "installing")

LEMMA BegunIs ==
    ASSUME AppInv, FlatpakTypes, NEW t \in JobThreads, JobInvOf(t), jobs[t].stage = "run", NEW p \in jobs[t].todo
    PROVE  /\ Fit(Begun(t, p)) /\ (p \notin overtaken => TrueOf(Begun(t, p), p \in deployed))
           /\ p \in MainApps => KnownIf(Begun(t, p))
<1>0. p \in jobs[t].ops /\ p \in Refs /\ jobs[t].op \in Ops
  BY OpsAre, ListIsOfRefs DEF FlatpakJob
<1>a. Fit(shown[p]) /\ (p \notin overtaken => TrueOf(shown[p], p \in deployed)) /\ (p \in MainApps => KnownIf(shown[p]))
  BY <1>0 DEF AppInv
<1>b. "removing" \in Transient /\ "installing" \in Transient
  BY StateNames
<1>1. CASE jobs[t].op = "remove"
  <2>1. Begun(t, p) = SetState(shown[p], "removing")
    BY <1>1 DEF Begun, IsUpdate
  <2>2. Fit(Begun(t, p)) /\ Begun(t, p).recover = shown[p].recover
    BY <1>a, <1>b, <2>1, SetToTransient
  <2>3. p \in MainApps => shown[p].recover # "unknown"
    <3>1. p \in MainApps => JobHasSet(jobs[t], p)
      BY <1>0, <1>1, OpsAre DEF JobInvOf
    <3>2. p \in MainApps => shown[p].state # "unknown"
      BY <1>1, <3>1 DEF JobHasSet
    <3> QED
      BY <1>a, <3>2, KnownWhenRestful
  <2> QED
    BY <1>a, <2>2, <2>3 DEF TrueOf, KnownIf
<1>2. CASE jobs[t].op # "remove" /\ IsUpdate(jobs[t], p)
  <2>1. Begun(t, p) = UpdateStarts(shown[p])
    BY <1>2 DEF Begun
  <2>2. p \in deployed
    BY <1>0, <1>2, OpsAre DEF IsUpdate
  <2>3. p \notin overtaken => TrueOf(shown[p], TRUE)
    BY <1>a, <2>2
  <2> QED
    BY <1>a, <2>1, <2>2, <2>3, UpdateOf
<1>3. CASE jobs[t].op # "remove" /\ ~IsUpdate(jobs[t], p)
  <2> DEFINE known == IF shown[p].state = "unknown" THEN SetState(shown[p], "available") ELSE shown[p]
  <2>1. Begun(t, p) = SetState(known, "installing")
    BY <1>3 DEF Begun
  <2>2. p \notin deployed
    BY <1>0, <1>3 DEF IsUpdate, Ops
  <2>3. /\ Fit(known) /\ (p \notin overtaken => TrueOf(known, p \in deployed))
        /\ (p \in MainApps => known.recover # "unknown")
    <3>1. CASE shown[p].state = "unknown"
      <4>1. Fit(SetState(shown[p], "available")) /\ SetState(shown[p], "available").recover = "available"
        BY <1>a, SetIs, StateNames
      <4> QED
        BY <2>2, <3>1, <4>1 DEF TrueOf
    <3>2. CASE shown[p].state # "unknown"
      BY <1>a, <3>2, KnownWhenRestful
    <3> QED
      BY <3>1, <3>2
  <2> HIDE DEF known
  <2>4. Fit(Begun(t, p)) /\ Begun(t, p).recover = known.recover
    BY <1>b, <2>1, <2>3, SetToTransient
  <2> QED
    BY <2>3, <2>4 DEF TrueOf, KnownIf
<1> QED
  BY <1>1, <1>2, <1>3

LEMMA NewOperationWell ==
    ASSUME AppInv, RefTypes, FlatpakTypes, NEW t \in JobThreads, JobInvOf(t), NewOperation(t)
    PROVE  AppInv' /\ JobInvOf(t)' /\ Keeps(t)
<1> DEFINE old == jobs[t]
<1>0. old \in FlatpakJob
  BY ListIsOfRefs
<1>a. old.stage = "run" /\ old.at = NoRef /\ UNCHANGED <<refVars, listVars>> /\ UNCHANGED <<deployed, overtaken>>
  BY DEF NewOperation, refVars, listVars
<1>b. PICK p \in old.todo : /\ Put(t, [old EXCEPT !.at = p, !.todo = @ \ {p}])
                            /\ shown' = [shown EXCEPT ![p] = Begun(t, p)]
  BY DEF NewOperation, Begun
<1>c. p \in old.ops /\ p \in Refs /\ (p \notin old.list => p = Runtime)
  BY OpsAre
<1> DEFINE job == [old EXCEPT !.at = p, !.todo = @ \ {p}]
<1>1. job \in FlatpakJob
  BY <1>0, <1>c DEF FlatpakJob
<1>2. job.stage = "run" /\ job.op = old.op /\ job.list = old.list /\ job.ops = old.ops /\ job.todo = old.todo \ {p} /\ job.at = p
  BY <1>0, <1>a DEF FlatpakJob
<1>3. jobs'[t] = job /\ Puts(t)
  BY <1>b, <1>1 DEF Put, Puts, FlatpakTypes
<1> HIDE DEF job
<1>4. shown'[p] = Begun(t, p) /\ \A q \in Refs \ {p} : shown'[q] = shown[q]
  BY <1>b, <1>c DEF AppInv
<1>5. AppInv'
  <2>1. DOMAIN shown' = Refs /\ shown' = [q \in Refs |-> shown'[q]]
    BY <1>b DEF AppInv
  <2>2. Fit(shown'[p]) /\ (p \notin overtaken => TrueOf(shown'[p], p \in deployed)) /\ (p \in MainApps => KnownIf(shown'[p]))
    BY <1>4, <1>a, BegunIs
  <2> QED
    BY <1>4, <1>a, <2>1, <2>2, AppsFit
<1>6. Keeps(t)
  <2>1. KeepsApps(t)
    BY <1>c, <1>4, RefsAre DEF KeepsApps
  <2> QED
    BY <1>2, <1>3, <1>a, <2>1, SameRefs DEF Keeps, LetsGo
<1>7. JobShape(jobs[t])'
  BY <1>2, <1>3, <1>c DEF JobInvOf, JobShape
<1>8. JobIsOfRefs(jobs[t])'
  BY <1>2, <1>3, <1>a DEF JobInvOf, JobIsOfRefs
<1>9. ASSUME NEW q \in jobs'[t].list \intersect MainApps PROVE JobHasSet(jobs[t], q)'
  <2>1. q \in Refs /\ q # NoRef /\ JobHasSet(old, q)
    BY <1>2, <1>3, RefsAre DEF JobInvOf
  <2>2. CASE q = p
    BY <1>2, <1>3, <2>2 DEF JobHasSet
  <2>3. CASE q # p
    BY <1>2, <1>3, <1>4, <1>a, <2>1, <2>3 DEF JobHasSet, Busy
  <2> QED
    BY <2>2, <2>3
<1> QED
  BY <1>5, <1>6, <1>7, <1>8, <1>9 DEF JobInvOf

LEMMA OperationSkippedWell ==
    ASSUME AppInv, RefTypes, FlatpakTypes, NEW t \in JobThreads, JobInvOf(t), OperationSkipped(t)
    PROVE  AppInv' /\ JobInvOf(t)' /\ Keeps(t)
<1> DEFINE old == jobs[t]
           job == [old EXCEPT !.at = NoRef]
<1>0. old \in FlatpakJob
  BY ListIsOfRefs
<1>a. old.at \notin old.list \union {NoRef} /\ Put(t, job) /\ UNCHANGED <<shown, refVars, listVars>>
      /\ UNCHANGED <<deployed, overtaken>>
  BY DEF OperationSkipped, refVars, listVars
<1>1. job \in FlatpakJob
  BY <1>0 DEF FlatpakJob
<1>2. job.stage = old.stage /\ job.op = old.op /\ job.list = old.list /\ job.ops = old.ops /\ job.todo = old.todo /\ job.at = NoRef
  BY <1>0 DEF FlatpakJob
<1>3. jobs'[t] = job /\ Puts(t)
  BY <1>a, <1>1 DEF Put, Puts, FlatpakTypes
<1> HIDE DEF job
<1>4. Keeps(t)
  BY <1>2, <1>3, <1>a, SameRefs DEF Keeps, KeepsApps, LetsGo
<1>5. JobShape(jobs[t])'
  BY <1>2, <1>3, ListIsOfRefs, RefsAre DEF JobInvOf, JobShape
<1>6. JobIsOfRefs(jobs[t])'
  BY <1>2, <1>3, <1>a DEF JobInvOf, JobIsOfRefs
<1>7. ASSUME NEW q \in jobs'[t].list \intersect MainApps PROVE JobHasSet(jobs[t], q)'
  <2>1. q # old.at /\ JobHasSet(old, q)
    BY <1>2, <1>3, <1>a DEF JobInvOf
  <2> QED
    BY <1>2, <1>3, <1>a, <2>1 DEF JobHasSet, Busy
<1>8. AppInv'
  BY <1>a, AppsSame
<1> QED
  BY <1>4, <1>5, <1>6, <1>7, <1>8 DEF JobInvOf

LEMMA OperationDoneWell ==
    ASSUME AppInv, RefTypes, FlatpakTypes, NEW t \in JobThreads, JobInvOf(t), OperationDone(t)
    PROVE  AppInv' /\ JobInvOf(t)' /\ Keeps(t)
<1> DEFINE old == jobs[t]
           p == old.at
           job == [old EXCEPT !.at = NoRef]
           skipped == SkippedRelated(old, p)
           done == Done(old, p)
<1>0. old \in FlatpakJob /\ old.op \in Ops
  BY ListIsOfRefs DEF FlatpakJob
<1>a. /\ p # NoRef /\ Put(t, job) /\ UNCHANGED listVars /\ overtaken' = overtaken
      /\ shown' = [AllTo(skipped, "installed") EXCEPT ![p] = SetState(shown[p], done)]
      /\ deployed' = (CASE old.op = "remove" -> deployed \ {p} [] old.op = "download" -> deployed [] OTHER -> deployed \union {p})
      /\ newer' = (IF old.op = "download" THEN newer ELSE newer \ {p})
  BY DEF OperationDone, listVars
<1>b. p \in old.ops /\ p \in Refs /\ (p \notin old.list => p = Runtime /\ old.op = "install") /\ p \notin old.todo
      /\ old.stage = "run" /\ (old.op \in {"update", "download"} => p \in deployed)
  <2>1. old.stage = "run"
    BY <1>a DEF JobInvOf, JobShape
  <2> QED
    BY <1>a, <2>1, OpsAre
<1>1. job \in FlatpakJob
  BY <1>0 DEF FlatpakJob
<1>2. job.stage = old.stage /\ job.op = old.op /\ job.list = old.list /\ job.ops = old.ops /\ job.todo = old.todo /\ job.at = NoRef
  BY <1>0 DEF FlatpakJob
<1>3. jobs'[t] = job /\ Puts(t)
  BY <1>a, <1>1 DEF Put, Puts, FlatpakTypes
<1>4. /\ skipped \subseteq MainApps \intersect old.list /\ p \notin skipped
      /\ \A q \in skipped : q \in deployed \union overtaken /\ old.op # "remove"
  <2>1. \A q \in skipped : q \in MainApps /\ q \in old.list /\ q \notin old.ops /\ old.op # "remove"
    BY DEF SkippedRelated
  <2>2. old.op = "install" => MainApps \intersect old.list \subseteq old.ops
    BY <1>b DEF JobInvOf, JobIsOfRefs
  <2>3. old.op \in {"update", "download"} => old.list \subseteq deployed \union overtaken
    BY DEF JobInvOf, JobIsOfRefs
  <2> QED
    BY <1>0, <1>b, <2>1, <2>2, <2>3 DEF Ops
<1>5. /\ \A q \in Refs \ {p} : q \in deployed' <=> q \in deployed
      /\ p \in deployed' <=> old.op # "remove"
      /\ deployed' \subseteq Refs
  <2>1. CASE old.op = "remove"
    BY <1>a, <2>1 DEF RefTypes
  <2>2. CASE old.op = "download"
    BY <1>a, <1>b, <2>2 DEF RefTypes
  <2>3. CASE old.op \notin {"remove", "download"}
    BY <1>a, <1>b, <2>3 DEF RefTypes
  <2> QED
    BY <2>1, <2>2, <2>3
<1>6. done = "unknown" <=> old.op = "remove"
  BY DEF Done
<1>7. done \in {"unknown", "installed", "updatable live"}
  BY DEF Done
<1> HIDE DEF job, skipped, done
<1>8. /\ shown'[p] = SetState(shown[p], done)
      /\ \A q \in Refs \ {p} : shown'[q] = IF q \in skipped THEN SetState(shown[q], "installed") ELSE shown[q]
      /\ DOMAIN shown' = Refs /\ shown' = [q \in Refs |-> shown'[q]]
  BY <1>a, <1>b DEF AllTo
<1>9. \A q \in Refs : Fit(shown[q]) /\ (q \notin overtaken => TrueOf(shown[q], q \in deployed)) /\ (q \in MainApps => KnownIf(shown[q]))
  BY DEF AppInv
<1>10. ASSUME NEW q \in Refs
       PROVE  Fit(shown'[q]) /\ (q \notin overtaken => TrueOf(shown'[q], q \in deployed')) /\ (q \in MainApps => KnownIf(shown'[q]))
  <2>1. CASE q = p
    <3>1. done \in States /\ done \notin Transient
      BY <1>7, StateNames
    <3>a. Fit(shown[p]) /\ done \in {"unknown", "installed", "available", "updatable live"}
      BY <1>7, <1>9, <1>b
    <3>b. Fit(SetState(shown[p], done)) /\ SetState(shown[p], done).state = done /\ SetState(shown[p], done).recover = done
      <4> HIDE DEF p
      <4> QED
        BY <3>a, SetToStable
    <3>2. Fit(shown'[q]) /\ shown'[q].state = done /\ shown'[q].recover = done
      BY <1>8, <2>1, <3>b
    <3> QED
      BY <1>5, <1>6, <1>7, <2>1, <3>1, <3>2 DEF TrueOf, KnownIf
  <2>2. CASE q \in skipped
    <3>1. q # p /\ shown'[q] = SetState(shown[q], "installed")
      BY <1>4, <1>8, <2>2
    <3>a. Fit(shown[q])
      BY <1>9
    <3>b. /\ Fit(SetState(shown[q], "installed")) /\ SetState(shown[q], "installed").state = "installed"
          /\ SetState(shown[q], "installed").recover = "installed"
      BY <3>a, SetToStable
    <3>2. Fit(shown'[q]) /\ shown'[q].state = "installed" /\ shown'[q].recover = "installed"
      BY <3>1, <3>b
    <3>3. q \in overtaken \/ q \in deployed'
      BY <1>4, <1>5, <2>2, <3>1
    <3> QED
      BY <3>2, <3>3, StateNames DEF TrueOf, KnownIf
  <2>3. CASE q # p /\ q \notin skipped
    BY <1>5, <1>8, <1>9, <2>3
  <2> QED
    BY <2>1, <2>2, <2>3
<1>11. AppInv'
  <2>1. \A q \in Refs : shown'[q] \in GsApp
    BY <1>10 DEF Fit
  <2>2. shown' \in [Refs -> GsApp]
    BY <1>8, <2>1
  <2> QED
    BY <1>10, <1>a, <2>2, RefsAre DEF AppInv
<1>12. KeepsRefs(t)
  <2>1. newer' \subseteq deployed'
    <3>1. CASE old.op = "download"
      BY <1>a, <3>1 DEF RefTypes
    <3>2. CASE old.op # "download"
      BY <1>a, <1>5, <3>2 DEF RefTypes
    <3> QED
      BY <3>1, <3>2
  <2>2. deployed \ deployed' \subseteq old.list
    BY <1>5, <1>b DEF RefTypes
  <2>3. \A q \in MainApps \ old.list : q \in deployed' => q \in deployed
    BY <1>5, <1>b, RefsAre
  <2> QED
    BY <1>5, <2>1, <2>2, <2>3 DEF KeepsRefs
<1>13. Keeps(t)
  <2>1. KeepsApps(t)
    BY <1>4, <1>8, <1>b, RefsAre DEF KeepsApps
  <2> QED
    BY <1>2, <1>3, <1>12, <1>a, <2>1 DEF Keeps, LetsGo
<1>14. JobShape(jobs[t])'
  BY <1>2, <1>3, ListIsOfRefs, RefsAre DEF JobInvOf, JobShape
<1>15. JobIsOfRefs(jobs[t])'
  <2>1. JobIsOfRefs(old)
    BY DEF JobInvOf
  <2>2. old.op # "remove" => deployed \subseteq deployed'
    BY <1>5 DEF RefTypes
  <2> QED
    BY <1>2, <1>3, <1>a, <1>b, <2>1, <2>2 DEF JobIsOfRefs
<1>16. ASSUME NEW q \in jobs'[t].list \intersect MainApps PROVE JobHasSet(jobs[t], q)'
  <2>1. q \in Refs /\ JobHasSet(old, q)
    BY <1>2, <1>3, RefsAre DEF JobInvOf
  <2>2. CASE q = p
    <3>a. Fit(shown[p]) /\ done \in {"unknown", "installed", "available", "updatable live"}
      BY <1>7, <1>9, <1>b
    <3>b. SetState(shown[p], done).state = done
      <4> HIDE DEF p
      <4> QED
        BY <3>a, SetToStable
    <3>1. shown'[q].state = done
      BY <1>8, <2>2, <3>b
    <3>2. ~Busy(q)'
      BY <1>7, <3>1 DEF Busy
    <3> QED
      BY <1>2, <1>3, <1>b, <2>2, <3>2 DEF JobHasSet
  <2>3. CASE q \in skipped
    <3>a. Fit(shown[q]) /\ shown'[q] = SetState(shown[q], "installed")
      BY <1>4, <1>8, <1>9, <2>1, <2>3
    <3>1. shown'[q].state = "installed"
      BY <3>a, SetToStable
    <3> QED
      BY <1>2, <1>3, <1>b, <3>1 DEF JobHasSet, Busy
  <2>4. CASE q # p /\ q \notin skipped
    <3>1. shown'[q] = shown[q]
      BY <1>8, <2>1, <2>4
    <3> QED
      BY <1>2, <1>3, <1>b, <2>1, <2>4, <3>1 DEF JobHasSet, Busy
  <2> QED
    BY <2>2, <2>3, <2>4
<1> QED
  BY <1>11, <1>13, <1>14, <1>15, <1>16 DEF JobInvOf
(* A transaction that fails brings the apps of the job back to rest, and     *)
(* those of its operations.                                                  *)
LEMMA FailureIs ==
    ASSUME AppInv, RefTypes, FlatpakTypes, NEW t \in JobThreads, JobInvOf(t), jobs[t].stage \in {"ready", "run"},
           NEW ops \in Resolved(jobs[t]), NEW known, NEW p \in Refs
    PROVE  LET after == AfterFailure(jobs[t], ops, known)[p]
           IN  /\ Fit(after) /\ (p \notin overtaken => TrueOf(after, p \in deployed)) /\ (p \in MainApps => KnownIf(after))
               /\ p \in MainApps \ jobs[t].list => after = shown[p]
               /\ p \in MainApps \intersect jobs[t].list => after.state \notin {"installing", "removing"}
<1> DEFINE old == jobs[t]
           after == AfterFailure(old, ops, known)[p]
<1>0. old \in FlatpakJob /\ old.list \in SUBSET Refs /\ old.op \in Ops
  BY ListIsOfRefs DEF FlatpakJob
<1>c. /\ \A q \in ops : q \in old.list \/ q = Runtime
      /\ ops \subseteq Refs
  <2>1. CASE old.stage = "run"
    BY <2>1, OpsAre DEF Resolved
  <2>2. CASE old.stage # "run"
    BY <1>0, <2>2, NecessaryIs DEF Resolved
  <2> QED
    BY <2>1, <2>2
<1>1. Fit(shown[p]) /\ (p \notin overtaken => TrueOf(shown[p], p \in deployed)) /\ (p \in MainApps => KnownIf(shown[p]))
  BY DEF AppInv
<1>2. after = IF p \notin Recovered(old, ops) THEN shown[p]
              ELSE SetStateRecover(IF p \in ops /\ old.stage = "ready" THEN AppOf(known, p) ELSE shown[p])
  BY DEF AfterFailure
<1> HIDE DEF after, old
<1>3. CASE p \in Recovered(old, ops)
  <2>1. PICK app : /\ Fit(app) /\ (p \notin overtaken => TrueOf(app, p \in deployed)) /\ (p \in MainApps => KnownIf(app))
                   /\ after = SetStateRecover(app)
    <3>1. CASE p \in ops /\ old.stage = "ready"
      BY <1>2, <1>3, <3>1, AppOfIs
    <3>2. CASE ~(p \in ops /\ old.stage = "ready")
      BY <1>1, <1>2, <1>3, <3>2
    <3> QED
      BY <3>1, <3>2
  <2>2. /\ Fit(after) /\ after.recover = app.recover
        /\ app.recover # "unknown" => after.state = app.recover
        /\ app.recover = "unknown" => after = app
    BY <2>1, RecoveredIs
  <2>3. app.recover \notin Transient
    BY <2>1 DEF Fit, AtRest
  <2>4. p \in MainApps => after.state \notin Transient
    BY <2>1, <2>2, <2>3 DEF KnownIf
  <2>5. p \in MainApps => p \in old.list
    BY <1>0, <1>3, <1>c, RefsAre DEF Recovered, Added
  <2>6. /\ Fit(after) /\ (p \notin overtaken => TrueOf(after, p \in deployed)) /\ (p \in MainApps => KnownIf(after))
        /\ p \in MainApps => after.state \notin {"installing", "removing"}
    BY <2>1, <2>2, <2>4 DEF TrueOf, KnownIf, Transient
  <2> QED
    BY <2>5, <2>6 DEF after, old
<1>4. CASE p \notin Recovered(old, ops)
  <2>1. after = shown[p]
    BY <1>2, <1>4
  <2>2. ASSUME p \in MainApps \intersect old.list PROVE shown[p].state \notin {"installing", "removing"}
    <3>1. old.op = "download" /\ p \notin ops
      BY <1>0, <1>4, <2>2 DEF Recovered, Added
    <3>2. JobHasSet(old, p) /\ JobShape(old)
      BY <2>2 DEF JobInvOf, old
    <3>3. CASE old.stage = "ready"
      BY <3>1, <3>2, <3>3 DEF JobHasSet, Busy
    <3>4. CASE old.stage = "run"
      <4>1. p \notin old.ops /\ p \notin old.todo /\ p # old.at
        BY <3>1, <3>2, <3>4, RefsAre DEF JobShape, Resolved, old
      <4> QED
        BY <3>1, <3>2, <3>4, <4>1 DEF JobHasSet, Busy
    <3> QED
      BY <3>3, <3>4 DEF old
  <2> QED
    BY <1>1, <2>1, <2>2 DEF after, old
<1> QED
  BY <1>3, <1>4

LEMMA RunFailsWell ==
    ASSUME AppInv, RefTypes, FlatpakTypes, NEW t \in JobThreads, JobInvOf(t), RunFails(t)
    PROVE  AppInv' /\ JobInvOf(t)' /\ Keeps(t)
<1>1. /\ jobs[t].stage \in {"ready", "run"} /\ EndJob(t)
      /\ UNCHANGED <<refVars, listVars>> /\ UNCHANGED <<deployed, overtaken>>
  BY DEF RunFails, refVars, listVars
<1>2. PICK ops \in Resolved(jobs[t]), known \in Known(jobs[t]) : shown' = AfterFailure(jobs[t], ops, known)
  BY DEF RunFails
<1>3. DOMAIN shown' = Refs /\ shown' = [p \in Refs |-> shown'[p]]
  BY <1>2 DEF AfterFailure
<1>4. \A p \in Refs :
        /\ Fit(shown'[p]) /\ (p \notin overtaken => TrueOf(shown'[p], p \in deployed)) /\ (p \in MainApps => KnownIf(shown'[p]))
        /\ p \in MainApps \ jobs[t].list => shown'[p] = shown[p]
        /\ p \in MainApps \intersect jobs[t].list => shown'[p].state \notin {"installing", "removing"}
  BY <1>1, <1>2, FailureIs
<1>5. AppInv'
  BY <1>1, <1>3, <1>4, AppsFit
<1>6. KeepsApps(t)
  BY <1>4, RefsAre DEF KeepsApps
<1>7. \A p \in MainApps \intersect jobs[t].list : ~Busy(p)'
  BY <1>4, RefsAre DEF Busy
<1> QED
  BY <1>1, <1>5, <1>6, <1>7, EndKeeps

(* One that finds the app installed leaves it to be looked up.               *)
LEMMA RunFindsInstalledWell ==
    ASSUME AppInv, RefTypes, FlatpakTypes, NEW t \in JobThreads, JobInvOf(t), RunFindsInstalled(t)
    PROVE  AppInv' /\ JobInvOf(t)' /\ Keeps(t)
<1> DEFINE old == jobs[t]
           job == [old EXCEPT !.stage = "refresh", !.todo = {}, !.ops = {}, !.at = NoRef]
<1>0. old \in FlatpakJob /\ old.list \in SUBSET Refs
  BY ListIsOfRefs DEF FlatpakJob
<1>1. /\ old.stage \in {"ready", "run"} /\ old.op = "install" /\ Put(t, job)
      /\ UNCHANGED <<refVars, listVars>> /\ UNCHANGED <<deployed, overtaken>>
  BY DEF RunFindsInstalled, refVars, listVars
<1>2. PICK ops \in Resolved(old), known \in Known(old) :
        shown' = [p \in Refs |-> IF p \in Added(old) THEN SetState(AfterFailure(old, ops, known)[p], "unknown")
                                                     ELSE AfterFailure(old, ops, known)[p]]
  BY DEF RunFindsInstalled
<1>3. DOMAIN shown' = Refs /\ shown' = [p \in Refs |-> shown'[p]]
  BY <1>2
<1>4. Added(old) = old.list \intersect MainApps
  BY <1>1 DEF Added
<1>5. ASSUME NEW p \in Refs
      PROVE  /\ Fit(shown'[p]) /\ (p \notin overtaken => TrueOf(shown'[p], p \in deployed)) /\ (p \in MainApps => KnownIf(shown'[p]))
             /\ p \in MainApps \ old.list => shown'[p] = shown[p]
             /\ p \in MainApps \intersect old.list => shown'[p].state \notin {"installing", "removing"}
  <2> DEFINE after == AfterFailure(old, ops, known)[p]
  <2>1. /\ Fit(after) /\ (p \notin overtaken => TrueOf(after, p \in deployed)) /\ (p \in MainApps => KnownIf(after))
        /\ p \in MainApps \ old.list => after = shown[p]
        /\ p \in MainApps \intersect old.list => after.state \notin {"installing", "removing"}
    BY <1>1, FailureIs
  <2>2. shown'[p] = IF p \in Added(old) THEN SetState(after, "unknown") ELSE after
    BY <1>2
  <2> HIDE DEF after
  <2>3. Fit(SetState(after, "unknown")) /\ SetState(after, "unknown").state = "unknown" /\ SetState(after, "unknown").recover = "unknown"
    BY <2>1, SetToUnknown
  <2> QED
    BY <1>4, <2>1, <2>2, <2>3, StateNames DEF TrueOf, KnownIf
<1>6. AppInv'
  BY <1>1, <1>3, <1>5, AppsFit
<1>7. job \in FlatpakJob /\ job.stage = "refresh" /\ job.op = old.op /\ job.list = old.list
      /\ job.ops = {} /\ job.todo = {} /\ job.at = NoRef
  BY <1>0 DEF FlatpakJob
<1>8. jobs'[t] = job /\ Puts(t)
  BY <1>1, <1>7 DEF Put, Puts, FlatpakTypes
<1> HIDE DEF job
<1>9. \A p \in MainApps \intersect old.list : ~Busy(p)'
  BY <1>5, RefsAre DEF Busy
<1>10. JobInvOf(t)'
  <2>1. JobShape(jobs[t])'
    BY <1>7, <1>8 DEF JobShape
  <2>2. JobIsOfRefs(jobs[t])'
    BY <1>1, <1>7, <1>8 DEF JobInvOf, JobIsOfRefs
  <2>3. \A p \in jobs'[t].list \intersect MainApps : JobHasSet(jobs[t], p)'
    BY <1>7, <1>8, <1>9 DEF JobHasSet, Busy
  <2> QED
    BY <2>1, <2>2, <2>3 DEF JobInvOf
<1>11. Keeps(t)
  <2>1. KeepsApps(t)
    BY <1>5, RefsAre DEF KeepsApps
  <2> QED
    BY <1>1, <1>7, <1>8, <2>1, SameRefs DEF Keeps, LetsGo
<1> QED
  BY <1>6, <1>10, <1>11

LEMMA RunEndsWell ==
    ASSUME AppInv, RefTypes, FlatpakTypes, NEW t \in JobThreads, JobInvOf(t), RunEnds(t)
    PROVE  AppInv' /\ JobInvOf(t)' /\ Keeps(t)
<1> DEFINE old == jobs[t]
           job == [old EXCEPT !.stage = "refresh", !.ops = {}]
<1>0. old \in FlatpakJob /\ old.list \in SUBSET Refs /\ old.op \in Ops
  BY ListIsOfRefs DEF FlatpakJob
<1>a. /\ old.stage = "run" /\ old.todo = {} /\ old.at = NoRef /\ UNCHANGED <<refVars, listVars>> /\ UNCHANGED <<deployed, overtaken>>
      /\ shown' = IF old.op = "update" THEN AllTo(old.list, "unknown") ELSE shown
      /\ IF old.op = "download" THEN EndJob(t) ELSE Put(t, job)
  BY DEF RunEnds, refVars, listVars
<1>1. AppInv' /\ KeepsApps(t) /\ \A p \in MainApps \intersect old.list : ~Busy(p)'
  <2>1. CASE old.op = "update"
    <3>1. shown' = AllTo(old.list, "unknown")
      BY <1>a, <2>1
    <3>2. AppInv' /\ \A p \in Refs : IF p \in old.list THEN shown'[p].state = "unknown" ELSE shown'[p] = shown[p]
      BY <1>0, <1>a, <3>1, AllToUnknown
    <3> QED
      BY <3>2, RefsAre DEF KeepsApps, Busy
  <2>2. CASE old.op # "update"
    <3>1. UNCHANGED shown
      BY <1>a, <2>2
    <3>2. AppInv'
      BY <1>a, <3>1, AppsSame
    <3>3. ASSUME NEW p \in MainApps \intersect old.list PROVE ~Busy(p)
      <4>1. JobHasSet(old, p) /\ JobIsOfRefs(old) /\ p # NoRef
        BY RefsAre DEF JobInvOf
      <4>2. p \in old.ops \/ old.op = "download"
        BY <1>0, <1>a, <2>2, <4>1 DEF JobIsOfRefs, Ops
      <4> QED
        BY <1>a, <4>1, <4>2 DEF JobHasSet
    <3> QED
      BY <3>1, <3>2, <3>3 DEF KeepsApps, Busy
  <2> QED
    BY <2>1, <2>2
<1>2. CASE old.op = "download"
  BY <1>1, <1>2, <1>a, EndKeeps
<1>3. CASE old.op # "download"
  <2>1. job \in FlatpakJob
    BY <1>0 DEF FlatpakJob
  <2>2. job.stage = "refresh" /\ job.op = old.op /\ job.list = old.list /\ job.ops = {} /\ job.todo = {} /\ job.at = NoRef
    BY <1>0, <1>a DEF FlatpakJob
  <2>3. jobs'[t] = job /\ Puts(t)
    BY <1>a, <1>3, <2>1 DEF Put, Puts, FlatpakTypes
  <2> HIDE DEF job
  <2>4. Keeps(t)
    BY <1>1, <1>a, <2>2, <2>3, SameRefs DEF Keeps, LetsGo
  <2>5. JobShape(jobs[t])'
    BY <2>2, <2>3 DEF JobShape
  <2>6. JobIsOfRefs(jobs[t])'
    BY <1>a, <2>2, <2>3 DEF JobInvOf, JobIsOfRefs
  <2>7. ASSUME NEW p \in jobs'[t].list \intersect MainApps PROVE JobHasSet(jobs[t], p)'
    BY <1>1, <2>2, <2>3, <2>7 DEF JobHasSet
  <2> QED
    BY <1>1, <2>4, <2>5, <2>6, <2>7 DEF JobInvOf
<1> QED
  BY <1>2, <1>3
-----------------------------------------------------------------------------
(* The end of a job.                                                         *)
LEMMA RefreshEndsWell ==
    ASSUME AppInv, RefTypes, FlatpakTypes, NEW t \in JobThreads, JobInvOf(t), RefreshEnds(t)
    PROVE  AppInv' /\ JobInvOf(t)' /\ Keeps(t)
<1>1. /\ jobs[t].stage = "refresh"
      /\ EndJob(t) \/ Put(t, [jobs[t] EXCEPT !.stage = "refine"])
      /\ UNCHANGED <<shown, refVars, listVars>> /\ UNCHANGED <<deployed, overtaken>>
  BY DEF RefreshEnds, refVars, listVars
<1>2. AppInv' /\ KeepsApps(t) /\ \A p \in MainApps \intersect jobs[t].list : ~Busy(p)'
  BY <1>1, AppsSame DEF KeepsApps, Busy, JobInvOf, JobHasSet
<1>3. "refine" \in JobStages \ {"run", "idle"} /\ "refine" # "prepare" /\ "refine" # "ready"
  BY DEF JobStages
<1> QED
  BY <1>1, <1>2, <1>3, EndKeeps, StageKeeps

(* An app that was looked up is what its ref is.                             *)
LEMMA LookedUpIs ==
    ASSUME NEW app, Fit(app), NEW installed \in BOOLEAN
    PROVE  LET s == IF installed THEN "installed" ELSE "available"
           IN  /\ Fit(SetState(app, s)) /\ TrueOf(SetState(app, s), installed) /\ KnownIf(SetState(app, s))
               /\ SetState(app, s).state = s
<1>1. CASE installed
  BY <1>1, SetToStable DEF TrueOf, KnownIf, Transient
<1>2. CASE ~installed
  BY <1>2, SetToStable DEF TrueOf, KnownIf, Transient
<1> QED
  BY <1>1, <1>2

LEMMA RefineEndsWell ==
    ASSUME AppInv, RefTypes, FlatpakTypes, NEW t \in JobThreads, JobInvOf(t), RefineEnds(t)
    PROVE  AppInv' /\ JobInvOf(t)' /\ Keeps(t)
<1> DEFINE ps == IF jobs[t].op = "update" THEN jobs[t].list ELSE jobs[t].list \intersect MainApps
<1>1. /\ jobs[t].stage = "refine" /\ shown' = LookedUp(ps)
      /\ EndJob(t) \/ Put(t, [jobs[t] EXCEPT !.stage = "addons"])
      /\ UNCHANGED <<refVars, listVars>> /\ UNCHANGED <<deployed, overtaken>>
  BY DEF RefineEnds, refVars, listVars
<1>2. ps \subseteq jobs[t].list /\ ps \subseteq Refs
  BY ListIsOfRefs
<1> HIDE DEF ps
<1>3. ASSUME NEW p \in Refs
      PROVE  \/ shown'[p] = shown[p]
             \/ /\ p \in ps
                /\ Fit(shown'[p]) /\ (p \notin overtaken => TrueOf(shown'[p], p \in deployed)) /\ (p \in MainApps => KnownIf(shown'[p]))
                /\ ~Busy(p)'
  <2>1. CASE p \notin ps \/ shown[p].state # "unknown"
    BY <1>1, <2>1 DEF LookedUp
  <2>2. CASE ~(p \notin ps \/ shown[p].state # "unknown")
    <3>1. shown'[p] = SetState(shown[p], IF p \in deployed THEN "installed" ELSE "available")
      BY <1>1, <2>2 DEF LookedUp
    <3>2. Fit(shown[p]) /\ (p \in deployed) \in BOOLEAN
      BY DEF AppInv
    <3>3. /\ Fit(shown'[p]) /\ TrueOf(shown'[p], p \in deployed) /\ KnownIf(shown'[p])
          /\ shown'[p].state = IF p \in deployed THEN "installed" ELSE "available"
      BY <3>1, <3>2, LookedUpIs
    <3> QED
      BY <2>2, <3>3 DEF Busy
  <2> QED
    BY <2>1, <2>2
<1>4. AppInv'
  <2>1. DOMAIN shown' = Refs /\ shown' = [p \in Refs |-> shown'[p]]
    BY <1>1 DEF LookedUp
  <2> QED
    BY <1>1, <1>3, <2>1, AppsFit
<1>5. KeepsApps(t)
  BY <1>2, <1>3, RefsAre DEF KeepsApps
<1>6. ASSUME NEW p \in MainApps \intersect jobs[t].list PROVE ~Busy(p)'
  <2>1. p \in Refs /\ ~Busy(p)
    BY <1>1, RefsAre DEF JobInvOf, JobHasSet
  <2> QED
    BY <1>3, <2>1 DEF Busy
<1>7. "addons" \in JobStages \ {"run", "idle"} /\ "addons" # "prepare" /\ "addons" # "ready"
  BY DEF JobStages
<1> QED
  BY <1>1, <1>4, <1>5, <1>6, <1>7, EndKeeps, StageKeeps

LEMMA AddonsEndWell ==
    ASSUME AppInv, RefTypes, FlatpakTypes, NEW t \in JobThreads, JobInvOf(t), AddonsEnd(t)
    PROVE  AppInv' /\ JobInvOf(t)' /\ Keeps(t)
<1> DEFINE stays == IF jobs[t].op = "remove" THEN "removing" ELSE "installing"
<1>1. /\ jobs[t].stage = "addons" /\ EndJob(t)
      /\ shown' = [p \in Refs |-> IF p \in Extensions /\ shown[p].state = stays
                                  THEN SetState(shown[p], IF p \in deployed THEN "installed" ELSE "available") ELSE shown[p]]
      /\ UNCHANGED <<refVars, listVars>> /\ UNCHANGED <<deployed, overtaken>>
  BY DEF AddonsEnd, refVars, listVars
<1> HIDE DEF stays
<1>3. ASSUME NEW p \in Refs
      PROVE  \/ shown'[p] = shown[p]
             \/ /\ p \notin MainApps
                /\ Fit(shown'[p]) /\ (p \notin overtaken => TrueOf(shown'[p], p \in deployed)) /\ (p \in MainApps => KnownIf(shown'[p]))
  <2>1. CASE ~(p \in Extensions /\ shown[p].state = stays)
    BY <1>1, <2>1
  <2>2. CASE p \in Extensions /\ shown[p].state = stays
    <3>1. shown'[p] = SetState(shown[p], IF p \in deployed THEN "installed" ELSE "available") /\ p \notin MainApps
      BY <1>1, <2>2, RefsAre
    <3>2. Fit(shown[p]) /\ (p \in deployed) \in BOOLEAN
      BY DEF AppInv
    <3>3. Fit(shown'[p]) /\ TrueOf(shown'[p], p \in deployed) /\ KnownIf(shown'[p])
      BY <3>1, <3>2, LookedUpIs
    <3> QED
      BY <3>1, <3>3
  <2> QED
    BY <2>1, <2>2
<1>4. AppInv'
  <2>1. DOMAIN shown' = Refs /\ shown' = [p \in Refs |-> shown'[p]]
    BY <1>1
  <2> QED
    BY <1>1, <1>3, <2>1, AppsFit
<1>5. \A p \in MainApps : shown'[p] = shown[p]
  BY <1>3, RefsAre
<1>6. \A p \in MainApps \intersect jobs[t].list : ~Busy(p)'
  BY <1>1, <1>5 DEF JobInvOf, JobHasSet, Busy
<1> QED
  BY <1>1, <1>4, <1>5, <1>6, EndKeeps DEF KeepsApps
LEMMA JobStepWell ==
    ASSUME AppInv, RefTypes, FlatpakTypes, NEW t \in JobThreads, JobInvOf(t), JobStep(t)
    PROVE  AppInv' /\ JobInvOf(t)' /\ Keeps(t)
BY InstallPreparesWell, BusyPreparesWell, DownloadPreparesWell, ReadyWell, NewOperationWell, OperationDoneWell,
   OperationSkippedWell, RunFailsWell, RunFindsInstalledWell, RunEndsWell, RefreshEndsWell, RefineEndsWell, AddonsEndWell DEF JobStep
-----------------------------------------------------------------------------
(* The steps that are not of a job.                                          *)
StartsOn(op, list) ==
    /\ list # {} /\ \A p \in list : OnNobodysList(p)
    /\ CASE op = "install" ->
              \E a \in MainApps : /\ a \in list /\ list \subseteq {a} \union (Extensions \ deployed)
                                  /\ shown[a].state \in {"available", "queued"}
         [] op = "remove" ->
              \E a \in MainApps : /\ a \in deployed /\ shown[a].state \in {"installed", "updatable live"}
                                  /\ list = {a} \union {x \in Extensions : shown[x].state = "installed"}
         [] OTHER -> \A p \in list : shown[p].state = "updatable live"

\* What is shown as updatable was installed when it was looked at.
LEMMA UpdatableIsDeployed ==
    ASSUME AppInv, NEW p \in Refs, shown[p].state = "updatable live"
    PROVE  p \in deployed \union overtaken
BY StateNames DEF AppInv, Fit, AtRest, TrueOf

LEMMA StartsOnIs ==
    ASSUME AppInv, NEW op \in Ops, NEW list \in SUBSET Refs, StartsOn(op, list)
    PROVE  LET mains == list \intersect MainApps
           IN  /\ op = "install" => \A p, q \in mains : p = q
               /\ op \in {"update", "download"} => list \subseteq deployed \union overtaken
               /\ op = "remove" => mains \subseteq deployed
               /\ \A p \in mains : ~Busy(p) /\ shown[p].state # "unknown"
<1>1. CASE op = "install"
  <2>1. PICK a \in MainApps : /\ a \in list /\ list \subseteq {a} \union (Extensions \ deployed)
                              /\ shown[a].state \in {"available", "queued"}
    BY <1>1 DEF StartsOn
  <2>2. \A p \in list \intersect MainApps : p = a
    BY <2>1, RefsAre
  <2> QED
    BY <1>1, <2>1, <2>2 DEF Busy
<1>2. CASE op = "remove"
  <2>1. PICK a \in MainApps : /\ a \in deployed /\ shown[a].state \in {"installed", "updatable live"}
                              /\ list = {a} \union {x \in Extensions : shown[x].state = "installed"}
    BY <1>2 DEF StartsOn
  <2>2. \A p \in list \intersect MainApps : p = a
    BY <2>1, RefsAre
  <2> QED
    BY <1>2, <2>1, <2>2 DEF Busy
<1>3. CASE op \in {"update", "download"}
  <2>1. \A p \in list : shown[p].state = "updatable live"
    BY <1>3 DEF StartsOn
  <2> QED
    BY <1>3, <2>1, UpdatableIsDeployed DEF Busy
<1> QED
  BY <1>1, <1>2, <1>3 DEF Ops

LEMMA StartJobWell ==
    ASSUME AppInv, RefTypes, ListTypes, FlatpakJobsInv, NEW t \in JobThreads, StartJob(t)
    PROVE  FlatpakIInv'
<1>1. /\ jobs[t].stage = "idle" /\ activities < MaxActivities /\ activities' = activities + 1
      /\ UNCHANGED <<shown, deployed, newer, listing, overtaken>>
  BY DEF StartJob, Idle, refVars
<1>2. PICK op \in Ops, list \in SUBSET Refs :
        StartsOn(op, list) /\ Put(t, [IdleJob EXCEPT !.op = op, !.stage = "prepare", !.list = list])
  BY DEF StartJob, StartsOn
<1> DEFINE job == [IdleJob EXCEPT !.op = op, !.stage = "prepare", !.list = list]
<1>3. job \in FlatpakJob
  BY DEF IdleJob, FlatpakJob
<1>4. job.stage = "prepare" /\ job.op = op /\ job.list = list /\ job.ops = {} /\ job.todo = {} /\ job.at = NoRef
  BY DEF IdleJob
<1>5. FlatpakTypes' /\ jobs'[t] = job /\ \A s \in JobThreads \ {t} : jobs'[s] = jobs[s]
  BY <1>2, <1>3 DEF FlatpakJobsInv, FlatpakTypes, Put
<1> HIDE DEF job
<1>6. AppInv' /\ RefTypes'
  BY <1>1, AppsSame DEF RefTypes
<1>7. ListTypes'
  <2>1. activities \in 0..MaxActivities
    BY DEF ListTypes
  <2>2. activities + 1 \in 0..MaxActivities
    BY <1>1, <2>1, FlatpakAssumption
  <2> QED
    BY <1>1, <2>2 DEF ListTypes
<1>8. jobs[t].list = {} /\ \A s \in JobThreads : jobs[s].list \intersect list = {}
  <2>1. jobs[t].list = {}
    BY <1>1 DEF FlatpakJobsInv, JobInvOf, JobShape
  <2> QED
    BY <1>2, <2>1 DEF StartsOn, OnNobodysList
<1>9. ListsApart'
  <2> SUFFICES ASSUME NEW r \in JobThreads, NEW s \in JobThreads, r # s PROVE jobs'[r].list \intersect jobs'[s].list = {}
    BY DEF ListsApart
  <2>1. jobs[r].list \intersect jobs[s].list = {}
    BY DEF FlatpakJobsInv, ListsApart
  <2> QED
    BY <1>4, <1>5, <1>8, <2>1
<1>10. BusyIsListed'
  <2> SUFFICES ASSUME NEW p \in MainApps, Busy(p)' PROVE \E s \in JobThreads : p \in jobs'[s].list
    BY DEF BusyIsListed
  <2>1. PICK s \in JobThreads : p \in jobs[s].list
    BY <1>1 DEF FlatpakJobsInv, BusyIsListed, Busy
  <2> QED
    BY <1>5, <1>8, <2>1
<1>11. ASSUME NEW s \in JobThreads PROVE JobInvOf(s)'
  <2>1. CASE s = t
    <3>1. JobShape(jobs[s])'
      BY <1>4, <1>5, <2>1 DEF JobShape
    <3>2. /\ op = "install" => \A p, q \in list \intersect MainApps : p = q
          /\ op \in {"update", "download"} => list \subseteq deployed \union overtaken
          /\ op = "remove" => list \intersect MainApps \subseteq deployed
          /\ \A p \in list \intersect MainApps : ~Busy(p) /\ shown[p].state # "unknown"
      BY <1>2, StartsOnIs
    <3>3. JobIsOfRefs(jobs[s])'
      BY <1>1, <1>4, <1>5, <2>1, <3>2 DEF JobIsOfRefs
    <3>4. ASSUME NEW p \in jobs'[s].list \intersect MainApps PROVE JobHasSet(jobs[s], p)'
      BY <1>1, <1>4, <1>5, <2>1, <3>2 DEF JobHasSet, Busy
    <3> QED
      BY <3>1, <3>3, <3>4 DEF JobInvOf
  <2>2. CASE s # t
    <3>1. jobs'[s] = jobs[s] /\ JobInvOf(s)
      BY <1>5, <2>2 DEF FlatpakJobsInv
    <3> QED
      BY <1>1, <3>1 DEF JobInvOf, JobShape, JobIsOfRefs, JobHasSet, Busy
  <2> QED
    BY <2>1, <2>2
<1> QED
  BY <1>5, <1>6, <1>7, <1>9, <1>10, <1>11, FlatpakParts DEF FlatpakJobsInv

\* Nothing of the jobs depends on what else is shown, listed or published.
LEMMA JobsUntouched ==
    ASSUME FlatpakJobsInv, UNCHANGED <<jobs, deployed>>, overtaken \subseteq overtaken',
           \A p \in MainApps : shown'[p] = shown[p] \/ shown'[p].state \in {"installed", "updatable live"}
    PROVE  FlatpakJobsInv'
<1>1. FlatpakTypes' /\ ListsApart'
  BY DEF FlatpakJobsInv, FlatpakTypes, ListsApart
<1>2. BusyIsListed'
  BY DEF FlatpakJobsInv, BusyIsListed, Busy
<1>3. ASSUME NEW t \in JobThreads PROVE JobInvOf(t)'
  <2>1. JobInvOf(t) /\ jobs'[t] = jobs[t]
    BY DEF FlatpakJobsInv
  <2>2. JobShape(jobs[t])'
    BY <2>1 DEF JobInvOf, JobShape
  <2>3. JobIsOfRefs(jobs[t])'
    BY <2>1 DEF JobInvOf, JobIsOfRefs
  <2>4. ASSUME NEW p \in jobs'[t].list \intersect MainApps PROVE JobHasSet(jobs[t], p)'
    <3>1. JobHasSet(jobs[t], p)
      BY <2>1 DEF JobInvOf
    <3>2. CASE shown'[p] = shown[p]
      BY <2>1, <3>1, <3>2 DEF JobHasSet, Busy
    <3>3. CASE shown'[p].state \in {"installed", "updatable live"}
      BY <2>1, <3>1, <3>3 DEF JobHasSet, Busy
    <3> QED
      BY <3>2, <3>3
  <2> QED
    BY <2>2, <2>3, <2>4 DEF JobInvOf
<1> QED
  BY <1>1, <1>2, <1>3 DEF FlatpakJobsInv

LEMMA PublishWell ==
    ASSUME AppInv, RefTypes, ListTypes, FlatpakJobsInv, Publish
    PROVE  FlatpakIInv'
<1>1. UNCHANGED <<shown, deployed, jobs>> /\ UNCHANGED listVars
  BY DEF Publish
<1>2. RefTypes'
  BY DEF Publish, RefTypes
<1>3. AppInv' /\ ListTypes'
  BY <1>1, AppsSame DEF ListTypes, listVars
<1>4. FlatpakJobsInv'
  BY <1>1, JobsUntouched DEF listVars
<1> QED
  BY <1>2, <1>3, <1>4, FlatpakParts

LEMMA ListBeginsWell ==
    ASSUME AppInv, RefTypes, ListTypes, FlatpakJobsInv, ListBegins
    PROVE  FlatpakIInv'
<1>1. /\ UNCHANGED <<shown, deployed, newer, jobs, overtaken>> /\ activities < MaxActivities /\ activities' = activities + 1
      /\ listing' \in {[kind |-> "installed", refs |-> deployed], [kind |-> "updates", refs |-> newer]}
  BY DEF ListBegins, refVars
<1>2. AppInv' /\ RefTypes' /\ FlatpakJobsInv'
  BY <1>1, AppsSame, JobsUntouched DEF RefTypes
<1>3. ListTypes'
  <2>1. activities \in 0..MaxActivities
    BY DEF ListTypes
  <2>2. activities + 1 \in 0..MaxActivities
    BY <1>1, <2>1, FlatpakAssumption
  <2>3. newer \subseteq Refs /\ deployed \subseteq Refs
    BY DEF RefTypes
  <2> QED
    BY <1>1, <2>2, <2>3 DEF ListTypes
<1> QED
  BY <1>2, <1>3, FlatpakParts

LEMMA ListEndsWell ==
    ASSUME AppInv, RefTypes, ListTypes, FlatpakJobsInv, ListEnds
    PROVE  FlatpakIInv'
<1> DEFINE mains == IF listing.kind = "updates" /\ listing.refs \intersect Extensions # {} THEN MainApps \intersect deployed ELSE {}
<1>1. /\ UNCHANGED <<deployed, newer, jobs, activities>> /\ listing' = NoListing
      /\ overtaken' = overtaken \union (listing.refs \ deployed)
      /\ shown' = [p \in Refs |-> IF p \in listing.refs \union mains THEN Listed(shown[p], listing.kind) ELSE shown[p]]
  BY DEF ListEnds, refVars
<1>2. mains \subseteq deployed /\ listing.refs \subseteq Refs /\ overtaken \subseteq Refs
  BY DEF ListTypes
<1> HIDE DEF mains
<1>3. ASSUME NEW p \in Refs
      PROVE  /\ Fit(shown'[p]) /\ (p \notin overtaken' => TrueOf(shown'[p], p \in deployed)) /\ (p \in MainApps => KnownIf(shown'[p]))
             /\ shown'[p] = shown[p] \/ shown'[p].state \in {"installed", "updatable live"}
  <2>1. Fit(shown[p]) /\ (p \notin overtaken => TrueOf(shown[p], p \in deployed)) /\ (p \in MainApps => KnownIf(shown[p]))
    BY DEF AppInv
  <2>2. CASE p \notin listing.refs \union mains
    BY <1>1, <2>1, <2>2
  <2>3. CASE p \in listing.refs \union mains
    <3>1. shown'[p] = Listed(shown[p], listing.kind)
      BY <1>1, <2>3
    <3>2. /\ Fit(shown'[p]) /\ shown'[p].state \in {"installed", "updatable live"}
          /\ shown'[p].recover \in {"installed", "updatable live"}
      BY <2>1, <3>1, ListedIs
    <3>3. p \notin overtaken' => p \in deployed
      BY <1>1, <1>2, <2>3
    <3> QED
      BY <3>2, <3>3, StateNames DEF TrueOf, KnownIf
  <2> QED
    BY <2>2, <2>3
<1>4. AppInv'
  <2>1. \A p \in Refs : shown'[p] \in GsApp
    BY <1>3 DEF Fit
  <2>2. shown' \in [Refs -> GsApp]
    BY <1>1, <2>1
  <2> QED
    BY <1>1, <1>3, <2>2, RefsAre DEF AppInv
<1>5. RefTypes' /\ ListTypes'
  BY <1>1, <1>2 DEF RefTypes, ListTypes, NoListing
<1>6. FlatpakJobsInv'
  BY <1>1, <1>3, JobsUntouched, RefsAre
<1> QED
  BY <1>4, <1>5, <1>6, FlatpakParts
LEMMA JobsStutter ==
    ASSUME FlatpakIInv, UNCHANGED flatpakVars
    PROVE  FlatpakIInv'
<1>1. UNCHANGED <<shown, deployed, newer, jobs, listing, activities, overtaken>>
  BY DEF flatpakVars
<1>2. AppInv /\ RefTypes /\ ListTypes /\ FlatpakJobsInv
  BY FlatpakParts
<1>3. AppInv' /\ RefTypes' /\ ListTypes' /\ FlatpakJobsInv'
  BY <1>1, <1>2, AppsSame, JobsUntouched DEF RefTypes, ListTypes
<1> QED
  BY <1>3, FlatpakParts

LEMMA JobsBegin == FlatpakInit => FlatpakIInv
<1> SUFFICES ASSUME FlatpakInit PROVE FlatpakIInv
  OBVIOUS
<1>1. deployed \subseteq Refs /\ newer \subseteq deployed
  BY RefsAre DEF FlatpakInit
<1>2. ASSUME NEW p \in Refs
      PROVE  Fit(shown[p]) /\ TrueOf(shown[p], p \in deployed) /\ KnownIf(shown[p]) /\ ~Busy(p)
  <2> DEFINE s == IF p \in newer THEN "updatable live" ELSE IF p \in deployed THEN "installed" ELSE "available"
  <2>1. Fit(NewApp)
    BY DEF Fit, AtRest, NewApp, GsApp, States, Actions, Transient
  <2>2. s \in {"unknown", "installed", "available", "updatable live"}
    OBVIOUS
  <2>3. s \in {"installed", "updatable live"} => p \in deployed
    BY <1>1
  <2>4. s = "available" => p \notin deployed
    BY <1>1
  <2>5. shown[p] = SetState(NewApp, s)
    BY DEF FlatpakInit
  <2> HIDE DEF s
  <2>6. Fit(shown[p]) /\ shown[p].state = s /\ shown[p].recover = s
    BY <2>1, <2>2, <2>5, SetToStable
  <2>7. s \notin Transient
    BY <2>2 DEF Transient
  <2> QED
    BY <2>3, <2>4, <2>6, <2>7 DEF TrueOf, KnownIf, Busy, Transient
<1>3. AppInv
  <2>1. \A p \in Refs : shown[p] \in GsApp
    BY <1>2 DEF Fit
  <2>2. shown \in [Refs -> GsApp]
    BY <2>1 DEF FlatpakInit
  <2> QED
    BY <1>2, <2>2, RefsAre DEF AppInv
<1>4. RefTypes /\ ListTypes
  <2>1. 0 \in 0..MaxActivities
    BY FlatpakAssumption
  <2>2. NoListing \in [kind : {"installed", "updates", "none"}, refs : SUBSET Refs]
    BY DEF NoListing
  <2>3. listing = NoListing /\ activities = 0 /\ overtaken = {}
    BY DEF FlatpakInit
  <2> QED
    BY <1>1, <2>1, <2>2, <2>3 DEF RefTypes, ListTypes
<1>5. FlatpakTypes /\ \A t \in JobThreads : jobs[t] = IdleJob
  BY IdleIsJob DEF FlatpakInit, FlatpakTypes
<1>6. ListsApart
  BY <1>5, IdleIsJob DEF ListsApart
<1>7. BusyIsListed
  BY <1>2, RefsAre DEF BusyIsListed
<1>8. ASSUME NEW t \in JobThreads PROVE JobInvOf(t)
  BY <1>5, IdleIsJob DEF JobInvOf, JobShape, JobIsOfRefs
<1> QED
  BY <1>3, <1>4, <1>5, <1>6, <1>7, <1>8, FlatpakParts DEF FlatpakJobsInv

LEMMA JobsGoOn == FlatpakIInv /\ [FlatpakNext]_flatpakVars => FlatpakIInv'
<1> SUFFICES ASSUME FlatpakIInv, [FlatpakNext]_flatpakVars PROVE FlatpakIInv'
  OBVIOUS
<1>1. AppInv /\ RefTypes /\ ListTypes /\ FlatpakJobsInv
  BY FlatpakParts
<1>2. CASE Publish
  BY <1>1, <1>2, PublishWell
<1>3. CASE ListBegins
  BY <1>1, <1>3, ListBeginsWell
<1>4. CASE ListEnds
  BY <1>1, <1>4, ListEndsWell
<1>5. ASSUME NEW t \in JobThreads, StartJob(t) PROVE FlatpakIInv'
  BY <1>1, <1>5, StartJobWell
<1>6. ASSUME NEW t \in JobThreads, JobStep(t) PROVE FlatpakIInv'
  <2>1. FlatpakTypes /\ JobInvOf(t)
    BY <1>1 DEF FlatpakJobsInv
  <2>2. AppInv' /\ JobInvOf(t)' /\ Keeps(t)
    BY <1>1, <1>6, <2>1, JobStepWell
  <2> QED
    BY <1>1, <2>2, KeepsEnough
<1> QED
  BY <1>2, <1>3, <1>4, <1>5, <1>6, JobsStutter DEF FlatpakNext

LEMMA JobsAreRight == FlatpakIInv => FlatpakInv
<1> SUFFICES ASSUME FlatpakIInv PROVE FlatpakInv
  OBVIOUS
<1>1. FlatpakTypeOK
  BY DEF FlatpakIInv
<1>2. NobodyStaysBusy
  <2> SUFFICES ASSUME NEW p \in MainApps, Busy(p) PROVE \E t \in JobThreads : OfJob(t, p)
    BY DEF NobodyStaysBusy, Busy
  <2>1. PICK t \in JobThreads : p \in jobs[t].list
    BY DEF FlatpakIInv, BusyIsListed
  <2> QED
    BY <2>1 DEF FlatpakIInv, JobsInv, JobShape, OfJob, Idle
<1>3. ShownAsDeployed
  <2> SUFFICES ASSUME NEW p \in Refs \ overtaken
               PROVE  /\ shown[p].state \in {"installed", "updatable live"} => p \in deployed
                      /\ shown[p].state = "available" => p \notin deployed
    BY DEF ShownAsDeployed
  <2>1. AtRest(shown[p])
    BY DEF FlatpakIInv, RecoverIsKnown
  <2> QED
    BY <2>1, StateNames DEF FlatpakIInv, RecoverIsTrue, AtRest
<1> QED
  BY <1>1, <1>2, <1>3 DEF FlatpakInv

(* What is shown of an app is what its ref is, also while a job works on it, *)
(* and an app that an install, a removal or an update has made busy is one   *)
(* that some job still has to bring to rest: transactions that fail, skip    *)
(* the app or find nothing to do leave no app INSTALLING.                    *)
THEOREM NothingStaysBusy == FlatpakSpec => []FlatpakInv
<1>1. FlatpakInit => FlatpakIInv
  BY JobsBegin
<1>2. FlatpakIInv /\ [FlatpakNext]_flatpakVars => FlatpakIInv'
  BY JobsGoOn
<1>3. FlatpakIInv => FlatpakInv
  BY JobsAreRight
<1> QED
  BY <1>1, <1>2, <1>3, PTL DEF FlatpakSpec
=============================================================================
