----------------------------- MODULE FlatpakSilo -----------------------------
(***************************************************************************)
(* plugins/flatpak/gs-flatpak.c: what a GsFlatpak keeps of its             *)
(* installation, the silo of its metadata under silo_lock and the cache    *)
(* installed_refs under installed_refs_mutex.  Threads of the loader use   *)
(* and rebuild them; the file monitor tells the main thread of changes,    *)
(* which drops them, at once or when the transactions that run have ended. *)
(***************************************************************************)
EXTENDS FiniteSets, Naturals

CONSTANTS
    SiloThreads,
    NoSilo,             \* self->silo == NULL, installed_refs == NULL, or nobody
    MaxContent          \* bound: changes of the installation

ASSUME SiloAssumption ==
    IsFiniteSet(SiloThreads) /\ SiloThreads # {} /\ MaxContent \in Nat /\ NoSilo \notin Nat \union SiloThreads

VARIABLES
    content,            \* the version of the installation
    signals,            \* "changed" of the monitor, not yet handled
    silo,               \* the version it was built from, and whether it is valid
    installedRefs,      \* the version it was listed from
    siloReaders, siloWriter,                                \* silo_lock
    busy, changedWhileBusy, requiresFullRescan,
    idleClaims,         \* sources of gs_flatpak_set_busy() in the main loop
    siloMain,           \* what the main thread does
    siloThread,         \* what each thread does
    claiming, claimed   \* history: the version at the beginning of the last claim, and
                        \* of the last one that has ended
siloVars == <<content, signals, silo, installedRefs, siloReaders, siloWriter, busy, changedWhileBusy,
              requiresFullRescan, idleClaims, siloMain, siloThread, claiming, claimed>>

Versions0 == 0..MaxContent
Built == [version : Versions0, valid : BOOLEAN]

\* for: whom the store is rescanned for; since: claimed when the call began;
\* version: that of the data it builds from or has used.
SiloCall == [stage : {"idle", "ensure", "drop", "invalidate", "check", "write", "build", "failed",
                      "fail", "lock", "reading", "refs", "transaction", "unflag"},
             for : {"ensure", "full", "refresh"}, since : Versions0, version : Versions0]
NoCall == [stage |-> "idle", for |-> "ensure", since |-> 0, version |-> 0]

SiloTypeOK ==
    /\ content \in Versions0 /\ {claiming, claimed} \subseteq Versions0 /\ signals \in Versions0 /\ idleClaims \in Nat
    /\ silo \in Built \union {NoSilo} /\ installedRefs \in Versions0 \union {NoSilo}
    /\ siloReaders \subseteq SiloThreads /\ siloWriter \in SiloThreads \union {NoSilo}
    /\ siloWriter # NoSilo => siloReaders = {}
    /\ busy \in Nat /\ {changedWhileBusy, requiresFullRescan} \subseteq BOOLEAN
    /\ siloMain \in {"idle", "flag", "claim", "invalidate"}
    /\ siloThread \in [SiloThreads -> SiloCall]

SiloInit ==
    /\ content = 0 /\ signals = 0 /\ claiming = 0 /\ claimed = 0 /\ silo = NoSilo /\ installedRefs = NoSilo
    /\ siloReaders = {} /\ siloWriter = NoSilo /\ busy = 0 /\ idleClaims = 0 /\ siloMain = "idle"
    /\ changedWhileBusy = FALSE /\ requiresFullRescan = FALSE
    /\ siloThread = [t \in SiloThreads |-> NoCall]

In(t, stage) == siloThread[t].stage = stage
Goes(t, stage) == siloThread' = [siloThread EXCEPT ![t].stage = stage]
mayWrite == siloReaders = {} /\ siloWriter = NoSilo
Invalidated(s) == IF s = NoSilo THEN NoSilo ELSE [s EXCEPT !.valid = FALSE]

lockVars == <<siloReaders, siloWriter>>
busyVars == <<busy, changedWhileBusy, idleClaims>>
historyVars == <<claiming, claimed>>
worldVars == <<content, signals, historyVars, siloMain>>

-----------------------------------------------------------------------------
\* The installation changes, by a transaction or from outside.
Change == content < MaxContent /\ content' = content + 1 /\ signals' = signals + 1
ContentChanges ==
    /\ Change
    /\ UNCHANGED <<silo, installedRefs, lockVars, busyVars, requiresFullRescan, siloMain, siloThread, historyVars>>

\* gs_plugin_flatpak_changed_cb() looks whether a transaction runs...
ChangedCb ==
    /\ siloMain = "idle" /\ signals > 0 /\ signals' = signals - 1
    /\ siloMain' = IF busy > 0 THEN "flag" ELSE "claim"
    /\ UNCHANGED <<content, silo, installedRefs, lockVars, busyVars, requiresFullRescan, siloThread, historyVars>>

\* ... and, if so, leaves it to gs_flatpak_set_busy().
ChangedWhileBusy ==
    /\ siloMain = "flag" /\ siloMain' = "idle" /\ changedWhileBusy' = TRUE
    /\ UNCHANGED <<content, signals, silo, installedRefs, lockVars, busy, idleClaims, requiresFullRescan, siloThread, historyVars>>

\* gs_flatpak_claim_changed_idle_cb(): gs_flatpak_internal_data_changed(), up
\* to the lock and from there on.
ClaimSource ==
    /\ siloMain = "idle" /\ idleClaims > 0 /\ idleClaims' = idleClaims - 1 /\ siloMain' = "claim"
    /\ UNCHANGED <<content, signals, silo, installedRefs, lockVars, busy, changedWhileBusy, requiresFullRescan, siloThread, historyVars>>
ClaimKeepsRefs ==                       \* mutant: the refs that were listed stay
    /\ siloMain = "claim" /\ siloMain' = "invalidate" /\ claiming' = content
    /\ UNCHANGED <<content, signals, silo, installedRefs, lockVars, busyVars, requiresFullRescan, siloThread, claimed>>
ClaimDrops ==
    /\ siloMain = "claim" /\ siloMain' = "invalidate" /\ installedRefs' = NoSilo /\ claiming' = content
    /\ UNCHANGED <<content, signals, silo, lockVars, busyVars, requiresFullRescan, siloThread, claimed>>
ClaimInvalidates ==
    /\ siloMain = "invalidate" /\ mayWrite /\ siloMain' = "idle"
    /\ silo' = Invalidated(silo) /\ requiresFullRescan' = TRUE /\ claimed' = claiming
    /\ UNCHANGED <<content, signals, claiming, installedRefs, lockVars, busyVars, siloThread>>

-----------------------------------------------------------------------------
\* A thread uses the silo (ensure_flatpak_silo_with_locker()) or the installed
\* refs (gs_flatpak_refine_app_state_unlocked()), refreshes, or runs a
\* transaction.
StartCall(t) ==
    /\ In(t, "idle")
    /\ \E how \in {"ensure", "refs", "drop", "transaction"} :
         /\ siloThread' = [siloThread EXCEPT ![t] =
                [NoCall EXCEPT !.stage = how, !.for = IF how = "ensure" THEN "ensure" ELSE "refresh", !.since = claimed]]
         /\ busy' = IF how = "transaction" THEN busy + 1 ELSE busy
    /\ UNCHANGED <<worldVars, silo, installedRefs, lockVars, changedWhileBusy, idleClaims, requiresFullRescan>>

\* The end of the transaction: gs_flatpak_set_busy(FALSE), then the refresh.
TransactionEnds(t) ==
    /\ In(t, "transaction") /\ busy' = busy - 1
    /\ Change \/ UNCHANGED <<content, signals>>
    /\ Goes(t, IF busy = 1 THEN "unflag" ELSE "drop")
    /\ UNCHANGED <<silo, installedRefs, lockVars, changedWhileBusy, idleClaims, requiresFullRescan, siloMain, historyVars>>
Unflag(t) ==
    /\ In(t, "unflag") /\ Goes(t, "drop") /\ changedWhileBusy' = FALSE
    /\ idleClaims' = IF changedWhileBusy THEN idleClaims + 1 ELSE idleClaims
    /\ UNCHANGED <<worldVars, silo, installedRefs, lockVars, busy, requiresFullRescan>>

\* gs_flatpak_refine_app_state_unlocked() lists the refs if nobody has, all of
\* it under the mutex.
UseRefs(t) ==
    /\ In(t, "refs")
    /\ installedRefs' \in IF installedRefs = NoSilo THEN {NoSilo, content} ELSE {installedRefs}
    /\ siloThread' = [siloThread EXCEPT ![t].stage = "idle", ![t].since = 0]
    /\ UNCHANGED <<worldVars, silo, lockVars, busyVars, requiresFullRescan>>

\* gs_flatpak_rescan_app_data()
RescanAppData(t) ==
    /\ In(t, "ensure")
    /\ siloThread' = [siloThread EXCEPT ![t].stage = IF requiresFullRescan THEN "drop" ELSE "check",
                                        ![t].for = IF requiresFullRescan THEN "full" ELSE "ensure"]
    /\ UNCHANGED <<worldVars, silo, installedRefs, lockVars, busyVars, requiresFullRescan>>

\* gs_flatpak_refresh() drops the caches, invalidates the silo and updates the
\* remotes.
RefreshDrops(t) ==
    /\ In(t, "drop")
    /\ \/ Goes(t, "invalidate") /\ installedRefs' = NoSilo
       \/ Goes(t, IF siloThread[t].for = "full" THEN "failed" ELSE "idle") /\ UNCHANGED installedRefs
    /\ UNCHANGED <<worldVars, silo, lockVars, busyVars, requiresFullRescan>>
RefreshInvalidates(t) ==
    /\ In(t, "invalidate") /\ mayWrite /\ Goes(t, "check") /\ silo' = Invalidated(silo)
    /\ UNCHANGED <<worldVars, installedRefs, lockVars, busyVars, requiresFullRescan>>

\* What follows gs_flatpak_rescan_appstream_store() when it has succeeded.
Rescanned(t) ==
    /\ Goes(t, IF siloThread[t].for = "refresh" THEN "idle" ELSE "lock")
    /\ requiresFullRescan' = IF siloThread[t].for = "full" THEN FALSE ELSE requiresFullRescan

\* gs_flatpak_rescan_appstream_store(): under the lock for readers, the silo is
\* found valid or not; under the one for writers it is dropped and built.
RescanStore(t) ==
    /\ In(t, "check") /\ siloWriter = NoSilo
    /\ IF silo # NoSilo /\ silo.valid THEN Rescanned(t)
       ELSE Goes(t, "write") /\ UNCHANGED requiresFullRescan
    /\ UNCHANGED <<worldVars, silo, installedRefs, lockVars, busyVars>>
BuildBegins(t) ==
    /\ In(t, "write") /\ mayWrite /\ siloWriter' = t /\ silo' = NoSilo
    /\ siloThread' = [siloThread EXCEPT ![t].stage = "build", ![t].version = content]
    /\ UNCHANGED <<worldVars, installedRefs, siloReaders, busyVars, requiresFullRescan>>
BuildEnds(t) ==
    /\ In(t, "build") /\ siloWriter' = NoSilo
    /\ \/ silo' = [version |-> siloThread[t].version, valid |-> TRUE] /\ Rescanned(t)
       \/ Goes(t, "failed") /\ UNCHANGED <<silo, requiresFullRescan>>
    /\ UNCHANGED <<worldVars, installedRefs, siloReaders, busyVars>>

\* A failure drops everything, as a change does, and ends the call.
FailDrops(t) ==
    /\ In(t, "failed") /\ Goes(t, "fail") /\ installedRefs' = NoSilo
    /\ UNCHANGED <<worldVars, silo, lockVars, busyVars, requiresFullRescan>>
FailInvalidates(t) ==
    /\ In(t, "fail") /\ mayWrite /\ Goes(t, "idle") /\ silo' = Invalidated(silo) /\ requiresFullRescan' = TRUE
    /\ UNCHANGED <<worldVars, installedRefs, lockVars, busyVars>>

\* ensure_flatpak_silo_with_locker(): another thread may have dropped the silo
\* before the lock is taken.
LockSilo(t) ==
    /\ In(t, "lock") /\ siloWriter = NoSilo
    /\ IF silo = NoSilo
       THEN siloThread' = [siloThread EXCEPT ![t].stage = "check", ![t].for = "ensure"] /\ UNCHANGED siloReaders
       ELSE siloReaders' = siloReaders \union {t} /\ Goes(t, "reading")
    /\ UNCHANGED <<worldVars, silo, installedRefs, siloWriter, busyVars, requiresFullRescan>>
UnlockSilo(t) ==
    /\ In(t, "reading") /\ siloReaders' = siloReaders \ {t} /\ Goes(t, "idle")
    /\ UNCHANGED <<worldVars, silo, installedRefs, siloWriter, busyVars, requiresFullRescan>>

SiloMainStep == ChangedCb \/ ChangedWhileBusy \/ ClaimSource \/ ClaimDrops \/ ClaimInvalidates
SiloStep(t) ==
    \/ TransactionEnds(t) \/ Unflag(t) \/ UseRefs(t) \/ RescanAppData(t) \/ RefreshDrops(t) \/ RefreshInvalidates(t)
    \/ RescanStore(t) \/ BuildBegins(t) \/ BuildEnds(t) \/ FailDrops(t) \/ FailInvalidates(t) \/ LockSilo(t) \/ UnlockSilo(t)

SiloNext == ContentChanges \/ SiloMainStep \/ \E t \in SiloThreads : StartCall(t) \/ SiloStep(t)

SiloSpec == SiloInit /\ [][SiloNext]_siloVars

-----------------------------------------------------------------------------
\* Whoever reads the silo has one, which nobody drops or builds meanwhile, and
\* it knows each change that was claimed before the call
\* (ensure_flatpak_silo_with_locker()).
ReadersSeeTheClaimed ==
    \A t \in SiloThreads : In(t, "reading") => silo # NoSilo /\ silo.version >= siloThread[t].since

\* The refs that are kept know each change that was claimed
\* (gs_flatpak_refine_app_state_unlocked()).
RefsKnowTheClaimed == installedRefs # NoSilo => installedRefs >= claimed

\* No change is forgotten: it is claimed, or will be, or its flag waits for the
\* end of the next transaction.
ChangeIsRemembered ==
    claimed < content => signals > 0 \/ siloMain # "idle" \/ idleClaims > 0 \/ changedWhileBusy

\* The silo and the refs are those of the installation as far as its changes
\* were claimed, and the others are not forgotten.
SiloInv == SiloTypeOK /\ ReadersSeeTheClaimed /\ RefsKnowTheClaimed /\ ChangeIsRemembered
=============================================================================
