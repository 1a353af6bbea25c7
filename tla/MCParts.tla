------------------------------- MODULE MCParts -------------------------------
(* Parts that do not meet in the program and of which only safety is asked,  *)
(* in one run: each behaviour is one of the part its focus names, and the    *)
(* other parts stay as they begin.                                           *)
EXTENDS FlatpakJobs, FlatpakSilo, UpdateMonitor, PackageKitUpdates, TLC

VARIABLE focus
partsVars == <<focus, flatpakVars, siloVars, monitorVars, pkVars>>

PartsInit ==
    /\ focus \in {"flatpak jobs", "flatpak silo", "update monitor", "packagekit updates"}
    /\ FlatpakInit /\ SiloInit /\ MonitorInit /\ PkInit
    /\ focus = "flatpak jobs" \/ (deployed = {Runtime} /\ newer = {})
    /\ focus = "update monitor" \/ (network = "free" /\ downloadUpdates)
    /\ focus = "packagekit updates" \/ (known = {} /\ ~wantsDownloads)

PartsNext ==
    /\ UNCHANGED focus
    /\ \/ focus = "flatpak jobs" /\ FlatpakNext /\ UNCHANGED <<siloVars, monitorVars, pkVars>>
       \/ focus = "flatpak silo" /\ SiloNext /\ UNCHANGED <<flatpakVars, monitorVars, pkVars>>
       \/ focus = "update monitor" /\ MonitorNext /\ UNCHANGED <<flatpakVars, siloVars, pkVars>>
       \/ focus = "packagekit updates" /\ PkNext /\ UNCHANGED <<flatpakVars, siloVars, monitorVars>>

\* No thread is chosen before another, and only safety is checked.
ThreadSymmetry == Permutations(JobThreads)

PartsSpec == PartsInit /\ [][PartsNext]_partsVars
=============================================================================
