----------------------------- MODULE PluginOrder -----------------------------
(***************************************************************************)
(* finish_setup_get_bus() of lib/gs-plugin-loader.c between opening the    *)
(* plugins and setting them up: the rules the plugins state become their   *)
(* place in the list, their priority, and who is disabled.                 *)
(*                                                                         *)
(* Rules hold, for each kind of rule, the pairs <<plugin, its argument>>   *)
(* in the order in which the loops meet them.  A rule is a demand <<p, q>> *)
(* that p get a greater number than q.                                     *)
(***************************************************************************)
EXTENDS Naturals, FiniteSets, Sequences

CONSTANTS
    N,              \* how many plugins there are
    MaxPasses       \* passes before "got stuck": 101 in the code

ASSUME OrderAssumption == N \in Nat /\ MaxPasses \in Nat

Plugins == 1..N     \* numbered in the order of their names
Pairs == Plugins \X Plugins
Rules == [after : Seq(Pairs), before : Seq(Pairs), conflicts : Seq(Pairs), better : Seq(Pairs)]

\* gs_plugin_loader_find_plugin() and gs_plugin_get_enabled() of the argument:
\* each rule that is left keeps its place in the loop.
AboutEnabled(pairs, enabled) == [i \in {k \in DOMAIN pairs : pairs[k][2] \in enabled} |-> pairs[i]]

\* The loop over the "before" rules follows the other, and turns them round.
PlaceDemands(rules, enabled) ==
    LET after == AboutEnabled(rules.after, enabled)
        before == AboutEnabled(rules.before, enabled)
        n == Len(rules.after)
    IN  [i \in DOMAIN after \union {n + k : k \in DOMAIN before} |->
            IF i <= n THEN after[i] ELSE <<before[i - n][2], before[i - n][1]>>]
PriorityDemands(rules, enabled) == AboutEnabled(rules.better, enabled)

\* One pass: "changes" stops the loops after the first demand that is not met.
Unmet(demands, value) == {i \in DOMAIN demands : value[demands[i][1]] <= value[demands[i][2]]}
Pass(demands, value) ==
    LET unmet == Unmet(demands, value)
        first == demands[CHOOSE i \in unmet : \A j \in unmet : i <= j]
    IN  IF unmet = {} THEN value ELSE [value EXCEPT ![first[1]] = value[first[2]] + 1]

\* do { ... } while (changes), with dep_loop_check at "spent" when it starts.
Loop(demands, spent) ==
    LET after[n \in 0..(MaxPasses - spent)] ==
            IF n = 0 THEN [p \in Plugins |-> 0] ELSE Pass(demands, after[n - 1])
        clean == {n \in 1..(MaxPasses - spent) : Unmet(demands, after[n - 1]) = {}}
        last == CHOOSE n \in clean : \A k \in clean : n <= k
    IN  IF clean = {} THEN [stuck |-> TRUE]
        ELSE [stuck |-> FALSE, value |-> after[last], spent |-> spent + last]

\* "check for conflicts": each plugin, if it still is enabled, disables others.
Resolve(conflicts, enabled) ==
    LET from[p \in 0..N] ==
            IF p = 0 THEN enabled
            ELSE IF p \in from[p - 1]
                 THEN from[p - 1] \ {conflicts[i][2] : i \in {k \in DOMAIN conflicts : conflicts[k][1] = p}}
                 ELSE from[p - 1]
    IN  from[N]

\* gs_plugin_loader_plugin_sort_fn()
Goes(place, p, q) == place[p] < place[q] \/ (place[p] = place[q] /\ p < q)
SortByName(place) == [i \in Plugins |-> i]     \* mutant: the place is not compared
Sort(place) ==
    [i \in Plugins |-> CHOOSE p \in Plugins : Cardinality({q \in Plugins : Goes(place, q, p)}) = i - 1]

\* The whole of it: "stuck", or the list, the priorities and the enabled ones.
Arrange(rules, enabled) ==
    LET place == Loop(PlaceDemands(rules, enabled), 0)
        left == Resolve(rules.conflicts, enabled)
        priority == Loop(PriorityDemands(rules, left), place.spent)
    IN  IF place.stuck \/ priority.stuck THEN [stuck |-> TRUE]
        ELSE [stuck |-> FALSE, enabled |-> left, list |-> Sort(place.value),
              priority |-> priority.value]

-----------------------------------------------------------------------------
(* Reference definitions, without the loops.                               *)

\* Some numbering of the plugins meets all demands.
Satisfiable(demands) ==
    \E number \in [Plugins -> Plugins] : Unmet(demands, number) = {}

\* The strict orders of the plugins in which each demand is met.
Orders(demands) ==
    {R \in SUBSET Pairs :
        /\ \A p \in Plugins : <<p, p>> \notin R
        /\ \A p, q, r \in Plugins : <<p, q>> \in R /\ <<q, r>> \in R => <<p, r>> \in R
        /\ \A i \in DOMAIN demands : demands[i] \in R}

\* p is before q in the list.
IsBefore(list, p, q) ==
    \E i, j \in Plugins : i < j /\ list[i] = p /\ list[j] = q
=============================================================================
