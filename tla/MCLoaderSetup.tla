---------------------------- MODULE MCLoaderSetup ----------------------------
(* The setup of the loader and its updates-changed signal, two parts that do *)
(* not meet, in one run: each behaviour is of the part its focus names, and  *)
(* the other stays as it begins.  The setup has the rules of three plugins,  *)
(* in all combinations that can contradict each other and some that cannot.  *)
EXTENDS LoaderSetup, UpdatesChanged

\* The pairs of a relation, in the order in which the loops meet them.
Scan(relation) ==
    LET less(r, s) == r[1] < s[1] \/ (r[1] = s[1] /\ r[2] < s[2])
    IN  [i \in 1..Cardinality(relation) |->
            CHOOSE r \in relation : Cardinality({s \in relation : less(s, r)}) = i - 1]

\* Up to two demands on the order, from after and before rules, or a circle of
\* three; and conflicts and priorities of three kinds.
MCRuleSets ==
    LET pairs == {r \in Pairs : r[1] # r[2]}
        places == {s \in (SUBSET pairs) \X (SUBSET pairs) : Cardinality(s[1]) + Cardinality(s[2]) <= 2}
                  \union {<<{<<1, 2>>, <<2, 3>>}, {<<1, 3>>}>>}
        others == {<<{}, {}>>, <<{<<1, 2>>, <<2, 3>>}, {<<1, 2>>, <<2, 3>>}>>,
                   <<{<<3, 1>>}, {<<1, 3>>, <<3, 1>>}>>}
    IN  {[after |-> Scan(p[1]), before |-> Scan(p[2]),
          conflicts |-> Scan(o[1]), better |-> Scan(o[2])] : p \in places, o \in others}

VARIABLE focus
bothVars == <<focus, vars, loaderVars>>

BothInit ==
    /\ focus \in {"setup", "updates-changed"}
    /\ Init /\ LoaderInit
    /\ focus = "setup" \/ bus = [b \in Buses |-> "missing"]

BothNext ==
    /\ UNCHANGED focus
    /\ \/ focus = "setup" /\ Next /\ UNCHANGED loaderVars
       \/ focus = "updates-changed" /\ LoaderNext /\ UNCHANGED vars

\* The fairness of both parts, which only the part that moves can enable.
BothSpec == BothInit /\ [][BothNext]_bothVars /\ Fairness /\ LoaderFairness
=============================================================================
