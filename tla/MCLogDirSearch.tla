--------------------------- MODULE MCLogDirSearch ---------------------------
(* Every disk of up to four directories, for TLC. *)
EXTENDS LogDirSearch

Children(dirs, d) == {e \in dirs : e # <<>> /\ Front(e) = d}

\* Every tree with one directory more than one of the given trees.
Grown(trees) ==
    UNION {{dirs \cup {Append(d, Cardinality(Children(dirs, d)) + 1)} :
               d \in dirs} : dirs \in trees}

Trees == LET one == {{<<>>}}
             two == Grown(one)
             three == Grown(two)
         IN  one \cup two \cup three \cup Grown(three)

MCDisks ==
    UNION {[subdirs : {[d \in dirs |-> Cardinality(Children(dirs, d))]},
            logs : SUBSET dirs, locked : SUBSET dirs] : dirs \in Trees}
=============================================================================
