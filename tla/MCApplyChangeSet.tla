-------------------------- MODULE MCApplyChangeSet --------------------------
(* ApplyChangeSet on six paths: 1, 2 and 3 are source files, 4 lies under    *)
(* .git, 5 is a link to 1, and 6 is a path the model invents for file 1.     *)
EXTENDS ApplyChangeSet

MCPaths == 1..6
MCKind == [p \in MCPaths |-> IF p = 4 THEN "git" ELSE "text"]
MCBase == [p \in MCPaths |-> IF p = 6 THEN 1 ELSE p]
MCResolved == [p \in MCPaths |-> IF p = 5 THEN 1 ELSE p]

Change(op, p, q) == [op |-> op, path |-> p, to |-> q, text |-> "ok", justified |-> TRUE]

Menu == {Change("modify", 1, 1), Change("delete", 1, 1), Change("rename", 1, 2),
         Change("rename", 3, 2), Change("create", 2, 2), Change("modify", 3, 3),
         Change("delete", 3, 3), Change("rename", 3, 4), Change("modify", 5, 5),
         Change("modify", 6, 6), Change("rename", 6, 2)}

\* every change set of one or two changes of the menu
Pairs == {cs \in SUBSET Menu : Cardinality(cs) \in {1, 2}}
\* one or two modifications, for the answers that race
Modifications == {{Change("modify", 1, 1)}, {Change("modify", 1, 1), Change("modify", 3, 3)}}

\* files 1, 2 and 3 may each exist when the proposal is made
MCDisks == {d \in [MCPaths -> {Absent} \cup {<<"old", p>> : p \in 1..3}] :
              d[4] = Absent /\ d[5] = Absent /\ d[6] = Absent /\ \A p \in 1..3 : d[p] \in {Absent, <<"old", p>>}}
=============================================================================
