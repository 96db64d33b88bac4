------------------------------ MODULE ChangeSet ------------------------------
(***************************************************************************)
(* A proposed change set and validate_change_set: the check every proposal *)
(* passes before it is shown for approval, and again before it is applied. *)
(*                                                                         *)
(* A change set is a set of changes, at most a few files each.  What the   *)
(* checks find in the proposed TEXT (empty, unchanged, truncated, fences,  *)
(* syntax, references) is an attribute of the change; what they find on    *)
(* the disk is computed.  Paths are numbers, so that they have an order.   *)
(***************************************************************************)
EXTENDS Naturals, FiniteSets

CONSTANTS
    Paths,       \* relative paths a proposal may name
    Kind,        \* what a path is: see PathKinds
    Base,        \* the file name at the end of each path
    Protected,   \* package and configuration files
    Resolved     \* the path (repo / path).resolve() denotes: symlinks followed

PathKinds == {"text", "binary", "git", "unsafe"}

ASSUME PathAssumption ==
    /\ Paths \subseteq Nat
    /\ Kind \in [Paths -> PathKinds]
    /\ DOMAIN Base = Paths
    /\ Protected \subseteq Paths
    /\ Resolved \in [Paths -> Paths]

Operations == {"rename", "delete", "modify", "create"}

\* text: what the textual checks say of the change ("stale_reference" is the
\* one error about references that _is_repairable_error does not match)
Texts == {"ok", "repairable", "stale_reference"}

Changes == [op : Operations, path : Paths, to : Paths, text : Texts, justified : BOOLEAN]

Absent == <<"absent", 0>>
Exists(disk, p) == disk[Resolved[p]] # Absent

\* _ground_change_paths: a path that does not exist becomes that of the only
\* file with its name
Candidates(p, disk) ==
    {q \in Paths : Base[q] = Base[p] /\ Exists(disk, q) /\ Kind[q] \notin {"git", "unsafe"}}

Ground(c, disk) ==
    IF c.op # "create" /\ ~Exists(disk, c.path) /\ Cardinality(Candidates(c.path, disk)) = 1
      THEN [c EXCEPT !.path = CHOOSE q \in Candidates(c.path, disk) : TRUE] ELSE c

ErrorIf(condition, class) == IF condition THEN {class} ELSE {}

TextErrors(c) == ErrorIf(c.text = "repairable", "repairable")

\* mutant: a rename does not look at its destination
BlindRename(c, disk) ==
    CASE c.op = "delete" ->
            ErrorIf(~Exists(disk, c.path) \/ ~c.justified, "invalid")
            \cup ErrorIf(c.path \in Protected, "blocked") \cup TextErrors(c)
      [] c.op = "rename" -> ErrorIf(~Exists(disk, c.path), "invalid")
      [] c.op = "modify" ->
            IF Exists(disk, c.path) THEN TextErrors(c) ELSE {"invalid"}
      [] c.op = "create" ->
            ErrorIf(Exists(disk, c.path), "invalid") \cup TextErrors(c)

\* the errors of one operation, each by the class that decides the verdict
OperationErrors(c, disk) ==
    CASE c.op = "delete" ->
            ErrorIf(~Exists(disk, c.path) \/ ~c.justified, "invalid")
            \cup ErrorIf(c.path \in Protected, "blocked") \cup TextErrors(c)
      [] c.op = "rename" ->
            ErrorIf(\/ ~Exists(disk, c.path) \/ Exists(disk, c.to)
                    \/ Kind[c.to] \in {"unsafe", "binary"}
                    \/ c.text = "stale_reference", "invalid")
      [] c.op = "modify" ->
            IF Exists(disk, c.path) THEN TextErrors(c) ELSE {"invalid"}
      [] c.op = "create" ->
            ErrorIf(Exists(disk, c.path), "invalid") \cup TextErrors(c)

\* an unsafe or binary path ends the checks of its change
ChangeErrors(c, cs, disk) ==
    ErrorIf(Kind[c.path] \in {"unsafe", "binary"}, "invalid")
    \cup IF Kind[c.path] = "unsafe" THEN {} ELSE
         ErrorIf(\E e \in cs \ {c} : e.path = c.path, "invalid")
         \cup ErrorIf(Kind[c.path] = "git", "blocked")
         \cup IF Kind[c.path] = "binary" THEN {} ELSE OperationErrors(c, disk)

Errors(cs, disk) ==
    ErrorIf(cs = {}, "invalid") \cup UNION {ChangeErrors(c, cs, disk) : c \in cs}

\* validate_change_set's status
ValidationStatus(cs, disk) ==
    LET errors == Errors(cs, disk) IN
    IF errors = {} THEN "valid"
    ELSE IF "blocked" \in errors THEN "blocked"
    ELSE IF "repairable" \in errors THEN "repairable"
    ELSE "invalid"

\* _deterministic_changes: renames, deletes, modifications, then creations,
\* each by path
Rank == [rename |-> 0, delete |-> 1, modify |-> 2, create |-> 3]

Before(c, e) ==
    \/ Rank[c.op] < Rank[e.op]
    \/ Rank[c.op] = Rank[e.op] /\ c.path < e.path

First(cs) == CHOOSE c \in cs : \A e \in cs \ {c} : Before(c, e)

\* where a change puts a file that must not exist yet
Destination(c) == IF c.op = "rename" THEN c.to ELSE c.path
Makes(c) == c.op \in {"rename", "create"}

\* no two changes make the same file, and no path stands for another file or
\* for git's own: what validate_change_set does not check
Compatible(cs) ==
    /\ \A c, e \in cs : Makes(c) /\ Makes(e) /\ Resolved[Destination(c)] = Resolved[Destination(e)]
          => c = e
    /\ \A c, e \in cs : Resolved[c.path] = Resolved[e.path] => c = e
    /\ \A c \in cs : c.op = "rename" => Kind[c.to] # "git"
=============================================================================
