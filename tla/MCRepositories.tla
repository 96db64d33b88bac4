--------------------------- MODULE MCRepositories ---------------------------
(* Repositories with two branches on origin.                                 *)
EXTENDS Repositories, TLC

MCBranches == {"main", "dev"}
MCOrigin == ("main" :> {1}) @@ ("dev" :> {1, 2})

Job(op, b) == [op |-> op, branch |-> b]
Jobs == {Job("open_provider", "main"), Job("open_provider", "dev"),
           Job("open_local", "dev"), Job("open_local", "current"), Job("open_plain", "none"),
           Job("checkout", "main"), Job("push", "dev"),
           [op |-> "branch", branch |-> "dev", from |-> "main", switch |-> TRUE],
           Job("commit", "current")}

\* no two requests ask for the same
MCPlans == {p \in [Requests -> Jobs] : IsInjective(p)}

Symmetry == Permutations(Requests)
=============================================================================
