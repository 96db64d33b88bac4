--------------------------- MODULE MCThreadContext ---------------------------
(* One conversation about a repository of four files and another of one. *)
EXTENDS ThreadContext

MCPathOrder == <<"main.py", "package.json", "pyproject.toml", "readme.md", "util.py">>
MCPathRank == [p \in Range(MCPathOrder) |->
    CASE p = "readme.md" -> 1 [] p = "main.py" -> 2 [] p \in {"package.json", "pyproject.toml"} -> 3 [] OTHER -> 4]
MCRepoFiles == [r \in {"A", "B"} |->
    IF r = "B" THEN {"package.json"} ELSE Range(MCPathOrder) \ {"package.json"}]
MCMaxStamp == [p \in Range(MCPathOrder) |-> IF p \in {"main.py", "readme.md"} THEN 2 ELSE 1]
MCToRead == [r \in {"A", "B"} |-> IF r = "A" THEN <<"main.py", "util.py">> ELSE <<"package.json">>]
MCHighSignal == {"package.json", "pyproject.toml", "readme.md"}

Ask(task, repo, refers, names, edit) ==
    [task |-> task, repo |-> repo, refers |-> refers, names |-> names, edit |-> edit,
     web |-> FALSE, broad |-> FALSE, open |-> {"util.py"}]
MCRequests ==
    {Ask("fix main", "A", "none", {"main.py"}, TRUE), Ask("do the same", "A", "same", {}, FALSE),
     Ask("that file of before", "B", "recent", {}, FALSE)}

\* the long and the short text of a file: the third file a small model reads
\* no longer fits
MCSize(p, stamp) ==
    CASE p = "main.py" -> 4000 [] p = "util.py" -> 5000
      [] p = "readme.md" -> IF stamp = 1 THEN 5000 ELSE 4200
      [] OTHER -> 200
\* gpt-4o with the window its user set, and a model the worker does not know
MCModels == {Profile([window |-> 128000, output |-> 16384, strategy |-> "balanced"], 32000),
             Profile([window |-> 0, output |-> 0, strategy |-> ""], 0)}

\* the drivers are alike
MCSymmetry == Permutations(Drivers)
=============================================================================
