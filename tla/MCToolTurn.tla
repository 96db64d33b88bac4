----------------------------- MODULE MCToolTurn -----------------------------
(* McpTurn on five commands, one of each kind the policy tells apart, and   *)
(* one tool of each family.                                                  *)
EXTENDS McpTurn

MCCommands == {"git status", "npm test", "git push", "rm", "cat /etc"}
MCPatternOf == [c \in MCCommands |-> c]

Call1(tool, cmd) == [NoPayload EXCEPT !.tool = tool, !.cmd = cmd]
MCProposed ==
    {Call1("run_approved_command", c) : c \in MCCommands}
      \cup {Call1("preview_command", c) : c \in {"npm test", "git push", "rm"}}
      \cup {Call1(t, NoCommand) : t \in {"git_push", "git_commit", "create_file", "delete_file",
                                         "apply_change_set", "search_web", "generate_edit", "mcp_tool", "read_file"}}
MCSubagentTools == {Call1("preview_command", "npm test"), Call1("search_web", NoCommand),
                    [Call1("fetch_url", NoCommand) EXCEPT !.private = TRUE], Call1("git_status", NoCommand)}
MCRewrites == {Call1("run_approved_command", c) : c \in {"git status", "npm test", "git push"}}

\* a team that forbids commits, and one user who waves pushes through
MCRules == {[source |-> "project", tools |-> {"git_commit"}, d |-> "deny", priority |-> 1],
            [source |-> "user", tools |-> {"git_push", "run_approved_command"}, d |-> "allow", priority |-> 9]}
=============================================================================
