----------------------------- MODULE MCAgentGraph -----------------------------
(* AgentGraph with one action of each kind in the planner's menu.            *)
EXTENDS AgentGraph

Tools == {"read_file", "preview_command", "generate_change_set", "validate_change_set",
          "create_file",
          "git_commit", "git_branch_create", "search_web", "fetch_url",
          "ask_clarification"}
=============================================================================
