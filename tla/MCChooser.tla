------------------------------ MODULE MCChooser ------------------------------
(* Chooser on a repository of four text files and a picture: a description,  *)
(* a configuration, an entry point and the module behind it.                 *)
EXTENDS Chooser

MCFiles == <<"README.md", "pyproject.toml", "main.py", "profile.py">>
MCOpaque == {"logo.png"}

Text(base, group, role) ==
    [base |-> base, group |-> group, role |-> role, terms |-> 0, dominant |-> FALSE, fallback |-> FALSE,
     symbols |-> {}, imports |-> FALSE, framework |-> FALSE, mentions |-> {}]
Source(base, group) == [Text(base, group, group) EXCEPT !.dominant = TRUE, !.imports = TRUE]
MCAbout ==
    [f \in Range(MCFiles) |->
        CASE f = "README.md" -> Text(f, "docs", "docs")
          [] f = "pyproject.toml" -> Text(f, "configs", "configs")
          [] f = "main.py" -> [Source(f, "entrypoints") EXCEPT !.symbols = {"main"}, !.mentions = {"profile.py"}]
          [] OTHER -> [Source(f, "app/service modules") EXCEPT !.symbols = {"load"}, !.terms = 2]]

Plain ==
    [named |-> <<>>, ide |-> {}, symbols |-> {}, terms |-> FALSE, prior |-> <<>>, priorTargets |-> {},
     priorProposal |-> {}, priorFits |-> FALSE, editText |-> FALSE, hint |-> FALSE, verb |-> FALSE,
     question |-> FALSE, howOnly |-> FALSE, broad |-> FALSE, followUp |-> FALSE, planning |-> FALSE,
     secret |-> FALSE, irreversible |-> FALSE, review |-> FALSE, readOnly |-> FALSE, create |-> FALSE,
     url |-> FALSE, offTopic |-> FALSE, meta |-> FALSE, commit |-> FALSE, branch |-> FALSE,
     commitIt |-> FALSE, cmd |-> "", auto |-> FALSE]
Edit == [Plain EXCEPT !.editText = TRUE, !.hint = TRUE, !.verb = TRUE, !.terms = TRUE]
Question == [Plain EXCEPT !.question = TRUE, !.readOnly = TRUE]

MCRequests ==
    {Question, [Question EXCEPT !.named = <<"main.py">>], [Question EXCEPT !.named = <<"nope.py">>],
     [Question EXCEPT !.symbols = {"load"}],
     Edit, [Edit EXCEPT !.auto = TRUE], [Edit EXCEPT !.named = <<"main.py">>],
     [Edit EXCEPT !.named = <<"main.py", "nope.py">>],
     [Edit EXCEPT !.named = <<"utils.py">>, !.create = TRUE],
     [Edit EXCEPT !.planning = TRUE],
     [Edit EXCEPT !.prior = <<"profile.py">>, !.priorTargets = {"profile.py"}, !.priorFits = TRUE, !.followUp = TRUE],
     [Edit EXCEPT !.terms = FALSE, !.irreversible = TRUE], [Edit EXCEPT !.offTopic = TRUE],
     [Edit EXCEPT !.named = <<"main.py">>, !.cmd = "git log"],
     [Edit EXCEPT !.question = TRUE, !.followUp = TRUE, !.terms = FALSE],
     [Plain EXCEPT !.followUp = TRUE, !.prior = <<"main.py">>],
     [Plain EXCEPT !.howOnly = TRUE, !.hint = TRUE, !.editText = TRUE],
     [Plain EXCEPT !.broad = TRUE, !.review = TRUE],
     [Plain EXCEPT !.cmd = "pytest"], [Plain EXCEPT !.cmd = "git log", !.commitIt = TRUE],
     [Plain EXCEPT !.cmd = "ls"],
     [Plain EXCEPT !.url = TRUE], [Plain EXCEPT !.offTopic = TRUE], [Plain EXCEPT !.meta = TRUE],
     [Plain EXCEPT !.commit = TRUE], [Plain EXCEPT !.branch = TRUE]}

MCFinds == {[f \in {} |-> 0], "profile.py" :> 40}
MCClass == [c \in {"pytest", "git log", "git status", "ls"} |->
               CASE c = "pytest" -> "gated" [] c = "ls" -> "auto" [] OTHER -> "read_only"]

Model(a) == [a EXCEPT !.src = "model"]
MCMenu ==
    {Model(Answer), Ask("model"), Ask("approval"), Model(Read(<<"nope.py">>)), Model(Generate("generate_edit", <<>>)),
     Model(Generate("generate_change_set", <<"profile.py">>)), SearchText("user profile", "model"),
     Model(Run("preview_command", "pytest")), Model(Do("create_file"))}
=============================================================================
