--------------------------- MODULE CodebaseIndex ---------------------------
(***************************************************************************)
(* The codebase index of one repository (agent_core/index): an SQLite      *)
(* catalog of files with their postings, brought up to date before every   *)
(* query and after every applied change set while users and the agent      *)
(* write the files.                                                        *)
(*                                                                         *)
(* All operations of the index run under one lock, so there is one job at  *)
(* a time; the files are read step by step while they change.  A file is   *)
(* a content and a stamp: its size and mtime.  Stamps are only compared    *)
(* path by path, and it is assumed that no path gets back a stamp it had:  *)
(* every write, a rename's too, gives a fresh one.                         *)
(***************************************************************************)
EXTENDS Integers, FiniteSets

CONSTANTS
    Files,       \* the paths _iter_files may yield (in an order of the system's)
    TextFiles,   \* those whose suffix or basename is a text file's
    Texts,       \* the contents a file may have
    Binary,      \* the content with NUL bytes, which the sniff refuses
    Terms,       \* the words queries look for
    TermsOf,     \* the words each content has: tokenize
    SymbolsOf,   \* the symbols each content defines: extract_symbols
    MaxFiles,    \* MAX_INDEX_FILES
    Batch,       \* a build commits, and looks at its clock, every 200 files
    MaxWrites    \* bound: writes to the working tree

NoText == "no text"                            \* what a failed read yields

ASSUME FilesAssumption == IsFiniteSet(Files)
ASSUME TextAssumption ==
    /\ Binary \in Texts /\ NoText \notin Texts
    /\ TermsOf \in [Texts -> SUBSET Terms] /\ SymbolsOf \in [Texts -> SUBSET Terms]
ASSUME BoundAssumption ==
    /\ MaxFiles \in Nat /\ Batch \in Nat \ {0} /\ MaxWrites \in Nat

Absent == [text |-> NoText, stamp |-> 0]      \* no such file
NoRow == [stamp |-> 0, sha |-> NoText, text |-> NoText, in |-> FALSE]
NoItem == [op |-> "none", file |-> NoText]

VARIABLES
    disk,     \* the working tree: content and stamp of every path
    clock,    \* the last stamp given
    db,       \* what the connection sees: rows, document counts, meta
    saved,    \* what the last commit left in the file
    job,      \* the operation that holds the index's lock
    owed      \* the delta of an applied change set, not handed over yet

vars == <<disk, clock, db, saved, job, owed>>

Stamps == 0..(1 + MaxWrites)
Reads == Texts \cup {NoText}
Rows == [stamp : Stamps, sha : Reads, text : Reads, in : BOOLEAN]
Items == [op : {"index", "remove"}, file : Files]

Postings(text) == IF text \in Texts THEN TermsOf[text] ELSE {}
Symbols(text) == IF text \in Texts THEN SymbolsOf[text] ELSE {}
Holders(rows, t) == {f \in Files : rows[f].in /\ t \in Postings(rows[f].text)}

Present(f) == disk[f] # Absent
Supported(f) == f \in TextFiles /\ Present(f) /\ disk[f].text # Binary
TextRead(f) == disk[f].text

\* quiet: nothing has been written since the job began;
\* whole: it reconciled every file, neither stopped nor failed
Idle == [kind |-> "idle", at |-> "idle", todo |-> {}, item |-> NoItem,
         sig |-> [f \in Files |-> 0], stamp |-> 0, sha |-> NoText,
         count |-> 0, changed |-> FALSE, quiet |-> TRUE, whole |-> TRUE]

(***************************************************************************)
(* The rows: builder.remove_file and the writing half of index_file        *)
(***************************************************************************)
Decremented(df, ts) == [t \in Terms |-> IF t \in ts /\ df[t] > 0 THEN df[t] - 1 ELSE df[t]]
Incremented(df, ts) == [t \in Terms |-> IF t \in ts THEN df[t] + 1 ELSE df[t]]

Removed(d, f) ==
    IF d.rows[f].in
    THEN [d EXCEPT !.rows = [d.rows EXCEPT ![f] = NoRow],
                   !.df = Decremented(d.df, Postings(d.rows[f].text))]
    ELSE d

\* mutant: a file that is indexed again keeps the counts of its old terms
StoredTwice(d, f, row) ==
    [d EXCEPT !.rows = [d.rows EXCEPT ![f] = row],
              !.df = Incremented(d.df, Postings(row.text))]
Stored(d, f, row) ==
    [d EXCEPT !.rows = [d.rows EXCEPT ![f] = row],
              !.df = Incremented(Removed(d, f).df, Postings(row.text))]

\* the rows of the files that are gone, removed one by one
Dropped(d, gone) ==
    [d EXCEPT !.rows = [f \in Files |-> IF f \in gone THEN NoRow ELSE d.rows[f]],
              !.df = [t \in Terms |-> d.df[t] - Cardinality(Holders(d.rows, t) \cap gone)]]

Stamped(d, f, stamp) ==
    [d EXCEPT !.rows = [d.rows EXCEPT ![f] = [d.rows[f] EXCEPT !.stamp = stamp]]]

Emptied(d) ==
    [d EXCEPT !.rows = [f \in Files |-> NoRow], !.df = [t \in Terms |-> 0]]

(***************************************************************************)
(* Operations: a query, or the delta of an applied change set              *)
(***************************************************************************)
\* MaxFiles of the files that pass, whichever the walk meets first
Walks(passing) ==
    IF Cardinality(passing) <= MaxFiles THEN {passing}
    ELSE {walk \in SUBSET passing : Cardinality(walk) = MaxFiles}
ToIndex(files) == [op : {"index"}, file : files]

\* _ensure_ready: a database of another version, or one that was never
\* built, is built: the rows are dropped and committed, then the schema is
\* stamped and committed.  built_at_ns is left as it is.
QueryBuilds ==
    /\ job = Idle
    /\ ~db.schema \/ ~db.built
    /\ db' = [Emptied(db) EXCEPT !.schema = TRUE]
    /\ saved' = db'
    /\ \E walk \in Walks({f \in Files : Supported(f)}) :
          job' = [Idle EXCEPT !.kind = "build", !.at = "next", !.todo = ToIndex(walk)]
    /\ UNCHANGED <<disk, clock, owed>>

\* refresh_stale: the signature of the tree, whatever the files' kinds; rows
\* it does not name are removed at once.
Refresh(walk, gone) ==
    /\ db' = Dropped(db, gone)
    /\ job' = [Idle EXCEPT !.kind = "refresh", !.at = "next", !.todo = ToIndex(walk),
                           !.sig = [f \in Files |-> disk[f].stamp], !.changed = gone # {}]
    /\ UNCHANGED <<disk, clock, saved, owed>>

\* mutant: the rows of deleted files are kept
QueryKeepsGone ==
    /\ job = Idle /\ db.schema /\ db.built
    /\ \E walk \in Walks({f \in Files : Present(f)}) : Refresh(walk, {})
QueryRefreshes ==
    /\ job = Idle /\ db.schema /\ db.built
    /\ \E walk \in Walks({f \in Files : Present(f)}) :
          Refresh(walk, {f \in Files : db.rows[f].in /\ f \notin walk})

\* apply_delta: what an apply wrote
DeltaStarts ==
    /\ job = Idle /\ owed # {}
    /\ job' = [Idle EXCEPT !.kind = "delta", !.at = "next", !.todo = owed]
    /\ owed' = {}
    /\ UNCHANGED <<disk, clock, db, saved>>

(***************************************************************************)
(* The job's files, one after the other                                    *)
(***************************************************************************)
\* An item is done with; a build commits every Batch files.
ItemDone(item, d, changed) ==
    /\ db' = d
    /\ saved' = IF job.kind = "build" /\ (job.count + 1) % Batch = 0 THEN d ELSE saved
    /\ job' = [job EXCEPT !.at = "next", !.todo = job.todo \ {item}, !.item = NoItem,
                          !.count = job.count + 1, !.changed = job.changed \/ changed,
                          !.stamp = 0, !.sha = NoText]
    /\ UNCHANGED <<disk, clock, owed>>

Takes(item, op) == job.at = "next" /\ item \in job.todo /\ item.op = op
Catalogued(f) == job.kind = "refresh" /\ db.rows[f].in
Unchanged(f) == Catalogued(f) /\ job.sig[f] = db.rows[f].stamp
SameContent(f) == Catalogued(f) /\ Present(f) /\ disk[f].text = db.rows[f].sha

\* size and mtime are those of the row
SkipsUnchanged(item) ==
    /\ Takes(item, "index") /\ Unchanged(item.file)
    /\ ItemDone(item, db, FALSE)

\* mutant: whatever the file holds now, only the stamp is brought up to date
TouchesOnly(item) ==
    /\ Takes(item, "index") /\ ~Unchanged(item.file) /\ Catalogued(item.file)
    /\ ItemDone(item, Stamped(db, item.file, job.sig[item.file]), FALSE)
\* The stamp differs but the content has the row's hash: only the stamp is
\* brought up to date (and nothing asks for a commit).
ConfirmsContent(item) ==
    /\ Takes(item, "index") /\ ~Unchanged(item.file) /\ SameContent(item.file)
    /\ ItemDone(item, Stamped(db, item.file, job.sig[item.file]), FALSE)

ReindexBegins(item) ==
    /\ Takes(item, "index") /\ ~Unchanged(item.file) /\ ~SameContent(item.file)
    /\ job' = [job EXCEPT !.at = "check", !.item = item]
    /\ UNCHANGED <<disk, clock, db, saved, owed>>

RemovesFile(item) ==
    /\ Takes(item, "remove")
    /\ ItemDone(item, Removed(db, item.file), TRUE)

\* index_file: is_supported_text_file reads a sample, then stat, content_sha1
\* and _read_text_capped each open the file again.
File == job.item.file

CheckFails ==
    /\ job.at = "check" /\ ~Supported(File)
    /\ ItemDone(job.item, Removed(db, File), FALSE)
CheckPasses ==
    /\ job.at = "check" /\ Supported(File)
    /\ job' = [job EXCEPT !.at = "stat"]
    /\ UNCHANGED <<disk, clock, db, saved, owed>>

StatFails ==
    /\ job.at = "stat" /\ ~Present(File)
    /\ ItemDone(job.item, Removed(db, File), FALSE)
Stats ==
    /\ job.at = "stat" /\ Present(File)
    /\ job' = [job EXCEPT !.at = "hash", !.stamp = disk[File].stamp]
    /\ UNCHANGED <<disk, clock, db, saved, owed>>

Hashes ==
    /\ job.at = "hash"
    /\ job' = [job EXCEPT !.at = "store", !.sha = TextRead(File)]
    /\ UNCHANGED <<disk, clock, db, saved, owed>>

Stores ==
    /\ job.at = "store"
    /\ ItemDone(job.item, Stored(db, File, [stamp |-> job.stamp, sha |-> job.sha,
                                            text |-> TextRead(File), in |-> TRUE]), TRUE)

(***************************************************************************)
(* The end of a job                                                        *)
(***************************************************************************)
Answers(whole) ==
    [job EXCEPT !.at = "answer", !.todo = {}, !.item = NoItem, !.stamp = 0, !.sha = NoText,
                !.whole = whole]

RefreshEnds ==
    /\ job.at = "next" /\ job.todo = {} /\ job.kind = "refresh"
    /\ saved' = IF job.changed THEN db ELSE saved
    /\ job' = Answers(TRUE)
    /\ UNCHANGED <<disk, clock, db, owed>>

\* The end of the records, or of the time budget after a batch: built either
\* way, the next refresh finds the files that are missing.
BuildEnds ==
    /\ job.at = "next" /\ job.kind = "build"
    /\ job.todo = {} \/ (job.count > 0 /\ job.count % Batch = 0)
    /\ db' = [db EXCEPT !.built = TRUE] /\ saved' = db'
    /\ job' = Answers(job.todo = {})
    /\ UNCHANGED <<disk, clock, owed>>

DeltaEnds ==
    /\ job.at = "next" /\ job.todo = {} /\ job.kind = "delta"
    /\ saved' = db /\ job' = Idle
    /\ UNCHANGED <<disk, clock, db, owed>>

\* Indexing a file raises: a query is answered from what there is, a delta is
\* dropped, and nothing is committed.
JobFails ==
    /\ job.at \in {"hash", "store"}
    /\ job' = IF job.kind = "delta" THEN Idle ELSE Answers(FALSE)
    /\ UNCHANGED <<disk, clock, db, saved, owed>>

Answered ==
    /\ job.at = "answer" /\ job' = Idle
    /\ UNCHANGED <<disk, clock, db, saved, owed>>

(***************************************************************************)
(* The working tree and the process                                        *)
(***************************************************************************)
\* a write by anyone but the index: an editor, git, the agent
Write(change) ==
    /\ clock <= MaxWrites /\ clock' = clock + 1
    /\ disk' = [f \in Files |-> IF f \in DOMAIN change THEN change[f] ELSE disk[f]]
    /\ job' = [job EXCEPT !.quiet = FALSE]
    /\ UNCHANGED <<db, saved>>
Fresh(text) == [text |-> text, stamp |-> clock + 1]

UserWrites ==
    \E f \in Files, text \in Texts :
        Write([p \in {f} |-> Fresh(text)]) /\ UNCHANGED owed
UserDeletes ==
    \E f \in Files :
        Present(f) /\ Write([p \in {f} |-> Absent]) /\ UNCHANGED owed

\* apply_change_set_for_run: the files, then the index on its way out
Delta(op, f) == [op |-> op, file |-> f]
AgentWrites ==
    /\ owed = {}
    /\ \E f \in Files, text \in Texts \ {Binary} :
          Write([p \in {f} |-> Fresh(text)]) /\ owed' = {Delta("index", f)}
AgentDeletes ==
    /\ owed = {}
    /\ \E f \in Files :
          Present(f) /\ Write([p \in {f} |-> Absent]) /\ owed' = {Delta("remove", f)}
AgentRenames ==
    /\ owed = {}
    /\ \E f, g \in Files :
          /\ Present(f) /\ ~Present(g)
          /\ Write([p \in {f, g} |-> IF p = f THEN Absent ELSE Fresh(disk[f].text)])
          /\ owed' = {Delta("remove", f), Delta("index", g)}

\* The worker stops; a new connection sees the last commit.
Restart ==
    /\ db' = saved /\ job' = Idle /\ owed' = {}
    /\ UNCHANGED <<disk, clock, saved>>

Init ==
    /\ disk \in [Files -> {Absent} \cup [text : Texts, stamp : {1}]]
    /\ clock = 1
    /\ \E built \in BOOLEAN :    \* never built, or by another version
          db = [rows |-> [f \in Files |-> NoRow], df |-> [t \in Terms |-> 0],
                schema |-> FALSE, built |-> built]
    /\ saved = db /\ job = Idle /\ owed = {}

TakeStep ==
    \E item \in job.todo :
        SkipsUnchanged(item) \/ ConfirmsContent(item) \/ ReindexBegins(item) \/ RemovesFile(item)
IndexStep == CheckFails \/ CheckPasses \/ StatFails \/ Stats \/ Hashes \/ Stores
EndStep == RefreshEnds \/ BuildEnds \/ DeltaEnds \/ JobFails \/ Answered
TreeStep == UserWrites \/ UserDeletes \/ AgentWrites \/ AgentDeletes \/ AgentRenames

Next ==
    \/ QueryBuilds \/ QueryRefreshes \/ DeltaStarts
    \/ TakeStep \/ IndexStep \/ EndStep \/ TreeStep \/ Restart

Spec == Init /\ [][Next]_vars

(***************************************************************************)
(* What a query returns (query.py), read from the tables                   *)
(***************************************************************************)
\* BM25 over the postings: a term whose count is not positive scores nothing
SearchFiles(t) == IF db.df[t] > 0 THEN Holders(db.rows, t) ELSE {}

\* symbols joined with their files
LookupSymbol(t) == {f \in Files : db.rows[f].in /\ t \in Symbols(db.rows[f].text)}

\* search_text reads the catalogued files again
SearchText(t) == {f \in Files : db.rows[f].in /\ t \in Postings(disk[f].text)}

(***************************************************************************)
(* Properties                                                              *)
(***************************************************************************)
Databases == [rows : [Files -> Rows], df : [Terms -> Nat],
              schema : BOOLEAN, built : BOOLEAN]
Jobs == [kind : {"idle", "build", "refresh", "delta"},
         at : {"idle", "next", "check", "stat", "hash", "store", "answer"},
         todo : SUBSET Items, item : Items \cup {NoItem}, sig : [Files -> Stamps],
         stamp : Stamps, sha : Reads, count : Nat,
         changed : BOOLEAN, quiet : BOOLEAN, whole : BOOLEAN]

TypeOK ==
    /\ disk \in [Files -> {Absent} \cup [text : Texts, stamp : Stamps \ {0}]]
    /\ clock \in Stamps
    /\ db \in Databases /\ saved \in Databases
    /\ job \in Jobs /\ owed \in SUBSET Items

\* The document counts that weigh a search are those of the rows, in the
\* connection and in every state a restart may find, although each file is
\* taken out of the counts and put back one term at a time.
Counted(d) == \A t \in Terms : d.df[t] = Cardinality(Holders(d.rows, t))
CountsMatch == Counted(db) /\ Counted(saved)

\* A row whose stamp is its file's, which every later refresh will skip, has
\* the postings of that file's content, whatever was written between the
\* reads that made it; except when the file changed between the hash and the
\* text and was changed back later.
Torn(row) == row.sha # row.text
Noticed(row, file) ==
    row.in /\ file # Absent /\ row.stamp = file.stamp => row.text = file.text \/ Torn(row)
StaleIsNoticed == \A f \in Files : Noticed(db.rows[f], disk[f])

\* A query during which nothing is written, and which neither stops at its
\* budget nor fails, answers from the tree as it is: every supported file
\* that holds the term or defines the symbol, and no file that does not.
FreshFor(f, t) ==
    /\ Supported(f) /\ t \in Postings(disk[f].text) => f \in SearchFiles(t) \cap SearchText(t)
    /\ Supported(f) /\ t \in Symbols(disk[f].text) => f \in LookupSymbol(t)
    /\ f \in SearchFiles(t) => t \in Postings(disk[f].text)
    /\ f \in LookupSymbol(t) => t \in Symbols(disk[f].text)
QuietQueryIsFresh ==
    job.at = "answer" /\ job.quiet /\ job.whole
      /\ Cardinality({f \in Files : Present(f)}) <= MaxFiles
        => \A f \in Files, t \in Terms :
              FreshFor(f, t) \/ (Present(f) /\ db.rows[f].in /\ Torn(db.rows[f]))
=============================================================================
