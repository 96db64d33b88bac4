------------------------ MODULE CodebaseIndex_proofs ------------------------
(***************************************************************************)
(* Theorems about CodebaseIndex, for any files, contents, terms and bounds. *)
(***************************************************************************)
EXTENDS CodebaseIndex, FiniteSetTheorems, TLAPS

(***************************************************************************)
(* Lemmas on the tables                                                    *)
(***************************************************************************)
\* The files that hold a term are finitely many.
LEMMA HoldersFinite ==
    ASSUME NEW rows, NEW t
    PROVE  IsFiniteSet(Holders(rows, t)) /\ Cardinality(Holders(rows, t)) \in Nat
  <1>1. Holders(rows, t) \in SUBSET Files
    BY DEF Holders
  <1> QED  BY <1>1, FilesAssumption, FS_Subset, FS_CardinalityType

LEMMA PostingsType == ASSUME NEW text PROVE Postings(text) \subseteq Terms
  BY TextAssumption DEF Postings

LEMMA NoRowType == NoRow \in Rows /\ ~NoRow.in
  BY BoundAssumption DEF NoRow, Rows, Stamps, Reads

\* Taking a file out keeps the counts those of the rows.
LEMMA RemovedCounted ==
    ASSUME NEW d \in Databases, NEW f \in Files, Counted(d)
    PROVE  /\ Removed(d, f) \in Databases
           /\ Counted(Removed(d, f))
           /\ Removed(d, f).rows = IF d.rows[f].in THEN [d.rows EXCEPT ![f] = NoRow] ELSE d.rows
           /\ ~Removed(d, f).rows[f].in
  <1>1. CASE ~d.rows[f].in
    BY <1>1 DEF Removed
  <1>2. CASE d.rows[f].in
    <2> DEFINE e == Removed(d, f)
               ts == Postings(d.rows[f].text)
    <2>1. /\ e = [d EXCEPT !.rows = [d.rows EXCEPT ![f] = NoRow], !.df = Decremented(d.df, ts)]
          /\ e.rows = [d.rows EXCEPT ![f] = NoRow] /\ e.df = Decremented(d.df, ts)
      BY <1>2 DEF Removed, Databases
    <2>2. e.rows \in [Files -> Rows] /\ ~e.rows[f].in
      BY <2>1, NoRowType DEF Databases
    <2>3. e.df \in [Terms -> Nat]
      BY <2>1 DEF Decremented, Databases
    <2>4. e \in Databases
      BY <2>1, <2>2, <2>3 DEF Databases
    <2>5. ASSUME NEW t \in Terms
          PROVE  e.df[t] = Cardinality(Holders(e.rows, t))
      <3> DEFINE old == Holders(d.rows, t)
                 new == Holders(e.rows, t)
      <3>1. d.df[t] = Cardinality(old)
        BY DEF Counted
      <3>2. IsFiniteSet(old) /\ Cardinality(old) \in Nat
        BY HoldersFinite
      <3>3. new = old \ {f}
        BY <2>1, NoRowType DEF Holders, Databases
      <3>4. f \in old <=> t \in ts
        BY <1>2 DEF Holders
      <3>5. Cardinality(new) = IF f \in old THEN Cardinality(old) - 1 ELSE Cardinality(old)
        BY <3>2, <3>3, FS_RemoveElement
      <3>6. f \in old => Cardinality(old) > 0
        BY <3>2, FS_EmptySet
      <3>7. e.df[t] = IF t \in ts /\ d.df[t] > 0 THEN d.df[t] - 1 ELSE d.df[t]
        BY <2>1 DEF Decremented
      <3> QED  BY <3>1, <3>2, <3>4, <3>5, <3>6, <3>7
    <2> QED  BY <1>2, <2>1, <2>2, <2>4, <2>5 DEF Counted
  <1> QED  BY <1>1, <1>2

\* So does indexing one, again or for the first time.
LEMMA StoredCounted ==
    ASSUME NEW d \in Databases, NEW f \in Files, Counted(d), NEW row \in Rows, row.in
    PROVE  /\ Stored(d, f, row) \in Databases
           /\ Counted(Stored(d, f, row))
           /\ Stored(d, f, row).rows = [d.rows EXCEPT ![f] = row]
  <1> DEFINE c == Removed(d, f)
             e == Stored(d, f, row)
             ts == Postings(row.text)
  <1>1. /\ e = [d EXCEPT !.rows = [d.rows EXCEPT ![f] = row], !.df = Incremented(c.df, ts)]
        /\ e.rows = [d.rows EXCEPT ![f] = row] /\ e.df = Incremented(c.df, ts)
    BY DEF Stored, Databases
  <1>2. /\ c \in Databases /\ Counted(c) /\ ~c.rows[f].in
        /\ c.rows = IF d.rows[f].in THEN [d.rows EXCEPT ![f] = NoRow] ELSE d.rows
    BY RemovedCounted
  <1>3. e.df \in [Terms -> Nat]
    BY <1>1, <1>2 DEF Incremented, Databases
  <1>r. e.rows \in [Files -> Rows]
    BY <1>1 DEF Databases
  <1> HIDE DEF c
  <1>4. e \in Databases
    BY <1>1, <1>3, <1>r DEF Databases
  <1>5. ASSUME NEW t \in Terms
        PROVE  e.df[t] = Cardinality(Holders(e.rows, t))
    <2> DEFINE old == Holders(c.rows, t)
               new == Holders(e.rows, t)
    <2>1. c.df[t] = Cardinality(old) /\ f \notin old
      BY <1>2 DEF Counted, Holders
    <2>2. IsFiniteSet(old) /\ Cardinality(old) \in Nat
      BY HoldersFinite
    <2>3. new = IF t \in ts THEN old \cup {f} ELSE old
      <3>1. \A g \in Files : g # f => e.rows[g] = c.rows[g]
        BY <1>1, <1>2 DEF Databases
      <3>2. e.rows[f] = row
        BY <1>1 DEF Databases
      <3> QED  BY <1>2, <3>1, <3>2 DEF Holders
    <2>4. Cardinality(old \cup {f}) = Cardinality(old) + 1
      BY <2>1, <2>2, FS_AddElement
    <2>5. e.df[t] = IF t \in ts THEN c.df[t] + 1 ELSE c.df[t]
      BY <1>1 DEF Incremented
    <2> QED  BY <2>1, <2>2, <2>3, <2>4, <2>5
  <1> QED  BY <1>1, <1>4, <1>5 DEF Counted

\* So does taking out the rows of all files that are gone.
LEMMA DroppedCounted ==
    ASSUME NEW d \in Databases, NEW gone \in SUBSET Files, Counted(d)
    PROVE  /\ Dropped(d, gone) \in Databases
           /\ Counted(Dropped(d, gone))
           /\ Dropped(d, gone).rows = [f \in Files |-> IF f \in gone THEN NoRow ELSE d.rows[f]]
  <1> DEFINE e == Dropped(d, gone)
  <1>1. /\ e = [d EXCEPT !.rows = [f \in Files |-> IF f \in gone THEN NoRow ELSE d.rows[f]],
                         !.df = [t \in Terms |-> d.df[t] - Cardinality(Holders(d.rows, t) \cap gone)]]
        /\ e.rows = [f \in Files |-> IF f \in gone THEN NoRow ELSE d.rows[f]]
        /\ e.df = [t \in Terms |-> d.df[t] - Cardinality(Holders(d.rows, t) \cap gone)]
    BY DEF Dropped, Databases
  <1>2. ASSUME NEW t \in Terms
        PROVE  e.df[t] = Cardinality(Holders(e.rows, t)) /\ e.df[t] \in Nat
    <2> DEFINE old == Holders(d.rows, t)
    <2>1. d.df[t] = Cardinality(old) /\ IsFiniteSet(old)
      BY HoldersFinite DEF Counted
    <2>2. Holders(e.rows, t) = old \ gone
      BY <1>1, NoRowType DEF Holders
    <2>3. Cardinality(old \ gone) = Cardinality(old) - Cardinality(old \cap gone)
      BY <2>1, FS_Difference
    <2>4. Cardinality(Holders(e.rows, t)) \in Nat
      BY HoldersFinite
    <2> QED  BY <1>1, <2>1, <2>2, <2>3, <2>4
  <1>3. e.df \in [Terms -> Nat]
    BY <1>1, <1>2
  <1>4. e.rows \in [Files -> Rows]
    BY <1>1, NoRowType DEF Databases
  <1>5. e \in Databases
    BY <1>1, <1>3, <1>4 DEF Databases
  <1> QED  BY <1>1, <1>2, <1>5 DEF Counted

\* A stamp that is brought up to date, and the metadata, count for nothing.
LEMMA StampedCounted ==
    ASSUME NEW d \in Databases, NEW f \in Files, Counted(d), NEW stamp \in Stamps
    PROVE  /\ Stamped(d, f, stamp) \in Databases
           /\ Counted(Stamped(d, f, stamp))
           /\ Stamped(d, f, stamp).rows = [d.rows EXCEPT ![f] = [d.rows[f] EXCEPT !.stamp = stamp]]
  <1> DEFINE e == Stamped(d, f, stamp)
  <1>1. /\ e = [d EXCEPT !.rows = [d.rows EXCEPT ![f] = [d.rows[f] EXCEPT !.stamp = stamp]]]
        /\ e.rows = [d.rows EXCEPT ![f] = [d.rows[f] EXCEPT !.stamp = stamp]] /\ e.df = d.df
    BY DEF Stamped, Databases
  <1>2. [d.rows[f] EXCEPT !.stamp = stamp] \in Rows
    BY DEF Databases, Rows
  <1>3. e \in Databases
    BY <1>1, <1>2 DEF Databases
  <1>4. \A g \in Files : e.rows[g].in = d.rows[g].in /\ e.rows[g].text = d.rows[g].text
    BY <1>1 DEF Databases, Rows
  <1>5. \A t \in Terms : Holders(e.rows, t) = Holders(d.rows, t)
    BY <1>4 DEF Holders
  <1> QED  BY <1>1, <1>3, <1>5 DEF Counted

LEMMA EmptyCounted ==
    ASSUME NEW d, d.rows = [f \in Files |-> NoRow], d.df = [t \in Terms |-> 0]
    PROVE  Counted(d)
  <1>1. \A t \in Terms : Holders(d.rows, t) = {}
    BY NoRowType DEF Holders
  <1> QED  BY <1>1, FS_EmptySet DEF Counted

(***************************************************************************)
(* The shape of the state, and the counts                                  *)
(***************************************************************************)
AtItem == job.at \in {"check", "stat", "hash", "store"} => job.item \in job.todo
TypeInv == TypeOK /\ CountsMatch /\ AtItem

LEMMA IdleType == Idle \in Jobs /\ Idle.at = "idle" /\ Idle.kind = "idle"
  BY BoundAssumption DEF Idle, Jobs, Stamps, Reads

\* What a write leaves alone, and what it makes of the paths.
LEMMA WriteEffect ==
    ASSUME TypeOK, TreeStep
    PROVE  /\ clock' = clock + 1 /\ clock' \in Stamps
           /\ disk' \in [Files -> {Absent} \cup [text : Texts, stamp : Stamps \ {0}]]
           /\ \A f \in Files : \/ disk'[f] = disk[f]
                               \/ disk'[f] = Absent
                               \/ disk'[f].stamp = clock + 1 /\ disk'[f] # Absent
           /\ job' = [job EXCEPT !.quiet = FALSE] /\ job' \in Jobs
           /\ db' = db /\ saved' = saved /\ owed' \in SUBSET Items
  <1> DEFINE Written == {Absent} \cup {Fresh(text) : text \in Texts}
  <1>1. PICK change : /\ Write(change)
                      /\ \A f \in DOMAIN change : change[f] \in Written
                      /\ owed' \in SUBSET Items
    <2>1. CASE UserWrites
      BY <2>1 DEF UserWrites, TypeOK
    <2>2. CASE UserDeletes
      BY <2>2 DEF UserDeletes, TypeOK
    <2>3. CASE AgentWrites
      BY <2>3 DEF AgentWrites, Delta, Items
    <2>4. CASE AgentDeletes
      BY <2>4 DEF AgentDeletes, Delta, Items
    <2>5. CASE AgentRenames
      <3>1. PICK f \in Files, g \in Files :
              /\ Present(f)
              /\ Write([p \in {f, g} |-> IF p = f THEN Absent ELSE Fresh(disk[f].text)])
              /\ owed' = {Delta("remove", f), Delta("index", g)}
        BY <2>5 DEF AgentRenames
      <3>2. disk[f].text \in Texts
        BY <3>1 DEF Present, TypeOK
      <3> QED  BY <3>1, <3>2 DEF Delta, Items
    <2> QED  BY <2>1, <2>2, <2>3, <2>4, <2>5 DEF TreeStep
  <1>2. clock' = clock + 1 /\ clock' \in Stamps /\ clock + 1 \in Stamps \ {0}
    BY <1>1, BoundAssumption DEF Write, TypeOK, Stamps
  <1>3. \A w \in Written : w = Absent \/ (w.stamp = clock + 1 /\ w # Absent
                                            /\ w \in [text : Texts, stamp : Stamps \ {0}])
    BY <1>2 DEF Fresh, Absent, Stamps
  <1>4. \A f \in Files : disk'[f] = disk[f] \/ disk'[f] \in Written
    BY <1>1 DEF Write
  <1>5. disk' = [f \in Files |-> disk'[f]]
    BY <1>1 DEF Write
  <1>6. job' = [job EXCEPT !.quiet = FALSE] /\ job' \in Jobs
    BY <1>1 DEF Write, TypeOK, Jobs
  <1>7. disk' \in [Files -> {Absent} \cup [text : Texts, stamp : Stamps \ {0}]]
    BY <1>3, <1>4, <1>5 DEF TypeOK
  <1> QED  BY <1>1, <1>2, <1>3, <1>4, <1>6, <1>7 DEF Write

\* What ItemDone needs of the tables it is given.
LEMMA DoneType ==
    ASSUME TypeInv, NEW item \in Items, NEW d \in Databases, Counted(d),
           NEW changed \in BOOLEAN, ItemDone(item, d, changed)
    PROVE  TypeInv'
  <1>z. 0 \in Stamps /\ NoText \in Reads
    BY BoundAssumption DEF Stamps, Reads
  <1>j. job \in Jobs /\ job.todo \ {item} \in SUBSET Items /\ job.count + 1 \in Nat
    BY DEF TypeInv, TypeOK, Jobs
  <1>c. (job.changed \/ changed) \in BOOLEAN
    OBVIOUS
  <1>1. job' \in Jobs /\ job'.at = "next"
    BY <1>z, <1>j, <1>c DEF ItemDone, Jobs
  <1>2. db' \in Databases /\ saved' \in Databases /\ Counted(db)' /\ Counted(saved)'
    BY DEF ItemDone, TypeInv, TypeOK, CountsMatch, Counted
  <1> QED  BY <1>1, <1>2 DEF ItemDone, TypeInv, TypeOK, CountsMatch, AtItem

\* Init has the types, empty tables and no job.
LEMMA InitTypeInv == Init => TypeInv
  <1> SUFFICES ASSUME Init PROVE TypeInv
    OBVIOUS
  <1>1. disk \in [Files -> {Absent} \cup [text : Texts, stamp : Stamps \ {0}]] /\ clock \in Stamps
    BY BoundAssumption DEF Init, Stamps
  <1>2. db \in Databases /\ saved \in Databases
    BY NoRowType DEF Init, Databases
  <1>3. Counted(db) /\ Counted(saved)
    BY EmptyCounted DEF Init
  <1> QED  BY <1>1, <1>2, <1>3, IdleType DEF Init, TypeInv, TypeOK, CountsMatch, AtItem

\* Every step of the index, of the tree and of the process keeps them.
LEMMA NextTypeInv == TypeInv /\ [Next]_vars => TypeInv'
  <1> SUFFICES ASSUME TypeInv, [Next]_vars PROVE TypeInv'
    OBVIOUS
  <1> USE DEF TypeInv
  <1>t. /\ TypeOK /\ Counted(db) /\ Counted(saved) /\ job \in Jobs
        /\ db \in Databases /\ saved \in Databases
    BY DEF TypeOK, CountsMatch
  <1>1. CASE QueryBuilds
    <2>1. PICK walk \in Walks({f \in Files : Supported(f)}) :
            job' = [Idle EXCEPT !.kind = "build", !.at = "next", !.todo = ToIndex(walk)]
      BY <1>1 DEF QueryBuilds
    <2>2. ToIndex(walk) \in SUBSET Items
      BY <2>1 DEF Walks, ToIndex, Items
    <2>3. job' \in Jobs /\ job'.at = "next"
      BY <2>1, <2>2, IdleType DEF Jobs
    <2>4. /\ db' \in Databases /\ db'.rows = [f \in Files |-> NoRow]
          /\ db'.df = [t \in Terms |-> 0]
      BY <1>1, <1>t, NoRowType DEF QueryBuilds, Emptied, Databases
    <2>5. Counted(db')
      BY <2>4, EmptyCounted
    <2> QED  BY <1>1, <2>3, <2>4, <2>5 DEF QueryBuilds, TypeOK, CountsMatch, Counted, AtItem
  <1>2. CASE QueryRefreshes
    <2>1. PICK walk \in Walks({f \in Files : Present(f)}) :
            Refresh(walk, {f \in Files : db.rows[f].in /\ f \notin walk})
      BY <1>2 DEF QueryRefreshes
    <2> DEFINE gone == {f \in Files : db.rows[f].in /\ f \notin walk}
    <2>2. ToIndex(walk) \in SUBSET Items
      BY <2>1 DEF Walks, ToIndex, Items
    <2>3. [f \in Files |-> disk[f].stamp] \in [Files -> Stamps]
      BY BoundAssumption DEF TypeOK, Absent, Stamps
    <2>4. job' = [Idle EXCEPT !.kind = "refresh", !.at = "next", !.todo = ToIndex(walk),
                              !.sig = [f \in Files |-> disk[f].stamp], !.changed = gone # {}]
      BY <2>1 DEF Refresh
    <2>5. job' \in Jobs /\ job'.at = "next"
      BY <2>2, <2>3, <2>4, IdleType DEF Jobs
    <2>6. db' = Dropped(db, gone) /\ gone \in SUBSET Files
      BY <2>1 DEF Refresh
    <2>7. db' \in Databases /\ Counted(db')
      BY <1>t, <2>6, DroppedCounted
    <2> QED  BY <1>t, <2>1, <2>5, <2>7 DEF Refresh, TypeOK, CountsMatch, Counted, AtItem
  <1>3. CASE DeltaStarts
    <2>1. job' \in Jobs /\ job'.at = "next"
      BY <1>3, IdleType DEF DeltaStarts, Jobs, TypeOK
    <2> QED  BY <1>3, <2>1 DEF DeltaStarts, TypeOK, CountsMatch, Counted, AtItem
  <1>4. CASE TakeStep
    <2>1. PICK item \in job.todo : SkipsUnchanged(item) \/ ConfirmsContent(item)
                                     \/ ReindexBegins(item) \/ RemovesFile(item)
      BY <1>4 DEF TakeStep
    <2>2. item \in Items /\ item.file \in Files
      BY <1>t DEF Jobs, Items
    <2>3. CASE SkipsUnchanged(item)
      BY <1>t, <2>2, <2>3, DoneType DEF SkipsUnchanged
    <2>4. CASE ConfirmsContent(item)
      <3>1. job.sig[item.file] \in Stamps
        BY <1>t, <2>2 DEF Jobs
      <3> QED  BY <1>t, <2>2, <2>4, <3>1, StampedCounted, DoneType DEF ConfirmsContent
    <2>5. CASE ReindexBegins(item)
      <3>1. job' \in Jobs /\ job'.item \in job'.todo
        BY <1>t, <2>2, <2>5 DEF ReindexBegins, Jobs
      <3> QED  BY <2>5, <3>1 DEF ReindexBegins, TypeOK, CountsMatch, Counted, AtItem
    <2>6. CASE RemovesFile(item)
      BY <1>t, <2>2, <2>6, RemovedCounted, DoneType DEF RemovesFile
    <2> QED  BY <2>1, <2>3, <2>4, <2>5, <2>6
  <1>5. CASE IndexStep
    <2>1. job.item \in Items /\ File \in Files /\ job.item \in job.todo
      BY <1>5, <1>t DEF IndexStep, CheckFails, CheckPasses, StatFails, Stats, Hashes, Stores,
                        AtItem, Jobs, Items, File
    <2>2. disk[File].stamp \in Stamps /\ TextRead(File) \in Reads
      BY <2>1, BoundAssumption DEF TypeOK, Absent, Stamps, Reads, TextRead
    <2>3. CASE CheckFails
      BY <1>t, <2>1, <2>3, RemovedCounted, DoneType DEF CheckFails
    <2>4. CASE StatFails
      BY <1>t, <2>1, <2>4, RemovedCounted, DoneType DEF StatFails
    <2>5. CASE Stores
      <3> DEFINE row == [stamp |-> job.stamp, sha |-> job.sha, text |-> TextRead(File), in |-> TRUE]
      <3>1. row \in Rows /\ row.in
        BY <1>t, <2>2 DEF Rows, Jobs
      <3>2. ItemDone(job.item, Stored(db, File, row), TRUE)
        BY <2>5 DEF Stores
      <3> HIDE DEF row
      <3> QED  BY <1>t, <2>1, <3>1, <3>2, StoredCounted, DoneType
    <2>6. CASE CheckPasses
      <3>1. job' \in Jobs /\ job'.item \in job'.todo
        BY <1>t, <2>1, <2>6 DEF CheckPasses, Jobs
      <3> QED  BY <2>6, <3>1 DEF CheckPasses, TypeOK, CountsMatch, Counted, AtItem
    <2>7. CASE Stats
      <3>1. job' \in Jobs /\ job'.item \in job'.todo
        BY <1>t, <2>1, <2>2, <2>7 DEF Stats, Jobs
      <3> QED  BY <2>7, <3>1 DEF Stats, TypeOK, CountsMatch, Counted, AtItem
    <2>8. CASE Hashes
      <3>1. job' \in Jobs /\ job'.item \in job'.todo
        BY <1>t, <2>1, <2>2, <2>8 DEF Hashes, Jobs
      <3> QED  BY <2>8, <3>1 DEF Hashes, TypeOK, CountsMatch, Counted, AtItem
    <2> QED  BY <1>5, <2>3, <2>4, <2>5, <2>6, <2>7, <2>8 DEF IndexStep
  <1>6. CASE EndStep
    <2>z. 0 \in Stamps /\ NoText \in Reads
      BY BoundAssumption DEF Stamps, Reads
    <2>1. \A whole \in BOOLEAN : Answers(whole) \in Jobs /\ Answers(whole).at = "answer"
      BY <1>t, <2>z DEF Answers, Jobs
    <2>2. CASE RefreshEnds
      BY <1>t, <2>1, <2>2 DEF RefreshEnds, TypeOK, CountsMatch, Counted, AtItem
    <2>3. CASE BuildEnds
      <3>1. /\ db' = [db EXCEPT !.built = TRUE] /\ saved' = db'
            /\ job' = Answers(job.todo = {})
        BY <2>3 DEF BuildEnds
      <3>2. db' \in Databases /\ db'.rows = db.rows /\ db'.df = db.df
        BY <1>t, <3>1 DEF Databases
      <3> QED  BY <1>t, <2>1, <2>3, <3>1, <3>2 DEF BuildEnds, TypeOK, CountsMatch, Counted, AtItem
    <2>4. CASE DeltaEnds
      BY <1>t, IdleType, <2>4 DEF DeltaEnds, TypeOK, CountsMatch, Counted, AtItem
    <2>5. CASE JobFails
      BY <1>t, IdleType, <2>1, <2>5 DEF JobFails, TypeOK, CountsMatch, Counted, AtItem
    <2>6. CASE Answered
      BY <1>t, IdleType, <2>6 DEF Answered, TypeOK, CountsMatch, Counted, AtItem
    <2> QED  BY <1>6, <2>2, <2>3, <2>4, <2>5, <2>6 DEF EndStep
  <1>7. CASE TreeStep
    <2>1. job'.at = job.at /\ job'.item = job.item /\ job'.todo = job.todo
      BY <1>t, <1>7, WriteEffect DEF Jobs
    <2> QED  BY <1>t, <1>7, <2>1, WriteEffect DEF TypeOK, CountsMatch, Counted, AtItem
  <1>8. CASE Restart
    BY <1>t, <1>8, IdleType DEF Restart, TypeOK, CountsMatch, Counted, AtItem
  <1>9. CASE UNCHANGED vars
    BY <1>t, <1>9 DEF vars, TypeOK, CountsMatch, Counted, AtItem
  <1> QED  BY <1>1, <1>2, <1>3, <1>4, <1>5, <1>6, <1>7, <1>8, <1>9 DEF Next

\* The tree, the tables, the job and the delta keep their shape.
THEOREM IndexTyped == Spec => []TypeOK
  <1>1. TypeInv => TypeOK
    BY DEF TypeInv
  <1> QED  BY <1>1, InitTypeInv, NextTypeInv, PTL DEF Spec

\* The document counts are those of the rows, in the connection and in what
\* any restart finds: builder.remove_file and index_file keep them exact.
THEOREM CountsAlwaysMatch == Spec => []CountsMatch
  <1>1. TypeInv => CountsMatch
    BY DEF TypeInv
  <1> QED  BY <1>1, InitTypeInv, NextTypeInv, PTL DEF Spec

(***************************************************************************)
(* Staleness: stamps are never ahead of the clock, and a write's is        *)
(***************************************************************************)
Sound(d) == \A f \in Files : d.rows[f].stamp <= clock /\ Noticed(d.rows[f], disk[f])
Bounded ==
    /\ \A f \in Files : disk[f].stamp <= clock /\ job.sig[f] <= clock
    /\ job.stamp <= clock
StaleInv == Bounded /\ Sound(db) /\ Sound(saved)

LEMMA ClockType == TypeOK => clock \in Nat /\ clock >= 0 /\ Stamps \subseteq Nat
  BY BoundAssumption DEF TypeOK, Stamps

LEMMA NoRowSound ==
    ASSUME TypeOK, NEW f \in Files
    PROVE  NoRow.stamp <= clock /\ Noticed(NoRow, disk[f])
  BY ClockType DEF NoRow, Noticed

\* Tables in which a row is taken out or replaced by a sound one are sound.
LEMMA SoundRows ==
    ASSUME TypeOK, NEW d, NEW e, Sound(d),
           \A f \in Files : \/ e.rows[f] = d.rows[f]
                            \/ e.rows[f] = NoRow
                            \/ e.rows[f].stamp <= clock /\ Noticed(e.rows[f], disk[f])
    PROVE  Sound(e)
  BY NoRowSound DEF Sound

LEMMA SoundDone ==
    ASSUME TypeInv, StaleInv, NEW item, NEW d, NEW changed, Sound(d), ItemDone(item, d, changed)
    PROVE  StaleInv'
  <1>1. disk' = disk /\ clock' = clock /\ db' = d /\ (saved' = d \/ saved' = saved)
    BY DEF ItemDone
  <1>2. job'.sig = job.sig /\ job'.stamp = 0
    BY DEF ItemDone, TypeInv, TypeOK, Jobs
  <1>3. Sound(db)' /\ Sound(saved)'
    BY <1>1 DEF StaleInv, Sound
  <1>4. clock >= 0
    BY ClockType DEF TypeInv
  <1> QED  BY <1>1, <1>2, <1>3, <1>4 DEF StaleInv, Bounded

\* A job that begins, ends or reads a file leaves the tables as sound.
LEMMA SoundJob ==
    ASSUME TypeInv, StaleInv, disk' = disk, clock' = clock, Sound(db'), Sound(saved'),
           job'.stamp <= clock, \A f \in Files : job'.sig[f] <= clock
    PROVE  StaleInv'
  BY DEF StaleInv, Bounded, Sound

LEMMA IdleSound ==
    ASSUME TypeInv
    PROVE  Idle.stamp <= clock /\ \A f \in Files : Idle.sig[f] <= clock
  BY ClockType DEF Idle, TypeInv

LEMMA InitStaleInv == Init => StaleInv
  <1> SUFFICES ASSUME Init PROVE StaleInv
    OBVIOUS
  <1>1. TypeInv
    BY InitTypeInv
  <1>2. Sound(db)
    BY <1>1, NoRowSound DEF Init, Sound, TypeInv
  <1>3. \A f \in Files : disk[f].stamp <= clock
    BY DEF Init, Absent
  <1> QED  BY <1>1, <1>2, <1>3, IdleSound DEF Init, StaleInv, Bounded

LEMMA NextStaleInv == TypeInv /\ StaleInv /\ [Next]_vars => StaleInv'
  <1> SUFFICES ASSUME TypeInv, StaleInv, [Next]_vars PROVE StaleInv'
    OBVIOUS
  <1>t. /\ TypeOK /\ job \in Jobs /\ db \in Databases /\ saved \in Databases
        /\ Counted(db) /\ clock \in Nat /\ Sound(db) /\ Sound(saved) /\ Bounded
    BY ClockType DEF TypeInv, TypeOK, CountsMatch, StaleInv
  <1>1. CASE QueryBuilds
    <2>1. PICK walk \in Walks({f \in Files : Supported(f)}) :
            job' = [Idle EXCEPT !.kind = "build", !.at = "next", !.todo = ToIndex(walk)]
      BY <1>1 DEF QueryBuilds
    <2>2. db'.rows = [f \in Files |-> NoRow] /\ saved' = db'
      BY <1>1, <1>t DEF QueryBuilds, Emptied, Databases
    <2>3. Sound(db')
      BY <1>t, <2>2, SoundRows
    <2>4. job'.stamp = Idle.stamp /\ job'.sig = Idle.sig
      BY <2>1 DEF Idle
    <2> QED  BY <1>1, <2>2, <2>3, <2>4, IdleSound, SoundJob DEF QueryBuilds
  <1>2. CASE QueryRefreshes
    <2>1. PICK walk \in Walks({f \in Files : Present(f)}) :
            Refresh(walk, {f \in Files : db.rows[f].in /\ f \notin walk})
      BY <1>2 DEF QueryRefreshes
    <2> DEFINE gone == {f \in Files : db.rows[f].in /\ f \notin walk}
    <2>2. db' = Dropped(db, gone) /\ saved' = saved /\ gone \in SUBSET Files
      BY <2>1 DEF Refresh
    <2>3. db'.rows = [f \in Files |-> IF f \in gone THEN NoRow ELSE db.rows[f]]
      BY <1>t, <2>2, DroppedCounted
    <2>4. Sound(db')
      BY <1>t, <2>3, SoundRows
    <2>5. job'.stamp = Idle.stamp /\ job'.sig = [f \in Files |-> disk[f].stamp]
      BY <2>1 DEF Refresh, Idle
    <2>6. disk' = disk /\ clock' = clock
      BY <2>1 DEF Refresh
    <2>7. \A f \in Files : job'.sig[f] <= clock
      BY <1>t, <2>5 DEF Bounded
    <2> QED  BY <1>t, <2>2, <2>4, <2>5, <2>6, <2>7, IdleSound, SoundJob
  <1>3. CASE DeltaStarts
    <2>1. job'.stamp = Idle.stamp /\ job'.sig = Idle.sig
      BY <1>3 DEF DeltaStarts, Idle
    <2> QED  BY <1>3, <1>t, <2>1, IdleSound, SoundJob DEF DeltaStarts
  <1>4. CASE TakeStep
    <2>1. PICK item \in job.todo : SkipsUnchanged(item) \/ ConfirmsContent(item)
                                     \/ ReindexBegins(item) \/ RemovesFile(item)
      BY <1>4 DEF TakeStep
    <2>2. item \in Items /\ item.file \in Files
      BY <1>t DEF Jobs, Items
    <2>3. CASE SkipsUnchanged(item)
      BY <1>t, <2>3, SoundDone DEF SkipsUnchanged
    <2>4. CASE ConfirmsContent(item)
      <3> DEFINE f == item.file
                 e == Stamped(db, f, job.sig[f])
      <3>1. job.sig[f] \in Stamps /\ job.sig[f] <= clock
        BY <1>t, <2>2 DEF Jobs, Bounded
      <3>2. e.rows = [db.rows EXCEPT ![f] = [db.rows[f] EXCEPT !.stamp = job.sig[f]]]
        BY <1>t, <2>2, <3>1, StampedCounted
      <3>3. disk[f].text = db.rows[f].sha
        BY <2>4 DEF ConfirmsContent, SameContent
      <3>4. /\ e.rows[f].sha = db.rows[f].sha /\ e.rows[f].text = db.rows[f].text
            /\ e.rows[f].stamp = job.sig[f]
        BY <1>t, <2>2, <3>2 DEF Databases, Rows
      <3>5. Noticed(e.rows[f], disk[f])
        BY <3>3, <3>4 DEF Noticed, Torn
      <3>6. \A g \in Files : g # f => e.rows[g] = db.rows[g]
        BY <1>t, <2>2, <3>2 DEF Databases
      <3>7. ItemDone(item, e, FALSE)
        BY <2>4 DEF ConfirmsContent
      <3>8. Sound(e)
        <4> HIDE DEF e
        <4> QED  BY <1>t, <3>1, <3>4, <3>5, <3>6 DEF Sound
      <3> HIDE DEF e
      <3> QED  BY <3>7, <3>8, SoundDone
    <2>5. CASE ReindexBegins(item)
      <3>1. job'.stamp = job.stamp /\ job'.sig = job.sig
        BY <1>t, <2>5 DEF ReindexBegins, Jobs
      <3> QED  BY <1>t, <2>5, <3>1, SoundJob DEF ReindexBegins, Bounded
    <2>6. CASE RemovesFile(item)
      <3>r. Removed(db, item.file).rows = IF db.rows[item.file].in
                                          THEN [db.rows EXCEPT ![item.file] = NoRow] ELSE db.rows
        BY <1>t, <2>2, RemovedCounted
      <3>1. \A f \in Files : \/ Removed(db, item.file).rows[f] = db.rows[f]
                             \/ Removed(db, item.file).rows[f] = NoRow
        BY <1>t, <2>2, <3>r DEF Databases
      <3>2. Sound(Removed(db, item.file))
        BY <1>t, <3>1, SoundRows
      <3> QED  BY <2>6, <3>2, SoundDone DEF RemovesFile
    <2> QED  BY <2>1, <2>3, <2>4, <2>5, <2>6
  <1>5. CASE IndexStep
    <2>1. File \in Files /\ disk[File].stamp <= clock
      BY <1>5, <1>t DEF IndexStep, CheckFails, CheckPasses, StatFails, Stats, Hashes, Stores,
                        TypeInv, AtItem, Jobs, Items, File, Bounded
    <2>2. CASE CheckFails \/ StatFails
      <3>r. Removed(db, File).rows = IF db.rows[File].in
                                     THEN [db.rows EXCEPT ![File] = NoRow] ELSE db.rows
        BY <1>t, <2>1, RemovedCounted
      <3>1. \A f \in Files : \/ Removed(db, File).rows[f] = db.rows[f]
                             \/ Removed(db, File).rows[f] = NoRow
        BY <1>t, <2>1, <3>r DEF Databases
      <3>2. Sound(Removed(db, File))
        BY <1>t, <3>1, SoundRows
      <3> QED  BY <2>2, <3>2, SoundDone DEF CheckFails, StatFails
    <2>3. CASE Stores
      <3> DEFINE row == [stamp |-> job.stamp, sha |-> job.sha, text |-> TextRead(File), in |-> TRUE]
                 e == Stored(db, File, row)
      <3>1. ItemDone(job.item, e, TRUE)
        BY <2>3 DEF Stores
      <3>2. /\ row.stamp <= clock /\ Noticed(row, disk[File])
        BY <1>t DEF Bounded, Noticed, TextRead
      <3>3. e.rows = [db.rows EXCEPT ![File] = row]
        BY <1>t DEF Stored, Databases
      <3>4. \A f \in Files : e.rows[f] = db.rows[f] \/ (f = File /\ e.rows[f] = row)
        BY <1>t, <3>3 DEF Databases
      <3> HIDE DEF e, row
      <3>5. Sound(e)
        BY <1>t, <3>2, <3>4, SoundRows
      <3> QED  BY <3>1, <3>5, SoundDone
    <2>4. CASE CheckPasses \/ Hashes
      <3>1. job'.stamp = job.stamp /\ job'.sig = job.sig
        BY <1>t, <2>4 DEF CheckPasses, Hashes, Jobs
      <3> QED  BY <1>t, <2>4, <3>1, SoundJob DEF CheckPasses, Hashes, Bounded
    <2>5. CASE Stats
      <3>1. job'.stamp = disk[File].stamp /\ job'.sig = job.sig
        BY <1>t, <2>5 DEF Stats, Jobs
      <3> QED  BY <1>t, <2>1, <2>5, <3>1, SoundJob DEF Stats, Bounded
    <2> QED  BY <1>5, <2>2, <2>3, <2>4, <2>5 DEF IndexStep
  <1>6. CASE EndStep
    <2>1. \A whole : Answers(whole).stamp = 0 /\ Answers(whole).sig = job.sig
      BY <1>t DEF Answers, Jobs
    <2>2. disk' = disk /\ clock' = clock /\ (job' = Idle \/ \E whole : job' = Answers(whole))
      BY <1>6 DEF EndStep, RefreshEnds, BuildEnds, DeltaEnds, JobFails, Answered
    <2>3. db'.rows = db.rows /\ (saved' = saved \/ saved' = db')
      <3>1. CASE BuildEnds
        BY <1>t, <3>1 DEF BuildEnds, Databases
      <3>2. CASE RefreshEnds \/ DeltaEnds \/ JobFails \/ Answered
        BY <3>2 DEF RefreshEnds, DeltaEnds, JobFails, Answered
      <3> QED  BY <1>6, <3>1, <3>2 DEF EndStep
    <2>4. Sound(db') /\ Sound(saved')
      BY <1>t, <2>3 DEF Sound
    <2> QED  BY <1>t, <2>1, <2>2, <2>4, IdleSound, SoundJob DEF Bounded
  <1>7. CASE TreeStep
    <2>1. /\ clock' = clock + 1 /\ db' = db /\ saved' = saved
          /\ \A f \in Files : \/ disk'[f] = disk[f]
                              \/ disk'[f] = Absent
                              \/ disk'[f].stamp = clock + 1 /\ disk'[f] # Absent
      BY <1>t, <1>7, WriteEffect
    <2>2. job'.stamp = job.stamp /\ job'.sig = job.sig
      BY <1>t, <1>7, WriteEffect DEF Jobs
    <2>s. \A f \in Files : db.rows[f].stamp \in Stamps /\ saved.rows[f].stamp \in Stamps
      BY <1>t DEF Databases, Rows
    <2>a. Stamps \subseteq Nat
      BY <1>t, ClockType
    <2>d. ASSUME NEW f \in Files PROVE disk[f].stamp \in Nat
      <3>1. disk[f] \in {Absent} \cup [text : Texts, stamp : Stamps \ {0}]
        BY <1>t DEF TypeOK
      <3>2. CASE disk[f] = Absent
        BY <3>2 DEF Absent
      <3>3. CASE disk[f] \in [text : Texts, stamp : Stamps \ {0}]
        BY <3>3, <2>a
      <3> QED  BY <3>1, <3>2, <3>3
    <2>j. \A f \in Files : job.sig[f] \in Stamps
      BY <1>t DEF Jobs
    <2>3. \A f \in Files : /\ disk[f].stamp \in Nat /\ job.sig[f] \in Nat
                           /\ db.rows[f].stamp \in Nat /\ saved.rows[f].stamp \in Nat
      BY <2>s, <2>d, <2>j, <2>a
    <2>4. job.stamp \in Nat
      BY <1>t, ClockType DEF Jobs
    <2>5. Bounded'
      BY <1>t, <2>1, <2>2, <2>3, <2>4 DEF Bounded, Absent
    <2>6. ASSUME NEW d, Sound(d), \A f \in Files : d.rows[f].stamp \in Nat, NEW f \in Files
          PROVE  d.rows[f].stamp <= clock + 1 /\ Noticed(d.rows[f], disk'[f])
      BY <1>t, <2>1, <2>6 DEF Sound, Noticed
    <2> QED  BY <1>t, <2>1, <2>3, <2>5, <2>6 DEF StaleInv, Sound
  <1>8. CASE Restart
    BY <1>t, <1>8, IdleSound, SoundJob DEF Restart
  <1>9. CASE UNCHANGED vars
    BY <1>t, <1>9 DEF vars, StaleInv, Bounded, Sound
  <1> QED  BY <1>1, <1>2, <1>3, <1>4, <1>5, <1>6, <1>7, <1>8, <1>9 DEF Next

\* A row whose stamp is that of its file, which refresh_stale will skip from
\* now on, has the postings of that file's content, or was torn.
THEOREM StaleAlwaysNoticed == Spec => []StaleIsNoticed
  <1>1. StaleInv => StaleIsNoticed
    BY DEF StaleInv, Sound, StaleIsNoticed
  <1> QED  BY <1>1, InitTypeInv, NextTypeInv, InitStaleInv, NextStaleInv, PTL DEF Spec

(***************************************************************************)
(* Freshness: during a quiet job, a file waits for its turn or is settled  *)
(***************************************************************************)
Small == Cardinality({f \in Files : Present(f)}) <= MaxFiles
Reconciling ==
    /\ job.quiet /\ job.kind \in {"build", "refresh"} /\ Small
    /\ job.at = "answer" => job.whole
Pending(f) == \E item \in job.todo : item.file = f
Settled(d, f) ==
    /\ d.rows[f].in => Present(f) /\ (d.rows[f].text = disk[f].text \/ Torn(d.rows[f]))
    /\ Supported(f) => d.rows[f].in
QuietInv ==
    /\ job.at = "answer" => job.todo = {} /\ job.kind \in {"build", "refresh"}
    /\ job.kind = "idle" => job.at = "idle"
    /\ Reconciling =>
          /\ \A f \in Files : Pending(f) \/ Settled(db, f)
          /\ \A item \in job.todo : item.op = "index" /\ Present(item.file)
          /\ job.kind = "refresh" => \A f \in Files : job.sig[f] = disk[f].stamp

\* With few enough files the walk meets all of them.
LEMMA WalksAll ==
    ASSUME Small, NEW passing \in SUBSET {f \in Files : Present(f)}, NEW walk \in Walks(passing)
    PROVE  walk = passing
  <1>1. IsFiniteSet({f \in Files : Present(f)})
    BY FilesAssumption, FS_Subset
  <1>2. /\ Cardinality(passing) <= Cardinality({f \in Files : Present(f)})
        /\ Cardinality(passing) \in Nat /\ Cardinality({f \in Files : Present(f)}) \in Nat
    BY <1>1, FS_Subset, FS_CardinalityType
  <1>3. Cardinality(passing) <= MaxFiles
    BY <1>2, BoundAssumption DEF Small
  <1> QED  BY <1>3 DEF Walks

\* An item that is done with, its file settled, leaves the others as they are.
LEMMA QuietDone ==
    ASSUME TypeInv, QuietInv, job.at \notin {"answer", "idle"}, NEW item \in job.todo, NEW d, NEW changed,
           ItemDone(item, d, changed),
           \A g \in Files : g # item.file => d.rows[g] = db.rows[g],
           Reconciling => Settled(d, item.file)
    PROVE  QuietInv'
  <1>1. /\ job'.at = "next" /\ job'.todo = job.todo \ {item} /\ job'.quiet = job.quiet
        /\ job'.kind = job.kind /\ job'.sig = job.sig
    BY DEF ItemDone, TypeInv, TypeOK, Jobs
  <1>2. disk' = disk /\ db' = d
    BY DEF ItemDone
  <1> SUFFICES ASSUME Reconciling'
               PROVE  /\ \A f \in Files : Pending(f)' \/ Settled(d, f)
                      /\ \A other \in job.todo : other.op = "index" /\ Present(other.file)
                      /\ job.kind = "refresh" => \A f \in Files : job.sig[f] = disk[f].stamp
    BY <1>1, <1>2 DEF QuietInv, Settled, Present, Supported
  <1>3. Reconciling
    BY <1>1, <1>2 DEF Reconciling, Small, Present
  <1>4. ASSUME NEW f \in Files, f # item.file, Pending(f)
        PROVE  Pending(f)'
    BY <1>1, <1>4 DEF Pending
  <1>5. ASSUME NEW f \in Files, f # item.file, Settled(db, f)
        PROVE  Settled(d, f)
    BY <1>5 DEF Settled
  <1> QED  BY <1>3, <1>4, <1>5 DEF QuietInv

\* A step that only reads, or writes no rows and keeps the job's plan.
LEMMA QuietReads ==
    ASSUME QuietInv, disk' = disk, db'.rows = db.rows, job.at \notin {"answer", "idle"}, job'.at # "answer",
           job'.todo = job.todo, job'.quiet = job.quiet, job'.kind = job.kind, job'.sig = job.sig
    PROVE  QuietInv'
  <1>1. Reconciling' => Reconciling
    BY DEF Reconciling, Small, Present
  <1> QED  BY <1>1 DEF QuietInv, Pending, Settled, Present, Supported

LEMMA NextQuietInv == TypeInv /\ StaleInv /\ QuietInv /\ [Next]_vars => QuietInv'
  <1> SUFFICES ASSUME TypeInv, StaleInv, QuietInv, [Next]_vars PROVE QuietInv'
    OBVIOUS
  <1>t. /\ TypeOK /\ job \in Jobs /\ db \in Databases /\ Counted(db) /\ Sound(db)
    BY DEF TypeInv, TypeOK, CountsMatch, StaleInv
  <1>i. job' = Idle => QuietInv'
    BY IdleType DEF QuietInv, Reconciling
  <1>1. CASE QueryBuilds
    <2>1. PICK walk \in Walks({f \in Files : Supported(f)}) :
            job' = [Idle EXCEPT !.kind = "build", !.at = "next", !.todo = ToIndex(walk)]
      BY <1>1 DEF QueryBuilds
    <2>2. db'.rows = [f \in Files |-> NoRow] /\ disk' = disk
      BY <1>1, <1>t DEF QueryBuilds, Emptied, Databases
    <2>3. job'.at = "next" /\ job'.kind = "build" /\ job'.todo = ToIndex(walk)
      BY <2>1 DEF Idle
    <2> SUFFICES ASSUME Reconciling'
                 PROVE  /\ \A f \in Files : Pending(f)' \/ Settled(db, f)'
                        /\ \A item \in job'.todo : item.op = "index" /\ Present(item.file)
      BY <2>2, <2>3 DEF QuietInv, Present
    <2>4. Small
      BY <2>2 DEF Reconciling, Small, Present
    <2>5. walk = {f \in Files : Supported(f)}
      BY <2>1, <2>4, WalksAll DEF Supported
    <2>6. \A f \in walk : [op |-> "index", file |-> f] \in job'.todo
      BY <2>3 DEF ToIndex
    <2>7. \A f \in Files : ~db'.rows[f].in
      BY <2>2, NoRowType
    <2>8. \A f \in walk : Pending(f)'
      BY <2>6 DEF Pending
    <2>9. \A f \in Files : f \notin walk => Settled(db, f)'
      BY <2>2, <2>5, <2>7 DEF Settled, Supported, Present
    <2> QED  BY <2>3, <2>5, <2>8, <2>9 DEF ToIndex, Supported
  <1>2. CASE QueryRefreshes
    <2>1. PICK walk \in Walks({f \in Files : Present(f)}) :
            Refresh(walk, {f \in Files : db.rows[f].in /\ f \notin walk})
      BY <1>2 DEF QueryRefreshes
    <2> DEFINE gone == {f \in Files : db.rows[f].in /\ f \notin walk}
    <2>2. db' = Dropped(db, gone) /\ disk' = disk /\ gone \in SUBSET Files
      BY <2>1 DEF Refresh
    <2>3. db'.rows = [f \in Files |-> IF f \in gone THEN NoRow ELSE db.rows[f]]
      BY <1>t, <2>2, DroppedCounted
    <2>4. /\ job'.at = "next" /\ job'.kind = "refresh" /\ job'.todo = ToIndex(walk)
          /\ job'.sig = [f \in Files |-> disk[f].stamp]
      BY <2>1 DEF Refresh, Idle
    <2> SUFFICES ASSUME Reconciling'
                 PROVE  /\ \A f \in Files : Pending(f)' \/ Settled(db, f)'
                        /\ \A item \in job'.todo : item.op = "index" /\ Present(item.file)
      BY <2>2, <2>4 DEF QuietInv, Present
    <2>5. Small
      BY <2>2 DEF Reconciling, Small, Present
    <2>6. walk = {f \in Files : Present(f)}
      BY <2>1, <2>5, WalksAll
    <2>7. \A f \in walk : [op |-> "index", file |-> f] \in job'.todo
      BY <2>4 DEF ToIndex
    <2>8. \A f \in walk : Pending(f)'
      BY <2>7 DEF Pending
    <2>9. \A f \in Files : f \notin walk => ~db'.rows[f].in
      BY <2>3, NoRowType
    <2>10. \A f \in Files : f \notin walk => Settled(db, f)'
      BY <2>2, <2>6, <2>9 DEF Settled, Supported, Present
    <2> QED  BY <2>4, <2>6, <2>8, <2>10 DEF ToIndex
  <1>3. CASE DeltaStarts
    <2>1. job'.kind = "delta" /\ job'.at = "next"
      BY <1>3 DEF DeltaStarts, Idle
    <2> QED  BY <2>1 DEF QuietInv, Reconciling
  <1>4. CASE TakeStep
    <2>1. PICK item \in job.todo : SkipsUnchanged(item) \/ ConfirmsContent(item)
                                     \/ ReindexBegins(item) \/ RemovesFile(item)
      BY <1>4 DEF TakeStep
    <2> DEFINE f == item.file
    <2>2. item \in Items /\ f \in Files
      BY <1>t DEF Jobs, Items
    <2>3. job.at = "next"
      BY <2>1 DEF SkipsUnchanged, ConfirmsContent, ReindexBegins, RemovesFile, Takes
    <2>4. CASE SkipsUnchanged(item)
      <3>1. ItemDone(item, db, FALSE) /\ job.kind = "refresh" /\ db.rows[f].in
              /\ job.sig[f] = db.rows[f].stamp
        BY <2>4 DEF SkipsUnchanged, Unchanged, Catalogued
      <3>2. Reconciling => Present(f) /\ job.sig[f] = disk[f].stamp
        BY <2>2, <3>1 DEF QuietInv
      <3>3. Reconciling => Settled(db, f)
        BY <1>t, <2>2, <3>1, <3>2 DEF Sound, Noticed, Settled, Present
      <3> QED  BY <2>3, <3>1, <3>3, QuietDone
    <2>5. CASE ConfirmsContent(item)
      <3> DEFINE e == Stamped(db, f, job.sig[f])
      <3>1. ItemDone(item, e, FALSE) /\ db.rows[f].in /\ Present(f)
              /\ disk[f].text = db.rows[f].sha
        BY <2>5 DEF ConfirmsContent, SameContent, Catalogued
      <3>2. job.sig[f] \in Stamps
        BY <1>t, <2>2 DEF Jobs
      <3>3. e.rows = [db.rows EXCEPT ![f] = [db.rows[f] EXCEPT !.stamp = job.sig[f]]]
        BY <1>t, <2>2, <3>2, StampedCounted
      <3>4. /\ e.rows[f].sha = db.rows[f].sha /\ e.rows[f].text = db.rows[f].text
            /\ e.rows[f].in = db.rows[f].in
        BY <1>t, <2>2, <3>3 DEF Databases, Rows
      <3>5. \A g \in Files : g # f => e.rows[g] = db.rows[g]
        BY <1>t, <2>2, <3>3 DEF Databases
      <3>6. Settled(e, f)
        BY <3>1, <3>4 DEF Settled, Torn
      <3> HIDE DEF e
      <3> QED  BY <2>3, <3>1, <3>5, <3>6, QuietDone
    <2>6. CASE ReindexBegins(item)
      <3>1. /\ disk' = disk /\ db' = db /\ job'.at = "check" /\ job'.todo = job.todo
            /\ job'.quiet = job.quiet /\ job'.kind = job.kind /\ job'.sig = job.sig
        BY <1>t, <2>6 DEF ReindexBegins, Jobs
      <3> QED  BY <2>3, <3>1, QuietReads
    <2>7. CASE RemovesFile(item)
      <3>1. ItemDone(item, Removed(db, f), TRUE) /\ item.op = "remove"
        BY <2>7 DEF RemovesFile, Takes
      <3>2. ~Reconciling
        BY <3>1 DEF QuietInv
      <3>3. Removed(db, f).rows = IF db.rows[f].in THEN [db.rows EXCEPT ![f] = NoRow] ELSE db.rows
        BY <1>t, <2>2, RemovedCounted
      <3>4. \A g \in Files : g # f => Removed(db, f).rows[g] = db.rows[g]
        BY <1>t, <2>2, <3>3 DEF Databases
      <3> QED  BY <2>3, <3>1, <3>2, <3>4, QuietDone
    <2> QED  BY <2>1, <2>4, <2>5, <2>6, <2>7
  <1>5. CASE IndexStep
    <2>1. /\ job.item \in Items /\ File \in Files /\ job.item \in job.todo /\ job.item.file = File
          /\ job.at \notin {"answer", "idle"}
      BY <1>5, <1>t DEF IndexStep, CheckFails, CheckPasses, StatFails, Stats, Hashes, Stores,
                        TypeInv, AtItem, Jobs, Items, File
    <2>2. CASE CheckFails \/ StatFails
      <3>1. ItemDone(job.item, Removed(db, File), FALSE) /\ ~Supported(File)
        BY <2>2 DEF CheckFails, StatFails, Supported
      <3>2. /\ Removed(db, File).rows = IF db.rows[File].in
                                        THEN [db.rows EXCEPT ![File] = NoRow] ELSE db.rows
            /\ ~Removed(db, File).rows[File].in
        BY <1>t, <2>1, RemovedCounted
      <3>3. \A g \in Files : g # File => Removed(db, File).rows[g] = db.rows[g]
        BY <1>t, <2>1, <3>2 DEF Databases
      <3>4. Settled(Removed(db, File), File)
        BY <3>1, <3>2 DEF Settled
      <3> DEFINE e == Removed(db, File)
      <3>5. ItemDone(job.item, e, FALSE) /\ Settled(e, job.item.file)
        BY <2>1, <3>1, <3>4
      <3>6. \A g \in Files : g # job.item.file => e.rows[g] = db.rows[g]
        BY <2>1, <3>3
      <3> HIDE DEF e
      <3> QED  BY <2>1, <3>5, <3>6, QuietDone
    <2>3. CASE Stores
      <3> DEFINE row == [stamp |-> job.stamp, sha |-> job.sha, text |-> TextRead(File), in |-> TRUE]
                 e == Stored(db, File, row)
      <3>1. ItemDone(job.item, e, TRUE)
        BY <2>3 DEF Stores
      <3>2. e.rows = [db.rows EXCEPT ![File] = row]
        BY <1>t DEF Stored, Databases
      <3>3. /\ e.rows[File] = row
            /\ \A g \in Files : g # File => e.rows[g] = db.rows[g]
        BY <1>t, <2>1, <3>2 DEF Databases
      <3>4. Reconciling => Present(File)
        BY <2>1 DEF QuietInv
      <3>5. row.text = disk[File].text /\ row.in
        BY DEF TextRead
      <3> HIDE DEF e, row
      <3>6. Reconciling => Settled(e, File)
        BY <3>3, <3>4, <3>5 DEF Settled
      <3> QED  BY <2>1, <3>1, <3>3, <3>6, QuietDone
    <2>4. CASE CheckPasses \/ Stats \/ Hashes
      <3>1. /\ disk' = disk /\ db'.rows = db.rows /\ job'.at # "answer" /\ job'.todo = job.todo
            /\ job'.quiet = job.quiet /\ job'.kind = job.kind /\ job'.sig = job.sig
        BY <1>t, <2>4 DEF CheckPasses, Stats, Hashes, Jobs
      <3>2. job.at \notin {"answer", "idle"}
        BY <2>1
      <3> QED  BY <3>1, <3>2, QuietReads
    <2> QED  BY <1>5, <2>2, <2>3, <2>4 DEF IndexStep
  <1>6. CASE EndStep
    <2>1. ASSUME NEW whole
          PROVE  /\ Answers(whole).todo = {} /\ Answers(whole).at = "answer"
                 /\ Answers(whole).whole = whole /\ Answers(whole).kind = job.kind
                 /\ Answers(whole).quiet = job.quiet /\ Answers(whole).sig = job.sig
      BY <1>t DEF Answers, Jobs
    <2>2. CASE RefreshEnds \/ BuildEnds
      <3>1. /\ disk' = disk /\ db'.rows = db.rows /\ job.at = "next"
            /\ job.kind \in {"build", "refresh"}
            /\ \E whole : job' = Answers(whole) /\ (whole => job.todo = {})
        <4>1. CASE RefreshEnds
          BY <4>1 DEF RefreshEnds
        <4>2. CASE BuildEnds
          BY <1>t, <4>2 DEF BuildEnds, Databases
        <4> QED  BY <2>2, <4>1, <4>2
      <3>2. PICK whole : job' = Answers(whole) /\ (whole => job.todo = {})
        BY <3>1
      <3>3. Reconciling' => Reconciling /\ job.todo = {}
        BY <2>1, <3>1, <3>2 DEF Reconciling, Small, Present
      <3>4. Reconciling' => \A f \in Files : Settled(db, f)
        BY <3>3 DEF QuietInv, Pending
      <3> QED  BY <2>1, <3>1, <3>2, <3>3, <3>4 DEF QuietInv, Settled, Present, Supported
    <2>3. CASE JobFails
      <3>1. job.kind = "delta" \/ job' = Answers(FALSE)
        BY <2>3 DEF JobFails
      <3>2. CASE job.kind = "delta"
        BY <1>i, <2>3, <3>2 DEF JobFails
      <3>3. CASE job' = Answers(FALSE) /\ job.kind # "delta"
        <4>1. job.kind # "idle"
          BY <2>3 DEF JobFails, QuietInv
        <4> QED  BY <1>t, <2>1, <3>3, <4>1 DEF QuietInv, Reconciling, Jobs
      <3> QED  BY <3>1, <3>2, <3>3
    <2>4. CASE DeltaEnds \/ Answered
      BY <1>i, <2>4 DEF DeltaEnds, Answered
    <2> QED  BY <1>6, <2>2, <2>3, <2>4 DEF EndStep
  <1>7. CASE TreeStep
    <2>1. /\ ~job'.quiet /\ job'.at = job.at /\ job'.todo = job.todo /\ job'.kind = job.kind
      BY <1>t, <1>7, WriteEffect DEF Jobs
    <2> QED  BY <2>1 DEF QuietInv, Reconciling
  <1>8. CASE Restart
    BY <1>8, <1>i DEF Restart
  <1>9. CASE UNCHANGED vars
    BY <1>9 DEF vars, QuietInv, Reconciling, Small, Pending, Settled, Present, Supported
  <1> QED  BY <1>1, <1>2, <1>3, <1>4, <1>5, <1>6, <1>7, <1>8, <1>9 DEF Next

LEMMA QuietMeansFresh == TypeInv /\ QuietInv => QuietQueryIsFresh
  <1> SUFFICES ASSUME TypeInv, QuietInv, job.at = "answer", job.quiet, job.whole, Small,
                      NEW f \in Files, NEW t \in Terms,
                      ~(Present(f) /\ db.rows[f].in /\ Torn(db.rows[f]))
               PROVE  FreshFor(f, t)
    BY DEF QuietQueryIsFresh, Small
  <1>1. Reconciling /\ job.todo = {}
    BY DEF QuietInv, Reconciling
  <1>2. Settled(db, f)
    BY <1>1 DEF QuietInv, Pending
  <1>3. db.rows[f].in => Present(f) /\ db.rows[f].text = disk[f].text
    BY <1>2 DEF Settled
  <1>4. ASSUME f \in Holders(db.rows, t)
        PROVE  db.df[t] > 0
    <2>1. IsFiniteSet(Holders(db.rows, t)) /\ Cardinality(Holders(db.rows, t)) \in Nat
      BY HoldersFinite
    <2>2. db.df[t] = Cardinality(Holders(db.rows, t))
      BY DEF TypeInv, CountsMatch, Counted
    <2> QED  BY <1>4, <2>1, <2>2, FS_EmptySet
  <1>5. Supported(f) => db.rows[f].in
    BY <1>2 DEF Settled
  <1>6. f \in Holders(db.rows, t) <=> db.rows[f].in /\ t \in Postings(db.rows[f].text)
    BY DEF Holders
  <1>7. f \in SearchFiles(t) <=> f \in Holders(db.rows, t)
    BY <1>4 DEF SearchFiles
  <1> QED  BY <1>3, <1>5, <1>6, <1>7 DEF FreshFor, SearchText, LookupSymbol

\* A query during which nothing is written answers from the tree as it is,
\* for any number of files up to MAX_INDEX_FILES.
THEOREM QuietQueriesAreFresh == Spec => []QuietQueryIsFresh
  <1>1. Init => QuietInv
    BY IdleType DEF Init, QuietInv, Reconciling
  <1> QED  BY <1>1, InitTypeInv, NextTypeInv, InitStaleInv, NextStaleInv, NextQuietInv,
              QuietMeansFresh, PTL DEF Spec
=============================================================================
