------------------------------ MODULE Catalogue ------------------------------
(***************************************************************************)
(* A database directory: one subdirectory a table or a maintained view.    *)
(* A writer process creates, fills, flushes and refreshes them             *)
(* (database.rs, view.rs); a read-only console opens what it finds and     *)
(* re-reads it on `.refresh` (shell.rs), taking no lock, between any two   *)
(* steps of the writer.                                                    *)
(*                                                                         *)
(* What a directory holds is the presence of its manifest and of a view    *)
(* definition, and a count of rows: those flushed and those acknowledged.  *)
(* How rows get there is DurableStore, what a view's answer is worth       *)
(* MaintainedView; both are one number here.                               *)
(***************************************************************************)
EXTENDS Integers, FiniteSets

CONSTANTS
    Tables,     \* names of base tables
    Views,      \* names of maintained views
    Sources,    \* the tables each view is defined over
    MaxRows,    \* bound: rows ever acknowledged by one table
    MaxCrashes, \* bound: times the writer process ends
    MaxFailures \* bound: flushes and view refreshes that fail

ASSUME NamesAssumption   == Tables \cap Views = {}
ASSUME SourcesAssumption == Sources \in [Views -> SUBSET Tables]
ASSUME MaxRowsAssumption == MaxRows \in Nat

VARIABLES
    disk,    \* the directory: by name, [manifest, definition, flushed, acked, stamp, foreign]
    writer,  \* the writer process: [kind, tables, views, job, todo, goal]
    console, \* the read-only console: [state, first, tables, views, entries, plain, todo]
    past     \* history: [ends, failures, published, cut, asked, overlap, raced]

vars == <<disk, writer, console, past>>

Names == Tables \union Views

\* No function value: nothing held.
Nothing == [n \in {} |-> 0]
With(f, n, x) == [m \in DOMAIN f \union {n} |-> IF m = n THEN x ELSE f[m]]

Empty == [manifest |-> FALSE, definition |-> FALSE, flushed |-> 0, acked |-> 0,
          stamp |-> Nothing, foreign |-> FALSE]

Closed == [kind |-> "closed", tables |-> {}, views |-> {}, job |-> "idle", todo |-> {},
           goal |-> Nothing]

Absent == [state |-> "closed", first |-> TRUE, tables |-> Nothing, views |-> {}, entries |-> {},
           plain |-> {}, todo |-> {}]

NothingAsked == [tables |-> Nothing, views |-> {}]

Init ==
    /\ disk = [n \in Names |-> Empty]
    /\ writer = Closed
    /\ console = Absent
    /\ past = [ends |-> 0, failures |-> 0, published |-> [n \in Tables |-> 0], cut |-> {},
               asked |-> NothingAsked, overlap |-> FALSE, raced |-> {}]

\* Directories `Console::open_inner` and `refresh` list, and those they take for views.
Listed(d)   == {n \in Names : d[n].manifest}
ViewLike(d) == {n \in Listed(d) : d[n].definition}

(***************************************************************************)
(* The writer process.                                                     *)
(***************************************************************************)

\* MUTANT: the scan does not look for definitions.
ScannedAsTables ==
    /\ writer.kind = "closed"
    /\ writer' = [Closed EXCEPT !.kind = "console", !.tables = Listed(disk)]
    /\ UNCHANGED <<disk, console, past>>

\* A writable console opens everything listed. Its lock keeps other writing
\* consoles out, and each table's lock every other writer: nothing changes
\* under the scan. What the log kept of unflushed rows comes back with it.
OpenConsole ==
    /\ writer.kind = "closed"
    /\ LET views == ViewLike(disk)
       IN  writer' = [Closed EXCEPT !.kind = "console", !.views = views,
                                    !.tables = Listed(disk) \ views]
    /\ UNCHANGED <<disk, console, past>>

\* An embedder opens the tables and views it knows by name, through
\* `Table::persistent`, `MaterializedView::open`, `add_table` and `add_view`.
\* It never takes a view's directory for a table.
OpenProgram ==
    /\ writer.kind = "closed"
    /\ writer' = [Closed EXCEPT !.kind = "program", !.views = ViewLike(disk),
                                !.tables = Tables \cap Listed(disk)]
    /\ UNCHANGED <<disk, console, past>>

Idle == writer.kind # "closed" /\ writer.job = "idle"

\* A load of the console that is under way met a creation.
Overlapping == [past EXCEPT !.overlap = TRUE]

\* `claim_name` and the name checks of `Console::create_table`; the store's
\* first write is the manifest.
CreateTable(n) ==
    /\ Idle
    /\ n \notin writer.tables \union writer.views
    /\ disk' = [disk EXCEPT ![n].manifest = TRUE]
    /\ writer' = [writer EXCEPT !.tables = @ \union {n}]
    /\ past' = Overlapping
    /\ UNCHANGED console

\* `MaterializedView::persistent`: the materialisation's table first, whose
\* manifest may be there already ...
BeginView(v) ==
    /\ Idle
    /\ writer.kind = "program"
    /\ v \notin writer.views
    /\ Sources[v] \subseteq writer.tables
    /\ disk' = [disk EXCEPT ![v].manifest = TRUE]
    /\ writer' = [writer EXCEPT !.job = "define", !.todo = {v}]
    /\ past' = Overlapping
    /\ UNCHANGED console

\* ... then the record that makes it a view; `add_view` takes it in.
WriteDefinition(v) ==
    /\ writer.job = "define"
    /\ v \in writer.todo
    /\ disk' = [disk EXCEPT ![v].definition = TRUE,
                            ![v].stamp = [s \in Sources[v] |-> 0]]
    /\ writer' = [writer EXCEPT !.job = "idle", !.todo = {}, !.views = @ \union {v}]
    /\ past' = Overlapping
    /\ UNCHANGED console

\* The record could not be written; the table is dropped with the view.
CreationFails(v) ==
    /\ writer.job = "define"
    /\ v \in writer.todo
    /\ past.failures < MaxFailures
    /\ writer' = [writer EXCEPT !.job = "idle", !.todo = {}]
    /\ past' = [Overlapping EXCEPT !.failures = @ + 1, !.cut = @ \union {v}]
    /\ UNCHANGED <<disk, console>>

\* The refusal every write path gives a maintained view.
DerivedRefusal(n) == n \in writer.views

\* `Database::append` and `mutate`: a view is refused, and so is a name that is
\* not held. A row given to a materialisation is derived from no source.
Append(n) ==
    /\ Idle
    /\ ~DerivedRefusal(n)
    /\ n \in writer.tables
    /\ disk[n].acked < MaxRows
    /\ disk' = [disk EXCEPT ![n].acked = @ + 1, ![n].foreign = (n \in Views)]
    /\ UNCHANGED <<writer, console, past>>

\* `.flush`: the open tables, one after the other in no order. Views are not
\* among them.
BeginFlush ==
    /\ Idle
    /\ writer.tables # {}
    /\ writer' = [writer EXCEPT !.job = "flush", !.todo = writer.tables,
                                !.goal = [n \in writer.tables |-> disk[n].acked]]
    /\ UNCHANGED <<disk, console, past>>

FlushOne(n) ==
    /\ writer.job = "flush"
    /\ n \in writer.todo
    /\ disk' = [disk EXCEPT ![n].flushed = disk[n].acked]
    /\ writer' = [writer EXCEPT !.todo = @ \ {n}]
    /\ UNCHANGED <<console, past>>

EndFlush ==
    /\ writer.job = "flush"
    /\ writer.todo = {}
    /\ writer' = [writer EXCEPT !.job = "idle", !.goal = Nothing]
    /\ past' = [past EXCEPT !.published =
                    [n \in Tables |-> IF n \in DOMAIN writer.goal THEN writer.goal[n] ELSE @[n]]]
    /\ UNCHANGED <<disk, console>>

\* `refresh_views`: every view, one after the other in no order. `goal` is
\* what the sources held when it was called.
BeginSweep ==
    /\ Idle
    /\ writer.kind = "program"
    /\ writer.views # {}
    /\ writer' = [writer EXCEPT !.job = "sweep", !.todo = writer.views,
                                !.goal = [n \in writer.tables |-> disk[n].acked]]
    /\ UNCHANGED <<disk, console, past>>

\* One view's refresh flushes its sources, folds what they hold and records it.
RefreshOne(v) ==
    /\ writer.job = "sweep"
    /\ v \in writer.todo
    /\ disk' = [n \in Names |->
                   IF n \in Sources[v] THEN [disk[n] EXCEPT !.flushed = disk[n].acked]
                   ELSE IF n = v THEN [disk[n] EXCEPT !.stamp = [s \in Sources[v] |-> disk[s].acked]]
                   ELSE disk[n]]
    /\ writer' = [writer EXCEPT !.todo = @ \ {v}]
    /\ UNCHANGED <<console, past>>

EndSweep ==
    /\ writer.job = "sweep"
    /\ writer.todo = {}
    /\ writer' = [writer EXCEPT !.job = "swept"]
    /\ UNCHANGED <<disk, console, past>>

\* The call has returned without an error.
Swept ==
    /\ writer.job = "swept"
    /\ writer' = [writer EXCEPT !.job = "idle", !.goal = Nothing]
    /\ UNCHANGED <<disk, console, past>>

\* The directories the console has yet to read in its present step.
BeingRead ==
    IF console.state \in {"reread", "tables", "views"} THEN console.todo ELSE {}

\* `Database::compact`, which only a program calls: what is buffered is flushed
\* and new files take the place of all the directory had. One step stands for
\* any number of calls, and so for as many as outrun a load of the directory,
\* which starts again a few times when a file it was to read has gone.
Compact(n) ==
    /\ Idle
    /\ writer.kind = "program"
    /\ n \in writer.tables \union writer.views
    /\ disk' = [disk EXCEPT ![n].flushed = disk[n].acked]
    /\ past' = [past EXCEPT !.raced = @ \union ({n} \cap BeingRead)]
    /\ UNCHANGED <<writer, console>>

\* MUTANT: the loop goes on behind a failure.
FailureSwallowed(n) ==
    /\ writer.job \in {"flush", "sweep"}
    /\ n \in writer.todo
    /\ past.failures < MaxFailures
    /\ writer' = [writer EXCEPT !.todo = @ \ {n}]
    /\ past' = [past EXCEPT !.failures = @ + 1]
    /\ UNCHANGED <<disk, console>>

\* One flush or one refresh of the loop fails, and the loop with it; the rest
\* is left as it is. A refresh may fail before or after its sources are flushed.
StepFails(n) ==
    /\ writer.job \in {"flush", "sweep"}
    /\ n \in writer.todo
    /\ past.failures < MaxFailures
    /\ \E flushed \in SUBSET (IF writer.job = "sweep" THEN Sources[n] ELSE {}) :
           disk' = [m \in Names |->
                       IF m \in flushed THEN [disk[m] EXCEPT !.flushed = disk[m].acked] ELSE disk[m]]
    /\ writer' = [writer EXCEPT !.job = "idle", !.todo = {}, !.goal = Nothing]
    /\ past' = [past EXCEPT !.failures = @ + 1]
    /\ UNCHANGED console

\* A view whose record nothing has synced: `write_definition` renames it and no
\* more, and what syncs the directory behind it is the first segment that a
\* refresh with rows to fold writes there.
Unsettled(v) == disk[v].definition /\ \A s \in Sources[v] : disk[v].stamp[s] = 0

\* The writer ends, in the middle of anything: of what is not flushed the log
\* keeps a beginning. Where the machine goes down with it, and the console with
\* both, unsynced records of views may be lost.
End ==
    /\ writer.kind # "closed"
    /\ past.ends < MaxCrashes
    /\ \E kept \in [Names -> 0..MaxRows], lost \in SUBSET {v \in Views : Unsettled(v)} :
           /\ \A n \in Names : kept[n] \in disk[n].flushed..disk[n].acked
           /\ disk' = [n \in Names |->
                          IF n \in lost
                          THEN [disk[n] EXCEPT !.acked = kept[n], !.definition = FALSE,
                                               !.stamp = Nothing]
                          ELSE [disk[n] EXCEPT !.acked = kept[n]]]
           /\ console' = IF lost = {} THEN console ELSE Absent
           /\ past' = [past EXCEPT
                          !.ends = @ + 1,
                          !.cut = @ \union lost \union
                                  (IF writer.job = "define" THEN writer.todo ELSE {}),
                          !.asked = IF lost = {} THEN @ ELSE NothingAsked,
                          !.raced = IF lost = {} THEN @ ELSE {}]
    /\ writer' = Closed

(***************************************************************************)
(* The read-only console. `todo` is what the present step still has to     *)
(* visit; `entries` the directories listed; `plain` those of them taken    *)
(* for tables.                                                             *)
(***************************************************************************)

\* What a load that begins now owes: the complete directories, and the rows
\* the writer's last successful `.flush` covered.
Owed == [tables |-> [n \in Tables \cap Listed(disk) |-> past.published[n]],
         views  |-> ViewLike(disk)]

\* Loads of a directory are outrun by the compactions that fall into them.
NotOutrun == [past EXCEPT !.raced = {}]
Outrun(n) == n \in past.raced

Loading == [past EXCEPT !.asked = Owed, !.overlap = writer.job = "define"]

\* `Console::open_read_only`.
BeginOpen ==
    /\ console.state = "closed"
    /\ console' = [console EXCEPT !.state = "listing", !.todo = Listed(disk)]
    /\ past' = Loading
    /\ UNCHANGED <<disk, writer>>

\* `Console::refresh` re-reads the tables it holds first ...
BeginRefresh ==
    /\ console.state = "open"
    /\ console' = [console EXCEPT !.state = "reread", !.todo = DOMAIN console.tables]
    /\ past' = Loading
    /\ UNCHANGED <<disk, writer>>

Reread(n) ==
    /\ console.state = "reread"
    /\ n \in console.todo
    /\ console' = [console EXCEPT !.tables[n] = disk[n].flushed, !.todo = @ \ {n}]
    /\ past' = NotOutrun
    /\ UNCHANGED <<disk, writer>>

\* ... and then lists the directory like an open.
EndReread ==
    /\ console.state = "reread"
    /\ console.todo = {}
    /\ console' = [console EXCEPT !.state = "listing", !.todo = Listed(disk)]
    /\ UNCHANGED <<disk, writer, past>>

\* `read_dir` returns what was there when it began and may return what came
\* meanwhile. `todo` becomes what is a view already.
List(entries) ==
    /\ console.state = "listing"
    /\ console.todo \subseteq entries
    /\ entries \subseteq Listed(disk)
    /\ console' = [console EXCEPT !.state = "partition", !.entries = entries,
                                  !.todo = ViewLike(disk) \cap entries]
    /\ UNCHANGED <<disk, writer, past>>

\* MUTANT: a refresh picks up new views, not new tables.
SecondPartition(views) ==
    /\ console.state = "partition"
    /\ console.todo \subseteq views
    /\ views \subseteq ViewLike(disk) \cap console.entries
    /\ console' = [console EXCEPT
                      !.state = "tables", !.plain = console.entries \ views,
                      !.todo = IF console.first THEN console.entries \ views ELSE {}]
    /\ UNCHANGED <<disk, writer, past>>

\* The definitions are looked for one directory at a time, behind the listing.
Partition(views) ==
    /\ console.state = "partition"
    /\ console.todo \subseteq views
    /\ views \subseteq ViewLike(disk) \cap console.entries
    /\ console' = [console EXCEPT
                      !.state = "tables", !.plain = console.entries \ views,
                      !.todo = (console.entries \ views) \ DOMAIN console.tables]
    /\ UNCHANGED <<disk, writer, past>>

\* `claim_name`: tables and views share one namespace.
Claimed(n) == n \in DOMAIN console.tables \union console.views

OpenTable(n) ==
    /\ console.state = "tables"
    /\ n \in console.todo
    /\ ~Claimed(n)
    /\ console' = [console EXCEPT !.tables = With(@, n, disk[n].flushed), !.todo = @ \ {n}]
    /\ past' = NotOutrun
    /\ UNCHANGED <<disk, writer>>

\* MUTANT: views are opened in front of the tables.
ViewsFirst ==
    /\ console.state = "tables"
    /\ console' = [console EXCEPT !.state = "views",
                                  !.todo = (console.entries \ console.plain) \ console.views]
    /\ UNCHANGED <<disk, writer, past>>

EndTables ==
    /\ console.state = "tables"
    /\ console.todo = {}
    /\ console' = [console EXCEPT !.state = "views",
                                  !.todo = (console.entries \ console.plain) \ console.views]
    /\ UNCHANGED <<disk, writer, past>>

\* `open_view` resolves the view's sources among the tables held.
OpenView(v) ==
    /\ console.state = "views"
    /\ v \in console.todo
    /\ Sources[v] \subseteq DOMAIN console.tables
    /\ ~Claimed(v)
    /\ console' = [console EXCEPT !.views = @ \union {v}, !.todo = @ \ {v}]
    /\ past' = NotOutrun
    /\ UNCHANGED <<disk, writer>>

EndLoad ==
    /\ console.state = "views"
    /\ console.todo = {}
    /\ console' = [console EXCEPT !.state = "open", !.first = FALSE, !.entries = {}, !.plain = {}]
    /\ UNCHANGED <<disk, writer, past>>

Refused(n) ==
    \/ console.state = "tables" /\ Claimed(n)
    \/ console.state = "views" /\ (Claimed(n) \/ ~(Sources[n] \subseteq DOMAIN console.tables))

\* The first directory that is refused, or whose files go faster than they are
\* read, ends the load: an open leaves no console, a refresh one that holds what
\* it had and what it has added.
FailLoad(n) ==
    /\ console.state \in {"reread", "tables", "views"}
    /\ n \in console.todo
    /\ Refused(n) \/ Outrun(n)
    /\ console' = IF console.first
                  THEN Absent
                  ELSE [console EXCEPT !.state = "open", !.todo = {}, !.entries = {}, !.plain = {}]
    /\ past' = NotOutrun
    /\ UNCHANGED <<disk, writer>>

Close ==
    /\ console.state = "open"
    /\ console' = Absent
    /\ UNCHANGED <<disk, writer, past>>

\* What a query that names n is answered from. A table wins over a view.
Routed(n) ==
    IF n \in DOMAIN console.tables THEN "table"
    ELSE IF n \in console.views /\ Sources[n] \subseteq DOMAIN console.tables THEN "view"
    ELSE "unknown"

-----------------------------------------------------------------------------

Write ==
    \/ OpenConsole
    \/ OpenProgram
    \/ \E n \in Tables : CreateTable(n)
    \/ \E v \in Views : BeginView(v)
    \/ \E v \in Views : WriteDefinition(v)
    \/ \E v \in Views : CreationFails(v)
    \/ \E n \in Names : Append(n)
    \/ BeginFlush
    \/ \E n \in Names : FlushOne(n)
    \/ EndFlush
    \/ BeginSweep
    \/ \E v \in Views : RefreshOne(v)
    \/ EndSweep
    \/ Swept
    \/ \E n \in Names : Compact(n)
    \/ \E n \in Names : StepFails(n)
    \/ End

Read ==
    \/ BeginOpen
    \/ BeginRefresh
    \/ \E n \in Names : Reread(n)
    \/ EndReread
    \/ \E entries \in SUBSET Names : List(entries)
    \/ \E views \in SUBSET Views : Partition(views)
    \/ \E n \in Names : OpenTable(n)
    \/ EndTables
    \/ \E v \in Views : OpenView(v)
    \/ EndLoad
    \/ \E n \in Names : FailLoad(n)
    \/ Close

Next == Write \/ Read

Spec == Init /\ [][Next]_vars

-----------------------------------------------------------------------------

\* A console that has been opened or refreshed answers for everything that was
\* complete when it began to look, for a table from a table and for a view from
\* a view, with every row the writer's last successful `.flush` had covered by
\* then: what one process was told is published, another that looks finds.
LoadsComplete ==
    [][EndLoad =>
          /\ \A v \in past.asked.views : Routed(v) = "view"
          /\ \A n \in DOMAIN past.asked.tables :
                 /\ Routed(n) = "table"
                 /\ console.tables[n] >= past.asked.tables[n]]_vars

\* Opening or refreshing a console beside a writer fails for two reasons only,
\* where the files themselves can be read. A directory is refused, for its name
\* or for a source it lacks, only over a creation: one went on while the console
\* looked, now or in an earlier look that took a view for a table. Every other
\* failure is of a directory compacted too often in that very load of it.
\* Appends, flushes, refreshes and the writer's own failures and ends refuse
\* nobody.
FailsOnlyOverChange ==
    [][\A n \in Names : FailLoad(n) =>
          IF Refused(n)
          THEN past.overlap \/ DOMAIN console.tables \cap ViewLike(disk) # {}
          ELSE Outrun(n)]_vars

\* When `refresh_views` reports success, every view of the database covers all
\* that its sources held at the call, though the loop may end early and takes
\* the views in no order.
SweepCoversAll ==
    writer.job = "swept" =>
        \A v \in writer.views : \A s \in Sources[v] : disk[v].stamp[s] >= writer.goal[s]

\* A row that no refresh derived gets into a materialisation only where the
\* view's creation was cut in half, by the end of its process or by a loss of
\* power before anything synced its record: an INSERT into a maintained view is
\* refused by every later process, console or program.
DerivedOnly ==
    \A v \in Views : disk[v].foreign => v \in past.cut

\* What shell.rs (at the partition of a scan) says must not be: a console that
\* serves as a plain table a directory that carries a view definition.
ServedAsViews ==
    \A v \in ViewLike(disk) : Routed(v) # "table"

\* The reachable shape of the state.
TypeOK ==
    /\ \A n \in Names :
          /\ disk[n].flushed \in 0..disk[n].acked
          /\ disk[n].acked \in 0..MaxRows
          /\ disk[n].definition => disk[n].manifest
    /\ writer.kind \in {"closed", "console", "program"}
    /\ writer.tables \cap writer.views = {}
    /\ DOMAIN console.tables \cap console.views = {}
=============================================================================
