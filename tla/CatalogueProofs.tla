-------------------------- MODULE CatalogueProofs --------------------------
(***************************************************************************)
(* What Catalogue promises for any number of tables and views, over any    *)
(* sources: what a sweep covers, where an underived row can be, and what   *)
(* an open or a refresh beside the writer finds and why it can fail.       *)
(***************************************************************************)
EXTENDS Catalogue, TLAPS

\* Row counts by name, of some of the names.
Counts == UNION {[S -> Nat] : S \in SUBSET Names}

Entry == [manifest : BOOLEAN, definition : BOOLEAN, flushed : Nat, acked : Nat,
          stamp : Counts, foreign : BOOLEAN]

Writers ==
    [kind : {"closed", "console", "program"}, tables : SUBSET Names, views : SUBSET Views,
     job : {"idle", "define", "flush", "sweep", "swept"}, todo : SUBSET Names, goal : Counts]

Consoles ==
    [state : {"closed", "open", "reread", "listing", "partition", "tables", "views"},
     first : BOOLEAN, tables : Counts, views : SUBSET Views, entries : SUBSET Names,
     plain : SUBSET Names, todo : SUBSET Names]

Histories ==
    [ends : Nat, failures : Nat, published : [Tables -> Nat], cut : SUBSET Views,
     asked : [tables : Counts, views : SUBSET Views], overlap : BOOLEAN, raced : SUBSET Names]

Fields ==
    /\ disk \in [Names -> Entry]
    /\ writer \in Writers
    /\ console \in Consoles
    /\ past \in Histories

(* A view's record is behind its sources' and its own manifest, a flush    *)
(* reported is flushed, and a materialisation without a record, or with an *)
(* underived row, is one whose creation was cut short, or goes on.         *)
DirectoryInv ==
    /\ \A n \in Names :
          /\ disk[n].flushed <= disk[n].acked
          /\ disk[n].acked <= MaxRows
          /\ disk[n].definition => n \in Views /\ disk[n].manifest
    /\ \A v \in Views : disk[v].definition => \A s \in Sources[v] : disk[s].manifest
    /\ \A n \in Tables : past.published[n] <= disk[n].flushed
    /\ \A v \in Views :
          /\ disk[v].foreign => v \in past.cut
          /\ disk[v].manifest /\ ~disk[v].definition =>
                v \in past.cut \/ (writer.job = "define" /\ v \in writer.todo)

\* The writer holds complete directories, a view with its sources.
HoldingInv ==
    /\ writer.kind = "closed" => writer = Closed
    /\ writer.kind = "program" => writer.tables \subseteq Tables
    /\ \A n \in writer.tables : disk[n].manifest
    /\ \A v \in writer.tables \cap Views : v \in past.cut
    /\ \A v \in writer.views :
          /\ disk[v].definition
          /\ v \notin writer.tables
          /\ Sources[v] \subseteq writer.tables

\* One view is under creation.
CreationInv ==
    writer.job = "define" =>
          /\ writer.kind = "program"
          /\ \A v \in writer.todo :
                /\ v \in Views
                /\ disk[v].manifest
                /\ Sources[v] \subseteq writer.tables
                /\ writer.todo = {v}

\* A loop has done what is not left to do, for what was there when it began.
LoopInv ==
    /\ writer.job \in {"idle", "swept"} => writer.todo = {}
    /\ writer.job \in {"flush", "sweep", "swept"} =>
          /\ DOMAIN writer.goal = writer.tables
          /\ \A n \in writer.tables : writer.goal[n] <= disk[n].acked
    /\ writer.job = "flush" =>
          /\ writer.todo \subseteq writer.tables
          /\ \A n \in writer.tables \ writer.todo : writer.goal[n] <= disk[n].flushed
    /\ writer.job \in {"sweep", "swept"} =>
          /\ writer.todo \subseteq writer.views
          /\ \A v \in writer.views \ writer.todo : \A s \in Sources[v] :
                disk[v].stamp[s] >= writer.goal[s]

WriterInv == HoldingInv /\ CreationInv /\ LoopInv

\* What the console holds at any time.
HeldInv ==
    /\ console.state = "closed" => console = Absent
    /\ \A v \in console.views :
          /\ disk[v].definition
          /\ v \notin DOMAIN console.tables
          /\ Sources[v] \subseteq DOMAIN console.tables

\* What a load owes stays on the disk.
AskedInv ==
    /\ \A v \in past.asked.views : disk[v].definition
    /\ \A n \in DOMAIN past.asked.tables :
          /\ n \in Tables
          /\ disk[n].manifest
          /\ past.asked.tables[n] <= disk[n].flushed

\* The rows a load owes of the tables in S are there.
RowsRead(S) ==
    \A n \in S \cap DOMAIN past.asked.tables : console.tables[n] >= past.asked.tables[n]

Asked == past.asked.views \union DOMAIN past.asked.tables

\* Where nothing is created under the load, S is all there is.
Whole(S) ==
    /\ Asked \subseteq S
    /\ ~past.overlap => \A n \in Names : disk[n].manifest => n \in S

\* Of the directories listed, those not taken for tables are views.
Parted ==
    /\ Whole(console.entries)
    /\ \A n \in console.entries \ console.plain : n \in Views /\ disk[n].definition
    /\ past.asked.views \cap console.plain = {}
    /\ console.plain \cap console.views = {}

(* What each step of a load has done, and what is left to it.              *)
LoadInv ==
    /\ console.state = "reread" =>
          /\ console.todo \subseteq DOMAIN console.tables
          /\ RowsRead(DOMAIN console.tables \ console.todo)
    /\ console.state \in {"listing", "partition", "tables", "views"} =>
          RowsRead(DOMAIN console.tables)
    /\ console.state = "listing" => Whole(console.todo)
    /\ console.state = "partition" =>
          /\ Whole(console.entries)
          /\ past.asked.views \subseteq console.todo
          /\ console.views \cap console.entries \subseteq console.todo
    /\ console.state = "tables" =>
          /\ Parted
          /\ console.plain \subseteq DOMAIN console.tables \union console.todo
          /\ console.todo \subseteq console.plain \ DOMAIN console.tables
    /\ console.state = "views" =>
          /\ Parted
          /\ console.plain \subseteq DOMAIN console.tables
          /\ console.entries \ console.plain \subseteq console.views \union console.todo
          /\ console.todo \subseteq (console.entries \ console.plain) \ console.views

CatalogueInv == Fields /\ DirectoryInv /\ WriterInv /\ HeldInv /\ AskedInv /\ LoadInv

----------------------------------------------------------------------------
\* Counts, and what is read of a record the invariant types.

LEMMA SourcesType == \A v \in Views : Sources[v] \subseteq Tables /\ v \notin Tables
BY SourcesAssumption, NamesAssumption

LEMMA CountsIntro == ASSUME NEW S \in SUBSET Names, NEW f \in [S -> Nat] PROVE f \in Counts
BY DEF Counts

LEMMA CountsType ==
    ASSUME NEW f \in Counts
    PROVE  /\ DOMAIN f \subseteq Names
           /\ f \in [DOMAIN f -> Nat]
           /\ \A n \in DOMAIN f : f[n] \in Nat
<1>1. PICK S \in SUBSET Names : f \in [S -> Nat]
  BY DEF Counts
<1> QED BY <1>1

LEMMA NothingType == Nothing \in Counts /\ DOMAIN Nothing = {}
<1>1. Nothing \in [{} -> Nat] /\ DOMAIN Nothing = {}
  BY DEF Nothing
<1> QED BY <1>1, CountsIntro

LEMMA WithType ==
    ASSUME NEW f \in Counts, NEW n \in Names, NEW x \in Nat
    PROVE  /\ With(f, n, x) \in Counts
           /\ DOMAIN With(f, n, x) = DOMAIN f \union {n}
           /\ With(f, n, x)[n] = x
           /\ \A m \in DOMAIN f : m # n => With(f, n, x)[m] = f[m]
<1>1. DOMAIN f \union {n} \in SUBSET Names /\ f \in [DOMAIN f -> Nat]
  BY CountsType
<1>2. With(f, n, x) \in [DOMAIN f \union {n} -> Nat]
  BY <1>1 DEF With
<1>3. With(f, n, x) \in Counts
  BY <1>1, <1>2, CountsIntro
<1> QED BY <1>3 DEF With

LEMMA ClosedType ==
    Closed \in Writers
BY NothingType DEF Closed, Writers

LEMMA AbsentType ==
    Absent \in Consoles
BY NothingType DEF Absent, Consoles

LEMMA CatalogueInit == Init => CatalogueInv
<1> SUFFICES ASSUME Init PROVE CatalogueInv
  OBVIOUS
<1>1. Fields
  BY ClosedType, AbsentType, NothingType DEF Init, Fields, Entry, Histories, Empty, NothingAsked
<1>2. DirectoryInv
  BY MaxRowsAssumption DEF Init, DirectoryInv, Empty, Names
<1>3. WriterInv
  BY DEF Init, WriterInv, HoldingInv, CreationInv, LoopInv, Closed
<1>4. HeldInv /\ AskedInv
  BY NothingType DEF Init, HeldInv, AskedInv, Absent, NothingAsked
<1>5. LoadInv
  BY DEF Init, LoadInv, Absent
<1> QED BY <1>1, <1>2, <1>3, <1>4, <1>5 DEF CatalogueInv

----------------------------------------------------------------------------
(* A step of the writer under a load: directories and what is flushed only *)
(* grow, and a load under which a directory came knows it.                 *)
Grows ==
    /\ UNCHANGED console
    /\ past'.asked = past.asked
    /\ \A n \in Names :
          /\ disk[n].manifest => disk'[n].manifest
          /\ disk[n].definition => disk'[n].definition
          /\ disk[n].flushed <= disk'[n].flushed
    /\ ~past'.overlap => /\ ~past.overlap
                         /\ \A n \in Names : disk'[n].manifest => disk[n].manifest

LEMMA GrowsKeeps ==
    ASSUME Fields, Fields', HeldInv, AskedInv, LoadInv, Grows
    PROVE  HeldInv' /\ AskedInv' /\ LoadInv'
<1>1. \A n \in Names : disk[n].flushed \in Nat /\ disk'[n].flushed \in Nat
  BY DEF Fields, Entry
<1>2. \A n \in Tables \union Views : n \in Names
  BY DEF Names
<1>3. DOMAIN past.asked.tables \subseteq Names
      /\ \A n \in DOMAIN past.asked.tables : past.asked.tables[n] \in Nat
  BY CountsType DEF Fields, Histories
<1>4. console.views \subseteq Views /\ past.asked.views \subseteq Views
      /\ console.entries \subseteq Names
  BY DEF Fields, Consoles, Histories
<1>5. HeldInv'
  BY <1>2, <1>4 DEF HeldInv, Grows
<1>6. AskedInv'
  BY <1>1, <1>2, <1>3, <1>4 DEF AskedInv, Grows
<1>7. \A S : Whole(S) => Whole(S)'
  BY DEF Whole, Asked, Grows
<1>8. \A S : RowsRead(S) => RowsRead(S)'
  BY DEF RowsRead, Grows
<1>9. Parted => Parted'
  BY <1>2, <1>4, <1>7 DEF Parted, Grows
<1>10. console' = console /\ past'.asked = past.asked
  BY DEF Grows
<1> QED BY <1>5, <1>6, <1>7, <1>8, <1>9, <1>10 DEF LoadInv

----------------------------------------------------------------------------
\* The writer, step by step.

(* Where the machine goes down, the console is gone, and what it looked for.*)
Gone == console' = Absent /\ past'.asked = NothingAsked

LEMMA GoneKeeps ==
    ASSUME Gone
    PROVE  HeldInv' /\ AskedInv' /\ LoadInv'
<1>1. HeldInv' /\ AskedInv'
  BY NothingType DEF Gone, HeldInv, AskedInv, Absent, NothingAsked
<1>2. LoadInv'
  BY DEF Gone, LoadInv, Absent
<1> QED BY <1>1, <1>2

Kept == Fields' /\ DirectoryInv' /\ WriterInv' /\ (Grows \/ Gone)

LEMMA OpenConsoleKeeps ==
    ASSUME Fields, DirectoryInv, WriterInv, OpenConsole
    PROVE  Kept
<1>1. disk' \in [Names -> Entry]
  BY DEF Fields, OpenConsole
<1>2. writer' \in Writers
  BY ClosedType DEF Writers, DirectoryInv, OpenConsole, Listed, ViewLike
<1>3. past' \in Histories
  BY DEF Fields, OpenConsole
<1>4. Fields'
  BY <1>1, <1>2, <1>3 DEF Fields, OpenConsole
<1>5. DirectoryInv'
  BY DEF DirectoryInv, WriterInv, HoldingInv, OpenConsole
<1>6. HoldingInv' /\ CreationInv'
  BY SourcesType DEF DirectoryInv, WriterInv, HoldingInv, CreationInv, OpenConsole, Listed,
                     ViewLike, Names
<1>7. LoopInv'
  BY DEF LoopInv, OpenConsole, Closed
<1>8. Grows
  BY DEF Fields, Entry, Grows, OpenConsole
<1> QED BY <1>4, <1>5, <1>6, <1>7, <1>8 DEF Kept, WriterInv

LEMMA OpenProgramKeeps ==
    ASSUME Fields, DirectoryInv, WriterInv, OpenProgram
    PROVE  Kept
<1>1. disk' \in [Names -> Entry]
  BY DEF Fields, OpenProgram
<1>2. writer' \in Writers
  BY ClosedType DEF Writers, DirectoryInv, OpenProgram, Listed, ViewLike
<1>3. past' \in Histories
  BY DEF Fields, OpenProgram
<1>4. Fields'
  BY <1>1, <1>2, <1>3 DEF Fields, OpenProgram
<1>5. DirectoryInv'
  BY DEF DirectoryInv, WriterInv, HoldingInv, OpenProgram
<1>6. HoldingInv' /\ CreationInv'
  BY SourcesType DEF DirectoryInv, WriterInv, HoldingInv, CreationInv, OpenProgram, Listed,
                     ViewLike, Names
<1>7. LoopInv'
  BY DEF LoopInv, OpenProgram, Closed
<1>8. Grows
  BY DEF Fields, Entry, Grows, OpenProgram
<1> QED BY <1>4, <1>5, <1>6, <1>7, <1>8 DEF Kept, WriterInv

LEMMA CreateTableKeeps ==
    ASSUME Fields, DirectoryInv, WriterInv, NEW n \in Tables, CreateTable(n)
    PROVE  Kept
<1>1. disk' \in [Names -> Entry]
  BY DEF Fields, Entry, CreateTable
<1>2. writer' \in Writers
  BY DEF Fields, Writers, CreateTable, Names
<1>3. past' \in Histories
  BY DEF Fields, Histories, CreateTable, Overlapping
<1>4. Fields'
  BY <1>1, <1>2, <1>3 DEF Fields, CreateTable
<1>5. DirectoryInv'
  BY SourcesType DEF DirectoryInv, CreateTable, Overlapping
<1>6. HoldingInv' /\ CreationInv'
  BY SourcesType DEF Fields, WriterInv, HoldingInv, CreationInv, CreateTable, Idle, Overlapping,
                     Names
<1>7. LoopInv'
  BY DEF WriterInv, LoopInv, CreateTable, Idle
<1>8. Grows
  BY DEF Fields, Entry, Grows, CreateTable, Overlapping
<1> QED BY <1>4, <1>5, <1>6, <1>7, <1>8 DEF Kept, WriterInv

LEMMA BeginViewKeeps ==
    ASSUME Fields, DirectoryInv, WriterInv, NEW v \in Views, BeginView(v)
    PROVE  Kept
<1>1. disk' \in [Names -> Entry]
  BY SourcesType, NothingType, ClosedType DEF Fields, Entry, BeginView, Idle, Overlapping, Names
<1>2. writer' \in Writers
  BY DEF Fields, Writers, BeginView, Names
<1>3. past' \in Histories
  BY DEF Fields, Histories, BeginView, Overlapping
<1>4. Fields'
  BY <1>1, <1>2, <1>3 DEF Fields, BeginView
<1>5. DirectoryInv'
  BY DEF DirectoryInv, BeginView, Idle, Overlapping
<1>6. HoldingInv' /\ CreationInv'
  BY DEF Fields, WriterInv, HoldingInv, CreationInv, BeginView, Overlapping, Names
<1>7. LoopInv'
  BY DEF LoopInv, BeginView
<1>8. Grows
  BY DEF Fields, Entry, Grows, BeginView, Overlapping
<1> QED BY <1>4, <1>5, <1>6, <1>7, <1>8 DEF Kept, WriterInv

LEMMA WriteDefinitionKeeps ==
    ASSUME Fields, DirectoryInv, WriterInv, NEW v \in Views, WriteDefinition(v)
    PROVE  Kept
<1>1. [s \in Sources[v] |-> 0] \in Counts
  BY CountsIntro, SourcesType DEF Names
<1>2. disk' \in [Names -> Entry]
  BY <1>1, SourcesType, NothingType, ClosedType DEF Fields, Entry, WriteDefinition, Overlapping,
                                                    Names
<1>3. writer' \in Writers
  BY <1>1 DEF Fields, Writers, WriteDefinition
<1>4. past' \in Histories
  BY <1>1 DEF Fields, Histories, WriteDefinition, Overlapping
<1>5. Fields'
  BY <1>2, <1>3, <1>4 DEF Fields, WriteDefinition
<1>6. DirectoryInv'
  BY SourcesType DEF Fields, DirectoryInv, WriterInv, HoldingInv, CreationInv, WriteDefinition,
                     Overlapping, Names
<1>7. HoldingInv' /\ CreationInv'
  BY SourcesType DEF Fields, Writers, WriterInv, HoldingInv, CreationInv, WriteDefinition, Names
<1>8. LoopInv'
  BY DEF LoopInv, WriteDefinition
<1>9. Grows
  BY DEF Fields, Entry, Grows, WriteDefinition, Overlapping
<1> QED BY <1>5, <1>6, <1>7, <1>8, <1>9 DEF Kept, WriterInv

LEMMA CreationFailsKeeps ==
    ASSUME Fields, DirectoryInv, WriterInv, NEW v \in Views, CreationFails(v)
    PROVE  Kept
<1>1. disk' \in [Names -> Entry]
  BY DEF Fields, CreationFails
<1>2. writer' \in Writers
  BY DEF Fields, Writers, CreationFails
<1>3. past' \in Histories
  <2>1. past' = [ends |-> past.ends, failures |-> past.failures + 1,
                 published |-> past.published, cut |-> past.cut \union {v},
                 asked |-> past.asked, overlap |-> TRUE, raced |-> past.raced]
    BY DEF Fields, Histories, CreationFails, Overlapping
  <2> QED BY <2>1 DEF Fields, Histories
<1>4. Fields'
  BY <1>1, <1>2, <1>3 DEF Fields, CreationFails
<1>5. DirectoryInv'
  BY DEF DirectoryInv, WriterInv, CreationInv, CreationFails, Overlapping
<1>6. HoldingInv' /\ CreationInv'
  BY DEF WriterInv, HoldingInv, CreationInv, CreationFails, Overlapping
<1>7. LoopInv'
  BY DEF LoopInv, CreationFails
<1>8. Grows
  BY DEF Fields, Entry, Grows, CreationFails, Overlapping
<1> QED BY <1>4, <1>5, <1>6, <1>7, <1>8 DEF Kept, WriterInv

LEMMA AppendKeeps ==
    ASSUME Fields, DirectoryInv, WriterInv, NEW n \in Names, Append(n)
    PROVE  Kept
<1>1. disk' \in [Names -> Entry]
  BY DEF Fields, Entry, Append, DerivedRefusal, Names
<1>2. writer' \in Writers
  BY DEF Fields, Append, DerivedRefusal
<1>3. past' \in Histories
  BY DEF Fields, Append, DerivedRefusal
<1>4. Fields'
  BY <1>1, <1>2, <1>3 DEF Fields, Append, DerivedRefusal
<1>5. DirectoryInv'
  BY MaxRowsAssumption, SourcesType DEF Fields, Entry, DirectoryInv, Append, DerivedRefusal,
                                        Names
<1>6. HoldingInv' /\ CreationInv'
  BY DEF Fields, Writers, WriterInv, HoldingInv, CreationInv, Append, DerivedRefusal, Names
<1>7. LoopInv'
  BY DEF WriterInv, LoopInv, Append, Idle, DerivedRefusal
<1>8. Grows
  BY DEF Fields, Entry, Grows, Append, DerivedRefusal
<1> QED BY <1>4, <1>5, <1>6, <1>7, <1>8 DEF Kept, WriterInv

LEMMA BeginFlushKeeps ==
    ASSUME Fields, DirectoryInv, WriterInv, BeginFlush
    PROVE  Kept
<1>1. [n \in writer.tables |-> disk[n].acked] \in Counts
  BY CountsIntro DEF Fields, Entry, Writers
<1>2. disk' \in [Names -> Entry]
  BY DEF Fields, BeginFlush
<1>3. writer' \in Writers
  BY <1>1 DEF Fields, Writers, BeginFlush
<1>4. past' \in Histories
  BY DEF Fields, BeginFlush
<1>5. Fields'
  BY <1>2, <1>3, <1>4 DEF Fields, BeginFlush
<1>6. DirectoryInv'
  BY DEF DirectoryInv, BeginFlush, Idle
<1>7. HoldingInv' /\ CreationInv'
  BY DEF WriterInv, HoldingInv, CreationInv, BeginFlush, Idle
<1>8. LoopInv'
  BY DEF Fields, Entry, Writers, LoopInv, BeginFlush
<1>9. Grows
  BY DEF Fields, Entry, Grows, BeginFlush
<1> QED BY <1>5, <1>6, <1>7, <1>8, <1>9 DEF Kept, WriterInv

LEMMA FlushOneKeeps ==
    ASSUME Fields, DirectoryInv, WriterInv, NEW n \in Names, FlushOne(n)
    PROVE  Kept
<1>1. disk' \in [Names -> Entry]
  BY DEF Fields, Entry, FlushOne
<1>2. writer' \in Writers
  BY DEF Fields, Writers, FlushOne
<1>3. past' \in Histories
  BY DEF Fields, FlushOne
<1>4. Fields'
  BY <1>1, <1>2, <1>3 DEF Fields, FlushOne
<1>5. DirectoryInv'
  BY DEF Fields, Entry, Histories, DirectoryInv, FlushOne
<1>6. HoldingInv' /\ CreationInv'
  BY DEF WriterInv, HoldingInv, CreationInv, Closed, FlushOne
<1>7. LoopInv'
  BY DEF Fields, WriterInv, LoopInv, FlushOne
<1>8. Grows
  BY DEF Fields, Entry, DirectoryInv, Grows, FlushOne
<1> QED BY <1>4, <1>5, <1>6, <1>7, <1>8 DEF Kept, WriterInv

LEMMA EndFlushKeeps ==
    ASSUME Fields, DirectoryInv, WriterInv, EndFlush
    PROVE  Kept
<1>1. disk' \in [Names -> Entry]
  BY DEF Fields, EndFlush
<1>2. writer' \in Writers
  BY NothingType DEF Fields, Writers, EndFlush
<1>3. \A n \in DOMAIN writer.goal : writer.goal[n] \in Nat
  BY CountsType DEF Fields, Writers
<1>4. past' \in Histories
  BY <1>3 DEF Fields, Histories, EndFlush
<1>5. Fields'
  BY <1>1, <1>2, <1>4 DEF Fields, EndFlush
<1>6. DirectoryInv'
  BY <1>3 DEF DirectoryInv, WriterInv, LoopInv, EndFlush
<1>7. HoldingInv' /\ CreationInv'
  BY DEF WriterInv, HoldingInv, CreationInv, Closed, EndFlush
<1>8. LoopInv'
  BY DEF LoopInv, EndFlush
<1>9. Grows
  BY DEF Fields, Entry, Grows, EndFlush
<1> QED BY <1>5, <1>6, <1>7, <1>8, <1>9 DEF Kept, WriterInv

LEMMA BeginSweepKeeps ==
    ASSUME Fields, DirectoryInv, WriterInv, BeginSweep
    PROVE  Kept
<1>1. [n \in writer.tables |-> disk[n].acked] \in Counts
  BY CountsIntro DEF Fields, Entry, Writers
<1>2. disk' \in [Names -> Entry]
  BY DEF Fields, BeginSweep
<1>3. writer' \in Writers
  BY <1>1 DEF Fields, Writers, BeginSweep, Names
<1>4. past' \in Histories
  BY DEF Fields, BeginSweep
<1>5. Fields'
  BY <1>2, <1>3, <1>4 DEF Fields, BeginSweep
<1>6. DirectoryInv'
  BY DEF DirectoryInv, BeginSweep, Idle
<1>7. HoldingInv' /\ CreationInv'
  BY DEF WriterInv, HoldingInv, CreationInv, BeginSweep
<1>8. LoopInv'
  BY DEF Fields, Entry, Writers, LoopInv, BeginSweep
<1>9. Grows
  BY DEF Fields, Entry, Grows, BeginSweep
<1> QED BY <1>5, <1>6, <1>7, <1>8, <1>9 DEF Kept, WriterInv

LEMMA RefreshOneKeeps ==
    ASSUME Fields, DirectoryInv, WriterInv, NEW v \in Views, RefreshOne(v)
    PROVE  Kept
<1>1. [s \in Sources[v] |-> disk[s].acked] \in Counts
  <2>1. Sources[v] \in SUBSET Names
    BY SourcesType DEF Names
  <2>2. \A s \in Sources[v] : disk[s].acked \in Nat
    BY <2>1 DEF Fields, Entry
  <2> QED BY <2>1, <2>2, CountsIntro
<1>2. disk' \in [Names -> Entry]
  BY <1>1 DEF Fields, Entry, RefreshOne
<1>3. writer' \in Writers
  BY <1>1 DEF Fields, Writers, RefreshOne
<1>4. past' \in Histories
  BY <1>1 DEF Fields, RefreshOne
<1>5. Fields'
  BY <1>2, <1>3, <1>4 DEF Fields, RefreshOne
<1>6. DirectoryInv'
  BY SourcesType DEF Fields, Entry, Histories, DirectoryInv, RefreshOne, Names
<1>7. HoldingInv' /\ CreationInv'
  BY DEF Fields, Writers, WriterInv, HoldingInv, CreationInv, Closed, RefreshOne, Names
<1>8. LoopInv'
  BY DEF Fields, Writers, WriterInv, HoldingInv, LoopInv, RefreshOne, Names
<1>9. Grows
  BY DEF Fields, Entry, DirectoryInv, Grows, RefreshOne
<1> QED BY <1>5, <1>6, <1>7, <1>8, <1>9 DEF Kept, WriterInv

LEMMA EndSweepKeeps ==
    ASSUME Fields, DirectoryInv, WriterInv, EndSweep
    PROVE  Kept
<1>1. disk' \in [Names -> Entry]
  BY DEF Fields, EndSweep
<1>2. writer' \in Writers
  BY DEF Fields, Writers, EndSweep
<1>3. past' \in Histories
  BY DEF Fields, EndSweep
<1>4. Fields'
  BY <1>1, <1>2, <1>3 DEF Fields, EndSweep
<1>5. DirectoryInv'
  BY DEF DirectoryInv, EndSweep
<1>6. HoldingInv' /\ CreationInv'
  BY DEF WriterInv, HoldingInv, CreationInv, Closed, EndSweep
<1>7. LoopInv'
  BY DEF WriterInv, LoopInv, EndSweep
<1>8. Grows
  BY DEF Fields, Entry, Grows, EndSweep
<1> QED BY <1>4, <1>5, <1>6, <1>7, <1>8 DEF Kept, WriterInv

LEMMA SweptKeeps ==
    ASSUME Fields, DirectoryInv, WriterInv, Swept
    PROVE  Kept
<1>1. disk' \in [Names -> Entry]
  BY DEF Fields, Swept
<1>2. writer' \in Writers
  BY NothingType DEF Fields, Writers, Swept
<1>3. past' \in Histories
  BY DEF Fields, Swept
<1>4. Fields'
  BY <1>1, <1>2, <1>3 DEF Fields, Swept
<1>5. DirectoryInv'
  BY DEF DirectoryInv, Swept
<1>6. HoldingInv' /\ CreationInv'
  BY DEF WriterInv, HoldingInv, CreationInv, Closed, Swept
<1>7. LoopInv'
  BY DEF WriterInv, LoopInv, Swept
<1>8. Grows
  BY DEF Fields, Entry, Grows, Swept
<1> QED BY <1>4, <1>5, <1>6, <1>7, <1>8 DEF Kept, WriterInv

LEMMA StepFailsKeeps ==
    ASSUME Fields, DirectoryInv, WriterInv, NEW n \in Names, StepFails(n)
    PROVE  Kept
<1>1. disk' \in [Names -> Entry]
  BY DEF Fields, Entry, StepFails
<1>2. writer' \in Writers
  BY NothingType DEF Fields, Writers, StepFails
<1>3. past' \in Histories
  BY DEF Fields, Histories, StepFails
<1>4. Fields'
  BY <1>1, <1>2, <1>3 DEF Fields, StepFails
<1>5. DirectoryInv'
  BY SourcesType DEF Fields, Entry, Histories, DirectoryInv, StepFails, Names
<1>6. HoldingInv' /\ CreationInv'
  BY DEF Fields, Writers, WriterInv, HoldingInv, CreationInv, Closed, StepFails, Names
<1>7. LoopInv'
  BY DEF LoopInv, StepFails
<1>8. Grows
  BY DEF Fields, Entry, DirectoryInv, Grows, StepFails
<1> QED BY <1>4, <1>5, <1>6, <1>7, <1>8 DEF Kept, WriterInv

LEMMA CompactKeeps ==
    ASSUME Fields, DirectoryInv, WriterInv, NEW n \in Names, Compact(n)
    PROVE  Kept
<1>1. disk' \in [Names -> Entry]
  BY DEF Fields, Entry, Compact
<1>2. writer' \in Writers
  BY DEF Fields, Compact
<1>3. past' \in Histories
  BY DEF Fields, Histories, Compact
<1>4. Fields'
  BY <1>1, <1>2, <1>3 DEF Fields, Compact
<1>5. DirectoryInv'
  BY DEF Fields, Entry, Histories, DirectoryInv, Compact
<1>6. HoldingInv' /\ CreationInv'
  BY DEF Fields, Histories, WriterInv, HoldingInv, CreationInv, Idle, Compact
<1>7. LoopInv'
  BY DEF WriterInv, LoopInv, Idle, Compact
<1>8. Grows
  BY DEF Fields, Entry, Histories, DirectoryInv, Grows, Compact
<1> QED BY <1>4, <1>5, <1>6, <1>7, <1>8 DEF Kept, WriterInv

LEMMA EndKeeps ==
    ASSUME Fields, DirectoryInv, WriterInv, End
    PROVE  Kept
<1>1. PICK kept \in [Names -> 0..MaxRows], lost \in SUBSET {v \in Views : Unsettled(v)} :
           /\ \A n \in Names : kept[n] \in disk[n].flushed..disk[n].acked
           /\ disk' = [n \in Names |->
                          IF n \in lost
                          THEN [disk[n] EXCEPT !.acked = kept[n], !.definition = FALSE,
                                               !.stamp = Nothing]
                          ELSE [disk[n] EXCEPT !.acked = kept[n]]]
           /\ console' = IF lost = {} THEN console ELSE Absent
           /\ past' = [past EXCEPT
                          !.ends = @ + 1,
                          !.cut = @ \union lost \union
                                  (IF writer.job = "define" THEN writer.todo ELSE {}),
                          !.asked = IF lost = {} THEN @ ELSE NothingAsked,
                          !.raced = IF lost = {} THEN @ ELSE {}]
  BY DEF End
<1>2. \A n \in Names :
          /\ kept[n] \in Nat /\ disk[n] \in Entry
          /\ disk[n].flushed <= kept[n] /\ kept[n] <= MaxRows
  <2>1. /\ kept \in [Names -> 0..MaxRows]
        /\ \A n \in Names : kept[n] \in disk[n].flushed..disk[n].acked
    BY <1>1
  <2> QED BY <2>1, MaxRowsAssumption DEF Fields, Entry
<1>3. disk' \in [Names -> Entry]
  BY <1>1, <1>2, NothingType DEF Entry
<1>4. writer' = Closed /\ writer' \in Writers
  BY ClosedType DEF End
<1> DEFINE V == IF writer.job = "define" THEN writer.todo ELSE {}
<1>5. V \in SUBSET Views /\ lost \in SUBSET Views
  BY <1>1 DEF WriterInv, CreationInv
<1>6. past' = [ends |-> past.ends + 1, failures |-> past.failures,
               published |-> past.published, cut |-> past.cut \union lost \union V,
               asked |-> IF lost = {} THEN past.asked ELSE NothingAsked,
               overlap |-> past.overlap, raced |-> IF lost = {} THEN past.raced ELSE {}]
  BY <1>1 DEF Fields, Histories
<1>7. past' \in Histories
  BY <1>5, <1>6, NothingType DEF Fields, Histories, NothingAsked
<1>8. console' \in Consoles
  BY <1>1, AbsentType DEF Fields
<1>9. Fields'
  BY <1>3, <1>4, <1>7, <1>8 DEF Fields
<1>10. \A n \in Names :
          /\ disk'[n].acked = kept[n] /\ disk'[n].flushed = disk[n].flushed
          /\ disk'[n].manifest = disk[n].manifest
          /\ disk'[n].definition => disk[n].definition
          /\ n \notin lost => disk'[n].definition = disk[n].definition
          /\ disk'[n].foreign = disk[n].foreign
  BY <1>1, <1>2 DEF Entry
<1>11. past'.cut = past.cut \union lost \union V /\ past'.published = past.published
  BY <1>6
<1>12. DirectoryInv'
  <2>1. \A v \in Views : disk'[v].manifest /\ ~disk'[v].definition => v \in past'.cut
    BY <1>10, <1>11 DEF DirectoryInv, Names
  <2> QED BY <2>1, <1>2, <1>10, <1>11, SourcesType DEF DirectoryInv, Names
<1>13. HoldingInv' /\ CreationInv'
  BY <1>4 DEF HoldingInv, CreationInv, Closed
<1>14. LoopInv'
  BY <1>4 DEF LoopInv, Closed
<1>15. Grows \/ Gone
  <2>1. CASE lost = {}
    <3>1. console' = console /\ past'.asked = past.asked /\ past'.overlap = past.overlap
      BY <1>1, <1>6, <2>1
    <3>2. \A n \in Names : disk'[n].definition = disk[n].definition
      BY <1>10, <2>1
    <3> QED BY <1>2, <1>10, <3>1, <3>2 DEF Grows, Entry
  <2>2. CASE lost # {}
    <3>1. console' = Absent /\ past'.asked = NothingAsked
      BY <1>1, <1>6, <2>2
    <3> QED BY <3>1 DEF Gone
  <2> QED BY <2>1, <2>2
<1> QED BY <1>9, <1>12, <1>13, <1>14, <1>15 DEF Kept, WriterInv

LEMMA WriteKeeps == ASSUME Fields, DirectoryInv, WriterInv, Write PROVE Kept
BY OpenConsoleKeeps, OpenProgramKeeps, CreateTableKeeps, BeginViewKeeps, WriteDefinitionKeeps,
   CreationFailsKeeps, AppendKeeps, BeginFlushKeeps, FlushOneKeeps, EndFlushKeeps,
   BeginSweepKeeps, RefreshOneKeeps, EndSweepKeeps, SweptKeeps, CompactKeeps, StepFailsKeeps, EndKeeps
   DEF Write

----------------------------------------------------------------------------
\* The console, step by step: it changes nothing of the directory.

Looks ==
    /\ UNCHANGED <<disk, writer>>
    /\ past'.published = past.published
    /\ past'.cut = past.cut

LEMMA LooksKeeps == ASSUME DirectoryInv, WriterInv, Looks PROVE DirectoryInv' /\ WriterInv'
BY DEF DirectoryInv, WriterInv, HoldingInv, CreationInv, LoopInv, Looks

Loads == Fields' /\ Looks /\ HeldInv' /\ AskedInv' /\ LoadInv'

\* What a load that begins owes is on the disk.
LEMMA LoadingType ==
    ASSUME Fields, DirectoryInv, past' = Loading, UNCHANGED <<disk, writer>>
    PROVE  /\ past' \in Histories /\ Looks
           /\ past'.asked.views = {n \in Names : disk[n].manifest /\ disk[n].definition}
           /\ DOMAIN past'.asked.tables = {n \in Tables : disk[n].manifest}
           /\ \A n \in DOMAIN past'.asked.tables : past'.asked.tables[n] = past.published[n]
<1>1. Owed.views = {n \in Names : disk[n].manifest /\ disk[n].definition}
  BY DEF Owed, Listed, ViewLike
<1>2. Owed.views \in SUBSET Views
  BY <1>1 DEF DirectoryInv
<1>3. /\ DOMAIN Owed.tables = {n \in Tables : disk[n].manifest}
      /\ \A n \in DOMAIN Owed.tables : Owed.tables[n] = past.published[n]
  BY DEF Owed, Listed, Names
<1>4. Owed.tables \in Counts
  <2>1. Owed.tables \in [Tables \cap Listed(disk) -> Nat]
    BY DEF Owed, Fields, Histories
  <2>2. Tables \cap Listed(disk) \in SUBSET Names
    BY DEF Names
  <2> QED BY <2>1, <2>2, CountsIntro
<1>5. Owed \in [tables : Counts, views : SUBSET Views]
  <2>1. Owed = [tables |-> Owed.tables, views |-> Owed.views]
    BY DEF Owed
  <2> HIDE DEF Owed
  <2> QED BY <1>2, <1>4, <2>1
<1>6. past' = [ends |-> past.ends, failures |-> past.failures, published |-> past.published,
               cut |-> past.cut, asked |-> Owed, overlap |-> writer.job = "define",
               raced |-> past.raced]
  BY DEF Loading, Fields, Histories
<1>7. past' \in Histories
  BY <1>5, <1>6 DEF Fields, Histories
<1> QED BY <1>1, <1>3, <1>6, <1>7 DEF Looks

LEMMA BeginOpenKeeps ==
    ASSUME CatalogueInv, BeginOpen
    PROVE  Loads
<1>1. console' \in Consoles
  BY CountsType DEF Fields, Consoles, BeginOpen, Listed, CatalogueInv
<1>2. /\ past' \in Histories /\ Looks
      /\ past'.asked.views = {n \in Names : disk[n].manifest /\ disk[n].definition}
      /\ DOMAIN past'.asked.tables = {n \in Tables : disk[n].manifest}
      /\ \A n \in DOMAIN past'.asked.tables : past'.asked.tables[n] = past.published[n]
  BY LoadingType DEF BeginOpen, CatalogueInv
<1>3. Fields'
  BY <1>1, <1>2 DEF Fields, Looks, CatalogueInv
<1>4. HeldInv'
  BY DEF HeldInv, BeginOpen, CatalogueInv
<1>5. AskedInv'
  BY <1>2 DEF DirectoryInv, AskedInv, Looks, CatalogueInv
<1>6. LoadInv'
  <2>1. Whole(console.todo)'
    BY <1>2 DEF BeginOpen, Listed, Whole, Asked, Names
  <2>2. RowsRead(DOMAIN console.tables)'
    BY NothingType DEF HeldInv, BeginOpen, Absent, RowsRead, CatalogueInv
  <2>3. console'.state = "listing"
    BY DEF BeginOpen
  <2> QED BY <2>1, <2>2, <2>3 DEF LoadInv
<1> QED BY <1>2, <1>3, <1>4, <1>5, <1>6 DEF Loads

LEMMA BeginRefreshKeeps ==
    ASSUME CatalogueInv, BeginRefresh
    PROVE  Loads
<1>1. console' \in Consoles
  BY CountsType DEF Fields, Consoles, BeginRefresh, CatalogueInv
<1>2. /\ past' \in Histories /\ Looks
      /\ past'.asked.views = {n \in Names : disk[n].manifest /\ disk[n].definition}
      /\ DOMAIN past'.asked.tables = {n \in Tables : disk[n].manifest}
      /\ \A n \in DOMAIN past'.asked.tables : past'.asked.tables[n] = past.published[n]
  BY LoadingType DEF BeginRefresh, CatalogueInv
<1>3. Fields'
  BY <1>1, <1>2 DEF Fields, Looks, CatalogueInv
<1>4. HeldInv'
  BY DEF HeldInv, BeginRefresh, CatalogueInv
<1>5. AskedInv'
  BY <1>2 DEF DirectoryInv, AskedInv, Looks, CatalogueInv
<1>6. LoadInv'
  <2>1. /\ console'.todo \subseteq DOMAIN console'.tables
        /\ DOMAIN console'.tables \ console'.todo = {}
    BY DEF BeginRefresh
  <2>2. console'.state = "reread"
    BY DEF BeginRefresh
  <2> QED BY <2>1, <2>2 DEF LoadInv, RowsRead
<1> QED BY <1>2, <1>3, <1>4, <1>5, <1>6 DEF Loads

LEMMA RereadKeeps ==
    ASSUME CatalogueInv, NEW n \in Names, Reread(n)
    PROVE  Loads
<1>1. [console.tables EXCEPT ![n] = disk[n].flushed] \in Counts
  BY CountsIntro, CountsType DEF Fields, Entry, Consoles, CatalogueInv
<1>2. console' \in Consoles
  BY <1>1 DEF Fields, Consoles, Reread, CatalogueInv
<1>3. past' \in Histories /\ Looks
  BY DEF Fields, Histories, Looks, NotOutrun, Reread, CatalogueInv
<1>4. Fields'
  BY <1>2, <1>3 DEF Fields, Looks, CatalogueInv
<1>5. HeldInv'
  BY DEF Fields, Histories, NotOutrun, HeldInv, LoadInv, Reread, CatalogueInv
<1>6. AskedInv'
  BY DEF Fields, Histories, NotOutrun, AskedInv, Reread, CatalogueInv
<1>7. LoadInv'
  BY DEF Fields, Histories, NotOutrun, AskedInv, LoadInv, RowsRead, Reread, CatalogueInv
<1> QED BY <1>3, <1>4, <1>5, <1>6, <1>7 DEF Loads

LEMMA EndRereadKeeps ==
    ASSUME CatalogueInv, EndReread
    PROVE  Loads
<1>1. console' \in Consoles
  BY DEF Fields, Consoles, EndReread, Listed, CatalogueInv
<1>2. past' \in Histories /\ Looks
  BY DEF Fields, Looks, EndReread, CatalogueInv
<1>3. Fields'
  BY <1>1, <1>2 DEF Fields, Looks, CatalogueInv
<1>4. HeldInv'
  BY DEF HeldInv, LoadInv, EndReread, CatalogueInv
<1>5. AskedInv'
  BY DEF AskedInv, EndReread, CatalogueInv
<1>6. LoadInv'
  BY DEF Fields, Histories, DirectoryInv, AskedInv, LoadInv, RowsRead, Whole, Asked, EndReread,
         Listed, CatalogueInv, Names
<1> QED BY <1>2, <1>3, <1>4, <1>5, <1>6 DEF Loads

LEMMA ListKeeps ==
    ASSUME CatalogueInv, NEW entries \in SUBSET Names, List(entries)
    PROVE  Loads
<1>1. console' \in Consoles
  BY DEF Fields, Consoles, List, CatalogueInv
<1>2. past' \in Histories /\ Looks
  BY DEF Fields, Looks, List, CatalogueInv
<1>3. Fields'
  BY <1>1, <1>2 DEF Fields, Looks, CatalogueInv
<1>4. HeldInv'
  BY DEF HeldInv, LoadInv, List, CatalogueInv
<1>5. AskedInv'
  BY DEF AskedInv, List, CatalogueInv
<1>6. LoadInv'
  BY DEF Fields, Consoles, LoadInv, RowsRead, Whole, Asked, List, CatalogueInv
<1> QED BY <1>2, <1>3, <1>4, <1>5, <1>6 DEF Loads

LEMMA PartitionKeeps ==
    ASSUME CatalogueInv, NEW views \in SUBSET Views, Partition(views)
    PROVE  Loads
<1>1. console' \in Consoles
  BY DEF Fields, Consoles, Partition, CatalogueInv
<1>2. past' \in Histories /\ Looks
  BY DEF Fields, Looks, Partition, CatalogueInv
<1>3. Fields'
  BY <1>1, <1>2 DEF Fields, Looks, CatalogueInv
<1>4. HeldInv'
  BY DEF HeldInv, LoadInv, Partition, CatalogueInv
<1>5. AskedInv'
  BY DEF AskedInv, Partition, CatalogueInv
<1>6. LoadInv'
  BY DEF LoadInv, Parted, RowsRead, Whole, Asked, Partition, ViewLike, CatalogueInv
<1> QED BY <1>2, <1>3, <1>4, <1>5, <1>6 DEF Loads

LEMMA OpenTableKeeps ==
    ASSUME CatalogueInv, NEW n \in Names, OpenTable(n)
    PROVE  Loads
<1> DEFINE held == With(console.tables, n, disk[n].flushed)
<1>1. /\ held \in Counts
      /\ DOMAIN held = DOMAIN console.tables \union {n}
      /\ held[n] = disk[n].flushed
      /\ \A m \in DOMAIN console.tables : m # n => held[m] = console.tables[m]
  <2>1. console.tables \in Counts /\ disk[n].flushed \in Nat
    BY DEF Fields, Entry, Consoles, CatalogueInv
  <2> HIDE DEF Names
  <2>2. n \in Names
    OBVIOUS
  <2> QED BY ONLY <2>1, <2>2, WithType
<1>2. console' = [console EXCEPT !.tables = held, !.todo = @ \ {n}]
  BY DEF OpenTable
<1> HIDE DEF held
<1>3. /\ console'.state = "tables" /\ console.state = "tables" /\ n \in console.todo
      /\ console'.tables = held /\ console'.todo = console.todo \ {n}
      /\ console'.first = console.first /\ console'.views = console.views
      /\ console'.entries = console.entries /\ console'.plain = console.plain
      /\ n \notin DOMAIN console.tables /\ n \notin console.views
      /\ UNCHANGED <<disk, writer>> /\ past' = [past EXCEPT !.raced = {}]
      /\ past'.asked = past.asked /\ past'.overlap = past.overlap
  BY <1>2 DEF OpenTable, Claimed, Fields, Consoles, Histories, NotOutrun, CatalogueInv
<1>4. console' \in Consoles
  BY <1>1, <1>2 DEF Fields, Consoles, CatalogueInv
<1>5. past' \in Histories /\ Looks
  BY <1>3 DEF Fields, Histories, Looks, CatalogueInv
<1>6. Fields'
  BY <1>4, <1>5 DEF Fields, Looks, CatalogueInv
<1>7. HeldInv'
  BY <1>1, <1>3 DEF HeldInv, CatalogueInv
<1>8. AskedInv'
  BY <1>3 DEF AskedInv, CatalogueInv
<1>9. LoadInv'
  <2>1. RowsRead(DOMAIN console.tables)'
    <3>1. \A m \in DOMAIN past.asked.tables : past.asked.tables[m] <= disk[m].flushed
      BY DEF AskedInv, CatalogueInv
    <3>2. disk[n].flushed \in Nat /\ \A m \in DOMAIN past.asked.tables : past.asked.tables[m] \in Nat
      BY CountsType DEF Fields, Entry, Histories, CatalogueInv
    <3>3. RowsRead(DOMAIN console.tables)
      BY <1>3 DEF LoadInv, CatalogueInv
    <3> QED BY <1>1, <1>3, <3>1, <3>2, <3>3 DEF RowsRead
  <2>2. Parted'
    BY <1>3 DEF LoadInv, Parted, Whole, Asked, CatalogueInv
  <2>3. /\ console'.plain \subseteq DOMAIN console'.tables \union console'.todo
        /\ console'.todo \subseteq console'.plain \ DOMAIN console'.tables
    BY <1>1, <1>3 DEF LoadInv, CatalogueInv
  <2> QED BY <1>3, <2>1, <2>2, <2>3 DEF LoadInv
<1> QED BY <1>5, <1>6, <1>7, <1>8, <1>9 DEF Loads

LEMMA EndTablesKeeps ==
    ASSUME CatalogueInv, EndTables
    PROVE  Loads
<1>1. console' \in Consoles
  BY DEF Fields, Consoles, EndTables, CatalogueInv
<1>2. past' \in Histories /\ Looks
  BY DEF Fields, Looks, EndTables, CatalogueInv
<1>3. Fields'
  BY <1>1, <1>2 DEF Fields, Looks, CatalogueInv
<1>4. HeldInv'
  BY DEF HeldInv, LoadInv, EndTables, CatalogueInv
<1>5. AskedInv'
  BY DEF AskedInv, EndTables, CatalogueInv
<1>6. LoadInv'
  BY DEF LoadInv, Parted, RowsRead, Whole, Asked, EndTables, CatalogueInv
<1> QED BY <1>2, <1>3, <1>4, <1>5, <1>6 DEF Loads

LEMMA OpenViewKeeps ==
    ASSUME CatalogueInv, NEW v \in Views, OpenView(v)
    PROVE  Loads
<1>1. console' \in Consoles
  BY DEF Fields, Consoles, OpenView, Claimed, CatalogueInv
<1>2. past' \in Histories /\ Looks
  BY DEF Fields, Histories, Looks, NotOutrun, OpenView, Claimed, CatalogueInv
<1>3. Fields'
  BY <1>1, <1>2 DEF Fields, Looks, CatalogueInv
<1>4. HeldInv'
  BY DEF Fields, Histories, NotOutrun, HeldInv, LoadInv, Parted, OpenView, Claimed, CatalogueInv
<1>5. AskedInv'
  BY DEF Fields, Histories, NotOutrun, AskedInv, OpenView, Claimed, CatalogueInv
<1>6. LoadInv'
  BY DEF Fields, Histories, NotOutrun, LoadInv, Parted, RowsRead, Whole, Asked, OpenView, Claimed, CatalogueInv
<1> QED BY <1>2, <1>3, <1>4, <1>5, <1>6 DEF Loads

LEMMA EndLoadKeeps ==
    ASSUME CatalogueInv, EndLoad
    PROVE  Loads
<1>1. console' \in Consoles
  BY DEF Fields, Consoles, EndLoad, CatalogueInv
<1>2. past' \in Histories /\ Looks
  BY DEF Fields, Looks, EndLoad, CatalogueInv
<1>3. Fields'
  BY <1>1, <1>2 DEF Fields, Looks, CatalogueInv
<1>4. HeldInv'
  BY DEF HeldInv, LoadInv, EndLoad, CatalogueInv
<1>5. AskedInv'
  BY DEF AskedInv, EndLoad, CatalogueInv
<1>6. LoadInv'
  BY DEF LoadInv, RowsRead, EndLoad
<1> QED BY <1>2, <1>3, <1>4, <1>5, <1>6 DEF Loads

LEMMA FailLoadKeeps ==
    ASSUME CatalogueInv, NEW n \in Names, FailLoad(n)
    PROVE  Loads
<1>1. console' \in Consoles
  BY AbsentType DEF Fields, Consoles, FailLoad, CatalogueInv
<1>2. past' \in Histories /\ Looks
  BY DEF Fields, Histories, Looks, NotOutrun, FailLoad, CatalogueInv
<1>3. Fields'
  BY <1>1, <1>2 DEF Fields, Looks, CatalogueInv
<1>4. HeldInv'
  BY DEF Fields, Histories, NotOutrun, HeldInv, LoadInv, FailLoad, Absent, CatalogueInv
<1>5. AskedInv'
  BY DEF Fields, Histories, NotOutrun, AskedInv, FailLoad, CatalogueInv
<1>6. LoadInv'
  BY DEF Fields, Histories, NotOutrun, LoadInv, RowsRead, FailLoad, Absent
<1> QED BY <1>2, <1>3, <1>4, <1>5, <1>6 DEF Loads

LEMMA CloseKeeps ==
    ASSUME CatalogueInv, Close
    PROVE  Loads
<1>1. console' \in Consoles
  BY AbsentType DEF Close
<1>2. past' \in Histories /\ Looks
  BY DEF Fields, Looks, Close, CatalogueInv
<1>3. Fields'
  BY <1>1, <1>2 DEF Fields, Looks, CatalogueInv
<1>4. HeldInv'
  BY DEF HeldInv, LoadInv, Close, Absent
<1>5. AskedInv'
  BY DEF AskedInv, Close, CatalogueInv
<1>6. LoadInv'
  BY DEF LoadInv, RowsRead, Close, Absent
<1> QED BY <1>2, <1>3, <1>4, <1>5, <1>6 DEF Loads

LEMMA ReadKeeps == ASSUME CatalogueInv, Read PROVE Loads
BY BeginOpenKeeps, BeginRefreshKeeps, RereadKeeps, EndRereadKeeps, ListKeeps, PartitionKeeps,
   OpenTableKeeps, EndTablesKeeps, OpenViewKeeps, EndLoadKeeps, FailLoadKeeps, CloseKeeps
   DEF Read

LEMMA CatalogueInvInductive == Spec => []CatalogueInv
<1>1. CatalogueInv /\ [Next]_vars => CatalogueInv'
  <2> SUFFICES ASSUME CatalogueInv, [Next]_vars PROVE CatalogueInv'
    OBVIOUS
  <2>1. CASE Write
    BY <2>1, WriteKeeps, GrowsKeeps, GoneKeeps DEF CatalogueInv, Kept
  <2>2. CASE Read
    BY <2>2, ReadKeeps, LooksKeeps DEF CatalogueInv, Loads
  <2>3. CASE UNCHANGED vars
    BY <2>3 DEF vars, CatalogueInv, Fields, DirectoryInv, WriterInv, HoldingInv, CreationInv,
                LoopInv, HeldInv, AskedInv, LoadInv, Parted, RowsRead, Whole, Asked
  <2> QED BY <2>1, <2>2, <2>3 DEF Next
<1> QED BY <1>1, CatalogueInit, PTL DEF Spec

----------------------------------------------------------------------------

(* The flushed rows of a directory are of the acknowledged ones, a         *)
(* definition is behind a manifest, and no name is held as a table and as  *)
(* a view, by the writer or by the console.                                *)
THEOREM TypeCorrect == Spec => []TypeOK
<1>1. CatalogueInv => TypeOK
  <2> SUFFICES ASSUME CatalogueInv PROVE TypeOK
    OBVIOUS
  <2>1. \A n \in Names : disk[n].flushed \in Nat /\ disk[n].acked \in Nat
    BY DEF CatalogueInv, Fields, Entry
  <2>2. \A n \in Names :
           /\ disk[n].flushed \in 0..disk[n].acked
           /\ disk[n].acked \in 0..MaxRows
           /\ disk[n].definition => disk[n].manifest
    BY <2>1, MaxRowsAssumption DEF CatalogueInv, DirectoryInv
  <2>3. writer.kind \in {"closed", "console", "program"}
    BY DEF CatalogueInv, Fields, Writers
  <2>4. writer.tables \cap writer.views = {}
    BY DEF CatalogueInv, WriterInv, HoldingInv
  <2>5. DOMAIN console.tables \cap console.views = {}
    BY DEF CatalogueInv, HeldInv
  <2> QED BY <2>2, <2>3, <2>4, <2>5 DEF TypeOK
<1> QED BY <1>1, CatalogueInvInductive, PTL

(* A successful Database::refresh_views leaves every view of the database  *)
(* covering what its sources held at the call, for any views over any      *)
(* tables: what a table took in since only adds to it, and a view is never *)
(* held by a process that does not hold its sources.                       *)
THEOREM SweepCovers == Spec => []SweepCoversAll
<1>1. CatalogueInv => SweepCoversAll
  BY DEF CatalogueInv, WriterInv, LoopInv, SweepCoversAll
<1> QED BY <1>1, CatalogueInvInductive, PTL

(* Rows that no refresh derived are in a materialisation only where the    *)
(* view's creation was cut in half: DerivedRefusal knows every complete    *)
(* view of the directory, whichever process opened it, and a directory     *)
(* without a definition is such a half.                                    *)
THEOREM RowsDerived == Spec => []DerivedOnly
<1>1. CatalogueInv => DerivedOnly
  BY DEF CatalogueInv, DirectoryInv, DerivedOnly
<1> QED BY <1>1, CatalogueInvInductive, PTL

(* An open or a refresh of the read-only console that succeeds beside the  *)
(* writer answers for every directory that was complete when it began,     *)
(* with the rows published by then (Console::open_read_only, refresh).     *)
THEOREM LoadFindsAll == Spec => LoadsComplete
<1> DEFINE Found == /\ \A v \in past.asked.views : Routed(v) = "view"
                    /\ \A n \in DOMAIN past.asked.tables :
                           /\ Routed(n) = "table"
                           /\ console.tables[n] >= past.asked.tables[n]
<1>1. CatalogueInv /\ EndLoad => Found
  <2> SUFFICES ASSUME CatalogueInv, EndLoad PROVE Found
    OBVIOUS
  <2>1. console.state = "views" /\ console.todo = {}
    BY DEF EndLoad
  <2>2. /\ Parted /\ RowsRead(DOMAIN console.tables)
        /\ console.plain \subseteq DOMAIN console.tables
        /\ console.entries \ console.plain \subseteq console.views
    BY <2>1 DEF CatalogueInv, LoadInv
  <2>3. \A v \in past.asked.views : v \in console.views
    BY <2>2 DEF Parted, Whole, Asked
  <2>4. \A n \in DOMAIN past.asked.tables : n \in DOMAIN console.tables
    BY <2>2, SourcesType DEF CatalogueInv, AskedInv, Parted, Whole, Asked
  <2> QED BY <2>2, <2>3, <2>4 DEF CatalogueInv, HeldInv, RowsRead, Routed
<1>2. CatalogueInv /\ [Next]_vars => [EndLoad => Found]_vars
  BY <1>1
<1> QED BY <1>2, CatalogueInvInductive, PTL DEF Spec, LoadsComplete

(* Of what the writer does only the creation of a directory gets one       *)
(* refused at an open or a refresh beside it, for a view found is found    *)
(* with its sources; what is not refused and fails all the same is outrun  *)
(* by its own compactions.                                                 *)
THEOREM LoadFailsOverChange == Spec => FailsOnlyOverChange
<1> DEFINE Creation == past.overlap \/ DOMAIN console.tables \cap ViewLike(disk) # {}
           Cause(n) == IF Refused(n) THEN Creation ELSE Outrun(n)
<1>1. ASSUME CatalogueInv, NEW n \in Names, FailLoad(n), Refused(n) PROVE Creation
  <2> SUFFICES ASSUME ~past.overlap PROVE DOMAIN console.tables \cap ViewLike(disk) # {}
    OBVIOUS
  <2>1. n \in console.todo /\ Refused(n)
    BY <1>1 DEF FailLoad
  <2>2. ~(console.state = "tables" /\ Claimed(n))
    BY <1>1, <2>1 DEF CatalogueInv, LoadInv, Parted, Claimed
  <2>3. console.state = "views" /\ (Claimed(n) \/ ~(Sources[n] \subseteq DOMAIN console.tables))
    BY <2>1, <2>2 DEF Refused
  <2>4. /\ Parted /\ console.plain \subseteq DOMAIN console.tables
        /\ n \in console.entries \ console.plain
    BY <1>1, <2>1, <2>3 DEF CatalogueInv, LoadInv
  <2>5. n \in Views /\ disk[n].definition
    BY <2>4 DEF Parted
  <2>6. n \in ViewLike(disk)
    BY <1>1, <2>5 DEF CatalogueInv, DirectoryInv, ViewLike, Listed
  <2>7. Sources[n] \subseteq DOMAIN console.tables
    <3> SUFFICES ASSUME NEW s \in Sources[n] PROVE s \in DOMAIN console.tables
      OBVIOUS
    <3>1. s \in Tables /\ s \in Names /\ disk[s].manifest
      BY <1>1, <2>5, SourcesType DEF CatalogueInv, DirectoryInv, Names
    <3>2. s \in console.entries
      BY <2>4, <3>1 DEF Parted, Whole
    <3>3. s \notin Views
      BY <3>1, NamesAssumption
    <3> QED BY <2>4, <3>2, <3>3 DEF Parted
  <2>8. n \notin console.views
    BY <1>1, <2>1, <2>3 DEF CatalogueInv, LoadInv
  <2> QED BY <2>3, <2>6, <2>7, <2>8 DEF Claimed
<1>2. ASSUME CatalogueInv, NEW n \in Names, FailLoad(n) PROVE Cause(n)
  BY <1>1, <1>2 DEF FailLoad
<1>3. CatalogueInv /\ [Next]_vars => [\A n \in Names : FailLoad(n) => Cause(n)]_vars
  BY <1>2
<1> QED BY <1>3, CatalogueInvInductive, PTL DEF Spec, FailsOnlyOverChange
=============================================================================
