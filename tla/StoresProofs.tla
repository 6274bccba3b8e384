---------------------------- MODULE StoresProofs ----------------------------
(***************************************************************************)
(* Proofs about Stores for any number of processes, tickets, recorded runs *)
(* and legacy rows, and for whichever of them use the file at once.        *)
(*                                                                         *)
(* The database remembers nothing of who is at work in it but its own      *)
(* lock: what a process has read, or has yet to write, is compared with    *)
(* the file by the invariant.                                              *)
(***************************************************************************)
EXTENDS Stores, WellFoundedInduction, TLAPS

Row == [run : Nat, sonar : Nat, tags : Nat, waste : Nat]
Table == {"metrics", "log", "bench"}
Column == {"legacy", "renamed", "added"}

TypeOK ==
    /\ tables \subseteq Table
    /\ columns \in [{"metrics", "bench"} -> SUBSET Column]
    /\ row \in [Ticket -> Row]
    /\ log \in [1 .. MaxLog -> {"free", "app", "legacy"}]
    /\ lock \in BOOLEAN /\ wrote \in BOOLEAN /\ disturbed \in BOOLEAN
    /\ opening \in [Opener -> {"closed", "read", "rename", "alter", "open", "failed"}]
    /\ seen \in [Opener -> SUBSET Column]
    /\ writing \in [Ticket -> {"no", "log", "tags"}]
    /\ runs \in Nat
    /\ pending \in [Ticket -> [attempts : Nat, run : Nat]]
    /\ script \in {"idle", "select", "update"}
    /\ late \in BOOLEAN
    /\ selected \subseteq Ticket /\ read \in [Ticket -> Row]
    /\ split \in {"idle", "metrics", "bench", "nothing", "done"}

\* A row is of a run that was begun; what is still to be written about a ticket
\* goes to a row that is there.
RowsOK ==
    /\ runs <= MaxRuns
    /\ \A t \in Ticket : row[t] = NoRow \/ row[t].run <= runs
    /\ \A t \in Ticket : row[t] = NoRow =>
         writing[t] = "no" /\ pending[t] = NotPending /\ t \notin selected
    /\ \A t \in retrying : t \in Ticket /\ pending[t] # NotPending

\* A process that is past CREATE TABLE knows no column that its table lacks,
\* unless an ALTER of its ran into the lock.
SeenOK ==
    /\ "legacy" \notin columns["bench"]
    /\ \A p \in Opener :
        /\ opening[p] \in {"read", "rename", "alter", "open"} => TableOf(p) \in tables
        /\ opening[p] = "rename" => p \in MetricsOpener
        /\ opening[p] \in {"alter", "open"} /\ p \notin expired =>
             seen[p] \cap Added(TableOf(p)) \subseteq columns[TableOf(p)]
        /\ opening[p] = "open" => Missing(p) = {}

\* The lock is held from the script's first update to its commit; of what it has
\* read under the lock, the rows it has still to treat are as they were.
LockOK ==
    /\ wrote = lock
    /\ late => wrote
    /\ late => \A t \in selected : row[t] = read[t]

\* Until the import is over nobody has a store, unless that is remembered.
ImportOK ==
    /\ {i \in 1 .. MaxLog : log[i] = "legacy"} \subseteq LegacyLog
    /\ split = "done" => benchRows
    /\ ~ disturbed /\ split # "done" =>
        /\ \A p \in Opener : opening[p] = "closed"
        /\ \A t \in Ticket : writing[t] = "no"
        /\ \A i \in 1 .. MaxLog : log[i] # "app"
    /\ ~ disturbed /\ split \in {"bench", "done"} =>
        /\ \A t \in Ticket : row[t] # NoRow
        /\ \A i \in LegacyLog : log[i] = "legacy"

Inv == TypeOK /\ RowsOK /\ SeenOK /\ LockOK /\ ImportOK

USE DEF vars, db, openers, daemon, backfill, importer, SetTo
LEMMA Constants ==
  /\ MaxRuns \in Nat /\ MaxLog \in Nat /\ Null \in Nat /\ Null = MaxRuns + 1
  /\ LegacyLog \subseteq 1 .. MaxLog
  /\ NoRow \in Row /\ NoRow.run = Null /\ OldRow \in Row /\ OldRow.run = 0
  /\ OldRow # NoRow
  /\ NothingRead \in [Ticket -> Row]
  /\ NotPending \in [attempts : Nat, run : Nat]
<1>1. MaxRuns \in Nat /\ MaxLog \in Nat /\ LegacyLog \subseteq 1 .. MaxLog
  BY StoresAssumption
<1>2. Null \in Nat /\ Null = MaxRuns + 1
  BY <1>1 DEF Null
<1>3. NoRow \in Row /\ NoRow.run = Null /\ OldRow \in Row /\ OldRow.run = 0
  BY <1>2 DEF NoRow, OldRow, Row
<1> QED
  BY <1>1, <1>2, <1>3 DEF NotPending, NothingRead

LEMMA InitInv == Init => Inv
<1> SUFFICES ASSUME Init PROVE Inv
  OBVIOUS
<1>1. TypeOK
  <2>1. columns \in [{"metrics", "bench"} -> SUBSET Column]
    BY DEF Init, Column
  <2>2. row \in [Ticket -> Row]
    BY Constants DEF Init
  <2> QED
    BY <2>1, <2>2, Constants DEF Init, TypeOK, Table
<1>2. RowsOK
  BY Constants DEF Init, RowsOK
<1>3. SeenOK /\ LockOK
  <2>1. "legacy" \notin columns["bench"]
    BY DEF Init
  <2>2. \A p \in Opener : opening[p] = "closed"
    BY DEF Init
  <2>3. LockOK
    BY DEF Init, LockOK
  <2> QED
    BY <2>1, <2>2, <2>3 DEF SeenOK
<1>4. ImportOK
  BY Constants DEF Init, ImportOK
<1> QED
  BY <1>1, <1>2, <1>3, <1>4 DEF Inv

\* The id that AUTOINCREMENT gives next is after all that are taken.
LEMMA NextIdFree ==
  ASSUME TypeOK
  PROVE  NextId \in 1 .. MaxLog + 1 /\ \A j \in 1 .. MaxLog : j >= NextId => log[j] = "free"
<1> DEFINE S == {i \in 1 .. MaxLog + 1 : \A j \in 1 .. MaxLog : j >= i => log[j] = "free"}
<1>1. S \in SUBSET Nat /\ S # {}
  <2>1. MaxLog + 1 \in S
    BY Constants
  <2> QED
    BY <2>1, Constants
<1>2. PICK m \in S : \A k \in S : <<k, m>> \notin OpToRel(<, Nat)
  BY <1>1, WFMin, NatLessThanWellFounded, Zenon
<1>3. \A k \in S : ~ (k < m)
  BY <1>1, <1>2, Zenon DEF OpToRel
<1>4. m = 1 \/ log[m - 1] # "free"
  <2> SUFFICES ASSUME m # 1, log[m - 1] = "free" PROVE FALSE
    OBVIOUS
  <2>1. m - 1 \in 1 .. MaxLog + 1 /\ m - 1 < m
    BY Constants
  <2>2. \A j \in 1 .. MaxLog : j >= m - 1 => j = m - 1 \/ j >= m
    BY Constants
  <2>3. m - 1 \in S
    BY <2>1, <2>2
  <2> QED
    BY <1>3, <2>1, <2>3
<1> QED
  BY <1>4 DEF NextId

-----------------------------------------------------------------------------
(* Opening a store *)

\* A process that opens its store changes no row.
LEMMA OpenKeepsRows ==
  ASSUME Inv, NEW p \in Opener, Open(p)
  PROVE  RowsOK' /\ LockOK' /\ ImportOK'
<1>1. UNCHANGED <<row, log, benchRows, daemon, backfill, importer>>
  BY DEF Open, Create, ReadColumns, Rename, AddColumn, Opened, Reopen, OpenFails
<1>2. disturbed => disturbed'
  BY DEF Open, Create, ReadColumns, Rename, AddColumn, Opened, Reopen, OpenFails
<1>3. disturbed' \/ split = "done"
  <2> SUFFICES ASSUME ~ disturbed', split # "done" PROVE FALSE
    OBVIOUS
  <2>1. opening[p] = "closed"
    BY <1>2 DEF Inv, ImportOK
  <2> QED
    BY <2>1 DEF Open, Create, ReadColumns, Rename, AddColumn, Opened, Reopen
<1>4. RowsOK' /\ LockOK'
  BY <1>1 DEF Inv, RowsOK, LockOK
<1>5. ImportOK'
  BY <1>1, <1>2, <1>3 DEF Inv, ImportOK
<1> QED
  BY <1>4, <1>5

LEMMA TableOfOpener ==
  ASSUME NEW p \in Opener
  PROVE  /\ TableOf(p) \in {"metrics", "bench"}
         /\ p \notin MetricsOpener => p \in BenchOpener /\ TableOf(p) = "bench"
         /\ p \in MetricsOpener => TableOf(p) = "metrics"
         /\ Added(TableOf(p)) \subseteq {"renamed", "added"}
  BY DEF TableOf, Opener, Added

LEMMA CreateInv == ASSUME Inv, NEW p \in Opener, Create(p) PROVE TypeOK' /\ SeenOK'
<1> USE TableOfOpener
<1>1. CASE ~ lock /\ opening' = SetTo(opening, p, "read")
  <2> DEFINE table == TableOf(p)
  <2>1. /\ tables \subseteq tables' /\ tables' \subseteq Table /\ table \in tables'
        /\ columns' = IF table \in tables THEN columns ELSE SetTo(columns, table, Fresh(table))
        /\ UNCHANGED <<row, log, benchRows, seen, expired, daemon, backfill, importer>>
    BY <1>1 DEF Create, Inv, TypeOK, Table, TableOf
  <2>2. Fresh(table) \in SUBSET Column /\ "legacy" \notin Fresh(table)
    BY DEF Fresh, Added, Column
  <2>3. columns' \in [{"metrics", "bench"} -> SUBSET Column] /\ "legacy" \notin columns'["bench"]
    BY <2>1, <2>2 DEF Inv, TypeOK, SeenOK
  <2>4. \A t \in tables \cap {"metrics", "bench"} : columns'[t] = columns[t]
    BY <2>1 DEF Inv, TypeOK
  <2>5. disturbed' \in BOOLEAN
    BY DEF Create
  <2>6. TypeOK'
    BY <1>1, <2>1, <2>3, <2>5 DEF Inv, TypeOK
  <2>7. \A q \in Opener : q # p => opening'[q] = opening[q]
    BY <1>1 DEF Inv, TypeOK
  <2>8. opening'[p] = "read"
    BY <1>1 DEF Inv, TypeOK
  <2> HIDE DEF table
  <2>9. SeenOK'
    <3> SUFFICES ASSUME NEW q \in Opener
                 PROVE  /\ opening'[q] \in {"read", "rename", "alter", "open"} => TableOf(q) \in tables'
                        /\ opening'[q] = "rename" => q \in MetricsOpener
                        /\ opening'[q] \in {"alter", "open"} /\ q \notin expired' =>
                             seen'[q] \cap Added(TableOf(q)) \subseteq columns'[TableOf(q)]
                        /\ opening'[q] = "open" => Missing(q)' = {}
      BY <2>3 DEF SeenOK
    <3>1. CASE q = p
      BY <2>1, <2>8, <3>1 DEF table
    <3>2. CASE q # p
      BY <2>1, <2>4, <2>7, <3>2 DEF Inv, SeenOK, Missing
    <3> QED
      BY <3>1, <3>2
  <2> QED
    BY <2>6, <2>9
<1>2. CASE lock /\ OpenFails(p)
  <2>1. TypeOK'
    BY <1>2 DEF Inv, TypeOK, Create, OpenFails
  <2>2. SeenOK'
    BY <1>2 DEF Inv, TypeOK, SeenOK, Create, OpenFails, Missing
  <2> QED
    BY <2>1, <2>2
<1> QED
  BY <1>1, <1>2 DEF Create

\* A process that fails or has yet to begin asks nothing of the file.
LEMMA ClosedInv ==
  ASSUME Inv, NEW p \in Opener, NEW step \in {"closed", "failed"},
         opening' = SetTo(opening, p, step), expired' \in {expired, expired \ {p}},
         UNCHANGED <<db, seen, daemon, backfill, importer>>, disturbed' \in BOOLEAN
  PROVE  TypeOK' /\ SeenOK'
<1>1. TypeOK'
  BY DEF Inv, TypeOK
<1>2. SeenOK'
  BY DEF Inv, TypeOK, SeenOK, Missing
<1> QED
  BY <1>1, <1>2

LEMMA ReadColumnsInv == ASSUME Inv, NEW p \in Opener, ReadColumns(p) PROVE TypeOK' /\ SeenOK'
<1> USE TableOfOpener
<1>1. /\ columns[TableOf(p)] \in SUBSET Column
      /\ opening[p] = "read" /\ opening'[p] \in {"rename", "alter"}
      /\ opening'[p] = "rename" => "legacy" \in columns[TableOf(p)]
      /\ seen' = SetTo(seen, p, columns[TableOf(p)])
      /\ \A q \in Opener : q # p => opening'[q] = opening[q]
      /\ opening' \in [Opener -> {"closed", "read", "rename", "alter", "open", "failed"}]
      /\ UNCHANGED <<db, expired, disturbed, daemon, backfill, importer>>
  BY DEF ReadColumns, Inv, TypeOK
<1>2. TypeOK'
  BY <1>1 DEF Inv, TypeOK
<1>3. SeenOK'
  <2>1. seen'[p] = columns[TableOf(p)] /\ \A q \in Opener : q # p => seen'[q] = seen[q]
    BY <1>1 DEF Inv, TypeOK
  <2>2. TableOf(p) \in tables /\ (opening'[p] = "rename" => p \in MetricsOpener)
    BY <1>1 DEF Inv, SeenOK
  <2> QED
    BY <1>1, <2>1, <2>2 DEF Inv, SeenOK, Missing
<1> QED
  BY <1>2, <1>3

\* A migration step adds to its table a column that its process then knows of.
LEMMA MigrationInv ==
  ASSUME Inv, NEW p \in Opener, NEW new \in SUBSET Column,
         opening[p] \in {"rename", "alter"},
         "legacy" \notin new \/ TableOf(p) = "metrics",
         (columns[TableOf(p)] \ {"legacy"}) \subseteq new,
         columns' = SetTo(columns, TableOf(p), new),
         seen'[p] \cap Added(TableOf(p)) \subseteq new \/ p \in expired,
         seen' \in [Opener -> SUBSET Column],
         \A q \in Opener : q # p => seen'[q] = seen[q] /\ opening'[q] = opening[q],
         opening' \in [Opener -> {"closed", "read", "rename", "alter", "open", "failed"}],
         opening'[p] = "alter",
         UNCHANGED <<tables, row, log, benchRows, expired, disturbed, daemon, backfill, importer>>
  PROVE  TypeOK' /\ SeenOK'
<1> USE TableOfOpener
<1>1. columns' \in [{"metrics", "bench"} -> SUBSET Column]
  BY DEF Inv, TypeOK
<1>2. TypeOK'
  BY <1>1 DEF Inv, TypeOK
<1>3. /\ columns'[TableOf(p)] = new
      /\ \A t \in {"metrics", "bench"} : t # TableOf(p) => columns'[t] = columns[t]
  BY DEF Inv, TypeOK
<1>4. "legacy" \notin columns'["bench"]
  BY <1>3 DEF Inv, SeenOK
<1>5. \A q \in Opener : \A c \in Added(TableOf(q)) :
        c \in columns[TableOf(q)] => c \in columns'[TableOf(q)]
  BY <1>3
<1>6. SeenOK'
  <2> SUFFICES ASSUME NEW q \in Opener
               PROVE  /\ opening'[q] \in {"read", "rename", "alter", "open"} => TableOf(q) \in tables
                      /\ opening'[q] = "rename" => q \in MetricsOpener
                      /\ opening'[q] \in {"alter", "open"} /\ q \notin expired =>
                           seen'[q] \cap Added(TableOf(q)) \subseteq columns'[TableOf(q)]
                      /\ opening'[q] = "open" => Missing(q)' = {}
    BY <1>4 DEF SeenOK
  <2>1. CASE q = p
    BY <1>3, <2>1 DEF Inv, SeenOK
  <2>2. CASE q # p
    <3>1. Missing(q)' = Missing(q)
      BY <2>2 DEF Missing
    <3> QED
      BY <1>5, <2>2, <3>1 DEF Inv, SeenOK
  <2> QED
    BY <2>1, <2>2
<1> QED
  BY <1>2, <1>6

LEMMA RenameInv == ASSUME Inv, NEW p \in Opener, Rename(p) PROVE TypeOK' /\ SeenOK'
<1>1. TableOf(p) = "metrics"
  BY DEF Rename, Inv, SeenOK, TableOf
<1>2. CASE OpenFails(p)
  BY <1>2, ClosedInv DEF Rename, OpenFails, Inv, TypeOK
<1>3. CASE ~ OpenFails(p)
  <2> DEFINE new == (columns.metrics \ {"legacy"}) \cup {"renamed"}
  <2>1. /\ columns' = SetTo(columns, "metrics", new) /\ seen' = SetTo(seen, p, columns'.metrics)
        /\ opening' = SetTo(opening, p, "alter") /\ opening[p] = "rename"
        /\ UNCHANGED <<tables, row, log, benchRows, expired, disturbed, daemon, backfill, importer>>
    BY <1>3 DEF Rename
  <2>2. new \in SUBSET Column /\ columns'.metrics = new
    BY <2>1 DEF Inv, TypeOK, Column
  <2>3. /\ seen'[p] = new /\ seen' \in [Opener -> SUBSET Column]
        /\ opening'[p] = "alter"
        /\ opening' \in [Opener -> {"closed", "read", "rename", "alter", "open", "failed"}]
        /\ \A q \in Opener : q # p => seen'[q] = seen[q] /\ opening'[q] = opening[q]
    BY <2>1, <2>2 DEF Inv, TypeOK
  <2>4. /\ (columns[TableOf(p)] \ {"legacy"}) \subseteq new
        /\ seen'[p] \cap Added(TableOf(p)) \subseteq new
        /\ columns' = SetTo(columns, TableOf(p), new)
    BY <1>1, <2>1, <2>3
  <2> HIDE DEF new
  <2> QED
    BY <1>1, <2>1, <2>2, <2>3, <2>4, MigrationInv
<1> QED
  BY <1>2, <1>3

LEMMA AddColumnInv ==
  ASSUME Inv, NEW p \in Opener, NEW c \in {"renamed", "added"}, AddColumn(p, c)
  PROVE  TypeOK' /\ SeenOK'
<1> USE TableOfOpener
<1>1. CASE /\ c \notin columns[TableOf(p)]
           /\ columns' = SetTo(columns, TableOf(p), columns[TableOf(p)] \cup {c})
           /\ seen' = SetTo(seen, p, seen[p] \cup {c})
           /\ UNCHANGED <<tables, row, log, benchRows, opening, expired>>
  <2> DEFINE new == columns[TableOf(p)] \cup {c}
  <2>1. /\ opening[p] = "alter" /\ opening' = opening /\ seen' = SetTo(seen, p, seen[p] \cup {c})
        /\ UNCHANGED <<tables, row, log, benchRows, expired, disturbed, daemon, backfill, importer>>
    BY <1>1 DEF AddColumn
  <2>2. new \in SUBSET Column /\ (columns[TableOf(p)] \ {"legacy"}) \subseteq new
    BY DEF Inv, TypeOK, Column
  <2>3. "legacy" \notin new \/ TableOf(p) = "metrics"
    BY DEF Inv, SeenOK
  <2>4. /\ seen'[p] = seen[p] \cup {c} /\ seen' \in [Opener -> SUBSET Column]
        /\ \A q \in Opener : q # p => seen'[q] = seen[q]
    BY <2>1 DEF Inv, TypeOK, Column
  <2>5. seen'[p] \cap Added(TableOf(p)) \subseteq new \/ p \in expired
    BY <2>1, <2>4 DEF Inv, SeenOK
  <2>6. opening' \in [Opener -> {"closed", "read", "rename", "alter", "open", "failed"}]
    BY <2>1 DEF Inv, TypeOK
  <2>7. columns' = SetTo(columns, TableOf(p), new)
    BY <1>1
  <2> HIDE DEF new
  <2> QED
    BY <2>1, <2>2, <2>3, <2>4, <2>5, <2>6, <2>7, MigrationInv
<1>2. CASE /\ lock \/ c \in columns[TableOf(p)]
           /\ seen' = SetTo(seen, p, seen[p] \cup Skipped(p, c))
           /\ expired' = IF lock THEN expired \cup {p} ELSE expired
           /\ UNCHANGED <<db, opening>>
  <2>1. /\ opening[p] = "alter"
        /\ UNCHANGED <<db, opening, disturbed, daemon, backfill, importer>>
    BY <1>2 DEF AddColumn
  <2>2. /\ seen'[p] = seen[p] \cup {c} /\ seen' \in [Opener -> SUBSET Column]
        /\ \A q \in Opener : q # p => seen'[q] = seen[q]
    BY <1>2 DEF Skipped, Inv, TypeOK, Column
  <2>3. TypeOK'
    BY <2>1, <2>2 DEF Inv, TypeOK
  <2>4. p \notin expired' =>
          p \notin expired /\ seen'[p] \cap Added(TableOf(p)) \subseteq columns[TableOf(p)]
    BY <1>2, <2>1, <2>2 DEF Inv, SeenOK
  <2>5. \A q \in Opener : q # p => (q \in expired' <=> q \in expired) /\ Missing(q)' = Missing(q)
    BY <1>2, <2>2 DEF Missing
  <2>6. SeenOK'
    BY <2>1, <2>2, <2>4, <2>5 DEF Inv, SeenOK
  <2> QED
    BY <2>3, <2>6
<1>3. CASE OpenFails(p)
  BY <1>3, ClosedInv DEF AddColumn, OpenFails, Inv, TypeOK
<1> QED
  BY <1>1, <1>2, <1>3 DEF AddColumn

LEMMA OpenedInv == ASSUME Inv, NEW p \in Opener, Opened(p) PROVE TypeOK' /\ SeenOK'
<1>1. /\ opening[p] = "alter" /\ Missing(p) = {} /\ opening'[p] = "open"
      /\ \A q \in Opener : q # p => opening'[q] = opening[q]
      /\ UNCHANGED <<db, seen, expired, disturbed, daemon, backfill, importer>>
  BY DEF Opened, Inv, TypeOK
<1>2. TypeOK'
  BY DEF Opened, Inv, TypeOK
<1>3. SeenOK'
  BY <1>1 DEF Inv, SeenOK, Missing
<1> QED
  BY <1>2, <1>3

LEMMA OpenInv == ASSUME Inv, NEW p \in Opener, Open(p) PROVE Inv'
<1>1. Reopen(p) => TypeOK' /\ SeenOK'
  BY ClosedInv DEF Reopen, Inv, TypeOK
<1>2. TypeOK' /\ SeenOK'
  BY <1>1, CreateInv, ReadColumnsInv, RenameInv, AddColumnInv, OpenedInv DEF Open
<1> QED
  BY <1>2, OpenKeepsRows DEF Inv
-----------------------------------------------------------------------------
(* The daemon *)

\* Of the openers the daemon's steps change the daemon's own store alone, which
\* it may lose.
LEMMA DaemonKeepsSchema ==
  ASSUME Inv, UNCHANGED <<tables, columns, seen, expired>>,
         opening' \in {opening, SetTo(opening, Watcher, "failed")}
  PROVE  /\ SeenOK'
         /\ opening' \in [Opener -> {"closed", "read", "rename", "alter", "open", "failed"}]
<1>1. \A q \in Opener : opening'[q] \in {opening[q], "failed"}
  BY DEF Inv, TypeOK
<1>2. opening' \in [Opener -> {"closed", "read", "rename", "alter", "open", "failed"}]
  BY DEF Inv, TypeOK
<1>3. SeenOK'
  BY <1>1 DEF Inv, SeenOK, Missing
<1> QED
  BY <1>2, <1>3

\* A daemon that has its store came after the import, or is remembered.
LEMMA UpMeansAfter ==
  ASSUME Inv, Up \/ \E t \in Ticket : writing[t] # "no"
  PROVE  disturbed \/ split = "done"
<1>1. Watcher \in Opener
  BY StoresAssumption DEF Opener
<1> QED
  BY <1>1 DEF Up, Inv, ImportOK

LEMMA PresentRows ==
  ASSUME Inv, NEW t \in Ticket
  PROVE  /\ row[t] \in Row /\ row[t].run \in Nat /\ runs \in Nat
         /\ row[t] # NoRow => row[t].run <= runs /\ row[t].run # Null
<1>1. row[t] \in Row /\ runs \in Nat /\ runs <= MaxRuns
  BY DEF Inv, TypeOK, RowsOK
<1>2. row[t].run \in Nat
  BY <1>1 DEF Row
<1>3. row[t] # NoRow => row[t].run <= runs
  BY DEF Inv, RowsOK
<1> QED
  BY <1>1, <1>2, <1>3, Constants

LEMMA RecordInv == ASSUME Inv, NEW t \in Ticket, Record(t) PROVE Inv'
<1>1. /\ UNCHANGED <<tables, columns, log, benchRows, pending, retrying, openers, backfill, importer>>
      /\ Up /\ runs < MaxRuns /\ runs' = runs + 1
  BY DEF Record, Abort
<1>2. /\ writing' \in [Ticket -> {"no", "log", "tags"}]
      /\ \A u \in Ticket : u # t => writing'[u] = writing[u]
  BY DEF Record, Abort, Inv, TypeOK
<1>3. runs \in Nat /\ runs' \in Nat /\ runs' <= MaxRuns /\ runs < runs' /\ runs' # Null
  BY <1>1, Constants DEF Inv, TypeOK
<1>4. \/ row' = row /\ writing'[t] = "no"
      \/ ~ lock /\ \E r \in Row : r.run = runs' /\ row' = SetTo(row, t, r)
  <2>1. CASE Raises /\ Abort(t)
    BY <2>1 DEF Abort, Inv, TypeOK
  <2>2. CASE ~ Raises
    <3>1. PICK f \in {"done", "failed", "none"} :
            row' = SetTo(row, t, [run |-> runs', waste |-> runs', tags |-> Null,
                                  sonar |-> IF f = "done" THEN runs' ELSE Null])
      BY <2>2 DEF Record
    <3> DEFINE r == [run |-> runs', waste |-> runs', tags |-> Null,
                     sonar |-> IF f = "done" THEN runs' ELSE Null]
    <3>2. r \in Row /\ r.run = runs'
      BY <1>3, Constants DEF Row
    <3> QED
      BY <2>2, <3>1, <3>2 DEF Raises
  <2> QED
    BY <2>1, <2>2 DEF Record
<1>5. TypeOK'
  BY <1>1, <1>2, <1>3, <1>4 DEF Inv, TypeOK
<1>6. \A u \in Ticket :
        /\ u # t => row'[u] = row[u]
        /\ (row'[t] = row[t] /\ writing'[t] = "no") \/ row'[t].run = runs'
  BY <1>4 DEF Inv, TypeOK
<1>7. \A u \in Ticket : row[u] # NoRow => row'[u] # NoRow
  BY <1>3, <1>6, Constants
<1>8. RowsOK'
  <2> SUFFICES ASSUME NEW u \in Ticket
               PROVE  /\ row'[u] = NoRow \/ row'[u].run <= runs'
                      /\ row'[u] = NoRow => writing'[u] = "no"
    BY <1>1, <1>3, <1>7 DEF Inv, RowsOK
  <2>1. row[u].run \in Nat /\ (row[u] # NoRow => row[u].run <= runs')
    BY <1>3, PresentRows
  <2>2. row[u] = NoRow => writing[u] = "no"
    BY DEF Inv, RowsOK
  <2> QED
    BY <1>2, <1>3, <1>6, <2>1, <2>2, Constants
<1>9. LockOK'
  BY <1>1, <1>4 DEF Inv, LockOK
<1>10. ImportOK'
  BY <1>1, <1>7, UpMeansAfter DEF Inv, ImportOK
<1>11. SeenOK'
  BY <1>1, DaemonKeepsSchema
<1> QED
  BY <1>5, <1>8, <1>9, <1>10, <1>11 DEF Inv

\* A step that changes what rows say, but neither which rows there are and of
\* which run they are nor, under the lock, anything.
LEMMA RowsOfSameRuns ==
  ASSUME Inv, row' \in [Ticket -> Row],
         \A t \in Ticket : row'[t].run = row[t].run,
         \A t \in Ticket : row[t] = NoRow => row'[t] = row[t],
         row' = row \/ ~ lock,
         UNCHANGED <<runs, lock, wrote, late>>,
         selected' = selected /\ read' = read
  PROVE  /\ \A t \in Ticket : row'[t] = NoRow \/ row'[t].run <= runs'
         /\ \A t \in Ticket : row'[t] = NoRow <=> row[t] = NoRow
         /\ LockOK'
<1>1. \A t \in Ticket : row[t] # NoRow => row[t].run # Null
  BY PresentRows
<1>2. \A t \in Ticket : row'[t] = NoRow <=> row[t] = NoRow
  BY <1>1, Constants
<1>3. \A t \in Ticket : row'[t] = NoRow \/ row'[t].run <= runs'
  BY <1>2 DEF Inv, RowsOK
<1>4. LockOK'
  BY DEF Inv, LockOK
<1> QED
  BY <1>2, <1>3, <1>4

LEMMA RecordRunInv == ASSUME Inv, NEW t \in Ticket, RecordRun(t) PROVE Inv'
<1>1. /\ UNCHANGED <<tables, columns, row, benchRows, pending, phase, reaped, runs, fetch,
                     retrying, openers, backfill, importer>>
      /\ writing[t] = "log"
  BY DEF RecordRun, Abort
<1>2. /\ writing' \in [Ticket -> {"no", "log", "tags"}]
      /\ \A u \in Ticket : writing[u] = "no" => writing'[u] = "no"
  BY DEF RecordRun, Abort, Inv, TypeOK
<1>3. /\ log' \in [1 .. MaxLog -> {"free", "app", "legacy"}]
      /\ \A i \in 1 .. MaxLog : log'[i] = "legacy" <=> log[i] = "legacy"
  <2>1. CASE log' = log
    BY <2>1 DEF Inv, TypeOK
  <2>2. CASE NextId <= MaxLog /\ log' = SetTo(log, NextId, "app")
    <3>1. NextId \in 1 .. MaxLog /\ log[NextId] = "free"
      BY <2>2, NextIdFree, Constants DEF Inv
    <3> HIDE DEF NextId
    <3> QED
      BY <2>2, <3>1 DEF Inv, TypeOK
  <2>3. NextId \in Nat
    BY NextIdFree, Constants DEF Inv
  <2> QED
    BY <2>1, <2>2, <2>3, Constants DEF RecordRun, Abort
<1>4. TypeOK'
  BY <1>1, <1>2, <1>3 DEF Inv, TypeOK
<1>5. RowsOK' /\ LockOK'
  BY <1>1, <1>2 DEF Inv, RowsOK, LockOK
<1>6. ImportOK'
  BY <1>1, <1>3, UpMeansAfter, Constants DEF Inv, ImportOK
<1>7. SeenOK'
  BY <1>1, DaemonKeepsSchema
<1> QED
  BY <1>4, <1>5, <1>6, <1>7 DEF Inv

LEMMA TagInv == ASSUME Inv, NEW t \in Ticket, Tag(t) PROVE Inv'
<1>1. /\ UNCHANGED <<tables, columns, log, benchRows, phase, reaped, runs, retrying, openers,
                     backfill, importer>>
      /\ writing[t] = "tags" /\ writing' = SetTo(writing, t, "no")
  BY DEF Tag, Abort
<1>2. row[t] # NoRow
  BY <1>1 DEF Inv, RowsOK
<1>3. row' = row \/ (~ lock /\ row' = [row EXCEPT ![t].tags = row[t].run])
  BY DEF Tag, Abort
<1>4. /\ row' \in [Ticket -> Row] /\ (row' = row \/ ~ lock)
      /\ \A u \in Ticket : row'[u].run = row[u].run
      /\ \A u \in Ticket : row[u] = NoRow => row'[u] = row[u]
  <2>1. row[t].run \in Nat
    BY PresentRows
  <2>2. [row[t] EXCEPT !.tags = row[t].run] \in Row
        /\ [row[t] EXCEPT !.tags = row[t].run].run = row[t].run
    BY <2>1, PresentRows DEF Row
  <2> QED
    BY <1>2, <1>3, <2>2 DEF Inv, TypeOK
<1>5. /\ pending' \in [Ticket -> [attempts : Nat, run : Nat]]
      /\ \A u \in Ticket : pending'[u] = pending[u] \/ (u = t /\ pending'[u].attempts = 1)
  <2>1. pending' = pending \/ pending' = SetTo(pending, t, [attempts |-> 1, run |-> row[t].run])
    BY DEF Tag, Abort
  <2>2. [attempts |-> 1, run |-> row[t].run] \in [attempts : Nat, run : Nat]
    BY PresentRows
  <2>3. CASE pending' = pending
    BY <2>3 DEF Inv, TypeOK
  <2>4. CASE pending' = SetTo(pending, t, [attempts |-> 1, run |-> row[t].run])
    <3>1. /\ pending'[t] = [attempts |-> 1, run |-> row[t].run]
          /\ \A u \in Ticket : u # t => pending'[u] = pending[u]
          /\ pending' \in [Ticket -> [attempts : Nat, run : Nat]]
      BY <2>2, <2>4 DEF Inv, TypeOK
    <3>2. pending'[t].attempts = 1
      BY <3>1
    <3> QED
      BY <3>1, <3>2
  <2> QED
    BY <2>1, <2>3, <2>4
<1>6. TypeOK'
  BY <1>1, <1>4, <1>5 DEF Inv, TypeOK
<1>7. /\ \A u \in Ticket : row'[u] = NoRow \/ row'[u].run <= runs'
      /\ \A u \in Ticket : row'[u] = NoRow <=> row[u] = NoRow
      /\ LockOK'
  BY <1>1, <1>4, RowsOfSameRuns
<1>8. RowsOK'
  <2>1. \A u \in Ticket : pending[u] # NotPending => pending'[u] # NotPending
    BY <1>5 DEF NotPending
  <2>2. \A u \in Ticket : row'[u] = NoRow =>
          writing'[u] = "no" /\ pending'[u] = NotPending /\ u \notin selected
    BY <1>1, <1>2, <1>5, <1>7 DEF Inv, TypeOK, RowsOK
  <2> QED
    BY <1>1, <1>7, <2>1, <2>2 DEF Inv, RowsOK
<1>9. ImportOK'
  BY <1>1, <1>7, UpMeansAfter DEF Inv, TypeOK, ImportOK
<1>10. SeenOK'
  BY <1>1, DaemonKeepsSchema
<1> QED
  BY <1>6, <1>7, <1>8, <1>9, <1>10 DEF Inv

LEMMA PollInv == ASSUME Inv, Joined \/ NextPoll PROVE Inv'
<1>1. UNCHANGED <<writing, runs, fetch, pending, db, openers, backfill, importer>>
  BY DEF Joined, NextPoll
<1>2. \A t \in retrying' : t \in Ticket /\ pending'[t] # NotPending
  BY <1>1 DEF Joined, NextPoll, Inv, RowsOK
<1>3. TypeOK' /\ RowsOK' /\ LockOK'
  BY <1>1, <1>2 DEF Inv, TypeOK, RowsOK, LockOK
<1>4. SeenOK' /\ ImportOK'
  BY <1>1 DEF Inv, SeenOK, ImportOK, Missing
<1> QED
  BY <1>3, <1>4 DEF Inv

LEMMA RetryInv == ASSUME Inv, NEW t \in Ticket, RetrySonar(t) PROVE Inv'
<1>1. /\ UNCHANGED <<tables, columns, log, benchRows, seen, expired, disturbed, writing, runs,
                     fetch, backfill, importer>>
      /\ opening' \in {opening, SetTo(opening, Watcher, "failed")}
      /\ Up
  BY DEF RetrySonar, DaemonEnds
<1>2. row[t] # NoRow /\ pending[t] # NotPending
  BY DEF RetrySonar, Inv, RowsOK
<1>3. /\ row' \in [Ticket -> Row] /\ (row' = row \/ ~ lock)
      /\ \A u \in Ticket : row'[u].run = row[u].run
      /\ \A u \in Ticket : row[u] = NoRow => row'[u] = row[u]
  <2>1. row' = row \/ (~ lock /\ row' = [row EXCEPT ![t].sonar = pending[t].run])
    BY DEF RetrySonar
  <2>2. pending[t].run \in Nat
    BY DEF Inv, TypeOK
  <2>3. [row[t] EXCEPT !.sonar = pending[t].run] \in Row
        /\ [row[t] EXCEPT !.sonar = pending[t].run].run = row[t].run
    BY <2>2, PresentRows DEF Row
  <2> QED
    BY <1>2, <2>1, <2>3 DEF Inv, TypeOK
<1>4. /\ pending' \in [Ticket -> [attempts : Nat, run : Nat]]
      /\ \A u \in Ticket : pending[u] = NotPending => pending'[u] = NotPending
      /\ \A u \in retrying' : u \in Ticket /\ pending'[u] # NotPending
  <2>1. CASE pending' = SetTo(pending, t, NotPending) /\ retrying' = retrying \ {t}
    BY <2>1, Constants DEF Inv, TypeOK, RowsOK
  <2>2. CASE pending' = AttemptMade(t) /\ retrying' = retrying \ {t}
    <3> DEFINE more == [pending[t] EXCEPT !.attempts = pending[t].attempts + 1]
    <3>1. pending[t] \in [attempts : Nat, run : Nat]
      BY DEF Inv, TypeOK
    <3>2. more \in [attempts : Nat, run : Nat]
      BY <3>1
    <3>3. pending' = [pending EXCEPT ![t] = more]
      BY <2>2 DEF AttemptMade, Inv, TypeOK
    <3> HIDE DEF more
    <3>4. /\ \A u \in Ticket : u # t => pending'[u] = pending[u]
          /\ pending' \in [Ticket -> [attempts : Nat, run : Nat]]
      BY <3>2, <3>3 DEF Inv, TypeOK
    <3> QED
      BY <1>2, <2>2, <3>4 DEF Inv, RowsOK
  <2>3. CASE pending' = [u \in Ticket |-> NotPending] /\ retrying' = {}
    BY <2>3, Constants
  <2> QED
    BY <2>1, <2>2, <2>3 DEF RetrySonar, DaemonEnds
<1>5. /\ SeenOK'
      /\ opening' \in [Opener -> {"closed", "read", "rename", "alter", "open", "failed"}]
  BY <1>1, DaemonKeepsSchema
<1>6. TypeOK'
  BY <1>1, <1>3, <1>4, <1>5 DEF Inv, TypeOK
<1>7. /\ \A u \in Ticket : row'[u] = NoRow \/ row'[u].run <= runs'
      /\ \A u \in Ticket : row'[u] = NoRow <=> row[u] = NoRow
      /\ LockOK'
  BY <1>1, <1>3, RowsOfSameRuns
<1>8. RowsOK'
  BY <1>1, <1>4, <1>7 DEF Inv, RowsOK
<1>9. ImportOK'
  BY <1>1, <1>7, UpMeansAfter DEF Inv, ImportOK
<1> QED
  BY <1>5, <1>6, <1>7, <1>8, <1>9 DEF Inv
-----------------------------------------------------------------------------
(* The scripts *)

LEMMA SelectInv == ASSUME Inv, NEW name, Select(name) PROVE Inv'
<1>1. /\ UNCHANGED <<lock, wrote, db, openers, daemon, importer>>
      /\ script' \in {"select", "update"} /\ late' = wrote
  BY DEF Select
<1>2. /\ selected' \subseteq Ticket
      /\ \A t \in selected' : row[t] # NoRow
      /\ read' = [t \in Ticket |-> IF t \in selected' THEN row[t] ELSE NoRow]
  BY DEF Select
<1>3. read' \in [Ticket -> Row] /\ \A t \in selected' : read'[t] = row[t]
  BY <1>2, Constants DEF Inv, TypeOK
<1>4. TypeOK'
  BY <1>1, <1>2, <1>3 DEF Inv, TypeOK
<1>5. RowsOK' /\ LockOK'
  BY <1>1, <1>2, <1>3 DEF Inv, RowsOK, LockOK
<1>6. SeenOK' /\ ImportOK'
  BY <1>1 DEF Inv, SeenOK, ImportOK, Missing
<1> QED
  BY <1>4, <1>5, <1>6 DEF Inv

LEMMA BackfillInv ==
  ASSUME Inv, StartBackfill \/ CommitBackfill \/ \E t \in Ticket : ScoresZero(t) PROVE Inv'
<1>1. /\ UNCHANGED <<db, openers, daemon, importer>>
      /\ selected' \subseteq selected /\ script' \in {"idle", "select", "update"}
  BY DEF StartBackfill, CommitBackfill, ScoresZero, Treated
<1>2. \/ UNCHANGED <<lock, read, wrote, late>>
      \/ lock' = FALSE /\ wrote' = FALSE /\ late' = FALSE /\ read' = NothingRead
  BY DEF StartBackfill, CommitBackfill, ScoresZero
<1>3. TypeOK'
  BY <1>1, <1>2, Constants DEF Inv, TypeOK
<1>4. RowsOK'
  BY <1>1 DEF Inv, RowsOK
<1>5. LockOK'
  <2>1. row' = row /\ selected' \subseteq selected
    BY <1>1
  <2>2. CASE UNCHANGED <<lock, read, wrote, late>>
    BY <2>1, <2>2 DEF Inv, LockOK
  <2>3. CASE lock' = FALSE /\ wrote' = FALSE /\ late' = FALSE
    BY <2>3 DEF LockOK
  <2> QED
    BY <1>2, <2>2, <2>3
<1>6. SeenOK' /\ ImportOK'
  BY <1>1 DEF Inv, SeenOK, ImportOK, Missing
<1> QED
  BY <1>3, <1>4, <1>5, <1>6 DEF Inv

LEMMA UpdateInv == ASSUME Inv, NEW t \in Ticket, Update(t) PROVE Inv'
<1>1. /\ UNCHANGED <<read, late, tables, columns, log, benchRows, openers, daemon, importer>>
      /\ row' = [row EXCEPT ![t].waste = read[t].run] /\ selected' = selected \ {t}
      /\ lock' = TRUE /\ wrote' = TRUE /\ script' \in {"select", "update"} /\ t \in selected
  BY DEF Update, Treated, LockAfterUpdate
<1>2. row[t] # NoRow
  BY <1>1 DEF Inv, RowsOK
<1>3. /\ row' \in [Ticket -> Row]
      /\ \A u \in Ticket : row'[u].run = row[u].run
      /\ \A u \in Ticket : u # t => row'[u] = row[u]
  <2>1. read[t].run \in Nat
    BY DEF Inv, TypeOK, Row
  <2>2. [row[t] EXCEPT !.waste = read[t].run] \in Row
        /\ [row[t] EXCEPT !.waste = read[t].run].run = row[t].run
    BY <2>1, PresentRows DEF Row
  <2> QED
    BY <1>1, <2>2 DEF Inv, TypeOK
<1>4. row'[t] # NoRow /\ row'[t].run <= runs
  BY <1>2, <1>3, PresentRows, Constants
<1>5. TypeOK'
  BY <1>1, <1>3 DEF Inv, TypeOK
<1>6. RowsOK'
  BY <1>1, <1>3, <1>4 DEF Inv, TypeOK, RowsOK
<1>7. LockOK'
  BY <1>1, <1>3 DEF Inv, TypeOK, LockOK
<1>8. SeenOK' /\ ImportOK'
  BY <1>1, <1>3, <1>4 DEF Inv, SeenOK, ImportOK, Missing
<1> QED
  BY <1>5, <1>6, <1>7, <1>8 DEF Inv

\* A table that the import brings is one that no process relies on yet.
LEMMA ImportedSchema ==
  ASSUME Inv, tables \subseteq tables', tables' \subseteq Table,
         columns' \in [{"metrics", "bench"} -> SUBSET Column],
         columns'["bench"] = columns["bench"],
         "metrics" \in tables => columns' = columns,
         UNCHANGED openers
  PROVE  SeenOK'
<1>1. "legacy" \notin columns'["bench"]
  BY DEF Inv, SeenOK
<1>2. \A q \in Opener : TableOf(q) \in tables => columns'[TableOf(q)] = columns[TableOf(q)]
  BY DEF TableOf, Inv, TypeOK
<1> QED
  BY <1>1, <1>2 DEF Inv, SeenOK, Missing

LEMMA ImportMetricsInv == ASSUME Inv, ImportMetrics PROVE Inv'
<1>1. /\ UNCHANGED <<benchRows, legacyFiles, crowd, openers, daemon, backfill>>
      /\ ~ lock /\ split = "metrics" /\ split' = "bench"
      /\ tables' = tables \cup {"metrics", "log"}
      /\ columns' = IF "metrics" \in tables THEN columns ELSE SetTo(columns, "metrics", {"legacy"})
      /\ row' = [t \in Ticket |-> IF row[t] = NoRow THEN OldRow ELSE row[t]]
      /\ log' = [i \in 1 .. MaxLog |->
                   IF i \in LegacyLog /\ log[i] = "free" THEN "legacy" ELSE log[i]]
  BY DEF ImportMetrics, IgnoringRows, Imported
<1>2. /\ row' \in [Ticket -> Row] /\ log' \in [1 .. MaxLog -> {"free", "app", "legacy"}]
      /\ \A t \in Ticket : row'[t] # NoRow
  BY <1>1, Constants DEF Inv, TypeOK
<1>3. /\ columns' \in [{"metrics", "bench"} -> SUBSET Column]
      /\ columns'["bench"] = columns["bench"]
      /\ tables' \subseteq Table
  BY <1>1 DEF Inv, TypeOK, Column, Table
<1>4. TypeOK'
  BY <1>1, <1>2, <1>3 DEF Inv, TypeOK
<1>5. RowsOK'
  <2>1. runs \in Nat
    BY DEF Inv, TypeOK
  <2>2. \A t \in Ticket : row'[t].run <= runs
    BY <1>1, <2>1, PresentRows, Constants
  <2> QED
    BY <1>1, <1>2, <2>2 DEF Inv, RowsOK
<1>6. LockOK'
  BY <1>1 DEF Inv, LockOK
<1>7. SeenOK'
  BY <1>1, <1>3, ImportedSchema
<1>8. ImportOK'
  <2>1. {i \in 1 .. MaxLog : log'[i] = "legacy"} \subseteq LegacyLog
    BY <1>1 DEF Inv, ImportOK
  <2>2. ~ disturbed => \A i \in 1 .. MaxLog : log[i] # "app"
    BY <1>1 DEF Inv, ImportOK
  <2>3. ~ disturbed => \A i \in 1 .. MaxLog : log'[i] # "app"
    BY <1>1, <2>2
  <2>4. ~ disturbed => \A i \in LegacyLog : log'[i] = "legacy"
    BY <1>1, <2>2, Constants DEF Inv, TypeOK
  <2> QED
    BY <1>1, <1>2, <2>1, <2>3, <2>4 DEF Inv, ImportOK
<1> QED
  BY <1>4, <1>5, <1>6, <1>7, <1>8 DEF Inv

LEMMA ImportInv == ASSUME Inv, Import PROVE Inv'
<1>1. CASE CheckSplit \/ SplitDies
  <2>1. /\ UNCHANGED <<legacyFiles, crowd, db, openers, daemon, backfill>>
        /\ split # "done" /\ split' \in {"nothing", "metrics", "idle"}
    BY <1>1 DEF CheckSplit, SplitDies
  <2>2. TypeOK' /\ RowsOK' /\ LockOK'
    BY <2>1 DEF Inv, TypeOK, RowsOK, LockOK
  <2>3. SeenOK' /\ ImportOK'
    BY <2>1 DEF Inv, SeenOK, ImportOK, Missing
  <2> QED
    BY <2>2, <2>3 DEF Inv
<1>2. CASE ImportBench
  <2>1. /\ UNCHANGED <<columns, row, log, legacyFiles, crowd, openers, daemon, backfill>>
        /\ tables \subseteq tables' /\ tables' \subseteq Table
        /\ split = "bench" /\ (split' = "idle" \/ (split' = "done" /\ benchRows'))
    BY <1>2 DEF ImportBench, Inv, TypeOK, Table
  <2>2. TypeOK' /\ RowsOK' /\ LockOK'
    BY <2>1 DEF Inv, TypeOK, RowsOK, LockOK
  <2>3. SeenOK'
    BY <2>1, ImportedSchema DEF Inv, TypeOK
  <2>4. ImportOK'
    BY <2>1 DEF Inv, ImportOK
  <2> QED
    BY <2>2, <2>3, <2>4 DEF Inv
<1> QED
  BY <1>1, <1>2, ImportMetricsInv DEF Import

LEMMA NextInv == Inv /\ [Next]_vars => Inv'
<1>1. Inv /\ UNCHANGED vars => Inv'
  <2> SUFFICES ASSUME Inv, UNCHANGED vars PROVE Inv'
    OBVIOUS
  <2>1. TypeOK' /\ RowsOK' /\ LockOK'
    BY DEF Inv, TypeOK, RowsOK, LockOK
  <2>2. SeenOK' /\ ImportOK'
    BY DEF Inv, SeenOK, ImportOK, Missing
  <2> QED
    BY <2>1, <2>2 DEF Inv
<1> QED
  BY <1>1, OpenInv, PollInv, RecordInv, RecordRunInv, TagInv, RetryInv, SelectInv, BackfillInv, UpdateInv,
     ImportInv
  DEF Next, Daemon, Backfill

LEMMA Invariant == Spec => []Inv
  BY InitInv, NextInv, PTL DEF Spec
-----------------------------------------------------------------------------
\* Whoever migrates the file at the same time, a process that has its store finds
\* every column it writes: what it read may be out of date, but a column is only
\* ever added, and an ALTER that another process has forestalled is swallowed
\* (_migrate); the exception is an ALTER that runs into the script's lock.
THEOREM OpenStoresAreWhole == Spec => []OpenMeansWhole
<1>1. Inv => OpenMeansWhole
  <2> SUFFICES ASSUME Inv, NEW p \in Opener \ expired, opening[p] = "open"
               PROVE  Added(TableOf(p)) \subseteq columns[TableOf(p)]
    BY DEF OpenMeansWhole
  <2> QED
    BY DEF Inv, SeenOK, Missing
<1> QED
  BY <1>1, Invariant, PTL

\* An import that reports its end has copied every row once, though it was killed
\* and run again: its keys keep their values, and its rows give way (INSERT OR
\* IGNORE), which loses none as long as no store was opened before.
THEOREM FinishedImportIsWhole == Spec => []ImportIsWhole
<1>1. Inv => ImportIsWhole
  BY Constants DEF Inv, ImportOK, ImportIsWhole
<1> QED
  BY <1>1, Invariant, PTL

\* A count that was fetched for a run stays its count: the late answer to an earlier
\* run's request is dropped (update_sonar_count), and no other step writes counts of
\* a run that is there.
THEOREM FetchedCountsStay == Spec => FetchedCountStays
<1>1. Inv /\ [Next]_vars =>
        [\A t \in Ticket :
           row[t] # NoRow /\ row[t].sonar # Null /\ row'[t].run = row[t].run
             => row'[t].sonar = row[t].sonar]_vars
  <2> SUFFICES ASSUME Inv, Next, NEW t \in Ticket,
                      row[t] # NoRow, row[t].sonar # Null, row'[t].run = row[t].run
               PROVE  row'[t].sonar = row[t].sonar
    OBVIOUS
  <2> USE DEF Inv, TypeOK, Row
  <2>1. CASE \E p \in Opener : Open(p)
    BY <2>1 DEF Open, Create, ReadColumns, Rename, AddColumn, Opened, Reopen, OpenFails
  <2>2. CASE Joined \/ NextPoll \/ StartBackfill \/ CommitBackfill
             \/ (\E u \in Ticket : RecordRun(u) \/ ScoresZero(u)) \/ \E name \in todo : Select(name)
    BY <2>2 DEF Joined, NextPoll, StartBackfill, CommitBackfill, RecordRun, ScoresZero, Select,
                Abort
  <2>3. CASE \E u \in Ticket : Tag(u) \/ Update(u)
    <3> PICK u \in Ticket : \/ row' = row
                            \/ row' = [row EXCEPT ![u].tags = row[u].run]
                            \/ row' = [row EXCEPT ![u].waste = read[u].run]
      BY <2>3 DEF Tag, Update, Abort
    <3>1. row'[t] \in {row[t], [row[t] EXCEPT !.tags = row[t].run],
                        [row[t] EXCEPT !.waste = read[t].run]}
      <4>1. CASE u = t
        BY <4>1
      <4>2. CASE u # t
        <5>1. row'[t] = row[t]
          BY <4>2
        <5> QED
          BY <5>1
      <4> QED
        BY <4>1, <4>2
    <3>2. row[t] \in Row
      BY SMT
    <3> HIDE DEF TypeOK, Inv
    <3> QED
      BY <3>1, <3>2 DEF Row
  <2>4. CASE \E u \in Ticket : RetrySonar(u)
    <3> PICK u \in Ticket : RetrySonar(u)
      BY <2>4
    <3>1. row' = row \/ (row[u].sonar = Null /\ row' = [row EXCEPT ![u].sonar = pending[u].run])
      BY DEF RetrySonar, CountIfNull
    <3>2. u = t => row' = row
      BY <3>1
    <3> QED
      BY <3>1, <3>2
  <2>5. CASE \E u \in Ticket : Record(u)
    <3> PICK u \in Ticket : Record(u)
      BY <2>5
    <3>1. runs' = runs + 1 /\ row[t].run <= runs /\ row[t].run \in Nat /\ runs \in Nat
      <4>1. runs' = runs + 1
        BY DEF Record
      <4> QED
        BY <4>1, PresentRows
    <3>2. \/ row' = row
          \/ \E n : row' = [row EXCEPT ![u] = [run |-> runs', waste |-> runs',
                                               tags |-> Null, sonar |-> n]]
      BY DEF Record, Abort
    <3>3. row \in [Ticket -> Row]
      OBVIOUS
    <3> HIDE DEF Inv, TypeOK, Row
    <3>4. row'[t].run # runs'
      BY <3>1
    <3> QED
      BY <3>2, <3>3, <3>4
  <2>6. CASE Import
    BY <2>6 DEF Import, CheckSplit, ImportMetrics, IgnoringRows, ImportBench, SplitDies
  <2> QED
    BY <2>1, <2>2, <2>3, <2>4, <2>5, <2>6 DEF Next, Daemon, Backfill
<1> QED
  BY <1>1, InitInv, NextInv, PTL DEF Spec, FetchedCountStays

\* After its first update the script works under its own transaction: what it reads
\* from then on, all rows of a ticket at a time, is still what the table holds at each
\* update, in spite of the logs it reads in between.
THEOREM LaterUpdatesAreFresh == Spec => OnlyFirstTicketIsStale
<1>1. Inv /\ [Next]_vars => [\A t \in Ticket : Update(t) /\ late => row[t] = read[t]]_vars
  BY DEF Inv, LockOK, Update, Treated
<1> QED
  BY <1>1, InitInv, NextInv, PTL DEF Spec, OnlyFirstTicketIsStale
=============================================================================
