------------------------------- MODULE Schema -------------------------------
(***************************************************************************)
(* Schema snapshots and drift (schema/schema.go).  Capture reads the        *)
(* catalogue with five queries, each on its own: the schema may change      *)
(* between them.  A snapshot is kept as the baseline, also in the older     *)
(* format that has only the names of sequences, and a later one is compared *)
(* with it.                                                                 *)
(*                                                                         *)
(* The catalogue is what the five queries return: a set of rows for each.   *)
(* A definition is opaque, except for the fields of a column, which are     *)
(* compared one by one, and the labels of an enum, which are compared after *)
(* they were joined by commas: a label is the sequence of the words between *)
(* its commas, so that joining labels is concatenating them.                *)
(***************************************************************************)
EXTENDS Integers, FiniteSets, SequencesExt

CONSTANTS
    Tables,       \* names of tables
    Ignored,      \* those ignoreTable excludes
    ColumnDefs,   \* [type, nullable, default] of columns
    Defs,         \* definitions of indexes, constraints and sequences
    Words,        \* what labels of enums are made of
    LabelLists,   \* lists of labels an enum may have
    Zero,         \* the configuration of a sequence known by name only
    Catalogues,   \* the schemas to begin with
    MaxDdl,       \* bound: changes of the schema
    None

TableParts == {"columns", "indexes", "constraints"}

\* The names the model gives to what is in a schema, tables apart.
Identifiers == {"id", "note", "pkey", "idx", "check", "status", "seq"}

\* What the five queries may return.
Catalogue ==
    [columns     : SUBSET [table : Tables, name : Identifiers, def : ColumnDefs],
     indexes     : SUBSET [table : Tables, name : Identifiers, def : Defs],
     constraints : SUBSET [table : Tables, name : Identifiers, def : Defs],
     enums       : SUBSET [name : Identifiers, labels : LabelLists],
     sequences   : SUBSET [name : Identifiers, def : Defs]]

\* PostgreSQL keeps names unique, within a table for its parts.  Every ordinary
\* table here has the column id, which is not dropped; a partitioned one, of which
\* only the query for constraints takes notice, has neither columns nor indexes.
WellFormedCatalogue(c) ==
    /\ c \in Catalogue
    /\ \A part \in TableParts : \A r, q \in c[part] :
            r.table = q.table /\ r.name = q.name => r = q
    /\ \A r \in c.columns \cup c.indexes :
            \E q \in c.columns : q.table = r.table /\ q.name = "id"
    /\ \A r, q \in c.enums : r.name = q.name => r = q
    /\ \A r, q \in c.sequences : r.name = q.name => r = q

ASSUME SchemaAssumption ==
    /\ Ignored \subseteq Tables
    /\ Zero \notin Defs
    /\ \A labels \in LabelLists : labels \in Seq(Seq(Words)) /\ labels # <<>>
    /\ MaxDdl \in Nat
    /\ \A c \in Catalogues : WellFormedCatalogue(c)
    /\ \A c, d \in ColumnDefs :
            c.type = d.type /\ c.nullable = d.nullable /\ c.default = d.default => c = d

VARIABLES
    db,        \* the catalogue: the rows of each query
    query,     \* the query Capture executes next, idle or captured
    snap,      \* the snapshot it fills
    base,      \* the baseline, None before there is one
    ddl,       \* how often the schema has changed
    seen,      \* history: the catalogues since Capture was called
    baseSeen   \* history: seen, for the baseline

schemaVars == <<db, query, snap, base, ddl, seen, baseSeen>>

NewTable == [columns |-> {}, indexes |-> {}, constraints |-> {}]

NewSnapshot == [version |-> 2, tables |-> <<>>, enums |-> {}, sequences |-> {}]

SchemaInit ==
    /\ db \in Catalogues
    /\ query = "idle"
    /\ snap = NewSnapshot
    /\ base = None
    /\ ddl = 0
    /\ seen = {}
    /\ baseSeen = {}

-----------------------------------------------------------------------------
(* The schema changes.                                                     *)

Ordinary == {r.table : r \in db.columns}
TableNames == {r.table : r \in db.columns \cup db.constraints}

Change(new) ==
    /\ ddl < MaxDdl
    /\ new # db
    /\ db' = new
    /\ ddl' = ddl + 1
    /\ seen' = IF query = "idle" THEN {} ELSE seen \cup {new}
    /\ UNCHANGED <<query, snap, base, baseSeen>>

CreateTable(t) ==
    /\ t \notin TableNames
    /\ \E c \in ColumnDefs, d \in Defs :
        Change([db EXCEPT
            !.columns = @ \cup {[table |-> t, name |-> "id", def |-> c]},
            !.indexes = @ \cup {[table |-> t, name |-> "pkey", def |-> d]},
            !.constraints = @ \cup {[table |-> t, name |-> "pkey", def |-> d]}])

CreatePartitioned(t) ==
    /\ t \notin TableNames
    /\ \E d \in Defs :
        Change([db EXCEPT !.constraints = @ \cup {[table |-> t, name |-> "pkey", def |-> d]}])

DropTable(t) ==
    LET Others(rows) == {r \in rows : r.table # t}
    IN  /\ t \in TableNames
        /\ Change([db EXCEPT !.columns = Others(@), !.indexes = Others(@),
                             !.constraints = Others(@)])

\* A column, index or constraint is added, removed or altered.
AlterTable(t, part, name) ==
    LET others == {r \in db[part] : ~(r.table = t /\ r.name = name)}
        defs == IF part = "columns" THEN ColumnDefs ELSE Defs
        rows == {[table |-> t, name |-> name, def |-> d] : d \in defs}
    IN  /\ t \in IF part = "constraints" THEN TableNames ELSE Ordinary
        /\ \/ \E r \in rows : Change([db EXCEPT ![part] = others \cup {r}])
           \/ name # "id" /\ Change([db EXCEPT ![part] = others])

AlterEnum(name) ==
    LET others == {r \in db.enums : r.name # name}
    IN  \/ \E l \in LabelLists : Change([db EXCEPT !.enums = others \cup {[name |-> name, labels |-> l]}])
        \/ Change([db EXCEPT !.enums = others])

AlterSequence(name) ==
    LET others == {r \in db.sequences : r.name # name}
    IN  \/ \E d \in Defs : Change([db EXCEPT !.sequences = others \cup {[name |-> name, def |-> d]}])
        \/ Change([db EXCEPT !.sequences = others])

-----------------------------------------------------------------------------
(* Capture.                                                                *)

Capture ==
    /\ query = "idle"
    /\ query' = "columns"
    /\ snap' = NewSnapshot
    /\ seen' = {db}
    /\ UNCHANGED <<db, base, ddl, baseSeen>>

\* Faulty: rows are put into a table of their own.
AddRowsAnew(tables, part, rows) ==
    [t \in DOMAIN tables \cup {r.table : r \in rows} |->
        IF t \in {r.table : r \in rows}
        THEN [NewTable EXCEPT ![part] = {[name |-> r.name, def |-> r.def] :
                                            r \in {q \in rows : q.table = t}}]
        ELSE tables[t]]

\* The rows of a query are put into the tables of the snapshot; a table it does
\* not have yet is added.
AddRows(tables, part, rows) ==
    [t \in DOMAIN tables \cup {r.table : r \in rows} |->
        [(IF t \in DOMAIN tables THEN tables[t] ELSE NewTable) EXCEPT
            ![part] = {[name |-> r.name, def |-> r.def] : r \in {q \in rows : q.table = t}}]]

NextQuery(part) ==
    CASE part = "columns" -> "indexes"
      [] part = "indexes" -> "constraints"
      [] part = "constraints" -> "enums"

\* captureColumns, captureIndexes, captureConstraints.
CaptureTables(part) ==
    /\ query = part
    /\ snap' = [snap EXCEPT !.tables =
                    AddRows(@, part, {r \in db[part] : r.table \notin Ignored})]
    /\ query' = NextQuery(part)
    /\ UNCHANGED <<db, base, ddl, seen, baseSeen>>

CaptureEnums ==
    /\ query = "enums"
    /\ snap' = [snap EXCEPT !.enums = db.enums]
    /\ query' = "sequences"
    /\ UNCHANGED <<db, base, ddl, seen, baseSeen>>

CaptureSequences ==
    /\ query = "sequences"
    /\ snap' = [snap EXCEPT !.sequences = db.sequences]
    /\ query' = "captured"
    /\ UNCHANGED <<db, base, ddl, seen, baseSeen>>

\* A query fails, and with it Capture: there is no snapshot.
CaptureFails ==
    /\ query \notin {"idle", "captured"}
    /\ query' = "idle"
    /\ snap' = NewSnapshot
    /\ seen' = {}
    /\ UNCHANGED <<db, base, ddl, baseSeen>>

\* The snapshot is written to a file and read back as the baseline.  A file of
\* the first version has the names of the sequences only.
Save(version) ==
    /\ query = "captured"
    /\ base = None
    /\ base' = [snap EXCEPT
                    !.version = version,
                    !.sequences = IF version = 1
                                  THEN {[name |-> s.name, def |-> Zero] : s \in @}
                                  ELSE @]
    /\ baseSeen' = seen
    /\ query' = "idle"
    /\ snap' = NewSnapshot
    /\ seen' = {}
    /\ UNCHANGED <<db, ddl>>

-----------------------------------------------------------------------------
(* Drift.                                                                  *)

Names(rows) == {r.name : r \in rows}
Named(rows, name) == CHOOSE r \in rows : r.name = name
Both(b, l) == Names(b) \cap Names(l)

\* The entries for objects found by name in base and live; same holds the names
\* of the objects that did not change.
DiffNamed(kind, table, b, l, same) ==
    LET Entries(change, names) ==
            {[kind |-> kind, change |-> change, table |-> table, object |-> n] : n \in names}
    IN  Entries("added", Names(l) \ Names(b))
            \cup Entries("removed", Names(b) \ Names(l))
            \cup Entries("changed", Both(b, l) \ same)

\* Faulty: the default is left out.
SameColumnButDefault(b, l) == b.def.type = l.def.type /\ b.def.nullable = l.def.nullable

\* A column's position is not compared.
SameColumn(b, l) ==
    /\ b.def.type = l.def.type
    /\ b.def.nullable = l.def.nullable
    /\ b.def.default = l.def.default

SameDefinition(b, l) == b.def = l.def

Join(labels) == FlattenSeq(labels)

SameLabels(b, l) == Join(b.labels) = Join(l.labels)

SameColumns(b, l) == {n \in Both(b, l) : SameColumn(Named(b, n), Named(l, n))}
SameDefinitions(b, l) == {n \in Both(b, l) : SameDefinition(Named(b, n), Named(l, n))}

DiffTable(t, b, l) ==
    DiffNamed("column", t, b.columns, l.columns, SameColumns(b.columns, l.columns))
        \cup DiffNamed("index", t, b.indexes, l.indexes, SameDefinitions(b.indexes, l.indexes))
        \cup DiffNamed("constraint", t, b.constraints, l.constraints,
                       SameDefinitions(b.constraints, l.constraints))

DiffTables(b, l) ==
    {[kind |-> "table", change |-> "added", table |-> t, object |-> None] :
            t \in DOMAIN l \ DOMAIN b}
        \cup {[kind |-> "table", change |-> "removed", table |-> t, object |-> None] :
            t \in DOMAIN b \ DOMAIN l}
        \cup UNION {DiffTable(t, b[t], l[t]) : t \in DOMAIN b \cap DOMAIN l}

\* The configuration of sequences is compared if the baseline has it.
DiffSequences(b, l, compareConfiguration) ==
    DiffNamed("sequence", None, b, l,
              IF compareConfiguration THEN SameDefinitions(b, l) ELSE Both(b, l))

\* For enums there is but one kind of entry.
DiffEnums(b, l) ==
    LET same == {n \in Both(b, l) : SameLabels(Named(b, n), Named(l, n))}
    IN  {[e EXCEPT !.change = "changed"] : e \in DiffNamed("enum", None, b, l, same)}

\* compare: the entries, which it sorts by a key that no two of them share.
Compare(b, l) ==
    DiffTables(b.tables, l.tables)
        \cup DiffSequences(b.sequences, l.sequences, b.version >= 2)
        \cup DiffEnums(b.enums, l.enums)

-----------------------------------------------------------------------------
SchemaNext ==
    \/ Capture
    \/ \E part \in TableParts : CaptureTables(part)
    \/ CaptureEnums
    \/ CaptureSequences
    \/ CaptureFails
    \/ \E version \in {1, 2} : Save(version)
    \/ \E t \in Tables : CreateTable(t) \/ CreatePartitioned(t) \/ DropTable(t)
    \/ \E t \in Tables : AlterTable(t, "columns", "id") \/ AlterTable(t, "columns", "note")
    \/ \E t \in Tables : AlterTable(t, "indexes", "idx") \/ AlterTable(t, "constraints", "check")
    \/ AlterEnum("status")
    \/ AlterSequence("seq")

SchemaSpec == SchemaInit /\ [][SchemaNext]_schemaVars

-----------------------------------------------------------------------------
(* Properties.                                                             *)

\* What of a catalogue a comparison with a baseline of some version is meant to
\* tell: all but the ignored tables and, for the first version, the configuration
\* of sequences.
View(catalogue, version) ==
    LET Kept(rows) == {r \in rows : r.table \notin Ignored}
    IN  [columns     |-> Kept(catalogue.columns),
         indexes     |-> Kept(catalogue.indexes),
         constraints |-> Kept(catalogue.constraints),
         enums       |-> catalogue.enums,
         sequences   |-> IF version = 1 THEN Names(catalogue.sequences) ELSE catalogue.sequences]

\* The comparison of the snapshot with the baseline is right about the schemas d
\* and e that they show.
Exact(d, e) == Compare(base, snap) # {} <=> View(d, base.version) # View(e, base.version)

\* There is a baseline and a snapshot, and the schema was d while the one was
\* captured and e while the other was.
Captured(d, e) == query = "captured" /\ base # None /\ baseSeen = {d} /\ seen = {e}

\* No label of an enum has a comma.
PlainLabels(c) == \A r \in c.enums : \A i \in DOMAIN r.labels : Len(r.labels[i]) = 1

\* Diff reports drift if and only if the schema is another than when the baseline
\* was taken, provided that it did not change while either was captured and that
\* the labels of its enums are without commas.
DriftDetected ==
    \A d \in baseSeen, e \in seen :
        Captured(d, e) /\ PlainLabels(d) /\ PlainLabels(e) => Exact(d, e)

\* "schema.Diff reports drift in tables, enums, and sequences" (README.md): the same
\* for whatever labels enums have.
DriftReported == \A d \in baseSeen, e \in seen : Captured(d, e) => Exact(d, e)

\* If the schema changes while it is captured, the snapshot may show a schema that
\* never was.  But each part of it was true at some time during the capture: no
\* query spoils what another one has found.
PartsTrue ==
    query = "captured" =>
        /\ \A part \in TableParts : \E d \in seen :
            {r \in d[part] : r.table \notin Ignored} =
                UNION {{[table |-> t, name |-> r.name, def |-> r.def] : r \in snap.tables[t][part]} :
                        t \in DOMAIN snap.tables}
        /\ \E d \in seen : snap.enums = d.enums
        /\ \E d \in seen : snap.sequences = d.sequences
=============================================================================
