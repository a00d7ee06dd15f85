---------------------------- MODULE SchemaProofs ----------------------------
(***************************************************************************)
(* Proofs about Schema for any tables, definitions, labels and schemas.    *)
(***************************************************************************)
EXTENDS Schema, SequenceTheorems, NaturalsInduction, WellFoundedInduction, TLAPS

-----------------------------------------------------------------------------
(* What a comparison of two sets of named objects finds.                   *)

Unique(rows) == \A r, q \in rows : r.name = q.name => r = q

LEMMA DiffNamedEmpty ==
    ASSUME NEW kind, NEW table, NEW b, NEW l, NEW same
    PROVE  DiffNamed(kind, table, b, l, same) = {}
               <=> Names(b) = Names(l) /\ Both(b, l) \subseteq same
BY DEF DiffNamed, Both

\* With unique names, an object is found by its name.
LEMMA NamedFound ==
    ASSUME NEW rows, Unique(rows), NEW r \in rows
    PROVE  Named(rows, r.name) = r
<1>1. \E q \in rows : q.name = r.name
    OBVIOUS
<1>2. Named(rows, r.name) \in rows /\ Named(rows, r.name).name = r.name
    BY <1>1 DEF Named
<1>. QED BY <1>2 DEF Unique

\* Objects are compared by name and by whatever tells them apart.
LEMMA SameRows ==
    ASSUME NEW b, NEW l, Names(b) = Names(l), Unique(b), Unique(l), NEW r \in b,
           Named(b, r.name) = Named(l, r.name)
    PROVE  r \in l
<1>1. PICK q \in l : q.name = r.name
    BY DEF Names
<1>2. Named(l, q.name) = q /\ Named(b, r.name) = r
    BY NamedFound
<1>. QED BY <1>1, <1>2

\* Columns are found the same exactly if they are: the three fields compared are
\* all that a column has.
LEMMA ColumnsExact ==
    ASSUME NEW table, NEW b \in SUBSET [name : Identifiers, def : ColumnDefs],
           NEW l \in SUBSET [name : Identifiers, def : ColumnDefs], Unique(b), Unique(l)
    PROVE  DiffNamed("column", table, b, l, SameColumns(b, l)) = {} <=> b = l
<1>1. ASSUME NEW r \in b, NEW q \in l, q.name = r.name, SameColumn(r, q)
      PROVE  r = q
    <2>1. r.def = q.def
        BY <1>1, SchemaAssumption DEF SameColumn
    <2>. QED BY <1>1, <2>1
<1>2. ASSUME Names(b) = Names(l), Both(b, l) \subseteq SameColumns(b, l)
      PROVE  b = l
    <2>1. ASSUME NEW n \in Names(b)
          PROVE  Named(b, n) = Named(l, n)
        <3>1. PICK r \in b, q \in l : r.name = n /\ q.name = n
            BY <1>2 DEF Names
        <3>2. Named(b, n) = r /\ Named(l, n) = q
            BY <3>1, NamedFound
        <3>3. SameColumn(r, q)
            BY <1>2, <3>2 DEF Both, SameColumns
        <3>. QED BY <1>1, <3>1, <3>2, <3>3
    <2>2. \A r \in b : r.name \in Names(b)
        BY DEF Names
    <2>3. \A r \in l : r.name \in Names(b)
        BY <1>2 DEF Names
    <2>. QED BY <1>2, <2>1, <2>2, <2>3, SameRows
<1>3. ASSUME b = l
      PROVE  Names(b) = Names(l) /\ Both(b, l) \subseteq SameColumns(b, l)
    BY <1>3 DEF Both, SameColumns, SameColumn
<1>. QED BY <1>2, <1>3, DiffNamedEmpty

\* Likewise for objects that have nothing but a name and a definition.
LEMMA DefinitionsExact ==
    ASSUME NEW kind, NEW table, NEW b \in SUBSET [name : Identifiers, def : Defs],
           NEW l \in SUBSET [name : Identifiers, def : Defs], Unique(b), Unique(l)
    PROVE  DiffNamed(kind, table, b, l, SameDefinitions(b, l)) = {} <=> b = l
<1>1. ASSUME NEW r \in b, NEW q \in l, q.name = r.name, SameDefinition(r, q)
      PROVE  r = q
    BY <1>1 DEF SameDefinition
<1>2. ASSUME Names(b) = Names(l), Both(b, l) \subseteq SameDefinitions(b, l)
      PROVE  b = l
    <2>1. ASSUME NEW n \in Names(b)
          PROVE  Named(b, n) = Named(l, n)
        <3>1. PICK r \in b, q \in l : r.name = n /\ q.name = n
            BY <1>2 DEF Names
        <3>2. Named(b, n) = r /\ Named(l, n) = q
            BY <3>1, NamedFound
        <3>3. SameDefinition(r, q)
            BY <1>2, <3>2 DEF Both, SameDefinitions
        <3>. QED BY <1>1, <3>1, <3>2, <3>3
    <2>2. \A r \in b : r.name \in Names(b)
        BY DEF Names
    <2>3. \A r \in l : r.name \in Names(b)
        BY <1>2 DEF Names
    <2>. QED BY <1>2, <2>1, <2>2, <2>3, SameRows
<1>3. ASSUME b = l
      PROVE  Names(b) = Names(l) /\ Both(b, l) \subseteq SameDefinitions(b, l)
    BY <1>3 DEF Both, SameDefinitions, SameDefinition
<1>. QED BY <1>2, <1>3, DiffNamedEmpty

Plain(labels) == \A i \in DOMAIN labels : Len(labels[i]) = 1

\* The labels up to the i-th, each by its only word.
Prefix(labels, i) == [k \in 1..i |-> labels[k][1]]

\* Labels without commas, joined, are the sequence of their words.
LEMMA JoinPlain ==
    ASSUME NEW labels \in LabelLists, Plain(labels)
    PROVE  Join(labels) = Prefix(labels, Len(labels))
<1>. DEFINE n == Len(labels)
            Body(f) == [i \in 1..n |-> IF i = 1 THEN labels[i] ELSE f[i-1] \o labels[i]]
            F == CHOOSE f : f = Body(f)
            G == [i \in 1..n |-> Prefix(labels, i)]
            Less == {ss \in Nat \X Nat : ss[1] < ss[2]}
<1>1. /\ labels \in Seq(Seq(Words)) /\ n \in Nat /\ n # 0
      /\ \A i \in 1..n : labels[i] \in Seq(Words) /\ Len(labels[i]) = 1
    BY SchemaAssumption DEF Plain
<1>2. Join(labels) = F[n]
    BY <1>1 DEF Join, FlattenSeq
<1>3. \A i \in 1..n : labels[i] = [k \in 1..1 |-> labels[i][1]]
    BY <1>1
<1>4. ASSUME NEW i \in 1..n, i # 1
      PROVE  Prefix(labels, i - 1) \o labels[i] = Prefix(labels, i)
    <2>1. \A j \in 1..n : /\ Prefix(labels, j) \in Seq(Words) /\ Len(Prefix(labels, j)) = j
                           /\ \A k \in 1..j : Prefix(labels, j)[k] = labels[k][1]
        <3>. TAKE j \in 1..n
        <3>1. j \in Nat /\ \A k \in 1..j : labels[k][1] \in Words
            <4>1. \A w \in Seq(Words) : Len(w) = 1 => w[1] \in Words
                OBVIOUS
            <4>2. j \in Nat /\ \A k \in 1..j : k \in 1..n
                BY <1>1
            <4>. QED BY <1>1, <4>1, <4>2
        <3>2. Prefix(labels, j) \in Seq(Words)
            BY <3>1, IsASeq DEF Prefix
        <3>3. DOMAIN Prefix(labels, j) = 1..j
            BY DEF Prefix
        <3>. QED BY <3>1, <3>2, <3>3 DEF Prefix
    <2>2. i - 1 \in 1..n /\ i = (i - 1) + 1
        BY <1>1, <1>4
    <2>. DEFINE s == Prefix(labels, i - 1)
    <2>3. s \in Seq(Words) /\ Len(s) = i - 1 /\ \A k \in 1..(i - 1) : s[k] = labels[k][1]
        BY <2>1, <2>2
    <2>. HIDE DEF s
    <2>4. /\ s \o labels[i] \in Seq(Words)
          /\ Len(s \o labels[i]) = i
          /\ \A k \in 1..i : (s \o labels[i])[k] = IF k <= i - 1 THEN s[k] ELSE labels[i][k - (i - 1)]
        <3>. DEFINE w == labels[i]
        <3>1. w \in Seq(Words) /\ Len(w) = 1
            BY <1>1
        <3>. HIDE DEF w
        <3>2. /\ s \o w \in Seq(Words) /\ Len(s \o w) = Len(s) + Len(w)
              /\ \A k \in 1..(Len(s) + Len(w)) :
                    (s \o w)[k] = IF k <= Len(s) THEN s[k] ELSE w[k - Len(s)]
            BY <2>3, <3>1, ConcatProperties
        <3>3. Len(s) + Len(w) = i
            BY <2>2, <2>3, <3>1
        <3>4. /\ s \o w \in Seq(Words) /\ Len(s \o w) = i
              /\ \A k \in 1..i : (s \o w)[k] = IF k <= i - 1 THEN s[k] ELSE w[k - (i - 1)]
            BY <2>3, <3>2, <3>3
        <3>. QED BY <3>4 DEF w
    <2>5. \A k \in 1..i : (s \o labels[i])[k] = Prefix(labels, i)[k]
        <3>. TAKE k \in 1..i
        <3>1. CASE k <= i - 1
            BY <2>1, <2>3, <2>4, <3>1
        <3>2. CASE ~(k <= i - 1)
            <4>1. k = i /\ k - (i - 1) = 1
                BY <3>2
            <4>. QED BY <2>1, <2>4, <3>2, <4>1
        <3>. QED BY <3>1, <3>2
    <2>6. s \o labels[i] = Prefix(labels, i)
        BY <2>1, <2>4, <2>5, SeqEqual
    <2>. QED BY <2>6 DEF s
<1>5. Prefix(labels, 1) = labels[1]
    BY <1>1, <1>3 DEF Prefix
<1>6. G = Body(G)
    <2>1. \A i \in 1..n : i # 1 => i - 1 \in 1..n
        BY <1>1
    <2>2. ASSUME NEW i \in 1..n
          PROVE  G[i] = IF i = 1 THEN labels[i] ELSE G[i-1] \o labels[i]
        BY <1>4, <1>5, <2>1
    <2>. HIDE DEF G
    <2>3. G = [i \in 1..n |-> G[i]]
        BY DEF G
    <2>. QED BY <2>2, <2>3
<1>7. F = Body(F)
    BY <1>6
<1>. HIDE DEF F, G
<1>8. ASSUME NEW i \in 1..n
      PROVE  F[i] = IF i = 1 THEN labels[i] ELSE F[i-1] \o labels[i]
    BY <1>7
<1>9. ASSUME NEW m \in 1..n, F[m] # G[m]
      PROVE  FALSE
    <2>. DEFINE S == {i \in 1..n : F[i] # G[i]}
    <2>1. S \subseteq Nat /\ m \in S
        BY <1>1, <1>9
    <2>2. PICK x \in S : \A y \in S : ~(<<y, x>> \in Less)
        <3>1. IsWellFoundedOn(Less, Nat)
            BY NatLessThanWellFounded DEF OpToRel
        <3>. HIDE DEF S, Less
        <3>. QED BY <2>1, <3>1, WFMin
    <2>3. x \in 1..n /\ F[x] # Prefix(labels, x)
        BY DEF G
    <2>4. CASE x = 1
        BY <1>5, <1>8, <2>3, <2>4
    <2>5. CASE x # 1
        <3>1. x - 1 \in 1..n /\ <<x - 1, x>> \in Less
            BY <1>1, <2>3, <2>5
        <3>2. F[x - 1] = Prefix(labels, x - 1)
            BY <2>2, <3>1 DEF G
        <3>. QED BY <1>4, <1>8, <2>3, <2>5, <3>2
    <2>. QED BY <2>4, <2>5
<1>10. F[n] = G[n]
    BY <1>1, <1>9
<1>. QED BY <1>1, <1>2, <1>10 DEF G

\* Labels without commas can be told from what they are joined to.
LEMMA PlainJoinedOnce ==
    ASSUME NEW a \in LabelLists, NEW b \in LabelLists, Plain(a), Plain(b), Join(a) = Join(b)
    PROVE  a = b
<1>1. /\ a \in Seq(Seq(Words)) /\ \A i \in 1..Len(a) : a[i] \in Seq(Words) /\ Len(a[i]) = 1
      /\ b \in Seq(Seq(Words)) /\ \A i \in 1..Len(b) : b[i] \in Seq(Words) /\ Len(b[i]) = 1
    BY SchemaAssumption DEF Plain
<1>2. Prefix(a, Len(a)) = Prefix(b, Len(b))
    BY JoinPlain
<1>3. Len(a) = Len(b)
    <2>1. DOMAIN Prefix(a, Len(a)) = 1..Len(a) /\ DOMAIN Prefix(b, Len(b)) = 1..Len(b)
        BY DEF Prefix
    <2>. QED BY <1>1, <1>2, <2>1
<1>4. \A i \in 1..Len(a) : a[i][1] = b[i][1]
    BY <1>1, <1>2, <1>3 DEF Prefix
<1>5. \A i \in 1..Len(a) : a[i] = b[i]
    BY <1>1, <1>3, <1>4
<1>. QED BY <1>1, <1>3, <1>5, SeqEqual

\* Enums whose labels have no commas are found the same exactly if they are.
LEMMA EnumsExact ==
    ASSUME NEW b \in SUBSET [name : Identifiers, labels : LabelLists],
           NEW l \in SUBSET [name : Identifiers, labels : LabelLists], Unique(b), Unique(l),
           \A r \in b \cup l : Plain(r.labels)
    PROVE  DiffEnums(b, l) = {} <=> b = l
<1>. DEFINE same == {n \in Both(b, l) : SameLabels(Named(b, n), Named(l, n))}
<1>1. DiffEnums(b, l) = {} <=> DiffNamed("enum", None, b, l, same) = {}
    BY DEF DiffEnums
<1>2. ASSUME NEW r \in b, NEW q \in l, q.name = r.name, SameLabels(r, q)
      PROVE  r = q
    <2>1. r.labels = q.labels
        BY <1>2, PlainJoinedOnce DEF SameLabels
    <2>. QED BY <1>2, <2>1
<1>3. ASSUME Names(b) = Names(l), Both(b, l) \subseteq same
      PROVE  b = l
    <2>1. ASSUME NEW n \in Names(b)
          PROVE  Named(b, n) = Named(l, n)
        <3>1. PICK r \in b, q \in l : r.name = n /\ q.name = n
            BY <1>3 DEF Names
        <3>2. Named(b, n) = r /\ Named(l, n) = q
            BY <3>1, NamedFound
        <3>3. SameLabels(r, q)
            BY <1>3, <3>2 DEF Both
        <3>. QED BY <1>2, <3>1, <3>2, <3>3
    <2>2. \A r \in b : r.name \in Names(b)
        BY DEF Names
    <2>3. \A r \in l : r.name \in Names(b)
        BY <1>3 DEF Names
    <2>. QED BY <1>3, <2>1, <2>2, <2>3, SameRows
<1>4. ASSUME b = l
      PROVE  Names(b) = Names(l) /\ Both(b, l) \subseteq same
    BY <1>4 DEF Both, SameLabels
<1>. HIDE DEF same
<1>5. DiffNamed("enum", None, b, l, same) = {}
        <=> Names(b) = Names(l) /\ Both(b, l) \subseteq same
    BY DiffNamedEmpty
<1>. QED BY <1>1, <1>3, <1>4, <1>5

-----------------------------------------------------------------------------
(* What a snapshot says of the catalogues it was captured from.            *)

Kept(rows) == {r \in rows : r.table \notin Ignored}

\* The rows of table t, without its name.
RowsOf(t, rows) == {[name |-> r.name, def |-> r.def] : r \in {q \in rows : q.table = t}}

\* The tables show what the query for the part has found in catalogue c.
Shows(tables, part, c) ==
    /\ \A r \in Kept(c[part]) : r.table \in DOMAIN tables
    /\ \A t \in DOMAIN tables : tables[t][part] = RowsOf(t, Kept(c[part]))

\* A table is there because some query has found something of it.
NoEmptyTable(tables) == \A t \in DOMAIN tables : \E part \in TableParts : tables[t][part] # {}

\* Each part of a snapshot is what some catalogue in S was.
TrueOf(s, S) ==
    /\ NoEmptyTable(s.tables)
    /\ \A part \in TableParts : \E c \in S : Shows(s.tables, part, c)
    /\ \E c \in S : s.enums = c.enums
    /\ \E c \in S : IF s.version = 1 THEN Names(s.sequences) = Names(c.sequences)
                                     ELSE s.sequences = c.sequences

PartDefs(part) == IF part = "columns" THEN ColumnDefs ELSE Defs

LEMMA PartRows ==
    ASSUME NEW c, WellFormedCatalogue(c), NEW part \in TableParts
    PROVE  /\ c[part] \in SUBSET [table : Tables, name : Identifiers, def : PartDefs(part)]
           /\ \A r, q \in c[part] : r.table = q.table /\ r.name = q.name => r = q
<1>1. c \in Catalogue /\ \A r, q \in c[part] : r.table = q.table /\ r.name = q.name => r = q
    BY DEF WellFormedCatalogue
<1>2. CASE part = "columns"
    BY <1>1, <1>2 DEF Catalogue, PartDefs
<1>3. CASE part = "indexes"
    BY <1>1, <1>3 DEF Catalogue, PartDefs
<1>4. CASE part = "constraints"
    BY <1>1, <1>4 DEF Catalogue, PartDefs
<1>. QED BY <1>1, <1>2, <1>3, <1>4 DEF TableParts

LEMMA RowsOfTyped ==
    ASSUME NEW c, WellFormedCatalogue(c), NEW part \in TableParts, NEW t
    PROVE  /\ RowsOf(t, Kept(c[part])) \in SUBSET [name : Identifiers, def : PartDefs(part)]
           /\ Unique(RowsOf(t, Kept(c[part])))
<1>1. /\ c[part] \in SUBSET [table : Tables, name : Identifiers, def : PartDefs(part)]
      /\ \A r, q \in c[part] : r.table = q.table /\ r.name = q.name => r = q
    BY PartRows
<1>2. ASSUME NEW x \in RowsOf(t, Kept(c[part]))
      PROVE  \E r \in c[part] : r.table = t /\ x = [name |-> r.name, def |-> r.def]
    BY DEF RowsOf, Kept
<1>3. RowsOf(t, Kept(c[part])) \in SUBSET [name : Identifiers, def : PartDefs(part)]
    BY <1>1, <1>2
<1>4. ASSUME NEW x \in RowsOf(t, Kept(c[part])), NEW y \in RowsOf(t, Kept(c[part])),
             x.name = y.name
      PROVE  x = y
    <2>1. PICK r \in c[part] : r.table = t /\ x = [name |-> r.name, def |-> r.def]
        BY <1>2
    <2>2. PICK q \in c[part] : q.table = t /\ y = [name |-> q.name, def |-> q.def]
        BY <1>2
    <2>. QED BY <1>1, <1>4, <2>1, <2>2
<1>. QED BY <1>3, <1>4 DEF Unique

\* The comparison of a table finds nothing exactly if the table shows the same.
LEMMA TableExact ==
    ASSUME NEW d, NEW e, WellFormedCatalogue(d), WellFormedCatalogue(e), NEW t, NEW b, NEW l,
           \A part \in TableParts : /\ b[part] = RowsOf(t, Kept(d[part]))
                                   /\ l[part] = RowsOf(t, Kept(e[part]))
    PROVE  DiffTable(t, b, l) = {} <=> \A part \in TableParts : b[part] = l[part]
<1>1. \A part \in TableParts : /\ b[part] \in SUBSET [name : Identifiers, def : PartDefs(part)]
                               /\ l[part] \in SUBSET [name : Identifiers, def : PartDefs(part)]
                               /\ Unique(b[part]) /\ Unique(l[part])
    <2>1. TAKE part \in TableParts
    <2>2. b[part] = RowsOf(t, Kept(d[part])) /\ l[part] = RowsOf(t, Kept(e[part]))
        OBVIOUS
    <2>3. /\ RowsOf(t, Kept(d[part])) \in SUBSET [name : Identifiers, def : PartDefs(part)]
          /\ Unique(RowsOf(t, Kept(d[part])))
        BY RowsOfTyped
    <2>4. /\ RowsOf(t, Kept(e[part])) \in SUBSET [name : Identifiers, def : PartDefs(part)]
          /\ Unique(RowsOf(t, Kept(e[part])))
        BY RowsOfTyped
    <2>. QED BY <2>2, <2>3, <2>4
<1>2. DiffNamed("column", t, b.columns, l.columns, SameColumns(b.columns, l.columns)) = {}
        <=> b.columns = l.columns
    <2>1. /\ b["columns"] \in SUBSET [name : Identifiers, def : ColumnDefs]
          /\ l["columns"] \in SUBSET [name : Identifiers, def : ColumnDefs]
          /\ Unique(b["columns"]) /\ Unique(l["columns"])
        BY <1>1 DEF TableParts, PartDefs
    <2>. QED BY <2>1, ColumnsExact
<1>3. DiffNamed("index", t, b.indexes, l.indexes, SameDefinitions(b.indexes, l.indexes)) = {}
        <=> b.indexes = l.indexes
    <2>1. /\ b["indexes"] \in SUBSET [name : Identifiers, def : Defs]
          /\ l["indexes"] \in SUBSET [name : Identifiers, def : Defs]
          /\ Unique(b["indexes"]) /\ Unique(l["indexes"])
        BY <1>1 DEF TableParts, PartDefs
    <2>. QED BY <2>1, DefinitionsExact
<1>4. DiffNamed("constraint", t, b.constraints, l.constraints,
                SameDefinitions(b.constraints, l.constraints)) = {}
        <=> b.constraints = l.constraints
    <2>1. /\ b["constraints"] \in SUBSET [name : Identifiers, def : Defs]
          /\ l["constraints"] \in SUBSET [name : Identifiers, def : Defs]
          /\ Unique(b["constraints"]) /\ Unique(l["constraints"])
        BY <1>1 DEF TableParts, PartDefs
    <2>. QED BY <2>1, DefinitionsExact
<1>. QED BY <1>2, <1>3, <1>4 DEF DiffTable, TableParts

LEMMA TablesExact ==
    ASSUME NEW d, NEW e, WellFormedCatalogue(d), WellFormedCatalogue(e), NEW b, NEW l,
           NoEmptyTable(b), NoEmptyTable(l),
           \A part \in TableParts : Shows(b, part, d) /\ Shows(l, part, e)
    PROVE  DiffTables(b, l) = {} <=> \A part \in TableParts : Kept(d[part]) = Kept(e[part])
<1>1. ASSUME NEW t \in DOMAIN b \cap DOMAIN l
      PROVE  DiffTable(t, b[t], l[t]) = {} <=> \A part \in TableParts : b[t][part] = l[t][part]
    <2>1. \A part \in TableParts : /\ b[t][part] = RowsOf(t, Kept(d[part]))
                                   /\ l[t][part] = RowsOf(t, Kept(e[part]))
        BY DEF Shows
    <2>. QED BY <2>1, TableExact
<1>2. DiffTables(b, l) = {} <=>
        /\ DOMAIN b = DOMAIN l
        /\ \A t \in DOMAIN b \cap DOMAIN l : DiffTable(t, b[t], l[t]) = {}
    <2>. DEFINE Added == {[kind |-> "table", change |-> "added", table |-> t, object |-> None] :
                            t \in DOMAIN l \ DOMAIN b}
                Removed == {[kind |-> "table", change |-> "removed", table |-> t, object |-> None] :
                            t \in DOMAIN b \ DOMAIN l}
                Within == UNION {DiffTable(t, b[t], l[t]) : t \in DOMAIN b \cap DOMAIN l}
    <2>1. DiffTables(b, l) = Added \cup Removed \cup Within
        BY DEF DiffTables
    <2>2. Added = {} <=> DOMAIN l \subseteq DOMAIN b
        OBVIOUS
    <2>3. Removed = {} <=> DOMAIN b \subseteq DOMAIN l
        OBVIOUS
    <2>4. Within = {} <=> \A t \in DOMAIN b \cap DOMAIN l : DiffTable(t, b[t], l[t]) = {}
        OBVIOUS
    <2>. HIDE DEF Added, Removed, Within
    <2>. QED BY <2>1, <2>2, <2>3, <2>4
<1>3. ASSUME DOMAIN b = DOMAIN l,
             \A t \in DOMAIN b : \A part \in TableParts : b[t][part] = l[t][part],
             NEW part \in TableParts
      PROVE  Kept(d[part]) = Kept(e[part])
    <2>1. /\ d[part] \in SUBSET [table : Tables, name : Identifiers, def : PartDefs(part)]
          /\ e[part] \in SUBSET [table : Tables, name : Identifiers, def : PartDefs(part)]
        BY PartRows
    <2>2. ASSUME NEW r \in Kept(d[part])
          PROVE  r \in Kept(e[part])
        <3>1. /\ r.table \in DOMAIN b
              /\ [name |-> r.name, def |-> r.def] \in RowsOf(r.table, Kept(d[part]))
            BY DEF Shows, RowsOf
        <3>2. [name |-> r.name, def |-> r.def] \in RowsOf(r.table, Kept(e[part]))
            BY <1>3, <3>1 DEF Shows
        <3>3. PICK q \in Kept(e[part]) :
                    /\ q.table = r.table
                    /\ [name |-> r.name, def |-> r.def] = [name |-> q.name, def |-> q.def]
            BY <3>2 DEF RowsOf
        <3>4. q.name = r.name /\ q.def = r.def
            BY <3>3
        <3>. QED BY <2>1, <3>3, <3>4 DEF Kept
    <2>3. ASSUME NEW r \in Kept(e[part])
          PROVE  r \in Kept(d[part])
        <3>1. /\ r.table \in DOMAIN b
              /\ [name |-> r.name, def |-> r.def] \in RowsOf(r.table, Kept(e[part]))
            BY <1>3 DEF Shows, RowsOf
        <3>2. [name |-> r.name, def |-> r.def] \in RowsOf(r.table, Kept(d[part]))
            BY <1>3, <3>1 DEF Shows
        <3>3. PICK q \in Kept(d[part]) :
                    /\ q.table = r.table
                    /\ [name |-> r.name, def |-> r.def] = [name |-> q.name, def |-> q.def]
            BY <3>2 DEF RowsOf
        <3>4. q.name = r.name /\ q.def = r.def
            BY <3>3
        <3>. QED BY <2>1, <3>3, <3>4 DEF Kept
    <2>. QED BY <2>2, <2>3
<1>4. ASSUME \A part \in TableParts : Kept(d[part]) = Kept(e[part])
      PROVE  /\ DOMAIN b = DOMAIN l
             /\ \A t \in DOMAIN b : \A part \in TableParts : b[t][part] = l[t][part]
    <2>1. ASSUME NEW t \in DOMAIN b
          PROVE  t \in DOMAIN l
        <3>1. PICK part \in TableParts : RowsOf(t, Kept(d[part])) # {}
            BY DEF NoEmptyTable, Shows
        <3>2. PICK r \in Kept(d[part]) : r.table = t
            BY <3>1 DEF RowsOf
        <3>. QED BY <1>4, <3>2 DEF Shows
    <2>2. ASSUME NEW t \in DOMAIN l
          PROVE  t \in DOMAIN b
        <3>1. PICK part \in TableParts : RowsOf(t, Kept(e[part])) # {}
            BY DEF NoEmptyTable, Shows
        <3>2. PICK r \in Kept(e[part]) : r.table = t
            BY <3>1 DEF RowsOf
        <3>. QED BY <1>4, <3>2 DEF Shows
    <2>3. DOMAIN b = DOMAIN l
        BY <2>1, <2>2
    <2>. QED BY <1>4, <2>3 DEF Shows
<1>. QED BY <1>1, <1>2, <1>3, <1>4

\* The comparison of snapshots is exact: it finds something if and only if the
\* catalogues they were captured from differ in what a baseline can tell.
LEMMA CompareExact ==
    ASSUME NEW d, NEW e, WellFormedCatalogue(d), WellFormedCatalogue(e), NEW b, NEW l,
           TrueOf(b, {d}), TrueOf(l, {e}), b.version \in {1, 2}, l.version = 2,
           PlainLabels(d), PlainLabels(e)
    PROVE  Compare(b, l) # {} <=> View(d, b.version) # View(e, b.version)
<1>1. DiffTables(b.tables, l.tables) = {} <=>
        \A part \in TableParts : Kept(d[part]) = Kept(e[part])
    <2>1. /\ NoEmptyTable(b.tables) /\ NoEmptyTable(l.tables)
          /\ \A part \in TableParts : Shows(b.tables, part, d) /\ Shows(l.tables, part, e)
        BY DEF TrueOf
    <2>. QED BY <2>1, TablesExact
<1>2. /\ d.enums \in SUBSET [name : Identifiers, labels : LabelLists] /\ Unique(d.enums)
      /\ e.enums \in SUBSET [name : Identifiers, labels : LabelLists] /\ Unique(e.enums)
      /\ d.sequences \in SUBSET [name : Identifiers, def : Defs] /\ Unique(d.sequences)
      /\ e.sequences \in SUBSET [name : Identifiers, def : Defs] /\ Unique(e.sequences)
    BY DEF WellFormedCatalogue, Catalogue, Unique
<1>3. b.enums = d.enums /\ l.enums = e.enums /\ l.sequences = e.sequences
    BY DEF TrueOf
<1>4. DiffEnums(b.enums, l.enums) = {} <=> d.enums = e.enums
    <2>1. \A r \in d.enums \cup e.enums : Plain(r.labels)
        BY DEF PlainLabels, Plain
    <2>. QED BY <1>2, <1>3, <2>1, EnumsExact
<1>. DEFINE Seqs(c) == IF b.version = 1 THEN Names(c.sequences) ELSE c.sequences
<1>5. DiffSequences(b.sequences, l.sequences, b.version >= 2) = {} <=> Seqs(d) = Seqs(e)
    <2>1. CASE b.version = 1
        <3>1. Names(b.sequences) = Names(d.sequences) /\ ~(b.version >= 2)
            BY <2>1 DEF TrueOf
        <3>2. DiffSequences(b.sequences, l.sequences, b.version >= 2) = {}
                <=> Names(b.sequences) = Names(l.sequences)
            BY <3>1, DiffNamedEmpty DEF DiffSequences
        <3>. QED BY <1>3, <2>1, <3>1, <3>2
    <2>2. CASE b.version = 2
        <3>1. b.sequences = d.sequences /\ b.version >= 2
            BY <2>2 DEF TrueOf
        <3>2. DiffSequences(b.sequences, l.sequences, b.version >= 2) =
                DiffNamed("sequence", None, d.sequences, e.sequences,
                          SameDefinitions(d.sequences, e.sequences))
            BY <1>3, <3>1 DEF DiffSequences
        <3>3. DiffSequences(b.sequences, l.sequences, b.version >= 2) = {}
                <=> d.sequences = e.sequences
            BY <1>2, <3>2, DefinitionsExact
        <3>. QED BY <2>2, <3>3
    <2>. QED BY <2>1, <2>2
<1>. HIDE DEF Seqs
<1>6. \A c : View(c, b.version) =
        [columns |-> Kept(c.columns), indexes |-> Kept(c.indexes),
         constraints |-> Kept(c.constraints), enums |-> c.enums,
         sequences |-> Seqs(c)]
    BY DEF View, Kept, Seqs
<1>7. View(d, b.version) = View(e, b.version) <=>
        /\ Kept(d.columns) = Kept(e.columns)
        /\ Kept(d.indexes) = Kept(e.indexes)
        /\ Kept(d.constraints) = Kept(e.constraints)
        /\ d.enums = e.enums
        /\ Seqs(d) = Seqs(e)
    <2>. DEFINE V(c) == [columns |-> Kept(c.columns), indexes |-> Kept(c.indexes),
                         constraints |-> Kept(c.constraints), enums |-> c.enums,
                         sequences |-> Seqs(c)]
    <2>1. View(d, b.version) = V(d) /\ View(e, b.version) = V(e)
        BY <1>6
    <2>2. \A c : /\ V(c).columns = Kept(c.columns) /\ V(c).indexes = Kept(c.indexes)
                /\ V(c).constraints = Kept(c.constraints)
                /\ V(c).enums = c.enums /\ V(c).sequences = Seqs(c)
        OBVIOUS
    <2>3. ASSUME Kept(d.columns) = Kept(e.columns), Kept(d.indexes) = Kept(e.indexes),
                 Kept(d.constraints) = Kept(e.constraints),
                 d.enums = e.enums, Seqs(d) = Seqs(e)
          PROVE  V(d) = V(e)
        BY <2>3
    <2>. HIDE DEF V
    <2>. QED BY <2>1, <2>2, <2>3
<1>8. (\A part \in TableParts : Kept(d[part]) = Kept(e[part])) <=>
        /\ Kept(d.columns) = Kept(e.columns)
        /\ Kept(d.indexes) = Kept(e.indexes)
        /\ Kept(d.constraints) = Kept(e.constraints)
    BY DEF TableParts
<1>. QED BY <1>1, <1>4, <1>5, <1>7, <1>8 DEF Compare

-----------------------------------------------------------------------------
(* Changes of the schema keep it well formed.                              *)

OnePerName(rows) == \A r, q \in rows : r.table = q.table /\ r.name = q.name => r = q
HasId(t, columns) == \E q \in columns : q.table = t /\ q.name = "id"
OfTables(rows, columns) == \A r \in rows : HasId(r.table, columns)

\* WellFormedCatalogue, part by part.
LEMMA WellFormedParts ==
    ASSUME NEW c
    PROVE  WellFormedCatalogue(c) <=>
                /\ c \in Catalogue
                /\ OnePerName(c.columns) /\ OfTables(c.columns, c.columns)
                /\ OnePerName(c.indexes) /\ OfTables(c.indexes, c.columns)
                /\ OnePerName(c.constraints)
                /\ Unique(c.enums) /\ Unique(c.sequences)
BY DEF WellFormedCatalogue, OnePerName, HasId, OfTables, Unique, TableParts

\* The three parts of the tables are replaced.
WithParts(c, x, y, z) == [c EXCEPT !.columns = x, !.indexes = y, !.constraints = z]

LEMMA ThreeParts ==
    ASSUME NEW c \in Catalogue,
           NEW x \in SUBSET [table : Tables, name : Identifiers, def : ColumnDefs],
           NEW y \in SUBSET [table : Tables, name : Identifiers, def : Defs],
           NEW z \in SUBSET [table : Tables, name : Identifiers, def : Defs],
           NEW new, new = WithParts(c, x, y, z)
    PROVE  /\ new.columns = x /\ new.indexes = y /\ new.constraints = z
           /\ new.enums = c.enums /\ new.sequences = c.sequences
           /\ new \in Catalogue
BY DEF Catalogue, WithParts

LEMMA CreateTableFormed ==
    ASSUME WellFormedCatalogue(db), NEW t \in Tables, t \notin TableNames,
           NEW id \in [table : Tables, name : Identifiers, def : ColumnDefs],
           NEW pkey \in [table : Tables, name : Identifiers, def : Defs],
           id.table = t, id.name = "id", pkey.table = t,
           NEW new, new = WithParts(db, db.columns \cup {id}, db.indexes \cup {pkey},
                                    db.constraints \cup {pkey})
    PROVE  WellFormedCatalogue(new)
<1>1. /\ db \in Catalogue
      /\ OnePerName(db.columns) /\ OfTables(db.columns, db.columns)
      /\ OnePerName(db.indexes) /\ OfTables(db.indexes, db.columns)
      /\ OnePerName(db.constraints)
      /\ Unique(db.enums) /\ Unique(db.sequences)
    BY WellFormedParts
<1>2. /\ new.columns = db.columns \cup {id}
      /\ new.indexes = db.indexes \cup {pkey}
      /\ new.constraints = db.constraints \cup {pkey}
      /\ new.enums = db.enums /\ new.sequences = db.sequences
      /\ new \in Catalogue
    <2>1. /\ db.columns \cup {id} \in SUBSET [table : Tables, name : Identifiers, def : ColumnDefs]
          /\ db.indexes \cup {pkey} \in SUBSET [table : Tables, name : Identifiers, def : Defs]
          /\ db.constraints \cup {pkey} \in SUBSET [table : Tables, name : Identifiers, def : Defs]
        BY <1>1 DEF Catalogue
    <2>. QED BY <1>1, <2>1, ThreeParts
<1>3. \A r \in db.columns : r.table # t
    BY DEF TableNames
<1>4. /\ \A r \in db.indexes : r.table # t
      /\ \A r \in db.constraints : r.table # t
    BY <1>1, <1>3 DEF OfTables, HasId, TableNames
<1>5. /\ OnePerName(new.columns) /\ OnePerName(new.indexes) /\ OnePerName(new.constraints)
    BY <1>1, <1>2, <1>3, <1>4, ZenonT(60) DEF OnePerName
<1>6. OfTables(new.columns, new.columns) /\ OfTables(new.indexes, new.columns)
    BY <1>1, <1>2, ZenonT(60) DEF OfTables, HasId
<1>. QED BY <1>1, <1>2, <1>5, <1>6, WellFormedParts

LEMMA DropTableFormed ==
    ASSUME WellFormedCatalogue(db), NEW t, NEW new,
           new = [db EXCEPT !.columns = {r \in @ : r.table # t},
                            !.indexes = {r \in @ : r.table # t},
                            !.constraints = {r \in @ : r.table # t}]
    PROVE  WellFormedCatalogue(new)
<1>1. /\ db \in Catalogue
      /\ OnePerName(db.columns) /\ OfTables(db.columns, db.columns)
      /\ OnePerName(db.indexes) /\ OfTables(db.indexes, db.columns)
      /\ OnePerName(db.constraints)
      /\ Unique(db.enums) /\ Unique(db.sequences)
    BY WellFormedParts
<1>2. /\ new.columns = {r \in db.columns : r.table # t}
      /\ new.indexes = {r \in db.indexes : r.table # t}
      /\ new.constraints = {r \in db.constraints : r.table # t}
      /\ new.enums = db.enums /\ new.sequences = db.sequences
      /\ new \in Catalogue
    BY <1>1 DEF Catalogue
<1>3. /\ OnePerName(new.columns) /\ OnePerName(new.indexes) /\ OnePerName(new.constraints)
    BY <1>1, <1>2 DEF OnePerName
<1>4. OfTables(new.columns, new.columns) /\ OfTables(new.indexes, new.columns)
    BY <1>1, <1>2 DEF OfTables, HasId
<1>. QED BY <1>1, <1>2, <1>3, <1>4, WellFormedParts

Replaced(t, part, name, added) ==
    [db EXCEPT ![part] = {r \in db[part] : ~(r.table = t /\ r.name = name)} \cup added]

\* A row of table t is replaced, or removed unless it is the column id.
LEMMA AlterTableFormed ==
    ASSUME WellFormedCatalogue(db), NEW t \in Tables, NEW part \in TableParts, NEW name \in Identifiers,
           part = "constraints" \/ t \in Ordinary,
           NEW added \in SUBSET {[table |-> t, name |-> name, def |-> d] : d \in PartDefs(part)},
           \A r, q \in added : r = q, added # {} \/ name # "id",
           NEW new, new = Replaced(t, part, name, added)
    PROVE  WellFormedCatalogue(new)
<1>. DEFINE others == {r \in db[part] : ~(r.table = t /\ r.name = name)}
<1>1. /\ db \in Catalogue
      /\ OnePerName(db.columns) /\ OfTables(db.columns, db.columns)
      /\ OnePerName(db.indexes) /\ OfTables(db.indexes, db.columns)
      /\ OnePerName(db.constraints)
      /\ Unique(db.enums) /\ Unique(db.sequences)
    BY WellFormedParts
<1>3. part = "constraints" \/ HasId(t, db.columns)
    BY <1>1 DEF Ordinary, OfTables
<1>4. \A r \in added : r.table = t /\ r.name = name
    OBVIOUS
<1>5. added \in SUBSET [table : Tables, name : Identifiers, def : PartDefs(part)]
    OBVIOUS
<1>6. db[part] \in SUBSET [table : Tables, name : Identifiers, def : PartDefs(part)]
      /\ OnePerName(db[part]) /\ (part = "constraints" \/ OfTables(db[part], db.columns))
    BY <1>1, PartRows DEF TableParts
<1>7. others \cup added \in SUBSET [table : Tables, name : Identifiers, def : PartDefs(part)]
    BY <1>5, <1>6
<1>8. OnePerName(others \cup added)
    BY <1>4, <1>6 DEF OnePerName
<1>9. ASSUME NEW columns, NEW x, HasId(x, db.columns), part # "columns" => columns = db.columns,
             part = "columns" => columns = others \cup added
      PROVE  HasId(x, columns)
    <2>1. PICK q \in db.columns : q.table = x /\ q.name = "id"
        BY <1>9 DEF HasId
    <2>2. CASE part # "columns"
        BY <1>9, <2>2
    <2>3. CASE part = "columns" /\ (x # t \/ name # "id")
        <3>1. q \in others
            BY <2>1, <2>3
        <3>. QED BY <1>9, <2>1, <2>3, <3>1 DEF HasId
    <2>4. CASE part = "columns" /\ x = t /\ name = "id"
        <3>1. PICK r \in added : TRUE
            BY <2>4
        <3>. QED BY <1>4, <1>9, <2>4, <3>1 DEF HasId
    <2>. QED BY <2>2, <2>3, <2>4
<1>10. part = "constraints" \/ OfTables(others \cup added, db.columns)
    BY <1>3, <1>4, <1>6 DEF OfTables
<1>. HIDE DEF others
<1>11. new = [db EXCEPT ![part] = others \cup added]
    BY DEF others, Replaced
<1>12. CASE part = "columns"
    <2>1. /\ new.columns = others \cup added
          /\ new.indexes = db.indexes /\ new.constraints = db.constraints
          /\ new.enums = db.enums /\ new.sequences = db.sequences
          /\ new \in Catalogue
        BY <1>1, <1>7, <1>11, <1>12 DEF Catalogue, PartDefs
    <2>2. \A x : HasId(x, db.columns) => HasId(x, new.columns)
        BY <1>9, <1>12, <2>1
    <2>3. OfTables(new.columns, new.columns) /\ OfTables(new.indexes, new.columns)
        BY <1>1, <1>10, <1>12, <2>1, <2>2 DEF OfTables
    <2>. QED BY <1>1, <1>8, <2>1, <2>3, WellFormedParts
<1>13. CASE part = "indexes"
    <2>1. /\ new.indexes = others \cup added
          /\ new.columns = db.columns /\ new.constraints = db.constraints
          /\ new.enums = db.enums /\ new.sequences = db.sequences
          /\ new \in Catalogue
        BY <1>1, <1>7, <1>11, <1>13 DEF Catalogue, PartDefs
    <2>. QED BY <1>1, <1>8, <1>10, <1>13, <2>1, WellFormedParts
<1>14. CASE part = "constraints"
    <2>1. /\ new.constraints = others \cup added
          /\ new.columns = db.columns /\ new.indexes = db.indexes
          /\ new.enums = db.enums /\ new.sequences = db.sequences
          /\ new \in Catalogue
        BY <1>1, <1>7, <1>11, <1>14 DEF Catalogue, PartDefs
    <2>. QED BY <1>1, <1>8, <2>1, WellFormedParts
<1>. QED BY <1>12, <1>13, <1>14 DEF TableParts

LEMMA AlterEnumFormed ==
    ASSUME WellFormedCatalogue(db), NEW name \in Identifiers,
           NEW added \in SUBSET {[name |-> name, labels |-> l] : l \in LabelLists},
           \A r, q \in added : r = q, NEW new,
           new = [db EXCEPT !.enums = {r \in db.enums : r.name # name} \cup added]
    PROVE  WellFormedCatalogue(new)
<1>1. db \in Catalogue /\ Unique(db.enums)
    BY WellFormedParts
<1>2. added \in SUBSET [name : Identifiers, labels : LabelLists] /\ \A r \in added : r.name = name
    OBVIOUS
<1>3. /\ new.columns = db.columns /\ new.indexes = db.indexes
      /\ new.constraints = db.constraints /\ new.sequences = db.sequences
      /\ new.enums = {r \in db.enums : r.name # name} \cup added
      /\ new \in Catalogue
    BY <1>1, <1>2 DEF Catalogue
<1>4. Unique(new.enums)
    BY <1>1, <1>2, <1>3 DEF Unique
<1>. QED BY <1>3, <1>4, WellFormedParts

LEMMA AlterSequenceFormed ==
    ASSUME WellFormedCatalogue(db), NEW name \in Identifiers,
           NEW added \in SUBSET {[name |-> name, def |-> d] : d \in Defs},
           \A r, q \in added : r = q, NEW new,
           new = [db EXCEPT !.sequences = {r \in db.sequences : r.name # name} \cup added]
    PROVE  WellFormedCatalogue(new)
<1>1. db \in Catalogue /\ Unique(db.sequences)
    BY WellFormedParts
<1>2. added \in SUBSET [name : Identifiers, def : Defs] /\ \A r \in added : r.name = name
    OBVIOUS
<1>3. /\ new.columns = db.columns /\ new.indexes = db.indexes
      /\ new.constraints = db.constraints /\ new.enums = db.enums
      /\ new.sequences = {r \in db.sequences : r.name # name} \cup added
      /\ new \in Catalogue
    BY <1>1, <1>2 DEF Catalogue
<1>4. Unique(new.sequences)
    BY <1>1, <1>2, <1>3 DEF Unique
<1>. QED BY <1>3, <1>4, WellFormedParts

\* Whatever is done to the schema, it stays well formed.
LEMMA Formed ==
    ASSUME WellFormedCatalogue(db), SchemaNext
    PROVE  WellFormedCatalogue(db')
<1>1. ASSUME NEW t \in Tables, CreateTable(t)
      PROVE  WellFormedCatalogue(db')
    <2>1. PICK c \in ColumnDefs, d \in Defs :
            db' = [db EXCEPT
                    !.columns = @ \cup {[table |-> t, name |-> "id", def |-> c]},
                    !.indexes = @ \cup {[table |-> t, name |-> "pkey", def |-> d]},
                    !.constraints = @ \cup {[table |-> t, name |-> "pkey", def |-> d]}]
        BY <1>1 DEF CreateTable, Change
    <2>. DEFINE id == [table |-> t, name |-> "id", def |-> c]
                pkey == [table |-> t, name |-> "pkey", def |-> d]
    <2>2. /\ id \in [table : Tables, name : Identifiers, def : ColumnDefs]
          /\ pkey \in [table : Tables, name : Identifiers, def : Defs]
          /\ id.table = t /\ id.name = "id" /\ pkey.table = t
        BY DEF Identifiers
    <2>3. db' = WithParts(db, db.columns \cup {id}, db.indexes \cup {pkey},
                          db.constraints \cup {pkey})
        BY <2>1 DEF WithParts
    <2>. HIDE DEF id, pkey
    <2>4. t \notin TableNames
        BY <1>1 DEF CreateTable
    <2>. QED BY <2>2, <2>3, <2>4, CreateTableFormed
<1>2. ASSUME NEW t \in Tables, DropTable(t)
      PROVE  WellFormedCatalogue(db')
    <2>1. db' = [db EXCEPT !.columns = {r \in @ : r.table # t},
                           !.indexes = {r \in @ : r.table # t},
                           !.constraints = {r \in @ : r.table # t}]
        BY <1>2 DEF DropTable, Change
    <2>. QED BY <2>1, DropTableFormed
<1>3. ASSUME NEW t \in Tables, NEW part \in TableParts, NEW name \in Identifiers,
             AlterTable(t, part, name)
      PROVE  WellFormedCatalogue(db')
    <2>. DEFINE others == {r \in db[part] : ~(r.table = t /\ r.name = name)}
    <2>1. part = "constraints" \/ t \in Ordinary
        BY <1>3 DEF AlterTable
    <2>2. \/ \E d \in PartDefs(part) :
                db' = [db EXCEPT ![part] = others \cup {[table |-> t, name |-> name, def |-> d]}]
          \/ name # "id" /\ db' = [db EXCEPT ![part] = others \cup {}]
        BY <1>3 DEF AlterTable, Change, PartDefs
    <2>3. ASSUME NEW d \in PartDefs(part),
                 db' = [db EXCEPT ![part] = others \cup {[table |-> t, name |-> name, def |-> d]}]
          PROVE  WellFormedCatalogue(db')
        <3>. DEFINE added == {[table |-> t, name |-> name, def |-> d]}
        <3>1. /\ added \in SUBSET {[table |-> t, name |-> name, def |-> x] : x \in PartDefs(part)}
              /\ \A r, q \in added : r = q
              /\ added # {}
            OBVIOUS
        <3>2. db' = Replaced(t, part, name, added)
            BY <2>3 DEF Replaced
        <3>. HIDE DEF added
        <3>. QED BY <2>1, <3>1, <3>2, AlterTableFormed
    <2>4. ASSUME name # "id", db' = [db EXCEPT ![part] = others \cup {}]
          PROVE  WellFormedCatalogue(db')
        <3>1. db' = Replaced(t, part, name, {})
            BY <2>4 DEF Replaced
        <3>. QED BY <2>1, <2>4, <3>1, AlterTableFormed
    <2>. QED BY <2>2, <2>3, <2>4
<1>4. ASSUME AlterEnum("status")
      PROVE  WellFormedCatalogue(db')
    <2>. DEFINE others == {r \in db.enums : r.name # "status"}
    <2>1. PICK added \in SUBSET {[name |-> "status", labels |-> l] : l \in LabelLists} :
                (\A r, q \in added : r = q) /\ db' = [db EXCEPT !.enums = others \cup added]
        <3>1. CASE \E l \in LabelLists : 
                    db' = [db EXCEPT !.enums = others \cup {[name |-> "status", labels |-> l]}]
            BY <3>1
        <3>2. CASE db' = [db EXCEPT !.enums = others]
            <4>1. others = others \cup {}
                OBVIOUS
            <4>. QED BY <3>2, <4>1
        <3>. QED BY <1>4, <3>1, <3>2 DEF AlterEnum, Change
    <2>. QED BY <2>1, AlterEnumFormed DEF Identifiers
<1>5. ASSUME AlterSequence("seq")
      PROVE  WellFormedCatalogue(db')
    <2>. DEFINE others == {r \in db.sequences : r.name # "seq"}
    <2>1. PICK added \in SUBSET {[name |-> "seq", def |-> d] : d \in Defs} :
                (\A r, q \in added : r = q) /\ db' = [db EXCEPT !.sequences = others \cup added]
        <3>1. CASE \E d \in Defs :
                    db' = [db EXCEPT !.sequences = others \cup {[name |-> "seq", def |-> d]}]
            BY <3>1
        <3>2. CASE db' = [db EXCEPT !.sequences = others]
            <4>1. others = others \cup {}
                OBVIOUS
            <4>. QED BY <3>2, <4>1
        <3>. QED BY <1>5, <3>1, <3>2 DEF AlterSequence, Change
    <2>. QED BY <2>1, AlterSequenceFormed DEF Identifiers
<1>6. ASSUME NEW t \in Tables, CreatePartitioned(t)
      PROVE  WellFormedCatalogue(db')
    <2>1. PICK d \in Defs :
            db' = [db EXCEPT !.constraints = @ \cup {[table |-> t, name |-> "pkey", def |-> d]}]
        BY <1>6 DEF CreatePartitioned, Change
    <2>. DEFINE added == {[table |-> t, name |-> "pkey", def |-> d]}
    <2>2. /\ added \in SUBSET {[table |-> t, name |-> "pkey", def |-> x] : x \in PartDefs("constraints")}
          /\ \A r, q \in added : r = q
          /\ added # {}
        BY DEF PartDefs
    <2>3. {r \in db["constraints"] : ~(r.table = t /\ r.name = "pkey")} = db.constraints
        BY <1>6 DEF CreatePartitioned, TableNames
    <2>4. db' = Replaced(t, "constraints", "pkey", added)
        BY <2>1, <2>3 DEF Replaced
    <2>. HIDE DEF added
    <2>. QED BY <2>2, <2>4, AlterTableFormed DEF TableParts, Identifiers
<1>8. CASE UNCHANGED db
    BY <1>8
<1>7. {"id", "note", "idx", "check"} \subseteq Identifiers
      /\ {"columns", "indexes", "constraints"} \subseteq TableParts
    BY DEF Identifiers, TableParts
<1>. QED
    BY <1>1, <1>2, <1>3, <1>4, <1>5, <1>6, <1>7, <1>8
    DEF SchemaNext, Capture, CaptureTables, CaptureEnums, CaptureSequences, CaptureFails, Save

-----------------------------------------------------------------------------
(* The inductive invariant.                                                *)

\* The parts whose query has been answered.
Answered ==
    CASE query = "indexes" -> {"columns"}
      [] query = "constraints" -> {"columns", "indexes"}
      [] query \in {"enums", "sequences", "captured"} -> TableParts
      [] OTHER -> {}

\* A part that was asked for shows a catalogue of this capture; the others are
\* still empty.
Untouched(tables, part) == \A t \in DOMAIN tables : tables[t][part] = {}
PartSoFar(tables, part, answered) ==
    IF part \in answered THEN \E c \in seen : Shows(tables, part, c)
                         ELSE Untouched(tables, part)

HaveParts(tables) == \A t \in DOMAIN tables : DOMAIN tables[t] = TableParts

TablesSoFar ==
    /\ HaveParts(snap.tables)
    /\ NoEmptyTable(snap.tables)
    /\ \A part \in TableParts : PartSoFar(snap.tables, part, Answered)

Shape ==
    /\ query \in TableParts \cup {"idle", "enums", "sequences", "captured"}
    /\ snap = [version |-> 2, tables |-> snap.tables, enums |-> snap.enums,
               sequences |-> snap.sequences]

\* The catalogues met are well formed, and the current one is among them.
SeenFormed ==
    /\ WellFormedCatalogue(db)
    /\ \A c \in seen \cup baseSeen : WellFormedCatalogue(c)
    /\ query # "idle" => db \in seen

SnapSoFar ==
    query # "idle" =>
        /\ TablesSoFar
        /\ query \in {"sequences", "captured"} => \E c \in seen : snap.enums = c.enums
        /\ query = "captured" => \E c \in seen : snap.sequences = c.sequences

BaseTrue == base # None => base.version \in {1, 2} /\ TrueOf(base, baseSeen)

SchemaInv == Shape /\ SeenFormed /\ SnapSoFar /\ BaseTrue

-----------------------------------------------------------------------------
LEMMA Emptied ==
    ASSUME snap' = NewSnapshot
    PROVE  /\ snap' = [version |-> 2, tables |-> snap'.tables, enums |-> snap'.enums,
                       sequences |-> snap'.sequences]
           /\ DOMAIN snap'.tables = {}
<1>1. snap' = [version |-> 2, tables |-> <<>>, enums |-> {}, sequences |-> {}]
    BY DEF NewSnapshot
<1>2. snap'.tables = <<>> /\ snap'.enums = {} /\ snap'.sequences = {}
    BY <1>1
<1>. QED BY <1>1, <1>2

\* The rows of a query join the tables of the snapshot, and spoil nothing there.
LEMMA AddRowsShows ==
    ASSUME NEW c, NEW tables, NEW part \in TableParts, NEW new,
           new = AddRows(tables, part, Kept(c[part])),
           HaveParts(tables), Untouched(tables, part)
    PROVE  /\ HaveParts(new)
           /\ Shows(new, part, c)
           /\ NoEmptyTable(tables) => NoEmptyTable(new)
           /\ \A p \in TableParts \ {part} :
                /\ \A d : Shows(tables, p, d) => Shows(new, p, d)
                /\ Untouched(tables, p) => Untouched(new, p)
<1>. DEFINE rows == Kept(c[part])
            Old(t) == IF t \in DOMAIN tables THEN tables[t] ELSE NewTable
<1>1. DOMAIN new = DOMAIN tables \cup {r.table : r \in rows}
    BY DEF AddRows
<1>2. \A t \in DOMAIN new : new[t] = [Old(t) EXCEPT ![part] = RowsOf(t, rows)]
    BY DEF AddRows, RowsOf
<1>3. \A t \in DOMAIN new : DOMAIN Old(t) = TableParts
    BY <1>1 DEF NewTable, TableParts, HaveParts
<1>4. \A t : t \notin DOMAIN tables => \A p \in TableParts : Old(t)[p] = {}
    BY DEF NewTable, TableParts
<1>5. \A t : t \in DOMAIN tables => Old(t) = tables[t]
    OBVIOUS
<1>. HIDE DEF Old, rows
<1>6. \A t \in DOMAIN new : /\ DOMAIN new[t] = TableParts
                            /\ new[t][part] = RowsOf(t, rows)
                            /\ \A p \in TableParts \ {part} : new[t][p] = Old(t)[p]
    BY <1>2, <1>3
<1>7. Shows(new, part, c)
    BY <1>1, <1>6 DEF Shows, rows
<1>8. ASSUME NoEmptyTable(tables), NEW t \in DOMAIN new
      PROVE  \E p \in TableParts : new[t][p] # {}
    <2>1. CASE t \in DOMAIN tables
        <3>1. PICK p \in TableParts : tables[t][p] # {}
            BY <1>8, <2>1 DEF NoEmptyTable
        <3>2. p # part
            BY <2>1, <3>1 DEF Untouched
        <3>. QED BY <1>5, <1>6, <2>1, <3>1, <3>2
    <2>2. CASE t \notin DOMAIN tables
        <3>1. PICK r \in rows : r.table = t
            BY <1>1, <2>2
        <3>2. RowsOf(t, rows) # {}
            BY <3>1 DEF RowsOf
        <3>. QED BY <1>6, <3>2
    <2>. QED BY <2>1, <2>2
<1>9. ASSUME NEW p \in TableParts \ {part}, NEW d, Shows(tables, p, d)
      PROVE  Shows(new, p, d)
    <2>1. \A r \in Kept(d[p]) : r.table \in DOMAIN new
        BY <1>1, <1>9 DEF Shows
    <2>2. ASSUME NEW t \in DOMAIN new, t \in DOMAIN tables
          PROVE  new[t][p] = RowsOf(t, Kept(d[p]))
        BY <1>5, <1>6, <1>9, <2>2 DEF Shows
    <2>3. ASSUME NEW t \in DOMAIN new, t \notin DOMAIN tables
          PROVE  new[t][p] = RowsOf(t, Kept(d[p]))
        <3>1. \A r \in Kept(d[p]) : r.table # t
            BY <1>9, <2>3 DEF Shows
        <3>2. RowsOf(t, Kept(d[p])) = {}
            BY <3>1 DEF RowsOf
        <3>. QED BY <1>4, <1>6, <2>3, <3>2
    <2>. QED BY <2>1, <2>2, <2>3 DEF Shows
<1>10. ASSUME NEW p \in TableParts \ {part}, Untouched(tables, p)
       PROVE  Untouched(new, p)
    BY <1>4, <1>5, <1>6, <1>10 DEF Untouched
<1>11. HaveParts(new)
    BY <1>6 DEF HaveParts
<1>. QED BY <1>7, <1>8, <1>9, <1>10, <1>11 DEF NoEmptyTable

\* With more catalogues seen, the snapshot is as true as it was.
LEMMA SameSnap ==
    ASSUME SnapSoFar, UNCHANGED <<query, snap>>, query # "idle" => seen \subseteq seen'
    PROVE  SnapSoFar'
<1>1. SUFFICES ASSUME query # "idle"
               PROVE  SnapSoFar'
    BY DEF SnapSoFar
<1>2. Answered' = Answered
    BY DEF Answered
<1>3. TablesSoFar'
    BY <1>1, <1>2 DEF SnapSoFar, TablesSoFar, PartSoFar
<1>. QED BY <1>1, <1>3 DEF SnapSoFar

LEMMA CaptureTablesSoFar ==
    ASSUME SchemaInv, NEW part \in TableParts, CaptureTables(part)
    PROVE  Shape' /\ SnapSoFar'
<1>0. PICK new : new = AddRows(snap.tables, part, Kept(db[part]))
    OBVIOUS
<1>1. query = part /\ query # "idle" /\ query' = NextQuery(part) /\ UNCHANGED <<db, seen>>
    BY DEF CaptureTables, TableParts
<1>2. /\ snap = [version |-> 2, tables |-> snap.tables, enums |-> snap.enums,
                 sequences |-> snap.sequences]
      /\ TablesSoFar /\ db \in seen
    BY <1>1 DEF SchemaInv, Shape, SnapSoFar, SeenFormed
<1>3. snap' = [snap EXCEPT !.tables = new]
    BY <1>0 DEF CaptureTables, Kept
<1>4. /\ snap'.tables = new
      /\ snap' = [version |-> 2, tables |-> new, enums |-> snap.enums,
                  sequences |-> snap.sequences]
    BY <1>2, <1>3
<1>5. /\ query' \in {"indexes", "constraints", "enums"}
      /\ Answered' = Answered \cup {part} /\ part \notin Answered
    BY <1>1 DEF NextQuery, Answered, TableParts
<1>6. HaveParts(snap.tables) /\ Untouched(snap.tables, part) /\ NoEmptyTable(snap.tables)
    BY <1>2, <1>5 DEF TablesSoFar, PartSoFar
<1>7. /\ HaveParts(new)
      /\ Shows(new, part, db)
      /\ NoEmptyTable(new)
      /\ \A p \in TableParts \ {part} :
            /\ \A d : Shows(snap.tables, p, d) => Shows(new, p, d)
            /\ Untouched(snap.tables, p) => Untouched(new, p)
    BY <1>0, <1>6, AddRowsShows
<1>8. ASSUME NEW p \in TableParts
      PROVE  PartSoFar(new, p, Answered)' 
    <2>1. CASE p = part
        BY <1>1, <1>2, <1>5, <1>7, <2>1 DEF PartSoFar
    <2>2. CASE p # part
        BY <1>1, <1>2, <1>5, <1>7, <2>2 DEF PartSoFar, TablesSoFar
    <2>. QED BY <2>1, <2>2
<1>9. Shape'
    BY <1>4, <1>5 DEF Shape, TableParts
<1>. QED BY <1>4, <1>5, <1>7, <1>8, <1>9 DEF SnapSoFar, TablesSoFar

\* The last two queries.
LEMMA CaptureRestSoFar ==
    ASSUME SchemaInv, CaptureEnums \/ CaptureSequences
    PROVE  Shape' /\ SnapSoFar'
<1>1. /\ query \in {"enums", "sequences"} /\ query' \in {"sequences", "captured"}
      /\ UNCHANGED <<db, seen>>
    BY DEF CaptureEnums, CaptureSequences
<1>2. /\ snap = [version |-> 2, tables |-> snap.tables, enums |-> snap.enums,
                 sequences |-> snap.sequences]
      /\ TablesSoFar /\ db \in seen
    BY <1>1 DEF SchemaInv, Shape, SnapSoFar, SeenFormed
<1>3. PICK x, y : /\ snap' = [version |-> 2, tables |-> snap.tables, enums |-> x, sequences |-> y]
                  /\ query = "enums" => x = db.enums
                  /\ query = "sequences" => x = snap.enums /\ y = db.sequences
    <2>1. CASE CaptureEnums
        <3>1. snap' = [snap EXCEPT !.enums = db.enums] /\ query = "enums"
            BY <2>1 DEF CaptureEnums
        <3>2. snap' = [version |-> 2, tables |-> snap.tables, enums |-> db.enums,
                       sequences |-> snap.sequences]
            BY <1>2, <3>1
        <3>. QED BY <3>1, <3>2
    <2>2. CASE CaptureSequences
        <3>1. snap' = [snap EXCEPT !.sequences = db.sequences] /\ query = "sequences"
            BY <2>2 DEF CaptureSequences
        <3>2. snap' = [version |-> 2, tables |-> snap.tables, enums |-> snap.enums,
                       sequences |-> db.sequences]
            BY <1>2, <3>1
        <3>. QED BY <3>1, <3>2
    <2>. QED BY <2>1, <2>2
<1>4. snap'.tables = snap.tables /\ snap'.enums = x /\ snap'.sequences = y
    BY <1>3
<1>5. Answered' = TableParts /\ Answered = TableParts
    BY <1>1 DEF Answered
<1>6. TablesSoFar'
    BY <1>1, <1>2, <1>4, <1>5 DEF TablesSoFar, PartSoFar
<1>7. \E c \in seen' : snap'.enums = c.enums
    <2>1. CASE query = "enums"
        BY <1>1, <1>2, <1>3, <1>4, <2>1
    <2>2. CASE query = "sequences"
        BY <1>1, <1>3, <1>4, <2>2 DEF SchemaInv, SnapSoFar
    <2>. QED BY <1>1, <2>1, <2>2
<1>8. query' = "captured" => \E c \in seen' : snap'.sequences = c.sequences
    <2>1. query' = "captured" => query = "sequences"
        BY DEF CaptureEnums, CaptureSequences
    <2>. QED BY <1>1, <1>2, <1>3, <1>4, <2>1
<1>9. Shape'
    BY <1>1, <1>3, <1>4 DEF Shape
<1>. QED BY <1>6, <1>7, <1>8, <1>9 DEF SnapSoFar

\* A complete snapshot is true, part by part.
LEMMA CapturedTrue ==
    ASSUME SchemaInv, query = "captured"
    PROVE  TrueOf(snap, seen) /\ snap.version = 2
<1>1. TablesSoFar /\ Answered = TableParts
    BY DEF SchemaInv, SnapSoFar, Answered
<1>2. NoEmptyTable(snap.tables) /\ \A part \in TableParts : \E c \in seen : Shows(snap.tables, part, c)
    BY <1>1 DEF TablesSoFar, PartSoFar
<1>3. snap.version = 2
    BY DEF SchemaInv, Shape
<1>4. /\ \E c \in seen : snap.enums = c.enums
      /\ \E c \in seen : snap.sequences = c.sequences
    BY DEF SchemaInv, SnapSoFar
<1>. QED BY <1>2, <1>3, <1>4 DEF TrueOf

LEMMA SaveTrue ==
    ASSUME SchemaInv, NEW version \in {1, 2}, Save(version)
    PROVE  BaseTrue'
<1>1. query = "captured" /\ baseSeen' = seen
    BY DEF Save
<1>2. TrueOf(snap, seen) /\ snap.version = 2
    BY <1>1, CapturedTrue
<1>3. snap = [version |-> 2, tables |-> snap.tables, enums |-> snap.enums,
              sequences |-> snap.sequences]
    BY DEF SchemaInv, Shape
<1>. DEFINE named == {[name |-> s.name, def |-> Zero] : s \in snap.sequences}
            sequences == IF version = 1 THEN named ELSE snap.sequences
<1>4. base' = [snap EXCEPT !.version = version, !.sequences = sequences]
    BY DEF Save
<1>5. Names(named) = Names(snap.sequences)
    <2>1. ASSUME NEW s \in snap.sequences
          PROVE  s.name \in Names(named)
        <3>1. [name |-> s.name, def |-> Zero] \in named
            OBVIOUS
        <3>. QED BY <3>1 DEF Names
    <2>2. ASSUME NEW x \in named
          PROVE  x.name \in Names(snap.sequences)
        <3>1. PICK s \in snap.sequences : x = [name |-> s.name, def |-> Zero]
            OBVIOUS
        <3>. QED BY <3>1 DEF Names
    <2>. HIDE DEF named
    <2>. QED BY <2>1, <2>2 DEF Names
<1>. HIDE DEF named
<1>6. base' = [version |-> version, tables |-> snap.tables, enums |-> snap.enums,
               sequences |-> sequences]
    BY <1>3, <1>4
<1>7. /\ base'.version = version /\ base'.tables = snap.tables /\ base'.enums = snap.enums
      /\ base'.sequences = sequences
    BY <1>6
<1>8. \E c \in seen : snap.sequences = c.sequences
    BY <1>2 DEF TrueOf
<1>9. TrueOf(base, baseSeen)'
    BY <1>1, <1>2, <1>5, <1>7, <1>8 DEF TrueOf
<1>. QED BY <1>7, <1>9 DEF BaseTrue

LEMMA SchemaInvInit == SchemaInit => SchemaInv
<1>1. SUFFICES ASSUME SchemaInit PROVE SchemaInv
    OBVIOUS
<1>2. /\ query = "idle" /\ base = None /\ seen = {} /\ baseSeen = {} /\ WellFormedCatalogue(db)
      /\ snap = [version |-> 2, tables |-> <<>>, enums |-> {}, sequences |-> {}]
    BY <1>1, SchemaAssumption DEF SchemaInit, NewSnapshot
<1>3. snap.tables = <<>> /\ snap.enums = {} /\ snap.sequences = {}
    BY <1>2
<1>. QED BY <1>2, <1>3 DEF SchemaInv, Shape, SeenFormed, SnapSoFar, BaseTrue

LEMMA SchemaInvNext ==
    ASSUME SchemaInv, [SchemaNext]_schemaVars
    PROVE  SchemaInv'
<1>1. CASE UNCHANGED schemaVars
    <2>1. UNCHANGED <<db, query, snap, base, ddl, seen, baseSeen>>
        BY <1>1 DEF schemaVars
    <2>2. SnapSoFar'
        BY <2>1, SameSnap DEF SchemaInv
    <2>. QED BY <2>1, <2>2 DEF SchemaInv, Shape, SeenFormed, BaseTrue
<1>2. ASSUME SchemaNext
      PROVE  SchemaInv'
    <2>1. WellFormedCatalogue(db')
        BY <1>2, Formed DEF SchemaInv, SeenFormed
    <2>2. CASE \E new : Change(new)
        <3>1. PICK new : Change(new)
            BY <2>2
        <3>2. /\ UNCHANGED <<query, snap, base, baseSeen>> /\ db' = new
              /\ seen' = IF query = "idle" THEN {} ELSE seen \cup {new}
            BY <3>1 DEF Change
        <3>3. SnapSoFar'
            BY <3>2, SameSnap DEF SchemaInv
        <3>4. SeenFormed'
            BY <2>1, <3>2 DEF SchemaInv, SeenFormed
        <3>. QED BY <3>2, <3>3, <3>4 DEF SchemaInv, Shape, BaseTrue
    <2>3. CASE Capture
        <3>1. /\ query' = "columns" /\ snap' = NewSnapshot /\ seen' = {db}
              /\ UNCHANGED <<db, base, baseSeen>>
            BY <2>3 DEF Capture
        <3>2. /\ snap' = [version |-> 2, tables |-> snap'.tables, enums |-> snap'.enums,
                          sequences |-> snap'.sequences]
              /\ DOMAIN snap'.tables = {}
            BY <3>1, Emptied
        <3>3. Answered' = {}
            BY <3>1 DEF Answered
        <3>4. TablesSoFar'
            BY <3>2, <3>3 DEF TablesSoFar, HaveParts, NoEmptyTable, PartSoFar, Untouched
        <3>5. Shape' /\ SnapSoFar'
            BY <3>1, <3>2, <3>4 DEF Shape, SnapSoFar, TableParts
        <3>6. SeenFormed'
            BY <3>1 DEF SchemaInv, SeenFormed
        <3>. QED BY <3>1, <3>5, <3>6 DEF SchemaInv, BaseTrue
    <2>4. ASSUME \/ \E part \in TableParts : CaptureTables(part)
                 \/ CaptureEnums \/ CaptureSequences
          PROVE  SchemaInv'
        <3>1. Shape' /\ SnapSoFar'
            BY <2>4, CaptureTablesSoFar, CaptureRestSoFar
        <3>2. UNCHANGED <<db, base, seen, baseSeen>> /\ query # "idle"
            BY <2>4 DEF CaptureTables, CaptureEnums, CaptureSequences, TableParts
        <3>. QED BY <3>1, <3>2 DEF SchemaInv, SeenFormed, BaseTrue
    <2>5. CASE CaptureFails
        <3>1. /\ query' = "idle" /\ snap' = NewSnapshot /\ seen' = {}
              /\ UNCHANGED <<db, base, baseSeen>>
            BY <2>5 DEF CaptureFails
        <3>2. Shape' /\ SnapSoFar'
            BY <3>1, Emptied DEF Shape, SnapSoFar
        <3>. QED BY <3>1, <3>2 DEF SchemaInv, SeenFormed, BaseTrue
    <2>6. ASSUME NEW version \in {1, 2}, Save(version)
          PROVE  SchemaInv'
        <3>1. /\ query' = "idle" /\ snap' = NewSnapshot /\ seen' = {} /\ baseSeen' = seen
              /\ UNCHANGED db
            BY <2>6 DEF Save
        <3>2. Shape' /\ SnapSoFar'
            BY <3>1, Emptied DEF Shape, SnapSoFar
        <3>3. SeenFormed'
            BY <3>1 DEF SchemaInv, SeenFormed
        <3>. QED BY <2>6, <3>2, <3>3, SaveTrue DEF SchemaInv
    <2>7. \/ \E new : Change(new)
          \/ Capture \/ CaptureFails
          \/ \E part \in TableParts : CaptureTables(part)
          \/ CaptureEnums \/ CaptureSequences
          \/ \E version \in {1, 2} : Save(version)
        BY <1>2 DEF SchemaNext, CreateTable, CreatePartitioned, DropTable, AlterTable, AlterEnum, AlterSequence
    <2>. QED BY <2>2, <2>3, <2>4, <2>5, <2>6, <2>7
<1>. QED BY <1>1, <1>2

\* Every reachable state of captures and schema changes satisfies the invariant.
THEOREM SchemaInvariance == SchemaSpec => []SchemaInv
BY SchemaInvInit, SchemaInvNext, PTL DEF SchemaSpec

\* Diff (compare in schema/schema.go) is exact for every schema whose enums have no
\* label with a comma: it reports drift if and only if there is some, if both
\* snapshots were captured undisturbed.
THEOREM DriftDetectedHolds == SchemaSpec => []DriftDetected
<1>1. SchemaInv => DriftDetected
    <2>1. SUFFICES ASSUME SchemaInv, query = "captured", base # None,
                          NEW d \in baseSeen, NEW e \in seen, baseSeen = {d}, seen = {e},
                          PlainLabels(d), PlainLabels(e)
                   PROVE  Compare(base, snap) # {}
                            <=> View(d, base.version) # View(e, base.version)
        BY DEF DriftDetected, Captured, Exact
    <2>2. TrueOf(snap, {e}) /\ snap.version = 2
        BY <2>1, CapturedTrue
    <2>3. TrueOf(base, {d}) /\ base.version \in {1, 2}
        BY <2>1 DEF SchemaInv, BaseTrue
    <2>4. WellFormedCatalogue(d) /\ WellFormedCatalogue(e)
        BY <2>1 DEF SchemaInv, SeenFormed
    <2>. QED BY <2>1, <2>2, <2>3, <2>4, CompareExact
<1>. QED BY <1>1, SchemaInvariance, PTL

\* However the schema changes while Capture (schema/schema.go) queries it, each
\* part of the snapshot was true at some time during the capture.
THEOREM PartsTrueHolds == SchemaSpec => []PartsTrue
<1>1. SchemaInv => PartsTrue
    <2>1. SUFFICES ASSUME SchemaInv, query = "captured"
                   PROVE  PartsTrue
        BY DEF PartsTrue
    <2>2. TrueOf(snap, seen) /\ snap.version = 2
        BY <2>1, CapturedTrue
    <2>3. ASSUME NEW part \in TableParts, NEW d \in seen, Shows(snap.tables, part, d)
          PROVE  {r \in d[part] : r.table \notin Ignored} =
                    UNION {{[table |-> t, name |-> r.name, def |-> r.def] :
                                r \in snap.tables[t][part]} : t \in DOMAIN snap.tables}
        <3>. DEFINE Of(t) == {[table |-> t, name |-> r.name, def |-> r.def] :
                                r \in snap.tables[t][part]}
        <3>1. d[part] \in SUBSET [table : Tables, name : Identifiers, def : PartDefs(part)]
            BY <2>1, PartRows DEF SchemaInv, SeenFormed
        <3>2. ASSUME NEW r \in Kept(d[part])
              PROVE  r.table \in DOMAIN snap.tables /\ r \in Of(r.table)
            <4>1. r.table \in DOMAIN snap.tables
                BY <2>3 DEF Shows
            <4>2. [name |-> r.name, def |-> r.def] \in RowsOf(r.table, Kept(d[part]))
                BY DEF RowsOf
            <4>3. [name |-> r.name, def |-> r.def] \in snap.tables[r.table][part]
                BY <2>3, <4>1, <4>2 DEF Shows
            <4>4. PICK q \in snap.tables[r.table][part] : q.name = r.name /\ q.def = r.def
                BY <4>3
            <4>5. r = [table |-> r.table, name |-> q.name, def |-> q.def]
                BY <3>1, <4>4 DEF Kept
            <4>. QED BY <4>1, <4>4, <4>5
        <3>3. ASSUME NEW t \in DOMAIN snap.tables, NEW x \in Of(t)
              PROVE  x \in Kept(d[part])
            <4>1. PICK q \in snap.tables[t][part] : x = [table |-> t, name |-> q.name, def |-> q.def]
                OBVIOUS
            <4>2. q \in RowsOf(t, Kept(d[part]))
                BY <2>3 DEF Shows
            <4>3. PICK r \in Kept(d[part]) : r.table = t /\ q = [name |-> r.name, def |-> r.def]
                BY <4>2 DEF RowsOf
            <4>4. q.name = r.name /\ q.def = r.def
                BY <4>3
            <4>5. x = r
                BY <3>1, <4>1, <4>3, <4>4 DEF Kept
            <4>. QED BY <4>5
        <3>. HIDE DEF Of
        <3>4. Kept(d[part]) = UNION {Of(t) : t \in DOMAIN snap.tables}
            BY <3>2, <3>3
        <3>. QED BY <3>4 DEF Of, Kept
    <2>4. \A part \in TableParts : \E d \in seen : Shows(snap.tables, part, d)
        BY <2>2 DEF TrueOf
    <2>5. /\ \E d \in seen : snap.enums = d.enums
          /\ \E d \in seen : snap.sequences = d.sequences
        BY <2>2 DEF TrueOf
    <2>. QED BY <2>3, <2>4, <2>5 DEF PartsTrue
<1>. QED BY <1>1, SchemaInvariance, PTL
=============================================================================
