------------------------------ MODULE SchemaScan ------------------------------
(***************************************************************************)
(* What a scan finds out about a schema that may change meanwhile: the     *)
(* statements of the Oracle classes, one per step, the relationships the   *)
(* engine derives from their results (src/src/engine/ScanEngine.cpp), and  *)
(* the orphans it counts and samples.                                      *)
(*                                                                         *)
(* Each statement sees one committed version of the database.  Workers     *)
(* share nothing here but the database, so the tables are read one after   *)
(* the other, in any order: as the workers happen to finish.               *)
(***************************************************************************)
EXTENDS SchemaReader, RelationshipInference

CONSTANTS
    Versions,            \* of the database, a sequence of records
    SampleSize,          \* options.sampleSize
    InferRelationships,  \* options.inferRelationships
    MayFail,             \* statements may break down
    MaxChanges           \* bound: DDL and DML by others during the scan

ASSUME SchemaAssumption ==
    SampleSize \in Nat /\ MaxChanges \in Nat /\ InferRelationships \in BOOLEAN

\* The tables of a database have an end.
ASSUME DatabaseAssumption == \A v \in DOMAIN Versions : IsFiniteSet(Versions[v].rows)

VARIABLES
    now,            \* the version of the database
    changes,        \* history: how often it changed since the scan began
    failed,         \* history: a connection or a statement broke down
    place,          \* "list", "read", "derive", "check" or "done"
    names,          \* tables still to be read
    info,           \* the table that is read, and its parts so far
    tables,         \* result.tables
    relationships,  \* result.relationships
    unchecked,      \* those still to be checked
    counted,        \* the finding whose sample is still to be taken
    findings        \* result.consistencyFindings

vars == <<now, changes, failed, place, names, info, tables, relationships,
          unchecked, counted, findings>>

db == Versions[now]

\* The type of every variable.
TypeOK ==
    /\ now \in DOMAIN Versions
    /\ changes \in 0..MaxChanges
    /\ failed \in BOOLEAN
    /\ place \in {"list", "read", "derive", "check", "done"}
    /\ Cardinality(info) <= 1 /\ Cardinality(counted) <= 1
    /\ tables \in Seq(ToSet(tables))
    /\ \A t \in ToSet(tables) : DOMAIN t = {"name", "columns", "primaryKey",
                                    "uniqueKeys", "indexes", "approxRowCount"}
    /\ unchecked \subseteq relationships
    /\ \A f \in findings : f.relationship \in relationships \ unchecked

Init ==
    /\ now \in DOMAIN Versions
    /\ changes = 0 /\ failed = FALSE
    /\ place = "list"
    /\ names = {} /\ info = {} /\ tables = <<>>
    /\ relationships = {} /\ unchecked = {} /\ counted = {} /\ findings = {}

\* Somebody else commits.
Change ==
    /\ changes < MaxChanges /\ place # "done"
    /\ \E v \in DOMAIN Versions \ {now} : now' = v
    /\ changes' = changes + 1
    /\ UNCHANGED <<failed, place, names, info, tables, relationships,
                   unchecked, counted, findings>>

\* listTableNames()
ListTables ==
    /\ place = "list"
    /\ place' = "read"
    /\ names' = TableNames(db)
    /\ UNCHANGED <<now, changes, failed, info, tables, relationships,
                   unchecked, counted, findings>>

\* readTable() begins.
BeginTable(name) ==
    /\ place = "read" /\ info = {} /\ name \in names
    /\ names' = names \ {name}
    /\ info' = {[name |-> name]}
    /\ UNCHANGED <<now, changes, failed, place, tables, relationships,
                   unchecked, counted, findings>>

\* Its next statement; after the last one the table is part of the result.
ReadPart ==
    /\ \E t \in info :
          LET part == Parts[Cardinality(DOMAIN t)]
              more == [k \in DOMAIN t \cup {part} |->
                          IF k = part THEN Fetch(db, t.name, part) ELSE t[k]]
          IN  IF part = Last(Parts)
              THEN info' = {} /\ tables' = Append(tables, more)
              ELSE info' = {more} /\ UNCHANGED tables
    /\ UNCHANGED <<now, changes, failed, place, names, relationships,
                   unchecked, counted, findings>>

\* A statement of readTable() or checkOrphans() breaks down: the unit has no
\* result.
UnitFails ==
    /\ MayFail
    /\ info # {} \/ counted # {}
    /\ failed' = TRUE /\ info' = {} /\ counted' = {}
    /\ UNCHANGED <<now, changes, place, names, tables, relationships,
                   unchecked, findings>>

ReadAll ==
    /\ place = "read" /\ names = {} /\ info = {}
    /\ place' = "derive"
    /\ UNCHANGED <<now, changes, failed, names, info, tables, relationships,
                   unchecked, counted, findings>>

\* What is inferred, unless the user does not want it.
InferredFrom(list, declared) ==
    IF InferRelationships THEN Infer(list, declared) ELSE {}

\* The declared keys between tables of the result, and the inferred ones.
Derived(list) ==
    LET included == {list[i].name : i \in 1..Len(list)}
        declared == {r \in DeclaredForeignKeys(db) :
                        {r.parent, r.child} \subseteq included}
    IN  declared \cup InferredFrom(list, declared)

DeriveRelationships ==
    /\ place = "derive"
    /\ relationships' = Derived(tables)
    /\ unchecked' = relationships'
    /\ place' = "check"
    /\ UNCHANGED <<now, changes, failed, names, info, tables, counted, findings>>

\* checkOrphans(): its first statement counts, or Oracle refuses it.
CountOrphans(r) ==
    /\ place = "check" /\ counted = {} /\ r \in unchecked
    /\ unchecked' = unchecked \ {r}
    /\ LET finding == [relationship |-> r, sample |-> {},
                       orphans |-> Cardinality(Orphans(db, r))]
       IN  \/ /\ CanQuery(db, r)
              /\ IF finding.orphans > 0 /\ SampleSize > 0
                 THEN counted' = {finding} /\ UNCHANGED findings
                 ELSE findings' = findings \cup {finding} /\ UNCHANGED counted
           \/ ~CanQuery(db, r) /\ UNCHANGED <<counted, findings>>
    /\ UNCHANGED <<now, changes, failed, place, names, info, tables,
                   relationships>>

Least(m, n) == IF m < n THEN m ELSE n

\* A mistake the runs must notice: the sample is not limited.
SampleAll ==
    \E f \in counted :
        /\ CanQuery(db, f.relationship)
        /\ findings' = findings \cup {[f EXCEPT !.sample = Orphans(db, f.relationship)]}
        /\ counted' = {}
        /\ UNCHANGED <<now, changes, failed, place, names, info, tables,
                       relationships, unchecked>>

\* Its second statement: FETCH FIRST takes any rows, as many as it may.
SampleOrphans ==
    \E f \in counted :
        LET orphans == Orphans(db, f.relationship)
        IN  /\ CanQuery(db, f.relationship)
            /\ \E rows \in SUBSET orphans :
                  /\ Cardinality(rows) = Least(SampleSize, Cardinality(orphans))
                  /\ findings' = findings \cup {[f EXCEPT !.sample = rows]}
            /\ counted' = {}
            /\ UNCHANGED <<now, changes, failed, place, names, info, tables,
                           relationships, unchecked>>

\* The table or a column of it has been dropped since the count.
SampleRefused ==
    /\ \E f \in counted : ~CanQuery(db, f.relationship)
    /\ counted' = {}
    /\ UNCHANGED <<now, changes, failed, place, names, info, tables, relationships,
                   unchecked, findings>>

CheckedAll ==
    /\ place = "check" /\ unchecked = {} /\ counted = {}
    /\ place' = "done"
    /\ UNCHANGED <<now, changes, failed, names, info, tables, relationships,
                   unchecked, counted, findings>>

Next ==
    \/ Change
    \/ ListTables \/ ReadPart \/ UnitFails \/ ReadAll
    \/ \E name \in names : BeginTable(name)
    \/ DeriveRelationships
    \/ \E r \in unchecked : CountOrphans(r)
    \/ SampleOrphans \/ SampleRefused \/ CheckedAll
    \/ place = "done" /\ UNCHANGED vars

Spec == Init /\ [][Next]_vars

------------------------------------------------------------------------------
(* Properties *)

\* The scan is over, nothing failed and nobody changed the database.
Undisturbed == place = "done" /\ changes = 0 /\ ~failed

\* A reported key or index is that of the dictionary: it has its name, and each of
\* its columns at its position.
IsReported(item, object, places) ==
    /\ item.name = object.name /\ Len(item.columns) = Cardinality(places)
    /\ \A c \in places : item.columns[c.position] = c.column

\* The keys of table t and none but these.
KeysReported(keys, t, type) ==
    LET of == {k \in db.constraints :
                  k.owner = t.owner /\ k.table = t.name /\ k.type = type}
        Is(key, k) == IsReported(key, k, {c \in db.consColumns :
                                            c.owner = k.owner /\ c.name = k.name})
    IN  /\ \A k \in of : \E key \in keys : Is(key, k)
        /\ \A key \in keys : \E k \in of : Is(key, k)

\* The indexes on table t and none but these, whoever they belong to; those
\* that have columns.
IndexesReported(indexes, t) ==
    LET Places(x) == {c \in db.indColumns : c.owner = x.owner /\ c.name = x.name}
        on == {x \in db.indexes : /\ x.tableOwner = t.owner /\ x.table = t.name
                                  /\ Places(x) # {}}
        Is(index, x) == index.unique = x.unique /\ IsReported(index, x, Places(x))
    IN  /\ \A x \in on : \E index \in indexes : Is(index, x)
        /\ \A index \in indexes : \E x \in on : Is(index, x)

\* README.md:4: every table of the schema is in the report, once, and exactly with
\* the columns, the keys and the indexes that the dictionary has of it, each
\* where it puts it, whatever the order in which the views return their rows:
\* none is missing, and none is another table's of the same name.
TablesExact ==
    Undisturbed =>
        /\ Len(tables) = Cardinality(TablesOf(db, Owner))
        /\ \A t \in TablesOf(db, Owner) : \E i \in 1..Len(tables) :
              LET rows == {c \in db.columns : c.owner = t.owner /\ c.table = t.name}
              IN  /\ tables[i].name = t.name
                  /\ Len(tables[i].columns) = Cardinality(rows)
                  /\ \A c \in rows : tables[i].columns[c.id] = c
                  /\ KeysReported(tables[i].primaryKey, t, "P")
                  /\ KeysReported(tables[i].uniqueKeys, t, "U")
                  /\ IndexesReported(tables[i].indexes, t)

\* Every foreign key of the schema is in the report, once, and pairs the
\* columns the dictionary pairs, so that the orphans of a composite key are
\* counted against the right columns.
DeclaredKeysExact ==
    Undisturbed =>
        LET declared == {r \in relationships : r.kind = "declared"}
            keys == {k \in db.constraints :
                        k.owner = Owner /\ k.type = "R" /\ k.rOwner = Owner}
        IN  /\ Cardinality(declared) = Cardinality(keys)
            /\ \A k \in keys : \E r \in declared :
                  /\ r.name = k.name /\ r.child = k.table
                  /\ \A c, d \in db.consColumns :
                        /\ c.owner = Owner /\ c.name = k.name
                        /\ d.owner = Owner /\ d.name = k.rName
                        /\ c.position = d.position
                        => /\ r.childColumns[c.position] = c.column
                           /\ r.parentColumns[c.position] = d.column

\* The key a row has in some columns.
KeyOf(row, columns) == [i \in 1..Len(columns) |-> row.value[columns[i]]]

OwnRows(table) == {r \in db.rows : r.owner = Owner /\ r.table = table}

\* Count and sample are two statements: also with commits of others in between
\* no finding shows violating keys of a relationship it calls consistent, or
\* more of them than were asked for.
SamplesFit ==
    \A f \in findings : /\ f.sample # {} => f.orphans > 0
                        /\ Cardinality(f.sample) <= SampleSize

\* README "Salidas": a finding counts exactly the rows of the scanned schema
\* that its foreign key, enabled, would reject: those whose key is without
\* NULL and is no parent's key.  The sample is made of such rows, as many as
\* --sample-size allows; and so much of it as can be said holds whatever is
\* committed meanwhile.
FindingsExact ==
    /\ SamplesFit
    /\ Undisturbed =>
        \A r \in relationships : \E f \in findings :
            LET parents == {KeyOf(p, r.parentColumns) : p \in OwnRows(r.parent)}
                rejected == {c \in OwnRows(r.child) :
                    LET key == KeyOf(c, r.childColumns)
                    IN  Null \notin ToSet(key) /\ key \notin parents}
            IN  /\ f.relationship = r
                /\ f.orphans = Cardinality(rejected)
                /\ f.sample \subseteq rejected
                /\ Cardinality(f.sample) = Least(SampleSize, f.orphans)

\* A table may change between two statements of readTable(), so that its key
\* names a column it does not list: whatever was read, an inferred
\* relationship leads from a listed column to a listed key column, and never
\* starts from a column that a declared key of the report already has.
InferenceGrounded ==
    LET Lists(table, column) ==
            \E t \in ToSet(tables) :
                t.name = table /\ \E c \in ToSet(t.columns) : c.name = column
        declared == {r \in relationships : r.kind = "declared"}
    IN  \A r \in relationships \ declared :
            /\ Lists(r.child, r.childColumns[1])
            /\ Lists(r.parent, r.parentColumns[1])
            /\ \A d \in declared :
                  d.child = r.child => r.childColumns[1] \notin ToSet(d.childColumns)

\* result.tables is in the order in which the workers finished.  The inferred
\* relationships do not depend on it, so that a run and a resumed run report
\* the same ones, unless two names differ in nothing but their case.
OrderIrrelevant ==
    place = "check" =>
        LET n == Len(tables)
            declared == {r \in relationships : r.kind = "declared"}
        IN  \/ \E i, j \in 1..n : /\ i # j
                                   /\ ToUpper(tables[i].name) = ToUpper(tables[j].name)
            \/ \A p \in Bijection(1..n, 1..n) :
                  InferredFrom([i \in 1..n |-> tables[p[i]]], declared)
                      = relationships \ declared

------------------------------------------------------------------------------
(***************************************************************************)
(* The dictionary as TablesExact, DeclaredKeysExact and FindingsExact need *)
(* it: what Oracle promises of tables without invisible columns and views  *)
(* without constraints.                                                    *)
(***************************************************************************)

\* The rows have the numbers 1, 2, ... without a gap or a repetition.
Numbered(rows, at) ==
    /\ IsFiniteSet(rows) /\ IsInjective(at)
    /\ {at[r] : r \in rows} = 1..Cardinality(rows)

\* A key has columns, which are columns of its table.
KeyIsSound(v, k) ==
    /\ ColumnsOf(v, k) # {} /\ Numbered(ColumnsOf(v, k), Position(ColumnsOf(v, k)))
    /\ \E t \in v.tables : t.owner = k.owner /\ t.name = k.table
    /\ \A c \in ColumnsOf(v, k) :
          \E d \in ColumnsOfTable(v, k.owner, k.table) : d.name = c.column

\* A foreign key refers to a key with as many columns.
ForeignKeyIsSound(v, k) ==
    \E p \in v.constraints :
        /\ p.owner = k.rOwner /\ p.name = k.rName /\ p.type \in {"P", "U"}
        /\ Cardinality(ColumnsOf(v, p)) = Cardinality(ColumnsOf(v, k))

\* Names identify, and what has an order is numbered.
DictionaryIsSound ==
    \A i \in DOMAIN Versions :
        LET v == Versions[i]
        IN  /\ IsFiniteSet(v.tables) /\ IsFiniteSet(v.constraints)
            /\ \A t, u \in v.tables : t.owner = u.owner /\ t.name = u.name => t = u
            /\ \A k, l \in v.constraints : k.owner = l.owner /\ k.name = l.name => k = l
            /\ \A t \in v.tables :
                  LET rows == ColumnsOfTable(v, t.owner, t.name)
                  IN  Numbered(rows, ColumnId(rows))
            /\ \A x \in v.indexes :
                  Numbered(IndexColumns(v, x), Position(IndexColumns(v, x)))
            /\ \A k \in v.constraints :
                  /\ k.type \in {"P", "U", "R"} => KeyIsSound(v, k)
                  /\ k.type = "R" => ForeignKeyIsSound(v, k)

\* No foreign key leads out of the schema.
KeysStayInSchema ==
    \A i \in DOMAIN Versions : \A k \in Versions[i].constraints :
        k.owner = Owner /\ k.type = "R" => k.rOwner = Owner

\* An index of the schema is on a table of the schema, and no other schema has one
\* on it; fetchIndexes() takes it for granted.
IndexesStayInSchema ==
    \A i \in DOMAIN Versions : \A x \in Versions[i].indexes :
        x.owner = Owner <=> x.tableOwner = Owner

------------------------------------------------------------------------------
(***************************************************************************)
(* The inductive invariant: what every step relies on and re-establishes.  *)
(***************************************************************************)

\* What is known of a table of which so many parts have been read.
PartsRead(n) == {"name"} \cup {Parts[i] : i \in 1..n}

\* Phases: there is a table in hand only while tables are read, and a sample
\* is only taken of a relationship that has been taken up and has orphans.
PhaseInv ==
    /\ place # "read" => info = {}
    /\ place # "check" => counted = {}
    /\ place \in {"list", "read", "derive"} => relationships = {}
    /\ \A t \in info : \E n \in 0..4 : DOMAIN t = PartsRead(n)
    /\ counted \subseteq [relationship : relationships \ unchecked,
                          sample : {{}}, orphans : Nat \ {0}]

\* Derivation: the inferred relationships are those of the tables read, with
\* regard to the declared ones.
DerivedInv ==
    LET declared == {r \in relationships : r.kind = "declared"}
    IN  place \in {"check", "done"} =>
            relationships \ declared = InferredFrom(tables, declared)

\* Reading: as long as nobody interferes, each table of the schema is still to be
\* read, in hand, or in the report, once, with what the dictionary says of it,
\* and the relationships are those of the tables.
ReadInv ==
    /\ place = "list" => tables = <<>> /\ names = {} /\ info = {}
    /\ place # "list" =>
          names \cup {t.name : t \in info \cup ToSet(tables)} = TableNames(db)
    /\ place \notin {"list", "read"} => names = {}
    /\ \A t \in info \cup ToSet(tables) :
          /\ t.name \notin names
          /\ \A part \in DOMAIN t \ {"name"} : t[part] = Fetch(db, t.name, part)
    /\ \A t, u \in info : t = u
    /\ \A t \in info : \A u \in ToSet(tables) : t.name # u.name
    /\ \A i, j \in 1..Len(tables) : tables[i].name = tables[j].name => i = j
    /\ place \in {"check", "done"} => relationships = Derived(tables)

\* What is found out about a relationship.
Exact(f) ==
    LET orphans == Orphans(db, f.relationship)
    IN  /\ f.orphans = Cardinality(orphans) /\ f.sample \subseteq orphans
        /\ Cardinality(f.sample) = Least(SampleSize, f.orphans)

\* Checking: as long as nobody interferes, each relationship is still to be
\* checked, in hand, or has a finding that is exact.
CheckInv ==
    /\ place = "done" => unchecked = {}
    /\ \A f, g \in counted : f = g
    /\ \A f \in counted : f.orphans = Cardinality(Orphans(db, f.relationship))
    /\ \A r \in relationships \ unchecked :
          \/ \E f \in counted : f.relationship = r
          \/ \E f \in findings : f.relationship = r /\ Exact(f)

\* Nobody has changed the database, and nothing has failed.
Quiet == changes = 0 /\ ~failed

\* All of it: true at the start, and kept by every step.
InductiveInvariant == TypeOK /\ PhaseInv /\ SamplesFit /\ DerivedInv

==============================================================================
