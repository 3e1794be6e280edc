----------------------------- MODULE SchemaReader -----------------------------
(***************************************************************************)
(* What one statement of the Oracle classes returns                        *)
(* (src/src/db/OracleSchemaReader.cpp, OracleConsistencyChecker.cpp).       *)
(*                                                                         *)
(* A database is a record of the data-dictionary views, each a set of      *)
(* rows, and of the rows of the tables.  A view's rows come in no order:   *)
(* what the code sorts is a sequence here, what it keeps in a map a set,   *)
(* and an optional value a set of at most one.  Comments, default values,  *)
(* precision and scale are left out.                                       *)
(***************************************************************************)
EXTENDS Integers, SequencesExt, FiniteSets

CONSTANTS
    Owner,        \* the schema that is scanned: options.schemaOwner
    SessionUser,  \* the user the connections belong to
    Null          \* SQL's NULL

TablesOf(db, owner) == {t \in db.tables : t.owner = owner}

\* listTableNames(); the order of the names is not used by anybody.
TableNames(db) == {t.name : t \in TablesOf(db, Owner)}

\* std::sort() by a number that no two rows share: the row that comes i-th is the
\* one up to which there are i rows.
InOrder(rows, at) ==
    [i \in 1..Cardinality(rows) |->
        CHOOSE r \in rows : Cardinality({q \in rows : at[q] <= at[r]}) = i]

ColumnsOfTable(db, owner, table) ==
    {c \in db.columns : c.owner = owner /\ c.table = table}

ColumnId(rows) == [c \in rows |-> c.id]

Position(rows) == [r \in rows |-> r.position]

\* fetchColumns()
FetchColumns(db, table) ==
    LET rows == ColumnsOfTable(db, Owner, table) IN InOrder(rows, ColumnId(rows))

\* A mistake the runs must notice: the rows are not sorted, and the view happened
\* to return them the other way round.
Unsorted(rows) ==
    [i \in 1..Cardinality(rows) |->
        InOrder(rows, [r \in rows |-> -r.position])[i].column]

\* The columns of rows that have a position, as a sequence.
Positioned(rows) ==
    [i \in 1..Cardinality(rows) |-> InOrder(rows, Position(rows))[i].column]

ColumnsOf(db, key) ==
    {c \in db.consColumns : c.owner = key.owner /\ c.name = key.name}

\* The constraints of a type; without columns the join has no row of them.
Keys(db, table, type) ==
    {k \in db.constraints : /\ k.owner = Owner /\ k.table = table
                            /\ k.type = type /\ ColumnsOf(db, k) # {}}

\* fetchPrimaryKey() and each of fetchUniqueKeys().
Key(db, k) == [name |-> k.name, columns |-> Positioned(ColumnsOf(db, k))]

FetchPrimaryKey(db, table) == {Key(db, k) : k \in Keys(db, table, "P")}

FetchUniqueKeys(db, table) == {Key(db, k) : k \in Keys(db, table, "U")}

IndexColumns(db, i) == {c \in db.indColumns : c.owner = i.owner /\ c.name = i.name}

\* fetchIndexes(): OWNER is the owner of the index.  Whose the table of that name
\* is, TABLE_OWNER, the statement does not ask.
FetchIndexes(db, table) ==
    {[name |-> i.name, unique |-> i.unique, columns |-> Positioned(IndexColumns(db, i))] :
        i \in {x \in db.indexes : /\ x.owner = Owner /\ x.table = table
                                  /\ IndexColumns(db, x) # {}}}

\* fetchApproxRowCount(): no statistics, or no such table.
FetchApproxRowCount(db, table) ==
    {t.numRows : t \in {x \in TablesOf(db, Owner) : x.name = table}} \ {Null}

\* A mistake the runs must notice: the last statement is forgotten.
PartsShort == <<"columns", "primaryKey", "uniqueKeys", "indexes">>

\* The statements of readTable() whose result is modelled, in their order.
Parts == <<"columns", "primaryKey", "uniqueKeys", "indexes", "approxRowCount">>

Fetch(db, table, part) ==
    CASE part = "columns" -> FetchColumns(db, table)
      [] part = "primaryKey" -> FetchPrimaryKey(db, table)
      [] part = "uniqueKeys" -> FetchUniqueKeys(db, table)
      [] part = "indexes" -> FetchIndexes(db, table)
      [] part = "approxRowCount" -> FetchApproxRowCount(db, table)

------------------------------------------------------------------------------
(* Foreign keys *)

\* The rows of the join of listDeclaredForeignKeysImpl() for constraint k: the
\* parent's columns are those at the same positions.
Referenced(db, k) == CHOOSE r \in db.constraints : r.owner = k.rOwner /\ r.name = k.rName

ForeignKeyRows(db, k) ==
    LET p == Referenced(db, k)
        pairs == {e \in ColumnsOf(db, k) \X ColumnsOf(db, p) :
                     e[1].position = e[2].position}
    IN  {[column |-> e[1].column, parentTable |-> p.table,
          parentColumn |-> e[2].column, position |-> e[1].position] : e \in pairs}

\* A mistake the runs must notice: the parent's columns in the order of their
\* names, the child's in the order of their positions.
ForeignKeyByName(db, k) ==
    LET rows == ForeignKeyRows(db, k)
        sorted == InOrder(rows, [r \in rows |-> -r.position])
    IN  [name |-> k.name, kind |-> "declared",
         child |-> k.table, childColumns |-> Positioned(rows),
         parent |-> sorted[1].parentTable,
         parentColumns |-> [i \in 1..Cardinality(rows) |-> sorted[i].parentColumn]]

\* The relationship made of them.
ForeignKey(db, k) ==
    LET rows == ForeignKeyRows(db, k)
        sorted == InOrder(rows, Position(rows))
    IN  [name |-> k.name, kind |-> "declared",
         child |-> k.table, childColumns |-> Positioned(rows),
         parent |-> sorted[1].parentTable,
         parentColumns |-> [i \in 1..Cardinality(rows) |-> sorted[i].parentColumn]]

DeclaredForeignKeys(db) ==
    {ForeignKey(db, k) : k \in {f \in db.constraints :
                                   /\ f.owner = Owner /\ f.type = "R"
                                   /\ ForeignKeyRows(db, f) # {}}}

------------------------------------------------------------------------------
(* Orphans *)

\* The queries name a table without its owner: it is the session user's.
RowsOf(db, table) == {r \in db.rows : r.owner = SessionUser /\ r.table = table}

HasColumns(db, table, columns) ==
    \A i \in 1..Len(columns) :
        \E c \in db.columns : /\ c.owner = SessionUser /\ c.table = table
                              /\ c.name = columns[i]

\* Otherwise Oracle refuses the statement.
CanQuery(db, r) == /\ HasColumns(db, r.child, r.childColumns)
                   /\ HasColumns(db, r.parent, r.parentColumns)

\* buildJoinClause(): NULL equals nothing.
Joins(r, p, c) ==
    \A i \in 1..Len(r.parentColumns) :
        /\ p.value[r.parentColumns[i]] # Null
        /\ p.value[r.parentColumns[i]] = c.value[r.childColumns[i]]

\* A mistake the runs must notice: a key with a NULL in it is an orphan too.
OrphansWithNull(db, r) ==
    {c \in RowsOf(db, r.child) : \A p \in RowsOf(db, r.parent) : ~Joins(r, p, c)}

\* buildAntiJoinWhere()
Orphans(db, r) ==
    {c \in RowsOf(db, r.child) :
        /\ \A i \in 1..Len(r.childColumns) : c.value[r.childColumns[i]] # Null
        /\ \A p \in RowsOf(db, r.parent) : ~Joins(r, p, c)}

==============================================================================
