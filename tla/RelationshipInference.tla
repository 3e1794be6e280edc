------------------------ MODULE RelationshipInference ------------------------
(***************************************************************************)
(* Relationships inferred from names and types                             *)
(* (src/src/relations/RelationshipInference.cpp).                           *)
(*                                                                         *)
(* A name is the sequence of its parts, the endings the code looks at being *)
(* parts of their own: <<"CUSTOMER", "_ID">>, <<"CATEGOR", "Y">>.           *)
(***************************************************************************)
EXTENDS Integers, SequencesExt

CONSTANT UpperOf   \* of the parts that are not upper-case: their upper case

ToUpper(name) ==
    [i \in 1..Len(name) |-> IF name[i] \in DOMAIN UpperOf THEN UpperOf[name[i]]
                                                          ELSE name[i]]

\* classify(); the precision is part of a TIMESTAMP's type name.
Classify(type) ==
    CASE type \in {"NUMBER", "FLOAT", "INTEGER", "BINARY_FLOAT",
                   "BINARY_DOUBLE", "LONG"} -> "numeric"
      [] type \in {"VARCHAR2", "CHAR", "NVARCHAR2", "NCHAR", "CLOB"} -> "text"
      [] type \in {"DATE", "TIMESTAMP", "TIMESTAMP(6)"} -> "date"
      [] OTHER -> "other"

\* The name without the S at its end.
WithoutS(stem) ==
    CASE Last(stem) = "S" -> <<Front(stem)>>
      [] Last(stem) = "ES" -> <<Append(Front(stem), "E")>>
      [] Last(stem) = "IES" -> <<Append(Front(stem), "IE")>>
      [] OTHER -> <<>>

\* nameVariants(): the part "Y" follows a letter other than A, E and O.
NameVariants(stem) ==
    <<stem>>
    \o (IF Last(stem) = "Y" THEN <<Append(Front(stem), "IES")>>
        ELSE <<Append(stem, "S"), Append(stem, "ES")>>)
    \o WithoutS(stem)
    \o (IF Last(stem) = "IES" THEN <<Append(Front(stem), "Y")>> ELSE <<>>)

\* candidateStemFromColumn(): a column that is nothing but "ID" has no stem.
Stem(column) ==
    LET name == ToUpper(column)
    IN  IF Len(name) > 1 /\ Last(name) \in {"_ID", "ID"} THEN Front(name) ELSE <<>>

\* byName: of two tables whose names differ in case only, the later one counts.
Named(tables, name) ==
    LET same == {i \in 1..Len(tables) : ToUpper(tables[i].name) = name}
    IN  {tables[i] : i \in {j \in same : \A k \in same : k <= j}}

AlreadyDeclared(declared, child, column) ==
    \E r \in declared :
        /\ ToUpper(r.child) = ToUpper(child)
        /\ \E c \in ToSet(r.childColumns) : ToUpper(c) = ToUpper(column)

\* A mistake the runs must notice: a key column that is not listed is one, too.
KeyColumnAssumed(info) ==
    {[name |-> key.columns[1], type |-> "NUMBER"] : key \in info.primaryKey}

\* findColumn() of the one column of the primary key; there may be none.
KeyColumn(info) ==
    {c \in ToSet(info.columns) : \E key \in info.primaryKey : key.columns = <<c.name>>}

\* The tables a name variant leads to, with their key column, if its type fits.
Fit(tables, column, variant) ==
    UNION {{<<t, k>> : k \in {c \in KeyColumn(t) :
                                 /\ Classify(c.type) = Classify(column.type)
                                 /\ Classify(c.type) # "other"}} :
           t \in Named(tables, variant)}

\* A mistake the runs must notice: the first table of the list that any variant
\* leads to.
MatchFirstListed(tables, column) ==
    LET stem == Stem(column.name)
        variants == IF stem = <<>> THEN <<>> ELSE NameVariants(stem)
        fits == UNION {Fit(tables, column, variants[i]) : i \in 1..Len(variants)}
        listed == {i \in 1..Len(tables) : \E m \in fits : m[1] = tables[i]}
    IN  {m \in fits : \E i \in listed : m[1] = tables[i] /\ \A j \in listed : i <= j}

\* What the first variant that leads anywhere leads to.
Match(tables, column) ==
    LET stem == Stem(column.name)
        variants == IF stem = <<>> THEN <<>> ELSE NameVariants(stem)
        fits == {i \in 1..Len(variants) : Fit(tables, column, variants[i]) # {}}
    IN  UNION {Fit(tables, column, variants[i]) :
                  i \in {j \in fits : \A k \in fits : j <= k}}

Inferred(child, column, match) ==
    [kind |-> "inferred",
     child |-> child.name, childColumns |-> <<column.name>>,
     parent |-> match[1].name, parentColumns |-> <<match[2].name>>]

\* inferRelationships(); the confidence is left out.
Infer(tables, declared) ==
    UNION {UNION {{Inferred(t, c, m) : m \in Match(tables, c)} :
               c \in {d \in ToSet(t.columns) :
                         ~AlreadyDeclared(declared, t.name, d.name)}} :
           t \in ToSet(tables)}

==============================================================================
