---------------------------- MODULE SchemaScanProofs ---------------------------
(***************************************************************************)
(* Theorems about SchemaScan, for every sequence of versions of the        *)
(* database, however often and wherever it changes during the scan.        *)
(***************************************************************************)
EXTENDS SchemaScan, FiniteSetTheorems, SequenceTheorems, TLAPS

------------------------------------------------------------------------------
(* Inference *)

\* A table found by its name is one of the list.
LEMMA NamedListed ==
    ASSUME NEW S, NEW list \in Seq(S), NEW name, NEW t \in Named(list, name)
    PROVE  t \in ToSet(list)
BY DEF Named, ToSet

\* What a column matches is a listed table and a column that it lists.
LEMMA MatchListed ==
    ASSUME NEW S, NEW list \in Seq(S), NEW column, NEW m \in Match(list, column)
    PROVE  m[1] \in ToSet(list) /\ m[2] \in ToSet(m[1].columns)
<1>1. PICK variant : m \in Fit(list, column, variant)
  BY DEF Match
<1>2. PICK t \in Named(list, variant) : \E k \in KeyColumn(t) : m = <<t, k>>
  BY <1>1 DEF Fit
<1>3. PICK k \in KeyColumn(t) : m = <<t, k>>
  BY <1>2
<1>4. t \in ToSet(list)
  BY NamedListed
<1>5. k \in ToSet(t.columns)
  BY DEF KeyColumn
<1>6. QED
  BY <1>3, <1>4, <1>5

\* Where an inferred relationship comes from.
LEMMA InferListed ==
    ASSUME NEW S, NEW list \in Seq(S), NEW declared, NEW r \in Infer(list, declared)
    PROVE  \E t \in ToSet(list) : \E c \in ToSet(t.columns) :
              /\ ~AlreadyDeclared(declared, t.name, c.name)
              /\ \E u \in ToSet(list) : \E k \in ToSet(u.columns) :
                    r = [kind |-> "inferred",
                         child |-> t.name, childColumns |-> <<c.name>>,
                         parent |-> u.name, parentColumns |-> <<k.name>>]
<1>1. PICK t \in ToSet(list) :
         r \in UNION {{Inferred(t, c, m) : m \in Match(list, c)} :
                         c \in {d \in ToSet(t.columns) :
                                   ~AlreadyDeclared(declared, t.name, d.name)}}
  BY Zenon DEF Infer
<1>2. PICK c \in ToSet(t.columns) :
         /\ ~AlreadyDeclared(declared, t.name, c.name)
         /\ r \in {Inferred(t, c, m) : m \in Match(list, c)}
  BY <1>1, Zenon
<1>3. PICK m \in Match(list, c) : r = Inferred(t, c, m)
  BY <1>2, Zenon
<1>4. m[1] \in ToSet(list) /\ m[2] \in ToSet(m[1].columns)
  BY MatchListed
<1>5. QED
  BY <1>2, <1>3, <1>4, Zenon DEF Inferred

------------------------------------------------------------------------------
(* The order of the tables *)

\* A rearranged list has the same tables.
LEMMA RearrangedSame ==
    ASSUME NEW S, NEW list \in Seq(S), NEW p \in Bijection(1..Len(list), 1..Len(list)),
           NEW other, other = [i \in 1..Len(list) |-> list[p[i]]]
    PROVE  /\ other \in Seq(S) /\ Len(other) = Len(list)
           /\ ToSet(other) = ToSet(list)
<1> DEFINE N == 1..Len(list)
<1>1. p \in [N -> N] /\ \A j \in N : \E i \in N : p[i] = j
  BY DEF Bijection, Injection, Surjection
<1>2. other \in Seq(S) /\ Len(other) = Len(list)
  BY <1>1
<1>3. DOMAIN list = N /\ DOMAIN other = N
  OBVIOUS
<1>4. ToSet(other) \subseteq ToSet(list)
  BY <1>1, <1>3 DEF ToSet
<1>5. ToSet(list) \subseteq ToSet(other)
  BY <1>1, <1>3 DEF ToSet
<1>6. QED
  BY <1>2, <1>4, <1>5

\* Where no two names differ in case only, a name leads to the same tables.
LEMMA RearrangedNamed ==
    ASSUME NEW S, NEW list \in Seq(S), NEW p \in Bijection(1..Len(list), 1..Len(list)),
           NEW other, other = [i \in 1..Len(list) |-> list[p[i]]],
           \A i, j \in 1..Len(list) :
              i # j => ToUpper(list[i].name) # ToUpper(list[j].name),
           NEW name
    PROVE  Named(other, name) = Named(list, name)
<1> DEFINE N == 1..Len(list)
<1>1. p \in [N -> N] /\ \A j \in N : \E i \in N : p[i] = j
  BY DEF Bijection, Injection, Surjection
<1>2. \A i, j \in N : i # j => p[i] # p[j]
  BY DEF Bijection, Injection, IsInjective
<1>3. Len(other) = Len(list) /\ Len(list) \in Nat
  BY RearrangedSame
<1>4. \A t : t \in Named(list, name) <=>
               \E i \in N : ToUpper(list[i].name) = name /\ t = list[i]
  BY DEF Named
<1>5. \A i, j \in N : i # j => ToUpper(other[i].name) # ToUpper(other[j].name)
  BY <1>1, <1>2
<1>6. \A t : t \in Named(other, name) <=>
               \E i \in N : ToUpper(other[i].name) = name /\ t = other[i]
  <2>1. \A t \in Named(other, name) :
           \E i \in N : ToUpper(other[i].name) = name /\ t = other[i]
    BY <1>3 DEF Named
  <2>2. ASSUME NEW i \in N, ToUpper(other[i].name) = name
        PROVE  other[i] \in Named(other, name)
    <3>1. \A k \in N : ToUpper(other[k].name) = name => k = i
      BY <1>5, <2>2
    <3>2. {k \in N : ToUpper(other[k].name) = name} = {i}
      BY <2>2, <3>1
    <3>3. {k \in 1..Len(other) : ToUpper(other[k].name) = name} = {i}
      BY <1>3, <3>2
    <3>4. i \in {j \in {i} : \A k \in {i} : k <= j}
      OBVIOUS
    <3> DEFINE same == {k \in 1..Len(other) : ToUpper(other[k].name) = name}
    <3>5. Named(other, name) = {other[k] : k \in {j \in same : \A q \in same : q <= j}}
      BY DEF Named
    <3>6. i \in {j \in same : \A q \in same : q <= j}
      BY <3>3, <3>4, Zenon
    <3> HIDE DEF same
    <3>7. QED
      BY <3>5, <3>6
  <2>3. QED
    BY <2>1, <2>2
<1>7. \A t : t \in Named(other, name) <=> t \in Named(list, name)
  <2>1. ASSUME NEW i \in N
        PROVE  \E k \in N : other[k] = list[i]
    BY <1>1
  <2>2. \A k \in N : p[k] \in N /\ other[k] = list[p[k]]
    BY <1>1
  <2>3. ASSUME NEW t \in Named(other, name) PROVE t \in Named(list, name)
    BY <1>4, <1>6, <2>2
  <2>4. ASSUME NEW t \in Named(list, name) PROVE t \in Named(other, name)
    <3>1. PICK i \in N : ToUpper(list[i].name) = name /\ t = list[i]
      BY <1>4
    <3>2. PICK k \in N : other[k] = list[i]
      BY <2>1
    <3>3. QED
      BY <1>6, <3>1, <3>2
  <2>5. QED
    BY <2>3, <2>4
<1>8. QED
  BY <1>7

\* What is inferred depends on the tables and on what names lead to.
LEMMA InferSame ==
    ASSUME NEW list, NEW other, ToSet(other) = ToSet(list),
           \A name : Named(other, name) = Named(list, name),
           NEW declared
    PROVE  Infer(other, declared) = Infer(list, declared)
<1>1. \A column, variant : Fit(other, column, variant) = Fit(list, column, variant)
  BY DEF Fit
<1>2. ASSUME NEW column PROVE Match(other, column) = Match(list, column)
  <2> DEFINE stem == Stem(column.name)
             variants == IF stem = <<>> THEN <<>> ELSE NameVariants(stem)
             fits(l) == {i \in 1..Len(variants) : Fit(l, column, variants[i]) # {}}
             first(l) == UNION {Fit(l, column, variants[i]) :
                                   i \in {j \in fits(l) : \A k \in fits(l) : j <= k}}
  <2>1. Match(other, column) = first(other) /\ Match(list, column) = first(list)
    BY DEF Match
  <2> HIDE DEF variants
  <2>2. fits(other) = fits(list)
    BY <1>1
  <2>3. first(other) = first(list)
    BY <1>1, <2>2, Zenon
  <2>4. QED
    BY <2>1, <2>3
<1>3. QED
  BY <1>2 DEF Infer

------------------------------------------------------------------------------
(* Numbers of parts and rows *)

\* Each statement of readTable() adds a part to those that were read.
LEMMA PartsCount ==
    ASSUME NEW n \in 0..4
    PROVE  /\ Cardinality(PartsRead(n)) = n + 1
           /\ PartsRead(n) \cup {Parts[n + 1]} = PartsRead(n + 1)
           /\ Parts[n + 1] = Last(Parts) <=> n = 4
<1>1. /\ PartsRead(0) = {"name"}
      /\ PartsRead(1) = PartsRead(0) \cup {"columns"}
      /\ PartsRead(2) = PartsRead(1) \cup {"primaryKey"}
      /\ PartsRead(3) = PartsRead(2) \cup {"uniqueKeys"}
      /\ PartsRead(4) = PartsRead(3) \cup {"indexes"}
      /\ PartsRead(5) = PartsRead(4) \cup {"approxRowCount"}
  BY DEF PartsRead, Parts
<1>2. Cardinality(PartsRead(0)) = 1 /\ IsFiniteSet(PartsRead(0))
  <2>1. IsFiniteSet({"name"}) /\ Cardinality({"name"}) = 1
    BY FS_Singleton, Zenon
  <2>2. PartsRead(0) = {"name"}
    BY <1>1
  <2>3. QED
    BY <2>1, <2>2
<1>3. Cardinality(PartsRead(1)) = 2 /\ IsFiniteSet(PartsRead(1))
  <2>1. "columns" \notin PartsRead(0) /\ PartsRead(1) = PartsRead(0) \cup {"columns"}
    BY <1>1
  <2>2. QED
    BY ONLY <1>2, <2>1, FS_AddElement
<1>4. Cardinality(PartsRead(2)) = 3 /\ IsFiniteSet(PartsRead(2))
  <2>1. "primaryKey" \notin PartsRead(1) /\ PartsRead(2) = PartsRead(1) \cup {"primaryKey"}
    BY <1>1
  <2>2. QED
    BY ONLY <1>3, <2>1, FS_AddElement
<1>5. Cardinality(PartsRead(3)) = 4 /\ IsFiniteSet(PartsRead(3))
  <2>1. "uniqueKeys" \notin PartsRead(2) /\ PartsRead(3) = PartsRead(2) \cup {"uniqueKeys"}
    BY <1>1
  <2>2. QED
    BY ONLY <1>4, <2>1, FS_AddElement
<1>6. Cardinality(PartsRead(4)) = 5 /\ IsFiniteSet(PartsRead(4))
  <2>1. "indexes" \notin PartsRead(3) /\ PartsRead(4) = PartsRead(3) \cup {"indexes"}
    BY <1>1
  <2>2. QED
    BY ONLY <1>5, <2>1, FS_AddElement
<1>7. Parts[n + 1] = Last(Parts) <=> n = 4
  BY DEF Parts, Last
<1>8. n \in {0, 1, 2, 3, 4}
  OBVIOUS
<1>9. /\ Parts[1] = "columns" /\ Parts[2] = "primaryKey" /\ Parts[3] = "uniqueKeys"
      /\ Parts[4] = "indexes" /\ Parts[5] = "approxRowCount"
  BY DEF Parts
<1>10. PartsRead(n) \cup {Parts[n + 1]} = PartsRead(n + 1)
  BY <1>1, <1>8, <1>9
<1>11. Cardinality(PartsRead(n)) = n + 1
  BY <1>2, <1>3, <1>4, <1>5, <1>6, <1>8
<1>12. QED
  BY <1>7, <1>10, <1>11

\* A table more in a list.
LEMMA AppendListed ==
    ASSUME NEW s, s \in Seq(ToSet(s)), NEW e
    PROVE  /\ ToSet(Append(s, e)) = ToSet(s) \cup {e}
           /\ Append(s, e) \in Seq(ToSet(Append(s, e)))
<1> DEFINE T == ToSet(s) \cup {e}
<1>1. Append(s, e) \in Seq(T) /\ DOMAIN Append(s, e) = 1..(Len(s) + 1)
  BY DEF ToSet
<1>2. DOMAIN s = 1..Len(s) /\ Len(s) \in Nat
  OBVIOUS
<1>3. \A i \in 1..Len(s) : Append(s, e)[i] = s[i]
  OBVIOUS
<1>4. Append(s, e)[Len(s) + 1] = e
  OBVIOUS
<1>5. ToSet(Append(s, e)) = T
  <2>1. \A x \in ToSet(Append(s, e)) : x \in T
    BY <1>1, <1>2, <1>3, <1>4 DEF ToSet
  <2>2. \A x \in T : x \in ToSet(Append(s, e))
    BY <1>1, <1>2, <1>3, <1>4 DEF ToSet
  <2>3. QED
    BY <2>1, <2>2
<1>6. QED
  BY <1>1, <1>5

------------------------------------------------------------------------------
(* The inductive invariant *)

\* readTable() goes on: the table in hand has one part more, and after the last
\* one it is part of the result.
LEMMA ReadPartOutcome ==
    ASSUME PhaseInv, ReadPart
    PROVE  \E t \in info, n \in 0..4 : \E more :
              /\ DOMAIN t = PartsRead(n) /\ DOMAIN more = PartsRead(n + 1)
              /\ more.name = t.name
              /\ \A p \in DOMAIN more \ {"name"} :
                    more[p] = Fetch(db, t.name, p) \/ (p \in DOMAIN t /\ more[p] = t[p])
              /\ IF n = 4 THEN info' = {} /\ tables' = Append(tables, more)
                          ELSE info' = {more} /\ UNCHANGED tables
<1>1. PICK t \in info :
         LET part == Parts[Cardinality(DOMAIN t)]
             more == [k \in DOMAIN t \cup {part} |->
                         IF k = part THEN Fetch(db, t.name, part) ELSE t[k]]
         IN  IF part = Last(Parts)
             THEN info' = {} /\ tables' = Append(tables, more)
             ELSE info' = {more} /\ UNCHANGED tables
  BY Zenon DEF ReadPart
<1>2. PICK n \in 0..4 : DOMAIN t = PartsRead(n)
  BY DEF PhaseInv
<1> DEFINE part == Parts[n + 1]
           more == [k \in DOMAIN t \cup {part} |->
                       IF k = part THEN Fetch(db, t.name, part) ELSE t[k]]
<1>3. Cardinality(DOMAIN t) = n + 1
  BY <1>2, PartsCount
<1>4. IF part = Last(Parts)
      THEN info' = {} /\ tables' = Append(tables, more)
      ELSE info' = {more} /\ UNCHANGED tables
  BY <1>1, <1>3, Zenon
<1>5. "name" \in DOMAIN t /\ part # "name"
  BY <1>2 DEF PartsRead, Parts
<1>6. /\ DOMAIN more = PartsRead(n) \cup {part} /\ more.name = t.name
      /\ \A p \in DOMAIN more \ {"name"} :
            more[p] = Fetch(db, t.name, p) \/ (p \in DOMAIN t /\ more[p] = t[p])
  BY <1>2, <1>5
<1> HIDE DEF more
<1>7. DOMAIN more = PartsRead(n + 1) /\ (part = Last(Parts) <=> n = 4)
  BY <1>6, PartsCount
<1>8. IF n = 4 THEN info' = {} /\ tables' = Append(tables, more)
              ELSE info' = {more} /\ UNCHANGED tables
  BY <1>4, <1>7
<1>9. QED
  BY <1>2, <1>6, <1>7, <1>8

\* readTable() goes on: one part more, or one table more.
LEMMA ReadPartStep ==
    ASSUME TypeOK, PhaseInv, ReadPart
    PROVE  /\ Cardinality(info') <= 1
           /\ tables' \in Seq(ToSet(tables'))
           /\ \A t \in ToSet(tables') : DOMAIN t = {"name", "columns", "primaryKey",
                                            "uniqueKeys", "indexes", "approxRowCount"}
           /\ \A t \in info' : \E n \in 0..4 : DOMAIN t = PartsRead(n)
           /\ place = "read"
<1>1. PICK t \in info, n \in 0..4 : \E more :
         /\ DOMAIN t = PartsRead(n) /\ DOMAIN more = PartsRead(n + 1)
         /\ more.name = t.name
         /\ \A p \in DOMAIN more \ {"name"} :
               more[p] = Fetch(db, t.name, p) \/ (p \in DOMAIN t /\ more[p] = t[p])
         /\ IF n = 4 THEN info' = {} /\ tables' = Append(tables, more)
                     ELSE info' = {more} /\ UNCHANGED tables
  BY ReadPartOutcome
<1>2. PICK more :
         /\ DOMAIN t = PartsRead(n) /\ DOMAIN more = PartsRead(n + 1)
         /\ more.name = t.name
         /\ \A p \in DOMAIN more \ {"name"} :
               more[p] = Fetch(db, t.name, p) \/ (p \in DOMAIN t /\ more[p] = t[p])
         /\ IF n = 4 THEN info' = {} /\ tables' = Append(tables, more)
                     ELSE info' = {more} /\ UNCHANGED tables
  BY <1>1
<1>3. place = "read"
  BY DEF PhaseInv
<1>4. /\ tables \in Seq(ToSet(tables))
      /\ \A u \in ToSet(tables) : DOMAIN u = {"name", "columns", "primaryKey",
                                      "uniqueKeys", "indexes", "approxRowCount"}
  BY DEF TypeOK
<1>5. CASE n = 4
  <2>1. info' = {} /\ tables' = Append(tables, more)
    BY <1>2, <1>5
  <2>2. PartsRead(5) = {"name", "columns", "primaryKey", "uniqueKeys", "indexes",
                        "approxRowCount"}
    BY DEF PartsRead, Parts
  <2>3. /\ ToSet(Append(tables, more)) = ToSet(tables) \cup {more}
        /\ Append(tables, more) \in Seq(ToSet(Append(tables, more)))
    BY <1>4, AppendListed
  <2>4. tables' \in Seq(ToSet(tables')) /\ ToSet(tables') = ToSet(tables) \cup {more}
    BY <2>1, <2>3
  <2>5. Cardinality(info') <= 1
    BY <2>1, FS_EmptySet
  <2>6. DOMAIN more = PartsRead(5)
    BY <1>2, <1>5
  <2>7. QED
    BY <1>3, <1>4, <2>1, <2>2, <2>4, <2>5, <2>6
<1>6. CASE n # 4
  <2>1. info' = {more} /\ tables' = tables
    BY <1>2, <1>6
  <2>2. Cardinality(info') <= 1
    <3>1. Cardinality({more}) = 1
      BY FS_Singleton, Zenon
    <3>2. QED
      BY <2>1, <3>1
  <2>3. n + 1 \in 0..4
    BY <1>6
  <2>4. \A u \in info' : \E m \in 0..4 : DOMAIN u = PartsRead(m)
    BY <1>2, <2>1, <2>3
  <2>5. QED
    BY <1>3, <1>4, <2>1, <2>2, <2>4
<1>7. QED
  BY <1>5, <1>6

\* There is no end of orphans only if there is none of rows.
LEMMA OrphansCount ==
    ASSUME TypeOK, NEW r
    PROVE  Cardinality(Orphans(db, r)) \in Nat
<1>1. IsFiniteSet(db.rows)
  BY DatabaseAssumption DEF db, TypeOK
<1>2. Orphans(db, r) \subseteq db.rows
  BY DEF Orphans, RowsOf
<1>3. QED
  BY <1>1, <1>2, FS_Subset, FS_CardinalityType

\* Taking up a relationship: its orphans are counted, or Oracle refuses to.
LEMMA CountStep ==
    ASSUME TypeOK, NEW r \in unchecked, CountOrphans(r)
    PROVE  /\ place = "check" /\ counted = {} /\ unchecked' = unchecked \ {r}
           /\ UNCHANGED <<now, changes, failed, place, names, info, tables, relationships>>
           /\ \/ UNCHANGED <<counted, findings>>
              \/ \E finding \in [relationship : {r}, sample : {{}}, orphans : Nat] :
                    \/ counted' = {finding} /\ finding.orphans > 0 /\ UNCHANGED findings
                    \/ findings' = findings \cup {finding} /\ UNCHANGED counted
<1> DEFINE finding == [relationship |-> r, sample |-> {},
                       orphans |-> Cardinality(Orphans(db, r))]
<1>1. finding \in [relationship : {r}, sample : {{}}, orphans : Nat]
  BY OrphansCount
<1>2. \/ UNCHANGED <<counted, findings>>
      \/ counted' = {finding} /\ finding.orphans > 0 /\ UNCHANGED findings
      \/ findings' = findings \cup {finding} /\ UNCHANGED counted
  BY Zenon DEF CountOrphans
<1>3. /\ place = "check" /\ counted = {} /\ unchecked' = unchecked \ {r}
      /\ UNCHANGED <<now, changes, failed, place, names, info, tables, relationships>>
  BY DEF CountOrphans
<1> HIDE DEF finding
<1>4. QED
  BY <1>1, <1>2, <1>3, Zenon

\* Sampling the orphans of the relationship that was counted, among those there
\* are by now.
LEMMA SampleStep ==
    ASSUME TypeOK, PhaseInv, SampleOrphans
    PROVE  /\ counted' = {} /\ place = "check"
           /\ UNCHANGED <<now, changes, failed, place, names, info, tables,
                          relationships, unchecked>>
           /\ \E finding :
                 /\ finding.relationship \in relationships \ unchecked
                 /\ finding.orphans > 0 /\ Cardinality(finding.sample) <= SampleSize
                 /\ findings' = findings \cup {finding}
<1>1. PICK f \in counted :
         LET orphans == Orphans(db, f.relationship)
         IN  /\ \E rows \in SUBSET orphans :
                  /\ Cardinality(rows) = Least(SampleSize, Cardinality(orphans))
                  /\ findings' = findings \cup {[f EXCEPT !.sample = rows]}
             /\ counted' = {}
             /\ UNCHANGED <<now, changes, failed, place, names, info, tables,
                            relationships, unchecked>>
  BY Zenon DEF SampleOrphans
<1>2. PICK rows :
         /\ Cardinality(rows) = Least(SampleSize, Cardinality(Orphans(db, f.relationship)))
         /\ findings' = findings \cup {[f EXCEPT !.sample = rows]}
  BY <1>1, Zenon
<1>3. Cardinality(rows) <= SampleSize
  <2>1. Cardinality(Orphans(db, f.relationship)) \in Nat
    BY OrphansCount
  <2>2. QED
    BY <1>2, <2>1, SchemaAssumption DEF Least
<1>4. f \in [relationship : relationships \ unchecked, sample : {{}}, orphans : Nat \ {0}]
  BY DEF PhaseInv
<1> DEFINE finding == [f EXCEPT !.sample = rows]
<1>5. /\ finding.relationship \in relationships \ unchecked
      /\ finding.orphans > 0 /\ finding.sample = rows
  BY <1>4
<1>6. place = "check"
  BY DEF PhaseInv
<1> HIDE DEF finding
<1>7. findings' = findings \cup {finding}
  BY <1>2 DEF finding
<1>8. Cardinality(finding.sample) <= SampleSize
  BY <1>3, <1>5
<1>9. QED
  BY <1>1, <1>5, <1>6, <1>7, <1>8, Zenon

\* The type of every variable is kept.
LEMMA TypeStep ==
    ASSUME TypeOK, PhaseInv, [Next]_vars
    PROVE  TypeOK'
<1>1. CASE Change
  BY <1>1, SchemaAssumption DEF Change, TypeOK
<1>2. CASE ListTables
  BY <1>2 DEF ListTables, TypeOK
<1>3. CASE ReadPart
  <2>1. /\ Cardinality(info') <= 1 /\ tables' \in Seq(ToSet(tables'))
        /\ \A t \in ToSet(tables') : DOMAIN t = {"name", "columns", "primaryKey",
                                         "uniqueKeys", "indexes", "approxRowCount"}
    BY <1>3, ReadPartStep
  <2>2. UNCHANGED <<now, changes, failed, place, names, relationships, unchecked, counted,
                    findings>>
    BY <1>3 DEF ReadPart
  <2>3. QED
    BY <2>1, <2>2 DEF TypeOK
<1>4. CASE UnitFails
  <2>1. Cardinality(info') <= 1 /\ Cardinality(counted') <= 1
    BY <1>4, FS_EmptySet DEF UnitFails
  <2>2. QED
    BY <1>4, <2>1 DEF UnitFails, TypeOK
<1>5. CASE ReadAll
  BY <1>5 DEF ReadAll, TypeOK
<1>6. ASSUME NEW name \in names, BeginTable(name) PROVE TypeOK'
  <2>1. Cardinality({[name |-> name]}) = 1
    BY FS_Singleton, Zenon
  <2>2. Cardinality(info') <= 1
    BY <1>6, <2>1 DEF BeginTable
  <2>3. UNCHANGED <<now, changes, failed, place, tables, relationships, unchecked, counted,
                    findings>>
    BY <1>6 DEF BeginTable
  <2>4. QED
    BY <2>2, <2>3 DEF TypeOK
<1>7. CASE DeriveRelationships
  <2>1. relationships = {}
    BY <1>7 DEF DeriveRelationships, PhaseInv
  <2>2. findings = {}
    BY <2>1 DEF TypeOK
  <2>3. QED
    BY <1>7, <2>2 DEF DeriveRelationships, TypeOK
<1>8. ASSUME NEW r \in unchecked, CountOrphans(r) PROVE TypeOK'
  <2>1. /\ counted = {} /\ unchecked' = unchecked \ {r} /\ r \in relationships
        /\ UNCHANGED <<now, changes, failed, place, names, info, tables, relationships>>
    BY <1>8, CountStep DEF TypeOK
  <2>2. CASE UNCHANGED <<counted, findings>>
    BY <2>1, <2>2 DEF TypeOK
  <2>3. ASSUME NEW finding, finding.relationship = r, counted' = {finding},
               UNCHANGED findings
        PROVE  TypeOK'
    <3>1. Cardinality({finding}) = 1
      BY FS_Singleton, Zenon
    <3>2. Cardinality(counted') <= 1
      BY <2>3, <3>1
    <3>3. QED
      BY <2>1, <2>3, <3>2 DEF TypeOK
  <2>4. ASSUME NEW finding, finding.relationship = r, findings' = findings \cup {finding},
               UNCHANGED counted
        PROVE  TypeOK'
    BY <2>1, <2>4 DEF TypeOK
  <2>5. QED
    BY <1>8, <2>2, <2>3, <2>4, CountStep
<1>9. CASE SampleOrphans
  <2>1. PICK finding :
           /\ finding.relationship \in relationships \ unchecked
           /\ findings' = findings \cup {finding}
    BY <1>9, SampleStep
  <2>2. /\ counted' = {}
        /\ UNCHANGED <<now, changes, failed, place, names, info, tables, relationships,
                       unchecked>>
    BY <1>9, SampleStep
  <2>3. Cardinality(counted') <= 1
    BY <2>2, FS_EmptySet
  <2>4. QED
    BY <2>1, <2>2, <2>3 DEF TypeOK
<1>10. CASE SampleRefused
  <2>1. Cardinality(counted') <= 1
    BY <1>10, FS_EmptySet DEF SampleRefused
  <2>2. QED
    BY <1>10, <2>1 DEF SampleRefused, TypeOK
<1>11. CASE CheckedAll
  BY <1>11 DEF CheckedAll, TypeOK
<1>12. CASE UNCHANGED vars
  BY <1>12 DEF vars, TypeOK
<1>13. QED
  BY <1>1, <1>2, <1>3, <1>4, <1>5, <1>6, <1>7, <1>8, <1>9, <1>10, <1>11, <1>12 DEF Next

\* Phases: a table is read to its end before the next one is begun, and a
\* relationship's sample is taken before the next one is taken up.
LEMMA PhaseStep ==
    ASSUME TypeOK, PhaseInv, [Next]_vars
    PROVE  PhaseInv'
<1>1. CASE Change \/ ListTables \/ ReadAll \/ CheckedAll \/ UnitFails \/ SampleRefused
  BY <1>1 DEF Change, ListTables, ReadAll, CheckedAll, UnitFails, SampleRefused, PhaseInv
<1>2. CASE ReadPart
  <2>1. (\A t \in info' : \E n \in 0..4 : DOMAIN t = PartsRead(n)) /\ place = "read"
    BY <1>2, ReadPartStep
  <2>2. UNCHANGED <<place, relationships, unchecked, counted>>
    BY <1>2 DEF ReadPart
  <2>3. QED
    BY <2>1, <2>2 DEF PhaseInv
<1>3. ASSUME NEW name \in names, BeginTable(name) PROVE PhaseInv'
  <2>1. \A t \in info' : DOMAIN t = {"name"}
    BY <1>3 DEF BeginTable
  <2>2. PartsRead(0) = {"name"}
    BY DEF PartsRead
  <2>3. \A t \in info' : \E n \in 0..4 : DOMAIN t = PartsRead(n)
    BY <2>1, <2>2
  <2>4. place = "read" /\ UNCHANGED <<place, relationships, unchecked, counted>>
    BY <1>3 DEF BeginTable
  <2>5. QED
    BY <2>3, <2>4 DEF PhaseInv
<1>4. CASE DeriveRelationships
  <2>1. counted = {} /\ info = {}
    BY <1>4 DEF DeriveRelationships, PhaseInv
  <2>2. counted' = {} /\ info' = {} /\ place' = "check"
    BY <1>4, <2>1 DEF DeriveRelationships
  <2>3. QED
    BY <2>2 DEF PhaseInv
<1>5. ASSUME NEW r \in unchecked, CountOrphans(r) PROVE PhaseInv'
  <2>1. /\ place = "check" /\ counted = {} /\ unchecked' = unchecked \ {r}
        /\ r \in relationships /\ UNCHANGED <<place, info, relationships>>
    BY <1>5, CountStep DEF TypeOK
  <2>2. \/ counted' = {}
        \/ \E finding \in [relationship : {r}, sample : {{}}, orphans : Nat] :
              counted' = {finding} /\ finding.orphans > 0
    BY <1>5, CountStep
  <2>3. counted' \subseteq [relationship : relationships' \ unchecked',
                            sample : {{}}, orphans : Nat \ {0}]
    BY <2>1, <2>2
  <2>4. QED
    BY <2>1, <2>3 DEF PhaseInv
<1>6. CASE SampleOrphans
  <2>1. counted' = {} /\ UNCHANGED <<place, info, relationships, unchecked>>
    BY <1>6, SampleStep
  <2>2. QED
    BY <2>1 DEF PhaseInv
<1>7. CASE UNCHANGED vars
  BY <1>7 DEF vars, PhaseInv
<1>8. QED
  BY <1>1, <1>2, <1>3, <1>4, <1>5, <1>6, <1>7 DEF Next

\* Samples: none is larger than was asked for, or of a relationship without
\* orphans.
LEMMA SamplesStep ==
    ASSUME TypeOK, PhaseInv, SamplesFit, [Next]_vars
    PROVE  SamplesFit'
<1>1. CASE UNCHANGED findings
  BY <1>1 DEF SamplesFit
<1>2. ASSUME NEW r \in unchecked, CountOrphans(r) PROVE SamplesFit'
  <2>1. \/ UNCHANGED findings
        \/ \E finding \in [relationship : {r}, sample : {{}}, orphans : Nat] :
              findings' = findings \cup {finding}
    BY <1>2, CountStep
  <2>2. Cardinality({}) <= SampleSize
    BY FS_EmptySet, SchemaAssumption
  <2>3. QED
    BY <2>1, <2>2 DEF SamplesFit
<1>3. CASE SampleOrphans
  <2>1. PICK finding :
           /\ finding.orphans > 0 /\ Cardinality(finding.sample) <= SampleSize
           /\ findings' = findings \cup {finding}
    BY <1>3, SampleStep
  <2>2. QED
    BY <2>1 DEF SamplesFit
<1>4. QED
  BY <1>1, <1>2, <1>3 DEF Next, vars, Change, ListTables, ReadPart, UnitFails, ReadAll,
                          BeginTable, DeriveRelationships, SampleRefused, CheckedAll

\* Derivation: neither the tables nor the relationships change after it.
LEMMA DerivedStep ==
    ASSUME TypeOK, PhaseInv, DerivedInv, [Next]_vars
    PROVE  DerivedInv'
<1>1. CASE DeriveRelationships
  <2> DEFINE included == {tables[i].name : i \in 1..Len(tables)}
             declared == {r \in DeclaredForeignKeys(db) : {r.parent, r.child} \subseteq included}
             inferred == InferredFrom(tables, declared)
  <2>1. relationships' = declared \cup inferred /\ tables' = tables
    BY <1>1, Zenon DEF DeriveRelationships, Derived
  <2>2. \A r \in DeclaredForeignKeys(db) : r.kind = "declared"
    BY DEF DeclaredForeignKeys, ForeignKey
  <2>3. tables \in Seq(ToSet(tables))
    BY DEF TypeOK
  <2>4. \A r \in declared : r.kind = "declared"
    BY <2>2
  <2> HIDE DEF declared
  <2>5. \A r \in inferred : r.kind = "inferred"
    BY <2>3, InferListed DEF InferredFrom
  <2> HIDE DEF inferred
  <2>6. {r \in relationships' : r.kind = "declared"} = declared
    BY <2>1, <2>4, <2>5
  <2>7. relationships' \ declared = inferred
    BY <2>1, <2>4, <2>5
  <2>8. QED
    BY <2>1, <2>6, <2>7, Zenon DEF DerivedInv, inferred
<1>2. CASE UNCHANGED <<tables, relationships>>
           /\ (place' \in {"check", "done"} => place \in {"check", "done"})
  BY <1>2 DEF DerivedInv
<1>3. CASE ReadPart
  <2>1. place' = "read"
    BY <1>3, ReadPartStep DEF ReadPart
  <2>2. QED
    BY <2>1 DEF DerivedInv
<1>4. CASE SampleOrphans
  BY <1>2, <1>4, SampleStep
<1>5. ASSUME NEW r \in unchecked, CountOrphans(r) PROVE DerivedInv'
  BY <1>2, <1>5, CountStep
<1>6. QED
  BY <1>1, <1>2, <1>3, <1>4, <1>5 DEF Next, vars, Change, ListTables, UnitFails, ReadAll,
                          BeginTable, SampleRefused, CheckedAll

------------------------------------------------------------------------------
(* Theorems *)

\* Whatever is committed during the scan, and wherever it fails: the inductive
\* invariant holds in every behaviour.
THEOREM Invariance == Spec => []InductiveInvariant
<1>1. Init => InductiveInvariant
  <2> SUFFICES ASSUME Init PROVE InductiveInvariant
    OBVIOUS
  <2>1. Cardinality(info) <= 1 /\ Cardinality(counted) <= 1
    BY FS_EmptySet DEF Init
  <2>2. tables \in Seq(ToSet(tables)) /\ ToSet(tables) = {}
    BY DEF Init, ToSet
  <2>3. TypeOK
    <3>1. now \in DOMAIN Versions /\ changes = 0 /\ unchecked = {} /\ findings = {}
      BY DEF Init
    <3>2. failed \in BOOLEAN /\ place \in {"list", "read", "derive", "check", "done"}
      BY DEF Init
    <3>3. 0 \in 0..MaxChanges
      BY SchemaAssumption
    <3>4. QED
      BY <2>1, <2>2, <3>1, <3>2, <3>3 DEF TypeOK
  <2>4. PhaseInv /\ SamplesFit /\ DerivedInv
    BY DEF Init, PhaseInv, SamplesFit, DerivedInv
  <2>5. QED
    BY <2>3, <2>4 DEF InductiveInvariant
<1>2. InductiveInvariant /\ [Next]_vars => InductiveInvariant'
  BY TypeStep, PhaseStep, SamplesStep, DerivedStep DEF InductiveInvariant
<1>3. QED
  BY <1>1, <1>2, PTL DEF Spec

\* OracleConsistencyChecker.cpp:54-96: count and sample are two statements, and
\* rows come and go in between; still no finding calls a relationship consistent
\* and shows orphans, or shows more of them than --sample-size allows.
THEOREM SamplesAlwaysFit == Spec => []SamplesFit
<1>1. InductiveInvariant => SamplesFit
  BY DEF InductiveInvariant
<1>2. QED
  BY <1>1, Invariance, PTL

\* RelationshipInference.cpp:80-141: also if the tables changed while they were
\* read, an inferred relationship leads from a listed column to a listed key
\* column, and from none that a declared key has.
THEOREM InferenceIsGrounded == Spec => []InferenceGrounded
<1>1. InductiveInvariant => InferenceGrounded
  <2> SUFFICES ASSUME InductiveInvariant PROVE InferenceGrounded
    OBVIOUS
  <2> DEFINE declared == {r \in relationships : r.kind = "declared"}
             Lists(table, column) ==
                \E t \in ToSet(tables) :
                    t.name = table /\ \E c \in ToSet(t.columns) : c.name = column
  <2>1. ASSUME NEW r \in relationships \ declared
        PROVE  /\ Lists(r.child, r.childColumns[1])
               /\ Lists(r.parent, r.parentColumns[1])
               /\ \A d \in declared :
                     d.child = r.child => r.childColumns[1] \notin ToSet(d.childColumns)
    <3>1. place \in {"check", "done"}
      BY <2>1 DEF InductiveInvariant, TypeOK, PhaseInv
    <3>2. r \in Infer(tables, declared)
      BY <2>1, <3>1, Zenon DEF InductiveInvariant, DerivedInv, InferredFrom
    <3>3. tables \in Seq(ToSet(tables))
      BY DEF InductiveInvariant, TypeOK
    <3> HIDE DEF declared
    <3>4. PICK t \in ToSet(tables) : \E c \in ToSet(t.columns) :
              /\ ~AlreadyDeclared(declared, t.name, c.name)
              /\ \E u \in ToSet(tables) : \E k \in ToSet(u.columns) :
                    r = [kind |-> "inferred",
                         child |-> t.name, childColumns |-> <<c.name>>,
                         parent |-> u.name, parentColumns |-> <<k.name>>]
      BY <3>2, <3>3, InferListed
    <3>5. PICK c \in ToSet(t.columns) :
              /\ ~AlreadyDeclared(declared, t.name, c.name)
              /\ \E u \in ToSet(tables) : \E k \in ToSet(u.columns) :
                    r = [kind |-> "inferred",
                         child |-> t.name, childColumns |-> <<c.name>>,
                         parent |-> u.name, parentColumns |-> <<k.name>>]
      BY <3>4
    <3>6. PICK u \in ToSet(tables) : \E k \in ToSet(u.columns) :
              r = [kind |-> "inferred",
                   child |-> t.name, childColumns |-> <<c.name>>,
                   parent |-> u.name, parentColumns |-> <<k.name>>]
      BY <3>5
    <3>7. PICK k \in ToSet(u.columns) :
              r = [kind |-> "inferred",
                   child |-> t.name, childColumns |-> <<c.name>>,
                   parent |-> u.name, parentColumns |-> <<k.name>>]
      BY <3>6
    <3>8. /\ r.child = t.name /\ r.childColumns[1] = c.name
          /\ r.parent = u.name /\ r.parentColumns[1] = k.name
      BY <3>7
    <3>9. \A d \in declared :
             d.child = t.name => c.name \notin ToSet(d.childColumns)
      BY <3>5 DEF AlreadyDeclared
    <3>10. QED
      BY <3>8, <3>9
  <2>2. QED
    BY <2>1 DEF InferenceGrounded
<1>2. QED
  BY <1>1, Invariance, PTL

\* RelationshipInference.cpp:83-86: the inferred relationships are the same in
\* whichever order the workers finished their tables, unless two names differ
\* in nothing but their case.
THEOREM OrderDoesNotMatter == Spec => []OrderIrrelevant
<1>1. InductiveInvariant => OrderIrrelevant
  <2> DEFINE n == Len(tables)
             declared == {r \in relationships : r.kind = "declared"}
  <2> SUFFICES ASSUME InductiveInvariant, place = "check",
                      \A i, j \in 1..n :
                         i # j => ToUpper(tables[i].name) # ToUpper(tables[j].name),
                      NEW p \in Bijection(1..n, 1..n)
               PROVE  InferredFrom([i \in 1..n |-> tables[p[i]]], declared)
                         = relationships \ declared
    BY DEF OrderIrrelevant
  <2>1. tables \in Seq(ToSet(tables))
    BY DEF InductiveInvariant, TypeOK
  <2>2. PICK other : other = [i \in 1..n |-> tables[p[i]]]
    OBVIOUS
  <2>3. ToSet(other) = ToSet(tables)
    BY <2>1, <2>2, RearrangedSame
  <2>4. \A name : Named(other, name) = Named(tables, name)
    BY <2>1, <2>2, RearrangedNamed
  <2>5. relationships \ declared = InferredFrom(tables, declared)
    BY Zenon DEF InductiveInvariant, DerivedInv
  <2> HIDE DEF declared
  <2>6. InferredFrom(other, declared) = InferredFrom(tables, declared)
    BY <2>3, <2>4, InferSame DEF InferredFrom
  <2>7. QED
    BY <2>2, <2>5, <2>6
<1>2. QED
  BY <1>1, Invariance, PTL

------------------------------------------------------------------------------
(* The dictionary *)

\* Numbered rows in their order: each at its number.
LEMMA InOrderNumbered ==
    ASSUME NEW rows, NEW at, DOMAIN at = rows, Numbered(rows, at)
    PROVE  /\ Cardinality(rows) \in Nat
           /\ InOrder(rows, at) \in Seq(rows) /\ Len(InOrder(rows, at)) = Cardinality(rows)
           /\ DOMAIN InOrder(rows, at) = 1..Cardinality(rows)
           /\ \A r \in rows : /\ at[r] \in 1..Cardinality(rows)
                              /\ InOrder(rows, at)[at[r]] = r
           /\ \A i \in 1..Cardinality(rows) :
                 InOrder(rows, at)[i] \in rows /\ at[InOrder(rows, at)[i]] = i
<1> DEFINE n == Cardinality(rows)
           Upto(r) == {q \in rows : at[q] <= at[r]}
<1>1. n \in Nat
  BY FS_CardinalityType DEF Numbered
<1>2. /\ \A r \in rows : at[r] \in 1..n
      /\ \A i \in 1..n : \E r \in rows : at[r] = i
      /\ \A q, r \in rows : at[q] = at[r] => q = r
  BY DEF Numbered, IsInjective
<1> HIDE DEF n
<1>3. ASSUME NEW r \in rows
      PROVE  Cardinality(Upto(r)) = at[r]
  <2> DEFINE f == [q \in Upto(r) |-> at[q]]
  <2>1. at[r] \in 1..n /\ 1..at[r] \subseteq 1..n
    BY <1>1, <1>2
  <2>2. f \in [Upto(r) -> 1..at[r]] /\ \A q, s \in Upto(r) : f[q] = f[s] => q = s
    BY <1>1, <1>2, <2>1
  <2>3. \A i \in 1..at[r] : \E q \in Upto(r) : f[q] = i
    BY <1>1, <1>2, <2>1
  <2> HIDE DEF f
  <2>4. f \in Bijection(Upto(r), 1..at[r])
    BY <2>2, <2>3 DEF Bijection, Injection, Surjection, IsInjective
  <2>5. IsFiniteSet(Upto(r))
    BY FS_Subset DEF Numbered
  <2>6. Cardinality(1..at[r]) = at[r]
    BY <1>1, <2>1, FS_Interval
  <2>7. ExistsBijection(Upto(r), 1..at[r])
    BY <2>4 DEF ExistsBijection
  <2>8. QED
    BY <2>5, <2>6, <2>7, FS_Bijection
<1> DEFINE s == InOrder(rows, at)
<1>4. s = [i \in 1..n |-> CHOOSE r \in rows : Cardinality(Upto(r)) = i]
  BY DEF InOrder, n
<1> HIDE DEF s, Upto
<1>5. ASSUME NEW i \in 1..n
      PROVE  s[i] \in rows /\ at[s[i]] = i
  <2>1. PICK r \in rows : at[r] = i
    BY <1>2
  <2>2. \E q \in rows : Cardinality(Upto(q)) = i
    BY <1>3, <2>1
  <2>3. s[i] = CHOOSE q \in rows : Cardinality(Upto(q)) = i
    BY <1>4
  <2>4. s[i] \in rows /\ Cardinality(Upto(s[i])) = i
    BY <2>2, <2>3
  <2>5. QED
    BY <1>3, <2>4
<1>6. \A r \in rows : s[at[r]] = r
  BY <1>2, <1>5
<1>7. s \in Seq(rows) /\ Len(s) = n
  <2>1. s \in [1..n -> rows]
    BY <1>4, <1>5
  <2>2. QED
    BY <1>1, <2>1, LenProperties
<1>8. QED
  BY <1>1, <1>2, <1>4, <1>5, <1>6, <1>7 DEF n, s

\* The columns of numbered rows: each at its row's number.
LEMMA PositionedNumbered ==
    ASSUME NEW rows, Numbered(rows, Position(rows))
    PROVE  /\ Cardinality(rows) \in Nat /\ Len(Positioned(rows)) = Cardinality(rows)
           /\ DOMAIN Positioned(rows) = 1..Cardinality(rows)
           /\ \A r \in rows : /\ r.position \in 1..Cardinality(rows)
                              /\ Positioned(rows)[r.position] = r.column
           /\ \A i \in 1..Cardinality(rows) :
                 \E r \in rows : r.position = i /\ Positioned(rows)[i] = r.column
<1> DEFINE n == Cardinality(rows)
           s == InOrder(rows, Position(rows))
<1>1. DOMAIN Position(rows) = rows /\ \A r \in rows : Position(rows)[r] = r.position
  BY DEF Position
<1>2. /\ n \in Nat /\ DOMAIN s = 1..n
      /\ \A r \in rows : r.position \in 1..n /\ s[r.position] = r
      /\ \A i \in 1..n : s[i] \in rows /\ s[i].position = i
  BY <1>1, InOrderNumbered
<1> HIDE DEF n, s
<1>3. Positioned(rows) = [i \in 1..n |-> s[i].column]
  BY DEF Positioned, n, s
<1>4. Len(Positioned(rows)) = n
  <2>1. Positioned(rows) \in [1..n -> {s[i].column : i \in 1..n}]
    BY <1>3
  <2>2. QED
    BY <1>2, <2>1, LenProperties
<1>5. QED
  BY <1>2, <1>3, <1>4 DEF n

\* The join of a foreign key has a row for each of its columns, at the same
\* position.
LEMMA JoinNumbered ==
    ASSUME DictionaryIsSound, NEW i \in DOMAIN Versions,
           NEW k \in Versions[i].constraints, k.type = "R",
           NEW v, v = Versions[i], NEW p, p = Referenced(v, k),
           NEW rows, rows = ForeignKeyRows(v, k)
    PROVE  /\ p \in v.constraints /\ p.owner = k.rOwner /\ p.name = k.rName
           /\ p.type \in {"P", "U"}
           /\ rows # {} /\ Numbered(rows, Position(rows))
           /\ \A r \in rows : r.parentTable = p.table
           /\ \A r \in rows : \E c \in ColumnsOf(v, k), d \in ColumnsOf(v, p) :
                 /\ c.position = r.position /\ c.column = r.column
                 /\ d.position = r.position /\ d.column = r.parentColumn
           /\ \A c \in ColumnsOf(v, k), d \in ColumnsOf(v, p) :
                 c.position = d.position =>
                    \E r \in rows : /\ r.position = c.position /\ r.column = c.column
                                    /\ r.parentColumn = d.column
<1> DEFINE own == ColumnsOf(v, k)
           parents == ColumnsOf(v, p)
           n == Cardinality(own)
           Joined(c, d) == [column |-> c.column, parentTable |-> p.table,
                            parentColumn |-> d.column, position |-> c.position]
<1>1. ForeignKeyIsSound(v, k) /\ KeyIsSound(v, k)
  BY DEF DictionaryIsSound
<1>2. PICK q \in v.constraints :
         /\ q.owner = k.rOwner /\ q.name = k.rName /\ q.type \in {"P", "U"}
         /\ Cardinality(ColumnsOf(v, q)) = n
  BY <1>1 DEF ForeignKeyIsSound
<1>3. p \in v.constraints /\ p.owner = k.rOwner /\ p.name = k.rName
  BY <1>2 DEF Referenced
<1>4. p = q
  BY <1>2, <1>3 DEF DictionaryIsSound
<1>5. /\ own # {} /\ Numbered(own, Position(own))
      /\ Numbered(parents, Position(parents)) /\ Cardinality(parents) = n
  BY <1>1, <1>2, <1>3, <1>4 DEF DictionaryIsSound, KeyIsSound
<1> HIDE DEF own, parents
<1>6. /\ \A c \in own : c.position \in 1..n
      /\ \A d \in parents : d.position \in 1..n
      /\ \A j \in 1..n : \E c \in own : c.position = j
      /\ \A j \in 1..n : \E d \in parents : d.position = j
      /\ \A c, d \in own : c.position = d.position => c = d
      /\ \A c, d \in parents : c.position = d.position => c = d
  <2>1. \A S : Numbered(S, Position(S)) =>
           /\ \A c \in S : c.position \in 1..Cardinality(S)
           /\ \A j \in 1..Cardinality(S) : \E c \in S : c.position = j
           /\ \A c, d \in S : c.position = d.position => c = d
    BY DEF Numbered, Position, IsInjective
  <2>2. QED
    BY <1>5, <2>1, Zenon
<1> HIDE DEF n
<1>7. /\ \A r \in rows : \E c \in own, d \in parents :
            c.position = d.position /\ r = Joined(c, d)
      /\ \A c \in own, d \in parents : c.position = d.position => Joined(c, d) \in rows
  <2>1. rows = {Joined(e[1], e[2]) :
                   e \in {x \in own \X parents : x[1].position = x[2].position}}
    BY DEF ForeignKeyRows, own, parents
  <2> HIDE DEF Joined
  <2>2. ASSUME NEW r \in rows
        PROVE  \E c \in own, d \in parents : c.position = d.position /\ r = Joined(c, d)
    <3>1. PICK e \in own \X parents : e[1].position = e[2].position /\ r = Joined(e[1], e[2])
      BY <2>1
    <3>2. e[1] \in own /\ e[2] \in parents
      OBVIOUS
    <3>3. QED
      BY <3>1, <3>2, Zenon
  <2>3. ASSUME NEW c \in own, NEW d \in parents, c.position = d.position
        PROVE  Joined(c, d) \in rows
    <3>1. PICK e \in own \X parents : e[1] = c /\ e[2] = d
      <4>1. <<c, d>> \in own \X parents /\ <<c, d>>[1] = c /\ <<c, d>>[2] = d
        OBVIOUS
      <4>2. QED BY <4>1, Zenon
    <3>2. Joined(e[1], e[2]) \in rows
      BY <2>1, <2>3, <3>1
    <3>3. QED
      BY <3>1, <3>2
  <2>4. QED
    BY <2>2, <2>3
<1>8. PICK mate \in [own -> parents] : \A c \in own : mate[c].position = c.position
  <2> DEFINE mate == [c \in own |-> CHOOSE d \in parents : d.position = c.position]
  <2>1. \A c \in own : mate[c] \in parents /\ mate[c].position = c.position
    BY <1>6
  <2>2. mate \in [own -> parents]
    BY <2>1
  <2>3. QED
    BY <2>1, <2>2
<1> DEFINE f == [c \in own |-> Joined(c, mate[c])]
<1>9. f \in [own -> rows] /\ \A c \in own : f[c].position = c.position
  BY <1>7, <1>8
<1>10. \A r \in rows : \E c \in own : f[c] = r
  <2>1. ASSUME NEW r \in rows PROVE \E c \in own : f[c] = r
    <3>1. PICK c \in own, d \in parents : c.position = d.position /\ r = Joined(c, d)
      BY <1>7
    <3>2. d = mate[c]
      BY <1>6, <1>8, <3>1
    <3>3. QED
      BY <3>1, <3>2
  <2>2. QED BY <2>1
<1> HIDE DEF f
<1>11. f \in Bijection(own, rows)
  <2>1. \A c, d \in own : f[c] = f[d] => c = d
    BY <1>6, <1>9
  <2>2. QED
    BY <1>9, <1>10, <2>1 DEF Bijection, Injection, Surjection, IsInjective
<1>12. IsFiniteSet(rows) /\ Cardinality(rows) = n
  <2>1. IsFiniteSet(own) /\ ExistsBijection(own, rows)
    BY <1>5, <1>11 DEF Numbered, ExistsBijection
  <2>2. QED
    BY <2>1, FS_Bijection DEF n
<1>13. Numbered(rows, Position(rows))
  <2>1. DOMAIN Position(rows) = rows /\ \A r \in rows : Position(rows)[r] = r.position
    BY DEF Position
  <2>2. \A r, s \in rows : r.position = s.position => r = s
    BY <1>6, <1>9, <1>10
  <2>3. {Position(rows)[r] : r \in rows} = 1..n
    BY <1>6, <1>9, <1>10, <2>1
  <2>4. QED
    BY <1>12, <2>1, <2>2, <2>3 DEF Numbered, IsInjective
<1>14. rows # {}
  BY <1>5, <1>9
<1>15. \A r \in rows : \E c \in own, d \in parents :
             /\ r.parentTable = p.table
             /\ c.position = r.position /\ c.column = r.column
             /\ d.position = r.position /\ d.column = r.parentColumn
  BY <1>7
<1>16. \A c \in own, d \in parents : c.position = d.position =>
          \E r \in rows : /\ r.position = c.position /\ r.column = c.column
                          /\ r.parentColumn = d.column
  BY <1>7
<1>17. QED
  BY <1>2, <1>3, <1>4, <1>13, <1>14, <1>15, <1>16 DEF own, parents

------------------------------------------------------------------------------
(* As long as nobody interferes *)

\* What has been disturbed stays so.
LEMMA QuietStep ==
    ASSUME TypeOK, [Next]_vars, Quiet'
    PROVE  Quiet /\ now' = now /\ ~Change /\ ~UnitFails
<1>1. changes \in Nat
  BY SchemaAssumption DEF TypeOK
<1>2. ~Change /\ ~UnitFails
  BY <1>1 DEF Change, UnitFails, Quiet
<1>3. QED
  BY <1>2 DEF Next, vars, Quiet, ListTables, ReadPart, ReadAll, BeginTable,
              DeriveRelationships, CountOrphans, SampleOrphans, SampleRefused, CheckedAll

\* readTable() goes on with what the dictionary says: the table's next part is
\* known, or the whole table is part of the result.
LEMMA ReadPartKnows ==
    ASSUME TypeOK, PhaseInv, ReadInv, ReadPart
    PROVE  ReadInv'
<1>1. PICK t \in info, n \in 0..4 : \E more :
         /\ DOMAIN t = PartsRead(n) /\ DOMAIN more = PartsRead(n + 1)
         /\ more.name = t.name
         /\ \A p \in DOMAIN more \ {"name"} :
               more[p] = Fetch(db, t.name, p) \/ (p \in DOMAIN t /\ more[p] = t[p])
         /\ IF n = 4 THEN info' = {} /\ tables' = Append(tables, more)
                     ELSE info' = {more} /\ UNCHANGED tables
  BY ReadPartOutcome
<1>2. PICK more :
         /\ DOMAIN t = PartsRead(n) /\ DOMAIN more = PartsRead(n + 1)
         /\ more.name = t.name
         /\ \A p \in DOMAIN more \ {"name"} :
               more[p] = Fetch(db, t.name, p) \/ (p \in DOMAIN t /\ more[p] = t[p])
         /\ IF n = 4 THEN info' = {} /\ tables' = Append(tables, more)
                     ELSE info' = {more} /\ UNCHANGED tables
  BY <1>1
<1>3. \A p \in DOMAIN more \ {"name"} : more[p] = Fetch(db, t.name, p)
  BY <1>2 DEF ReadInv
<1>4. info = {t} /\ place = "read" /\ tables \in Seq(ToSet(tables))
  BY DEF ReadInv, PhaseInv, TypeOK
<1>5. /\ UNCHANGED <<now, place, names, relationships>> /\ db' = db
  BY DEF ReadPart, db
<1>6. /\ t.name \notin names
      /\ \A u \in ToSet(tables) : t.name # u.name
      /\ names \cup {u.name : u \in info \cup ToSet(tables)} = TableNames(db)
  BY <1>4 DEF ReadInv
<1>7. CASE info' = {} /\ tables' = Append(tables, more)
  <2>1. /\ ToSet(tables') = ToSet(tables) \cup {more}
        /\ Len(tables') = Len(tables) + 1 /\ Len(tables) \in Nat
        /\ tables'[Len(tables) + 1] = more
        /\ \A i \in 1..Len(tables) : tables'[i] = tables[i] /\ tables[i] \in ToSet(tables)
    BY <1>4, <1>7, AppendListed DEF ToSet
  <2>2. names' \cup {u.name : u \in info' \cup ToSet(tables')} = TableNames(db')
    <3>1. {u.name : u \in info' \cup ToSet(tables')} = {u.name : u \in info \cup ToSet(tables)}
      BY <1>2, <1>3, <1>4, <1>7, <2>1
    <3>2. QED
      BY <1>5, <1>6, <3>1
  <2>3. \A u \in info' \cup ToSet(tables') :
           /\ u.name \notin names'
           /\ \A p \in DOMAIN u \ {"name"} : u[p] = Fetch(db', u.name, p)
    <3>1. \A u \in ToSet(tables) :
             /\ u.name \notin names
             /\ \A p \in DOMAIN u \ {"name"} : u[p] = Fetch(db, u.name, p)
      BY DEF ReadInv
    <3>2. /\ more.name \notin names
          /\ \A p \in DOMAIN more \ {"name"} : more[p] = Fetch(db, more.name, p)
      BY <1>2, <1>3, <1>6
    <3>3. QED
      BY <1>5, <1>7, <2>1, <3>1, <3>2
  <2>4. \A i, j \in 1..Len(tables') : tables'[i].name = tables'[j].name => i = j
    <3>1. \A i, j \in 1..Len(tables) : tables[i].name = tables[j].name => i = j
      BY DEF ReadInv
    <3>2. \A i \in 1..Len(tables) : tables[i].name # more.name
      BY <1>2, <1>3, <1>6, <2>1
    <3>3. QED
      BY <2>1, <3>1, <3>2
  <2>5. QED
    BY <1>4, <1>5, <1>7, <2>2, <2>3, <2>4 DEF ReadInv
<1>8. CASE info' = {more} /\ UNCHANGED tables
  <2>1. {u.name : u \in info' \cup ToSet(tables')} = {u.name : u \in info \cup ToSet(tables)}
    BY <1>2, <1>3, <1>4, <1>8
  <2>2. names' \cup {u.name : u \in info' \cup ToSet(tables')} = TableNames(db')
    BY <1>5, <1>6, <2>1
  <2>3. \A u \in info' \cup ToSet(tables') :
           /\ u.name \notin names'
           /\ \A p \in DOMAIN u \ {"name"} : u[p] = Fetch(db', u.name, p)
    <3>1. \A u \in ToSet(tables) :
             /\ u.name \notin names
             /\ \A p \in DOMAIN u \ {"name"} : u[p] = Fetch(db, u.name, p)
      BY DEF ReadInv
    <3>2. /\ more.name \notin names
          /\ \A p \in DOMAIN more \ {"name"} : more[p] = Fetch(db, more.name, p)
      BY <1>2, <1>3, <1>6
    <3>3. QED
      BY <1>5, <1>8, <3>1, <3>2
  <2>4. /\ \A u, w \in info' : u = w
        /\ \A u \in info' : \A w \in ToSet(tables') : u.name # w.name
        /\ \A i, j \in 1..Len(tables') : tables'[i].name = tables'[j].name => i = j
    BY <1>2, <1>3, <1>6, <1>8 DEF ReadInv
  <2>5. QED
    BY <1>4, <1>5, <2>2, <2>3, <2>4 DEF ReadInv
<1>9. QED
  BY <1>2, <1>7, <1>8

\* Nobody interferes: the tables are read as they are.
LEMMA ReadStep ==
    ASSUME TypeOK, PhaseInv, Quiet => ReadInv, [Next]_vars
    PROVE  Quiet' => ReadInv'
<1> SUFFICES ASSUME Quiet' PROVE ReadInv'
  OBVIOUS
<1>1. ReadInv /\ now' = now /\ ~Change /\ ~UnitFails
  BY QuietStep
<1>2. db' = db
  BY <1>1 DEF db
<1>3. CASE ListTables
  <2>1. /\ tables' = <<>> /\ info' = {} /\ names' = TableNames(db) /\ place' = "read"
    BY <1>1, <1>3 DEF ListTables, ReadInv
  <2>2. ToSet(tables') = {} /\ Len(tables') = 0
    BY <2>1 DEF ToSet
  <2>3. QED
    BY <1>2, <2>1, <2>2 DEF ReadInv
<1>4. ASSUME NEW name \in names, BeginTable(name) PROVE ReadInv'
  <2> DEFINE t == [n \in {"name"} |-> name]
  <2>1. /\ place = "read" /\ info = {} /\ names' = names \ {name} /\ info' = {t}
        /\ UNCHANGED <<place, tables, relationships>>
    BY <1>4 DEF BeginTable
  <2>2. t.name = name /\ DOMAIN t = {"name"}
    OBVIOUS
  <2> HIDE DEF t
  <2>3. \A u \in ToSet(tables) :
           /\ u.name \notin names
           /\ \A p \in DOMAIN u \ {"name"} : u[p] = Fetch(db, u.name, p)
    BY <1>1 DEF ReadInv
  <2>4. names \cup {u.name : u \in ToSet(tables)} = TableNames(db)
    BY <1>1, <2>1 DEF ReadInv
  <2>5. names' \cup {u.name : u \in info' \cup ToSet(tables')} = TableNames(db')
    BY <1>2, <2>1, <2>2, <2>4
  <2>6. \A u \in info' \cup ToSet(tables') :
           /\ u.name \notin names'
           /\ \A p \in DOMAIN u \ {"name"} : u[p] = Fetch(db', u.name, p)
    BY <1>2, <2>1, <2>2, <2>3
  <2>7. /\ \A u, w \in info' : u = w
        /\ \A u \in info' : \A w \in ToSet(tables') : u.name # w.name
        /\ \A i, j \in 1..Len(tables') : tables'[i].name = tables'[j].name => i = j
    BY <1>1, <2>1, <2>2, <2>3 DEF ReadInv
  <2>8. QED
    BY <2>1, <2>5, <2>6, <2>7 DEF ReadInv
<1>5. CASE ReadAll
  BY <1>1, <1>2, <1>5 DEF ReadAll, ReadInv
<1>6. CASE DeriveRelationships
  <2>1. /\ place = "derive" /\ place' = "check" /\ UNCHANGED <<names, info, tables>>
        /\ relationships' = Derived(tables)
    BY <1>6 DEF DeriveRelationships
  <2>2. Derived(tables)' = Derived(tables)
    BY <1>2, <2>1 DEF Derived
  <2>3. QED
    BY <1>1, <1>2, <2>1, <2>2 DEF ReadInv
<1>7. ASSUME UNCHANGED <<names, info, tables, relationships>>,
             place' = place \/ (place = "check" /\ place' = "done")
      PROVE  ReadInv'
  <2>1. Derived(tables)' = Derived(tables)
    BY <1>2, <1>7 DEF Derived
  <2>2. QED
    BY <1>1, <1>2, <1>7, <2>1 DEF ReadInv
<1>8. QED
  BY <1>1, <1>3, <1>4, <1>5, <1>6, <1>7, ReadPartKnows
     DEF Next, vars, CountOrphans, SampleOrphans, SampleRefused, CheckedAll

\* In every behaviour: what is read before anybody interferes is what there is.
THEOREM ReadInvariance == Spec => [](InductiveInvariant /\ (Quiet => ReadInv))
<1>1. Init => ReadInv
  BY DEF Init, ReadInv, ToSet
<1>2. InductiveInvariant /\ (Quiet => ReadInv) /\ [Next]_vars => (Quiet => ReadInv)'
  BY ReadStep DEF InductiveInvariant
<1>3. QED
  BY <1>1, <1>2, Invariance, PTL DEF Spec

------------------------------------------------------------------------------
(* What is found out when nobody interferes *)

\* A scan that nobody disturbed has every table of the schema, once.
LEMMA AllTablesRead ==
    ASSUME DictionaryIsSound, TypeOK, PhaseInv, ReadInv,
           place \in {"derive", "check", "done"}
    PROVE  /\ Len(tables) = Cardinality(TablesOf(db, Owner))
           /\ \A t \in TablesOf(db, Owner) : \E i \in 1..Len(tables) :
                 /\ tables[i].name = t.name
                 /\ \A n \in 1..5 : tables[i][Parts[n]] = Fetch(db, t.name, Parts[n])
<1> DEFINE n == Len(tables)
           own == TablesOf(db, Owner)
<1>1. tables \in Seq(ToSet(tables)) /\ n \in Nat /\ now \in DOMAIN Versions
  BY DEF TypeOK
<1>2. \A i \in 1..n : tables[i] \in ToSet(tables)
  BY <1>1 DEF ToSet
<1>3. \A t \in ToSet(tables) : \E i \in 1..n : tables[i] = t
  BY <1>1 DEF ToSet
<1>4. {t.name : t \in ToSet(tables)} = {t.name : t \in own}
  <2>1. names = {} /\ info = {}
    BY DEF ReadInv, PhaseInv
  <2>2. names \cup {t.name : t \in info \cup ToSet(tables)} = TableNames(db)
    BY DEF ReadInv
  <2>3. QED
    BY <2>1, <2>2 DEF TableNames
<1>5. IsFiniteSet(own) /\ \A t, u \in own : t.name = u.name => t = u
  <2>1. IsFiniteSet(db.tables)
    BY <1>1 DEF DictionaryIsSound, db
  <2>2. \A t, u \in db.tables : t.owner = u.owner /\ t.name = u.name => t = u
    BY <1>1 DEF DictionaryIsSound, db
  <2>3. own \subseteq db.tables /\ \A t \in own : t.owner = Owner
    BY DEF TablesOf
  <2>4. IsFiniteSet(own)
    BY <2>1, <2>3, FS_Subset
  <2>5. QED
    BY <2>2, <2>3, <2>4
<1> HIDE DEF own
<1>6. \A i, j \in 1..n : tables[i].name = tables[j].name => i = j
  BY DEF ReadInv
<1>7. n = Cardinality(own)
  <2> DEFINE f == [i \in 1..n |-> CHOOSE t \in own : t.name = tables[i].name]
  <2>1. \A i \in 1..n : f[i] \in own /\ f[i].name = tables[i].name
    BY <1>2, <1>4
  <2>2. \A t \in own : \E i \in 1..n : f[i] = t
    <3>1. ASSUME NEW t \in own PROVE \E i \in 1..n : f[i] = t
      <4>1. PICK i \in 1..n : tables[i].name = t.name
        BY <1>3, <1>4
      <4>2. f[i] = t
        BY <1>5, <2>1, <4>1
      <4>3. QED
        BY <4>1, <4>2
    <3>2. QED BY <3>1
  <2>3. f \in [1..n -> own]
    BY <2>1
  <2> HIDE DEF f
  <2>4. \A i, j \in 1..n : f[i] = f[j] => i = j
    BY <1>6, <2>1
  <2>5. f \in Bijection(1..n, own)
    BY <2>2, <2>3, <2>4 DEF Bijection, Injection, Surjection, IsInjective
  <2>6. ExistsBijection(1..n, own)
    BY <2>5 DEF ExistsBijection
  <2>7. IsFiniteSet(1..n) /\ Cardinality(1..n) = n
    <3>1. 1 \in Int /\ n \in Int /\ n >= 0
      BY <1>1
    <3> HIDE DEF n
    <3>2. IsFiniteSet(1..n) /\ Cardinality(1..n) = IF 1 > n THEN 0 ELSE n - 1 + 1
      BY <3>1, FS_Interval
    <3>3. QED
      BY <3>1, <3>2
  <2>8. QED
    BY <2>6, <2>7, FS_Bijection
<1>8. ASSUME NEW t \in own
      PROVE  \E i \in 1..n :
                /\ tables[i].name = t.name
                /\ \A m \in 1..5 : tables[i][Parts[m]] = Fetch(db, t.name, Parts[m])
  <2>1. PICK i \in 1..n : tables[i].name = t.name
    BY <1>3, <1>4
  <2>2. /\ DOMAIN tables[i] = {"name", "columns", "primaryKey", "uniqueKeys", "indexes",
                               "approxRowCount"}
        /\ \A part \in DOMAIN tables[i] \ {"name"} :
              tables[i][part] = Fetch(db, t.name, part)
    BY <1>2, <2>1 DEF TypeOK, ReadInv
  <2>3. \A m \in 1..5 : Parts[m] \in DOMAIN tables[i] \ {"name"}
    BY <2>2 DEF Parts
  <2>4. QED
    BY <2>1, <2>2, <2>3
<1>9. QED
  BY <1>7, <1>8 DEF own

\* What fetchPrimaryKey() and each of fetchUniqueKeys() return: the keys of the table,
\* each of their columns at its position, and nothing else.
LEMMA KeysFetched ==
    ASSUME DictionaryIsSound, TypeOK, NEW t, t.owner = Owner, NEW type \in {"P", "U"}
    PROVE  KeysReported({Key(db, k) : k \in Keys(db, t.name, type)}, t, type)
<1> DEFINE own == {k \in db.constraints :
                      k.owner = t.owner /\ k.table = t.name /\ k.type = type}
           places(k) == {c \in db.consColumns : c.owner = k.owner /\ c.name = k.name}
           keys == {Key(db, k) : k \in Keys(db, t.name, type)}
<1>1. now \in DOMAIN Versions /\ db = Versions[now]
  BY DEF TypeOK, db
<1>2. \A k \in own : ColumnsOf(db, k) # {} /\ Numbered(ColumnsOf(db, k), Position(ColumnsOf(db, k)))
  BY <1>1 DEF DictionaryIsSound, KeyIsSound
<1>3. Keys(db, t.name, type) = own
  BY <1>2 DEF Keys
<1>4. ASSUME NEW k \in own PROVE IsReported(Key(db, k), k, places(k))
  <2>1. places(k) = ColumnsOf(db, k)
    BY DEF ColumnsOf
  <2> DEFINE cols == ColumnsOf(db, k)
  <2>2. Key(db, k).name = k.name /\ Key(db, k).columns = Positioned(cols)
    BY DEF Key
  <2>3. Numbered(cols, Position(cols))
    BY <1>2
  <2> HIDE DEF cols
  <2>4. /\ Len(Positioned(cols)) = Cardinality(cols)
        /\ \A c \in cols : Positioned(cols)[c.position] = c.column
    BY <2>3, PositionedNumbered
  <2>5. QED
    BY <2>1, <2>2, <2>4 DEF IsReported, cols
<1>5. \A k \in own : \E key \in keys : IsReported(key, k, places(k))
  BY <1>3, <1>4
<1>6. \A key \in keys : \E k \in own : IsReported(key, k, places(k))
  BY <1>3, <1>4
<1>7. QED
  BY <1>5, <1>6, Zenon DEF KeysReported

\* What fetchIndexes() returns: the indexes on the table, each of their columns at
\* its position, and nothing else, provided that no index leaves its schema.
LEMMA IndexesFetched ==
    ASSUME DictionaryIsSound, IndexesStayInSchema, TypeOK, NEW t, t.owner = Owner
    PROVE  IndexesReported(FetchIndexes(db, t.name), t)
<1> DEFINE places(x) == {c \in db.indColumns : c.owner = x.owner /\ c.name = x.name}
           on == {x \in db.indexes : /\ x.tableOwner = t.owner /\ x.table = t.name
                                     /\ places(x) # {}}
           index(x) == [name |-> x.name, unique |-> x.unique,
                        columns |-> Positioned(IndexColumns(db, x))]
           Is(item, x) == item.unique = x.unique /\ IsReported(item, x, places(x))
<1>1. now \in DOMAIN Versions /\ db = Versions[now]
  BY DEF TypeOK, db
<1>2. \A x \in db.indexes : x.owner = Owner <=> x.tableOwner = Owner
  BY <1>1 DEF IndexesStayInSchema
<1>3. \A x : places(x) = IndexColumns(db, x)
  BY DEF IndexColumns
<1>4. FetchIndexes(db, t.name) = {index(x) : x \in on}
  <2>1. on = {x \in db.indexes : /\ x.owner = Owner /\ x.table = t.name
                                 /\ IndexColumns(db, x) # {}}
    BY <1>2, <1>3
  <2> HIDE DEF on
  <2>2. QED
    BY <2>1 DEF FetchIndexes
<1>5. ASSUME NEW x \in on PROVE Is(index(x), x)
  <2> DEFINE cols == IndexColumns(db, x)
  <2>1. Numbered(cols, Position(cols))
    BY <1>1 DEF DictionaryIsSound
  <2>2. /\ index(x).name = x.name /\ index(x).unique = x.unique
        /\ index(x).columns = Positioned(cols)
    OBVIOUS
  <2>3. places(x) = cols
    BY <1>3
  <2> HIDE DEF cols, index
  <2>4. /\ Len(Positioned(cols)) = Cardinality(cols)
        /\ \A c \in cols : Positioned(cols)[c.position] = c.column
    BY <2>1, PositionedNumbered
  <2>5. IsReported(index(x), x, places(x))
    BY <2>2, <2>3, <2>4 DEF IsReported
  <2>6. QED
    BY <2>2, <2>5
<1> HIDE DEF index
<1>6. \A x \in on : \E item \in {index(y) : y \in on} : Is(item, x)
  BY <1>5
<1>7. \A item \in {index(y) : y \in on} : \E x \in on : Is(item, x)
  BY <1>5
<1>8. QED
  BY <1>4, <1>6, <1>7, Zenon DEF IndexesReported

\* OracleSchemaReader.cpp:41-409: whatever the order in which the views return
\* their rows and the workers finish, and whatever other schemas contain, a scan
\* that nobody disturbed reports every table of the schema once, and exactly with
\* the columns, keys and indexes that the dictionary has of it, provided that no
\* index leaves its schema.
THEOREM TablesAreExact ==
    ASSUME DictionaryIsSound, IndexesStayInSchema PROVE Spec => []TablesExact
<1>1. Quiet /\ InductiveInvariant /\ ReadInv => TablesExact
  <2> SUFFICES ASSUME InductiveInvariant, ReadInv, Undisturbed PROVE TablesExact
    BY DEF TablesExact
  <2>1. /\ Len(tables) = Cardinality(TablesOf(db, Owner))
        /\ \A t \in TablesOf(db, Owner) : \E i \in 1..Len(tables) :
              /\ tables[i].name = t.name
              /\ \A n \in 1..5 : tables[i][Parts[n]] = Fetch(db, t.name, Parts[n])
    BY AllTablesRead DEF InductiveInvariant, Undisturbed
  <2>2. now \in DOMAIN Versions /\ db = Versions[now] /\ TypeOK
    BY DEF InductiveInvariant, TypeOK, db
  <2> DEFINE Found(t, i) ==
                LET rows == {c \in db.columns : c.owner = t.owner /\ c.table = t.name}
                IN  /\ tables[i].name = t.name
                    /\ Len(tables[i].columns) = Cardinality(rows)
                    /\ \A c \in rows : tables[i].columns[c.id] = c
                    /\ KeysReported(tables[i].primaryKey, t, "P")
                    /\ KeysReported(tables[i].uniqueKeys, t, "U")
                    /\ IndexesReported(tables[i].indexes, t)
  <2>4. ASSUME NEW t \in TablesOf(db, Owner)
        PROVE  \E i \in 1..Len(tables) : Found(t, i)
    <3>1. PICK i \in 1..Len(tables) :
             /\ tables[i].name = t.name
             /\ \A n \in 1..5 : tables[i][Parts[n]] = Fetch(db, t.name, Parts[n])
      BY <2>1
    <3>2. /\ tables[i].columns = FetchColumns(db, t.name)
          /\ tables[i].primaryKey = FetchPrimaryKey(db, t.name)
          /\ tables[i].uniqueKeys = FetchUniqueKeys(db, t.name)
          /\ tables[i].indexes = FetchIndexes(db, t.name)
      <4>1. \A n \in 1..4 : tables[i][Parts[n]] = Fetch(db, t.name, Parts[n])
        BY <3>1
      <4>2. /\ tables[i].columns = Fetch(db, t.name, "columns")
            /\ tables[i].primaryKey = Fetch(db, t.name, "primaryKey")
            /\ tables[i].uniqueKeys = Fetch(db, t.name, "uniqueKeys")
            /\ tables[i].indexes = Fetch(db, t.name, "indexes")
        BY <4>1 DEF Parts
      <4>3. QED
        BY <4>2 DEF Fetch
    <3>3. t \in db.tables /\ t.owner = Owner
      BY DEF TablesOf
    <3> DEFINE rows == {c \in db.columns : c.owner = t.owner /\ c.table = t.name}
    <3>4. /\ Len(tables[i].columns) = Cardinality(rows)
          /\ \A c \in rows : tables[i].columns[c.id] = c
      <4>1. rows = ColumnsOfTable(db, Owner, t.name)
        BY <3>3 DEF ColumnsOfTable
      <4>2. Numbered(rows, ColumnId(rows))
        BY <2>2, <3>3, <4>1 DEF DictionaryIsSound
      <4>3. tables[i].columns = InOrder(rows, ColumnId(rows))
        BY <3>2, <4>1 DEF FetchColumns
      <4> HIDE DEF rows
      <4>4. DOMAIN ColumnId(rows) = rows /\ \A c \in rows : ColumnId(rows)[c] = c.id
        BY DEF ColumnId
      <4>5. QED
        BY <4>2, <4>3, <4>4, InOrderNumbered
    <3>5. KeysReported(tables[i].primaryKey, t, "P")
      BY <2>2, <3>2, <3>3, KeysFetched DEF FetchPrimaryKey
    <3>6. KeysReported(tables[i].uniqueKeys, t, "U")
      BY <2>2, <3>2, <3>3, KeysFetched DEF FetchUniqueKeys
    <3>7. IndexesReported(tables[i].indexes, t)
      BY <2>2, <3>2, <3>3, IndexesFetched
    <3>8. Found(t, i)
      BY <3>1, <3>4, <3>5, <3>6, <3>7
    <3>9. QED
      BY <3>8
  <2>5. QED
    BY <2>1, <2>4, Zenon DEF TablesExact
<1>2. Spec => [](InductiveInvariant /\ (Quiet => ReadInv))
  BY ReadInvariance
<1>3. Undisturbed => Quiet
  BY DEF Undisturbed, Quiet
<1>4. ~Undisturbed => TablesExact
  BY DEF TablesExact
<1>5. QED
  BY <1>1, <1>2, <1>3, <1>4, PTL

\* What a foreign key becomes: the columns it pairs, at their positions, and
\* both tables the schema's.
LEMMA ForeignKeyFacts ==
    ASSUME DictionaryIsSound, KeysStayInSchema,
           NEW i \in DOMAIN Versions, NEW v, v = Versions[i],
           NEW k \in v.constraints, k.owner = Owner, k.type = "R"
    PROVE  LET r == ForeignKey(v, k)
           IN  /\ ForeignKeyRows(v, k) # {}
               /\ r.name = k.name /\ r.kind = "declared" /\ r.child = k.table
               /\ {r.child, r.parent} \subseteq TableNames(v)
               /\ Len(r.childColumns) = Len(r.parentColumns)
               /\ \A j \in 1..Len(r.childColumns) :
                     /\ \E c \in ColumnsOfTable(v, Owner, r.child) : c.name = r.childColumns[j]
                     /\ \E c \in ColumnsOfTable(v, Owner, r.parent) : c.name = r.parentColumns[j]
               /\ \A c, d \in v.consColumns :
                     /\ c.owner = Owner /\ c.name = k.name
                     /\ d.owner = Owner /\ d.name = k.rName
                     /\ c.position = d.position
                     => /\ r.childColumns[c.position] = c.column
                        /\ r.parentColumns[c.position] = d.column
<1>1. PICK rows : rows = ForeignKeyRows(v, k)
  OBVIOUS
<1>2. PICK p : p = Referenced(v, k)
  OBVIOUS
<1>3. /\ p \in v.constraints /\ p.owner = k.rOwner /\ p.name = k.rName
      /\ p.type \in {"P", "U"}
      /\ rows # {} /\ Numbered(rows, Position(rows))
      /\ \A r \in rows : r.parentTable = p.table
      /\ \A r \in rows : \E c \in ColumnsOf(v, k), d \in ColumnsOf(v, p) :
            /\ c.position = r.position /\ c.column = r.column
            /\ d.position = r.position /\ d.column = r.parentColumn
      /\ \A c \in ColumnsOf(v, k), d \in ColumnsOf(v, p) :
            c.position = d.position =>
               \E r \in rows : /\ r.position = c.position /\ r.column = c.column
                               /\ r.parentColumn = d.column
  BY <1>1, <1>2, JoinNumbered
<1>4. KeyIsSound(v, k) /\ KeyIsSound(v, p) /\ k.rOwner = Owner /\ p.owner = Owner
  BY <1>3 DEF DictionaryIsSound, KeysStayInSchema
<1> DEFINE n == Cardinality(rows)
           sorted == InOrder(rows, Position(rows))
           parentColumns == [j \in 1..n |-> sorted[j].parentColumn]
           r == ForeignKey(v, k)
<1>5. r = [name |-> k.name, kind |-> "declared",
           child |-> k.table, childColumns |-> Positioned(rows),
           parent |-> sorted[1].parentTable, parentColumns |-> parentColumns]
  BY <1>1 DEF ForeignKey
<1>6. DOMAIN Position(rows) = rows /\ \A x \in rows : Position(rows)[x] = x.position
  BY DEF Position
<1>7. /\ n \in Nat
      /\ \A x \in rows : x.position \in 1..n /\ sorted[x.position] = x
      /\ \A j \in 1..n : sorted[j] \in rows /\ sorted[j].position = j
  <2>1. Numbered(rows, Position(rows))
    BY <1>3
  <2>2. QED
    BY <1>6, <2>1, InOrderNumbered
<1>8. /\ Len(Positioned(rows)) = n
      /\ \A x \in rows : Positioned(rows)[x.position] = x.column
  BY <1>3, PositionedNumbered
<1> HIDE DEF n, sorted
<1>9. Len(parentColumns) = n
  <2>1. parentColumns \in [1..n -> {sorted[j].parentColumn : j \in 1..n}]
    OBVIOUS
  <2>2. QED
    BY <1>7, <2>1, LenProperties
<1>10. \A x \in rows : parentColumns[x.position] = x.parentColumn
  BY <1>7
<1> HIDE DEF parentColumns, r
<1>11. /\ r.name = k.name /\ r.kind = "declared" /\ r.child = k.table
       /\ r.childColumns = Positioned(rows) /\ r.parentColumns = parentColumns
       /\ r.parent = p.table
  <2>1. sorted[1] \in rows
    <3>1. PICK x \in rows : x.position \in 1..n
      BY <1>3, <1>7
    <3>2. 1 \in 1..n
      BY <1>7, <3>1
    <3>3. QED
      BY <1>7, <3>2
  <2>2. sorted[1].parentTable = p.table
    BY <1>3, <2>1
  <2>3. QED
    BY <1>5, <2>2
<1>12. {r.child, r.parent} \subseteq TableNames(v)
  <2>1. \A x : x.owner = Owner /\ KeyIsSound(v, x) => x.table \in TableNames(v)
    BY DEF KeyIsSound, TableNames, TablesOf
  <2>2. QED
    BY <1>4, <1>11, <2>1
<1>13. ASSUME NEW j \in 1..n
       PROVE  /\ \E c \in ColumnsOfTable(v, Owner, k.table) : c.name = Positioned(rows)[j]
              /\ \E c \in ColumnsOfTable(v, Owner, p.table) : c.name = parentColumns[j]
  <2>1. PICK x \in rows : x.position = j
    BY <1>7
  <2>2. PICK c \in ColumnsOf(v, k), d \in ColumnsOf(v, p) :
           c.column = x.column /\ d.column = x.parentColumn
    BY <1>3
  <2>3. /\ \E e \in ColumnsOfTable(v, k.owner, k.table) : e.name = c.column
        /\ \E e \in ColumnsOfTable(v, p.owner, p.table) : e.name = d.column
    BY <1>4 DEF KeyIsSound
  <2>4. QED
    BY <1>4, <1>8, <1>10, <2>1, <2>2, <2>3
<1>14. ASSUME NEW c \in v.consColumns, NEW d \in v.consColumns,
              c.owner = Owner, c.name = k.name, d.owner = Owner, d.name = k.rName,
              c.position = d.position
       PROVE  /\ Positioned(rows)[c.position] = c.column
              /\ parentColumns[c.position] = d.column
  <2>1. c \in ColumnsOf(v, k) /\ d \in ColumnsOf(v, p)
    BY <1>3, <1>4, <1>14 DEF ColumnsOf
  <2>2. PICK x \in rows : /\ x.position = c.position /\ x.column = c.column
                          /\ x.parentColumn = d.column
    BY <1>3, <1>14, <2>1
  <2>3. QED
    BY <1>8, <1>10, <2>2
<1>15. /\ r.name = k.name /\ r.kind = "declared" /\ r.child = k.table
       /\ ForeignKeyRows(v, k) # {}
       /\ Len(r.childColumns) = n /\ Len(r.parentColumns) = n
  BY <1>1, <1>3, <1>8, <1>9, <1>11
<1>16. /\ \A j \in 1..n :
             /\ \E c \in ColumnsOfTable(v, Owner, r.child) : c.name = r.childColumns[j]
             /\ \E c \in ColumnsOfTable(v, Owner, r.parent) : c.name = r.parentColumns[j]
       /\ \A c, d \in v.consColumns :
             /\ c.owner = Owner /\ c.name = k.name
             /\ d.owner = Owner /\ d.name = k.rName
             /\ c.position = d.position
             => /\ r.childColumns[c.position] = c.column
                /\ r.parentColumns[c.position] = d.column
  BY <1>11, <1>13, <1>14
<1>17. QED
  BY <1>12, <1>15, <1>16 DEF r

\* The relationships of a scan that nobody disturbed: one for each foreign key
\* of the schema, and the inferred ones.
LEMMA RelationshipsKnown ==
    ASSUME DictionaryIsSound, KeysStayInSchema,
           TypeOK, PhaseInv, ReadInv, place \in {"check", "done"},
           NEW keys, keys = {k \in db.constraints : k.owner = Owner /\ k.type = "R"},
           NEW declared, declared = {ForeignKey(db, k) : k \in keys}
    PROVE  /\ relationships = declared \cup InferredFrom(tables, declared)
           /\ {r \in relationships : r.kind = "declared"} = declared
<1>1. now \in DOMAIN Versions /\ db = Versions[now] /\ tables \in Seq(ToSet(tables))
  BY DEF TypeOK, db
<1>2. \A k \in keys : /\ ForeignKeyRows(db, k) # {}
                      /\ ForeignKey(db, k).kind = "declared"
                      /\ {ForeignKey(db, k).child, ForeignKey(db, k).parent}
                            \subseteq TableNames(db)
  BY <1>1, ForeignKeyFacts
<1>3. {tables[i].name : i \in 1..Len(tables)} = TableNames(db)
  <2>1. names = {} /\ info = {}
    BY DEF ReadInv, PhaseInv
  <2>2. names \cup {t.name : t \in info \cup ToSet(tables)} = TableNames(db)
    BY DEF ReadInv
  <2>3. ToSet(tables) = {tables[i] : i \in 1..Len(tables)}
    BY <1>1 DEF ToSet
  <2>4. QED
    BY <2>1, <2>2, <2>3
<1>4. declared = {r \in DeclaredForeignKeys(db) :
                     {r.parent, r.child} \subseteq {tables[i].name : i \in 1..Len(tables)}}
  <2>1. DeclaredForeignKeys(db) = declared
    BY <1>2 DEF DeclaredForeignKeys
  <2>2. \A r \in declared : {r.parent, r.child} \subseteq TableNames(db)
    BY <1>2
  <2>3. QED
    BY <1>3, <2>1, <2>2
<1>5. relationships = declared \cup InferredFrom(tables, declared)
  <2>1. relationships = Derived(tables)
    BY DEF ReadInv
  <2>2. QED
    BY <1>4, <2>1, Zenon DEF Derived
<1>6. \A r \in declared : r.kind = "declared"
  BY <1>2
<1>7. \A r \in InferredFrom(tables, declared) : r.kind = "inferred"
  BY <1>1, InferListed DEF InferredFrom
<1>8. QED
  BY <1>5, <1>6, <1>7

\* OracleSchemaReader.cpp:283-348: a scan that nobody disturbed reports every
\* foreign key of the schema once, its columns paired as the dictionary pairs
\* them.
THEOREM DeclaredKeysAreExact ==
    ASSUME DictionaryIsSound, KeysStayInSchema PROVE Spec => []DeclaredKeysExact
<1>1. InductiveInvariant /\ ReadInv => DeclaredKeysExact
  <2> DEFINE declared == {r \in relationships : r.kind = "declared"}
             keys == {k \in db.constraints :
                         k.owner = Owner /\ k.type = "R" /\ k.rOwner = Owner}
             Paired(k, r) ==
                \A c, d \in db.consColumns :
                    /\ c.owner = Owner /\ c.name = k.name
                    /\ d.owner = Owner /\ d.name = k.rName
                    /\ c.position = d.position
                    => /\ r.childColumns[c.position] = c.column
                       /\ r.parentColumns[c.position] = d.column
  <2> SUFFICES ASSUME InductiveInvariant, ReadInv, Undisturbed
               PROVE  /\ Cardinality(declared) = Cardinality(keys)
                      /\ \A k \in keys : \E r \in declared :
                            r.name = k.name /\ r.child = k.table /\ Paired(k, r)
    BY Zenon DEF DeclaredKeysExact
  <2>1. now \in DOMAIN Versions /\ db = Versions[now]
    BY DEF InductiveInvariant, TypeOK, db
  <2>2. keys = {k \in db.constraints : k.owner = Owner /\ k.type = "R"}
    BY <2>1 DEF KeysStayInSchema
  <2>3. declared = {ForeignKey(db, k) : k \in keys}
    BY <2>2, RelationshipsKnown DEF InductiveInvariant, Undisturbed
  <2>4. ASSUME NEW k \in keys
        PROVE  LET r == ForeignKey(db, k)
               IN  r.name = k.name /\ r.child = k.table /\ Paired(k, r)
    BY <2>1, ForeignKeyFacts
  <2>5. IsFiniteSet(keys) /\ \A k, l \in keys : k.name = l.name => k = l
    <3>1. IsFiniteSet(db.constraints) /\ keys \subseteq db.constraints
      BY <2>1 DEF DictionaryIsSound
    <3>2. \A k, l \in db.constraints : k.owner = l.owner /\ k.name = l.name => k = l
      BY <2>1 DEF DictionaryIsSound
    <3>3. QED
      BY <3>1, <3>2, FS_Subset
  <2> HIDE DEF keys, declared
  <2> DEFINE f == [k \in keys |-> ForeignKey(db, k)]
  <2>6. f \in Bijection(keys, declared)
    <3>1. f \in [keys -> declared] /\ \A r \in declared : \E k \in keys : f[k] = r
      BY <2>3
    <3>2. \A k, l \in keys : f[k] = f[l] => k = l
      BY <2>4, <2>5
    <3>3. QED
      BY <3>1, <3>2 DEF Bijection, Injection, Surjection, IsInjective
  <2>7. Cardinality(declared) = Cardinality(keys)
    <3>1. ExistsBijection(keys, declared)
      BY <2>6 DEF ExistsBijection
    <3>2. QED
      BY <2>5, <3>1, FS_Bijection
  <2>8. QED
    BY <2>3, <2>4, <2>7
<1>2. Spec => [](InductiveInvariant /\ (Quiet => ReadInv))
  BY ReadInvariance
<1>3. Undisturbed => Quiet
  BY DEF Undisturbed, Quiet
<1>4. ~Undisturbed => DeclaredKeysExact
  BY DEF DeclaredKeysExact
<1>5. QED
  BY <1>1, <1>2, <1>3, <1>4, PTL

\* Every relationship pairs as many columns of two tables of the schema: for the
\* owner of the schema Oracle does not refuse the statements of checkOrphans().
LEMMA RelationshipsQueryable ==
    ASSUME DictionaryIsSound, KeysStayInSchema, SessionUser = Owner,
           TypeOK, PhaseInv, ReadInv, place \in {"check", "done"}, NEW r \in relationships
    PROVE  CanQuery(db, r) /\ Len(r.childColumns) = Len(r.parentColumns)
<1>1. now \in DOMAIN Versions /\ db = Versions[now] /\ tables \in Seq(ToSet(tables))
  BY DEF TypeOK, db
<1>2. PICK keys : keys = {k \in db.constraints : k.owner = Owner /\ k.type = "R"}
  OBVIOUS
<1>3. PICK declared : declared = {ForeignKey(db, k) : k \in keys}
  OBVIOUS
<1>4. r \in declared \cup Infer(tables, declared)
  BY <1>2, <1>3, RelationshipsKnown DEF InferredFrom
<1>5. /\ Len(r.childColumns) = Len(r.parentColumns)
      /\ \A j \in 1..Len(r.childColumns) :
            /\ \E c \in ColumnsOfTable(db, Owner, r.child) : c.name = r.childColumns[j]
            /\ \E c \in ColumnsOfTable(db, Owner, r.parent) : c.name = r.parentColumns[j]
  <2>1. CASE r \in declared
    <3>1. PICK k \in keys : r = ForeignKey(db, k)
      BY <1>3, <2>1
    <3>2. k \in db.constraints /\ k.owner = Owner /\ k.type = "R"
      BY <1>2
    <3>3. QED
      BY <1>1, <3>1, <3>2, ForeignKeyFacts
  <2>2. CASE r \in Infer(tables, declared)
    <3>1. PICK t \in ToSet(tables) : \E c \in ToSet(t.columns) : \E u \in ToSet(tables) :
             \E k \in ToSet(u.columns) :
                r = [kind |-> "inferred",
                     child |-> t.name, childColumns |-> <<c.name>>,
                     parent |-> u.name, parentColumns |-> <<k.name>>]
      BY <1>1, <2>2, InferListed
    <3>2. PICK c \in ToSet(t.columns) : \E u \in ToSet(tables) : \E k \in ToSet(u.columns) :
             r = [kind |-> "inferred",
                  child |-> t.name, childColumns |-> <<c.name>>,
                  parent |-> u.name, parentColumns |-> <<k.name>>]
      BY <3>1
    <3>3. PICK u \in ToSet(tables) : \E k \in ToSet(u.columns) :
             r = [kind |-> "inferred",
                  child |-> t.name, childColumns |-> <<c.name>>,
                  parent |-> u.name, parentColumns |-> <<k.name>>]
      BY <3>2
    <3>4. PICK k \in ToSet(u.columns) :
             r = [kind |-> "inferred",
                  child |-> t.name, childColumns |-> <<c.name>>,
                  parent |-> u.name, parentColumns |-> <<k.name>>]
      BY <3>3
    <3>5. ASSUME NEW x \in ToSet(tables), NEW d \in ToSet(x.columns)
          PROVE  d \in ColumnsOfTable(db, Owner, x.name)
      <4>1. x.columns = FetchColumns(db, x.name)
        <5>1. "columns" \in DOMAIN x \ {"name"}
          BY DEF TypeOK
        <5>2. x["columns"] = Fetch(db, x.name, "columns")
          BY <5>1 DEF ReadInv
        <5>3. QED
          BY <5>2 DEF Fetch
      <4>2. x.name \in TableNames(db)
        BY DEF ReadInv, PhaseInv
      <4>3. PICK y \in db.tables : y.owner = Owner /\ y.name = x.name
        BY <4>2 DEF TableNames, TablesOf
      <4> DEFINE rows == ColumnsOfTable(db, Owner, x.name)
      <4>4. Numbered(rows, ColumnId(rows))
        BY <1>1, <4>3 DEF DictionaryIsSound
      <4>5. d \in ToSet(InOrder(rows, ColumnId(rows)))
        BY <4>1 DEF FetchColumns
      <4> HIDE DEF rows
      <4>6. DOMAIN ColumnId(rows) = rows
        BY DEF ColumnId
      <4>7. InOrder(rows, ColumnId(rows)) \in Seq(rows)
        BY <4>4, <4>6, InOrderNumbered
      <4>8. d \in rows
        BY <4>5, <4>7 DEF ToSet
      <4>9. QED
        BY <4>8 DEF rows
    <3>6. c \in ColumnsOfTable(db, Owner, t.name) /\ k \in ColumnsOfTable(db, Owner, u.name)
      BY <3>5
    <3>7. /\ r.child = t.name /\ r.childColumns = <<c.name>>
          /\ r.parent = u.name /\ r.parentColumns = <<k.name>>
      BY <3>4
    <3>8. Len(r.childColumns) = 1 /\ Len(r.parentColumns) = 1
      BY <3>7
    <3>9. r.childColumns[1] = c.name /\ r.parentColumns[1] = k.name
      BY <3>7
    <3>10. QED
      BY <3>6, <3>7, <3>8, <3>9
  <2>3. QED
    BY <1>4, <2>1, <2>2
<1>6. ASSUME NEW table, NEW columns,
             \A j \in 1..Len(columns) :
                \E c \in ColumnsOfTable(db, Owner, table) : c.name = columns[j]
      PROVE  HasColumns(db, table, columns)
  <2>1. ASSUME NEW j \in 1..Len(columns)
        PROVE  \E c \in db.columns : /\ c.owner = SessionUser /\ c.table = table
                                     /\ c.name = columns[j]
    <3>1. PICK c \in ColumnsOfTable(db, Owner, table) : c.name = columns[j]
      BY <1>6
    <3>2. c \in db.columns /\ c.owner = SessionUser /\ c.table = table
      BY DEF ColumnsOfTable
    <3>3. QED
      BY <3>1, <3>2
  <2>2. QED
    BY <2>1 DEF HasColumns
<1>7. CanQuery(db, r)
  BY <1>5, <1>6 DEF CanQuery
<1>8. QED
  BY <1>5, <1>7

\* The statements of checkOrphans() select the rows that the foreign key,
\* enabled, would reject.
LEMMA OrphansRejected ==
    ASSUME SessionUser = Owner, NEW r, Len(r.childColumns) = Len(r.parentColumns)
    PROVE  \A c : c \in Orphans(db, r) <=>
              /\ c \in OwnRows(r.child)
              /\ Null \notin ToSet(KeyOf(c, r.childColumns))
              /\ \A p \in OwnRows(r.parent) :
                    KeyOf(c, r.childColumns) # KeyOf(p, r.parentColumns)
<1> DEFINE n == Len(r.childColumns)
           key(c) == KeyOf(c, r.childColumns)
<1>1. RowsOf(db, r.child) = OwnRows(r.child) /\ RowsOf(db, r.parent) = OwnRows(r.parent)
  BY DEF RowsOf, OwnRows
<1>2. ASSUME NEW c
      PROVE  Null \notin ToSet(key(c)) <=> \A i \in 1..n : c.value[r.childColumns[i]] # Null
  BY DEF KeyOf, ToSet
<1>3. ASSUME NEW c, Null \notin ToSet(key(c)), NEW p
      PROVE  Joins(r, p, c) <=> key(c) = KeyOf(p, r.parentColumns)
  <2>1. key(c) = [i \in 1..n |-> c.value[r.childColumns[i]]]
    BY DEF KeyOf
  <2>2. KeyOf(p, r.parentColumns) = [i \in 1..n |-> p.value[r.parentColumns[i]]]
    BY DEF KeyOf
  <2>3. Joins(r, p, c) <=> \A i \in 1..n : /\ p.value[r.parentColumns[i]] # Null
                                           /\ p.value[r.parentColumns[i]]
                                                = c.value[r.childColumns[i]]
    BY DEF Joins
  <2>4. \A i \in 1..n : c.value[r.childColumns[i]] # Null
    BY <1>2, <1>3
  <2> HIDE DEF n
  <2>5. key(c) = KeyOf(p, r.parentColumns) <=>
           \A i \in 1..n : c.value[r.childColumns[i]] = p.value[r.parentColumns[i]]
    BY <2>1, <2>2
  <2>6. QED
    BY <2>3, <2>4, <2>5
<1>4. QED
  BY <1>1, <1>2, <1>3 DEF Orphans

\* Nobody interferes: every relationship is checked, and its finding is exact.
LEMMA CheckStep ==
    ASSUME DictionaryIsSound, KeysStayInSchema, SessionUser = Owner,
           TypeOK, PhaseInv, Quiet => ReadInv, Quiet => CheckInv, [Next]_vars
    PROVE  Quiet' => CheckInv'
<1> SUFFICES ASSUME Quiet' PROVE CheckInv'
  OBVIOUS
<1>1. ReadInv /\ CheckInv /\ now' = now /\ ~Change /\ ~UnitFails
  BY QuietStep
<1>2. db' = db
  BY <1>1 DEF db
<1>3. \A f : Exact(f)' <=> Exact(f)
  BY <1>2 DEF Exact
<1>4. ASSUME UNCHANGED <<relationships, unchecked, counted, findings>>,
             place' = "done" => unchecked = {}
      PROVE  CheckInv'
  BY <1>1, <1>2, <1>3, <1>4 DEF CheckInv
<1>5. CASE DeriveRelationships
  <2>1. counted = {}
    BY <1>5 DEF DeriveRelationships, PhaseInv
  <2>2. /\ place' = "check" /\ counted' = {} /\ relationships' \ unchecked' = {}
    BY <1>5, <2>1 DEF DeriveRelationships
  <2>3. QED
    BY <2>2 DEF CheckInv
<1>6. ASSUME NEW r \in unchecked, CountOrphans(r) PROVE CheckInv'
  <2> DEFINE finding == [relationship |-> r, sample |-> {},
                         orphans |-> Cardinality(Orphans(db, r))]
             Known(f) == f.relationship = r /\ f.orphans = Cardinality(Orphans(db, r))
  <2>1. /\ place = "check" /\ counted = {} /\ unchecked' = unchecked \ {r}
        /\ place' = place /\ relationships' = relationships
    BY <1>6 DEF CountOrphans
  <2>2. r \in relationships
    BY DEF TypeOK
  <2>3. CanQuery(db, r)
    BY <1>1, <2>1, <2>2, RelationshipsQueryable
  <2>4. IF finding.orphans > 0 /\ SampleSize > 0
        THEN counted' = {finding} /\ UNCHANGED findings
        ELSE findings' = findings \cup {finding} /\ UNCHANGED counted
    BY <1>6, <2>3, Zenon DEF CountOrphans
  <2>5. Known(finding) /\ finding.sample = {} /\ finding.orphans \in Nat
    BY OrphansCount
  <2> HIDE DEF finding
  <2>6. \A s \in relationships \ unchecked : \E f \in findings : f.relationship = s /\ Exact(f)
    BY <1>1, <2>1 DEF CheckInv
  <2>7. relationships' \ unchecked' = (relationships \ unchecked) \cup {r}
    BY <2>1, <2>2
  <2>8. CASE finding.orphans > 0 /\ SampleSize > 0
    <3>1. counted' = {finding} /\ findings' = findings
      BY <2>4, <2>8
    <3>2. \A f \in counted' : f.orphans = Cardinality(Orphans(db', f.relationship))
      BY <1>2, <2>5, <3>1
    <3>3. \A s \in relationships' \ unchecked' :
             \/ \E f \in counted' : f.relationship = s
             \/ \E f \in findings' : f.relationship = s /\ Exact(f)'
      BY <1>3, <2>5, <2>6, <2>7, <3>1
    <3>4. QED
      BY <2>1, <3>1, <3>2, <3>3 DEF CheckInv
  <2>9. CASE ~(finding.orphans > 0 /\ SampleSize > 0)
    <3>1. counted' = {} /\ findings' = findings \cup {finding}
      BY <2>1, <2>4, <2>9
    <3>2. Exact(finding)
      <4>1. Least(SampleSize, finding.orphans) = 0
        BY <2>5, <2>9, SchemaAssumption DEF Least
      <4>2. Cardinality(finding.sample) = 0
        BY <2>5, FS_EmptySet
      <4>3. QED
        BY <2>5, <4>1, <4>2 DEF Exact
    <3>3. \A s \in relationships' \ unchecked' :
             \E f \in findings' : f.relationship = s /\ Exact(f)'
      BY <1>3, <2>5, <2>6, <2>7, <3>1, <3>2
    <3>4. QED
      BY <2>1, <3>1, <3>3 DEF CheckInv
  <2>10. QED
    BY <2>8, <2>9
<1>7. CASE SampleOrphans
  <2>1. PICK f \in counted : \E rows \in SUBSET Orphans(db, f.relationship) :
           /\ Cardinality(rows) = Least(SampleSize, Cardinality(Orphans(db, f.relationship)))
           /\ findings' = findings \cup {[f EXCEPT !.sample = rows]}
    BY <1>7, Zenon DEF SampleOrphans
  <2>2. PICK rows \in SUBSET Orphans(db, f.relationship) :
           /\ Cardinality(rows) = Least(SampleSize, Cardinality(Orphans(db, f.relationship)))
           /\ findings' = findings \cup {[f EXCEPT !.sample = rows]}
    BY <2>1
  <2>3. /\ counted' = {} /\ place' = place /\ place = "check"
        /\ UNCHANGED <<relationships, unchecked>>
    BY <1>7, SampleStep
  <2>4. /\ f \in [relationship : relationships \ unchecked, sample : {{}},
                  orphans : Nat \ {0}]
        /\ f.orphans = Cardinality(Orphans(db, f.relationship))
        /\ \A g \in counted : g = f
    BY <1>1 DEF PhaseInv, CheckInv
  <2> DEFINE finding == [f EXCEPT !.sample = rows]
  <2>5. /\ finding.relationship = f.relationship /\ finding.sample = rows
        /\ finding.orphans = f.orphans
    BY <2>4
  <2> HIDE DEF finding
  <2>6. Exact(finding)
    BY <2>2, <2>4, <2>5 DEF Exact
  <2>7. findings' = findings \cup {finding}
    BY <2>2 DEF finding
  <2>8. \A s \in relationships \ unchecked :
           \/ s = f.relationship
           \/ \E g \in findings : g.relationship = s /\ Exact(g)
    BY <1>1, <2>4 DEF CheckInv
  <2>9. \A s \in relationships' \ unchecked' :
           \E g \in findings' : g.relationship = s /\ Exact(g)'
    BY <1>3, <2>3, <2>5, <2>6, <2>7, <2>8
  <2>10. QED
    BY <2>3, <2>9 DEF CheckInv
<1>8. CASE SampleRefused
  <2>1. PICK f \in counted : ~CanQuery(db, f.relationship)
    BY <1>8 DEF SampleRefused
  <2>2. f.relationship \in relationships /\ place = "check"
    BY DEF PhaseInv
  <2>3. QED
    BY <1>1, <2>1, <2>2, RelationshipsQueryable
<1>9. CASE UNCHANGED <<relationships, unchecked, counted, findings>>
           /\ (place' = "done" => place = "done")
  BY <1>1, <1>4, <1>9 DEF CheckInv
<1>10. CASE ReadPart \/ ListTables \/ ReadAll \/ \E name \in names : BeginTable(name)
  BY <1>9, <1>10 DEF ReadPart, ListTables, ReadAll, BeginTable, PhaseInv
<1>11. CASE CheckedAll
  BY <1>4, <1>11 DEF CheckedAll
<1>12. CASE UNCHANGED vars
  BY <1>9, <1>12 DEF vars
<1>13. QED
  BY <1>1, <1>5, <1>6, <1>7, <1>8, <1>10, <1>11, <1>12 DEF Next, vars

\* OracleConsistencyChecker.cpp:24-96: where the connections belong to the owner of
\* the schema, a scan that nobody disturbed has a finding for every relationship,
\* which counts the rows that the foreign key, enabled, would reject, and shows
\* as many of them as --sample-size allows.
THEOREM FindingsAreExact ==
    ASSUME DictionaryIsSound, KeysStayInSchema, SessionUser = Owner PROVE Spec => []FindingsExact
<1>1. Init => CheckInv
  BY DEF Init, CheckInv
<1>2. /\ InductiveInvariant /\ (Quiet => ReadInv) /\ (Quiet => CheckInv) /\ [Next]_vars
      => (Quiet => CheckInv)'
  BY CheckStep DEF InductiveInvariant
<1>3. Spec => [](InductiveInvariant /\ (Quiet => ReadInv))
  BY ReadInvariance
<1>4. Spec => [](Quiet => CheckInv)
  BY <1>1, <1>2, <1>3, PTL DEF Spec
<1>5. InductiveInvariant /\ (Quiet => ReadInv /\ CheckInv) => FindingsExact
  <2> SUFFICES ASSUME InductiveInvariant, Quiet => ReadInv /\ CheckInv PROVE FindingsExact
    OBVIOUS
  <2> DEFINE Parents(r) == {KeyOf(p, r.parentColumns) : p \in OwnRows(r.parent)}
             Rejected(r) == {c \in OwnRows(r.child) :
                               LET key == KeyOf(c, r.childColumns)
                               IN  Null \notin ToSet(key) /\ key \notin Parents(r)}
             Good(f, r) == /\ f.relationship = r
                           /\ f.orphans = Cardinality(Rejected(r))
                           /\ f.sample \subseteq Rejected(r)
                           /\ Cardinality(f.sample) = Least(SampleSize, f.orphans)
  <2>1. ASSUME Undisturbed, NEW r \in relationships
        PROVE  \E f \in findings : Good(f, r)
    <3>1. ReadInv /\ CheckInv /\ place = "done"
      BY <2>1 DEF Undisturbed, Quiet
    <3>2. counted = {} /\ unchecked = {}
      BY <3>1 DEF CheckInv, PhaseInv, InductiveInvariant
    <3>3. PICK f \in findings : f.relationship = r /\ Exact(f)
      BY <3>1, <3>2 DEF CheckInv
    <3>4. Len(r.childColumns) = Len(r.parentColumns)
      BY <3>1, RelationshipsQueryable DEF InductiveInvariant
    <3>5. Orphans(db, r) = Rejected(r)
      <4>1. \A c : c \in Orphans(db, r) <=>
               /\ c \in OwnRows(r.child)
               /\ Null \notin ToSet(KeyOf(c, r.childColumns))
               /\ \A p \in OwnRows(r.parent) :
                     KeyOf(c, r.childColumns) # KeyOf(p, r.parentColumns)
        BY <3>4, OrphansRejected
      <4>2. \A c : c \in Rejected(r) <=>
               /\ c \in OwnRows(r.child)
               /\ Null \notin ToSet(KeyOf(c, r.childColumns))
               /\ \A p \in OwnRows(r.parent) :
                     KeyOf(c, r.childColumns) # KeyOf(p, r.parentColumns)
        OBVIOUS
      <4>3. QED
        BY <4>1, <4>2
    <3>6. Good(f, r)
      BY <3>3, <3>5 DEF Exact
    <3>7. QED
      BY <3>6
  <2>2. SamplesFit
    BY DEF InductiveInvariant
  <2>3. QED
    BY <2>1, <2>2, Zenon DEF FindingsExact
<1>6. QED
  BY <1>3, <1>4, <1>5, PTL

==============================================================================
