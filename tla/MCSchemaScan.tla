---------------------------- MODULE MCSchemaScan ----------------------------
(* A schema of three tables with a composite key, and what may become of it. *)
EXTENDS SchemaScan

CONSTANTS own, other, null

CUSTOMER == <<"CUSTOMER">>
CUSTOMERS == <<"CUSTOMER", "S">>
ORDERS == <<"ORDER", "S">>
LINES == <<"LINE", "S">>
ID == <<"ID">>
NO == <<"NO">>
CUSTOMER_ID == <<"CUSTOMER", "_ID">>

MCUpperOf == ("customer" :> "CUSTOMER")

Column(owner, table, name, id, type) ==
    [owner |-> owner, table |-> table, name |-> name, id |-> id, type |-> type]

Constraint(owner, name, type, table, rName) ==
    [owner |-> owner, name |-> name, type |-> type, table |-> table,
     rOwner |-> owner, rName |-> rName]

At(owner, name, column, position) ==
    [owner |-> owner, name |-> name, column |-> column, position |-> position]

Row(owner, table, id, value) ==
    [owner |-> owner, table |-> table, id |-> id, value |-> value]

Customer(owner, id, v) == Row(owner, CUSTOMERS, id, ID :> v)
Pair(owner, table, id, no, c) == Row(owner, table, id, NO :> no @@ CUSTOMER_ID :> c)
Order(id, no, c) == Pair(own, ORDERS, id, no, c)
Line(id, no, c) == Pair(own, LINES, id, no, c)

Index(owner, name, unique, tableOwner, table) ==
    [owner |-> owner, name |-> name, unique |-> unique,
     tableOwner |-> tableOwner, table |-> table]

\* ORDERS names its customer without a foreign key; LINES has a key to ORDERS,
\* whose columns are the other way round.  The other schema has tables of the
\* same names, whose rows are consistent, and constraints and an index of the same
\* names.
Base ==
    [tables |-> {[owner |-> own, name |-> CUSTOMERS, numRows |-> 1],
                 [owner |-> own, name |-> ORDERS, numRows |-> null],
                 [owner |-> own, name |-> LINES, numRows |-> 3],
                 [owner |-> other, name |-> CUSTOMERS, numRows |-> 0],
                 [owner |-> other, name |-> ORDERS, numRows |-> 1],
                 [owner |-> other, name |-> LINES, numRows |-> 1]},
     columns |-> {Column(own, CUSTOMERS, ID, 1, "NUMBER"),
                  Column(own, ORDERS, CUSTOMER_ID, 1, "NUMBER"),
                  Column(own, ORDERS, NO, 2, "NUMBER"),
                  Column(own, LINES, NO, 1, "NUMBER"),
                  Column(own, LINES, CUSTOMER_ID, 2, "NUMBER"),
                  Column(other, CUSTOMERS, CUSTOMER_ID, 1, "NUMBER"),
                  Column(other, CUSTOMERS, ID, 2, "NUMBER"),
                  Column(other, ORDERS, NO, 1, "NUMBER"),
                  Column(other, ORDERS, CUSTOMER_ID, 2, "NUMBER"),
                  Column(other, LINES, NO, 1, "NUMBER"),
                  Column(other, LINES, CUSTOMER_ID, 2, "NUMBER")},
     constraints |-> {Constraint(own, "PK_C", "P", CUSTOMERS, null),
                      Constraint(own, "PK_O", "P", ORDERS, null),
                      Constraint(own, "UK_O", "U", ORDERS, null),
                      Constraint(own, "FK_L", "R", LINES, "PK_O"),
                      Constraint(other, "PK_C", "P", CUSTOMERS, null)},
     consColumns |-> {At(own, "PK_C", ID, 1),
                      At(own, "PK_O", NO, 1), At(own, "PK_O", CUSTOMER_ID, 2),
                      At(own, "UK_O", CUSTOMER_ID, 1),
                      At(own, "FK_L", NO, 1), At(own, "FK_L", CUSTOMER_ID, 2),
                      At(other, "PK_C", CUSTOMER_ID, 1)},
     indexes |-> {Index(own, "IX", FALSE, own, LINES),
                  Index(other, "IX", TRUE, other, LINES)},
     indColumns |-> {At(own, "IX", CUSTOMER_ID, 1), At(own, "IX", NO, 2),
                     At(other, "IX", NO, 1)},
     rows |-> {Customer(own, 1, 1), Customer(other, 1, 2),
               Order(1, 1, 1), Order(2, 1, 2), Order(3, 2, 2),
               Line(1, 1, 1), Line(2, 2, 1), Line(3, 1, null),
               Pair(other, ORDERS, 1, 1, 2), Pair(other, LINES, 1, 1, 2)}]

\* ORDERS gets a foreign key to CUSTOMERS.
Declared ==
    [Base EXCEPT
        !.constraints = @ \cup {Constraint(own, "FK_O", "R", ORDERS, "PK_C")},
        !.consColumns = @ \cup {At(own, "FK_O", CUSTOMER_ID, 1)}]

\* The customers' key gets another name.
Renamed ==
    [Base EXCEPT
        !.columns = (@ \ {Column(own, CUSTOMERS, ID, 1, "NUMBER")})
                    \cup {Column(own, CUSTOMERS, NO, 1, "NUMBER")},
        !.consColumns = (@ \ {At(own, "PK_C", ID, 1)}) \cup {At(own, "PK_C", NO, 1)},
        !.rows = (@ \ {Customer(own, 1, 1)}) \cup {Row(own, CUSTOMERS, 1, NO :> 1)}]

\* The customers are dropped.
Dropped ==
    [Base EXCEPT
        !.tables = @ \ {[owner |-> own, name |-> CUSTOMERS, numRows |-> 1]},
        !.columns = @ \ {Column(own, CUSTOMERS, ID, 1, "NUMBER")},
        !.constraints = @ \ {Constraint(own, "PK_C", "P", CUSTOMERS, null)},
        !.consColumns = @ \ {At(own, "PK_C", ID, 1)},
        !.rows = @ \ {Customer(own, 1, 1)}]

\* The order that made line 2 an orphan arrives, and so do more customers.
Repaired ==
    [Base EXCEPT !.rows = @ \cup {Order(4, 2, 1), Customer(own, 2, 2)}]

\* A table appears whose name is the singular.
Added ==
    [Base EXCEPT
        !.tables = @ \cup {[owner |-> own, name |-> CUSTOMER, numRows |-> null]},
        !.columns = @ \cup {Column(own, CUSTOMER, ID, 1, "NUMBER")},
        !.constraints = @ \cup {Constraint(own, "PK_S", "P", CUSTOMER, null)},
        !.consColumns = @ \cup {At(own, "PK_S", ID, 1)}]

MCVersions == <<Base, Declared, Renamed, Dropped, Repaired, Added>>

ASSUME SoundInstance == DictionaryIsSound /\ KeysStayInSchema /\ IndexesStayInSchema

==============================================================================
