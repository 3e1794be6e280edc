----------------------------- MODULE MCScanEngine -----------------------------
(***************************************************************************)
(* Small instances of ScanEngine for TLC: ORDERS with a foreign key to     *)
(* CUSTOMERS, and a link back that only a column name suggests.            *)
(***************************************************************************)
EXTENDS ScanEngine, TLC

CONSTANTS orders, customers, owner1, owner2, w1, w2

TwoTables == {orders, customers}

OrderCustomer == [child |-> orders, column |-> "CUSTOMER_ID", parent |-> customers]
CustomerOrder == [child |-> customers, column |-> "ORDER_ID", parent |-> orders]

TwoRelations == {OrderCustomer, CustomerOrder}

\* Name matching would find the declared key as well.
TwoCandidates == TwoRelations

TwoDeclared == [r \in TwoRelations |-> IF r = OrderCustomer THEN 1 ELSE 0]

\* The same id twice: two constraints of one column whose parents have the
\* same name in two schemas.
OneRelation == {OrderCustomer}
DeclaredTwice == [r \in OneRelation |-> 2]

Nothing == {}
OrdersOnly == {orders}

\* A table may be created or dropped between two launches.
SameListing == {TwoTables}
GrowingListing == {OrdersOnly, TwoTables}

OneOwner == {owner1}
TwoOwners == {owner1, owner2}
TwoWorkers == {w1, w2}

WorkerSymmetry == Permutations(TwoWorkers)
==============================================================================
