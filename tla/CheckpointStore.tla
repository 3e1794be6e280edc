--------------------------- MODULE CheckpointStore ---------------------------
(***************************************************************************)
(* The SQLite checkpoint of a scan (src/src/checkpoint/CheckpointStore).   *)
(* One row per table and one row per relationship hold the unit's progress *)
(* and the result ("payload") of its last successful query; run_info holds *)
(* what is known of the run as a whole.  The rows survive a crash: every   *)
(* statement below is one SQLite transaction under the store's mutex.      *)
(*                                                                         *)
(* The operations are actions over the three variables; the modules that   *)
(* use the store (ScanEngine) conjoin them with their own steps.           *)
(***************************************************************************)

CONSTANTS
    Tables,      \* the table names a listing of the schema may return
    Relations,   \* the relationship ids (Relationship::id())
    Owners,      \* the schemas a scan may be pointed at
    None,        \* SQL NULL: no payload, no run_info row
    Unreadable,  \* a payload the present JSON reader rejects
    ReadMayFail  \* the SELECT of a row may fail: an I/O error, a busy database

ASSUME StoreAssumption ==
    /\ Tables \cap Relations = {}
    /\ None \notin Owners \cup {Unreadable} \cup Tables \cup Relations
    /\ Unreadable \notin Owners
    /\ ReadMayFail \in BOOLEAN

VARIABLES
    status,      \* table_status.status and relation_status.status, by unit
    payload,     \* table_status.payload and relation_status.payload, by unit
    runInfo      \* the run_info rows the program writes

storeVars == <<status, payload, runInfo>>

\* The things a run reads and marks one by one: tables and relationships.
Units == Tables \cup Relations

\* What a row's status column holds; "absent" is a missing row.
RowStatus == {"absent", "pending", "in_progress", "done", "error"}

\* A result is abstracted to the schema it describes.
Payloads == Owners \cup {None, Unreadable}

NoRunInfo == [owner |-> None, status |-> "none"]

\* The type of the store.
StoreTypeOK ==
    /\ status \in [Units -> RowStatus]
    /\ payload \in [Units -> Payloads]
    /\ runInfo \in [owner: Owners \cup {None},
                    status: {"none", "interrupted", "completed"}]

------------------------------------------------------------------------------
(* Queries *)

\* isFreshRun(): run_info has no row.  The first thing ever written to it is
\* the owner, so a store with an owner has rows.
IsFreshRun == runInfo = NoRunInfo

\* Whether a SELECT comes to its end.
Outcomes == {TRUE, ~ReadMayFail}

\* A mistake the runs must notice: unitStatusFromString() without "done".
GetStatusForgetsDone(u, ok) ==
    IF ~ok \/ status[u] \in {"absent", "done"} THEN "pending" ELSE status[u]

\* getStatus(): whatever sqlite3_step() returns but a row is Pending, be it that
\* the unit has none or that the SELECT fails.
GetStatus(u, ok) == IF ~ok \/ status[u] = "absent" THEN "pending" ELSE status[u]

\* getPayload(): likewise, no payload.
GetPayload(u, ok) == IF ok THEN payload[u] ELSE None

------------------------------------------------------------------------------
(* Updates *)

\* upsertStatus() without a payload: COALESCE(excluded.payload, old) keeps
\* the payload of an earlier success.
MarkStatus(u, s) ==
    /\ status' = [status EXCEPT ![u] = s]
    /\ UNCHANGED payload

\* A mistake the runs must notice: the result left to a later statement.
MarkDoneWithoutPayload(u, p) ==
    /\ status' = [status EXCEPT ![u] = "done"]
    /\ UNCHANGED payload

\* upsertStatus() with a payload: status and result in one statement.
MarkDone(u, p) ==
    /\ status' = [status EXCEPT ![u] = "done"]
    /\ payload' = [payload EXCEPT ![u] = p]

\* A mistake the runs must notice: the second UPDATE forgotten.
ResetTablesOnly(U) ==
    status' = [u \in Units |->
                  IF u \in U \cap Tables /\ status[u] = "in_progress"
                  THEN "pending" ELSE status[u]]

\* One UPDATE of resetInProgressToPending(), over the rows of one SQL table.
ResetInProgress(U) ==
    status' = [u \in Units |->
                  IF u \in U /\ status[u] = "in_progress"
                  THEN "pending" ELSE status[u]]

\* setRunInfo() of a run that starts, and of one that ends: an upsert of the
\* given keys in a transaction, so either all of them change or none.
RecordStart(o) == runInfo' = [runInfo EXCEPT !.owner = o]
RecordEnd(s) == runInfo' = [runInfo EXCEPT !.status = s]

==============================================================================
