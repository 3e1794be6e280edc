---------------------------- MODULE ResumableScan ----------------------------
(***************************************************************************)
(* What a scan that may be stopped, crash and be resumed promises to the   *)
(* one who launches it, without threads, queues or rows                    *)
(* (src/README.md, "Checkpoint / resume / apagado ordenado"): a result     *)
(* that was stored once is not read again, a report shows the stored       *)
(* results of what the launch was to deal with, all of them, and a scan    *)
(* that calls itself complete has left nothing out.  Where the launch may  *)
(* fail to find a stored result, that one unit is in doubt: it is read     *)
(* once more, or the report of a partial scan is without it.               *)
(***************************************************************************)
CONSTANTS
    Units,      \* the tables and relationships there may be
    MayDoubt    \* a stored result may not be found

VARIABLES
    state,      \* what the launch is doing, or how the last one ended
    plan,       \* the units the launch knows it has to deal with
    reading,    \* the units being read
    stored,     \* the units whose result is kept
    doubted,    \* those of them the launch has not found
    erred,      \* the units whose last reading failed
    shown       \* the units in the launch's report

scanVars == <<state, plan, reading, stored, doubted, erred, shown>>

\* A report is about to be written of a complete or of a partial scan.
Reported == {"complete", "partial"}

ScanInit ==
    /\ state = "none"
    /\ plan = {} /\ reading = {} /\ stored = {} /\ doubted = {}
    /\ erred = {} /\ shown = {}

Scanning == state = "scanning" /\ UNCHANGED state

\* All that is stored of the plan is shown, unless it is in doubt, and nothing
\* is being read.
Settled == reading = {} /\ shown = (stored \cap plan) \ doubted

Launch ==
    /\ state \notin Reported \cup {"scanning"}
    /\ state' \in {"scanning", "refused"}
    /\ UNCHANGED <<plan, reading, stored, doubted, erred, shown>>

\* The units of the next phase are known once those of the last are settled.
Extend ==
    /\ Scanning /\ Settled
    /\ plan' \in SUBSET Units /\ plan \subseteq plan'
    /\ UNCHANGED <<reading, stored, doubted, erred, shown>>

\* A stored result is not found.
Doubt(u) ==
    /\ Scanning /\ MayDoubt
    /\ u \in (stored \cap plan) \ (shown \cup doubted)
    /\ doubted' = doubted \cup {u}
    /\ UNCHANGED <<plan, reading, stored, erred, shown>>

\* Only what is planned is read, unless it is stored without a doubt, and by
\* one at a time.
Begin(u) ==
    /\ Scanning
    /\ u \in plan \ (reading \cup (stored \ doubted))
    /\ reading' = reading \cup {u}
    /\ stored' = stored \ {u}
    /\ doubted' = doubted \ {u}
    /\ erred' = erred \ {u}
    /\ UNCHANGED <<plan, shown>>

Record(u) ==
    /\ Scanning
    /\ u \in reading
    /\ reading' = reading \ {u}
    /\ stored' = stored \cup {u}
    /\ erred' = erred \ {u}
    /\ UNCHANGED <<plan, doubted, shown>>

\* A reading fails; that it did may not be recorded either.
Fail(u) ==
    /\ Scanning
    /\ u \in reading
    /\ reading' = reading \ {u}
    /\ erred' \in {erred, erred \cup {u}}
    /\ UNCHANGED <<plan, stored, doubted, shown>>

\* A result of this launch or of an earlier one goes to the report.
Show(u) ==
    /\ Scanning
    /\ u \in (stored \cap plan) \ (shown \cup doubted)
    /\ shown' = shown \cup {u}
    /\ UNCHANGED <<plan, reading, stored, doubted, erred>>

\* The scan is over.
Conclude ==
    /\ state = "scanning" /\ Settled
    /\ \/ state' = "partial"
       \/ state' = "complete" /\ plan \subseteq shown \cup erred
    /\ UNCHANGED <<plan, reading, stored, doubted, erred, shown>>

\* The launch ends in one of these ways; what is kept is kept.
End(how) ==
    /\ state' \in how
    /\ plan' = {} /\ reading' = {} /\ doubted' = {} /\ shown' = {}
    /\ UNCHANGED <<stored, erred>>

Exit ==
    \/ state = "complete" /\ End({"ok"})
    \/ state = "partial" /\ End({"interrupted"})

Die == state \in Reported \cup {"scanning"} /\ End({"failure", "crash"})

ScanNext ==
    \/ Launch \/ Extend \/ Conclude \/ Exit \/ Die
    \/ \E u \in Units : Doubt(u) \/ Begin(u) \/ Record(u) \/ Fail(u) \/ Show(u)

ScanSpec == ScanInit /\ [][ScanNext]_scanVars

==============================================================================
