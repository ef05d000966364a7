---------------------------- MODULE ResultStore ----------------------------
(***************************************************************************)
(* The result store of the web server: request threads share one SQLite    *)
(* connection and save results on it without a lock, so they share its     *)
(* transaction, too.  The other tables are written over a second           *)
(* connection, behind a lock.                                              *)
(***************************************************************************)
EXTENDS Naturals, FiniteSets

CONSTANTS
    Savers,      \* request threads that save one result each
    Cleaners,    \* request threads that delete a result
    Writers,     \* request threads that write over the second connection
    StoreFaults  \* subset of {"malformed", "restart"}

VARIABLES
    saver,       \* pc of the threads that save
    cleaner,     \* of the threads that delete, and what they delete
    writer,      \* of the writers: "idle", "locked" (failed) or "done"
    pending,     \* rows inserted and not committed, by result
    disk,        \* rows committed, by result
    removed,     \* results that a pending DELETE takes away
    lastRow,     \* the connection's last_insert_rowid: whose benchmark row it is
    benchOf,     \* the row each saver takes for its benchmark's
    strays,      \* results that got the metrics of another one
    rival,       \* savers that shared the connection with another one (properties only)
    broken,      \* savers whose save raised                     (properties only)
    left         \* a save raised and nothing was committed since (properties only)

storeVars == <<saver, cleaner, writer, pending, disk, removed, lastRow, benchOf, strays, rival,
               broken, left>>
connection == <<pending, disk, removed, lastRow>>
storeHistory == <<rival, broken, left>>

ResultRows == {"run", "bench", "metrics", "hardware"}
SaverPcs == {"new", "bench", "rowid", "metrics", "hardware", "commit", "saved", "error", "lost"}

StoreTypeOK ==
    /\ saver \in [Savers -> SaverPcs]
    /\ cleaner \in [Cleaners -> [pc : {"new", "commit", "done", "lost"}, of : Savers]]
    /\ writer \in [Writers -> {"idle", "locked", "done"}]
    /\ pending \in [Savers -> SUBSET ResultRows] /\ disk \in [Savers -> SUBSET ResultRows]
    /\ removed \subseteq Savers
    /\ lastRow \subseteq Savers /\ Cardinality(lastRow) <= 1
    /\ benchOf \in [Savers -> SUBSET Savers]
    /\ strays \subseteq Savers
    /\ rival \subseteq Savers /\ broken \subseteq Savers /\ left \in BOOLEAN

StoreInit ==
    /\ saver = [s \in Savers |-> "new"]
    /\ cleaner \in [Cleaners -> [pc : {"new"}, of : Savers]]
    /\ writer = [w \in Writers |-> "idle"]
    /\ pending = [s \in Savers |-> {}]
    /\ disk = [s \in Savers |-> {}]
    /\ removed = {}
    /\ lastRow = {}
    /\ benchOf = [s \in Savers |-> {}]
    /\ strays = {}
    /\ rival = {} /\ broken = {} /\ left = FALSE

-----------------------------------------------------------------------------

Saving(s) == saver[s] \in {"bench", "rowid", "metrics", "hardware", "commit"}
Deleting == \E c \in Cleaners : cleaner[c].pc = "commit"

(* The connection's transaction begins with the first row it changes, and  *)
(* from then on holds the database's write lock.                           *)
InTransaction == removed # {} \/ \E s \in Savers : pending[s] # {}

Insert(s, row, pc) ==
    /\ pending' = [pending EXCEPT ![s] = @ \cup {row}]
    /\ saver' = [saver EXCEPT ![s] = pc]

SaveRun(s) ==
    /\ saver[s] = "new"
    /\ Insert(s, "run", "bench")
    /\ rival' = IF \E t \in Savers : Saving(t)
                THEN rival \cup {s} \cup {t \in Savers : Saving(t)}
                ELSE IF Deleting THEN rival \cup {s} ELSE rival
    /\ UNCHANGED <<cleaner, writer, disk, removed, lastRow, benchOf, strays, broken, left>>

(* The row of a benchmark, whose number is read from the connection        *)
(* afterwards.                                                             *)
SaveBenchmark(s) ==
    /\ saver[s] = "bench"
    /\ Insert(s, "bench", "rowid")
    /\ lastRow' = {s}
    /\ UNCHANGED <<cleaner, writer, disk, removed, benchOf, strays, storeHistory>>

LastRowId(s) ==
    /\ saver[s] = "rowid"
    /\ benchOf' = [benchOf EXCEPT ![s] = lastRow]
    /\ saver' = [saver EXCEPT ![s] = "metrics"]
    /\ UNCHANGED <<cleaner, writer, connection, strays, storeHistory>>

SaveMetrics(s) ==
    /\ saver[s] = "metrics"
    /\ Insert(s, "metrics", "hardware")
    /\ strays' = strays \cup (benchOf[s] \ {s})
    /\ UNCHANGED <<cleaner, writer, disk, removed, lastRow, benchOf, storeHistory>>

SaveHardware(s) ==
    /\ saver[s] = "hardware"
    /\ Insert(s, "hardware", "commit")
    /\ UNCHANGED <<cleaner, writer, disk, removed, lastRow, benchOf, strays, storeHistory>>

(* A result whose parts are not what the code expects (a metric that is    *)
(* not a number SQLite takes, a benchmark that is no object): save_result  *)
(* raises and rolls nothing back.                                          *)
SaveRaises(s) ==
    /\ "malformed" \in StoreFaults
    /\ saver[s] \in {"bench", "metrics", "hardware"}
    /\ saver' = [saver EXCEPT ![s] = "error"]
    /\ broken' = broken \cup {s}
    /\ left' = TRUE
    /\ UNCHANGED <<cleaner, writer, connection, benchOf, strays, rival>>

(* commit(): all that is pending, whoever's it is.                         *)
CommitAll ==
    /\ disk' = [s \in Savers |-> (IF s \in removed THEN {} ELSE disk[s]) \cup pending[s]]
    /\ pending' = [s \in Savers |-> {}]
    /\ removed' = {}
    /\ left' = FALSE
    /\ UNCHANGED lastRow

(* Mutant: the save returns and the transaction stays open.                *)
SaveReturns(s) ==
    /\ saver[s] = "commit"
    /\ saver' = [saver EXCEPT ![s] = "saved"]
    /\ UNCHANGED <<cleaner, writer, connection, benchOf, strays, storeHistory>>

SaveCommits(s) ==
    /\ saver[s] = "commit"
    /\ CommitAll
    /\ saver' = [saver EXCEPT ![s] = "saved"]
    /\ UNCHANGED <<cleaner, writer, benchOf, strays, rival, broken>>

(* delete_result, of a result that was saved; foreign keys take its other  *)
(* rows along.                                                             *)
DeleteRun(c) ==
    LET s == cleaner[c].of
    IN /\ cleaner[c].pc = "new" /\ saver[s] \in {"saved", "error"}
       /\ cleaner' = [cleaner EXCEPT ![c].pc = "commit"]
       /\ removed' = removed \cup {s}
       /\ pending' = [pending EXCEPT ![s] = {}]
       /\ rival' = rival \cup {t \in Savers : Saving(t)}
       /\ UNCHANGED <<saver, writer, disk, lastRow, benchOf, strays, broken, left>>

DeleteCommits(c) ==
    /\ cleaner[c].pc = "commit"
    /\ CommitAll
    /\ cleaner' = [cleaner EXCEPT ![c].pc = "done"]
    /\ UNCHANGED <<saver, writer, benchOf, strays, rival, broken>>

(* A write over the second connection: after five seconds without the lock *)
(* it fails, "database is locked".                                         *)
Write(w) ==
    /\ writer[w] = "idle"
    /\ writer' = [writer EXCEPT ![w] = IF InTransaction THEN "locked" ELSE "done"]
    /\ UNCHANGED <<saver, cleaner, connection, benchOf, strays, storeHistory>>

(* The server stops; what was not committed is gone.                       *)
RestartStore ==
    /\ "restart" \in StoreFaults
    /\ saver' = [s \in Savers |-> IF Saving(s) THEN "lost" ELSE saver[s]]
    /\ cleaner' = [c \in Cleaners |-> IF cleaner[c].pc = "commit"
                                      THEN [cleaner[c] EXCEPT !.pc = "lost"] ELSE cleaner[c]]
    /\ pending' = [s \in Savers |-> {}]
    /\ removed' = {} /\ lastRow' = {} /\ left' = FALSE
    /\ UNCHANGED <<writer, disk, benchOf, strays, rival, broken>>

StoreNext ==
    \/ \E s \in Savers :
          \/ SaveRun(s) \/ SaveBenchmark(s) \/ LastRowId(s) \/ SaveMetrics(s) \/ SaveHardware(s)
          \/ SaveRaises(s) \/ SaveCommits(s)
    \/ \E c \in Cleaners : DeleteRun(c) \/ DeleteCommits(c)
    \/ \E w \in Writers : Write(w)
    \/ RestartStore

StoreSpec == StoreInit /\ [][StoreNext]_storeVars

-----------------------------------------------------------------------------

(* A save that has returned is on the disk, as a whole, until it is        *)
(* deleted, whatever the other threads do and even if the server dies.     *)
AcknowledgedIsStored ==
    \A s \in Savers :
        saver[s] = "saved" =>
            \/ disk[s] = ResultRows
            \/ \E c \in Cleaners : cleaner[c].pc # "new" /\ cleaner[c].of = s

(* Part of a result is on the disk, or a result has metrics of another     *)
(* one, only if its save raised or shared the connection with another      *)
(* writer.                                                                 *)
PartialIsExplained ==
    /\ \A s \in Savers : disk[s] \notin {{}, ResultRows} => s \in rival \cup broken
    /\ strays \subseteq rival

(* A save of a result is all or nothing: done once it is acknowledged, and *)
(* never half done unless it raised or shared its transaction.             *)
SavesAreAtomic == AcknowledgedIsStored /\ PartialIsExplained

=============================================================================
