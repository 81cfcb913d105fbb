---------------------------- MODULE SqliteDriver ----------------------------
(***************************************************************************)
(* The database/sql driver of gosqlite: connections to one database file,  *)
(* each used by one goroutine at a time as database/sql does it, over the  *)
(* SQLite library (external), whose locks make statements and commits fail *)
(* with BUSY.  A connection has one prepared statement that writes and one *)
(* that reads.                                                             *)
(***************************************************************************)
EXTENDS Naturals, FiniteSets

CONSTANTS
    Conns3,    \* driver connections (package sqlite3)
    Conns1,    \* connections of the earlier API (package sqlite)
    MaxChanges \* bound: the changes that are written

Handles == Conns3 \cup Conns1

ASSUME SqliteAssumption ==
    MaxChanges \in Nat /\ Conns3 \cap Conns1 = {} /\ IsFiniteSet(Handles)

VARIABLES
    file,    \* SQLite: the changes in the database
    db,      \* SQLite: a connection's transaction and locks
    writer,  \* SQLite: what the last step of the writing statement left
    reader,  \* SQLite: where the reading statement is
    next,    \* the number of the next change
    txFlag,  \* conn.tx, and the Tx that database/sql holds
    inTx,    \* the changes that were made in the Tx
    rows,    \* stmt.rows, and the Rows that database/sql holds
    \* History:
    acked,   \* changes whose success was reported, in a Tx that of its Commit
    denied,  \* changes whose failure was reported, or that were rolled back
    spoiled  \* connections on which a Commit or Rollback has failed

sqliteVars == <<file, db, writer, reader>>
driverVars == <<next, txFlag, inTx, rows, acked, denied, spoiled>>
sqlVars == <<sqliteVars, driverVars>>

Closed == [auto |-> TRUE, pending |-> {}, read |-> FALSE, waits |-> FALSE]

SqlInit ==
    /\ file = {}
    /\ db = [c \in Handles |-> Closed]
    /\ writer = [c \in Handles |-> "reset"]
    /\ reader = [c \in Handles |-> "reset"]
    /\ next = 1
    /\ txFlag = [c \in Handles |-> FALSE]
    /\ inTx = [c \in Handles |-> {}]
    /\ rows = [c \in Handles |-> FALSE]
    /\ acked = {} /\ denied = {} /\ spoiled = {}

-----------------------------------------------------------------------------
(* SQLite. *)

Shared(c) == reader[c] = "row" \/ db[c].read
Reserved(c) == db[c].pending # {}
Others(c) == Handles \ {c}

\* A transaction ends: the locks go, but not that of a statement in progress.
Ends(c, changes) ==
    /\ file' = file \cup changes
    /\ db' = [db EXCEPT ![c] = Closed]

\* sqlite3_step of the writing statement: DONE, or an error.  One that needs
\* the whole transaction rolled back (a full disk) takes it along.
StepWrites(c, k, ok) ==
    IF ok
    THEN /\ \A d \in Others(c) : ~Reserved(d) /\ ~db[d].waits
         /\ IF db[c].auto
            THEN (\A d \in Others(c) : ~Shared(d)) /\ Ends(c, {k})
            ELSE /\ db' = [db EXCEPT ![c].pending = @ \cup {k}]
                 /\ UNCHANGED file
         /\ writer' = [writer EXCEPT ![c] = "done"]
    ELSE /\ writer' = [writer EXCEPT ![c] = "failed"]
         /\ \/ UNCHANGED <<db, file>>
            \/ ~db[c].auto /\ Ends(c, {})

\* sqlite3_step of the reading statement: a row, the end or an error.
StepReads(c, outcome) ==
    /\ outcome \in {"row", "done"} => \A d \in Others(c) : ~db[d].waits
    /\ reader' = [reader EXCEPT ![c] = outcome]
    /\ db' = [db EXCEPT ![c].read = @ \/ (~db[c].auto /\ outcome # "failed")]
    /\ UNCHANGED <<file, writer>>

Begins(c) == db[c].auto /\ db' = [db EXCEPT ![c].auto = FALSE] /\ UNCHANGED file
Commits(c) ==
    /\ ~db[c].auto
    /\ db[c].pending # {} => \A d \in Others(c) : ~Shared(d)
    /\ Ends(c, db[c].pending)
\* A commit that readers block lets no new ones in until it is tried again.
CommitFails(c) ==
    /\ UNCHANGED file
    /\ \/ db[c].auto /\ UNCHANGED db
       \/ ~db[c].auto /\ db' = [db EXCEPT ![c].waits = db[c].pending # {}]
Rollbacks(c) == ~db[c].auto /\ Ends(c, {})
RollbackFails(c) == (db[c].auto \/ reader[c] = "row") /\ UNCHANGED <<db, file>>

-----------------------------------------------------------------------------
(* Mistakes the code does not make; each must break a property. *)

BugAnyResult(c, ok) == TRUE
BugNoResult(c, ok) == FALSE
BugNeverFlags(c, ok) == UNCHANGED txFlag
-----------------------------------------------------------------------------
(* The driver, and the earlier API, of which Exec prepares and finalizes a     *)
(* statement every time and which knows of transactions only what was asked.   *)

\* The flag tells whether database/sql may ask for a transaction or its end.
Flags(c, ok) == txFlag' = [txFlag EXCEPT ![c] = ok]

Begin(c) ==
    /\ ~txFlag[c]
    /\ \/ Begins(c) /\ Flags(c, TRUE)
       \/ ~db[c].auto /\ UNCHANGED <<file, db>> /\ Flags(c, FALSE)
    /\ UNCHANGED <<writer, reader, next, inTx, rows, acked, denied, spoiled>>

\* The Tx is over even if SQLite has refused to end the transaction; the earlier
\* API leaves it to its user to try again.
EndFails(c) ==
    IF c \in Conns3
    THEN txFlag' = [txFlag EXCEPT ![c] = FALSE] /\ inTx' = [inTx EXCEPT ![c] = {}]
         /\ spoiled' = spoiled \cup {c}
    ELSE UNCHANGED <<txFlag, inTx, spoiled>>
Over(c) ==
    /\ txFlag' = [txFlag EXCEPT ![c] = FALSE]
    /\ inTx' = [inTx EXCEPT ![c] = {}]
    /\ UNCHANGED spoiled

Commit(c) ==
    /\ txFlag[c]
    /\ \/ Commits(c) /\ acked' = acked \cup inTx[c] /\ Over(c)
       \/ CommitFails(c) /\ UNCHANGED acked /\ EndFails(c)
    /\ UNCHANGED <<writer, reader, next, rows, denied>>

Rollback(c) ==
    /\ txFlag[c]
    /\ \/ Rollbacks(c) /\ denied' = denied \cup inTx[c] /\ Over(c)
       \/ RollbackFails(c) /\ UNCHANGED denied /\ EndFails(c)
    /\ UNCHANGED <<writer, reader, next, rows, acked>>

\* What Exec reports: success if the step was DONE.
Good(c, ok) == ok
Reports(c, k, ok) ==
    IF Good(c, ok)
    THEN /\ IF txFlag[c] THEN inTx' = [inTx EXCEPT ![c] = @ \cup {k}] /\ UNCHANGED acked
            ELSE acked' = (IF c \in spoiled THEN acked ELSE acked \cup {k}) /\ UNCHANGED inTx
         /\ UNCHANGED denied
    ELSE denied' = denied \cup {k} /\ UNCHANGED <<inTx, acked>>

\* stmt.start: reset returns the error of the step before, and Exec returns it
\* without a step of its own.
ResetFails(c) == c \in Conns3 /\ writer[c] = "failed"
FailsAgain(c, k) ==
    /\ writer' = [writer EXCEPT ![c] = "reset"]
    /\ Reports(c, k, FALSE)
    /\ UNCHANGED <<file, db>>

Exec(c) ==
    /\ next <= MaxChanges
    /\ next' = next + 1
    /\ IF ResetFails(c) THEN FailsAgain(c, next)
       ELSE \E ok \in BOOLEAN : StepWrites(c, next, ok) /\ Reports(c, next, ok)
    /\ UNCHANGED <<reader, txFlag, rows, spoiled>>

\* stmt.Query: the reset ends what an earlier Query has left.
Query(c) ==
    /\ ~rows[c]
    /\ rows' = [rows EXCEPT ![c] = reader[c] # "failed"]
    /\ reader' = [reader EXCEPT ![c] = "reset"]
    /\ UNCHANGED <<file, db, writer, next, txFlag, inTx, acked, denied, spoiled>>

RowsNext(c) ==
    /\ rows[c] /\ reader[c] \in {"reset", "row"}
    /\ \E outcome \in {"row", "done", "failed"} : StepReads(c, outcome)
    /\ UNCHANGED <<driverVars>>

\* rows.Close leaves the statement where it is, and its lock; Stmt.Reset of the
\* earlier API does not.
RowsClose(c) ==
    /\ rows[c]
    /\ rows' = [rows EXCEPT ![c] = FALSE]
    /\ reader' = IF c \in Conns1 THEN [reader EXCEPT ![c] = "reset"] ELSE reader
    /\ UNCHANGED <<file, db, writer, next, txFlag, inTx, acked, denied, spoiled>>

\* database/sql closes the statements of an unused connection, then conn.Close;
\* a connection of the earlier API is BUSY, and stays open, while a statement of
\* it is not finalized.
CloseDb(c) ==
    /\ ~txFlag[c] /\ ~rows[c]
    /\ Ends(c, {})
    /\ writer' = [writer EXCEPT ![c] = "reset"]
    /\ reader' = [reader EXCEPT ![c] = "reset"]
    /\ spoiled' = spoiled \ {c}
    /\ UNCHANGED <<next, txFlag, inTx, rows, acked, denied>>

SqlNext ==
    \E c \in Handles :
        \/ Begin(c) \/ Commit(c) \/ Rollback(c) \/ Exec(c)
        \/ Query(c) \/ RowsNext(c) \/ RowsClose(c) \/ CloseDb(c)

SqlSpec == SqlInit /\ [][SqlNext]_sqlVars

-----------------------------------------------------------------------------
(* Properties. *)

SqlTypeOK ==
    /\ file \subseteq 1..MaxChanges /\ next \in 1..MaxChanges + 1
    /\ db \in [Handles -> [auto : BOOLEAN, pending : SUBSET (1..MaxChanges), read : BOOLEAN,
                           waits : BOOLEAN]]
    /\ writer \in [Handles -> {"reset", "done", "failed"}]
    /\ reader \in [Handles -> {"reset", "row", "done", "failed"}]
    /\ txFlag \in [Handles -> BOOLEAN] /\ rows \in [Handles -> BOOLEAN]
    /\ inTx \in [Handles -> SUBSET (1..MaxChanges)]
    /\ acked \subseteq 1..MaxChanges /\ denied \subseteq 1..MaxChanges
    /\ spoiled \subseteq Conns3

\* A change is in the database once its Exec outside a Tx, or the Commit of its
\* Tx, has returned nil, whatever locks and rollbacks SQLite answers with;
\* except on a connection that goes on after a failed Commit or Rollback, whose
\* transaction database/sql does not know of.
SuccessIsDurable == acked \subseteq file

\* A change is never in the database, not even later, when its Exec returned an
\* error, also when it is the error of another Exec, or when the Rollback of its
\* Tx returned nil.
FailureIsClean == denied \cap file = {}

\* Only the failure of a Commit or Rollback leaves a connection in a transaction
\* that the driver's flag does not show.
TxIsKnown == \A c \in Conns3 : ~db[c].auto /\ ~txFlag[c] => c \in spoiled

\* What the driver returns tells what is in the database.
ReportsAreTrue == SuccessIsDurable /\ FailureIsClean /\ TxIsKnown
=============================================================================
