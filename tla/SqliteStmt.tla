----------------------------- MODULE SqliteStmt -----------------------------
(***************************************************************************)
(* The earlier API of gosqlite, package sqlite: a connection, its prepared *)
(* statements and a backup into it, as one program uses them over the      *)
(* SQLite library (external).  The statements of kind "insert" have one    *)
(* parameter and add a row of it; those of kind "select" read the rows.    *)
(* An argument or a destination is [type, value], its text what SQLite     *)
(* stores.  SqliteDriver has the transactions of several connections.      *)
(***************************************************************************)
EXTENDS Integers, Sequences, SequencesExt

CONSTANTS
    Stmts,     \* the statements that are prepared
    Arguments, \* values the program binds: [type, value]
    ScanTypes, \* types of the variables that it scans into
    MaxTable,  \* bound: rows that are written
    MaxPages   \* of the database that is backed up

VARIABLES
    handle,  \* Conn: "nil", "open" or "closed"
    table,   \* SQLite: the rows, each [text, arg]: what was stored and for which argument
    stmt,    \* Stmt: what SQLite knows of it, err, and what the program has seen
    scanned, \* what the last Scan of each statement gave
    backup,  \* Backup: [state, left, last, said]
    report   \* of the Conn.Exec just now: [ok, added]

stmtVars == <<handle, table, stmt, scanned, backup, report>>

Null == [type |-> "null", value |-> ""]
None == [type |-> "none", value |-> "", kept |-> "", row |-> 0]
Finalized == [state |-> "none", kind |-> "none", rc |-> "ok", at |-> 0, bound |-> Null,
              err |-> FALSE, ended |-> FALSE, whole |-> FALSE]

Silent == [ok |-> TRUE, added |-> 0]
Quiet == report' = Silent

-----------------------------------------------------------------------------
(* Conversions: Exec binds text, Scan reads it. *)

Numbers == {"0", "1", "5"}

TextOf(arg) ==
    CASE arg.type = "bool" -> IF arg.value = "true" THEN "1" ELSE "0"
      [] OTHER -> arg.value

\* (a mistake, for the properties to find)
BugReadAs(type, text) == text

\* The value in a variable of the type, or "error".
ReadAs(type, text) ==
    CASE type = "bool" -> IF text = "1" THEN "true" ELSE "false"
      [] type = "int" /\ text \notin Numbers -> "error"
      [] OTHER -> text

-----------------------------------------------------------------------------
(* SQLite (external): what sqlite3_step leaves, [rc, table, at, done]. *)

Parameters(kind) == IF kind = "insert" THEN 1 ELSE 0
BoundTo(args) == IF args = <<>> THEN Null ELSE args[1]
Row(arg) == [text |-> TextOf(arg), arg |-> arg]

\* A statement that was done begins again.
Position(s) == IF stmt[s].rc \in {"row", "ok"} THEN stmt[s].at ELSE 0

Steps(kind, at, bound) ==
    {[rc |-> "error", table |-> table, at |-> at]}
    \cup (IF kind = "insert"
          THEN IF Len(table) = MaxTable THEN {}
               ELSE {[rc |-> "done", table |-> Append(table, Row(bound)), at |-> 0]}
          ELSE IF at < Len(table) THEN {[rc |-> "row", table |-> table, at |-> at + 1]}
          ELSE {[rc |-> "done", table |-> table, at |-> at]})

-----------------------------------------------------------------------------
(* Connections. *)

OpenConn ==
    /\ handle = "nil"
    /\ handle' = "open"
    /\ UNCHANGED <<table, stmt, scanned, backup>> /\ Quiet

InUse(s) == stmt[s].state = "prepared"

\* SQLite refuses while statements or a backup use the connection.
CloseConn ==
    /\ handle = "open"
    /\ \A s \in Stmts : ~InUse(s)
    /\ backup.state \in {"none", "closed"}
    /\ handle' = "closed"
    /\ UNCHANGED <<table, stmt, scanned, backup>> /\ Quiet

\* Without a database, or with SQL that is wrong, there is an error and no statement.
Prepare(s, kind) ==
    /\ handle = "open"
    /\ ~InUse(s)
    /\ stmt' = [stmt EXCEPT ![s] = [Finalized EXCEPT !.state = "prepared", !.kind = kind]]
    /\ scanned' = [scanned EXCEPT ![s] = None]
    /\ UNCHANGED <<handle, table, backup>> /\ Quiet

\* Prepare, Exec, one step, and Finalize whatever has come before.  A row that comes is
\* an error as well, "another row ready".
ConnExec(kind, args) ==
    /\ handle = "open"
    /\ Len(args) = Parameters(kind)
    /\ \E r \in Steps(kind, 0, BoundTo(args)) :
        /\ report' = [ok |-> r.rc = "done", added |-> Len(r.table) - Len(table)]
        /\ table' = r.table
    /\ UNCHANGED <<handle, stmt, scanned, backup>>

-----------------------------------------------------------------------------
(* Statements. *)

\* What a []byte was given is SQLite's memory: it lasts until the statement goes on.
Released(s) == [scanned EXCEPT ![s].kept = IF scanned[s].type = "bytes" THEN "freed" ELSE @]

Rewound(s) == [stmt[s] EXCEPT !.rc = "ok", !.at = 0, !.ended = FALSE, !.whole = FALSE]

\* sqlite3_reset tells what the step before said: an error then is an error now, and
\* nothing is bound.
StmtExec(s, args) ==
    /\ InUse(s)
    /\ stmt[s].rc # "error"
    /\ Len(args) = Parameters(stmt[s].kind)
    /\ stmt' = [stmt EXCEPT ![s] = [Rewound(s) EXCEPT !.bound = BoundTo(args)]]
    /\ scanned' = Released(s)
    /\ UNCHANGED <<handle, table, backup>> /\ Quiet

\* So are a wrong count, and a value that is too large; what was bound before stays.
StmtExecFails(s) ==
    /\ InUse(s)
    /\ stmt' = [stmt EXCEPT ![s] = Rewound(s)]
    /\ scanned' = Released(s)
    /\ UNCHANGED <<handle, table, backup>> /\ Quiet

\* (a mistake, for the properties to find)
BugNoError(s, rc) == stmt[s].err

\* err stays: neither Exec nor Reset forgets it.
Erred(s, rc) == stmt[s].err \/ rc = "error"

Next(s) ==
    /\ InUse(s)
    /\ \E r \in Steps(stmt[s].kind, Position(s), stmt[s].bound) :
        /\ table' = r.table
        /\ stmt' = [stmt EXCEPT ![s].rc = r.rc, ![s].at = r.at, ![s].err = Erred(s, r.rc),
                                ![s].ended = r.rc # "row",
                                ![s].whole = r.rc = "done" /\ r.at = Len(table)]
    /\ scanned' = Released(s)
    /\ UNCHANGED <<handle, backup>> /\ Quiet

Reset(s) ==
    /\ InUse(s)
    /\ stmt' = [stmt EXCEPT ![s] = Rewound(s)]
    /\ scanned' = Released(s)
    /\ UNCHANGED <<handle, table, backup>> /\ Quiet

\* Of one column into one variable.  A text that is no number leaves the variable alone.
Scan(s, type) ==
    /\ InUse(s)
    /\ stmt[s].rc = "row"
    /\ LET v == ReadAs(type, table[stmt[s].at].text) IN
       scanned' = [scanned EXCEPT ![s] =
            IF v = "error" THEN @
            ELSE [type |-> type, value |-> v, kept |-> v, row |-> stmt[s].at]]
    /\ UNCHANGED <<handle, table, stmt, backup>> /\ Quiet

\* The statement is gone, whether or not SQLite tells of the step before.
Finalize(s) ==
    /\ InUse(s)
    /\ stmt' = [stmt EXCEPT ![s] = Finalized]
    /\ scanned' = Released(s)
    /\ UNCHANGED <<handle, table, backup>> /\ Quiet

-----------------------------------------------------------------------------
(* A backup into the connection, of a database that others write. *)

NewBackup ==
    /\ handle = "open"
    /\ backup.state = "none"
    /\ backup' = [state |-> "open", left |-> MaxPages, last |-> "ok", said |-> "none"]
    /\ UNCHANGED <<handle, table, stmt, scanned>> /\ Quiet

\* sqlite3_backup_step: BUSY and LOCKED are for another try; if the source was written,
\* the pages are copied again.
BackupSteps(left, n) ==
    {[left |-> left, rc |-> rc] : rc \in {"busy", "error"}}
    \cup {[left |-> m - n, rc |-> "ok"] : m \in {k \in {left, MaxPages} : k > n}}
    \cup {[left |-> 0, rc |-> "done"] : m \in {k \in {left, MaxPages} : k <= n}}

\* (a mistake, for the properties to find)
BugGivesUp(rc) == rc = "ok"

GoesOn(rc) == rc \in {"ok", "busy"}

\* One round of Run.  When a step says no more, Run tells what the destination knows,
\* which SQLite may not have told of the step.
RunStep(n) ==
    /\ backup.state \in {"open", "running"}
    /\ \E r \in BackupSteps(backup.left, n) :
        \/ /\ GoesOn(r.rc)
           /\ backup' = [backup EXCEPT !.state = "running", !.left = r.left, !.last = r.rc]
        \/ /\ ~GoesOn(r.rc)
           /\ \E said \in IF r.rc = "done" THEN {"nil"} ELSE {"nil", "error"} :
                backup' = [state |-> "ended", left |-> r.left, last |-> r.rc, said |-> said]
    /\ UNCHANGED <<handle, table, stmt, scanned>> /\ Quiet

\* A second Close of it is an error that changes nothing.
CloseBackup ==
    /\ backup.state \in {"open", "ended"}
    /\ backup' = [backup EXCEPT !.state = "closed", !.left = 0]
    /\ UNCHANGED <<handle, table, stmt, scanned>> /\ Quiet

\* What refuses, changes nothing; a program may stop at any time.
Refused == UNCHANGED stmtVars

-----------------------------------------------------------------------------

ArgLists == {<<>>} \cup {<<a>> : a \in Arguments}

StmtNext ==
    \/ OpenConn \/ CloseConn \/ NewBackup \/ CloseBackup \/ Refused
    \/ \E n \in 1..MaxPages : RunStep(n)
    \/ \E kind \in {"insert", "select"}, args \in ArgLists : ConnExec(kind, args)
    \/ \E s \in Stmts, kind \in {"insert", "select"} : Prepare(s, kind)
    \/ \E s \in Stmts, args \in ArgLists : StmtExec(s, args)
    \/ \E s \in Stmts, type \in ScanTypes : Scan(s, type)
    \/ \E s \in Stmts : StmtExecFails(s) \/ Next(s) \/ Reset(s) \/ Finalize(s)

StmtInit ==
    /\ handle = "nil"
    /\ table = <<>>
    /\ stmt = [s \in Stmts |-> Finalized]
    /\ scanned = [s \in Stmts |-> None]
    /\ backup = [state |-> "none", left |-> 0, last |-> "ok", said |-> "none"]
    /\ report = Silent

StmtSpec == StmtInit /\ [][StmtNext]_stmtVars

-----------------------------------------------------------------------------
(* Properties. *)

\* Next and Error (sqlite.go): when Next has said that there is no more and Error is nil,
\* the program has been given every row; a read that was cut short is never taken for all.
RowsAreWhole ==
    \A s \in Stmts :
        stmt[s].kind = "select" /\ stmt[s].ended /\ ~stmt[s].err => stmt[s].whole

\* Exec, Scan (sqlite.go): a value that was bound and is scanned into a variable of its
\* own type is the same; and only a []byte changes when the statement goes on.
ValuesComeBack ==
    \A s \in Stmts : scanned[s].type # "none" =>
        LET arg == table[scanned[s].row].arg IN
        /\ scanned[s].type = arg.type => scanned[s].value = arg.value
        /\ scanned[s].kept # scanned[s].value => scanned[s].type = "bytes"

\* Conn.Exec, Conn.Close, Backup.Run (sqlite.go): what reports an error has added no row;
\* no statement outlives its connection; Run ends only when the copy is whole or a step
\* has failed for good, and a step that reports the end of the copy has copied all.
HandlesAreSound ==
    /\ ~report.ok => report.added = 0
    /\ handle # "open" => \A s \in Stmts : ~InUse(s)
    /\ backup.state = "ended" => backup.last \in {"done", "error"}
    /\ backup.last = "done" => backup.left = 0

StatementsAreSound == RowsAreWhole /\ ValuesComeBack /\ HandlesAreSound
=============================================================================
