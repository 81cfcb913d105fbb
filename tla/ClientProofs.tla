---------------------------- MODULE ClientProofs ----------------------------
(***************************************************************************)
(* Proofs about the Go libraries that talk to another program in turns,    *)
(* for everything that the other side may answer: the SQLite driver, the   *)
(* SOCKS5 dialer (ProxyDialer), the DICT client (DictClient), and the      *)
(* statements of the earlier SQLite API (SqliteStmt).                      *)
(*                                                                         *)
(* SqliteDriver: a change that is new is nowhere yet (Numbered); one that  *)
(* waits for a commit does so in one transaction, and neither the database *)
(* nor a report has it (Pending); and while the transaction of a Tx lasts, *)
(* it holds all that was made in the Tx (TxHolds).  So a Commit that       *)
(* SQLite accepts takes the whole Tx to the database, and a Rollback none. *)
(* SQLite may have ended the transaction by itself; then it accepts        *)
(* neither, and the driver reports nothing of what was made in the Tx.     *)
(*                                                                         *)
(* ProxyDialer: what was read of no_proxy is in perHost, kind by kind      *)
(* (RulesKept); what the proxy sends is what the messages asked of it, and *)
(* the step that reads next finds the part of the answer that is for it    *)
(* (StreamOK); the connection is open from the first message until the     *)
(* call ends or fails (ConnOK).                                            *)
(*                                                                         *)
(* DictClient: the calls that wait or read have numbers of their own, and  *)
(* the one that reads is the one whose turn it is (NumbersOK); what is not *)
(* read is the rest of its answer, then the whole answers to the commands  *)
(* that follow, in their order (ConversationOK).  All of it is said only   *)
(* while no call has left a part of its answer, which the code allows.     *)
(*                                                                         *)
(* SqliteStmt: the last code that SQLite gave for a statement says where   *)
(* in its rows it stands; an error that was seen stays seen until a reset, *)
(* and what was read is a beginning of the rows (StmtInv).                 *)
(***************************************************************************)
EXTENDS SqliteDriver, SqliteStmt, ProxyDialer, DictClient, SequenceTheorems, TLAPS

CONSTANT Letters \* that the names of hosts and rules are made of

(***************************************************************************)
(* The SQLite driver                                                       *)
(***************************************************************************)

Changes == 1..MaxChanges
ConnRecord ==
    [auto : BOOLEAN, pending : SUBSET Changes, read : BOOLEAN, waits : BOOLEAN]

Numbered ==
    /\ \A k \in file \cup denied : k < next
    /\ \A c \in Handles : \A k \in db[c].pending : k < next

Pending ==
    \A c \in Handles : \A k \in db[c].pending :
        /\ k \notin file /\ k \notin denied
        /\ \A d \in Handles : k \in db[d].pending => d = c

TxHolds ==
    \A c \in Handles :
        /\ ~db[c].auto => inTx[c] \subseteq db[c].pending
        /\ ~txFlag[c] => inTx[c] = {}

\* TxIsKnown for both packages: a connection of the earlier API is never spoiled.
OneTx == \A c \in Handles : ~db[c].auto /\ ~txFlag[c] => c \in spoiled

Sound == SuccessIsDurable /\ FailureIsClean

IInv == SqlTypeOK /\ Numbered /\ Pending /\ TxHolds /\ OneTx /\ Sound

LEMMA SqlInitIsSound == SqlInit => IInv
<1> SUFFICES ASSUME SqlInit PROVE IInv
  OBVIOUS
<1> USE DEF SqlInit, Closed
<1>1. SqlTypeOK
  BY SqliteAssumption DEF SqlTypeOK
<1>2. Numbered /\ Pending /\ TxHolds /\ OneTx /\ Sound
  BY DEF Numbered, Pending, TxHolds, OneTx, Sound, SuccessIsDurable, FailureIsClean
<1> QED
  BY <1>1, <1>2 DEF IInv

\* The record of a connection, field by field.
LEMMA DbFields ==
    ASSUME SqlTypeOK, NEW c \in Handles
    PROVE  /\ db[c].auto \in BOOLEAN /\ db[c].read \in BOOLEAN /\ db[c].waits \in BOOLEAN
           /\ db[c].pending \subseteq Changes
  BY DEF SqlTypeOK, ConnRecord, Changes

-----------------------------------------------------------------------------
(* What SQLite does. *)

\* The end of a transaction leaves the other connections alone.
LEMMA EndsOne ==
    ASSUME SqlTypeOK, NEW c \in Handles, NEW changes \in SUBSET Changes, Ends(c, changes)
    PROVE  /\ file' = file \cup changes /\ file' \subseteq Changes
           /\ db' \in [Handles -> ConnRecord]
           /\ db'[c].auto /\ db'[c].pending = {}
           /\ \A d \in Handles : d # c => db'[d] = db[d]
  BY DEF Ends, Closed, SqlTypeOK, ConnRecord, Changes

-----------------------------------------------------------------------------
(* Beginning and ending a transaction. *)

LEMMA BeginIsSound ==
    ASSUME IInv, NEW c \in Handles, Begin(c)
    PROVE  IInv'
<1> USE DEF IInv
<1>1. UNCHANGED <<file, denied, next, inTx, acked, spoiled, writer, reader, rows>>
  BY DEF Begin, Begins
<1>2. inTx[c] = {} /\ ~txFlag[c]
  BY DEF Begin, TxHolds
<1>3. CASE Begins(c) /\ Flags(c, TRUE)
  <2>1. /\ db' = [db EXCEPT ![c].auto = FALSE] /\ txFlag' = [txFlag EXCEPT ![c] = TRUE]
        /\ db[c].auto
    BY <1>3 DEF Begins, Flags
  <2>2. /\ \A d \in Handles : db'[d].pending = db[d].pending
        /\ \A d \in Handles : d # c => db'[d] = db[d]
        /\ \A d \in Handles : d # c => txFlag'[d] = txFlag[d]
        /\ txFlag'[c]
    BY <2>1 DEF SqlTypeOK
  <2>3. db' \in [Handles -> ConnRecord]
    <3>1. db \in [Handles -> ConnRecord]
      BY DEF SqlTypeOK, ConnRecord, Changes
    <3> QED
      BY <2>1, <3>1 DEF ConnRecord
  <2>7. SqlTypeOK'
    <3>1. txFlag' \in [Handles -> BOOLEAN]
      BY <2>1 DEF SqlTypeOK
    <3> QED
      BY <1>1, <2>3, <3>1 DEF SqlTypeOK, ConnRecord, Changes
  <2>4. Numbered' /\ Pending' /\ Sound'
    BY <1>1, <2>2 DEF Numbered, Pending, Sound, SuccessIsDurable, FailureIsClean
  <2>5. TxHolds'
    BY <1>1, <1>2, <2>2 DEF TxHolds
  <2>6. OneTx'
    BY <1>1, <2>2 DEF OneTx
  <2> QED
    BY <2>4, <2>5, <2>6, <2>7
<1>4. CASE ~db[c].auto /\ UNCHANGED <<file, db>> /\ Flags(c, FALSE)
  <2>1. UNCHANGED <<db, txFlag>>
    BY <1>2, <1>4 DEF Flags, SqlTypeOK
  <2>2. SqlTypeOK' /\ Numbered' /\ Pending' /\ Sound'
    BY <1>1, <2>1
       DEF SqlTypeOK, Numbered, Pending, Sound, SuccessIsDurable, FailureIsClean
  <2>3. TxHolds' /\ OneTx'
    BY <1>1, <2>1 DEF TxHolds, OneTx
  <2> QED
    BY <2>2, <2>3
<1> QED
  BY <1>3, <1>4 DEF Begin

\* SQLite refuses a Commit or Rollback.
LEMMA RefusalIsSound ==
    ASSUME IInv, NEW c \in Handles, txFlag[c], EndFails(c),
           UNCHANGED <<file, writer, reader, next, rows, acked, denied>>,
           \A d \in Handles : db'[d].pending = db[d].pending /\ db'[d].auto = db[d].auto,
           db' \in [Handles -> ConnRecord]
    PROVE  IInv'
<1> USE DEF IInv
<1>1. Numbered' /\ Pending' /\ Sound'
  BY DEF Numbered, Pending, Sound, SuccessIsDurable, FailureIsClean
<1>2. CASE c \in Conns3
  <2>1. /\ txFlag' = [txFlag EXCEPT ![c] = FALSE] /\ inTx' = [inTx EXCEPT ![c] = {}]
        /\ spoiled' = spoiled \cup {c}
    BY <1>2 DEF EndFails
  <2>2. /\ ~txFlag'[c] /\ inTx'[c] = {}
        /\ \A d \in Handles : d # c => txFlag'[d] = txFlag[d] /\ inTx'[d] = inTx[d]
    BY <2>1 DEF SqlTypeOK
  <2>3. SqlTypeOK'
    BY <1>2, <2>1 DEF SqlTypeOK, ConnRecord, Changes
  <2>4. TxHolds'
    BY <2>2 DEF TxHolds
  <2>5. OneTx'
    BY <2>1, <2>2 DEF OneTx
  <2> QED
    BY <1>1, <2>3, <2>4, <2>5
<1>3. CASE c \notin Conns3
  <2>1. UNCHANGED <<txFlag, inTx, spoiled>>
    BY <1>3 DEF EndFails
  <2> QED
    BY <1>1, <2>1 DEF SqlTypeOK, ConnRecord, Changes, TxHolds, OneTx
<1> QED
  BY <1>2, <1>3

LEMMA CommitIsSound ==
    ASSUME IInv, NEW c \in Handles, Commit(c)
    PROVE  IInv'
<1> USE DEF IInv
<1>1. UNCHANGED <<writer, reader, next, rows, denied>> /\ txFlag[c]
  BY DEF Commit
<1>2. CASE Commits(c) /\ acked' = acked \cup inTx[c] /\ Over(c)
  <2>1. /\ ~db[c].auto /\ Ends(c, db[c].pending) /\ inTx[c] \subseteq db[c].pending
        /\ db[c].pending \in SUBSET Changes
    BY <1>2, DbFields DEF Commits, TxHolds
  <2>2. /\ file' = file \cup db[c].pending /\ file' \subseteq Changes
        /\ db' \in [Handles -> ConnRecord]
        /\ db'[c].auto /\ db'[c].pending = {}
        /\ \A d \in Handles : d # c => db'[d] = db[d]
    BY <2>1, EndsOne
  <2>3. /\ txFlag' = [txFlag EXCEPT ![c] = FALSE] /\ inTx' = [inTx EXCEPT ![c] = {}]
        /\ UNCHANGED spoiled
    BY <1>2 DEF Over
  <2>4. /\ inTx'[c] = {}
        /\ \A d \in Handles : d # c => txFlag'[d] = txFlag[d] /\ inTx'[d] = inTx[d]
    BY <2>3 DEF SqlTypeOK
  <2>5. SqlTypeOK'
    BY <1>1, <1>2, <2>1, <2>2, <2>3 DEF SqlTypeOK, ConnRecord, Changes
  <2>6. Numbered'
    BY <1>1, <2>2 DEF Numbered
  <2>7. Pending'
    BY <1>1, <2>2 DEF Pending
  <2>8. TxHolds' /\ OneTx'
    BY <2>2, <2>3, <2>4 DEF TxHolds, OneTx
  <2>9. Sound'
    BY <1>1, <1>2, <2>1, <2>2 DEF Sound, SuccessIsDurable, FailureIsClean, Pending
  <2> QED
    BY <2>5, <2>6, <2>7, <2>8, <2>9
<1>3. CASE CommitFails(c) /\ UNCHANGED acked /\ EndFails(c)
  <2>1. UNCHANGED file
    BY <1>3 DEF CommitFails
  <2>2. \/ UNCHANGED db
        \/ \E waits \in BOOLEAN : db' = [db EXCEPT ![c].waits = waits]
    BY <1>3 DEF CommitFails
  <2>3. /\ db' \in [Handles -> ConnRecord]
        /\ \A d \in Handles : db'[d].pending = db[d].pending /\ db'[d].auto = db[d].auto
    BY <2>2 DEF SqlTypeOK, ConnRecord, Changes
  <2> QED
    BY <1>1, <1>3, <2>1, <2>3, RefusalIsSound
<1> QED
  BY <1>2, <1>3 DEF Commit

LEMMA RollbackIsSound ==
    ASSUME IInv, NEW c \in Handles, Rollback(c)
    PROVE  IInv'
<1> USE DEF IInv
<1>1. UNCHANGED <<writer, reader, next, rows, acked>> /\ txFlag[c]
  BY DEF Rollback
<1>2. CASE Rollbacks(c) /\ denied' = denied \cup inTx[c] /\ Over(c)
  <2>1. ~db[c].auto /\ Ends(c, {}) /\ inTx[c] \subseteq db[c].pending
    BY <1>2 DEF Rollbacks, TxHolds
  <2>2. /\ UNCHANGED file
        /\ db' \in [Handles -> ConnRecord]
        /\ db'[c].auto /\ db'[c].pending = {}
        /\ \A d \in Handles : d # c => db'[d] = db[d]
    BY <2>1, EndsOne
  <2>3. /\ txFlag' = [txFlag EXCEPT ![c] = FALSE] /\ inTx' = [inTx EXCEPT ![c] = {}]
        /\ UNCHANGED spoiled
    BY <1>2 DEF Over
  <2>4. /\ inTx'[c] = {}
        /\ \A d \in Handles : d # c => txFlag'[d] = txFlag[d] /\ inTx'[d] = inTx[d]
    BY <2>3 DEF SqlTypeOK
  <2>5. SqlTypeOK'
    BY <1>1, <1>2, <2>2, <2>3 DEF SqlTypeOK, ConnRecord, Changes
  <2>6. Numbered'
    BY <1>1, <1>2, <2>1, <2>2 DEF Numbered
  <2>7. Pending'
    BY <1>2, <2>1, <2>2 DEF Pending
  <2>8. TxHolds' /\ OneTx'
    BY <2>2, <2>3, <2>4 DEF TxHolds, OneTx
  <2>9. Sound'
    BY <1>1, <1>2, <2>1, <2>2 DEF Sound, SuccessIsDurable, FailureIsClean, Pending
  <2> QED
    BY <2>5, <2>6, <2>7, <2>8, <2>9
<1>3. CASE RollbackFails(c) /\ UNCHANGED denied /\ EndFails(c)
  <2>1. UNCHANGED <<db, file>>
    BY <1>3 DEF RollbackFails
  <2>2. db' \in [Handles -> ConnRecord]
    BY <2>1 DEF SqlTypeOK, ConnRecord, Changes
  <2> QED
    BY <1>1, <1>3, <2>1, <2>2, RefusalIsSound
<1> QED
  BY <1>2, <1>3 DEF Rollback

-----------------------------------------------------------------------------
(* Writing. *)

\* The next number is new.
LEMMA NextIsNew ==
    ASSUME IInv
    PROVE  /\ next \notin file /\ next \notin denied
           /\ \A d \in Handles : next \notin db[d].pending
  BY DEF IInv, SqlTypeOK, Numbered

\* An Exec that returns an error: the change is nowhere, and SQLite has at most
\* ended the transaction.
LEMMA FailureIsSound ==
    ASSUME IInv, NEW c \in Handles, next <= MaxChanges, next' = next + 1,
           Reports(c, next, FALSE),
           UNCHANGED <<file, reader, txFlag, rows, spoiled>>,
           writer' \in [Handles -> {"reset", "done", "failed"}],
           UNCHANGED db \/ Ends(c, {})
    PROVE  IInv'
<1> USE DEF IInv
<1>1. denied' = denied \cup {next} /\ UNCHANGED <<inTx, acked>>
  BY DEF Reports, Good
<1>2. next \in Changes /\ next' \in 1..MaxChanges + 1
  BY SqliteAssumption DEF SqlTypeOK, Changes
<1>3. /\ db' \in [Handles -> ConnRecord]
      /\ \A d \in Handles :
            db'[d] = db[d] \/ (db'[d].auto /\ db'[d].pending = {})
  <2>1. CASE UNCHANGED db
    BY <2>1 DEF SqlTypeOK, ConnRecord, Changes
  <2>2. CASE Ends(c, {})
    BY <2>2, EndsOne
  <2> QED
    BY <2>1, <2>2
<1>4. SqlTypeOK'
  BY <1>1, <1>2, <1>3 DEF SqlTypeOK, ConnRecord, Changes
<1>5. Numbered'
  <2>1. \A k \in file' \cup denied' : k < next'
    BY <1>1, <1>2 DEF Numbered, SqlTypeOK
  <2>2. \A d \in Handles : \A k \in db'[d].pending : k < next'
    BY <1>2, <1>3 DEF Numbered, SqlTypeOK
  <2> QED
    BY <2>1, <2>2 DEF Numbered
<1>6. Pending'
  BY <1>1, <1>3, NextIsNew DEF Pending
<1>7. TxHolds' /\ OneTx'
  BY <1>1, <1>3 DEF TxHolds, OneTx
<1>8. Sound'
  BY <1>1, NextIsNew DEF Sound, SuccessIsDurable, FailureIsClean
<1> QED
  BY <1>4, <1>5, <1>6, <1>7, <1>8

\* An Exec outside a transaction of SQLite: the change is in the database.
LEMMA WrittenIsSound ==
    ASSUME IInv, NEW c \in Handles, next <= MaxChanges, next' = next + 1,
           Reports(c, next, TRUE), db[c].auto, Ends(c, {next}),
           UNCHANGED <<reader, txFlag, rows, spoiled>>,
           writer' \in [Handles -> {"reset", "done", "failed"}]
    PROVE  IInv'
<1> USE DEF IInv
<1>1. /\ UNCHANGED denied
      /\ txFlag[c] => inTx' = [inTx EXCEPT ![c] = @ \cup {next}] /\ UNCHANGED acked
      /\ ~txFlag[c] => acked' \subseteq acked \cup {next} /\ UNCHANGED inTx
  BY DEF Reports, Good
<1>2. next \in Changes /\ next' \in 1..MaxChanges + 1 /\ next \in 1..MaxChanges
  BY SqliteAssumption DEF SqlTypeOK, Changes
<1>3. /\ file' = file \cup {next} /\ file' \subseteq Changes
      /\ db' \in [Handles -> ConnRecord]
      /\ db'[c].auto /\ db'[c].pending = {}
      /\ \A d \in Handles : d # c => db'[d] = db[d]
  BY <1>2, EndsOne
<1>4. /\ inTx' \in [Handles -> SUBSET Changes] /\ acked' \subseteq Changes
      /\ \A d \in Handles : d # c => inTx'[d] = inTx[d]
      /\ ~txFlag[c] => inTx'[c] = {}
      /\ acked' \subseteq acked \cup {next}
  <2>1. CASE txFlag[c]
    <3>1. inTx' = [inTx EXCEPT ![c] = @ \cup {next}] /\ UNCHANGED acked
      BY <1>1, <2>1
    <3>2. inTx \in [Handles -> SUBSET Changes] /\ acked \subseteq Changes
      BY DEF SqlTypeOK, Changes
    <3> HIDE DEF IInv
    <3> QED
      BY <1>2, <2>1, <3>1, <3>2
  <2>2. CASE ~txFlag[c]
    BY <1>1, <1>2, <2>2 DEF SqlTypeOK, TxHolds, Changes
  <2> QED
    BY <2>1, <2>2
<1>5. SqlTypeOK'
  BY <1>1, <1>2, <1>3, <1>4 DEF SqlTypeOK, ConnRecord, Changes
<1>6. Numbered'
  <2>1. \A k \in file' \cup denied' : k < next'
    BY <1>1, <1>2, <1>3 DEF Numbered, SqlTypeOK
  <2>2. \A d \in Handles : \A k \in db'[d].pending : k < next'
    BY <1>2, <1>3 DEF Numbered, SqlTypeOK
  <2> QED
    BY <2>1, <2>2 DEF Numbered
<1>7. Pending'
  BY <1>1, <1>3, NextIsNew DEF Pending
<1>8. TxHolds' /\ OneTx'
  BY <1>3, <1>4 DEF TxHolds, OneTx
<1>9. Sound'
  BY <1>1, <1>3, <1>4, NextIsNew DEF Sound, SuccessIsDurable, FailureIsClean
<1> QED
  BY <1>5, <1>6, <1>7, <1>8, <1>9

\* An Exec in a transaction: the change waits for the commit.
LEMMA MadeIsSound ==
    ASSUME IInv, NEW c \in Handles, next <= MaxChanges, next' = next + 1,
           Reports(c, next, TRUE), ~db[c].auto,
           db' = [db EXCEPT ![c].pending = @ \cup {next}],
           UNCHANGED <<file, reader, txFlag, rows, spoiled>>,
           writer' \in [Handles -> {"reset", "done", "failed"}]
    PROVE  IInv'
<1> USE DEF IInv
<1>1. /\ UNCHANGED <<denied, acked>>
      /\ txFlag[c] => inTx' = [inTx EXCEPT ![c] = @ \cup {next}]
      /\ ~txFlag[c] => UNCHANGED inTx
  <2>1. ~txFlag[c] => c \in spoiled
    BY DEF OneTx
  <2> QED
    BY <2>1 DEF Reports, Good
<1>2. next \in Changes /\ next' \in 1..MaxChanges + 1 /\ next \in 1..MaxChanges
  BY SqliteAssumption DEF SqlTypeOK, Changes
<1>3. /\ db' \in [Handles -> ConnRecord]
      /\ db'[c].pending = db[c].pending \cup {next} /\ db'[c].auto = db[c].auto
      /\ \A d \in Handles : d # c => db'[d] = db[d]
  <2>1. db \in [Handles -> ConnRecord]
    BY DEF SqlTypeOK, ConnRecord, Changes
  <2> QED
    BY <1>2, <2>1 DEF ConnRecord
<1>4. /\ inTx' \in [Handles -> SUBSET Changes]
      /\ \A d \in Handles : d # c => inTx'[d] = inTx[d]
      /\ ~txFlag[c] => inTx'[c] = {}
      /\ inTx'[c] \subseteq inTx[c] \cup {next}
  <2>1. CASE txFlag[c]
    <3>1. inTx' = [inTx EXCEPT ![c] = @ \cup {next}]
      BY <1>1, <2>1
    <3>2. inTx \in [Handles -> SUBSET Changes]
      BY DEF SqlTypeOK, Changes
    <3> HIDE DEF IInv
    <3> QED
      BY <1>2, <2>1, <3>1, <3>2
  <2>2. CASE ~txFlag[c]
    BY <1>1, <1>2, <2>2 DEF SqlTypeOK, TxHolds, Changes
  <2> QED
    BY <2>1, <2>2
<1>5. SqlTypeOK'
  BY <1>1, <1>2, <1>3, <1>4 DEF SqlTypeOK, ConnRecord, Changes
<1>6. Numbered'
  <2>1. \A k \in file' \cup denied' : k < next'
    BY <1>1, <1>2 DEF Numbered, SqlTypeOK
  <2>2. ASSUME NEW d \in Handles PROVE \A k \in db'[d].pending : k < next'
    <3>1. \A k \in db[d].pending : k < next'
      BY <1>2 DEF Numbered, SqlTypeOK
    <3> QED
      BY <1>2, <1>3, <3>1
  <2> QED
    BY <2>1, <2>2 DEF Numbered
<1>7. Pending'
  <2> SUFFICES ASSUME NEW d \in Handles, NEW k \in db'[d].pending
               PROVE  /\ k \notin file' /\ k \notin denied'
                      /\ \A e \in Handles : k \in db'[e].pending => e = d
    BY DEF Pending
  <2>1. CASE k = next
    BY <1>1, <1>3, <2>1, NextIsNew
  <2>2. CASE k # next
    <3>1. \A e \in Handles : k \in db'[e].pending => k \in db[e].pending
      BY <1>3, <2>2
    <3> QED
      BY <1>1, <3>1 DEF Pending
  <2> QED
    BY <2>1, <2>2
<1>8. TxHolds' /\ OneTx'
  BY <1>3, <1>4 DEF TxHolds, OneTx
<1>9. Sound'
  BY <1>1 DEF Sound, SuccessIsDurable, FailureIsClean
<1> QED
  BY <1>5, <1>6, <1>7, <1>8, <1>9

LEMMA ExecIsSound ==
    ASSUME IInv, NEW c \in Handles, Exec(c)
    PROVE  IInv'
<1>1. /\ next <= MaxChanges /\ next' = next + 1
      /\ UNCHANGED <<reader, txFlag, rows, spoiled>>
  BY DEF Exec
<1>2. CASE FailsAgain(c, next)
  <2>1. Reports(c, next, FALSE) /\ UNCHANGED <<file, db>>
    BY <1>2 DEF FailsAgain
  <2>2. writer' \in [Handles -> {"reset", "done", "failed"}]
    BY <1>2 DEF FailsAgain, IInv, SqlTypeOK
  <2> QED
    BY <1>1, <2>1, <2>2, FailureIsSound
<1>3. ASSUME StepWrites(c, next, FALSE), Reports(c, next, FALSE)
      PROVE  IInv'
  <2>1. writer' \in [Handles -> {"reset", "done", "failed"}]
    BY <1>3 DEF StepWrites, IInv, SqlTypeOK
  <2>2. UNCHANGED <<db, file>> \/ Ends(c, {})
    BY <1>3 DEF StepWrites
  <2>3. UNCHANGED file
    BY <2>2 DEF Ends
  <2> QED
    BY <1>1, <1>3, <2>1, <2>2, <2>3, FailureIsSound
<1>4. ASSUME StepWrites(c, next, TRUE), Reports(c, next, TRUE)
      PROVE  IInv'
  <2>1. writer' \in [Handles -> {"reset", "done", "failed"}]
    BY <1>4 DEF StepWrites, IInv, SqlTypeOK
  <2>2. CASE db[c].auto
    <3>1. Ends(c, {next})
      BY <1>4, <2>2 DEF StepWrites
    <3> QED
      BY <1>1, <1>4, <2>1, <2>2, <3>1, WrittenIsSound
  <2>3. CASE ~db[c].auto
    <3>1. db' = [db EXCEPT ![c].pending = @ \cup {next}] /\ UNCHANGED file
      BY <1>4, <2>3 DEF StepWrites
    <3> QED
      BY <1>1, <1>4, <2>1, <2>3, <3>1, MadeIsSound
  <2> QED
    BY <2>2, <2>3
<1>5. \/ FailsAgain(c, next)
      \/ StepWrites(c, next, FALSE) /\ Reports(c, next, FALSE)
      \/ StepWrites(c, next, TRUE) /\ Reports(c, next, TRUE)
  BY DEF Exec
<1> QED
  BY <1>2, <1>3, <1>4, <1>5

-----------------------------------------------------------------------------
(* Reading and closing. *)

LEMMA ReadingIsSound ==
    ASSUME IInv, NEW c \in Handles, Query(c) \/ RowsNext(c) \/ RowsClose(c)
    PROVE  IInv'
<1> USE DEF IInv
<1>1. UNCHANGED <<file, writer, next, txFlag, inTx, acked, denied, spoiled>>
  BY DEF Query, RowsNext, RowsClose, StepReads, driverVars
<1>2. UNCHANGED db \/ \E read \in BOOLEAN : db' = [db EXCEPT ![c].read = read]
  <2>1. CASE RowsNext(c)
    <3>1. PICK outcome \in {"row", "done", "failed"} : StepReads(c, outcome)
      BY <2>1 DEF RowsNext
    <3>2. db' = [db EXCEPT ![c].read = @ \/ (~db[c].auto /\ outcome # "failed")]
      BY <3>1 DEF StepReads
    <3> QED
      BY <3>2
  <2>2. CASE Query(c) \/ RowsClose(c)
    BY <2>2 DEF Query, RowsClose
  <2> QED
    BY <2>1, <2>2
<1>3. /\ db' \in [Handles -> ConnRecord]
      /\ \A d \in Handles : db'[d].pending = db[d].pending /\ db'[d].auto = db[d].auto
  BY <1>2 DEF SqlTypeOK, ConnRecord, Changes
<1>4. reader' \in [Handles -> {"reset", "row", "done", "failed"}]
  BY DEF Query, RowsNext, RowsClose, StepReads, SqlTypeOK
<1>5. rows' \in [Handles -> BOOLEAN]
  <2>1. UNCHANGED rows \/ \E b \in BOOLEAN : rows' = [rows EXCEPT ![c] = b]
    BY DEF Query, RowsNext, RowsClose, driverVars
  <2> QED
    BY <2>1 DEF SqlTypeOK
<1>6. SqlTypeOK'
  BY <1>1, <1>3, <1>4, <1>5 DEF SqlTypeOK, ConnRecord, Changes
<1>7. Numbered' /\ Pending' /\ TxHolds' /\ OneTx' /\ Sound'
  BY <1>1, <1>3
     DEF Numbered, Pending, TxHolds, OneTx, Sound, SuccessIsDurable, FailureIsClean
<1> QED
  BY <1>6, <1>7

LEMMA CloseIsSound ==
    ASSUME IInv, NEW c \in Handles, CloseDb(c)
    PROVE  IInv'
<1> USE DEF IInv
<1>1. /\ ~txFlag[c] /\ Ends(c, {}) /\ spoiled' = spoiled \ {c}
      /\ UNCHANGED <<next, txFlag, inTx, rows, acked, denied>>
  BY DEF CloseDb
<1>2. /\ UNCHANGED file
      /\ db' \in [Handles -> ConnRecord]
      /\ db'[c].auto /\ db'[c].pending = {}
      /\ \A d \in Handles : d # c => db'[d] = db[d]
  BY <1>1, EndsOne
<1>3. SqlTypeOK'
  BY <1>1, <1>2 DEF CloseDb, SqlTypeOK, ConnRecord, Changes
<1>4. Numbered' /\ Pending' /\ TxHolds' /\ OneTx' /\ Sound'
  BY <1>1, <1>2
     DEF Numbered, Pending, TxHolds, OneTx, Sound, SuccessIsDurable, FailureIsClean
<1> QED
  BY <1>3, <1>4

-----------------------------------------------------------------------------
(* The theorems. *)

LEMMA NextIsSound == IInv /\ [SqlNext]_sqlVars => IInv'
<1> SUFFICES ASSUME IInv, [SqlNext]_sqlVars PROVE IInv'
  OBVIOUS
<1>1. CASE SqlNext
  <2>1. PICK c \in Handles :
            \/ Begin(c) \/ Commit(c) \/ Rollback(c) \/ Exec(c)
            \/ Query(c) \/ RowsNext(c) \/ RowsClose(c) \/ CloseDb(c)
    BY <1>1 DEF SqlNext
  <2> QED
    BY <2>1, BeginIsSound, CommitIsSound, RollbackIsSound, ExecIsSound,
       ReadingIsSound, CloseIsSound
<1>2. CASE UNCHANGED sqlVars
  <2>1. UNCHANGED <<file, db, writer, reader, next, txFlag, inTx, rows, acked, denied, spoiled>>
    BY <1>2 DEF sqlVars, sqliteVars, driverVars
  <2> QED
    BY <2>1 DEF IInv, SqlTypeOK, Numbered, Pending, TxHolds, OneTx, Sound,
                SuccessIsDurable, FailureIsClean
<1> QED
  BY <1>1, <1>2

LEMMA DriverIsSound == SqlSpec => []IInv
  BY SqlInitIsSound, NextIsSound, PTL DEF SqlSpec

\* The database, the connections and what was reported are what they are
\* declared to be, whatever SQLite answers.
THEOREM DriverTypeCorrect == SqlSpec => []SqlTypeOK
<1>1. IInv => SqlTypeOK
  BY DEF IInv
<1> QED
  BY <1>1, DriverIsSound, PTL

\* What Exec, Commit and Rollback of driver.go return of a change is what
\* becomes of it: a success is in the database, a failure never is, and only a
\* failed Commit or Rollback leaves a transaction behind that the flag of the
\* connection does not show.
THEOREM ReportsTellTheTruth == SqlSpec => []ReportsAreTrue
<1>1. IInv => ReportsAreTrue
  BY DEF IInv, ReportsAreTrue, Sound, OneTx, TxIsKnown, Handles
<1> QED
  BY <1>1, DriverIsSound, PTL

(***************************************************************************)
(* The SOCKS5 dialer and its rules                                         *)
(***************************************************************************)

\* What AddFromString makes of no_proxy: a zone is what follows the "*" of "*.", and an
\* address that is none is no rule for an address.
RuleOK(r) ==
    /\ r.kind \in {"net", "ip", "zone", "host", "bad"}
    /\ r.name \in Seq(Letters)
    /\ r.kind = "ip" => r.ip # NoIP
    /\ r.kind = "zone" => r.name # <<>>

InputsOK ==
    /\ "." \in Letters
    /\ \A e \in Environments :
          /\ e.user \in Nat /\ e.password \in Nat
          /\ Len(e.no) \in Nat /\ DOMAIN e.no = 1..Len(e.no)
          /\ \A i \in DOMAIN e.no : RuleOK(e.no[i])
    /\ \A h \in Hosts : h.name \in Seq(Letters)

Byte == Nat \cup {Relayed}
Talking ==
    {"greet", "greeting", "password", "status", "connect", "reply", "length", "address", "port"}
NoHost == [ip |-> NoIP, name |-> <<>>]

ProxyTyped ==
    /\ env \in Environments
    /\ dial \in [pc : {"idle", "forward", "done"} \cup Talking, host : Hosts \cup {NoHost},
                 through : {"none", "direct", "socks5"}, error : BOOLEAN, discard : Nat,
                 answered : Nat]
    /\ messages \in Seq(Seq(Nat)) /\ stream \in Seq(Byte)

\* The rules that were read, by kind.
RulesRead(kind) == {i \in 1..perHost.read : env.no[i].kind = kind}
RulesKept ==
    /\ perHost.read \in Nat /\ perHost.read <= Len(env.no)
    /\ perHost = [read |-> perHost.read,
                  nets |-> {env.no[i].net : i \in RulesRead("net")},
                  ips |-> {env.no[i].ip : i \in RulesRead("ip")},
                  zones |-> {AsZone(Trimmed(env.no[i].name)) : i \in RulesRead("zone")},
                  hosts |-> {Trimmed(env.no[i].name) : i \in RulesRead("host")}]

\* There are n bytes of the reply, then what the other end sends.
Carries(n) == Len(stream) = n + 1 /\ stream[n + 1] = Relayed

ReplyOK ==
    stream # <<>> /\ stream[2] = 0 /\ stream[4] \in {1, 3, 4} =>
        IF stream[4] = 3 THEN stream[5] \in Nat /\ Carries(stream[5] + 7)
        ELSE Carries(AddressLength[stream[4]] + 6)

StreamOK ==
    /\ dial.pc \in {"idle", "forward", "greet", "password", "connect"} => stream = <<>>
    /\ dial.pc \in {"greeting", "status"} => stream = <<>> \/ Len(stream) = 2
    /\ dial.pc = "reply" => ReplyOK
    /\ dial.pc = "length" => stream[1] \in Nat /\ Carries(stream[1] + 3)
    /\ dial.pc = "address" => Carries(dial.discard + 2)
    /\ dial.pc = "port" => Carries(2)

ConnOK ==
    /\ dial.pc \in {"idle", "forward"} => conn = "none" /\ ~dial.error
    /\ dial.pc \in Talking => conn = "open" /\ ~dial.error
    /\ dial.pc = "done" /\ dial.through = "socks5" =>
          /\ dial.error => conn \in {"none", "closed"}
          /\ ~dial.error => conn = "open" /\ Carries(0)

\* A password is sent as it is.
PasswordsOK ==
    \A i \in DOMAIN messages :
        messages[i][1] = 1 /\ Offers =>
            messages[i][2] = messages[i][3] /\ messages[i][4] = messages[i][5]

ProxyInv == ProxyTyped /\ RulesKept /\ StreamOK /\ ConnOK /\ PasswordsOK /\ HostIsRouted

-----------------------------------------------------------------------------

LEMMA ProxyInitInv == ASSUME InputsOK, ProxyInit PROVE ProxyInv
<1> USE DEF ProxyInit
<1>1. ProxyTyped
  BY DEF ProxyTyped, NoHost, Talking
<1>2. RulesKept
  <2>1. Len(env.no) \in Nat
    BY DEF InputsOK
  <2>2. perHost.read = 0 /\ \A kind : RulesRead(kind) = {}
    BY DEF RulesRead
  <2>3. /\ {env.no[i].net : i \in RulesRead("net")} = {}
        /\ {env.no[i].ip : i \in RulesRead("ip")} = {}
        /\ {AsZone(Trimmed(env.no[i].name)) : i \in RulesRead("zone")} = {}
        /\ {Trimmed(env.no[i].name) : i \in RulesRead("host")} = {}
    BY <2>2
  <2>4. perHost = [read |-> 0, nets |-> {}, ips |-> {}, zones |-> {}, hosts |-> {}]
    OBVIOUS
  <2>5. perHost.read <= Len(env.no) /\ perHost.read \in Nat
    BY <2>1, <2>2
  <2> QED
    BY ONLY <2>2, <2>3, <2>4, <2>5 DEF RulesKept
<1>3. StreamOK /\ ConnOK /\ PasswordsOK /\ HostIsRouted
  BY DEF StreamOK, ConnOK, PasswordsOK, HostIsRouted, Talking
<1> QED
  BY <1>1, <1>2, <1>3 DEF ProxyInv

\* Trimmed, without its condition.
LEMMA TrimmedSeq ==
    ASSUME NEW S, NEW name \in Seq(S)
    PROVE  /\ Trimmed(name) \in Seq(S)
           /\ name = <<>> => Trimmed(name) = <<>>
<1>1. \A i \in 1..Len(name) - 1 : name[i] \in S
  OBVIOUS
<1>2. SubSeq(name, 1, Len(name) - 1) \in Seq(S)
  BY <1>1, SubSeqProperties
<1> QED
  BY <1>2 DEF Trimmed

\* A zone without its dot is what the rule names.
LEMMA ZoneIsDotted ==
    ASSUME NEW S, "." \in S, NEW name \in Seq(S), name # <<>>
    PROVE  LET base == Trimmed(IF name[1] = "." THEN Tail(name) ELSE name)
           IN /\ AsZone(Trimmed(name)) = <<".">> \o base
              /\ Tail(AsZone(Trimmed(name))) = base
<1> DEFINE n == Len(name)
           base == Trimmed(IF name[1] = "." THEN Tail(name) ELSE name)
<1>0. n \in Nat \ {0}
  BY EmptySeq
<1>1. /\ Tail(name) \in Seq(S) /\ Len(Tail(name)) = n - 1
      /\ \A i \in 1..n - 1 : Tail(name)[i] = name[i + 1]
  BY HeadTailProperties
<1>2. base \in Seq(S)
  BY <1>1, TrimmedSeq
<1>3. AsZone(Trimmed(name)) = <<".">> \o base
  <2>1. CASE name[1] # "."
    <3>1. base = Trimmed(name)
      BY <2>1
    <3>2. CASE name[n] = "."
      <4>1. n > 1
        BY <2>1, <3>2, <1>0
      <4>2. /\ Trimmed(name) = SubSeq(name, 1, n - 1)
            /\ SubSeq(name, 1, n - 1) = <<name[1]>> \o SubSeq(name, 2, n - 1)
        <5>1. 1 \in 1..n /\ n - 1 \in 1..n /\ 1 + 1 = 2
          BY <4>1, <1>0
        <5>2. SubSeq(name, 1, n - 1) = <<name[1]>> \o SubSeq(name, 1 + 1, n - 1)
          BY <5>1, SubSeqRecursiveFirst
        <5> QED
          BY <3>2, <5>1, <5>2 DEF Trimmed
      <4>3. Trimmed(name) \in Seq(S) /\ Trimmed(name)[1] = name[1] /\ Trimmed(name) # <<>>
        <5>1. \A i \in 1..n - 1 : name[i] \in S
          BY <1>0
        <5>2. /\ Len(SubSeq(name, 1, n - 1)) = n - 1
              /\ SubSeq(name, 1, n - 1)[1] = name[1 + 1 - 1]
          BY <5>1, <4>1, <1>0, SubSeqProperties
        <5>3. Len(Trimmed(name)) # 0 /\ Trimmed(name)[1] = name[1] /\ Len(<<>>) = 0
          BY <4>1, <4>2, <5>2, <1>0
        <5> QED
          BY <5>3, TrimmedSeq
      <4> QED
        BY <2>1, <3>1, <4>3 DEF AsZone
    <3>3. CASE name[n] # "."
      BY <2>1, <3>1, <3>3 DEF AsZone, Trimmed
    <3> QED
      BY <3>2, <3>3
  <2>2. CASE name[1] = "." /\ n = 1
    <3>1. Tail(name) = <<>>
      <4>1. \A t \in Seq(S) : Len(t) = 0 => t = <<>>
        OBVIOUS
      <4>2. Len(Tail(name)) = 0
        BY <1>1, <2>2
      <4> QED
        BY <1>1, <4>1, <4>2
    <3>2. base = <<>>
      <4>1. base = Trimmed(Tail(name))
        BY <2>2
      <4> QED
        BY <1>1, <3>1, <4>1, TrimmedSeq
    <3>3. Trimmed(name) = <<>>
      BY <2>2, SubSeqEmpty DEF Trimmed
    <3> QED
      BY <3>2, <3>3 DEF AsZone
  <2>3. CASE name[1] = "." /\ n > 1
    <3>0. base = Trimmed(Tail(name)) /\ Tail(name) # <<>> /\ Tail(name)[n - 1] = name[n]
      <4>1. base = Trimmed(Tail(name))
        BY <2>3
      <4>2. Len(Tail(name)) # 0 /\ Len(<<>>) = 0 /\ n - 1 \in 1..n - 1 /\ (n - 1) + 1 = n
        BY <2>3, <1>0, <1>1
      <4> QED
        BY <4>1, <4>2, <1>1
    <3>1. CASE name[n] = "."
      <4>1. Trimmed(name) = SubSeq(name, 1, n - 1) /\ base = SubSeq(Tail(name), 1, n - 2)
        <5>1. (n - 1) - 1 = n - 2
          BY <1>0
        <5> QED
          BY <3>0, <3>1, <1>1, <5>1 DEF Trimmed
      <4>2. SubSeq(Tail(name), 1, n - 2) = SubSeq(name, 2, n - 1)
        <5>1. CASE n = 2
          BY <5>1, SubSeqEmpty
        <5>2. CASE n > 2
          <6>1. /\ 2 \in 1..n /\ n \in 1..n /\ 1 \in 1..n - 2 + 1 /\ n - 2 \in 1..n - 2 + 1
                /\ 2 + 1 - 1 = 2 /\ 2 + (n - 2) - 1 = n - 1
            BY <5>2, <1>0
          <6>2. SubSeq(SubSeq(name, 2, n), 1, n - 2) = SubSeq(name, 2 + 1 - 1, 2 + (n - 2) - 1)
            BY <6>1, SubSeqOfSubSeq
          <6> QED
            BY <6>1, <6>2, TailIsSubSeq
        <5> QED
          BY <5>1, <5>2, <2>3, <1>0
      <4>3. SubSeq(name, 1, n - 1) = <<".">> \o SubSeq(name, 2, n - 1)
        <5>1. 1 \in 1..n /\ n - 1 \in 1..n /\ 1 + 1 = 2
          BY <2>3, <1>0
        <5>2. SubSeq(name, 1, n - 1) = <<name[1]>> \o SubSeq(name, 1 + 1, n - 1)
          BY <5>1, SubSeqRecursiveFirst
        <5> QED
          BY <5>1, <5>2, <2>3
      <4>4. Trimmed(name) = <<".">> \o base
        BY <4>1, <4>2, <4>3
      <4>5. Trimmed(name)[1] = "." /\ Trimmed(name) # <<>>
        <5> HIDE DEF base
        <5> QED
          BY <1>2, <4>4
      <4> QED
        BY <4>4, <4>5 DEF AsZone
    <3>2. CASE name[n] # "."
      <4>1. base = Tail(name) /\ Trimmed(name) = name
        BY <3>0, <3>2, <1>1 DEF Trimmed
      <4>2. name = <<".">> \o Tail(name)
        BY <2>3, <1>0, <1>1
      <4> QED
        BY <2>3, <4>1, <4>2 DEF AsZone
    <3> QED
      BY <3>1, <3>2
  <2> QED
    BY <2>1, <2>2, <2>3, <1>0
<1>4. Tail(<<".">> \o base) = base
  <2> HIDE DEF base
  <2> QED BY <1>2
<1> QED
  BY <1>3, <1>4

-----------------------------------------------------------------------------

\* What the dialer was told of the rules it has read is what they say of a host.
LEMMA RulesDecide ==
    ASSUME InputsOK, env \in Environments, RulesKept, perHost.read = Len(env.no),
           NEW h \in Hosts
    PROVE  (DialerForRequest(h) = "direct") = (\E i \in DOMAIN env.no : Exempts(env.no[i], h))
<1>1. /\ DOMAIN env.no = 1..perHost.read
      /\ \A i \in DOMAIN env.no : RuleOK(env.no[i])
  BY DEF InputsOK
<1>2. /\ perHost.nets = {env.no[i].net : i \in RulesRead("net")}
      /\ perHost.ips = {env.no[i].ip : i \in RulesRead("ip")}
      /\ perHost.zones = {AsZone(Trimmed(env.no[i].name)) : i \in RulesRead("zone")}
      /\ perHost.hosts = {Trimmed(env.no[i].name) : i \in RulesRead("host")}
  BY DEF RulesKept
<1>3. CASE IsIP(h)
  <2>1. ASSUME NEW i \in DOMAIN env.no
        PROVE  Exempts(env.no[i], h) <=>
                  \/ i \in RulesRead("net") /\ env.no[i].net \in h.ip.nets
                  \/ i \in RulesRead("ip") /\ env.no[i].ip = h.ip
    BY <1>1, <1>3 DEF Exempts, RulesRead, RuleOK, IsIP
  <2>2. /\ h.ip.nets \cap perHost.nets # {} <=> \E i \in RulesRead("net") : env.no[i].net \in h.ip.nets
        /\ h.ip \in perHost.ips <=> \E i \in RulesRead("ip") : env.no[i].ip = h.ip
    BY <1>2
  <2>3. \A kind : RulesRead(kind) \subseteq DOMAIN env.no
    BY <1>1 DEF RulesRead
  <2> QED
    BY <1>3, <2>1, <2>2, <2>3 DEF DialerForRequest
<1>4. CASE ~IsIP(h)
  <2>1. ASSUME NEW i \in RulesRead("zone")
        PROVE  Exempts(env.no[i], h) <=>
                  LET z == AsZone(Trimmed(env.no[i].name))
                  IN IsSuffix(z, h.name) \/ h.name = Tail(z)
    <3> DEFINE r == env.no[i]
               base == Trimmed(IF r.name[1] = "." THEN Tail(r.name) ELSE r.name)
               z == AsZone(Trimmed(r.name))
    <3>1. i \in DOMAIN env.no /\ r.kind = "zone" /\ r.name \in Seq(Letters) /\ r.name # <<>>
      BY <1>1 DEF RulesRead, RuleOK
    <3>2. z = <<".">> \o base /\ Tail(z) = base
      BY <3>1, ZoneIsDotted DEF InputsOK
    <3>3. Exempts(r, h) <=> h.name = base \/ IsSuffix(<<".">> \o base, h.name)
      BY <1>4, <3>1 DEF Exempts
    <3> HIDE DEF z, base, r
    <3>4. Exempts(r, h) <=> IsSuffix(z, h.name) \/ h.name = Tail(z)
      BY <3>2, <3>3
    <3> QED
      BY <3>4 DEF z, r
  <2>2. ASSUME NEW i \in RulesRead("host")
        PROVE  Exempts(env.no[i], h) <=> Trimmed(env.no[i].name) = h.name
    BY <1>4 DEF Exempts, RulesRead
  <2>3. ASSUME NEW i \in DOMAIN env.no, Exempts(env.no[i], h)
        PROVE  i \in RulesRead("zone") \cup RulesRead("host")
    <3>1. env.no[i].kind \in {"net", "ip", "zone", "host", "bad"}
      BY <1>1 DEF RuleOK
    <3>2. env.no[i].kind \notin {"net", "bad"}
      BY <1>4, <2>3 DEF Exempts
    <3>3. env.no[i].kind # "ip"
      BY <1>1, <1>4, <2>3 DEF Exempts, RuleOK, IsIP
    <3> QED
      BY <1>1, <3>1, <3>2, <3>3 DEF RulesRead
  <2>4. \A kind : RulesRead(kind) \subseteq DOMAIN env.no
    BY <1>1 DEF RulesRead
  <2>5. InZone(h.name) <=> \E i \in RulesRead("zone") : Exempts(env.no[i], h)
    BY <1>2, <2>1 DEF InZone
  <2>6. h.name \in perHost.hosts <=> \E i \in RulesRead("host") : Exempts(env.no[i], h)
    BY <1>2, <2>2
  <2> QED
    BY <1>4, <2>3, <2>4, <2>5, <2>6 DEF DialerForRequest
<1> QED
  BY <1>3, <1>4

\* The fields of a PerHost to which one thing was added.
LEMMA ReadField ==
    ASSUME NEW p, NEW n \in Nat, NEW nets, NEW ips, NEW zones, NEW hosts,
           p = [read |-> n, nets |-> nets, ips |-> ips, zones |-> zones, hosts |-> hosts]
    PROVE  [p EXCEPT !.read = @ + 1] = [read |-> n + 1, nets |-> nets, ips |-> ips, zones |-> zones, hosts |-> hosts]
OBVIOUS

LEMMA OneField ==
    ASSUME NEW p, NEW n \in Nat, NEW nets, NEW ips, NEW zones, NEW hosts, NEW v,
           p = [read |-> n, nets |-> nets, ips |-> ips, zones |-> zones, hosts |-> hosts]
    PROVE  /\ [p EXCEPT !.nets = v] = [read |-> n, nets |-> v, ips |-> ips, zones |-> zones, hosts |-> hosts]
           /\ [p EXCEPT !.ips = v] = [read |-> n, nets |-> nets, ips |-> v, zones |-> zones, hosts |-> hosts]
           /\ [p EXCEPT !.zones = v] = [read |-> n, nets |-> nets, ips |-> ips, zones |-> v, hosts |-> hosts]
           /\ [p EXCEPT !.hosts = v] = [read |-> n, nets |-> nets, ips |-> ips, zones |-> zones, hosts |-> v]
           /\ p.read = n /\ p.nets = nets /\ p.ips = ips /\ p.zones = zones /\ p.hosts = hosts
OBVIOUS

LEMMA AddedFields ==
    ASSUME NEW p, NEW n \in Nat, NEW nets, NEW ips, NEW zones, NEW hosts, NEW x,
           p = [read |-> n, nets |-> nets, ips |-> ips, zones |-> zones, hosts |-> hosts]
    PROVE  LET rec(N, I, Z, H) ==
                  [read |-> n + 1, nets |-> N, ips |-> I, zones |-> Z, hosts |-> H]
           IN /\ [p EXCEPT !.read = @ + 1] = rec(nets, ips, zones, hosts)
              /\ [[p EXCEPT !.nets = @ \cup {x}] EXCEPT !.read = @ + 1]
                    = rec(nets \cup {x}, ips, zones, hosts)
              /\ [[p EXCEPT !.ips = @ \cup {x}] EXCEPT !.read = @ + 1]
                    = rec(nets, ips \cup {x}, zones, hosts)
              /\ [[p EXCEPT !.zones = @ \cup {x}] EXCEPT !.read = @ + 1]
                    = rec(nets, ips, zones \cup {x}, hosts)
              /\ [[p EXCEPT !.hosts = @ \cup {x}] EXCEPT !.read = @ + 1]
                    = rec(nets, ips, zones, hosts \cup {x})
<1>0. p.nets = nets /\ p.ips = ips /\ p.zones = zones /\ p.hosts = hosts
  BY OneField
<1>1. [[p EXCEPT !.nets = @ \cup {x}] EXCEPT !.read = @ + 1]
        = [read |-> n + 1, nets |-> nets \cup {x}, ips |-> ips, zones |-> zones, hosts |-> hosts]
  <2>1. ASSUME NEW v PROVE [[p EXCEPT !.nets = v] EXCEPT !.read = @ + 1] = [read |-> n + 1, nets |-> v, ips |-> ips, zones |-> zones, hosts |-> hosts]
    <3>1. ASSUME NEW q, q = [p EXCEPT !.nets = v]
          PROVE  [q EXCEPT !.read = @ + 1] = [read |-> n + 1, nets |-> v, ips |-> ips, zones |-> zones, hosts |-> hosts]
      <4>1. q = [read |-> n, nets |-> v, ips |-> ips, zones |-> zones, hosts |-> hosts]
        BY <3>1, OneField
      <4> HIDE <3>1
      <4> QED
        BY ONLY <4>1, n \in Nat
    <3> QED
      BY ONLY <3>1
  <2> QED
    BY <1>0, <2>1
<1>2. [[p EXCEPT !.ips = @ \cup {x}] EXCEPT !.read = @ + 1]
        = [read |-> n + 1, nets |-> nets, ips |-> ips \cup {x}, zones |-> zones, hosts |-> hosts]
  <2>1. ASSUME NEW v PROVE [[p EXCEPT !.ips = v] EXCEPT !.read = @ + 1] = [read |-> n + 1, nets |-> nets, ips |-> v, zones |-> zones, hosts |-> hosts]
    <3>1. ASSUME NEW q, q = [p EXCEPT !.ips = v]
          PROVE  [q EXCEPT !.read = @ + 1] = [read |-> n + 1, nets |-> nets, ips |-> v, zones |-> zones, hosts |-> hosts]
      <4>1. q = [read |-> n, nets |-> nets, ips |-> v, zones |-> zones, hosts |-> hosts]
        BY <3>1, OneField
      <4> HIDE <3>1
      <4> QED
        BY ONLY <4>1, n \in Nat
    <3> QED
      BY ONLY <3>1
  <2> QED
    BY <1>0, <2>1
<1>3. [[p EXCEPT !.zones = @ \cup {x}] EXCEPT !.read = @ + 1]
        = [read |-> n + 1, nets |-> nets, ips |-> ips, zones |-> zones \cup {x}, hosts |-> hosts]
  <2>1. ASSUME NEW v PROVE [[p EXCEPT !.zones = v] EXCEPT !.read = @ + 1] = [read |-> n + 1, nets |-> nets, ips |-> ips, zones |-> v, hosts |-> hosts]
    <3>1. ASSUME NEW q, q = [p EXCEPT !.zones = v]
          PROVE  [q EXCEPT !.read = @ + 1] = [read |-> n + 1, nets |-> nets, ips |-> ips, zones |-> v, hosts |-> hosts]
      <4>1. q = [read |-> n, nets |-> nets, ips |-> ips, zones |-> v, hosts |-> hosts]
        BY <3>1, OneField
      <4> HIDE <3>1
      <4> QED
        BY ONLY <4>1, n \in Nat
    <3> QED
      BY ONLY <3>1
  <2> QED
    BY <1>0, <2>1
<1>4. [[p EXCEPT !.hosts = @ \cup {x}] EXCEPT !.read = @ + 1]
        = [read |-> n + 1, nets |-> nets, ips |-> ips, zones |-> zones, hosts |-> hosts \cup {x}]
  <2>1. ASSUME NEW v PROVE [[p EXCEPT !.hosts = v] EXCEPT !.read = @ + 1] = [read |-> n + 1, nets |-> nets, ips |-> ips, zones |-> zones, hosts |-> v]
    <3>1. ASSUME NEW q, q = [p EXCEPT !.hosts = v]
          PROVE  [q EXCEPT !.read = @ + 1] = [read |-> n + 1, nets |-> nets, ips |-> ips, zones |-> zones, hosts |-> v]
      <4>1. q = [read |-> n, nets |-> nets, ips |-> ips, zones |-> zones, hosts |-> v]
        BY <3>1, OneField
      <4> HIDE <3>1
      <4> QED
        BY ONLY <4>1, n \in Nat
    <3> QED
      BY ONLY <3>1
  <2> QED
    BY <1>0, <2>1
<1> QED
  BY <1>1, <1>2, <1>3, <1>4, ReadField

LEMMA AddsRuleInv == ASSUME InputsOK, ProxyInv, AddsRule PROVE ProxyInv'
<1>0. /\ dial.pc = "idle" /\ perHost.read < Len(env.no)
      /\ UNCHANGED <<env, dial, conn, messages, stream>>
  BY DEF AddsRule
<1>1. ProxyTyped' /\ StreamOK' /\ ConnOK' /\ PasswordsOK'
  BY <1>0 DEF ProxyInv, ProxyTyped, StreamOK, ConnOK, PasswordsOK, ReplyOK, Carries, Offers
<1>2. RulesKept'
  <2> DEFINE k == perHost.read
             r == env.no[k + 1]
             new(kind) == IF r.kind = kind THEN {k + 1} ELSE {}
             net == IF r.kind = "net" THEN {r.net} ELSE {}
             ip == IF r.kind = "ip" THEN {r.ip} ELSE {}
             zone == IF r.kind = "zone" THEN {AsZone(Trimmed(r.name))} ELSE {}
             host == IF r.kind = "host" THEN {Trimmed(r.name)} ELSE {}
  <2>1. k \in Nat /\ k + 1 <= Len(env.no) /\ Len(env.no) \in Nat /\ RuleOK(r)
    <3>1. perHost.read \in Nat /\ env \in Environments
      BY DEF ProxyInv, RulesKept, ProxyTyped
    <3>2. Len(env.no) \in Nat /\ \A i \in 1..Len(env.no) : RuleOK(env.no[i])
      BY <3>1 DEF InputsOK
    <3> QED
      BY ONLY <1>0, <3>1, <3>2
  <2>2. perHost = [read |-> k, nets |-> perHost.nets, ips |-> perHost.ips,
                   zones |-> perHost.zones, hosts |-> perHost.hosts]
    BY DEF ProxyInv, RulesKept
  <2>3. perHost' = [read |-> k + 1, nets |-> perHost.nets \cup net, ips |-> perHost.ips \cup ip,
                    zones |-> perHost.zones \cup zone, hosts |-> perHost.hosts \cup host]
    <3>1. \A A : A \cup {} = A
      OBVIOUS
    <3>2. CASE r.kind = "net"
      BY <2>1, <2>2, <3>1, <3>2, AddedFields DEF AddsRule
    <3>3. CASE r.kind = "ip"
      BY <2>1, <2>2, <3>1, <3>3, AddedFields DEF AddsRule
    <3>4. CASE r.kind = "zone"
      BY <2>1, <2>2, <3>1, <3>4, AddedFields DEF AddsRule
    <3>5. CASE r.kind = "host"
      BY <2>1, <2>2, <3>1, <3>5, AddedFields DEF AddsRule
    <3>6. CASE r.kind = "bad"
      BY <2>1, <2>2, <3>1, <3>6, AddedFields DEF AddsRule
    <3> QED
      BY <2>1, <3>2, <3>3, <3>4, <3>5, <3>6 DEF RuleOK
  <2> HIDE DEF new, net, ip, zone, host
  <2>4. env' = env /\ perHost'.read = k + 1
    <3>1. perHost'.read = k + 1
      BY ONLY <2>3
    <3> QED
      BY <1>0, <3>1
  <2>5. \A kind : RulesRead(kind)' = RulesRead(kind) \cup new(kind)
    <3> SUFFICES ASSUME NEW kind PROVE RulesRead(kind)' = RulesRead(kind) \cup new(kind)
      OBVIOUS
    <3>1. 1..k + 1 = 1..k \cup {k + 1}
      BY ONLY <2>1
    <3>2. /\ RulesRead(kind) = {i \in 1..k : env.no[i].kind = kind}
          /\ RulesRead(kind)' = {i \in 1..k + 1 : env.no[i].kind = kind}
      BY ONLY <2>4 DEF RulesRead
    <3> QED
      BY ONLY <3>1, <3>2 DEF new
  <2>6. /\ {env.no[i].net : i \in new("net")} = net
        /\ {env.no[i].ip : i \in new("ip")} = ip
        /\ {AsZone(Trimmed(env.no[i].name)) : i \in new("zone")} = zone
        /\ {Trimmed(env.no[i].name) : i \in new("host")} = host
    BY DEF new, net, ip, zone, host
  <2> HIDE DEF k
  <2>7. /\ {env.no[i].net : i \in RulesRead("net") \cup new("net")} = perHost.nets \cup net
        /\ {env.no[i].ip : i \in RulesRead("ip") \cup new("ip")} = perHost.ips \cup ip
        /\ {AsZone(Trimmed(env.no[i].name)) : i \in RulesRead("zone") \cup new("zone")}
              = perHost.zones \cup zone
        /\ {Trimmed(env.no[i].name) : i \in RulesRead("host") \cup new("host")}
              = perHost.hosts \cup host
    <3>1. /\ perHost.nets = {env.no[i].net : i \in RulesRead("net")}
          /\ perHost.ips = {env.no[i].ip : i \in RulesRead("ip")}
          /\ perHost.zones = {AsZone(Trimmed(env.no[i].name)) : i \in RulesRead("zone")}
          /\ perHost.hosts = {Trimmed(env.no[i].name) : i \in RulesRead("host")}
      <4> DEFINE nets == {env.no[i].net : i \in RulesRead("net")}
                 ips == {env.no[i].ip : i \in RulesRead("ip")}
                 zones == {AsZone(Trimmed(env.no[i].name)) : i \in RulesRead("zone")}
                 hosts == {Trimmed(env.no[i].name) : i \in RulesRead("host")}
      <4>1. perHost = [read |-> perHost.read, nets |-> nets, ips |-> ips, zones |-> zones,
                       hosts |-> hosts]
        BY DEF ProxyInv, RulesKept
      <4> HIDE DEF nets, ips, zones, hosts
      <4>2. perHost.nets = nets /\ perHost.ips = ips /\ perHost.zones = zones
            /\ perHost.hosts = hosts
        BY ONLY <4>1
      <4> QED
        BY ONLY <4>2 DEF nets, ips, zones, hosts
    <3> QED
      BY ONLY <2>6, <3>1
  <2>8. perHost'.read \in Nat /\ perHost'.read <= Len(env'.no)
    BY ONLY <2>1, <2>4
  <2> QED
    BY ONLY <2>3, <2>4, <2>5, <2>7, <2>8 DEF RulesKept
<1>3. HostIsRouted'
  BY <1>0 DEF HostIsRouted
<1> QED
  BY <1>1, <1>2, <1>3 DEF ProxyInv

LEMMA DialsInv == ASSUME InputsOK, ProxyInv, Dials PROVE ProxyInv'
<1> PICK h \in Hosts :
        LET through == IF Dialer(env) = "perHost" THEN DialerForRequest(h) ELSE Dialer(env) IN
        dial' = [dial EXCEPT !.host = h, !.through = through,
                             !.pc = IF through = "direct" THEN "done" ELSE "forward"]
  BY DEF Dials
<1> DEFINE through == IF Dialer(env) = "perHost" THEN DialerForRequest(h) ELSE Dialer(env)
<1>0. /\ dial.pc = "idle" /\ UNCHANGED <<env, perHost, conn, messages, stream>>
      /\ Dialer(env) = "perHost" => perHost.read = Len(env.no)
  BY DEF Dials
<1>1. through \in {"direct", "socks5"}
  BY DEF Dialer, DialerForRequest
<1>2. ProxyTyped /\ RulesKept /\ StreamOK /\ ConnOK /\ PasswordsOK
  BY DEF ProxyInv
<1>3. /\ dial'.pc = IF through = "direct" THEN "done" ELSE "forward"
      /\ dial'.host = h /\ dial'.through = through /\ dial'.error = dial.error
      /\ dial'.discard = dial.discard /\ dial'.answered = dial.answered
  BY <1>2 DEF ProxyTyped
<1>4. ProxyTyped'
  BY <1>0, <1>1, <1>2 DEF ProxyTyped
<1>5. RulesKept' /\ PasswordsOK'
  BY <1>0, <1>2 DEF RulesKept, RulesRead, PasswordsOK, Offers
<1>6. StreamOK' /\ ConnOK'
  BY <1>0, <1>1, <1>2, <1>3 DEF StreamOK, ConnOK, Talking
<1>7. HostIsRouted'
  <2>1. SUFFICES ASSUME Dialer(env) = "perHost"
        PROVE  (dial'.through = "direct") = (\E i \in DOMAIN env.no : Exempts(env.no[i], dial'.host))
    BY <1>0 DEF HostIsRouted
  <2>2. env \in Environments
    BY <1>2 DEF ProxyTyped
  <2> QED
    BY <1>0, <1>2, <1>3, <2>1, <2>2, RulesDecide
<1> QED
  BY <1>4, <1>5, <1>6, <1>7 DEF ProxyInv

-----------------------------------------------------------------------------

\* A step of the conversation leaves the rules and the route as they are.
LEMMA RouteKept ==
    ASSUME RulesKept, HostIsRouted, dial.pc # "idle", env' = env, perHost' = perHost,
           dial'.host = dial.host, dial'.through = dial.through
    PROVE  RulesKept' /\ HostIsRouted'
<1>1. RulesKept'
  BY DEF RulesKept, RulesRead
<1>2. HostIsRouted'
  BY DEF HostIsRouted
<1> QED
  BY <1>1, <1>2

LEMMA DialMoved ==
    ASSUME ProxyTyped, NEW pc, dial' = [dial EXCEPT !.pc = pc]
    PROVE  /\ dial'.pc = pc /\ dial'.host = dial.host /\ dial'.through = dial.through
           /\ dial'.error = dial.error /\ dial'.discard = dial.discard
           /\ dial'.answered = dial.answered
BY DEF ProxyTyped

LEMMA DialTyped ==
    ASSUME ProxyTyped, env' = env, messages' \in Seq(Seq(Nat)), stream' \in Seq(Byte),
           NEW pc \in {"idle", "forward", "done"} \cup Talking,
           \/ dial' = [dial EXCEPT !.pc = pc]
           \/ dial' = [dial EXCEPT !.pc = pc, !.error = TRUE]
    PROVE  ProxyTyped'
BY DEF ProxyTyped

LEMMA FailsInv == ASSUME ProxyInv, dial.pc \in Talking, Fails PROVE ProxyInv'
<1>0. /\ ProxyTyped /\ RulesKept /\ PasswordsOK /\ HostIsRouted
      /\ dial' = [dial EXCEPT !.pc = "done", !.error = TRUE] /\ conn' = "closed"
      /\ UNCHANGED <<env, perHost, messages, stream>>
  BY DEF ProxyInv, Fails
<1>1. /\ dial'.pc = "done" /\ dial'.error = TRUE /\ dial'.host = dial.host
      /\ dial'.through = dial.through
  BY <1>0 DEF ProxyTyped
<1>2. ProxyTyped'
  BY <1>0, DialTyped DEF ProxyTyped
<1>3. RulesKept' /\ HostIsRouted'
  <2>1. dial.pc # "idle"
    BY DEF Talking
  <2> QED
    BY <1>0, <1>1, <2>1, RouteKept
<1>4. StreamOK' /\ ConnOK' /\ PasswordsOK'
  BY <1>0, <1>1 DEF StreamOK, ConnOK, PasswordsOK, Offers, Talking
<1> QED
  BY <1>2, <1>3, <1>4 DEF ProxyInv

\* A message that is sent whole, when the stream is empty.
LEMMA WritesInv ==
    ASSUME ProxyInv, dial.pc \in Talking, stream = <<>>,
           NEW pc \in {"greeting", "status", "reply"}, NEW message \in Seq(Nat),
           message[1] = 1 /\ Offers => message[2] = message[3] /\ message[4] = message[5],
           Writes(pc, message)
    PROVE  ProxyInv'
<1>1. CASE Fails
  BY <1>1, FailsInv
<1>2. CASE /\ messages' = Append(messages, message)
           /\ dial' = [dial EXCEPT !.pc = pc]
           /\ UNCHANGED <<env, perHost, conn, stream>>
  <2>0. ProxyTyped /\ RulesKept /\ PasswordsOK /\ HostIsRouted /\ ConnOK
    BY DEF ProxyInv
  <2>1. /\ dial'.pc = pc /\ dial'.error = dial.error /\ dial'.host = dial.host
        /\ dial'.through = dial.through
    BY <1>2, <2>0, DialMoved
  <2>2. /\ messages \in Seq(Seq(Nat)) /\ messages' \in Seq(Seq(Nat))
        /\ Len(messages') = Len(messages) + 1
        /\ messages'[Len(messages) + 1] = message
        /\ \A i \in 1..Len(messages) : messages'[i] = messages[i]
    BY <1>2, <2>0 DEF ProxyTyped
  <2>3. ProxyTyped'
    <3>1. env' = env /\ stream' \in Seq(Byte)
      BY <1>2, <2>0 DEF ProxyTyped
    <3>2. pc \in {"idle", "forward", "done"} \cup Talking
      BY DEF Talking
    <3> QED
      BY <1>2, <2>0, <2>2, <3>1, <3>2, DialTyped
  <2>4. RulesKept' /\ HostIsRouted'
    <3>1. dial.pc # "idle"
      BY DEF Talking
    <3> QED
      BY <1>2, <2>0, <2>1, <3>1, RouteKept
  <2>5. StreamOK'
    BY <1>2, <2>1 DEF StreamOK, ReplyOK
  <2>6. ConnOK'
    BY <1>2, <2>0, <2>1 DEF ConnOK, Talking
  <2>7. PasswordsOK'
    <3>1. Offers' <=> Offers
      BY <1>2 DEF Offers
    <3>2. ASSUME NEW i \in DOMAIN messages', messages'[i][1] = 1, Offers
          PROVE  messages'[i][2] = messages'[i][3] /\ messages'[i][4] = messages'[i][5]
      <4>1. i \in 1..Len(messages) \/ i = Len(messages) + 1
        BY <2>2
      <4>2. CASE i \in 1..Len(messages)
        <5>1. DOMAIN messages = 1..Len(messages)
          BY ONLY <2>2
        <5>2. i \in DOMAIN messages /\ messages'[i] = messages[i]
          BY ONLY <2>2, <4>2, <5>1
        <5> QED
          BY <2>0, <3>2, <5>2 DEF PasswordsOK
      <4>3. CASE i = Len(messages) + 1
        BY <2>2, <3>2, <4>3
      <4> QED
        BY <4>1, <4>2, <4>3
    <3> QED
      BY <3>1, <3>2 DEF PasswordsOK
  <2> QED
    BY <2>3, <2>4, <2>5, <2>6, <2>7 DEF ProxyInv
<1> QED
  BY <1>1, <1>2 DEF Writes

\* io.ReadFull leaves the bytes after those it took.
LEMMA TookBytes ==
    ASSUME stream \in Seq(Byte), NEW n \in Nat, Has(n), Took(n)
    PROVE  /\ stream' \in Seq(Byte) /\ Len(stream') = Len(stream) - n
           /\ \A i \in 1..Len(stream) - n : stream'[i] = stream[i + n]
           /\ Len(stream) = n => stream' = <<>>
<1> DEFINE L == Len(stream)
<1>0. L \in Nat /\ L >= n /\ stream' = SubSeq(stream, n + 1, L)
  BY DEF Has, Took
<1>1. \A i \in n + 1..L : stream[i] \in Byte
  BY <1>0
<1>2. /\ stream' \in Seq(Byte)
      /\ Len(stream') = IF n + 1 <= L THEN L - (n + 1) + 1 ELSE 0
      /\ \A i \in 1..L - (n + 1) + 1 : stream'[i] = stream[n + 1 + i - 1]
  <2> HIDE DEF L
  <2>1. n + 1 \in Int /\ L \in Int
    BY <1>0
  <2> QED
    BY <1>0, <1>1, <2>1, SubSeqProperties
<1>3. Len(stream') = L - n /\ L - (n + 1) + 1 = L - n
  BY <1>0, <1>2
<1>4. \A i \in 1..L - n : n + 1 + i - 1 = i + n
  BY <1>0
<1>5. L = n => stream' = <<>>
  BY <1>2, <1>3, <1>0, EmptySeq
<1> QED
  BY <1>2, <1>3, <1>4, <1>5

\* Of n + m bytes before what the other end sends, m are left.
LEMMA TookCarries ==
    ASSUME stream \in Seq(Byte), NEW n \in Nat, NEW m \in Nat, Carries(n + m), Took(n)
    PROVE  stream' \in Seq(Byte) /\ Len(stream') = m + 1 /\ stream'[m + 1] = Relayed
<1>1. Len(stream) = n + m + 1 /\ stream[n + m + 1] = Relayed /\ Has(n)
  BY DEF Carries, Has
<1>2. m + 1 \in 1..Len(stream) - n /\ (m + 1) + n = n + m + 1 /\ Len(stream) - n = m + 1
  BY <1>1
<1> QED
  BY <1>1, <1>2, TookBytes

\* A step that takes n bytes, and leaves the connection open.
LEMMA TakesInv ==
    ASSUME ProxyInv, dial.pc \in Talking, NEW n \in Nat, Has(n), Took(n),
           UNCHANGED <<env, perHost, conn, messages>>,
           ProxyTyped', dial'.host = dial.host, dial'.through = dial.through,
           dial'.error = dial.error,
           dial'.pc \in Talking \/ (dial'.pc = "done" /\ Len(stream') = 1 /\ stream'[1] = Relayed),
           StreamOK'
    PROVE  ProxyInv'
<1>0. RulesKept /\ HostIsRouted /\ ConnOK /\ PasswordsOK
  BY DEF ProxyInv
<1>1. RulesKept' /\ HostIsRouted'
  <2>1. dial.pc # "idle"
    BY DEF Talking
  <2> QED
    BY <1>0, <2>1, RouteKept
<1>2. ConnOK'
  BY <1>0 DEF ConnOK, Talking, Carries
<1>3. PasswordsOK'
  BY <1>0 DEF PasswordsOK, Offers
<1> QED
  BY <1>1, <1>2, <1>3 DEF ProxyInv

LEMMA ForwardsInv == ASSUME ProxyInv, Forwards PROVE ProxyInv'
<1>0. /\ ProxyTyped /\ RulesKept /\ StreamOK /\ ConnOK /\ PasswordsOK /\ HostIsRouted
      /\ dial.pc = "forward" /\ UNCHANGED <<env, perHost, stream, messages>>
  BY DEF ProxyInv, Forwards
<1>1. \/ dial' = [dial EXCEPT !.pc = "done", !.error = TRUE] /\ conn' = conn
      \/ dial' = [dial EXCEPT !.pc = "greet"] /\ conn' = "open"
  BY DEF Forwards
<1>2. /\ dial'.host = dial.host /\ dial'.through = dial.through
      /\ \/ dial'.pc = "done" /\ dial'.error = TRUE /\ conn' = conn
         \/ dial'.pc = "greet" /\ dial'.error = dial.error /\ conn' = "open"
  BY <1>0, <1>1 DEF ProxyTyped
<1>3. ProxyTyped'
  BY <1>0, <1>1 DEF ProxyTyped, Talking
<1>4. RulesKept' /\ HostIsRouted'
  BY <1>0, <1>2, RouteKept
<1>5. StreamOK' /\ ConnOK' /\ PasswordsOK'
  BY <1>0, <1>2 DEF StreamOK, ConnOK, PasswordsOK, Offers, Talking
<1> QED
  BY <1>3, <1>4, <1>5 DEF ProxyInv

LEMMA GreetsInv == ASSUME ProxyInv, Greets PROVE ProxyInv'
<1> DEFINE message == <<Version, Len(Methods)>> \o Methods
<1>1. dial.pc = "greet" /\ dial.pc \in Talking /\ stream = <<>> /\ Writes("greeting", message)
  BY DEF ProxyInv, Greets, StreamOK, Talking
<1>2. message \in Seq(Nat) /\ message[1] = 5
  BY DEF Methods, Version, AuthNone, AuthPassword
<1> HIDE DEF message
<1> QED
  BY <1>1, <1>2, WritesInv

LEMMA IsCutOffInv == ASSUME ProxyInv, IsCutOff PROVE ProxyInv'
<1>1. dial.pc \in Talking /\ Fails
  BY DEF IsCutOff, Talking
<1> QED
  BY <1>1, FailsInv

LEMMA ReadsGreetingInv == ASSUME ProxyInv, ReadsGreeting PROVE ProxyInv'
<1>0. dial.pc = "greeting" /\ dial.pc \in Talking /\ Has(2) /\ ProxyTyped /\ StreamOK
  BY DEF ProxyInv, ReadsGreeting, Talking
<1>1. CASE Fails
  BY <1>0, <1>1, FailsInv
<1>2. CASE ~Fails
  <2>1. PICK pc \in {"password", "connect"} : dial' = [dial EXCEPT !.pc = pc]
    BY <1>2 DEF ReadsGreeting
  <2>2. Took(2) /\ UNCHANGED <<env, perHost, conn, messages>>
    BY <1>2 DEF ReadsGreeting
  <2>3. stream \in Seq(Byte) /\ messages \in Seq(Seq(Nat))
    BY <1>0 DEF ProxyTyped
  <2>4. Len(stream) = 2
    BY <1>0, <2>3 DEF StreamOK, Has
  <2>5. stream' \in Seq(Byte) /\ stream' = <<>>
    BY <1>0, <2>2, <2>3, <2>4, TookBytes
  <2>6. /\ dial'.pc = pc /\ dial'.host = dial.host /\ dial'.through = dial.through
        /\ dial'.error = dial.error
    BY <1>0, <2>1, DialMoved
  <2>7. ProxyTyped'
    <3>1. pc \in {"idle", "forward", "done"} \cup Talking
      BY DEF Talking
    <3> QED
      BY <1>0, <2>1, <2>2, <2>3, <2>5, <3>1, DialTyped
  <2>8. StreamOK' /\ dial'.pc \in Talking
    BY <2>5, <2>6 DEF StreamOK, Talking
  <2> QED
    BY <1>0, <2>2, <2>6, <2>7, <2>8, TakesInv
<1> QED
  BY <1>1, <1>2

LEMMA SendsPasswordInv == ASSUME InputsOK, ProxyInv, SendsPassword PROVE ProxyInv'
<1> DEFINE message == <<1, env.user % 256, env.user, env.password % 256, env.password>>
<1>1. /\ dial.pc = "password" /\ dial.pc \in Talking /\ stream = <<>>
      /\ Writes("status", message)
  BY DEF ProxyInv, SendsPassword, StreamOK, Talking
<1>2. env.user \in Nat /\ env.password \in Nat
  BY DEF InputsOK, ProxyInv, ProxyTyped
<1>3. env.user % 256 \in Nat /\ env.password % 256 \in Nat
  BY <1>2
<1>4. message \in Seq(Nat)
  BY <1>2, <1>3
<1>5. Offers => message[2] = message[3] /\ message[4] = message[5]
  BY <1>2 DEF Offers
<1> HIDE DEF message
<1> QED
  BY <1>1, <1>4, <1>5, WritesInv

LEMMA ReadsStatusInv == ASSUME ProxyInv, ReadsStatus PROVE ProxyInv'
<1>0. dial.pc = "status" /\ dial.pc \in Talking /\ Has(2) /\ ProxyTyped /\ StreamOK
  BY DEF ProxyInv, ReadsStatus, Talking
<1>1. CASE Fails
  BY <1>0, <1>1, FailsInv
<1>2. CASE ~Fails
  <2>1. dial' = [dial EXCEPT !.pc = "connect"]
    BY <1>2 DEF ReadsStatus
  <2>2. Took(2) /\ UNCHANGED <<env, perHost, conn, messages>>
    BY <1>2 DEF ReadsStatus
  <2>3. stream \in Seq(Byte) /\ messages \in Seq(Seq(Nat))
    BY <1>0 DEF ProxyTyped
  <2>4. Len(stream) = 2
    BY <1>0, <2>3 DEF StreamOK, Has
  <2>5. stream' \in Seq(Byte) /\ stream' = <<>>
    BY <1>0, <2>2, <2>3, <2>4, TookBytes
  <2>6. /\ dial'.pc = "connect" /\ dial'.host = dial.host /\ dial'.through = dial.through
        /\ dial'.error = dial.error
    BY <1>0, <2>1, DialMoved
  <2>7. ProxyTyped'
    <3>1. "connect" \in {"idle", "forward", "done"} \cup Talking
      BY DEF Talking
    <3> QED
      BY <1>0, <2>1, <2>2, <2>3, <2>5, <3>1, DialTyped
  <2>8. StreamOK' /\ dial'.pc \in Talking
    BY <2>5, <2>6 DEF StreamOK, Talking
  <2> QED
    BY <1>0, <2>2, <2>6, <2>7, <2>8, TakesInv
<1> QED
  BY <1>1, <1>2

LEMMA ConnectsInv == ASSUME InputsOK, ProxyInv, Connects PROVE ProxyInv'
<1>0. dial.pc = "connect" /\ dial.pc \in Talking /\ stream = <<>>
  BY DEF ProxyInv, Connects, StreamOK, Talking
<1>1. CASE Fails
  BY <1>0, <1>1, FailsInv
<1>2. CASE ~Fails
  <2> DEFINE message == <<Version, 1, 0>> \o HostBytes(dial.host)
  <2>1. Writes("reply", message)
    BY <1>2 DEF Connects
  <2>2. HostBytes(dial.host) \in Seq(Nat)
    <3>1. dial.host \in Hosts \cup {NoHost}
      BY DEF ProxyInv, ProxyTyped
    <3>2. Len(dial.host.name) \in Nat
      BY <3>1 DEF InputsOK, NoHost
    <3>3. \A n \in Nat : <<n>> \in Seq(Nat) /\ <<3, n>> \in Seq(Nat)
      OBVIOUS
    <3> QED
      BY <3>2, <3>3 DEF HostBytes
  <2>3. message \in Seq(Nat) /\ message[1] = 5
    <3>1. ASSUME NEW t \in Seq(Nat) PROVE <<5, 1, 0>> \o t \in Seq(Nat) /\ (<<5, 1, 0>> \o t)[1] = 5
      OBVIOUS
    <3> QED
      BY <2>2, <3>1 DEF Version
  <2> HIDE DEF message
  <2> QED
    BY <1>0, <2>1, <2>3, WritesInv
<1> QED
  BY <1>1, <1>2

LEMMA DialDiscards ==
    ASSUME ProxyTyped, NEW n \in Nat, NEW pc \in {"address"},
           dial' = [dial EXCEPT !.pc = pc, !.discard = n], env' = env,
           messages' = messages, stream' \in Seq(Byte)
    PROVE  /\ ProxyTyped'
           /\ dial'.pc = pc /\ dial'.discard = n /\ dial'.host = dial.host
           /\ dial'.through = dial.through /\ dial'.error = dial.error
BY DEF ProxyTyped, Talking

LEMMA ReadsReplyInv == ASSUME ProxyInv, ReadsReply PROVE ProxyInv'
<1>0. dial.pc = "reply" /\ dial.pc \in Talking /\ Has(4) /\ ProxyTyped /\ StreamOK
  BY DEF ProxyInv, ReadsReply, Talking
<1>1. CASE Fails
  BY <1>0, <1>1, FailsInv
<1>2. CASE ~Fails
  <2>1. /\ stream[2] = 0 /\ stream[4] \in {1, 3, 4} /\ Took(4)
        /\ dial' = IF stream[4] = 3 THEN [dial EXCEPT !.pc = "length"]
                   ELSE [dial EXCEPT !.pc = "address", !.discard = AddressLength[stream[4]]]
        /\ UNCHANGED <<env, perHost, conn, messages>>
    BY <1>2 DEF ReadsReply
  <2>2. stream \in Seq(Byte) /\ messages \in Seq(Seq(Nat))
    BY <1>0 DEF ProxyTyped
  <2>3. Len(stream) \in Nat /\ Len(stream) >= 4 /\ stream # <<>>
    BY <1>0, <2>2 DEF Has
  <2>4. IF stream[4] = 3 THEN stream[5] \in Nat /\ Carries(stream[5] + 7)
        ELSE Carries(AddressLength[stream[4]] + 6)
    BY <1>0, <2>1, <2>3 DEF StreamOK, ReplyOK
  <2>5. /\ stream' \in Seq(Byte) /\ Len(stream') = Len(stream) - 4
        /\ \A i \in 1..Len(stream) - 4 : stream'[i] = stream[i + 4]
    BY <1>0, <2>1, <2>2, TookBytes
  <2>6. CASE stream[4] = 3
    <3>1. dial' = [dial EXCEPT !.pc = "length"]
      BY <2>1, <2>6
    <3>2. /\ dial'.pc = "length" /\ dial'.host = dial.host /\ dial'.through = dial.through
          /\ dial'.error = dial.error
      BY <1>0, <3>1, DialMoved
    <3>3. ProxyTyped'
      <4>1. "length" \in {"idle", "forward", "done"} \cup Talking
        BY DEF Talking
      <4> QED
        BY <1>0, <2>1, <2>2, <2>5, <3>1, <4>1, DialTyped
    <3>4. StreamOK'
      <4> PICK n \in Nat : n = stream[5]
        BY <2>4, <2>6
      <4>1. Len(stream) = n + 8 /\ stream[n + 8] = Relayed
        BY <2>4, <2>6 DEF Carries
      <4>2. /\ 1 \in 1..Len(stream) - 4 /\ 1 + 4 = 5 /\ Len(stream) - 4 = n + 4
            /\ n + 4 \in 1..Len(stream) - 4 /\ n + 4 + 4 = n + 8
        BY ONLY <4>1, n \in Nat
      <4>3. Len(stream') = n + 4 /\ stream'[1] = n /\ stream'[n + 4] = Relayed
        BY ONLY <2>5, <4>1, <4>2, n = stream[5]
      <4> QED
        BY <3>2, <4>3 DEF StreamOK, Carries
    <3>5. dial'.pc \in Talking
      BY <3>2 DEF Talking
    <3> QED
      BY <1>0, <2>1, <3>2, <3>3, <3>4, <3>5, TakesInv
  <2>7. CASE stream[4] \in {1, 4}
    <3> PICK n \in Nat : n = AddressLength[stream[4]]
      BY <2>7 DEF AddressLength
    <3>1. dial' = [dial EXCEPT !.pc = "address", !.discard = n]
      BY <2>1, <2>7
    <3>2. /\ ProxyTyped' /\ dial'.pc = "address" /\ dial'.discard = n /\ dial'.host = dial.host
          /\ dial'.through = dial.through /\ dial'.error = dial.error
      BY <1>0, <2>1, <2>5, <3>1, DialDiscards
    <3>3. Len(stream) = n + 7 /\ stream[n + 7] = Relayed
      <4>1. Carries(n + 6)
        BY <2>4, <2>7
      <4> QED
        BY ONLY <4>1, n \in Nat DEF Carries
    <3>4. Len(stream') = n + 3 /\ stream'[n + 3] = Relayed
      <4>1. n + 3 \in 1..Len(stream) - 4 /\ n + 3 + 4 = n + 7 /\ Len(stream) - 4 = n + 3
        BY ONLY <3>3, n \in Nat
      <4> QED
        BY ONLY <2>5, <3>3, <4>1
    <3>5. StreamOK' /\ dial'.pc \in Talking
      BY <3>2, <3>4 DEF StreamOK, Carries, Talking
    <3> QED
      BY <1>0, <2>1, <3>2, <3>5, TakesInv
  <2> QED
    BY <2>1, <2>6, <2>7
<1> QED
  BY <1>1, <1>2

LEMMA ReadsLengthInv == ASSUME ProxyInv, ReadsLength PROVE ProxyInv'
<1>0. /\ dial.pc = "length" /\ dial.pc \in Talking /\ Has(1) /\ ProxyTyped /\ StreamOK
      /\ Took(1) /\ UNCHANGED <<env, perHost, conn, messages>>
      /\ dial' = [dial EXCEPT !.pc = "address", !.discard = stream[1]]
  BY DEF ProxyInv, ReadsLength, Talking
<1>1. stream[1] \in Nat /\ Carries(stream[1] + 3) /\ stream \in Seq(Byte)
  BY <1>0 DEF StreamOK, ProxyTyped
<1> PICK n \in Nat : n = stream[1]
  BY <1>1
<1>2. Len(stream) = n + 4 /\ stream[n + 4] = Relayed
  BY <1>1 DEF Carries
<1>3. /\ stream' \in Seq(Byte) /\ Len(stream') = Len(stream) - 1
      /\ \A i \in 1..Len(stream) - 1 : stream'[i] = stream[i + 1]
  BY <1>0, <1>1, TookBytes
<1>4. Len(stream') = n + 3 /\ stream'[n + 3] = Relayed
  <2>1. n + 3 \in 1..Len(stream) - 1 /\ n + 3 + 1 = n + 4 /\ Len(stream) - 1 = n + 3
    BY ONLY <1>2, n \in Nat
  <2> QED
    BY ONLY <1>2, <1>3, <2>1
<1>5. /\ ProxyTyped' /\ dial'.pc = "address" /\ dial'.discard = n /\ dial'.host = dial.host
      /\ dial'.through = dial.through /\ dial'.error = dial.error
  BY <1>0, <1>3, DialDiscards
<1>6. StreamOK' /\ dial'.pc \in Talking
  BY <1>4, <1>5 DEF StreamOK, Carries, Talking
<1> QED
  BY <1>0, <1>5, <1>6, TakesInv

LEMMA DiscardsAddressInv == ASSUME ProxyInv, DiscardsAddress PROVE ProxyInv'
<1> PICK n \in Nat : n = dial.discard
  BY DEF ProxyInv, ProxyTyped
<1>0. /\ dial.pc = "address" /\ dial.pc \in Talking /\ Has(n) /\ ProxyTyped /\ StreamOK
      /\ Took(n) /\ UNCHANGED <<env, perHost, conn, messages>>
      /\ dial' = [dial EXCEPT !.pc = "port"]
  BY DEF ProxyInv, DiscardsAddress, Talking
<1>1. Carries(n + 2) /\ stream \in Seq(Byte) /\ messages \in Seq(Seq(Nat))
  BY <1>0 DEF StreamOK, ProxyTyped
<1>2. stream' \in Seq(Byte) /\ Len(stream') = 2 + 1 /\ stream'[2 + 1] = Relayed
  BY <1>0, <1>1, TookCarries
<1>3. /\ dial'.pc = "port" /\ dial'.host = dial.host /\ dial'.through = dial.through
      /\ dial'.error = dial.error
  BY <1>0, DialMoved
<1>4. ProxyTyped'
  <2>1. "port" \in {"idle", "forward", "done"} \cup Talking
    BY DEF Talking
  <2> QED
    BY <1>0, <1>1, <1>2, <2>1, DialTyped
<1>5. StreamOK' /\ dial'.pc \in Talking
  BY <1>2, <1>3 DEF StreamOK, Carries, Talking
<1> QED
  BY <1>0, <1>3, <1>4, <1>5, TakesInv

LEMMA DiscardsPortInv == ASSUME ProxyInv, DiscardsPort PROVE ProxyInv'
<1>0. /\ dial.pc = "port" /\ dial.pc \in Talking /\ Has(2) /\ ProxyTyped /\ StreamOK
      /\ Took(2) /\ UNCHANGED <<env, perHost, conn, messages>>
      /\ dial' = [dial EXCEPT !.pc = "done"]
  BY DEF ProxyInv, DiscardsPort, Talking
<1>1. Carries(2 + 0) /\ stream \in Seq(Byte) /\ messages \in Seq(Seq(Nat))
  BY <1>0 DEF StreamOK, ProxyTyped
<1>2. stream' \in Seq(Byte) /\ Len(stream') = 0 + 1 /\ stream'[0 + 1] = Relayed
  BY <1>0, <1>1, TookCarries
<1>3. /\ dial'.pc = "done" /\ dial'.host = dial.host /\ dial'.through = dial.through
      /\ dial'.error = dial.error
  BY <1>0, DialMoved
<1>4. ProxyTyped'
  BY <1>0, <1>1, <1>2, DialTyped
<1>5. StreamOK'
  BY <1>3 DEF StreamOK
<1> QED
  BY <1>0, <1>2, <1>3, <1>4, <1>5, TakesInv

\* What the proxy may send: bytes, and what the other end sends after a whole reply.
LEMMA AnswersInv ==
    ASSUME ProxyInv, NEW bytes \in Seq(Byte), ProxySends(bytes),
           \/ dial.pc \in {"greeting", "status"} /\ Len(bytes) = 2
           \/ dial.pc = "reply" /\ (bytes[2] = 0 /\ bytes[4] \in {1, 3, 4} =>
                 LET n == IF bytes[4] = 3 THEN bytes[5] + 7 ELSE AddressLength[bytes[4]] + 6
                 IN /\ bytes[4] = 3 => bytes[5] \in Nat
                    /\ Len(bytes) = n + 1 /\ bytes[n + 1] = Relayed)
    PROVE  ProxyInv'
<1>0. /\ ProxyTyped /\ RulesKept /\ StreamOK /\ ConnOK /\ PasswordsOK /\ HostIsRouted
      /\ stream' = bytes /\ dial' = [dial EXCEPT !.answered = Len(messages)]
      /\ UNCHANGED <<env, perHost, conn, messages>>
  BY DEF ProxyInv, ProxySends
<1>1. /\ dial'.pc = dial.pc /\ dial'.host = dial.host /\ dial'.through = dial.through
      /\ dial'.error = dial.error
  BY <1>0 DEF ProxyTyped
<1>2. ProxyTyped'
  <2>1. Len(messages) \in Nat
    BY <1>0 DEF ProxyTyped
  <2> QED
    BY <1>0, <2>1 DEF ProxyTyped
<1>3. RulesKept' /\ HostIsRouted'
  BY <1>0, <1>1, RouteKept
<1>4. StreamOK'
  BY <1>0, <1>1 DEF StreamOK, ReplyOK, Carries
<1>5. ConnOK' /\ PasswordsOK'
  BY <1>0, <1>1 DEF ConnOK, PasswordsOK, Offers, Talking
<1> QED
  BY <1>2, <1>3, <1>4, <1>5 DEF ProxyInv

LEMMA BytesSeq == \A n \in Nat : Bytes(n) \in Seq(Byte) /\ Len(Bytes(n)) = n
BY DEF Bytes, Byte

\* A message keeps the bytes it begins with.
LEMMA BeginsWith ==
    ASSUME NEW head \in Seq(Byte), NEW rest \in Seq(Byte)
    PROVE  /\ head \o rest \in Seq(Byte) /\ Len(head \o rest) = Len(head) + Len(rest)
           /\ \A i \in 1..Len(head) : (head \o rest)[i] = head[i]
OBVIOUS

LEMMA EndsWithData ==
    ASSUME NEW s \in Seq(Byte)
    PROVE  /\ (s \o <<Relayed>>)[Len(s) + 1] = Relayed
           /\ <<Relayed>> \in Seq(Byte) /\ Len(<<Relayed>>) = 1
BY DEF Byte

\* A whole reply, and the first byte of the other end.
LEMMA ReplyCarries ==
    ASSUME NEW r \in Replies
    PROVE  LET bytes == r \o <<Relayed>>
               n == IF bytes[4] = 3 THEN bytes[5] + 7 ELSE AddressLength[bytes[4]] + 6
           IN /\ bytes \in Seq(Byte)
              /\ bytes[4] = 3 => bytes[5] \in Nat
              /\ Len(bytes) = n + 1 /\ bytes[n + 1] = Relayed
<1>1. ASSUME NEW head \in Seq(Byte), NEW address \in Seq(Byte),
             r = (head \o address) \o Bytes(2)
      PROVE  /\ r \o <<Relayed>> \in Seq(Byte)
             /\ Len(r \o <<Relayed>>) = Len(head) + Len(address) + 3
             /\ (r \o <<Relayed>>)[Len(head) + Len(address) + 3] = Relayed
             /\ \A i \in 1..Len(head) : (r \o <<Relayed>>)[i] = head[i]
  <2>1. /\ head \o address \in Seq(Byte) /\ Len(head \o address) = Len(head) + Len(address)
        /\ \A i \in 1..Len(head) : (head \o address)[i] = head[i]
    BY BeginsWith
  <2> DEFINE t == head \o address
  <2>2. t \in Seq(Byte) /\ r = t \o Bytes(2) /\ Bytes(2) \in Seq(Byte) /\ Len(Bytes(2)) = 2
    BY <1>1, <2>1, BytesSeq
  <2> HIDE DEF t
  <2>3. r \in Seq(Byte) /\ Len(r) = Len(t) + 2 /\ \A i \in 1..Len(t) : r[i] = t[i]
    <3> PICK e \in Seq(Byte) : e = Bytes(2) /\ Len(e) = 2
      BY <2>2
    <3>1. r = t \o e
      BY <2>2
    <3>2. /\ t \o e \in Seq(Byte) /\ Len(t \o e) = Len(t) + Len(e)
          /\ \A i \in 1..Len(t) : (t \o e)[i] = t[i]
      BY <2>2, BeginsWith
    <3> QED
      BY ONLY <3>1, <3>2, Len(e) = 2
  <2>4. /\ r \o <<Relayed>> \in Seq(Byte) /\ Len(r \o <<Relayed>>) = Len(r) + 1
        /\ (r \o <<Relayed>>)[Len(r) + 1] = Relayed
        /\ \A i \in 1..Len(r) : (r \o <<Relayed>>)[i] = r[i]
    BY <2>3, BeginsWith, EndsWithData
  <2>5. Len(t) = Len(head) + Len(address) /\ \A i \in 1..Len(head) : t[i] = head[i]
    BY <2>1 DEF t
  <2>6. Len(head) \in Nat /\ Len(address) \in Nat /\ Len(r) + 1 = Len(head) + Len(address) + 3
    BY <2>3, <2>5
  <2>7. \A i \in 1..Len(head) : i \in 1..Len(t) /\ i \in 1..Len(r)
    BY <2>3, <2>5, <2>6
  <2> QED
    BY <2>3, <2>4, <2>5, <2>6, <2>7
<1>2. 0 \in Byte /\ 1 \in Byte /\ 3 \in Byte /\ 4 \in Byte /\ 5 \in Byte
  BY DEF Byte
<1>3. AddressLength[1] = 4 /\ AddressLength[4] = 16
  BY DEF AddressLength
<1>4. ASSUME r = <<Version, 0, 0, 1>> \o Bytes(4) \o Bytes(2)
      PROVE  /\ r \o <<Relayed>> \in Seq(Byte) /\ Len(r \o <<Relayed>>) = 11
             /\ (r \o <<Relayed>>)[11] = Relayed
             /\ (r \o <<Relayed>>)[4] = 1
  <2>0. <<5, 0, 0, 1>> \in Seq(Byte)
    BY <1>2
  <2> PICK head \in Seq(Byte) : head = <<5, 0, 0, 1>>
    BY <2>0
  <2> PICK address \in Seq(Byte) : address = Bytes(4) /\ Len(address) = 4
    BY BytesSeq
  <2>1. r = (head \o address) \o Bytes(2)
    BY <1>4 DEF Version
  <2>2. Len(head) = 4 /\ head[4] = 1
    OBVIOUS
  <2>3. /\ r \o <<Relayed>> \in Seq(Byte)
        /\ Len(r \o <<Relayed>>) = Len(head) + Len(address) + 3
        /\ (r \o <<Relayed>>)[Len(head) + Len(address) + 3] = Relayed
        /\ \A i \in 1..Len(head) : (r \o <<Relayed>>)[i] = head[i]
    BY <1>1, <2>1
  <2>4. Len(head) + Len(address) + 3 = 11 /\ 1..Len(head) = 1..4
    <3>1. Len(address) = 4
      OBVIOUS
    <3> QED
      BY ONLY <2>2, <3>1
  <2>5. 4 \in 1..4
    OBVIOUS
  <2> QED
    BY ONLY <2>2, <2>3, <2>4, <2>5
<1>5. ASSUME r = <<Version, 0, 0, 4>> \o Bytes(16) \o Bytes(2)
      PROVE  /\ r \o <<Relayed>> \in Seq(Byte) /\ Len(r \o <<Relayed>>) = 23
             /\ (r \o <<Relayed>>)[23] = Relayed
             /\ (r \o <<Relayed>>)[4] = 4
  <2>0. <<5, 0, 0, 4>> \in Seq(Byte)
    BY <1>2
  <2> PICK head \in Seq(Byte) : head = <<5, 0, 0, 4>>
    BY <2>0
  <2> PICK address \in Seq(Byte) : address = Bytes(16) /\ Len(address) = 16
    BY BytesSeq
  <2>1. r = (head \o address) \o Bytes(2)
    BY <1>5 DEF Version
  <2>2. Len(head) = 4 /\ head[4] = 4
    OBVIOUS
  <2>3. /\ r \o <<Relayed>> \in Seq(Byte)
        /\ Len(r \o <<Relayed>>) = Len(head) + Len(address) + 3
        /\ (r \o <<Relayed>>)[Len(head) + Len(address) + 3] = Relayed
        /\ \A i \in 1..Len(head) : (r \o <<Relayed>>)[i] = head[i]
    BY <1>1, <2>1
  <2>4. Len(head) + Len(address) + 3 = 23 /\ 1..Len(head) = 1..4
    <3>1. Len(address) = 16
      OBVIOUS
    <3> QED
      BY ONLY <2>2, <3>1
  <2>5. 4 \in 1..4
    OBVIOUS
  <2> QED
    BY ONLY <2>2, <2>3, <2>4, <2>5
<1>6. ASSUME r = <<Version, 0, 0, 3, 3>> \o Bytes(3) \o Bytes(2)
      PROVE  /\ r \o <<Relayed>> \in Seq(Byte) /\ Len(r \o <<Relayed>>) = 11
             /\ (r \o <<Relayed>>)[11] = Relayed
             /\ (r \o <<Relayed>>)[4] = 3 /\ (r \o <<Relayed>>)[5] = 3
  <2>0. <<5, 0, 0, 3, 3>> \in Seq(Byte)
    BY <1>2
  <2> PICK head \in Seq(Byte) : head = <<5, 0, 0, 3, 3>>
    BY <2>0
  <2> PICK address \in Seq(Byte) : address = Bytes(3) /\ Len(address) = 3
    BY BytesSeq
  <2>1. r = (head \o address) \o Bytes(2)
    BY <1>6 DEF Version
  <2>2. Len(head) = 5 /\ head[4] = 3 /\ head[5] = 3
    OBVIOUS
  <2>3. /\ r \o <<Relayed>> \in Seq(Byte)
        /\ Len(r \o <<Relayed>>) = Len(head) + Len(address) + 3
        /\ (r \o <<Relayed>>)[Len(head) + Len(address) + 3] = Relayed
        /\ \A i \in 1..Len(head) : (r \o <<Relayed>>)[i] = head[i]
    BY <1>1, <2>1
  <2>4. Len(head) + Len(address) + 3 = 11 /\ 1..Len(head) = 1..5
    <3>1. Len(address) = 3
      OBVIOUS
    <3> QED
      BY ONLY <2>2, <3>1
  <2>5. 4 \in 1..5 /\ 5 \in 1..5
    OBVIOUS
  <2> QED
    BY ONLY <2>2, <2>3, <2>4, <2>5
<1>7. ASSUME r = <<Version, 0, 0, 3, 0>> \o Bytes(2)
      PROVE  /\ r \o <<Relayed>> \in Seq(Byte) /\ Len(r \o <<Relayed>>) = 8
             /\ (r \o <<Relayed>>)[8] = Relayed
             /\ (r \o <<Relayed>>)[4] = 3 /\ (r \o <<Relayed>>)[5] = 0
  <2>0. <<5, 0, 0, 3, 0>> \in Seq(Byte)
    BY <1>2
  <2> PICK head \in Seq(Byte) : head = <<5, 0, 0, 3, 0>>
    BY <2>0
  <2> PICK address \in Seq(Byte) : address = <<>> /\ Len(address) = 0
    BY BytesSeq
  <2>1. r = (head \o address) \o Bytes(2)
    BY <1>7 DEF Version
  <2>2. Len(head) = 5 /\ head[4] = 3 /\ head[5] = 0
    OBVIOUS
  <2>3. /\ r \o <<Relayed>> \in Seq(Byte)
        /\ Len(r \o <<Relayed>>) = Len(head) + Len(address) + 3
        /\ (r \o <<Relayed>>)[Len(head) + Len(address) + 3] = Relayed
        /\ \A i \in 1..Len(head) : (r \o <<Relayed>>)[i] = head[i]
    BY <1>1, <2>1
  <2>4. Len(head) + Len(address) + 3 = 8 /\ 1..Len(head) = 1..5
    <3>1. Len(address) = 0
      OBVIOUS
    <3> QED
      BY ONLY <2>2, <3>1
  <2>5. 4 \in 1..5 /\ 5 \in 1..5
    OBVIOUS
  <2> QED
    BY ONLY <2>2, <2>3, <2>4, <2>5
<1> DEFINE m == r \o <<Relayed>>
<1>8. /\ m \in Seq(Byte)
      /\ \/ Len(m) = 11 /\ m[11] = Relayed /\ m[4] = 1
         \/ Len(m) = 23 /\ m[23] = Relayed /\ m[4] = 4
         \/ Len(m) = 11 /\ m[11] = Relayed /\ m[4] = 3 /\ m[5] = 3
         \/ Len(m) = 8 /\ m[8] = Relayed /\ m[4] = 3 /\ m[5] = 0
  <2>1. \/ r = <<Version, 0, 0, 1>> \o Bytes(4) \o Bytes(2)
        \/ r = <<Version, 0, 0, 4>> \o Bytes(16) \o Bytes(2)
        \/ r = <<Version, 0, 0, 3, 3>> \o Bytes(3) \o Bytes(2)
        \/ r = <<Version, 0, 0, 3, 0>> \o Bytes(2)
    BY Zenon DEF Replies
  <2> QED
    BY <1>4, <1>5, <1>6, <1>7, <2>1, Zenon
<1> HIDE DEF m
<1>9. LET n == IF m[4] = 3 THEN m[5] + 7 ELSE AddressLength[m[4]] + 6
      IN m \in Seq(Byte) /\ (m[4] = 3 => m[5] \in Nat) /\ Len(m) = n + 1 /\ m[n + 1] = Relayed
  <2> DEFINE n == IF m[4] = 3 THEN m[5] + 7 ELSE AddressLength[m[4]] + 6
  <2>1. CASE Len(m) = 11 /\ m[11] = Relayed /\ m[4] = 1
    <3>1. n = 10
      BY ONLY <1>3, <2>1
    <3> QED
      BY ONLY <1>8, <2>1, <3>1
  <2>2. CASE Len(m) = 23 /\ m[23] = Relayed /\ m[4] = 4
    <3>1. n = 22
      BY ONLY <1>3, <2>2
    <3> QED
      BY ONLY <1>8, <2>2, <3>1
  <2>3. CASE Len(m) = 11 /\ m[11] = Relayed /\ m[4] = 3 /\ m[5] = 3
    <3>1. n = 10
      BY ONLY <2>3
    <3> QED
      BY ONLY <1>8, <2>3, <3>1
  <2>4. CASE Len(m) = 8 /\ m[8] = Relayed /\ m[4] = 3 /\ m[5] = 0
    <3>1. n = 7
      BY ONLY <2>4
    <3> QED
      BY ONLY <1>8, <2>4, <3>1
  <2> QED
    BY <1>8, <2>1, <2>2, <2>3, <2>4, Zenon
<1> QED
  BY ONLY <1>9 DEF m

LEMMA ProxyAnswersInv == ASSUME ProxyInv, ProxyAnswers PROVE ProxyInv'
<1>1. ASSUME dial.pc = "greeting", NEW v \in {4, Version}, NEW m \in {AuthNone, AuthPassword, NoMethod},
             ProxySends(<<v, m>>)
      PROVE  ProxyInv'
  <2>1. v \in Byte /\ m \in Byte
    BY DEF Byte, Version, AuthNone, AuthPassword, NoMethod
  <2>2. <<v, m>> \in Seq(Byte) /\ Len(<<v, m>>) = 2
    BY <2>1
  <2> QED
    BY <1>1, <2>2, AnswersInv
<1>2. ASSUME dial.pc = "status", NEW s \in {0, 1}, ProxySends(<<1, s>>)
      PROVE  ProxyInv'
  <2>1. s \in Byte /\ 1 \in Byte
    BY DEF Byte
  <2>2. <<1, s>> \in Seq(Byte) /\ Len(<<1, s>>) = 2
    BY <2>1
  <2> QED
    BY <1>2, <2>2, AnswersInv
<1>3. ASSUME dial.pc = "reply", NEW r \in Replies, ProxySends(r \o <<Relayed>>)
      PROVE  ProxyInv'
  <2> DEFINE bytes == r \o <<Relayed>>
             n == IF bytes[4] = 3 THEN bytes[5] + 7 ELSE AddressLength[bytes[4]] + 6
  <2>1. /\ bytes \in Seq(Byte)
        /\ bytes[4] = 3 => bytes[5] \in Nat
        /\ Len(bytes) = n + 1 /\ bytes[n + 1] = Relayed
    BY ReplyCarries
  <2>2. ProxySends(bytes)
    BY <1>3
  <2> HIDE DEF bytes
  <2> QED
    BY <1>3, <2>1, <2>2, AnswersInv
<1>4. ASSUME dial.pc = "reply", NEW e \in {0, 1, Errors}, NEW t \in {1, 9}, e # 0 \/ t = 9,
             ProxySends(<<Version, e, 0, t>>)
      PROVE  ProxyInv'
  <2> DEFINE bytes == <<Version, e, 0, t>>
  <2>1. Version \in Byte /\ e \in Byte /\ 0 \in Byte /\ t \in Byte
    BY DEF Byte, Version, Errors
  <2>2. bytes \in Seq(Byte) /\ ~(bytes[2] = 0 /\ bytes[4] \in {1, 3, 4})
    BY <1>4, <2>1
  <2>3. ProxySends(bytes)
    BY <1>4
  <2> HIDE DEF bytes
  <2> QED
    BY <1>4, <2>2, <2>3, AnswersInv
<1>5. \/ dial.pc = "greeting" /\ \E v \in {4, Version}, m \in {AuthNone, AuthPassword, NoMethod} : ProxySends(<<v, m>>)
      \/ dial.pc = "status" /\ \E s \in {0, 1} : ProxySends(<<1, s>>)
      \/ dial.pc = "reply" /\ \E r \in Replies : ProxySends(r \o <<Relayed>>)
      \/ dial.pc = "reply" /\ \E e \in {1, Errors}, t \in {1, 9} : ProxySends(<<Version, e, 0, t>>)
      \/ dial.pc = "reply" /\ ProxySends(<<Version, 0, 0, 9>>)
  BY DEF ProxyAnswers
<1>6. \A e \in {1, Errors} : e \in {0, 1, Errors} /\ e # 0
  BY DEF Errors
<1> QED
  BY <1>1, <1>2, <1>3, <1>4, <1>5, <1>6

-----------------------------------------------------------------------------

LEMMA UnchangedInv == ASSUME ProxyInv, UNCHANGED proxyVars PROVE ProxyInv'
<1>0. UNCHANGED <<env, perHost, dial, conn, messages, stream>>
  BY DEF proxyVars
<1>1. ProxyTyped' /\ RulesKept' /\ HostIsRouted'
  <2>1. ProxyTyped'
    BY <1>0 DEF ProxyInv, ProxyTyped
  <2>2. RulesKept'
    BY <1>0 DEF ProxyInv, RulesKept, RulesRead
  <2>3. HostIsRouted'
    BY <1>0 DEF ProxyInv, HostIsRouted
  <2> QED
    BY <2>1, <2>2, <2>3
<1>2. ReplyOK => ReplyOK'
  BY <1>0 DEF ReplyOK, Carries
<1>3. StreamOK'
  BY <1>0, <1>2 DEF ProxyInv, StreamOK, Carries
<1>4. ConnOK' /\ PasswordsOK'
  BY <1>0 DEF ProxyInv, ConnOK, Carries, PasswordsOK, Offers
<1> QED
  BY <1>1, <1>3, <1>4 DEF ProxyInv

\* The invariant, from which DialsAreSound follows.
LEMMA ProxyInvSound == ASSUME ProxyInv PROVE DialsAreSound
<1>1. ASSUME dial.pc = "done", dial.through = "socks5", ~dial.error
      PROVE  conn = "open" /\ stream = <<Relayed>>
  <2>1. conn = "open" /\ Len(stream) = 1 /\ stream[1] = Relayed /\ stream \in Seq(Byte)
    BY <1>1 DEF ProxyInv, ConnOK, Carries, ProxyTyped
  <2> QED
    BY <2>1
<1>2. DialIsClean
  BY <1>1 DEF ProxyInv, ConnOK, PasswordsOK, DialIsClean
<1> QED
  BY <1>2 DEF ProxyInv, DialsAreSound

\* Package proxy, for every host, rule and answer: a connection is handed out or closed, the
\* one that is handed out has nothing to read but what the other end sent, a password goes
\* whole, and a host goes past the proxy if and only if some rule of no_proxy exempts it.
THEOREM DialsStaySound == ASSUME InputsOK PROVE ProxySpec => []DialsAreSound
<1>1. ProxyInit => ProxyInv
  BY ProxyInitInv
<1>2. ProxyInv /\ [ProxyNext]_proxyVars => ProxyInv'
  <2>1. ASSUME ProxyInv, ProxyNext PROVE ProxyInv'
    BY <2>1, AddsRuleInv, DialsInv, ForwardsInv, GreetsInv, IsCutOffInv, ReadsGreetingInv,
       SendsPasswordInv, ReadsStatusInv, ConnectsInv, ReadsReplyInv, ReadsLengthInv,
       DiscardsAddressInv, DiscardsPortInv, ProxyAnswersInv, UnchangedInv
       DEF ProxyNext, DialerOver
  <2> QED
    BY <2>1, UnchangedInv
<1>3. ProxyInv => DialsAreSound
  BY ProxyInvSound
<1> QED
  BY <1>1, <1>2, <1>3, PTL DEF ProxySpec

(***************************************************************************)
(* The DICT client                                                         *)
(***************************************************************************)

\* A call whose command is with the server, or whose answer is being read.
Unread(c) == caller[c].pc \in {"turn", "first"}
Inside(c) == caller[c].pc \in {"lines", "header", "text", "last"}
InCall(c) == Unread(c) \/ Inside(c)

\* What an answer is made of.
StartsAnswer(l) == l.kind \in {"no", "dicts", "define"}
EndsAnswer(l) == l.kind \in {"no", "ok"}
NextKind(l) ==
    IF l.kind = "dicts" THEN "text"
    ELSE IF l.kind = "define" THEN IF l.value = 1 THEN "header" ELSE "ok"
    ELSE IF l.kind = "header" THEN "text" ELSE "ok"

LineSet ==
    {l \in [of : Nat, kind : {"no", "dicts", "define", "header", "text", "ok"},
            value : {0, 1, Malformed, "good", "bad"} \cup Headers] :
        l.kind = "define" => l.value \in {0, 1, Malformed}}
Request == [id : Nat, kind : {"dicts", "define"}]
ConnSet ==
    [state : {"new", "open", "broken", "closed"}, next : Nat, turn : Nat, skips : BOOLEAN]
IsCaller(r) ==
    r = [pc |-> r.pc, id |-> r.id, left |-> r.left, defs |-> r.defs, error |-> r.error,
         read |-> r.read]
DictTyped ==
    /\ dictConn \in ConnSet
    /\ caller = [c \in DictCallers |-> caller[c]] /\ \A c \in DictCallers : IsCaller(caller[c])
    /\ toServer \in Seq(Request)
    /\ answers \in Seq(LineSet)

\* Numbers: each call has its own, from the turn on; the one whose turn it is reads.
NumbersOK ==
    /\ dictConn.turn <= dictConn.next
    /\ \A c \in DictCallers : InCall(c) =>
          /\ caller[c].id \in Nat /\ dictConn.turn <= caller[c].id /\ caller[c].id < dictConn.next
          /\ caller[c].pc # "turn" => caller[c].id = dictConn.turn
    /\ \A c, d \in DictCallers :
          InCall(c) /\ InCall(d) /\ caller[c].id = caller[d].id => c = d
    /\ \A c \in DictCallers :
          /\ caller[c].read \subseteq {caller[c].id}
          /\ caller[c].pc = "idle" => caller[c].read = {}
          /\ ~InCall(c) /\ caller[c].read # {} =>
                caller[c].id \in Nat /\ caller[c].id < dictConn.turn

\* Commands that the server has not read, in their order.
CommandsOK ==
    /\ \A i \in 1..Len(toServer) :
          dictConn.turn <= toServer[i].id /\ toServer[i].id < dictConn.next
    /\ \A i, j \in 1..Len(toServer) : i < j => toServer[i].id < toServer[j].id
    /\ \A i \in 1..Len(toServer), c \in DictCallers :
          InCall(c) /\ caller[c].id = toServer[i].id => toServer[i].kind = DictCommands[c]

\* Lines: of commands that come before those, in their order; after a line that does not
\* end its answer, the one that must follow it.
LinesOK ==
    /\ \A i \in 1..Len(answers) :
          /\ dictConn.turn <= answers[i].of /\ answers[i].of < dictConn.next
          /\ \A j \in 1..Len(toServer) : answers[i].of < toServer[j].id
    /\ \A i, j \in 1..Len(answers) : i < j =>
          /\ answers[i].of <= answers[j].of
          /\ EndsAnswer(answers[i]) => answers[i].of < answers[j].of
    /\ \A i \in 1..Len(answers) : ~EndsAnswer(answers[i]) =>
          /\ i + 1 \in 1..Len(answers)
          /\ answers[i + 1].of = answers[i].of /\ answers[i + 1].kind = NextKind(answers[i])
    /\ \A i \in 1..Len(answers) : EndsAnswer(answers[i]) /\ i + 1 \in 1..Len(answers) =>
          StartsAnswer(answers[i + 1])
    /\ \A i \in 1..Len(answers), c \in DictCallers :
          StartsAnswer(answers[i]) /\ Unread(c) /\ caller[c].id = answers[i].of =>
              answers[i].kind \in {"no", DictCommands[c]}

\* The answer of a call that has read nothing is yet to come, or among the lines.
AnswersCome ==
    \A c \in DictCallers : Unread(c) =>
        \/ \E i \in 1..Len(toServer) : toServer[i].id = caller[c].id
        \/ \E i \in 1..Len(answers) : answers[i].of = caller[c].id

\* The next line is what the call that reads expects.
Expects(pc, left, kind) ==
    \/ pc = "lines" /\ kind = "text"
    \/ pc = "header" /\ left = 1 /\ kind = "header"
    \/ pc = "header" /\ left = 0 /\ kind = "ok"
    \/ pc = "text" /\ left = 1 /\ kind = "text"
    \/ pc = "last" /\ kind = "ok"
HeadOK ==
    /\ answers # <<>> /\ (\A c \in DictCallers : ~Inside(c)) => StartsAnswer(answers[1])
    /\ \A c \in DictCallers : Inside(c) =>
          /\ answers # <<>> /\ answers[1].of = caller[c].id
          /\ Expects(caller[c].pc, caller[c].left, answers[1].kind)

ConversationOK == NumbersOK /\ CommandsOK /\ LinesOK /\ AnswersCome /\ HeadOK

DictInv == DictTyped /\ (~dictConn.skips => ConversationOK)

-----------------------------------------------------------------------------
(* Callers and lines. *)

\* One field of a caller changes.
LEMMA CallerPc ==
    ASSUME NEW r, IsCaller(r), NEW v, NEW q, q = [r EXCEPT !.pc = v]
    PROVE  IsCaller(q) /\ q.pc = v /\ q.id = r.id /\ q.left = r.left /\ q.read = r.read
<1> PICK pc, id, left, defs, error, read :
        r = [pc |-> pc, id |-> id, left |-> left, defs |-> defs, error |-> error, read |-> read]
  BY DEF IsCaller
<1> QED
  BY DEF IsCaller

LEMMA CallerId ==
    ASSUME NEW r, IsCaller(r), NEW v, NEW q, q = [r EXCEPT !.id = v]
    PROVE  IsCaller(q) /\ q.pc = r.pc /\ q.id = v /\ q.left = r.left /\ q.read = r.read
<1> PICK pc, id, left, defs, error, read :
        r = [pc |-> pc, id |-> id, left |-> left, defs |-> defs, error |-> error, read |-> read]
  BY DEF IsCaller
<1> QED
  BY DEF IsCaller

LEMMA CallerLeft ==
    ASSUME NEW r, IsCaller(r), NEW v, NEW q, q = [r EXCEPT !.left = v]
    PROVE  IsCaller(q) /\ q.pc = r.pc /\ q.id = r.id /\ q.left = v /\ q.read = r.read
<1> PICK pc, id, left, defs, error, read :
        r = [pc |-> pc, id |-> id, left |-> left, defs |-> defs, error |-> error, read |-> read]
  BY DEF IsCaller
<1> QED
  BY DEF IsCaller

LEMMA CallerRead ==
    ASSUME NEW r, IsCaller(r), NEW v, NEW q, q = [r EXCEPT !.read = v]
    PROVE  IsCaller(q) /\ q.pc = r.pc /\ q.id = r.id /\ q.left = r.left /\ q.read = v
<1> PICK pc, id, left, defs, error, read :
        r = [pc |-> pc, id |-> id, left |-> left, defs |-> defs, error |-> error, read |-> read]
  BY DEF IsCaller
<1> QED
  BY DEF IsCaller

LEMMA CallerError ==
    ASSUME NEW r, IsCaller(r), NEW v, NEW q, q = [r EXCEPT !.error = v]
    PROVE  IsCaller(q) /\ q.pc = r.pc /\ q.id = r.id /\ q.left = r.left /\ q.read = r.read
<1> PICK pc, id, left, defs, error, read :
        r = [pc |-> pc, id |-> id, left |-> left, defs |-> defs, error |-> error, read |-> read]
  BY DEF IsCaller
<1> QED
  BY DEF IsCaller

LEMMA CallerDefs ==
    ASSUME NEW r, IsCaller(r), NEW v, NEW q, q = [r EXCEPT !.defs = v]
    PROVE  IsCaller(q) /\ q.pc = r.pc /\ q.id = r.id /\ q.left = r.left /\ q.read = r.read
<1> PICK pc, id, left, defs, error, read :
        r = [pc |-> pc, id |-> id, left |-> left, defs |-> defs, error |-> error, read |-> read]
  BY DEF IsCaller
<1> QED
  BY DEF IsCaller

LEMMA CallerMoves ==
    ASSUME DictTyped, NEW c \in DictCallers, NEW r, IsCaller(r), caller' = [caller EXCEPT ![c] = r]
    PROVE  /\ caller'[c] = r /\ \A d \in DictCallers \ {c} : caller'[d] = caller[d]
           /\ caller' = [d \in DictCallers |-> caller'[d]]
           /\ \A d \in DictCallers : IsCaller(caller'[d])
<1>1. caller = [d \in DictCallers |-> caller[d]] /\ \A d \in DictCallers : IsCaller(caller[d])
  BY DEF DictTyped
<1>2. caller'[c] = r /\ \A d \in DictCallers \ {c} : caller'[d] = caller[d]
  BY <1>1
<1>3. caller' = [d \in DictCallers |-> caller'[d]]
  BY <1>1
<1>4. \A d \in DictCallers : IsCaller(caller'[d])
  BY <1>1, <1>2
<1> QED
  BY <1>2, <1>3, <1>4

LEMMA TailLines ==
    ASSUME answers \in Seq(LineSet), answers # <<>>
    PROVE  /\ Len(answers) \in Nat \ {0} /\ answers[1] \in LineSet
           /\ Tail(answers) \in Seq(LineSet) /\ Len(Tail(answers)) = Len(answers) - 1
           /\ \A i \in 1..Len(answers) - 1 : Tail(answers)[i] = answers[i + 1]
<1>1. Len(answers) \in Nat \ {0}
  BY EmptySeq
<1> QED
  BY <1>1, HeadTailProperties

LEMMA RequestFields ==
    ASSUME toServer \in Seq(Request), NEW i \in 1..Len(toServer)
    PROVE  /\ toServer[i] \in Request /\ toServer[i].id \in Nat
           /\ toServer[i].kind \in {"dicts", "define"}
<1>1. toServer[i] \in Request
  OBVIOUS
<1> QED
  BY <1>1 DEF Request

LEMMA ConnFields ==
    ASSUME dictConn \in ConnSet
    PROVE  /\ LET q == [dictConn EXCEPT !.turn = @ + 1] IN
              q \in ConnSet /\ q.turn = dictConn.turn + 1 /\ q.next = dictConn.next /\ q.skips = dictConn.skips
           /\ LET q == [dictConn EXCEPT !.next = @ + 1] IN
              q \in ConnSet /\ q.turn = dictConn.turn /\ q.next = dictConn.next + 1 /\ q.skips = dictConn.skips
           /\ LET q == [dictConn EXCEPT !.next = @ + 1, !.state = "broken"] IN
              q \in ConnSet /\ q.turn = dictConn.turn /\ q.next = dictConn.next + 1 /\ q.skips = dictConn.skips
           /\ dictConn.turn \in Nat /\ dictConn.next \in Nat
<1>1. LET q == [dictConn EXCEPT !.turn = @ + 1] IN
      q \in ConnSet /\ q.turn = dictConn.turn + 1 /\ q.next = dictConn.next /\ (q.skips = dictConn.skips)
  BY DEF ConnSet
<1>2. LET q == [dictConn EXCEPT !.next = @ + 1] IN
      q \in ConnSet /\ q.turn = dictConn.turn /\ q.next = dictConn.next + 1 /\ (q.skips = dictConn.skips)
  BY DEF ConnSet
<1>3. LET q == [dictConn EXCEPT !.next = @ + 1, !.state = "broken"] IN
      q \in ConnSet /\ q.turn = dictConn.turn /\ q.next = dictConn.next + 1 /\ (q.skips = dictConn.skips)
  <2> PICK p : p = [dictConn EXCEPT !.next = @ + 1]
    OBVIOUS
  <2>1. /\ p \in ConnSet /\ p.turn = dictConn.turn /\ p.next = dictConn.next + 1
        /\ p.skips = dictConn.skips
    BY <1>2
  <2> PICK q : q = [p EXCEPT !.state = "broken"]
    OBVIOUS
  <2>2. q \in ConnSet /\ q.turn = p.turn /\ q.next = p.next /\ (q.skips = p.skips)
    BY <2>1 DEF ConnSet
  <2>3. q = [dictConn EXCEPT !.next = @ + 1, !.state = "broken"]
    OBVIOUS
  <2> QED
    BY <2>1, <2>2, <2>3
<1>4. dictConn.turn \in Nat /\ dictConn.next \in Nat
  BY DEF ConnSet
<1> QED
  BY <1>1, <1>2, <1>3, <1>4

LEMMA ConnSkips ==
    ASSUME dictConn \in ConnSet
    PROVE  /\ Skips \in ConnSet /\ Skips.skips = TRUE
           /\ LET q == [Skips EXCEPT !.turn = @ + 1] IN q \in ConnSet /\ q.skips = TRUE
<1>1. Skips \in ConnSet /\ Skips.skips = TRUE
  BY DEF Skips, ConnSet
<1>2. \A q \in ConnSet : [q EXCEPT !.turn = @ + 1] \in ConnSet /\ [q EXCEPT !.turn = @ + 1].skips = q.skips
  BY DEF ConnSet
<1> QED
  BY <1>1, <1>2

\* The type of a step that reads a line.
LEMMA ReadTyped ==
    ASSUME DictTyped, NEW c \in DictCallers, NEW r, IsCaller(r), caller' = [caller EXCEPT ![c] = r],
           answers # <<>>, answers' = Tail(answers), toServer' = toServer,
           \/ dictConn' = dictConn
           \/ dictConn' = [dictConn EXCEPT !.turn = @ + 1]
           \/ dictConn' = Skips
           \/ dictConn' = [Skips EXCEPT !.turn = @ + 1]
    PROVE  DictTyped'
<1>1. dictConn' \in ConnSet
  BY ConnFields, ConnSkips DEF DictTyped
<1>2. /\ caller' = [d \in DictCallers |-> caller'[d]]
      /\ \A d \in DictCallers : IsCaller(caller'[d])
  BY CallerMoves
<1>3. answers' \in Seq(LineSet)
  BY TailLines DEF DictTyped
<1> QED
  BY <1>1, <1>2, <1>3 DEF DictTyped

-----------------------------------------------------------------------------
(* A line is read. *)

\* It is the line of the call.
LEMMA HeadIsOwn ==
    ASSUME DictTyped, NumbersOK, LinesOK, AnswersCome, HeadOK, NEW c \in DictCallers,
           caller[c].pc = "first" \/ Inside(c), answers # <<>>
    PROVE  /\ answers[1].of = caller[c].id /\ caller[c].id = dictConn.turn
           /\ caller[c].pc = "first" => answers[1].kind \in {"no", DictCommands[c]}
           /\ caller[c].pc = "first" => StartsAnswer(answers[1])
<1>0. Len(answers) \in Nat \ {0} /\ answers[1] \in LineSet /\ 1 \in 1..Len(answers)
  BY TailLines DEF DictTyped
<1>1. caller[c].id = dictConn.turn /\ dictConn.turn \in Nat
  BY ConnFields DEF NumbersOK, InCall, Unread, Inside, DictTyped
<1>2. CASE Inside(c)
  BY <1>1, <1>2 DEF HeadOK, Inside
<1>3. CASE caller[c].pc = "first"
  <2>1. Unread(c) /\ InCall(c)
    BY <1>3 DEF Unread, InCall
  <2>2. answers[1].of = caller[c].id
    <3>1. dictConn.turn <= answers[1].of /\ answers[1].of \in Nat
      BY <1>0 DEF LinesOK, LineSet
    <3>2. CASE \E i \in 1..Len(toServer) : toServer[i].id = caller[c].id
      <4> PICK i \in 1..Len(toServer) : toServer[i].id = caller[c].id
        BY <3>2
      <4>1. answers[1].of < toServer[i].id
        BY <1>0 DEF LinesOK
      <4> QED
        BY <1>1, <3>1, <4>1
    <3>3. CASE \E i \in 1..Len(answers) : answers[i].of = caller[c].id
      <4> PICK i \in 1..Len(answers) : answers[i].of = caller[c].id
        BY <3>3
      <4>1. i = 1 \/ 1 < i
        BY <1>0
      <4>2. 1 < i => answers[1].of <= answers[i].of
        BY <1>0 DEF LinesOK
      <4> QED
        BY <1>1, <3>1, <4>1, <4>2
    <3> QED
      BY <2>1, <3>2, <3>3 DEF AnswersCome
  <2>3. \A d \in DictCallers : ~Inside(d)
    <3> SUFFICES ASSUME NEW d \in DictCallers, Inside(d) PROVE FALSE
      OBVIOUS
    <3>1. InCall(d) /\ caller[d].id = dictConn.turn
      BY DEF InCall, NumbersOK, Inside
    <3>2. d = c
      BY <1>1, <2>1, <3>1 DEF NumbersOK
    <3> QED
      BY <1>3, <3>2 DEF Inside
  <2>4. StartsAnswer(answers[1])
    BY <2>3 DEF HeadOK
  <2>5. answers[1].kind \in {"no", DictCommands[c]}
    BY <1>0, <2>1, <2>2, <2>4 DEF LinesOK
  <2> QED
    BY <1>1, <2>2, <2>4, <2>5
<1> QED
  BY <1>2, <1>3

\* The lines after one that was read.
LEMMA RestOfLines ==
    ASSUME answers \in Seq(LineSet), answers # <<>>, LinesOK, answers' = Tail(answers),
           toServer' = toServer, dictConn'.next = dictConn.next, dictConn.turn \in Nat,
           \/ dictConn'.turn = dictConn.turn
           \/ /\ dictConn'.turn = dictConn.turn + 1
              /\ EndsAnswer(answers[1]) /\ answers[1].of = dictConn.turn,
           \A d \in DictCallers : Unread(d)' => Unread(d) /\ caller'[d].id = caller[d].id
    PROVE  LinesOK'
<1> DEFINE n == Len(answers)
<1>0. /\ n \in Nat \ {0} /\ Len(answers') = n - 1 /\ answers' \in Seq(LineSet)
      /\ \A i \in 1..n - 1 : answers'[i] = answers[i + 1] /\ i + 1 \in 1..n
      /\ \A i \in 1..n : answers[i].of \in Nat
  <2>1. \A i \in 1..n : answers[i] \in LineSet
    OBVIOUS
  <2>2. \A l \in LineSet : l.of \in Nat
    BY DEF LineSet
  <2> QED
    BY <2>1, <2>2, TailLines
<1> HIDE DEF n
<1>1. ASSUME NEW i \in 1..n - 1
      PROVE  dictConn'.turn <= answers'[i].of /\ answers'[i].of < dictConn'.next
  <2>1. dictConn.turn <= answers[i + 1].of /\ answers[i + 1].of < dictConn.next
    BY <1>0 DEF LinesOK, n
  <2>2. EndsAnswer(answers[1]) => answers[1].of < answers[i + 1].of
    <3>1. 1 \in 1..n /\ i + 1 \in 1..n /\ 1 < i + 1
      BY <1>0
    <3> QED
      BY <3>1 DEF LinesOK, n
  <2>3. answers'[i].of = answers[i + 1].of /\ answers[i + 1].of \in Nat
    BY <1>0
  <2>4. CASE dictConn'.turn = dictConn.turn
    BY <2>1, <2>3, <2>4
  <2>5. CASE /\ dictConn'.turn = dictConn.turn + 1
             /\ EndsAnswer(answers[1]) /\ answers[1].of = dictConn.turn
    <3>1. dictConn.turn < answers[i + 1].of
      BY <2>2, <2>5
    <3>2. dictConn.turn \in Nat /\ dictConn'.next = dictConn.next
      OBVIOUS
    <3> QED
      BY ONLY <2>1, <2>3, <2>5, <3>1, <3>2
  <2> QED
    BY <2>4, <2>5
<1>2. \A i \in 1..n - 1, j \in 1..Len(toServer) : answers'[i].of < toServer'[j].id
  BY <1>0 DEF LinesOK, n
<1>3. ASSUME NEW i \in 1..n - 1, NEW j \in 1..n - 1, i < j
      PROVE  answers'[i].of <= answers'[j].of /\ (EndsAnswer(answers'[i]) => answers'[i].of < answers'[j].of)
  <2>1. i + 1 \in 1..n /\ j + 1 \in 1..n /\ i + 1 < j + 1
    BY <1>0, <1>3
  <2>2. /\ answers[i + 1].of <= answers[j + 1].of
        /\ EndsAnswer(answers[i + 1]) => answers[i + 1].of < answers[j + 1].of
    BY <2>1 DEF LinesOK, n
  <2>3. answers'[i] = answers[i + 1] /\ answers'[j] = answers[j + 1]
    BY <1>0
  <2> QED
    BY <2>2, <2>3
<1>4. ASSUME NEW i \in 1..n - 1
      PROVE  /\ ~EndsAnswer(answers'[i]) =>
                    /\ i + 1 \in 1..n - 1
                    /\ answers'[i + 1].of = answers'[i].of
                    /\ answers'[i + 1].kind = NextKind(answers'[i])
             /\ EndsAnswer(answers'[i]) /\ i + 1 \in 1..n - 1 => StartsAnswer(answers'[i + 1])
  <2>1. i + 1 \in 1..n /\ answers'[i] = answers[i + 1]
    BY <1>0
  <2>2. /\ ~EndsAnswer(answers[i + 1]) =>
              /\ i + 1 + 1 \in 1..n
              /\ answers[i + 1 + 1].of = answers[i + 1].of
              /\ answers[i + 1 + 1].kind = NextKind(answers[i + 1])
        /\ EndsAnswer(answers[i + 1]) /\ i + 1 + 1 \in 1..n => StartsAnswer(answers[i + 1 + 1])
    BY <2>1 DEF LinesOK, n
  <2>3. i + 1 + 1 \in 1..n <=> i + 1 \in 1..n - 1
    BY <1>0
  <2>4. i + 1 \in 1..n - 1 => answers'[i + 1] = answers[i + 1 + 1]
    BY <1>0
  <2> QED
    BY <2>1, <2>2, <2>3, <2>4
<1>5. ASSUME NEW i \in 1..n - 1, NEW d \in DictCallers, StartsAnswer(answers'[i]), Unread(d)',
             caller'[d].id = answers'[i].of
      PROVE  answers'[i].kind \in {"no", DictCommands[d]}
  <2>1. i + 1 \in 1..n /\ answers'[i] = answers[i + 1]
    BY <1>0
  <2> QED
    BY <1>5, <2>1 DEF LinesOK, n
<1> HIDE DEF StartsAnswer, EndsAnswer, NextKind, Unread
<1>6. Len(answers') = n - 1
  BY <1>0
<1> QED
  BY <1>1, <1>2, <1>3, <1>4, <1>5, <1>6 DEF LinesOK

\* The answers of the others, after a line of the call.
LEMMA RestComes ==
    ASSUME DictTyped, ConversationOK, NEW c \in DictCallers, caller[c].pc = "first" \/ Inside(c),
           answers # <<>>, answers' = Tail(answers), toServer' = toServer,
           ~Unread(c)', \A d \in DictCallers \ {c} : caller'[d] = caller[d]
    PROVE  AnswersCome'
<1>1. answers[1].of = caller[c].id
  BY HeadIsOwn DEF ConversationOK
<1>2. /\ Len(answers) \in Nat \ {0} /\ Len(answers') = Len(answers) - 1
      /\ \A i \in 1..Len(answers) - 1 : answers'[i] = answers[i + 1]
  BY TailLines DEF DictTyped
<1>3. ASSUME NEW d \in DictCallers, Unread(d)'
      PROVE  \/ \E i \in 1..Len(toServer') : toServer'[i].id = caller'[d].id
             \/ \E i \in 1..Len(answers') : answers'[i].of = caller'[d].id
  <2>1. d # c /\ caller'[d] = caller[d] /\ Unread(d)
    BY <1>3 DEF Unread
  <2>2. caller[d].id # caller[c].id
    BY <2>1 DEF ConversationOK, NumbersOK, InCall, Unread
  <2>3. CASE \E i \in 1..Len(toServer) : toServer[i].id = caller[d].id
    BY <2>1, <2>3
  <2>4. CASE \E i \in 1..Len(answers) : answers[i].of = caller[d].id
    <3> PICK i \in 1..Len(answers) : answers[i].of = caller[d].id
      BY <2>4
    <3>1. i # 1
      BY <1>1, <2>2
    <3>2. i - 1 \in 1..Len(answers') /\ (i - 1) + 1 = i /\ i - 1 \in 1..Len(answers) - 1
      BY <1>2, <3>1
    <3>3. answers'[i - 1] = answers[i]
      BY <1>2, <3>2
    <3> QED
      BY <2>1, <3>2, <3>3
  <2> QED
    BY <2>1, <2>3, <2>4 DEF ConversationOK, AnswersCome
<1> QED
  BY <1>3 DEF AnswersCome

\* A line that does not end the answer.
LEMMA ReadsOn ==
    ASSUME DictTyped, ConversationOK, NEW c \in DictCallers,
           caller[c].pc = "first" \/ Inside(c), answers # <<>>,
           NEW r, IsCaller(r), r.id = caller[c].id, r.read = caller[c].read \cup {answers[1].of},
           r.pc \in {"lines", "header", "text", "last"},
           ~EndsAnswer(answers[1]), Expects(r.pc, r.left, NextKind(answers[1])),
           caller' = [caller EXCEPT ![c] = r], answers' = Tail(answers),
           UNCHANGED <<toServer, dictConn>>
    PROVE  ConversationOK'
<1> USE DEF ConversationOK
<1>0. /\ caller'[c] = r /\ \A d \in DictCallers \ {c} : caller'[d] = caller[d]
      /\ dictConn.turn \in Nat /\ dictConn' = dictConn /\ toServer' = toServer
  <2>1. dictConn.turn \in Nat
    BY ConnFields DEF DictTyped
  <2> QED
    BY <2>1, CallerMoves
<1>1. answers[1].of = caller[c].id /\ caller[c].id = dictConn.turn
  BY HeadIsOwn
<1>2. /\ Len(answers) \in Nat \ {0} /\ Len(answers') = Len(answers) - 1
      /\ \A i \in 1..Len(answers) - 1 : answers'[i] = answers[i + 1]
      /\ answers' \in Seq(LineSet)
  BY TailLines DEF DictTyped
<1>3. /\ InCall(c) /\ InCall(c)' /\ Inside(c)' /\ ~Unread(c)'
      /\ \A d \in DictCallers \ {c} :
            (InCall(d)' <=> InCall(d)) /\ (Unread(d)' <=> Unread(d)) /\ (Inside(d)' <=> Inside(d))
  <2>1. InCall(c)
    BY DEF InCall, Unread
  <2>2. Inside(c)' /\ InCall(c)' /\ ~Unread(c)'
    BY <1>0 DEF Inside, InCall, Unread
  <2> QED
    BY <1>0, <2>1, <2>2 DEF Inside, InCall, Unread
<1>4. \A d \in DictCallers : caller'[d].id = caller[d].id
  BY <1>0
<1>5. NumbersOK'
  <2>1. ASSUME NEW d \in DictCallers, InCall(d)'
        PROVE  /\ caller'[d].id \in Nat /\ dictConn'.turn <= caller'[d].id
               /\ caller'[d].id < dictConn'.next
               /\ caller'[d].pc # "turn" => caller'[d].id = dictConn'.turn
    <3>1. CASE d = c
      BY <1>0, <1>1, <1>3, <3>1 DEF NumbersOK
    <3>2. CASE d # c
      BY <1>0, <1>3, <2>1, <3>2 DEF NumbersOK
    <3> QED
      BY <3>1, <3>2
  <2>2. ASSUME NEW d \in DictCallers, NEW e \in DictCallers, InCall(d)', InCall(e)',
               caller'[d].id = caller'[e].id
        PROVE  d = e
    <3>1. InCall(d) /\ InCall(e) /\ caller[d].id = caller[e].id
      BY <1>3, <1>4, <2>2
    <3> QED
      BY <3>1 DEF NumbersOK
  <2>3. ASSUME NEW d \in DictCallers
        PROVE  /\ caller'[d].read \subseteq {caller'[d].id}
               /\ caller'[d].pc = "idle" => caller'[d].read = {}
               /\ ~InCall(d)' /\ caller'[d].read # {} =>
                     caller'[d].id \in Nat /\ caller'[d].id < dictConn'.turn
    <3>1. CASE d = c
      BY <1>0, <1>1, <1>3, <3>1 DEF NumbersOK
    <3>2. CASE d # c
      BY <1>0, <1>3, <3>2 DEF NumbersOK
    <3> QED
      BY <3>1, <3>2
  <2> QED
    BY <1>0, <2>1, <2>2, <2>3 DEF NumbersOK
<1>6. CommandsOK'
  <2>1. \A d \in DictCallers : InCall(d)' => InCall(d)
    BY <1>3
  <2> QED
    BY <1>0, <1>4, <2>1 DEF CommandsOK
<1>7. LinesOK'
  <2>1. \A d \in DictCallers : Unread(d)' => Unread(d) /\ caller'[d].id = caller[d].id
    BY <1>3, <1>4
  <2>2. answers \in Seq(LineSet)
    BY DEF DictTyped
  <2> QED
    BY <1>0, <2>1, <2>2, RestOfLines
<1>8. AnswersCome'
  BY <1>0, <1>3, RestComes
<1>9. HeadOK'
  <2>1. /\ 1 + 1 \in 1..Len(answers)
        /\ answers[1 + 1].of = answers[1].of /\ answers[1 + 1].kind = NextKind(answers[1])
    BY <1>2 DEF LinesOK
  <2>2. answers'[1] = answers[1 + 1] /\ answers' # <<>>
    <3>1. 1 \in 1..Len(answers) - 1 /\ Len(answers') # 0 /\ Len(<<>>) = 0
      BY <1>2, <2>1
    <3> QED
      BY <1>2, <3>1
  <2>3. ASSUME NEW d \in DictCallers, Inside(d)' PROVE d = c
    <3>1. InCall(d)' /\ caller'[d].pc # "turn"
      BY <2>3 DEF InCall, Inside
    <3>2. caller'[d].id = dictConn.turn /\ caller'[c].id = dictConn.turn
      BY <1>0, <1>1, <1>5, <3>1 DEF NumbersOK
    <3> QED
      BY <1>3, <1>5, <3>1, <3>2 DEF NumbersOK
  <2>4. /\ answers' # <<>> /\ answers'[1].of = caller'[c].id
        /\ Expects(caller'[c].pc, caller'[c].left, answers'[1].kind)
    BY <1>0, <1>1, <2>1, <2>2
  <2> HIDE DEF Expects
  <2> QED
    BY <1>3, <2>3, <2>4 DEF HeadOK
<1> QED
  BY <1>5, <1>6, <1>7, <1>8, <1>9

\* The line that ends the answer: the turn goes to the next.
LEMMA ReadsEnd ==
    ASSUME DictTyped, ConversationOK, NEW c \in DictCallers,
           caller[c].pc = "first" \/ Inside(c), answers # <<>>,
           NEW r, IsCaller(r), r.id = caller[c].id, r.read = caller[c].read \cup {answers[1].of},
           r.pc = "done", EndsAnswer(answers[1]),
           caller' = [caller EXCEPT ![c] = r], answers' = Tail(answers),
           UNCHANGED toServer, dictConn' = [dictConn EXCEPT !.turn = @ + 1]
    PROVE  ConversationOK'
<1> USE DEF ConversationOK
<1>0. /\ caller'[c] = r /\ \A d \in DictCallers \ {c} : caller'[d] = caller[d]
      /\ dictConn.turn \in Nat /\ dictConn.next \in Nat /\ toServer' = toServer
      /\ dictConn'.turn = dictConn.turn + 1 /\ dictConn'.next = dictConn.next
  BY CallerMoves, ConnFields DEF DictTyped
<1>1. answers[1].of = caller[c].id /\ caller[c].id = dictConn.turn
  BY HeadIsOwn
<1>2. /\ Len(answers) \in Nat \ {0} /\ Len(answers') = Len(answers) - 1
      /\ \A i \in 1..Len(answers) - 1 : answers'[i] = answers[i + 1]
      /\ answers' \in Seq(LineSet)
  BY TailLines DEF DictTyped
<1>3. /\ InCall(c) /\ ~InCall(c)' /\ ~Inside(c)' /\ ~Unread(c)'
      /\ \A d \in DictCallers \ {c} :
            (InCall(d)' <=> InCall(d)) /\ (Unread(d)' <=> Unread(d)) /\ (Inside(d)' <=> Inside(d))
  <2>1. InCall(c)
    BY DEF InCall, Unread
  <2>2. ~Inside(c)' /\ ~InCall(c)' /\ ~Unread(c)'
    BY <1>0 DEF Inside, InCall, Unread
  <2> QED
    BY <1>0, <2>1, <2>2 DEF Inside, InCall, Unread
<1>4. \A d \in DictCallers : caller'[d].id = caller[d].id
  BY <1>0
<1>5. ASSUME NEW d \in DictCallers, InCall(d)'
      PROVE  /\ d # c /\ InCall(d) /\ caller'[d] = caller[d] /\ caller[d].id \in Nat
             /\ dictConn.turn < caller[d].id /\ caller[d].pc = "turn"
  <2>1. d # c /\ InCall(d) /\ caller'[d] = caller[d]
    BY <1>0, <1>3, <1>5
  <2>2. caller[d].id # caller[c].id
    BY <1>3, <2>1 DEF NumbersOK
  <2>3. /\ caller[d].id \in Nat /\ dictConn.turn <= caller[d].id
        /\ caller[d].pc # "turn" => caller[d].id = dictConn.turn
    BY <2>1 DEF NumbersOK
  <2> QED
    BY <1>0, <1>1, <2>1, <2>2, <2>3
<1>6. NumbersOK'
  <2>1. ASSUME NEW d \in DictCallers, InCall(d)'
        PROVE  /\ caller'[d].id \in Nat /\ dictConn'.turn <= caller'[d].id
               /\ caller'[d].id < dictConn'.next
               /\ caller'[d].pc # "turn" => caller'[d].id = dictConn'.turn
    <3>1. /\ InCall(d) /\ caller'[d] = caller[d] /\ caller[d].id \in Nat
          /\ dictConn.turn < caller[d].id /\ caller[d].pc = "turn"
      BY <1>5, <2>1
    <3>2. caller[d].id < dictConn.next
      BY <3>1 DEF NumbersOK
    <3> QED
      BY <1>0, <3>1, <3>2
  <2>2. ASSUME NEW d \in DictCallers, NEW e \in DictCallers, InCall(d)', InCall(e)',
               caller'[d].id = caller'[e].id
        PROVE  d = e
    <3>1. InCall(d) /\ InCall(e) /\ caller[d].id = caller[e].id
      BY <1>4, <1>5, <2>2
    <3> QED
      BY <3>1 DEF NumbersOK
  <2>3. ASSUME NEW d \in DictCallers
        PROVE  /\ caller'[d].read \subseteq {caller'[d].id}
               /\ caller'[d].pc = "idle" => caller'[d].read = {}
               /\ ~InCall(d)' /\ caller'[d].read # {} =>
                     caller'[d].id \in Nat /\ caller'[d].id < dictConn'.turn
    <3>1. CASE d = c
      <4>1. caller[c].read \subseteq {caller[c].id}
        BY DEF NumbersOK
      <4>2. caller'[d] = r /\ dictConn.turn < dictConn'.turn
        BY <1>0, <3>1
      <4> QED
        BY <1>0, <1>1, <4>1, <4>2
    <3>2. CASE d # c
      <4>1. caller'[d] = caller[d] /\ (InCall(d)' <=> InCall(d))
        BY <1>0, <1>3, <3>2
      <4>2. /\ caller[d].read \subseteq {caller[d].id}
            /\ caller[d].pc = "idle" => caller[d].read = {}
            /\ ~InCall(d) /\ caller[d].read # {} =>
                  caller[d].id \in Nat /\ caller[d].id < dictConn.turn
        BY DEF NumbersOK
      <4> QED
        BY <1>0, <4>1, <4>2
    <3> QED
      BY <3>1, <3>2
  <2>4. dictConn'.turn <= dictConn'.next
    <3>1. caller[c].id < dictConn.next
      BY <1>3 DEF NumbersOK
    <3> QED
      BY <1>0, <1>1, <3>1
  <2> QED
    BY <2>1, <2>2, <2>3, <2>4 DEF NumbersOK
<1>7. CommandsOK'
  <2>1. ASSUME NEW i \in 1..Len(toServer) PROVE dictConn'.turn <= toServer[i].id
    <3>1. answers[1].of < toServer[i].id
      BY <1>2 DEF LinesOK
    <3>2. toServer[i].id \in Nat
      BY RequestFields DEF DictTyped
    <3> QED
      BY <1>0, <1>1, <3>1, <3>2
  <2>2. \A d \in DictCallers : InCall(d)' => InCall(d)
    BY <1>3
  <2> QED
    BY <1>0, <1>4, <2>1, <2>2 DEF CommandsOK
<1>8. LinesOK'
  <2>1. \A d \in DictCallers : Unread(d)' => Unread(d) /\ caller'[d].id = caller[d].id
    BY <1>3, <1>4
  <2>2. answers \in Seq(LineSet)
    BY DEF DictTyped
  <2> QED
    BY <1>0, <1>1, <2>1, <2>2, RestOfLines
<1>9. AnswersCome'
  BY <1>0, <1>3, RestComes
<1>10. HeadOK'
  <2>1. ASSUME NEW d \in DictCallers PROVE ~Inside(d)'
    <3>1. Inside(d)' => InCall(d)' /\ caller'[d].pc # "turn"
      BY DEF InCall, Inside
    <3> QED
      BY <1>5, <3>1
  <2>2. ASSUME answers' # <<>> PROVE StartsAnswer(answers'[1])
    <3>1. Len(answers') # 0
      BY <1>2, <2>2
    <3>2. 1 \in 1..Len(answers) - 1 /\ 1 + 1 \in 1..Len(answers) /\ 1 \in 1..Len(answers)
      BY <1>2, <3>1
    <3>3. StartsAnswer(answers[1 + 1]) /\ answers'[1] = answers[1 + 1]
      BY <1>2, <3>2 DEF LinesOK
    <3> QED
      BY <3>3
  <2> HIDE DEF StartsAnswer
  <2> QED
    BY <2>1, <2>2 DEF HeadOK
<1> QED
  BY <1>6, <1>7, <1>8, <1>9, <1>10

-----------------------------------------------------------------------------
(* The server answers. *)

\* An answer of the server, whole.
IsAnswer(lines, r) ==
    /\ lines \in Seq(LineSet) /\ Len(lines) \in Nat \ {0}
    /\ \A i \in 1..Len(lines) :
          /\ lines[i].of = r.id
          /\ EndsAnswer(lines[i]) <=> i = Len(lines)
          /\ i < Len(lines) => lines[i + 1].kind = NextKind(lines[i])
          /\ StartsAnswer(lines[i]) => lines[i].kind \in {"no", r.kind}
    /\ StartsAnswer(lines[1])

LEMMA AnswersAreWhole ==
    ASSUME NEW r, r.id \in Nat, r.kind \in {"dicts", "define"}, NEW lines \in Answer(r)
    PROVE  IsAnswer(lines, r)
<1> DEFINE L(kind, value) == Line(r.id, kind, value)
<1>0. ASSUME NEW kind \in {"no", "dicts", "define", "header", "text", "ok"},
             NEW value \in {0, 1, Malformed, "good", "bad"} \cup Headers,
             kind = "define" => value \in {0, 1, Malformed}
      PROVE  L(kind, value) \in LineSet /\ L(kind, value).of = r.id /\ L(kind, value).kind = kind
             /\ L(kind, value).value = value
  <2>1. L(kind, value) = [of |-> r.id, kind |-> kind, value |-> value]
    BY DEF Line
  <2> HIDE DEF L
  <2>2. L(kind, value).of = r.id /\ L(kind, value).kind = kind /\ L(kind, value).value = value
    BY <2>1
  <2>3. L(kind, value) \in [of : Nat, kind : {"no", "dicts", "define", "header", "text", "ok"},
                            value : {0, 1, Malformed, "good", "bad"} \cup Headers]
    BY <2>1
  <2> QED
    BY <1>0, <2>2, <2>3 DEF LineSet
<1> HIDE DEF L
<1>1. CASE lines = <<L("no", 0)>>
  <2>1. lines \in Seq(LineSet) /\ Len(lines) = 1 /\ lines[1] = L("no", 0)
    BY <1>0, <1>1
  <2>2. /\ L("no", 0).of = r.id /\ EndsAnswer(L("no", 0)) /\ StartsAnswer(L("no", 0)) /\ L("no", 0).kind = "no"
    BY <1>0 DEF EndsAnswer, StartsAnswer
  <2> HIDE DEF EndsAnswer, StartsAnswer, NextKind
  <2> QED
    BY <2>1, <2>2 DEF IsAnswer
<1>2. ASSUME NEW v \in {"good", "bad"}, r.kind = "dicts",
             lines = <<L("dicts", 0), L("text", v), L("ok", 0)>>
      PROVE  IsAnswer(lines, r)
  <2>1. /\ lines \in Seq(LineSet) /\ Len(lines) = 3
        /\ lines[1] = L("dicts", 0) /\ lines[2] = L("text", v) /\ lines[3] = L("ok", 0)
    <3>1. L("dicts", 0) \in LineSet /\ L("text", v) \in LineSet /\ L("ok", 0) \in LineSet
      BY <1>0
    <3> QED
      BY <1>2, <3>1
  <2>2. /\ lines[1].of = r.id /\ lines[2].of = r.id /\ lines[3].of = r.id
        /\ lines[1].kind = "dicts" /\ lines[2].kind = "text" /\ lines[3].kind = "ok"
    <3>1. L("dicts", 0).of = r.id /\ L("dicts", 0).kind = "dicts"
      BY <1>0
    <3>2. L("text", v).of = r.id /\ L("text", v).kind = "text"
      BY <1>0
    <3>3. L("ok", 0).of = r.id /\ L("ok", 0).kind = "ok"
      BY <1>0
    <3> QED
      BY <2>1, <3>1, <3>2, <3>3
  <2>3. \A i \in 1..3 : i = 1 \/ i = 2 \/ i = 3
    OBVIOUS
  <2> QED
    BY ONLY <1>2, <2>1, <2>2, <2>3 DEF IsAnswer, EndsAnswer, StartsAnswer, NextKind
<1>3. ASSUME NEW h \in Headers, r.kind = "define",
             lines = <<L("define", 1), L("header", h), L("text", "good"), L("ok", 0)>>
      PROVE  IsAnswer(lines, r)
  <2>1. /\ lines \in Seq(LineSet) /\ Len(lines) = 4
        /\ lines[1] = L("define", 1) /\ lines[2] = L("header", h) /\ lines[3] = L("text", "good")
        /\ lines[4] = L("ok", 0)
    <3>1. /\ L("define", 1) \in LineSet /\ L("header", h) \in LineSet
          /\ L("text", "good") \in LineSet /\ L("ok", 0) \in LineSet
      BY <1>0
    <3> QED
      BY <1>3, <3>1
  <2>2. /\ lines[1].of = r.id /\ lines[2].of = r.id /\ lines[3].of = r.id /\ lines[4].of = r.id
        /\ lines[1].kind = "define" /\ lines[1].value = 1 /\ lines[2].kind = "header"
        /\ lines[3].kind = "text" /\ lines[4].kind = "ok"
    <3>1. L("define", 1).of = r.id /\ L("define", 1).kind = "define" /\ L("define", 1).value = 1
      BY <1>0
    <3>2. L("header", h).of = r.id /\ L("header", h).kind = "header"
      BY <1>0
    <3>3. L("text", "good").of = r.id /\ L("text", "good").kind = "text"
      BY <1>0
    <3>4. L("ok", 0).of = r.id /\ L("ok", 0).kind = "ok"
      BY <1>0
    <3> QED
      BY <2>1, <3>1, <3>2, <3>3, <3>4
  <2>3. \A i \in 1..4 : i = 1 \/ i = 2 \/ i = 3 \/ i = 4
    OBVIOUS
  <2> QED
    BY ONLY <1>3, <2>1, <2>2, <2>3 DEF IsAnswer, EndsAnswer, StartsAnswer, NextKind
<1>4. ASSUME NEW n \in {0, Malformed}, r.kind = "define", lines = <<L("define", n), L("ok", 0)>>
      PROVE  IsAnswer(lines, r)
  <2>1. /\ lines \in Seq(LineSet) /\ Len(lines) = 2
        /\ lines[1] = L("define", n) /\ lines[2] = L("ok", 0)
    <3>1. L("define", n) \in LineSet /\ L("ok", 0) \in LineSet
      BY <1>0
    <3> QED
      BY <1>4, <3>1
  <2>2. /\ lines[1].of = r.id /\ lines[2].of = r.id
        /\ lines[1].kind = "define" /\ lines[1].value = n /\ lines[2].kind = "ok"
    <3>1. L("define", n).of = r.id /\ L("define", n).kind = "define" /\ L("define", n).value = n
      BY <1>0
    <3>2. L("ok", 0).of = r.id /\ L("ok", 0).kind = "ok"
      BY <1>0
    <3> QED
      BY <2>1, <3>1, <3>2
  <2>3. n # 1
    BY DEF Malformed
  <2>4. \A i \in 1..2 : i = 1 \/ i = 2
    OBVIOUS
  <2> QED
    BY ONLY <1>4, <2>1, <2>2, <2>3, <2>4 DEF IsAnswer, EndsAnswer, StartsAnswer, NextKind
<1>5. \/ lines = <<L("no", 0)>>
      \/ r.kind = "dicts" /\ \E v \in {"good", "bad"} : lines = <<L("dicts", 0), L("text", v), L("ok", 0)>>
      \/ r.kind = "define" /\ \E h \in Headers :
            lines = <<L("define", 1), L("header", h), L("text", "good"), L("ok", 0)>>
      \/ r.kind = "define" /\ \E n \in {0, Malformed} : lines = <<L("define", n), L("ok", 0)>>
  BY DEF Answer, Header, L
<1> QED
  BY <1>1, <1>2, <1>3, <1>4, <1>5

LEMMA ServerAnswersInv == ASSUME DictInv, ServerAnswers PROVE DictInv'
<1> PICK lines \in Answer(Head(toServer)) : answers' = answers \o lines
  BY DEF ServerAnswers
<1> DEFINE r == toServer[1]
           m == Len(toServer)
           n == Len(answers)
           k == Len(lines)
<1>0. /\ toServer' = Tail(toServer) /\ UNCHANGED <<dictConn, caller>> /\ DictTyped
      /\ toServer \in Seq(Request) /\ toServer # <<>> /\ answers \in Seq(LineSet)
  BY DEF ServerAnswers, DictInv, DictTyped
<1>1. /\ m \in Nat \ {0} /\ Len(toServer') = m - 1 /\ toServer' \in Seq(Request)
      /\ \A i \in 1..m - 1 : toServer'[i] = toServer[i + 1]
  BY <1>0, EmptySeq, HeadTailProperties
<1>2. r \in Request /\ Head(toServer) = r /\ r.id \in Nat /\ r.kind \in {"dicts", "define"}
  <2>1. 1 \in 1..Len(toServer)
    BY <1>1
  <2>2. Head(toServer) = toServer[1]
    BY <1>0
  <2> QED
    BY <1>0, <2>1, <2>2, RequestFields
<1>3. IsAnswer(lines, r)
  <2> HIDE DEF r
  <2> QED
    BY <1>2, AnswersAreWhole
<1>4. /\ lines \in Seq(LineSet) /\ k \in Nat \ {0} /\ n \in Nat
      /\ answers' \in Seq(LineSet) /\ Len(answers') = n + k
      /\ \A i \in 1..n : answers'[i] = answers[i]
      /\ \A i \in 1..k : answers'[n + i] = lines[i]
  <2>1. lines \in Seq(LineSet) /\ k \in Nat \ {0}
    BY <1>3 DEF IsAnswer
  <2> QED
    BY <1>0, <2>1
<1>5. DictTyped'
  BY <1>0, <1>1, <1>4 DEF DictTyped
<1> HIDE DEF r, m, n, k
<1>6. ASSUME ~dictConn.skips PROVE ConversationOK'
  <2>0. NumbersOK /\ CommandsOK /\ LinesOK /\ AnswersCome /\ HeadOK
    BY <1>6 DEF DictInv, ConversationOK
  <2>1. /\ \A i \in 1..k : lines[i].of = r.id
        /\ \A i \in 1..k : EndsAnswer(lines[i]) <=> i = k
        /\ \A i \in 1..k : i < k => lines[i + 1].kind = NextKind(lines[i])
        /\ \A i \in 1..k : StartsAnswer(lines[i]) => lines[i].kind \in {"no", r.kind}
        /\ StartsAnswer(lines[1])
    BY <1>3 DEF IsAnswer, k
  <2>2. \A d \in DictCallers : caller'[d] = caller[d]
    BY <1>0
  <2>3. \A d \in DictCallers :
            (InCall(d)' <=> InCall(d)) /\ (Unread(d)' <=> Unread(d)) /\ (Inside(d)' <=> Inside(d))
    BY <2>2 DEF InCall, Unread, Inside
  <2>4. NumbersOK'
    BY <1>0, <2>0 DEF NumbersOK, InCall, Unread, Inside
  <2>5. /\ \A i \in 1..m - 1 : i + 1 \in 1..m /\ toServer'[i] = toServer[i + 1]
        /\ 1 \in 1..m /\ r = toServer[1] /\ m = Len(toServer) /\ Len(toServer') = m - 1
    BY <1>1 DEF r, m
  <2>6. /\ \A i \in 1..m : toServer[i].id \in Nat
        /\ \A i \in 1..m - 1 : r.id < toServer'[i].id
        /\ dictConn.turn <= r.id /\ r.id < dictConn.next
    <3>1. \A i \in 1..m : toServer[i].id \in Nat
      BY <1>0, RequestFields DEF m
    <3>2. \A i \in 1..m - 1 : 1 < i + 1
      BY <1>1
    <3>3. \A i \in 1..m - 1 : r.id < toServer[i + 1].id
      BY <2>0, <2>5, <3>2 DEF CommandsOK
    <3>4. dictConn.turn <= r.id /\ r.id < dictConn.next
      BY <2>0, <2>5 DEF CommandsOK
    <3> QED
      BY <2>5, <3>1, <3>3, <3>4
  <2>7. CommandsOK'
    <3>1. \A i \in 1..m - 1 : dictConn.turn <= toServer'[i].id /\ toServer'[i].id < dictConn.next
      BY <2>0, <2>5 DEF CommandsOK
    <3>2. ASSUME NEW i \in 1..m - 1, NEW j \in 1..m - 1, i < j PROVE toServer'[i].id < toServer'[j].id
      <4>1. i + 1 \in 1..m /\ j + 1 \in 1..m /\ i + 1 < j + 1
        BY <2>5, <3>2, <1>1
      <4> QED
        BY <2>0, <2>5, <4>1 DEF CommandsOK
    <3>3. \A i \in 1..m - 1, d \in DictCallers :
              InCall(d) /\ caller[d].id = toServer'[i].id => toServer'[i].kind = DictCommands[d]
      BY <2>0, <2>5 DEF CommandsOK
    <3> QED
      BY <1>0, <2>2, <2>3, <2>5, <3>1, <3>2, <3>3 DEF CommandsOK
  <2>8. ASSUME NEW i \in 1..n + k
        PROVE  \/ i \in 1..n /\ answers'[i] = answers[i] /\ answers[i].of < r.id
                  /\ (i + 1 \in 1..n => answers'[i + 1] = answers[i + 1])
                  /\ (i = n => answers'[i + 1] = lines[1])
               \/ \E p \in 1..k : i = n + p /\ answers'[i] = lines[p] /\ lines[p].of = r.id
                                  /\ (p < k => answers'[i + 1] = lines[p + 1])
    <3>1. CASE i \in 1..n
      <4>1. answers[i].of < r.id
        BY <2>0, <2>5, <3>1 DEF LinesOK, n
      <4>2. i = n => i + 1 = n + 1 /\ 1 \in 1..k
        BY <1>4
      <4> QED
        BY <1>4, <3>1, <4>1, <4>2
    <3>2. CASE i \notin 1..n
      <4> PICK p \in 1..k : i = n + p
        <5>1. i - n \in 1..k /\ i = n + (i - n)
          BY <1>4, <3>2
        <5> QED
          BY <5>1
      <4>1. p < k => p + 1 \in 1..k /\ i + 1 = n + (p + 1)
        BY <1>4
      <4> QED
        BY <1>4, <2>1, <4>1
    <3> QED
      BY <3>1, <3>2
  <2>9. LinesOK'
    <3>0. Len(answers') = n + k /\ n = Len(answers)
      BY <1>4 DEF n
    <3>a. \A i \in 1..n : answers[i].of \in Nat
      <4>1. \A i \in 1..n : answers[i] \in LineSet
        BY <1>0 DEF n
      <4> QED
        BY <4>1 DEF LineSet
    <3>1. ASSUME NEW i \in 1..n + k
          PROVE  /\ dictConn'.turn <= answers'[i].of /\ answers'[i].of < dictConn'.next
                 /\ \A j \in 1..m - 1 : answers'[i].of < toServer'[j].id
      <4>1. CASE i \in 1..n /\ answers'[i] = answers[i]
        <5>1. \A j \in 1..m - 1 : answers[i].of < toServer[j + 1].id
          BY <2>0, <2>5, <4>1 DEF LinesOK, n
        <5>2. dictConn.turn <= answers[i].of /\ answers[i].of < dictConn.next
          BY <2>0, <4>1 DEF LinesOK, n
        <5> QED
          BY <1>0, <2>5, <4>1, <5>1, <5>2
      <4>2. CASE answers'[i].of = r.id
        BY <1>0, <2>6, <4>2
      <4> QED
        BY <2>8, <4>1, <4>2
    <3>2. ASSUME NEW i \in 1..n + k, NEW j \in 1..n + k, i < j
          PROVE  /\ answers'[i].of <= answers'[j].of
                 /\ EndsAnswer(answers'[i]) => answers'[i].of < answers'[j].of
      <4>1. CASE i \in 1..n /\ j \in 1..n
        BY <1>4, <2>0, <3>2, <4>1 DEF LinesOK, n
      <4>2. CASE i \in 1..n /\ j \notin 1..n
        <5>1. answers'[i] = answers[i] /\ answers[i].of < r.id /\ answers'[j].of = r.id
          <6>1. \A q \in 1..k : i # n + q
            BY <1>4, <4>2
          <6> QED
            BY <2>8, <4>2, <6>1
        <5> QED
          BY <1>2, <3>a, <4>2, <5>1
      <4>3. CASE i \notin 1..n
        <5>1. PICK p \in 1..k : i = n + p /\ answers'[i] = lines[p] /\ lines[p].of = r.id
          BY <2>8, <4>3
        <5>2. j \notin 1..n
          BY <3>2, <4>3, <1>4
        <5>3. answers'[j].of = r.id
          BY <2>8, <5>2
        <5>4. p < k
          BY <1>4, <3>2, <5>1
        <5>5. ~EndsAnswer(lines[p])
          BY <2>1, <5>4
        <5> QED
          BY <1>2, <5>1, <5>3, <5>5
      <4> QED
        BY <4>1, <4>2, <4>3
    <3>3. ASSUME NEW i \in 1..n + k
          PROVE  /\ ~EndsAnswer(answers'[i]) =>
                        /\ i + 1 \in 1..n + k
                        /\ answers'[i + 1].of = answers'[i].of
                        /\ answers'[i + 1].kind = NextKind(answers'[i])
                 /\ EndsAnswer(answers'[i]) /\ i + 1 \in 1..n + k => StartsAnswer(answers'[i + 1])
      <4>1. CASE i \in 1..n
        <5>1. /\ answers'[i] = answers[i]
              /\ i + 1 \in 1..n => answers'[i + 1] = answers[i + 1]
              /\ i = n => answers'[i + 1] = lines[1]
          <6>1. \A p \in 1..k : i # n + p
            BY <1>4, <4>1
          <6> QED
            BY ONLY <2>8, <6>1, i \in 1..n + k
        <5>2. /\ ~EndsAnswer(answers[i]) =>
                    /\ i + 1 \in 1..n
                    /\ answers[i + 1].of = answers[i].of
                    /\ answers[i + 1].kind = NextKind(answers[i])
              /\ EndsAnswer(answers[i]) /\ i + 1 \in 1..n => StartsAnswer(answers[i + 1])
          BY <2>0, <4>1 DEF LinesOK, n
        <5>3. (i + 1 \in 1..n => i + 1 \in 1..n + k) /\ (i + 1 \in 1..n \/ i = n)
          BY <1>4, <4>1
        <5> QED
          BY <2>1, <5>1, <5>2, <5>3
      <4>2. CASE i \notin 1..n
        <5>1. PICK p \in 1..k : /\ i = n + p /\ answers'[i] = lines[p] /\ lines[p].of = r.id
                                /\ p < k => answers'[i + 1] = lines[p + 1]
          BY <2>8, <4>2
        <5>2. /\ p < k => i + 1 \in 1..n + k /\ p + 1 \in 1..k
              /\ p = k => i + 1 \notin 1..n + k
              /\ p < k \/ p = k
          BY <1>4, <5>1
        <5> QED
          BY <2>1, <5>1, <5>2
      <4> QED
        BY <4>1, <4>2
    <3>4. ASSUME NEW i \in 1..n + k, NEW d \in DictCallers, StartsAnswer(answers'[i]), Unread(d),
                 caller[d].id = answers'[i].of
          PROVE  answers'[i].kind \in {"no", DictCommands[d]}
      <4>1. CASE i \in 1..n
        BY <1>4, <2>0, <3>4, <4>1 DEF LinesOK, n
      <4>2. CASE i \notin 1..n
        <5>1. PICK p \in 1..k : answers'[i] = lines[p] /\ lines[p].of = r.id
          BY <2>8, <4>2
        <5>2. lines[p].kind \in {"no", r.kind}
          BY <2>1, <3>4, <5>1
        <5>3. r.kind = DictCommands[d]
          <6>1. 1 \in 1..m /\ r = toServer[1] /\ InCall(d) /\ caller[d].id = r.id
            BY <2>5, <3>4, <5>1 DEF InCall
          <6>2. \A e \in DictCallers : InCall(e) /\ caller[e].id = toServer[1].id
                                       => toServer[1].kind = DictCommands[e]
            BY ONLY <2>0, <2>5 DEF CommandsOK
          <6> QED
            BY ONLY <6>1, <6>2, d \in DictCallers
        <5> QED
          BY <5>1, <5>2, <5>3
      <4> QED
        BY <4>1, <4>2
    <3> QED
      <4>0. Len(answers') = n + k /\ Len(toServer') = m - 1
        BY <2>5, <3>0
      <4>1. \A i \in 1..Len(answers') :
                /\ dictConn'.turn <= answers'[i].of /\ answers'[i].of < dictConn'.next
                /\ \A j \in 1..Len(toServer') : answers'[i].of < toServer'[j].id
        BY ONLY <3>1, <4>0
      <4>2. \A i, j \in 1..Len(answers') : i < j =>
                /\ answers'[i].of <= answers'[j].of
                /\ EndsAnswer(answers'[i]) => answers'[i].of < answers'[j].of
        BY ONLY <3>2, <4>0
      <4>3. \A i \in 1..Len(answers') : ~EndsAnswer(answers'[i]) =>
                /\ i + 1 \in 1..Len(answers')
                /\ answers'[i + 1].of = answers'[i].of
                /\ answers'[i + 1].kind = NextKind(answers'[i])
        BY ONLY <3>3, <4>0
      <4>4. \A i \in 1..Len(answers') : EndsAnswer(answers'[i]) /\ i + 1 \in 1..Len(answers') =>
                StartsAnswer(answers'[i + 1])
        BY ONLY <3>3, <4>0
      <4>5. ASSUME NEW i \in 1..Len(answers'), NEW d \in DictCallers, StartsAnswer(answers'[i]),
                   Unread(d)', caller'[d].id = answers'[i].of
            PROVE  answers'[i].kind \in {"no", DictCommands[d]}
        <5>1. Unread(d) /\ caller[d].id = answers'[i].of /\ i \in 1..n + k
          BY <2>2, <2>3, <4>0, <4>5
        <5> QED
          BY <3>4, <4>5, <5>1
      <4> QED
        BY ONLY <4>1, <4>2, <4>3, <4>4, <4>5, Zenon DEF LinesOK
  <2>10. AnswersCome'
    <3>1. ASSUME NEW d \in DictCallers, Unread(d)
          PROVE  \/ \E i \in 1..m - 1 : toServer'[i].id = caller[d].id
                 \/ \E i \in 1..n + k : answers'[i].of = caller[d].id
      <4>1. CASE \E i \in 1..m : toServer[i].id = caller[d].id
        <5> PICK i \in 1..m : toServer[i].id = caller[d].id
          BY <4>1
        <5>1. CASE i = 1
          <6>1. n + 1 \in 1..n + k /\ answers'[n + 1] = lines[1] /\ lines[1].of = r.id
            BY <1>4, <2>1
          <6> QED
            BY <2>5, <5>1, <6>1
        <5>2. CASE i # 1
          <6>1. i - 1 \in 1..m - 1 /\ (i - 1) + 1 = i
            BY <1>1, <5>2
          <6> QED
            BY <2>5, <6>1
        <5> QED
          BY <5>1, <5>2
      <4>2. CASE \E i \in 1..n : answers[i].of = caller[d].id
        <5> PICK i \in 1..n : answers[i].of = caller[d].id
          BY <4>2
        <5>1. i \in 1..n + k
          BY <1>4
        <5> QED
          BY <1>4, <5>1
      <4> QED
        BY <2>0, <2>5, <3>1, <4>1, <4>2 DEF AnswersCome, n
    <3> QED
      <4> SUFFICES ASSUME NEW d \in DictCallers, Unread(d)'
                   PROVE  \/ \E i \in 1..Len(toServer') : toServer'[i].id = caller'[d].id
                          \/ \E i \in 1..Len(answers') : answers'[i].of = caller'[d].id
        BY Zenon DEF AnswersCome
      <4>1. Unread(d) /\ caller'[d] = caller[d]
        BY <2>2, <2>3
      <4>2. Len(answers') = n + k /\ Len(toServer') = m - 1
        BY <1>4, <2>5
      <4>3. \/ \E i \in 1..m - 1 : toServer'[i].id = caller[d].id
            \/ \E i \in 1..n + k : answers'[i].of = caller[d].id
        BY <3>1, <4>1
      <4> QED
        BY ONLY <4>1, <4>2, <4>3
  <2>11. HeadOK'
    <3>1. answers' # <<>>
      <4>1. Len(answers') # 0 /\ Len(<<>>) = 0
        BY <1>4
      <4> QED
        BY <4>1
    <3>2. CASE answers = <<>>
      <4>1. n = 0
        BY <3>2 DEF n
      <4>2. answers'[1] = lines[1]
        <5>1. 1 \in 1..k /\ n + 1 = 1
          BY <1>4, <4>1
        <5> QED
          BY <1>4, <5>1
      <4>3. \A d \in DictCallers : ~Inside(d)
        BY <2>0, <3>2 DEF HeadOK
      <4> QED
        BY <2>1, <2>3, <3>1, <4>2, <4>3 DEF HeadOK
    <3>3. CASE answers # <<>>
      <4>1. n # 0
        BY <1>0, <3>3, EmptySeq DEF n
      <4>2. answers'[1] = answers[1]
        BY <1>4, <4>1
      <4> HIDE DEF Expects
      <4> QED
        BY <2>0, <2>2, <2>3, <3>1, <3>3, <4>2 DEF HeadOK
    <3> QED
      BY <3>2, <3>3
  <2> QED
    BY <2>4, <2>7, <2>9, <2>10, <2>11 DEF ConversationOK
<1> QED
  BY <1>0, <1>5, <1>6 DEF DictInv

-----------------------------------------------------------------------------
(* The calls. *)

LEMMA DictInitInv == ASSUME DictInit PROVE DictInv
<1>1. DictTyped
  BY DEF DictInit, DictTyped, IsCaller, Idle, ConnSet
<1>2. \A c \in DictCallers : caller[c].pc = "idle" /\ caller[c].read = {} /\ caller[c].id = 0
  BY DEF DictInit, Idle
<1>3. toServer = <<>> /\ answers = <<>> /\ Len(toServer) = 0 /\ Len(answers) = 0
  BY DEF DictInit
<1>4. \A c \in DictCallers : ~InCall(c) /\ ~Unread(c) /\ ~Inside(c)
  BY <1>2 DEF InCall, Unread, Inside
<1>5. NumbersOK /\ AnswersCome /\ HeadOK
  <2>1. dictConn.turn = 0 /\ dictConn.next = 0
    BY DEF DictInit
  <2> QED
    BY <1>2, <1>3, <1>4, <2>1 DEF NumbersOK, AnswersCome, HeadOK
<1>6. CommandsOK /\ LinesOK
  BY <1>3 DEF CommandsOK, LinesOK
<1> QED
  BY <1>1, <1>5, <1>6 DEF DictInv, ConversationOK

LEMMA GreetedInv == ASSUME DictInv, Greeted PROVE DictInv'
<1> PICK s \in {"open", "closed"} : dictConn' = [dictConn EXCEPT !.state = s]
  BY DEF Greeted
<1>0. UNCHANGED <<caller, toServer, answers>> /\ DictTyped
  BY DEF Greeted, DictInv
<1>1. /\ dictConn'.turn = dictConn.turn /\ dictConn'.next = dictConn.next
      /\ dictConn'.skips = dictConn.skips
  BY <1>0 DEF DictTyped, ConnSet
<1>2. DictTyped'
  BY <1>0 DEF DictTyped, ConnSet
<1>3. ConversationOK => ConversationOK'
  BY <1>0, <1>1 DEF ConversationOK, NumbersOK, CommandsOK, LinesOK, AnswersCome, HeadOK, InCall,
     Unread, Inside, StartsAnswer, EndsAnswer, NextKind, Expects
<1> QED
  BY <1>1, <1>2, <1>3 DEF DictInv

LEMMA DictUnchangedInv == ASSUME DictInv, UNCHANGED dictVars PROVE DictInv'
<1>0. UNCHANGED <<dictConn, caller, toServer, answers>>
  BY DEF dictVars
<1>1. DictTyped'
  BY <1>0 DEF DictInv, DictTyped
<1>2. ConversationOK => ConversationOK'
  <2>1. \A c : /\ caller'[c] = caller[c] /\ Unread(c)' = Unread(c) /\ Inside(c)' = Inside(c)
               /\ InCall(c)' = InCall(c)
    BY <1>0 DEF InCall, Unread, Inside
  <2>2. NumbersOK => NumbersOK'
    BY ONLY <1>0, <2>1 DEF NumbersOK
  <2>3. CommandsOK => CommandsOK'
    BY ONLY <1>0, <2>1 DEF CommandsOK
  <2>4. LinesOK => LinesOK'
    BY ONLY <1>0, <2>1 DEF LinesOK
  <2>5. AnswersCome => AnswersCome'
    BY ONLY <1>0, <2>1 DEF AnswersCome
  <2>6. HeadOK => HeadOK'
    BY ONLY <1>0, <2>1 DEF HeadOK
  <2> QED
    BY <2>2, <2>3, <2>4, <2>5, <2>6 DEF ConversationOK
<1> QED
  BY <1>0, <1>1, <1>2 DEF DictInv

\* The number of a command that could not be sent is no call's.
LEMMA CmdFailsInv ==
    ASSUME DictInv, NEW c \in DictCallers, caller[c].pc = "idle",
           caller' = [caller EXCEPT ![c].pc = "done", ![c].error = TRUE],
           dictConn' = [dictConn EXCEPT !.next = @ + 1, !.state = "broken"],
           UNCHANGED <<toServer, answers>>
    PROVE  DictInv'
<1> DEFINE r == [[caller[c] EXCEPT !.pc = "done"] EXCEPT !.error = TRUE]
<1>0. DictTyped /\ IsCaller(caller[c]) /\ toServer' = toServer /\ answers' = answers
  BY DEF DictInv, DictTyped
<1>1. IsCaller(r) /\ r.pc = "done" /\ r.id = caller[c].id /\ r.read = caller[c].read
  <2> PICK q : q = [caller[c] EXCEPT !.pc = "done"]
    OBVIOUS
  <2>1. IsCaller(q) /\ q.pc = "done" /\ q.id = caller[c].id /\ q.read = caller[c].read
    BY <1>0, CallerPc
  <2> PICK p : p = [q EXCEPT !.error = TRUE]
    OBVIOUS
  <2>2. IsCaller(p) /\ p.pc = "done" /\ p.id = caller[c].id /\ p.read = caller[c].read
    <3>1. \A v, z : z = [q EXCEPT !.error = v] =>
              IsCaller(z) /\ z.id = q.id /\ z.pc = q.pc /\ z.read = q.read
      BY ONLY <2>1, CallerError
    <3> QED
      BY <2>1, <3>1
  <2>3. p = r
    OBVIOUS
  <2> QED
    BY <2>2, <2>3
<1>2. caller' = [caller EXCEPT ![c] = r]
  BY <1>0 DEF DictTyped
<1> HIDE DEF r
<1>3. /\ caller'[c] = r /\ \A d \in DictCallers \ {c} : caller'[d] = caller[d]
      /\ caller' = [d \in DictCallers |-> caller'[d]]
      /\ \A d \in DictCallers : IsCaller(caller'[d])
  BY <1>0, <1>1, <1>2, CallerMoves
<1>4. /\ dictConn'.turn = dictConn.turn /\ dictConn'.next = dictConn.next + 1
      /\ dictConn'.skips = dictConn.skips /\ dictConn.turn \in Nat /\ dictConn.next \in Nat
  BY <1>0, ConnFields DEF DictTyped
<1>5. DictTyped'
  <2>1. dictConn' \in ConnSet
    BY <1>0, ConnFields DEF DictTyped
  <2> QED
    BY <1>0, <1>3, <2>1 DEF DictTyped
<1>6. ASSUME ~dictConn.skips PROVE ConversationOK'
  <2>0. NumbersOK /\ CommandsOK /\ LinesOK /\ AnswersCome /\ HeadOK
    BY <1>6 DEF DictInv, ConversationOK
  <2>1. \A d \in DictCallers :
            (InCall(d)' <=> InCall(d)) /\ (Unread(d)' <=> Unread(d)) /\ (Inside(d)' <=> Inside(d))
    <3>1. /\ ~InCall(c) /\ ~Unread(c) /\ ~Inside(c)
          /\ ~InCall(c)' /\ ~Unread(c)' /\ ~Inside(c)'
      BY <1>1, <1>3 DEF InCall, Unread, Inside
    <3> QED
      BY <1>3, <3>1 DEF InCall, Unread, Inside
  <2>2. \A d \in DictCallers : InCall(d)' => d # c /\ caller'[d] = caller[d] /\ InCall(d)
    <3>1. ~InCall(c)
      BY DEF InCall, Unread, Inside
    <3> QED
      BY <1>3, <2>1, <3>1
  <2>3. \A d \in DictCallers : caller'[d].id = caller[d].id /\ caller'[d].read = caller[d].read
    BY <1>1, <1>3
  <2>4. NumbersOK'
    <3>1. ASSUME NEW d \in DictCallers, InCall(d)'
          PROVE  /\ caller'[d].id \in Nat /\ dictConn'.turn <= caller'[d].id
                 /\ caller'[d].id < dictConn'.next
                 /\ caller'[d].pc # "turn" => caller'[d].id = dictConn'.turn
      <4>1. caller'[d] = caller[d] /\ InCall(d)
        BY <2>2, <3>1
      <4>2. /\ caller[d].id \in Nat /\ dictConn.turn <= caller[d].id
            /\ caller[d].id < dictConn.next
            /\ caller[d].pc # "turn" => caller[d].id = dictConn.turn
        BY <2>0, <4>1 DEF NumbersOK
      <4> QED
        BY <1>4, <4>1, <4>2
    <3>2. \A d, e \in DictCallers :
              InCall(d)' /\ InCall(e)' /\ caller'[d].id = caller'[e].id => d = e
      BY <2>0, <2>2, <2>3 DEF NumbersOK
    <3>3. ASSUME NEW d \in DictCallers
          PROVE  /\ caller'[d].read \subseteq {caller'[d].id}
                 /\ caller'[d].pc = "idle" => caller'[d].read = {}
                 /\ ~InCall(d)' /\ caller'[d].read # {} =>
                       caller'[d].id \in Nat /\ caller'[d].id < dictConn'.turn
      <4>1. d = c => caller'[d].read = {}
        BY <2>0, <2>3 DEF NumbersOK
      <4>2. d # c => caller'[d] = caller[d]
        BY <1>3
      <4>3. ~InCall(d)' => ~InCall(d)
        BY <2>1
      <4> QED
        BY <1>4, <2>0, <4>1, <4>2, <4>3 DEF NumbersOK
    <3> QED
      <4>1. dictConn'.turn <= dictConn'.next
        BY <1>4, <2>0 DEF NumbersOK
      <4> QED
        BY <3>1, <3>2, <3>3, <4>1 DEF NumbersOK
  <2>5. CommandsOK'
    <3>1. \A i \in 1..Len(toServer) : toServer[i].id \in Nat
      BY <1>0, RequestFields DEF DictTyped
    <3>2. \A i \in 1..Len(toServer) : toServer[i].id < dictConn.next + 1
      BY <1>4, <2>0, <3>1 DEF CommandsOK
    <3>3. /\ \A i \in 1..Len(toServer) : dictConn.turn <= toServer[i].id
          /\ \A i, j \in 1..Len(toServer) : i < j => toServer[i].id < toServer[j].id
      BY <2>0 DEF CommandsOK
    <3>4. \A i \in 1..Len(toServer), d \in DictCallers :
              InCall(d)' /\ caller'[d].id = toServer[i].id => toServer[i].kind = DictCommands[d]
      BY <2>0, <2>2 DEF CommandsOK
    <3>5. /\ toServer' = toServer /\ dictConn'.turn = dictConn.turn
          /\ dictConn'.next = dictConn.next + 1
      BY <1>0, <1>4
    <3> QED
      BY ONLY <3>2, <3>3, <3>4, <3>5 DEF CommandsOK
  <2>6. LinesOK'
    <3>1. \A i \in 1..Len(answers) : answers[i] \in LineSet
      BY <1>0 DEF DictTyped
    <3>2. \A i \in 1..Len(answers) : answers[i].of \in Nat
      BY <3>1 DEF LineSet
    <3>3. \A i \in 1..Len(answers) : answers[i].of < dictConn.next + 1
      BY <1>4, <2>0, <3>2 DEF LinesOK
    <3> HIDE DEF StartsAnswer, EndsAnswer, NextKind
    <3> QED
      BY <1>0, <1>4, <2>0, <2>1, <2>3, <3>3 DEF LinesOK
  <2>7. AnswersCome'
    <3>1. toServer' = toServer /\ answers' = answers
      BY <1>0
    <3>2. AnswersCome
      BY <2>0
    <3> QED
      BY ONLY <2>1, <2>3, <3>1, <3>2 DEF AnswersCome
  <2>8. HeadOK'
    <3>1. \A d \in DictCallers : Inside(d)' => caller'[d] = caller[d]
      BY <2>2 DEF InCall
    <3> QED
      BY <1>0, <2>0, <2>1, <3>1 DEF HeadOK
  <2> QED
    BY <2>4, <2>5, <2>6, <2>7, <2>8 DEF ConversationOK
<1> QED
  BY <1>4, <1>5, <1>6 DEF DictInv

Waits(q, x) == [q EXCEPT !.pc = "turn", !.id = x]

LEMMA WaitsIs ==
    ASSUME NEW q, IsCaller(q), NEW x, NEW r, r = Waits(q, x)
    PROVE  IsCaller(r) /\ r.pc = "turn" /\ r.id = x /\ r.read = q.read
<1> PICK pc, id, left, defs, error, read :
        q = [pc |-> pc, id |-> id, left |-> left, defs |-> defs, error |-> error, read |-> read]
  BY DEF IsCaller
<1> QED
  BY DEF Waits, IsCaller

\* A command gets the next number, and is the last of those that the server is to read.
LEMMA CmdSendsInv ==
    ASSUME DictInv, NEW c \in DictCallers, caller[c].pc = "idle",
           DictCommands[c] \in {"dicts", "define"},
           caller' = [caller EXCEPT ![c].pc = "turn", ![c].id = dictConn.next],
           toServer' = Append(toServer, [id |-> dictConn.next, kind |-> DictCommands[c]]),
           dictConn' = [dictConn EXCEPT !.next = @ + 1],
           UNCHANGED answers
    PROVE  DictInv'
<1> PICK x : x = dictConn.next
  OBVIOUS
<1> DEFINE r == [[caller[c] EXCEPT !.pc = "turn"] EXCEPT !.id = x]
           m == Len(toServer)
<1>0. DictTyped /\ IsCaller(caller[c]) /\ answers' = answers /\ x \in Nat
  BY ConnFields DEF DictInv, DictTyped
<1>1. IsCaller(r) /\ r.pc = "turn" /\ r.id = x /\ r.read = caller[c].read
  <2>1. r = Waits(caller[c], x)
    BY DEF Waits
  <2> QED
    BY ONLY <1>0, <2>1, WaitsIs
<1>2. caller' = [caller EXCEPT ![c] = r]
  BY <1>0 DEF DictTyped
<1> HIDE DEF r
<1>3. /\ caller'[c] = r /\ \A d \in DictCallers \ {c} : caller'[d] = caller[d]
      /\ caller' = [d \in DictCallers |-> caller'[d]]
      /\ \A d \in DictCallers : IsCaller(caller'[d])
  BY <1>0, <1>1, <1>2, CallerMoves
<1>4. /\ dictConn'.turn = dictConn.turn /\ dictConn'.next = x + 1 /\ dictConn.next = x
      /\ dictConn'.skips = dictConn.skips /\ dictConn.turn \in Nat
  BY <1>0, ConnFields DEF DictTyped
<1>5. /\ toServer' \in Seq(Request) /\ Len(toServer') = m + 1 /\ m \in Nat
      /\ \A i \in 1..m : toServer'[i] = toServer[i]
      /\ toServer'[m + 1].id = x /\ toServer'[m + 1].kind = DictCommands[c]
  <2> PICK q : q = [id |-> x, kind |-> DictCommands[c]]
    OBVIOUS
  <2>1. q \in Request /\ q.id = x /\ q.kind = DictCommands[c]
    BY <1>0 DEF Request
  <2>2. toServer \in Seq(Request) /\ toServer' = Append(toServer, q)
    BY <1>0 DEF DictTyped
  <2>3. /\ toServer' \in Seq(Request) /\ Len(toServer') = m + 1 /\ m \in Nat
        /\ \A i \in 1..m : toServer'[i] = toServer[i]
        /\ toServer'[m + 1] = q
    BY ONLY <2>1, <2>2
  <2> QED
    BY <2>1, <2>3
<1>6. DictTyped'
  <2>1. dictConn' \in ConnSet
    BY <1>0, ConnFields DEF DictTyped
  <2> QED
    BY <1>0, <1>3, <1>5, <2>1 DEF DictTyped
<1>7. ASSUME ~dictConn.skips PROVE ConversationOK'
  <2>0. NumbersOK /\ CommandsOK /\ LinesOK /\ AnswersCome /\ HeadOK
    BY <1>7 DEF DictInv, ConversationOK
  <2>1. /\ ~InCall(c) /\ ~Inside(c) /\ InCall(c)' /\ Unread(c)' /\ ~Inside(c)'
        /\ \A d \in DictCallers \ {c} :
              (InCall(d)' <=> InCall(d)) /\ (Unread(d)' <=> Unread(d)) /\ (Inside(d)' <=> Inside(d))
    <3>1. /\ ~InCall(c) /\ ~Inside(c) /\ InCall(c)' /\ Unread(c)' /\ ~Inside(c)'
      BY <1>1, <1>3 DEF InCall, Unread, Inside
    <3> QED
      BY <1>3, <3>1 DEF InCall, Unread, Inside
  <2>2. \A d \in DictCallers : InCall(d) => caller[d].id \in Nat /\ caller[d].id < x /\ dictConn.turn <= caller[d].id
    BY <1>4, <2>0 DEF NumbersOK
  <2>3. \A i \in 1..Len(answers) : answers[i].of \in Nat /\ answers[i].of < x
    <3>1. \A i \in 1..Len(answers) : answers[i] \in LineSet
      BY <1>0 DEF DictTyped
    <3>2. \A i \in 1..Len(answers) : answers[i].of \in Nat
      BY <3>1 DEF LineSet
    <3> QED
      BY <1>4, <2>0, <3>2 DEF LinesOK
  <2>4. \A i \in 1..m : toServer[i].id \in Nat /\ toServer[i].id < x
    <3>1. \A i \in 1..m : toServer[i].id \in Nat
      BY <1>0, RequestFields DEF DictTyped
    <3> QED
      BY <1>4, <2>0, <3>1 DEF CommandsOK
  <2>10. dictConn.turn <= x
    BY <1>4, <2>0 DEF NumbersOK
  <2>5. NumbersOK'
    <3>1. ASSUME NEW d \in DictCallers, InCall(d)'
          PROVE  /\ caller'[d].id \in Nat /\ dictConn'.turn <= caller'[d].id
                 /\ caller'[d].id < dictConn'.next
                 /\ caller'[d].pc # "turn" => caller'[d].id = dictConn'.turn
      <4>1. CASE d = c
        BY <1>0, <1>1, <1>3, <1>4, <2>10, <4>1
      <4>2. CASE d # c
        <5>1. InCall(d) /\ caller'[d] = caller[d]
          BY <1>3, <2>1, <3>1, <4>2
        <5>2. /\ caller[d].id \in Nat /\ dictConn.turn <= caller[d].id /\ caller[d].id < x
              /\ caller[d].pc # "turn" => caller[d].id = dictConn.turn
          BY <1>4, <2>0, <5>1 DEF NumbersOK
        <5> QED
          BY <1>0, <1>4, <5>1, <5>2
      <4> QED
        BY <4>1, <4>2
    <3>2. ASSUME NEW d \in DictCallers, NEW e \in DictCallers, InCall(d)', InCall(e)',
                 caller'[d].id = caller'[e].id
          PROVE  d = e
      <4>1. \A f \in DictCallers \ {c} : InCall(f)' => caller'[f].id # x
        <5> SUFFICES ASSUME NEW f \in DictCallers \ {c}, InCall(f)' PROVE caller'[f].id # x
          OBVIOUS
        <5>1. caller'[f] = caller[f] /\ InCall(f)
          BY <1>3, <2>1
        <5>2. caller[f].id \in Nat /\ caller[f].id < x
          BY <2>2, <5>1
        <5> QED
          BY <1>0, <5>1, <5>2
      <4>2. d = c <=> e = c
        <5>1. caller'[c].id = x
          BY <1>1, <1>3
        <5> QED
          BY ONLY <3>2, <4>1, <5>1, d \in DictCallers, e \in DictCallers
      <4> QED
        BY <1>3, <2>0, <2>1, <3>2, <4>2 DEF NumbersOK
    <3>3. ASSUME NEW d \in DictCallers
          PROVE  /\ caller'[d].read \subseteq {caller'[d].id}
                 /\ caller'[d].pc = "idle" => caller'[d].read = {}
                 /\ ~InCall(d)' /\ caller'[d].read # {} =>
                       caller'[d].id \in Nat /\ caller'[d].id < dictConn'.turn
      <4>1. d = c => caller'[d].read = {}
        BY <1>1, <1>3, <2>0 DEF NumbersOK
      <4>2. d # c => caller'[d] = caller[d] /\ (InCall(d)' <=> InCall(d))
        BY <1>3, <2>1
      <4> QED
        BY <1>4, <2>0, <4>1, <4>2 DEF NumbersOK
    <3> QED
      <4>1. dictConn'.turn <= dictConn'.next
        BY <1>0, <1>4, <2>10
      <4> QED
        BY <3>1, <3>2, <3>3, <4>1 DEF NumbersOK
  <2>6. CommandsOK'
    <3>1. \A i \in 1..m + 1 : i \in 1..m \/ i = m + 1
      BY <1>5
    <3>2. ASSUME NEW i \in 1..m + 1
          PROVE  dictConn'.turn <= toServer'[i].id /\ toServer'[i].id < dictConn'.next
      <4>1. CASE i \in 1..m
        <5>1. dictConn.turn <= toServer[i].id
          BY <2>0, <4>1 DEF CommandsOK
        <5> QED
          BY <1>0, <1>4, <1>5, <2>4, <4>1, <5>1
      <4>2. CASE i = m + 1
        BY <1>0, <1>4, <1>5, <2>10, <4>2
      <4> QED
        BY <3>1, <4>1, <4>2
    <3>3. ASSUME NEW i \in 1..m + 1, NEW j \in 1..m + 1, i < j
          PROVE  toServer'[i].id < toServer'[j].id
      <4>1. i \in 1..m
        BY <1>5, <3>3
      <4>2. CASE j \in 1..m
        BY <1>5, <2>0, <3>3, <4>1, <4>2 DEF CommandsOK
      <4>3. CASE j = m + 1
        BY <1>5, <2>4, <4>1, <4>3
      <4> QED
        BY <3>1, <4>2, <4>3
    <3>4. ASSUME NEW i \in 1..m + 1, NEW d \in DictCallers, InCall(d)',
                 caller'[d].id = toServer'[i].id
          PROVE  toServer'[i].kind = DictCommands[d]
      <4>1. CASE d = c
        <5>1. caller'[d].id = x
          BY <1>1, <1>3, <4>1
        <5>2. i = m + 1
          BY <1>0, <1>5, <2>4, <3>1, <3>4, <5>1
        <5> QED
          BY <1>5, <4>1, <5>2
      <4>2. CASE d # c
        <5>1. InCall(d) /\ caller'[d] = caller[d] /\ caller[d].id \in Nat /\ caller[d].id < x
          BY <1>3, <2>1, <2>2, <3>4, <4>2
        <5>2. i \in 1..m
          <6>1. caller[d].id # x
            BY <1>0, <5>1
          <6>2. toServer'[i].id # x
            BY <3>4, <5>1, <6>1
          <6> QED
            BY <1>5, <3>1, <6>2
        <5>3. toServer'[i] = toServer[i] /\ caller[d].id = toServer[i].id
          BY <1>5, <3>4, <5>1, <5>2
        <5>4. toServer[i].kind = DictCommands[d]
          BY ONLY <2>0, <5>1, <5>2, <5>3, d \in DictCallers DEF CommandsOK
        <5> QED
          BY ONLY <5>3, <5>4
      <4> QED
        BY <4>1, <4>2
    <3> QED
      BY <1>5, <3>2, <3>3, <3>4 DEF CommandsOK
  <2>7. LinesOK'
    <3>1. ASSUME NEW i \in 1..Len(answers)
          PROVE  /\ dictConn'.turn <= answers[i].of /\ answers[i].of < dictConn'.next
                 /\ \A j \in 1..Len(toServer') : answers[i].of < toServer'[j].id
      <4>1. dictConn.turn <= answers[i].of /\ \A j \in 1..m : answers[i].of < toServer[j].id
        BY <2>0 DEF LinesOK
      <4>2. \A j \in 1..m + 1 : j \in 1..m \/ j = m + 1
        BY <1>5
      <4> QED
        BY <1>0, <1>4, <1>5, <2>3, <4>1, <4>2
    <3>2. ASSUME NEW i \in 1..Len(answers), NEW d \in DictCallers, StartsAnswer(answers[i]), Unread(d)',
                 caller'[d].id = answers[i].of
          PROVE  answers[i].kind \in {"no", DictCommands[d]}
      <4>1. d # c
        <5>1. answers[i].of # x
          BY <1>0, <2>3
        <5> QED
          BY <1>1, <1>3, <3>2, <5>1
      <4> QED
        BY <1>3, <2>0, <2>1, <3>2, <4>1 DEF LinesOK
    <3> HIDE DEF StartsAnswer, EndsAnswer, NextKind
    <3> QED
      BY <1>0, <2>0, <3>1, <3>2 DEF LinesOK
  <2>8. AnswersCome'
    <3>1. ASSUME NEW d \in DictCallers, Unread(d)'
          PROVE  \/ \E i \in 1..m + 1 : toServer'[i].id = caller'[d].id
                 \/ \E i \in 1..Len(answers) : answers[i].of = caller'[d].id
      <4>1. CASE d = c
        <5>1. m + 1 \in 1..m + 1
          BY <1>5
        <5> QED
          BY <1>1, <1>3, <1>5, <4>1, <5>1
      <4>2. CASE d # c
        <5>1. Unread(d) /\ caller'[d] = caller[d]
          BY <1>3, <2>1, <3>1, <4>2
        <5>2. \A i \in 1..m : i \in 1..m + 1
          BY <1>5
        <5>3. \/ \E i \in 1..m : toServer[i].id = caller[d].id
              \/ \E i \in 1..Len(answers) : answers[i].of = caller[d].id
          BY ONLY <2>0, <5>1, d \in DictCallers DEF AnswersCome
        <5> QED
          BY ONLY <1>5, <5>1, <5>2, <5>3
      <4> QED
        BY <4>1, <4>2
    <3> QED
      <4>1. answers' = answers /\ Len(toServer') = m + 1
        BY <1>0, <1>5
      <4> QED
        BY ONLY <3>1, <4>1 DEF AnswersCome
  <2>9. HeadOK'
    <3>1. \A d \in DictCallers : Inside(d)' => d # c /\ caller'[d] = caller[d] /\ Inside(d)
      BY <1>3, <2>1
    <3>2. \A d \in DictCallers : Inside(d) => Inside(d)'
      BY <2>1
    <3> QED
      BY <1>0, <2>0, <3>1, <3>2 DEF HeadOK
  <2> QED
    BY <2>5, <2>6, <2>7, <2>8, <2>9 DEF ConversationOK
<1> QED
  BY <1>4, <1>6, <1>7 DEF DictInv

LEMMA StartResponseInv == ASSUME DictInv, NEW c \in DictCallers, StartResponse(c) PROVE DictInv'
<1> PICK r : r = [caller[c] EXCEPT !.pc = "first"]
  OBVIOUS
<1>0. /\ DictTyped /\ IsCaller(caller[c]) /\ UNCHANGED <<dictConn, toServer, answers>>
      /\ caller[c].pc = "turn" /\ dictConn.turn = caller[c].id
  BY DEF DictInv, DictTyped, StartResponse, HasTurn
<1>1. IsCaller(r) /\ r.pc = "first" /\ r.id = caller[c].id /\ r.read = caller[c].read
  <2>1. \A v, z : z = [caller[c] EXCEPT !.pc = v] =>
            IsCaller(z) /\ z.pc = v /\ z.id = caller[c].id /\ z.read = caller[c].read
    BY ONLY <1>0, CallerPc
  <2> QED
    BY <2>1
<1>2. caller' = [caller EXCEPT ![c] = r]
  BY <1>0 DEF StartResponse, Goes, DictTyped
<1>3. /\ caller'[c] = r /\ \A d \in DictCallers \ {c} : caller'[d] = caller[d]
      /\ caller' = [d \in DictCallers |-> caller'[d]]
      /\ \A d \in DictCallers : IsCaller(caller'[d])
  BY <1>0, <1>1, <1>2, CallerMoves
<1>4. DictTyped'
  BY <1>0, <1>3 DEF DictTyped
<1>5. /\ toServer' = toServer /\ answers' = answers /\ dictConn' = dictConn
      /\ \A d \in DictCallers : caller'[d].id = caller[d].id /\ caller'[d].read = caller[d].read
  BY <1>0, <1>1, <1>3
<1>6. \A d \in DictCallers :
          (InCall(d)' <=> InCall(d)) /\ (Unread(d)' <=> Unread(d)) /\ (Inside(d)' <=> Inside(d))
  <2>1. /\ InCall(c) /\ Unread(c) /\ ~Inside(c) /\ InCall(c)' /\ Unread(c)' /\ ~Inside(c)'
    BY <1>0, <1>1, <1>3 DEF InCall, Unread, Inside
  <2> QED
    BY <1>3, <2>1 DEF InCall, Unread, Inside
<1>7. \A d \in DictCallers : d # c => caller'[d].pc = caller[d].pc
  BY <1>3
<1>8. \A d \in DictCallers : Inside(d)' => caller'[d] = caller[d]
  <2>1. ~Inside(c)
    BY <1>0 DEF Inside
  <2> QED
    BY <1>3, <1>6, <2>1
<1>9. caller'[c].pc = "first" /\ caller'[c].id = dictConn'.turn
  BY <1>0, <1>1, <1>3
<1>10. ASSUME ConversationOK PROVE ConversationOK'
  <2>1. NumbersOK'
    <3>1. NumbersOK
      BY <1>10 DEF ConversationOK
    <3> QED
      BY ONLY <1>5, <1>6, <1>7, <1>9, <3>1 DEF NumbersOK
  <2>2. CommandsOK'
    <3>1. CommandsOK
      BY <1>10 DEF ConversationOK
    <3> QED
      BY ONLY <1>5, <1>6, <3>1 DEF CommandsOK
  <2>3. LinesOK'
    <3>1. LinesOK
      BY <1>10 DEF ConversationOK
    <3> QED
      BY ONLY <1>5, <1>6, <3>1 DEF LinesOK, StartsAnswer, EndsAnswer, NextKind
  <2>4. AnswersCome'
    <3>1. AnswersCome
      BY <1>10 DEF ConversationOK
    <3> QED
      BY ONLY <1>5, <1>6, <3>1 DEF AnswersCome
  <2>5. HeadOK'
    <3>1. HeadOK
      BY <1>10 DEF ConversationOK
    <3> QED
      BY ONLY <1>5, <1>6, <1>8, <3>1 DEF HeadOK, Expects, StartsAnswer
  <2> QED
    BY <2>1, <2>2, <2>3, <2>4, <2>5 DEF ConversationOK
<1> QED
  BY <1>4, <1>5, <1>10 DEF DictInv

\* What a caller notes of the line, and that a call failed.
LEMMA NotedIs ==
    ASSUME DictTyped, NEW c \in DictCallers
    PROVE  /\ IsCaller(Noted(c)) /\ Noted(c).id = caller[c].id /\ Noted(c).pc = caller[c].pc
           /\ Noted(c).left = caller[c].left
           /\ Noted(c).read = caller[c].read \cup {answers[1].of}
           /\ IsCaller(Failed(c)) /\ Failed(c).id = caller[c].id
           /\ Failed(c).read = caller[c].read \cup {answers[1].of}
<1> PICK read : read = caller[c].read \cup {answers[1].of}
  OBVIOUS
<1>1. IsCaller(caller[c])
  BY DEF DictTyped
<1>2. /\ IsCaller(Noted(c)) /\ Noted(c).id = caller[c].id /\ Noted(c).pc = caller[c].pc
      /\ Noted(c).left = caller[c].left /\ Noted(c).read = read
  <2>1. Noted(c) = [caller[c] EXCEPT !.read = read]
    BY DEF Noted
  <2> QED
    BY ONLY <1>1, <2>1, CallerRead
<1>3. IsCaller(Failed(c)) /\ Failed(c).id = caller[c].id /\ Failed(c).read = read
  <2> PICK q : q = [Noted(c) EXCEPT !.error = TRUE]
    OBVIOUS
  <2>1. IsCaller(q) /\ q.id = caller[c].id /\ q.read = read
    <3>1. \A v, z : z = [Noted(c) EXCEPT !.error = v] =>
              IsCaller(z) /\ z.id = Noted(c).id /\ z.read = Noted(c).read
      BY ONLY <1>2, CallerError
    <3> QED
      BY <1>2, <3>1
  <2>2. \A v, z : z = [q EXCEPT !.defs = v] => IsCaller(z) /\ z.id = q.id /\ z.read = q.read
    BY ONLY <2>1, CallerDefs
  <2>3. Failed(c) = [q EXCEPT !.defs = <<>>]
    BY DEF Failed
  <2> QED
    BY <2>1, <2>2, <2>3
<1> QED
  BY <1>2, <1>3

\* A caller's record with one or two of its fields changed.
AtPc(q, v) == [q EXCEPT !.pc = v]
AtPcLeft(q, v, w) == [q EXCEPT !.pc = v, !.left = w]
AtPcError(q, v, w) == [q EXCEPT !.pc = v, !.error = w]
AtPcDefs(q, v, w) == [q EXCEPT !.pc = v, !.defs = w]
AtLeft(q, v) == [q EXCEPT !.left = v]
AtError(q, v) == [q EXCEPT !.error = v]

LEMMA AtPcIs ==
    ASSUME NEW q, IsCaller(q), NEW v, NEW r, r = AtPc(q, v)
    PROVE  IsCaller(r) /\ r.pc = v /\ r.left = q.left /\ r.id = q.id /\ r.read = q.read
<1> PICK pc, id, left, defs, error, read :
        q = [pc |-> pc, id |-> id, left |-> left, defs |-> defs, error |-> error, read |-> read]
  BY DEF IsCaller
<1> QED
  BY DEF AtPc, IsCaller

LEMMA AtPcLeftIs ==
    ASSUME NEW q, IsCaller(q), NEW v, NEW w, NEW r, r = AtPcLeft(q, v, w)
    PROVE  IsCaller(r) /\ r.pc = v /\ r.left = w /\ r.id = q.id /\ r.read = q.read
<1> PICK pc, id, left, defs, error, read :
        q = [pc |-> pc, id |-> id, left |-> left, defs |-> defs, error |-> error, read |-> read]
  BY DEF IsCaller
<1> QED
  BY DEF AtPcLeft, IsCaller

LEMMA AtPcErrorIs ==
    ASSUME NEW q, IsCaller(q), NEW v, NEW w, NEW r, r = AtPcError(q, v, w)
    PROVE  IsCaller(r) /\ r.pc = v /\ r.left = q.left /\ r.id = q.id /\ r.read = q.read
<1> PICK pc, id, left, defs, error, read :
        q = [pc |-> pc, id |-> id, left |-> left, defs |-> defs, error |-> error, read |-> read]
  BY DEF IsCaller
<1> QED
  BY DEF AtPcError, IsCaller

LEMMA AtPcDefsIs ==
    ASSUME NEW q, IsCaller(q), NEW v, NEW w, NEW r, r = AtPcDefs(q, v, w)
    PROVE  IsCaller(r) /\ r.pc = v /\ r.left = q.left /\ r.id = q.id /\ r.read = q.read
<1> PICK pc, id, left, defs, error, read :
        q = [pc |-> pc, id |-> id, left |-> left, defs |-> defs, error |-> error, read |-> read]
  BY DEF IsCaller
<1> QED
  BY DEF AtPcDefs, IsCaller

LEMMA AtLeftIs ==
    ASSUME NEW q, IsCaller(q), NEW v, NEW r, r = AtLeft(q, v)
    PROVE  IsCaller(r) /\ r.pc = q.pc /\ r.left = v /\ r.id = q.id /\ r.read = q.read
<1> PICK pc, id, left, defs, error, read :
        q = [pc |-> pc, id |-> id, left |-> left, defs |-> defs, error |-> error, read |-> read]
  BY DEF IsCaller
<1> QED
  BY DEF AtLeft, IsCaller

LEMMA AtErrorIs ==
    ASSUME NEW q, IsCaller(q), NEW v, NEW r, r = AtError(q, v)
    PROVE  IsCaller(r) /\ r.pc = q.pc /\ r.left = q.left /\ r.id = q.id /\ r.read = q.read
<1> PICK pc, id, left, defs, error, read :
        q = [pc |-> pc, id |-> id, left |-> left, defs |-> defs, error |-> error, read |-> read]
  BY DEF IsCaller
<1> QED
  BY DEF AtError, IsCaller

\* EndResponse, as the call returns, after a line that ends its answer.
LEMMA ReturnsInv ==
    ASSUME DictInv, NEW c \in DictCallers, caller[c].pc = "first" \/ Inside(c), answers # <<>>,
           NEW with, IsCaller(with), with.id = caller[c].id,
           with.read = caller[c].read \cup {answers[1].of},
           Read, Returns(c, with),
           ~dictConn.skips => EndsAnswer(answers[1])
    PROVE  DictInv'
<1> PICK r : r = [with EXCEPT !.pc = "done"]
  OBVIOUS
<1>1. IsCaller(r) /\ r.pc = "done" /\ r.id = with.id /\ r.read = with.read
  <2>1. r = AtPc(with, "done")
    BY DEF AtPc
  <2> QED
    BY ONLY <2>1, IsCaller(with), AtPcIs
<1>2. /\ caller' = [caller EXCEPT ![c] = r] /\ dictConn' = [dictConn EXCEPT !.turn = @ + 1]
      /\ answers' = Tail(answers) /\ toServer' = toServer /\ DictTyped
  BY DEF Returns, Read, DictInv
<1>3. DictTyped'
  BY <1>1, <1>2, ReadTyped
<1>4. dictConn'.skips = dictConn.skips
  BY <1>2, ConnFields DEF DictTyped
<1>5. ASSUME ~dictConn.skips PROVE ConversationOK'
  <2>1. ConversationOK /\ EndsAnswer(answers[1])
    BY <1>5 DEF DictInv
  <2> QED
    BY <1>1, <1>2, <2>1, ReadsEnd
<1> QED
  BY <1>3, <1>4, <1>5 DEF DictInv

\* A line that does not end the answer, or after which a part of it is left.
LEMMA GoesOnInv ==
    ASSUME DictInv, NEW c \in DictCallers, caller[c].pc = "first" \/ Inside(c), answers # <<>>,
           NEW r, IsCaller(r), Read, caller' = [caller EXCEPT ![c] = r],
           \/ dictConn' = Skips
           \/ dictConn' = [Skips EXCEPT !.turn = @ + 1]
           \/ /\ dictConn' = dictConn
              /\ r.id = caller[c].id /\ r.read = caller[c].read \cup {answers[1].of}
              /\ r.pc \in {"lines", "header", "text", "last"}
              /\ ~dictConn.skips =>
                    ~EndsAnswer(answers[1]) /\ Expects(r.pc, r.left, NextKind(answers[1]))
    PROVE  DictInv'
<1>1. DictTyped /\ answers' = Tail(answers) /\ toServer' = toServer
  BY DEF DictInv, Read
<1>2. DictTyped'
  BY <1>1, ReadTyped
<1>3. CASE dictConn' = Skips \/ dictConn' = [Skips EXCEPT !.turn = @ + 1]
  <2>1. dictConn'.skips = TRUE
    BY <1>1, <1>3, ConnSkips DEF DictTyped
  <2> QED
    BY <1>2, <2>1 DEF DictInv
<1>4. CASE /\ dictConn' = dictConn
           /\ r.id = caller[c].id /\ r.read = caller[c].read \cup {answers[1].of}
           /\ r.pc \in {"lines", "header", "text", "last"}
           /\ ~dictConn.skips =>
                 ~EndsAnswer(answers[1]) /\ Expects(r.pc, r.left, NextKind(answers[1]))
  <2>1. ASSUME ~dictConn.skips PROVE ConversationOK'
    <3>1. ConversationOK /\ ~EndsAnswer(answers[1]) /\ Expects(r.pc, r.left, NextKind(answers[1]))
      BY <1>4, <2>1 DEF DictInv
    <3> QED
      BY <1>1, <1>4, <3>1, ReadsOn
  <2> QED
    BY <1>2, <1>4, <2>1 DEF DictInv
<1> QED
  BY <1>3, <1>4

LEMMA ReadsFirstInv ==
    ASSUME DictInv, NEW c \in DictCallers, DictCommands[c] \in {"dicts", "define"}, ReadsFirst(c)
    PROVE  DictInv'
<1>0. caller[c].pc = "first" /\ answers # <<>> /\ DictTyped /\ Read
  BY DEF ReadsFirst, Reading, DictInv, Unexpected
<1>1. /\ IsCaller(Noted(c)) /\ Noted(c).id = caller[c].id
      /\ Noted(c).read = caller[c].read \cup {answers[1].of}
      /\ IsCaller(Failed(c)) /\ Failed(c).id = caller[c].id
      /\ Failed(c).read = caller[c].read \cup {answers[1].of}
  BY <1>0, NotedIs
<1>2. answers[1] \in LineSet
  BY <1>0, TailLines DEF DictTyped
<1>3. ~dictConn.skips => answers[1].kind \in {"no", DictCommands[c]}
  BY <1>0, HeadIsOwn DEF DictInv, ConversationOK
<1>4. CASE answers[1].kind # DictCommands[c]
  <2>1. Returns(c, Failed(c))
    BY <1>4 DEF ReadsFirst, Unexpected
  <2>2. ~dictConn.skips => EndsAnswer(answers[1])
    BY <1>3, <1>4 DEF EndsAnswer
  <2> QED
    BY <1>0, <1>1, <2>1, <2>2, ReturnsInv
<1>5. CASE answers[1].kind = DictCommands[c] /\ answers[1].value = Malformed
  <2> PICK r : r = [Failed(c) EXCEPT !.pc = "done"]
    OBVIOUS
  <2>1. IsCaller(r)
    <3>1. r = AtPc(Failed(c), "done")
      BY DEF AtPc
    <3> QED
      BY ONLY <1>1, <3>1, AtPcIs
  <2>2. caller' = [caller EXCEPT ![c] = r] /\ dictConn' = [Skips EXCEPT !.turn = @ + 1]
    BY <1>5 DEF ReadsFirst
  <2> QED
    BY <1>0, <2>1, <2>2, GoesOnInv
<1>6. CASE answers[1].kind = DictCommands[c] /\ answers[1].value # Malformed
  <2> PICK pc : pc = IF DictCommands[c] = "dicts" THEN "lines" ELSE "header"
    OBVIOUS
  <2> PICK r : r = [Noted(c) EXCEPT !.pc = pc, !.left = answers[1].value]
    OBVIOUS
  <2>0. r = [Noted(c) EXCEPT !.pc = pc, !.left = answers[1].value]
    OBVIOUS
  <2>1. /\ IsCaller(r) /\ r.pc = pc /\ r.left = answers[1].value /\ r.id = Noted(c).id
        /\ r.read = Noted(c).read
    <3>1. r = AtPcLeft(Noted(c), pc, answers[1].value)
      BY ONLY <2>0 DEF AtPcLeft
    <3> QED
      BY ONLY <1>1, <3>1, AtPcLeftIs
  <2>2. caller' = [caller EXCEPT ![c] = r] /\ dictConn' = dictConn
    BY <1>6 DEF ReadsFirst
  <2>3. ~EndsAnswer(answers[1]) /\ Expects(r.pc, r.left, NextKind(answers[1])) /\ r.pc \in {"lines", "header"}
    <3>1. CASE DictCommands[c] = "dicts"
      BY <1>6, <2>1, <3>1 DEF EndsAnswer, Expects, NextKind
    <3>2. CASE DictCommands[c] = "define"
      <4>1. answers[1].value \in {0, 1}
        BY <1>2, <1>6, <3>2 DEF LineSet
      <4> QED
        BY <1>6, <2>1, <3>2, <4>1 DEF EndsAnswer, Expects, NextKind
    <3> QED
      BY <3>1, <3>2
  <2> QED
    BY <1>0, <1>1, <2>1, <2>2, <2>3, GoesOnInv
<1> QED
  BY <1>4, <1>5, <1>6

LEMMA ReadsDictsInv == ASSUME DictInv, NEW c \in DictCallers, ReadsDicts(c) PROVE DictInv'
<1>0. caller[c].pc = "lines" /\ answers # <<>> /\ DictTyped /\ Read /\ Inside(c) /\ dictConn' = dictConn
  BY DEF ReadsDicts, Reading, DictInv, Inside
<1>1. /\ IsCaller(Noted(c)) /\ Noted(c).id = caller[c].id
      /\ Noted(c).read = caller[c].read \cup {answers[1].of}
  BY <1>0, NotedIs
<1> PICK e : e = (answers[1].kind # "text" \/ answers[1].value = "bad")
  OBVIOUS
<1> PICK r : r = [Noted(c) EXCEPT !.pc = "last", !.error = e]
  OBVIOUS
<1>2. r = [Noted(c) EXCEPT !.pc = "last", !.error = e]
  OBVIOUS
<1>3. IsCaller(r) /\ r.pc = "last" /\ r.id = Noted(c).id /\ r.read = Noted(c).read
  <2>1. r = AtPcError(Noted(c), "last", e)
    BY ONLY <1>2 DEF AtPcError
  <2> QED
    BY ONLY <1>1, <2>1, AtPcErrorIs
<1>4. caller' = [caller EXCEPT ![c] = r]
  BY DEF ReadsDicts
<1>5. ASSUME ~dictConn.skips PROVE ~EndsAnswer(answers[1]) /\ Expects(r.pc, r.left, NextKind(answers[1]))
  <2>1. answers[1].kind = "text"
    BY <1>0, <1>5 DEF DictInv, ConversationOK, HeadOK, Expects
  <2> QED
    BY <1>3, <2>1 DEF EndsAnswer, Expects, NextKind
<1> QED
  BY <1>0, <1>1, <1>3, <1>4, <1>5, GoesOnInv

LEMMA ReadsHeaderInv == ASSUME DictInv, NEW c \in DictCallers, ReadsHeader(c) PROVE DictInv'
<1>0. caller[c].pc = "header" /\ caller[c].left > 0 /\ answers # <<>> /\ DictTyped /\ Read /\ Inside(c)
  BY DEF ReadsHeader, Reading, DictInv, Inside, Unexpected
<1>1. /\ IsCaller(Noted(c)) /\ Noted(c).id = caller[c].id /\ Noted(c).left = caller[c].left
      /\ Noted(c).read = caller[c].read \cup {answers[1].of}
      /\ IsCaller(Failed(c)) /\ Failed(c).id = caller[c].id
      /\ Failed(c).read = caller[c].read \cup {answers[1].of}
  BY <1>0, NotedIs
<1>2. ASSUME ~dictConn.skips PROVE answers[1].kind = "header" /\ caller[c].left = 1
  <2>1. Expects("header", caller[c].left, answers[1].kind)
    BY <1>0, <1>2 DEF DictInv, ConversationOK, HeadOK
  <2> QED
    BY <1>0, <2>1 DEF Expects
<1>3. CASE answers[1].kind # "header"
  <2>1. Returns(c, Failed(c))
    BY <1>3 DEF ReadsHeader, Unexpected
  <2>2. ~dictConn.skips => EndsAnswer(answers[1])
    BY <1>2, <1>3
  <2> QED
    BY <1>0, <1>1, <2>1, <2>2, ReturnsInv
<1>4. CASE answers[1].kind = "header"
  <2> PICK words : words = Fields(answers[1].value.line)
    OBVIOUS
  <2>1. CASE Len(words) < 3
    <3> PICK r : r = [Noted(c) EXCEPT !.left = @ - 1]
      OBVIOUS
    <3>1. r = [Noted(c) EXCEPT !.left = Noted(c).left - 1]
      OBVIOUS
    <3>2. IsCaller(r)
      <4>1. r = AtLeft(Noted(c), Noted(c).left - 1)
        BY ONLY <3>1 DEF AtLeft
      <4> QED
        BY ONLY <1>1, <4>1, AtLeftIs
    <3>3. caller' = [caller EXCEPT ![c] = r] /\ dictConn' = Skips
      BY <1>4, <2>1 DEF ReadsHeader
    <3> QED
      BY <1>0, <3>2, <3>3, GoesOnInv
  <2>2. CASE ~(Len(words) < 3)
    <3> PICK defs : defs = Append(Noted(c).defs, [words |-> SubSeq(words, 1, 3), header |-> answers[1].value])
      OBVIOUS
    <3> PICK r : r = [Noted(c) EXCEPT !.pc = "text", !.defs = defs]
      OBVIOUS
    <3>1. r = [Noted(c) EXCEPT !.pc = "text", !.defs = defs]
      OBVIOUS
    <3>2. /\ IsCaller(r) /\ r.pc = "text" /\ r.left = Noted(c).left /\ r.id = Noted(c).id
          /\ r.read = Noted(c).read
      <4>1. r = AtPcDefs(Noted(c), "text", defs)
        BY ONLY <3>1 DEF AtPcDefs
      <4> QED
        BY ONLY <1>1, <4>1, AtPcDefsIs
    <3>3. caller' = [caller EXCEPT ![c] = r] /\ dictConn' = dictConn
      BY <1>4, <2>2 DEF ReadsHeader
    <3>4. ASSUME ~dictConn.skips PROVE ~EndsAnswer(answers[1]) /\ Expects(r.pc, r.left, NextKind(answers[1]))
      BY <1>1, <1>2, <3>2, <3>4 DEF EndsAnswer, Expects, NextKind
    <3> QED
      BY <1>0, <1>1, <3>2, <3>3, <3>4, GoesOnInv
  <2> QED
    BY <2>1, <2>2
<1> QED
  BY <1>3, <1>4

LEMMA ReadsTextInv == ASSUME DictInv, NEW c \in DictCallers, ReadsText(c) PROVE DictInv'
<1>0. caller[c].pc = "text" /\ answers # <<>> /\ DictTyped /\ Read /\ Inside(c) /\ dictConn' = dictConn
  BY DEF ReadsText, Reading, DictInv, Inside
<1>1. /\ IsCaller(Noted(c)) /\ Noted(c).id = caller[c].id /\ Noted(c).left = caller[c].left
      /\ Noted(c).read = caller[c].read \cup {answers[1].of}
  BY <1>0, NotedIs
<1> PICK r : r = [Noted(c) EXCEPT !.pc = "header", !.left = @ - 1]
  OBVIOUS
<1>2. r = [Noted(c) EXCEPT !.pc = "header", !.left = Noted(c).left - 1]
  OBVIOUS
<1>3. /\ IsCaller(r) /\ r.pc = "header" /\ r.left = Noted(c).left - 1 /\ r.id = Noted(c).id
      /\ r.read = Noted(c).read
  <2>1. r = AtPcLeft(Noted(c), "header", Noted(c).left - 1)
    BY ONLY <1>2 DEF AtPcLeft
  <2> QED
    BY ONLY <1>1, <2>1, AtPcLeftIs
<1>4. caller' = [caller EXCEPT ![c] = r]
  BY DEF ReadsText
<1>5. ASSUME ~dictConn.skips PROVE ~EndsAnswer(answers[1]) /\ Expects(r.pc, r.left, NextKind(answers[1]))
  <2>1. answers[1].kind = "text" /\ caller[c].left = 1
    BY <1>0, <1>5 DEF DictInv, ConversationOK, HeadOK, Expects
  <2>2. r.left = 0
    BY <1>1, <1>3, <2>1
  <2> QED
    BY <1>3, <2>1, <2>2 DEF EndsAnswer, Expects, NextKind
<1> QED
  BY <1>0, <1>1, <1>3, <1>4, <1>5, GoesOnInv

LEMMA ReadsLastInv == ASSUME DictInv, NEW c \in DictCallers, ReadsLast(c) PROVE DictInv'
<1>0. /\ answers # <<>> /\ DictTyped /\ Read /\ Inside(c)
      /\ caller[c].pc = "last" \/ (caller[c].pc = "header" /\ caller[c].left = 0)
  BY DEF ReadsLast, Reading, DictInv, Inside
<1>1. /\ IsCaller(Noted(c)) /\ Noted(c).id = caller[c].id
      /\ Noted(c).read = caller[c].read \cup {answers[1].of}
  BY <1>0, NotedIs
<1> PICK e : e = (Noted(c).error \/ answers[1].kind # "ok")
  OBVIOUS
<1> PICK with : with = [Noted(c) EXCEPT !.error = e]
  OBVIOUS
<1>2. with = [Noted(c) EXCEPT !.error = e]
  OBVIOUS
<1>3. IsCaller(with) /\ with.id = Noted(c).id /\ with.read = Noted(c).read
  <2>1. with = AtError(Noted(c), e)
    BY ONLY <1>2 DEF AtError
  <2> QED
    BY ONLY <1>1, <2>1, AtErrorIs
<1>4. Returns(c, with)
  BY DEF ReadsLast
<1>5. ASSUME ~dictConn.skips PROVE EndsAnswer(answers[1])
  <2>1. answers[1].kind = "ok"
    BY <1>0, <1>5 DEF DictInv, ConversationOK, HeadOK, Expects
  <2> QED
    BY <2>1 DEF EndsAnswer
<1> QED
  BY <1>0, <1>1, <1>3, <1>4, <1>5, ReturnsInv

-----------------------------------------------------------------------------

LEMMA DictInvOwn == ASSUME DictInv PROVE AnswersAreOwn
<1> SUFFICES ASSUME ~dictConn.skips, NEW c \in DictCallers
             PROVE  /\ caller[c].read \subseteq {caller[c].id}
                    /\ caller[c].pc = "done" /\ caller[c].read # {} =>
                          \A i \in DOMAIN answers : answers[i].of # caller[c].id
  BY DEF AnswersAreOwn
<1>1. NumbersOK /\ LinesOK /\ DictTyped
  BY DEF DictInv, ConversationOK
<1>2. caller[c].read \subseteq {caller[c].id}
  BY <1>1 DEF NumbersOK
<1>3. ASSUME caller[c].pc = "done", caller[c].read # {}, NEW i \in DOMAIN answers
      PROVE  answers[i].of # caller[c].id
  <2>1. caller[c].id \in Nat /\ caller[c].id < dictConn.turn
    BY <1>1, <1>3 DEF NumbersOK, InCall, Unread, Inside
  <2>2. i \in 1..Len(answers) /\ answers[i] \in LineSet
    BY <1>1 DEF DictTyped
  <2>3. answers[i].of \in Nat /\ dictConn.turn <= answers[i].of
    BY <1>1, <2>2 DEF LinesOK, LineSet
  <2>4. dictConn.turn \in Nat
    BY <1>1, ConnFields DEF DictTyped
  <2> QED
    BY <2>1, <2>3, <2>4
<1> QED
  BY <1>2, <1>3

\* dict.go, for any callers, any commands and whatever the server heads a definition with:
\* while no call left a part of its answer, the lines that a call reads are of its own
\* command, and it leaves none of them for the next.
THEOREM AnswersStayOwn ==
    ASSUME \A c \in DictCallers : DictCommands[c] \in {"dicts", "define"}
    PROVE  DictSpec => []AnswersAreOwn
<1>1. DictInit => DictInv
  BY DictInitInv
<1>2. DictInv /\ [DictNext]_dictVars => DictInv'
  <2>1. ASSUME DictInv, NEW c \in DictCallers, Cmd(c) PROVE DictInv'
    BY <2>1, CmdFailsInv, CmdSendsInv DEF Cmd
  <2>2. ASSUME DictInv, DictNext PROVE DictInv'
    BY <2>1, <2>2, GreetedInv, ServerAnswersInv, DictUnchangedInv, StartResponseInv, ReadsFirstInv,
       ReadsDictsInv, ReadsHeaderInv, ReadsTextInv, ReadsLastInv DEF DictNext, DictOver
  <2> QED
    BY <2>2, DictUnchangedInv
<1>3. DictInv => AnswersAreOwn
  BY DictInvOwn
<1> QED
  BY <1>1, <1>2, <1>3, PTL DEF DictSpec

(***************************************************************************)
(* The earlier API of gosqlite                                             *)
(***************************************************************************)

StmtAssumed == \A a \in Arguments : a.type = "bool" => a.value \in {"true", "false"}

Given == Arguments \cup {Null}
RowSet == {Row(a) : a \in Given}
StmtRecord ==
    [state : {"none", "prepared"}, kind : {"none", "insert", "select"},
     rc : {"ok", "error", "row", "done"}, at : Nat, bound : Given, err : BOOLEAN,
     ended : BOOLEAN, whole : BOOLEAN]
IsScan(v) == v = [type |-> v.type, value |-> v.value, kept |-> v.kept, row |-> v.row]

TableOK == table \in Seq(RowSet)

\* Where a statement is among the rows, and what it has said.
StmtOK(q, n) ==
    /\ q \in StmtRecord
    /\ q.at <= n
    /\ q.rc = "row" => q.at > 0
    /\ q.state = "prepared" => q.kind # "none"
    /\ q.kind = "select" /\ q.ended /\ ~q.err => q.whole

\* What was scanned is a row's text, read as the type of the variable.
ScanOK(v, stored) ==
    /\ IsScan(v)
    /\ v.type # "none" =>
          /\ v.row \in 1..Len(stored)
          /\ v.value = ReadAs(v.type, stored[v.row].text) /\ v.value # "error"
          /\ v.kept # v.value => v.type = "bytes"

BackupOK ==
    /\ backup = [state |-> backup.state, left |-> backup.left, last |-> backup.last, said |-> backup.said]
    /\ backup.state = "ended" => backup.last \in {"done", "error"}
    /\ backup.last = "done" => backup.left = 0

StmtInv ==
    /\ TableOK /\ BackupOK
    /\ stmt = [s \in Stmts |-> stmt[s]] /\ \A s \in Stmts : StmtOK(stmt[s], Len(table))
    /\ scanned = [s \in Stmts |-> scanned[s]] /\ \A s \in Stmts : ScanOK(scanned[s], table)
    /\ ~report.ok => report.added = 0
    /\ handle # "open" => \A s \in Stmts : ~InUse(s)

-----------------------------------------------------------------------------

\* What SQLite makes of a step: the rows that were there stay.
LEMMA StepKeeps ==
    ASSUME TableOK, NEW kind \in {"insert", "select"}, NEW at \in Nat, at <= Len(table),
           NEW bound \in Given, NEW r \in Steps(kind, at, bound)
    PROVE  /\ r.rc \in {"error", "row", "done"} /\ r.at \in Nat /\ r.at <= Len(r.table)
           /\ r.rc = "row" => r.at > 0
           /\ kind = "select" => r.table = table
           /\ (kind = "select" /\ r.rc = "done") => r.at = Len(table)
           /\ r.rc # "done" => r.table = table
           /\ r.table \in Seq(RowSet) /\ Len(table) <= Len(r.table)
           /\ \A i \in 1..Len(table) : r.table[i] = table[i]
<1>1. CASE r = [rc |-> "error", table |-> table, at |-> at]
  BY <1>1 DEF TableOK
<1>2. CASE kind = "insert" /\ r = [rc |-> "done", table |-> Append(table, Row(bound)), at |-> 0]
  <2>1. Row(bound) \in RowSet
    BY DEF RowSet
  <2> QED
    BY <1>2, <2>1 DEF TableOK
<1>3. CASE kind = "select" /\ at < Len(table) /\ r = [rc |-> "row", table |-> table, at |-> at + 1]
  BY <1>3 DEF TableOK
<1>4. CASE kind = "select" /\ ~(at < Len(table)) /\ r = [rc |-> "done", table |-> table, at |-> at]
  BY <1>4, Len(table) \in Nat DEF TableOK
<1> QED
  BY <1>1, <1>2, <1>3, <1>4 DEF Steps

\* A table that only grows leaves all statements and what was scanned as they are.
LEMMA GrowthKeeps ==
    ASSUME NEW stored, TableOK, Len(stored) \in Nat, Len(table) <= Len(stored),
           \A i \in 1..Len(table) : stored[i] = table[i]
    PROVE  /\ \A q : StmtOK(q, Len(table)) => StmtOK(q, Len(stored))
           /\ \A v : ScanOK(v, table) => ScanOK(v, stored)
<1>1. ASSUME NEW q, StmtOK(q, Len(table)) PROVE StmtOK(q, Len(stored))
  BY <1>1 DEF StmtOK, TableOK, StmtRecord
<1>2. ASSUME NEW v, ScanOK(v, table) PROVE ScanOK(v, stored)
  BY <1>2 DEF ScanOK, TableOK
<1> QED
  BY <1>1, <1>2

LEMMA ReleasedScan ==
    ASSUME NEW s \in Stmts, NEW stored, scanned = [t \in Stmts |-> scanned[t]],
           \A t \in Stmts : ScanOK(scanned[t], stored)
    PROVE  /\ Released(s) = [t \in Stmts |-> Released(s)[t]]
           /\ \A t \in Stmts : ScanOK(Released(s)[t], stored)
<1>1. \A t \in Stmts \ {s} : Released(s)[t] = scanned[t]
  BY DEF Released
<1> PICK k : k = IF scanned[s].type = "bytes" THEN "freed" ELSE scanned[s].kept
  OBVIOUS
<1>2. Released(s)[s] = [scanned[s] EXCEPT !.kept = k]
  BY DEF Released
<1>3. IsScan(scanned[s])
  BY DEF ScanOK
<1> PICK type, value, kept, row : scanned[s] = [type |-> type, value |-> value, kept |-> kept, row |-> row]
  BY <1>3 DEF IsScan
<1>4. Released(s)[s] = [type |-> type, value |-> value, kept |-> k, row |-> row]
  BY <1>2
<1>5. k # value => kept # value \/ type = "bytes"
  OBVIOUS
<1>6. ScanOK(Released(s)[s], stored)
  <2>1. IsScan(Released(s)[s])
    BY <1>4 DEF IsScan
  <2>2. ScanOK(scanned[s], stored)
    OBVIOUS
  <2> QED
    BY <1>4, <1>5, <2>1, <2>2 DEF ScanOK
<1>7. Released(s) = [t \in Stmts |-> Released(s)[t]]
  BY DEF Released
<1> QED
  BY <1>1, <1>6, <1>7

\* A statement that begins again.
LEMMA RewoundStmt ==
    ASSUME NEW s \in Stmts, NEW n \in Nat, StmtOK(stmt[s], n)
    PROVE  StmtOK(Rewound(s), n) /\ Rewound(s).state = stmt[s].state
<1> PICK q : q = stmt[s]
  OBVIOUS
<1>1. q \in StmtRecord
  BY DEF StmtOK
<1> PICK r : r = [q EXCEPT !.rc = "ok", !.at = 0, !.ended = FALSE, !.whole = FALSE]
  OBVIOUS
<1>2. r \in StmtRecord /\ r.state = q.state /\ r.kind = q.kind /\ r.rc = "ok" /\ r.at = 0 /\ r.ended = FALSE
  BY <1>1 DEF StmtRecord
<1>3. Rewound(s) = r
  BY DEF Rewound
<1> QED
  BY <1>2, <1>3 DEF StmtOK

LEMMA BoundStmt ==
    ASSUME NEW s \in Stmts, NEW n \in Nat, StmtOK(stmt[s], n), NEW a \in Given, NEW r,
           r = [Rewound(s) EXCEPT !.bound = a]
    PROVE  StmtOK(r, n) /\ r.state = stmt[s].state
<1> PICK q : q = Rewound(s)
  OBVIOUS
<1>1. StmtOK(q, n) /\ q.state = stmt[s].state
  BY RewoundStmt
<1>2. q \in StmtRecord
  BY <1>1 DEF StmtOK
<1>3. /\ r \in StmtRecord /\ r.state = q.state /\ r.kind = q.kind /\ r.rc = q.rc /\ r.at = q.at
      /\ r.ended = q.ended /\ r.err = q.err /\ r.whole = q.whole
  BY <1>2 DEF StmtRecord
<1> QED
  BY <1>1, <1>3 DEF StmtOK

Stepped(q, rc, at, err, ended, whole) ==
    [q EXCEPT !.rc = rc, !.at = at, !.err = err, !.ended = ended, !.whole = whole]

\* One statement and what was scanned from it change; the table stays.
LEMMA StmtMoves ==
    ASSUME StmtInv, NEW s \in Stmts, handle = "open", NEW q, StmtOK(q, Len(table)),
           NEW v, v = [t \in Stmts |-> v[t]], \A t \in Stmts : ScanOK(v[t], table),
           handle' = handle, table' = table, backup' = backup,
           report'.ok, stmt' = [stmt EXCEPT ![s] = q], scanned' = v
    PROVE  StmtInv'
<1>1. TableOK' /\ BackupOK'
  BY DEF StmtInv, TableOK, BackupOK
<1>2. \A t \in Stmts : stmt'[t] = IF t = s THEN q ELSE stmt[t]
  BY DEF StmtInv
<1>3. stmt' = [t \in Stmts |-> stmt'[t]] /\ \A t \in Stmts : StmtOK(stmt'[t], Len(table'))
  BY <1>2 DEF StmtInv
<1>4. scanned' = [t \in Stmts |-> scanned'[t]] /\ \A t \in Stmts : ScanOK(scanned'[t], table')
  OBVIOUS
<1> QED
  BY <1>1, <1>3, <1>4 DEF StmtInv

\* Neither statements nor rows change.
LEMMA RestMoves ==
    ASSUME StmtInv, BackupOK', UNCHANGED <<table, stmt, scanned>>,
           ~report'.ok => report'.added = 0,
           handle' = "open" \/ \A s \in Stmts : ~InUse(s)
    PROVE  StmtInv'
<1>1. TableOK' /\ \A s \in Stmts : InUse(s)' <=> InUse(s)
  BY DEF StmtInv, TableOK, InUse
<1> QED
  BY <1>1 DEF StmtInv

LEMMA InUseIsOpen == ASSUME StmtInv, NEW s \in Stmts, InUse(s) PROVE handle = "open"
BY DEF StmtInv

LEMMA QuietReport == ASSUME Quiet PROVE report'.ok
BY DEF Quiet, Silent

-----------------------------------------------------------------------------
(* The calls. *)

LEMMA StmtInitInv == StmtInit => StmtInv
<1> SUFFICES ASSUME StmtInit PROVE StmtInv
  OBVIOUS
<1>1. TableOK /\ BackupOK /\ report.ok
  BY DEF StmtInit, TableOK, BackupOK, Silent
<1>2. Finalized \in StmtRecord
  BY DEF Finalized, StmtRecord, Given
<1>3. StmtOK(Finalized, 0)
  BY <1>2 DEF StmtOK, Finalized
<1>4. \A stored : ScanOK(None, stored)
  BY DEF ScanOK, None, IsScan
<1> QED
  BY <1>1, <1>3, <1>4 DEF StmtInit, StmtInv, InUse, Finalized

LEMMA OpenConnInv == ASSUME StmtInv, OpenConn PROVE StmtInv'
<1>1. BackupOK'
  BY DEF OpenConn, StmtInv, BackupOK
<1> QED
  BY <1>1, RestMoves, QuietReport DEF OpenConn

LEMMA CloseConnInv == ASSUME StmtInv, CloseConn PROVE StmtInv'
<1>1. BackupOK'
  BY DEF CloseConn, StmtInv, BackupOK
<1> QED
  BY <1>1, RestMoves, QuietReport DEF CloseConn

LEMMA PrepareInv ==
    ASSUME StmtInv, NEW s \in Stmts, NEW kind \in {"insert", "select"}, Prepare(s, kind)
    PROVE  StmtInv'
<1> PICK q : q = [Finalized EXCEPT !.state = "prepared", !.kind = kind]
  OBVIOUS
<1>1. StmtOK(q, Len(table))
  <2>1. q = [state |-> "prepared", kind |-> kind, rc |-> "ok", at |-> 0, bound |-> Null,
             err |-> FALSE, ended |-> FALSE, whole |-> FALSE]
    BY DEF Finalized
  <2>2. q \in StmtRecord
    BY ONLY <2>1, kind \in {"insert", "select"} DEF StmtRecord, Given
  <2>3. Len(table) \in Nat
    BY DEF StmtInv, TableOK
  <2> QED
    BY ONLY <2>1, <2>2, <2>3, kind \in {"insert", "select"} DEF StmtOK
<1> PICK v : v = [scanned EXCEPT ![s] = None]
  OBVIOUS
<1>2. v = [t \in Stmts |-> v[t]] /\ \A t \in Stmts : ScanOK(v[t], table)
  <2>1. ScanOK(None, table)
    BY DEF ScanOK, None, IsScan
  <2>2. \A t \in Stmts : v[t] = IF t = s THEN None ELSE scanned[t]
    BY DEF StmtInv
  <2>3. v = [t \in Stmts |-> v[t]]
    BY DEF StmtInv
  <2> QED
    BY <2>1, <2>2, <2>3 DEF StmtInv
<1>3. /\ handle = "open" /\ handle' = handle /\ table' = table /\ backup' = backup
      /\ stmt' = [stmt EXCEPT ![s] = q] /\ scanned' = v
  BY DEF Prepare
<1>4. report'.ok
  BY QuietReport DEF Prepare
<1> QED
  BY ONLY StmtInv, s \in Stmts, <1>1, <1>2, <1>3, <1>4, StmtMoves

LEMMA ConnExecInv ==
    ASSUME StmtInv, NEW kind \in {"insert", "select"}, NEW args \in ArgLists, ConnExec(kind, args)
    PROVE  StmtInv'
<1>1. BoundTo(args) \in Given
  BY DEF ArgLists, BoundTo, Given
<1>2. TableOK /\ Len(table) \in Nat
  BY DEF StmtInv, TableOK
<1> PICK r \in Steps(kind, 0, BoundTo(args)) :
        report' = [ok |-> r.rc = "done", added |-> Len(r.table) - Len(table)] /\ table' = r.table
  BY DEF ConnExec
<1>3. /\ r.rc # "done" => r.table = table
      /\ r.table \in Seq(RowSet) /\ Len(r.table) \in Nat /\ Len(table) <= Len(r.table)
      /\ \A i \in 1..Len(table) : r.table[i] = table[i]
  BY <1>1, <1>2, StepKeeps
<1>4. TableOK' /\ BackupOK'
  BY <1>3 DEF ConnExec, TableOK, BackupOK, StmtInv
<1>5. ~report'.ok => report'.added = 0
  <2> PICK ok : ok = (r.rc = "done")
    OBVIOUS
  <2>1. report' = [ok |-> ok, added |-> Len(r.table) - Len(table)]
    OBVIOUS
  <2>2. r.rc # "done" => Len(r.table) - Len(table) = 0
    BY <1>2, <1>3
  <2>3. ~ok => r.rc # "done"
    OBVIOUS
  <2> QED
    BY ONLY <2>1, <2>2, <2>3
<1>6. /\ \A q : StmtOK(q, Len(table)) => StmtOK(q, Len(r.table))
      /\ \A v : ScanOK(v, table) => ScanOK(v, r.table)
  BY <1>2, <1>3, GrowthKeeps
<1>7. handle = "open" /\ handle' = handle /\ stmt' = stmt /\ scanned' = scanned
  BY DEF ConnExec
<1> QED
  BY <1>4, <1>5, <1>6, <1>7 DEF StmtInv

LEMMA StmtExecInv ==
    ASSUME StmtInv, NEW s \in Stmts, NEW args \in ArgLists, StmtExec(s, args)
    PROVE  StmtInv'
<1>1. BoundTo(args) \in Given
  BY DEF ArgLists, BoundTo, Given
<1> PICK q : q = [Rewound(s) EXCEPT !.bound = BoundTo(args)]
  OBVIOUS
<1>2. Len(table) \in Nat /\ StmtOK(stmt[s], Len(table)) /\ handle = "open"
  BY InUseIsOpen DEF StmtInv, TableOK, StmtExec
<1>3. StmtOK(q, Len(table))
  BY <1>1, <1>2, BoundStmt
<1>4. /\ Released(s) = [t \in Stmts |-> Released(s)[t]]
      /\ \A t \in Stmts : ScanOK(Released(s)[t], table)
  BY ReleasedScan DEF StmtInv
<1>5. /\ handle' = handle /\ table' = table /\ backup' = backup
      /\ stmt' = [stmt EXCEPT ![s] = q] /\ scanned' = Released(s)
  BY DEF StmtExec
<1>6. report'.ok
  BY QuietReport DEF StmtExec
<1> QED
  BY <1>2, <1>3, <1>4, <1>5, <1>6, StmtMoves

LEMMA RewindsInv ==
    ASSUME StmtInv, NEW s \in Stmts, StmtExecFails(s) \/ Reset(s)
    PROVE  StmtInv'
<1> PICK q : q = Rewound(s)
  OBVIOUS
<1>2. Len(table) \in Nat /\ StmtOK(stmt[s], Len(table)) /\ handle = "open"
  BY InUseIsOpen DEF StmtInv, TableOK, StmtExecFails, Reset
<1>3. StmtOK(q, Len(table))
  BY <1>2, RewoundStmt
<1>4. /\ Released(s) = [t \in Stmts |-> Released(s)[t]]
      /\ \A t \in Stmts : ScanOK(Released(s)[t], table)
  BY ReleasedScan DEF StmtInv
<1>5. /\ handle' = handle /\ table' = table /\ backup' = backup
      /\ stmt' = [stmt EXCEPT ![s] = q] /\ scanned' = Released(s)
  BY DEF StmtExecFails, Reset
<1>6. report'.ok
  BY QuietReport DEF StmtExecFails, Reset
<1> QED
  BY <1>2, <1>3, <1>4, <1>5, <1>6, StmtMoves

LEMMA FinalizeInv == ASSUME StmtInv, NEW s \in Stmts, Finalize(s) PROVE StmtInv'
<1>1. Finalized \in StmtRecord
  BY DEF Finalized, StmtRecord, Given
<1>2. Len(table) \in Nat /\ handle = "open"
  BY InUseIsOpen DEF StmtInv, TableOK, Finalize
<1>3. StmtOK(Finalized, Len(table))
  BY <1>1, <1>2 DEF StmtOK, Finalized
<1>4. /\ Released(s) = [t \in Stmts |-> Released(s)[t]]
      /\ \A t \in Stmts : ScanOK(Released(s)[t], table)
  BY ReleasedScan DEF StmtInv
<1>5. /\ handle' = handle /\ table' = table /\ backup' = backup
      /\ stmt' = [stmt EXCEPT ![s] = Finalized] /\ scanned' = Released(s)
  BY DEF Finalize
<1>6. report'.ok
  BY QuietReport DEF Finalize
<1> QED
  BY <1>2, <1>3, <1>4, <1>5, <1>6, StmtMoves

LEMMA NextInv == ASSUME StmtInv, NEW s \in Stmts, Next(s) PROVE StmtInv'
<1>1. /\ TableOK /\ Len(table) \in Nat /\ StmtOK(stmt[s], Len(table)) /\ handle = "open"
      /\ stmt[s] \in StmtRecord
  BY InUseIsOpen DEF StmtInv, TableOK, Next, StmtOK
<1> PICK q : q = stmt[s]
  OBVIOUS
<1>2. /\ q \in StmtRecord /\ q.kind \in {"insert", "select"} /\ q.bound \in Given
      /\ Position(s) \in Nat /\ Position(s) <= Len(table)
  BY <1>1 DEF StmtOK, StmtRecord, Position, Next, InUse
<1> PICK r \in Steps(q.kind, Position(s), q.bound) :
        /\ table' = r.table
        /\ stmt' = [stmt EXCEPT ![s].rc = r.rc, ![s].at = r.at, ![s].err = Erred(s, r.rc),
                                ![s].ended = r.rc # "row",
                                ![s].whole = r.rc = "done" /\ r.at = Len(table)]
  BY DEF Next
<1>3. /\ r.rc \in {"error", "row", "done"} /\ r.at \in Nat /\ r.at <= Len(r.table)
      /\ r.rc = "row" => r.at > 0
      /\ (q.kind = "select" /\ r.rc = "done") => r.at = Len(table)
      /\ r.table \in Seq(RowSet) /\ Len(r.table) \in Nat /\ Len(table) <= Len(r.table)
      /\ \A i \in 1..Len(table) : r.table[i] = table[i]
  BY <1>1, <1>2, StepKeeps
<1> PICK err : err = Erred(s, r.rc)
  OBVIOUS
<1> PICK ended : ended = (r.rc # "row")
  OBVIOUS
<1> PICK whole : whole = (r.rc = "done" /\ r.at = Len(table))
  OBVIOUS
<1> PICK p : p = [q EXCEPT !.rc = r.rc, !.at = r.at, !.err = err, !.ended = ended, !.whole = whole]
  OBVIOUS
<1>4. /\ err \in BOOLEAN /\ ended \in BOOLEAN /\ whole \in BOOLEAN
      /\ (err <=> q.err \/ r.rc = "error") /\ (ended <=> r.rc # "row")
      /\ (whole <=> r.rc = "done" /\ r.at = Len(table))
  BY DEF Erred
<1>5. /\ p \in StmtRecord /\ p.state = q.state /\ p.kind = q.kind /\ p.rc = r.rc /\ p.at = r.at
      /\ (p.err <=> err) /\ (p.ended <=> ended) /\ (p.whole <=> whole)
  <2>1. p = Stepped(q, r.rc, r.at, err, ended, whole)
    BY DEF Stepped
  <2> QED
    <3>1. q \in StmtRecord
      BY <1>2
    <3>2. r.rc \in {"error", "row", "done"} /\ r.at \in Nat
      BY <1>3
    <3>3. err \in BOOLEAN /\ ended \in BOOLEAN /\ whole \in BOOLEAN
      BY <1>4
    <3>4. /\ p \in StmtRecord /\ p.state = q.state /\ p.kind = q.kind /\ p.rc = r.rc
          /\ p.at = r.at /\ p.err = err /\ p.ended = ended /\ p.whole = whole
      <4> PICK rc, at : rc = r.rc /\ at = r.at
        OBVIOUS
      <4>1. p = Stepped(q, rc, at, err, ended, whole)
        BY <2>1
      <4>2. rc \in {"error", "row", "done"} /\ at \in Nat
        BY <3>2
      <4>3. /\ p \in StmtRecord /\ p.state = q.state /\ p.kind = q.kind /\ p.rc = rc
            /\ p.at = at /\ p.err = err /\ p.ended = ended /\ p.whole = whole
        BY ONLY <3>1, <4>1, <4>2, <3>3 DEF Stepped, StmtRecord
      <4> QED
        BY ONLY <4>3, rc = r.rc, at = r.at
    <3> QED
      BY ONLY <3>4
<1>6. StmtOK(p, Len(r.table))
  BY <1>1, <1>2, <1>3, <1>4, <1>5 DEF StmtOK
<1>7. stmt' = [stmt EXCEPT ![s] = p]
  BY DEF StmtInv
<1>8. /\ \A t \in Stmts : stmt'[t] = IF t = s THEN p ELSE stmt[t]
      /\ stmt' = [t \in Stmts |-> stmt'[t]]
  BY <1>7 DEF StmtInv
<1>9. /\ \A t : StmtOK(t, Len(table)) => StmtOK(t, Len(r.table))
      /\ \A v : ScanOK(v, table) => ScanOK(v, r.table)
  BY <1>1, <1>3, GrowthKeeps
<1>10. \A t \in Stmts : StmtOK(stmt'[t], Len(table'))
  BY <1>6, <1>8, <1>9 DEF StmtInv
<1>11. /\ scanned' = [t \in Stmts |-> scanned'[t]]
       /\ \A t \in Stmts : ScanOK(scanned'[t], table')
  <2>1. /\ Released(s) = [t \in Stmts |-> Released(s)[t]]
        /\ \A t \in Stmts : ScanOK(Released(s)[t], r.table)
    BY <1>9, ReleasedScan DEF StmtInv
  <2> QED
    BY <2>1 DEF Next
<1>12. TableOK' /\ BackupOK' /\ handle' = "open" /\ report'.ok
  BY <1>1, <1>3, QuietReport DEF TableOK, BackupOK, StmtInv, Next
<1> QED
  BY <1>8, <1>10, <1>11, <1>12 DEF StmtInv

LEMMA ScanInv == ASSUME StmtInv, NEW s \in Stmts, NEW type \in ScanTypes, Scan(s, type) PROVE StmtInv'
<1>1. TableOK /\ Len(table) \in Nat /\ StmtOK(stmt[s], Len(table)) /\ handle = "open"
  BY InUseIsOpen DEF StmtInv, TableOK, Scan
<1>2. stmt[s].at \in 1..Len(table)
  BY <1>1 DEF StmtOK, StmtRecord, Scan
<1> PICK x : x = ReadAs(type, table[stmt[s].at].text)
  OBVIOUS
<1> PICK w : w = IF x = "error" THEN scanned[s]
                 ELSE [type |-> type, value |-> x, kept |-> x, row |-> stmt[s].at]
  OBVIOUS
<1>3. ScanOK(w, table)
  BY <1>2 DEF ScanOK, IsScan, StmtInv
<1> PICK v : v = [scanned EXCEPT ![s] = w]
  OBVIOUS
<1>4. v = [t \in Stmts |-> v[t]] /\ \A t \in Stmts : v[t] = IF t = s THEN w ELSE scanned[t]
  BY DEF StmtInv
<1>5. \A t \in Stmts : ScanOK(v[t], table)
  BY <1>3, <1>4 DEF StmtInv
<1>6. scanned' = v /\ UNCHANGED <<handle, table, stmt, backup>>
  BY DEF Scan
<1>7. report'.ok /\ TableOK' /\ BackupOK'
  BY <1>6, QuietReport DEF Scan, StmtInv, TableOK, BackupOK
<1> QED
  BY <1>1, <1>4, <1>5, <1>6, <1>7 DEF StmtInv

-----------------------------------------------------------------------------
(* Backups. *)

LEMMA NewBackupInv == ASSUME StmtInv, NewBackup PROVE StmtInv'
<1>1. BackupOK'
  BY DEF NewBackup, BackupOK
<1> QED
  BY <1>1, RestMoves, QuietReport DEF NewBackup

LEMMA RunStepInv == ASSUME StmtInv, NEW n \in 1..MaxPages, RunStep(n) PROVE StmtInv'
<1> PICK r \in BackupSteps(backup.left, n) :
        \/ /\ GoesOn(r.rc)
           /\ backup' = [backup EXCEPT !.state = "running", !.left = r.left, !.last = r.rc]
        \/ /\ ~GoesOn(r.rc)
           /\ \E said : backup' = [state |-> "ended", left |-> r.left, last |-> r.rc, said |-> said]
  BY DEF RunStep
<1>1. r.rc \in {"busy", "error", "ok", "done"} /\ (r.rc = "done" => r.left = 0)
  BY DEF BackupSteps
<1>2. BackupOK'
  <2> PICK state, left, last, said :
          backup = [state |-> state, left |-> left, last |-> last, said |-> said]
    BY DEF StmtInv, BackupOK
  <2>1. CASE GoesOn(r.rc)
    <3>1. backup' = [state |-> "running", left |-> r.left, last |-> r.rc, said |-> said]
      BY <2>1
    <3> QED
      BY <1>1, <3>1 DEF BackupOK
  <2>2. CASE ~GoesOn(r.rc)
    BY <1>1, <2>2 DEF BackupOK, GoesOn
  <2> QED
    BY <2>1, <2>2
<1>3. UNCHANGED <<handle, table, stmt, scanned>> /\ report'.ok
  BY QuietReport DEF RunStep
<1>4. handle' = "open" \/ \A s \in Stmts : ~InUse(s)
  BY <1>3 DEF StmtInv
<1> QED
  BY <1>2, <1>3, <1>4, RestMoves

LEMMA CloseBackupInv == ASSUME StmtInv, CloseBackup PROVE StmtInv'
<1>1. BackupOK'
  <2> PICK state, left, last, said :
          backup = [state |-> state, left |-> left, last |-> last, said |-> said]
    BY DEF StmtInv, BackupOK
  <2>1. backup' = [state |-> "closed", left |-> 0, last |-> last, said |-> said]
    BY DEF CloseBackup
  <2> QED
    BY <2>1 DEF BackupOK
<1>2. UNCHANGED <<handle, table, stmt, scanned>> /\ report'.ok
  BY QuietReport DEF CloseBackup
<1>3. handle' = "open" \/ \A s \in Stmts : ~InUse(s)
  BY <1>2 DEF StmtInv
<1> QED
  BY <1>1, <1>2, <1>3, RestMoves

LEMMA StmtUnchangedInv == ASSUME StmtInv, UNCHANGED stmtVars PROVE StmtInv'
BY DEF stmtVars, StmtInv, TableOK, BackupOK, InUse

-----------------------------------------------------------------------------

LEMMA StmtInvSound == ASSUME StmtAssumed, StmtInv PROVE StatementsAreSound
<1>1. RowsAreWhole
  BY DEF StmtInv, StmtOK, RowsAreWhole
<1>2. ValuesComeBack
  <2> SUFFICES ASSUME NEW s \in Stmts, scanned[s].type # "none"
               PROVE  LET arg == table[scanned[s].row].arg IN
                      /\ scanned[s].type = arg.type => scanned[s].value = arg.value
                      /\ scanned[s].kept # scanned[s].value => scanned[s].type = "bytes"
    BY DEF ValuesComeBack
  <2> PICK v : v = scanned[s]
    OBVIOUS
  <2>1. /\ v.row \in 1..Len(table) /\ v.value = ReadAs(v.type, table[v.row].text) /\ v.value # "error"
        /\ v.kept # v.value => v.type = "bytes"
    BY DEF StmtInv, ScanOK
  <2> PICK a \in Given : table[v.row] = Row(a)
    BY <2>1 DEF StmtInv, TableOK, RowSet
  <2>2. table[v.row].arg = a /\ table[v.row].text = TextOf(a)
    BY DEF Row
  <2>3. ASSUME v.type = a.type PROVE v.value = a.value
    <3>1. CASE a.type = "bool"
      <4>1. a.value \in {"true", "false"}
        <5>1. a # Null
          <6>1. Null.type = "null"
            BY DEF Null
          <6> QED
            BY ONLY <3>1, <6>1
        <5>2. a \in Arguments
          BY ONLY <5>1, a \in Given DEF Given
        <5> QED
          BY ONLY <5>2, <3>1, StmtAssumed DEF StmtAssumed
      <4> QED
        BY <2>1, <2>2, <2>3, <3>1, <4>1 DEF ReadAs, TextOf
    <3>2. CASE a.type # "bool"
      <4>1. TextOf(a) = a.value
        BY <3>2 DEF TextOf
      <4> QED
        BY <2>1, <2>2, <2>3, <3>2, <4>1 DEF ReadAs
    <3> QED
      BY <3>1, <3>2
  <2> QED
    BY <2>1, <2>2, <2>3
<1>3. HandlesAreSound
  BY DEF StmtInv, BackupOK, HandlesAreSound
<1> QED
  BY <1>1, <1>2, <1>3 DEF StatementsAreSound

\* The earlier API of gosqlite, for any statements, arguments and sizes: a read that was cut
\* short is never taken for all rows, a value comes back as it was bound, and nothing outlives
\* its connection.
THEOREM StatementsStaySound == ASSUME StmtAssumed PROVE StmtSpec => []StatementsAreSound
<1>1. StmtInit => StmtInv
  BY StmtInitInv
<1>2. StmtInv /\ [StmtNext]_stmtVars => StmtInv'
  <2>1. ASSUME StmtInv, StmtNext PROVE StmtInv'
    BY <2>1, OpenConnInv, CloseConnInv, NewBackupInv, CloseBackupInv, StmtUnchangedInv, RunStepInv,
       ConnExecInv, PrepareInv, StmtExecInv, ScanInv, RewindsInv, NextInv, FinalizeInv
       DEF StmtNext, Refused
  <2> QED
    BY <2>1, StmtUnchangedInv
<1>3. StmtInv => StatementsAreSound
  BY StmtInvSound
<1> QED
  BY <1>1, <1>2, <1>3, PTL DEF StmtSpec
=============================================================================
