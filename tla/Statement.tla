----------------------------- MODULE Statement -----------------------------
(***************************************************************************)
(* One database connection and its prepared statements, driven by the Java *)
(* side through the JNI bridge of src/selekt-sqlite3/sqlite3_jni.cpp.       *)
(*                                                                         *)
(* Two layers:                                                             *)
(*  - the engine (the wrapped SQLite core, spec.md section 4.4): each      *)
(*    statement's state, cursor, bindings and the error of its last step;  *)
(*  - the bridge: one action per JNI entry point, which calls the engine   *)
(*    and hands the handle back to Java through a holder array             *)
(*    (updateHolder); its failure is modelled in JniErrors.                *)
(* The Java caller only ever passes handles it received, so `held` is the  *)
(* set of statements the caller can still reach.                           *)
(*                                                                         *)
(* The natives of com.bloomberg.selekt.ExternalSQLite come from one of two *)
(* libraries: src/selekt-sqlite3 (exported Java_..._ExternalSQLite_* names,*)
(* linked by name) or the older src/SQLite3, whose JNI_OnLoad registers    *)
(* the kMethods table.  `lib` is the one loaded, `linked` the natives that *)
(* are bound; a call of any other throws UnsatisfiedLinkError.             *)
(***************************************************************************)
EXTENDS Naturals, Sequences, FiniteSets

CONSTANTS
    Stmts,          \* statement objects the engine can allocate (model values)
    ParamCount,     \* parameters of the compiled SQL (?1 .. ?ParamCount)
    Rows,           \* rows the statement yields before SQLITE_DONE
    Vals,           \* values Java binds
    NULL            \* the SQL NULL bound to every parameter not bound yet

ASSUME ParamCount \in Nat \ {0} /\ Rows \in Nat /\ NULL \notin Vals

VARIABLES
    db,       \* the engine connection: "closed" or "open"
    dbHeld,   \* Java holds the sqlite3* openV2 wrote into its holder
    stmt,     \* engine statement records
    held,     \* statements whose handle Java got back from prepareV2
    cleared,  \* Java called resetAndClearBindings and has not bound since
    rc,       \* result code of the last JNI call that returns one
    out,      \* value the last read-only call (count, column, type, busy) returned
    lib,      \* the library System.loadLibrary loads
    loaded,   \* its JNI_OnLoad has run
    linked,   \* which natives are bound to ExternalSQLite: "none", "kMethods" or "exports"
    thrown    \* the Java exception the last call raised, "none" if none

engine == <<db, dbHeld, stmt, held, cleared, rc, out>>
vars == <<db, dbHeld, stmt, held, cleared, rc, out, lib, loaded, linked, thrown>>

Params == 1..ParamCount
\* Indices Java may pass to a bind call: the valid ones and one past each end.
BindIndices == 0..(ParamCount + 1)
Codes == {"OK", "ROW", "DONE", "BUSY", "ERROR", "RANGE"}
Libs == {"selekt-sqlite3", "SQLite3"}

(***************************************************************************)
(* Engine: the statement state machine of spec.md 4.4 and 7.              *)
(* st is "free" for memory the engine has not allocated (or has freed by   *)
(* finalize, so that a later prepare may hand out the same address).       *)
(***************************************************************************)
NoBindings == [i \in Params |-> NULL]
FreeStmt == [st |-> "free", cursor |-> 0, binds |-> NoBindings, err |-> "OK"]
Live(s) == stmt[s].st # "free"

\* prepare: compiles the SQL into a fresh statement, all parameters NULL.
PreparedStmt == [FreeStmt EXCEPT !.st = "prepared"]

\* bind: an index outside 1..ParamCount fails with a range error and changes
\* nothing; otherwise the value overwrites the parameter (spec 4.4 bind).
BindResult(t, i) == IF i \in Params THEN "OK" ELSE "RANGE"
AfterBind(t, i, v) == IF i \in Params THEN [t EXCEPT !.binds[i] = v] ELSE t

\* Mutant: step yields one row too many before DONE.
StepOutcomesPastEnd(t) ==
    CASE t.st \in {"prepared", "row"} ->
            { IF t.cursor <= Rows
                THEN [rc |-> "ROW", next |-> [t EXCEPT !.st = "row", !.cursor = @ + 1, !.err = "OK"]]
                ELSE [rc |-> "DONE", next |-> [t EXCEPT !.st = "done", !.err = "OK"]],
              [rc |-> "BUSY", next |-> [t EXCEPT !.err = "BUSY"]],
              [rc |-> "ERROR", next |-> [t EXCEPT !.st = "failed", !.err = "ERROR"]] }
      [] t.st = "done"   -> { [rc |-> "DONE", next |-> t] }
      [] t.st = "failed" -> { [rc |-> "ERROR", next |-> t] }

(* step: the possible outcomes of one step, as [rc, next] records.         *)
(* A running statement yields its next row or DONE; a lock held by another *)
(* connection yields BUSY and leaves the cursor (retryable, spec 5); an    *)
(* I/O or constraint error leaves the statement failed until reset.        *)
(* DONE and a failure are sticky until reset (spec 8).                     *)
StepOutcomes(t) ==
    CASE t.st \in {"prepared", "row"} ->
            { IF t.cursor < Rows
                THEN [rc |-> "ROW", next |-> [t EXCEPT !.st = "row", !.cursor = @ + 1, !.err = "OK"]]
                ELSE [rc |-> "DONE", next |-> [t EXCEPT !.st = "done", !.err = "OK"]],
              [rc |-> "BUSY", next |-> [t EXCEPT !.err = "BUSY"]],
              [rc |-> "ERROR", next |-> [t EXCEPT !.st = "failed", !.err = "ERROR"]] }
      [] t.st = "done"   -> { [rc |-> "DONE", next |-> t] }
      [] t.st = "failed" -> { [rc |-> "ERROR", next |-> t] }

\* reset: reports the error of the last step (errors propagate unchanged,
\* spec 7), and returns the statement to its prepared state with the
\* cursor cleared and the bindings kept (spec 4.4 reset).
ResetResult(t) == t.err
AfterReset(t) == [t EXCEPT !.st = "prepared", !.cursor = 0, !.err = "OK"]

\* clear_bindings: every parameter back to NULL.
AfterClearBindings(t) == [t EXCEPT !.binds = NoBindings]

\* A zero-filled blob of a given length, as bindZeroBlob binds it.
ZeroBlob == "zeroblob"

\* Column access: the current row's value while on a row, and the
\* type-appropriate zero (SQL NULL, 0) otherwise (spec 4.4).  A column of
\* row k reads as k.
ColumnContent(t) == IF t.st = "row" THEN t.cursor ELSE 0
\* sqlite3_column_type's codes: SQLITE_INTEGER is 1, SQLITE_NULL is 5.
ColumnTypeOf(t) == IF t.st = "row" THEN 1 ELSE 5

\* The compiled SQL has one result column.
ColumnCount == 1

\* A statement is busy once it has stepped and until it is reset or has
\* run to completion (spec 4.4); sqlite3_stmt_busy returns 1 or 0.
StmtBusy(t) == IF t.st = "row" THEN 1 ELSE 0

\* close: refused with BUSY while a statement of the connection is live.
CloseResult == IF \E s \in Stmts : Live(s) THEN "BUSY" ELSE "OK"

(***************************************************************************)
(* Bridge.                                                                 *)
(***************************************************************************)
Init ==
    /\ db = "closed"
    /\ dbHeld = FALSE
    /\ stmt = [s \in Stmts |-> FreeStmt]
    /\ held = {}
    /\ cleared = [s \in Stmts |-> FALSE]
    /\ rc = "OK"
    /\ out = 0
    /\ lib \in Libs
    /\ loaded = FALSE
    /\ linked = "none"
    /\ thrown = "none"

\* openV2: sqlite3_open_v2, then the sqlite3* goes to the holder (JniErrors
\* models the holder that cannot be pinned).
openV2 ==
    /\ ~dbHeld /\ db = "closed"
    /\ \E r \in {"OK", "ERROR"} :
        /\ db' = IF r = "OK" THEN "open" ELSE "closed"
        /\ dbHeld' = (r = "OK")
        /\ rc' = r
    /\ UNCHANGED <<stmt, held, cleared, out>>

\* prepareV2(s): sqlite3_prepare_v2 allocates s (a syntax or schema error
\* allocates nothing), then the statement pointer goes to the holder.
prepareV2(s) ==
    /\ dbHeld /\ db = "open" /\ ~Live(s)
    /\ \E r \in {"OK", "ERROR"} :
        /\ stmt' = IF r = "OK" THEN [stmt EXCEPT ![s] = PreparedStmt] ELSE stmt
        /\ held' = IF r = "OK" THEN held \cup {s} ELSE held
        /\ rc' = r
    /\ cleared' = [cleared EXCEPT ![s] = FALSE]
    /\ UNCHANGED <<db, dbHeld, out>>

\* bindInt64 (bindInt and bindDouble are the same pass-through).
bindInt64(s, i, v) ==
    /\ s \in held
    /\ stmt' = [stmt EXCEPT ![s] = AfterBind(@, i, v)]
    /\ rc' = BindResult(stmt[s], i)
    /\ cleared' = [cleared EXCEPT ![s] = FALSE]
    /\ UNCHANGED <<db, dbHeld, held, out>>

\* bindNull.
bindNull(s, i) ==
    /\ s \in held
    /\ stmt' = [stmt EXCEPT ![s] = AfterBind(@, i, NULL)]
    /\ rc' = BindResult(stmt[s], i)
    /\ cleared' = [cleared EXCEPT ![s] = FALSE]
    /\ UNCHANGED <<db, dbHeld, held, out>>

\* The pinned-copy binds: the bridge pins the Java string (GetStringUTFChars)
\* or array (AutoJByteArray), which returns NULL when it cannot copy it;
\* the engine binds a NULL pointer as SQL NULL, and Java gets the pending
\* OutOfMemoryError.
BindPinned(s, i, v) ==
    /\ s \in held
    /\ \E copied \in BOOLEAN :
        stmt' = [stmt EXCEPT ![s] = AfterBind(@, i, IF copied THEN v ELSE NULL)]
    /\ rc' = BindResult(stmt[s], i)
    /\ cleared' = [cleared EXCEPT ![s] = FALSE]
    /\ UNCHANGED <<db, dbHeld, held, out>>

bindText(s, i, v) == BindPinned(s, i, v)

bindBlob(s, i, v) == BindPinned(s, i, v)

\* bindZeroBlob: sqlite3_bind_zeroblob, nothing to pin.
bindZeroBlob(s, i) ==
    /\ s \in held
    /\ stmt' = [stmt EXCEPT ![s] = AfterBind(@, i, ZeroBlob)]
    /\ rc' = BindResult(stmt[s], i)
    /\ cleared' = [cleared EXCEPT ![s] = FALSE]
    /\ UNCHANGED <<db, dbHeld, held, out>>

\* The read-only calls: their result goes to Java and nothing changes.
Read(s, result) ==
    /\ s \in held
    /\ out' = result
    /\ UNCHANGED <<db, dbHeld, stmt, held, cleared, rc>>

bindParameterCount(s) == Read(s, ParamCount)

columnCount(s) == Read(s, ColumnCount)

\* columnInt64 (columnInt and columnDouble are the same pass-through).
columnInt64(s) == Read(s, ColumnContent(stmt[s]))

columnType(s) == Read(s, ColumnTypeOf(stmt[s]))

statementBusy(s) == Read(s, StmtBusy(stmt[s]))

\* step: sqlite3_step.
step(s) ==
    /\ s \in held
    /\ \E o \in StepOutcomes(stmt[s]) :
        /\ stmt' = [stmt EXCEPT ![s] = o.next]
        /\ rc' = o.rc
    /\ UNCHANGED <<db, dbHeld, held, cleared, out>>

\* reset: sqlite3_reset.
reset(s) ==
    /\ s \in held
    /\ stmt' = [stmt EXCEPT ![s] = AfterReset(@)]
    /\ rc' = ResetResult(stmt[s])
    /\ UNCHANGED <<db, dbHeld, held, cleared, out>>

\* clearBindings.
clearBindings(s) ==
    /\ s \in held
    /\ stmt' = [stmt EXCEPT ![s] = AfterClearBindings(@)]
    /\ rc' = "OK"
    /\ UNCHANGED <<db, dbHeld, held, cleared, out>>

\* resetAndClearBindings: sqlite3_reset, and only when it returned
\* SQLITE_OK, sqlite3_clear_bindings.  The statement is reset either way.
resetAndClearBindings(s) ==
    LET r == ResetResult(stmt[s])
        t == AfterReset(stmt[s])
    IN /\ s \in held
       /\ stmt' = [stmt EXCEPT ![s] = IF r = "OK" THEN AfterClearBindings(t) ELSE t]
       /\ rc' = r
          /\ cleared' = [cleared EXCEPT ![s] = TRUE]
       /\ UNCHANGED <<db, dbHeld, held, out>>

\* finalize: sqlite3_finalize frees the statement whatever it returns (the
\* error of the last step); Java drops the handle.
finalize(s) ==
    /\ s \in held
    /\ stmt' = [stmt EXCEPT ![s] = FreeStmt]
    /\ held' = held \ {s}
    /\ rc' = stmt[s].err
    /\ cleared' = [cleared EXCEPT ![s] = FALSE]
    /\ UNCHANGED <<db, dbHeld, out>>

\* closeV2: sqlite3_close_v2 on the connection Java holds.
closeV2 ==
    /\ dbHeld
    /\ rc' = CloseResult
    /\ db' = IF CloseResult = "OK" THEN "closed" ELSE db
    /\ dbHeld' = (CloseResult # "OK")
    /\ UNCHANGED <<stmt, held, cleared, out>>

(***************************************************************************)
(* Loading the library and linking the natives.                            *)
(***************************************************************************)
\* The natives of this module, by the name Java calls them.
StmtNatives ==
    {"openV2", "closeV2", "prepareV2", "step", "reset", "clearBindings",
     "resetAndClearBindings", "finalize", "bindNull", "bindZeroBlob",
     "bindInt64", "bindText", "bindBlob", "bindParameterCount",
     "columnCount", "columnInt64", "columnType", "statementBusy"}

\* The names src/SQLite3's kMethods table registers.
kMethods ==
    {"bindBlob", "bindDouble", "bindInt", "bindInt64", "bindNull",
     "bindParameterCount", "bindText", "busyTimeout", "changes",
     "clearBindings", "closeV2", "columnBlob", "columnCount", "columnDouble",
     "columnInt", "columnInt64", "columnName", "columnText", "columnType",
     "columnValue", "databaseHandle", "databaseReadOnly", "databaseStatus",
     "errorCode", "errorMessage", "exec", "expandedSql", "extendedErrorCode",
     "extendedResultCodes", "finalize", "getAutocommit", "gitCommit", "key",
     "lastInsertRowId", "libVersion", "libVersionNumber", "nativeInit",
     "openV2", "prepareV2", "rekey", "reset", "sql", "statementReadOnly",
     "statementStatus", "step", "threadsafe", "traceV2", "valueDup",
     "valueFree", "valueFromBind", "walAutocheckpoint", "walCheckpointV2"}

\* JNI_OnLoad: JNI_ERR when GetEnv fails; src/SQLite3's also when FindClass
\* or RegisterNatives fails.  On JNI_ERR System.loadLibrary throws
\* UnsatisfiedLinkError and no native is bound.
JNI_OnLoad ==
    /\ ~loaded
    /\ loaded' = TRUE
    /\ \E ok \in BOOLEAN :
        /\ linked' = IF ~ok THEN "none"
                     ELSE IF lib = "SQLite3" THEN "kMethods" ELSE "exports"
        /\ thrown' = IF ok THEN "none" ELSE "UnsatisfiedLinkError"
    /\ UNCHANGED <<engine, lib>>

\* The natives bound: src/selekt-sqlite3's are exported, and every one of
\* this module is found by name.
Bound(m) == CASE linked = "kMethods" -> m \in kMethods
              [] linked = "exports"  -> m \in StmtNatives
              [] OTHER               -> FALSE

\* Java calls native m, which is bound: the bridge's code A runs.
Call(m, A) ==
    /\ loaded /\ Bound(m)
    /\ A
    /\ thrown' = "none"
    /\ UNCHANGED <<lib, loaded, linked>>

\* Java calls native m, which is not bound.
Unlinked(m) ==
    /\ loaded /\ ~Bound(m)
    /\ thrown' = "UnsatisfiedLinkError"
    /\ UNCHANGED <<engine, lib, loaded, linked>>

(***************************************************************************)
(* src/SQLite3's natives.  Each does what its namesake of src/selekt-      *)
(* sqlite3 does: the same engine call, the same updateHolder, the same     *)
(* AutoJByteArray.  jni_bind_text converts through AutoJString, whose      *)
(* header is not in the repository; its string is copied or NULL as with  *)
(* GetStringUTFChars.                                                      *)
(***************************************************************************)
jni_open_v2 == openV2
jni_prepare_v2(s) == prepareV2(s)
jni_bind_int64(s, i, v) == bindInt64(s, i, v)
jni_bind_null(s, i) == bindNull(s, i)
jni_bind_text(s, i, v) == BindPinned(s, i, v)
jni_bind_blob(s, i, v) == BindPinned(s, i, v)
jni_bind_parameter_count(s) == Read(s, ParamCount)
jni_column_count(s) == Read(s, ColumnCount)
jni_column_int64(s) == Read(s, ColumnContent(stmt[s]))
jni_column_type(s) == Read(s, ColumnTypeOf(stmt[s]))
jni_step(s) == step(s)
jni_reset(s) == reset(s)
jni_clear_bindings(s) == clearBindings(s)
jni_finalize(s) == finalize(s)
jni_close_v2 == closeV2

SelektNext ==
    \/ Call("openV2", openV2)
    \/ Call("closeV2", closeV2)
    \/ \E s \in Stmts :
        \/ Call("prepareV2", prepareV2(s))
        \/ Call("step", step(s))
        \/ Call("reset", reset(s))
        \/ Call("clearBindings", clearBindings(s))
        \/ Call("resetAndClearBindings", resetAndClearBindings(s))
        \/ Call("finalize", finalize(s))
        \/ \E i \in BindIndices :
            \/ Call("bindNull", bindNull(s, i))
            \/ Call("bindZeroBlob", bindZeroBlob(s, i))
            \/ \E v \in Vals :
                \/ Call("bindInt64", bindInt64(s, i, v))
                \/ Call("bindText", bindText(s, i, v))
                \/ Call("bindBlob", bindBlob(s, i, v))
        \/ Call("bindParameterCount", bindParameterCount(s))
        \/ Call("columnCount", columnCount(s))
        \/ Call("columnInt64", columnInt64(s))
        \/ Call("columnType", columnType(s))
        \/ Call("statementBusy", statementBusy(s))

LegacyNext ==
    \/ Call("openV2", jni_open_v2)
    \/ Call("closeV2", jni_close_v2)
    \/ \E s \in Stmts :
        \/ Call("prepareV2", jni_prepare_v2(s))
        \/ Call("step", jni_step(s))
        \/ Call("reset", jni_reset(s))
        \/ Call("clearBindings", jni_clear_bindings(s))
        \/ Call("finalize", jni_finalize(s))
        \/ \E i \in BindIndices :
            \/ Call("bindNull", jni_bind_null(s, i))
            \/ \E v \in Vals :
                \/ Call("bindInt64", jni_bind_int64(s, i, v))
                \/ Call("bindText", jni_bind_text(s, i, v))
                \/ Call("bindBlob", jni_bind_blob(s, i, v))
        \/ Call("bindParameterCount", jni_bind_parameter_count(s))
        \/ Call("columnCount", jni_column_count(s))
        \/ Call("columnInt64", jni_column_int64(s))
        \/ Call("columnType", jni_column_type(s))

Next ==
    \/ JNI_OnLoad
    \/ \E m \in StmtNatives : Unlinked(m)
    \/ lib = "selekt-sqlite3" /\ SelektNext
    \/ lib = "SQLite3" /\ LegacyNext

Spec == Init /\ [][Next]_vars

(***************************************************************************)
(* Properties.                                                             *)
(***************************************************************************)
StmtRecord == [st : {"free", "prepared", "row", "done", "failed"},
               cursor : 0..Rows, binds : [Params -> Vals \cup {NULL, ZeroBlob}],
               err : {"OK", "BUSY", "ERROR"}]

TypeOK ==
    /\ db \in {"closed", "open"}
    /\ dbHeld \in BOOLEAN
    /\ stmt \in [Stmts -> StmtRecord]
    /\ held \subseteq Stmts
    /\ cleared \in [Stmts -> BOOLEAN]
    /\ rc \in Codes
    /\ out \in (0..Rows) \cup {ParamCount, ColumnCount, 1, 5}
    /\ lib \in Libs /\ loaded \in BOOLEAN
    /\ linked \in {"none", "kMethods", "exports"}
    /\ thrown \in {"none", "UnsatisfiedLinkError"}

\* After resetAndClearBindings, and until Java binds again, the statement
\* runs with every parameter NULL, so a cached statement reused after a
\* failed step cannot carry the previous caller's values.
ClearedMeansNoBindings ==
    \A s \in Stmts : cleared[s] => stmt[s].binds = NoBindings

=============================================================================
