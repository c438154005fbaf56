-------------------------------- MODULE Blob --------------------------------
(***************************************************************************)
(* Incremental blob I/O through the JNI bridge: blobOpen, blobRead,        *)
(* blobWrite, blobReopen, blobBytes and blobClose of                       *)
(* src/selekt-sqlite3/sqlite3_jni.cpp, on one blob handle, with statements *)
(* of the same connection updating and deleting rows under it (exec).      *)
(*                                                                         *)
(* The Java byte array is modelled cell by cell, and so is the way the     *)
(* bridge reaches it: GetByteArrayElements hands back the array itself, a  *)
(* copy that ReleaseByteArrayElements copies back (mode 0) or drops        *)
(* (JNI_ABORT), or NULL; the bridge adds Java's offset to that pointer     *)
(* and the engine reads or writes `length` bytes from there.               *)
(*                                                                         *)
(* The blob stream is not in the repository and is modelled from spec.md   *)
(* 4.5: the size is fixed at open, read and write past it fail, the handle *)
(* becomes invalid (SQLITE_ABORT) when its row is changed or deleted by a  *)
(* statement, and reopen moves it to another row.                          *)
(***************************************************************************)
EXTENDS Integers, Sequences

CONSTANTS
    Rows,        \* rowids of the table holding the blob column
    Vals,        \* byte values
    MaxSize,     \* longest blob a row may hold
    ArrLen,      \* length of the Java byte array
    Offsets,     \* blob offsets Java may pass
    DestOffsets, \* offsets into the Java array Java may pass
    Lengths,     \* lengths Java may pass
    PinCanFail     \* GetByteArrayElements may return NULL

ASSUME ArrLen \in Nat \ {0} /\ MaxSize \in Nat \ {0}

VARIABLES
    table,   \* each row's blob
    deleted, \* rows deleted
    handle,  \* the blob handle Java holds
    java,    \* the Java byte array
    expect,  \* what the Java array should hold after the reads so far
    stray,   \* native memory outside the Java array was read or written
    rc,      \* what the last call returned
    column,  \* what columnBlob returned to Java, if it was the last call, against the row's bytes
    lib      \* the bridge library the process loaded

vars == <<table, deleted, handle, java, expect, stray, rc, column, lib>>

\* src/selekt-sqlite3 exports the natives by name; src/SQLite3 registers
\* its kMethods table, which has columnBlob but none of the blob natives.
Libs == {"selekt-sqlite3", "SQLite3"}

NoHandle == [st |-> "none", row |-> "none", writable |-> FALSE, view |-> <<>>]
\* A row's blob; the empty one stands for every value with no bytes, for
\* which sqlite3_column_blob returns NULL (a zero-length blob, SQL NULL).
Content == UNION {[1..n -> Vals] : n \in 0..MaxSize}

(***************************************************************************)
(* Blob stream, from spec.md 4.5.                                          *)
(***************************************************************************)
\* read/write of [off, off + len) must lie within the blob.
InRange(h, off, len) == off >= 0 /\ len >= 0 /\ off + len <= Len(h.view)

\* The bytes [off, off + len) of a blob.
Slice(b, off, len) == [k \in 1..len |-> b[off + k]]

\* A statement changing or deleting row r expires a handle open on it.
Expire(h, r) == IF h.st = "open" /\ h.row = r THEN [h EXCEPT !.st = "aborted"] ELSE h

(***************************************************************************)
(* Native memory around the Java array.                                    *)
(***************************************************************************)
\* Cells at + 0 .. at + Len(bs) - 1 of arr set to bs; those outside the
\* array are lost to it.
CopyInto(arr, at, bs) ==
    [k \in DOMAIN arr |-> IF k - at \in 1..Len(bs) THEN bs[k - at] ELSE arr[k]]

\* The len cells from at: bytes of the array, or of whatever lies past it.
CopyFrom(arr, at, len) ==
    [k \in 1..len |-> IF at + k - 1 \in DOMAIN arr THEN arr[at + k - 1] ELSE "junk"]

OutsideArray(at, len) == \E k \in at..(at + len - 1) : k \notin 0..(ArrLen - 1)

\* GetByteArrayElements: the array itself, a copy of it, or NULL.
PinModes == IF PinCanFail THEN {"direct", "copy", "null"} ELSE {"direct", "copy"}

Init ==
    /\ table \in [Rows -> Content]
    /\ deleted = {}
    /\ handle = NoHandle
    /\ java \in [0..(ArrLen - 1) -> Vals]
    /\ expect = java
    /\ stray = FALSE
    /\ rc = "OK"
    /\ column = "none"
    /\ lib \in Libs

(***************************************************************************)
(* The bridge.                                                             *)
(***************************************************************************)
\* blobOpen: sqlite3_blob_open on (table, column, row), then the handle to
\* the holder.  A deleted row is NotFound and no handle is made.  (JniErrors
\* models the holder that cannot be pinned.)
blobOpen ==
    /\ handle.st = "none"
    /\ \E r \in Rows, w \in BOOLEAN :
        \/ /\ r \in deleted
           /\ rc' = "ERROR"
           /\ UNCHANGED handle
        \/ /\ r \notin deleted
           /\ handle' = [st |-> "open", row |-> r, writable |-> w, view |-> table[r]]
           /\ rc' = "OK"
    /\ UNCHANGED <<table, deleted, java, expect, stray, lib>>
    /\ column' = "none"

\* Mutant: the destination released with JNI_ABORT.
blobReadAborting ==
    /\ handle.st # "none"
    /\ \E off \in Offsets, at \in DestOffsets, len \in Lengths, pin \in PinModes :
        LET ok == handle.st = "open" /\ InRange(handle, off, len)
            bs == Slice(handle.view, off, len)
        IN /\ rc' = IF handle.st = "aborted" THEN "ABORT" ELSE IF ok THEN "OK" ELSE "ERROR"
           /\ java' = IF ok /\ pin = "direct" THEN CopyInto(java, at, bs) ELSE java
           /\ expect' = IF ok THEN CopyInto(expect, at, Slice(table[handle.row], off, len)) ELSE expect
           /\ stray' = (stray \/ (ok /\ (pin = "null" \/ OutsideArray(at, len))))
    /\ UNCHANGED <<table, deleted, handle, lib>>
    /\ column' = "none"

\* blobRead: sqlite3_blob_read(blob, source + jDestinationOffset, jLength,
\* jOffset) into the pinned array, then ReleaseByteArrayElements mode 0,
\* which copies a copy back.  Through NULL, or past the end of the array,
\* the engine writes to memory that is not the array's.
blobRead ==
    /\ handle.st # "none"
    /\ \E off \in Offsets, at \in DestOffsets, len \in Lengths, pin \in PinModes :
        LET ok == handle.st = "open" /\ InRange(handle, off, len)
            bs == Slice(handle.view, off, len)
        IN /\ rc' = IF handle.st = "aborted" THEN "ABORT" ELSE IF ok THEN "OK" ELSE "ERROR"
           /\ java' = IF ok /\ pin # "null" THEN CopyInto(java, at, bs) ELSE java
           /\ expect' = IF ok THEN CopyInto(expect, at, Slice(table[handle.row], off, len)) ELSE expect
           /\ stray' = (stray \/ (ok /\ (pin = "null" \/ OutsideArray(at, len))))
    /\ UNCHANGED <<table, deleted, handle, lib>>
    /\ column' = "none"

\* blobWrite: sqlite3_blob_write(blob, source + jSourceOffset, jLength,
\* jOffset) from the pinned array, released with JNI_ABORT.  The row
\* changes in place and the handle keeps seeing it.
blobWrite ==
    /\ handle.st # "none"
    /\ \E off \in Offsets, at \in DestOffsets, len \in Lengths, pin \in PinModes :
        LET ok == handle.st = "open" /\ handle.writable /\ InRange(handle, off, len)
            bs == CopyFrom(java, at, len)
            new == [k \in DOMAIN handle.view |-> IF k - off \in 1..len THEN bs[k - off] ELSE handle.view[k]]
        IN /\ rc' = CASE handle.st = "aborted" -> "ABORT"
                      [] ~handle.writable      -> "READONLY"
                      [] ok                    -> "OK"
                      [] OTHER                 -> "ERROR"
           /\ handle' = IF ok THEN [handle EXCEPT !.view = new] ELSE handle
           /\ table' = IF ok THEN [table EXCEPT ![handle.row] = new] ELSE table
           /\ stray' = (stray \/ (ok /\ (pin = "null" \/ OutsideArray(at, len))))
    /\ UNCHANGED <<deleted, java, expect, lib>>
    /\ column' = "none"

\* bindBlob: AutoJByteArray pins Java's array with Java's length, not the
\* array's, and sqlite3_bind_blob copies that many bytes from the pin (a
\* NULL pin binds SQL NULL); the pin is released with JNI_ABORT.  The
\* bound value goes to a statement, which Statement models; here only
\* the memory it is read from.  Java may pass up to one past its array.
bindBlob ==
    /\ \E len \in 1..(ArrLen + 1), pin \in PinModes :
        stray' = (stray \/ (pin # "null" /\ OutsideArray(0, len)))
    /\ rc' = "OK"
    /\ UNCHANGED <<table, deleted, handle, java, expect, lib>>
    /\ column' = "none"

\* The legacy jni_bind_blob: the same statements.
jni_bind_blob == bindBlob

\* blobReopen: sqlite3_blob_reopen to another row; an aborted handle, or a
\* deleted row (which aborts the handle), gives an error.
blobReopen ==
    /\ handle.st # "none"
    /\ \E r \in Rows :
        \/ /\ handle.st = "aborted"
           /\ rc' = "ABORT"
           /\ UNCHANGED handle
        \/ /\ handle.st = "open" /\ r \in deleted
           /\ rc' = "ERROR"
           /\ handle' = [handle EXCEPT !.st = "aborted"]
        \/ /\ handle.st = "open" /\ r \notin deleted
           /\ rc' = "OK"
           /\ handle' = [handle EXCEPT !.row = r, !.view = table[r]]
    /\ UNCHANGED <<table, deleted, java, expect, stray, lib>>
    /\ column' = "none"

\* blobBytes: sqlite3_blob_bytes, the size fixed at open (0 once aborted).
blobBytes ==
    /\ handle.st # "none"
    /\ rc' = IF handle.st = "open" THEN Len(handle.view) ELSE 0
    /\ UNCHANGED <<table, deleted, handle, java, expect, stray, lib>>
    /\ column' = "none"

\* Mutant: the handle closed but still held.
blobCloseKeepingHandle ==
    /\ handle.st # "none"
    /\ handle' = [handle EXCEPT !.st = "closed"]
    /\ rc' = "OK"
    /\ UNCHANGED <<table, deleted, java, expect, stray, lib>>
    /\ column' = "none"

\* blobClose: sqlite3_blob_close releases the handle.
blobClose ==
    /\ handle.st # "none"
    /\ handle' = NoHandle
    /\ rc' = "OK"
    /\ UNCHANGED <<table, deleted, java, expect, stray, lib>>
    /\ column' = "none"

\* exec of an UPDATE or DELETE of one row by a statement of the same
\* connection (a NULL statement, when GetStringUTFChars fails, is empty).
exec ==
    /\ \E r \in Rows \ deleted, v \in Content, copied \in BOOLEAN :
        \/ /\ ~copied
           /\ UNCHANGED <<table, deleted, handle>>
        \/ /\ copied
           /\ table' = [table EXCEPT ![r] = v]
           /\ UNCHANGED deleted
           /\ handle' = Expire(handle, r)
        \/ /\ copied
           /\ deleted' = deleted \cup {r}
           /\ UNCHANGED table
           /\ handle' = Expire(handle, r)
    /\ rc' = "OK"
    /\ UNCHANGED <<java, expect, stray, lib>>
    /\ column' = "none"

\* Mutant: the copy one byte short.
newByteArrayShort(bs) ==
    LET n == Len(bs) IN
    {[null |-> FALSE, thrown |-> FALSE, bytes |-> [k \in 1..n |-> IF k < n THEN bs[k] ELSE "junk"], stray |-> FALSE]}
    \cup (IF PinCanFail THEN {[null |-> TRUE, thrown |-> TRUE, bytes |-> <<>>, stray |-> FALSE]} ELSE {})

\* newByteArray: NewByteArray(size), NULL with OutOfMemoryError pending;
\* then, for size > 0, memcpy into GetPrimitiveArrayCritical's pointer,
\* which is not checked: through NULL the copy goes to memory that is not
\* the array's and the array keeps its zeros.
newByteArray(bs) ==
    LET n == Len(bs) IN
    {[null |-> FALSE, thrown |-> FALSE, bytes |-> bs, stray |-> FALSE]}
    \cup (IF PinCanFail
           THEN {[null |-> TRUE, thrown |-> TRUE, bytes |-> <<>>, stray |-> FALSE]}
                \cup (IF n > 0 THEN {[null |-> FALSE, thrown |-> FALSE, bytes |-> [k \in 1..n |-> "zero"], stray |-> TRUE]}
                       ELSE {})
           ELSE {})

\* The nullptr a native returns without creating an array.
NoArray == [null |-> TRUE, thrown |-> FALSE, bytes |-> <<>>, stray |-> FALSE]

\* What Java got, against the row's bytes bs: null with OutOfMemoryError
\* pending, null for a row with no bytes, null for a row with some, an
\* array of exactly those bytes (empty for a row with none), or other bytes.
Returned(a, bs) ==
    CASE a.null /\ a.thrown -> "oom"
      [] a.null             -> IF bs = <<>> THEN "null" ELSE "lost"
      [] a.bytes = bs       -> "row"
      [] OTHER              -> "other"

\* columnBlob on a statement selecting row r: sqlite3_column_blob is NULL
\* for a zero-length blob, and off a row (the row was deleted, step
\* returned DONE); otherwise newByteArray of sqlite3_column_bytes.
columnBlob ==
    /\ \E r \in Rows :
        LET bs == IF r \in deleted THEN <<>> ELSE table[r]
        IN \E a \in IF bs = <<>> THEN {NoArray} ELSE newByteArray(bs) :
              /\ column' = Returned(a, bs)
              /\ stray' = (stray \/ a.stray)
    /\ UNCHANGED <<table, deleted, handle, java, expect, rc, lib>>

\* The legacy bridge's newByteArray (src/SQLite3): the same statements.
jni_newByteArray(bs) == newByteArray(bs)

\* jni_column_blob, the legacy columnBlob: newByteArray of
\* sqlite3_column_blob and sqlite3_column_bytes whether the pointer is NULL
\* or not, so a row with no bytes gives NewByteArray(0), an empty array.
jni_column_blob ==
    /\ \E r \in Rows :
        LET bs == IF r \in deleted THEN <<>> ELSE table[r]
        IN \E a \in jni_newByteArray(bs) :
              /\ column' = Returned(a, bs)
              /\ stray' = (stray \/ a.stray)
    /\ UNCHANGED <<table, deleted, handle, java, expect, rc, lib>>

\* Under the legacy library the blob natives are not registered: Java's
\* call throws UnsatisfiedLinkError and changes nothing.
Next ==
    \/ exec
    \/ /\ lib = "selekt-sqlite3"
       /\ \/ blobOpen \/ blobRead \/ blobWrite \/ blobReopen
          \/ blobBytes \/ blobClose \/ columnBlob \/ bindBlob
    \/ /\ lib = "SQLite3"
       /\ jni_column_blob \/ jni_bind_blob

Spec == Init /\ [][Next]_vars

(***************************************************************************)
(* Properties.                                                             *)
(***************************************************************************)
TypeOK ==
    /\ table \in [Rows -> Seq(Vals \cup {"junk"})]
    /\ deleted \subseteq Rows
    /\ handle.st \in {"none", "open", "aborted"} /\ handle.row \in Rows \cup {"none"}
    /\ handle.view \in Seq(Vals \cup {"junk"})
    /\ java \in [0..(ArrLen - 1) -> Vals \cup {"junk"}]
    /\ stray \in BOOLEAN
    /\ column \in {"none", "oom", "null", "lost", "row", "other"}
    /\ lib \in Libs

\* After every successful blobRead, Java's array holds the bytes the row
\* had in the range read, at the offset Java asked for, whether the VM
\* pinned the array or copied it (once memory outside the array has been
\* touched, nothing is promised).
JavaSeesRead == ~stray => java = expect

\* columnBlob, of either library, hands Java the bytes of the row the
\* statement is on: an array of exactly those bytes in order, null only
\* for a row with none (the bridge's comment: column_blob is NULL for a
\* zero-length blob) or an empty array for it (the legacy bridge), or
\* null with OutOfMemoryError pending.  A row's bytes are never lost to a
\* silent null nor changed.  An unchecked pin that wrote outside the array
\* is FailsCleanly's (JniErrors) and excluded here.
ColumnBlobIsRow ==
    ~stray => column \in {"none", "oom", "null", "row"}

\* The bridge only ever lets the engine read or write within the Java
\* array it was given.
NoStrayAccess == ~stray

=============================================================================
