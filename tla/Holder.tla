------------------------------- MODULE Holder -------------------------------
(***************************************************************************)
(* How the JNI bridge hands results back through a Java array:             *)
(* updateHolder(env, array, offset, p) in src/selekt-sqlite3/sqlite3_jni.cpp *)
(* pins the array (GetPrimitiveArrayCritical), stores p as a size_t at     *)
(* element `offset` of a size_t view of it, and releases it with mode 0.   *)
(*                                                                         *)
(* openV2, prepareV2 and blobOpen pass a long[1] and a handle (modelled at *)
(* the level of handles in Statement); databaseStatus passes an int[2] and *)
(* the addresses of its locals current and highWater.                      *)
(* The array is modelled byte by byte, because the width of size_t is the  *)
(* build's (4 bytes on armeabi-v7a, 8 on arm64-v8a, the ABIs the bridge is *)
(* built for) and the element width is the array's.                        *)
(*                                                                         *)
(* The legacy bridge (src/SQLite3/sqlite3_jni.cpp) has its own copies of   *)
(* updateHolder and of the call, jni_db_status, registered from kMethods;  *)
(* which one Java reaches depends on the library the process loaded.       *)
(***************************************************************************)
EXTENDS Integers, Sequences

CONSTANTS
    StatusVals   \* values sqlite3_db_status reports for current / highWater

VARIABLES
    sizeT,       \* sizeof(size_t) of the build
    call,        \* the JNI call that last returned: "none" or "status"
    java,        \* the bytes of the array Java passed, after the call
    expected,    \* what Java reads back when the call did its job
    outOfBounds, \* a store of the call fell outside the Java array
    lib          \* the bridge library the process loaded

vars == <<sizeT, call, java, expected, outOfBounds, lib>>

Libs == {"selekt-sqlite3", "SQLite3"}

\* A byte is byte k (0 = least significant) of a value, or zero.
Zero == [v |-> "zero", k |-> 0]
ByteOf(v, k) == [v |-> v, k |-> k]

\* A fresh Java array of n bytes (new int[2] is zeroed).
NewArray(n) == [k \in 0..(n - 1) |-> Zero]

\* Store the size_t p at element `offset` of the size_t view of arr; bytes
\* past the end of the array are lost to Java and land in whatever memory
\* follows it.
StoreSizeT(arr, offset, p) ==
    LET at == offset * sizeT
    IN [k \in DOMAIN arr |-> IF k \in at..(at + sizeT - 1) THEN ByteOf(p, k - at) ELSE arr[k]]
StoreOutOfBounds(arr, offset) == (offset + 1) * sizeT - 1 \notin DOMAIN arr

\* updateHolder once the array is pinned: the store, and the release with
\* mode 0, which leaves Java the stored bytes whether the VM pinned the
\* array or handed out a copy.
updateHolder(arr, offset, p) ==
    [arr |-> StoreSizeT(arr, offset, p),
     oob |-> StoreOutOfBounds(arr, offset)]

\* The legacy bridge's updateHolder: the same statements.
jni_updateHolder(arr, offset, p) == updateHolder(arr, offset, p)

Init ==
    /\ sizeT \in {4, 8}
    /\ call = "none"
    /\ java = NewArray(8)
    /\ expected = NewArray(8)
    /\ outOfBounds = FALSE
    /\ lib \in Libs

\* sqlite3_db_status fills current and highWater, then
\* U(env, holder, 0, &current); U(env, holder, 1, &highWater) on Java's
\* int[2], with U the updateHolder of library l.
DbStatus(l) ==
    \E cur \in StatusVals, hw \in StatusVals :
        LET U(arr, offset, p) == IF l = "SQLite3" THEN jni_updateHolder(arr, offset, p)
                                 ELSE updateHolder(arr, offset, p)
            u1 == U(NewArray(8), 0, "&current")
            u2 == U(u1.arr, 1, "&highWater")
        IN /\ call' = "status"
           /\ java' = u2.arr
           /\ expected' = [k \in 0..7 |-> IF k < 4 THEN ByteOf(cur, k) ELSE ByteOf(hw, k - 4)]
           /\ outOfBounds' = u1.oob \/ u2.oob
           /\ UNCHANGED <<sizeT, lib>>

\* databaseStatus, in src/selekt-sqlite3.
databaseStatus == DbStatus("selekt-sqlite3")

\* jni_db_status, its legacy twin in src/SQLite3.
jni_db_status == DbStatus("SQLite3")

Next == \/ lib = "selekt-sqlite3" /\ databaseStatus
        \/ lib = "SQLite3" /\ jni_db_status

Spec == Init /\ [][Next]_vars

(***************************************************************************)
(* Properties.                                                             *)
(***************************************************************************)
\* After databaseStatus the int[2] holds the current and high-water values
\* sqlite3_db_status reported, and nothing was written outside it.
StatusReadBack ==
    call = "status" => java = expected /\ ~outOfBounds

=============================================================================
