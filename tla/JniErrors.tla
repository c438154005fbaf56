----------------------------- MODULE JniErrors -----------------------------
(***************************************************************************)
(* The error paths of the JNI bridge src/selekt-sqlite3/sqlite3_jni.cpp.   *)
(* Every native of the bridge is one step of a single Java thread: the     *)
(* exception the JVM holds pending for that thread is local to the call,   *)
(* and the step runs the native's JNI calls in the order the code makes    *)
(* them, each one that allocates either succeeding or failing in one of   *)
(* the ways the JVM may fail it.  The step leaves in ret what the call did *)
(* with the JNI protocol:                                                  *)
(*   pending  the exception Java sees when the native returns;             *)
(*   misused  the JNI functions called while an exception was pending,     *)
(*            other than those JNI allows then (CheckJNI aborts on them);  *)
(*   failed   a JNI call returned NULL for want of memory;                 *)
(*   nullUse  such a NULL was used as memory (memcpy, key[i], the engine); *)
(*   leaked   an engine object was made whose handle Java never received.  *)
(* The engine is abstract: whether sqlite3_open_v2, sqlite3_prepare_v2 or  *)
(* sqlite3_blob_open allocated an object is a free choice, as it is for    *)
(* arguments the JVM failed to supply.                                     *)
(***************************************************************************)
EXTENDS Naturals

CONSTANTS
    Failures    \* how an allocating JNI call may fail: "oom" returns NULL
                \* with OutOfMemoryError pending (the JNI specification),
                \* "null" returns NULL and throws nothing (HotSpot's
                \* GetStringUTFChars when it cannot allocate the copy)

ASSUME Failures \subseteq {"oom", "null"}

VARIABLE ret     \* what the last native call did, as it returns to Java

None == "none"

\* The outcomes of a JNI call that may fail, and of one that throws when it
\* fails (NewByteArray and NewStringUTF throw OutOfMemoryError).
Outcomes == {"ok"} \cup Failures
ThrowingOutcomes == {"ok", "oom"}

\* The JNI functions the code calls that JNI allows with an exception
\* pending; any other call in that state is undefined.
ExceptionSafe ==
    {"ReleaseStringUTFChars", "ReleasePrimitiveArrayCritical",
     "ReleaseByteArrayElements"}

SelektNatives ==
    {"openV2", "prepareV2", "blobOpen", "blobRead", "blobWrite", "bindText",
     "bindBlob", "key", "rekey", "rawKey", "keyConventionally", "exec",
     "databaseReadOnly", "walCheckpointV2", "databaseStatus", "columnBlob",
     "columnText", "columnName", "errorMessage", "expandedSql", "sql",
     "libVersion", "gitCommit"}

\* The natives of the legacy bridge src/SQLite3/sqlite3_jni.cpp whose JNI
\* calls are all in this repository (the others hold an AutoJString).
LegacyNatives ==
    {"jni_bind_blob", "jni_key", "jni_rekey", "jni_column_blob",
     "jni_db_status", "jni_git_commit", "jni_column_name", "jni_column_text",
     "jni_errmsg", "jni_expanded_sql", "jni_lib_version", "jni_sql"}

Natives == SelektNatives \cup LegacyNatives

JniFunctions ==
    ExceptionSafe \cup
    {"GetStringUTFChars", "GetStringUTFLength", "GetPrimitiveArrayCritical",
     "GetByteArrayElements", "NewByteArray", "NewStringUTF", "FindClass",
     "ThrowNew", "IsSameObject"}

Exceptions == {"OutOfMemoryError", "IllegalArgumentException"}

\* Key lengths Java may pass to rawKey: the accepted one and another.
KeyLengths == {16, 32}

Call == [native : Natives \cup {None}, pending : {None} \cup Exceptions,
         misused : SUBSET JniFunctions, failed : BOOLEAN, nullUse : BOOLEAN,
         leaked : BOOLEAN]

\* The state of a native as it is entered from Java: nothing pending.
Enter(n) ==
    [native |-> n, pending |-> None, misused |-> {}, failed |-> FALSE,
     nullUse |-> FALSE, leaked |-> FALSE]

\* A call of the JNI function fn.
Jni(j, fn) ==
    IF j.pending # None /\ fn \notin ExceptionSafe
    THEN [j EXCEPT !.misused = @ \cup {fn}]
    ELSE j

\* A call of a JNI function that allocates, with outcome o.
Get(j, fn, o) ==
    [Jni(j, fn) EXCEPT !.failed = @ \/ o # "ok",
                       !.pending = IF o = "oom" THEN "OutOfMemoryError" ELSE @]

\* A pointer the call obtained with outcome o is used as memory.
Deref(j, o) == IF o = "ok" THEN j ELSE [j EXCEPT !.nullUse = TRUE]

\* env->ThrowNew(env->FindClass(...), message).
ThrowNew(j, e) == [Jni(Jni(j, "FindClass"), "ThrowNew") EXCEPT !.pending = e]

throwOutOfMemoryError(j) == ThrowNew(j, "OutOfMemoryError")

throwIllegalArgumentException(j) == ThrowNew(j, "IllegalArgumentException")

\* updateHolder: pin the holder array, store the pointer and unpin it, or
\* throw OutOfMemoryError if the array could not be pinned.
updateHolder(j, o) ==
    LET k == Get(j, "GetPrimitiveArrayCritical", o)
    IN  IF o = "ok" THEN Jni(k, "ReleasePrimitiveArrayCritical")
                    ELSE throwOutOfMemoryError(k)

\* An engine object was created but its handle never reached the holder.
Handed(j, o, created) == [j EXCEPT !.leaked = created /\ o # "ok"]

\* newByteArray: allocate the Java array, then pin it and copy the bytes.
newByteArray(j, size, o1, o2) ==
    LET k == Get(j, "NewByteArray", o1)
    IN  IF o1 # "ok" THEN throwOutOfMemoryError(k)
        ELSE IF size > 0
             THEN Jni(Deref(Get(k, "GetPrimitiveArrayCritical", o2), o2),
                      "ReleasePrimitiveArrayCritical")
             ELSE k

\* The AutoJByteArray constructor pins the Java array and throws if it
\* cannot; its destructor releases it.
AutoJByteArray(j, o) ==
    LET k == Get(j, "GetByteArrayElements", o)
    IN  IF o = "ok" THEN k ELSE throwOutOfMemoryError(k)

AutoJByteArrayRelease(j) == Jni(j, "ReleaseByteArrayElements")

\* rawKey: reject a key that is not 32 bytes, else format it from the
\* pinned bytes (key[i]) and release them.
rawKey(j, keyLength, o) ==
    IF keyLength # 32 THEN throwIllegalArgumentException(j)
    ELSE AutoJByteArrayRelease(Deref(AutoJByteArray(j, o), o))

Return(j) == ret' = j
-----------------------------------------------------------------------------
\* Before Java has called a native.
Init == ret = Enter(None)

\* openV2 and prepareV2: the UTF-8 of Java's string, the engine call that
\* makes the object, the release, and updateHolder with the new handle.
StringThenHolder(n) ==
    \E o1, o2 \in Outcomes, created \in BOOLEAN :
        LET j1 == Get(Enter(n), "GetStringUTFChars", o1)
            j2 == Jni(j1, "ReleaseStringUTFChars")
        IN  Return(Handed(updateHolder(j2, o2), o2, created))

openV2 == StringThenHolder("openV2")

prepareV2 == StringThenHolder("prepareV2")

blobOpen ==
    \E o1, o2, o3, o4 \in Outcomes, created \in BOOLEAN :
        LET j1 == Get(Get(Get(Enter("blobOpen"), "GetStringUTFChars", o1),
                          "GetStringUTFChars", o2), "GetStringUTFChars", o3)
            j2 == Jni(Jni(Jni(j1, "ReleaseStringUTFChars"),
                          "ReleaseStringUTFChars"), "ReleaseStringUTFChars")
        IN  Return(Handed(updateHolder(j2, o4), o4, created))

\* blobRead and blobWrite hand the engine elements + offset unchecked.
PinnedBlobIO(n) ==
    \E o \in Outcomes :
        Return(Jni(Deref(Get(Enter(n), "GetByteArrayElements", o), o),
                   "ReleaseByteArrayElements"))

blobRead == PinnedBlobIO("blobRead")

blobWrite == PinnedBlobIO("blobWrite")

\* bindText passes env->GetStringUTFLength(jvalue) after GetStringUTFChars.
bindText ==
    \E o \in Outcomes :
        LET j1 == Get(Enter("bindText"), "GetStringUTFChars", o)
        IN  Return(Jni(Jni(j1, "GetStringUTFLength"), "ReleaseStringUTFChars"))

\* bindBlob, key and rekey hand the engine the AutoJByteArray, NULL when it
\* could not pin (sqlite3_bind_blob then binds NULL, and the codec refuses
\* a NULL key), and release it on return.
WithAutoJByteArray(n) ==
    \E o \in Outcomes :
        Return(AutoJByteArrayRelease(AutoJByteArray(Enter(n), o)))

bindBlob == WithAutoJByteArray("bindBlob")

key == WithAutoJByteArray("key")

rekey == WithAutoJByteArray("rekey")

RawKeyNative(n) ==
    \E len \in KeyLengths, o \in Outcomes : Return(rawKey(Enter(n), len, o))

keyConventionally == RawKeyNative("keyConventionally")

rawKeyNative == RawKeyNative("rawKey")

\* exec and databaseReadOnly: the UTF-8 of the string, the engine, release.
WithUTFChars(j) ==
    \E o \in Outcomes :
        Return(Jni(Get(j, "GetStringUTFChars", o), "ReleaseStringUTFChars"))

exec == WithUTFChars(Enter("exec"))

databaseReadOnly == WithUTFChars(Enter("databaseReadOnly"))

\* walCheckpointV2 checkpoints every schema for a null name.
walCheckpointV2 ==
    LET j == Jni(Enter("walCheckpointV2"), "IsSameObject")
    IN  \/ Return(j)
        \/ WithUTFChars(j)

\* databaseStatus calls updateHolder twice, whatever the first did.
databaseStatus ==
    \E o1, o2 \in Outcomes :
        Return(updateHolder(updateHolder(Enter("databaseStatus"), o1), o2))

\* columnBlob copies a blob of one or more bytes through newByteArray.
columnBlob ==
    \E hasBytes \in BOOLEAN, o1 \in ThrowingOutcomes, o2 \in Outcomes :
        Return(IF hasBytes THEN newByteArray(Enter("columnBlob"), 1, o1, o2)
                           ELSE Enter("columnBlob"))

\* The natives that return env->NewStringUTF of an engine string.
NewStringUTF(n) ==
    \E o \in ThrowingOutcomes : Return(Get(Enter(n), "NewStringUTF", o))

columnText == NewStringUTF("columnText")

columnName == NewStringUTF("columnName")

errorMessage == NewStringUTF("errorMessage")

expandedSql == NewStringUTF("expandedSql")

sql == NewStringUTF("sql")

libVersion == NewStringUTF("libVersion")

gitCommit == NewStringUTF("gitCommit")

(***************************************************************************)
(* The legacy bridge: the same helpers (updateHolder, newByteArray and     *)
(* AutoJByteArray), but jni_column_blob calls newByteArray for every       *)
(* column, NewByteArray(0) included.                                       *)
(***************************************************************************)
jni_bind_blob == WithAutoJByteArray("jni_bind_blob")

jni_key == WithAutoJByteArray("jni_key")

jni_rekey == WithAutoJByteArray("jni_rekey")

jni_column_blob ==
    \E size \in {0, 1}, o1 \in ThrowingOutcomes, o2 \in Outcomes :
        Return(newByteArray(Enter("jni_column_blob"), size, o1, o2))

jni_db_status ==
    \E o1, o2 \in Outcomes :
        Return(updateHolder(updateHolder(Enter("jni_db_status"), o1), o2))

jni_git_commit == NewStringUTF("jni_git_commit")

jni_column_name == NewStringUTF("jni_column_name")

jni_column_text == NewStringUTF("jni_column_text")

jni_errmsg == NewStringUTF("jni_errmsg")

jni_expanded_sql == NewStringUTF("jni_expanded_sql")

jni_lib_version == NewStringUTF("jni_lib_version")

jni_sql == NewStringUTF("jni_sql")

SelektNext ==
    \/ openV2 \/ prepareV2 \/ blobOpen \/ blobRead \/ blobWrite
    \/ bindText \/ bindBlob \/ key \/ rekey \/ keyConventionally
    \/ rawKeyNative \/ exec \/ databaseReadOnly \/ walCheckpointV2
    \/ databaseStatus \/ columnBlob \/ columnText \/ columnName
    \/ errorMessage \/ expandedSql \/ sql \/ libVersion \/ gitCommit

LegacyNext ==
    \/ jni_bind_blob \/ jni_key \/ jni_rekey \/ jni_column_blob
    \/ jni_db_status \/ jni_git_commit \/ jni_column_name
    \/ jni_column_text \/ jni_errmsg \/ jni_expanded_sql
    \/ jni_lib_version \/ jni_sql

\* Java calls the natives of either library, one call at a time.
Next == SelektNext \/ LegacyNext

Spec == Init /\ [][Next]_ret
-----------------------------------------------------------------------------
TypeOK == ret \in Call

\* A native whose JNI call failed returns with an exception pending, makes
\* no JNI call JNI forbids while one is pending, never uses the NULL it got
\* as memory, and leaves no engine object Java cannot close: the contract
\* throwOutOfMemoryError and updateHolder are written to keep.
FailsCleanly ==
    /\ ret.failed => ret.pending # None
    /\ ret.misused = {}
    /\ ~ret.nullUse
    /\ ~ret.leaked
=============================================================================
