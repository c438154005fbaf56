# TLA+ models of the Selekt native bridge

Selekt is an Android/JVM SQLite library with SQLCipher encryption. The C++
code in this repository is the JNI bridge between Kotlin and the engine:

- `src/selekt-sqlite3/sqlite3_jni.cpp` has one `Java_com_bloomberg_selekt_ExternalSQLite_*`
  entry point per engine call. Most are pass-throughs. The ones with logic
  of their own are:
  - `updateHolder`, which returns handles through a Java array;
  - `rawKey` / `keyConventionally`, which build a `PRAGMA key` statement;
  - `resetAndClearBindings`, two engine calls in one;
  - `databaseStatus`;
  - `columnBlob` and `newByteArray`;
  - the blob read and write calls, which pin a Java array and pass the
    engine a pointer into it;
  - the string calls, which convert between Java strings and C strings
    through JNI's "modified UTF-8".
- `src/SQLite3/sqlite3_jni.cpp` is an older variant of the same bridge. Its
  natives are static `jni_*` functions. `JNI_OnLoad` registers them on the
  `ExternalSQLite` class from the `kMethods` table. The current bridge's
  `JNI_OnLoad` registers nothing, so its natives resolve by their exported
  names. The legacy table lacks `resetAndClearBindings`, `bindZeroBlob`,
  `statementBusy`, `rawKey` and every blob call. It also spells one name
  `walAutocheckpoint`.
- `src/SQLite3/sqlite3/include/bloomberg/AutoJByteArray.h` pins a Java byte
  array for the key and blob-bind calls. `Throws.h` and `log.h` handle
  exceptions and logging.
- `src/Selektric/native_mocks.cpp` is a set of Android stand-ins (`Log`,
  `SystemProperties`, `VMRuntime`), registered by `nativeInit`, that let the
  Android library run on a desktop JVM.

The engine these calls drive is not in the repository: the page store, the
write-ahead log, the cipher layer, statements and blob streams. `spec.md`
describes it. Engine behaviour that the bridge relies on is modelled from
`spec.md` and marked `spec_modelled` in `PROJECT.json`. Every bridge action
is translated from the C++ source.

## How the parts interact

The Kotlin code sees native handles only as `long` values. The bridge
returns a new handle through `updateHolder`, which writes into a Java
array. Java keeps the handle and passes it back on every later call. Java
alone decides when to finalize or close a handle.

Because of this, the correctness of a call sequence depends on three things:

- what the engine does (`step`, `reset` and `close` semantics, errors that
  stick to a statement, blob handles expiring, the WAL and crashes);
- what the bridge does around it (early returns, what happens when a JNI
  allocation or pin fails, which pointer and length it passes on, how it
  converts strings);
- the order in which Java makes the calls, and, for the cipher, how calls
  of several connections on one file interleave.

## Two libraries

`Statement`, `Cipher`, `Holder` and `Blob` each have a variable `lib`. It
says which library the process loaded, and it is chosen in `Init`. Every
action of a legacy `jni_*` function is defined next to its namesake, which
it equals wherever the code is the same. The next-state relation offers
each library's natives only under that library. `Statement` also models
how natives get bound:

- `JNI_OnLoad` either succeeds or fails. On failure (`GetEnv`, `FindClass`
  or `RegisterNatives`) nothing is bound and `System.loadLibrary` throws.
- `Bound(m)` says whether native `m` is reachable: exported by the current
  library, or listed in `kMethods` for the legacy one.
- `Unlinked(m)` is a call to a native that is not bound. It throws
  `UnsatisfiedLinkError` and changes no engine state.

The runs therefore check every property under both bridges. That includes
sequences in which a call the legacy table lacks fails between calls that
work.

## Modules

| Module | Models | State | Actions |
|---|---|---|---|
| `Statement` | one connection and its statements through the JNI calls | `db`, `dbHeld` (Java has the `sqlite3*`), `stmt[s]` (lifecycle, row cursor, bindings, sticky error), `held`, `cleared[s]`, `rc`, `out` (result of the last read-only call) | `openV2`, `prepareV2`, `bindInt64` (also `bindInt`, `bindDouble`), `bindNull`, `bindText`, `bindBlob`, `bindZeroBlob`, `bindParameterCount`, `columnCount`, `columnInt64` (also `columnInt`, `columnDouble`), `columnType`, `statementBusy`, `step`, `reset`, `clearBindings`, `resetAndClearBindings`, `finalize`, `closeV2`; `JNI_OnLoad`, `Unlinked`, and the legacy `jni_*` twins |
| `RawKey` | `rawKey` (lines 48-74) statement by statement | `key` (jbyte values), `pc`, `sql` (the stack buffer, cell by cell), `i`, `execText`, `result` | `CheckLength`, `WritePrefix`, `FormatByte` (one loop iteration), `WriteSuffix`, `Exec`, `Wipe` |
| `Holder` | `updateHolder` storing a `size_t` into a Java array, for `databaseStatus` | `sizeT` (4 or 8), the array's bytes, the expected bytes, an out-of-bounds flag, `lib` | `databaseStatus`, the legacy `jni_db_status` (both `DbStatus` over their library's `updateHolder`) |
| `NativeMocks` | `native_mocks.cpp`, every native | `registered`, `initResult`, `asked`, `answer` | `nativeInit`, `native_get`, `native_get_int`, `native_get_boolean`, `println_native`, `is64Bit` |
| `Cipher` | `key`, `rekey`, `exec`, `walCheckpointV2` and `AutoJByteArray`, over several connections on one encrypted file with a WAL and crashes | `session[c]` (key of each connection), `file[p]` (key each page is encrypted under), `wal` (frames with commit marks), `lock`, `job[c]` (a rekey in progress), `rc[c]`, `crashes`, `lib` | `key`, `rekey`, `exec`, `walCheckpointV2` and the legacy `jni_key`, `jni_rekey`, `jni_exec`, `jni_wal_checkpoint_v2`; engine steps `RekeyPage`, `RekeyCommit`, `RekeyFail`, `Crash` |
| `Blob` | `blobOpen`, `blobRead`, `blobWrite`, `blobReopen`, `blobBytes`, `blobClose`, `columnBlob` with `newByteArray`, and `exec` changing rows under an open handle | `table`, `deleted`, `handle` (state, row, writable, the blob as the handle sees it), `java` (the Java array cell by cell), `expect`, `stray` (memory outside a Java array touched), `rc`, `column`, `lib` | one action per call; `bindBlob`'s read of the pinned array with Java's length; the legacy `jni_column_blob` and `jni_bind_blob` |
| `JniErrors` | the error paths of every native that makes a JNI call which can fail: its JNI calls in order, the throw helpers of `Throws.h`, `AutoJByteArray`'s pin and release, `updateHolder` and `newByteArray` | `ret`, what the last native did as it returns to Java: the native, the exception pending, the JNI functions it called while one was pending, whether a JNI call failed, whether a NULL was used as memory, whether an engine object was left without a handle in Java | one action per native: `openV2`, `prepareV2`, `blobOpen`, `blobRead`, `blobWrite`, `bindText`, `bindBlob`, `key`, `rekey`, `rawKey`, `keyConventionally`, `exec`, `databaseReadOnly`, `walCheckpointV2`, `databaseStatus`, `columnBlob`, `columnText`, `columnName`, `errorMessage`, `expandedSql`, `sql`, `libVersion`, `gitCommit`, and the legacy `jni_bind_blob`, `jni_key`, `jni_rekey`, `jni_column_blob`, `jni_db_status` and the legacy string returns |
| `JavaText` | `bindText` (`GetStringUTFChars`/`GetStringUTFLength`) and `columnText` (`NewStringUTF`) | `cell` (the stored bytes, the string and who wrote it), `java` (what the last call returned), `jvm` (HotSpot or ART, fixed per behaviour) | `Store` (bind and step), `EngineStore` (SQL or another client writes the text), `columnText`, `Lookup` (a query binding a string) |

`MCStatement`, `MCRawKey`, `MCNativeMocks` and `MCBlob` instantiate the
modules for TLC:

- `MCStatement` defines a symmetry over the statement slots.
- `MCRawKey` picks the byte values to try.
- `MCNativeMocks` gives the negative `int` defaults, which a `.cfg` cannot
  write.
- `MCBlob` defines a symmetry over byte values and rowids, which the model
  only copies and compares.

How the code's data is represented in the models:

- **`Statement`**:
  - A statement is a record: `st`, `cursor`, `binds` and `err`.
  - The engine's step result is a nondeterministic choice among the outcomes
    the spec allows: ROW or DONE by the cursor, BUSY, or an error. BUSY
    keeps the cursor and records the error, which `reset` then reports
    (spec §7).
  - `updateHolder` always hands the handle back here. Its failure is
    modelled in `JniErrors`, where a lost handle can be shown as a leak
    without leaving `Statement` with a connection no action can close.
  - `bindText` and `bindBlob` share `BindPinned`: a `GetStringUTFChars`
    or `AutoJByteArray` that returns NULL makes the engine bind SQL NULL.
  - The read-only calls return `jint`s (`SQLITE_INTEGER` 1, `SQLITE_NULL`
    5, busy 1/0), which is what `out` holds. A column of row k reads as k.
- **`RawKey`**:
  - C formatting is modelled by what it does. A `jbyte` is promoted to a
    32-bit int (`Word32Hex`) and printed as `%x` with zero padding
    (`Format02x`).
  - `snprintf` writes at most n-1 characters and then a NUL. `strcpy`
    copies the string and its terminator.
  - `sqlite3_exec` reads the buffer as a C string, up to the first NUL.
- **`Holder`**:
  - The Java array is a map from byte offsets to "byte k of value v".
  - A `size_t` store at element `offset` covers bytes
    `offset*sizeT .. offset*sizeT+sizeT-1`. Bytes past the end of the array
    are flagged as out of bounds.
- **`NativeMocks`**:
  - `MethodTable` maps each class to its natives. A native can be called
    once its class is registered.
  - `native_get_int` returns its `jint` default through a function
    declared `jboolean`. That is undefined in what the caller reads, so it
    is a choice between the value and its low byte (`GetIntReturns`).
- **`Cipher`**:
  - A page is abstracted to the key it is encrypted under, which is all the
    properties tell apart.
  - The WAL is a sequence of frames. A page's committed image is its last
    committed frame, else the file.
  - A rekey is one WAL transaction: one uncommitted frame per page, then
    the commit frame. A crash drops the uncommitted tail (spec 4.2).
  - `AutoJByteArray`'s pin is a choice between the key and NULL. The length
    is the caller's.
- **`Blob`**:
  - The Java array is modelled cell by cell, as is the pointer the bridge
    computes: `GetByteArrayElements` gives the array, a copy (copied back
    on release mode 0, dropped under `JNI_ABORT`) or NULL.
  - Cells before or past the array are not the array's: touching them sets
    `stray`. `bindBlob` reads Java's length from the pin, which may be one
    more than the array holds.
  - `newByteArray`'s unchecked `GetPrimitiveArrayCritical` can return NULL,
    and the `memcpy` then goes through it.
  - A row's blob has 0 to `MaxSize` bytes. The empty one stands for every
    value with no bytes (a zero-length blob, SQL NULL), for which
    `sqlite3_column_blob` returns NULL.
  - `column` holds what `columnBlob` returned, judged against the row's
    bytes: null with `OutOfMemoryError` pending (`oom`), null for a row
    with no bytes, null for a row with some (`lost`), exactly the row's
    bytes (an empty array for a row with none), or other bytes. It is reset
    by every other call.
- **`JniErrors`**:
  - A native is one step. Its JNI calls are composed in the code's order
    on a record (`Jni`, `Get`), since the pending exception belongs to
    the calling thread and no other native runs on it in between.
  - A JNI call that allocates (`GetStringUTFChars`,
    `GetPrimitiveArrayCritical`, `GetByteArrayElements`) succeeds or
    fails in one of the ways in `Failures`. It either returns NULL with
    `OutOfMemoryError` pending (the JNI specification) or returns NULL
    alone (HotSpot's `GetStringUTFChars`). `NewByteArray` and
    `NewStringUTF` throw when they fail.
  - `ExceptionSafe` lists the JNI functions the code calls that JNI allows
    with an exception pending: the three releases. Any other call in that
    state is recorded in `misused`.
  - The engine is abstract: whether it made an object is a free choice,
    and a NULL argument is passed on.
- **`JavaText`**:
  - Strings are sequences of code points, Java strings sequences of UTF-16
    units, stored text a sequence of bytes.
  - The encoders do the JVM's arithmetic: UTF-16 with surrogate pairs, and
    modified UTF-8 with U+0000 as `C0 80`. HotSpot's `GetStringUTFChars`
    encodes each surrogate as 3 bytes; ART's encodes a surrogate pair as
    the 4-byte UTF-8 of its character. SQLite's own text is standard UTF-8.
  - `NewStringUTF` on bytes that are not modified UTF-8 is undefined. The
    model gives what the two VMs do: HotSpot maps each byte of a 4-byte
    sequence to a char, ART decodes it to a surrogate pair. Whether a
    CheckJNI build aborts on such input differs between VM versions, so it
    is not modelled.

## Runs

| Run | Config | Expect | What it shows |
|---|---|---|---|
| `statement` | `MCStatement.cfg` | pass | Every JNI call sequence on one connection with two statement slots, two parameters, two rows and engine BUSY/ERROR, under either library, with a failed `JNI_OnLoad` and the legacy library's missing natives throwing. It checks `TypeOK` only, and fires every native of both libraries; it is the state space `reset_clear`'s violation lies in. The statement calls are pass-throughs to the engine, so their other properties would test the spec-modelled engine. 277,536 distinct states. |
| `reset_clear` | `MCStatementClear.cfg` | violation | `ClearedMeansNoBindings`. Trace: bind, step returns BUSY, then `resetAndClearBindings` returns BUSY. The early return at line 724 skips `sqlite3_clear_bindings`, so the old binding survives. |
| `jni_errors` | `MCJniErrors.cfg` | violation | `FailsCleanly`: a native whose JNI call failed returns with an exception pending, and makes no JNI call forbidden while one is pending. It also uses no NULL as memory and leaves no engine object Java cannot close. A trace: `openV2` whose `GetStringUTFChars` throws `OutOfMemoryError` calls `GetPrimitiveArrayCritical`, `FindClass` and `ThrowNew` with it pending. Enumerating the 121 reachable states reaches a violation in 21 natives: every failure path through `throwOutOfMemoryError`; `bindText`, `blobOpen` and `databaseStatus` calling on after a failure; leaks in `openV2`, `prepareV2` and `blobOpen`; a NULL used as memory in `blobRead`, `blobWrite`, `rawKey` and `columnBlob`; a silent success in `exec`, `databaseReadOnly`, `walCheckpointV2` and `bindText`. The natives that only return `NewStringUTF` fail cleanly. |
| `rawkey_format` | `MCRawKey.cfg` | pass | `KeyStatementWellFormed` holds for keys of length 1, 2 and 3 (2 is the accepted size) over bytes {-128, -1, 0, 10, 127}. `exec` runs only for the accepted size. It receives the full prefix, 2·KeySize hex digits and the suffix, with no NUL cutting the statement short. The buffer is all NUL on return. 535 distinct states. |
| `rawkey_encoding` | `MCRawKeyEncoding.cfg` | violation | `KeyEncodedExactly`. The key TLC's trace picks varies between runs: `<<-128, -128>>` (0x8080) and `<<-128, -1>>` (0x80ff) both reach `exec` as `x'ffff'`. Every byte of 0x80 or more becomes `ff`. |
| `db_status` | `MCHolder.cfg` | violation | `StatusReadBack`. `databaseStatus` writes `&current` and `&highWater`, not their values. With `sizeT = 8` the second store lands past the end of the `int[2]`. |
| `abi_props` | `MCNativeMocks.cfg` | violation | `AnswersAsTabled`. The ABI property mock answers the wrong string for every key. The same property also covers `getInt` and `getBoolean` answering their default. |
| `cipher` | `MCCipher.cfg` | pass | Two connections on one file with two pages, two keys, lengths 0 and 32, a NULL pin, up to 3 WAL frames and one crash, under either library. `TypeOK` says a connection only ever holds a key Java passed: the NULL pin and the nullptr of an empty rekey never become a connection's key. The engine's own promises (one committed key, an atomic rekey) are not checked: they would hold or fail by the spec-modelled engine alone. 50,590 distinct states. |
| `blob` | `MCBlob.cfg` | pass | A successful `blobRead` leaves the Java array holding the bytes read, whether the VM pinned or copied it (`JavaSeesRead`). `columnBlob`, on rows of 0, 1 and 2 bytes, hands Java exactly the row's bytes, null for a row with none, or null with `OutOfMemoryError` pending, and never null for a row with bytes (`ColumnBlobIsRow`). The legacy `jni_column_blob` hands an empty array for a row with none, which is the row's (empty) bytes. Both hold until memory outside an array has been touched; that case is `FailsCleanly`'s. 118,656 distinct states. |
| `blob_stray` | `MCBlobStray.cfg` | violation | `NoStrayAccess`, with pins that never fail. Trace: one `bindBlob` (or the legacy `jni_bind_blob`) with a length of 3 for a 2-byte array, which copies a byte from past the array and returns OK. `blobRead` has the same gap on the destination side: its offset is in the array, but offset plus length runs past its end (`blobOpen` on a 2-byte row, then `blobRead` of 2 bytes at destination offset 1 into a 2-byte array). |
| `text` | `MCJavaText.cfg` | pass | Strings over U+0000, 'A', 'é' and U+1F600 of up to 2 characters, on HotSpot and on ART. Text Java binds comes back from `columnText` as the same string (`RoundTrip`): each VM's `NewStringUTF` decodes what its `GetStringUTFChars` produced. |
| `text_lookup` | `MCJavaTextLookup.cfg` | violation | `TextIsString`: text in the column is the string it was written as, both for a query binding the string and for `columnText`. Both traces are on HotSpot. In the first, the engine stores U+1F600 as `F0 9F 98 80`, and a query binding the same Java string sends `ED A0 BD ED B8 80` and finds no match. In the second, `columnText` of that stored text returns four chars, one per byte. On ART both succeed for U+1F600. |

Each property of the passing runs has a mutant in `PROJECT.json` that TLC
catches:

- reading past the last row;
- a buffer without room for its NUL;
- `snprintf` with size 2;
- `key` taking a NULL pin as the key;
- `blobClose` keeping the handle;
- `blobRead` releasing with `JNI_ABORT`;
- `newByteArray` copying one byte short;
- `bindText` passing the UTF-16 length;
- ART's decoder returning a supplementary character as one unit.

### Bounds

- **Statement**:
  - Two statement slots are enough to interleave a prepare on one slot with
    a step or finalize on the other, and to try closing with one slot live.
  - Two parameters and one value allow a bound and an unbound parameter.
    The indices 0 and `ParamCount+1` exercise the range errors.
  - Two rows let a BUSY retry fall between rows and at the end of the scan.
- **RawKey**:
  - The real key size is 32. Every iteration of the loop does the same
    thing at a different offset, so a key of 2 bytes, with one shorter and
    one longer, covers the length check, both neighbouring writes and the
    suffix write.
  - Prefix and suffix keep their real lengths (14 and 2).
  - The byte values cover both sides of the sign boundary, zero and a
    single-digit value (which needs the padding).
- **Holder**: both `size_t` widths of the ABIs the library ships
  (armeabi-v7a and arm64-v8a).
- **Cipher**:
  - Two connections let one rekey while the other writes, keys or
    checkpoints.
  - Two pages let a crash fall between the pages of a rekey.
  - Three WAL frames hold a whole two-page rekey plus one write. The
    checkpoint empties the WAL again.
  - Key lengths 0 and 32 are the nullptr path and the accepted size.
    `KeyAccepted` rejects every other length the same way.
- **Blob**:
  - Two rows, blobs of 0 to 2 bytes and two byte values are enough for a
    reopen to another row, for an update that changes a handle's bytes, and
    for `columnBlob`'s three cases: no bytes, one byte (the `size > 0`
    boundary) and more.
  - A 3-byte Java array (2 bytes in `blob_stray`), with destination
    offsets 0 to 2 and lengths 1 and 2, reaches in-range and past-the-end
    reads and writes on both sides. A read can also leave a cell of the
    array untouched.
  - `MCBlob` sets the state constraint `BeforeStray`. States reached by a
    stray access are checked but not extended. `stray` guards no action,
    so their successors repeat those of the same state before the access,
    and past it `JavaSeesRead` and `ColumnBlobIsRow` promise nothing.
- **JniErrors**: each native runs once per step from a clean thread, so
  the state space is every combination of JNI outcomes of each native. It
  is complete, not bounded. `rawKey` is tried with the accepted length
  and one other.
- **JavaText**: one character from each UTF-8 length class. U+0000 is the
  one modified UTF-8 encodes differently. Two characters are enough to put
  a NUL or a surrogate pair inside a string. The two VMs are the two
  `GetStringUTFChars`/`NewStringUTF` pairs that differ.

### Fairness

No run checks a liveness property, and no specification assumes fairness.
The bridge has no threads or callbacks of its own: every native runs to its
return on Java's thread, so whatever must eventually happen is decided by
Java's calls or by the engine. Java's code is not in the repository, and a
promise of the engine (that `sqlite3_rekey` returns) would be checked
against the spec-modelled engine alone. The `Next` relations allow any
interleaving of Java's calls.

### Refinement

No run checks a refinement. The abstract specification worth having is the
cipher layer's promise (one committed key, an atomic rekey), and `Cipher`'s
implementation of it is the spec-modelled engine, not the bridge: the
bridge only decides which pointer and length reach `sqlite3_key` and
`sqlite3_rekey`, which `Cipher`'s `TypeOK` covers.

## Findings

The findings are listed in `PROJECT.json` with source lines:

- **Signed-byte hex encoding in `rawKey`** (line 68). Distinct raw keys
  collide.
- **`databaseStatus` writes addresses, out of bounds on 64-bit** (line 484;
  the legacy bridge has the same code at line 324).
- **Inverted `strcmp` tests in the `SystemProperties` mock**
  (`native_mocks.cpp:40`).
- **`get_int` returns its `jint` default through `jboolean`**
  (`native_mocks.cpp:63`). A default of -1 can read back as 255.
- **`resetAndClearBindings` keeps bindings after a failed step** (line 724).
- **The bridge's JNI error paths** (`jni_errors`):
  - handle leak when `updateHolder` cannot pin its array (line 28);
  - `throwOutOfMemoryError` called with `OutOfMemoryError` already
    pending (`Throws.h:21`);
  - `GetStringUTFLength` after a failed `GetStringUTFChars` (line 169);
  - `blobOpen`'s unchecked string calls (line 220);
  - `databaseStatus`'s second `updateHolder` (line 485);
  - `exec` and `walCheckpointV2` succeeding on a NULL string (line 523);
  - NULL + offset passed to the engine by `blobRead` and `blobWrite`
    (line 248).
- **`bindBlob` trusts Java's length** (line 94). `sqlite3_bind_blob`
  copies that many bytes from the pinned array, past its end when the
  length is larger. `blobRead` (line 251) checks its destination offset
  plus length against nothing either, and writes past the Java array with
  an OK return.
- **Text is stored as modified UTF-8, not UTF-8** (line 164). On HotSpot
  a Java string with a supplementary character, and on both VMs one with
  U+0000, does not equal the same text written by SQL or by another client.
- **Text is read back as modified UTF-8** (line 411). On HotSpot,
  `columnText` of a supplementary character written by SQL or another
  client returns one char per byte. ART decodes it.

## Not modelled, and why

- **`sqlite3_close_v2` zombie semantics.** The real `sqlite3_close_v2`
  returns OK with statements live and defers the close, which makes the
  connection a "zombie". `spec.md` §3 says close fails with Busy instead,
  and `Statement` follows the spec.
- **Value handles** (`columnValue`, `valueDup`, `valueFree`,
  `valueFromBind`). The bridge passes a `sqlite3_value*` through as a
  `long` and keeps no state. Whether a value is used after the step that
  invalidates it is decided only by Java's code, which is not in the
  repository, so any property would hold or fail by what the model lets
  Java do.
- **Diagnostics and process-wide calls.** `JniErrors` models the JNI
  call of those that return a string (`errorMessage`, `sql`,
  `expandedSql`, `libVersion`, `gitCommit`). The rest are not modelled:
  error codes, `changes`, status, memory limits,
  versions, `traceV2`, `busyTimeout`, `walAutoCheckpoint`, `getAutocommit`,
  `transactionState`. They are reads or settings with no
  bridge state. `traceV2`'s switch fallthrough only changes which log line
  is written, and only when `SELEKT_LOG` is defined.
- **Memory residue.** The key bytes are released with `JNI_ABORT` and
  never wiped. The model's state cannot show memory residue.
- **The legacy bridge's other natives.** The diagnostics above and the
  string reads are as unmodelled there as in the current bridge.
  `AutoJString`, which `jni_exec`, `jni_bind_text`, `jni_open_v2`,
  `jni_prepare_v2`, `jni_db_readonly` and `jni_wal_checkpoint_v2` use, is
  not in the repository. `Statement` and `Cipher` take it to copy the
  string or yield NULL, as `GetStringUTFChars` does. Whether it throws, and
  which JNI calls it makes after a failure, is unknown, so `JniErrors`
  leaves those natives out.
- **Which natives the Kotlin class declares.** The class is not in the
  repository, so `JNI_OnLoad`'s `RegisterNatives` is modelled as able to
  fail. That includes failing on the `walAutocheckpoint` spelling.
- **WAL concurrency beyond the cipher.** Reader snapshots, busy handlers
  and checkpoint modes other than passive are not modelled. `Cipher`'s
  exclusive lock and crash recovery are the parts the bridge's calls
  depend on.

## Plan for the remaining work

1. **`Wal`**: reader snapshots and a writer on one file, from spec §4.2 and
   §5, with `busyTimeout` and liveness of a BUSY retry, refined by a serial
   database.
2. **Composition**: `Statement` and `Blob` on one connection, so that a
   `step` of an UPDATE expires a blob handle through the statement
   machinery rather than through `exec`.
3. **Key length against the array**: `key` and `rekey` with a Java array
   shorter than the caller's length (the hazard at `AutoJByteArray.h:30`;
   `blob_stray` shows it for `bindBlob`).
