------------------------------- MODULE Cipher -------------------------------
(***************************************************************************)
(* Keying and rekeying an encrypted database through the JNI bridge, with  *)
(* several connections on one file and crashes.                            *)
(*                                                                         *)
(* The bridge (src/selekt-sqlite3/sqlite3_jni.cpp): key and rekey pin the  *)
(* Java key array through AutoJByteArray and pass it, with the caller's    *)
(* length, to sqlite3_key / sqlite3_rekey (rekey passes nullptr for a      *)
(* length of 0); exec runs a statement; walCheckpointV2 checkpoints.       *)
(*                                                                         *)
(* The engine is not in the repository and is modelled from spec.md:      *)
(* pages are written as WAL frames and a transaction is committed by its   *)
(* last frame (4.2); a key is accepted only as 32 bytes (6); rekey         *)
(* re-encrypts every page in one transaction under an exclusive lock       *)
(* (4.3, 5) and fails with IOError part-way (7); recovery on reopen drops  *)
(* the frames after the last commit (4.2).  A page is abstracted to the    *)
(* key it is encrypted under: that is all the properties tell apart.       *)
(***************************************************************************)
EXTENDS Integers, Sequences, FiniteSets

CONSTANTS
    Conns,       \* connections of the process, all on one database file
    Pages,       \* the database's pages
    Keys,        \* keys Java may supply
    NoKey,       \* a connection with no key set
    InitKey,     \* the key the database was created with
    NoConn,      \* nobody holds the exclusive lock
    NULL,        \* a null pointer
    KeyLengths,  \* lengths Java may pass with a key
    MaxFrames,   \* bound on the WAL's length (checkpoints shorten it)
    MaxCrashes   \* bound on crashes

ASSUME InitKey \in Keys /\ NoKey \notin Keys /\ NoConn \notin Conns

VARIABLES
    session,  \* the key each connection reads and writes with
    file,     \* the key each page of the main file is encrypted under
    wal,      \* the WAL: a sequence of frames
    lock,     \* the connection holding the exclusive (rekey) lock
    job,      \* a rekey in progress on each connection
    rc,       \* what the last call on each connection returned
    crashes,  \* crashes so far
    lib       \* the bridge library the process loaded

vars == <<session, file, wal, lock, job, rc, crashes, lib>>

\* src/selekt-sqlite3 exports the natives by name; src/SQLite3 registers
\* its kMethods table from JNI_OnLoad.
Libs == {"selekt-sqlite3", "SQLite3"}

Frame == [page : Pages, key : Keys, commit : BOOLEAN]
Idle == [st |-> "idle", new |-> NoKey, todo |-> {}]
KeySize == 32

(***************************************************************************)
(* Engine, from spec.md.                                                   *)
(***************************************************************************)
\* Index of the last commit frame of the WAL (0 if none).
LastCommit ==
    LET C == {i \in DOMAIN wal : wal[i].commit}
    IN IF C = {} THEN 0 ELSE CHOOSE i \in C : \A j \in C : j <= i

\* The committed image of page p: its last committed frame, else the file.
Image(p) ==
    LET F == {i \in 1..LastCommit : wal[i].page = p}
    IN IF F = {} THEN file[p] ELSE wal[CHOOSE i \in F : \A j \in F : j <= i].key

\* A connection keyed with k can read the committed database.
Readable(k) == \A p \in Pages : Image(p) = k

\* The key the committed database is encrypted under (NoKey if mixed).
CommittedKey ==
    IF \E k \in Keys : Readable(k) THEN CHOOSE k \in Keys : Readable(k) ELSE NoKey

\* sqlite3_key / sqlite3_rekey take a non-null key of exactly 32 bytes.
KeyAccepted(ptr, n) == ptr # NULL /\ n = KeySize

\* One page of the rekey transaction, written as an uncommitted frame.
RekeyPage(c) ==
    /\ job[c].st = "copy"
    /\ \E p \in job[c].todo :
        /\ job[c].todo # {p}
        /\ wal' = Append(wal, [page |-> p, key |-> job[c].new, commit |-> FALSE])
        /\ job' = [job EXCEPT ![c].todo = @ \ {p}]
    /\ UNCHANGED <<session, file, lock, rc, crashes, lib>>

\* The last page, in the frame that commits the transaction; the
\* connection switches to the new key, the lock is released and
\* sqlite3_rekey returns SQLITE_OK.
RekeyCommit(c) ==
    /\ job[c].st = "copy"
    /\ \E p \in job[c].todo :
        /\ job[c].todo = {p}
        /\ wal' = Append(wal, [page |-> p, key |-> job[c].new, commit |-> TRUE])
    /\ session' = [session EXCEPT ![c] = job[c].new]
    /\ lock' = NoConn
    /\ job' = [job EXCEPT ![c] = Idle]
    /\ rc' = [rc EXCEPT ![c] = "OK"]
    /\ UNCHANGED <<file, crashes, lib>>

\* An I/O error part-way: the transaction is rolled back (its frames
\* dropped) and sqlite3_rekey returns the error.
RekeyFail(c) ==
    /\ job[c].st = "copy"
    /\ wal' = SubSeq(wal, 1, LastCommit)
    /\ lock' = NoConn
    /\ job' = [job EXCEPT ![c] = Idle]
    /\ rc' = [rc EXCEPT ![c] = "IOERR"]
    /\ UNCHANGED <<session, file, crashes, lib>>

\* The process dies at any point, every call in flight included, and its
\* connections are opened again: keys and locks are lost, and recovery
\* drops the frames after the last commit.
Crash ==
    /\ crashes < MaxCrashes
    /\ session' = [c \in Conns |-> NoKey]
    /\ lock' = NoConn
    /\ job' = [c \in Conns |-> Idle]
    /\ rc' = [c \in Conns |-> "OK"]
    /\ crashes' = crashes + 1
    /\ wal' = SubSeq(wal, 1, LastCommit)
    /\ UNCHANGED <<file, lib>>

(***************************************************************************)
(* The bridge.                                                             *)
(***************************************************************************)
\* AutoJByteArray: GetByteArrayElements hands back the key's bytes, or
\* NULL (throwing OutOfMemoryError) and the constructor carries on.
Pin(k) == {k, NULL}

Init ==
    /\ session = [c \in Conns |-> NoKey]
    /\ file = [p \in Pages |-> InitKey]
    /\ wal = <<>>
    /\ lock = NoConn
    /\ job = [c \in Conns |-> Idle]
    /\ rc = [c \in Conns |-> "OK"]
    /\ crashes = 0
    /\ lib \in Libs

\* Mutant: a null key pointer taken as the key.
keyTakingNull(c) ==
    /\ job[c].st = "idle"
    /\ \E k \in Keys : \E n \in KeyLengths, ptr \in Pin(k) :
        \/ /\ n = KeySize
           /\ session' = [session EXCEPT ![c] = ptr]
           /\ rc' = [rc EXCEPT ![c] = "OK"]
        \/ /\ n # KeySize
           /\ rc' = [rc EXCEPT ![c] = "ERROR"]
           /\ UNCHANGED session
    /\ UNCHANGED <<file, wal, lock, job, crashes, lib>>

\* key: sqlite3_key(db, key, key.length()); the connection's mutex keeps
\* it from running while the connection is inside rekey.
key(c) ==
    /\ job[c].st = "idle"
    /\ \E k \in Keys : \E n \in KeyLengths, ptr \in Pin(k) :
        \/ /\ KeyAccepted(ptr, n)
           /\ session' = [session EXCEPT ![c] = k]
           /\ rc' = [rc EXCEPT ![c] = "OK"]
        \/ /\ ~KeyAccepted(ptr, n)
           /\ rc' = [rc EXCEPT ![c] = "ERROR"]
           /\ UNCHANGED session
    /\ UNCHANGED <<file, wal, lock, job, crashes, lib>>

\* rekey: nullptr for a length of 0, else the pinned key, to
\* sqlite3_rekey, which rejects the key, finds the lock taken, cannot read
\* the database with the connection's key, or takes the lock and starts
\* re-encrypting.
rekey(c) ==
    /\ job[c].st = "idle"
    /\ \E k \in Keys : \E n \in KeyLengths, pinned \in Pin(k) :
        LET arg == IF n = 0 THEN NULL ELSE pinned
        IN \/ /\ ~KeyAccepted(arg, n)
              /\ rc' = [rc EXCEPT ![c] = "ERROR"]
              /\ UNCHANGED <<lock, job>>
           \/ /\ KeyAccepted(arg, n) /\ lock # NoConn
              /\ rc' = [rc EXCEPT ![c] = "BUSY"]
              /\ UNCHANGED <<lock, job>>
           \/ /\ KeyAccepted(arg, n) /\ lock = NoConn /\ ~Readable(session[c])
              /\ rc' = [rc EXCEPT ![c] = "NOTADB"]
              /\ UNCHANGED <<lock, job>>
           \/ /\ KeyAccepted(arg, n) /\ lock = NoConn /\ Readable(session[c])
              /\ Len(wal) + Cardinality(Pages) <= MaxFrames
              /\ lock' = c
              /\ job' = [job EXCEPT ![c] = [st |-> "copy", new |-> k, todo |-> Pages]]
              /\ UNCHANGED rc
    /\ UNCHANGED <<session, file, wal, crashes, lib>>

\* exec of a one-page update.  GetStringUTFChars may fail, and
\* sqlite3_exec runs a NULL statement as an empty one.  Otherwise the
\* write waits for no one: it finds the lock taken, cannot read the
\* database with the connection's key, or commits one frame.
exec(c) ==
    /\ job[c].st = "idle"
    /\ \E p \in Pages, copied \in BOOLEAN :
        \/ /\ ~copied
           /\ rc' = [rc EXCEPT ![c] = "OK"]
           /\ UNCHANGED wal
        \/ /\ copied /\ lock # NoConn
           /\ rc' = [rc EXCEPT ![c] = "BUSY"]
           /\ UNCHANGED wal
        \/ /\ copied /\ lock = NoConn /\ ~Readable(session[c])
           /\ rc' = [rc EXCEPT ![c] = "NOTADB"]
           /\ UNCHANGED wal
        \/ /\ copied /\ lock = NoConn /\ Readable(session[c]) /\ Len(wal) < MaxFrames
           /\ wal' = Append(wal, [page |-> p, key |-> session[c], commit |-> TRUE])
           /\ rc' = [rc EXCEPT ![c] = "OK"]
    /\ UNCHANGED <<session, file, lock, job, crashes, lib>>

\* walCheckpointV2 (a passive checkpoint, whatever the database name):
\* the committed frames are copied into the file and dropped from the WAL;
\* frames of a transaction still open stay.
walCheckpointV2(c) ==
    /\ job[c].st = "idle"
    /\ file' = [p \in Pages |-> Image(p)]
    /\ wal' = SubSeq(wal, LastCommit + 1, Len(wal))
    /\ rc' = [rc EXCEPT ![c] = "OK"]
    /\ UNCHANGED <<session, lock, job, crashes, lib>>

\* The legacy bridge's natives (src/SQLite3/sqlite3_jni.cpp) make the same
\* calls: jni_key and jni_rekey pin the key through AutoJByteArray and
\* pass nullptr to sqlite3_rekey for a length of 0; jni_exec converts the
\* query through AutoJString, whose header is not in the repository and
\* which, like GetStringUTFChars, yields NULL when the copy fails;
\* jni_wal_checkpoint_v2 passes nullptr for a null name.
jni_key(c) == key(c)
jni_rekey(c) == rekey(c)
jni_exec(c) == exec(c)
jni_wal_checkpoint_v2(c) == walCheckpointV2(c)

\* The calls Java makes, bound to the library that was loaded.
Bridge(c) ==
    \/ lib = "selekt-sqlite3" /\ (key(c) \/ rekey(c) \/ exec(c) \/ walCheckpointV2(c))
    \/ lib = "SQLite3" /\ (jni_key(c) \/ jni_rekey(c) \/ jni_exec(c) \/ jni_wal_checkpoint_v2(c))

Next ==
    \/ Crash
    \/ \E c \in Conns :
        \/ Bridge(c)
        \/ RekeyPage(c) \/ RekeyCommit(c) \/ RekeyFail(c)

Spec == Init /\ [][Next]_vars

(***************************************************************************)
(* Properties.                                                             *)
(***************************************************************************)
TypeOK ==
    /\ session \in [Conns -> Keys \cup {NoKey}]
    /\ file \in [Pages -> Keys]
    /\ wal \in Seq(Frame)
    /\ lock \in Conns \cup {NoConn}
    /\ \A c \in Conns : job[c] = Idle \/
         (job[c].st = "copy" /\ job[c].new \in Keys /\ job[c].todo \subseteq Pages)
    /\ crashes \in 0..MaxCrashes
    /\ lib \in Libs

=============================================================================
