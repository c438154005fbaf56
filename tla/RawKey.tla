------------------------------- MODULE RawKey -------------------------------
(***************************************************************************)
(* rawKey (src/selekt-sqlite3/sqlite3_jni.cpp), behind the JNI entry       *)
(* points rawKey and keyConventionally: it checks the key length, writes   *)
(*     PRAGMA key="x'<hex of the key>'"                                    *)
(* into a stack buffer one byte at a time with snprintf(.., 3, "%02x",     *)
(* key[i]), runs it with sqlite3_exec and zeroes the buffer.               *)
(*                                                                         *)
(* The buffer is modelled cell by cell because the properties are about   *)
(* what the formatting does: a cell holds a hex digit character "0".."f", *)
(* "pre" or "suf" for a character of the fixed prefix or suffix, "nul",    *)
(* or "junk" for the uninitialised contents of the array.                  *)
(***************************************************************************)
EXTENDS Integers, Sequences

CONSTANTS
    KeySize,      \* the only key length rawKey accepts (32 in the code)
    PrefixLen,    \* length of "PRAGMA key=\"x'" (14 in the code)
    SuffixLen,    \* length of "'\"" (2 in the code)
    ByteValues    \* the jbyte values Java's key array may hold

ASSUME KeySize \in Nat \ {0} /\ PrefixLen \in Nat /\ SuffixLen \in Nat
ASSUME ByteValues \subseteq -128..127

VARIABLES
    key,        \* the Java byte array; keyLength is its size
    pc,         \* the statement of rawKey about to run
    sql,        \* the buffer char sql[length + 1]
    i,          \* the loop index
    execText,   \* the C string sqlite3_exec received (<<>> before the call)
    result      \* rawKey's return value once pc = "done"

vars == <<key, pc, sql, i, execText, result>>

Length == PrefixLen + 2 * Len(key) + SuffixLen
\* The characters printf's %x writes for the digits 0..15.
HexChar == <<"0", "1", "2", "3", "4", "5", "6", "7",
             "8", "9", "a", "b", "c", "d", "e", "f">>
Hex == {HexChar[d] : d \in 1..16}
Cell == Hex \cup {"pre", "suf", "nul", "junk"}
Repeat(c, n) == [k \in 1..n |-> c]

(***************************************************************************)
(* The C library, by what it does.                                         *)
(***************************************************************************)
\* The eight hex digits of the 32-bit two's complement word holding the int
\* n, most significant first (floor division shifts like the hardware does).
Word32Hex(n) == [k \in 1..8 |-> HexChar[((n \div 16^(8 - k)) % 16) + 1]]

\* printf's %x drops leading zeros, keeping one digit.
RECURSIVE DropLeadingZeros(_)
DropLeadingZeros(d) ==
    IF Len(d) > 1 /\ Head(d) = "0" THEN DropLeadingZeros(Tail(d)) ELSE d

\* "%02x" of a jbyte: the char is promoted to int and printed as an
\* unsigned int, zero-padded to at least two digits.
Format02x(b) ==
    LET d == DropLeadingZeros(Word32Hex(b)) IN IF Len(d) < 2 THEN <<"0">> \o d ELSE d

\* snprintf(buf + at, n, ...) of the characters cs: at most n - 1 of them,
\* then a terminating NUL.
Snprintf(buf, at, n, cs) ==
    LET w == IF Len(cs) < n - 1 THEN Len(cs) ELSE n - 1
    IN [k \in DOMAIN buf |->
          IF k \in at..(at + w - 1) THEN cs[k - at + 1]
          ELSE IF k = at + w THEN "nul" ELSE buf[k]]

\* strcpy(buf + at, cs): the characters and a NUL after them.
Strcpy(buf, at, cs) == Snprintf(buf, at, Len(cs) + 1, cs)

\* The C string starting at buf[0]: the cells before the first NUL.
RECURSIVE CStringFrom(_, _)
CStringFrom(buf, k) ==
    IF k \notin DOMAIN buf \/ buf[k] = "nul" THEN <<>>
    ELSE <<buf[k]>> \o CStringFrom(buf, k + 1)
CString(buf) == CStringFrom(buf, 0)

(***************************************************************************)
(* rawKey, statement by statement.                                         *)
(***************************************************************************)
Init ==
    /\ key \in UNION {[1..n -> ByteValues] : n \in {KeySize - 1, KeySize, KeySize + 1}}
    /\ pc = "check"
    /\ sql = <<>>
    /\ i = 0
    /\ execText = <<>>
    /\ result = "none"

\* if (keyLength != 32) throw IllegalArgumentException, return SQLITE_ERROR.
CheckLength ==
    /\ pc = "check"
    /\ IF Len(key) # KeySize
         THEN pc' = "done" /\ result' = "ERROR"
         ELSE pc' = "prefix" /\ UNCHANGED result
    /\ UNCHANGED <<key, sql, i, execText>>

\* Mutant: the buffer sized without room for the terminating NUL.
WritePrefixNoTerminator ==
    /\ pc = "prefix"
    /\ sql' = Strcpy([k \in 0..(Length - 1) |-> "junk"], 0, Repeat("pre", PrefixLen))
    /\ pc' = "hex"
    /\ UNCHANGED <<key, i, execText, result>>

\* char sql[length + 1]; sql[length] = 0; strcpy(sql, prefix).
WritePrefix ==
    /\ pc = "prefix"
    /\ sql' = Strcpy([k \in 0..Length |-> IF k = Length THEN "nul" ELSE "junk"],
                     0, Repeat("pre", PrefixLen))
    /\ pc' = "hex"
    /\ UNCHANGED <<key, i, execText, result>>

\* Mutant: the byte written with a buffer size of 2.
FormatByteSize2 ==
    /\ pc = "hex"
    /\ IF i < Len(key)
         THEN /\ sql' = Snprintf(sql, PrefixLen + 2 * i, 2, Format02x(key[i + 1]))
              /\ i' = i + 1
              /\ UNCHANGED pc
         ELSE pc' = "suffix" /\ UNCHANGED <<sql, i>>
    /\ UNCHANGED <<key, execText, result>>

\* for (i = 0; i < keyLength; ++i) snprintf(hex + 2 * i, 3, "%02x", key[i]).
FormatByte ==
    /\ pc = "hex"
    /\ IF i < Len(key)
         THEN /\ sql' = Snprintf(sql, PrefixLen + 2 * i, 3, Format02x(key[i + 1]))
              /\ i' = i + 1
              /\ UNCHANGED pc
         ELSE pc' = "suffix" /\ UNCHANGED <<sql, i>>
    /\ UNCHANGED <<key, execText, result>>

\* strcpy(sql + length - suffix.length(), suffix).
WriteSuffix ==
    /\ pc = "suffix"
    /\ sql' = Strcpy(sql, Length - SuffixLen, Repeat("suf", SuffixLen))
    /\ pc' = "exec"
    /\ UNCHANGED <<key, i, execText, result>>

\* sqlite3_exec(db, sql, ...): the engine reads the C string.
Exec ==
    /\ pc = "exec"
    /\ execText' = CString(sql)
    /\ \E r \in {"OK", "ERROR"} : result' = r
    /\ pc' = "wipe"
    /\ UNCHANGED <<key, sql, i>>

\* std::fill(sql, sql + length + 1, 0); return result.
Wipe ==
    /\ pc = "wipe"
    /\ sql' = [k \in DOMAIN sql |-> "nul"]
    /\ pc' = "done"
    /\ UNCHANGED <<key, i, execText, result>>

Next == CheckLength \/ WritePrefix \/ FormatByte \/ WriteSuffix \/ Exec \/ Wipe

\* rawKey returns once pc = "done"; a returned call is left as it is.
Done == pc = "done" /\ UNCHANGED vars

Spec == Init /\ [][Next \/ Done]_vars

(***************************************************************************)
(* Properties.                                                             *)
(***************************************************************************)
TypeOK ==
    /\ key \in Seq(ByteValues)
    /\ pc \in {"check", "prefix", "hex", "suffix", "exec", "wipe", "done"}
    /\ sql = <<>> \/ (DOMAIN sql = 0..Length /\ \A k \in DOMAIN sql : sql[k] \in Cell)
    /\ i \in 0..Len(key)
    /\ execText \in Seq(Cell)
    /\ result \in {"none", "OK", "ERROR"}

\* The two hex digits a byte should become: its unsigned value in base 16.
HexByte(b) == <<HexChar[((b % 256) \div 16) + 1], HexChar[((b % 256) % 16) + 1]>>
RECURSIVE HexOf(_)
HexOf(ks) == IF ks = <<>> THEN <<>> ELSE HexByte(Head(ks)) \o HexOf(Tail(ks))

\* sqlite3_exec is only reached with a key of the accepted size, and then
\* receives the whole statement, prefix, 2 * KeySize hex digits and suffix,
\* with no NUL written by the formatting loop cutting it short; by the time
\* rawKey returns the buffer holds nothing but NULs.
KeyStatementWellFormed ==
    /\ execText # <<>> =>
         /\ Len(key) = KeySize
         /\ Len(execText) = Length
         /\ SubSeq(execText, 1, PrefixLen) = Repeat("pre", PrefixLen)
         /\ \A k \in 1..(2 * KeySize) : execText[PrefixLen + k] \in Hex
         /\ SubSeq(execText, Length - SuffixLen + 1, Length) = Repeat("suf", SuffixLen)
    /\ pc = "done" => \A k \in DOMAIN sql : sql[k] = "nul"

\* The hex digits sqlite3_exec receives are the key's bytes: two distinct
\* keys never become the same PRAGMA key statement.
KeyEncodedExactly ==
    execText # <<>> => SubSeq(execText, PrefixLen + 1, PrefixLen + 2 * Len(key)) = HexOf(key)

=============================================================================
