------------------------------ MODULE JavaText ------------------------------
(***************************************************************************)
(* Text between Java strings and SQLite text values, through the JNI       *)
(* string calls of the bridge (src/selekt-sqlite3/sqlite3_jni.cpp).        *)
(*                                                                         *)
(*   bindText   GetStringUTFChars / GetStringUTFLength: the string in JNI  *)
(*              "modified UTF-8" (U+0000 as C0 80; a supplementary         *)
(*              character as two 3-byte surrogates on HotSpot, as one      *)
(*              4-byte UTF-8 sequence on ART), bound with that length.     *)
(*   columnText sqlite3_column_text read as a C string by NewStringUTF,    *)
(*              which decodes modified UTF-8.                              *)
(* The process runs on one JVM, `jvm`, for the whole behaviour.            *)
(*                                                                         *)
(* A SQLite text value is UTF-8.  Text can also reach a column without     *)
(* the bridge: from the engine itself (char(), concatenation) or from      *)
(* another SQLite client of the same file; that text is standard UTF-8.    *)
(*                                                                         *)
(* Strings are sequences of code points (integers), Java strings sequences *)
(* of UTF-16 code units, and stored text a sequence of bytes 0..255; the   *)
(* encoders and decoders do the arithmetic the JVM and SQLite do.          *)
(***************************************************************************)
EXTENDS Integers, Sequences, SequencesExt

CONSTANTS
    CodePoints,   \* the characters strings are made of
    MaxChars,     \* longest string tried
    Jvms          \* JVMs whose string calls are modelled: "hotspot", "art"

VARIABLES
    cell,   \* the column: [bytes, text it was written as, by "bridge"/"engine"]
    java,   \* what the last JNI call returned to Java
    jvm     \* the JVM the process runs on

vars == <<cell, java, jvm>>

Strings == UNION {[1..n -> CodePoints] : n \in 0..MaxChars}

(***************************************************************************)
(* Java's String: UTF-16 code units, a supplementary character as a        *)
(* surrogate pair.                                                         *)
(***************************************************************************)
Utf16Of(cp) ==
    IF cp < 65536 THEN <<cp>>
    ELSE <<55296 + (cp - 65536) \div 1024, 56320 + ((cp - 65536) % 1024)>>

Utf16(s) == FlattenSeq([i \in DOMAIN s |-> Utf16Of(s[i])])

(***************************************************************************)
(* Standard UTF-8, the encoding SQLite's text values are in (engine).      *)
(***************************************************************************)
Utf8Of(cp) ==
    CASE cp < 128   -> <<cp>>
      [] cp < 2048  -> <<192 + cp \div 64, 128 + (cp % 64)>>
      [] cp < 65536 -> <<224 + cp \div 4096, 128 + ((cp \div 64) % 64), 128 + (cp % 64)>>
      [] OTHER      -> <<240 + cp \div 262144, 128 + ((cp \div 4096) % 64),
                         128 + ((cp \div 64) % 64), 128 + (cp % 64)>>

Utf8(s) == FlattenSeq([i \in DOMAIN s |-> Utf8Of(s[i])])

(***************************************************************************)
(* GetStringUTFChars: JNI modified UTF-8, code unit by code unit on        *)
(* HotSpot; ART encodes a high surrogate followed by a low one as the      *)
(* 4-byte UTF-8 of their character instead.                                *)
(***************************************************************************)
ModifiedUtf8Of(u) ==
    CASE u = 0     -> <<192, 128>>
      [] u < 128   -> <<u>>
      [] u < 2048  -> <<192 + u \div 64, 128 + (u % 64)>>
      [] OTHER     -> <<224 + u \div 4096, 128 + ((u \div 64) % 64), 128 + (u % 64)>>

IsHigh(u) == u \in 55296..56319
IsLow(u) == u \in 56320..57343

RECURSIVE GetStringUTFChars(_, _)
GetStringUTFChars(v, vm) ==
    IF v = <<>> THEN <<>>
    ELSE IF vm = "art" /\ Len(v) >= 2 /\ IsHigh(v[1]) /\ IsLow(v[2])
         THEN Utf8Of(65536 + (v[1] - 55296) * 1024 + (v[2] - 56320))
                \o GetStringUTFChars(Tail(Tail(v)), vm)
         ELSE ModifiedUtf8Of(v[1]) \o GetStringUTFChars(Tail(v), vm)

GetStringUTFLength(v, vm) == Len(GetStringUTFChars(v, vm))

(***************************************************************************)
(* The bytes sqlite3_bind_text receives for the Java string of s.  A bug   *)
(* that passes the UTF-16 length (GetStringLength) is defined first.       *)
(***************************************************************************)
bindTextUtf16Length(s, vm) ==
    LET v == Utf16(s) IN SubSeq(GetStringUTFChars(v, vm), 1, Len(v))

bindText(s, vm) ==
    LET v == Utf16(s) IN SubSeq(GetStringUTFChars(v, vm), 1, GetStringUTFLength(v, vm))

(***************************************************************************)
(* sqlite3_column_text's result read as a C string: up to the first NUL.   *)
(***************************************************************************)
CString(bs) ==
    LET z == SelectInSeq(bs, LAMBDA b : b = 0)
    IN  IF z = 0 THEN bs ELSE SubSeq(bs, 1, z - 1)

(***************************************************************************)
(* NewStringUTF's decoder.  Well-formed modified UTF-8 decodes the same    *)
(* on every JVM.  A 4-byte UTF-8 sequence is not modified UTF-8: HotSpot   *)
(* turns each of its bytes into the character of that value, ART turns it *)
(* into the surrogate pair.                                                *)
(***************************************************************************)
\* Mutant: ART's decoder returning a supplementary character as one unit.
RECURSIVE DecodeWhole(_, _)
DecodeWhole(bs, vm) ==
    IF bs = <<>> THEN <<>>
    ELSE LET x == bs[1]
             Cont(k) == Len(bs) >= k /\ \A i \in 2..k : bs[i] \div 64 = 2
             Rest(k) == DecodeWhole(SubSeq(bs, k + 1, Len(bs)), vm)
         IN CASE x < 128 -> <<x>> \o Rest(1)
              [] x \div 32 = 6 /\ Cont(2) ->
                    <<(x % 32) * 64 + (bs[2] % 64)>> \o Rest(2)
              [] x \div 16 = 14 /\ Cont(3) ->
                    <<(x % 16) * 4096 + (bs[2] % 64) * 64 + (bs[3] % 64)>> \o Rest(3)
              [] x \div 8 = 30 /\ Cont(4) /\ vm = "art" ->
                    <<(x % 8) * 262144 + (bs[2] % 64) * 4096
                      + (bs[3] % 64) * 64 + (bs[4] % 64)>> \o Rest(4)
              [] OTHER -> <<x>> \o Rest(1)

RECURSIVE Decode(_, _)
Decode(bs, vm) ==
    IF bs = <<>> THEN <<>>
    ELSE LET x == bs[1]
             Cont(k) == Len(bs) >= k /\ \A i \in 2..k : bs[i] \div 64 = 2
             Rest(k) == Decode(SubSeq(bs, k + 1, Len(bs)), vm)
         IN CASE x < 128 -> <<x>> \o Rest(1)
              [] x \div 32 = 6 /\ Cont(2) ->
                    <<(x % 32) * 64 + (bs[2] % 64)>> \o Rest(2)
              [] x \div 16 = 14 /\ Cont(3) ->
                    <<(x % 16) * 4096 + (bs[2] % 64) * 64 + (bs[3] % 64)>> \o Rest(3)
              [] x \div 8 = 30 /\ Cont(4) /\ vm = "art" ->
                    Utf16Of((x % 8) * 262144 + (bs[2] % 64) * 4096
                            + (bs[3] % 64) * 64 + (bs[4] % 64)) \o Rest(4)
              [] OTHER -> <<x>> \o Rest(1)

NewStringUTF(bs, vm) == Decode(bs, vm)

(***************************************************************************)
(* Engine: a text value produced by SQL (char(), ||) or by another client  *)
(* is UTF-8; a comparison under the BINARY collation compares bytes.       *)
(***************************************************************************)
EngineText(s) == Utf8(s)

TextEqual(a, b) == a = b

NoResult == [op |-> "none", units |-> <<>>, text |-> <<>>,
             by |-> "engine", query |-> <<>>, found |-> FALSE]

Init ==
    /\ cell = [bytes |-> <<>>, text |-> <<>>, by |-> "engine"]
    /\ java = NoResult
    /\ jvm \in Jvms

\* UPDATE t SET v = ?: bindText, then step stores the bound bytes.
Store(s) ==
    /\ cell' = [bytes |-> bindText(s, jvm), text |-> s, by |-> "bridge"]
    /\ UNCHANGED <<java, jvm>>

\* The engine, or another client of the file, writes the text s.
EngineStore(s) ==
    /\ cell' = [bytes |-> EngineText(s), text |-> s, by |-> "engine"]
    /\ UNCHANGED <<java, jvm>>

\* step onto the row, then columnText.
columnText ==
    /\ java' = [NoResult EXCEPT !.op = "columnText", !.units = NewStringUTF(CString(cell.bytes), jvm),
                   !.text = cell.text, !.by = cell.by]
    /\ UNCHANGED <<cell, jvm>>

\* SELECT ... WHERE v = ?: bindText of q, step compares it with the column.
Lookup(q) ==
    /\ java' = [NoResult EXCEPT !.op = "lookup", !.text = cell.text, !.by = cell.by,
                   !.query = q, !.found = TextEqual(bindText(q, jvm), cell.bytes)]
    /\ UNCHANGED <<cell, jvm>>

Next ==
    \/ \E s \in Strings : Store(s) \/ EngineStore(s) \/ Lookup(s)
    \/ columnText

Spec == Init /\ [][Next]_vars

-----------------------------------------------------------------------------
(* Properties *)

\* The column holds bytes, and Java holds UTF-16 code units.
TypeOK ==
    /\ cell.bytes \in Seq(0..255)
    /\ cell.text \in Strings
    /\ java.units \in Seq(0..65535)
    /\ java.op \in {"none", "columnText", "lookup"}
    /\ jvm \in Jvms

\* Text Java bound with bindText comes back from columnText as the same
\* string, on HotSpot and on ART: the length bindText passes covers the
\* whole form GetStringUTFChars produced, and NewStringUTF of the same JVM
\* decodes it.
RoundTrip ==
    java.op = "columnText" /\ java.by = "bridge" =>
        java.units = Utf16(java.text)

\* Text in the column is the string it was written as, whoever wrote it
\* (spec: a Text value is the string): a query that binds a string with
\* bindText finds the column exactly when the column holds that string,
\* and columnText returns the string, also for text the engine wrote.
TextIsString ==
    /\ java.op = "lookup" => (java.found <=> java.query = java.text)
    /\ java.op = "columnText" => java.units = Utf16(java.text)

=============================================================================
