---------------------------- MODULE NativeMocks ----------------------------
(***************************************************************************)
(* The Android stand-ins of src/Selektric/native_mocks.cpp, which let the  *)
(* Android library run on a desktop JVM under test: nativeInit registers   *)
(* native methods on android.util.Log, android.os.SystemProperties and     *)
(* dalvik.system.VMRuntime, and SystemProperties.native_get answers the    *)
(* three CPU ABI properties.                                               *)
(***************************************************************************)
EXTENDS Integers, Sequences

CONSTANTS
    Keys,       \* property names Java may ask for
    Defaults,   \* default strings Java may pass to native_get
    IntDefaults,    \* int defaults Java may pass to native_get_int
    ABILIST, ABILIST32, ABILIST64   \* the three ABI property names, in Keys

ASSUME {ABILIST, ABILIST32, ABILIST64} \subseteq Keys

\* The answers the mock is written to give (the strings of the code).
AbiTable == [k \in {ABILIST, ABILIST32, ABILIST64} |->
               CASE k = ABILIST   -> "arm64-v8a,armeabi-v7a"
                 [] k = ABILIST32 -> "armeabi-v7a"
                 [] k = ABILIST64 -> "arm64-v8a"]

\* strcmp(a, b) is non-zero exactly when the strings differ.
Strcmp(a, b) == IF a = b THEN 0 ELSE 1

VARIABLES
    registered, \* classes whose natives nativeInit registered, in order
    initResult, \* <<what nativeInit returned>>, or <<>> before it ran
    asked,      \* [method, key, def] of the last native call (method "none" before)
    answer      \* what that call returned to Java

vars == <<registered, initResult, asked, answer>>

Classes == <<"android/util/Log", "android/os/SystemProperties", "dalvik/system/VMRuntime">>

\* kLogMethods, kSystemPropertiesMethods, kVMRuntimeMethods: the natives each
\* class gets, by the name Java calls.
MethodTable ==
    [c \in {Classes[1], Classes[2], Classes[3]} |->
        CASE c = Classes[1] -> {"println_native"}
          [] c = Classes[2] -> {"native_get", "native_get_boolean", "native_get_int"}
          [] c = Classes[3] -> {"is64Bit"}]

\* A native Java can call: one of a class nativeInit registered.
Callable(m) == \E i \in 1..Len(registered) : m \in MethodTable[registered[i]]

NoCall == [method |-> "none", key |-> "none", def |-> 0]

Init ==
    /\ registered = <<>>
    /\ initResult = <<>>
    /\ asked = NoCall
    /\ answer = 0

\* nativeInit: RegisterNatives on each class in turn, returning the first
\* non-zero result and leaving the classes before it registered.
nativeInit ==
    /\ initResult = <<>>
    /\ \E n \in 0..Len(Classes), failed \in {0, -1} :
        \* the first n registrations return 0; the next (if any) returns `failed`
        /\ (n < Len(Classes)) = (failed # 0)
        /\ registered' = SubSeq(Classes, 1, n)
        /\ initResult' = <<failed>>
    /\ UNCHANGED <<asked, answer>>

\* SystemProperties_get: the chain of strcmp tests of the code, in order.
SystemProperties_get(key, def) ==
    CASE Strcmp(ABILIST, key) # 0   -> "arm64-v8a,armeabi-v7a"
      [] Strcmp(ABILIST32, key) # 0 -> "armeabi-v7a"
      [] Strcmp(ABILIST64, key) # 0 -> "arm64-v8a"
      [] OTHER                      -> def

\* Java calls SystemProperties.get once its natives are registered.
native_get ==
    /\ Callable("native_get")
    /\ \E k \in Keys, d \in Defaults :
        /\ asked' = [method |-> "native_get", key |-> k, def |-> d]
        /\ answer' = SystemProperties_get(k, d)
    /\ UNCHANGED <<registered, initResult>>

\* SystemProperties_get_boolean returns the jboolean default it was passed.
native_get_boolean ==
    /\ Callable("native_get_boolean")
    /\ \E k \in Keys, d \in BOOLEAN :
        /\ asked' = [method |-> "native_get_boolean", key |-> k, def |-> d]
        /\ answer' = d
    /\ UNCHANGED <<registered, initResult>>

\* SystemProperties_get_int is declared to return jboolean: the jint default
\* is converted to an unsigned char, and Java, which registered it as
\* returning int, reads the whole return register.  Whether the upper bits
\* of that register still hold the rest of the int is up to the compiler,
\* so both outcomes are possible.
GetIntReturns(d) == {d, d % 256}

native_get_int ==
    /\ Callable("native_get_int")
    /\ \E k \in Keys, d \in IntDefaults :
        /\ asked' = [method |-> "native_get_int", key |-> k, def |-> d]
        /\ \E r \in GetIntReturns(d) : answer' = r
    /\ UNCHANGED <<registered, initResult>>

\* android_util_Log_println_native writes nothing and returns 0.
println_native ==
    /\ Callable("println_native")
    /\ asked' = [NoCall EXCEPT !.method = "println_native"]
    /\ answer' = 0
    /\ UNCHANGED <<registered, initResult>>

\* is64Bit returns true.
is64Bit ==
    /\ Callable("is64Bit")
    /\ asked' = [NoCall EXCEPT !.method = "is64Bit"]
    /\ answer' = TRUE
    /\ UNCHANGED <<registered, initResult>>

Next ==
    \/ native_get
    \/ native_get_int
    \/ nativeInit
    \/ native_get_boolean
    \/ println_native
    \/ is64Bit

Spec == Init /\ [][Next]_vars

\* The SystemProperties mock answers as it is written to: native_get answers
\* each ABI property with its value in the mock's table and every other
\* property with the default Java passed, and native_get_int and
\* native_get_boolean answer with the default Java passed.
AnswersAsTabled ==
    /\ asked.method = "native_get" =>
        answer = IF asked.key \in DOMAIN AbiTable THEN AbiTable[asked.key] ELSE asked.def
    /\ asked.method \in {"native_get_int", "native_get_boolean"} => answer = asked.def

=============================================================================
