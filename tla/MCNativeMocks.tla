--------------------------- MODULE MCNativeMocks ---------------------------
(* NativeMocks for TLC: the int defaults Java passes to getInt, among them *)
(* the negative one that the jboolean return type cannot carry.           *)
EXTENDS NativeMocks

MCIntDefaults == {-1, 1}

=============================================================================
