---------------------------- MODULE MCStatement ----------------------------
(* Model-checking instance of Statement.  The cfg gives two statements (so *)
(* one can be live while the other is finalized and reused), two parameters *)
(* (a stale binding beside a cleared one), two rows (a BUSY retry can fall  *)
(* between rows) and one bindable value, all as model values.               *)
EXTENDS Statement, TLC

\* Statements are interchangeable model values.
StmtSymmetry == Permutations(Stmts)
=============================================================================
