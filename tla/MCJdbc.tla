------------------------------- MODULE MCJdbc -------------------------------
(* Small instances of the JDBC repository for TLC. *)
EXTENDS RawJdbc, TLC

CONSTANTS t1, t2, x1, x2, x3, r1, r2

TwoThreads == {t1, t2}
TwoConns == {x1, x2}
TwoRows == {r1, r2}
=============================================================================
