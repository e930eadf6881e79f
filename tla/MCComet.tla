------------------------------ MODULE MCComet -------------------------------
(* Small instances of the comet endpoint for TLC. *)
EXTENDS CometAdapter, TLC
CONSTANTS t1, t2, m1, m2, m3, m4, b1
TwoThreads == {t1, t2}
TwoMsgs == {m1, m2}
FourMsgs == {m1, m2, m3, m4}
NoBrowser == {}
FirstBrowser == {b1}
=============================================================================
