------------------------------ MODULE MCForms -------------------------------
(* Small instances of queries and uploads for TLC. *)
EXTENDS FormSubmit, TLC

CONSTANTS r1, r2

TwoReqs == {r1, r2}

Setting(kind, remote, global, async, timeout, shared) ==
  [kind |-> kind, remote |-> remote, global |-> global, async |-> async,
   timeout |-> timeout, shared |-> shared]

Get == Setting("xhr", FALSE, TRUE, TRUE, FALSE, FALSE)
TimedGet == Setting("xhr", FALSE, TRUE, TRUE, TRUE, FALSE)
SyncGet == Setting("xhr", FALSE, TRUE, FALSE, FALSE, FALSE)
RemoteScript == Setting("script", TRUE, TRUE, TRUE, FALSE, FALSE)
RemoteJsonp == Setting("jsonp", TRUE, TRUE, TRUE, FALSE, FALSE)
SharedJsonp == Setting("jsonp", TRUE, TRUE, TRUE, FALSE, TRUE)
LocalJsonp == Setting("jsonp", FALSE, TRUE, TRUE, FALSE, FALSE)

TimedUploads == {[global |-> TRUE, timeout |-> TRUE]}
SomeSettings == {Get, TimedGet, SyncGet, RemoteScript, RemoteJsonp, SharedJsonp, LocalJsonp}
=============================================================================
