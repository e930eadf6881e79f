------------------------------- MODULE MCChat -------------------------------
(* Small instances of the chat room for TLC. *)
EXTENDS Chat, TLC

CONSTANTS t1, t2, t3, u1, u2, s1, s2, m1, m2, m3

TwoThreads == {t1, t2}
ThreeThreads == {t1, t2, t3}
OneUser == {u1}
OneSession == {s1}
TwoSessions == {s1, s2}
OneMsg == {m1}
TwoMsgs == {m1, m2}
ThreeMsgs == {m1, m2, m3}

TranscriptOps == {"groupMessage", "getChatMessages", "getUsers", "close"}
RoomOps == AllOps \ {"getChatMessages", "close"}
ResetOps == {"groupMessage", "getChatMessages", "reset"}

ThreadSymmetry == Permutations(Thread) \cup Permutations(Msg)
                  \cup Permutations(User) \cup Permutations(Session)
=============================================================================
