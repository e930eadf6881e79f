----------------------------- MODULE MCCounter ------------------------------
(* Small instances of the two counters for TLC. *)
EXTENDS CounterStores, TLC

CONSTANTS c1, c2, own, shared

TwoClients == {c1, c2}
TwoKeys == {own, shared}
SharedKey == {shared}

\* c1 has the name own for itself; both use the name shared
OwnAndShared == [c \in TwoClients |-> IF c = c1 THEN {own, shared} ELSE {shared}]
AllShared == [c \in TwoClients |-> {shared}]
=============================================================================
