------------------------------ MODULE Counter -------------------------------
(***************************************************************************)
(* What the interface Counter promises its clients: an update of a name    *)
(* takes effect once, at one point between its call and its return.  The   *)
(* two implementations leave their mark in two places.  A name can come    *)
(* into being, with value 0, before its first update takes effect; and a   *)
(* decrement that meets an unknown name may do no more than that.          *)
(***************************************************************************)
EXTENDS Integers

CONSTANTS
  Client,
  Name,            \* the names that are counted
  Plus(_, _, _),   \* Plus(s, v, d): v + d in the integers that hold name s
  Idle             \* no update

VARIABLES
  value,   \* value of every name, 0 for an unknown one
  known,   \* names that exist
  call     \* the update each client is in, or Idle

vars == <<value, known, call>>

Init ==
  /\ value = [s \in Name |-> 0]
  /\ known = {}
  /\ call = [c \in Client |-> Idle]

Call(c, s, d) ==
  /\ call[c] = Idle
  /\ call' = [call EXCEPT ![c] = <<s, d>>]
  /\ UNCHANGED <<value, known>>

Create(s) ==
  /\ s \notin known
  /\ \E c \in Client : call[c] # Idle /\ call[c][1] = s
  /\ known' = known \cup {s}
  /\ UNCHANGED <<value, call>>

Apply(c, s, d) ==
  /\ call[c] = <<s, d>>
  /\ \/ value' = [value EXCEPT ![s] = Plus(s, value[s], d)]
     \/ d = -1 /\ s \notin known /\ UNCHANGED value
  /\ known' = known \cup {s}
  /\ call' = [call EXCEPT ![c] = Idle]

Next ==
  \/ \E c \in Client, s \in Name, d \in {-1, 1} : Call(c, s, d) \/ Apply(c, s, d)
  \/ \E s \in Name : Create(s)

Spec == Init /\ [][Next]_vars
=============================================================================
