------------------------- MODULE DirectoryOperation -------------------------
(* What the request workflow relies on: a directory operation makes only    *)
(* changes that its payload asks for, only between its start and its        *)
(* result, and is reported as executed only when it made every one of them. *)
CONSTANTS Operation, Change

VARIABLES
  wanted,  \* the changes that the payload of each operation asks for
  made,    \* the changes it made
  phase    \* idle, running, executed or failed

vars == <<wanted, made, phase>>

Init ==
  /\ wanted = [o \in Operation |-> {}]
  /\ made = [o \in Operation |-> {}]
  /\ phase = [o \in Operation |-> "idle"]

\* A preflight check may turn an operation down at once.
Start(o) ==
  /\ phase[o] = "idle"
  /\ \E label \in {"running", "failed"} : phase' = [phase EXCEPT ![o] = label]
  /\ wanted' = [wanted EXCEPT ![o] = wanted'[o]]
  /\ wanted'[o] \subseteq Change /\ wanted'[o] # {}
  /\ UNCHANGED made

Work(o) ==
  /\ phase[o] = "running"
  /\ \E label \in {"running", "executed", "failed"} : phase' = [phase EXCEPT ![o] = label]
  /\ made[o] \subseteq made'[o] /\ made'[o] \subseteq wanted[o]
  /\ made' = [made EXCEPT ![o] = made'[o]]
  /\ phase'[o] = "executed" => made'[o] = wanted[o]
  /\ UNCHANGED wanted

Next == \E o \in Operation : Start(o) \/ Work(o)

Spec == Init /\ [][Next]_vars
=============================================================================
