----------------------------- MODULE ReleaseSource -----------------------------
(***************************************************************************)
(* How a registry of executions hands its releases over to the sink: every *)
(* execution that is over moves the sequence of its group on by one, and   *)
(* is handed over as one call with the new sequence.  Calls are made with  *)
(* no lock held, in any order.  Once the source is quiet it has no call    *)
(* left to make and counts nothing more.                                   *)
(***************************************************************************)
EXTENDS Naturals

CONSTANT Groups

VARIABLES
  released,  \* the sequence of each group
  calls,     \* calls of the sink on their way
  quiet      \* the owner was told that nothing is left

vars == <<released, calls, quiet>>

Init ==
  /\ released = [g \in Groups |-> 0]
  /\ calls = {}
  /\ quiet = FALSE

Release(g) ==
  /\ ~quiet
  /\ released' = [released EXCEPT ![g] = @ + 1]
  /\ calls' = calls \cup {[group |-> g, seq |-> released[g] + 1]}
  /\ UNCHANGED quiet

Call(c) ==
  /\ calls' = calls \ {c}
  /\ UNCHANGED <<released, quiet>>

FallQuiet ==
  /\ calls = {}
  /\ quiet' = TRUE
  /\ UNCHANGED <<released, calls>>

Next ==
  \/ \E g \in Groups : Release(g)
  \/ \E c \in calls : Call(c)
  \/ FallQuiet

Spec == Init /\ [][Next]_vars
=============================================================================
