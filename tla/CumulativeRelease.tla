--------------------------- MODULE CumulativeRelease ---------------------------
(***************************************************************************)
(* What the release path promises to Home, which limits how many           *)
(* executions of a credential and model may run at once: Home counts an    *)
(* execution as over only after it is, learns of every one of them, and    *)
(* loses none of what it has learned.                                      *)
(***************************************************************************)
EXTENDS Naturals

CONSTANT Groups

VARIABLES
  released,  \* executions of each group that are over, as the registry counts
  accepted   \* executions of each group that Home counts as over

vars == <<released, accepted>>

Init ==
  /\ released = [g \in Groups |-> 0]
  /\ accepted = [g \in Groups |-> 0]

Release(g) ==
  /\ released' = [released EXCEPT ![g] = @ + 1]
  /\ UNCHANGED accepted

\* Home may learn of several releases at once: the sequence is cumulative.
Accept(g) ==
  /\ \E n \in accepted[g] + 1 .. released[g] :
       accepted' = [accepted EXCEPT ![g] = n]
  /\ UNCHANGED released

Next == \E g \in Groups : Release(g) \/ Accept(g)

Spec == Init /\ [][Next]_vars
=============================================================================
