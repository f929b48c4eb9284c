------------------------------ MODULE MCSelection ------------------------------
(* Small instances of Selection for TLC.                                   *)
EXTENDS Selection

TwoProviders == <<"codex", "gemini">>
TwoAndOne == [a \in Auths |-> IF a <= 2 THEN "codex" ELSE "gemini"]

\* Credential 2 may get a better priority, twice its weight and websockets.
Profile(priority, weight, ws) == [priority |-> priority, weight |-> weight, ws |-> ws]
Plain == Profile(1, 1, FALSE)
Upgrade == [a \in Auths |->
  IF a = 2 THEN {Plain, Profile(2, 2, TRUE)} ELSE {Plain}]

AllStrategies == {"roundRobin", "weighted", "fillFirst"}
\* All, all but one that was tried, a pinned one, or none.
SomeTried == {Auths, Auths \ {1}, {2}, {}}
=============================================================================
