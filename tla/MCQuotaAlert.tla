------------------------------ MODULE MCQuotaAlert ------------------------------
(* Small instances of QuotaAlert for TLC.                                  *)
EXTENDS QuotaAlert

CONSTANTS instance1, instance2, account1, account2

Rule(samples, margin, recovery, reminder) ==
  [enabled |-> TRUE, threshold |-> 1, margin |-> margin, samples |-> samples,
   recovery |-> recovery, reminder |-> reminder, degraded |-> 2]

OneRule == {Rule(2, 1, TRUE, 2)}
TwoRules == {Rule(2, 0, TRUE, 2), Rule(2, 1, FALSE, 0)}
=============================================================================
