----------------------------- MODULE MCAuthCooldown -----------------------------
(* Small instances of AuthCooldown for TLC.                                *)
EXTENDS AuthCooldown

\* A failure of kind k with hint h; cooling on, one tick per transient error.
Failure(k, h) == [kind |-> k, hint |-> h, scope |-> FALSE, forced |-> FALSE,
                  cooling |-> TRUE, transient |-> 1]
CredentialFailure(h) == [Failure("quota", h) EXCEPT !.scope = TRUE]

\* A failure with a status that is not listed.
Unlisted == Failure("other", 0)

\* One failure of each effect, and of each policy: cooling switched off between
\* failures, a cooldown enforced over that, transient cooldowns switched off.
EachEffect ==
  {Failure("unauthorized", 0), Failure("quota", 0), Failure("quota", 2),
   CredentialFailure(0), CredentialFailure(2), Unlisted, Failure("transient", 0),
   [Failure("transient", 0) EXCEPT !.transient = 0],
   [CredentialFailure(0) EXCEPT !.cooling = FALSE],
   [Failure("other", 0) EXCEPT !.cooling = FALSE, !.forced = TRUE]}

\* Failures with cooldowns that outlast a restart.
Durable ==
  {Failure("unauthorized", 0), Failure("missing", 2), Failure("quota", 0),
   CredentialFailure(2)}

TwoModels == {1, 2}
TwoModelsOrNone == {1, 2, NoModel}
=============================================================================
