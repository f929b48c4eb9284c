\* Three credentials of two providers, one with a token that expires; every strategy.
\* Time stops at its bound.
SPECIFICATION Spec
CONSTANTS
  Auths = {1, 2, 3}
  Providers <- TwoProviders
  ProviderOf <- TwoAndOne
  ProfilesOf <- Upgrade
  Expiring = {2}
  Strategies <- AllStrategies
  Allowed <- SomeTried
  Cooldown = 1
  Life = 1
  MaxClock = 2
INVARIANTS PicksBest RotationFair
CHECK_DEADLOCK FALSE
