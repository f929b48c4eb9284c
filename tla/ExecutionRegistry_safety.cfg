\* Two executions of one group or unaccounted against two calls of Drain and a
\* Close, with a sink that is replaced once.
\* The system stops when every call has returned.
SPECIFICATION Spec
CONSTANTS
  Groups = {g1}
  Unaccounted = none
  Drainers = {d1, d2}
  Closers = {c1}
  MaxDispatch = 2
  MaxBarrier = 0
  MaxSink = 2
SYMMETRY Symmetry
INVARIANTS ReleaseExact SinkCaughtUp ForgottenIsReported DrainedIsQuiet NoResourceLeaked
PROPERTIES NoRevival
CHECK_DEADLOCK FALSE
