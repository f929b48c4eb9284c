\* Two executions and a barrier against a Drain and two calls of Close, under
\* fairness; releases play no part.
\* The system stops when every call has returned.
SPECIFICATION FairSpec
CONSTANTS
  Groups = {}
  Unaccounted = none
  Drainers = {d1}
  Closers = {c1, c2}
  MaxDispatch = 2
  MaxBarrier = 1
  MaxSink = 0
INVARIANTS BarrierSound
PROPERTIES DrainTerminates CloseTerminates BarrierAnswered
CHECK_DEADLOCK FALSE
