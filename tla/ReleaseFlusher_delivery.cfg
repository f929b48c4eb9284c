\* Two groups with up to two releases each, sends that fail before or after
\* Home applied them, and the Flush at the end of the lifetime, under fairness.
\* The system stops when Run has returned.
SPECIFICATION FairSpec
CONSTANTS
  Groups = {g1, g2}
  MaxSeq = 2
INVARIANTS TicketTruth WaitersCovered PromptFlush FlushComplete
PROPERTIES ImplementsPromise TicketsClose
CHECK_DEADLOCK FALSE
