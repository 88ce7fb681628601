\* A body of six chunks for three workers and a channel of two, under the
\* fairness of the handler and the workers: the channel fills up while workers
\* fail.
SPECIFICATION FairSpec
CONSTANTS
  w1 = w1
  w2 = w2
  w3 = w3
  Worker <- Three
  Chunks = 6
  JobsCap = 2
INVARIANTS
  AcknowledgedIsStored
  WritesAreReserved
PROPERTY
  HandlerAnswers
CHECK_DEADLOCK FALSE
