CONSTANTS
  t1 = t1  t2 = t2  q1 = q1  q2 = q2  f1 = f1
  Threads = {t1, t2}
  Queues = {q1, q2}
  Fences = {f1}
  None = None
  MaxSerial = 2
SPECIFICATION FairSpec
INVARIANTS
  OwnWritesVisible EarlierWritesVisible RefsExact InvalidatedAfterExecution
PROPERTIES CompletionReturns
