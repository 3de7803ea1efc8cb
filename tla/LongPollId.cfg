\* A long poll with the longpollid the server issued.
CONSTANTS
  T1 = T1  T2 = T2
  Threads <- MCThreads
  Null = Null
  MaxTip = 2
  TxStart = 8
  MaxTx = 10
  MaxTime = 6
  TemplateAge = 1
  FirstWait = 3
  RetryWait = 2
INIT Init
NEXT Next
\* After StopRPC and with every bounded counter at its end nothing moves.
CHECK_DEADLOCK FALSE
INVARIANT LongPollIdAccepted
