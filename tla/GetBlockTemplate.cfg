\* getblocktemplate: the shared template cache and long polling.
CONSTANTS
  T1 = T1  T2 = T2
  Threads <- MCThreads
  Null = Null
  MaxTip = 2
  TxStart = 0
  MaxTx = 2
  MaxTime = 3
  TemplateAge = 1
  FirstWait = 2
  RetryWait = 1
SPECIFICATION Spec
\* After StopRPC and with every bounded counter at its end nothing moves.
CHECK_DEADLOCK FALSE
PROPERTY TemplateOnTip
