SPECIFICATION FairWaitSpec
CONSTANTS
  Others = {network}
  Signals = {SIGINT, SIGTERM}
  MaxSignals = 3
INVARIANTS
  WaitTypeOK
  NoLostSignal
PROPERTY SignalEndsWait
