CONSTANTS
  Functors = {f1, f2, f3}
  Callers = {c1, c2}
  LoopThread = lt
SPECIFICATION WakeSpec
INVARIANT NoLostWakeup
PROPERTIES ImplementsExecutor WakeupsSuffice QuitStopsRunningLoop
