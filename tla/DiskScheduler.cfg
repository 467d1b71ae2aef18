SPECIFICATION FairSpec
CONSTANTS
  h1 = h1 h2 = h2 h3 = h3 s1 = s1 s2 = s2 b1 = b1 b2 = b2
  Tasks <- MCTasks
  Buses <- MCBuses
  BusOf <- MCBusOf
  TypeOf <- MCTypeOf
  MaxWorkersOption = 2
  MaxPending = 2
  Stuck <- MCOneStuck
INVARIANTS BusExclusive AccountingExact FifoPerBus
PROPERTIES EndsOnlyWhenDrained ImplementsPool HealthyTasksDispatched GeneratorEnds
