SPECIFICATION Spec
CONSTANTS
  Workers <- MCWorkers
  Channels <- MCChannels
  Interval = 2
  Jitter <- MCJitter
  MaxEvents = 1
  Never = Never
INVARIANTS
  TypeOK
  ScheduledOncePerWorker
PROPERTIES
  DueGetsChecked
