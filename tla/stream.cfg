SPECIFICATION FairStreamSpec
CONSTANTS
  Readers = {reader}
  Hosts = {api}
  Workers = {worker}
  BatchSize = 2
  MaxEvents = 2
  MaxFaults = 1
CHECK_DEADLOCK FALSE
INVARIANT NoMissedHint
PROPERTIES ImplementsEventDelivery EventuallyDelivered
