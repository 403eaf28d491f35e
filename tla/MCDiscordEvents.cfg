\* Five events, any number of starts and stops.
SPECIFICATION FairEventsSpec
CONSTANT MaxEvents = 5
INVARIANTS HandledInOrder
PROPERTIES EventsAreHandled StopReturns
