SPECIFICATION PollingSpec
CONSTANTS
  c1 = c1
  c2 = c2
  c3 = c3
  c4 = c4
  Callers <- MCCallers
  Cancellable <- MCCancellable
  Capacity = 2
  MaxTickets = 5
INVARIANTS
  Ordered
  Slots
PROPERTIES
  LineRefined
  NoStarvation
  CancelIsPrompt
