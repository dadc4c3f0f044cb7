SPECIFICATION Spec
CONSTANTS
  Requests = {r1}
  ReadFaults = FALSE
  MaxEvents = 6
PROPERTIES ImplementsSwitch
