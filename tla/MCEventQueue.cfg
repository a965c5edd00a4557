SPECIFICATION Spec
CONSTANTS
  Size <- MCSize
  Event <- MCEvent
INVARIANTS MaskExact NeverOverflows
PROPERTIES RefinesPendingEvents
