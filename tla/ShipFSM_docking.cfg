SPECIFICATION Spec
CONSTANTS
    ExitCount = 2
    DockCount = 2
    MaxHits = 4
PROPERTIES
    DockingConfirmedInARow
