SPECIFICATION Spec
CONSTANTS
    Widths = {1, 3}
    Delays = {0, 1, 7}
    Scripts <- SomeScripts
    Nobody = Nobody
    MaxEvents = 3
    MaxCancels = 1
    MaxPeeks = 1
INVARIANT
    CalendarInShape
PROPERTY
    ListAndHeapImplement
    CalendarImplements
CHECK_DEADLOCK FALSE
