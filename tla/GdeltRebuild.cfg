SPECIFICATION Spec
CONSTANTS
    Timeout = 2
    Retained = 3
    Few = 3
    MaxExport = 4
INVARIANT RebuildsAfterWipe
