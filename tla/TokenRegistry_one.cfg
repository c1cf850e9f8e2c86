SPECIFICATION Spec
CONSTANTS
    None = None
    Mints = {m1}
    MaxActive = 1
    RescanLimit = 1
    PhaseLimit = 1
    MaxFaults = 1
    Shown = {"launch"}
    Others = {"poller"}
PROPERTIES
    FirstLookGranted
    SilentStreamCovered
