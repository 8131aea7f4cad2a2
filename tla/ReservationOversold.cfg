SPECIFICATION Spec
CONSTANTS
    MaxReservations = 4
    Nodes = {1}
    Sellable = 2
    Seeded = 0
    Sizes = {1}
    Handlers = {h1, h2}
    Ops = {"reserve", "sweep"}
INVARIANT NeverOversold
CHECK_DEADLOCK FALSE
