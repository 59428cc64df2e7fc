CONSTANTS
    Known = {"m", "d"}
    Letters = {"m", "d", "x"}
    Others = {"-"}
    MaxLen = 6

SPECIFICATION Spec
INVARIANTS PositionsValid RoundTrip ErrorExact
