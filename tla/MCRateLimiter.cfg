\* Two handlers, no limit and a limit of 2 and of 1, two rings and a window of two ticks.
CONSTANTS
    Requests = {r1, r2}
    Rpms = {0, 1, 2}
    Window = 2
    NoRing = NoRing
    MaxClock = 4
    MaxRings = 2
SYMMETRY Symmetry
SPECIFICATION Spec
INVARIANTS Spacing IInv
PROPERTIES ReplacedOnlyByOtherLimit DenialJustified
