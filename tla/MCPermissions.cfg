\* All pairs of lists of up to two names, one of which no group has, and all writes of them.
CONSTANTS
    Groups = {m1, m2}
    Unknown = {x1}
    Star = Star
    Blank = Blank
    MaxLen = 2
SPECIFICATION ListsSpec
INVARIANTS Intersection ListedIsUsable
PROPERTY WritesKeepMeaning
