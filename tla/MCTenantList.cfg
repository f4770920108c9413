CONSTANTS
    Spaces = {1, 2, 3}
    Names = {1, 2, 3}
    Hidden = {2}
    Owned = {1, 3}
    Limits = {0, 1, 2}
    MaxSpaces = 2
    ExactReads = {FALSE}
    First <- Both
    MaxRev = 4
SPECIFICATION FairSpec
PROPERTIES IsSnapshot ListTerminates
