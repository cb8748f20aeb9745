SPECIFICATION FairSpec
CONSTANTS
    Signals = {"a"}
    Courses <- MCCourses
    Begun = 3
    Lengths = {2, 4}
    Now = 6
    Targets = {2}
    Drags <- MCDrags
    First = 0
    End = 8
    MinWidth = 1
    GraphWidth = 2
    MaxBuilds = 3
INVARIANTS DrawnTrue ShowsKnown
PROPERTY Settles
CHECK_DEADLOCK FALSE
