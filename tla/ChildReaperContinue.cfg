\* Two children are enough, and one ctrl + C.
CONSTANTS
    CHILD_COUNT = 2
    PRESSES = 1
SPECIFICATION Spec
PROPERTY ChildContinues
CHECK_DEADLOCK FALSE
