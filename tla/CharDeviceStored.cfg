\* One run of the menu program.
CONSTANTS
    Runs = {u1}
    Opened = {"hello1"}
    BUFFER_SIZE = 3
    Unwritten = unwritten
SPECIFICATION Spec
INVARIANT SuccessMeansStored
