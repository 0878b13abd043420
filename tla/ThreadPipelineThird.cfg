\* The same program: thread 3 does not always finish.
CONSTANT NUM = 5
SPECIFICATION Spec
PROPERTY ThirdFinishes
CHECK_DEADLOCK FALSE
