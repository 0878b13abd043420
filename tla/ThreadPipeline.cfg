\* NUM is the constant of the program.  The program really may hang: see
\* ThreadPipelineThird.cfg.
CONSTANT NUM = 5
SPECIFICATION Spec
INVARIANTS TypeOK NoLostWakeup TokenAccounting
PROPERTIES FirstTwoFinish ReturnsUnlessLost
CHECK_DEADLOCK FALSE
