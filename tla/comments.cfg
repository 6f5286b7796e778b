SPECIFICATION Spec
CONSTANTS
    c1 = c1
    c2 = c2
    cmd = cmd
    Comments = {c1, c2}
    Commands = {cmd}
    Loop = Loop
    MaxTries = 2
    MaxAsked = 2
    MaxCrashes = 1
INVARIANT NothingForgotten AnsweredIsDone
PROPERTY EveryCommentSettles
CHECK_DEADLOCK FALSE
