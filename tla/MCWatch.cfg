SPECIFICATION Spec
CONSTANTS
    f1 = f1
    f2 = f2
    f3 = f3
    File = {f1, f2, f3}
    Ignored = {f3}
    Cycle = {1, 2}
    MaxChanges = 2
    MaxOthers = 1
    MaxFailures = 1
PROPERTY NoticedIsIngested
CHECK_DEADLOCK FALSE
