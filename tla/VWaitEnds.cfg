CONSTANTS
    t1 = t1
    Tasks = {t1}
    MaxPublish = 1
    MaxFaults = 1
SPECIFICATION Spec
CHECK_DEADLOCK FALSE
PROPERTY WaitEnds
