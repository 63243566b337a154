CONSTANTS
    t1 = t1
    Tasks = {t1}
    MaxPublish = 2
    MaxFaults = 0
SPECIFICATION Spec
CHECK_DEADLOCK FALSE
PROPERTY WaitCoversPrior
