CONSTANTS
    t1 = t1
    Tasks = {t1}
    MaxPublish = 2
    MaxFaults = 1
SPECIFICATION Spec
CHECK_DEADLOCK FALSE

PROPERTIES ConfirmsResolve WaitReturnsUndisturbed
