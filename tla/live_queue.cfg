SPECIFICATION Spec
CONSTANTS
    MaxSession = 2
    a1 = a1
    a2 = a2
    Agents <- Both
    Lanes <- Mixed
    MaxFaults = 1
INVARIANT TypeOK
INVARIANT OneWorkerPerEvent
INVARIANT NoWakeupLost
INVARIANT DecisionStands
INVARIANT NotStranded
INVARIANT ExitOnlyWhenGone
