SPECIFICATION FairSpec
CONSTANTS
    CBFailureThreshold = 2
    CBSuccessThreshold = 2
    CBWindow = 2
    CBOpenTimeout = 1
    CBHalfOpenMax = 2
    Requests = {r1, r2, r3}
INVARIANTS TypeOK RefusalsHaveACause
PROPERTIES RecoveryIsEarned TripsAreFresh RecoversWhenCalm
