SPECIFICATION SetupSpec
CONSTANTS
    Deployments = {"d1"}
    SetupFailing = {"command", "commit", "moved", "deleted"}
INVARIANT StudentsGetTheTemplate
CHECK_DEADLOCK FALSE
