SPECIFICATION Spec
CONSTANTS
    MaxAngle = 2
    MaxRate = 1
    MaxTime = 7
    Joint <- MCJoint
    Goal <- MCGoal
    Duration <- MCDuration
    Rate <- MCRate
INVARIANTS
    WithinLimits
    VelocityIsDerivative
    MeetsBoundary
PROPERTIES
    NoTurning
