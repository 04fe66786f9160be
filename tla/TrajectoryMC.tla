---------------------------- MODULE TrajectoryMC ----------------------------
(***************************************************************************)
(* Instance of Trajectory for TLC: every joint, goal and duration of a     *)
(* small grid.  The tables of the two robots, in units of 1e-7 rad, are    *)
(* checked against the assumption the theorems about every Joint rest on.  *)
(***************************************************************************)
EXTENDS Trajectory, Sequences

CONSTANTS MaxAngle, \* bound: angles from -MaxAngle to MaxAngle
          MaxRate   \* bound: boundary velocities and accelerations

Angle == -MaxAngle .. MaxAngle

MCJoint == {j \in [lo : Angle, hi : Angle, home : Angle] :
                j.lo <= j.home /\ j.home <= j.hi}

\* Goals also lie outside the limits of the joint.
MCGoal == Angle

MCDuration == {1, 2, 3, 5}

MCRate == -MaxRate .. MaxRate

J(lo, hi, home) == [lo |-> lo, hi |-> hi, home |-> home]

\* Four legs of hip x, hip y and knee, which differ in the knee only.
spot == {J(-7850000, 7850000, 0), J(-8990000, 22950000, 0),
         J(-27930000, -2550000, -15238505), J(-27930000, -2480000, -15202315),
         J(-27930000, -2670000, -15300265), J(-27930000, -2580000, -15253125)}

ur5 == {J(-61330000, 61330000, 0), J(-29920000, 29920000, 0)}

ASSUME RobotsAssumption == \A j \in spot \cup ur5 : j.lo <= j.home /\ j.home <= j.hi

=============================================================================
