----------------------------- MODULE Trajectory -----------------------------
(***************************************************************************)
(* Trajectory generation: the coefficients of the cubic and the quintic,   *)
(* their position and velocity, and TrajectoryGenerator for one joint (the *)
(* joints do not interact).  The hub (include/traj) and the legacy client  *)
(* (include) have a TrajectoryGenerator each, with the same formulas; they *)
(* differ in how compute() holds the time.  Real arithmetic is kept exact: *)
(* angles and times are integers in any unit, and coefficients, positions  *)
(* and velocities are numerators over a common denominator, T^3 for the    *)
(* cubic and 2 T^5 for the quintic.  Rounding of doubles is left out.      *)
(***************************************************************************)
EXTENDS Integers

CONSTANTS Joint,    \* joints of a RobotModel: [lo, hi, home]
          Goal,     \* goals given to the generator
          Duration, \* durations given to the generator
          Rate,     \* boundary velocities and accelerations
          MaxTime   \* bound: latest time asked for

ASSUME TrajectoryAssumption ==
    /\ \A j \in Joint : /\ j.lo \in Int /\ j.hi \in Int /\ j.home \in Int
                        /\ j.lo <= j.home /\ j.home <= j.hi
    /\ Goal \subseteq Int /\ Duration \subseteq Nat \ {0} /\ MaxTime \in Nat
    /\ Rate \subseteq Int

VARIABLES generator, \* the hub's TrajectoryGenerator or the legacy one
          kind,     \* the template argument Traj
          joint, qf, duration_, \* set by the constructor
          t         \* the time of the last compute()

vars == <<generator, kind, joint, qf, duration_, t>>

Cubic(q0, q1, T, qd0, qdf) ==
    <<q0 * (T*T*T), qd0 * (T*T*T),
      3*(q1 - q0)*T - (2*qd0 + qdf)*(T*T),
      (qd0 + qdf)*T - 2*(q1 - q0)>>

cubic_position(a, s) == a[1] + a[2]*s + a[3]*(s*s) + a[4]*(s*s*s)

cubic_velocity(a, s) == a[2] + 2*a[3]*s + 3*a[4]*(s*s)

\* Mutant: the sign of the initial velocity is wrong in a4.
Quintic_bug(q0, q1, T, qd0, qdf, qdd0, qddf) ==
    <<2*q0*(T*T*T*T*T), 2*qd0*(T*T*T*T*T), qdd0*(T*T*T*T*T),
      (20*(q1 - q0) - (8*qdf + 12*qd0)*T - (3*qdd0 - qddf)*(T*T)) * (T*T),
      (30*q0 - 30*q1 + (14*qdf - 16*qd0)*T + (3*qdd0 - 2*qddf)*(T*T)) * T,
      12*(q1 - q0) - (6*qdf + 6*qd0)*T - (qdd0 - qddf)*(T*T)>>

Quintic(q0, q1, T, qd0, qdf, qdd0, qddf) ==
    <<2*q0*(T*T*T*T*T), 2*qd0*(T*T*T*T*T), qdd0*(T*T*T*T*T),
      (20*(q1 - q0) - (8*qdf + 12*qd0)*T - (3*qdd0 - qddf)*(T*T)) * (T*T),
      (30*q0 - 30*q1 + (14*qdf + 16*qd0)*T + (3*qdd0 - 2*qddf)*(T*T)) * T,
      12*(q1 - q0) - (6*qdf + 6*qd0)*T - (qdd0 - qddf)*(T*T)>>

quintic_position(a, s) == a[1] + a[2]*s + a[3]*(s*s) + a[4]*(s*s*s)
                               + a[5]*(s*s*s*s) + a[6]*(s*s*s*s*s)

\* Mutant: a factor of the derivative is off by one.
quintic_velocity_bug(a, s) == a[2] + 2*a[3]*s + 3*a[4]*(s*s)
                                   + 4*a[5]*(s*s*s) + 4*a[6]*(s*s*s*s)

quintic_velocity(a, s) == a[2] + 2*a[3]*s + 3*a[4]*(s*s)
                               + 4*a[5]*(s*s*s) + 5*a[6]*(s*s*s*s)

clamp(v, lo, hi) == IF v < lo THEN lo ELSE IF v > hi THEN hi ELSE v
-----------------------------------------------------------------------------
(* TrajectoryGenerator, one joint *)

\* Mutant: the goal is taken as it is.
Target_bug(j, g) == g

\* The end position: the goal, held within the limits of the joint.
Target(j, g) == clamp(g, j.lo, j.hi)

Init == /\ generator \in {"hub", "legacy"} /\ kind \in {"cubic", "quintic"}
        /\ joint \in Joint /\ duration_ \in Duration
        /\ \E g \in Goal : qf = Target(joint, g)
        /\ t = 0

\* compute() at a later time; the first call may come at time 0.
compute == /\ t < MaxTime /\ t' \in t + 1 .. MaxTime
           /\ UNCHANGED <<generator, kind, joint, qf, duration_>>

Done == t = MaxTime /\ UNCHANGED vars

Next == compute \/ Done

Spec == Init /\ [][Next]_vars

\* Mutant: time is not held at the end of the trajectory.
tc_bug == t

\* The time compute() evaluates the polynomial at.  The legacy client does not
\* clamp from below: its clock is monotonic, so t is never negative.
tc_legacy == IF t < duration_ THEN t ELSE duration_

tc == IF generator = "hub" THEN clamp(t, 0, duration_) ELSE tc_legacy

Denominator == IF kind = "cubic" THEN duration_*duration_*duration_
               ELSE 2*(duration_*duration_*duration_*duration_*duration_)

PositionAt(s) ==
    IF kind = "cubic"
    THEN cubic_position(Cubic(joint.home, qf, duration_, 0, 0), s)
    ELSE quintic_position(Quintic(joint.home, qf, duration_, 0, 0, 0, 0), s)

VelocityAt(s) ==
    IF kind = "cubic"
    THEN cubic_velocity(Cubic(joint.home, qf, duration_, 0, 0), s)
    ELSE quintic_velocity(Quintic(joint.home, qf, duration_, 0, 0, 0, 0), s)
-----------------------------------------------------------------------------
(* Properties *)

\* The commanded position never leaves the limits of the joint, whatever the
\* goal and however late compute() is called.
WithinLimits == /\ joint.lo * Denominator <= PositionAt(tc)
                /\ PositionAt(tc) <= joint.hi * Denominator

\* The motion starts at rest at home and stops at rest at the target.
StartsAndStops ==
    /\ tc = 0 => PositionAt(tc) = joint.home * Denominator /\ VelocityAt(tc) = 0
    /\ t >= duration_ => PositionAt(tc) = qf * Denominator /\ VelocityAt(tc) = 0

\* Between any two calls of compute() the position moves towards the target or
\* stays, and never passes it: no turning back and no overshoot, also when
\* compute() is called long after the end of the trajectory.
NoTurning ==
    [][LET way == qf - joint.home
       IN  /\ way * (PositionAt(tc)' - PositionAt(tc)) >= 0
           /\ way * (qf * Denominator - PositionAt(tc)') >= 0]_vars

\* velocity() is the derivative of position(): the six-point difference is
\* exact for polynomials up to degree six.
VelocityIsDerivative ==
    60 * VelocityAt(t) =   45 * (PositionAt(t + 1) - PositionAt(t - 1))
                         -  9 * (PositionAt(t + 2) - PositionAt(t - 2))
                         +      (PositionAt(t + 3) - PositionAt(t - 3))

\* What the constructors of the cubic and the quintic are asked for: position,
\* velocity and, for the quintic, acceleration at both ends.
CubicMeets(q0, q1, T, v0, v1) ==
    LET c == Cubic(q0, q1, T, v0, v1)
        D == T*T*T
    IN  /\ cubic_position(c, 0) = q0 * D /\ cubic_position(c, T) = q1 * D
        /\ cubic_velocity(c, 0) = v0 * D /\ cubic_velocity(c, T) = v1 * D

QuinticMeets(q0, q1, T, v0, v1, b0, b1) ==
    LET c == Quintic(q0, q1, T, v0, v1, b0, b1)
        D == 2*(T*T*T*T*T)
        acceleration(s) == 2*c[3] + 6*c[4]*s + 12*c[5]*(s*s) + 20*c[6]*(s*s*s)
    IN  /\ quintic_position(c, 0) = q0 * D /\ quintic_position(c, T) = q1 * D
        /\ quintic_velocity(c, 0) = v0 * D /\ quintic_velocity(c, T) = v1 * D
        /\ acceleration(0) = b0 * D /\ acceleration(T) = b1 * D

\* The constructors meet every boundary condition they accept, the ones
\* TrajectoryGenerator leaves at their defaults included.
MeetsBoundary ==
    \A v0, v1 \in Rate :
       /\ CubicMeets(joint.home, qf, duration_, v0, v1)
       /\ \A b0, b1 \in Rate :
             QuinticMeets(joint.home, qf, duration_, v0, v1, b0, b1)

=============================================================================
