-------------------------- MODULE JointStateProofs --------------------------
(***************************************************************************)
(* Proofs about the two ends of a joint state's data: how its positions    *)
(* are computed (Trajectory) and how a sample is encoded (Cdr).            *)
(*                                                                         *)
(* Trajectory, for every joint, goal, duration and time.  With the default *)
(* boundary conditions both polynomials are weighted means of home and     *)
(* target: home * V(s) + target * W(s), where V + W is the common          *)
(* denominator and both weights are natural numbers for 0 <= s <= T.       *)
(*                                                                         *)
(* Cdr, for every sample, with strings and sequences of any length.  The   *)
(* loops over a sequence are folds; each is turned into the sequence of    *)
(* its partial results, about which one can argue by induction on the      *)
(* number of rounds.  What is written only ever grows at its end, so every *)
(* prefix of a payload is a prefix of what was written up to some member,  *)
(* and the reader's position is the length of that.                        *)
(***************************************************************************)
EXTENDS Trajectory, Cdr, SequenceTheorems, WellFoundedInduction, TLAPS
-----------------------------------------------------------------------------
(* Trajectory *)

\* The weights of the cubic and, without the factor 2, of the quintic.
V3(T, s) == (T - s) * (T - s) * (T + 2*s)
W3(T, s) == s * s * (3*T - 2*s)
V5(T, s) == (T - s) * (T - s) * (T - s) * (T*T + 3*T*s + 6*(s*s))
W5(T, s) == s * s * s * (10*(T*T) - 15*T*s + 6*(s*s))

\* Products keep order and sign.
LEMMA ProductNat == ASSUME NEW a \in Nat, NEW b \in Nat PROVE a * b \in Nat
  OBVIOUS

LEMMA ProductOrder ==
  ASSUME NEW a \in Int, NEW b \in Int, NEW c \in Nat, a <= b
  PROVE  a * c <= b * c
  OBVIOUS

\* A weighted mean lies between the values.
LEMMA MeanBounds ==
  ASSUME NEW lo \in Int, NEW hi \in Int, NEW p \in Int, NEW q \in Int,
         lo <= p, p <= hi, lo <= q, q <= hi,
         NEW v \in Nat, NEW w \in Nat
  PROVE  lo * (v + w) <= p * v + q * w /\ p * v + q * w <= hi * (v + w)
<1>1. lo * v <= p * v /\ p * v <= hi * v BY ProductOrder
<1>2. lo * w <= q * w /\ q * w <= hi * w BY ProductOrder
<1>3. lo * (v + w) = lo * v + lo * w /\ hi * (v + w) = hi * v + hi * w OBVIOUS
<1> QED BY <1>1, <1>2, <1>3

\* The cubic is a weighted mean of its end positions.
LEMMA CubicMean ==
  ASSUME NEW q0 \in Int, NEW q1 \in Int, NEW T \in Int, NEW s \in Int
  PROVE  /\ cubic_position(Cubic(q0, q1, T, 0, 0), s) = q0 * V3(T, s) + q1 * W3(T, s)
         /\ V3(T, s) + W3(T, s) = T*T*T
  BY DEF cubic_position, Cubic, V3, W3

LEMMA CubicWeights ==
  ASSUME NEW T \in Nat, NEW s \in 0 .. T
  PROVE  V3(T, s) \in Nat /\ W3(T, s) \in Nat
<1>1. T - s \in Nat /\ s \in Nat /\ T + 2*s \in Nat /\ 3*T - 2*s \in Nat OBVIOUS
<1>2. (T - s) * (T - s) \in Nat /\ s * s \in Nat BY <1>1, ProductNat
<1> QED BY <1>1, <1>2, ProductNat DEF V3, W3

\* The quintic is twice such a mean.
LEMMA QuinticMean ==
  ASSUME NEW q0 \in Int, NEW q1 \in Int, NEW T \in Int, NEW s \in Int
  PROVE  /\ quintic_position(Quintic(q0, q1, T, 0, 0, 0, 0), s)
              = q0 * (2 * V5(T, s)) + q1 * (2 * W5(T, s))
         /\ 2 * V5(T, s) + 2 * W5(T, s) = 2*(T*T*T*T*T)
  BY DEF quintic_position, Quintic, V5, W5

LEMMA QuinticWeights ==
  ASSUME NEW T \in Nat, NEW s \in 0 .. T
  PROVE  2 * V5(T, s) \in Nat /\ 2 * W5(T, s) \in Nat
<1> DEFINE r == T - s
<1>1. r \in Nat /\ s \in Nat /\ T = s + r OBVIOUS
<1>2. s * s \in Nat /\ r * r \in Nat /\ s * r \in Nat BY <1>1, ProductNat
<1>3. s * s * s \in Nat /\ r * r * r \in Nat BY <1>1, <1>2, ProductNat
<1>4. T*T + 3*T*s + 6*(s*s) \in Nat
  <2>1. T * T \in Nat /\ T * s \in Nat BY <1>1, ProductNat
  <2>2. 3*T*s = 3*(T*s) BY <1>1
  <2> QED BY <1>2, <2>1, <2>2
<1>5. 10*(T*T) - 15*T*s + 6*(s*s) = s*s + 5*(s*r) + 10*(r*r) BY <1>1
<1>6. s*s + 5*(s*r) + 10*(r*r) \in Nat BY <1>2
<1>7. V5(T, s) \in Nat BY <1>3, <1>4, ProductNat DEF V5
<1>8. W5(T, s) \in Nat BY <1>3, <1>5, <1>6, ProductNat DEF W5
<1> QED BY <1>7, <1>8
-----------------------------------------------------------------------------
\* The state keeps the joint, the target within its limits and a positive
\* duration: what the constructor establishes and compute() leaves alone.
Constructed == /\ generator \in {"hub", "legacy"}
               /\ kind \in {"cubic", "quintic"}
               /\ joint \in Joint /\ duration_ \in Nat \ {0}
               /\ qf \in Int /\ joint.lo <= qf /\ qf <= joint.hi
               /\ t \in Nat

LEMMA ConstructedStep == Spec => []Constructed
<1>1. Init => Constructed
  BY TrajectoryAssumption DEF Init, Constructed, Target, clamp
<1>2. Constructed /\ [Next]_vars => Constructed'
  BY TrajectoryAssumption DEF Constructed, Next, compute, Done, vars
<1> QED BY <1>1, <1>2, PTL DEF Spec

\* The position is a weighted mean of home and target.
LEMMA PositionIsMean ==
  ASSUME Constructed
  PROVE  \E v, w \in Nat : /\ Denominator = v + w
                           /\ PositionAt(tc) = joint.home * v + qf * w
<1> DEFINE T == duration_  s == tc
<1>1. T \in Nat /\ s \in 0 .. T /\ joint.home \in Int /\ qf \in Int
  BY TrajectoryAssumption DEF Constructed, tc, tc_legacy, clamp
<1>i. s \in Int /\ T \in Int BY <1>1
<1> HIDE DEF s, T
<1>2. CASE kind = "cubic"
  <2>1. V3(T, s) \in Nat /\ W3(T, s) \in Nat BY <1>1, CubicWeights
  <2>2. /\ cubic_position(Cubic(joint.home, qf, T, 0, 0), s)
             = joint.home * V3(T, s) + qf * W3(T, s)
        /\ V3(T, s) + W3(T, s) = T*T*T
    <3>1. \A q0, q1, TT, ss \in Int : cubic_position(Cubic(q0, q1, TT, 0, 0), ss)
                                          = q0 * V3(TT, ss) + q1 * W3(TT, ss)
      BY CubicMean
    <3>2. \A TT, ss \in Int : V3(TT, ss) + W3(TT, ss) = TT*TT*TT
      BY DEF V3, W3
    <3>3. V3(T, s) + W3(T, s) = T*T*T BY <1>i, <3>2
    <3>4. joint.home \in Int /\ qf \in Int BY <1>1
    <3>5. cubic_position(Cubic(joint.home, qf, T, 0, 0), s)
            = joint.home * V3(T, s) + qf * W3(T, s)
      BY <1>i, <3>1, <3>4
    <3> QED BY <3>3, <3>5
  <2>3. PositionAt(s) = cubic_position(Cubic(joint.home, qf, T, 0, 0), s)
    BY <1>2 DEF PositionAt, T
  <2>4. Denominator = T*T*T BY <1>2 DEF Denominator, T
  <2> QED BY <2>1, <2>2, <2>3, <2>4 DEF s
<1>3. CASE kind = "quintic"
  <2>1. 2 * V5(T, s) \in Nat /\ 2 * W5(T, s) \in Nat BY <1>1, QuinticWeights
  <2>2. /\ quintic_position(Quintic(joint.home, qf, T, 0, 0, 0, 0), s)
             = joint.home * (2 * V5(T, s)) + qf * (2 * W5(T, s))
        /\ 2 * V5(T, s) + 2 * W5(T, s) = 2*(T*T*T*T*T)
    <3>1. \A q0, q1, TT, ss \in Int :
             quintic_position(Quintic(q0, q1, TT, 0, 0, 0, 0), ss)
               = q0 * (2 * V5(TT, ss)) + q1 * (2 * W5(TT, ss))
      BY QuinticMean
    <3>2. \A TT, ss \in Int : 2 * V5(TT, ss) + 2 * W5(TT, ss) = 2*(TT*TT*TT*TT*TT)
      BY DEF V5, W5
    <3>3. 2 * V5(T, s) + 2 * W5(T, s) = 2*(T*T*T*T*T) BY <1>i, <3>2
    <3>4. joint.home \in Int /\ qf \in Int BY <1>1
    <3>5. quintic_position(Quintic(joint.home, qf, T, 0, 0, 0, 0), s)
            = joint.home * (2 * V5(T, s)) + qf * (2 * W5(T, s))
      BY <1>i, <3>1, <3>4
    <3> QED BY <3>3, <3>5
  <2>3. PositionAt(s) = quintic_position(Quintic(joint.home, qf, T, 0, 0, 0, 0), s)
    BY <1>3 DEF PositionAt, T
  <2>4. Denominator = 2*(T*T*T*T*T) BY <1>3 DEF Denominator, T
  <2> QED BY <2>1, <2>2, <2>3, <2>4 DEF s
<1> QED BY <1>2, <1>3 DEF Constructed

LEMMA InLimits == Constructed => WithinLimits
<1> SUFFICES ASSUME Constructed PROVE WithinLimits OBVIOUS
<1>1. PICK v, w \in Nat : /\ Denominator = v + w
                          /\ PositionAt(tc) = joint.home * v + qf * w
  BY PositionIsMean
<1>2. /\ joint.lo \in Int /\ joint.hi \in Int /\ joint.home \in Int /\ qf \in Int
      /\ joint.lo <= joint.home /\ joint.home <= joint.hi
      /\ joint.lo <= qf /\ qf <= joint.hi
  BY TrajectoryAssumption DEF Constructed
<1>3. /\ joint.lo * (v + w) <= joint.home * v + qf * w
      /\ joint.home * v + qf * w <= joint.hi * (v + w)
  BY <1>2, MeanBounds
<1> QED BY <1>1, <1>3 DEF WithinLimits

\* The position commanded by TrajectoryGenerator::compute never leaves the
\* limits of the joint, for every robot whose home lies within them, every
\* goal, every duration and every time.
THEOREM LimitsKept == Spec => []WithinLimits
  BY ConstructedStep, InLimits, PTL

\* Position and velocity at both ends of the polynomials.
LEMMA CubicEnds ==
  \A q0, q1, T \in Int :
     /\ cubic_position(Cubic(q0, q1, T, 0, 0), 0) = q0 * (T*T*T)
     /\ cubic_velocity(Cubic(q0, q1, T, 0, 0), 0) = 0
     /\ cubic_position(Cubic(q0, q1, T, 0, 0), T) = q1 * (T*T*T)
     /\ cubic_velocity(Cubic(q0, q1, T, 0, 0), T) = 0
  BY DEF Cubic, cubic_position, cubic_velocity

LEMMA QuinticEnds ==
  \A q0, q1, T \in Int :
     /\ quintic_position(Quintic(q0, q1, T, 0, 0, 0, 0), 0) = q0 * (2*(T*T*T*T*T))
     /\ quintic_velocity(Quintic(q0, q1, T, 0, 0, 0, 0), 0) = 0
     /\ quintic_position(Quintic(q0, q1, T, 0, 0, 0, 0), T) = q1 * (2*(T*T*T*T*T))
     /\ quintic_velocity(Quintic(q0, q1, T, 0, 0, 0, 0), T) = 0
  BY DEF Quintic, quintic_position, quintic_velocity

\* The motion starts at rest at home and ends at rest at the target, however
\* long after its end compute() is called, for every joint, goal and duration.
THEOREM StopsAtTarget == Spec => []StartsAndStops
<1>1. Constructed => StartsAndStops
  <2> SUFFICES ASSUME Constructed PROVE StartsAndStops OBVIOUS
  <2>1. /\ joint.home \in Int /\ qf \in Int /\ duration_ \in Int
        /\ tc \in Int /\ (t >= duration_ => tc = duration_)
    BY TrajectoryAssumption DEF Constructed, tc, tc_legacy, clamp
  <2>2. CASE kind = "cubic"
    <3> DEFINE c == Cubic(joint.home, qf, duration_, 0, 0)
    <3>1. /\ cubic_position(c, 0) = joint.home * Denominator
          /\ cubic_velocity(c, 0) = 0
          /\ cubic_position(c, duration_) = qf * Denominator
          /\ cubic_velocity(c, duration_) = 0
      BY <2>1, <2>2, CubicEnds DEF Denominator
    <3>2. \A s : PositionAt(s) = cubic_position(c, s) /\ VelocityAt(s) = cubic_velocity(c, s)
      BY <2>2 DEF PositionAt, VelocityAt
    <3> HIDE DEF c
    <3> QED BY <2>1, <3>1, <3>2 DEF StartsAndStops
  <2>3. CASE kind = "quintic"
    <3> DEFINE c == Quintic(joint.home, qf, duration_, 0, 0, 0, 0)
    <3>1. /\ quintic_position(c, 0) = joint.home * Denominator
          /\ quintic_velocity(c, 0) = 0
          /\ quintic_position(c, duration_) = qf * Denominator
          /\ quintic_velocity(c, duration_) = 0
      BY <2>1, <2>3, QuinticEnds DEF Denominator
    <3>2. \A s : PositionAt(s) = quintic_position(c, s) /\ VelocityAt(s) = quintic_velocity(c, s)
      BY <2>3 DEF PositionAt, VelocityAt
    <3> HIDE DEF c
    <3> QED BY <2>1, <3>1, <3>2 DEF StartsAndStops
  <2> QED BY <2>2, <2>3 DEF Constructed
<1> QED BY <1>1, ConstructedStep, PTL
-----------------------------------------------------------------------------
\* The constructors meet their boundary conditions: position, velocity and
\* acceleration at both ends.
LEMMA CubicBoundary == \A q0, q1, T, v0, v1 \in Int : CubicMeets(q0, q1, T, v0, v1)
  BY DEF CubicMeets, Cubic, cubic_position, cubic_velocity

LEMMA QuinticBoundary ==
  \A q0, q1, T, v0, v1, b0, b1 \in Int : QuinticMeets(q0, q1, T, v0, v1, b0, b1)
  BY DEF QuinticMeets, Quintic, quintic_position, quintic_velocity

\* The constructors of the cubic and the quintic meet every boundary condition
\* they are given, for every pair of positions, duration and boundary rates.
THEOREM BoundaryMet == Spec => []MeetsBoundary
<1>1. Constructed => MeetsBoundary
  <2> SUFFICES ASSUME Constructed PROVE MeetsBoundary OBVIOUS
  <2>1. joint.home \in Int /\ qf \in Int /\ duration_ \in Int /\ Rate \subseteq Int
    BY TrajectoryAssumption DEF Constructed
  <2> QED BY <2>1, CubicBoundary, QuinticBoundary DEF MeetsBoundary
<1> QED BY <1>1, ConstructedStep, PTL
-----------------------------------------------------------------------------
\* The six-point difference of each polynomial is sixty times its velocity.
CubicDifference(a, s) ==
      45 * (cubic_position(a, s + 1) - cubic_position(a, s - 1))
    -  9 * (cubic_position(a, s + 2) - cubic_position(a, s - 2))
    +      (cubic_position(a, s + 3) - cubic_position(a, s - 3))

QuinticDifference(a, s) ==
      45 * (quintic_position(a, s + 1) - quintic_position(a, s - 1))
    -  9 * (quintic_position(a, s + 2) - quintic_position(a, s - 2))
    +      (quintic_position(a, s + 3) - quintic_position(a, s - 3))

LEMMA CubicDerivative ==
  \A q0, q1, T, s \in Int :
     60 * cubic_velocity(Cubic(q0, q1, T, 0, 0), s)
       = CubicDifference(Cubic(q0, q1, T, 0, 0), s)
<1> TAKE q0, q1, T, s \in Int
<1>1. \A a1, a2, a3, a4 \in Int :
         60 * cubic_velocity(<<a1, a2, a3, a4>>, s)
           = CubicDifference(<<a1, a2, a3, a4>>, s)
  BY DEF CubicDifference, cubic_velocity, cubic_position
<1> QED BY <1>1 DEF Cubic

LEMMA QuinticDerivative ==
  \A q0, q1, T, s \in Int :
     60 * quintic_velocity(Quintic(q0, q1, T, 0, 0, 0, 0), s)
       = QuinticDifference(Quintic(q0, q1, T, 0, 0, 0, 0), s)
<1> TAKE q0, q1, T, s \in Int
<1>1. PICK a1, a2, a3, a4, a5, a6 \in Int :
         Quintic(q0, q1, T, 0, 0, 0, 0) = <<a1, a2, a3, a4, a5, a6>>
  BY DEF Quintic
<1>2. 60 * quintic_velocity(<<a1, a2, a3, a4, a5, a6>>, s)
        = QuinticDifference(<<a1, a2, a3, a4, a5, a6>>, s)
  BY DEF QuinticDifference, quintic_velocity, quintic_position
<1> QED BY <1>1, <1>2, Zenon

\* velocity() is the derivative of position() for every joint, target,
\* duration and time.
THEOREM VelocityExact == Spec => []VelocityIsDerivative
<1>1. Constructed => VelocityIsDerivative
  <2> SUFFICES ASSUME Constructed PROVE VelocityIsDerivative OBVIOUS
  <2>1. joint.home \in Int /\ qf \in Int /\ duration_ \in Int /\ t \in Int
    BY TrajectoryAssumption DEF Constructed
  <2>2. CASE kind = "cubic"
    <3> DEFINE c == Cubic(joint.home, qf, duration_, 0, 0)
    <3>1. 60 * cubic_velocity(c, t) = CubicDifference(c, t)
      BY <2>1, CubicDerivative
    <3>2. VelocityAt(t) = cubic_velocity(c, t) /\ \A s : PositionAt(s) = cubic_position(c, s)
      BY <2>2 DEF PositionAt, VelocityAt
    <3> HIDE DEF c
    <3> QED BY <3>1, <3>2 DEF VelocityIsDerivative, CubicDifference
  <2>3. CASE kind = "quintic"
    <3> DEFINE c == Quintic(joint.home, qf, duration_, 0, 0, 0, 0)
    <3>1. 60 * quintic_velocity(c, t) = QuinticDifference(c, t)
      BY <2>1, QuinticDerivative
    <3>2. VelocityAt(t) = quintic_velocity(c, t) /\ \A s : PositionAt(s) = quintic_position(c, s)
      BY <2>3 DEF PositionAt, VelocityAt
    <3> HIDE DEF c
    <3> QED BY <3>1, <3>2 DEF VelocityIsDerivative, QuinticDifference
  <2> QED BY <2>2, <2>3 DEF Constructed
<1> QED BY <1>1, ConstructedStep, PTL
-----------------------------------------------------------------------------
\* The weight of the target never falls: with s <= s2 <= T, d = s2 - s and
\* r = T - s2, the difference is a sum of products of s, d and r.
LEMMA CubicMonotone ==
  ASSUME NEW s \in Nat, NEW d \in Nat, NEW r \in Nat
  PROVE  W3(s + d + r, s + d) - W3(s + d + r, s) \in Nat
<1>1. W3(s + d + r, s + d) - W3(s + d + r, s) = d * (3*(r*(2*s + d)) + 3*(s*d) + d*d)
  BY DEF W3
<1>2. r*(2*s + d) \in Nat /\ s*d \in Nat /\ d*d \in Nat BY ProductNat
<1>3. 3*(r*(2*s + d)) + 3*(s*d) + d*d \in Nat BY <1>2
<1> QED BY <1>1, <1>3, ProductNat

LEMMA QuinticMonotone ==
  ASSUME NEW s \in Nat, NEW d \in Nat, NEW r \in Nat
  PROVE  W5(s + d + r, s + d) - W5(s + d + r, s) \in Nat
<1> DEFINE A == d*d*d*d + 5*(s*(d*d*d)) + 10*(s*s*(d*d))
           B == r * (5*(d*d*d) + 20*(s*(d*d)) + 30*(s*s*d))
           C == r*r * (10*(d*d) + 30*(s*d) + 30*(s*s))
<1>1. W5(s + d + r, s + d) - W5(s + d + r, s) = d * (A + B + C)
  BY DEF W5
<1>2. /\ d*d \in Nat /\ s*d \in Nat /\ s*s \in Nat /\ r*r \in Nat
      /\ d*d*d \in Nat /\ s*(d*d) \in Nat /\ s*s*d \in Nat
      /\ d*d*d*d \in Nat /\ s*(d*d*d) \in Nat /\ s*s*(d*d) \in Nat
  BY ProductNat
<1>3. A \in Nat BY <1>2
<1>4. B \in Nat
  <2>1. 5*(d*d*d) + 20*(s*(d*d)) + 30*(s*s*d) \in Nat BY <1>2
  <2> QED BY <2>1, ProductNat
<1>5. C \in Nat
  <2>1. 10*(d*d) + 30*(s*d) + 30*(s*s) \in Nat BY <1>2
  <2> QED BY <1>2, <2>1, ProductNat
<1>6. A + B + C \in Nat
  <2> HIDE DEF A, B, C
  <2> QED BY <1>3, <1>4, <1>5
<1> HIDE DEF A, B, C
<1> QED BY <1>1, <1>6, ProductNat

\* The move between two times, against the way to the target.
LEMMA CubicMove ==
  \A q0, q1, T, s1, s2 \in Int :
     (q1 - q0) * (cubic_position(Cubic(q0, q1, T, 0, 0), s2)
                    - cubic_position(Cubic(q0, q1, T, 0, 0), s1))
       = ((q1 - q0) * (q1 - q0)) * (W3(T, s2) - W3(T, s1))
  BY DEF cubic_position, Cubic, W3

LEMMA QuinticMove ==
  \A q0, q1, T, s1, s2 \in Int :
     (q1 - q0) * (quintic_position(Quintic(q0, q1, T, 0, 0, 0, 0), s2)
                    - quintic_position(Quintic(q0, q1, T, 0, 0, 0, 0), s1))
       = ((q1 - q0) * (q1 - q0)) * (2 * (W5(T, s2) - W5(T, s1)))
  BY DEF quintic_position, Quintic, W5

LEMMA SquareNat == \A x \in Int : x * x \in Nat
  OBVIOUS

\* A weighted mean lies on the near side of the value it moves to.
LEMMA MeanShort ==
  ASSUME NEW h \in Int, NEW q \in Int, NEW v \in Nat, NEW w \in Nat
  PROVE  (q - h) * (q * (v + w) - (h * v + q * w)) >= 0
<1>1. (q - h) * (q - h) \in Nat BY SquareNat
<1>2. ((q - h) * (q - h)) * v \in Nat BY <1>1, ProductNat
<1>3. (q - h) * (q * (v + w) - (h * v + q * w)) = ((q - h) * (q - h)) * v OBVIOUS
<1> QED BY <1>2, <1>3

\* The target has not been passed.
NotPassed == (qf - joint.home) * (qf * Denominator - PositionAt(tc)) >= 0

LEMMA TargetAhead == Constructed => NotPassed
<1> SUFFICES ASSUME Constructed PROVE NotPassed OBVIOUS
<1>1. PICK v, w \in Nat : /\ Denominator = v + w
                          /\ PositionAt(tc) = joint.home * v + qf * w
  BY PositionIsMean
<1>2. joint.home \in Int /\ qf \in Int BY TrajectoryAssumption DEF Constructed
<1>3. (qf - joint.home) * (qf * (v + w) - (joint.home * v + qf * w)) >= 0
  <2>1. \A h, q \in Int : (q - h) * (q * (v + w) - (h * v + q * w)) >= 0
    BY MeanShort
  <2> QED BY <1>2, <2>1
<1> QED BY <1>1, <1>3 DEF NotPassed

\* For every joint, goal and duration, the positions of successive calls of
\* compute() never turn back and never pass the target.
THEOREM NeverTurns == Spec => NoTurning
<1>1. Constructed /\ [Next]_vars
        => [(qf - joint.home) * (PositionAt(tc)' - PositionAt(tc)) >= 0]_vars
  <2> SUFFICES ASSUME Constructed, Next
               PROVE  (qf - joint.home) * (PositionAt(tc)' - PositionAt(tc)) >= 0
    OBVIOUS
  <2> DEFINE T == duration_  s1 == tc  s2 == tc'
             h == joint.home
  <2>1. /\ UNCHANGED <<generator, kind, joint, qf, duration_>>
        /\ t' \in Nat /\ t <= t'
        /\ t \in Nat /\ T \in Nat
    BY TrajectoryAssumption DEF Constructed, Next, compute, Done, vars
  <2>2. h \in Int /\ qf \in Int /\ T \in Nat /\ s1 \in 0 .. T /\ s2 \in s1 .. T
    BY <2>1, TrajectoryAssumption DEF Constructed, tc, tc_legacy, clamp
  <2> HIDE DEF T, s1, s2, h
  <2>3. s1 \in Nat /\ s2 - s1 \in Nat /\ T - s2 \in Nat /\ s2 \in Int
    BY <2>2
  <2>4. (qf - h) * (qf - h) \in Nat BY <2>2, SquareNat
  <2>5. CASE kind = "cubic"
    <3>1. W3(T, s2) - W3(T, s1) \in Nat
      <4>1. W3(s1 + (s2 - s1) + (T - s2), s1 + (s2 - s1))
              - W3(s1 + (s2 - s1) + (T - s2), s1) \in Nat
        BY <2>3, CubicMonotone
      <4>2. s1 + (s2 - s1) + (T - s2) = T /\ s1 + (s2 - s1) = s2 BY <2>2, <2>3
      <4> QED BY <4>1, <4>2
    <3>2. /\ PositionAt(tc) = cubic_position(Cubic(h, qf, T, 0, 0), s1)
          /\ PositionAt(tc)' = cubic_position(Cubic(h, qf, T, 0, 0), s2)
      BY <2>1, <2>5 DEF PositionAt, T, s1, s2, h
    <3>3. (qf - h) * (PositionAt(tc)' - PositionAt(tc))
            = ((qf - h) * (qf - h)) * (W3(T, s2) - W3(T, s1))
      BY <2>2, <2>3, <3>2, CubicMove
    <3>4. (qf - h) * (PositionAt(tc)' - PositionAt(tc)) \in Nat
      BY <2>4, <3>1, <3>3, ProductNat
    <3> QED BY <3>4 DEF h
  <2>6. CASE kind = "quintic"
    <3>1. 2 * (W5(T, s2) - W5(T, s1)) \in Nat
      <4>1. W5(s1 + (s2 - s1) + (T - s2), s1 + (s2 - s1))
              - W5(s1 + (s2 - s1) + (T - s2), s1) \in Nat
        BY <2>3, QuinticMonotone
      <4>2. s1 + (s2 - s1) + (T - s2) = T /\ s1 + (s2 - s1) = s2 BY <2>2, <2>3
      <4> QED BY <4>1, <4>2
    <3>2. /\ PositionAt(tc) = quintic_position(Quintic(h, qf, T, 0, 0, 0, 0), s1)
          /\ PositionAt(tc)' = quintic_position(Quintic(h, qf, T, 0, 0, 0, 0), s2)
      BY <2>1, <2>6 DEF PositionAt, T, s1, s2, h
    <3>3. (qf - h) * (PositionAt(tc)' - PositionAt(tc))
            = ((qf - h) * (qf - h)) * (2 * (W5(T, s2) - W5(T, s1)))
      BY <2>2, <2>3, <3>2, QuinticMove
    <3>4. (qf - h) * (PositionAt(tc)' - PositionAt(tc)) \in Nat
      BY <2>4, <3>1, <3>3, ProductNat
    <3> QED BY <3>4 DEF h
  <2> QED BY <2>5, <2>6 DEF Constructed
<1>2. NotPassed' /\ [Next]_vars
        => [(qf - joint.home) * (qf * Denominator - PositionAt(tc)') >= 0]_vars
  <2> SUFFICES ASSUME NotPassed', Next
               PROVE  (qf - joint.home) * (qf * Denominator - PositionAt(tc)') >= 0
    OBVIOUS
  <2>1. UNCHANGED <<kind, joint, qf, duration_>> BY DEF Next, compute, Done, vars
  <2>2. Denominator' = Denominator BY <2>1 DEF Denominator
  <2> QED BY <2>1, <2>2 DEF NotPassed
<1>3. Constructed /\ NotPassed' /\ [Next]_vars
        => [LET way == qf - joint.home
            IN  /\ way * (PositionAt(tc)' - PositionAt(tc)) >= 0
                /\ way * (qf * Denominator - PositionAt(tc)') >= 0]_vars
  BY <1>1, <1>2
<1> QED BY <1>3, ConstructedStep, TargetAhead, PTL DEF Spec, NoTurning
-----------------------------------------------------------------------------
(* Cdr: induction and folds *)

\* Induction over the natural numbers, for membership in a set: a least number
\* outside the set would have a predecessor inside it.
LEMMA SetInduction ==
    ASSUME NEW T, 0 \in T, \A n \in Nat : n \in T => n + 1 \in T
    PROVE  \A n \in Nat : n \in T
<1> DEFINE U == Nat \ T
<1>1. SUFFICES ASSUME U # {} PROVE FALSE
    OBVIOUS
<1>2. PICK x \in U : \A y \in U : ~ (<<y, x>> \in OpToRel(<, Nat))
    <2>1. U \subseteq Nat
        OBVIOUS
    <2> HIDE DEF U
    <2> QED BY <1>1, <2>1, WFMin, NatLessThanWellFounded
<1>3. x \in Nat /\ x # 0 /\ x - 1 \in Nat
    OBVIOUS
<1>4. x - 1 \in U
    BY <1>3
<1>5. <<x - 1, x>> \in OpToRel(<, Nat)
    BY <1>3 DEF OpToRel
<1> QED BY <1>2, <1>4, <1>5

\* Folds take a set of indices apart from its largest element down.
LEMMA MaxLast ==
    ASSUME NEW k \in Nat, NEW s \in SUBSET (1 .. k + 1), k + 1 \in s
    PROVE  Max(s) = k + 1 /\ s \ {Max(s)} \in SUBSET (1 .. k)
<1>1. k + 1 \in s /\ \A y \in s : k + 1 >= y
    OBVIOUS
<1>2. Max(s) \in s /\ \A y \in s : Max(s) >= y
    BY <1>1, Zenon DEF Max
<1> HIDE DEF Max
<1>3. Max(s) \in 1 .. k + 1 /\ Max(s) >= k + 1
    BY <1>2
<1>4. Max(s) = k + 1
    BY <1>3
<1> QED BY <1>4

\* So they take 1 .. k apart into k and 1 .. k - 1.
LEMMA MaxPrefix ==
    ASSUME NEW n \in Nat, NEW k \in 1 .. n
    PROVE  /\ 1 .. k \in SUBSET (1 .. n) /\ 1 .. k # {}
           /\ Max(1 .. k) = k /\ (1 .. k) \ {k} = 1 .. k - 1
<1>1. k \in 1 .. k /\ k <= n /\ k - 1 \in Nat /\ (k - 1) + 1 = k
    OBVIOUS
<1>2. 1 .. k \in SUBSET (1 .. n)
    BY <1>1
<1>3. (1 .. k) \ {k} = 1 .. k - 1
    OBVIOUS
<1>4. 1 .. k \in SUBSET (1 .. (k - 1) + 1) /\ (k - 1) + 1 \in 1 .. k
    BY <1>1
<1>5. Max(1 .. k) = k
    BY <1>1, <1>4, MaxLast
<1> QED BY <1>1, <1>2, <1>3, <1>5

\* One round of each of the five loops over the elements of a sequence.
Loop(loop, x, e) ==
    CASE loop = "size"       -> size_string(x, e)
      [] loop = "put_string" -> put_string(x, e)
      [] loop = "put_double" -> Put(x, e, 8, DoubleAlign)
      [] loop = "get_string" -> [get_string(x) EXCEPT !.list = Append(@, get_string(x).v)]
      [] loop = "get_double" -> [Get(x, 8, DoubleAlign) EXCEPT
                                    !.list = Append(@, Get(x, 8, DoubleAlign).v)]

\* The function by which FoldLeft is defined.
Iter(loop, base, v, n, f) ==
    f = [s \in SUBSET (1 .. n) |->
            IF s = {} THEN base ELSE Loop(loop, f[s \ {Max(s)}], v[Max(s)])]

\* g[k] is the result after k rounds.
Rounds(loop, base, v, g) ==
    /\ g[0] = base
    /\ \A k \in 1 .. Len(v) : g[k] = Loop(loop, g[k - 1], v[k])

\* The recursion by which a fold is defined has a solution, on every length.
LEMMA IterExists ==
    ASSUME NEW loop, NEW base, NEW v, NEW n \in Nat
    PROVE  \E f : Iter(loop, base, v, n, f)
<1> DEFINE T == {k \in Nat : \E f : Iter(loop, base, v, k, f)}
<1>1. 0 \in T
    <2>1. Iter(loop, base, v, 0, [s \in SUBSET (1 .. 0) |-> base])
        BY DEF Iter
    <2> QED BY <2>1
<1>2. ASSUME NEW k \in Nat, k \in T PROVE k + 1 \in T
    <2>1. PICK f : Iter(loop, base, v, k, f)
        BY <1>2
    <2> DEFINE h == [s \in SUBSET (1 .. k + 1) |->
                        IF k + 1 \in s THEN Loop(loop, f[s \ {k + 1}], v[k + 1]) ELSE f[s]]
    <2>2. ASSUME NEW s \in SUBSET (1 .. k + 1)
          PROVE  h[s] = IF s = {} THEN base ELSE Loop(loop, h[s \ {Max(s)}], v[Max(s)])
        <3>1. CASE k + 1 \in s
            BY <3>1, MaxLast
        <3>2. CASE k + 1 \notin s
            <4>1. s \in SUBSET (1 .. k)
                BY <3>2
            <4>2. h[s] = IF s = {} THEN base ELSE Loop(loop, f[s \ {Max(s)}], v[Max(s)])
                BY <2>1, <3>2, <4>1 DEF Iter
            <4>3. s \ {Max(s)} \in SUBSET (1 .. k + 1) /\ k + 1 \notin s \ {Max(s)}
                BY <3>2
            <4> QED BY <4>2, <4>3
        <3> QED BY <3>1, <3>2
    <2>3. Iter(loop, base, v, k + 1, h)
        BY <2>2 DEF Iter
    <2> HIDE DEF h
    <2> QED BY <2>3
<1> HIDE DEF T
<1>3. \A k \in Nat : k \in T
    BY <1>1, <1>2, SetInduction
<1> QED BY <1>3 DEF T

\* A solution, restricted to the prefixes 1 .. k, gives the partial results.
LEMMA IterRounds ==
    ASSUME NEW loop, NEW base, NEW v, Len(v) \in Nat, NEW f,
           Iter(loop, base, v, Len(v), f)
    PROVE  Rounds(loop, base, v, [k \in 0 .. Len(v) |-> f[1 .. k]])
<1> DEFINE g == [k \in 0 .. Len(v) |-> f[1 .. k]]
<1>1. g[0] = base
    BY DEF Iter
<1>2. ASSUME NEW k \in 1 .. Len(v) PROVE g[k] = Loop(loop, g[k - 1], v[k])
    <2>1. /\ 1 .. k \in SUBSET (1 .. Len(v)) /\ 1 .. k # {}
          /\ Max(1 .. k) = k /\ (1 .. k) \ {k} = 1 .. k - 1
        BY MaxPrefix
    <2>2. f[1 .. k] = Loop(loop, f[1 .. k - 1], v[k])
        BY <2>1, Zenon DEF Iter
    <2> QED BY <2>2
<1> QED BY <1>1, <1>2 DEF Rounds

\* The loop of the size calculation over strings, by its partial results.
LEMMA SizesFold ==
    ASSUME NEW base, NEW v \in Seq(Nat)
    PROVE  \E g : /\ Rounds("size", base, v, g)
                  /\ FoldLeft(size_string, base, v) = g[Len(v)]
<1> DEFINE Eq(f) == f = [s \in SUBSET (1 .. Len(v)) |->
                            IF s = {} THEN base ELSE size_string(f[s \ {Max(s)}], v[Max(s)])]
           i == CHOOSE f : Eq(f)
<1>1. \A f : Iter("size", base, v, Len(v), f) <=> Eq(f)
    BY DEF Iter, Loop
<1>2. FoldLeft(size_string, base, v) = i[1 .. Len(v)]
    <2>1. DOMAIN v = 1 .. Len(v)
        OBVIOUS
    <2> QED BY <2>1, Zenon DEF FoldLeft, MapThenFoldSet
<1>3. Iter("size", base, v, Len(v), i)
    <2>1. Len(v) \in Nat
        OBVIOUS
    <2> HIDE DEF Eq
    <2> QED BY <1>1, <2>1, IterExists
<1> HIDE DEF i
<1>4. Rounds("size", base, v, [k \in 0 .. Len(v) |-> i[1 .. k]])
    BY <1>3, IterRounds
<1> QED BY <1>2, <1>4

\* The loop that writes strings.
LEMMA PutStringsFold ==
    ASSUME NEW base, NEW v \in Seq(Nat)
    PROVE  \E g : /\ Rounds("put_string", base, v, g)
                  /\ FoldLeft(put_string, base, v) = g[Len(v)]
<1> DEFINE Eq(f) == f = [s \in SUBSET (1 .. Len(v)) |->
                            IF s = {} THEN base ELSE put_string(f[s \ {Max(s)}], v[Max(s)])]
           i == CHOOSE f : Eq(f)
<1>1. \A f : Iter("put_string", base, v, Len(v), f) <=> Eq(f)
    BY DEF Iter, Loop
<1>2. FoldLeft(put_string, base, v) = i[1 .. Len(v)]
    <2>1. DOMAIN v = 1 .. Len(v)
        OBVIOUS
    <2> QED BY <2>1, Zenon DEF FoldLeft, MapThenFoldSet
<1>3. Iter("put_string", base, v, Len(v), i)
    <2>1. Len(v) \in Nat
        OBVIOUS
    <2> HIDE DEF Eq
    <2> QED BY <1>1, <2>1, IterExists
<1> HIDE DEF i
<1>4. Rounds("put_string", base, v, [k \in 0 .. Len(v) |-> i[1 .. k]])
    BY <1>3, IterRounds
<1> QED BY <1>2, <1>4

\* The loop that writes doubles.
LEMMA PutDoublesFold ==
    ASSUME NEW s, NEW v \in Seq(Int)
    PROVE  \E g : /\ Rounds("put_double", Put(s, Len(v), 4, 4), v, g)
                  /\ put_doubles(s, v) = g[Len(v)]
<1> DEFINE base == Put(s, Len(v), 4, 4)
           Eq(f) == f = [s2 \in SUBSET (1 .. Len(v)) |->
                            IF s2 = {} THEN base
                            ELSE Put(f[s2 \ {Max(s2)}], v[Max(s2)], 8, DoubleAlign)]
           i == CHOOSE f : Eq(f)
<1>1. \A f : Iter("put_double", base, v, Len(v), f) <=> Eq(f)
    BY DEF Iter, Loop
<1>2. put_doubles(s, v) = i[1 .. Len(v)]
    <2>1. DOMAIN v = 1 .. Len(v)
        OBVIOUS
    <2> QED BY <2>1, Zenon DEF FoldLeft, MapThenFoldSet, put_doubles
<1>3. Iter("put_double", base, v, Len(v), i)
    <2>1. Len(v) \in Nat
        OBVIOUS
    <2> HIDE DEF Eq
    <2> QED BY <1>1, <2>1, IterExists
<1> HIDE DEF i
<1>4. Rounds("put_double", base, v, [k \in 0 .. Len(v) |-> i[1 .. k]])
    BY <1>3, IterRounds
<1> QED BY <1>2, <1>4

\* The loop that reads doubles, as many as the length says that was read.
LEMMA GetDoublesFold ==
    ASSUME NEW r, Get(r, 4, 4).ok, Get(r, 4, 4).v \in Nat
    PROVE  \E g, u : /\ Len(u) = Get(r, 4, 4).v
                     /\ Rounds("get_double", [Get(r, 4, 4) EXCEPT !.list = <<>>], u, g)
                     /\ get_doubles(r) = g[Len(u)]
<1> DEFINE base == [Get(r, 4, 4) EXCEPT !.list = <<>>]
           n == Get(r, 4, 4).v
           u == [j \in 1 .. n |-> j]
           Eq(f) == f = [s2 \in SUBSET (1 .. n) |->
                            IF s2 = {} THEN base
                            ELSE [Get(f[s2 \ {Max(s2)}], 8, DoubleAlign) EXCEPT
                                    !.list = Append(@, Get(f[s2 \ {Max(s2)}], 8, DoubleAlign).v)]]
           i == CHOOSE f : Eq(f)
<1>1. \A f : Iter("get_double", base, u, n, f) <=> Eq(f)
    <2> HIDE DEF n, base
    <2> QED BY Zenon DEF Iter, Loop
<1>2. get_doubles(r) = i[1 .. n]
    <2>1. DOMAIN u = 1 .. n
        OBVIOUS
    <2> QED BY <2>1, Zenon DEF FoldLeft, MapThenFoldSet, get_doubles, GetSeq
<1>3. Iter("get_double", base, u, n, i)
    <2> HIDE DEF Eq, u, base
    <2> QED BY <1>1, IterExists
<1> HIDE DEF i
<1>4. u \in Seq(Nat) /\ Len(u) = n
    OBVIOUS
<1>5. Rounds("get_double", base, u, [k \in 0 .. Len(u) |-> i[1 .. k]])
    <2> HIDE DEF u, base
    <2> QED BY <1>3, <1>4, IterRounds
<1> QED BY <1>2, <1>4, <1>5

\* The loop that reads strings.
LEMMA GetStringsFold ==
    ASSUME NEW r, Get(r, 4, 4).ok, Get(r, 4, 4).v \in Nat
    PROVE  \E g, u : /\ Len(u) = Get(r, 4, 4).v
                     /\ Rounds("get_string", [Get(r, 4, 4) EXCEPT !.list = <<>>], u, g)
                     /\ GetSeq(r, get_string) = g[Len(u)]
<1> DEFINE base == [Get(r, 4, 4) EXCEPT !.list = <<>>]
           n == Get(r, 4, 4).v
           u == [j \in 1 .. n |-> j]
           Eq(f) == f = [s2 \in SUBSET (1 .. n) |->
                            IF s2 = {} THEN base
                            ELSE [get_string(f[s2 \ {Max(s2)}]) EXCEPT
                                    !.list = Append(@, get_string(f[s2 \ {Max(s2)}]).v)]]
           i == CHOOSE f : Eq(f)
<1>1. \A f : Iter("get_string", base, u, n, f) <=> Eq(f)
    <2> HIDE DEF n, base
    <2> QED BY Zenon DEF Iter, Loop
<1>2. GetSeq(r, get_string) = i[1 .. n]
    <2>1. DOMAIN u = 1 .. n
        OBVIOUS
    <2> QED BY <2>1, Zenon DEF FoldLeft, MapThenFoldSet, GetSeq
<1>3. Iter("get_string", base, u, n, i)
    <2> HIDE DEF Eq, u, base
    <2> QED BY <1>1, IterExists
<1> HIDE DEF i
<1>4. u \in Seq(Nat) /\ Len(u) = n
    OBVIOUS
<1>5. Rounds("get_string", base, u, [k \in 0 .. Len(u) |-> i[1 .. k]])
    <2> HIDE DEF u, base
    <2> QED BY <1>3, <1>4, IterRounds
<1> QED BY <1>2, <1>4, <1>5
-----------------------------------------------------------------------------
(* Cdr: writing *)

\* A byte on the wire.
Cell == Int \X Nat \X Nat

\* t continues s.
Continues(s, s2) == /\ s \in Seq(Cell) /\ s2 \in Seq(Cell) /\ Len(s) <= Len(s2)
                    /\ \A i \in 1 .. Len(s) : s2[i] = s[i]

\* Padding is a natural number; bytes need none.
LEMMA PadType ==
    \A n \in Nat : Pad(n, 1) = 0 /\ \A a \in {1, 4, 8} : Pad(n, a) \in Nat
<1> SUFFICES ASSUME NEW n \in Nat PROVE Pad(n, 1) = 0 /\ \A a \in {1, 4, 8} : Pad(n, a) \in Nat
    OBVIOUS
<1>1. Pad(n, 1) = 0 /\ Pad(n, 4) \in Nat /\ Pad(n, 8) \in Nat
    BY DEF Pad
<1> QED BY <1>1

\* A primitive is written after what is there and the padding.
LEMMA PutFacts ==
    ASSUME NEW s \in Seq(Cell), NEW v \in Int, NEW w \in Nat, NEW a \in {1, 4, 8}
    PROVE  /\ Continues(s, Put(s, v, w, a))
           /\ Pad(Len(s), a) \in Nat
           /\ Len(Put(s, v, w, a)) = Len(s) + Pad(Len(s), a) + w
           /\ \A i \in 1 .. w : Put(s, v, w, a)[Len(s) + Pad(Len(s), a) + i] = <<v, i, w>>
<1> DEFINE p == Pad(Len(s), a)
           x == [i \in 1 .. p |-> <<0, 0, 0>>]
           y == [i \in 1 .. w |-> <<v, i, w>>]
<1>1. p \in Nat
    <2>1. Len(s) \in Nat
        OBVIOUS
    <2> QED BY <2>1, PadType, Zenon
<1> HIDE DEF p
<1>2. x \in Seq(Cell) /\ Len(x) = p
    <2>1. <<0, 0, 0>> \in Cell
        BY DEF Cell
    <2>2. x \in [1 .. p -> Cell]
        BY <2>1
    <2> QED BY <1>1, <2>2
<1>3. y \in Seq(Cell) /\ Len(y) = w /\ \A i \in 1 .. w : y[i] = <<v, i, w>>
    <2>1. \A i \in 1 .. w : <<v, i, w>> \in Cell
        BY DEF Cell
    <2>2. y \in [1 .. w -> Cell]
        BY <2>1
    <2> QED BY <2>2
<1> HIDE DEF x, y
<1>4. Put(s, v, w, a) = (s \o x) \o y
    BY DEF Put, p, x, y
<1> DEFINE z == s \o x
<1>5. /\ z \in Seq(Cell) /\ Len(z) = Len(s) + p
      /\ \A i \in 1 .. Len(s) : z[i] = s[i]
    BY <1>2
<1> HIDE DEF z
<1>6. /\ z \o y \in Seq(Cell) /\ Len(z \o y) = Len(z) + w
      /\ \A i \in 1 .. Len(z) : (z \o y)[i] = z[i]
      /\ \A i \in 1 .. w : (z \o y)[Len(z) + i] = y[i]
    <2>1. /\ z \o y \in Seq(Cell) /\ Len(z \o y) = Len(z) + w
          /\ \A i \in 1 .. Len(z) + w :
                 (z \o y)[i] = IF i <= Len(z) THEN z[i] ELSE y[i - Len(z)]
        BY <1>3, <1>5, ConcatProperties
    <2>2. Len(z) \in Nat
        BY <1>5
    <2>3. \A i \in 1 .. w : Len(z) + i \in 1 .. Len(z) + w /\ ~ Len(z) + i <= Len(z)
                               /\ (Len(z) + i) - Len(z) = i
        BY <2>2
    <2>4. \A i \in 1 .. Len(z) : i \in 1 .. Len(z) + w /\ i <= Len(z)
        BY <2>2
    <2> QED BY <2>1, <2>3, <2>4
<1>7. Put(s, v, w, a) = z \o y /\ Len(z) = Len(s) + p
    BY <1>4, <1>5 DEF z
<1>8. \A i \in 1 .. Len(s) : (z \o y)[i] = s[i]
    BY <1>1, <1>5, <1>6
<1>9. p = Pad(Len(s), a)
    BY DEF p
<1>10. Continues(s, z \o y)
    BY <1>1, <1>6, <1>7, <1>8 DEF Continues
<1>11. \A i \in 1 .. w : (z \o y)[Len(s) + p + i] = <<v, i, w>>
    BY <1>3, <1>6, <1>7
<1> QED BY <1>1, <1>6, <1>7, <1>9, <1>10, <1>11

LEMMA ContinuesTrans ==
    ASSUME NEW s, NEW s2, NEW u, Continues(s, s2), Continues(s2, u)
    PROVE  Continues(s, u)
  BY DEF Continues

\* A string is as long as the size calculation says.
LEMMA PutStringFacts ==
    ASSUME NEW s \in Seq(Cell), NEW n \in Nat
    PROVE  /\ Continues(s, put_string(s, n))
           /\ Len(put_string(s, n)) = size_string(Len(s), n)
<1> DEFINE s2 == Put(s, n + 1, 4, 4)
<1>1. Continues(s, s2) /\ Len(s2) = Len(s) + Pad(Len(s), 4) + 4
    BY PutFacts
<1> HIDE DEF s2
<1>2. s2 \in Seq(Cell) /\ Len(s2) \in Nat
    BY <1>1 DEF Continues
<1>3. Continues(s2, Put(s2, n, n + 1, 1)) /\ Len(Put(s2, n, n + 1, 1)) = Len(s2) + Pad(Len(s2), 1) + (n + 1)
    BY <1>2, PutFacts
<1>4. Pad(Len(s2), 1) = 0 /\ Pad(Len(s), 4) \in Nat
    BY <1>2, PadType
<1>5. put_string(s, n) = Put(s2, n, n + 1, 1)
    BY DEF put_string, s2
<1> QED BY <1>1, <1>3, <1>4, <1>5, ContinuesTrans DEF size_string, SizeOf

\* g is a chain of writes.
Chain(g, n) == /\ \A k \in 0 .. n : g[k] \in Seq(Cell)
               /\ \A k \in 1 .. n : Continues(g[k - 1], g[k])

LEMMA ContinuesSame == ASSUME NEW s \in Seq(Cell) PROVE Continues(s, s)
  BY DEF Continues

\* Each partial result of a writing loop begins with the earlier ones.
LEMMA ChainContinues ==
    ASSUME NEW n \in Nat, NEW g, Chain(g, n)
    PROVE  \A m \in 0 .. n : \A k \in 0 .. m : Continues(g[k], g[m])
<1> DEFINE T == {m \in Nat : m <= n => \A k \in 0 .. m : Continues(g[k], g[m])}
<1>1. 0 \in T
    BY ContinuesSame DEF Chain
<1>2. ASSUME NEW m \in Nat, m \in T PROVE m + 1 \in T
    <2>1. SUFFICES ASSUME m + 1 <= n, NEW k \in 0 .. m + 1
                   PROVE  Continues(g[k], g[m + 1])
        OBVIOUS
    <2>2. m + 1 \in 1 .. n /\ (m + 1) - 1 = m /\ m + 1 \in 0 .. n
        BY <2>1
    <2>3. Continues(g[m], g[m + 1]) /\ g[m + 1] \in Seq(Cell)
        BY <2>2 DEF Chain
    <2>4. CASE k = m + 1
        BY <2>3, <2>4, ContinuesSame
    <2>5. CASE k \in 0 .. m
        <3>1. Continues(g[k], g[m])
            BY <1>2, <2>1, <2>5
        <3> QED BY <2>3, <3>1, ContinuesTrans
    <2> QED BY <2>4, <2>5
<1>3. \A m \in Nat : m \in T
    <2> HIDE DEF T
    <2> QED BY <1>1, <1>2, SetInduction
<1> QED BY <1>3

LEMMA AlignType == ASSUME xcdr2 \in BOOLEAN PROVE DoubleAlign \in {4, 8}
  BY DEF DoubleAlign

\* Every round of a writing loop continues what was written.
LEMMA PutChain ==
    ASSUME xcdr2 \in BOOLEAN, NEW loop, NEW v, NEW base \in Seq(Cell), NEW g,
           \/ loop = "put_double" /\ v \in Seq(Int)
           \/ loop = "put_string" /\ v \in Seq(Nat),
           Rounds(loop, base, v, g)
    PROVE  Chain(g, Len(v))
<1>1. Len(v) \in Nat
    OBVIOUS
<1>2. ASSUME NEW k \in 1 .. Len(v), g[k - 1] \in Seq(Cell)
      PROVE  g[k] \in Seq(Cell) /\ Continues(g[k - 1], g[k])
    <2>1. g[k] = Loop(loop, g[k - 1], v[k])
        BY DEF Rounds
    <2>2. CASE loop = "put_double" /\ v \in Seq(Int)
        <3>1. g[k] = Put(g[k - 1], v[k], 8, DoubleAlign)
            BY <2>1, <2>2 DEF Loop
        <3>2. v[k] \in Int /\ DoubleAlign \in {1, 4, 8} /\ 8 \in Nat
            BY <2>2, AlignType
        <3>3. Continues(g[k - 1], g[k])
            BY <1>2, <3>1, <3>2, PutFacts
        <3> QED BY <3>3 DEF Continues
    <2>3. CASE loop = "put_string" /\ v \in Seq(Nat)
        <3>1. g[k] = put_string(g[k - 1], v[k])
            BY <2>1, <2>3 DEF Loop
        <3>2. v[k] \in Nat
            BY <2>3
        <3>3. Continues(g[k - 1], g[k])
            BY <1>2, <3>1, <3>2, PutStringFacts
        <3> QED BY <3>3 DEF Continues
    <2> QED BY <2>2, <2>3
<1> DEFINE T == {k \in Nat : k <= Len(v) => g[k] \in Seq(Cell)}
<1>3. 0 \in T
    BY DEF Rounds
<1>4. ASSUME NEW k \in Nat, k \in T PROVE k + 1 \in T
    <2>1. SUFFICES ASSUME k + 1 <= Len(v) PROVE g[k + 1] \in Seq(Cell)
        OBVIOUS
    <2>2. k + 1 \in 1 .. Len(v) /\ (k + 1) - 1 = k /\ g[k] \in Seq(Cell)
        BY <1>1, <1>4, <2>1
    <2> QED BY <1>2, <2>2
<1>5. \A k \in Nat : k \in T
    <2> HIDE DEF T
    <2> QED BY <1>3, <1>4, SetInduction
<1>6. \A k \in 0 .. Len(v) : g[k] \in Seq(Cell)
    BY <1>1, <1>5
<1>7. ASSUME NEW k \in 1 .. Len(v) PROVE Continues(g[k - 1], g[k])
    <2>1. k - 1 \in 0 .. Len(v)
        BY <1>1
    <2> QED BY <1>2, <1>6, <2>1
<1> QED BY <1>6, <1>7 DEF Chain

\* The rounds of the five loops.
LEMMA LoopIs ==
    \A x, e : /\ Loop("size", x, e) = size_string(x, e)
              /\ Loop("put_string", x, e) = put_string(x, e)
              /\ Loop("put_double", x, e) = Put(x, e, 8, DoubleAlign)
              /\ Loop("get_string", x, e) =
                    [get_string(x) EXCEPT !.list = Append(@, get_string(x).v)]
              /\ Loop("get_double", x, e) =
                    [Get(x, 8, DoubleAlign) EXCEPT !.list = Append(@, Get(x, 8, DoubleAlign).v)]
  BY DEF Loop

\* Once aligned, doubles follow each other without padding.
LEMMA Packed ==
    \A x, k \in Nat : \A a \in {4, 8} : Pad(x + Pad(x, a) + 8 * k, a) = 0
<1> SUFFICES ASSUME NEW x \in Nat, NEW k \in Nat
             PROVE  \A a \in {4, 8} : Pad(x + Pad(x, a) + 8 * k, a) = 0
    OBVIOUS
<1>1. Pad(x + Pad(x, 4) + 8 * k, 4) = 0
    BY DEF Pad
<1>2. Pad(x + Pad(x, 8) + 8 * k, 8) = 0
    BY DEF Pad
<1> QED BY <1>1, <1>2

\* A sequence of doubles is padded once, before its first element.
LEMMA DoublesLength ==
    ASSUME xcdr2 \in BOOLEAN, NEW v \in Seq(Int), NEW base \in Seq(Cell), NEW g,
           Rounds("put_double", base, v, g), v # <<>>
    PROVE  Len(g[Len(v)]) = Len(base) + Pad(Len(base), DoubleAlign) + 8 * Len(v)
<1> DEFINE m == Len(base)
           A == DoubleAlign
           p == Pad(m, A)
           T == {k \in Nat : k + 1 <= Len(v) => Len(g[k + 1]) = m + p + 8 * (k + 1)}
<1>1. Chain(g, Len(v)) /\ Len(v) \in Nat /\ Len(v) >= 1
    BY PutChain
<1>2. A \in {4, 8} /\ A \in {1, 4, 8} /\ m \in Nat /\ p \in Nat
    <2>1. A \in {4, 8}
        BY AlignType
    <2>2. A \in {1, 4, 8} /\ m \in Nat
        BY <2>1
    <2>3. p \in Nat
        BY <2>2, PadType, Zenon
    <2> QED BY <2>1, <2>2, <2>3
<1>3. ASSUME NEW k \in Nat, k + 1 <= Len(v)
      PROVE  /\ Len(g[k]) \in Nat
             /\ Len(g[k + 1]) = Len(g[k]) + Pad(Len(g[k]), A) + 8
    <2>1. k + 1 \in 1 .. Len(v) /\ (k + 1) - 1 = k /\ k \in 0 .. Len(v)
        BY <1>1, <1>3
    <2>2. g[k] \in Seq(Cell) /\ v[k + 1] \in Int /\ 8 \in Nat
        BY <1>1, <2>1 DEF Chain
    <2>3. g[k + 1] = Put(g[k], v[k + 1], 8, A)
        <3>1. g[k + 1] = Loop("put_double", g[(k + 1) - 1], v[k + 1])
            BY <2>1 DEF Rounds
        <3>2. g[k + 1] = Loop("put_double", g[k], v[k + 1])
            BY <2>1, <3>1
        <3> QED BY <3>2, LoopIs, Zenon
    <2>4. Len(g[k + 1]) = Len(g[k]) + Pad(Len(g[k]), A) + 8
        <3> DEFINE x == g[k]
                   e == v[k + 1]
        <3>1. x \in Seq(Cell) /\ e \in Int /\ 8 \in Nat /\ A \in {1, 4, 8}
            BY <1>2, <2>2
        <3> HIDE DEF x, e, A
        <3>2. Len(Put(x, e, 8, A)) = Len(x) + Pad(Len(x), A) + 8
            BY <3>1, PutFacts
        <3> QED BY <2>3, <3>2 DEF x, e
    <2> QED BY <2>2, <2>4
<1>4. g[0] = base
    BY DEF Rounds
<1>5. 0 \in T
    <2>1. Len(g[0 + 1]) = Len(g[0]) + Pad(Len(g[0]), A) + 8
        BY <1>1, <1>3
    <2> QED BY <1>2, <1>4, <2>1
<1>6. ASSUME NEW k \in Nat, k \in T PROVE k + 1 \in T
    <2>1. SUFFICES ASSUME (k + 1) + 1 <= Len(v)
                   PROVE  Len(g[(k + 1) + 1]) = m + p + 8 * ((k + 1) + 1)
        OBVIOUS
    <2>2. k + 1 \in Nat /\ k + 1 <= Len(v)
        BY <1>1, <2>1
    <2>3. Len(g[k + 1]) = m + p + 8 * (k + 1)
        BY <1>6, <2>2
    <2>4. Len(g[(k + 1) + 1]) = Len(g[k + 1]) + Pad(Len(g[k + 1]), A) + 8
        BY <1>3, <2>1, <2>2
    <2>5. Pad(m + p + 8 * (k + 1), A) = 0
        BY <1>2, <2>2, Packed, Zenon
    <2> HIDE DEF A, m, p
    <2> QED BY <1>2, <2>3, <2>4, <2>5
<1>7. \A k \in Nat : k \in T
    <2> HIDE DEF T
    <2> QED BY <1>5, <1>6, SetInduction
<1>8. Len(v) - 1 \in Nat /\ (Len(v) - 1) + 1 = Len(v)
    BY <1>1
<1>9. Len(g[(Len(v) - 1) + 1]) = m + p + 8 * ((Len(v) - 1) + 1)
    <2>1. Len(v) - 1 \in T
        BY <1>7, <1>8
    <2>2. (Len(v) - 1) + 1 <= Len(v)
        BY <1>1
    <2> QED BY <2>1, <2>2
<1> QED BY <1>8, <1>9

\* A sequence of doubles is as long as the size calculation says, which pads
\* once, while serialisation aligns every element.
LEMMA PutDoublesFacts ==
    ASSUME xcdr2 \in BOOLEAN, NEW s \in Seq(Cell), NEW v \in Seq(Int)
    PROVE  /\ Continues(s, put_doubles(s, v))
           /\ Len(put_doubles(s, v)) = size_doubles(Len(s), v)
<1> DEFINE base == Put(s, Len(v), 4, 4)
<1>1. PICK g : Rounds("put_double", base, v, g) /\ put_doubles(s, v) = g[Len(v)]
    BY PutDoublesFold
<1>2. /\ Continues(s, base) /\ base \in Seq(Cell)
      /\ Len(base) = SizeOf(Len(s), 4, 4)
    <2>1. Len(v) \in Int /\ 4 \in Nat
        OBVIOUS
    <2> QED BY <2>1, PutFacts DEF Continues, SizeOf
<1> HIDE DEF base
<1>3. Chain(g, Len(v)) /\ g[0] = base /\ Len(v) \in Nat
    <2>1. Chain(g, Len(v)) /\ Len(v) \in Nat
        BY <1>1, <1>2, PutChain
    <2> QED BY <1>1, <2>1 DEF Rounds
<1>4. Continues(base, g[Len(v)])
    <2>1. Len(v) \in 0 .. Len(v) /\ 0 \in 0 .. Len(v)
        BY <1>3
    <2> QED BY <1>3, <2>1, ChainContinues
<1>5. Continues(s, put_doubles(s, v))
    BY <1>1, <1>2, <1>4, ContinuesTrans
<1>6. CASE v = <<>>
    BY <1>1, <1>2, <1>3, <1>6 DEF size_doubles
<1>7. CASE v # <<>>
    <2>1. Len(put_doubles(s, v)) = Len(base) + Pad(Len(base), DoubleAlign) + 8 * Len(v)
        BY <1>1, <1>2, <1>7, DoublesLength
    <2>2. size_doubles(Len(s), v) = Len(base) + Pad(Len(base), DoubleAlign) + 8 * Len(v)
        BY <1>2, <1>7, Zenon DEF size_doubles, SizeOf
    <2> QED BY <1>5, <2>1, <2>2
<1> QED BY <1>5, <1>6, <1>7

\* Strings, one by one, are as long as the size calculation says.
LEMMA StringsLength ==
    ASSUME xcdr2 \in BOOLEAN, NEW v \in Seq(Nat), NEW base \in Seq(Cell)
    PROVE  /\ Continues(base, FoldLeft(put_string, base, v))
           /\ Len(FoldLeft(put_string, base, v)) = FoldLeft(size_string, Len(base), v)
<1>1. PICK g : Rounds("put_string", base, v, g) /\ FoldLeft(put_string, base, v) = g[Len(v)]
    BY PutStringsFold
<1>2. PICK h : Rounds("size", Len(base), v, h) /\ FoldLeft(size_string, Len(base), v) = h[Len(v)]
    BY SizesFold
<1>3. Chain(g, Len(v)) /\ g[0] = base /\ h[0] = Len(base) /\ Len(v) \in Nat
    <2>1. Chain(g, Len(v)) /\ Len(v) \in Nat
        BY <1>1, PutChain
    <2> QED BY <1>1, <1>2, <2>1 DEF Rounds
<1>4. Continues(base, g[Len(v)])
    <2>1. Len(v) \in 0 .. Len(v) /\ 0 \in 0 .. Len(v)
        BY <1>3
    <2> QED BY <1>3, <2>1, ChainContinues
<1> DEFINE T == {k \in Nat : k <= Len(v) => Len(g[k]) = h[k]}
<1>5. 0 \in T
    BY <1>3
<1>6. ASSUME NEW k \in Nat, k \in T PROVE k + 1 \in T
    <2>1. SUFFICES ASSUME k + 1 <= Len(v) PROVE Len(g[k + 1]) = h[k + 1]
        OBVIOUS
    <2>2. k + 1 \in 1 .. Len(v) /\ (k + 1) - 1 = k /\ k \in 0 .. Len(v) /\ Len(g[k]) = h[k]
        BY <1>3, <1>6, <2>1
    <2>3. v[k + 1] \in Nat /\ g[k] \in Seq(Cell)
        BY <1>3, <2>2 DEF Chain
    <2>4. g[k + 1] = put_string(g[k], v[k + 1])
        <3>1. g[k + 1] = Loop("put_string", g[(k + 1) - 1], v[k + 1])
            BY <1>1, <2>2 DEF Rounds
        <3> QED BY <2>2, <3>1 DEF Loop
    <2>5. h[k + 1] = size_string(h[k], v[k + 1])
        <3>1. h[k + 1] = Loop("size", h[(k + 1) - 1], v[k + 1])
            BY <1>2, <2>2 DEF Rounds
        <3> QED BY <2>2, <3>1 DEF Loop
    <2> QED BY <2>2, <2>3, <2>4, <2>5, PutStringFacts
<1>7. \A k \in Nat : k \in T
    <2> HIDE DEF T
    <2> QED BY <1>5, <1>6, SetInduction
<1> QED BY <1>1, <1>2, <1>3, <1>4, <1>7

\* put_strings before the byte length is filled in: up to the elements, with
\* the number of elements, and with them.
Opened(s) == IF xcdr2 THEN Put(s, 0, 4, 4) ELSE s
Counted(s, v) == Put(Opened(s), Len(v), 4, 4)
Listed(s, v) == FoldLeft(put_string, Counted(s, v), v)

LEMMA OpenedFacts ==
    ASSUME xcdr2 \in BOOLEAN, NEW s \in Seq(Cell)
    PROVE  /\ Continues(s, Opened(s)) /\ Opened(s) \in Seq(Cell)
           /\ Len(Opened(s)) = IF xcdr2 THEN SizeOf(Len(s), 4, 4) ELSE Len(s)
<1>1. Continues(s, s)
    BY ContinuesSame
<1>2. Continues(s, Put(s, 0, 4, 4)) /\ Len(Put(s, 0, 4, 4)) = SizeOf(Len(s), 4, 4)
    BY PutFacts DEF SizeOf
<1>3. Continues(s, Opened(s)) /\ Len(Opened(s)) = IF xcdr2 THEN SizeOf(Len(s), 4, 4) ELSE Len(s)
    BY <1>1, <1>2, Zenon DEF Opened
<1> QED BY <1>3 DEF Continues

LEMMA ListedFacts ==
    ASSUME xcdr2 \in BOOLEAN, NEW s \in Seq(Cell), NEW v \in Seq(Nat)
    PROVE  /\ Counted(s, v) \in Seq(Cell)
           /\ Continues(Opened(s), Counted(s, v))
           /\ Continues(Counted(s, v), Listed(s, v))
           /\ Len(Listed(s, v)) = size_strings(Len(s), v)
<1>1. Opened(s) \in Seq(Cell) /\ Len(v) \in Int /\ 4 \in Nat
    BY OpenedFacts
<1>2. /\ Continues(Opened(s), Counted(s, v))
      /\ Len(Counted(s, v)) = SizeOf(Len(Opened(s)), 4, 4)
    BY <1>1, PutFacts DEF Counted, SizeOf
<1>3. Counted(s, v) \in Seq(Cell)
    BY <1>2 DEF Continues
<1>4. /\ Continues(Counted(s, v), Listed(s, v))
      /\ Len(Listed(s, v)) = FoldLeft(size_string, Len(Counted(s, v)), v)
    BY <1>3, StringsLength DEF Listed
<1>5. Len(Counted(s, v)) = SizeOf(IF xcdr2 THEN SizeOf(Len(s), 4, 4) ELSE Len(s), 4, 4)
    BY <1>2, OpenedFacts
<1>6. Len(Listed(s, v)) = size_strings(Len(s), v)
    BY <1>4, <1>5, Zenon DEF size_strings
<1> QED BY <1>2, <1>3, <1>4, <1>6

\* Filling in the length changes only its own bytes.
LEMMA PutStringsFacts ==
    ASSUME xcdr2 \in BOOLEAN, NEW s \in Seq(Cell), NEW v \in Seq(Nat)
    PROVE  /\ Continues(s, put_strings(s, v))
           /\ Len(put_strings(s, v)) = size_strings(Len(s), v)
           /\ Len(Listed(s, v)) = Len(put_strings(s, v))
           /\ \A i \in Len(Opened(s)) + 1 .. Len(Listed(s, v)) :
                  put_strings(s, v)[i] = Listed(s, v)[i]
           /\ xcdr2 => \E n \in Int : Continues(Put(s, n, 4, 4), put_strings(s, v))
<1> DEFINE r == Opened(s)
           d == Listed(s, v)
           n == Len(d) - Len(r)
           h == Put(s, n, 4, 4)
           x == SubSeq(d, Len(r) + 1, Len(d))
<1>1. /\ Continues(s, r) /\ Continues(r, d) /\ Len(d) = size_strings(Len(s), v)
      /\ d \in Seq(Cell) /\ r \in Seq(Cell) /\ Len(r) <= Len(d) /\ Len(r) \in Nat /\ Len(d) \in Nat
    <2>1. Continues(s, r) /\ Continues(r, d) /\ Len(d) = size_strings(Len(s), v)
        BY OpenedFacts, ListedFacts, ContinuesTrans
    <2> HIDE DEF r, d
    <2> QED BY <2>1 DEF Continues
<1>2. CASE ~xcdr2
    <2>1. put_strings(s, v) = d
        BY <1>2, Zenon DEF put_strings, Listed, Counted, Opened
    <2>2. Continues(s, d)
        BY <1>1, ContinuesTrans
    <2> HIDE DEF d
    <2> QED BY <1>1, <1>2, <2>1, <2>2 DEF d
<1>3. CASE xcdr2
    <2>1. put_strings(s, v) = h \o x
        BY <1>3, Zenon DEF put_strings, Listed, Counted, Opened
    <2>2. n \in Int /\ 4 \in Nat
        BY <1>1
    <2>3. Continues(s, h) /\ h \in Seq(Cell) /\ Len(h) = Len(r)
        <3>1. Continues(s, h) /\ Len(h) = SizeOf(Len(s), 4, 4)
            <4> HIDE DEF n
            <4> QED BY <2>2, PutFacts DEF SizeOf
        <3>2. Len(r) = SizeOf(Len(s), 4, 4)
            BY <1>3, OpenedFacts
        <3> HIDE DEF h, r
        <3> QED BY <3>1, <3>2 DEF Continues
    <2> HIDE DEF r, d, h
    <2>4. x \in Seq(Cell) /\ Len(x) = Len(d) - Len(r)
          /\ \A i \in 1 .. Len(d) - Len(r) : x[i] = d[Len(r) + i]
        BY <1>1, SubSeqProperties
    <2> HIDE DEF x
    <2> DEFINE z == h \o x
    <2>5. /\ z \in Seq(Cell) /\ Len(z) = Len(h) + Len(x)
          /\ \A i \in 1 .. Len(h) + Len(x) :
                 z[i] = IF i <= Len(h) THEN h[i] ELSE x[i - Len(h)]
        BY <2>3, <2>4, ConcatProperties
    <2> HIDE DEF z
    <2>6. Len(z) = Len(d)
        BY <1>1, <2>3, <2>4, <2>5
    <2>7. Continues(h, z)
        BY <1>1, <2>3, <2>4, <2>5 DEF Continues
    <2>8. ASSUME NEW i \in Len(r) + 1 .. Len(d) PROVE z[i] = d[i]
        <3>1. i - Len(r) \in 1 .. Len(d) - Len(r) /\ Len(r) + (i - Len(r)) = i
            BY <1>1
        <3>2. z[i] = x[i - Len(r)]
            <4>1. i \in 1 .. Len(h) + Len(x) /\ ~ (i <= Len(h)) /\ Len(h) = Len(r)
                BY <1>1, <2>3, <2>4
            <4>2. z[i] = x[i - Len(h)]
                BY <2>5, <4>1
            <4> QED BY <4>1, <4>2
        <3> QED BY <2>4, <3>1, <3>2
    <2>9. Continues(s, z)
        BY <2>3, <2>7, ContinuesTrans
    <2>10. put_strings(s, v) = z
        BY <2>1 DEF z
    <2>11. \E m \in Int : Continues(Put(s, m, 4, 4), z)
        BY <2>2, <2>7 DEF h
    <2> QED BY <1>1, <2>6, <2>8, <2>9, <2>10, <2>11 DEF r, d
<1> QED BY <1>2, <1>3

\* The header is as long as the size calculation says.
LEMMA PutHeaderFacts ==
    ASSUME NEW s \in Seq(Cell), NEW d \in JointState
    PROVE  /\ Continues(s, put_header(s, d))
           /\ Len(put_header(s, d)) = size_header(Len(s), d)
<1> DEFINE s2 == Put(s, d.sec, 4, 4)
           u == Put(s2, d.nanosec, 4, 4)
<1>1. d.sec \in Int /\ d.nanosec \in Int /\ d.frame_id \in Nat /\ 4 \in Nat
    BY DEF JointState
<1>2. Continues(s, s2) /\ s2 \in Seq(Cell) /\ Len(s2) = SizeOf(Len(s), 4, 4)
    BY <1>1, PutFacts DEF Continues, SizeOf
<1> HIDE DEF s2
<1>3. Continues(s2, u) /\ u \in Seq(Cell) /\ Len(u) = SizeOf(Len(s2), 4, 4)
    <2>1. Continues(s2, u) /\ Len(u) = Len(s2) + Pad(Len(s2), 4) + 4
        BY <1>1, <1>2, PutFacts
    <2> QED BY <2>1 DEF Continues, SizeOf
<1> HIDE DEF u
<1>4. Continues(u, put_string(u, d.frame_id)) /\ Len(put_string(u, d.frame_id)) = size_string(Len(u), d.frame_id)
    BY <1>1, <1>3, PutStringFacts
<1>5. put_header(s, d) = put_string(u, d.frame_id)
    BY DEF put_header, put_time, s2, u
<1>6. Continues(s, put_string(u, d.frame_id))
    BY <1>2, <1>3, <1>4, ContinuesTrans
<1> QED BY <1>2, <1>3, <1>4, <1>5, <1>6 DEF size_header, size_time

\* The parts of a serialised sample.
WithNames(d)      == put_strings(put_header(<<>>, d), d.name)
WithPositions(d)  == put_doubles(WithNames(d), d.position)
WithVelocities(d) == put_doubles(WithPositions(d), d.velocity)
Serialised(d)     == put_joint_state(<<>>, d)

\* A sample is as long as calculate_serialized_size() says, and each of its
\* members continues what was written before it.
LEMMA SerialisedFacts ==
    ASSUME xcdr2 \in BOOLEAN, NEW d \in JointState
    PROVE  /\ Serialised(d) \in Seq(Cell)
           /\ Len(Serialised(d)) + Encapsulation = calculate_serialized_size(d)
           /\ Serialised(d) = put_doubles(WithVelocities(d), d.effort)
           /\ put_header(<<>>, d) \in Seq(Cell)
           /\ Continues(put_header(<<>>, d), Serialised(d))
           /\ Continues(WithNames(d), Serialised(d))
           /\ Continues(WithPositions(d), Serialised(d))
           /\ Continues(WithVelocities(d), Serialised(d))
           /\ Len(put_header(<<>>, d)) = size_header(0, d)
           /\ Len(WithNames(d)) = size_strings(Len(put_header(<<>>, d)), d.name)
           /\ Len(WithPositions(d)) = size_doubles(Len(WithNames(d)), d.position)
           /\ Len(WithVelocities(d)) = size_doubles(Len(WithPositions(d)), d.velocity)
           /\ Len(Serialised(d)) = size_doubles(Len(WithVelocities(d)), d.effort)
<1> DEFINE h == put_header(<<>>, d)
           n == WithNames(d)
           p == WithPositions(d)
           v == WithVelocities(d)
           e == put_doubles(v, d.effort)
<1>1. /\ d.name \in Seq(Nat) /\ d.position \in Seq(Int)
      /\ d.velocity \in Seq(Int) /\ d.effort \in Seq(Int)
    BY DEF JointState
<1>2. h \in Seq(Cell) /\ Len(h) = size_header(0, d)
    <2>1. <<>> \in Seq(Cell) /\ Len(<<>>) = 0
        OBVIOUS
    <2>2. Continues(<<>>, h) /\ Len(h) = size_header(Len(<<>>), d)
        BY <2>1, PutHeaderFacts
    <2> QED BY <2>1, <2>2 DEF Continues
<1> HIDE DEF h
<1>3. Continues(h, n) /\ n \in Seq(Cell) /\ Len(n) = size_strings(Len(h), d.name)
    <2>1. n = put_strings(h, d.name)
        BY DEF WithNames, h
    <2>2. /\ Continues(h, put_strings(h, d.name))
          /\ Len(put_strings(h, d.name)) = size_strings(Len(h), d.name)
        BY <1>1, <1>2, PutStringsFacts
    <2> QED BY <2>1, <2>2 DEF Continues
<1> HIDE DEF n
<1>4. Continues(n, p) /\ p \in Seq(Cell) /\ Len(p) = size_doubles(Len(n), d.position)
    <2>1. p = put_doubles(n, d.position)
        BY DEF WithPositions, n
    <2>2. /\ Continues(n, put_doubles(n, d.position))
          /\ Len(put_doubles(n, d.position)) = size_doubles(Len(n), d.position)
        BY <1>1, <1>3, PutDoublesFacts
    <2> QED BY <2>1, <2>2 DEF Continues
<1> HIDE DEF p
<1>5. Continues(p, v) /\ v \in Seq(Cell) /\ Len(v) = size_doubles(Len(p), d.velocity)
    <2>1. v = put_doubles(p, d.velocity)
        BY DEF WithVelocities, p
    <2>2. /\ Continues(p, put_doubles(p, d.velocity))
          /\ Len(put_doubles(p, d.velocity)) = size_doubles(Len(p), d.velocity)
        BY <1>1, <1>4, PutDoublesFacts
    <2> QED BY <2>1, <2>2 DEF Continues
<1> HIDE DEF v
<1>6. Continues(v, e) /\ e \in Seq(Cell) /\ Len(e) = size_doubles(Len(v), d.effort)
    BY <1>1, <1>5, PutDoublesFacts DEF Continues
<1> HIDE DEF e
<1>7. Serialised(d) = e
    BY DEF Serialised, put_joint_state, e, v, p, n, h, WithVelocities, WithPositions, WithNames
<1>8. Len(e) + Encapsulation = calculate_serialized_size(d)
    BY <1>2, <1>3, <1>4, <1>5, <1>6 DEF calculate_serialized_size, size_joint_state
<1>9. Continues(h, e) /\ Continues(n, e) /\ Continues(p, e)
    <2>1. Continues(p, e)
        BY <1>5, <1>6, ContinuesTrans
    <2>2. Continues(n, e)
        BY <1>4, <2>1, ContinuesTrans
    <2>3. Continues(h, e)
        BY <1>3, <2>2, ContinuesTrans
    <2> QED BY <2>1, <2>2, <2>3
<1>10. e = put_doubles(v, d.effort)
    BY DEF e
<1> QED BY <1>2, <1>3, <1>4, <1>5, <1>6, <1>7, <1>8, <1>9, <1>10 DEF h, n, p, v
-----------------------------------------------------------------------------
(* Cdr: reading *)

\* The members of a JointState, those of its header included.
Member == {"sec", "nanosec", "frame_id", "name", "position", "velocity", "effort"}

\* A data object, whatever its members hold.
IsObject(d) == d = [m \in Member |-> d[m]]

\* A reader with given fields.
Reader(b, p, o, v, l, d) == [buf |-> b, pos |-> p, ok |-> o, v |-> v, list |-> l, d |-> d]

IsReader(r) == \E b, p, o, v, l, d : r = Reader(b, p, o, v, l, d)

\* r reads buffer b, and has read what a complete payload holds in its first
\* n cells, unless b is shorter: then it has failed.
Reads(r, b, n) ==
    /\ IsReader(r)
    /\ r.buf = b /\ IsObject(r.d)
    /\ r.ok \in BOOLEAN
    /\ r.ok => r.pos = n
    /\ r.ok <=> n <= Len(b)

\* What b has after the first n cells is what s has there.
Agrees(b, s, n) == \A i \in n + 1 .. Len(s) : i <= Len(b) => b[i] = s[i]

\* The four ways a reader is changed.
WithOk(r, z)   == [r EXCEPT !.ok = z]
Moved(r, m, x) == [r EXCEPT !.pos = m, !.v = x]
WithList(r, z) == [r EXCEPT !.list = z]
WithD(r, z)    == [r EXCEPT !.d = z]

\* A primitive of w bytes starts after the first p cells of b.
Holds(b, p, w) == /\ p + w <= Len(b)
                  /\ \A i \in 1 .. w : b[p + i] = <<b[p + 1][1], i, w>>

LEMMA GetIs ==
    ASSUME NEW r, NEW w, NEW a, NEW p, NEW b, p = r.pos + Pad(r.pos, a), r.buf = b
    PROVE  Get(r, w, a) =
             IF r.ok /\ Holds(b, p, w) THEN Moved(r, p + w, b[p + 1][1])
             ELSE WithOk(r, FALSE)
  BY Zenon DEF Get, Moved, WithOk, Holds

\* Each of them changes the fields it names and no other.
LEMMA SetOk ==
    ASSUME NEW r, IsReader(r), NEW z
    PROVE  /\ IsReader(WithOk(r, z))
           /\ WithOk(r, z).buf = r.buf /\ WithOk(r, z).pos = r.pos
           /\ WithOk(r, z).ok = z /\ WithOk(r, z).v = r.v
           /\ WithOk(r, z).list = r.list /\ WithOk(r, z).d = r.d
<1>1. PICK b, p, o, v, l, d : r = Reader(b, p, o, v, l, d)
    BY DEF IsReader
<1>2. WithOk(r, z) = Reader(b, p, z, v, l, d)
    <2>1. [Reader(b, p, o, v, l, d) EXCEPT !.ok = z] = Reader(b, p, z, v, l, d)
        BY DEF Reader
    <2> QED BY <1>1, <2>1 DEF WithOk
<1>3. IsReader(WithOk(r, z))
    BY <1>2 DEF IsReader
<1> QED BY <1>1, <1>2, <1>3 DEF Reader

LEMMA SetMoved ==
    ASSUME NEW r, IsReader(r), NEW m, NEW x
    PROVE  /\ IsReader(Moved(r, m, x))
           /\ Moved(r, m, x).buf = r.buf /\ Moved(r, m, x).pos = m
           /\ Moved(r, m, x).ok = r.ok /\ Moved(r, m, x).v = x
           /\ Moved(r, m, x).list = r.list /\ Moved(r, m, x).d = r.d
<1>1. PICK b, p, o, v, l, d : r = Reader(b, p, o, v, l, d)
    BY DEF IsReader
<1>2. Moved(r, m, x) = Reader(b, m, o, x, l, d)
    <2>1. [Reader(b, p, o, v, l, d) EXCEPT !.pos = m] = Reader(b, m, o, v, l, d)
        BY DEF Reader
    <2>2. [Reader(b, m, o, v, l, d) EXCEPT !.v = x] = Reader(b, m, o, x, l, d)
        BY DEF Reader
    <2>3. Moved(r, m, x) = [[r EXCEPT !.pos = m] EXCEPT !.v = x]
        BY DEF Moved
    <2> QED BY <1>1, <2>1, <2>2, <2>3
<1>3. IsReader(Moved(r, m, x))
    BY <1>2 DEF IsReader
<1> QED BY <1>1, <1>2, <1>3 DEF Reader

LEMMA SetList ==
    ASSUME NEW r, IsReader(r), NEW z
    PROVE  /\ IsReader(WithList(r, z))
           /\ WithList(r, z).buf = r.buf /\ WithList(r, z).pos = r.pos
           /\ WithList(r, z).ok = r.ok /\ WithList(r, z).v = r.v
           /\ WithList(r, z).list = z /\ WithList(r, z).d = r.d
<1>1. PICK b, p, o, v, l, d : r = Reader(b, p, o, v, l, d)
    BY DEF IsReader
<1>2. WithList(r, z) = Reader(b, p, o, v, z, d)
    <2>1. [Reader(b, p, o, v, l, d) EXCEPT !.list = z] = Reader(b, p, o, v, z, d)
        BY DEF Reader
    <2> QED BY <1>1, <2>1 DEF WithList
<1>3. IsReader(WithList(r, z))
    BY <1>2 DEF IsReader
<1> QED BY <1>1, <1>2, <1>3 DEF Reader

LEMMA SetD ==
    ASSUME NEW r, IsReader(r), NEW z
    PROVE  /\ IsReader(WithD(r, z))
           /\ WithD(r, z).buf = r.buf /\ WithD(r, z).pos = r.pos
           /\ WithD(r, z).ok = r.ok /\ WithD(r, z).v = r.v
           /\ WithD(r, z).list = r.list /\ WithD(r, z).d = z
<1>1. PICK b, p, o, v, l, d : r = Reader(b, p, o, v, l, d)
    BY DEF IsReader
<1>2. WithD(r, z) = Reader(b, p, o, v, l, z)
    <2>1. [Reader(b, p, o, v, l, d) EXCEPT !.d = z] = Reader(b, p, o, v, l, z)
        BY DEF Reader
    <2> QED BY <1>1, <2>1 DEF WithD
<1>3. IsReader(WithD(r, z))
    BY <1>2 DEF IsReader
<1> QED BY <1>1, <1>2, <1>3 DEF Reader

\* A reader that fails where the buffer is too short is where it should be.
LEMMA ReaderFails ==
    ASSUME NEW r, NEW b, NEW n, NEW m, Reads(r, b, n), ~ (m <= Len(b)),
           NEW q, q = WithOk(r, FALSE)
    PROVE  Reads(q, b, m) /\ q.d = r.d /\ q.list = r.list /\ ~q.ok
<1>1. ASSUME NEW z
      PROVE  /\ IsReader(WithOk(r, z)) /\ WithOk(r, z).buf = r.buf /\ WithOk(r, z).ok = z
             /\ WithOk(r, z).list = r.list /\ WithOk(r, z).d = r.d
    BY SetOk DEF Reads
<1>2. IsReader(q) /\ q.buf = r.buf /\ q.ok = FALSE /\ q.list = r.list /\ q.d = r.d
    BY <1>1, Zenon
<1> QED BY <1>2 DEF Reads

LEMMA ReaderMoves ==
    ASSUME NEW r, NEW b, NEW n, Reads(r, b, n), n <= Len(b), NEW m, m <= Len(b), NEW x
    PROVE  /\ Reads(Moved(r, m, x), b, m) /\ Moved(r, m, x).d = r.d
           /\ Moved(r, m, x).list = r.list /\ Moved(r, m, x).v = x
<1>1. IsReader(r)
    BY DEF Reads
<1>2. \A k : /\ IsReader(Moved(r, k, x))
             /\ Moved(r, k, x).buf = r.buf /\ Moved(r, k, x).pos = k
             /\ Moved(r, k, x).ok = r.ok /\ Moved(r, k, x).v = x
             /\ Moved(r, k, x).list = r.list /\ Moved(r, k, x).d = r.d
    BY <1>1, SetMoved
<1>3. Reads(Moved(r, m, x), b, m)
    <2>1. r.ok /\ r.buf = b /\ IsObject(r.d)
        BY DEF Reads
    <2> QED BY <1>2, <2>1 DEF Reads
<1> QED BY <1>2, <1>3

\* A primitive is read back from where it was written; when it is not all
\* there, reading fails.
LEMMA GetStep ==
    ASSUME NEW b \in Seq(Cell), NEW s \in Seq(Cell), NEW v \in Int, NEW w \in Nat, w # 0,
           NEW a \in {1, 4, 8}, NEW r, Reads(r, b, Len(s)),
           Agrees(b, Put(s, v, w, a), Len(s))
    PROVE  /\ Reads(Get(r, w, a), b, Len(Put(s, v, w, a)))
           /\ Get(r, w, a).d = r.d /\ Get(r, w, a).list = r.list
           /\ Len(Put(s, v, w, a)) <= Len(b) => Get(r, w, a).v = v
<1> DEFINE s2 == Put(s, v, w, a)
           p == Len(s) + Pad(Len(s), a)
<1>1. /\ p \in Nat /\ Len(s) <= p /\ Len(s2) = p + w /\ Len(s) \in Nat
      /\ \A i \in 1 .. w : s2[p + i] = <<v, i, w>>
    <2>1. /\ Pad(Len(s), a) \in Nat /\ Len(s2) = Len(s) + Pad(Len(s), a) + w
          /\ \A i \in 1 .. w : s2[Len(s) + Pad(Len(s), a) + i] = <<v, i, w>>
        BY PutFacts
    <2>2. Len(s) \in Nat
        OBVIOUS
    <2> HIDE DEF s2
    <2> QED BY <2>1, <2>2
<1>2. Len(b) \in Nat /\ r.buf = b
    BY DEF Reads
<1> HIDE DEF s2
<1>3. CASE ~r.ok
    <2>1. ~ (Len(s2) <= Len(b))
        BY <1>1, <1>2, <1>3 DEF Reads
    <2>2. Get(r, w, a) = WithOk(r, FALSE)
        BY <1>2, <1>3, GetIs, Zenon
    <2> QED BY <2>1, <2>2, ReaderFails DEF s2
<1>4. CASE r.ok /\ ~ (Len(s2) <= Len(b))
    <2>1. r.pos = Len(s)
        BY <1>4 DEF Reads
    <2>2. p = r.pos + Pad(r.pos, a)
        BY <2>1
    <2>3. ~Holds(b, p, w)
        BY <1>1, <1>2, <1>4 DEF Holds
    <2> HIDE DEF p
    <2>4. Get(r, w, a) = WithOk(r, FALSE)
        BY <1>2, <2>2, <2>3, GetIs, Zenon
    <2> QED BY <1>4, <2>4, ReaderFails DEF s2
<1>5. CASE r.ok /\ Len(s2) <= Len(b)
    <2>1. r.pos = Len(s)
        BY <1>5 DEF Reads
    <2>2. p = r.pos + Pad(r.pos, a)
        BY <2>1
    <2> HIDE DEF p
    <2>3. ASSUME NEW i \in 1 .. w PROVE b[p + i] = <<v, i, w>>
        <3>1. p + i \in Len(s) + 1 .. Len(s2) /\ p + i <= Len(b)
            BY <1>1, <1>2, <1>5
        <3>2. b[p + i] = s2[p + i]
            BY <3>1 DEF Agrees, s2
        <3> QED BY <1>1, <3>2
    <2>4. b[p + 1] = <<v, 1, w>> /\ b[p + 1][1] = v
        <3>1. 1 \in 1 .. w
            OBVIOUS
        <3> QED BY <2>3, <3>1
    <2>5. \A i \in 1 .. w : b[p + i] = <<b[p + 1][1], i, w>>
        BY <2>3, <2>4
    <2>6. Holds(b, p, w)
        BY <1>1, <1>2, <1>5, <2>5 DEF Holds
    <2>7. Get(r, w, a) = Moved(r, p + w, v)
        <3>1. Get(r, w, a) = Moved(r, p + w, b[p + 1][1])
            BY <1>2, <1>5, <2>2, <2>6, GetIs, Zenon
        <3> QED BY <2>4, <3>1
    <2>8. Get(r, w, a) = Moved(r, Len(s2), v)
        BY <1>1, <2>7
    <2>9. /\ Reads(Get(r, w, a), b, Len(s2)) /\ Get(r, w, a).d = r.d
          /\ Get(r, w, a).list = r.list /\ Get(r, w, a).v = v
        <3>1. \A m, x : m <= Len(b) =>
                  /\ Reads(Moved(r, m, x), b, m) /\ Moved(r, m, x).d = r.d
                  /\ Moved(r, m, x).list = r.list /\ Moved(r, m, x).v = x
            <4>1. Len(s) <= Len(b)
                BY <1>5 DEF Reads
            <4> SUFFICES ASSUME NEW m, NEW x, m <= Len(b)
                         PROVE  /\ Reads(Moved(r, m, x), b, m) /\ Moved(r, m, x).d = r.d
                                /\ Moved(r, m, x).list = r.list /\ Moved(r, m, x).v = x
                OBVIOUS
            <4> QED BY <4>1, ReaderMoves
        <3>2. /\ Reads(Moved(r, Len(s2), v), b, Len(s2)) /\ Moved(r, Len(s2), v).d = r.d
              /\ Moved(r, Len(s2), v).list = r.list /\ Moved(r, Len(s2), v).v = v
            BY <1>5, <3>1, Zenon
        <3> QED BY <2>8, <3>2
    <2> QED BY <2>9 DEF s2
<1> QED BY <1>3, <1>4, <1>5

LEMMA AgreesPart ==
    ASSUME NEW b \in Seq(Cell), NEW s, NEW s2, Continues(s, s2), NEW m \in Nat, NEW n \in Nat,
           Agrees(b, s2, m), m <= n
    PROVE  Agrees(b, s, n)
<1> SUFFICES ASSUME NEW i \in n + 1 .. Len(s), i <= Len(b) PROVE b[i] = s[i]
    BY DEF Agrees
<1>1. Len(s) \in Nat /\ Len(s2) \in Nat /\ Len(s) <= Len(s2)
    BY DEF Continues
<1>2. i \in 1 .. Len(s) /\ i \in m + 1 .. Len(s2)
    BY <1>1
<1> QED BY <1>2 DEF Agrees, Continues

\* A string is read back.
LEMMA GetStringStep ==
    ASSUME NEW b \in Seq(Cell), NEW s \in Seq(Cell), NEW n \in Nat,
           NEW r, Reads(r, b, Len(s)), Agrees(b, put_string(s, n), Len(s))
    PROVE  /\ Reads(get_string(r), b, Len(put_string(s, n)))
           /\ get_string(r).d = r.d /\ get_string(r).list = r.list
           /\ Len(put_string(s, n)) <= Len(b) => get_string(r).v = n
<1> DEFINE s2 == Put(s, n + 1, 4, 4)
           u == put_string(s, n)
           q == Get(r, 4, 4)
<1>1. Continues(s, s2) /\ s2 \in Seq(Cell)
    BY PutFacts DEF Continues
<1>2. Continues(s2, u) /\ u = Put(s2, n, n + 1, 1)
    <2>1. u = Put(s2, n, n + 1, 1)
        BY DEF put_string
    <2> HIDE DEF s2
    <2> QED BY <1>1, <2>1, PutFacts
<1>3. Len(s) <= Len(s2) /\ Len(s2) <= Len(u) /\ Len(s) \in Nat /\ Len(s2) \in Nat /\ Len(u) \in Nat
    <2> HIDE DEF s2, u
    <2> QED BY <1>1, <1>2 DEF Continues
<1>4. Agrees(b, s2, Len(s)) /\ Agrees(b, u, Len(s2))
    <2>1. Agrees(b, s2, Len(s))
        BY <1>2, <1>3, AgreesPart
    <2>2. Continues(u, u)
        BY <1>2, ContinuesSame DEF Continues
    <2> QED BY <1>3, <2>1, <2>2, AgreesPart
<1>5. /\ Reads(q, b, Len(s2)) /\ q.d = r.d /\ q.list = r.list
      /\ Len(s2) <= Len(b) => q.v = n + 1
    BY <1>4, GetStep
<1> HIDE DEF s2, u, q
<1>6. get_string(r) = IF q.ok THEN Get(q, q.v, 1) ELSE q
    BY DEF get_string, q
<1>7. CASE Len(s2) <= Len(b)
    <2>1. q.ok /\ q.v = n + 1
        BY <1>5, <1>7 DEF Reads
    <2>2. get_string(r) = Get(q, n + 1, 1)
        BY <1>6, <2>1
    <2>3. /\ Reads(Get(q, n + 1, 1), b, Len(u)) /\ Get(q, n + 1, 1).d = q.d
          /\ Get(q, n + 1, 1).list = q.list
          /\ Len(u) <= Len(b) => Get(q, n + 1, 1).v = n
        <3>1. n + 1 \in Nat /\ n + 1 # 0 /\ n \in Int
            OBVIOUS
        <3> QED BY <1>1, <1>2, <1>4, <1>5, <3>1, GetStep
    <2> QED BY <1>5, <2>2, <2>3 DEF u
<1>8. CASE ~ (Len(s2) <= Len(b))
    <2>1. ~q.ok
        BY <1>5, <1>8 DEF Reads
    <2>2. get_string(r) = q
        BY <1>6, <2>1
    <2>3. ~ (Len(u) <= Len(b)) /\ Len(b) \in Nat
        BY <1>3, <1>8
    <2>4. Reads(q, b, Len(u))
        BY <1>5, <2>1, <2>3 DEF Reads
    <2> QED BY <1>5, <2>2, <2>3, <2>4 DEF u
<1> QED BY <1>7, <1>8

\* A writing loop over the sequence v, and the loop that reads it back.
Writes(loop, v) == \/ loop = "put_double" /\ v \in Seq(Int)
                   \/ loop = "put_string" /\ v \in Seq(Nat)

Undoing(loop) == IF loop = "put_double" THEN "get_double" ELSE "get_string"

\* What the two loops start from: after base, P writes v; q, at the end of
\* base in b, reads as many elements through G.
Loops(loop, v, base, P, b, q, u, G) ==
    /\ Writes(loop, v) /\ base \in Seq(Cell) /\ Rounds(loop, base, v, P)
    /\ b \in Seq(Cell) /\ Agrees(b, P[Len(v)], Len(base))
    /\ Reads(q, b, Len(base)) /\ q.list = <<>>
    /\ Len(u) = Len(v) /\ Rounds(Undoing(loop), q, u, G)

\* e has read v, and nothing else, at the end of s2; or b is shorter than s2.
HasRead(e, v, s2, b, r) == /\ Reads(e, b, Len(s2)) /\ e.d = r.d
                           /\ Len(s2) <= Len(b) => e.list = v

\* A reading loop undoes the writing loop: after k rounds it has the first k
\* elements.
LEMMA ReadRounds ==
    ASSUME xcdr2 \in BOOLEAN,
           NEW loop, NEW v, NEW base, NEW P, NEW b, NEW q, NEW u, NEW G,
           Loops(loop, v, base, P, b, q, u, G)
    PROVE  HasRead(G[Len(v)], v, P[Len(v)], b, q)
<1> SUFFICES /\ Reads(G[Len(v)], b, Len(P[Len(v)])) /\ G[Len(v)].d = q.d
             /\ Len(P[Len(v)]) <= Len(b) => G[Len(v)].list = v
    BY DEF HasRead
<1> USE DEF Loops
<1> USE DEF Writes, Undoing
<1>1. Chain(P, Len(v)) /\ Len(v) \in Nat
    BY PutChain
<1>2. P[0] = base /\ G[0] = q
    BY DEF Rounds
<1>3. \A k \in 0 .. Len(v) : P[k] \in Seq(Cell) /\ Len(P[k]) \in Nat /\ Len(base) <= Len(P[k])
                             /\ Continues(P[k], P[Len(v)])
    <2> TAKE k \in 0 .. Len(v)
    <2>1. Len(v) \in 0 .. Len(v) /\ 0 \in 0 .. k /\ k \in 0 .. Len(v)
        BY <1>1
    <2>2. Continues(P[k], P[Len(v)]) /\ Continues(P[0], P[k])
        BY <1>1, <2>1, ChainContinues
    <2> QED BY <1>2, <2>2 DEF Continues
<1> DEFINE Good(k) == /\ Reads(G[k], b, Len(P[k])) /\ G[k].d = q.d
                      /\ Len(P[k]) <= Len(b) =>
                            /\ G[k].list \in Seq(Int) /\ Len(G[k].list) = k
                            /\ \A i \in 1 .. k : G[k].list[i] = v[i]
           T == {k \in Nat : k <= Len(v) => Good(k)}
<1>4. 0 \in T
    <2>1. Good(0)
        <3>1. /\ Reads(q, b, Len(base)) /\ q.list \in Seq(Int) /\ Len(q.list) = 0
              /\ \A i \in 1 .. 0 : q.list[i] = v[i]
            OBVIOUS
        <3> QED BY <1>2, <3>1, Zenon
    <2> QED BY <2>1
<1>5. ASSUME NEW k \in Nat, k \in T PROVE k + 1 \in T
    <2>1. SUFFICES ASSUME k + 1 <= Len(v) PROVE Good(k + 1)
        OBVIOUS
    <2>2. /\ k + 1 \in 1 .. Len(v) /\ (k + 1) - 1 = k /\ k \in 0 .. Len(v) /\ k + 1 \in 0 .. Len(v)
          /\ k + 1 \in 1 .. Len(u)
        BY <1>1, <2>1
    <2>3. Good(k)
        BY <1>1, <1>5, <2>2
    <2> DEFINE s == P[k]
               s2 == P[k + 1]
               x == v[k + 1]
               r == G[k]
               e == IF loop = "put_double" THEN Get(r, 8, DoubleAlign) ELSE get_string(r)
    <2>4. Agrees(b, s2, Len(s)) /\ s \in Seq(Cell) /\ s2 \in Seq(Cell) /\ Continues(s, s2)
        <3>1. Continues(s2, P[Len(v)]) /\ Len(s) \in Nat /\ Len(base) <= Len(s) /\ Len(base) \in Nat
              /\ s \in Seq(Cell) /\ s2 \in Seq(Cell)
            BY <1>3, <2>2
        <3>2. Continues(s, s2)
            BY <1>1, <2>2 DEF Chain
        <3> HIDE DEF s, s2
        <3> QED BY <3>1, <3>2, AgreesPart
    <2>5. Reads(r, b, Len(s))
        BY <2>3
    <2>6. /\ Reads(e, b, Len(s2)) /\ e.d = r.d /\ e.list = r.list
          /\ Len(s2) <= Len(b) => e.v = x
        <3>1. CASE loop = "put_double" /\ v \in Seq(Int)
            <4>1. s2 = Put(s, x, 8, DoubleAlign)
                <5>1. s2 = Loop("put_double", P[(k + 1) - 1], x)
                    BY <2>2, <3>1 DEF Rounds
                <5>2. s2 = Loop("put_double", s, x)
                    BY <2>2, <5>1
                <5> QED BY <5>2, LoopIs, Zenon
            <4>2. x \in Int /\ DoubleAlign \in {1, 4, 8} /\ 8 \in Nat /\ 8 # 0
                BY <2>2, <3>1, AlignType
            <4>3. e = Get(r, 8, DoubleAlign)
                BY <3>1
            <4> DEFINE A == DoubleAlign
            <4>4. A \in {1, 4, 8} /\ s2 = Put(s, x, 8, A) /\ e = Get(r, 8, A)
                BY <4>1, <4>2, <4>3
            <4> HIDE DEF s, s2, x, r, e, A
            <4>5. Agrees(b, Put(s, x, 8, A), Len(s))
                BY <2>4, <4>4
            <4>6. /\ Reads(Get(r, 8, A), b, Len(Put(s, x, 8, A)))
                  /\ Get(r, 8, A).d = r.d /\ Get(r, 8, A).list = r.list
                  /\ Len(Put(s, x, 8, A)) <= Len(b) => Get(r, 8, A).v = x
                BY <2>4, <2>5, <4>2, <4>4, <4>5, GetStep
            <4> QED BY <4>4, <4>6, Zenon
        <3>2. CASE loop = "put_string" /\ v \in Seq(Nat)
            <4>1. s2 = put_string(s, x)
                <5>1. s2 = Loop("put_string", P[(k + 1) - 1], x)
                    BY <2>2, <3>2 DEF Rounds
                <5>2. s2 = Loop("put_string", s, x)
                    BY <2>2, <5>1
                <5> QED BY <5>2, LoopIs, Zenon
            <4>2. x \in Nat
                BY <2>2, <3>2
            <4>3. e = get_string(r)
                BY <3>2
            <4> HIDE DEF s, s2, x, r, e
            <4> QED BY <2>4, <2>5, <4>1, <4>2, <4>3, GetStringStep
        <3> QED BY <3>1, <3>2
    <2>7. G[k + 1] = WithList(e, Append(e.list, e.v))
        <3>1. CASE loop = "put_double"
            <4>1. G[k + 1] = Loop("get_double", G[(k + 1) - 1], u[k + 1])
                BY <2>2, <3>1 DEF Rounds
            <4>2. G[k + 1] = Loop("get_double", r, u[k + 1])
                BY <2>2, <4>1
            <4>3. e = Get(r, 8, DoubleAlign)
                BY <3>1
            <4> HIDE DEF e, r
            <4> QED BY <4>2, <4>3, LoopIs, Zenon DEF WithList
        <3>2. CASE loop = "put_string"
            <4>1. G[k + 1] = Loop("get_string", G[(k + 1) - 1], u[k + 1])
                BY <2>2, <3>2 DEF Rounds
            <4>2. G[k + 1] = Loop("get_string", r, u[k + 1])
                BY <2>2, <4>1
            <4>3. e = get_string(r)
                BY <3>2
            <4> HIDE DEF e, r
            <4> QED BY <4>2, <4>3, LoopIs, Zenon DEF WithList
        <3> QED BY <3>1, <3>2
    <2> DEFINE w == WithList(e, Append(e.list, e.v))
    <2>8. /\ IsReader(w) /\ w.buf = e.buf /\ w.pos = e.pos /\ w.ok = e.ok
          /\ w.list = Append(e.list, e.v) /\ w.d = e.d
        <3>1. IsReader(e)
            BY <2>6 DEF Reads
        <3> HIDE DEF e
        <3> QED BY <3>1, SetList
    <2> HIDE DEF w
    <2>9. Reads(w, b, Len(s2))
        <3> HIDE DEF e
        <3> QED BY <2>6, <2>8 DEF Reads
    <2>10. ASSUME Len(s2) <= Len(b)
           PROVE  /\ w.list \in Seq(Int) /\ Len(w.list) = k + 1
                  /\ \A i \in 1 .. k + 1 : w.list[i] = v[i]
        <3>1. Len(s) <= Len(b)
            <4> HIDE DEF s, s2
            <4> QED BY <2>4, <2>10 DEF Continues
        <3>2. e.v = x /\ x \in Int
            BY <2>2, <2>6, <2>10
        <3>3. e.list \in Seq(Int) /\ Len(e.list) = k /\ \A i \in 1 .. k : e.list[i] = v[i]
            <4>1. e.list = G[k].list
                BY <2>6
            <4> HIDE DEF e
            <4> QED BY <2>3, <3>1, <4>1
        <3>4. w.list = Append(e.list, x)
            BY <2>8, <3>2
        <3> HIDE DEF e
        <3>5. w.list \in Seq(Int) /\ Len(w.list) = k + 1 /\ w.list[k + 1] = x
              /\ \A i \in 1 .. k : w.list[i] = e.list[i]
            <4> HIDE DEF x
            <4> QED BY <3>2, <3>3, <3>4
        <3>6. ASSUME NEW i \in 1 .. k + 1 PROVE w.list[i] = v[i]
            <4>1. CASE i = k + 1
                BY <3>5, <4>1
            <4>2. CASE i \in 1 .. k
                BY <3>3, <3>5, <4>2
            <4> QED BY <4>1, <4>2
        <3> QED BY <3>5, <3>6
    <2>11. w.d = q.d
        BY <2>3, <2>6, <2>8
    <2>12. G[k + 1] = w
        BY <2>7 DEF w
    <2> HIDE DEF e
    <2> QED BY <2>9, <2>10, <2>11, <2>12
<1>6. \A k \in Nat : k \in T
    <2> HIDE DEF T
    <2> QED BY <1>4, <1>5, SetInduction
<1>7. Good(Len(v))
    <2>1. Len(v) \in T /\ Len(v) <= Len(v)
        BY <1>1, <1>6
    <2> HIDE DEF Good
    <2> QED BY <2>1
<1>8. ASSUME Len(P[Len(v)]) <= Len(b) PROVE G[Len(v)].list = v
    <2> DEFINE l == G[Len(v)].list
    <2>1. l \in Seq(Int) /\ Len(l) = Len(v) /\ \A i \in 1 .. Len(v) : l[i] = v[i]
        BY <1>7, <1>8
    <2>2. v \in Seq(Int)
        <3>1. \A x \in Seq(Nat) : x \in Seq(Int)
            OBVIOUS
        <3>2. v \in Seq(Int) \/ v \in Seq(Nat)
            BY Zenon
        <3> QED BY <3>1, <3>2, Zenon
    <2> HIDE DEF l, Loops, Writes
    <2>3. l = v
        BY <2>1, <2>2
    <2> QED BY <2>3 DEF l
<1> QED BY <1>7, <1>8

\* e is what becomes of the reader n that has read the length of a sequence.
ReadsElements(loop, n, e) ==
    /\ ~n.ok => e = n
    /\ n.ok /\ n.v \in Nat =>
         \E g, u : /\ Len(u) = n.v /\ e = g[Len(u)]
                   /\ Rounds(Undoing(loop), WithList(n, <<>>), u, g)

\* r is at the end of s in b, where the sequence v follows as P writes it; e is
\* the reader after it, as GetSeq computes it.
Follows(loop, v, s, P, b, r, e) ==
    /\ Writes(loop, v) /\ s \in Seq(Cell) /\ Rounds(loop, Put(s, Len(v), 4, 4), v, P)
    /\ b \in Seq(Cell) /\ Agrees(b, P[Len(v)], Len(s))
    /\ Reads(r, b, Len(s)) /\ ReadsElements(loop, Get(r, 4, 4), e)

\* A sequence is read back: first its length, then its elements.
LEMMA GetSeqStep ==
    ASSUME xcdr2 \in BOOLEAN,
           NEW loop, NEW v, NEW s, NEW P, NEW b, NEW r, NEW e,
           Follows(loop, v, s, P, b, r, e)
    PROVE  HasRead(e, v, P[Len(v)], b, r)
<1> SUFFICES /\ Reads(e, b, Len(P[Len(v)])) /\ e.d = r.d
             /\ Len(P[Len(v)]) <= Len(b) => e.list = v
    BY DEF HasRead
<1> USE DEF Follows
<1> DEFINE n == Get(r, 4, 4)
<1> DEFINE base == Put(s, Len(v), 4, 4)
           done == P[Len(v)]
<1>1. Len(v) \in Nat /\ Len(v) \in Int /\ 4 \in Nat /\ 4 # 0 /\ 4 \in {1, 4, 8}
    BY DEF Writes
<1>2. Continues(s, base) /\ base \in Seq(Cell)
    BY <1>1, PutFacts DEF Continues
<1>3. Continues(base, done) /\ P[0] = base
    <2>1. P[0] = base
        BY DEF Rounds
    <2> HIDE DEF base
    <2>2. Chain(P, Len(v))
        BY <1>2, PutChain DEF base, Writes
    <2>3. Len(v) \in 0 .. Len(v) /\ 0 \in 0 .. Len(v)
        BY <1>1
    <2> QED BY <1>1, <2>1, <2>2, <2>3, ChainContinues
<1>4. /\ Len(s) \in Nat /\ Len(base) \in Nat /\ Len(done) \in Nat /\ Len(s) <= Len(base)
      /\ Len(base) <= Len(done) /\ done \in Seq(Cell) /\ Len(b) \in Nat
    <2> HIDE DEF base, done
    <2> QED BY <1>2, <1>3 DEF Continues
<1>5. Agrees(b, base, Len(s)) /\ Agrees(b, done, Len(base))
    <2>1. Agrees(b, done, Len(s)) /\ Continues(done, done)
        BY <1>4, ContinuesSame
    <2> HIDE DEF base, done
    <2> QED BY <1>3, <1>4, <2>1, AgreesPart
<1>6. /\ Reads(n, b, Len(base)) /\ n.d = r.d
      /\ Len(base) <= Len(b) => n.v = Len(v)
    <2> DEFINE x == Len(v)
    <2>1. x \in Int /\ Agrees(b, Put(s, x, 4, 4), Len(s))
        BY <1>1, <1>5
    <2> HIDE DEF x
    <2>2. /\ Reads(Get(r, 4, 4), b, Len(Put(s, x, 4, 4)))
          /\ Get(r, 4, 4).d = r.d
          /\ Len(Put(s, x, 4, 4)) <= Len(b) => Get(r, 4, 4).v = x
        BY <1>1, <2>1, GetStep
    <2> QED BY <2>2, Zenon DEF x
<1> HIDE DEF base, done, n
<1>7. CASE Len(base) <= Len(b)
    <2>1. n.ok /\ n.v = Len(v) /\ n.v \in Nat
        BY <1>1, <1>6, <1>7 DEF Reads
    <2>2. PICK g, u : /\ Len(u) = n.v /\ e = g[Len(u)]
                      /\ Rounds(Undoing(loop),
                                WithList(n, <<>>), u, g)
        BY <2>1 DEF ReadsElements, n
    <2> DEFINE q == WithList(n, <<>>)
    <2>3. /\ IsReader(q) /\ q.buf = n.buf /\ q.pos = n.pos /\ q.ok = n.ok
          /\ q.list = <<>> /\ q.d = n.d
        <3>1. IsReader(n)
            BY <1>6 DEF Reads
        <3> QED BY <3>1, SetList
    <2> HIDE DEF q
    <2>4. Reads(q, b, Len(base)) /\ q.d = r.d
        BY <1>6, <2>3 DEF Reads
    <2>5. Rounds(Undoing(loop), q, u, g)
        BY <2>2 DEF q
    <2>6. Rounds(loop, base, v, P) /\ Agrees(b, P[Len(v)], Len(base)) /\ Len(u) = Len(v)
        BY <1>5, <2>1, <2>2 DEF base, done
    <2>7. /\ Reads(g[Len(v)], b, Len(P[Len(v)])) /\ g[Len(v)].d = q.d
          /\ Len(P[Len(v)]) <= Len(b) => g[Len(v)].list = v
        <3>1. Loops(loop, v, base, P, b, q, u, g)
            BY <1>2, <2>3, <2>4, <2>5, <2>6 DEF Loops
        <3>2. HasRead(g[Len(v)], v, P[Len(v)], b, q)
            BY <3>1, ReadRounds, Zenon
        <3> QED BY <3>2 DEF HasRead
    <2>8. e = g[Len(v)]
        BY <2>2, <2>6
    <2> QED BY <2>4, <2>7, <2>8
<1>8. CASE ~ (Len(base) <= Len(b))
    <2>1. ~n.ok /\ e = n
        BY <1>6, <1>8 DEF Reads, ReadsElements, n
    <2>2. ~ (Len(done) <= Len(b))
        BY <1>4, <1>8
    <2>3. Reads(n, b, Len(done))
        BY <1>6, <2>1, <2>2 DEF Reads
    <2> QED BY <1>6, <2>1, <2>2, <2>3 DEF done
<1> QED BY <1>7, <1>8

\* A sequence of doubles is read back.
LEMMA GetDoublesStep ==
    ASSUME xcdr2 \in BOOLEAN, NEW v \in Seq(Int), NEW s \in Seq(Cell), NEW b \in Seq(Cell),
           NEW r, Reads(r, b, Len(s)), Agrees(b, put_doubles(s, v), Len(s))
    PROVE  HasRead(get_doubles(r), v, put_doubles(s, v), b, r)
<1>1. PICK P : /\ Rounds("put_double", Put(s, Len(v), 4, 4), v, P)
               /\ put_doubles(s, v) = P[Len(v)]
    BY PutDoublesFold
<1> DEFINE n == Get(r, 4, 4)
           e == get_doubles(r)
<1>2. ~n.ok => e = n
    BY Zenon DEF get_doubles, GetSeq
<1>3. ASSUME n.ok, n.v \in Nat
      PROVE  \E g, u : /\ Len(u) = n.v /\ e = g[Len(u)]
                       /\ Rounds("get_double", WithList(n, <<>>), u, g)
    BY <1>3, GetDoublesFold, Zenon DEF WithList
<1>4. Writes("put_double", v) /\ Undoing("put_double") = "get_double"
    BY DEF Writes, Undoing
<1> HIDE DEF n, e
<1>5. ReadsElements("put_double", n, e)
    BY <1>2, <1>3, <1>4 DEF ReadsElements
<1>6. Follows("put_double", v, s, P, b, r, e)
    BY <1>1, <1>4, <1>5 DEF Follows, n
<1> QED BY <1>1, <1>6, GetSeqStep, Zenon DEF e

\* The same for strings; the length that XCDRv2 has before them is skipped.
LEMMA GetStringsStep ==
    ASSUME xcdr2 \in BOOLEAN, NEW v \in Seq(Nat), NEW s \in Seq(Cell), NEW b \in Seq(Cell),
           NEW r, Reads(r, b, Len(s)), Agrees(b, put_strings(s, v), Len(s))
    PROVE  HasRead(get_strings(r), v, put_strings(s, v), b, r)
<1> DEFINE s2 == Opened(s)
           z == Listed(s, v)
           w == put_strings(s, v)
           o == IF xcdr2 THEN Get(r, 4, 4) ELSE r
           n == Get(o, 4, 4)
           e == get_strings(r)
<1>1. /\ s2 \in Seq(Cell) /\ Continues(s, s2) /\ w \in Seq(Cell) /\ Len(z) = Len(w)
      /\ \A i \in Len(s2) + 1 .. Len(z) : w[i] = z[i]
      /\ Len(s) \in Nat /\ Len(s2) \in Nat /\ Len(s) <= Len(s2) /\ Len(z) \in Nat
    <2>1. /\ s2 \in Seq(Cell) /\ Continues(s, s2)
        BY OpenedFacts
    <2>2. /\ Continues(s, w) /\ Len(z) = Len(w)
          /\ \A i \in Len(s2) + 1 .. Len(z) : w[i] = z[i]
        BY PutStringsFacts
    <2> HIDE DEF s2, z, w
    <2>3. w \in Seq(Cell) /\ Len(s) <= Len(s2)
        BY <2>1, <2>2, Zenon DEF Continues
    <2>4. Len(s) \in Nat /\ Len(s2) \in Nat /\ Len(w) \in Nat
        BY <2>1, <2>3
    <2> QED BY <2>1, <2>2, <2>3, <2>4
<1>2. Reads(o, b, Len(s2)) /\ o.d = r.d
    <2>1. CASE xcdr2
        <3>1. PICK m \in Int : Continues(Put(s, m, 4, 4), w)
            BY <2>1, PutStringsFacts
        <3>2. Agrees(b, Put(s, m, 4, 4), Len(s))
            <4> DEFINE y == Put(s, m, 4, 4)
            <4>1. Continues(y, w) /\ Agrees(b, w, Len(s))
                BY <3>1
            <4> HIDE DEF w, y
            <4>2. Agrees(b, y, Len(s))
                <5>1. Len(s) \in Nat /\ Len(s) <= Len(s)
                    BY <1>1
                <5> QED BY <4>1, <5>1, AgreesPart
            <4> QED BY <4>2 DEF y
        <3>3. Reads(Get(r, 4, 4), b, Len(Put(s, m, 4, 4))) /\ Get(r, 4, 4).d = r.d
            <4>1. 4 \in Nat /\ 4 # 0 /\ 4 \in {1, 4, 8}
                OBVIOUS
            <4> HIDE DEF o, e, n, s2, z, w
            <4> QED BY <3>2, <4>1, GetStep
        <3>4. Len(Put(s, m, 4, 4)) = Len(s2)
            <4>1. Len(Put(s, m, 4, 4)) = SizeOf(Len(s), 4, 4)
                <5>1. 4 \in Nat /\ 4 \in {1, 4, 8}
                    OBVIOUS
                <5>2. Len(Put(s, m, 4, 4)) = Len(s) + Pad(Len(s), 4) + 4
                    BY <5>1, PutFacts
                <5> QED BY <5>2 DEF SizeOf
            <4>2. Len(s2) = SizeOf(Len(s), 4, 4)
                <5>1. Len(s2) = IF xcdr2 THEN SizeOf(Len(s), 4, 4) ELSE Len(s)
                    BY OpenedFacts
                <5> QED BY <2>1, <5>1, Zenon
            <4> QED BY <4>1, <4>2
        <3> QED BY <2>1, <3>3, <3>4
    <2>2. CASE ~xcdr2
        <3>1. o = r /\ s2 = s
            BY <2>2 DEF Opened
        <3> QED BY <3>1
    <2> QED BY <2>1, <2>2
<1>3. PICK P : Rounds("put_string", Put(s2, Len(v), 4, 4), v, P) /\ z = P[Len(v)]
    <2>1. PICK P : /\ Rounds("put_string", Put(s2, Len(v), 4, 4), v, P)
                   /\ FoldLeft(put_string, Put(s2, Len(v), 4, 4), v) = P[Len(v)]
        BY PutStringsFold
    <2> QED BY <2>1, Zenon DEF Listed, Counted
<1>4. e = GetSeq(o, get_string)
    BY Zenon DEF get_strings
<1>5. ~n.ok => e = n
    BY <1>4, Zenon DEF GetSeq
<1>6. ASSUME n.ok, n.v \in Nat
      PROVE  \E g, u : /\ Len(u) = n.v /\ e = g[Len(u)]
                       /\ Rounds("get_string", WithList(n, <<>>), u, g)
    <2> HIDE DEF o
    <2> QED BY <1>4, <1>6, GetStringsFold, Zenon DEF WithList
<1>7. Writes("put_string", v) /\ Undoing("put_string") = "get_string"
    BY DEF Writes, Undoing
<1>8. Agrees(b, z, Len(s2))
    <2>1. Agrees(b, w, Len(s))
        OBVIOUS
    <2> HIDE DEF s2, z, w
    <2> QED BY <1>1, <2>1 DEF Agrees
<1>9. ReadsElements("put_string", n, e)
    <2> HIDE DEF n, e
    <2> QED BY <1>5, <1>6, <1>7 DEF ReadsElements
<1> HIDE DEF o, e, s2, z, w
<1>10. Follows("put_string", v, s2, P, b, o, e)
    BY <1>1, <1>2, <1>3, <1>7, <1>8, <1>9 DEF Follows
<1>11. HasRead(e, v, z, b, o)
    BY <1>3, <1>10, GetSeqStep, Zenon
<1>12. HasRead(e, v, w, b, r)
    BY <1>1, <1>2, <1>11 DEF HasRead
<1> QED BY <1>12 DEF e, w

\* Where members end: n is the end of the last of the members M.
EndOf(n, E, M) == /\ n \in Nat /\ n \in {0} \cup {E[m] : m \in M}
                  /\ \A m \in M : E[m] \in Nat /\ E[m] <= n

\* An object into which the members M of d that end within l bytes were read,
\* and which held o before.
Merged(x, E, M, l, d, o) ==
    \A m \in Member : x[m] = IF m \in M /\ E[m] <= l THEN d[m] ELSE o[m]

\* r has gone through the members M of a payload of d, up to n, in buffer b.  It
\* has failed unless b is long enough or ends between two of them.
Progress(r, b, n, E, M, d, o) ==
    /\ EndOf(n, E, M)
    /\ IsReader(r) /\ r.buf = b /\ IsObject(r.d) /\ r.ok \in BOOLEAN
    /\ r.ok => r.pos = IF n <= Len(b) THEN n ELSE Len(b)
    /\ r.ok <=> n <= Len(b) \/ Len(b) \in {0} \cup {E[m] : m \in M}
    /\ r.ok => Merged(r.d, E, M, Len(b), d, o)

\* Reading on from q at k, e is at n and has read x, which should be y.
Advances(q, b, k, e, n, x, y) ==
    Reads(q, b, k) => /\ Reads(e, b, n) /\ e.d = q.d
                      /\ n <= Len(b) => x = y

\* Assigning to one member of an object.
WithMember(o, f, x) == [o EXCEPT ![f] = x]

LEMMA SetMember ==
    ASSUME NEW o, IsObject(o), NEW f \in Member, NEW x
    PROVE  /\ IsObject(WithMember(o, f, x)) /\ WithMember(o, f, x)[f] = x
           /\ \A m \in Member \ {f} : WithMember(o, f, x)[m] = o[m]
<1> DEFINE z == WithMember(o, f, x)
<1>1. DOMAIN o = Member
    BY DEF IsObject
<1>2. z = [m \in Member |-> IF m = f THEN x ELSE o[m]]
    BY <1>1 DEF WithMember
<1> HIDE DEF z
<1>3. ASSUME NEW m \in Member PROVE z[m] = IF m = f THEN x ELSE o[m]
    BY <1>2
<1>4. z = [m \in Member |-> z[m]]
    BY <1>2
<1>5. IsObject(z) /\ z[f] = x /\ \A m \in Member \ {f} : z[m] = o[m]
    BY <1>3, <1>4 DEF IsObject
<1> QED BY <1>5 DEF z

\* One round of the member loop: it stops at the end of the buffer, fails
\* within the member, or assigns it.
LEMMA MemberRound ==
    ASSUME NEW b \in Seq(Cell), NEW d, NEW o, NEW E, NEW M \in SUBSET Member,
           NEW f \in Member \ M, NEW q, NEW k, Progress(q, b, k, E, M, d, o),
           NEW n \in Nat, k < n, E[f] = n,
           NEW e, NEW x, Advances(q, b, k, e, n, x, d[f])
    PROVE  Progress(ReadMember(q, e, f, x), b, n, E, M \cup {f}, d, o)
<1> DEFINE l == Len(b)
           a == ReadMember(q, e, f, x)
           N == M \cup {f}
           z == WithMember(e.d, f, x)
           Ends(K) == {0} \cup {E[m] : m \in K}
<1>1. l \in Nat /\ k \in Nat /\ k \in Ends(M) /\ (\A m \in M : E[m] \in Nat /\ E[m] <= k)
    BY DEF Progress, EndOf
<1>2. EndOf(n, E, N) /\ Ends(N) = Ends(M) \cup {n}
    BY <1>1 DEF EndOf
<1>3. /\ IsReader(q) /\ q.buf = b /\ IsObject(q.d) /\ q.ok \in BOOLEAN
      /\ q.ok => q.pos = IF k <= l THEN k ELSE l
      /\ q.ok <=> k <= l \/ l \in Ends(M)
      /\ q.ok => Merged(q.d, E, M, l, d, o)
    BY DEF Progress
<1>4. a = IF q.ok /\ q.pos = l THEN q
          ELSE IF e.ok THEN WithD(e, z) ELSE e
    BY <1>3, Zenon DEF ReadMember, Assign, WithD, WithMember
<1> HIDE DEF l, a, z, Ends
<1>5. ASSUME IsReader(a), a.buf = b, IsObject(a.d), a.ok \in BOOLEAN,
             a.ok => a.pos = IF n <= l THEN n ELSE l,
             a.ok <=> n <= l \/ l \in Ends(N),
             a.ok => Merged(a.d, E, N, l, d, o)
      PROVE  Progress(a, b, n, E, N, d, o)
    BY <1>2, <1>5 DEF Progress, l, Ends
<1>6. CASE q.ok /\ q.pos = l
    <2>1. a = q
        BY <1>4, <1>6
    <2>2. l <= k /\ l < n /\ l \in Ends(M)
        BY <1>1, <1>3, <1>6
    <2>3. ASSUME NEW m \in Member PROVE a.d[m] = IF m \in N /\ E[m] <= l THEN d[m] ELSE o[m]
        <3>1. q.d[m] = IF m \in M /\ E[m] <= l THEN d[m] ELSE o[m]
            BY <1>3, <1>6 DEF Merged
        <3>2. m \in N /\ E[m] <= l <=> m \in M /\ E[m] <= l
            <4>1. CASE m = f
                <5>1. E[m] = n /\ ~ (n <= l)
                    BY <1>1, <2>2, <4>1
                <5> QED BY <4>1, <5>1, Zenon
            <4>2. CASE m # f
                BY <4>2
            <4> QED BY <4>1, <4>2
        <3> QED BY <2>1, <3>1, <3>2
    <2>4. Merged(a.d, E, N, l, d, o)
        BY <2>3 DEF Merged
    <2>5. l \in Ends(N) /\ ~ (n <= l)
        <3>1. ~ (n <= l)
            BY <1>1, <2>2
        <3> HIDE DEF N
        <3> QED BY <1>2, <2>2, <3>1
    <2>6. /\ IsReader(a) /\ a.buf = b /\ IsObject(a.d) /\ a.ok \in BOOLEAN /\ a.ok
          /\ a.pos = l
        BY <1>3, <1>6, <2>1
    <2> HIDE DEF N
    <2>7. Progress(a, b, n, E, N, d, o)
        BY <1>5, <2>4, <2>5, <2>6
    <2> QED BY <2>7 DEF a, N
<1>7. ASSUME ~ (q.ok /\ q.pos = l)
      PROVE  /\ Reads(e, b, n) /\ (n <= l => k < l /\ q.ok /\ e.d = q.d /\ x = d[f])
             /\ l \notin Ends(M)
    <2>1. k <= l => k < l
        BY <1>1, <1>3, <1>7
    <2>2. q.ok <=> k <= l
        BY <1>1, <1>3, <1>7
    <2>3. Reads(q, b, k)
        BY <1>1, <1>3, <2>2 DEF Reads, l
    <2>4. l \notin Ends(M)
        <3>1. ASSUME l \in Ends(M) PROVE FALSE
            BY <1>1, <1>3, <1>7, <2>1, <3>1 DEF Ends
        <3> QED BY <3>1
    <2>5. Reads(e, b, n) /\ e.d = q.d /\ (n <= l => x = d[f])
        BY <2>3 DEF Advances, l
    <2>6. n <= l => k < l
        BY <1>1
    <2> QED BY <2>2, <2>4, <2>5, <2>6, <1>1
<1>8. CASE ~ (q.ok /\ q.pos = l) /\ n <= l
    <2>1. /\ Reads(e, b, n) /\ k < l /\ q.ok /\ e.d = q.d /\ x = d[f]
        BY <1>7, <1>8
    <2>2. e.ok /\ e.pos = n /\ IsReader(e) /\ IsObject(e.d) /\ e.buf = b
        BY <1>8, <2>1 DEF Reads, l
    <2>3. a = WithD(e, z)
        BY <1>4, <1>8, <2>2
    <2>4. IsObject(z) /\ z[f] = x /\ \A m \in Member \ {f} : z[m] = e.d[m]
        BY <2>2, SetMember DEF z
    <2>5. IsReader(a) /\ a.buf = e.buf /\ a.pos = e.pos /\ a.ok = e.ok /\ a.d = z
        BY <2>2, <2>3, SetD
    <2>6. ASSUME NEW m \in Member PROVE a.d[m] = IF m \in N /\ E[m] <= l THEN d[m] ELSE o[m]
        <3>1. CASE m = f
            BY <1>8, <2>1, <2>4, <2>5, <3>1
        <3>2. CASE m # f
            <4>1. q.d[m] = IF m \in M /\ E[m] <= l THEN d[m] ELSE o[m]
                BY <1>3, <2>1 DEF Merged
            <4> QED BY <2>1, <2>4, <2>5, <3>2, <4>1
        <3> QED BY <3>1, <3>2
    <2>7. Merged(a.d, E, N, l, d, o)
        BY <2>6 DEF Merged
    <2> QED BY <1>5, <1>8, <2>2, <2>4, <2>5, <2>7 DEF a, N
<1>9. CASE ~ (q.ok /\ q.pos = l) /\ ~ (n <= l)
    <2>1. Reads(e, b, n) /\ l \notin Ends(N)
        <3>1. Reads(e, b, n) /\ l \notin Ends(M)
            BY <1>7, <1>9
        <3>2. l # n
            BY <1>1, <1>9
        <3> HIDE DEF N
        <3> QED BY <1>2, <3>1, <3>2
    <2>2. ~e.ok /\ IsReader(e) /\ IsObject(e.d) /\ e.buf = b /\ e.ok \in BOOLEAN
        BY <1>9, <2>1 DEF Reads, l
    <2>3. a = e
        BY <1>4, <1>9, <2>2
    <2> QED BY <1>5, <1>9, <2>1, <2>2, <2>3 DEF a, N
<1> QED BY <1>6, <1>8, <1>9


\* Every member takes some bytes.
LEMMA PutGrows ==
    ASSUME NEW s \in Seq(Cell), NEW v \in Int
    PROVE  Len(s) < Len(Put(s, v, 4, 4))
<1>1. 4 \in Nat /\ 4 \in {1, 4, 8} /\ Len(s) \in Nat
    OBVIOUS
<1>2. Pad(Len(s), 4) \in Nat /\ Len(Put(s, v, 4, 4)) = Len(s) + Pad(Len(s), 4) + 4
    BY <1>1, PutFacts
<1> QED BY <1>1, <1>2

LEMMA PutStringGrows ==
    ASSUME NEW s \in Seq(Cell), NEW v \in Nat
    PROVE  Len(s) < Len(put_string(s, v))
<1> DEFINE l == Len(s)
           p == Pad(l, 4)
<1>1. l \in Nat /\ p \in Nat
    <2>1. l \in Nat
        OBVIOUS
    <2> HIDE DEF l
    <2> QED BY <2>1, PadType, Zenon
<1>2. Len(put_string(s, v)) = l + p + 4 + v + 1
    BY PutStringFacts, Zenon DEF size_string, SizeOf
<1> HIDE DEF l, p
<1>3. l < l + p + 4 + v + 1
    BY <1>1
<1> QED BY <1>2, <1>3 DEF l

LEMMA PutDoublesGrows ==
    ASSUME xcdr2 \in BOOLEAN, NEW s \in Seq(Cell), NEW v \in Seq(Int)
    PROVE  Len(s) < Len(put_doubles(s, v))
<1> DEFINE l == Len(s)
           x == SizeOf(l, 4, 4)
           p == Pad(x, DoubleAlign)
           k == 8 * Len(v)
<1>1. l \in Nat /\ k \in Nat
    OBVIOUS
<1>2. x \in Nat /\ l < x
    <2>1. Pad(l, 4) \in Nat
        BY <1>1, PadType, Zenon
    <2> HIDE DEF l
    <2> QED BY <1>1, <2>1 DEF SizeOf
<1>3. p \in Nat
    <2> HIDE DEF x
    <2> QED BY <1>2, PadType, AlignType, Zenon
<1>4. Len(put_doubles(s, v)) = x \/ Len(put_doubles(s, v)) = x + p + k
    <2>1. Len(put_doubles(s, v)) = size_doubles(l, v)
        BY PutDoublesFacts
    <2> QED BY <2>1, Zenon DEF size_doubles, SizeOf
<1> HIDE DEF l, x, p, k
<1>5. l < x /\ l < x + p + k
    BY <1>1, <1>2, <1>3
<1> QED BY <1>4, <1>5 DEF l

LEMMA PutStringsGrows ==
    ASSUME xcdr2 \in BOOLEAN, NEW s \in Seq(Cell), NEW v \in Seq(Nat)
    PROVE  Len(s) < Len(put_strings(s, v))
<1> DEFINE o == Opened(s)
           c == Counted(s, v)
           z == Listed(s, v)
<1>1. Continues(s, o) /\ o \in Seq(Cell) /\ Continues(c, z) /\ Len(z) = Len(put_strings(s, v))
    BY OpenedFacts, ListedFacts, PutStringsFacts
<1>2. Len(o) < Len(c)
    <2>1. Len(v) \in Int
        OBVIOUS
    <2> HIDE DEF o
    <2> QED BY <1>1, <2>1, PutGrows DEF Counted, o
<1> HIDE DEF o, c, z
<1>3. Len(s) <= Len(o) /\ Len(c) <= Len(z)
    BY <1>1 DEF Continues
<1>4. Len(s) \in Nat /\ Len(o) \in Nat /\ Len(c) \in Nat /\ Len(z) \in Nat
    BY <1>1 DEF Continues
<1> QED BY <1>1, <1>2, <1>3, <1>4

\* One member of the message: s2 continues s with it, e is the reader after it.
LEMMA MemberStep ==
    ASSUME NEW b \in Seq(Cell), NEW s \in Seq(Cell), NEW s2 \in Seq(Cell), Len(s) < Len(s2),
           NEW d, NEW o, NEW E, NEW M \in SUBSET Member, NEW f \in Member \ M, E[f] = Len(s2),
           NEW q, Progress(q, b, Len(s), E, M, d, o),
           NEW e, NEW x, Advances(q, b, Len(s), e, Len(s2), x, d[f])
    PROVE  Progress(ReadMember(q, e, f, x), b, Len(s2), E, M \cup {f}, d, o)
<1> DEFINE k == Len(s)
           n == Len(s2)
<1>1. n \in Nat /\ k < n /\ E[f] = n /\ Progress(q, b, k, E, M, d, o)
      /\ Advances(q, b, k, e, n, x, d[f])
    OBVIOUS
<1> HIDE DEF k, n
<1>2. Progress(ReadMember(q, e, f, x), b, n, E, M \cup {f}, d, o)
    BY <1>1, MemberRound
<1> QED BY <1>2 DEF n

\* A member that is a sequence.
LEMMA ListStep ==
    ASSUME NEW b \in Seq(Cell), NEW s \in Seq(Cell), NEW s2 \in Seq(Cell), Len(s) < Len(s2),
           NEW d, NEW o, NEW E, NEW M \in SUBSET Member, NEW f \in Member \ M, E[f] = Len(s2),
           NEW q, Progress(q, b, Len(s), E, M, d, o),
           NEW e, Reads(q, b, Len(s)) => HasRead(e, d[f], s2, b, q)
    PROVE  Progress(get_list(q, e, f), b, Len(s2), E, M \cup {f}, d, o)
<1>1. Advances(q, b, Len(s), e, Len(s2), e.list, d[f])
    BY DEF Advances, HasRead
<1>2. Progress(ReadMember(q, e, f, e.list), b, Len(s2), E, M \cup {f}, d, o)
    BY <1>1, MemberStep
<1> QED BY <1>2 DEF get_list

\* E has where each member of d ends.
EndsAt(E, d) ==
    /\ E["sec"] = Len(Put(<<>>, d.sec, 4, 4))
    /\ E["nanosec"] = Len(Put(Put(<<>>, d.sec, 4, 4), d.nanosec, 4, 4))
    /\ E["frame_id"] = Len(put_header(<<>>, d)) /\ E["name"] = Len(WithNames(d))
    /\ E["position"] = Len(WithPositions(d)) /\ E["velocity"] = Len(WithVelocities(d))
    /\ E["effort"] = Len(Serialised(d))

\* The header is read back.
LEMMA GetHeaderStep ==
    ASSUME NEW b \in Seq(Cell), NEW d \in JointState, NEW o, NEW E, EndsAt(E, d),
           NEW r, Reads(r, b, 0), r.d = o, Agrees(b, put_header(<<>>, d), 0)
    PROVE  Progress(get_header(r), b, Len(put_header(<<>>, d)), E,
                    {"sec", "nanosec", "frame_id"}, d, o)
<1> DEFINE s == Put(<<>>, d.sec, 4, 4)
           s2 == Put(s, d.nanosec, 4, 4)
           u == put_string(s2, d.frame_id)
           g == Get(r, 4, 4)
           a == ReadMember(r, g, "sec", g.v)
           h == Get(a, 4, 4)
           c == ReadMember(a, h, "nanosec", h.v)
           f == get_string(c)
           z == ReadMember(c, f, "frame_id", f.v)
<1>1. d.sec \in Int /\ d.nanosec \in Int /\ d.frame_id \in Nat
    BY DEF JointState
<1>2. 4 \in Nat /\ 4 # 0 /\ 4 \in {1, 4, 8} /\ <<>> \in Seq(Cell) /\ Len(<<>>) = 0
    OBVIOUS
<1>3. u = put_header(<<>>, d) /\ z = get_header(r)
    BY Zenon DEF put_header, put_time, get_header, get_time
<1>4. Continues(<<>>, s) /\ s \in Seq(Cell) /\ Len(<<>>) < Len(s)
    <2> DEFINE x == d.sec
               y == <<>>
    <2>1. x \in Int /\ y \in Seq(Cell)
        BY <1>1, <1>2
    <2> HIDE DEF x, y
    <2>2. Continues(y, Put(y, x, 4, 4)) /\ Len(y) < Len(Put(y, x, 4, 4))
        BY <1>2, <2>1, PutFacts, PutGrows
    <2>3. Continues(<<>>, s) /\ Len(<<>>) < Len(s)
        BY <2>2, Zenon DEF x, y
    <2> QED BY <2>3 DEF Continues
<1>5. Continues(s, s2) /\ s2 \in Seq(Cell) /\ Len(s) < Len(s2)
    <2> DEFINE x == d.nanosec
    <2>1. x \in Int
        BY <1>1
    <2> HIDE DEF x, s
    <2>2. Continues(s, Put(s, x, 4, 4)) /\ Len(s) < Len(Put(s, x, 4, 4))
        BY <1>2, <1>4, <2>1, PutFacts, PutGrows
    <2>3. Continues(s, s2) /\ Len(s) < Len(s2)
        BY <2>2 DEF x
    <2> QED BY <2>3 DEF Continues
<1>6. Continues(s2, u) /\ u \in Seq(Cell) /\ Len(s2) < Len(u)
    <2> HIDE DEF s2
    <2> QED BY <1>1, <1>5, PutStringFacts, PutStringGrows DEF Continues
<1>7. Agrees(b, u, 0)
    BY <1>3
<1>8. Agrees(b, s, 0) /\ Agrees(b, s2, Len(s)) /\ Agrees(b, u, Len(s2))
    <2> HIDE DEF s, s2, u
    <2>1. /\ Continues(s, u) /\ Continues(u, u) /\ Len(s) \in Nat /\ Len(s2) \in Nat
          /\ 0 <= 0 /\ 0 <= Len(s) /\ 0 <= Len(s2) /\ 0 \in Nat
        BY <1>4, <1>5, <1>6, ContinuesTrans, ContinuesSame DEF Continues
    <2> QED BY <1>6, <1>7, <2>1, AgreesPart
<1>9. Progress(r, b, Len(<<>>), E, {}, d, o)
    <2>1. EndOf(0, E, {}) /\ Len(b) \in Nat
        BY DEF EndOf
    <2>2. Merged(r.d, E, {}, Len(b), d, o)
        BY DEF Merged
    <2>3. IsReader(r) /\ r.buf = b /\ IsObject(r.d) /\ r.ok = TRUE /\ r.pos = 0
        BY <2>1 DEF Reads
    <2>4. 0 <= Len(b)
        BY <2>1
    <2> DEFINE n == 0
               l == Len(b)
               K == {E[m] : m \in {}}
    <2>5. r.pos = (IF n <= l THEN n ELSE l) /\ (r.ok <=> n <= l \/ l \in {0} \cup K) /\ r.ok \in BOOLEAN
        BY <2>3, <2>4
    <2>6. Progress(r, b, n, E, {}, d, o)
        <3>1. EndOf(n, E, {}) /\ Merged(r.d, E, {}, l, d, o)
            BY <2>1, <2>2
        <3> HIDE DEF n
        <3> QED BY <2>3, <2>5, <3>1, Zenon DEF Progress
    <2> QED BY <1>2, <2>6
<1>10. E["sec"] = Len(s) /\ E["nanosec"] = Len(s2) /\ E["frame_id"] = Len(u)
    BY <1>3, Zenon DEF EndsAt
<1>11. Progress(a, b, Len(s), E, {"sec"}, d, o)
    <2>1. Advances(r, b, Len(<<>>), g, Len(s), g.v, d["sec"])
        <3> DEFINE x == d.sec
                   y == <<>>
        <3>1. x \in Int /\ y \in Seq(Cell) /\ Reads(r, b, Len(y)) /\ Agrees(b, Put(y, x, 4, 4), Len(y))
            BY <1>1, <1>2, <1>8
        <3> HIDE DEF x, y
        <3>2. /\ Reads(Get(r, 4, 4), b, Len(Put(y, x, 4, 4))) /\ Get(r, 4, 4).d = r.d
              /\ Len(Put(y, x, 4, 4)) <= Len(b) => Get(r, 4, 4).v = x
            BY <1>2, <3>1, GetStep
        <3> QED BY <3>2, Zenon DEF x, y, Advances
    <2>2. "sec" \in Member \ {} /\ {} \in SUBSET Member /\ {} \cup {"sec"} = {"sec"}
        BY DEF Member
    <2> HIDE DEF s, g
    <2>3. Progress(ReadMember(r, g, "sec", g.v), b, Len(s), E, {} \cup {"sec"}, d, o)
        BY <1>2, <1>4, <1>9, <1>10, <2>1, <2>2, MemberStep
    <2> QED BY <2>2, <2>3
<1> HIDE DEF s, a
<1>12. Progress(c, b, Len(s2), E, {"sec", "nanosec"}, d, o)
    <2>1. Advances(a, b, Len(s), h, Len(s2), h.v, d["nanosec"])
        <3> DEFINE x == d.nanosec
        <3>1. x \in Int /\ Agrees(b, Put(s, x, 4, 4), Len(s))
            BY <1>1, <1>8
        <3> HIDE DEF x
        <3>2. ASSUME Reads(a, b, Len(s))
              PROVE  /\ Reads(Get(a, 4, 4), b, Len(Put(s, x, 4, 4))) /\ Get(a, 4, 4).d = a.d
                     /\ Len(Put(s, x, 4, 4)) <= Len(b) => Get(a, 4, 4).v = x
            BY <1>2, <1>4, <3>1, <3>2, GetStep
        <3> QED BY <3>2, Zenon DEF x, Advances
    <2>2. "nanosec" \in Member \ {"sec"} /\ {"sec"} \in SUBSET Member
          /\ {"sec"} \cup {"nanosec"} = {"sec", "nanosec"}
        BY DEF Member
    <2> HIDE DEF s2, h
    <2>3. Progress(ReadMember(a, h, "nanosec", h.v), b, Len(s2), E, {"sec"} \cup {"nanosec"}, d, o)
        BY <1>4, <1>5, <1>10, <1>11, <2>1, <2>2, MemberStep
    <2> QED BY <2>2, <2>3
<1> HIDE DEF s2, c
<1>13. Progress(z, b, Len(u), E, {"sec", "nanosec", "frame_id"}, d, o)
    <2>1. Advances(c, b, Len(s2), f, Len(u), f.v, d["frame_id"])
        <3> DEFINE x == d.frame_id
        <3>1. x \in Nat /\ Agrees(b, put_string(s2, x), Len(s2))
            BY <1>1, <1>8
        <3> HIDE DEF x
        <3>2. ASSUME Reads(c, b, Len(s2))
              PROVE  /\ Reads(get_string(c), b, Len(put_string(s2, x))) /\ get_string(c).d = c.d
                     /\ Len(put_string(s2, x)) <= Len(b) => get_string(c).v = x
            BY <1>5, <3>1, <3>2, GetStringStep
        <3> QED BY <3>2, Zenon DEF x, Advances
    <2>2. "frame_id" \in Member \ {"sec", "nanosec"} /\ {"sec", "nanosec"} \in SUBSET Member
          /\ {"sec", "nanosec"} \cup {"frame_id"} = {"sec", "nanosec", "frame_id"}
        BY DEF Member
    <2> HIDE DEF u, f
    <2>3. Progress(ReadMember(c, f, "frame_id", f.v), b, Len(u), E,
                   {"sec", "nanosec"} \cup {"frame_id"}, d, o)
        BY <1>5, <1>6, <1>10, <1>12, <2>1, <2>2, MemberStep
    <2> QED BY <2>2, <2>3
<1> HIDE DEF u, z
<1> QED BY <1>3, <1>13
-----------------------------------------------------------------------------
(* Cdr: a sample *)

\* The reader that deserialize() starts with, on the first n bytes.
Parsed(cells, n, o) ==
    get_joint_state([buf |-> SubSeq(cells, 1, n), pos |-> 0, ok |-> TRUE,
                     v |-> 0, list |-> <<>>, d |-> o])

LEMMA JointStateMembers ==
    ASSUME NEW d \in JointState
    PROVE  /\ d["name"] \in Seq(Nat) /\ d["position"] \in Seq(Int)
           /\ d["velocity"] \in Seq(Int) /\ d["effort"] \in Seq(Int) /\ IsObject(d)
<1>1. DOMAIN d = Member
    BY DEF JointState, Member
<1>2. d = [m \in Member |-> d[m]]
    BY <1>1 DEF JointState, Member
<1> QED BY <1>2 DEF JointState, IsObject

\* MemberEnd is computed as the size is, and says where the members end.
LEMMA MemberEnds ==
    ASSUME xcdr2 \in BOOLEAN, NEW d \in JointState
    PROVE  EndsAt(MemberEnd(d), d) /\ DOMAIN MemberEnd(d) = Member
<1> DEFINE h == put_header(<<>>, d)
           s == Put(<<>>, d.sec, 4, 4)
           s2 == Put(s, d.nanosec, 4, 4)
           hh == size_header(0, d)
           n == size_strings(hh, d.name)
           p == size_doubles(n, d.position)
           v == size_doubles(p, d.velocity)
           e == size_doubles(v, d.effort)
           E == MemberEnd(d)
<1>1. /\ Len(h) = hh /\ Len(WithNames(d)) = n /\ Len(WithPositions(d)) = p
      /\ Len(WithVelocities(d)) = v /\ Len(Serialised(d)) = e
    <2>1. /\ Len(h) = hh /\ Len(WithNames(d)) = size_strings(Len(h), d.name)
          /\ Len(WithPositions(d)) = size_doubles(Len(WithNames(d)), d.position)
          /\ Len(WithVelocities(d)) = size_doubles(Len(WithPositions(d)), d.velocity)
          /\ Len(Serialised(d)) = size_doubles(Len(WithVelocities(d)), d.effort)
        BY SerialisedFacts
    <2> QED BY <2>1, Zenon
<1>2. Len(s) = SizeOf(0, 4, 4) /\ s \in Seq(Cell)
    <2> DEFINE x == d.sec
               y == <<>>
    <2>1. x \in Int /\ y \in Seq(Cell) /\ 4 \in Nat /\ 4 \in {1, 4, 8} /\ Len(y) = 0
        BY DEF JointState
    <2> HIDE DEF x, y
    <2>2. Continues(y, Put(y, x, 4, 4)) /\ Len(Put(y, x, 4, 4)) = Len(y) + Pad(Len(y), 4) + 4
        BY <2>1, PutFacts
    <2>3. Put(y, x, 4, 4) \in Seq(Cell) /\ Len(Put(y, x, 4, 4)) = SizeOf(0, 4, 4)
        BY <2>1, <2>2 DEF Continues, SizeOf
    <2> QED BY <2>3, Zenon DEF x, y
<1>3. Len(s2) = size_time(0, d)
    <2> DEFINE x == d.nanosec
    <2>1. x \in Int /\ 4 \in Nat /\ 4 \in {1, 4, 8}
        BY DEF JointState
    <2> HIDE DEF x, s
    <2>2. Len(Put(s, x, 4, 4)) = Len(s) + Pad(Len(s), 4) + 4
        BY <1>2, <2>1, PutFacts
    <2> QED BY <1>2, <2>2, Zenon DEF SizeOf, size_time, x
<1>4. E = [sec |-> SizeOf(0, 4, 4), nanosec |-> size_time(0, d), frame_id |-> hh,
           name |-> n, position |-> p, velocity |-> v, effort |-> e]
    BY Zenon DEF MemberEnd
<1> HIDE DEF h, s2, s, hh, n, p, v, e, E
<1>5. DOMAIN E = Member
    BY <1>4 DEF Member
<1>6. /\ E["sec"] = SizeOf(0, 4, 4) /\ E["nanosec"] = size_time(0, d) /\ E["frame_id"] = hh
      /\ E["name"] = n /\ E["position"] = p /\ E["velocity"] = v /\ E["effort"] = e
    BY <1>4
<1>7. EndsAt(E, d)
    BY <1>1, <1>2, <1>3, <1>6, Zenon DEF EndsAt, s, s2, h
<1> QED BY <1>5, <1>7 DEF E

\* Reading a prefix b of a serialised d.
LEMMA GetJointStateStep ==
    ASSUME xcdr2 \in BOOLEAN, NEW b \in Seq(Cell), NEW d \in JointState, NEW o,
           NEW E, EndsAt(E, d), NEW r, Reads(r, b, 0), r.d = o, Agrees(b, Serialised(d), 0)
    PROVE  Progress(get_joint_state(r), b, Len(Serialised(d)), E, Member, d, o)
<1> DEFINE h == put_header(<<>>, d)
           s == WithNames(d)
           s2 == WithPositions(d)
           u == WithVelocities(d)
           w == Serialised(d)
           a == get_header(r)
           n == get_strings(a)
           c == get_list(a, n, "name")
           p == get_doubles(c)
           f == get_list(c, p, "position")
           v == get_doubles(f)
           g == get_list(f, v, "velocity")
           e == get_doubles(g)
           z == get_list(g, e, "effort")
<1>1. z = get_joint_state(r)
    BY Zenon DEF get_joint_state
<1>2. /\ d["name"] \in Seq(Nat) /\ d["position"] \in Seq(Int)
      /\ d["velocity"] \in Seq(Int) /\ d["effort"] \in Seq(Int)
    BY JointStateMembers
<1>3. /\ Continues(h, w) /\ Continues(s, w) /\ Continues(s2, w) /\ Continues(u, w) /\ Continues(w, w)
      /\ h \in Seq(Cell) /\ s \in Seq(Cell) /\ s2 \in Seq(Cell) /\ u \in Seq(Cell) /\ w \in Seq(Cell)
    <2>1. /\ Continues(h, w) /\ Continues(s, w) /\ Continues(s2, w) /\ Continues(u, w) /\ w \in Seq(Cell)
        BY SerialisedFacts
    <2> HIDE DEF h, s, s2, u, w
    <2> QED BY <2>1, ContinuesSame DEF Continues
<1>4. /\ s = put_strings(h, d["name"]) /\ s2 = put_doubles(s, d["position"])
      /\ u = put_doubles(s2, d["velocity"]) /\ w = put_doubles(u, d["effort"])
    <2>1. w = put_doubles(u, d["effort"])
        BY SerialisedFacts
    <2>2. /\ s = put_strings(h, d["name"]) /\ s2 = put_doubles(s, d["position"])
          /\ u = put_doubles(s2, d["velocity"])
        BY Zenon DEF WithNames, WithPositions, WithVelocities
    <2> QED BY <2>1, <2>2
<1>5. Len(h) < Len(s) /\ Len(s) < Len(s2) /\ Len(s2) < Len(u) /\ Len(u) < Len(w)
    <2> HIDE DEF h, s, s2, u, w
    <2>1. Len(h) < Len(put_strings(h, d["name"]))
        BY <1>2, <1>3, PutStringsGrows
    <2>2. /\ Len(s) < Len(put_doubles(s, d["position"])) /\ Len(s2) < Len(put_doubles(s2, d["velocity"]))
          /\ Len(u) < Len(put_doubles(u, d["effort"]))
        BY <1>2, <1>3, PutDoublesGrows
    <2> QED BY <1>4, <2>1, <2>2
<1>6. Agrees(b, w, 0)
    OBVIOUS
<1>7. /\ Agrees(b, h, 0) /\ Agrees(b, s, Len(h)) /\ Agrees(b, s2, Len(s))
      /\ Agrees(b, u, Len(s2)) /\ Agrees(b, w, Len(u))
    <2> HIDE DEF h, s, s2, u, w
    <2>1. /\ 0 \in Nat /\ 0 <= 0 /\ Len(h) \in Nat /\ 0 <= Len(h) /\ Len(s) \in Nat /\ 0 <= Len(s)
          /\ Len(s2) \in Nat /\ 0 <= Len(s2) /\ Len(u) \in Nat /\ 0 <= Len(u)
        BY <1>3
    <2> QED BY <1>3, <1>6, <2>1, AgreesPart
<1> DEFINE M0 == {"sec", "nanosec", "frame_id"}
           M1 == M0 \cup {"name"}
           M2 == M1 \cup {"position"}
           M3 == M2 \cup {"velocity"}
           M4 == M3 \cup {"effort"}
<1>8. /\ M0 \in SUBSET Member /\ M1 \in SUBSET Member /\ M2 \in SUBSET Member
      /\ M3 \in SUBSET Member /\ M4 = Member /\ "name" \in Member \ M0
      /\ "position" \in Member \ M1 /\ "velocity" \in Member \ M2 /\ "effort" \in Member \ M3
    BY DEF Member
<1>9. /\ Progress(a, b, Len(h), E, M0, d, o)
      /\ E["name"] = Len(s) /\ E["position"] = Len(s2) /\ E["velocity"] = Len(u) /\ E["effort"] = Len(w)
    <2>1. Progress(a, b, Len(h), E, M0, d, o)
        BY <1>7, GetHeaderStep
    <2> QED BY <2>1, Zenon DEF EndsAt
<1> HIDE DEF h, s, s2, u, w, a, M0
<1>10. Progress(c, b, Len(s), E, M1, d, o)
    <2>1. ASSUME Reads(a, b, Len(h)) PROVE HasRead(n, d["name"], s, b, a)
        <3>1. Agrees(b, put_strings(h, d["name"]), Len(h))
            BY <1>4, <1>7
        <3>2. HasRead(get_strings(a), d["name"], put_strings(h, d["name"]), b, a)
            BY <1>2, <1>3, <2>1, <3>1, GetStringsStep
        <3> QED BY <1>4, <3>2
    <2> HIDE DEF n
    <2> QED BY <1>3, <1>5, <1>8, <1>9, <2>1, ListStep
<1> HIDE DEF c, M1
<1>11. Progress(f, b, Len(s2), E, M2, d, o)
    <2>1. ASSUME Reads(c, b, Len(s)) PROVE HasRead(p, d["position"], s2, b, c)
        <3>1. Agrees(b, put_doubles(s, d["position"]), Len(s))
            BY <1>4, <1>7
        <3>2. HasRead(get_doubles(c), d["position"], put_doubles(s, d["position"]), b, c)
            BY <1>2, <1>3, <2>1, <3>1, GetDoublesStep
        <3> QED BY <1>4, <3>2
    <2> HIDE DEF p
    <2> QED BY <1>3, <1>5, <1>8, <1>9, <1>10, <2>1, ListStep
<1> HIDE DEF f, M2
<1>12. Progress(g, b, Len(u), E, M3, d, o)
    <2>1. ASSUME Reads(f, b, Len(s2)) PROVE HasRead(v, d["velocity"], u, b, f)
        <3>1. Agrees(b, put_doubles(s2, d["velocity"]), Len(s2))
            BY <1>4, <1>7
        <3>2. HasRead(get_doubles(f), d["velocity"], put_doubles(s2, d["velocity"]), b, f)
            BY <1>2, <1>3, <2>1, <3>1, GetDoublesStep
        <3> QED BY <1>4, <3>2
    <2> HIDE DEF v
    <2> QED BY <1>3, <1>5, <1>8, <1>9, <1>11, <2>1, ListStep
<1> HIDE DEF g, M3
<1>13. Progress(z, b, Len(w), E, M4, d, o)
    <2>1. ASSUME Reads(g, b, Len(u)) PROVE HasRead(e, d["effort"], w, b, g)
        <3>1. Agrees(b, put_doubles(u, d["effort"]), Len(u))
            BY <1>4, <1>7
        <3>2. HasRead(get_doubles(g), d["effort"], put_doubles(u, d["effort"]), b, g)
            BY <1>2, <1>3, <2>1, <3>1, GetDoublesStep
        <3> QED BY <1>4, <3>2
    <2> HIDE DEF e
    <2> QED BY <1>3, <1>5, <1>8, <1>9, <1>12, <2>1, ListStep
<1> HIDE DEF z, M4
<1> QED BY <1>1, <1>8, <1>13 DEF w

\* What is left of o when only n bytes of d could be read into it: a failure,
\* unless they end between two members; then d's up to there and o's after.
Spliced(ok, x, n, d, o) ==
    LET end == MemberEnd(d)
    IN  /\ ok <=> n \in {0} \cup {end[m] : m \in DOMAIN end}
        /\ ok => \A m \in DOMAIN end : x[m] = IF end[m] <= n THEN d[m] ELSE o[m]

\* What deserialize() makes of the first n bytes of a serialised sample: all of
\* them give the sample, whatever the object held.
LEMMA ParsedFacts ==
    ASSUME xcdr2 \in BOOLEAN, NEW d \in JointState, NEW o, IsObject(o),
           NEW n \in 0 .. Len(Serialised(d))
    PROVE  /\ IsObject(Parsed(Serialised(d), n, o).d)
           /\ n = Len(Serialised(d)) => /\ Parsed(Serialised(d), n, o).ok = TRUE
                                        /\ Parsed(Serialised(d), n, o).d = d
           /\ n < Len(Serialised(d)) => Spliced(Parsed(Serialised(d), n, o).ok,
                                                Parsed(Serialised(d), n, o).d, n, d, o)
<1> DEFINE w == Serialised(d)
           b == SubSeq(w, 1, n)
           r == Reader(b, 0, TRUE, 0, <<>>, o)
           z == get_joint_state(r)
           E == MemberEnd(d)
           l == Len(w)
<1>1. z = Parsed(w, n, o)
    BY Zenon DEF Parsed, Reader
<1>2. w \in Seq(Cell) /\ l \in Nat /\ n \in Nat /\ n <= l
    BY SerialisedFacts
<1>3. b \in Seq(Cell) /\ Len(b) = n /\ \A i \in 1 .. n : b[i] = w[i]
    <2> HIDE DEF w
    <2> QED BY <1>2
<1>4. Agrees(b, w, 0)
    <2> HIDE DEF w, b
    <2> QED BY <1>2, <1>3 DEF Agrees
<1>5. EndsAt(E, d) /\ DOMAIN E = Member
    BY MemberEnds
<1> HIDE DEF b, E
<1>6. Reads(r, b, 0) /\ r.d = o
    <2>1. r.buf = b /\ r.d = o /\ r.ok = TRUE /\ r.pos = 0
        BY DEF Reader
    <2>2. IsReader(r)
        BY DEF IsReader
    <2> HIDE DEF r
    <2>3. IsObject(r.d) /\ 0 <= Len(b)
        BY <1>2, <1>3, <2>1
    <2> QED BY <2>1, <2>2, <2>3 DEF Reads
<1> HIDE DEF r
<1>7. Progress(z, b, l, E, Member, d, o)
    BY <1>3, <1>4, <1>5, <1>6, GetJointStateStep
<1> HIDE DEF z, w, l
<1>8. /\ IsObject(z.d) /\ z.ok \in BOOLEAN
      /\ z.ok <=> l <= n \/ n \in {0} \cup {E[m] : m \in Member}
      /\ z.ok => Merged(z.d, E, Member, n, d, o)
      /\ \A m \in Member : E[m] \in Nat /\ E[m] <= l
    BY <1>3, <1>7 DEF Progress, EndOf
<1>9. ASSUME n = l PROVE z.ok = TRUE /\ z.d = d
    <2>1. z.ok = TRUE
        BY <1>2, <1>8, <1>9
    <2>2. \A m \in Member : z.d[m] = d[m]
        BY <1>8, <1>9, <2>1 DEF Merged
    <2>3. IsObject(d)
        BY JointStateMembers
    <2>4. z.d = d
        BY <1>8, <2>2, <2>3 DEF IsObject
    <2> QED BY <2>1, <2>4
<1>10. ASSUME n < l PROVE Spliced(z.ok, z.d, n, d, o)
    <2>1. z.ok <=> n \in {0} \cup {E[m] : m \in Member}
        BY <1>2, <1>8, <1>10
    <2>2. ASSUME z.ok PROVE \A m \in Member : z.d[m] = IF E[m] <= n THEN d[m] ELSE o[m]
        BY <1>8, <2>2 DEF Merged
    <2> QED BY <1>5, <2>1, <2>2, Zenon DEF Spliced, E
<1> QED BY <1>1, <1>8, <1>9, <1>10 DEF w, l

\* A sample has the same encoding before and after a step, since the CDR
\* version does not change.
LEMMA SameEncoding ==
    ASSUME NEW d, xcdr2' = xcdr2
    PROVE  /\ Serialised(d)' = Serialised(d)
           /\ calculate_serialized_size(d)' = calculate_serialized_size(d)
<1>1. DoubleAlign' = DoubleAlign
    BY DEF DoubleAlign
<1>2. ASSUME NEW s, NEW v PROVE put_doubles(s, v)' = put_doubles(s, v)
    BY <1>1, Zenon DEF put_doubles, FoldLeft, MapThenFoldSet, Put, Pad
<1>3. ASSUME NEW s, NEW v PROVE put_strings(s, v)' = put_strings(s, v)
    BY Zenon DEF put_strings
<1>4. Serialised(d)' = Serialised(d)
    BY <1>2, <1>3, Zenon DEF Serialised, put_joint_state
<1>5. ASSUME NEW n, NEW v PROVE size_doubles(n, v)' = size_doubles(n, v)
    BY <1>1, Zenon DEF size_doubles
<1>6. ASSUME NEW n, NEW v PROVE size_strings(n, v)' = size_strings(n, v)
    BY Zenon DEF size_strings
<1>7. calculate_serialized_size(d)' = calculate_serialized_size(d)
    BY <1>5, <1>6, Zenon DEF calculate_serialized_size, size_joint_state
<1> QED BY <1>4, <1>7
-----------------------------------------------------------------------------
(* Cdr: the specification *)

\* The inductive invariant.  The properties say what has come of a sample; it
\* adds where that came from: the payload holds what put_joint_state wrote, of
\* a size that was computed for this sample in this CDR version.
CdrInv ==
    /\ xcdr2 \in BOOLEAN /\ IsObject(obj)
    /\ phase # "idle" => sample \in JointState /\ size = calculate_serialized_size(sample)
    /\ phase \in {"sent", "whole", "cut"} => /\ payload.cells = Serialised(sample)
                                            /\ payload.length = size
                                            /\ payload.max_size >= size
    /\ phase = "refused" => payload.max_size < size
    /\ phase = "whole" => accepted = TRUE /\ obj = sample

LEMMA CdrInitially == CdrInit => CdrInv
<1> SUFFICES ASSUME CdrInit PROVE CdrInv
    OBVIOUS
<1>1. Fresh \in JointState
    BY DEF Fresh, JointState
<1>2. IsObject(Fresh)
    BY <1>1, JointStateMembers
<1> QED BY <1>2 DEF CdrInit, CdrInv

LEMMA CdrCalculate == CdrInv /\ Calculate => CdrInv'
<1> SUFFICES ASSUME CdrInv, Calculate PROVE CdrInv'
    OBVIOUS
<1>1. /\ xcdr2' = xcdr2 /\ obj' = obj /\ phase' = "sized" /\ sample' \in JointState
      /\ size' = calculate_serialized_size(sample')
    BY SampleAssumption DEF Calculate
<1>2. calculate_serialized_size(sample)' = calculate_serialized_size(sample')
    BY <1>1, SameEncoding
<1>3. JointState' = JointState
    OBVIOUS
<1> QED BY <1>1, <1>2 DEF CdrInv, IsObject, Member

LEMMA CdrSerialize == CdrInv /\ serialize => CdrInv'
<1> SUFFICES ASSUME CdrInv, serialize PROVE CdrInv'
    OBVIOUS
<1> DEFINE w == put_joint_state(<<>>, sample)
           l == Len(w) + Encapsulation
<1>1. /\ phase = "sized" /\ xcdr2' = xcdr2 /\ obj' = obj /\ sample' = sample /\ size' = size
    BY DEF serialize
<1>2. PICK m \in size - Slack .. size + Slack :
          /\ payload' = [max_size |-> m, length |-> IF l <= m THEN l ELSE 0,
                         cells |-> IF l <= m THEN w ELSE <<>>]
          /\ phase' = IF l <= m THEN "sent" ELSE "refused"
    BY Zenon DEF serialize
<1>3. sample \in JointState /\ size = calculate_serialized_size(sample)
    BY <1>1 DEF CdrInv
<1>4. w = Serialised(sample) /\ l = size /\ Len(w) \in Nat
    BY <1>3, SerialisedFacts DEF CdrInv, Serialised
<1>5. size' = calculate_serialized_size(sample)'
    <2>1. calculate_serialized_size(sample)' = calculate_serialized_size(sample)
        BY <1>1, SameEncoding
    <2> QED BY <1>1, <1>3, <2>1
<1>6. Serialised(sample)' = w
    <2>1. Serialised(sample)' = Serialised(sample)
        BY <1>1, SameEncoding
    <2> QED BY <1>4, <2>1
<1>7. l \in Int /\ m \in Int
    BY <1>4, <1>2, SampleAssumption DEF Encapsulation
<1> HIDE DEF l, w
<1>8. CASE l <= m
    <2>1. /\ phase' = "sent" /\ payload'.cells = w /\ payload'.length = l /\ payload'.max_size = m
        BY <1>2, <1>8
    <2> QED BY <1>1, <1>3, <1>4, <1>5, <1>6, <1>7, <1>8, <2>1 DEF CdrInv, IsObject, Member
<1>9. CASE ~ (l <= m)
    <2>1. phase' = "refused" /\ payload'.max_size = m
        BY <1>2, <1>9
    <2> QED BY <1>1, <1>3, <1>4, <1>5, <1>6, <1>7, <1>9, <2>1 DEF CdrInv, IsObject, Member
<1> QED BY <1>8, <1>9

\* Either way of receiving ends in deserialize() of a prefix.
LEMMA CdrDeserialize ==
    ASSUME CdrInv, phase = "sent", NEW n \in 0 .. Len(payload.cells), deserialize(n)
    PROVE  /\ IsObject(obj')
           /\ n = Len(payload.cells) => accepted' = TRUE /\ obj' = sample
           /\ n < Len(payload.cells) => Spliced(accepted', obj', n, sample, obj)
<1>1. /\ sample \in JointState /\ payload.cells = Serialised(sample) /\ xcdr2 \in BOOLEAN
      /\ IsObject(obj)
    BY DEF CdrInv
<1>2. /\ obj' = Parsed(payload.cells, n, obj).d
      /\ accepted' = Parsed(payload.cells, n, obj).ok
    BY Zenon DEF deserialize, Parsed
<1>3. n \in 0 .. Len(Serialised(sample))
    BY <1>1
<1> DEFINE w == Serialised(sample)
           z == Parsed(w, n, obj)
<1>4. /\ IsObject(z.d) /\ (n = Len(w) => z.ok = TRUE /\ z.d = sample)
      /\ n < Len(w) => Spliced(z.ok, z.d, n, sample, obj)
    BY <1>1, <1>3, ParsedFacts
<1>5. obj' = z.d /\ accepted' = z.ok
    BY <1>1, <1>2
<1> HIDE DEF w, z
<1>6. w = payload.cells
    BY <1>1 DEF w
<1> QED BY <1>4, <1>5, <1>6

\* The two ways, by what they receive.
LEMMA CdrReceived ==
    ASSUME CdrInv, Receive \/ ReceiveCut
    PROVE  /\ IsObject(obj')
           /\ \/ phase' = "whole" /\ accepted' = TRUE /\ obj' = sample
              \/ phase' = "cut" /\ Spliced(accepted', obj', cut', sample, obj)
<1>1. phase = "sent"
    BY DEF Receive, ReceiveCut
<1>2. Len(payload.cells) \in Nat
    BY <1>1, SerialisedFacts DEF CdrInv
<1>3. CASE Receive
    <2>1. phase' = "whole" /\ cut' = Len(payload.cells) /\ deserialize(cut')
        BY <1>3, Zenon DEF Receive
    <2>2. cut' \in 0 .. Len(payload.cells)
        BY <1>2, <2>1
    <2> QED BY <1>1, <2>1, <2>2, CdrDeserialize
<1>4. CASE ReceiveCut
    <2>1. phase' = "cut" /\ cut' \in 0 .. Len(payload.cells) - 1 /\ deserialize(cut')
        BY <1>4, Zenon DEF ReceiveCut
    <2>2. cut' \in 0 .. Len(payload.cells) /\ cut' < Len(payload.cells)
        BY <1>2, <2>1
    <2> QED BY <1>1, <2>1, <2>2, CdrDeserialize
<1> QED BY <1>3, <1>4

LEMMA CdrReceive == CdrInv /\ (Receive \/ ReceiveCut) => CdrInv'
<1> SUFFICES ASSUME CdrInv, Receive \/ ReceiveCut PROVE CdrInv'
    OBVIOUS
<1>1. /\ phase = "sent" /\ xcdr2' = xcdr2 /\ sample' = sample /\ size' = size
      /\ payload' = payload
    BY DEF Receive, ReceiveCut
<1>2. /\ sample \in JointState /\ size = calculate_serialized_size(sample)
      /\ payload.cells = Serialised(sample) /\ payload.length = size
      /\ payload.max_size >= size
    BY <1>1 DEF CdrInv
<1>3. /\ calculate_serialized_size(sample)' = calculate_serialized_size(sample)
      /\ Serialised(sample)' = Serialised(sample)
    BY <1>1, SameEncoding
<1>4. /\ IsObject(obj')
      /\ \/ phase' = "whole" /\ accepted' = TRUE /\ obj' = sample
         \/ phase' = "cut"
    BY CdrReceived
<1>5. xcdr2' \in BOOLEAN
    BY <1>1 DEF CdrInv
<1> QED BY <1>1, <1>2, <1>3, <1>4, <1>5 DEF CdrInv, IsObject, Member

LEMMA CdrInductive == CdrInv /\ [CdrNext]_cdrVars => CdrInv'
<1> SUFFICES ASSUME CdrInv, [CdrNext]_cdrVars PROVE CdrInv'
    OBVIOUS
<1>1. CASE Calculate
    BY <1>1, CdrCalculate
<1>2. CASE serialize
    BY <1>2, CdrSerialize
<1>3. CASE Receive \/ ReceiveCut
    BY <1>3, CdrReceive
<1>4. CASE Again
    BY <1>4 DEF Again, CdrInv, IsObject, Member
<1>5. CASE UNCHANGED cdrVars
    <2>1. /\ phase' = phase /\ xcdr2' = xcdr2 /\ sample' = sample /\ size' = size
          /\ payload' = payload /\ obj' = obj /\ accepted' = accepted
        BY <1>5 DEF cdrVars
    <2>2. /\ calculate_serialized_size(sample)' = calculate_serialized_size(sample)
          /\ Serialised(sample)' = Serialised(sample)
        BY <2>1, SameEncoding
    <2> QED BY <2>1, <2>2 DEF CdrInv, IsObject, Member
<1> QED BY <1>1, <1>2, <1>3, <1>4, <1>5 DEF CdrNext

LEMMA CdrInvariance == CdrSpec => []CdrInv
  BY CdrInitially, CdrInductive, PTL DEF CdrSpec

\* calculate_serialized_size() is exact for every sample and both CDR versions:
\* serialize() succeeds in a payload of that size, fills it to the byte, and
\* fails in any smaller one.
THEOREM SizeIsExact == CdrSpec => []SizeExact
<1>1. CdrInv => SizeExact
    BY DEF CdrInv, SizeExact
<1> QED BY <1>1, CdrInvariance, PTL

\* deserialize() gives back every sample that serialize() wrote, whatever the
\* object it is read into held before.
THEOREM SampleRoundTrips == CdrSpec => []RoundTrip
<1>1. CdrInv => RoundTrip
    BY DEF CdrInv, RoundTrip
<1> QED BY <1>1, CdrInvariance, PTL

\* deserialize() of a payload that was cut succeeds exactly when the cut falls
\* between two members, for every sample, cut and CDR version; the object then
\* has the sample's members before the cut and its own after it.
THEOREM CutAtMembers == CdrSpec => CutBetweenMembers
<1>1. ASSUME CdrInv, [CdrNext]_cdrVars, phase = "sent" /\ phase' = "cut"
      PROVE  Spliced(accepted', obj', cut', sample, obj)
    <2>1. Receive \/ ReceiveCut
        BY <1>1 DEF CdrNext, cdrVars, Calculate, serialize, Again
    <2>2. phase' # "whole"
        BY <1>1
    <2> QED BY <1>1, <2>1, <2>2, CdrReceived
<1>2. CdrInv /\ [CdrNext]_cdrVars =>
          [phase = "sent" /\ phase' = "cut" =>
             LET end == MemberEnd(sample)
             IN  /\ accepted' <=> cut' \in {0} \cup {end[m] : m \in DOMAIN end}
                 /\ accepted' => \A m \in DOMAIN end :
                        obj'[m] = IF end[m] <= cut' THEN sample[m] ELSE obj[m]]_cdrVars
    BY <1>1, Zenon DEF Spliced
<1> QED BY <1>2, CdrInvariance, PTL DEF CdrSpec, CutBetweenMembers

=============================================================================
