-------------------------- MODULE KinematicsProofs --------------------------
(***************************************************************************)
(* Proofs about Kinematics, for every limit of the motors, every set of    *)
(* commands and every set of platforms.                                    *)
(***************************************************************************)
EXTENDS Kinematics, TLAPS

USE KinematicsAssumption

-----------------------------------------------------------------------------
(* Arithmetic: what the steps below need of a product.                      *)

LEMMA Scaled ==
  ASSUME NEW k \in Nat, NEW a \in Int, NEW b \in Int
  PROVE  /\ k * a \in Int /\ k * b \in Int /\ k * (-b) = -(k * b)
         /\ a <= b => k * a <= k * b
         /\ -b <= a => -(k * b) <= k * a
  BY SMT

LEMMA Spread ==
  ASSUME NEW k \in Nat, NEW a \in Int, NEW b \in Int, NEW c \in Int
  PROVE  k * (a + b + c) = k * a + k * b + k * c
  BY SMT

LEMMA Aligned ==
  ASSUME NEW k \in Nat, NEW a \in Int, NEW b \in Int
  PROVE  (k * a) * b = (k * b) * a /\ (k * a) * a >= 0
<1>1. (k * a) * b = (k * b) * a
  BY SMT
<1>2. a * a \in Nat
  BY SMT
<1>3. k * (a * a) >= 0
  BY <1>2, Scaled
<1>4. (k * a) * a = k * (a * a)
  BY SMT
<1> QED
  BY <1>1, <1>3, <1>4

-----------------------------------------------------------------------------
(* The wheels of a velocity                                                 *)

Vector == [x : Int, y : Int, tan : Int]

LEMMA WheelSpeeds ==
  ASSUME NEW v \in Vector
  PROVE  /\ Wheel(v, 1) = v.x - v.y - v.tan
         /\ Wheel(v, 2) = v.x + v.y + v.tan
         /\ Wheel(v, 3) = v.x + v.y - v.tan
         /\ Wheel(v, 4) = v.x - v.y + v.tan
         /\ v.x \in Int /\ v.y \in Int /\ v.tan \in Int
  BY DEF Wheel, Side, Spin, Vector

LEMMA WheelType ==
  ASSUME NEW v \in Vector, NEW m \in Motors
  PROVE  Wheel(v, m) \in Int
  BY WheelSpeeds DEF Motors

(* How the command was reduced, if it was.                                  *)
LEMMA ScalerCases ==
  ASSUME NEW v \in Vector
  PROVE  /\ Scaler(v).num \in Nat /\ Scaler(v).den \in Nat
         /\ Scaler(v).num > 0 /\ Scaler(v).den > 0
         /\ \/ /\ Scaler(v).num = 1 /\ Scaler(v).den = 1
               /\ v.tan = 0 => XySum(v) < MAX_RPM
               /\ v.y = 0 => XtanSum(v) < MAX_RPM
            \/ /\ Scaler(v).num = MAX_RPM
               /\ v.tan = 0 /\ Scaler(v).den = XySum(v) /\ XySum(v) >= MAX_RPM
            \/ /\ Scaler(v).num = MAX_RPM
               /\ v.y = 0 /\ Scaler(v).den = XtanSum(v) /\ XtanSum(v) >= MAX_RPM
  BY DEF Scaler, XySum, XtanSum, Abs, Vector

(* The fastest wheel of a command without sideways motion, or of one without *)
(* rotation, runs at the sum of the sizes of its two parts.                 *)
LEMMA FastestWheel ==
  ASSUME NEW v \in Vector
  PROVE  /\ v.tan = 0 =>
              /\ \A m \in Motors : Abs(Wheel(v, m)) <= XySum(v)
              /\ \E m \in Motors : Abs(Wheel(v, m)) = XySum(v)
         /\ v.y = 0 =>
              /\ \A m \in Motors : Abs(Wheel(v, m)) <= XtanSum(v)
              /\ \E m \in Motors : Abs(Wheel(v, m)) = XtanSum(v)
<1>1. ASSUME v.tan = 0
      PROVE  /\ \A m \in Motors : Abs(Wheel(v, m)) <= XySum(v)
             /\ Abs(Wheel(v, 1)) = XySum(v) \/ Abs(Wheel(v, 2)) = XySum(v)
  BY <1>1, WheelSpeeds DEF Motors, Abs, XySum
<1>2. ASSUME v.y = 0
      PROVE  /\ \A m \in Motors : Abs(Wheel(v, m)) <= XtanSum(v)
             /\ Abs(Wheel(v, 1)) = XtanSum(v) \/ Abs(Wheel(v, 2)) = XtanSum(v)
  BY <1>2, WheelSpeeds DEF Motors, Abs, XtanSum
<1>3. 1 \in Motors /\ 2 \in Motors
  BY DEF Motors
<1> QED
  BY <1>1, <1>2, <1>3

(* A wheel speed is clamped at the limit.                                   *)
LEMMA Clamp ==
  ASSUME NEW v \in Vector, NEW m \in Motors
  PROVE  LET speed == Scaler(v).num * Wheel(v, m)
             limit == MAX_RPM * Scaler(v).den
         IN  /\ speed \in Int /\ limit \in Nat
             /\ CalculateRPM(v)[m] \in Int
             /\ Abs(CalculateRPM(v)[m]) <= limit
             /\ Abs(speed) <= limit => CalculateRPM(v)[m] = speed
             /\ Abs(speed) >= limit => Abs(CalculateRPM(v)[m]) = limit
<1> DEFINE speed == Scaler(v).num * Wheel(v, m)
           limit == MAX_RPM * Scaler(v).den
<1>1. speed \in Int
  BY ScalerCases, WheelType, Scaled
<1>2. limit \in Nat
  <2>1. MAX_RPM \in Nat /\ Scaler(v).den \in Nat
    BY ScalerCases
  <2> QED
    BY <2>1, SMT
<1>3. CalculateRPM(v)[m] = Constrain(speed, -limit, limit)
  BY DEF CalculateRPM
<1> HIDE DEF speed, limit
<1>4. /\ CalculateRPM(v)[m] \in Int
      /\ Abs(CalculateRPM(v)[m]) <= limit
      /\ Abs(speed) <= limit => CalculateRPM(v)[m] = speed
      /\ Abs(speed) >= limit => Abs(CalculateRPM(v)[m]) = limit
  BY <1>1, <1>2, <1>3 DEF Constrain, Abs
<1> QED
  BY <1>1, <1>2, <1>4 DEF speed, limit

(* The commands none of whose wheels is clamped.                            *)
LEMMA Unclamped ==
  ASSUME NEW v \in Vector,
         \/ v.y = 0 \/ v.tan = 0
         \/ \A m \in Motors : Abs(Wheel(v, m)) <= MAX_RPM
  PROVE  \A m \in Motors : CalculateRPM(v)[m] = Scaler(v).num * Wheel(v, m)
<1> SUFFICES ASSUME NEW m \in Motors
             PROVE  CalculateRPM(v)[m] = Scaler(v).num * Wheel(v, m)
  OBVIOUS
<1> DEFINE n == Scaler(v).num
           d == Scaler(v).den
           w == Wheel(v, m)
<1>1. n \in Nat /\ d \in Nat /\ w \in Int /\ n > 0 /\ d > 0
  BY ScalerCases, WheelType
<1>2. \/ n = 1 /\ d = 1 /\ -MAX_RPM <= w /\ w <= MAX_RPM
      \/ n = MAX_RPM /\ -d <= w /\ w <= d
  <2>1. CASE n = 1 /\ d = 1 /\ Abs(w) <= MAX_RPM
    BY <1>1, <2>1 DEF Abs
  <2>2. CASE n = MAX_RPM /\ Abs(w) <= d
    BY <1>1, <2>2 DEF Abs
  <2> QED
    <3>1. XySum(v) \in Int /\ XtanSum(v) \in Int /\ Abs(w) \in Int
      BY <1>1 DEF XySum, XtanSum, Abs, Vector
    <3> QED
      BY <2>1, <2>2, <3>1, ScalerCases, FastestWheel
<1>3. -(MAX_RPM * d) <= n * w /\ n * w <= MAX_RPM * d
  <2>1. CASE n = 1 /\ d = 1 /\ -MAX_RPM <= w /\ w <= MAX_RPM
    BY <1>1, <2>1
  <2>2. CASE n = MAX_RPM /\ -d <= w /\ w <= d
    <3> HIDE DEF n, d, w
    <3> QED
      BY <1>1, <2>2, Scaled
  <2> QED
    BY <1>2, <2>1, <2>2
<1>4. n * w \in Int /\ MAX_RPM * d \in Int
  BY <1>1, Scaled
<1>5. Abs(n * w) <= MAX_RPM * d
  <2> HIDE DEF n, d, w
  <2> QED
    BY <1>3, <1>4 DEF Abs
<1> QED
  BY <1>5, Clamp

-----------------------------------------------------------------------------
(* And back                                                                 *)

LEMMA SumOf ==
  ASSUME NEW r, \A m \in Motors : r[m] \in Int
  PROVE  /\ \A m \in Motors : m \in {1, 2, 3, 4}
         /\ Sum("DIFFERENTIAL_DRIVE", r, Forward) = r[1] + r[2]
         /\ Sum("DIFFERENTIAL_DRIVE", r, Spin) = r[2] - r[1]
         /\ \A base \in {"SKID_STEER", "MECANUM"} :
              /\ Sum(base, r, Forward) = r[1] + r[2] + r[3] + r[4]
              /\ Sum(base, r, Side) = r[2] + r[3] - r[1] - r[4]
              /\ Sum(base, r, Spin) = r[2] + r[4] - r[1] - r[3]
<1>1. 1 \in Motors /\ 2 \in Motors /\ 3 \in Motors /\ 4 \in Motors
  BY DEF Motors
<1>2. r[1] \in Int /\ r[2] \in Int /\ r[3] \in Int /\ r[4] \in Int
  BY <1>1
<1>3. Driving("DIFFERENTIAL_DRIVE") = {1, 2}
  BY DEF Driving
<1>4. \A base \in {"SKID_STEER", "MECANUM"} : Driving(base) = Motors
  BY DEF Driving
<1> QED
  BY <1>1, <1>2, <1>3, <1>4 DEF Sum, Forward, Side, Spin, Motors

Platforms == {"DIFFERENTIAL_DRIVE", "SKID_STEER", "MECANUM"}

(* The velocity of wheels that turn in proportion to a command is in the    *)
(* same proportion to it.                                                   *)
LEMMA Back ==
  ASSUME NEW base \in Platforms, NEW v \in Vector, NEW k \in Nat, NEW r,
         base # "MECANUM" => v.y = 0,
         \A m \in Motors : r[m] = k * Wheel(v, m)
  PROVE  LET u == GetVelocities(base, r)
             t == TotalWheels(base)
         IN  /\ t \in Nat /\ t * k \in Nat
             /\ u.x = (t * k) * v.x /\ u.y = (t * k) * v.y /\ u.tan = (t * k) * v.tan
<1> DEFINE u == GetVelocities(base, r)
           x == k * v.x
           y == k * v.y
           z == k * v.tan
<1>1. v.x \in Int /\ v.y \in Int /\ v.tan \in Int
  BY DEF Vector
<1>2. x \in Int /\ y \in Int /\ z \in Int
  BY <1>1, Scaled
<1>3. /\ r[1] = x - y - z /\ r[2] = x + y + z
      /\ r[3] = x + y - z /\ r[4] = x - y + z
  <2>1. /\ r[1] = k * (v.x + (-v.y) + (-v.tan)) /\ r[2] = k * (v.x + v.y + v.tan)
        /\ r[3] = k * (v.x + v.y + (-v.tan)) /\ r[4] = k * (v.x + (-v.y) + v.tan)
    BY <1>1, WheelSpeeds DEF Motors
  <2>2. -v.y \in Int /\ -v.tan \in Int /\ k * (-v.y) = -y /\ k * (-v.tan) = -z
    BY <1>1, Scaled
  <2>a. /\ k * (v.x + (-v.y) + (-v.tan)) = k * v.x + k * (-v.y) + k * (-v.tan)
        /\ k * (v.x + v.y + v.tan) = k * v.x + k * v.y + k * v.tan
    BY <1>1, <2>2, Spread
  <2>b. /\ k * (v.x + v.y + (-v.tan)) = k * v.x + k * v.y + k * (-v.tan)
        /\ k * (v.x + (-v.y) + v.tan) = k * v.x + k * (-v.y) + k * v.tan
    BY <1>1, <2>2, Spread
  <2>3. /\ r[1] = x + (-y) + (-z) /\ r[2] = x + y + z
        /\ r[3] = x + y + (-z) /\ r[4] = x + (-y) + z
    BY <2>1, <2>2, <2>a, <2>b
  <2> HIDE DEF x, y, z
  <2> QED
    BY <1>2, <2>3
<1>4. \A m \in Motors : r[m] \in Int
  BY WheelType, Scaled
<1>5. y = 0 \/ base = "MECANUM"
  BY <1>1, SMT
<1> HIDE DEF x, y, z
<1>6. /\ u.x = Sum(base, r, Forward) /\ u.tan = Sum(base, r, Spin)
      /\ u.y = IF base = "MECANUM" THEN Sum(base, r, Side) ELSE 0
  BY DEF GetVelocities
<1>7. CASE base = "DIFFERENTIAL_DRIVE"
  <2>1. u.x = 2 * x /\ u.y = 2 * y /\ u.tan = 2 * z /\ TotalWheels(base) = 2
    BY <1>2, <1>3, <1>4, <1>5, <1>6, <1>7, SumOf DEF TotalWheels
  <2>2. /\ 2 * k \in Nat /\ 2 * (k * v.x) = (2 * k) * v.x
        /\ 2 * (k * v.y) = (2 * k) * v.y /\ 2 * (k * v.tan) = (2 * k) * v.tan
    BY <1>1, SMT
  <2> QED
    BY <2>1, <2>2 DEF x, y, z
<1>8. CASE base \in {"SKID_STEER", "MECANUM"}
  <2>1. /\ Sum(base, r, Forward) = 4 * x /\ Sum(base, r, Side) = 4 * y
        /\ Sum(base, r, Spin) = 4 * z
    BY <1>2, <1>3, <1>4, <1>8, SumOf
  <2>2. u.x = 4 * x /\ u.y = 4 * y /\ u.tan = 4 * z /\ TotalWheels(base) = 4
    BY <1>2, <1>5, <1>6, <1>8, <2>1 DEF TotalWheels
  <2>3. /\ 4 * k \in Nat /\ 4 * (k * v.x) = (4 * k) * v.x
        /\ 4 * (k * v.y) = (4 * k) * v.y /\ 4 * (k * v.tan) = (4 * k) * v.tan
    BY <1>1, SMT
  <2> QED
    BY <2>2, <2>3 DEF x, y, z
<1> QED
  BY <1>7, <1>8 DEF Platforms

-----------------------------------------------------------------------------
(* The base that follows its commands                                       *)

KinematicsInv == TypeOK /\ FollowInv

LEMMA CommandIsVector == Velocity \subseteq Vector
  BY DEF Velocity, Vector

LEMMA FeasibleCommand ==
  ASSUME NEW base, NEW v \in Velocity
  PROVE  /\ Feasible(base, v) \in Velocity
         /\ base # "MECANUM" => Feasible(base, v).y = 0
         /\ Feasible(base, v).y = 0 \/ base = "MECANUM"
  BY DEF Feasible, Velocity

LEMMA WheelsInLimit ==
  ASSUME NEW v \in Velocity
  PROVE  /\ CalculateRPM(v) \in [Motors -> Int]
         /\ \A m \in Motors : Abs(CalculateRPM(v)[m]) <= MAX_RPM * Scaler(v).den
<1>1. v \in Vector
  BY CommandIsVector
<1>2. \A m \in Motors : /\ CalculateRPM(v)[m] \in Int
                        /\ Abs(CalculateRPM(v)[m]) <= MAX_RPM * Scaler(v).den
  BY <1>1, Clamp
<1>3. CalculateRPM(v) = [m \in Motors |-> CalculateRPM(v)[m]]
  BY DEF CalculateRPM
<1> QED
  BY <1>2, <1>3

LEMMA VelocityType ==
  ASSUME NEW base \in Platforms, NEW r \in [Motors -> Int]
  PROVE  GetVelocities(base, r) \in [x : Int, y : Int, tan : Int]
<1>1. /\ Sum(base, r, Forward) \in Int /\ Sum(base, r, Spin) \in Int
      /\ base = "MECANUM" => Sum(base, r, Side) \in Int
  <2>1. r[1] \in Int /\ r[2] \in Int /\ r[3] \in Int /\ r[4] \in Int
    BY DEF Motors
  <2>2. \A m \in Motors : r[m] \in Int
    OBVIOUS
  <2> QED
    BY <2>1, <2>2, SumOf DEF Platforms
<1> QED
  BY <1>1 DEF GetVelocities

LEMMA KinematicsInit == Init => KinematicsInv
<1> SUFFICES ASSUME Init PROVE KinematicsInv
  OBVIOUS
<1>1. /\ base_platform_ \in Bases /\ pc = "getRPM" /\ cmd = Rest
      /\ rpm = [m \in Motors |-> 0] /\ vel = Rest
  BY DEF Init
<1>2. base_platform_ \in Platforms
  BY <1>1 DEF Platforms
<1>3. cmd \in Velocity /\ cmd \in Vector /\ cmd.x = 0 /\ cmd.y = 0 /\ cmd.tan = 0
  BY <1>1 DEF Rest, Velocity, Vector
<1>4. Scaler(cmd).num = 1 /\ Scaler(cmd).den = 1
  BY <1>3 DEF Scaler, XySum, XtanSum, Abs
<1>5. \A m \in Motors : Wheel(cmd, m) = 0
  BY <1>3, WheelSpeeds DEF Motors
<1>6. CalculateRPM(cmd) = rpm
  BY <1>1, <1>4, <1>5 DEF CalculateRPM, Constrain
<1>7. GetVelocities(base_platform_, rpm) = vel
  <2>1. /\ \A m \in Motors : rpm[m] \in Int
        /\ rpm[1] = 0 /\ rpm[2] = 0 /\ rpm[3] = 0 /\ rpm[4] = 0
    BY <1>1 DEF Motors
  <2>2. /\ Sum(base_platform_, rpm, Forward) = 0 /\ Sum(base_platform_, rpm, Spin) = 0
        /\ base_platform_ = "MECANUM" => Sum(base_platform_, rpm, Side) = 0
    BY <1>2, <2>1, SumOf DEF Platforms
  <2> QED
    BY <1>1, <2>2 DEF GetVelocities, Rest
<1>8. TypeOK
  <2>1. vel \in [x : Int, y : Int, tan : Int]
    BY <1>1 DEF Rest
  <2> QED
    BY <1>1, <1>3, <1>6, <2>1, WheelsInLimit DEF TypeOK
<1> QED
  BY <1>1, <1>3, <1>6, <1>7, <1>8 DEF KinematicsInv, FollowInv

LEMMA KinematicsStep == KinematicsInv /\ [Next]_vars => KinematicsInv'
<1> SUFFICES ASSUME KinematicsInv, [Next]_vars PROVE KinematicsInv'
  OBVIOUS
<1>1. /\ base_platform_ \in Platforms /\ cmd \in Velocity
      /\ rpm \in [Motors -> Int]
  BY DEF KinematicsInv, TypeOK, Platforms
<1>2. CASE Request
  <2>1. PICK v \in Velocity : cmd' = Feasible(base_platform_, v)
    BY <1>2 DEF Request
  <2>2. cmd' \in Velocity /\ (base_platform_ # "MECANUM" => cmd'.y = 0)
    BY <2>1, FeasibleCommand
  <2>3. Feasible(base_platform_, cmd') = cmd'
    BY <2>2 DEF Feasible, Velocity
  <2>4. /\ rpm' = CalculateRPM(cmd') /\ vel' = Rest /\ pc' = "getVelocities"
        /\ base_platform_' = base_platform_ /\ base_platform_ \in Bases
    BY <1>2, <2>3 DEF Request, GetRPM, KinematicsInv, TypeOK
  <2>5. TypeOK'
    BY <2>2, <2>4, WheelsInLimit DEF TypeOK, Rest
  <2> QED
    BY <2>2, <2>4, <2>5 DEF KinematicsInv, FollowInv
<1>3. CASE Measure
  BY <1>1, <1>3, VelocityType DEF Measure, KinematicsInv, TypeOK, FollowInv
<1>4. CASE UNCHANGED vars
  BY <1>4 DEF vars, KinematicsInv, TypeOK, FollowInv
<1> QED
  BY <1>2, <1>3, <1>4 DEF Next

LEMMA KinematicsInvariant == Spec => []KinematicsInv
<1>1. Init => KinematicsInv
  BY KinematicsInit
<1>2. KinematicsInv /\ [Next]_vars => KinematicsInv'
  BY KinematicsStep
<1> QED
  BY <1>1, <1>2, PTL DEF Spec

(* A command that no wheel was clamped for comes back in proportion.        *)
LEMMA InProportion ==
  ASSUME KinematicsInv, pc = "getRPM",
         \/ cmd.y = 0 \/ cmd.tan = 0
         \/ \A m \in Motors : Abs(Wheel(cmd, m)) <= MAX_RPM
  PROVE  LET k == TotalWheels(base_platform_) * Scaler(cmd).num
         IN  /\ k \in Nat /\ TotalWheels(base_platform_) \in Nat
             /\ \A p \in DOMAIN cmd : vel[p] = k * cmd[p] /\ cmd[p] \in Int
<1>1. /\ base_platform_ \in Platforms /\ cmd \in Vector /\ vel \in Vector
      /\ base_platform_ # "MECANUM" => cmd.y = 0
      /\ vel = GetVelocities(base_platform_, rpm) /\ rpm = CalculateRPM(cmd)
  BY CommandIsVector DEF KinematicsInv, TypeOK, FollowInv, Platforms, Vector
<1>2. \A m \in Motors : rpm[m] = Scaler(cmd).num * Wheel(cmd, m)
  BY <1>1, Unclamped
<1>3. Scaler(cmd).num \in Nat
  BY <1>1, ScalerCases
<1> DEFINE t == TotalWheels(base_platform_)
           k == t * Scaler(cmd).num
<1>4. /\ t \in Nat /\ k \in Nat
      /\ vel.x = k * cmd.x /\ vel.y = k * cmd.y /\ vel.tan = k * cmd.tan
  BY <1>1, <1>2, <1>3, Back
<1>5. DOMAIN cmd = {"x", "y", "tan"} /\ cmd.x \in Int /\ cmd.y \in Int /\ cmd.tan \in Int
  BY <1>1 DEF Vector
<1> HIDE DEF k
<1>6. \A p \in DOMAIN cmd : vel[p] = k * cmd[p] /\ cmd[p] \in Int
  BY <1>4, <1>5
<1> QED
  BY <1>4, <1>6 DEF k

(* The types of both directions; no wheel is asked for more than max_rpm_.  *)
THEOREM TypeCorrect == Spec => []TypeOK
<1>1. KinematicsInv => TypeOK
  BY DEF KinematicsInv
<1> QED
  BY <1>1, KinematicsInvariant, PTL

(* Whatever the limit of the motors, a command they can follow comes back   *)
(* as it was, on every platform.                                            *)
THEOREM RoundTripCorrect == Spec => []RoundTrip
<1>1. KinematicsInv => RoundTrip
  <2> SUFFICES ASSUME KinematicsInv, pc = "getRPM", ~TooFast,
                      NEW p \in DOMAIN cmd
               PROVE  vel[p] = TotalWheels(base_platform_) * Scaler(cmd).den * cmd[p]
    BY DEF RoundTrip
  <2>1. cmd \in Vector
    BY CommandIsVector DEF KinematicsInv, TypeOK
  <2>2. \A m \in Motors : Abs(Wheel(cmd, m)) <= MAX_RPM /\ Abs(Wheel(cmd, m)) \in Int
    BY <2>1, WheelType DEF TooFast, Abs
  <2>3. Scaler(cmd).num = Scaler(cmd).den
    <3>1. XySum(cmd) \in Int /\ XtanSum(cmd) \in Int
      BY <2>1 DEF XySum, XtanSum, Abs, Vector
    <3>2. /\ cmd.tan = 0 => XySum(cmd) <= MAX_RPM
          /\ cmd.y = 0 => XtanSum(cmd) <= MAX_RPM
      BY <2>1, <2>2, FastestWheel
    <3> QED
      BY <2>1, <3>1, <3>2, ScalerCases
  <2> QED
    BY <2>2, <2>3, InProportion
<1> QED
  BY <1>1, KinematicsInvariant, PTL

(* Clamping is odd and monotone, and brings speeds no further apart.        *)
LEMMA ClampPair ==
  ASSUME NEW lim \in Nat, NEW a \in Int, NEW b \in Int, a <= b
  PROVE  /\ Constrain(a, -lim, lim) \in Int /\ Constrain(b, -lim, lim) \in Int
         /\ 0 <= Constrain(b, -lim, lim) - Constrain(a, -lim, lim)
         /\ Constrain(b, -lim, lim) - Constrain(a, -lim, lim) <= b - a
  BY DEF Constrain

LEMMA ClampOdd ==
  ASSUME NEW lim \in Nat, NEW a \in Int
  PROVE  Constrain(-a, -lim, lim) = -Constrain(a, -lim, lim)
  BY DEF Constrain

(* u lies between 0 and z.                                                  *)
Between(u, z) == (0 <= z => 0 <= u /\ u <= z) /\ (z <= 0 => z <= u /\ u <= 0)

LEMMA Differ ==
  ASSUME NEW lim \in Nat, NEW a \in Int, NEW b \in Int
  PROVE  Between(Constrain(b, -lim, lim) - Constrain(a, -lim, lim), b - a)
<1> DEFINE from == Constrain(a, -lim, lim)
           to == Constrain(b, -lim, lim)
<1>1. from \in Int /\ to \in Int
  BY ClampPair
<1>2. a <= b => 0 <= to - from /\ to - from <= b - a
  BY ClampPair
<1>3. b <= a => 0 <= from - to /\ from - to <= a - b
  BY ClampPair
<1> HIDE DEF from, to
<1>4. Between(to - from, b - a)
  BY <1>1, <1>2, <1>3 DEF Between
<1> QED
  BY <1>4 DEF from, to

(* What is left of the parts of a command, whichever wheels are clamped.    *)
LEMMA PartsLeft ==
  ASSUME NEW base \in Platforms, NEW v \in Vector,
         base # "MECANUM" => v.y = 0
  PROVE  LET u == GetVelocities(base, CalculateRPM(v))
             k == TotalWheels(base)
             n == Scaler(v).num
         IN  /\ u.x \in Int /\ u.y \in Int /\ u.tan \in Int
             /\ Between(u.x, k * (n * v.x)) /\ Between(u.y, k * (n * v.y))
             /\ Between(u.tan, k * (n * v.tan))
<1> DEFINE n == Scaler(v).num
           lim == MAX_RPM * Scaler(v).den
           x == n * v.x
           y == n * v.y
           z == n * v.tan
           r == CalculateRPM(v)
           u == GetVelocities(base, r)
           k == TotalWheels(base)
           C(speed) == Constrain(speed, -lim, lim)
<1>1. v.x \in Int /\ v.y \in Int /\ v.tan \in Int /\ n \in Nat
  BY ScalerCases DEF Vector
<1>2. x \in Int /\ y \in Int /\ z \in Int
  BY <1>1, Scaled
<1>3. lim \in Nat
  BY Clamp DEF Motors
<1>4. /\ r[1] = C(x - y - z) /\ r[2] = C(x + y + z)
      /\ r[3] = C(x + y - z) /\ r[4] = C(x - y + z)
  <2>1. /\ r[1] = C(n * Wheel(v, 1)) /\ r[2] = C(n * Wheel(v, 2))
        /\ r[3] = C(n * Wheel(v, 3)) /\ r[4] = C(n * Wheel(v, 4))
    BY DEF CalculateRPM, Motors
  <2>2. /\ Wheel(v, 1) = v.x + (-v.y) + (-v.tan) /\ Wheel(v, 2) = v.x + v.y + v.tan
        /\ Wheel(v, 3) = v.x + v.y + (-v.tan) /\ Wheel(v, 4) = v.x + (-v.y) + v.tan
    BY <1>1, WheelSpeeds
  <2>3. -v.y \in Int /\ -v.tan \in Int /\ n * (-v.y) = -y /\ n * (-v.tan) = -z
    BY <1>1, Scaled
  <2>4. /\ n * (v.x + (-v.y) + (-v.tan)) = n * v.x + n * (-v.y) + n * (-v.tan)
        /\ n * (v.x + v.y + v.tan) = n * v.x + n * v.y + n * v.tan
    BY <1>1, <2>3, Spread
  <2>5. /\ n * (v.x + v.y + (-v.tan)) = n * v.x + n * v.y + n * (-v.tan)
        /\ n * (v.x + (-v.y) + v.tan) = n * v.x + n * (-v.y) + n * v.tan
    BY <1>1, <2>3, Spread
  <2>6. /\ n * Wheel(v, 1) = x + (-y) + (-z) /\ n * Wheel(v, 2) = x + y + z
        /\ n * Wheel(v, 3) = x + y + (-z) /\ n * Wheel(v, 4) = x + (-y) + z
    BY <2>2, <2>3, <2>4, <2>5
  <2>7. /\ x + (-y) + (-z) = x - y - z /\ x + y + (-z) = x + y - z
        /\ x + (-y) + z = x - y + z
    <3> HIDE DEF x, y, z
    <3> QED
      BY <1>2
  <2> QED
    BY <2>1, <2>6, <2>7
<1>5. base # "MECANUM" => y = 0
  BY <1>1, SMT
<1>6. base = "DIFFERENTIAL_DRIVE" => y = 0
  BY <1>5
<1>7. /\ u.x = Sum(base, r, Forward) /\ u.tan = Sum(base, r, Spin)
      /\ u.y = IF base = "MECANUM" THEN Sum(base, r, Side) ELSE 0
  BY DEF GetVelocities
<1> HIDE DEF n, lim, x, y, z, r, u, k
<1>8. \A a, b \in Int : /\ C(a) \in Int /\ C(-a) = -C(a)
                         /\ Between(C(b) - C(a), b - a)
  <2> SUFFICES ASSUME NEW a \in Int, NEW b \in Int
               PROVE  /\ C(a) \in Int /\ C(-a) = -C(a)
                      /\ Between(C(b) - C(a), b - a)
    OBVIOUS
  <2>1. a <= a
    OBVIOUS
  <2>2. C(a) \in Int
    BY <1>3, <2>1, ClampPair
  <2> QED
    BY <1>3, <2>2, ClampOdd, Differ
<1> HIDE DEF C
<1>9. PICK w1 \in Int, w2 \in Int, w3 \in Int, w4 \in Int :
        w1 = x - y - z /\ w2 = x + y + z /\ w3 = x + y - z /\ w4 = x - y + z
  <2>1. /\ x - y - z \in Int /\ x + y + z \in Int
        /\ x + y - z \in Int /\ x - y + z \in Int
    BY <1>2
  <2> QED
    BY <2>1
<1>10. r[1] = C(w1) /\ r[2] = C(w2) /\ r[3] = C(w3) /\ r[4] = C(w4)
  BY <1>4, <1>9
<1>11. /\ Between(r[2] + r[1], 2 * x) /\ Between(r[3] + r[4], 2 * x)
      /\ Between(r[2] - r[4], 2 * y) /\ Between(r[3] - r[1], 2 * y)
      /\ Between(r[2] - r[3], 2 * z) /\ Between(r[4] - r[1], 2 * z)
  <2>1. PICK n1 \in Int, n4 \in Int : n1 = -w1 /\ n4 = -w4
    <3>1. -w1 \in Int /\ -w4 \in Int
      OBVIOUS
    <3> QED
      BY <3>1
  <2>2. /\ C(n1) = -C(w1) /\ C(n4) = -C(w4)
        /\ C(w1) \in Int /\ C(w2) \in Int /\ C(w3) \in Int /\ C(w4) \in Int
    BY <1>8, <2>1
  <2>3. Between(C(w2) - C(n1), w2 - n1) /\ Between(C(w3) - C(n4), w3 - n4)
    BY <1>8
  <2>4. Between(C(w2) - C(w4), w2 - w4) /\ Between(C(w3) - C(w1), w3 - w1)
    BY <1>8
  <2>5. Between(C(w2) - C(w3), w2 - w3) /\ Between(C(w4) - C(w1), w4 - w1)
    BY <1>8
  <2>6. /\ w2 - n1 = 2 * x /\ w3 - n4 = 2 * x
        /\ w2 - w4 = 2 * y /\ w3 - w1 = 2 * y
        /\ w2 - w3 = 2 * z /\ w4 - w1 = 2 * z
    BY <1>2, <1>9, <2>1
  <2>7. C(w2) - C(n1) = r[2] + r[1] /\ C(w3) - C(n4) = r[3] + r[4]
    BY <1>10, <2>2
  <2> QED
    BY <1>10, <2>3, <2>4, <2>5, <2>6, <2>7
<1>12. \A m \in Motors : r[m] \in Int
  <2>1. r[1] \in Int /\ r[2] \in Int /\ r[3] \in Int /\ r[4] \in Int
    BY <1>8, <1>10
  <2> QED
    BY <2>1 DEF Motors
<1>13. r[1] \in Int /\ r[2] \in Int /\ r[3] \in Int /\ r[4] \in Int
  BY <1>12 DEF Motors
<1>14. /\ u.x \in Int /\ u.y \in Int /\ u.tan \in Int
       /\ Between(u.x, k * x) /\ Between(u.y, k * y) /\ Between(u.tan, k * z)
  <2>1. CASE base = "DIFFERENTIAL_DRIVE"
    <3>1. u.x = r[1] + r[2] /\ u.y = 0 /\ u.tan = r[2] - r[1] /\ k = 2
      BY <1>7, <1>12, <2>1, SumOf DEF TotalWheels, k
    <3>2. y = 0
      BY <1>6, <2>1
    <3>3. x - y - z = x + y - z /\ x + y + z = x - y + z
      BY <1>2, <3>2
    <3>4. r[1] = r[3] /\ r[2] = r[4]
      BY <1>4, <3>3
    <3> QED
      BY <1>2, <1>11, <1>13, <3>1, <3>2, <3>4 DEF Between
  <2>2. CASE base \in {"SKID_STEER", "MECANUM"}
    <3>1. /\ Sum(base, r, Forward) = r[1] + r[2] + r[3] + r[4]
          /\ Sum(base, r, Side) = r[2] + r[3] - r[1] - r[4]
          /\ Sum(base, r, Spin) = r[2] + r[4] - r[1] - r[3]
      BY <1>12, <2>2, SumOf
    <3>2. k = 4
      BY <2>2 DEF TotalWheels, k
    <3>3. Between(r[1] + r[2] + r[3] + r[4], 4 * x)
      BY <1>2, <1>11, <1>13 DEF Between
    <3>4. Between(r[2] + r[3] - r[1] - r[4], 4 * y)
      BY <1>2, <1>11, <1>13 DEF Between
    <3>5. Between(r[2] + r[4] - r[1] - r[3], 4 * z)
      BY <1>2, <1>11, <1>13 DEF Between
    <3>6. u.y = Sum(base, r, Side) \/ (u.y = 0 /\ y = 0)
      BY <1>5, <1>7, <2>2
    <3>7. Between(u.y, 4 * y) /\ u.y \in Int
      BY <1>2, <1>13, <3>1, <3>4, <3>6 DEF Between
    <3> QED
      BY <1>7, <1>13, <3>1, <3>2, <3>3, <3>5, <3>7
  <2> QED
    BY <2>1, <2>2 DEF Platforms
<1> QED
  BY <1>14 DEF u, r, k, n, x, y, z

(* u is no more than m times c and in its direction, if it lies between 0   *)
(* and j times c for a smaller j.                                           *)
LEMMA NotExceeded ==
  ASSUME NEW j \in Nat, NEW m \in Nat, j <= m, NEW c \in Int, NEW u \in Int,
         Between(u, j * c)
  PROVE  u * c >= 0 /\ Abs(u) <= m * Abs(c)
<1>1. CASE c >= 0
  <2>1. 0 <= j * c /\ j * c <= m * c /\ j * c \in Int /\ m * c \in Int
    BY <1>1, SMT
  <2>2. 0 <= u /\ u <= m * c
    BY <2>1 DEF Between
  <2>3. u * c >= 0
    BY <1>1, <2>2, SMT
  <2> QED
    BY <1>1, <2>2, <2>3 DEF Abs
<1>2. CASE c < 0
  <2>1. PICK e \in Nat : c = -e
    <3>1. -c \in Nat /\ c = -(-c)
      BY <1>2
    <3> QED
      BY <3>1
  <2>2. /\ j * e \in Nat /\ m * e \in Nat /\ j * e <= m * e
        /\ j * c = -(j * e) /\ m * (-c) = m * e
    BY <2>1, SMT
  <2>3. u <= 0 /\ -u <= m * (-c)
    BY <2>2 DEF Between
  <2>4. PICK w \in Nat : u = -w
    <3>1. -u \in Nat /\ u = -(-u)
      BY <2>3
    <3> QED
      BY <3>1
  <2>5. w * e \in Nat
    BY SMT
  <2>6. u * c = w * e
    BY <2>1, <2>4, SMT
  <2> QED
    BY <1>2, <2>3, <2>5, <2>6 DEF Abs
<1> QED
  BY <1>1, <1>2

(* Whatever is clamped, no part of the motion is reversed or exceeded.      *)
LEMMA SlowerCorrect == KinematicsInv /\ pc = "getRPM" => Slower
<1> SUFFICES ASSUME KinematicsInv, pc = "getRPM" PROVE Slower
  OBVIOUS
<1>1. /\ base_platform_ \in Platforms /\ cmd \in Vector
      /\ base_platform_ # "MECANUM" => cmd.y = 0
      /\ vel = GetVelocities(base_platform_, CalculateRPM(cmd))
  BY CommandIsVector DEF KinematicsInv, TypeOK, FollowInv, Platforms
<1> DEFINE t == TotalWheels(base_platform_)
           n == Scaler(cmd).num
           d == Scaler(cmd).den
<1>2. /\ vel.x \in Int /\ vel.y \in Int /\ vel.tan \in Int
      /\ Between(vel.x, t * (n * cmd.x)) /\ Between(vel.y, t * (n * cmd.y))
      /\ Between(vel.tan, t * (n * cmd.tan))
  BY <1>1, PartsLeft
<1>3. n \in Nat /\ d \in Nat /\ n <= d
  <2>1. XySum(cmd) \in Int /\ XtanSum(cmd) \in Int
    BY <1>1 DEF XySum, XtanSum, Abs, Vector
  <2> QED
    BY <1>1, <2>1, ScalerCases
<1>4. t \in Nat
  BY DEF TotalWheels
<1>5. cmd.x \in Int /\ cmd.y \in Int /\ cmd.tan \in Int /\ DOMAIN cmd = {"x", "y", "tan"}
  BY <1>1 DEF Vector
<1> HIDE DEF t, n, d
<1>6. t * n \in Nat /\ t * d \in Nat /\ t * n <= t * d
  BY <1>3, <1>4, SMT
<1>7. /\ t * (n * cmd.x) = (t * n) * cmd.x /\ t * (n * cmd.y) = (t * n) * cmd.y
      /\ t * (n * cmd.tan) = (t * n) * cmd.tan
  BY <1>3, <1>4, <1>5, SMT
<1>8. /\ vel.x * cmd.x >= 0 /\ Abs(vel.x) <= (t * d) * Abs(cmd.x)
      /\ vel.y * cmd.y >= 0 /\ Abs(vel.y) <= (t * d) * Abs(cmd.y)
      /\ vel.tan * cmd.tan >= 0 /\ Abs(vel.tan) <= (t * d) * Abs(cmd.tan)
  BY <1>2, <1>5, <1>6, <1>7, NotExceeded
<1> QED
  BY <1>5, <1>8 DEF Slower, t, d

(* Whatever the limit of the motors and the command: no part of the motion  *)
(* is reversed or exceeded; it keeps its direction and its curvature unless *)
(* it is both sideways and turning; and the fastest wheel of a command that *)
(* is too fast runs at max_rpm_.                                            *)
THEOREM SlowedDownCorrect == Spec => []SlowedDownOnly
<1>1. ASSUME KinematicsInv, pc = "getRPM", cmd.y = 0 \/ cmd.tan = 0
      PROVE  SameDirection
  <2>1. PICK k \in Nat : \A p \in DOMAIN cmd : vel[p] = k * cmd[p] /\ cmd[p] \in Int
    BY <1>1, InProportion
  <2>2. ASSUME NEW p \in DOMAIN cmd, NEW q \in DOMAIN cmd
        PROVE  vel[p] * cmd[q] = vel[q] * cmd[p] /\ vel[p] * cmd[p] >= 0
    BY <2>1, <2>2, Aligned
  <2> QED
    BY <2>2 DEF SameDirection
<1>2. ASSUME KinematicsInv, pc = "getVelocities", TooFast
      PROVE  \E m \in Motors : Abs(rpm[m]) = MAX_RPM * Scaler(cmd).den
  <2> DEFINE n == Scaler(cmd).num
             d == Scaler(cmd).den
  <2>1. cmd \in Vector /\ rpm = CalculateRPM(cmd)
    BY <1>2, CommandIsVector DEF KinematicsInv, TypeOK, FollowInv
  <2>2. PICK m \in Motors :
          \/ n = 1 /\ d = 1 /\ Abs(Wheel(cmd, m)) >= MAX_RPM
          \/ n = MAX_RPM /\ Abs(Wheel(cmd, m)) = d
    <3>1. PICK fast \in Motors : Abs(Wheel(cmd, fast)) > MAX_RPM
      BY <1>2 DEF TooFast
    <3>2. Abs(Wheel(cmd, fast)) \in Int
      BY <2>1, WheelType DEF Abs
    <3> QED
      BY <2>1, <3>1, <3>2, ScalerCases, FastestWheel
  <2>3. Wheel(cmd, m) \in Int /\ n \in Nat /\ d \in Nat
    BY <2>1, WheelType, ScalerCases
  <2>4. Abs(n * Wheel(cmd, m)) >= MAX_RPM * d
    <3> DEFINE w == Wheel(cmd, m)
    <3> HIDE DEF n, d, w
    <3>1. CASE n = 1 /\ d = 1 /\ Abs(w) >= MAX_RPM
      BY <2>3, <3>1 DEF Abs, w
    <3>2. CASE n = MAX_RPM /\ (w = d \/ w = -d)
      <4>1. n * w = MAX_RPM * d \/ n * w = -(MAX_RPM * d)
        BY <2>3, <3>2, Scaled
      <4>2. MAX_RPM * d \in Nat
        BY <2>3, SMT
      <4> QED
        BY <4>1, <4>2 DEF Abs, w
    <3> QED
      BY <2>2, <2>3, <3>1, <3>2 DEF Abs, w
  <2> QED
    BY <2>1, <2>4, Clamp
<1>3. KinematicsInv => SlowedDownOnly
  BY <1>1, <1>2, SlowerCorrect DEF SlowedDownOnly
<1> QED
  BY <1>3, KinematicsInvariant, PTL
=============================================================================
