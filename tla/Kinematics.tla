----------------------------- MODULE Kinematics -----------------------------
(***************************************************************************)
(* Kinematics: from a velocity command to the speeds of the wheels, with   *)
(* the reduction of commands that exceed the motors, and from wheel speeds *)
(* back to a body velocity (kinematics.cpp).                               *)
(*                                                                         *)
(* A velocity is given by the wheel speed each of its parts takes (x_rpm,  *)
(* y_rpm, tan_rpm: the geometry of the robot is a factor of each and       *)
(* divides out again on the way back).  A quotient is kept as a fraction:  *)
(* wheel speeds are numerators over a common denominator den, so the       *)
(* arithmetic is exact where the code rounds.                              *)
(***************************************************************************)
EXTENDS Integers

CONSTANTS
    MAX_RPM,   \* max_rpm_
    Rpms,      \* values of x_rpm, y_rpm and tan_rpm
    Bases      \* platforms the code is built for

ASSUME KinematicsAssumption ==
    /\ MAX_RPM \in Nat \ {0} /\ Rpms \subseteq Int /\ 0 \in Rpms
    /\ Bases \subseteq {"DIFFERENTIAL_DRIVE", "SKID_STEER", "MECANUM"}

Abs(v) == IF v < 0 THEN -v ELSE v

Constrain(v, low, high) == IF v < low THEN low ELSE IF v > high THEN high ELSE v

Velocity == [x : Rpms, y : Rpms, tan : Rpms]

Motors == 1 .. 4

(* getRPM: platforms that cannot move sideways drop linear_y.               *)
Feasible(base, v) ==
    IF base = "MECANUM" THEN v ELSE [v EXCEPT !.y = 0]

XySum(v) == Abs(v.x) + Abs(v.y)

XtanSum(v) == Abs(v.x) + Abs(v.tan)

\* Mutant of Scaler: the sum of the two parts, not of their sizes.
ScalerSigned(v) ==
    LET sum == IF v.y = 0 THEN Abs(v.x + v.tan) ELSE Abs(v.x + v.y)
    IN  IF sum >= MAX_RPM /\ (v.y = 0 \/ v.tan = 0)
        THEN [num |-> MAX_RPM, den |-> sum] ELSE [num |-> 1, den |-> 1]

(* vel_scaler of calculateRPM; 1 when the command is not reduced.  The part *)
(* of the velocity the code does not scale is 0 in either case.             *)
Scaler(v) ==
    IF XySum(v) >= MAX_RPM /\ v.tan = 0
    THEN [num |-> MAX_RPM, den |-> XySum(v)]
    ELSE IF XtanSum(v) >= MAX_RPM /\ v.y = 0
         THEN [num |-> MAX_RPM, den |-> XtanSum(v)]
         ELSE [num |-> 1, den |-> 1]

(* What each wheel contributes: front left, front right, rear left and      *)
(* rear right.                                                              *)
Side == <<-1, 1, 1, -1>>

Spin == <<-1, 1, -1, 1>>

Wheel(v, m) == v.x + Side[m] * v.y + Spin[m] * v.tan

\* Mutant of CalculateRPM: the wheels are not clamped.
CalculateUnclamped(v) == [m \in Motors |-> Scaler(v).num * Wheel(v, m)]

(* calculateRPM: the four wheel speeds, numerators over Scaler(v).den.      *)
CalculateRPM(v) ==
    LET s == Scaler(v)
        limit == MAX_RPM * s.den
    IN  [m \in Motors |-> Constrain(s.num * Wheel(v, m), -limit, limit)]

GetRPM(base, v) == CalculateRPM(Feasible(base, v))

(* getVelocities, of the wheels that drive.  The code divides each sum by   *)
(* their number.                                                            *)
Driving(base) == IF base = "DIFFERENTIAL_DRIVE" THEN {1, 2} ELSE Motors

Sum(base, r, sign) ==
    LET Term(m) == IF m \in Driving(base) THEN sign[m] * r[m] ELSE 0
    IN  Term(1) + Term(2) + Term(3) + Term(4)

\* Mutant of TotalWheels: a skid-steer base is counted as a differential one.
TotalWheelsTwo(base) == IF base = "MECANUM" THEN 4 ELSE 2

TotalWheels(base) == IF base = "DIFFERENTIAL_DRIVE" THEN 2 ELSE 4

Forward == <<1, 1, 1, 1>>

(* A velocity, as numerators over TotalWheels(base) * den.                  *)
GetVelocities(base, r) ==
    [x   |-> Sum(base, r, Forward),
     y   |-> IF base = "MECANUM" THEN Sum(base, r, Side) ELSE 0,
     tan |-> Sum(base, r, Spin)]

-----------------------------------------------------------------------------
(* A base that follows its commands: a command, and the velocity computed   *)
(* from wheels that turn as requested.                                      *)
VARIABLES
    base_platform_,  \* the platform, fixed
    pc,              \* what is called next: getRPM or getVelocities
    cmd,             \* the last command
    rpm,             \* what getRPM made of it
    vel              \* the velocity of the wheels

vars == <<base_platform_, pc, cmd, rpm, vel>>

Rest == [x |-> 0, y |-> 0, tan |-> 0]

TypeOK ==
    /\ base_platform_ \in Bases /\ pc \in {"getRPM", "getVelocities"}
    /\ cmd \in Velocity
    /\ rpm \in [Motors -> Int]
    /\ \A m \in Motors : Abs(rpm[m]) <= MAX_RPM * Scaler(cmd).den
    /\ vel \in [x : Int, y : Int, tan : Int]

Init ==
    /\ base_platform_ \in Bases /\ pc = "getRPM"
    /\ cmd = Rest /\ rpm = [m \in Motors |-> 0] /\ vel = Rest

Request ==
    /\ pc = "getRPM" /\ pc' = "getVelocities"
    /\ cmd' \in {Feasible(base_platform_, v) : v \in Velocity}
    /\ rpm' = GetRPM(base_platform_, cmd')
    /\ vel' = Rest
    /\ UNCHANGED base_platform_

Measure ==
    /\ pc = "getVelocities" /\ pc' = "getRPM"
    /\ vel' = GetVelocities(base_platform_, rpm)
    /\ UNCHANGED <<base_platform_, cmd, rpm>>

Next == Request \/ Measure

Spec == Init /\ [][Next]_vars

-----------------------------------------------------------------------------
(* Correctness                                                              *)

TooFast == \E m \in Motors : Abs(Wheel(cmd, m)) > MAX_RPM

(* getVelocities undoes getRPM: a command the motors can follow comes back  *)
(* as it was, on every platform.                                            *)
RoundTrip ==
    pc = "getRPM" /\ ~TooFast =>
       \A p \in DOMAIN cmd :
          vel[p] = TotalWheels(base_platform_) * Scaler(cmd).den * cmd[p]

(* vel is cmd, made slower or not.                                          *)
SameDirection ==
    /\ \A p, q \in DOMAIN cmd : vel[p] * cmd[q] = vel[q] * cmd[p]
    /\ \A p \in DOMAIN cmd : vel[p] * cmd[p] >= 0

(* No part of the motion is against its command or faster than it.          *)
Slower ==
    LET k == TotalWheels(base_platform_) * Scaler(cmd).den
    IN  \A p \in DOMAIN cmd :
           vel[p] * cmd[p] >= 0 /\ Abs(vel[p]) <= k * Abs(cmd[p])

(* What the reduction and the clamping of the wheels leave of a command of  *)
(* any size: no part of it is reversed or exceeded; unless the base moves   *)
(* sideways and turns at once, it keeps its direction and its curvature;    *)
(* and it is slowed down no further than until the fastest wheel runs at    *)
(* max_rpm_.                                                                *)
SlowedDownOnly ==
    /\ pc = "getRPM" => Slower
    /\ pc = "getRPM" /\ (cmd.y = 0 \/ cmd.tan = 0) => SameDirection
    /\ pc = "getVelocities" /\ TooFast =>
         \E m \in Motors : Abs(rpm[m]) = MAX_RPM * Scaler(cmd).den

-----------------------------------------------------------------------------
(* The inductive invariant: the wheels turn as the last command requires,   *)
(* and their velocity is computed from that.                                *)
FollowInv ==
    /\ base_platform_ # "MECANUM" => cmd.y = 0
    /\ rpm = CalculateRPM(cmd)
    /\ pc = "getRPM" => vel = GetVelocities(base_platform_, rpm)
=============================================================================
