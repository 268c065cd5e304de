----------------------------- MODULE CombatNodes -----------------------------
(***************************************************************************)
(* The leaves of the combat rule (BT_Content): tick() of every service,    *)
(* check and task, as what it does to the CPPBlackBoard all of them share. *)
(* An operator maps the blackboard b to its possible outcomes, a set of    *)
(* records [s, b]: the status tick() returns and the blackboard it leaves. *)
(*                                                                         *)
(* The vector algebra of the Geometry library is a table per quantity, in  *)
(* metres and degrees, over the places and attitudes of an instance.  A    *)
(* waypoint (VP_Cartesian) is a record: the task that made it, the place   *)
(* it starts from, the attitude whose axes it goes along, and which way;   *)
(* how far is left out.  Every task that does not fail writes one.         *)
(***************************************************************************)
EXTENDS Integers, Sequences, FiniteSets

CONSTANTS
  Place,        \* locations, Cartesian
  Attitude,     \* EulerAngles
  NoAxes,       \* the zero vectors of the constructor
  DistanceOf,   \* Vector3::distance
  LosOf,        \* the angle from the nose at a place to another place
  AspectOf,     \* the angle of AspectAngleUpdate, at me, target, its axes
  AngleOffOf,   \* Vector3::angleBetween of two forward vectors
  AltitudeOf,   \* Location.Z
  YawOf,        \* Rotation.Yaw
  NoseUp,       \* ForwardVector.Z, per mille
  HistorySize,  \* historySize
  Normalized,   \* normalizeAngleDelta, of a change of heading, and
  TurnThreshold \* TURN_THRESHOLD_DEG: neither is defined in the repository

ASSUME GeometryAssumption ==
  /\ NoAxes \notin Attitude
  /\ DistanceOf \in [Place \X Place -> Nat] /\ AltitudeOf \in [Place -> Int]
  /\ \A p, q \in Place : DistanceOf[<<p, q>>] = 0 <=> p = q
  /\ LosOf \in [Place \X Attitude \X Place -> Nat]
  /\ AspectOf \in [Place \X Place \X Attitude -> Nat]
  /\ AngleOffOf \in [Attitude \X Attitude -> Nat]
  /\ YawOf \in [Attitude -> -180 .. 180] /\ NoseUp \in [Attitude -> -1000 .. 1000]
  /\ HistorySize \in Nat \ {0, 1} /\ TurnThreshold \in Nat
  /\ Normalized \in [-360 .. 360 -> Int]

\* Every comparison with a float that is not a number is false.
NaN        == -1
Geq(x, y)  == x # NaN /\ x >= y
Leq(x, y)  == x # NaN /\ x <= y
Less(x, y) == x # NaN /\ x < y
In(x, lo, hi) == Geq(x, lo) /\ Leq(x, hi)

Pose(plane)  == [loc |-> plane.loc, rot |-> plane.rot, speed |-> plane.speed]
NoWaypoint   == [task |-> "none", anchor |-> "origin", along |-> NoAxes, way |-> "on"]
Modes        == {"OBFM", "HABFM", "DBFM", "DETECTING", "SCISSORS", "NONE"}
Turns        == {"", "LEFT", "RIGHT", "STRAIGHT"}

\* CPPBlackBoard(), and the members of PredictManeuver and Task_LeadEntry
\* (prevHeadings, lead_timer_).  EnemyInSight is not initialised.
BlackBoards(loc, rot) ==
  LET still == [loc |-> loc, rot |-> rot, speed |-> 0] IN
  { [me |-> still, tgt |-> still, myAxes |-> NoAxes, tgtAxes |-> NoAxes,
     distance |-> 0, los |-> 0, losT |-> 0, ao |-> 0, aa |-> 0,
     sight |-> sight, energy |-> 0, bfm |-> "NONE", counter |-> FALSE,
     turn |-> "", vp |-> NoWaypoint, throttle |-> 0,
     friendly |-> <<>>, enemy |-> <<>>, dt |-> 0,
     headings |-> <<>>, lead |-> 0] : sight \in BOOLEAN }

Outcome(s, b) == [s |-> s, b |-> b]
Succeed(b)    == {Outcome("SUCCESS", b)}
Fail(b)       == {Outcome("FAILURE", b)}
Test(p, b)    == IF p THEN Succeed(b) ELSE Fail(b)

-----------------------------------------------------------------------------
(* Services: they refresh the picture the checks and the tasks go by.      *)

\* With no enemy alive the target of an earlier tick is kept.
SelectTarget(b) ==
  Succeed(IF b.enemy = <<>> THEN b ELSE [b EXCEPT !.tgt = Pose(b.enemy[1])])

DistanceUpdate(b) == Succeed([b EXCEPT !.distance = DistanceOf[<<b.me.loc, b.tgt.loc>>]])

\* Division by a distance of zero makes both angles NaN, and nobody in sight.
LosFrom(x, y) == IF x.loc = y.loc THEN NaN ELSE LosOf[<<x.loc, x.rot, y.loc>>]

InSight == 95

CheckSight(b) ==
  Succeed([b EXCEPT !.los = LosFrom(b.me, b.tgt), !.losT = LosFrom(b.tgt, b.me),
                    !.sight = Leq(LosFrom(b.me, b.tgt), InSight)])

DirectionVectorUpdateSilent(b) ==
  Succeed([b EXCEPT !.myAxes = b.me.rot])

DirectionVectorUpdate(b) ==
  Succeed([b EXCEPT !.myAxes = b.me.rot, !.tgtAxes = b.tgt.rot])

AngleOff(a, c) == IF NoAxes \in {a, c} THEN NaN ELSE AngleOffOf[<<a, c>>]

AngleOffUpdate(b) == Succeed([b EXCEPT !.ao = AngleOff(b.myAxes, b.tgtAxes)])

Aspect(b) == IF NoAxes = b.tgtAxes THEN NaN
             ELSE AspectOf[<<b.me.loc, b.tgt.loc, b.tgtAxes>>]

AspectAngleUpdate(b) == Succeed([b EXCEPT !.aa = Aspect(b)])

\* v^2 + 2gh, in hundredths.
Energy(x) == 100 * x.speed * x.speed + 1962 * AltitudeOf[x.loc]
Compare(x, y) == IF x > y THEN 1 ELSE IF x < y THEN -1 ELSE 0

EnergyCompare(b) == Succeed([b EXCEPT !.energy = Compare(Energy(b.me), Energy(b.tgt))])

Sum[s \in Seq(Int)] == IF s = <<>> THEN 0 ELSE Head(s) + Sum[Tail(s)]

\* The change from each heading to the next one, normalised and summed.
TurnOf(h) ==
  LET n == Len(h) - 1
      total == Sum[[i \in 1 .. n |-> Normalized[h[i + 1] - h[i]]]]
  IN IF total > n * TurnThreshold THEN "LEFT"
     ELSE IF total < -n * TurnThreshold THEN "RIGHT" ELSE "STRAIGHT"

PushHeading(h, yaw) ==
  Append(IF Len(h) >= HistorySize THEN Tail(h) ELSE h, yaw)

PredictManeuver(b) ==
  LET h == PushHeading(b.headings, YawOf[b.tgt.rot]) IN
  Succeed([b EXCEPT !.headings = h,
                    !.turn = IF Len(h) < HistorySize THEN @ ELSE TurnOf(h)])

-----------------------------------------------------------------------------
(* The windows of the engagement modes.                                    *)
ScissorsWindow(b) == /\ b.sight /\ In(b.losT, 10, 45)
                     /\ In(b.distance, 150, 800) /\ b.energy <= 0
HeadOnWindow(b)   == /\ b.sight /\ In(b.aa, 140, 220)
                     /\ In(b.distance, 800, 2000) /\ b.energy >= 0
OffenceWindow(b)  == /\ b.sight /\ b.energy > 0 /\ Less(b.aa, 35)
                     /\ In(b.distance, 400, 1500)
DefenceWindow(b)  == /\ b.sight /\ In(b.distance, 200, 1500) /\ Geq(b.losT, 15)
CounterWindow(b)  == /\ b.energy > 0 /\ In(b.distance, 350, 1000)
                     /\ Less(b.aa, 60)

Enter(mode, window, b) == IF window THEN Succeed([b EXCEPT !.bfm = mode]) ELSE Fail(b)

SetBFMMode_SCISSORS(b) == Enter("SCISSORS", ScissorsWindow(b), b)
SetBFMMode_HABFM(b)    == Enter("HABFM", HeadOnWindow(b), b)
SetBFMMode_OBFM(b)     == Enter("OBFM", OffenceWindow(b), b)

SetBFMMode_DBFMSilent(b) ==
  IF ~ DefenceWindow(b) THEN Fail(b)
  ELSE Succeed([b EXCEPT !.bfm = "DBFM", !.counter = @ \/ CounterWindow(b)])

SetBFMMode_DBFM(b) ==
  IF ~ DefenceWindow(b) THEN Fail(b)
  ELSE Succeed([b EXCEPT !.bfm = "DBFM", !.counter = CounterWindow(b)])

-----------------------------------------------------------------------------
(* Checks: the ports of the node give a direction and a limit.             *)
Check(x, port, b) ==
  Test(\/ port.UpDown = "Greater" /\ Geq(x, port.limit)
       \/ port.UpDown = "Less" /\ Leq(x, port.limit), b)

DECO_DistanceCheck(b, port) == Check(b.distance, port, b)
DECO_LOSCheck(b, port)      == Check(b.los, port, b)
DECO_AngleOffCheck(b, port) == Check(b.ao, port, b)

\* An unknown mode stands for NONE.
DECO_BFMCheck(b, port) ==
  Test(b.bfm = IF port.mode \in Modes THEN port.mode ELSE "NONE", b)

\* Less also holds when the aircraft is about to be below: within 150 m and
\* descending (15 m/s or 5 degrees), or below after two seconds at this rate.
Nose(b)      == IF b.myAxes = NoAxes THEN 0 ELSE NoseUp[b.myAxes]
ClimbRate(b) == Nose(b) * b.me.speed

DECO_AltitudeCheck(b, port) ==
  LET z == AltitudeOf[b.me.loc] IN
  Test(\/ port.UpDown = "Greater" /\ z > port.limit
       \/ /\ port.UpDown = "Less"
          /\ \/ z < port.limit
             \/ z < port.limit + 150 /\ (ClimbRate(b) < -15000 \/ Nose(b) < -87)
             \/ 1000 * z + 2 * ClimbRate(b) < 1000 * port.limit, b)

-----------------------------------------------------------------------------
(* Tasks: the waypoint.                                                    *)
Steer(b, task, x, along, way) ==
  [b EXCEPT !.vp = [task |-> task, anchor |-> x.loc, along |-> along, way |-> way]]

ByMe(b, task, axes, ways)     == {Outcome("SUCCESS", Steer(b, task, b.me, axes, w)) : w \in ways}
ByTarget(b, task, axes, ways) == {Outcome("SUCCESS", Steer(b, task, b.tgt, axes, w)) : w \in ways}

Sideways == {"right", "left"}

Task_ScissorBreakTurn(b) == ByMe(b, "Task_ScissorBreakTurn", b.myAxes, Sideways)
Task_ScissorRollBack(b)  == ByMe(b, "Task_ScissorRollBack", b.tgtAxes, {"up", "right"})

\* Right or left at random when too close, or weaker and overtaken; up when
\* stronger; any of the three otherwise.
Task_EvasiveRollOrScissors(b) ==
  ByMe(b, "Task_EvasiveRollOrScissors", b.myAxes,
       IF \/ b.distance < 250
          \/ b.energy < 0 /\ b.tgt.speed > b.me.speed THEN Sideways
       ELSE IF b.energy > 0 THEN {"up"} ELSE Sideways \cup {"up"})

Task_CounterTurn(b)       == ByMe(b, "Task_CounterTurn", b.tgtAxes, {"right"})
Task_RollReverseAttack(b) == ByMe(b, "Task_RollReverseAttack", b.tgtAxes, {"right"})

\* One circle needs the higher speed, two circles the lower one: with equal
\* speeds both fail.
Task_OneCircleAttack(b) ==
  IF b.me.speed > b.tgt.speed
  THEN ByTarget(b, "Task_OneCircleAttack", b.tgtAxes, {"left"}) ELSE Fail(b)

Task_TwoCircleAttack(b) ==
  IF b.me.speed < b.tgt.speed
  THEN ByTarget(b, "Task_TwoCircleAttack", b.tgtAxes, {"right"}) ELSE Fail(b)

Task_AntiOvershoot(b) ==
  ByTarget(b, "Task_AntiOvershoot", b.tgtAxes,
           IF b.distance < 600 /\ b.me.speed - b.tgt.speed > 12
           THEN {"behind"} ELSE {"on"})

\* PredictedTargetVelocity is never written: the lead is zero.
Task_LeadPursuit(b) ==
  IF b.distance < 250 THEN Fail(b)
  ELSE ByTarget(b, "Task_LeadPursuit", b.tgtAxes, {"on"})

\* 1000 m ahead along X when the target is at the same place; a point behind
\* it (lag) when the nose is more than six degrees outside the line of sight.
NoseOutside(b) ==
  AngleOff(b.myAxes, b.tgtAxes) - LosOf[<<b.me.loc, b.tgtAxes, b.tgt.loc>>]

Task_FollowTarget(b) ==
  IF b.me.loc = b.tgt.loc
  THEN ByMe(b, "Task_FollowTarget", NoAxes, {"ahead"})
  ELSE ByTarget(b, "Task_FollowTarget", b.tgtAxes,
                IF NoAxes \in {b.myAxes, b.tgtAxes} THEN {"on"}
                ELSE IF NoseOutside(b) > 6 THEN {"lag"} ELSE {"pure"})

Task_Pure(b) == ByTarget(b, "Task_Pure", b.tgtAxes, {"on"})

\* A waypoint ahead of the target that is not lower than 1000 m.
Task_CloseDistance(b) ==
  IF b.enemy = <<>> THEN Fail(b)
  ELSE ByTarget(b, "Task_CloseDistance", b.tgtAxes, {"ahead"})

FullThrottle(O) == {[o EXCEPT !.b.throttle = 1] : o \in O}

\* These two go by Enemy[0] itself.
Task_MakeLOS(b) ==
  IF b.enemy = <<>> \/ b.me.loc = b.enemy[1].loc THEN Fail(b)
  ELSE FullThrottle({Outcome("SUCCESS",
         Steer(b, "Task_MakeLOS", b.enemy[1], b.tgtAxes, "ahead"))})

Task_MinimizeAngleOff(b) ==
  IF b.enemy = <<>> \/ b.tgtAxes = NoAxes THEN Fail(b)
  ELSE FullThrottle({Outcome("SUCCESS",
         Steer(b, "Task_MinimizeAngleOff", b.enemy[1], b.tgtAxes, "ahead"))})

\* Ends the engagement; RUNNING until high enough, nose up and climbing.
SafelyClimbing(b) ==
  AltitudeOf[b.me.loc] >= 1400 /\ Nose(b) >= 35 /\ ClimbRate(b) > 5000

Task_ClimbToSafeAltitude(b) ==
  LET c == [b EXCEPT !.bfm = "NONE", !.throttle = 1] IN
  {Outcome(IF SafelyClimbing(b) THEN "SUCCESS" ELSE "RUNNING",
           Steer(c, "Task_ClimbToSafeAltitude", b.me, b.myAxes, "up"))}

\* A lead of at most 2.5 s (2500 ms), 914 to 4572 m away, 45 degrees off the
\* tail at most, on a target that moves.
LeadMax == 2500

Leading(b) == In(b.distance, 915, 4572) /\ b.aa <= 45

Task_LeadEntry(b) ==
  IF ~ Leading(b) THEN Fail([b EXCEPT !.lead = 0])
  ELSE LET used == b.lead + b.dt IN
       IF used > LeadMax \/ b.tgtAxes = NoAxes \/ b.tgt.speed = 0
       THEN Fail([b EXCEPT !.lead = 0])
       ELSE ByTarget([b EXCEPT !.lead = used], "Task_LeadEntry", b.tgtAxes, {"ahead"})

-----------------------------------------------------------------------------
Services == {"SelectTarget", "DistanceUpdate", "CheckSight", "DirectionVectorUpdate",
             "AngleOffUpdate", "AspectAngleUpdate", "EnergyCompare", "PredictManeuver"}
Tasks    == {"Task_ScissorBreakTurn", "Task_ScissorRollBack", "Task_EvasiveRollOrScissors",
             "Task_CounterTurn", "Task_RollReverseAttack", "Task_OneCircleAttack",
             "Task_TwoCircleAttack", "Task_AntiOvershoot", "Task_LeadPursuit",
             "Task_FollowTarget", "Task_Pure", "Task_CloseDistance", "Task_MakeLOS",
             "Task_MinimizeAngleOff", "Task_ClimbToSafeAltitude", "Task_LeadEntry"}

\* tick() of a leaf of class c.  init() registers all of them, except for
\* DECO_LOSCheck and DECO_AngleOffCheck.
TickOf(c, port, b) ==
  CASE c = "SelectTarget" -> SelectTarget(b)
    [] c = "DistanceUpdate" -> DistanceUpdate(b)
    [] c = "CheckSight" -> CheckSight(b)
    [] c = "DirectionVectorUpdate" -> DirectionVectorUpdate(b)
    [] c = "AngleOffUpdate" -> AngleOffUpdate(b)
    [] c = "AspectAngleUpdate" -> AspectAngleUpdate(b)
    [] c = "EnergyCompare" -> EnergyCompare(b)
    [] c = "PredictManeuver" -> PredictManeuver(b)
    [] c = "SetBFMMode_SCISSORS" -> SetBFMMode_SCISSORS(b)
    [] c = "SetBFMMode_HABFM" -> SetBFMMode_HABFM(b)
    [] c = "SetBFMMode_OBFM" -> SetBFMMode_OBFM(b)
    [] c = "SetBFMMode_DBFM" -> SetBFMMode_DBFM(b)
    [] c = "DECO_DistanceCheck" -> DECO_DistanceCheck(b, port)
    [] c = "DECO_LOSCheck" -> DECO_LOSCheck(b, port)
    [] c = "DECO_AngleOffCheck" -> DECO_AngleOffCheck(b, port)
    [] c = "DECO_BFMCheck" -> DECO_BFMCheck(b, port)
    [] c = "DECO_AltitudeCheck" -> DECO_AltitudeCheck(b, port)
    [] c = "Task_ScissorBreakTurn" -> Task_ScissorBreakTurn(b)
    [] c = "Task_ScissorRollBack" -> Task_ScissorRollBack(b)
    [] c = "Task_EvasiveRollOrScissors" -> Task_EvasiveRollOrScissors(b)
    [] c = "Task_CounterTurn" -> Task_CounterTurn(b)
    [] c = "Task_RollReverseAttack" -> Task_RollReverseAttack(b)
    [] c = "Task_OneCircleAttack" -> Task_OneCircleAttack(b)
    [] c = "Task_TwoCircleAttack" -> Task_TwoCircleAttack(b)
    [] c = "Task_AntiOvershoot" -> Task_AntiOvershoot(b)
    [] c = "Task_LeadPursuit" -> Task_LeadPursuit(b)
    [] c = "Task_FollowTarget" -> Task_FollowTarget(b)
    [] c = "Task_Pure" -> Task_Pure(b)
    [] c = "Task_CloseDistance" -> Task_CloseDistance(b)
    [] c = "Task_MakeLOS" -> Task_MakeLOS(b)
    [] c = "Task_MinimizeAngleOff" -> Task_MinimizeAngleOff(b)
    [] c = "Task_ClimbToSafeAltitude" -> Task_ClimbToSafeAltitude(b)
    [] c = "Task_LeadEntry" -> Task_LeadEntry(b)
=============================================================================
