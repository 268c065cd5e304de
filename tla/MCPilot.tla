------------------------------- MODULE MCPilot -------------------------------
(* Rule.xml, and a drill of the registered nodes it leaves out, in a plane.  *)
EXTENDS CombatRule, SequencesExt

\* Places by distance east and altitude, attitudes by heading: 0 is east.
Where == [p |-> <<0, 1000>>, q |-> <<100, 1500>>, near |-> <<500, 1000>>,
          far |-> <<1000, 1000>>]
Nose0 == [east |-> 0, climb |-> 0, back |-> 130, home |-> 160, west |-> -180]

MCPlace    == DOMAIN Where
MCAttitude == DOMAIN Nose0
Mag(x)     == IF x < 0 THEN -x ELSE x
Sq(x)      == x * x
IntRoot(x)   == CHOOSE r \in 0 .. 2000 : r * r <= x /\ x < (r + 1) * (r + 1)

MCDistance == [p, q \in MCPlace |->
                 IntRoot(Sq(Where[p][1] - Where[q][1]) + Sq(Where[p][2] - Where[q][2]))]
\* The angle between heading h and the direction from x to y.
Bearing(x, h, y) == IF Where[y][1] >= Where[x][1] THEN Mag(Nose0[h]) ELSE 180 - Mag(Nose0[h])
MCLos      == [x \in MCPlace, h \in MCAttitude, y \in MCPlace |-> Bearing(x, h, y)]
MCAspect   == [m \in MCPlace, t \in MCPlace, h \in MCAttitude |-> Bearing(t, h, m)]
MCAngleOff == [g, h \in MCAttitude |-> Mag(Mag(Nose0[g]) - Mag(Nose0[h]))]
MCAltitude == [x \in MCPlace |-> Where[x][2]]
MCYaw      == Nose0
MCNoseUp   == [h \in MCAttitude |-> IF h = "climb" THEN 100 ELSE IF h = "back" THEN -100 ELSE 0]
\* A change of heading, brought to -180 .. 180.
MCNormalized == [d \in -360 .. 360 |->
                   IF d > 180 THEN d - 360 ELSE IF d < -180 THEN d + 360 ELSE d]
MCStart    == <<"p", "east">>

Plane(loc, rot, speed, team, hp) ==
  [loc |-> loc, rot |-> rot, speed |-> speed, team |-> team, hp |-> hp]

MCMine == { Plane("p", "climb", 200, 0, 1),
            Plane("q", "climb", 200, 0, 1),
            Plane("q", "climb", 40, 0, 1), Plane("far", "east", 200, 0, 0) }

Foe(loc, rot, speed) == Plane(loc, rot, speed, 1, 1)
MCOthers ==
  { <<>>, <<Foe("near", "home", 200)>>, <<Foe("far", "home", 200)>>,
    <<Foe("near", "east", 200)>>,
    <<Plane("near", "east", 150, 1, 0), Foe("far", "east", 150)>>,
    <<Plane("near", "east", 150, 0, 1), Foe("far", "east", 210)>>,
    <<Foe("near", "home", 0), Foe("far", "back", 150)>>,
    <<Foe("far", "back", 150)>>, <<Foe("far", "back", 0)>>,
    <<Foe("p", "east", 200)>> }

\* A second file of the same shape, with the other registered nodes, and with
\* tasks before which one has failed.
DrillLeaves ==
  [ m1 |-> "DECO_AltitudeCheck", t11 |-> "Task_ClimbToSafeAltitude",
    t12 |-> "Task_ScissorRollBack", t13 |-> "Task_CloseDistance",
    m2 |-> "DECO_DistanceCheck", t21 |-> "Task_LeadEntry",
    t22 |-> "Task_Pure", m3 |-> "DECO_BFMCheck",
    t31 |-> "Task_MakeLOS", t32 |-> "Task_LeadPursuit", t33 |-> "Task_FollowTarget",
    m4 |-> "SetBFMMode_DBFM", deco |-> "DECO_CounterAttackCheck",
    t41 |-> "Task_ClimbToSafeAltitude", t42 |-> "Task_MinimizeAngleOff",
    t43 |-> "Task_CounterTurn", t51 |-> "Task_CloseDistance", t52 |-> "Task_ScissorRollBack" ]
Drill == [n \in DOMAIN RuleXml |-> IF n \in DOMAIN DrillLeaves THEN DrillLeaves[n] ELSE RuleXml[n]]

MCRuleNode   == DOMAIN RuleXml
MCRuleKids   == KidsIn(RuleTree)
MCRuleParent ==
  [n \in MCRuleNode \ {"root"} |-> CHOOSE p \in MCRuleNode : n \in ToSet(MCRuleKids[p])]

MCFiles == {"Rule.xml", "Drill.xml"}
MCClass == [f \in MCFiles |-> IF f = "Rule.xml" THEN RuleXml ELSE Drill]

MCPorts == [n \in MCRuleNode |->
  CASE n = "m1" -> [UpDown |-> "Less", limit |-> 1400, mode |-> ""]
    [] n = "m2" -> [UpDown |-> "Greater", limit |-> 920, mode |-> ""]
    [] n = "m3" -> [UpDown |-> "", limit |-> 0, mode |-> "DBFM"]
    [] OTHER -> [UpDown |-> "", limit |-> 0, mode |-> ""]]

\* Rule.xml as the loader attaches its nodes: the name of the root is
\* "MainCombatSequence", so it gets no children.
DetachedKids == [n \in {"root"} |-> <<>>]
=============================================================================
