------------------------------ MODULE CombatRule ------------------------------
(***************************************************************************)
(* Rule.xml, the rule the pilot flies by: the nodes in the order of the    *)
(* file, the children of those that have some, and the class of each.      *)
(***************************************************************************)
EXTENDS Pilot

RuleTree ==
  [ root   |-> <<"update", "select">>,
    update |-> <<"sel", "dist", "sight", "axes", "off", "aspect", "energy", "predict">>,
    select |-> <<"b1", "b2", "b3", "b4", "track">>,
    b1 |-> <<"m1", "a1">>, a1 |-> <<"t11", "t12", "t13">>,
    b2 |-> <<"m2", "a2">>, a2 |-> <<"t21", "t22">>,
    b3 |-> <<"m3", "a3">>, a3 |-> <<"t31", "t32", "t33">>,
    b4 |-> <<"m4", "a4">>, a4 |-> <<"deco", "t42", "t43">>, deco |-> <<"t41">>,
    track |-> <<"t51", "t52">> ]

RuleXml ==
  [ root |-> "Sequence", update |-> "Sequence",
    sel |-> "SelectTarget", dist |-> "DistanceUpdate", sight |-> "CheckSight",
    axes |-> "DirectionVectorUpdate", off |-> "AngleOffUpdate",
    aspect |-> "AspectAngleUpdate", energy |-> "EnergyCompare",
    predict |-> "PredictManeuver",
    select |-> "Fallback",
    b1 |-> "Sequence", m1 |-> "SetBFMMode_SCISSORS", a1 |-> "Fallback",
    t11 |-> "Task_ScissorBreakTurn", t12 |-> "Task_ScissorRollBack",
    t13 |-> "Task_EvasiveRollOrScissors",
    b2 |-> "Sequence", m2 |-> "SetBFMMode_HABFM", a2 |-> "Fallback",
    t21 |-> "Task_OneCircleAttack", t22 |-> "Task_TwoCircleAttack",
    b3 |-> "Sequence", m3 |-> "SetBFMMode_OBFM", a3 |-> "Fallback",
    t31 |-> "Task_AntiOvershoot", t32 |-> "Task_LeadPursuit", t33 |-> "Task_FollowTarget",
    b4 |-> "Sequence", m4 |-> "SetBFMMode_DBFM", a4 |-> "Fallback",
    deco |-> "DECO_CounterAttackCheck", t41 |-> "Task_RollReverseAttack",
    t42 |-> "Task_EvasiveRollOrScissors", t43 |-> "Task_CounterTurn",
    track |-> "Fallback", t51 |-> "Task_FollowTarget", t52 |-> "Task_Pure" ]

\* The lines of the start and end tags.
FirstLine ==
  [ root |-> 7, update |-> 12, sel |-> 14, dist |-> 15, sight |-> 16,
    axes |-> 19, off |-> 22, aspect |-> 23, energy |-> 25, predict |-> 26,
    select |-> 34, b1 |-> 37, m1 |-> 38, a1 |-> 40, t11 |-> 41, t12 |-> 42,
    t13 |-> 43, b2 |-> 48, m2 |-> 49, a2 |-> 51, t21 |-> 52, t22 |-> 53,
    b3 |-> 58, m3 |-> 59, a3 |-> 61, t31 |-> 62, t32 |-> 63, t33 |-> 64,
    b4 |-> 69, m4 |-> 70, a4 |-> 72, deco |-> 74, t41 |-> 75, t42 |-> 78,
    t43 |-> 79, track |-> 86, t51 |-> 87, t52 |-> 88 ]

LastLines ==
  [ root |-> 93, update |-> 28, select |-> 91, b1 |-> 45, a1 |-> 44,
    b2 |-> 55, a2 |-> 54, b3 |-> 66, a3 |-> 65, b4 |-> 82, a4 |-> 81,
    deco |-> 76, track |-> 89 ]
LastLine == [n \in DOMAIN RuleXml |-> IF n \in DOMAIN LastLines THEN LastLines[n] ELSE FirstLine[n]]

KidsIn(tree) == [n \in DOMAIN RuleXml |-> IF n \in DOMAIN tree THEN tree[n] ELSE <<>>]

\* The loader has attached every node of the file to its parent.
LoadedWhole ==
  /\ RuleNode = DOMAIN RuleXml /\ RuleRoot = "root"
  /\ RuleKids = KidsIn(RuleTree)
  /\ Class[Shipped] = RuleXml

\* What the loader of this repository makes of the file: the name of the root
\* is not that of its type, so nothing is attached to it.
LoadedBare ==
  /\ RuleNode = {"root"} /\ RuleRoot = "root"
  /\ RuleKids["root"] = <<>>
  /\ Class[Shipped]["root"] = RuleXml.root
=============================================================================
