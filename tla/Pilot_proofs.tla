----------------------------- MODULE Pilot_proofs -----------------------------
(***************************************************************************)
(* What the pilot does with Rule.xml, for every geometry and whatever the  *)
(* host passes: the picture the checks go by, the windows in which the     *)
(* tasks act, the waypoint and the stick.                                  *)
(***************************************************************************)
EXTENDS CombatRule, FiniteSetTheorems, WellFoundedInduction, TLAPS

-----------------------------------------------------------------------------
(* The walk.  Every step through a finite tree goes on in document order,  *)
(* so the recursion of Walk ends.                                          *)

\* A non-empty set of natural numbers has a least element.
LEMMA LeastNat ==
  ASSUME NEW T \in SUBSET Nat, T # {}
  PROVE  \E m \in T : \A k \in T : m <= k
<1> DEFINE R == OpToRel(<, Nat)
<1>1. IsWellFoundedOn(R, Nat)
  BY NatLessThanWellFounded
<1>2. \A x, y \in Nat : x < y => <<x, y>> \in R
  BY DEF OpToRel
<1> HIDE DEF R
<1>3. PICK m \in T : \A k \in T : ~ (<<k, m>> \in R)
  BY <1>1, WFMin
<1>4. \A k \in T : ~ (k < m)
  BY <1>2, <1>3
<1> QED
  BY <1>4

Ends(x)    == IF x.says = "enter" THEN x.node ELSE x.says
Walks(W)   == [x \in Points |-> IF ~ Stops(x) THEN W[Onward(x)] ELSE Ends(x)]

\* A walk goes down the file: what is left of it when x is reached.
Line(x) == IF x.says = "enter" THEN 2 * Opens[x.node] ELSE 2 * Closes[x.node] + 1
Left    == [x \in Points |-> 2 * Closes[RuleRoot] + 1 - Line(x)]

\* Every step of a walk leads to a line further down.
LEMMA GoesDown ==
  /\ \A x \in Points : Left[x] \in Nat
  /\ \A x \in Points : ~ Stops(x) => Onward(x) \in Points /\ Left[Onward(x)] < Left[x]
<1>1. \A n \in RuleNode : /\ Opens[n] \in Nat /\ Closes[n] \in Nat /\ Opens[n] <= Closes[n]
                         /\ Closes[n] <= Closes[RuleRoot]
  BY RuleAssumption
<1>2. RuleRoot \in RuleNode /\ RuleKids \in [RuleNode -> Seq(RuleNode)]
  BY RuleAssumption
<1>3. \A n \in RuleNode : Nested(n, RuleKids[n])
  BY RuleAssumption
<1>4. \A x \in Points : x.node \in RuleNode /\ Line(x) \in Nat /\ Left[x] \in Nat
  <2> SUFFICES ASSUME NEW x \in Points
               PROVE  x.node \in RuleNode /\ Line(x) \in Nat /\ Left[x] \in Nat
    OBVIOUS
  <2>1. x.node \in RuleNode
    BY DEF Points
  <2> DEFINE o == Opens[x.node]
             c == Closes[x.node]
             r == Closes[RuleRoot]
  <2>a. o \in Nat /\ c \in Nat /\ r \in Nat /\ o <= c /\ c <= r
    BY <1>1, <1>2, <2>1
  <2>b. Line(x) = 2 * o \/ Line(x) = 2 * c + 1
    BY DEF Line
  <2> HIDE DEF o, c, r
  <2>c. Line(x) \in Nat /\ Line(x) <= 2 * r + 1
    BY <2>a, <2>b
  <2>2. Line(x) \in Nat /\ Line(x) <= 2 * Closes[RuleRoot] + 1
    BY <2>c DEF r
  <2>3. Left[x] = 2 * Closes[RuleRoot] + 1 - Line(x)
    BY DEF Left
  <2> QED
    BY <1>1, <1>2, <2>1, <2>2, <2>3
<1>5. ASSUME NEW x \in Points, ~ Stops(x)
      PROVE  Onward(x) \in Points /\ Line(x) < Line(Onward(x))
  <2>1. CASE x.says = "enter" /\ RuleKids[x.node] = <<>>
    <3>1. /\ Onward(x) \in Points
          /\ Onward(x).node = x.node /\ Onward(x).says # "enter"
      BY <2>1 DEF Onward, Points, Through, Decided
    <3> QED
      BY <2>1, <3>1, <1>1, <1>4 DEF Line
  <2>2. CASE x.says = "enter" /\ RuleKids[x.node] # <<>>
    <3> DEFINE kids == RuleKids[x.node]
    <3>1. kids \in Seq(RuleNode) /\ 1 \in DOMAIN kids
      BY <1>2, <1>4, <2>2
    <3>2. kids[1] \in RuleNode /\ Opens[x.node] < Opens[kids[1]]
      BY <1>3, <1>4, <3>1 DEF Nested
    <3>3. /\ Onward(x) \in Points
          /\ Onward(x).node = kids[1] /\ Onward(x).says = "enter"
      BY <2>2, <3>2 DEF Onward, Points
    <3> QED
      BY <2>2, <3>2, <3>3, <1>1, <1>4 DEF Line
  <2>3. CASE x.says # "enter"
    <3> DEFINE n == x.node
               p == RuleParent[n]
    <3>1. n \in RuleNode /\ n # RuleRoot
      BY <1>4, <1>5, <2>3 DEF Stops
    <3>2. p \in RuleNode /\ \E i \in DOMAIN RuleKids[p] : RuleKids[p][i] = n
      BY <3>1, RuleAssumption
    <3>3. Position(n) \in DOMAIN RuleKids[p] /\ RuleKids[p][Position(n)] = n
      BY <3>2 DEF Position
    <3>4. RuleKids[p] \in Seq(RuleNode) /\ Nested(p, RuleKids[p])
      BY <1>2, <1>3, <3>2
    <3>5. CASE GoesOn(x)
      <4>1. Position(n) + 1 \in DOMAIN RuleKids[p]
        BY <3>3, <3>4, <3>5 DEF GoesOn, HasNext
      <4>2. NextOf(n) \in RuleNode /\ Closes[n] < Opens[NextOf(n)]
        BY <3>3, <3>4, <4>1 DEF NextOf, Nested
      <4>3. /\ Onward(x) \in Points
            /\ Onward(x).node = NextOf(n) /\ Onward(x).says = "enter"
        BY <2>3, <3>5, <4>2 DEF Onward, Points
      <4> QED
        BY <2>3, <4>2, <4>3, <1>1, <1>4 DEF Line
    <3>6. CASE ~ GoesOn(x)
      <4>1. Closes[n] < Closes[p]
        BY <3>3, <3>4 DEF Nested
      <4>2. /\ Onward(x) \in Points
            /\ Onward(x).node = p /\ Onward(x).says = x.says
        BY <2>3, <3>6, <3>2 DEF Onward, Points
      <4> QED
        BY <2>3, <3>2, <4>1, <4>2, <1>1, <1>4 DEF Line
    <3> QED
      BY <3>5, <3>6
  <2> QED
    BY <2>1, <2>2, <2>3
<1> QED
  BY <1>1, <1>2, <1>4, <1>5 DEF Left

\* The equation that defines Walk has a solution, so Walk is one.
LEMMA WalkUnfolds ==
  \A x \in Points : Walk[x] = IF ~ Stops(x) THEN Walk[Onward(x)] ELSE Ends(x)
<1> DEFINE Solved(W, k) == \A x \in Points : Left[x] < k => W[x] = Walks(W)[x]
           Open == {k \in Nat : \A W : ~ Solved(W, k)}
<1>1. Open = {}
  <2> SUFFICES ASSUME Open # {} PROVE FALSE
    OBVIOUS
  <2>1. PICK k \in Open : \A j \in Open : k <= j
    BY LeastNat
  <2>2. k # 0
    <3>1. Solved(Walk, 0)
      BY GoesDown
    <3> QED
      BY <2>1, <3>1
  <2>3. k - 1 \in Nat /\ k - 1 \notin Open
    BY <2>1, <2>2
  <2>4. PICK W : Solved(W, k - 1)
    BY <2>3
  <2>5. Solved(Walks(W), k)
    <3> SUFFICES ASSUME NEW x \in Points, Left[x] < k
                 PROVE  Walks(W)[x] = Walks(Walks(W))[x]
      OBVIOUS
    <3>1. CASE Stops(x)
      BY <3>1 DEF Walks
    <3>2. CASE ~ Stops(x)
      <4>1. Onward(x) \in Points /\ Left[Onward(x)] < k - 1
        BY <3>2, <2>3, GoesDown
      <4>2. W[Onward(x)] = Walks(W)[Onward(x)]
        BY <4>1, <2>4
      <4> QED
        BY <4>2, <3>2 DEF Walks
    <3> QED
      BY <3>1, <3>2
  <2> QED
    BY <2>1, <2>5
<1>2. PICK max \in Nat : \A x \in Points : Left[x] <= max
  <2>1. \A x \in Points : Left[x] <= 2 * Closes[RuleRoot] + 1
    BY RuleAssumption, GoesDown DEF Left, Line, Points
  <2>2. 2 * Closes[RuleRoot] + 1 \in Nat
    BY RuleAssumption
  <2> QED
    BY <2>1, <2>2
<1>3. PICK W : Solved(W, max + 1)
  BY <1>1, <1>2
<1>4. \A x \in Points : W[x] = Walks(W)[x]
  <2> SUFFICES ASSUME NEW x \in Points PROVE W[x] = Walks(W)[x]
    OBVIOUS
  <2>1. Left[x] < max + 1
    BY <1>2, GoesDown
  <2> QED
    BY <2>1, <1>3
<1>5. Walks(W) = Walks(Walks(W))
  <2>1. \A x \in Points : ~ Stops(x) => Onward(x) \in Points
    BY GoesDown
  <2> QED
    BY <2>1, <1>4 DEF Walks
<1>6. Walk = Walks(Walk)
  BY <1>5 DEF Walks, Walk, Ends
<1> QED
  BY <1>6 DEF Walks

-----------------------------------------------------------------------------
(* The nodes of Rule.xml, and where each one sits.                         *)
Inner  == {"root", "update", "select", "b1", "a1", "b2", "a2", "b3", "a3",
            "b4", "a4", "deco", "track"}
Outer  == {"sel", "dist", "sight", "axes", "off", "aspect", "energy",
            "predict", "m1", "t11", "t12", "t13", "m2", "t21", "t22", "m3",
            "t31", "t32", "t33", "m4", "t41", "t42", "t43", "t51", "t52"}

\* The nodes and the children that Rule.xml gives them.
LEMMA RuleShape ==
  ASSUME LoadedWhole
  PROVE  /\ RuleNode = Inner \cup Outer
         /\ RuleKids["root"] = <<"update", "select">>
         /\ RuleKids["update"] = <<"sel", "dist", "sight", "axes", "off", "aspect",
                                   "energy", "predict">>
         /\ RuleKids["select"] = <<"b1", "b2", "b3", "b4", "track">>
         /\ RuleKids["b1"] = <<"m1", "a1">>
         /\ RuleKids["a1"] = <<"t11", "t12", "t13">>
         /\ RuleKids["b2"] = <<"m2", "a2">>
         /\ RuleKids["a2"] = <<"t21", "t22">>
         /\ RuleKids["b3"] = <<"m3", "a3">>
         /\ RuleKids["a3"] = <<"t31", "t32", "t33">>
         /\ RuleKids["b4"] = <<"m4", "a4">>
         /\ RuleKids["a4"] = <<"deco", "t42", "t43">>
         /\ RuleKids["deco"] = <<"t41">>
         /\ RuleKids["track"] = <<"t51", "t52">>
         /\ \A n \in Outer : RuleKids[n] = <<>>
<1>1. RuleNode = Inner \cup Outer
  BY DEF LoadedWhole, RuleXml, Inner, Outer
<1>2. RuleKids["root"] = <<"update", "select">>
  BY DEF LoadedWhole, KidsIn, RuleTree, RuleXml
<1>3. RuleKids["update"] = <<"sel", "dist", "sight", "axes", "off", "aspect",
                          "energy", "predict">>
  BY DEF LoadedWhole, KidsIn, RuleTree, RuleXml
<1>4. RuleKids["select"] = <<"b1", "b2", "b3", "b4", "track">>
  BY DEF LoadedWhole, KidsIn, RuleTree, RuleXml
<1>5. RuleKids["b1"] = <<"m1", "a1">>
  BY DEF LoadedWhole, KidsIn, RuleTree, RuleXml
<1>6. RuleKids["a1"] = <<"t11", "t12", "t13">>
  BY DEF LoadedWhole, KidsIn, RuleTree, RuleXml
<1>7. RuleKids["b2"] = <<"m2", "a2">>
  BY DEF LoadedWhole, KidsIn, RuleTree, RuleXml
<1>8. RuleKids["a2"] = <<"t21", "t22">>
  BY DEF LoadedWhole, KidsIn, RuleTree, RuleXml
<1>9. RuleKids["b3"] = <<"m3", "a3">>
  BY DEF LoadedWhole, KidsIn, RuleTree, RuleXml
<1>10. RuleKids["a3"] = <<"t31", "t32", "t33">>
  BY DEF LoadedWhole, KidsIn, RuleTree, RuleXml
<1>11. RuleKids["b4"] = <<"m4", "a4">>
  BY DEF LoadedWhole, KidsIn, RuleTree, RuleXml
<1>12. RuleKids["a4"] = <<"deco", "t42", "t43">>
  BY DEF LoadedWhole, KidsIn, RuleTree, RuleXml
<1>13. RuleKids["deco"] = <<"t41">>
  BY DEF LoadedWhole, KidsIn, RuleTree, RuleXml
<1>14. RuleKids["track"] = <<"t51", "t52">>
  BY DEF LoadedWhole, KidsIn, RuleTree, RuleXml
<1>15. \A n \in Outer : RuleKids[n] = <<>>
  BY DEF LoadedWhole, KidsIn, RuleTree, RuleXml, Outer
<1> QED
  BY <1>1, <1>2, <1>3, <1>4, <1>5, <1>6, <1>7, <1>8, <1>9, <1>10, <1>11, <1>12, <1>13, <1>14, <1>15

\* Which nodes have children.
LEMMA InnerNodes ==
  ASSUME LoadedWhole
  PROVE  \A n \in Inner : RuleKids[n] # <<>>
<1>1. 1 \in DOMAIN RuleKids["root"]
  BY RuleShape
<1>2. 1 \in DOMAIN RuleKids["update"]
  BY RuleShape
<1>3. 1 \in DOMAIN RuleKids["select"]
  BY RuleShape
<1>4. 1 \in DOMAIN RuleKids["b1"]
  BY RuleShape
<1>5. 1 \in DOMAIN RuleKids["a1"]
  BY RuleShape
<1>6. 1 \in DOMAIN RuleKids["b2"]
  BY RuleShape
<1>7. 1 \in DOMAIN RuleKids["a2"]
  BY RuleShape
<1>8. 1 \in DOMAIN RuleKids["b3"]
  BY RuleShape
<1>9. 1 \in DOMAIN RuleKids["a3"]
  BY RuleShape
<1>10. 1 \in DOMAIN RuleKids["b4"]
  BY RuleShape
<1>11. 1 \in DOMAIN RuleKids["a4"]
  BY RuleShape
<1>12. 1 \in DOMAIN RuleKids["deco"]
  BY RuleShape
<1>13. 1 \in DOMAIN RuleKids["track"]
  BY RuleShape
<1>14. \A n \in Inner : 1 \in DOMAIN RuleKids[n]
  BY <1>1, <1>2, <1>3, <1>4, <1>5, <1>6, <1>7, <1>8, <1>9, <1>10, <1>11, <1>12, <1>13 DEF Inner
<1> QED
  BY <1>14

-----------------------------------------------------------------------------
(* How a tick goes through Rule.xml.                                       *)
On(n, s)  == Walk[[file |-> Shipped, node |-> n, says |-> s]]
Kind(n)   == Class[Shipped][n]

\* A child of p occurs once among the children of p, and nowhere else.
LEMMA Seats ==
  ASSUME NEW p \in RuleNode, NEW i \in DOMAIN RuleKids[p]
  PROVE  /\ RuleKids[p][i] \in RuleNode \ {RuleRoot}
         /\ RuleParent[RuleKids[p][i]] = p /\ Position(RuleKids[p][i]) = i
<1> DEFINE kids == RuleKids[p]
<1>1. kids \in Seq(RuleNode) /\ Nested(p, kids)
  BY RuleAssumption
<1>2. \A j \in DOMAIN kids : /\ kids[j] \in RuleNode
                            /\ Opens[kids[j]] \in Nat /\ Closes[kids[j]] \in Nat
                            /\ Opens[kids[j]] <= Closes[kids[j]]
  BY <1>1, RuleAssumption
<1>3. \A j \in DOMAIN kids : kids[j] = kids[i] => j = i
  <2> SUFFICES ASSUME NEW j \in DOMAIN kids, kids[j] = kids[i], j # i PROVE FALSE
    OBVIOUS
  <2>1. i \in Nat /\ j \in Nat
    BY <1>1
  <2>2. Closes[kids[i]] < Opens[kids[j]] \/ Closes[kids[j]] < Opens[kids[i]]
    BY <1>1, <2>1 DEF Nested
  <2> QED
    BY <1>2, <2>2
<1>4. kids[i] # RuleRoot
  <2>1. Closes[kids[i]] < Closes[p] /\ Closes[p] <= Closes[RuleRoot]
    BY <1>1, RuleAssumption DEF Nested
  <2>2. Closes[p] \in Nat /\ Closes[RuleRoot] \in Nat
    BY RuleAssumption
  <2> QED
    BY <1>2, <2>1, <2>2
<1>5. RuleParent[kids[i]] = p
  BY RuleAssumption
<1> QED
  BY <1>2, <1>3, <1>4, <1>5 DEF Position

\* One step of the walk, for each thing that can happen to a node.
LEMMA StepsDown ==
  ASSUME NEW n \in RuleNode
  PROVE  /\ Kind(n) \notin ControlClasses => On(n, "enter") = n
         /\ Kind(n) \in ControlClasses /\ RuleKids[n] # <<>> =>
              On(n, "enter") = On(RuleKids[n][1], "enter")
         /\ \A s \in Decided : n = RuleRoot => On(n, s) = s
<1> DEFINE x(s) == [file |-> Shipped, node |-> n, says |-> s]
<1>1. \A s \in Decided \cup {"enter"} : x(s) \in Points
  BY RuleAssumption DEF Points
<1>2. \A s \in Decided \cup {"enter"} :
        On(n, s) = IF ~ Stops(x(s)) THEN Walk[Onward(x(s))] ELSE Ends(x(s))
  BY <1>1, WalkUnfolds DEF On
<1>3. Kind(n) \notin ControlClasses => On(n, "enter") = n
  BY <1>2 DEF Stops, Ends, Kind
<1>4. ASSUME Kind(n) \in ControlClasses, RuleKids[n] # <<>>
      PROVE  On(n, "enter") = On(RuleKids[n][1], "enter")
  <2>1. ~ Stops(x("enter"))
    BY <1>4 DEF Stops, Kind
  <2>2. Onward(x("enter")) = [file |-> Shipped, node |-> RuleKids[n][1], says |-> "enter"]
    BY <1>4 DEF Onward
  <2> QED
    BY <1>2, <2>1, <2>2 DEF On
<1>5. \A s \in Decided : n = RuleRoot => On(n, s) = s
  BY <1>2 DEF Stops, Ends, Decided
<1> QED
  BY <1>3, <1>4, <1>5

\* A child that has returned s: what lets p go on leads to the next child, if
\* there is one, and everything else back to p.
LEMMA StepsBack ==
  ASSUME NEW p \in RuleNode, NEW i \in DOMAIN RuleKids[p], NEW s \in Decided
  PROVE  LET on == /\ \/ Kind(p) = "Sequence" /\ s = "SUCCESS"
                      \/ Kind(p) = "Fallback" /\ s = "FAILURE"
                   /\ i + 1 \in DOMAIN RuleKids[p]
         IN  /\ on => On(RuleKids[p][i], s) = On(RuleKids[p][i + 1], "enter")
             /\ ~ on => On(RuleKids[p][i], s) = On(p, s)
<1> DEFINE n == RuleKids[p][i]
           x == [file |-> Shipped, node |-> n, says |-> s]
<1>1. n \in RuleNode /\ n # RuleRoot /\ RuleParent[n] = p /\ Position(n) = i
  BY Seats
<1>2. x \in Points
  BY <1>1, RuleAssumption DEF Points
<1>3. s # "enter" /\ x.says = s /\ x.node = n /\ x.file = Shipped
  BY DEF Decided
<1>4. ~ Stops(x)
  BY <1>1, <1>3 DEF Stops
<1>5. On(n, s) = Walk[Onward(x)]
  BY <1>2, <1>4, WalkUnfolds DEF On
<1>6. i < Len(RuleKids[p]) <=> i + 1 \in DOMAIN RuleKids[p]
  BY RuleAssumption
<1>7. Kind(p) \in ControlClasses /\ s = Through(Kind(p)) <=>
         \/ Kind(p) = "Sequence" /\ s = "SUCCESS"
         \/ Kind(p) = "Fallback" /\ s = "FAILURE"
  BY DEF ControlClasses, Through, Decided
<1>8. GoesOn(x) <=> /\ Kind(p) \in ControlClasses /\ s = Through(Kind(p))
                    /\ i + 1 \in DOMAIN RuleKids[p]
  BY <1>1, <1>3, <1>6 DEF GoesOn, HasNext, Kind
<1>9. GoesOn(x) => Onward(x) = [file |-> Shipped, node |-> RuleKids[p][i + 1], says |-> "enter"]
  BY <1>1, <1>3 DEF Onward, NextOf
<1>10. ~ GoesOn(x) => Onward(x) = [file |-> Shipped, node |-> p, says |-> s]
  BY <1>1, <1>3 DEF Onward
<1> QED
  BY <1>5, <1>7, <1>8, <1>9, <1>10 DEF On

\* The classes of the nodes of Rule.xml.
LEMMA RuleClasses ==
  ASSUME LoadedWhole
  PROVE  /\ \A n \in {"root", "update", "b1", "b2", "b3", "b4"} : Kind(n) = "Sequence"
         /\ \A n \in {"select", "a1", "a2", "a3", "a4", "track"} : Kind(n) = "Fallback"
         /\ Kind("sel") = "SelectTarget"
         /\ Kind("dist") = "DistanceUpdate"
         /\ Kind("sight") = "CheckSight"
         /\ Kind("axes") = "DirectionVectorUpdate"
         /\ Kind("off") = "AngleOffUpdate"
         /\ Kind("aspect") = "AspectAngleUpdate"
         /\ Kind("energy") = "EnergyCompare"
         /\ Kind("predict") = "PredictManeuver"
         /\ Kind("m1") = "SetBFMMode_SCISSORS"
         /\ Kind("t11") = "Task_ScissorBreakTurn"
         /\ Kind("t12") = "Task_ScissorRollBack"
         /\ Kind("t13") = "Task_EvasiveRollOrScissors"
         /\ Kind("m2") = "SetBFMMode_HABFM"
         /\ Kind("t21") = "Task_OneCircleAttack"
         /\ Kind("t22") = "Task_TwoCircleAttack"
         /\ Kind("m3") = "SetBFMMode_OBFM"
         /\ Kind("t31") = "Task_AntiOvershoot"
         /\ Kind("t32") = "Task_LeadPursuit"
         /\ Kind("t33") = "Task_FollowTarget"
         /\ Kind("m4") = "SetBFMMode_DBFM"
         /\ Kind("deco") = "DECO_CounterAttackCheck"
         /\ Kind("t41") = "Task_RollReverseAttack"
         /\ Kind("t42") = "Task_EvasiveRollOrScissors"
         /\ Kind("t43") = "Task_CounterTurn"
         /\ Kind("t51") = "Task_FollowTarget"
         /\ Kind("t52") = "Task_Pure"
  BY DEF LoadedWhole, Kind, RuleXml

\* Down into Rule.xml: a leaf is ticked, a control node ticks its first child.
LEMMA WaysDown ==
  ASSUME LoadedWhole
  PROVE  /\ \A n \in Outer \cup {"deco"} : On(n, "enter") = n
         /\ On("root", "enter") = On("update", "enter")
         /\ On("update", "enter") = On("sel", "enter")
         /\ On("select", "enter") = On("b1", "enter")
         /\ On("b1", "enter") = On("m1", "enter")
         /\ On("a1", "enter") = On("t11", "enter")
         /\ On("b2", "enter") = On("m2", "enter")
         /\ On("a2", "enter") = On("t21", "enter")
         /\ On("b3", "enter") = On("m3", "enter")
         /\ On("a3", "enter") = On("t31", "enter")
         /\ On("b4", "enter") = On("m4", "enter")
         /\ On("a4", "enter") = On("deco", "enter")
         /\ On("track", "enter") = On("t51", "enter")
<1>1. \A n \in Outer \cup {"deco"} : n \in RuleNode /\ Kind(n) \notin ControlClasses
  <2>1. \A n \in Outer \cup {"deco"} : Kind(n) \notin ControlClasses
    BY RuleClasses DEF Outer, ControlClasses
  <2> QED
    BY <2>1, RuleShape DEF Inner
<1>2. \A n \in Outer \cup {"deco"} : On(n, "enter") = n
  BY <1>1, StepsDown
<1>3. \A n \in Inner \ {"deco"} : n \in RuleNode /\ Kind(n) \in ControlClasses
  <2>1. \A n \in Inner \ {"deco"} : Kind(n) \in ControlClasses
    BY RuleClasses DEF Inner, ControlClasses
  <2> QED
    BY <2>1, RuleShape
<1>4. \A n \in Inner \ {"deco"} : On(n, "enter") = On(RuleKids[n][1], "enter")
  BY <1>3, InnerNodes, StepsDown
<1>5. On("root", "enter") = On("update", "enter")
  BY <1>4, RuleShape DEF Inner
<1>6. On("update", "enter") = On("sel", "enter")
  BY <1>4, RuleShape DEF Inner
<1>7. On("select", "enter") = On("b1", "enter")
  BY <1>4, RuleShape DEF Inner
<1>8. On("b1", "enter") = On("m1", "enter")
  BY <1>4, RuleShape DEF Inner
<1>9. On("a1", "enter") = On("t11", "enter")
  BY <1>4, RuleShape DEF Inner
<1>10. On("b2", "enter") = On("m2", "enter")
  BY <1>4, RuleShape DEF Inner
<1>11. On("a2", "enter") = On("t21", "enter")
  BY <1>4, RuleShape DEF Inner
<1>12. On("b3", "enter") = On("m3", "enter")
  BY <1>4, RuleShape DEF Inner
<1>13. On("a3", "enter") = On("t31", "enter")
  BY <1>4, RuleShape DEF Inner
<1>14. On("b4", "enter") = On("m4", "enter")
  BY <1>4, RuleShape DEF Inner
<1>15. On("a4", "enter") = On("deco", "enter")
  BY <1>4, RuleShape DEF Inner
<1>16. On("track", "enter") = On("t51", "enter")
  BY <1>4, RuleShape DEF Inner
<1> QED
  BY <1>2, <1>5, <1>6, <1>7, <1>8, <1>9, <1>10, <1>11, <1>12, <1>13, <1>14, <1>15, <1>16

\* And back up, child by child, with every result Rule.xml comes to.
LEMMA WaysBack ==
  ASSUME LoadedWhole
  PROVE  /\ On("sel", "SUCCESS") = On("dist", "enter")
         /\ On("dist", "SUCCESS") = On("sight", "enter")
         /\ On("sight", "SUCCESS") = On("axes", "enter")
         /\ On("axes", "SUCCESS") = On("off", "enter")
         /\ On("off", "SUCCESS") = On("aspect", "enter")
         /\ On("aspect", "SUCCESS") = On("energy", "enter")
         /\ On("energy", "SUCCESS") = On("predict", "enter")
         /\ On("predict", "SUCCESS") = On("update", "SUCCESS")
         /\ On("update", "SUCCESS") = On("select", "enter")
         /\ On("m1", "SUCCESS") = On("a1", "enter")
         /\ On("m1", "FAILURE") = On("b1", "FAILURE")
         /\ On("b1", "FAILURE") = On("b2", "enter")
         /\ On("m2", "SUCCESS") = On("a2", "enter")
         /\ On("m2", "FAILURE") = On("b2", "FAILURE")
         /\ On("b2", "FAILURE") = On("b3", "enter")
         /\ On("m3", "SUCCESS") = On("a3", "enter")
         /\ On("m3", "FAILURE") = On("b3", "FAILURE")
         /\ On("b3", "FAILURE") = On("b4", "enter")
         /\ On("m4", "SUCCESS") = On("a4", "enter")
         /\ On("m4", "FAILURE") = On("b4", "FAILURE")
         /\ On("b4", "FAILURE") = On("track", "enter")
         /\ On("t11", "SUCCESS") = On("a1", "SUCCESS")
         /\ On("a1", "SUCCESS") = On("b1", "SUCCESS")
         /\ On("b1", "SUCCESS") = On("select", "SUCCESS")
         /\ On("select", "SUCCESS") = On("root", "SUCCESS")
         /\ On("root", "SUCCESS") = "SUCCESS"
         /\ On("t21", "SUCCESS") = On("a2", "SUCCESS")
         /\ On("a2", "SUCCESS") = On("b2", "SUCCESS")
         /\ On("b2", "SUCCESS") = On("select", "SUCCESS")
         /\ On("t21", "FAILURE") = On("t22", "enter")
         /\ On("t22", "SUCCESS") = On("a2", "SUCCESS")
         /\ On("t22", "FAILURE") = On("a2", "FAILURE")
         /\ On("a2", "FAILURE") = On("b2", "FAILURE")
         /\ On("t31", "SUCCESS") = On("a3", "SUCCESS")
         /\ On("a3", "SUCCESS") = On("b3", "SUCCESS")
         /\ On("b3", "SUCCESS") = On("select", "SUCCESS")
         /\ On("deco", "FAILURE") = On("t42", "enter")
         /\ On("t41", "SUCCESS") = On("deco", "SUCCESS")
         /\ On("deco", "SUCCESS") = On("a4", "SUCCESS")
         /\ On("a4", "SUCCESS") = On("b4", "SUCCESS")
         /\ On("b4", "SUCCESS") = On("select", "SUCCESS")
         /\ On("t42", "SUCCESS") = On("a4", "SUCCESS")
         /\ On("t51", "SUCCESS") = On("track", "SUCCESS")
         /\ On("track", "SUCCESS") = On("select", "SUCCESS")
<1>1. /\ On("update", "SUCCESS") = On("select", "enter")
      /\ On("select", "SUCCESS") = On("root", "SUCCESS")
  <2>1. "root" \in RuleNode /\ Kind("root") = "Sequence"
    BY RuleShape, RuleClasses DEF Inner
  <2>2. /\ DOMAIN RuleKids["root"] = 1 .. 2
        /\ RuleKids["root"][1] = "update"
        /\ RuleKids["root"][2] = "select"
    BY RuleShape
  <2> QED
    BY <2>1, <2>2, StepsBack DEF Decided
<1>2. /\ On("sel", "SUCCESS") = On("dist", "enter")
      /\ On("dist", "SUCCESS") = On("sight", "enter")
      /\ On("sight", "SUCCESS") = On("axes", "enter")
      /\ On("axes", "SUCCESS") = On("off", "enter")
      /\ On("off", "SUCCESS") = On("aspect", "enter")
      /\ On("aspect", "SUCCESS") = On("energy", "enter")
      /\ On("energy", "SUCCESS") = On("predict", "enter")
      /\ On("predict", "SUCCESS") = On("update", "SUCCESS")
  <2>1. "update" \in RuleNode /\ Kind("update") = "Sequence"
    BY RuleShape, RuleClasses DEF Inner
  <2>2. /\ DOMAIN RuleKids["update"] = 1 .. 8
        /\ RuleKids["update"][1] = "sel"
        /\ RuleKids["update"][2] = "dist"
        /\ RuleKids["update"][3] = "sight"
        /\ RuleKids["update"][4] = "axes"
        /\ RuleKids["update"][5] = "off"
        /\ RuleKids["update"][6] = "aspect"
        /\ RuleKids["update"][7] = "energy"
        /\ RuleKids["update"][8] = "predict"
    BY RuleShape
  <2> QED
    BY <2>1, <2>2, StepsBack DEF Decided
<1>3. /\ On("b1", "FAILURE") = On("b2", "enter")
      /\ On("b2", "FAILURE") = On("b3", "enter")
      /\ On("b3", "FAILURE") = On("b4", "enter")
      /\ On("b4", "FAILURE") = On("track", "enter")
      /\ On("b1", "SUCCESS") = On("select", "SUCCESS")
      /\ On("b2", "SUCCESS") = On("select", "SUCCESS")
      /\ On("b3", "SUCCESS") = On("select", "SUCCESS")
      /\ On("b4", "SUCCESS") = On("select", "SUCCESS")
      /\ On("track", "SUCCESS") = On("select", "SUCCESS")
  <2>1. "select" \in RuleNode /\ Kind("select") = "Fallback"
    BY RuleShape, RuleClasses DEF Inner
  <2>2. /\ DOMAIN RuleKids["select"] = 1 .. 5
        /\ RuleKids["select"][1] = "b1"
        /\ RuleKids["select"][2] = "b2"
        /\ RuleKids["select"][3] = "b3"
        /\ RuleKids["select"][4] = "b4"
        /\ RuleKids["select"][5] = "track"
    BY RuleShape
  <2> QED
    BY <2>1, <2>2, StepsBack DEF Decided
<1>4. /\ On("m1", "SUCCESS") = On("a1", "enter")
      /\ On("m1", "FAILURE") = On("b1", "FAILURE")
      /\ On("a1", "SUCCESS") = On("b1", "SUCCESS")
  <2>1. "b1" \in RuleNode /\ Kind("b1") = "Sequence"
    BY RuleShape, RuleClasses DEF Inner
  <2>2. /\ DOMAIN RuleKids["b1"] = 1 .. 2
        /\ RuleKids["b1"][1] = "m1"
        /\ RuleKids["b1"][2] = "a1"
    BY RuleShape
  <2> QED
    BY <2>1, <2>2, StepsBack DEF Decided
<1>5. /\ On("t11", "SUCCESS") = On("a1", "SUCCESS")
  <2>1. "a1" \in RuleNode /\ Kind("a1") = "Fallback"
    BY RuleShape, RuleClasses DEF Inner
  <2>2. /\ DOMAIN RuleKids["a1"] = 1 .. 3
        /\ RuleKids["a1"][1] = "t11"
        /\ RuleKids["a1"][2] = "t12"
        /\ RuleKids["a1"][3] = "t13"
    BY RuleShape
  <2> QED
    BY <2>1, <2>2, StepsBack DEF Decided
<1>6. /\ On("m2", "SUCCESS") = On("a2", "enter")
      /\ On("m2", "FAILURE") = On("b2", "FAILURE")
      /\ On("a2", "SUCCESS") = On("b2", "SUCCESS")
      /\ On("a2", "FAILURE") = On("b2", "FAILURE")
  <2>1. "b2" \in RuleNode /\ Kind("b2") = "Sequence"
    BY RuleShape, RuleClasses DEF Inner
  <2>2. /\ DOMAIN RuleKids["b2"] = 1 .. 2
        /\ RuleKids["b2"][1] = "m2"
        /\ RuleKids["b2"][2] = "a2"
    BY RuleShape
  <2> QED
    BY <2>1, <2>2, StepsBack DEF Decided
<1>7. /\ On("t21", "SUCCESS") = On("a2", "SUCCESS")
      /\ On("t21", "FAILURE") = On("t22", "enter")
      /\ On("t22", "SUCCESS") = On("a2", "SUCCESS")
      /\ On("t22", "FAILURE") = On("a2", "FAILURE")
  <2>1. "a2" \in RuleNode /\ Kind("a2") = "Fallback"
    BY RuleShape, RuleClasses DEF Inner
  <2>2. /\ DOMAIN RuleKids["a2"] = 1 .. 2
        /\ RuleKids["a2"][1] = "t21"
        /\ RuleKids["a2"][2] = "t22"
    BY RuleShape
  <2> QED
    BY <2>1, <2>2, StepsBack DEF Decided
<1>8. /\ On("m3", "SUCCESS") = On("a3", "enter")
      /\ On("m3", "FAILURE") = On("b3", "FAILURE")
      /\ On("a3", "SUCCESS") = On("b3", "SUCCESS")
  <2>1. "b3" \in RuleNode /\ Kind("b3") = "Sequence"
    BY RuleShape, RuleClasses DEF Inner
  <2>2. /\ DOMAIN RuleKids["b3"] = 1 .. 2
        /\ RuleKids["b3"][1] = "m3"
        /\ RuleKids["b3"][2] = "a3"
    BY RuleShape
  <2> QED
    BY <2>1, <2>2, StepsBack DEF Decided
<1>9. /\ On("t31", "SUCCESS") = On("a3", "SUCCESS")
  <2>1. "a3" \in RuleNode /\ Kind("a3") = "Fallback"
    BY RuleShape, RuleClasses DEF Inner
  <2>2. /\ DOMAIN RuleKids["a3"] = 1 .. 3
        /\ RuleKids["a3"][1] = "t31"
        /\ RuleKids["a3"][2] = "t32"
        /\ RuleKids["a3"][3] = "t33"
    BY RuleShape
  <2> QED
    BY <2>1, <2>2, StepsBack DEF Decided
<1>10. /\ On("m4", "SUCCESS") = On("a4", "enter")
      /\ On("m4", "FAILURE") = On("b4", "FAILURE")
      /\ On("a4", "SUCCESS") = On("b4", "SUCCESS")
  <2>1. "b4" \in RuleNode /\ Kind("b4") = "Sequence"
    BY RuleShape, RuleClasses DEF Inner
  <2>2. /\ DOMAIN RuleKids["b4"] = 1 .. 2
        /\ RuleKids["b4"][1] = "m4"
        /\ RuleKids["b4"][2] = "a4"
    BY RuleShape
  <2> QED
    BY <2>1, <2>2, StepsBack DEF Decided
<1>11. /\ On("deco", "FAILURE") = On("t42", "enter")
      /\ On("deco", "SUCCESS") = On("a4", "SUCCESS")
      /\ On("t42", "SUCCESS") = On("a4", "SUCCESS")
  <2>1. "a4" \in RuleNode /\ Kind("a4") = "Fallback"
    BY RuleShape, RuleClasses DEF Inner
  <2>2. /\ DOMAIN RuleKids["a4"] = 1 .. 3
        /\ RuleKids["a4"][1] = "deco"
        /\ RuleKids["a4"][2] = "t42"
        /\ RuleKids["a4"][3] = "t43"
    BY RuleShape
  <2> QED
    BY <2>1, <2>2, StepsBack DEF Decided
<1>12. /\ On("t41", "SUCCESS") = On("deco", "SUCCESS")
  <2>1. "deco" \in RuleNode /\ Kind("deco") = "DECO_CounterAttackCheck"
    BY RuleShape, RuleClasses DEF Inner
  <2>2. /\ DOMAIN RuleKids["deco"] = 1 .. 1
        /\ RuleKids["deco"][1] = "t41"
    BY RuleShape
  <2> QED
    BY <2>1, <2>2, StepsBack DEF Decided
<1>13. /\ On("t51", "SUCCESS") = On("track", "SUCCESS")
  <2>1. "track" \in RuleNode /\ Kind("track") = "Fallback"
    BY RuleShape, RuleClasses DEF Inner
  <2>2. /\ DOMAIN RuleKids["track"] = 1 .. 2
        /\ RuleKids["track"][1] = "t51"
        /\ RuleKids["track"][2] = "t52"
    BY RuleShape
  <2> QED
    BY <2>1, <2>2, StepsBack DEF Decided
<1>14. On("root", "SUCCESS") = "SUCCESS"
  BY StepsDown, RuleAssumption DEF LoadedWhole, Decided
<1> QED
  BY <1>1, <1>2, <1>3, <1>4, <1>5, <1>6, <1>7, <1>8, <1>9, <1>10, <1>11, <1>12, <1>13, <1>14

\* So the leaves are ticked in this order.
LEMMA RuleFlow ==
  ASSUME LoadedWhole
  PROVE  /\ On("root", "enter") = "sel"
         /\ On("sel", "SUCCESS") = "dist"
         /\ On("dist", "SUCCESS") = "sight"
         /\ On("sight", "SUCCESS") = "axes"
         /\ On("axes", "SUCCESS") = "off"
         /\ On("off", "SUCCESS") = "aspect"
         /\ On("aspect", "SUCCESS") = "energy"
         /\ On("energy", "SUCCESS") = "predict"
         /\ On("predict", "SUCCESS") = "m1"
         /\ On("m1", "SUCCESS") = "t11"
         /\ On("m1", "FAILURE") = "m2"
         /\ On("m2", "SUCCESS") = "t21"
         /\ On("m2", "FAILURE") = "m3"
         /\ On("m3", "SUCCESS") = "t31"
         /\ On("m3", "FAILURE") = "m4"
         /\ On("m4", "SUCCESS") = "deco"
         /\ On("m4", "FAILURE") = "t51"
         /\ On("t21", "FAILURE") = "t22"
         /\ On("t22", "FAILURE") = "m3"
         /\ On("deco", "FAILURE") = "t42"
         /\ On("t41", "enter") = "t41"
         /\ On("t11", "SUCCESS") = "SUCCESS"
         /\ On("t21", "SUCCESS") = "SUCCESS"
         /\ On("t22", "SUCCESS") = "SUCCESS"
         /\ On("t31", "SUCCESS") = "SUCCESS"
         /\ On("t41", "SUCCESS") = "SUCCESS"
         /\ On("t42", "SUCCESS") = "SUCCESS"
         /\ On("t51", "SUCCESS") = "SUCCESS"
<1>1. /\ On("root", "enter") = "sel"
      /\ On("sel", "SUCCESS") = "dist"
      /\ On("dist", "SUCCESS") = "sight"
      /\ On("sight", "SUCCESS") = "axes"
      /\ On("axes", "SUCCESS") = "off"
      /\ On("off", "SUCCESS") = "aspect"
      /\ On("aspect", "SUCCESS") = "energy"
      /\ On("energy", "SUCCESS") = "predict"
      /\ On("predict", "SUCCESS") = "m1"
  BY WaysDown, WaysBack DEF Outer
<1>2. /\ On("m1", "SUCCESS") = "t11"
      /\ On("m1", "FAILURE") = "m2"
      /\ On("m2", "SUCCESS") = "t21"
      /\ On("m2", "FAILURE") = "m3"
      /\ On("m3", "SUCCESS") = "t31"
      /\ On("m3", "FAILURE") = "m4"
      /\ On("m4", "SUCCESS") = "deco"
      /\ On("m4", "FAILURE") = "t51"
  BY WaysDown, WaysBack DEF Outer
<1>3. /\ On("t21", "FAILURE") = "t22"
      /\ On("t22", "FAILURE") = "m3"
      /\ On("deco", "FAILURE") = "t42"
      /\ On("t41", "enter") = "t41"
  BY WaysDown, WaysBack DEF Outer
<1>4. /\ On("t11", "SUCCESS") = "SUCCESS"
      /\ On("t21", "SUCCESS") = "SUCCESS"
      /\ On("t22", "SUCCESS") = "SUCCESS"
      /\ On("t31", "SUCCESS") = "SUCCESS"
      /\ On("t41", "SUCCESS") = "SUCCESS"
      /\ On("t42", "SUCCESS") = "SUCCESS"
      /\ On("t51", "SUCCESS") = "SUCCESS"
  BY WaysDown, WaysBack DEF Outer
<1> QED
  BY <1>1, <1>2, <1>3, <1>4

-----------------------------------------------------------------------------
(* What the leaves of Rule.xml do to the blackboard.                       *)
Members == {"me", "tgt", "myAxes", "tgtAxes", "distance", "los", "losT", "ao", "aa", "sight",
            "energy", "bfm", "counter", "turn", "vp", "throttle", "friendly", "enemy", "dt",
            "headings", "lead"}
IsBB(b) == b = [m \in Members |-> b[m]]

\* c differs from b in the members W at most.
Keeps(b, c, W) == IsBB(c) /\ \A m \in Members \ W : c[m] = b[m]

\* The quantities of PictureFresh, one per service, and the target.
Selected(b) == b.enemy # <<>> => b.tgt = Pose(b.enemy[1])
Ranged(b)   == b.distance = DistanceOf[<<b.me.loc, b.tgt.loc>>]
Sighted(b)  == /\ b.los = LosFrom(b.me, b.tgt) /\ b.losT = LosFrom(b.tgt, b.me)
               /\ b.sight = Leq(b.los, InSight)
Oriented(b) == b.myAxes = b.me.rot /\ b.tgtAxes = b.tgt.rot
Angled(b)   == b.ao = AngleOff(b.me.rot, b.tgt.rot)
Aspected(b) == b.aa = Aspect(b)
Weighed(b)  == b.energy = Compare(Energy(b.me), Energy(b.tgt))

\* The first k services have been ticked.
Seen(b, k) ==
  /\ k >= 1 => Selected(b)
  /\ k >= 2 => Ranged(b)
  /\ k >= 3 => Sighted(b)
  /\ k >= 4 => Oriented(b)
  /\ k >= 5 => Angled(b)
  /\ k >= 6 => Aspected(b)
  /\ k >= 7 => Weighed(b)
Informed(b) == Seen(b, 7)

\* Each service computes its quantity, and spoils none that is there already.
LEMMA ServiceTicks ==
  ASSUME NEW b, IsBB(b), NEW port
  PROVE  /\ \A o \in TickOf("SelectTarget", port, b) :
              /\ o.s = "SUCCESS" /\ Keeps(b, o.b, {"tgt"})
              /\ Seen(b, 0) => Seen(o.b, 1)
         /\ \A o \in TickOf("DistanceUpdate", port, b) :
              /\ o.s = "SUCCESS" /\ Keeps(b, o.b, {"distance"})
              /\ Seen(b, 1) => Seen(o.b, 2)
         /\ \A o \in TickOf("CheckSight", port, b) :
              /\ o.s = "SUCCESS" /\ Keeps(b, o.b, {"los", "losT", "sight"})
              /\ Seen(b, 2) => Seen(o.b, 3)
         /\ \A o \in TickOf("DirectionVectorUpdate", port, b) :
              /\ o.s = "SUCCESS" /\ Keeps(b, o.b, {"myAxes", "tgtAxes"})
              /\ Seen(b, 3) => Seen(o.b, 4)
         /\ \A o \in TickOf("AngleOffUpdate", port, b) :
              /\ o.s = "SUCCESS" /\ Keeps(b, o.b, {"ao"})
              /\ Seen(b, 4) => Seen(o.b, 5)
         /\ \A o \in TickOf("AspectAngleUpdate", port, b) :
              /\ o.s = "SUCCESS" /\ Keeps(b, o.b, {"aa"})
              /\ Seen(b, 5) => Seen(o.b, 6)
         /\ \A o \in TickOf("EnergyCompare", port, b) :
              /\ o.s = "SUCCESS" /\ Keeps(b, o.b, {"energy"})
              /\ Seen(b, 6) => Seen(o.b, 7)
         /\ \A o \in TickOf("PredictManeuver", port, b) :
              /\ o.s = "SUCCESS" /\ Keeps(b, o.b, {"headings", "turn"})
              /\ Informed(b) => Informed(o.b)
<1>1. ASSUME NEW o \in TickOf("SelectTarget", port, b)
     PROVE  /\ o.s = "SUCCESS" /\ Keeps(b, o.b, {"tgt"})
            /\ Seen(b, 0) => Seen(o.b, 1)
  <2>1. o \in SelectTarget(b)
    BY DEF TickOf
  <2>2. o.s = "SUCCESS" /\ o.b = IF b.enemy = <<>> THEN b ELSE [b EXCEPT !.tgt = Pose(b.enemy[1])]
    BY <2>1 DEF SelectTarget, Succeed, Outcome
  <2>3. Keeps(b, o.b, {"tgt"})
    BY <2>2 DEF Keeps, IsBB, Members
  <2>4. Seen(b, 0) => Seen(o.b, 1)
    BY <2>2, <2>3
    DEF Seen, Informed, Keeps, Members, IsBB, Selected, Ranged, Sighted, Oriented, Angled,
        Aspected, Weighed, Aspect
  <2> QED
    BY <2>2, <2>3, <2>4
<1>2. ASSUME NEW o \in TickOf("DistanceUpdate", port, b)
     PROVE  /\ o.s = "SUCCESS" /\ Keeps(b, o.b, {"distance"})
            /\ Seen(b, 1) => Seen(o.b, 2)
  <2>1. o \in DistanceUpdate(b)
    BY DEF TickOf
  <2>2. o.s = "SUCCESS" /\ o.b = [b EXCEPT !.distance = DistanceOf[<<b.me.loc, b.tgt.loc>>]]
    BY <2>1 DEF DistanceUpdate, Succeed, Outcome
  <2>3. Keeps(b, o.b, {"distance"})
    BY <2>2 DEF Keeps, IsBB, Members
  <2>4. Seen(b, 1) => Seen(o.b, 2)
    BY <2>2, <2>3
    DEF Seen, Informed, Keeps, Members, IsBB, Selected, Ranged, Sighted, Oriented, Angled,
        Aspected, Weighed, Aspect
  <2> QED
    BY <2>2, <2>3, <2>4
<1>3. ASSUME NEW o \in TickOf("CheckSight", port, b)
     PROVE  /\ o.s = "SUCCESS" /\ Keeps(b, o.b, {"los", "losT", "sight"})
            /\ Seen(b, 2) => Seen(o.b, 3)
  <2>1. o \in CheckSight(b)
    BY DEF TickOf
  <2>2. o.s = "SUCCESS" /\ o.b = [b EXCEPT !.los = LosFrom(b.me, b.tgt), !.losT = LosFrom(b.tgt, b.me),
                    !.sight = Leq(LosFrom(b.me, b.tgt), InSight)]
    BY <2>1 DEF CheckSight, Succeed, Outcome
  <2>3. Keeps(b, o.b, {"los", "losT", "sight"})
    BY <2>2 DEF Keeps, IsBB, Members
  <2>4. /\ o.b.los = LosFrom(b.me, b.tgt) /\ o.b.losT = LosFrom(b.tgt, b.me)
        /\ o.b.sight = Leq(LosFrom(b.me, b.tgt), InSight)
    BY <2>2 DEF IsBB, Members
  <2>5. /\ o.b.me = b.me /\ o.b.tgt = b.tgt /\ o.b.enemy = b.enemy
        /\ o.b.distance = b.distance
    BY <2>3 DEF Keeps, Members
  <2>6. Seen(b, 2) => Seen(o.b, 3)
    BY <2>4, <2>5 DEF Seen, Selected, Ranged, Sighted
  <2> QED
    BY <2>2, <2>3, <2>6
<1>4. ASSUME NEW o \in TickOf("DirectionVectorUpdate", port, b)
     PROVE  /\ o.s = "SUCCESS" /\ Keeps(b, o.b, {"myAxes", "tgtAxes"})
            /\ Seen(b, 3) => Seen(o.b, 4)
  <2>1. o \in DirectionVectorUpdate(b)
    BY DEF TickOf
  <2>2. o.s = "SUCCESS" /\ o.b = [b EXCEPT !.myAxes = b.me.rot, !.tgtAxes = b.tgt.rot]
    BY <2>1 DEF DirectionVectorUpdate, Succeed, Outcome
  <2>3. Keeps(b, o.b, {"myAxes", "tgtAxes"})
    BY <2>2 DEF Keeps, IsBB, Members
  <2>4. o.b.myAxes = b.me.rot /\ o.b.tgtAxes = b.tgt.rot
    BY <2>2 DEF IsBB, Members
  <2>5. /\ o.b.me = b.me /\ o.b.tgt = b.tgt /\ o.b.enemy = b.enemy
        /\ o.b.distance = b.distance
        /\ o.b.los = b.los /\ o.b.losT = b.losT /\ o.b.sight = b.sight
    BY <2>3 DEF Keeps, Members
  <2>6. Seen(b, 3) => Seen(o.b, 4)
    BY <2>4, <2>5 DEF Seen, Selected, Ranged, Sighted, Oriented
  <2> QED
    BY <2>2, <2>3, <2>6
<1>5. ASSUME NEW o \in TickOf("AngleOffUpdate", port, b)
     PROVE  /\ o.s = "SUCCESS" /\ Keeps(b, o.b, {"ao"})
            /\ Seen(b, 4) => Seen(o.b, 5)
  <2>1. o \in AngleOffUpdate(b)
    BY DEF TickOf
  <2>2. o.s = "SUCCESS" /\ o.b = [b EXCEPT !.ao = AngleOff(b.myAxes, b.tgtAxes)]
    BY <2>1 DEF AngleOffUpdate, Succeed, Outcome
  <2>3. Keeps(b, o.b, {"ao"})
    BY <2>2 DEF Keeps, IsBB, Members
  <2>4. Seen(b, 4) => Seen(o.b, 5)
    BY <2>2, <2>3
    DEF Seen, Informed, Keeps, Members, IsBB, Selected, Ranged, Sighted, Oriented, Angled,
        Aspected, Weighed, Aspect
  <2> QED
    BY <2>2, <2>3, <2>4
<1>6. ASSUME NEW o \in TickOf("AspectAngleUpdate", port, b)
     PROVE  /\ o.s = "SUCCESS" /\ Keeps(b, o.b, {"aa"})
            /\ Seen(b, 5) => Seen(o.b, 6)
  <2>1. o \in AspectAngleUpdate(b)
    BY DEF TickOf
  <2>2. o.s = "SUCCESS" /\ o.b = [b EXCEPT !.aa = Aspect(b)]
    BY <2>1 DEF AspectAngleUpdate, Succeed, Outcome
  <2>3. Keeps(b, o.b, {"aa"})
    BY <2>2 DEF Keeps, IsBB, Members
  <2>4. Seen(b, 5) => Seen(o.b, 6)
    BY <2>2, <2>3
    DEF Seen, Informed, Keeps, Members, IsBB, Selected, Ranged, Sighted, Oriented, Angled,
        Aspected, Weighed, Aspect
  <2> QED
    BY <2>2, <2>3, <2>4
<1>7. ASSUME NEW o \in TickOf("EnergyCompare", port, b)
     PROVE  /\ o.s = "SUCCESS" /\ Keeps(b, o.b, {"energy"})
            /\ Seen(b, 6) => Seen(o.b, 7)
  <2>1. o \in EnergyCompare(b)
    BY DEF TickOf
  <2>2. o.s = "SUCCESS" /\ o.b = [b EXCEPT !.energy = Compare(Energy(b.me), Energy(b.tgt))]
    BY <2>1 DEF EnergyCompare, Succeed, Outcome
  <2>3. Keeps(b, o.b, {"energy"})
    BY <2>2 DEF Keeps, IsBB, Members
  <2>4. Seen(b, 6) => Seen(o.b, 7)
    BY <2>2, <2>3
    DEF Seen, Informed, Keeps, Members, IsBB, Selected, Ranged, Sighted, Oriented, Angled,
        Aspected, Weighed, Aspect
  <2> QED
    BY <2>2, <2>3, <2>4
<1>8. ASSUME NEW o \in TickOf("PredictManeuver", port, b)
     PROVE  /\ o.s = "SUCCESS" /\ Keeps(b, o.b, {"headings", "turn"})
            /\ Informed(b) => Informed(o.b)
  <2>1. o \in PredictManeuver(b)
    BY DEF TickOf
  <2> DEFINE h == PushHeading(b.headings, YawOf[b.tgt.rot])
             t == IF Len(h) < HistorySize THEN b.turn ELSE TurnOf(h)
  <2>2. o.s = "SUCCESS" /\ o.b = [b EXCEPT !.headings = h, !.turn = t]
    BY <2>1 DEF PredictManeuver, Succeed, Outcome, IsBB, Members
  <2> HIDE DEF h, t
  <2>3. Keeps(b, o.b, {"headings", "turn"})
    BY <2>2 DEF Keeps, IsBB, Members
  <2>4. Informed(b) => Informed(o.b)
    BY <2>2, <2>3
    DEF Seen, Informed, Keeps, Members, IsBB, Selected, Ranged, Sighted, Oriented, Angled,
        Aspected, Weighed, Aspect
  <2> QED
    BY <2>2, <2>3, <2>4
<1> QED
  BY <1>1, <1>2, <1>3, <1>4, <1>5, <1>6, <1>7, <1>8

\* What the modes and the tasks write.
Orders == {"bfm", "counter", "vp"}

\* Orders change neither the picture nor a window.
LEMMA OrdersKeep ==
  ASSUME NEW b, NEW c, Keeps(b, c, Orders)
  PROVE  /\ Informed(b) => Informed(c)
         /\ ScissorsWindow(c) <=> ScissorsWindow(b)
         /\ HeadOnWindow(c) <=> HeadOnWindow(b)
         /\ OffenceWindow(c) <=> OffenceWindow(b)
         /\ DefenceWindow(c) <=> DefenceWindow(b)
         /\ CounterWindow(c) = CounterWindow(b)
<1>1. /\ c.me = b.me /\ c.tgt = b.tgt /\ c.enemy = b.enemy /\ c.distance = b.distance
      /\ c.los = b.los /\ c.losT = b.losT /\ c.sight = b.sight /\ c.myAxes = b.myAxes
      /\ c.tgtAxes = b.tgtAxes /\ c.ao = b.ao /\ c.aa = b.aa /\ c.energy = b.energy
  BY DEF Keeps, Members, Orders
<1>2. Informed(b) => Informed(c)
  BY <1>1 DEF Seen, Informed, Selected, Ranged, Sighted, Oriented, Angled, Aspected,
              Weighed, Aspect
<1>3. /\ ScissorsWindow(c) <=> ScissorsWindow(b)
      /\ HeadOnWindow(c) <=> HeadOnWindow(b)
      /\ OffenceWindow(c) <=> OffenceWindow(b)
      /\ DefenceWindow(c) <=> DefenceWindow(b)
      /\ CounterWindow(c) = CounterWindow(b)
  BY <1>1 DEF ScissorsWindow, HeadOnWindow, OffenceWindow, DefenceWindow, CounterWindow
<1> QED
  BY <1>2, <1>3

\* A mode fails and changes nothing, or sets the mode inside its window.
LEMMA ModeTicks ==
  ASSUME NEW b, IsBB(b), NEW port
  PROVE  /\ \A o \in TickOf("SetBFMMode_SCISSORS", port, b) :
              \/ o.s = "FAILURE" /\ o.b = b
              \/ /\ o.s = "SUCCESS" /\ Keeps(b, o.b, Orders)
                 /\ o.b.bfm = "SCISSORS" /\ ScissorsWindow(b)
         /\ \A o \in TickOf("SetBFMMode_HABFM", port, b) :
              \/ o.s = "FAILURE" /\ o.b = b
              \/ /\ o.s = "SUCCESS" /\ Keeps(b, o.b, Orders)
                 /\ o.b.bfm = "HABFM" /\ HeadOnWindow(b)
         /\ \A o \in TickOf("SetBFMMode_OBFM", port, b) :
              \/ o.s = "FAILURE" /\ o.b = b
              \/ /\ o.s = "SUCCESS" /\ Keeps(b, o.b, Orders)
                 /\ o.b.bfm = "OBFM" /\ OffenceWindow(b)
         /\ \A o \in TickOf("SetBFMMode_DBFM", port, b) :
              \/ o.s = "FAILURE" /\ o.b = b
              \/ /\ o.s = "SUCCESS" /\ Keeps(b, o.b, Orders)
                 /\ o.b.bfm = "DBFM" /\ DefenceWindow(b)
                 /\ o.b.counter = CounterWindow(b)
<1>1. ASSUME NEW o \in TickOf("SetBFMMode_SCISSORS", port, b)
     PROVE  \/ o.s = "FAILURE" /\ o.b = b
            \/ /\ o.s = "SUCCESS" /\ Keeps(b, o.b, Orders)
               /\ o.b.bfm = "SCISSORS" /\ ScissorsWindow(b)
  <2>1. o \in SetBFMMode_SCISSORS(b)
    BY DEF TickOf
  <2>2. CASE ~ ScissorsWindow(b)
    BY <2>1, <2>2 DEF SetBFMMode_SCISSORS, Enter, Fail, Outcome
  <2>3. CASE ScissorsWindow(b)
    <3>1. o.s = "SUCCESS" /\ o.b = [b EXCEPT !.bfm = "SCISSORS"]
      BY <2>1, <2>3 DEF SetBFMMode_SCISSORS, Enter, Succeed, Outcome
    <3>2. Keeps(b, o.b, Orders)
      BY <3>1 DEF Keeps, IsBB, Members, Orders
    <3> QED
      BY <2>3, <3>1, <3>2 DEF IsBB, Members
  <2> QED
    BY <2>2, <2>3
<1>2. ASSUME NEW o \in TickOf("SetBFMMode_HABFM", port, b)
     PROVE  \/ o.s = "FAILURE" /\ o.b = b
            \/ /\ o.s = "SUCCESS" /\ Keeps(b, o.b, Orders)
               /\ o.b.bfm = "HABFM" /\ HeadOnWindow(b)
  <2>1. o \in SetBFMMode_HABFM(b)
    BY DEF TickOf
  <2>2. CASE ~ HeadOnWindow(b)
    BY <2>1, <2>2 DEF SetBFMMode_HABFM, Enter, Fail, Outcome
  <2>3. CASE HeadOnWindow(b)
    <3>1. o.s = "SUCCESS" /\ o.b = [b EXCEPT !.bfm = "HABFM"]
      BY <2>1, <2>3 DEF SetBFMMode_HABFM, Enter, Succeed, Outcome
    <3>2. Keeps(b, o.b, Orders)
      BY <3>1 DEF Keeps, IsBB, Members, Orders
    <3> QED
      BY <2>3, <3>1, <3>2 DEF IsBB, Members
  <2> QED
    BY <2>2, <2>3
<1>3. ASSUME NEW o \in TickOf("SetBFMMode_OBFM", port, b)
     PROVE  \/ o.s = "FAILURE" /\ o.b = b
            \/ /\ o.s = "SUCCESS" /\ Keeps(b, o.b, Orders)
               /\ o.b.bfm = "OBFM" /\ OffenceWindow(b)
  <2>1. o \in SetBFMMode_OBFM(b)
    BY DEF TickOf
  <2>2. CASE ~ OffenceWindow(b)
    BY <2>1, <2>2 DEF SetBFMMode_OBFM, Enter, Fail, Outcome
  <2>3. CASE OffenceWindow(b)
    <3>1. o.s = "SUCCESS" /\ o.b = [b EXCEPT !.bfm = "OBFM"]
      BY <2>1, <2>3 DEF SetBFMMode_OBFM, Enter, Succeed, Outcome
    <3>2. Keeps(b, o.b, Orders)
      BY <3>1 DEF Keeps, IsBB, Members, Orders
    <3> QED
      BY <2>3, <3>1, <3>2 DEF IsBB, Members
  <2> QED
    BY <2>2, <2>3
<1>4. ASSUME NEW o \in TickOf("SetBFMMode_DBFM", port, b)
     PROVE  \/ o.s = "FAILURE" /\ o.b = b
            \/ /\ o.s = "SUCCESS" /\ Keeps(b, o.b, Orders)
               /\ o.b.bfm = "DBFM" /\ DefenceWindow(b)
               /\ o.b.counter = CounterWindow(b)
  <2>1. o \in SetBFMMode_DBFM(b)
    BY DEF TickOf
  <2>2. CASE ~ DefenceWindow(b)
    BY <2>1, <2>2 DEF SetBFMMode_DBFM, Enter, Fail, Outcome
  <2>3. CASE DefenceWindow(b)
    <3>1. o.s = "SUCCESS" /\ o.b = [b EXCEPT !.bfm = "DBFM", !.counter = CounterWindow(b)]
      BY <2>1, <2>3 DEF SetBFMMode_DBFM, Enter, Succeed, Outcome
    <3>2. Keeps(b, o.b, Orders)
      BY <3>1 DEF Keeps, IsBB, Members, Orders
    <3> QED
      BY <2>3, <3>1, <3>2 DEF IsBB, Members
  <2> QED
    BY <2>2, <2>3
<1> QED
  BY <1>1, <1>2, <1>3, <1>4

\* The waypoint task has set: from the own position or the target's, along
\* the axes of one of the two.
Steered(b, c, task) ==
  /\ Keeps(b, c, Orders) /\ c.bfm = b.bfm /\ c.counter = b.counter
  /\ c.vp.task = task /\ c.vp.way # "ground"
  /\ c.vp.anchor \in {b.me.loc, b.tgt.loc}
  /\ c.vp.along \in {b.myAxes, b.tgtAxes, NoAxes}

\* Steer() writes it.
LEMMA SteerWrites ==
  ASSUME NEW b, IsBB(b), NEW task, NEW x \in {b.me, b.tgt},
         NEW along \in {b.myAxes, b.tgtAxes, NoAxes}, NEW way, way # "ground"
  PROVE  Steered(b, Steer(b, task, x, along, way), task)
<1> DEFINE c == Steer(b, task, x, along, way)
<1>1. c = [b EXCEPT !.vp = [task |-> task, anchor |-> x.loc, along |-> along, way |-> way]]
  BY DEF Steer
<1> HIDE DEF c
<1>2. Keeps(b, c, Orders) /\ c.bfm = b.bfm /\ c.counter = b.counter
  BY <1>1 DEF Keeps, IsBB, Members, Orders
<1>3. c.vp = [task |-> task, anchor |-> x.loc, along |-> along, way |-> way]
  BY <1>1 DEF IsBB, Members
<1> QED
  BY <1>2, <1>3 DEF Steered, c

\* The tasks of Rule.xml that are ever ticked.
LEMMA TaskTicks ==
  ASSUME NEW b, IsBB(b), NEW port
  PROVE  /\ \A o \in TickOf("Task_ScissorBreakTurn", port, b) :
              o.s = "SUCCESS" /\ Steered(b, o.b, "Task_ScissorBreakTurn")
         /\ \A o \in TickOf("Task_OneCircleAttack", port, b) :
              \/ o.s = "FAILURE" /\ o.b = b
              \/ o.s = "SUCCESS" /\ Steered(b, o.b, "Task_OneCircleAttack")
         /\ \A o \in TickOf("Task_TwoCircleAttack", port, b) :
              \/ o.s = "FAILURE" /\ o.b = b
              \/ o.s = "SUCCESS" /\ Steered(b, o.b, "Task_TwoCircleAttack")
         /\ \A o \in TickOf("Task_AntiOvershoot", port, b) :
              o.s = "SUCCESS" /\ Steered(b, o.b, "Task_AntiOvershoot")
         /\ \A o \in TickOf("Task_RollReverseAttack", port, b) :
              o.s = "SUCCESS" /\ Steered(b, o.b, "Task_RollReverseAttack")
         /\ \A o \in TickOf("Task_EvasiveRollOrScissors", port, b) :
              o.s = "SUCCESS" /\ Steered(b, o.b, "Task_EvasiveRollOrScissors")
         /\ \A o \in TickOf("Task_FollowTarget", port, b) :
              o.s = "SUCCESS" /\ Steered(b, o.b, "Task_FollowTarget")
<1>1. ASSUME NEW o \in TickOf("Task_ScissorBreakTurn", port, b)
     PROVE  o.s = "SUCCESS" /\ Steered(b, o.b, "Task_ScissorBreakTurn")
  <2>1. o \in Task_ScissorBreakTurn(b)
    BY DEF TickOf
  <2>2. PICK x \in {b.me, b.tgt}, along \in {b.myAxes, b.tgtAxes, NoAxes},
             way \in {"right", "left", "up", "behind", "on", "ahead", "lag", "pure"} :
               o = Outcome("SUCCESS", Steer(b, "Task_ScissorBreakTurn", x, along, way))
    BY <2>1 DEF Task_ScissorBreakTurn, ByMe, ByTarget, Sideways
  <2> QED
    BY <2>2, SteerWrites DEF Outcome
<1>2. ASSUME NEW o \in TickOf("Task_OneCircleAttack", port, b)
     PROVE  \/ o.s = "FAILURE" /\ o.b = b
            \/ o.s = "SUCCESS" /\ Steered(b, o.b, "Task_OneCircleAttack")
  <2>1. o \in Task_OneCircleAttack(b)
    BY DEF TickOf
  <2>2. \/ o.s = "FAILURE" /\ o.b = b
        \/ o = Outcome("SUCCESS", Steer(b, "Task_OneCircleAttack", b.tgt, b.tgtAxes, "left"))
    BY <2>1 DEF Task_OneCircleAttack, Fail, Outcome, ByTarget
  <2>3. Steered(b, Steer(b, "Task_OneCircleAttack", b.tgt, b.tgtAxes, "left"),
                "Task_OneCircleAttack")
    BY SteerWrites
  <2> QED
    BY <2>2, <2>3 DEF Outcome
<1>3. ASSUME NEW o \in TickOf("Task_TwoCircleAttack", port, b)
     PROVE  \/ o.s = "FAILURE" /\ o.b = b
            \/ o.s = "SUCCESS" /\ Steered(b, o.b, "Task_TwoCircleAttack")
  <2>1. o \in Task_TwoCircleAttack(b)
    BY DEF TickOf
  <2>2. \/ o.s = "FAILURE" /\ o.b = b
        \/ o = Outcome("SUCCESS", Steer(b, "Task_TwoCircleAttack", b.tgt, b.tgtAxes, "right"))
    BY <2>1 DEF Task_TwoCircleAttack, Fail, Outcome, ByTarget
  <2>3. Steered(b, Steer(b, "Task_TwoCircleAttack", b.tgt, b.tgtAxes, "right"),
                "Task_TwoCircleAttack")
    BY SteerWrites
  <2> QED
    BY <2>2, <2>3 DEF Outcome
<1>4. ASSUME NEW o \in TickOf("Task_AntiOvershoot", port, b)
     PROVE  o.s = "SUCCESS" /\ Steered(b, o.b, "Task_AntiOvershoot")
  <2>1. o \in Task_AntiOvershoot(b)
    BY DEF TickOf
  <2>2. PICK x \in {b.me, b.tgt}, along \in {b.myAxes, b.tgtAxes, NoAxes},
             way \in {"right", "left", "up", "behind", "on", "ahead", "lag", "pure"} :
               o = Outcome("SUCCESS", Steer(b, "Task_AntiOvershoot", x, along, way))
    BY <2>1 DEF Task_AntiOvershoot, ByMe, ByTarget, Sideways
  <2> QED
    BY <2>2, SteerWrites DEF Outcome
<1>5. ASSUME NEW o \in TickOf("Task_RollReverseAttack", port, b)
     PROVE  o.s = "SUCCESS" /\ Steered(b, o.b, "Task_RollReverseAttack")
  <2>1. o \in Task_RollReverseAttack(b)
    BY DEF TickOf
  <2>2. PICK x \in {b.me, b.tgt}, along \in {b.myAxes, b.tgtAxes, NoAxes},
             way \in {"right", "left", "up", "behind", "on", "ahead", "lag", "pure"} :
               o = Outcome("SUCCESS", Steer(b, "Task_RollReverseAttack", x, along, way))
    BY <2>1 DEF Task_RollReverseAttack, ByMe, ByTarget, Sideways
  <2> QED
    BY <2>2, SteerWrites DEF Outcome
<1>6. ASSUME NEW o \in TickOf("Task_EvasiveRollOrScissors", port, b)
     PROVE  o.s = "SUCCESS" /\ Steered(b, o.b, "Task_EvasiveRollOrScissors")
  <2>1. o \in Task_EvasiveRollOrScissors(b)
    BY DEF TickOf
  <2>2. PICK x \in {b.me, b.tgt}, along \in {b.myAxes, b.tgtAxes, NoAxes},
             way \in {"right", "left", "up", "behind", "on", "ahead", "lag", "pure"} :
               o = Outcome("SUCCESS", Steer(b, "Task_EvasiveRollOrScissors", x, along, way))
    BY <2>1 DEF Task_EvasiveRollOrScissors, ByMe, ByTarget, Sideways
  <2> QED
    BY <2>2, SteerWrites DEF Outcome
<1>7. ASSUME NEW o \in TickOf("Task_FollowTarget", port, b)
     PROVE  o.s = "SUCCESS" /\ Steered(b, o.b, "Task_FollowTarget")
  <2>1. o \in Task_FollowTarget(b)
    BY DEF TickOf
  <2>2. PICK x \in {b.me, b.tgt}, along \in {b.myAxes, b.tgtAxes, NoAxes},
             way \in {"right", "left", "up", "behind", "on", "ahead", "lag", "pure"} :
               o = Outcome("SUCCESS", Steer(b, "Task_FollowTarget", x, along, way))
    BY <2>1 DEF Task_FollowTarget, ByMe, ByTarget, Sideways
  <2> QED
    BY <2>2, SteerWrites DEF Outcome
<1> QED
  BY <1>1, <1>2, <1>3, <1>4, <1>5, <1>6, <1>7

-----------------------------------------------------------------------------
(* One tick through Rule.xml: what is known when a leaf is reached.        *)
Updates == {"sel", "dist", "sight", "axes", "off", "aspect", "energy", "predict"}
Reached == Updates \cup {"m1", "t11", "m2", "t21", "t22", "m3", "t31", "m4", "deco", "t41",
                        "t42", "t51"}

Stage(n, b) ==
  /\ n \in Reached
  /\ n = "dist" => Seen(b, 1)
  /\ n = "sight" => Seen(b, 2)
  /\ n = "axes" => Seen(b, 3)
  /\ n = "off" => Seen(b, 4)
  /\ n = "aspect" => Seen(b, 5)
  /\ n = "energy" => Seen(b, 6)
  /\ n = "predict" \/ n \notin Updates => Informed(b)
  /\ n = "t11" => b.bfm = "SCISSORS" /\ ScissorsWindow(b)
  /\ n \in {"t21", "t22"} => b.bfm = "HABFM" /\ HeadOnWindow(b)
  /\ n = "t31" => b.bfm = "OBFM" /\ OffenceWindow(b)
  /\ n \in {"deco", "t41", "t42"} =>
       b.bfm = "DBFM" /\ DefenceWindow(b) /\ b.counter = CounterWindow(b)
  /\ n = "t41" => b.counter

\* The tick has ended with the waypoint of the one task that has acted.
Decision(b, done) ==
  /\ Informed(b)
  /\ \E task \in Tasks :
       /\ done = {task} /\ b.vp.task = task /\ b.vp.way # "ground"
       /\ b.vp.anchor \in {b.me.loc, b.tgt.loc}
       /\ b.vp.along \in {b.myAxes, b.tgtAxes, NoAxes}
       /\ Belongs(task, b)
       /\ task = "Task_RollReverseAttack" => CounterWindow(b)

Acted(n, s)   == IF s = "SUCCESS" THEN {Kind(n)} \cap Tasks ELSE {}
Leads(n, s, c) ==
  IF On(n, s) = "SUCCESS" THEN Decision(c, Acted(n, s))
  ELSE Acted(n, s) = {} /\ Stage(On(n, s), c)

\* Leaves do not write what Step() has put on the blackboard.
Inputs == {"me", "friendly", "enemy"}

TicksOf(n, b) == IF Kind(n) = Guard THEN Fail(b) ELSE TickOf(Kind(n), Ports[n], b)

\* A task that is ticked inside its window decides the tick.
LEMMA TaskDecides ==
  ASSUME NEW n, NEW b, NEW c, Steered(b, c, Kind(n)), On(n, "SUCCESS") = "SUCCESS",
         Informed(b), Kind(n) \in Tasks, Belongs(Kind(n), b),
         Kind(n) = "Task_RollReverseAttack" => CounterWindow(b)
  PROVE  Leads(n, "SUCCESS", c) /\ Keeps(b, c, Members \ Inputs)
<1>1. Keeps(b, c, Orders) /\ c.bfm = b.bfm
  BY DEF Steered
<1>2. /\ c.me = b.me /\ c.tgt = b.tgt /\ c.myAxes = b.myAxes /\ c.tgtAxes = b.tgtAxes
  BY <1>1 DEF Keeps, Members, Orders
<1>3. Informed(c)
  BY <1>1, OrdersKeep
<1>4. Belongs(Kind(n), c)
  BY <1>1, OrdersKeep DEF Belongs
<1>5. Kind(n) = "Task_RollReverseAttack" => CounterWindow(c)
  BY <1>1, OrdersKeep
<1>6. Acted(n, "SUCCESS") = {Kind(n)}
  BY DEF Acted
<1>7. Decision(c, {Kind(n)})
  BY <1>2, <1>3, <1>4, <1>5 DEF Decision, Steered
<1>8. Keeps(b, c, Members \ Inputs)
  BY <1>1 DEF Keeps, Members, Inputs, Orders
<1> QED
  BY <1>6, <1>7, <1>8 DEF Leads

\* No leaf of Rule.xml returns RUNNING, and each leads to where it is known
\* what the next leaf needs.
LEMMA LeafLeads ==
  ASSUME LoadedWhole, NEW n, NEW b, IsBB(b), Stage(n, b), NEW o \in TicksOf(n, b),
         n # "deco" \/ ~ b.counter
  PROVE  /\ o.s \in Decided /\ Keeps(b, o.b, Members \ Inputs)
         /\ Leads(n, o.s, o.b)
<1>1. CASE n = "sel"
  <2>1. Kind("sel") = "SelectTarget" /\ On("sel", "SUCCESS") = "dist"
    BY RuleClasses, RuleFlow
  <2>2. o \in TickOf("SelectTarget", Ports[n], b)
    BY <1>1, <2>1 DEF TicksOf, Guard
  <2>3. o.s = "SUCCESS" /\ Keeps(b, o.b, {"tgt"}) /\ Seen(o.b, 1)
    BY <1>1, <2>2, ServiceTicks DEF Stage, Seen, Informed, Updates
  <2>4. Keeps(b, o.b, Members \ Inputs)
    BY <2>3 DEF Keeps, Members, Inputs
  <2>5. Acted(n, "SUCCESS") = {}
    BY <1>1, <2>1 DEF Acted, Tasks
  <2>6. Stage("dist", o.b)
    BY <2>3 DEF Stage, Reached, Updates
  <2> QED
    BY <1>1, <2>1, <2>3, <2>4, <2>5, <2>6 DEF Leads, Decided
<1>2. CASE n = "dist"
  <2>1. Kind("dist") = "DistanceUpdate" /\ On("dist", "SUCCESS") = "sight"
    BY RuleClasses, RuleFlow
  <2>2. o \in TickOf("DistanceUpdate", Ports[n], b)
    BY <1>2, <2>1 DEF TicksOf, Guard
  <2>3. o.s = "SUCCESS" /\ Keeps(b, o.b, {"distance"}) /\ Seen(o.b, 2)
    BY <1>2, <2>2, ServiceTicks DEF Stage, Seen, Informed, Updates
  <2>4. Keeps(b, o.b, Members \ Inputs)
    BY <2>3 DEF Keeps, Members, Inputs
  <2>5. Acted(n, "SUCCESS") = {}
    BY <1>2, <2>1 DEF Acted, Tasks
  <2>6. Stage("sight", o.b)
    BY <2>3 DEF Stage, Reached, Updates
  <2> QED
    BY <1>2, <2>1, <2>3, <2>4, <2>5, <2>6 DEF Leads, Decided
<1>3. CASE n = "sight"
  <2>1. Kind("sight") = "CheckSight" /\ On("sight", "SUCCESS") = "axes"
    BY RuleClasses, RuleFlow
  <2>2. o \in TickOf("CheckSight", Ports[n], b)
    BY <1>3, <2>1 DEF TicksOf, Guard
  <2>3. o.s = "SUCCESS" /\ Keeps(b, o.b, {"los", "losT", "sight"}) /\ Seen(o.b, 3)
    BY <1>3, <2>2, ServiceTicks DEF Stage, Seen, Informed, Updates
  <2>4. Keeps(b, o.b, Members \ Inputs)
    BY <2>3 DEF Keeps, Members, Inputs
  <2>5. Acted(n, "SUCCESS") = {}
    BY <1>3, <2>1 DEF Acted, Tasks
  <2>6. Stage("axes", o.b)
    BY <2>3 DEF Stage, Reached, Updates
  <2> QED
    BY <1>3, <2>1, <2>3, <2>4, <2>5, <2>6 DEF Leads, Decided
<1>4. CASE n = "axes"
  <2>1. Kind("axes") = "DirectionVectorUpdate" /\ On("axes", "SUCCESS") = "off"
    BY RuleClasses, RuleFlow
  <2>2. o \in TickOf("DirectionVectorUpdate", Ports[n], b)
    BY <1>4, <2>1 DEF TicksOf, Guard
  <2>3. o.s = "SUCCESS" /\ Keeps(b, o.b, {"myAxes", "tgtAxes"}) /\ Seen(o.b, 4)
    BY <1>4, <2>2, ServiceTicks DEF Stage, Seen, Informed, Updates
  <2>4. Keeps(b, o.b, Members \ Inputs)
    BY <2>3 DEF Keeps, Members, Inputs
  <2>5. Acted(n, "SUCCESS") = {}
    BY <1>4, <2>1 DEF Acted, Tasks
  <2>6. Stage("off", o.b)
    BY <2>3 DEF Stage, Reached, Updates
  <2> QED
    BY <1>4, <2>1, <2>3, <2>4, <2>5, <2>6 DEF Leads, Decided
<1>5. CASE n = "off"
  <2>1. Kind("off") = "AngleOffUpdate" /\ On("off", "SUCCESS") = "aspect"
    BY RuleClasses, RuleFlow
  <2>2. o \in TickOf("AngleOffUpdate", Ports[n], b)
    BY <1>5, <2>1 DEF TicksOf, Guard
  <2>3. o.s = "SUCCESS" /\ Keeps(b, o.b, {"ao"}) /\ Seen(o.b, 5)
    BY <1>5, <2>2, ServiceTicks DEF Stage, Seen, Informed, Updates
  <2>4. Keeps(b, o.b, Members \ Inputs)
    BY <2>3 DEF Keeps, Members, Inputs
  <2>5. Acted(n, "SUCCESS") = {}
    BY <1>5, <2>1 DEF Acted, Tasks
  <2>6. Stage("aspect", o.b)
    BY <2>3 DEF Stage, Reached, Updates
  <2> QED
    BY <1>5, <2>1, <2>3, <2>4, <2>5, <2>6 DEF Leads, Decided
<1>6. CASE n = "aspect"
  <2>1. Kind("aspect") = "AspectAngleUpdate" /\ On("aspect", "SUCCESS") = "energy"
    BY RuleClasses, RuleFlow
  <2>2. o \in TickOf("AspectAngleUpdate", Ports[n], b)
    BY <1>6, <2>1 DEF TicksOf, Guard
  <2>3. o.s = "SUCCESS" /\ Keeps(b, o.b, {"aa"}) /\ Seen(o.b, 6)
    BY <1>6, <2>2, ServiceTicks DEF Stage, Seen, Informed, Updates
  <2>4. Keeps(b, o.b, Members \ Inputs)
    BY <2>3 DEF Keeps, Members, Inputs
  <2>5. Acted(n, "SUCCESS") = {}
    BY <1>6, <2>1 DEF Acted, Tasks
  <2>6. Stage("energy", o.b)
    BY <2>3 DEF Stage, Reached, Updates
  <2> QED
    BY <1>6, <2>1, <2>3, <2>4, <2>5, <2>6 DEF Leads, Decided
<1>7. CASE n = "energy"
  <2>1. Kind("energy") = "EnergyCompare" /\ On("energy", "SUCCESS") = "predict"
    BY RuleClasses, RuleFlow
  <2>2. o \in TickOf("EnergyCompare", Ports[n], b)
    BY <1>7, <2>1 DEF TicksOf, Guard
  <2>3. o.s = "SUCCESS" /\ Keeps(b, o.b, {"energy"}) /\ Seen(o.b, 7)
    BY <1>7, <2>2, ServiceTicks DEF Stage, Seen, Informed, Updates
  <2>4. Keeps(b, o.b, Members \ Inputs)
    BY <2>3 DEF Keeps, Members, Inputs
  <2>5. Acted(n, "SUCCESS") = {}
    BY <1>7, <2>1 DEF Acted, Tasks
  <2>6. Stage("predict", o.b)
    BY <2>3 DEF Stage, Reached, Updates, Informed
  <2> QED
    BY <1>7, <2>1, <2>3, <2>4, <2>5, <2>6 DEF Leads, Decided
<1>8. CASE n = "predict"
  <2>1. Kind("predict") = "PredictManeuver" /\ On("predict", "SUCCESS") = "m1"
    BY RuleClasses, RuleFlow
  <2>2. o \in TickOf("PredictManeuver", Ports[n], b)
    BY <1>8, <2>1 DEF TicksOf, Guard
  <2>3. o.s = "SUCCESS" /\ Keeps(b, o.b, {"headings", "turn"}) /\ Informed(o.b)
    BY <1>8, <2>2, ServiceTicks DEF Stage, Seen, Informed, Updates
  <2>4. Keeps(b, o.b, Members \ Inputs)
    BY <2>3 DEF Keeps, Members, Inputs
  <2>5. Acted(n, "SUCCESS") = {}
    BY <1>8, <2>1 DEF Acted, Tasks
  <2>6. Stage("m1", o.b)
    BY <2>3 DEF Stage, Reached, Updates
  <2> QED
    BY <1>8, <2>1, <2>3, <2>4, <2>5, <2>6 DEF Leads, Decided
<1>9. CASE n = "m1"
  <2>1. /\ Kind("m1") = "SetBFMMode_SCISSORS"
        /\ On("m1", "SUCCESS") = "t11" /\ On("m1", "FAILURE") = "m2"
    BY RuleClasses, RuleFlow
  <2>2. o \in TickOf("SetBFMMode_SCISSORS", Ports[n], b)
    BY <1>9, <2>1 DEF TicksOf, Guard
  <2>3. Informed(b)
    BY <1>9 DEF Stage, Updates
  <2>4. \A s : Acted(n, s) = {}
    BY <1>9, <2>1 DEF Acted, Tasks
  <2>5. CASE o.s = "FAILURE" /\ o.b = b
    <3>1. Stage("m2", b) /\ Keeps(b, b, Members \ Inputs)
      BY <2>3 DEF Stage, Reached, Updates, Keeps
    <3> QED
      BY <1>9, <2>1, <2>4, <2>5, <3>1 DEF Leads, Decided
  <2>6. CASE /\ o.s = "SUCCESS" /\ Keeps(b, o.b, Orders)
             /\ o.b.bfm = "SCISSORS" /\ ScissorsWindow(b)
    <3>1. Informed(o.b) /\ ScissorsWindow(o.b)
      BY <2>3, <2>6, OrdersKeep
    <3>2. Stage("t11", o.b)
      BY <2>6, <3>1 DEF Stage, Reached, Updates
    <3>3. Keeps(b, o.b, Members \ Inputs)
      BY <2>6 DEF Keeps, Members, Inputs, Orders
    <3> QED
      BY <1>9, <2>1, <2>4, <2>6, <3>2, <3>3 DEF Leads, Decided
  <2> QED
    BY <2>2, <2>5, <2>6, ModeTicks
<1>10. CASE n = "m2"
  <2>1. /\ Kind("m2") = "SetBFMMode_HABFM"
        /\ On("m2", "SUCCESS") = "t21" /\ On("m2", "FAILURE") = "m3"
    BY RuleClasses, RuleFlow
  <2>2. o \in TickOf("SetBFMMode_HABFM", Ports[n], b)
    BY <1>10, <2>1 DEF TicksOf, Guard
  <2>3. Informed(b)
    BY <1>10 DEF Stage, Updates
  <2>4. \A s : Acted(n, s) = {}
    BY <1>10, <2>1 DEF Acted, Tasks
  <2>5. CASE o.s = "FAILURE" /\ o.b = b
    <3>1. Stage("m3", b) /\ Keeps(b, b, Members \ Inputs)
      BY <2>3 DEF Stage, Reached, Updates, Keeps
    <3> QED
      BY <1>10, <2>1, <2>4, <2>5, <3>1 DEF Leads, Decided
  <2>6. CASE /\ o.s = "SUCCESS" /\ Keeps(b, o.b, Orders)
             /\ o.b.bfm = "HABFM" /\ HeadOnWindow(b)
    <3>1. Informed(o.b) /\ HeadOnWindow(o.b)
      BY <2>3, <2>6, OrdersKeep
    <3>2. Stage("t21", o.b)
      BY <2>6, <3>1 DEF Stage, Reached, Updates
    <3>3. Keeps(b, o.b, Members \ Inputs)
      BY <2>6 DEF Keeps, Members, Inputs, Orders
    <3> QED
      BY <1>10, <2>1, <2>4, <2>6, <3>2, <3>3 DEF Leads, Decided
  <2> QED
    BY <2>2, <2>5, <2>6, ModeTicks
<1>11. CASE n = "m3"
  <2>1. /\ Kind("m3") = "SetBFMMode_OBFM"
        /\ On("m3", "SUCCESS") = "t31" /\ On("m3", "FAILURE") = "m4"
    BY RuleClasses, RuleFlow
  <2>2. o \in TickOf("SetBFMMode_OBFM", Ports[n], b)
    BY <1>11, <2>1 DEF TicksOf, Guard
  <2>3. Informed(b)
    BY <1>11 DEF Stage, Updates
  <2>4. \A s : Acted(n, s) = {}
    BY <1>11, <2>1 DEF Acted, Tasks
  <2>5. CASE o.s = "FAILURE" /\ o.b = b
    <3>1. Stage("m4", b) /\ Keeps(b, b, Members \ Inputs)
      BY <2>3 DEF Stage, Reached, Updates, Keeps
    <3> QED
      BY <1>11, <2>1, <2>4, <2>5, <3>1 DEF Leads, Decided
  <2>6. CASE /\ o.s = "SUCCESS" /\ Keeps(b, o.b, Orders)
             /\ o.b.bfm = "OBFM" /\ OffenceWindow(b)
    <3>1. Informed(o.b) /\ OffenceWindow(o.b)
      BY <2>3, <2>6, OrdersKeep
    <3>2. Stage("t31", o.b)
      BY <2>6, <3>1 DEF Stage, Reached, Updates
    <3>3. Keeps(b, o.b, Members \ Inputs)
      BY <2>6 DEF Keeps, Members, Inputs, Orders
    <3> QED
      BY <1>11, <2>1, <2>4, <2>6, <3>2, <3>3 DEF Leads, Decided
  <2> QED
    BY <2>2, <2>5, <2>6, ModeTicks
<1>12. CASE n = "m4"
  <2>1. /\ Kind("m4") = "SetBFMMode_DBFM"
        /\ On("m4", "SUCCESS") = "deco" /\ On("m4", "FAILURE") = "t51"
    BY RuleClasses, RuleFlow
  <2>2. o \in TickOf("SetBFMMode_DBFM", Ports[n], b)
    BY <1>12, <2>1 DEF TicksOf, Guard
  <2>3. Informed(b)
    BY <1>12 DEF Stage, Updates
  <2>4. \A s : Acted(n, s) = {}
    BY <1>12, <2>1 DEF Acted, Tasks
  <2>5. CASE o.s = "FAILURE" /\ o.b = b
    <3>1. Stage("t51", b) /\ Keeps(b, b, Members \ Inputs)
      BY <2>3 DEF Stage, Reached, Updates, Keeps
    <3> QED
      BY <1>12, <2>1, <2>4, <2>5, <3>1 DEF Leads, Decided
  <2>6. CASE /\ o.s = "SUCCESS" /\ Keeps(b, o.b, Orders)
             /\ o.b.bfm = "DBFM" /\ DefenceWindow(b)
             /\ o.b.counter = CounterWindow(b)
    <3>1. Informed(o.b) /\ DefenceWindow(o.b) /\ o.b.counter = CounterWindow(o.b)
      BY <2>3, <2>6, OrdersKeep
    <3>2. Stage("deco", o.b)
      BY <2>6, <3>1 DEF Stage, Reached, Updates
    <3>3. Keeps(b, o.b, Members \ Inputs)
      BY <2>6 DEF Keeps, Members, Inputs, Orders
    <3> QED
      BY <1>12, <2>1, <2>4, <2>6, <3>2, <3>3 DEF Leads, Decided
  <2> QED
    BY <2>2, <2>5, <2>6, ModeTicks
<1>13. CASE n = "t11"
  <2>1. Kind(n) = "Task_ScissorBreakTurn" /\ On(n, "SUCCESS") = "SUCCESS"
    BY <1>13, RuleClasses, RuleFlow
  <2>2. o \in TickOf("Task_ScissorBreakTurn", Ports[n], b)
    BY <2>1 DEF TicksOf, Guard
  <2>3. o.s = "SUCCESS" /\ Steered(b, o.b, Kind(n))
    BY <2>1, <2>2, TaskTicks
  <2>4. Informed(b) /\ Kind(n) \in Tasks /\ Belongs(Kind(n), b)
    BY <1>13, <2>1 DEF Stage, Updates, Tasks, Belongs
  <2>5. Kind(n) = "Task_RollReverseAttack" => CounterWindow(b)
    BY <1>13, <2>1 DEF Stage
  <2> QED
    BY <2>1, <2>3, <2>4, <2>5, TaskDecides DEF Decided
<1>14. CASE n = "t31"
  <2>1. Kind(n) = "Task_AntiOvershoot" /\ On(n, "SUCCESS") = "SUCCESS"
    BY <1>14, RuleClasses, RuleFlow
  <2>2. o \in TickOf("Task_AntiOvershoot", Ports[n], b)
    BY <2>1 DEF TicksOf, Guard
  <2>3. o.s = "SUCCESS" /\ Steered(b, o.b, Kind(n))
    BY <2>1, <2>2, TaskTicks
  <2>4. Informed(b) /\ Kind(n) \in Tasks /\ Belongs(Kind(n), b)
    BY <1>14, <2>1 DEF Stage, Updates, Tasks, Belongs
  <2>5. Kind(n) = "Task_RollReverseAttack" => CounterWindow(b)
    BY <1>14, <2>1 DEF Stage
  <2> QED
    BY <2>1, <2>3, <2>4, <2>5, TaskDecides DEF Decided
<1>15. CASE n = "t41"
  <2>1. Kind(n) = "Task_RollReverseAttack" /\ On(n, "SUCCESS") = "SUCCESS"
    BY <1>15, RuleClasses, RuleFlow
  <2>2. o \in TickOf("Task_RollReverseAttack", Ports[n], b)
    BY <2>1 DEF TicksOf, Guard
  <2>3. o.s = "SUCCESS" /\ Steered(b, o.b, Kind(n))
    BY <2>1, <2>2, TaskTicks
  <2>4. Informed(b) /\ Kind(n) \in Tasks /\ Belongs(Kind(n), b)
    BY <1>15, <2>1 DEF Stage, Updates, Tasks, Belongs
  <2>5. Kind(n) = "Task_RollReverseAttack" => CounterWindow(b)
    BY <1>15, <2>1 DEF Stage
  <2> QED
    BY <2>1, <2>3, <2>4, <2>5, TaskDecides DEF Decided
<1>16. CASE n = "t42"
  <2>1. Kind(n) = "Task_EvasiveRollOrScissors" /\ On(n, "SUCCESS") = "SUCCESS"
    BY <1>16, RuleClasses, RuleFlow
  <2>2. o \in TickOf("Task_EvasiveRollOrScissors", Ports[n], b)
    BY <2>1 DEF TicksOf, Guard
  <2>3. o.s = "SUCCESS" /\ Steered(b, o.b, Kind(n))
    BY <2>1, <2>2, TaskTicks
  <2>4. Informed(b) /\ Kind(n) \in Tasks /\ Belongs(Kind(n), b)
    BY <1>16, <2>1 DEF Stage, Updates, Tasks, Belongs
  <2>5. Kind(n) = "Task_RollReverseAttack" => CounterWindow(b)
    BY <1>16, <2>1 DEF Stage
  <2> QED
    BY <2>1, <2>3, <2>4, <2>5, TaskDecides DEF Decided
<1>17. CASE n = "t51"
  <2>1. Kind(n) = "Task_FollowTarget" /\ On(n, "SUCCESS") = "SUCCESS"
    BY <1>17, RuleClasses, RuleFlow
  <2>2. o \in TickOf("Task_FollowTarget", Ports[n], b)
    BY <2>1 DEF TicksOf, Guard
  <2>3. o.s = "SUCCESS" /\ Steered(b, o.b, Kind(n))
    BY <2>1, <2>2, TaskTicks
  <2>4. Informed(b) /\ Kind(n) \in Tasks /\ Belongs(Kind(n), b)
    BY <1>17, <2>1 DEF Stage, Updates, Tasks, Belongs
  <2>5. Kind(n) = "Task_RollReverseAttack" => CounterWindow(b)
    BY <1>17, <2>1 DEF Stage
  <2> QED
    BY <2>1, <2>3, <2>4, <2>5, TaskDecides DEF Decided
<1>18. CASE n = "t21"
  <2>1. /\ Kind(n) = "Task_OneCircleAttack"
        /\ On(n, "SUCCESS") = "SUCCESS" /\ On(n, "FAILURE") = "t22"
    BY <1>18, RuleClasses, RuleFlow
  <2>2. o \in TickOf("Task_OneCircleAttack", Ports[n], b)
    BY <2>1 DEF TicksOf, Guard
  <2>3. Informed(b) /\ Kind(n) \in Tasks /\ Belongs(Kind(n), b)
    BY <1>18, <2>1 DEF Stage, Updates, Tasks, Belongs
  <2>4. CASE o.s = "FAILURE" /\ o.b = b
    <3>1. Stage("t22", b) /\ Keeps(b, b, Members \ Inputs)
      BY <1>18, <2>3 DEF Stage, Reached, Updates, Keeps
    <3>2. Acted(n, "FAILURE") = {}
      BY DEF Acted
    <3> QED
      BY <2>1, <2>4, <3>1, <3>2 DEF Leads, Decided
  <2>5. CASE o.s = "SUCCESS" /\ Steered(b, o.b, Kind(n))
    BY <2>1, <2>3, <2>5, TaskDecides DEF Decided
  <2> QED
    BY <2>1, <2>2, <2>4, <2>5, TaskTicks
<1>19. CASE n = "t22"
  <2>1. /\ Kind(n) = "Task_TwoCircleAttack"
        /\ On(n, "SUCCESS") = "SUCCESS" /\ On(n, "FAILURE") = "m3"
    BY <1>19, RuleClasses, RuleFlow
  <2>2. o \in TickOf("Task_TwoCircleAttack", Ports[n], b)
    BY <2>1 DEF TicksOf, Guard
  <2>3. Informed(b) /\ Kind(n) \in Tasks /\ Belongs(Kind(n), b)
    BY <1>19, <2>1 DEF Stage, Updates, Tasks, Belongs
  <2>4. CASE o.s = "FAILURE" /\ o.b = b
    <3>1. Stage("m3", b) /\ Keeps(b, b, Members \ Inputs)
      BY <1>19, <2>3 DEF Stage, Reached, Updates, Keeps
    <3>2. Acted(n, "FAILURE") = {}
      BY DEF Acted
    <3> QED
      BY <2>1, <2>4, <3>1, <3>2 DEF Leads, Decided
  <2>5. CASE o.s = "SUCCESS" /\ Steered(b, o.b, Kind(n))
    BY <2>1, <2>3, <2>5, TaskDecides DEF Decided
  <2> QED
    BY <2>1, <2>2, <2>4, <2>5, TaskTicks
<1>20. CASE n = "deco"
  <2>1. Kind(n) = Guard /\ On(n, "FAILURE") = "t42"
    BY <1>20, RuleClasses, RuleFlow DEF Guard
  <2>2. o.s = "FAILURE" /\ o.b = b
    BY <2>1 DEF TicksOf, Fail, Outcome
  <2>3. Stage("t42", b) /\ Keeps(b, b, Members \ Inputs)
    BY <1>20 DEF Stage, Reached, Updates, Keeps
  <2>4. Acted(n, "FAILURE") = {}
    BY DEF Acted
  <2> QED
    BY <2>1, <2>2, <2>3, <2>4 DEF Leads, Decided
<1> QED
  BY <1>1, <1>2, <1>3, <1>4, <1>5, <1>6, <1>7, <1>8, <1>9, <1>10, <1>11, <1>12, <1>13, <1>14, <1>15, <1>16, <1>17, <1>18, <1>19, <1>20 DEF Stage, Reached, Updates

-----------------------------------------------------------------------------
(* The invariant.  Nothing is said about a second rule the host may load   *)
(* in place of Rule.xml.                                                   *)

\* What the last Step() has handed over, and to whom.
Handed ==
  ~ threw /\ out # NoOutput =>
    /\ out.from = <<bb.me.loc, bb.me.rot>>
    /\ out.to = bb.vp
    /\ \/ out.rudder = 100 /\ out.to.way = "ground" /\ out.to.anchor = bb.me.loc
       \/ /\ out.rudder = 0 /\ out.to = out.vp
          /\ acted # {} => out.to.task \in acted /\ out.to.anchor \in {bb.me.loc, bb.tgt.loc}

\* The pose on the blackboard is the last one flown: the zero pose before the
\* first Step() with hit points, and then the first of the friends.
Flown ==
  IF bb.friendly = <<>> THEN bb.me.loc = Start[1] /\ bb.me.rot = Start[2]
  ELSE bb.me = Pose(bb.friendly[1])

\* The Step() in progress works on what it was called with.
Called ==
  /\ args.mine \in Mine /\ args.others \in Others
  /\ bb.me = Pose(args.mine) /\ bb.enemy = Foes(args.mine, args.others)

IsOut(o) == o = [m \in {"vp", "throttle", "from", "to", "rudder"} |-> o[m]]

Flight ==
  /\ IsBB(bb) /\ IsOut(out) /\ start = RuleRoot
  /\ Flown
  /\ at = "rest" => Handed
  /\ at # "rest" =>
       /\ rule = Shipped /\ Called
       /\ IF at = "SUCCESS" THEN Decision(bb, acted) ELSE acted = {} /\ Stage(at, bb)

PilotInv ==
  /\ rule \in Files \cup {NoFile}
  /\ rule \in {NoFile, Shipped} => Flight

\* Pick(s, I) is a sequence, and begins with the element at the first position
\* in I.
LEMMA PickFirst ==
  ASSUME NEW S, NEW s \in Seq(S), NEW I \in SUBSET DOMAIN s
  PROVE  /\ \E T : Pick(s, I) \in Seq(T)
         /\ \A i \in I : (\A j \in I : i <= j) => Pick(s, I) # <<>> /\ Pick(s, I)[1] = s[i]
<1>1. IsFiniteSet(1 .. Len(s)) /\ DOMAIN s = 1 .. Len(s)
  BY FS_Interval
<1>2. IsFiniteSet(I) /\ Cardinality(I) \in Nat
  BY <1>1, FS_Subset, FS_CardinalityType
<1> DEFINE pos(k) == CHOOSE i \in I : Cardinality({j \in I : j < i}) = k - 1
<1>3. Pick(s, I) = [k \in 1 .. Cardinality(I) |-> s[pos(k)]]
  BY DEF Pick
<1>4. Pick(s, I) \in Seq({s[pos(k)] : k \in 1 .. Cardinality(I)})
  <2> DEFINE n == Cardinality(I)
             T == {s[pos(k)] : k \in 1 .. n}
  <2>1. Pick(s, I) \in [1 .. n -> T]
    BY <1>3
  <2> HIDE DEF n, T
  <2>2. n \in Nat
    BY <1>2 DEF n
  <2>3. Pick(s, I) \in Seq(T)
    BY <2>1, <2>2
  <2> QED
    BY <2>3 DEF n, T
<1>5. ASSUME NEW i \in I, \A j \in I : i <= j
      PROVE  Pick(s, I) # <<>> /\ Pick(s, I)[1] = s[i]
  <2>1. \A j \in I : j \in Int
    BY <1>1
  <2>2. {j \in I : j < i} = {}
    BY <1>5, <2>1
  <2>3. Cardinality({j \in I : j < i}) = 1 - 1
    <3>1. Cardinality({}) = 0
      BY FS_EmptySet
    <3>2. Cardinality({j \in I : j < i}) = 0
      BY <2>2, <3>1
    <3> QED
      BY <3>2
  <2>4. \A k \in I : Cardinality({j \in I : j < k}) = 1 - 1 => k = i
    <3> SUFFICES ASSUME NEW k \in I, Cardinality({j \in I : j < k}) = 0 PROVE k = i
      OBVIOUS
    <3>1. IsFiniteSet({j \in I : j < k})
      BY <1>2, FS_Subset
    <3>2. {j \in I : j < k} = {}
      BY <3>1, FS_EmptySet
    <3> QED
      BY <1>5, <2>1, <3>2
  <2>5. pos(1) = i
    BY <2>3, <2>4
  <2>6. Cardinality(I) # 0
    BY <1>2, FS_EmptySet
  <2>7. 1 \in 1 .. Cardinality(I)
    BY <1>2, <2>6
  <2>8. Pick(s, I)[1] = s[i]
    BY <1>3, <2>5, <2>7
  <2>9. 1 \in DOMAIN Pick(s, I)
    BY <1>3, <2>7
  <2> QED
    BY <2>8, <2>9
<1> QED
  BY <1>4, <1>5

\* The own aircraft comes first among the friends.
LEMMA FirstMate ==
  ASSUME NEW mine \in Mine, NEW others \in Others
  PROVE  Mates(mine, others) # <<>> /\ Mates(mine, others)[1] = mine
<1> DEFINE I == {i \in DOMAIN others : Alive(others[i]) /\ others[i].team = mine.team}
<1>1. others \in Seq(PlaneInfos)
  BY RuleAssumption
<1>2. PICK T : Pick(others, I) \in Seq(T)
  BY <1>1, PickFirst
<1>3. Mates(mine, others) = <<mine>> \o Pick(others, I)
  BY DEF Mates
<1> HIDE DEF I
<1>4. <<mine>> \in Seq({mine} \cup T) /\ Pick(others, I) \in Seq({mine} \cup T)
  BY <1>2
<1> QED
  BY <1>3, <1>4

\* The enemy list begins with the first living enemy of the array.
LEMMA FirstFoe ==
  ASSUME NEW mine \in Mine, NEW others \in Others,
         NEW i \in DOMAIN others, Alive(others[i]), others[i].team # mine.team,
         \A j \in DOMAIN others : Alive(others[j]) /\ others[j].team # mine.team => i <= j
  PROVE  Foes(mine, others) # <<>> /\ Foes(mine, others)[1] = others[i]
<1> DEFINE I == {j \in DOMAIN others : Alive(others[j]) /\ others[j].team # mine.team}
<1>1. others \in Seq(PlaneInfos)
  BY RuleAssumption
<1>2. i \in I /\ \A j \in I : i <= j
  OBVIOUS
<1>3. Foes(mine, others) = Pick(others, I)
  BY DEF Foes
<1> HIDE DEF I
<1>4. I \in SUBSET DOMAIN others
  BY DEF I
<1> QED
  BY <1>1, <1>2, <1>3, <1>4, PickFirst

\* The constructor leaves the blackboard without a waypoint or a list.
LEMMA InitBoard ==
  ASSUME Init
  PROVE  IsBB(bb) /\ bb.vp = NoWaypoint /\ Flown
<1>1. PICK sight \in BOOLEAN :
        bb = [me |-> [loc |-> Start[1], rot |-> Start[2], speed |-> 0],
              tgt |-> [loc |-> Start[1], rot |-> Start[2], speed |-> 0],
              myAxes |-> NoAxes, tgtAxes |-> NoAxes,
              distance |-> 0, los |-> 0, losT |-> 0, ao |-> 0, aa |-> 0,
              sight |-> sight, energy |-> 0, bfm |-> "NONE", counter |-> FALSE,
              turn |-> "", vp |-> NoWaypoint, throttle |-> 0,
              friendly |-> <<>>, enemy |-> <<>>, dt |-> 0,
              headings |-> <<>>, lead |-> 0]
  BY DEF Init, BlackBoards
<1>2. IsBB(bb)
  BY <1>1 DEF IsBB, Members
<1> QED
  BY <1>1, <1>2 DEF Flown

\* Nothing but that blackboard has been handed over.
LEMMA InitPilot == Init => PilotInv
<1> SUFFICES ASSUME Init PROVE PilotInv
  OBVIOUS
<1>1. IsBB(bb) /\ Flown
  BY InitBoard
<1>2. out = NoOutput /\ at = "rest" /\ rule = NoFile /\ start = RuleRoot
  BY DEF Init
<1>3. IsOut(out)
  BY <1>2 DEF NoOutput, IsOut
<1>4. Handed
  BY <1>2 DEF Handed
<1> QED
  BY <1>1, <1>2, <1>3, <1>4 DEF PilotInv, Flight

\* A leaf that is ticked leads on as LeafLeads says.
LEMMA TickFlies ==
  ASSUME LoadedWhole, rule = Shipped, Flight, at \in RuleNode, NEW o \in Ticks(at),
         ~ (ClassOf(at) = Guard /\ bb.counter)
  PROVE  /\ o.s \in Decided /\ Keeps(bb, o.b, Members \ Inputs)
         /\ at # "rest" /\ Called /\ acted = {}
         /\ Leads(at, o.s, o.b)
<1>1. at # "rest" /\ at # "SUCCESS"
  BY DEF LoadedWhole, RuleXml
<1>2. IsBB(bb) /\ Called /\ acted = {} /\ Stage(at, bb)
  BY <1>1 DEF Flight
<1>3. o \in TicksOf(at, bb)
  BY DEF Ticks, TicksOf, ClassOf, Kind
<1>4. at # "deco" \/ ~ bb.counter
  <2>1. Kind("deco") = Guard
    BY RuleClasses DEF Guard
  <2> QED
    BY <2>1 DEF ClassOf, Kind
<1> QED
  BY <1>1, <1>2, <1>3, <1>4, LeafLeads

\* What Step() has put on the blackboard is there after the leaf.
LEMMA InputsStay ==
  ASSUME NEW b, NEW c, Keeps(b, c, Members \ Inputs)
  PROVE  IsBB(c) /\ c.me = b.me /\ c.friendly = b.friendly /\ c.enemy = b.enemy
BY DEF Keeps, Members, Inputs

\* Every step keeps the invariant.
LEMMA NextPilot ==
  ASSUME LoadedWhole, PilotInv, [Next]_vars
  PROVE  PilotInv'
<1>0. Shipped \in Files /\ NoFile \notin Files
  BY RuleAssumption
<1>1. CASE rule \notin {NoFile, Shipped}
  <2>1. rule' = rule
    BY <1>1 DEF Next, vars, LoadRule, SetDeltaTime, Step, StepDead, StepBegin, TickLeaf,
                TickGuard, LeafThrows, StepReturn
  <2> QED
    BY <1>1, <2>1 DEF PilotInv
<1>2. CASE rule \in {NoFile, Shipped}
  <2>0. Flight
    BY <1>2 DEF PilotInv
  <2>1. ASSUME NEW f \in Files, LoadRule(f)
        PROVE  PilotInv'
    <3>1. Flight'
      BY <2>0, <2>1 DEF LoadRule, Flight, Flown, Handed
    <3> QED
      BY <2>1, <3>1 DEF LoadRule, PilotInv
  <2>2. ASSUME NEW dt \in DeltaTimes, SetDeltaTime(dt)
        PROVE  PilotInv'
    <3>1. bb' = [bb EXCEPT !.dt = dt] /\ IsBB(bb)
      BY <2>0, <2>2 DEF SetDeltaTime, Flight
    <3>2. /\ IsBB(bb') /\ bb'.vp = bb.vp /\ bb'.me = bb.me /\ bb'.tgt = bb.tgt
          /\ bb'.friendly = bb.friendly
      BY <3>1 DEF IsBB, Members
    <3>3. Flight'
      BY <2>0, <2>2, <3>2 DEF SetDeltaTime, Flight, Flown, Handed
    <3> QED
      BY <1>2, <2>2, <3>3 DEF SetDeltaTime, PilotInv
  <2>3. ASSUME NEW mine \in Mine, NEW others \in Others, StepDead(mine, others)
        PROVE  PilotInv'
    <3> DEFINE v == [task |-> "none", anchor |-> bb.me.loc, along |-> NoAxes, way |-> "ground"]
    <3>1. bb' = [bb EXCEPT !.throttle = 0, !.vp = v] /\ IsBB(bb)
      BY <2>0, <2>3 DEF StepDead, Flight
    <3>2. v.way = "ground" /\ v.anchor = bb.me.loc
      OBVIOUS
    <3> HIDE DEF v
    <3>3. IsBB(bb') /\ bb'.vp = v /\ bb'.me = bb.me /\ bb'.friendly = bb.friendly
      BY <3>1 DEF IsBB, Members
    <3>4. /\ out' = [out EXCEPT !.from = <<bb.me.loc, bb.me.rot>>, !.to = bb'.vp, !.rudder = 100]
          /\ IsOut(out)
      BY <2>0, <2>3 DEF StepDead, Flight
    <3>5. /\ IsOut(out') /\ out'.rudder = 100 /\ out'.from = <<bb.me.loc, bb.me.rot>>
          /\ out'.to = bb'.vp
      BY <3>4 DEF IsOut
    <3>6. Handed'
      BY <3>2, <3>3, <3>5 DEF Handed
    <3>7. Flight'
      BY <2>0, <2>3, <3>3, <3>5, <3>6 DEF StepDead, Flight, Flown
    <3> QED
      BY <1>2, <2>3, <3>7 DEF StepDead, PilotInv
  <2>4. ASSUME NEW mine \in Mine, NEW others \in Others, StepBegin(mine, others)
        PROVE  PilotInv'
    <3>1. /\ IsBB(bb) /\ start = RuleRoot
          /\ bb' = [bb EXCEPT !.me = Pose(mine), !.friendly = Mates(mine, others),
                              !.enemy = Foes(mine, others)]
      BY <2>0, <2>4 DEF StepBegin, Flight
    <3>2. /\ IsBB(bb') /\ bb'.me = Pose(mine) /\ bb'.friendly = Mates(mine, others)
          /\ bb'.enemy = Foes(mine, others)
      BY <3>1 DEF IsBB, Members
    <3>3. Flown'
      <4>1. bb'.friendly # <<>> /\ bb'.friendly[1] = mine
        BY <3>2, FirstMate
      <4> QED
        BY <3>2, <4>1 DEF Flown
    <3>4. CASE rule = NoFile
      <4>1. at' = "rest" /\ threw'
        BY <2>4, <3>4 DEF StepBegin
      <4> QED
        BY <2>0, <2>4, <1>2, <3>2, <3>3, <4>1 DEF StepBegin, PilotInv, Flight, Handed
    <3>5. CASE rule = Shipped
      <4>1. rule # NoFile
        BY <1>0, <3>5
      <4>2. at' = On("root", "enter")
        BY <2>4, <3>1, <3>5, <4>1 DEF StepBegin, GoOn, On, LoadedWhole
      <4>3. at' = "sel"
        BY <4>2, RuleFlow
      <4>4. args' = [mine |-> mine, others |-> others] /\ acted' = {}
        BY <2>4, <4>1 DEF StepBegin
      <4>5. Called'
        BY <3>2, <4>4 DEF Called
      <4>6. Stage("sel", bb')
        BY DEF Stage, Reached, Updates
      <4>7. rule' = Shipped /\ start' = RuleRoot /\ out' = out /\ IsOut(out)
        BY <2>0, <2>4, <3>5 DEF StepBegin, Flight
      <4> QED
        BY <1>0, <3>2, <3>3, <4>3, <4>4, <4>5, <4>6, <4>7 DEF PilotInv, Flight
    <3> QED
      BY <1>2, <3>4, <3>5
  <2>5. CASE TickLeaf
    <3>1. rule = Shipped /\ at # "rest"
      <4>1. at # "rest"
        BY <2>5 DEF TickLeaf, LoadedWhole, RuleXml
      <4> QED
        BY <2>0, <4>1 DEF Flight
    <3>2. PICK o \in Ticks(at) :
            /\ bb' = o.b /\ at' = GoOn(at, o.s)
            /\ acted' = acted \cup IF o.s = "SUCCESS" THEN {ClassOf(at)} \cap Tasks ELSE {}
      BY <2>5 DEF TickLeaf
    <3>3. /\ o.s \in Decided /\ Keeps(bb, o.b, Members \ Inputs)
          /\ Called /\ acted = {} /\ Leads(at, o.s, o.b)
      BY <2>0, <2>5, <3>1, TickFlies DEF TickLeaf
    <3>4. /\ IsBB(bb') /\ bb'.me = bb.me /\ bb'.friendly = bb.friendly
          /\ bb'.enemy = bb.enemy
      BY <3>2, <3>3, InputsStay
    <3>5. acted' = Acted(at, o.s)
      BY <3>1, <3>2, <3>3 DEF Acted, ClassOf, Kind
    <3>6. at' = On(at, o.s)
      BY <3>1, <3>2 DEF GoOn, On
    <3>7. IF at' = "SUCCESS" THEN Decision(bb', acted') ELSE acted' = {} /\ Stage(at', bb')
      BY <3>2, <3>3, <3>5, <3>6 DEF Leads
    <3>8. at' # "rest"
      BY <3>7 DEF Stage, Reached, Updates
    <3>9. /\ rule' = Shipped /\ start' = RuleRoot /\ out' = out /\ IsOut(out)
          /\ args' = args
      BY <2>0, <2>5, <3>1 DEF TickLeaf, Flight
    <3>10. Called'
      BY <3>3, <3>4, <3>9 DEF Called
    <3>11. Flown'
      BY <2>0, <3>4 DEF Flight, Flown
    <3> QED
      BY <1>0, <3>4, <3>7, <3>8, <3>9, <3>10, <3>11 DEF PilotInv, Flight
  <2>6. CASE TickGuard
    <3>1. rule = Shipped /\ at \in RuleNode /\ at # "rest" /\ at # "SUCCESS"
      <4>1. at # "rest" /\ at # "SUCCESS" /\ at \in RuleNode
        BY <2>6 DEF TickGuard, LoadedWhole, RuleXml
      <4> QED
        BY <2>0, <4>1 DEF Flight
    <3>2. Stage(at, bb) /\ Called /\ acted = {}
      BY <2>0, <3>1 DEF Flight
    <3>3. Kind(at) = Guard
      BY <2>6, <3>1 DEF TickGuard, ClassOf, Kind
    <3>4. at = "deco"
      BY <3>2, <3>3, RuleClasses DEF Stage, Reached, Updates, Guard
    <3>5. RuleKids["deco"][1] = "t41"
      BY DEF LoadedWhole, KidsIn, RuleTree, RuleXml
    <3>6. at' = "t41"
      BY <2>6, <3>1, <3>4, <3>5, RuleFlow DEF TickGuard, GoOn, On
    <3>7. Stage("t41", bb)
      BY <2>6, <3>2, <3>4 DEF TickGuard, Stage, Reached, Updates
    <3>8. UNCHANGED <<rule, bb, start, args, out, acted, threw>>
      BY <2>6 DEF TickGuard
    <3>9. Called'
      BY <3>2, <3>8 DEF Called
    <3> QED
      BY <1>0, <2>0, <3>1, <3>2, <3>6, <3>7, <3>8, <3>9 DEF PilotInv, Flight, Flown
  <2>7. CASE LeafThrows
    <3>1. rule = Shipped /\ at \in RuleNode /\ at # "rest" /\ at # "SUCCESS"
      <4>1. at # "rest" /\ at # "SUCCESS" /\ at \in RuleNode
        BY <2>7 DEF LeafThrows, LoadedWhole, RuleXml
      <4> QED
        BY <2>0, <4>1 DEF Flight
    <3>2. PICK o \in Ticks(at) : o.s = "RUNNING"
      BY <2>7 DEF LeafThrows
    <3>3. ~ (ClassOf(at) = Guard /\ bb.counter)
      BY <3>2 DEF Ticks, Fail, Outcome
    <3>4. o.s \in Decided
      BY <2>0, <3>1, <3>3, TickFlies
    <3> QED
      BY <3>2, <3>4 DEF Decided
  <2>8. CASE StepReturn
    <3>1. rule = Shipped /\ at = "SUCCESS"
      BY <2>0, <2>8 DEF StepReturn, Flight, Decided, Stage, Reached, Updates
    <3>2. Decision(bb, acted)
      BY <2>0, <3>1 DEF Flight
    <3>3. PICK task \in Tasks :
            /\ acted = {task} /\ bb.vp.task = task
            /\ bb.vp.anchor \in {bb.me.loc, bb.tgt.loc}
      BY <3>2 DEF Decision
    <3>4. /\ out' = [vp |-> bb.vp, throttle |-> 1, from |-> <<bb.me.loc, bb.me.rot>>,
                     to |-> bb.vp, rudder |-> 0]
          /\ at' = "rest" /\ start' = RuleRoot /\ UNCHANGED <<rule, bb, acted>>
      BY <2>8 DEF StepReturn
    <3>5. /\ IsOut(out') /\ out'.vp = bb.vp /\ out'.to = bb.vp /\ out'.rudder = 0
          /\ out'.from = <<bb.me.loc, bb.me.rot>>
      BY <3>4 DEF IsOut
    <3>6. Handed'
      BY <3>3, <3>4, <3>5 DEF Handed
    <3>7. Flown'
      BY <2>0, <3>4 DEF Flight, Flown
    <3> QED
      BY <1>0, <2>0, <3>1, <3>4, <3>5, <3>6, <3>7 DEF PilotInv, Flight
  <2>9. CASE UNCHANGED vars
    BY <2>9 DEF vars, PilotInv, Flight, Flown, Handed, Called
  <2> QED
    BY <2>1, <2>2, <2>3, <2>4, <2>5, <2>6, <2>7, <2>8, <2>9 DEF Next, Step
<1> QED
  BY <1>1, <1>2

-----------------------------------------------------------------------------
(* What follows for a tree the loader has attached whole.  Run             *)
(* rule_as_loaded shows that it is not, and that SteersByNow then fails.   *)

\* The invariant holds in every behaviour.
THEOREM PilotSafe == LoadedWhole => (Spec => []PilotInv)
<1> SUFFICES ASSUME LoadedWhole PROVE Spec => []PilotInv
  OBVIOUS
<1>1. PilotInv /\ [Next]_vars => PilotInv'
  BY NextPilot
<1> QED
  BY <1>1, InitPilot, PTL DEF Spec

\* A Step() that has decided has acted by the rule: neither verdict but
\* SUCCESS, and start is the root.
LEMMA Verdict ==
  ASSUME PilotInv, rule = Shipped, at \in Decided
  PROVE  at = "SUCCESS" /\ Decision(bb, acted) /\ Called
<1>1. Flight
  BY DEF PilotInv
<1>2. at # "rest"
  BY DEF Decided
<1> QED
  BY <1>1, <1>2 DEF Flight, Decided, Stage, Reached, Updates

\* With Rule.xml a task acts only inside the window of the mode that the same
\* tick has set, and the counter-attack only when this tick has found the
\* attacker overshooting, whatever modes and flags earlier Step()s have left.
THEOREM RuleActsInWindow == LoadedWhole => (Spec => []ActsInWindow)
<1>1. PilotInv => ActsInWindow
  <2> SUFFICES ASSUME PilotInv, at \in Decided, rule = Shipped
               PROVE  /\ \A task \in acted : Belongs(task, bb)
                      /\ "Task_RollReverseAttack" \in acted => CounterWindow(bb)
    BY DEF ActsInWindow
  <2>1. Decision(bb, acted)
    BY Verdict
  <2> QED
    BY <2>1 DEF Decision
<1> QED
  BY <1>1, PilotSafe, PTL

\* With Rule.xml every Step() with hit points is decided by one task, which
\* steers by the pose of this Step() and by the first living enemy in it.
THEOREM RuleSteersByNow == LoadedWhole => (Spec => []SteersByNow)
<1>1. PilotInv => SteersByNow
  <2> SUFFICES ASSUME PilotInv, at \in Decided, rule = Shipped
               PROVE  SteersByNow
    BY DEF SteersByNow
  <2>1. at = "SUCCESS" /\ Decision(bb, acted) /\ Called
    BY Verdict
  <2>2. PICK task \in Tasks :
          /\ acted = {task} /\ bb.vp.task = task
          /\ bb.vp.anchor \in {bb.me.loc, bb.tgt.loc}
          /\ bb.vp.along \in {bb.myAxes, bb.tgtAxes, NoAxes}
    BY <2>1 DEF Decision
  <2>3. Cardinality(acted) = 1
    BY <2>2, FS_Singleton
  <2>4. Selected(bb) /\ Oriented(bb)
    BY <2>1 DEF Decision, Informed, Seen
  <2>5. bb.vp.along \in {bb.me.rot, bb.tgt.rot, NoAxes}
    BY <2>2, <2>4 DEF Oriented
  <2>6. ASSUME NEW i \in DOMAIN args.others,
               Alive(args.others[i]) /\ args.others[i].team # args.mine.team,
               \A j \in DOMAIN args.others :
                 Alive(args.others[j]) /\ args.others[j].team # args.mine.team => i <= j
        PROVE  bb.tgt = Pose(args.others[i])
    <3>1. bb.enemy # <<>> /\ bb.enemy[1] = args.others[i]
      BY <2>1, <2>6, FirstFoe DEF Called
    <3> QED
      BY <2>4, <3>1 DEF Selected
  <2>7. bb.me = Pose(args.mine)
    BY <2>1 DEF Called
  <2> QED
    BY <2>1, <2>2, <2>3, <2>5, <2>6, <2>7 DEF SteersByNow
<1> QED
  BY <1>1, PilotSafe, PTL

\* With Rule.xml no check and no task sees a quantity that an earlier Step()
\* has left: the services are ticked in the order of what they depend on.
THEOREM RuleSeesFresh == LoadedWhole => (Spec => [](rule = Shipped => PictureFresh))
<1> SUFFICES ASSUME LoadedWhole
             PROVE  Spec => [](rule = Shipped => PictureFresh)
  OBVIOUS
<1>1. PilotInv => (rule = Shipped => PictureFresh)
  <2> SUFFICES ASSUME PilotInv, rule = Shipped, PastServices
               PROVE  Informed(bb)
    BY DEF PictureFresh, Seen, Informed, Ranged, Sighted, Oriented, Angled, Aspected, Weighed
  <2>1. CASE at \in Decided
    BY <2>1, Verdict DEF Decision
  <2>2. CASE at \in RuleNode /\ ClassOf(at) \notin Services
    <3>1. at # "rest" /\ at # "SUCCESS"
      BY <2>2 DEF LoadedWhole, RuleXml
    <3>2. Stage(at, bb)
      BY <3>1 DEF PilotInv, Flight
    <3>3. Kind(at) \notin Services
      BY <2>2 DEF ClassOf, Kind
    <3>4. at \notin Updates
      BY <3>3, RuleClasses DEF Updates, Services
    <3> QED
      BY <3>2, <3>4 DEF Stage
  <2> QED
    BY <2>1, <2>2 DEF PastServices
<1>2. Spec => []PilotInv
  BY PilotSafe
<1> QED
  BY <1>1, <1>2, PTL

\* With Rule.xml, or before any rule is loaded, the controller is given the
\* pose last flown, alive the one of this Step(); its waypoint is then the one
\* the caller gets, made by the task that has acted in this tick, and dead the
\* ground below that pose.
THEOREM RuleStickMatches ==
  LoadedWhole => (Spec => [](rule \in {NoFile, Shipped} => StickMatches))
<1>1. PilotInv => (rule \in {NoFile, Shipped} => StickMatches)
  <2> SUFFICES ASSUME PilotInv, rule \in {NoFile, Shipped},
                      at = "rest", out # NoOutput, ~ threw
               PROVE  StickMatches
    BY DEF StickMatches
  <2>1. Handed /\ Flown
    BY DEF PilotInv, Flight
  <2>2. LastFlown = <<bb.me.loc, bb.me.rot>>
    <3>1. Start = <<Start[1], Start[2]>>
      BY RuleAssumption
    <3> QED
      BY <2>1, <3>1 DEF LastFlown, Flown, Pose
  <2> QED
    BY <2>1, <2>2 DEF Handed, StickMatches
<1> QED
  BY <1>1, PilotSafe, PTL

\* No leaf of Rule.xml makes the tree throw: a Step() in progress ends in a
\* decision, and the next one begins at the root.
THEOREM RuleNeverThrows == LoadedWhole => (Spec => [](rule = Shipped => ~ Resumed))
<1>1. PilotInv => (rule = Shipped => ~ Resumed)
  BY DEF PilotInv, Flight, Resumed
<1> QED
  BY <1>1, PilotSafe, PTL

-----------------------------------------------------------------------------
(* And for the tree the loader of this repository makes of Rule.xml.       *)

\* No task has acted, and the waypoint is none that a task has set.
Adrift == rule = Shipped => acted = {} /\ bb.vp.task = "none"

AdriftInv ==
  /\ rule \in Files \cup {NoFile}
  /\ rule \in {NoFile, Shipped} =>
       /\ IsBB(bb) /\ bb.vp.task = "none" /\ acted = {}
       /\ start = RuleRoot /\ at \in {"rest", "SUCCESS"}

\* A Sequence without children has succeeded when it is entered.
LEMMA BareWalk ==
  ASSUME LoadedBare
  PROVE  On("root", "enter") = "SUCCESS"
<1> DEFINE x == [file |-> Shipped, node |-> "root", says |-> "enter"]
           y == [file |-> Shipped, node |-> "root", says |-> "SUCCESS"]
<1>1. x \in Points /\ y \in Points
  BY RuleAssumption DEF Points, Decided, LoadedBare
<1>2. Class[Shipped]["root"] = "Sequence"
  BY DEF LoadedBare, RuleXml
<1>3. ~ Stops(x)
  BY <1>2 DEF Stops, ControlClasses
<1>4. Onward(x) = y
  BY <1>2 DEF Onward, LoadedBare, Through
<1>5. Stops(y) /\ Ends(y) = "SUCCESS"
  BY DEF Stops, Ends, LoadedBare
<1> HIDE DEF x, y
<1>6. Walk[x] = Walk[y] /\ Walk[y] = "SUCCESS"
  BY <1>1, <1>3, <1>4, <1>5, WalkUnfolds
<1> QED
  BY <1>6 DEF On, x

\* Every step keeps it: no leaf is ever reached.
LEMMA NextAdrift ==
  ASSUME LoadedBare, AdriftInv, [Next]_vars
  PROVE  AdriftInv'
<1>0. Shipped \in Files /\ NoFile \notin Files
  BY RuleAssumption
<1>1. CASE rule \notin {NoFile, Shipped}
  <2>1. rule' = rule
    BY <1>1 DEF Next, vars, LoadRule, SetDeltaTime, Step, StepDead, StepBegin, TickLeaf,
                TickGuard, LeafThrows, StepReturn
  <2> QED
    BY <1>1, <2>1 DEF AdriftInv
<1>2. CASE rule \in {NoFile, Shipped}
  <2>0. /\ IsBB(bb) /\ bb.vp.task = "none" /\ acted = {}
        /\ start = RuleRoot /\ at \in {"rest", "SUCCESS"}
    BY <1>2 DEF AdriftInv
  <2>1. ASSUME NEW f \in Files, LoadRule(f)
        PROVE  AdriftInv'
    BY <2>0, <2>1 DEF LoadRule, AdriftInv
  <2>2. ASSUME NEW dt \in DeltaTimes, SetDeltaTime(dt)
        PROVE  AdriftInv'
    <3>1. bb' = [bb EXCEPT !.dt = dt]
      BY <2>2 DEF SetDeltaTime
    <3>2. IsBB(bb') /\ bb'.vp = bb.vp
      BY <2>0, <3>1 DEF IsBB, Members
    <3> QED
      BY <1>2, <2>0, <2>2, <3>2 DEF SetDeltaTime, AdriftInv
  <2>3. ASSUME NEW mine \in Mine, NEW others \in Others, StepDead(mine, others)
        PROVE  AdriftInv'
    <3> DEFINE v == [task |-> "none", anchor |-> bb.me.loc, along |-> NoAxes, way |-> "ground"]
    <3>1. bb' = [bb EXCEPT !.throttle = 0, !.vp = v] /\ v.task = "none"
      BY <2>3 DEF StepDead
    <3> HIDE DEF v
    <3>2. IsBB(bb') /\ bb'.vp = v
      BY <2>0, <3>1 DEF IsBB, Members
    <3> QED
      BY <1>2, <2>0, <2>3, <3>1, <3>2 DEF StepDead, AdriftInv
  <2>4. ASSUME NEW mine \in Mine, NEW others \in Others, StepBegin(mine, others)
        PROVE  AdriftInv'
    <3>1. bb' = [bb EXCEPT !.me = Pose(mine), !.friendly = Mates(mine, others),
                           !.enemy = Foes(mine, others)]
      BY <2>4 DEF StepBegin
    <3>2. IsBB(bb') /\ bb'.vp = bb.vp
      BY <2>0, <3>1 DEF IsBB, Members
    <3>3. at' \in {"rest", "SUCCESS"}
      <4>1. CASE rule = NoFile
        BY <2>4, <4>1 DEF StepBegin
      <4>2. CASE rule = Shipped
        <5>1. at' = On("root", "enter")
          BY <1>0, <2>0, <2>4, <4>2 DEF StepBegin, GoOn, On, LoadedBare
        <5> QED
          BY <5>1, BareWalk
      <4> QED
        BY <1>2, <4>1, <4>2
    <3> QED
      BY <1>2, <2>0, <2>4, <3>2, <3>3 DEF StepBegin, AdriftInv
  <2>5. ~ TickLeaf /\ ~ TickGuard /\ ~ LeafThrows
    BY <2>0 DEF TickLeaf, TickGuard, LeafThrows, LoadedBare
  <2>6. CASE StepReturn
    BY <1>2, <2>0, <2>6 DEF StepReturn, AdriftInv
  <2>7. CASE UNCHANGED vars
    BY <2>7 DEF vars, AdriftInv
  <2> QED
    BY <2>1, <2>2, <2>3, <2>4, <2>5, <2>6, <2>7 DEF Next, Step
<1> QED
  BY <1>1, <1>2

\* As the loader attaches Rule.xml the pilot never steers: no task acts in any
\* Step(), whatever the host passes.
THEOREM LoadedBareNeverSteers == LoadedBare => (Spec => []Adrift)
<1> SUFFICES ASSUME LoadedBare PROVE Spec => []Adrift
  OBVIOUS
<1>1. Init => AdriftInv
  <2> SUFFICES ASSUME Init PROVE AdriftInv
    OBVIOUS
  <2>1. IsBB(bb) /\ bb.vp.task = "none"
    BY InitBoard DEF NoWaypoint
  <2> QED
    BY <2>1 DEF Init, AdriftInv
<1>2. AdriftInv /\ [Next]_vars => AdriftInv'
  BY NextAdrift
<1>3. AdriftInv => Adrift
  BY DEF AdriftInv, Adrift
<1> QED
  BY <1>1, <1>2, <1>3, PTL DEF Spec
=============================================================================
