-------------------------------- MODULE Pilot --------------------------------
(***************************************************************************)
(* UCPPBehaviorTree: the host calls Step() with what it knows of the own   *)
(* aircraft and of the others; Step() fills the CPPBlackBoard, ticks the   *)
(* combat rule and steers for the waypoint the rule has left there.        *)
(*                                                                         *)
(* All leaves of the rule are synchronous, so a tick of the tree is a walk *)
(* from leaf to leaf: at is the node whose own tick() runs next.  The walk *)
(* through Sequence and Fallback nodes (ControlNodes) is the function      *)
(* Walk.  A step of the model is the tick() of one leaf.                   *)
(***************************************************************************)
EXTENDS CombatNodes

CONSTANTS
  RuleNode,     \* the nodes of the rule
  RuleRoot,
  RuleKids,     \* [RuleNode -> Seq(RuleNode)], as the loader attached them
  RuleParent,
  Opens,        \* the line on which the element of a node begins,
  Closes,       \* and the one on which it ends
  Shipped,      \* the Rule.xml of the repository,
  Files,        \* ... which may be edited,
  Class,        \* ... and, per file, [RuleNode -> the class of each node]
  Ports,        \* [RuleNode -> the ports of a check]
  Start,        \* the zero location and attitude of the constructor
  Mine,         \* the PlaneInfos the host passes as MyInfo,
  Others,       \* ... as NumofOtherPlane and OthersInfo,
  DeltaTimes    \* ... to SetDeltaTime(), in milliseconds

Through(class) == IF class = "Sequence" THEN "SUCCESS" ELSE "FAILURE"
ControlClasses == {"Sequence", "Fallback"}
Guard          == "DECO_CounterAttackCheck"
Decided        == {"SUCCESS", "FAILURE"}
NoFile         == "none"

\* Elements are nested, and stand one below the other.
Nested(n, kids) ==
  /\ \A i \in DOMAIN kids : Opens[n] < Opens[kids[i]] /\ Closes[kids[i]] < Closes[n]
  /\ \A i, j \in DOMAIN kids : i < j => Closes[kids[i]] < Opens[kids[j]]

\* The array others[4] bounds what the host may pass.
PlaneInfos == [loc : Place, rot : Attitude, speed : Nat, team : Nat, hp : Int]

ASSUME RuleAssumption ==
  /\ RuleRoot \in RuleNode /\ RuleKids \in [RuleNode -> Seq(RuleNode)]
  /\ \A n \in RuleNode : \A i \in DOMAIN RuleKids[n] : RuleParent[RuleKids[n][i]] = n
  /\ \A n \in RuleNode \ {RuleRoot} :
        /\ RuleParent[n] \in RuleNode
        /\ \E i \in DOMAIN RuleKids[RuleParent[n]] : RuleKids[RuleParent[n]][i] = n
  /\ \A n \in RuleNode : /\ Opens[n] \in Nat /\ Closes[n] \in Nat /\ Opens[n] <= Closes[n]
                         /\ Closes[n] <= Closes[RuleRoot]
                         /\ Nested(n, RuleKids[n])
  /\ \A f \in Files : \A n \in RuleNode : Class[f][n] = Guard =>
        /\ Len(RuleKids[n]) <= 1
        /\ \A i \in DOMAIN RuleKids[n] :
             Class[f][RuleKids[n][i]] \notin {Guard} \cup ControlClasses
  /\ Shipped \in Files /\ NoFile \notin Files
  /\ Start \in Place \X Attitude
  /\ Mine \subseteq PlaneInfos
  /\ \A o \in Others : o \in Seq(PlaneInfos) /\ Len(o) <= 4
  /\ DeltaTimes \subseteq Nat

VARIABLES
  rule,    \* the file init() has loaded, or NoFile
  bb,      \* *BB, and the members of the leaves
  at,      \* the leaf that is ticked next, the verdict of the tree, or "rest"
  start,   \* where the next tick of the tree begins
  args,    \* the arguments of the Step() in progress
  out,     \* what the last Step() returned: VP, Throttle, and for the StickValue
           \* the location and attitude it is computed from and the waypoint
  acted,   \* the tasks that have set a waypoint in the last Step()
  threw    \* did the last Step() end in an exception?

vars == <<rule, bb, at, start, args, out, acted, threw>>

-----------------------------------------------------------------------------
\* The next sibling of n, if there is one.
Position(n)  == CHOOSE i \in DOMAIN RuleKids[RuleParent[n]] : RuleKids[RuleParent[n]][i] = n
HasNext(n)   == Position(n) < Len(RuleKids[RuleParent[n]])
NextOf(n)    == RuleKids[RuleParent[n]][Position(n) + 1]

\* A tick enters a node, or comes back from it with a result.
Points == [file : Files, node : RuleNode, says : Decided \cup {"enter"}]

\* It stops at a node with a tick() of its own, and when the root has decided.
Stops(x) == IF x.says = "enter" THEN Class[x.file][x.node] \notin ControlClasses
                                ELSE x.node = RuleRoot

GoesOn(x) == /\ Class[x.file][RuleParent[x.node]] \in ControlClasses
             /\ x.says = Through(Class[x.file][RuleParent[x.node]]) /\ HasNext(x.node)

\* From a control node into its first child, from a child to the next one or
\* back to the parent.  An empty Sequence returns SUCCESS, an empty Fallback
\* FAILURE.
Onward(x) ==
  IF x.says = "enter"
  THEN IF RuleKids[x.node] = <<>> THEN [x EXCEPT !.says = Through(Class[x.file][x.node])]
       ELSE [x EXCEPT !.node = RuleKids[x.node][1]]
  ELSE IF GoesOn(x) THEN [x EXCEPT !.node = NextOf(x.node), !.says = "enter"]
       ELSE [x EXCEPT !.node = RuleParent[x.node]]

Walk[x \in Points] == IF ~ Stops(x) THEN Walk[Onward(x)]
                      ELSE IF x.says = "enter" THEN x.node ELSE x.says

ClassOf(n)  == Class[rule][n]
GoOn(n, s)  == Walk[[file |-> rule, node |-> n, says |-> s]]

NoOutput == [vp |-> NoWaypoint, throttle |-> 0, from |-> Start, to |-> NoWaypoint,
             rudder |-> 0]
NoArgs   == [mine |-> <<>>, others |-> <<>>]

Init ==
  /\ rule = NoFile
  /\ bb \in BlackBoards(Start[1], Start[2])
  /\ at = "rest" /\ start = RuleRoot
  /\ args = NoArgs /\ out = NoOutput
  /\ acted = {} /\ threw = FALSE

\* init(): a second call throws at the first registerNodeType() and changes
\* nothing.
LoadRule(f) ==
  /\ at = "rest" /\ rule = NoFile
  /\ rule' = f
  /\ UNCHANGED <<bb, at, start, args, out, acted, threw>>

SetDeltaTime(dt) ==
  /\ at = "rest"
  /\ bb' = [bb EXCEPT !.dt = dt]
  /\ UNCHANGED <<rule, at, start, args, out, acted, threw>>

\* Step() without hit points: down, below where the last Step() with hit
\* points was.  The caller's VP and Throttle are not written.
StepDeadEager(mine, others) ==
  /\ at = "rest" /\ mine.hp <= 0
  /\ bb' = [bb EXCEPT !.me = Pose(mine), !.throttle = 0,
                      !.vp = [task |-> "none", anchor |-> mine.loc,
                              along |-> NoAxes, way |-> "ground"]]
  /\ out' = [out EXCEPT !.from = <<mine.loc, mine.rot>>, !.to = bb'.vp, !.rudder = 100]
  /\ acted' = {} /\ threw' = FALSE
  /\ UNCHANGED <<rule, at, start, args>>

StepDead(mine, others) ==
  /\ at = "rest" /\ mine.hp <= 0
  /\ bb' = [bb EXCEPT !.throttle = 0,
                      !.vp = [task |-> "none", anchor |-> bb.me.loc,
                              along |-> NoAxes, way |-> "ground"]]
  /\ out' = [out EXCEPT !.from = <<bb.me.loc, bb.me.rot>>, !.to = bb'.vp, !.rudder = 100]
  /\ acted' = {} /\ threw' = FALSE
  /\ UNCHANGED <<rule, at, start, args>>

\* Step() with hit points, up to tickRoot(): the own aircraft comes first in
\* Friendly, the living others are split by team, in the order given.
Alive(o) == o.hp > 0

\* The elements of s at the positions in I, in the order of s.
Pick(s, I) ==
  [k \in 1 .. Cardinality(I) |->
     s[CHOOSE i \in I : Cardinality({j \in I : j < i}) = k - 1]]

Mates(mine, others) ==
  <<mine>> \o Pick(others, {i \in DOMAIN others : Alive(others[i]) /\ others[i].team = mine.team})
FoesSilent(mine, others) ==
  Pick(others, {i \in DOMAIN others : others[i].team # mine.team})
Foes(mine, others) ==
  Pick(others, {i \in DOMAIN others : Alive(others[i]) /\ others[i].team # mine.team})

\* tickRoot() of a tree that was not loaded throws.
StepBegin(mine, others) ==
  /\ at = "rest" /\ mine.hp > 0
  /\ bb' = [bb EXCEPT !.me = Pose(mine), !.friendly = Mates(mine, others),
                      !.enemy = Foes(mine, others)]
  /\ at' = IF rule = NoFile THEN "rest" ELSE GoOn(start, "enter")
  /\ threw' = (rule = NoFile)
  /\ args' = IF rule = NoFile THEN NoArgs ELSE [mine |-> mine, others |-> others]
  /\ acted' = {}
  /\ UNCHANGED <<rule, start, out>>

\* tick() of the leaf at.  A SyncActionNode that returns RUNNING makes
\* executeTick() throw: the frames are left, every control node on the way
\* keeps its index, and the next tick of the tree comes straight back.
Ticks(n) ==
  IF ClassOf(n) = Guard THEN Fail(bb) ELSE TickOf(ClassOf(n), Ports[n], bb)

\* A check that guards a leaf is asked again when its leaf is to be resumed.
Resumption(n) ==
  IF n # RuleRoot /\ ClassOf(RuleParent[n]) = Guard THEN RuleParent[n] ELSE n

TickLeaf ==
  /\ at \in RuleNode
  /\ ~ (ClassOf(at) = Guard /\ bb.counter)
  /\ \E o \in Ticks(at) :
       /\ o.s # "RUNNING"
       /\ bb' = o.b
       /\ at' = GoOn(at, o.s)
       /\ acted' = acted \cup IF o.s = "SUCCESS" THEN {ClassOf(at)} \cap Tasks ELSE {}
  /\ UNCHANGED <<rule, start, args, out, threw>>

\* DECO_CounterAttackCheck passes the tick on to its child.
TickGuard ==
  /\ at \in RuleNode /\ ClassOf(at) = Guard /\ bb.counter
  /\ RuleKids[at] # <<>>
  /\ at' = GoOn(RuleKids[at][1], "enter")
  /\ UNCHANGED <<rule, bb, start, args, out, acted, threw>>

LeafThrows ==
  /\ at \in RuleNode
  /\ \E o \in Ticks(at) :
       /\ o.s = "RUNNING"
       /\ bb' = o.b
  /\ start' = Resumption(at) /\ at' = "rest" /\ threw' = TRUE
  /\ args' = NoArgs /\ acted' = {}
  /\ UNCHANGED <<rule, out>>

\* The tree has decided.  RunCPPBT() hands over the waypoint, and Step() sets
\* the throttle whatever the rule has set.
StepReturn ==
  /\ at \in Decided
  /\ out' = [vp |-> bb.vp, throttle |-> 1, from |-> <<bb.me.loc, bb.me.rot>>, to |-> bb.vp,
             rudder |-> 0]
  /\ at' = "rest" /\ start' = RuleRoot /\ threw' = FALSE
  /\ args' = NoArgs
  /\ UNCHANGED <<rule, bb, acted>>

Step == \E mine \in Mine, others \in Others :
          StepDead(mine, others) \/ StepBegin(mine, others)

Next == (\E f \in Files : LoadRule(f)) \/ (\E dt \in DeltaTimes : SetDeltaTime(dt)) \/ Step
        \/ TickLeaf \/ TickGuard \/ LeafThrows \/ StepReturn

Spec == Init /\ [][Next]_vars

-----------------------------------------------------------------------------
Poses == [loc : Place, rot : Attitude, speed : Nat]
WaypointOK(v) ==
  /\ v.task \in Tasks \cup {"none"} /\ v.anchor \in Place \cup {"origin"}
  /\ v.along \in Attitude \cup {NoAxes}

\* The blackboard holds the poses, lists and ranges its members have in
\* CPPBlackBoard.h, and the walk is at a leaf, at a verdict, or at rest.
TypeOK ==
  /\ rule \in Files \cup {NoFile} /\ threw \in BOOLEAN
  /\ at \in RuleNode \cup Decided \cup {"rest"} /\ start \in RuleNode
  /\ bb.me \in Poses /\ bb.tgt \in Poses
  /\ {bb.myAxes, bb.tgtAxes} \subseteq Attitude \cup {NoAxes}
  /\ bb.distance \in Nat /\ {bb.los, bb.losT, bb.ao, bb.aa} \subseteq Nat \cup {NaN}
  /\ bb.sight \in BOOLEAN /\ bb.counter \in BOOLEAN /\ bb.energy \in -1 .. 1
  /\ bb.bfm \in Modes /\ bb.turn \in Turns /\ bb.throttle \in {0, 1}
  /\ bb.friendly \in Seq(PlaneInfos) /\ bb.enemy \in Seq(PlaneInfos)
  /\ bb.headings \in Seq(-180 .. 180) /\ bb.lead \in Nat
  /\ WaypointOK(bb.vp) /\ WaypointOK(out.vp) /\ WaypointOK(out.to) /\ acted \subseteq Tasks

\* Is the node at, or the child it guards, a check or a task rather than a
\* service?
PastServices == at \in Decided \/ (at \in RuleNode /\ ClassOf(at) \notin Services)
Resumed      == start # RuleRoot

\* When the first check of a tick is reached, every quantity it may read has
\* been computed from the poses of this very Step(): no service is ticked
\* before the one it depends on (Rule.xml:18-21).
PictureFresh ==
  PastServices /\ ~ Resumed =>
    /\ bb.myAxes = bb.me.rot /\ bb.tgtAxes = bb.tgt.rot
    /\ bb.distance = DistanceOf[<<bb.me.loc, bb.tgt.loc>>]
    /\ bb.los = LosFrom(bb.me, bb.tgt) /\ bb.losT = LosFrom(bb.tgt, bb.me)
    /\ bb.sight = Leq(bb.los, InSight)
    /\ bb.ao = AngleOff(bb.me.rot, bb.tgt.rot) /\ bb.aa = Aspect(bb)
    /\ bb.energy = Compare(Energy(bb.me), Energy(bb.tgt))

\* A task acts only inside the window of its engagement mode, and the mode on
\* the blackboard is then the mode it belongs to; the mode itself is kept from
\* tick to tick and never cleared.
Belongs(task, b) ==
  CASE task \in {"Task_ScissorBreakTurn", "Task_ScissorRollBack"} ->
         b.bfm = "SCISSORS" /\ ScissorsWindow(b)
    [] task \in {"Task_OneCircleAttack", "Task_TwoCircleAttack"} ->
         b.bfm = "HABFM" /\ HeadOnWindow(b)
    [] task \in {"Task_AntiOvershoot", "Task_LeadPursuit"} ->
         b.bfm = "OBFM" /\ OffenceWindow(b)
    [] task \in {"Task_RollReverseAttack", "Task_CounterTurn", "Task_EvasiveRollOrScissors"} ->
         b.bfm = "DBFM" /\ DefenceWindow(b)
    [] OTHER -> TRUE

\* The counter-attack is flown only on a decision of this tick: the flag on
\* the blackboard is never one that an earlier engagement has left there.
ActsInWindow ==
  at \in Decided /\ rule = Shipped =>
    /\ \A task \in acted : Belongs(task, bb)
    /\ "Task_RollReverseAttack" \in acted => CounterWindow(bb)

\* Every Step() with hit points sets exactly one waypoint, made of the pose of
\* this Step() and of the enemy the rule hunts: the first of OthersInfo that is
\* alive and of the other team.  A wreck is never followed as long as an enemy
\* lives, and the target of an earlier Step() only when none does.
SteersByNow ==
  at \in Decided /\ rule = Shipped =>
    /\ at = "SUCCESS" /\ Cardinality(acted) = 1 /\ {bb.vp.task} = acted
    /\ bb.vp.anchor \in {bb.me.loc, bb.tgt.loc}
    /\ bb.vp.along \in {bb.me.rot, bb.tgt.rot, NoAxes}
    /\ bb.me = Pose(args.mine)
    /\ LET foe(i) == Alive(args.others[i]) /\ args.others[i].team # args.mine.team
           foes   == {i \in DOMAIN args.others : foe(i)}
       IN \A i \in foes :
            (\A j \in foes : i <= j) => bb.tgt = Pose(args.others[i])

\* Where the aircraft was, and how it stood, in the last Step() it had hit
\* points in: Friendly begins with what the host has passed for it.
LastFlown == IF bb.friendly = <<>> THEN Start
             ELSE <<bb.friendly[1].loc, bb.friendly[1].rot>>

\* Alive, the controller steers from the pose the host has passed in this
\* Step(), also when the tick was resumed after an exception, and for the
\* waypoint the caller gets; when a task has acted in this tick, that waypoint
\* is its own and starts from that same pose or from the target.  Dead, it
\* steers from the last pose flown to the ground below that same place, however
\* often and wherever the wreck is reported (CPPBehaviorTree.cpp:141-157).
StickMatches ==
  at = "rest" /\ out # NoOutput /\ ~ threw =>
    /\ out.from = LastFlown
    /\ out.to = bb.vp
    /\ \/ out.rudder = 100 /\ out.to.way = "ground" /\ out.to.anchor = LastFlown[1]
       \/ /\ out.rudder = 0 /\ out.to = out.vp
          /\ acted # {} => /\ out.to.task \in acted
                           /\ out.to.anchor \in {LastFlown[1], bb.tgt.loc}

=============================================================================
