------------------------------- MODULE TreeLog ------------------------------
(***************************************************************************)
(* The loggers of a tree.  A StatusChangeLogger subscribes to the status   *)
(* of every node it visits; setStatus() writes the status under the mutex  *)
(* of the node and then, without it, calls the subscribers one by one; a   *)
(* logger keeps a snapshot of the tree, which CreateFlatbuffersBehavior-   *)
(* Tree writes node after node, and after it the transitions it is told    *)
(* of.  The main thread makes and destroys loggers and sets any status, a  *)
(* node with a thread of its own sets that of its own.  Which status a     *)
(* node gets is BehaviorTree's subject; here it may get any.               *)
(***************************************************************************)
EXTENDS Serialization, FiniteSets

CONSTANTS
  NumNodes,        \* the nodes of the tree, 1 .. NumNodes, as constructed
  Class,           \* node -> "control", "decorator" or "leaf"
  Name,            \* node -> instance name
  Registration,    \* node -> registration name
  Children,        \* node -> its children; the first is the root of the tree
  InputPorts,      \* node -> the ports of its configuration, <<name, value>>,
  OutputPorts,     \*   in the order of the unordered map that holds them
  Async,           \* the leaves with a thread of their own
  Manifests,       \* registration names, types and ports, in the order of a map
  Text(_),         \* the bytes of a name
  Backwards,       \* arguments are evaluated from last to first in this build
  FirstUid,        \* what getUID() gives the first node
  Loggers,
  MaxChanges,      \* bound: how often statuses change
  MaxSettings,     \* bound: how often the switches of the loggers are set
  Lapse            \* microseconds between two changes

Nodes    == 1 .. NumNodes
Root     == 1
Main     == 0                          \* the thread that ticks the tree
Threads  == {Main} \cup Async
Statuses == {"IDLE", "RUNNING", "SUCCESS", "FAILURE"}

ASSUME TreeAssumption ==
  /\ Async \subseteq Nodes
  /\ \A n \in Nodes : Class[n] = "decorator" => Len(Children[n]) = 1
  /\ NumNodes \in Nat \ {0} /\ NumNodes <= 65536
  /\ FirstUid \in Nat /\ FirstUid <= 65535
  /\ Backwards \in BOOLEAN

\* The clock moves between two changes, and its seconds fit in 31 bits.
ASSUME ClockAssumption ==
  /\ Lapse \in Nat \ {0} /\ MaxChanges \in Nat
  /\ (MaxChanges * Lapse) \div Second <= 2147483647

\* getUID: a counter of 16 bits.
Uid(n) == (FirstUid + n - 1) % 65536

-----------------------------------------------------------------------------
VARIABLES
  status,          \* status_ of each node
  subscribers,     \* the weak pointers of state_change_signal_
  logger,          \* the loggers, with what their callback has written
  call,            \* thread -> the notification it is in the middle of
  session,         \* the snapshot being written
  builder,         \* the builder of the snapshots, kept from one to the next
  changes          \* changes so far: the clock

vars == <<status, subscribers, logger, call, session, builder, changes>>

NoCall    == [node |-> 0]
NoSession == [logger |-> 0]
Absent    == [life |-> "none", enabled |-> TRUE, toIdle |-> TRUE, kind |-> "ABSOLUTE",
              first |-> 0, log |-> <<>>, tree |-> <<>>, told |-> TRUE, settings |-> 0]

Now == changes * Lapse
MainIsFree == call[Main] = NoCall /\ session = NoSession

Init ==
  /\ status = [n \in Nodes |-> "IDLE"]
  /\ subscribers = [n \in Nodes |-> <<>>]
  /\ logger = [l \in Loggers |-> Absent]
  /\ call = [t \in Threads |-> NoCall]
  /\ session = NoSession
  /\ builder = NewBuilder
  /\ changes = 0

-----------------------------------------------------------------------------
\* applyRecursiveVisitor finds the children of a node by its name.
ControlNames   == {"Sequence", "Fallback", "SequenceStar"}
DecoratorNames == {"Decorator", "Inverter", "Repeat", "RetryUntilSuccesful", "SubTree", "Timeout"}
Below(n) == IF Name[n] \in ControlNames \cup DecoratorNames THEN Children[n] ELSE <<>>

Preorder[n \in Nodes] ==
  <<n>> \o FlattenSeq([i \in DOMAIN Below(n) |-> Preorder[Below(n)[i]]])
Visited == Preorder[Root]

\* The visitor goes from a node to its children only.
ASSUME VisitAssumption == Range(Visited) \subseteq Nodes

\* setStatus: the status is changed under the mutex, and only then is the time
\* read and the signal raised.  A status set again is not told.
SetStatus(t, n, s) ==
  /\ changes < MaxChanges
  /\ call[t] = NoCall /\ (t = Main => session = NoSession)
  /\ t \in {Main, n}
  /\ s # status[n]
  /\ status' = [status EXCEPT ![n] = s]
  /\ changes' = changes + 1
  /\ call' = [call EXCEPT ![t] = [node |-> n, prev |-> status[n], status |-> s,
                                  usec |-> changes' * Lapse, at |-> 1]]
  /\ UNCHANGED <<subscribers, logger, session, builder>>

\* A callback that takes "or" for "and": it never keeps a transition to IDLE.
CallbackSwapped(g, c) ==
  LET usec == IF g.kind = "ABSOLUTE" THEN c.usec ELSE c.usec - g.first
  IN IF g.enabled /\ c.status # "IDLE" /\ g.toIdle
     THEN [g EXCEPT !.log = Append(@, SerializeTransition(Uid(c.node), usec, c.prev, c.status))]
     ELSE g

\* The subscriber of StatusChangeLogger, and a callback that keeps what
\* SerializeTransition makes of what it is told.
Callback(g, c) ==
  LET usec == IF g.kind = "ABSOLUTE" THEN c.usec ELSE c.usec - g.first
  IN IF g.enabled /\ (c.status # "IDLE" \/ g.toIdle)
     THEN [g EXCEPT !.log = Append(@, SerializeTransition(Uid(c.node), usec, c.prev, c.status))]
     ELSE g

\* One round of Signal::notify: a subscriber that has expired is erased, and
\* the next one takes its place.
Told(c, gone) == IF gone THEN c ELSE [c EXCEPT !.at = @ + 1]

Notify(t) ==
  /\ call[t] # NoCall
  /\ LET c == call[t]
         subs == subscribers[c.node]
     IN /\ c.at <= Len(subs)
        /\ LET l == subs[c.at]
               gone == logger[l].life = "gone"
           IN /\ subscribers' = IF gone THEN [subscribers EXCEPT ![c.node] = RemoveAt(@, c.at)]
                                ELSE subscribers
              /\ logger' = IF gone THEN logger ELSE [logger EXCEPT ![l] = Callback(@, c)]
              /\ call' = [call EXCEPT ![t] = Told(c, gone)]
  /\ UNCHANGED <<status, session, builder, changes>>

NotifyReturn(t) ==
  /\ call[t] # NoCall
  /\ call[t].at > Len(subscribers[call[t].node])
  /\ call' = [call EXCEPT ![t] = NoCall]
  /\ UNCHANGED <<status, subscribers, logger, session, builder, changes>>

-----------------------------------------------------------------------------
\* Arguments that write to the builder are evaluated in an order the compiler
\* chooses.
String(s)    == [kind |-> "string", of |-> Text(s)]
Uids(ns)     == [kind |-> "uids", of |-> [i \in DOMAIN ns |-> Uid(ns[i])]]
Tables(offs) == [kind |-> "tables", of |-> offs]

Argument(b, a) ==
  CASE a.kind = "string" -> CreateString(b, a.of)
    [] a.kind = "uids"   -> CreateVector(b, a.of, 2)
    [] a.kind = "tables" -> CreateVectorOfOffsets(b, a.of)

\* What stays in its place when the build evaluates forwards.
InOrder(seq) == IF Backwards THEN Reverse(seq) ELSE seq
Arguments(b, as) == [Each(b, InOrder(as), Argument) EXCEPT !.offs = InOrder(@)]

WritePort(b, port) == CreatePortConfigDirect(b, Text(port[1]), Text(port[2]))

\* The visitor of CreateFlatbuffersBehaviorTree, for the node n.
WriteNode(b, n) ==
  With(Each(b, InputPorts[n] \o OutputPorts[n], WritePort), LAMBDA p :
    With(Arguments(p.b, <<Uids(Children[n]), String(Name[n]), String(Registration[n]),
                          Tables(p.offs)>>), LAMBDA a :
      CreateTreeNode(a.b, Uid(n), a.offs[1], StatusCode(status[n]), a.offs[2], a.offs[3],
                     a.offs[4])))

WritePortModel(b, port) ==
  With(Arguments(b, <<String(port.name), String(port.type), String(port.description)>>),
       LAMBDA a : CreatePortModel(a.b, a.offs[1], DirectionCode(port.direction), a.offs[2],
                                  a.offs[3]))

WriteModel(b, m) ==
  With(Each(b, m.ports, WritePortModel), LAMBDA p :
    With(Arguments(p.b, <<String(m.registration), Tables(p.offs)>>), LAMBDA a :
      CreateNodeModel(a.b, a.offs[1], TypeCode(m.type), a.offs[2])))

WriteTree(b, nodes, models) ==
  With(Arguments(b, <<Tables(nodes), Tables(models)>>), LAMBDA a :
    With(CreateBehaviorTree(a.b, Uid(Root), a.offs[1], a.offs[2]), LAMBDA t : Finish(t.b, t.off)))

-----------------------------------------------------------------------------
\* The constructor of a logger: it subscribes to the nodes it visits, and the
\* constructor of the class derived from it takes a snapshot.
MakeLogger(l) ==
  /\ logger[l].life = "none" /\ MainIsFree
  /\ logger' = [logger EXCEPT ![l].life = "made", ![l].first = Now]
  /\ subscribers' = [n \in Nodes |-> IF n \in Range(Visited) THEN Append(subscribers[n], l)
                                     ELSE subscribers[n]]
  /\ session' = [logger |-> l, left |-> Visited, nodes |-> <<>>, models |-> <<>>, done |-> FALSE]
  /\ UNCHANGED <<status, call, builder, changes>>

\* One call of the visitor.
SerializeNode ==
  /\ session # NoSession /\ ~ session.done /\ session.left # <<>>
  /\ \E m \in {WriteNode(builder, Head(session.left))} :
        /\ builder' = m.b
        /\ session' = [session EXCEPT !.left = Tail(@), !.nodes = Append(@, m.off)]
  /\ UNCHANGED <<status, subscribers, logger, call, changes>>

\* One round of the loop over the manifests.
SerializeModel ==
  /\ session # NoSession /\ ~ session.done /\ session.left = <<>>
  /\ Len(session.models) < Len(Manifests)
  /\ \E m \in {WriteModel(builder, Manifests[Len(session.models) + 1])} :
        /\ builder' = m.b
        /\ session' = [session EXCEPT !.models = Append(@, m.off)]
  /\ UNCHANGED <<status, subscribers, logger, call, changes>>

SerializeEnd ==
  /\ session # NoSession /\ ~ session.done /\ session.left = <<>>
  /\ Len(session.models) = Len(Manifests)
  /\ builder' = WriteTree(builder, session.nodes, session.models)
  /\ session' = [session EXCEPT !.done = TRUE]
  /\ UNCHANGED <<status, subscribers, logger, call, changes>>

\* The logger keeps the buffer, of which later only the statuses matter: uid ->
\* status, as a reader of the log has them.  The builder is made ready for the
\* next one.
StatusesOf(buf) ==
  With(Range(NodesOf(buf)), LAMBDA nodes :
    [u \in {r.uid : r \in nodes} |-> (CHOOSE r \in nodes : r.uid = u).status])

KeepTree ==
  /\ session # NoSession /\ session.done
  /\ logger' = [logger EXCEPT ![session.logger].tree = StatusesOf(builder.back)]
  /\ builder' \in {Clear(builder), Release(builder)}
  /\ session' = NoSession
  /\ UNCHANGED <<status, subscribers, call, changes>>

-----------------------------------------------------------------------------
\* The switches of a logger, and its end: its subscribers expire.
Set(l, g) ==
  /\ logger[l].life = "made" /\ MainIsFree
  /\ g # logger[l] /\ \A m \in Loggers : logger[m].settings < MaxSettings
  /\ logger' = [logger EXCEPT ![l] = [g EXCEPT !.settings = @ + 1,
                                               !.told = @ /\ g.enabled /\ g.toIdle]]
  /\ UNCHANGED <<status, subscribers, call, session, builder, changes>>

SetEnabled(l) == \E on \in BOOLEAN : Set(l, [logger[l] EXCEPT !.enabled = on])
EnableTransitionToIdle(l) == \E on \in BOOLEAN : Set(l, [logger[l] EXCEPT !.toIdle = on])
SeTimestampType(l) ==
  \E kind \in {"ABSOLUTE", "RELATIVE"} : Set(l, [logger[l] EXCEPT !.kind = kind])

DestroyLogger(l) ==
  /\ logger[l].life = "made" /\ MainIsFree
  /\ logger' = [logger EXCEPT ![l] = [Absent EXCEPT !.life = "gone"]]
  /\ UNCHANGED <<status, subscribers, call, session, builder, changes>>

Next ==
  \/ \E t \in Threads, n \in Nodes, s \in Statuses : SetStatus(t, n, s)
  \/ \E t \in Threads : Notify(t) \/ NotifyReturn(t)
  \/ \E l \in Loggers : MakeLogger(l) \/ DestroyLogger(l)
  \/ SerializeNode \/ SerializeModel \/ SerializeEnd \/ KeepTree
  \/ \E l \in Loggers : SetEnabled(l) \/ EnableTransitionToIdle(l) \/ SeTimestampType(l)

Spec == Init /\ [][Next]_vars

-----------------------------------------------------------------------------
\* A finished snapshot is one the library itself accepts: no assertion of the
\* builder failed on the way, whatever it grew from and whatever it was used for
\* before, and every read the verifier checks stays inside it, aligned.
Sound ==
  /\ builder.ok
  /\ session # NoSession /\ session.done =>
       /\ VerifyBehaviorTreeBuffer(builder.back)
       /\ Aligned(Size(builder), builder.minalign)

\* What is read from a finished snapshot is the tree: each node with its uid, its
\* status, its children, names and ports, each manifest with its ports, whichever tables
\* share a vtable and whichever fields are left out as defaults; and the start of
\* the buffer is found again from its root.
SameNode(r, n) ==
  LET ports == InputPorts[n] \o OutputPorts[n]
  IN /\ r.uid = Uid(n) /\ r.children = [i \in DOMAIN Children[n] |-> Uid(Children[n][i])]
     /\ r.instance = Text(Name[n]) /\ r.registration = Text(Registration[n])
     /\ r.ports = [i \in DOMAIN ports |-> <<Text(ports[i][1]), Text(ports[i][2])>>]
     /\ n \notin Async => r.status = status[n]

SameModel(r, m) ==
  /\ r.registration = Text(m.registration) /\ r.type = m.type
  /\ r.ports = [i \in DOMAIN m.ports |->
                  [m.ports[i] EXCEPT !.name = Text(@), !.type = Text(@), !.description = Text(@)]]

ReadsBack ==
  session # NoSession /\ session.done =>
    LET buf == builder.back
        nodes == NodesOf(buf)
        models == ModelsOf(buf)
    IN /\ RootUidOf(buf) = Uid(Root)
       /\ DOMAIN nodes = DOMAIN Visited
       /\ \A i \in DOMAIN Visited : SameNode(nodes[i], Visited[i])
       /\ Len(models) = Len(Manifests)
       /\ \A i \in DOMAIN Manifests : SameModel(models[i], Manifests[i])
       /\ BufferStart(buf, GetRoot(buf)) = 0

\* The transitions a logger has kept of a node, by their places in its log.
Transition(l, i) == ReadTransition(logger[l].log[i])
Kept(l, n) == {i \in DOMAIN logger[l].log : Transition(l, i).uid = Uid(n)}

\* The nodes no other thread sets the status of.
Followed == Range(Visited) \ Async

\* A log replays: the status of a node in the snapshot, or in the last transition
\* kept of it, is the status it has unless it is just being told of, for a logger
\* that was never told to leave transitions out.  It joins setStatus, the signal
\* with its expired subscribers, the snapshot and the twelve bytes.
ReplayTells ==
  \A l \in Loggers : logger[l].told /\ logger[l].tree # <<>> =>
    \A n \in Followed : call[Main].node # n =>
      /\ Kept(l, n) = {} => status[n] = logger[l].tree[Uid(n)]
      /\ \A i \in Kept(l, n) :
           (\A j \in Kept(l, n) : j <= i) => status[n] = Transition(l, i).status

\* The transitions kept of a node are a chain, told once and in order: each one
\* changes the status, starts where the one before it ended, and is later.  That
\* the chain has no end missing is ReplayTells.
Chained ==
  \A l \in Loggers : logger[l].told =>
    \A n \in Followed : \A j \in Kept(l, n) :
      /\ Transition(l, j).prev # Transition(l, j).status
      /\ \A i \in Kept(l, n) : i < j /\ (\A k \in Kept(l, n) : k <= i \/ k >= j) =>
           /\ Transition(l, j).prev = Transition(l, i).status
           /\ logger[l].settings = 0 => Transition(l, j).usec > Transition(l, i).usec

=============================================================================
