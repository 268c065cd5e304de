--------------------------- MODULE Serialization ----------------------------
(***************************************************************************)
(* The schema of the loggers: the tables of BT_logger_generated.h, each    *)
(* with what creates it, what verifies it and what reads it back, and the  *)
(* twelve bytes of a transition.  Texts are sequences of bytes; a vtable   *)
(* slot has the number the generated code gives it.                        *)
(***************************************************************************)
EXTENDS FlatBuffer

Codes(names) == [i \in 0 .. Len(names) - 1 |-> names[i + 1]]
CodeOf(codes, name) == CHOOSE c \in DOMAIN codes : codes[c] = name

\* The enumerations, by their numbers in the buffer; convertToFlatbuffers is
\* the number of a name, and Undefined what it makes of any other.
NodeStatuses   == Codes(<<"IDLE", "RUNNING", "SUCCESS", "FAILURE">>)
NodeTypes      == Codes(<<"UNDEFINED", "ACTION", "CONDITION", "CONTROL", "DECORATOR", "SUBTREE">>)
PortDirections == Codes(<<"INPUT", "OUTPUT", "INOUT">>)

StatusCode(s)    == CodeOf(NodeStatuses, s)
TypeCode(t)      == CodeOf(NodeTypes, t)
DirectionCode(d) == CodeOf(PortDirections, d)

-----------------------------------------------------------------------------
\* The tables a vector refers to, as Read reads them.
ReadAll(Read(_, _), buf, v) ==
  With(Pointees(buf, v), LAMBDA ts : [i \in DOMAIN ts |-> Read(buf, ts[i])])

\* PortModel: name 4, direction 6, type 8, description 10.
CreatePortModel(b, name, direction, type, description) ==
  CreateTable(b, <<Refer(10, description), Refer(8, type), Refer(4, name),
                   Field(6, direction, 1)>>, {})

VerifyPortModel(buf, t) ==
  /\ TableStarts(buf, t)
  /\ StringField(buf, t, 4, FALSE)
  /\ FieldFits(buf, t, 6, 1)
  /\ StringField(buf, t, 8, FALSE)
  /\ StringField(buf, t, 10, FALSE)

ReadPortModel(buf, t) ==
  [name |-> GetString(buf, GetPointer(buf, t, 4)),
   direction |-> PortDirections[GetField(buf, t, 6, 1, 0)],
   type |-> GetString(buf, GetPointer(buf, t, 8)),
   description |-> GetString(buf, GetPointer(buf, t, 10))]

\* PortConfig: name 4, remap 6.
CreatePortConfig(b, name, remap) == CreateTable(b, <<Refer(6, remap), Refer(4, name)>>, {})

CreatePortConfigDirect(b, name, remap) ==
  With(Each(b, <<name, remap>>, CreateString),
       LAMBDA a : CreatePortConfig(a.b, a.offs[1], a.offs[2]))

VerifyPortConfig(buf, t) ==
  /\ TableStarts(buf, t)
  /\ StringField(buf, t, 4, FALSE)
  /\ StringField(buf, t, 6, FALSE)

ReadPortConfig(buf, t) ==
  <<GetString(buf, GetPointer(buf, t, 4)), GetString(buf, GetPointer(buf, t, 6))>>

-----------------------------------------------------------------------------
\* TreeNode: uid 4, children 6, status 8, instance name 10, registration name
\* 12, ports 14; both names are required.
CreateTreeNode(b, uid, children, status, instance, registration, ports) ==
  CreateTable(b, <<Refer(14, ports), Refer(12, registration), Refer(10, instance),
                   Refer(6, children), Field(4, uid, 2), Field(8, status, 1)>>, {10, 12})

VerifyTreeNode(buf, t) ==
  /\ TableStarts(buf, t)
  /\ FieldFits(buf, t, 4, 2)
  /\ VectorField(buf, t, 6, 2)
  /\ FieldFits(buf, t, 8, 1)
  /\ StringField(buf, t, 10, TRUE)
  /\ StringField(buf, t, 12, TRUE)
  /\ TablesField(buf, t, 14, VerifyPortConfig)

ReadTreeNode(buf, t) ==
  [uid |-> GetField(buf, t, 4, 2, 0),
   children |-> Scalars(buf, GetPointer(buf, t, 6), 2),
   status |-> NodeStatuses[GetField(buf, t, 8, 1, 0)],
   instance |-> GetString(buf, GetPointer(buf, t, 10)),
   registration |-> GetString(buf, GetPointer(buf, t, 12)),
   ports |-> ReadAll(ReadPortConfig, buf, GetPointer(buf, t, 14))]

\* NodeModel: registration name 4, required; type 6, ports 8.
CreateNodeModel(b, registration, type, ports) ==
  CreateTable(b, <<Refer(8, ports), Refer(4, registration), Field(6, type, 1)>>, {4})

VerifyNodeModel(buf, t) ==
  /\ TableStarts(buf, t)
  /\ StringField(buf, t, 4, TRUE)
  /\ FieldFits(buf, t, 6, 1)
  /\ TablesField(buf, t, 8, VerifyPortModel)

ReadNodeModel(buf, t) ==
  [registration |-> GetString(buf, GetPointer(buf, t, 4)),
   type |-> NodeTypes[GetField(buf, t, 6, 1, 0)],
   ports |-> ReadAll(ReadPortModel, buf, GetPointer(buf, t, 8))]

-----------------------------------------------------------------------------
\* BehaviorTree, the root: uid of the root node 4, nodes 6, models 8.
CreateBehaviorTree(b, root, nodes, models) ==
  CreateTable(b, <<Refer(8, models), Refer(6, nodes), Field(4, root, 2)>>, {})

VerifyBehaviorTree(buf, t) ==
  /\ TableStarts(buf, t)
  /\ FieldFits(buf, t, 4, 2)
  /\ TablesField(buf, t, 6, VerifyTreeNode)
  /\ TablesField(buf, t, 8, VerifyNodeModel)

VerifyBehaviorTreeBuffer(buf) == RootFits(buf, VerifyBehaviorTree)

NodesOf(buf)  == ReadAll(ReadTreeNode, buf, GetPointer(buf, GetRoot(buf), 6))
ModelsOf(buf) == ReadAll(ReadNodeModel, buf, GetPointer(buf, GetRoot(buf), 8))

RootUidOf(buf) == GetField(buf, GetRoot(buf), 4, 2, 0)

-----------------------------------------------------------------------------
Second == 1000000            \* microseconds

\* Division and remainder of C++: a relative time may be negative.
WholeSeconds(usec) == IF usec < 0 THEN -((-usec) \div Second) ELSE usec \div Second
Micros(usec)       == usec - Second * WholeSeconds(usec)

\* WriteScalar of n bytes at the place p of a buffer.
Put(buf, p, v, n) ==
  [i \in DOMAIN buf |-> IF i \in p + 1 .. p + n THEN ByteOf(v, i - p) ELSE buf[i]]

Blank == [i \in 1 .. 12 |-> 0]

\* The statuses stored before the microseconds.
SerializeTransitionSwapped(uid, usec, prev, status) ==
  LET seconds  == Put(Blank, 0, WholeSeconds(usec), 8)
      statuses == Put(Put(seconds, 10, StatusCode(prev), 1), 11, StatusCode(status), 1)
  IN Put(Put(statuses, 4, Micros(usec), 8), 8, uid, 2)

\* SerializeTransition: two 64-bit stores, the second over the high half of the
\* first, then the uid and the two statuses over the high half of the second.
SerializeTransition(uid, usec, prev, status) ==
  LET seconds == Put(Blank, 0, WholeSeconds(usec), 8)
      micros  == Put(seconds, 4, Micros(usec), 8)
      node    == Put(micros, 8, uid, 2)
  IN Put(Put(node, 10, StatusCode(prev), 1), 11, StatusCode(status), 1)

\* The same twelve bytes, read back.
ReadTransition(bytes) ==
  [usec |-> Offset4(bytes, 0) * Second + Offset4(bytes, 4), uid |-> Word2(bytes, 8),
   prev |-> NodeStatuses[Byte1(bytes, 10)], status |-> NodeStatuses[Byte1(bytes, 11)]]

=============================================================================
