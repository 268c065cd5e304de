-------------------------------- MODULE Loader --------------------------------
(***************************************************************************)
(* From a document to a tree, and what its nodes then read and write: the  *)
(* registry of BehaviorTreeFactory, XMLParser with its includes, VerifyXML *)
(* and the construction of the nodes, and their ports on the blackboards.  *)
(*                                                                         *)
(* The documents are constants: elements with a name, attributes and a     *)
(* list of elements.  The two recursions of the parser are stacks: the     *)
(* documents that include each other, the elements still to be built.      *)
(***************************************************************************)
EXTENDS Blackboard, FiniteSets, TLC

CONSTANTS
  Element,
  NameOf, Attr, Kids,   \* of an element: Name(), the attributes, the elements in it
  Paths, Files, RootOf, \* paths, those with a document that can be parsed, its root
  Manifest, Builtin,    \* what may be registered, and what the constructor registers
  MaxOpened,            \* bound: a parser that opened as many documents loads no other
  Writes,               \* the values that are written, with their types
  OwnKeys               \* the keys the program uses itself

VARIABLES
  builders, \* builders_ and manifests_, which have the same keys
  parser,   \* opened_documents, tree_roots, suffix_count, current_path
  loading,  \* the documents in loadDocImpl(), each with its next include
  todo,     \* the elements recursiveStep() still has to visit
  nodes,    \* Tree::nodes
  boards,   \* the root blackboard of the program, then those of subtrees
  at,       \* "idle", "loading", "building", or "built" while there is a tree
  thrown,   \* the exception the last call ended with
  read      \* the last value read: where from, as what, and what came of it

vars == <<builders, parser, loading, todo, nodes, boards, at, thrown, read>>
Root == 1

Has(e, a)        == a \in DOMAIN Attr[e]
Named(e, name)   == SelectSeq(Kids[e], LAMBDA k : NameOf[k] = name)
Leaves           == {"Action", "Condition"}
\* All that recursiveStep() of VerifyXML visits; it stays out of SubTrees.
Under[e \in Element] ==
  {e} \cup IF NameOf[e] = "SubTree" THEN {} ELSE UNION {Under[k] : k \in Range(Kids[e])}

\* What nobody checks and the code relies on: a root element, no document that
\* includes itself, no tree inside itself, and on what makes a subtree an ID that
\* is that of a tree, and not the name of a control node.
ASSUME DocumentsAssumption ==
  /\ Kids \in [Element -> Seq(Element)]
  /\ \A e \in Element : IsFiniteSet(DOMAIN Attr[e])
  /\ \A f \in Files : RootOf[f] \in Element
  /\ \A e \in Element : NameOf[e] \in {"SubTree", "SubTreeWrapper"} =>
       \E t \in Element : NameOf[t] = "BehaviorTree" /\ Has(e, "ID") /\ Has(t, "ID")
                          /\ Attr[t].ID = Attr[e].ID
                          /\ Attr[e].ID \notin {"Sequence", "Fallback", "SequenceStar"}
  /\ Builtin \subseteq DOMAIN Manifest
  /\ \A p \in Paths : Len(p) > 1   \* the directory of a bare name cannot be found

\* What a class is registered with: its kind, its ports, and what its constructors
\* take, the "name" alone or the "config" too.
CreateManifest(type, ports, constructors) ==
  [type |-> type, ports |-> ports, constructors |-> constructors]

\* registerSimpleAction() and its like: a function of the program as a node.
SimpleManifest(type, ports) == CreateManifest(type, ports, {"config"})

\* The static assertions of registerNodeType(): ports need the configuration.
Registrable(m) ==
  /\ m.type \in {"ACTION", "CONDITION", "CONTROL", "DECORATOR", "SUBTREE"}
  /\ m.constructors # {} /\ m.constructors \subseteq {"name", "config"}
  /\ m.ports # <<>> => "config" \in m.constructors

ASSUME ManifestAssumption ==
  /\ \A id \in DOMAIN Manifest : Registrable(Manifest[id])
  /\ "SubTree" \in Builtin /\ Manifest["SubTree"].type = "SUBTREE"

\* A text nests its elements finitely deep: recursiveStep() gets to all there are.
ASSUME NestingAssumption ==
  \A e \in Element : /\ e \in Under[e]
                     /\ \A d \in Under[e] : NameOf[d] # "SubTree" => Range(Kids[d]) \subseteq Under[e]

\* What the program writes as a number of a type is one.
ASSUME WritesAssumption ==
  \A w \in Writes : /\ w[1] \in Types
                    /\ Held(w[1]) = "int64" => w[2] \in Int
                    /\ w[1] = "uint64" => Fits("uint64", w[2])
                    /\ w[1] = "double" => w[2] \in Int /\ AsDouble(w[2]) = w[2]

NoRead    == [any |-> EmptyAny, T |-> "none", got |-> Refused]
NewParser == [opened |-> <<>>, roots |-> <<>>, suffix |-> 0, dir |-> <<>>]

Init ==
  /\ builders = Builtin /\ parser = NewParser /\ loading = <<>> /\ todo = <<>>
  /\ nodes = <<>> /\ boards = <<NewBoard(NoBoard)>> /\ at = "idle"
  /\ thrown = "none" /\ read = NoRead

-----------------------------------------------------------------------------
(* The registry.                                                           *)
Registry(b, e) ==
  /\ at = "idle" /\ builders' = b /\ thrown' = e
  /\ UNCHANGED <<parser, loading, todo, nodes, boards, at, read>>

RegisterBuilder(ID) ==
  IF ID \in builders THEN Registry(builders, "BehaviorTreeException")
  ELSE Registry(builders \cup {ID}, "none")

UnregisterBuilder(ID) ==
  IF ID \in Builtin THEN Registry(builders, "LogicError") ELSE Registry(builders \ {ID}, "none")

-----------------------------------------------------------------------------
(* Loading.  What an exception leaves in the parser stays there.           *)
Throw(e) ==
  /\ thrown' = e /\ at' = "idle" /\ loading' = <<>> /\ todo' = <<>> /\ nodes' = <<>>
  /\ read' = NoRead

\* Paths: names, with "/" in front where they start at the root.
ParentPath(p) == Front(p)
IsAbsolute(p) == Head(p) = "/"
Join(p, q)    == p \o q

\* A document is opened before anybody knows whether it can be read.
Open(file, p, stack) ==
  LET opened == [p EXCEPT !.opened = Append(@, file)] IN
  /\ parser' = opened
  /\ IF file \in Files
     THEN /\ loading' = Append(stack, [file |-> file, next |-> 1]) /\ at' = "loading"
          /\ thrown' = "none" /\ UNCHANGED <<todo, nodes, read>>
     ELSE Throw("RuntimeError")

LoadFromFile(file) ==
  /\ at = "idle" /\ Len(parser.opened) < MaxOpened
  /\ Open(file, [parser EXCEPT !.dir = ParentPath(file)], <<>>)
  /\ UNCHANGED <<builders, boards>>

Top         == Last(loading)
Includes(f) == Named(RootOf[f], "include")

\* Relative to the directory of the first file, whoever includes it.
IncludePath(e) ==
  IF IsAbsolute(Attr[e].path) THEN Tail(Attr[e].path) ELSE Join(parser.dir, Attr[e].path)

LoadInclude ==
  /\ at = "loading" /\ Top.next <= Len(Includes(Top.file))
  /\ LET e == Includes(Top.file)[Top.next] IN
     IF Has(e, "ros_pkg") THEN Throw("RuntimeError") /\ UNCHANGED parser
     ELSE Open(IncludePath(e), parser, Append(Front(loading), [Top EXCEPT !.next = @ + 1]))
  /\ UNCHANGED <<builders, boards>>

\* tree_roots keeps the first tree of a name; trees without one are numbered.
Enter(p, root) ==
  LET kid      == Kids[root]
      here     == {i \in DOMAIN kid : NameOf[kid[i]] = "BehaviorTree"}
      unnamed  == {i \in here : ~ Has(kid[i], "ID")}
      Number(i) == p.suffix + Cardinality({j \in unnamed : j < i})
      name     == [i \in here |-> IF i \in unnamed THEN "BehaviorTree_" \o ToString(Number(i))
                                   ELSE Attr[kid[i]].ID]
      First(n) == CHOOSE i \in here : name[i] = n /\ \A j \in here : name[j] = n => i <= j
  IN [p EXCEPT !.roots  = Inserted(@, [n \in {name[i] : i \in here} |-> kid[First(n)]]),
               !.suffix = @ + Cardinality(unnamed)]

\* One element, as VerifyXML looks at it.
Fits1(e, registered) ==
  LET n == Len(Kids[e]) name == NameOf[e] IN
  CASE name = "Decorator" -> n = 1 /\ Has(e, "ID")
    [] name \in Leaves    -> n = 0 /\ Has(e, "ID")
    [] name \in {"Sequence", "SequenceStar", "Fallback"} -> n # 0
    [] name = "SubTree"   -> n = 0 /\ Has(e, "ID")
    [] OTHER -> name \in registered

\* A model of the nodes, for the editor, is looked for in the wrong place.
ModelFits(root) ==
  LET models == Named(root, "TreeNodesModel") IN
  /\ Len(models) <= 1
  /\ models # <<>> =>
       \A e \in Range(Kids[root]) :
         NameOf[e] \in Leaves \cup {"Decorator", "SubTree"} => Has(e, "ID")

VerifyXML(f, registered) ==
  LET root  == RootOf[f]
      trees == Named(root, "BehaviorTree")
  IN /\ NameOf[root] = "root" /\ ModelFits(root)
     /\ \A t \in Range(trees) : /\ Len(Kids[t]) = 1
                                /\ \A e \in Under[Kids[t][1]] : Fits1(e, registered)
     /\ IF Has(root, "main_tree_to_execute")
        THEN \E t \in Range(trees) : Has(t, "ID") /\ Attr[t].ID = Attr[root].main_tree_to_execute
        ELSE Len(trees) = 1

LoadTrees ==
  /\ at = "loading" /\ Top.next > Len(Includes(Top.file))
  /\ LET p == Enter(parser, RootOf[Top.file]) IN
     /\ parser' = p
     /\ IF VerifyXML(Top.file, builders \cup DOMAIN p.roots)
        THEN /\ loading' = Front(loading) /\ at' = IF Len(loading) = 1 THEN "idle" ELSE at
             /\ UNCHANGED <<thrown, todo, nodes, read>>
        ELSE Throw("RuntimeError")
  /\ UNCHANGED <<builders, boards>>

\* clear(), or another parser.
ClearParser ==
  /\ at = "idle" /\ parser' = NewParser /\ thrown' = "none"
  /\ UNCHANGED <<builders, loading, todo, nodes, boards, at, read>>

-----------------------------------------------------------------------------
(* Building.                                                               *)
Trees == DOMAIN parser.roots

MainTree ==
  LET root == RootOf[Head(parser.opened)] IN
  IF Has(root, "main_tree_to_execute") THEN Attr[root].main_tree_to_execute
  ELSE CHOOSE name \in Trees : TRUE

Visit(element, parent, board) == [element |-> element, parent |-> parent, board |-> board]

ID(e)     == IF NameOf[e] \in Leaves \cup {"Decorator"} THEN Attr[e].ID ELSE NameOf[e]
NodeName(e) ==
  IF NameOf[e] \in {"SubTree", "SubTreeWrapper"} THEN Attr[e].ID
  ELSE IF Has(e, "name") THEN Attr[e].name ELSE ID(e)

\* Nobody goes on with a parser that did not get to the trees it needs.
OpensTree(e) == IF ID(e) \in builders THEN Manifest[ID(e)].type = "SUBTREE" ELSE ID(e) \in Trees
Complete ==
  /\ parser.opened # <<>> /\ Head(parser.opened) \in Files /\ Trees # {}
  /\ MainTree \in Trees
  /\ \A t \in Range(parser.roots) :
       Kids[t] # <<>> /\ \A e \in Under[Head(Kids[t])] : OpensTree(e) => NodeName(e) \in Trees

InstantiateTree ==
  /\ at = "idle" /\ Complete
  /\ IF ~ Has(RootOf[Head(parser.opened)], "main_tree_to_execute") /\ Cardinality(Trees) # 1
     THEN Throw("RuntimeError")
     ELSE /\ at' = "building" /\ thrown' = "none"
          /\ todo' = <<Visit(Head(Kids[parser.roots[MainTree]]), 0, Root)>>
          /\ UNCHANGED <<loading, nodes, read>>
  /\ UNCHANGED <<builders, parser, boards>>

Params(e) ==
  IF NameOf[e] = "SubTree" THEN <<>> ELSE Restrict(Attr[e], DOMAIN Attr[e] \ {"ID", "name"})

\* A value that points to a key: the name of the port itself, {key} or ${key}.
NoKey == ""
IsBlackboardPointer(v) ==
  /\ Len(v) >= 3 /\ Last(v) = "}"
  /\ Head(v) = "{" \/ (Len(v) >= 4 /\ Head(v) = "$" /\ v[2] = "{")
StripBlackboardPointer(v) == SubSeq(v, IF Head(v) = "{" THEN 2 ELSE 3, Len(v) - 1)
GetRemappedKey(port, v) ==
  IF v = <<"=">> THEN port
  ELSE IF IsBlackboardPointer(v) THEN Word(StripBlackboardPointer(v)) ELSE NoKey

KeyOf(e, port) == GetRemappedKey(port, Params(e)[port])
KnownPorts(e)  == ID(e) \in builders /\ DOMAIN Params(e) \subseteq DOMAIN Manifest[ID(e)].ports
PointerPorts(e) ==
  IF KnownPorts(e) THEN {p \in DOMAIN Params(e) : KeyOf(e, p) # NoKey} ELSE {}

\* The ports of a node give their types to the keys, in no particular order.
Declare(s, b, e, port) ==
  LET key  == KeyOf(e, port)
      info == Manifest[ID(e)].ports[port]
  IN IF s.error # "none" THEN s
     ELSE IF ~ Stored(s.boards, <<b, key>>) THEN SetPortInfo(s.boards, b, key, info)
     ELSE IF \/ Untyped \in {TypeAt(s.boards, <<b, key>>), info.type}
             \/ TypeAt(s.boards, <<b, key>>) = info.type
     THEN s ELSE Answer(s.boards, "RuntimeError")
DeclarePorts(bs, b, e, order) ==
  LET Declared[n \in Nat] ==
        IF n = 0 THEN Answer(bs, "none") ELSE Declare(Declared[n - 1], b, e, order[n])
  IN Declared[Len(order)]

\* NodeConfiguration: what the document gives, and defaults for inputs.
Ports(e, other) == {p \in DOMAIN Manifest[ID(e)].ports : Manifest[ID(e)].ports[p].direction # other}
InputPorts(e) ==
  LET info == Manifest[ID(e)].ports
      given == Ports(e, "OUTPUT") \cap DOMAIN Params(e)
      filled == {p \in Ports(e, "OUTPUT") \ given : info[p].default # <<>>}
  IN [p \in given \cup filled |-> IF p \in given THEN Params(e)[p] ELSE info[p].default]
OutputPorts(e) == Restrict(Params(e), Ports(e, "INPUT") \cap DOMAIN Params(e))

Node(e, type, board, in, out) ==
  [name |-> NodeName(e), element |-> e, board |-> board, kids |-> <<>>,
   type |-> type, in |-> in, out |-> out]

\* CreateBuilder(): a class that has both constructors is made with its name alone
\* when the document gives it no port, and then has no blackboard.
TakesConfig(m, in, out) ==
  /\ "config" \in m.constructors
  /\ "name" \in m.constructors => in # <<>> \/ out # <<>>

InstantiateTreeNode(e, board) ==
  LET m == Manifest[ID(e)]  in == InputPorts(e)  out == OutputPorts(e) IN
  IF TakesConfig(m, in, out) THEN Node(e, m.type, board, in, out)
  ELSE Node(e, m.type, NoBoard, <<>>, <<>>)

MakeNode(e, board) ==
  IF ID(e) \in builders THEN InstantiateTreeNode(e, board)
  ELSE Node(e, "SUBTREE", NoBoard, <<>>, <<>>)

\* A parent takes a child if its name says that it can.
Controls == {"Sequence", "Fallback", "SequenceStar"}
Wrappers == {"Decorator", "Inverter", "Repeat", "RetryUntilSuccesful", "SubTree", "Timeout"}

AttachForgetful(ns, parent, child) ==
  IF parent # 0 /\ ns[parent].name \in (Controls \cup Wrappers) \ {"SequenceStar"}
  THEN [ns EXCEPT ![parent].kids = Append(@, child)] ELSE ns

Attach(ns, parent, child) ==
  IF parent # 0 /\ ns[parent].name \in Controls \cup Wrappers
  THEN [ns EXCEPT ![parent].kids = Append(@, child)] ELSE ns

Taken(parent) == parent # 0 /\ nodes[parent].name \in Wrappers /\ nodes[parent].kids # <<>>

Refusal(w, declared) ==
  LET e == w.element IN
  IF \/ ID(e) \in builders /\ ~ KnownPorts(e)
     \/ ID(e) \notin builders \cup Trees
  THEN "RuntimeError"
  ELSE IF declared.error # "none" THEN declared.error
  ELSE IF Taken(w.parent) THEN "BehaviorTreeException" ELSE "none"

\* A subtree gets a board of its own if SubTree is the name of its tree, with
\* every attribute as a remapping, the ID included.
External(e, a) == IF a \in {"ID", "name"} THEN Attr[e][a] ELSE Word(Attr[e][a])
BoardFor(bs, node, board) ==
  IF node.type # "SUBTREE" \/ node.name # "SubTree" THEN [all |-> bs, own |-> board]
  ELSE LET e == node.element
           externals == [a \in DOMAIN Attr[e] |-> External(e, a)]
       IN [all |-> Append(bs, AddSubtreeRemapping(NewBoard(board), externals)), own |-> Len(bs) + 1]

Inside(node) ==
  IF node.type = "SUBTREE" THEN <<Head(Kids[parser.roots[node.name]])>> ELSE Kids[node.element]

BuildNode ==
  /\ at = "building" /\ todo # <<>>
  /\ LET w == Head(todo)  e == w.element IN
     \E order \in SetToSeqs(PointerPorts(e)) :
       LET declared == DeclarePorts(boards, w.board, e, order)
           node     == MakeNode(e, w.board)
           board    == BoardFor(declared.boards, node, w.board)
           id       == Len(nodes) + 1
           refusal  == Refusal(w, declared)
       IN IF refusal # "none"
          THEN Throw(refusal) /\ boards' = SubSeq(declared.boards, 1, 1)
          ELSE /\ nodes' = Attach(Append(nodes, node), w.parent, id)
               /\ boards' = board.all
               /\ todo' = [i \in DOMAIN Inside(node) |-> Visit(Inside(node)[i], id, board.own)]
                          \o Tail(todo)
               /\ UNCHANGED <<loading, at, thrown, read>>
  /\ UNCHANGED <<builders, parser>>

FinishTree ==
  /\ at = "building" /\ todo = <<>> /\ at' = "built"
  /\ UNCHANGED <<builders, parser, loading, todo, nodes, boards, thrown, read>>

DestroyTree ==
  /\ at = "built" /\ at' = "idle" /\ nodes' = <<>> /\ boards' = SubSeq(boards, 1, 1)
  /\ read' = NoRead /\ thrown' = "none"
  /\ UNCHANGED <<builders, parser, loading, todo>>

-----------------------------------------------------------------------------
(* The ports of the nodes, at run time.                                    *)
Using(bs, e, r) ==
  /\ at = "built" /\ boards' = bs /\ thrown' = e /\ read' = r
  /\ UNCHANGED <<builders, parser, loading, todo, nodes, at>>

Reading(any, T, got) == [any |-> any, T |-> T, got |-> got]

\* getInput(): the text in the document, a text on the board, or a value.
Input(n, port, T) ==
  LET v   == nodes[n].in[port]
      key == GetRemappedKey(port, v)
      any == GetAny(boards, nodes[n].board, key)
      Of(a, text) == Reading(a, T, IF text THEN ConvertFromString(T, a.val) ELSE Cast(a, T))
  IN IF key = NoKey THEN Of(AnyValue("string", v), TRUE)
     ELSE Of(any, any.type = "string" /\ T # "string")

GetInput(n, port, T) == Using(boards, "none", Input(n, port, T))

\* setOutput(): what is not a pointer is a key all the same.
OutputKey(n, port) ==
  LET v == nodes[n].out[port] IN
  IF GetRemappedKey(port, v) = NoKey THEN Word(v) ELSE GetRemappedKey(port, v)

Output(n, port, T, v) == Set(boards, nodes[n].board, OutputKey(n, port), T, v)
SetOutput(n, port, T, v) ==
  \E answer \in {Output(n, port, T, v)} : Using(answer.boards, answer.error, NoRead)

\* SetBlackboard reads the entry it is to write, and needs one.
Given(n, port) == IF port \in DOMAIN nodes[n].in THEN Input(n, port, "string").got ELSE Refused
TickSetBlackboard(n) ==
  /\ at = "built" /\ ID(nodes[n].element) = "SetBlackboard"
  /\ \E key \in {Given(n, "output_key")}, value \in {Given(n, "value")} :
       IF key.ok /\ value.ok THEN SetOutput(n, "output_key", "string", value.val)
       ELSE Using(boards, "RuntimeError", NoRead)

\* The program, on its own blackboard: it writes to it before there is a tree, too.
BoardSet(k, T, v) ==
  /\ at \in {"idle", "built"}
  /\ \E answer \in {Set(boards, Root, k, T, v)} : boards' = answer.boards /\ thrown' = answer.error
  /\ read' = NoRead /\ UNCHANGED <<builders, parser, loading, todo, nodes, at>>

BoardGet(k, T) ==
  \E any \in {GetAny(boards, Root, k)} : \E got \in {Cast(any, T)} :
    Using(boards, IF got.ok THEN "none" ELSE "RuntimeError", Reading(any, T, got))

-----------------------------------------------------------------------------
Register == \E id \in DOMAIN Manifest : RegisterBuilder(id) \/ UnregisterBuilder(id)

Use ==
  \/ \E n \in DOMAIN nodes :
       \/ \E port \in DOMAIN nodes[n].in, T \in Types : GetInput(n, port, T)
       \/ \E port \in DOMAIN nodes[n].out, w \in Writes : SetOutput(n, port, w[1], w[2])
       \/ TickSetBlackboard(n)
  \/ \E k \in OwnKeys : \/ \E w \in Writes : BoardSet(k, w[1], w[2])
                        \/ \E T \in Types : BoardGet(k, T)

Next ==
  \/ Register
  \/ \E file \in Paths : LoadFromFile(file)
  \/ LoadInclude \/ LoadTrees \/ ClearParser
  \/ InstantiateTree \/ BuildNode \/ FinishTree \/ DestroyTree
  \/ Use

Spec == Init /\ [][Next]_vars

-----------------------------------------------------------------------------
(* Properties.                                                             *)
TypeOK ==
  /\ builders \in SUBSET DOMAIN Manifest /\ Builtin \subseteq builders
  /\ Range(parser.roots) \subseteq Element
  /\ at \in {"idle", "loading", "building", "built"} /\ (loading # <<>>) = (at = "loading")
  /\ Range(todo) \subseteq [element : Element, parent : 0 .. Len(nodes), board : DOMAIN boards]
  /\ \A n \in DOMAIN nodes : nodes[n].board \in DOMAIN boards \cup {NoBoard}
  /\ boards # <<>> /\ (at \in {"idle", "loading"} => Len(boards) = 1 /\ nodes = <<>>)

\* A tree that was built is the document's, as far as names go: a node that goes by
\* the name of a control node or decorator, or a subtree called SubTree, has the
\* nodes of the elements inside it for children, in their order, through all files
\* and subtrees; a node of any other name has none, whatever its type and
\* whatever the document puts into it: the parent's name is all that is asked.
Whole ==
  at = "built" =>
    \A n \in DOMAIN nodes :
      /\ nodes[n].name \in Controls \cup Wrappers =>
           /\ [i \in DOMAIN nodes[n].kids |-> nodes[nodes[n].kids[i]].element] = Inside(nodes[n])
           /\ \A i \in DOMAIN nodes[n].kids : nodes[n].kids[i] > n
      /\ nodes[n].name \notin Controls \cup Wrappers => nodes[n].kids = <<>>

\* A port that the document points to a key stands for an entry, and where the
\* entry has a type, the port has that type or none, whatever subtrees and
\* remappings are between them, and after loads that failed halfway. An entry that
\* was made without a type, for a port without one or by a write of the program,
\* stays without: it binds nobody, and ports of two types may then share it. It is
\* said of the ports a document names; a default that is a pointer declares nothing.
Bound(n, ports) ==
  {p \in DOMAIN ports \cap DOMAIN Params(nodes[n].element) : GetRemappedKey(p, ports[p]) # NoKey}
TypesAgree ==
  at = "built" =>
    \A n \in DOMAIN nodes : \A ports \in {nodes[n].in, nodes[n].out} : \A p \in Bound(n, ports) :
      LET c == Cell(boards, nodes[n].board, GetRemappedKey(p, ports[p]))
          type == Manifest[ID(nodes[n].element)].ports[p].type
      IN /\ Stored(boards, c)
         /\ Untyped \in {TypeAt(boards, c), type} \/ TypeAt(boards, c) = type

\* A typed entry holds a value of its type or none at all, whoever wrote to it:
\* the program, a node, a node of a subtree, or a text that was converted.
TypeLocked ==
  \A b \in DOMAIN boards : \A k \in DOMAIN boards[b].storage :
    LET entry == boards[b].storage[k] IN
    Untyped \notin {entry.type, entry.value.type} => entry.value.type = entry.type

\* A number read as a number of another type is the same number, or the read is
\* refused: checkUpperLimit() and its like stand between the widths of integers,
\* checkTruncation() between an integer and a double that has no such number.
\* Left out is what they do let through, an unsigned 64-bit number above the
\* largest signed one that is read as a signed one.
Numeric == Integral \cup {"double"}
ReadsExact ==
  /\ read.any.held \in Numeric /\ read.T \in Numeric /\ read.got.ok
  /\ ~ (read.any.held = "uint64" /\ read.T = "int64" /\ read.any.val > MaxOf("int64"))
  => read.got.val = read.any.val

=============================================================================
