------------------------------- MODULE MCLoader -------------------------------
(***************************************************************************)
(* The documents of the loader's runs. main includes sub: a subtree with a *)
(* board of its own, that shares x with the tree around it under the name  *)
(* a, and counts on it. clash uses x as a text too, so does near in one    *)
(* tree. apart has a subtree of another name. The others do not load, or   *)
(* do not build.                                                           *)
(***************************************************************************)
EXTENDS Loader

E(name, attr, kids) == [name |-> name, attr |-> attr, kids |-> kids]
Plain(name, kids)   == E(name, <<>>, kids)
x == <<"{", "x", "}">>
a == <<"$", "{", "a", "}">>

Document ==
  [ main      |-> E("root", [main_tree_to_execute |-> "Main"], <<"main_sub", "Main">>),
    main_sub  |-> E("include", [path |-> <<"sub">>], <<>>),
    Main      |-> E("BehaviorTree", [ID |-> "Main"], <<"main_seq">>),
    main_seq  |-> Plain("Sequence", <<"put", "inside", "not">>),
    put       |-> E("Action", [ID |-> "Put", value |-> x], <<>>),
    inside    |-> E("SubTree", [ID |-> "SubTree", a |-> <<"x">>], <<>>),
    not       |-> Plain("Inverter", <<"look">>),
    look      |-> E("SetBlackboard", [output_key |-> x, value |-> <<"6">>, name |-> "eye"], <<>>),

    sub       |-> Plain("root", <<"SubTree">>),
    SubTree   |-> E("BehaviorTree", [ID |-> "SubTree"], <<"star">>),
    star      |-> Plain("SequenceStar", <<"count", "write">>),
    count     |-> E("Condition", [ID |-> "Count", n |-> a], <<>>),
    write     |-> E("SetBlackboard", [output_key |-> a, value |-> <<"5">>], <<>>),

    clash     |-> E("root", [main_tree_to_execute |-> "Clash"], <<"clash_sub", "Clash">>),
    clash_sub |-> E("include", [path |-> <<"/", "d", "sub">>], <<>>),
    Clash     |-> E("BehaviorTree", [ID |-> "Clash"], <<"clash_any">>),
    clash_any |-> Plain("Fallback", <<"inside", "say">>),
    say       |-> E("Say", [text |-> x], <<>>),

    near      |-> Plain("root", <<"Near">>),
    Near      |-> Plain("BehaviorTree", <<"near_seq">>),
    near_seq  |-> Plain("Sequence", <<"look", "say", "put">>),

    apart     |-> E("root", [main_tree_to_execute |-> "Apart"], <<"Apart", "Other">>),
    Apart     |-> E("BehaviorTree", [ID |-> "Apart"], <<"other">>),
    other     |-> E("SubTree", [ID |-> "Other"], <<>>),
    Other     |-> E("BehaviorTree", [ID |-> "Other"], <<"self">>),
    self      |-> E("Count", [n |-> <<"=">>], <<>>),

    twins     |-> Plain("root", <<"Twins">>),
    Twins     |-> Plain("BehaviorTree", <<"nots">>),
    nots      |-> Plain("Inverter", <<"look", "say">>),
    silent    |-> E("Say", [word |-> x], <<>>),
    typo      |-> Plain("root", <<"Typo">>),
    Typo      |-> Plain("BehaviorTree", <<"silent">>),
    bad       |-> Plain("root", <<"bad_no", "Bad">>),
    bad_no    |-> E("include", [path |-> <<"nowhere">>], <<>>),
    Bad       |-> Plain("BehaviorTree", <<"self">>),
    ros       |-> Plain("root", <<"ros_no">>),
    ros_no    |-> E("include", [path |-> <<"sub">>, ros_pkg |-> "p"], <<>>) ]

MCElement == DOMAIN Document
MCNameOf  == [e \in MCElement |-> Document[e].name]
MCAttr    == [e \in MCElement |-> Document[e].attr]
MCKids    == [e \in MCElement |-> Document[e].kids]
MCFiles   == {<<"d", f>> : f \in {"main", "sub", "clash", "near", "apart", "twins", "typo", "bad", "ros"}}
MCPaths   == MCFiles \cup {<<"d", "nowhere">>}
MCRootOf  == [f \in MCFiles |-> f[2]]

Shapes == [id \in {"Sequence", "Fallback", "SequenceStar"} |-> CreateManifest("CONTROL", <<>>, {"name"})]
          @@ ("Inverter" :> CreateManifest("DECORATOR", <<>>, {"name"}))
          @@ ("SubTree"  :> CreateManifest("SUBTREE", <<>>, {"name"}))
          @@ ("SetBlackboard" :> CreateManifest("ACTION",
                [value |-> InputPort(Untyped, <<>>), output_key |-> BidirectionalPort(Untyped, <<>>)],
                {"config"}))
MCBuiltin  == DOMAIN Shapes
MCManifest == Shapes
  @@ ("Put"   :> CreateManifest("ACTION", [value |-> OutputPort("int")], {"name", "config"}))
  @@ ("Say"   :> SimpleManifest("ACTION", [text |-> InputPort("string", <<>>)]))
  @@ ("Count" :> SimpleManifest("CONDITION", [n |-> InputPort("int", <<>>),
                                              limit |-> InputPort("unsigned", <<"7">>)]))

MCSize   == [int |-> 2 ^ 4, unsigned |-> 2 ^ 4, int64 |-> 2 ^ 6, uint64 |-> 2 ^ 6]
\* An int is exact as a double, a 64-bit integer need not be.
MCMantissa == 2 ^ 4
MCWrites == {<<"int", Half(-1)>>, <<"double", Half(1) + 1>>, <<"uint64", MaxOf("uint64")>>,
             <<"string", <<"6">>>>, <<"string", <<"x">>>>}

\* No step depends on how the last call ended or what it read: of the reads those
\* that are right are one.
WithoutAnswers == <<builders, parser, loading, todo, nodes, boards, at, ReadsExact>>
=============================================================================
