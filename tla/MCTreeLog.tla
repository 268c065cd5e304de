------------------------------ MODULE MCTreeLog -----------------------------
(***************************************************************************)
(* A sequence over an asynchronous leaf with ports and over a leaf with a  *)
(* name of its own; the uids of the nodes wrap around.                     *)
(***************************************************************************)
EXTENDS TreeLog, TLC

CONSTANTS log1, log2         \* two loggers

Either == Permutations({log1, log2})

MCClass        == <<"control", "leaf", "leaf">>
MCName         == <<"Sequence", "Look", "Turn">>
MCRegistration == <<"Sequence", "Look", "Look">>
MCChildren     == <<<<2, 3>>, <<>>, <<>>>>
MCInputPorts   == <<<<>>, <<<<"in", "x">>, <<"io", "x">>>>, <<>>>>
MCOutputPorts  == <<<<>>, <<<<"io", "x">>>>, <<>>>>
MCAsync        == {2}

MCManifests ==
  <<[registration |-> "Look", type |-> "ACTION",
     ports |-> <<[name |-> "in", direction |-> "INPUT", type |-> "int", description |-> ""],
                 [name |-> "io", direction |-> "INOUT", type |-> "int", description |-> "x"]>>],
    [registration |-> "Sequence", type |-> "CONTROL", ports |-> <<>>]>>

\* Texts of different lengths, so that the padding differs too.
MCText(s) ==
  CASE s = "Sequence" -> <<83, 101, 113, 117, 101>>
    [] s = "Look" -> <<76, 111>> [] s = "Turn" -> <<84>>
    [] s = "in" -> <<105, 110>> [] s = "io" -> <<105, 111>> [] s = "int" -> <<105, 110, 116>>
    [] s = "x" -> <<120>> [] s = "" -> <<>>

=============================================================================
