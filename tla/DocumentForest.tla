--------------------------- MODULE DocumentForest ---------------------------
(***************************************************************************)
(* What an XML document promises its users: nodes that exist, and for each *)
(* of them the list of its children.  Nothing of links, pools or parsing.  *)
(***************************************************************************)
EXTENDS Integers, Sequences, FiniteSets, SequencesExt

CONSTANTS Root, Item
VARIABLES live, children

Owners  == {Root} \cup Item
Holds(k, p, c) == c \in Range(k[p])

\* Every node is in at most one place, and only nodes that exist are.
IsForest(l, k) ==
  \A p \in Owners :
    /\ k[p] # <<>> => p \in l \cup {Root}
    /\ Range(k[p]) \subseteq l
    /\ IsInjective(k[p])
    /\ \A q \in Owners : q # p => Range(k[p]) \cap Range(k[q]) = {}

Without(k, S) == [p \in Owners |-> SelectSeq(k[p], LAMBDA c : c \notin S)]

Init == live = {} /\ children = [p \in Owners |-> <<>>]

\* New nodes appear, alone or as trees; those there keep their children.
Create ==
  /\ live' # live /\ live \subseteq live' /\ IsForest(live', children')
  /\ \A p \in live \cup {Root} : children'[p] = children[p]
  /\ \A p \in live \cup {Root}, c \in live' \ live : ~ Holds(children', p, c)

\* A node, new or not, gets its place among the children of p.
Place ==
  /\ live \subseteq live' /\ Cardinality(live' \ live) <= 1
  /\ \E c \in live', p \in live \cup {Root} :
       LET rest == Without(children, {c}) IN
       /\ live' = live \cup {c}
       /\ \E k \in 1 .. Len(rest[p]) + 1 :
            children' = [rest EXCEPT ![p] = InsertAt(@, k, c)]

\* Nodes go, with everything below them.
Discard ==
  \E gone \in SUBSET live :
    /\ \A p \in gone : Range(children[p]) \subseteq gone
    /\ live' = live \ gone
    /\ children' = [p \in Owners |-> IF p \in gone THEN <<>> ELSE Without(children, gone)[p]]

\* Another document takes the place of this one: what is in the tree, and only
\* that, as it was.
Attached(k) ==
  LET Under[n \in Owners] == {n} \cup UNION {Under[c] : c \in Range(k[n])} IN Under[Root]

Copy ==
  \E f \in [Attached(children) -> live' \cup {Root}] :
    /\ f[Root] = Root /\ Range(f) = live' \cup {Root} /\ IsInjective(f)
    /\ \A p \in Attached(children) :
         children'[f[p]] = [k \in DOMAIN children[p] |-> f[children[p][k]]]
    /\ \A p \in Owners \ Range(f) : children'[p] = <<>>

Next == Create \/ Place \/ Discard \/ Copy

Spec == Init /\ [][Next]_<<live, children>>
=============================================================================
