----------------------------- MODULE Blackboard -----------------------------
(***************************************************************************)
(* Blackboards: entries that hold a value and the type they were declared  *)
(* with, and the keys that stand for a key of the parent.                  *)
(*                                                                         *)
(* A board is a record of storage_, internal_to_external_ and parent_bb_,  *)
(* bs the sequence of the boards there are.  A call that goes up to the    *)
(* parent holds the mutexes of all boards on its way, so that each call is *)
(* one step; a parent outlives its children, as in a Tree.                 *)
(***************************************************************************)
EXTENDS Values

NoBoard == 0
Untyped == "none"
PortInfo(direction, type, default) == [direction |-> direction, type |-> type, default |-> default]

\* A port without a type takes everything; only what is read has a default.
InputPort(type, default)         == PortInfo("INPUT", type, default)
OutputPort(type)                 == PortInfo("OUTPUT", type, <<>>)
BidirectionalPort(type, default) == PortInfo("INOUT", type, default)

\* operator[] and insert() of a map: what is there already is replaced, or stays.
Extend(f, k, v) == [x \in DOMAIN f \cup {k} |-> IF x = k THEN v ELSE f[x]]
Inserted(f, g)  == [x \in DOMAIN f \cup DOMAIN g |-> IF x \in DOMAIN f THEN f[x] ELSE g[x]]

Entry(any, type) == [value |-> any, type |-> type]

NewBoard(parent) == [storage |-> <<>>, remap |-> <<>>, parent |-> parent]

AddSubtreeRemapping(board, externals) == [board EXCEPT !.remap = Inserted(@, externals)]

\* The places a key stands for, from this board up to the one that is not
\* remapped any more, whose entry holds the value; every board is made after
\* its parent, so that there are no more places than boards.
Remapped(bs, p) == bs[p[1]].parent # NoBoard /\ p[2] \in DOMAIN bs[p[1]].remap
Above(bs, p)    == <<bs[p[1]].parent, bs[p[1]].remap[p[2]]>>
Further(bs, up) == IF Remapped(bs, Last(up)) THEN Append(up, Above(bs, Last(up))) ELSE up
Path(bs, b, k) ==
  LET Up[n \in Nat] == IF n = 0 THEN <<<<b, k>>>> ELSE Further(bs, Up[n - 1])
  IN Up[Len(bs)]
Cell(bs, b, k) == Last(Path(bs, b, k))

Stored(bs, p)  == p[2] \in DOMAIN bs[p[1]].storage
TypeAt(bs, p)  == bs[p[1]].storage[p[2]].type
Storing(board, storage) == [storage |-> storage, remap |-> board.remap, parent |-> board.parent]
Store(bs, p, entry) ==
  [c \in DOMAIN bs |-> IF c = p[1] THEN Storing(bs[c], Extend(bs[c].storage, p[2], entry)) ELSE bs[c]]

GetAny(bs, b, k) ==
  LET c == Cell(bs, b, k) IN IF Stored(bs, c) THEN bs[c[1]].storage[c[2]].value ELSE EmptyAny

Answer(bs, error) == [boards |-> bs, error |-> error]

\* Entries without a value, of the types given, at the places that have none yet.
WithEntries(bs, types) ==
  LET New(c) == {p[2] : p \in {q \in DOMAIN types : q[1] = c}}
      Entries(c) == [x \in New(c) |-> Entry(EmptyAny, types[<<c, x>>])]
  IN [c \in DOMAIN bs |-> Storing(bs[c], Inserted(bs[c].storage, Entries(c)))]

\* From the top down: a board whose entry has another type throws, and those
\* above it keep what they got.
SetPortInfoSilent(bs, b, k, info) ==
  Answer(WithEntries(bs, [p \in {<<b, k>>} |-> info.type]),
         IF ~ Stored(bs, <<b, k>>) \/ TypeAt(bs, <<b, k>>) \in {Untyped, info.type} THEN "none"
         ELSE "LogicError")

SetPortInfo(bs, b, k, info) ==
  LET path    == Path(bs, b, k)
      Allows(p) == ~ Stored(bs, p) \/ TypeAt(bs, p) \in {Untyped, info.type}
      reached == {i \in DOMAIN path : \A j \in i .. Len(path) : Allows(path[j])}
  IN Answer(WithEntries(bs, [p \in {path[i] : i \in reached} |-> info.type]),
            IF reached = DOMAIN path THEN "none" ELSE "LogicError")

\* From the bottom up: a remapped key that is not there gets an entry with the
\* type the parent has for it now, and no value.
Locked(bs, c) == IF Stored(bs, c) THEN TypeAt(bs, c) ELSE Untyped
Virgins(bs, path) ==
  WithEntries(bs, [p \in {path[i] : i \in 1 .. Len(path) - 1} |-> Locked(bs, Above(bs, p))])

\* A value of the declared type goes in, a text is parsed for it, by a
\* converter that may throw.
SetForgetful(bs, b, k, T, v) ==
  LET path == Path(bs, b, k)  below == Virgins(bs, path)  c == Last(path)
  IN Answer(Store(below, c, Entry(AnyValue(T, v), Locked(below, c))), "none")

\* What the entry takes of a value: the value, what a text is parsed to, or nothing.
Taking(lock, T, v) ==
  IF lock \in {Untyped, T} THEN Got(AnyValue(T, v))
  ELSE IF T = "string" THEN ParseString(lock, v) ELSE Refused

Set(bs, b, k, T, v) ==
  LET path  == Path(bs, b, k)
      below == Virgins(bs, path)
      c     == Last(path)
      lock  == Locked(below, c)
      taken == Taking(lock, T, v)
  IN IF taken.ok THEN Answer(Store(below, c, Entry(taken.val, lock)), "none")
     ELSE Answer(below, IF T = "string" THEN "bad text" ELSE "LogicError")
=============================================================================
