----------------------------- MODULE XMLDocument -----------------------------
(***************************************************************************)
(* The document object model of tinyxml2: nodes in doubly linked lists,    *)
(* taken from memory pools and handed back, by a program that edits the    *)
(* document, by the parser and by Clear().                                 *)
(*                                                                         *)
(* dom is the heap: the nodes, _unlinked, and the two counters each pool   *)
(* keeps.  The operators are the methods of XMLNode and XMLDocument on it. *)
(* A text is a sequence of pieces of markup and of characters between; the *)
(* recursive descent of the parser is a stack of the elements it is in.    *)
(***************************************************************************)
EXTENDS XMLValues, FiniteSets

CONSTANTS
  MaxNodes,    \* items a pool may hand out
  MaxDepth,    \* TINYXML2_MAX_ELEMENT_DEPTH
  Makes,       \* kinds of the nodes the program makes itself
  Names,       \* names of elements and attributes
  Values,      \* what the program stores in texts and attributes, each with its type
  Samples,     \* values of all types, for those who only ask
  Texts        \* what the program parses

Kinds == {"element", "text", "cdata", "comment", "declaration", "unknown"}

ASSUME DocumentAssumption ==
  /\ MaxNodes \in Nat \ {0} /\ MaxDepth \in Nat \ {0, 1}
  /\ Makes \subseteq Kinds
  /\ Names \subseteq Seq(Byte)
  /\ \A w \in Values \cup Samples : w[1] \in ValueTypes

VARIABLES
  dom,
  error,   \* _errorID
  at,      \* "idle", or in Parse() of a "text" or of what LoadFile() read, a "file";
           \* "reread" when what was printed has been parsed
  input,   \* what is left of _charBuffer
  stack,   \* the elements whose ParseDeep() is active
  spoiled, \* has a LoadFile() failed, and left the counts of its nodes?
  copy     \* the document that was printed, while its text is read again

vars == <<dom, error, at, input, stack, spoiled, copy>>

Doc   == 0
Null  == -1
Item  == 1 .. MaxNodes
Nodes == Item \cup {Doc}

-----------------------------------------------------------------------------
Pools == {"element", "attribute", "text", "comment"}

\* Declarations and unknowns live in the pool of comments.
PoolOf(kind) == CASE kind = "element" -> "element"
                  [] kind \in {"text", "cdata"} -> "text"
                  [] OTHER -> "comment"

XMLNode(kind, value, attributes) ==
  [kind |-> kind, value |-> value, attributes |-> attributes, parent |-> Null,
   first |-> Null, last |-> Null, prev |-> Null, next |-> Null]
Freed == XMLNode("none", <<>>, <<>>)

NoCount  == [p \in Pools |-> 0]
EmptyDom == [node |-> [i \in Nodes |-> IF i = Doc THEN XMLNode("document", <<>>, <<>>)
                                       ELSE Freed],
             unlinked |-> {}, current |-> NoCount, untracked |-> NoCount]

Live(d)     == {i \in Item : d.node[i].kind # "none"}
Fresh(d)    == CHOOSE i \in Item \ Live(d) : \A j \in Item \ Live(d) : i <= j
HasRoom(d)  == Live(d) # Item
IsText(d, i) == i # Null /\ d.node[i].kind \in {"text", "cdata"}

\* The children of p in the order of _next; as long as the list is sound.
Children(d, p) ==
  LET Chain[i \in Nodes \cup {Null}, k \in 0 .. MaxNodes] ==
        IF i = Null \/ k = 0 THEN <<>> ELSE <<i>> \o Chain[d.node[i].next, k - 1]
  IN Chain[d.node[p].first, MaxNodes]

\* n and everything below it, parents first.
Preorder(d, n) ==
  LET Pre[m \in Nodes] ==
        <<m>> \o FlattenSeq([i \in DOMAIN Children(d, m) |-> Pre[Children(d, m)[i]]])
  IN Pre[n]
Below(d, n) == Range(Tail(Preorder(d, n)))

\* MemPoolT: how many of the items S hold of pool p, attributes among them.
Held(d, S, p) ==
  IF p = "attribute" THEN FoldSet(LAMBDA i, n : n + Len(d.node[i].attributes), 0, S)
  ELSE Cardinality({i \in S : PoolOf(d.node[i].kind) = p})

SetTracked(d, pool) == [d EXCEPT !.untracked[pool] = @ - 1]
MarkInUse(d, c)     == [d EXCEPT !.unlinked = @ \ {c}]

\* CreateUnlinkedNode, the constructor, and the attributes of an element.
Create(d, kind, value, attributes) ==
  [d EXCEPT !.node[Fresh(d)] = XMLNode(kind, value, attributes),
            !.unlinked = @ \cup {Fresh(d)},
            !.current = [p \in Pools |-> @[p] + IF p = PoolOf(kind) THEN 1
                                  ELSE IF p = "attribute" THEN Len(attributes) ELSE 0],
            !.untracked[PoolOf(kind)] = @ + 1]

\* The destructors of S, which is closed under children, and Free().
Erase(d, S) ==
  [d EXCEPT !.node = [i \in Nodes |-> IF i \in S THEN Freed ELSE @[i]],
            !.unlinked = @ \ S,
            !.current = [p \in Pools |-> @[p] - Held(d, S, p)]]

\* XMLNode::DeleteNode(): a node and all that is below it.
Destroy(d, c) == Erase(MarkInUse(d, c), Range(Preorder(d, c)))

UnlinkForgetful(d, c) ==
  LET n == d.node[c] IN
  [d EXCEPT !.node = [i \in Nodes |->
     IF i = c THEN [n EXCEPT !.parent = Null, !.prev = Null, !.next = Null]
     ELSE [@[i] EXCEPT !.first = IF i = n.parent /\ @ = c THEN n.next ELSE @,
                       !.next  = IF i = n.prev THEN n.next ELSE @,
                       !.prev  = IF i = n.next THEN n.prev ELSE @]]]

Unlink(d, c) ==
  LET n == d.node[c] IN
  [d EXCEPT !.node = [i \in Nodes |->
     IF i = c THEN [n EXCEPT !.parent = Null, !.prev = Null, !.next = Null]
     ELSE [@[i] EXCEPT !.first = IF i = n.parent /\ @ = c THEN n.next ELSE @,
                       !.last  = IF i = n.parent /\ @ = c THEN n.prev ELSE @,
                       !.next  = IF i = n.prev THEN n.next ELSE @,
                       !.prev  = IF i = n.next THEN n.prev ELSE @]]]

InsertChildPreambleForgetful(d, c) ==
  IF d.node[c].parent # Null THEN d
  ELSE SetTracked(MarkInUse(d, c), PoolOf(d.node[c].kind))

InsertChildPreamble(d, c) ==
  IF d.node[c].parent # Null THEN Unlink(d, c)
  ELSE SetTracked(MarkInUse(d, c), PoolOf(d.node[c].kind))

\* c becomes the child of p between two neighbours, either of which may be Null.
Link(d, p, c, before, after) ==
  [d EXCEPT !.node = [i \in Nodes |->
     IF i = c THEN [@[i] EXCEPT !.parent = p, !.prev = before, !.next = after]
     ELSE [@[i] EXCEPT !.first = IF i = p /\ before = Null THEN c ELSE @,
                       !.last  = IF i = p /\ after = Null THEN c ELSE @,
                       !.next  = IF i = before THEN c ELSE @,
                       !.prev  = IF i = after THEN c ELSE @]]]

InsertEndChild(d, p, c) ==
  LET e == InsertChildPreamble(d, c) IN Link(e, p, c, e.node[p].last, Null)

InsertFirstChild(d, p, c) ==
  LET e == InsertChildPreamble(d, c) IN Link(e, p, c, Null, e.node[p].first)

\* After itself a node stays where it is, after the last one it is the end.
\* A node that is itself the one after a, and the last, must not be moved: its
\* own Unlink() leaves a without a next, whose _prev is then written.
Detaches(d, a, c) == d.node[a].next = c /\ d.node[c].next = Null

InsertAfterChild(d, p, a, c) ==
  IF a = c THEN d
  ELSE IF d.node[a].next = Null THEN InsertEndChild(d, p, c)
  ELSE LET e == InsertChildPreamble(d, c) IN Link(e, p, c, a, e.node[a].next)

DeleteChildren(d, p) ==
  Erase([d EXCEPT !.node[p].first = Null, !.node[p].last = Null], Below(d, p))

DeleteChild(d, c) == Destroy(Unlink(d, c), c)

DeleteNodeSilent(d, c) ==
  IF d.node[c].parent # Null THEN DeleteChild(d, c) ELSE Destroy(d, c)

\* XMLDocument::DeleteNode(): a node outside the tree was never tracked.
DeleteNode(d, c) ==
  IF d.node[c].parent # Null THEN DeleteChild(d, c)
  ELSE Destroy(SetTracked(d, PoolOf(d.node[c].kind)), c)

\* Clear(): the children, then all that was never put into the tree.
Dropped(e) ==
  [Erase(e, Live(e)) EXCEPT
     !.untracked = [p \in Pools |-> @[p] - IF p = "attribute" THEN 0 ELSE Held(e, e.unlinked, p)]]
Cleared(d) == Dropped(DeleteChildren(d, Doc))

\* FindOrCreateAttribute() and the value; DeleteAttribute().
Named(d, e, name) == {k \in DOMAIN d.node[e].attributes : d.node[e].attributes[k][1] = name}

CreateAttribute(d, e, name) ==
  [d EXCEPT !.node[e].attributes = Append(@, <<name, <<>>>>), !.current["attribute"] = @ + 1]

FindOrCreateAttribute(d, e, name) ==
  IF Named(d, e, name) = {} THEN CreateAttribute(d, e, name) ELSE d

WithAttributeValue(attribute, T, v) == <<attribute[1], ToStr(T, v)>>
PutAttribute(d, e, name, T, v) ==
  [FindOrCreateAttribute(d, e, name) EXCEPT !.node[e].attributes =
     [k \in DOMAIN @ |-> IF @[k][1] = name THEN WithAttributeValue(@[k], T, v) ELSE @[k]]]

DropAttribute(d, e, name) ==
  IF Named(d, e, name) = {} THEN d
  ELSE [d EXCEPT !.node[e].attributes = SelectSeq(@, LAMBDA a : a[1] # name),
                 !.current["attribute"] = @ - 1]

\* SetValue(), and SetText(), which makes the text if there is none in front.
WithValue(d, n, value) == [d EXCEPT !.node[n].value = value]
WithText(d, e, T, v) ==
  IF IsText(d, d.node[e].first) THEN WithValue(d, d.node[e].first, ToStr(T, v))
  ELSE InsertFirstChild(Create(d, "text", ToStr(T, v), <<>>), e, Fresh(d))

\* A clone of a node of d in another document, or in the same.
ShallowClone(target, d, m) ==
  Create(target, d.node[m].kind, d.node[m].value, d.node[m].attributes)

\* Every node is cloned and put at the end of its parent's clone.
DeepClone(target, d, n) ==
  LET Clone(s, m) ==
        LET i == Fresh(s.d)  e == ShallowClone(s.d, d, m)
        IN [d |-> IF m = n THEN e ELSE InsertEndChild(e, s.of[d.node[m].parent], i),
            of |-> [s.of EXCEPT ![m] = i]]
  IN FoldLeft(Clone, [d |-> target, of |-> [m \in Nodes |-> Null]], Preorder(d, n))

\* The target is cleared; nodes outside the tree are not copied.
Copied(d) ==
  FoldLeft(LAMBDA t, n : LET c == DeepClone(t, d, n) IN InsertEndChild(c.d, Doc, c.of[n]),
           EmptyDom, Children(d, Doc))

-----------------------------------------------------------------------------
(* Asking.                                                                 *)

\* ToElementWithName(), and the first such node from n on.
IsNamed(d, n, name) == d.node[n].kind = "element" /\ d.node[n].value = name
Along(d, n, direction, name) ==
  LET Walk[i \in Nodes \cup {Null}, k \in 0 .. MaxNodes] ==
        IF i = Null \/ k = 0 THEN Null
        ELSE IF IsNamed(d, i, name) THEN i ELSE Walk[d.node[i][direction], k - 1]
  IN Walk[n, MaxNodes]

FirstChildElement(d, p, name)      == Along(d, d.node[p].first, "next", name)
LastChildElement(d, p, name)       == Along(d, d.node[p].last, "prev", name)
NextSiblingElement(d, n, name)     == Along(d, d.node[n].next, "next", name)
PreviousSiblingElement(d, n, name) == Along(d, d.node[n].prev, "prev", name)

\* What a query answers, and the values it may answer with.
Answer(e, values) == [error |-> e, values |-> values]

Converted(values, e) == IF values = {} THEN Answer(e, {}) ELSE Answer("none", values)

QueryValue(s, T) == Converted(ReadAs(T, s), "WRONG_ATTRIBUTE_TYPE")

QueryAttribute(d, e, name, T) ==
  IF Named(d, e, name) = {} THEN Answer("NO_ATTRIBUTE", {})
  ELSE QueryValue(d.node[e].attributes[CHOOSE k \in Named(d, e, name) : TRUE][2], T)

QueryText(d, e, T) ==
  LET t == d.node[e].first IN
  IF ~ IsText(d, t) THEN Answer("NO_TEXT_NODE", {})
  ELSE Converted(ReadAs(T, d.node[t].value), "CAN_NOT_CONVERT_TEXT")

\* The value, or the default of the caller.
Or(q, default) == IF q.error = "none" THEN q.values ELSE {default}
AttributeOr(d, e, name, T, default) == Or(QueryAttribute(d, e, name, T), default)
TextOr(d, e, T, default)            == Or(QueryText(d, e, T), default)

\* The value of an attribute, or what stands for nothing in its type.
ValueOf(s, T) == Or(QueryValue(s, T), IF T = "bool" THEN FALSE ELSE 0)

-----------------------------------------------------------------------------
(* Markup: an element is "open", "empty" or a "close" tag; what lacks its   *)
(* own end is "broken".  Characters between markup are of kind "text".      *)
Markup(kind, form, value, attributes) ==
  [kind |-> kind, value |-> value, attributes |-> attributes, form |-> form]
Chars(s)   == IF s = <<>> THEN <<>> ELSE <<Markup("text", "whole", s, <<>>)>>
IsBlank(s) == \A c \in Range(s) : IsWhiteSpace(c)

\* XMLPrinter: where a new line may stand, and the indentation.
Indent(depth)   == IF depth > 0 THEN <<Space>> ELSE <<>>
NewLine(pr, depth) ==
  IF pr.textDepth < 0 /\ ~ pr.compact THEN Chars(<<LF>> \o Indent(depth)) ELSE <<>>

PushAttribute(name, T, v) == <<name, PrintString(ToStr(T, v), FALSE)>>
Escaped(attributes) == [k \in DOMAIN attributes |->
                          PushAttribute(attributes[k][1], "string", attributes[k][2])]

OpenElement(pr, n) ==
  [pr EXCEPT !.out = @ \o (IF pr.compact THEN <<>>
                           ELSE Chars((IF pr.textDepth < 0 /\ ~ pr.first THEN <<LF>> ELSE <<>>)
                                      \o Indent(pr.depth)))
                       \o <<Markup("element", "open", n.value, Escaped(n.attributes))>>,
             !.opened = TRUE, !.first = FALSE, !.depth = @ + 1]

CloseElement(pr, n) ==
  LET depth == pr.depth - 1 IN
  [pr EXCEPT !.out = (IF pr.opened THEN Front(@) \o <<[Last(@) EXCEPT !.form = "empty"]>>
                      ELSE @ \o NewLine(pr, depth) \o <<Markup("element", "close", n.value, <<>>)>>)
                     \o (IF depth = 0 /\ ~ pr.compact THEN Chars(<<LF>>) ELSE <<>>),
             !.opened = FALSE, !.depth = depth,
             !.textDepth = IF @ = depth THEN -1 ELSE @]

PushTextForgetful(pr, n) ==
  [pr EXCEPT !.out = @ \o (IF n.kind = "text" THEN Chars(PrintString(n.value, TRUE))
                           ELSE <<Markup("cdata", "whole", n.value, <<>>)>>),
             !.opened = FALSE]

PushText(pr, n) ==
  [pr EXCEPT !.out = @ \o (IF n.kind = "text" THEN Chars(PrintString(n.value, TRUE))
                           ELSE <<Markup("cdata", "whole", n.value, <<>>)>>),
             !.opened = FALSE, !.textDepth = pr.depth - 1]

\* PushText() of a number or a truth value.
PushTyped(pr, T, v) == PushText(pr, XMLNode("text", ToStr(T, v), <<>>))

PushOther(pr, n) ==
  [pr EXCEPT !.out = @ \o (IF pr.first THEN <<>> ELSE NewLine(pr, pr.depth))
                       \o <<Markup(n.kind, "whole", n.value, <<>>)>>,
             !.opened = FALSE, !.first = FALSE]

\* Accept(): the visits of a node, and where an element is left.
Around(n, below) == <<<<n, FALSE>>>> \o below \o <<<<n, TRUE>>>>

Visits(d) ==
  LET Of[n \in Nodes] ==
        LET below == FlattenSeq([i \in DOMAIN Children(d, n) |-> Of[Children(d, n)[i]]])
        IN IF n = Doc THEN below
           ELSE IF d.node[n].kind = "element" THEN Around(n, below) ELSE <<<<n, FALSE>>>>
  IN Of[Doc]

NewPrinter(compact) == [out |-> <<>>, opened |-> FALSE, first |-> TRUE, depth |-> 0,
                        textDepth |-> -1, compact |-> compact]

Printed(d, compact) ==
  LET Visit(pr, v) ==
        LET n == d.node[v[1]] IN
        IF n.kind = "element" THEN IF v[2] THEN CloseElement(pr, n) ELSE OpenElement(pr, n)
        ELSE IF IsText(d, v[1]) THEN PushText(pr, n) ELSE PushOther(pr, n)
  IN FoldLeft(Visit, NewPrinter(compact), Visits(d)).out

\* What a document says: kinds, values, attributes and the order of the children.
Tree(d) ==
  LET Of[n \in Nodes] == <<d.node[n].kind, d.node[n].value, d.node[n].attributes,
                           [i \in DOMAIN Children(d, n) |-> Of[Children(d, n)[i]]]>>
  IN Of[Doc]

\* What the text of a document keeps of it.  Neighbouring texts become one, and
\* blank ones none; with indentation, that of an element goes into the text in
\* front of it.  What the parser refuses is written all the same.
Depth(d, n) == Cardinality({e \in Below(d, Doc) : n \in Range(Preorder(d, e))})
Strings(d, n) == {d.node[n].value} \cup {a[2] : a \in Range(d.node[n].attributes)}

Plain(d, compact) ==
  /\ Below(d, Doc) # {}
  /\ \A n \in Below(d, Doc) :
       LET me == d.node[n] Kind(i) == IF i = Null THEN "none" ELSE d.node[i].kind IN
       /\ me.kind = "text" => /\ ~ IsBlank(me.value) /\ me.parent # Doc
                              /\ Kind(me.next) # "text"
                              /\ Kind(me.next) = "element" => compact
       /\ me.kind = "declaration" => me.parent = Doc /\ Kind(me.prev) \in {"none", "declaration"}
       /\ me.first # Null => Depth(d, n) + 1 < MaxDepth
       /\ \A s \in Strings(d, n) : CR \notin Range(s)

-----------------------------------------------------------------------------
NoCopy == [said |-> <<>>, compact |-> TRUE, plain |-> FALSE]

Init ==
  /\ dom = EmptyDom /\ error = "none" /\ at = "idle" /\ input = <<>>
  /\ stack = <<>> /\ spoiled = FALSE /\ copy = NoCopy

\* A call of the program that changes the nodes alone.  A document that failed
\* to load is cleared or read again, never edited: that is a bound.
Edit(d) ==
  /\ at = "idle" /\ error = "none" /\ ~ spoiled /\ dom' = d
  /\ UNCHANGED <<error, at, input, stack, spoiled, copy>>

IsElement(n) == dom.node[n].kind = "element"
Owner(n)     == n = Doc \/ IsElement(n)
\* What the callers of the Insert methods see to.
MayHold(p, c) == Owner(p) /\ c \in Live(dom) /\ p \notin Range(Preorder(dom, c))

New(kind, value) == HasRoom(dom) /\ Edit(Create(dom, kind, value, <<>>))
InsertEnd(p, c)  == MayHold(p, c) /\ Edit(InsertEndChild(dom, p, c))
InsertFirst(p, c) == MayHold(p, c) /\ Edit(InsertFirstChild(dom, p, c))
InsertAfter(p, a, c) ==
  /\ MayHold(p, c) /\ a \in Live(dom) /\ dom.node[a].parent = p /\ ~ Detaches(dom, a, c)
  /\ Edit(InsertAfterChild(dom, p, a, c))
Delete(c)        == c \in Live(dom) /\ Edit(DeleteNode(dom, c))
DeleteAll(p)     == Owner(p) /\ Edit(DeleteChildren(dom, p))
SetAttribute(e, name, T, v)  == IsElement(e) /\ Edit(PutAttribute(dom, e, name, T, v))
DeleteAttribute(e, name)     == IsElement(e) /\ Edit(DropAttribute(dom, e, name))
CloneDeep(c) ==
  /\ c \in Live(dom)
  /\ Cardinality(Live(dom)) + Len(Preorder(dom, c)) <= MaxNodes
  /\ Edit(DeepClone(dom, dom, c).d)

SetValue(c, value) == c \in Live(dom) /\ Edit(WithValue(dom, c, value))

SetText(e, T, v) ==
  /\ IsElement(e) /\ (IsText(dom, dom.node[e].first) \/ HasRoom(dom))
  /\ Edit(WithText(dom, e, T, v))

Clear ==
  /\ at = "idle" /\ dom' = Cleared(dom) /\ error' = "none"
  /\ UNCHANGED <<at, input, stack, spoiled, copy>>

\* SaveFile() forgets the error of what was done before.
SaveFile(opens) ==
  /\ at = "idle" /\ error' = IF opens THEN "none" ELSE "FILE_COULD_NOT_BE_OPENED"
  /\ UNCHANGED <<dom, at, input, stack, spoiled, copy>>

\* The copy takes the place of the document.
DeepCopy ==
  /\ at = "idle" /\ error = "none" /\ ~ spoiled
  /\ copy' = [said |-> Tree(dom), compact |-> TRUE, plain |-> TRUE]
  /\ dom' = Copied(dom) /\ at' = "reread"
  /\ UNCHANGED <<error, input, stack, spoiled>>

-----------------------------------------------------------------------------
(* Parsing.                                                                *)

\* Where Parse() ends; a failed parse of a text leaves nothing, neither nodes
\* nor counts; one of a file leaves what it had inserted, and the counts.
Done(d, rest) ==
  /\ dom' = d /\ input' = rest /\ UNCHANGED <<error, stack, spoiled, copy, at>>

Idle == IF copy = NoCopy THEN "idle" ELSE "reread"

Finish ==
  /\ at' = Idle /\ input' = <<>> /\ stack' = <<>>
  /\ UNCHANGED <<error, dom, spoiled, copy>>

Fail(d, e) ==
  /\ error' = e /\ at' = Idle /\ input' = <<>> /\ stack' = <<>>
  /\ dom' = IF at = "text" THEN EmptyDom
             ELSE Erase(d, UNION {Range(Preorder(d, n)) : n \in d.unlinked})
  /\ spoiled' = (at = "file" /\ (spoiled \/ d.unlinked # {}))
  /\ UNCHANGED copy

\* Parse() and LoadFile() clear the document first, whatever comes then.
Begin(source, text) ==
  /\ at = "idle" /\ dom' = Cleared(dom) /\ UNCHANGED <<stack, spoiled>>
  /\ LET bad == CASE source = "missing" -> "FILE_NOT_FOUND"
                  [] source # "missing" /\ \A m \in Range(text) : m.kind = "text" /\ IsBlank(m.value)
                     -> "EMPTY_DOCUMENT"
                  [] OTHER -> "none"
     IN /\ error' = bad
        /\ at'    = IF bad = "none" THEN source ELSE Idle'
        /\ input' = IF bad = "none" THEN text ELSE <<>>

\* One failed LoadFile() at a time: each leaves its counts to the next.
Load(source, text) ==
  /\ source = "file" => ~ spoiled
  /\ UNCHANGED copy /\ Begin(source, text)

Reread(compact) ==
  /\ copy' = [said |-> Tree(dom), compact |-> compact, plain |-> Plain(dom, compact)]
  /\ Begin("text", Printed(dom, compact))

\* The program has compared the two and clears the document.
Compare ==
  /\ at = "reread" /\ at' = "idle" /\ copy' = NoCopy /\ dom' = Cleared(dom) /\ error' = "none"
  /\ UNCHANGED <<input, stack, spoiled>>

Level == IF stack = <<>> THEN Doc ELSE Last(stack)

\* Identify(): characters up to the next markup; blank ones are skipped.
RunLength == Cardinality({k \in DOMAIN input : \A j \in 1 .. k : input[j].kind = "text"})
Run       == FlattenSeq([k \in 1 .. RunLength |-> input[k].value])
Rest      == SubSeq(input, RunLength + 1, Len(input))
Parsing   == at \in {"text", "file"}

\* The next piece of markup, when nothing but blanks is in front of it.
Ahead(kinds, forms) ==
  /\ Parsing /\ IsBlank(Run) /\ Rest # <<>>
  /\ Head(Rest).kind \in kinds /\ Head(Rest).form \in forms

ParseChars ==
  /\ Parsing /\ ~ IsBlank(Run)
  /\ \E d \in {Create(dom, "text", GetStr(Run, TRUE, FALSE), <<>>)} :
     IF Rest = <<>> THEN Fail(d, "PARSING_TEXT")
     ELSE Done(InsertEndChild(d, Level, Fresh(dom)), Rest)

\* A declaration stands in front of everything that is none.
WellLocated ==
  /\ Level = Doc
  /\ dom.node[Doc].first # Null =>
       \A i \in {dom.node[Doc].first, dom.node[Doc].last} : dom.node[i].kind = "declaration"

ErrorOf == [kind \in Kinds |-> CASE kind = "cdata"   -> "PARSING_CDATA"
                                [] kind = "comment" -> "PARSING_COMMENT"
                                [] kind = "declaration" -> "PARSING_DECLARATION"
                                [] kind = "unknown" -> "PARSING_UNKNOWN"
                                [] OTHER -> "PARSING_ELEMENT"]

ParseLeaf ==
  /\ Ahead(Kinds \ {"element", "text"}, {"whole", "broken"})
  /\ \E m \in {Head(Rest)} : \E d \in {Create(dom, m.kind, GetStr(m.value, FALSE, FALSE), <<>>)} :
     CASE m.form = "broken" -> Fail(d, ErrorOf[m.kind])
       [] m.form = "whole" /\ m.kind = "declaration" /\ ~ WellLocated
          -> Fail(d, "PARSING_DECLARATION")
       [] OTHER -> Done(InsertEndChild(d, Level, Fresh(dom)), Tail(Rest))

Unescaped(attributes) == [k \in DOMAIN attributes |->
                            <<attributes[k][1], GetStr(attributes[k][2], TRUE, FALSE)>>]
Twice(attributes) == \E j, k \in DOMAIN attributes : j # k /\ attributes[j][1] = attributes[k][1]

\* The element that a tag makes.  An open one is active until its end tag; the
\* parser counts its own levels, and has one when there is no element yet.
ParseElement ==
  /\ Ahead({"element"}, {"open", "empty", "broken"})
  /\ \E m \in {Head(Rest)} :
     \E d \in {Create(dom, "element", m.value,
                       IF m.form = "broken" \/ Twice(m.attributes) THEN <<>>
                       ELSE Unescaped(m.attributes))} :
        CASE m.form = "broken"   -> Fail(d, "PARSING_ELEMENT")
          [] m.form # "broken" /\ Twice(m.attributes) -> Fail(d, "PARSING_ATTRIBUTE")
          [] m.form = "empty" /\ ~ Twice(m.attributes)
             -> Done(InsertEndChild(d, Level, Fresh(dom)), Tail(Rest))
          [] m.form = "open" /\ ~ Twice(m.attributes) /\ Tail(Rest) = <<>>
             -> Fail(d, "MISMATCHED_ELEMENT")
          [] m.form = "open" /\ ~ Twice(m.attributes) /\ Len(stack) + 2 = MaxDepth
             /\ Tail(Rest) # <<>> -> Fail(d, "ELEMENT_DEPTH_EXCEEDED")
          [] OTHER -> /\ dom' = d /\ input' = Tail(Rest) /\ stack' = Append(stack, Fresh(dom))
                      /\ UNCHANGED <<error, at, spoiled, copy>>

\* The element of the end tag is made and deleted again.  Outside of every
\* element an end tag ends the document, and nobody looks at the rest.
ParseClose ==
  /\ Ahead({"element"}, {"close"})
  /\ \/ stack = <<>> /\ Finish
     \/ /\ stack # <<>>
        /\ LET e == Last(stack) outer == Front(stack) IN
           IF dom.node[e].value # Head(Rest).value THEN Fail(dom, "MISMATCHED_ELEMENT")
           ELSE /\ dom' = InsertEndChild(dom, IF outer = <<>> THEN Doc ELSE Last(outer), e)
                /\ input' = Tail(Rest) /\ stack' = outer
                /\ UNCHANGED <<error, at, spoiled, copy>>

ParseEnd ==
  /\ Parsing /\ IsBlank(Run) /\ Rest = <<>>
  /\ IF stack = <<>> THEN Finish ELSE Fail(dom, "PARSING")

ParseStep == ParseChars \/ ParseLeaf \/ ParseElement \/ ParseClose \/ ParseEnd

Written == {ToStr(w[1], w[2]) : w \in Values}

Change ==
  \/ \E kind \in Makes, value \in Names \cup Written :
       /\ value \in IF kind = "element" THEN Names ELSE Written
       /\ New(kind, value)
  \/ \E c \in Item : \E value \in IF IsElement(c) THEN Names ELSE Written : SetValue(c, value)
  \/ \E p \in Nodes, c \in Item :
       InsertEnd(p, c) \/ InsertFirst(p, c) \/ \E a \in Item : InsertAfter(p, a, c)
  \/ \E c \in Item : Delete(c) \/ CloneDeep(c)
  \/ \E p \in Nodes : DeleteAll(p)
  \/ \E e \in Item, name \in Names :
       DeleteAttribute(e, name) \/ \E w \in Values : SetAttribute(e, name, w[1], w[2])
  \/ \E e \in Item, w \in Values : SetText(e, w[1], w[2])
  \/ Clear

Read ==
  \/ \E source \in {"text", "file"}, text \in Texts : Load(source, text)
  \/ Load("missing", <<>>)
  \/ \E compact \in BOOLEAN : Reread(compact)
  \/ \E opens \in BOOLEAN : SaveFile(opens)
  \/ DeepCopy

Next == Change \/ Read \/ Compare \/ ParseStep

Spec == Init /\ [][Next]_vars

-----------------------------------------------------------------------------
\* The links of the nodes agree: every child knows its parent, neighbours know
\* each other, the ends are the ends, and the nodes without a parent are those
\* _unlinked lists (Unlink(), the three Insert methods, MarkInUse()); and who
\* walks the elements of a name finds the same forwards and backwards.
LinksAgree ==
  LET N == dom.node  Kin(p) == {i \in Live(dom) : N[i].parent = p} IN
  /\ dom.unlinked = Kin(Null)
  /\ \A p \in Live(dom) \cup {Doc} : Range(Children(dom, p)) = Kin(p)
  /\ \A p \in Live(dom) \cup {Doc} :
       LET c == Children(dom, p) IN
       /\ N[p].last = IF c = <<>> THEN Null ELSE Last(c)
       /\ \A k \in DOMAIN c : N[c[k]].prev = IF k = 1 THEN Null ELSE c[k - 1]
       /\ \A name \in Names :
            LET es == SelectSeq(c, LAMBDA i : IsNamed(dom, i, name))
                Nth(k) == IF k \in DOMAIN es THEN es[k] ELSE Null
            IN /\ FirstChildElement(dom, p, name) = Nth(1)
               /\ LastChildElement(dom, p, name) = Nth(Len(es))
               /\ \A k \in DOMAIN es :
                    /\ NextSiblingElement(dom, es[k], name) = Nth(k + 1)
                    /\ PreviousSiblingElement(dom, es[k], name) = Nth(k - 1)

\* The pools hand back what they handed out: their counts are those of the
\* items in use, and of the nodes that never got a place; that is what Clear()
\* asserts at its end.  A failed LoadFile() spoils the second count.
PoolsBalance ==
  \A p \in Pools :
    /\ dom.current[p] = Held(dom, Live(dom), p)
    /\ ~ spoiled => dom.untracked[p] = IF p = "attribute" THEN 0 ELSE Held(dom, dom.unlinked, p)

\* What was printed and is parsed again, or copied, is the document it was.
RoundTrip ==
  at = "reread" /\ copy.plain => error = "none" /\ Tree(dom) = copy.said

\* What is stored as a value of a type, in an attribute or a text, is that value
\* when it is read, as that type or as another that holds it, directly or from
\* what was printed; the default of a caller is for what is not there or is no
\* such value (ToStr(), the Query methods, those with a default).
TypedReads ==
  at = "idle" /\ ~ spoiled =>
  \A e \in Live(dom) : IsElement(e) => \A w \in Samples, name \in Names :
    LET put == PutAttribute(dom, e, name, w[1], w[2])
        set == WithText(dom, e, w[1], w[2])
        quoted == GetStr(PushAttribute(name, w[1], w[2])[2], TRUE, FALSE)
        free   == GetStr(Head(PushTyped(NewPrinter(TRUE), w[1], w[2]).out).value, TRUE, FALSE)
        Other(T) == IF \E u \in Samples : u[1] = T THEN (CHOOSE u \in Samples : u[1] = T)[2] ELSE w[2]
        Is(T) == T = w[1] \/ (w[1] \notin {"bool", "string"} /\ Holds(T, w[2]))
    IN \A T \in ValueTypes :
         /\ Is(T) => /\ AttributeOr(put, e, name, T, Other(T)) = {w[2]}
                     /\ ValueOf(quoted, T) = {w[2]} /\ ReadAs(T, free) = {w[2]}
                     /\ HasRoom(dom) \/ IsText(dom, dom.node[e].first) =>
                          TextOr(set, e, T, Other(T)) = {w[2]}
         /\ w[1] = "bool" /\ T \in Integral => QueryAttribute(put, e, name, T).error = "WRONG_ATTRIBUTE_TYPE"

\* The document is the forest its users see: no call, and no parse that fails,
\* puts a node in two places or loses one that it did not delete.
Forest == INSTANCE DocumentForest WITH
  Root <- Doc, live <- Live(dom),
  children <- [p \in Nodes |-> IF p \in Live(dom) \cup {Doc} THEN Children(dom, p) ELSE <<>>]
KeepsForest == Forest!Spec
=============================================================================
