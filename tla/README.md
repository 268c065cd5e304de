# Verification of AI-TopGun-Pilot

The repository is the decision program of an air-combat pilot: a behaviour tree
engine (a modified BehaviorTree.CPP v3, statically linked), the XML and
FlatBuffers libraries it is built with, the nodes of one pilot (`BT_Content/`),
the tree they are arranged in (`Rule.xml`) and the glue that runs it once per
simulation step (`CPPBehaviorTree.cpp`). This directory holds TLA+ models of it,
the TLC runs that check them and theorems that TLAPS has checked.
`PROJECT.json` lists components, runs, mutants, hazards, findings and theorems,
and says for every definition which source lines it models. Paths below are
relative to `src/`; `behaviortree_cpp_v3/` is the copy of the headers that the
models go by, the headers at the top level of `src/` repeat them.

## 1. Inventory

| component | state | operations | calls and shares with |
|---|---|---|---|
| **Node base** (`tree_node.cpp`, `control_node.cpp`, `decorator_node.cpp`) | `status_` of each node, behind a mutex | `executeTick`, `setStatus`, `halt`, `haltChild`, `haltChildren`, the reset of a decorated child | called by the parent; `setStatus` also by the thread of an asynchronous action |
| **Control nodes** (`controls/`, `switch_node.h`) | `current_child_idx_`, `skip_list_`, `running_child_` | `tick`, `halt` of seven classes | tick and halt their children |
| **Decorators** (`decorators/`) | `try_index_` of Repeat and Retry | `tick`, `halt` of seven classes | tick, halt and reset their child |
| **TimeoutNode** (`timeout_node.cpp`) | its flags, a mutex, a timer | `tick`, the handler, destruction | the timer's thread halts the child |
| **Leaves** (`action_node.cpp`, `condition_node.cpp`) | `halt_requested_`, a `std::future` | Sync, Simple, Stateful, Async actions, conditions | an AsyncActionNode starts a thread per activation |
| **Tree** (`bt_factory.h`, `behavior_tree.cpp`) | the nodes | `tickRoot`, `haltTree`, `applyRecursiveVisitor` | called by the owner of the tree |
| **Timer queue** (`decorators/timer_queue.h`) | a heap of work items, a semaphore, `m_finish`, `m_idcounter` | `add`, `cancel`, `cancelAll`, the worker's `run`, the destructor | callers on any thread; handlers on the worker's |
| **XML parser, factory** (`xml_parsing.cpp`, `bt_factory.cpp`) | builders and manifests, the opened documents, `tree_roots` | register, unregister, load, verify, instantiate | reads documents, builds nodes, attaches them, declares ports |
| **Blackboard, ports, values** (`blackboard.h`, `safe_any.hpp`, `convert_impl.hpp`, `basic_types.cpp`) | entries with a value and a type, remappings to the parent | `get`, `set`, `setPortInfo`, `addSubtreeRemapping`, `getInput`, `setOutput`, casts | every node that has ports |
| **XML document library** (`tinyxml2.cpp`) | nodes in linked lists, `_unlinked`, memory pools with two counters each, the error | create, insert, move, delete, clone, set, parse, print, typed reads | used by the parser, and by any program that edits documents |
| **Signals and loggers** (`utils/signal.h`, `loggers/abstract_logger.h`, `bt_flatbuffer_helper.h`) | weak subscribers, switches of a logger | `subscribe`, `notify`, snapshot, transition | called by `setStatus` on any thread |
| **FlatBuffers** (`flatbuffers.h`, `BT_logger_generated.h`) | a buffer that grows downwards, scratch space, vtables | build, finish, clear, verify, read | used by the snapshot |
| **Pilot** (`CPPBehaviorTree.cpp`, `CPPBlackBoard`) | the shared `CPPBlackBoard`, positions of the last step | `init`, `SetDeltaTime`, `Step` | ticks the tree; its output goes to a stick controller outside this repository |
| **Combat tree** (`Rule.xml`, `BT_Content/`) | the fields of `CPPBlackBoard` | services write them, decorators (checks) read them, tasks choose a point and a throttle | all within one tick |
| shared libraries, vendored `expected`, `any`, `string_view` | - | - | used as they are |

What is hard in it, and so what the properties are about:

* **The protocol between a parent and a child.** `haltChild()` looks no further
  than the first child that is not RUNNING (`control_node.cpp:44-52`), Parallel
  reads the status of a child it does not tick (`parallel_node.cpp:67`), a
  SequenceStar, a Repeat and a Switch remember an index over ticks. Each relies
  on what long sequences of ticks, halts and resets leave in *other* nodes.
* **Threads of asynchronous actions** store their result at any moment; a
  decorator reads a status twice; `halt()` waits for the thread; subscribers are
  told after the mutex is released.
* **Exceptions** leave `tickRoot()` through all frames; the owner that catches
  one goes on with `haltTree()`. A load or an instantiation that throws leaves
  what it had done so far.
* **Names.** Which nodes `haltTree()` visits, and which children the XML parser
  attaches, depends on the *name* of a node being the ID of its type.
* **The timer queue**: callers, worker, handlers and destructor interleave
  between every critical section and the signal that follows it.
* **Timeout**: its handler runs on the timer's thread and halts the child there.
* **Types at a distance**: one entry is declared and written through several
  boards, by nodes of several trees, in an order the document decides.
* **Linked lists over pools**: a node is in a list, or unlinked, or freed, and
  two counters per pool must say the same, through clones, moves, failed parses.
* **Bytes**: a builder whose buffer moves under it, shared vtables, values
  stored over each other.
* **The pilot**: values of an earlier step are used in a later one.

What makes each part correct: of the nodes, that nothing is left running where
no halt reaches it, that a verdict follows from the children's results, that
calls return; of the tree, that `haltTree()` stops and resets it; of the queue,
that every handler runs once and learns the truth, that no wakeup is lost; of
the parser, that every node of the document becomes a child of its parent; of
the blackboard, that an entry with a type keeps to it, and so do its ports, and
that a number read is the number written; of documents, that links, lists and counts agree and what is printed
reads back; of a log, that it replays to the present; of the pilot, that a
manoeuvre is chosen from values of this step and inside its own window, and that
the stick controller is given this step's pose and the waypoint just chosen.
`PROJECT.json` "hazards" lists the places.

## 2. Modules

    TreeNode           statuses, call stack, executeTick/halt/haltChild
      ControlNodes     tick() of controls/
      DecoratorNodes   tick() of decorators/, Timeout apart
      ActionNodes      the leaves and the threads of asynchronous actions
        BehaviorTree   Tree::tickRoot, Tree::haltTree; Next, properties, fairness
          MCBehaviorTree
          BehaviorTree_proofs, RunningNodes_proofs, Results_proofs
    TimerService       abstract: what the timer queue promises
    TimerQueue         the queue, its worker, its callers, its destructor
      MCTimerQueue, TimerQueue_proofs
    TimeoutNode        a Timeout over one leaf, composed with TimerService
      TimeoutNode_proofs
    Values             Any, casts, conversions
      Blackboard       boards, entries, remapping
        Loader         registry, XMLParser, construction, ports
          MCLoader, Loader_proofs
    XMLText            characters: entities, white space, UTF-8, printing
      XMLValues        typed values as text
        XMLDocument    the document, its editing, parsing and printing
          MCDocument
    DocumentForest     abstract: what a document promises its users
    CombatNodes        tick() of every service, check and task
      Pilot            init, Step and the walk through the rule
        CombatRule     Rule.xml
          MCPilot, Pilot_proofs
    FlatBuffer         builder, reader, verifier, byte by byte
      Serialization    the schema of the loggers
        TreeLog        signal, loggers, snapshots, transitions
          MCTreeLog, TreeLog_proofs

Modules whose name begins with MC give the constants of the runs their values.

### The engine: TreeNode, ControlNodes, DecoratorNodes, ActionNodes, BehaviorTree

*Parameters.* `Node`, `Children`, `Parent` and `Root` are one tree; `Trees` is a
set of assignments of a type (`kind`) and of the type's parameter (`param`: the
threshold of a Parallel, the tries of a loop, the number of cases of a Switch,
what a BlackboardCheck returns on a mismatch) to its nodes. `Init` picks one, so
that one run goes through all of them. `DefaultNamed` are the nodes whose
instance name is the ID of their type.

*State.* `status`, `idx` (`current_child_idx_`, `try_index_` or
`running_child_`), `skip` (`skip_list_`), `thread` and `haltRequested` are
members of the nodes. The C++ call stack is a path of the tree, since a node
calls only its children and is called only by its parent: `at[n]` says where the
frame of `n` stands, `cur` is the node on top, and `loc`, `todo` and `out` are
the locals that outlive a call (the loop index, the children still to be halted,
the value to be returned). `op` and `visit` are the method of the Tree that is
running and the stack of its visitor. `got[n]` is what `executeTick()` of `n`
returned last; a parent takes it when the call returns.

*Steps.* One step runs the top frame to its next call or return. This is as fine
as the threads of asynchronous actions can see: between two steps a thread may
store its result. `status` of an asynchronous child is read where the code reads
it - by `AsyncRead`, by `HaltChild`, by `ResetChild` - and not from what an
earlier read returned. `halt()` and the `setStatus(IDLE)` that every caller of
it does next are one step (`Halted`), whose guard is the wait for the thread.
An exception (`Throw`, `SyncThrow`) empties the stack and leaves statuses and
indices as they are.

*Environment.* What a leaf decides, whether two blackboard values agree, which
case a Switch selects and when a thread ends are free. The owner ticks and halts
in any order; after an exception it can only halt, as a caller that recovers does.

*Left out*: subscribers of status changes (TreeLog), the mutex of a status, Timeout (a
module of its own), CoroActionNode (compiled out), the port lookups of Parallel and Repeat
(their parameters are constant), a StatefulActionNode that returns IDLE.

### The timer: TimerService, TimerQueue

A critical section of `m_mtx` is one action, a call of the semaphore another, so
that `add()` is three (`AddCall`, computing the time; `AddPush`, under the lock;
`Notify`), and `checkWork()` unlocks between taking an item (`Take`) and calling
its handler (`CallHandler`). `m_items` is a set of work items: `end`, `id` (0 for
a cancelled one) and the handler, which is named by the id its timer was given;
`Tops` lets the heap return any of the earliest. Handlers may call `add`,
`cancel` and `cancelAll` when `HandlersCall` is TRUE. `~TimerQueue()` is
`Destroy`, `DestroyAdd`, the rest of `add()`, and `Join`. The variables `due`,
`cancelled`, `expired` and `aborted` are history: they record what was promised
and what was done and guard nothing. A `cancel()` that finds no item changes
nothing and has no action.

`TimerService` is the queue without lock, heap, semaphore or thread: timers are
added, promised to be aborted, and run once, as expired when their time has come
or as aborted when that was promised. Its variables are the history variables
(`Service` instantiates it with `added <- m_idcounter`).

### The timeout: TimeoutNode

One Timeout at the root, one leaf below it - a StatefulActionNode or an
AsyncActionNode with its thread - and the two threads that may halt that leaf:
the owner's (`at`: `tickRoot()`, `haltTree()`, destruction) and the worker of
the node's timer (`hat`: where it stands in the handler of timer `handler`).
The timer is `Timer == INSTANCE TimerService`, the abstract service and not the
queue: the node relies on nothing else, and `KeepsPromises` says that the queue
keeps to it. `tick()` is cut at every point where the other thread can come in
between: the call of `add()`, the lock, the return of the child, the call of
`cancel()` without the lock, the second lock, the reset that
`DecoratorNode::executeTick()` does when the lock is gone. `halt()` of the owner
is DecoratorNode's: it takes no lock and does not touch `timeout_started_` or
the timer. The two reads of `status()` by the handler (`timeout_node.cpp:61`
and in `haltChild()`) are one step: a child that ends between them is reset as
well. `since` is history. `~TimeoutNode()` is `Destroy`, the destruction of the
mutex is the step to `at = "join"`, and `Joined` is the end of `~TimerQueue()`.
A timer that is due may be missed by a `cancel()` or `cancelAll()` that comes
when the worker has just taken it, one at a time. `msec` is constant, a missing port is
left out.

### The loader: Values, Blackboard, Loader

`Values` and `Blackboard` have no state of their own. An `Any` is a record of
the type it was given, the type it keeps (`safe_any.hpp:61-95` widens every
number but a double to 64 bits) and the value; `ConvertNumber` is the family of
`convertNumber()` with its limit checks and `checkTruncation()`, `Size` how many
numbers an integer type has, `Mantissa` how many halves in a row a double holds:
numbers are counted in halves so that a double can be truncated, and an integer
too long for a double is rounded to the nearest one (`AsDouble`, ties to the even
last digit), which the way there and back then refuses. A board
is a record of `storage_`, `internal_to_external_` and `parent_bb_`; `Path` goes up
through remappings as `getAny()` and `set()` do, all mutexes on the way held, so
each call is one step. What such a call does on its way back through the boards is
said of all of them at once: `WithEntries` for the boards below (`Virgins`) or up to
the one that throws (`SetPortInfo`), `Store` for the one that holds the value.

`Loader` has the registry, the parser and the tree under construction. The two
recursions of the code are stacks: `loading`, the documents in `loadDocImpl()`
each with its next `<include>`, and `todo`, the elements `recursiveStep()` has
still to visit; each step of them is an action, so that an exception can end the
call halfway, with boards, documents and `tree_roots` as they are by then.
`VerifyXML` is the predicate over all elements of a document. `MakeNode` is
`createNodeFromXML()`: ID, name, ports, the types it declares on the board and
the check of them, remapped keys, attachment *by the name* of the parent. A tree
that was built lives on in `at = "built"`, where nodes and the program read and
write (`GetInput`, `SetOutput`, `TickSetBlackboard`, `BoardGet`, `BoardSet`)
until it is destroyed; the board of the program survives it, as `main` would
keep it, and so do the documents of a parser used again.

*Assumed*: what the code relies on without a check (`DocumentsAssumption`): a
document has a root, no document includes itself, a SubTree names a tree and no
control node, a path has a directory; elements are nested (`NestingAssumption`),
the factory registers SubTree itself (`ManifestAssumption`), and what the program
writes as a number of a type is one (`WritesAssumption`). *Left out*: `loadFromText()` (as loading), the XML of the
registered nodes (`writeTreeNodesModelXML`), plugins, `modifyPortsRemapping()`.

### The document: XMLText, XMLValues, XMLDocument, DocumentForest

`XMLText` translates the functions on characters: `StrPair` (entities,
references, line ends, white space), `ConvertUTF32ToUTF8`, what the printer
writes for a string. `XMLValues` is `ToStr()` and its readers over `sscanf`;
what C leaves undefined is a set of outcomes.

`dom` in `XMLDocument` is the heap: nodes with `parent`, `prev`, `next`,
`first`, `last`, the list `_unlinked`, and per pool `CurrentAllocs` and
`Untracked`. The methods of XMLNode and XMLDocument are operators on it, made of
the same calls in the same order (`InsertAfterChild` unlinks in its preamble
before it looks at `_next`). The recursive descent of the parser is the stack of
the elements it is in, one step per piece of markup. A text is a sequence of
pieces of markup and of bytes between them, so that a broken piece is a piece
too. `Reread` prints the document and parses the result; `copy` keeps the tree
it was. `DocumentForest` knows only which nodes exist and the children of each.

*Left out*: the byte order mark, line numbers, XMLHandle, visitors other than
the printer, deep recursion beyond `MaxDepth` (100 in the code, 3 in the runs).

### The pilot: CombatNodes, Pilot, CombatRule

`CombatNodes` has one operator per class of `BT_Content/`, from a `CPPBlackBoard`
to the set of outcomes, a status and a blackboard. Distances, angles and
altitudes are tables over the places and headings of an instance, in metres and
degrees, thresholds are those of the code; a waypoint is a record of what it was
made of (which task, whose place, whose axes, which way). Where a task depends
on geometry below that, its outcomes are all there are; an angle of zero-length
vectors is `NaN`, which compares as floats do.

All leaves are synchronous, so `Pilot` runs the tree as a walk from leaf to
leaf: `Walk` is what Sequence and Fallback do between two leaves (`Onward` is one
call or return), and agrees with `ControlNodes` for trees without RUNNING.
`Opens` and `Closes` are the lines of the file on which an element begins and
ends; no action reads them, they say that elements are nested. `CombatRule` is
the content of `Rule.xml`. A leaf that returns RUNNING from a
SyncActionNode throws (`LeafThrows`); `Step()` ends there, and the next tick
resumes at that leaf, or at the DECO_CounterAttackCheck above it, which asks
`IsCounterAttack` again (`Resumption`). The host picks the planes of every
`Step()` anew. `out` is what a `Step()` gives out: the waypoint for the caller
(`vp`), and what the stick controller is called with, a pose (`from`) and a
waypoint (`to`). What `normalizeAngleDelta()` does (it has no body under `src/`)
is a table of the instance, `Normalized`.

*Left out*: RunningTime, Team, ACM, magnitudes and the history of positions but
for `PredictManeuver`. *Assumed* (`RuleAssumption`): at most four other planes,
and a DECO_CounterAttackCheck stands right above a leaf.

### The log: FlatBuffer, Serialization, TreeLog

`FlatBuffer` works on the bytes: `vector_downward` with its growth, the scratch
space for fields and vtables, `EndTable` with the search for an equal vtable,
padding, and the verifier's checks. `Serialization` has the five tables of the
schema, each with what creates, verifies and reads it, and
`SerializeTransition`. `Require` stands for `FLATBUFFERS_ASSERT`: a builder that
failed one stays failed.

`TreeLog` adds the threads. `SetStatus` writes the status under the mutex,
`Notify` calls one subscriber at a time, afterwards, so that another thread may
set a status in between. A logger subscribes to every node the visitor reaches,
in its constructor, one step; its callback is one step. `SerializeNode`,
`SerializeModel` and `SerializeEnd` write the snapshot node by node into a
builder that is kept for the next one. `Backwards` says in which order a build
evaluates the arguments of a call, which decides the layout of the buffer.
Each round of the loop of `notify()`, and the subscription of a whole logger, is
one step. `subscribers_` (`signal.h:45`) has no lock: the signal of an
asynchronous action is raised by its thread as well as by the main thread, while
the main thread may subscribe, so that in the code two rounds, or a round and an
`emplace_back()`, can overlap and break the vector. That data race is not
modelled; neither are its outcomes. The properties of the log are about the nodes
that the main thread alone changes.
*Left out*: depth and table limits of the verifier, size prefixes, moves of a
builder, bodies of the concrete loggers, which are not in this repository.

### Faulty variants

An operator whose name ends in `Silent`, `Stuck`, `Forgetful`, `Shallow`,
`Eager`, `Late` or `Swapped` stands before the definition it distorts, with one
guard, reset or signal wrong. No action uses it. `PROJECT.json` "mutants" puts
each in the place of its original, and TLC then finds the property named there
violated: every checked property can be broken by a plausible mistake.

## 3. Runs

All runs are exhaustive. For the engine the shape of `control_trees` is a root
over (a control node with two leaves) and a leaf: the smallest in which a control
node is at the root and below another, has a sibling, and a child that is
skipped, resumed or abandoned beside another. For the decorators it is a root
over (a chain of two decorators over a leaf) and a leaf. Every type stands at
every place the run is about; thresholds are 1 and 2, loops try twice (enough
for a second try on an old result), a Switch has one case and a default.

| run | instances and bounds | checks | shows |
|---|---|---|---|
| `control_trees` | 7 x 7 control types over synchronous, stateful and asynchronous leaves; trees with leaves that throw | `NoOrphans`, `OneRunningChild`, `SkippedAreDone`, `HaltStops`, `HaltForgets`, `ThreadIsRunning`, `Verdicts`, `CallsReturn`, `RootDecides` | no running node and no thread is left where no halt reaches it, also after an exception; a halt takes the nodes it visits by name back to their construction; verdicts follow from the children's results over many ticks; with threads ending at any point ticks and halts return, and resuming trees decide |
| `decorators` | chains of 7 x 7 decorators under Sequence, Parallel and ReactiveFallback over asynchronous, synchronous and throwing leaves | `NothingLeft`, `CallsReturn` | the reset after each tick is safe and complete, a halt goes through the chain and stops the thread |
| `timer_queue` | 2 clients (symmetric), handlers that call the queue, delays 0 and 2, 3 timers, time to 3, 2 pending signals | `RunsOnce`, `AbortsKept`, `NoOversleep`, `KeepsPromises` | every handler runs at most once and is never lost, is told the truth, no wakeup is lost; the queue implements `TimerService` |
| `timer_liveness` | 1 client, no calls from handlers, delays 1 and 2, 3 timers | `QueueEmptyAtExit`, `EveryHandlerRuns`, `DestructorReturns` | each handler runs, the destructor returns, nothing is left |
| `timeout` | durations 0 (no timer) and 1, 2 timers, time to 3; a stateful and an asynchronous leaf | `NotHaltedInTick`, `ThreadIsRunning`, `CallsReturn`, `ExpiryStops`, `TimeoutSurfaces` | the mutex keeps handler and tick apart, no thread outlives the halts of two threads, nobody waits for ever, an expired timer stops the child and is reported |
| `loader` | nine documents, one include, one subtree with a board of its own, seven registered types and three of the program, integers of 4 and 6 bits, doubles of 4 binary digits (15 is one, 17 is not), 2 opened documents | `Whole`, `TypesAgree`, `TypeLocked`, `ReadsExact` | under the nodes named as their type the children are those of the document, under the others there are none; every port the document points to a key stands for an entry and has its type, if both have one, also after failures; a typed entry keeps its type; numbers are read as written or refused |
| `document` | 3 nodes, depth 3, 17 texts with the mistakes the parser tells apart, integers of 4 and 6 bits | `LinksAgree`, `PoolsBalance`, `RoundTrip`, `TypedReads`, `KeepsForest` | lists, tracking and pools agree after any calls; printing and parsing gives the document back; it implements `DocumentForest` |
| `pilot` | Rule.xml as its author arranged it and a drill of the other registered nodes; 4 places, 5 headings, 4 poses of the own aircraft, 10 sets of others | `PictureFresh`, `ActsInWindow`, `SteersByNow`, `StickMatches` | with the rule, checks and tasks go by this step's picture, inside their windows, and after the right enemy; with the drill as well, whose tasks throw, and in the ticks resumed after that, the controller gets the pose of this step and the waypoint of the task of this tick, and a wreck is steered from the last pose flown |
| `tree_log` | 3 nodes, one asynchronous, uids that wrap, 2 loggers (symmetric), 2 changes, 1 setting, a buffer of 16 bytes | `Sound`, `ReadsBack`, `ReplayTells`, `Chained` | snapshots verify and read back, transitions follow each other and replay |

The instances with a leaf that throws leave out a Parallel above it and a loop
above a SubTree: there `HaltStops` does not hold (section 5).

Bounds of the timer: three timers are two of the clients and the one the
destructor adds, enough for one to be cancelled while another is due; `MaxTime`
stops the clock after the last time a timer can have (`AddCall` adds none that
would be due later); `MaxSignals` keeps a call from starting while two signals
wait, which no guard of the code reads except through "more than 0". Of the
Timeout: two timers are the one of a halted activation and the one of the next;
at time 3 the second has expired too. `TickStart` starts no timer that could
not expire before `MaxTime`.
Of the loader: two documents are one and what it includes, or two loads of one
parser. `VIEW WithoutAnswers` leaves out of a state the exception and the
read of the last call, since no guard reads them; it keeps whether `ReadsExact`
holds, so that a wrong read is a state of its own. `ReadsExact` leaves out an
unsigned 64-bit number above the largest signed one that is read as a signed
one, which the code lets through wrapped (section 5). In document `near` an entry
that a SetBlackboard made without a type is shared by a text and a number:
`xml_parsing.cpp:530` checks nothing against an entry without a type, and
`TypesAgree` says nothing of it either.
Of the document: three nodes are a parent with two children, or a chain, the
smallest in which moving a node has two neighbours to repair or a subtree to
carry; a document that failed to load is cleared or loaded again, not edited on;
`Detaches` excludes the call whose outcome is undefined (section 5). `Samples`
are the ends of each type's range, asked of every document there is, and not
stored, so that they cost no states.
Of the log: two changes are one before and one after whatever happens in between.
The configurations of the timer, the Timeout and the log say `CHECK_DEADLOCK
FALSE` because these systems end: after `join()`, or when the changes are used
up, there is nothing left to do. The other runs check deadlock.

Three runs expect a violation; each shows that a sentence of the repository is
not what the code does (section 5): `rule_as_loaded`, `async_result_lost`,
`timeout_cut_short`.

*Fairness* (`FairSpec` of each module). Engine: the thread that called
`tickRoot()` or `haltTree()` goes on running (`WF` on each node's frame and on
the steps of the Tree's methods), the owner ticks again (`WF_vars(TickRoot)`;
`Step()` does once per simulation step), and the `tick()` of an asynchronous
action ends (`WF` on `AsyncThread`) - without the last the wait in
`AsyncActionNode::halt()` has no end by design. Nobody has to halt, no leaf has
to decide. `RootDecides` is asked of trees that resume the child they left: a
reactive node or a Switch may abandon one running child for another in turn for ever.
Timer: the worker, the threads inside a call and the destructor go on, and time
passes; no client has to call and nobody has to destroy the queue.
Timeout: the owner's thread and the worker go on, the owner ticks again, the
`tick()` of an asynchronous child ends. `SF_vars(HandlerLock)` says that the
worker, waiting for `timeout_mutex_` which the owner takes and gives up in every
tick, gets it in the end; std::mutex promises no order, but between two ticks of
the pilot lies a simulation step. Time need not pass: the liveness properties
begin where a timer has expired.

The loader, the document, the pilot and the log are checked for safety only:
their calls end because the data they go through are finite, and nothing there
waits for another thread.

## 4. Theorems

Checked by TLAPS for every value of the constants under the named assumptions
(`TreeAssumption`: a finite tree, `Parent` and `Children` describe each other and
every node has a distance from the root, as the factory builds it from the root
down; `TreesAssumption`: a decorator has one child, a leaf none;
`TimerAssumption`: the threads are distinct, bounds are natural numbers;
`TimeoutAssumption`: durations and bounds are natural numbers; `RuleAssumption`:
the elements of a rule are nested and at most four other planes are passed;
`ClockAssumption`, `VisitAssumption`: see `TreeLog_proofs`; the assumptions on
documents, manifests and writes of section 2, and `SizeAssumption`: an
integer type has an even number of values, as many signed as unsigned, a 64-bit
type at least twice those of an int; `MantissaAssumption`: the lowest number of
each integer type, a power of two or 0, is a double; `GeometryAssumption`: the
tables of geometry have numbers in them, `Normalized` too).

`BehaviorTree_proofs`
: `TypeCorrect`: `Spec => []TypeOK` for trees of every size, shape and
  assignment of types, exceptions included. The content is that every index into
  `children_nodes_` is in range whenever it is used. `TypeOK` alone is not
  inductive: that `current_child_idx_ + 1` is still at most the number of
  children when a child has returned needs `FrameOK` (a frame that awaits a child
  has an index *below* the count, a frame that resets is a decorator's) and
  `Fits` (the types are those of a well-formed tree and never change). The
  induction is `Inv == TypeOK /\ Fits /\ FrameOK`, with one lemma per family of nodes.
: `Calls`: the frames on the call stack are one path of the tree, from the root
  (or from the node the visitor halts) down to `cur`, and each of them but the
  last awaits or halts its child on that path. All that follows about the engine
  rests on it. `ThreadsBelongToRunningNodes` (`ThreadIsRunning`): the thread of an
  asynchronous action never outlives the RUNNING status of its node, so that
  `executeTick()` starts no second one. `HaltTreeForgets` (`HaltForgets`): the
  nodes the visitor has passed are as constructed, those it has still to visit
  are on its stack or below a node that is. It says nothing of the nodes that a
  name of its own hides from the visitor, for which it does not hold
  (section 5), whatever the other names are.

`RunningNodes_proofs`
: `SkippedChildrenAreDone` (`SkippedAreDone`): what a Parallel reads of a child it
  does not tick is a result. It needs `Returned` (what `executeTick()` returned
  is the status the node was left with, unless a thread has stored another) and
  that no one but the Parallel touches these children.
: `NoNodeIsOrphaned`, `HaltTreeStops`, `OneChildRuns` (`NoOrphans`, `HaltStops`,
  `OneRunningChild`): the inductive `HeldInv` says of each RUNNING child which
  member of its parent leads back to it (`Leads`: an index, a skip list, all
  children), or which frame is about to tick, halt or report it. `haltChild()`
  stops at a child that is not RUNNING; `Held` is why nothing RUNNING lies below
  one. The hypothesis `[][UnwindsRunning]_vars` is about exceptions only: they
  pass frames of nodes that are RUNNING by then. Without it the three do not
  hold (section 5: a Parallel below which a leaf throws is never RUNNING).
  `NextHeld` uses it in the steps that throw and nowhere else.
: `WellFormedTreesNeverThrow`: if the synchronous actions keep to SUCCESS and
  FAILURE, no Parallel has a threshold above its children, and a Switch has its
  cases and a default, then no call of the owner throws: the engine's own
  `LogicError`s for a child that returned IDLE are unreachable. So for such
  trees nothing is assumed of the exceptions:
  `WellFormedTreesLeaveNothingRunning`.

`Results_proofs`
: `NoStaleTick`: below no reactive node and no loop, a leaf without a thread is
  ticked only when it is IDLE or RUNNING, in every tree and whatever was thrown
  before. The induction `FreshInv` accounts for every child that still holds a
  result: its parent remembers not to tick it (`current_child_idx_`, skip list),
  or its frame has still to reset it. Reactive nodes and loops are the exception
  the code makes (section 5).
: `NothingIsLeft` (`NothingLeft`, what run `decorators` asks) is the sum of it
  and of the theorems on RUNNING nodes, under their hypothesis.
: `VerdictsAreJustified` (`Verdicts`): every control node returns SUCCESS, FAILURE
  or RUNNING exactly when what its children returned calls for it, for lists of
  children of every length and through any halts, exceptions and threads. The
  induction `KidsTell` says what the members of a node stand for: before
  `current_child_idx_` every child returned the result the node goes on with, also
  while its frame halts others; the skip list holds the results its children
  returned; during a Parallel's loop every child passed is skipped or RUNNING, and
  neither counter has come to its threshold. It rests on `SkipInv` and on
  `StepSteady`: nobody but the node and the child it awaits or halts changes any
  of this. That a Parallel decides rightly is counting (`Tally`: two results share
  the children between them). The hypothesis `Thresholds` asks every Parallel
  for a threshold of at least 1; with 0 it never succeeds (section 5).
: `ResultsAreDelivered`: what run `async_result_lost` finds needs an asynchronous
  action right below the decorator. In every other tree, exceptions included,
  `ResultDelivered` holds: outside the moment between `tick()` and reset, a node
  without a thread that has decided has returned its status (`Delivered`).

`TimerQueue_proofs`
: `TypeCorrect`, then `PromiseKept`: the inductive
  `IInv == TypeOK /\ Truthful /\ RunsOnce /\ AbortsKept`. `Truthful` is what the
  other two need: an item in the queue or in the hands of `checkWork()` either
  has no handler, or is marked cancelled and its timer was cancelled, or has the
  time its timer was added for and that timer was not cancelled. From it follow
  `HandlersRunOnce`, `AbortsAreKept` and, with one step per action,
  `Implements`: `Spec => Service!Spec`.
: `NoLostWakeup`: `NoOversleep` is inductive as it stands.
: `NothingLeftAtExit`: if handlers do not call the queue, the assertion at the
  end of `run()` holds; by `Ending`, which says that from `cancelAll()` of the
  destructor on no client is in a call and everything queued is due.

`TimeoutNode_proofs`
: `Invariant`: the inductive `IInv == TypeOK /\ Locks /\ Halts /\ Reads /\
  RunsUnderTimeout /\ ThreadIsRunning`. `Locks` says who holds the mutex where;
  `Halts` that a handler halts the child only while a timeout is under way, and
  that the child does not run again before the next `tick()` has seen
  `child_halted_`; `Reads` that nobody asks the child's thread to stop between
  its start and the read of its status. From it follow `TypeCorrect`,
  `HandlerWaits` (`NotHaltedInTick`), `ChildIsTimed` (`RunsUnderTimeout`),
  `ResultIsNeverIdle` (`NeverIdle`) and `ThreadEndsWithHalt` (`ThreadIsRunning`).
: `UsesService`: `Spec => Timer!Spec`, the node and its environment drive the
  service only through its own steps. With `TimerQueue_proofs!Implements` this
  is why the queue may stand in the service's place.

`Loader_proofs`
: The induction `IInv` is about a tree that is half built as much as about one
  that is finished. `LoaderTypeOK` follows from it, and the four invariants of the
  run, for documents, manifests and registries of every size.
: `LoaderWhole` (`Whole`): about nodes that go by the name of a control node,
  decorator or SubTree, and that all others are left without children, as the root
  of `Rule.xml` is. The recursion `createNodeFromXML()` is the list `todo` of
  the model, so that "the children of a node are those of its element" holds only
  in the end. On the way `Fills` says of each node that the elements it has no child
  for are next to each other in `todo`, in their order, and that nobody else there
  is meant for it (`Waits`). `BuildFills` is the step: the new node takes the head,
  its own elements come in front, the other stretches move along.
: `LoaderTypesAgree` (`TypesAgree`): that a port stands for an entry, and agrees
  with it where both have a type. A port is declared on its own board, and what
  it stands for may be some boards above. While a tree is built the boards are
  `Chained`: the place a remapped key stands for has an entry too, of the type
  of the one below if it has one. So a declared port agrees with the last place of
  its path (`CellSettled`), and since types are never changed nor entries removed
  (`Grown`) and paths do not depend on what is stored (`PathStays`), it goes on to do
  so (`Declared`), also when the program and the nodes write, and `Chained` need no
  longer hold. `SetPortInfoKeeps` has the call that throws halfway up.
: `LoaderTypeLocked` (`TypeLocked`): `SetKeeps`, `SetPortInfoKeeps`: whatever is called,
  every entry is `Fitting`, on every board the path goes through.
: `LoaderReadsExact` (`ReadsExact`): `CastExact` and `CastKeeps`: a number that passes the
  limit checks is not changed by the cast, for integer types of any width that
  meet `SizeAssumption` and doubles of any precision that meets
  `MantissaAssumption`; what `checkTruncation()` lets through is a double exactly. It needs that what an entry holds is `Sane`, a number of
  its own type, whoever put it there (`AnySane`, `ParsedSane`). The one exception,
  unsigned 64 bits above the largest signed number, read as signed (section 5), is
  in the property.
: Two recursions carry this: the path of a key, up through the boards, and the
  ports of a node, declared one after the other while any of them may throw.
  Each is a recursive function, which exists because a least number without a
  solution up to it has a predecessor with one (`UpSolved`, `DeclaredSolved`). Boards
  come after their parents (`Ranked`), so a path is no longer than the list of
  boards, and ends where nothing is remapped (`PathWay`).

`Pilot_proofs`
: The hypothesis `LoadedWhole` says that the rule is `Rule.xml` with every node
  attached to its parent, as its author wrote it and as run `pilot` has it;
  geometry, host and the edited files are free. Under it: `RuleActsInWindow`,
  `RuleSteersByNow`, `RuleSeesFresh`, `RuleStickMatches` (the four invariants of the
  run, here for the rule itself; the drill stays with TLC) and `RuleNeverThrows`.
: `Walk` is recursive over the points of a tree of any size. Elements are nested,
  so each `Onward` leads further down the file (`Line`), and the equation has a
  solution because a non-empty set of lines has a least one. From it,
  `RuleFlow` computes for each leaf where either result leads.
: `PilotInv` then says what holds when a leaf is about to be ticked: `Stage`, how
  many services have been ticked and which quantities are of this step, and,
  below a mode, that its window is open. `LeafLeads` has one case per leaf: its
  outcomes establish the stage they lead to, or `Decision`, that exactly one
  task has set the waypoint, from this step's poses. `Flown` adds for
  `RuleStickMatches` that the pose on the blackboard is the one of `LastFlown`, the
  last `Step()` with hit points, and `Handed` what the controller was last given.
: `LoadedBareNeverSteers`: with the rule as the loader attaches it (`LoadedBare`, the
  instance of run `rule_as_loaded`) no task ever acts, whatever the host does.

`TreeLog_proofs`
: `ReadsTransition`: of the twelve bytes, written over each other, the uid and
  the two statuses are read back, and the time as well while its seconds fit in
  31 bits. `ClockAssumption` says that they do (68 years of changes), and that the
  clock moves between two changes; `VisitAssumption` that the visitor comes to
  nodes only, which the recursive function `Preorder` keeps from a proof.
: `LoggersKeepUp`: at every moment, the transitions a logger has kept of a node
  that only the main thread sets are a chain (`Story`) that ends in `Known`: the
  status of the node, or the one it had before the change the logger has yet to be
  told of (`Pending`, its place in the signal not reached). `Subscribed` is what a
  notification that erases expired subscribers relies on: a logger is in a signal
  once, and stays there while it lives. `TransitionsAreChained` (`Chained`) follows.
: `LogsReplay` (`ReplayTells`): `Portrayed` says that the snapshot has the status of
  the nodes the log is silent about. Its hypothesis `[]ReadsBack`, that the
  bytes of a snapshot read back as the tree, is TLC's (run `tree_log`).

These theorems name no property of a run: `TypeCorrect` (three), `LoaderTypeOK`, `RunsUnderTimeout`
and `NeverIdle`, which the runs no longer repeat because the proofs say more,
`WellFormedTreesNeverThrow`, `NoStaleTick`, `RuleNeverThrows`,
`LoadedBareNeverSteers` and `LoggersKeepUp`. `ResultsAreDelivered` is about a property that
a run refutes.

TLC also checked the inductive invariants on the instances above. Only
model-checked:

* every liveness property (out of the provers' reach);
* the document (`LinksAgree`, `PoolsBalance`, `RoundTrip`, `TypedReads`,
  `KeepsForest`): its operations are folds over the nodes in the order of a
  visit, its texts are printed and read character by character, and tlapm has no
  induction for either, nor for the arithmetic of `^`;
* the bytes of a snapshot (`Sound`, `ReadsBack`): what a reader finds follows from
  every write before it, through a buffer that is moved and vtables that are
  shared; this is induction over the data of a tree;
* which exception a call throws, except that some throw none (`WellFormedTreesNeverThrow`, `RuleNeverThrows`).

## 5. Findings

Each is the violation run of the same name; `PROJECT.json` "findings" quotes the
sentence of the repository that it goes against.

* `rule_as_loaded`: the parser attaches children only to a parent whose name is
  the ID of its type (`xml_parsing.cpp:594-609`). The root of `Rule.xml` is named
  `MainCombatSequence`; it gets no children, and every `Step()` succeeds without
  ticking a service or a task (`LoadedBareNeverSteers` says so for every host).
* `async_result_lost`: a decorator that returned RUNNING resets a child that
  finished just then; the result is lost and the action starts anew.
* `timeout_cut_short`: TimeoutNode has no `halt()`; the timer of an activation
  that was halted runs on and halts the child of the next one before its time.

Read in the code, without a run here. The first four, each against a sentence or
an assertion of the repository, are behaviours of the models: TLC comes to them
when an instance is given the tree, or a property the state, that the runs leave out.

* `haltTree()`'s visitor descends by name (`behavior_tree.cpp:49`), and `halt()`
  passes over children that are not RUNNING; below a Sequence with a name of its
  own (`DefaultNamed = {}`), a SequenceStar that failed keeps its index through a
  halt that "should propagate to all the node" (`bt_factory.h:163-164`).
* A Parallel never sets itself RUNNING in `tick()` (`parallel_node.cpp:37`): below
  a ReactiveSequence, when its second child throws, its first stays RUNNING and no
  later `haltTree()` reaches it, against `HaltStops` (a ReactiveSequence over a
  Parallel over stateful and faulty leaves). Likewise a SubTree that a loop ticks
  again.
* Retry and Repeat do not reset their child between two tries
  (`retry_node.cpp:57`); a StatefulActionNode returns its old result without
  running (`FreshLeaf` without its condition), where `retry_node.h:36` says that
  the child is run again. A SyncActionNode does run again.
* A `LoadFile()` that fails on an element that is not closed destroys it without
  `SetTracked()` (`tinyxml2.cpp:1093`), and the assertions at the end of `Clear()`
  (`tinyxml2.cpp:2072`) refuse the counts once the error has been reset: by the
  `Clear()` before, of the next load for instance, or by `SaveFile()`. This is what
  `spoiled` stands for.
* With the `try` of the thread commented out (`action_node.cpp:178-187`), an
  asynchronous action whose `tick()` throws is RUNNING until it is halted.
* A handler that adds a timer during destruction leaves it in the queue, against
  the assertion at `timer_queue.h:361`.
* `~TimeoutNode()` cancels the timers, but the mutex their handlers lock is
  destroyed before the worker that calls them is joined (`timeout_node.h:215`).
* `cancel()` returns 0, "already executed", for a handler that was taken from
  the queue and has not started (`timer_queue.h:284`); a timer that expires
  before the child is ticked does nothing, and the child then runs without one
  (`timeout_node.cpp:61`); Parallel with threshold 0 never succeeds
  (`parallel_node.cpp:83`; `parallel_node.h:191` says "or more"); the comments of
  the reactive nodes say that they go on after a RUNNING child
  (`reactive_sequence.h:37`), the code stops there.
* `subtree_node.h:23` says that a SubTree makes a blackboard of its own; the
  parser makes one only for a node *named* SubTree (`xml_parsing.cpp:629`).
* A SubTree whose ID no tree has dereferences a null pointer
  (`xml_parsing.cpp:654`); a document named without a directory is opened, and
  then `realpath("")` throws (`path.h:156`).
* An unsigned 64-bit value above the largest signed one is read as a negative
  number (`convert_impl.hpp:128`: between types of one size the limit is compared
  with the result of the cast).
* `InsertAfterChild` of the last child after the one before it dereferences null
  (`tinyxml2.cpp:931`); `ShallowEqual` of elements compares the values of
  attributes and not their names (`tinyxml2.cpp:1947`).
* `subscribers_` is written and read by two threads without a lock
  (`signal.h:45`), and the two may tell the subscribers of an asynchronous action
  of its changes in the other order (`tree_node.cpp:51`).
* Between two ports of different types nothing is checked when the entry was made
  without one (`xml_parsing.cpp:530`).
* `abstract_logger.h:79` says "false by default." of the transitions to IDLE; the
  constructor sets true (`:90`). A decorator without a child, which the code of
  the snapshot does not expect, is a null pointer (`bt_flatbuffer_helper.h:80`).
* With `Rule.xml` as its author arranged it, `Task_ScissorRollBack`,
  `Task_CounterTurn`, `Task_LeadPursuit` and `Task_Pure` never act, because the
  task before each of them never fails; two checks (`DECO_LOSCheck`,
  `DECO_AngleOffCheck`) are not registered by `init()`; `Step()` without hit
  points leaves the caller's `VP` and `Throttle` as they were.

## 6. Not modelled, and the plan

The map covers about 31 % of the implementation lines. Not modelled, and why:

* `expected.hpp`, `any.hpp`, `string_view.hpp`, `strcat.hpp` and the like (about
  4000 lines): replacements for types of the standard library, without a
  protocol; the models use what they stand for.
* Of FlatBuffers: structs, unions, maps, sorted vectors, reflection, input and
  output, which nothing here calls. Of tinyxml2: see section 2.
* Shared libraries and plugins, `writeTreeNodesModelXML`, `modifyPortsRemapping`,
  printing and logging, the bodies of the concrete loggers: output only, not
  called, or not there.
* The floating-point geometry of services and tasks: tables and free choices.
* CoroActionNode (compiled out), a StatefulActionNode that returns IDLE, headers
  of declarations and comments, and the second copy of the headers.

What could come next: the lists of a document by an explicit sequence of
children for each node, which its links represent (`LinksAgree`, `KeepsForest`), with
`DeepClone` as a recursive function; the counts of the pools after that.
Liveness of the loggers is trivial and is not stated.
