--------------------------- MODULE TreeLog_proofs ---------------------------
(***************************************************************************)
(* A log read back: the twelve bytes of a transition are the transition,   *)
(* and the transitions a logger keeps of a node the main thread alone sets *)
(* are a chain that ends where the node is, or where it was before the     *)
(* change the logger has yet to be told of.                                *)
(***************************************************************************)
EXTENDS TreeLog, TLAPS

Code == [node : Nodes, prev : Statuses, status : Statuses, usec : Nat, at : Nat \ {0}]

\* What a callback appends to a log.
Transitions ==
  {SerializeTransition(uid, usec, prev, s) :
     uid \in Nat, usec \in Int, prev \in Statuses, s \in Statuses}

Fields == {"life", "enabled", "toIdle", "kind", "first", "log", "tree", "told", "settings"}

IsLogger(g) ==
  /\ DOMAIN g = Fields
  /\ g.life \in {"none", "made", "gone"}
  /\ g.enabled \in BOOLEAN /\ g.toIdle \in BOOLEAN /\ g.told \in BOOLEAN
  /\ g.kind \in {"ABSOLUTE", "RELATIVE"}
  /\ g.first \in Nat /\ g.settings \in Nat
  /\ g.log \in Seq(Transitions)

LogTypeOK ==
  /\ status \in [Nodes -> Statuses]
  /\ subscribers \in [Nodes -> Seq(Loggers)]
  /\ DOMAIN logger = Loggers /\ \A l \in Loggers : IsLogger(logger[l])
  /\ DOMAIN call = Threads /\ \A t \in Threads : call[t] \in {NoCall} \cup Code
  /\ changes \in 0 .. MaxChanges

\* A thread tells of the nodes whose status it may set.
Callers ==
  \A t \in Threads : call[t] # NoCall =>
    /\ t \in {Main, call[t].node}
    /\ call[t].prev # call[t].status
    /\ call[t].usec <= Now
    /\ t = Main /\ call[t].node \in Followed => status[call[t].node] = call[t].status

\* The signal of a node holds a logger once, from its construction on and until a
\* notification finds it expired.
Subscribed ==
  \A n \in Nodes :
    /\ \A i, j \in DOMAIN subscribers[n] : subscribers[n][i] = subscribers[n][j] => i = j
    /\ \A i \in DOMAIN subscribers[n] : logger[subscribers[n][i]].life # "none"
    /\ n \in Range(Visited) => \A l \in Loggers : logger[l].life = "made" =>
         \E i \in DOMAIN subscribers[n] : subscribers[n][i] = l

\* Only a logger that lives has anything, and it is told all that happens to the
\* nodes while its switches are as they were.
Lives ==
  \A l \in Loggers :
    /\ logger[l].life # "made" => logger[l].log = <<>> /\ logger[l].tree = <<>>
    /\ logger[l].told => logger[l].enabled /\ logger[l].toIdle
    /\ logger[l].settings = 0 => logger[l].kind = "ABSOLUTE"

-----------------------------------------------------------------------------
\* The transitions of a node in a log.
Of(log, n) == {i \in DOMAIN log : ReadTransition(log[i]).uid = Uid(n)}

\* A log tells of a node a chain of changes that ends in a status; the time runs
\* in it, if it is timed, and has not reached a moment.
Story(log, n, last, moment, timed) ==
  \A j \in Of(log, n) :
    /\ ReadTransition(log[j]).prev # ReadTransition(log[j]).status
    /\ (\A k \in Of(log, n) : k <= j) => ReadTransition(log[j]).status = last
    /\ timed => ReadTransition(log[j]).usec \in Int /\ ReadTransition(log[j]).usec < moment
    /\ \A i \in Of(log, n) : i < j /\ (\A k \in Of(log, n) : k <= i \/ k >= j) =>
         /\ ReadTransition(log[j]).prev = ReadTransition(log[i]).status
         /\ timed => ReadTransition(log[j]).usec > ReadTransition(log[i]).usec

\* The main thread is telling of n, and the turn of l has yet to come.
Pending(l, n) ==
  /\ call[Main].node = n
  /\ \E i \in DOMAIN subscribers[n] : subscribers[n][i] = l /\ i >= call[Main].at

Known(l, n) == IF Pending(l, n) THEN call[Main].prev ELSE status[n]
Until(l, n) == IF Pending(l, n) THEN call[Main].usec ELSE Now + 1

\* What a logger has been told of a node it follows.
KeepsUp ==
  \A l \in Loggers : logger[l].life = "made" /\ logger[l].told =>
    \A n \in Followed :
      Story(logger[l].log, n, Known(l, n), Until(l, n), logger[l].settings = 0)

\* While a snapshot is written, its logger has heard nothing of those nodes.
Snapshot ==
  session # NoSession =>
    /\ call[Main] = NoCall
    /\ "logger" \in DOMAIN session /\ session.logger \in Loggers
    /\ logger[session.logger].life = "made"
    /\ logger[session.logger].tree = <<>>
    /\ \A n \in Followed : Of(logger[session.logger].log, n) = {}

LogInv == LogTypeOK /\ Callers /\ Subscribed /\ Lives /\ KeepsUp /\ Snapshot

\* Of a node of which a log tells nothing yet, the snapshot has the status.
Portrayed ==
  \A l \in Loggers : logger[l].told /\ logger[l].tree # <<>> =>
    \A n \in Followed : Of(logger[l].log, n) = {} => logger[l].tree[Uid(n)] = Known(l, n)

-----------------------------------------------------------------------------
(* The twelve bytes. *)

\* A status is read back as its name.
LEMMA StatusCodes ==
  ASSUME NEW s \in Statuses
  PROVE  StatusCode(s) \in 0 .. 3 /\ NodeStatuses[StatusCode(s)] = s
<1>1. NodeStatuses = [i \in 0 .. 3 |-> <<"IDLE", "RUNNING", "SUCCESS", "FAILURE">>[i + 1]]
  BY DEF NodeStatuses, Codes
<1>2. \E c \in 0 .. 3 : NodeStatuses[c] = s
  <2>1. /\ NodeStatuses[0] = "IDLE" /\ NodeStatuses[1] = "RUNNING"
        /\ NodeStatuses[2] = "SUCCESS" /\ NodeStatuses[3] = "FAILURE"
    BY <1>1
  <2> QED
    BY <2>1 DEF Statuses
<1>3. DOMAIN NodeStatuses = 0 .. 3
  BY <1>1
<1> QED
  BY <1>2, <1>3 DEF StatusCode, CodeOf

\* A number is put together again from the bytes it was taken apart into.
LEMMA BytesOf ==
  /\ \A v \in Nat : v <= 65535 => ByteOf(v, 1) + 256 * ByteOf(v, 2) = v
  /\ \A v \in 0 .. 3 : ByteOf(v, 1) = v
  /\ \A v \in Nat : v <= 2147483647 =>
       /\ ByteOf(v, 4) < 128
       /\ (ByteOf(v, 1) + 256 * ByteOf(v, 2)) + 65536 * (ByteOf(v, 3) + 256 * ByteOf(v, 4)) = v
<1>1. Power[1] = 1 /\ Power[2] = 256 /\ Power[3] = 65536 /\ Power[4] = 16777216
  BY SMT DEF Power
<1>2. ASSUME NEW v \in 0 .. 3
      PROVE  ByteOf(v, 1) = v
  BY SMT, <1>1 DEF ByteOf
<1>3. ASSUME NEW v \in Nat, v <= 65535
      PROVE  ByteOf(v, 1) + 256 * ByteOf(v, 2) = v
  <2>1. ByteOf(v, 1) = v % 256 /\ ByteOf(v, 2) = (v \div 256) % 256
    BY SMT, <1>1 DEF ByteOf
  <2>2. (v % 256) + 256 * ((v \div 256) % 256) = v
    BY SMT, <1>3
  <2> QED
    BY SMT, <2>1, <2>2
<1>4. ASSUME NEW v \in Nat, v <= 2147483647
      PROVE  /\ ByteOf(v, 4) < 128
             /\ (ByteOf(v, 1) + 256 * ByteOf(v, 2))
                  + 65536 * (ByteOf(v, 3) + 256 * ByteOf(v, 4)) = v
  <2> DEFINE a == v % 256
             b == (v \div 256) % 256
             c == (v \div 65536) % 256
             d == (v \div 16777216) % 256
  <2>1. ByteOf(v, 1) = a /\ ByteOf(v, 2) = b /\ ByteOf(v, 3) = c /\ ByteOf(v, 4) = d
    BY SMT, <1>1 DEF ByteOf
  <2>2. d < 128 /\ (a + 256 * b) + 65536 * (c + 256 * d) = v
    BY SMT, <1>4
  <2> HIDE DEF a, b, c, d
  <2> QED
    BY SMT, <2>1, <2>2
<1> QED
  BY <1>2, <1>3, <1>4

\* What a store leaves behind.
LEMMA Puts ==
  ASSUME NEW buf, DOMAIN buf = 1 .. 12, NEW p, NEW v, NEW n
  PROVE  /\ DOMAIN Put(buf, p, v, n) = 1 .. 12
         /\ \A i \in 1 .. 12 : Put(buf, p, v, n)[i] = IF i \in p + 1 .. p + n THEN ByteOf(v, i - p)
                                                     ELSE buf[i]
BY DEF Put

\* What the two stores of eight bytes leave of each other, and the three others of
\* them.
LEMMA TwelveBytes ==
  ASSUME NEW uid, NEW usec, NEW prev, NEW s
  PROVE  LET b == SerializeTransition(uid, usec, prev, s) IN
         /\ \A i \in 1 .. 4 : b[i] = ByteOf(WholeSeconds(usec), i)
         /\ \A i \in 1 .. 4 : b[4 + i] = ByteOf(Micros(usec), i)
         /\ b[9] = ByteOf(uid, 1) /\ b[10] = ByteOf(uid, 2)
         /\ b[11] = ByteOf(StatusCode(prev), 1) /\ b[12] = ByteOf(StatusCode(s), 1)
<1> DEFINE sec == WholeSeconds(usec)
           mic == Micros(usec)
           pre == StatusCode(prev)
           now == StatusCode(s)
<1>1. PICK seconds : seconds = Put(Blank, 0, sec, 8)
  OBVIOUS
<1>2. PICK micros : micros = Put(seconds, 4, mic, 8)
  OBVIOUS
<1>3. PICK node : node = Put(micros, 8, uid, 2)
  OBVIOUS
<1>4. PICK from : from = Put(node, 10, pre, 1)
  OBVIOUS
<1>5. PICK b : b = Put(from, 11, now, 1)
  OBVIOUS
<1>6. SerializeTransition(uid, usec, prev, s) = b
  BY <1>1, <1>2, <1>3, <1>4, <1>5 DEF SerializeTransition
<1> HIDE DEF sec, mic, pre, now
<1>7. DOMAIN Blank = 1 .. 12
  BY DEF Blank
<1>8. DOMAIN seconds = 1 .. 12 /\ \A i \in 1 .. 8 : seconds[i] = ByteOf(sec, i)
  <2>1. DOMAIN seconds = 1 .. 12 /\ \A i \in 1 .. 12 :
          seconds[i] = IF i \in 0 + 1 .. 0 + 8 THEN ByteOf(sec, i - 0) ELSE Blank[i]
    BY <1>1, <1>7, Puts
  <2>2. \A i \in 1 .. 8 : i \in 1 .. 12 /\ i \in 0 + 1 .. 0 + 8 /\ i - 0 = i
    OBVIOUS
  <2> QED
    BY <2>1, <2>2
<1>9. /\ DOMAIN micros = 1 .. 12 /\ \A i \in 1 .. 4 : micros[i] = seconds[i]
      /\ \A i \in 1 .. 4 : micros[4 + i] = ByteOf(mic, i)
  <2>1. DOMAIN micros = 1 .. 12 /\ \A i \in 1 .. 12 :
          micros[i] = IF i \in 4 + 1 .. 4 + 8 THEN ByteOf(mic, i - 4) ELSE seconds[i]
    BY <1>2, <1>8, Puts
  <2>2. \A i \in 1 .. 4 : /\ i \in 1 .. 12 /\ i \notin 4 + 1 .. 4 + 8
                          /\ 4 + i \in 1 .. 12 /\ 4 + i \in 4 + 1 .. 4 + 8 /\ (4 + i) - 4 = i
    OBVIOUS
  <2> QED
    BY <2>1, <2>2
<1>10. /\ DOMAIN node = 1 .. 12 /\ \A i \in 1 .. 8 : node[i] = micros[i]
       /\ node[9] = ByteOf(uid, 1) /\ node[10] = ByteOf(uid, 2)
  <2>1. DOMAIN node = 1 .. 12 /\ \A i \in 1 .. 12 :
          node[i] = IF i \in 8 + 1 .. 8 + 2 THEN ByteOf(uid, i - 8) ELSE micros[i]
    BY <1>3, <1>9, Puts
  <2>2. /\ 9 \in 1 .. 12 /\ 9 \in 8 + 1 .. 8 + 2 /\ 9 - 8 = 1
        /\ 10 \in 1 .. 12 /\ 10 \in 8 + 1 .. 8 + 2 /\ 10 - 8 = 2
        /\ \A i \in 1 .. 8 : i \in 1 .. 12 /\ i \notin 8 + 1 .. 8 + 2
    OBVIOUS
  <2>3. node[9] = ByteOf(uid, 9 - 8) /\ node[10] = ByteOf(uid, 10 - 8)
    BY <2>1, <2>2
  <2> QED
    BY <2>1, <2>2, <2>3
<1>11. /\ DOMAIN from = 1 .. 12 /\ \A i \in 1 .. 10 : from[i] = node[i]
       /\ from[11] = ByteOf(pre, 1)
  <2>1. DOMAIN from = 1 .. 12 /\ \A i \in 1 .. 12 :
          from[i] = IF i \in 10 + 1 .. 10 + 1 THEN ByteOf(pre, i - 10) ELSE node[i]
    BY <1>4, <1>10, Puts
  <2>2. /\ 11 \in 1 .. 12 /\ 11 \in 10 + 1 .. 10 + 1 /\ 11 - 10 = 1
        /\ \A i \in 1 .. 10 : i \in 1 .. 12 /\ i \notin 10 + 1 .. 10 + 1
    OBVIOUS
  <2>3. from[11] = ByteOf(pre, 11 - 10)
    BY <2>1, <2>2
  <2> QED
    BY <2>1, <2>2, <2>3
<1>12. /\ \A i \in 1 .. 11 : b[i] = from[i]
       /\ b[12] = ByteOf(now, 1)
  <2>1. DOMAIN b = 1 .. 12 /\ \A i \in 1 .. 12 :
          b[i] = IF i \in 11 + 1 .. 11 + 1 THEN ByteOf(now, i - 11) ELSE from[i]
    BY <1>5, <1>11, Puts
  <2>2. /\ 12 \in 1 .. 12 /\ 12 \in 11 + 1 .. 11 + 1 /\ 12 - 11 = 1
        /\ \A i \in 1 .. 11 : i \in 1 .. 12 /\ i \notin 11 + 1 .. 11 + 1
    OBVIOUS
  <2>3. b[12] = ByteOf(now, 12 - 11)
    BY <2>1, <2>2
  <2> QED
    BY <2>1, <2>2, <2>3
<1>13. \A i \in 1 .. 4 : b[i] = ByteOf(sec, i)
  <2>1. \A i \in 1 .. 4 : i \in 1 .. 8 /\ i \in 1 .. 10 /\ i \in 1 .. 11
    OBVIOUS
  <2> QED
    BY <1>8, <1>9, <1>10, <1>11, <1>12, <2>1
<1>14. \A i \in 1 .. 4 : b[4 + i] = ByteOf(mic, i)
  <2>1. \A i \in 1 .. 4 : 4 + i \in 1 .. 8 /\ 4 + i \in 1 .. 10 /\ 4 + i \in 1 .. 11
    OBVIOUS
  <2> QED
    BY <1>9, <1>10, <1>11, <1>12, <2>1
<1>15. b[9] = ByteOf(uid, 1) /\ b[10] = ByteOf(uid, 2) /\ b[11] = ByteOf(pre, 1)
  <2>1. 9 \in 1 .. 10 /\ 9 \in 1 .. 11 /\ 10 \in 1 .. 10 /\ 10 \in 1 .. 11 /\ 11 \in 1 .. 11
    OBVIOUS
  <2> QED
    BY <1>10, <1>11, <1>12, <2>1
<1> QED
  BY <1>6, <1>12, <1>13, <1>14, <1>15 DEF sec, mic, pre, now

\* The seconds of a time fit in 31 bits.
Fits(usec) == usec \div Second <= 2147483647

\* What a reader makes of them is what was written, as long as the seconds fit.
LEMMA ReadsTransition ==
  ASSUME NEW uid \in Nat, uid <= 65535,
         NEW usec, NEW prev \in Statuses, NEW s \in Statuses
  PROVE  LET r == ReadTransition(SerializeTransition(uid, usec, prev, s)) IN
         /\ r.uid = uid /\ r.prev = prev /\ r.status = s
         /\ usec \in Nat /\ Fits(usec) => r.usec = usec
<1> DEFINE b == SerializeTransition(uid, usec, prev, s)
<1>1. /\ \A i \in 1 .. 4 : b[i] = ByteOf(WholeSeconds(usec), i)
      /\ \A i \in 1 .. 4 : b[4 + i] = ByteOf(Micros(usec), i)
      /\ b[9] = ByteOf(uid, 1) /\ b[10] = ByteOf(uid, 2)
      /\ b[11] = ByteOf(StatusCode(prev), 1) /\ b[12] = ByteOf(StatusCode(s), 1)
  BY TwelveBytes
<1> HIDE DEF b
<1>2. /\ Word2(b, 8) = b[9] + 256 * b[10] /\ Byte1(b, 10) = b[11] /\ Byte1(b, 11) = b[12]
  BY DEF Word2, Byte1
<1>3. ReadTransition(b).uid = uid
  <2>1. ReadTransition(b).uid = Word2(b, 8)
    BY DEF ReadTransition
  <2> QED
    BY <1>1, <1>2, <2>1, BytesOf, SMT
<1>4. ReadTransition(b).prev = prev /\ ReadTransition(b).status = s
  <2>1. /\ ReadTransition(b).prev = NodeStatuses[Byte1(b, 10)]
        /\ ReadTransition(b).status = NodeStatuses[Byte1(b, 11)]
    BY DEF ReadTransition
  <2>2. Byte1(b, 10) = StatusCode(prev) /\ Byte1(b, 11) = StatusCode(s)
    BY <1>1, <1>2, BytesOf, StatusCodes, SMT
  <2> QED
    BY <2>1, <2>2, StatusCodes
<1>5. ASSUME usec \in Nat, Fits(usec)
      PROVE  ReadTransition(b).usec = usec
  <2> DEFINE sec == WholeSeconds(usec)
             mic == Micros(usec)
  <2>1. /\ sec \in Nat /\ sec <= 2147483647 /\ mic \in Nat /\ mic <= 2147483647
        /\ sec * Second + mic = usec
    BY <1>5, SMT DEF Second, Fits, WholeSeconds, Micros
  <2>2. /\ b[1] = ByteOf(sec, 1) /\ b[2] = ByteOf(sec, 2) /\ b[3] = ByteOf(sec, 3)
        /\ b[4] = ByteOf(sec, 4)
    BY <1>1
  <2>3. /\ b[4 + 1] = ByteOf(mic, 1) /\ b[4 + 2] = ByteOf(mic, 2)
        /\ b[4 + 3] = ByteOf(mic, 3) /\ b[4 + 4] = ByteOf(mic, 4)
    BY <1>1
  <2>4. ReadTransition(b).usec = Offset4(b, 0) * Second + Offset4(b, 4)
    BY DEF ReadTransition
  <2> HIDE DEF sec, mic
  <2>5. Offset4(b, 0) = sec
    <3>1. /\ b[0 + 1] = ByteOf(sec, 1) /\ b[0 + 2] = ByteOf(sec, 2)
          /\ b[0 + 3] = ByteOf(sec, 3) /\ b[0 + 4] = ByteOf(sec, 4)
      BY <2>2
    <3> QED
      BY <2>1, <3>1, BytesOf, SMT DEF Offset4, Word2
  <2>6. Offset4(b, 4) = mic
    BY <2>1, <2>3, BytesOf, SMT DEF Offset4, Word2
  <2> QED
    BY <2>1, <2>4, <2>5, <2>6, SMT
<1> QED
  BY <1>3, <1>4, <1>5, SMT DEF b

\* The uids of the nodes differ, for all that they wrap around.
LEMMA UidsDiffer ==
  /\ \A n \in Nodes : Uid(n) \in Nat /\ Uid(n) <= 65535
  /\ \A m, n \in Nodes : Uid(m) = Uid(n) => m = n
<1>1. /\ NumNodes \in Nat /\ NumNodes <= 65536
      /\ FirstUid \in Nat /\ FirstUid <= 65535
  BY TreeAssumption
<1>2. \A n \in Nodes : n \in Nat /\ 1 <= n /\ n <= NumNodes
  BY <1>1 DEF Nodes
<1>3. ASSUME NEW m \in Nodes, NEW n \in Nodes, Uid(m) = Uid(n), m < n
      PROVE  FALSE
  BY <1>1, <1>2, <1>3, SMT DEF Uid
<1>4. ASSUME NEW n \in Nodes
      PROVE  Uid(n) \in Nat /\ Uid(n) <= 65535
  BY <1>1, <1>2, SMT DEF Uid
<1> QED
  BY <1>2, <1>3, <1>4

-----------------------------------------------------------------------------
(* What a log tells of a node. *)

\* A log that is longer by one transition.
LEMMA Appended ==
  ASSUME NEW log \in Seq(Transitions), NEW e \in Transitions
  PROVE  /\ Append(log, e) \in Seq(Transitions)
         /\ DOMAIN Append(log, e) = 1 .. Len(log) + 1
         /\ DOMAIN log = 1 .. Len(log) /\ Len(log) \in Nat
         /\ \A i \in DOMAIN log : Append(log, e)[i] = log[i]
         /\ Append(log, e)[Len(log) + 1] = e
OBVIOUS

\* A transition of another node does not change the story of a node.
LEMMA OthersAreIgnored ==
  ASSUME NEW log \in Seq(Transitions), NEW e \in Transitions, NEW n \in Nodes,
         ReadTransition(e).uid # Uid(n)
  PROVE  /\ Of(Append(log, e), n) = Of(log, n)
         /\ \A last, moment, timed :
              Story(log, n, last, moment, timed) => Story(Append(log, e), n, last, moment, timed)
<1> DEFINE new == Append(log, e)
<1>1. /\ DOMAIN new = 1 .. Len(log) + 1 /\ DOMAIN log = 1 .. Len(log) /\ Len(log) \in Nat
      /\ \A i \in DOMAIN log : new[i] = log[i]
      /\ new[Len(log) + 1] = e
  BY Appended
<1> HIDE DEF new
<1>2. Of(new, n) = Of(log, n)
  BY <1>1 DEF Of
<1>3. \A i \in Of(log, n) : new[i] = log[i]
  BY <1>1 DEF Of
<1>4. ASSUME NEW last, NEW moment, NEW timed, Story(log, n, last, moment, timed)
      PROVE  Story(new, n, last, moment, timed)
  BY <1>2, <1>3, <1>4 DEF Story
<1> QED
  BY <1>2, <1>4 DEF new

\* A transition that starts where the story of its node ends continues it.
LEMMA StoryGoesOn ==
  ASSUME NEW log \in Seq(Transitions), NEW e \in Transitions, NEW n \in Nodes,
         NEW timed \in BOOLEAN, NEW moment \in Int, NEW later \in Int, moment < later,
         Story(log, n, ReadTransition(e).prev, moment, timed),
         ReadTransition(e).uid = Uid(n),
         ReadTransition(e).prev # ReadTransition(e).status,
         timed => ReadTransition(e).usec = moment
  PROVE  /\ Of(Append(log, e), n) # {}
         /\ Story(Append(log, e), n, ReadTransition(e).status, later, timed)
<1> DEFINE new == Append(log, e)
           m   == Len(log) + 1
<1>1. /\ DOMAIN new = 1 .. m /\ DOMAIN log = 1 .. Len(log) /\ Len(log) \in Nat /\ m \in 1 .. m
      /\ \A i \in DOMAIN log : i \in Int /\ new[i] = log[i] /\ i < m
      /\ new[m] = e
  BY Appended
<1>2. \A i \in DOMAIN new : i = m \/ i \in DOMAIN log
  BY <1>1
<1> HIDE DEF new, m
<1>3. Of(new, n) = Of(log, n) \cup {m}
  <2>1. m \in Of(new, n)
    BY <1>1 DEF Of
  <2>2. \A i \in DOMAIN log : i \in Of(new, n) <=> i \in Of(log, n)
    BY <1>1 DEF Of
  <2>3. Of(new, n) \subseteq DOMAIN new /\ Of(log, n) \subseteq DOMAIN log
    BY DEF Of
  <2> QED
    BY <1>2, <2>1, <2>2, <2>3
<1>4. \A i \in Of(log, n) : i \in Int /\ new[i] = log[i] /\ i < m
  BY <1>1 DEF Of
<1>5. ASSUME NEW j \in Of(log, n)
      PROVE  /\ ReadTransition(new[j]).prev # ReadTransition(new[j]).status
             /\ timed => /\ ReadTransition(new[j]).usec \in Int
                         /\ ReadTransition(new[j]).usec < moment
             /\ (\A k \in Of(log, n) : k <= j) =>
                   ReadTransition(new[j]).status = ReadTransition(e).prev
             /\ \A i \in Of(log, n) : i < j /\ (\A k \in Of(log, n) : k <= i \/ k >= j) =>
                  /\ ReadTransition(new[j]).prev = ReadTransition(new[i]).status
                  /\ timed => ReadTransition(new[j]).usec > ReadTransition(new[i]).usec
  BY <1>4 DEF Story
<1>6. ASSUME NEW j \in Of(new, n)
      PROVE  /\ ReadTransition(new[j]).prev # ReadTransition(new[j]).status
             /\ timed => /\ ReadTransition(new[j]).usec \in Int
                         /\ ReadTransition(new[j]).usec < later
  <2>1. CASE j \in Of(log, n)
    BY <1>5, <2>1
  <2>2. CASE j = m
    BY <1>1, <2>2
  <2> QED
    BY <1>3, <2>1, <2>2
<1>7. ASSUME NEW j \in Of(new, n), \A k \in Of(new, n) : k <= j
      PROVE  ReadTransition(new[j]).status = ReadTransition(e).status
  <2>1. m <= j
    BY <1>3, <1>7
  <2>2. j = m
    BY <1>1, <1>3, <1>4, <2>1
  <2> QED
    BY <1>1, <2>2
<1>8. ASSUME NEW j \in Of(new, n), NEW i \in Of(new, n), i < j,
             \A k \in Of(new, n) : k <= i \/ k >= j
      PROVE  /\ ReadTransition(new[j]).prev = ReadTransition(new[i]).status
             /\ timed => ReadTransition(new[j]).usec > ReadTransition(new[i]).usec
  <2>1. i \in Of(log, n)
    BY <1>1, <1>3, <1>4, <1>8
  <2>2. CASE j \in Of(log, n)
    <3>1. \A k \in Of(log, n) : k <= i \/ k >= j
      BY <1>3, <1>8
    <3> QED
      BY <1>5, <1>8, <2>1, <2>2, <3>1
  <2>3. CASE j = m
    <3>1. \A k \in Of(log, n) : k <= i
      BY <1>1, <1>3, <1>4, <1>8, <2>3
    <3> QED
      BY <1>1, <1>5, <2>1, <2>3, <3>1
  <2> QED
    BY <1>3, <2>2, <2>3
<1>9. Story(new, n, ReadTransition(e).status, later, timed)
  BY <1>6, <1>7, <1>8 DEF Story
<1> QED
  BY <1>3, <1>9 DEF new

\* What happened before a moment happened before a later one; and an empty log has
\* any end.
LEMMA StoryKeeps ==
  /\ \A log, n, last, timed : \A moment, later \in Int :
       moment <= later /\ Story(log, n, last, moment, timed) => Story(log, n, last, later, timed)
  /\ \A log, n, last, moment, timed : Of(log, n) = {} => Story(log, n, last, moment, timed)
  /\ \A log, n, last, moment, timed :
       Story(log, n, last, moment, timed) => Story(log, n, last, moment, FALSE)
  /\ \A n : Of(<<>>, n) = {}
<1>1. ASSUME NEW log, NEW n, NEW last, NEW timed, NEW moment \in Int, NEW later \in Int,
             moment <= later, Story(log, n, last, moment, timed)
      PROVE  Story(log, n, last, later, timed)
  BY <1>1 DEF Story
<1>2. ASSUME NEW log, NEW n, NEW last, NEW moment, NEW timed
      PROVE  /\ Of(log, n) = {} => Story(log, n, last, moment, timed)
             /\ Story(log, n, last, moment, timed) => Story(log, n, last, moment, FALSE)
  BY DEF Story
<1>3. \A n : Of(<<>>, n) = {}
  BY DEF Of
<1> QED
  BY <1>1, <1>2, <1>3

-----------------------------------------------------------------------------
(* The signal and the loggers. *)

\* Two sequences joined.
LEMMA Joined ==
  ASSUME NEW S, NEW a \in Seq(S), NEW b \in Seq(S)
  PROVE  /\ a \o b \in Seq(S) /\ Len(a \o b) = Len(a) + Len(b)
         /\ \A k \in 1 .. Len(a) + Len(b) :
              (a \o b)[k] = IF k <= Len(a) THEN a[k] ELSE b[k - Len(a)]
OBVIOUS

\* An element taken out of a sequence: the later ones move up.
LEMMA Erased ==
  ASSUME NEW S, NEW s \in Seq(S), NEW i \in DOMAIN s
  PROVE  /\ RemoveAt(s, i) \in Seq(S)
         /\ Len(RemoveAt(s, i)) = Len(s) - 1 /\ DOMAIN RemoveAt(s, i) = 1 .. Len(s) - 1
         /\ \A k \in 1 .. Len(s) - 1 : RemoveAt(s, i)[k] = IF k < i THEN s[k] ELSE s[k + 1]
<1> DEFINE a == SubSeq(s, 1, i - 1)
           b == SubSeq(s, i + 1, Len(s))
<1>1. a \in Seq(S) /\ Len(a) = i - 1
  OBVIOUS
<1>2. b \in Seq(S) /\ Len(b) = Len(s) - i
  OBVIOUS
<1>3. \A k \in 1 .. i - 1 : a[k] = s[k]
  OBVIOUS
<1>4. \A k \in 1 .. Len(s) - i : b[k] = s[i + k]
  OBVIOUS
<1>5. RemoveAt(s, i) = a \o b
  BY DEF RemoveAt
<1>6. i \in 1 .. Len(s) /\ Len(s) \in Nat
  OBVIOUS
<1> HIDE DEF a, b
<1>7. RemoveAt(s, i) \in Seq(S) /\ Len(RemoveAt(s, i)) = Len(s) - 1
  BY <1>1, <1>2, <1>5, <1>6, Joined
<1>8. DOMAIN RemoveAt(s, i) = 1 .. Len(s) - 1
  <2> HIDE DEF RemoveAt
  <2> QED
    BY <1>7
<1>9. ASSUME NEW k \in 1 .. Len(s) - 1
      PROVE  RemoveAt(s, i)[k] = IF k < i THEN s[k] ELSE s[k + 1]
  <2>1. k \in 1 .. Len(a) + Len(b) /\ k \in Int /\ i \in Int
    BY <1>1, <1>2, <1>6
  <2>2. (a \o b)[k] = IF k <= Len(a) THEN a[k] ELSE b[k - Len(a)]
    BY <1>1, <1>2, <2>1, Joined
  <2>3. CASE k < i
    <3>1. k <= Len(a) /\ k \in 1 .. i - 1
      BY <1>1, <1>6, <2>1, <2>3
    <3> QED
      BY <1>3, <1>5, <2>2, <2>3, <3>1
  <2>4. CASE ~ (k < i)
    <3>1. ~ (k <= Len(a)) /\ k - Len(a) \in 1 .. Len(s) - i /\ i + (k - Len(a)) = k + 1
      BY <1>1, <1>6, <2>1, <2>4
    <3> QED
      BY <1>4, <1>5, <2>2, <2>4, <3>1
  <2> QED
    BY <2>3, <2>4
<1> QED
  BY <1>7, <1>8, <1>9

\* What a snapshot is kept as, without the operator that works its argument out first.
LEMMA StatusesAreRead ==
  ASSUME NEW n, NEW s,
         \E r \in Range(NodesOf(builder.back)) : r.uid = n,
         \A r \in Range(NodesOf(builder.back)) : r.uid = n => r.status = s
  PROVE  StatusesOf(builder.back)[n] = s
<1> DEFINE N        == Range(NodesOf(builder.back))
           F(nodes) == [u \in {r.uid : r \in nodes} |-> (CHOOSE r \in nodes : r.uid = u).status]
<1>1. {F(v) : v \in {N}} = {F(N)}
  OBVIOUS
<1>2. StatusesOf(builder.back) = CHOOSE y \in {F(v) : v \in {N}} : TRUE
  BY DEF StatusesOf, With
<1>3. StatusesOf(builder.back) = F(N)
  BY <1>1, <1>2
<1>4. n \in {r.uid : r \in N}
  OBVIOUS
<1>5. (CHOOSE r \in N : r.uid = n).status = s
  OBVIOUS
<1> HIDE DEF N
<1> QED
  BY <1>3, <1>4, <1>5

\* What a logger does when it is told.
LEMMA CallbackTells ==
  ASSUME NEW g, IsLogger(g), NEW c \in Code
  PROVE  /\ IsLogger(Callback(g, c))
         /\ \A f \in Fields \ {"log"} : Callback(g, c)[f] = g[f]
         /\ \/ Callback(g, c) = g /\ ~ (g.enabled /\ g.toIdle)
            \/ \E e \in Transitions :
                 /\ Callback(g, c).log = Append(g.log, e)
                 /\ ReadTransition(e).uid = Uid(c.node)
                 /\ ReadTransition(e).prev = c.prev /\ ReadTransition(e).status = c.status
                 /\ g.kind = "ABSOLUTE" /\ Fits(c.usec) =>
                      ReadTransition(e).usec = c.usec
<1> DEFINE usec == IF g.kind = "ABSOLUTE" THEN c.usec ELSE c.usec - g.first
           e    == SerializeTransition(Uid(c.node), usec, c.prev, c.status)
<1>1. /\ c.node \in Nodes /\ c.prev \in Statuses /\ c.status \in Statuses /\ c.usec \in Nat
  BY DEF Code
<1>2. usec \in Int /\ Uid(c.node) \in Nat /\ Uid(c.node) <= 65535
  BY <1>1, UidsDiffer DEF IsLogger
<1>3. e \in Transitions
  BY <1>1, <1>2 DEF Transitions
<1>4. /\ ReadTransition(e).uid = Uid(c.node)
      /\ ReadTransition(e).prev = c.prev /\ ReadTransition(e).status = c.status
      /\ g.kind = "ABSOLUTE" /\ Fits(c.usec) => ReadTransition(e).usec = c.usec
  <2>1. /\ ReadTransition(e).uid = Uid(c.node)
        /\ ReadTransition(e).prev = c.prev /\ ReadTransition(e).status = c.status
        /\ usec \in Nat /\ Fits(usec) => ReadTransition(e).usec = usec
    <3> HIDE DEF usec
    <3> QED
      BY <1>1, <1>2, ReadsTransition
  <2>2. g.kind = "ABSOLUTE" => usec = c.usec
    OBVIOUS
  <2> HIDE DEF usec, e
  <2> QED
    BY <1>1, <2>1, <2>2
<1>5. CASE g.enabled /\ (c.status # "IDLE" \/ g.toIdle)
  <2>1. Callback(g, c) = [g EXCEPT !.log = Append(g.log, e)]
    BY <1>5 DEF Callback
  <2> HIDE DEF e
  <2>2. Append(g.log, e) \in Seq(Transitions)
    BY <1>3 DEF IsLogger
  <2>3. DOMAIN g = Fields /\ "log" \in Fields
    BY DEF IsLogger, Fields
  <2>4. /\ Callback(g, c).log = Append(g.log, e) /\ DOMAIN Callback(g, c) = Fields
        /\ \A f \in Fields \ {"log"} : Callback(g, c)[f] = g[f]
    BY <2>1, <2>3
  <2>5. IsLogger(Callback(g, c))
    BY <2>2, <2>4 DEF IsLogger, Fields
  <2> QED
    BY <1>3, <1>4, <2>4, <2>5
<1>6. CASE ~ (g.enabled /\ (c.status # "IDLE" \/ g.toIdle))
  <2>1. Callback(g, c) = g
    BY <1>6 DEF Callback
  <2> QED
    BY <1>6, <2>1
<1> QED
  BY <1>5, <1>6

-----------------------------------------------------------------------------
(* The types. *)

\* A call in progress is about a node.
LEMMA Calls ==
  /\ 0 \notin Nodes /\ NoCall.node = 0
  /\ \A c \in {NoCall} \cup Code : c # NoCall <=> c \in Code
  /\ \A c \in {NoCall} \cup Code : c.node \in Nodes <=> c \in Code
  /\ \A c \in Code : [c EXCEPT !.at = @ + 1] \in Code
<1>1. 0 \notin Nodes /\ NoCall.node = 0
  BY DEF Nodes, NoCall
<1>2. \A c \in Code : c.node \in Nodes
  BY DEF Code
<1>3. ASSUME NEW c \in Code PROVE [c EXCEPT !.at = @ + 1] \in Code
  BY DEF Code
<1> QED
  BY <1>1, <1>2, <1>3

\* The clock, and what is left of its range.
LEMMA Clock ==
  ASSUME NEW k \in 0 .. MaxChanges
  PROVE  /\ k * Lapse \in Nat /\ (k + 1) * Lapse = k * Lapse + Lapse
         /\ Lapse \in Nat /\ Lapse > 0
         /\ \A u \in Nat : u <= k * Lapse => Fits(u)
<1>1. Lapse \in Nat /\ Lapse > 0 /\ MaxChanges \in Nat
      /\ (MaxChanges * Lapse) \div Second <= 2147483647
  BY ClockAssumption
<1>2. k \in Nat /\ k <= MaxChanges
  BY <1>1
<1>3. k * Lapse \in Nat /\ (k + 1) * Lapse = k * Lapse + Lapse
  BY <1>1, <1>2
<1>4. k * Lapse <= MaxChanges * Lapse /\ MaxChanges * Lapse \in Nat
  BY <1>1, <1>2
<1>5. ASSUME NEW u \in Nat, u <= k * Lapse
      PROVE  Fits(u)
  <2>1. PICK top : top = MaxChanges * Lapse
    OBVIOUS
  <2>2. PICK x : x = k * Lapse
    OBVIOUS
  <2>3. top \in Nat /\ x \in Nat /\ u <= x /\ x <= top /\ top \div 1000000 <= 2147483647
    BY <1>1, <1>3, <1>4, <1>5, <2>1, <2>2 DEF Second
  <2> QED
    BY <2>3, SMT DEF Second, Fits
<1> QED
  BY <1>1, <1>3, <1>5

\* Init establishes everything.
LEMMA InitLog == Init => LogInv /\ Portrayed
<1> SUFFICES ASSUME Init PROVE LogInv /\ Portrayed
  OBVIOUS
<1>1. IsLogger(Absent)
  BY DEF IsLogger, Absent, Fields
<1>2. /\ \A l \in Loggers : logger[l] = Absent
      /\ \A t \in Threads : call[t] = NoCall
      /\ \A n \in Nodes : subscribers[n] = <<>>
      /\ session = NoSession /\ changes = 0
  BY DEF Init
<1>3. LogTypeOK
  <2>1. MaxChanges \in Nat
    BY ClockAssumption
  <2> QED
    BY <1>1, <1>2, <2>1 DEF LogTypeOK, Init, Statuses
<1>4. Callers
  BY <1>2 DEF Callers
<1>5. Absent.life = "none" /\ Absent.log = <<>> /\ Absent.tree = <<>> /\ Absent.kind = "ABSOLUTE"
      /\ Absent.enabled /\ Absent.toIdle
  BY DEF Absent
<1>6. Subscribed /\ Lives /\ KeepsUp /\ Snapshot /\ Portrayed
  BY <1>2, <1>5 DEF Subscribed, Lives, KeepsUp, Snapshot, Portrayed
<1> QED
  BY <1>3, <1>4, <1>6 DEF LogInv

\* The steps keep the types.
LEMMA TypesStay == LogTypeOK /\ Callers /\ [Next]_vars => LogTypeOK'
<1> SUFFICES ASSUME LogTypeOK, Callers, [Next]_vars
             PROVE  LogTypeOK'
  OBVIOUS
<1> USE DEF LogTypeOK
<1>1. ASSUME NEW t \in Threads, NEW n \in Nodes, NEW s \in Statuses, SetStatus(t, n, s)
      PROVE  LogTypeOK'
  <2>1. status' \in [Nodes -> Statuses]
    BY <1>1 DEF SetStatus
  <2>2. changes' \in 0 .. MaxChanges /\ changes' * Lapse \in Nat
    BY <1>1, ClockAssumption DEF SetStatus
  <2>3. [node |-> n, prev |-> status[n], status |-> s, usec |-> changes' * Lapse, at |-> 1] \in Code
    BY <2>2 DEF Code
  <2>4. DOMAIN call' = Threads /\ \A u \in Threads : call'[u] \in {NoCall} \cup Code
    BY <1>1, <2>3 DEF SetStatus
  <2> QED
    BY <1>1, <2>1, <2>2, <2>4 DEF SetStatus
<1>2. ASSUME NEW t \in Threads, Notify(t)
      PROVE  LogTypeOK'
  <2>1. call[t] \in Code /\ call[t].node \in Nodes /\ call[t].at \in Nat \ {0}
    BY <1>2, Calls DEF Notify, Code
  <2> DEFINE c    == call[t]
             subs == subscribers[c.node]
             l    == subs[c.at]
  <2>2. c.at <= Len(subs) /\ c.at \in DOMAIN subs /\ l \in Loggers
    BY <1>2, <2>1 DEF Notify
  <2>3. subscribers' \in [Nodes -> Seq(Loggers)]
    <3>1. RemoveAt(subs, c.at) \in Seq(Loggers)
      BY <2>1, <2>2, Erased
    <3> QED
      BY <1>2, <2>1, <3>1 DEF Notify
  <2>4. DOMAIN logger' = Loggers /\ \A m \in Loggers : IsLogger(logger'[m])
    <3>1. IsLogger(Callback(logger[l], c))
      BY <2>1, <2>2, CallbackTells
    <3>2. logger' = logger \/ logger' = [logger EXCEPT ![l] = Callback(logger[l], c)]
      BY <1>2 DEF Notify
    <3> QED
      BY <2>2, <3>1, <3>2
  <2>5. DOMAIN call' = Threads /\ \A u \in Threads : call'[u] \in {NoCall} \cup Code
    <3>1. call' = [call EXCEPT ![t] = Told(c, logger[l].life = "gone")]
      BY <1>2 DEF Notify
    <3>2. Told(c, logger[l].life = "gone") \in Code
      BY <2>1, Calls DEF Told
    <3> QED
      BY <3>1, <3>2
  <2> QED
    BY <1>2, <2>3, <2>4, <2>5 DEF Notify
<1>3. ASSUME NEW t \in Threads, NotifyReturn(t)
      PROVE  LogTypeOK'
  BY <1>3 DEF NotifyReturn
<1>4. ASSUME NEW l \in Loggers, MakeLogger(l)
      PROVE  LogTypeOK'
  <2>1. IsLogger([[logger[l] EXCEPT !.life = "made"] EXCEPT !.first = Now])
    BY Clock DEF IsLogger, Fields, Now
  <2>2. DOMAIN logger' = Loggers /\ \A m \in Loggers : IsLogger(logger'[m])
    BY <1>4, <2>1 DEF MakeLogger
  <2>3. subscribers' \in [Nodes -> Seq(Loggers)]
    BY <1>4 DEF MakeLogger
  <2> QED
    BY <1>4, <2>2, <2>3 DEF MakeLogger
<1>5. ASSUME NEW l \in Loggers, DestroyLogger(l)
      PROVE  LogTypeOK'
  <2>1. IsLogger([Absent EXCEPT !.life = "gone"])
    BY DEF IsLogger, Absent, Fields
  <2> QED
    BY <1>5, <2>1 DEF DestroyLogger
<1>6. CASE SerializeNode \/ SerializeModel \/ SerializeEnd
  BY <1>6 DEF SerializeNode, SerializeModel, SerializeEnd
<1>7. CASE KeepTree
  <2>1. ASSUME NEW l \in Loggers, NEW tree
        PROVE  IsLogger([logger[l] EXCEPT !.tree = tree])
    BY DEF IsLogger, Fields
  <2>2. logger' = [logger EXCEPT ![session.logger] =
                     [logger[session.logger] EXCEPT !.tree = StatusesOf(builder.back)]]
    BY <1>7 DEF KeepTree
  <2>3. DOMAIN logger' = Loggers /\ \A m \in Loggers : IsLogger(logger'[m])
    BY <2>1, <2>2
  <2> QED
    BY <1>7, <2>3 DEF KeepTree
<1>8. ASSUME NEW l \in Loggers, NEW g, Set(l, g), IsLogger(g)
      PROVE  LogTypeOK'
  <2>1. IsLogger([[g EXCEPT !.settings = g.settings + 1]
                    EXCEPT !.told = g.told /\ g.enabled /\ g.toIdle])
    BY <1>8 DEF IsLogger, Fields
  <2>2. logger' = [logger EXCEPT ![l] = [[g EXCEPT !.settings = g.settings + 1]
                     EXCEPT !.told = g.told /\ g.enabled /\ g.toIdle]]
    BY <1>8 DEF Set, IsLogger, Fields
  <2> QED
    BY <1>8, <2>1, <2>2 DEF Set
<1>9. ASSUME NEW l \in Loggers, SetEnabled(l) \/ EnableTransitionToIdle(l) \/ SeTimestampType(l)
      PROVE  \E g : Set(l, g) /\ IsLogger(g)
  <2>1. \A on \in BOOLEAN : IsLogger([logger[l] EXCEPT !.enabled = on])
    BY DEF IsLogger, Fields
  <2>2. \A on \in BOOLEAN : IsLogger([logger[l] EXCEPT !.toIdle = on])
    BY DEF IsLogger, Fields
  <2>3. \A kind \in {"ABSOLUTE", "RELATIVE"} : IsLogger([logger[l] EXCEPT !.kind = kind])
    BY DEF IsLogger, Fields
  <2> QED
    BY <1>9, <2>1, <2>2, <2>3 DEF SetEnabled, EnableTransitionToIdle, SeTimestampType
<1>10. CASE UNCHANGED vars
  BY <1>10 DEF vars
<1> QED
  BY <1>1, <1>2, <1>3, <1>4, <1>5, <1>6, <1>7, <1>8, <1>9, <1>10 DEF Next

-----------------------------------------------------------------------------
(* The steps. *)

\* The nodes a logger is asked about.
LEMMA FollowedNodes ==
  /\ Followed \subseteq Nodes /\ Followed \subseteq Range(Visited)
  /\ Main \in Threads /\ Main \notin Nodes
  /\ \A t \in Threads : t # Main => t \notin Followed
<1>1. Followed \subseteq Nodes /\ Followed \subseteq Range(Visited)
  BY VisitAssumption DEF Followed
<1>2. Main \in Threads /\ \A t \in Threads : t # Main => t \in Async
  BY DEF Threads
<1> QED
  BY <1>1, <1>2, Calls DEF Followed, Main

\* The moment up to which a logger has heard of a node is a number.
LEMMA UntilIsANumber ==
  ASSUME LogTypeOK, NEW l \in Loggers, NEW n \in Followed
  PROVE  Until(l, n) \in Int /\ Known(l, n) \in Statuses
<1>1. n \in Nodes /\ call[Main] \in {NoCall} \cup Code
  BY FollowedNodes DEF LogTypeOK
<1>2. Now \in Nat /\ status[n] \in Statuses
  BY <1>1, Clock DEF LogTypeOK, Now
<1>3. Pending(l, n) => call[Main] \in Code
  BY <1>1, Calls DEF Pending
<1> QED
  BY <1>2, <1>3 DEF Until, Known, Code

\* What a logger knows stays as it is when its log does, and nobody else's turn
\* comes or goes.
LEMMA StoriesStay ==
  ASSUME LogTypeOK, KeepsUp, Lives',
         \A l \in Loggers : logger'[l].life = "made" /\ logger'[l].told =>
           /\ logger[l].life = "made" /\ logger[l].told
           /\ logger'[l].log = logger[l].log /\ logger'[l].tree = logger[l].tree
           /\ logger'[l].settings = 0 => logger[l].settings = 0
           /\ \A n \in Followed : /\ Known(l, n)' = Known(l, n)
                                  /\ Until(l, n)' \in Int /\ Until(l, n) <= Until(l, n)'
  PROVE  KeepsUp' /\ (Portrayed => Portrayed')
<1>1. KeepsUp'
  <2> SUFFICES ASSUME NEW l \in Loggers, logger'[l].life = "made", logger'[l].told,
                      NEW n \in Followed
               PROVE  Story(logger'[l].log, n, Known(l, n)', Until(l, n)',
                            logger'[l].settings = 0)
    BY DEF KeepsUp
  <2> DEFINE log == logger[l].log
  <2>1. /\ logger'[l].log = log /\ logger[l].life = "made" /\ logger[l].told
        /\ logger'[l].settings = 0 => logger[l].settings = 0
        /\ Known(l, n)' = Known(l, n) /\ Until(l, n)' \in Int /\ Until(l, n) <= Until(l, n)'
    OBVIOUS
  <2>2. Story(log, n, Known(l, n), Until(l, n), logger[l].settings = 0)
    BY <2>1 DEF KeepsUp
  <2>3. Until(l, n) \in Int
    BY UntilIsANumber
  <2> HIDE DEF log
  <2>4. Story(log, n, Known(l, n), Until(l, n)', logger[l].settings = 0)
    BY <2>1, <2>2, <2>3, StoryKeeps
  <2>5. CASE logger'[l].settings = 0
    <3>1. (logger'[l].settings = 0) = (logger[l].settings = 0)
      BY <2>1, <2>5
    <3> QED
      BY <2>1, <2>4, <3>1
  <2>6. CASE logger'[l].settings # 0
    <3>1. (logger'[l].settings = 0) = FALSE
      BY <2>6
    <3>2. Story(log, n, Known(l, n), Until(l, n)', FALSE)
      BY <2>4, StoryKeeps
    <3>3. Story(logger'[l].log, n, Known(l, n)', Until(l, n)', FALSE)
      BY <2>1, <3>2
    <3> QED
      BY <3>1, <3>3
  <2> QED
    BY <2>5, <2>6
<1>2. ASSUME Portrayed PROVE Portrayed'
  <2> SUFFICES ASSUME NEW l \in Loggers, logger'[l].told, logger'[l].tree # <<>>,
                      NEW n \in Followed, Of(logger'[l].log, n) = {}
               PROVE  logger'[l].tree[Uid(n)] = Known(l, n)'
    BY DEF Portrayed
  <2>1. logger'[l].life = "made"
    BY DEF Lives
  <2> QED
    BY <1>2, <2>1 DEF Portrayed
<1> QED
  BY <1>1, <1>2

\* A status is set: those who are told of it are behind until they are.
LEMMA SetStatusStep ==
  ASSUME LogInv, LogTypeOK', NEW t \in Threads, NEW n0 \in Nodes, NEW s \in Statuses,
         SetStatus(t, n0, s)
  PROVE  LogInv' /\ (Portrayed => Portrayed')
<1> USE DEF LogInv
<1> DEFINE c == [node |-> n0, prev |-> status[n0], status |-> s, usec |-> changes' * Lapse,
                 at |-> 1]
<1>1. /\ call[t] = NoCall /\ t \in {Main, n0} /\ s # status[n0] /\ (t = Main => session = NoSession)
      /\ status' = [status EXCEPT ![n0] = s] /\ call' = [call EXCEPT ![t] = c]
      /\ changes' = changes + 1
      /\ UNCHANGED <<subscribers, logger, session, builder>>
  BY DEF SetStatus
<1>2. Now' = Now + Lapse /\ Now \in Nat /\ Lapse \in Nat /\ Lapse > 0
  BY <1>1, Clock DEF LogTypeOK, Now
<1>3. c.usec = Now'
  BY DEF Now
<1>4. Callers'
  <2> SUFFICES ASSUME NEW u \in Threads, call'[u] # NoCall
               PROVE  /\ u \in {Main, call'[u].node}
                      /\ call'[u].prev # call'[u].status
                      /\ call'[u].usec <= Now'
                      /\ u = Main /\ call'[u].node \in Followed =>
                           status'[call'[u].node] = call'[u].status
    BY DEF Callers
  <2>1. CASE u = t
    <3>1. call'[u] = c
      BY <1>1, <2>1 DEF LogTypeOK
    <3>2. c.usec <= Now'
      BY <1>2, <1>3
    <3>3. status'[n0] = s
      BY <1>1 DEF LogTypeOK
    <3> QED
      BY <1>1, <2>1, <3>1, <3>2, <3>3
  <2>2. CASE u # t
    <3>1. call'[u] = call[u]
      BY <1>1, <2>2 DEF LogTypeOK
    <3>2. call[u] \in Code
      BY <2>2, <3>1, Calls DEF LogTypeOK
    <3>3. /\ u \in {Main, call[u].node} /\ call[u].prev # call[u].status
          /\ call[u].usec <= Now /\ call[u].usec \in Nat /\ call[u].node \in Nodes
          /\ u = Main /\ call[u].node \in Followed => status[call[u].node] = call[u].status
      BY <3>1, <3>2 DEF Callers, Code
    <3>4. ASSUME u = Main, call[u].node \in Followed
          PROVE  status'[call[u].node] = status[call[u].node]
      <4>1. t # Main /\ n0 = t /\ n0 \notin Followed
        BY <1>1, <2>2, <3>4, FollowedNodes
      <4> QED
        BY <1>1, <3>4, <4>1 DEF LogTypeOK
    <3> QED
      BY <1>2, <3>1, <3>3, <3>4
  <2> QED
    BY <2>1, <2>2
<1>5. Subscribed' /\ Lives'
  BY <1>1 DEF Subscribed, Lives
<1>6. ASSUME NEW l \in Loggers, NEW n \in Followed, logger[l].life = "made"
      PROVE  Known(l, n)' = Known(l, n) /\ Until(l, n)' \in Int /\ Until(l, n) <= Until(l, n)'
  <2>1. n \in Nodes /\ n \in Range(Visited)
    BY FollowedNodes
  <2>2. CASE t = Main
    <3>1. call[Main] = NoCall /\ ~ Pending(l, n)
      BY <1>1, <2>1, <2>2, Calls DEF Pending
    <3>2. Known(l, n) = status[n] /\ Until(l, n) = Now + 1
      BY <3>1 DEF Known, Until
    <3>3. call'[Main] = c
      BY <1>1, <2>2, FollowedNodes DEF LogTypeOK
    <3>4. CASE n = n0
      <4>1. PICK i \in DOMAIN subscribers[n] : subscribers[n][i] = l
        BY <1>6, <2>1 DEF Subscribed
      <4>2. i >= 1
        BY <2>1, <4>1 DEF LogTypeOK
      <4>3. Pending(l, n)'
        BY <1>1, <3>3, <3>4, <4>1, <4>2 DEF Pending
      <4>4. Known(l, n)' = status[n0] /\ Until(l, n)' = Now'
        BY <1>3, <3>3, <4>3 DEF Known, Until
      <4> QED
        BY <1>2, <3>2, <3>4, <4>4
    <3>5. CASE n # n0
      <4>1. ~ Pending(l, n)' /\ status'[n] = status[n]
        BY <1>1, <2>1, <3>3, <3>5 DEF Pending, LogTypeOK
      <4>2. Known(l, n)' = status[n] /\ Until(l, n)' = Now' + 1
        BY <4>1 DEF Known, Until
      <4> QED
        BY <1>2, <3>2, <4>2
    <3> QED
      BY <3>4, <3>5
  <2>3. CASE t # Main
    <3>1. n0 = t /\ n # n0 /\ status'[n] = status[n] /\ call'[Main] = call[Main]
      BY <1>1, <2>1, <2>3, FollowedNodes DEF LogTypeOK
    <3>2. Pending(l, n)' = Pending(l, n)
      BY <1>1, <3>1 DEF Pending
    <3>3. Known(l, n)' = Known(l, n)
      BY <3>1, <3>2 DEF Known
    <3>4. Until(l, n)' = IF Pending(l, n) THEN Until(l, n) ELSE Now' + 1
      BY <3>1, <3>2 DEF Until
    <3>5. Until(l, n) \in Int
      BY UntilIsANumber
    <3> QED
      BY <1>2, <3>3, <3>4, <3>5 DEF Until
  <2> QED
    BY <2>2, <2>3
<1>7. KeepsUp' /\ (Portrayed => Portrayed')
  BY <1>1, <1>5, <1>6, StoriesStay
<1>8. Snapshot'
  <2>1. session # NoSession => call'[Main] = call[Main]
    BY <1>1, FollowedNodes DEF LogTypeOK
  <2> QED
    BY <1>1, <2>1 DEF Snapshot
<1> QED
  BY <1>4, <1>5, <1>7, <1>8

\* Taking an element out of a sequence leaves the others, and those whose turn has
\* yet to come.
LEMMA TurnsStay ==
  ASSUME NEW S, NEW s \in Seq(S), NEW at \in DOMAIN s, NEW x, x # s[at]
  PROVE  /\ (\E i \in DOMAIN RemoveAt(s, at) : RemoveAt(s, at)[i] = x)
              = (\E i \in DOMAIN s : s[i] = x)
         /\ (\E i \in DOMAIN RemoveAt(s, at) : RemoveAt(s, at)[i] = x /\ i >= at)
              = (\E i \in DOMAIN s : s[i] = x /\ i >= at)
<1> DEFINE r == RemoveAt(s, at)
<1>1. /\ DOMAIN r = 1 .. Len(s) - 1 /\ DOMAIN s = 1 .. Len(s)
      /\ Len(s) \in Nat /\ at \in 1 .. Len(s)
      /\ \A k \in DOMAIN r : r[k] = IF k < at THEN s[k] ELSE s[k + 1]
  <2>1. DOMAIN s = 1 .. Len(s) /\ Len(s) \in Nat /\ at \in 1 .. Len(s)
    OBVIOUS
  <2>2. /\ DOMAIN r = 1 .. Len(s) - 1
        /\ \A k \in 1 .. Len(s) - 1 : r[k] = IF k < at THEN s[k] ELSE s[k + 1]
    BY Erased
  <2> QED
    BY <2>1, <2>2
<1> HIDE DEF r
<1>2. ASSUME NEW i \in DOMAIN r
      PROVE  \E k \in DOMAIN s : s[k] = r[i] /\ (i >= at => k >= at)
  <2>1. CASE i < at
    BY <1>1, <2>1
  <2>2. CASE ~ (i < at)
    <3>1. i + 1 \in DOMAIN s /\ r[i] = s[i + 1] /\ i + 1 >= at
      BY <1>1, <2>2
    <3> QED
      BY <3>1
  <2> QED
    BY <2>1, <2>2
<1>3. ASSUME NEW k \in DOMAIN s, s[k] = x
      PROVE  \E i \in DOMAIN r : r[i] = x /\ (k >= at => i >= at)
  <2>1. k # at
    BY <1>3
  <2>2. CASE k < at
    <3>1. k \in DOMAIN r /\ r[k] = s[k]
      BY <1>1, <2>2
    <3> QED
      BY <1>1, <1>3, <2>2, <3>1
  <2>3. CASE k > at
    <3>1. k - 1 \in DOMAIN r /\ ~ (k - 1 < at) /\ (k - 1) + 1 = k /\ k - 1 >= at
      BY <1>1, <2>3
    <3>2. r[k - 1] = s[k]
      BY <1>1, <3>1
    <3> QED
      BY <1>3, <3>1, <3>2
  <2> QED
    BY <1>1, <2>1, <2>2, <2>3
<1>4. (\E i \in DOMAIN r : r[i] = x) <=> (\E i \in DOMAIN s : s[i] = x)
  BY <1>2, <1>3
<1>5. (\E i \in DOMAIN r : r[i] = x /\ i >= at) <=> (\E i \in DOMAIN s : s[i] = x /\ i >= at)
  BY <1>2, <1>3
<1> QED
  BY <1>4, <1>5 DEF r

\* What is left of a signal holds each logger once, and nothing new.
LEMMA OnceStays ==
  ASSUME NEW S, NEW s \in Seq(S), NEW at \in DOMAIN s,
         \A i, j \in DOMAIN s : s[i] = s[j] => i = j
  PROVE  /\ \A i, j \in DOMAIN RemoveAt(s, at) : RemoveAt(s, at)[i] = RemoveAt(s, at)[j] => i = j
         /\ \A i \in DOMAIN RemoveAt(s, at) : \E k \in DOMAIN s : RemoveAt(s, at)[i] = s[k]
<1> DEFINE r == RemoveAt(s, at)
<1>1. /\ DOMAIN r = 1 .. Len(s) - 1 /\ DOMAIN s = 1 .. Len(s)
      /\ Len(s) \in Nat /\ at \in 1 .. Len(s)
      /\ \A k \in DOMAIN r : r[k] = IF k < at THEN s[k] ELSE s[k + 1]
  <2>1. DOMAIN s = 1 .. Len(s) /\ Len(s) \in Nat /\ at \in 1 .. Len(s)
    OBVIOUS
  <2>2. /\ DOMAIN r = 1 .. Len(s) - 1
        /\ \A k \in 1 .. Len(s) - 1 : r[k] = IF k < at THEN s[k] ELSE s[k + 1]
    BY Erased
  <2> QED
    BY <2>1, <2>2
<1> HIDE DEF r
<1>2. \A k \in DOMAIN r : k \in Int /\ k \in DOMAIN s /\ k + 1 \in DOMAIN s
  BY <1>1
<1>3. ASSUME NEW i \in DOMAIN r, NEW j \in DOMAIN r, r[i] = r[j]
      PROVE  i = j
  <2>1. CASE i < at /\ j < at
    BY <1>1, <1>2, <1>3, <2>1
  <2>2. CASE i < at /\ ~ (j < at)
    <3>1. s[i] = s[j + 1]
      BY <1>1, <1>3, <2>2
    <3>2. i = j + 1
      BY <1>2, <3>1
    <3> QED
      BY <1>1, <1>2, <2>2, <3>2
  <2>3. CASE ~ (i < at) /\ j < at
    <3>1. s[i + 1] = s[j]
      BY <1>1, <1>3, <2>3
    <3>2. i + 1 = j
      BY <1>2, <3>1
    <3> QED
      BY <1>1, <1>2, <2>3, <3>2
  <2>4. CASE ~ (i < at) /\ ~ (j < at)
    <3>1. s[i + 1] = s[j + 1]
      BY <1>1, <1>3, <2>4
    <3>2. i + 1 = j + 1
      BY <1>2, <3>1
    <3> QED
      BY <1>2, <3>2
  <2> QED
    BY <2>1, <2>2, <2>3, <2>4
<1>4. \A i \in DOMAIN r : \E k \in DOMAIN s : r[i] = s[k]
  BY <1>1, <1>2
<1> QED
  BY <1>3, <1>4 DEF r

\* A subscriber that has expired is erased; whose turn it is does not change.
LEMMA ErasingStep ==
  ASSUME LogInv, LogTypeOK', NEW t \in Threads, Notify(t),
         logger[subscribers[call[t].node][call[t].at]].life = "gone"
  PROVE  LogInv' /\ (Portrayed => Portrayed')
<1> USE DEF LogInv
<1> DEFINE n0   == call[t].node
           at   == call[t].at
           subs == subscribers[n0]
<1>1. call[t] \in Code /\ n0 \in Nodes /\ at \in Nat \ {0} /\ subs \in Seq(Loggers)
  BY Calls DEF LogTypeOK, Notify, Code
<1>2. at \in DOMAIN subs /\ subs[at] \in Loggers /\ logger[subs[at]].life = "gone"
  BY <1>1 DEF Notify
<1>3. /\ subscribers' = [subscribers EXCEPT ![n0] = RemoveAt(subs, at)]
      /\ call' = [call EXCEPT ![t] = call[t]]
      /\ UNCHANGED <<logger, status, session, builder, changes>>
  BY DEF Notify, Told
<1>4. \A u \in Threads : call'[u] = call[u]
  BY <1>3 DEF LogTypeOK
<1>5. /\ subscribers'[n0] = RemoveAt(subs, at)
      /\ \A n \in Nodes : n # n0 => subscribers'[n] = subscribers[n]
  BY <1>1, <1>3 DEF LogTypeOK
<1>6. Callers'
  BY <1>3, <1>4 DEF Callers, Now
<1>7. Lives'
  BY <1>3 DEF Lives
<1>8. Snapshot'
  BY <1>3, <1>4, FollowedNodes DEF Snapshot
<1>9. Subscribed'
  <2> SUFFICES ASSUME NEW n \in Nodes
               PROVE  /\ \A i, j \in DOMAIN subscribers'[n] :
                           subscribers'[n][i] = subscribers'[n][j] => i = j
                      /\ \A i \in DOMAIN subscribers'[n] :
                           logger'[subscribers'[n][i]].life # "none"
                      /\ n \in Range(Visited) => \A l \in Loggers : logger'[l].life = "made" =>
                           \E i \in DOMAIN subscribers'[n] : subscribers'[n][i] = l
    BY DEF Subscribed
  <2>1. CASE n # n0
    BY <1>3, <1>5, <2>1 DEF Subscribed
  <2>2. CASE n = n0
    <3>1. /\ \A i, j \in DOMAIN subs : subs[i] = subs[j] => i = j
          /\ \A i \in DOMAIN subs : logger[subs[i]].life # "none"
          /\ n0 \in Range(Visited) => \A l \in Loggers : logger[l].life = "made" =>
               \E i \in DOMAIN subs : subs[i] = l
      BY <1>1 DEF Subscribed
    <3>2. /\ \A i, j \in DOMAIN RemoveAt(subs, at) :
               RemoveAt(subs, at)[i] = RemoveAt(subs, at)[j] => i = j
          /\ \A i \in DOMAIN RemoveAt(subs, at) :
               \E k \in DOMAIN subs : RemoveAt(subs, at)[i] = subs[k]
      BY <1>1, <1>2, <3>1, OnceStays
    <3>3. ASSUME NEW l \in Loggers, logger[l].life = "made"
          PROVE  (\E i \in DOMAIN RemoveAt(subs, at) : RemoveAt(subs, at)[i] = l)
                   = (\E i \in DOMAIN subs : subs[i] = l)
      <4>1. PICK s, k : s = subs /\ k = at
        OBVIOUS
      <4>2. s \in Seq(Loggers) /\ k \in DOMAIN s /\ l # s[k]
        BY <1>1, <1>2, <3>3, <4>1
      <4>3. (\E i \in DOMAIN RemoveAt(s, k) : RemoveAt(s, k)[i] = l)
               = (\E i \in DOMAIN s : s[i] = l)
        BY <4>2, TurnsStay
      <4> QED
        BY <4>1, <4>3
    <3> HIDE DEF subs, at
    <3> QED
      BY <1>3, <1>5, <2>2, <3>1, <3>2, <3>3
  <2> QED
    BY <2>1, <2>2
<1>10. ASSUME NEW l \in Loggers, NEW n \in Followed, logger[l].life = "made"
       PROVE  Known(l, n)' = Known(l, n) /\ Until(l, n)' \in Int /\ Until(l, n) <= Until(l, n)'
  <2>1. n \in Nodes /\ Main \in Threads /\ call'[Main] = call[Main]
    BY <1>4, FollowedNodes
  <2>2. Pending(l, n)' = Pending(l, n)
    <3>1. CASE n # n0
      BY <1>5, <2>1, <3>1 DEF Pending
    <3>2. CASE n = n0
      <4>1. t = Main
        BY <1>1, <3>2, Calls, FollowedNodes DEF Callers, LogTypeOK
      <4>2. l # subs[at]
        BY <1>2, <1>10
      <4>3. (\E i \in DOMAIN RemoveAt(subs, at) : RemoveAt(subs, at)[i] = l /\ i >= at)
              = (\E i \in DOMAIN subs : subs[i] = l /\ i >= at)
        <5> HIDE DEF subs, at
        <5> QED
          BY <1>1, <1>2, <4>2, TurnsStay
      <4>4. at = call[Main].at
        BY <4>1
      <4> HIDE DEF at
      <4> QED
        BY <1>5, <2>1, <3>2, <4>3, <4>4 DEF Pending
    <3> QED
      BY <3>1, <3>2
  <2>3. Known(l, n)' = Known(l, n) /\ Until(l, n)' = Until(l, n)
    BY <1>3, <2>1, <2>2 DEF Known, Until, Now
  <2> QED
    BY <2>3, UntilIsANumber
<1>11. KeepsUp' /\ (Portrayed => Portrayed')
  BY <1>3, <1>7, <1>10, StoriesStay
<1> QED
  BY <1>6, <1>7, <1>8, <1>9, <1>11

\* A logger is told: it knows what happened to the node, and no more of any other.
LEMMA TellingStep ==
  ASSUME LogInv, LogTypeOK', NEW t \in Threads, Notify(t),
         logger[subscribers[call[t].node][call[t].at]].life # "gone"
  PROVE  LogInv' /\ (Portrayed => Portrayed')
<1> USE DEF LogInv
<1>0. PICK c, subs, l0 : c = call[t] /\ subs = subscribers[c.node] /\ l0 = subs[c.at]
  OBVIOUS
<1>1. c \in Code /\ c.node \in Nodes /\ c.at \in Nat \ {0} /\ subs \in Seq(Loggers)
  <2>1. call[t] # NoCall /\ call[t] \in {NoCall} \cup Code
    BY DEF Notify, LogTypeOK
  <2>2. c \in Code
    BY <1>0, <2>1, Calls
  <2> QED
    BY <1>0, <2>2 DEF Code, LogTypeOK
<1>2. c.at \in DOMAIN subs /\ l0 \in Loggers /\ logger[l0].life # "gone" /\ IsLogger(logger[l0])
  <2>1. c.at <= Len(subs) /\ logger[l0].life # "gone"
    BY <1>0 DEF Notify
  <2>2. c.at \in DOMAIN subs /\ l0 \in Loggers
    BY <1>0, <1>1, <2>1
  <2> QED
    BY <2>1, <2>2 DEF LogTypeOK
<1>3. /\ logger' = [logger EXCEPT ![l0] = Callback(logger[l0], c)]
      /\ call' = [call EXCEPT ![t] = [c EXCEPT !.at = c.at + 1]]
      /\ UNCHANGED <<subscribers, status, session, builder, changes>>
  BY <1>0 DEF Notify, Told
<1>4. /\ \A l \in Loggers : l # l0 => logger'[l] = logger[l]
      /\ logger'[l0] = Callback(logger[l0], c)
      /\ \A f \in Fields \ {"log"} : logger'[l0][f] = logger[l0][f]
  <2>1. \A f \in Fields \ {"log"} : Callback(logger[l0], c)[f] = logger[l0][f]
    BY <1>1, <1>2, CallbackTells
  <2> QED
    BY <1>2, <1>3, <2>1 DEF LogTypeOK
<1>5. \A l \in Loggers : /\ logger'[l].life = logger[l].life
                         /\ logger'[l].enabled = logger[l].enabled
                         /\ logger'[l].toIdle = logger[l].toIdle
                         /\ logger'[l].kind = logger[l].kind
                         /\ logger'[l].told = logger[l].told
                         /\ logger'[l].tree = logger[l].tree
                         /\ logger'[l].settings = logger[l].settings
  BY <1>4 DEF Fields
<1>6. /\ \A u \in Threads : u # t => call'[u] = call[u]
      /\ call'[t] = [c EXCEPT !.at = c.at + 1]
      /\ call'[t].node = c.node /\ call'[t].prev = c.prev /\ call'[t].status = c.status
      /\ call'[t].usec = c.usec /\ call'[t].at = c.at + 1
  BY <1>0, <1>1, <1>3 DEF LogTypeOK, Code
<1>7. c # NoCall /\ t \in {Main, c.node} /\ c.prev # c.status /\ c.usec <= Now /\ c.usec \in Nat
      /\ (t = Main /\ c.node \in Followed => status[c.node] = c.status)
  BY <1>0, <1>1 DEF Notify, Callers, Code
<1>8. Callers'
  <2> SUFFICES ASSUME NEW u \in Threads, call'[u] # NoCall
               PROVE  /\ u \in {Main, call'[u].node}
                      /\ call'[u].prev # call'[u].status
                      /\ call'[u].usec <= Now'
                      /\ u = Main /\ call'[u].node \in Followed =>
                           status'[call'[u].node] = call'[u].status
    BY DEF Callers
  <2>1. CASE u = t
    BY <1>3, <1>6, <1>7, <2>1 DEF Now
  <2>2. CASE u # t
    BY <1>3, <1>6, <2>2 DEF Callers, Now
  <2> QED
    BY <2>1, <2>2
<1>9. Subscribed'
  <2> SUFFICES ASSUME NEW n \in Nodes
               PROVE  /\ \A i, j \in DOMAIN subscribers'[n] :
                           subscribers'[n][i] = subscribers'[n][j] => i = j
                      /\ \A i \in DOMAIN subscribers'[n] :
                           logger'[subscribers'[n][i]].life # "none"
                      /\ n \in Range(Visited) => \A l \in Loggers : logger'[l].life = "made" =>
                           \E i \in DOMAIN subscribers'[n] : subscribers'[n][i] = l
    BY DEF Subscribed
  <2>1. \A i \in DOMAIN subscribers[n] : subscribers[n][i] \in Loggers
    BY DEF LogTypeOK
  <2>2. /\ \A i, j \in DOMAIN subscribers[n] : subscribers[n][i] = subscribers[n][j] => i = j
        /\ \A i \in DOMAIN subscribers[n] : logger[subscribers[n][i]].life # "none"
        /\ n \in Range(Visited) => \A l \in Loggers : logger[l].life = "made" =>
             \E i \in DOMAIN subscribers[n] : subscribers[n][i] = l
    BY DEF Subscribed
  <2>3. subscribers'[n] = subscribers[n]
    BY <1>3
  <2> QED
    BY <1>5, <2>1, <2>2, <2>3
<1>10. l0 \in Loggers /\ logger[l0].life = "made"
  <2>1. logger[l0].life # "none"
    BY <1>0, <1>1, <1>2 DEF Subscribed
  <2> QED
    BY <1>2, <2>1 DEF IsLogger
<1>11. Lives'
  <2> SUFFICES ASSUME NEW l \in Loggers
               PROVE  /\ logger'[l].life # "made" => logger'[l].log = <<>> /\ logger'[l].tree = <<>>
                      /\ logger'[l].told => logger'[l].enabled /\ logger'[l].toIdle
                      /\ logger'[l].settings = 0 => logger'[l].kind = "ABSOLUTE"
    BY DEF Lives
  <2>1. CASE l = l0
    BY <1>5, <1>10, <2>1 DEF Lives
  <2>2. CASE l # l0
    BY <1>4, <2>2 DEF Lives
  <2> QED
    BY <2>1, <2>2
\* What the logger that is told appends, if it does.
<1>12. \/ logger'[l0].log = logger[l0].log /\ ~ logger[l0].told
       \/ \E e \in Transitions :
            /\ logger'[l0].log = Append(logger[l0].log, e)
            /\ ReadTransition(e).uid = Uid(c.node)
            /\ ReadTransition(e).prev = c.prev /\ ReadTransition(e).status = c.status
            /\ logger[l0].settings = 0 => ReadTransition(e).usec = c.usec
  <2>1. Fits(c.usec)
    BY <1>7, Clock DEF LogTypeOK, Now
  <2>2. logger[l0].settings = 0 => logger[l0].kind = "ABSOLUTE"
    BY <1>2 DEF Lives
  <2>3. logger[l0].told => logger[l0].enabled /\ logger[l0].toIdle
    BY <1>2 DEF Lives
  <2>4. \/ logger'[l0] = logger[l0] /\ ~ (logger[l0].enabled /\ logger[l0].toIdle)
        \/ \E e \in Transitions :
             /\ logger'[l0].log = Append(logger[l0].log, e)
             /\ ReadTransition(e).uid = Uid(c.node)
             /\ ReadTransition(e).prev = c.prev /\ ReadTransition(e).status = c.status
             /\ logger[l0].kind = "ABSOLUTE" /\ Fits(c.usec) => ReadTransition(e).usec = c.usec
    <3> DEFINE g == logger[l0]
               h == Callback(g, c)
    <3>1. \/ h = g /\ ~ (g.enabled /\ g.toIdle)
          \/ \E e \in Transitions :
               /\ h.log = Append(g.log, e)
               /\ ReadTransition(e).uid = Uid(c.node)
               /\ ReadTransition(e).prev = c.prev /\ ReadTransition(e).status = c.status
               /\ g.kind = "ABSOLUTE" /\ Fits(c.usec) => ReadTransition(e).usec = c.usec
      <4>1. IsLogger(g)
        BY <1>2
      <4> HIDE DEF g
      <4> QED
        BY <1>1, <4>1, CallbackTells
    <3>2. logger'[l0] = h
      BY <1>4
    <3> HIDE DEF h
    <3> QED
      BY <3>1, <3>2
  <2> QED
    BY <2>1, <2>2, <2>3, <2>4
<1>13. \A l \in Loggers : logger[l].log \in Seq(Transitions)
  BY DEF LogTypeOK, IsLogger
\* No logger hears of a node other than that of the call.
<1>14. ASSUME NEW l \in Loggers, NEW n \in Followed, n # c.node
       PROVE  /\ Of(logger'[l].log, n) = Of(logger[l].log, n)
              /\ \A last, moment, timed :
                   Story(logger[l].log, n, last, moment, timed) =>
                     Story(logger'[l].log, n, last, moment, timed)
  <2>1. CASE logger'[l].log = logger[l].log
    BY <2>1
  <2>2. CASE logger'[l].log # logger[l].log
    <3>1. l = l0
      BY <1>4, <2>2
    <3>2. PICK e \in Transitions : /\ logger'[l].log = Append(logger[l].log, e)
                                   /\ ReadTransition(e).uid = Uid(c.node)
      BY <1>12, <2>2, <3>1
    <3>3. ReadTransition(e).uid # Uid(n)
      BY <1>1, <1>14, <3>2, UidsDiffer, FollowedNodes
    <3> QED
      BY <1>13, <3>2, <3>3, FollowedNodes, OthersAreIgnored
  <2> QED
    BY <2>1, <2>2
<1>15. Snapshot'
  <2> SUFFICES ASSUME session # NoSession
               PROVE  /\ call'[Main] = NoCall
                      /\ "logger" \in DOMAIN session /\ session.logger \in Loggers
                      /\ logger'[session.logger].life = "made"
                      /\ logger'[session.logger].tree = <<>>
                      /\ \A n \in Followed : Of(logger'[session.logger].log, n) = {}
    BY <1>3 DEF Snapshot
  <2>1. call[Main] = NoCall /\ t # Main
    BY <1>0, <1>7 DEF Snapshot
  <2>2. c.node \notin Followed /\ call'[Main] = NoCall
    BY <1>6, <1>7, <2>1, FollowedNodes
  <2>3. "logger" \in DOMAIN session /\ session.logger \in Loggers
    BY DEF Snapshot
  <2> QED
    BY <1>5, <1>14, <2>1, <2>2, <2>3 DEF Snapshot
\* Whoever is not told now waits as before.
<1>16. ASSUME NEW l \in Loggers, NEW n \in Followed, l # l0 \/ n # c.node
       PROVE  /\ Known(l, n)' = Known(l, n) /\ Until(l, n)' = Until(l, n)
              /\ Until(l, n) \in Int
  <2>1. n \in Nodes /\ Main \in Threads
    BY FollowedNodes
  <2>2. Pending(l, n)' = Pending(l, n)
    <3>1. CASE t # Main
      BY <1>3, <1>6, <2>1, <3>1 DEF Pending
    <3>2. CASE t = Main /\ n # c.node
      BY <1>0, <1>6, <3>2 DEF Pending
    <3>3. CASE t = Main /\ n = c.node
      <4>1. l # subs[c.at]
        BY <1>0, <1>16, <3>3
      <4>2. \A i \in DOMAIN subs : i \in Int /\ (subs[i] = l => i # c.at)
        BY <1>1, <4>1
      <4>3. (\E i \in DOMAIN subs : subs[i] = l /\ i >= c.at)
              = (\E i \in DOMAIN subs : subs[i] = l /\ i >= c.at + 1)
        BY <1>1, <4>2
      <4>4. /\ Pending(l, n) = (\E i \in DOMAIN subs : subs[i] = l /\ i >= c.at)
            /\ Pending(l, n)' = (\E i \in DOMAIN subs : subs[i] = l /\ i >= c.at + 1)
        BY <1>0, <1>3, <1>6, <3>3 DEF Pending
      <4> QED
        BY <4>3, <4>4
    <3> QED
      BY <3>1, <3>2, <3>3
  <2>3. t = Main \/ call'[Main] = call[Main]
    BY <1>6, <2>1
  <2>4. call'[Main].prev = call[Main].prev /\ call'[Main].usec = call[Main].usec
    BY <1>0, <1>6, <2>3
  <2>5. Known(l, n)' = Known(l, n) /\ Until(l, n)' = Until(l, n)
    BY <1>3, <2>2, <2>4 DEF Known, Until, Now
  <2> QED
    BY <2>5, UntilIsANumber
\* The logger that is told of a node it follows was behind, and is not any more.
<1>17. ASSUME NEW l \in Loggers, NEW n \in Followed, l = l0, n = c.node
       PROVE  /\ Known(l, n) = c.prev /\ Until(l, n) = c.usec
              /\ Known(l, n)' = c.status /\ Until(l, n)' = Now + 1
  <2>1. t = Main /\ n \in Nodes
    BY <1>7, <1>17, FollowedNodes
  <2>2. Pending(l, n)
    BY <1>0, <1>1, <1>2, <1>17, <2>1 DEF Pending
  <2>3. ~ Pending(l, n)'
    <3>1. \A i \in DOMAIN subs : subs[i] = l => i = c.at
      BY <1>0, <1>1, <1>2, <1>17 DEF Subscribed
    <3>2. \A i \in DOMAIN subs : subs[i] = l => ~ (i >= c.at + 1)
      BY <1>1, <3>1
    <3>3. subscribers'[n] = subs /\ call'[Main].at = c.at + 1
      BY <1>0, <1>3, <1>6, <1>17, <2>1
    <3> QED
      BY <3>2, <3>3 DEF Pending
  <2>4. status'[n] = c.status
    BY <1>3, <1>7, <1>17, <2>1
  <2> QED
    BY <1>0, <1>3, <2>1, <2>2, <2>3, <2>4 DEF Known, Until, Now
<1>18. KeepsUp'
  <2> SUFFICES ASSUME NEW l \in Loggers, logger'[l].life = "made", logger'[l].told,
                      NEW n \in Followed
               PROVE  Story(logger'[l].log, n, Known(l, n)', Until(l, n)',
                            logger'[l].settings = 0)
    BY DEF KeepsUp
  <2>1. logger'[l].settings = logger[l].settings
    BY <1>5
  <2>2. Story(logger[l].log, n, Known(l, n), Until(l, n), logger[l].settings = 0)
    BY <1>5 DEF KeepsUp
  <2>3. CASE n # c.node
    <3>1. Known(l, n)' = Known(l, n) /\ Until(l, n)' = Until(l, n)
      BY <1>16, <2>3
    <3>2. Story(logger'[l].log, n, Known(l, n), Until(l, n), logger[l].settings = 0)
      BY <1>14, <2>2, <2>3
    <3> QED
      BY <2>1, <3>1, <3>2
  <2>4. CASE n = c.node /\ l # l0
    <3>1. Known(l, n)' = Known(l, n) /\ Until(l, n)' = Until(l, n)
      BY <1>16, <2>4
    <3> QED
      BY <1>4, <2>2, <2>4, <3>1
  <2>5. CASE n = c.node /\ l = l0
    <3>1. PICK e \in Transitions :
            /\ logger'[l0].log = Append(logger[l0].log, e)
            /\ ReadTransition(e).uid = Uid(n)
            /\ ReadTransition(e).prev = c.prev /\ ReadTransition(e).status = c.status
            /\ logger[l0].settings = 0 => ReadTransition(e).usec = c.usec
      BY <1>5, <1>12, <2>5
    <3>2. /\ Known(l, n) = c.prev /\ Until(l, n) = c.usec
          /\ Known(l, n)' = c.status /\ Until(l, n)' = Now + 1
      BY <1>17, <2>5
    <3>3. n \in Nodes /\ Now \in Nat /\ c.usec < Now + 1 /\ c.usec \in Int /\ Now + 1 \in Int
      <4>1. n \in Nodes
        BY FollowedNodes
      <4>2. Now \in Nat
        BY Clock DEF LogTypeOK, Now
      <4>3. c.usec \in Nat /\ c.usec <= Now
        BY <1>7
      <4> QED
        BY <4>1, <4>2, <4>3
    <3> DEFINE timed == logger[l].settings = 0
               log   == logger[l].log
    <3>4. /\ log \in Seq(Transitions) /\ timed \in BOOLEAN
          /\ logger'[l].log = Append(log, e)
          /\ timed => ReadTransition(e).usec = c.usec
          /\ Story(log, n, ReadTransition(e).prev, c.usec, timed)
          /\ ReadTransition(e).prev # ReadTransition(e).status
      BY <1>7, <1>13, <2>2, <2>5, <3>1, <3>2
    <3> HIDE DEF timed, log
    <3>5. Story(Append(log, e), n, ReadTransition(e).status, Now + 1, timed)
      BY <3>1, <3>3, <3>4, StoryGoesOn
    <3>6. Story(logger'[l].log, n, Known(l, n)', Until(l, n)', timed)
      BY <3>1, <3>2, <3>4, <3>5
    <3> QED
      BY <2>1, <3>6 DEF timed
  <2> QED
    BY <2>3, <2>4, <2>5
<1>19. ASSUME Portrayed PROVE Portrayed'
  <2> SUFFICES ASSUME NEW l \in Loggers, logger'[l].told, logger'[l].tree # <<>>,
                      NEW n \in Followed, Of(logger'[l].log, n) = {}
               PROVE  logger'[l].tree[Uid(n)] = Known(l, n)'
    BY DEF Portrayed
  <2>1. l # l0 \/ n # c.node
    <3> SUFFICES ASSUME l = l0, n = c.node PROVE FALSE
      OBVIOUS
    <3>1. PICK e \in Transitions : /\ logger'[l].log = Append(logger[l].log, e)
                                   /\ ReadTransition(e).uid = Uid(n)
      BY <1>5, <1>12
    <3> DEFINE log == logger[l].log
    <3>2. log \in Seq(Transitions)
      BY <1>13
    <3> HIDE DEF log
    <3>3. /\ Len(log) + 1 \in DOMAIN Append(log, e) /\ Append(log, e)[Len(log) + 1] = e
      BY <3>2, Appended
    <3>4. Len(log) + 1 \in Of(Append(log, e), n)
      BY <3>1, <3>3 DEF Of
    <3> QED
      BY <3>1, <3>4 DEF log
  <2>2. Known(l, n)' = Known(l, n)
    BY <1>16, <2>1
  <2>3. Of(logger[l].log, n) = {}
    <3>1. CASE n # c.node
      BY <1>14, <3>1
    <3>2. CASE l # l0
      BY <1>4, <3>2
    <3> QED
      BY <2>1, <3>1, <3>2
  <2> QED
    BY <1>5, <1>19, <2>2, <2>3 DEF Portrayed
<1> QED
  BY <1>8, <1>9, <1>11, <1>15, <1>18, <1>19

\* The last subscriber has been told.
LEMMA NotifyReturnStep ==
  ASSUME LogInv, LogTypeOK', NEW t \in Threads, NotifyReturn(t)
  PROVE  LogInv' /\ (Portrayed => Portrayed')
<1> USE DEF LogInv
<1>1. /\ call[t] \in Code /\ call[t].at > Len(subscribers[call[t].node])
      /\ call' = [call EXCEPT ![t] = NoCall]
      /\ UNCHANGED <<status, subscribers, logger, session, builder, changes>>
  BY Calls DEF NotifyReturn, LogTypeOK
<1>2. call'[t] = NoCall /\ \A u \in Threads : u # t => call'[u] = call[u]
  BY <1>1 DEF LogTypeOK
<1>3. Callers'
  BY <1>1, <1>2 DEF Callers, Now
<1>4. Subscribed' /\ Lives'
  BY <1>1 DEF Subscribed, Lives
<1>5. Snapshot'
  BY <1>1, <1>2, FollowedNodes DEF Snapshot
<1>6. ASSUME NEW l \in Loggers, NEW n \in Followed
      PROVE  Known(l, n)' = Known(l, n) /\ Until(l, n)' \in Int /\ Until(l, n) <= Until(l, n)'
  <2>1. n \in Nodes /\ Main \in Threads
    BY FollowedNodes
  <2>2. Pending(l, n)' = Pending(l, n)
    <3>1. CASE t # Main
      BY <1>1, <1>2, <2>1, <3>1 DEF Pending
    <3>2. CASE t = Main
      <4>1. ~ Pending(l, n)'
        BY <1>2, <2>1, <3>2, Calls DEF Pending
      <4>2. ~ Pending(l, n)
        <5> SUFFICES ASSUME Pending(l, n) PROVE FALSE
          OBVIOUS
        <5>1. PICK i \in DOMAIN subscribers[n] : i >= call[Main].at /\ call[Main].node = n
          BY DEF Pending
        <5>2. subscribers[n] \in Seq(Loggers) /\ call[Main].at \in Nat
          BY <1>1, <2>1, <3>2 DEF LogTypeOK, Code
        <5>3. i \in 1 .. Len(subscribers[n]) /\ n = call[t].node
          BY <3>2, <5>1, <5>2
        <5>4. call[t].at > Len(subscribers[n]) /\ i >= call[t].at /\ call[t].at \in Nat
          BY <1>1, <3>2, <5>1, <5>2, <5>3
        <5>5. Len(subscribers[n]) \in Nat
          BY <5>2
        <5> QED
          BY <5>3, <5>4, <5>5
      <4> QED
        BY <4>1, <4>2 DEF Pending
    <3> QED
      BY <3>1, <3>2
  <2>3. t = Main => ~ Pending(l, n)'
    BY <1>2, <2>1, Calls DEF Pending
  <2>4. t # Main => call'[Main] = call[Main]
    BY <1>2, <2>1
  <2>5. Known(l, n)' = Known(l, n) /\ Until(l, n)' = Until(l, n)
    BY <1>1, <2>2, <2>3, <2>4 DEF Known, Until, Now
  <2> QED
    BY <2>5, UntilIsANumber
<1>7. KeepsUp' /\ (Portrayed => Portrayed')
  BY <1>1, <1>4, <1>6, StoriesStay
<1> QED
  BY <1>3, <1>4, <1>5, <1>7

\* Nobody's turn comes or goes while the main thread is not telling anybody.
LEMMA NobodyWaits ==
  ASSUME LogTypeOK, MainIsFree, UNCHANGED <<status, call, changes>>,
         NEW l \in Loggers, NEW n \in Followed
  PROVE  /\ Known(l, n) = status[n] /\ Known(l, n)' = Known(l, n)
         /\ Until(l, n)' \in Int /\ Until(l, n) <= Until(l, n)'
<1>1. call[Main] = NoCall /\ n \in Nodes
  BY FollowedNodes DEF MainIsFree
<1>2. ~ Pending(l, n) /\ ~ Pending(l, n)'
  BY <1>1, Calls DEF Pending
<1>3. /\ Known(l, n) = status[n] /\ Known(l, n)' = Known(l, n)
      /\ Until(l, n)' = Until(l, n)
  BY <1>2 DEF Known, Until, Now
<1> QED
  BY <1>3, UntilIsANumber

\* A logger is made: it is subscribed to every node it visits, and has nothing yet.
LEMMA MakeLoggerStep ==
  ASSUME LogInv, LogTypeOK', NEW l0 \in Loggers, MakeLogger(l0)
  PROVE  LogInv' /\ (Portrayed => Portrayed')
<1> USE DEF LogInv
<1>1. /\ logger[l0].life = "none" /\ MainIsFree /\ call[Main] = NoCall
      /\ subscribers' = [n \in Nodes |-> IF n \in Range(Visited) THEN Append(subscribers[n], l0)
                                         ELSE subscribers[n]]
      /\ UNCHANGED <<status, call, builder, changes>>
  BY DEF MakeLogger, MainIsFree
<1>2. /\ \A l \in Loggers : l # l0 => logger'[l] = logger[l]
      /\ logger'[l0] = [[logger[l0] EXCEPT !.life = "made"] EXCEPT !.first = Now]
  BY DEF MakeLogger, LogTypeOK
<1>3. /\ logger'[l0].life = "made" /\ logger'[l0].log = <<>> /\ logger'[l0].tree = <<>>
      /\ logger'[l0].told = logger[l0].told /\ logger'[l0].enabled = logger[l0].enabled
      /\ logger'[l0].toIdle = logger[l0].toIdle /\ logger'[l0].kind = logger[l0].kind
      /\ logger'[l0].settings = logger[l0].settings
  <2>1. IsLogger(logger[l0]) /\ logger[l0].log = <<>> /\ logger[l0].tree = <<>>
    BY <1>1 DEF Lives, LogTypeOK
  <2> QED
    BY <1>2, <2>1 DEF IsLogger, Fields
<1>4. Callers'
  <2>1. status' = status /\ call' = call /\ changes' = changes
    BY <1>1
  <2> QED
    BY <2>1 DEF Callers, Now
<1>5. Lives'
  <2> SUFFICES ASSUME NEW l \in Loggers
               PROVE  /\ logger'[l].life # "made" => logger'[l].log = <<>> /\ logger'[l].tree = <<>>
                      /\ logger'[l].told => logger'[l].enabled /\ logger'[l].toIdle
                      /\ logger'[l].settings = 0 => logger'[l].kind = "ABSOLUTE"
    BY DEF Lives
  <2>1. CASE l = l0
    <3>1. /\ logger[l0].told => logger[l0].enabled /\ logger[l0].toIdle
          /\ logger[l0].settings = 0 => logger[l0].kind = "ABSOLUTE"
      BY DEF Lives
    <3> QED
      BY <1>3, <2>1, <3>1
  <2>2. CASE l # l0
    BY <1>2, <2>2 DEF Lives
  <2> QED
    BY <2>1, <2>2
<1>6. Subscribed'
  <2> SUFFICES ASSUME NEW n \in Nodes
               PROVE  /\ \A i, j \in DOMAIN subscribers'[n] :
                           subscribers'[n][i] = subscribers'[n][j] => i = j
                      /\ \A i \in DOMAIN subscribers'[n] :
                           logger'[subscribers'[n][i]].life # "none"
                      /\ n \in Range(Visited) => \A l \in Loggers : logger'[l].life = "made" =>
                           \E i \in DOMAIN subscribers'[n] : subscribers'[n][i] = l
    BY DEF Subscribed
  <2> DEFINE subs == subscribers[n]
  <2>1. /\ subs \in Seq(Loggers)
        /\ \A i, j \in DOMAIN subs : subs[i] = subs[j] => i = j
        /\ \A i \in DOMAIN subs : subs[i] \in Loggers /\ logger[subs[i]].life # "none"
        /\ n \in Range(Visited) => \A l \in Loggers : logger[l].life = "made" =>
             \E i \in DOMAIN subs : subs[i] = l
    BY DEF Subscribed, LogTypeOK
  <2>2. \A i \in DOMAIN subs : subs[i] # l0 /\ logger'[subs[i]].life # "none"
    BY <1>1, <1>2, <2>1
  <2>3. CASE n \notin Range(Visited)
    <3>1. subscribers'[n] = subs
      BY <1>1, <2>3
    <3> QED
      BY <2>1, <2>2, <2>3, <3>1
  <2>4. CASE n \in Range(Visited)
    <3>1. subscribers'[n] = Append(subs, l0)
      BY <1>1, <2>4
    <3> HIDE DEF subs
    <3>2. /\ DOMAIN Append(subs, l0) = 1 .. Len(subs) + 1 /\ DOMAIN subs = 1 .. Len(subs)
          /\ Len(subs) \in Nat
          /\ \A i \in DOMAIN subs : Append(subs, l0)[i] = subs[i]
          /\ Append(subs, l0)[Len(subs) + 1] = l0
      BY <2>1
    <3>3. /\ \A i \in 1 .. Len(subs) + 1 : i \in DOMAIN subs \/ i = Len(subs) + 1
          /\ \A i \in DOMAIN subs : i \in 1 .. Len(subs) + 1
          /\ Len(subs) + 1 \in 1 .. Len(subs) + 1
      BY <3>2
    <3>4. \A i, j \in DOMAIN Append(subs, l0) : Append(subs, l0)[i] = Append(subs, l0)[j] => i = j
      BY <2>1, <2>2, <3>2, <3>3
    <3>5. \A i \in DOMAIN Append(subs, l0) : logger'[Append(subs, l0)[i]].life # "none"
      BY <1>3, <2>2, <3>2, <3>3
    <3>6. \A l \in Loggers : logger'[l].life = "made" =>
            \E i \in DOMAIN Append(subs, l0) : Append(subs, l0)[i] = l
      <4> SUFFICES ASSUME NEW l \in Loggers, logger'[l].life = "made"
                   PROVE  \E i \in DOMAIN Append(subs, l0) : Append(subs, l0)[i] = l
        OBVIOUS
      <4>1. CASE l = l0
        BY <3>2, <3>3, <4>1
      <4>2. CASE l # l0
        <5>1. PICK i \in DOMAIN subs : subs[i] = l
          BY <1>2, <2>1, <2>4, <4>2
        <5> QED
          BY <3>2, <3>3, <5>1
      <4> QED
        BY <4>1, <4>2
    <3> QED
      BY <3>1, <3>4, <3>5, <3>6
  <2> QED
    BY <2>3, <2>4
<1>7. \A l \in Loggers, n \in Followed :
        /\ Known(l, n) = status[n] /\ Known(l, n)' = Known(l, n)
        /\ Until(l, n)' \in Int /\ Until(l, n) <= Until(l, n)'
  BY <1>1, NobodyWaits
<1>8. KeepsUp'
  <2> SUFFICES ASSUME NEW l \in Loggers, logger'[l].life = "made", logger'[l].told,
                      NEW n \in Followed
               PROVE  Story(logger'[l].log, n, Known(l, n)', Until(l, n)',
                            logger'[l].settings = 0)
    BY DEF KeepsUp
  <2>1. CASE l = l0
    BY <1>3, <2>1, StoryKeeps
  <2>2. CASE l # l0
    <3>1. logger'[l] = logger[l]
      BY <1>2, <2>2
    <3>2. Story(logger[l].log, n, Known(l, n), Until(l, n), logger[l].settings = 0)
      BY <3>1 DEF KeepsUp
    <3>3. Until(l, n) \in Int
      BY UntilIsANumber
    <3> QED
      BY <1>7, <3>1, <3>2, <3>3, StoryKeeps
  <2> QED
    BY <2>1, <2>2
<1>9. ASSUME Portrayed PROVE Portrayed'
  <2> SUFFICES ASSUME NEW l \in Loggers, logger'[l].told, logger'[l].tree # <<>>,
                      NEW n \in Followed, Of(logger'[l].log, n) = {}
               PROVE  logger'[l].tree[Uid(n)] = Known(l, n)'
    BY DEF Portrayed
  <2>1. l # l0 /\ logger'[l] = logger[l]
    BY <1>2, <1>3
  <2> QED
    BY <1>7, <1>9, <2>1 DEF Portrayed
<1>10. Snapshot'
  <2>1. session' = [logger |-> l0, left |-> Visited, nodes |-> <<>>, models |-> <<>>,
                    done |-> FALSE]
    BY DEF MakeLogger
  <2>2. "logger" \in DOMAIN session' /\ session'.logger = l0
    BY <2>1
  <2>3. \A n \in Followed : Of(logger'[l0].log, n) = {}
    BY <1>3, StoryKeeps
  <2> QED
    BY <1>1, <1>3, <2>2, <2>3 DEF Snapshot
<1> QED
  BY <1>4, <1>5, <1>6, <1>8, <1>9, <1>10

\* A snapshot is written: whose it is and who waits for what do not change.
LEMMA SerializeStep ==
  ASSUME LogInv, LogTypeOK', SerializeNode \/ SerializeModel \/ SerializeEnd
  PROVE  LogInv' /\ (Portrayed => Portrayed')
<1> USE DEF LogInv
<1>1. /\ session # NoSession
      /\ UNCHANGED <<status, subscribers, logger, call, changes>>
      /\ "logger" \in DOMAIN session' /\ session'.logger = session.logger
  <2>1. session # NoSession /\ UNCHANGED <<status, subscribers, logger, call, changes>>
    BY DEF SerializeNode, SerializeModel, SerializeEnd
  <2>2. "logger" \in DOMAIN session
    BY <2>1 DEF Snapshot
  <2>3. CASE SerializeNode
    BY <2>1, <2>2, <2>3 DEF SerializeNode
  <2>4. CASE SerializeModel
    BY <2>1, <2>2, <2>4 DEF SerializeModel
  <2>5. CASE SerializeEnd
    BY <2>1, <2>2, <2>5 DEF SerializeEnd
  <2> QED
    BY <2>1, <2>3, <2>4, <2>5
<1>2. Callers' /\ Subscribed' /\ Lives'
  BY <1>1 DEF Callers, Subscribed, Lives, Now
<1>3. KeepsUp' /\ (Portrayed => Portrayed')
  BY <1>1 DEF KeepsUp, Portrayed, Known, Until, Pending, Now
<1>4. Snapshot'
  BY <1>1 DEF Snapshot
<1> QED
  BY <1>2, <1>3, <1>4

\* A snapshot is kept: what is read from it are the statuses of the nodes.
LEMMA KeepTreeStep ==
  ASSUME LogInv, LogTypeOK', KeepTree
  PROVE  LogInv' /\ (Portrayed /\ ReadsBack => Portrayed')
<1> USE DEF LogInv
<1> DEFINE l0 == session.logger
<1>1. /\ session # NoSession /\ session.done /\ session' = NoSession
      /\ logger' = [logger EXCEPT ![l0] = [logger[l0] EXCEPT !.tree = StatusesOf(builder.back)]]
      /\ UNCHANGED <<status, subscribers, call, changes>>
  BY DEF KeepTree
<1>2. /\ l0 \in Loggers /\ logger[l0].life = "made" /\ call[Main] = NoCall
      /\ \A n \in Followed : Of(logger[l0].log, n) = {}
      /\ IsLogger(logger[l0])
  BY <1>1 DEF Snapshot, LogTypeOK
<1>3. /\ \A l \in Loggers : l # l0 => logger'[l] = logger[l]
      /\ logger'[l0] = [logger[l0] EXCEPT !.tree = StatusesOf(builder.back)]
  BY <1>1, <1>2 DEF LogTypeOK
<1>4. /\ logger'[l0].life = logger[l0].life /\ logger'[l0].log = logger[l0].log
      /\ logger'[l0].told = logger[l0].told /\ logger'[l0].enabled = logger[l0].enabled
      /\ logger'[l0].toIdle = logger[l0].toIdle /\ logger'[l0].kind = logger[l0].kind
      /\ logger'[l0].settings = logger[l0].settings
      /\ logger'[l0].tree = StatusesOf(builder.back)
  <2>1. DOMAIN logger[l0] = Fields
    BY <1>2 DEF IsLogger
  <2> HIDE DEF l0
  <2> QED
    BY <1>3, <2>1 DEF Fields
<1>5. \A l \in Loggers : /\ logger'[l].life = logger[l].life /\ logger'[l].log = logger[l].log
                         /\ logger'[l].told = logger[l].told
                         /\ logger'[l].enabled = logger[l].enabled
                         /\ logger'[l].toIdle = logger[l].toIdle
                         /\ logger'[l].kind = logger[l].kind
                         /\ logger'[l].settings = logger[l].settings
  BY <1>3, <1>4
<1>6. Callers'
  <2>1. status' = status /\ call' = call /\ changes' = changes
    BY <1>1
  <2> QED
    BY <2>1 DEF Callers, Now
<1>7. Subscribed'
  <2> SUFFICES ASSUME NEW n \in Nodes
               PROVE  /\ \A i, j \in DOMAIN subscribers[n] :
                           subscribers[n][i] = subscribers[n][j] => i = j
                      /\ \A i \in DOMAIN subscribers[n] :
                           logger'[subscribers[n][i]].life # "none"
                      /\ n \in Range(Visited) => \A l \in Loggers : logger'[l].life = "made" =>
                           \E i \in DOMAIN subscribers[n] : subscribers[n][i] = l
    BY <1>1 DEF Subscribed
  <2>1. \A i \in DOMAIN subscribers[n] : subscribers[n][i] \in Loggers
    BY DEF LogTypeOK
  <2>2. /\ \A i, j \in DOMAIN subscribers[n] : subscribers[n][i] = subscribers[n][j] => i = j
        /\ \A i \in DOMAIN subscribers[n] : logger[subscribers[n][i]].life # "none"
        /\ n \in Range(Visited) => \A l \in Loggers : logger[l].life = "made" =>
             \E i \in DOMAIN subscribers[n] : subscribers[n][i] = l
    BY DEF Subscribed
  <2> QED
    BY <1>5, <2>1, <2>2
<1>8. Lives'
  <2> SUFFICES ASSUME NEW l \in Loggers
               PROVE  /\ logger'[l].life # "made" => logger'[l].log = <<>> /\ logger'[l].tree = <<>>
                      /\ logger'[l].told => logger'[l].enabled /\ logger'[l].toIdle
                      /\ logger'[l].settings = 0 => logger'[l].kind = "ABSOLUTE"
    BY DEF Lives
  <2>1. CASE l = l0
    <3>1. /\ logger[l0].told => logger[l0].enabled /\ logger[l0].toIdle
          /\ logger[l0].settings = 0 => logger[l0].kind = "ABSOLUTE"
      BY <1>2 DEF Lives
    <3> HIDE DEF l0
    <3> QED
      BY <1>2, <1>4, <2>1, <3>1
  <2>2. CASE l # l0
    BY <1>3, <2>2 DEF Lives
  <2> QED
    BY <2>1, <2>2
<1>9. \A l \in Loggers, n \in Followed :
         /\ Known(l, n)' = Known(l, n) /\ Until(l, n)' = Until(l, n) /\ Known(l, n) = status[n]
  <2> SUFFICES ASSUME NEW l \in Loggers, NEW n \in Followed
               PROVE  /\ Known(l, n)' = Known(l, n) /\ Until(l, n)' = Until(l, n)
                      /\ Known(l, n) = status[n]
    OBVIOUS
  <2>1. call[Main] = NoCall /\ call'[Main] = NoCall /\ n \in Nodes
    BY <1>1, <1>2, FollowedNodes
  <2>2. ~ Pending(l, n) /\ ~ Pending(l, n)'
    BY <2>1, Calls DEF Pending
  <2> QED
    BY <1>1, <2>2 DEF Known, Until, Now
<1>10. KeepsUp'
  <2> SUFFICES ASSUME NEW l \in Loggers, logger'[l].life = "made", logger'[l].told,
                      NEW n \in Followed
               PROVE  Story(logger'[l].log, n, Known(l, n)', Until(l, n)',
                            logger'[l].settings = 0)
    BY DEF KeepsUp
  <2>1. /\ logger'[l].log = logger[l].log /\ logger'[l].settings = logger[l].settings
        /\ Known(l, n)' = Known(l, n) /\ Until(l, n)' = Until(l, n)
    BY <1>5, <1>9
  <2>2. Story(logger[l].log, n, Known(l, n), Until(l, n), logger[l].settings = 0)
    BY <1>5 DEF KeepsUp
  <2> QED
    BY <2>1, <2>2
<1>11. Snapshot'
  BY <1>1 DEF Snapshot
\* Every node that is followed is in the snapshot, with the status it has.
<1>12. ASSUME ReadsBack, NEW n \in Followed
       PROVE  StatusesOf(builder.back)[Uid(n)] = status[n]
  <2> DEFINE nodes == NodesOf(builder.back)
  <2>1. /\ DOMAIN nodes = DOMAIN Visited
        /\ \A i \in DOMAIN Visited : SameNode(nodes[i], Visited[i])
    BY <1>1, <1>12 DEF ReadsBack
  <2>2. \A i \in DOMAIN Visited :
          /\ nodes[i].uid = Uid(Visited[i])
          /\ Visited[i] \notin Async => nodes[i].status = status[Visited[i]]
    BY <2>1 DEF SameNode
  <2>3. PICK k \in DOMAIN Visited : Visited[k] = n
    BY FollowedNodes DEF Range
  <2>4. nodes[k] \in Range(nodes) /\ nodes[k].uid = Uid(n) /\ nodes[k].status = status[n]
    <3>1. n \notin Async
      BY DEF Followed
    <3>2. nodes[k].uid = Uid(n) /\ nodes[k].status = status[n]
      BY <2>2, <2>3, <3>1
    <3>3. nodes[k] \in Range(nodes)
      BY <2>1, <2>3 DEF Range
    <3> QED
      BY <3>2, <3>3
  <2>5. \A i \in DOMAIN Visited : Visited[i] \in Nodes
    BY VisitAssumption DEF Range
  <2>6. ASSUME NEW i \in DOMAIN Visited, nodes[i].uid = Uid(n)
        PROVE  nodes[i].status = status[n]
    <3>1. Visited[i] = n
      BY <2>2, <2>5, <2>6, UidsDiffer, FollowedNodes
    <3> QED
      BY <2>2, <3>1 DEF Followed
  <2>7. \A q \in Range(nodes) : q.uid = Uid(n) => q.status = status[n]
    BY <2>1, <2>6 DEF Range
  <2>8. \E r \in Range(nodes) : r.uid = Uid(n)
    BY <2>4
  <2> QED
    BY <2>7, <2>8, StatusesAreRead
<1>13. ASSUME Portrayed, ReadsBack PROVE Portrayed'
  <2> SUFFICES ASSUME NEW l \in Loggers, logger'[l].told, logger'[l].tree # <<>>,
                      NEW n \in Followed, Of(logger'[l].log, n) = {}
               PROVE  logger'[l].tree[Uid(n)] = Known(l, n)'
    BY DEF Portrayed
  <2>1. CASE l = l0
    <3>1. logger'[l].tree = StatusesOf(builder.back)
      BY <1>4, <2>1
    <3>2. StatusesOf(builder.back)[Uid(n)] = status[n]
      BY <1>12, <1>13
    <3> QED
      BY <1>9, <3>1, <3>2
  <2>2. CASE l # l0
    BY <1>3, <1>9, <1>13, <2>2 DEF Portrayed
  <2> QED
    BY <2>1, <2>2
<1> QED
  BY <1>6, <1>7, <1>8, <1>10, <1>11, <1>13

\* The switches of a logger: once they are set its log is not followed as one that
\* was told all, or in the same time.
LEMMA SetStep ==
  ASSUME LogInv, LogTypeOK', NEW l0 \in Loggers, NEW g, Set(l0, g), IsLogger(g),
         g.life = logger[l0].life, g.log = logger[l0].log, g.tree = logger[l0].tree,
         g.told = logger[l0].told, g.settings = logger[l0].settings
  PROVE  LogInv' /\ (Portrayed => Portrayed')
<1> USE DEF LogInv
<1>1. /\ logger[l0].life = "made" /\ MainIsFree
      /\ UNCHANGED <<status, subscribers, call, session, builder, changes>>
  BY DEF Set
<1>2. /\ \A l \in Loggers : l # l0 => logger'[l] = logger[l]
      /\ logger'[l0] = [[g EXCEPT !.settings = g.settings + 1]
                          EXCEPT !.told = g.told /\ g.enabled /\ g.toIdle]
  BY DEF Set, LogTypeOK, IsLogger, Fields
<1>3. /\ logger'[l0].life = "made" /\ logger'[l0].log = logger[l0].log
      /\ logger'[l0].tree = logger[l0].tree
      /\ logger'[l0].told = (g.told /\ g.enabled /\ g.toIdle)
      /\ logger'[l0].enabled = g.enabled /\ logger'[l0].toIdle = g.toIdle
      /\ logger'[l0].settings # 0
  BY <1>1, <1>2 DEF IsLogger, Fields
<1>4. Callers'
  <2>1. status' = status /\ call' = call /\ changes' = changes
    BY <1>1
  <2> QED
    BY <2>1 DEF Callers, Now
<1>5. \A l \in Loggers : logger'[l].life = logger[l].life
  BY <1>1, <1>2, <1>3
<1>6. Subscribed'
  <2>1. \A n \in Nodes : \A i \in DOMAIN subscribers[n] : subscribers[n][i] \in Loggers
    BY DEF LogTypeOK
  <2>2. subscribers' = subscribers
    BY <1>1
  <2> QED
    BY <1>5, <2>1, <2>2 DEF Subscribed
<1>7. Lives'
  <2> SUFFICES ASSUME NEW l \in Loggers
               PROVE  /\ logger'[l].life # "made" => logger'[l].log = <<>> /\ logger'[l].tree = <<>>
                      /\ logger'[l].told => logger'[l].enabled /\ logger'[l].toIdle
                      /\ logger'[l].settings = 0 => logger'[l].kind = "ABSOLUTE"
    BY DEF Lives
  <2>1. CASE l = l0
    BY <1>3, <2>1
  <2>2. CASE l # l0
    BY <1>2, <2>2 DEF Lives
  <2> QED
    BY <2>1, <2>2
<1>8. \A l \in Loggers, n \in Followed :
        /\ Known(l, n)' = Known(l, n)
        /\ Until(l, n)' \in Int /\ Until(l, n) <= Until(l, n)'
  BY <1>1, NobodyWaits
<1>9. \A l \in Loggers : logger'[l].life = "made" /\ logger'[l].told =>
        /\ logger[l].life = "made" /\ logger[l].told
        /\ logger'[l].log = logger[l].log /\ logger'[l].tree = logger[l].tree
        /\ logger'[l].settings = 0 => logger[l].settings = 0
  BY <1>1, <1>2, <1>3
<1>10. KeepsUp' /\ (Portrayed => Portrayed')
  BY <1>7, <1>8, <1>9, StoriesStay
<1>11. Snapshot'
  BY <1>1 DEF Snapshot, MainIsFree
<1> QED
  BY <1>4, <1>6, <1>7, <1>10, <1>11

\* A logger ends, and what it had goes with it.
LEMMA DestroyLoggerStep ==
  ASSUME LogInv, LogTypeOK', NEW l0 \in Loggers, DestroyLogger(l0)
  PROVE  LogInv' /\ (Portrayed => Portrayed')
<1> USE DEF LogInv
<1>1. /\ logger[l0].life = "made" /\ MainIsFree
      /\ UNCHANGED <<status, subscribers, call, session, builder, changes>>
  BY DEF DestroyLogger
<1>2. /\ \A l \in Loggers : l # l0 => logger'[l] = logger[l]
      /\ logger'[l0] = [Absent EXCEPT !.life = "gone"]
  BY DEF DestroyLogger, LogTypeOK
<1>3. /\ logger'[l0].life = "gone" /\ logger'[l0].log = <<>> /\ logger'[l0].tree = <<>>
      /\ logger'[l0].enabled /\ logger'[l0].toIdle /\ logger'[l0].kind = "ABSOLUTE"
  BY <1>2 DEF Absent
<1>4. Callers'
  <2>1. status' = status /\ call' = call /\ changes' = changes
    BY <1>1
  <2> QED
    BY <2>1 DEF Callers, Now
<1>5. \A l \in Loggers : /\ logger'[l].life = "none" => logger[l].life = "none"
                         /\ logger'[l].life = "made" => logger[l].life = "made"
  BY <1>2, <1>3
<1>6. Subscribed'
  <2>1. \A n \in Nodes : \A i \in DOMAIN subscribers[n] : subscribers[n][i] \in Loggers
    BY DEF LogTypeOK
  <2>2. subscribers' = subscribers
    BY <1>1
  <2> QED
    BY <1>5, <2>1, <2>2 DEF Subscribed
<1>7. Lives'
  <2> SUFFICES ASSUME NEW l \in Loggers
               PROVE  /\ logger'[l].life # "made" => logger'[l].log = <<>> /\ logger'[l].tree = <<>>
                      /\ logger'[l].told => logger'[l].enabled /\ logger'[l].toIdle
                      /\ logger'[l].settings = 0 => logger'[l].kind = "ABSOLUTE"
    BY DEF Lives
  <2>1. CASE l = l0
    BY <1>3, <2>1
  <2>2. CASE l # l0
    BY <1>2, <2>2 DEF Lives
  <2> QED
    BY <2>1, <2>2
<1>8. \A l \in Loggers, n \in Followed :
        /\ Known(l, n)' = Known(l, n)
        /\ Until(l, n)' \in Int /\ Until(l, n) <= Until(l, n)'
  BY <1>1, NobodyWaits
<1>9. \A l \in Loggers : logger'[l].life = "made" => logger'[l] = logger[l]
  BY <1>2, <1>3
<1>10. KeepsUp' /\ (Portrayed => Portrayed')
  <2>1. \A l \in Loggers : logger'[l].life = "made" /\ logger'[l].told =>
          /\ logger[l].life = "made" /\ logger[l].told
          /\ logger'[l].log = logger[l].log /\ logger'[l].tree = logger[l].tree
          /\ logger'[l].settings = 0 => logger[l].settings = 0
    BY <1>9
  <2> QED
    BY <1>7, <1>8, <2>1, StoriesStay
<1>11. Snapshot'
  BY <1>1 DEF Snapshot, MainIsFree
<1> QED
  BY <1>4, <1>6, <1>7, <1>10, <1>11

-----------------------------------------------------------------------------
(* The theorems. *)

\* One step.
LEMMA NextLog ==
  LogInv /\ [Next]_vars => LogInv' /\ (Portrayed /\ ReadsBack => Portrayed')
<1> SUFFICES ASSUME LogInv, [Next]_vars
             PROVE  LogInv' /\ (Portrayed /\ ReadsBack => Portrayed')
  OBVIOUS
<1>1. LogTypeOK'
  BY TypesStay DEF LogInv
<1>2. ASSUME NEW t \in Threads, NEW n \in Nodes, NEW s \in Statuses, SetStatus(t, n, s)
      PROVE  LogInv' /\ (Portrayed => Portrayed')
  BY <1>1, <1>2, SetStatusStep
<1>3. ASSUME NEW t \in Threads, Notify(t)
      PROVE  LogInv' /\ (Portrayed => Portrayed')
  BY <1>1, <1>3, ErasingStep, TellingStep
<1>4. ASSUME NEW t \in Threads, NotifyReturn(t)
      PROVE  LogInv' /\ (Portrayed => Portrayed')
  BY <1>1, <1>4, NotifyReturnStep
<1>5. ASSUME NEW l \in Loggers, MakeLogger(l)
      PROVE  LogInv' /\ (Portrayed => Portrayed')
  BY <1>1, <1>5, MakeLoggerStep
<1>6. ASSUME NEW l \in Loggers, DestroyLogger(l)
      PROVE  LogInv' /\ (Portrayed => Portrayed')
  BY <1>1, <1>6, DestroyLoggerStep
<1>7. CASE SerializeNode \/ SerializeModel \/ SerializeEnd
  BY <1>1, <1>7, SerializeStep
<1>8. CASE KeepTree
  BY <1>1, <1>8, KeepTreeStep
<1>9. ASSUME NEW l \in Loggers, SetEnabled(l) \/ EnableTransitionToIdle(l) \/ SeTimestampType(l)
      PROVE  LogInv' /\ (Portrayed => Portrayed')
  <2>1. IsLogger(logger[l])
    BY DEF LogInv, LogTypeOK
  <2>2. PICK g : /\ Set(l, g) /\ IsLogger(g)
                 /\ g.life = logger[l].life /\ g.log = logger[l].log /\ g.tree = logger[l].tree
                 /\ g.told = logger[l].told /\ g.settings = logger[l].settings
    <3>1. CASE SetEnabled(l)
      <4>1. PICK on \in BOOLEAN : Set(l, [logger[l] EXCEPT !.enabled = on])
        BY <3>1 DEF SetEnabled
      <4> DEFINE g == [logger[l] EXCEPT !.enabled = on]
      <4>2. /\ IsLogger(g)
            /\ g.life = logger[l].life /\ g.log = logger[l].log /\ g.tree = logger[l].tree
            /\ g.told = logger[l].told /\ g.settings = logger[l].settings
        BY <2>1 DEF IsLogger, Fields
      <4> HIDE DEF g
      <4> QED
        BY <4>1, <4>2 DEF g
    <3>2. CASE EnableTransitionToIdle(l)
      <4>1. PICK on \in BOOLEAN : Set(l, [logger[l] EXCEPT !.toIdle = on])
        BY <3>2 DEF EnableTransitionToIdle
      <4> DEFINE g == [logger[l] EXCEPT !.toIdle = on]
      <4>2. /\ IsLogger(g)
            /\ g.life = logger[l].life /\ g.log = logger[l].log /\ g.tree = logger[l].tree
            /\ g.told = logger[l].told /\ g.settings = logger[l].settings
        BY <2>1 DEF IsLogger, Fields
      <4> HIDE DEF g
      <4> QED
        BY <4>1, <4>2 DEF g
    <3>3. CASE SeTimestampType(l)
      <4>1. PICK kind \in {"ABSOLUTE", "RELATIVE"} : Set(l, [logger[l] EXCEPT !.kind = kind])
        BY <3>3 DEF SeTimestampType
      <4> DEFINE g == [logger[l] EXCEPT !.kind = kind]
      <4>2. /\ IsLogger(g)
            /\ g.life = logger[l].life /\ g.log = logger[l].log /\ g.tree = logger[l].tree
            /\ g.told = logger[l].told /\ g.settings = logger[l].settings
        BY <2>1 DEF IsLogger, Fields
      <4> HIDE DEF g
      <4> QED
        BY <4>1, <4>2 DEF g
    <3> QED
      BY <1>9, <3>1, <3>2, <3>3
  <2> QED
    BY <1>1, <2>2, SetStep
<1>10. CASE UNCHANGED vars
  <2>1. UNCHANGED <<status, subscribers, logger, call, session, changes>>
    BY <1>10 DEF vars
  <2>2. Callers' /\ Subscribed' /\ Lives' /\ Snapshot'
    BY <2>1 DEF LogInv, Callers, Subscribed, Lives, Snapshot, Now
  <2>3. KeepsUp' /\ (Portrayed => Portrayed')
    BY <2>1 DEF LogInv, KeepsUp, Portrayed, Known, Until, Pending, Now
  <2> QED
    BY <1>1, <2>2, <2>3 DEF LogInv
<1> QED
  BY <1>2, <1>3, <1>4, <1>5, <1>6, <1>7, <1>8, <1>9, <1>10 DEF Next

\* At every moment, what a logger has been told of a node the main thread alone sets
\* is a chain that ends in the node's status, or in its status before the change the
\* logger's turn to hear of has yet to come.
THEOREM LoggersKeepUp == Spec => []LogInv
<1>1. Init => LogInv
  BY InitLog
<1>2. LogInv /\ [Next]_vars => LogInv'
  BY NextLog
<1> QED
  BY <1>1, <1>2, PTL DEF Spec

\* No transition that a logger keeps of such a node is lost, told twice or told out of
\* order: each starts where the one before it ended, and later.
THEOREM TransitionsAreChained == Spec => []Chained
<1>1. LogInv => Chained
  <2> SUFFICES ASSUME LogInv, NEW l \in Loggers, logger[l].told,
                      NEW n \in Followed, NEW j \in Kept(l, n)
               PROVE  /\ Transition(l, j).prev # Transition(l, j).status
                      /\ \A i \in Kept(l, n) : i < j /\ (\A k \in Kept(l, n) : k <= i \/ k >= j) =>
                           /\ Transition(l, j).prev = Transition(l, i).status
                           /\ logger[l].settings = 0 =>
                                Transition(l, j).usec > Transition(l, i).usec
    BY DEF Chained
  <2>1. Kept(l, n) = Of(logger[l].log, n)
    BY DEF Kept, Of, Transition
  <2>2. CASE logger[l].life # "made"
    <3>1. logger[l].log = <<>>
      BY <2>2 DEF LogInv, Lives
    <3> QED
      BY <2>1, <3>1, StoryKeeps
  <2>3. CASE logger[l].life = "made"
    <3>1. Story(logger[l].log, n, Known(l, n), Until(l, n), logger[l].settings = 0)
      BY <2>3 DEF LogInv, KeepsUp
    <3> QED
      BY <2>1, <3>1 DEF Story, Transition
  <2> QED
    BY <2>2, <2>3
<1> QED
  BY <1>1, LoggersKeepUp, PTL

\* As long as every snapshot reads back as the tree it was taken of, the snapshot and
\* the transitions kept after it tell the status of such a node, unless somebody is
\* just being told of it.
THEOREM LogsReplay == Spec /\ []ReadsBack => []ReplayTells
<1>1. Init => LogInv /\ Portrayed
  BY InitLog
<1>2. (LogInv /\ Portrayed) /\ ReadsBack /\ [Next]_vars => (LogInv /\ Portrayed)'
  BY NextLog
<1>3. LogInv /\ Portrayed => ReplayTells
  <2> SUFFICES ASSUME LogInv, Portrayed, NEW l \in Loggers, logger[l].told, logger[l].tree # <<>>,
                      NEW n \in Followed, call[Main].node # n
               PROVE  /\ Kept(l, n) = {} => status[n] = logger[l].tree[Uid(n)]
                      /\ \A i \in Kept(l, n) :
                           (\A j \in Kept(l, n) : j <= i) => status[n] = Transition(l, i).status
    BY DEF ReplayTells
  <2>1. Kept(l, n) = Of(logger[l].log, n)
    BY DEF Kept, Of, Transition
  <2>2. logger[l].life = "made"
    BY DEF LogInv, Lives
  <2>3. Known(l, n) = status[n]
    BY DEF Known, Pending
  <2>4. Story(logger[l].log, n, Known(l, n), Until(l, n), logger[l].settings = 0)
    BY <2>2 DEF LogInv, KeepsUp
  <2>5. \A i \in Kept(l, n) :
          (\A j \in Kept(l, n) : j <= i) => Transition(l, i).status = status[n]
    BY <2>1, <2>3, <2>4 DEF Story, Transition
  <2>6. Kept(l, n) = {} => logger[l].tree[Uid(n)] = status[n]
    BY <2>1, <2>3 DEF Portrayed
  <2> QED
    BY <2>5, <2>6
<1> QED
  BY <1>1, <1>2, <1>3, PTL DEF Spec

=============================================================================
