------------------------------- MODULE XMLValues -------------------------------
(***************************************************************************)
(* Typed values in tinyxml2: what XMLUtil writes for a number or a truth   *)
(* value, and what it reads from a string that somebody wrote.             *)
(*                                                                         *)
(* Numbers are counted in halves, so that a double can have a fraction; a  *)
(* float is a double with a shorter name. Reading gives the set of values  *)
(* that may come out: none, one, or any of the type where the number does  *)
(* not fit, which C leaves undefined.                                      *)
(***************************************************************************)
EXTENDS XMLText

CONSTANT Bits   \* of the integer types

Signed     == {"int", "int64"}
Integral   == Signed \cup {"unsigned"}
ValueTypes == Integral \cup {"bool", "double", "float", "string"}

ASSUME BitsAssumption ==
  Bits \in [Integral -> Nat \ {0, 1}] /\ Bits["unsigned"] = Bits["int"] /\ Bits["int"] <= Bits["int64"]

Half(n)    == 2 * n
Highest(T) == Half(2 ^ (Bits[T] - IF T \in Signed THEN 1 ELSE 0) - 1)
Lowest(T)  == IF T \in Signed THEN -Highest(T) - 2 ELSE 0
Modulus(T) == Half(2 ^ Bits[T])
Every(T)   == {n \in Lowest(T) .. Highest(T) : n % 2 = 0}

-----------------------------------------------------------------------------
True  == <<116, 114, 117, 101>>
False == <<102, 97, 108, 115, 101>>
Minus == 45
Plus  == 43
Point == 46
Five  == 53

DigitsOf[n \in Nat] == IF n < 10 THEN <<48 + n>> ELSE Append(DigitsOf[n \div 10], 48 + (n % 10))

ToStrForgetful(T, v) ==
  CASE T = "string" -> v
    [] T = "bool"   -> IF v THEN True ELSE False
    [] OTHER -> LET m == IF v < 0 THEN -v ELSE v IN
                DigitsOf[m \div 2] \o (IF m % 2 = 0 THEN <<>> ELSE <<Point, Five>>)

ToStr(T, v) ==
  CASE T = "string" -> v
    [] T = "bool"   -> IF v THEN True ELSE False
    [] OTHER -> LET m == IF v < 0 THEN -v ELSE v IN
                (IF v < 0 THEN <<Minus>> ELSE <<>>) \o DigitsOf[m \div 2]
                \o (IF m % 2 = 0 THEN <<>> ELSE <<Point, Five>>)

\* sscanf(): blanks, a sign, and as many digits as there are; and a half after them.
ScannedTo(s, sign, i, k) ==
  [digits |-> SubSeq(s, i, k - 1), number |-> Half(Numeral[SubSeq(s, i, k - 1), 10]),
   sign |-> sign, half |-> IF At(s, k) = Point /\ At(s, k + 1) = Five THEN 1 ELSE 0]
DigitsEnd(s, i) ==
  CHOOSE k \in i .. Len(s) + 1 : ~ IsDigit(At(s, k)) /\ \A j \in i .. k - 1 : IsDigit(s[j])
ScannedAt(s, sign, i) == ScannedTo(s, sign, i, DigitsEnd(s, i))
ScannedFrom(s, i) ==
  ScannedAt(s, IF At(s, i) = Minus THEN -1 ELSE 1, IF At(s, i) \in {Minus, Plus} THEN i + 1 ELSE i)
Scanned(s) == ScannedFrom(s, SkipWhiteSpace(s, 1))

IntFrom(T, n) ==
  IF n.digits = <<>> THEN {}
  ELSE IF n.sign * n.number \in Every(T) THEN {n.sign * n.number} ELSE Every(T)
ToInt(T, s) == IntFrom(T, Scanned(s))

\* A minus sign is taken, and counts down from the top.
UnsignedFrom(n) ==
  IF n.digits = <<>> THEN {}
  ELSE IF n.number > Highest("unsigned") THEN Every("unsigned")
  ELSE {(n.sign * n.number) % Modulus("unsigned")}
ToUnsigned(s) == UnsignedFrom(Scanned(s))

DoubleFrom(n) == IF n.digits = <<>> THEN {} ELSE {n.sign * (n.number + n.half)}
ToDouble(s)   == DoubleFrom(Scanned(s))

\* A number is true unless it is zero.
BoolFrom(s, ns) ==
  IF ns # {} THEN {n # 0 : n \in ns}
  ELSE IF s = True THEN {TRUE} ELSE IF s = False THEN {FALSE} ELSE {}
ToBool(s) == BoolFrom(s, ToInt("int", s))

ReadAs(T, s) ==
  CASE T \in Signed   -> ToInt(T, s)
    [] T = "unsigned" -> ToUnsigned(s)
    [] T = "bool"     -> ToBool(s)
    [] T \in {"double", "float"} -> ToDouble(s)
    [] T = "string"   -> {s}

\* Can a number of one type be one of another?
Holds(T, v) ==
  CASE T \in Integral -> v \in Every(T)
    [] T \in {"double", "float"} -> TRUE
    [] OTHER -> FALSE
=============================================================================
