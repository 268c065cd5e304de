-------------------------------- MODULE Values --------------------------------
(***************************************************************************)
(* The values of ports: what an Any holds, what it gives when it is cast   *)
(* to another type, and what a text is converted to.                       *)
(*                                                                         *)
(* A number is counted in halves, so that a double can have a fraction; a  *)
(* text is a sequence of characters.  Size is how many numbers a type of   *)
(* integers has, two to the power of its width; a long is as wide as an    *)
(* int, as on the target of the project.  Mantissa is how many halves in a *)
(* row a double can hold, two to the power of its digits.                  *)
(***************************************************************************)
EXTENDS Integers, Sequences, SequencesExt

CONSTANTS Size, Mantissa

Signed   == {"int", "int64"}
Unsigned == {"unsigned", "uint64"}
Integral == Signed \cup Unsigned
Types    == Integral \cup {"bool", "double", "string", "NodeStatus"}

ASSUME SizeAssumption ==
  /\ Size \in [Integral -> Nat] /\ \A T \in Integral : Size[T] > 0 /\ Size[T] % 2 = 0
  /\ 2 * Size["int"] <= Size["int64"]
  /\ Size["unsigned"] = Size["int"] /\ Size["uint64"] = Size["int64"]

Half(n)   == 2 * n
MaxOf(T)  == Half((IF T \in Signed THEN Size[T] \div 2 ELSE Size[T]) - 1)
MinOf(T)  == IF T \in Signed THEN -MaxOf(T) - 2 ELSE 0
Modulus(T) == Half(Size[T])
\* static_cast<T> of an integer; of what is too large for it, the lowest number.
Wrapped(T, v) == MinOf(T) + ((v - MinOf(T)) % Modulus(T))
Fits(T, v)    == v \in MinOf(T) .. MaxOf(T)
OrLowest(T, w)  == IF Fits(T, w) THEN w ELSE MinOf(T)
Truncated(T, v) == OrLowest(T, IF v >= 0 THEN v - (v % 2) ELSE v + (v % 2))

\* static_cast<double>: the nearest multiple of the unit in the last place, of two
\* that are as near the one whose last digit is even.
Ulp[m \in Nat] == IF m < Mantissa THEN 1 ELSE 2 * Ulp[m \div 2]
RoundsDown(m, u) == 2 * (m % u) < u \/ (2 * (m % u) = u /\ (m \div u) % 2 = 0)
Rounded(m)  == m - (m % Ulp[m]) + IF RoundsDown(m, Ulp[m]) THEN 0 ELSE Ulp[m]
AsDouble(v) == IF v < 0 THEN -Rounded(-v) ELSE Rounded(v)

\* The lowest number of every type of integers is a double.
ASSUME MantissaAssumption ==
  Mantissa \in Nat \ {0} /\ \A T \in Integral : AsDouble(MinOf(T)) = MinOf(T)

Refused  == [ok |-> FALSE]
Got(v)   == [ok |-> TRUE, val |-> v]

-----------------------------------------------------------------------------
\* The constructors of Any keep doubles, unsigned 64-bit integers and strings;
\* every other integer and every enumeration is kept as a signed one.
Held(T) == IF T \in {"double", "uint64", "string"} THEN T ELSE "int64"
AnyValue(T, v) == [type |-> T, held |-> Held(T),
               val |-> IF Held(T) = "int64" THEN Wrapped("int64", v) ELSE v]
EmptyAny   == [type |-> "none", held |-> "none", val |-> 0]

\* checkUpperLimit(): between types of one size it looks at the result of the
\* cast, which is never above the limit.
TooLarge(S, T, v) == Size[T] < Size[S] /\ v > MaxOf(T)

OutOfRangeForgetful(S, T, v) == S \in Signed /\ v < MinOf(T)

OutOfRange(S, T, v) ==
  \/ S \in Signed /\ v < MinOf(T)
  \/ TooLarge(S, T, v)

\* checkTruncation(): there and back again.
ConvertNumber(S, T, v) ==
  CASE T = "bool" -> Got(IF v # 0 THEN 2 ELSE 0)
    [] T = S      -> Got(v)
    [] S \in Integral /\ T = "double" ->
         IF Truncated(S, AsDouble(v)) # v THEN Refused ELSE Got(AsDouble(v))
    [] S \in Integral /\ T \in Integral /\ T # S ->
         IF OutOfRange(S, T, v) THEN Refused ELSE Got(Wrapped(T, v))
    [] S = "double" /\ T \in Integral ->
         IF v < (IF T \in Signed THEN AsDouble(-MaxOf(T)) ELSE 0) \/ Truncated(T, v) # v
         THEN Refused ELSE Got(v)

-----------------------------------------------------------------------------
(* Texts.                                                                  *)
Numerals == <<"0", "1", "2", "3", "4", "5", "6", "7", "8", "9">>
IsNumeral(c) == c \in Range(Numerals)
NumeralOf(c) == (CHOOSE i \in DOMAIN Numerals : Numerals[i] = c) - 1

Prefix(s, Test(_)) ==
  LET n == CHOOSE k \in 0 .. Len(s) : /\ \A i \in 1 .. k : Test(s[i])
                                      /\ k = Len(s) \/ ~ Test(s[k + 1])
  IN SubSeq(s, 1, n)

Natural(ds) == FoldLeft(LAMBDA n, c : 10 * n + NumeralOf(c), 0, ds)

\* strtol() and its kin: blanks, a sign, and as many digits as there are.
Negative(s) == s # <<>> /\ Head(s) = "-"
Trimmed(s)  == SubSeq(s, Len(Prefix(s, LAMBDA c : c = " ")) + 1, Len(s))
SignOf(t)   == IF t # <<>> /\ Head(t) \in {"-", "+"} THEN 1 ELSE 0
DigitsOf(t) == Prefix(SubSeq(t, SignOf(t) + 1, Len(t)), IsNumeral)

\* What there is to convert: the digits, their number, the sign, and a half.
ScannedFrom(t, digits, k) ==
  [digits |-> digits, number |-> Half(Natural(digits)), sign |-> IF Negative(t) THEN -1 ELSE 1,
   half |-> IF k + 2 <= Len(t) /\ t[k + 1] = "." /\ t[k + 2] = "5" THEN 1 ELSE 0]
ScannedText(t, digits) == ScannedFrom(t, digits, SignOf(t) + Len(digits))
ScannedTrim(t) == ScannedText(t, DigitsOf(t))
Scanned(s)     == ScannedTrim(Trimmed(s))

IntOf(n) ==
  IF n.digits = <<>> \/ ~ Fits("int", n.sign * n.number) THEN Refused ELSE Got(n.sign * n.number)
StringToInt(s) == IntOf(Scanned(s))

\* stoul() takes a minus sign and counts down from the top.
UnsignedOf(n) ==
  IF n.digits = <<>> \/ ~ Fits("unsigned", n.number) THEN Refused
  ELSE Got(Wrapped("unsigned", n.sign * n.number))
StringToUnsigned(s) == UnsignedOf(Scanned(s))

DoubleOf(n) ==
  IF n.digits = <<>> THEN Refused ELSE Got(n.sign * AsDouble(n.number + n.half))
StringToDouble(s) == DoubleOf(Scanned(s))

Word(s) == FoldLeft(LAMBDA w, c : w \o c, "", s)

StringToBool(s) ==
  IF Word(s) \in {"1", "true", "TRUE", "True"} THEN Got(2)
  ELSE IF Word(s) \in {"0", "false", "FALSE", "False"} THEN Got(0) ELSE Refused

Statuses == <<"IDLE", "RUNNING", "SUCCESS", "FAILURE">>
StringToStatus(s) ==
  LET here == {i \in DOMAIN Statuses : Statuses[i] = Word(s)} IN
  IF here = {} THEN Refused ELSE Got(Half((CHOOSE i \in here : TRUE) - 1))

\* A type without a specialization throws.
ConvertFromString(T, s) ==
  CASE T = "string"     -> Got(s)
    [] T = "int"        -> StringToInt(s)
    [] T = "unsigned"   -> StringToUnsigned(s)
    [] T = "double"     -> StringToDouble(s)
    [] T = "bool"       -> StringToBool(s)
    [] T = "NodeStatus" -> StringToStatus(s)
    [] OTHER            -> Refused

\* PortInfo::parseString(): an Any of what the converter of the type makes of it.
Parsed(T, value)  == IF value.ok THEN Got(AnyValue(T, value.val)) ELSE Refused
ParseString(T, s) == Parsed(T, ConvertFromString(T, s))

\* std::to_string; a double is written with six decimals.
Shown[n \in Nat] == IF n < 10 THEN <<Numerals[n + 1]>>
                    ELSE Append(Shown[n \div 10], Numerals[(n % 10) + 1])
ToStr(S, v) ==
  LET m == IF v < 0 THEN -v ELSE v IN
  (IF v < 0 THEN <<"-">> ELSE <<>>) \o Shown[m \div 2]
  \o IF S # "double" THEN <<>>
     ELSE <<".", IF m % 2 = 0 THEN "0" ELSE "5", "0", "0", "0", "0", "0">>

\* Any::convert<T>() to arithmetic types, where no text becomes a number, and to
\* enumerations, which take whatever number there is.
ConvertArithmetic(any, T) ==
  IF any.held \in {"int64", "uint64", "double"} THEN ConvertNumber(any.held, T, any.val) ELSE Refused
ConvertEnum(any) == IF any.held \in {"int64", "uint64"} THEN Got(any.val) ELSE Refused

\* Any::cast<T>(): what is held as a T is given as it is.
Cast(any, T) ==
  CASE any.held = "none" -> Refused
    [] any.held = T      -> Got(any.val)
    [] any.held \notin {T, "none"} /\ T = "string"     -> Got(ToStr(any.held, any.val))
    [] any.held \notin {T, "none"} /\ T = "NodeStatus" -> ConvertEnum(any)
    [] any.held \notin {T, "none"} /\ T \in Integral \cup {"bool", "double"} -> ConvertArithmetic(any, T)
=============================================================================
