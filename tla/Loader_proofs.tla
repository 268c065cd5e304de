--------------------------- MODULE Loader_proofs ----------------------------
(***************************************************************************)
(* What holds of the loader for all documents, manifests and registries,   *)
(* any number of boards and any writes of the program.                     *)
(***************************************************************************)
EXTENDS Loader, FiniteSetTheorems, SequenceTheorems, WellFoundedInduction, TLAPS

\* A set of natural numbers has a least one.
LEMMA LeastNat ==
  ASSUME NEW S \in SUBSET Nat, S # {}
  PROVE  \E m \in S : \A k \in S : m <= k
<1> DEFINE R == OpToRel(<, Nat)
<1>1. IsWellFoundedOn(R, Nat)
  BY NatLessThanWellFounded
<1>2. \A x, y \in Nat : x < y => <<x, y>> \in R
  BY DEF OpToRel
<1> HIDE DEF R
<1>3. PICK m \in S : \A k \in S : <<k, m>> \notin R
  BY <1>1, WFMin
<1>4. \A k \in S : ~ (k < m)
  BY <1>2, <1>3
<1> QED
  BY <1>3, <1>4

-----------------------------------------------------------------------------
(* Values: which number an Any holds, and when a cast gives another one.   *)

\* An Any holds what its type says: no integer is outside its 64 bits, and a
\* text is held as one.
Within(T, v) == v \in MinOf(T) .. MinOf(T) + Modulus(T) - 1
Sane(any) ==
  /\ any.held \in {"int64", "uint64"} => Within(any.held, any.val)
  /\ any.type = "string" => any.held = "string"

\* The numbers of a type lie between its limits, as many as there are.
LEMMA Limits ==
  ASSUME NEW T \in Integral
  PROVE  /\ Size[T] \in Nat /\ MinOf(T) \in Int /\ MaxOf(T) \in Int /\ Modulus(T) \in Nat
         /\ Modulus(T) > 0 /\ MaxOf(T) = MinOf(T) + Modulus(T) - 2
         /\ T \in Signed => MinOf(T) = -MaxOf(T) - 2
         /\ T \in Unsigned => MinOf(T) = 0
<1>1. Size[T] \in Nat /\ Size[T] > 0 /\ Size[T] % 2 = 0
  BY SizeAssumption
<1>2. Size[T] \div 2 \in Nat /\ Size[T] = 2 * (Size[T] \div 2)
  BY <1>1
<1>3. T \notin Signed \/ T \notin Unsigned
  BY DEF Signed, Unsigned
<1>4. T \in Signed \/ T \in Unsigned
  BY DEF Integral
<1>5. CASE T \in Signed
  BY <1>1, <1>2, <1>3, <1>5 DEF MaxOf, MinOf, Modulus, Half
<1>6. CASE T \in Unsigned
  BY <1>1, <1>2, <1>3, <1>6 DEF MaxOf, MinOf, Modulus, Half
<1> QED
  BY <1>4, <1>5, <1>6

\* What is cast to an integer type is one of its numbers, the same one if it can be.
LEMMA Wraps ==
  ASSUME NEW T \in Integral, NEW v \in Int
  PROVE  Within(T, Wrapped(T, v)) /\ (Within(T, v) => Wrapped(T, v) = v)
<1>1. PICK lo \in Int : lo = MinOf(T)
  BY Limits
<1>2. PICK m \in Nat : m = Modulus(T) /\ m > 0
  BY Limits
<1>4. (v - lo) % m \in 0 .. m - 1
  BY <1>1, <1>2
<1>5. ASSUME Within(T, v) PROVE (v - lo) % m = v - lo
  <2>1. v - lo \in Nat /\ v - lo < m
    BY <1>5, <1>1, <1>2 DEF Within
  <2> QED
    BY <2>1, <1>2
<1> QED
  BY <1>1, <1>2, <1>4, <1>5 DEF Wrapped, Within

\* A number that an integer type has is within its range.
LEMMA FitsWithin == ASSUME NEW T \in Integral, NEW v, Fits(T, v) PROVE v \in Int /\ Within(T, v)
BY Limits DEF Fits, Within

Unit(g, n)  == IF n < Mantissa THEN 1 ELSE 2 * g[n \div 2]
Units(g, m) == \A n \in 0 .. m : g[n] = Unit(g, n)

\* A number that has more digits than the mantissa has a half that is smaller.
LEMMA HalfIsLess == ASSUME NEW n \in Nat, ~ (n < Mantissa) PROVE n \div 2 \in Nat /\ n \div 2 < n
<1>1. Mantissa \in Nat /\ Mantissa > 0
  BY MantissaAssumption
<1>2. n > 0
  BY <1>1
<1> QED
  BY <1>2

\* Up to every number there are units: a least number without them would follow
\* one that has them.
LEMMA UnitsUpTo == ASSUME NEW m \in Nat PROVE \E g : Units(g, m)
<1> DEFINE T == {n \in Nat : ~ \E g : Units(g, n)}
<1> SUFFICES ASSUME T # {} PROVE FALSE
  OBVIOUS
<1>1. T \in SUBSET Nat
  OBVIOUS
<1>2. PICK l \in T : \A j \in T : l <= j
  <2> HIDE DEF T
  <2> QED
    BY <1>1, LeastNat
<1>3. \E f : \A n \in 0 .. l - 1 : f[n] = Unit(f, n)
  <2>1. CASE l = 0
    BY <1>2, <2>1
  <2>2. CASE l # 0
    <3>1. l - 1 \in Nat /\ l - 1 \notin T
      BY <1>2, <2>2
    <3> QED
      BY <3>1 DEF Units
  <2> QED
    BY <2>1, <2>2
<1>4. PICK f : \A n \in 0 .. l - 1 : f[n] = Unit(f, n)
  BY <1>3
<1>5. PICK h : h = [n \in Nat |-> IF n = l THEN Unit(f, l) ELSE f[n]]
  OBVIOUS
<1>6. ASSUME NEW n \in 0 .. l PROVE h[n] = Unit(h, n)
  <2>1. l \in Nat /\ n \in Nat
    BY <1>2
  <2>2. h[n] = Unit(f, n)
    BY <1>4, <1>5, <2>1
  <2>3. CASE n < Mantissa
    BY <2>2, <2>3 DEF Unit
  <2>4. CASE ~ (n < Mantissa)
    <3>1. n \div 2 \in Nat /\ n \div 2 # l
      BY <2>1, <2>4, HalfIsLess
    <3>2. h[n \div 2] = f[n \div 2]
      BY <1>5, <3>1
    <3> QED
      BY <2>2, <2>4, <3>2 DEF Unit
  <2> QED
    BY <2>3, <2>4
<1>7. Units(h, l)
  BY <1>6 DEF Units
<1> QED
  BY <1>2, <1>7

\* Two choices of units agree.
LEMMA UnitsAlike ==
  ASSUME NEW l \in Nat, NEW m \in Nat, l <= m, NEW g, NEW h, Units(g, l), Units(h, m)
  PROVE  \A n \in 0 .. l : g[n] = h[n]
<1> DEFINE T == {n \in 0 .. l : g[n] # h[n]}
<1> SUFFICES ASSUME T # {} PROVE FALSE
  OBVIOUS
<1>1. T \in SUBSET Nat
  OBVIOUS
<1>2. PICK n \in T : \A j \in T : n <= j
  <2> HIDE DEF T
  <2> QED
    BY <1>1, LeastNat
<1>3. n \in 0 .. l /\ n \in 0 .. m /\ g[n] # h[n]
  BY <1>2
<1>4. g[n] = Unit(g, n) /\ h[n] = Unit(h, n)
  BY <1>3 DEF Units
<1>5. CASE n < Mantissa
  BY <1>3, <1>4, <1>5 DEF Unit
<1>6. CASE ~ (n < Mantissa)
  <2>1. n \div 2 \in Nat /\ n \div 2 < n
    BY <1>3, <1>6, HalfIsLess
  <2>2. n \div 2 \in 0 .. l /\ n \div 2 \notin T
    BY <1>2, <1>3, <2>1
  <2>3. g[n \div 2] = h[n \div 2]
    BY <2>2
  <2> QED
    BY <1>3, <1>4, <1>6, <2>3 DEF Unit
<1> QED
  BY <1>5, <1>6

\* The recursion of Ulp.
SolvesUlp(U) == U = [n \in Nat |-> IF n < Mantissa THEN 1 ELSE 2 * U[n \div 2]]

\* The recursion of Ulp has a solution.
LEMMA UlpSolved == \E U : SolvesUlp(U)
<1>1. PICK sol : sol = [m \in Nat |-> CHOOSE g : Units(g, m)]
  OBVIOUS
<1>2. \A m \in Nat : Units(sol[m], m)
  BY <1>1, UnitsUpTo
<1>3. PICK U : U = [n \in Nat |-> sol[n][n]]
  OBVIOUS
<1>4. ASSUME NEW n \in Nat PROVE U[n] = IF n < Mantissa THEN 1 ELSE 2 * U[n \div 2]
  <2>1. U[n] = Unit(sol[n], n)
    <3>1. Units(sol[n], n) /\ n \in 0 .. n
      BY <1>2
    <3> QED
      BY <1>3, <3>1 DEF Units
  <2>2. CASE n < Mantissa
    BY <2>1, <2>2 DEF Unit
  <2>3. CASE ~ (n < Mantissa)
    <3>1. PICK l \in Nat : l = n \div 2 /\ l <= n
      BY <2>3, HalfIsLess
    <3>2. Units(sol[l], l) /\ Units(sol[n], n) /\ l \in 0 .. l
      BY <1>2
    <3>3. sol[l][l] = sol[n][l]
      BY <3>1, <3>2, UnitsAlike
    <3>4. U[l] = sol[l][l]
      BY <1>3
    <3> QED
      BY <2>1, <2>3, <3>1, <3>3, <3>4 DEF Unit
  <2> QED
    BY <2>2, <2>3
<1>5. U = [n \in Nat |-> IF n < Mantissa THEN 1 ELSE 2 * U[n \div 2]]
  BY <1>3, <1>4
<1> QED
  BY <1>5 DEF SolvesUlp

\* The unit in the last place is one or the double of another.
LEMMA UlpIs ==
  ASSUME NEW n \in Nat
  PROVE  Ulp[n] = 1 \/ \E w \in Nat \ {0} : Ulp[n] = 2 * w
<1>1. Ulp = [m \in Nat |-> IF m < Mantissa THEN 1 ELSE 2 * Ulp[m \div 2]]
  <2>1. \E U : SolvesUlp(U)
    BY UlpSolved
  <2> QED
    BY <2>1 DEF SolvesUlp, Ulp
<1> DEFINE T == {m \in Nat : ~ (Ulp[m] \in Nat \ {0})}
<1>2. T = {}
  <2> SUFFICES ASSUME T # {} PROVE FALSE
    OBVIOUS
  <2>1. T \in SUBSET Nat
    OBVIOUS
  <2>2. PICK l \in T : \A j \in T : l <= j
    <3> HIDE DEF T
    <3> QED
      BY <2>1, LeastNat
  <2>3. l \in Nat /\ ~ (Ulp[l] \in Nat \ {0})
    BY <2>2
  <2>4. CASE l < Mantissa
    BY <1>1, <2>3, <2>4
  <2>5. CASE ~ (l < Mantissa)
    <3>1. l \div 2 \in Nat /\ l \div 2 < l
      BY <2>3, <2>5, HalfIsLess
    <3>2. l \div 2 \notin T
      BY <2>2, <2>3, <3>1
    <3>3. PICK w \in Nat \ {0} : w = Ulp[l \div 2]
      BY <3>1, <3>2
    <3>4. Ulp[l] = 2 * w
      BY <1>1, <2>3, <2>5, <3>3
    <3> QED
      BY <2>3, <3>4
  <2> QED
    BY <2>4, <2>5
<1>3. CASE n < Mantissa
  BY <1>1, <1>3
<1>4. CASE ~ (n < Mantissa)
  <2>1. n \div 2 \in Nat
    BY <1>4, HalfIsLess
  <2>2. PICK w \in Nat \ {0} : w = Ulp[n \div 2]
    BY <1>2, <2>1
  <2>3. Ulp[n] = 2 * w
    BY <1>1, <1>4, <2>2
  <2> QED
    BY <2>3
<1> QED
  BY <1>3, <1>4

\* What an even number is rounded to is even, too.
LEMMA RoundedIs ==
  ASSUME NEW m \in Nat
  PROVE  Rounded(m) \in Int /\ (m % 2 = 0 => Rounded(m) % 2 = 0)
<1>1. PICK u : u = Ulp[m]
  OBVIOUS
<1>2. Rounded(m) = m - (m % u) \/ Rounded(m) = m - (m % u) + u
  <2>1. CASE RoundsDown(m, u)
    <3>1. Rounded(m) = m - (m % u) + 0
      BY <1>1, <2>1 DEF Rounded
    <3>2. u \in Nat /\ u > 0
      BY <1>1, UlpIs
    <3>3. m % u \in Int
      BY <3>2
    <3> QED
      BY <3>1, <3>3
  <2>2. CASE ~ RoundsDown(m, u)
    BY <1>1, <2>2 DEF Rounded
  <2> QED
    BY <2>1, <2>2
<1>3. CASE u = 1
  <2>1. m % 1 = 0
    OBVIOUS
  <2>2. Rounded(m) = m
    <3>1. ~ (2 * (m % 1) < 1) => FALSE
      BY <2>1
    <3>2. RoundsDown(m, 1)
      BY <3>1 DEF RoundsDown
    <3> QED
      BY <1>1, <1>3, <2>1, <3>2 DEF Rounded
  <2> QED
    BY <2>2
<1>4. ASSUME NEW w \in Nat \ {0}, u = 2 * w PROVE Rounded(m) \in Int /\ (m % 2 = 0 => Rounded(m) % 2 = 0)
  <2>1. PICK q \in Int, r \in Int : q = m \div u /\ r = m % u /\ m = u * q + r
    BY <1>4
  <2>2. PICK z \in Int : z = w * q
    BY <2>1
  <2>3. u * q = 2 * z
    <3>1. (2 * w) * q = 2 * (w * q)
      BY <2>1
    <3> QED
      BY <1>4, <2>2, <3>1
  <2>4. m = 2 * z + r
    BY <2>1, <2>3
  <2>5. Rounded(m) = 2 * z \/ Rounded(m) = 2 * z + 2 * w
    BY <1>2, <1>4, <2>1, <2>4
  <2> QED
    BY <2>5
<1> QED
  BY <1>1, <1>3, <1>4, UlpIs

\* A double of an integer is a whole number of halves, and of an even number of
\* halves an even one.
LEMMA AsDoubleIs ==
  ASSUME NEW v \in Int
  PROVE  AsDouble(v) \in Int /\ (v % 2 = 0 => AsDouble(v) % 2 = 0)
<1>1. CASE v < 0
  <2>1. PICK m \in Nat : m = -v
    BY <1>1
  <2>2. Rounded(m) \in Int /\ (m % 2 = 0 => Rounded(m) % 2 = 0)
    BY RoundedIs
  <2>3. AsDouble(v) = -Rounded(m)
    BY <1>1, <2>1 DEF AsDouble
  <2> QED
    BY <2>1, <2>2, <2>3
<1>2. CASE ~ (v < 0)
  <2>1. AsDouble(v) = Rounded(v) /\ v \in Nat
    BY <1>2 DEF AsDouble
  <2> QED
    BY <2>1, RoundedIs
<1> QED
  BY <1>1, <1>2

\* checkTruncation(): what comes back from a double as it was has not changed.
LEMMA DoubleKeeps ==
  ASSUME NEW S \in {"int64", "uint64"}, NEW v, Within(S, v), Truncated(S, AsDouble(v)) = v
  PROVE  AsDouble(v) = v
<1>1. S \in Integral /\ v \in Int
  BY Limits DEF Within, Integral, Signed, Unsigned
<1>2. PICK d \in Int : d = AsDouble(v)
  BY <1>1, AsDoubleIs
<1>3. PICK t \in Int : t = (IF d >= 0 THEN d - (d % 2) ELSE d + (d % 2)) /\ t % 2 = 0
  BY <1>2
<1>4. v = IF Fits(S, t) THEN t ELSE MinOf(S)
  BY <1>2, <1>3 DEF Truncated, OrLowest
<1>5. CASE Fits(S, t)
  <2>1. v = t /\ v % 2 = 0
    BY <1>3, <1>4, <1>5
  <2>2. d % 2 = 0
    BY <1>1, <1>2, <2>1, AsDoubleIs
  <2>3. d - (d % 2) = d /\ d + (d % 2) = d
    BY <2>2
  <2> QED
    BY <1>2, <1>3, <2>1, <2>3
<1>6. CASE ~ Fits(S, t)
  <2>1. v = MinOf(S)
    BY <1>4, <1>6
  <2> QED
    BY <1>1, <2>1, MantissaAssumption
<1> QED
  BY <1>5, <1>6

\* checkUpperLimit() and its like let no number through that changes: not from
\* one of the two types integers are held in to another integer type, but for
\* an unsigned 64-bit number too large for the signed one it is read as.
LEMMA CastKeeps ==
  ASSUME NEW S \in {"int64", "uint64"}, NEW T \in Integral, T # S, NEW v, Within(S, v),
         ~ (S = "uint64" /\ T = "int64" /\ v > MaxOf("int64")), ~ OutOfRange(S, T, v)
  PROVE  Wrapped(T, v) = v
<1>1. S \in Integral /\ v \in Int
  BY Limits DEF Within, Integral, Signed, Unsigned
<1>2. T \in {"int", "unsigned", "int64", "uint64"}
  BY DEF Integral, Signed, Unsigned
<1>3. /\ Size["unsigned"] = Size["int"] /\ Size["uint64"] = Size["int64"]
      /\ 2 * Size["int"] <= Size["int64"] /\ Size["int"] \in Nat /\ Size["int"] > 0
  BY SizeAssumption DEF Integral, Signed, Unsigned
<1>4. Within(T, v)
  <2>1. CASE T \in {"int", "unsigned"}
    <3>1. Size[S] \in Nat /\ Size[T] \in Nat /\ Size[T] < Size[S]
      BY <1>1, <1>3, <2>1, Limits
    <3>2. ~ (v > MaxOf(T))
      BY <3>1 DEF OutOfRange, TooLarge
    <3>3. MinOf(T) <= v
      <4>1. CASE S = "int64"
        <5>1. ~ (v < MinOf(T))
          BY <4>1 DEF OutOfRange, Signed
        <5> QED
          BY <5>1, <1>1, Limits
      <4>2. CASE S = "uint64"
        BY <4>2, <1>1, <2>1, Limits DEF Within, Signed, Unsigned, Integral
      <4> QED
        BY <4>1, <4>2
    <3> QED
      BY <3>2, <3>3, <1>1, Limits DEF Within
  <2>2. CASE T = "uint64" /\ S = "int64"
    <3>1. ~ (v < MinOf(T))
      BY <2>2 DEF OutOfRange, Signed
    <3>2. Modulus(S) = Modulus(T) /\ MinOf(T) = 0 /\ MinOf(S) <= 0
      BY <1>3, <2>2, <1>1, Limits DEF Modulus, Signed, Unsigned, MinOf, MaxOf
    <3> QED
      BY <3>1, <3>2, <1>1, Limits DEF Within
  <2>3. CASE T = "int64" /\ S = "uint64"
    <3>1. ~ (v > MaxOf("int64"))
      BY <2>3
    <3>2. MinOf(S) = 0 /\ MinOf(T) <= 0
      BY <1>3, <2>3, <1>1, Limits DEF Signed, Unsigned, MinOf, MaxOf, Half
    <3> QED
      BY <3>1, <3>2, <2>3, <1>1, Limits DEF Within
  <2> QED
    BY <1>2, <2>1, <2>2, <2>3
<1> QED
  BY <1>1, <1>4, Wraps

\* What a cast gives of a sane number, as a number, is that number.
LEMMA CastExact ==
  ASSUME NEW any, NEW T \in Numeric, any.held \in Numeric, Sane(any), Cast(any, T).ok,
         ~ (any.held = "uint64" /\ T = "int64" /\ any.val > MaxOf("int64")),
         any.held \in {"int64", "uint64", "double", "string", "none"}
  PROVE  Cast(any, T).val = any.val
<1>1. any.held \in {"int64", "uint64", "double"} /\ any.held # "none"
  BY DEF Numeric, Integral, Signed, Unsigned
<1>2. CASE any.held = T
  <2>1. Cast(any, T) = Got(any.val)
    BY <1>1, <1>2 DEF Cast
  <2> QED
    BY <2>1 DEF Got
<1>3. CASE any.held # T
  <2>1. T \in Integral \cup {"bool", "double"} /\ T # "string" /\ T # "NodeStatus" /\ T # "bool"
    BY DEF Numeric, Integral, Signed, Unsigned
  <2>2. Cast(any, T) = ConvertNumber(any.held, T, any.val)
    BY <1>1, <1>3, <2>1 DEF Cast, ConvertArithmetic
  <2>3. CASE T = "double"
    <3>1. any.held \in Integral /\ T \notin Integral /\ any.held # "double"
      BY <1>1, <1>3, <2>3 DEF Integral, Signed, Unsigned
    <3>2. ConvertNumber(any.held, T, any.val)
            = IF Truncated(any.held, AsDouble(any.val)) # any.val THEN Refused ELSE Got(AsDouble(any.val))
      BY <1>3, <2>1, <2>3, <3>1 DEF ConvertNumber
    <3>3. any.held \in {"int64", "uint64"} /\ Within(any.held, any.val)
      BY <1>1, <3>1 DEF Sane
    <3>4. Truncated(any.held, AsDouble(any.val)) = any.val
      BY <2>2, <3>2 DEF Refused
    <3>5. AsDouble(any.val) = any.val
      BY <3>3, <3>4, DoubleKeeps
    <3> QED
      BY <2>2, <3>2, <3>4, <3>5 DEF Got
  <2>4. CASE T # "double" /\ any.held = "double"
    <3>1. T \in Integral /\ "double" \notin Integral
      BY <2>1, <2>4 DEF Integral, Signed, Unsigned
    <3>2. ConvertNumber(any.held, T, any.val) \in {Refused, Got(any.val)}
      BY <1>3, <2>1, <2>4, <3>1 DEF ConvertNumber
    <3> QED
      BY <2>2, <3>2 DEF Got, Refused
  <2>5. CASE T # "double" /\ any.held # "double"
    <3>1. T \in Integral /\ any.held \in {"int64", "uint64"} /\ any.held \in Integral
      BY <1>1, <2>1, <2>5 DEF Integral, Signed, Unsigned
    <3>2. ConvertNumber(any.held, T, any.val)
            = IF OutOfRange(any.held, T, any.val) THEN Refused ELSE Got(Wrapped(T, any.val))
      BY <1>3, <2>1, <2>5, <3>1 DEF ConvertNumber
    <3>3. ~ OutOfRange(any.held, T, any.val)
      BY <2>2, <3>2 DEF Refused
    <3>4. Within(any.held, any.val)
      BY <3>1 DEF Sane
    <3>5. Wrapped(T, any.val) = any.val
      BY <1>3, <3>1, <3>3, <3>4, CastKeeps
    <3> QED
      BY <2>2, <3>2, <3>3, <3>5 DEF Got
  <2> QED
    BY <2>3, <2>4, <2>5
<1> QED
  BY <1>2, <1>3

\* An Any made of a value is sane, when an integer is made of an integer.
LEMMA AnySane ==
  ASSUME NEW T, NEW v, Held(T) = "int64" => v \in Int, T = "uint64" => Within("uint64", v)
  PROVE  Sane(AnyValue(T, v)) /\ AnyValue(T, v).type = T
         /\ AnyValue(T, v).held \in {"int64", "uint64", "double", "string"}
<1>1. "int64" \in Integral
  BY DEF Integral, Signed
<1>2. CASE Held(T) = "int64"
  <2>1. v \in Int /\ T # "string"
    BY <1>2 DEF Held
  <2>2. AnyValue(T, v).held = "int64" /\ AnyValue(T, v).val = Wrapped("int64", v) /\ AnyValue(T, v).type = T
    BY <1>2 DEF AnyValue
  <2> QED
    BY <1>1, <2>1, <2>2, Wraps DEF Sane
<1>3. CASE Held(T) # "int64"
  <2>1. T \in {"double", "uint64", "string"} /\ Held(T) = T
    BY <1>3 DEF Held
  <2>2. AnyValue(T, v).held = T /\ AnyValue(T, v).val = v /\ AnyValue(T, v).type = T
    BY <1>3, <2>1 DEF AnyValue
  <2> QED
    BY <2>1, <2>2 DEF Sane
<1> QED
  BY <1>2, <1>3

\* A text that is converted for a type gives a sane value of that type.
LEMMA ParsedSane ==
  ASSUME NEW T, NEW s, ParseString(T, s).ok
  PROVE  /\ Sane(ParseString(T, s).val) /\ ParseString(T, s).val.type = T
         /\ ParseString(T, s).val.held \in {"int64", "uint64", "double", "string"}
<1> DEFINE c == ConvertFromString(T, s)
<1>1. c.ok /\ ParseString(T, s) = Got(AnyValue(T, c.val))
  BY DEF ParseString, Parsed, Refused, Got
<1>2. T \in {"string", "int", "unsigned", "double", "bool", "NodeStatus"}
  BY <1>1 DEF ConvertFromString, Refused
<1>3. T \in {"int", "unsigned", "bool", "NodeStatus"} => c.val \in Int
  <2>1. CASE T = "int"
    <3>1. c = IntOf(Scanned(s))
      BY <2>1 DEF ConvertFromString, StringToInt
    <3>2. PICK n : n = Scanned(s)
      OBVIOUS
    <3>3. c.val = n.sign * n.number /\ Fits("int", n.sign * n.number)
      BY <1>1, <3>1, <3>2 DEF IntOf, Refused, Got
    <3> QED
      BY <3>3, FitsWithin DEF Integral, Signed
  <2>2. CASE T = "unsigned"
    <3>1. c = UnsignedOf(Scanned(s))
      BY <2>2 DEF ConvertFromString, StringToUnsigned
    <3>2. PICK n : n = Scanned(s)
      OBVIOUS
    <3>3. c.val = Wrapped("unsigned", n.sign * n.number) /\ Fits("unsigned", n.number)
      BY <1>1, <3>1, <3>2 DEF UnsignedOf, Refused, Got
    <3>4. n.sign \in {1, -1}
      BY <3>2 DEF Scanned, ScannedTrim, ScannedText, ScannedFrom
    <3>5. n.number \in Int
      BY <3>3, FitsWithin DEF Integral, Unsigned
    <3>6. n.sign * n.number \in Int
      BY <3>4, <3>5
    <3>7. "unsigned" \in Integral
      BY DEF Integral, Unsigned
    <3>8. Within("unsigned", c.val)
      BY <3>3, <3>6, <3>7, Wraps
    <3> QED
      BY <3>7, <3>8, Limits DEF Within
  <2>3. CASE T = "bool"
    <3>1. c = StringToBool(s)
      BY <2>3 DEF ConvertFromString
    <3> QED
      BY <1>1, <3>1 DEF StringToBool, Got, Refused
  <2>4. CASE T = "NodeStatus"
    <3>1. c = StringToStatus(s)
      BY <2>4 DEF ConvertFromString
    <3>2. PICK here : here = {i \in DOMAIN Statuses : Statuses[i] = Word(s)}
      OBVIOUS
    <3>3. here # {} /\ c.val = Half((CHOOSE i \in here : TRUE) - 1)
      BY <1>1, <3>1, <3>2 DEF StringToStatus, Got, Refused
    <3>4. here \subseteq Int
      BY <3>2 DEF Statuses
    <3>5. (CHOOSE i \in here : TRUE) \in here
      BY <3>3
    <3>6. PICK j \in Int : j = (CHOOSE i \in here : TRUE)
      BY <3>4, <3>5
    <3>7. c.val = 2 * (j - 1)
      BY <3>3, <3>6 DEF Half
    <3> QED
      BY <3>7
  <2> QED
    BY <2>1, <2>2, <2>3, <2>4
<1>4. Held(T) = "int64" => T \in {"int", "unsigned", "bool", "NodeStatus"}
  BY <1>2 DEF Held
<1>5. T # "uint64"
  BY <1>2
<1> HIDE DEF c
<1>6. Sane(AnyValue(T, c.val)) /\ AnyValue(T, c.val).type = T
      /\ AnyValue(T, c.val).held \in {"int64", "uint64", "double", "string"}
  BY <1>3, <1>4, <1>5, AnySane
<1> QED
  BY <1>1, <1>6 DEF Got

-----------------------------------------------------------------------------
(* The places a key stands for.                                            *)

\* The recursion in Path() has a solution: up to every number there is one,
\* and two of them agree.
Climbs(bs, p, g, m) == \A n \in 0 .. m : g[n] = IF n = 0 THEN <<p>> ELSE Further(bs, g[n - 1])

\* Path() climbs as far as one likes: a least number of steps that has no climb
\* would follow one that has.
LEMMA ClimbsUpTo ==
  ASSUME NEW bs, NEW p, NEW m \in Nat
  PROVE  \E g : Climbs(bs, p, g, m)
<1> DEFINE T == {n \in Nat : ~ \E g : Climbs(bs, p, g, n)}
<1> SUFFICES ASSUME T # {} PROVE FALSE
  OBVIOUS
<1>1. T \in SUBSET Nat
  OBVIOUS
<1>2. PICK l \in T : \A j \in T : l <= j
  <2> HIDE DEF T
  <2> QED
    BY <1>1, LeastNat
<1>3. CASE l = 0
  <2>1. PICK g : g = [n \in Nat |-> <<p>>]
    OBVIOUS
  <2>2. Climbs(bs, p, g, 0)
    BY <2>1 DEF Climbs
  <2> QED
    BY <1>2, <1>3, <2>2
<1>4. CASE l # 0
  <2>1. l - 1 \in Nat /\ l - 1 \notin T
    BY <1>2, <1>4
  <2>2. PICK g : Climbs(bs, p, g, l - 1)
    BY <2>1
  <2>3. PICK h : h = [n \in Nat |-> IF n = l THEN Further(bs, g[l - 1]) ELSE g[n]]
    OBVIOUS
  <2>4. \A n \in 0 .. l : h[n] = IF n = 0 THEN <<p>> ELSE Further(bs, h[n - 1])
    <3> SUFFICES ASSUME NEW n \in 0 .. l
                 PROVE  h[n] = IF n = 0 THEN <<p>> ELSE Further(bs, h[n - 1])
      OBVIOUS
    <3>1. l \in Nat
      BY <1>2
    <3>2. CASE n = l
      BY <2>3, <3>1, <3>2, <1>4, <2>1
    <3>3. CASE n # l
      <4>1. n \in 0 .. l - 1
        BY <3>1, <3>3
      <4>2. g[n] = IF n = 0 THEN <<p>> ELSE Further(bs, g[n - 1])
        BY <2>2, <4>1 DEF Climbs
      <4>3. h[n] = g[n] /\ (n # 0 => h[n - 1] = g[n - 1])
        BY <2>3, <3>1, <3>3, <4>1
      <4> QED
        BY <4>2, <4>3
    <3> QED
      BY <3>2, <3>3
  <2>5. Climbs(bs, p, h, l)
    BY <2>4 DEF Climbs
  <2> QED
    BY <1>2, <2>5
<1> QED
  BY <1>3, <1>4

\* Two climbs along the remappings give the same boards and keys.
LEMMA ClimbsAlike ==
  ASSUME NEW bs, NEW p, NEW l \in Nat, NEW m \in Nat, l <= m, NEW g, NEW h,
         Climbs(bs, p, g, l), Climbs(bs, p, h, m)
  PROVE  \A n \in 0 .. l : g[n] = h[n]
<1> DEFINE T == {n \in 0 .. l : g[n] # h[n]}
<1> SUFFICES ASSUME T # {} PROVE FALSE
  OBVIOUS
<1>1. T \in SUBSET Nat
  OBVIOUS
<1>2. PICK n \in T : \A j \in T : n <= j
  <2> HIDE DEF T
  <2> QED
    BY <1>1, LeastNat
<1>3. n \in 0 .. l /\ n \in 0 .. m /\ g[n] # h[n]
  BY <1>2
<1>4. CASE n = 0
  BY <1>3, <1>4 DEF Climbs
<1>5. CASE n # 0
  <2>1. n - 1 \in 0 .. l /\ n - 1 \notin T
    BY <1>2, <1>3, <1>5
  <2>2. g[n - 1] = h[n - 1]
    BY <2>1
  <2>3. g[n] = Further(bs, g[n - 1]) /\ h[n] = Further(bs, h[n - 1])
    BY <1>3, <1>5 DEF Climbs
  <2> QED
    BY <1>3, <2>2, <2>3
<1> QED
  BY <1>4, <1>5

\* The recursion in Path() has a solution, for any boards.
LEMMA UpSolved ==
  ASSUME NEW bs, NEW b, NEW k
  PROVE  \E Up : Up = [n \in Nat |-> IF n = 0 THEN <<<<b, k>>>> ELSE Further(bs, Up[n - 1])]
<1>1. PICK p : p = <<b, k>>
  OBVIOUS
<1>2. PICK sol : sol = [m \in Nat |-> CHOOSE g : Climbs(bs, p, g, m)]
  OBVIOUS
<1>3. \A m \in Nat : Climbs(bs, p, sol[m], m)
  BY <1>2, ClimbsUpTo
<1>4. PICK Up : Up = [n \in Nat |-> sol[n][n]]
  OBVIOUS
<1>5. ASSUME NEW n \in Nat PROVE Up[n] = IF n = 0 THEN <<p>> ELSE Further(bs, Up[n - 1])
  <2>1. CASE n = 0
    <3>1. Climbs(bs, p, sol[n], n) /\ n \in 0 .. n
      BY <1>3
    <3> QED
      BY <1>4, <2>1, <3>1 DEF Climbs
  <2>2. CASE n # 0
    <3>1. n - 1 \in Nat /\ n - 1 <= n /\ n - 1 \in 0 .. n - 1 /\ n \in 0 .. n
      BY <2>2
    <3>2. Climbs(bs, p, sol[n], n) /\ Climbs(bs, p, sol[n - 1], n - 1)
      <4>1. Climbs(bs, p, sol[n], n)
        BY <1>3
      <4>2. PICK l \in Nat : l = n - 1
        BY <3>1
      <4>3. Climbs(bs, p, sol[l], l)
        BY <1>3
      <4> QED
        BY <4>1, <4>2, <4>3
    <3>3. sol[n - 1][n - 1] = sol[n][n - 1]
      <4>1. PICK l \in Nat : l = n - 1
        BY <3>1
      <4>3. Climbs(bs, p, sol[l], l) /\ Climbs(bs, p, sol[n], n) /\ l <= n
        BY <3>1, <3>2, <4>1
      <4>2. \A i \in 0 .. l : sol[l][i] = sol[n][i]
        BY <4>3, ClimbsAlike
      <4> QED
        BY <4>1, <4>2
    <3>4. sol[n][n] = Further(bs, sol[n][n - 1])
      BY <2>2, <3>1, <3>2 DEF Climbs
    <3>5. Up[n] = sol[n][n] /\ Up[n - 1] = sol[n - 1][n - 1]
      BY <1>4, <3>1
    <3> QED
      BY <2>2, <3>3, <3>4, <3>5
  <2> QED
    BY <2>1, <2>2
<1>6. Up = [n \in Nat |-> IF n = 0 THEN <<p>> ELSE Further(bs, Up[n - 1])]
  BY <1>4, <1>5
<1> QED
  BY <1>1, <1>6

\* The boards of a tree: each was made after its parent.
Ranked(bs) ==
  /\ bs \in Seq(Range(bs)) /\ bs # <<>>
  /\ \A c \in DOMAIN bs : bs[c].parent \in 0 .. c - 1

\* The way of a key: from board to parent as long as it is remapped.
Names(bs, k) == {k} \cup UNION {Range(bs[c].remap) : c \in DOMAIN bs}
Places(bs, k) == {<<c, x>> : c \in DOMAIN bs, x \in Names(bs, k)}
Way(bs, p, path) ==
  /\ path # <<>> /\ path[1] = p
  /\ \A i \in 1 .. Len(path) - 1 : Remapped(bs, path[i]) /\ path[i + 1] = Above(bs, path[i])

\* The parent of a board that has one is a board too, and the key a name.
LEMMA AboveIs ==
  ASSUME NEW bs, Ranked(bs), NEW k, NEW p \in Places(bs, k), Remapped(bs, p)
  PROVE  Above(bs, p) \in Places(bs, k) /\ Above(bs, p)[1] < p[1]
<1>1. PICK c \in DOMAIN bs : c = p[1]
  BY DEF Places
<1>2. bs[c].parent \in 1 .. c - 1 /\ p[2] \in DOMAIN bs[c].remap
  BY <1>1 DEF Remapped, Ranked, NoBoard
<1>3. DOMAIN bs = 1 .. Len(bs) /\ Len(bs) \in Nat
  BY DEF Ranked
<1>4. bs[c].parent \in DOMAIN bs
  BY <1>2, <1>3
<1>5. bs[c].remap[p[2]] \in Names(bs, k)
  BY <1>2 DEF Names, Range
<1>6. Above(bs, p) = <<bs[c].parent, bs[c].remap[p[2]]>>
  BY <1>1 DEF Above
<1> QED
  BY <1>1, <1>2, <1>3, <1>4, <1>5, <1>6 DEF Places

\* What Path() gives is the whole way of the key.
LEMMA PathWay ==
  ASSUME NEW bs, Ranked(bs), NEW b \in DOMAIN bs, NEW k
  PROVE  /\ Path(bs, b, k) \in Seq(Places(bs, k)) /\ Way(bs, <<b, k>>, Path(bs, b, k))
         /\ ~ Remapped(bs, Last(Path(bs, b, k)))
<1> DEFINE U == CHOOSE Up : Up = [n \in Nat |-> IF n = 0 THEN <<<<b, k>>>> ELSE Further(bs, Up[n - 1])]
<1>1. U = [n \in Nat |-> IF n = 0 THEN <<<<b, k>>>> ELSE Further(bs, U[n - 1])]
  BY UpSolved
<1>2. Path(bs, b, k) = U[Len(bs)]
  BY DEF Path
<1> HIDE DEF U
<1> DEFINE S == Places(bs, k)
           OK(up, n) == /\ up \in Seq(S) /\ Way(bs, <<b, k>>, up)
                        /\ Last(up)[1] + Len(up) <= b + 1
                        /\ Len(up) = n + 1 \/ ~ Remapped(bs, Last(up))
<1>3. <<b, k>> \in S
  BY DEF Places, Names
<1>4. DOMAIN bs = 1 .. Len(bs) /\ Len(bs) \in Nat
  BY DEF Ranked
<1>5. OK(<<<<b, k>>>>, 0)
  BY <1>3, <1>4 DEF Way, Last
<1>6. ASSUME NEW n \in Nat, NEW up, OK(up, n) PROVE OK(Further(bs, up), n + 1)
  <2>1. up \in Seq(S) /\ Len(up) \in Nat /\ Len(up) # 0 /\ Last(up) = up[Len(up)] /\ Last(up) \in S
    BY <1>6 DEF Way, Last
  <2>2. CASE ~ Remapped(bs, Last(up))
    BY <1>6, <2>2 DEF Further
  <2>3. CASE Remapped(bs, Last(up))
    <3>1. PICK q : q = Above(bs, Last(up))
      OBVIOUS
    <3>2. q \in S /\ q[1] < Last(up)[1] /\ q[1] \in Int /\ Last(up)[1] \in Int
      BY <2>1, <2>3, <3>1, <1>4, AboveIs DEF Places
    <3>3. Further(bs, up) = Append(up, q)
      BY <2>3, <3>1 DEF Further
    <3>4. PICK un : un = Append(up, q)
      OBVIOUS
    <3>5. /\ un \in Seq(S) /\ Len(un) = Len(up) + 1 /\ un[Len(un)] = q
          /\ \A i \in 1 .. Len(up) : un[i] = up[i]
      BY <2>1, <3>2, <3>4
    <3>6. Way(bs, <<b, k>>, un)
      <4>1. un # <<>> /\ un[1] = <<b, k>>
        BY <1>6, <2>1, <3>5 DEF Way
      <4>2. ASSUME NEW i \in 1 .. Len(un) - 1 PROVE Remapped(bs, un[i]) /\ un[i + 1] = Above(bs, un[i])
        <5>1. i \in 1 .. Len(up) /\ un[i] = up[i]
          BY <2>1, <3>5
        <5>2. CASE i = Len(up)
          BY <2>1, <2>3, <3>1, <3>5, <5>1, <5>2
        <5>3. CASE i # Len(up)
          <6>1. i \in 1 .. Len(up) - 1 /\ i + 1 \in 1 .. Len(up)
            BY <2>1, <5>1, <5>3
          <6> QED
            BY <1>6, <3>5, <5>1, <6>1 DEF Way
        <5> QED
          BY <5>2, <5>3
      <4> QED
        BY <4>1, <4>2 DEF Way
    <3>7. Last(un) = q
      BY <3>5 DEF Last
    <3>8. Len(up) = n + 1
      BY <1>6, <2>3
    <3> QED
      BY <1>6, <2>1, <3>2, <3>3, <3>4, <3>5, <3>6, <3>7, <3>8, <1>4
  <2> QED
    BY <2>2, <2>3
<1> HIDE DEF OK, S
<1>7. ASSUME NEW n \in Nat PROVE OK(U[n], n)
  <2> DEFINE T == {m \in Nat : ~ OK(U[m], m)}
  <2> SUFFICES ASSUME T # {} PROVE FALSE
    OBVIOUS
  <2>1. T \in SUBSET Nat
    OBVIOUS
  <2>2. PICK l \in T : \A j \in T : l <= j
    <3> HIDE DEF T
    <3> QED
      BY <2>1, LeastNat
  <2>3. l # 0
    BY <1>1, <1>5, <2>2
  <2>4. l \in Nat /\ l - 1 \in Nat /\ l - 1 \notin T /\ ~ OK(U[l], l)
    BY <2>2, <2>3
  <2>5. OK(U[l - 1], l - 1)
    BY <2>4
  <2>6. U[l] = Further(bs, U[l - 1])
    BY <1>1, <2>3, <2>4
  <2>7. OK(Further(bs, U[l - 1]), l - 1 + 1)
    BY <1>6, <2>4, <2>5
  <2> QED
    BY <2>4, <2>6, <2>7
<1>8. OK(U[Len(bs)], Len(bs))
  BY <1>4, <1>7
<1>9. PICK up : up = U[Len(bs)]
  OBVIOUS
<1>10. up \in Seq(S) /\ Way(bs, <<b, k>>, up) /\ Last(up)[1] + Len(up) <= b + 1
       /\ (Len(up) = Len(bs) + 1 \/ ~ Remapped(bs, Last(up)))
  BY <1>8, <1>9 DEF OK
<1>11. Last(up) \in S
  BY <1>10 DEF Way, Last
<1>12. Last(up)[1] \in DOMAIN bs
  BY <1>11 DEF S, Places
<1>13. Len(up) # Len(bs) + 1
  BY <1>4, <1>10, <1>12
<1> QED
  BY <1>2, <1>9, <1>10, <1>13 DEF S

\* A key stands for one place; the way does not depend on the boards made later
\* nor on what is stored.
SameWays(bs, bt) ==
  \A c \in DOMAIN bs : c \in DOMAIN bt /\ bt[c].parent = bs[c].parent /\ bt[c].remap = bs[c].remap

\* Boards made later, and what is stored, do not change the way of a key.
LEMMA PathStays ==
  ASSUME NEW bs, NEW bt, Ranked(bs), Ranked(bt), SameWays(bs, bt), NEW b \in DOMAIN bs, NEW k
  PROVE  Path(bt, b, k) = Path(bs, b, k)
<1>1. PICK up : up = Path(bs, b, k)
  OBVIOUS
<1>2. PICK vp : vp = Path(bt, b, k)
  OBVIOUS
<1>3. /\ up \in Seq(Places(bs, k)) /\ Way(bs, <<b, k>>, up) /\ ~ Remapped(bs, Last(up))
      /\ vp \in Seq(Places(bt, k)) /\ Way(bt, <<b, k>>, vp) /\ ~ Remapped(bt, Last(vp))
  BY <1>1, <1>2, PathWay DEF SameWays
<1>4. Len(up) \in Nat /\ Len(vp) \in Nat /\ Len(up) # 0 /\ Len(vp) # 0
  BY <1>3 DEF Way
<1>5. ASSUME NEW p, p[1] \in DOMAIN bs
      PROVE  (Remapped(bt, p) <=> Remapped(bs, p)) /\ Above(bt, p) = Above(bs, p)
  BY <1>5 DEF SameWays, Remapped, Above
<1>6. \A i \in 1 .. Len(up) : up[i][1] \in DOMAIN bs
  BY <1>3 DEF Places
<1>7. ASSUME NEW i \in Nat, i \in 1 .. Len(up) PROVE i \in 1 .. Len(vp) /\ vp[i] = up[i]
  <2> DEFINE T == {j \in Nat : j \in 1 .. Len(up) /\ ~ (j \in 1 .. Len(vp) /\ vp[j] = up[j])}
  <2> SUFFICES ASSUME T # {} PROVE FALSE
    BY <1>7
  <2>1. T \in SUBSET Nat
    OBVIOUS
  <2>2. PICK l \in T : \A j \in T : l <= j
    <3> HIDE DEF T
    <3> QED
      BY <2>1, LeastNat
  <2>3. l \in 1 .. Len(up) /\ ~ (l \in 1 .. Len(vp) /\ vp[l] = up[l])
    BY <2>2
  <2>4. l # 1
    <3>1. up[1] = <<b, k>> /\ vp[1] = <<b, k>>
      BY <1>3 DEF Way
    <3> QED
      BY <1>4, <2>3, <3>1
  <2>5. l - 1 \in 1 .. Len(up) - 1 /\ l - 1 \in Nat /\ l - 1 \notin T
    BY <1>4, <2>2, <2>3, <2>4
  <2>6. l - 1 \in 1 .. Len(vp) /\ vp[l - 1] = up[l - 1]
    BY <2>5, <1>4
  <2>7. Remapped(bs, up[l - 1]) /\ up[l - 1 + 1] = Above(bs, up[l - 1])
    BY <1>3, <2>5 DEF Way
  <2>8. up[l - 1][1] \in DOMAIN bs
    BY <1>4, <1>6, <2>5
  <2>9. Remapped(bt, vp[l - 1]) /\ up[l] = Above(bt, vp[l - 1])
    BY <1>5, <2>3, <2>6, <2>7, <2>8, <1>4
  <2>10. l - 1 # Len(vp)
    BY <1>3, <2>9 DEF Last
  <2>11. l - 1 \in 1 .. Len(vp) - 1
    BY <2>6, <2>10, <1>4
  <2>12. vp[l - 1 + 1] = Above(bt, vp[l - 1])
    BY <1>3, <2>11 DEF Way
  <2> QED
    BY <2>3, <2>9, <2>11, <2>12, <1>4
<1>8. Len(up) = Len(vp)
  <2>1. Len(up) \in 1 .. Len(vp) /\ vp[Len(up)] = up[Len(up)]
    BY <1>4, <1>7
  <2>2. SUFFICES ASSUME Len(up) # Len(vp) PROVE FALSE
    OBVIOUS
  <2>3. Len(up) \in 1 .. Len(vp) - 1
    BY <2>1, <2>2, <1>4
  <2>4. Remapped(bt, vp[Len(up)])
    BY <1>3, <2>3 DEF Way
  <2>5. Remapped(bs, up[Len(up)])
    BY <1>4, <1>5, <1>6, <2>1, <2>4
  <2> QED
    BY <1>3, <2>5 DEF Last
<1>9. \A i \in 1 .. Len(up) : vp[i] = up[i]
  BY <1>4, <1>7
<1> QED
  BY <1>1, <1>2, <1>3, <1>8, <1>9

-----------------------------------------------------------------------------
(* What the calls make of the boards.                                      *)

\* An entry as it should be: a value of its type, or none, and a sane one.
Fitting(entry) ==
  /\ Untyped \notin {entry.type, entry.value.type} => entry.value.type = entry.type
  /\ Sane(entry.value) /\ entry.value.held \in {"int64", "uint64", "double", "string", "none"}
Filled(bs) == \A c \in DOMAIN bs : \A x \in DOMAIN bs[c].storage : Fitting(bs[c].storage[x])

\* Boards keep their place and what they remap, entries their type.
Grown(bs, bt) ==
  /\ SameWays(bs, bt)
  /\ \A c \in DOMAIN bs : \A x \in DOMAIN bs[c].storage :
       x \in DOMAIN bt[c].storage /\ bt[c].storage[x].type = bs[c].storage[x].type
Kept(bs, bt) == Ranked(bt) /\ Filled(bt) /\ Grown(bs, bt) /\ DOMAIN bt = DOMAIN bs

\* While a tree is built, what a remapped key stands for has an entry as well,
\* of the same type if it has one.
Chained(bs) ==
  \A c \in DOMAIN bs : \A x \in DOMAIN bs[c].storage :
    Remapped(bs, <<c, x>>) =>
      /\ Stored(bs, Above(bs, <<c, x>>))
      /\ TypeAt(bs, Above(bs, <<c, x>>)) \in {Untyped, TypeAt(bs, <<c, x>>)}

\* What two calls after another keep, they keep together.
LEMMA KeptTransitive ==
  ASSUME NEW bs, NEW bt, NEW bu, Kept(bs, bt), Kept(bt, bu)
  PROVE  Kept(bs, bu)
BY DEF Kept, Grown, SameWays

\* Boards that are made of boards, one for each, are ranked as they were.
LEMMA SameRank ==
  ASSUME NEW bs, NEW bt, Ranked(bs), bt = [c \in DOMAIN bs |-> bt[c]],
         \A c \in DOMAIN bs : bt[c].parent = bs[c].parent
  PROVE  Ranked(bt)
<1>1. DOMAIN bs = 1 .. Len(bs) /\ Len(bs) \in Nat /\ Len(bs) # 0
  BY DEF Ranked
<1>2. DOMAIN bt = DOMAIN bs /\ \A c \in DOMAIN bs : bt[c] \in Range(bt)
  BY DEF Range
<1>3. bt \in Seq(Range(bt)) /\ Len(bt) = Len(bs)
  BY <1>1, <1>2
<1>4. bt # <<>>
  BY <1>1, <1>3
<1> QED
  BY <1>2, <1>3, <1>4 DEF Ranked

\* What WithEntries() adds, and what it leaves as it is.
LEMMA WithEntriesGives ==
  ASSUME NEW bs, NEW types, NEW bt, bt = WithEntries(bs, types),
         \A q \in DOMAIN types : q = <<q[1], q[2]>> /\ q[1] \in DOMAIN bs
  PROVE  /\ bt = [c \in DOMAIN bs |-> bt[c]]
         /\ \A c \in DOMAIN bs : /\ bt[c].parent = bs[c].parent /\ bt[c].remap = bs[c].remap
              /\ \A x : /\ x \in DOMAIN bt[c].storage
                             <=> x \in DOMAIN bs[c].storage \/ <<c, x>> \in DOMAIN types
                        /\ x \in DOMAIN bs[c].storage => bt[c].storage[x] = bs[c].storage[x]
                        /\ x \notin DOMAIN bs[c].storage /\ <<c, x>> \in DOMAIN types
                             => bt[c].storage[x] = Entry(EmptyAny, types[<<c, x>>])
<1> DEFINE New(c) == {p[2] : p \in {q \in DOMAIN types : q[1] = c}}
           Entries(c) == [x \in New(c) |-> Entry(EmptyAny, types[<<c, x>>])]
<1>1. bt = [c \in DOMAIN bs |-> Storing(bs[c], Inserted(bs[c].storage, Entries(c)))]
  BY DEF WithEntries
<1>2. bt = [c \in DOMAIN bs |-> bt[c]]
  BY <1>1
<1>3. ASSUME NEW c \in DOMAIN bs
      PROVE  /\ bt[c].parent = bs[c].parent /\ bt[c].remap = bs[c].remap
             /\ bt[c].storage = Inserted(bs[c].storage, Entries(c))
  BY <1>1, <1>3 DEF Storing
<1>4. ASSUME NEW c \in DOMAIN bs, NEW x PROVE x \in New(c) <=> <<c, x>> \in DOMAIN types
  <2>1. ASSUME x \in New(c) PROVE <<c, x>> \in DOMAIN types
    <3>1. PICK p \in DOMAIN types : p[1] = c /\ x = p[2]
      BY <2>1
    <3> QED
      BY <3>1
  <2>2. ASSUME <<c, x>> \in DOMAIN types PROVE x \in New(c)
    <3>1. PICK q \in DOMAIN types : q = <<c, x>>
      BY <2>2
    <3>2. q[1] = c /\ q[2] = x
      BY <3>1
    <3> QED
      BY <3>2
  <2> QED
    BY <2>1, <2>2
<1>5. ASSUME NEW c \in DOMAIN bs, NEW x
      PROVE  /\ x \in DOMAIN bt[c].storage <=> x \in DOMAIN bs[c].storage \/ x \in New(c)
             /\ x \in DOMAIN bs[c].storage => bt[c].storage[x] = bs[c].storage[x]
             /\ x \notin DOMAIN bs[c].storage /\ x \in New(c)
                  => bt[c].storage[x] = Entry(EmptyAny, types[<<c, x>>])
  <2> HIDE DEF New
  <2>1. bt[c].storage = Inserted(bs[c].storage, Entries(c))
    BY <1>3
  <2> QED
    BY <2>1 DEF Inserted
<1> HIDE DEF New
<1> QED
  BY <1>2, <1>3, <1>4, <1>5

\* Empty entries at new places keep the boards in order.
LEMMA WithEntriesKeeps ==
  ASSUME NEW bs, Ranked(bs), Filled(bs), NEW types,
         \A q \in DOMAIN types : q = <<q[1], q[2]>> /\ q[1] \in DOMAIN bs
  PROVE  Kept(bs, WithEntries(bs, types))
<1>1. PICK bt : bt = WithEntries(bs, types)
  OBVIOUS
<1>2. /\ bt = [c \in DOMAIN bs |-> bt[c]]
      /\ \A c \in DOMAIN bs : /\ bt[c].parent = bs[c].parent /\ bt[c].remap = bs[c].remap
           /\ \A x : /\ x \in DOMAIN bt[c].storage
                          <=> x \in DOMAIN bs[c].storage \/ <<c, x>> \in DOMAIN types
                     /\ x \in DOMAIN bs[c].storage => bt[c].storage[x] = bs[c].storage[x]
                     /\ x \notin DOMAIN bs[c].storage /\ <<c, x>> \in DOMAIN types
                          => bt[c].storage[x] = Entry(EmptyAny, types[<<c, x>>])
  BY <1>1, WithEntriesGives
<1>3. Ranked(bt)
  BY <1>2, SameRank
<1>4. DOMAIN bt = DOMAIN bs
  BY <1>2
<1>5. Grown(bs, bt)
  BY <1>2, <1>4 DEF Grown, SameWays
<1>6. ASSUME NEW t PROVE Fitting(Entry(EmptyAny, t))
  BY DEF Fitting, Entry, EmptyAny, Sane, Untyped
<1>7. Filled(bt)
  <2> SUFFICES ASSUME NEW c \in DOMAIN bs, NEW x \in DOMAIN bt[c].storage
               PROVE  Fitting(bt[c].storage[x])
    BY <1>4 DEF Filled
  <2>1. CASE x \in DOMAIN bs[c].storage
    BY <1>2, <2>1 DEF Filled
  <2>2. CASE x \notin DOMAIN bs[c].storage
    <3>1. bt[c].storage[x] = Entry(EmptyAny, types[<<c, x>>])
      BY <1>2, <2>2
    <3> QED
      BY <1>6, <3>1
  <2> QED
    BY <2>1, <2>2
<1> QED
  BY <1>1, <1>3, <1>4, <1>5, <1>7 DEF Kept

\* A place that gets an entry which fits and has the type it had keeps them too.
LEMMA StoreKeeps ==
  ASSUME NEW bs, Ranked(bs), Filled(bs), NEW c \in DOMAIN bs, NEW x, NEW entry, Fitting(entry),
         x \in DOMAIN bs[c].storage => entry.type = bs[c].storage[x].type
  PROVE  Kept(bs, Store(bs, <<c, x>>, entry))
<1>1. PICK bt : bt = Store(bs, <<c, x>>, entry)
  OBVIOUS
<1>2. bt = [d \in DOMAIN bs |-> IF d = c THEN Storing(bs[d], Extend(bs[d].storage, x, entry)) ELSE bs[d]]
  BY <1>1 DEF Store
<1>3. DOMAIN bt = DOMAIN bs /\ bt = [d \in DOMAIN bs |-> bt[d]]
  BY <1>2
<1>4. ASSUME NEW d \in DOMAIN bs
      PROVE  /\ bt[d].parent = bs[d].parent /\ bt[d].remap = bs[d].remap
             /\ d # c => bt[d] = bs[d]
             /\ d = c => bt[d].storage = Extend(bs[d].storage, x, entry)
  BY <1>2 DEF Storing
<1>5. ASSUME NEW y
      PROVE  /\ y \in DOMAIN bt[c].storage <=> y \in DOMAIN bs[c].storage \/ y = x
             /\ y \in DOMAIN bt[c].storage => bt[c].storage[y] = IF y = x THEN entry ELSE bs[c].storage[y]
  <2>1. bt[c].storage = Extend(bs[c].storage, x, entry)
    BY <1>4
  <2>2. bt[c].storage = [z \in DOMAIN bs[c].storage \cup {x} |-> IF z = x THEN entry ELSE bs[c].storage[z]]
    BY <2>1 DEF Extend
  <2> QED
    BY <2>2
<1>6. Ranked(bt)
  BY <1>3, <1>4, SameRank
<1>7. Grown(bs, bt)
  <2>1. SameWays(bs, bt)
    BY <1>3, <1>4 DEF SameWays
  <2>2. ASSUME NEW d \in DOMAIN bs, NEW y \in DOMAIN bs[d].storage
        PROVE  y \in DOMAIN bt[d].storage /\ bt[d].storage[y].type = bs[d].storage[y].type
    BY <1>4, <1>5
  <2> QED
    BY <2>1, <2>2 DEF Grown
<1>8. Filled(bt)
  BY <1>3, <1>4, <1>5 DEF Filled
<1> QED
  BY <1>1, <1>3, <1>6, <1>7, <1>8 DEF Kept

\* The places of a way are on boards there are.
LEMMA PathPlaces ==
  ASSUME NEW bs, Ranked(bs), NEW b \in DOMAIN bs, NEW k
  PROVE  /\ Len(Path(bs, b, k)) \in Nat /\ Len(Path(bs, b, k)) # 0
         /\ DOMAIN Path(bs, b, k) = 1 .. Len(Path(bs, b, k))
         /\ \A i \in 1 .. Len(Path(bs, b, k)) :
              LET p == Path(bs, b, k)[i] IN p = <<p[1], p[2]>> /\ p[1] \in DOMAIN bs
         /\ Last(Path(bs, b, k)) = Path(bs, b, k)[Len(Path(bs, b, k))]
<1>1. PICK up : up = Path(bs, b, k)
  OBVIOUS
<1>2. up \in Seq(Places(bs, k)) /\ up # <<>>
  BY <1>1, PathWay DEF Way
<1>3. /\ Len(up) \in Nat /\ Len(up) # 0 /\ DOMAIN up = 1 .. Len(up)
      /\ \A i \in 1 .. Len(up) : up[i] \in Places(bs, k)
  BY <1>2
<1>4. \A p \in Places(bs, k) : p = <<p[1], p[2]>> /\ p[1] \in DOMAIN bs
  BY DEF Places
<1> QED
  BY <1>1, <1>3, <1>4 DEF Last

\* A port declared: a new place gets the type, all the way up, or the call throws.
LEMMA SetPortInfoKeeps ==
  ASSUME NEW bs, Ranked(bs), Filled(bs), NEW b \in DOMAIN bs, NEW k, NEW info,
         NEW a, a = SetPortInfo(bs, b, k, info)
  PROVE  /\ Kept(bs, a.boards) /\ a.error \in {"none", "LogicError"}
         /\ Chained(bs) => Chained(a.boards)
         /\ a.error = "none" /\ ~ Stored(bs, <<b, k>>) =>
              Stored(a.boards, <<b, k>>) /\ TypeAt(a.boards, <<b, k>>) = info.type
<1> DEFINE Allows(p) == ~ Stored(bs, p) \/ TypeAt(bs, p) \in {Untyped, info.type}
<1>1. PICK path : path = Path(bs, b, k)
  OBVIOUS
<1>2. PICK reached : reached = {i \in DOMAIN path : \A j \in i .. Len(path) : Allows(path[j])}
  OBVIOUS
<1>3. PICK types : types = [p \in {path[i] : i \in reached} |-> info.type]
  OBVIOUS
<1>4. PICK bt : bt = WithEntries(bs, types)
  OBVIOUS
<1>5. a.boards = bt /\ a.error = IF reached = DOMAIN path THEN "none" ELSE "LogicError"
  BY <1>1, <1>2, <1>3, <1>4 DEF SetPortInfo, Answer
<1>6. /\ Len(path) \in Nat /\ Len(path) # 0 /\ DOMAIN path = 1 .. Len(path)
      /\ \A i \in 1 .. Len(path) : path[i] = <<path[i][1], path[i][2]>> /\ path[i][1] \in DOMAIN bs
      /\ path[1] = <<b, k>> /\ Last(path) = path[Len(path)]
      /\ \A i \in 1 .. Len(path) - 1 : Remapped(bs, path[i]) /\ path[i + 1] = Above(bs, path[i])
      /\ ~ Remapped(bs, Last(path))
  BY <1>1, PathPlaces, PathWay DEF Way
<1>7. \A q \in DOMAIN types : q = <<q[1], q[2]>> /\ q[1] \in DOMAIN bs
  BY <1>2, <1>3, <1>6
<1>8. Kept(bs, bt)
  BY <1>4, <1>7, WithEntriesKeeps
<1>9. /\ DOMAIN bt = DOMAIN bs
      /\ \A c \in DOMAIN bs : /\ bt[c].parent = bs[c].parent /\ bt[c].remap = bs[c].remap
           /\ \A x : /\ x \in DOMAIN bt[c].storage
                          <=> x \in DOMAIN bs[c].storage \/ <<c, x>> \in DOMAIN types
                     /\ x \in DOMAIN bs[c].storage => bt[c].storage[x] = bs[c].storage[x]
                     /\ x \notin DOMAIN bs[c].storage /\ <<c, x>> \in DOMAIN types
                          => bt[c].storage[x] = Entry(EmptyAny, types[<<c, x>>])
  BY <1>4, <1>7, <1>8, WithEntriesGives DEF Kept
<1>10. ASSUME NEW p, p = <<p[1], p[2]>>, p[1] \in DOMAIN bs
       PROVE  /\ Stored(bt, p) <=> Stored(bs, p) \/ p \in DOMAIN types
              /\ Stored(bs, p) => TypeAt(bt, p) = TypeAt(bs, p)
              /\ ~ Stored(bs, p) /\ p \in DOMAIN types => TypeAt(bt, p) = info.type
              /\ Remapped(bt, p) <=> Remapped(bs, p)
              /\ Above(bt, p) = Above(bs, p)
  <2>1. PICK c, x : c \in DOMAIN bs /\ p = <<c, x>>
    BY <1>10
  <2>2. /\ Stored(bt, p) <=> Stored(bs, p) \/ p \in DOMAIN types
        /\ Stored(bs, p) => bt[c].storage[x] = bs[c].storage[x]
        /\ ~ Stored(bs, p) /\ p \in DOMAIN types => bt[c].storage[x] = Entry(EmptyAny, types[p])
    BY <1>9, <2>1 DEF Stored
  <2>3. p \in DOMAIN types => types[p] = info.type
    BY <1>3
  <2>4. ~ Stored(bs, p) /\ p \in DOMAIN types => TypeAt(bt, p) = info.type
    BY <2>1, <2>2, <2>3 DEF TypeAt, Entry
  <2>5. Stored(bs, p) => TypeAt(bt, p) = TypeAt(bs, p)
    BY <2>1, <2>2 DEF TypeAt
  <2>6. (Remapped(bt, p) <=> Remapped(bs, p)) /\ Above(bt, p) = Above(bs, p)
    BY <1>9, <2>1 DEF Remapped, Above
  <2> QED
    BY <2>2, <2>4, <2>5, <2>6
<1>11. ASSUME Chained(bs) PROVE Chained(bt)
  <2> SUFFICES ASSUME NEW c \in DOMAIN bt, NEW x \in DOMAIN bt[c].storage, Remapped(bt, <<c, x>>)
               PROVE  /\ Stored(bt, Above(bt, <<c, x>>))
                      /\ TypeAt(bt, Above(bt, <<c, x>>)) \in {Untyped, TypeAt(bt, <<c, x>>)}
    BY DEF Chained
  <2>1. PICK p : p = <<c, x>> /\ p[1] = c /\ p[2] = x /\ p[1] \in DOMAIN bs /\ Stored(bt, p)
    BY <1>9 DEF Stored
  <2>2. PICK q : q = Above(bs, p) /\ Above(bt, p) = q /\ Remapped(bs, p)
    BY <1>10, <2>1
  <2>3. q = <<q[1], q[2]>> /\ q[1] \in DOMAIN bs
    <3>1. p \in Places(bs, x)
      BY <2>1 DEF Places, Names
    <3>2. q \in Places(bs, x)
      BY <2>2, <3>1, AboveIs
    <3> QED
      BY <3>2 DEF Places
  <2>4. CASE Stored(bs, p)
    <3>1. Stored(bs, q) /\ TypeAt(bs, q) \in {Untyped, TypeAt(bs, p)}
      BY <1>11, <2>1, <2>2, <2>4 DEF Chained, Stored
    <3> QED
      BY <1>10, <2>1, <2>2, <2>3, <2>4, <3>1
  <2>5. CASE ~ Stored(bs, p)
    <3>1. p \in DOMAIN types
      BY <1>10, <2>1, <2>5
    <3>2. PICK i \in reached : p = path[i]
      BY <1>3, <3>1
    <3>3. i \in 1 .. Len(path) /\ i # Len(path)
      BY <1>2, <1>6, <2>2, <3>2
    <3>9. i \in Nat /\ i \in 1 .. Len(path) - 1
      <4>1. Len(path) \in Nat
        BY <1>6
      <4> QED
        BY <3>3, <4>1
    <3>4. path[i + 1] = q /\ i + 1 \in 1 .. Len(path)
      <4>1. path[i + 1] = Above(bs, path[i])
        BY <1>6, <3>9
      <4> QED
        BY <1>6, <2>2, <3>2, <3>9, <4>1
    <3>5. i + 1 \in reached /\ Allows(q)
      <4>1. \A j \in i .. Len(path) : Allows(path[j])
        BY <1>2, <3>2
      <4>2. i + 1 \in i .. Len(path) /\ \A j \in i + 1 .. Len(path) : j \in i .. Len(path)
        BY <1>6, <3>9
      <4>3. \A j \in i + 1 .. Len(path) : Allows(path[j])
        BY <4>1, <4>2
      <4> QED
        BY <1>2, <1>6, <3>4, <4>1, <4>2, <4>3
    <3>6. q \in DOMAIN types
      BY <1>3, <3>4, <3>5
    <3>7. Stored(bt, q) /\ TypeAt(bt, q) \in {Untyped, info.type}
      BY <1>10, <2>3, <3>5, <3>6
    <3>8. TypeAt(bt, p) = info.type
      BY <1>10, <2>1, <2>5, <3>1
    <3> QED
      BY <2>1, <2>2, <3>7, <3>8
  <2> QED
    BY <2>4, <2>5
<1>12. ASSUME a.error = "none", ~ Stored(bs, <<b, k>>)
       PROVE  Stored(bt, <<b, k>>) /\ TypeAt(bt, <<b, k>>) = info.type
  <2>1. 1 \in reached
    BY <1>5, <1>6, <1>12
  <2>2. <<b, k>> \in DOMAIN types
    BY <1>3, <1>6, <2>1
  <2>4. PICK p : p = <<b, k>>
    OBVIOUS
  <2>3. p = <<p[1], p[2]>> /\ p[1] \in DOMAIN bs
    BY <2>4
  <2> QED
    BY <1>10, <1>12, <2>2, <2>3, <2>4
<1> QED
  BY <1>5, <1>8, <1>11, <1>12

\* A value that is written goes where its type may, in the type it was given.
LEMMA SetKeeps ==
  ASSUME NEW bs, Ranked(bs), Filled(bs), NEW b \in DOMAIN bs, NEW k, NEW T, NEW v,
         Held(T) = "int64" => v \in Int, T = "uint64" => Within("uint64", v)
  PROVE  Kept(bs, Set(bs, b, k, T, v).boards)
<1>1. PICK path : path = Path(bs, b, k)
  OBVIOUS
<1>2. /\ Len(path) \in Nat /\ Len(path) # 0
      /\ \A i \in 1 .. Len(path) : path[i] = <<path[i][1], path[i][2]>> /\ path[i][1] \in DOMAIN bs
      /\ Last(path) = path[Len(path)]
  BY <1>1, PathPlaces
<1>3. PICK below : below = Virgins(bs, path)
  OBVIOUS
<1>4. Kept(bs, below)
  <2>1. PICK types : types = [p \in {path[i] : i \in 1 .. Len(path) - 1} |-> Locked(bs, Above(bs, p))]
    OBVIOUS
  <2>2. \A q \in DOMAIN types : q = <<q[1], q[2]>> /\ q[1] \in DOMAIN bs
    <3> TAKE q \in DOMAIN types
    <3>1. PICK i \in 1 .. Len(path) - 1 : q = path[i]
      BY <2>1
    <3>2. i \in 1 .. Len(path)
      BY <1>2
    <3> QED
      BY <1>2, <3>1, <3>2
  <2>3. below = WithEntries(bs, types)
    BY <1>3, <2>1 DEF Virgins
  <2> QED
    BY <2>2, <2>3, WithEntriesKeeps
<1>5. PICK c, x : c \in DOMAIN bs /\ Last(path) = <<c, x>>
  BY <1>2
<1>6. PICK lock : lock = Locked(below, <<c, x>>)
  OBVIOUS
<1>7. x \in DOMAIN below[c].storage => lock = below[c].storage[x].type
  BY <1>6 DEF Locked, Stored, TypeAt
<1>8. PICK taken : taken = Taking(lock, T, v)
  OBVIOUS
<1>9. ASSUME taken.ok PROVE Fitting(Entry(taken.val, lock))
  <2>1. CASE lock \in {Untyped, T}
    <3>1. taken = Got(AnyValue(T, v))
      BY <1>8, <2>1 DEF Taking
    <3>2. Sane(AnyValue(T, v)) /\ AnyValue(T, v).type = T
          /\ AnyValue(T, v).held \in {"int64", "uint64", "double", "string"}
      BY AnySane
    <3> QED
      BY <2>1, <3>1, <3>2 DEF Fitting, Entry, Got
  <2>2. CASE lock \notin {Untyped, T}
    <3>1. T = "string" /\ taken = ParseString(lock, v)
      BY <1>8, <1>9, <2>2 DEF Taking, Refused
    <3>2. /\ Sane(taken.val) /\ taken.val.type = lock
          /\ taken.val.held \in {"int64", "uint64", "double", "string"}
      BY <1>9, <3>1, ParsedSane
    <3> QED
      BY <3>2 DEF Fitting, Entry
  <2> QED
    BY <2>1, <2>2
<1>10. Set(bs, b, k, T, v).boards
         = IF taken.ok THEN Store(below, <<c, x>>, Entry(taken.val, lock)) ELSE below
  BY <1>1, <1>3, <1>5, <1>6, <1>8 DEF Set, Answer
<1>11. ASSUME taken.ok PROVE Kept(below, Store(below, <<c, x>>, Entry(taken.val, lock)))
  <2>1. c \in DOMAIN below /\ Ranked(below) /\ Filled(below)
    <3>1. DOMAIN below = DOMAIN bs /\ Ranked(below) /\ Filled(below)
      BY <1>4 DEF Kept
    <3>2. c \in DOMAIN bs
      <4>1. Len(path) \in 1 .. Len(path)
        BY <1>2
      <4> QED
        BY <1>2, <1>5, <4>1
    <3> QED
      BY <3>1, <3>2
  <2>2. PICK entry : entry = Entry(taken.val, lock)
    OBVIOUS
  <2>3. entry.type = lock
    BY <2>2 DEF Entry
  <2>4. x \in DOMAIN below[c].storage => entry.type = below[c].storage[x].type
    BY <1>7, <2>3
  <2>5. Fitting(entry)
    BY <1>9, <1>11, <2>2
  <2>6. Kept(below, Store(below, <<c, x>>, entry))
    BY <2>1, <2>4, <2>5, StoreKeeps
  <2> QED
    BY <2>2, <2>6
<1> QED
  BY <1>4, <1>10, <1>11, KeptTransitive

-----------------------------------------------------------------------------
(* The ports of a node, declared one after the other.                      *)

\* Two types that may share a key: the same, or one of them none.
Agree(t, u) == Untyped \in {t, u} \/ t = u

\* A port is declared when what its key stands for has a type it agrees with.
Settled(bs, b, e, port) ==
  /\ Stored(bs, <<b, KeyOf(e, port)>>)
  /\ Agree(TypeAt(bs, <<b, KeyOf(e, port)>>), Manifest[ID(e)].ports[port].type)

\* A declared port stays declared when the boards grow.
LEMMA SettledStays ==
  ASSUME NEW bs, NEW bt, Grown(bs, bt), NEW b \in DOMAIN bs, NEW e, NEW port,
         Settled(bs, b, e, port)
  PROVE  Settled(bt, b, e, port)
<1>1. PICK key : key = KeyOf(e, port)
  OBVIOUS
<1>2. key \in DOMAIN bs[b].storage
  BY <1>1 DEF Settled, Stored
<1>3. key \in DOMAIN bt[b].storage /\ bt[b].storage[key].type = bs[b].storage[key].type
  BY <1>2 DEF Grown
<1> QED
  BY <1>1, <1>3 DEF Settled, Stored, TypeAt

\* One port: the boards are kept, and without an error it is declared.
LEMMA DeclareKeeps ==
  ASSUME NEW s, Ranked(s.boards), Filled(s.boards), NEW b \in DOMAIN s.boards, NEW e, NEW port,
         NEW a, a = Declare(s, b, e, port)
  PROVE  /\ Kept(s.boards, a.boards) /\ (Chained(s.boards) => Chained(a.boards))
         /\ a.error \in {"none", "LogicError", "RuntimeError", s.error}
         /\ a.error = "none" => s.error = "none" /\ Settled(a.boards, b, e, port)
<1>1. PICK key : key = KeyOf(e, port)
  OBVIOUS
<1>2. PICK info : info = Manifest[ID(e)].ports[port]
  OBVIOUS
<1>3. Kept(s.boards, s.boards)
  BY DEF Kept, Grown, SameWays
<1>4. CASE s.error # "none"
  BY <1>3, <1>4 DEF Declare
<1>5. CASE s.error = "none" /\ ~ Stored(s.boards, <<b, key>>)
  <2>1. a = SetPortInfo(s.boards, b, key, info)
    BY <1>1, <1>2, <1>5 DEF Declare
  <2>2. /\ Kept(s.boards, a.boards) /\ a.error \in {"none", "LogicError"}
        /\ Chained(s.boards) => Chained(a.boards)
        /\ a.error = "none" =>
             Stored(a.boards, <<b, key>>) /\ TypeAt(a.boards, <<b, key>>) = info.type
    BY <1>5, <2>1, SetPortInfoKeeps
  <2> QED
    BY <1>1, <1>2, <1>5, <2>2 DEF Settled, Agree
<1>6. CASE s.error = "none" /\ Stored(s.boards, <<b, key>>)
  <2>1. CASE Agree(TypeAt(s.boards, <<b, key>>), info.type)
    <3>1. a = s
      BY <1>1, <1>2, <1>6, <2>1 DEF Declare, Agree
    <3> QED
      BY <1>1, <1>2, <1>3, <1>6, <2>1, <3>1 DEF Settled
  <2>2. CASE ~ Agree(TypeAt(s.boards, <<b, key>>), info.type)
    <3>1. a = Answer(s.boards, "RuntimeError")
      BY <1>1, <1>2, <1>6, <2>2 DEF Declare, Agree
    <3> QED
      BY <1>3, <3>1 DEF Answer
  <2> QED
    BY <2>1, <2>2
<1> QED
  BY <1>4, <1>5, <1>6

\* The recursion in DeclarePorts() has a solution, as that of Path() has.
Declares(bs, b, e, order, g, m) ==
  \A n \in 0 .. m : g[n] = IF n = 0 THEN Answer(bs, "none") ELSE Declare(g[n - 1], b, e, order[n])

\* Ports can be declared up to any of the order, one after the other.
LEMMA DeclaresUpTo ==
  ASSUME NEW bs, NEW b, NEW e, NEW order, NEW m \in Nat
  PROVE  \E g : Declares(bs, b, e, order, g, m)
<1> DEFINE T == {n \in Nat : ~ \E g : Declares(bs, b, e, order, g, n)}
<1> SUFFICES ASSUME T # {} PROVE FALSE
  OBVIOUS
<1>1. T \in SUBSET Nat
  OBVIOUS
<1>2. PICK l \in T : \A j \in T : l <= j
  <2> HIDE DEF T
  <2> QED
    BY <1>1, LeastNat
<1>3. CASE l = 0
  <2>1. PICK g : g = [n \in Nat |-> Answer(bs, "none")]
    OBVIOUS
  <2>2. Declares(bs, b, e, order, g, 0)
    BY <2>1 DEF Declares
  <2> QED
    BY <1>2, <1>3, <2>2
<1>4. CASE l # 0
  <2>1. l - 1 \in Nat /\ l - 1 \notin T
    BY <1>2, <1>4
  <2>2. PICK g : Declares(bs, b, e, order, g, l - 1)
    BY <2>1
  <2>3. PICK h : h = [n \in Nat |-> IF n = l THEN Declare(g[l - 1], b, e, order[l]) ELSE g[n]]
    OBVIOUS
  <2>4. \A n \in 0 .. l : h[n] = IF n = 0 THEN Answer(bs, "none") ELSE Declare(h[n - 1], b, e, order[n])
    <3> SUFFICES ASSUME NEW n \in 0 .. l
                 PROVE  h[n] = IF n = 0 THEN Answer(bs, "none") ELSE Declare(h[n - 1], b, e, order[n])
      OBVIOUS
    <3>1. l \in Nat
      BY <1>2
    <3>2. CASE n = l
      BY <2>3, <3>1, <3>2, <1>4, <2>1
    <3>3. CASE n # l
      <4>1. n \in 0 .. l - 1
        BY <3>1, <3>3
      <4>2. g[n] = IF n = 0 THEN Answer(bs, "none") ELSE Declare(g[n - 1], b, e, order[n])
        BY <2>2, <4>1 DEF Declares
      <4>3. h[n] = g[n] /\ (n # 0 => h[n - 1] = g[n - 1])
        BY <2>3, <3>1, <3>3, <4>1
      <4> QED
        BY <4>2, <4>3
    <3> QED
      BY <3>2, <3>3
  <2>5. Declares(bs, b, e, order, h, l)
    BY <2>4 DEF Declares
  <2> QED
    BY <1>2, <2>5
<1> QED
  BY <1>3, <1>4

\* Two runs through the order of the ports give the same answers.
LEMMA DeclaresAlike ==
  ASSUME NEW bs, NEW b, NEW e, NEW order, NEW l \in Nat, NEW m \in Nat, l <= m, NEW g, NEW h,
         Declares(bs, b, e, order, g, l), Declares(bs, b, e, order, h, m)
  PROVE  \A n \in 0 .. l : g[n] = h[n]
<1> DEFINE T == {n \in 0 .. l : g[n] # h[n]}
<1> SUFFICES ASSUME T # {} PROVE FALSE
  OBVIOUS
<1>1. T \in SUBSET Nat
  OBVIOUS
<1>2. PICK n \in T : \A j \in T : n <= j
  <2> HIDE DEF T
  <2> QED
    BY <1>1, LeastNat
<1>3. n \in 0 .. l /\ n \in 0 .. m /\ g[n] # h[n]
  BY <1>2
<1>4. CASE n = 0
  BY <1>3, <1>4 DEF Declares
<1>5. CASE n # 0
  <2>1. n - 1 \in 0 .. l /\ n - 1 \notin T
    BY <1>2, <1>3, <1>5
  <2>2. g[n - 1] = h[n - 1]
    BY <2>1
  <2>3. g[n] = Declare(g[n - 1], b, e, order[n]) /\ h[n] = Declare(h[n - 1], b, e, order[n])
    BY <1>3, <1>5 DEF Declares
  <2> QED
    BY <1>3, <2>2, <2>3
<1> QED
  BY <1>4, <1>5

\* The recursion in DeclarePorts().
Solves(bs, b, e, order, D) ==
  D = [n \in Nat |-> IF n = 0 THEN Answer(bs, "none") ELSE Declare(D[n - 1], b, e, order[n])]

\* The recursion in DeclarePorts() has a solution, for any order of the ports.
LEMMA DeclaredSolved ==
  ASSUME NEW bs, NEW b, NEW e, NEW order
  PROVE  \E Declared : Solves(bs, b, e, order, Declared)
<1>2. PICK sol : sol = [m \in Nat |-> CHOOSE g : Declares(bs, b, e, order, g, m)]
  OBVIOUS
<1>3. \A m \in Nat : Declares(bs, b, e, order, sol[m], m)
  BY <1>2, DeclaresUpTo
<1>4. PICK D : D = [n \in Nat |-> sol[n][n]]
  OBVIOUS
<1>5. ASSUME NEW n \in Nat
      PROVE  D[n] = IF n = 0 THEN Answer(bs, "none") ELSE Declare(D[n - 1], b, e, order[n])
  <2>1. CASE n = 0
    <3>1. Declares(bs, b, e, order, sol[n], n) /\ n \in 0 .. n
      BY <1>3
    <3> QED
      BY <1>4, <2>1, <3>1 DEF Declares
  <2>2. CASE n # 0
    <3>1. PICK l \in Nat : l = n - 1 /\ l <= n /\ l \in 0 .. l
      BY <2>2
    <3>2. Declares(bs, b, e, order, sol[n], n) /\ Declares(bs, b, e, order, sol[l], l)
      BY <1>3
    <3>6. l <= n
      BY <3>1
    <3>3. \A i \in 0 .. l : sol[l][i] = sol[n][i]
      BY <3>2, <3>6, DeclaresAlike
    <3>4. sol[n][n] = Declare(sol[n][n - 1], b, e, order[n])
      BY <2>2, <3>2 DEF Declares
    <3>5. D[n] = sol[n][n] /\ D[l] = sol[l][l]
      BY <1>4
    <3> QED
      BY <2>2, <3>1, <3>3, <3>4, <3>5
  <2> QED
    BY <2>1, <2>2
<1>6. D = [n \in Nat |-> IF n = 0 THEN Answer(bs, "none") ELSE Declare(D[n - 1], b, e, order[n])]
  BY <1>4, <1>5
<1> QED
  BY <1>6 DEF Solves

\* All ports of the order, one after the other.
LEMMA DeclarePortsKeeps ==
  ASSUME NEW bs, Ranked(bs), Filled(bs), NEW b \in DOMAIN bs, NEW e, NEW order, Len(order) \in Nat,
         NEW a, a = DeclarePorts(bs, b, e, order)
  PROVE  /\ Kept(bs, a.boards) /\ (Chained(bs) => Chained(a.boards))
         /\ a.error = "none" => \A i \in 1 .. Len(order) : Settled(a.boards, b, e, order[i])
<1> DEFINE D == CHOOSE Declared : Declared =
             [n \in Nat |-> IF n = 0 THEN Answer(bs, "none") ELSE Declare(Declared[n - 1], b, e, order[n])]
<1>1. D = [n \in Nat |-> IF n = 0 THEN Answer(bs, "none") ELSE Declare(D[n - 1], b, e, order[n])]
  <2>1. \E Declared : Solves(bs, b, e, order, Declared)
    BY DeclaredSolved
  <2> QED
    BY <2>1 DEF Solves
<1>2. a = D[Len(order)]
  BY DEF DeclarePorts
<1> HIDE DEF D
<1> DEFINE Good(s, n) ==
      /\ Kept(bs, s.boards) /\ (Chained(bs) => Chained(s.boards))
      /\ s.error = "none" => \A i \in 1 .. n : Settled(s.boards, b, e, order[i])
<1>3. Good(Answer(bs, "none"), 0)
  BY DEF Answer, Kept, Grown, SameWays
<1>4. ASSUME NEW n \in Nat, NEW s, Good(s, n)
      PROVE  Good(Declare(s, b, e, order[n + 1]), n + 1)
  <2>1. PICK t : t = Declare(s, b, e, order[n + 1])
    OBVIOUS
  <2>2. Ranked(s.boards) /\ Filled(s.boards) /\ b \in DOMAIN s.boards /\ DOMAIN s.boards = DOMAIN bs
    BY <1>4 DEF Kept
  <2>3. /\ Kept(s.boards, t.boards) /\ (Chained(s.boards) => Chained(t.boards))
        /\ t.error = "none" => s.error = "none" /\ Settled(t.boards, b, e, order[n + 1])
    BY <2>1, <2>2, DeclareKeeps
  <2>4. Kept(bs, t.boards)
    BY <1>4, <2>3, KeptTransitive
  <2>5. ASSUME t.error = "none", NEW i \in 1 .. n + 1 PROVE Settled(t.boards, b, e, order[i])
    <3>1. CASE i = n + 1
      BY <2>3, <2>5, <3>1
    <3>2. CASE i # n + 1
      <4>1. i \in 1 .. n
        BY <3>2
      <4>2. Settled(s.boards, b, e, order[i])
        BY <1>4, <2>3, <2>5, <4>1
      <4> QED
        BY <2>2, <2>3, <4>2, SettledStays DEF Kept
    <3> QED
      BY <3>1, <3>2
  <2> QED
    BY <1>4, <2>1, <2>3, <2>4, <2>5
<1> HIDE DEF Good
<1>5. ASSUME NEW n \in Nat PROVE Good(D[n], n)
  <2> DEFINE T == {m \in Nat : ~ Good(D[m], m)}
  <2> SUFFICES ASSUME T # {} PROVE FALSE
    OBVIOUS
  <2>1. T \in SUBSET Nat
    OBVIOUS
  <2>2. PICK l \in T : \A j \in T : l <= j
    <3> HIDE DEF T
    <3> QED
      BY <2>1, LeastNat
  <2>3. l # 0
    BY <1>1, <1>3, <2>2
  <2>4. PICK j \in Nat : l = j + 1 /\ j \notin T /\ ~ Good(D[l], l)
    <3>1. l \in Nat /\ l - 1 \in Nat /\ l = (l - 1) + 1 /\ l - 1 \notin T
      BY <2>2, <2>3
    <3> QED
      BY <2>2, <3>1
  <2>5. Good(D[j], j)
    BY <2>4
  <2>6. D[j + 1] = Declare(D[j], b, e, order[j + 1])
    BY <1>1
  <2>7. Good(Declare(D[j], b, e, order[j + 1]), j + 1)
    BY <1>4, <2>5
  <2> QED
    BY <2>4, <2>6, <2>7
<1>6. Good(a, Len(order))
  BY <1>2, <1>5
<1> QED
  BY <1>6 DEF Good

\* An order of the ports that point to a key is one of all of them.
LEMMA OrderComplete ==
  ASSUME NEW e \in Element, NEW order \in SetToSeqs(PointerPorts(e))
  PROVE  /\ Len(order) \in Nat
         /\ \A port \in PointerPorts(e) : \E i \in 1 .. Len(order) : order[i] = port
<1> DEFINE S == PointerPorts(e)
<1>1. DOMAIN Params(e) \in SUBSET DOMAIN Attr[e]
  BY DEF Params, Restrict
<1>2. S \in SUBSET DOMAIN Attr[e]
  BY <1>1 DEF PointerPorts
<1>3. IsFiniteSet(S)
  BY <1>2, DocumentsAssumption, FS_Subset
<1>4. PICK n \in Nat : n = Cardinality(S)
  BY <1>3, FS_CardinalityType
<1>5. order \in [1 .. n -> S] /\ \A i, j \in 1 .. n : i # j => order[i] # order[j]
  BY <1>4 DEF SetToSeqs
<1>6. order \in Injection(1 .. n, S)
  BY <1>5 DEF Injection, IsInjective
<1>7. Cardinality(1 .. n) = n
  BY FS_Interval
<1>8. order \in Surjection(1 .. n, S)
  BY <1>3, <1>4, <1>6, <1>7, FS_Injection
<1>9. \A port \in S : \E i \in 1 .. n : order[i] = port
  BY <1>8 DEF Surjection
<1>10. Len(order) = n
  BY <1>5
<1> QED
  BY <1>9, <1>10

-----------------------------------------------------------------------------
(* What a key stands for, on boards that are chained, and later on.        *)

\* While the boards are chained, a type that agrees with the entry of a key agrees
\* with that of the place the key stands for.
LEMMA CellSettled ==
  ASSUME NEW bs, Ranked(bs), Chained(bs), NEW b \in DOMAIN bs, NEW k, NEW t,
         Stored(bs, <<b, k>>), Agree(TypeAt(bs, <<b, k>>), t)
  PROVE  Stored(bs, Cell(bs, b, k)) /\ Agree(TypeAt(bs, Cell(bs, b, k)), t)
<1>1. PICK path : path = Path(bs, b, k)
  OBVIOUS
<1>2. /\ Len(path) \in Nat /\ Len(path) # 0
      /\ \A i \in 1 .. Len(path) : path[i] = <<path[i][1], path[i][2]>> /\ path[i][1] \in DOMAIN bs
      /\ path[1] = <<b, k>> /\ Last(path) = path[Len(path)]
      /\ \A i \in 1 .. Len(path) - 1 : Remapped(bs, path[i]) /\ path[i + 1] = Above(bs, path[i])
  BY <1>1, PathPlaces, PathWay DEF Way
<1>3. PICK u : u = TypeAt(bs, <<b, k>>)
  OBVIOUS
<1>4. ASSUME NEW i \in Nat, i \in 1 .. Len(path)
      PROVE  Stored(bs, path[i]) /\ TypeAt(bs, path[i]) \in {Untyped, u}
  <2> DEFINE T == {j \in Nat : j \in 1 .. Len(path)
                                /\ ~ (Stored(bs, path[j]) /\ TypeAt(bs, path[j]) \in {Untyped, u})}
  <2> SUFFICES ASSUME T # {} PROVE FALSE
    BY <1>4
  <2>1. T \in SUBSET Nat
    OBVIOUS
  <2>2. PICK l \in T : \A j \in T : l <= j
    <3> HIDE DEF T
    <3> QED
      BY <2>1, LeastNat
  <2>3. l \in 1 .. Len(path) /\ ~ (Stored(bs, path[l]) /\ TypeAt(bs, path[l]) \in {Untyped, u})
    BY <2>2
  <2>4. l # 1
    BY <1>2, <1>3, <2>3
  <2>5. PICK j \in 1 .. Len(path) - 1 : l = j + 1 /\ j \notin T /\ j \in Nat /\ j \in 1 .. Len(path)
    <3>1. l - 1 \in 1 .. Len(path) - 1 /\ l = (l - 1) + 1 /\ l - 1 \notin T /\ l - 1 \in Nat
          /\ l - 1 \in 1 .. Len(path)
      <4>1. Len(path) \in Nat
        BY <1>2
      <4> QED
        BY <2>2, <2>3, <2>4, <4>1
    <3> QED
      BY <3>1
  <2>6. Stored(bs, path[j]) /\ TypeAt(bs, path[j]) \in {Untyped, u}
    BY <2>5
  <2>7. PICK p : p = path[j] /\ p = <<p[1], p[2]>> /\ p[1] \in DOMAIN bs /\ Remapped(bs, p)
                 /\ path[l] = Above(bs, p)
    BY <1>2, <2>5
  <2>8. p[2] \in DOMAIN bs[p[1]].storage
    BY <2>6, <2>7 DEF Stored
  <2>9. Stored(bs, Above(bs, p)) /\ TypeAt(bs, Above(bs, p)) \in {Untyped, TypeAt(bs, p)}
    BY <2>7, <2>8 DEF Chained
  <2> QED
    BY <2>3, <2>6, <2>7, <2>9
<1>5. Stored(bs, Last(path)) /\ TypeAt(bs, Last(path)) \in {Untyped, u}
  BY <1>2, <1>4
<1> QED
  BY <1>1, <1>3, <1>5 DEF Cell, Agree

\* A key stands for the same place, of the same type, when the boards grow.
LEMMA CellStays ==
  ASSUME NEW bs, NEW bt, Ranked(bs), Ranked(bt), Grown(bs, bt), NEW b \in DOMAIN bs, NEW k,
         Stored(bs, Cell(bs, b, k))
  PROVE  /\ Cell(bt, b, k) = Cell(bs, b, k) /\ Stored(bt, Cell(bt, b, k))
         /\ TypeAt(bt, Cell(bt, b, k)) = TypeAt(bs, Cell(bs, b, k))
<1>1. Cell(bt, b, k) = Cell(bs, b, k)
  BY PathStays DEF Cell, Grown
<1>2. PICK c : c = Cell(bs, b, k)
  OBVIOUS
<1>3. c[1] \in DOMAIN bs
  BY <1>2, PathPlaces DEF Cell
<1>4. c[2] \in DOMAIN bs[c[1]].storage
  BY <1>2 DEF Stored
<1>5. c[2] \in DOMAIN bt[c[1]].storage /\ bt[c[1]].storage[c[2]].type = bs[c[1]].storage[c[2]].type
  BY <1>3, <1>4 DEF Grown
<1> QED
  BY <1>1, <1>2, <1>5 DEF Stored, TypeAt

\* What is on the board for a key is a sane value, or nothing.
LEMMA GetAnySane ==
  ASSUME NEW bs, Ranked(bs), Filled(bs), NEW b \in DOMAIN bs, NEW k
  PROVE  /\ Sane(GetAny(bs, b, k))
         /\ GetAny(bs, b, k).held \in {"int64", "uint64", "double", "string", "none"}
<1>1. PICK c : c = Cell(bs, b, k)
  OBVIOUS
<1>2. c[1] \in DOMAIN bs
  BY <1>1, PathPlaces DEF Cell
<1>3. CASE Stored(bs, c)
  BY <1>1, <1>2, <1>3 DEF GetAny, Stored, Filled, Fitting
<1>4. CASE ~ Stored(bs, c)
  BY <1>1, <1>4 DEF GetAny, EmptyAny, Sane
<1> QED
  BY <1>3, <1>4

\* The board of a subtree is one more, below that of its node.
LEMMA BoardForKeeps ==
  ASSUME NEW bs, Ranked(bs), Filled(bs), NEW b \in DOMAIN bs, NEW node,
         NEW r, r = BoardFor(bs, node, b)
  PROVE  /\ Ranked(r.all) /\ Filled(r.all) /\ Grown(bs, r.all) /\ r.own \in DOMAIN r.all
         /\ Chained(bs) => Chained(r.all)
<1>1. DOMAIN bs = 1 .. Len(bs) /\ Len(bs) \in Nat /\ bs \in Seq(Range(bs))
  BY DEF Ranked
<1>2. CASE node.type # "SUBTREE" \/ node.name # "SubTree"
  BY <1>2 DEF BoardFor, Grown, SameWays
<1>3. CASE ~ (node.type # "SUBTREE" \/ node.name # "SubTree")
  <2>1. PICK new : new = AddSubtreeRemapping(NewBoard(b),
                          [a \in DOMAIN Attr[node.element] |-> External(node.element, a)])
    OBVIOUS
  <2>2. r.all = Append(bs, new) /\ r.own = Len(bs) + 1
    BY <1>3, <2>1 DEF BoardFor
  <2>3. new.storage = <<>> /\ new.parent = b
    BY <2>1 DEF AddSubtreeRemapping, NewBoard
  <2>4. PICK bt : bt = Append(bs, new)
    OBVIOUS
  <2>5. /\ bs \in Seq(Range(bs) \cup {new}) /\ DOMAIN bt = 1 .. Len(bs) + 1 /\ Len(bt) = Len(bs) + 1
        /\ bt[Len(bs) + 1] = new /\ \A c \in 1 .. Len(bs) : bt[c] = bs[c]
    BY <1>1, <2>4
  <2>6. \A c \in DOMAIN bt : bt[c] \in Range(bt)
    BY DEF Range
  <2>7. bt \in Seq(Range(bt)) /\ bt # <<>>
    BY <1>1, <2>4, <2>5, <2>6
  <2>8. ASSUME NEW c \in DOMAIN bt PROVE bt[c].parent \in 0 .. c - 1
    <3>1. CASE c = Len(bs) + 1
      BY <1>1, <2>3, <2>5, <3>1
    <3>2. CASE c # Len(bs) + 1
      BY <1>1, <2>5, <3>2 DEF Ranked
    <3> QED
      BY <3>1, <3>2
  <2>9. Ranked(bt)
    BY <2>7, <2>8 DEF Ranked
  <2>10. ASSUME NEW c \in DOMAIN bt, NEW x \in DOMAIN bt[c].storage
         PROVE  c \in DOMAIN bs /\ bt[c] = bs[c] /\ x \in DOMAIN bs[c].storage
    BY <1>1, <2>3, <2>5, <2>10
  <2>11. Filled(bt)
    BY <2>10 DEF Filled
  <2>12. Grown(bs, bt)
    BY <1>1, <2>5 DEF Grown, SameWays
  <2>13. ASSUME Chained(bs) PROVE Chained(bt)
    <3> SUFFICES ASSUME NEW c \in DOMAIN bt, NEW x \in DOMAIN bt[c].storage, Remapped(bt, <<c, x>>)
                 PROVE  /\ Stored(bt, Above(bt, <<c, x>>))
                        /\ TypeAt(bt, Above(bt, <<c, x>>)) \in {Untyped, TypeAt(bt, <<c, x>>)}
      BY DEF Chained
    <3>1. c \in DOMAIN bs /\ bt[c] = bs[c] /\ x \in DOMAIN bs[c].storage
      BY <2>10
    <3>2. PICK p : p = <<c, x>> /\ p[1] = c /\ p[2] = x
      OBVIOUS
    <3>3. Remapped(bs, p) /\ Above(bt, p) = Above(bs, p) /\ TypeAt(bt, p) = TypeAt(bs, p)
      BY <3>1, <3>2 DEF Remapped, Above, TypeAt
    <3>4. PICK q : q = Above(bs, p)
      OBVIOUS
    <3>5. Stored(bs, q) /\ TypeAt(bs, q) \in {Untyped, TypeAt(bs, p)}
      BY <2>13, <3>1, <3>2, <3>3, <3>4 DEF Chained
    <3>6. q[1] \in DOMAIN bs
      <4>1. p \in Places(bs, x)
        BY <3>1, <3>2 DEF Places, Names
      <4>2. q \in Places(bs, x)
        BY <3>3, <3>4, <4>1, AboveIs
      <4> QED
        BY <4>2 DEF Places
    <3>7. bt[q[1]] = bs[q[1]]
      BY <1>1, <2>5, <3>6
    <3> QED
      BY <3>2, <3>3, <3>4, <3>5, <3>7 DEF Stored, TypeAt
  <2>14. r.own \in DOMAIN bt
    BY <1>1, <2>2, <2>5
  <2> QED
    BY <2>2, <2>4, <2>9, <2>11, <2>12, <2>13, <2>14
<1> QED
  BY <1>2, <1>3

\* Without the tree only the root board is left.
LEMMA RootKept ==
  ASSUME NEW bs, Ranked(bs), Filled(bs)
  PROVE  /\ Ranked(SubSeq(bs, 1, 1)) /\ Filled(SubSeq(bs, 1, 1)) /\ Len(SubSeq(bs, 1, 1)) = 1
         /\ Chained(SubSeq(bs, 1, 1))
<1>1. DOMAIN bs = 1 .. Len(bs) /\ Len(bs) \in Nat /\ Len(bs) # 0 /\ bs \in Seq(Range(bs))
  BY DEF Ranked
<1>2. PICK bt : bt = SubSeq(bs, 1, 1)
  OBVIOUS
<1>3. Len(bt) = 1 /\ DOMAIN bt = {1} /\ bt[1] = bs[1] /\ bt \in Seq(Range(bs))
  BY <1>1, <1>2
<1>4. bt \in Seq(Range(bt)) /\ bt # <<>>
  <2>1. \A i \in DOMAIN bt : bt[i] \in Range(bt)
    BY DEF Range
  <2>4. PICK n \in Nat : bt \in [1 .. n -> Range(bs)]
    BY <1>3, SeqDef
  <2>5. bt \in [1 .. n -> Range(bt)]
    BY <2>1, <2>4
  <2>3. bt \in Seq(Range(bt))
    BY <2>5, SeqDef
  <2> QED
    BY <1>3, <2>3
<1>5. bt[1].parent = 0
  BY <1>1, <1>3 DEF Ranked
<1>6. Ranked(bt)
  BY <1>3, <1>4, <1>5 DEF Ranked
<1>7. Filled(bt)
  BY <1>1, <1>3 DEF Filled
<1>8. Chained(bt)
  BY <1>3, <1>5 DEF Chained, Remapped, NoBoard
<1> QED
  BY <1>2, <1>3, <1>6, <1>7, <1>8

-----------------------------------------------------------------------------
(* Building: what is still to be visited, and what the nodes have for it.   *)

InsideAt(roots, node) ==
  IF node.type = "SUBTREE" THEN <<Head(Kids[roots[node.name]])>> ELSE Kids[node.element]
Reached(roots) == {e \in Element : \E t \in Range(roots) : e \in Under[Head(Kids[t])]}
Visits(td, roots, n, bs) == td \in Seq([element : Reached(roots), parent : 0 .. n, board : DOMAIN bs])

Controlled == Controls \cup Wrappers
Shaped(node) ==
  node = [name |-> node.name, element |-> node.element, board |-> node.board, kids |-> node.kids,
          type |-> node.type, in |-> node.in, out |-> node.out]

\* The elements inside a node that it has no child for yet are the next but s to
\* be visited, one after the other, and nothing else is visited for the node.
Missing(roots, node) == Len(InsideAt(roots, node)) - Len(node.kids)
Waits(roots, ns, td, n, s) ==
  /\ s + Missing(roots, ns[n]) <= Len(td)
  /\ \A i \in DOMAIN td : td[i].parent = n <=> i \in s + 1 .. s + Missing(roots, ns[n])
  /\ \A j \in 1 .. Missing(roots, ns[n]) :
       td[s + j].element = InsideAt(roots, ns[n])[Len(ns[n].kids) + j]
Fills(roots, ns, td, n) ==
  /\ ns[n].kids \in Seq(Int) /\ \A i \in DOMAIN ns[n].kids : ns[n].kids[i] \in n + 1 .. Len(ns)
  /\ InsideAt(roots, ns[n]) \in Seq(Element)
  /\ ns[n].name \in Controlled =>
       /\ Missing(roots, ns[n]) >= 0
       /\ \A i \in DOMAIN ns[n].kids : ns[ns[n].kids[i]].element = InsideAt(roots, ns[n])[i]
       /\ \E s \in 0 .. Len(td) : Waits(roots, ns, td, n, s)
  /\ ns[n].name \notin Controlled => ns[n].kids = <<>>
Filling(roots, ns, td) ==
  /\ ns \in Seq(Range(ns)) /\ \A n \in DOMAIN ns : Shaped(ns[n]) /\ Fills(roots, ns, td, n)

\* A function on 1 .. m is a sequence of what it gives.
LEMMA SeqIs ==
  ASSUME NEW m \in Nat, NEW f, f = [n \in 1 .. m |-> f[n]]
  PROVE  f \in Seq(Range(f)) /\ Len(f) = m /\ DOMAIN f = 1 .. m
<1>1. DOMAIN f = 1 .. m
  OBVIOUS
<1>2. \A n \in 1 .. m : f[n] \in Range(f)
  BY <1>1 DEF Range
<1>3. f \in [1 .. m -> Range(f)]
  BY <1>2
<1>4. f \in Seq(Range(f))
  BY <1>3, SeqDef
<1> QED
  BY <1>1, <1>3, <1>4, LenProperties

\* The last of a sequence, and what is in front of it.
LEMMA LastFront ==
  ASSUME NEW S, NEW s \in Seq(S), s # <<>>
  PROVE  Last(s) \in S /\ Front(s) \in Seq(S) /\ Len(Front(s)) = Len(s) - 1
<1>1. PICK n \in Nat : n = Len(s) /\ n # 0 /\ DOMAIN s = 1 .. n /\ \A i \in 1 .. n : s[i] \in S
  <2>1. Len(s) \in Nat /\ Len(s) # 0 /\ DOMAIN s = 1 .. Len(s)
    OBVIOUS
  <2> QED
    BY <2>1, ElementOfSeq
<1>2. s[n] \in S
  BY <1>1
<1>3. \A i \in 1 .. n - 1 : s[i] \in S
  BY <1>1
<1>4. n - 1 \in Int /\ 1 \in Int
  BY <1>1
<1>5. SubSeq(s, 1, n - 1) \in Seq(S) /\ Len(SubSeq(s, 1, n - 1)) = IF 1 <= n - 1 THEN n - 1 - 1 + 1 ELSE 0
  BY <1>3, <1>4, SubSeqProperties
<1> QED
  BY <1>1, <1>2, <1>5 DEF Last, Front

\* The node of the first visit: what it changes of the others.
LEMMA AttachGives ==
  ASSUME NEW ns, ns \in Seq(Range(ns)), \A n \in DOMAIN ns : Shaped(ns[n]), NEW node,
         NEW parent \in 0 .. Len(ns), NEW nt, nt = Attach(Append(ns, node), parent, Len(ns) + 1)
  PROVE  /\ nt \in Seq(Range(nt)) /\ Len(nt) = Len(ns) + 1 /\ DOMAIN nt = 1 .. Len(ns) + 1
         /\ DOMAIN ns = 1 .. Len(ns) /\ Len(ns) \in Nat
         /\ nt[Len(ns) + 1] = node
         /\ \A n \in 1 .. Len(ns) :
              /\ nt[n].name = ns[n].name /\ nt[n].type = ns[n].type /\ nt[n].element = ns[n].element
              /\ nt[n].board = ns[n].board /\ nt[n].in = ns[n].in /\ nt[n].out = ns[n].out
              /\ Shaped(nt[n])
              /\ nt[n].kids = IF n = parent /\ ns[n].name \in Controlled
                              THEN Append(ns[n].kids, Len(ns) + 1) ELSE ns[n].kids
<1>1. DOMAIN ns = 1 .. Len(ns) /\ Len(ns) \in Nat
  OBVIOUS
<1>2. PICK np : np = Append(ns, node)
  OBVIOUS
<1>3. PICK m \in Nat : m = Len(ns)
  BY <1>1
<1>4. /\ Len(np) = m + 1 /\ DOMAIN np = 1 .. m + 1 /\ np[m + 1] = node
      /\ \A n \in 1 .. m : np[n] = ns[n]
      /\ np = [n \in 1 .. m + 1 |-> np[n]]
  <2>1. ns \in Seq(Range(ns) \cup {node})
    BY SeqMonotonic
  <2>2. node \in Range(ns) \cup {node}
    OBVIOUS
  <2>3. /\ np \in Seq(Range(ns) \cup {node}) /\ Len(np) = Len(ns) + 1
        /\ \A n \in 1 .. Len(ns) : np[n] = ns[n] /\ np[Len(ns) + 1] = node
        /\ np[Len(ns) + 1] = node
    BY <1>2, <2>1, <2>2, AppendProperties
  <2> QED
    BY <1>3, <2>3, LenProperties
<1>5. CASE parent # 0 /\ np[parent].name \in Controlled
  <2>1. nt = [np EXCEPT ![parent].kids = Append(@, m + 1)]
    BY <1>2, <1>3, <1>5 DEF Attach, Controlled
  <2>2. parent \in 1 .. m
    BY <1>3, <1>5
  <2>3. DOMAIN nt = 1 .. m + 1 /\ nt = [n \in 1 .. m + 1 |-> nt[n]]
    BY <1>4, <2>1
  <2>4. \A n \in 1 .. m + 1 : n # parent => nt[n] = np[n]
    BY <1>4, <2>1
  <2>5. nt[parent] = [ns[parent] EXCEPT !.kids = Append(ns[parent].kids, m + 1)]
    <3>1. nt[parent] = [np[parent] EXCEPT !.kids = Append(np[parent].kids, m + 1)]
      <4>1. parent \in DOMAIN np
        BY <1>4, <2>2
      <4> QED
        BY <2>1, <4>1
    <3>2. np[parent] = ns[parent]
      BY <1>4, <2>2
    <3> QED
      BY <3>1, <3>2
  <2>6. PICK r : r = ns[parent] /\ Shaped(r)
    BY <1>1, <1>3, <2>2
  <2>7. nt[parent] = [name |-> r.name, element |-> r.element, board |-> r.board,
                      kids |-> Append(r.kids, m + 1), type |-> r.type, in |-> r.in, out |-> r.out]
    BY <2>5, <2>6 DEF Shaped
  <2>8. /\ nt[parent].name = r.name /\ nt[parent].type = r.type /\ nt[parent].element = r.element
        /\ nt[parent].board = r.board /\ nt[parent].in = r.in /\ nt[parent].out = r.out
        /\ nt[parent].kids = Append(r.kids, m + 1) /\ Shaped(nt[parent])
    BY <2>7 DEF Shaped
  <2>9. Len(nt) = m + 1 /\ nt \in Seq(Range(nt))
    <3>1. m + 1 \in Nat
      OBVIOUS
    <3> QED
      BY <2>3, <3>1, SeqIs
  <2>10. nt[m + 1] = node
    BY <1>4, <2>2, <2>4
  <2>11. np[parent].name = ns[parent].name
    BY <1>4, <2>2
  <2>12. ASSUME NEW n \in 1 .. m
         PROVE  /\ nt[n].name = ns[n].name /\ nt[n].type = ns[n].type /\ nt[n].element = ns[n].element
                /\ nt[n].board = ns[n].board /\ nt[n].in = ns[n].in /\ nt[n].out = ns[n].out
                /\ Shaped(nt[n])
                /\ nt[n].kids = IF n = parent /\ ns[n].name \in Controlled
                                THEN Append(ns[n].kids, m + 1) ELSE ns[n].kids
    <3>1. CASE n = parent
      BY <1>5, <2>6, <2>8, <2>11, <3>1
    <3>2. CASE n # parent
      <4>1. nt[n] = ns[n]
        <5>1. n \in 1 .. m + 1
          OBVIOUS
        <5>2. nt[n] = np[n]
          BY <2>4, <3>2, <5>1
        <5> QED
          BY <1>4, <5>2
      <4> QED
        BY <1>1, <1>3, <3>2, <4>1
    <3> QED
      BY <3>1, <3>2
  <2> QED
    BY <1>1, <1>3, <2>3, <2>9, <2>10, <2>12
<1>6. CASE ~ (parent # 0 /\ np[parent].name \in Controlled)
  <2>1. nt = np
    BY <1>2, <1>3, <1>6 DEF Attach, Controlled
  <2>2. nt \in Seq(Range(nt))
    <3>1. m + 1 \in Nat
      OBVIOUS
    <3> QED
      BY <1>4, <2>1, <3>1, SeqIs
  <2>3. ASSUME NEW n \in 1 .. m PROVE ~ (n = parent /\ ns[n].name \in Controlled)
    <3>1. np[n] = ns[n]
      BY <1>4
    <3>2. n # 0
      OBVIOUS
    <3> QED
      BY <1>6, <3>1, <3>2
  <2> QED
    BY <1>1, <1>3, <1>4, <2>1, <2>2, <2>3
<1> QED
  BY <1>5, <1>6

\* The elements of the node come first, then what was left.
Then(new, td) == new \o Tail(td)

\* How many visits there are once a node has put its own in front.
LEMMA NextVisits ==
  ASSUME NEW S, NEW td \in Seq(S), td # <<>>, NEW V, NEW new \in Seq(V)
  PROVE  /\ Len(Then(new, td)) = Len(new) + Len(td) - 1 /\ Len(Then(new, td)) \in Nat
         /\ Then(new, td) \in Seq(V \cup S) /\ DOMAIN Then(new, td) = 1 .. Len(Then(new, td))
<1>1. Tail(td) \in Seq(S) /\ Len(Tail(td)) = Len(td) - 1 /\ Len(td) \in Nat /\ Len(td) > 0
  <2>1. Len(td) \in Nat /\ Len(td) > 0
    OBVIOUS
  <2> QED
    BY <2>1, HeadTailProperties
<1>2. Tail(td) \in Seq(V \cup S) /\ new \in Seq(V \cup S)
  BY <1>1, SeqMonotonic
<1>3. Then(new, td) \in Seq(V \cup S) /\ Len(Then(new, td)) = Len(new) + Len(Tail(td))
  BY <1>2, ConcatProperties DEF Then
<1>4. Len(new) \in Nat
  OBVIOUS
<1> QED
  BY <1>1, <1>3, <1>4

\* Which visits those are: the new ones first, then those that waited.
LEMMA VisitsAre ==
  ASSUME NEW S, NEW td \in Seq(S), td # <<>>, NEW V, NEW new \in Seq(V)
  PROVE  /\ \A i \in 1 .. Len(new) : Then(new, td)[i] = new[i]
         /\ \A i \in Len(new) + 1 .. Len(Then(new, td)) :
              Then(new, td)[i] = td[i - Len(new) + 1]
<1>0. PICK tt : tt = Then(new, td)
  OBVIOUS
<1>1. PICK rest : rest = Tail(td)
  OBVIOUS
<1>2. PICK l \in Nat : l = Len(new)
  OBVIOUS
<1>3. /\ rest \in Seq(S) /\ Len(rest) = Len(td) - 1 /\ Len(td) \in Nat /\ Len(td) > 0
      /\ \A i \in 1 .. Len(rest) : rest[i] = td[i + 1]
  <2>1. Len(td) \in Nat /\ Len(td) > 0
    OBVIOUS
  <2> QED
    BY <1>1, <2>1, HeadTailProperties
<1>4. rest \in Seq(V \cup S) /\ new \in Seq(V \cup S)
  BY <1>3, SeqMonotonic
<1>5. /\ tt \in Seq(V \cup S) /\ Len(tt) = l + Len(rest)
      /\ \A i \in 1 .. l + Len(rest) : tt[i] = IF i <= l THEN new[i] ELSE rest[i - l]
  BY <1>0, <1>1, <1>2, <1>4, ConcatProperties DEF Then
<1>6. ASSUME NEW i \in l + 1 .. Len(tt) PROVE tt[i] = td[i - l + 1]
  <2>1. i \in 1 .. l + Len(rest) /\ ~ (i <= l) /\ i - l \in 1 .. Len(rest) /\ (i - l) + 1 = i - l + 1
    BY <1>3, <1>5
  <2> QED
    BY <1>3, <1>5, <2>1
<1>7. ASSUME NEW i \in 1 .. l PROVE tt[i] = new[i]
  <2>1. i \in 1 .. l + Len(rest) /\ i <= l
    BY <1>3
  <2> QED
    BY <1>5, <2>1
<1> QED
  BY <1>0, <1>2, <1>6, <1>7

\* What BuildNode does of it: a node for the first visit, whose element has others in it.
Builds(roots, ns, td, node, ins, own, nt, tt) ==
  /\ td # <<>> /\ Shaped(node) /\ node.kids = <<>> /\ node.element = Head(td).element
  /\ ins = InsideAt(roots, node) /\ ins \in Seq(Element)
  /\ nt = Attach(Append(ns, node), Head(td).parent, Len(ns) + 1)
  /\ tt = [i \in DOMAIN ins |-> Visit(ins[i], Len(ns) + 1, own)] \o Tail(td)

\* Every node still has for children the first of the elements in it, and the
\* others are the next to be visited.
LEMMA BuildFills ==
  ASSUME NEW roots, NEW ns, NEW td, Filling(roots, ns, td), NEW bs, Visits(td, roots, Len(ns), bs),
         NEW node, NEW ins, NEW own, NEW nt, NEW tt, Builds(roots, ns, td, node, ins, own, nt, tt)
  PROVE  Filling(roots, nt, tt)
<1>1. PICK S : S = [element : Reached(roots), parent : 0 .. Len(ns), board : DOMAIN bs]
  OBVIOUS
<1>20. td \in Seq(S) /\ td # <<>>
  BY <1>1 DEF Visits, Builds
<1>7. PICK d \in Nat : d = Len(td) /\ d > 0 /\ DOMAIN td = 1 .. d
  BY <1>20
<1>2. PICK w : w = td[1] /\ Head(td) = w /\ w \in S
  <2>1. Head(td) = td[1]
    BY <1>20
  <2>2. 1 \in 1 .. Len(td)
    BY <1>7
  <2> QED
    BY <1>20, <2>1, <2>2, ElementOfSeq
<1>3. PICK parent \in 0 .. Len(ns) : parent = w.parent
  BY <1>1, <1>2
<1>21. /\ Shaped(node) /\ node.kids = <<>> /\ node.element = w.element
       /\ ins = InsideAt(roots, node) /\ ins \in Seq(Element)
  BY <1>2 DEF Builds
<1>4. PICK m \in Nat : m = Len(ns)
  BY DEF Filling
<1>5. PICK id : id = m + 1
  OBVIOUS
<1>6. PICK l \in Nat : l = Len(ins)
  BY <1>21
<1>8. /\ Len(tt) = l + d - 1 /\ DOMAIN tt = 1 .. Len(tt) /\ Len(tt) \in Nat
      /\ \A i \in 1 .. l : tt[i] = Visit(ins[i], id, own)
      /\ \A i \in l + 1 .. Len(tt) : tt[i] = td[i - l + 1]
  <2>1. PICK new : new = [i \in DOMAIN ins |-> Visit(ins[i], id, own)]
    OBVIOUS
  <2>2. tt = Then(new, td)
    BY <1>4, <1>5, <2>1 DEF Builds, Then
  <2>3. DOMAIN ins = 1 .. l
    BY <1>6, <1>21
  <2>4. new \in Seq(Range(new)) /\ Len(new) = l
    <3>1. new = [i \in 1 .. l |-> new[i]]
      BY <2>1, <2>3
    <3> QED
      BY <3>1, SeqIs
  <2>5. /\ Len(tt) = Len(new) + Len(td) - 1 /\ DOMAIN tt = 1 .. Len(tt) /\ Len(tt) \in Nat
        /\ \A i \in 1 .. Len(new) : tt[i] = new[i]
        /\ \A i \in Len(new) + 1 .. Len(tt) : tt[i] = td[i - Len(new) + 1]
    <3>1. PICK V : V = Range(new)
      OBVIOUS
    <3>2. new \in Seq(V)
      BY <2>4, <3>1
    <3>3. /\ Len(Then(new, td)) = Len(new) + Len(td) - 1 /\ Len(Then(new, td)) \in Nat
          /\ DOMAIN Then(new, td) = 1 .. Len(Then(new, td))
          /\ \A i \in 1 .. Len(new) : Then(new, td)[i] = new[i]
          /\ \A i \in Len(new) + 1 .. Len(Then(new, td)) :
               Then(new, td)[i] = td[i - Len(new) + 1]
      <4>1. /\ \A i \in 1 .. Len(new) : Then(new, td)[i] = new[i]
            /\ \A i \in Len(new) + 1 .. Len(Then(new, td)) :
                 Then(new, td)[i] = td[i - Len(new) + 1]
        BY <1>20, <3>2, VisitsAre
      <4> QED
        BY <1>20, <3>2, <4>1, NextVisits
    <3> QED
      BY <2>2, <3>3
  <2>6. \A i \in 1 .. l : new[i] = Visit(ins[i], id, own)
    BY <2>1, <2>3
  <2> QED
    BY <1>7, <2>4, <2>5, <2>6
<1>22. ASSUME NEW i \in 1 .. l PROVE tt[i].parent = id /\ tt[i].element = ins[i]
  <2>1. tt[i] = Visit(ins[i], id, own)
    BY <1>8
  <2> QED
    BY <2>1 DEF Visit
<1>9. /\ nt \in Seq(Range(nt)) /\ Len(nt) = id /\ DOMAIN nt = 1 .. id /\ DOMAIN ns = 1 .. m
      /\ nt[id] = node
      /\ \A n \in 1 .. m :
           /\ nt[n].name = ns[n].name /\ nt[n].type = ns[n].type /\ nt[n].element = ns[n].element
           /\ Shaped(nt[n])
           /\ nt[n].kids = IF n = parent /\ ns[n].name \in Controlled
                           THEN Append(ns[n].kids, id) ELSE ns[n].kids
  <2>1. nt = Attach(Append(ns, node), parent, Len(ns) + 1)
    BY <1>2, <1>3 DEF Builds
  <2>2. ns \in Seq(Range(ns)) /\ \A n \in DOMAIN ns : Shaped(ns[n])
    BY DEF Filling
  <2>3. /\ nt \in Seq(Range(nt)) /\ Len(nt) = Len(ns) + 1 /\ DOMAIN nt = 1 .. Len(ns) + 1
        /\ DOMAIN ns = 1 .. Len(ns)
        /\ nt[Len(ns) + 1] = node
        /\ \A n \in 1 .. Len(ns) :
             /\ nt[n].name = ns[n].name /\ nt[n].type = ns[n].type /\ nt[n].element = ns[n].element
             /\ Shaped(nt[n])
             /\ nt[n].kids = IF n = parent /\ ns[n].name \in Controlled
                             THEN Append(ns[n].kids, Len(ns) + 1) ELSE ns[n].kids
    BY <2>1, <2>2, AttachGives
  <2> QED
    BY <1>4, <1>5, <2>3
<1>10. ASSUME NEW n \in 1 .. m PROVE InsideAt(roots, nt[n]) = InsideAt(roots, ns[n])
  BY <1>9 DEF InsideAt
<1>11. \A i \in DOMAIN td : td[i].parent \in 0 .. m
  <2> TAKE i \in DOMAIN td
  <2>1. td[i] \in S
    BY <1>7, <1>20, ElementOfSeq
  <2> QED
    BY <1>1, <1>4, <2>1
<1>12. ASSUME NEW n \in DOMAIN nt PROVE Shaped(nt[n]) /\ Fills(roots, nt, tt, n)
  <2>1. CASE n = id
    <3>1. nt[n] = node /\ InsideAt(roots, nt[n]) = ins /\ nt[n].kids = <<>> /\ Missing(roots, nt[n]) = l
      BY <1>6, <1>9, <1>21, <2>1 DEF Missing
    <3>2. ASSUME NEW i \in DOMAIN tt PROVE tt[i].parent = n <=> i \in 0 + 1 .. 0 + l
      <4>1. CASE i \in 1 .. l
        BY <1>22, <2>1, <4>1
      <4>2. CASE i \notin 1 .. l
        <5>1. i \in l + 1 .. Len(tt) /\ i - l + 1 \in DOMAIN td
          BY <1>7, <1>8, <4>2
        <5>2. tt[i].parent \in 0 .. m
          BY <1>8, <1>11, <5>1
        <5> QED
          BY <1>5, <2>1, <4>2, <5>2
      <4> QED
        BY <4>1, <4>2
    <3>3. ASSUME NEW j \in 1 .. l PROVE tt[0 + j].element = ins[0 + j]
      BY <1>22
    <3>4. 0 + l <= Len(tt)
      BY <1>7, <1>8
    <3>5. Waits(roots, nt, tt, n, 0)
      BY <3>1, <3>2, <3>3, <3>4 DEF Waits
    <3>6. 0 \in 0 .. Len(tt)
      BY <1>8
    <3> QED
      <4>1. DOMAIN nt[n].kids = {} /\ nt[n].kids \in Seq(Int)
        BY <3>1
      <4>2. InsideAt(roots, nt[n]) \in Seq(Element) /\ Missing(roots, nt[n]) >= 0
        BY <1>6, <1>21, <3>1
      <4>3. Shaped(nt[n])
        BY <1>21, <3>1
      <4> QED
        BY <3>1, <3>5, <3>6, <4>1, <4>2, <4>3 DEF Fills
  <2>2. CASE n # id
    <3>1. n \in 1 .. m
      BY <1>5, <1>9, <2>2
    <3>2. Shaped(nt[n])
      BY <1>9, <3>1
    <3>3. PICK old : old = ns[n].kids
      OBVIOUS
    <3>4. PICK into : into = InsideAt(roots, ns[n])
      OBVIOUS
    <3>5. /\ old \in Seq(Int) /\ \A i \in DOMAIN old : old[i] \in n + 1 .. m
          /\ into \in Seq(Element)
          /\ ns[n].name \in Controlled =>
               /\ Missing(roots, ns[n]) >= 0
               /\ \A i \in DOMAIN old : ns[old[i]].element = into[i]
               /\ \E s \in 0 .. d : Waits(roots, ns, td, n, s)
          /\ ns[n].name \notin Controlled => old = <<>>
      <4>1. Fills(roots, ns, td, n)
        BY <1>9, <3>1 DEF Filling
      <4>2. Len(ns) = m /\ Len(td) = d
        BY <1>4, <1>7
      <4> QED
        BY <3>3, <3>4, <4>1, <4>2 DEF Fills
    <3>6. PICK k \in Nat : k = Len(old) /\ DOMAIN old = 1 .. k
      <4>1. Len(old) \in Nat /\ DOMAIN old = 1 .. Len(old)
        BY <3>5, LenProperties
      <4> QED
        BY <4>1
    <3>7. InsideAt(roots, nt[n]) = into /\ Len(into) \in Nat
      BY <1>10, <3>1, <3>4, <3>5
    <3>8. Missing(roots, ns[n]) = Len(into) - k
      BY <3>3, <3>4, <3>6 DEF Missing
    <3>9. ASSUME NEW i \in DOMAIN old
          PROVE  nt[old[i]].element = ns[old[i]].element /\ old[i] \in n + 1 .. id
      <4>1. old[i] \in n + 1 .. m
        BY <3>5
      <4>2. old[i] \in 1 .. m
        BY <3>1, <4>1
      <4> QED
        BY <1>5, <1>9, <4>1, <4>2
    <3>10. CASE n = parent /\ ns[n].name \in Controlled
      <4>1. PICK kids : kids = Append(old, id) /\ nt[n].kids = kids
        BY <1>9, <3>1, <3>3, <3>10
      <4>2. /\ kids \in Seq(Int) /\ Len(kids) = k + 1 /\ DOMAIN kids = 1 .. k + 1 /\ kids[k + 1] = id
            /\ \A i \in 1 .. k : kids[i] = old[i]
        BY <1>5, <3>5, <3>6, <4>1
      <4>3. \A i \in DOMAIN kids : kids[i] \in n + 1 .. id
        <5> TAKE i \in DOMAIN kids
        <5>1. CASE i = k + 1
          BY <1>5, <3>1, <4>2, <5>1
        <5>2. CASE i # k + 1
          BY <3>6, <3>9, <4>2, <5>2
        <5> QED
          BY <5>1, <5>2
      <4>4. PICK s \in 0 .. d : Waits(roots, ns, td, n, s)
        BY <3>5, <3>10
      <4>5. PICK u \in Int : u = Missing(roots, ns[n]) /\ u >= 0 /\ u = Len(into) - k
        <5>1. Missing(roots, ns[n]) >= 0
          BY <3>5, <3>10
        <5>3. Len(into) - k \in Int
          BY <3>7
        <5>2. PICK u \in Int : u = Len(into) - k
          BY <5>3
        <5> QED
          BY <3>8, <5>1, <5>2
      <4>6. /\ s + u <= d /\ \A i \in 1 .. d : td[i].parent = n <=> i \in s + 1 .. s + u
            /\ \A j \in 1 .. u : td[s + j].element = into[k + j]
        BY <1>7, <3>3, <3>4, <3>6, <4>4, <4>5 DEF Waits
      <4>7. td[1].parent = n
        BY <1>2, <1>3, <3>10
      <4>8. s = 0 /\ u >= 1
        BY <1>7, <4>6, <4>7
      <4>9. node.element = into[k + 1]
        BY <1>2, <1>21, <4>6, <4>8
      <4>10. Missing(roots, nt[n]) = u - 1
        <5>1. Missing(roots, nt[n]) = Len(into) - (k + 1)
          BY <3>7, <4>1, <4>2 DEF Missing
        <5> QED
          BY <3>7, <4>5, <5>1
      <4>11. \A i \in DOMAIN kids : nt[kids[i]].element = into[i]
        <5> TAKE i \in DOMAIN kids
        <5>1. CASE i = k + 1
          BY <1>9, <4>2, <4>9, <5>1
        <5>2. CASE i # k + 1
          <6>1. i \in DOMAIN old /\ kids[i] = old[i]
            BY <3>6, <4>2, <5>2
          <6>2. ns[old[i]].element = into[i]
            BY <3>5, <3>10, <6>1
          <6> QED
            BY <3>9, <6>1, <6>2
        <5> QED
          BY <5>1, <5>2
      <4>12. ASSUME NEW i \in DOMAIN tt PROVE tt[i].parent = n <=> i \in l + 1 .. l + (u - 1)
        <5>1. CASE i \in 1 .. l
          <6>1. tt[i].parent = id
            BY <1>22, <5>1
          <6> QED
            BY <2>2, <5>1, <6>1
        <5>2. CASE i \notin 1 .. l
          <6>1. i \in l + 1 .. Len(tt) /\ i - l + 1 \in 1 .. d /\ i \in Nat
            BY <1>7, <1>8, <5>2
          <6>2. tt[i].parent = n <=> i - l + 1 \in 1 .. u
            <7>1. tt[i] = td[i - l + 1]
              BY <1>8, <6>1
            <7>2. td[i - l + 1].parent = n <=> i - l + 1 \in s + 1 .. s + u
              BY <4>6, <6>1
            <7> QED
              BY <4>8, <7>1, <7>2
          <6> QED
            BY <6>1, <6>2, <4>8
        <5> QED
          BY <5>1, <5>2
      <4>13. ASSUME NEW j \in 1 .. u - 1 PROVE tt[l + j].element = into[(k + 1) + j]
        <5>1. /\ l + j \in l + 1 .. Len(tt) /\ (l + j) - l + 1 = j + 1
              /\ j + 1 \in 1 .. u /\ k + (j + 1) = (k + 1) + j
          BY <1>7, <1>8, <4>6, <4>8
        <5>2. tt[l + j] = td[j + 1]
          BY <1>8, <5>1
        <5>3. td[0 + (j + 1)].element = into[k + (j + 1)]
          BY <4>6, <4>8, <5>1
        <5> QED
          BY <5>1, <5>2, <5>3
      <4>14. l + (u - 1) <= Len(tt) /\ l \in 0 .. Len(tt)
        BY <1>7, <1>8, <4>6, <4>8
      <4>15. Waits(roots, nt, tt, n, l)
        BY <3>7, <4>1, <4>2, <4>10, <4>12, <4>13, <4>14 DEF Waits
      <4>16. Missing(roots, nt[n]) >= 0
        BY <4>8, <4>10
      <4> QED
        BY <1>9, <3>1, <3>2, <3>5, <3>7, <3>10, <4>1, <4>2, <4>3, <4>11, <4>14, <4>15, <4>16 DEF Fills
    <3>11. CASE ~ (n = parent /\ ns[n].name \in Controlled)
      <4>1. nt[n].kids = old
        BY <1>9, <3>1, <3>3, <3>11
      <4>2. \A i \in DOMAIN old : old[i] \in n + 1 .. id
        BY <3>9
      <4>3. Missing(roots, nt[n]) = Missing(roots, ns[n])
        BY <3>3, <3>4, <3>7, <4>1 DEF Missing
      <4>4. ASSUME ns[n].name \in Controlled
            PROVE  /\ Missing(roots, nt[n]) >= 0
                   /\ \A i \in DOMAIN old : nt[old[i]].element = into[i]
                   /\ \E s \in 0 .. Len(tt) : Waits(roots, nt, tt, n, s)
        <5>1. PICK s \in 0 .. d : Waits(roots, ns, td, n, s)
          BY <3>5, <4>4
        <5>2. PICK u \in Int : u = Missing(roots, ns[n]) /\ u >= 0
          <6>1. Missing(roots, ns[n]) >= 0
            BY <3>5, <4>4
          <6>3. Len(into) - k \in Int
            BY <3>7
          <6>2. PICK u \in Int : u = Len(into) - k
            BY <6>3
          <6> QED
            BY <3>8, <6>1, <6>2
        <5>3. /\ s + u <= d /\ \A i \in 1 .. d : td[i].parent = n <=> i \in s + 1 .. s + u
              /\ \A j \in 1 .. u : td[s + j].element = into[k + j]
          BY <1>7, <3>3, <3>4, <3>6, <5>1, <5>2 DEF Waits
        <5>4. td[1].parent # n
          BY <1>2, <1>3, <3>11, <4>4
        <5>5. s >= 1 \/ u = 0
          BY <1>7, <5>2, <5>3, <5>4
        <5>6. PICK t \in Nat : t = (IF u = 0 THEN 0 ELSE s - 1 + l)
          BY <5>5
        <5>7. t + u <= Len(tt) /\ t \in 0 .. Len(tt)
          BY <1>7, <1>8, <5>2, <5>3, <5>5, <5>6
        <5>8. ASSUME NEW i \in DOMAIN tt PROVE tt[i].parent = n <=> i \in t + 1 .. t + u
          <6>1. CASE i \in 1 .. l
            <7>1. tt[i].parent = id
              BY <1>22, <6>1
            <7> QED
              BY <2>2, <5>2, <5>5, <5>6, <6>1, <7>1
          <6>2. CASE i \notin 1 .. l
            <7>1. i \in l + 1 .. Len(tt) /\ i - l + 1 \in 1 .. d /\ i \in Nat
              BY <1>7, <1>8, <6>2
            <7>2. tt[i].parent = n <=> i - l + 1 \in s + 1 .. s + u
              BY <1>8, <5>3, <7>1
            <7> QED
              <8>1. CASE u = 0
                BY <5>6, <7>1, <7>2, <8>1
              <8>2. CASE u # 0
                <9>1. t = s - 1 + l /\ s \in Int /\ l \in Int /\ u \in Int
                  BY <5>2, <5>6, <8>2
                <9> QED
                  BY <7>1, <7>2, <9>1
              <8> QED
                BY <8>1, <8>2
          <6> QED
            BY <6>1, <6>2
        <5>9. ASSUME NEW j \in 1 .. u PROVE tt[t + j].element = into[k + j]
          <6>1. t + j \in l + 1 .. Len(tt) /\ (t + j) - l + 1 = s + j
            BY <1>7, <1>8, <5>2, <5>3, <5>5, <5>6
          <6> QED
            BY <1>8, <5>3, <6>1
        <5>10. Waits(roots, nt, tt, n, t)
          BY <3>6, <3>7, <4>1, <4>3, <5>2, <5>7, <5>8, <5>9 DEF Waits
        <5>11. \A i \in DOMAIN old : nt[old[i]].element = into[i]
          BY <3>5, <3>9, <4>4
        <5> QED
          BY <3>5, <4>3, <4>4, <5>7, <5>10, <5>11
      <4> QED
        BY <1>9, <3>1, <3>2, <3>5, <3>7, <4>1, <4>2, <4>4 DEF Fills
    <3> QED
      BY <3>10, <3>11
  <2> QED
    BY <2>1, <2>2
<1> QED
  BY <1>9, <1>12 DEF Filling

-----------------------------------------------------------------------------
(* The inductive invariant.                                                *)

\* The registry, the parser and the documents being loaded.
ParserOK(p) ==
  /\ p = [opened |-> p.opened, roots |-> p.roots, suffix |-> p.suffix, dir |-> p.dir]
  /\ Range(p.roots) \subseteq Element
Known ==
  /\ builders \in SUBSET DOMAIN Manifest /\ Builtin \subseteq builders
  /\ ParserOK(parser)
  /\ loading \in Seq([file : Files, next : Nat])
  /\ at \in {"idle", "loading", "building", "built"} /\ (loading # <<>>) = (at = "loading")

\* Nothing of a tree is left before the next one is built.
Cleaned ==
  /\ at \in {"idle", "loading"} => Len(boards) = 1 /\ nodes = <<>>
  /\ at # "building" => todo = <<>>

\* The parser got to all trees that a subtree opens.
AllOpen(roots, registered) ==
  \A t \in Range(roots) :
    /\ Kids[t] # <<>>
    /\ \A e \in Under[Head(Kids[t])] :
         (IF ID(e) \in registered THEN Manifest[ID(e)].type = "SUBTREE" ELSE ID(e) \in DOMAIN roots)
         => NodeName(e) \in DOMAIN roots
Opens == at = "building" => AllOpen(parser.roots, builders)

\* A port that the document points to a key has declared what the key stands for.
Placed(node, bs) ==
  node.board \in DOMAIN bs \/ (node.board = NoBoard /\ node.in = <<>> /\ node.out = <<>>)
PortsSettled(node, ports, bs) ==
  \A p \in DOMAIN ports \cap DOMAIN Params(node.element) :
    LET c == Cell(bs, node.board, GetRemappedKey(p, ports[p])) IN
    GetRemappedKey(p, ports[p]) # NoKey =>
      /\ node.board \in DOMAIN bs /\ Stored(bs, c)
      /\ Agree(TypeAt(bs, c), Manifest[ID(node.element)].ports[p].type)
Declared(ns, bs) ==
  \A n \in DOMAIN ns : /\ Placed(ns[n], bs)
                       /\ PortsSettled(ns[n], ns[n].in, bs) /\ PortsSettled(ns[n], ns[n].out, bs)
Linked == at = "building" => Chained(boards)

IInv ==
  /\ Known /\ Cleaned /\ Opens
  /\ Ranked(boards) /\ Filled(boards) /\ Linked
  /\ Visits(todo, parser.roots, Len(nodes), boards)
  /\ Filling(parser.roots, nodes, todo)
  /\ Declared(nodes, boards)
  /\ ReadsExact

\* Without a tree and with nothing to visit the parts about them hold.
LEMMA NoTree ==
  ASSUME NEW roots, NEW bs
  PROVE  Visits(<<>>, roots, Len(<<>>), bs) /\ Filling(roots, <<>>, <<>>) /\ Declared(<<>>, bs)
BY DEF Visits, Filling, Declared, Fills

\* Nothing to visit is fine for every tree.
LEMMA NoVisits ==
  ASSUME NEW roots, NEW n, NEW bs
  PROVE  Visits(<<>>, roots, n, bs)
BY DEF Visits

\* Where nothing is read nothing is read wrongly.
LEMMA NoReadExact == ASSUME read' = NoRead PROVE ReadsExact'
BY DEF ReadsExact, NoRead, Refused

\* The factory starts with its own nodes only, and no tree.
LEMMA InitInv == Init => IInv
<1> SUFFICES ASSUME Init PROVE IInv
  OBVIOUS
<1>1. Known
  BY DocumentsAssumption DEF Init, Known, ParserOK, NewParser, Range
<1>2. Cleaned /\ Opens /\ Linked
  BY DEF Init, Cleaned, Opens, Linked
<1>3. Ranked(boards) /\ Filled(boards)
  <2>1. boards = <<NewBoard(NoBoard)>>
    BY DEF Init
  <2>2. /\ boards = [c \in 1 .. 1 |-> boards[c]] /\ boards[1].parent = 0 /\ boards[1].storage = <<>>
        /\ DOMAIN boards = {1}
    BY <2>1 DEF NewBoard, NoBoard
  <2>3. boards \in Seq(Range(boards)) /\ boards # <<>>
    BY <2>2, SeqIs
  <2> QED
    BY <2>2, <2>3 DEF Ranked, Filled
<1>4. Visits(todo, parser.roots, Len(nodes), boards) /\ Filling(parser.roots, nodes, todo)
      /\ Declared(nodes, boards)
  BY NoTree DEF Init
<1>5. ReadsExact
  BY DEF Init, ReadsExact, NoRead, Refused
<1> QED
  BY <1>1, <1>2, <1>3, <1>4, <1>5 DEF IInv

\* An exception leaves no tree, and the parser with what it has.
LEMMA ThrowInv ==
  ASSUME IInv, NEW e, Throw(e), builders' = builders, ParserOK(parser'),
         Ranked(boards'), Filled(boards'), Len(boards') = 1
  PROVE  IInv'
<1>1. Known'
  BY DEF Known, IInv, Throw
<1>2. Cleaned' /\ Opens' /\ Linked'
  BY DEF Throw, Cleaned, Opens, Linked
<1>3. /\ Visits(todo', parser'.roots, Len(nodes'), boards') /\ Filling(parser'.roots, nodes', todo')
      /\ Declared(nodes', boards')
  BY NoTree DEF Throw
<1>4. ReadsExact'
  BY NoReadExact DEF Throw
<1> QED
  BY <1>1, <1>2, <1>3, <1>4 DEF IInv

\* A step between trees keeps them away.
LEMMA IdleInv ==
  ASSUME IInv, at \in {"idle", "loading"}, at' \in {"idle", "loading"}, Known',
         UNCHANGED <<todo, nodes, boards>>, ReadsExact'
  PROVE  IInv'
<1>1. nodes = <<>> /\ todo = <<>> /\ Len(boards) = 1 /\ Ranked(boards) /\ Filled(boards)
  BY DEF IInv, Cleaned
<1>2. Cleaned' /\ Opens' /\ Linked'
  BY <1>1 DEF Cleaned, Opens, Linked
<1>3. /\ Visits(todo', parser'.roots, Len(nodes'), boards') /\ Filling(parser'.roots, nodes', todo')
      /\ Declared(nodes', boards')
  BY <1>1, NoTree
<1> QED
  BY <1>1, <1>2, <1>3 DEF IInv

\* registerBuilder() and unregisterBuilder(): one type of node more, or less.
LEMMA RegisterInv == IInv /\ Register => IInv'
<1> SUFFICES ASSUME IInv, Register PROVE IInv'
  OBVIOUS
<1>1. PICK id \in DOMAIN Manifest : RegisterBuilder(id) \/ UnregisterBuilder(id)
  BY DEF Register
<1>2. PICK b, e : Registry(b, e) /\ b \in SUBSET DOMAIN Manifest /\ Builtin \subseteq b
  BY <1>1 DEF RegisterBuilder, UnregisterBuilder, IInv, Known
<1>3. Known'
  BY <1>2 DEF Registry, IInv, Known
<1>4. ReadsExact'
  BY <1>2 DEF Registry, IInv, ReadsExact
<1> QED
  BY <1>2, <1>3, <1>4, IdleInv DEF Registry

\* A parser that is made anew has no trees.
LEMMA ClearInv == IInv /\ ClearParser => IInv'
<1> SUFFICES ASSUME IInv, ClearParser PROVE IInv'
  OBVIOUS
<1>1. ParserOK(NewParser)
  BY DEF ParserOK, NewParser, Range
<1>2. Known'
  BY <1>1 DEF ClearParser, IInv, Known
<1>3. ReadsExact'
  BY DEF ClearParser, IInv, ReadsExact
<1> QED
  BY <1>2, <1>3, IdleInv DEF ClearParser

\* A document that is opened: its file is loaded next, or the load is over.
LEMMA OpenInv ==
  ASSUME IInv, at \in {"idle", "loading"}, NEW file, NEW p, ParserOK(p),
         NEW stack \in Seq([file : Files, next : Nat]), Open(file, p, stack),
         UNCHANGED <<builders, boards>>
  PROVE  IInv'
<1>1. PICK q : q = [p EXCEPT !.opened = Append(@, file)]
  OBVIOUS
<1>2. parser' = q /\ ParserOK(q)
  <2>1. q = [opened |-> Append(p.opened, file), roots |-> p.roots, suffix |-> p.suffix, dir |-> p.dir]
    BY <1>1 DEF ParserOK
  <2> QED
    BY <1>1, <2>1 DEF Open, ParserOK
<1>3. CASE file \in Files
  <2>1. /\ loading' = Append(stack, [file |-> file, next |-> 1]) /\ at' = "loading"
        /\ UNCHANGED <<todo, nodes, read>>
    BY <1>3 DEF Open
  <2>2. loading' \in Seq([file : Files, next : Nat]) /\ loading' # <<>>
    BY <1>3, <2>1, AppendProperties
  <2>3. Known'
    BY <1>2, <2>1, <2>2 DEF IInv, Known
  <2>4. ReadsExact'
    BY <2>1 DEF IInv, ReadsExact
  <2> QED
    BY <2>1, <2>3, <2>4, IdleInv
<1>4. CASE file \notin Files
  <2>1. Throw("RuntimeError")
    BY <1>4 DEF Open
  <2> QED
    BY <1>2, <2>1, ThrowInv DEF IInv, Cleaned
<1> QED
  BY <1>3, <1>4

\* loadFromFile(): a document is opened, or it cannot be read.
LEMMA LoadFromFileInv == ASSUME IInv, NEW file, LoadFromFile(file) PROVE IInv'
<1>1. PICK p : p = [parser EXCEPT !.dir = ParentPath(file)]
  OBVIOUS
<1>2. ParserOK(p)
  <2>1. p = [opened |-> parser.opened, roots |-> parser.roots, suffix |-> parser.suffix,
             dir |-> ParentPath(file)]
    BY <1>1 DEF IInv, Known, ParserOK
  <2> QED
    BY <2>1 DEF IInv, Known, ParserOK
<1>3. <<>> \in Seq([file : Files, next : Nat])
  OBVIOUS
<1> QED
  BY <1>1, <1>2, <1>3, OpenInv DEF LoadFromFile

\* The next <include> of the document, or none is left.
LEMMA LoadIncludeInv == IInv /\ LoadInclude => IInv'
<1> SUFFICES ASSUME IInv, LoadInclude PROVE IInv'
  OBVIOUS
<1> DEFINE L == [file : Files, next : Nat]
<1>1. at = "loading" /\ loading \in Seq(L) /\ loading # <<>> /\ ParserOK(parser)
  BY DEF LoadInclude, IInv, Known
<1>2. PICK top \in L : top = Top
  <2>1. Last(loading) \in L
    BY <1>1, LastFront
  <2> QED
    BY <2>1 DEF Top
<1>3. PICK e : e = Includes(Top.file)[Top.next]
  OBVIOUS
<1>4. CASE Has(e, "ros_pkg")
  <2>1. Throw("RuntimeError") /\ UNCHANGED <<parser, builders, boards>>
    BY <1>3, <1>4 DEF LoadInclude
  <2> QED
    BY <1>1, <2>1, ThrowInv DEF IInv, Cleaned
<1>5. CASE ~ Has(e, "ros_pkg")
  <2>1. PICK stack : stack = Append(Front(loading), [top EXCEPT !.next = @ + 1])
    OBVIOUS
  <2>2. Front(loading) \in Seq(L)
    BY <1>1, LastFront
  <2>3. [top EXCEPT !.next = @ + 1] \in L
    BY <1>2
  <2>4. stack \in Seq(L)
    BY <2>1, <2>2, <2>3
  <2>5. PICK file : file = IncludePath(e)
    OBVIOUS
  <2>6. Open(file, parser, stack) /\ UNCHANGED <<builders, boards>>
    BY <1>2, <1>3, <1>5, <2>1, <2>5 DEF LoadInclude
  <2> QED
    BY <1>1, <2>4, <2>6, OpenInv
<1> QED
  BY <1>4, <1>5

\* What a document adds to the trees are elements.
LEMMA EnterOK ==
  ASSUME NEW p, ParserOK(p), NEW root \in Element
  PROVE  ParserOK(Enter(p, root))
<1> DEFINE kid      == Kids[root]
           here     == {i \in DOMAIN kid : NameOf[kid[i]] = "BehaviorTree"}
           unnamed  == {i \in here : ~ Has(kid[i], "ID")}
           Number(i) == p.suffix + Cardinality({j \in unnamed : j < i})
           name     == [i \in here |-> IF i \in unnamed THEN "BehaviorTree_" \o ToString(Number(i))
                                        ELSE Attr[kid[i]].ID]
           First(n) == CHOOSE i \in here : name[i] = n /\ \A j \in here : name[j] = n => i <= j
           new      == [n \in {name[i] : i \in here} |-> kid[First(n)]]
<1>1. PICK q : q = Enter(p, root)
  OBVIOUS
<1>2. q = [p EXCEPT !.roots = Inserted(@, new), !.suffix = @ + Cardinality(unnamed)]
  BY <1>1 DEF Enter
<1>3. kid \in Seq(Element) /\ here \in SUBSET Nat
  BY DocumentsAssumption
<1>4. ASSUME NEW n \in DOMAIN new PROVE new[n] \in Element
  <2> HIDE DEF name, unnamed
  <2> DEFINE T == {i \in here : name[i] = n}
  <2>1. T \in SUBSET Nat /\ T # {}
    BY <1>3, <1>4
  <2>2. PICK i \in T : \A j \in T : i <= j
    <3> HIDE DEF T
    <3> QED
      BY <2>1, LeastNat
  <2>3. i \in here /\ name[i] = n /\ \A j \in here : name[j] = n => i <= j
    BY <2>2
  <2>4. First(n) \in here
    <3> HIDE DEF here
    <3> QED
      BY <2>3
  <2>5. kid[First(n)] \in Element
    <3> HIDE DEF First
    <3> QED
      BY <1>3, <2>4
  <2>6. n \in {name[j] : j \in here}
    BY <1>4
  <2> QED
    BY <2>5, <2>6
<1> HIDE DEF new, unnamed
<1>5. q = [opened |-> p.opened, roots |-> Inserted(p.roots, new),
           suffix |-> p.suffix + Cardinality(unnamed), dir |-> p.dir]
  BY <1>2 DEF ParserOK
<1>6. Range(Inserted(p.roots, new)) \subseteq Element
  BY <1>4 DEF ParserOK, Range, Inserted
<1> QED
  BY <1>1, <1>5, <1>6 DEF ParserOK

\* The document is complete: its trees go to the parser, or one of them is wrong.
LEMMA LoadTreesInv == IInv /\ LoadTrees => IInv'
<1> SUFFICES ASSUME IInv, LoadTrees PROVE IInv'
  OBVIOUS
<1> DEFINE L == [file : Files, next : Nat]
<1>1. at = "loading" /\ loading \in Seq(L) /\ loading # <<>> /\ ParserOK(parser)
  BY DEF LoadTrees, IInv, Known
<1>2. PICK p : p = Enter(parser, RootOf[Top.file]) /\ parser' = p
  BY DEF LoadTrees
<1>3. Top \in L
  <2>1. Last(loading) \in L
    BY <1>1, LastFront
  <2> QED
    BY <2>1 DEF Top
<1>4. RootOf[Top.file] \in Element
  BY <1>3, DocumentsAssumption
<1>5. ParserOK(p)
  BY <1>1, <1>2, <1>4, EnterOK
<1>6. UNCHANGED <<builders, boards>>
  BY DEF LoadTrees
<1>7. CASE VerifyXML(Top.file, builders \cup DOMAIN p.roots)
  <2>1. /\ loading' = Front(loading) /\ at' = (IF Len(loading) = 1 THEN "idle" ELSE at)
        /\ UNCHANGED <<thrown, todo, nodes, read>>
    BY <1>2, <1>7 DEF LoadTrees
  <2>2. Len(loading) \in Nat /\ Len(loading) # 0
    BY <1>1
  <2>3. loading' \in Seq(L) /\ Len(loading') = Len(loading) - 1
    BY <1>1, <2>1, LastFront
  <2>4. (loading' # <<>>) = (at' = "loading")
    <3>1. loading' # <<>> <=> Len(loading') # 0
      <4>1. PICK rest \in Seq(L) : rest = loading'
        BY <2>3
      <4>2. rest # <<>> <=> Len(rest) # 0
        OBVIOUS
      <4> QED
        BY <4>1, <4>2
    <3>2. Len(loading') # 0 <=> Len(loading) # 1
      BY <2>2, <2>3
    <3> QED
      BY <1>1, <2>1, <3>1, <3>2
  <2>5. Known'
    BY <1>1, <1>2, <1>5, <1>6, <2>1, <2>3, <2>4 DEF IInv, Known
  <2>6. ReadsExact'
    BY <2>1 DEF IInv, ReadsExact
  <2>7. at' \in {"idle", "loading"}
    BY <1>1, <2>1
  <2> QED
    BY <1>1, <1>6, <2>1, <2>5, <2>6, <2>7, IdleInv
<1>8. CASE ~ VerifyXML(Top.file, builders \cup DOMAIN p.roots)
  <2>1. Throw("RuntimeError")
    BY <1>2, <1>8 DEF LoadTrees
  <2> QED
    BY <1>1, <1>2, <1>5, <1>6, <2>1, ThrowInv DEF IInv, Cleaned
<1> QED
  BY <1>7, <1>8

-----------------------------------------------------------------------------
(* A tree is begun, built, finished and destroyed.                         *)

\* The root board remaps nothing.
LEMMA RootChained == ASSUME NEW bs, Ranked(bs), Len(bs) = 1 PROVE Chained(bs)
<1>1. DOMAIN bs = 1 .. 1
  BY DEF Ranked
<1>2. \A c \in DOMAIN bs : bs[c].parent = 0
  BY <1>1 DEF Ranked
<1> QED
  BY <1>2 DEF Chained, Remapped, NoBoard

\* Boards that grow twice have grown.
LEMMA GrownTransitive ==
  ASSUME NEW bs, NEW bt, NEW bu, Grown(bs, bt), Grown(bt, bu)
  PROVE  Grown(bs, bu)
BY DEF Grown, SameWays

\* The element of a tree is one that is reached.
LEMMA HeadReached ==
  ASSUME NEW roots, Range(roots) \subseteq Element, NEW name \in DOMAIN roots,
         Kids[roots[name]] # <<>>
  PROVE  Head(Kids[roots[name]]) \in Reached(roots)
<1>1. PICK t : t = roots[name] /\ t \in Range(roots) /\ t \in Element
  BY DEF Range
<1>2. Kids[t] \in Seq(Element)
  BY <1>1, DocumentsAssumption
<1>3. Head(Kids[t]) \in Element
  BY <1>1, <1>2, HeadTailProperties
<1>4. Head(Kids[t]) \in Under[Head(Kids[t])]
  BY <1>3, NestingAssumption
<1> QED
  BY <1>1, <1>3, <1>4 DEF Reached

\* instantiateTree(): the root element is visited first, on the root board.
LEMMA InstantiateInv == IInv /\ InstantiateTree => IInv'
<1> SUFFICES ASSUME IInv, InstantiateTree PROVE IInv'
  OBVIOUS
<1>1. /\ at = "idle" /\ Complete /\ UNCHANGED <<builders, parser, boards>>
      /\ nodes = <<>> /\ Len(boards) = 1 /\ Ranked(boards) /\ Filled(boards) /\ ParserOK(parser)
  BY DEF InstantiateTree, IInv, Cleaned, Known
<1>2. CASE Throw("RuntimeError")
  BY <1>1, <1>2, ThrowInv
<1>3. CASE ~ Throw("RuntimeError")
  <2>1. PICK t : t = parser.roots[MainTree]
    OBVIOUS
  <2>2. /\ at' = "building" /\ todo' = <<Visit(Head(Kids[t]), 0, Root)>>
        /\ UNCHANGED <<loading, nodes, read>>
    BY <1>3, <2>1 DEF InstantiateTree
  <2>3. MainTree \in DOMAIN parser.roots /\ AllOpen(parser.roots, builders)
    BY <1>1 DEF Complete, AllOpen, OpensTree, Trees
  <2>4. t \in Range(parser.roots) /\ Kids[t] # <<>>
    BY <2>1, <2>3 DEF Range, AllOpen
  <2>5. Head(Kids[t]) \in Reached(parser.roots)
    BY <1>1, <2>1, <2>3, <2>4, HeadReached DEF ParserOK
  <2>6. 1 \in DOMAIN boards
    BY <1>1 DEF Ranked
  <2>7. Visits(todo', parser.roots', Len(nodes'), boards')
    <3>1. Visit(Head(Kids[t]), 0, Root) \in
            [element : Reached(parser.roots), parent : 0 .. 0, board : DOMAIN boards]
      BY <2>5, <2>6 DEF Visit, Root
    <3>2. Len(nodes') = 0
      BY <1>1, <2>2
    <3> QED
      BY <1>1, <2>2, <3>1, <3>2 DEF Visits
  <2>8. Filling(parser.roots', nodes', todo') /\ Declared(nodes', boards')
    BY <1>1, <2>2 DEF Filling, Declared
  <2>9. Known' /\ Cleaned' /\ Opens' /\ Linked'
    BY <1>1, <2>2, <2>3, RootChained DEF IInv, Known, Cleaned, Opens, Linked
  <2>10. ReadsExact'
    BY <2>2 DEF IInv, ReadsExact
  <2> QED
    BY <1>1, <2>7, <2>8, <2>9, <2>10 DEF IInv
<1> QED
  BY <1>2, <1>3

\* The node that is made of an element.
LEMMA NodeMade ==
  ASSUME NEW e, NEW b, NEW node, node = MakeNode(e, b)
  PROVE  /\ Shaped(node) /\ node.kids = <<>> /\ node.element = e /\ node.name = NodeName(e)
         /\ node.type = IF ID(e) \in builders THEN Manifest[ID(e)].type ELSE "SUBTREE"
         /\ \/ /\ ID(e) \in builders /\ node.board = b
               /\ node.in = InputPorts(e) /\ node.out = OutputPorts(e)
            \/ node.board = NoBoard /\ node.in = <<>> /\ node.out = <<>>
<1>1. ASSUME NEW t, NEW c, NEW in, NEW out, node = Node(e, t, c, in, out)
      PROVE  /\ Shaped(node) /\ node.kids = <<>> /\ node.element = e /\ node.name = NodeName(e)
             /\ node.type = t /\ node.board = c /\ node.in = in /\ node.out = out
  BY <1>1 DEF Node, Shaped
<1>2. CASE ID(e) \notin builders
  BY <1>1, <1>2 DEF MakeNode
<1>3. CASE ID(e) \in builders
  <2>1. node = InstantiateTreeNode(e, b)
    BY <1>3 DEF MakeNode
  <2>2. CASE TakesConfig(Manifest[ID(e)], InputPorts(e), OutputPorts(e))
    <3>1. node = Node(e, Manifest[ID(e)].type, b, InputPorts(e), OutputPorts(e))
      BY <2>1, <2>2 DEF InstantiateTreeNode
    <3> QED
      BY <1>1, <1>3, <3>1
  <2>3. CASE ~ TakesConfig(Manifest[ID(e)], InputPorts(e), OutputPorts(e))
    <3>1. node = Node(e, Manifest[ID(e)].type, NoBoard, <<>>, <<>>)
      BY <2>1, <2>3 DEF InstantiateTreeNode
    <3> QED
      BY <1>1, <1>3, <3>1
  <2> QED
    BY <2>2, <2>3
<1> QED
  BY <1>2, <1>3

\* What is inside a node is reached.
LEMMA InsideReached ==
  ASSUME Known, AllOpen(parser.roots, builders), NEW e \in Reached(parser.roots),
         ID(e) \in builders \cup Trees, NEW node, node.element = e, node.name = NodeName(e),
         node.type = IF ID(e) \in builders THEN Manifest[ID(e)].type ELSE "SUBTREE"
  PROVE  InsideAt(parser.roots, node) \in Seq(Reached(parser.roots))
<1>1. PICK roots : roots = parser.roots
  OBVIOUS
<1>2. Range(roots) \subseteq Element
  BY <1>1 DEF Known, ParserOK
<1>3. PICK t \in Range(roots) : e \in Under[Head(Kids[t])] /\ e \in Element /\ Kids[t] # <<>>
  BY <1>1 DEF Reached, AllOpen
<1>4. CASE node.type = "SUBTREE"
  <2>1. NodeName(e) \in DOMAIN roots
    BY <1>1, <1>3, <1>4 DEF AllOpen, Trees
  <2>2. Kids[roots[NodeName(e)]] # <<>>
    <3>1. roots[NodeName(e)] \in Range(roots)
      BY <2>1 DEF Range
    <3> QED
      BY <1>1, <3>1 DEF AllOpen
  <2>3. Head(Kids[roots[NodeName(e)]]) \in Reached(roots)
    BY <1>2, <2>1, <2>2, HeadReached
  <2>4. PICK h \in Reached(roots) : h = Head(Kids[roots[NodeName(e)]])
    BY <2>3
  <2>5. <<h>> \in Seq(Reached(roots))
    OBVIOUS
  <2>6. InsideAt(roots, node) = <<h>>
    BY <1>4, <2>4 DEF InsideAt
  <2> QED
    BY <1>1, <2>5, <2>6
<1>5. CASE node.type # "SUBTREE"
  <2>1. NameOf[e] # "SubTree"
    <3> SUFFICES ASSUME NameOf[e] = "SubTree" PROVE FALSE
      OBVIOUS
    <3>1. ID(e) = "SubTree"
      BY DEF ID, Leaves
    <3> QED
      BY <1>5, <3>1, ManifestAssumption DEF Known
  <2>2. Head(Kids[t]) \in Element
    <3>1. Kids[t] \in Seq(Element)
      BY <1>2, <1>3, DocumentsAssumption
    <3> QED
      BY <1>3, <3>1, HeadTailProperties
  <2>3. Range(Kids[e]) \subseteq Under[Head(Kids[t])]
    BY <1>3, <2>1, <2>2, NestingAssumption
  <2>4. Kids[e] \in Seq(Element)
    BY <1>3, DocumentsAssumption
  <2>5. \A i \in 1 .. Len(Kids[e]) : Kids[e][i] \in Reached(roots)
    <3> TAKE i \in 1 .. Len(Kids[e])
    <3>1. Kids[e][i] \in Element
      BY <2>4, ElementOfSeq
    <3>2. Kids[e][i] \in Range(Kids[e])
      BY <2>4 DEF Range
    <3> QED
      BY <1>3, <2>3, <3>1, <3>2 DEF Reached
  <2>6. Kids[e] \in Seq(Reached(roots))
    <3>1. PICK n \in Nat : n = Len(Kids[e]) /\ Kids[e] \in [1 .. n -> Element]
      BY <2>4, LenProperties
    <3>2. Kids[e] \in [1 .. n -> Reached(roots)]
      BY <2>5, <3>1
    <3> QED
      BY <3>2, SeqDef
  <2> QED
    BY <1>1, <1>5, <2>6 DEF InsideAt
<1> QED
  BY <1>4, <1>5

\* What a port of the document is in the configuration of the node.
LEMMA PortGiven ==
  ASSUME NEW e, NEW p,
         \/ p \in DOMAIN InputPorts(e) \cap DOMAIN Params(e)
         \/ p \in DOMAIN OutputPorts(e) \cap DOMAIN Params(e)
  PROVE  /\ p \in DOMAIN InputPorts(e) \cap DOMAIN Params(e) => InputPorts(e)[p] = Params(e)[p]
         /\ p \in DOMAIN OutputPorts(e) \cap DOMAIN Params(e) => OutputPorts(e)[p] = Params(e)[p]
<1> DEFINE given  == Ports(e, "OUTPUT") \cap DOMAIN Params(e)
           filled == {q \in Ports(e, "OUTPUT") \ given : Manifest[ID(e)].ports[q].default # <<>>}
<1>1. InputPorts(e) = [q \in given \cup filled |->
                         IF q \in given THEN Params(e)[q] ELSE Manifest[ID(e)].ports[q].default]
  BY DEF InputPorts
<1>2. filled \cap DOMAIN Params(e) = {}
  OBVIOUS
<1>3. OutputPorts(e) = [q \in Ports(e, "INPUT") \cap DOMAIN Params(e) |-> Params(e)[q]]
  BY DEF OutputPorts, Restrict
<1> HIDE DEF given, filled
<1> QED
  BY <1>1, <1>2, <1>3

\* The ports of a node that was built have declared what their keys stand for.
LEMMA PortsOfNode ==
  ASSUME NEW e, NEW b, NEW bs, Ranked(bs), Chained(bs), b \in DOMAIN bs,
         ID(e) \in builders => KnownPorts(e),
         \A p \in PointerPorts(e) : Settled(bs, b, e, p), NEW node, node = MakeNode(e, b)
  PROVE  PortsSettled(node, node.in, bs) /\ PortsSettled(node, node.out, bs)
<1>1. node.element = e
  BY NodeMade
<1>2. ASSUME NEW ports, ports \in {node.in, node.out}, NEW p \in DOMAIN ports \cap DOMAIN Params(e),
             GetRemappedKey(p, ports[p]) # NoKey
      PROVE  LET c == Cell(bs, node.board, GetRemappedKey(p, ports[p])) IN
             /\ node.board \in DOMAIN bs /\ Stored(bs, c)
             /\ Agree(TypeAt(bs, c), Manifest[ID(e)].ports[p].type)
  <2>1. /\ ID(e) \in builders /\ node.board = b
        /\ node.in = InputPorts(e) /\ node.out = OutputPorts(e)
    <3>1. node.in # <<>> \/ node.out # <<>>
      BY <1>2
    <3> QED
      BY <3>1, NodeMade
  <2>2. ports[p] = Params(e)[p]
    BY <1>2, <2>1, PortGiven
  <2>3. PICK key : key = KeyOf(e, p)
    OBVIOUS
  <2>4. GetRemappedKey(p, ports[p]) = key
    BY <2>2, <2>3 DEF KeyOf
  <2>5. p \in PointerPorts(e)
    BY <1>2, <2>1, <2>3, <2>4 DEF PointerPorts
  <2>6. Stored(bs, <<b, key>>) /\ Agree(TypeAt(bs, <<b, key>>), Manifest[ID(e)].ports[p].type)
    BY <2>3, <2>5 DEF Settled
  <2>7. Stored(bs, Cell(bs, b, key)) /\ Agree(TypeAt(bs, Cell(bs, b, key)), Manifest[ID(e)].ports[p].type)
    BY <2>6, CellSettled
  <2> QED
    BY <2>1, <2>4, <2>7
<1> QED
  BY <1>1, <1>2 DEF PortsSettled

\* What was declared stays, for nodes that keep their ports.
LEMMA PortsStay ==
  ASSUME NEW bs, NEW bt, Ranked(bs), Ranked(bt), Grown(bs, bt), NEW node, NEW ports,
         PortsSettled(node, ports, bs), NEW moved,
         moved.element = node.element, moved.board = node.board
  PROVE  PortsSettled(moved, ports, bt)
<1> SUFFICES ASSUME NEW p \in DOMAIN ports \cap DOMAIN Params(node.element),
                    GetRemappedKey(p, ports[p]) # NoKey
             PROVE  LET c == Cell(bt, node.board, GetRemappedKey(p, ports[p])) IN
                    /\ node.board \in DOMAIN bt /\ Stored(bt, c)
                    /\ Agree(TypeAt(bt, c), Manifest[ID(node.element)].ports[p].type)
  BY DEF PortsSettled
<1>1. PICK key : key = GetRemappedKey(p, ports[p])
  OBVIOUS
<1>2. PICK b : b = node.board
  OBVIOUS
<1>3. /\ b \in DOMAIN bs /\ Stored(bs, Cell(bs, b, key))
      /\ Agree(TypeAt(bs, Cell(bs, b, key)), Manifest[ID(node.element)].ports[p].type)
  BY <1>1, <1>2 DEF PortsSettled
<1>4. /\ Cell(bt, b, key) = Cell(bs, b, key) /\ Stored(bt, Cell(bt, b, key))
      /\ TypeAt(bt, Cell(bt, b, key)) = TypeAt(bs, Cell(bs, b, key))
  BY <1>3, CellStays
<1>5. b \in DOMAIN bt
  BY <1>3 DEF Grown, SameWays
<1> QED
  BY <1>1, <1>2, <1>3, <1>4, <1>5

\* Ports that are declared stay so, for all nodes.
LEMMA DeclaredStays ==
  ASSUME NEW bs, NEW bt, Ranked(bs), Ranked(bt), Grown(bs, bt), NEW ns, Declared(ns, bs)
  PROVE  Declared(ns, bt)
<1> SUFFICES ASSUME NEW n \in DOMAIN ns
             PROVE  /\ Placed(ns[n], bt)
                    /\ PortsSettled(ns[n], ns[n].in, bt) /\ PortsSettled(ns[n], ns[n].out, bt)
  BY DEF Declared
<1>1. Placed(ns[n], bt)
  BY DEF Declared, Placed, Grown, SameWays
<1>2. PortsSettled(ns[n], ns[n].in, bs) /\ PortsSettled(ns[n], ns[n].out, bs)
  BY DEF Declared
<1> QED
  BY <1>1, <1>2, PortsStay

\* The next visits: the elements inside the node, and those that waited.
LEMMA NextVisited ==
  ASSUME NEW roots, NEW td, NEW m \in Nat, NEW bs, Visits(td, roots, m, bs), td # <<>>,
         NEW ins \in Seq(Reached(roots)), NEW bt, \A c \in DOMAIN bs : c \in DOMAIN bt,
         NEW own \in DOMAIN bt
  PROVE  Visits([i \in DOMAIN ins |-> Visit(ins[i], m + 1, own)] \o Tail(td), roots, m + 1, bt)
<1> DEFINE R == [element : Reached(roots), parent : 0 .. m, board : DOMAIN bs]
           S == [element : Reached(roots), parent : 0 .. m + 1, board : DOMAIN bt]
<1>1. PICK new : new = [i \in DOMAIN ins |-> Visit(ins[i], m + 1, own)]
  OBVIOUS
<1>2. PICK l \in Nat : l = Len(ins) /\ DOMAIN ins = 1 .. l
  OBVIOUS
<1>3. \A i \in 1 .. l : new[i] \in S
  <2> TAKE i \in 1 .. l
  <2>1. ins[i] \in Reached(roots)
    BY <1>2, ElementOfSeq
  <2>2. new[i] = Visit(ins[i], m + 1, own)
    BY <1>1, <1>2
  <2> QED
    BY <2>1, <2>2 DEF Visit
<1>4. R \subseteq S
  OBVIOUS
<1>5. td \in Seq(R)
  BY DEF Visits
<1> HIDE DEF R, S
<1>6. new \in Seq(S)
  <2>1. new \in [1 .. l -> S]
    BY <1>1, <1>2, <1>3
  <2> QED
    BY <2>1, SeqDef
<1>7. td \in Seq(S)
  BY <1>4, <1>5, SeqMonotonic
<1>8. Then(new, td) \in Seq(S \cup S)
  BY <1>6, <1>7, NextVisits
<1>9. Then(new, td) \in Seq(S)
  BY <1>8
<1> QED
  BY <1>1, <1>9 DEF Visits, S, Then

\* createNodeFromXML(): a node is made, its ports are declared, and the elements
\* inside it are visited next; or something throws.
LEMMA BuildInv == IInv /\ BuildNode => IInv'
<1> SUFFICES ASSUME IInv, BuildNode PROVE IInv'
  OBVIOUS
<1>1. PICK w : w = Head(todo)
  OBVIOUS
<1>2. PICK e : e = w.element
  OBVIOUS
<1>3. PICK order \in SetToSeqs(PointerPorts(e)) :
        LET declared == DeclarePorts(boards, w.board, e, order)
            node     == MakeNode(e, w.board)
            board    == BoardFor(declared.boards, node, w.board)
            id       == Len(nodes) + 1
            refusal  == Refusal(w, declared)
        IN IF refusal # "none"
           THEN Throw(refusal) /\ boards' = SubSeq(declared.boards, 1, 1)
           ELSE /\ nodes' = Attach(Append(nodes, node), w.parent, id)
                /\ boards' = board.all
                /\ todo' = [i \in DOMAIN Inside(node) |-> Visit(Inside(node)[i], id, board.own)]
                           \o Tail(todo)
                /\ UNCHANGED <<loading, at, thrown, read>>
  BY <1>1, <1>2 DEF BuildNode
<1>4. PICK declared : declared = DeclarePorts(boards, w.board, e, order)
  OBVIOUS
<1>5. PICK node : node = MakeNode(e, w.board)
  OBVIOUS
<1>6. PICK board : board = BoardFor(declared.boards, node, w.board)
  OBVIOUS
<1>7. PICK refusal : refusal = Refusal(w, declared)
  OBVIOUS
<1>8. /\ refusal # "none" => Throw(refusal) /\ boards' = SubSeq(declared.boards, 1, 1)
      /\ refusal = "none" =>
           /\ nodes' = Attach(Append(nodes, node), w.parent, Len(nodes) + 1)
           /\ boards' = board.all
           /\ todo' = [i \in DOMAIN Inside(node) |-> Visit(Inside(node)[i], Len(nodes) + 1, board.own)]
                      \o Tail(todo)
           /\ UNCHANGED <<loading, at, thrown, read>>
  BY <1>3, <1>4, <1>5, <1>6, <1>7
<1>9. at = "building" /\ todo # <<>> /\ UNCHANGED <<builders, parser>>
  BY DEF BuildNode
<1>10. /\ w.element \in Reached(parser.roots) /\ w.parent \in 0 .. Len(nodes) /\ w.board \in DOMAIN boards
  <2>1. todo \in Seq([element : Reached(parser.roots), parent : 0 .. Len(nodes), board : DOMAIN boards])
    BY DEF IInv, Visits
  <2>2. w \in [element : Reached(parser.roots), parent : 0 .. Len(nodes), board : DOMAIN boards]
    BY <1>1, <1>9, <2>1, HeadTailProperties
  <2> QED
    BY <2>2
<1>11. e \in Element /\ e \in Reached(parser.roots)
  BY <1>2, <1>10 DEF Reached
<1>12. /\ Len(order) \in Nat
       /\ \A port \in PointerPorts(e) : \E i \in 1 .. Len(order) : order[i] = port
  BY <1>3, <1>11, OrderComplete
<1>13. Ranked(boards) /\ Filled(boards) /\ Chained(boards)
  BY <1>9 DEF IInv, Linked
<1>14. /\ Kept(boards, declared.boards) /\ Chained(declared.boards)
       /\ declared.error = "none" =>
            \A i \in 1 .. Len(order) : Settled(declared.boards, w.board, e, order[i])
  BY <1>4, <1>10, <1>12, <1>13, DeclarePortsKeeps
<1>15. Ranked(declared.boards) /\ Filled(declared.boards) /\ Grown(boards, declared.boards)
       /\ DOMAIN declared.boards = DOMAIN boards /\ w.board \in DOMAIN declared.boards
  BY <1>10, <1>14 DEF Kept
<1>16. CASE refusal # "none"
  <2>1. Ranked(boards') /\ Filled(boards') /\ Len(boards') = 1
    BY <1>8, <1>15, <1>16, RootKept
  <2>2. ParserOK(parser')
    BY <1>9 DEF IInv, Known
  <2> QED
    BY <1>8, <1>9, <1>16, <2>1, <2>2, ThrowInv
<1>17. CASE refusal = "none"
  <2>1. /\ ID(e) \in builders => KnownPorts(e)
        /\ ID(e) \in builders \cup Trees /\ declared.error = "none"
    BY <1>2, <1>7, <1>17 DEF Refusal
  <2>2. /\ Ranked(boards') /\ Filled(boards') /\ Grown(declared.boards, boards')
        /\ board.own \in DOMAIN boards' /\ Chained(boards')
    <3>1. boards' = board.all
      BY <1>8, <1>17
    <3> QED
      BY <1>6, <1>14, <1>15, <3>1, BoardForKeeps
  <2>3. Grown(boards, boards')
    BY <1>15, <2>2, GrownTransitive
  <2>4. PICK ins : ins = InsideAt(parser.roots, node)
    OBVIOUS
  <2>5. Inside(node) = ins
    BY <2>4 DEF Inside, InsideAt
  <2>6. /\ Shaped(node) /\ node.kids = <<>> /\ node.element = e /\ node.name = NodeName(e)
        /\ node.type = IF ID(e) \in builders THEN Manifest[ID(e)].type ELSE "SUBTREE"
        /\ \/ /\ ID(e) \in builders /\ node.board = w.board
              /\ node.in = InputPorts(e) /\ node.out = OutputPorts(e)
           \/ node.board = NoBoard /\ node.in = <<>> /\ node.out = <<>>
    BY <1>5, NodeMade
  <2>7. ins \in Seq(Reached(parser.roots))
    BY <1>9, <1>11, <2>1, <2>4, <2>6, InsideReached DEF IInv, Opens
  <2>8. ins \in Seq(Element)
    BY <2>7, SeqMonotonic DEF Reached
  <2>9. PICK m \in Nat : m = Len(nodes)
    BY DEF IInv, Filling
  <2>10. todo' = [i \in DOMAIN ins |-> Visit(ins[i], m + 1, board.own)] \o Tail(todo)
    BY <1>8, <1>17, <2>5, <2>9
  <2>11. Filling(parser.roots', nodes', todo')
    <3>1. Builds(parser.roots, nodes, todo, node, ins, board.own, nodes', todo')
      BY <1>1, <1>2, <1>8, <1>9, <1>17, <2>4, <2>6, <2>8, <2>9, <2>10 DEF Builds
    <3>2. Filling(parser.roots, nodes, todo) /\ Visits(todo, parser.roots, Len(nodes), boards)
      BY DEF IInv
    <3>3. Filling(parser.roots, nodes', todo')
      BY <3>1, <3>2, BuildFills
    <3> QED
      BY <1>9, <3>3
  <2>12. /\ Len(nodes') = m + 1 /\ DOMAIN nodes' = 1 .. m + 1 /\ DOMAIN nodes = 1 .. m
         /\ nodes'[m + 1] = node
         /\ \A n \in 1 .. m : /\ nodes'[n].element = nodes[n].element /\ nodes'[n].board = nodes[n].board
                              /\ nodes'[n].in = nodes[n].in /\ nodes'[n].out = nodes[n].out
    <3>1. nodes \in Seq(Range(nodes)) /\ \A n \in DOMAIN nodes : Shaped(nodes[n])
      BY DEF IInv, Filling
    <3>2. nodes' = Attach(Append(nodes, node), w.parent, Len(nodes) + 1)
      BY <1>8, <1>17
    <3>3. /\ Len(nodes') = Len(nodes) + 1 /\ DOMAIN nodes' = 1 .. Len(nodes) + 1
          /\ DOMAIN nodes = 1 .. Len(nodes)
          /\ nodes'[Len(nodes) + 1] = node
          /\ \A n \in 1 .. Len(nodes) :
               /\ nodes'[n].element = nodes[n].element /\ nodes'[n].board = nodes[n].board
               /\ nodes'[n].in = nodes[n].in /\ nodes'[n].out = nodes[n].out
      BY <1>10, <3>1, <3>2, AttachGives
    <3> QED
      BY <2>9, <3>3
  <2>13. Visits(todo', parser.roots', Len(nodes'), boards')
    <3>1. Visits(todo, parser.roots, m, boards)
      BY <2>9 DEF IInv
    <3>2. \A c \in DOMAIN boards : c \in DOMAIN boards'
      BY <2>3 DEF Grown, SameWays
    <3>3. Visits([i \in DOMAIN ins |-> Visit(ins[i], m + 1, board.own)] \o Tail(todo),
                 parser.roots, m + 1, boards')
      BY <1>9, <2>2, <2>7, <3>1, <3>2, NextVisited
    <3> QED
      BY <1>9, <2>10, <2>12, <3>3
  <2>14. Declared(nodes', boards')
    <3>1. Declared(nodes, boards)
      BY DEF IInv
    <3>2. ASSUME NEW n \in 1 .. m
          PROVE  /\ Placed(nodes'[n], boards') /\ PortsSettled(nodes'[n], nodes'[n].in, boards')
                 /\ PortsSettled(nodes'[n], nodes'[n].out, boards')
      <4>1. /\ Placed(nodes[n], boards) /\ PortsSettled(nodes[n], nodes[n].in, boards)
            /\ PortsSettled(nodes[n], nodes[n].out, boards)
        BY <2>12, <3>1 DEF Declared
      <4>2. /\ nodes'[n].element = nodes[n].element /\ nodes'[n].board = nodes[n].board
            /\ nodes'[n].in = nodes[n].in /\ nodes'[n].out = nodes[n].out
        BY <2>12
      <4>3. Placed(nodes'[n], boards')
        BY <2>3, <4>1, <4>2 DEF Placed, Grown, SameWays
      <4>4. PortsSettled(nodes'[n], nodes[n].in, boards') /\ PortsSettled(nodes'[n], nodes[n].out, boards')
        BY <1>13, <2>2, <2>3, <4>1, <4>2, PortsStay
      <4> QED
        BY <4>2, <4>3, <4>4
    <3>3. \A p \in PointerPorts(e) : Settled(declared.boards, w.board, e, p)
      BY <1>12, <1>14, <2>1
    <3>4. PortsSettled(node, node.in, declared.boards) /\ PortsSettled(node, node.out, declared.boards)
      BY <1>5, <1>14, <1>15, <2>1, <3>3, PortsOfNode
    <3>5. PortsSettled(node, node.in, boards') /\ PortsSettled(node, node.out, boards')
      BY <1>15, <2>2, <3>4, PortsStay
    <3>6. Placed(node, boards')
      BY <1>15, <2>2, <2>6 DEF Placed, Grown, SameWays
    <3>7. \A n \in DOMAIN nodes' : n \in 1 .. m \/ n = m + 1
      BY <2>12
    <3> QED
      BY <2>12, <3>2, <3>5, <3>6, <3>7 DEF Declared
  <2>15. Known' /\ Cleaned' /\ Opens' /\ Linked'
    BY <1>8, <1>9, <1>17, <2>2 DEF IInv, Known, Cleaned, Opens, Linked
  <2>16. ReadsExact'
    BY <1>8, <1>17 DEF IInv, ReadsExact
  <2> QED
    BY <2>2, <2>11, <2>13, <2>14, <2>15, <2>16 DEF IInv
<1> QED
  BY <1>16, <1>17

\* The tree is built once nothing is left to visit.
LEMMA FinishInv == IInv /\ FinishTree => IInv'
<1> SUFFICES ASSUME IInv, FinishTree PROVE IInv'
  OBVIOUS
<1>1. /\ at = "building" /\ todo = <<>> /\ at' = "built"
      /\ UNCHANGED <<builders, parser, loading, todo, nodes, boards, thrown, read>>
  BY DEF FinishTree
<1>2. Known' /\ Cleaned' /\ Opens' /\ Linked'
  BY <1>1 DEF IInv, Known, Cleaned, Opens, Linked
<1>3. ReadsExact'
  BY <1>1 DEF IInv, ReadsExact
<1> QED
  BY <1>1, <1>2, <1>3 DEF IInv

\* ~Tree(): the nodes go, and the boards of the subtrees with them.
LEMMA DestroyInv == IInv /\ DestroyTree => IInv'
<1> SUFFICES ASSUME IInv, DestroyTree PROVE IInv'
  OBVIOUS
<1>1. /\ at = "built" /\ at' = "idle" /\ nodes' = <<>> /\ boards' = SubSeq(boards, 1, 1)
      /\ read' = NoRead /\ UNCHANGED <<builders, parser, loading, todo>> /\ todo = <<>>
  BY DEF DestroyTree, IInv, Cleaned
<1>2. Ranked(boards') /\ Filled(boards') /\ Len(boards') = 1
  BY <1>1, RootKept DEF IInv
<1>3. Known' /\ Cleaned' /\ Opens' /\ Linked'
  BY <1>1, <1>2 DEF IInv, Known, Cleaned, Opens, Linked
<1>4. /\ Visits(todo', parser'.roots, Len(nodes'), boards') /\ Filling(parser'.roots, nodes', todo')
      /\ Declared(nodes', boards')
  BY <1>1, NoTree
<1>5. ReadsExact'
  BY <1>1, NoReadExact
<1> QED
  BY <1>2, <1>3, <1>4, <1>5 DEF IInv

-----------------------------------------------------------------------------
(* The tree is used.                                                       *)

\* A call that keeps the boards, with a read that is exact.
LEMMA UsingInv ==
  ASSUME IInv, NEW bs, NEW e, NEW r, Using(bs, e, r), Kept(boards, bs), ReadsExact'
  PROVE  IInv'
<1>1. /\ at = "built" /\ boards' = bs /\ UNCHANGED <<builders, parser, loading, todo, nodes, at>>
      /\ todo = <<>>
  BY DEF Using, IInv, Cleaned
<1>2. Ranked(boards') /\ Filled(boards') /\ Grown(boards, boards')
  BY <1>1 DEF Kept
<1>3. Known' /\ Cleaned' /\ Opens' /\ Linked'
  BY <1>1 DEF IInv, Known, Cleaned, Opens, Linked
<1>4. Visits(todo', parser'.roots, Len(nodes'), boards') /\ Filling(parser'.roots, nodes', todo')
  BY <1>1, NoVisits DEF IInv
<1>5. Declared(nodes', boards')
  BY <1>1, <1>2, DeclaredStays DEF IInv
<1> QED
  BY <1>2, <1>3, <1>4, <1>5 DEF IInv

\* A call that leaves the boards alone keeps them.
LEMMA KeptSame == ASSUME NEW bs, Ranked(bs), Filled(bs) PROVE Kept(bs, bs)
BY DEF Kept, Grown, SameWays

\* A read of a sane value by its cast is exact; so is any read of a text.
LEMMA ReadingExact ==
  ASSUME NEW any, NEW T, NEW got, Sane(any),
         any.held \in {"int64", "uint64", "double", "string", "none"},
         \/ got = Cast(any, T)
         \/ any.held = "string",
         read' = Reading(any, T, got)
  PROVE  ReadsExact'
<1> SUFFICES ASSUME any.held \in Numeric, T \in Numeric, got.ok,
                    ~ (any.held = "uint64" /\ T = "int64" /\ any.val > MaxOf("int64"))
             PROVE  got.val = any.val
  BY DEF ReadsExact, Reading
<1>1. got = Cast(any, T)
  BY DEF Numeric, Integral, Signed, Unsigned
<1>2. Cast(any, T).val = any.val
  BY <1>1, CastExact
<1> QED
  BY <1>1, <1>2

\* getInput(): the text of the port, or the entry of its key, converted or cast.
LEMMA GetInputInv ==
  ASSUME IInv, NEW n \in DOMAIN nodes, NEW port \in DOMAIN nodes[n].in, NEW T, GetInput(n, port, T)
  PROVE  IInv'
<1>1. nodes[n].board \in DOMAIN boards
  <2>1. Placed(nodes[n], boards)
    BY DEF IInv, Declared
  <2> QED
    BY <2>1 DEF Placed
<1>2. PICK v, key : v = nodes[n].in[port] /\ key = GetRemappedKey(port, v)
  OBVIOUS
<1>3. Using(boards, "none", Input(n, port, T))
  BY DEF GetInput
<1>4. read' = Input(n, port, T)
  BY <1>3 DEF Using
<1>5. Ranked(boards) /\ Filled(boards)
  BY DEF IInv
<1>6. ReadsExact'
  <2>1. CASE key = NoKey
    <3>1. PICK any : any = AnyValue("string", v)
      OBVIOUS
    <3>2. any.held = "string" /\ Sane(any)
      BY <3>1 DEF AnyValue, Held, Sane
    <3>3. read' = Reading(any, T, ConvertFromString(T, any.val))
      BY <1>2, <1>4, <2>1, <3>1 DEF Input
    <3> QED
      BY <3>2, <3>3, ReadingExact
  <2>2. CASE key # NoKey
    <3>1. PICK any : any = GetAny(boards, nodes[n].board, key)
      OBVIOUS
    <3>2. Sane(any) /\ any.held \in {"int64", "uint64", "double", "string", "none"}
      BY <1>1, <1>5, <3>1, GetAnySane
    <3>3. PICK got : /\ got = IF any.type = "string" /\ T # "string"
                              THEN ConvertFromString(T, any.val) ELSE Cast(any, T)
      OBVIOUS
    <3>4. read' = Reading(any, T, got)
      BY <1>2, <1>4, <2>2, <3>1, <3>3 DEF Input
    <3>5. got = Cast(any, T) \/ any.held = "string"
      BY <3>2, <3>3 DEF Sane
    <3> QED
      BY <3>2, <3>4, <3>5, ReadingExact
  <2> QED
    BY <2>1, <2>2
<1> QED
  BY <1>3, <1>5, <1>6, KeptSame, UsingInv

\* What is written keeps the boards, on whatever board and key.
LEMMA SetOutputInv ==
  ASSUME IInv, NEW n \in DOMAIN nodes, nodes[n].board \in DOMAIN boards, NEW port, NEW T, NEW v,
         Held(T) = "int64" => v \in Int, T = "uint64" => Within("uint64", v), SetOutput(n, port, T, v)
  PROVE  IInv'
<1>1. PICK answer : answer = Output(n, port, T, v) /\ Using(answer.boards, answer.error, NoRead)
  BY DEF SetOutput
<1>2. Ranked(boards) /\ Filled(boards)
  BY DEF IInv
<1>3. PICK k : k = OutputKey(n, port)
  OBVIOUS
<1>4. answer = Set(boards, nodes[n].board, k, T, v)
  BY <1>1, <1>3 DEF Output
<1>5. Kept(boards, answer.boards)
  BY <1>2, <1>4, SetKeeps
<1>6. read' = NoRead
  BY <1>1 DEF Using
<1> QED
  BY <1>1, <1>5, <1>6, NoReadExact, UsingInv

\* What the program writes fits its type.
LEMMA WrittenSane ==
  ASSUME NEW w \in Writes
  PROVE  /\ Held(w[1]) = "int64" => w[2] \in Int
         /\ w[1] = "uint64" => Within("uint64", w[2])
BY WritesAssumption, FitsWithin DEF Integral, Unsigned

\* SetBlackboard::tick() writes the text of its value port.
LEMMA TickSetBlackboardInv == ASSUME IInv, NEW n \in DOMAIN nodes, TickSetBlackboard(n) PROVE IInv'
<1>1. PICK key, value : /\ key = Given(n, "output_key") /\ value = Given(n, "value")
        /\ IF key.ok /\ value.ok THEN SetOutput(n, "output_key", "string", value.val)
           ELSE Using(boards, "RuntimeError", NoRead)
  BY DEF TickSetBlackboard
<1>2. CASE key.ok /\ value.ok
  <2>1. "output_key" \in DOMAIN nodes[n].in
    BY <1>1, <1>2 DEF Given, Refused
  <2>2. Placed(nodes[n], boards)
    BY DEF IInv, Declared
  <2>3. nodes[n].board \in DOMAIN boards
    BY <2>1, <2>2 DEF Placed
  <2>4. Held("string") # "int64"
    BY DEF Held
  <2> QED
    BY <1>1, <1>2, <2>3, <2>4, SetOutputInv
<1>3. CASE ~ (key.ok /\ value.ok)
  <2>1. Using(boards, "RuntimeError", NoRead)
    BY <1>1, <1>3
  <2>2. read' = NoRead
    BY <2>1 DEF Using
  <2> QED
    BY <2>1, <2>2, KeptSame, NoReadExact, UsingInv DEF IInv
<1> QED
  BY <1>2, <1>3

\* There is a root board.
LEMMA RootBoard == ASSUME Ranked(boards) PROVE Root \in DOMAIN boards
BY DEF Ranked, Root

\* Blackboard::set() on the root board, by the program.
LEMMA BoardSetInv == ASSUME IInv, NEW k, NEW w \in Writes, BoardSet(k, w[1], w[2]) PROVE IInv'
<1>1. PICK answer : /\ answer = Set(boards, Root, k, w[1], w[2])
                    /\ boards' = answer.boards
  BY DEF BoardSet
<1>2. /\ at \in {"idle", "built"} /\ read' = NoRead
      /\ UNCHANGED <<builders, parser, loading, todo, nodes, at>>
  BY DEF BoardSet
<1>3. Ranked(boards) /\ Filled(boards) /\ Root \in DOMAIN boards
  BY RootBoard DEF IInv
<1>4. Kept(boards, boards')
  <2>1. Kept(boards, Set(boards, Root, k, w[1], w[2]).boards)
    BY <1>3, WrittenSane, SetKeeps
  <2> QED
    BY <1>1, <2>1
<1>5. Ranked(boards') /\ Filled(boards') /\ Grown(boards, boards') /\ DOMAIN boards' = DOMAIN boards
  BY <1>4 DEF Kept
<1>6. Len(boards') = Len(boards)
  BY <1>3, <1>5 DEF Ranked
<1>7. todo = <<>>
  BY <1>2 DEF IInv, Cleaned
<1>8. Known' /\ Cleaned' /\ Opens' /\ Linked'
  BY <1>2, <1>6 DEF IInv, Known, Cleaned, Opens, Linked
<1>9. Visits(todo', parser'.roots, Len(nodes'), boards') /\ Filling(parser'.roots, nodes', todo')
  BY <1>2, <1>7, NoVisits DEF IInv
<1>10. Declared(nodes', boards')
  BY <1>2, <1>3, <1>5, DeclaredStays DEF IInv
<1>11. ReadsExact'
  BY <1>2, NoReadExact
<1> QED
  BY <1>5, <1>8, <1>9, <1>10, <1>11 DEF IInv

\* Blackboard::get() on the root board, by the program.
LEMMA BoardGetInv == ASSUME IInv, NEW k, NEW T, BoardGet(k, T) PROVE IInv'
<1>1. PICK any, got, e : /\ any = GetAny(boards, Root, k) /\ got = Cast(any, T)
                         /\ Using(boards, e, Reading(any, T, got))
  BY DEF BoardGet
<1>2. Ranked(boards) /\ Filled(boards) /\ Root \in DOMAIN boards
  BY RootBoard DEF IInv
<1>3. Sane(any) /\ any.held \in {"int64", "uint64", "double", "string", "none"}
  BY <1>1, <1>2, GetAnySane
<1>4. read' = Reading(any, T, got)
  BY <1>1 DEF Using
<1>5. ReadsExact'
  BY <1>1, <1>3, <1>4, ReadingExact
<1> QED
  BY <1>1, <1>2, <1>5, KeptSame, UsingInv

\* Whatever the nodes and the program do with the boards.
LEMMA UseInv == IInv /\ Use => IInv'
<1> SUFFICES ASSUME IInv, Use PROVE IInv'
  OBVIOUS
<1>1. ASSUME NEW n \in DOMAIN nodes, NEW port \in DOMAIN nodes[n].out, NEW w \in Writes,
             SetOutput(n, port, w[1], w[2])
      PROVE  IInv'
  <2>1. Placed(nodes[n], boards)
    BY DEF IInv, Declared
  <2>2. nodes[n].board \in DOMAIN boards
    BY <2>1 DEF Placed
  <2> QED
    BY <1>1, <2>2, WrittenSane, SetOutputInv
<1> QED
  BY <1>1, GetInputInv, TickSetBlackboardInv, BoardSetInv, BoardGetInv DEF Use

\* A step that changes nothing.
LEMMA StutterInv == IInv /\ UNCHANGED vars => IInv'
BY DEF vars, IInv, Known, Cleaned, Opens, Linked, ReadsExact

\* Every step keeps the inductive invariant.
LEMMA NextInv == IInv /\ [Next]_vars => IInv'
BY RegisterInv, LoadFromFileInv, LoadIncludeInv, LoadTreesInv, ClearInv, InstantiateInv, BuildInv,
   FinishInv, DestroyInv, UseInv, StutterInv DEF Next

\* The inductive invariant always holds.
LEMMA Invariance == Spec => []IInv
BY InitInv, NextInv, PTL DEF Spec

-----------------------------------------------------------------------------
(* What the loader promises.                                               *)

\* The variables hold what they are for: the parser knows trees by their
\* elements, and every visit of createNodeFromXML has an element, a parent and a
\* board that are there.
THEOREM LoaderTypeOK == Spec => []TypeOK
<1>1. IInv => TypeOK
  <2> SUFFICES ASSUME IInv PROVE TypeOK
    OBVIOUS
  <2>1. Known /\ Cleaned /\ Ranked(boards) /\ Declared(nodes, boards)
        /\ Visits(todo, parser.roots, Len(nodes), boards)
    BY DEF IInv
  <2>2. Range(todo) \subseteq [element : Element, parent : 0 .. Len(nodes), board : DOMAIN boards]
    <3>1. todo \in Seq([element : Reached(parser.roots), parent : 0 .. Len(nodes), board : DOMAIN boards])
      BY <2>1 DEF Visits
    <3>2. \A i \in DOMAIN todo :
            todo[i] \in [element : Reached(parser.roots), parent : 0 .. Len(nodes), board : DOMAIN boards]
      <4> TAKE i \in DOMAIN todo
      <4>1. i \in 1 .. Len(todo)
        BY <3>1, LenProperties
      <4> QED
        BY <3>1, <4>1, ElementOfSeq
    <3>3. Reached(parser.roots) \subseteq Element
      BY DEF Reached
    <3> QED
      BY <3>2, <3>3 DEF Range
  <2>3. \A n \in DOMAIN nodes : nodes[n].board \in DOMAIN boards \cup {NoBoard}
    BY <2>1 DEF Declared, Placed
  <2> QED
    BY <2>1, <2>2, <2>3 DEF TypeOK, Known, ParserOK, Cleaned, Ranked
<1> QED
  BY <1>1, Invariance, PTL

\* Whoever writes to a typed entry, it holds a value of its type or none: a
\* declared port that setPortInfo() typed is never overwritten by Blackboard::set()
\* with a value of another type, through whatever remapping it is reached.
THEOREM LoaderTypeLocked == Spec => []TypeLocked
<1>1. IInv => TypeLocked
  BY DEF IInv, Filled, Fitting, TypeLocked
<1> QED
  BY <1>1, Invariance, PTL

\* A number that is read as one of another type is the same number, or the read is
\* refused, but for an unsigned 64-bit number above the largest signed one that is
\* read as a signed one: what getInput() and Blackboard::get() return has been
\* through the checks of Any::convert(), for integers and mantissas of any size.
THEOREM LoaderReadsExact == Spec => []ReadsExact
<1>1. IInv => ReadsExact
  BY DEF IInv
<1> QED
  BY <1>1, Invariance, PTL

\* Once instantiateTree() returns, a node that goes by the name of a control node,
\* a decorator or SubTree has a child for every element inside its own, in the order
\* of the document, however recursivelyCreateSubtree nests the subtrees, and a node
\* of any other name has no child.
THEOREM LoaderWhole == Spec => []Whole
<1>1. IInv => Whole
  <2>11. ASSUME IInv, NEW n \in DOMAIN nodes, nodes[n].name \notin Controls \cup Wrappers
         PROVE  nodes[n].kids = <<>>
    BY <2>11 DEF IInv, Filling, Fills, Controlled
  <2> SUFFICES ASSUME IInv, at = "built", NEW n \in DOMAIN nodes, nodes[n].name \in Controls \cup Wrappers
               PROVE  /\ [i \in DOMAIN nodes[n].kids |-> nodes[nodes[n].kids[i]].element] = Inside(nodes[n])
                      /\ \A i \in DOMAIN nodes[n].kids : nodes[n].kids[i] > n
    BY <2>11 DEF Whole
  <2>1. todo = <<>>
    BY DEF IInv, Cleaned
  <2>2. PICK kids, ins : kids = nodes[n].kids /\ ins = InsideAt(parser.roots, nodes[n])
    OBVIOUS
  <2>3. Inside(nodes[n]) = ins
    BY <2>2 DEF Inside, InsideAt
  <2>4. Fills(parser.roots, nodes, todo, n) /\ nodes \in Seq(Range(nodes))
    BY DEF IInv, Filling
  <2>5. /\ kids \in Seq(Int) /\ \A i \in DOMAIN kids : kids[i] \in n + 1 .. Len(nodes)
        /\ ins \in Seq(Element) /\ Len(ins) - Len(kids) >= 0
        /\ \A i \in DOMAIN kids : nodes[kids[i]].element = ins[i]
        /\ \E s \in 0 .. Len(todo) : s + (Len(ins) - Len(kids)) <= Len(todo)
    BY <2>2, <2>4 DEF Fills, Waits, Missing, Controlled
  <2>6. Len(todo) = 0
    BY <2>1
  <2>7. PICK l \in Nat : l = Len(ins) /\ l = Len(kids) /\ DOMAIN kids = 1 .. l /\ DOMAIN ins = 1 .. l
    <3>1. Len(ins) \in Nat /\ Len(kids) \in Nat
      BY <2>5
    <3>2. Len(ins) = Len(kids)
      BY <2>5, <2>6, <3>1
    <3> QED
      BY <2>5, <3>1, <3>2
  <2>8. ins = [i \in 1 .. l |-> ins[i]]
    BY <2>5, <2>7
  <2>9. [i \in DOMAIN kids |-> nodes[kids[i]].element] = ins
    BY <2>5, <2>7, <2>8
  <2>10. n \in Nat /\ \A i \in DOMAIN kids : kids[i] > n
    BY <2>4, <2>5
  <2> QED
    BY <2>2, <2>3, <2>9, <2>10
<1> QED
  BY <1>1, Invariance, PTL

\* A port that the document points to a key stands for an entry, on whatever board
\* of a subtree the key is remapped, and if the entry has a type the port has that
\* type or none: setPortInfo() throws first. An untyped entry says nothing of its ports.
THEOREM LoaderTypesAgree == Spec => []TypesAgree
<1>1. IInv => TypesAgree
  BY DEF IInv, TypesAgree, Declared, PortsSettled, Bound, Agree
<1> QED
  BY <1>1, Invariance, PTL

=============================================================================
