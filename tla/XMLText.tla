------------------------------- MODULE XMLText -------------------------------
(***************************************************************************)
(* The text of tinyxml2: what StrPair makes of the characters between two  *)
(* pieces of markup, what XMLPrinter writes for them, and the conversions  *)
(* of XMLUtil.  A string is a sequence of bytes without the terminator;    *)
(* a read past its end gives NUL.                                          *)
(***************************************************************************)
EXTENDS Integers, Sequences, SequencesExt

Byte == 0 .. 255
NUL       == 0
LF        == 10
CR        == 13
Space     == 32
Quot      == 34
Hash      == 35
Amp       == 38
Apos      == 39
Semicolon == 59
Lt        == 60
Gt        == 62
HexMark   == 120

IsDigit(c)   == c \in 48 .. 57
IsAlpha(c)   == c \in 65 .. 90 \cup 97 .. 122
IsWhiteSpace(c)    == c \in {9, 10, 11, 12, 13, 32}
IsNameStartChar(c) == c >= 128 \/ IsAlpha(c) \/ c \in {58, 95}
IsNameChar(c)      == IsNameStartChar(c) \/ IsDigit(c) \/ c \in {45, 46}

At(s, i) == IF i \in DOMAIN s THEN s[i] ELSE NUL

\* A C string ends at its first NUL.
CString(s) ==
  IF NUL \in Range(s) THEN SubSeq(s, 1, SelectInSeq(s, LAMBDA c : c = NUL) - 1) ELSE s

StartsAt(s, i, t) == \A k \in DOMAIN t : At(s, i + k - 1) = t[k]

\* Where t occurs in s at or after i; 0 if it does not.
Find(s, i, t) ==
  LET where == {k \in i .. Len(s) : StartsAt(s, k, t)}
  IN IF where = {} THEN 0 ELSE CHOOSE k \in where : \A j \in where : k <= j

\* The first position at or after i that holds no white space.
SkipWhiteSpace(s, i) ==
  CHOOSE k \in i .. Len(s) + 1 :
    /\ ~ IsWhiteSpace(At(s, k))
    /\ \A j \in i .. k - 1 : IsWhiteSpace(s[j])

-----------------------------------------------------------------------------
\* ParseText and ParseName: the piece they take, and where they go on; nothing
\* when the end tag is missing, or no name starts here.
NoPiece        == [found |-> FALSE]
Piece(s, i, k, skip) == [found |-> TRUE, str |-> SubSeq(s, i, k - 1), next |-> k + skip]

ParseText(s, i, endTag) ==
  LET k == Find(s, i, endTag) IN IF k = 0 THEN NoPiece ELSE Piece(s, i, k, Len(endTag))

ParseName(s, i) ==
  IF ~ IsNameStartChar(At(s, i)) THEN NoPiece
  ELSE Piece(s, i, CHOOSE k \in i + 1 .. Len(s) + 1 :
                     /\ ~ IsNameChar(At(s, k))
                     /\ \A j \in i + 1 .. k - 1 : IsNameChar(s[j]), 0)

\* UTF-8 of a code point; nothing from 0x200000 on.
Continuation(u) == 128 + (u % 64)

ConvertUTF32ToUTF8(u) ==
  CASE u < 128     -> <<u>>
    [] u \in 128 .. 2047      -> <<192 + (u \div 64), Continuation(u)>>
    [] u \in 2048 .. 65535    -> <<224 + (u \div 4096), Continuation(u \div 64), Continuation(u)>>
    [] u \in 65536 .. 2097151 -> <<240 + (u \div 262144), Continuation(u \div 4096),
                                   Continuation(u \div 64), Continuation(u)>>
    [] OTHER -> <<>>

\* The digits of a reference; at most seven of them, so that none overflows.
DigitOf(c, base) ==
  IF IsDigit(c) THEN c - 48
  ELSE IF base = 16 /\ c \in 97 .. 102 THEN c - 87
  ELSE IF base = 16 /\ c \in 65 .. 70 THEN c - 55 ELSE -1

Numeral[ds \in Seq(Byte), base \in {10, 16}] ==
  IF ds = <<>> THEN 0
  ELSE base * Numeral[Front(ds), base] + DigitOf(Last(ds), base)

\* A character reference at i runs up to the first semicolon after it, wherever
\* that is; with anything but digits in it, it is no reference.
CharacterRef(ds, base, semi) ==
  IF semi = 0 \/ \E c \in Range(ds) : DigitOf(c, base) = -1 THEN NoPiece
  ELSE [found |-> TRUE, str |-> ConvertUTF32ToUTF8(Numeral[ds, base]), next |-> semi + 1]
GetCharacterRef(s, i) ==
  LET Digits(first, base, semi) == CharacterRef(SubSeq(s, first, semi - 1), base, semi)
      From(first, base) == Digits(first, base, Find(s, first, <<Semicolon>>))
  IN IF At(s, i + 2) = HexMark THEN From(i + 3, 16) ELSE From(i + 2, 10)

\* quot, amp, apos, lt, gt
Entities == << <<Quot, <<113, 117, 111, 116>> >>, <<Amp, <<97, 109, 112>> >>,
               <<Apos, <<97, 112, 111, 115>> >>, <<Lt, <<108, 116>> >>, <<Gt, <<103, 116>> >> >>
Pattern(e) == <<Amp>> \o e[2] \o <<Semicolon>>

EntityAt(s, i) ==
  LET here == {k \in DOMAIN Entities : StartsAt(s, i, Pattern(Entities[k]))} IN
  IF here = {} THEN NoPiece
  ELSE LET e == Entities[CHOOSE k \in here : TRUE]
       IN [found |-> TRUE, str |-> <<e[1]>>, next |-> i + Len(Pattern(e))]

\* What GetStr() does from read position p and write position q on: it writes
\* into the buffer it reads.  An unknown entity is stepped over, not copied.
Put(buf, q, s) == [k \in DOMAIN buf |-> IF k \in q .. q + Len(s) - 1 THEN s[k - q + 1] ELSE buf[k]]

ReferenceAt(buf, p) ==
  IF At(buf, p + 1) = Hash THEN GetCharacterRef(buf, p) ELSE EntityAt(buf, p)

Translate[buf \in Seq(Byte), p \in Nat, q \in Nat, entities \in BOOLEAN] ==
  LET From(c, ref) ==
          IF c \in {CR, LF}
          THEN Translate[Put(buf, q, <<LF>>),
                         p + IF At(buf, p + 1) \in {CR, LF} \ {c} THEN 2 ELSE 1, q + 1, entities]
          ELSE IF c # Amp \/ ~ entities THEN Translate[Put(buf, q, <<c>>), p + 1, q + 1, entities]
          ELSE IF ref.found
          THEN Translate[Put(buf, q, ref.str), ref.next, q + Len(ref.str), entities]
          ELSE IF At(buf, p + 1) = Hash THEN Translate[Put(buf, q, <<c>>), p + 1, q + 1, entities]
          ELSE Translate[buf, p + 1, q + 1, entities]
  IN IF p > Len(buf) THEN SubSeq(buf, 1, q - 1) ELSE From(buf[p], ReferenceAt(buf, p))

\* White space inside becomes one blank, at the ends it goes.
Words(s) ==
  SelectSeq([i \in DOMAIN s |-> IF ~ IsWhiteSpace(s[i]) THEN s[i]
                                ELSE IF ~ IsWhiteSpace(At(s, i + 1)) THEN Space ELSE LF],
            LAMBDA c : c # LF)
Unended(w) == IF w # <<>> /\ Last(w) = Space THEN Front(w) ELSE w
CollapseWhitespace(s) == Unended(Words(SubSeq(s, SkipWhiteSpace(s, 1), Len(s))))

Piecewise(s, collapse) == IF collapse THEN CollapseWhitespace(s) ELSE s
GetStr(raw, entities, collapse) ==
  Piecewise(CString(Translate[raw, 1, 1, entities]), collapse)

-----------------------------------------------------------------------------
\* What the printer writes: inside text the quotes stay as they are.
PrintChar(c, restricted) ==
  LET e == {k \in DOMAIN Entities : Entities[k][1] = c} IN
  IF e = {} \/ (restricted /\ c \in {Quot, Apos}) THEN <<c>>
  ELSE Pattern(Entities[CHOOSE k \in e : TRUE])

PrintString(s, restricted) == FlattenSeq([i \in DOMAIN s |-> PrintChar(s[i], restricted)])
=============================================================================
