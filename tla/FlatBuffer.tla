----------------------------- MODULE FlatBuffer -----------------------------
(***************************************************************************)
(* The vendored FlatBuffers library, as far as the loggers need it: the    *)
(* builder writes a buffer from its end to its start, the tables read it,  *)
(* the verifier checks it.  A buffer is the sequence of its bytes; in a    *)
(* buffer being built an object is named by its distance from the end, in  *)
(* a finished one by its position, counted from 0.  Nothing is read or     *)
(* written here but values of these operators; TreeLog keeps the state.    *)
(***************************************************************************)
EXTENDS Integers, Sequences, SequencesExt

CONSTANT InitialSize         \* initial_size_ of the buffer, 1024 by default

ASSUME SizeAssumption == InitialSize \in Nat

MinAlign  == 8               \* buffer_minalign_: AlignOf<largest_scalar_t>()
MaxAlign  == 16              \* FLATBUFFERS_MAX_ALIGNMENT
OffsetSize   == 4            \* sizeof(uoffset_t)
FieldLocSize == 8
Null         == -1

Larger(a, b) == IF a > b THEN a ELSE b

\* WriteScalar on a little-endian machine: n bytes, in two's complement.
Power == <<1, 256, 65536, 16777216>>
ByteOf(v, i) ==
  IF i > 4 THEN (IF v < 0 THEN 255 ELSE 0) ELSE (v \div Power[i]) % 256
Bytes(v, n) == [i \in 1 .. n |-> ByteOf(v, i)]

\* The elements of an array of scalars of n bytes.
ArrayBytes(vs, n) ==
  [k \in 1 .. n * Len(vs) |-> ByteOf(vs[1 + ((k - 1) \div n)], 1 + ((k - 1) % n))]

\* F(x); TLC works x out before it turns to F, and does not nest the two.
With(x, F(_)) == CHOOSE y \in {F(v) : v \in {x}} : TRUE

\* The loops below: from a value to the next, for the elements of a sequence.
Through(Step(_, _), base, xs) ==
  LET Loop(start) ==
        LET After[i \in 0 .. Len(xs)] ==
              IF i = 0 THEN start ELSE With(After[i - 1], LAMBDA v : Step(v, xs[i]))
        IN After[Len(xs)]
  IN With(base, Loop)

\* ReadScalar of one, two and four bytes, and of a signed offset.
Byte1(buf, p)  == buf[p + 1]
Word2(buf, p)  == buf[p + 1] + 256 * buf[p + 2]
Offset4(buf, p) ==
  Word2(buf, p) + 65536 * (buf[p + 3] + 256 * (IF buf[p + 4] < 128 THEN buf[p + 4] ELSE buf[p + 4] - 256))
Scalar(buf, p, n) == CASE n = 1 -> Byte1(buf, p) [] n = 2 -> Word2(buf, p) [] n = 4 -> Offset4(buf, p)

PaddingBytes(size, align) == (- size) % align

-----------------------------------------------------------------------------
\* Reading: tables through their vtable, vectors and strings through pointers.
GetRoot(buf)   == Offset4(buf, 0)
GetVTable(buf, t) == t - Offset4(buf, t)

FieldOffset(buf, t, slot) ==
  With(GetVTable(buf, t),
       LAMBDA vt : IF slot < Word2(buf, vt) THEN Word2(buf, vt + slot) ELSE 0)

GetField(buf, t, slot, n, default) ==
  With(FieldOffset(buf, t, slot), LAMBDA f : IF f = 0 THEN default ELSE Scalar(buf, t + f, n))

GetPointer(buf, t, slot) ==
  With(FieldOffset(buf, t, slot), LAMBDA f : IF f = 0 THEN Null ELSE t + f + Offset4(buf, t + f))

VectorLength(buf, v) == IF v = Null THEN 0 ELSE Offset4(buf, v)
VectorData(v)        == v + OffsetSize

Scalars(buf, v, n) ==
  [i \in 1 .. VectorLength(buf, v) |-> Scalar(buf, VectorData(v) + n * (i - 1), n)]

Pointees(buf, v) ==
  [i \in 1 .. VectorLength(buf, v) |->
     LET p == VectorData(v) + OffsetSize * (i - 1) IN p + Offset4(buf, p)]

GetString(buf, s) ==
  IF s = Null THEN <<>> ELSE SubSeq(buf, VectorData(s) + 1, VectorData(s) + VectorLength(buf, s))

-----------------------------------------------------------------------------
\* vector_downward: the bytes in use at the back, and at the front the scratch
\* pad, which holds first the offsets of the vtables written so far and then a
\* FieldLoc for every field of the table being built.
NewBuilder ==
  [reserved |-> 0, back |-> <<>>, vtables |-> <<>>, fields |-> <<>>, maxVoffset |-> 0,
   nested |-> FALSE, finished |-> FALSE, minalign |-> 1, ok |-> TRUE]

Size(b)        == Len(b.back)
ScratchSize(b) == OffsetSize * Len(b.vtables) + FieldLocSize * Len(b.fields)
Free(b)        == b.reserved - Size(b) - ScratchSize(b)      \* cur_ - scratch_
Require(b, p)   == [b EXCEPT !.ok = @ /\ p]                   \* FLATBUFFERS_ASSERT

\* Both ends are copied, so only the room between them changes.
Reallocate(b, len) ==
  LET more == b.reserved + Larger(len, IF b.reserved # 0 THEN b.reserved \div 2 ELSE InitialSize)
  IN [b EXCEPT !.reserved = more + PaddingBytes(more, MinAlign)]

\* A buffer that does not look at the scratch pad when it makes room.
Grown(b, len, room) == IF len > room THEN Reallocate(b, len) ELSE b
EnsureSpaceForgetful(b, len) == Grown(Require(b, Free(b) >= 0), len, b.reserved - Size(b))

EnsureSpace(b, len) == Grown(Require(b, Free(b) >= 0), len, Free(b))

Push(b, bytes) ==
  IF bytes = <<>> THEN b ELSE [EnsureSpace(b, Len(bytes)) EXCEPT !.back = bytes \o @]

Fill(b, n) == [EnsureSpace(b, n) EXCEPT !.back = [i \in 1 .. n |-> 0] \o @]

Pop(b, n) == [b EXCEPT !.back = SubSeq(@, n + 1, Len(@))]

\* data_at: the place of an offset from the end, as a position in b.back.
DataAt(b, off) == Size(b) - off

WriteAt(b, off, bytes) ==
  LET p == DataAt(b, off)
  IN [b EXCEPT !.back = SubSeq(@, 1, p) \o bytes \o SubSeq(@, p + Len(bytes) + 1, Len(@))]

RememberVTable(b, off) == [EnsureSpace(b, OffsetSize) EXCEPT !.vtables = Append(@, off)]

ClearOffsets(b) == [b EXCEPT !.fields = <<>>, !.maxVoffset = 0]
ClearScratch(b) == [b EXCEPT !.vtables = <<>>, !.fields = <<>>]

\* FlatBufferBuilder: Clear keeps the memory, Release hands it to the caller
\* and leaves the flags as they are.
Clear(b) == [ClearScratch(ClearOffsets(b)) EXCEPT !.back = <<>>, !.nested = FALSE,
                                                  !.finished = FALSE, !.minalign = 1]
Release(b) == [ClearScratch(Require(b, b.finished)) EXCEPT !.back = <<>>, !.reserved = 0]

-----------------------------------------------------------------------------
\* Scalars, and references to what is already in the buffer.
TrackMinAlign(b, n) == [b EXCEPT !.minalign = Larger(@, n)]
Align(b, n)         == Fill(TrackMinAlign(b, n), PaddingBytes(Size(b), n))
PreAlign(b, len, n) == Fill(TrackMinAlign(b, n), PaddingBytes(Size(b) + len, n))
PushElement(b, v, n) == Push(Align(b, n), Bytes(v, n))

\* ReferTo: the value that refers to off from the next place to be written.
Distance(b, off) == Size(b) - off + OffsetSize
Referring(b, off) ==
  With(Align(b, OffsetSize), LAMBDA a : Require(a, off # 0 /\ off <= Size(a)))
PushOffset(b, off) ==
  With(Referring(b, off), LAMBDA a : PushElement(a, Distance(a, off), OffsetSize))

NotNested(b) == Require(b, ~ b.nested /\ b.fields = <<>>)

-----------------------------------------------------------------------------
\* Tables.  A field is added only when it has a value to tell.
TrackField(b, slot) ==
  [EnsureSpace(b, FieldLocSize) EXCEPT !.fields = Append(@, [off |-> Size(b), id |-> slot]),
                                       !.maxVoffset = Larger(@, slot)]

AddElement(b, slot, v, n, default) ==
  IF v = default THEN b ELSE TrackField(PushElement(b, v, n), slot)

AddOffset(b, slot, off) ==
  IF off = 0 THEN b
  ELSE With(Referring(b, off),
            LAMBDA a : AddElement(a, slot, Distance(a, off), OffsetSize, 0))

\* An object just written: the builder after it, and its offset.
Made(b, off) == [b |-> b, off |-> off]
MadeHere(b)  == Made(b, Size(b))

StartTable(b) == [NotNested(b) EXCEPT !.nested = TRUE]

\* The vtable: its size, the size of the object, and where each field is.
VTable(b, loc, start) ==
  LET size == Larger(b.maxVoffset + 2, 4)
      At(id) == LET its == SelectSeq(b.fields, LAMBDA f : f.id = id)
                IN IF its = <<>> THEN 0 ELSE loc - Last(its).off
      words == [k \in 1 .. size \div 2 |->
                  CASE k = 1 -> size [] k = 2 -> loc - start [] OTHER -> At(2 * (k - 1))]
  IN ArrayBytes(words, 2)

\* A builder that shares a vtable as soon as the sizes agree.
SameVTableShallow(b, off, vt) == Word2(b.back, DataAt(b, off)) = Len(vt)

\* memcmp with a vtable written before, whose size is its first word.
SameVTable(b, off, vt) ==
  LET p == DataAt(b, off)
  IN Word2(b.back, p) = Len(vt) /\ SubSeq(b.back, p + 1, p + Len(vt)) = vt

\* The vtable just written, or the one like it that was written before it.
ShareVTable(b, loc, vt) ==
  LET known == SelectSeq(b.vtables, LAMBDA off : SameVTable(b, off, vt))
  IN IF known # <<>> THEN Made(Pop(b, Size(b) - loc), Head(known))
     ELSE Made(RememberVTable(b, Size(b)), Size(b))

SoundTable(b, loc, start) ==
  /\ loc - start < 65536
  /\ \A i, j \in DOMAIN b.fields : b.fields[i].id = b.fields[j].id => i = j

WriteVTable(b, loc, start) ==
  With(VTable(b, loc, start), LAMBDA vt :
    ShareVTable(ClearOffsets(Push(Require(b, SoundTable(b, loc, start)), vt)), loc, vt))

EndTable(b, start) ==
  With(PushElement(Require(b, b.nested), 0, OffsetSize), LAMBDA p :
    With(WriteVTable(p, Size(p), start), LAMBDA v :
      Made([WriteAt(v.b, Size(p), Bytes(v.off - Size(p), OffsetSize)) EXCEPT !.nested = FALSE],
           Size(p))))

\* What the generated Create functions do: start a table, add its fields in
\* their order, end it, and assert that the required ones are there.
Field(slot, v, n)  == [slot |-> slot, value |-> v, size |-> n, refers |-> FALSE]
Refer(slot, off)   == [slot |-> slot, value |-> off, size |-> OffsetSize, refers |-> TRUE]
AddField(b, f) ==
  IF f.refers THEN AddOffset(b, f.slot, f.value) ELSE AddElement(b, f.slot, f.value, f.size, 0)

CreateTable(b, fields, required) ==
  With(EndTable(Through(AddField, StartTable(b), fields), Size(b)), LAMBDA t :
    [t EXCEPT !.b = Require(@, \A slot \in required :
                                 FieldOffset(@.back, DataAt(@, t.off), slot) # 0)])

-----------------------------------------------------------------------------
\* Strings and vectors: the elements, last one first, and then their number.
CreateString(b, text) ==
  LET a == Fill(PreAlign(NotNested(b), Len(text) + 1, OffsetSize), 1)
  IN MadeHere(PushElement(Push(a, text), Len(text), OffsetSize))

StartVector(b, len, size) ==
  PreAlign(PreAlign([NotNested(b) EXCEPT !.nested = TRUE], len * size, OffsetSize),
           len * size, size)

EndVector(b, len) ==
  MadeHere(PushElement([Require(b, b.nested) EXCEPT !.nested = FALSE], len, OffsetSize))

CreateVector(b, elems, n) ==
  EndVector(Push(StartVector(b, Len(elems), n), ArrayBytes(elems, n)), Len(elems))

CreateVectorOfOffsets(b, offs) ==
  EndVector(Through(PushOffset, StartVector(b, Len(offs), OffsetSize), Reverse(offs)), Len(offs))

Finish(b, root) ==
  [PushOffset(PreAlign(ClearScratch(NotNested(b)), OffsetSize, b.minalign), root)
     EXCEPT !.finished = TRUE]

\* Each x written in turn: the builder after them, and their offsets.
Each(b, xs, Write(_, _)) ==
  Through(LAMBDA acc, x :
            With(Write(acc.b, x), LAMBDA m : [b |-> m.b, offs |-> Append(acc.offs, m.off)]),
          [b |-> b, offs |-> <<>>], xs)

-----------------------------------------------------------------------------
\* GetBufferStartFromRootPointer: the nearest word below the root, or below its
\* vtable, that refers to the root; Null stands for the failed assertion.
BufferStart(buf, root) ==
  LET At(k)  == With(IF GetVTable(buf, root) < root THEN GetVTable(buf, root) ELSE root,
                     LAMBDA low : low - (low % OffsetSize) - OffsetSize * k)
      found  == {k \in 1 .. MaxAlign \div OffsetSize + 1 :
                   At(k) >= 0 /\ At(k) + Offset4(buf, At(k)) = root}
  IN IF found = {} THEN Null ELSE At(CHOOSE k \in found : \A j \in found : k <= j)

-----------------------------------------------------------------------------
\* Verifier: what may be read, and that it is aligned.
InRange(buf, p, len) == 0 <= p /\ len < Len(buf) /\ p <= Len(buf) - len
Aligned(p, n)        == p % n = 0
ScalarFits(buf, p, n) == Aligned(p, n) /\ InRange(buf, p, n)

OffsetFits(buf, p) ==
  /\ ScalarFits(buf, p, OffsetSize)
  /\ Offset4(buf, p) > 0
  /\ InRange(buf, p + Offset4(buf, p), 1)

VectorFits(buf, v, n) ==
  \/ v = Null
  \/ ScalarFits(buf, v, OffsetSize) /\ Offset4(buf, v) >= 0
     /\ InRange(buf, v, OffsetSize + n * Offset4(buf, v))

StringFits(buf, s) ==
  \/ s = Null
  \/ LET end == VectorData(s) + Offset4(buf, s)
     IN VectorFits(buf, s, 1) /\ InRange(buf, end, 1) /\ Byte1(buf, end) = 0

TableStarts(buf, t) ==
  /\ ScalarFits(buf, t, OffsetSize)
  /\ \E vt \in {GetVTable(buf, t)} :
        /\ ScalarFits(buf, vt, 2)
        /\ Aligned(Word2(buf, vt), 2)
        /\ InRange(buf, vt, Word2(buf, vt))

FieldFits(buf, t, slot, n) ==
  \E f \in {FieldOffset(buf, t, slot)} : f = 0 \/ InRange(buf, t + f, n)

OffsetFieldFits(buf, t, slot, required) ==
  \E f \in {FieldOffset(buf, t, slot)} : IF f = 0 THEN ~ required ELSE OffsetFits(buf, t + f)

\* An offset field and what it refers to.
StringField(buf, t, slot, required) ==
  OffsetFieldFits(buf, t, slot, required) /\ StringFits(buf, GetPointer(buf, t, slot))

VectorField(buf, t, slot, n) ==
  OffsetFieldFits(buf, t, slot, FALSE) /\ VectorFits(buf, GetPointer(buf, t, slot), n)

TablesField(buf, t, slot, Verify(_, _)) ==
  /\ VectorField(buf, t, slot, OffsetSize)
  /\ \A p \in Range(Pointees(buf, GetPointer(buf, t, slot))) : Verify(buf, p)

RootFits(buf, Verify(_, _)) == OffsetFits(buf, 0) /\ Verify(buf, GetRoot(buf))

=============================================================================
