------------------------------ MODULE CodeProofs ------------------------------
(******************************************************************************)
(* How instructions lie in a chunk (src/src/chunk.h), and the invariant of    *)
(* the compiler's walk over it (src/src/compiler.cpp): one instruction comes  *)
(* after the other, each in bytes of its own, every jump without a target is  *)
(* remembered by one item of the walk, and the CONSTs read the pool in order. *)
(* A step that emits, patches or does neither keeps the invariant.            *)
(*                                                                            *)
(* The second half is the typing the VM (src/src/vm.cpp) takes for granted,   *)
(* as it grows with the code: it says what a further instruction, a patched   *)
(* jump, a constant or the start of a function's code does to it, and that    *)
(* code typed to its end is what WellTyped asks for.                          *)
(******************************************************************************)
EXTENDS TreeProofs, CodeShape, FiniteSetTheorems

(* The numbers of the opcodes that the arguments tell apart. *)
WithOperand == {0, 1, 2, 13, 14, 15}
JumpOps == {13, 14}

LEMMA OpCodesAre ==
    /\ C!OpCode.CONST = 0 /\ C!OpCode.LOAD_LOCAL = 1 /\ C!OpCode.STORE_LOCAL = 2
    /\ C!OpCode.ADD = 4 /\ C!OpCode.SUB = 5 /\ C!OpCode.MUL = 6 /\ C!OpCode.DIV = 7
    /\ C!OpCode.NEG = 8 /\ C!OpCode.EQ = 9 /\ C!OpCode.LT = 10 /\ C!OpCode.GT = 11
    /\ C!OpCode.NOT = 12 /\ C!OpCode.JUMP = 13 /\ C!OpCode.JUMP_IF_FALSE = 14
    /\ C!OpCode.CALL = 15 /\ C!OpCode.RETURN = 16 /\ C!OpCode.PRINT = 17
    /\ C!OpCode.HALT = 18
BY DEF C!OpCode

LEMMA OperandOps == \A op : C!HasOperand(op) <=> op \in WithOperand
BY OpCodesAre DEF C!HasOperand, WithOperand

Length(op) == IF op \in WithOperand THEN 3 ELSE 1

LEMMA LengthsAre ==
    /\ \A op : C!InstructionLength(op) = Length(op) /\ Length(op) \in {1, 3}
    /\ \A op \in WithOperand : Length(op) = 3
BY OperandOps DEF C!InstructionLength, Length

(* Two bytes hold an operand. *)
Low(n) == n % ByteBase
High(n) == (n \div ByteBase) % ByteBase

LEMMA OperandFitsTwoBytes ==
    ASSUME NEW n \in 0 .. MaxOperand
    PROVE  Low(n) + High(n) * ByteBase = n /\ Low(n) \in Nat /\ High(n) \in Nat
<1> DEFINE b == ByteBase
           q == n \div b
<1>1. b \in Nat /\ b > 18 /\ n \in Nat /\ n < b * b
  BY PipelineAssumption
<1> HIDE DEF b
<1>2. q \in Nat /\ n % b \in 0 .. b - 1 /\ n = b * q + (n % b)
  BY <1>1
<1> HIDE DEF q
<1>3. q < b
  <2>1. SUFFICES ASSUME q >= b PROVE FALSE
    BY <1>1, <1>2
  <2>2. b * q >= b * b
    BY <1>1, <1>2, <2>1
  <2>3. b * q \in Nat /\ b * b \in Nat
    BY <1>1, <1>2
  <2>4. QED
    BY <1>1, <1>2, <2>2, <2>3
<1>4. q % b = q
  BY <1>1, <1>2, <1>3
<1>5. Low(n) = n % b /\ High(n) = q % b
  BY DEF Low, High, b, q
<1>6. Low(n) + High(n) * b = n
  <2>1. High(n) = q /\ Low(n) = n % b
    BY <1>4, <1>5
  <2>2. q * b = b * q
    BY <1>1, <1>2
  <2>3. b * q \in Nat /\ n % b \in Nat
    BY <1>1, <1>2
  <2>4. (n % b) + b * q = n
    BY <1>1, <1>2, <2>3
  <2>5. QED
    BY <2>1, <2>2, <2>4
<1>7. Low(n) \in Nat /\ High(n) \in Nat
  BY <1>2, <1>4, <1>5
<1>8. QED
  BY <1>6, <1>7 DEF b

-----------------------------------------------------------------------------

(* A chunk, whatever its bytes, constants and spans are. *)
IsChunk(k) ==
    \E B, V1, E, F, N :
        k \in [code : Seq(B), constants : Seq(V1), spans : Seq(E), functions : F,
               programFrameSize : N]

OffsetOf(k, i) == k.spans[i].offset
OpOf(k, i) == k.code[k.spans[i].offset + 1]
OperandOf(k, i) == k.code[k.spans[i].offset + 2] + k.code[k.spans[i].offset + 3] * ByteBase

(* The instructions lie in the code one after the other. *)
Tiled(k) ==
    /\ Len(k.code) <= MaxOperand
    /\ \A i \in 1 .. Len(k.spans) :
           OffsetOf(k, i) \in Nat /\ OffsetOf(k, i) + Length(OpOf(k, i)) <= Len(k.code)
    /\ \A i, j \in 1 .. Len(k.spans) :
           i < j => OffsetOf(k, i) + Length(OpOf(k, i)) <= OffsetOf(k, j)

LEMMA ChunkFields ==
    ASSUME NEW k, IsChunk(k)
    PROVE  /\ \E B : k.code \in Seq(B)
           /\ \E V1 : k.constants \in Seq(V1)
           /\ \E E : k.spans \in Seq(E)
           /\ \E F, N : k \in [code : {k.code}, constants : {k.constants}, spans : {k.spans},
                               functions : F, programFrameSize : N]
           /\ Len(k.code) \in Nat /\ Len(k.constants) \in Nat /\ Len(k.spans) \in Nat
<1>1. PICK B, V1, E, F, N :
          k \in [code : Seq(B), constants : Seq(V1), spans : Seq(E), functions : F,
                 programFrameSize : N]
  BY DEF IsChunk
<1>2. k.code \in Seq(B) /\ k.constants \in Seq(V1) /\ k.spans \in Seq(E)
  BY <1>1
<1>3. k \in [code : {k.code}, constants : {k.constants}, spans : {k.spans},
             functions : F, programFrameSize : N]
  BY <1>1
<1>4. Len(k.code) \in Nat /\ Len(k.constants) \in Nat /\ Len(k.spans) \in Nat
  BY <1>2, LenProperties
<1>5. QED
  BY <1>2, <1>3, <1>4

(* The updates of a chunk. *)
LEMMA ChunkUpdates ==
    ASSUME NEW code, NEW constants, NEW spans, NEW F, NEW N,
           NEW k \in [code : {code}, constants : {constants}, spans : {spans},
                      functions : F, programFrameSize : N],
           NEW x, NEW y
    PROVE  /\ [k EXCEPT !.code = x, !.spans = y]
              \in [code : {x}, constants : {constants}, spans : {y}, functions : F,
                   programFrameSize : N]
           /\ [k EXCEPT !.code = x]
              \in [code : {x}, constants : {constants}, spans : {spans}, functions : F,
                   programFrameSize : N]
           /\ [k EXCEPT !.constants = x]
              \in [code : {code}, constants : {x}, spans : {spans}, functions : F,
                   programFrameSize : N]
           /\ [k EXCEPT !.functions = x]
              \in [code : {code}, constants : {constants}, spans : {spans}, functions : {x},
                   programFrameSize : N]
           /\ [k EXCEPT !.programFrameSize = x, !.functions = y]
              \in [code : {code}, constants : {constants}, spans : {spans}, functions : {y},
                   programFrameSize : {x}]
OBVIOUS

LEMMA ChunkMade ==
    ASSUME NEW B, NEW V1, NEW E, NEW F, NEW N, NEW code \in Seq(B), NEW constants \in Seq(V1),
           NEW spans \in Seq(E),
           NEW k \in [code : {code}, constants : {constants}, spans : {spans}, functions : F,
                      programFrameSize : N]
    PROVE  IsChunk(k) /\ k.code = code /\ k.constants = constants /\ k.spans = spans
<1>1. k \in [code : Seq(B), constants : Seq(V1), spans : Seq(E), functions : F,
             programFrameSize : N]
  OBVIOUS
<1>2. QED
  BY <1>1 DEF IsChunk

-----------------------------------------------------------------------------

SameInstruction(k, m, i) == OffsetOf(m, i) = OffsetOf(k, i) /\ OpOf(m, i) = OpOf(k, i)
SameOperand(k, m, i) ==
    /\ m.code[k.spans[i].offset + 2] = k.code[k.spans[i].offset + 2]
    /\ m.code[k.spans[i].offset + 3] = k.code[k.spans[i].offset + 3]

(* Where an instruction's bytes are. *)
LEMMA BytesOf ==
    ASSUME NEW k, IsChunk(k), Tiled(k), NEW i \in 1 .. Len(k.spans)
    PROVE  /\ OffsetOf(k, i) \in Nat /\ OffsetOf(k, i) + 1 \in 1 .. Len(k.code)
           /\ OffsetOf(k, i) < Len(k.code)
           /\ OpOf(k, i) \in WithOperand =>
                  /\ OffsetOf(k, i) + 3 <= Len(k.code)
                  /\ OffsetOf(k, i) + 2 \in 1 .. Len(k.code)
                  /\ OffsetOf(k, i) + 3 \in 1 .. Len(k.code)
<1>1. OffsetOf(k, i) \in Nat /\ OffsetOf(k, i) + Length(OpOf(k, i)) <= Len(k.code)
  BY DEF Tiled
<1>2. Len(k.code) \in Nat
  BY ChunkFields
<1>3. Length(OpOf(k, i)) \in {1, 3} /\ (OpOf(k, i) \in WithOperand => Length(OpOf(k, i)) = 3)
  BY LengthsAre
<1>4. OffsetOf(k, i) + 1 <= Len(k.code)
  BY <1>1, <1>2, <1>3
<1>5. ASSUME OpOf(k, i) \in WithOperand
      PROVE  OffsetOf(k, i) + 3 <= Len(k.code)
  BY <1>1, <1>3, <1>5
<1>6. QED
  BY <1>1, <1>2, <1>4, <1>5

(* A chunk that keeps all bytes of another and its instructions. *)
LEMMA InstructionsKept ==
    ASSUME NEW k, IsChunk(k), Tiled(k), NEW m,
           \A p \in 1 .. Len(k.code) : m.code[p] = k.code[p],
           NEW i \in 1 .. Len(k.spans), m.spans[i] = k.spans[i]
    PROVE  SameInstruction(k, m, i) /\ (OpOf(k, i) \in WithOperand => SameOperand(k, m, i))
<1>1. /\ OffsetOf(k, i) + 1 \in 1 .. Len(k.code)
      /\ OpOf(k, i) \in WithOperand =>
             OffsetOf(k, i) + 2 \in 1 .. Len(k.code) /\ OffsetOf(k, i) + 3 \in 1 .. Len(k.code)
  BY BytesOf
<1> DEFINE o == OffsetOf(k, i)
<1>2. m.spans[i].offset = o /\ k.spans[i].offset = o
  BY DEF OffsetOf
<1>3. /\ m.code[o + 1] = k.code[o + 1]
      /\ OpOf(k, i) \in WithOperand =>
             m.code[o + 2] = k.code[o + 2] /\ m.code[o + 3] = k.code[o + 3]
  BY <1>1
<1> HIDE DEF o
<1>4. SameInstruction(k, m, i)
  BY <1>2, <1>3 DEF SameInstruction, OffsetOf, OpOf
<1>5. OpOf(k, i) \in WithOperand => SameOperand(k, m, i)
  BY <1>2, <1>3 DEF SameOperand
<1>6. QED
  BY <1>4, <1>5

(* The bytes of one instruction after those of others. *)
HasBytes(longer, code, op, low, high) ==
    /\ \E S : longer \in Seq(S)
    /\ Len(longer) = Len(code) + Length(op)
    /\ \A p \in 1 .. Len(code) : longer[p] = code[p]
    /\ longer[Len(code) + 1] = op
    /\ op \in WithOperand =>
           longer[Len(code) + 2] = low /\ longer[Len(code) + 3] = high

LEMMA EmittedBytes ==
    ASSUME NEW op, NEW low, NEW high, NEW B, NEW code \in Seq(B), NEW bytes,
           op \in WithOperand => bytes = <<op, low, high>>,
           op \notin WithOperand => bytes = <<op>>,
           NEW longer, longer = code \o bytes
    PROVE  HasBytes(longer, code, op, low, high)
<1> DEFINE S == B \cup {op, low, high}
           three == <<op, low, high>>
           one == <<op>>
<1>1. three \in Seq(S) /\ Len(three) = 3 /\ three[1] = op /\ three[2] = low /\ three[3] = high
  OBVIOUS
<1>2. one \in Seq(S) /\ Len(one) = 1 /\ one[1] = op
  OBVIOUS
<1> HIDE DEF one, three
<1>3. /\ bytes \in Seq(S) /\ Len(bytes) = Length(op) /\ bytes[1] = op
      /\ op \in WithOperand => bytes[2] = low /\ bytes[3] = high
  <2>1. /\ op \in WithOperand => bytes = three
        /\ op \notin WithOperand => bytes = one
    BY DEF three, one
  <2>2. QED
    BY <1>1, <1>2, <2>1 DEF Length
<1>4. code \in Seq(S) /\ Len(code) \in Nat
  <2>1. \A p \in 1 .. Len(code) : code[p] \in S
    BY ElementOfSeq
  <2>2. Len(code) \in Nat /\ code = [p \in 1 .. Len(code) |-> code[p]]
    BY LenProperties
  <2> HIDE DEF S
  <2>3. QED
    BY <2>1, <2>2, IsASeq
<1> HIDE DEF S
<1>5. /\ longer \in Seq(S) /\ Len(longer) = Len(code) + Len(bytes)
      /\ \A p \in 1 .. Len(code) + Len(bytes) :
             longer[p] = IF p <= Len(code) THEN code[p] ELSE bytes[p - Len(code)]
  <2> DEFINE both == code \o bytes
  <2>1. bytes \in Seq(S) /\ code \in Seq(S)
    BY <1>3, <1>4
  <2>2. /\ both \in Seq(S) /\ Len(both) = Len(code) + Len(bytes)
        /\ \A p \in 1 .. Len(code) + Len(bytes) :
               both[p] = IF p <= Len(code) THEN code[p] ELSE bytes[p - Len(code)]
    BY ONLY <2>1, ConcatProperties
  <2>3. longer = both
    OBVIOUS
  <2> HIDE DEF both
  <2>4. QED
    BY <2>2, <2>3
<1>6. Length(op) \in {1, 3} /\ (op \in WithOperand => Length(op) = 3)
  BY LengthsAre
<1>7. \A p \in 1 .. Len(code) : longer[p] = code[p]
  <2> TAKE p \in 1 .. Len(code)
  <2>1. p \in 1 .. Len(code) + Len(bytes) /\ p <= Len(code)
    BY <1>3, <1>4, <1>6
  <2>2. QED
    BY <1>5, <2>1
<1>8. longer[Len(code) + 1] = op
  <2>1. /\ Len(code) + 1 \in 1 .. Len(code) + Len(bytes) /\ ~(Len(code) + 1 <= Len(code))
        /\ (Len(code) + 1) - Len(code) = 1
    BY <1>3, <1>4, <1>6
  <2>2. QED
    BY <1>3, <1>5, <2>1
<1>9. ASSUME op \in WithOperand
      PROVE  longer[Len(code) + 2] = low /\ longer[Len(code) + 3] = high
  <2>1. /\ Len(code) + 2 \in 1 .. Len(code) + Len(bytes) /\ ~(Len(code) + 2 <= Len(code))
        /\ (Len(code) + 2) - Len(code) = 2
        /\ Len(code) + 3 \in 1 .. Len(code) + Len(bytes) /\ ~(Len(code) + 3 <= Len(code))
        /\ (Len(code) + 3) - Len(code) = 3
    BY <1>3, <1>4, <1>6, <1>9
  <2>2. bytes[2] = low /\ bytes[3] = high
    BY <1>3, <1>9
  <2>3. QED
    BY <1>5, <2>1, <2>2
<1>10. Len(longer) = Len(code) + Length(op)
  BY <1>3, <1>5
<1>11. QED
  BY <1>5, <1>7, <1>8, <1>9, <1>10 DEF HasBytes

(* The chunk `m` is `k` with one instruction more. *)
HasEmitted(k, m, op, operand, span, text) ==
    LET last == Len(k.spans) + 1
    IN  /\ IsChunk(m) /\ Tiled(m)
        /\ Len(m.code) = Len(k.code) + Length(op)
        /\ \A p \in 1 .. Len(k.code) : m.code[p] = k.code[p]
        /\ m.constants = k.constants
        /\ m.spans = Append(k.spans, C!SpanEntry(Len(k.code), span, text))
        /\ Len(m.spans) = last
        /\ OffsetOf(m, last) = Len(k.code) /\ OpOf(m, last) = op
        /\ op \in WithOperand =>
               /\ m.code[Len(k.code) + 2] = Low(operand)
               /\ m.code[Len(k.code) + 3] = High(operand)
        /\ \A i \in 1 .. Len(k.spans) :
               /\ SameInstruction(k, m, i)
               /\ OpOf(k, i) \in WithOperand => SameOperand(k, m, i)

(* What emit and emitOperand do to a chunk. *)
LEMMA EmitFacts ==
    ASSUME NEW k, IsChunk(k), Tiled(k), NEW op, NEW operand, NEW span, NEW text,
           C!HasRoom(k, op)
    PROVE  HasEmitted(k, C!Emit(k, op, operand, span, text), op, operand, span, text)
<1> DEFINE m == C!Emit(k, op, operand, span, text)
           last == Len(k.spans) + 1
           low == C!LowByte(operand)
           high == C!HighByte(operand)
           bytes == IF C!HasOperand(op) THEN <<op, low, high>> ELSE <<op>>
           longer == k.code \o bytes
           entry == C!SpanEntry(Len(k.code), span, text)
           entries == Append(k.spans, entry)
<1>1. PICK B : k.code \in Seq(B)
  BY ChunkFields
<1>2. PICK V1 : k.constants \in Seq(V1)
  BY ChunkFields
<1>3. PICK E : k.spans \in Seq(E)
  BY ChunkFields
<1>4. PICK F, N : k \in [code : {k.code}, constants : {k.constants}, spans : {k.spans},
                         functions : F, programFrameSize : N]
  BY ChunkFields
<1>5. Len(k.code) \in Nat /\ Len(k.spans) \in Nat
  BY ChunkFields
<1>6. low = Low(operand) /\ high = High(operand)
  BY DEF Low, High, C!LowByte, C!HighByte
<1>7. entry.offset = Len(k.code)
  BY DEF C!SpanEntry
<1> HIDE DEF low, high, entry
<1>8. /\ \E S : longer \in Seq(S)
      /\ Len(longer) = Len(k.code) + Length(op)
      /\ \A p \in 1 .. Len(k.code) : longer[p] = k.code[p]
      /\ longer[Len(k.code) + 1] = op
      /\ op \in WithOperand =>
             longer[Len(k.code) + 2] = low /\ longer[Len(k.code) + 3] = high
  <2> DEFINE code == k.code
             three == <<op, low, high>>
             one == <<op>>
  <2>1. code \in Seq(B) /\ longer = code \o bytes
    BY <1>1
  <2>2. (op \in WithOperand => bytes = three) /\ (op \notin WithOperand => bytes = one)
    BY OperandOps
  <2> HIDE DEF code, longer, bytes
  <2>3. HasBytes(longer, code, op, low, high)
    BY <2>1, <2>2, EmittedBytes DEF three, one
  <2>4. QED
    BY <2>3 DEF code, HasBytes
<1> HIDE DEF longer
<1>9. PICK S : longer \in Seq(S)
  BY <1>8
<1>10. /\ entries \in Seq(E \cup {entry}) /\ Len(entries) = last /\ entries[last] = entry
       /\ \A i \in 1 .. Len(k.spans) : entries[i] = k.spans[i]
  <2>1. k.spans \in Seq(E \cup {entry})
    <3>1. \A i \in 1 .. Len(k.spans) : k.spans[i] \in E \cup {entry}
      BY <1>3, ElementOfSeq
    <3>2. k.spans = [i \in 1 .. Len(k.spans) |-> k.spans[i]]
      BY <1>3, LenProperties
    <3>3. QED
      BY <1>5, <3>1, <3>2, IsASeq
  <2>2. QED
    BY <2>1, AppendProperties
<1> HIDE DEF entries
<1>11. m = [k EXCEPT !.code = longer, !.spans = entries]
  BY DEF C!Emit, longer, entries, entry, bytes, low, high
<1> HIDE DEF m
<1>12. m \in [code : {longer}, constants : {k.constants}, spans : {entries}, functions : F,
              programFrameSize : N]
  BY <1>4, <1>11, ChunkUpdates
<1>13. IsChunk(m) /\ m.code = longer /\ m.constants = k.constants /\ m.spans = entries
  BY <1>2, <1>9, <1>10, <1>12, ChunkMade
<1>14. \A p \in 1 .. Len(k.code) : m.code[p] = k.code[p]
  BY <1>8, <1>13
<1>15. \A i \in 1 .. Len(k.spans) :
           SameInstruction(k, m, i) /\ (OpOf(k, i) \in WithOperand => SameOperand(k, m, i))
  <2> TAKE i \in 1 .. Len(k.spans)
  <2>1. m.spans[i] = k.spans[i]
    BY <1>10, <1>13
  <2>2. QED
    BY <1>14, <2>1, InstructionsKept
<1>16. OffsetOf(m, last) = Len(k.code)
  BY <1>7, <1>10, <1>13 DEF OffsetOf
<1>17. OpOf(m, last) = op
  <2>1. OpOf(m, last) = m.code[OffsetOf(m, last) + 1]
    BY DEF OpOf, OffsetOf
  <2>2. m.code[Len(k.code) + 1] = op
    BY <1>8, <1>13
  <2>3. QED
    BY <1>16, <2>1, <2>2
<1>18. Len(m.code) = Len(k.code) + Length(op) /\ Len(m.spans) = last
  BY <1>8, <1>10, <1>13
<1>19. Tiled(m)
  <2>1. Length(op) \in {1, 3}
    BY LengthsAre
  <2>2. Len(m.code) <= MaxOperand
    BY <1>18, LengthsAre DEF C!HasRoom
  <2>3. \A i \in 1 .. Len(m.spans) :
            OffsetOf(m, i) \in Nat /\ OffsetOf(m, i) + Length(OpOf(m, i)) <= Len(m.code)
    <3> TAKE i \in 1 .. Len(m.spans)
    <3>1. CASE i = last
      BY <1>5, <1>16, <1>17, <1>18, <3>1
    <3>2. CASE i # last
      <4>1. i \in 1 .. Len(k.spans)
        BY <1>5, <1>18, <3>2
      <4>2. /\ OffsetOf(k, i) \in Nat /\ OffsetOf(k, i) + Length(OpOf(k, i)) <= Len(k.code)
            /\ Length(OpOf(k, i)) \in {1, 3}
        BY <4>1, LengthsAre DEF Tiled
      <4>3. OffsetOf(m, i) = OffsetOf(k, i) /\ OpOf(m, i) = OpOf(k, i)
        BY <1>15, <4>1 DEF SameInstruction
      <4>4. OffsetOf(k, i) + Length(OpOf(k, i)) <= Len(m.code)
        BY <1>5, <1>18, <2>1, <4>2
      <4>5. QED
        BY <4>2, <4>3, <4>4
    <3>3. QED
      BY <3>1, <3>2
  <2>4. \A i, j \in 1 .. Len(m.spans) :
            i < j => OffsetOf(m, i) + Length(OpOf(m, i)) <= OffsetOf(m, j)
    <3> TAKE i, j \in 1 .. Len(m.spans)
    <3>1. SUFFICES ASSUME i < j
                   PROVE  OffsetOf(m, i) + Length(OpOf(m, i)) <= OffsetOf(m, j)
      OBVIOUS
    <3>2. i \in 1 .. Len(k.spans)
      BY <1>5, <1>18, <3>1
    <3>3. OffsetOf(m, i) = OffsetOf(k, i) /\ OpOf(m, i) = OpOf(k, i)
      BY <1>15, <3>2 DEF SameInstruction
    <3>4. CASE j = last
      <4>1. OffsetOf(k, i) + Length(OpOf(k, i)) <= Len(k.code)
        BY <3>2 DEF Tiled
      <4>2. QED
        BY <1>16, <3>3, <3>4, <4>1
    <3>5. CASE j # last
      <4>1. j \in 1 .. Len(k.spans)
        BY <1>5, <1>18, <3>5
      <4>2. OffsetOf(k, i) + Length(OpOf(k, i)) <= OffsetOf(k, j)
        BY <3>1, <3>2, <4>1 DEF Tiled
      <4>3. OffsetOf(m, j) = OffsetOf(k, j)
        BY <1>15, <4>1 DEF SameInstruction
      <4>4. QED
        BY <3>3, <4>2, <4>3
    <3>6. QED
      BY <3>4, <3>5
  <2>5. QED
    BY <2>2, <2>3, <2>4 DEF Tiled
<1>20. ASSUME op \in WithOperand
       PROVE  m.code[Len(k.code) + 2] = Low(operand) /\ m.code[Len(k.code) + 3] = High(operand)
  BY <1>6, <1>8, <1>13, <1>20
<1>21. m.spans = Append(k.spans, C!SpanEntry(Len(k.code), span, text))
  BY <1>13 DEF entries, entry
<1>22. QED
  BY <1>13, <1>14, <1>15, <1>16, <1>17, <1>18, <1>19, <1>20, <1>21 DEF m, HasEmitted

(* A sequence with two of its elements replaced. *)
HasReplaced(after, code, p, q, low, high) ==
    /\ \E S : after \in Seq(S)
    /\ Len(after) = Len(code)
    /\ after[p] = low /\ after[q] = high
    /\ \A j \in 1 .. Len(code) : j \notin {p, q} => after[j] = code[j]

LEMMA TwoReplaced ==
    ASSUME NEW B, NEW code \in Seq(B), NEW p, NEW q, NEW low, NEW high, p # q,
           p \in 1 .. Len(code), q \in 1 .. Len(code)
    PROVE  HasReplaced([[code EXCEPT ![p] = low] EXCEPT ![q] = high], code, p, q, low, high)
<1> DEFINE S == B \cup {low, high}
           after == [[code EXCEPT ![p] = low] EXCEPT ![q] = high]
<1>1. Len(code) \in Nat /\ DOMAIN code = 1 .. Len(code)
  BY LenProperties
<1>2. \A j \in 1 .. Len(code) : code[j] \in B
  BY ElementOfSeq
<1>3. /\ after = [j \in 1 .. Len(code) |-> after[j]]
      /\ \A j \in 1 .. Len(code) :
             after[j] = IF j = q THEN high ELSE IF j = p THEN low ELSE code[j]
  BY <1>1
<1> HIDE DEF after
<1>4. \A j \in 1 .. Len(code) : after[j] \in S
  BY <1>2, <1>3
<1> HIDE DEF S
<1>5. after \in Seq(S) /\ Len(after) = Len(code)
  <2> DEFINE all == [j \in 1 .. Len(code) |-> after[j]]
  <2>1. all \in Seq(S)
    BY <1>1, <1>4, IsASeq
  <2>2. Len(all) = Len(code)
    BY <1>1
  <2>3. after = all
    BY <1>3
  <2> HIDE DEF all
  <2>4. QED
    BY <2>1, <2>2, <2>3
<1>6. QED
  BY <1>3, <1>5 DEF after, HasReplaced

(* The chunk `m` is `k` with another operand of the `i`-th instruction. *)
HasPatched(k, m, i, target) ==
    LET o == OffsetOf(k, i)
    IN  /\ IsChunk(m) /\ Tiled(m)
        /\ Len(m.code) = Len(k.code)
        /\ m.code[o + 2] = Low(target) /\ m.code[o + 3] = High(target)
        /\ \A p \in 1 .. Len(k.code) : p \notin {o + 2, o + 3} => m.code[p] = k.code[p]
        /\ m.constants = k.constants /\ m.spans = k.spans
        /\ \A j \in 1 .. Len(k.spans) :
               /\ SameInstruction(k, m, j)
               /\ j # i /\ OpOf(k, j) \in WithOperand => SameOperand(k, m, j)

(* What patchJumpToHere does to a chunk, whatever the target. *)
LEMMA PatchFacts ==
    ASSUME NEW k, IsChunk(k), Tiled(k), NEW i \in 1 .. Len(k.spans),
           OpOf(k, i) \in WithOperand, NEW target
    PROVE  HasPatched(k, C!PatchOperand(k, OffsetOf(k, i), target), i, target)
<1> DEFINE o == OffsetOf(k, i)
           m == C!PatchOperand(k, o, target)
           p == o + 2
           q == o + 3
           low == C!LowByte(target)
           high == C!HighByte(target)
           after == [[k.code EXCEPT ![p] = low] EXCEPT ![q] = high]
<1>1. PICK B : k.code \in Seq(B)
  BY ChunkFields
<1>2. PICK V1 : k.constants \in Seq(V1)
  BY ChunkFields
<1>3. PICK E : k.spans \in Seq(E)
  BY ChunkFields
<1>4. PICK F, N : k \in [code : {k.code}, constants : {k.constants}, spans : {k.spans},
                         functions : F, programFrameSize : N]
  BY ChunkFields
<1>5. /\ o \in Nat /\ p \in 1 .. Len(k.code) /\ q \in 1 .. Len(k.code) /\ p # q
      /\ o + 3 <= Len(k.code) /\ Len(k.code) \in Nat
  BY BytesOf, ChunkFields
<1>6. m = [k EXCEPT !.code = after]
  BY <1>4 DEF C!PatchOperand
<1> HIDE DEF m
<1>7. low = Low(target) /\ high = High(target)
  BY DEF Low, High, C!LowByte, C!HighByte
<1> HIDE DEF low, high
<1>8. /\ \E S : after \in Seq(S)
      /\ Len(after) = Len(k.code)
      /\ after[p] = low /\ after[q] = high
      /\ \A j \in 1 .. Len(k.code) : j \notin {p, q} => after[j] = k.code[j]
  <2> DEFINE code == k.code
  <2>1. code \in Seq(B) /\ p \in 1 .. Len(code) /\ q \in 1 .. Len(code) /\ p # q
    BY <1>1, <1>5
  <2> HIDE DEF code, p, q
  <2>2. HasReplaced([[code EXCEPT ![p] = low] EXCEPT ![q] = high], code, p, q, low, high)
    BY <2>1, TwoReplaced
  <2>3. after = [[code EXCEPT ![p] = low] EXCEPT ![q] = high]
    BY DEF code
  <2> HIDE DEF after
  <2>4. HasReplaced(after, code, p, q, low, high)
    BY <2>2, <2>3
  <2>5. QED
    BY <2>4 DEF code, HasReplaced
<1> HIDE DEF after
<1>9. PICK S : after \in Seq(S)
  BY <1>8
<1>10. m \in [code : {after}, constants : {k.constants}, spans : {k.spans}, functions : F,
              programFrameSize : N]
  BY <1>4, <1>6, ChunkUpdates
<1>11. IsChunk(m) /\ m.code = after /\ m.constants = k.constants /\ m.spans = k.spans
  BY <1>2, <1>3, <1>9, <1>10, ChunkMade
<1>12. \A j \in 1 .. Len(k.code) : j \notin {p, q} => m.code[j] = k.code[j]
  BY <1>8, <1>11
<1>13. ASSUME NEW j \in 1 .. Len(k.spans)
       PROVE  /\ SameInstruction(k, m, j)
              /\ j # i /\ OpOf(k, j) \in WithOperand => SameOperand(k, m, j)
  <2> DEFINE r == OffsetOf(k, j)
  <2>0. Len(k.spans) \in Nat /\ i \in Nat /\ j \in Nat
    BY ChunkFields
  <2>1. /\ r \in Nat /\ r + 1 \in 1 .. Len(k.code)
        /\ OpOf(k, j) \in WithOperand => r + 2 \in 1 .. Len(k.code) /\ r + 3 \in 1 .. Len(k.code)
    BY BytesOf
  <2>2. Length(OpOf(k, i)) = 3 /\ Length(OpOf(k, j)) \in {1, 3}
        /\ (OpOf(k, j) \in WithOperand => Length(OpOf(k, j)) = 3)
    BY LengthsAre
  <2>3. /\ i < j => o + 3 <= r
        /\ j < i => r + Length(OpOf(k, j)) <= o
        /\ i = j => o = r
    BY <2>2 DEF Tiled
  <2>4. r + 1 \notin {p, q}
    <3>1. i < j \/ j < i \/ i = j
      BY <2>0
    <3>2. r + Length(OpOf(k, j)) >= r + 1
      BY <2>1, <2>2
    <3>3. QED
      BY <1>5, <2>1, <2>2, <2>3, <3>1, <3>2
  <2>5. ASSUME j # i, OpOf(k, j) \in WithOperand
        PROVE  r + 2 \notin {p, q} /\ r + 3 \notin {p, q}
    <3>1. i < j \/ j < i
      BY <2>0, <2>5
    <3>2. QED
      BY <1>5, <2>1, <2>2, <2>3, <2>5, <3>1, SMTT(30)
  <2>6. m.spans[j] = k.spans[j]
    BY <1>11
  <2>7. m.code[r + 1] = k.code[r + 1]
    BY <1>12, <2>1, <2>4
  <2>8. j # i /\ OpOf(k, j) \in WithOperand =>
            m.code[r + 2] = k.code[r + 2] /\ m.code[r + 3] = k.code[r + 3]
    BY <1>12, <2>1, <2>5
  <2>9. m.spans[j].offset = r /\ k.spans[j].offset = r
    BY <2>6 DEF OffsetOf
  <2> HIDE DEF r
  <2>10. SameInstruction(k, m, j)
    BY <2>7, <2>9 DEF SameInstruction, OffsetOf, OpOf
  <2>11. j # i /\ OpOf(k, j) \in WithOperand => SameOperand(k, m, j)
    BY <2>8, <2>9 DEF SameOperand
  <2>12. QED
    BY <2>10, <2>11
<1>14. Tiled(m)
  <2>1. Len(m.code) = Len(k.code) /\ Len(m.spans) = Len(k.spans)
    BY <1>8, <1>11
  <2>2. \A j \in 1 .. Len(k.spans) :
            OffsetOf(m, j) = OffsetOf(k, j) /\ OpOf(m, j) = OpOf(k, j)
    BY <1>13 DEF SameInstruction
  <2>3. QED
    BY <2>1, <2>2 DEF Tiled
<1>15. m.code[p] = Low(target) /\ m.code[q] = High(target) /\ Len(m.code) = Len(k.code)
  BY <1>7, <1>8, <1>11
<1>16. QED
  BY <1>11, <1>12, <1>13, <1>14, <1>15 DEF m, HasPatched

LEMMA AddConstantFacts ==
    ASSUME NEW k, IsChunk(k), Tiled(k), NEW value
    PROVE  LET m == C!AddConstant(k, value)
           IN  /\ IsChunk(m) /\ Tiled(m)
               /\ m.code = k.code /\ m.spans = k.spans
               /\ Len(m.constants) = Len(k.constants) + 1
<1> DEFINE m == C!AddConstant(k, value)
           longer == Append(k.constants, value)
<1>1. PICK B : k.code \in Seq(B)
  BY ChunkFields
<1>2. PICK V1 : k.constants \in Seq(V1)
  BY ChunkFields
<1>3. PICK E : k.spans \in Seq(E)
  BY ChunkFields
<1>4. PICK F, N : k \in [code : {k.code}, constants : {k.constants}, spans : {k.spans},
                         functions : F, programFrameSize : N]
  BY ChunkFields
<1>5. longer \in Seq(V1 \cup {value}) /\ Len(longer) = Len(k.constants) + 1
  <2>1. k.constants \in Seq(V1 \cup {value})
    <3>1. \A i \in 1 .. Len(k.constants) : k.constants[i] \in V1 \cup {value}
      BY <1>2, ElementOfSeq
    <3>2. k.constants = [i \in 1 .. Len(k.constants) |-> k.constants[i]]
          /\ Len(k.constants) \in Nat
      BY <1>2, LenProperties
    <3>3. QED
      BY <3>1, <3>2, IsASeq
  <2>2. QED
    BY <2>1, AppendProperties
<1> HIDE DEF longer
<1>6. m = [k EXCEPT !.constants = longer]
  BY DEF C!AddConstant, longer
<1> HIDE DEF m
<1>7. m \in [code : {k.code}, constants : {longer}, spans : {k.spans}, functions : F,
             programFrameSize : N]
  BY <1>4, <1>6, ChunkUpdates
<1>8. IsChunk(m) /\ m.code = k.code /\ m.constants = longer /\ m.spans = k.spans
  BY <1>1, <1>3, <1>5, <1>7, ChunkMade
<1>9. Tiled(m)
  BY <1>8 DEF Tiled, OffsetOf, OpOf
<1>10. QED
  BY <1>5, <1>8, <1>9 DEF m

-----------------------------------------------------------------------------

(* The CONSTs in the order of the code, and what they read. *)
Reads(k) == SubSequence(k.spans, {i \in DOMAIN k.spans : OpOf(k, i) = 0})

OperandAt(k, o) == k.code[o + 2] + k.code[o + 3] * ByteBase

ReadsInOrder(k) ==
    /\ Len(Reads(k)) = Len(k.constants)
    /\ \A i \in 1 .. Len(k.constants) : OperandAt(k, Reads(k)[i].offset) = i - 1

LEMMA ReadsAreConsts ==
    ASSUME NEW k, IsChunk(k)
    PROVE  /\ \E E : Reads(k) \in Seq(E)
           /\ Len(Reads(k)) \in Nat
           /\ \A i \in 1 .. Len(Reads(k)) :
                  \E s \in 1 .. Len(k.spans) : OpOf(k, s) = 0 /\ Reads(k)[i] = k.spans[s]
<1> DEFINE positions == {i \in DOMAIN k.spans : OpOf(k, i) = 0}
           S == {k.spans[i] : i \in positions \cap DOMAIN k.spans}
<1>1. PICK E : k.spans \in Seq(E)
  BY ChunkFields
<1>2. DOMAIN k.spans = 1 .. Len(k.spans)
  BY <1>1, LenProperties
<1>3. Reads(k) \in Seq(S)
  <2> DEFINE spans == k.spans
  <2>1. spans \in Seq(E)
    BY <1>1
  <2> HIDE DEF spans, positions
  <2>2. SubSequence(spans, positions) \in Seq({spans[i] : i \in positions \cap DOMAIN spans})
    BY <2>1, SubSequenceIsSeq
  <2>3. QED
    BY <2>2 DEF Reads, spans, positions
<1>4. \A i \in 1 .. Len(Reads(k)) : Reads(k)[i] \in S
  <2> HIDE DEF S
  <2>1. QED
    BY <1>3, ElementOfSeq
<1>5. Len(Reads(k)) \in Nat
  <2> HIDE DEF S
  <2>1. QED
    BY <1>3, LenProperties
<1>6. ASSUME NEW i \in 1 .. Len(Reads(k))
      PROVE  \E s \in 1 .. Len(k.spans) : OpOf(k, s) = 0 /\ Reads(k)[i] = k.spans[s]
  <2>1. PICK s \in positions : Reads(k)[i] = k.spans[s]
    BY <1>4
  <2>2. QED
    BY <1>2, <2>1
<1>7. QED
  BY <1>3, <1>5, <1>6

(* Code in which the same CONSTs read the same. *)
LEMMA ReadsKept ==
    ASSUME NEW k, IsChunk(k), NEW m, ReadsInOrder(k),
           m.spans = k.spans, m.constants = k.constants,
           \A i \in 1 .. Len(k.spans) :
               SameInstruction(k, m, i) /\ (OpOf(k, i) = 0 => SameOperand(k, m, i))
    PROVE  ReadsInOrder(m)
<1>1. PICK E : k.spans \in Seq(E)
  BY ChunkFields
<1>2. DOMAIN k.spans = 1 .. Len(k.spans)
  BY <1>1, LenProperties
<1>3. {i \in DOMAIN m.spans : OpOf(m, i) = 0} = {i \in DOMAIN k.spans : OpOf(k, i) = 0}
  BY <1>2 DEF SameInstruction
<1>4. Reads(m) = Reads(k)
  BY <1>3 DEF Reads
<1>5. ASSUME NEW i \in 1 .. Len(k.constants)
      PROVE  OperandAt(m, Reads(m)[i].offset) = i - 1
  <2>1. i \in 1 .. Len(Reads(k)) /\ OperandAt(k, Reads(k)[i].offset) = i - 1
    BY DEF ReadsInOrder
  <2>2. PICK s \in 1 .. Len(k.spans) : OpOf(k, s) = 0 /\ Reads(k)[i] = k.spans[s]
    BY <2>1, ReadsAreConsts
  <2> DEFINE o == k.spans[s].offset
  <2>3. m.code[o + 2] = k.code[o + 2] /\ m.code[o + 3] = k.code[o + 3]
    BY <2>2 DEF SameOperand
  <2>4. Reads(m)[i].offset = o /\ Reads(k)[i].offset = o
    BY <1>4, <2>2
  <2> HIDE DEF o
  <2>5. OperandAt(m, o) = OperandAt(k, o)
    BY <2>3 DEF OperandAt
  <2>6. QED
    BY <2>1, <2>4, <2>5
<1>6. QED
  BY <1>4, <1>5 DEF ReadsInOrder

(* One more instruction: if it is a CONST, it reads the constant added with it. *)
LEMMA ReadsGrow ==
    ASSUME NEW k, IsChunk(k), NEW m, NEW entry, ReadsInOrder(k),
           m.spans = Append(k.spans, entry),
           NEW op, OpOf(m, Len(k.spans) + 1) = op, OffsetOf(m, Len(k.spans) + 1) = Len(k.code),
           \A i \in 1 .. Len(k.spans) :
               SameInstruction(k, m, i) /\ (OpOf(k, i) = 0 => SameOperand(k, m, i)),
           op # 0 => m.constants = k.constants,
           op = 0 => /\ Len(m.constants) = Len(k.constants) + 1
                     /\ OperandAt(m, Len(k.code)) = Len(k.constants)
    PROVE  ReadsInOrder(m)
<1> DEFINE A == {i \in DOMAIN m.spans : OpOf(m, i) = 0}
           B == {i \in DOMAIN k.spans : OpOf(k, i) = 0}
           n == Len(k.spans)
<1>1. PICK E : k.spans \in Seq(E)
  BY ChunkFields
<1>2. /\ DOMAIN k.spans = 1 .. n /\ n \in Nat
      /\ k.spans \in Seq(E \cup {entry})
  <2>1. \A i \in 1 .. Len(k.spans) : k.spans[i] \in E \cup {entry}
    BY <1>1, ElementOfSeq
  <2>2. k.spans = [i \in 1 .. Len(k.spans) |-> k.spans[i]] /\ Len(k.spans) \in Nat
    BY <1>1, LenProperties
  <2>3. k.spans \in Seq(E \cup {entry})
    BY <2>1, <2>2, IsASeq
  <2>4. QED
    BY <2>2, <2>3, LenProperties
<1>3. /\ m.spans \in Seq(E \cup {entry}) /\ Len(m.spans) = n + 1 /\ m.spans[n + 1] = entry
      /\ \A i \in 1 .. n : m.spans[i] = k.spans[i]
  BY <1>2, AppendProperties
<1>4. DOMAIN m.spans = 1 .. n + 1
  BY <1>3, LenProperties
<1>5. \A i \in 1 .. n : i \in A <=> i \in B
  BY <1>2, <1>4 DEF SameInstruction
<1>6. n + 1 \in A <=> op = 0
  BY <1>2, <1>4
<1>7. Reads(m) = IF op = 0 THEN Append(Reads(k), entry) ELSE Reads(k)
  <2> DEFINE spans == k.spans
  <2>1. spans \in Seq(E \cup {entry}) /\ entry \in E \cup {entry} /\ n = Len(spans)
    BY <1>2
  <2> HIDE DEF spans, A, B, n
  <2>2. SubSequence(Append(spans, entry), A)
        = IF Len(spans) + 1 \in A THEN Append(SubSequence(spans, B), entry)
          ELSE SubSequence(spans, B)
    BY <1>5, <2>1, SubSequenceOfAppend
  <2>3. Reads(m) = SubSequence(Append(spans, entry), A) /\ Reads(k) = SubSequence(spans, B)
    BY DEF Reads, A, B, spans
  <2>4. QED
    BY <1>6, <2>1, <2>2, <2>3
<1> HIDE DEF A, B
<1>8. Len(Reads(k)) = Len(k.constants) /\ Len(k.constants) \in Nat
  BY ChunkFields DEF ReadsInOrder
<1>9. PICK Spans : Reads(k) \in Seq(Spans)
  BY ReadsAreConsts
<1>10. ASSUME op = 0
       PROVE  /\ Len(Reads(m)) = Len(k.constants) + 1
              /\ Reads(m)[Len(k.constants) + 1] = entry
              /\ \A i \in 1 .. Len(k.constants) : Reads(m)[i] = Reads(k)[i]
  <2> DEFINE old == Reads(k)
  <2>1. \A i \in 1 .. Len(old) : old[i] \in Spans \cup {entry}
    BY <1>9, ElementOfSeq
  <2>2. old = [i \in 1 .. Len(old) |-> old[i]] /\ Len(old) \in Nat
    BY <1>9, LenProperties
  <2>3. old \in Seq(Spans \cup {entry})
    BY <2>1, <2>2, IsASeq
  <2> HIDE DEF old
  <2>4. /\ Len(Append(old, entry)) = Len(old) + 1 /\ Append(old, entry)[Len(old) + 1] = entry
        /\ \A i \in 1 .. Len(old) : Append(old, entry)[i] = old[i]
    BY <2>3, AppendProperties
  <2>5. Reads(m) = Append(old, entry) /\ Len(old) = Len(k.constants)
    BY <1>7, <1>8, <1>10 DEF old
  <2>6. QED
    BY <2>4, <2>5 DEF old
<1>11. ASSUME NEW i \in 1 .. Len(k.constants)
       PROVE  Reads(m)[i] = Reads(k)[i] /\ OperandAt(m, Reads(k)[i].offset) = i - 1
  <2>1. i \in 1 .. Len(Reads(k)) /\ OperandAt(k, Reads(k)[i].offset) = i - 1
    BY DEF ReadsInOrder
  <2>2. PICK s \in 1 .. Len(k.spans) : OpOf(k, s) = 0 /\ Reads(k)[i] = k.spans[s]
    BY <2>1, ReadsAreConsts
  <2> DEFINE o == k.spans[s].offset
  <2>3. m.code[o + 2] = k.code[o + 2] /\ m.code[o + 3] = k.code[o + 3]
    BY <2>2 DEF SameOperand
  <2>4. Reads(k)[i].offset = o
    BY <2>2
  <2> HIDE DEF o
  <2>5. OperandAt(m, o) = OperandAt(k, o)
    BY <2>3 DEF OperandAt
  <2>6. Reads(m)[i] = Reads(k)[i]
    BY <1>7, <1>10
  <2>7. QED
    BY <2>1, <2>4, <2>5, <2>6
<1>12. CASE op # 0
  BY <1>7, <1>11, <1>12 DEF ReadsInOrder
<1>13. CASE op = 0
  <2>1. entry.offset = Len(k.code)
    BY <1>3 DEF OffsetOf
  <2>2. Len(m.constants) = Len(k.constants) + 1
    BY <1>13
  <2>3. ASSUME NEW i \in 1 .. Len(k.constants) + 1
        PROVE  OperandAt(m, Reads(m)[i].offset) = i - 1
    <3>1. CASE i = Len(k.constants) + 1
      <4>1. Reads(m)[i].offset = Len(k.code)
        BY <1>10, <1>13, <2>1, <3>1
      <4>2. OperandAt(m, Len(k.code)) = Len(k.constants) /\ i - 1 = Len(k.constants)
        BY <1>8, <1>13, <3>1
      <4>3. QED
        BY <4>1, <4>2
    <3>2. CASE i # Len(k.constants) + 1
      <4>1. i \in 1 .. Len(k.constants)
        BY <1>8, <3>2
      <4>2. QED
        BY <1>11, <4>1
    <3>3. QED
      BY <3>1, <3>2
  <2>4. QED
    BY <1>10, <1>13, <2>2, <2>3 DEF ReadsInOrder
<1>14. QED
  BY <1>12, <1>13

-----------------------------------------------------------------------------

(* The compiler's walk. *)
CompilerWalks ==
    {"declare", "expression", "statement", "emit", "call", "store", "then", "else", "end if",
     "loop", "end loop", "zero", "halt", "bodies", "body", "end body", "finish"}

PlainOps == {4, 5, 6, 7, 8, 9, 10, 11, 12, 16, 17}

CompilerItem ==
    [do : CompilerWalks, node : Nat, op : {0} \cup PlainOps, at : Nat, header : Nat]

(* The items that remember a jump, those that remember the head of a loop, those
   that end a part of the code, those some code of the same part follows, and
   those that nothing follows. *)
Patches(item) == item.do \in {"else", "end if", "end loop"}
Loops(item) == item.do \in {"loop", "end loop"}
Closes(item) == item.do \in {"halt", "end body"}
Waits(item) ==
    item.do \in {"expression", "statement", "emit", "call", "store", "then", "else", "end if",
                 "loop", "end loop", "zero"}
Ends(item) == item.do \in {"bodies", "finish"}

Compilable(item) ==
    /\ item.do = "expression" => IsNode(item.node) /\ KindOf(nodes[item.node].type) = "E"
    /\ item.do = "statement" => IsNode(item.node) /\ KindOf(nodes[item.node].type) # "E"
    /\ item.do \in {"then", "else", "end if"} =>
           IsNode(item.node) /\ nodes[item.node].type = "If"
    /\ item.do \in {"loop", "end loop"} => IsNode(item.node) /\ nodes[item.node].type = "While"
    /\ item.do = "body" => IsNode(item.node) /\ nodes[item.node].type = "Function"
    /\ item.do = "emit" => item.op \in PlainOps

(* Whatever is walked is closed later on, and no two items remember one jump. *)
WalkIsSound ==
    /\ work \in Seq(CompilerItem)
    /\ \A i \in 1 .. Len(work) : Compilable(work[i])
    /\ \A i \in 1 .. Len(work) : Waits(work[i]) => \E j \in i + 1 .. Len(work) : Closes(work[j])
    /\ \A i \in 1 .. Len(work) : Ends(work[i]) => i = Len(work)
    /\ \A i, j \in 1 .. Len(work) :
           Patches(work[i]) /\ Patches(work[j]) /\ i # j => work[i].at # work[j].at

(* A jump whose operand is still the placeholder. *)
IsHole(k, s) ==
    /\ OpOf(k, s) \in JumpOps
    /\ k.code[OffsetOf(k, s) + 2] = Low(MaxOperand)
    /\ k.code[OffsetOf(k, s) + 3] = High(MaxOperand)

IsAwaited(k, s) == \E i \in 1 .. Len(work) : Patches(work[i]) /\ work[i].at = OffsetOf(k, s)

(* A jump goes to what is emitted, or to the end where there is more to emit. *)
HasTarget(k, s) ==
    /\ OperandAt(k, OffsetOf(k, s)) \in Nat
    /\ OperandAt(k, OffsetOf(k, s)) <= Len(k.code)
    /\ \/ OperandAt(k, OffsetOf(k, s)) < Len(k.code)
       \/ \E j \in 1 .. Len(work) : Closes(work[j])

CodeIsSound ==
    /\ IsChunk(chunk)
    /\ Tiled(chunk)
    /\ ReadsInOrder(chunk)
    /\ \A i \in 1 .. Len(work) :
           Patches(work[i]) =>
               \E s \in 1 .. Len(chunk.spans) :
                   OffsetOf(chunk, s) = work[i].at /\ IsHole(chunk, s)
    /\ \A i \in 1 .. Len(work) : Loops(work[i]) => work[i].header <= Len(chunk.code)
    /\ \A s \in 1 .. Len(chunk.spans) :
           OpOf(chunk, s) \in JumpOps => IsAwaited(chunk, s) \/ HasTarget(chunk, s)

CompilerInvariant == WalkIsSound /\ CodeIsSound

(* The only bytes that change are the operands of jumps that had none. *)
OnlyHolesChange ==
    LET hole == UNION {{o + 2, o + 3} : o \in Unpatched}
    IN  /\ Len(chunk'.code) >= Len(chunk.code)
        /\ \A i \in DOMAIN chunk.code : chunk'.code[i] # chunk.code[i] => i \in hole

(* Items in the place of the head. *)
Replaces(items) ==
    /\ items \in Seq(CompilerItem)
    /\ work # <<>>
    /\ work' = items \o Tail(work)
    /\ \A i \in 1 .. Len(items) :
           /\ Compilable(items[i])
           /\ Waits(items[i]) =>
                  Waits(Head(work)) \/ \E j \in i + 1 .. Len(items) : Closes(items[j])
           /\ Ends(items[i]) => Ends(Head(work)) /\ i = Len(items)
           /\ Patches(items[i]) => items[i].at = Len(chunk.code)
           /\ \A j \in 1 .. Len(items) : Patches(items[i]) /\ Patches(items[j]) => i = j

LEMMA WorkAfter ==
    ASSUME work \in Seq(CompilerItem), NEW items, Replaces(items)
    PROVE  /\ work' \in Seq(CompilerItem)
           /\ Len(items) \in Nat /\ Len(work) \in Nat /\ Len(work) >= 1
           /\ work[1] = Head(work)
           /\ Len(work') = Len(items) + Len(work) - 1
           /\ \A i \in 1 .. Len(items) : work'[i] = items[i]
           /\ \A i \in 2 .. Len(work) : work'[Len(items) + i - 1] = work[i]
           /\ \A i \in 1 .. Len(work') :
                  \/ i \in 1 .. Len(items) /\ work'[i] = items[i]
                  \/ /\ i - Len(items) + 1 \in 2 .. Len(work)
                     /\ Len(items) + (i - Len(items) + 1) - 1 = i
                     /\ work'[i] = work[i - Len(items) + 1]
<1>1. /\ items \in Seq(CompilerItem) /\ work # <<>> /\ work' = items \o Tail(work)
  BY DEF Replaces
<1>2. /\ work' \in Seq(CompilerItem)
      /\ Len(work') = Len(items) + Len(work) - 1
      /\ \A i \in 1 .. Len(items) : work'[i] = items[i]
      /\ \A i \in 2 .. Len(work) : work'[Len(items) + i - 1] = work[i]
  BY <1>1, ReplaceHead
<1>3. /\ Len(items) \in Nat /\ Len(work) \in Nat /\ Len(work) >= 1
      /\ work[1] = Head(work)
  BY <1>1, LenProperties, EmptySeq, HeadTailProperties
<1>4. ASSUME NEW i \in 1 .. Len(work')
      PROVE  \/ i \in 1 .. Len(items) /\ work'[i] = items[i]
             \/ /\ i - Len(items) + 1 \in 2 .. Len(work)
                /\ Len(items) + (i - Len(items) + 1) - 1 = i
                /\ work'[i] = work[i - Len(items) + 1]
  <2>1. CASE i <= Len(items)
    <3>1. i \in 1 .. Len(items)
      BY <1>3, <2>1
    <3>2. QED
      BY <1>2, <3>1
  <2>2. CASE ~(i <= Len(items))
    <3> DEFINE m == Len(items)
               n == Len(work)
    <3>1. m \in Nat /\ n \in Nat /\ i \in Int /\ i > m /\ i <= m + n - 1
      BY <1>2, <1>3, <2>2
    <3> HIDE DEF m, n
    <3>2. i - m + 1 \in 2 .. n /\ m + (i - m + 1) - 1 = i
      BY <3>1, PlaceAfterHead
    <3>3. work'[m + (i - m + 1) - 1] = work[i - m + 1]
      BY <1>2, <3>2 DEF m, n
    <3>4. QED
      BY <3>2, <3>3 DEF m, n
  <2>3. QED
    BY <2>1, <2>2
<1>5. QED
  BY <1>2, <1>3, <1>4

LEMMA AfterHead ==
    ASSUME NEW m \in Nat, NEW n \in Nat, NEW i \in 2 .. n
    PROVE  /\ m + i - 1 \in 1 .. m + n - 1 /\ m + i - 1 > m
           /\ \A j \in i + 1 .. n : j \in 2 .. n /\ m + j - 1 \in m + i - 1 + 1 .. m + n - 1
           /\ \A j \in 2 .. n : i = j <=> m + i - 1 = m + j - 1
OBVIOUS

(* The walk after a step that replaces its head. *)
LEMMA WalkKeeps ==
    ASSUME CompilerInvariant, NEW items, Replaces(items), nodes' = nodes
    PROVE  WalkIsSound'
<1> DEFINE m == Len(items)
           n == Len(work)
           Old(i) == i - m + 1
<1>1. /\ work \in Seq(CompilerItem)
      /\ \A i \in 1 .. n : Compilable(work[i])
      /\ \A i \in 1 .. n : Waits(work[i]) => \E j \in i + 1 .. n : Closes(work[j])
      /\ \A i \in 1 .. n : Ends(work[i]) => i = n
      /\ \A i, j \in 1 .. n :
             Patches(work[i]) /\ Patches(work[j]) /\ i # j => work[i].at # work[j].at
  BY DEF CompilerInvariant, WalkIsSound
<1>2. /\ work' \in Seq(CompilerItem)
      /\ m \in Nat /\ n \in Nat /\ n >= 1 /\ work[1] = Head(work)
      /\ Len(work') = m + n - 1
      /\ \A i \in 1 .. m : work'[i] = items[i]
      /\ \A i \in 2 .. n : work'[m + i - 1] = work[i]
      /\ \A i \in 1 .. Len(work') :
             \/ i \in 1 .. m /\ work'[i] = items[i]
             \/ Old(i) \in 2 .. n /\ m + Old(i) - 1 = i /\ work'[i] = work[Old(i)]
  BY <1>1, WorkAfter
<1>3. \A i \in 1 .. m :
           /\ Compilable(items[i])
           /\ Waits(items[i]) =>
                  Waits(Head(work)) \/ \E j \in i + 1 .. m : Closes(items[j])
           /\ Ends(items[i]) => Ends(Head(work)) /\ i = m
           /\ Patches(items[i]) => items[i].at = Len(chunk.code)
           /\ \A j \in 1 .. m : Patches(items[i]) /\ Patches(items[j]) => i = j
  BY DEF Replaces
<1>4. \A i \in 1 .. n : Patches(work[i]) => work[i].at < Len(chunk.code)
  <2>1. SUFFICES ASSUME NEW i \in 1 .. n, Patches(work[i]) PROVE work[i].at < Len(chunk.code)
    OBVIOUS
  <2>2. PICK s \in 1 .. Len(chunk.spans) : OffsetOf(chunk, s) = work[i].at
    BY <2>1 DEF CompilerInvariant, CodeIsSound
  <2>3. OffsetOf(chunk, s) < Len(chunk.code)
    BY BytesOf DEF CompilerInvariant, CodeIsSound
  <2>4. QED
    BY <2>2, <2>3
<1>5. \A i \in 2 .. n : i \in 1 .. n /\ i # 1
  OBVIOUS
<1> HIDE DEF m, n
<1>6. ASSUME NEW i \in 2 .. n
      PROVE  /\ m + i - 1 \in 1 .. m + n - 1 /\ m + i - 1 > m
             /\ \A j \in i + 1 .. n : j \in 2 .. n /\ m + j - 1 \in m + i - 1 + 1 .. m + n - 1
  BY <1>2, AfterHead
<1>7. (\A i \in 1 .. Len(work) : Compilable(work[i]))'
  <2>1. \A i \in 1 .. Len(work') : Compilable(work'[i])
    <3> TAKE i \in 1 .. Len(work')
    <3>1. CASE i \in 1 .. m /\ work'[i] = items[i]
      BY <1>3, <3>1
    <3>2. CASE Old(i) \in 2 .. n /\ work'[i] = work[Old(i)]
      BY <1>1, <1>5, <3>2
    <3>3. QED
      BY <1>2, <3>1, <3>2
  <2>2. QED
    BY <2>1 DEF Compilable, IsNode
<1>8. Waits(Head(work)) => \E j \in 2 .. n : Closes(work[j])
  <2>1. 1 \in 1 .. n /\ 1 + 1 = 2
    BY <1>2
  <2>2. QED
    BY <1>1, <1>2, <2>1
<1>9. ASSUME NEW i \in 1 .. Len(work'), Waits(work'[i])
      PROVE  \E j \in i + 1 .. Len(work') : Closes(work'[j])
  <2>1. CASE i \in 1 .. m /\ work'[i] = items[i]
    <3>1. CASE \E j \in i + 1 .. m : Closes(items[j])
      <4>1. PICK j \in i + 1 .. m : Closes(items[j])
        BY <3>1
      <4>2. j \in 1 .. m /\ j \in i + 1 .. Len(work')
        BY <1>2, <2>1
      <4>3. QED
        BY <1>2, <4>1, <4>2
    <3>2. CASE Waits(Head(work))
      <4>1. PICK j \in 2 .. n : Closes(work[j])
        BY <1>8, <3>2
      <4>2. m + j - 1 > m /\ m + j - 1 \in 1 .. m + n - 1
        BY <1>6
      <4>3. m + j - 1 \in i + 1 .. Len(work')
        BY <1>2, <2>1, <4>2
      <4>4. work'[m + j - 1] = work[j]
        BY <1>2
      <4>5. QED
        BY <4>1, <4>3, <4>4
    <3>3. QED
      BY <1>3, <1>9, <2>1, <3>1, <3>2
  <2>2. CASE Old(i) \in 2 .. n /\ m + Old(i) - 1 = i /\ work'[i] = work[Old(i)]
    <3> DEFINE o == Old(i)
    <3>1. o \in 2 .. n /\ m + o - 1 = i /\ Waits(work[o]) /\ o \in 1 .. n
      BY <1>5, <1>9, <2>2
    <3> HIDE DEF o
    <3>2. PICK j \in o + 1 .. n : Closes(work[j])
      BY <1>1, <3>1
    <3>3. j \in 2 .. n /\ m + j - 1 \in m + o - 1 + 1 .. m + n - 1
      BY <1>6, <3>1
    <3>4. work'[m + j - 1] = work[j]
      BY <1>2, <3>3
    <3>5. m + j - 1 \in i + 1 .. Len(work')
      BY <1>2, <3>1, <3>3
    <3>6. QED
      BY <3>2, <3>4, <3>5
  <2>3. QED
    BY <1>2, <2>1, <2>2
<1>10. ASSUME NEW i \in 1 .. Len(work'), Ends(work'[i])
       PROVE  i = Len(work')
  <2>1. CASE i \in 1 .. m /\ work'[i] = items[i]
    <3>1. Ends(Head(work)) /\ i = m
      BY <1>3, <1>10, <2>1
    <3>2. 1 = n
      <4>1. 1 \in 1 .. n
        BY <1>2
      <4>2. QED
        BY <1>1, <1>2, <3>1, <4>1
    <3>3. QED
      BY <1>2, <3>1, <3>2
  <2>2. CASE Old(i) \in 2 .. n /\ m + Old(i) - 1 = i /\ work'[i] = work[Old(i)]
    <3>1. Old(i) = n
      BY <1>1, <1>5, <1>10, <2>2
    <3>2. QED
      BY <1>2, <2>2, <3>1
  <2>3. QED
    BY <1>2, <2>1, <2>2
<1>11. ASSUME NEW i \in 1 .. Len(work'), NEW j \in 1 .. Len(work'),
              Patches(work'[i]), Patches(work'[j]), i # j
       PROVE  work'[i].at # work'[j].at
  <2>1. CASE i \in 1 .. m /\ work'[i] = items[i] /\ j \in 1 .. m /\ work'[j] = items[j]
    BY <1>3, <1>11, <2>1
  <2>2. CASE /\ i \in 1 .. m /\ work'[i] = items[i]
             /\ Old(j) \in 2 .. n /\ work'[j] = work[Old(j)]
    <3>1. work'[i].at = Len(chunk.code) /\ work'[j].at < Len(chunk.code)
      BY <1>3, <1>4, <1>5, <1>11, <2>2
    <3>2. Len(chunk.code) \in Nat
      BY ChunkFields DEF CompilerInvariant, CodeIsSound
    <3>3. QED
      BY <3>1, <3>2
  <2>3. CASE /\ j \in 1 .. m /\ work'[j] = items[j]
             /\ Old(i) \in 2 .. n /\ work'[i] = work[Old(i)]
    <3>1. work'[j].at = Len(chunk.code) /\ work'[i].at < Len(chunk.code)
      BY <1>3, <1>4, <1>5, <1>11, <2>3
    <3>2. Len(chunk.code) \in Nat
      BY ChunkFields DEF CompilerInvariant, CodeIsSound
    <3>3. QED
      BY <3>1, <3>2
  <2>4. CASE /\ Old(i) \in 2 .. n /\ m + Old(i) - 1 = i /\ work'[i] = work[Old(i)]
             /\ Old(j) \in 2 .. n /\ m + Old(j) - 1 = j /\ work'[j] = work[Old(j)]
    <3>1. Old(i) # Old(j)
      BY <1>11, <2>4
    <3>2. QED
      BY <1>1, <1>5, <1>11, <2>4, <3>1
  <2>5. QED
    BY <1>2, <2>1, <2>2, <2>3, <2>4
<1>12. QED
  BY <1>2, <1>7, <1>9, <1>10, <1>11 DEF WalkIsSound, Waits, Closes, Ends, Patches

(* The code after a step, whatever the step emits or patches. *)
LEMMA CodeKeeps ==
    ASSUME CompilerInvariant, NEW items, Replaces(items), nodes' = nodes,
           IsChunk(chunk'), Tiled(chunk'), ReadsInOrder(chunk'),
           Len(chunk.code) <= Len(chunk'.code), Len(chunk.spans) <= Len(chunk'.spans),
           Closes(Head(work)) => Len(chunk.code) < Len(chunk'.code),
           \A s \in 1 .. Len(chunk.spans) :
               /\ SameInstruction(chunk, chunk', s)
               /\ OpOf(chunk, s) \in JumpOps =>
                      \/ SameOperand(chunk, chunk', s)
                      \/ Patches(Head(work)) /\ OffsetOf(chunk, s) = Head(work).at,
           Patches(Head(work)) =>
               /\ OperandAt(chunk', Head(work).at) \in Nat
               /\ OperandAt(chunk', Head(work).at) <= Len(chunk'.code),
           \A s \in Len(chunk.spans) + 1 .. Len(chunk'.spans) :
               OpOf(chunk', s) \in JumpOps =>
                   \/ \E i \in 1 .. Len(items) :
                          Patches(items[i]) /\ items[i].at = OffsetOf(chunk', s)
                   \/ /\ OperandAt(chunk', OffsetOf(chunk', s)) \in Nat
                      /\ OperandAt(chunk', OffsetOf(chunk', s)) < Len(chunk'.code),
           \A i \in 1 .. Len(items) :
               /\ Patches(items[i]) =>
                      \E s \in 1 .. Len(chunk'.spans) :
                          OffsetOf(chunk', s) = items[i].at /\ IsHole(chunk', s)
               /\ Loops(items[i]) => items[i].header <= Len(chunk'.code)
    PROVE  CompilerInvariant'
<1> DEFINE m == Len(items)
           n == Len(work)
           Old(i) == i - m + 1
           size == Len(chunk.code)
           after == Len(chunk'.code)
<1>0. WalkIsSound'
  BY WalkKeeps
<1>1. /\ work \in Seq(CompilerItem)
      /\ \A i \in 1 .. n : Waits(work[i]) => \E j \in i + 1 .. n : Closes(work[j])
      /\ \A i, j \in 1 .. n :
             Patches(work[i]) /\ Patches(work[j]) /\ i # j => work[i].at # work[j].at
  BY DEF CompilerInvariant, WalkIsSound
<1>2. /\ m \in Nat /\ n \in Nat /\ n >= 1 /\ work[1] = Head(work)
      /\ Len(work') = m + n - 1
      /\ \A i \in 1 .. m : work'[i] = items[i]
      /\ \A i \in 2 .. n : work'[m + i - 1] = work[i]
      /\ \A i \in 1 .. Len(work') :
             \/ i \in 1 .. m /\ work'[i] = items[i]
             \/ Old(i) \in 2 .. n /\ m + Old(i) - 1 = i /\ work'[i] = work[Old(i)]
  BY <1>1, WorkAfter
<1>3. /\ size \in Nat /\ after \in Nat /\ Len(chunk.spans) \in Nat /\ Len(chunk'.spans) \in Nat
      /\ size <= after
  BY ChunkFields DEF CompilerInvariant, CodeIsSound
<1>4. /\ \A i \in 1 .. n :
             Patches(work[i]) =>
                 \E s \in 1 .. Len(chunk.spans) :
                     OffsetOf(chunk, s) = work[i].at /\ IsHole(chunk, s)
      /\ \A i \in 1 .. n : Loops(work[i]) => work[i].header <= size
      /\ \A s \in 1 .. Len(chunk.spans) :
             OpOf(chunk, s) \in JumpOps => IsAwaited(chunk, s) \/ HasTarget(chunk, s)
  BY DEF CompilerInvariant, CodeIsSound
<1>5. \A i \in 2 .. n : i \in 1 .. n /\ i # 1
  OBVIOUS
<1>6. 1 \in 1 .. n
  BY <1>2
<1> HIDE DEF m, n, size, after
<1>7. ASSUME NEW i \in 2 .. n
      PROVE  m + i - 1 \in 1 .. Len(work') /\ work'[m + i - 1] = work[i]
  BY <1>2, AfterHead
<1>8. \A s \in 1 .. Len(chunk.spans) : s \in 1 .. Len(chunk'.spans)
  BY <1>3
<1>9. ASSUME NEW s \in 1 .. Len(chunk.spans)
      PROVE  OffsetOf(chunk', s) = OffsetOf(chunk, s) /\ OpOf(chunk', s) = OpOf(chunk, s)
  BY DEF SameInstruction
<1>10. ASSUME NEW i \in 1 .. Len(work'), Patches(work'[i])
       PROVE  \E s \in 1 .. Len(chunk'.spans) :
                  OffsetOf(chunk', s) = work'[i].at /\ IsHole(chunk', s)
  <2>1. CASE i \in 1 .. m /\ work'[i] = items[i]
    BY <1>10, <2>1 DEF m
  <2>2. CASE Old(i) \in 2 .. n /\ work'[i] = work[Old(i)]
    <3> DEFINE o == Old(i)
    <3>1. o \in 1 .. n /\ o # 1 /\ Patches(work[o]) /\ work'[i] = work[o]
      BY <1>5, <1>10, <2>2
    <3> HIDE DEF o
    <3>2. PICK s \in 1 .. Len(chunk.spans) :
              OffsetOf(chunk, s) = work[o].at /\ IsHole(chunk, s)
      BY <1>4, <3>1
    <3>3. ~(Patches(Head(work)) /\ OffsetOf(chunk, s) = Head(work).at)
      BY <1>1, <1>2, <1>6, <3>1, <3>2
    <3>4. SameOperand(chunk, chunk', s)
      BY <3>2, <3>3 DEF IsHole
    <3>5. IsHole(chunk', s)
      BY <1>9, <3>2, <3>4 DEF IsHole, SameOperand, OffsetOf
    <3>6. QED
      BY <1>8, <1>9, <3>1, <3>2, <3>5
  <2>3. QED
    BY <1>2, <2>1, <2>2
<1>11. ASSUME NEW i \in 1 .. Len(work'), Loops(work'[i])
       PROVE  work'[i].header <= after
  <2>1. CASE i \in 1 .. m /\ work'[i] = items[i]
    BY <1>11, <2>1 DEF m, after
  <2>2. CASE Old(i) \in 2 .. n /\ work'[i] = work[Old(i)]
    <3> DEFINE o == Old(i)
    <3>1. o \in 1 .. n /\ Loops(work[o]) /\ work'[i] = work[o]
      BY <1>5, <1>11, <2>2
    <3> HIDE DEF o
    <3>2. work[o].header <= size /\ work[o].header \in Nat
      <4>1. work[o] \in CompilerItem
        BY <1>1, <3>1, ElementOfSeq DEF n
      <4>2. QED
        BY <1>4, <3>1, <4>1 DEF CompilerItem
    <3>3. QED
      BY <1>3, <3>1, <3>2
  <2>3. QED
    BY <1>2, <2>1, <2>2
<1>12. ASSUME NEW s \in 1 .. Len(chunk'.spans), OpOf(chunk', s) \in JumpOps
       PROVE  \/ \E i \in 1 .. Len(work') :
                     Patches(work'[i]) /\ work'[i].at = OffsetOf(chunk', s)
              \/ /\ OperandAt(chunk', OffsetOf(chunk', s)) \in Nat
                 /\ OperandAt(chunk', OffsetOf(chunk', s)) <= after
                 /\ \/ OperandAt(chunk', OffsetOf(chunk', s)) < after
                    \/ \E j \in 1 .. Len(work') : Closes(work'[j])
  <2>1. CASE s \in Len(chunk.spans) + 1 .. Len(chunk'.spans)
    <3>1. CASE \E i \in 1 .. m : Patches(items[i]) /\ items[i].at = OffsetOf(chunk', s)
      <4>1. PICK i \in 1 .. m : Patches(items[i]) /\ items[i].at = OffsetOf(chunk', s)
        BY <3>1
      <4>2. i \in 1 .. Len(work') /\ work'[i] = items[i]
        BY <1>2
      <4>3. QED
        BY <4>1, <4>2
    <3>2. CASE /\ OperandAt(chunk', OffsetOf(chunk', s)) \in Nat
               /\ OperandAt(chunk', OffsetOf(chunk', s)) < after
      BY <1>3, <3>2
    <3>3. QED
      BY <1>12, <2>1, <3>1, <3>2 DEF m, after
  <2>2. CASE s \in 1 .. Len(chunk.spans)
    <3> DEFINE o == OffsetOf(chunk, s)
    <3>1. OffsetOf(chunk', s) = o /\ OpOf(chunk, s) \in JumpOps
      BY <1>9, <1>12, <2>2
    <3>2. \/ SameOperand(chunk, chunk', s)
          \/ Patches(Head(work)) /\ o = Head(work).at
      BY <2>2, <3>1
    <3>3. SameOperand(chunk, chunk', s) => OperandAt(chunk', o) = OperandAt(chunk, o)
      BY DEF SameOperand, OperandAt, OffsetOf
    <3>4. IsAwaited(chunk, s) \/ HasTarget(chunk, s)
      BY <1>4, <2>2, <3>1
    <3>5. CASE Patches(Head(work)) /\ o = Head(work).at
      <4>1. Waits(work[1])
        BY <1>2, <3>5 DEF Patches, Waits
      <4>2. PICK j \in 2 .. n : Closes(work[j])
        BY <1>1, <1>6, <4>1
      <4>3. \E l \in 1 .. Len(work') : Closes(work'[l])
        BY <1>7, <4>2
      <4>4. OperandAt(chunk', o) \in Nat /\ OperandAt(chunk', o) <= after
        BY <3>5 DEF after
      <4>5. QED
        BY <3>1, <4>3, <4>4
    <3>6. CASE SameOperand(chunk, chunk', s) /\ ~(Patches(Head(work)) /\ o = Head(work).at)
      <4>1. CASE IsAwaited(chunk, s)
        <5>1. PICK i \in 1 .. n : Patches(work[i]) /\ work[i].at = o
          BY <4>1 DEF IsAwaited, n
        <5>2. i # 1
          BY <1>2, <3>6, <5>1
        <5>3. i \in 2 .. n
          BY <5>2
        <5>4. m + i - 1 \in 1 .. Len(work') /\ work'[m + i - 1] = work[i]
          BY <1>7, <5>3
        <5>5. QED
          BY <3>1, <5>1, <5>4
      <4>2. CASE HasTarget(chunk, s)
        <5> DEFINE target == OperandAt(chunk, o)
        <5>1. /\ target \in Nat /\ target <= size
              /\ target < size \/ \E j \in 1 .. n : Closes(work[j])
          BY <4>2 DEF HasTarget, size, n
        <5>2. OperandAt(chunk', OffsetOf(chunk', s)) = target
          BY <3>1, <3>3, <3>6
        <5> HIDE DEF target
        <5>3. target <= after
          BY <1>3, <5>1
        <5>4. CASE target < size
          <6>1. target < after
            BY <1>3, <5>1, <5>4
          <6>2. QED
            BY <5>1, <5>2, <5>3, <6>1
        <5>5. CASE \E j \in 1 .. n : Closes(work[j])
          <6>1. PICK j \in 1 .. n : Closes(work[j])
            BY <5>5
          <6>2. CASE j = 1
            <7>1. size < after
              BY <1>2, <6>1, <6>2 DEF size, after
            <7>2. target < after
              BY <1>3, <5>1, <7>1
            <7>3. QED
              BY <5>1, <5>2, <5>3, <7>2
          <6>3. CASE j # 1
            <7>1. j \in 2 .. n
              BY <6>3
            <7>2. \E l \in 1 .. Len(work') : Closes(work'[l])
              BY <1>7, <6>1, <7>1
            <7>3. QED
              BY <5>1, <5>2, <5>3, <7>2
          <6>4. QED
            BY <6>2, <6>3
        <5>6. QED
          BY <5>1, <5>4, <5>5
      <4>3. QED
        BY <3>4, <4>1, <4>2
    <3>7. QED
      BY <3>2, <3>5, <3>6
  <2>3. QED
    BY <1>3, <2>1, <2>2
<1>13. (\A i \in 1 .. Len(work) :
            Patches(work[i]) =>
                \E s \in 1 .. Len(chunk.spans) :
                    OffsetOf(chunk, s) = work[i].at /\ IsHole(chunk, s))'
  BY <1>10 DEF Patches, OffsetOf, OpOf, IsHole
<1>14. (\A i \in 1 .. Len(work) : Loops(work[i]) => work[i].header <= Len(chunk.code))'
  BY <1>11 DEF Loops, after
<1>15. (\A s \in 1 .. Len(chunk.spans) :
            OpOf(chunk, s) \in JumpOps => IsAwaited(chunk, s) \/ HasTarget(chunk, s))'
  BY <1>12 DEF OpOf, OffsetOf, IsAwaited, HasTarget, OperandAt, Patches, Closes, after
<1>16. (IsChunk(chunk) /\ Tiled(chunk) /\ ReadsInOrder(chunk))'
  OBVIOUS
<1>17. QED
  BY <1>0, <1>13, <1>14, <1>15, <1>16 DEF CompilerInvariant, CodeIsSound

-----------------------------------------------------------------------------

LEMMA HoleIsUnpatched ==
    ASSUME CodeIsSound, NEW s \in 1 .. Len(chunk.spans), IsHole(chunk, s)
    PROVE  OffsetOf(chunk, s) \in Unpatched
<1> DEFINE o == OffsetOf(chunk, s)
<1>1. o \in T!Starts(chunk)
  <2>1. PICK E : chunk.spans \in Seq(E)
    BY ChunkFields DEF CodeIsSound
  <2>2. s \in DOMAIN chunk.spans
    BY <2>1, LenProperties
  <2>3. QED
    BY <2>2 DEF T!Starts, OffsetOf
<1>2. T!Byte(chunk, o) \in Jumps
  <2>1. T!OpCode.JUMP = 13 /\ T!OpCode.JUMP_IF_FALSE = 14
    BY DEF T!OpCode
  <2>2. QED
    BY <2>1 DEF T!Byte, Jumps, IsHole, JumpOps, OpOf, OffsetOf
<1>3. T!ReadOperand(chunk, o) = C!Placeholder
  <2>1. o \in Nat
    BY DEF CodeIsSound, Tiled
  <2>2. o + 1 + 1 = o + 2 /\ o + 2 + 1 = o + 3
    BY <2>1
  <2>3. T!ReadOperand(chunk, o) = chunk.code[o + 2] + chunk.code[o + 3] * ByteBase
    BY <2>2 DEF T!ReadOperand, T!Byte
  <2>4. chunk.code[o + 2] = Low(MaxOperand) /\ chunk.code[o + 3] = High(MaxOperand)
    BY DEF IsHole
  <2>5. Low(MaxOperand) + High(MaxOperand) * ByteBase = MaxOperand
    <3>1. MaxOperand \in 0 .. MaxOperand
      BY PipelineAssumption
    <3>2. QED
      BY <3>1, OperandFitsTwoBytes
  <2> HIDE DEF o
  <2>6. QED
    BY <2>3, <2>4, <2>5 DEF C!Placeholder
<1>4. QED
  BY <1>1, <1>2, <1>3 DEF Unpatched

LEMMA OnlyItsHoleChanges ==
    ASSUME CompilerInvariant, work # <<>>, Len(chunk.code) <= Len(chunk'.code),
           \A p \in 1 .. Len(chunk.code) :
               chunk'.code[p] # chunk.code[p] =>
                   Patches(Head(work)) /\ p \in {Head(work).at + 2, Head(work).at + 3}
    PROVE  OnlyHolesChange
<1>1. PICK B : chunk.code \in Seq(B)
  BY ChunkFields DEF CompilerInvariant, CodeIsSound
<1>2. DOMAIN chunk.code = 1 .. Len(chunk.code) /\ Len(chunk.code) \in Nat
  BY <1>1, LenProperties
<1>3. ASSUME Patches(Head(work))
      PROVE  Head(work).at \in Unpatched
  <2>1. work[1] = Head(work) /\ 1 \in 1 .. Len(work)
    BY HeadTailProperties, LenProperties, EmptySeq DEF CompilerInvariant, WalkIsSound
  <2>2. CodeIsSound
    BY DEF CompilerInvariant
  <2>3. PICK s \in 1 .. Len(chunk.spans) :
            OffsetOf(chunk, s) = Head(work).at /\ IsHole(chunk, s)
    BY <1>3, <2>1, <2>2 DEF CodeIsSound
  <2>4. OffsetOf(chunk, s) \in Unpatched
    BY <2>2, <2>3, HoleIsUnpatched
  <2>5. QED
    BY <2>3, <2>4
<1>4. ASSUME NEW p \in DOMAIN chunk.code, chunk'.code[p] # chunk.code[p]
      PROVE  p \in UNION {{o + 2, o + 3} : o \in Unpatched}
  <2>1. Patches(Head(work)) /\ p \in {Head(work).at + 2, Head(work).at + 3}
    BY <1>2, <1>4
  <2>2. Head(work).at \in Unpatched
    BY <1>3, <2>1
  <2>3. {Head(work).at + 2, Head(work).at + 3} \in {{o + 2, o + 3} : o \in Unpatched}
    BY <2>2
  <2>4. QED
    BY <2>1, <2>3
<1>5. Len(chunk'.code) >= Len(chunk.code)
  <2>1. Len(chunk.code) <= Len(chunk'.code)
    OBVIOUS
  <2>2. QED
    BY <2>1
<1>6. QED
  BY <1>4, <1>5 DEF OnlyHolesChange

(* A step that emits nothing. *)
LEMMA QuietKeeps ==
    ASSUME CompilerInvariant, NEW items, Replaces(items), nodes' = nodes,
           IsChunk(chunk'), chunk'.code = chunk.code, chunk'.spans = chunk.spans,
           chunk'.constants = chunk.constants,
           ~Patches(Head(work)), ~Closes(Head(work)),
           \A i \in 1 .. Len(items) :
               ~Patches(items[i]) /\ (Loops(items[i]) => items[i].header <= Len(chunk.code))
    PROVE  CompilerInvariant' /\ OnlyHolesChange
<1>1. IsChunk(chunk) /\ Tiled(chunk) /\ ReadsInOrder(chunk)
  BY DEF CompilerInvariant, CodeIsSound
<1>2. Len(chunk.code) \in Nat /\ Len(chunk.spans) \in Nat
  BY <1>1, ChunkFields
<1>3. Tiled(chunk')
  BY <1>1 DEF Tiled, OffsetOf, OpOf
<1>4. \A s \in 1 .. Len(chunk.spans) :
          SameInstruction(chunk, chunk', s) /\ SameOperand(chunk, chunk', s)
  BY DEF SameInstruction, SameOperand, OffsetOf, OpOf
<1>5. ReadsInOrder(chunk')
  BY <1>1, <1>4, ReadsKept
<1>6. CompilerInvariant'
  <2>1. Len(chunk.code) <= Len(chunk'.code) /\ Len(chunk.spans) <= Len(chunk'.spans)
    BY <1>2
  <2>2. \A s \in Len(chunk.spans) + 1 .. Len(chunk'.spans) : FALSE
    BY <1>2
  <2>3. \A i \in 1 .. Len(items) :
            ~Patches(items[i]) /\ (Loops(items[i]) => items[i].header <= Len(chunk'.code))
    OBVIOUS
  <2>4. QED
    BY <1>3, <1>4, <1>5, <2>1, <2>2, <2>3, CodeKeeps
<1>7. OnlyHolesChange
  BY <1>2, OnlyItsHoleChanges DEF Replaces
<1>8. QED
  BY <1>6, <1>7

(* A step that emits one instruction. *)
LEMMA EmitKeeps ==
    ASSUME CompilerInvariant, NEW items, Replaces(items), nodes' = nodes,
           NEW onto, NEW op, NEW operand, NEW span, NEW text,
           chunk' = C!Emit(onto, op, operand, span, text), C!HasRoom(onto, op),
           \/ onto = chunk /\ op # 0
           \/ /\ op = 0 /\ operand = Len(chunk.constants) /\ operand <= MaxOperand
              /\ \E value : onto = C!AddConstant(chunk, value),
           ~Patches(Head(work)),
           op \in JumpOps =>
               operand = MaxOperand /\ \E i \in 1 .. Len(items) : Patches(items[i]),
           \A i \in 1 .. Len(items) :
               /\ Patches(items[i]) => op \in JumpOps
               /\ Loops(items[i]) => items[i].header <= Len(chunk.code)
    PROVE  CompilerInvariant' /\ OnlyHolesChange
<1> DEFINE last == Len(chunk.spans) + 1
           o == Len(chunk.code)
<1>1. IsChunk(chunk) /\ Tiled(chunk) /\ ReadsInOrder(chunk)
  BY DEF CompilerInvariant, CodeIsSound
<1>2. Len(chunk.code) \in Nat /\ Len(chunk.spans) \in Nat /\ Len(chunk.constants) \in Nat
  BY <1>1, ChunkFields
<1>3. /\ IsChunk(onto) /\ Tiled(onto) /\ onto.code = chunk.code /\ onto.spans = chunk.spans
      /\ op # 0 => onto.constants = chunk.constants
      /\ op = 0 => Len(onto.constants) = Len(chunk.constants) + 1
  BY <1>1, AddConstantFacts
<1>4. /\ IsChunk(chunk') /\ Tiled(chunk')
      /\ Len(chunk'.code) = o + Length(op)
      /\ \A p \in 1 .. o : chunk'.code[p] = onto.code[p]
      /\ chunk'.constants = onto.constants
      /\ chunk'.spans = Append(onto.spans, C!SpanEntry(Len(onto.code), span, text))
      /\ Len(chunk'.spans) = last
      /\ OffsetOf(chunk', last) = o /\ OpOf(chunk', last) = op
      /\ op \in WithOperand =>
             chunk'.code[o + 2] = Low(operand) /\ chunk'.code[o + 3] = High(operand)
      /\ \A i \in 1 .. Len(chunk.spans) :
             /\ SameInstruction(onto, chunk', i)
             /\ OpOf(onto, i) \in WithOperand => SameOperand(onto, chunk', i)
  <2> DEFINE m == C!Emit(onto, op, operand, span, text)
  <2>1. Len(onto.code) = o /\ Len(onto.spans) + 1 = last /\ Len(onto.spans) = Len(chunk.spans)
    BY <1>3
  <2>2. HasEmitted(onto, m, op, operand, span, text)
    BY <1>3, EmitFacts
  <2>3. chunk' = m
    OBVIOUS
  <2> HIDE DEF m, o, last
  <2>4. QED
    BY <2>1, <2>2, <2>3 DEF HasEmitted
<1>5. \A i \in 1 .. Len(chunk.spans) :
          /\ SameInstruction(chunk, chunk', i)
          /\ OpOf(chunk, i) \in WithOperand => SameOperand(chunk, chunk', i)
  BY <1>3, <1>4 DEF SameInstruction, SameOperand, OffsetOf, OpOf
<1>6. Length(op) \in {1, 3}
  BY LengthsAre
<1>7. 0 \in WithOperand /\ JumpOps \subseteq WithOperand
  BY DEF WithOperand, JumpOps
<1> HIDE DEF last, o
<1>8. ReadsInOrder(chunk')
  <2>1. op = 0 => OperandAt(chunk', o) = Len(chunk.constants)
    <3>1. SUFFICES ASSUME op = 0 PROVE OperandAt(chunk', o) = Len(chunk.constants)
      OBVIOUS
    <3>2. operand = Len(chunk.constants) /\ operand \in 0 .. MaxOperand
      BY <1>2, <3>1
    <3>3. Low(operand) + High(operand) * ByteBase = operand
      BY <3>2, OperandFitsTwoBytes
    <3>4. chunk'.code[o + 2] = Low(operand) /\ chunk'.code[o + 3] = High(operand)
      BY <1>4, <1>7, <3>1
    <3>5. QED
      BY <3>2, <3>3, <3>4 DEF OperandAt
  <2>2. chunk'.spans = Append(chunk.spans, C!SpanEntry(o, span, text))
    BY <1>3, <1>4 DEF o
  <2>3. \A i \in 1 .. Len(chunk.spans) :
            SameInstruction(chunk, chunk', i) /\ (OpOf(chunk, i) = 0 => SameOperand(chunk, chunk', i))
    BY <1>5, <1>7
  <2>4. OpOf(chunk', Len(chunk.spans) + 1) = op
        /\ OffsetOf(chunk', Len(chunk.spans) + 1) = Len(chunk.code)
    BY <1>4 DEF last, o
  <2>5. /\ op # 0 => chunk'.constants = chunk.constants
        /\ op = 0 => /\ Len(chunk'.constants) = Len(chunk.constants) + 1
                     /\ OperandAt(chunk', Len(chunk.code)) = Len(chunk.constants)
    BY <1>3, <1>4, <2>1 DEF o
  <2>6. QED
    BY <1>1, <2>2, <2>3, <2>4, <2>5, ReadsGrow
<1>9. Len(chunk.code) < Len(chunk'.code) /\ Len(chunk.code) <= Len(chunk'.code)
      /\ Len(chunk.spans) <= Len(chunk'.spans)
  BY <1>2, <1>4, <1>6 DEF last, o
<1>10. ASSUME NEW i \in 1 .. Len(items)
       PROVE  /\ Patches(items[i]) =>
                     \E s \in 1 .. Len(chunk'.spans) :
                         OffsetOf(chunk', s) = items[i].at /\ IsHole(chunk', s)
              /\ Loops(items[i]) => items[i].header <= Len(chunk'.code)
  <2>1. ASSUME Patches(items[i])
        PROVE  \E s \in 1 .. Len(chunk'.spans) :
                   OffsetOf(chunk', s) = items[i].at /\ IsHole(chunk', s)
    <3>1. op \in JumpOps /\ operand = MaxOperand
      BY <2>1
    <3>2. items[i].at = o
      BY <2>1 DEF Replaces, o
    <3>3. IsHole(chunk', last)
      BY <1>4, <1>7, <3>1 DEF IsHole
    <3>4. last \in 1 .. Len(chunk'.spans)
      BY <1>2, <1>4 DEF last
    <3>5. QED
      BY <1>4, <3>2, <3>3, <3>4
  <2>2. ASSUME Loops(items[i])
        PROVE  items[i].header <= Len(chunk'.code)
    <3>1. items[i] \in CompilerItem
      BY ElementOfSeq DEF Replaces
    <3>2. items[i].header \in Nat /\ items[i].header <= Len(chunk.code)
      BY <2>2, <3>1 DEF CompilerItem
    <3>3. Len(chunk'.code) \in Nat
      BY <1>4, ChunkFields
    <3>4. QED
      BY <1>2, <1>9, <3>2, <3>3
  <2>3. QED
    BY <2>1, <2>2
<1>11. ASSUME NEW s \in Len(chunk.spans) + 1 .. Len(chunk'.spans), OpOf(chunk', s) \in JumpOps
       PROVE  \E i \in 1 .. Len(items) :
                  Patches(items[i]) /\ items[i].at = OffsetOf(chunk', s)
  <2>1. s = last
    BY <1>2, <1>4 DEF last
  <2>2. op \in JumpOps
    BY <1>4, <1>11, <2>1
  <2>3. PICK i \in 1 .. Len(items) : Patches(items[i])
    BY <2>2
  <2>4. items[i].at = o
    BY <2>3 DEF Replaces, o
  <2>5. QED
    BY <1>4, <2>1, <2>3, <2>4
<1>12. CompilerInvariant'
  <2>1. \A s \in 1 .. Len(chunk.spans) :
            /\ SameInstruction(chunk, chunk', s)
            /\ OpOf(chunk, s) \in JumpOps => SameOperand(chunk, chunk', s)
    BY <1>5, <1>7
  <2>2. IsChunk(chunk') /\ Tiled(chunk')
    BY <1>4
  <2>3. QED
    BY <1>8, <1>9, <1>10, <1>11, <2>1, <2>2, CodeKeeps
<1>13. OnlyHolesChange
  <2>1. \A p \in 1 .. Len(chunk.code) : chunk'.code[p] = chunk.code[p]
    BY <1>3, <1>4 DEF o
  <2>2. QED
    BY <1>9, <2>1, OnlyItsHoleChanges DEF Replaces
<1>14. QED
  BY <1>12, <1>13

(* A step that patches the jump its head remembers, perhaps in code it has just
   made longer. *)
LEMMA PatchKeeps ==
    ASSUME CompilerInvariant, NEW items, Replaces(items), nodes' = nodes,
           Patches(Head(work)),
           NEW k, IsChunk(k), Tiled(k), ReadsInOrder(k),
           Len(chunk.code) <= Len(k.code), Len(chunk.spans) <= Len(k.spans),
           \A p \in 1 .. Len(chunk.code) : k.code[p] = chunk.code[p],
           \A s \in 1 .. Len(chunk.spans) :
               /\ SameInstruction(chunk, k, s)
               /\ OpOf(chunk, s) \in WithOperand => SameOperand(chunk, k, s),
           chunk' = C!PatchToHere(k, Head(work).at),
           \A s \in Len(chunk.spans) + 1 .. Len(k.spans) :
               OpOf(k, s) \in JumpOps =>
                   \/ \E i \in 1 .. Len(items) :
                          Patches(items[i]) /\ items[i].at = OffsetOf(k, s)
                   \/ /\ OperandAt(k, OffsetOf(k, s)) \in Nat
                      /\ OperandAt(k, OffsetOf(k, s)) < Len(k.code),
           \A i \in 1 .. Len(items) :
               /\ ~Loops(items[i]) \/ items[i].header <= Len(k.code)
               /\ Patches(items[i]) =>
                      \E s \in Len(chunk.spans) + 1 .. Len(k.spans) :
                          OffsetOf(k, s) = items[i].at /\ IsHole(k, s)
    PROVE  CompilerInvariant' /\ OnlyHolesChange
<1> DEFINE at == Head(work).at
           size == Len(k.code)
<1>1. PICK h \in 1 .. Len(chunk.spans) : OffsetOf(chunk, h) = at /\ IsHole(chunk, h)
  <2>1. work[1] = Head(work) /\ 1 \in 1 .. Len(work)
    BY HeadTailProperties, LenProperties, EmptySeq DEF CompilerInvariant, WalkIsSound, Replaces
  <2>2. QED
    BY <2>1 DEF CompilerInvariant, CodeIsSound
<1>2. /\ Len(chunk.code) \in Nat /\ Len(chunk.spans) \in Nat
      /\ size \in Nat /\ Len(k.spans) \in Nat
  BY ChunkFields DEF CompilerInvariant, CodeIsSound
<1>3. JumpOps \subseteq WithOperand /\ 0 \in WithOperand /\ 0 \notin JumpOps
  BY DEF JumpOps, WithOperand
<1>4. h \in 1 .. Len(k.spans) /\ OffsetOf(k, h) = at /\ OpOf(k, h) \in JumpOps
  <2>1. h \in 1 .. Len(k.spans)
    BY <1>2
  <2>2. SameInstruction(chunk, k, h)
    OBVIOUS
  <2>3. QED
    BY <1>1, <2>1, <2>2 DEF SameInstruction, IsHole
<1>5. HasPatched(k, chunk', h, size)
  <2> DEFINE m == C!PatchOperand(k, OffsetOf(k, h), size)
  <2>1. OpOf(k, h) \in WithOperand
    BY <1>3, <1>4
  <2>2. HasPatched(k, m, h, size)
    BY <1>4, <2>1, PatchFacts
  <2>3. chunk' = m
    BY <1>4 DEF C!PatchToHere
  <2> HIDE DEF m, size
  <2>4. QED
    BY <2>2, <2>3
<1> HIDE DEF at, size
<1>6. /\ IsChunk(chunk') /\ Tiled(chunk') /\ Len(chunk'.code) = size
      /\ chunk'.code[at + 2] = Low(size) /\ chunk'.code[at + 3] = High(size)
      /\ \A p \in 1 .. size : p \notin {at + 2, at + 3} => chunk'.code[p] = k.code[p]
      /\ chunk'.constants = k.constants /\ chunk'.spans = k.spans
      /\ \A j \in 1 .. Len(k.spans) :
             /\ SameInstruction(k, chunk', j)
             /\ j # h /\ OpOf(k, j) \in WithOperand => SameOperand(k, chunk', j)
  BY <1>4, <1>5 DEF HasPatched, size
<1>7. ReadsInOrder(chunk')
  <2>1. \A i \in 1 .. Len(k.spans) :
            SameInstruction(k, chunk', i) /\ (OpOf(k, i) = 0 => SameOperand(k, chunk', i))
    BY <1>3, <1>4, <1>6
  <2>2. QED
    BY <1>6, <2>1, ReadsKept
<1>8. ASSUME NEW s \in 1 .. Len(chunk.spans)
      PROVE  /\ SameInstruction(chunk, chunk', s)
             /\ OpOf(chunk, s) \in JumpOps =>
                    \/ SameOperand(chunk, chunk', s)
                    \/ Patches(Head(work)) /\ OffsetOf(chunk, s) = Head(work).at
  <2>1. s \in 1 .. Len(k.spans)
    BY <1>2
  <2>2. /\ SameInstruction(chunk, k, s)
        /\ OpOf(chunk, s) \in WithOperand => SameOperand(chunk, k, s)
    OBVIOUS
  <2>3. /\ SameInstruction(k, chunk', s)
        /\ s # h /\ OpOf(k, s) \in WithOperand => SameOperand(k, chunk', s)
    BY <1>6, <2>1
  <2>4. SameInstruction(chunk, chunk', s)
    BY <2>2, <2>3 DEF SameInstruction
  <2>5. OpOf(chunk, s) = OpOf(k, s) /\ k.spans[s].offset = chunk.spans[s].offset
    BY <2>2 DEF SameInstruction, OffsetOf
  <2>6. ASSUME OpOf(chunk, s) \in JumpOps, s # h
        PROVE  SameOperand(chunk, chunk', s)
    <3>1. SameOperand(chunk, k, s) /\ SameOperand(k, chunk', s)
      BY <1>3, <2>2, <2>3, <2>5, <2>6
    <3>2. QED
      BY <2>5, <3>1 DEF SameOperand
  <2>7. s = h => OffsetOf(chunk, s) = Head(work).at
    BY <1>1 DEF at
  <2>8. QED
    BY <2>4, <2>6, <2>7
<1>9. OperandAt(chunk', at) = size
  <2>1. size \in 0 .. MaxOperand
    BY <1>2 DEF Tiled, size
  <2>2. Low(size) + High(size) * ByteBase = size
    BY <2>1, OperandFitsTwoBytes
  <2>3. QED
    BY <1>6, <2>2 DEF OperandAt
<1>10. ASSUME NEW s \in Len(chunk.spans) + 1 .. Len(k.spans)
       PROVE  /\ OffsetOf(chunk', s) = OffsetOf(k, s) /\ OpOf(chunk', s) = OpOf(k, s)
              /\ OpOf(k, s) \in JumpOps => SameOperand(k, chunk', s)
  <2>1. s \in 1 .. Len(k.spans) /\ s # h
    BY <1>2
  <2>2. QED
    BY <1>3, <1>6, <2>1 DEF SameInstruction
<1>11. ASSUME NEW s \in Len(chunk.spans) + 1 .. Len(chunk'.spans), OpOf(chunk', s) \in JumpOps
       PROVE  \/ \E i \in 1 .. Len(items) :
                     Patches(items[i]) /\ items[i].at = OffsetOf(chunk', s)
              \/ /\ OperandAt(chunk', OffsetOf(chunk', s)) \in Nat
                 /\ OperandAt(chunk', OffsetOf(chunk', s)) < Len(chunk'.code)
  <2>1. s \in Len(chunk.spans) + 1 .. Len(k.spans)
    BY <1>6
  <2>2. OffsetOf(chunk', s) = OffsetOf(k, s) /\ OpOf(k, s) \in JumpOps /\ SameOperand(k, chunk', s)
    BY <1>10, <1>11, <2>1
  <2>3. OperandAt(chunk', OffsetOf(k, s)) = OperandAt(k, OffsetOf(k, s))
    BY <2>2 DEF SameOperand, OperandAt, OffsetOf
  <2>4. QED
    BY <1>6, <2>1, <2>2, <2>3 DEF size
<1>12. ASSUME NEW i \in 1 .. Len(items)
       PROVE  /\ Patches(items[i]) =>
                     \E s \in 1 .. Len(chunk'.spans) :
                         OffsetOf(chunk', s) = items[i].at /\ IsHole(chunk', s)
              /\ Loops(items[i]) => items[i].header <= Len(chunk'.code)
  <2>1. ASSUME Patches(items[i])
        PROVE  \E s \in 1 .. Len(chunk'.spans) :
                   OffsetOf(chunk', s) = items[i].at /\ IsHole(chunk', s)
    <3>1. PICK s \in Len(chunk.spans) + 1 .. Len(k.spans) :
              OffsetOf(k, s) = items[i].at /\ IsHole(k, s)
      BY <2>1
    <3>2. OffsetOf(chunk', s) = OffsetOf(k, s) /\ OpOf(chunk', s) = OpOf(k, s)
          /\ SameOperand(k, chunk', s)
      BY <1>10, <3>1 DEF IsHole
    <3>3. IsHole(chunk', s)
      BY <3>1, <3>2 DEF IsHole, SameOperand, OffsetOf
    <3>4. s \in 1 .. Len(chunk'.spans)
      BY <1>2, <1>6
    <3>5. QED
      BY <3>1, <3>2, <3>3, <3>4
  <2>2. Loops(items[i]) => items[i].header <= Len(chunk'.code)
    BY <1>6 DEF size
  <2>3. QED
    BY <2>1, <2>2
<1>13. CompilerInvariant'
  <2>1. /\ Len(chunk.code) <= Len(chunk'.code) /\ Len(chunk.spans) <= Len(chunk'.spans)
    BY <1>6 DEF size
  <2>2. ~Closes(Head(work))
    BY DEF Patches, Closes
  <2>3. OperandAt(chunk', Head(work).at) \in Nat
        /\ OperandAt(chunk', Head(work).at) <= Len(chunk'.code)
    BY <1>2, <1>6, <1>9 DEF at
  <2>4. IsChunk(chunk') /\ Tiled(chunk')
    BY <1>6
  <2>5. QED
    BY <1>7, <1>8, <1>11, <1>12, <2>1, <2>2, <2>3, <2>4, CodeKeeps
<1>14. OnlyHolesChange
  <2>1. ASSUME NEW p \in 1 .. Len(chunk.code), chunk'.code[p] # chunk.code[p]
        PROVE  Patches(Head(work)) /\ p \in {Head(work).at + 2, Head(work).at + 3}
    <3>1. p \in 1 .. size /\ k.code[p] = chunk.code[p]
      BY <1>2 DEF size
    <3>2. p \in {at + 2, at + 3}
      BY <1>6, <2>1, <3>1
    <3>3. QED
      BY <3>2 DEF at
  <2>2. Len(chunk.code) <= Len(chunk'.code)
    BY <1>6 DEF size
  <2>3. QED
    BY <2>1, <2>2, OnlyItsHoleChanges DEF Replaces
<1>15. QED
  BY <1>13, <1>14

(* A step that patches the jump its head remembers and emits nothing. *)
LEMMA PatchOnlyKeeps ==
    ASSUME CompilerInvariant, NEW items, Replaces(items), nodes' = nodes,
           Patches(Head(work)), chunk' = C!PatchToHere(chunk, Head(work).at),
           \A i \in 1 .. Len(items) : ~Loops(items[i]) /\ ~Patches(items[i])
    PROVE  CompilerInvariant' /\ OnlyHolesChange
<1>1. IsChunk(chunk) /\ Tiled(chunk) /\ ReadsInOrder(chunk)
  BY DEF CompilerInvariant, CodeIsSound
<1>2. Len(chunk.code) \in Nat /\ Len(chunk.spans) \in Nat
  BY <1>1, ChunkFields
<1>3. \A s \in 1 .. Len(chunk.spans) :
          SameInstruction(chunk, chunk, s) /\ SameOperand(chunk, chunk, s)
  BY DEF SameInstruction, SameOperand
<1>4. \A s \in Len(chunk.spans) + 1 .. Len(chunk.spans) : FALSE
  BY <1>2
<1>5. Len(chunk.code) <= Len(chunk.code) /\ Len(chunk.spans) <= Len(chunk.spans)
  BY <1>2
<1>6. QED
  BY <1>1, <1>3, <1>4, <1>5, PatchKeeps

(* A step that emits a JUMP and then patches the jump its head remembers. *)
LEMMA EmitPatchKeeps ==
    ASSUME CompilerInvariant, NEW items, Replaces(items), nodes' = nodes,
           Patches(Head(work)), NEW op, op = 13, NEW operand, NEW span, NEW text,
           C!HasRoom(chunk, op),
           chunk' = C!PatchToHere(C!Emit(chunk, op, operand, span, text), Head(work).at),
           \/ operand = MaxOperand /\ \E i \in 1 .. Len(items) : Patches(items[i])
           \/ operand \in Nat /\ operand <= Len(chunk.code),
           \A i \in 1 .. Len(items) :
               ~Loops(items[i]) /\ (Patches(items[i]) => operand = MaxOperand)
    PROVE  CompilerInvariant' /\ OnlyHolesChange
<1> DEFINE m == C!Emit(chunk, op, operand, span, text)
           last == Len(chunk.spans) + 1
           o == Len(chunk.code)
<1>1. IsChunk(chunk) /\ Tiled(chunk) /\ ReadsInOrder(chunk)
  BY DEF CompilerInvariant, CodeIsSound
<1>2. o \in Nat /\ Len(chunk.spans) \in Nat /\ Len(chunk.constants) \in Nat
  BY <1>1, ChunkFields
<1>3. HasEmitted(chunk, m, op, operand, span, text)
  BY <1>1, EmitFacts
<1>4. chunk' = C!PatchToHere(m, Head(work).at)
  OBVIOUS
<1> HIDE DEF m
<1>5. op \in JumpOps /\ op \in WithOperand /\ op # 0 /\ 0 \in WithOperand /\ JumpOps \subseteq WithOperand
  BY DEF JumpOps, WithOperand
<1>6. /\ IsChunk(m) /\ Tiled(m)
      /\ Len(m.code) = o + 3
      /\ \A p \in 1 .. o : m.code[p] = chunk.code[p]
      /\ m.constants = chunk.constants
      /\ m.spans = Append(chunk.spans, C!SpanEntry(o, span, text))
      /\ Len(m.spans) = last
      /\ OffsetOf(m, last) = o /\ OpOf(m, last) = op
      /\ m.code[o + 2] = Low(operand) /\ m.code[o + 3] = High(operand)
      /\ \A i \in 1 .. Len(chunk.spans) :
             /\ SameInstruction(chunk, m, i)
             /\ OpOf(chunk, i) \in WithOperand => SameOperand(chunk, m, i)
  <2>1. Length(op) = 3
    BY <1>5, LengthsAre
  <2> HIDE DEF o, last
  <2>2. QED
    BY <1>3, <1>5, <2>1 DEF HasEmitted, o, last
<1>7. ReadsInOrder(m)
  <2> DEFINE entry == C!SpanEntry(o, span, text)
  <2>1. m.spans = Append(chunk.spans, entry)
    BY <1>6
  <2>2. \A i \in 1 .. Len(chunk.spans) :
            SameInstruction(chunk, m, i) /\ (OpOf(chunk, i) = 0 => SameOperand(chunk, m, i))
    BY <1>5, <1>6
  <2>3. OpOf(m, Len(chunk.spans) + 1) = op /\ OffsetOf(m, Len(chunk.spans) + 1) = Len(chunk.code)
    BY <1>6
  <2> HIDE DEF entry
  <2>4. QED
    BY <1>1, <1>5, <1>6, <2>1, <2>2, <2>3, ReadsGrow
<1>8. ASSUME NEW s \in Len(chunk.spans) + 1 .. Len(m.spans)
      PROVE  s = last /\ OffsetOf(m, s) = o
  BY <1>2, <1>6
<1>9. ASSUME operand \in Nat, operand <= Len(chunk.code)
      PROVE  OperandAt(m, o) \in Nat /\ OperandAt(m, o) < Len(m.code)
  <2>1. operand \in 0 .. MaxOperand
    BY <1>1, <1>2, <1>9, PipelineAssumption DEF Tiled
  <2>2. Low(operand) + High(operand) * ByteBase = operand
    BY <2>1, OperandFitsTwoBytes
  <2>3. OperandAt(m, o) = operand
    BY <1>6, <2>2 DEF OperandAt
  <2>4. QED
    BY <1>2, <1>6, <1>9, <2>3
<1>10. ASSUME NEW i \in 1 .. Len(items), Patches(items[i])
       PROVE  items[i].at = o /\ operand = MaxOperand /\ IsHole(m, last)
  <2>1. items[i].at = o /\ operand = MaxOperand
    BY <1>10 DEF Replaces
  <2>2. QED
    BY <1>5, <1>6, <2>1 DEF IsHole
<1>11. last \in Len(chunk.spans) + 1 .. Len(m.spans)
  BY <1>2, <1>6
<1>12. \A s \in Len(chunk.spans) + 1 .. Len(m.spans) :
           OpOf(m, s) \in JumpOps =>
               \/ \E i \in 1 .. Len(items) : Patches(items[i]) /\ items[i].at = OffsetOf(m, s)
               \/ /\ OperandAt(m, OffsetOf(m, s)) \in Nat
                  /\ OperandAt(m, OffsetOf(m, s)) < Len(m.code)
  <2> HIDE DEF o, last
  <2>1. QED
    BY <1>8, <1>9, <1>10
<1>13. \A i \in 1 .. Len(items) :
           /\ ~Loops(items[i])
           /\ Patches(items[i]) =>
                  \E s \in Len(chunk.spans) + 1 .. Len(m.spans) :
                      OffsetOf(m, s) = items[i].at /\ IsHole(m, s)
  <2> HIDE DEF o, last
  <2>1. QED
    BY <1>6, <1>10, <1>11
<1>14. Len(chunk.code) <= Len(m.code) /\ Len(chunk.spans) <= Len(m.spans)
  BY <1>2, <1>6
<1>15. QED
  BY <1>4, <1>6, <1>7, <1>12, <1>13, <1>14, PatchKeeps

-----------------------------------------------------------------------------

(* The instructions nothing falls out of, and what an instruction takes off the
   stack and leaves on it. *)
EndOps == {13, 16, 18}
BinaryOps == {4, 5, 6, 7, 9, 10, 11}
TakesOne == {2, 3, 8, 12, 14, 16, 17}
PutsOne == {0, 1, 8, 12, 15} \cup BinaryOps

TakenBy(k, op, operand) ==
    IF op \in BinaryOps THEN 2
    ELSE IF op \in TakesOne THEN 1
    ELSE IF op = 15 THEN k.functions[operand + 1].arity ELSE 0

Left(k, op, operand, u) ==
    IF op \in EndOps THEN 0
    ELSE u - TakenBy(k, op, operand) + (IF op \in PutsOne THEN 1 ELSE 0)

(* An instruction of `owner` that runs with u temporaries on the stack. *)
OpFits(k, op, operand, u, owner) ==
    /\ op \in 0 .. 18
    /\ op \in WithOperand => operand \in Nat
    /\ TakenBy(k, op, operand) \in Nat /\ TakenBy(k, op, operand) <= u
    /\ op \in JumpOps => u = TakenBy(k, op, operand)
    /\ op = 0 => operand < Len(k.constants)
    /\ op \in {1, 2} => operand < T!Width(k, owner)
    /\ op = 15 => operand < Len(k.functions)
    /\ op = 16 => owner # 0

(* The place after the last instruction counts as one too. *)
At(k, i) == IF i \in 1 .. Len(k.spans) THEN OffsetOf(k, i) ELSE Len(k.code)

(* Code of f that a jump may go to, among the first `last` places. *)
Target(k, h, own, last, t, f) ==
    \E i \in 1 .. last : At(k, i) = t /\ h[i] = 0 /\ own[i] = f

(* h gives each place its number of temporaries, own the function it is in: b is
   the one in the making. *)
Labels(k, h, own, b) ==
    LET n == Len(k.spans)
    IN  /\ n \in Nat /\ b \in Nat
        /\ h \in [1 .. n + 1 -> Nat] /\ own \in [1 .. n + 1 -> 0 .. b]
        /\ h[1] = 0 /\ own[1] = 0 /\ own[n + 1] = b

InstructionFits(k, h, own, s) ==
    /\ At(k, s) + Length(OpOf(k, s)) = At(k, s + 1)
    /\ OpFits(k, OpOf(k, s), OperandOf(k, s), h[s], own[s])
    /\ h[s + 1] = Left(k, OpOf(k, s), OperandOf(k, s), h[s])
    /\ OpOf(k, s) \notin EndOps => own[s + 1] = own[s]

Lands(k, A, h, own, b, last, s) ==
    OpOf(k, s) \in JumpOps =>
        \/ OffsetOf(k, s) \in A /\ own[s] = b
        \/ Target(k, h, own, last, OperandOf(k, s), own[s])

Enters(k, h, own, last, f) ==
    /\ Target(k, h, own, last, k.functions[f].entry, f)
    /\ \A s \in 1 .. Len(k.spans) : k.functions[f].entry <= OffsetOf(k, s) <=> f <= own[s]

Awaits(k, own, b, a) ==
    \E s \in 1 .. Len(k.spans) : OffsetOf(k, s) = a /\ own[s] = b /\ OpOf(k, s) \in JumpOps

(* A are the jumps that wait for their targets, L the heads of the open loops;
   only what is sure to be emitted may be jumped to. *)
CodeTyped(k, A, L, h, own, b, last) ==
    /\ IsChunk(k) /\ Tiled(k) /\ At(k, 1) = 0
    /\ Labels(k, h, own, b)
    /\ \A s \in 1 .. Len(k.spans) : InstructionFits(k, h, own, s)
    /\ \A s \in 1 .. Len(k.spans) : Lands(k, A, h, own, b, last, s)
    /\ last \in {Len(k.spans), Len(k.spans) + 1}
    /\ last = Len(k.spans) => last # 0 /\ OpOf(k, last) \in EndOps
    /\ \A f \in 1 .. b : Enters(k, h, own, last, f)
    /\ \A a \in A : Awaits(k, own, b, a)
    /\ \A t \in L : Target(k, h, own, last, t, b)

(* Code that another instruction is sure to follow, and the temporaries it leaves. *)
Growing(k, A, L, h, own, b) == CodeTyped(k, A, L, h, own, b, Len(k.spans) + 1)
Top(k, h) == h[Len(k.spans) + 1]

SameTables(k, m) == m.functions = k.functions /\ m.programFrameSize = k.programFrameSize

LEMMA FitsAlike ==
    ASSUME NEW k, NEW m, SameTables(k, m), Len(k.constants) \in Nat, Len(m.constants) \in Nat,
           Len(k.constants) <= Len(m.constants),
           NEW op, NEW x, NEW y, op \in WithOperand => x = y, NEW u, NEW owner
    PROVE  /\ OpFits(k, op, x, u, owner) => OpFits(m, op, y, u, owner)
           /\ Left(k, op, x, u) = Left(m, op, y, u)
<1>1. TakenBy(k, op, x) = TakenBy(m, op, y)
  BY DEF TakenBy, SameTables, WithOperand
<1>2. T!Width(k, owner) = T!Width(m, owner)
  BY DEF T!Width, SameTables
<1>3. Left(k, op, x, u) = Left(m, op, y, u)
  BY <1>1 DEF Left
<1>4. ASSUME OpFits(k, op, x, u, owner)
      PROVE  OpFits(m, op, y, u, owner)
  <2>1. op \in {0, 1, 2, 15} => op \in WithOperand
    BY DEF WithOperand
  <2>2. op = 0 => y < Len(m.constants)
    BY <1>4, <2>1 DEF OpFits
  <2>3. m.functions = k.functions
    BY DEF SameTables
  <2>4. QED
    BY <1>1, <1>2, <1>4, <2>1, <2>2, <2>3 DEF OpFits
<1>5. QED
  BY <1>3, <1>4

LEMMA PlacesAre ==
    ASSUME NEW k, NEW A, NEW L, NEW h, NEW own, NEW b, NEW last,
           CodeTyped(k, A, L, h, own, b, last)
    PROVE  /\ Len(k.spans) \in Nat /\ Len(k.code) \in Nat /\ Len(k.constants) \in Nat
           /\ last \in Nat /\ b \in Nat
           /\ \A i \in 1 .. Len(k.spans) + 1 :
                  /\ At(k, i) \in 0 .. Len(k.code)
                  /\ h[i] \in Nat /\ own[i] \in 0 .. b
           /\ \A i \in 1 .. Len(k.spans) :
                  At(k, i) = OffsetOf(k, i) /\ At(k, i) < Len(k.code)
           /\ At(k, Len(k.spans) + 1) = Len(k.code)
           /\ \A t, f : Target(k, h, own, last, t, f) => t \in 0 .. Len(k.code) /\ f \in 0 .. b
<1>1. Len(k.spans) \in Nat /\ Len(k.code) \in Nat /\ Len(k.constants) \in Nat
  BY ChunkFields DEF CodeTyped
<1>2. \A i \in 1 .. Len(k.spans) : OffsetOf(k, i) \in Nat /\ OffsetOf(k, i) < Len(k.code)
  BY BytesOf DEF CodeTyped
<1>3. \A i \in 1 .. Len(k.spans) : At(k, i) = OffsetOf(k, i)
  BY DEF At
<1>4. At(k, Len(k.spans) + 1) = Len(k.code)
  BY <1>1 DEF At
<1>5. \A i \in 1 .. Len(k.spans) + 1 : At(k, i) \in 0 .. Len(k.code)
  BY <1>1, <1>2, <1>3, <1>4
<1>6. b \in Nat /\ \A i \in 1 .. Len(k.spans) + 1 : h[i] \in Nat /\ own[i] \in 0 .. b
  BY DEF CodeTyped, Labels
<1>7. last \in Nat /\ last <= Len(k.spans) + 1
  BY <1>1 DEF CodeTyped
<1>8. ASSUME NEW t, NEW f, Target(k, h, own, last, t, f)
      PROVE  t \in 0 .. Len(k.code) /\ f \in 0 .. b
  BY <1>1, <1>5, <1>6, <1>7, <1>8 DEF Target
<1>9. QED
  BY <1>1, <1>2, <1>3, <1>4, <1>5, <1>6, <1>7, <1>8

(* An instruction that fits where it is emitted.  B are the jumps that wait then:
   the one emitted is among them, or it has its target. *)
MayEmit(k, A, B, h, own, b, op, operand) ==
    /\ op \in WithOperand => operand \in 0 .. MaxOperand
    /\ OpFits(k, op, operand, Top(k, h), b)
    /\ A \subseteq B
    /\ \A a \in B : a \in A \/ (a = Len(k.code) /\ op \in JumpOps)
    /\ op \in JumpOps =>
           Len(k.code) \in B \/ Target(k, h, own, Len(k.spans) + 1, operand, b)

MayEnd(m, op, last) ==
    /\ last \in {Len(m.spans), Len(m.spans) + 1}
    /\ last = Len(m.spans) => op \in EndOps

(* One instruction more. *)
LEMMA TypedEmit ==
    ASSUME NEW k, NEW A, NEW L, NEW h, NEW own, NEW b,
           Growing(k, A, L, h, own, b),
           NEW m, NEW op, NEW operand, NEW span, NEW text,
           HasEmitted(k, m, op, operand, span, text), SameTables(k, m),
           NEW B, MayEmit(k, A, B, h, own, b, op, operand), NEW last, MayEnd(m, op, last)
    PROVE  \E g, owner :
               /\ CodeTyped(m, B, L, g, owner, b, last)
               /\ Top(m, g) = Left(k, op, operand, Top(k, h))
<1> USE DEF Growing, Top
<1> DEFINE n == Len(k.spans)
           u == h[n + 1]
           v == Left(k, op, operand, u)
           g == [i \in 1 .. n + 2 |-> IF i = n + 2 THEN v ELSE h[i]]
           owner == [i \in 1 .. n + 2 |-> IF i = n + 2 THEN b ELSE own[i]]
<1>0. /\ op \in WithOperand => operand \in 0 .. MaxOperand
      /\ OpFits(k, op, operand, h[n + 1], b)
      /\ A \subseteq B
      /\ \A a \in B : a \in A \/ (a = Len(k.code) /\ op \in JumpOps)
      /\ op \in JumpOps => Len(k.code) \in B \/ Target(k, h, own, n + 1, operand, b)
      /\ last \in {Len(m.spans), Len(m.spans) + 1}
      /\ last = Len(m.spans) => op \in EndOps
  BY DEF MayEmit, MayEnd
<1> USE <1>0
<1>1. /\ n \in Nat /\ Len(k.code) \in Nat /\ b \in Nat
      /\ Len(m.spans) = n + 1 /\ Len(m.code) = Len(k.code) + Length(op)
      /\ Length(op) \in {1, 3}
  BY PlacesAre, LengthsAre DEF HasEmitted
<1>2. u \in Nat /\ v \in Nat
  <2>1. u \in Nat
    BY <1>1, PlacesAre
  <2>2. QED
    BY <2>1 DEF Left, OpFits
<1>3. Labels(m, g, owner, b)
  <2>1. \A i \in 1 .. n + 1 : h[i] \in Nat /\ own[i] \in 0 .. b
    BY PlacesAre
  <2>2. h[1] = 0 /\ own[1] = 0
    BY DEF CodeTyped, Labels
  <2> HIDE DEF n, u, v
  <2>3. g \in [1 .. n + 2 -> Nat]
    BY <1>1, <1>2, <2>1
  <2>4. owner \in [1 .. n + 2 -> 0 .. b]
    BY <1>1, <2>1
  <2>5. g[1] = 0 /\ owner[1] = 0 /\ owner[n + 2] = b
    BY <1>1, <2>2
  <2>6. QED
    BY <1>1, <2>3, <2>4, <2>5 DEF Labels
<1>4. /\ \A i \in 1 .. n + 1 : g[i] = h[i] /\ owner[i] = own[i]
      /\ g[n + 2] = v /\ owner[n + 2] = b /\ h[n + 1] = u /\ own[n + 1] = b
  <2>1. own[n + 1] = b
    BY DEF CodeTyped, Labels
  <2> HIDE DEF n, v
  <2>2. QED
    BY <1>1, <2>1
<1> HIDE DEF g, owner, v, u
<1>5. \A i \in 1 .. n : SameInstruction(k, m, i) /\ (OpOf(k, i) \in WithOperand => SameOperand(k, m, i))
  BY DEF HasEmitted
<1>6. /\ OffsetOf(m, n + 1) = Len(k.code) /\ OpOf(m, n + 1) = op
      /\ op \in WithOperand => OperandOf(m, n + 1) = operand
  <2>1. OffsetOf(m, n + 1) = Len(k.code) /\ OpOf(m, n + 1) = op
    BY DEF HasEmitted
  <2>2. op \in WithOperand => OperandOf(m, n + 1) = operand
    <3>1. HAVE op \in WithOperand
    <3>2. m.code[Len(k.code) + 2] = Low(operand) /\ m.code[Len(k.code) + 3] = High(operand)
      BY <3>1 DEF HasEmitted
    <3>3. Low(operand) + High(operand) * ByteBase = operand
      BY <3>1, OperandFitsTwoBytes
    <3>4. QED
      BY <2>1, <3>2, <3>3 DEF OperandOf, OffsetOf
  <2>3. QED
    BY <2>1, <2>2
<1>7. \A i \in 1 .. n : OpOf(m, i) = OpOf(k, i) /\ OffsetOf(m, i) = OffsetOf(k, i)
                        /\ (OpOf(k, i) \in WithOperand => OperandOf(m, i) = OperandOf(k, i))
  BY <1>5 DEF SameInstruction, SameOperand, OperandOf, OffsetOf
<1>8. /\ \A i \in 1 .. n + 1 : At(m, i) = At(k, i)
      /\ At(m, n + 1) = Len(k.code) /\ At(m, n + 2) = Len(m.code)
  BY <1>1, <1>6, <1>7 DEF At
<1>9. ASSUME NEW t, NEW f, Target(k, h, own, n + 1, t, f)
      PROVE  Target(m, g, owner, last, t, f)
  <2>1. PICK i \in 1 .. n + 1 : At(k, i) = t /\ h[i] = 0 /\ own[i] = f
    BY <1>9 DEF Target
  <2>2. i \in 1 .. last
    BY <1>1
  <2>3. QED
    BY <1>4, <1>8, <2>1, <2>2 DEF Target
<1> HIDE DEF n
<1>10. /\ m.constants = k.constants /\ Len(k.constants) \in Nat
       /\ \A f, x, y, w, o : (f \in WithOperand => x = y) =>
              /\ OpFits(k, f, x, w, o) => OpFits(m, f, y, w, o)
              /\ Left(k, f, x, w) = Left(m, f, y, w)
  <2>1. m.constants = k.constants /\ Len(k.constants) \in Nat
    BY PlacesAre DEF HasEmitted
  <2>2. Len(k.constants) <= Len(m.constants) /\ Len(m.constants) \in Nat
    BY <2>1
  <2>3. ASSUME NEW f, NEW x, NEW y, NEW w, NEW o, f \in WithOperand => x = y
        PROVE  /\ OpFits(k, f, x, w, o) => OpFits(m, f, y, w, o)
               /\ Left(k, f, x, w) = Left(m, f, y, w)
    BY ONLY <2>1, <2>2, <2>3, SameTables(k, m), FitsAlike
  <2>4. QED
    BY <2>1, <2>3
<1>11. ASSUME NEW s \in 1 .. n
       PROVE  InstructionFits(m, g, owner, s) /\ Lands(m, B, g, owner, b, last, s)
  <2>1. InstructionFits(k, h, own, s) /\ Lands(k, A, h, own, b, n + 1, s)
    BY DEF CodeTyped, n
  <2>2. s \in 1 .. n + 1 /\ s + 1 \in 1 .. n + 1
    BY <1>1
  <2>3. /\ g[s] = h[s] /\ g[s + 1] = h[s + 1] /\ owner[s] = own[s] /\ owner[s + 1] = own[s + 1]
        /\ At(m, s) = At(k, s) /\ At(m, s + 1) = At(k, s + 1)
    BY <1>4, <1>8, <2>2
  <2>4. /\ OpFits(m, OpOf(m, s), OperandOf(m, s), h[s], own[s])
        /\ Left(k, OpOf(k, s), OperandOf(k, s), h[s]) = Left(m, OpOf(m, s), OperandOf(m, s), h[s])
    BY <1>7, <1>10, <2>1 DEF InstructionFits
  <2>5. InstructionFits(m, g, owner, s)
    BY <1>7, <2>1, <2>3, <2>4 DEF InstructionFits
  <2>6. Lands(m, B, g, owner, b, last, s)
    <3>1. JumpOps \subseteq WithOperand
      BY DEF JumpOps, WithOperand
    <3>2. QED
      BY <1>7, <1>9, <2>1, <2>3, <3>1 DEF Lands
  <2>7. QED
    BY <2>5, <2>6
<1>12. InstructionFits(m, g, owner, n + 1)
  <2>1. At(m, n + 1) + Length(op) = At(m, n + 1 + 1) /\ n + 1 + 1 = n + 2
    BY <1>1, <1>8
  <2>2. /\ OpFits(m, op, OperandOf(m, n + 1), u, b)
        /\ v = Left(m, op, OperandOf(m, n + 1), u)
    BY <1>6, <1>10 DEF n, u, v
  <2>3. n + 1 \in 1 .. n + 1
    BY <1>1
  <2>4. QED
    BY <1>4, <1>6, <2>1, <2>2, <2>3 DEF InstructionFits
<1>13. Lands(m, B, g, owner, b, last, n + 1)
  <2>1. n + 1 \in 1 .. n + 1 /\ owner[n + 1] = b
    BY <1>1, <1>4
  <2>2. ASSUME op \in JumpOps
        PROVE  Len(k.code) \in B \/ Target(m, g, owner, last, operand, b)
    BY <1>9, <2>2 DEF n
  <2>3. op \in JumpOps => OperandOf(m, n + 1) = operand
    BY <1>6 DEF JumpOps, WithOperand
  <2>4. QED
    BY <1>6, <2>1, <2>2, <2>3 DEF Lands
<1>14. ASSUME NEW f \in 1 .. b
       PROVE  Enters(m, g, owner, last, f)
  <2>1. Enters(k, h, own, n + 1, f)
    BY DEF CodeTyped, n
  <2>2. m.functions[f].entry = k.functions[f].entry
    BY DEF SameTables
  <2> DEFINE e == k.functions[f].entry
  <2>3. Target(k, h, own, n + 1, e, f)
    BY <2>1 DEF Enters
  <2>4. e \in 0 .. Len(k.code)
    <3>1. CodeTyped(k, A, L, h, own, b, n + 1)
      BY DEF n
    <3>2. QED
      BY <2>3, <3>1, PlacesAre
  <2>5. ASSUME NEW s \in 1 .. n
        PROVE  e <= OffsetOf(m, s) <=> f <= owner[s]
    <3>1. s \in 1 .. n + 1
      BY <1>1
    <3>2. e <= OffsetOf(k, s) <=> f <= own[s]
      BY <2>1 DEF Enters, n
    <3>3. QED
      BY <1>4, <1>7, <3>1, <3>2
  <2>6. e <= OffsetOf(m, n + 1) /\ f <= owner[n + 1]
    <3>1. n + 1 \in 1 .. n + 1
      BY <1>1
    <3>2. QED
      BY <1>1, <1>4, <1>6, <2>4, <3>1
  <2>7. Target(m, g, owner, last, e, f)
    BY <1>9, <2>3
  <2> HIDE DEF e
  <2>8. \A s \in 1 .. n + 1 : e <= OffsetOf(m, s) <=> f <= owner[s]
    <3>1. \A s \in 1 .. n + 1 : s \in 1 .. n \/ s = n + 1
      BY <1>1
    <3>2. QED
      BY <2>5, <2>6, <3>1
  <2>9. m.functions[f].entry = e
    BY <2>2 DEF e
  <2>10. QED
    BY <1>1, <2>7, <2>8, <2>9 DEF Enters
<1>15. ASSUME NEW a \in B
       PROVE  Awaits(m, owner, b, a)
  <2>1. CASE a \in A
    <3>1. PICK s \in 1 .. n : OffsetOf(k, s) = a /\ own[s] = b /\ OpOf(k, s) \in JumpOps
      BY <2>1 DEF CodeTyped, Awaits, n
    <3>2. s \in 1 .. n + 1
      BY <1>1
    <3>3. OffsetOf(m, s) = a /\ owner[s] = b /\ OpOf(m, s) \in JumpOps
      BY <1>4, <1>7, <3>1, <3>2
    <3>4. QED
      BY <1>1, <3>2, <3>3 DEF Awaits
  <2>2. CASE a = Len(k.code) /\ op \in JumpOps
    <3>1. n + 1 \in 1 .. n + 1
      BY <1>1
    <3>2. QED
      BY <1>1, <1>4, <1>6, <2>2, <3>1 DEF Awaits
  <2>3. QED
    BY <2>1, <2>2
<1>16. \A t \in L : Target(m, g, owner, last, t, b)
  BY <1>9 DEF CodeTyped, n
<1>17. IsChunk(m) /\ Tiled(m) /\ At(m, 1) = 0
  <2>1. At(k, 1) = 0 /\ 1 \in 1 .. n + 1
    BY <1>1 DEF CodeTyped
  <2>2. QED
    BY <1>8, <2>1 DEF HasEmitted
<1>18. \A s \in 1 .. n + 1 : s \in 1 .. n \/ s = n + 1
  BY <1>1
<1>19. CodeTyped(m, B, L, g, owner, b, last)
  <2>1. /\ \A s \in 1 .. n + 1 : InstructionFits(m, g, owner, s)
        /\ \A s \in 1 .. n + 1 : Lands(m, B, g, owner, b, last, s)
    BY <1>11, <1>12, <1>13, <1>18
  <2>2. last \in {n + 1, n + 2} /\ (last = n + 1 => last # 0 /\ OpOf(m, last) \in EndOps)
    BY <1>1, <1>6
  <2>3. Len(m.spans) = n + 1 /\ n + 1 + 1 = n + 2
    BY <1>1
  <2>4. QED
    BY <1>3, <1>14, <1>15, <1>16, <1>17, <2>1, <2>2, <2>3 DEF CodeTyped
<1>20. g[Len(m.spans) + 1] = Left(k, op, operand, h[Len(k.spans) + 1])
  <2>1. Len(m.spans) + 1 = n + 2
    BY <1>1
  <2>2. QED
    BY <1>4, <2>1 DEF v, u, n
<1>21. QED
  BY <1>19, <1>20

(* Another target for a jump that waits for it: what is emitted next. *)
LEMMA TypedPatch ==
    ASSUME NEW k, NEW A, NEW L, NEW h, NEW own, NEW b,
           Growing(k, A, L, h, own, b), Top(k, h) = 0,
           NEW i \in 1 .. Len(k.spans), OffsetOf(k, i) \in A,
           NEW m, HasPatched(k, m, i, Len(k.code)), SameTables(k, m)
    PROVE  Growing(m, A \ {OffsetOf(k, i)}, L, h, own, b) /\ Top(m, h) = 0
<1> USE DEF Growing, Top
<1> DEFINE n == Len(k.spans)
           B == A \ {OffsetOf(k, i)}
<1>1. /\ n \in Nat /\ Len(k.code) \in Nat /\ b \in Nat
      /\ Len(m.spans) = n /\ Len(m.code) = Len(k.code)
  BY PlacesAre DEF HasPatched
<1>2. \A s \in 1 .. n : OpOf(m, s) = OpOf(k, s) /\ OffsetOf(m, s) = OffsetOf(k, s)
  BY DEF HasPatched, SameInstruction
<1>3. \A s \in 1 .. n : s # i /\ OpOf(k, s) \in WithOperand => OperandOf(m, s) = OperandOf(k, s)
  BY DEF HasPatched, SameInstruction, SameOperand, OperandOf, OffsetOf
<1>4. PICK r \in 1 .. n :
          OffsetOf(k, r) = OffsetOf(k, i) /\ own[r] = b /\ OpOf(k, r) \in JumpOps
  BY DEF CodeTyped, Awaits
<1>5. \A s \in 1 .. n : OffsetOf(k, s) = OffsetOf(k, i) => s = i
  <2>1. ASSUME NEW s \in 1 .. n, NEW t \in 1 .. n, s < t
        PROVE  OffsetOf(k, s) # OffsetOf(k, t)
    <3>1. OffsetOf(k, s) + Length(OpOf(k, s)) <= OffsetOf(k, t) /\ OffsetOf(k, s) \in Nat
      BY <2>1 DEF CodeTyped, Tiled
    <3>2. Length(OpOf(k, s)) \in {1, 3}
      BY LengthsAre
    <3>3. QED
      BY <3>1, <3>2
  <2>2. \A s \in 1 .. n : s < i \/ i < s \/ s = i
    BY <1>1
  <2>3. QED
    BY <2>1, <2>2
<1>6. own[i] = b /\ OpOf(k, i) \in JumpOps
  BY <1>4, <1>5
<1>7. /\ OperandOf(m, i) = Len(k.code)
      /\ OpOf(k, i) \in WithOperand /\ OpOf(k, i) # 15
  <2>1. m.code[OffsetOf(k, i) + 2] = Low(Len(k.code))
        /\ m.code[OffsetOf(k, i) + 3] = High(Len(k.code))
    BY DEF HasPatched
  <2>2. Low(Len(k.code)) + High(Len(k.code)) * ByteBase = Len(k.code)
    <3>1. Len(k.code) <= MaxOperand /\ MaxOperand \in Nat
      BY PipelineAssumption, C!ChunkAssumption DEF CodeTyped, Tiled
    <3>2. Len(k.code) \in 0 .. MaxOperand
      BY <1>1, <3>1
    <3>3. QED
      BY <3>2, OperandFitsTwoBytes
  <2>3. m.spans = k.spans
    BY DEF HasPatched
  <2>4. QED
    BY <1>6, <2>1, <2>2, <2>3 DEF OperandOf, OffsetOf, JumpOps, WithOperand
<1>8. \A s \in 1 .. n + 1 : At(m, s) = At(k, s)
  BY <1>1, <1>2 DEF At
<1>9. \A t, f : Target(k, h, own, n + 1, t, f) => Target(m, h, own, n + 1, t, f)
  BY <1>8 DEF Target
<1>10. Target(m, h, own, n + 1, Len(k.code), b)
  <2>1. own[n + 1] = b /\ h[n + 1] = 0
    BY DEF CodeTyped, Labels
  <2>2. n + 1 \in 1 .. n + 1 /\ At(m, n + 1) = Len(k.code)
    BY <1>1 DEF At
  <2>3. QED
    BY <2>1, <2>2 DEF Target
<1> HIDE DEF n, B
<1>11. /\ m.constants = k.constants /\ Len(k.constants) \in Nat
       /\ Len(k.constants) <= Len(m.constants) /\ Len(m.constants) \in Nat
  <2>1. m.constants = k.constants /\ Len(k.constants) \in Nat
    BY PlacesAre DEF HasPatched
  <2>2. QED
    BY <2>1
<1>12. ASSUME NEW s \in 1 .. n
       PROVE  InstructionFits(m, h, own, s) /\ Lands(m, B, h, own, b, n + 1, s)
  <2>1. InstructionFits(k, h, own, s) /\ Lands(k, A, h, own, b, n + 1, s)
    BY DEF CodeTyped, n
  <2>2. s \in 1 .. n + 1 /\ s + 1 \in 1 .. n + 1
    BY <1>1
  <2>3. At(m, s) = At(k, s) /\ At(m, s + 1) = At(k, s + 1)
    BY <1>8, <2>2
  <2> DEFINE op == OpOf(k, s)
             x == OperandOf(k, s)
             y == OperandOf(m, s)
  <2>4. op \notin JumpOps /\ op \in WithOperand => x = y
    BY <1>3, <1>6
  <2>5. OpFits(m, op, y, h[s], own[s]) /\ Left(k, op, x, h[s]) = Left(m, op, y, h[s])
    <3>1. CASE s # i
      <4>1. op \in WithOperand => x = y
        BY <1>3, <3>1
      <4>2. OpFits(k, op, x, h[s], own[s])
        BY <2>1 DEF InstructionFits
      <4> HIDE DEF op, x, y
      <4>3. QED
        BY <1>11, <4>1, <4>2, FitsAlike
    <3>2. CASE s = i
      <4>1. op \in JumpOps
        BY <1>6, <3>2
      <4>2. OpFits(k, op, x, h[s], own[s])
        BY <2>1 DEF InstructionFits
      <4>3. y \in Nat
        BY <1>1, <1>7, <3>2
      <4> HIDE DEF op, x, y
      <4>4. TakenBy(m, op, y) = TakenBy(k, op, x)
        BY <4>1 DEF TakenBy, JumpOps
      <4>5. QED
        BY <4>1, <4>2, <4>3, <4>4 DEF OpFits, Left, JumpOps
    <3>3. QED
      BY <3>1, <3>2
  <2>6. OpOf(m, s) = op
    BY <1>2
  <2>7. InstructionFits(m, h, own, s)
    BY <2>1, <2>3, <2>5, <2>6 DEF InstructionFits
  <2>8. Lands(m, B, h, own, b, n + 1, s)
    <3>1. CASE s # i
      <4>1. OffsetOf(k, s) \in A => OffsetOf(k, s) \in B
        BY <1>5, <3>1 DEF B
      <4>2. OffsetOf(m, s) = OffsetOf(k, s)
        BY <1>2
      <4>3. op \in JumpOps => x = y
        BY <1>3, <3>1 DEF JumpOps, WithOperand
      <4> HIDE DEF x, y, op
      <4>4. Target(k, h, own, n + 1, x, own[s]) => Target(m, h, own, n + 1, x, own[s])
        BY <1>9
      <4>5. QED
        BY <2>1, <2>6, <4>1, <4>2, <4>3, <4>4 DEF Lands, x, y, op
    <3>2. CASE s = i
      BY <1>6, <1>7, <1>10, <3>2 DEF Lands
    <3>3. QED
      BY <3>1, <3>2
  <2>9. QED
    BY <2>7, <2>8
<1>13. ASSUME NEW f \in 1 .. b
       PROVE  Enters(m, h, own, n + 1, f)
  <2>1. Enters(k, h, own, n + 1, f)
    BY DEF CodeTyped, n
  <2>2. m.functions[f].entry = k.functions[f].entry
    BY DEF SameTables
  <2>3. Len(m.spans) = n /\ Len(k.spans) = n
    BY <1>1 DEF n
  <2>4. QED
    BY <1>2, <1>9, <2>1, <2>2, <2>3 DEF Enters
<1>14. ASSUME NEW a \in B
       PROVE  Awaits(m, own, b, a)
  <2>1. Awaits(k, own, b, a)
    BY DEF B, CodeTyped
  <2>2. Len(m.spans) = n /\ Len(k.spans) = n
    BY <1>1 DEF n
  <2>3. QED
    BY <1>2, <2>1, <2>2 DEF Awaits
<1>15. \A t \in L : Target(m, h, own, n + 1, t, b)
  BY <1>9 DEF CodeTyped, n
<1>16. IsChunk(m) /\ Tiled(m) /\ At(m, 1) = 0
  <2>1. At(k, 1) = 0 /\ 1 \in 1 .. n + 1
    BY <1>1 DEF CodeTyped
  <2>2. QED
    BY <1>8, <2>1 DEF HasPatched
<1>17. Labels(m, h, own, b) /\ Len(m.spans) = n /\ n + 1 # n
  BY <1>1 DEF Labels, CodeTyped, n
<1>18. CodeTyped(m, B, L, h, own, b, Len(m.spans) + 1)
  BY <1>12, <1>13, <1>14, <1>15, <1>16, <1>17 DEF CodeTyped
<1>19. QED
  BY <1>17, <1>18 DEF n, B

(* One constant more. *)
LEMMA TypedConstant ==
    ASSUME NEW k, NEW A, NEW L, NEW h, NEW own, NEW b, NEW last,
           CodeTyped(k, A, L, h, own, b, last),
           NEW m, IsChunk(m), Tiled(m), m.code = k.code, m.spans = k.spans, SameTables(k, m),
           Len(k.constants) <= Len(m.constants)
    PROVE  CodeTyped(m, A, L, h, own, b, last)
<1>1. Len(k.constants) \in Nat /\ Len(m.constants) \in Nat
  BY ChunkFields DEF CodeTyped
<1>2. \A i : /\ OpOf(m, i) = OpOf(k, i) /\ OffsetOf(m, i) = OffsetOf(k, i)
             /\ OperandOf(m, i) = OperandOf(k, i) /\ At(m, i) = At(k, i)
  BY DEF OpOf, OffsetOf, OperandOf, At
<1>3. \A t, f : Target(m, h, own, last, t, f) <=> Target(k, h, own, last, t, f)
  BY <1>2 DEF Target
<1>4. ASSUME NEW s \in 1 .. Len(k.spans)
      PROVE  InstructionFits(m, h, own, s) /\ Lands(m, A, h, own, b, last, s)
  <2>1. InstructionFits(k, h, own, s) /\ Lands(k, A, h, own, b, last, s)
    BY DEF CodeTyped
  <2>2. /\ OpFits(k, OpOf(k, s), OperandOf(k, s), h[s], own[s]) =>
               OpFits(m, OpOf(k, s), OperandOf(k, s), h[s], own[s])
        /\ Left(k, OpOf(k, s), OperandOf(k, s), h[s]) = Left(m, OpOf(k, s), OperandOf(k, s), h[s])
    BY <1>1, FitsAlike
  <2>3. InstructionFits(m, h, own, s)
    BY <1>2, <2>1, <2>2 DEF InstructionFits
  <2>4. Lands(m, A, h, own, b, last, s)
    BY <1>2, <1>3, <2>1 DEF Lands
  <2>5. QED
    BY <2>3, <2>4
<1>5. ASSUME NEW f \in 1 .. b
      PROVE  Enters(m, h, own, last, f)
  <2>1. Enters(k, h, own, last, f)
    BY DEF CodeTyped
  <2>2. QED
    BY <1>2, <1>3, <2>1 DEF Enters, SameTables
<1>6. \A a \in A : Awaits(m, own, b, a)
  BY <1>2 DEF CodeTyped, Awaits
<1>7. \A t \in L : Target(m, h, own, last, t, b)
  BY <1>3 DEF CodeTyped
<1>8. Labels(m, h, own, b) /\ At(m, 1) = 0
  BY <1>2 DEF CodeTyped, Labels
<1>9. \A s : OpOf(m, s) = OpOf(k, s)
  BY <1>2
<1>10. QED
  BY <1>4, <1>5, <1>6, <1>7, <1>8, <1>9 DEF CodeTyped

(* The next instruction is a target where nothing is on the stack. *)
LEMMA TargetHere ==
    ASSUME NEW k, NEW h, NEW own, NEW b, Labels(k, h, own, b), h[Len(k.spans) + 1] = 0
    PROVE  Target(k, h, own, Len(k.spans) + 1, Len(k.code), b)
<1>1. Len(k.spans) \in Nat /\ own[Len(k.spans) + 1] = b
  BY DEF Labels
<1>2. At(k, Len(k.spans) + 1) = Len(k.code) /\ Len(k.spans) + 1 \in 1 .. Len(k.spans) + 1
  BY <1>1 DEF At
<1>3. QED
  BY <1>1, <1>2 DEF Target

LEMMA TypedHeaders ==
    ASSUME NEW k, NEW A, NEW L, NEW h, NEW own, NEW b, NEW last,
           CodeTyped(k, A, L, h, own, b, last),
           NEW M, \A t \in M : t \in L \/ Target(k, h, own, last, t, b)
    PROVE  CodeTyped(k, A, M, h, own, b, last)
  BY DEF CodeTyped

(* Nothing emitted, and HALT or a body to come. *)
LEMMA TypedStart ==
    ASSUME NEW k, IsChunk(k), Tiled(k), Len(k.code) = 0, Len(k.spans) = 0
    PROVE  \E h, own : CodeTyped(k, {}, {}, h, own, 0, 1) /\ h[1] = 0
<1> DEFINE h == [i \in 1 .. 1 |-> 0]
<1>1. h \in [1 .. 0 + 1 -> Nat] /\ h \in [1 .. 0 + 1 -> 0 .. 0] /\ h[1] = 0 /\ h[0 + 1] = 0
  OBVIOUS
<1> HIDE DEF h
<1>2. Labels(k, h, h, 0)
  BY <1>1 DEF Labels
<1>3. At(k, 1) = 0
  BY DEF At
<1>4. CodeTyped(k, {}, {}, h, h, 0, 1)
  BY <1>2, <1>3 DEF CodeTyped
<1>5. QED
  BY <1>1, <1>4

(* The tables of two chunks, but for where the bodies are. *)
AlikeTables(k, m) ==
    /\ Len(k.functions) \in Nat /\ Len(m.functions) = Len(k.functions)
    /\ m.programFrameSize = k.programFrameSize
    /\ \A f \in 1 .. Len(k.functions) :
           /\ m.functions[f].arity = k.functions[f].arity
           /\ m.functions[f].frameSize = k.functions[f].frameSize

LEMMA FitsStill ==
    ASSUME NEW k, NEW m, AlikeTables(k, m), m.constants = k.constants,
           NEW op, NEW x, NEW u, NEW owner \in 0 .. Len(k.functions),
           OpFits(k, op, x, u, owner)
    PROVE  OpFits(m, op, x, u, owner) /\ Left(k, op, x, u) = Left(m, op, x, u)
<1>1. TakenBy(k, op, x) = TakenBy(m, op, x)
  <2>1. CASE op = 15
    <3>1. x + 1 \in 1 .. Len(k.functions)
      BY <2>1 DEF OpFits, WithOperand, AlikeTables
    <3>2. QED
      BY <2>1, <3>1 DEF TakenBy, AlikeTables
  <2>2. CASE op # 15
    BY <2>2 DEF TakenBy
  <2>3. QED
    BY <2>1, <2>2
<1>2. T!Width(k, owner) = T!Width(m, owner)
  <2>1. owner # 0 => owner \in 1 .. Len(k.functions)
    BY DEF AlikeTables
  <2>2. QED
    BY <2>1 DEF T!Width, AlikeTables
<1>3. Len(m.functions) = Len(k.functions)
  BY DEF AlikeTables
<1>4. QED
  BY <1>1, <1>2, <1>3 DEF OpFits, Left

(* The next body begins where the last one, or the program, has ended. *)
LEMMA TypedBody ==
    ASSUME NEW k, NEW h, NEW own, NEW b, CodeTyped(k, {}, {}, h, own, b, Len(k.spans)),
           NEW m, IsChunk(m), Tiled(m), m.code = k.code, m.spans = k.spans,
           m.constants = k.constants, AlikeTables(k, m), b + 1 <= Len(k.functions),
           \A f \in 1 .. b : m.functions[f].entry = k.functions[f].entry,
           m.functions[b + 1].entry = Len(k.code)
    PROVE  \E owner : CodeTyped(m, {}, {}, h, owner, b + 1, Len(m.spans) + 1)
                      /\ h[Len(m.spans) + 1] = 0
<1> DEFINE n == Len(k.spans)
           owner == [own EXCEPT ![n + 1] = b + 1]
<1>1. /\ n \in Nat /\ Len(k.code) \in Nat /\ b \in Nat /\ n # 0 /\ OpOf(k, n) \in EndOps
      /\ Len(m.spans) = n /\ Len(k.functions) \in Nat
  <2>1. n \in Nat /\ Len(k.code) \in Nat /\ b \in Nat
    BY PlacesAre
  <2>2. n # 0 /\ OpOf(k, n) \in EndOps
    BY DEF CodeTyped
  <2>3. QED
    BY <2>1, <2>2 DEF AlikeTables
<1>2. own \in [1 .. n + 1 -> 0 .. b] /\ h \in [1 .. n + 1 -> Nat] /\ h[1] = 0 /\ own[1] = 0
  BY DEF CodeTyped, Labels
<1>3. h[n + 1] = 0
  <2>1. n \in 1 .. n
    BY <1>1
  <2>2. InstructionFits(k, h, own, n)
    BY <2>1 DEF CodeTyped
  <2>3. QED
    BY <1>1, <2>2 DEF InstructionFits, Left
<1>4. \A i : /\ OpOf(m, i) = OpOf(k, i) /\ OffsetOf(m, i) = OffsetOf(k, i)
             /\ OperandOf(m, i) = OperandOf(k, i) /\ At(m, i) = At(k, i)
  BY DEF OpOf, OffsetOf, OperandOf, At
<1> HIDE DEF n
<1>5. /\ owner \in [1 .. n + 1 -> 0 .. b + 1] /\ owner[n + 1] = b + 1
      /\ \A i \in 1 .. n : owner[i] = own[i] /\ own[i] \in 0 .. b
  <2>1. own \in [1 .. n + 1 -> 0 .. b + 1]
    BY <1>1, <1>2
  <2>2. n + 1 \in 1 .. n + 1 /\ b + 1 \in 0 .. b + 1 /\ \A i \in 1 .. n : i \in 1 .. n + 1 /\ i # n + 1
    BY <1>1
  <2>3. QED
    BY <1>2, <2>1, <2>2
<1> HIDE DEF owner
<1>6. Labels(m, h, owner, b + 1)
  <2>1. 1 \in 1 .. n /\ b + 1 \in Nat
    BY <1>1
  <2>2. QED
    BY <1>1, <1>2, <1>5, <2>1 DEF Labels
<1>7. \A t, f : Target(k, h, own, n, t, f) => Target(m, h, owner, n + 1, t, f)
  <2>1. \A i \in 1 .. n : i \in 1 .. n + 1
    BY <1>1
  <2>2. QED
    BY <1>4, <1>5, <2>1 DEF Target
<1>8. ASSUME NEW s \in 1 .. n
      PROVE  InstructionFits(m, h, owner, s) /\ Lands(m, {}, h, owner, b + 1, n + 1, s)
  <2>1. InstructionFits(k, h, own, s) /\ Lands(k, {}, h, own, b, n, s)
    BY DEF CodeTyped, n
  <2>2. own[s] \in 0 .. Len(k.functions) /\ owner[s] = own[s]
    BY <1>1, <1>5
  <2>3. OpFits(k, OpOf(k, s), OperandOf(k, s), h[s], own[s])
    BY <2>1 DEF InstructionFits
  <2>4. /\ OpFits(m, OpOf(k, s), OperandOf(k, s), h[s], own[s])
        /\ Left(k, OpOf(k, s), OperandOf(k, s), h[s]) = Left(m, OpOf(k, s), OperandOf(k, s), h[s])
    BY <2>2, <2>3, FitsStill
  <2>5. OpOf(k, s) \notin EndOps => owner[s + 1] = own[s + 1]
    <3>1. OpOf(k, s) \notin EndOps => s + 1 \in 1 .. n
      BY <1>1
    <3>2. QED
      BY <1>5, <3>1
  <2>6. InstructionFits(m, h, owner, s)
    BY <1>4, <2>1, <2>2, <2>4, <2>5 DEF InstructionFits
  <2>7. Lands(m, {}, h, owner, b + 1, n + 1, s)
    BY <1>4, <1>7, <2>1, <2>2 DEF Lands
  <2>8. QED
    BY <2>6, <2>7
<1>9. ASSUME NEW f \in 1 .. b + 1
      PROVE  Enters(m, h, owner, n + 1, f)
  <2>1. CASE f \in 1 .. b
    <3>1. Enters(k, h, own, n, f)
      BY <2>1 DEF CodeTyped, n
    <3>2. m.functions[f].entry = k.functions[f].entry
      BY <2>1
    <3>3. Len(m.spans) = n /\ Len(k.spans) = n
      BY <1>1 DEF n
    <3>4. QED
      BY <1>4, <1>5, <1>7, <3>1, <3>2, <3>3 DEF Enters
  <2>2. CASE f = b + 1
    <3>1. m.functions[f].entry = Len(k.code) /\ Len(m.code) = Len(k.code)
      BY <2>2
    <3>2. Target(m, h, owner, n + 1, Len(m.code), b + 1)
      <4>1. h[Len(m.spans) + 1] = 0
        BY <1>1, <1>3
      <4>2. QED
        BY <1>1, <1>6, <4>1, TargetHere
    <3>3. ASSUME NEW s \in 1 .. n
          PROVE  ~(Len(k.code) <= OffsetOf(m, s)) /\ ~(f <= owner[s])
      <4>1. OffsetOf(k, s) \in Nat /\ OffsetOf(k, s) < Len(k.code)
        BY BytesOf DEF CodeTyped, n
      <4>2. owner[s] \in 0 .. b
        BY <1>5
      <4>3. QED
        BY <1>1, <1>4, <2>2, <4>1, <4>2
    <3>4. QED
      BY <1>1, <2>2, <3>1, <3>2, <3>3 DEF Enters
  <2>3. QED
    BY <1>1, <2>1, <2>2
<1>10. At(m, 1) = 0 /\ n + 1 # n
  BY <1>1, <1>4 DEF CodeTyped
<1>11. CodeTyped(m, {}, {}, h, owner, b + 1, n + 1)
  BY <1>1, <1>6, <1>8, <1>9, <1>10 DEF CodeTyped
<1>12. QED
  BY <1>1, <1>3, <1>11

-----------------------------------------------------------------------------

(* The operators of ChunkTyping, in the numbers of the opcodes. *)
LEMMA TypingOps ==
    /\ T!Unary = {8, 12} /\ T!Binary = BinaryOps /\ T!Ends = EndOps
    /\ \A op : T!HasOperand(op) <=> op \in WithOperand
    /\ \A op : T!InstructionLength(op) = Length(op)
    /\ T!OpCode.CONST = 0 /\ T!OpCode.LOAD_LOCAL = 1 /\ T!OpCode.STORE_LOCAL = 2
    /\ T!OpCode.POP = 3 /\ T!OpCode.JUMP = 13 /\ T!OpCode.JUMP_IF_FALSE = 14
    /\ T!OpCode.CALL = 15 /\ T!OpCode.RETURN = 16 /\ T!OpCode.PRINT = 17 /\ T!OpCode.HALT = 18
<1>1. /\ T!OpCode.CONST = 0 /\ T!OpCode.LOAD_LOCAL = 1 /\ T!OpCode.STORE_LOCAL = 2
      /\ T!OpCode.POP = 3 /\ T!OpCode.JUMP = 13 /\ T!OpCode.JUMP_IF_FALSE = 14
      /\ T!OpCode.CALL = 15 /\ T!OpCode.RETURN = 16 /\ T!OpCode.PRINT = 17 /\ T!OpCode.HALT = 18
  BY DEF T!OpCode
<1>2. /\ T!OpCode.ADD = 4 /\ T!OpCode.SUB = 5 /\ T!OpCode.MUL = 6 /\ T!OpCode.DIV = 7
      /\ T!OpCode.NEG = 8 /\ T!OpCode.EQ = 9 /\ T!OpCode.LT = 10 /\ T!OpCode.GT = 11
      /\ T!OpCode.NOT = 12
  BY DEF T!OpCode
<1>3. T!Unary = {8, 12} /\ T!Binary = BinaryOps /\ T!Ends = EndOps
  BY <1>1, <1>2 DEF T!Unary, T!Binary, T!Ends, BinaryOps, EndOps
<1>4. \A op : T!HasOperand(op) <=> op \in WithOperand
  BY <1>1 DEF T!HasOperand, WithOperand
<1>5. \A op : T!InstructionLength(op) = Length(op)
  BY <1>4 DEF T!InstructionLength, Length
<1>6. QED
  BY <1>1, <1>3, <1>4, <1>5

(* What the VM reads at an instruction, and what it does to the stack. *)
LEMMA TypingReads ==
    ASSUME NEW k, IsChunk(k), Tiled(k), NEW s \in 1 .. Len(k.spans)
    PROVE  LET o == OffsetOf(k, s)
           IN  /\ T!Byte(k, o) = OpOf(k, s) /\ T!ReadOperand(k, o) = OperandOf(k, s)
               /\ T!Takes(k, o) = TakenBy(k, OpOf(k, s), OperandOf(k, s))
               /\ T!Puts(k, o) = IF OpOf(k, s) \in PutsOne THEN 1 ELSE 0
               /\ T!Fallthrough(k, o) = At(k, s) + Length(OpOf(k, s))
<1> DEFINE o == OffsetOf(k, s)
           op == OpOf(k, s)
           x == OperandOf(k, s)
<1>1. o \in Nat
  BY BytesOf
<1>2. o + 1 + 1 = o + 2 /\ o + 2 + 1 = o + 3
  BY <1>1
<1>3. T!Byte(k, o) = op
  BY DEF T!Byte, OpOf, OffsetOf
<1>4. T!ReadOperand(k, o) = x
  <2>1. x = k.code[o + 2] + k.code[o + 3] * ByteBase
    BY DEF OperandOf, OffsetOf
  <2> HIDE DEF o, x
  <2>2. QED
    BY <1>2, <2>1 DEF T!ReadOperand, T!Byte
<1>5. T!Fallthrough(k, o) = At(k, s) + Length(op)
  BY <1>3, TypingOps DEF T!Fallthrough, At
<1> HIDE DEF o, op, x
<1>6. T!Callee(k, o) = k.functions[x + 1]
  BY <1>4 DEF T!Callee
<1>7. T!Takes(k, o) = TakenBy(k, op, x)
  BY <1>3, <1>6, TypingOps DEF T!Takes, TakenBy, TakesOne, BinaryOps
<1>8. T!Puts(k, o) = IF op \in PutsOne THEN 1 ELSE 0
  BY <1>3, TypingOps DEF T!Puts, PutsOne
<1>9. QED
  BY <1>3, <1>4, <1>5, <1>7, <1>8 DEF o, op, x

(* The function Heights is defined with. *)
HeightsAre(k, at) ==
    at = [i \in DOMAIN k.spans |->
             IF i = 1 \/ T!Byte(k, k.spans[i - 1].offset) \in T!Ends THEN 0
             ELSE at[i - 1] - T!Takes(k, k.spans[i - 1].offset) + T!Puts(k, k.spans[i - 1].offset)]

PlaceOf(k, o) == CHOOSE i \in DOMAIN k.spans : k.spans[i].offset = o

LEMMA HeightsFollow ==
    ASSUME NEW k, NEW h, NEW own, NEW b, NEW last, CodeTyped(k, {}, {}, h, own, b, last)
    PROVE  \E at : /\ T!Heights(k) = [o \in T!Starts(k) |-> at[PlaceOf(k, o)]]
                   /\ \A i \in 1 .. Len(k.spans) : at[i] = h[i]
<1> DEFINE n == Len(k.spans)
           at == CHOOSE at : HeightsAre(k, at)
           hh == [i \in 1 .. n |-> h[i]]
<1>1. DOMAIN k.spans = 1 .. n /\ n \in Nat
  BY ChunkFields DEF CodeTyped
<1>2. ASSUME NEW i \in 1 .. n
      PROVE  /\ i = 1 => h[i] = 0
             /\ i # 1 => /\ i - 1 \in 1 .. n
                         /\ T!Byte(k, k.spans[i - 1].offset) \in T!Ends => h[i] = 0
                         /\ T!Byte(k, k.spans[i - 1].offset) \notin T!Ends =>
                                h[i] = h[i - 1] - T!Takes(k, k.spans[i - 1].offset)
                                                + T!Puts(k, k.spans[i - 1].offset)
  <2>1. h[1] = 0
    BY DEF CodeTyped, Labels
  <2>2. ASSUME i # 1
        PROVE  /\ i - 1 \in 1 .. n
               /\ T!Byte(k, k.spans[i - 1].offset) \in T!Ends => h[i] = 0
               /\ T!Byte(k, k.spans[i - 1].offset) \notin T!Ends =>
                      h[i] = h[i - 1] - T!Takes(k, k.spans[i - 1].offset)
                                      + T!Puts(k, k.spans[i - 1].offset)
    <3> DEFINE s == i - 1
    <3>1. s \in 1 .. n /\ s + 1 = i
      BY <1>1, <2>2
    <3> HIDE DEF s
    <3>2. InstructionFits(k, h, own, s)
      BY <3>1 DEF CodeTyped
    <3>3. /\ T!Byte(k, OffsetOf(k, s)) = OpOf(k, s)
          /\ T!Takes(k, OffsetOf(k, s)) = TakenBy(k, OpOf(k, s), OperandOf(k, s))
          /\ T!Puts(k, OffsetOf(k, s)) = IF OpOf(k, s) \in PutsOne THEN 1 ELSE 0
      <4>1. IsChunk(k) /\ Tiled(k)
        BY DEF CodeTyped
      <4>2. QED
        BY <3>1, <4>1, TypingReads
    <3>4. h[i] = Left(k, OpOf(k, s), OperandOf(k, s), h[s])
      BY <3>1, <3>2 DEF InstructionFits
    <3>5. OffsetOf(k, s) = k.spans[s].offset
      BY DEF OffsetOf
    <3>6. /\ T!Byte(k, k.spans[s].offset) \in T!Ends => h[i] = 0
          /\ T!Byte(k, k.spans[s].offset) \notin T!Ends =>
                 h[i] = h[s] - T!Takes(k, k.spans[s].offset) + T!Puts(k, k.spans[s].offset)
      BY <3>3, <3>4, <3>5, TypingOps DEF Left
    <3>7. QED
      BY <3>1, <3>6 DEF s
  <2>3. QED
    BY <2>1, <2>2
<1> HIDE DEF n
<1>3. HeightsAre(k, hh)
  <2> DEFINE body(i) == IF i = 1 \/ T!Byte(k, k.spans[i - 1].offset) \in T!Ends THEN 0
                        ELSE hh[i - 1] - T!Takes(k, k.spans[i - 1].offset)
                                       + T!Puts(k, k.spans[i - 1].offset)
  <2>1. ASSUME NEW i \in 1 .. n
        PROVE  h[i] = body(i)
    <3>1. CASE i = 1
      BY <1>2, <3>1
    <3>2. CASE i # 1
      <4>1. hh[i - 1] = h[i - 1]
        BY <1>2, <3>2
      <4>2. QED
        BY <1>2, <3>2, <4>1
    <3>3. QED
      BY <3>1, <3>2
  <2>2. hh = [i \in 1 .. n |-> body(i)]
    <3> HIDE DEF body
    <3>1. QED
      BY <2>1
  <2> HIDE DEF hh
  <2>3. QED
    BY <1>1, <2>2 DEF HeightsAre
<1>4. HeightsAre(k, at)
  BY <1>3
<1>5. T!Heights(k) = [o \in T!Starts(k) |-> at[PlaceOf(k, o)]]
  BY DEF T!Heights, HeightsAre, PlaceOf
<1> HIDE DEF at, hh
<1>6. \A i \in 1 .. n : at[i] = h[i]
  <2> DEFINE S == {i \in Nat : i + 1 <= n => at[i + 1] = h[i + 1]}
  <2>1. ASSUME NEW i \in 1 .. n
        PROVE  at[i] = IF i = 1 \/ T!Byte(k, k.spans[i - 1].offset) \in T!Ends THEN 0
                       ELSE at[i - 1] - T!Takes(k, k.spans[i - 1].offset)
                                      + T!Puts(k, k.spans[i - 1].offset)
    BY <1>1, <1>4 DEF HeightsAre
  <2>2. 0 \in S
    <3>1. 1 <= n => 1 \in 1 .. n
      BY <1>1
    <3>2. QED
      BY <1>1, <1>2, <2>1, <3>1
  <2>3. ASSUME NEW i \in Nat, i \in S
        PROVE  i + 1 \in S
    <3>1. SUFFICES ASSUME i + 1 + 1 <= n PROVE at[i + 1 + 1] = h[i + 1 + 1]
      OBVIOUS
    <3> DEFINE j == i + 1 + 1
    <3>2. j \in 1 .. n /\ j # 1 /\ j - 1 = i + 1 /\ i + 1 <= n
      BY <1>1, <3>1
    <3>3. at[j - 1] = h[j - 1]
      BY <2>3, <3>2
    <3> HIDE DEF j
    <3>4. at[j] = h[j]
      BY <1>2, <2>1, <3>2, <3>3
    <3>5. QED
      BY <3>4 DEF j
  <2> HIDE DEF S
  <2>4. Nat \subseteq S
    BY <2>2, <2>3, NatSetInduction
  <2>5. ASSUME NEW i \in 1 .. n
        PROVE  at[i] = h[i]
    <3>1. i - 1 \in Nat /\ i - 1 + 1 = i /\ i <= n
      BY <1>1
    <3>2. i - 1 \in S
      BY <2>4, <3>1
    <3>3. QED
      BY <3>1, <3>2 DEF S
  <2>6. QED
    BY <2>5
<1>7. QED
  BY <1>5, <1>6 DEF n

LEMMA SameCardinality == \A S : T!Cardinality(S) = Cardinality(S)
  BY DEF T!Cardinality, Cardinality

LEMMA OwnersFollow ==
    ASSUME NEW k, NEW h, NEW own, NEW last, Len(k.functions) \in Nat,
           DOMAIN k.functions = 1 .. Len(k.functions),
           CodeTyped(k, {}, {}, h, own, Len(k.functions), last), NEW s \in 1 .. Len(k.spans)
    PROVE  T!Owners(k)[OffsetOf(k, s)] = own[s]
<1> DEFINE o == OffsetOf(k, s)
           m == Len(k.functions)
<1>1. DOMAIN k.spans = 1 .. Len(k.spans)
  BY ChunkFields DEF CodeTyped
<1>2. o \in T!Starts(k)
  BY <1>1 DEF T!Starts, OffsetOf
<1>3. T!Owners(k)[o] = Cardinality({f \in DOMAIN k.functions : k.functions[f].entry <= o})
  BY <1>2, SameCardinality DEF T!Owners
<1>4. own[s] \in 0 .. m /\ Len(k.spans) \in Nat
  <2>1. Len(k.spans) \in Nat /\ \A i \in 1 .. Len(k.spans) + 1 : own[i] \in 0 .. m
    BY PlacesAre
  <2>2. QED
    BY <2>1
<1>5. \A f \in 1 .. m : k.functions[f].entry <= o <=> f <= own[s]
  BY DEF CodeTyped, Enters
<1>6. {f \in DOMAIN k.functions : k.functions[f].entry <= o} = 1 .. own[s]
  <2> HIDE DEF o
  <2>1. \A f : f \in 1 .. own[s] <=> f \in 1 .. m /\ f <= own[s]
    BY <1>4
  <2>2. QED
    BY <1>5, <2>1
<1>7. Cardinality(1 .. own[s]) = own[s]
  <2> DEFINE c == own[s]
  <2>1. c \in Nat
    BY <1>4
  <2> HIDE DEF c
  <2>2. \A a, b \in Int : Cardinality(a .. b) = IF a > b THEN 0 ELSE b - a + 1
    BY FS_Interval
  <2>3. Cardinality(1 .. c) = c
    BY <2>1, <2>2
  <2>4. QED
    BY <2>3 DEF c
<1>8. QED
  BY <1>3, <1>6, <1>7

(* What compiled code is, without a word of how it was compiled. *)
ChunkIsTyped(k) ==
    /\ \E h, own : CodeTyped(k, {}, {}, h, own, Len(k.functions), Len(k.spans))
    /\ k.constants \in Seq(T!Value)
    /\ k.functions \in Seq(T!FunctionEntry)
    /\ k.programFrameSize \in 0 .. MaxOperand
    /\ \A f \in 1 .. Len(k.functions) : k.functions[f].arity <= k.functions[f].frameSize

LEMMA TypedIsWellTyped ==
    ASSUME NEW k, ChunkIsTyped(k)
    PROVE  /\ T!WellTyped(k, T!Heights(k), T!Owners(k))
           /\ \A o \in T!Starts(k) : T!Byte(k, o) <= T!OpCode.HALT
<1> DEFINE n == Len(k.spans)
           m == Len(k.functions)
           height == T!Heights(k)
           owned == T!Owners(k)
<1>1. PICK h, own : CodeTyped(k, {}, {}, h, own, m, n)
  BY DEF ChunkIsTyped
<1>2. /\ n \in Nat /\ m \in Nat /\ DOMAIN k.functions = 1 .. m /\ DOMAIN k.spans = 1 .. n
      /\ n # 0 /\ IsChunk(k) /\ Tiled(k)
  <2>1. m \in Nat /\ DOMAIN k.functions = 1 .. m
    BY LenProperties DEF ChunkIsTyped
  <2>2. n \in Nat /\ DOMAIN k.spans = 1 .. n
    BY <1>1, ChunkFields DEF CodeTyped
  <2>3. n # 0 /\ IsChunk(k) /\ Tiled(k)
    BY <1>1 DEF CodeTyped
  <2>4. QED
    BY <2>1, <2>2, <2>3
<1>3. \A s \in 1 .. n : /\ OffsetOf(k, s) \in Nat /\ At(k, s) = OffsetOf(k, s)
                        /\ h[s] \in Nat /\ own[s] \in 0 .. m
  <2>1. /\ \A s \in 1 .. n + 1 : h[s] \in Nat /\ own[s] \in 0 .. m
        /\ \A s \in 1 .. n : At(k, s) = OffsetOf(k, s)
    BY <1>1, PlacesAre
  <2>2. \A s \in 1 .. n : OffsetOf(k, s) \in Nat
    BY <1>2, BytesOf
  <2>3. \A s \in 1 .. n : s \in 1 .. n + 1
    BY <1>2
  <2>4. QED
    BY <2>1, <2>2, <2>3
<1>4. \A s, t \in 1 .. n : OffsetOf(k, s) = OffsetOf(k, t) => s = t
  <2>1. ASSUME NEW s \in 1 .. n, NEW t \in 1 .. n, s < t
        PROVE  OffsetOf(k, s) # OffsetOf(k, t)
    <3>1. OffsetOf(k, s) + Length(OpOf(k, s)) <= OffsetOf(k, t)
      BY <1>2, <2>1 DEF Tiled
    <3>2. Length(OpOf(k, s)) \in {1, 3}
      BY LengthsAre
    <3>3. QED
      BY <1>3, <3>1, <3>2
  <2>2. \A s, t \in 1 .. n : s < t \/ t < s \/ s = t
    BY <1>2
  <2>3. QED
    BY <2>1, <2>2
<1>5. /\ \A o \in T!Starts(k) : \E s \in 1 .. n : o = OffsetOf(k, s)
      /\ \A s \in 1 .. n : OffsetOf(k, s) \in T!Starts(k)
  BY <1>2 DEF T!Starts, OffsetOf
<1>6. \A s \in 1 .. n : height[OffsetOf(k, s)] = h[s]
  <2>1. PICK at : /\ height = [o \in T!Starts(k) |-> at[PlaceOf(k, o)]]
                  /\ \A i \in 1 .. n : at[i] = h[i]
    BY <1>1, HeightsFollow
  <2>2. ASSUME NEW s \in 1 .. n
        PROVE  PlaceOf(k, OffsetOf(k, s)) = s
    <3>1. k.spans[s].offset = OffsetOf(k, s)
      BY DEF OffsetOf
    <3>2. \A i \in DOMAIN k.spans : k.spans[i].offset = OffsetOf(k, s) => i = s
      BY <1>2, <1>4 DEF OffsetOf
    <3>3. QED
      BY <1>2, <3>1, <3>2 DEF PlaceOf
  <2> HIDE DEF height
  <2>3. QED
    BY <1>5, <2>1, <2>2
<1>7. \A s \in 1 .. n : owned[OffsetOf(k, s)] = own[s]
  BY <1>1, <1>2, OwnersFollow
<1>8. height \in [T!Starts(k) -> Nat]
  <2>1. height = [o \in T!Starts(k) |-> height[o]]
    BY DEF T!Heights
  <2> HIDE DEF height
  <2>2. \A o \in T!Starts(k) : height[o] \in Nat
    BY <1>3, <1>5, <1>6
  <2>3. QED
    BY <2>1, <2>2
<1>9. owned \in [T!Starts(k) -> 0 .. m]
  <2>1. owned = [o \in T!Starts(k) |-> owned[o]]
    BY DEF T!Owners
  <2> HIDE DEF owned
  <2>2. \A o \in T!Starts(k) : owned[o] \in 0 .. m
    BY <1>3, <1>5, <1>7
  <2>3. QED
    BY <2>1, <2>2
<1> HIDE DEF height, owned
(* A place that is a target is where control may flow to. *)
<1>10. ASSUME NEW t, NEW f, Target(k, h, own, n, t, f)
       PROVE  T!Flows(k, height, owned, f, 0, t)
  <2>1. PICK i \in 1 .. n : At(k, i) = t /\ h[i] = 0 /\ own[i] = f
    BY <1>10 DEF Target
  <2>2. t = OffsetOf(k, i)
    BY <1>3, <2>1
  <2>3. QED
    BY <1>5, <1>6, <1>7, <2>1, <2>2 DEF T!Flows
<1>11. 0 \in T!Starts(k) /\ height[0] = 0 /\ owned[0] = 0
  <2>1. 1 \in 1 .. n
    BY <1>2
  <2>2. At(k, 1) = 0 /\ h[1] = 0 /\ own[1] = 0
    BY <1>1 DEF CodeTyped, Labels
  <2>3. OffsetOf(k, 1) = 0
    BY <1>3, <2>1, <2>2
  <2>4. QED
    BY <1>5, <1>6, <1>7, <2>1, <2>2, <2>3
<1>12. T!Starts(k) \subseteq Nat
  BY <1>3, <1>5
<1>13. ASSUME NEW f \in DOMAIN k.functions
       PROVE  /\ k.functions[f].arity <= k.functions[f].frameSize
              /\ k.functions[f].entry \in T!Starts(k)
              /\ height[k.functions[f].entry] = 0 /\ owned[k.functions[f].entry] = f
  <2>1. f \in 1 .. m
    BY <1>2
  <2>2. Target(k, h, own, n, k.functions[f].entry, f)
    BY <1>1, <2>1 DEF CodeTyped, Enters
  <2>3. T!Flows(k, height, owned, f, 0, k.functions[f].entry)
    BY <1>10, <2>2
  <2>4. k.functions[f].arity <= k.functions[f].frameSize
    BY <2>1 DEF ChunkIsTyped
  <2>5. QED
    BY <2>3, <2>4 DEF T!Flows
<1>14. ASSUME NEW s \in 1 .. n
       PROVE  T!WellTypedAt(k, height, owned, OffsetOf(k, s)) /\ OpOf(k, s) <= 18
  <2> DEFINE o == OffsetOf(k, s)
             op == OpOf(k, s)
             x == OperandOf(k, s)
             takes == TakenBy(k, op, x)
             after == h[s] - takes + (IF op \in PutsOne THEN 1 ELSE 0)
  <2>1. InstructionFits(k, h, own, s) /\ Lands(k, {}, h, own, m, n, s)
    BY <1>1 DEF CodeTyped
  <2>2. OpFits(k, op, x, h[s], own[s])
    BY <2>1 DEF InstructionFits
  <2>3. /\ T!Byte(k, o) = op /\ T!ReadOperand(k, o) = x
        /\ T!Takes(k, o) = takes
        /\ T!Puts(k, o) = IF op \in PutsOne THEN 1 ELSE 0
        /\ T!Fallthrough(k, o) = At(k, s) + Length(op)
    BY <1>2, TypingReads
  <2>4. height[o] = h[s] /\ owned[o] = own[s]
    BY <1>6, <1>7
  <2>5. op \in 0 .. 18
    BY <2>2 DEF OpFits
  <2>6. ASSUME op \notin EndOps
        PROVE  T!Flows(k, height, owned, own[s], after, T!Fallthrough(k, o))
    <3>1. s # n
      <4>1. s = n => op \in EndOps
        BY <1>1 DEF CodeTyped
      <4>2. QED
        BY <2>6, <4>1
    <3>2. s + 1 \in 1 .. n
      BY <1>2, <3>1
    <3>3. T!Fallthrough(k, o) = OffsetOf(k, s + 1)
      BY <1>3, <2>1, <2>3, <3>2 DEF InstructionFits
    <3>4. h[s + 1] = after /\ own[s + 1] = own[s]
      BY <2>1, <2>6 DEF InstructionFits, Left
    <3>5. QED
      BY <1>5, <1>6, <1>7, <3>2, <3>3, <3>4 DEF T!Flows
  <2>7. ASSUME op \in JumpOps
        PROVE  T!Flows(k, height, owned, own[s], after, x)
    <3>1. Target(k, h, own, n, x, own[s])
      BY <2>1, <2>7 DEF Lands
    <3>2. T!Flows(k, height, owned, own[s], 0, x)
      BY <1>10, <3>1
    <3>3. h[s] = takes /\ takes \in Nat /\ op \notin PutsOne
      BY <2>2, <2>7 DEF OpFits, JumpOps, PutsOne, BinaryOps
    <3>4. after = 0
      BY <3>3
    <3>5. QED
      BY <3>2, <3>4
  <2> HIDE DEF o, op, x, takes, after
  <2>8. T!OperandInRange(k, own[s], op, x)
    BY <2>2, TypingOps DEF OpFits, T!OperandInRange
  <2>9. T!Takes(k, o) <= height[o] /\ (op \in WithOperand => x \in Nat)
        /\ (op = 16 => own[s] # 0)
    BY <2>2, <2>3, <2>4 DEF OpFits, takes
  <2>10. height[o] - T!Takes(k, o) + T!Puts(k, o) = after
    BY <2>3, <2>4 DEF after
  <2>11. T!WellTypedAt(k, height, owned, o)
    <3>1. op \in Nat
      BY <2>5
    <3>2. T!HasOperand(op) => x \in Nat
      BY <2>9, TypingOps
    <3>3. op \notin T!Ends =>
              T!Flows(k, height, owned, own[s], after, T!Fallthrough(k, o))
      BY <2>6, TypingOps
    <3>4. op \in {T!OpCode.JUMP, T!OpCode.JUMP_IF_FALSE} => T!Flows(k, height, owned, own[s], after, x)
      BY <2>7, TypingOps DEF JumpOps
    <3>5. op = T!OpCode.RETURN => own[s] # 0
      BY <2>9, TypingOps
    <3>6. QED
      BY <2>3, <2>4, <2>8, <2>9, <2>10, <3>1, <3>2, <3>3, <3>4, <3>5 DEF T!WellTypedAt
  <2>12. QED
    BY <2>5, <2>11 DEF o, op
<1>15. \A o \in T!Starts(k) : T!WellTypedAt(k, height, owned, o)
  BY <1>5, <1>14
<1>16. \A o \in T!Starts(k) : T!Byte(k, o) <= T!OpCode.HALT
  <2>1. \A s \in 1 .. n : T!Byte(k, OffsetOf(k, s)) = OpOf(k, s)
    BY <1>2, TypingReads
  <2>2. QED
    BY <1>5, <1>14, <2>1, TypingOps
<1>17. T!WellTyped(k, height, owned)
  BY <1>8, <1>9, <1>11, <1>12, <1>13, <1>15 DEF T!WellTyped, ChunkIsTyped
<1>18. QED
  BY <1>16, <1>17 DEF height, owned
=============================================================================
