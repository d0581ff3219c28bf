-------------------------- MODULE InstructionFilter --------------------------
(***************************************************************************)
(* The instruction filters of a segment (internal/stream/stream.go):       *)
(* decodeInstruction4108 and decodeInstruction5200, with and without the   *)
(* flip of the high byte.  After an opcode of a call or a jump comes an    *)
(* operand of four bytes; the installer made it absolute, the filter makes *)
(* it relative to its place again.  The numbers of bytes, of operand bytes *)
(* and of a page are parameters, so that small ones can be checked.        *)
(***************************************************************************)
EXTENDS Sums

CONSTANTS
  Base,        \* 256: a byte is a digit of this base
  Opcodes,     \* 0xe8 and 0xe9
  OperandLen,  \* 4
  PageSize,    \* 0x10000
  Segments     \* what the filters are given

Byte == 0..(Base - 1)

ASSUME FilterAssumption ==
  /\ Base \in Nat /\ Base > 1
  /\ Opcodes \subseteq Byte
  /\ OperandLen \in Nat /\ OperandLen > 1
  /\ PageSize \in Nat /\ PageSize > OperandLen
  /\ Segments \subseteq Seq(Byte)

\* Power[n] is the number of values of n bytes.
Power == LET power[n \in 0..OperandLen] == IF n = 0 THEN 1 ELSE Base * power[n - 1] IN power

Filters == {"4108", "5200", "5309"}     \* 5309 is 5200 with flipHighByte

VARIABLES filter, src, dst, pc,
          i,      \* the bytes of src that have been read
          left,   \* decodeInstruction4108: operand bytes to come
          addr    \* decodeInstruction4108: what is still to be added to them

fvars == <<filter, src, dst, pc, i, left, addr>>

Init ==
  /\ filter \in Filters /\ src \in Segments
  /\ dst = <<>> /\ pc = "decode" /\ i = 0 /\ left = 0 /\ addr = 0

\* Reading n bytes, a step writes some.
Finish == pc' = IF i' = Len(src) THEN "done" ELSE "decode"
Emit(n, bytes) == i' = i + n /\ dst' = dst \o bytes /\ Finish /\ UNCHANGED <<filter, src>>

Empty == pc = "decode" /\ src = <<>> /\ pc' = "done" /\ UNCHANGED <<filter, src, dst, i, left, addr>>

-----------------------------------------------------------------------------
(* decodeInstruction4108: offset is i + 5, after an opcode and an operand.  *)

Word == Power[OperandLen]
Old == pc = "decode" /\ filter = "4108" /\ i < Len(src)

OldOpcode ==
  /\ Old /\ left = 0
  /\ Emit(1, <<src[i + 1]>>)
  /\ IF src[i + 1] \in Opcodes
     THEN left' = OperandLen /\ addr' = (-(i + OperandLen + 1)) % Word
     ELSE UNCHANGED <<left, addr>>

OldOperand ==
  /\ Old /\ left > 0
  /\ LET sum == (addr + src[i + 1]) % Word IN
     Emit(1, <<sum % Base>>) /\ addr' = sum \div Base
  /\ left' = left - 1

-----------------------------------------------------------------------------
(* decodeInstruction5200.                                                   *)

New == pc = "decode" /\ filter # "4108" /\ i < Len(src) /\ UNCHANGED <<left, addr>>
opcode == src[i + 1]

\* What is left of the page, with the opcode.
\* Mutant of FitsPage: the opcode is not counted.
FitsPageBeyond(n) == PageSize - (n % PageSize) >= OperandLen
FitsPage(n) == PageSize - (n % PageSize) >= OperandLen + 1

\* The opcode at n is followed by an operand that is looked at.
HasOperand(s, n) == s[n + 1] \in Opcodes /\ FitsPage(n)

Plain == New /\ ~HasOperand(src, i) /\ Emit(1, <<opcode>>)

\* The end of the segment comes first: the rest is copied.
RestOfSegmentDropped(s, n) == <<s[n + 1]>>    \* mutant of RestOfSegment: only the opcode is
RestOfSegment(s, n) == SubSeq(s, n + 1, Len(s))

CutOperand ==
  /\ New /\ HasOperand(src, i)
  /\ Len(src) - (i + 1) < OperandLen
  /\ Emit(Len(src) - i, RestOfSegment(src, i))

\* The bytes below the high one are the address, in little-endian order.
AddressRange == Power[OperandLen - 1]
Value(s, n, m) == Total([k \in 1..m |-> Power[k - 1] * s[n + 1 + k]])
Digits(a, m) == [k \in 1..m |-> (a \div Power[k - 1]) % Base]
Address(s, n) == Value(s, n, OperandLen - 1)
High(s, n) == s[n + 1 + OperandLen]
IsNegative(a) == a >= AddressRange \div 2

\* An operand further away than the address range is none.
Far(s, n) == High(s, n) \notin {0, Base - 1}

\* Mutant of Flips: the sign is that of the address before it is converted.
FlipsBefore(rel, n) == filter = "5309" /\ IsNegative((rel + n + OperandLen + 1) % AddressRange)
Flips(rel, n) == filter = "5309" /\ IsNegative(rel)

FarOperand ==
  /\ New /\ HasOperand(src, i)
  /\ Len(src) - (i + 1) >= OperandLen
  /\ Far(src, i)
  /\ Emit(OperandLen + 1, SubSeq(src, i + 1, i + 1 + OperandLen))

\* The address is counted from the end of the operand.
Operand ==
  /\ New /\ HasOperand(src, i)
  /\ Len(src) - (i + 1) >= OperandLen
  /\ ~Far(src, i)
  /\ LET rel == (Address(src, i) - (i + OperandLen + 1)) % AddressRange
         high == IF Flips(rel, i) THEN Base - 1 - High(src, i) ELSE High(src, i)
     IN Emit(OperandLen + 1, <<opcode>> \o Digits(rel, OperandLen - 1) \o <<high>>)

Decoded == pc = "done" /\ UNCHANGED fvars

Step == Empty \/ OldOpcode \/ OldOperand \/ Plain \/ CutOperand \/ FarOperand \/ Operand
Next == Step \/ Decoded

Spec == Init /\ [][Next]_fvars

-----------------------------------------------------------------------------
(* Properties.                                                              *)

\* A filter returns a byte for every byte it reads and reads them all, also
\* when a segment ends in the middle of an operand: decodeFileSegment takes the
\* result for the file's bytes (decodeInstruction4108, decodeInstruction5200).
TypeOK ==
  /\ filter \in Filters /\ pc \in {"decode", "done"}
  /\ i \in 0..Len(src) /\ (pc = "done" => i = Len(src))
  /\ Len(dst) = i /\ \A k \in DOMAIN dst : dst[k] \in Byte
  /\ left \in 0..OperandLen /\ addr \in 0..(Word - 1)

\* The filters backwards, from what they have returned: the place is added to
\* an operand again, to as many bytes of it as there are for 4108, and for 5200
\* to those that are whole, end in 0 or the highest byte and share the page.
Shorter(x, y) == IF x < y THEN x ELSE y
RaiseOld(s, n) ==
  LET m == Shorter(OperandLen, Len(s) - n - 1) IN
  <<s[n + 1]>> \o Digits((Value(s, n, m) + n + OperandLen + 1) % Power[m], m)
RaiseNew(f, s, n) ==
  LET a == Address(s, n)
      high == IF f = "5309" /\ IsNegative(a) THEN Base - 1 - High(s, n) ELSE High(s, n)
  IN <<s[n + 1]>> \o Digits((a + n + OperandLen + 1) % AddressRange, OperandLen - 1) \o <<high>>
Instruction(f, s, n) ==
  IF f = "4108" /\ s[n + 1] \in Opcodes THEN RaiseOld(s, n)
  ELSE IF f = "4108" \/ ~HasOperand(s, n) THEN <<s[n + 1]>>
  ELSE IF n + 1 + OperandLen > Len(s) THEN SubSeq(s, n + 1, Len(s))
  ELSE IF Far(s, n) THEN SubSeq(s, n + 1, n + 1 + OperandLen)
  ELSE RaiseNew(f, s, n)
\* Encoded(f, s)[n] is what follows the first n bytes, when an instruction begins there.
Encoded(f, s) ==
  LET from[n \in 0..Len(s)] ==
        IF n = Len(s) THEN <<>> ELSE LET instr == Instruction(f, s, n) IN instr \o from[n + Len(instr)]
  IN from

\* Nothing of a segment is lost: at every step what has been returned can be
\* turned back into what was read, so no two segments are decoded alike
\* (decodeInstruction4108, decodeInstruction5200).
FilterIsLossless == Encoded(filter, dst)[0] = SubSeq(src, 1, i)

\* An instruction is decoded within its page: whatever comes before, decoding
\* looks for an opcode at the start of every page (the loop of
\* decodeInstruction5200, left < 5).
PagesAreSeparate ==
  [][filter # "4108" /\ i' \div PageSize > i \div PageSize => i' % PageSize = 0]_fvars

=============================================================================
