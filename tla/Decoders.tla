------------------------------- MODULE Decoders -------------------------------
(***************************************************************************)
(* The two decoders of AArch64 instructions, KittyAsm.cpp and              *)
(* KittyArm64.cpp, which know of ADR, ADRP, ADD, SUB and the loads and     *)
(* stores independently of each other, and the Arm decoder of KittyAsm.    *)
(*                                                                         *)
(* A word is the set of its one bits, numbered from 0; a value of 64 bits  *)
(* likewise, negative ones in two's complement.  So "&" is \cap, "|" is    *)
(* \cup, and a shift renumbers.  A type of the enumerations is an          *)
(* operation and a mode (how a load or store gets its address).            *)
(***************************************************************************)
EXTENDS Integers

CONSTANTS
  Words,      \* instruction words that are looked at as they are
  Values,     \* operands that are assembled into words
  Addresses,  \* addresses the words stand at
  None
ASSUME DecodersAssumption ==
  /\ Words \subseteq SUBSET (0..31)
  /\ Values \subseteq Int
  /\ Addresses \subseteq Nat

VARIABLES
  word, address,
  isa,    \* "A64" or "A32": the decoder asked
  meant,  \* history: the form and operand the word was assembled from, or None
  insn,   \* what decodeInsn answers, or None
  imms    \* what the functions of KittyArm64.cpp answer, or None

said == <<word, address, isa, meant>>
vars == <<said, insn, imms>>

-----------------------------------------------------------------------------
(* Bits                                                                    *)

bits(v, hi, lo) == {b \in 0..(hi - lo) : b + lo \in v}
bits_from(v, pos, l) == {b \in 0..(l - 1) : b + pos \in v}
Bit(v, b) == IF b \in v THEN 1 ELSE 0

Under(v, mask, value) == v \cap mask = value

ShlWide(v, n) == v \cup {b \in 0..63 : b - n \in v}  \* mutated: or instead of move
Shl(v, n) == {b \in 0..63 : b - n \in v}

signExtend(v, n) == v \cup (IF n - 1 \in v THEN n..63 ELSE {})

Not(v) == (0..63) \ v
LowAll(v) == v  \* mutated: all 64 bits
Low(v) == v \cap 0..31  \* what is kept in 32 bits
ror32(v, n) == {b \in 0..31 : (b + n) % 32 \in v}

\* Addition modulo 2^64: a carry is made where both have a one, and goes on
\* until a place where neither has.
Carry(a, b, i) ==
  \E j \in a \cap b : j < i /\ \A k \in (j + 1)..(i - 1) : k \in a \cup b
Plus(a, b) == {i \in 0..63 : ((i \in a) # (i \in b)) # Carry(a, b, i)}
Minus(v) == Plus(Not(v), {0})

-----------------------------------------------------------------------------
(* KittyArm64.cpp                                                          *)

is_insn_adr(w) == Under(w, {31} \cup 24..28, {28})
is_insn_adrp(w) == Under(w, {31} \cup 24..28, {31, 28})

\* Two fields, put together and extended by their bit 20: ADRP in 33 bits.
decode_adr_imm(w) ==
  LET imm == Shl(bits_from(w, 5, 19), 2) \cup bits_from(w, 29, 2)
  IN IF is_insn_adrp(w)
     THEN Shl(imm, 12) \cup (IF 20 \in imm THEN 33..63 ELSE {})
     ELSE imm \cup (IF 20 \in imm THEN 21..63 ELSE {})

\* mutated: the bit beside it tells of the shift
AddSubBeside(w) ==
  IF 23 \in w THEN Shl(bits_from(w, 10, 12), 12) ELSE bits_from(w, 10, 12)
decode_addsub_imm(w) ==
  IF 22 \in w THEN Shl(bits_from(w, 10, 12), 12) ELSE bits_from(w, 10, 12)

is_insn_ld(w) == 22 \in w
is_insn_ldst(w) == Under(w, {27, 25}, {27})
is_insn_ldst_uimm(w) == Under(w, {29, 28, 27, 25, 24}, {29, 28, 27, 24})

Size(w) == 2 * Bit(w, 31) + Bit(w, 30)
decode_ldrstr_uimm(w) == Shl(bits_from(w, 10, 12), Size(w))

\* What they answer together; those that decode first test for their kind.
Arm64Answers(w) ==
  [is_adr |-> is_insn_adr(w) \/ is_insn_adrp(w),
   adr |-> IF is_insn_adr(w) \/ is_insn_adrp(w) THEN decode_adr_imm(w) ELSE {},
   addsub |-> decode_addsub_imm(w),
   is_uimm |-> is_insn_ldst_uimm(w),
   uimm |-> IF is_insn_ldst_uimm(w) THEN decode_ldrstr_uimm(w) ELSE {},
   ldst |-> is_insn_ldst(w),
   ld |-> is_insn_ld(w)]

-----------------------------------------------------------------------------
(* KittyArm64::decodeInsnType of KittyAsm.cpp                              *)

Type(op, mode) == [op |-> op, mode |-> mode]
UNKNOWN == Type("UNKNOWN", "none")

\* The operation of a load or store by its size and its opc field; some
\* combinations have no type.
Access(w) ==
  LET opc == 2 * Bit(w, 23) + Bit(w, 22)
  IN CASE opc = 0 -> <<"STRB", "STRH", "STRW", "STR">>[Size(w) + 1]
       [] opc = 1 -> <<"LDRB", "LDRH", "LDRW", "LDR">>[Size(w) + 1]
       [] opc = 2 -> <<"LDRSB", "LDRSH", "LDRSW", "none">>[Size(w) + 1]
       [] opc = 3 -> <<"LDRSB", "LDRSH", "none", "none">>[Size(w) + 1]

\* With a post- or pre-index the types do not tell W from X.
Indexed(w) ==
  CASE Access(w) = "STRW" -> "STR"
    [] Access(w) = "LDRW" -> "LDR"
    [] OTHER -> Access(w)

\* The masks of the literal loads take in the two highest bits of their
\* displacement.
LoadStoreType(w) ==
  LET named == Access(w) # "none"
  IN CASE named /\ Under(w, 24..29, {29, 28, 27, 24}) -> Type(Access(w), "uimm")
       [] named /\ Under(w, 24..29 \cup {11, 10}, {29, 28, 27, 10}) -> Type(Indexed(w), "post")
       [] named /\ Under(w, 24..29 \cup {11, 10}, {29, 28, 27, 11, 10}) -> Type(Indexed(w), "pre")
       [] named /\ Under(w, 24..29, {29, 28, 27}) /\ 10 \notin w -> Type(Access(w), "unscaled")
       [] Under(w, 22..31, {28, 27}) -> Type("LDRW", "literal")
       [] Under(w, 22..31, {30, 28, 27}) -> Type("LDR", "literal")
       [] Under(w, 22..31, {31, 28, 27}) -> Type("LDRSW", "literal")
       [] OTHER -> UNKNOWN

BranchType(w) ==
  CASE Under(w, 26..31, {28, 26}) -> Type("B", "none")
    [] Under(w, 26..31, {31, 28, 26}) -> Type("BL", "none")
    [] Under(w, 24..31 \cup {4}, {30, 28, 26}) -> Type("B_COND", "none")
    [] Under(w, 24..30, {29, 28, 26}) -> Type("CBZ", "none")
    [] Under(w, 24..30, {29, 28, 26, 24}) -> Type("CBNZ", "none")
    [] Under(w, 24..30, {29, 28, 26, 25}) -> Type("TBZ", "none")
    [] Under(w, 24..30, {29, 28, 26, 25, 24}) -> Type("TBNZ", "none")
    [] OTHER -> UNKNOWN

decodeInsnType(w) ==
  CASE Under(w, {31} \cup 24..28, {28}) -> Type("ADR", "none")
    [] Under(w, {31} \cup 24..28, {31, 28}) -> Type("ADRP", "none")
    [] Under(w, 24..30, {28, 24}) -> Type("ADD", "none")
    [] Under(w, 24..30, {30, 28, 24}) -> Type("SUB", "none")
    [] Under(w, 23..30, {30, 28, 25, 23}) -> Type("MOVZ", "none")
    [] Under(w, 23..30, {30, 29, 28, 25, 23}) -> Type("MOVK", "none")
    [] Under(w, 23..30, {28, 25, 23}) -> Type("MOVN", "none")
    [] OTHER -> IF LoadStoreType(w) # UNKNOWN THEN LoadStoreType(w) ELSE BranchType(w)

-----------------------------------------------------------------------------
(* decodeInsn of KittyAsm.cpp: type, immediate and target; the names of    *)
(* registers and conditions are left out.                                  *)

Displacement(w, hi, lo) == Shl(signExtend(bits(w, hi, lo), hi - lo + 1), 2)

\* imm16 << (hw * 16) in 32 bits: undefined for the two higher half-words,
\* where a shift is by the amount modulo 32, or drops everything.
MovImmediates(w) ==
  LET imm16 == bits(w, 20, 5)
  IN IF 22 \in w THEN {imm16, Low(Shl(imm16, 16)), {}}
                 ELSE {Shl(imm16, 16 * Bit(w, 21))}

Immediates64(w, t) ==
  LET adr == signExtend(Shl(bits(w, 23, 5), 2) \cup bits(w, 30, 29), 21)
      imm12 == bits(w, 21, 10)
  IN CASE t = UNKNOWN -> {{}}
       [] t.op = "ADR" -> {adr}
       [] t.op = "ADRP" -> {Shl(adr, 12)}
       [] t.op \in {"MOVZ", "MOVK"} -> MovImmediates(w)
       [] t.op = "MOVN" -> {Not(imm) : imm \in MovImmediates(w)}
       [] t.op \in {"ADD", "SUB"} ->
            {IF Under(w, {23, 22}, {22}) THEN Shl(imm12, 12) ELSE imm12}
       [] t.mode = "uimm" -> {Shl(imm12, Size(w))}
       [] t.mode \in {"post", "pre", "unscaled"} -> {signExtend(bits(w, 20, 12), 9)}
       [] t.op \in {"B", "BL"} -> {Displacement(w, 25, 0)}
       [] t.op \in {"TBZ", "TBNZ"} -> {Displacement(w, 18, 5)}
       [] OTHER -> {Displacement(w, 23, 5)}

Target64(t, a, imm) ==
  CASE t.op = "ADRP" -> Plus(a \ 0..11, imm)
    [] t.mode = "literal" \/ t.op \in {"ADR", "B", "BL", "B_COND", "CBZ", "CBNZ", "TBZ", "TBNZ"} ->
         Plus(a, imm)
    [] OTHER -> {}

\* What decodeInsn may answer.
Insns64(w, a) ==
  LET t == decodeInsnType(w)
      bitpos == IF t.op \in {"TBZ", "TBNZ"}
                THEN bits(w, 23, 19) \cup (IF 31 \in w THEN {5} ELSE {})
                ELSE {}
  IN {[type |-> t, immediate |-> imm, target |-> Target64(t, a, imm), bitpos |-> bitpos]
        : imm \in Immediates64(w, t)}

-----------------------------------------------------------------------------
(* The Arm decoder of KittyAsm.cpp.                                        *)

OfPc(w) == 16..19 \subseteq w

\* The test of line 45 for literal loads is passed by no word that was not an
\* ADD.
AluType(w) ==
  LET alu(value) == Under(w, 21..24 \cup {27, 26}, value)
  IN CASE alu({23}) -> IF OfPc(w) THEN "ADR" ELSE "ADD"
       [] alu({22}) -> IF OfPc(w) THEN "ADR" ELSE "SUB"
       [] alu({24, 23, 21}) -> "MOV"
       [] OTHER -> "UNKNOWN"

TransferType(w) ==
  LET transfer(value) == Under(w, {27, 26, 22, 20}, value)
      half(value) == Under(w, 24..27 \cup {20} \cup 4..7, value)
  IN CASE transfer({26, 20}) -> IF OfPc(w) THEN "LDR_LITERAL" ELSE "LDR"
       [] transfer({26}) -> "STR"
       [] transfer({26, 22, 20}) -> IF OfPc(w) THEN "LDR_LITERAL" ELSE "LDRB"
       [] transfer({26, 22}) -> "STRB"
       [] half({24, 20, 7, 5, 4}) -> "LDRH"
       [] half({24, 7, 5, 4}) -> "STRH"
       [] half({24, 20, 7, 6, 4}) -> "LDRSB"
       [] half({24, 20, 7, 6, 5, 4}) -> "LDRSH"
       [] OTHER -> "UNKNOWN"

decodeInsnType32(w) ==
  CASE AluType(w) # "UNKNOWN" -> AluType(w)
    [] AluType(w) = "UNKNOWN" /\ TransferType(w) # "UNKNOWN" -> TransferType(w)
    [] Under(w, 24..27, {27, 25}) -> IF Under(w, 28..31, {31, 30, 29}) THEN "B" ELSE "B_COND"
    [] Under(w, 24..27, {27, 25, 24}) -> "BL"
    [] OTHER -> "UNKNOWN"

Immediate32(w, op) ==
  LET rot == 2 * (8 * Bit(w, 11) + 4 * Bit(w, 10) + 2 * Bit(w, 9) + Bit(w, 8))
      signed(v) == IF 23 \in w THEN v ELSE Low(Minus(v))
  IN CASE op = "UNKNOWN" -> {}
       [] op \in {"ADD", "SUB", "MOV", "ADR"} ->
            IF 25 \in w THEN ror32(bits(w, 7, 0), rot) ELSE {}
       [] op \in {"LDRH", "LDRSH", "LDRSB", "STRH"} ->
            signed(Shl(bits(w, 11, 8), 4) \cup bits(w, 3, 0))
       [] op \in {"B", "BL", "B_COND"} -> Low(Displacement(w, 23, 0))
       [] OTHER -> signed(bits(w, 11, 0))

\* The program counter is two instructions ahead where it is read; the target
\* adds the immediate, also where the instruction subtracts it.
Insn32(w, a) ==
  LET op == decodeInsnType32(w)
      imm == Immediate32(w, op)
      jumps == \/ op \in {"B", "BL", "B_COND"}
               \/ OfPc(w) /\ op \notin {"UNKNOWN", "LDRH", "LDRSH", "LDRSB", "STRH"}
  IN [type |-> Type(op, "none"), immediate |-> imm, bitpos |-> {},
      target |-> IF jumps THEN Low(Plus(Plus(Low(a), {3}), imm)) ELSE {}]

-----------------------------------------------------------------------------
(* How words are assembled: the forms of the Arm manual, each with the     *)
(* bits that are always set, where its operand stands, how wide it is, and *)
(* the multiple it counts.                                                 *)

\* Bit b of an integer tells whether it is odd once it is halved b times.
Halves(n) ==
  LET half[b \in 0..63] == IF b = 0 THEN n ELSE half[b - 1] \div 2
  IN half
IntBits(n) == {b \in 0..63 : Halves(n)[b] % 2 = 1}

Power[k \in 0..30] == IF k = 0 THEN 1 ELSE 2 * Power[k - 1]

Form(set, lo, width, unit, signed, op, mode) ==
  [set |-> set, lo |-> lo, width |-> width, unit |-> unit, signed |-> signed,
   type |-> Type(op, mode)]

Forms64 ==
  {Form({28}, 5, 21, 1, TRUE, "ADR", "none"),
   Form({31, 28}, 5, 21, 4096, TRUE, "ADRP", "none"),
   Form({31, 28, 24}, 10, 12, 1, FALSE, "ADD", "none"),
   Form({30, 28, 24, 22}, 10, 12, 4096, FALSE, "SUB", "none"),
   Form({31, 30, 28, 25, 23}, 5, 16, 1, FALSE, "MOVZ", "none"),
   Form({31, 30, 28, 25, 23, 21}, 5, 16, 65536, FALSE, "MOVZ", "none"),
   Form({31, 30, 29, 28, 27, 24, 22}, 10, 12, 8, FALSE, "LDR", "uimm"),
   Form({29, 28, 27, 24}, 10, 12, 1, FALSE, "STRB", "uimm"),
   Form({31, 29, 28, 27, 24, 23}, 10, 12, 4, FALSE, "LDRSW", "uimm"),
   Form({30, 29, 28, 27, 22, 10}, 12, 9, 1, TRUE, "LDRH", "post"),
   Form({31, 29, 28, 27, 11, 10}, 12, 9, 1, TRUE, "STR", "pre"),
   Form({29, 28, 27, 23}, 12, 9, 1, TRUE, "LDRSB", "unscaled"),
   Form({30, 28, 27}, 5, 19, 4, TRUE, "LDR", "literal"),
   Form({28, 26}, 0, 26, 4, TRUE, "B", "none"),
   Form({31, 28, 26}, 0, 26, 4, TRUE, "BL", "none"),
   Form({30, 28, 26}, 5, 19, 4, TRUE, "B_COND", "none"),
   Form({31, 29, 28, 26}, 5, 19, 4, TRUE, "CBZ", "none"),
   Form({29, 28, 26, 25, 24}, 5, 14, 4, TRUE, "TBNZ", "none")}

\* SUB from the program counter, which the Arm manual also writes as ADR.
SubFromPc == Form({31, 30, 29, 25, 22} \cup 16..19, 0, 8, 1, FALSE, "ADR", "none")

Forms32 ==
  {SubFromPc,
   Form({31, 30, 29, 25, 23}, 0, 8, 1, FALSE, "ADD", "none"),
   Form({31, 30, 29, 25, 23} \cup 16..19, 0, 8, 1, FALSE, "ADR", "none"),
   Form({31, 30, 29, 27, 25}, 0, 24, 4, TRUE, "B", "none"),
   Form({31, 30, 29, 27, 25, 24}, 0, 24, 4, TRUE, "BL", "none"),
   Form({31, 30, 29, 26, 24, 23, 20} \cup 16..19, 0, 12, 1, FALSE, "LDR_LITERAL", "none")}

Fits(f, n) ==
  /\ n % f.unit = 0
  /\ n \div f.unit \in IF f.signed THEN (-Power[f.width - 1])..(Power[f.width - 1] - 1)
                                 ELSE 0..(Power[f.width] - 1)

\* The two low bits of the operand of ADR and ADRP stand apart.
Assemble(f, n) ==
  LET field == IntBits(n \div f.unit) \cap 0..(f.width - 1)
  IN f.set \cup (IF f.width = 21
                 THEN {b + 3 : b \in field \ 0..1} \cup {b + 29 : b \in field \cap 0..1}
                 ELSE {b + f.lo : b \in field})

-----------------------------------------------------------------------------
Init ==
  /\ isa \in {"A64", "A32"}
  /\ \/ /\ word \in Words
        /\ \E n \in Addresses : address = IntBits(n)
        /\ meant = None
     \/ \E f \in IF isa = "A64" THEN Forms64 ELSE Forms32, n \in Values, at \in Addresses :
          /\ Fits(f, n)
          /\ word = Assemble(f, n)
          /\ address = IntBits(at)
          /\ meant = [form |-> f, operand |-> n, at |-> at]
  /\ insn = None
  /\ imms = None

decodeInsn ==
  /\ insn = None
  /\ IF isa = "A64" THEN insn' \in Insns64(word, address)
                    ELSE insn' = Insn32(word, address)
  /\ UNCHANGED <<said, imms>>

AskArm64 ==
  /\ isa = "A64"
  /\ imms = None
  /\ imms' = Arm64Answers(word)
  /\ UNCHANGED <<said, insn>>

Next == decodeInsn \/ AskArm64

Spec == Init /\ [][Next]_vars

-----------------------------------------------------------------------------
(* Properties                                                              *)

Ops ==
  {"UNKNOWN", "ADR", "ADRP", "ADD", "SUB", "MOV", "MOVZ", "MOVK", "MOVN",
   "STRB", "STRH", "STRW", "STR", "LDRB", "LDRH", "LDRW", "LDR", "LDRSB", "LDRSH", "LDRSW",
   "LDR_LITERAL", "B", "BL", "B_COND", "CBZ", "CBNZ", "TBZ", "TBNZ"}
Modes == {"none", "uimm", "post", "pre", "unscaled", "literal"}
Width == IF isa = "A64" THEN 0..63 ELSE 0..31

\* The types of the variables; what the Arm decoder answers has 32 bits.
TypeOK ==
  /\ word \subseteq 0..31
  /\ address \subseteq 0..63
  /\ isa \in {"A64", "A32"}
  /\ insn # None =>
       insn \in [type : [op : Ops, mode : Modes], immediate : SUBSET Width,
                target : SUBSET Width, bitpos : SUBSET (0..5)]
  /\ imms # None => isa = "A64"

\* The sizes and opc fields that have no type in KittyAsm.cpp: PRFM, and what
\* the architecture leaves open.
Nameless(w) == {31, 23} \subseteq w /\ {30, 22} \cap w # {}

\* Where the two AArch64 decoders, written apart (decodeInsn of KittyAsm.cpp,
\* the functions of KittyArm64.cpp) and both used to follow references in code,
\* tell the same of a word, and where they part.  ADR and ADRP: always the
\* same.  The immediate of an ADD or SUB: the same unless its bits 22 and 23
\* are both set, which is no instruction.  Loads and stores with an unsigned
\* offset: the same instructions with the same immediates, but for those of
\* SIMD registers (bit 26) and the nameless, which only KittyArm64.cpp knows.
\* Every load or store with a type is one for is_insn_ldst; not the other way
\* round (pairs, exclusives and SIMD have no type).  is_insn_ld tells the loads
\* from the stores with a type when bit 23 is clear, but takes literal loads for
\* stores; of those that extend a sign (bit 23) it knows half.
DecodersAgree ==
  insn # None /\ imms # None =>
    /\ imms.is_adr <=> insn.type.op \in {"ADR", "ADRP"}
    /\ imms.is_adr => imms.adr = insn.immediate
    /\ insn.type.op \in {"ADD", "SUB"} /\ ~({22, 23} \subseteq word) =>
         imms.addsub = insn.immediate
    /\ insn.type.mode = "uimm" <=> imms.is_uimm /\ 26 \notin word /\ ~Nameless(word)
    /\ insn.type.mode = "uimm" => imms.uimm = insn.immediate
    /\ insn.type.mode # "none" => imms.ldst
    /\ insn.type.mode \notin {"none", "literal"} /\ 23 \notin word =>
         (imms.ld <=> insn.type.op \in {"LDRB", "LDRH", "LDRW", "LDR"})

\* An instruction assembled from one of the forms listed and an operand that
\* fits it is decoded to that form, operand and target: over those forms no
\* width, shift or sign of decodeInsn is off at any boundary, with two
\* exceptions.  Literals behind the address or 512 KB ahead of it are not known
\* by the masks of decodeInsnType; and the target of a SUB from the program
\* counter is the sum.  MOVZ is listed for the two lower half-words, where the
\* shift of its immediate is defined.
ReadsBack ==
  meant # None /\ insn # None =>
    LET form == meant.form
        n == meant.operand
        base == CASE isa = "A32" -> meant.at + 8
                  [] form.type.op = "ADRP" -> meant.at - (meant.at % 4096)
                  [] OTHER -> meant.at
        whole(v) == v \cap Width
        pcRelative ==
          \/ form.type.mode = "literal"
          \/ form.type.op \in {"ADR", "ADRP", "LDR_LITERAL", "B", "BL", "B_COND", "CBZ", "TBNZ"}
    IN (form.type.mode = "literal" => n \in 0..(Power[19] - 1)) =>
          /\ insn.type = form.type
          /\ insn.immediate = whole(IntBits(n))
          /\ pcRelative /\ form # SubFromPc => insn.target = whole(IntBits(base + n))
=============================================================================
