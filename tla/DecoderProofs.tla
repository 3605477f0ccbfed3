---------------------------- MODULE DecoderProofs ----------------------------
(***************************************************************************)
(* The agreement of the two AArch64 decoders, for every word and address;  *)
(* the types; and that what is assembled is read back, for which the       *)
(* operations on bits are shown to be those of integers.                   *)
(***************************************************************************)
EXTENDS Decoders, WellFoundedInduction, TLAPS

\* What has been answered was computed from the word.
AnswersInv ==
  /\ insn # None /\ isa = "A64" => insn \in Insns64(word, address)
  /\ imms # None => isa = "A64" /\ imms = Arm64Answers(word)

Loads == {"LDRB", "LDRH", "LDRW", "LDR"}
Stores == {"STRB", "STRH", "STRW", "STR"}
Extending == {"LDRSB", "LDRSH", "LDRSW", "none"}

LEMMA AccessKinds ==
  ASSUME NEW w
  PROVE  /\ 23 \notin w /\ 22 \in w => Access(w) \in Loads
         /\ 23 \notin w /\ 22 \notin w => Access(w) \in Stores
         /\ 23 \in w => Access(w) \in Extending
<1>1. Size(w) + 1 \in 1..4
  BY DEF Size, Bit
<1>2. /\ \A n \in 1..4 : <<"STRB", "STRH", "STRW", "STR">>[n] \in Stores
      /\ \A n \in 1..4 : <<"LDRB", "LDRH", "LDRW", "LDR">>[n] \in Loads
      /\ \A n \in 1..4 : <<"LDRSB", "LDRSH", "LDRSW", "none">>[n] \in Extending
      /\ \A n \in 1..4 : <<"LDRSB", "LDRSH", "none", "none">>[n] \in Extending
  BY DEF Stores, Loads, Extending
<1>3. QED
  BY <1>1, <1>2 DEF Access, Bit

LEMMA IndexedKinds ==
  ASSUME NEW w
  PROVE  /\ 23 \notin w /\ 22 \in w => Indexed(w) \in Loads
         /\ 23 \notin w /\ 22 \notin w => Indexed(w) \in Stores
         /\ 23 \in w => Indexed(w) \in Extending
  BY AccessKinds DEF Indexed, Loads, Stores, Extending

Scaled(w) == Under(w, 24..29, {29, 28, 27, 24})

\* What is known of a word whose type is that of a load or store.
LEMMA LoadStoreTypes ==
  ASSUME NEW w, NEW t, t = LoadStoreType(w)
  PROVE  \/ t = Type(Access(w), "uimm") /\ Access(w) # "none" /\ Scaled(w)
         \/ /\ t.mode \in {"post", "pre", "unscaled"}
            /\ t.op \in {Access(w), Indexed(w)}
            /\ Access(w) # "none"
            /\ {29, 28, 27} \subseteq w /\ 25 \notin w
         \/ t.mode = "literal" /\ t.op \in {"LDRW", "LDR", "LDRSW"}
         \/ t = UNKNOWN
<1>1. CASE Access(w) # "none" /\ Scaled(w)
  BY <1>1 DEF LoadStoreType, Scaled, Under
<1>2. CASE Access(w) # "none" /\ Under(w, 24..29 \cup {11, 10}, {29, 28, 27, 10})
  <2>1. t = Type(Indexed(w), "post")
    BY <1>2 DEF LoadStoreType, Under
  <2>2. {29, 28, 27} \subseteq w /\ 25 \notin w
    BY <1>2 DEF Under
  <2> QED BY <1>2, <2>1, <2>2 DEF Type
<1>3. CASE Access(w) # "none" /\ Under(w, 24..29 \cup {11, 10}, {29, 28, 27, 11, 10})
  <2>1. t = Type(Indexed(w), "pre")
    BY <1>3 DEF LoadStoreType, Under
  <2>2. {29, 28, 27} \subseteq w /\ 25 \notin w
    BY <1>3 DEF Under
  <2> QED BY <1>3, <2>1, <2>2 DEF Type
<1>4. CASE Access(w) # "none" /\ Under(w, 24..29, {29, 28, 27}) /\ 10 \notin w
  <2>1. t = Type(Access(w), "unscaled")
    BY <1>4 DEF LoadStoreType, Under
  <2>2. {29, 28, 27} \subseteq w /\ 25 \notin w
    BY <1>4 DEF Under
  <2> QED BY <1>4, <2>1, <2>2 DEF Type
<1>5. CASE /\ ~(Access(w) # "none" /\ Scaled(w))
           /\ ~(Access(w) # "none" /\ Under(w, 24..29 \cup {11, 10}, {29, 28, 27, 10}))
           /\ ~(Access(w) # "none" /\ Under(w, 24..29 \cup {11, 10}, {29, 28, 27, 11, 10}))
           /\ ~(Access(w) # "none" /\ Under(w, 24..29, {29, 28, 27}) /\ 10 \notin w)
  BY <1>5 DEF LoadStoreType, Scaled, Type
<1> QED BY <1>1, <1>2, <1>3, <1>4, <1>5

Branches == {"B", "BL", "B_COND", "CBZ", "CBNZ", "TBZ", "TBNZ"}

LEMMA BranchTypes ==
  ASSUME NEW w
  PROVE  \/ BranchType(w) = UNKNOWN
         \/ /\ BranchType(w).op \in Branches
            /\ BranchType(w).mode = "none"
<1>1. BranchType(w) \in {UNKNOWN} \cup {Type(op, "none") : op \in Branches}
  BY DEF BranchType, Branches
<1> QED BY <1>1 DEF Type

Immediates == {"ADD", "SUB", "MOVZ", "MOVK", "MOVN"}

\* ADR and ADRP are tested first; every other type comes from one of the other
\* three groups.
LEMMA TypeGroups ==
  ASSUME NEW w, NEW t, t = decodeInsnType(w)
  PROVE  \/ is_insn_adr(w) /\ t = Type("ADR", "none")
         \/ is_insn_adrp(w) /\ t = Type("ADRP", "none")
         \/ /\ ~is_insn_adr(w) /\ ~is_insn_adrp(w)
            /\ \/ t \in {Type(op, "none") : op \in Immediates}
               \/ t = LoadStoreType(w) /\ t # UNKNOWN
               \/ t = BranchType(w)
<1>1. CASE is_insn_adr(w)
  <2>1. 24 \notin w /\ 25 \notin w /\ 28 \in w
    BY <1>1 DEF is_insn_adr, Under
  <2>2. /\ ~Under(w, 24..30, {28, 24}) /\ ~Under(w, 24..30, {30, 28, 24})
        /\ ~Under(w, 23..30, {30, 28, 25, 23}) /\ ~Under(w, 23..30, {30, 29, 28, 25, 23})
        /\ ~Under(w, 23..30, {28, 25, 23})
    BY <2>1 DEF Under
  <2>3. ~is_insn_adrp(w)
    BY <1>1 DEF is_insn_adr, is_insn_adrp, Under
  <2>4. t = Type("ADR", "none")
    BY <1>1, <2>2, <2>3 DEF decodeInsnType, is_insn_adr, is_insn_adrp
  <2> QED BY <1>1, <2>4
<1>2. CASE is_insn_adrp(w)
  <2>1. 24 \notin w /\ 25 \notin w /\ 28 \in w
    BY <1>2 DEF is_insn_adrp, Under
  <2>2. /\ ~Under(w, 24..30, {28, 24}) /\ ~Under(w, 24..30, {30, 28, 24})
        /\ ~Under(w, 23..30, {30, 28, 25, 23}) /\ ~Under(w, 23..30, {30, 29, 28, 25, 23})
        /\ ~Under(w, 23..30, {28, 25, 23})
    BY <2>1 DEF Under
  <2>3. ~is_insn_adr(w)
    BY <1>2 DEF is_insn_adr, is_insn_adrp, Under
  <2>4. t = Type("ADRP", "none")
    BY <1>2, <2>2, <2>3 DEF decodeInsnType, is_insn_adr, is_insn_adrp
  <2> QED BY <1>2, <2>4
<1>3. CASE ~is_insn_adr(w) /\ ~is_insn_adrp(w)
  BY <1>3 DEF decodeInsnType, is_insn_adr, is_insn_adrp, Immediates
<1> QED BY <1>1, <1>2, <1>3

LEMMA AdrImmediates ==
  ASSUME NEW w
  PROVE  LET adr == signExtend(Shl(bits(w, 23, 5), 2) \cup bits(w, 30, 29), 21)
         IN /\ is_insn_adr(w) => decode_adr_imm(w) = adr
            /\ is_insn_adrp(w) => decode_adr_imm(w) = Shl(adr, 12)
<1> DEFINE imm == Shl(bits(w, 23, 5), 2) \cup bits(w, 30, 29)
<1>1. /\ bits_from(w, 5, 19) = bits(w, 23, 5)
      /\ bits_from(w, 29, 2) = bits(w, 30, 29)
  BY DEF bits, bits_from
<1>2. is_insn_adr(w) => ~is_insn_adrp(w)
  BY DEF is_insn_adr, is_insn_adrp, Under
<1>3. is_insn_adr(w) => decode_adr_imm(w) = signExtend(imm, 21)
  BY <1>1, <1>2 DEF decode_adr_imm, signExtend
<1>4. is_insn_adrp(w) => decode_adr_imm(w) = Shl(signExtend(imm, 21), 12)
  <2>1. Shl(imm \cup 21..63, 12) = Shl(imm, 12) \cup 33..63
    BY DEF Shl
  <2> QED BY <1>1, <2>1 DEF decode_adr_imm, signExtend
<1> QED BY <1>3, <1>4

\* The operations and modes of a load or store keep it apart from everything else.
LEMMA LoadStoreFacts ==
  ASSUME NEW w, NEW t, t = LoadStoreType(w), t # UNKNOWN
  PROVE  /\ t.op \in Loads \cup Stores \cup Extending
         /\ t.op \notin {"ADR", "ADRP", "ADD", "SUB"}
         /\ t.mode = "uimm" => Scaled(w)
         /\ t.mode \in {"uimm", "post", "pre", "unscaled"} =>
              /\ Under(w, {27, 25}, {27})
              /\ 23 \notin w => (22 \in w <=> t.op \in Loads)
<1>1. t.op \in Loads \cup Stores \cup Extending
  BY LoadStoreTypes, AccessKinds, IndexedKinds DEF Type, Loads, Stores, Extending
<1>2. t.mode = "uimm" => Scaled(w)
  BY LoadStoreTypes DEF Type
<1>3. ASSUME t.mode \in {"uimm", "post", "pre", "unscaled"}
      PROVE  /\ Under(w, {27, 25}, {27})
             /\ t.op \in {Access(w), Indexed(w)}
  BY <1>3, LoadStoreTypes DEF Type, Scaled, Under
<1>4. ASSUME t.mode \in {"uimm", "post", "pre", "unscaled"}, 23 \notin w
      PROVE  22 \in w <=> t.op \in Loads
  BY <1>3, <1>4, AccessKinds, IndexedKinds DEF Loads, Stores
<1> QED
  BY <1>1, <1>2, <1>3, <1>4 DEF Loads, Stores, Extending

\* The bits that have no type.
LEMMA NamelessKinds == ASSUME NEW w PROVE Access(w) = "none" <=> Nameless(w)
<1>1. CASE 23 \notin w
  BY <1>1, AccessKinds DEF Nameless, Loads, Stores
<1>2. CASE 23 \in w /\ 31 \notin w
  <2>1. Size(w) + 1 \in {1, 2}
    BY <1>2 DEF Size, Bit
  <2>2. Access(w) \in {"LDRSB", "LDRSH"}
    BY <1>2, <2>1 DEF Access, Bit
  <2> QED
    BY <1>2, <2>2 DEF Nameless
<1>3. CASE 23 \in w /\ 31 \in w /\ 30 \in w
  <2>1. Size(w) + 1 = 4
    BY <1>3 DEF Size, Bit
  <2>2. Access(w) = "none"
    BY <1>3, <2>1 DEF Access, Bit
  <2> QED
    BY <1>3, <2>2 DEF Nameless
<1>4. CASE 23 \in w /\ 31 \in w /\ 30 \notin w
  <2>1. Size(w) + 1 = 3
    BY <1>4 DEF Size, Bit
  <2>2. Access(w) = IF 22 \in w THEN "none" ELSE "LDRSW"
    BY <1>4, <2>1 DEF Access, Bit
  <2> QED
    BY <1>4, <2>2 DEF Nameless
<1> QED
  BY <1>1, <1>2, <1>3, <1>4

\* Which words are loads and stores with an unsigned offset for decodeInsnType,
\* by the test of KittyArm64.cpp.
LEMMA UnsignedOffsets ==
  ASSUME NEW w, NEW t, t = decodeInsnType(w)
  PROVE  t.mode = "uimm" <=> is_insn_ldst_uimm(w) /\ 26 \notin w /\ ~Nameless(w)
<1>1. Scaled(w) <=> is_insn_ldst_uimm(w) /\ 26 \notin w
  BY DEF Scaled, is_insn_ldst_uimm, Under
<1>2. ASSUME Scaled(w), Access(w) # "none" PROVE t.mode = "uimm"
  <2>1. LoadStoreType(w) = Type(Access(w), "uimm")
    BY <1>2 DEF LoadStoreType, Scaled, Under
  <2>2. 27 \in w
    BY <1>2 DEF Scaled, Under
  <2>3. /\ ~is_insn_adr(w) /\ ~is_insn_adrp(w)
        /\ ~Under(w, 24..30, {28, 24}) /\ ~Under(w, 24..30, {30, 28, 24})
        /\ ~Under(w, 23..30, {30, 28, 25, 23}) /\ ~Under(w, 23..30, {30, 29, 28, 25, 23})
        /\ ~Under(w, 23..30, {28, 25, 23})
    BY <2>2 DEF Under, is_insn_adr, is_insn_adrp
  <2>4. LoadStoreType(w) # UNKNOWN
    BY <2>1 DEF UNKNOWN, Type
  <2>5. t = LoadStoreType(w)
    BY <2>3, <2>4 DEF decodeInsnType, is_insn_adr, is_insn_adrp
  <2> QED
    BY <2>1, <2>5 DEF Type
<1>3. ASSUME t.mode = "uimm" PROVE Scaled(w) /\ Access(w) # "none"
  <2>1. t = LoadStoreType(w)
    BY <1>3, TypeGroups, BranchTypes DEF Type, UNKNOWN
  <2> QED
    BY <1>3, <2>1, LoadStoreTypes DEF Type, UNKNOWN
<1> QED
  BY <1>1, <1>2, <1>3, NamelessKinds

\* A literal load is among those that KittyArm64.cpp takes for loads and stores.
LEMMA LiteralPlaces ==
  ASSUME NEW w, LoadStoreType(w).mode = "literal"
  PROVE  Under(w, {27, 25}, {27})
<1>1. \/ Under(w, 22..31, {28, 27}) \/ Under(w, 22..31, {30, 28, 27})
      \/ Under(w, 22..31, {31, 28, 27})
  BY DEF LoadStoreType, Type, UNKNOWN
<1> QED
  BY <1>1 DEF Under

\* The agreement, as a fact about words.
LEMMA Agreement ==
  ASSUME NEW w, NEW a, NEW i \in Insns64(w, a), NEW r, r = Arm64Answers(w)
  PROVE  /\ r.is_adr <=> i.type.op \in {"ADR", "ADRP"}
         /\ r.is_adr => r.adr = i.immediate
         /\ i.type.op \in {"ADD", "SUB"} /\ ~({22, 23} \subseteq w) => r.addsub = i.immediate
         /\ i.type.mode = "uimm" <=> r.is_uimm /\ 26 \notin w /\ ~Nameless(w)
         /\ i.type.mode = "uimm" => r.uimm = i.immediate
         /\ i.type.mode # "none" => r.ldst
         /\ i.type.mode \notin {"none", "literal"} /\ 23 \notin w =>
              (r.ld <=> i.type.op \in Loads)
<1> DEFINE t == decodeInsnType(w)
           adr == signExtend(Shl(bits(w, 23, 5), 2) \cup bits(w, 30, 29), 21)
<1>1. i.type = t /\ i.immediate \in Immediates64(w, t)
  BY DEF Insns64
<1>2. /\ r.is_adr <=> is_insn_adr(w) \/ is_insn_adrp(w)
      /\ r.is_adr => r.adr = decode_adr_imm(w)
      /\ r.addsub = decode_addsub_imm(w)
      /\ r.is_uimm <=> is_insn_ldst_uimm(w)
      /\ r.is_uimm => r.uimm = decode_ldrstr_uimm(w)
      /\ r.ldst <=> is_insn_ldst(w)
      /\ r.ld <=> is_insn_ld(w)
  BY DEF Arm64Answers
<1>u. i.type.mode = "uimm" <=> r.is_uimm /\ 26 \notin w /\ ~Nameless(w)
  BY <1>1, <1>2, UnsignedOffsets
<1>3. CASE is_insn_adr(w) /\ t = Type("ADR", "none")
  <2>1. i.immediate = adr
    BY <1>1, <1>3 DEF Immediates64, Type, UNKNOWN
  <2> QED BY <1>1, <1>2, <1>3, <1>u, <2>1, AdrImmediates DEF Type
<1>4. CASE is_insn_adrp(w) /\ t = Type("ADRP", "none")
  <2>1. i.immediate = Shl(adr, 12)
    BY <1>1, <1>4 DEF Immediates64, Type, UNKNOWN
  <2> QED BY <1>1, <1>2, <1>4, <1>u, <2>1, AdrImmediates DEF Type
<1>5. CASE /\ ~is_insn_adr(w) /\ ~is_insn_adrp(w)
           /\ t \in {Type(op, "none") : op \in Immediates}
  <2>1. ASSUME t.op \in {"ADD", "SUB"}, ~({22, 23} \subseteq w)
        PROVE  i.immediate = decode_addsub_imm(w)
    <3>1. bits_from(w, 10, 12) = bits(w, 21, 10)
      BY DEF bits, bits_from
    <3>2. Under(w, {23, 22}, {22}) <=> 22 \in w
      BY <2>1 DEF Under
    <3> QED BY <1>1, <1>5, <2>1, <3>1, <3>2 DEF Immediates64, Type, UNKNOWN, decode_addsub_imm
  <2> QED BY <1>1, <1>2, <1>5, <1>u, <2>1 DEF Type, Immediates
<1>6. CASE /\ ~is_insn_adr(w) /\ ~is_insn_adrp(w)
           /\ t = LoadStoreType(w) /\ t # UNKNOWN
  <2>1. ASSUME t.mode = "uimm"
        PROVE  is_insn_ldst_uimm(w) /\ decode_ldrstr_uimm(w) = i.immediate
    <3>1. is_insn_ldst_uimm(w)
      BY <1>6, <2>1, LoadStoreFacts DEF Scaled, is_insn_ldst_uimm, Under
    <3>2. bits_from(w, 10, 12) = bits(w, 21, 10)
      BY DEF bits, bits_from
    <3>3. t.op \notin {"ADR", "ADRP", "MOVZ", "MOVK", "MOVN", "ADD", "SUB",
                      "B", "BL", "TBZ", "TBNZ"}
      BY <1>6, LoadStoreFacts DEF Loads, Stores, Extending
    <3>4. \A x : x # UNKNOWN /\ x.mode = "uimm"
                /\ x.op \notin {"ADR", "ADRP", "MOVZ", "MOVK", "MOVN", "ADD", "SUB",
                               "B", "BL", "TBZ", "TBNZ"} =>
            Immediates64(w, x) = {Shl(bits(w, 21, 10), Size(w))}
      BY DEF Immediates64
    <3>5. i.immediate = Shl(bits(w, 21, 10), Size(w))
      BY <1>1, <1>6, <2>1, <3>3, <3>4
    <3> QED BY <3>1, <3>2, <3>5 DEF decode_ldrstr_uimm
  <2>2. t.mode # "none" => t.mode \in {"uimm", "post", "pre", "unscaled", "literal"}
    BY <1>6, LoadStoreTypes DEF Type
  <2>3. t.mode # "none" => is_insn_ldst(w)
    BY <1>6, <2>2, LoadStoreFacts, LiteralPlaces DEF is_insn_ldst
  <2>4. t.mode \notin {"none", "literal"} /\ 23 \notin w => (is_insn_ld(w) <=> t.op \in Loads)
    BY <1>6, <2>2, LoadStoreFacts DEF is_insn_ld
  <2>5. t.op \notin {"ADR", "ADRP", "ADD", "SUB"}
    BY <1>6, LoadStoreFacts
  <2> HIDE DEF t
  <2> QED BY <1>1, <1>2, <1>6, <1>u, <2>1, <2>3, <2>4, <2>5
<1>7. CASE /\ ~is_insn_adr(w) /\ ~is_insn_adrp(w)
           /\ t = BranchType(w)
  <2>1. t.op \notin {"ADR", "ADRP", "ADD", "SUB"} /\ t.mode = "none"
    BY <1>7, BranchTypes DEF Branches, UNKNOWN, Type
  <2> QED BY <1>1, <1>2, <1>7, <1>u, <2>1
<1> QED BY <1>3, <1>4, <1>5, <1>6, <1>7, TypeGroups

\* For every word, and not for the words of a run alone: the two decoders agree
\* on it or it is one of the exceptions that DecodersAgree names.
THEOREM TwoDecoders == Spec => []DecodersAgree
<1>1. Init => AnswersInv
  BY DEF Init, AnswersInv
<1>2. AnswersInv /\ [Next]_vars => AnswersInv'
  <2> SUFFICES ASSUME AnswersInv, [Next]_vars PROVE AnswersInv'
    OBVIOUS
  <2>1. CASE decodeInsn
    BY <2>1 DEF decodeInsn, AnswersInv, said
  <2>2. CASE AskArm64
    BY <2>2 DEF AskArm64, AnswersInv, said
  <2>3. CASE UNCHANGED vars
    BY <2>3 DEF AnswersInv, vars, said
  <2> QED BY <2>1, <2>2, <2>3 DEF Next
<1>3. AnswersInv => DecodersAgree
  BY Agreement DEF AnswersInv, DecodersAgree, Loads
<1> QED BY <1>1, <1>2, <1>3, PTL DEF Spec

-----------------------------------------------------------------------------
(* Types                                                                   *)

\* The operations on bits stay within 64 of them, those of a word within 32.
LEMMA BitTypes ==
  /\ \A v, n : Shl(v, n) \subseteq 0..63
  /\ \A v : Not(v) \subseteq 0..63
  /\ \A v : Low(v) \subseteq 0..31
  /\ \A v, n : ror32(v, n) \subseteq 0..31
  /\ \A a, b : Plus(a, b) \subseteq 0..63
  /\ \A v : Minus(v) \subseteq 0..63
  /\ \A v, hi, lo : bits(v, hi, lo) \subseteq 0..(hi - lo)
  BY DEF Shl, Not, Low, ror32, Plus, Minus, bits

LEMMA ExtendTypes ==
  ASSUME NEW v, v \subseteq 0..63, NEW n \in Nat
  PROVE  signExtend(v, n) \subseteq 0..63
  BY DEF signExtend

LEMMA DisplacementTypes == \A w, hi, lo : Displacement(w, hi, lo) \subseteq 0..63
  BY BitTypes DEF Displacement

LEMMA MovTypes ==
  ASSUME NEW w, NEW imm \in MovImmediates(w)
  PROVE  imm \subseteq 0..63
<1>1. bits(w, 20, 5) \subseteq 0..15
  BY DEF bits
<1>2. \A v : Low(v) \subseteq 0..63
  BY DEF Low
<1> QED
  BY <1>1, <1>2, BitTypes DEF MovImmediates

LEMMA Immediate64Types ==
  ASSUME NEW w, NEW t, NEW imm \in Immediates64(w, t)
  PROVE  imm \subseteq 0..63
<1> DEFINE adr == signExtend(Shl(bits(w, 23, 5), 2) \cup bits(w, 30, 29), 21)
           imm12 == bits(w, 21, 10)
           imm9 == signExtend(bits(w, 20, 12), 9)
<1>1. adr \subseteq 0..63
  <2>1. Shl(bits(w, 23, 5), 2) \cup bits(w, 30, 29) \subseteq 0..63
    BY BitTypes DEF bits
  <2> QED
    BY <2>1, ExtendTypes
<1>2. imm12 \subseteq 0..63
  BY DEF bits
<1>3. imm9 \subseteq 0..63
  <2>1. bits(w, 20, 12) \subseteq 0..63
    BY DEF bits
  <2> QED
    BY <2>1, ExtendTypes
<1>4. \/ imm \in MovImmediates(w)
      \/ \E m \in MovImmediates(w) : imm = Not(m)
      \/ imm \in {{}, adr, Shl(adr, 12), imm12, Shl(imm12, 12), Shl(imm12, Size(w)), imm9,
                  Displacement(w, 25, 0), Displacement(w, 18, 5), Displacement(w, 23, 5)}
  <2> HIDE DEF adr, imm12, imm9
  <2> QED
    BY DEF Immediates64, adr, imm12, imm9
<1>5. ASSUME imm \in MovImmediates(w) PROVE imm \subseteq 0..63
  BY <1>5, MovTypes
<1>6. ASSUME \E m \in MovImmediates(w) : imm = Not(m) PROVE imm \subseteq 0..63
  BY <1>6, BitTypes
<1> HIDE DEF adr, imm12, imm9
<1>7. ASSUME imm \in {{}, adr, Shl(adr, 12), imm12, Shl(imm12, 12), Shl(imm12, Size(w)), imm9,
                      Displacement(w, 25, 0), Displacement(w, 18, 5), Displacement(w, 23, 5)}
      PROVE  imm \subseteq 0..63
  <2>1. /\ Shl(adr, 12) \subseteq 0..63
        /\ Shl(imm12, 12) \subseteq 0..63
        /\ Shl(imm12, Size(w)) \subseteq 0..63
    BY BitTypes
  <2>2. /\ Displacement(w, 25, 0) \subseteq 0..63
        /\ Displacement(w, 18, 5) \subseteq 0..63
        /\ Displacement(w, 23, 5) \subseteq 0..63
    BY DisplacementTypes
  <2> QED
    BY <1>1, <1>2, <1>3, <1>7, <2>1, <2>2, Zenon
<1> QED
  BY <1>4, <1>5, <1>6, <1>7

LEMMA OpTypes ==
  ASSUME NEW w
  PROVE  decodeInsnType(w) \in [op : Ops, mode : Modes]
<1> DEFINE t == decodeInsnType(w)
<1>1. \A op \in Ops, mode \in Modes : Type(op, mode) \in [op : Ops, mode : Modes]
  BY DEF Type
<1>2. UNKNOWN \in [op : Ops, mode : Modes]
  BY DEF UNKNOWN, Type, Ops, Modes
<1>3. CASE \E op \in Immediates \cup {"ADR", "ADRP"} : t = Type(op, "none")
  BY <1>1, <1>3 DEF Ops, Modes, Immediates
<1>4. CASE t = BranchType(w)
  <2>1. t \in {UNKNOWN} \cup {Type(op, "none") : op \in Branches}
    BY <1>4 DEF BranchType, Branches
  <2> QED
    BY <2>1, <1>1, <1>2 DEF Ops, Modes, Branches
<1>5. CASE t = LoadStoreType(w) /\ t # UNKNOWN
  <2>1. Access(w) \in Loads \cup Stores \cup Extending
    BY AccessKinds
  <2>2. Access(w) # "none" => Access(w) \in Ops
    BY <2>1 DEF Loads, Stores, Extending, Ops
  <2>3. Access(w) # "none" => Indexed(w) \in Ops
    BY <2>2 DEF Indexed, Ops
  <2>4. \/ t \in {Type(Access(w), "uimm"), Type(Access(w), "unscaled")} /\ Access(w) # "none"
        \/ t \in {Type(Indexed(w), "post"), Type(Indexed(w), "pre")} /\ Access(w) # "none"
        \/ t \in {Type("LDRW", "literal"), Type("LDR", "literal"), Type("LDRSW", "literal")}
    BY <1>5 DEF LoadStoreType
  <2>5. {"uimm", "unscaled", "post", "pre", "literal"} \subseteq Modes
        /\ {"LDRW", "LDR", "LDRSW"} \subseteq Ops
    BY DEF Modes, Ops
  <2> QED
    BY <2>2, <2>3, <2>4, <2>5, <1>1
<1>6. \/ \E op \in Immediates \cup {"ADR", "ADRP"} : t = Type(op, "none")
      \/ t = BranchType(w)
      \/ t = LoadStoreType(w) /\ t # UNKNOWN
  BY TypeGroups
<1> QED
  BY <1>3, <1>4, <1>5, <1>6

\* What decodeInsn answers for an AArch64 word.
LEMMA Insn64Types ==
  ASSUME NEW w, NEW a, NEW i \in Insns64(w, a)
  PROVE  i \in [type : [op : Ops, mode : Modes], immediate : SUBSET (0..63),
                target : SUBSET (0..63), bitpos : SUBSET (0..5)]
<1> DEFINE t == decodeInsnType(w)
           bitpos == IF t.op \in {"TBZ", "TBNZ"}
                     THEN bits(w, 23, 19) \cup (IF 31 \in w THEN {5} ELSE {})
                     ELSE {}
<1>1. PICK imm \in Immediates64(w, t) :
        i = [type |-> t, immediate |-> imm, target |-> Target64(t, a, imm), bitpos |-> bitpos]
  BY DEF Insns64
<1>2. imm \subseteq 0..63
  BY Immediate64Types
<1>3. Target64(t, a, imm) \subseteq 0..63
  BY BitTypes DEF Target64
<1>4. bitpos \subseteq 0..5
  BY DEF bits
<1> HIDE DEF bitpos
<1> QED
  BY <1>1, <1>2, <1>3, <1>4, OpTypes

LEMMA Insn32Types ==
  ASSUME NEW w, NEW a
  PROVE  Insn32(w, a) \in [type : [op : Ops, mode : Modes], immediate : SUBSET (0..31),
                           target : SUBSET (0..31), bitpos : SUBSET (0..5)]
<1> DEFINE op == decodeInsnType32(w)
           imm == Immediate32(w, op)
<1>1. op \in Ops
  <2>1. AluType(w) \in {"ADR", "ADD", "SUB", "MOV", "UNKNOWN"}
    BY DEF AluType
  <2>2. TransferType(w) \in {"LDR_LITERAL", "LDR", "STR", "LDRB", "STRB", "LDRH", "STRH",
                             "LDRSB", "LDRSH", "UNKNOWN"}
    BY DEF TransferType
  <2>3. op \in {AluType(w), TransferType(w), "B", "B_COND", "BL", "UNKNOWN"}
    BY DEF decodeInsnType32
  <2> QED
    BY <2>1, <2>2, <2>3 DEF Ops
<1>2. imm \subseteq 0..31
  <2> DEFINE signed(v) == IF 23 \in w THEN v ELSE Low(Minus(v))
             rot == 2 * (8 * Bit(w, 11) + 4 * Bit(w, 10) + 2 * Bit(w, 9) + Bit(w, 8))
  <2>1. \A v : v \subseteq 0..31 => signed(v) \subseteq 0..31
    BY BitTypes
  <2>2. Shl(bits(w, 11, 8), 4) \cup bits(w, 3, 0) \subseteq 0..31 /\ bits(w, 11, 0) \subseteq 0..31
    BY DEF bits, Shl
  <2>3. imm \in {{}, ror32(bits(w, 7, 0), rot), Low(Displacement(w, 23, 0)),
                 signed(Shl(bits(w, 11, 8), 4) \cup bits(w, 3, 0)), signed(bits(w, 11, 0))}
    <3> HIDE DEF op, rot, signed
    <3> QED
      BY DEF Immediate32, rot, signed
  <2> HIDE DEF signed, rot, imm
  <2> QED
    BY <2>1, <2>2, <2>3, BitTypes
<1> DEFINE jumps == \/ op \in {"B", "BL", "B_COND"}
                    \/ OfPc(w) /\ op \notin {"UNKNOWN", "LDRH", "LDRSH", "LDRSB", "STRH"}
           target == IF jumps THEN Low(Plus(Plus(Low(a), {3}), imm)) ELSE {}
<1>3. target \subseteq 0..31
  BY BitTypes
<1>4. Insn32(w, a) = [type |-> Type(op, "none"), immediate |-> imm, bitpos |-> {},
                      target |-> target]
  BY DEF Insn32
<1> HIDE DEF op, imm, target
<1> QED
  BY <1>1, <1>2, <1>3, <1>4 DEF Type, Modes

\* Where the forms have their operands, and that no bit they set is among them.
LEMMA FormPlaces ==
  ASSUME NEW f \in Forms64 \cup Forms32
  PROVE  /\ f.set \subseteq 0..31 /\ f.lo \in Nat /\ f.width \in 1..30 /\ f.lo + f.width <= 32
         /\ f.unit \in {1, 4, 8, 4096, 65536}
         /\ f.width # 21 => \A b \in f.set : b < f.lo \/ b >= f.lo + f.width
         /\ f.width = 21 => f.set \subseteq {28, 31}
<1>1. f.set \subseteq 0..31 /\ f.lo \in Nat /\ f.width \in 1..30 /\ f.lo + f.width <= 32
  BY DEF Forms64, Forms32, SubFromPc, Form
<1>2. f.unit \in {1, 4, 8, 4096, 65536}
  BY DEF Forms64, Forms32, SubFromPc, Form
<1>3. CASE f \in Forms64
  <2>1. f.width # 21 => \A b \in f.set : b < f.lo \/ b >= f.lo + f.width
    BY <1>3 DEF Forms64, Form
  <2>2. f.width = 21 => f.set \subseteq {28, 31}
    BY <1>3 DEF Forms64, Form
  <2> QED
    BY <1>1, <1>2, <2>1, <2>2
<1>4. CASE f \in Forms32
  <2>1. f.width # 21 /\ \A b \in f.set : b < f.lo \/ b >= f.lo + f.width
    BY <1>4 DEF Forms32, SubFromPc, Form
  <2> QED
    BY <1>1, <1>2, <2>1
<1> QED
  BY <1>3, <1>4

LEMMA AssembledTypes ==
  ASSUME NEW f \in Forms64 \cup Forms32, NEW n
  PROVE  Assemble(f, n) \subseteq 0..31
<1> DEFINE field == IntBits(n \div f.unit) \cap 0..(f.width - 1)
<1>1. field \subseteq 0..(f.width - 1)
  OBVIOUS
<1>2. Assemble(f, n) = f.set \cup
        (IF f.width = 21
         THEN {b + 3 : b \in field \ 0..1} \cup {b + 29 : b \in field \cap 0..1}
         ELSE {b + f.lo : b \in field})
  BY DEF Assemble
<1> HIDE DEF field
<1>3. CASE f.width = 21
  BY <1>1, <1>2, <1>3, FormPlaces
<1>4. CASE f.width # 21
  BY <1>1, <1>2, <1>4, FormPlaces
<1> QED
  BY <1>3, <1>4

LEMMA IntBitsTypes == \A n : IntBits(n) \subseteq 0..63
  BY DEF IntBits

\* Every state of the decoders has the types: no immediate or target is wider
\* than what its decoder keeps it in, for every word and address.
THEOREM TypeCorrect == Spec => []TypeOK
<1>1. Init => TypeOK
  <2> SUFFICES ASSUME Init PROVE TypeOK
    OBVIOUS
  <2>1. word \subseteq 0..31 /\ address \subseteq 0..63
    <3>1. CASE word \in Words /\ \E n \in Addresses : address = IntBits(n)
      BY <3>1, DecodersAssumption, IntBitsTypes
    <3>2. CASE \E f \in IF isa = "A64" THEN Forms64 ELSE Forms32, n \in Values, at \in Addresses :
                 /\ word = Assemble(f, n)
                 /\ address = IntBits(at)
      BY <3>2, AssembledTypes, IntBitsTypes
    <3> QED
      BY <3>1, <3>2 DEF Init
  <2> QED
    BY <2>1 DEF Init, TypeOK
<1>2. TypeOK /\ [Next]_vars => TypeOK'
  <2> SUFFICES ASSUME TypeOK, [Next]_vars PROVE TypeOK'
    OBVIOUS
  <2>1. CASE decodeInsn
    <3>1. UNCHANGED <<word, address, isa, imms>>
      BY <2>1 DEF decodeInsn, said
    <3>2. insn' \in [type : [op : Ops, mode : Modes], immediate : SUBSET Width,
                     target : SUBSET Width, bitpos : SUBSET (0..5)]
      BY <2>1, Insn64Types, Insn32Types DEF decodeInsn, Width
    <3> QED
      BY <3>1, <3>2 DEF TypeOK, Width
  <2>2. CASE AskArm64
    BY <2>2 DEF AskArm64, TypeOK, said, Width
  <2>3. CASE UNCHANGED vars
    BY <2>3 DEF TypeOK, vars, said, Width
  <2> QED
    BY <2>1, <2>2, <2>3 DEF Next
<1> QED
  BY <1>1, <1>2, PTL DEF Spec

-----------------------------------------------------------------------------
(* Bits are those of integers                                              *)

\* What holds of 0, and of a number if of the one before, holds up to any bound.
LEMMA UpTo ==
  ASSUME NEW L \in Nat, NEW S, 0 \in S, \A k \in 0..(L - 1) : k \in S => k + 1 \in S
  PROVE  \A k \in 0..L : k \in S
<1> DEFINE N == {k \in 0..L : k \notin S}
           R == OpToRel(<, Nat)
<1> SUFFICES ASSUME N # {} PROVE FALSE
  OBVIOUS
<1>1. N \in SUBSET Nat
  OBVIOUS
<1>2. IsWellFoundedOn(R, Nat)
  BY NatLessThanWellFounded
<1>3. \A x, y \in Nat : x < y => <<x, y>> \in R
  BY DEF OpToRel
<1> HIDE DEF N, R
<1>4. PICK n \in N : \A m \in N : ~(<<m, n>> \in R)
  BY <1>1, <1>2, WFMin
<1>5. n \in 0..L /\ n \notin S /\ n # 0
  BY <1>4 DEF N
<1>6. n - 1 \in 0..(L - 1) /\ n - 1 \in Nat /\ n - 1 < n /\ (n - 1) + 1 = n
  BY <1>5
<1>7. n - 1 \notin N
  BY <1>1, <1>3, <1>4, <1>6
<1> QED
  BY <1>5, <1>6, <1>7 DEF N

\* A function that is defined by its first value and a step exists.
LEMMA StepsExist ==
  ASSUME NEW L \in Nat, NEW a \in Int, NEW G \in [Int -> Int]
  PROVE  \E h \in [0..L -> Int] : h[0] = a /\ \A b \in 0..(L - 1) : h[b + 1] = G[h[b]]
<1> DEFINE Partly(h, l) == /\ h \in [0..L -> Int] /\ h[0] = a
                           /\ \A b \in 0..(L - 1) : b < l => h[b + 1] = G[h[b]]
           S == {l \in 0..L : \E h : Partly(h, l)}
<1>1. 0 \in S
  <2> DEFINE h == [b \in 0..L |-> a]
  <2>1. h \in [0..L -> Int] /\ h[0] = a /\ \A b \in 0..(L - 1) : ~(b < 0)
    OBVIOUS
  <2> HIDE DEF h
  <2>2. Partly(h, 0) /\ 0 \in 0..L
    BY <2>1
  <2> QED
    BY <2>2
<1>2. ASSUME NEW l \in 0..(L - 1), l \in S PROVE l + 1 \in S
  <2>1. PICK h : Partly(h, l)
    BY <1>2
  <2> DEFINE g == [h EXCEPT ![l + 1] = G[h[l]]]
  <2>2. l \in 0..L /\ l + 1 \in 0..L /\ l + 1 # 0
    OBVIOUS
  <2>3. h[l] \in Int /\ G[h[l]] \in Int
    BY <2>1, <2>2
  <2>4. g \in [0..L -> Int] /\ g[0] = a /\ g[l + 1] = G[h[l]]
        /\ \A b \in 0..L : b # l + 1 => g[b] = h[b]
    BY <2>1, <2>2, <2>3
  <2> HIDE DEF g
  <2>5. ASSUME NEW b \in 0..(L - 1), b < l + 1 PROVE g[b + 1] = G[g[b]]
    <3>0. b \in 0..L /\ b + 1 \in 0..L /\ b # l + 1
      BY <2>5
    <3>1. b + 1 \in 0..L /\ g[b] = h[b]
      BY <2>4, <3>0
    <3>2. CASE b = l
      BY <2>4, <3>1, <3>2
    <3>3. CASE b # l
      <4>1. b < l /\ b + 1 # l + 1
        BY <2>5, <3>3
      <4>2. g[b + 1] = h[b + 1] /\ h[b + 1] = G[h[b]]
        BY <2>1, <2>4, <3>1, <4>1
      <4> QED
        BY <3>1, <4>2
    <3> QED
      BY <3>2, <3>3
  <2>6. Partly(g, l + 1)
    BY <2>4, <2>5
  <2> QED
    BY <2>2, <2>6
<1> HIDE DEF S
<1>3. L \in S
  <2>1. L \in 0..L /\ \A k \in 0..L : k \in S
    BY <1>1, <1>2, UpTo
  <2> QED
    BY <2>1
<1>4. PICK h : Partly(h, L)
  BY <1>3 DEF S
<1>5. \A b \in 0..(L - 1) : b < L
  OBVIOUS
<1> QED
  BY <1>4, <1>5

\* The halves of a number, one by one.
LEMMA HalvesAre ==
  ASSUME NEW n \in Int
  PROVE  /\ Halves(n)[0] = n
         /\ \A b \in 0..62 : Halves(n)[b + 1] = Halves(n)[b] \div 2
         /\ \A b \in 0..63 : Halves(n)[b] \in Int
<1> DEFINE G == [x \in Int |-> x \div 2]
           Is(h) == h = [b \in 0..63 |-> IF b = 0 THEN n ELSE h[b - 1] \div 2]
           c == CHOOSE h : Is(h)
<1>1. G \in [Int -> Int] /\ 63 \in Nat
  OBVIOUS
<1>2. \A x \in Int : G[x] = x \div 2
  OBVIOUS
<1> HIDE DEF G
<1>3. PICK h \in [0..63 -> Int] : h[0] = n /\ \A b \in 0..(63 - 1) : h[b + 1] = G[h[b]]
  BY <1>1, StepsExist
<1>4. \A b \in 0..63 : h[b] = IF b = 0 THEN n ELSE h[b - 1] \div 2
  <2> TAKE b \in 0..63
  <2>1. CASE b = 0
    BY <1>3, <2>1
  <2>2. CASE b # 0
    <3>1. b - 1 \in 0..(63 - 1) /\ b - 1 \in 0..63 /\ (b - 1) + 1 = b
      BY <2>2
    <3>2. h[b] = G[h[b - 1]] /\ h[b - 1] \in Int
      BY <1>3, <3>1
    <3> QED
      BY <1>2, <2>2, <3>2
  <2> QED
    BY <2>1, <2>2
<1>5. h = [b \in 0..63 |-> h[b]]
  BY <1>3
<1>6. Is(h)
  BY <1>4, <1>5
<1>7. Is(c)
  BY <1>6
<1>8. Halves(n) = c
  BY DEF Halves
<1> HIDE DEF c
<1>9. c[0] = n /\ \A b \in 0..62 : c[b + 1] = c[b] \div 2
  BY <1>7
<1> HIDE DEF Is
<1> DEFINE S == {b \in 0..63 : c[b] \in Int}
<1>10. 0 \in S
  BY <1>9
<1>11. ASSUME NEW b \in 0..(63 - 1), b \in S PROVE b + 1 \in S
  BY <1>9, <1>11
<1> HIDE DEF S
<1>12. \A b \in 0..63 : b \in S
  BY <1>10, <1>11, UpTo
<1> QED
  BY <1>8, <1>9, <1>12 DEF S

\* The powers of two, one by one.
LEMMA PowersAre ==
  /\ Power[0] = 1
  /\ \A k \in 0..29 : Power[k + 1] = 2 * Power[k]
  /\ \A k \in 0..30 : Power[k] \in Nat \ {0}
<1> DEFINE G == [x \in Int |-> 2 * x]
           Is(h) == h = [k \in 0..30 |-> IF k = 0 THEN 1 ELSE 2 * h[k - 1]]
           c == CHOOSE h : Is(h)
<1>1. G \in [Int -> Int] /\ 30 \in Nat /\ 1 \in Int
  OBVIOUS
<1>2. \A x \in Int : G[x] = 2 * x
  OBVIOUS
<1> HIDE DEF G
<1>3. PICK h \in [0..30 -> Int] : h[0] = 1 /\ \A b \in 0..(30 - 1) : h[b + 1] = G[h[b]]
  BY <1>1, StepsExist
<1>4. \A b \in 0..30 : h[b] = IF b = 0 THEN 1 ELSE 2 * h[b - 1]
  <2> TAKE b \in 0..30
  <2>1. CASE b = 0
    BY <1>3, <2>1
  <2>2. CASE b # 0
    <3>1. b - 1 \in 0..(30 - 1) /\ b - 1 \in 0..30 /\ (b - 1) + 1 = b
      BY <2>2
    <3>2. h[b] = G[h[b - 1]] /\ h[b - 1] \in Int
      BY <1>3, <3>1
    <3> QED
      BY <1>2, <2>2, <3>2
  <2> QED
    BY <2>1, <2>2
<1>5. h = [b \in 0..30 |-> h[b]]
  BY <1>3
<1>6. Is(h)
  BY <1>4, <1>5
<1>7. Is(c)
  BY <1>6
<1>8. Power = c
  BY DEF Power
<1> HIDE DEF c
<1>9. c[0] = 1 /\ \A b \in 0..29 : c[b + 1] = 2 * c[b]
  BY <1>7
<1> HIDE DEF Is
<1> DEFINE S == {b \in 0..30 : c[b] \in Nat \ {0}}
<1>10. 0 \in S
  BY <1>9
<1>11. ASSUME NEW b \in 0..(30 - 1), b \in S PROVE b + 1 \in S
  BY <1>9, <1>11
<1> HIDE DEF S
<1>12. \A b \in 0..30 : b \in S
  BY <1>10, <1>11, UpTo
<1> QED
  BY <1>8, <1>9, <1>12 DEF S

\* A bit of a number is set where its half is odd.
LEMMA BitIs ==
  ASSUME NEW n \in Int, NEW b \in 0..63
  PROVE  /\ b \in IntBits(n) <=> Halves(n)[b] % 2 = 1
         /\ b \notin IntBits(n) <=> Halves(n)[b] % 2 = 0
<1>1. Halves(n)[b] \in Int
  BY HalvesAre
<1> QED
  BY <1>1 DEF IntBits

\* Doubling moves every bit up one place.
LEMMA DoubleBits ==
  ASSUME NEW n \in Int
  PROVE  IntBits(2 * n) = Shl(IntBits(n), 1)
<1> DEFINE d == 2 * n
           S == {b \in 0..62 : Halves(d)[b + 1] = Halves(n)[b]}
<1>1. d \in Int /\ d \div 2 = n /\ d % 2 = 0
  OBVIOUS
<1> HIDE DEF d
<1>2. 0 \in S
  <2>1. 0 \in 0..62 /\ Halves(d)[0] = d /\ Halves(n)[0] = n
    BY <1>1, HalvesAre
  <2>2. Halves(d)[0 + 1] = Halves(d)[0] \div 2
    BY <1>1, <2>1, HalvesAre
  <2> QED
    BY <1>1, <2>1, <2>2
<1>3. ASSUME NEW b \in 0..(62 - 1), b \in S PROVE b + 1 \in S
  <2>1. Halves(d)[(b + 1) + 1] = Halves(d)[b + 1] \div 2 /\ Halves(n)[b + 1] = Halves(n)[b] \div 2
    <3>1. b + 1 \in 0..62 /\ b \in 0..62
      OBVIOUS
    <3>2. Halves(d)[(b + 1) + 1] = Halves(d)[b + 1] \div 2
      BY <1>1, <3>1, HalvesAre
    <3>3. Halves(n)[b + 1] = Halves(n)[b] \div 2
      BY <3>1, HalvesAre
    <3> QED
      BY <3>2, <3>3
  <2>2. Halves(d)[b + 1] = Halves(n)[b] /\ b + 1 \in 0..62
    BY <1>3
  <2> QED
    BY <2>1, <2>2
<1> HIDE DEF S
<1>4. \A b \in 0..62 : b \in S
  BY <1>2, <1>3, UpTo
<1>5. \A b \in 0..62 : Halves(d)[b + 1] = Halves(n)[b]
  BY <1>4 DEF S
<1>6. 0 \notin IntBits(d)
  <2>1. 0 \in 0..63 /\ Halves(d)[0] % 2 = 0
    BY <1>1, HalvesAre
  <2> QED
    BY <1>1, <2>1, BitIs
<1>7. ASSUME NEW b \in 0..62 PROVE b + 1 \in IntBits(d) <=> b \in IntBits(n)
  <2>1. b + 1 \in 0..63 /\ b \in 0..63
    OBVIOUS
  <2> QED
    BY <1>1, <1>5, <2>1, BitIs
<1>8. IntBits(d) \subseteq 0..63 /\ IntBits(n) \subseteq 0..63
  BY DEF IntBits
<1>9. ASSUME NEW b \in 0..63 PROVE b \in IntBits(d) <=> b - 1 \in IntBits(n)
  <2>1. CASE b = 0
    BY <1>6, <1>8, <2>1
  <2>2. CASE b # 0
    <3>1. b - 1 \in 0..62 /\ (b - 1) + 1 = b
      BY <2>2
    <3> QED
      BY <1>7, <3>1
  <2> QED
    BY <2>1, <2>2
<1> QED
  BY <1>8, <1>9 DEF Shl, d

\* Two shifts are one.
LEMMA ShlShl ==
  ASSUME NEW v \in SUBSET (0..63), NEW a \in Nat, NEW b \in Nat
  PROVE  Shl(Shl(v, a), b) = Shl(v, a + b)
<1>1. ASSUME NEW x \in 0..63 PROVE x \in Shl(Shl(v, a), b) <=> x \in Shl(v, a + b)
  <2>1. x \in Shl(Shl(v, a), b) <=> x - b \in 0..63 /\ (x - b) - a \in v
    BY DEF Shl
  <2>2. x \in Shl(v, a + b) <=> x - (a + b) \in v
    BY DEF Shl
  <2>3. (x - b) - a = x - (a + b)
    OBVIOUS
  <2>4. x - (a + b) \in v => x - (a + b) \in 0..63
    OBVIOUS
  <2>5. x - (a + b) \in 0..63 => x - b \in 0..63
    OBVIOUS
  <2> QED
    BY <2>1, <2>2, <2>3, <2>4, <2>5
<1>2. Shl(Shl(v, a), b) \subseteq 0..63 /\ Shl(v, a + b) \subseteq 0..63
  BY DEF Shl
<1> QED
  BY <1>1, <1>2

\* The multiples that instructions count in.
LEMMA ScaledBits ==
  ASSUME NEW n \in Int
  PROVE  /\ IntBits(4 * n) = Shl(IntBits(n), 2)
         /\ IntBits(8 * n) = Shl(IntBits(n), 3)
         /\ IntBits(4096 * n) = Shl(IntBits(n), 12)
         /\ IntBits(65536 * n) = Shl(IntBits(n), 16)
<1>0. \A m : IntBits(m) \in SUBSET (0..63)
  BY DEF IntBits
<1>1. \A m \in Int : IntBits(4 * m) = Shl(IntBits(m), 2)
  <2> TAKE m \in Int
  <2>1. 2 * m \in Int /\ 4 * m = 2 * (2 * m)
    OBVIOUS
  <2>2. IntBits(2 * (2 * m)) = Shl(IntBits(2 * m), 1) /\ IntBits(2 * m) = Shl(IntBits(m), 1)
    BY <2>1, DoubleBits
  <2>3. Shl(Shl(IntBits(m), 1), 1) = Shl(IntBits(m), 1 + 1)
    BY <1>0, ShlShl
  <2> QED
    BY <2>1, <2>2, <2>3
<1>2. IntBits(8 * n) = Shl(IntBits(n), 3)
  <2>1. 4 * n \in Int /\ 8 * n = 2 * (4 * n)
    OBVIOUS
  <2>2. IntBits(2 * (4 * n)) = Shl(IntBits(4 * n), 1)
    BY <2>1, DoubleBits
  <2>3. Shl(Shl(IntBits(n), 2), 1) = Shl(IntBits(n), 2 + 1)
    BY <1>0, ShlShl
  <2> QED
    BY <1>1, <2>1, <2>2, <2>3
<1>3. \A m \in Int : IntBits(16 * m) = Shl(IntBits(m), 4)
  <2> TAKE m \in Int
  <2>1. 4 * m \in Int /\ 16 * m = 4 * (4 * m)
    OBVIOUS
  <2> QED
    <3>1. Shl(Shl(IntBits(m), 2), 2) = Shl(IntBits(m), 2 + 2)
      BY <1>0, ShlShl
    <3> QED
      BY <1>1, <2>1, <3>1
<1>4. \A m \in Int : IntBits(256 * m) = Shl(IntBits(m), 8)
  <2> TAKE m \in Int
  <2>1. 16 * m \in Int /\ 256 * m = 16 * (16 * m)
    OBVIOUS
  <2> QED
    <3>1. Shl(Shl(IntBits(m), 4), 4) = Shl(IntBits(m), 4 + 4)
      BY <1>0, ShlShl
    <3> QED
      BY <1>3, <2>1, <3>1
<1>5. IntBits(4096 * n) = Shl(IntBits(n), 12)
  <2>1. 16 * n \in Int /\ 4096 * n = 256 * (16 * n)
    OBVIOUS
  <2> QED
    <3>1. Shl(Shl(IntBits(n), 4), 8) = Shl(IntBits(n), 4 + 8)
      BY <1>0, ShlShl
    <3> QED
      BY <1>3, <1>4, <2>1, <3>1
<1>6. IntBits(65536 * n) = Shl(IntBits(n), 16)
  <2>1. 256 * n \in Int /\ 65536 * n = 256 * (256 * n)
    OBVIOUS
  <2> QED
    <3>1. Shl(Shl(IntBits(n), 8), 8) = Shl(IntBits(n), 8 + 8)
      BY <1>0, ShlShl
    <3> QED
      BY <1>4, <2>1, <3>1
<1> QED
  BY <1>1, <1>2, <1>5, <1>6

\* How a carry comes to a place.
LEMMA CarryNext ==
  ASSUME NEW A \in SUBSET Nat, NEW B \in SUBSET Nat, NEW i \in Nat
  PROVE  /\ ~Carry(A, B, 0)
         /\ Carry(A, B, i + 1) <=> \/ i \in A /\ i \in B
                                   \/ (i \in A \/ i \in B) /\ Carry(A, B, i)
<1>1. ~Carry(A, B, 0)
  BY DEF Carry
<1>2. ASSUME Carry(A, B, i + 1)
      PROVE  \/ i \in A /\ i \in B
             \/ (i \in A \/ i \in B) /\ Carry(A, B, i)
  <2>1. PICK j \in A \cap B : j < i + 1 /\ \A k \in (j + 1)..((i + 1) - 1) : k \in A \cup B
    BY <1>2 DEF Carry
  <2>2. CASE j = i
    <3>1. i \in A /\ i \in B
      BY <2>2
    <3> QED
      BY <3>1
  <2>3. CASE j # i
    <3>1. j < i /\ i \in (j + 1)..((i + 1) - 1)
      BY <2>1, <2>3
    <3>2. i \in A \cup B
      BY <2>1, <3>1
    <3>3. \A k \in (j + 1)..(i - 1) : k \in A \cup B
      BY <2>1
    <3>4. Carry(A, B, i)
      BY <3>1, <3>3 DEF Carry
    <3> QED
      BY <3>2, <3>4
  <2> QED
    BY <2>2, <2>3
<1>3. ASSUME i \in A, i \in B PROVE Carry(A, B, i + 1)
  <2>1. i \in A \cap B /\ i < i + 1 /\ \A k \in (i + 1)..((i + 1) - 1) : k \in A \cup B
    BY <1>3
  <2> QED
    BY <2>1 DEF Carry
<1>4. ASSUME i \in A \/ i \in B, Carry(A, B, i) PROVE Carry(A, B, i + 1)
  <2>1. PICK j \in A \cap B : j < i /\ \A k \in (j + 1)..(i - 1) : k \in A \cup B
    BY <1>4 DEF Carry
  <2>2. j < i + 1 /\ \A k \in (j + 1)..((i + 1) - 1) : k = i \/ k \in (j + 1)..(i - 1)
    BY <2>1
  <2>3. \A k \in (j + 1)..((i + 1) - 1) : k \in A \cup B
    BY <1>4, <2>1, <2>2
  <2> QED
    BY <2>2, <2>3 DEF Carry
<1> QED
  BY <1>1, <1>2, <1>3, <1>4

\* A place of a sum.
LEMMA SumOfPlaces ==
  ASSUME NEW x \in Int, NEW y \in Int, NEW c \in {0, 1}
  PROVE  /\ x % 2 \in {0, 1} /\ y % 2 \in {0, 1}
         /\ (x + y + c) \div 2
              = x \div 2 + y \div 2 + (IF (x % 2) + (y % 2) + c >= 2 THEN 1 ELSE 0)
         /\ (x + y + c) % 2 = 1 <=> (x % 2) + (y % 2) + c \in {1, 3}
<1>1. \A v \in Int : /\ v = 2 * (v \div 2) + (v % 2)
                     /\ v % 2 \in {0, 1} /\ v \div 2 \in Int
  OBVIOUS
<1> DEFINE p == x \div 2
           q == y \div 2
           r == x % 2
           s == y % 2
<1>2. x = 2 * p + r /\ y = 2 * q + s /\ p \in Int /\ q \in Int /\ r \in {0, 1} /\ s \in {0, 1}
  BY <1>1
<1> HIDE DEF p, q, r, s
<1>3. x + y + c = 2 * (p + q) + (r + s + c) /\ r + s + c \in 0..3 /\ p + q \in Int
  BY <1>2
<1>4. \A k \in Int, t \in 0..3 : /\ (2 * k + t) \div 2 = k + (IF t >= 2 THEN 1 ELSE 0)
                                 /\ (2 * k + t) % 2 = 1 <=> t \in {1, 3}
  OBVIOUS
<1>5. (x + y + c) \div 2 = p + q + (IF r + s + c >= 2 THEN 1 ELSE 0)
  BY <1>3, <1>4
<1>6. (x + y + c) % 2 = 1 <=> r + s + c \in {1, 3}
  BY <1>3, <1>4
<1> QED
  BY <1>2, <1>5, <1>6 DEF p, q, r, s

\* The addition of bits is that of integers.
LEMMA PlusBits ==
  ASSUME NEW a \in Int, NEW b \in Int
  PROVE  Plus(IntBits(a), IntBits(b)) = IntBits(a + b)
<1> DEFINE A == IntBits(a)
           B == IntBits(b)
           x(i) == Halves(a)[i]
           y(i) == Halves(b)[i]
           z(i) == Halves(a + b)[i]
           c(i) == IF Carry(A, B, i) THEN 1 ELSE 0
           S == {i \in 0..63 : z(i) = x(i) + y(i) + c(i)}
<1>1. a + b \in Int
  OBVIOUS
<1>2. A \in SUBSET Nat /\ B \in SUBSET Nat
  BY DEF IntBits
<1>3. ASSUME NEW i \in 0..63
      PROVE  /\ x(i) \in Int /\ y(i) \in Int
             /\ i \in A <=> x(i) % 2 = 1
             /\ i \notin A <=> x(i) % 2 = 0
             /\ i \in B <=> y(i) % 2 = 1
             /\ i \notin B <=> y(i) % 2 = 0
             /\ i \in IntBits(a + b) <=> z(i) % 2 = 1
  BY <1>1, HalvesAre, BitIs
<1>4. \A i : c(i) \in {0, 1} /\ (c(i) = 1 <=> Carry(A, B, i)) /\ (c(i) = 0 <=> ~Carry(A, B, i))
  OBVIOUS
<1>5. 0 \in S
  <2>1. c(0) = 0
    BY <1>2, CarryNext
  <2>2. x(0) = a /\ y(0) = b /\ z(0) = a + b
    BY <1>1, HalvesAre
  <2> QED
    BY <2>1, <2>2
<1>6. ASSUME NEW i \in 0..(63 - 1), i \in S PROVE i + 1 \in S
  <2>1. i \in 0..62 /\ i \in 0..63 /\ i + 1 \in 0..63 /\ i \in Nat
    OBVIOUS
  <2>2. x(i + 1) = x(i) \div 2 /\ y(i + 1) = y(i) \div 2
    BY <2>1, HalvesAre
  <2>3. z(i + 1) = z(i) \div 2
    BY <1>1, <2>1, HalvesAre
  <2>4. Carry(A, B, i + 1) <=> \/ i \in A /\ i \in B
                               \/ (i \in A \/ i \in B) /\ Carry(A, B, i)
    <3> HIDE DEF A, B
    <3> QED
      BY <1>2, <2>1, CarryNext
  <2>5. z(i) = x(i) + y(i) + c(i)
    BY <1>6
  <2>6. x(i) \in Int /\ y(i) \in Int /\ (i \in A <=> x(i) % 2 = 1) /\ (i \in B <=> y(i) % 2 = 1)
    BY <1>3, <2>1
  <2>7. c(i) \in {0, 1} /\ (c(i) = 1 <=> Carry(A, B, i))
    BY <1>4
  <2>8. c(i + 1) = IF Carry(A, B, i + 1) THEN 1 ELSE 0
    OBVIOUS
  <2> HIDE DEF x, y, z, c, A, B
  <2>9. /\ x(i) % 2 \in {0, 1} /\ y(i) % 2 \in {0, 1}
        /\ (x(i) + y(i) + c(i)) \div 2 = x(i) \div 2 + y(i) \div 2
              + (IF (x(i) % 2) + (y(i) % 2) + c(i) >= 2 THEN 1 ELSE 0)
    BY <2>6, <2>7, SumOfPlaces
  <2>10. Carry(A, B, i + 1) <=> (x(i) % 2) + (y(i) % 2) + c(i) >= 2
    BY <2>4, <2>6, <2>7, <2>9
  <2>11. c(i + 1) = IF (x(i) % 2) + (y(i) % 2) + c(i) >= 2 THEN 1 ELSE 0
    BY <2>8, <2>10
  <2>12. z(i + 1) = x(i + 1) + y(i + 1) + c(i + 1)
    BY <2>2, <2>3, <2>5, <2>9, <2>11
  <2> QED
    BY <2>1, <2>12
<1> HIDE DEF S
<1>7. \A i \in 0..63 : i \in S
  BY <1>5, <1>6, UpTo
<1>8. ASSUME NEW i \in 0..63
      PROVE  i \in Plus(A, B) <=> i \in IntBits(a + b)
  <2>1. z(i) = x(i) + y(i) + c(i)
    BY <1>7 DEF S
  <2>2. i \in Plus(A, B) <=> ((i \in A) # (i \in B)) # Carry(A, B, i)
    BY DEF Plus
  <2>3. Carry(A, B, i) \in BOOLEAN
    BY DEF Carry
  <2>4. /\ x(i) \in Int /\ y(i) \in Int
        /\ i \in A <=> x(i) % 2 = 1
        /\ i \notin A <=> x(i) % 2 = 0
        /\ i \in B <=> y(i) % 2 = 1
        /\ i \notin B <=> y(i) % 2 = 0
        /\ i \in IntBits(a + b) <=> z(i) % 2 = 1
    BY <1>3
  <2>5. c(i) \in {0, 1} /\ (c(i) = 1 <=> Carry(A, B, i)) /\ (c(i) = 0 <=> ~Carry(A, B, i))
    BY <1>4
  <2> HIDE DEF x, y, z, c, A, B
  <2>6. z(i) % 2 = 1 <=> (x(i) % 2) + (y(i) % 2) + c(i) \in {1, 3}
    <3>1. x(i) \in Int /\ y(i) \in Int /\ c(i) \in {0, 1}
      BY <2>4, <2>5
    <3>2. (x(i) + y(i) + c(i)) % 2 = 1 <=> (x(i) % 2) + (y(i) % 2) + c(i) \in {1, 3}
      BY <3>1, SumOfPlaces
    <3> QED
      BY <2>1, <3>2
  <2>7. i \in IntBits(a + b) <=> \/ i \in A /\ i \in B /\ Carry(A, B, i)
                                 \/ i \in A /\ i \notin B /\ ~Carry(A, B, i)
                                 \/ i \notin A /\ i \in B /\ ~Carry(A, B, i)
                                 \/ i \notin A /\ i \notin B /\ Carry(A, B, i)
    BY <2>4, <2>5, <2>6
  <2>8. ((i \in A) # (i \in B)) # Carry(A, B, i)
          <=> \/ i \in A /\ i \in B /\ Carry(A, B, i)
              \/ i \in A /\ i \notin B /\ ~Carry(A, B, i)
              \/ i \notin A /\ i \in B /\ ~Carry(A, B, i)
              \/ i \notin A /\ i \notin B /\ Carry(A, B, i)
    BY <2>3
  <2> QED
    BY <2>2, <2>7, <2>8
<1>9. Plus(A, B) \subseteq 0..63 /\ IntBits(a + b) \subseteq 0..63
  BY DEF Plus, IntBits
<1> QED
  BY <1>8, <1>9

-----------------------------------------------------------------------------
(* Widths                                                                  *)

\* From the place of its sign on, the halves of a number are all the same.
LEMMA RangeHalves ==
  ASSUME NEW m \in Int, NEW p \in 0..30, -Power[p] <= m, m < Power[p]
  PROVE  /\ \A b \in p..63 : Halves(m)[b] = Halves(m)[p]
         /\ Halves(m)[p] \in {0, -1}
         /\ m >= 0 => Halves(m)[p] = 0
<1> DEFINE x(b) == Halves(m)[b]
           S == {b \in 0..p : -Power[p - b] <= x(b) /\ x(b) < Power[p - b] /\ (m >= 0 => x(b) >= 0)}
           U == {k \in 0..(63 - p) : x(p + k) = x(p)}
<1>1. x(0) = m /\ (\A b \in 0..62 : x(b + 1) = x(b) \div 2) /\ \A b \in 0..63 : x(b) \in Int
  BY HalvesAre
<1> HIDE DEF x
<1>2. 0 \in S
  BY <1>1
<1>3. ASSUME NEW b \in 0..(p - 1), b \in S PROVE b + 1 \in S
  <2> DEFINE q == p - (b + 1)
  <2>1. q \in 0..29 /\ q + 1 = p - b /\ q \in 0..30 /\ b \in 0..62 /\ b \in 0..63 /\ b + 1 \in 0..p
    BY <1>3
  <2>2. Power[p - b] = 2 * Power[q] /\ Power[q] \in Nat
    BY <2>1, PowersAre
  <2>3. -Power[p - b] <= x(b) /\ x(b) < Power[p - b] /\ x(b) \in Int /\ x(b + 1) = x(b) \div 2
        /\ (m >= 0 => x(b) >= 0)
    BY <1>1, <1>3, <2>1
  <2>4. \A P \in Nat, y \in Int : -(2 * P) <= y /\ y < 2 * P => -P <= y \div 2 /\ y \div 2 < P
    OBVIOUS
  <2>5. \A y \in Int : y >= 0 => y \div 2 >= 0
    OBVIOUS
  <2>6. -Power[q] <= x(b + 1) /\ x(b + 1) < Power[q]
    BY <2>2, <2>3, <2>4
  <2>7. m >= 0 => x(b + 1) >= 0
    BY <2>3, <2>5
  <2> QED
    BY <2>1, <2>6, <2>7
<1> HIDE DEF S
<1>4. p \in S
  <2>1. p \in Nat /\ p \in 0..p
    OBVIOUS
  <2>2. \A b \in 0..p : b \in S
    BY <1>2, <1>3, <2>1, UpTo
  <2> QED
    BY <2>1, <2>2
<1>5. -1 <= x(p) /\ x(p) < 1 /\ x(p) \in Int /\ (m >= 0 => x(p) >= 0)
  <2>1. p - p = 0 /\ p \in 0..63
    OBVIOUS
  <2> QED
    BY <1>1, <1>4, <2>1, PowersAre DEF S
<1>6. x(p) \in {0, -1} /\ (m >= 0 => x(p) = 0)
  BY <1>5
<1>7. 0 \in U
  OBVIOUS
<1>8. ASSUME NEW k \in 0..((63 - p) - 1), k \in U PROVE k + 1 \in U
  <2>1. p + k \in 0..62 /\ (p + k) + 1 = p + (k + 1) /\ k + 1 \in 0..(63 - p)
    BY <1>8
  <2>2. x(p + (k + 1)) = x(p + k) \div 2
    BY <1>1, <2>1
  <2>3. x(p + k) = x(p)
    BY <1>8
  <2> QED
    BY <1>6, <2>1, <2>2, <2>3
<1> HIDE DEF U
<1>9. \A k \in 0..(63 - p) : k \in U
  <2>1. 63 - p \in Nat
    OBVIOUS
  <2> QED
    BY <1>7, <1>8, <2>1, UpTo
<1>10. ASSUME NEW b \in p..63 PROVE x(b) = x(p)
  <2>1. b - p \in 0..(63 - p) /\ p + (b - p) = b
    OBVIOUS
  <2> QED
    BY <1>9, <2>1 DEF U
<1> QED
  BY <1>6, <1>10 DEF x

\* A number that fits in w bits without a sign is told by them,
LEMMA UnsignedBits ==
  ASSUME NEW w \in 0..30, NEW m \in 0..(Power[w] - 1)
  PROVE  IntBits(m) \subseteq 0..(w - 1)
<1>1. m \in Int /\ m >= 0 /\ m < Power[w] /\ -Power[w] <= m
  BY PowersAre
<1>2. \A b \in w..63 : Halves(m)[b] = 0
  BY <1>1, RangeHalves
<1>3. ASSUME NEW b \in IntBits(m) PROVE b \in 0..(w - 1)
  <2>1. b \in 0..63 /\ Halves(m)[b] % 2 = 1
    BY DEF IntBits
  <2>2. b \notin w..63
    BY <1>2, <2>1
  <2> QED
    BY <2>1, <2>2
<1> QED
  BY <1>3

\* and one that fits with its sign by extending them.
LEMMA SignedBits ==
  ASSUME NEW w \in 1..31, NEW m \in (-Power[w - 1])..(Power[w - 1] - 1)
  PROVE  signExtend(IntBits(m) \cap 0..(w - 1), w) = IntBits(m)
<1> DEFINE p == w - 1
           v == IntBits(m)
<1>1. p \in 0..30 /\ m \in Int /\ -Power[p] <= m /\ m < Power[p] /\ p \in 0..63
  <2>1. p \in 0..30 /\ p \in 0..63
    OBVIOUS
  <2>2. Power[p] \in Nat
    BY <2>1, PowersAre
  <2> QED
    BY <2>1, <2>2
<1>2. (\A b \in p..63 : Halves(m)[b] = Halves(m)[p]) /\ Halves(m)[p] \in {0, -1}
  BY <1>1, RangeHalves
<1>3. \A b \in p..63 : b \in v <=> p \in v
  <2> TAKE b \in p..63
  <2>1. b \in 0..63
    BY <1>1
  <2> QED
    BY <1>1, <1>2, <2>1 DEF IntBits
<1>4. v \subseteq 0..63
  BY DEF IntBits
<1> HIDE DEF v
<1>5. signExtend(v \cap 0..p, w) = (v \cap 0..p) \cup (IF p \in v THEN w..63 ELSE {})
  BY <1>1 DEF signExtend
<1>6. ASSUME NEW b \in 0..63
      PROVE  b \in signExtend(v \cap 0..p, w) <=> b \in v
  <2>1. CASE b <= p
    <3>1. b \in 0..p /\ b \notin w..63
      BY <2>1
    <3> QED
      BY <1>5, <3>1
  <2>2. CASE ~(b <= p)
    <3>1. b \notin 0..p /\ b \in w..63 /\ b \in p..63
      BY <1>1, <2>2
    <3>2. b \in v <=> p \in v
      BY <1>3, <3>1
    <3> QED
      BY <1>5, <3>1, <3>2
  <2> QED
    BY <2>1, <2>2
<1>7. w..63 \subseteq 0..63 /\ signExtend(v \cap 0..p, w) \subseteq 0..63
  BY <1>4, <1>5
<1>8. signExtend(v \cap 0..p, w) = v
  BY <1>4, <1>6, <1>7
<1> QED
  BY <1>8 DEF v

\* The unit of a page, as a number.
LEMMA PowerTwelve == Power[12] = 4096
<1>1. \A k \in 0..29 : Power[k + 1] = 2 * Power[k]
  BY PowersAre
<1>2. Power[1] = 2 /\ Power[2] = 4 /\ Power[3] = 8
  <2>1. Power[0 + 1] = 2 * Power[0] /\ Power[1 + 1] = 2 * Power[1] /\ Power[2 + 1] = 2 * Power[2]
    BY <1>1
  <2> QED
    BY <2>1, PowersAre
<1>3. Power[4] = 16 /\ Power[5] = 32 /\ Power[6] = 64
  <2>1. Power[3 + 1] = 2 * Power[3] /\ Power[4 + 1] = 2 * Power[4] /\ Power[5 + 1] = 2 * Power[5]
    BY <1>1
  <2> QED
    BY <1>2, <2>1
<1>4. Power[7] = 128 /\ Power[8] = 256 /\ Power[9] = 512
  <2>1. Power[6 + 1] = 2 * Power[6] /\ Power[7 + 1] = 2 * Power[7] /\ Power[8 + 1] = 2 * Power[8]
    BY <1>1
  <2> QED
    BY <1>3, <2>1
<1>5. Power[9 + 1] = 2 * Power[9] /\ Power[10 + 1] = 2 * Power[10] /\ Power[11 + 1] = 2 * Power[11]
  BY <1>1
<1> QED
  BY <1>4, <1>5

\* Where two numbers have no one in the same place, addition is union.
LEMMA PlusApart ==
  ASSUME NEW A \in SUBSET (0..63), NEW B \in SUBSET (0..63), A \cap B = {}
  PROVE  Plus(A, B) = A \cup B
<1>1. \A i : Carry(A, B, i) = FALSE
  BY DEF Carry
<1>2. ASSUME NEW i \in 0..63 PROVE i \in Plus(A, B) <=> i \in A \cup B
  <2>1. i \in Plus(A, B) <=> ((i \in A) # (i \in B)) # FALSE
    BY <1>1 DEF Plus
  <2>2. ~(i \in A /\ i \in B)
    OBVIOUS
  <2>3. CASE i \in A
    BY <2>1, <2>2, <2>3
  <2>4. CASE i \in B
    BY <2>1, <2>2, <2>4
  <2>5. CASE i \notin A /\ i \notin B
    <3>1. (i \in A) = FALSE /\ (i \in B) = FALSE
      BY <2>5
    <3>2. ~(i \in Plus(A, B))
      BY <2>1, <3>1
    <3> QED
      BY <2>5, <3>2
  <2> QED
    BY <2>3, <2>4, <2>5
<1>3. Plus(A, B) \subseteq 0..63
  BY DEF Plus
<1> QED
  BY <1>2, <1>3

\* The page of an address.
LEMMA PageBits ==
  ASSUME NEW n \in Nat
  PROVE  IntBits(n) \ 0..11 = IntBits(n - (n % 4096))
<1> DEFINE q == n \div 4096
           r == n % 4096
<1>1. q \in Int /\ r \in 0..4095 /\ n = r + 4096 * q /\ n - r = 4096 * q /\ 4096 * q \in Int
  OBVIOUS
<1> HIDE DEF q, r
<1>2. IntBits(r) \subseteq 0..11
  <2>1. 12 \in 0..30 /\ r \in 0..(Power[12] - 1)
    BY <1>1, PowerTwelve
  <2>2. IntBits(r) \subseteq 0..(12 - 1)
    BY <2>1, UnsignedBits
  <2> QED
    BY <2>2
<1>3. IntBits(4096 * q) \subseteq 12..63
  <2>1. IntBits(4096 * q) = Shl(IntBits(q), 12)
    BY <1>1, ScaledBits
  <2>2. IntBits(q) \subseteq 0..63
    BY DEF IntBits
  <2> QED
    BY <2>1, <2>2 DEF Shl
<1>4. IntBits(n) = IntBits(r) \cup IntBits(4096 * q)
  <2>1. Plus(IntBits(r), IntBits(4096 * q)) = IntBits(r + 4096 * q)
    BY <1>1, PlusBits
  <2>2. /\ IntBits(r) \in SUBSET (0..63) /\ IntBits(4096 * q) \in SUBSET (0..63)
        /\ IntBits(r) \cap IntBits(4096 * q) = {}
    BY <1>2, <1>3
  <2>3. Plus(IntBits(r), IntBits(4096 * q)) = IntBits(r) \cup IntBits(4096 * q)
    BY <2>2, PlusApart
  <2> QED
    BY <1>1, <2>1, <2>3
<1>5. IntBits(n) \ 0..11 = IntBits(4096 * q)
  BY <1>2, <1>3, <1>4
<1> QED
  BY <1>1, <1>5 DEF r

\* The low half of a sum is that of the low halves.
LEMMA LowCarry ==
  ASSUME NEW A \in SUBSET (0..63), NEW B \in SUBSET (0..63), NEW i \in 0..31
  PROVE  Carry(A, B, i) <=> Carry(Low(A), Low(B), i)
<1>1. ASSUME Carry(A, B, i) PROVE Carry(Low(A), Low(B), i)
  <2>1. PICK j \in A \cap B : j < i /\ \A k \in (j + 1)..(i - 1) : k \in A \cup B
    BY <1>1 DEF Carry
  <2>2. j \in 0..31 /\ \A k \in (j + 1)..(i - 1) : k \in 0..31
    BY <2>1
  <2>3. j \in Low(A) \cap Low(B) /\ \A k \in (j + 1)..(i - 1) : k \in Low(A) \cup Low(B)
    BY <2>1, <2>2 DEF Low
  <2> QED
    BY <2>1, <2>3 DEF Carry
<1>2. ASSUME Carry(Low(A), Low(B), i) PROVE Carry(A, B, i)
  <2>1. PICK j \in Low(A) \cap Low(B) :
          j < i /\ \A k \in (j + 1)..(i - 1) : k \in Low(A) \cup Low(B)
    BY <1>2 DEF Carry
  <2>2. j \in A \cap B /\ \A k \in (j + 1)..(i - 1) : k \in A \cup B
    BY <2>1 DEF Low
  <2> QED
    BY <2>1, <2>2 DEF Carry
<1> QED
  BY <1>1, <1>2

\* A sum of words of 32 bits depends on their low halves alone.
LEMMA LowPlus ==
  ASSUME NEW A \in SUBSET (0..63), NEW B \in SUBSET (0..63)
  PROVE  Low(Plus(Low(A), Low(B))) = Low(Plus(A, B))
<1>1. ASSUME NEW i \in 0..31 PROVE i \in Plus(Low(A), Low(B)) <=> i \in Plus(A, B)
  <2>1. i \in 0..63 /\ (i \in Low(A) <=> i \in A) /\ (i \in Low(B) <=> i \in B)
    BY DEF Low
  <2>2. Carry(A, B, i) <=> Carry(Low(A), Low(B), i)
    BY LowCarry
  <2>3. Carry(A, B, i) \in BOOLEAN /\ Carry(Low(A), Low(B), i) \in BOOLEAN
    BY DEF Carry
  <2>4. Carry(A, B, i) = Carry(Low(A), Low(B), i)
    BY <2>2, <2>3
  <2>5. (i \in Low(A)) = (i \in A) /\ (i \in Low(B)) = (i \in B)
    BY <2>1
  <2>6. i \in Plus(A, B) <=> ((i \in A) # (i \in B)) # Carry(A, B, i)
    BY <2>1 DEF Plus
  <2>7. i \in Plus(Low(A), Low(B))
          <=> ((i \in Low(A)) # (i \in Low(B))) # Carry(Low(A), Low(B), i)
    BY <2>1 DEF Plus
  <2> HIDE DEF Low
  <2> QED
    BY <2>4, <2>5, <2>6, <2>7
<1> QED
  BY <1>1 DEF Low

\* The target of the Arm decoder: two instructions ahead, and the immediate.
LEMMA AheadBits ==
  ASSUME NEW a \in Int, NEW m \in Int
  PROVE  Low(Plus(Plus(Low(IntBits(a)), {3}), Low(IntBits(m)))) = Low(IntBits((a + 8) + m))
<1> DEFINE A == IntBits(a)
           M == IntBits(m)
           E == IntBits(8)
           P == Plus(Low(A), {3})
<1>1. A \in SUBSET (0..63) /\ M \in SUBSET (0..63) /\ E \in SUBSET (0..63)
  BY DEF IntBits
<1>2. E = {3}
  <2>1. IntBits(8 * 1) = Shl(IntBits(1), 3)
    BY ScaledBits
  <2>2. IntBits(1) = {0}
    <3>1. 1 \in 0..(Power[1] - 1) /\ 1 \in 0..30
      <4>1. Power[0 + 1] = 2 * Power[0] /\ Power[0] = 1
        BY PowersAre
      <4> QED
        BY <4>1
    <3>2. IntBits(1) \subseteq 0..(1 - 1)
      BY <3>1, UnsignedBits
    <3>3. Halves(1)[0] = 1
      BY HalvesAre
    <3>4. 0 \in IntBits(1)
      BY <3>3 DEF IntBits
    <3> QED
      BY <3>2, <3>4
  <2>3. Shl({0}, 3) = {3}
    BY DEF Shl
  <2> QED
    BY <2>1, <2>2, <2>3
<1>3. Low(E) = {3}
  BY <1>2 DEF Low
<1> HIDE DEF A, M, E
<1>4. Low(P) = Low(Plus(A, E))
  BY <1>1, <1>3, LowPlus
<1>5. P \in SUBSET (0..63) /\ Plus(A, E) \in SUBSET (0..63) /\ Low(M) \in SUBSET (0..63)
      /\ Low(Low(M)) = Low(M)
  BY DEF Plus, Low
<1> HIDE DEF P
<1>6. Low(Plus(Low(P), Low(M))) = Low(Plus(P, Low(M)))
  BY <1>5, LowPlus
<1>7. Low(Plus(Low(Plus(A, E)), Low(M))) = Low(Plus(Plus(A, E), M))
  BY <1>1, <1>5, LowPlus
<1>8. Plus(Plus(A, E), M) = IntBits((a + 8) + m)
  <2>1. a + 8 \in Int
    OBVIOUS
  <2>2. Plus(A, E) = IntBits(a + 8)
    BY PlusBits DEF A, E
  <2>3. Plus(IntBits(a + 8), IntBits(m)) = IntBits((a + 8) + m)
    BY <2>1, PlusBits
  <2> QED
    BY <2>2, <2>3 DEF M
<1> QED
  BY <1>4, <1>6, <1>7, <1>8, <1>5 DEF P, A, M

-----------------------------------------------------------------------------
(* How the assembled forms are told apart                                  *)

\* The first tests of decodeInsnType, and what they leave.
LEMMA FirstTypes ==
  ASSUME NEW w
  PROVE  /\ 31 \notin w /\ (\A b \in 24..28 : b \in w <=> b = 28) =>
              decodeInsnType(w) = Type("ADR", "none")
         /\ 31 \in w /\ (\A b \in 24..28 : b \in w <=> b = 28) =>
              decodeInsnType(w) = Type("ADRP", "none")
         /\ (\A b \in 24..30 : b \in w <=> b \in {28, 24}) =>
              decodeInsnType(w) = Type("ADD", "none")
         /\ (\A b \in 24..30 : b \in w <=> b \in {30, 28, 24}) =>
              decodeInsnType(w) = Type("SUB", "none")
         /\ (\A b \in 23..30 : b \in w <=> b \in {30, 28, 25, 23}) =>
              decodeInsnType(w) = Type("MOVZ", "none")
         /\ 27 \in w \/ 26 \in w =>
              decodeInsnType(w)
                = IF LoadStoreType(w) # UNKNOWN THEN LoadStoreType(w) ELSE BranchType(w)
<1>1. ASSUME 31 \notin w, \A b \in 24..28 : b \in w <=> b = 28
      PROVE  decodeInsnType(w) = Type("ADR", "none")
  BY <1>1 DEF decodeInsnType, Under
<1>2. ASSUME 31 \in w, \A b \in 24..28 : b \in w <=> b = 28
      PROVE  decodeInsnType(w) = Type("ADRP", "none")
  BY <1>2 DEF decodeInsnType, Under
<1>3. ASSUME \A b \in 24..30 : b \in w <=> b \in {28, 24}
      PROVE  decodeInsnType(w) = Type("ADD", "none")
  BY <1>3 DEF decodeInsnType, Under
<1>4. ASSUME \A b \in 24..30 : b \in w <=> b \in {30, 28, 24}
      PROVE  decodeInsnType(w) = Type("SUB", "none")
  BY <1>4 DEF decodeInsnType, Under
<1>5. ASSUME \A b \in 23..30 : b \in w <=> b \in {30, 28, 25, 23}
      PROVE  decodeInsnType(w) = Type("MOVZ", "none")
  BY <1>5 DEF decodeInsnType, Under
<1>6. ASSUME 27 \in w \/ 26 \in w
      PROVE  decodeInsnType(w)
               = IF LoadStoreType(w) # UNKNOWN THEN LoadStoreType(w) ELSE BranchType(w)
  BY <1>6 DEF decodeInsnType, Under
<1> QED
  BY <1>1, <1>2, <1>3, <1>4, <1>5, <1>6

\* The bits around the immediate say which load or store it is.
LEMMA LoadTypes ==
  ASSUME NEW w, 27 \in w
  PROVE  /\ (\A b \in 22..31 : b \in w <=> b \in {31, 30, 29, 28, 27, 24, 22}) =>
              decodeInsnType(w) = Type("LDR", "uimm") /\ Size(w) = 3
         /\ (\A b \in 22..31 : b \in w <=> b \in {29, 28, 27, 24}) =>
              decodeInsnType(w) = Type("STRB", "uimm") /\ Size(w) = 0
         /\ (\A b \in 22..31 : b \in w <=> b \in {31, 29, 28, 27, 24, 23}) =>
              decodeInsnType(w) = Type("LDRSW", "uimm") /\ Size(w) = 2
         /\ (\A b \in 22..31 : b \in w <=> b \in {30, 29, 28, 27, 22}) /\ 10 \in w /\ 11 \notin w =>
              decodeInsnType(w) = Type("LDRH", "post")
         /\ (\A b \in 22..31 : b \in w <=> b \in {31, 29, 28, 27}) /\ 10 \in w /\ 11 \in w =>
              decodeInsnType(w) = Type("STR", "pre")
         /\ (\A b \in 22..31 : b \in w <=> b \in {29, 28, 27, 23}) /\ 10 \notin w =>
              decodeInsnType(w) = Type("LDRSB", "unscaled")
         /\ (\A b \in 22..31 : b \in w <=> b \in {30, 28, 27}) =>
              decodeInsnType(w) = Type("LDR", "literal")
<1>1. \A t : LoadStoreType(w) = t /\ t # UNKNOWN => decodeInsnType(w) = t
  BY DEF decodeInsnType, Under
<1>2. \A op, mode : mode # "none" => Type(op, mode) # UNKNOWN
  BY DEF Type, UNKNOWN
<1>3. ASSUME \A b \in 22..31 : b \in w <=> b \in {31, 30, 29, 28, 27, 24, 22}
      PROVE  decodeInsnType(w) = Type("LDR", "uimm") /\ Size(w) = 3
  <2>1. Size(w) = 3 /\ Access(w) = "LDR"
    BY <1>3 DEF Size, Bit, Access
  <2>2. LoadStoreType(w) = Type("LDR", "uimm")
    BY <1>3, <2>1 DEF LoadStoreType, Under
  <2> QED
    BY <1>1, <1>2, <2>1, <2>2
<1>4. ASSUME \A b \in 22..31 : b \in w <=> b \in {29, 28, 27, 24}
      PROVE  decodeInsnType(w) = Type("STRB", "uimm") /\ Size(w) = 0
  <2>1. Size(w) = 0 /\ Access(w) = "STRB"
    BY <1>4 DEF Size, Bit, Access
  <2>2. LoadStoreType(w) = Type("STRB", "uimm")
    BY <1>4, <2>1 DEF LoadStoreType, Under
  <2> QED
    BY <1>1, <1>2, <2>1, <2>2
<1>5. ASSUME \A b \in 22..31 : b \in w <=> b \in {31, 29, 28, 27, 24, 23}
      PROVE  decodeInsnType(w) = Type("LDRSW", "uimm") /\ Size(w) = 2
  <2>1. Size(w) = 2 /\ Access(w) = "LDRSW"
    BY <1>5 DEF Size, Bit, Access
  <2>2. LoadStoreType(w) = Type("LDRSW", "uimm")
    BY <1>5, <2>1 DEF LoadStoreType, Under
  <2> QED
    BY <1>1, <1>2, <2>1, <2>2
<1>6. ASSUME \A b \in 22..31 : b \in w <=> b \in {30, 29, 28, 27, 22}, 10 \in w, 11 \notin w
      PROVE  decodeInsnType(w) = Type("LDRH", "post")
  <2>1. Access(w) = "LDRH" /\ Indexed(w) = "LDRH"
    BY <1>6 DEF Size, Bit, Access, Indexed
  <2>2. LoadStoreType(w) = Type("LDRH", "post")
    BY <1>6, <2>1 DEF LoadStoreType, Under
  <2> QED
    BY <1>1, <1>2, <2>2
<1>7. ASSUME \A b \in 22..31 : b \in w <=> b \in {31, 29, 28, 27}, 10 \in w, 11 \in w
      PROVE  decodeInsnType(w) = Type("STR", "pre")
  <2>1. Access(w) = "STRW" /\ Indexed(w) = "STR"
    BY <1>7 DEF Size, Bit, Access, Indexed
  <2>2. LoadStoreType(w) = Type("STR", "pre")
    BY <1>7, <2>1 DEF LoadStoreType, Under
  <2> QED
    BY <1>1, <1>2, <2>2
<1>8. ASSUME \A b \in 22..31 : b \in w <=> b \in {29, 28, 27, 23}, 10 \notin w
      PROVE  decodeInsnType(w) = Type("LDRSB", "unscaled")
  <2>1. Access(w) = "LDRSB"
    BY <1>8 DEF Size, Bit, Access
  <2>2. LoadStoreType(w) = Type("LDRSB", "unscaled")
    BY <1>8, <2>1 DEF LoadStoreType, Under
  <2> QED
    BY <1>1, <1>2, <2>2
<1>9. ASSUME \A b \in 22..31 : b \in w <=> b \in {30, 28, 27}
      PROVE  decodeInsnType(w) = Type("LDR", "literal")
  <2>1. LoadStoreType(w) = Type("LDR", "literal")
    BY <1>9 DEF LoadStoreType, Under
  <2> QED
    BY <1>1, <1>2, <2>1
<1> QED
  BY <1>3, <1>4, <1>5, <1>6, <1>7, <1>8, <1>9

\* The same of the jumps.
LEMMA JumpTypes ==
  ASSUME NEW w, 27 \notin w, 26 \in w
  PROVE  /\ (\A b \in 26..31 : b \in w <=> b \in {28, 26}) =>
              decodeInsnType(w) = Type("B", "none")
         /\ (\A b \in 26..31 : b \in w <=> b \in {31, 28, 26}) =>
              decodeInsnType(w) = Type("BL", "none")
         /\ (\A b \in 24..31 : b \in w <=> b \in {30, 28, 26}) /\ 4 \notin w =>
              decodeInsnType(w) = Type("B_COND", "none")
         /\ (\A b \in 24..31 : b \in w <=> b \in {31, 29, 28, 26}) =>
              decodeInsnType(w) = Type("CBZ", "none")
         /\ (\A b \in 24..31 : b \in w <=> b \in {29, 28, 26, 25, 24}) =>
              decodeInsnType(w) = Type("TBNZ", "none")
<1>1. LoadStoreType(w) = UNKNOWN
  BY DEF LoadStoreType, Under
<1>2. decodeInsnType(w) = BranchType(w)
  BY <1>1 DEF decodeInsnType, Under
<1>3. ASSUME \A b \in 26..31 : b \in w <=> b \in {28, 26}
      PROVE  BranchType(w) = Type("B", "none")
  BY <1>3 DEF BranchType, Under
<1>4. ASSUME \A b \in 26..31 : b \in w <=> b \in {31, 28, 26}
      PROVE  BranchType(w) = Type("BL", "none")
  BY <1>4 DEF BranchType, Under
<1>5. ASSUME \A b \in 24..31 : b \in w <=> b \in {30, 28, 26}, 4 \notin w
      PROVE  BranchType(w) = Type("B_COND", "none")
  BY <1>5 DEF BranchType, Under
<1>6. ASSUME \A b \in 24..31 : b \in w <=> b \in {31, 29, 28, 26}
      PROVE  BranchType(w) = Type("CBZ", "none")
  BY <1>6 DEF BranchType, Under
<1>7. ASSUME \A b \in 24..31 : b \in w <=> b \in {29, 28, 26, 25, 24}
      PROVE  BranchType(w) = Type("TBNZ", "none")
  BY <1>7 DEF BranchType, Under
<1> QED
  BY <1>2, <1>3, <1>4, <1>5, <1>6, <1>7

\* The same of the instructions of 32-bit Arm.
LEMMA ArmTypes ==
  ASSUME NEW w
  PROVE  /\ (\A b \in 20..31 : b \in w <=> b \in {31, 30, 29, 25, 23}) =>
              decodeInsnType32(w) = IF OfPc(w) THEN "ADR" ELSE "ADD"
         /\ (\A b \in 20..31 : b \in w <=> b \in {31, 30, 29, 25, 22}) /\ OfPc(w) =>
              decodeInsnType32(w) = "ADR"
         /\ (\A b \in 24..31 : b \in w <=> b \in {31, 30, 29, 27, 25}) =>
              decodeInsnType32(w) = "B"
         /\ (\A b \in 24..31 : b \in w <=> b \in {31, 30, 29, 27, 25, 24}) =>
              decodeInsnType32(w) = "BL"
         /\ (\A b \in 20..31 : b \in w <=> b \in {31, 30, 29, 26, 24, 23, 20}) /\ OfPc(w) =>
              decodeInsnType32(w) = "LDR_LITERAL"
<1>1. ASSUME \A b \in 20..31 : b \in w <=> b \in {31, 30, 29, 25, 23}
      PROVE  decodeInsnType32(w) = IF OfPc(w) THEN "ADR" ELSE "ADD"
  <2>1. AluType(w) = IF OfPc(w) THEN "ADR" ELSE "ADD"
    <3>1. Under(w, 21..24 \cup {27, 26}, {23})
      BY <1>1 DEF Under
    <3>2. ~Under(w, 21..24 \cup {27, 26}, {22}) /\ ~Under(w, 21..24 \cup {27, 26}, {24, 23, 21})
      BY <1>1 DEF Under
    <3> QED
      BY <3>1, <3>2 DEF AluType
  <2>2. ~Under(w, 24..27, {27, 25}) /\ ~Under(w, 24..27, {27, 25, 24})
    BY <1>1 DEF Under
  <2> QED
    BY <2>1, <2>2 DEF decodeInsnType32
<1>2. ASSUME 27 \in w PROVE AluType(w) = "UNKNOWN" /\ TransferType(w) = "UNKNOWN"
  BY <1>2 DEF AluType, TransferType, Under
<1>3. ASSUME \A b \in 24..31 : b \in w <=> b \in {31, 30, 29, 27, 25}
      PROVE  decodeInsnType32(w) = "B"
  <2>1. Under(w, 24..27, {27, 25}) /\ Under(w, 28..31, {31, 30, 29}) /\ ~Under(w, 24..27, {27, 25, 24})
    BY <1>3 DEF Under
  <2> QED
    BY <1>2, <1>3, <2>1 DEF decodeInsnType32
<1>4. ASSUME \A b \in 24..31 : b \in w <=> b \in {31, 30, 29, 27, 25, 24}
      PROVE  decodeInsnType32(w) = "BL"
  <2>1. Under(w, 24..27, {27, 25, 24}) /\ ~Under(w, 24..27, {27, 25})
    BY <1>4 DEF Under
  <2> QED
    BY <1>2, <1>4, <2>1 DEF decodeInsnType32
<1>5. ASSUME \A b \in 20..31 : b \in w <=> b \in {31, 30, 29, 26, 24, 23, 20}, OfPc(w)
      PROVE  decodeInsnType32(w) = "LDR_LITERAL"
  <2>1. AluType(w) = "UNKNOWN"
    BY <1>5 DEF AluType, Under
  <2>2. Under(w, {27, 26, 22, 20}, {26, 20})
    BY <1>5 DEF Under
  <2>3. TransferType(w) = "LDR_LITERAL"
    <3>1. /\ ~Under(w, {27, 26, 22, 20}, {26}) /\ ~Under(w, {27, 26, 22, 20}, {26, 22, 20})
          /\ ~Under(w, {27, 26, 22, 20}, {26, 22})
      BY <2>2 DEF Under
    <3>2. \A v : 26 \notin v => ~Under(w, 24..27 \cup {20} \cup 4..7, v)
      BY <1>5 DEF Under
    <3> QED
      BY <1>5, <2>2, <3>1, <3>2 DEF TransferType
  <2>4. ~Under(w, 24..27, {27, 25}) /\ ~Under(w, 24..27, {27, 25, 24})
    BY <1>5 DEF Under
  <2> QED
    BY <2>1, <2>3, <2>4 DEF decodeInsnType32
<1>6. ASSUME \A b \in 20..31 : b \in w <=> b \in {31, 30, 29, 25, 22}, OfPc(w)
      PROVE  decodeInsnType32(w) = "ADR"
  <2>1. Under(w, 21..24 \cup {27, 26}, {22})
    BY <1>6 DEF Under
  <2>2. ~Under(w, 21..24 \cup {27, 26}, {23}) /\ ~Under(w, 21..24 \cup {27, 26}, {24, 23, 21})
    BY <1>6 DEF Under
  <2>3. AluType(w) = "ADR"
    BY <1>6, <2>1, <2>2 DEF AluType
  <2>4. ~Under(w, 24..27, {27, 25}) /\ ~Under(w, 24..27, {27, 25, 24})
    BY <1>6 DEF Under
  <2> QED
    BY <2>3, <2>4 DEF decodeInsnType32
<1> QED
  BY <1>1, <1>3, <1>4, <1>5, <1>6

-----------------------------------------------------------------------------
(* Fields and operands                                                     *)

\* An assembled instruction gives back its immediate from its field, and has the
\* bits of its form everywhere else.
LEMMA Fields ==
  ASSUME NEW f \in Forms64 \cup Forms32, f.width # 21, NEW n, NEW w, w = Assemble(f, n)
  PROVE  /\ bits(w, f.lo + f.width - 1, f.lo) = IntBits(n \div f.unit) \cap 0..(f.width - 1)
         /\ \A b \in Nat : b < f.lo \/ b >= f.lo + f.width => (b \in w <=> b \in f.set)
<1> DEFINE F == IntBits(n \div f.unit) \cap 0..(f.width - 1)
           lo == f.lo
           width == f.width
           S == f.set
<1>1. w = S \cup {b + lo : b \in F}
  BY DEF Assemble
<1>2. F \subseteq 0..(width - 1) /\ S \subseteq 0..31 /\ lo \in Nat /\ width \in 1..30
      /\ \A b \in S : b < lo \/ b >= lo + width
  BY FormPlaces
<1> HIDE DEF F, lo, width, S
<1>3. \A b \in Nat : b < lo \/ b >= lo + width => (b \in w <=> b \in S)
  BY <1>1, <1>2
<1>4. ASSUME NEW b \in 0..(width - 1) PROVE b + lo \in w <=> b \in F
  BY <1>1, <1>2
<1>5. bits(w, lo + width - 1, lo) = {b \in 0..(width - 1) : b + lo \in w}
  <2>1. (lo + width - 1) - lo = width - 1
    BY <1>2
  <2> QED
    BY <2>1 DEF bits
<1>6. bits(w, lo + width - 1, lo) = F
  BY <1>2, <1>4, <1>5
<1> QED
  BY <1>3, <1>6 DEF F, lo, width, S

\* The two addresses have theirs in two pieces.
LEMMA SplitField ==
  ASSUME NEW f \in Forms64, f.width = 21, NEW n, NEW w, w = Assemble(f, n)
  PROVE  /\ Shl(bits(w, 23, 5), 2) \cup bits(w, 30, 29) = IntBits(n \div f.unit) \cap 0..20
         /\ \A b \in 24..28 \cup {31} : b \in w <=> b \in f.set
<1> DEFINE F == IntBits(n \div f.unit) \cap 0..20
           S == f.set
<1>1. w = S \cup {b + 3 : b \in F \ 0..1} \cup {b + 29 : b \in F \cap 0..1}
  BY DEF Assemble
<1>2. F \subseteq 0..20 /\ S \subseteq {28, 31}
  BY FormPlaces
<1> HIDE DEF F, S
<1>3. \A b \in 24..28 \cup {31} : b \in w <=> b \in S
  BY <1>1, <1>2
<1>4. \A b \in 2..20 : b + 3 \in w <=> b \in F
  BY <1>1, <1>2
<1>5. \A b \in 0..1 : b + 29 \in w <=> b \in F
  BY <1>1, <1>2
<1>6. Shl(bits(w, 23, 5), 2) = F \cap 2..20
  <2>1. ASSUME NEW b \in 0..63 PROVE b \in Shl(bits(w, 23, 5), 2) <=> b \in F /\ b \in 2..20
    <3>1. b \in Shl(bits(w, 23, 5), 2) <=> b - 2 \in 0..18 /\ (b - 2) + 5 \in w
      BY DEF Shl, bits
    <3>2. b - 2 \in 0..18 <=> b \in 2..20
      OBVIOUS
    <3>3. (b - 2) + 5 = b + 3
      OBVIOUS
    <3> QED
      BY <1>4, <3>1, <3>2, <3>3
  <2>2. Shl(bits(w, 23, 5), 2) \subseteq 0..63 /\ F \cap 2..20 \subseteq 0..63
    BY DEF Shl
  <2> QED
    BY <2>1, <2>2
<1>7. bits(w, 30, 29) = F \cap 0..1
  BY <1>5 DEF bits
<1>8. F = (F \cap 2..20) \cup (F \cap 0..1)
  <2>1. \A b \in F : b \in 2..20 \/ b \in 0..1
    BY <1>2
  <2> QED
    BY <2>1
<1> QED
  BY <1>3, <1>6, <1>7, <1>8 DEF F, S

\* What an operand that fits is of its field.
LEMMA Operands ==
  ASSUME NEW f \in Forms64 \cup Forms32, NEW n \in Int, Fits(f, n)
  PROVE  LET m == n \div f.unit
             field == IntBits(m) \cap 0..(f.width - 1)
         IN /\ m \in Int /\ n = f.unit * m
            /\ f.signed => signExtend(field, f.width) = IntBits(m)
            /\ ~f.signed => field = IntBits(m)
<1> DEFINE m == n \div f.unit
           field == IntBits(m) \cap 0..(f.width - 1)
<1>1. m \in Int /\ n = f.unit * m
  <2>1. f.unit \in {1, 4, 8, 4096, 65536} /\ n % f.unit = 0
    BY FormPlaces DEF Fits
  <2>2. /\ n % 1 = 0 => n \div 1 \in Int /\ n = 1 * (n \div 1)
        /\ n % 4 = 0 => n \div 4 \in Int /\ n = 4 * (n \div 4)
        /\ n % 8 = 0 => n \div 8 \in Int /\ n = 8 * (n \div 8)
        /\ n % 4096 = 0 => n \div 4096 \in Int /\ n = 4096 * (n \div 4096)
        /\ n % 65536 = 0 => n \div 65536 \in Int /\ n = 65536 * (n \div 65536)
    OBVIOUS
  <2>3. ASSUME NEW u \in {1, 4, 8, 4096, 65536}, n % u = 0
        PROVE  n \div u \in Int /\ n = u * (n \div u)
    BY <2>2, <2>3
  <2> QED
    BY <2>1, <2>3
<1>2. f.width \in 1..30 /\ f.width \in 0..30 /\ f.width \in 1..31
  BY FormPlaces
<1>3. ASSUME f.signed PROVE signExtend(field, f.width) = IntBits(m)
  <2>1. m \in (-Power[f.width - 1])..(Power[f.width - 1] - 1)
    BY <1>3 DEF Fits
  <2> HIDE DEF m
  <2> QED
    BY <1>2, <2>1, SignedBits
<1>4. ASSUME ~f.signed PROVE field = IntBits(m)
  <2>1. m \in 0..(Power[f.width] - 1)
    BY <1>4 DEF Fits
  <2> HIDE DEF m
  <2>2. IntBits(m) \subseteq 0..(f.width - 1)
    BY <1>2, <2>1, UnsignedBits
  <2> QED
    BY <2>2
<1> QED
  BY <1>1, <1>3, <1>4

\* A shift by nothing.
LEMMA ShlNone ==
  ASSUME NEW v \in SUBSET (0..63)
  PROVE  Shl(v, 0) = v
<1>1. \A b \in 0..63 : b - 0 = b
  OBVIOUS
<1>2. \A b \in 0..63 : b \in Shl(v, 0) <=> b \in v
  BY <1>1 DEF Shl
<1>3. Shl(v, 0) \subseteq 0..63
  BY DEF Shl
<1> QED
  BY <1>2, <1>3

-----------------------------------------------------------------------------
(* Every form of AArch64 is read back                                      *)

\* What decodeInsn makes of a word: the form it came from, and its operand.
Decoded64(w, f, n) ==
  /\ decodeInsnType(w) = f.type
  /\ Immediates64(w, f.type) = {IntBits(n)}

\* ADR and ADRP are decoded as they were assembled.
LEMMA Addresses64 ==
  ASSUME NEW f \in Forms64, f.width = 21, NEW n \in Int, Fits(f, n), NEW w, w = Assemble(f, n)
  PROVE  Decoded64(w, f, n)
<1> DEFINE adr == signExtend(Shl(bits(w, 23, 5), 2) \cup bits(w, 30, 29), 21)
           Adr == Form({28}, 5, 21, 1, TRUE, "ADR", "none")
           Adrp == Form({31, 28}, 5, 21, 4096, TRUE, "ADRP", "none")
           m == n \div f.unit
<1>1. \/ f = Adr
      \/ f = Adrp
  BY DEF Forms64, Form
<1>2. f.signed /\ f \in Forms64 \cup Forms32
  BY <1>1 DEF Form
<1>3. m \in Int /\ n = f.unit * m /\ adr = IntBits(m)
  <2>1. /\ m \in Int /\ n = f.unit * m
        /\ signExtend(IntBits(m) \cap 0..(f.width - 1), f.width) = IntBits(m)
    BY <1>2, Operands
  <2>2. adr = signExtend(IntBits(m) \cap 0..20, 21)
    BY SplitField
  <2>3. f.width - 1 = 20
    OBVIOUS
  <2> QED
    BY <2>1, <2>2, <2>3
<1>4. \A b \in 24..28 \cup {31} : b \in w <=> b \in f.set
  BY SplitField
<1> HIDE DEF adr, m
<1>5. CASE f = Adr
  <2>1. f.set = {28} /\ f.unit = 1 /\ f.type = Type("ADR", "none")
    BY <1>5 DEF Form
  <2>2. 31 \notin w /\ \A b \in 24..28 : b \in w <=> b = 28
    BY <1>4, <2>1
  <2>3. Immediates64(w, f.type) = {adr}
    BY <2>1 DEF Immediates64, Type, UNKNOWN, adr
  <2>4. m = n
    BY <1>3, <2>1
  <2> QED
    BY <1>3, <2>1, <2>2, <2>3, <2>4, FirstTypes DEF Decoded64
<1>6. CASE f = Adrp
  <2>1. f.set = {31, 28} /\ f.unit = 4096 /\ f.type = Type("ADRP", "none")
    BY <1>6 DEF Form
  <2>2. 31 \in w /\ \A b \in 24..28 : b \in w <=> b = 28
    BY <1>4, <2>1
  <2>3. Immediates64(w, f.type) = {Shl(adr, 12)}
    BY <2>1 DEF Immediates64, Type, UNKNOWN, adr
  <2>4. Shl(adr, 12) = IntBits(n)
    BY <1>3, <2>1, ScaledBits
  <2> QED
    BY <2>1, <2>2, <2>3, <2>4, FirstTypes DEF Decoded64
<1> HIDE DEF Adr, Adrp
<1> QED
  BY <1>1, <1>5, <1>6

\* So are ADD, SUB and MOVZ, shifted or not.
LEMMA Arithmetic64 ==
  ASSUME NEW f \in Forms64, f.type.op \in {"ADD", "SUB", "MOVZ"},
         NEW n \in Int, Fits(f, n), NEW w, w = Assemble(f, n)
  PROVE  Decoded64(w, f, n)
<1> DEFINE m == n \div f.unit
           Add == Form({31, 28, 24}, 10, 12, 1, FALSE, "ADD", "none")
           Sub == Form({30, 28, 24, 22}, 10, 12, 4096, FALSE, "SUB", "none")
           Movz == Form({31, 30, 28, 25, 23}, 5, 16, 1, FALSE, "MOVZ", "none")
           MovzHigh == Form({31, 30, 28, 25, 23, 21}, 5, 16, 65536, FALSE, "MOVZ", "none")
           F == bits(w, f.lo + f.width - 1, f.lo)
<1>1. \/ f = Add
      \/ f = Sub
      \/ f = Movz
      \/ f = MovzHigh
  BY DEF Forms64, Form, Type
<1>2. ~f.signed /\ f \in Forms64 \cup Forms32 /\ f.width # 21
  BY <1>1 DEF Form
<1>3. m \in Int /\ n = f.unit * m /\ F = IntBits(m)
  BY <1>2, Operands, Fields
<1>4. \A b \in Nat : b < f.lo \/ b >= f.lo + f.width => (b \in w <=> b \in f.set)
  BY <1>2, Fields
<1> HIDE DEF F, m
<1>5. CASE f = Add
  <2>1. f.set = {31, 28, 24} /\ f.lo = 10 /\ f.width = 12 /\ f.unit = 1
        /\ f.type = Type("ADD", "none")
    BY <1>5 DEF Form
  <2>2. \A b \in 22..30 : b \in w <=> b \in {28, 24}
    BY <1>4, <2>1
  <2>3. decodeInsnType(w) = Type("ADD", "none")
    BY <2>2, FirstTypes
  <2>4. F = bits(w, 21, 10)
    BY <2>1 DEF F
  <2>5. Immediates64(w, Type("ADD", "none")) = {bits(w, 21, 10)}
    BY <2>2 DEF Immediates64, Type, UNKNOWN, Under
  <2>6. m = n
    BY <1>3, <2>1
  <2> QED
    BY <1>3, <2>1, <2>3, <2>4, <2>5, <2>6 DEF Decoded64
<1>6. CASE f = Sub
  <2>1. f.set = {30, 28, 24, 22} /\ f.lo = 10 /\ f.width = 12 /\ f.unit = 4096
        /\ f.type = Type("SUB", "none")
    BY <1>6 DEF Form
  <2>2. \A b \in 22..30 : b \in w <=> b \in {30, 28, 24, 22}
    BY <1>4, <2>1
  <2>3. decodeInsnType(w) = Type("SUB", "none")
    BY <2>2, FirstTypes
  <2>4. F = bits(w, 21, 10)
    BY <2>1 DEF F
  <2>5. Under(w, {23, 22}, {22})
    BY <2>2 DEF Under
  <2>6. Immediates64(w, Type("SUB", "none")) = {Shl(bits(w, 21, 10), 12)}
    BY <2>5 DEF Immediates64, Type, UNKNOWN
  <2>7. Shl(F, 12) = IntBits(n)
    BY <1>3, <2>1, ScaledBits
  <2> QED
    BY <2>1, <2>3, <2>4, <2>6, <2>7 DEF Decoded64
<1>7. CASE \/ f = Movz
           \/ f = MovzHigh
  <2>1. /\ f.lo = 5 /\ f.width = 16 /\ f.type = Type("MOVZ", "none")
        /\ \/ f.set = {31, 30, 28, 25, 23} /\ f.unit = 1
           \/ f.set = {31, 30, 28, 25, 23, 21} /\ f.unit = 65536
    BY <1>7 DEF Form
  <2>2. 22 \notin w /\ \A b \in 23..30 : b \in w <=> b \in {30, 28, 25, 23}
    BY <1>4, <2>1
  <2>3. decodeInsnType(w) = Type("MOVZ", "none")
    BY <2>2, FirstTypes
  <2>4. F = bits(w, 20, 5)
    BY <2>1 DEF F
  <2>5. Immediates64(w, Type("MOVZ", "none")) = {Shl(F, 16 * Bit(w, 21))}
    BY <2>2, <2>4 DEF Immediates64, MovImmediates, Type, UNKNOWN
  <2>6. CASE f.set = {31, 30, 28, 25, 23} /\ f.unit = 1
    <3>1. 21 \notin w /\ m = n
      BY <1>3, <1>4, <2>1, <2>6
    <3>2. 16 * Bit(w, 21) = 0
      BY <3>1 DEF Bit
    <3>3. Shl(F, 0) = IntBits(n)
      BY <1>3, <3>1, ShlNone, IntBitsTypes
    <3> QED
      BY <2>1, <2>3, <2>5, <3>2, <3>3 DEF Decoded64
  <2>7. CASE f.set = {31, 30, 28, 25, 23, 21} /\ f.unit = 65536
    <3>1. 21 \in w
      BY <1>4, <2>1, <2>7
    <3>2. 16 * Bit(w, 21) = 16
      BY <3>1 DEF Bit
    <3>3. Shl(F, 16) = IntBits(n)
      BY <1>3, <2>7, ScaledBits
    <3> QED
      BY <2>1, <2>3, <2>5, <3>2, <3>3 DEF Decoded64
  <2> QED
    BY <2>1, <2>6, <2>7
<1> HIDE DEF Add, Sub, Movz, MovzHigh
<1> QED
  BY <1>1, <1>5, <1>6, <1>7

\* The immediates of loads and stores.
LEMMA LoadImmediates ==
  ASSUME NEW w
  PROVE  /\ \A op \in {"LDR", "STRB", "LDRSW"} :
              Immediates64(w, Type(op, "uimm")) = {Shl(bits(w, 21, 10), Size(w))}
         /\ \A t \in {Type("LDRH", "post"), Type("STR", "pre"), Type("LDRSB", "unscaled")} :
              Immediates64(w, t) = {signExtend(bits(w, 20, 12), 9)}
         /\ Immediates64(w, Type("LDR", "literal")) = {Displacement(w, 23, 5)}
<1>1. \A op \in {"LDR", "STRB", "LDRSW"} :
        Immediates64(w, Type(op, "uimm")) = {Shl(bits(w, 21, 10), Size(w))}
  BY DEF Immediates64, Type, UNKNOWN
<1>2. \A t \in {Type("LDRH", "post"), Type("STR", "pre"), Type("LDRSB", "unscaled")} :
        Immediates64(w, t) = {signExtend(bits(w, 20, 12), 9)}
  BY DEF Immediates64, Type, UNKNOWN
<1>3. Immediates64(w, Type("LDR", "literal")) = {Displacement(w, 23, 5)}
  BY DEF Immediates64, Type, UNKNOWN
<1> QED
  BY <1>1, <1>2, <1>3

\* Loads and stores with an offset in units of their size.
LEMMA Scaled64 ==
  ASSUME NEW f \in Forms64, f.type.mode = "uimm",
         NEW n \in Int, Fits(f, n), NEW w, w = Assemble(f, n)
  PROVE  Decoded64(w, f, n)
<1> DEFINE m == n \div f.unit
           F == bits(w, f.lo + f.width - 1, f.lo)
<1>1. \/ f = Form({31, 30, 29, 28, 27, 24, 22}, 10, 12, 8, FALSE, "LDR", "uimm")
      \/ f = Form({29, 28, 27, 24}, 10, 12, 1, FALSE, "STRB", "uimm")
      \/ f = Form({31, 29, 28, 27, 24, 23}, 10, 12, 4, FALSE, "LDRSW", "uimm")
  BY DEF Forms64, Form, Type
<1>2. ~f.signed /\ f \in Forms64 \cup Forms32 /\ f.width = 12 /\ f.lo = 10
  BY <1>1 DEF Form
<1>3. m \in Int /\ n = f.unit * m /\ F = IntBits(m)
  <2>1. m \in Int /\ n = f.unit * m /\ IntBits(m) \cap 0..(f.width - 1) = IntBits(m)
    BY <1>2, Operands
  <2>2. F = IntBits(m) \cap 0..(f.width - 1)
    <3>1. f \in Forms64 \cup Forms32 /\ f.width # 21
      BY <1>2
    <3> QED
      BY <3>1, Fields
  <2> QED
    BY <2>1, <2>2
<1>4. \A b \in 22..31 : b \in w <=> b \in f.set
  <2>1. \A b \in Nat : b < 10 \/ b >= 22 => (b \in w <=> b \in f.set)
    BY <1>2, Fields
  <2> QED
    BY <2>1
<1>5. F = bits(w, 21, 10)
  BY <1>2 DEF F
<1> HIDE DEF F, m
<1>6. CASE f = Form({31, 30, 29, 28, 27, 24, 22}, 10, 12, 8, FALSE, "LDR", "uimm")
  <2>1. f.set = {31, 30, 29, 28, 27, 24, 22} /\ f.unit = 8 /\ f.type = Type("LDR", "uimm")
    BY <1>6 DEF Form
  <2>2. 27 \in w /\ \A b \in 22..31 : b \in w <=> b \in {31, 30, 29, 28, 27, 24, 22}
    BY <1>4, <2>1
  <2>3. decodeInsnType(w) = Type("LDR", "uimm") /\ Size(w) = 3
    BY <2>2, LoadTypes
  <2>4. Shl(F, 3) = IntBits(n)
    BY <1>3, <2>1, ScaledBits
  <2> QED
    BY <1>5, <2>1, <2>3, <2>4, LoadImmediates DEF Decoded64
<1>7. CASE f = Form({29, 28, 27, 24}, 10, 12, 1, FALSE, "STRB", "uimm")
  <2>1. f.set = {29, 28, 27, 24} /\ f.unit = 1 /\ f.type = Type("STRB", "uimm")
    BY <1>7 DEF Form
  <2>2. 27 \in w /\ \A b \in 22..31 : b \in w <=> b \in {29, 28, 27, 24}
    BY <1>4, <2>1
  <2>3. decodeInsnType(w) = Type("STRB", "uimm") /\ Size(w) = 0
    BY <2>2, LoadTypes
  <2>4. m = n
    BY <1>3, <2>1
  <2>5. Shl(F, 0) = IntBits(n)
    BY <1>3, <2>4, ShlNone, IntBitsTypes
  <2> QED
    BY <1>5, <2>1, <2>3, <2>5, LoadImmediates DEF Decoded64
<1>8. CASE f = Form({31, 29, 28, 27, 24, 23}, 10, 12, 4, FALSE, "LDRSW", "uimm")
  <2>1. f.set = {31, 29, 28, 27, 24, 23} /\ f.unit = 4 /\ f.type = Type("LDRSW", "uimm")
    BY <1>8 DEF Form
  <2>2. 27 \in w /\ \A b \in 22..31 : b \in w <=> b \in {31, 29, 28, 27, 24, 23}
    BY <1>4, <2>1
  <2>3. decodeInsnType(w) = Type("LDRSW", "uimm") /\ Size(w) = 2
    BY <2>2, LoadTypes
  <2>4. Shl(F, 2) = IntBits(n)
    BY <1>3, <2>1, ScaledBits
  <2> QED
    BY <1>5, <2>1, <2>3, <2>4, LoadImmediates DEF Decoded64
<1> QED
  BY <1>1, <1>6, <1>7, <1>8

\* Those with a signed offset in bytes, and those that move their base.
LEMMA Unscaled64 ==
  ASSUME NEW f \in Forms64, f.type.mode \in {"post", "pre", "unscaled"},
         NEW n \in Int, Fits(f, n), NEW w, w = Assemble(f, n)
  PROVE  Decoded64(w, f, n)
<1> DEFINE m == n \div f.unit
           F == bits(w, f.lo + f.width - 1, f.lo)
<1>1. \/ f = Form({30, 29, 28, 27, 22, 10}, 12, 9, 1, TRUE, "LDRH", "post")
      \/ f = Form({31, 29, 28, 27, 11, 10}, 12, 9, 1, TRUE, "STR", "pre")
      \/ f = Form({29, 28, 27, 23}, 12, 9, 1, TRUE, "LDRSB", "unscaled")
  BY DEF Forms64, Form, Type
<1>2. f.signed /\ f \in Forms64 \cup Forms32 /\ f.width = 9 /\ f.lo = 12 /\ f.unit = 1
  BY <1>1 DEF Form
<1>3. m \in Int /\ n = m /\ signExtend(F, 9) = IntBits(m)
  <2>1. m \in Int /\ n = f.unit * m /\ signExtend(F, f.width) = IntBits(m)
    <3>1. /\ m \in Int /\ n = f.unit * m
          /\ signExtend(IntBits(m) \cap 0..(f.width - 1), f.width) = IntBits(m)
      BY <1>2, Operands
    <3>2. F = IntBits(m) \cap 0..(f.width - 1)
      <4>1. f \in Forms64 \cup Forms32 /\ f.width # 21
        BY <1>2
      <4> QED
        BY <4>1, Fields
    <3> QED
      BY <3>1, <3>2
  <2> HIDE DEF m, F
  <2> QED
    BY <1>2, <2>1
<1>4. /\ \A b \in 22..31 : b \in w <=> b \in f.set
      /\ 10 \in w <=> 10 \in f.set
      /\ 11 \in w <=> 11 \in f.set
  <2>1. \A b \in Nat : b < 12 \/ b >= 21 => (b \in w <=> b \in f.set)
    BY <1>2, Fields
  <2> QED
    BY <2>1
<1>5. F = bits(w, 20, 12)
  BY <1>2 DEF F
<1> HIDE DEF F, m
<1>6. CASE f = Form({30, 29, 28, 27, 22, 10}, 12, 9, 1, TRUE, "LDRH", "post")
  <2>1. f.set = {30, 29, 28, 27, 22, 10} /\ f.type = Type("LDRH", "post")
    BY <1>6 DEF Form
  <2>2. /\ 27 \in w /\ 10 \in w /\ 11 \notin w
        /\ \A b \in 22..31 : b \in w <=> b \in {30, 29, 28, 27, 22}
    BY <1>4, <2>1
  <2>3. decodeInsnType(w) = Type("LDRH", "post")
    BY <2>2, LoadTypes
  <2> QED
    BY <1>3, <1>5, <2>1, <2>3, LoadImmediates DEF Decoded64
<1>7. CASE f = Form({31, 29, 28, 27, 11, 10}, 12, 9, 1, TRUE, "STR", "pre")
  <2>1. f.set = {31, 29, 28, 27, 11, 10} /\ f.type = Type("STR", "pre")
    BY <1>7 DEF Form
  <2>2. /\ 27 \in w /\ 10 \in w /\ 11 \in w
        /\ \A b \in 22..31 : b \in w <=> b \in {31, 29, 28, 27}
    BY <1>4, <2>1
  <2>3. decodeInsnType(w) = Type("STR", "pre")
    BY <2>2, LoadTypes
  <2> QED
    BY <1>3, <1>5, <2>1, <2>3, LoadImmediates DEF Decoded64
<1>8. CASE f = Form({29, 28, 27, 23}, 12, 9, 1, TRUE, "LDRSB", "unscaled")
  <2>1. f.set = {29, 28, 27, 23} /\ f.type = Type("LDRSB", "unscaled")
    BY <1>8 DEF Form
  <2>2. /\ 27 \in w /\ 10 \notin w
        /\ \A b \in 22..31 : b \in w <=> b \in {29, 28, 27, 23}
    BY <1>4, <2>1
  <2>3. decodeInsnType(w) = Type("LDRSB", "unscaled")
    BY <2>2, LoadTypes
  <2> QED
    BY <1>3, <1>5, <2>1, <2>3, LoadImmediates DEF Decoded64
<1> QED
  BY <1>1, <1>6, <1>7, <1>8

\* A displacement, counted in words.
LEMMA Displacements ==
  ASSUME NEW f \in Forms64 \cup Forms32, f.width # 21, f.signed, f.unit = 4,
         NEW n \in Int, Fits(f, n), NEW w, w = Assemble(f, n)
  PROVE  Displacement(w, f.lo + f.width - 1, f.lo) = IntBits(n)
<1> DEFINE m == n \div f.unit
           hi == f.lo + f.width - 1
           F == bits(w, hi, f.lo)
<1>1. /\ m \in Int /\ n = 4 * m
      /\ signExtend(IntBits(m) \cap 0..(f.width - 1), f.width) = IntBits(m)
  BY Operands
<1>2. F = IntBits(m) \cap 0..(f.width - 1)
  BY Fields
<1>3. hi - f.lo + 1 = f.width
  BY FormPlaces
<1>4. Displacement(w, hi, f.lo) = Shl(signExtend(F, f.width), 2)
  <2> HIDE DEF hi
  <2> QED
    BY <1>3 DEF Displacement
<1> HIDE DEF m, F, hi
<1>5. Shl(IntBits(m), 2) = IntBits(n)
  BY <1>1, ScaledBits
<1>6. Displacement(w, hi, f.lo) = IntBits(n)
  BY <1>1, <1>2, <1>4, <1>5
<1> QED
  BY <1>6 DEF hi

\* A displacement ahead of less than 2^19 has no two highest bits.
LEMMA ShortLiteral ==
  ASSUME NEW n \in 0..(Power[19] - 1), n % 4 = 0
  PROVE  IntBits(n \div 4) \subseteq 0..16
<1> DEFINE m == n \div 4
<1>1. n = 4 * m /\ m \in Int
  OBVIOUS
<1>2. Power[17 + 1] = 2 * Power[17] /\ Power[18 + 1] = 2 * Power[18]
  BY PowersAre
<1>3. Power[19] = 4 * Power[17] /\ Power[17] \in Nat /\ Power[19] \in Nat
  BY <1>2, PowersAre
<1> HIDE DEF m
<1>4. m \in 0..(Power[17] - 1)
  BY <1>1, <1>3
<1>5. IntBits(m) \subseteq 0..(17 - 1)
  BY <1>4, UnsignedBits
<1> QED
  BY <1>5 DEF m

\* The literal load, for the distances whose two highest bits are clear, as the
\* mask that recognises it has them.
LEMMA Literal64 ==
  ASSUME NEW f \in Forms64, f.type.mode = "literal",
         NEW n \in 0..(Power[19] - 1), Fits(f, n), NEW w, w = Assemble(f, n)
  PROVE  Decoded64(w, f, n)
<1>1. f = Form({30, 28, 27}, 5, 19, 4, TRUE, "LDR", "literal")
  BY DEF Forms64, Form, Type
<1>2. /\ f.signed /\ f.set = {30, 28, 27} /\ f.width = 19 /\ f.lo = 5 /\ f.unit = 4
      /\ f.type = Type("LDR", "literal")
  BY <1>1 DEF Form
<1>3. f \in Forms64 \cup Forms32 /\ f.width # 21
  BY <1>2
<1>4. n \in Int /\ Power[19] \in Nat
  BY PowersAre
<1>5. Displacement(w, 23, 5) = IntBits(n)
  <2>1. Displacement(w, f.lo + f.width - 1, f.lo) = IntBits(n)
    BY <1>2, <1>3, <1>4, Displacements
  <2>2. f.lo + f.width - 1 = 23
    BY <1>2
  <2> QED
    BY <1>2, <2>1, <2>2
<1>6. \A b \in 24..31 : b \in w <=> b \in {30, 28, 27}
  <2>1. \A b \in Nat : b < f.lo \/ b >= f.lo + f.width => (b \in w <=> b \in f.set)
    BY <1>3, Fields
  <2> QED
    BY <1>2, <2>1
<1>7. 22 \notin w /\ 23 \notin w
  <2>1. IntBits(n \div 4) \subseteq 0..16
    BY <1>2, ShortLiteral DEF Fits
  <2>2. bits(w, f.lo + f.width - 1, f.lo) = IntBits(n \div f.unit) \cap 0..(f.width - 1)
    BY <1>3, Fields
  <2>3. f.lo + f.width - 1 = 23
    BY <1>2
  <2>4. bits(w, 23, 5) \subseteq 0..16
    BY <1>2, <2>1, <2>2, <2>3
  <2>5. /\ 17 + 5 \in w => 17 \in bits(w, 23, 5)
        /\ 18 + 5 \in w => 18 \in bits(w, 23, 5)
    BY DEF bits
  <2>6. 17 \notin 0..16 /\ 18 \notin 0..16 /\ 17 + 5 = 22 /\ 18 + 5 = 23
    OBVIOUS
  <2> QED
    BY <2>4, <2>5, <2>6
<1>8. 27 \in w /\ \A b \in 22..31 : b \in w <=> b \in {30, 28, 27}
  BY <1>6, <1>7
<1> QED
  BY <1>2, <1>5, <1>8, LoadTypes, LoadImmediates DEF Decoded64

\* Where the jumps have their distance.
LEMMA JumpImmediates ==
  ASSUME NEW w
  PROVE  /\ \A op \in {"B", "BL"} : Immediates64(w, Type(op, "none")) = {Displacement(w, 25, 0)}
         /\ \A op \in {"B_COND", "CBZ"} :
              Immediates64(w, Type(op, "none")) = {Displacement(w, 23, 5)}
         /\ Immediates64(w, Type("TBNZ", "none")) = {Displacement(w, 18, 5)}
<1>1. \A op \in {"B", "BL"} : Immediates64(w, Type(op, "none")) = {Displacement(w, 25, 0)}
  BY DEF Immediates64, Type, UNKNOWN
<1>2. \A op \in {"B_COND", "CBZ"} : Immediates64(w, Type(op, "none")) = {Displacement(w, 23, 5)}
  BY DEF Immediates64, Type, UNKNOWN
<1>3. Immediates64(w, Type("TBNZ", "none")) = {Displacement(w, 18, 5)}
  BY DEF Immediates64, Type, UNKNOWN
<1> QED
  BY <1>1, <1>2, <1>3

\* Jumps are decoded as they were assembled.
LEMMA Jumps64 ==
  ASSUME NEW f \in Forms64, f.type.op \in {"B", "BL", "B_COND", "CBZ", "TBNZ"},
         NEW n \in Int, Fits(f, n), NEW w, w = Assemble(f, n)
  PROVE  Decoded64(w, f, n)
<1>1. /\ f.signed /\ f.unit = 4
      /\ \/ /\ f.set = {28, 26} /\ f.lo = 0 /\ f.width = 26 /\ f.type = Type("B", "none")
         \/ /\ f.set = {31, 28, 26} /\ f.lo = 0 /\ f.width = 26 /\ f.type = Type("BL", "none")
         \/ /\ f.set = {30, 28, 26} /\ f.lo = 5 /\ f.width = 19 /\ f.type = Type("B_COND", "none")
         \/ /\ f.set = {31, 29, 28, 26} /\ f.lo = 5 /\ f.width = 19 /\ f.type = Type("CBZ", "none")
         \/ /\ f.set = {29, 28, 26, 25, 24} /\ f.lo = 5 /\ f.width = 14
            /\ f.type = Type("TBNZ", "none")
  BY DEF Forms64, Form, Type
<1>2. f \in Forms64 \cup Forms32 /\ f.width # 21
  BY <1>1
<1>3. Displacement(w, f.lo + f.width - 1, f.lo) = IntBits(n)
  BY <1>1, <1>2, Displacements
<1>4. \A b \in Nat : b < f.lo \/ b >= f.lo + f.width => (b \in w <=> b \in f.set)
  BY <1>2, Fields
<1>5. CASE f.set = {28, 26} /\ f.lo = 0 /\ f.width = 26 /\ f.type = Type("B", "none")
  <2>1. \A b \in 26..31 : b \in w <=> b \in {28, 26}
    BY <1>4, <1>5
  <2>2. Displacement(w, 25, 0) = IntBits(n)
    BY <1>3, <1>5
  <2> QED
    BY <1>5, <2>1, <2>2, JumpTypes, JumpImmediates DEF Decoded64
<1>6. CASE f.set = {31, 28, 26} /\ f.lo = 0 /\ f.width = 26 /\ f.type = Type("BL", "none")
  <2>1. \A b \in 26..31 : b \in w <=> b \in {31, 28, 26}
    BY <1>4, <1>6
  <2>2. Displacement(w, 25, 0) = IntBits(n)
    BY <1>3, <1>6
  <2> QED
    BY <1>6, <2>1, <2>2, JumpTypes, JumpImmediates DEF Decoded64
<1>7. CASE f.set = {30, 28, 26} /\ f.lo = 5 /\ f.width = 19 /\ f.type = Type("B_COND", "none")
  <2>1. 4 \notin w /\ \A b \in 24..31 : b \in w <=> b \in {30, 28, 26}
    BY <1>4, <1>7
  <2>2. Displacement(w, 23, 5) = IntBits(n)
    BY <1>3, <1>7
  <2> QED
    BY <1>7, <2>1, <2>2, JumpTypes, JumpImmediates DEF Decoded64
<1>8. CASE f.set = {31, 29, 28, 26} /\ f.lo = 5 /\ f.width = 19 /\ f.type = Type("CBZ", "none")
  <2>1. \A b \in 24..31 : b \in w <=> b \in {31, 29, 28, 26}
    BY <1>4, <1>8
  <2>2. Displacement(w, 23, 5) = IntBits(n)
    BY <1>3, <1>8
  <2> QED
    BY <1>8, <2>1, <2>2, JumpTypes, JumpImmediates DEF Decoded64
<1>9. CASE f.set = {29, 28, 26, 25, 24} /\ f.lo = 5 /\ f.width = 14
           /\ f.type = Type("TBNZ", "none")
  <2>1. \A b \in 24..31 : b \in w <=> b \in {29, 28, 26, 25, 24}
    BY <1>4, <1>9
  <2>2. Displacement(w, 18, 5) = IntBits(n)
    BY <1>3, <1>9
  <2> QED
    BY <1>9, <2>1, <2>2, JumpTypes, JumpImmediates DEF Decoded64
<1> QED
  BY <1>1, <1>5, <1>6, <1>7, <1>8, <1>9

\* Every form of AArch64 is decoded to itself and its operand.
LEMMA Forms64Decoded ==
  ASSUME NEW f \in Forms64, NEW n \in Int, Fits(f, n), NEW w, w = Assemble(f, n),
         f.type.mode = "literal" => n \in 0..(Power[19] - 1)
  PROVE  Decoded64(w, f, n)
<1>1. \/ f.width = 21
      \/ f.type.op \in {"ADD", "SUB", "MOVZ"}
      \/ f.type.mode = "uimm"
      \/ f.type.mode \in {"post", "pre", "unscaled"}
      \/ f.type.mode = "literal"
      \/ f.type.op \in {"B", "BL", "B_COND", "CBZ", "TBNZ"}
  BY DEF Forms64, Form, Type
<1> QED
  BY <1>1, Addresses64, Arithmetic64, Scaled64, Unscaled64, Literal64, Jumps64

-----------------------------------------------------------------------------
(* Targets, and the forms of Arm                                           *)

\* The instructions that refer to a place, and the address it is reckoned from.
Refers(type) ==
  \/ type.mode = "literal"
  \/ type.op \in {"ADR", "ADRP", "LDR_LITERAL", "B", "BL", "B_COND", "CBZ", "TBNZ"}

\* The address an instruction refers to is the number it was meant to be.
LEMMA Targets64 ==
  ASSUME NEW f \in Forms64, NEW n \in Int, NEW at \in Nat, Refers(f.type)
  PROVE  Target64(f.type, IntBits(at), IntBits(n))
           = IntBits((IF f.type.op = "ADRP" THEN at - (at % 4096) ELSE at) + n)
<1>1. CASE f.type.op = "ADRP"
  <2> DEFINE page == at - (at % 4096)
  <2>1. page \in Int
    OBVIOUS
  <2>2. Target64(f.type, IntBits(at), IntBits(n)) = Plus(IntBits(at) \ 0..11, IntBits(n))
    <3>1. f.type.mode # "literal"
      BY <1>1 DEF Forms64, Form, Type
    <3> QED
      BY <1>1, <3>1 DEF Target64
  <2>3. IntBits(at) \ 0..11 = IntBits(page)
    BY PageBits
  <2>4. (IF f.type.op = "ADRP" THEN page ELSE at) = page
    BY <1>1
  <2> HIDE DEF page
  <2>5. Plus(IntBits(page), IntBits(n)) = IntBits(page + n)
    BY <2>1, PlusBits
  <2>6. Target64(f.type, IntBits(at), IntBits(n))
          = IntBits((IF f.type.op = "ADRP" THEN page ELSE at) + n)
    BY <2>2, <2>3, <2>4, <2>5
  <2> QED
    BY <2>6 DEF page
<1>2. CASE f.type.op # "ADRP"
  <2>1. \/ f.type.mode = "literal"
        \/ f.type.op \in {"ADR", "B", "BL", "B_COND", "CBZ", "CBNZ", "TBZ", "TBNZ"}
    <3>1. f.type.op # "LDR_LITERAL"
      BY DEF Forms64, Form, Type
    <3> QED
      BY <1>2, <3>1 DEF Refers
  <2>2. Target64(f.type, IntBits(at), IntBits(n)) = Plus(IntBits(at), IntBits(n))
    BY <1>2, <2>1 DEF Target64
  <2>3. Plus(IntBits(at), IntBits(n)) = IntBits(at + n)
    BY PlusBits
  <2> QED
    BY <1>2, <2>2, <2>3
<1> QED
  BY <1>1, <1>2

\* What an Arm word is decoded to.
LEMMA Forms32Decoded ==
  ASSUME NEW f \in Forms32, NEW n \in Int, Fits(f, n), NEW w, w = Assemble(f, n)
  PROVE  /\ Type(decodeInsnType32(w), "none") = f.type
         /\ Immediate32(w, decodeInsnType32(w)) = Low(IntBits(n))
         /\ Refers(f.type) => \/ decodeInsnType32(w) \in {"B", "BL"}
                              \/ OfPc(w) /\ decodeInsnType32(w) \in {"ADR", "LDR_LITERAL"}
<1> DEFINE m == n \div f.unit
           F == bits(w, f.lo + f.width - 1, f.lo)
           op == decodeInsnType32(w)
<1>1. /\ f.width # 21
      /\ f.lo = 0
      /\ \/ /\ f.set \in {{31, 30, 29, 25, 23}, {31, 30, 29, 25, 23} \cup 16..19,
                           {31, 30, 29, 25, 22} \cup 16..19}
            /\ f.width = 8 /\ f.unit = 1 /\ ~f.signed
            /\ f.type = Type(IF 16..19 \subseteq f.set THEN "ADR" ELSE "ADD", "none")
         \/ /\ f.set = {31, 30, 29, 27, 25} /\ f.width = 24 /\ f.unit = 4 /\ f.signed
            /\ f.type = Type("B", "none")
         \/ /\ f.set = {31, 30, 29, 27, 25, 24} /\ f.width = 24 /\ f.unit = 4 /\ f.signed
            /\ f.type = Type("BL", "none")
         \/ /\ f.set = {31, 30, 29, 26, 24, 23, 20} \cup 16..19
            /\ f.width = 12 /\ f.unit = 1 /\ ~f.signed
            /\ f.type = Type("LDR_LITERAL", "none")
  BY DEF Forms32, SubFromPc, Form
<1>2. f \in Forms64 \cup Forms32 /\ f.width # 21
  BY <1>1
<1>3. \A b \in Nat : b >= f.width => (b \in w <=> b \in f.set)
  <2>1. \A b \in Nat : b < f.lo \/ b >= f.lo + f.width => (b \in w <=> b \in f.set)
    BY <1>2, Fields
  <2>2. f.lo + f.width = f.width
    BY <1>1
  <2> QED
    BY <2>1, <2>2
<1>4. ~f.signed /\ f.unit = 1 => F = IntBits(n) /\ F \subseteq 0..(f.width - 1)
  <2>1. m \in Int /\ n = f.unit * m /\ (~f.signed => IntBits(m) \cap 0..(f.width - 1) = IntBits(m))
    BY <1>2, Operands
  <2>2. F = IntBits(m) \cap 0..(f.width - 1)
    BY <1>2, Fields
  <2> HIDE DEF F, m
  <2>3. f.unit = 1 => n = m
    BY <2>1
  <2> QED
    BY <2>1, <2>2, <2>3
<1>5. f.signed /\ f.unit = 4 => Displacement(w, f.lo + f.width - 1, f.lo) = IntBits(n)
  BY <1>2, Displacements
<1>6. CASE /\ f.set \in {{31, 30, 29, 25, 23}, {31, 30, 29, 25, 23} \cup 16..19,
                       {31, 30, 29, 25, 22} \cup 16..19}
           /\ f.width = 8 /\ f.unit = 1 /\ ~f.signed
           /\ f.type = Type(IF 16..19 \subseteq f.set THEN "ADR" ELSE "ADD", "none")
  <2>2. OfPc(w) <=> 16..19 \subseteq f.set
    BY <1>3, <1>6 DEF OfPc
  <2>1. \/ \A b \in 20..31 : b \in w <=> b \in {31, 30, 29, 25, 23}
        \/ OfPc(w) /\ \A b \in 20..31 : b \in w <=> b \in {31, 30, 29, 25, 22}
    <3>1. \A b \in 20..31 : b \in w <=> b \in f.set
      BY <1>3, <1>6
    <3>2. CASE 16..19 \subseteq f.set /\ f.set = {31, 30, 29, 25, 22} \cup 16..19
      BY <2>2, <3>1, <3>2
    <3>3. CASE f.set \in {{31, 30, 29, 25, 23}, {31, 30, 29, 25, 23} \cup 16..19}
      BY <3>1, <3>3
    <3> QED
      BY <1>6, <3>2, <3>3
  <2>3. op = IF OfPc(w) THEN "ADR" ELSE "ADD"
    BY <2>1, ArmTypes
  <2>4. F = bits(w, 7, 0) /\ F = IntBits(n) /\ F \subseteq 0..7
    BY <1>1, <1>4, <1>6
  <2>5. 8 \notin w /\ 9 \notin w /\ 10 \notin w /\ 11 \notin w /\ 25 \in w
    BY <1>3, <1>6
  <2>6. Immediate32(w, op) = ror32(bits(w, 7, 0), 0)
    <3>1. 2 * (8 * Bit(w, 11) + 4 * Bit(w, 10) + 2 * Bit(w, 9) + Bit(w, 8)) = 0
      BY <2>5 DEF Bit
    <3> HIDE DEF op
    <3> QED
      BY <2>3, <2>5, <3>1 DEF Immediate32
  <2>7. ror32(IntBits(n), 0) = IntBits(n)
    <3>1. \A b \in 0..31 : (b + 0) % 32 = b
      OBVIOUS
    <3>2. \A b \in IntBits(n) : b \in 0..31
      BY <2>4
    <3> QED
      BY <3>1, <3>2 DEF ror32
  <2>8. Low(IntBits(n)) = IntBits(n)
    BY <2>4 DEF Low
  <2>9. Type(op, "none") = f.type
    BY <1>6, <2>2, <2>3
  <2>10. Refers(f.type) => OfPc(w) /\ op = "ADR"
    BY <2>3, <2>9 DEF Refers, Type
  <2> QED
    BY <2>4, <2>6, <2>7, <2>8, <2>9, <2>10
<1>7. CASE /\ f.width = 24 /\ f.unit = 4 /\ f.signed
           /\ \/ f.set = {31, 30, 29, 27, 25} /\ f.type = Type("B", "none")
              \/ f.set = {31, 30, 29, 27, 25, 24} /\ f.type = Type("BL", "none")
  <2>1. f.set = {31, 30, 29, 27, 25} => op = "B"
    <3>1. f.set = {31, 30, 29, 27, 25} =>
            \A b \in 24..31 : b \in w <=> b \in {31, 30, 29, 27, 25}
      BY <1>3, <1>7
    <3> QED
      BY <3>1, ArmTypes
  <2>2. f.set = {31, 30, 29, 27, 25, 24} => op = "BL"
    <3>1. f.set = {31, 30, 29, 27, 25, 24} =>
            \A b \in 24..31 : b \in w <=> b \in {31, 30, 29, 27, 25, 24}
      BY <1>3, <1>7
    <3> QED
      BY <3>1, ArmTypes
  <2>3. Displacement(w, 23, 0) = IntBits(n)
    BY <1>1, <1>5, <1>7
  <2> HIDE DEF op
  <2>4. op \in {"B", "BL"} /\ Type(op, "none") = f.type
    BY <1>7, <2>1, <2>2
  <2>5. Immediate32(w, op) = Low(Displacement(w, 23, 0))
    BY <2>4 DEF Immediate32
  <2> QED
    BY <2>3, <2>4, <2>5 DEF op
<1>8. CASE /\ f.set = {31, 30, 29, 26, 24, 23, 20} \cup 16..19
           /\ f.width = 12 /\ f.unit = 1 /\ ~f.signed
           /\ f.type = Type("LDR_LITERAL", "none")
  <2>1. \A b \in 20..31 : b \in w <=> b \in {31, 30, 29, 26, 24, 23, 20}
    BY <1>3, <1>8
  <2>2. OfPc(w) /\ 23 \in w
    BY <1>3, <1>8 DEF OfPc
  <2>3. op = "LDR_LITERAL"
    BY <2>1, <2>2, ArmTypes
  <2>4. F = bits(w, 11, 0) /\ F = IntBits(n) /\ F \subseteq 0..11
    BY <1>1, <1>4, <1>8
  <2>5. Immediate32(w, op) = bits(w, 11, 0)
    <3> HIDE DEF op
    <3> QED
      BY <2>2, <2>3 DEF Immediate32
  <2>6. Low(IntBits(n)) = IntBits(n)
    BY <2>4 DEF Low
  <2> QED
    BY <1>8, <2>2, <2>3, <2>4, <2>5, <2>6
<1> QED
  BY <1>1, <1>6, <1>7, <1>8

\* What has been decoded was assembled from the form and the operand meant.
MeantInv ==
  /\ isa \in {"A64", "A32"}
  /\ insn # None => IF isa = "A64" THEN insn \in Insns64(word, address)
                                   ELSE insn = Insn32(word, address)
  /\ meant # None =>
       /\ meant.form \in IF isa = "A64" THEN Forms64 ELSE Forms32
       /\ meant.operand \in Values
       /\ meant.at \in Addresses
       /\ Fits(meant.form, meant.operand)
       /\ word = Assemble(meant.form, meant.operand)
       /\ address = IntBits(meant.at)

\* Whatever is assembled is read back, in the mode of 64 bits.
LEMMA Reads64 ==
  ASSUME NEW f \in Forms64, NEW n \in Int, Fits(f, n), NEW w, w = Assemble(f, n),
         f.type.mode = "literal" => n \in 0..(Power[19] - 1),
         NEW at \in Nat, NEW i \in Insns64(w, IntBits(at))
  PROVE  /\ i.type = f.type
         /\ i.immediate = IntBits(n)
         /\ Refers(f.type) =>
              i.target = IntBits((IF f.type.op = "ADRP" THEN at - (at % 4096) ELSE at) + n)
<1>1. decodeInsnType(w) = f.type /\ Immediates64(w, f.type) = {IntBits(n)}
  BY Forms64Decoded DEF Decoded64
<1>2. i.type = decodeInsnType(w) /\ i.immediate \in Immediates64(w, decodeInsnType(w))
      /\ i.target = Target64(decodeInsnType(w), IntBits(at), i.immediate)
  BY DEF Insns64
<1>3. i.immediate = IntBits(n)
  BY <1>1, <1>2
<1>4. i.target = Target64(f.type, IntBits(at), IntBits(n))
  BY <1>1, <1>2, <1>3
<1> QED
  BY <1>1, <1>2, <1>3, <1>4, Targets64

\* And in that of 32 bits.
LEMMA Reads32 ==
  ASSUME NEW f \in Forms32, NEW n \in Int, Fits(f, n), NEW w, w = Assemble(f, n),
         NEW at \in Nat, NEW i, i = Insn32(w, IntBits(at))
  PROVE  /\ i.type = f.type
         /\ i.immediate = Low(IntBits(n))
         /\ Refers(f.type) => i.target = Low(IntBits((at + 8) + n))
<1> DEFINE op == decodeInsnType32(w)
           imm == Immediate32(w, op)
           jumps == \/ op \in {"B", "BL", "B_COND"}
                    \/ OfPc(w) /\ op \notin {"UNKNOWN", "LDRH", "LDRSH", "LDRSB", "STRH"}
           target == IF jumps THEN Low(Plus(Plus(Low(IntBits(at)), {3}), imm)) ELSE {}
<1>1. i = [type |-> Type(op, "none"), immediate |-> imm, bitpos |-> {}, target |-> target]
  BY DEF Insn32
<1>2. Type(op, "none") = f.type /\ imm = Low(IntBits(n))
  BY Forms32Decoded
<1>3. Refers(f.type) => jumps
  BY Forms32Decoded
<1>4. Low(Plus(Plus(Low(IntBits(at)), {3}), Low(IntBits(n)))) = Low(IntBits((at + 8) + n))
  BY AheadBits
<1> HIDE DEF op, imm, jumps
<1>5. i.type = f.type /\ i.immediate = Low(IntBits(n)) /\ i.target = target
  BY <1>1, <1>2
<1>6. Refers(f.type) => target = Low(IntBits((at + 8) + n))
  BY <1>2, <1>3, <1>4
<1> HIDE DEF target
<1> QED
  BY <1>5, <1>6

\* That the word is what was assembled is all that reading it back needs.
LEMMA MeantReads == MeantInv => ReadsBack
<1> SUFFICES ASSUME MeantInv, meant # None, insn # None,
                    meant.form.type.mode = "literal" => meant.operand \in 0..(Power[19] - 1)
             PROVE  LET f == meant.form
                        n == meant.operand
                        base == CASE isa = "A32" -> meant.at + 8
                                  [] f.type.op = "ADRP" -> meant.at - (meant.at % 4096)
                                  [] OTHER -> meant.at
                    IN /\ insn.type = f.type
                       /\ insn.immediate = IntBits(n) \cap Width
                       /\ Refers(f.type) => insn.target = IntBits(base + n) \cap Width
  BY DEF ReadsBack, Refers
<1> DEFINE f == meant.form
           n == meant.operand
           at == meant.at
<1>1. n \in Int /\ at \in Nat /\ Fits(f, n) /\ word = Assemble(f, n) /\ address = IntBits(at)
  BY DecodersAssumption DEF MeantInv
<1>2. isa \in {"A64", "A32"}
  BY DEF MeantInv
<1>3. \A v : IntBits(v) \cap 0..63 = IntBits(v) /\ IntBits(v) \cap 0..31 = Low(IntBits(v))
  BY IntBitsTypes DEF Low
<1>4. CASE isa = "A64"
  <2>1. f \in Forms64 /\ insn \in Insns64(word, IntBits(at))
    BY <1>1, <1>4 DEF MeantInv
  <2>2. f.type.mode = "literal" => n \in 0..(Power[19] - 1)
    OBVIOUS
  <2> HIDE DEF f, n, at
  <2>3. /\ insn.type = f.type
        /\ insn.immediate = IntBits(n)
        /\ Refers(f.type) =>
             insn.target = IntBits((IF f.type.op = "ADRP" THEN at - (at % 4096) ELSE at) + n)
    BY <1>1, <2>1, <2>2, Reads64
  <2>4. Width = 0..63
    BY <1>4 DEF Width
  <2>5. (CASE isa = "A32" -> at + 8
           [] f.type.op = "ADRP" -> at - (at % 4096)
           [] OTHER -> at) = IF f.type.op = "ADRP" THEN at - (at % 4096) ELSE at
    BY <1>4
  <2> QED
    BY <1>3, <2>3, <2>4, <2>5 DEF f, n, at
<1>5. CASE isa = "A32"
  <2>1. f \in Forms32 /\ insn = Insn32(word, IntBits(at))
    BY <1>1, <1>5 DEF MeantInv
  <2> HIDE DEF f, n, at
  <2>2. /\ insn.type = f.type
        /\ insn.immediate = Low(IntBits(n))
        /\ Refers(f.type) => insn.target = Low(IntBits((at + 8) + n))
    BY <1>1, <2>1, Reads32
  <2>3. Width = 0..31
    BY <1>5 DEF Width
  <2>4. f.type.op # "ADRP"
    BY <2>1 DEF Forms32, SubFromPc, Form, Type
  <2>5. (CASE isa = "A32" -> at + 8
           [] f.type.op = "ADRP" -> at - (at % 4096)
           [] OTHER -> at) = at + 8
    BY <1>5, <2>4
  <2> QED
    BY <1>3, <2>2, <2>3, <2>5 DEF f, n, at
<1> QED
  BY <1>2, <1>4, <1>5

\* Every word assembled from one of the forms listed is decoded to that form, with
\* the immediate and (but for a SUB from the program counter) the target it was
\* given (ReadsBack): for every operand that fits and every address, whatever the
\* sign, the boundary or the carries.
THEOREM AssembledReadBack == Spec => []ReadsBack
<1>1. Init => MeantInv
  <2> SUFFICES ASSUME Init PROVE MeantInv
    OBVIOUS
  <2>1. isa \in {"A64", "A32"} /\ ~(insn # None)
    BY DEF Init
  <2>2. CASE meant = None
    BY <2>1, <2>2 DEF MeantInv
  <2>3. CASE \E f \in IF isa = "A64" THEN Forms64 ELSE Forms32, n \in Values, at \in Addresses :
               /\ Fits(f, n)
               /\ word = Assemble(f, n)
               /\ address = IntBits(at)
               /\ meant = [form |-> f, operand |-> n, at |-> at]
    <3>1. PICK f \in IF isa = "A64" THEN Forms64 ELSE Forms32, n \in Values, at \in Addresses :
               /\ Fits(f, n)
               /\ word = Assemble(f, n)
               /\ address = IntBits(at)
               /\ meant = [form |-> f, operand |-> n, at |-> at]
      BY <2>3
    <3>2. meant.form = f /\ meant.operand = n /\ meant.at = at
      BY <3>1
    <3> QED
      BY <2>1, <3>1, <3>2 DEF MeantInv
  <2> QED
    BY <2>2, <2>3 DEF Init
<1>2. MeantInv /\ [Next]_vars => MeantInv'
  <2> SUFFICES ASSUME MeantInv, [Next]_vars PROVE MeantInv'
    OBVIOUS
  <2>1. CASE decodeInsn
    <3>1. UNCHANGED <<word, address, isa, meant>>
      BY <2>1 DEF decodeInsn, said
    <3>2. IF isa = "A64" THEN insn' \in Insns64(word, address) ELSE insn' = Insn32(word, address)
      BY <2>1 DEF decodeInsn
    <3> QED
      BY <3>1, <3>2 DEF MeantInv
  <2>2. CASE AskArm64
    BY <2>2 DEF AskArm64, MeantInv, said
  <2>3. CASE UNCHANGED vars
    BY <2>3 DEF MeantInv, vars, said
  <2> QED
    BY <2>1, <2>2, <2>3 DEF Next
<1> QED
  BY <1>1, <1>2, MeantReads, PTL DEF Spec
=============================================================================
