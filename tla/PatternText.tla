----------------------------- MODULE PatternText -----------------------------
(***************************************************************************)
(* How the searches of KittyScanner.cpp read the text of a pattern, one    *)
(* character or byte a step: findIdaPatternAll/First take "33 ? 5A" and    *)
(* findHexAll/First a run of hexadecimal digits with a mask beside it.     *)
(* What they read is given to the search of module BytesSearch.            *)
(***************************************************************************)
EXTENDS Integers, Sequences, SequencesExt

CONSTANTS
  Digits,     \* the hexadecimal digits in use
  Value,      \* what each is worth
  Gaps,       \* what may stand before, between and behind the positions,
              \* for each form
  MaxTokens   \* bound: positions of a pattern

\* A position as it is meant: a byte of two digits, or a wildcard.
Byte == [high : Digits, low : Digits]
Wild == [wild : {"?"}]
Spelled(t) == IF t \in Wild THEN <<"?">> ELSE <<t.high, t.low>>
Meant(t) == IF t \in Wild THEN [byte |-> 0, mask |-> "?"]
                          ELSE [byte |-> 16 * Value[t.high] + Value[t.low], mask |-> "x"]

VARIABLES
  form,      \* "ida" or "hex"
  tokens,    \* what the writer of the text meant (for "hex": the bytes)
  mask,      \* the mask that comes with a text of hexadecimal digits
  text,      \* the text itself
  pc,
  i,         \* characters of it that have been read
  pattern    \* what has been read: bytes and mask

said == <<form, tokens, mask>>
vars == <<said, text, pc, i, pattern>>

Text(list, gaps) ==
  gaps[0] \o FlattenSeq([k \in 1..Len(list) |-> Spelled(list[k]) \o gaps[k]])

Init ==
  \E n \in 0..MaxTokens :
    /\ form \in {"ida", "hex"}
    /\ tokens \in [1..n -> IF form = "ida" THEN Byte \cup Wild ELSE Byte]
    /\ \E gaps \in [0..n -> Gaps[form]] : text = Text(tokens, gaps)
    /\ IF form = "ida" THEN mask = <<>>
                       ELSE mask \in UNION {[1..k -> {"x", "?"}] : k \in 0..MaxTokens}
    /\ pc = form
    /\ i = 0
    /\ pattern = <<>>

At(k) == text[i + k]
Push(position) == pattern' = Append(pattern, position)

\* mutated: a byte takes the character behind it with it
PairReadOn(n) == n + 3
PairRead(n) == n + 2

ReadSpace ==
  /\ At(1) = " "
  /\ i' = i + 1
  /\ UNCHANGED pattern

ReadWild ==
  /\ At(1) = "?"
  /\ i' = i + 1
  /\ Push([byte |-> 0, mask |-> "?"])

Pair == Len(text) > i + 1 /\ At(1) \in Digits /\ At(2) \in Digits

ReadPair ==
  /\ Pair
  /\ i' = PairRead(i)
  /\ Push([byte |-> 16 * Value[At(1)] + Value[At(2)], mask |-> "x"])

\* Anything else is passed over.
Skip ==
  /\ At(1) \notin {" ", "?"} /\ ~Pair
  /\ i' = i + 1
  /\ UNCHANGED pattern

ReadIda ==
  /\ pc = "ida"
  /\ IF i < Len(text) THEN (ReadSpace \/ ReadWild \/ ReadPair \/ Skip) /\ UNCHANGED pc
                      ELSE pc' = "done" /\ UNCHANGED <<i, pattern>>
  /\ UNCHANGED <<said, text>>

\* ValidateHex drops the prefix "0x" and then the spaces, from the text too.
Unprefixed == IF Len(text) >= 2 /\ text[1] = "0" /\ text[2] = "x" THEN SubSeq(text, 3, Len(text)) ELSE text
Trim(s) == FlattenSeq([k \in 1..Len(s) |-> IF s[k] = " " THEN <<>> ELSE <<s[k]>>])
Valid(s) == Len(s) >= 2 /\ Len(s) % 2 = 0 /\ \A k \in 1..Len(s) : s[k] \in Digits

\* The bytes of the text must be as many as the positions of the mask.
MaskedInPart(s) == Len(s) \div 2 <= Len(mask)  \* mutated: a shorter text passes
Masked(s) == Len(s) \div 2 = Len(mask)

ValidateHex ==
  /\ pc = "hex"
  /\ LET s == Trim(Unprefixed) IN
       /\ text' = s
       /\ pc' = IF mask # <<>> /\ Valid(s) /\ Masked(s) THEN "bytes" ELSE "done"
  /\ UNCHANGED <<said, i, pattern>>

dataFromHex ==
  /\ pc = "bytes"
  /\ IF i < Len(text)
       THEN /\ Push([byte |-> 16 * Value[At(1)] + Value[At(2)], mask |-> mask[i \div 2 + 1]])
            /\ i' = PairRead(i)
            /\ UNCHANGED pc
       ELSE pc' = "done" /\ UNCHANGED <<i, pattern>>
  /\ UNCHANGED <<said, text>>

Next == ReadIda \/ ValidateHex \/ dataFromHex

Spec == Init /\ [][Next]_vars

-----------------------------------------------------------------------------
(* Properties                                                              *)

\* Types; the buffer of the bytes is never written behind its end, which the
\* mask sets.
TypeOK ==
  /\ form \in {"ida", "hex"}
  /\ pc \in {"ida", "hex", "bytes", "done"}
  /\ text \in Seq(Digits \cup {" ", "?", "x"})
  /\ i \in 0..Len(text)
  /\ pattern \in Seq([byte : 0..255, mask : {"x", "?"}])
  /\ form = "hex" => Len(pattern) <= Len(mask)

\* The text is read as it was meant, however its positions are spaced; a
\* hexadecimal one only if nothing but spaces and a prefix comes with its
\* digits and the mask is as long as it says.
ReadAsMeant ==
  pc = "done" =>
    pattern = CASE form = "ida" -> [k \in 1..Len(tokens) |-> Meant(tokens[k])]
                [] form = "hex" /\ Len(tokens) = Len(mask) /\ Range(text) \subseteq Digits
                   -> [k \in 1..Len(tokens) |-> [Meant(tokens[k]) EXCEPT !.mask = mask[k]]]
                [] OTHER -> <<>>

=============================================================================
