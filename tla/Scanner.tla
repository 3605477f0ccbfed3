------------------------------- MODULE Scanner -------------------------------
(***************************************************************************)
(* A search by text: findHexAll, findIdaPatternAll and their First forms   *)
(* read a pattern (PatternText) and search for what they have read         *)
(* (BytesSearch); findDataAll hands its bytes over as they are, all to be  *)
(* compared, as a text of bytes with the mask "x..." does.                 *)
(***************************************************************************)
EXTENDS BytesSearch

CONSTANTS Digits, Value, Gaps, MaxTokens

ASSUME ScannerAssumption ==
  /\ Value \in [Digits -> 0..15]
  /\ \A f \in {"ida", "hex"} : Gaps[f] \subseteq Seq(Digits \cup {" ", "?", "x"})
  /\ MaxTokens \in Nat

\* What stands between the positions of a text spells none of its own: no
\* wildcard, and no digit that would be read together with its neighbour.
ASSUME GapsAreSilent ==
  /\ Digits \cap {" ", "?", "x"} = {}
  /\ \A g \in Gaps["ida"] : \A k \in 1..Len(g) :
       g[k] # "?" /\ (g[k] \in Digits => k < Len(g) /\ g[k + 1] \notin Digits)
  /\ \A g \in Gaps["hex"] :
       g = <<"0", "x">> \/ \A k \in 1..Len(g) : g[k] \notin Digits

VARIABLES
  form, tokens, mask, text,
  reading,  \* where the reading of the text has come to
  at,       \* its index
  read,     \* the pattern it makes
  given     \* whether the search has been called with it

T == INSTANCE PatternText WITH pc <- reading, i <- at, pattern <- read

textVars == <<form, tokens, mask, text, reading, at, read>>
scanVars == <<vars, textVars, given>>

\* Nothing is searched for yet.
ScanInit ==
  /\ T!Init
  /\ mem \in [Addr -> Bytes]
  /\ start \in Addr
  /\ end \in 1..(Top + 1)
  /\ pattern = <<>>
  /\ all \in BOOLEAN
  /\ pc = "begin"
  /\ from = start
  /\ i = 0
  /\ list = <<>>
  /\ given = FALSE

\* An empty range is answered before the text is looked at.
ReadText ==
  /\ start < end
  /\ T!Next
  /\ UNCHANGED <<vars, given>>

Give ==
  /\ ~given
  /\ start >= end \/ reading = "done"
  /\ given' = TRUE
  /\ pattern' = read
  /\ UNCHANGED <<mem, start, end, all, pc, from, i, list, textVars>>

Search ==
  /\ given
  /\ Next
  /\ UNCHANGED <<textVars, given>>

ScanNext == ReadText \/ Give \/ Search

ScanSpec == ScanInit /\ [][ScanNext]_scanVars

-----------------------------------------------------------------------------
(* Properties                                                              *)

\* Types of the reading; see PatternText.
TextTypes == T!TypeOK

\* A search by text reads no character outside its text, writes no byte behind
\* its buffer, and compares none outside the range it was given.
ScanTypes == TypeOK /\ TextTypes

\* The text is read as it was meant; see PatternText.
ReadAsMeant == T!ReadAsMeant

-----------------------------------------------------------------------------
(* The inductive invariant                                                 *)

\* A text is read as one of its form; the digits that ValidateHex let pass
\* are two for each place of the mask, and are read two by two.
TextInv ==
  /\ TextTypes
  /\ mask \in Seq({"x", "?"})
  /\ form = "ida" => reading \in {"ida", "done"}
  /\ form = "hex" => reading \in {"hex", "bytes", "done"}
  /\ reading = "hex" => read = <<>> /\ at = 0
  /\ reading = "bytes" => /\ text \in Seq(Digits)
                          /\ Len(text) = 2 * Len(mask)
                          /\ at = 2 * Len(read)

\* The text that spells the first k positions, and the gap behind them.
Upto(k, gaps) == T!Text(SubSeq(tokens, 1, k), gaps)

\* The reader stands in the gap behind the k-th position, j characters into it,
\* and has read the k positions before it.
StandsIn(gaps) ==
  \E k \in 0..Len(tokens) : \E j \in 0..Len(gaps[k]) :
    /\ at = Len(Upto(k, gaps)) - Len(gaps[k]) + j
    /\ read = [m \in 1..k |-> T!Meant(tokens[m])]

\* The digits of the tokens and nothing else.
DigitsOf(s) ==
  /\ Len(s) = 2 * Len(tokens)
  /\ \A k \in 1..Len(tokens) : s[2 * k - 1] = tokens[k].high /\ s[2 * k] = tokens[k].low

MeantInv ==
  /\ tokens \in Seq(IF form = "ida" THEN T!Byte \cup T!Wild ELSE T!Byte)
  /\ reading \in {"ida", "hex"} =>
       \E gaps \in [0..Len(tokens) -> Gaps[form]] :
         text = T!Text(tokens, gaps) /\ (reading = "ida" => StandsIn(gaps))
  /\ form = "hex" /\ reading # "hex" /\ text \in Seq(Digits) => DigitsOf(text)
  /\ reading = "bytes" => \A k \in 1..Len(read) :
       read[k] = [T!Meant(tokens[k]) EXCEPT !.mask = mask[k]]
  /\ ReadAsMeant

\* Until it is called the search is where it starts.
Uncalled == pc = "begin" /\ from = start /\ i = 0 /\ list = <<>>

ScanInv ==
  /\ TextInv
  /\ TypeOK
  /\ ~given => Uncalled
  /\ given => IInv

=============================================================================
