------------------------------- MODULE MCLookup -------------------------------
(***************************************************************************)
(* The lookups of images, of symbols and of the regions pointers are       *)
(* checked against on small instances, side by side: a behaviour is one of *)
(* one kind, and the others stay where they began.                         *)
(***************************************************************************)
EXTENDS ImageLookup, Symbols, PtrValidator, TLC

VARIABLE part  \* "images", "symbols" or "validator"

\* No access, read only, read and write.
ThreePerms == {{}, {"r"}, {"r", "w"}}

ImagesRest == images = <<Main>> /\ exec = {Main} /\ named = {}
SymbolsRest ==
  /\ format = "macho" /\ symbols = <<>> /\ tables = {}
  /\ slide = 0 /\ hash = [name \in Names |-> 0]
ValidatorRest == cut = {} /\ perm = [p \in Pages |-> Unmapped]

LookupInit ==
  /\ \/ part = "images" /\ SymbolsRest /\ ValidatorRest
     \/ part = "symbols" /\ ImagesRest /\ ValidatorRest
     \/ part = "validator" /\ ImagesRest /\ SymbolsRest
  /\ Init /\ SymbolsInit /\ ValidatorInit

LookupNext ==
  \/ part = "images" /\ Next /\ UNCHANGED <<part, symbolsVars, validatorVars>>
  \/ part = "symbols" /\ SymbolsNext /\ UNCHANGED <<part, vars, validatorVars>>
  \/ part = "validator" /\ ValidatorNext /\ UNCHANGED <<part, vars, symbolsVars>>

Lookups ==
  /\ LookupInit
  /\ [][LookupNext]_<<part, vars, symbolsVars, validatorVars>>
  /\ WF_vars(Step)

\* Types of all three.
Types == TypeOK /\ SymbolTypes /\ ValidatorTypes
=============================================================================
