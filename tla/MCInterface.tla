----------------------------- MODULE MCInterface -----------------------------
(***************************************************************************)
(* The three parts of the interface on small instances, side by side: a    *)
(* behaviour picks one of them and the others stay where they began.       *)
(***************************************************************************)
EXTENDS FloatingButtons, Menu, Settings

VARIABLE part  \* "buttons", "menu" or "settings"

InterfaceInit ==
  /\ part \in {"buttons", "menu", "settings"}
  /\ Init /\ MenuInit /\ SettingsInit

InterfaceNext ==
  \/ part = "buttons" /\ Next /\ UNCHANGED <<part, menuVars, settingsVars>>
  \/ part = "menu" /\ MenuNext /\ UNCHANGED <<part, vars, settingsVars>>
  \/ part = "settings" /\ SettingsNext /\ UNCHANGED <<part, vars, menuVars>>

Interface ==
  /\ InterfaceInit
  /\ [][InterfaceNext]_<<part, vars, menuVars, settingsVars>>
  /\ Fairness /\ MenuFairness

\* Types of all parts.
Types == TypeOK /\ MenuTypes /\ SettingsTypes
=============================================================================
