------------------------------ MODULE Settings ------------------------------
(***************************************************************************)
(* The settings of Draw.mm: the rows of a tab show variables and set them, *)
(* a file keeps some of them, each menu that opens loads the file over     *)
(* them, and every frame (ZX_ApplyAndRun of Helper/Hooks.h) joins them     *)
(* with the variables that features go by, and sets some itself.  Seven    *)
(* switches are modelled: all whose variable is set by something other     *)
(* than its own row and a load, and others saved or read by a frame.  One  *)
(* menu is open at a time (OneMenu of module Menu says when).              *)
(***************************************************************************)

CONSTANT Nothing  \* no file

Switches == {"Enable", "Aimbot", "Silent", "AimKill", "FastFire", "RateOfFire", "SkipWall"}

\* Frames join these with a second variable: SilentAim, Vars.AutoFire, and
\* CheckWall1, which says the opposite.  The handlers of the paired set both.
Joined == {"Silent", "FastFire", "SkipWall"}
Paired == {"Silent", "SkipWall"}

Tabs == {"aim", "weapons", "profile"}

\* The rows of each tab; the tabs of the others have none of these.
RowsOf(t) ==
  CASE t = "aim" -> {"Enable", "Aimbot", "Silent", "AimKill", "FastFire"}
    [] t = "weapons" -> {"FastFire", "RateOfFire"}
    [] t = "profile" -> {"SkipWall"}
    [] OTHER -> {}

VARIABLES
  switch,    \* the variable each switch sets
  effective, \* the second variables, CheckWall1 negated
  file,
  tab,       \* the tab that is shown, or "closed"
  shows,     \* what the rows of the tab show
  kept,      \* history: what the last save that succeeded was to keep
  forced     \* history: paired second variables that something other than
             \* their switch has set, or that a file has left on

settingsVars == <<switch, effective, file, tab, shows, kept, forced>>

AllOff == [s \in Switches |-> FALSE]
Listed == {"Enable", "Aimbot", "Silent", "AimKill"}  \* the list of loadSettingsFromFile

\* Nothing is on when the application starts but the skipping of wall checks
\* (CheckWall1 is false), of which the switch knows nothing.
StartedWith == [s \in Joined |-> s = "SkipWall"]

SettingsInit ==
  /\ switch = AllOff
  /\ effective = StartedWith
  /\ forced = {"SkipWall"}
  /\ file = Nothing
  /\ tab = "closed"
  /\ shows = AllOff
  /\ kept = Nothing

\* The variables after loading.
Loaded == [s \in Switches |-> IF file # Nothing /\ s \in Listed THEN file[s] ELSE switch[s]]

\* The rows of a tab built from values of the variables.
Built(t, values) == [s \in Switches |-> s \in RowsOf(t) /\ values[s]]

RowsFirst == Built("aim", switch)  \* mutated: the rows are built before the file is loaded
Rows == Built("aim", Loaded)

\* viewDidLoad: load, then build the tab that is shown first.
viewDidLoad ==
  /\ tab = "closed"
  /\ tab' = "aim"
  /\ switch' = Loaded
  /\ shows' = Rows
  /\ forced' = forced \cup {s \in Paired : effective[s] /\ ~Loaded[s]}
  /\ UNCHANGED <<effective, file, kept>>

tabTapped(t) ==
  /\ tab # "closed"
  /\ tab' = t
  /\ shows' = Built(t, switch)
  /\ UNCHANGED <<switch, effective, file, kept, forced>>

Close ==
  /\ tab # "closed"
  /\ tab' = "closed"
  /\ shows' = AllOff
  /\ UNCHANGED <<switch, effective, file, kept, forced>>

\* mutated: switching off leaves the second variable
SetOnly(s, on) == [effective EXCEPT ![s] = @ \/ on]
SetBoth(s, on) == [effective EXCEPT ![s] = on]

\* The variables that the row of s sets: fast fire sets the rate of fire too,
\* which has a row of its own.
SetBy(s) == IF s = "FastFire" THEN {"FastFire", "RateOfFire"} ELSE {s}

\* A tap flips what the row shows, and sets the variables to that.
TapRow(s) ==
  /\ s \in RowsOf(tab)
  /\ shows' = [shows EXCEPT ![s] = ~@]
  /\ switch' = [v \in Switches |-> IF v \in SetBy(s) THEN ~shows[s] ELSE switch[v]]
  /\ IF s \in Paired
     THEN /\ effective' = SetBoth(s, ~shows[s])
          /\ forced' = forced \ {s}
     ELSE UNCHANGED <<effective, forced>>
  /\ UNCHANGED <<file, tab, kept>>

\* mutated: one key is not written
SavedShort == [s \in Listed |-> s # "AimKill" /\ switch[s]]
Saved == [s \in Listed |-> switch[s]]

\* The button in the header, or that of the profile tab.  The file is replaced
\* as a whole or, when that fails, not at all.
saveSettingsToFile ==
  /\ tab # "closed"
  /\ file' = Saved
  /\ kept' = [s \in Listed |-> switch[s]]
  /\ UNCHANGED <<switch, effective, tab, shows, forced>>

\* Features that a frame may run, and what each sets on: second variables, and
\* Vars.Aimbot, which has none.  FlySky sets what GhostVip does, and UnderKill
\* what GhostVip, NoRecoil and NoReload do together.
Features == {"BulletThru", "Telekill", "NoRecoil", "NoReload", "GhostVip"}
SetsOn(feature) ==
  CASE feature = "NoRecoil" -> {"Aimbot"}
    [] feature = "NoReload" -> {"FastFire"}
    [] feature = "Telekill" -> {"Silent"}
    [] OTHER -> {"Silent", "SkipWall"}

\* One frame of a match: variables are joined, the check of walls is copied to
\* the variable its row shows, then the bundle of AimKill and the features.
Frame ==
  \E ran \in SUBSET Features :
    LET bundle == switch["AimKill"] /\ switch["Enable"]
        on == (UNION {SetsOn(feature) : feature \in ran})
              \cup (IF bundle THEN Joined \cup {"Aimbot"} ELSE {})
    IN /\ ran \subseteq {"BulletThru"} \/ switch["Enable"]
       /\ effective' = [s \in Joined |->
            effective[s] \/ s \in on \/ (s # "SkipWall" /\ switch[s])]
       /\ switch' = [switch EXCEPT !["Aimbot"] = @ \/ "Aimbot" \in on,
                                   !["SkipWall"] = effective["SkipWall"] \/ bundle]
       /\ forced' = forced \cup (on \cap Paired)
       /\ UNCHANGED <<file, tab, shows, kept>>

\* The application ends at any moment, and starts again with what its file has.
Restart ==
  /\ switch' = AllOff
  /\ effective' = StartedWith
  /\ forced' = {"SkipWall"}
  /\ tab' = "closed"
  /\ shows' = AllOff
  /\ UNCHANGED <<file, kept>>

SettingsNext ==
  \/ viewDidLoad
  \/ \E t \in Tabs : tabTapped(t)
  \/ Close
  \/ \E s \in Switches : TapRow(s)
  \/ saveSettingsToFile
  \/ Frame
  \/ Restart

SettingsSpec == SettingsInit /\ [][SettingsNext]_settingsVars

-----------------------------------------------------------------------------
(* Properties                                                              *)

SettingsTypes ==
  /\ {switch, shows} \subseteq [Switches -> BOOLEAN]
  /\ effective \in [Joined -> BOOLEAN]
  /\ file # Nothing => file \in [Listed -> BOOLEAN]
  /\ tab \in {"closed"} \cup Tabs
  /\ forced \subseteq Paired

\* What a row shows is what its variable says, although frames, files, restarts
\* and other rows change variables too, but for three rows.  Those of the aimbot
\* and of the skipped wall checks may show "off" while a frame has set their
\* variable, and never "on" for one that is off: what a frame copies from
\* CheckWall1 takes nothing back that the row was built from.  That of the rate
\* of fire may lag behind a tap on the row of fast fire beside it, and then its
\* variable is what that tap has set both to.
RowsTellTruth ==
  \A s \in RowsOf(tab) :
    \/ shows[s] = switch[s]
    \/ s \in {"Aimbot", "SkipWall"} /\ switch[s]
    \/ s = "RateOfFire" /\ switch["RateOfFire"] = switch["FastFire"]

\* A menu that opens has every setting the file is to keep as it was last saved,
\* however often the application ended in between and whatever was switched.
LoadsLastSave ==
  [][viewDidLoad /\ kept # Nothing => \A s \in Listed : switch'[s] = kept[s]]_settingsVars

\* What a feature goes by is not on behind a switch that is off, unless
\* something else has set it since the switch was last used, or a file has
\* switched off the switch alone.  Said of the switches that set both variables:
\* AutoFire stays on for good once a frame has joined it.
OffMeansOff ==
  \A s \in Paired : effective[s] /\ ~switch[s] => s \in forced
=============================================================================
