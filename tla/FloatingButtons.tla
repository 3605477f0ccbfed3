--------------------------- MODULE FloatingButtons ---------------------------
(***************************************************************************)
(* The container of floating buttons, menuUIKIT/buttons.mm.  A button is   *)
(* hidden and taken off the window by the completion of an animation, some *)
(* time after the call; until then, and between the completions of several *)
(* buttons, any other call may come.  All of it runs on the main thread.   *)
(*                                                                         *)
(* UIKit, as the code uses it: an animation sets alpha at once, and its    *)
(* completion runs once, later; a view without alpha, hidden or outside a  *)
(* window receives no taps.  Positions and looks are left out.             *)
(***************************************************************************)
EXTENDS Integers, FiniteSets

CONSTANTS
  Ids,       \* identifiers of buttons
  Objects,   \* bound: button objects that live at one time
  None,      \* "no object under this identifier"
  MaxHides   \* bound: hide animations of one object under way

ASSUME ButtonsAssumption ==
  /\ None \notin Objects
  /\ MaxHides \in Nat

VARIABLES
  buttons,   \* the dictionary of the container
  hidden, opaque, onscreen,  \* of each object: hidden, alpha = 1, has a superview
  hides,     \* hide animations whose completion is to come
  removing,  \* objects whose removal is to come
  toggled,   \* the object whose callback ran in the last step, or None
  crossed    \* objects last shown while a hide of theirs was under way

view == <<hidden, opaque, onscreen>>
vars == <<buttons, view, hides, removing, toggled, crossed>>

Kept == {buttons[id] : id \in Ids} \ {None}
Free == {o \in Objects : o \notin Kept /\ ~onscreen[o] /\ hides[o] = 0 /\ o \notin removing}
Set(f, set, value) == [o \in Objects |-> IF o \in set THEN value ELSE f[o]]

Init ==
  /\ buttons = [id \in Ids |-> None]
  /\ hidden = [o \in Objects |-> FALSE]
  /\ opaque = [o \in Objects |-> FALSE]
  /\ onscreen = [o \in Objects |-> FALSE]
  /\ hides = [o \in Objects |-> 0]
  /\ removing = {}
  /\ toggled = None
  /\ crossed = {}

Shown(set) ==
  /\ toggled' = None
  /\ crossed' = (crossed \ set) \cup {o \in set : hides[o] > 0}

\* A button of this identifier exists: it is no longer hidden.  The new
\* callback is dropped.
CreateAgain(id) ==
  /\ hidden' = [hidden EXCEPT ![buttons[id]] = FALSE]
  /\ Shown({buttons[id]})
  /\ UNCHANGED <<buttons, opaque, onscreen, hides, removing>>

\* A new button fades in, on the key window if there is one.
CreateNew(id) == \E o \in Free, window \in BOOLEAN :
  /\ buttons' = [buttons EXCEPT ![id] = o]
  /\ hidden' = [hidden EXCEPT ![o] = FALSE]
  /\ opaque' = [opaque EXCEPT ![o] = TRUE]
  /\ onscreen' = [onscreen EXCEPT ![o] = window]
  /\ toggled' = None
  /\ crossed' = crossed \ {o}
  /\ UNCHANGED <<hides, removing>>

\* mutated: buttons of one identifier replace one another
NeverExists(id) == FALSE
Exists(id) == buttons[id] # None

createButton(id) == IF Exists(id) THEN CreateAgain(id) ELSE CreateNew(id)

showAllButtons ==
  /\ hidden' = Set(hidden, Kept, FALSE)
  /\ opaque' = Set(opaque, Kept, TRUE)
  /\ Shown(Kept)
  /\ UNCHANGED <<buttons, onscreen, hides, removing>>

NotFaded == opaque  \* mutated: only the completions change what is seen
Faded == Set(opaque, Kept, FALSE)

hideAllButtons ==
  /\ \A o \in Kept : hides[o] < MaxHides
  /\ opaque' = Faded
  /\ hides' = [o \in Objects |-> IF o \in Kept THEN hides[o] + 1 ELSE hides[o]]
  /\ toggled' = None
  /\ UNCHANGED <<buttons, hidden, onscreen, removing, crossed>>

HideDone(o) ==
  /\ hides[o] > 0
  /\ hides' = [hides EXCEPT ![o] = @ - 1]
  /\ hidden' = [hidden EXCEPT ![o] = TRUE]
  /\ toggled' = None
  /\ UNCHANGED <<buttons, opaque, onscreen, removing, crossed>>

\* The dictionary is emptied at once, the buttons go when they have faded.
NotEmptied == buttons  \* mutated: it is not emptied
Emptied == [id \in Ids |-> None]

removeAllButtons ==
  /\ opaque' = Faded
  /\ removing' = removing \cup Kept
  /\ buttons' = Emptied
  /\ toggled' = None
  /\ UNCHANGED <<hidden, onscreen, hides, crossed>>

RemoveDone(o) ==
  /\ o \in removing
  /\ removing' = removing \ {o}
  /\ onscreen' = [onscreen EXCEPT ![o] = FALSE]
  /\ toggled' = None
  /\ UNCHANGED <<buttons, hidden, opaque, hides, crossed>>

Visible(o) == onscreen[o] /\ opaque[o] /\ ~hidden[o]

\* A tap flips the button and runs its callback.
Tap(o) ==
  /\ Visible(o)
  /\ toggled' = o
  /\ UNCHANGED <<buttons, view, hides, removing, crossed>>

Next ==
  \/ \E id \in Ids : createButton(id)
  \/ showAllButtons
  \/ hideAllButtons
  \/ removeAllButtons
  \/ \E o \in Objects : HideDone(o)
  \/ \E o \in Objects : RemoveDone(o)
  \/ \E o \in Objects : Tap(o)

Spec == Init /\ [][Next]_vars

\* The completions of animations run.
Fairness == \A o \in Objects : WF_vars(HideDone(o)) /\ WF_vars(RemoveDone(o))
FairSpec == Spec /\ Fairness

-----------------------------------------------------------------------------
(* Properties                                                              *)

\* Types; no object is kept under two identifiers, or while it is removed.
TypeOK ==
  /\ buttons \in [Ids -> Objects \cup {None}]
  /\ \A a, b \in Ids : buttons[a] = buttons[b] => a = b \/ buttons[a] = None
  /\ hidden \in [Objects -> BOOLEAN]
  /\ opaque \in [Objects -> BOOLEAN]
  /\ onscreen \in [Objects -> BOOLEAN]
  /\ hides \in [Objects -> 0..MaxHides]
  /\ removing \subseteq Objects \ Kept
  /\ toggled \in Objects \cup {None}
  /\ crossed \subseteq Objects

\* No callback runs for a button that the container has given up, though
\* such a button is on the window until its removal completes.
OnlyKeptToggle == [][toggled' # None => toggled' \in Kept]_vars

\* A button that is faded in stays visible, whatever completions are still
\* to come from objects and calls before it: only one that was shown while
\* its own hide was under way is hidden again behind the caller's back.
ShownStays == \A o \in Kept : opaque[o] /\ o \notin crossed => ~hidden[o] /\ hides[o] = 0

\* No button strays: one the container no longer knows, and nobody could
\* hide or remove any more, goes from the window by itself.
GivenUpGoes == \A o \in Objects : onscreen[o] /\ o \notin Kept ~> ~onscreen[o]

=============================================================================
