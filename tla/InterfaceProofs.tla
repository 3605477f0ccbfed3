--------------------------- MODULE InterfaceProofs ---------------------------
(***************************************************************************)
(* Proofs about the interface: the buttons (types, that what is shown      *)
(* stays shown, that no callback runs for a button that was given up), the *)
(* menu (types, the flag of the opening gesture, that there is one menu)   *)
(* and the settings (that rows, variables and the file agree); for any     *)
(* number of buttons, menus and animations under way.                      *)
(***************************************************************************)
EXTENDS MCInterface, TLAPS

-----------------------------------------------------------------------------
(* Buttons                                                                 *)

\* Only buttons of the container are opaque: the others have been faded.
OpaqueKept == \A o \in Objects : opaque[o] => o \in Kept

ButtonsIInv == TypeOK /\ OpaqueKept /\ ShownStays

\* The buttons of the container are objects.
LEMMA KeptObjects == ASSUME TypeOK PROVE Kept \subseteq Objects
  BY DEF TypeOK, Kept

LEMMA ButtonsInitInv == Init => ButtonsIInv
<1> SUFFICES ASSUME Init PROVE ButtonsIInv
  OBVIOUS
<1>1. Kept = {}
  BY DEF Init, Kept
<1>2. hides \in [Objects -> 0..MaxHides]
  BY ButtonsAssumption DEF Init
<1>3. TypeOK
  BY <1>1, <1>2 DEF Init, TypeOK
<1> QED
  BY <1>1, <1>3 DEF Init, ButtonsIInv, OpaqueKept, ShownStays

\* Every step keeps the invariant.
LEMMA ButtonsStepInv ==
  ASSUME ButtonsIInv, [Next]_vars
  PROVE  ButtonsIInv'
<1>t. TypeOK /\ Kept \subseteq Objects
  BY KeptObjects DEF ButtonsIInv
<1>1. ASSUME NEW id \in Ids, Exists(id), CreateAgain(id) PROVE ButtonsIInv'
  <2> DEFINE b == buttons[id]
  <2>1. b \in Kept /\ b \in Objects
    BY <1>1, <1>t DEF Exists, Kept, TypeOK
  <2>2. /\ hidden' = [hidden EXCEPT ![b] = FALSE]
        /\ toggled' = None
        /\ crossed' = (crossed \ {b}) \cup {o \in {b} : hides[o] > 0}
        /\ UNCHANGED <<buttons, opaque, onscreen, hides, removing>>
    BY <1>1 DEF CreateAgain, Shown
  <2> HIDE DEF b
  <2>3. Kept' = Kept
    BY <2>2 DEF Kept
  <2>4. TypeOK'
    BY <2>1, <2>2, <2>3, <1>t DEF TypeOK
  <2>5. OpaqueKept'
    BY <2>2, <2>3 DEF ButtonsIInv, OpaqueKept
  <2>6. ShownStays'
    <3> SUFFICES ASSUME NEW o \in Kept, opaque[o], o \notin crossed'
                 PROVE  ~hidden'[o] /\ hides[o] = 0
      BY <2>2, <2>3 DEF ShownStays
    <3>1. hides[o] \in 0..MaxHides /\ hidden \in [Objects -> BOOLEAN]
      BY <1>t DEF TypeOK
    <3>2. CASE o = b
      BY <2>1, <2>2, <3>1, <3>2
    <3>3. CASE o # b
      BY <2>2, <3>1, <3>3 DEF ButtonsIInv, ShownStays
    <3> QED
      BY <3>2, <3>3
  <2> QED
    BY <2>4, <2>5, <2>6 DEF ButtonsIInv
<1>2. ASSUME NEW id \in Ids, ~Exists(id), CreateNew(id) PROVE ButtonsIInv'
  <2>1. PICK o \in Free, window \in BOOLEAN :
          /\ buttons' = [buttons EXCEPT ![id] = o]
          /\ hidden' = [hidden EXCEPT ![o] = FALSE]
          /\ opaque' = [opaque EXCEPT ![o] = TRUE]
          /\ onscreen' = [onscreen EXCEPT ![o] = window]
          /\ toggled' = None
          /\ crossed' = crossed \ {o}
          /\ UNCHANGED <<hides, removing>>
    BY <1>2 DEF CreateNew
  <2>2. o \in Objects /\ o \notin Kept /\ hides[o] = 0 /\ o \notin removing /\ o # None
    BY ButtonsAssumption DEF Free
  <2>3. buttons[id] = None /\ buttons \in [Ids -> Objects \cup {None}]
    BY <1>2, <1>t DEF Exists, TypeOK
  <2>4. Kept' = Kept \cup {o}
    BY <2>1, <2>2, <2>3 DEF Kept
  <2>5. \A a, b \in Ids : buttons'[a] = buttons'[b] => a = b \/ buttons'[a] = None
    BY <2>1, <2>2, <2>3, <1>t DEF TypeOK, Kept
  <2>6. TypeOK'
    BY <2>1, <2>2, <2>4, <2>5, <1>t DEF TypeOK
  <2>7. OpaqueKept'
    BY <2>1, <2>2, <2>4, <1>t DEF ButtonsIInv, OpaqueKept, TypeOK
  <2>8. ShownStays'
    BY <2>1, <2>2, <2>4, <1>t DEF ButtonsIInv, ShownStays, TypeOK
  <2> QED
    BY <2>6, <2>7, <2>8 DEF ButtonsIInv
<1>3. CASE showAllButtons
  <2>1. /\ hidden' = [o \in Objects |-> IF o \in Kept THEN FALSE ELSE hidden[o]]
        /\ opaque' = [o \in Objects |-> IF o \in Kept THEN TRUE ELSE opaque[o]]
        /\ toggled' = None
        /\ crossed' = (crossed \ Kept) \cup {o \in Kept : hides[o] > 0}
        /\ UNCHANGED <<buttons, onscreen, hides, removing>>
    BY <1>3 DEF showAllButtons, Set, Shown
  <2>2. Kept' = Kept
    BY <2>1 DEF Kept
  <2>3. TypeOK'
    BY <2>1, <2>2, <1>t DEF TypeOK
  <2>4. OpaqueKept'
    BY <2>1, <2>2 DEF ButtonsIInv, OpaqueKept
  <2>5. ShownStays'
    BY <2>1, <2>2, <1>t DEF ShownStays, TypeOK
  <2> QED
    BY <2>3, <2>4, <2>5 DEF ButtonsIInv
<1>4. CASE hideAllButtons
  <2>1. /\ \A o \in Kept : hides[o] < MaxHides
        /\ opaque' = [o \in Objects |-> IF o \in Kept THEN FALSE ELSE opaque[o]]
        /\ hides' = [o \in Objects |-> IF o \in Kept THEN hides[o] + 1 ELSE hides[o]]
        /\ toggled' = None
        /\ UNCHANGED <<buttons, hidden, onscreen, removing, crossed>>
    BY <1>4 DEF hideAllButtons, Faded, Set
  <2>2. Kept' = Kept
    BY <2>1 DEF Kept
  <2>3. hides' \in [Objects -> 0..MaxHides]
    BY <2>1, <1>t, ButtonsAssumption DEF TypeOK
  <2>4. TypeOK'
    BY <2>1, <2>2, <2>3, <1>t DEF TypeOK
  <2>5. OpaqueKept'
    BY <2>1, <2>2 DEF ButtonsIInv, OpaqueKept
  <2>6. ShownStays'
    BY <2>1, <2>2, <1>t DEF ShownStays
  <2> QED
    BY <2>4, <2>5, <2>6 DEF ButtonsIInv
<1>5. CASE removeAllButtons
  <2>1. /\ opaque' = [o \in Objects |-> IF o \in Kept THEN FALSE ELSE opaque[o]]
        /\ removing' = removing \cup Kept
        /\ buttons' = [id \in Ids |-> None]
        /\ toggled' = None
        /\ UNCHANGED <<hidden, onscreen, hides, crossed>>
    BY <1>5 DEF removeAllButtons, Faded, Set, Emptied
  <2>2. Kept' = {}
    BY <2>1 DEF Kept
  <2>3. TypeOK'
    BY <2>1, <2>2, <1>t DEF TypeOK
  <2>4. OpaqueKept'
    BY <2>1 DEF ButtonsIInv, OpaqueKept
  <2> QED
    BY <2>2, <2>3, <2>4 DEF ButtonsIInv, ShownStays
<1>6. ASSUME NEW o \in Objects, HideDone(o) PROVE ButtonsIInv'
  <2>1. /\ hides[o] > 0
        /\ hides' = [hides EXCEPT ![o] = @ - 1]
        /\ hidden' = [hidden EXCEPT ![o] = TRUE]
        /\ toggled' = None
        /\ UNCHANGED <<buttons, opaque, onscreen, removing, crossed>>
    BY <1>6 DEF HideDone
  <2>2. Kept' = Kept
    BY <2>1 DEF Kept
  <2>3. hides' \in [Objects -> 0..MaxHides]
    BY <2>1, <1>t, ButtonsAssumption DEF TypeOK
  <2>4. TypeOK'
    BY <2>1, <2>2, <2>3, <1>t DEF TypeOK
  <2>5. OpaqueKept'
    BY <2>1, <2>2 DEF ButtonsIInv, OpaqueKept
  <2>6. ShownStays'
    BY <2>1, <2>2, <1>t DEF ButtonsIInv, ShownStays, TypeOK
  <2> QED
    BY <2>4, <2>5, <2>6 DEF ButtonsIInv
<1>7. ASSUME NEW o \in Objects, RemoveDone(o) PROVE ButtonsIInv'
  <2>1. /\ removing' = removing \ {o}
        /\ onscreen' = [onscreen EXCEPT ![o] = FALSE]
        /\ toggled' = None
        /\ UNCHANGED <<buttons, hidden, opaque, hides, crossed>>
    BY <1>7 DEF RemoveDone
  <2>2. Kept' = Kept
    BY <2>1 DEF Kept
  <2> QED
    BY <2>1, <2>2, <1>t DEF ButtonsIInv, TypeOK, OpaqueKept, ShownStays
<1>8. ASSUME NEW o \in Objects, Tap(o) PROVE ButtonsIInv'
  <2>1. toggled' = o /\ UNCHANGED <<buttons, hidden, opaque, onscreen, hides, removing, crossed>>
    BY <1>8 DEF Tap, view
  <2>2. Kept' = Kept
    BY <2>1 DEF Kept
  <2> QED
    BY <2>1, <2>2, <1>t DEF ButtonsIInv, TypeOK, OpaqueKept, ShownStays
<1>9. CASE UNCHANGED vars
  <2>1. UNCHANGED <<buttons, hidden, opaque, onscreen, hides, removing, toggled, crossed>>
    BY <1>9 DEF vars, view
  <2>2. Kept' = Kept
    BY <2>1 DEF Kept
  <2> QED
    BY <2>1, <2>2, <1>t DEF ButtonsIInv, TypeOK, OpaqueKept, ShownStays
<1> QED
  BY <1>1, <1>2, <1>3, <1>4, <1>5, <1>6, <1>7, <1>8, <1>9 DEF Next, createButton

\* A callback runs in a tap alone, and what is tapped is opaque.
LEMMA StepToggles ==
  ASSUME ButtonsIInv, [Next]_vars
  PROVE  UNCHANGED vars \/ (toggled' # None => toggled' \in Kept)
<1>1. ASSUME NEW o \in Objects, Tap(o) PROVE toggled' \in Kept
  BY <1>1 DEF Tap, Visible, ButtonsIInv, OpaqueKept
<1> QED
  BY <1>1 DEF Next, createButton, CreateAgain, CreateNew, Shown, showAllButtons,
              hideAllButtons, removeAllButtons, HideDone, RemoveDone

\* The invariant holds throughout.
LEMMA ButtonsInvariance == Spec => []ButtonsIInv
<1> QED
  BY ButtonsInitInv, ButtonsStepInv, PTL DEF Spec

\* Every state of the container has the types: in particular no object is kept
\* under two identifiers, or while it is removed.
THEOREM ButtonsTypeCorrect == Spec => []TypeOK
<1>1. ButtonsIInv => TypeOK
  BY DEF ButtonsIInv
<1> QED
  BY <1>1, ButtonsInvariance, PTL

\* A button that was faded in stays visible, for any number of buttons and of
\* completions to come, unless it was shown in the middle of its own hide.
THEOREM ShownStaysShown == Spec => []ShownStays
<1>1. ButtonsIInv => ShownStays
  BY DEF ButtonsIInv
<1> QED
  BY <1>1, ButtonsInvariance, PTL

\* No callback runs for a button that the container has given up.
THEOREM OnlyKept == Spec => OnlyKeptToggle
<1>1. ButtonsIInv /\ [Next]_vars => [toggled' # None => toggled' \in Kept]_vars
  BY StepToggles
<1> QED
  BY <1>1, ButtonsInvariance, PTL DEF Spec, OnlyKeptToggle

-----------------------------------------------------------------------------
(* Menu                                                                    *)

\* Before the gestures are attached nothing but the constructor's block can
\* have presented a menu, and the flag cannot have been set.
BeforeLoad ==
  ~loadRan => gestures = Nobody /\ ~isUIKitMenuOpen /\ ~gesturesFirst

\* Before the constructor's block has run, a menu is there only if the gestures
\* were attached first.
BeforeConstructor ==
  constructor # "done" => IF loadRan THEN gesturesFirst ELSE ShownMenus = {}

MenuIInv == MenuTypes /\ BeforeLoad /\ BeforeConstructor /\ NoLockOut /\ OneMenu

\* What Push does to the stack: a new controller joins those presented.
LEMMA Pushed ==
  ASSUME NEW S, NEW s \in Seq(S), NEW c \in S, IsInjective(s),
         c \notin {s[i] : i \in DOMAIN s}
  PROVE  /\ Append(s, c) \in Seq(S)
         /\ IsInjective(Append(s, c))
         /\ {Append(s, c)[i] : i \in DOMAIN Append(s, c)}
              = {s[i] : i \in DOMAIN s} \cup {c}
<1>1. Append(s, c) \in Seq(S) /\ DOMAIN Append(s, c) = 1..(Len(s) + 1)
      /\ DOMAIN s = 1..Len(s) /\ Len(s) \in Nat
  OBVIOUS
<1>2. /\ \A i \in 1..Len(s) : Append(s, c)[i] = s[i]
      /\ Append(s, c)[Len(s) + 1] = c
  OBVIOUS
<1>3. IsInjective(Append(s, c))
  BY <1>1, <1>2 DEF IsInjective
<1>4. {Append(s, c)[i] : i \in DOMAIN Append(s, c)} = {s[i] : i \in DOMAIN s} \cup {c}
  BY <1>1, <1>2
<1> QED
  BY <1>1, <1>3, <1>4

\* What dismissing leaves is a first part of the stack.
LEMMA Cut ==
  ASSUME NEW S, NEW s \in Seq(S), NEW n \in 0..Len(s), IsInjective(s)
  PROVE  /\ SubSeq(s, 1, n) \in Seq(S)
         /\ IsInjective(SubSeq(s, 1, n))
         /\ DOMAIN SubSeq(s, 1, n) = 1..n
         /\ \A i \in 1..n : i \in DOMAIN s /\ SubSeq(s, 1, n)[i] = s[i]
<1>1. SubSeq(s, 1, n) \in Seq(S) /\ Len(SubSeq(s, 1, n)) = n
  OBVIOUS
<1>2. DOMAIN SubSeq(s, 1, n) = 1..n /\ \A i \in 1..n : i \in DOMAIN s /\ SubSeq(s, 1, n)[i] = s[i]
  BY <1>1
<1> QED
  BY <1>1, <1>2 DEF IsInjective

\* The topmost controller is one of those there are, never Nobody.
LEMMA TopKnown ==
  ASSUME stack \in Seq(Menus \cup {Host})
  PROVE  Top \in Menus \cup {Host, Root} /\ Top # Nobody
<1>1. CASE stack = <<>>
  BY <1>1, MenuAssumption DEF Top
<1>2. CASE stack # <<>>
  <2>1. stack[Len(stack)] \in Menus \cup {Host}
    BY <1>2
  <2> QED
    BY <2>1, <1>2, MenuAssumption DEF Top, Last
<1> QED
  BY <1>1, <1>2

\* Dismissing cuts the stack.
LEMMA WithoutCuts ==
  ASSUME NEW c, stack \in Seq(Menus \cup {Host})
  PROVE  \E n \in 0..Len(stack) : Without(c) = SubSeq(stack, 1, n)
<1>1. CASE c \notin Presented
  <2>1. stack = SubSeq(stack, 1, Len(stack))
    OBVIOUS
  <2>2. Without(c) = stack /\ Len(stack) \in 0..Len(stack)
    BY <1>1 DEF Without
  <2> QED
    BY <2>1, <2>2
<1>2. CASE c \in Presented
  <2> DEFINE at == CHOOSE i \in DOMAIN stack : stack[i] = c
  <2>1. at \in 1..Len(stack)
    BY <1>2 DEF Presented
  <2>2. Without(c) = SubSeq(stack, 1, IF at = Len(stack) THEN at - 1 ELSE at)
    BY <1>2 DEF Without
  <2>3. (IF at = Len(stack) THEN at - 1 ELSE at) \in 0..Len(stack)
    BY <2>1
  <2> QED
    BY <2>2, <2>3
<1> QED
  BY <1>1, <1>2

\* There is at most one menu in the stack.
Single ==
  \A i, j \in DOMAIN stack : stack[i] \in Menus /\ stack[j] \in Menus => i = j

\* A step that pushes.
LEMMA PushStep ==
  ASSUME MenuTypes, NEW c \in Menus \cup {Host}, c \notin Presented, Push(c)
  PROVE  /\ stack' \in Seq(Menus \cup {Host}) /\ IsInjective(stack')
         /\ Presented' = Presented \cup {c}
         /\ covered' = covered \cup {m \in ShownMenus : closing[m] > 0}
         /\ Single /\ (ShownMenus = {} \/ c = Host) => (Host \notin Menus => Single')
<1>1. /\ stack \in Seq(Menus \cup {Host}) /\ IsInjective(stack)
      /\ stack' = Append(stack, c)
      /\ covered' = covered \cup {m \in ShownMenus : closing[m] > 0}
  BY DEF MenuTypes, Push
<1>2. stack' \in Seq(Menus \cup {Host}) /\ IsInjective(stack')
      /\ Presented' = Presented \cup {c}
  BY <1>1, Pushed DEF Presented
<1>3. ASSUME Single, ShownMenus = {} \/ c = Host, Host \notin Menus
      PROVE  Single'
  <2>1. /\ DOMAIN stack' = 1..(Len(stack) + 1) /\ DOMAIN stack = 1..Len(stack)
        /\ Len(stack) \in Nat
        /\ \A i \in 1..Len(stack) : stack'[i] = stack[i]
        /\ stack'[Len(stack) + 1] = c
    BY <1>1
  <2>2. CASE c = Host
    BY <2>1, <2>2, <1>3 DEF Single
  <2>3. CASE ShownMenus = {}
    BY <2>1, <2>3 DEF Single, ShownMenus, Presented
  <2> QED
    BY <2>2, <2>3, <1>3
<1> QED
  BY <1>1, <1>2, <1>3

\* A step that dismisses.
LEMMA CutStep ==
  ASSUME MenuTypes, NEW n \in 0..Len(stack), stack' = SubSeq(stack, 1, n)
  PROVE  /\ stack' \in Seq(Menus \cup {Host}) /\ IsInjective(stack')
         /\ Presented' \subseteq Presented
         /\ Single => Single'
         /\ \A c \in Presented \ Presented' : \E i \in (n + 1)..Len(stack) : stack[i] = c
<1>1. stack \in Seq(Menus \cup {Host}) /\ IsInjective(stack)
  BY DEF MenuTypes
<1>2. /\ stack' \in Seq(Menus \cup {Host}) /\ IsInjective(stack')
      /\ DOMAIN stack' = 1..n
      /\ \A i \in 1..n : i \in DOMAIN stack /\ stack'[i] = stack[i]
  BY <1>1, Cut
<1>3. DOMAIN stack = 1..Len(stack) /\ Len(stack) \in Nat
  BY <1>1
<1>4. Presented' \subseteq Presented
  BY <1>2 DEF Presented
<1>5. Single => Single'
  BY <1>2 DEF Single
<1>6. ASSUME NEW c \in Presented, c \notin Presented'
      PROVE  \E i \in (n + 1)..Len(stack) : stack[i] = c
  <2>1. PICK i \in 1..Len(stack) : stack[i] = c
    BY <1>3, <1>6 DEF Presented
  <2>2. ~(i \in 1..n)
    BY <2>1, <1>2, <1>6 DEF Presented
  <2> QED
    BY <2>1, <2>2, <1>3
<1> QED
  BY <1>2, <1>4, <1>5, <1>6

LEMMA MenuInitInv == MenuInit => MenuIInv
<1> SUFFICES ASSUME MenuInit PROVE MenuIInv
  OBVIOUS
<1>1. DOMAIN stack = {} /\ stack \in Seq(Menus \cup {Host})
  BY DEF MenuInit
<1>2. Presented = {} /\ ShownMenus = {} /\ IsInjective(stack)
  BY <1>1 DEF Presented, ShownMenus, IsInjective
<1>3. closing \in [Menus -> 0..MaxCloses] /\ links = 0
  BY MenuAssumption DEF MenuInit
<1>4. MenuTypes
  BY <1>1, <1>2, <1>3 DEF MenuInit, MenuTypes
<1> QED
  BY <1>1, <1>2, <1>4 DEF MenuInit, MenuIInv, BeforeLoad, BeforeConstructor, NoLockOut, OneMenu

\* A step keeps the types when it presents a menu that is fresh.
LEMMA PresentStep ==
  ASSUME MenuTypes, NEW m \in fresh, PresentMenu(m)
  PROVE  /\ stack' \in Seq(Menus \cup {Host}) /\ IsInjective(stack')
         /\ Presented' = Presented \cup {m}
         /\ fpsTimers' \subseteq Menus /\ covered' \subseteq Menus
         /\ fresh' \subseteq Menus
         /\ ShownMenus' \cup fpsTimers' \cup covered' \subseteq Menus \ fresh'
         /\ closing' = closing
         /\ m \in ShownMenus'
         /\ Single /\ ShownMenus = {} => Single'
<1>1. /\ Push(m) /\ fresh' = fresh \ {m} /\ fpsTimers' = fpsTimers \cup {m}
      /\ closing' = closing
  BY DEF PresentMenu
<1>2. /\ fresh \subseteq Menus /\ ShownMenus \subseteq Menus \ fresh
      /\ fpsTimers \subseteq Menus \ fresh /\ covered \subseteq Menus \ fresh
  BY DEF MenuTypes
<1>3. m \in Menus \cup {Host} /\ m \notin Presented
  BY <1>2 DEF ShownMenus
<1>4. /\ stack' \in Seq(Menus \cup {Host}) /\ IsInjective(stack')
      /\ Presented' = Presented \cup {m}
      /\ covered' = covered \cup {x \in ShownMenus : closing[x] > 0}
      /\ Single /\ ShownMenus = {} => Single'
  BY <1>1, <1>3, PushStep, MenuAssumption
<1>5. ShownMenus' = ShownMenus \cup {m}
  BY <1>4, <1>2 DEF ShownMenus
<1> QED
  BY <1>1, <1>2, <1>4, <1>5

\* Every step keeps the invariant.
LEMMA MenuStepInv ==
  ASSUME MenuIInv, [MenuNext]_menuVars
  PROVE  MenuIInv'
<1> USE MenuAssumption
<1>t. MenuTypes
  BY DEF MenuIInv
<1>s. OneMenu <=> (~gesturesFirst => Single)
  BY DEF OneMenu, Single
<1>p. OneMenu' <=> (~gesturesFirst' => Single')
  BY DEF OneMenu, Single
<1>1. CASE StartFrames
  <2>1. /\ constructor = "waiting" /\ constructor' = "running" /\ links' = Start
        /\ UNCHANGED <<stack, fpsTimers, closing, fresh, covered, loadRan, gestures,
                       gesturesFirst, isUIKitMenuOpen, strayed>>
    BY <1>1 DEF StartFrames, shown
  <2>2. links' = 1
    BY <2>1, <1>t DEF MenuTypes, Start
  <2>3. Presented' = Presented /\ ShownMenus' = ShownMenus /\ (Single => Single')
    BY <2>1 DEF Presented, ShownMenus, Single
  <2>4. MenuTypes'
    BY <2>1, <2>2, <2>3, <1>t DEF MenuTypes
  <2> QED
    BY <2>1, <2>3, <2>4, <1>s, <1>p
       DEF MenuIInv, BeforeLoad, BeforeConstructor, NoLockOut
<1>2. CASE ConstructorBlock
  <2>1. /\ constructor = "running" /\ constructor' = "done"
        /\ UNCHANGED <<loadRan, gestures, links, gesturesFirst, isUIKitMenuOpen, strayed>>
    BY <1>2 DEF ConstructorBlock
  <2>2. ~loadRan => ShownMenus = {}
    BY <2>1 DEF MenuIInv, BeforeConstructor
  <2>3. loadRan => gesturesFirst
    BY <2>1 DEF MenuIInv, BeforeConstructor
  <2>4. ASSUME NEW m \in fresh, PresentMenu(m) PROVE MenuIInv'
    <3>1. MenuTypes'
      BY <2>1, <2>4, <1>t, PresentStep DEF MenuTypes
    <3>2. OneMenu'
      BY <2>1, <2>2, <2>3, <2>4, <1>t, <1>s, <1>p, PresentStep DEF MenuIInv, BeforeLoad
    <3>3. NoLockOut'
      BY <2>4, <1>t, PresentStep DEF NoLockOut
    <3> QED
      BY <2>1, <3>1, <3>2, <3>3 DEF MenuIInv, BeforeLoad, BeforeConstructor
  <2>5. CASE UNCHANGED shown
    <3>1. Presented' = Presented /\ ShownMenus' = ShownMenus /\ (Single => Single')
      BY <2>5 DEF shown, Presented, ShownMenus, Single
    <3>2. MenuTypes'
      BY <2>1, <2>5, <3>1, <1>t DEF MenuTypes, shown
    <3> QED
      BY <2>1, <2>5, <3>1, <3>2, <1>s, <1>p
         DEF MenuIInv, BeforeLoad, BeforeConstructor, NoLockOut
  <2> QED
    BY <1>2, <2>4, <2>5 DEF ConstructorBlock
<1>3. CASE LoadBlock
  <2>1. /\ ~loadRan /\ loadRan' = TRUE /\ gestures' \in {Top, Nobody}
        /\ gesturesFirst' = (constructor # "done") /\ links' = Start
        /\ UNCHANGED <<stack, fpsTimers, closing, fresh, covered, constructor,
                       isUIKitMenuOpen, strayed>>
    BY <1>3 DEF LoadBlock, shown
  <2>2. links' = 1
    BY <2>1, <1>t DEF MenuTypes, Start
  <2>3. Presented' = Presented /\ ShownMenus' = ShownMenus /\ (Single => Single')
    BY <2>1 DEF Presented, ShownMenus, Single
  <2>4. gestures' \in Menus \cup {Host, Root, Nobody}
    BY <2>1, <1>t, TopKnown DEF MenuTypes
  <2>5. MenuTypes'
    BY <2>1, <2>2, <2>3, <2>4, <1>t DEF MenuTypes
  <2>6. OneMenu'
    BY <2>1, <2>3, <1>s, <1>p DEF MenuIInv, BeforeLoad
  <2> QED
    BY <2>1, <2>3, <2>5, <2>6 DEF MenuIInv, BeforeLoad, BeforeConstructor, NoLockOut
<1>4. CASE openUIKitMenu
  <2>1. /\ gestures = Top /\ ~isUIKitMenuOpen /\ isUIKitMenuOpen' = TRUE
        /\ UNCHANGED <<constructor, loadRan, gestures, links, gesturesFirst>>
    BY <1>4 DEF openUIKitMenu, started
  <2>2. loadRan
    BY <2>1, <1>t, TopKnown DEF MenuIInv, BeforeLoad, MenuTypes
  <2>3. CASE FromRoot
    <3>1. PICK m \in fresh : PresentMenu(m) /\ UNCHANGED strayed
      BY <1>4, <2>3 DEF openUIKitMenu
    <3>2. ShownMenus = {} /\ Single
      BY <2>3 DEF FromRoot, ShownMenus, Presented, Single
    <3>3. MenuTypes'
      BY <2>1, <3>1, <1>t, PresentStep DEF MenuTypes
    <3>4. OneMenu'
      BY <3>1, <3>2, <1>t, <1>p, PresentStep
    <3>5. NoLockOut'
      BY <3>1, <1>t, PresentStep DEF NoLockOut
    <3> QED
      BY <2>1, <2>2, <3>3, <3>4, <3>5 DEF MenuIInv, BeforeLoad, BeforeConstructor
  <2>4. CASE ~FromRoot
    <3>1. /\ strayed' = (strayed \/ ShownMenus = {})
          /\ UNCHANGED <<stack, fpsTimers, closing, fresh, covered>>
      BY <1>4, <2>4 DEF openUIKitMenu, shown
    <3>2. Presented' = Presented /\ ShownMenus' = ShownMenus /\ (Single => Single')
      BY <3>1 DEF Presented, ShownMenus, Single
    <3>3. MenuTypes'
      BY <2>1, <3>1, <3>2, <1>t DEF MenuTypes
    <3> QED
      BY <2>1, <2>2, <3>1, <3>2, <3>3, <1>s, <1>p
         DEF MenuIInv, BeforeLoad, BeforeConstructor, NoLockOut
  <2> QED
    BY <2>3, <2>4
<1>5. CASE closeUIKitMenu
  <2>1. /\ stack # <<>> /\ stack' = Without(Head(stack)) /\ isUIKitMenuOpen' = FALSE
        /\ UNCHANGED <<constructor, loadRan, gestures, links, gesturesFirst, fpsTimers,
                       closing, fresh, covered, strayed>>
    BY <1>5 DEF closeUIKitMenu, started
  <2>2. PICK n \in 0..Len(stack) : stack' = SubSeq(stack, 1, n)
    BY <2>1, <1>t, WithoutCuts DEF MenuTypes
  <2>3. /\ stack' \in Seq(Menus \cup {Host}) /\ IsInjective(stack')
        /\ ShownMenus' \subseteq ShownMenus /\ (Single => Single')
    BY <2>2, <1>t, CutStep DEF ShownMenus
  <2>4. MenuTypes'
    BY <2>1, <2>3, <1>t DEF MenuTypes
  <2> QED
    BY <2>1, <2>3, <2>4, <1>s, <1>p
       DEF MenuIInv, BeforeLoad, BeforeConstructor, NoLockOut
<1>6. ASSUME NEW m \in Menus, animateClose(m) PROVE MenuIInv'
  <2>1. /\ closing[m] < MaxCloses /\ closing' = [closing EXCEPT ![m] = @ + 1]
        /\ covered' \subseteq covered
        /\ UNCHANGED <<constructor, loadRan, gestures, links, gesturesFirst, stack,
                       fpsTimers, fresh, isUIKitMenuOpen, strayed>>
    BY <1>6 DEF animateClose, started
  <2>2. closing' \in [Menus -> 0..MaxCloses]
    BY <2>1, <1>t DEF MenuTypes
  <2>3. Presented' = Presented /\ ShownMenus' = ShownMenus /\ (Single => Single')
    BY <2>1 DEF Presented, ShownMenus, Single
  <2>4. MenuTypes'
    BY <2>1, <2>2, <2>3, <1>t DEF MenuTypes
  <2> QED
    BY <2>1, <2>3, <2>4, <1>s, <1>p
       DEF MenuIInv, BeforeLoad, BeforeConstructor, NoLockOut
<1>7. ASSUME NEW m \in Menus, closeSelf(m) PROVE MenuIInv'
  <2>1. /\ closing[m] > 0 /\ closing' = [closing EXCEPT ![m] = @ - 1]
        /\ fpsTimers' = fpsTimers \ {m} /\ stack' = Without(m)
        /\ isUIKitMenuOpen' = IF loadRan THEN FALSE ELSE isUIKitMenuOpen
        /\ UNCHANGED <<constructor, loadRan, gestures, links, gesturesFirst, fresh,
                       covered, strayed>>
    BY <1>7 DEF closeSelf, menuDidClose, Dismissed, started
  <2>2. closing' \in [Menus -> 0..MaxCloses]
    BY <2>1, <1>t DEF MenuTypes
  <2>3. PICK n \in 0..Len(stack) : stack' = SubSeq(stack, 1, n)
    BY <2>1, <1>t, WithoutCuts DEF MenuTypes
  <2>4. /\ stack' \in Seq(Menus \cup {Host}) /\ IsInjective(stack')
        /\ ShownMenus' \subseteq ShownMenus /\ (Single => Single')
    BY <2>3, <1>t, CutStep DEF ShownMenus
  <2>5. ~isUIKitMenuOpen'
    BY <2>1 DEF MenuIInv, BeforeLoad
  <2>6. MenuTypes'
    BY <2>1, <2>2, <2>4, <2>5, <1>t DEF MenuTypes
  <2> QED
    BY <2>1, <2>4, <2>5, <2>6, <1>s, <1>p
       DEF MenuIInv, BeforeLoad, BeforeConstructor, NoLockOut
<1>8. CASE HostPresents
  <2>1. /\ Host \notin Presented /\ Push(Host)
        /\ UNCHANGED <<constructor, loadRan, gestures, links, gesturesFirst, fpsTimers,
                       closing, fresh, isUIKitMenuOpen, strayed>>
    BY <1>8 DEF HostPresents, started
  <2>2. /\ stack' \in Seq(Menus \cup {Host}) /\ IsInjective(stack')
        /\ Presented' = Presented \cup {Host}
        /\ covered' = covered \cup {m \in ShownMenus : closing[m] > 0}
        /\ Single => Single'
    BY <2>1, <1>t, PushStep
  <2>3. ShownMenus' = ShownMenus
    BY <2>2 DEF ShownMenus
  <2>4. MenuTypes'
    BY <2>1, <2>2, <2>3, <1>t DEF MenuTypes
  <2> QED
    BY <2>1, <2>2, <2>3, <2>4, <1>s, <1>p
       DEF MenuIInv, BeforeLoad, BeforeConstructor, NoLockOut
<1>9. CASE HostDismisses
  <2>1. PICK n \in 0..(Len(stack) - 1) :
          /\ stack' = SubSeq(stack, 1, n)
          /\ strayed' = (strayed \/ \E i \in (n + 1)..Len(stack) : stack[i] \in Menus)
    BY <1>9 DEF HostDismisses
  <2>2. UNCHANGED <<constructor, loadRan, gestures, links, gesturesFirst, fpsTimers,
                    closing, fresh, covered, isUIKitMenuOpen>>
    BY <1>9 DEF HostDismisses, started
  <2>3. n \in 0..Len(stack)
    BY <1>t DEF MenuTypes
  <2>4. /\ stack' \in Seq(Menus \cup {Host}) /\ IsInjective(stack')
        /\ Presented' \subseteq Presented /\ (Single => Single')
        /\ \A c \in Presented \ Presented' : \E i \in (n + 1)..Len(stack) : stack[i] = c
    BY <2>1, <2>3, <1>t, CutStep
  <2>5. ShownMenus' \subseteq ShownMenus /\ (~strayed' => ShownMenus' = ShownMenus)
    BY <2>1, <2>4 DEF ShownMenus
  <2>6. strayed' \in BOOLEAN /\ (strayed => strayed')
    BY <2>1, <1>t DEF MenuTypes
  <2>7. MenuTypes'
    BY <2>2, <2>4, <2>5, <2>6, <1>t DEF MenuTypes
  <2>8. NoLockOut'
    BY <2>2, <2>5, <2>6 DEF MenuIInv, NoLockOut
  <2> QED
    BY <2>2, <2>4, <2>5, <2>7, <2>8, <1>s, <1>p DEF MenuIInv, BeforeLoad, BeforeConstructor
<1>10. CASE UNCHANGED menuVars
  <2>1. UNCHANGED <<stack, fpsTimers, closing, fresh, covered, constructor, loadRan,
                    gestures, links, gesturesFirst, isUIKitMenuOpen, strayed>>
    BY <1>10 DEF menuVars, shown, started
  <2>2. Presented' = Presented /\ ShownMenus' = ShownMenus /\ (Single => Single')
    BY <2>1 DEF Presented, ShownMenus, Single
  <2> QED
    BY <2>1, <2>2, <1>t, <1>s, <1>p
       DEF MenuIInv, MenuTypes, BeforeLoad, BeforeConstructor, NoLockOut
<1> QED
  BY <1>1, <1>2, <1>3, <1>4, <1>5, <1>6, <1>7, <1>8, <1>9, <1>10 DEF MenuNext

\* The invariant holds throughout.
LEMMA MenuInvariance == MenuSpec => []MenuIInv
<1>1. MenuInit => MenuIInv
  BY MenuInitInv
<1>2. MenuIInv /\ [MenuNext]_menuVars => MenuIInv'
  BY MenuStepInv
<1> QED
  BY <1>1, <1>2, PTL DEF MenuSpec

\* Every state of the menu and of its host has the types, and there is one
\* display link, however the two blocks after loading are ordered.
THEOREM MenuTypeCorrect == MenuSpec => []MenuTypes
<1>1. MenuIInv => MenuTypes
  BY DEF MenuIInv
<1> QED
  BY <1>1, MenuInvariance, PTL

\* For any number of menus, closed any number of times: the flag that the
\* opening gesture goes by is not left set without a menu, unless by the host.
THEOREM GestureNotLockedOut == MenuSpec => []NoLockOut
<1>1. MenuIInv => NoLockOut
  BY DEF MenuIInv
<1> QED
  BY <1>1, MenuInvariance, PTL

\* There is never more than one menu if the constructor's block ran first.
THEOREM NeverTwoMenus == MenuSpec => []OneMenu
<1>1. MenuIInv => OneMenu
  BY DEF MenuIInv
<1> QED
  BY <1>1, MenuInvariance, PTL

-----------------------------------------------------------------------------
(* Settings                                                                *)

\* The row of the skipped wall checks never says "on" for a variable that a
\* frame may switch off: that variable is on only when a frame copies "on".
CopyHolds == switch["SkipWall"] => effective["SkipWall"]

\* The file is what the last save was to keep: nothing else writes it.
SettingsIInv == SettingsTypes /\ RowsTellTruth /\ OffMeansOff /\ CopyHolds /\ file = kept

\* The names of the switches, as far as the proofs below tell them apart.
LEMMA Names ==
  /\ Paired \subseteq Joined /\ Joined \subseteq Switches /\ Listed \subseteq Switches
  /\ \A t \in {"closed"} \cup Tabs : RowsOf(t) \subseteq Switches
  /\ {"Aimbot", "SkipWall", "RateOfFire", "FastFire"} \subseteq Switches
  /\ "SkipWall" \in Paired /\ "SkipWall" \notin Listed
  /\ "RateOfFire" \notin Joined /\ "Aimbot" \notin Joined /\ "FastFire" \notin Paired
<1>1. \A t \in {"closed"} \cup Tabs : RowsOf(t) \subseteq Switches
  BY DEF RowsOf, Tabs, Switches
<1> QED
  BY <1>1 DEF Paired, Joined, Switches, Listed

\* What a tab builds of values shows them in its rows.
LEMMA BuiltShows ==
  ASSUME NEW t \in {"closed"} \cup Tabs, NEW values \in [Switches -> BOOLEAN]
  PROVE  /\ Built(t, values) \in [Switches -> BOOLEAN]
         /\ \A s \in RowsOf(t) : Built(t, values)[s] = values[s]
<1>1. RowsOf(t) \subseteq Switches
  BY Names
<1> QED
  BY <1>1 DEF Built

LEMMA SettingsInitInv == SettingsInit => SettingsIInv
<1> SUFFICES ASSUME SettingsInit PROVE SettingsIInv
  OBVIOUS
<1>1. AllOff \in [Switches -> BOOLEAN] /\ StartedWith \in [Joined -> BOOLEAN]
  BY DEF AllOff, StartedWith
<1>2. RowsOf(tab) = {}
  BY DEF SettingsInit, RowsOf
<1>3. SettingsTypes
  BY <1>1, Names DEF SettingsInit, SettingsTypes
<1>4. RowsTellTruth
  BY <1>2 DEF RowsTellTruth
<1>5. OffMeansOff
  BY Names DEF SettingsInit, OffMeansOff, StartedWith
<1>6. CopyHolds
  BY Names DEF SettingsInit, CopyHolds, AllOff
<1> QED
  BY <1>3, <1>4, <1>5, <1>6 DEF SettingsInit, SettingsIInv

\* What a menu that opens finds in its variables.
LEMMA LoadedTypes ==
  ASSUME SettingsTypes
  PROVE  /\ Loaded \in [Switches -> BOOLEAN]
         /\ file # Nothing => \A s \in Listed : Loaded[s] = file[s]
         /\ \A s \in Switches \ Listed : Loaded[s] = switch[s]
<1>1. /\ switch \in [Switches -> BOOLEAN] /\ Listed \subseteq Switches
      /\ file # Nothing => file \in [Listed -> BOOLEAN]
  BY Names DEF SettingsTypes
<1> QED
  BY <1>1 DEF Loaded

\* What a frame does to the variables.
LEMMA FrameSets ==
  ASSUME SettingsTypes, Frame
  PROVE  \E on \in SUBSET Switches, bundle \in BOOLEAN :
           /\ bundle => "SkipWall" \in on
           /\ effective' = [s \in Joined |->
                effective[s] \/ s \in on \/ (s # "SkipWall" /\ switch[s])]
           /\ switch' = [switch EXCEPT !["Aimbot"] = @ \/ "Aimbot" \in on,
                                       !["SkipWall"] = effective["SkipWall"] \/ bundle]
           /\ forced' = forced \cup (on \cap Paired)
           /\ UNCHANGED <<file, tab, shows, kept>>
<1> DEFINE bundle == switch["AimKill"] /\ switch["Enable"]
           bundled == IF bundle THEN Joined \cup {"Aimbot"} ELSE {}
           sets(ran) == UNION {SetsOn(feature) : feature \in ran}
           on(ran) == (UNION {SetsOn(feature) : feature \in ran})
                      \cup (IF bundle THEN Joined \cup {"Aimbot"} ELSE {})
<1>1. PICK ran \in SUBSET Features :
        /\ effective' = [s \in Joined |->
             effective[s] \/ s \in on(ran) \/ (s # "SkipWall" /\ switch[s])]
        /\ switch' = [switch EXCEPT !["Aimbot"] = @ \/ "Aimbot" \in on(ran),
                                    !["SkipWall"] = effective["SkipWall"] \/ bundle]
        /\ forced' = forced \cup (on(ran) \cap Paired)
        /\ UNCHANGED <<file, tab, shows, kept>>
  BY Zenon DEF Frame
<1>2. sets(ran) \subseteq Switches
  <2>1. \A feature \in Features : SetsOn(feature) \subseteq Switches
    BY DEF SetsOn, Features, Switches
  <2> QED
    BY <1>1, <2>1
<1>3. bundled \subseteq Switches
  BY Names
<1>4. bundle \in BOOLEAN
  OBVIOUS
<1>5. bundle => "SkipWall" \in bundled
  <2>1. "SkipWall" \in Joined \cup {"Aimbot"}
    BY Names
  <2>2. bundle => bundled = Joined \cup {"Aimbot"}
    BY Zenon
  <2> HIDE DEF bundled, bundle
  <2> QED
    BY <2>1, <2>2
<1>6. on(ran) = sets(ran) \cup bundled
  OBVIOUS
<1> HIDE DEF on, sets, bundled, bundle
<1>7. on(ran) \in SUBSET Switches /\ (bundle => "SkipWall" \in on(ran))
  BY <1>2, <1>3, <1>5, <1>6
<1> QED
  BY <1>1, <1>4, <1>7, Zenon

\* Every step keeps the invariant.
LEMMA SettingsStepInv ==
  ASSUME SettingsIInv, [SettingsNext]_settingsVars
  PROVE  SettingsIInv'
<1>t. SettingsTypes /\ RowsTellTruth /\ OffMeansOff /\ CopyHolds /\ file = kept
  BY DEF SettingsIInv
<1>s. /\ switch \in [Switches -> BOOLEAN] /\ shows \in [Switches -> BOOLEAN]
      /\ effective \in [Joined -> BOOLEAN] /\ forced \subseteq Paired
      /\ tab \in {"closed"} \cup Tabs
  BY <1>t DEF SettingsTypes
<1>a. AllOff \in [Switches -> BOOLEAN] /\ (\A s \in Switches : ~AllOff[s])
  BY DEF AllOff
<1>1. CASE viewDidLoad
  <2>1. Loaded \in [Switches -> BOOLEAN] /\ Loaded["SkipWall"] = switch["SkipWall"]
    BY <1>t, LoadedTypes, Names
  <2>2. /\ tab' = "aim" /\ switch' = Loaded /\ shows' = Built("aim", Loaded)
        /\ forced' = forced \cup {s \in Paired : effective[s] /\ ~Loaded[s]}
        /\ UNCHANGED <<effective, file, kept>>
    BY <1>1 DEF viewDidLoad, Rows
  <2>3. "aim" \in {"closed"} \cup Tabs
    BY DEF Tabs
  <2>4. /\ shows' \in [Switches -> BOOLEAN]
        /\ \A s \in RowsOf(tab') : shows'[s] = switch'[s]
    BY <2>1, <2>2, <2>3, BuiltShows
  <2>5. SettingsTypes'
    BY <2>1, <2>2, <2>3, <2>4, <1>t DEF SettingsTypes
  <2>6. RowsTellTruth'
    BY <2>4 DEF RowsTellTruth
  <2>7. OffMeansOff'
    BY <2>2 DEF OffMeansOff
  <2>8. CopyHolds'
    BY <2>1, <2>2, <1>t DEF CopyHolds
  <2> QED
    BY <2>2, <2>5, <2>6, <2>7, <2>8, <1>t DEF SettingsIInv
<1>2. ASSUME NEW t \in Tabs, tabTapped(t) PROVE SettingsIInv'
  <2>1. /\ tab' = t /\ shows' = Built(t, switch)
        /\ UNCHANGED <<switch, effective, file, kept, forced>>
    BY <1>2 DEF tabTapped
  <2>2. /\ shows' \in [Switches -> BOOLEAN]
        /\ \A s \in RowsOf(tab') : shows'[s] = switch'[s]
    <3>1. /\ Built(t, switch) \in [Switches -> BOOLEAN]
          /\ \A s \in RowsOf(t) : Built(t, switch)[s] = switch[s]
      <4>1. t \in {"closed"} \cup Tabs
        OBVIOUS
      <4> QED
        BY <4>1, <1>s, BuiltShows
    <3> QED
      BY <3>1, <2>1
  <2>3. SettingsTypes'
    BY <2>1, <2>2, <1>t DEF SettingsTypes
  <2>4. RowsTellTruth'
    BY <2>2 DEF RowsTellTruth
  <2> QED
    BY <2>1, <2>3, <2>4, <1>t DEF SettingsIInv, OffMeansOff, CopyHolds
<1>3. CASE Close
  <2>1. /\ tab' = "closed" /\ shows' = AllOff
        /\ UNCHANGED <<switch, effective, file, kept, forced>>
    BY <1>3 DEF Close
  <2>2. RowsTellTruth'
    BY <2>1 DEF RowsTellTruth, RowsOf
  <2>3. SettingsTypes'
    BY <2>1, <1>a, <1>t DEF SettingsTypes
  <2> QED
    BY <2>1, <2>2, <2>3, <1>t DEF SettingsIInv, OffMeansOff, CopyHolds
<1>4. ASSUME NEW s \in Switches, TapRow(s) PROVE SettingsIInv'
  <2>1. /\ s \in RowsOf(tab) /\ tab' = tab
        /\ shows' = [shows EXCEPT ![s] = ~@]
        /\ switch' = [v \in Switches |-> IF v \in SetBy(s) THEN ~shows[s] ELSE switch[v]]
        /\ file' = file /\ kept' = kept
    BY <1>4 DEF TapRow
  <2>2. /\ s \in Paired => /\ effective' = [effective EXCEPT ![s] = ~shows[s]]
                           /\ forced' = forced \ {s}
        /\ s \notin Paired => effective' = effective /\ forced' = forced
    BY <1>4 DEF TapRow, SetBoth
  <2>3. SetBy(s) = {s} \/ (s = "FastFire" /\ SetBy(s) = {s, "RateOfFire"})
    <3>1. CASE s = "FastFire"
      BY <3>1, Zenon DEF SetBy
    <3>2. s # "FastFire" => SetBy(s) = {s}
      BY DEF SetBy
    <3> QED
      BY <3>1, <3>2
  <2>4. /\ shows'[s] = ~shows[s] /\ switch'[s] = ~shows[s]
        /\ \A o \in Switches \ {s} : shows'[o] = shows[o]
        /\ \A o \in Switches \ {s} :
             \/ switch'[o] = switch[o]
             \/ o = "RateOfFire" /\ s = "FastFire" /\ switch'[o] = switch'[s]
    BY <2>1, <2>3, <1>s
  <2>5. \A p \in Paired : p # s => switch'[p] = switch[p] /\ effective'[p] = effective[p]
    <3>1. \A p \in Paired : p # s => switch'[p] = switch[p]
      BY <2>4, Names
    <3>2. \A p \in Paired : p # s => effective'[p] = effective[p]
      BY <2>2, <1>s, Names
    <3> QED
      BY <3>1, <3>2
  <2>6. s \in Paired => effective'[s] = switch'[s]
    BY <2>2, <2>4, <1>s, Names
  <2>7. SettingsTypes'
    <3>1. shows' \in [Switches -> BOOLEAN] /\ switch' \in [Switches -> BOOLEAN]
      BY <2>1, <1>s
    <3>2. effective' \in [Joined -> BOOLEAN] /\ forced' \subseteq Paired
      BY <2>2, <1>s
    <3> QED
      BY <2>1, <3>1, <3>2, <1>t DEF SettingsTypes
  <2>8. RowsTellTruth'
    <3> SUFFICES ASSUME NEW o \in RowsOf(tab)
                 PROVE  \/ shows'[o] = switch'[o]
                        \/ o \in {"Aimbot", "SkipWall"} /\ switch'[o]
                        \/ o = "RateOfFire" /\ switch'["RateOfFire"] = switch'["FastFire"]
      BY <2>1 DEF RowsTellTruth
    <3>1. o \in Switches
      BY <1>s, Names
    <3>2. CASE o = s
      BY <3>2, <2>4
    <3>3. CASE o # s /\ switch'[o] # switch[o]
      BY <3>1, <3>3, <2>4
    <3>4. CASE o # s /\ switch'[o] = switch[o] /\ o # "RateOfFire"
      BY <3>1, <3>4, <2>4, <1>t DEF RowsTellTruth
    <3>5. CASE o # s /\ switch'[o] = switch[o] /\ o = "RateOfFire"
      <4>1. shows'[o] = shows[o]
        BY <3>1, <3>5, <2>4
      <4>2. shows[o] = switch[o] \/ switch["RateOfFire"] = switch["FastFire"]
        BY <3>5, <1>t DEF RowsTellTruth
      <4>3. CASE s = "FastFire"
        <5>1. SetBy(s) = {s, "RateOfFire"}
          BY <4>3 DEF SetBy
        <5>2. switch'["RateOfFire"] = ~shows[s] /\ switch'["FastFire"] = ~shows[s]
          BY <5>1, <4>3, <2>1, Names
        <5> QED
          BY <5>2, <3>5
      <4>4. CASE s # "FastFire"
        <5>1. switch'["FastFire"] = switch["FastFire"]
          BY <4>4, <2>4, Names
        <5> QED
          BY <5>1, <4>1, <4>2, <3>5
      <4> QED
        BY <4>3, <4>4
    <3> QED
      BY <3>2, <3>3, <3>4, <3>5
  <2>9. OffMeansOff'
    <3> SUFFICES ASSUME NEW p \in Paired, effective'[p], ~switch'[p]
                 PROVE  p \in forced'
      BY DEF OffMeansOff
    <3>1. p # s
      BY <2>6
    <3>2. p \in forced
      BY <3>1, <2>5, <1>t DEF OffMeansOff
    <3> QED
      BY <3>1, <3>2, <2>2
  <2>10. CopyHolds'
    BY <2>5, <2>6, <1>t, Names DEF CopyHolds
  <2> QED
    BY <2>1, <2>7, <2>8, <2>9, <2>10, <1>t DEF SettingsIInv
<1>5. CASE saveSettingsToFile
  <2>1. /\ file' = [s \in Listed |-> switch[s]] /\ kept' = [s \in Listed |-> switch[s]]
        /\ UNCHANGED <<switch, effective, tab, shows, forced>>
    BY <1>5 DEF saveSettingsToFile, Saved
  <2>2. file' \in [Listed -> BOOLEAN] /\ file' = kept'
    BY <2>1, <1>s, Names
  <2>3. SettingsTypes'
    BY <2>1, <2>2, <1>t DEF SettingsTypes
  <2> QED
    BY <2>1, <2>2, <2>3, <1>t DEF SettingsIInv, RowsTellTruth, OffMeansOff, CopyHolds
<1>6. CASE Frame
  <2>1. PICK on \in SUBSET Switches, bundle \in BOOLEAN :
          /\ bundle => "SkipWall" \in on
          /\ effective' = [s \in Joined |->
               effective[s] \/ s \in on \/ (s # "SkipWall" /\ switch[s])]
          /\ switch' = [switch EXCEPT !["Aimbot"] = @ \/ "Aimbot" \in on,
                                      !["SkipWall"] = effective["SkipWall"] \/ bundle]
          /\ forced' = forced \cup (on \cap Paired)
          /\ UNCHANGED <<file, tab, shows, kept>>
    BY <1>6, <1>t, FrameSets
  <2>2. /\ switch' \in [Switches -> BOOLEAN]
        /\ switch["Aimbot"] => switch'["Aimbot"]
        /\ switch'["SkipWall"] = (effective["SkipWall"] \/ bundle)
        /\ \A s \in Switches \ {"Aimbot", "SkipWall"} : switch'[s] = switch[s]
    <3>1. effective["SkipWall"] \in BOOLEAN
      BY <1>s, Names
    <3> QED
      BY <2>1, <3>1, <1>s, Names
  <2>3. /\ effective' \in [Joined -> BOOLEAN]
        /\ \A s \in Joined : effective'[s] = (effective[s] \/ s \in on \/ (s # "SkipWall" /\ switch[s]))
    <3>1. \A s \in Joined : (effective[s] \/ s \in on \/ (s # "SkipWall" /\ switch[s])) \in BOOLEAN
      OBVIOUS
    <3> QED
      BY <2>1, <3>1
  <2>4. SettingsTypes'
    BY <2>1, <2>2, <2>3, <1>t DEF SettingsTypes
  <2>5. switch["SkipWall"] => switch'["SkipWall"]
    BY <2>2, <1>t DEF CopyHolds
  <2>6. RowsTellTruth'
    <3> SUFFICES ASSUME NEW o \in RowsOf(tab)
                 PROVE  \/ shows[o] = switch'[o]
                        \/ o \in {"Aimbot", "SkipWall"} /\ switch'[o]
                        \/ o = "RateOfFire" /\ switch'["RateOfFire"] = switch'["FastFire"]
      BY <2>1 DEF RowsTellTruth
    <3>1. o \in Switches
      BY <1>s, Names
    <3>2. CASE o \in {"Aimbot", "SkipWall"}
      <4>1. switch[o] => switch'[o]
        BY <3>2, <2>2, <2>5
      <4>2. shows[o] = switch[o] \/ switch[o]
        BY <3>2, <1>t DEF RowsTellTruth
      <4>3. switch'[o] \in BOOLEAN /\ shows[o] \in BOOLEAN /\ switch[o] \in BOOLEAN
        BY <3>1, <2>2, <1>s
      <4> QED
        BY <4>1, <4>2, <4>3, <3>2
    <3>3. CASE o \notin {"Aimbot", "SkipWall"}
      <4>1. switch'[o] = switch[o]
        BY <3>1, <3>3, <2>2
      <4>2. switch'["RateOfFire"] = switch["RateOfFire"] /\ switch'["FastFire"] = switch["FastFire"]
        BY <2>2, Names
      <4> QED
        BY <4>1, <4>2, <3>3, <1>t DEF RowsTellTruth
    <3> QED
      BY <3>2, <3>3
  <2>7. OffMeansOff'
    <3> SUFFICES ASSUME NEW p \in Paired, effective'[p], ~switch'[p]
                 PROVE  p \in forced'
      BY DEF OffMeansOff
    <3>1. p \in Joined /\ p \in Switches /\ p # "Aimbot"
      BY Names
    <3>2. CASE p \in on
      BY <3>2, <2>1
    <3>3. CASE p \notin on /\ p = "SkipWall"
      BY <3>1, <3>3, <2>2, <2>3
    <3>4. CASE p \notin on /\ p # "SkipWall"
      <4>1. switch'[p] = switch[p]
        BY <3>1, <3>4, <2>2
      <4>2. effective[p]
        BY <4>1, <3>1, <3>4, <2>3
      <4> QED
        BY <4>1, <4>2, <2>1, <1>t DEF OffMeansOff
    <3> QED
      BY <3>2, <3>3, <3>4
  <2>8. CopyHolds'
    BY <2>1, <2>2, <2>3, Names DEF CopyHolds
  <2> QED
    BY <2>1, <2>4, <2>6, <2>7, <2>8, <1>t DEF SettingsIInv
<1>7. CASE Restart
  <2>1. /\ switch' = AllOff /\ effective' = StartedWith /\ forced' = {"SkipWall"}
        /\ tab' = "closed" /\ shows' = AllOff /\ UNCHANGED <<file, kept>>
    BY <1>7 DEF Restart
  <2>2. StartedWith \in [Joined -> BOOLEAN]
    BY DEF StartedWith
  <2>3. SettingsTypes'
    BY <2>1, <2>2, <1>a, <1>t, Names DEF SettingsTypes
  <2>4. RowsTellTruth'
    BY <2>1 DEF RowsTellTruth, RowsOf
  <2>5. OffMeansOff'
    BY <2>1, Names DEF OffMeansOff, StartedWith
  <2>6. CopyHolds'
    BY <2>1, <1>a, Names DEF CopyHolds
  <2> QED
    BY <2>1, <2>3, <2>4, <2>5, <2>6, <1>t DEF SettingsIInv
<1>8. CASE UNCHANGED settingsVars
  BY <1>8, <1>t
     DEF settingsVars, SettingsIInv, SettingsTypes, RowsTellTruth, OffMeansOff, CopyHolds
<1> QED
  BY <1>1, <1>2, <1>3, <1>4, <1>5, <1>6, <1>7, <1>8 DEF SettingsNext

\* The invariant holds throughout.
LEMMA SettingsInvariance == SettingsSpec => []SettingsIInv
<1> QED
  BY SettingsInitInv, SettingsStepInv, PTL DEF SettingsSpec

\* Whatever frames, files, restarts and other rows do to the variables, a row
\* that is shown says what its variable says, or is one of three: the aimbot's
\* and that of the skipped wall checks may say "off" for a variable that is on,
\* and the rate of fire's may be behind the row of fast fire.
THEOREM RowsAreTrue == SettingsSpec => []RowsTellTruth
<1>1. SettingsIInv => RowsTellTruth
  BY DEF SettingsIInv
<1> QED
  BY <1>1, SettingsInvariance, PTL

\* A second variable on behind a switch that is off was set by something else.
THEOREM OffStaysOff == SettingsSpec => []OffMeansOff
<1>1. SettingsIInv => OffMeansOff
  BY DEF SettingsIInv
<1> QED
  BY <1>1, SettingsInvariance, PTL

\* A menu that opens has every listed setting as it was last saved.
THEOREM LoadIsLastSave == SettingsSpec => LoadsLastSave
<1>1. SettingsIInv /\ [SettingsNext]_settingsVars
        => [viewDidLoad /\ kept # Nothing
              => \A s \in Listed : switch'[s] = kept[s]]_settingsVars
  BY LoadedTypes DEF SettingsIInv, viewDidLoad
<1> QED
  BY <1>1, SettingsInvariance, PTL DEF SettingsSpec, LoadsLastSave

-----------------------------------------------------------------------------
(* The parts together                                                      *)

\* Side by side each part behaves as it does alone: what is proved of the
\* parts holds in the specification that TLC runs.
THEOREM PartsBehave == Interface => Spec /\ MenuSpec /\ SettingsSpec
<1>1. InterfaceInit => Init /\ MenuInit /\ SettingsInit
  BY DEF InterfaceInit
<1>2. [InterfaceNext]_<<part, vars, menuVars, settingsVars>>
        => [Next]_vars /\ [MenuNext]_menuVars /\ [SettingsNext]_settingsVars
  BY DEF InterfaceNext
<1> QED
  BY <1>1, <1>2, PTL DEF Interface, Spec, MenuSpec, SettingsSpec

\* Every state of the interface has the types.
THEOREM InterfaceTypes == Interface => []Types
<1>1. ButtonsIInv /\ MenuIInv /\ SettingsIInv => Types
  BY DEF ButtonsIInv, MenuIInv, SettingsIInv, Types
<1> QED
  BY <1>1, PartsBehave, ButtonsInvariance, MenuInvariance, SettingsInvariance, PTL
=============================================================================
