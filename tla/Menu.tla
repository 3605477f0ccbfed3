-------------------------------- MODULE Menu --------------------------------
(***************************************************************************)
(* The life of the menu: ModMenuViewController of Draw.mm, the gestures of *)
(* Esp/PubgLoad.mm that open and close it, and Helper/GameRunner.mm.  Two  *)
(* blocks run some seconds after the library is loaded: the one of the     *)
(* constructor presents a menu, the one of +load attaches the gestures to  *)
(* the view of whatever controller is on top.  All of it runs on the main  *)
(* thread, beside a host application that presents controllers of its own. *)
(*                                                                         *)
(* UIKit, as the code uses it: each controller presents at most one other, *)
(* so those presented form a stack above the root; only the topmost view   *)
(* gets touches; presenting from a controller that already presents does   *)
(* nothing, and dismissing one takes off what it presents, or itself.      *)
(***************************************************************************)
EXTENDS Integers, Sequences, SequencesExt

CONSTANTS
  Menus,     \* bound: the menus that can be presented
  Host,      \* a controller of the host application
  Root, Nobody,
  MaxCloses  \* bound: close animations of one menu under way

ASSUME MenuAssumption ==
  /\ Host \notin Menus /\ Root \notin Menus /\ Host # Root
  /\ Nobody \notin Menus \cup {Host, Root}
  /\ MaxCloses \in Nat

VARIABLES
  stack,           \* the controllers presented above the root
  isUIKitMenuOpen,
  constructor,     \* its blocks: "waiting", "running" (frames) or "done" (menu)
  loadRan,         \* the block of +load
  gestures,        \* the controller whose view has the gestures, or Nobody
  fpsTimers,       \* menus whose timer is scheduled
  closing,         \* close animations of each menu under way
  links,           \* display links that call the frame function
  fresh,           \* history: menus not presented yet
  strayed,         \* history: the host removed a menu, or kept one from opening
  gesturesFirst,   \* history: the gestures were attached before the constructor's menu
  covered          \* history: menus that had a controller put above them while closing

shown == <<stack, fpsTimers, closing, fresh, covered>>
started == <<constructor, loadRan, gestures, links, gesturesFirst>>
menuVars == <<shown, started, isUIKitMenuOpen, strayed>>

Presented == {stack[i] : i \in DOMAIN stack}
ShownMenus == Presented \cap Menus
Top == IF stack = <<>> THEN Root ELSE Last(stack)

MenuInit ==
  /\ stack = <<>>
  /\ isUIKitMenuOpen = FALSE
  /\ constructor = "waiting"
  /\ loadRan = FALSE
  /\ gestures = Nobody
  /\ fpsTimers = {}
  /\ closing = [m \in Menus |-> 0]
  /\ links = 0
  /\ fresh = Menus
  /\ strayed = FALSE
  /\ gesturesFirst = FALSE
  /\ covered = {}

-----------------------------------------------------------------------------
(* UIKit                                                                   *)

\* Put above the topmost controller, where every closing menu is now covered.
Push(c) ==
  /\ stack' = Append(stack, c)
  /\ covered' = covered \cup {m \in ShownMenus : closing[m] > 0}

\* viewDidLoad starts the timer of a menu.
PresentMenu(m) ==
  /\ Push(m)
  /\ fresh' = fresh \ {m}
  /\ fpsTimers' = fpsTimers \cup {m}
  /\ UNCHANGED closing

\* What is left when a controller is dismissed.
Without(c) ==
  IF c \notin Presented THEN stack
  ELSE LET at == CHOOSE i \in DOMAIN stack : stack[i] = c
       IN SubSeq(stack, 1, IF at = Len(stack) THEN at - 1 ELSE at)

-----------------------------------------------------------------------------
(* After loading                                                           *)

StartAgain == links + 1  \* mutated: no test for a link that runs
Start == IF links > 0 THEN links ELSE links + 1

\* The first block of the constructor starts the frames.
StartFrames ==
  /\ constructor = "waiting"
  /\ constructor' = "running"
  /\ links' = Start
  /\ UNCHANGED <<shown, loadRan, gestures, gesturesFirst, isUIKitMenuOpen, strayed>>

\* The second presents a menu if there is a window, on top of everything, and
\* leaves isUIKitMenuOpen alone.
ConstructorBlock ==
  /\ constructor = "running"
  /\ constructor' = "done"
  /\ \/ \E m \in fresh : PresentMenu(m)
     \/ UNCHANGED shown
  /\ UNCHANGED <<loadRan, gestures, links, gesturesFirst, isUIKitMenuOpen, strayed>>

\* The observer is added and the gestures are attached, to nothing where the
\* application's delegate has no window.
LoadBlock ==
  /\ ~loadRan
  /\ loadRan' = TRUE
  /\ gestures' \in {Top, Nobody}
  /\ gesturesFirst' = (constructor # "done")
  /\ links' = Start
  /\ UNCHANGED <<shown, constructor, isUIKitMenuOpen, strayed>>

-----------------------------------------------------------------------------
(* Gestures and buttons                                                    *)

\* mutated: from the topmost controller, as the constructor does
FromTop == TRUE
FromRoot == stack = <<>>

\* The menu is presented from the root.  Where that already presents, nothing
\* happens, and the flag is set all the same.
openUIKitMenu ==
  /\ gestures = Top
  /\ ~isUIKitMenuOpen
  /\ isUIKitMenuOpen' = TRUE
  /\ IF FromRoot THEN /\ \E m \in fresh : PresentMenu(m)
                      /\ UNCHANGED strayed
                 ELSE /\ strayed' = (strayed \/ ShownMenus = {})
                      /\ UNCHANGED shown
  /\ UNCHANGED started

\* The menu the root presents is dismissed; its timer goes on.
closeUIKitMenu ==
  /\ gestures = Top
  /\ isUIKitMenuOpen
  /\ stack # <<>> /\ Head(stack) \in Menus
  /\ stack' = Without(Head(stack))
  /\ isUIKitMenuOpen' = FALSE
  /\ UNCHANGED <<started, fpsTimers, closing, fresh, covered, strayed>>

\* The close button or a tap outside the panel; nothing keeps a second tap from
\* starting a second animation.
animateClose(m) ==
  /\ m = Top
  /\ closing[m] < MaxCloses
  /\ closing' = [closing EXCEPT ![m] = @ + 1]
  /\ covered' = IF closing[m] = 0 THEN covered \ {m} ELSE covered
  /\ UNCHANGED <<started, stack, fpsTimers, fresh, isUIKitMenuOpen, strayed>>

\* mutated: nobody is told
NotTold == isUIKitMenuOpen
menuDidClose == IF loadRan THEN FALSE ELSE isUIKitMenuOpen

\* mutated: a menu that has closed itself is not dismissed
NotDismissed(m) == stack
Dismissed(m) == Without(m)

\* The completion of the animation.
closeSelf(m) ==
  /\ closing[m] > 0
  /\ closing' = [closing EXCEPT ![m] = @ - 1]
  /\ fpsTimers' = fpsTimers \ {m}
  /\ isUIKitMenuOpen' = menuDidClose
  /\ stack' = Dismissed(m)
  /\ UNCHANGED <<started, fresh, covered, strayed>>

-----------------------------------------------------------------------------
(* The host application                                                    *)

HostPresents ==
  /\ Host \notin Presented
  /\ Push(Host)
  /\ UNCHANGED <<started, fpsTimers, closing, fresh, isUIKitMenuOpen, strayed>>

\* It dismisses what the root or its own controller presents, or its own.
HostDismisses ==
  /\ \E n \in {k \in 0..(Len(stack) - 1) : k = 0 \/ Host \in {stack[k], stack[k + 1]}} :
       /\ stack' = SubSeq(stack, 1, n)
       /\ strayed' = (strayed \/ \E i \in (n + 1)..Len(stack) : stack[i] \in Menus)
  /\ UNCHANGED <<started, fpsTimers, closing, fresh, covered, isUIKitMenuOpen>>

MenuNext ==
  \/ StartFrames \/ ConstructorBlock \/ LoadBlock
  \/ openUIKitMenu \/ closeUIKitMenu
  \/ \E m \in Menus : animateClose(m) \/ closeSelf(m)
  \/ HostPresents \/ HostDismisses

MenuFairness == \A m \in Menus : WF_menuVars(closeSelf(m))

MenuSpec == MenuInit /\ [][MenuNext]_menuVars

-----------------------------------------------------------------------------
(* Properties                                                              *)

MenuTypes ==
  /\ stack \in Seq(Menus \cup {Host}) /\ IsInjective(stack)
  /\ constructor \in {"waiting", "running", "done"}
  /\ isUIKitMenuOpen \in BOOLEAN /\ loadRan \in BOOLEAN
  /\ strayed \in BOOLEAN /\ gesturesFirst \in BOOLEAN
  /\ gestures \in Menus \cup {Host, Root, Nobody}
  /\ fresh \subseteq Menus
  /\ ShownMenus \cup fpsTimers \cup covered \subseteq Menus \ fresh
  /\ closing \in [Menus -> 0..MaxCloses]
  /\ links = IF constructor # "waiting" \/ loadRan THEN 1 ELSE 0

\* The flag that keeps the opening gesture from opening a second menu is never
\* left set without a menu, which would keep the user from opening one again
\* (openUIKitMenu returns at once): not by menus closed twice, closed by either
\* gesture or presented by the constructor.  It is when the host takes a menu
\* off, or when an opening is ignored because the host presents something.
NoLockOut == isUIKitMenuOpen /\ ~strayed => ShownMenus # {}

\* Where the constructor's block runs before the gestures are attached, there is
\* never more than one menu, although the constructor does not set the flag.
OneMenu == ~gesturesFirst => \A i, j \in DOMAIN stack :
             stack[i] \in Menus /\ stack[j] \in Menus => i = j

\* A menu whose close animation has begun goes, and its timer with it, however
\* often it was tapped, unless a controller was presented above it meanwhile:
\* then its dismissal takes off that one instead.
ClosedGoes == \A m \in Menus :
  closing[m] > 0 ~> m \in covered \/ (m \notin Presented /\ m \notin fpsTimers)
=============================================================================
