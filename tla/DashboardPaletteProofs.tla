------------------------ MODULE DashboardPaletteProofs ------------------------
(***************************************************************************)
(* Proofs about DashboardPalette, for any queries, any number of links,    *)
(* any deadline and any period of the sweep.                               *)
(***************************************************************************)
EXTENDS DashboardPalette, FiniteSetTheorems, TLAPS

(* Types, one group of variables at a time.                                 *)

PageTyped == at \in Views /\ open \in SUBSET Dialogs /\ focus \in Places

KeysTyped == pendingG \in BOOLEAN /\ left \in Int /\ phase \in 0 .. Sweep - 1

InputTyped ==
  value \in Queries /\ typed \in 0 .. MaxTyped /\ heard \in Queries /\ timer \in BOOLEAN

FetchTyped == asked \in Queries \cup {None} /\ queued \in BOOLEAN /\ unread \in BOOLEAN

ResultsTyped ==
  /\ shown \in [query : Queries \cup {None}, links : 0 .. MaxLinks]
  /\ selected \in 0 .. shown.links

LEMMA Grouped ==
  /\ TypeOK <=> PageTyped /\ KeysTyped /\ InputTyped /\ FetchTyped /\ ResultsTyped
  /\ TypeOK' <=> PageTyped' /\ KeysTyped' /\ InputTyped' /\ FetchTyped' /\ ResultsTyped'
BY DEF TypeOK, PageTyped, KeysTyped, InputTyped, FetchTyped, ResultsTyped

LEMMA InitTyped == Init => TypeOK
<1> SUFFICES ASSUME Init PROVE TypeOK
  OBVIOUS
<1>1. PageTyped
  BY DEF Init, PageTyped, Places
<1>2. pendingG \in BOOLEAN /\ timer \in BOOLEAN
  BY DEF Init
<1>3. left \in Int /\ phase \in 0 .. Sweep - 1 /\ typed \in 0 .. MaxTyped
  BY PaletteAssumption DEF Init
<1>4. value \in Queries /\ heard \in Queries
  BY PaletteAssumption DEF Init
<1>5. FetchTyped
  BY DEF Init, FetchTyped
<1>6. shown \in [query : Queries \cup {None}, links : 0 .. MaxLinks]
  BY PaletteAssumption DEF Init
<1>7. selected \in 0 .. shown.links
  BY DEF Init
<1> QED
  BY <1>1, <1>2, <1>3, <1>4, <1>5, <1>6, <1>7, Grouped DEF KeysTyped, InputTyped, ResultsTyped

LEMMA LeaveTyped ==
  ASSUME InputTyped, NEW view \in Views, Leave(view)
  PROVE  TypeOK'
<1>1. PageTyped'
  BY DEF Leave, PageTyped, Places
<1>2. pendingG' \in BOOLEAN /\ timer' \in BOOLEAN
  BY DEF Leave
<1>3. left' \in Int /\ phase' \in 0 .. Sweep - 1 /\ typed' \in 0 .. MaxTyped
  BY PaletteAssumption DEF Leave, InputTyped
<1>4. value' \in Queries /\ heard' \in Queries
  BY PaletteAssumption DEF Leave
<1>5. FetchTyped'
  BY DEF Leave, FetchTyped
<1>6. shown' \in [query : Queries \cup {None}, links : 0 .. MaxLinks]
  BY PaletteAssumption DEF Leave
<1>7. selected' \in 0 .. shown'.links
  BY DEF Leave
<1> QED
  BY <1>1, <1>2, <1>3, <1>4, <1>5, <1>6, <1>7, Grouped DEF KeysTyped, InputTyped, ResultsTyped

\* What openDialog and the focus of the input do keeps the types.
LEMMA OpenDialogTyped ==
  ASSUME PageTyped, InputTyped, FetchTyped, NEW id \in Dialogs, OpenDialog(id),
         UNCHANGED <<at, typed, heard>>
  PROVE  PageTyped' /\ InputTyped' /\ FetchTyped'
<1>1. PageTyped'
  BY DEF PageTyped, OpenDialog, FocusInput, Places
<1>2. InputTyped'
  BY PaletteAssumption DEF InputTyped, OpenDialog, FocusInput
<1>3. FetchTyped'
  BY DEF FetchTyped, InputTyped, OpenDialog, FocusInput, Request, fetch
<1> QED BY <1>1, <1>2, <1>3

LEMMA StepTyped == TypeOK /\ [Next]_vars => TypeOK'
<1> SUFFICES ASSUME PageTyped, KeysTyped, InputTyped, FetchTyped, ResultsTyped, [Next]_vars
             PROVE  TypeOK'
  BY Grouped
<1>1. UNCHANGED <<at, open, focus>> => PageTyped'
  BY DEF PageTyped
<1>2. UNCHANGED keys => KeysTyped'
  BY DEF KeysTyped, keys
<1>3. UNCHANGED input => InputTyped'
  BY DEF InputTyped, input
<1>4. UNCHANGED <<fetch, unread>> => FetchTyped'
  BY DEF FetchTyped, fetch
<1>5. UNCHANGED results => ResultsTyped'
  BY DEF ResultsTyped, results
<1>6. ASSUME Forget PROVE KeysTyped'
  <2>1. pendingG' \in BOOLEAN
    BY <1>6 DEF Forget
  <2>2. left' \in Int /\ phase' \in 0 .. Sweep - 1
    BY <1>6 DEF Forget, KeysTyped
  <2> QED BY <2>1, <2>2 DEF KeysTyped
<1>7. CASE Fire
  <2>1. InputTyped' /\ FetchTyped'
    BY <1>7 DEF Fire, Request, InputTyped, FetchTyped
  <2> QED BY <1>1, <1>2, <1>5, <1>7, <2>1, Grouped DEF Fire
<1>8. ASSUME NEW links \in 0 .. MaxLinks, Answer(links) PROVE TypeOK'
  <2>1. FetchTyped'
    BY <1>8 DEF Answer, NextRequest, InputTyped, FetchTyped
  <2>2. /\ shown' = [query |-> asked, links |-> links] /\ selected' = Least(1, links)
        /\ asked \in Queries \cup {None} /\ links \in Nat
    BY <1>8, PaletteAssumption DEF Answer, FetchTyped
  <2>3. shown'.links = links /\ Least(1, links) \in 0 .. links
    BY <2>2 DEF Least
  <2>4. ResultsTyped'
    BY <1>8, <2>2, <2>3 DEF ResultsTyped
  <2> QED BY <1>1, <1>2, <1>3, <1>8, <2>1, <2>4, Grouped DEF Answer
<1>9. CASE Fail
  <2>1. FetchTyped'
    BY <1>9 DEF Fail, NextRequest, InputTyped, FetchTyped
  <2> QED BY <1>1, <1>2, <1>3, <1>5, <1>9, <2>1, Grouped DEF Fail
<1>10. CASE Tick
  <2>1. phase' \in 0 .. Sweep - 1
    BY <1>10, PaletteAssumption DEF Tick, KeysTyped
  <2>2. pendingG' \in BOOLEAN
    BY <1>10 DEF Tick
  <2>3. left' \in Int
    BY <1>10 DEF Tick, KeysTyped
  <2>4. KeysTyped'
    BY <2>1, <2>2, <2>3 DEF KeysTyped
  <2> QED BY <1>1, <1>3, <1>4, <1>5, <1>10, <2>4, Grouped DEF Tick
<1>11. CASE PaletteButton \/ CommandK
  <2>1. OpenDialog("palette") /\ UNCHANGED <<at, keys, typed, heard, results>>
    BY <1>11 DEF PaletteButton, CommandK
  <2> QED BY <1>2, <1>5, <2>1, OpenDialogTyped, Grouped DEF Dialogs
<1>12. CASE Close
  <2>1. PageTyped'
    BY <1>12 DEF Close, PageTyped, Places
  <2> QED BY <1>2, <1>3, <1>4, <1>5, <1>12, <2>1, Grouped DEF Close
<1>13. CASE MoveFocus
  <2>1. PageTyped'
    BY <1>13 DEF MoveFocus, FocusInput, PageTyped, Places
  <2>2. InputTyped'
    BY <1>13 DEF MoveFocus, FocusInput, InputTyped, input
  <2>3. FetchTyped'
    BY <1>13 DEF MoveFocus, FocusInput, Request, InputTyped, FetchTyped, fetch
  <2>4. UNCHANGED <<keys, results>>
    BY <1>13 DEF MoveFocus
  <2> QED BY <1>2, <1>5, <2>1, <2>2, <2>3, <2>4, Grouped
<1>14. ASSUME NEW view \in Views, Leave(view) PROVE TypeOK'
  BY <1>14, LeaveTyped
<1>15. ASSUME NEW text \in Queries, Type(text) PROVE TypeOK'
  <2>1. typed' \in 0 .. MaxTyped
    BY <1>15, PaletteAssumption DEF Type, InputTyped
  <2>2. InputTyped' /\ FetchTyped'
    BY <1>15, <2>1 DEF Type, InputTyped, FetchTyped, fetch
  <2> QED BY <1>1, <1>2, <1>5, <1>15, <2>2, Grouped DEF Type
<1>16. ASSUME NEW step \in {-1, 1}, Arrow(step) PROVE TypeOK'
  <2>1. selected \in 0 .. shown.links /\ shown.links \in Nat
    BY PaletteAssumption DEF ResultsTyped
  <2>2. selected' \in 0 .. shown.links
    BY <1>16, <2>1 DEF Arrow, Least, Greatest
  <2>3. ResultsTyped'
    BY <1>16, <2>2 DEF Arrow, ResultsTyped
  <2> QED BY <1>1, <1>2, <1>3, <1>4, <1>16, <2>3, Grouped DEF Arrow
<1>17. CASE PressG
  <2>1. KeysTyped'
    BY <1>17, PaletteAssumption DEF PressG, KeysTyped
  <2> QED BY <1>1, <1>3, <1>4, <1>5, <1>17, <2>1, Grouped DEF PressG
<1>18. CASE Slash
  <2>1. CASE at = "routes"
    <3>1. PageTyped' /\ InputTyped' /\ FetchTyped'
      BY <1>18, <2>1 DEF Slash, PageTyped, InputTyped, FetchTyped, Places, fetch
    <3> QED BY <1>5, <1>6, <1>18, <3>1, Grouped DEF Slash
  <2>2. CASE at # "routes"
    <3>1. OpenDialog("palette") /\ UNCHANGED <<at, typed, heard, results>>
      BY <1>18, <2>2 DEF Slash
    <3> QED BY <1>5, <1>6, <1>18, <3>1, OpenDialogTyped, Grouped DEF Slash, Dialogs
  <2> QED BY <2>1, <2>2
<1>19. CASE QuestionMark
  BY <1>5, <1>6, <1>19, OpenDialogTyped, Grouped DEF QuestionMark, Dialogs
<1>20. CASE OtherKey
  BY <1>1, <1>3, <1>4, <1>5, <1>6, <1>20, Grouped DEF OtherKey
<1>21. CASE UNCHANGED vars
  BY <1>1, <1>2, <1>3, <1>4, <1>5, <1>21, Grouped DEF vars
<1> QED
  BY <1>7, <1>8, <1>9, <1>10, <1>11, <1>12, <1>13, <1>14, <1>15, <1>16, <1>17, <1>18, <1>19,
     <1>20, <1>21
  DEF Next, Browser, Mouse, Typing, Shortcut, Enter, Go

\* Every variable of the palette keeps its type; no link beyond the list is marked.
THEOREM PaletteTypeCorrect == Spec => []TypeOK
BY InitTyped, StepTyped, PTL DEF Spec

-----------------------------------------------------------------------------
(* Dialogs.                                                                 *)

\* Which dialog is open, and where the keys are then: DialogsModal without counting.
Modal ==
  \/ open = {} /\ focus \in {"page", "filter"}
  \/ open = {"palette"} /\ focus \in {"input", "inside"}
  \/ open = {"shortcuts"} /\ focus = "inside"

LEMMA OpenDialogModal ==
  ASSUME Modal, NEW id \in Dialogs, OpenDialog(id)
  PROVE  Modal'
BY DEF Modal, Dialogs, OpenDialog, FocusInput

LEMMA StepModal == Modal /\ [Next]_vars => Modal'
<1> SUFFICES ASSUME Modal, [Next]_vars PROVE Modal'
  OBVIOUS
<1>1. CASE UNCHANGED <<open, focus>>
  BY <1>1 DEF Modal
<1>2. ASSUME NEW id \in Dialogs, OpenDialog(id) PROVE Modal'
  BY <1>2, OpenDialogModal
<1>3. CASE Close
  BY <1>3 DEF Close, Modal
<1>4. CASE MoveFocus
  BY <1>4 DEF MoveFocus, FocusInput, Modal
<1>5. ASSUME NEW view \in Views, Leave(view) PROVE Modal'
  BY <1>5 DEF Leave, Modal
<1>6. CASE Slash
  BY <1>2, <1>6 DEF Slash, Heard, Modal, Dialogs
<1>7. CASE Fire \/ Fail \/ Tick \/ PressG \/ OtherKey
  BY <1>1, <1>7 DEF Fire, Fail, Tick, PressG, OtherKey
<1>8. CASE (\E links \in 0 .. MaxLinks : Answer(links)) \/ (\E text \in Queries : Type(text))
           \/ \E step \in {-1, 1} : Arrow(step)
  BY <1>1, <1>8 DEF Answer, Type, Arrow
<1>9. CASE PaletteButton \/ CommandK \/ QuestionMark
  BY <1>2, <1>9 DEF PaletteButton, CommandK, QuestionMark, Dialogs
<1>10. CASE UNCHANGED vars
  BY <1>1, <1>10 DEF vars
<1> QED
  BY <1>3, <1>4, <1>5, <1>6, <1>7, <1>8, <1>9, <1>10
  DEF Next, Browser, Mouse, Typing, Shortcut, Enter, Go

\* At most one dialog is open and the keys are in it, whichever way dialogs are opened
\* and closed.
THEOREM OneDialog == Spec => []DialogsModal
<1>1. Init => Modal
  BY DEF Init, Modal
<1>2. Modal => DialogsModal
  <2>1. Cardinality({}) = 0
    BY FS_EmptySet
  <2>2. Cardinality({"palette"}) = 1
    BY FS_Singleton
  <2>3. Cardinality({"shortcuts"}) = 1
    BY FS_Singleton
  <2> SUFFICES ASSUME Modal PROVE DialogsModal
    OBVIOUS
  <2>4. Cardinality(open) <= 1
    BY <2>1, <2>2, <2>3 DEF Modal
  <2>5. /\ focus \in {"input", "inside"} <=> open # {}
        /\ focus = "input" => "palette" \in open
    BY DEF Modal
  <2> QED BY <2>4, <2>5 DEF DialogsModal
<1> QED BY <1>1, <1>2, StepModal, PTL DEF Spec

-----------------------------------------------------------------------------
(* Results.                                                                 *)

\* What the input holds is shown, or asked for, or will be asked for: by the delay, or
\* when the request under way is over.
Answering ==
  /\ queued => asked # None
  /\ "palette" \in open /\ ~unread =>
       timer \/ queued \/ asked = value \/ (asked = None /\ shown.query = value)

LEMMA OpenDialogAnswering ==
  ASSUME TypeOK, Answering, NEW id \in Dialogs, OpenDialog(id), UNCHANGED shown
  PROVE  Answering'
BY PaletteAssumption
DEF TypeOK, Answering, Dialogs, OpenDialog, FocusInput, Request, fetch

LEMMA StepAnswering == TypeOK /\ Answering /\ [Next]_vars => Answering'
<1> SUFFICES ASSUME TypeOK, Answering, [Next]_vars PROVE Answering'
  OBVIOUS
<1> USE PaletteAssumption DEF keys, input, fetch, results
<1>1. CASE Fire
  BY <1>1 DEF Fire, Request, TypeOK, Answering
<1>2. ASSUME NEW links \in 0 .. MaxLinks, Answer(links) PROVE Answering'
  BY <1>2 DEF Answer, NextRequest, TypeOK, Answering
<1>3. CASE Fail
  BY <1>3 DEF Fail, NextRequest, TypeOK, Answering
<1>4. CASE Tick
  BY <1>4 DEF Tick, Answering
<1>5. CASE PaletteButton
  BY <1>5, OpenDialogAnswering DEF PaletteButton, Dialogs
<1>6. CASE Close
  BY <1>6 DEF Close, Answering
<1>7. CASE MoveFocus
  BY <1>7 DEF MoveFocus, FocusInput, Request, TypeOK, Answering
<1>8. ASSUME NEW view \in Views, Leave(view) PROVE Answering'
  BY <1>8 DEF Leave, Answering
<1>9. ASSUME NEW text \in Queries, Type(text) PROVE Answering'
  BY <1>9 DEF Type, Answering
<1>10. ASSUME NEW step \in {-1, 1}, Arrow(step) PROVE Answering'
  BY <1>10 DEF Arrow, Answering
<1>11. CASE CommandK
  BY <1>11, OpenDialogAnswering DEF CommandK, Dialogs
<1>12. CASE PressG
  BY <1>12 DEF PressG, Answering
<1>13. CASE Slash
  <2>1. CASE at = "routes"
    BY <1>13, <2>1 DEF Slash, Answering
  <2>2. CASE at # "routes"
    BY <1>13, <2>2, OpenDialogAnswering DEF Slash, Dialogs
  <2> QED BY <2>1, <2>2
<1>14. CASE QuestionMark
  BY <1>14, OpenDialogAnswering DEF QuestionMark, Dialogs
<1>15. CASE OtherKey
  BY <1>15 DEF OtherKey, Answering
<1>16. CASE UNCHANGED vars
  BY <1>16 DEF vars, Answering
<1> QED
  BY <1>1, <1>2, <1>3, <1>4, <1>5, <1>6, <1>7, <1>8, <1>9, <1>10, <1>11, <1>12, <1>13,
     <1>14, <1>15, <1>16
  DEF Next, Browser, Mouse, Typing, Shortcut, Enter, Go

\* At rest the results are those of the input: no overlap of delay, request, focus and
\* closing leaves an older answer there.
THEOREM NoStaleResults == Spec => []ResultsAnswer
<1>1. Init => TypeOK /\ Answering
  BY InitTyped DEF Init, Answering
<1>2. TypeOK /\ Answering /\ [Next]_vars => (TypeOK /\ Answering)'
  BY StepTyped, StepAnswering
<1>3. TypeOK /\ Answering => ResultsAnswer
  BY PaletteAssumption DEF TypeOK, Answering, ResultsAnswer, AtRest
<1> QED BY <1>1, <1>2, <1>3, PTL DEF Spec

\* A list with links keeps exactly one of them marked.
THEOREM OneMarked == Spec => []LinkMarked
<1>1. Init => TypeOK /\ LinkMarked
  BY InitTyped DEF Init, LinkMarked
<1>2. TypeOK /\ LinkMarked /\ [Next]_vars => (TypeOK /\ LinkMarked)'
  <2> SUFFICES ASSUME TypeOK, LinkMarked, [Next]_vars PROVE LinkMarked'
    BY StepTyped
  <2>1. CASE UNCHANGED results
    BY <2>1 DEF LinkMarked, results
  <2>2. ASSUME NEW links \in 0 .. MaxLinks, Answer(links) PROVE LinkMarked'
    BY <2>2, PaletteAssumption DEF Answer, LinkMarked, Least
  <2>3. ASSUME NEW view \in Views, Leave(view) PROVE LinkMarked'
    BY <2>3 DEF Leave, LinkMarked
  <2>4. ASSUME NEW step \in {-1, 1}, Arrow(step) PROVE LinkMarked'
    <3>1. selected \in 0 .. shown.links /\ shown.links \in Nat
      BY PaletteAssumption DEF TypeOK
    <3> QED BY <2>4, <3>1 DEF Arrow, LinkMarked, Least, Greatest
  <2>5. \/ \E links \in 0 .. MaxLinks : Answer(links)
        \/ \E view \in Views : Leave(view)
        \/ \E step \in {-1, 1} : Arrow(step)
        \/ UNCHANGED results
    BY DEF Next, Browser, Mouse, Typing, Shortcut, Enter, Go, vars, results, Fire, Fail, Tick,
           PaletteButton, Close, MoveFocus, Type, CommandK, PressG, Slash, QuestionMark,
           OtherKey
  <2> QED BY <2>1, <2>2, <2>3, <2>4, <2>5
<1> QED BY <1>1, <1>2, PTL DEF Spec

-----------------------------------------------------------------------------
(* The g.                                                                   *)

\* A g that waits outlives its deadline by less than the period of the sweep, for any
\* deadline and any period.
THEOREM PendingInTime == Spec => []GoInTime
<1>1. Init => TypeOK /\ GoInTime
  BY InitTyped DEF Init, GoInTime
<1>2. TypeOK /\ GoInTime /\ [Next]_vars => (TypeOK /\ GoInTime)'
  <2> SUFFICES ASSUME TypeOK, GoInTime, [Next]_vars PROVE GoInTime'
    BY StepTyped
  <2>1. CASE UNCHANGED keys
    BY <2>1 DEF GoInTime, keys
  <2>2. CASE Tick
    BY <2>2, PaletteAssumption DEF Tick, Swept, TypeOK, GoInTime
  <2>3. CASE pendingG' = FALSE
    BY <2>3 DEF GoInTime
  <2>4. CASE PressG
    BY <2>4, PaletteAssumption DEF PressG, TypeOK, GoInTime
  <2>5. Tick \/ PressG \/ pendingG' = FALSE \/ UNCHANGED keys
    BY DEF Next, Browser, Mouse, Typing, Shortcut, Enter, Go, Leave, vars, keys, Fire, Fail,
           Answer, PaletteButton, Close, MoveFocus, Type, Arrow, CommandK, Slash,
           QuestionMark, OtherKey, Forget
  <2> QED BY <2>1, <2>2, <2>3, <2>4, <2>5
<1> QED BY <1>1, <1>2, PTL DEF Spec
-----------------------------------------------------------------------------
(* That what is typed is answered in the end is a matter of fairness, and   *)
(* TLC's (ResultsCome).  What the page owes to it is not: it has at most    *)
(* four things to wait for, and only its user adds to them.                 *)

\* A delay and what it asks for, the request under way, the one that waits behind it.
Pending ==
  (IF timer THEN 2 ELSE 0) + (IF asked = None THEN 0 ELSE 1) + (IF queued THEN 1 ELSE 0)

\* Results that are not those of the input are still being waited for.
Expected == "palette" \in open /\ ~unread /\ shown.query # value => Pending \in 1 .. 4

\* A delay that ends, an answer and a failure each leave less to wait for; what adds to it
\* is a change of the input or its focus.
Dwindles ==
  /\ Fire \/ Fail \/ (\E links \in 0 .. MaxLinks : Answer(links)) => Pending' < Pending
  /\ typed' = typed /\ ~(focus' = "input" /\ ~timer' /\ asked' # None) => Pending' <= Pending

\* The page waits for no more than it did when the request of the moment was made.
LEMMA RequestAdds ==
  ASSUME TypeOK, timer, timer' = FALSE, Request
  PROVE  Pending' < Pending
BY PaletteAssumption DEF TypeOK, Request, Pending

LEMMA OverDwindles ==
  ASSUME TypeOK, NextRequest, asked # None, timer' = timer
  PROVE  Pending' < Pending
BY PaletteAssumption DEF TypeOK, NextRequest, Pending

LEMMA OpenDialogWaits ==
  ASSUME TypeOK, NEW id \in Dialogs, OpenDialog(id)
  PROVE  UNCHANGED <<timer, fetch>> \/ (focus' = "input" /\ ~timer' /\ asked' # None)
BY PaletteAssumption DEF OpenDialog, FocusInput, Request, fetch, TypeOK

LEMMA StepDwindles ==
  ASSUME TypeOK, TypeOK', [Next]_vars, typed' = typed,
         ~(focus' = "input" /\ ~timer' /\ asked' # None)
  PROVE  Pending' <= Pending
<1>1. Pending \in Nat /\ Pending' \in Nat
  BY DEF Pending
<1>2. CASE UNCHANGED <<timer, fetch>>
  <2>1. Pending' = Pending
    BY <1>2 DEF Pending, fetch
  <2> QED BY <1>1, <2>1
<1>3. CASE Fire
  BY <1>3, RequestAdds DEF Fire, Pending
<1>4. CASE Fail \/ \E links \in 0 .. MaxLinks : Answer(links)
  BY <1>1, <1>4, OverDwindles DEF Fail, Answer, input
<1>5. CASE PaletteButton \/ CommandK \/ QuestionMark \/ Slash
  BY <1>2, <1>5, OpenDialogWaits DEF PaletteButton, CommandK, QuestionMark, Slash, Dialogs, fetch
<1>6. CASE MoveFocus
  <2>1. UNCHANGED <<timer, fetch>> \/ FocusInput
    BY <1>6 DEF MoveFocus, input
  <2>2. ~FocusInput
    BY PaletteAssumption DEF FocusInput, Request, TypeOK
  <2> QED BY <1>2, <2>1, <2>2
<1>7. ASSUME NEW view \in Views, Leave(view) PROVE Pending' <= Pending
  <2>1. Pending' = 0
    BY <1>7 DEF Leave, Pending
  <2> QED BY <1>1, <2>1
<1>8. ASSUME NEW text \in Queries, Type(text) PROVE FALSE
  BY <1>8 DEF Type, TypeOK
<1>9. CASE Tick \/ Close \/ PressG \/ OtherKey \/ (\E step \in {-1, 1} : Arrow(step))
           \/ UNCHANGED vars
  BY <1>2, <1>9 DEF Tick, Close, PressG, OtherKey, Arrow, vars, input
<1> QED
  BY <1>3, <1>4, <1>5, <1>6, <1>7, <1>8, <1>9
  DEF Next, Browser, Mouse, Typing, Shortcut, Enter, Go

\* Whoever has stopped typing and leaves the input alone waits for a delay and two
\* answers at the most, and never for nothing.
THEOREM ResultsAreComing == Spec => []Expected /\ [][Dwindles]_vars
<1>1. TypeOK /\ ResultsAnswer => Expected
  <2> SUFFICES ASSUME TypeOK, ResultsAnswer, "palette" \in open, ~unread, shown.query # value
               PROVE  Pending \in 1 .. 4
    BY DEF Expected
  <2>1. timer \/ asked # None
    BY DEF ResultsAnswer, AtRest
  <2> QED BY <2>1 DEF Pending
<1>2. ASSUME TypeOK, Fire \/ Fail \/ \E links \in 0 .. MaxLinks : Answer(links)
      PROVE  Pending' < Pending
  BY <1>2, RequestAdds, OverDwindles DEF Fire, Fail, Answer, input
<1>3. TypeOK /\ TypeOK' /\ [Next]_vars => [Dwindles]_vars
  BY <1>2, StepDwindles DEF Dwindles
<1> QED BY <1>1, <1>3, PaletteTypeCorrect, NoStaleResults, PTL DEF Spec
=============================================================================
