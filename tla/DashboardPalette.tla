--------------------------- MODULE DashboardPalette ---------------------------
(***************************************************************************)
(* The dashboard's dialogs, its keys and its palette: the other half of    *)
(* app.js, the input and the list of results of layout.html, what htmx     *)
(* makes of the input's "input changed delay:120ms, focus" (htmx.min.js),  *)
(* and what the mock answers (ui_palette.go).                              *)
(*                                                                         *)
(* A query is a model value, but for the empty one; of a result only its   *)
(* query and the number of its links are kept.  An event of the page is    *)
(* one step.                                                               *)
(***************************************************************************)
EXTENDS Integers, FiniteSets

CONSTANTS
  Queries,    \* what the input may hold
  Empty,      \* the empty query
  None,       \* no query at all
  MaxLinks,   \* links an answer may have: paletteLimit
  Deadline,   \* how long a g waits for its second key
  Sweep,      \* time between two sweeps of a g that has waited too long
  MaxTyped    \* bound: changes of the input

ASSUME PaletteAssumption ==
  /\ Empty \in Queries /\ None \notin Queries
  /\ MaxLinks \in Nat \ {0} /\ MaxTyped \in Nat
  /\ Deadline \in Nat /\ Sweep \in Nat \ {0}

VARIABLES
  at,               \* the view
  open, focus,      \* the dialogs that are open, and where the keys go
  pendingG, left,   \* whether a g waits, and the time to its deadline
  phase,            \* time since the last sweep
  value, typed,     \* the input, and how often it was typed into
  heard, timer,     \* htmx: the value it last took for a change, and its delay
  asked, queued,    \* htmx: the request under way, whether one waits behind it
  shown, selected,  \* #palette-results, and the link marked in it
  unread            \* history: the input differs from what htmx will read or has read

keys    == <<pendingG, left, phase>>
input   == <<value, typed, heard, timer>>
fetch   == <<asked, queued>>
results == <<shown, selected>>
vars    == <<at, open, focus, keys, input, fetch, results, unread>>

\* A page whose list of routes can be filtered, and the others.
Views == {"routes", "other"}

Dialogs == {"palette", "shortcuts"}

\* The page itself, the filter of the routes, the palette's input, or anything else in
\* a dialog.
Places == {"page", "filter", "input", "inside"}

Least(a, b) == IF a < b THEN a ELSE b
Greatest(a, b) == IF a < b THEN b ELSE a

TypeOK ==
  /\ at \in Views /\ open \in SUBSET Dialogs /\ focus \in Places
  /\ pendingG \in BOOLEAN /\ left \in Int /\ phase \in 0 .. Sweep - 1
  /\ value \in Queries /\ typed \in 0 .. MaxTyped
  /\ heard \in Queries /\ timer \in BOOLEAN
  /\ asked \in Queries \cup {None} /\ queued \in BOOLEAN
  /\ shown \in [query : Queries \cup {None}, links : 0 .. MaxLinks]
  /\ selected \in 0 .. shown.links
  /\ unread \in BOOLEAN

Init ==
  /\ at \in Views /\ open = {} /\ focus = "page"
  /\ pendingG = FALSE /\ left = 0 /\ phase = 0
  /\ value = Empty /\ typed = 0 /\ heard = Empty /\ timer = FALSE
  /\ asked = None /\ queued = FALSE
  /\ shown = [query |-> None, links |-> 0] /\ selected = 0
  /\ unread = FALSE

\* location.href: another page, with a script of its own.
Leave(view) ==
  /\ at' = view /\ open' = {} /\ focus' = "page"
  /\ pendingG' = FALSE /\ left' = 0 /\ phase' = 0
  /\ value' = Empty /\ heard' = Empty /\ timer' = FALSE /\ UNCHANGED typed
  /\ asked' = None /\ queued' = FALSE
  /\ shown' = [query |-> None, links |-> 0] /\ selected' = 0
  /\ unread' = FALSE

-----------------------------------------------------------------------------
(* Requests of the palette's input.                                         *)

\* Mutant: no request waits behind another.
RequestOrDrop ==
  IF asked = None THEN asked' = value /\ UNCHANGED queued
                  ELSE UNCHANGED <<asked, queued>>

\* One request at a time; another waits and reads the input when its turn comes.
Request ==
  IF asked = None THEN asked' = value /\ UNCHANGED queued
                  ELSE queued' = TRUE /\ UNCHANGED asked

\* The delay is over.
Fire ==
  /\ timer /\ timer' = FALSE
  /\ Request
  /\ unread' = FALSE
  /\ UNCHANGED <<at, open, focus, keys, value, typed, heard, results>>

\* Mutant: the one that waited is forgotten.
NextRequestForgotten == asked' = None /\ queued' = FALSE

\* The request is over, and the one that waited is made.
NextRequest ==
  /\ asked' = IF queued THEN value ELSE None
  /\ queued' = FALSE

\* Mutant: the list that was swapped in has no link marked.
AnswerUnmarked(links) ==
  /\ asked # None
  /\ shown' = [query |-> asked, links |-> links] /\ selected' = selected
  /\ NextRequest
  /\ unread' = (unread /\ ~queued)
  /\ UNCHANGED <<at, open, focus, keys, input>>

\* The mock's answer replaces the list; afterSwap marks its first link.
Answer(links) ==
  /\ asked # None
  /\ shown' = [query |-> asked, links |-> links] /\ selected' = Least(1, links)
  /\ NextRequest
  /\ unread' = (unread /\ ~queued)
  /\ UNCHANGED <<at, open, focus, keys, input>>

\* The mock is not there, or refuses: the list stays.
Fail ==
  /\ asked # None
  /\ NextRequest
  /\ unread' = ~queued
  /\ UNCHANGED <<at, open, focus, keys, input, results>>

-----------------------------------------------------------------------------
(* Dialogs.                                                                 *)

\* The input gets the focus: its delay ends here and it asks at once.
FocusInput ==
  /\ focus' = "input"
  /\ timer' = FALSE
  /\ Request

\* Mutant: another dialog stays open.
OpenDialogOver(id) ==
  IF id \in open
  THEN UNCHANGED <<open, focus, value, timer, fetch, unread>>
  ELSE /\ open' = open \cup {id}
       /\ IF id = "palette"
          THEN /\ FocusInput /\ value' = Empty
               /\ unread' = (asked = None /\ value # Empty)
          ELSE focus' = "inside" /\ UNCHANGED <<value, timer, fetch, unread>>

\* openDialog.  showModal moves the focus before the input is emptied, and emptying
\* it is no event: what is asked at once is the query left from the last time.
OpenDialog(id) ==
  IF id \in open
  THEN UNCHANGED <<open, focus, value, timer, fetch, unread>>
  ELSE /\ open' = {id}
       /\ IF id = "palette"
          THEN /\ FocusInput /\ value' = Empty
               /\ unread' = (asked = None /\ value # Empty)
          ELSE focus' = "inside" /\ UNCHANGED <<value, timer, fetch, unread>>

\* The button, which a dialog covers.
PaletteButton ==
  /\ open = {}
  /\ OpenDialog("palette")
  /\ UNCHANGED <<at, keys, typed, heard, results>>

\* Esc, a click beside the dialog, or the button of the shortcuts.
Close ==
  /\ \E id \in open : open' = open \ {id}
  /\ focus' = IF open' = {} THEN "page" ELSE "inside"
  /\ UNCHANGED <<at, keys, input, fetch, results, unread>>

\* A click, the tab key, or the window that comes back to the front.
MoveFocus ==
  \/ /\ open = {} /\ focus' \in {"page"} \cup (IF at = "routes" THEN {"filter"} ELSE {})
     /\ UNCHANGED <<at, open, keys, input, fetch, results, unread>>
  \/ /\ open # {} /\ focus' = "inside"
     /\ UNCHANGED <<at, open, keys, input, fetch, results, unread>>
  \/ /\ "palette" \in open
     /\ FocusInput /\ unread' = FALSE
     /\ UNCHANGED <<at, open, keys, value, typed, heard, results>>

-----------------------------------------------------------------------------
(* Keys in the palette's input: paletteKeys.                                *)

\* An input event counts when the value is not the one of the last that counted.
Type(text) ==
  /\ focus = "input" /\ text # value /\ typed < MaxTyped
  /\ value' = text /\ typed' = typed + 1
  /\ IF text # heard
     THEN heard' = text /\ timer' = TRUE /\ unread' = FALSE
     ELSE unread' = TRUE /\ UNCHANGED <<heard, timer>>
  /\ UNCHANGED <<at, open, focus, keys, fetch, results>>

\* ArrowDown and ArrowUp stop at either end.
Arrow(step) ==
  /\ focus = "input"
  /\ selected' = Least(Greatest(selected + step, 1), shown.links)
  /\ UNCHANGED <<at, open, focus, keys, input, fetch, shown, unread>>

\* The link that is marked, wherever it leads.
Enter ==
  /\ focus = "input" /\ shown.links > 0
  /\ \E view \in Views : Leave(view)

-----------------------------------------------------------------------------
(* Keys of the page.                                                        *)

\* Everywhere but in the palette's input; a waiting g goes on waiting.
CommandK ==
  /\ focus # "input"
  /\ OpenDialog("palette")
  /\ UNCHANGED <<at, keys, typed, heard, results>>

\* No field and no dialog has the key.
Heard == open = {} /\ focus = "page"

\* One of goKeys after a g.
Go(view) == Heard /\ pendingG /\ Leave(view)

\* A g, the first or once more: none of goKeys.
PressG ==
  /\ Heard
  /\ pendingG' = TRUE /\ left' = Deadline
  /\ UNCHANGED <<at, open, focus, phase, input, fetch, results, unread>>

Forget == pendingG' = FALSE /\ left' = 0 /\ UNCHANGED phase

\* "/": the filter if there is one.
Slash ==
  /\ Heard /\ Forget
  /\ IF at = "routes"
     THEN focus' = "filter" /\ UNCHANGED <<open, value, timer, fetch, unread>>
     ELSE OpenDialog("palette")
  /\ UNCHANGED <<at, typed, heard, results>>

QuestionMark ==
  /\ Heard /\ Forget
  /\ OpenDialog("shortcuts")
  /\ UNCHANGED <<at, typed, heard, results>>

\* p, which is the list's, a goKey without a g, and every other key.
OtherKey ==
  /\ Heard /\ Forget
  /\ UNCHANGED <<at, open, focus, input, fetch, results, unread>>

\* Mutant: the sweep is off by one period.
SweptLate(time) == time + Sweep < 0

\* Date.now() > pendingG
Swept(time) == time < 0

\* Time passes.  Nothing but the sweep looks at the deadline.
Tick ==
  /\ phase' = IF phase + 1 = Sweep THEN 0 ELSE phase + 1
  /\ IF pendingG /\ ~(phase' = 0 /\ Swept(left - 1))
     THEN pendingG' = TRUE /\ left' = left - 1
     ELSE pendingG' = FALSE /\ left' = 0
  /\ UNCHANGED <<at, open, focus, input, fetch, results, unread>>

-----------------------------------------------------------------------------
Browser == Fire \/ Fail \/ Tick \/ \E links \in 0 .. MaxLinks : Answer(links)

Mouse == PaletteButton \/ Close \/ MoveFocus

Typing == Enter \/ (\E text \in Queries : Type(text)) \/ \E step \in {-1, 1} : Arrow(step)

Shortcut ==
  \/ CommandK \/ PressG \/ Slash \/ QuestionMark \/ OtherKey
  \/ \E view \in Views : Go(view)

Next == Browser \/ Mouse \/ Typing \/ Shortcut

Spec == Init /\ [][Next]_vars

\* Delays end, and a mock that is asked again and again does not fail for ever.  Typing
\* ends too (MaxTyped): who types on and on before the delay is over is not answered.
FairSpec ==
  /\ Spec
  /\ WF_vars(Fire)
  /\ WF_vars(\E links \in 0 .. MaxLinks : Answer(links))

-----------------------------------------------------------------------------
(* Properties.                                                              *)

AtRest == ~timer /\ asked = None

\* Once nothing is under way the results are those of what the input holds, over every
\* overlap of delays, requests, focus and closing: no answer to an older query comes
\* last (app.js 43-53, layout.html 51).  Left out, as unread: a palette opened with a
\* query left in it, a query typed again that was the last to count, and a request
\* that failed.
ResultsAnswer == "palette" \in open /\ AtRest /\ ~unread => shown.query = value

\* A list with links has exactly one marked, whatever list came in while keys were
\* pressed (app.js 57-73, 109).
LinkMarked == shown.links > 0 => selected \in 1 .. shown.links

\* One dialog at a time, and the keys are in it: no shortcut works behind a dialog, and
\* no key of the palette without it (app.js 43-53, 146-156).
DialogsModal ==
  /\ Cardinality(open) <= 1
  /\ focus \in {"input", "inside"} <=> open # {}
  /\ focus = "input" => "palette" \in open

\* A g that waits for its second key outlives its deadline by less than one sweep,
\* whatever was opened, typed and closed since (app.js 157-162, 173).
GoInTime == pendingG => left + phase >= 0

\* What is typed is answered in the end.
ResultsCome ==
  ("palette" \in open /\ shown.query # value /\ ~unread)
    ~> (shown.query = value \/ unread \/ "palette" \notin open)
=============================================================================
