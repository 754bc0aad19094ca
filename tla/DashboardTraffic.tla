--------------------------- MODULE DashboardTraffic ---------------------------
(***************************************************************************)
(* The dashboard's list of requests in a browser: the half of app.js that  *)
(* pauses, counts, trims and refills it, the htmx requests app.js and the  *)
(* layout make (htmx.min.js), the stream that feeds it (sse.min.js) and    *)
(* what the mock sends and renders (hub.go, ui_traffic.go).                *)
(*                                                                         *)
(* Requests are numbered as the mock answers them.  A message of the       *)
(* stream is the number of a request, or Reload.  A task of the page runs  *)
(* to its end and is one step; between the tasks anything may happen.      *)
(***************************************************************************)
EXTENDS Integers, Sequences

CONSTANTS
  Cap,          \* data-cap of a view's list, and the rows its page is rendered with
  Buffer,       \* messages the stream holds for the page
  Earlier,      \* requests the mock has answered when the page is loaded first
  MaxRequests,  \* bound: requests the mock answers later
  MaxReloads,   \* bound: reloads of the project
  MaxFaults     \* bound: times the connection breaks or the mock stops

\* historySize and the data-cap of Traffic are 500, overviewRows and the data-cap
\* of the Overview are 8; no other view has a list.
Views == {"traffic", "overview", "other"}

ASSUME TrafficAssumption ==
  /\ Cap \in [Views -> Nat] /\ Cap["other"] = 0
  /\ Buffer \in Nat \ {0}
  /\ Earlier \in Nat /\ MaxRequests \in Nat /\ MaxReloads \in Nat /\ MaxFaults \in Nat

VARIABLES
  served, base, \* requests answered, and how many of them a reset has cleared
  project, up,  \* the project served; the mock is running
  wire,         \* messages sent to the page and not yet handled
  faults,       \* bounds
  at, rows, view,             \* the view, its list, the project it was rendered from
  connection, paused, missed, \* app.js
  pill, button,               \* what #connection and #traffic-pause say
  ears,             \* elements that listen to the stream
  resume, again,    \* the fetch of a resume, and one queued behind it
  refresh, queued,  \* the fetch of a reload, and whether one is queued behind it
  \* History variables, read by the properties only.
  astray,     \* a request was not sent to the page, a resume failed, the list was
              \* cleared or the history reset, since the list was last fetched
  overtaken,  \* a request came between the two ends of the last fetch, or the
              \* fetch brought rows that were being held back
  untold      \* a reload was not sent to the page, came when it could not fetch again,
              \* or its fetch failed

server  == <<served, base, project, up>>
link    == <<connection, pill>>
pausing == <<paused, missed, button>>
fetches == <<resume, again, refresh, queued>>
ghosts  == <<astray, overtaken, untold>>
vars    == <<server, wire, faults, at, rows, view, link, pausing, ears, fetches, ghosts>>

Reload == 0

Elements == {"app", "list"}

Connections == {"connecting", "live", "disconnected"}

\* A fetch is asked for, answered by a handler of the mock, and swapped in.
Idle  == [st |-> "idle", rows |-> <<>>, view |-> 0, here |-> TRUE, clean |-> TRUE]
Asked == [Idle EXCEPT !.st = "asked"]

Fetch == [st : {"idle", "asked", "answered"}, rows : Seq(Nat), view : Nat,
          here : BOOLEAN,   \* the #traffic it is for is still in the page
          clean : BOOLEAN]  \* no request was on its way when it was answered, none came since

Least(a, b) == IF a < b THEN a ELSE b
Greatest(a, b) == IF a < b THEN b ELSE a

\* Requests hi, hi - 1, ..., lo + 1.
Run(hi, lo) == [i \in 1 .. (hi - lo) |-> hi + 1 - i]

\* The newest n requests up to number hi that the history has.
Newest(hi, n) == Run(hi, Greatest(base, hi - n))

OnTheWay == {wire[i] : i \in 1 .. Len(wire)} \ {Reload}

\* What showPause writes.
Label(p, m) == [paused |-> p, missed |-> m]

TypeOK ==
  /\ served \in Nat /\ base \in 0 .. served /\ project \in Nat /\ up \in BOOLEAN
  /\ wire \in Seq(Nat) /\ Len(wire) <= Buffer /\ faults \in Nat
  /\ at \in Views /\ rows \in Seq(Nat) /\ Len(rows) <= Cap[at] /\ view \in 0 .. project
  /\ connection \in Connections /\ pill \in Connections
  /\ paused \in BOOLEAN /\ missed \in Nat
  /\ button \in [paused : BOOLEAN, missed : Nat]
  /\ ears \in SUBSET Elements
  /\ resume \in Fetch /\ again \in {"no", "here", "gone"}
  /\ refresh \in Fetch /\ queued \in BOOLEAN
  /\ astray \in BOOLEAN /\ overtaken \in BOOLEAN /\ untold \in BOOLEAN

Init ==
  /\ served = Earlier /\ base = 0 /\ project = 0 /\ up = TRUE
  /\ wire = <<>> /\ faults = 0
  /\ at \in Views /\ rows = Newest(served, Cap[at]) /\ view = 0
  /\ connection = "connecting" /\ paused = FALSE /\ missed = 0
  /\ pill = "connecting" /\ button = Label(FALSE, 0)
  /\ ears = Elements
  /\ resume = Idle /\ again = "no" /\ refresh = Idle /\ queued = FALSE
  /\ astray = FALSE /\ overtaken = FALSE /\ untold = FALSE

-----------------------------------------------------------------------------
(* The mock.                                                                *)

\* A stream that is not there, or full, is passed over.
Reaches == connection = "live" /\ Len(wire) < Buffer

Send(m) == wire' = IF Reaches THEN Append(wire, m) ELSE wire

\* What a handler has read no longer agrees with the history.
Overtaken(f) == [f EXCEPT !.clean = @ /\ ~(f.st = "answered" /\ f.here)]

OvertakeFetches == resume' = Overtaken(resume) /\ refresh' = Overtaken(refresh)

Publish ==
  /\ up /\ served < Earlier + MaxRequests
  /\ served' = served + 1
  /\ Send(served + 1)
  /\ OvertakeFetches
  /\ astray' = (astray \/ ~Reaches)
  /\ UNCHANGED <<base, project, up, faults, at, rows, view, link, pausing, ears, again,
                 queued, overtaken, untold>>

\* A folder is saved; nobody is told while the mock is down.
Swap ==
  /\ project < MaxReloads
  /\ project' = project + 1
  /\ Send(Reload)
  /\ untold' = (untold \/ ~Reaches)
  /\ UNCHANGED <<served, base, up, faults, at, rows, view, link, pausing, ears, fetches,
                 astray, overtaken>>

\* Another client resets the mock; the dashboard's own button loads the page again.
Reset ==
  /\ up /\ base < served
  /\ base' = served
  /\ OvertakeFetches
  /\ astray' = TRUE
  /\ UNCHANGED <<served, project, up, wire, faults, at, rows, view, link, pausing, ears,
                 again, queued, overtaken, untold>>

-----------------------------------------------------------------------------
(* The connection.                                                          *)

\* The stream ends: sseError.  What it held is lost.
Disconnect ==
  /\ wire' = <<>>
  /\ connection' = "disconnected" /\ pill' = "disconnected"
  /\ astray' = (astray \/ OnTheWay # {})
  /\ untold' = (untold \/ \E i \in 1 .. Len(wire) : wire[i] = Reload)

Drop ==
  /\ connection = "live" /\ faults < MaxFaults
  /\ faults' = faults + 1
  /\ Disconnect
  /\ UNCHANGED <<server, at, rows, view, pausing, ears, fetches, overtaken>>

\* A stream that was still to come fails too.
Stop ==
  /\ up /\ faults < MaxFaults
  /\ up' = FALSE /\ faults' = faults + 1
  /\ Disconnect
  /\ UNCHANGED <<served, base, project, at, rows, view, pausing, ears, fetches, overtaken>>

\* The mock starts again with an empty history.
Start ==
  /\ ~up /\ up' = TRUE
  /\ base' = served
  /\ OvertakeFetches
  /\ astray' = TRUE
  /\ UNCHANGED <<served, project, wire, faults, at, rows, view, link, pausing, ears, again,
                 queued, overtaken, untold>>

\* The mock has subscribed the page and the headers arrive: sseOpen.
Open ==
  /\ up /\ connection # "live"
  /\ connection' = "live" /\ pill' = "live"
  /\ UNCHANGED <<server, wire, faults, at, rows, view, pausing, ears, fetches, ghosts>>

-----------------------------------------------------------------------------
(* The page.                                                                *)

\* The browser loads a page: rendered first, its script and its stream start later.
Load ==
  /\ up
  /\ at' \in Views
  /\ rows' = Newest(served, Cap[at']) /\ view' = project
  /\ connection' = "connecting" /\ paused' = FALSE /\ missed' = 0
  /\ pill' = "connecting" /\ button' = Label(FALSE, 0)
  /\ wire' = <<>> /\ ears' = Elements
  /\ resume' = Idle /\ again' = "no" /\ refresh' = Idle /\ queued' = FALSE
  /\ astray' = FALSE /\ overtaken' = FALSE /\ untold' = FALSE
  /\ UNCHANGED <<server, faults>>

\* Mutant: the list is trimmed before the row is added.
TrimmedLate(n) == <<n>> \o SubSeq(rows, 1, Least(Len(rows), Cap[at]))

\* A row on top, and from the bottom those beyond the cap away.
Trimmed(n) == SubSeq(<<n>> \o rows, 1, Least(Len(rows) + 1, Cap[at]))

\* Mutant: a row held back is not counted once one has been.
HearRequestOnce(n) ==
  /\ IF "list" \notin ears
     THEN overtaken' = TRUE /\ UNCHANGED <<rows, pausing>>
     ELSE /\ IF paused
             THEN /\ missed' = 1 /\ button' = Label(TRUE, 1)
                  /\ UNCHANGED <<rows, paused>>
             ELSE /\ rows' = Trimmed(n) /\ UNCHANGED pausing
          /\ UNCHANGED overtaken
  /\ UNCHANGED <<pill, fetches, untold>>

\* A request's row is held back and counted, or put on top: sseBeforeMessage,
\* sseMessage.  A list just swapped in does not listen yet.  (The Overview's list has
\* another id; it is never paused.)
HearRequest(n) ==
  /\ IF "list" \notin ears
     THEN overtaken' = TRUE /\ UNCHANGED <<rows, pausing>>
     ELSE /\ IF paused
             THEN /\ missed' = missed + 1 /\ button' = Label(TRUE, missed + 1)
                  /\ UNCHANGED <<rows, paused>>
             ELSE /\ rows' = Trimmed(n) /\ UNCHANGED pausing
          /\ UNCHANGED overtaken
  /\ UNCHANGED <<pill, fetches, untold>>

\* Mutant: a paused page does not fetch itself again.
HearReloadUnpaused ==
  /\ IF "app" \in ears /\ refresh.st = "idle"
     THEN refresh' = IF paused THEN refresh ELSE Asked
     ELSE UNCHANGED refresh
  /\ queued' = (queued \/ ("app" \in ears /\ refresh.st # "idle"))
  /\ untold' = (untold \/ "app" \notin ears \/ refresh.st = "answered")
  /\ UNCHANGED <<rows, pill, pausing, resume, again, overtaken>>

\* #app fetches the page again, or will once its fetch is over - if it still is in
\* the page then.
HearReload ==
  /\ IF "app" \in ears /\ refresh.st = "idle"
     THEN refresh' = Asked
     ELSE UNCHANGED refresh
  /\ queued' = (queued \/ ("app" \in ears /\ refresh.st # "idle"))
  /\ untold' = (untold \/ "app" \notin ears \/ refresh.st = "answered")
  /\ UNCHANGED <<rows, pill, pausing, resume, again, overtaken>>

Receive ==
  /\ wire # <<>>
  /\ wire' = Tail(wire)
  /\ \/ Head(wire) # Reload /\ HearRequest(Head(wire))
     \/ Head(wire) = Reload /\ HearReload
  /\ UNCHANGED <<server, faults, at, view, connection, ears, astray>>

\* htmx.ajax: the body makes one such request at a time and keeps the last other.
AskResume ==
  IF resume.st = "idle" THEN resume' = Asked /\ UNCHANGED again
                        ELSE again' = "here" /\ UNCHANGED resume

\* The button or the p key.
TogglePause ==
  /\ at = "traffic"
  /\ paused' = ~paused
  /\ IF paused /\ missed > 0 THEN AskResume ELSE UNCHANGED <<resume, again>>
  /\ missed' = 0 /\ button' = Label(~paused, 0)
  /\ UNCHANGED <<server, wire, faults, at, rows, view, link, ears, refresh, queued, ghosts>>

\* "Clear view": on screen only.
ClearView ==
  /\ at = "traffic" /\ rows # <<>>
  /\ rows' = <<>> /\ astray' = TRUE
  /\ UNCHANGED <<server, wire, faults, at, view, link, pausing, ears, fetches, overtaken,
                 untold>>

-----------------------------------------------------------------------------
(* Fetches.                                                                 *)

\* A handler renders the page from the project and the history of that moment.
Answered(f) == [f EXCEPT !.st = "answered", !.rows = Newest(served, Cap[at]),
                         !.view = project, !.clean = OnTheWay = {}]

AnswerResume ==
  /\ up /\ resume.st = "asked"
  /\ resume' = IF resume.here THEN Answered(resume) ELSE [resume EXCEPT !.st = "answered"]
  /\ UNCHANGED <<server, wire, faults, at, rows, view, link, pausing, ears, again, refresh,
                 queued, ghosts>>

AnswerRefresh ==
  /\ up /\ refresh.st = "asked"
  /\ refresh' = Answered(refresh)
  /\ untold' = FALSE
  /\ UNCHANGED <<server, wire, faults, at, rows, view, link, pausing, ears, resume, again,
                 queued, astray, overtaken>>

\* Mutant: afterSwap does not show the pause.
SwapInUnshown(f) ==
  /\ rows' = f.rows
  /\ pill' = connection /\ button' = Label(FALSE, 0)
  /\ overtaken' = (~f.clean \/ missed > 0) /\ astray' = (astray /\ ~f.clean)

\* Mutant: the fetched rows are put on top of those that are there.
SwapOnTop(f) ==
  /\ rows' = SubSeq(f.rows \o rows, 1, Least(Len(f.rows) + Len(rows), Cap[at]))
  /\ pill' = connection /\ button' = Label(paused, missed)
  /\ overtaken' = (~f.clean \/ missed > 0) /\ astray' = (astray /\ ~f.clean)

\* A list is replaced; afterSwap shows the connection and the pause.
SwapIn(f) ==
  /\ rows' = f.rows
  /\ pill' = connection /\ button' = Label(paused, missed)
  /\ overtaken' = (~f.clean \/ missed > 0) /\ astray' = (astray /\ ~f.clean)

\* The #traffic it was for has been taken out of the page.
Detached(f) == IF f.st = "idle" THEN f ELSE [Idle EXCEPT !.st = f.st, !.here = FALSE]

\* The one queued is for the #traffic there was when it was asked for.
NextResume(where) ==
  resume' = IF again = "no" THEN Idle ELSE [Asked EXCEPT !.here = where = "here"]

\* outerHTML of #traffic: the new list listens when it has settled.
SwapResume ==
  /\ resume.st = "answered"
  /\ IF resume.here
     THEN SwapIn(resume) /\ ears' = ears \ {"list"} /\ NextResume("gone")
     ELSE NextResume(again) /\ UNCHANGED <<rows, pill, button, ears, astray, overtaken>>
  /\ again' = "no"
  /\ UNCHANGED <<server, wire, faults, at, view, connection, paused, missed, refresh, queued,
                 untold>>

\* outerHTML of #app, which takes its queue with it.
SwapRefresh ==
  /\ refresh.st = "answered"
  /\ SwapIn(refresh) /\ view' = refresh.view /\ ears' = {}
  /\ refresh' = Idle /\ queued' = FALSE
  /\ resume' = Detached(resume)
  /\ again' = IF again = "no" THEN "no" ELSE "gone"
  /\ UNCHANGED <<server, wire, faults, at, connection, paused, missed, untold>>

\* The mock is not there to answer: nothing is swapped in, the next one is asked for.
FailResume ==
  /\ ~up /\ resume.st # "idle"
  /\ NextResume(again) /\ again' = "no"
  /\ astray' = TRUE
  /\ UNCHANGED <<server, wire, faults, at, rows, view, link, pausing, ears, refresh, queued,
                 overtaken, untold>>

FailRefresh ==
  /\ ~up /\ refresh.st # "idle"
  /\ refresh' = IF queued THEN Asked ELSE Idle
  /\ queued' = FALSE
  /\ untold' = TRUE
  /\ UNCHANGED <<server, wire, faults, at, rows, view, link, pausing, ears, resume, again,
                 astray, overtaken>>

\* Some milliseconds later the new elements listen.
Settle ==
  /\ ears # Elements /\ ears' = Elements
  /\ UNCHANGED <<server, wire, faults, at, rows, view, link, pausing, fetches, ghosts>>

-----------------------------------------------------------------------------
Environment == Publish \/ Swap \/ Reset \/ Drop \/ Stop \/ Start

User == Load \/ TogglePause \/ ClearView

Page ==
  \/ Open \/ Receive \/ Settle
  \/ AnswerResume \/ SwapResume \/ FailResume
  \/ AnswerRefresh \/ SwapRefresh \/ FailRefresh

Next == Environment \/ User \/ Page

Spec == Init /\ [][Next]_vars

\* The browser hands on what the stream brings and runs its timers, and a mock that runs
\* answers.  Nobody has to do anything to either, and a stream need not come back.
FairSpec ==
  /\ Spec
  /\ WF_vars(Receive) /\ WF_vars(Settle)
  /\ WF_vars(AnswerResume \/ SwapResume \/ FailResume)
  /\ WF_vars(AnswerRefresh \/ SwapRefresh \/ FailRefresh)

-----------------------------------------------------------------------------
(* Properties.                                                              *)

\* The list is what it should be, row for row, over pauses, resumes, reloads and
\* trims: it lacks what the button counts and what is still on its way, nothing else,
\* and shows nothing twice.  Left out are a list whose rows are being fetched, one
\* that misses what never reached the page (astray), and one whose fetch fell
\* together with a request (app.js 33-41, 113-123).
RowsWhole ==
  resume.st = "idle" /\ ~astray /\ ~overtaken
  => \E n \in 0 .. served : /\ OnTheWay = n + 1 .. served
                            /\ rows = Newest(n - missed, Cap[at])

\* "Resuming fills the list in from the mock's history, so nothing is missed"
\* (docs/dashboard.md:51), of a page at rest that was sent every request.
NothingMissed ==
  /\ resume.st = "idle" /\ refresh.st = "idle" /\ wire = <<>> /\ ears = Elements
  /\ ~paused /\ ~astray
  => LET due == Newest(served, Cap[at])
     IN  \A i \in 1 .. Len(due) : \E j \in 1 .. Len(rows) : rows[j] = due[i]

\* Newest first and each request once, whatever was lost, cleared or reset on the way, in
\* a list whose fetch did not fall together with a request (overtaken).  One that did
\* shows a request twice: it lists a request whose message is still to come, and the
\* message puts a second row on top (app.js 113-123; ui_traffic.go reads the history and
\* nothing of the stream).
NewestFirst == ~overtaken => \A i, j \in 1 .. Len(rows) : i < j => rows[i] > rows[j]

\* A page with nothing to hear or to fetch shows the project the mock serves, unless
\* it was not told of a reload or was told while it was swapping in another
\* (layout.html:15, docs/dashboard.md:32).
PageFollows ==
  /\ refresh.st = "idle" /\ \A i \in 1 .. Len(wire) : wire[i] # Reload
  /\ ~untold
  => view = project

\* What the page says of the connection and of the pause is so: after a reload too,
\* which brings both elements as the server renders them (app.js 19-31, 106-110).
ButtonTells == pill = connection /\ button = Label(paused, missed)

\* A reload the page was told of is shown in the end.
PageUpdates ==
  (view # project /\ ~untold) ~> (view = project \/ untold)
=============================================================================
