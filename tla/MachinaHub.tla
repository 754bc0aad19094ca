----------------------------- MODULE MachinaHub -----------------------------
(***************************************************************************)
(* The event hub of mock_machina's control API: internal/control/hub.go,   *)
(* the streams control.go serves from it, API.Swap, and the dashboard page *)
(* (ui/layout.html), which fetches itself again when the stream says       *)
(* `reload`.                                                               *)
(*                                                                         *)
(* Every operation of the hub is one step, made under its mutex.  A stream *)
(* is a goroutine of its own: it subscribes, hands on what its channel     *)
(* holds, and unsubscribes when the client is gone or the channel closed.  *)
(* A listener may come back; each subscription has a channel of its own.   *)
(***************************************************************************)
EXTENDS Integers, Sequences, FiniteSets

CONSTANTS
  Size,       \* historySize
  Buffer,     \* listenerBuffer
  Listeners,  \* clients of the event stream; a page is one
  Reloaders,  \* goroutines that may be in API.Swap
  None,       \* a slot of the ring never written, a page never fetched
  MaxEvents,  \* bound: requests the mock answers
  MaxSwaps    \* bound: reloads

ASSUME HubAssumption ==
  /\ Size \in Nat \ {0} /\ Buffer \in Nat \ {0}
  /\ MaxEvents \in Nat /\ MaxSwaps \in Nat
  /\ None \notin Nat /\ None \notin [n : Nat, bad : BOOLEAN]

VARIABLES
  history, next, kept, total, errs,  \* the ring and its counts
  closed,                            \* the hub is closed
  listeners,                         \* those registered
  chan, queue,  \* each listener's channel, and what it holds
  pc,           \* each listener's stream
  project, swap,  \* the control API's project, and each API.Swap under way
  shown, due,     \* the project a page shows, and whether it has asked for another
  coming,         \* the project of an answer the page has not swapped in
  panicked,       \* a send on, or a close of, a closed channel
  \* History variables; no action depends on them, but for the bounds.
  served,  \* requests answered
  log,     \* requests since the last clear, oldest first
  sent,    \* messages sent to whoever listens
  heard,   \* the last of them a listener took, or found sent when it joined
  missed,  \* the listener was sent a message its channel had no room for
  misled   \* the page shows a project replaced before it joined, missed a `reload`
           \* or heard it while an answer was coming, and has not been read since

ring    == <<history, next, kept, total, errs, served, log>>
streams == <<listeners, chan, pc>>
letters == <<queue, sent, heard, missed>>
page    == <<shown, due, coming>>
pages   == <<page, misled>>
vars    == <<ring, closed, streams, letters, project, swap, pages, panicked>>

Event == [n : Nat, bad : BOOLEAN]

Message == [at : Nat, reload : BOOLEAN]

TypeOK ==
  /\ history \in [0 .. Size - 1 -> Event \cup {None}]
  /\ next \in 0 .. Size - 1 /\ kept \in 0 .. Size
  /\ total \in Nat /\ errs \in 0 .. total
  /\ closed \in BOOLEAN /\ panicked \in BOOLEAN
  /\ listeners \in SUBSET Listeners
  /\ chan \in [Listeners -> {"none", "open", "closed"}]
  /\ queue \in [Listeners -> Seq(Message)]
  /\ \A l \in Listeners : Len(queue[l]) <= Buffer
  /\ pc \in [Listeners -> {"away", "streaming", "leaving"}]
  /\ project \in Nat /\ swap \in [Reloaders -> {"idle", "stored"}]
  /\ shown \in [Listeners -> Nat \cup {None}] /\ due \in [Listeners -> BOOLEAN]
  /\ coming \in [Listeners -> Nat \cup {None}]
  /\ served \in Nat /\ log \in Seq(Event)
  /\ sent \in Nat /\ heard \in [Listeners -> Nat]
  /\ missed \in [Listeners -> BOOLEAN] /\ misled \in [Listeners -> BOOLEAN]

Init ==
  /\ history = [i \in 0 .. Size - 1 |-> None]
  /\ next = 0 /\ kept = 0 /\ total = 0 /\ errs = 0
  /\ closed = FALSE /\ panicked = FALSE /\ listeners = {}
  /\ chan = [l \in Listeners |-> "none"] /\ queue = [l \in Listeners |-> <<>>]
  /\ pc = [l \in Listeners |-> "away"]
  /\ project = 0 /\ swap = [r \in Reloaders |-> "idle"]
  /\ shown = [l \in Listeners |-> None] /\ due = [l \in Listeners |-> FALSE]
  /\ coming = [l \in Listeners |-> None]
  /\ served = 0 /\ log = <<>> /\ sent = 0
  /\ heard = [l \in Listeners |-> 0]
  /\ missed = [l \in Listeners |-> FALSE]
  /\ misled = [l \in Listeners |-> FALSE]

-----------------------------------------------------------------------------
(* The ring of the newest requests.                                         *)

Least(a, b) == IF a < b THEN a ELSE b

\* recent(), newest first.  Go's i runs from 0.
Recent == [i \in 1 .. kept |-> history[(next - i + Size) % Size]]

\* Mutant: the ring's length keeps growing past its size.
RecordUnbounded(e) ==
  /\ history' = [history EXCEPT ![next] = e]
  /\ next' = (next + 1) % Size
  /\ kept' = kept + 1
  /\ total' = total + 1
  /\ errs' = IF e.bad THEN errs + 1 ELSE errs

Record(e) ==
  /\ history' = [history EXCEPT ![next] = e]
  /\ next' = (next + 1) % Size
  /\ kept' = Least(kept + 1, Size)
  /\ total' = total + 1
  /\ errs' = IF e.bad THEN errs + 1 ELSE errs

-----------------------------------------------------------------------------
(* Sending.  A full channel is passed over: the select has a default.       *)

\* Mutant: the channel is taken for full one message early.
HasRoomForTwo(l) == Len(queue[l]) + 1 < Buffer

HasRoom(l) == Len(queue[l]) < Buffer

Full(l) == l \in listeners /\ Len(queue[l]) = Buffer

Send(m) ==
  /\ queue' = [l \in Listeners |->
       IF l \in listeners /\ HasRoom(l) THEN Append(queue[l], m) ELSE queue[l]]
  /\ sent' = sent + 1
  /\ missed' = [l \in Listeners |-> missed[l] \/ Full(l)]
  /\ panicked' = (panicked \/ \E l \in listeners : chan[l] = "closed")
  /\ UNCHANGED heard

\* publish(): a request was answered, well or badly.
Publish(bad) ==
  LET e == [n |-> served + 1, bad |-> bad]
  IN  /\ served < MaxEvents
      /\ Record(e)
      /\ Send([at |-> sent + 1, reload |-> FALSE])
      /\ served' = served + 1 /\ log' = Append(log, e)
      /\ UNCHANGED <<closed, streams, project, swap, pages>>

\* Mutant: the reload is announced before the project is stored.
SwapAnnouncesFirst(r) ==
  \/ /\ swap[r] = "idle" /\ project < MaxSwaps
     /\ swap' = [swap EXCEPT ![r] = "stored"]
     /\ Send([at |-> sent + 1, reload |-> TRUE])
     /\ misled' = [l \in Listeners |-> misled[l] \/ Full(l)]
     /\ UNCHANGED <<ring, closed, streams, project, page>>
  \/ /\ swap[r] = "stored" /\ swap' = [swap EXCEPT ![r] = "idle"]
     /\ project' = project + 1
     /\ UNCHANGED <<ring, closed, streams, letters, pages, panicked>>

\* API.Swap stores the project and only then says so.
Swap(r) ==
  \/ /\ swap[r] = "idle" /\ project < MaxSwaps
     /\ project' = project + 1 /\ swap' = [swap EXCEPT ![r] = "stored"]
     /\ UNCHANGED <<ring, closed, streams, letters, pages, panicked>>
  \/ /\ swap[r] = "stored" /\ swap' = [swap EXCEPT ![r] = "idle"]
     /\ Send([at |-> sent + 1, reload |-> TRUE])
     /\ misled' = [l \in Listeners |-> misled[l] \/ Full(l)]
     /\ UNCHANGED <<ring, closed, streams, project, page>>

\* clear(), the second half of a reset.  The slots keep what they held.
Clear ==
  /\ next' = 0 /\ kept' = 0 /\ total' = 0 /\ errs' = 0 /\ log' = <<>>
  /\ UNCHANGED <<history, served, closed, streams, letters, project, swap, pages,
                 panicked>>

\* close(), once the mock is told to stop.
Close ==
  /\ ~closed /\ closed' = TRUE
  /\ listeners' = {}
  /\ chan' = [l \in Listeners |-> IF l \in listeners THEN "closed" ELSE chan[l]]
  /\ panicked' = (panicked \/ \E l \in listeners : chan[l] = "closed")
  /\ UNCHANGED <<ring, pc, letters, project, swap, pages>>

-----------------------------------------------------------------------------
(* A stream: serveEvents.                                                   *)

\* The project a page shows, or will once the answer is there.
Showing(l) == IF coming[l] = None THEN shown[l] ELSE coming[l]

\* Mutant: a closed hub registers who joins.
SubscribeToClosed(l) ==
  /\ pc[l] = "away" /\ pc' = [pc EXCEPT ![l] = "streaming"]
  /\ chan' = [chan EXCEPT ![l] = "open"]
  /\ listeners' = listeners \cup {l}
  /\ queue' = [queue EXCEPT ![l] = <<>>]
  /\ heard' = [heard EXCEPT ![l] = sent] /\ missed' = [missed EXCEPT ![l] = FALSE]
  /\ misled' = [misled EXCEPT ![l] = Showing(l) # project /\ ~due[l]]
  /\ UNCHANGED <<ring, closed, sent, project, swap, page, panicked>>

Subscribe(l) ==
  /\ pc[l] = "away" /\ pc' = [pc EXCEPT ![l] = "streaming"]
  /\ chan' = [chan EXCEPT ![l] = IF closed THEN "closed" ELSE "open"]
  /\ listeners' = IF closed THEN listeners ELSE listeners \cup {l}
  /\ queue' = [queue EXCEPT ![l] = <<>>]
  /\ heard' = [heard EXCEPT ![l] = sent] /\ missed' = [missed EXCEPT ![l] = FALSE]
  /\ misled' = [misled EXCEPT ![l] = Showing(l) # project /\ ~due[l]]
  /\ UNCHANGED <<ring, closed, sent, project, swap, page, panicked>>

\* A message is handed on.  A page told to reload asks for itself again, but not
\* while an answer is coming: what it would ask for is dropped with the element that
\* would ask, and the new one does not listen before it has settled.
Receive(l) ==
  LET m == Head(queue[l])
  IN  /\ pc[l] = "streaming" /\ queue[l] # <<>>
      /\ queue' = [queue EXCEPT ![l] = Tail(@)]
      /\ heard' = [heard EXCEPT ![l] = m.at]
      /\ due' = [due EXCEPT ![l] = @ \/ (m.reload /\ shown[l] # None /\ coming[l] = None)]
      /\ misled' = [misled EXCEPT ![l] = @ \/ (m.reload /\ coming[l] # None)]
      /\ UNCHANGED <<ring, closed, streams, sent, missed, project, swap, shown,
                     coming, panicked>>

\* A closed channel gives out what it holds before it reads as closed.
StreamEnds(l) ==
  /\ pc[l] = "streaming" /\ chan[l] = "closed" /\ queue[l] = <<>>
  /\ pc' = [pc EXCEPT ![l] = "leaving"]
  /\ UNCHANGED <<ring, closed, listeners, chan, letters, project, swap, pages, panicked>>

\* The request is over, or writing to it fails.
ClientLeaves(l) ==
  /\ pc[l] = "streaming"
  /\ pc' = [pc EXCEPT ![l] = "leaving"]
  /\ UNCHANGED <<ring, closed, listeners, chan, letters, project, swap, pages, panicked>>

\* Mutant: stop() closes the channel without looking whether close() has.
UnsubscribeUnchecked(l) ==
  /\ pc[l] = "leaving" /\ pc' = [pc EXCEPT ![l] = "away"]
  /\ queue' = [queue EXCEPT ![l] = <<>>]
  /\ heard' = [heard EXCEPT ![l] = 0] /\ missed' = [missed EXCEPT ![l] = FALSE]
  /\ misled' = [misled EXCEPT ![l] = FALSE]
  /\ listeners' = listeners \ {l}
  /\ chan' = [chan EXCEPT ![l] = "closed"]
  /\ panicked' = (panicked \/ chan[l] = "closed")
  /\ UNCHANGED <<ring, closed, sent, project, swap, page>>

\* The deferred stop(): whoever took the channel off the list closes it.  What
\* it still holds is nobody's any more.
Unsubscribe(l) ==
  /\ pc[l] = "leaving" /\ pc' = [pc EXCEPT ![l] = "away"]
  /\ queue' = [queue EXCEPT ![l] = <<>>]
  /\ heard' = [heard EXCEPT ![l] = 0] /\ missed' = [missed EXCEPT ![l] = FALSE]
  /\ misled' = [misled EXCEPT ![l] = FALSE]
  /\ IF l \in listeners
     THEN /\ listeners' = listeners \ {l}
          /\ chan' = [chan EXCEPT ![l] = "closed"]
          /\ panicked' = (panicked \/ chan[l] = "closed")
     ELSE UNCHANGED <<listeners, chan, panicked>>
  /\ UNCHANGED <<ring, closed, sent, project, swap, page>>

-----------------------------------------------------------------------------
(* The page.                                                                *)

\* The browser loads the page, before the page can connect: a handler of the
\* dashboard renders it from the project of that moment.
Load(l) ==
  /\ pc[l] = "away"
  /\ shown' = [shown EXCEPT ![l] = project]
  /\ due' = [due EXCEPT ![l] = FALSE] /\ coming' = [coming EXCEPT ![l] = None]
  /\ misled' = [misled EXCEPT ![l] = FALSE]
  /\ UNCHANGED <<ring, closed, streams, letters, project, swap, panicked>>

\* The handler renders it for a page that has asked.
Read(l) ==
  /\ due[l] /\ due' = [due EXCEPT ![l] = FALSE]
  /\ coming' = [coming EXCEPT ![l] = project]
  /\ misled' = [misled EXCEPT ![l] = FALSE]
  /\ UNCHANGED <<ring, closed, streams, letters, project, swap, shown, panicked>>

\* The answer is swapped in and has settled.
Arrive(l) ==
  /\ coming[l] # None
  /\ shown' = [shown EXCEPT ![l] = coming[l]] /\ coming' = [coming EXCEPT ![l] = None]
  /\ UNCHANGED <<ring, closed, streams, letters, project, swap, due, misled, panicked>>

-----------------------------------------------------------------------------
Next ==
  \/ \E bad \in BOOLEAN : Publish(bad)
  \/ \E r \in Reloaders : Swap(r)
  \/ Clear \/ Close
  \/ \E l \in Listeners :
       \/ Subscribe(l) \/ Receive(l) \/ StreamEnds(l)
       \/ ClientLeaves(l) \/ Unsubscribe(l)
       \/ Load(l) \/ Read(l) \/ Arrive(l)

Spec == Init /\ [][Next]_vars

\* A stream that has something to do does it: a write to a client either ends
\* or fails with the connection.  Nobody has to come, to leave or to publish.
FairSpec ==
  /\ Spec
  /\ \A l \in Listeners : WF_vars(Receive(l) \/ StreamEnds(l) \/ Unsubscribe(l))

-----------------------------------------------------------------------------
(* Properties.                                                              *)

\* GET requests gives the newest requests since the start or the last reset,
\* newest first, as many as the ring has room for, and the counts count them
\* all: over every wrap of the ring, and after a clear that leaves the slots as
\* they are (hub.go 81-87, 122-141).
RecentIsNewest ==
  /\ kept = Least(Len(log), Size)
  /\ Recent = [i \in 1 .. kept |-> log[Len(log) + 1 - i]]
  /\ total = Len(log)
  /\ errs = Cardinality({i \in 1 .. Len(log) : log[i].bad})

\* However joining, leaving, sending and closing fall together, no message is
\* sent on a closed channel and no channel is closed twice, either of which
\* would end the mock: the stream's deferred stop() may come after close()
\* closed its channel (hub.go 62-69, 101-118).
NoPanic == ~panicked

\* A listener is given messages in the order they were sent, each once, and
\* every one of them unless its channel was full, with listenerBuffer messages
\* waiting, when one was sent (hub.go 101-108, docs/control-api.md:92).
InOrder ==
  \A l \in Listeners : chan[l] = "open" =>
    /\ \A i \in 1 .. Len(queue[l]) : heard[l] < queue[l][i].at /\ queue[l][i].at <= sent
    /\ \A i, j \in 1 .. Len(queue[l]) : i < j => queue[l][i].at < queue[l][j].at
    /\ ~missed[l] => heard[l] + Len(queue[l]) = sent

\* A page that is connected, has nothing left to hear or to fetch, and has not
\* missed a `reload`, shows the project the mock answers from - provided it was
\* rendered from that project or connected before the reload (a page rendered before
\* a reload and connected after it is not told), and the reload did not come while
\* another's answer was coming (control.go 70-73, layout.html 14-15,
\* docs/dashboard.md:32).
PageFollows ==
  \A l \in Listeners :
    /\ chan[l] = "open" /\ ~misled[l] /\ ~due[l] /\ coming[l] = None
    /\ \A i \in 1 .. Len(queue[l]) : ~queue[l][i].reload
    /\ \A r \in Reloaders : swap[r] = "idle"
    => shown[l] = project

\* Once the hub is closed every stream ends, those that joined afterwards too:
\* the shutdown that waits for the streams is not held up (hub.go 57-60, 110-118,
\* control.go 206-232).
StreamsEnd == \A l \in Listeners : (closed /\ pc[l] # "away") ~> pc[l] = "away"
=============================================================================
