--------------------------- MODULE MachinaServeProofs ---------------------------
(***************************************************************************)
(* What holds of MachinaServe for any callers, routes, states, scenarios,  *)
(* size of the history and numbers of calls, resets and edits: its type    *)
(* invariant, that coverage and the request list tell the same story       *)
(* (CoverageTells), that a view of either is whole (CoverageWhole,         *)
(* ViewCovers), that no turn is taken twice (InTurn), and when a pinned    *)
(* state is refused (PinRefusedOnlyStale).                                 *)
(***************************************************************************)
EXTENDS MachinaServe, FiniteSetTheorems, TLAPS

-----------------------------------------------------------------------------
(* The inductive invariant.                                                 *)

\* The request has a route of a project.
Bound(req) ==
  /\ req.route \in Routes /\ req.project \in Project /\ req.route \in DOMAIN req.project

List(req) == req.project[req.route].states

\* What is known of a request once it has its number, and its turn.
Known(req) ==
  /\ req.kept <= resets /\ req.drawn <= resets
  /\ req.number # 0 => Bound(req)
  /\ req.number # 0 /\ req.drawn = resets => req.number <= calls[req.route]
  /\ req.reason = "sequential" =>
       req.number # 0 /\ req.state = List(req)[AtMost(req.number, Len(List(req)))]

\* What a caller carries fits the step it will take next.
Fits(j) ==
  /\ j.at \in {"arrived", "counted", "picked"} => Bound(j.req)
  /\ j.at = "arrived" => j.req.number = 0 /\ j.req.reason = "none"
  /\ j.at = "counted" => j.req.number # 0 /\ j.req.reason = "none"
  /\ j.at \in {"picked", "remembered"} /\ j.req.problem = "none" => Pair(j.req) \in Pairs
  /\ j.at = "pinning" => Bound(j.req) /\ j.req.state \in Offered(j.req.project[j.req.route])
  /\ j.at \in {"saving", "unpinning"} => j.req.route \in Routes
  /\ j.at = "applying" => j.ask \in Scenes /\ j.req.project \in Project /\ Has(j.req.project, j.ask)

\* What a view has read so far.
Views(j) ==
  /\ j.clears <= clears /\ j.req.kept <= resets
  /\ j.at = "listing" /\ j.clears = clears => j.total <= total
  /\ j.at = "covering" /\ j.req.kept = resets =>
       j.was \ j.todo \subseteq j.found /\ j.found \subseteq served /\ j.was \subseteq served

Carried == \A c \in Callers : Fits(caller[c]) /\ Known(caller[c].req) /\ Views(caller[c])

\* The list is as long as the count allows, and its requests are known.
History ==
  /\ Len(listed) = AtMost(total, Size)
  /\ \A i \in 1 .. Len(listed) :
       Known(listed[i]) /\ (listed[i].problem = "none" => Pair(listed[i]) \in Pairs)

\* Between two resets a number of a route is drawn once.
Apart(p, q) ==
  p.number # 0 /\ q.number # 0 /\ p.route = q.route /\ p.drawn = q.drawn
    => p.number # q.number

Numbers ==
  /\ \A c, d \in Callers : c # d => Apart(caller[c].req, caller[d].req)
  /\ \A c \in Callers, i \in 1 .. Len(listed) : Apart(caller[c].req, listed[i])
  /\ \A i, j \in 1 .. Len(listed) : i # j => Apart(listed[i], listed[j])

\* A pin is a state that its route had when the pin was checked.
Vouched == \A r \in Routes : pins[r] # None =>
  vouched[r] \in Route /\ pins[r] \in Offered(vouched[r])

IInv == TypeOK /\ Carried /\ History /\ Numbers /\ Vouched /\ CoverageTells

-----------------------------------------------------------------------------
(* Projects and their states.                                               *)

LEMMA Projects ==
  ASSUME NEW project \in Project, NEW r \in DOMAIN project
  PROVE  /\ r \in Routes /\ project[r] \in Route
         /\ project[r].states \in Seq(States) /\ Len(project[r].states) \in Nat \ {0}
         /\ project[r].active \in Offered(project[r])
         /\ Offered(project[r]) \subseteq States
<1>1. PICK ids \in SUBSET Routes : project \in [ids -> Route]
  BY DEF Project
<1>2. r \in Routes /\ project[r] \in Route
  BY <1>1
<1>3. project[r].states \in Seq(States) /\ project[r].active \in Offered(project[r])
  BY <1>2, ServeAssumption DEF Route
<1>4. Offered(project[r]) \subseteq States
  BY <1>3 DEF Offered
<1>5. Len(project[r].states) # 0
  BY <1>3 DEF Offered
<1>. QED  BY <1>2, <1>3, <1>4, <1>5

\* What a scenario says is a state, or nothing.
LEMMA Scenery ==
  ASSUME NEW scene \in Scenes
  PROVE  DOMAIN scene \subseteq Routes /\ \A r \in DOMAIN scene : scene[r] \in States
BY ServeAssumption

\* None is no state, and a scenario no state.
LEMMA Nones ==
  /\ None \notin States /\ None \notin Scenes /\ None \notin Routes /\ None \notin Project
  /\ \A s \in Scenes : s \notin States
BY ServeAssumption

\* A turn is one of the list's.
LEMMA Turns ==
  ASSUME NEW m \in Nat \ {0}, NEW n \in Nat \ {0}
  PROVE  AtMost(m, n) \in 1 .. n
BY DEF AtMost

\* The state picked is a state.
LEMMA PickedState ==
  ASSUME TypeOK, NEW c \in Callers, Bound(caller[c].req), caller[c].req.number # 0
  PROVE  /\ Picked(c)[1] \in States
         /\ Picked(c)[2] \in {"header", "scenario", "control", "sequential", "active"}
         /\ Picked(c)[2] = "sequential" =>
              Picked(c)[1] = List(caller[c].req)[AtMost(caller[c].req.number,
                                                        Len(List(caller[c].req)))]
         /\ Picked(c)[2] = "control" =>
              pins[caller[c].req.route] # None /\ Picked(c)[1] = pins[caller[c].req.route]
<1>. DEFINE r == caller[c].req.route
            ask == caller[c].ask
            route == caller[c].req.project[r]
            turn == AtMost(caller[c].req.number, Len(route.states))
<1>1. /\ r \in Routes /\ route.states \in Seq(States) /\ Len(route.states) \in Nat \ {0}
      /\ route.active \in States
  BY Projects DEF Bound
<1>2. caller[c].req.number \in Nat
  BY DEF TypeOK, Job, Request
<1>3. turn \in 1 .. Len(route.states)
  <2>. HIDE DEF route
  <2>. QED  BY <1>1, <1>2, Turns
<1>4. route.states[turn] \in States
  <2>. HIDE DEF route, turn
  <2>. QED  BY <1>1, <1>3
<1>5. pins[r] \in States \cup {None}
  BY <1>1 DEF TypeOK
<1>6. ask \in Scenes /\ r \in DOMAIN ask => ask[r] \in States
  BY Scenery
<1>. HIDE DEF turn
<1>. QED  BY <1>1, <1>4, <1>5, <1>6 DEF Picked, List, turn

-----------------------------------------------------------------------------
(* Type correctness.                                                        *)

\* What callers begin with is typed.
LEMMA IdleJob == Idle \in Job /\ NoRequest \in Request
BY DEF Idle, NoRequest, Job, Request, Steps, Pairs

\* One caller's record is replaced.
LEMMA Replaced ==
  ASSUME TypeOK, NEW c \in Callers, NEW j \in Job, caller' = [caller EXCEPT ![c] = j]
  PROVE  /\ caller' \in [Callers -> Job] /\ caller'[c] = j
         /\ \A d \in Callers : d # c => caller'[d] = caller[d]
BY DEF TypeOK

\* Counters are numbers.
LEMMA Counters ==
  ASSUME TypeOK
  PROVE  resets \in Nat /\ clears \in Nat /\ total \in Nat /\ begun \in Nat /\ edits \in Nat
         /\ Size \in Nat \ {0}
BY ServeAssumption DEF TypeOK

\* A step of a request that is under way gives it a new record.
LEMMA GoneOn ==
  ASSUME TypeOK, NEW c \in Callers, NEW at \in Steps, NEW req \in Request, GoOn(c, at, req)
  PROVE  \E j \in Job :
           /\ caller' = [caller EXCEPT ![c] = j]
           /\ j.at = at /\ j.req = req /\ j.ask = caller[c].ask /\ j.total = caller[c].total
           /\ j.clears = caller[c].clears /\ j.todo = caller[c].todo
           /\ j.found = caller[c].found /\ j.was = caller[c].was
<1>. DEFINE j == [caller[c] EXCEPT !.at = at, !.req = req]
<1>1. caller[c] \in Job
  BY DEF TypeOK
<1>2. /\ j \in Job
      /\ j.at = at /\ j.req = req /\ j.ask = caller[c].ask /\ j.total = caller[c].total
      /\ j.clears = caller[c].clears /\ j.todo = caller[c].todo
      /\ j.found = caller[c].found /\ j.was = caller[c].was
  BY <1>1 DEF Job
<1>3. caller' = [caller EXCEPT ![c] = j]
  BY DEF GoOn
<1>. QED  BY <1>2, <1>3

\* The requests that these steps leave.
LEMMA ServeRequest ==
  ASSUME IInv, NEW c \in Callers
  PROVE  LET req == caller[c].req IN
    /\ req \in Request
    /\ TakeNumber(c) =>
         /\ req.route \in Routes /\ calls'[req.route] \in Nat \ {0}
         /\ [req EXCEPT !.drawn = resets, !.number = calls'[req.route]] \in Request
    /\ Pick(c) => \A problem \in {"none", "unknown_state"} :
         [req EXCEPT !.state = Picked(c)[1], !.reason = Picked(c)[2], !.problem = problem]
           \in Request
    /\ [req EXCEPT !.problem = "turned_away"] \in Request
    /\ [req EXCEPT !.kept = resets] \in Request
<1>. DEFINE req == caller[c].req
<1>1. req \in Request
  BY DEF IInv, TypeOK, Job
<1>2. ASSUME TakeNumber(c)
      PROVE  req.route \in Routes /\ calls'[req.route] \in Nat \ {0}
  <2>1. req.route \in Routes
    BY <1>2 DEF IInv, Carried, Fits, Bound, TakeNumber
  <2>. QED  BY <1>2, <2>1 DEF IInv, TypeOK, TakeNumber
<1>3. resets \in Nat
  BY Counters DEF IInv
<1>4. ASSUME TakeNumber(c)
      PROVE  [req EXCEPT !.drawn = resets, !.number = calls'[req.route]] \in Request
  BY <1>1, <1>2, <1>3, <1>4 DEF Request
<1>5. ASSUME Pick(c), NEW problem \in {"none", "unknown_state"}
      PROVE  [req EXCEPT !.state = Picked(c)[1], !.reason = Picked(c)[2],
                         !.problem = problem] \in Request
  <2>1. /\ Picked(c)[1] \in States
        /\ Picked(c)[2] \in {"header", "scenario", "control", "sequential", "active"}
    BY <1>5, PickedState DEF IInv, Carried, Fits, Pick
  <2>. QED  BY <1>1, <2>1 DEF Request
<1>6. [req EXCEPT !.problem = "turned_away"] \in Request /\ [req EXCEPT !.kept = resets] \in Request
  BY <1>1, <1>3 DEF Request
<1>. QED  BY <1>1, <1>2, <1>4, <1>5, <1>6

-----------------------------------------------------------------------------
(* What grows, and what a caller carries.                                   *)

\* Between resets numbers and coverage grow, between clears the count does.
Grows ==
  /\ resets <= resets' /\ clears <= clears'
  /\ resets' \in Nat /\ clears' \in Nat /\ total' \in Nat /\ calls' \in [Routes -> Nat]
  /\ resets' = resets => served \subseteq served' /\ \A r \in Routes : calls[r] <= calls'[r]
  /\ clears' = clears => total <= total'

LEMMA Growing ==
  ASSUME IInv, [Next]_vars
  PROVE  Grows
<1>1. /\ resets \in Nat /\ clears \in Nat /\ total \in Nat
      /\ calls \in [Routes -> Nat]
  BY Counters DEF IInv, TypeOK
<1>2. ASSUME NEW c \in Callers, TakeNumber(c)
      PROVE  Grows
  <2>1. caller[c].req.route \in Routes
    BY <1>2 DEF IInv, Carried, Fits, Bound, TakeNumber
  <2>. QED  BY <1>1, <1>2, <2>1 DEF TakeNumber, Grows, events, ghosts
<1>3. ASSUME NEW c \in Callers, Remember(c) \/ Publish(c) \/ Reset(c) \/ Clear(c)
      PROVE  Grows
  BY <1>1, <1>3 DEF Remember, Publish, Reset, Clear, Grows, events, ghosts, memory
<1>4. ASSUME UNCHANGED <<resets, clears, total, calls, served>>
      PROVE  Grows
  BY <1>1, <1>4 DEF Grows
<1>5. ASSUME NEW c \in Callers, Serve(c)
      PROVE  Grows
  <2>1. \/ TakeNumber(c) \/ Remember(c) \/ Publish(c)
        \/ UNCHANGED <<resets, clears, total, calls, served>>
    BY <1>5 DEF Serve, Arrive, Stray, Pick, TurnAway, memory, events, ghosts
  <2>. QED  BY <1>2, <1>3, <1>4, <1>5, <2>1
<1>6. ASSUME NEW c \in Callers, Command(c)
      PROVE  Grows
  <2>1. Reset(c) \/ Clear(c) \/ UNCHANGED <<resets, clears, total, calls, served>>
    BY <1>6 DEF Command, SetState, Pin, Save, SaveFails, RemovePin, Unpin, ApplyScenario, Apply,
       RequestsView, Recent, CoverageView, Look, Covered, memory, events, ghosts
  <2>. QED  BY <1>3, <1>4, <1>6, <2>1
<1>7. \/ \E c \in Callers : Serve(c) \/ Command(c)
      \/ UNCHANGED <<resets, clears, total, calls, served>>
  BY DEF Next, Edit, SwapLive, SwapControl, memory, events, ghosts, vars
<1>. QED  BY <1>4, <1>5, <1>6, <1>7

\* What was known of a request, and what a view has read, stays so.
LEMMA Staying ==
  ASSUME IInv, Grows
  PROVE  /\ \A q \in Request : Known(q) => Known(q)'
         /\ \A j \in Job : Views(j) => Views(j)'
<1>1. resets \in Nat /\ clears \in Nat /\ total \in Nat /\ calls \in [Routes -> Nat]
  BY Counters DEF IInv, TypeOK
<1>2. ASSUME NEW q \in Request, Known(q)
      PROVE  Known(q)'
  <2>1. q.kept \in Nat /\ q.drawn \in Nat /\ q.number \in Nat
    BY DEF Request
  <2>2. q.number # 0 => q.route \in Routes
    BY <1>2 DEF Known, Bound
  <2>3. q.number # 0 /\ q.drawn = resets' => q.number <= calls'[q.route]
    <3>1. CASE resets' = resets
      BY <1>1, <1>2, <2>1, <2>2, <3>1 DEF Known, Grows
    <3>2. CASE resets' # resets
      BY <1>1, <1>2, <2>1, <3>2 DEF Known, Grows
    <3>. QED  BY <3>1, <3>2
  <2>. QED  BY <1>1, <1>2, <2>1, <2>3 DEF Known, Grows
<1>3. ASSUME NEW j \in Job, Views(j)
      PROVE  Views(j)'
  <2>1. j.clears \in Nat /\ j.total \in Nat /\ j.req.kept \in Nat
    BY DEF Job, Request
  <2>2. j.at = "covering" /\ j.req.kept = resets' => resets' = resets
    <3>1. Views(j) /\ \A d \in Callers : Known(caller[d].req)
      BY <1>3 DEF IInv, Carried
    <3>. QED  BY <1>1, <2>1, <3>1 DEF Views, Grows
  <2>. QED  BY <1>1, <1>3, <2>1, <2>2 DEF Views, Grows
<1>. QED  BY <1>2, <1>3

\* What a step of a caller does to its record.
Passes(c, j) ==
  /\ j \in Job /\ caller' = [caller EXCEPT ![c] = j]
  /\ Fits(j) /\ Known(j.req)' /\ Views(j)'

Numbered(c, j) ==
  \/ j.req.number = 0
  \/ /\ j.req.number = caller[c].req.number /\ j.req.route = caller[c].req.route
     /\ j.req.drawn = caller[c].req.drawn

Moves(c) == \E j : Passes(c, j) /\ Numbered(c, j) /\ j.at # "remembered"

\* A call that has just begun, or is over, knows of no number yet.
LEMMA Beginning ==
  ASSUME IInv, Grows, NEW c \in Callers, NEW j \in Job, caller' = [caller EXCEPT ![c] = j],
         j.req.number = 0, j.req.drawn = 0, j.req.reason = "none",
         j.req.kept <= resets, j.clears <= clears,
         j.at = "listing" => j.total <= total,
         j.at = "covering" => j.was \ j.todo \subseteq j.found /\ j.found = {} /\ j.was \subseteq served,
         Fits(j)
  PROVE  Passes(c, j) /\ Numbered(c, j)
<1>1. j.req \in Request /\ resets \in Nat
  BY Counters DEF Job, IInv
<1>2. Known(j.req)
  BY <1>1 DEF Known
<1>3. Views(j)
  BY DEF Views
<1>. QED  BY <1>1, <1>2, <1>3, Staying DEF Passes, Numbered

\* A caller that returns is idle.
LEMMA Returning ==
  ASSUME IInv, Grows, NEW c \in Callers, Return(c)
  PROVE  Passes(c, Idle) /\ Moves(c)
<1>1. Idle \in Job /\ resets \in Nat /\ clears \in Nat
  BY IdleJob, Counters DEF IInv
<1>2. Fits(Idle)
  BY DEF Fits, Idle, NoRequest
<1>3. /\ Idle.req.number = 0 /\ Idle.req.drawn = 0 /\ Idle.req.reason = "none"
      /\ Idle.req.kept = 0 /\ Idle.clears = 0 /\ Idle.at = "idle"
  BY DEF Idle, NoRequest
<1>4. caller' = [caller EXCEPT ![c] = Idle]
  BY DEF Return
<1>5. Passes(c, Idle) /\ Numbered(c, Idle)
  <2>. PICK j \in Job : j = Idle
    BY <1>1
  <2>1. 0 <= resets /\ 0 <= clears
    BY <1>1
  <2>. QED  BY <1>2, <1>3, <1>4, <2>1, Beginning
<1>. QED  BY <1>3, <1>5 DEF Moves

\* A request that is a step further is still known.
LEMMA Proceeding ==
  ASSUME IInv, Grows, NEW c \in Callers, NEW at \in Steps, NEW req \in Request,
         GoOn(c, at, req), Known(req)', at # "listing", at # "covering",
         req.kept <= resets',
         \A j \in Job : j.at = at /\ j.req = req /\ j.ask = caller[c].ask => Fits(j)
  PROVE  \E j : Passes(c, j) /\ j.at = at /\ j.req = req
<1>1. PICK j \in Job : /\ caller' = [caller EXCEPT ![c] = j]
                       /\ j.at = at /\ j.req = req /\ j.ask = caller[c].ask
                       /\ j.clears = caller[c].clears
  BY GoneOn DEF IInv
<1>2. Views(j)'
  <2>1. Views(caller[c]) /\ caller[c] \in Job
    BY DEF IInv, Carried, TypeOK
  <2>2. PICK k \in Job : k = caller[c] /\ Views(k)
    BY <2>1
  <2>3. Views(k)'
    BY <2>2, Staying
  <2>. QED  BY <1>1, <2>2, <2>3 DEF Views
<1>. QED  BY <1>1, <1>2 DEF Passes

\* A call begins with a record that has no number.
LEMMA Started ==
  ASSUME IInv, Grows, NEW c \in Callers, NEW j \in Job, Begin(c, j), Fits(j),
         j.req.number = 0, j.req.drawn = 0, j.req.reason = "none", j.req.kept <= resets,
         j.clears <= clears, j.at = "listing" => j.total <= total,
         j.at = "covering" =>
           j.was \ j.todo \subseteq j.found /\ j.found = {} /\ j.was \subseteq served
  PROVE  Passes(c, j) /\ Numbered(c, j) /\ (j.at # "remembered" => Moves(c))
<1>1. caller' = [caller EXCEPT ![c] = j]
  BY DEF Begin
<1>2. Passes(c, j) /\ Numbered(c, j)
  BY <1>1, Beginning
<1>. QED  BY <1>2 DEF Moves

\* A request arrives.
LEMMA Arrives ==
  ASSUME IInv, Grows, NEW c \in Callers, NEW route \in Routes,
         NEW ask \in States \cup Scenes \cup {None}, Arrive(c, route, ask)
  PROVE  Moves(c)
<1>. DEFINE q == [NoRequest EXCEPT !.route = route, !.project = handler]
<1>1. resets \in Nat /\ clears \in Nat /\ handler \in Project
  BY Counters DEF IInv, TypeOK
<1>2. /\ q \in Request /\ q.route = route /\ q.project = handler
      /\ q.number = 0 /\ q.drawn = 0 /\ q.kept = 0 /\ q.reason = "none"
  BY <1>1 DEF NoRequest, Request
<1>3. Begin(c, [Idle EXCEPT !.at = "arrived", !.ask = ask, !.req = q])
  BY DEF Arrive
<1>. HIDE DEF q
<1>4. PICK j : /\ j \in Job /\ j.at = "arrived" /\ j.req = q /\ j.clears = 0
              /\ j = [Idle EXCEPT !.at = "arrived", !.ask = ask, !.req = q]
  BY <1>2 DEF Idle, Job, Steps, Pairs
<1>5. Fits(j)
  BY <1>1, <1>2, <1>4 DEF Fits, Bound, Arrive
<1>6. Begin(c, j)
  BY <1>3, <1>4
<1>7. 0 <= resets /\ 0 <= clears
  BY <1>1
<1>8. /\ j \in Job /\ j.at # "listing" /\ j.at # "covering" /\ j.at # "remembered"
      /\ j.req.number = 0 /\ j.req.drawn = 0 /\ j.req.reason = "none"
      /\ j.req.kept <= resets /\ j.clears <= clears
  BY <1>2, <1>4, <1>7
<1>. QED  BY <1>5, <1>6, <1>8, Started

\* A request for nothing that is there.
LEMMA Strays ==
  ASSUME IInv, Grows, NEW c \in Callers, Stray(c)
  PROVE  \E j : /\ Passes(c, j) /\ Numbered(c, j) /\ j.at = "remembered"
                /\ j.req.problem = "stray"
<1>. DEFINE q == [NoRequest EXCEPT !.problem = "stray"]
<1>1. resets \in Nat /\ clears \in Nat
  BY Counters DEF IInv, TypeOK
<1>2. /\ q \in Request /\ q.number = 0 /\ q.drawn = 0 /\ q.kept = 0 /\ q.reason = "none"
      /\ q.problem = "stray"
  BY DEF NoRequest, Request
<1>3. Begin(c, [Idle EXCEPT !.at = "remembered", !.req = q])
  BY DEF Stray
<1>. HIDE DEF q
<1>4. PICK j : /\ j \in Job /\ j.at = "remembered" /\ j.req = q /\ j.clears = 0
              /\ j = [Idle EXCEPT !.at = "remembered", !.req = q]
  BY <1>2 DEF Idle, Job, Steps, Pairs
<1>5. Fits(j)
  BY <1>2, <1>4 DEF Fits
<1>6. Begin(c, j)
  BY <1>3, <1>4
<1>7. 0 <= resets /\ 0 <= clears
  BY <1>1
<1>. QED  BY <1>2, <1>4, <1>5, <1>6, <1>7, Started

\* A request gets its number.
LEMMA TakesNumber ==
  ASSUME IInv, Grows, NEW c \in Callers, TakeNumber(c)
  PROVE  \E j : /\ Passes(c, j) /\ j.at = "counted"
                /\ j.req.number = calls[j.req.route] + 1 /\ j.req.drawn = resets
                /\ j.req.route \in Routes
<1>. DEFINE q == [caller[c].req EXCEPT !.drawn = resets, !.number = calls'[caller[c].req.route]]
<1>1. /\ resets \in Nat /\ clears \in Nat /\ calls \in [Routes -> Nat]
      /\ caller[c].req \in Request
  BY Counters, ServeRequest DEF IInv, TypeOK
<1>2. /\ Bound(caller[c].req) /\ caller[c].req.reason = "none" /\ caller[c].req.kept <= resets
  BY DEF IInv, Carried, Fits, Known, TakeNumber
<1>3. PICK r : q \in Request /\ r = q
  BY ServeRequest
<1>4. /\ r.route = caller[c].req.route /\ r.project = caller[c].req.project
      /\ r.kept = caller[c].req.kept /\ r.drawn = resets /\ r.reason = "none"
      /\ r.number = calls'[r.route] /\ r.route \in Routes
  BY <1>1, <1>2, <1>3 DEF Request, Bound
<1>5. r.number = calls[r.route] + 1 /\ resets' = resets /\ r.number # 0
  BY <1>1, <1>4 DEF TakeNumber
<1>6. GoOn(c, "counted", r)
  BY <1>3 DEF TakeNumber
<1>7. Bound(r)
  BY <1>2, <1>4 DEF Bound
<1>8. Known(r)'
  BY <1>1, <1>2, <1>4, <1>5, <1>7 DEF Known, Grows
<1>9. \A j \in Job : j.at = "counted" /\ j.req = r /\ j.ask = caller[c].ask => Fits(j)
  BY <1>4, <1>5, <1>7 DEF Fits
<1>10. r.kept <= resets'
  BY <1>2, <1>4, <1>5
<1>11. "counted" \in Steps /\ r \in Request
  BY <1>3 DEF Steps
<1>12. \E j : Passes(c, j) /\ j.at = "counted" /\ j.req = r
  BY <1>6, <1>8, <1>9, <1>10, <1>11, Proceeding
<1>. QED  BY <1>4, <1>5, <1>12

\* Its state is picked.
LEMMA Picks ==
  ASSUME IInv, Grows, NEW c \in Callers, Pick(c)
  PROVE  Moves(c)
<1>. DEFINE old == caller[c].req
            problem == IF Picked(c)[1] \in Offered(old.project[old.route])
                       THEN "none" ELSE "unknown_state"
            q == [old EXCEPT !.state = Picked(c)[1], !.reason = Picked(c)[2],
                             !.problem = problem]
<1>1. /\ old \in Request /\ Bound(old) /\ old.number # 0 /\ Known(old)
  BY ServeRequest DEF IInv, Carried, Fits, Pick
<1>2. /\ Picked(c)[1] \in States
      /\ Picked(c)[2] = "sequential" =>
           Picked(c)[1] = List(old)[AtMost(old.number, Len(List(old)))]
  BY <1>1, PickedState DEF IInv
<1>3. PICK r : q \in Request /\ r = q
  BY ServeRequest
<1>4. GoOn(c, "picked", r)
  BY <1>3 DEF Pick
<1>5. /\ r.route = old.route /\ r.project = old.project /\ r.number = old.number
      /\ r.kept = old.kept /\ r.drawn = old.drawn
      /\ r.state = Picked(c)[1] /\ r.reason = Picked(c)[2]
  <2>. HIDE DEF problem
  <2>. QED  BY <1>1, <1>3 DEF Request
<1>6. Bound(r) /\ List(r) = List(old)
  BY <1>1, <1>5 DEF Bound, List
<1>7. Known(r)
  BY <1>1, <1>2, <1>5, <1>6 DEF Known
<1>8. Known(r)' /\ r.kept <= resets'
  BY <1>3, <1>7, Staying DEF Known
<1>9. Pair(r) \in Pairs
  BY <1>1, <1>2, <1>5 DEF Pair, Pairs, Bound
<1>10. \A j \in Job : j.at = "picked" /\ j.req = r /\ j.ask = caller[c].ask => Fits(j)
  BY <1>6, <1>9 DEF Fits
<1>11. "picked" \in Steps /\ r \in Request
  BY <1>3 DEF Steps
<1>12. \E j : Passes(c, j) /\ j.at = "picked" /\ j.req = r
  BY <1>4, <1>8, <1>10, <1>11, Proceeding
<1>. QED  BY <1>5, <1>12 DEF Moves, Numbered

\* It is turned away.
LEMMA TurnsAway ==
  ASSUME IInv, Grows, NEW c \in Callers, TurnAway(c)
  PROVE  Moves(c)
<1>. DEFINE old == caller[c].req
            q == [old EXCEPT !.problem = "turned_away"]
<1>1. /\ old \in Request /\ Bound(old) /\ Known(old)
  BY ServeRequest, ZenonT(30) DEF IInv, Carried, Fits, TurnAway
<1>2. PICK r : q \in Request /\ r = q
  BY ServeRequest
<1>3. GoOn(c, "picked", r)
  BY <1>2 DEF TurnAway
<1>4. /\ r.route = old.route /\ r.project = old.project /\ r.number = old.number
      /\ r.kept = old.kept /\ r.drawn = old.drawn
      /\ r.state = old.state /\ r.reason = old.reason /\ r.problem = "turned_away"
  BY <1>1, <1>2 DEF Request
<1>5. Bound(r) /\ List(r) = List(old)
  BY <1>1, <1>4 DEF Bound, List
<1>6. Known(r)
  BY <1>1, <1>4, <1>5 DEF Known
<1>7. Known(r)' /\ r.kept <= resets'
  BY <1>2, <1>6, Staying, ZenonT(30) DEF Known
<1>8. \A j \in Job : j.at = "picked" /\ j.req = r /\ j.ask = caller[c].ask => Fits(j)
  BY <1>4, <1>5 DEF Fits
<1>9. "picked" \in Steps /\ r \in Request
  BY <1>2 DEF Steps
<1>10. \E j : Passes(c, j) /\ j.at = "picked" /\ j.req = r
  BY <1>3, <1>7, <1>8, <1>9, Proceeding
<1>. QED  BY <1>4, <1>10 DEF Moves, Numbered

\* Its state is remembered.
LEMMA Remembers ==
  ASSUME IInv, Grows, NEW c \in Callers, Remember(c)
  PROVE  \E j : /\ Passes(c, j) /\ Numbered(c, j) /\ j.at = "remembered"
                /\ j.req.kept = resets /\ Pair(j.req) = Pair(caller[c].req)
                /\ j.req.problem = caller[c].req.problem
<1>. DEFINE old == caller[c].req
            q == [old EXCEPT !.kept = resets]
<1>1. /\ old \in Request /\ Bound(old) /\ Known(old)
      /\ old.problem = "none" => Pair(old) \in Pairs
  BY ServeRequest DEF IInv, Carried, Fits, Remember
<1>2. PICK r : q \in Request /\ r = q
  BY ServeRequest
<1>3. GoOn(c, "remembered", r)
  BY <1>2 DEF Remember
<1>4. /\ r.route = old.route /\ r.project = old.project /\ r.number = old.number
      /\ r.kept = resets /\ r.drawn = old.drawn
      /\ r.state = old.state /\ r.reason = old.reason /\ r.problem = old.problem
  BY <1>1, <1>2 DEF Request
<1>5. Bound(r) /\ List(r) = List(old) /\ Pair(r) = Pair(old)
  BY <1>1, <1>4 DEF Bound, List, Pair
<1>6. Known(r)
  <2>1. resets <= resets
    BY Counters DEF IInv
  <2>. QED  BY <1>1, <1>4, <1>5, <2>1 DEF Known
<1>7. Known(r)' /\ r.kept <= resets'
  BY <1>2, <1>6, Staying DEF Known
<1>8. \A j \in Job : j.at = "remembered" /\ j.req = r /\ j.ask = caller[c].ask => Fits(j)
  BY <1>1, <1>4, <1>5 DEF Fits
<1>9. "remembered" \in Steps /\ r \in Request
  BY <1>2 DEF Steps
<1>10. \E j : Passes(c, j) /\ j.at = "remembered" /\ j.req = r
  BY <1>3, <1>7, <1>8, <1>9, Proceeding
<1>. QED  BY <1>4, <1>5, <1>10 DEF Numbered

\* A state is to be pinned or saved.
LEMMA SetsState ==
  ASSUME IInv, Grows, NEW c \in Callers, NEW route \in Routes, NEW state \in States,
         NEW persist \in BOOLEAN, SetState(c, route, state, persist)
  PROVE  Moves(c)
<1>. DEFINE q == [NoRequest EXCEPT !.route = route, !.state = state, !.project = control]
            at == IF persist THEN "saving" ELSE "pinning"
<1>1. resets \in Nat /\ clears \in Nat /\ control \in Project
  BY Counters DEF IInv, TypeOK
<1>2. /\ q \in Request /\ q.route = route /\ q.project = control /\ q.state = state
      /\ q.number = 0 /\ q.drawn = 0 /\ q.kept = 0 /\ q.reason = "none"
  BY <1>1 DEF NoRequest, Request
<1>3. Begin(c, [Idle EXCEPT !.at = at, !.req = q])
  BY DEF SetState
<1>4. at \in {"saving", "pinning"}
  OBVIOUS
<1>. HIDE DEF q, at
<1>5. PICK j : /\ j \in Job /\ j.at = at /\ j.req = q /\ j.clears = 0
              /\ j = [Idle EXCEPT !.at = at, !.req = q]
  BY <1>2, <1>4 DEF Idle, Job, Steps, Pairs
<1>6. Fits(j)
  BY <1>1, <1>2, <1>4, <1>5 DEF Fits, Bound, SetState
<1>7. Begin(c, j)
  BY <1>3, <1>5
<1>8. 0 <= resets /\ 0 <= clears
  BY <1>1
<1>. QED  BY <1>2, <1>4, <1>5, <1>6, <1>7, <1>8, Started

\* A pin is to be removed.
LEMMA RemovesPin ==
  ASSUME IInv, Grows, NEW c \in Callers, NEW route \in Routes, RemovePin(c, route)
  PROVE  Moves(c)
<1>. DEFINE q == [NoRequest EXCEPT !.route = route]
<1>1. resets \in Nat /\ clears \in Nat
  BY Counters DEF IInv
<1>2. /\ q \in Request /\ q.route = route
      /\ q.number = 0 /\ q.drawn = 0 /\ q.kept = 0 /\ q.reason = "none"
  BY DEF NoRequest, Request
<1>3. Begin(c, [Idle EXCEPT !.at = "unpinning", !.req = q])
  BY DEF RemovePin
<1>. HIDE DEF q
<1>4. PICK j : /\ j \in Job /\ j.at = "unpinning" /\ j.req = q /\ j.clears = 0
              /\ j = [Idle EXCEPT !.at = "unpinning", !.req = q]
  BY <1>2 DEF Idle, Job, Steps, Pairs
<1>5. Fits(j)
  BY <1>2, <1>4 DEF Fits
<1>6. Begin(c, j)
  BY <1>3, <1>4
<1>7. 0 <= resets /\ 0 <= clears
  BY <1>1
<1>. QED  BY <1>2, <1>4, <1>5, <1>6, <1>7, Started

\* A scenario is to be applied.
LEMMA AppliesScenario ==
  ASSUME IInv, Grows, NEW c \in Callers, NEW scene \in Scenes, ApplyScenario(c, scene)
  PROVE  Moves(c)
<1>. DEFINE q == [NoRequest EXCEPT !.project = control]
<1>1. resets \in Nat /\ clears \in Nat /\ control \in Project
  BY Counters DEF IInv, TypeOK
<1>2. /\ q \in Request /\ q.project = control
      /\ q.number = 0 /\ q.drawn = 0 /\ q.kept = 0 /\ q.reason = "none"
  BY <1>1 DEF NoRequest, Request
<1>3. Begin(c, [Idle EXCEPT !.at = "applying", !.ask = scene, !.req = q]) /\ Has(control, scene)
  BY DEF ApplyScenario
<1>. HIDE DEF q
<1>4. PICK j : /\ j \in Job /\ j.at = "applying" /\ j.req = q /\ j.clears = 0 /\ j.ask = scene
              /\ j = [Idle EXCEPT !.at = "applying", !.ask = scene, !.req = q]
  BY <1>2 DEF Idle, Job, Steps, Pairs
<1>5. Fits(j)
  BY <1>1, <1>2, <1>3, <1>4 DEF Fits
<1>6. Begin(c, j)
  BY <1>3, <1>4
<1>7. 0 <= resets /\ 0 <= clears
  BY <1>1
<1>. QED  BY <1>2, <1>4, <1>5, <1>6, <1>7, Started

\* A reset, and a view of the requests.
LEMMA ResetsOrLists ==
  ASSUME IInv, Grows, NEW c \in Callers, Reset(c) \/ RequestsView(c)
  PROVE  Moves(c)
<1>1. resets \in Nat /\ clears \in Nat /\ total \in Nat
  BY Counters DEF IInv
<1>2. /\ NoRequest.number = 0 /\ NoRequest.drawn = 0 /\ NoRequest.kept = 0
      /\ NoRequest.reason = "none" /\ NoRequest \in Request
  BY IdleJob DEF NoRequest
<1>3. 0 <= resets /\ 0 <= clears /\ clears <= clears /\ total <= total
  BY <1>1
<1>4. CASE Reset(c)
  <2>1. PICK j : /\ j \in Job /\ j.at = "clearing" /\ j.req = NoRequest /\ j.clears = 0
                /\ j = [Idle EXCEPT !.at = "clearing"]
    BY <1>2 DEF Idle, Job, Steps, Pairs
  <2>2. Fits(j)
    BY <2>1 DEF Fits
  <2>3. Begin(c, j)
    BY <1>4, <2>1 DEF Reset
  <2>. QED  BY <1>2, <1>3, <2>1, <2>2, <2>3, Started
<1>5. CASE RequestsView(c)
  <2>1. PICK j : /\ j \in Job /\ j.at = "listing" /\ j.req = NoRequest
                /\ j.clears = clears /\ j.total = total
                /\ j = [Idle EXCEPT !.at = "listing", !.total = total, !.clears = clears]
    BY <1>1, <1>2 DEF Idle, Job, Steps, Pairs
  <2>2. Fits(j)
    BY <2>1 DEF Fits
  <2>3. Begin(c, j)
    BY <1>5, <2>1 DEF RequestsView
  <2>. QED  BY <1>2, <1>3, <2>1, <2>2, <2>3, Started
<1>. QED  BY <1>4, <1>5

\* A view of the coverage begins,
LEMMA Covers ==
  ASSUME IInv, Grows, NEW c \in Callers, CoverageView(c)
  PROVE  Moves(c)
<1>. DEFINE q == [NoRequest EXCEPT !.kept = resets]
            states == {p \in Pairs : p[1] \in DOMAIN control /\ p[2] \in Offered(control[p[1]])}
<1>1. resets \in Nat /\ clears \in Nat /\ served \subseteq Pairs
  BY Counters DEF IInv, TypeOK
<1>2. /\ q \in Request /\ q.kept = resets
      /\ q.number = 0 /\ q.drawn = 0 /\ q.reason = "none"
  BY <1>1 DEF NoRequest, Request
<1>3. Begin(c, [Idle EXCEPT !.at = "covering", !.todo = states, !.was = served \cap states,
                            !.req = q])
  BY DEF CoverageView
<1>4. states \subseteq Pairs
  OBVIOUS
<1>. HIDE DEF q, states
<1>5. PICK j : /\ j \in Job /\ j.at = "covering" /\ j.req = q /\ j.clears = 0
              /\ j.todo = states /\ j.was = served \cap states /\ j.found = {}
              /\ j = [Idle EXCEPT !.at = "covering", !.todo = states,
                                  !.was = served \cap states, !.req = q]
  BY <1>2, <1>4 DEF Idle, Job, Steps
<1>6. Fits(j)
  BY <1>5 DEF Fits
<1>7. Begin(c, j)
  BY <1>3, <1>5
<1>8. 0 <= resets /\ 0 <= clears /\ resets <= resets
  BY <1>1
<1>. QED  BY <1>2, <1>5, <1>6, <1>7, <1>8, Started

\* and looks for one state.
LEMMA Looks ==
  ASSUME IInv, Grows, NEW c \in Callers, NEW p \in Pairs, Look(c, p)
  PROVE  Moves(c)
<1>. DEFINE old == caller[c]
            found == IF p \in served THEN old.found \cup {p} ELSE old.found
            k == [old EXCEPT !.todo = @ \ {p}, !.found = found]
<1>1. /\ old \in Job /\ Views(old) /\ Known(old.req) /\ Fits(old) /\ old.at = "covering"
  BY DEF IInv, Carried, TypeOK, Look
<1>2. found \subseteq Pairs
  BY <1>1 DEF Job
<1>3. caller' = [caller EXCEPT ![c] = k]
  BY <1>1 DEF Look, IInv, TypeOK
<1>4. PICK j : /\ j \in Job /\ j.at = "covering" /\ j.req = old.req /\ j.clears = old.clears
              /\ j.todo = old.todo \ {p} /\ j.was = old.was /\ j.found = found
              /\ j = k
  <2>. HIDE DEF found
  <2>. QED  BY <1>1, <1>2 DEF Job
<1>5. Views(j)
  BY <1>1, <1>4 DEF Views
<1>6. Fits(j)
  BY <1>1, <1>4 DEF Fits
<1>7. j.req \in Request /\ Known(j.req)
  BY <1>1, <1>4 DEF Job
<1>8. Views(j)' /\ Known(j.req)'
  BY <1>4, <1>5, <1>7, Staying
<1>9. caller' = [caller EXCEPT ![c] = j]
  BY <1>3, <1>4
<1>. HIDE DEF k, found
<1>. QED  BY <1>4, <1>6, <1>8, <1>9 DEF Moves, Passes, Numbered

\* What is saved is unpinned next.
LEMMA SavesState ==
  ASSUME IInv, Grows, NEW c \in Callers, Save(c)
  PROVE  Moves(c)
<1>. DEFINE old == caller[c]
<1>1. /\ old \in Job /\ Views(old) /\ Known(old.req) /\ Fits(old) /\ old.at = "saving"
  BY DEF IInv, Carried, TypeOK, Save
<1>2. PICK j : /\ j \in Job /\ j.at = "unpinning" /\ j.req = old.req /\ j.clears = old.clears
              /\ j = [old EXCEPT !.at = "unpinning"]
  BY <1>1 DEF Job, Steps
<1>3. caller' = [caller EXCEPT ![c] = j]
  BY <1>2 DEF Save, Goto
<1>4. Views(j)
  BY <1>1, <1>2 DEF Views
<1>5. Fits(j)
  BY <1>1, <1>2 DEF Fits
<1>6. j.req \in Request /\ Known(j.req)
  BY <1>1, <1>2 DEF Job
<1>7. Views(j)' /\ Known(j.req)'
  BY <1>2, <1>4, <1>6, Staying
<1>. QED  BY <1>2, <1>3, <1>5, <1>7 DEF Moves, Passes, Numbered

\* Every call of the control API moves on, or is over.
LEMMA Commands ==
  ASSUME IInv, Grows, NEW c \in Callers, Command(c)
  PROVE  Moves(c)
BY SetsState, RemovesPin, AppliesScenario, ResetsOrLists, Covers, Looks, SavesState, Returning
   DEF Command, Pin, SaveFails, Unpin, Apply, Clear, Recent, Covered

\* So does every request.
LEMMA Goes ==
  ASSUME IInv, Grows, NEW c \in Callers, Serve(c) \/ Command(c)
  PROVE  \E j : Passes(c, j)
<1>1. CASE Command(c)
  BY <1>1, Commands DEF Moves
<1>2. CASE Serve(c)
  BY <1>2, Arrives, Strays, TakesNumber, Picks, TurnsAway, Remembers, Returning
     DEF Serve, Publish, Moves
<1>. QED  BY <1>1, <1>2

\* What all callers carry fits and is known.
LEMMA CarriedStep ==
  ASSUME IInv, [Next]_vars
  PROVE  Carried' /\ caller' \in [Callers -> Job]
<1>1. Grows /\ caller \in [Callers -> Job]
  BY Growing DEF IInv, TypeOK
<1>2. ASSUME NEW d \in Callers, caller'[d] = caller[d]
      PROVE  (Fits(caller[d]) /\ Known(caller[d].req) /\ Views(caller[d]))'
  <2>1. PICK j \in Job : j = caller[d] /\ Fits(j) /\ Known(j.req) /\ Views(j) /\ j.req \in Request
    BY <1>1 DEF IInv, Carried, Job
  <2>2. Fits(j) /\ Known(j.req)' /\ Views(j)'
    BY <1>1, <2>1, Staying
  <2>3. caller'[d] = j
    BY <1>2, <2>1
  <2>. QED  BY <2>2, <2>3
<1>3. ASSUME NEW c \in Callers, Serve(c) \/ Command(c)
      PROVE  Carried' /\ caller' \in [Callers -> Job]
  <2>1. PICK j : Passes(c, j)
    BY <1>1, <1>3, Goes
  <2>2. /\ caller' \in [Callers -> Job] /\ caller'[c] = j
        /\ \A d \in Callers \ {c} : caller'[d] = caller[d]
    BY <1>1, <2>1 DEF Passes
  <2>3. (Fits(caller[c]) /\ Known(caller[c].req) /\ Views(caller[c]))'
    BY <2>1, <2>2 DEF Passes
  <2>. QED  BY <1>2, <2>2, <2>3 DEF Carried
<1>4. CASE UNCHANGED caller
  BY <1>1, <1>2, <1>4 DEF Carried
<1>. QED  BY <1>3, <1>4 DEF Next, Edit, SwapLive, SwapControl, vars

-----------------------------------------------------------------------------
(* The list.                                                                *)

\* What the list holds after a step: what it held, in order, but for the oldest, and then
\* the request that is published.
Shifted(by) ==
  \A i \in 1 .. Len(listed') - 1 : i + by \in 1 .. Len(listed) /\ listed'[i] = listed[i + by]

LEMMA Publishing ==
  ASSUME IInv, NEW c \in Callers, Publish(c)
  PROVE  /\ listed' \in Seq(Request) /\ Len(listed') \in 1 .. Size
         /\ Len(listed') = AtMost(total + 1, Size)
         /\ listed'[Len(listed')] = caller[c].req
         /\ \E by \in {0, 1} : Shifted(by)
         /\ IF Len(listed) < Size
            THEN Len(listed') = Len(listed) + 1 /\ Shifted(0)
            ELSE Len(listed') = Len(listed) /\ Shifted(1) /\ Len(listed) # 0
<1>. DEFINE q == caller[c].req
<1>1. /\ listed \in Seq(Request) /\ total \in Nat /\ Size \in Nat \ {0}
      /\ Len(listed) = AtMost(total, Size) /\ q \in Request
  BY Counters, ServeRequest DEF IInv, TypeOK, History
<1>2. CASE Len(listed) < Size
  <2>1. listed' = Append(listed, q)
    BY <1>2 DEF Publish
  <2>2. /\ listed' \in Seq(Request) /\ Len(listed') = Len(listed) + 1
        /\ listed'[Len(listed')] = q /\ \A i \in 1 .. Len(listed) : listed'[i] = listed[i]
    BY <1>1, <2>1
  <2>3. Len(listed') = AtMost(total + 1, Size)
    BY <1>1, <1>2, <2>2 DEF AtMost
  <2>4. Shifted(0)
    BY <1>1, <2>2 DEF Shifted
  <2>. QED  BY <1>1, <1>2, <2>2, <2>3, <2>4
<1>3. CASE ~(Len(listed) < Size)
  <2>1. listed' = Append(Tail(listed), q) /\ Len(listed) = Size
    BY <1>1, <1>3 DEF Publish, AtMost
  <2>2. /\ Tail(listed) \in Seq(Request) /\ Len(Tail(listed)) = Len(listed) - 1
        /\ \A i \in 1 .. Len(listed) - 1 : Tail(listed)[i] = listed[i + 1]
    BY <1>1, <2>1
  <2>3. /\ listed' \in Seq(Request) /\ Len(listed') = Len(listed)
        /\ listed'[Len(listed')] = q
        /\ \A i \in 1 .. Len(listed) - 1 : listed'[i] = listed[i + 1]
    BY <1>1, <2>1, <2>2
  <2>4. Len(listed') = AtMost(total + 1, Size)
    BY <1>1, <2>1, <2>3 DEF AtMost
  <2>5. Shifted(1)
    BY <1>1, <2>3 DEF Shifted
  <2>. QED  BY <1>1, <1>3, <2>1, <2>3, <2>4, <2>5
<1>. QED  BY <1>2, <1>3

LEMMA HistoryStep ==
  ASSUME IInv, [Next]_vars
  PROVE  History' /\ listed' \in Seq(Request) /\ Len(listed') <= Size
<1>1. /\ Grows /\ listed \in Seq(Request) /\ total \in Nat /\ Size \in Nat \ {0}
      /\ Len(listed) <= Size
  BY Counters, Growing DEF IInv, TypeOK
<1>2. \A q \in Request : Known(q) => Known(q)'
  BY <1>1, Staying
<1>3. ASSUME NEW i \in 1 .. Len(listed)
      PROVE  \E q \in Request : /\ q = listed[i] /\ Known(q)'
                                /\ q.problem = "none" => Pair(q) \in Pairs
  <2>1. PICK q \in Request : q = listed[i]
    BY <1>1
  <2>. QED  BY <1>2, <2>1 DEF IInv, History
<1>4. CASE UNCHANGED <<listed, total>>
  <2>1. ASSUME NEW i \in 1 .. Len(listed')
        PROVE  (Known(listed[i]) /\ (listed[i].problem = "none" => Pair(listed[i]) \in Pairs))'
    <3>1. PICK q \in Request : /\ q = listed[i] /\ Known(q)'
                               /\ q.problem = "none" => Pair(q) \in Pairs
      BY <1>3, <1>4
    <3>2. listed'[i] = q
      BY <1>4, <3>1
    <3>. QED  BY <3>1, <3>2
  <2>. QED  BY <1>1, <1>4, <2>1 DEF IInv, History
<1>5. ASSUME NEW c \in Callers, Clear(c)
      PROVE  History' /\ listed' \in Seq(Request) /\ Len(listed') <= Size
  <2>1. listed' = <<>> /\ total' = 0
    BY <1>5 DEF Clear
  <2>. QED  BY <1>1, <2>1 DEF History, AtMost
<1>6. ASSUME NEW c \in Callers, Publish(c)
      PROVE  History' /\ listed' \in Seq(Request) /\ Len(listed') <= Size
  <2>1. PICK by \in {0, 1} : Shifted(by)
    BY <1>6, Publishing
  <2>2. PICK q \in Request : /\ q = caller[c].req /\ Known(q)
                             /\ q.problem = "none" => Pair(q) \in Pairs
    BY <1>6, ServeRequest DEF IInv, Carried, Fits, Publish
  <2>3. /\ listed' \in Seq(Request) /\ Len(listed') \in 1 .. Size /\ total' = total + 1
        /\ Len(listed') = AtMost(total + 1, Size) /\ listed'[Len(listed')] = q
    BY <1>6, <2>2, Publishing DEF Publish
  <2>4. ASSUME NEW i \in 1 .. Len(listed')
        PROVE  (Known(listed[i]) /\ (listed[i].problem = "none" => Pair(listed[i]) \in Pairs))'
    <3>1. CASE i = Len(listed')
      BY <1>2, <2>2, <2>3, <3>1
    <3>2. CASE i # Len(listed')
      <4>1. i \in 1 .. Len(listed') - 1
        BY <2>3, <3>2
      <4>2. i + by \in 1 .. Len(listed) /\ listed'[i] = listed[i + by]
        BY <2>1, <4>1 DEF Shifted
      <4>3. PICK p \in Request : /\ p = listed[i + by] /\ Known(p)'
                                 /\ p.problem = "none" => Pair(p) \in Pairs
        BY <1>3, <4>2
      <4>4. listed'[i] = p
        BY <4>2, <4>3
      <4>. QED  BY <4>3, <4>4
    <3>. QED  BY <3>1, <3>2
  <2>. QED  BY <1>1, <2>3, <2>4 DEF History
<1>7. ASSUME NEW c \in Callers, Serve(c), ~Publish(c)
      PROVE  UNCHANGED <<listed, total>>
  BY <1>7 DEF Serve, Arrive, Stray, TakeNumber, Pick, TurnAway, Remember, events
<1>8. ASSUME NEW c \in Callers, Command(c), ~Clear(c)
      PROVE  UNCHANGED <<listed, total>>
  BY <1>8 DEF Command, SetState, Pin, Save, SaveFails, RemovePin, Unpin, ApplyScenario, Apply,
     Reset, RequestsView, Recent, CoverageView, Look, Covered, events
<1>9. (\E c \in Callers : Serve(c) \/ Command(c)) \/ UNCHANGED <<listed, total>>
  BY DEF Next, Edit, SwapLive, SwapControl, events, vars
<1>. QED  BY <1>4, <1>5, <1>6, <1>7, <1>8, <1>9

-----------------------------------------------------------------------------
(* Numbers.                                                                 *)

\* One caller's record changes, the list does not: it is enough to look at the one.
LEMMA OneNumber ==
  ASSUME IInv, NEW c \in Callers, NEW j, Passes(c, j), listed' = listed,
         \A d \in Callers \ {c} : Apart(j.req, caller[d].req),
         \A i \in 1 .. Len(listed) : Apart(j.req, listed[i])
  PROVE  Numbers'
<1>1. /\ caller'[c] = j
      /\ \A d \in Callers \ {c} : caller'[d] = caller[d]
  BY DEF Passes, IInv, TypeOK
<1>2. \A d, e \in Callers : d # e => Apart(caller'[d].req, caller'[e].req)
  <2>1. SUFFICES ASSUME NEW d \in Callers, NEW e \in Callers, d # e
                 PROVE  Apart(caller'[d].req, caller'[e].req)
    OBVIOUS
  <2>2. CASE d = c
    BY <1>1, <2>1, <2>2
  <2>3. CASE e = c
    BY <1>1, <2>1, <2>3 DEF Apart
  <2>4. CASE d # c /\ e # c
    BY <1>1, <2>1, <2>4 DEF IInv, Numbers
  <2>. QED  BY <2>2, <2>3, <2>4
<1>3. \A d \in Callers, i \in 1 .. Len(listed) : Apart(caller'[d].req, listed[i])
  BY <1>1 DEF IInv, Numbers
<1>4. \A i, k \in 1 .. Len(listed) : i # k => Apart(listed[i], listed[k])
  BY DEF IInv, Numbers
<1>. QED  BY <1>2, <1>3, <1>4 DEF Numbers, Apart

LEMMA NumbersStep ==
  ASSUME IInv, [Next]_vars
  PROVE  Numbers'
<1>1. Grows /\ caller \in [Callers -> Job]
  BY Growing DEF IInv, TypeOK
<1>2. ASSUME NEW c \in Callers, NEW j, Passes(c, j), Numbered(c, j), listed' = listed
      PROVE  Numbers'
  <2>1. /\ \A d \in Callers \ {c} : Apart(caller[c].req, caller[d].req)
        /\ \A i \in 1 .. Len(listed) : Apart(caller[c].req, listed[i])
    BY DEF IInv, Numbers
  <2>2. /\ \A d \in Callers \ {c} : Apart(j.req, caller[d].req)
        /\ \A i \in 1 .. Len(listed) : Apart(j.req, listed[i])
    BY <1>2, <2>1 DEF Numbered, Apart
  <2>. QED  BY <1>2, <2>2, OneNumber
<1>3. ASSUME NEW c \in Callers, TakeNumber(c)
      PROVE  Numbers'
  <2>1. PICK j : /\ Passes(c, j) /\ j.req.number = calls[j.req.route] + 1
                /\ j.req.drawn = resets /\ j.req.route \in Routes
    BY <1>1, <1>3, TakesNumber
  <2>2. ASSUME NEW q \in Request, Known(q)
        PROVE  Apart(j.req, q)
    <3>1. calls \in [Routes -> Nat] /\ q.number \in Nat
      BY DEF IInv, TypeOK, Request
    <3>. QED  BY <2>1, <2>2, <3>1 DEF Apart, Known
  <2>3. \A d \in Callers : Apart(j.req, caller[d].req)
    BY <1>1, <2>2 DEF IInv, Carried, Job
  <2>4. \A i \in 1 .. Len(listed) : Apart(j.req, listed[i])
    <3>1. \A i \in 1 .. Len(listed) : listed[i] \in Request
      BY DEF IInv, TypeOK
    <3>. QED  BY <2>2, <3>1 DEF IInv, History
  <2>5. listed' = listed
    BY <1>3 DEF TakeNumber, events
  <2>. QED  BY <2>1, <2>3, <2>4, <2>5, OneNumber
<1>4. ASSUME NEW c \in Callers, Publish(c) \/ Clear(c)
      PROVE  /\ \A d \in Callers \ {c} : caller'[d] = caller[d]
             /\ caller'[c].req.number = 0
             /\ \A d, e \in Callers : d # e => Apart(caller'[d].req, caller'[e].req)
  <2>1. caller' = [caller EXCEPT ![c] = Idle]
    BY <1>4 DEF Publish, Clear, Return
  <2>2. /\ \A d \in Callers \ {c} : caller'[d] = caller[d]
        /\ caller'[c].req.number = 0
    BY <1>1, <2>1 DEF Idle, NoRequest
  <2>3. \A d, e \in Callers \ {c} : d # e => Apart(caller'[d].req, caller'[e].req)
    BY <2>2 DEF IInv, Numbers
  <2>. QED  BY <2>2, <2>3 DEF Apart
<1>5. ASSUME NEW c \in Callers, Clear(c)
      PROVE  Numbers'
  <2>1. listed' = <<>>
    BY <1>5 DEF Clear
  <2>. QED  BY <1>4, <1>5, <2>1 DEF Numbers, Apart
<1>6. ASSUME NEW c \in Callers, Publish(c)
      PROVE  Numbers'
  <2>1. PICK by \in {0, 1} : Shifted(by)
    BY <1>6, Publishing
  <2>2. /\ Len(listed') \in Nat \ {0} /\ listed'[Len(listed')] = caller[c].req
    BY <1>6, Publishing DEF IInv, TypeOK
  <2>3. ASSUME NEW d \in Callers, NEW i \in 1 .. Len(listed')
        PROVE  Apart(caller'[d].req, listed'[i])
    <3>1. CASE d = c
      BY <1>4, <1>6, <3>1 DEF Apart
    <3>2. CASE d # c /\ i = Len(listed')
      BY <1>4, <1>6, <2>2, <3>2 DEF IInv, Numbers
    <3>3. CASE d # c /\ i # Len(listed')
      <4>1. i + by \in 1 .. Len(listed) /\ listed'[i] = listed[i + by]
        BY <2>1, <2>2, <3>3 DEF Shifted
      <4>. QED  BY <1>4, <1>6, <3>3, <4>1 DEF IInv, Numbers
    <3>. QED  BY <3>1, <3>2, <3>3
  <2>4. ASSUME NEW i \in 1 .. Len(listed'), NEW k \in 1 .. Len(listed'), i # k
        PROVE  Apart(listed'[i], listed'[k])
    <3>1. CASE i # Len(listed') /\ k # Len(listed')
      <4>1. /\ i + by \in 1 .. Len(listed) /\ listed'[i] = listed[i + by]
            /\ k + by \in 1 .. Len(listed) /\ listed'[k] = listed[k + by]
            /\ i + by # k + by
        BY <2>1, <2>2, <2>4, <3>1 DEF Shifted
      <4>. QED  BY <4>1 DEF IInv, Numbers
    <3>2. ASSUME NEW m \in 1 .. Len(listed') - 1
          PROVE  Apart(listed'[m], caller[c].req) /\ Apart(caller[c].req, listed'[m])
      <4>1. m + by \in 1 .. Len(listed) /\ listed'[m] = listed[m + by]
        BY <2>1 DEF Shifted
      <4>2. Apart(caller[c].req, listed[m + by])
        BY <4>1 DEF IInv, Numbers
      <4>. QED  BY <4>1, <4>2 DEF Apart
    <3>3. CASE i = Len(listed') \/ k = Len(listed')
      BY <2>2, <2>4, <3>2, <3>3
    <3>. QED  BY <3>1, <3>3
  <2>. QED  BY <1>4, <1>6, <2>3, <2>4 DEF Numbers, Apart
<1>7. ASSUME NEW c \in Callers, Serve(c) \/ Command(c), ~TakeNumber(c), ~Publish(c), ~Clear(c)
      PROVE  \E j : Passes(c, j) /\ Numbered(c, j)
  <2>1. CASE Command(c)
    BY <1>1, <2>1, Commands DEF Moves
  <2>2. CASE Serve(c)
    BY <1>1, <1>7, <2>2, Arrives, Strays, Picks, TurnsAway, Remembers DEF Serve, Moves
  <2>. QED  BY <1>7, <2>1, <2>2
<1>8. ASSUME NEW c \in Callers, Serve(c) \/ Command(c), ~Publish(c), ~Clear(c)
      PROVE  listed' = listed
  BY <1>8 DEF Serve, Command, Arrive, Stray, TakeNumber, Pick, TurnAway,
     Remember, SetState, Pin, Save, SaveFails, RemovePin, Unpin, ApplyScenario, Apply, Reset,
     RequestsView, Recent, CoverageView, Look, Covered, events
<1>9. ASSUME NEW c \in Callers, Serve(c) \/ Command(c)
      PROVE  Numbers'
  BY <1>2, <1>3, <1>5, <1>6, <1>7, <1>8, <1>9
<1>10. CASE UNCHANGED <<caller, listed>>
  BY <1>10 DEF IInv, Numbers, Apart
<1>. QED  BY <1>9, <1>10 DEF Next, Edit, SwapLive, SwapControl, events, vars

-----------------------------------------------------------------------------
(* Coverage and the list.                                                   *)

\* The request has been answered with that state since the last reset.
Tells(q, x) == Answered(q) /\ q.kept = resets /\ x = Pair(q)

TellsListed(x) == \E i \in 1 .. Len(listed) : Tells(listed[i], x)

TellsSoon(x) == \E c \in Callers : caller[c].at = "remembered" /\ Tells(caller[c].req, x)

Story == \A x : x \in served <=> x \in forgotten \/ TellsListed(x) \/ TellsSoon(x)

\* CoverageTells, element by element.
LEMMA StoryTold == (CoverageTells <=> Story) /\ (CoverageTells' <=> Story')
<1>. DEFINE under == {caller[c].req : c \in {d \in Callers : caller[d].at = "remembered"}}
<1>1. \A x : x \in Told(ListedSet \cup under) <=> TellsListed(x) \/ TellsSoon(x)
  BY DEF Told, ListedSet, TellsListed, TellsSoon, Tells
<1>2. CoverageTells <=> Story
  <2>1. CoverageTells <=> served = forgotten \cup Told(ListedSet \cup under)
    BY DEF CoverageTells
  <2>. HIDE DEF under
  <2>. QED  BY <1>1, <2>1 DEF Story
<1>3. \A x : x \in Told(ListedSet \cup under)' <=> TellsListed(x)' \/ TellsSoon(x)'
  BY DEF Told, ListedSet, TellsListed, TellsSoon, Tells
<1>4. CoverageTells' <=> Story'
  <2>1. CoverageTells' <=> served' = forgotten' \cup Told(ListedSet \cup under)'
    BY DEF CoverageTells
  <2>. HIDE DEF under
  <2>. QED  BY <1>3, <2>1 DEF Story
<1>. QED  BY <1>2, <1>4

LEMMA CoverageStep ==
  ASSUME IInv, [Next]_vars
  PROVE  CoverageTells'
<1>1. Grows /\ caller \in [Callers -> Job] /\ Story /\ resets \in Nat
  BY Growing, StoryTold, Counters DEF IInv, TypeOK
<1>2. ASSUME NEW c \in Callers, NEW j, Passes(c, j)
      PROVE  caller'[c] = j /\ \A d \in Callers \ {c} : caller'[d] = caller[d]
  BY <1>1, <1>2 DEF Passes
<1>3. ASSUME UNCHANGED <<served, forgotten, listed, resets>>, NEW c \in Callers, NEW j,
             Passes(c, j), caller[c].at # "remembered",
             j.at # "remembered" \/ j.req.problem = "stray"
      PROVE  Story'
  <2>1. \A x : TellsListed(x)' <=> TellsListed(x)
    BY <1>3 DEF TellsListed, Tells
  <2>2. \A x : TellsSoon(x)' <=> TellsSoon(x)
    BY <1>2, <1>3 DEF TellsSoon, Tells, Answered
  <2>. QED  BY <1>1, <1>3, <2>1, <2>2 DEF Story
<1>4. ASSUME NEW c \in Callers, Remember(c)
      PROVE  Story'
  <2>1. PICK j : /\ Passes(c, j) /\ j.at = "remembered" /\ j.req.kept = resets
                /\ Pair(j.req) = Pair(caller[c].req) /\ j.req.problem = caller[c].req.problem
    BY <1>1, <1>4, Remembers
  <2>2. /\ UNCHANGED <<forgotten, listed, resets>> /\ caller[c].at # "remembered"
        /\ served' = IF Answered(caller[c].req) THEN served \cup {Pair(caller[c].req)}
                     ELSE served
    BY <1>4 DEF Remember, events, ghosts
  <2>5. /\ Answered(j.req) <=> Answered(caller[c].req)
        /\ \A x : Tells(j.req, x)' <=> (Answered(j.req) /\ x = Pair(j.req))
    BY <2>1, <2>2 DEF Answered, Tells
  <2>6. \A x : x \in served' <=> (x \in served \/ (Answered(j.req) /\ x = Pair(j.req)))
    BY <2>1, <2>2, <2>5
  <2>3. \A x : TellsListed(x)' <=> TellsListed(x)
    BY <2>2 DEF TellsListed, Tells
  <2>4. \A x : TellsSoon(x)' <=> (TellsSoon(x) \/ (Answered(j.req) /\ x = Pair(j.req)))
    <3>1. /\ caller'[c].at = "remembered" /\ caller'[c].req = j.req
          /\ \A d \in Callers \ {c} : caller'[d] = caller[d]
      BY <1>2, <2>1
    <3>. QED  BY <2>1, <2>2, <3>1 DEF TellsSoon, Tells
  <2>. QED  BY <1>1, <2>2, <2>3, <2>4, <2>6 DEF Story
<1>5. ASSUME NEW c \in Callers, Publish(c)
      PROVE  Story'
  <2>1. /\ caller' = [caller EXCEPT ![c] = Idle] /\ caller[c].at = "remembered"
        /\ UNCHANGED <<served, resets>>
    BY <1>5 DEF Publish, Return, memory
  <2>2. /\ caller'[c].at = "idle" /\ \A d \in Callers \ {c} : caller'[d] = caller[d]
    BY <1>1, <2>1 DEF Idle
  <2>3. \A x : TellsSoon(x) <=> TellsSoon(x)' \/ Tells(caller[c].req, x)
    BY <2>1, <2>2 DEF TellsSoon, Tells
  <2>4. /\ Len(listed') \in Nat \ {0} /\ listed'[Len(listed')] = caller[c].req
        /\ listed \in Seq(Request)
    BY <1>5, Publishing DEF IInv, TypeOK
  <2>5. CASE Len(listed) < Size
    <3>1. /\ Len(listed') = Len(listed) + 1 /\ forgotten' = forgotten
          /\ \A i \in 1 .. Len(listed) : listed'[i] = listed[i]
      BY <1>5, <2>4, <2>5, Publishing DEF Shifted, Publish
    <3>2. \A x : TellsListed(x)' <=> TellsListed(x) \/ Tells(caller[c].req, x)
      BY <2>1, <2>4, <3>1 DEF TellsListed, Tells
    <3>. QED  BY <1>1, <2>1, <2>3, <3>1, <3>2 DEF Story
  <2>6. CASE ~(Len(listed) < Size)
    <3>1. /\ Len(listed') = Len(listed) /\ Len(listed) # 0
          /\ \A i \in 1 .. Len(listed) - 1 : listed'[i] = listed[i + 1]
      BY <1>5, <2>4, <2>6, Publishing DEF Shifted
    <3>2. forgotten' = forgotten \cup Told({Head(listed)}) /\ Head(listed) = listed[1]
      BY <1>5, <2>4, <2>6, <3>1 DEF Publish
    <3>3. \A x : x \in forgotten' <=> x \in forgotten \/ Tells(listed[1], x)
      BY <3>2 DEF Told, Tells
    <3>4. \A i \in 1 .. Len(listed) : i = 1 \/ \E k \in 1 .. Len(listed') : listed'[k] = listed[i]
      <4>1. SUFFICES ASSUME NEW i \in 1 .. Len(listed), i # 1
                     PROVE  \E k \in 1 .. Len(listed') : listed'[k] = listed[i]
        OBVIOUS
      <4>4. Len(listed) \in Nat
        BY <2>4
      <4>2. /\ i - 1 \in 1 .. Len(listed) - 1 /\ (i - 1) + 1 = i
            /\ i - 1 \in 1 .. Len(listed)
        BY <4>1, <4>4
      <4>3. listed'[i - 1] = listed[i]
        BY <3>1, <4>2
      <4>. QED  BY <3>1, <4>2, <4>3
    <3>5. \A x : TellsListed(x)' \/ Tells(listed[1], x)
               <=> TellsListed(x) \/ Tells(caller[c].req, x)
      <4>1. \A x, q : Tells(q, x)' <=> Tells(q, x)
        BY <2>1 DEF Tells
      <4>2. /\ \A k \in 1 .. Len(listed') : listed'[k] = caller[c].req
                                            \/ \E i \in 1 .. Len(listed) : listed'[k] = listed[i]
            /\ 1 \in 1 .. Len(listed) /\ Len(listed') \in 1 .. Len(listed')
        BY <2>4, <3>1
      <4>. QED  BY <2>4, <3>4, <4>1, <4>2 DEF TellsListed
    <3>. QED  BY <1>1, <2>1, <2>3, <3>3, <3>5 DEF Story
  <2>. QED  BY <2>5, <2>6
<1>6. ASSUME NEW c \in Callers, Reset(c)
      PROVE  Story'
  <2>1. served' = {} /\ forgotten' = {} /\ resets' = resets + 1 /\ listed' = listed
    BY <1>6 DEF Reset, events
  <2>2. \A i \in 1 .. Len(listed) : listed[i].kept <= resets /\ listed[i].kept \in Nat
    <3>1. \A i \in 1 .. Len(listed) : listed[i] \in Request
      BY DEF IInv, TypeOK
    <3>. QED  BY <3>1 DEF IInv, History, Known, Request
  <2>3. \A x : ~ TellsListed(x)'
    BY <1>1, <2>1, <2>2 DEF TellsListed, Tells
  <2>4. Carried' /\ caller' \in [Callers -> Job]
    BY CarriedStep
  <2>5. PICK j : Passes(c, j) /\ j.at # "remembered"
    BY <1>1, <1>6, ResetsOrLists DEF Moves
  <2>6. \A d \in Callers : caller[d].req.kept <= resets /\ caller[d].req.kept \in Nat
    BY <1>1 DEF IInv, Carried, Known, Job, Request
  <2>7. \A x : ~ TellsSoon(x)'
    BY <1>1, <1>2, <2>1, <2>5, <2>6 DEF TellsSoon, Tells
  <2>. QED  BY <2>1, <2>3, <2>7 DEF Story
<1>7. ASSUME NEW c \in Callers, Clear(c)
      PROVE  Story'
  <2>1. /\ listed' = <<>> /\ forgotten' = forgotten \cup Told(ListedSet)
        /\ caller' = [caller EXCEPT ![c] = Idle] /\ caller[c].at # "remembered"
        /\ UNCHANGED <<served, resets>>
    BY <1>7 DEF Clear, Return, memory
  <2>2. /\ caller'[c].at = "idle" /\ \A d \in Callers \ {c} : caller'[d] = caller[d]
    BY <1>1, <2>1 DEF Idle
  <2>3. \A x : x \in forgotten' <=> x \in forgotten \/ TellsListed(x)
    BY <2>1 DEF Told, ListedSet, TellsListed, Tells
  <2>4. \A x : ~ TellsListed(x)'
    BY <2>1 DEF TellsListed
  <2>5. \A x : TellsSoon(x)' <=> TellsSoon(x)
    BY <2>1, <2>2 DEF TellsSoon, Tells
  <2>. QED  BY <1>1, <2>1, <2>3, <2>4, <2>5 DEF Story
<1>8. ASSUME NEW c \in Callers, Serve(c) \/ Command(c),
             ~Remember(c), ~Publish(c), ~Reset(c), ~Clear(c)
      PROVE  /\ UNCHANGED <<served, forgotten, listed, resets>>
             /\ caller[c].at # "remembered"
  BY <1>8 DEF Serve, Command, Arrive, Stray, TakeNumber, Pick, TurnAway, SetState, Pin, Save,
     SaveFails, RemovePin, Unpin, ApplyScenario, Apply, RequestsView, Recent, CoverageView,
     Look, Covered, Begin, memory, events, ghosts
<1>9. ASSUME NEW c \in Callers, Serve(c) \/ Command(c), ~Remember(c), ~Publish(c)
      PROVE  \E j : Passes(c, j) /\ (j.at # "remembered" \/ j.req.problem = "stray")
  <2>1. CASE Command(c)
    BY <1>1, <2>1, Commands DEF Moves
  <2>2. CASE TakeNumber(c)
    <3>1. PICK j : Passes(c, j) /\ j.at = "counted"
      BY <1>1, <2>2, TakesNumber
    <3>. QED  BY <3>1
  <2>3. CASE Stray(c)
    BY <1>1, <2>3, Strays
  <2>4. CASE Serve(c) /\ ~TakeNumber(c) /\ ~Stray(c)
    BY <1>1, <1>9, <2>4, Arrives, Picks, TurnsAway DEF Serve, Moves
  <2>. QED  BY <1>9, <2>1, <2>2, <2>3, <2>4
<1>10. ASSUME NEW c \in Callers, Serve(c) \/ Command(c)
       PROVE  Story'
  BY <1>3, <1>4, <1>5, <1>6, <1>7, <1>8, <1>9, <1>10
<1>11. ASSUME caller' = caller, listed' = listed, served' = served, forgotten' = forgotten,
              resets' = resets
       PROVE  Story'
  <2>1. \A x : (TellsListed(x)' <=> TellsListed(x)) /\ (TellsSoon(x)' <=> TellsSoon(x))
    BY <1>11 DEF TellsListed, TellsSoon, Tells
  <2>. QED  BY <1>1, <1>11, <2>1 DEF Story
<1>12. Story'
  <2>1. CASE \E c \in Callers : Serve(c) \/ Command(c)
    BY <1>10, <2>1
  <2>2. CASE ~ \E c \in Callers : Serve(c) \/ Command(c)
    <3>1. /\ caller' = caller /\ listed' = listed /\ served' = served
          /\ forgotten' = forgotten /\ resets' = resets
      BY <2>2 DEF Next, Edit, SwapLive, SwapControl, events, memory, ghosts, vars
    <3>. QED  BY <1>11, <3>1
  <2>. QED  BY <2>1, <2>2
<1>. QED  BY <1>12, StoryTold

-----------------------------------------------------------------------------
(* Pins.                                                                    *)

LEMMA VouchedStep ==
  ASSUME IInv, [Next]_vars
  PROVE  Vouched' /\ pins' \in [Routes -> States \cup {None}]
         /\ vouched' \in [Routes -> Route \cup {None}]
<1>. DEFINE Goal == Vouched' /\ pins' \in [Routes -> States \cup {None}]
                    /\ vouched' \in [Routes -> Route \cup {None}]
<1>1. /\ pins \in [Routes -> States \cup {None}] /\ Vouched
      /\ vouched \in [Routes -> Route \cup {None}]
  BY DEF IInv, TypeOK
<1>2. ASSUME NEW c \in Callers, Pin(c)
      PROVE  Goal
  <2>. DEFINE q == caller[c].req
  <2>1. /\ q.route \in Routes /\ q.project \in Project /\ q.route \in DOMAIN q.project
        /\ q.state \in Offered(q.project[q.route])
    BY <1>2 DEF IInv, Carried, Fits, Bound, Pin
  <2>2. q.project[q.route] \in Route /\ q.state \in States
    BY <2>1, Projects
  <2>3. /\ pins' = [pins EXCEPT ![q.route] = q.state]
        /\ vouched' = [vouched EXCEPT ![q.route] = q.project[q.route]]
    BY <1>2 DEF Pin
  <2>. HIDE DEF q
  <2>4. \A r \in Routes : r # q.route => pins'[r] = pins[r] /\ vouched'[r] = vouched[r]
    BY <1>1, <2>3
  <2>5. pins'[q.route] = q.state /\ vouched'[q.route] = q.project[q.route]
    BY <1>1, <2>1, <2>3
  <2>6. Vouched'
    BY <1>1, <2>1, <2>2, <2>4, <2>5 DEF Vouched, Offered
  <2>. QED  BY <1>1, <2>2, <2>3, <2>6
<1>3. ASSUME NEW c \in Callers, Unpin(c)
      PROVE  Goal
  <2>1. /\ pins' = [pins EXCEPT ![caller[c].req.route] = None] /\ vouched' = vouched
    BY <1>3 DEF Unpin, ghosts
  <2>. QED  BY <1>1, <2>1 DEF Vouched, Offered
<1>4. ASSUME NEW c \in Callers, Apply(c)
      PROVE  Goal
  <2>1. PICK scene \in Scenes : scene = caller[c].ask
    BY <1>4 DEF IInv, Carried, Fits, Apply
  <2>2. PICK project \in Project : project = caller[c].req.project /\ Has(project, scene)
    BY <1>4, <2>1 DEF IInv, Carried, Fits, Apply
  <2>3. /\ pins' = [r \in Routes |-> IF r \in DOMAIN scene THEN scene[r] ELSE None]
        /\ vouched' = [r \in Routes |-> IF r \in DOMAIN scene THEN project[r] ELSE vouched[r]]
    BY <1>4, <2>1, <2>2 DEF Apply
  <2>4. \A r \in DOMAIN scene : /\ project[r] \in Route /\ scene[r] \in Offered(project[r])
                                /\ scene[r] \in States
    BY <2>2, Projects, Scenery DEF Has
  <2>5. \A r \in Routes : pins'[r] # None => vouched'[r] \in Route /\ pins'[r] \in Offered(vouched'[r])
    BY <2>3, <2>4
  <2>6. Vouched'
    BY <2>5 DEF Vouched, Offered
  <2>. QED  BY <1>1, <2>3, <2>4, <2>6
<1>5. ASSUME NEW c \in Callers, Reset(c)
      PROVE  Goal
  <2>1. pins' = [r \in Routes |-> None] /\ vouched' = vouched
    BY <1>5 DEF Reset
  <2>. QED  BY <1>1, <2>1 DEF Vouched
<1>6. CASE pins' = pins /\ vouched' = vouched
  BY <1>1, <1>6 DEF Vouched, Offered
<1>7. ASSUME NEW c \in Callers, Serve(c) \/ Command(c), ~Pin(c), ~Unpin(c), ~Apply(c), ~Reset(c)
      PROVE  pins' = pins /\ vouched' = vouched
  BY <1>7 DEF Serve, Command, Arrive, Stray, TakeNumber, Pick, TurnAway, Remember, Publish,
     SetState, Save, SaveFails, RemovePin, ApplyScenario, Clear, RequestsView, Recent,
     CoverageView, Look, Covered, memory, ghosts
<1>8. Goal
  <2>1. CASE \E c \in Callers : Serve(c) \/ Command(c)
    BY <1>2, <1>3, <1>4, <1>5, <1>6, <1>7, <2>1
  <2>2. CASE ~ \E c \in Callers : Serve(c) \/ Command(c)
    <3>1. pins' = pins /\ vouched' = vouched
      BY <2>2 DEF Next, Edit, SwapLive, SwapControl, memory, ghosts, vars
    <3>. QED  BY <1>6, <3>1
  <2>. QED  BY <2>1, <2>2
<1>. QED  BY <1>8

-----------------------------------------------------------------------------
(* Every variable stays typed.                                              *)

LEMMA FolderStep ==
  ASSUME IInv, [Next]_vars
  PROVE  folder' \in Project /\ handler' \in Project /\ control' \in Project
         /\ edits' \in 0 .. MaxEdits
<1>1. /\ folder \in Project /\ handler \in Project /\ control \in Project
      /\ edits \in 0 .. MaxEdits /\ MaxEdits \in Nat
  BY ServeAssumption DEF IInv, TypeOK
<1>2. ASSUME NEW c \in Callers, Save(c)
      PROVE  folder' \in Project /\ UNCHANGED <<handler, control, edits>>
  <2>. DEFINE r == caller[c].req.route
              s == caller[c].req.state
  <2>1. /\ r \in DOMAIN folder /\ s \in Offered(folder[r])
        /\ folder' = [folder EXCEPT ![r].active = s]
    BY <1>2 DEF Save
  <2>2. PICK ids \in SUBSET Routes : folder \in [ids -> Route]
    BY <1>1 DEF Project
  <2>. HIDE DEF r, s
  <2>3. folder[r] \in Route /\ s \in States
    BY <1>1, <2>1, Projects
  <2>4. [folder[r] EXCEPT !.active = s] \in Route
    BY <2>1, <2>3 DEF Route, Offered
  <2>5. folder' \in [ids -> Route]
    BY <2>1, <2>2, <2>4
  <2>6. folder' \in Project
    BY <2>5 DEF Project
  <2>. QED  BY <1>2, <2>6 DEF Save
<1>3. ASSUME NEW project \in Saves, Edit(project)
      PROVE  folder' \in Project /\ UNCHANGED <<handler, control>> /\ edits' \in 0 .. MaxEdits
  BY <1>1, <1>3, ServeAssumption DEF Edit
<1>4. SwapLive \/ SwapControl
        => folder' \in Project /\ handler' \in Project /\ control' \in Project /\ edits' = edits
  BY <1>1 DEF SwapLive, SwapControl
<1>5. ASSUME NEW c \in Callers, Serve(c) \/ Command(c), ~Save(c)
      PROVE  UNCHANGED <<folder, handler, control, edits>>
  BY <1>5 DEF Serve, Command, Arrive, Stray, TakeNumber, Pick, TurnAway, Remember, Publish,
     SetState, Pin, SaveFails, RemovePin, Unpin, ApplyScenario, Apply, Reset, Clear,
     RequestsView, Recent, CoverageView, Look, Covered, projects
<1>6. UNCHANGED vars => UNCHANGED <<folder, handler, control, edits>>
  BY DEF vars, projects
<1>. QED  BY <1>1, <1>2, <1>3, <1>4, <1>5, <1>6 DEF Next

\* What the history tells are pairs of a route and a state.
LEMMA ToldPairs ==
  ASSUME IInv
  PROVE  /\ Told(ListedSet) \subseteq Pairs
         /\ Len(listed) # 0 => Told({Head(listed)}) \subseteq Pairs
<1>1. \A i \in 1 .. Len(listed) : listed[i].problem = "none" => Pair(listed[i]) \in Pairs
  BY DEF IInv, History
<1>2. listed \in Seq(Request)
  BY DEF IInv, TypeOK
<1>3. Len(listed) # 0 => Head(listed) = listed[1] /\ 1 \in 1 .. Len(listed)
  BY <1>2
<1>4. Told(ListedSet) \subseteq Pairs
  BY <1>1 DEF Told, ListedSet, Answered
<1>5. ASSUME Len(listed) # 0
      PROVE  Told({Head(listed)}) \subseteq Pairs
  BY <1>1, <1>3, <1>5 DEF Told, Answered
<1>. QED  BY <1>4, <1>5

LEMMA MemoryStep ==
  ASSUME IInv, [Next]_vars
  PROVE  /\ served' \in SUBSET Pairs /\ forgotten' \in SUBSET Pairs
         /\ applied' \in Scenes \cup {None}
         /\ begun' \in 0 .. MaxCalls /\ resets' \in 0 .. MaxResets
<1>1. /\ served \subseteq Pairs /\ forgotten \subseteq Pairs /\ applied \in Scenes \cup {None}
      /\ begun \in 0 .. MaxCalls /\ resets \in 0 .. MaxResets /\ MaxCalls \in Nat /\ MaxResets \in Nat
  BY ServeAssumption DEF IInv, TypeOK
<1>2. ASSUME NEW c \in Callers, Remember(c)
      PROVE  served' \subseteq Pairs
  <2>1. Answered(caller[c].req) => Pair(caller[c].req) \in Pairs
    BY <1>2 DEF IInv, Carried, Fits, Remember, Answered
  <2>. QED  BY <1>1, <1>2, <2>1 DEF Remember
<1>3. ASSUME NEW c \in Callers, Publish(c)
      PROVE  forgotten' \subseteq Pairs
  <2>1. Len(listed) < Size \/ Len(listed) # 0
    BY Counters DEF IInv
  <2>. QED  BY <1>1, <1>3, <2>1, ToldPairs DEF Publish
<1>4. ASSUME NEW c \in Callers, Clear(c)
      PROVE  forgotten' \subseteq Pairs
  BY <1>1, <1>4, ToldPairs DEF Clear
<1>5. ASSUME NEW c \in Callers, Apply(c)
      PROVE  applied' \in Scenes
  BY <1>5 DEF IInv, Carried, Fits, Apply
<1>6. served' \subseteq Pairs
  <2>1. ASSUME NEW c \in Callers, Serve(c), ~Remember(c)
        PROVE  served' = served
    BY <2>1 DEF Serve, Arrive, Stray, TakeNumber, Pick, TurnAway, Publish, memory
  <2>2. ASSUME NEW c \in Callers, Command(c)
        PROVE  served' \in {served, {}}
    BY <2>2 DEF Command, SetState, Pin, Save, SaveFails, RemovePin, Unpin, ApplyScenario, Apply,
       Reset, Clear, RequestsView, Recent, CoverageView, Look, Covered, memory
  <2>3. (\E c \in Callers : Serve(c) \/ Command(c)) \/ served' = served
    BY DEF Next, Edit, SwapLive, SwapControl, memory, vars
  <2>. QED  BY <1>1, <1>2, <2>1, <2>2, <2>3
<1>7. forgotten' \subseteq Pairs
  <2>1. ASSUME NEW c \in Callers, Serve(c), ~Publish(c)
        PROVE  forgotten' = forgotten
    BY <2>1 DEF Serve, Arrive, Stray, TakeNumber, Pick, TurnAway, Remember, ghosts
  <2>2. ASSUME NEW c \in Callers, Command(c), ~Clear(c)
        PROVE  forgotten' \in {forgotten, {}}
    BY <2>2 DEF Command, SetState, Pin, Save, SaveFails, RemovePin, Unpin, ApplyScenario, Apply,
       Reset, RequestsView, Recent, CoverageView, Look, Covered, ghosts
  <2>3. (\E c \in Callers : Serve(c) \/ Command(c)) \/ forgotten' = forgotten
    BY DEF Next, Edit, SwapLive, SwapControl, ghosts, vars
  <2>. QED  BY <1>1, <1>3, <1>4, <2>1, <2>2, <2>3
<1>8. applied' \in Scenes \cup {None}
  <2>1. ASSUME NEW c \in Callers, Serve(c)
        PROVE  applied' = applied
    BY <2>1 DEF Serve, Arrive, Stray, TakeNumber, Pick, TurnAway, Remember, Publish, memory
  <2>2. ASSUME NEW c \in Callers, Command(c), ~Apply(c)
        PROVE  applied' \in {applied, None}
    BY <2>2 DEF Command, SetState, Pin, Save, SaveFails, RemovePin, Unpin, ApplyScenario,
       Reset, Clear, RequestsView, Recent, CoverageView, Look, Covered, memory
  <2>3. (\E c \in Callers : Serve(c) \/ Command(c)) \/ applied' = applied
    BY DEF Next, Edit, SwapLive, SwapControl, memory, vars
  <2>. QED  BY <1>1, <1>5, <2>1, <2>2, <2>3
<1>9. begun' \in 0 .. MaxCalls
  <2>. DEFINE One == begun' = begun \/ (begun < MaxCalls /\ begun' = begun + 1)
  <2>2. ASSUME NEW c \in Callers, NEW j, Begin(c, j)
        PROVE  One
    BY <2>2 DEF Begin
  <2>3. ASSUME NEW c \in Callers, Serve(c)
        PROVE  One
    <3>1. CASE Stray(c) \/ \E route \in Routes, ask \in States \cup Scenes \cup {None} :
                             Arrive(c, route, ask)
      <4>. HIDE DEF One
      <4>. QED  BY <2>2, <3>1 DEF Stray, Arrive
    <3>2. CASE TakeNumber(c) \/ Pick(c) \/ TurnAway(c) \/ Remember(c) \/ Publish(c)
      BY <3>2 DEF TakeNumber, Pick, TurnAway, Remember, Publish
    <3>. QED  BY <2>3, <3>1, <3>2 DEF Serve
  <2>4. ASSUME NEW c \in Callers, Command(c)
        PROVE  One
    <3>1. CASE Pin(c) \/ Save(c) \/ SaveFails(c) \/ Unpin(c) \/ Apply(c) \/ Clear(c) \/ Recent(c)
               \/ Covered(c) \/ \E p \in Pairs : Look(c, p)
      BY <3>1 DEF Pin, Save, SaveFails, Unpin, Apply, Clear, Recent, Covered, Look
    <3>2. ASSUME NEW route \in Routes, NEW state \in States, NEW persist \in BOOLEAN,
                 SetState(c, route, state, persist)
          PROVE  One
      <4>. HIDE DEF One
      <4>. QED  BY <2>2, <3>2 DEF SetState
    <3>3. CASE (\E route \in Routes : RemovePin(c, route))
               \/ (\E scene \in Scenes : ApplyScenario(c, scene))
      <4>. HIDE DEF One
      <4>. QED  BY <2>2, <3>3 DEF RemovePin, ApplyScenario
    <3>4. CASE Reset(c) \/ RequestsView(c) \/ CoverageView(c)
      <4>. HIDE DEF One
      <4>. QED  BY <2>2, <3>4 DEF Reset, RequestsView, CoverageView
    <3>. QED  BY <2>4, <3>1, <3>2, <3>3, <3>4 DEF Command
  <2>1. One
    BY <2>3, <2>4 DEF Next, Edit, SwapLive, SwapControl, vars
  <2>. QED  BY <1>1, <2>1
<1>10. resets' \in 0 .. MaxResets
  <2>2. ASSUME NEW c \in Callers, Serve(c)
        PROVE  resets' = resets
    BY <2>2 DEF Serve, Arrive, Stray, TakeNumber, Pick, TurnAway, Remember, Publish
  <2>3. ASSUME NEW c \in Callers, Command(c)
        PROVE  resets' = resets \/ (resets < MaxResets /\ resets' = resets + 1)
    BY <2>3 DEF Command, SetState, Pin, Save, SaveFails, RemovePin, Unpin, ApplyScenario, Apply,
       Reset, Clear, RequestsView, Recent, CoverageView, Look, Covered
  <2>1. resets' = resets \/ (resets < MaxResets /\ resets' = resets + 1)
    BY <2>2, <2>3 DEF Next, Edit, SwapLive, SwapControl, vars
  <2>. QED  BY <1>1, <2>1
<1>. QED  BY <1>6, <1>7, <1>8, <1>9, <1>10

LEMMA InitInv == Init => IInv
<1>. SUFFICES ASSUME Init PROVE IInv
  OBVIOUS
<1>1. /\ caller = [c \in Callers |-> Idle] /\ Idle \in Job /\ listed = <<>> /\ total = 0
      /\ resets = 0 /\ clears = 0 /\ Size \in Nat \ {0}
  BY IdleJob, ServeAssumption DEF Init
<1>2. TypeOK
  BY <1>1, ServeAssumption DEF Init, TypeOK
<1>3. Carried
  <2>1. /\ Fits(Idle) /\ Idle.req.number = 0 /\ Idle.req.drawn = 0 /\ Idle.req.kept = 0
        /\ Idle.req.reason = "none" /\ Idle.clears = 0 /\ Idle.at = "idle"
    BY DEF Fits, Idle, NoRequest
  <2>2. Known(Idle.req) /\ Views(Idle)
    BY <1>1, <2>1 DEF Known, Views
  <2>. QED  BY <1>1, <2>1, <2>2 DEF Carried
<1>4. History
  BY <1>1 DEF History, AtMost
<1>5. Numbers
  BY <1>1 DEF Numbers, Apart, Idle, NoRequest
<1>6. Vouched
  BY DEF Init, Vouched
<1>7. CoverageTells
  <2>1. Story
    BY <1>1 DEF Init, Story, TellsListed, TellsSoon, Idle
  <2>. QED  BY <2>1, StoryTold
<1>. QED  BY <1>2, <1>3, <1>4, <1>5, <1>6, <1>7 DEF IInv

LEMMA StepInv == IInv /\ [Next]_vars => IInv'
<1>. SUFFICES ASSUME IInv, [Next]_vars PROVE IInv'
  OBVIOUS
<1>1. TypeOK'
  BY CarriedStep, HistoryStep, VouchedStep, FolderStep, MemoryStep, Growing DEF TypeOK, Grows
<1>. QED
  BY <1>1, CarriedStep, HistoryStep, NumbersStep, VouchedStep, CoverageStep DEF IInv

-----------------------------------------------------------------------------
(* The theorems.                                                            *)

\* The invariant holds in every state.
THEOREM Inductive == Spec => []IInv
<1>1. Init => IInv
  BY InitInv
<1>2. IInv /\ [Next]_vars => IInv'
  BY StepInv
<1>. QED  BY <1>1, <1>2, PTL DEF Spec

\* Every variable has its type, and the history lists no more than Size requests.
THEOREM TypeCorrect == Spec => []TypeOK
<1>1. IInv => TypeOK
  BY DEF IInv
<1>. QED  BY <1>1, Inductive, PTL

\* Coverage and the list of requests tell the same story, over resets in two halves.
THEOREM CoverageIsTold == Spec => []CoverageTells
<1>1. IInv => CoverageTells
  BY DEF IInv
<1>. QED  BY <1>1, Inductive, PTL

\* A view of the coverage that no reset interrupts is whole.
THEOREM CoverageViewsWhole == Spec => []CoverageWhole
<1>1. IInv => CoverageWhole
  <2>1. SUFFICES ASSUME IInv, NEW c \in Callers, caller[c].at = "covering",
                        caller[c].todo = {}, caller[c].req.kept = resets
                 PROVE  caller[c].was \subseteq caller[c].found /\ caller[c].found \subseteq served
    BY DEF CoverageWhole
  <2>2. caller[c].was \ caller[c].todo \subseteq caller[c].found /\ caller[c].found \subseteq served
    BY <2>1 DEF IInv, Carried, Views
  <2>. QED  BY <2>1, <2>2
<1>. QED  BY <1>1, Inductive, PTL

\* A request that was given its state in turn was given the one its number stands for.
LEMMA InItsTurn ==
  ASSUME IInv, NEW j \in 1 .. Len(listed), listed[j].reason = "sequential",
         listed[j].state # List(listed[j])[Len(List(listed[j]))]
  PROVE  /\ listed[j].number \in 1 .. Len(List(listed[j]))
         /\ List(listed[j])[listed[j].number] = listed[j].state
<1>1. PICK p \in Request : p = listed[j]
  BY DEF IInv, TypeOK
<1>2. Known(p)
  BY <1>1 DEF IInv, History
<1>3. /\ p.number \in Nat \ {0} /\ Bound(p)
      /\ p.state = List(p)[AtMost(p.number, Len(List(p)))]
  BY <1>1, <1>2 DEF Known, Request
<1>4. Len(List(p)) \in Nat \ {0}
  BY <1>3, Projects DEF Bound, List
<1>5. AtMost(p.number, Len(List(p))) # Len(List(p))
  BY <1>1, <1>3
<1>6. p.number < Len(List(p)) /\ AtMost(p.number, Len(List(p))) = p.number
  BY <1>3, <1>4, <1>5 DEF AtMost
<1>. QED  BY <1>1, <1>3, <1>4, <1>6

\* No turn of a sequential route is taken twice: the numbers of the requests that were
\* given a state are places of it in the list, each another.
THEOREM TurnsTakenOnce == Spec => []InTurn
<1>1. IInv => InTurn
  <2>1. SUFFICES ASSUME IInv, NEW i \in 1 .. Len(listed), listed[i].reason = "sequential",
                        listed[i].state # List(listed[i])[Len(List(listed[i]))]
                 PROVE  Cardinality(GivenLike(listed[i]))
                          <= Cardinality({n \in 1 .. Len(List(listed[i])) :
                                            List(listed[i])[n] = listed[i].state})
    BY DEF InTurn, List
  <2>. PICK p : p = listed[i]
    OBVIOUS
  <2>. DEFINE G == GivenLike(p)
              places == {n \in 1 .. Len(List(p)) : List(p)[n] = p.state}
              f == [j \in G |-> listed[j].number]
  <2>2. ASSUME NEW j \in G
        PROVE  /\ j \in 1 .. Len(listed) /\ listed[j].reason = "sequential"
               /\ listed[j].state = p.state /\ listed[j].route = p.route
               /\ listed[j].drawn = p.drawn /\ List(listed[j]) = List(p)
    BY DEF GivenLike, List
  <2>3. ASSUME NEW j \in G
        PROVE  listed[j].number \in places
    BY <2>1, <2>2, InItsTurn
  <2>4. ASSUME NEW j \in G, NEW k \in G, listed[j].number = listed[k].number
        PROVE  j = k
    <3>1. /\ j \in 1 .. Len(listed) /\ k \in 1 .. Len(listed)
          /\ listed[j].route = listed[k].route /\ listed[j].drawn = listed[k].drawn
      BY <2>2
    <3>2. listed[j].number # 0 /\ listed[k].number # 0
      BY <2>3, <2>4
    <3>. QED  BY <2>1, <2>4, <3>1, <3>2 DEF IInv, Numbers, Apart
  <2>5. IsFiniteSet(places)
    <3>1. Len(List(p)) \in Nat
      <4>1. Known(p) /\ p.reason = "sequential"
        BY <2>1 DEF IInv, History
      <4>. QED  BY <4>1, Projects DEF Known, Bound, List
    <3>2. IsFiniteSet(1 .. Len(List(p)))
      BY <3>1, FS_Interval
    <3>. QED  BY <3>2, FS_Subset
  <2>. HIDE DEF G, places
  <2>6. f \in Injection(G, places)
    <3>1. f \in [G -> places]
      BY <2>3
    <3>2. \A j, k \in G : f[j] = f[k] => j = k
      BY <2>4
    <3>. QED  BY <3>1, <3>2 DEF Injection, IsInjective
  <2>7. Cardinality(G) <= Cardinality(places)
    BY <2>5, <2>6, FS_Injection
  <2>. QED  BY <2>7 DEF G, places
<1>. QED  BY <1>1, Inductive, PTL

\* Only its own step changes what a caller does.
LEMMA OwnStep ==
  ASSUME IInv, [Next]_vars, NEW c \in Callers, caller'[c] # caller[c]
  PROVE  Serve(c) \/ Command(c)
<1>1. PICK d \in Callers : Serve(d) \/ Command(d)
  BY DEF Next, Edit, SwapLive, SwapControl, vars
<1>2. PICK j : Passes(d, j)
  BY <1>1, Goes, Growing
<1>3. c = d
  BY <1>2 DEF Passes, IInv, TypeOK
<1>. QED  BY <1>1, <1>3

\* A view of the requests holds what it counts, unless the history was cleared meanwhile.
THEOREM ViewsCover == Spec => ViewCovers
<1>. DEFINE Covering == \A c \in Callers :
       caller[c].at = "listing" /\ caller'[c].at = "idle" /\ caller[c].clears = clears =>
         Len(listed) >= AtMost(caller[c].total, Size)
<1>1. IInv => Covering
  <2>1. SUFFICES ASSUME IInv, NEW c \in Callers, caller[c].at = "listing",
                        caller[c].clears = clears
                 PROVE  Len(listed) >= AtMost(caller[c].total, Size)
    OBVIOUS
  <2>2. /\ caller[c].total <= total /\ Len(listed) = AtMost(total, Size)
        /\ caller[c].total \in Nat /\ total \in Nat /\ Size \in Nat
    BY <2>1, Counters DEF IInv, Carried, Views, History, TypeOK, Job
  <2>. QED  BY <2>2 DEF AtMost
<1>2. IInv => [Covering]_vars
  BY <1>1
<1>. HIDE DEF Covering
<1>3. Spec => [][Covering]_vars
  BY <1>2, Inductive, PTL
<1>. QED  BY <1>3 DEF Covering, ViewCovers

\* A pinned state is refused only where the route's states are others than those the pin
\* was checked against.
THEOREM PinsRefusedOnlyStale == Spec => PinRefusedOnlyStale
<1>. DEFINE Stale == \A c \in Callers :
       /\ caller[c].at = "counted" /\ caller'[c].at = "picked"
       /\ caller'[c].req.reason = "control" /\ caller'[c].req.problem = "unknown_state"
       => LET req == caller[c].req
          IN  req.project[req.route].states # vouched[req.route].states
<1>1. IInv /\ [Next]_vars => Stale
  <2>1. SUFFICES ASSUME IInv, [Next]_vars, NEW c \in Callers,
                        caller[c].at = "counted", caller'[c].at = "picked",
                        caller'[c].req.reason = "control",
                        caller'[c].req.problem = "unknown_state"
                 PROVE  caller[c].req.project[caller[c].req.route].states
                          # vouched[caller[c].req.route].states
    OBVIOUS
  <2>2. Serve(c) \/ Command(c)
    BY <2>1, OwnStep
  <2>3. Pick(c)
    BY <2>1, <2>2 DEF Serve, Command, Arrive, Stray, TakeNumber, TurnAway, Remember, Publish,
       SetState, Pin, Save, SaveFails, RemovePin, Unpin, ApplyScenario, Apply, Reset, Clear,
       RequestsView, Recent, CoverageView, Look, Covered, Begin
  <2>. DEFINE old == caller[c].req
  <2>4. old \in Request /\ Bound(old) /\ old.number # 0
    BY <2>1, ServeRequest DEF IInv, Carried, Fits
  <2>5. Picked(c)[2] = "control" /\ Picked(c)[1] \notin Offered(old.project[old.route])
    <3>1. caller[c] \in Job /\ caller \in [Callers -> Job]
      BY <2>1 DEF IInv, TypeOK
    <3>2. /\ caller'[c].req.reason = Picked(c)[2]
          /\ caller'[c].req.problem = IF Picked(c)[1] \in Offered(old.project[old.route])
                                      THEN "none" ELSE "unknown_state"
      BY <2>3, <2>4, <3>1 DEF Pick, GoOn, Job, Request
    <3>. QED  BY <2>1, <3>2
  <2>6. pins[old.route] # None /\ Picked(c)[1] = pins[old.route] /\ old.route \in Routes
    BY <2>1, <2>4, <2>5, PickedState DEF IInv, Bound
  <2>7. Picked(c)[1] \in Offered(vouched[old.route])
    BY <2>1, <2>6 DEF IInv, Vouched
  <2>. QED  BY <2>5, <2>7 DEF Offered
<1>2. IInv /\ [Next]_vars => [Stale]_vars
  BY <1>1
<1>. HIDE DEF Stale
<1>3. Spec => [][Stale]_vars
  BY <1>2, Inductive, PTL DEF Spec
<1>. QED  BY <1>3 DEF Stale, PinRefusedOnlyStale
=============================================================================
