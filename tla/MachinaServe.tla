------------------------------ MODULE MachinaServe ------------------------------
(***************************************************************************)
(* How mock_machina picks the state a request is answered with and what it *)
(* remembers of the answer: serveRoute, pickState and reporter of          *)
(* internal/server/server.go, the memory of memory.go, and the calls of    *)
(* the control API on it (internal/control/ops.go), while reloads swap     *)
(* the project of the server and then that of the control API.             *)
(*                                                                         *)
(* Every request and every call runs on a goroutine of its own, a caller.  *)
(* The memory and the history of requests have a lock each, which no call  *)
(* keeps from one step to the next.  Modelled elsewhere: collections       *)
(* (MachinaCollections), the ring behind the history and its errors        *)
(* (MachinaHub), reloads that overlap (MachinaReload).  Left out:          *)
(* variables, rules and the random mode, proxied routes, and the webhooks  *)
(* and gRPC calls that are reported to the same history.                   *)
(***************************************************************************)
EXTENDS Integers, Sequences, FiniteSets

CONSTANTS
  Callers,     \* goroutines
  Routes,      \* route ids
  Sequential,  \* the routes with `mode: sequential`; the others answer as `active`
  States,      \* names of states
  Lists,       \* the lists of states routes may have; one may have a state twice
  Saves,       \* what editors may leave in the project folder, once it loads
  Scenes,      \* what scenarios say: route -> state
  Size,        \* requests the history lists: historySize
  None,
  MaxCalls,    \* bound: requests and control calls
  MaxResets,   \* bound: resets
  MaxEdits     \* bound: folders saved by an editor

Offered(route) == {route.states[i] : i \in 1 .. Len(route.states)}

Route == {route \in [states : Lists, active : States] : route.active \in Offered(route)}

Project == UNION {[ids -> Route] : ids \in SUBSET Routes}

\* config.Load refuses a scenario with a route or a state that is not there.  A project
\* has those of Scenes that it can have.
Has(project, scene) ==
  \A r \in DOMAIN scene : r \in DOMAIN project /\ scene[r] \in Offered(project[r])

ASSUME ServeAssumption ==
  /\ Lists \subseteq Seq(States)
  /\ Saves \subseteq Project /\ Saves # {}
  /\ Scenes \subseteq UNION {[ids -> States] : ids \in SUBSET Routes}
  /\ Sequential \subseteq Routes
  /\ States \cap Scenes = {}
  /\ None \notin States \cup Scenes \cup Routes \cup Project
  /\ Size \in Nat \ {0}
  /\ MaxCalls \in Nat /\ MaxResets \in Nat /\ MaxEdits \in Nat

VARIABLES
  folder,                       \* the project that the folder holds
  handler, control,             \* the project of the server, and of the control API
  calls, pins, served, applied, \* Memory
  listed, total,                \* the newest requests, oldest first, and the count of all
  caller,                       \* what each caller does
  begun, resets, edits,         \* bounds; the properties read resets too
  \* History variables; no action depends on them.
  clears,     \* how often the history was cleared
  vouched,    \* for a pin, the route it was checked against
  forgotten   \* states answered since the last reset by requests no longer listed

memory   == <<calls, pins, served, applied>>
events   == <<listed, total>>
projects == <<folder, handler, control, edits>>
ghosts   == <<clears, vouched, forgotten>>
vars     == <<projects, memory, events, caller, begun, resets, ghosts>>

\* What is known of a request: its route in the project of the server at its arrival, the
\* state picked, why, and what was wrong.  For the properties: how many resets came before
\* its number was drawn, and before its state was remembered.
Request ==
  [route : Routes \cup {None}, project : Project \cup {None},
   state : States \cup {None}, number : Nat, drawn : Nat, kept : Nat,
   reason : {"none", "header", "scenario", "control", "sequential", "active"},
   problem : {"none", "unknown_state", "turned_away", "stray"}]

NoRequest == [route |-> None, project |-> None, state |-> None, number |-> 0,
              drawn |-> 0, kept |-> 0, reason |-> "none", problem |-> "none"]

\* Where a caller is: a request has arrived, has its number, its state, is remembered; a
\* control call will pin, save, unpin, apply or clear next, list or go through the states.
Steps == {"idle", "arrived", "counted", "picked", "remembered",
          "pinning", "saving", "unpinning", "applying", "clearing", "listing", "covering"}

Pairs == Routes \X States

\* For the control API's views: the count read and the clears before it, or the states
\* still to look for, those found served, and, for the properties, those served at first.
Job == [at : Steps, req : Request, ask : States \cup Scenes \cup {None}, total : Nat,
        clears : Nat, todo : SUBSET Pairs, found : SUBSET Pairs, was : SUBSET Pairs]

Idle == [at |-> "idle", req |-> NoRequest, ask |-> None, total |-> 0, clears |-> 0,
         todo |-> {}, found |-> {}, was |-> {}]

TypeOK ==
  /\ folder \in Project /\ handler \in Project /\ control \in Project
  /\ calls \in [Routes -> Nat]
  /\ pins \in [Routes -> States \cup {None}]
  /\ served \in SUBSET Pairs
  /\ applied \in Scenes \cup {None}
  /\ listed \in Seq(Request) /\ Len(listed) <= Size /\ total \in Nat
  /\ caller \in [Callers -> Job]
  /\ begun \in 0 .. MaxCalls /\ resets \in 0 .. MaxResets /\ edits \in 0 .. MaxEdits
  /\ clears \in Nat
  /\ vouched \in [Routes -> Route \cup {None}]
  /\ forgotten \in SUBSET Pairs

Init ==
  /\ folder \in Saves /\ handler = folder /\ control = folder
  /\ calls = [r \in Routes |-> 0] /\ pins = [r \in Routes |-> None]
  /\ served = {} /\ applied = None
  /\ listed = <<>> /\ total = 0
  /\ caller = [c \in Callers |-> Idle]
  /\ begun = 0 /\ resets = 0 /\ edits = 0
  /\ clears = 0 /\ vouched = [r \in Routes |-> None] /\ forgotten = {}

\* A caller takes up a call, and goes on with it.
Begin(c, job) ==
  /\ caller[c].at = "idle" /\ begun < MaxCalls /\ begun' = begun + 1
  /\ caller' = [caller EXCEPT ![c] = job]

Goto(c, at) == caller' = [caller EXCEPT ![c].at = at]

GoOn(c, at, req) == caller' = [caller EXCEPT ![c] = [caller[c] EXCEPT !.at = at, !.req = req]]

Return(c) == caller' = [caller EXCEPT ![c] = Idle]

-----------------------------------------------------------------------------
(* A request.                                                               *)

\* The mux hands it to its route; it may name a state or a scenario.
Arrive(c, route, ask) ==
  /\ route \in DOMAIN handler
  /\ ask \in Scenes => Has(handler, ask)
  /\ Begin(c, [Idle EXCEPT !.at = "arrived", !.ask = ask,
                           !.req = [NoRequest EXCEPT !.route = route, !.project = handler]])
  /\ UNCHANGED <<projects, memory, events, resets, ghosts>>

\* No route takes it, or it names a scenario that is not there: it is reported at once.
Stray(c) ==
  /\ Begin(c, [Idle EXCEPT !.at = "remembered", !.req = [NoRequest EXCEPT !.problem = "stray"]])
  /\ UNCHANGED <<projects, memory, events, resets, ghosts>>

\* Mutant: the number is looked at and not counted.
TakeNumberUncounted(c) ==
  /\ caller[c].at = "arrived"
  /\ GoOn(c, "counted", [caller[c].req EXCEPT
       !.drawn = resets, !.number = calls[caller[c].req.route] + 1])
  /\ UNCHANGED <<projects, memory, events, begun, resets, ghosts>>

\* Memory.call
TakeNumber(c) ==
  /\ caller[c].at = "arrived"
  /\ calls' = [calls EXCEPT ![caller[c].req.route] = @ + 1]
  /\ GoOn(c, "counted", [caller[c].req EXCEPT
       !.drawn = resets, !.number = calls'[caller[c].req.route]])
  /\ UNCHANGED <<pins, served, applied, projects, events, begun, resets, ghosts>>

AtMost(m, n) == IF m < n THEN m ELSE n

\* pickState: the state and why.
Picked(c) ==
  LET r     == caller[c].req.route
      ask   == caller[c].ask
      route == caller[c].req.project[r]
      turn  == AtMost(caller[c].req.number, Len(route.states))
  IN  IF ask \in States THEN <<ask, "header">>
      ELSE IF ask \in Scenes /\ r \in DOMAIN ask THEN <<ask[r], "scenario">>
      ELSE IF pins[r] # None THEN <<pins[r], "control">>
      ELSE IF r \in Sequential THEN <<route.states[turn], "sequential">>
      ELSE <<route.active, "active">>

\* A state that the route has not is refused.
Pick(c) ==
  /\ caller[c].at = "counted"
  /\ LET req   == caller[c].req
         known == Offered(req.project[req.route])
     IN  GoOn(c, "picked", [req EXCEPT
           !.state = Picked(c)[1], !.reason = Picked(c)[2],
           !.problem = IF Picked(c)[1] \in known THEN "none" ELSE "unknown_state"])
  /\ UNCHANGED <<projects, memory, events, begun, resets, ghosts>>

\* The request does not pass the checks, or its client leaves while it is held back.
TurnAway(c) ==
  /\ caller[c].at = "picked" /\ caller[c].req.problem = "none"
  /\ GoOn(c, "picked", [caller[c].req EXCEPT !.problem = "turned_away"])
  /\ UNCHANGED <<projects, memory, events, begun, resets, ghosts>>

Pair(req) == <<req.route, req.state>>

Answered(req) == req.problem = "none"

\* Mutant: what a request was refused counts as answered.
RememberAll(c) ==
  /\ caller[c].at = "picked"
  /\ served' = served \cup {Pair(caller[c].req)}
  /\ GoOn(c, "remembered", [caller[c].req EXCEPT !.kept = resets])
  /\ UNCHANGED <<calls, pins, applied, projects, events, begun, resets, ghosts>>

\* reporter: Memory.serve
Remember(c) ==
  /\ caller[c].at = "picked"
  /\ served' = IF Answered(caller[c].req) THEN served \cup {Pair(caller[c].req)} ELSE served
  /\ GoOn(c, "remembered", [caller[c].req EXCEPT !.kept = resets])
  /\ UNCHANGED <<calls, pins, applied, projects, events, begun, resets, ghosts>>

\* For the properties: the states of those requests of reqs that were answered and
\* remembered since the last reset.
Told(reqs) == {Pair(req) : req \in {q \in reqs : Answered(q) /\ q.kept = resets}}

\* hub.publish, by way of o.Report
Publish(c) ==
  /\ caller[c].at = "remembered"
  /\ listed' = IF Len(listed) < Size THEN Append(listed, caller[c].req)
               ELSE Append(Tail(listed), caller[c].req)
  /\ total' = total + 1
  /\ forgotten' = IF Len(listed) < Size THEN forgotten
                  ELSE forgotten \cup Told({Head(listed)})
  /\ Return(c)
  /\ UNCHANGED <<projects, memory, begun, resets, clears, vouched>>

-----------------------------------------------------------------------------
(* Calls of the control API.  One that is refused when it looks up its      *)
(* route, state or scenario changes nothing; it is left out.                *)

\* Mutant: the state is looked up by nobody.
SetStateUnseen(c, route, state, persist) ==
  /\ route \in DOMAIN control /\ state \in States
  /\ Begin(c, [Idle EXCEPT !.at = IF persist THEN "saving" ELSE "pinning",
       !.req = [NoRequest EXCEPT !.route = route, !.state = state, !.project = control]])
  /\ UNCHANGED <<projects, memory, events, resets, ghosts>>

\* setState, up to what it does; the first lookup of `pin` changes nothing either.
SetState(c, route, state, persist) ==
  /\ route \in DOMAIN control /\ state \in Offered(control[route])
  /\ Begin(c, [Idle EXCEPT !.at = IF persist THEN "saving" ELSE "pinning",
       !.req = [NoRequest EXCEPT !.route = route, !.state = state, !.project = control]])
  /\ UNCHANGED <<projects, memory, events, resets, ghosts>>

Pin(c) ==
  /\ caller[c].at = "pinning"
  /\ LET r == caller[c].req.route
     IN  /\ pins' = [pins EXCEPT ![r] = caller[c].req.state]
         /\ vouched' = [vouched EXCEPT ![r] = caller[c].req.project[r]]
  /\ Return(c)
  /\ UNCHANGED <<calls, served, applied, projects, events, begun, resets, clears, forgotten>>

\* config.SetActive, in one step, on the folder of now.
Save(c) ==
  /\ caller[c].at = "saving"
  /\ LET r == caller[c].req.route
         s == caller[c].req.state
     IN  /\ r \in DOMAIN folder /\ s \in Offered(folder[r])
         /\ folder' = [folder EXCEPT ![r].active = s]
  /\ Goto(c, "unpinning")
  /\ UNCHANGED <<handler, control, edits, memory, events, begun, resets, ghosts>>

\* Nothing is saved: the route or the state is gone, the file has problems, the write fails.
SaveFails(c) ==
  /\ caller[c].at = "saving" /\ Return(c)
  /\ UNCHANGED <<projects, memory, events, begun, resets, ghosts>>

\* unpinRoute
RemovePin(c, route) ==
  /\ route \in DOMAIN control
  /\ Begin(c, [Idle EXCEPT !.at = "unpinning", !.req = [NoRequest EXCEPT !.route = route]])
  /\ UNCHANGED <<projects, memory, events, resets, ghosts>>

Unpin(c) ==
  /\ caller[c].at = "unpinning"
  /\ pins' = [pins EXCEPT ![caller[c].req.route] = None]
  /\ Return(c)
  /\ UNCHANGED <<calls, served, applied, projects, events, begun, resets, ghosts>>

\* applyScenario: the scenario of the project loaded, then Memory.Apply.
ApplyScenario(c, scene) ==
  /\ Has(control, scene)
  /\ Begin(c, [Idle EXCEPT !.at = "applying", !.ask = scene,
                           !.req = [NoRequest EXCEPT !.project = control]])
  /\ UNCHANGED <<projects, memory, events, resets, ghosts>>

\* Mutant: applying a scenario begins the coverage again.
ApplyAnew(c) ==
  /\ caller[c].at = "applying"
  /\ pins' = [r \in Routes |-> IF r \in DOMAIN caller[c].ask THEN caller[c].ask[r] ELSE None]
  /\ applied' = caller[c].ask /\ served' = {}
  /\ Return(c)
  /\ UNCHANGED <<calls, projects, events, begun, resets, ghosts>>

\* Every pin is replaced.
Apply(c) ==
  /\ caller[c].at = "applying"
  /\ LET scene == caller[c].ask
     IN  /\ pins' = [r \in Routes |-> IF r \in DOMAIN scene THEN scene[r] ELSE None]
         /\ vouched' = [r \in Routes |-> IF r \in DOMAIN scene THEN caller[c].req.project[r]
                                         ELSE vouched[r]]
         /\ applied' = scene
  /\ Return(c)
  /\ UNCHANGED <<calls, served, projects, events, begun, resets, clears, forgotten>>

\* resetAll: first the memory,
Reset(c) ==
  /\ resets < MaxResets /\ resets' = resets + 1
  /\ Begin(c, [Idle EXCEPT !.at = "clearing"])
  /\ calls' = [r \in Routes |-> 0] /\ pins' = [r \in Routes |-> None]
  /\ served' = {} /\ applied' = None
  /\ forgotten' = {}
  /\ UNCHANGED <<projects, events, clears, vouched>>

ListedSet == {listed[i] : i \in 1 .. Len(listed)}

\* Mutant: the count of the requests goes on.
ClearKeepsTotal(c) ==
  /\ caller[c].at = "clearing"
  /\ listed' = <<>>
  /\ clears' = clears + 1 /\ forgotten' = forgotten \cup Told(ListedSet)
  /\ Return(c)
  /\ UNCHANGED <<total, projects, memory, begun, resets, vouched>>

\* then the history.
Clear(c) ==
  /\ caller[c].at = "clearing"
  /\ listed' = <<>> /\ total' = 0
  /\ clears' = clears + 1 /\ forgotten' = forgotten \cup Told(ListedSet)
  /\ Return(c)
  /\ UNCHANGED <<projects, memory, begun, resets, vouched>>

\* requestsView: first the count,
RequestsView(c) ==
  /\ Begin(c, [Idle EXCEPT !.at = "listing", !.total = total, !.clears = clears])
  /\ UNCHANGED <<projects, memory, events, resets, ghosts>>

\* then the list; the call returns both.
Recent(c) ==
  /\ caller[c].at = "listing" /\ Return(c)
  /\ UNCHANGED <<projects, memory, events, begun, resets, ghosts>>

\* coverageView: every state of the project loaded is looked for,
CoverageView(c) ==
  /\ LET states == {p \in Pairs : p[1] \in DOMAIN control /\ p[2] \in Offered(control[p[1]])}
     IN  Begin(c, [Idle EXCEPT !.at = "covering", !.todo = states, !.was = served \cap states,
                               !.req = [NoRequest EXCEPT !.kept = resets]])
  /\ UNCHANGED <<projects, memory, events, resets, ghosts>>

\* one by one: Memory.Served.  Their order makes no difference here.
Look(c, p) ==
  /\ caller[c].at = "covering" /\ p \in caller[c].todo
  /\ caller' = [caller EXCEPT ![c].todo = @ \ {p},
                              ![c].found = IF p \in served THEN @ \cup {p} ELSE @]
  /\ UNCHANGED <<projects, memory, events, begun, resets, ghosts>>

Covered(c) ==
  /\ caller[c].at = "covering" /\ caller[c].todo = {} /\ Return(c)
  /\ UNCHANGED <<projects, memory, events, begun, resets, ghosts>>

-----------------------------------------------------------------------------
(* The folder and its reloads.                                              *)

Edit(project) ==
  /\ edits < MaxEdits /\ edits' = edits + 1 /\ project # folder
  /\ folder' = project
  /\ UNCHANGED <<handler, control, memory, events, caller, begun, resets, ghosts>>

\* A reload swaps the server's project first and the control API's then; requests that have
\* arrived keep theirs.
SwapLive ==
  /\ handler = control /\ handler # folder /\ handler' = folder
  /\ UNCHANGED <<folder, control, edits, memory, events, caller, begun, resets, ghosts>>

SwapControl ==
  /\ control # handler /\ control' = handler
  /\ UNCHANGED <<folder, handler, edits, memory, events, caller, begun, resets, ghosts>>

-----------------------------------------------------------------------------
Serve(c) ==
  \/ \E route \in Routes, ask \in States \cup Scenes \cup {None} : Arrive(c, route, ask)
  \/ Stray(c) \/ TakeNumber(c) \/ Pick(c) \/ TurnAway(c) \/ Remember(c) \/ Publish(c)

Command(c) ==
  \/ \E route \in Routes, state \in States, persist \in BOOLEAN :
       SetState(c, route, state, persist)
  \/ Pin(c) \/ Save(c) \/ SaveFails(c)
  \/ \E route \in Routes : RemovePin(c, route)
  \/ Unpin(c)
  \/ \E scene \in Scenes : ApplyScenario(c, scene)
  \/ Apply(c) \/ Reset(c) \/ Clear(c) \/ RequestsView(c) \/ Recent(c) \/ CoverageView(c)
  \/ \E p \in Pairs : Look(c, p)
  \/ Covered(c)

Next ==
  \/ \E c \in Callers : Serve(c) \/ Command(c)
  \/ \E project \in Saves : Edit(project)
  \/ SwapLive \/ SwapControl

Spec == Init /\ [][Next]_vars

-----------------------------------------------------------------------------
(* Properties.                                                              *)

\* Coverage and the request list tell the same story: "a state counts once the mock has
\* answered a request with it", and not when the request named a state the route has not,
\* failed validation, or its client left (docs/control-api.md:116).  The states served are
\* those of the requests in the list that were answered and remembered since the last
\* reset, of one about to be listed, and of those that have left the list since - whatever
\* resets, each of them of two halves (ops.go:89), come in between.
CoverageTells ==
  served = forgotten \cup
    Told(ListedSet \cup {caller[c].req : c \in {d \in Callers : caller[d].at = "remembered"}})

\* A view of the coverage that no reset interrupts misses no state that was served when it
\* began, and names none that has not been served, though it asks for them one by one
\* (ops.go:120-131).
CoverageWhole ==
  \A c \in Callers :
    caller[c].at = "covering" /\ caller[c].todo = {} /\ caller[c].req.kept = resets =>
      caller[c].was \subseteq caller[c].found /\ caller[c].found \subseteq served

\* Those of the requests listed that were numbered between the same resets as p, found
\* the same states in turn and were given the same one.
GivenLike(p) ==
  {j \in 1 .. Len(listed) :
     /\ listed[j].reason = "sequential" /\ listed[j].state = p.state
     /\ listed[j].route = p.route /\ listed[j].drawn = p.drawn
     /\ listed[j].project[p.route].states = p.project[p.route].states}

\* No turn of a sequential route is taken twice: "each state in turn, staying on the last"
\* (docs/file-format.md:221).  A state is given as often as the route's list has it, and
\* only the last one more often; a list may have a state twice (config/load.go 423-444).
InTurn ==
  \A i \in 1 .. Len(listed) :
    LET p      == listed[i]
        states == p.project[p.route].states
    IN  p.reason = "sequential" /\ p.state # states[Len(states)] =>
          Cardinality(GivenLike(p))
            <= Cardinality({n \in 1 .. Len(states) : states[n] = p.state})

\* What the request view returns holds every request it counts, up to the newest Size,
\* unless the history was cleared while it was put together from two reads (ops.go:100).
ViewCovers ==
  [][\A c \in Callers :
       caller[c].at = "listing" /\ caller'[c].at = "idle" /\ caller[c].clears = clears =>
         Len(listed) >= AtMost(caller[c].total, Size)]_vars

\* A pinned state is refused only where the route has other states than the one that the
\* pin was checked against had: the check and the pin are two steps, and a pin stays
\* over reloads (ops.go:58-69, 260-265).
PinRefusedOnlyStale ==
  [][\A c \in Callers :
       /\ caller[c].at = "counted" /\ caller'[c].at = "picked"
       /\ caller'[c].req.reason = "control" /\ caller'[c].req.problem = "unknown_state"
       => LET req == caller[c].req
          IN  req.project[req.route].states # vouched[req.route].states]_vars
=============================================================================
