---------------------------- MODULE MachinaReload ----------------------------
(***************************************************************************)
(* How a saved file of the project folder reaches the servers of           *)
(* mock_machina: the poller of internal/watch, the reloader of             *)
(* internal/cli/start.go, and the writers of the folder - editors and      *)
(* config.SetActive, which `state set`, the live screen and the control    *)
(* API's `persist` call.                                                   *)
(*                                                                         *)
(* A reload reads the files one after another and then swaps four views:   *)
(*                                                                         *)
(*    load -> grpc -> live -> control -> notify -> idle                    *)
(*                                                                         *)
(* The watcher runs it in its own goroutine; the live screen's `r` key     *)
(* runs it in another, with nothing to keep the two apart.                 *)
(***************************************************************************)
EXTENDS FiniteSets

CONSTANTS
  Files,      \* files of the project folder
  GrpcFiles,  \* those that hold gRPC routes
  Routes,     \* route names of a file
  States,     \* state names of a route
  Saves,      \* file -> what editors may save in it
  Goals,      \* the calls of SetActive that are made
  Watcher,    \* the watcher's goroutine
  Manual,     \* goroutines the `r` key starts
  Setters,    \* calls of SetActive that may be under way at once
  None        \* no file, no project, no gRPC server, no promise

Kinds == {"good",      \* loads, and can be served
          "problems",  \* config.Load reports problems in it
          "overlap",   \* loads, but server.New refuses its routes
          "badproto",  \* loads, but server.NewGRPC refuses its protos
          "absent"}    \* there is no such file

\* A file is abstracted to the `active` line of its routes and to its fate.
Content == [act : [Routes -> States], kind : Kinds]

Goal == [file : Files, route : Routes, state : States]

ASSUME ReloadAssumption ==
  /\ Goals \subseteq Goal
  /\ Saves \in [Files -> SUBSET Content]
  /\ GrpcFiles \subseteq Files
  /\ Watcher \notin Manual
  /\ None \notin [Routes -> States]
  /\ None \notin [Files -> [Routes -> States] \cup {None}]
  /\ None \notin States
  /\ None \notin Content \cup Goal

Reloaders == {Watcher} \cup Manual

VARIABLES
  disk,     \* the files
  listed,   \* files in the poller's last snapshot
  changed,  \* files whose stamp differs from that snapshot
  pending,  \* files that changed and have not been reloaded
  up,       \* the mock serves
  pc,       \* step of each reloader
  todo,     \* files it has still to read
  loaded,   \* what it has read
  grpc, live, ctl,  \* the project each server answers from
  screen,   \* the live screen: its project, and whether it lists problems
  spc, goal, buf,   \* step, wish and buffer of each SetActive
  \* History variables; no action depends on them.
  promised, \* the state SetActive last reported for a route
  raced,    \* "yes" once two reloads overlapped, until one has run alone
  glimpsed  \* files the latest reload has read that no snapshot has listed

served  == <<grpc, live, ctl, screen>>
locals  == <<pc, todo, loaded>>
setting == <<spc, goal, buf>>
watched == <<listed, changed, pending>>
history == <<promised, raced, glimpsed>>
vars    == <<disk, watched, up, locals, served, setting, history>>

Project == [Files -> [Routes -> States] \cup {None}]

TypeOK ==
  /\ disk \in [Files -> Content]
  /\ listed \in SUBSET Files
  /\ changed \in SUBSET Files /\ pending \in SUBSET Files
  /\ up \in BOOLEAN
  /\ pc \in [Reloaders -> {"idle", "load", "grpc", "live", "control", "notify"}]
  /\ todo \in [Reloaders -> SUBSET Files]
  /\ loaded \in [Reloaders -> [Files -> Content \cup {None}]]
  /\ grpc \in Project \cup {None}
  /\ live \in Project \cup {None} /\ ctl \in Project \cup {None}
  /\ screen \in [project : Project \cup {None}, problems : BOOLEAN]
  /\ spc \in [Setters -> {"idle", "check", "read", "write"}]
  /\ goal \in [Setters -> Goals \cup {None}]
  /\ buf \in [Setters -> Content \cup {None}]
  /\ promised \in [Files -> [Routes -> States \cup {None}]]
  /\ raced \in {"no", "yes", "healing"}
  /\ glimpsed \in SUBSET Files

Nothing == [f \in Files |-> None]

NoScreen == [project |-> None, problems |-> FALSE]

Init ==
  /\ disk \in [Files -> Content] /\ \A f \in Files : disk[f] \in Saves[f]
  /\ listed = {} /\ changed = {} /\ pending = {} /\ up = FALSE
  /\ pc = [m \in Reloaders |-> "idle"]
  /\ todo = [m \in Reloaders |-> {}]
  /\ loaded = [m \in Reloaders |-> Nothing]
  /\ grpc = None /\ live = None /\ ctl = None /\ screen = NoScreen
  /\ spc = [s \in Setters |-> "idle"]
  /\ goal = [s \in Setters |-> None] /\ buf = [s \in Setters |-> None]
  /\ promised = [f \in Files |-> [r \in Routes |-> None]]
  /\ raced = "no" /\ glimpsed = {}

-----------------------------------------------------------------------------
(* What config.Load, server.New and server.NewGRPC make of the files read.  *)

Some(c, kind) == \E f \in Files : c[f].kind = kind

Good(c) == \A f \in Files : c[f].kind \in {"good", "absent"}

Meaning(c) == [f \in Files |-> IF c[f].kind = "absent" THEN None ELSE c[f].act]

HasGRPC(p) == \E f \in GrpcFiles : p[f] # None

\* What a snapshot lists.
Present == {f \in Files : disk[f].kind # "absent"}

-----------------------------------------------------------------------------
(* The reload, step by step.                                                *)

Goto(m, l) == pc' = [pc EXCEPT ![m] = l]

StartsReload(m) ==
  /\ Goto(m, "load")
  /\ todo' = [todo EXCEPT ![m] = Files]
  /\ loaded' = [loaded EXCEPT ![m] = Nothing]
  /\ raced' = IF \E o \in Reloaders \ {m} : pc[o] # "idle" THEN "yes"
              ELSE IF raced = "no" THEN "no" ELSE "healing"
  /\ glimpsed' = {}

\* reload returns; the watcher then forgets what it had pending.
Returns(m) ==
  /\ Goto(m, "idle")
  /\ todo' = [todo EXCEPT ![m] = {}]
  /\ loaded' = [loaded EXCEPT ![m] = Nothing]
  /\ pending' = IF m = Watcher THEN {} ELSE pending

\* A reload that was refused leaves what an earlier race has left.
Refused(m) ==
  /\ Returns(m)
  /\ raced' = IF raced = "healing" THEN "yes" ELSE raced

ReadFile(m) ==
  /\ pc[m] = "load"
  /\ \E f \in todo[m] :
       /\ todo' = [todo EXCEPT ![m] = @ \ {f}]
       /\ loaded' = [loaded EXCEPT ![m][f] = disk[f]]
       /\ glimpsed' = IF f \in Present \ listed THEN glimpsed \cup {f} ELSE glimpsed
  /\ UNCHANGED <<disk, watched, up, pc, served, setting, promised, raced>>

Loaded(m) == up /\ pc[m] = "load" /\ todo[m] = {}

\* Mutant: problems are logged, and the screen is not told.
LoadFailsUntold(m) ==
  /\ Loaded(m) /\ Some(loaded[m], "problems")
  /\ Refused(m)
  /\ UNCHANGED <<disk, listed, changed, up, served, setting, promised, glimpsed>>

LoadFails(m) ==
  /\ Loaded(m) /\ Some(loaded[m], "problems")
  /\ screen' = [screen EXCEPT !.problems = TRUE]
  /\ Refused(m)
  /\ UNCHANGED <<disk, listed, changed, up, grpc, live, ctl, setting, promised, glimpsed>>

\* server.New: routes that overlap end the reload, and nobody hears but the log.
BuildHandler(m) ==
  /\ Loaded(m) /\ ~Some(loaded[m], "problems")
  /\ IF Some(loaded[m], "overlap")
       THEN Refused(m)
       ELSE Goto(m, "grpc") /\ UNCHANGED <<todo, loaded, pending, raced>>
  /\ UNCHANGED <<disk, listed, changed, up, served, setting, promised, glimpsed>>

\* Mutant: a refused gRPC handler is logged and the reload goes on.
SwapGRPCUnchecked(m) ==
  /\ pc[m] = "grpc"
  /\ grpc' = IF grpc = None \/ Some(loaded[m], "badproto") THEN grpc ELSE Meaning(loaded[m])
  /\ Goto(m, "live")
  /\ UNCHANGED <<disk, watched, up, todo, loaded, live, ctl, screen, setting, history>>

\* swapGRPC: a mock that started without gRPC routes never gets a server.
SwapGRPC(m) ==
  /\ pc[m] = "grpc"
  /\ IF grpc # None /\ Some(loaded[m], "badproto")
       THEN Refused(m) /\ UNCHANGED grpc
       ELSE /\ grpc' = IF grpc = None THEN None ELSE Meaning(loaded[m])
            /\ Goto(m, "live")
            /\ UNCHANGED <<todo, loaded, pending, raced>>
  /\ UNCHANGED <<disk, listed, changed, up, live, ctl, screen, setting, promised, glimpsed>>

\* Mutant: Live keeps the handler it has.
SwapLiveForgotten(m) ==
  /\ pc[m] = "live"
  /\ Goto(m, "control")
  /\ UNCHANGED <<disk, watched, up, todo, loaded, served, setting, history>>

SwapLive(m) ==
  /\ pc[m] = "live"
  /\ live' = Meaning(loaded[m])
  /\ Goto(m, "control")
  /\ UNCHANGED <<disk, watched, up, todo, loaded, grpc, ctl, screen, setting, history>>

\* control.API.Swap, whose `reload` event sends every page for the new project.
SwapControl(m) ==
  /\ pc[m] = "control"
  /\ ctl' = Meaning(loaded[m])
  /\ Goto(m, "notify")
  /\ UNCHANGED <<disk, watched, up, todo, loaded, grpc, live, screen, setting, history>>

\* The screen gets an empty list of problems and the project.
Notify(m) ==
  /\ pc[m] = "notify"
  /\ screen' = [project |-> Meaning(loaded[m]), problems |-> FALSE]
  /\ Returns(m)
  /\ raced' = IF raced = "healing" THEN "no" ELSE raced
  /\ UNCHANGED <<disk, listed, changed, up, grpc, live, ctl, setting, promised, glimpsed>>

-----------------------------------------------------------------------------
(* The watcher, the `r` key, and the life of the process.                   *)

\* Mutant: a tick that sees changes keeps the snapshot it compared with.
PollKeepsSnapshot ==
  /\ up /\ pc[Watcher] = "idle"
  /\ IF changed # {}
       THEN pending' = pending \cup changed
            /\ UNCHANGED <<listed, changed, locals, raced, glimpsed>>
       ELSE pending # {} /\ StartsReload(Watcher) /\ UNCHANGED watched
  /\ UNCHANGED <<disk, up, served, setting, promised>>

\* One tick: changes are noted, and the first quiet tick reloads them.
Poll ==
  /\ up /\ pc[Watcher] = "idle"
  /\ IF changed # {}
       THEN /\ pending' = pending \cup changed /\ changed' = {} /\ listed' = Present
            /\ glimpsed' = glimpsed \ changed
            /\ UNCHANGED <<locals, raced>>
       ELSE pending # {} /\ StartsReload(Watcher) /\ UNCHANGED watched
  /\ UNCHANGED <<disk, up, served, setting, promised>>

PressR(m) ==
  /\ up /\ m \in Manual /\ pc[m] = "idle"
  /\ StartsReload(m)
  /\ UNCHANGED <<disk, watched, up, served, setting, promised>>

\* openSession takes the watcher's first snapshot before it loads the files.
Start ==
  /\ ~up /\ pc[Watcher] = "idle"
  /\ changed' = {} /\ listed' = Present
  /\ StartsReload(Watcher)
  /\ UNCHANGED <<disk, pending, up, served, setting, promised>>

\* Mutant: the watcher takes its first snapshot when everything is open.
OpenThenWatch ==
  /\ ~up /\ pc[Watcher] = "load" /\ todo[Watcher] = {}
  /\ LET c == loaded[Watcher]
         p == Meaning(c)
     IN IF Some(c, "problems") \/ Some(c, "overlap") \/ (HasGRPC(p) /\ Some(c, "badproto"))
          THEN UNCHANGED <<up, served>>
          ELSE /\ up' = TRUE /\ live' = p /\ ctl' = p
               /\ screen' = [project |-> p, problems |-> FALSE]
               /\ grpc' = IF HasGRPC(p) THEN p ELSE None
  /\ Returns(Watcher)
  /\ changed' = {} /\ listed' = Present
  /\ UNCHANGED <<disk, setting, history>>

\* At the start there is nothing to fall back to: whatever a reload would
\* survive ends the process.
Open ==
  /\ ~up /\ pc[Watcher] = "load" /\ todo[Watcher] = {}
  /\ LET c == loaded[Watcher]
         p == Meaning(c)
     IN IF Some(c, "problems") \/ Some(c, "overlap") \/ (HasGRPC(p) /\ Some(c, "badproto"))
          THEN UNCHANGED <<up, served>>
          ELSE /\ up' = TRUE /\ live' = p /\ ctl' = p
               /\ screen' = [project |-> p, problems |-> FALSE]
               /\ grpc' = IF HasGRPC(p) THEN p ELSE None
  /\ Returns(Watcher)
  /\ UNCHANGED <<disk, listed, changed, setting, history>>

Stop ==
  /\ up /\ up' = FALSE
  /\ changed' = {} /\ pending' = {}
  /\ pc' = [m \in Reloaders |-> "idle"]
  /\ todo' = [m \in Reloaders |-> {}]
  /\ loaded' = [m \in Reloaders |-> Nothing]
  /\ grpc' = None /\ live' = None /\ ctl' = None /\ screen' = NoScreen
  /\ raced' = "no" /\ glimpsed' = {}
  /\ UNCHANGED <<disk, listed, setting, promised>>

-----------------------------------------------------------------------------
(* The writers of the folder.                                               *)

\* A save gives the file a stamp it never had, and a file the snapshot lists is
\* missed; one that came after it and is gone again leaves no difference.
Saved(f, c) ==
  /\ disk' = [disk EXCEPT ![f] = c]
  /\ changed' = IF c.kind = "absent" /\ f \notin listed THEN changed \ {f}
                ELSE changed \cup {f}

Edit(f) ==
  /\ \E c \in Saves[f] : c # disk[f] /\ Saved(f, c)
  /\ promised' = [promised EXCEPT ![f] = [r \in Routes |-> None]]
  /\ UNCHANGED <<listed, pending, up, locals, served, setting, raced, glimpsed>>

SetBegins(s) ==
  /\ spc[s] = "idle"
  /\ \E g \in Goals :
       goal' = [goal EXCEPT ![s] = g]
  /\ spc' = [spc EXCEPT ![s] = "check"]
  /\ UNCHANGED <<disk, watched, up, locals, served, buf, history>>

SetReturns(s) ==
  /\ spc' = [spc EXCEPT ![s] = "idle"]
  /\ goal' = [goal EXCEPT ![s] = None]
  /\ buf' = [buf EXCEPT ![s] = None]

\* SetActive loads the project to find the route and its state: no such file
\* and problems of its own are errors, and there may be nothing to do.
SetChecks(s) ==
  /\ spc[s] = "check"
  /\ LET g == goal[s]
         c == disk[g.file]
     IN \/ /\ c.kind \in {"absent", "problems"}
           /\ SetReturns(s) /\ UNCHANGED promised
        \/ /\ c.kind \notin {"absent", "problems"} /\ c.act[g.route] = g.state
           /\ promised' = [promised EXCEPT ![g.file][g.route] = g.state]
           /\ SetReturns(s)
        \/ /\ c.kind \notin {"absent", "problems"} /\ c.act[g.route] # g.state
           /\ spc' = [spc EXCEPT ![s] = "read"]
           /\ UNCHANGED <<goal, buf, promised>>
  /\ UNCHANGED <<disk, watched, up, locals, served, raced, glimpsed>>

\* It then reads the file again and replaces the `active` line; a file that
\* has become unreadable, or is no longer YAML, is an error.
SetReads(s) ==
  /\ spc[s] = "read"
  /\ LET g == goal[s]
         c == disk[g.file]
     IN \/ c.kind \in {"absent", "problems"} /\ SetReturns(s)
        \/ /\ c.kind # "absent"
           /\ buf' = [buf EXCEPT ![s] = [c EXCEPT !.act[g.route] = g.state]]
           /\ spc' = [spc EXCEPT ![s] = "write"]
           /\ UNCHANGED goal
  /\ UNCHANGED <<disk, watched, up, locals, served, history>>

\* WriteFileAtomic: a temporary file no snapshot lists, then one rename.
SetWrites(s) ==
  /\ spc[s] = "write"
  /\ LET g == goal[s]
     IN /\ Saved(g.file, buf[s])
        /\ promised' = [promised EXCEPT ![g.file][g.route] = g.state]
  /\ SetReturns(s)
  /\ UNCHANGED <<listed, pending, up, locals, served, raced, glimpsed>>

\* Mutant: the error of the write is lost.
SetFailsSilently(s) ==
  /\ spc[s] = "write"
  /\ promised' = [promised EXCEPT ![goal[s].file][goal[s].route] = goal[s].state]
  /\ SetReturns(s)
  /\ UNCHANGED <<disk, watched, up, locals, served, raced, glimpsed>>

SetFails(s) ==
  /\ spc[s] = "write"
  /\ SetReturns(s)
  /\ UNCHANGED <<disk, watched, up, locals, served, history>>

-----------------------------------------------------------------------------
Reload(m) ==
  \/ ReadFile(m) \/ LoadFails(m) \/ BuildHandler(m)
  \/ SwapGRPC(m) \/ SwapLive(m) \/ SwapControl(m) \/ Notify(m)

Next ==
  \/ Start \/ Open \/ Stop \/ Poll
  \/ \E m \in Reloaders : Reload(m) \/ PressR(m)
  \/ \E f \in Files : Edit(f)
  \/ \E s \in Setters :
       SetBegins(s) \/ SetChecks(s) \/ SetReads(s) \/ SetWrites(s) \/ SetFails(s)

Spec == Init /\ [][Next]_vars

\* The watcher's goroutine keeps running: its sleep ends, and so does every
\* step of the reload it calls.
FairSpec == Spec /\ WF_vars(Poll) /\ WF_vars(Reload(Watcher))

-----------------------------------------------------------------------------
(* What the reload promises.                                                *)

AtRest == up /\ \A m \in Reloaders : pc[m] = "idle"

Settled == AtRest /\ changed = {} /\ pending = {}

Serves(p) ==
  /\ live = p /\ ctl = p /\ screen.project = p
  /\ grpc \in {None, p}

\* Once the watcher has nothing left to do, what the HTTP and gRPC servers, the
\* control API and the live screen answer from is what the folder holds.
ServesSaved == Settled /\ Good(disk) => Serves(Meaning(disk))

\* That is so unless two reloads have overlapped, and again after the next
\* reload that runs alone and is not refused; and unless the latest reload has
\* read a file that came and went between two snapshots, until the next one.
LoneReloadServesSaved == raced = "no" /\ glimpsed = {} => ServesSaved

\* Whatever reloads have come to that did not overlap, they leave the four
\* views on one project: a refused reload has not swapped some of them before
\* it was refused.
ViewsAgree == AtRest /\ raced = "no" => Serves(live)

\* The control API and its `reload` event never announce a project the HTTP
\* server does not serve yet: a client that hears of a reload and asks again
\* gets the new answer, unless another reload has come between.
AnnouncedIsServed ==
  [][raced = "no" /\ ctl' \notin {ctl, None} => live' = ctl']_vars

\* The screen lists problems after the last saved folder had some, and stops
\* listing them when it is good again, but for those of a file that came and
\* went between two snapshots, which stay until the next reload.
ScreenTellsProblems ==
  Settled /\ raced = "no" /\ glimpsed = {} =>
    /\ Some(disk, "problems") => screen.problems
    /\ Good(disk) => ~screen.problems

\* A state SetActive reported as saved stays in the file until somebody edits
\* the file or sets the same route again.
PersistKept ==
  \A f \in Files, r \in Routes :
    promised[f][r] # None => disk[f].act[r] = promised[f][r]

\* When the writers stop, a good folder is served in the end: a burst of saves
\* is not forgotten by the debouncing poller, nor is one during a reload, unless
\* a reload has read a file the poller's snapshots never listed.
SavedIsServed ==
  <>[][UNCHANGED disk]_disk /\ <>[](up /\ raced = "no" /\ glimpsed = {})
    => <>[](Good(disk) => Serves(Meaning(disk)))
=============================================================================
