------------------------- MODULE MachinaReloadProofs -------------------------
(***************************************************************************)
(* Proofs about MachinaReload, for any files, routes, reloading goroutines *)
(* and setters.                                                            *)
(***************************************************************************)
EXTENDS MachinaReload, Integers, FiniteSetTheorems, TLAPS

Steps == {"idle", "load", "grpc", "live", "control", "notify"}

Swapping == {"grpc", "live", "control", "notify"}

-----------------------------------------------------------------------------
(* Type correctness.                                                        *)

\* What a reload has read are files, and it has read all of them before it
\* swaps anything.
ReadTyped ==
  \A m \in Reloaders :
    /\ pc[m] # "idle" => \A f \in Files \ todo[m] : loaded[m][f] \in Content
    /\ pc[m] \in Swapping => todo[m] = {}

\* A setter has a goal until it returns, and a buffer to write.
SetTyped ==
  \A s \in Setters :
    /\ spc[s] # "idle" => goal[s] \in Goals
    /\ spc[s] = "write" => buf[s] \in Content

Typed == TypeOK /\ ReadTyped /\ SetTyped

LEMMA MeaningType ==
  ASSUME NEW c, \A f \in Files : c[f] \in Content
  PROVE  Meaning(c) \in Project
BY DEF Meaning, Project, Content

LEMMA NothingType == Nothing \in [Files -> Content \cup {None}]
BY DEF Nothing

LEMMA GotoType ==
  ASSUME Typed, NEW m \in Reloaders, NEW l \in Steps, Goto(m, l)
  PROVE  /\ pc' \in [Reloaders -> Steps]
         /\ pc'[m] = l /\ \A o \in Reloaders \ {m} : pc'[o] = pc[o]
BY DEF Goto, Typed, TypeOK, Steps

\* The three ways a step moves a reload.
LEMMA StartType ==
  ASSUME Typed, NEW m \in Reloaders, StartsReload(m)
  PROVE  /\ pc' \in [Reloaders -> Steps] /\ todo' \in [Reloaders -> SUBSET Files]
         /\ loaded' \in [Reloaders -> [Files -> Content \cup {None}]]
         /\ raced' \in {"no", "yes", "healing"} /\ glimpsed' \in SUBSET Files
         /\ ReadTyped'
<1>1. /\ pc' \in [Reloaders -> Steps] /\ pc'[m] = "load"
      /\ \A o \in Reloaders \ {m} : pc'[o] = pc[o]
  BY GotoType DEF StartsReload, Steps
<1>2. /\ todo' \in [Reloaders -> SUBSET Files] /\ todo'[m] = Files
      /\ \A o \in Reloaders \ {m} : todo'[o] = todo[o]
  BY DEF StartsReload, Typed, TypeOK
<1>3. /\ loaded' \in [Reloaders -> [Files -> Content \cup {None}]]
      /\ \A o \in Reloaders \ {m} : loaded'[o] = loaded[o]
  BY NothingType DEF StartsReload, Typed, TypeOK
<1>4. raced' \in {"no", "yes", "healing"} /\ glimpsed' \in SUBSET Files
  BY DEF StartsReload
<1>5. ReadTyped'
  BY <1>1, <1>2, <1>3 DEF ReadTyped, Typed, Swapping
<1> QED
  BY <1>1, <1>2, <1>3, <1>4, <1>5

LEMMA ReturnType ==
  ASSUME Typed, NEW m \in Reloaders, Returns(m)
  PROVE  /\ pc' \in [Reloaders -> Steps] /\ todo' \in [Reloaders -> SUBSET Files]
         /\ loaded' \in [Reloaders -> [Files -> Content \cup {None}]]
         /\ pending' \in SUBSET Files
         /\ ReadTyped'
<1>1. /\ pc' \in [Reloaders -> Steps] /\ pc'[m] = "idle"
      /\ \A o \in Reloaders \ {m} : pc'[o] = pc[o]
  BY GotoType DEF Returns, Steps
<1>2. /\ todo' \in [Reloaders -> SUBSET Files]
      /\ \A o \in Reloaders \ {m} : todo'[o] = todo[o]
  BY DEF Returns, Typed, TypeOK
<1>3. /\ loaded' \in [Reloaders -> [Files -> Content \cup {None}]]
      /\ \A o \in Reloaders \ {m} : loaded'[o] = loaded[o]
  BY NothingType DEF Returns, Typed, TypeOK
<1>4. pending' \in SUBSET Files
  BY DEF Returns, Typed, TypeOK
<1>5. ReadTyped'
  BY <1>1, <1>2, <1>3 DEF ReadTyped, Typed, Swapping
<1> QED
  BY <1>1, <1>2, <1>3, <1>4, <1>5

LEMMA MoveType ==
  ASSUME Typed, NEW m \in Reloaders, NEW l \in Swapping, Goto(m, l),
         todo[m] = {}, pc[m] # "idle", UNCHANGED <<todo, loaded>>
  PROVE  pc' \in [Reloaders -> Steps] /\ ReadTyped'
BY GotoType DEF Swapping, Steps, ReadTyped, Typed

\* A step of a reload preserves the types.
LEMMA ReloadTyped ==
  ASSUME Typed, NEW m \in Reloaders, Reload(m)
  PROVE  Typed'
<1> USE DEF Steps
<1>1. CASE ReadFile(m)
  <2>1. PICK f \in todo[m] : /\ todo' = [todo EXCEPT ![m] = @ \ {f}]
                             /\ loaded' = [loaded EXCEPT ![m][f] = disk[f]]
    BY <1>1 DEF ReadFile
  <2>2. f \in Files /\ disk[f] \in Content
    BY <2>1 DEF Typed, TypeOK
  <2>3. /\ todo' \in [Reloaders -> SUBSET Files] /\ todo'[m] = todo[m] \ {f}
        /\ \A o \in Reloaders \ {m} : todo'[o] = todo[o]
    BY <2>1 DEF Typed, TypeOK
  <2>4. /\ loaded' \in [Reloaders -> [Files -> Content \cup {None}]]
        /\ loaded'[m] = [loaded[m] EXCEPT ![f] = disk[f]]
        /\ \A o \in Reloaders \ {m} : loaded'[o] = loaded[o]
    BY <2>1, <2>2 DEF Typed, TypeOK
  <2>5. loaded[m] \in [Files -> Content \cup {None}]
    BY DEF Typed, TypeOK
  <2>6. ReadTyped'
    BY <1>1, <2>2, <2>3, <2>4, <2>5 DEF ReadFile, ReadTyped, Typed, Swapping
  <2>7. UNCHANGED <<disk, watched, up, pc, served, setting, promised, raced>>
    BY <1>1 DEF ReadFile
  <2>8. glimpsed' \in SUBSET Files
    BY <1>1 DEF ReadFile, Present, Typed, TypeOK
  <2> QED
    BY <2>3, <2>4, <2>6, <2>7, <2>8
    DEF Typed, TypeOK, SetTyped, watched, served, setting, history
<1>2. CASE LoadFails(m)
  <2>1. /\ screen' \in [project : Project \cup {None}, problems : BOOLEAN]
        /\ raced' \in {"no", "yes", "healing"}
        /\ UNCHANGED <<disk, listed, glimpsed, changed, up, grpc, live, ctl, setting, promised>>
    BY <1>2 DEF LoadFails, Refused, Typed, TypeOK
  <2> QED
    BY <1>2, <2>1, ReturnType DEF LoadFails, Refused, Typed, TypeOK, SetTyped, setting
<1>3. CASE BuildHandler(m)
  <2>1. /\ raced' \in {"no", "yes", "healing"}
        /\ UNCHANGED <<disk, listed, glimpsed, changed, up, served, setting, promised>>
    BY <1>3 DEF BuildHandler, Refused, Typed, TypeOK
  <2>2. CASE Returns(m)
    BY <2>1, <2>2, ReturnType DEF Typed, TypeOK, SetTyped, served, setting
  <2>3. CASE Goto(m, "grpc") /\ UNCHANGED <<todo, loaded, pending, raced>>
    <3>1. todo[m] = {} /\ pc[m] # "idle"
      BY <1>3 DEF BuildHandler, Loaded
    <3>2. pc' \in [Reloaders -> Steps] /\ ReadTyped'
      BY <2>3, <3>1, MoveType DEF Swapping
    <3> QED
      BY <2>1, <2>3, <3>2 DEF Typed, TypeOK, SetTyped, served, setting
  <2> QED
    BY <1>3, <2>2, <2>3 DEF BuildHandler, Refused
<1>4. ASSUME pc[m] \in Swapping
      PROVE  Meaning(loaded[m]) \in Project /\ todo[m] = {} /\ pc[m] # "idle"
  BY <1>4, MeaningType DEF Typed, ReadTyped, Swapping
<1>5. CASE SwapGRPC(m)
  <2>1. pc[m] \in Swapping /\ Meaning(loaded[m]) \in Project /\ todo[m] = {} /\ pc[m] # "idle"
    BY <1>4, <1>5 DEF SwapGRPC, Swapping
  <2>2. /\ grpc' \in Project \cup {None} /\ raced' \in {"no", "yes", "healing"}
        /\ UNCHANGED <<disk, listed, glimpsed, changed, up, live, ctl, screen, setting, promised>>
    BY <1>5, <2>1 DEF SwapGRPC, Refused, Typed, TypeOK
  <2>3. CASE Returns(m)
    BY <2>2, <2>3, ReturnType DEF Typed, TypeOK, SetTyped, setting
  <2>4. CASE Goto(m, "live") /\ UNCHANGED <<todo, loaded, pending, raced>>
    <3>1. pc' \in [Reloaders -> Steps] /\ ReadTyped'
      BY <2>1, <2>4, MoveType DEF Swapping
    <3> QED
      BY <2>2, <2>4, <3>1 DEF Typed, TypeOK, SetTyped, setting
  <2> QED
    BY <1>5, <2>3, <2>4 DEF SwapGRPC, Refused
<1>6. CASE SwapLive(m)
  <2>1. Meaning(loaded[m]) \in Project /\ todo[m] = {} /\ pc[m] # "idle"
    BY <1>4, <1>6 DEF SwapLive, Swapping
  <2>2. pc' \in [Reloaders -> Steps] /\ ReadTyped'
    BY <1>6, <2>1, MoveType DEF SwapLive, Swapping
  <2> QED
    BY <1>6, <2>1, <2>2
    DEF SwapLive, Typed, TypeOK, SetTyped, setting, watched, history
<1>7. CASE SwapControl(m)
  <2>1. Meaning(loaded[m]) \in Project /\ todo[m] = {} /\ pc[m] # "idle"
    BY <1>4, <1>7 DEF SwapControl, Swapping
  <2>2. pc' \in [Reloaders -> Steps] /\ ReadTyped'
    BY <1>7, <2>1, MoveType DEF SwapControl, Swapping
  <2> QED
    BY <1>7, <2>1, <2>2
    DEF SwapControl, Typed, TypeOK, SetTyped, setting, watched, history
<1>8. CASE Notify(m)
  <2>1. Meaning(loaded[m]) \in Project
    BY <1>4, <1>8 DEF Notify, Swapping
  <2>2. /\ screen' \in [project : Project \cup {None}, problems : BOOLEAN]
        /\ raced' \in {"no", "yes", "healing"}
        /\ UNCHANGED <<disk, listed, glimpsed, changed, up, grpc, live, ctl, setting, promised>>
    BY <1>8, <2>1 DEF Notify, Typed, TypeOK
  <2> QED
    BY <1>8, <2>2, ReturnType DEF Notify, Typed, TypeOK, SetTyped, setting
<1> QED
  BY <1>1, <1>2, <1>3, <1>5, <1>6, <1>7, <1>8 DEF Reload

\* So does a step of the process and its watcher.
LEMMA ProcessTyped ==
  ASSUME Typed, Start \/ Open \/ Stop \/ Poll \/ \E m \in Reloaders : PressR(m)
  PROVE  Typed'
<1> USE DEF Steps
<1>0. Watcher \in Reloaders
  BY DEF Reloaders
<1>1. CASE Start
  BY <1>0, <1>1, StartType
  DEF Start, Present, Typed, TypeOK, SetTyped, served, setting
<1>2. CASE Open
  <2>1. Meaning(loaded[Watcher]) \in Project
    BY <1>0, <1>2, MeaningType DEF Open, Typed, ReadTyped
  <2>2. /\ up' \in BOOLEAN /\ grpc' \in Project \cup {None}
        /\ live' \in Project \cup {None} /\ ctl' \in Project \cup {None}
        /\ screen' \in [project : Project \cup {None}, problems : BOOLEAN]
        /\ UNCHANGED <<disk, listed, changed, setting, history>>
    <3> DEFINE p == Meaning(loaded[Watcher])
    <3>1. \/ UNCHANGED <<up, served>>
          \/ /\ up' = TRUE /\ live' = p /\ ctl' = p
             /\ screen' = [project |-> p, problems |-> FALSE]
             /\ grpc' \in {p, None}
      BY <1>2 DEF Open
    <3>2. UNCHANGED <<disk, listed, changed, setting, history>>
      BY <1>2 DEF Open
    <3>3. CASE UNCHANGED <<up, served>>
      BY <3>2, <3>3 DEF Typed, TypeOK, served
    <3>4. p \in Project
      BY <2>1
    <3> HIDE DEF p
    <3>5. CASE /\ up' = TRUE /\ live' = p /\ ctl' = p
               /\ screen' = [project |-> p, problems |-> FALSE]
               /\ grpc' \in {p, None}
      <4>1. /\ grpc' \in Project \cup {None} /\ live' \in Project \cup {None}
            /\ ctl' \in Project \cup {None} /\ up' \in BOOLEAN
        BY <3>4, <3>5
      <4>2. screen' \in [project : Project \cup {None}, problems : BOOLEAN]
        BY <3>4, <3>5
      <4> QED
        BY <3>2, <4>1, <4>2
    <3> QED
      BY <3>1, <3>3, <3>5
  <2>3. Returns(Watcher)
    BY <1>2 DEF Open
  <2> QED
    BY <1>0, <2>2, <2>3, ReturnType DEF Typed, TypeOK, SetTyped, setting, history
<1>3. CASE Stop
  BY <1>3, NothingType DEF Stop, Typed, TypeOK, SetTyped, ReadTyped, setting, NoScreen, Swapping
<1>4. CASE Poll
  <2>1. CASE changed # {}
    BY <1>4, <2>1 DEF Poll, Present, Typed, TypeOK, SetTyped, ReadTyped, locals, served, setting
  <2>2. CASE changed = {}
    BY <1>0, <1>4, <2>2, StartType DEF Poll, Typed, TypeOK, SetTyped, watched, served, setting
  <2> QED
    BY <2>1, <2>2
<1>5. ASSUME NEW m \in Reloaders, PressR(m) PROVE Typed'
  BY <1>5, StartType DEF PressR, Typed, TypeOK, SetTyped, watched, served, setting
<1> QED
  BY <1>1, <1>2, <1>3, <1>4, <1>5

\* So do the writers of the folder.
LEMMA WritersTyped ==
  ASSUME Typed,
         \/ \E f \in Files : Edit(f)
         \/ \E s \in Setters :
              SetBegins(s) \/ SetChecks(s) \/ SetReads(s) \/ SetWrites(s) \/ SetFails(s)
  PROVE  Typed'
<1>1. ASSUME NEW f \in Files, Edit(f) PROVE Typed'
  <2>1. PICK c \in Saves[f] : Saved(f, c)
    BY <1>1 DEF Edit
  <2>2. c \in Content
    BY <2>1, ReloadAssumption
  <2>3. disk' \in [Files -> Content] /\ changed' \in SUBSET Files
    BY <2>1, <2>2 DEF Saved, Typed, TypeOK
  <2> QED
    BY <1>1, <2>3 DEF Edit, Typed, TypeOK, ReadTyped, SetTyped, locals, served, setting
<1>2. ASSUME NEW s \in Setters,
             SetBegins(s) \/ SetChecks(s) \/ SetReads(s) \/ SetWrites(s) \/ SetFails(s)
      PROVE  Typed'
  <2>0. spc[s] # "idle" => /\ goal[s] \in Goals /\ goal[s].file \in Files
                           /\ goal[s].route \in Routes /\ goal[s].state \in States
    BY ReloadAssumption DEF Typed, SetTyped, Goal
  <2>1. CASE SetBegins(s)
    BY <2>1 DEF SetBegins, Typed, TypeOK, ReadTyped, SetTyped, watched, locals, served, history
  <2>2. CASE SetChecks(s)
    <3>1. promised' \in [Files -> [Routes -> States \cup {None}]]
      <4>1. \/ promised' = promised
            \/ promised' = [promised EXCEPT ![goal[s].file][goal[s].route] = goal[s].state]
        BY <2>2, ZenonT(30) DEF SetChecks
      <4>2. /\ goal[s].file \in Files /\ goal[s].route \in Routes
            /\ goal[s].state \in States
        BY <2>0, <2>2 DEF SetChecks
      <4>3. ASSUME NEW f \in Files, NEW r \in Routes, NEW st \in States
            PROVE  [promised EXCEPT ![f][r] = st] \in [Files -> [Routes -> States \cup {None}]]
        BY DEF Typed, TypeOK
      <4>4. promised \in [Files -> [Routes -> States \cup {None}]]
        BY DEF Typed, TypeOK
      <4> QED
        BY <4>1, <4>2, <4>3, <4>4
    <3>2. /\ spc' \in [Setters -> {"idle", "check", "read", "write"}]
          /\ goal' \in [Setters -> Goals \cup {None}]
          /\ buf' \in [Setters -> Content \cup {None}]
      BY <2>2 DEF SetChecks, SetReturns, Typed, TypeOK
    <3>3. SetTyped'
      BY <2>0, <2>2, ZenonT(60) DEF SetChecks, SetReturns, Typed, TypeOK, SetTyped
    <3> QED
      BY <2>2, <3>1, <3>2, <3>3 DEF SetChecks, Typed, TypeOK, ReadTyped, watched, locals, served
  <2>3. CASE SetReads(s)
    <3>1. [disk[goal[s].file] EXCEPT !.act[goal[s].route] = goal[s].state] \in Content
      <4>1. /\ goal[s].file \in Files /\ goal[s].route \in Routes
            /\ goal[s].state \in States
        BY <2>0, <2>3 DEF SetReads
      <4>2. disk[goal[s].file] \in Content
        BY <4>1 DEF Typed, TypeOK
      <4>3. ASSUME NEW c \in Content, NEW r \in Routes, NEW st \in States
            PROVE  [c EXCEPT !.act[r] = st] \in Content
        <5>1. c.act \in [Routes -> States] /\ c.kind \in Kinds
          BY <4>3 DEF Content
        <5>2. [c.act EXCEPT ![r] = st] \in [Routes -> States]
          BY <5>1
        <5>3. [c EXCEPT !.act[r] = st] = [act |-> [c.act EXCEPT ![r] = st], kind |-> c.kind]
          BY <4>3 DEF Content
        <5> QED
          BY <5>1, <5>2, <5>3 DEF Content
      <4> QED
        BY <4>1, <4>2, <4>3
    <3>2. /\ spc' \in [Setters -> {"idle", "check", "read", "write"}]
          /\ goal' \in [Setters -> Goals \cup {None}]
          /\ buf' \in [Setters -> Content \cup {None}]
      <4> DEFINE b == [disk[goal[s].file] EXCEPT !.act[goal[s].route] = goal[s].state]
      <4>1. b \in Content
        BY <3>1
      <4> HIDE DEF b
      <4>2. \/ SetReturns(s)
            \/ /\ buf' = [buf EXCEPT ![s] = b]
               /\ spc' = [spc EXCEPT ![s] = "write"]
               /\ goal' = goal
        BY <2>3 DEF SetReads, b
      <4>3. CASE SetReturns(s)
        BY <4>3 DEF SetReturns, Typed, TypeOK
      <4>4. CASE /\ buf' = [buf EXCEPT ![s] = b]
                 /\ spc' = [spc EXCEPT ![s] = "write"]
                 /\ goal' = goal
        BY <4>1, <4>4 DEF Typed, TypeOK
      <4> QED
        BY <4>2, <4>3, <4>4
    <3>3. SetTyped'
      BY <2>0, <2>3, <3>1, ZenonT(60) DEF SetReads, SetReturns, Typed, TypeOK, SetTyped
    <3> QED
      BY <2>3, <3>2, <3>3 DEF SetReads, Typed, TypeOK, ReadTyped, watched, locals, served, history
  <2>4. CASE SetWrites(s)
    <3>1. /\ disk' \in [Files -> Content] /\ changed' \in SUBSET Files
          /\ promised' \in [Files -> [Routes -> States \cup {None}]]
      BY <2>0, <2>4 DEF SetWrites, Saved, Typed, TypeOK, SetTyped
    <3>2. /\ spc' \in [Setters -> {"idle", "check", "read", "write"}]
          /\ goal' \in [Setters -> Goals \cup {None}]
          /\ buf' \in [Setters -> Content \cup {None}]
          /\ SetTyped'
      BY <2>4 DEF SetWrites, SetReturns, Typed, TypeOK, SetTyped
    <3> QED
      BY <2>4, <3>1, <3>2 DEF SetWrites, Typed, TypeOK, ReadTyped, locals, served
  <2>5. CASE SetFails(s)
    BY <2>5 DEF SetFails, SetReturns, Typed, TypeOK, ReadTyped, SetTyped,
                watched, locals, served, history
  <2> QED
    BY <1>2, <2>1, <2>2, <2>3, <2>4, <2>5
<1> QED
  BY <1>1, <1>2

LEMMA TypedStep == Typed /\ [Next]_vars => Typed'
<1>1. ASSUME Typed, UNCHANGED vars PROVE Typed'
  BY <1>1 DEF vars, watched, locals, served, setting, history, Typed, TypeOK, ReadTyped, SetTyped
<1> QED
  BY <1>1, ReloadTyped, ProcessTyped, WritersTyped DEF Next

LEMMA AlwaysTyped == Spec => []Typed
<1>1. Init => Typed
  <2> SUFFICES ASSUME Init PROVE Typed
    OBVIOUS
  <2>1. disk \in [Files -> Content] /\ loaded \in [Reloaders -> [Files -> Content \cup {None}]]
    BY NothingType DEF Init
  <2>2. promised \in [Files -> [Routes -> States \cup {None}]]
    BY DEF Init
  <2>3. TypeOK
    BY <2>1, <2>2 DEF Init, TypeOK, NoScreen
  <2> QED
    BY <2>3 DEF Init, Typed, ReadTyped, SetTyped, Swapping
<1> QED
  BY <1>1, TypedStep, PTL DEF Spec

\* Every view holds a project or nothing, every reload reads whole files, and
\* no call of SetActive writes anything but a file.
THEOREM ReloadTypeCorrect == Spec => []TypeOK
BY AlwaysTyped, PTL DEF Typed

-----------------------------------------------------------------------------
(* Reloads that do not overlap.                                             *)

\* `raced` counts every overlap: without one, a single goroutine reloads.
AtMostOne ==
  raced # "yes" =>
    \A m, o \in Reloaders : pc[m] # "idle" /\ pc[o] # "idle" => m = o

\* Before it serves, a process only loads, and only in the watcher's place.
Booting ==
  ~up => /\ raced = "no" /\ pc[Watcher] \in {"idle", "load"}
         /\ \A m \in Manual : pc[m] = "idle"

\* Contents a server cannot tell apart: it has no use for what an absent file
\* would hold.
Same(c, d) == c = d \/ (c.kind = "absent" /\ d.kind = "absent")

\* A file of which a reload has read c is one that the watcher has still to
\* reload (it waits), or one that came and went, or c holds, or the next
\* snapshot will differ from the last, which listed it if it was there.
Current(f, c, waiting) ==
  \/ f \in waiting \cup glimpsed
  \/ /\ c.kind # "absent" => f \in listed
     /\ f \in changed \/ Same(c, disk[f])

\* What the watcher itself reloads no longer waits.
Waiting(m) == IF m = Watcher THEN {} ELSE pending

Fresh(m) == \A f \in Files \ todo[m] : Current(f, loaded[m][f], Waiting(m))

ReadsDisk == raced # "yes" => \A m \in Reloaders : pc[m] # "idle" => Fresh(m)

\* The views swapped so far are on the project that was read.
Swapped(m) ==
  /\ pc[m] \in {"live", "control", "notify"} => grpc \in {None, Meaning(loaded[m])}
  /\ pc[m] \in {"control", "notify"} => live = Meaning(loaded[m])
  /\ pc[m] = "notify" => ctl = Meaning(loaded[m])

SwapsInOrder == raced # "yes" => \A m \in Reloaders : Swapped(m)

\* Until the first swap, which is past every refusal, the views agree.
ViewsStill ==
  raced = "no" /\ up /\ (\A m \in Reloaders : pc[m] \in {"idle", "load", "grpc"})
    => Serves(live)

\* What the last reload read differs from the folder only where the watcher
\* has something to do, and is served if it could be.
LastRead ==
  AtRest /\ raced = "no" =>
    \E c \in [Files -> Content \cup {None}] :
      /\ \A f \in Files : Current(f, c[f], pending)
      /\ Good(c) => Serves(Meaning(c))

\* A step after which nothing that was current is forgotten.
StaysCurrent ==
  \A f \in Files : \A c :
    /\ Current(f, c, pending) => Current(f, c, pending)'
    /\ pc[Watcher] # "idle" => (Current(f, c, {}) => Current(f, c, {})')

LoneInv == AtMostOne /\ Booting /\ ReadsDisk /\ SwapsInOrder /\ ViewsStill /\ LastRead

LEMMA SameProject ==
  ASSUME NEW c, NEW d, \A f \in Files : Same(c[f], d[f])
  PROVE  /\ Meaning(c) = Meaning(d) /\ Good(c) = Good(d)
         /\ Some(c, "problems") = Some(d, "problems")
<1>1. Meaning(c) = Meaning(d)
  <2>1. \A f \in Files : (IF c[f].kind = "absent" THEN None ELSE c[f].act)
                         = (IF d[f].kind = "absent" THEN None ELSE d[f].act)
    BY DEF Same
  <2> QED
    BY <2>1 DEF Meaning
<1> QED
  BY <1>1 DEF Same, Good, Some

LEMMA StillCurrent ==
  ASSUME UNCHANGED <<disk, listed, glimpsed, changed, pending>>
  PROVE  StaysCurrent
BY DEF StaysCurrent, Current

\* A file the last snapshot lists differs from it when it is gone; one it does
\* not list, and of which a reload has read something, is glimpsed.
LEMMA SavedCurrent ==
  ASSUME Typed, NEW g \in Files, NEW d, Saved(g, d), UNCHANGED <<listed, glimpsed, pending>>
  PROVE  StaysCurrent
<1>1. disk'[g] = d /\ \A f \in Files \ {g} : disk'[f] = disk[f]
  BY DEF Saved, Typed, TypeOK
<1>2. \A f \in Files : \A c, w : Current(f, c, w) => Current(f, c, w)'
  <2> SUFFICES ASSUME NEW f \in Files, NEW c, NEW w, Current(f, c, w),
                      f \notin w \cup glimpsed
               PROVE  Current(f, c, w)'
    BY DEF Current
  <2>1. CASE f # g
    BY <1>1, <2>1 DEF Current, Saved
  <2>2. CASE f = g
    BY <1>1, <2>2 DEF Current, Saved, Same
  <2> QED
    BY <2>1, <2>2
<1>3. pending' = pending
  OBVIOUS
<1> QED
  BY <1>2, <1>3 DEF StaysCurrent, Current

\* A tick makes what differed wait.
LEMMA PollCurrent ==
  ASSUME Typed, Poll, changed # {}
  PROVE  StaysCurrent
<1>1. /\ pc[Watcher] = "idle" /\ pending' = pending \cup changed /\ changed' = {}
      /\ listed' = Present /\ glimpsed' = glimpsed \ changed /\ disk' = disk
  BY DEF Poll
<1> QED
  BY <1>1 DEF StaysCurrent, Current, Present, Same

\* A reload begins, alone or not.
LEMMA StartLone ==
  ASSUME Typed, LoneInv, NEW m \in Reloaders, pc[m] = "idle", StartsReload(m),
         up \/ m = Watcher, UNCHANGED <<disk, up, served>>
  PROVE  LoneInv'
<1>1. /\ pc'[m] = "load" /\ \A o \in Reloaders \ {m} : pc'[o] = pc[o]
      /\ todo'[m] = Files
  BY GotoType DEF StartsReload, Steps, Typed, TypeOK
<1>2. CASE \E o \in Reloaders \ {m} : pc[o] # "idle"
  <2>1. raced' = "yes"
    BY <1>2 DEF StartsReload
  <2>2. up
    BY <1>2 DEF LoneInv, Booting, Reloaders
  <2> QED
    BY <2>1, <2>2 DEF LoneInv, AtMostOne, Booting, ReadsDisk, SwapsInOrder,
                      ViewsStill, LastRead
<1>3. CASE \A o \in Reloaders \ {m} : pc[o] = "idle"
  <2>1. raced' = IF raced = "no" THEN "no" ELSE "healing"
    BY <1>3 DEF StartsReload
  <2>2. \A o \in Reloaders \ {m} : pc'[o] = "idle"
    BY <1>1, <1>3
  <2>3. AtMostOne'
    BY <2>2 DEF AtMostOne
  <2>4. Booting'
    BY <1>1, <2>1, <2>2, ReloadAssumption DEF LoneInv, Booting, Reloaders
  <2>5. ReadsDisk' /\ SwapsInOrder'
    BY <1>1, <2>2 DEF ReadsDisk, SwapsInOrder, Swapped, Fresh
  <2>6. ViewsStill'
    BY <1>3, <2>1 DEF LoneInv, ViewsStill, Serves, served
  <2>7. LastRead'
    BY <1>1 DEF LastRead, AtRest
  <2> QED
    BY <2>3, <2>4, <2>5, <2>6, <2>7 DEF LoneInv
<1> QED
  BY <1>2, <1>3

\* A reload that was refused before its first swap, and one that is done.
RefusedEnd(m) ==
  /\ pc[m] \in {"load", "grpc"} /\ ~Good(loaded[m])
  /\ UNCHANGED <<grpc, live, ctl>> /\ screen'.project = screen.project
  /\ raced' = IF raced = "healing" THEN "yes" ELSE raced

DoneEnd(m) ==
  /\ pc[m] = "notify"
  /\ UNCHANGED <<grpc, live, ctl>> /\ screen'.project = Meaning(loaded[m])
  /\ raced' = IF raced = "healing" THEN "no" ELSE raced

LEMMA ReturnLone ==
  ASSUME Typed, LoneInv, NEW m \in Reloaders, up, pc[m] # "idle", todo[m] = {},
         Returns(m), UNCHANGED <<disk, listed, glimpsed, changed, up>>,
         RefusedEnd(m) \/ DoneEnd(m)
  PROVE  LoneInv'
<1>1. pc'[m] = "idle" /\ \A o \in Reloaders \ {m} : pc'[o] = pc[o]
  BY GotoType DEF Returns, Steps
<1>2. Booting'
  BY DEF Booting
<1>3. CASE raced' = "yes"
  BY <1>2, <1>3 DEF LoneInv, AtMostOne, ReadsDisk, SwapsInOrder, ViewsStill, LastRead
<1>4. CASE raced' # "yes"
  <2>1. raced # "yes"
    BY <1>4 DEF RefusedEnd, DoneEnd
  <2>2. \A o \in Reloaders : pc'[o] = "idle"
    BY <1>1, <2>1 DEF LoneInv, AtMostOne
  <2>3. AtMostOne' /\ ReadsDisk' /\ SwapsInOrder'
    BY <2>2 DEF AtMostOne, ReadsDisk, SwapsInOrder, Swapped
  <2>0. PICK c : c = loaded[m]
    OBVIOUS
  <2>4. \A f \in Files : Current(f, c[f], pending)'
    <3>1. \A f \in Files : Current(f, c[f], Waiting(m))
      BY <2>0, <2>1 DEF LoneInv, ReadsDisk, Fresh
    <3>2. pending' = Waiting(m)
      BY DEF Returns, Waiting
    <3> QED
      BY <3>1, <3>2 DEF Current
  <2>5. c \in [Files -> Content \cup {None}]
    BY <2>0 DEF Typed, TypeOK
  <2>6. CASE RefusedEnd(m)
    <3>1. raced' = "no" => raced = "no"
      BY <2>6 DEF RefusedEnd
    <3>2. \A o \in Reloaders : pc[o] \in {"idle", "load", "grpc"}
      BY <2>1, <2>6 DEF RefusedEnd, LoneInv, AtMostOne
    <3>3. ViewsStill'
      BY <2>6, <3>1, <3>2 DEF RefusedEnd, LoneInv, ViewsStill, Serves
    <3>4. LastRead'
      BY <2>0, <2>4, <2>5, <2>6 DEF RefusedEnd, LastRead
    <3> QED
      BY <1>2, <2>3, <3>3, <3>4 DEF LoneInv
  <2>7. CASE DoneEnd(m)
    <3>1. PICK p : p = Meaning(loaded[m])
      OBVIOUS
    <3>3. grpc \in {None, p} /\ live = p /\ ctl = p
      BY <2>1, <2>7, <3>1 DEF DoneEnd, LoneInv, SwapsInOrder, Swapped
    <3>4. grpc' \in {None, p} /\ live' = p /\ ctl' = p /\ screen'.project = p
      BY <2>7, <3>1, <3>3 DEF DoneEnd
    <3>5. Serves(p)'
      BY <3>4 DEF Serves
    <3>6. ViewsStill'
      BY <3>4 DEF ViewsStill, Serves
    <3>7. LastRead'
      <4>1. c \in [Files -> Content \cup {None}] /\ p = Meaning(c)
        BY <2>0, <2>5, <3>1
      <4>3. (Good(c) => Serves(Meaning(c)))'
        BY <3>5, <4>1
      <4> QED
        BY <2>4, <4>1, <4>3 DEF LastRead
    <3> QED
      BY <1>2, <2>3, <3>6, <3>7 DEF LoneInv
  <2> QED
    BY <2>6, <2>7
<1> QED
  BY <1>3, <1>4

\* A step that moves no reload and forgets nothing that was current.
LEMMA WatchedLone ==
  ASSUME Typed, LoneInv, UNCHANGED <<up, locals, served, raced>>, StaysCurrent
  PROVE  LoneInv'
<1> USE DEF locals, served
<1>1. AtMostOne' /\ Booting' /\ SwapsInOrder' /\ ViewsStill'
  BY DEF LoneInv, AtMostOne, Booting, SwapsInOrder, Swapped, ViewsStill, Serves
<1>2. ReadsDisk'
  <2> SUFFICES ASSUME raced # "yes", NEW m \in Reloaders, pc[m] # "idle",
                      NEW f \in Files \ todo[m]
               PROVE  Current(f, loaded[m][f], Waiting(m))'
    BY DEF ReadsDisk, Fresh
  <2>1. Current(f, loaded[m][f], Waiting(m))
    BY DEF LoneInv, ReadsDisk, Fresh
  <2>2. PICK c : c = loaded[m][f]
    OBVIOUS
  <2>3. CASE m = Watcher
    <3>1. Current(f, c, {})
      BY <2>1, <2>2, <2>3 DEF Waiting
    <3>2. Current(f, c, {})'
      BY <2>3, <3>1 DEF StaysCurrent
    <3> QED
      BY <2>2, <2>3, <3>2 DEF Waiting
  <2>4. CASE m # Watcher
    <3>1. Current(f, c, pending)
      BY <2>1, <2>2, <2>4 DEF Waiting
    <3>2. Current(f, c, pending)'
      BY <3>1 DEF StaysCurrent
    <3> QED
      BY <2>2, <2>4, <3>2 DEF Waiting
  <2> QED
    BY <2>3, <2>4
<1>3. LastRead'
  <2> SUFFICES ASSUME AtRest, raced = "no" PROVE LastRead'
    BY DEF LastRead, AtRest
  <2>1. PICK c \in [Files -> Content \cup {None}] :
          /\ \A f \in Files : Current(f, c[f], pending)
          /\ Good(c) => Serves(Meaning(c))
    BY DEF LoneInv, LastRead
  <2>2. (Good(c) => Serves(Meaning(c)))'
    BY <2>1 DEF Serves
  <2>3. \A f \in Files : Current(f, c[f], pending)'
    BY <2>1 DEF StaysCurrent
  <2> QED
    BY <2>2, <2>3 DEF LastRead
<1> QED
  BY <1>1, <1>2, <1>3 DEF LoneInv

LEMMA WritersCurrent ==
  ASSUME Typed,
         \/ \E f \in Files : Edit(f)
         \/ \E s \in Setters :
              SetBegins(s) \/ SetChecks(s) \/ SetReads(s) \/ SetWrites(s) \/ SetFails(s)
  PROVE  UNCHANGED <<up, locals, served, raced>> /\ StaysCurrent
<1>1. /\ UNCHANGED <<listed, glimpsed, pending, up, locals, served, raced>>
      /\ \/ UNCHANGED <<disk, changed>>
         \/ \E f \in Files : \E c : Saved(f, c)
  BY ReloadAssumption
  DEF Edit, SetBegins, SetChecks, SetReads, SetWrites, SetFails, Typed, SetTyped,
      watched, history, Goal
<1> QED
  BY <1>1, StillCurrent, SavedCurrent

LEMMA WritersLone ==
  ASSUME Typed, LoneInv,
         \/ \E f \in Files : Edit(f)
         \/ \E s \in Setters :
              SetBegins(s) \/ SetChecks(s) \/ SetReads(s) \/ SetWrites(s) \/ SetFails(s)
  PROVE  LoneInv'
<1>1. UNCHANGED <<up, locals, served, raced>> /\ StaysCurrent
  BY WritersCurrent
<1> QED
  BY <1>1, WatchedLone

\* A step of a reload.
LEMMA ReloadLone ==
  ASSUME Typed, LoneInv, NEW m \in Reloaders, Reload(m)
  PROVE  LoneInv'
<1>1. CASE ReadFile(m)
  <2>1. PICK f \in todo[m] : /\ todo' = [todo EXCEPT ![m] = @ \ {f}]
                             /\ loaded' = [loaded EXCEPT ![m][f] = disk[f]]
                             /\ glimpsed' = IF f \in Present \ listed
                                              THEN glimpsed \cup {f} ELSE glimpsed
    BY <1>1 DEF ReadFile
  <2>2. /\ todo'[m] = todo[m] \ {f} /\ \A o \in Reloaders \ {m} : todo'[o] = todo[o]
        /\ f \in Files
    BY <2>1 DEF Typed, TypeOK
  <2>3. /\ loaded'[m][f] = disk[f] /\ \A g \in Files \ {f} : loaded'[m][g] = loaded[m][g]
        /\ \A o \in Reloaders \ {m} : loaded'[o] = loaded[o]
    BY <2>1, <2>2 DEF Typed, TypeOK
  <2>4. /\ UNCHANGED <<disk, listed, changed, pending, up, pc, served, raced>> /\ pc[m] = "load"
        /\ glimpsed \subseteq glimpsed'
        /\ f \in Present \ listed => f \in glimpsed'
    BY <1>1, <2>1 DEF ReadFile, watched
  <2>5. AtMostOne' /\ Booting' /\ ViewsStill' /\ LastRead'
    BY <2>4 DEF LoneInv, AtMostOne, Booting, ViewsStill, Serves, LastRead, AtRest, served
  <2>6. SwapsInOrder'
    BY <2>3, <2>4 DEF LoneInv, SwapsInOrder, Swapped, served
  <2>7. ReadsDisk'
    <3> SUFFICES ASSUME raced # "yes", NEW o \in Reloaders, pc[o] # "idle",
                        NEW g \in Files \ todo'[o]
                 PROVE  Current(g, loaded[o][g], Waiting(o))'
      BY <2>4 DEF ReadsDisk, Fresh
    <3>1. CASE g \in todo[o]
      <4>1. o = m /\ g = f /\ loaded'[o][g] = disk[g]
        BY <2>2, <2>3, <3>1
      <4> QED
        BY <2>4, <4>1 DEF Current, Present, Same
    <3>2. CASE g \notin todo[o]
      <4>1. Current(g, loaded[o][g], Waiting(o))
        BY <3>2 DEF LoneInv, ReadsDisk, Fresh
      <4>2. loaded'[o][g] = loaded[o][g] /\ Waiting(o)' = Waiting(o)
        BY <2>2, <2>3, <2>4, <3>2 DEF Waiting
      <4> QED
        BY <2>4, <4>1, <4>2 DEF Current
    <3> QED
      BY <3>1, <3>2
  <2> QED
    BY <2>5, <2>6, <2>7 DEF LoneInv
<1>2. CASE LoadFails(m)
  <2>1. /\ up /\ pc[m] = "load" /\ todo[m] = {} /\ ~Good(loaded[m])
        /\ UNCHANGED <<disk, listed, glimpsed, changed, up>>
    BY <1>2 DEF LoadFails, Loaded, Some, Good
  <2>2. RefusedEnd(m) /\ Returns(m)
    BY <1>2, <2>1 DEF LoadFails, Refused, RefusedEnd, Typed, TypeOK
  <2> QED
    BY <2>1, <2>2, ReturnLone
<1>3. ASSUME NEW l \in Swapping, pc[m] # "idle", up, Goto(m, l),
             UNCHANGED <<disk, listed, glimpsed, changed, pending, up, todo, loaded, raced>>,
             raced # "yes" => Swapped(m)',
             l = "grpc" => UNCHANGED served /\ pc[m] = "load"
      PROVE  LoneInv'
  <2>1. pc'[m] = l /\ \A o \in Reloaders \ {m} : pc'[o] = pc[o]
    BY <1>3, GotoType DEF Swapping, Steps
  <2>2. pc'[m] # "idle"
    BY <1>3, <2>1 DEF Swapping
  <2>3. AtMostOne' /\ Booting' /\ LastRead'
    BY <1>3, <2>1, <2>2 DEF LoneInv, AtMostOne, Booting, LastRead, AtRest
  <2>4. ReadsDisk'
    BY <1>3, <2>1 DEF LoneInv, ReadsDisk, Fresh, Current, Waiting
  <2>5. SwapsInOrder'
    <3> SUFFICES ASSUME raced # "yes", NEW o \in Reloaders \ {m} PROVE Swapped(o)'
      BY <1>3 DEF SwapsInOrder
    <3>1. pc'[o] = "idle"
      BY <1>3, <2>1 DEF LoneInv, AtMostOne
    <3> QED
      BY <3>1 DEF Swapped
  <2>6. ViewsStill'
    <3>1. CASE l = "grpc"
      BY <1>3, <2>1, <3>1 DEF LoneInv, ViewsStill, Serves, served
    <3>2. CASE l # "grpc"
      BY <1>3, <2>1, <3>2 DEF ViewsStill, Swapping
    <3> QED
      BY <3>1, <3>2
  <2> QED
    BY <2>3, <2>4, <2>5, <2>6 DEF LoneInv
<1>4. CASE BuildHandler(m)
  <2>1. /\ up /\ pc[m] = "load" /\ todo[m] = {}
        /\ UNCHANGED <<disk, listed, glimpsed, changed, up, served>>
    BY <1>4 DEF BuildHandler, Loaded
  <2>2. CASE Some(loaded[m], "overlap")
    <3>1. ~Good(loaded[m]) /\ Refused(m)
      BY <1>4, <2>2 DEF BuildHandler, Some, Good
    <3>2. RefusedEnd(m) /\ Returns(m)
      BY <2>1, <3>1 DEF Refused, RefusedEnd, served
    <3> QED
      BY <2>1, <3>1, <3>2, ReturnLone
  <2>3. CASE ~Some(loaded[m], "overlap")
    <3>1. Goto(m, "grpc") /\ UNCHANGED <<todo, loaded, pending, raced>>
      BY <1>4, <2>3 DEF BuildHandler
    <3>2. pc'[m] = "grpc"
      BY <3>1, GotoType DEF Steps
    <3>3. Swapped(m)'
      BY <3>2 DEF Swapped
    <3> QED
      BY <1>3, <2>1, <3>1, <3>3 DEF Swapping
  <2> QED
    BY <2>2, <2>3
<1>5. ASSUME pc[m] \in Swapping PROVE up /\ todo[m] = {} /\ (raced # "yes" => Swapped(m))
  BY <1>5 DEF LoneInv, Booting, SwapsInOrder, Typed, ReadTyped, Reloaders, Swapping
<1>6. CASE SwapGRPC(m)
  <2>1. pc[m] = "grpc" /\ UNCHANGED <<disk, listed, glimpsed, changed, up, live, ctl, screen>>
    BY <1>6 DEF SwapGRPC
  <2>2. up /\ todo[m] = {}
    BY <1>5, <2>1 DEF Swapping
  <2>3. CASE grpc # None /\ Some(loaded[m], "badproto")
    <3>1. ~Good(loaded[m]) /\ Refused(m) /\ UNCHANGED grpc
      BY <1>6, <2>3 DEF SwapGRPC, Some, Good
    <3>2. RefusedEnd(m) /\ Returns(m)
      BY <2>1, <3>1 DEF Refused, RefusedEnd
    <3> QED
      BY <2>1, <2>2, <3>2, ReturnLone
  <2>4. CASE ~(grpc # None /\ Some(loaded[m], "badproto"))
    <3>1. /\ grpc' = IF grpc = None THEN None ELSE Meaning(loaded[m])
          /\ Goto(m, "live") /\ UNCHANGED <<todo, loaded, pending, raced>>
      BY <1>6, <2>4 DEF SwapGRPC
    <3>2. pc'[m] = "live"
      BY <3>1, GotoType DEF Steps
    <3>3. Swapped(m)'
      BY <3>1, <3>2 DEF Swapped, Meaning
    <3> QED
      BY <1>3, <2>1, <2>2, <3>1, <3>3 DEF Swapping
  <2> QED
    BY <2>3, <2>4
<1>7. CASE SwapLive(m)
  <2>1. /\ pc[m] = "live" /\ Goto(m, "control") /\ live' = Meaning(loaded[m])
        /\ UNCHANGED <<disk, listed, glimpsed, changed, pending, up, todo, loaded, grpc, ctl, screen, raced>>
    BY <1>7 DEF SwapLive, watched, history
  <2>2. up /\ pc'[m] = "control" /\ (raced # "yes" => Swapped(m))
    BY <1>5, <2>1, GotoType DEF Steps, Swapping
  <2>3. raced # "yes" => Swapped(m)'
    BY <2>1, <2>2 DEF Swapped, Meaning
  <2> QED
    BY <1>3, <2>1, <2>2, <2>3 DEF Swapping
<1>8. CASE SwapControl(m)
  <2>1. /\ pc[m] = "control" /\ Goto(m, "notify") /\ ctl' = Meaning(loaded[m])
        /\ UNCHANGED <<disk, listed, glimpsed, changed, pending, up, todo, loaded, grpc, live, screen, raced>>
    BY <1>8 DEF SwapControl, watched, history
  <2>2. up /\ pc'[m] = "notify" /\ (raced # "yes" => Swapped(m))
    BY <1>5, <2>1, GotoType DEF Steps, Swapping
  <2>3. raced # "yes" => Swapped(m)'
    BY <2>1, <2>2 DEF Swapped, Meaning
  <2> QED
    BY <1>3, <2>1, <2>2, <2>3 DEF Swapping
<1>9. CASE Notify(m)
  <2>1. /\ pc[m] = "notify" /\ Returns(m) /\ UNCHANGED <<disk, listed, glimpsed, changed, up>>
    BY <1>9 DEF Notify
  <2>2. DoneEnd(m)
    BY <1>9 DEF Notify, DoneEnd
  <2> QED
    BY <1>5, <2>1, <2>2, ReturnLone DEF Swapping
<1> QED
  BY <1>1, <1>2, <1>4, <1>6, <1>7, <1>8, <1>9 DEF Reload

\* A step of the process or its watcher.
LEMMA ProcessLone ==
  ASSUME Typed, LoneInv, Start \/ Open \/ Stop \/ Poll \/ \E m \in Reloaders : PressR(m)
  PROVE  LoneInv'
<1>0. Watcher \in Reloaders /\ \A m \in Manual : m \in Reloaders /\ m # Watcher
  BY ReloadAssumption DEF Reloaders
<1>1. CASE Start
  BY <1>0, <1>1, StartLone DEF Start
<1>2. CASE Open
  <2>1. /\ ~up /\ pc[Watcher] = "load" /\ todo[Watcher] = {} /\ Returns(Watcher)
        /\ UNCHANGED <<disk, listed, glimpsed, changed, raced>> /\ raced = "no"
    BY <1>2 DEF Open, LoneInv, Booting, history
  <2>2. pc'[Watcher] = "idle" /\ \A o \in Reloaders : pc'[o] = "idle"
    BY <1>0, <2>1, GotoType DEF Returns, Steps, LoneInv, Booting, Reloaders
  <2>3. AtMostOne' /\ Booting' /\ ReadsDisk' /\ SwapsInOrder'
    BY <1>0, <2>1, <2>2 DEF AtMostOne, Booting, ReadsDisk, SwapsInOrder, Swapped
  <2>4. PICK c : c = loaded[Watcher]
    OBVIOUS
  <2>5. /\ c \in [Files -> Content \cup {None}]
        /\ \A f \in Files : Current(f, c[f], {})
    BY <1>0, <2>1, <2>4 DEF Typed, TypeOK, LoneInv, ReadsDisk, Fresh, Waiting
  <2>6. PICK p : p = Meaning(c)
    OBVIOUS
  <2>7. up' => live' = p /\ ctl' = p /\ screen'.project = p /\ grpc' \in {None, p}
    <3> DEFINE q == Meaning(loaded[Watcher])
    <3>1. \/ UNCHANGED <<up, served>>
          \/ /\ live' = q /\ ctl' = q
             /\ screen' = [project |-> q, problems |-> FALSE]
             /\ grpc' \in {q, None}
      BY <1>2 DEF Open
    <3>2. q = p
      BY <2>4, <2>6
    <3> HIDE DEF q
    <3>3. CASE UNCHANGED <<up, served>>
      <4>1. up' = up
        BY <3>3
      <4> QED
        BY <2>1, <4>1
    <3>4. CASE /\ live' = q /\ ctl' = q
               /\ screen' = [project |-> q, problems |-> FALSE]
               /\ grpc' \in {q, None}
      BY <3>2, <3>4
    <3> QED
      BY <3>1, <3>3, <3>4
  <2>8. up' => Serves(p)'
    BY <2>7 DEF Serves
  <2>9. ViewsStill'
    BY <2>7 DEF ViewsStill, Serves
  <2>10. LastRead'
    <3>1. up' => (Good(c) => Serves(Meaning(c)))'
      BY <2>6, <2>8
    <3>2. \A f \in Files : Current(f, c[f], pending)'
      BY <2>1, <2>5 DEF Current, Returns, history
    <3> QED
      BY <2>5, <3>1, <3>2 DEF LastRead, AtRest
  <2> QED
    BY <2>3, <2>9, <2>10 DEF LoneInv
<1>3. CASE Stop
  <2>1. ~up' /\ raced' = "no" /\ \A o \in Reloaders : pc'[o] = "idle"
    BY <1>3 DEF Stop
  <2> QED
    BY <1>0, <2>1 DEF LoneInv, AtMostOne, Booting, ReadsDisk, SwapsInOrder, Swapped,
                      ViewsStill, LastRead, AtRest
<1>4. CASE Poll
  <2>1. CASE changed # {}
    <3>1. UNCHANGED <<up, locals, served, raced>>
      BY <1>4, <2>1 DEF Poll
    <3> QED
      BY <1>4, <2>1, <3>1, PollCurrent, WatchedLone
  <2>2. CASE changed = {}
    BY <1>0, <1>4, <2>2, StartLone DEF Poll
  <2> QED
    BY <2>1, <2>2
<1>5. ASSUME NEW m \in Reloaders, PressR(m) PROVE LoneInv'
  BY <1>5, StartLone DEF PressR
<1> QED
  BY <1>1, <1>2, <1>3, <1>4, <1>5

LEMMA LoneStep == Typed /\ LoneInv /\ [Next]_vars => LoneInv'
<1>1. ASSUME Typed, LoneInv, UNCHANGED vars PROVE LoneInv'
  BY <1>1, StillCurrent, WatchedLone DEF vars, watched, history
<1> QED
  BY <1>1, ReloadLone, ProcessLone, WritersLone DEF Next

LEMMA AlwaysLone == Spec => []LoneInv
<1>1. Init => LoneInv
  BY ReloadAssumption
  DEF Init, LoneInv, AtMostOne, Booting, ReadsDisk, SwapsInOrder, Swapped, ViewsStill,
      LastRead, AtRest, Reloaders
<1> QED
  BY <1>1, LoneStep, AlwaysTyped, PTL DEF Spec

-----------------------------------------------------------------------------
\* Reloads that do not overlap serve what was saved: once the watcher is idle
\* and has seen every change, a good folder is what all four views answer from,
\* however the saves fell between the reads of the reload, and whatever was
\* refused before - unless the last reload read a file that was gone again by
\* the next snapshot, and was never listed.
THEOREM SavedWins == Spec => []LoneReloadServesSaved
<1>1. ASSUME Typed, LoneInv PROVE LoneReloadServesSaved
  <2> SUFFICES ASSUME raced = "no", glimpsed = {}, Settled, Good(disk)
               PROVE  Serves(Meaning(disk))
    BY DEF LoneReloadServesSaved, ServesSaved
  <2>1. PICK c \in [Files -> Content \cup {None}] :
          /\ \A f \in Files : Current(f, c[f], pending)
          /\ Good(c) => Serves(Meaning(c))
    BY <1>1 DEF LoneInv, LastRead, Settled
  <2>2. \A f \in Files : Same(c[f], disk[f])
    BY <2>1 DEF Settled, Current
  <2> QED
    BY <2>1, <2>2, SameProject
<1> QED
  BY <1>1, AlwaysTyped, AlwaysLone, PTL

\* Whether a reload is done or refused, the views agree after it.
THEOREM Agreement == Spec => []ViewsAgree
<1>1. LoneInv => ViewsAgree
  BY DEF LoneInv, ViewsStill, ViewsAgree, AtRest
<1> QED
  BY <1>1, AlwaysLone, PTL

\* What the control API announces, the HTTP server serves already.
THEOREM Announcement == Spec => AnnouncedIsServed
<1>1. ASSUME Typed, LoneInv, [Next]_vars, raced = "no", ctl' \notin {ctl, None}
      PROVE  live' = ctl'
  <2>1. CASE Open
    BY <1>1, <2>1 DEF Open, served
  <2>2. ASSUME NEW m \in Reloaders, SwapControl(m) PROVE live' = ctl'
    BY <1>1, <2>2 DEF SwapControl, LoneInv, SwapsInOrder, Swapped
  <2>3. ASSUME ~Open, ~ \E m \in Reloaders : SwapControl(m) PROVE ctl' \in {ctl, None}
    BY <1>1, <2>3
    DEF Next, Start, Stop, Poll, Reload, PressR, ReadFile, LoadFails, BuildHandler,
        SwapGRPC, SwapLive, Notify, Edit, SetBegins, SetChecks, SetReads,
        SetWrites, SetFails, served, vars
  <2> QED
    BY <1>1, <2>1, <2>2, <2>3
<1>2. Typed /\ LoneInv /\ [Next]_vars
        => [raced = "no" /\ ctl' \notin {ctl, None} => live' = ctl']_vars
  BY <1>1
<1> QED
  BY <1>2, AlwaysTyped, AlwaysLone, PTL DEF Spec, AnnouncedIsServed

-----------------------------------------------------------------------------
(* What the screen lists.                                                   *)

\* A reload that swaps anything has found no problems.
Cleared == \A m \in Reloaders : pc[m] \in Swapping => ~Some(loaded[m], "problems")

\* What the last reload read differs from the folder only where the watcher
\* has something to do, and the screen says what was wrong with it.
LastTold ==
  AtRest /\ raced = "no" =>
    \E c \in [Files -> Content \cup {None}] :
      /\ \A f \in Files : Current(f, c[f], pending)
      /\ Some(c, "problems") => screen.problems
      /\ Good(c) => ~screen.problems

ToldInv == Cleared /\ LastTold

LEMMA ClearedStep ==
  ASSUME Typed, Cleared, [Next]_vars
  PROVE  Cleared'
<1> USE DEF Steps
<1>1. ASSUME NEW m \in Reloaders, StartsReload(m) PROVE Cleared'
  <2>1. pc'[m] = "load" /\ \A o \in Reloaders \ {m} : pc'[o] = pc[o] /\ loaded'[o] = loaded[o]
    BY <1>1, GotoType DEF StartsReload, Typed, TypeOK
  <2> QED
    BY <2>1 DEF Cleared, Swapping
<1>2. ASSUME NEW m \in Reloaders, Returns(m) PROVE Cleared'
  <2>1. pc'[m] = "idle" /\ \A o \in Reloaders \ {m} : pc'[o] = pc[o] /\ loaded'[o] = loaded[o]
    BY <1>2, GotoType DEF Returns, Typed, TypeOK
  <2> QED
    BY <2>1 DEF Cleared, Swapping
<1>3. ASSUME NEW m \in Reloaders, NEW l \in Swapping, Goto(m, l), loaded' = loaded,
             ~Some(loaded[m], "problems")
      PROVE  Cleared'
  <2>1. \A o \in Reloaders \ {m} : pc'[o] = pc[o]
    BY <1>3, GotoType DEF Swapping
  <2>2. \A o \in Reloaders : Some(loaded[o], "problems")' = Some(loaded[o], "problems")
    BY <1>3 DEF Some
  <2> QED
    BY <1>3, <2>1, <2>2 DEF Cleared
<1>4. ASSUME UNCHANGED locals PROVE Cleared'
  BY <1>4 DEF locals, Cleared, Some
<1>5. ASSUME NEW m \in Reloaders, Reload(m) PROVE Cleared'
  <2>1. CASE ReadFile(m)
    <3>1. pc[m] = "load" /\ UNCHANGED pc
      BY <2>1 DEF ReadFile
    <3>2. \A o \in Reloaders \ {m} : loaded'[o] = loaded[o]
      BY <2>1 DEF ReadFile, Typed, TypeOK
    <3> QED
      BY <3>1, <3>2 DEF Cleared, Swapping, Some
  <2>2. CASE LoadFails(m)
    BY <1>2, <2>2 DEF LoadFails, Refused
  <2>3. CASE BuildHandler(m)
    BY <1>2, <1>3, <2>3 DEF BuildHandler, Refused, Swapping
  <2>4. pc[m] \in Swapping => ~Some(loaded[m], "problems")
    BY DEF Cleared
  <2>5. CASE SwapGRPC(m)
    BY <1>2, <1>3, <2>4, <2>5 DEF SwapGRPC, Refused, Swapping
  <2>6. CASE SwapLive(m)
    BY <1>3, <2>4, <2>6 DEF SwapLive, Swapping
  <2>7. CASE SwapControl(m)
    BY <1>3, <2>4, <2>7 DEF SwapControl, Swapping
  <2>8. CASE Notify(m)
    BY <1>2, <2>8 DEF Notify
  <2> QED
    BY <1>5, <2>1, <2>2, <2>3, <2>5, <2>6, <2>7, <2>8 DEF Reload
<1>6. Watcher \in Reloaders
  BY DEF Reloaders
<1>7. CASE Start
  BY <1>1, <1>6, <1>7 DEF Start
<1>8. CASE Open
  BY <1>2, <1>6, <1>8 DEF Open
<1>9. CASE Stop
  BY <1>9 DEF Stop, Cleared, Swapping
<1>10. CASE Poll
  BY <1>1, <1>4, <1>6, <1>10 DEF Poll
<1>11. ASSUME NEW m \in Reloaders, PressR(m) PROVE Cleared'
  BY <1>1, <1>11 DEF PressR
<1>12. CASE \/ \E f \in Files : Edit(f)
            \/ \E s \in Setters :
                 SetBegins(s) \/ SetChecks(s) \/ SetReads(s) \/ SetWrites(s) \/ SetFails(s)
            \/ UNCHANGED vars
  BY <1>4, <1>12 DEF Edit, SetBegins, SetChecks, SetReads, SetWrites, SetFails, vars
<1> QED
  BY <1>5, <1>7, <1>8, <1>9, <1>10, <1>11, <1>12 DEF Next

\* The end of a reload, whatever it came to.
LEMMA ReturnTold ==
  ASSUME Typed, LoneInv, LastTold, NEW m \in Reloaders, pc[m] # "idle", todo[m] = {},
         Returns(m), UNCHANGED <<disk, listed, glimpsed, changed, up>>, raced' = "no" => raced # "yes",
         Some(loaded[m], "problems") => screen'.problems,
         Good(loaded[m]) => ~screen'.problems
  PROVE  LastTold'
<1> SUFFICES ASSUME raced' = "no" PROVE LastTold'
  BY DEF LastTold
<1>1. PICK c : c = loaded[m]
  OBVIOUS
<1>2. c \in [Files -> Content \cup {None}]
  BY <1>1 DEF Typed, TypeOK
<1>3. \A f \in Files : Current(f, c[f], pending)'
  <2>1. \A f \in Files : Current(f, c[f], Waiting(m))
    BY <1>1 DEF LoneInv, ReadsDisk, Fresh
  <2>2. pending' = Waiting(m)
    BY DEF Returns, Waiting
  <2> QED
    BY <2>1, <2>2 DEF Current
<1>4. /\ Some(c, "problems") => screen'.problems
      /\ Good(c) => ~screen'.problems
  BY <1>1
<1>5. /\ (Some(c, "problems") => screen.problems)'
      /\ (Good(c) => ~screen.problems)'
  BY <1>4 DEF Some, Good
<1> QED
  BY <1>2, <1>3, <1>5 DEF LastTold

\* A step that moves no reload and forgets nothing that was current.
LEMMA StillTold ==
  ASSUME Typed, LastTold, UNCHANGED <<up, pc, screen, raced>>, StaysCurrent
  PROVE  LastTold'
<1> SUFFICES ASSUME AtRest, raced = "no" PROVE LastTold'
  BY DEF LastTold, AtRest
<1>1. PICK c \in [Files -> Content \cup {None}] :
        /\ \A f \in Files : Current(f, c[f], pending)
        /\ Some(c, "problems") => screen.problems
        /\ Good(c) => ~screen.problems
  BY DEF LastTold
<1>2. \A f \in Files : Current(f, c[f], pending)'
  BY <1>1 DEF StaysCurrent
<1>3. /\ (Some(c, "problems") => screen.problems)'
      /\ (Good(c) => ~screen.problems)'
  BY <1>1 DEF Some, Good
<1> QED
  BY <1>2, <1>3 DEF LastTold

LEMMA ReloadTold ==
  ASSUME Typed, LoneInv, ToldInv, NEW m \in Reloaders, Reload(m)
  PROVE  LastTold'
<1> USE DEF Steps
<1>1. ASSUME NEW l \in Steps \ {"idle"}, Goto(m, l) PROVE LastTold'
  BY <1>1, GotoType DEF LastTold, AtRest
<1>2. ASSUME pc[m] \in Swapping
      PROVE  pc[m] # "idle" /\ todo[m] = {} /\ ~Some(loaded[m], "problems")
  BY <1>2 DEF Typed, ReadTyped, Swapping, ToldInv, Cleared
<1>3. CASE ReadFile(m)
  BY <1>3 DEF ReadFile, LastTold, AtRest
<1>4. CASE LoadFails(m)
  <2>1. /\ pc[m] # "idle" /\ todo[m] = {} /\ Some(loaded[m], "problems")
        /\ Returns(m) /\ UNCHANGED <<disk, listed, glimpsed, changed, up>>
        /\ raced' = "no" => raced # "yes"
    BY <1>4 DEF LoadFails, Loaded, Refused
  <2>2. screen'.problems
    BY <1>4 DEF LoadFails, Typed, TypeOK
  <2>3. ~Good(loaded[m])
    BY <2>1 DEF Some, Good
  <2> QED
    BY <2>1, <2>2, <2>3, ReturnTold DEF ToldInv
<1>5. ASSUME pc[m] # "idle", todo[m] = {}, Refused(m), ~Some(loaded[m], "problems"),
             ~Good(loaded[m]), UNCHANGED <<disk, listed, glimpsed, changed, up>>
      PROVE  LastTold'
  BY <1>5, ReturnTold DEF Refused, ToldInv
<1>6. CASE BuildHandler(m)
  <2>1. CASE Some(loaded[m], "overlap")
    <3>1. ~Good(loaded[m])
      BY <2>1 DEF Some, Good
    <3> QED
      BY <1>5, <1>6, <2>1, <3>1 DEF BuildHandler, Loaded
  <2>2. CASE ~Some(loaded[m], "overlap")
    BY <1>1, <1>6, <2>2 DEF BuildHandler
  <2> QED
    BY <2>1, <2>2
<1>7. CASE SwapGRPC(m)
  <2>1. CASE grpc # None /\ Some(loaded[m], "badproto")
    <3>1. ~Good(loaded[m])
      BY <2>1 DEF Some, Good
    <3> QED
      BY <1>2, <1>5, <1>7, <2>1, <3>1 DEF SwapGRPC, Swapping
  <2>2. CASE ~(grpc # None /\ Some(loaded[m], "badproto"))
    BY <1>1, <1>7, <2>2 DEF SwapGRPC
  <2> QED
    BY <2>1, <2>2
<1>8. CASE SwapLive(m)
  BY <1>1, <1>8 DEF SwapLive
<1>9. CASE SwapControl(m)
  BY <1>1, <1>9 DEF SwapControl
<1>10. CASE Notify(m)
  <2>1. /\ pc[m] # "idle" /\ todo[m] = {} /\ ~Some(loaded[m], "problems")
    BY <1>2, <1>10 DEF Notify, Swapping
  <2>2. /\ Returns(m) /\ UNCHANGED <<disk, listed, glimpsed, changed, up>> /\ ~screen'.problems
        /\ raced' = "no" => raced # "yes"
    BY <1>10 DEF Notify
  <2> QED
    BY <2>1, <2>2, ReturnTold DEF ToldInv
<1> QED
  BY <1>3, <1>4, <1>6, <1>7, <1>8, <1>9, <1>10 DEF Reload

LEMMA OthersTold ==
  ASSUME Typed, LoneInv, ToldInv, [Next]_vars, ~ \E m \in Reloaders : Reload(m)
  PROVE  LastTold'
<1> USE DEF Steps
<1>0. Watcher \in Reloaders
  BY DEF Reloaders
<1>1. ASSUME NEW m \in Reloaders, StartsReload(m) PROVE LastTold'
  BY <1>1, GotoType DEF StartsReload, LastTold, AtRest
<1>2. CASE Start
  BY <1>0, <1>1, <1>2 DEF Start
<1>3. CASE Open
  <2>1. /\ pc[Watcher] # "idle" /\ todo[Watcher] = {} /\ Returns(Watcher)
        /\ UNCHANGED <<disk, listed, glimpsed, changed, raced>> /\ ~up
    BY <1>3 DEF Open, history
  <2>2. \/ up' = up
        \/ ~Some(loaded[Watcher], "problems") /\ ~screen'.problems
    BY <1>3 DEF Open
  <2>3. CASE up' = up
    BY <2>1, <2>3 DEF LastTold, AtRest
  <2>4. CASE ~Some(loaded[Watcher], "problems") /\ ~screen'.problems
    <3> SUFFICES ASSUME raced' = "no" PROVE LastTold'
      BY DEF LastTold
    <3>1. PICK c : c = loaded[Watcher]
      OBVIOUS
    <3>2. c \in [Files -> Content \cup {None}]
      BY <1>0, <3>1 DEF Typed, TypeOK
    <3>3. \A f \in Files : Current(f, c[f], pending)'
      <4>1. \A f \in Files : Current(f, c[f], {})
        BY <1>0, <2>1, <3>1 DEF LoneInv, ReadsDisk, Fresh, Waiting
      <4>2. UNCHANGED <<disk, listed, glimpsed, changed>>
        BY <1>3 DEF Open, history
      <4> QED
        BY <4>1, <4>2 DEF Current
    <3>4. /\ (Some(c, "problems") => screen.problems)'
          /\ (Good(c) => ~screen.problems)'
      BY <2>4, <3>1 DEF Some
    <3> QED
      BY <3>2, <3>3, <3>4 DEF LastTold
  <2> QED
    BY <2>2, <2>3, <2>4
<1>4. CASE Stop
  BY <1>4 DEF Stop, LastTold, AtRest
<1>5. CASE Poll
  <2>1. CASE changed # {}
    <3>1. UNCHANGED <<up, pc, screen, raced>>
      BY <1>5, <2>1 DEF Poll, locals, served
    <3> QED
      BY <1>5, <2>1, <3>1, PollCurrent, StillTold DEF ToldInv
  <2>2. CASE changed = {}
    BY <1>0, <1>1, <1>5, <2>2 DEF Poll
  <2> QED
    BY <2>1, <2>2
<1>6. ASSUME NEW m \in Reloaders, PressR(m) PROVE LastTold'
  BY <1>1, <1>6 DEF PressR
<1>7. CASE \/ \E f \in Files : Edit(f)
           \/ \E s \in Setters :
                SetBegins(s) \/ SetChecks(s) \/ SetReads(s) \/ SetWrites(s) \/ SetFails(s)
  BY <1>7, WritersCurrent, StillTold DEF ToldInv, locals, served
<1>8. CASE UNCHANGED vars
  BY <1>8, StillCurrent, StillTold DEF vars, watched, locals, served, history, ToldInv
<1> QED
  BY <1>2, <1>3, <1>4, <1>5, <1>6, <1>7, <1>8 DEF Next

LEMMA AlwaysTold == Spec => []ToldInv
<1>1. Init => ToldInv
  BY DEF Init, ToldInv, Cleared, LastTold, AtRest, Swapping
<1>2. Typed /\ LoneInv /\ ToldInv /\ [Next]_vars => ToldInv'
  BY ClearedStep, ReloadTold, OthersTold DEF ToldInv
<1> QED
  BY <1>1, <1>2, AlwaysTyped, AlwaysLone, PTL DEF Spec

\* At rest the screen lists problems if the folder has some, and none if it is
\* good, whatever reloads were refused before, for any files and goroutines.
THEOREM ProblemsAreTold == Spec => []ScreenTellsProblems
<1>1. ASSUME Typed, ToldInv PROVE ScreenTellsProblems
  <2> SUFFICES ASSUME Settled, raced = "no", glimpsed = {}
               PROVE  /\ Some(disk, "problems") => screen.problems
                      /\ Good(disk) => ~screen.problems
    BY DEF ScreenTellsProblems
  <2>1. PICK c \in [Files -> Content \cup {None}] :
          /\ \A f \in Files : Current(f, c[f], pending)
          /\ Some(c, "problems") => screen.problems
          /\ Good(c) => ~screen.problems
    BY <1>1 DEF ToldInv, LastTold, Settled
  <2>2. \A f \in Files : Same(c[f], disk[f])
    BY <2>1 DEF Settled, Current
  <2> QED
    BY <2>1, <2>2, SameProject
<1> QED
  BY <1>1, AlwaysTyped, AlwaysTold, PTL

-----------------------------------------------------------------------------
(* What SetActive has reported.                                             *)

\* What a setter is about to write has its own state and what was reported of
\* the file's other routes.
Carries(s) ==
  spc[s] = "write" =>
    /\ buf[s].act[goal[s].route] = goal[s].state
    /\ \A r \in Routes \ {goal[s].route} : promised[goal[s].file][r] # None =>
         buf[s].act[r] = promised[goal[s].file][r]

KeptInv == PersistKept /\ \A s \in Setters : Carries(s)

\* No two calls of SetActive are under way for two routes of one file.
Apart ==
  \A s, t \in Setters :
    spc[s] # "idle" /\ spc[t] # "idle" /\ goal[s].file = goal[t].file
      => goal[s].route = goal[t].route

LEMMA KeptStep ==
  ASSUME Apart, Typed, KeptInv, [Next]_vars
  PROVE  KeptInv'
<1>1. ASSUME UNCHANGED <<disk, setting, promised>> PROVE KeptInv'
  BY <1>1 DEF setting, KeptInv, PersistKept, Carries
<1>2. ASSUME NEW f \in Files, Edit(f) PROVE KeptInv'
  <2>1. /\ promised' = [promised EXCEPT ![f] = [r \in Routes |-> None]]
        /\ \A g \in Files \ {f} : disk'[g] = disk[g]
        /\ UNCHANGED setting
    BY <1>2 DEF Edit, Saved, Typed, TypeOK
  <2>2. /\ \A r \in Routes : promised'[f][r] = None
        /\ \A g \in Files \ {f} : promised'[g] = promised[g]
    BY <2>1 DEF Typed, TypeOK
  <2>3. PersistKept'
    BY <2>1, <2>2 DEF KeptInv, PersistKept
  <2>4. ASSUME NEW s \in Setters, spc[s] = "write" PROVE goal[s].file \in Files
    BY <2>4, ReloadAssumption DEF Typed, SetTyped, Goal
  <2>5. \A s \in Setters : Carries(s)'
    BY <2>1, <2>2, <2>4 DEF KeptInv, Carries, setting
  <2> QED
    BY <2>3, <2>5 DEF KeptInv
<1>3. ASSUME NEW s \in Setters,
             SetBegins(s) \/ SetChecks(s) \/ SetReads(s) \/ SetWrites(s) \/ SetFails(s)
      PROVE  KeptInv'
  <2>1. \A t \in Setters \ {s} :
          spc'[t] = spc[t] /\ goal'[t] = goal[t] /\ buf'[t] = buf[t]
    BY <1>3 DEF SetBegins, SetChecks, SetReads, SetWrites, SetFails, SetReturns, Typed, TypeOK
  <2>2. PICK g : g = goal[s]
    OBVIOUS
  <2>3. spc[s] # "idle" => g.file \in Files /\ g.route \in Routes /\ g.state \in States
    BY <2>2, ReloadAssumption DEF Typed, SetTyped, Goal
  <2>4. ASSUME UNCHANGED <<disk, promised>>, spc'[s] # "write" PROVE KeptInv'
    BY <2>1, <2>4 DEF KeptInv, PersistKept, Carries
  <2>5. SetReturns(s) => spc'[s] # "write"
    BY DEF SetReturns, Typed, TypeOK
  <2>6. CASE SetBegins(s)
    BY <2>4, <2>6 DEF SetBegins, history, Typed, TypeOK
  <2>7. CASE SetFails(s)
    BY <2>4, <2>5, <2>7 DEF SetFails, history
  <2>8. ASSUME spc[s] # "idle", spc'[s] # "write",
               promised' = [promised EXCEPT ![g.file][g.route] = g.state],
               disk'[g.file].act[g.route] = g.state,
               \A r \in Routes \ {g.route} : promised[g.file][r] # None =>
                 disk'[g.file].act[r] = promised[g.file][r],
               \A f \in Files \ {g.file} : disk'[f] = disk[f]
        PROVE  KeptInv'
    <3>1. /\ promised'[g.file][g.route] = g.state
          /\ \A r \in Routes \ {g.route} : promised'[g.file][r] = promised[g.file][r]
          /\ \A f \in Files \ {g.file} : promised'[f] = promised[f]
      BY <2>3, <2>8 DEF Typed, TypeOK
    <3>2. PersistKept'
      BY <2>8, <3>1 DEF KeptInv, PersistKept
    <3>3. ASSUME NEW t \in Setters, spc'[t] = "write" PROVE Carries(t)'
      <4>1. /\ t # s /\ spc[t] = "write"
            /\ goal'[t] = goal[t] /\ buf'[t] = buf[t]
        BY <2>1, <2>8, <3>3
      <4>2. goal[t].file \in Files /\ goal[t].route \in Routes
        BY <4>1, ReloadAssumption DEF Typed, SetTyped, Goal
      <4>3. goal[t].file = g.file => goal[t].route = g.route
        BY <2>2, <2>8, <4>1 DEF Apart
      <4>4. \A r \in Routes \ {goal[t].route} :
              promised'[goal[t].file][r] = promised[goal[t].file][r]
        BY <3>1, <4>2, <4>3
      <4> QED
        BY <4>1, <4>4 DEF KeptInv, Carries
    <3> QED
      BY <3>2, <3>3 DEF KeptInv, Carries
  <2>9. CASE SetChecks(s)
    <3>1. disk' = disk /\ spc[s] # "idle" /\ spc'[s] # "write"
      BY <2>5, <2>9 DEF SetChecks, Typed, TypeOK
    <3>2. CASE promised' = promised
      BY <2>4, <3>1, <3>2
    <3>3. CASE /\ disk[g.file].act[g.route] = g.state
               /\ promised' = [promised EXCEPT ![g.file][g.route] = g.state]
      BY <2>3, <2>8, <3>1, <3>3 DEF KeptInv, PersistKept
    <3> QED
      BY <2>2, <2>9, <3>2, <3>3 DEF SetChecks
  <2>10. CASE SetReads(s)
    <3>1. UNCHANGED <<disk, promised>> /\ spc[s] # "idle"
      BY <2>10 DEF SetReads, history
    <3>2. CASE SetReturns(s)
      BY <2>4, <2>5, <3>1, <3>2
    <3>3. CASE /\ buf' = [buf EXCEPT ![s] = [disk[g.file] EXCEPT !.act[g.route] = g.state]]
               /\ UNCHANGED goal
      <4>1. disk[g.file].act \in [Routes -> States] /\ disk[g.file] \in Content
        BY <2>3, <3>1 DEF Typed, TypeOK, Content
      <4>2. buf'[s].act = [disk[g.file].act EXCEPT ![g.route] = g.state]
        BY <3>3, <4>1 DEF Typed, TypeOK, Content
      <4>3. buf'[s].act[g.route] = g.state
            /\ \A r \in Routes \ {g.route} : buf'[s].act[r] = disk[g.file].act[r]
        BY <2>3, <3>1, <4>1, <4>2
      <4>4. Carries(s)'
        BY <2>2, <2>3, <3>1, <3>3, <4>3 DEF Carries, KeptInv, PersistKept
      <4>5. \A t \in Setters \ {s} : Carries(t)'
        BY <2>1, <3>1 DEF Carries, KeptInv
      <4> QED
        BY <3>1, <4>4, <4>5 DEF KeptInv, PersistKept
    <3> QED
      BY <2>2, <2>10, <3>2, <3>3 DEF SetReads
  <2>11. CASE SetWrites(s)
    <3>1. /\ spc[s] = "write" /\ SetReturns(s)
          /\ disk' = [disk EXCEPT ![g.file] = buf[s]]
          /\ promised' = [promised EXCEPT ![g.file][g.route] = g.state]
      BY <2>2, <2>11 DEF SetWrites, Saved
    <3>2. disk'[g.file] = buf[s] /\ \A f \in Files \ {g.file} : disk'[f] = disk[f]
      BY <2>3, <3>1 DEF Typed, TypeOK
    <3>3. Carries(s)
      BY DEF KeptInv
    <3> QED
      BY <2>2, <2>5, <2>8, <3>1, <3>2, <3>3 DEF Carries
  <2> QED
    BY <1>3, <2>6, <2>7, <2>9, <2>10, <2>11
<1>4. ASSUME NEW m \in Reloaders, Reload(m) \/ PressR(m)
      PROVE  UNCHANGED <<disk, setting, promised>>
  BY <1>4
  DEF Reload, PressR, ReadFile, LoadFails, BuildHandler, SwapGRPC, SwapLive, SwapControl,
      Notify, history
<1>5. CASE Start \/ Open \/ Stop \/ Poll \/ UNCHANGED vars
  BY <1>1, <1>5 DEF Start, Open, Stop, Poll, history, vars
<1> QED
  BY <1>1, <1>2, <1>3, <1>4, <1>5 DEF Next

\* Beside any number of editors, reloads and files, what SetActive has reported
\* as saved is in the file until somebody edits it, however many calls run at
\* once, unless two of them change two routes of one file.
THEOREM PromisesKept == Spec /\ []Apart => []PersistKept
<1>1. Init => KeptInv
  BY DEF Init, KeptInv, PersistKept, Carries
<1>2. Apart /\ Typed /\ KeptInv /\ [Next]_vars => KeptInv'
  BY KeptStep
<1>3. KeptInv => PersistKept
  BY DEF KeptInv
<1> QED
  BY <1>1, <1>2, <1>3, AlwaysTyped, PTL DEF Spec
-----------------------------------------------------------------------------
(* That a saved folder is served in the end is a matter of fairness, and    *)
(* TLC's (SavedIsServed).  What the watcher owes to it is not: between two  *)
(* saves it has a bounded way to go, every step of it leads on, and nobody  *)
(* else sends it back.                                                      *)

\* The steps the watcher's goroutine has still to make: a tick that notes the changes,
\* one that starts the reload, the files, a check, four swaps.
Way == Cardinality(Files) + 6

Stage ==
  IF pc[Watcher] = "idle" THEN IF pending = {} THEN 0 ELSE Way
  ELSE IF pc[Watcher] = "load" THEN 5 + Cardinality(todo[Watcher])
  ELSE [grpc |-> 4, live |-> 3, control |-> 2, notify |-> 1][pc[Watcher]]

Work == Stage + IF changed = {} THEN 0 ELSE Way + 1

\* While the mock runs and no file comes to differ from the snapshot.
WorkShrinks ==
  up /\ up' /\ changed' \subseteq changed =>
    /\ Poll \/ Reload(Watcher) => Work' < Work
    /\ ~(Poll \/ Reload(Watcher)) => Work' <= Work

WorkBounded == Work \in 0 .. 2 * Way + 1

LEMMA WayType == IsFiniteSet(Files) => Cardinality(Files) \in Nat /\ Way \in Nat
BY FS_CardinalityType DEF Way

LEMMA TodoType ==
  ASSUME IsFiniteSet(Files), NEW t \in SUBSET Files
  PROVE  IsFiniteSet(t) /\ Cardinality(t) \in 0 .. Cardinality(Files)
BY FS_Subset, FS_CardinalityType

LEMMA StageType ==
  ASSUME IsFiniteSet(Files), TypeOK
  PROVE  Stage \in 0 .. Way
<1>1. Cardinality(todo[Watcher]) \in 0 .. Cardinality(Files)
  BY TodoType DEF TypeOK, Reloaders
<1>2. pc[Watcher] \in Steps
  BY DEF TypeOK, Reloaders, Steps
<1>. QED  BY <1>1, <1>2, WayType DEF Stage, Way, Steps

\* The watcher's goroutine leads on.
LEMMA ReloadShrinks ==
  ASSUME IsFiniteSet(Files), TypeOK, TypeOK', up, Poll \/ Reload(Watcher)
  PROVE  Work' < Work
<1>. DEFINE m == Watcher
<1>1. m \in Reloaders
  BY DEF Reloaders
<1>2. Stage \in 0 .. Way /\ Way \in Nat /\ Cardinality(Files) \in Nat
  BY StageType, WayType
<1>3. ASSUME changed' = changed, Stage' \in Int, Stage' < Stage
      PROVE  Work' < Work
  BY <1>2, <1>3 DEF Work, Stage, Way
<1>4. ASSUME Returns(m), changed' = changed, pc[m] # "idle"
      PROVE  Work' < Work
  <2>1. pc'[m] = "idle" /\ pending' = {}
    BY <1>1, <1>4 DEF Returns, Goto, TypeOK
  <2>2. Stage' = 0
    BY <2>1 DEF Stage
  <2>3. Stage > 0
    <3>1. Cardinality(todo[m]) \in Nat
      BY <1>1, TodoType DEF TypeOK
    <3>. QED  BY <1>1, <1>4, <3>1 DEF Stage, TypeOK
  <2>. QED  BY <1>3, <1>4, <2>2, <2>3
<1>5. CASE Poll
  <2>1. CASE changed # {}
    <3>1. pc'[m] = "idle" /\ pc[m] = "idle" /\ changed' = {}
      BY <1>5, <2>1 DEF Poll, locals
    <3>2. Stage' \in 0 .. Way
      BY <3>1, <1>2 DEF Stage, Way
    <3>. QED  BY <1>2, <2>1, <3>1, <3>2 DEF Work, Way
  <2>2. CASE changed = {}
    <3>1. /\ pending # {} /\ pc[m] = "idle" /\ changed' = changed
          /\ pc'[m] = "load" /\ todo'[m] = Files
      BY <1>1, <1>5, <2>2 DEF Poll, StartsReload, Goto, watched, TypeOK
    <3>2. Stage = Cardinality(Files) + 6 /\ Stage' = Cardinality(Files) + 5
      BY <1>2, <3>1 DEF Stage, Way
    <3>. QED  BY <1>2, <1>3, <3>1, <3>2
  <2>. QED  BY <2>1, <2>2
<1>6. CASE ReadFile(m)
  <2>1. PICK f \in todo[m] : todo' = [todo EXCEPT ![m] = @ \ {f}]
    BY <1>6 DEF ReadFile
  <2>2. todo[m] \in SUBSET Files /\ todo'[m] = todo[m] \ {f}
    BY <1>1, <2>1 DEF TypeOK
  <2>3. Cardinality(todo'[m]) = Cardinality(todo[m]) - 1 /\ Cardinality(todo[m]) \in Nat
    BY <2>1, <2>2, TodoType, FS_RemoveElement
  <2>. QED  BY <1>3, <1>6, <2>3 DEF ReadFile, watched, Stage
<1>7. CASE LoadFails(m) \/ Notify(m)
  BY <1>4, <1>7 DEF LoadFails, Notify, Refused, Loaded
<1>8. CASE BuildHandler(m)
  <2>1. CASE Refused(m)
    BY <1>4, <1>8, <2>1 DEF BuildHandler, Refused, Loaded
  <2>2. CASE Goto(m, "grpc")
    <3>1. pc[m] = "load" /\ pc'[m] = "grpc" /\ changed' = changed
      BY <1>1, <1>8, <2>2 DEF BuildHandler, Goto, Loaded, TypeOK
    <3>2. Cardinality(todo[m]) \in Nat
      BY <1>1, TodoType DEF TypeOK
    <3>. QED  BY <1>3, <3>1, <3>2 DEF Stage
  <2>. QED  BY <1>8, <2>1, <2>2 DEF BuildHandler
<1>9. CASE SwapGRPC(m)
  <2>1. CASE Refused(m)
    BY <1>4, <1>9, <2>1 DEF SwapGRPC, Refused
  <2>2. CASE Goto(m, "live")
    <3>1. pc[m] = "grpc" /\ pc'[m] = "live" /\ changed' = changed
      BY <1>1, <1>9, <2>2 DEF SwapGRPC, Goto, TypeOK
    <3>. QED  BY <1>3, <3>1 DEF Stage
  <2>. QED  BY <1>9, <2>1, <2>2 DEF SwapGRPC
<1>10. CASE SwapLive(m) \/ SwapControl(m)
  <2>1. /\ \/ pc[m] = "live" /\ pc'[m] = "control"
           \/ pc[m] = "control" /\ pc'[m] = "notify"
        /\ changed' = changed
    BY <1>1, <1>10 DEF SwapLive, SwapControl, Goto, TypeOK, watched
  <2>. QED  BY <1>3, <2>1 DEF Stage
<1>. QED  BY <1>5, <1>6, <1>7, <1>8, <1>9, <1>10 DEF Reload

\* A reload by the `r` key, a start, an editor or a setter does not touch it,
\* but for an editor who takes back what the next tick would have noted.
LEMMA OthersKeepWork ==
  ASSUME IsFiniteSet(Files), TypeOK, up, up', changed' \subseteq changed, [Next]_vars,
         ~(Poll \/ Reload(Watcher))
  PROVE  Work' <= Work
<1>0. Stage \in 0 .. Way /\ Way \in Nat
  BY StageType, WayType
<1>1. ASSUME UNCHANGED <<changed, pending, pc, todo>>
      PROVE  Work' <= Work
  <2>1. Work' = Work
    BY <1>1 DEF Work, Stage, Way
  <2>. QED  BY <1>0, <2>1 DEF Work
<1>2. ASSUME NEW m \in Manual, Reload(m) \/ PressR(m)
      PROVE  Work' <= Work
  <2>1. m # Watcher /\ m \in Reloaders
    BY ReloadAssumption DEF Reloaders
  <2>2. /\ pc'[Watcher] = pc[Watcher] /\ todo'[Watcher] = todo[Watcher]
        /\ UNCHANGED <<changed, pending>>
    <3>1. CASE ReadFile(m) \/ PressR(m)
      BY <2>1, <3>1 DEF ReadFile, PressR, StartsReload, Goto, watched, TypeOK, Reloaders
    <3>2. CASE LoadFails(m) \/ BuildHandler(m) \/ Notify(m)
      BY <2>1, <3>2 DEF LoadFails, BuildHandler, Notify, Refused, Returns, Goto, TypeOK, Reloaders
    <3>3. CASE SwapGRPC(m) \/ SwapLive(m) \/ SwapControl(m)
      BY <2>1, <3>3 DEF SwapGRPC, SwapLive, SwapControl, Refused, Returns, Goto, watched, TypeOK,
                        Reloaders
    <3>. QED  BY <1>2, <3>1, <3>2, <3>3 DEF Reload
  <2>3. Work' = Work
    BY <2>2 DEF Work, Stage, Way
  <2>. QED  BY <1>0, <2>3 DEF Work
<1>3. ASSUME NEW f \in Files, Edit(f)
      PROVE  Work' <= Work
  <2>1. UNCHANGED <<pending, pc, todo>>
    BY <1>3 DEF Edit, locals
  <2>. QED  BY <1>0, <2>1 DEF Work, Stage, Way
<1>4. ASSUME NEW s \in Setters,
             SetBegins(s) \/ SetChecks(s) \/ SetReads(s) \/ SetWrites(s) \/ SetFails(s)
      PROVE  Work' <= Work
  <2>1. UNCHANGED <<pending, pc, todo>>
    BY <1>4 DEF SetBegins, SetChecks, SetReads, SetWrites, SetFails, watched, locals
  <2>. QED  BY <1>0, <2>1 DEF Work, Stage, Way
<1>5. ~(Start \/ Open \/ Stop) /\ ~PressR(Watcher)
  BY ReloadAssumption DEF Start, Open, Stop, PressR
<1>. QED  BY <1>1, <1>2, <1>3, <1>4, <1>5 DEF Next, Reloaders, vars, watched, locals

\* While no file comes to differ, each step of the watcher's goroutine brings the reload
\* nearer, and no `r` key, setter or reader sends it back: a difference the poller sees,
\* in any number of files, is reloaded after a number of steps the folder's size bounds.
THEOREM WatcherGetsThere ==
  IsFiniteSet(Files) => (Spec => []WorkBounded /\ [][WorkShrinks]_vars)
<1>. SUFFICES ASSUME IsFiniteSet(Files)
              PROVE  Spec => []WorkBounded /\ [][WorkShrinks]_vars
  OBVIOUS
<1>1. TypeOK => WorkBounded
  BY StageType, WayType DEF Work, WorkBounded
<1>2. TypeOK /\ TypeOK' /\ [Next]_vars => [WorkShrinks]_vars
  BY ReloadShrinks, OthersKeepWork DEF WorkShrinks
<1>. QED  BY <1>1, <1>2, ReloadTypeCorrect, PTL DEF Spec
=============================================================================
