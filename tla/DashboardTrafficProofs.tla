------------------------ MODULE DashboardTrafficProofs ------------------------
(***************************************************************************)
(* Proofs about DashboardTraffic, for any caps, any buffer and any number  *)
(* of requests, reloads and faults.                                        *)
(***************************************************************************)
EXTENDS DashboardTraffic, TLAPS

-----------------------------------------------------------------------------
(* Lists and fetches.                                                       *)

\* The newest n requests up to number hi, when the history is not younger than hi.
LEMMA NewestSeq ==
  ASSUME base \in Nat, NEW hi \in Nat, base <= hi, NEW n \in Nat
  PROVE  /\ Newest(hi, n) \in Seq(Nat)
         /\ Len(Newest(hi, n)) = Least(hi - base, n)
         /\ \A i \in 1 .. Least(hi - base, n) : Newest(hi, n)[i] = hi + 1 - i
<1> DEFINE lo == Greatest(base, hi - n)
<1>1. lo \in Nat /\ lo <= hi /\ hi - lo = Least(hi - base, n) /\ hi - lo \in Nat
  BY DEF Greatest, Least
<1>2. Newest(hi, n) = [i \in 1 .. (hi - lo) |-> hi + 1 - i]
  BY DEF Newest, Run
<1> HIDE DEF lo
<1>3. ASSUME NEW i \in 1 .. (hi - lo) PROVE hi + 1 - i \in Nat
  BY <1>1
<1>4. Newest(hi, n) \in [1 .. (hi - lo) -> Nat]
  BY <1>2, <1>3
<1>5. Newest(hi, n) \in Seq(Nat) /\ Len(Newest(hi, n)) = hi - lo
  BY <1>1, <1>2, <1>4
<1> QED BY <1>1, <1>2, <1>5

\* A row added to the newest n gives the newest n with it.
LEMMA TrimmedNewest ==
  ASSUME base \in Nat, NEW hi \in Nat, base <= hi, Cap[at] \in Nat,
         rows = Newest(hi, Cap[at])
  PROVE  Trimmed(hi + 1) = Newest(hi + 1, Cap[at])
<1> DEFINE c == Cap[at]
           k == Least(hi - base, c)
           s == <<hi + 1>> \o rows
           l == Least(k + 1, c)
<1>1. /\ k \in Nat /\ rows \in Seq(Nat) /\ Len(rows) = k
      /\ \A i \in 1 .. k : rows[i] = hi + 1 - i
  <2>1. c \in Nat /\ rows = Newest(hi, c)
    OBVIOUS
  <2> HIDE DEF c
  <2>2. k \in Nat
    BY <2>1 DEF Least
  <2> HIDE DEF k
  <2>3. /\ Newest(hi, c) \in Seq(Nat) /\ Len(Newest(hi, c)) = Least(hi - base, c)
        /\ \A i \in 1 .. Least(hi - base, c) : Newest(hi, c)[i] = hi + 1 - i
    BY <2>1, NewestSeq
  <2> QED BY <2>1, <2>2, <2>3 DEF k
<1>2. /\ Newest(hi + 1, c) \in Seq(Nat) /\ Len(Newest(hi + 1, c)) = l
      /\ \A i \in 1 .. l : Newest(hi + 1, c)[i] = hi + 2 - i
  <2>1. hi + 1 \in Nat /\ base <= hi + 1 /\ Least((hi + 1) - base, c) = l
    BY DEF Least
  <2>2. /\ Newest(hi + 1, c) \in Seq(Nat)
        /\ Len(Newest(hi + 1, c)) = Least((hi + 1) - base, c)
        /\ \A i \in 1 .. Least((hi + 1) - base, c) : Newest(hi + 1, c)[i] = (hi + 1) + 1 - i
    BY <2>1, NewestSeq
  <2> HIDE DEF l, c
  <2> QED BY <2>1, <2>2
<1>3. l \in Nat /\ l <= k + 1
  BY <1>1 DEF Least
<1> HIDE DEF c, k, l
<1>4. /\ s \in Seq(Nat) /\ Len(s) = k + 1 /\ s[1] = hi + 1
      /\ \A i \in 2 .. k + 1 : s[i] = rows[i - 1]
  BY <1>1
<1>5. \A i \in 1 .. k + 1 : s[i] = hi + 2 - i
  BY <1>1, <1>4
<1>6. Trimmed(hi + 1) = SubSeq(s, 1, l)
  BY <1>1 DEF Trimmed, l, c
<1> HIDE DEF s
<1>7. /\ SubSeq(s, 1, l) \in Seq(Nat) /\ Len(SubSeq(s, 1, l)) = l
      /\ \A i \in 1 .. l : SubSeq(s, 1, l)[i] = s[i]
  BY <1>3, <1>4
<1>8. ASSUME NEW i \in 1 .. l PROVE SubSeq(s, 1, l)[i] = Newest(hi + 1, c)[i]
  <2>1. i \in 1 .. k + 1
    BY <1>1, <1>3
  <2> QED BY <1>2, <1>5, <1>7, <2>1
<1>9. SubSeq(s, 1, l) = Newest(hi + 1, c)
  BY <1>2, <1>3, <1>7, <1>8
<1> QED BY <1>6, <1>9 DEF c

\* Whatever is added, a list keeps to its cap; its first row is the one that was added,
\* and those below it are those there were.
LEMMA TrimmedSeq ==
  ASSUME NEW n \in Nat, rows \in Seq(Nat), Cap[at] \in Nat
  PROVE  /\ Trimmed(n) \in Seq(Nat) /\ Len(Trimmed(n)) <= Cap[at]
         /\ Len(Trimmed(n)) <= Len(rows) + 1
         /\ Len(Trimmed(n)) > 0 => Trimmed(n)[1] = n
         /\ \A i \in 2 .. Len(Trimmed(n)) : Trimmed(n)[i] = rows[i - 1]
<1> DEFINE s == <<n>> \o rows
           l == Least(Len(rows) + 1, Cap[at])
<1>1. /\ s \in Seq(Nat) /\ Len(s) = Len(rows) + 1 /\ s[1] = n
      /\ \A i \in 2 .. Len(rows) + 1 : s[i] = rows[i - 1]
  OBVIOUS
<1>2. l \in Nat /\ l <= Len(rows) + 1 /\ l <= Cap[at]
  BY DEF Least
<1>3. Trimmed(n) = SubSeq(s, 1, l)
  BY DEF Trimmed
<1> HIDE DEF s, l
<1>4. /\ SubSeq(s, 1, l) \in Seq(Nat) /\ Len(SubSeq(s, 1, l)) = l
      /\ \A i \in 1 .. l : SubSeq(s, 1, l)[i] = s[i]
  BY <1>1, <1>2
<1> QED BY <1>1, <1>2, <1>3, <1>4

LEMMA IdleType ==
  /\ Idle \in Fetch /\ Idle.st = "idle" /\ Idle.rows = <<>> /\ Idle.view = 0
  /\ Asked \in Fetch /\ Asked.st = "asked" /\ Asked.rows = <<>> /\ Asked.view = 0
  /\ Asked.here
<1>1. <<>> \in Seq(Nat)
  OBVIOUS
<1>2. Idle \in Fetch /\ Idle.st = "idle" /\ Idle.rows = <<>> /\ Idle.view = 0 /\ Idle.here
  BY <1>1 DEF Idle, Fetch
<1> QED BY <1>2 DEF Asked, Fetch

LEMMA OvertakenType ==
  ASSUME NEW f \in Fetch
  PROVE  /\ Overtaken(f) \in Fetch
         /\ Overtaken(f).st = f.st /\ Overtaken(f).rows = f.rows
         /\ Overtaken(f).view = f.view /\ Overtaken(f).here = f.here
         /\ f.st = "answered" /\ f.here => ~Overtaken(f).clean
BY DEF Overtaken, Fetch

LEMMA DetachedType ==
  ASSUME NEW f \in Fetch
  PROVE  /\ Detached(f) \in Fetch /\ Detached(f).st = f.st
         /\ Detached(f).rows = <<>> \/ Detached(f) = f
         /\ f.st # "idle" => ~Detached(f).here
<1>1. CASE f.st = "idle"
  BY <1>1 DEF Detached
<1>2. CASE f.st # "idle"
  <2>1. /\ Idle \in Fetch /\ Idle.rows = <<>>
        /\ Detached(f) = [Idle EXCEPT !.st = f.st, !.here = FALSE]
    BY <1>2, IdleType DEF Detached
  <2> QED BY <2>1 DEF Fetch
<1> QED BY <1>1, <1>2

LEMMA AnsweredType ==
  ASSUME NEW f \in Fetch, served \in Nat, base \in 0 .. served, Cap[at] \in Nat,
         project \in Nat
  PROVE  /\ Answered(f) \in Fetch
         /\ Answered(f).st = "answered" /\ Answered(f).rows = Newest(served, Cap[at])
         /\ Answered(f).view = project /\ Answered(f).here = f.here
         /\ Answered(f).clean <=> OnTheWay = {}
         /\ Len(Answered(f).rows) <= Cap[at]
<1>1. Newest(served, Cap[at]) \in Seq(Nat) /\ Len(Newest(served, Cap[at])) <= Cap[at]
  BY NewestSeq DEF Least
<1> HIDE DEF Newest
<1> QED BY <1>1 DEF Answered, Fetch

-----------------------------------------------------------------------------
(* Types, one group of variables at a time.                                 *)

ServerTyped == served \in Nat /\ base \in 0 .. served /\ project \in Nat /\ up \in BOOLEAN

WireTyped == wire \in Seq(Nat) /\ Len(wire) <= Buffer /\ faults \in Nat

ListTyped ==
  at \in Views /\ rows \in Seq(Nat) /\ Len(rows) <= Cap[at] /\ view \in 0 .. project

LinkTyped ==
  /\ connection \in Connections /\ pill \in Connections
  /\ ears \in SUBSET Elements

PauseTyped ==
  paused \in BOOLEAN /\ missed \in Nat /\ button \in [paused : BOOLEAN, missed : Nat]

\* What a fetch has read is no longer than the list, and no newer than the project.
FetchTyped ==
  /\ resume \in Fetch /\ again \in {"no", "here", "gone"}
  /\ refresh \in Fetch /\ queued \in BOOLEAN
  /\ Len(resume.rows) <= Cap[at] /\ Len(refresh.rows) <= Cap[at]
  /\ refresh.view <= project

GhostTyped == astray \in BOOLEAN /\ overtaken \in BOOLEAN /\ untold \in BOOLEAN

Typed ==
  /\ ServerTyped /\ WireTyped /\ ListTyped /\ LinkTyped /\ PauseTyped /\ FetchTyped
  /\ GhostTyped

LEMMA TypedIsTypeOK == Typed => TypeOK
BY DEF Typed, ServerTyped, WireTyped, ListTyped, LinkTyped, PauseTyped, FetchTyped, GhostTyped,
       TypeOK

LEMMA CapType == \A v \in Views : Cap[v] \in Nat
BY TrafficAssumption

\* A page as it is loaded.
LEMMA FreshRows ==
  ASSUME ServerTyped, NEW v \in Views
  PROVE  Newest(served, Cap[v]) \in Seq(Nat) /\ Len(Newest(served, Cap[v])) <= Cap[v]
<1>1. Cap[v] \in Nat
  BY CapType
<1> QED BY <1>1, NewestSeq DEF ServerTyped, Least

LEMMA InitTyped == Init => Typed
<1> SUFFICES ASSUME Init PROVE Typed
  OBVIOUS
<1>1. ServerTyped
  BY TrafficAssumption DEF Init, ServerTyped
<1>2. WireTyped
  BY TrafficAssumption DEF Init, WireTyped
<1>3. ListTyped
  BY <1>1, FreshRows DEF Init, ListTyped
<1>4. LinkTyped
  BY DEF Init, LinkTyped, Connections
<1>5. PauseTyped
  BY DEF Init, PauseTyped, Label
<1>6. FetchTyped
  <2>1. resume = Idle /\ refresh = Idle /\ again = "no" /\ queued = FALSE /\ project = 0
    BY DEF Init
  <2>2. Cap[at] \in Nat
    BY CapType DEF Init
  <2>3. Len(<<>>) <= Cap[at]
    BY <2>2
  <2>4. resume \in Fetch /\ refresh \in Fetch /\ again \in {"no", "here", "gone"}
        /\ queued \in BOOLEAN
    BY <2>1, IdleType
  <2>5. Len(resume.rows) <= Cap[at] /\ Len(refresh.rows) <= Cap[at]
    BY <2>1, <2>3, IdleType
  <2>6. refresh.view <= project
    BY <2>1, IdleType
  <2> QED BY <2>4, <2>5, <2>6 DEF FetchTyped
<1>7. GhostTyped
  BY DEF Init, GhostTyped
<1> QED BY <1>1, <1>2, <1>3, <1>4, <1>5, <1>6, <1>7 DEF Typed

\* A message is put on the wire if there is room.
LEMMA SendType ==
  ASSUME WireTyped, NEW m \in Nat, Send(m), UNCHANGED faults
  PROVE  WireTyped'
BY TrafficAssumption DEF WireTyped, Send, Reaches

LEMMA DisconnectType ==
  ASSUME LinkTyped, GhostTyped, Disconnect, UNCHANGED <<ears, overtaken>>, faults' \in Nat
  PROVE  WireTyped' /\ LinkTyped' /\ GhostTyped'
<1>1. WireTyped'
  BY TrafficAssumption DEF Disconnect, WireTyped
<1>2. LinkTyped'
  BY DEF Disconnect, LinkTyped, Connections
<1>3. GhostTyped'
  BY DEF Disconnect, GhostTyped
<1> QED BY <1>1, <1>2, <1>3

LEMMA OvertakeType ==
  ASSUME FetchTyped, OvertakeFetches, UNCHANGED <<again, queued, at, project>>
  PROVE  FetchTyped'
BY OvertakenType DEF FetchTyped, OvertakeFetches

\* A list is swapped in.
LEMMA SwapInType ==
  ASSUME ListTyped, LinkTyped, PauseTyped, GhostTyped, NEW f \in Fetch, Len(f.rows) <= Cap[at],
         SwapIn(f), UNCHANGED <<at, connection, paused, missed, untold>>
  PROVE  /\ rows' \in Seq(Nat) /\ Len(rows') <= Cap[at]
         /\ pill' \in Connections /\ PauseTyped' /\ GhostTyped'
<1>1. rows' \in Seq(Nat) /\ Len(rows') <= Cap[at]
  BY DEF SwapIn, Fetch
<1>2. pill' \in Connections
  BY DEF SwapIn, LinkTyped
<1>3. PauseTyped'
  BY DEF SwapIn, PauseTyped, Label
<1>4. GhostTyped'
  BY DEF SwapIn, GhostTyped, Fetch
<1> QED BY <1>1, <1>2, <1>3, <1>4

LEMMA StepTyped == Typed /\ [Next]_vars => Typed'
<1> SUFFICES ASSUME Typed, [Next]_vars PROVE Typed'
  OBVIOUS
<1> USE DEF server, link, pausing, fetches, ghosts
<1>0. /\ ServerTyped /\ WireTyped /\ ListTyped /\ LinkTyped /\ PauseTyped /\ FetchTyped
      /\ GhostTyped /\ Cap[at] \in Nat
  <2>1. ListTyped => Cap[at] \in Nat
    BY CapType DEF ListTyped
  <2> QED BY <2>1 DEF Typed
<1>1. CASE Publish
  <2>1. ServerTyped' /\ ListTyped' /\ LinkTyped' /\ PauseTyped'
    BY <1>0, <1>1 DEF Publish, ServerTyped, ListTyped, LinkTyped, PauseTyped
  <2>2. WireTyped'
    <3>1. served + 1 \in Nat /\ Send(served + 1) /\ UNCHANGED faults
      BY <1>0, <1>1 DEF Publish, ServerTyped
    <3> QED BY <1>0, <3>1, SendType
  <2>3. FetchTyped'
    BY <1>0, <1>1, OvertakeType DEF Publish
  <2>4. GhostTyped'
    BY <1>0, <1>1 DEF Publish, GhostTyped, Reaches
  <2> QED BY <2>1, <2>2, <2>3, <2>4 DEF Typed
<1>2. CASE Swap
  <2>1. ServerTyped' /\ ListTyped' /\ LinkTyped' /\ PauseTyped'
    BY <1>0, <1>2 DEF Swap, ServerTyped, ListTyped, LinkTyped, PauseTyped
  <2>2. WireTyped'
    <3>1. Reload \in Nat /\ Send(Reload) /\ UNCHANGED faults
      BY <1>2 DEF Swap, Reload
    <3> QED BY <1>0, <3>1, SendType
  <2>3. FetchTyped'
    <3>1. refresh.view <= project /\ refresh.view \in Nat /\ project' = project + 1
          /\ project \in Nat /\ UNCHANGED <<fetches, at>>
      BY <1>0, <1>2 DEF Swap, FetchTyped, Fetch, ServerTyped
    <3> QED BY <1>0, <3>1 DEF FetchTyped
  <2>4. GhostTyped'
    BY <1>0, <1>2 DEF Swap, GhostTyped, Reaches
  <2> QED BY <2>1, <2>2, <2>3, <2>4 DEF Typed
<1>3. CASE Reset \/ Start
  <2>1. ServerTyped'
    <3>1. served' = served /\ base' = served /\ project' = project
      BY <1>3 DEF Reset, Start
    <3>2. up' = up \/ up' = TRUE
      BY <1>3 DEF Reset, Start
    <3>3. up' \in BOOLEAN
      BY <1>0, <3>2 DEF ServerTyped
    <3>4. served' \in Nat /\ base' \in 0 .. served' /\ project' \in Nat
      BY <1>0, <3>1 DEF ServerTyped
    <3> QED BY <3>3, <3>4 DEF ServerTyped
  <2>3. WireTyped' /\ ListTyped' /\ LinkTyped' /\ PauseTyped' /\ GhostTyped'
    BY <1>0, <1>3 DEF Reset, Start, WireTyped, ListTyped, LinkTyped, PauseTyped, GhostTyped
  <2>2. FetchTyped'
    BY <1>0, <1>3, OvertakeType DEF Reset, Start
  <2> QED BY <2>1, <2>2, <2>3 DEF Typed
<1>4. CASE Drop \/ Stop
  <2>1. Disconnect /\ UNCHANGED <<ears, overtaken>> /\ faults' \in Nat
    BY <1>0, <1>4 DEF Drop, Stop, WireTyped
  <2>2. WireTyped' /\ LinkTyped' /\ GhostTyped'
    BY <1>0, <2>1, DisconnectType
  <2>3. ServerTyped' /\ ListTyped' /\ PauseTyped' /\ FetchTyped'
    BY <1>0, <1>4 DEF Drop, Stop, ServerTyped, ListTyped, PauseTyped, FetchTyped
  <2> QED BY <2>2, <2>3 DEF Typed
<1>5. CASE Open
  <2>1. LinkTyped'
    BY <1>0, <1>5 DEF Open, LinkTyped, Connections
  <2>2. ServerTyped' /\ WireTyped' /\ ListTyped' /\ PauseTyped' /\ FetchTyped' /\ GhostTyped'
    BY <1>0, <1>5
    DEF Open, ServerTyped, WireTyped, ListTyped, PauseTyped, FetchTyped, GhostTyped
  <2> QED BY <2>1, <2>2 DEF Typed
<1>6. CASE Load
  <2>1. ServerTyped' /\ PauseTyped' /\ GhostTyped'
    BY <1>0, <1>6 DEF Load, ServerTyped, PauseTyped, GhostTyped, Label
  <2>2. LinkTyped'
    BY <1>6 DEF Load, LinkTyped, Connections
  <2>3. WireTyped'
    BY <1>0, <1>6, TrafficAssumption DEF Load, WireTyped
  <2>4. ListTyped'
    <3>1. at' \in Views /\ rows' = Newest(served, Cap[at']) /\ view' = project
          /\ project' = project /\ project \in Nat
      BY <1>0, <1>6 DEF Load, ServerTyped
    <3>2. rows' \in Seq(Nat) /\ Len(rows') <= Cap[at']
      BY <1>0, <3>1, FreshRows
    <3> QED BY <3>1, <3>2 DEF ListTyped
  <2>5. FetchTyped'
    <3>1. resume' = Idle /\ refresh' = Idle /\ again' = "no" /\ queued' = FALSE
          /\ at' \in Views /\ project' \in Nat
      BY <1>0, <1>6 DEF Load, ServerTyped
    <3>2. Len(<<>>) <= Cap[at']
      BY <3>1, CapType
    <3>3. resume' \in Fetch /\ refresh' \in Fetch /\ again' \in {"no", "here", "gone"}
          /\ queued' \in BOOLEAN
      BY <3>1, IdleType
    <3>4. Len(resume'.rows) <= Cap[at'] /\ Len(refresh'.rows) <= Cap[at']
      BY <3>1, <3>2, IdleType
    <3>5. refresh'.view <= project'
      BY <3>1, IdleType
    <3> QED BY <3>3, <3>4, <3>5 DEF FetchTyped
  <2> QED BY <2>1, <2>2, <2>3, <2>4, <2>5 DEF Typed
<1>7. CASE Receive
  <2>1. wire # <<>> /\ wire' = Tail(wire) /\ UNCHANGED <<server, faults, at, view, connection,
                                                        ears, astray>>
    BY <1>7 DEF Receive
  <2>2. WireTyped' /\ Head(wire) \in Nat
    <3>1. wire \in Seq(Nat) /\ Len(wire) <= Buffer /\ Buffer \in Nat /\ faults \in Nat
      BY <1>0, TrafficAssumption DEF WireTyped
    <3>2. Tail(wire) \in Seq(Nat) /\ Len(Tail(wire)) = Len(wire) - 1 /\ Head(wire) \in Nat
      BY <2>1, <3>1
    <3> QED BY <2>1, <3>1, <3>2 DEF WireTyped
  <2>3. ServerTyped'
    BY <1>0, <2>1 DEF ServerTyped
  <2>4. CASE HearRequest(Head(wire))
    <3>1. rows' = rows \/ rows' = Trimmed(Head(wire))
      BY <2>4 DEF HearRequest
    <3>2. ListTyped'
      <4>1. Trimmed(Head(wire)) \in Seq(Nat) /\ Len(Trimmed(Head(wire))) <= Cap[at]
        BY <1>0, <2>2, TrimmedSeq DEF ListTyped
      <4> QED BY <1>0, <2>1, <3>1, <4>1 DEF ListTyped
    <3>3. LinkTyped' /\ FetchTyped'
      BY <1>0, <2>1, <2>4 DEF HearRequest, LinkTyped, FetchTyped
    <3>4. PauseTyped'
      <4>1. \/ UNCHANGED pausing
            \/ UNCHANGED paused /\ missed' = missed + 1
               /\ button' = [paused |-> TRUE, missed |-> missed + 1]
        BY <2>4 DEF HearRequest, Label
      <4>2. missed \in Nat => missed + 1 \in Nat
        OBVIOUS
      <4>3. CASE UNCHANGED pausing
        BY <1>0, <4>3 DEF PauseTyped
      <4>4. CASE ~UNCHANGED pausing
        <5>1. paused' \in BOOLEAN /\ missed' \in Nat
          BY <1>0, <4>1, <4>2, <4>4 DEF PauseTyped
        <5>2. [paused |-> TRUE, missed |-> missed'] \in [paused : BOOLEAN, missed : Nat]
          BY <5>1
        <5> QED BY <4>1, <4>4, <5>1, <5>2 DEF PauseTyped
      <4> QED BY <4>3, <4>4
    <3>5. GhostTyped'
      BY <1>0, <2>1, <2>4 DEF HearRequest, GhostTyped
    <3> QED BY <2>2, <2>3, <3>2, <3>3, <3>4, <3>5 DEF Typed
  <2>5. CASE HearReload
    <3>1. ListTyped' /\ LinkTyped' /\ PauseTyped'
      BY <1>0, <2>1, <2>5 DEF HearReload, ListTyped, LinkTyped, PauseTyped
    <3>2. FetchTyped'
      <4>1. queued' \in BOOLEAN
        BY <1>0, <2>5 DEF HearReload, FetchTyped
      <4>2. refresh' = refresh \/ refresh' = Asked
        BY <2>5 DEF HearReload
      <4>3. Len(<<>>) <= Cap[at]
        BY <1>0
      <4>4. refresh' \in Fetch /\ Len(refresh'.rows) <= Cap[at] /\ refresh'.view <= project
        BY <1>0, <4>2, <4>3, IdleType DEF FetchTyped, ServerTyped
      <4>5. UNCHANGED <<resume, again, at, project>>
        BY <2>1, <2>5 DEF HearReload
      <4> QED BY <1>0, <4>1, <4>4, <4>5 DEF FetchTyped
    <3>3. GhostTyped'
      BY <1>0, <2>1, <2>5 DEF HearReload, GhostTyped
    <3> QED BY <2>2, <2>3, <3>1, <3>2, <3>3 DEF Typed
  <2> QED BY <1>7, <2>4, <2>5 DEF Receive
<1>8. CASE TogglePause
  <2>1. ServerTyped' /\ WireTyped' /\ ListTyped' /\ LinkTyped' /\ GhostTyped'
    BY <1>0, <1>8 DEF TogglePause, ServerTyped, WireTyped, ListTyped, LinkTyped, GhostTyped
  <2>2. PauseTyped'
    BY <1>0, <1>8 DEF TogglePause, PauseTyped, Label
  <2>3. FetchTyped'
    <3>1. Len(<<>>) <= Cap[at]
      BY <1>0
    <3>2. (resume' = resume \/ resume' = Asked) /\ (again' = again \/ again' = "here")
          /\ UNCHANGED <<refresh, queued, at, project>>
      BY <1>8 DEF TogglePause, AskResume
    <3>3. resume' \in Fetch /\ Len(resume'.rows) <= Cap[at]
      BY <1>0, <3>1, <3>2, IdleType DEF FetchTyped
    <3>4. again' \in {"no", "here", "gone"}
      BY <1>0, <3>2 DEF FetchTyped
    <3> QED BY <1>0, <3>2, <3>3, <3>4 DEF FetchTyped
  <2> QED BY <2>1, <2>2, <2>3 DEF Typed
<1>9. CASE ClearView
  <2>1. ServerTyped' /\ WireTyped' /\ LinkTyped' /\ PauseTyped' /\ FetchTyped' /\ GhostTyped'
    BY <1>0, <1>9
    DEF ClearView, ServerTyped, WireTyped, LinkTyped, PauseTyped, FetchTyped, GhostTyped
  <2>2. ListTyped'
    BY <1>0, <1>9 DEF ClearView, ListTyped
  <2> QED BY <2>1, <2>2 DEF Typed
<1>10. CASE AnswerResume \/ AnswerRefresh
  <2>1. /\ ServerTyped' /\ WireTyped' /\ ListTyped' /\ LinkTyped' /\ PauseTyped' /\ GhostTyped'
        /\ UNCHANGED <<at, project, again, queued>>
    BY <1>0, <1>10 DEF AnswerResume, AnswerRefresh, ServerTyped, WireTyped, ListTyped,
                       LinkTyped, PauseTyped, GhostTyped
  <2>2. ASSUME NEW f \in Fetch
        PROVE  Answered(f) \in Fetch /\ Len(Answered(f).rows) <= Cap[at]
               /\ Answered(f).view = project
    BY <1>0, AnsweredType DEF ServerTyped
  <2>3. CASE AnswerResume
    <3>1. \/ resume' = Answered(resume)
          \/ resume' = [resume EXCEPT !.st = "answered"]
      BY <2>3 DEF AnswerResume
    <3>2. resume' \in Fetch /\ Len(resume'.rows) <= Cap[at]
      <4>1. [resume EXCEPT !.st = "answered"] \in Fetch
            /\ [resume EXCEPT !.st = "answered"].rows = resume.rows
        BY <1>0 DEF FetchTyped, Fetch
      <4> QED BY <1>0, <2>2, <3>1, <4>1 DEF FetchTyped
    <3>3. UNCHANGED refresh
      BY <2>3 DEF AnswerResume
    <3>4. FetchTyped'
      BY <1>0, <2>1, <3>2, <3>3 DEF FetchTyped
    <3> QED BY <2>1, <3>4 DEF Typed
  <2>4. CASE AnswerRefresh
    <3>1. refresh' = Answered(refresh) /\ UNCHANGED resume
      BY <2>4 DEF AnswerRefresh
    <3>2. refresh' \in Fetch /\ Len(refresh'.rows) <= Cap[at] /\ refresh'.view = project
      BY <1>0, <2>2, <3>1 DEF FetchTyped
    <3>3. FetchTyped'
      BY <1>0, <2>1, <3>1, <3>2 DEF FetchTyped, ServerTyped
    <3> QED BY <2>1, <3>3 DEF Typed
  <2> QED BY <1>10, <2>3, <2>4
<1>11. ASSUME NEW where \in {"here", "gone", "no"}, NextResume(where),
              UNCHANGED <<refresh, queued, at, project>>, again' = "no"
       PROVE  FetchTyped'
  <2>1. Len(<<>>) <= Cap[at]
    BY <1>0
  <2>2. [Asked EXCEPT !.here = where = "here"] \in Fetch
        /\ [Asked EXCEPT !.here = where = "here"].rows = <<>>
    BY IdleType DEF Fetch
  <2>3. resume' = Idle \/ resume' = [Asked EXCEPT !.here = where = "here"]
    BY <1>11 DEF NextResume
  <2>4. resume' \in Fetch /\ Len(resume'.rows) <= Cap[at]
    BY <2>1, <2>2, <2>3, IdleType
  <2> QED BY <1>0, <1>11, <2>4 DEF FetchTyped
<1>12. CASE SwapResume
  <2>1. ServerTyped' /\ WireTyped'
    BY <1>0, <1>12 DEF SwapResume, ServerTyped, WireTyped
  <2>2. UNCHANGED <<refresh, queued, at, project, view, connection, paused, missed, untold>>
        /\ again' = "no"
    BY <1>12 DEF SwapResume
  <2>3. CASE resume.here
    <3>1. SwapIn(resume) /\ ears' = ears \ {"list"} /\ NextResume("gone")
      BY <1>12, <2>3 DEF SwapResume
    <3>2. FetchTyped'
      BY <1>11, <2>2, <3>1
    <3>3. resume \in Fetch /\ Len(resume.rows) <= Cap[at]
      BY <1>0 DEF FetchTyped
    <3>4. /\ rows' \in Seq(Nat) /\ Len(rows') <= Cap[at]
          /\ pill' \in Connections /\ PauseTyped' /\ GhostTyped'
      BY <1>0, <2>2, <3>1, <3>3, SwapInType
    <3>5. ListTyped' /\ LinkTyped'
      BY <1>0, <2>2, <3>1, <3>4 DEF ListTyped, LinkTyped
    <3> QED BY <2>1, <3>2, <3>4, <3>5 DEF Typed
  <2>4. CASE ~resume.here
    <3>1. NextResume(again) /\ UNCHANGED <<rows, pill, button, ears, astray, overtaken>>
      BY <1>12, <2>4 DEF SwapResume
    <3>2. again \in {"here", "gone", "no"}
      BY <1>0 DEF FetchTyped
    <3>3. FetchTyped'
      BY <1>11, <2>2, <3>1, <3>2
    <3>4. ListTyped' /\ LinkTyped' /\ PauseTyped' /\ GhostTyped'
      BY <1>0, <2>2, <3>1 DEF ListTyped, LinkTyped, PauseTyped, GhostTyped
    <3> QED BY <2>1, <3>3, <3>4 DEF Typed
  <2> QED BY <2>3, <2>4
<1>13. CASE SwapRefresh
  <2>1. ServerTyped' /\ WireTyped'
    BY <1>0, <1>13 DEF SwapRefresh, ServerTyped, WireTyped
  <2>2. /\ UNCHANGED <<at, project, connection, paused, missed, untold>>
        /\ SwapIn(refresh) /\ view' = refresh.view /\ ears' = {}
        /\ refresh' = Idle /\ queued' = FALSE
        /\ resume' = Detached(resume) /\ again' \in {"no", "gone"}
    BY <1>13 DEF SwapRefresh
  <2>3. refresh \in Fetch /\ Len(refresh.rows) <= Cap[at] /\ refresh.view \in 0 .. project
    BY <1>0 DEF FetchTyped, Fetch, ServerTyped
  <2>4. /\ rows' \in Seq(Nat) /\ Len(rows') <= Cap[at]
        /\ pill' \in Connections /\ PauseTyped' /\ GhostTyped'
    BY <1>0, <2>2, <2>3, SwapInType
  <2>5. ListTyped' /\ LinkTyped'
    BY <1>0, <2>2, <2>3, <2>4 DEF ListTyped, LinkTyped
  <2>6. FetchTyped'
    <3>1. Len(<<>>) <= Cap[at]
      BY <1>0
    <3>2. resume' \in Fetch /\ Len(resume'.rows) <= Cap[at]
      BY <1>0, <2>2, <3>1, DetachedType DEF FetchTyped
    <3>3. refresh' \in Fetch /\ Len(refresh'.rows) <= Cap[at]
      BY <2>2, <3>1, IdleType
    <3>4. refresh'.view <= project'
      BY <1>0, <2>2, IdleType DEF ServerTyped
    <3> QED BY <2>2, <3>2, <3>3, <3>4 DEF FetchTyped
  <2> QED BY <2>1, <2>4, <2>5, <2>6 DEF Typed
<1>14. CASE FailResume
  <2>1. ServerTyped' /\ WireTyped' /\ ListTyped' /\ LinkTyped' /\ PauseTyped' /\ GhostTyped'
    BY <1>0, <1>14 DEF FailResume, ServerTyped, WireTyped, ListTyped, LinkTyped, PauseTyped,
                       GhostTyped
  <2>2. NextResume(again) /\ again' = "no" /\ UNCHANGED <<refresh, queued, at, project>>
    BY <1>14 DEF FailResume
  <2>3. again \in {"here", "gone", "no"}
    BY <1>0 DEF FetchTyped
  <2>4. FetchTyped'
    BY <1>11, <2>2, <2>3
  <2> QED BY <2>1, <2>4 DEF Typed
<1>15. CASE FailRefresh
  <2>1. ServerTyped' /\ WireTyped' /\ ListTyped' /\ LinkTyped' /\ PauseTyped' /\ GhostTyped'
    BY <1>0, <1>15 DEF FailRefresh, ServerTyped, WireTyped, ListTyped, LinkTyped, PauseTyped,
                       GhostTyped
  <2>2. (refresh' = Asked \/ refresh' = Idle) /\ queued' = FALSE
        /\ UNCHANGED <<resume, again, at, project>>
    BY <1>15 DEF FailRefresh
  <2>3. Len(<<>>) <= Cap[at]
    BY <1>0
  <2>4. refresh' \in Fetch /\ Len(refresh'.rows) <= Cap[at]
    BY <2>2, <2>3, IdleType
  <2>5. refresh'.view <= project
    BY <1>0, <2>2, IdleType DEF ServerTyped
  <2>6. FetchTyped'
    BY <1>0, <2>2, <2>4, <2>5 DEF FetchTyped
  <2> QED BY <2>1, <2>6 DEF Typed
<1>16. CASE Settle
  <2>1. LinkTyped'
    BY <1>0, <1>16 DEF Settle, LinkTyped
  <2>2. ServerTyped' /\ WireTyped' /\ ListTyped' /\ PauseTyped' /\ FetchTyped' /\ GhostTyped'
    BY <1>0, <1>16
    DEF Settle, ServerTyped, WireTyped, ListTyped, PauseTyped, FetchTyped, GhostTyped
  <2> QED BY <2>1, <2>2 DEF Typed
<1>17. CASE UNCHANGED vars
  <2>1. /\ ServerTyped' /\ WireTyped' /\ ListTyped' /\ LinkTyped' /\ PauseTyped' /\ FetchTyped'
        /\ GhostTyped'
    BY <1>0, <1>17 DEF vars, ServerTyped, WireTyped, ListTyped, LinkTyped, PauseTyped,
                       FetchTyped, GhostTyped
  <2> QED BY <2>1 DEF Typed
<1> QED
  BY <1>1, <1>2, <1>3, <1>4, <1>5, <1>6, <1>7, <1>8, <1>9, <1>10, <1>12, <1>13, <1>14, <1>15,
     <1>16, <1>17
  DEF Next, Environment, User, Page

\* Every variable stays in its set: no list outgrows its cap, no page is newer than
\* the mock.
THEOREM TrafficTypeCorrect == Spec => []TypeOK
<1>1. Spec => []Typed
  BY InitTyped, StepTyped, PTL DEF Spec
<1> QED BY <1>1, TypedIsTypeOK, PTL
-----------------------------------------------------------------------------
(* What the page says.                                                      *)

\* After every task of the page, whatever was swapped in, the pill and the button say
\* what app.js knows.
THEOREM WhatThePageSays == Spec => []ButtonTells
<1>1. Init => ButtonTells
  BY DEF Init, ButtonTells, Label
<1>2. Typed /\ ButtonTells /\ [Next]_vars => ButtonTells'
  <2> SUFFICES ASSUME Typed, ButtonTells, [Next]_vars PROVE ButtonTells'
    OBVIOUS
  <2> USE DEF server, link, pausing, fetches, ghosts
  <2>1. pill = connection /\ button = Label(paused, missed)
    BY DEF ButtonTells
  <2>2. CASE Publish \/ Swap \/ Reset \/ Start \/ ClearView \/ AnswerResume \/ AnswerRefresh
             \/ FailResume \/ FailRefresh \/ Settle \/ UNCHANGED vars
    <3>1. UNCHANGED <<pill, connection, button, paused, missed>>
      BY <2>2 DEF Publish, Swap, Reset, Start, ClearView, AnswerResume, AnswerRefresh,
                  FailResume, FailRefresh, Settle, vars
    <3> QED BY <2>1, <3>1 DEF ButtonTells, Label
  <2>3. CASE Drop \/ Stop
    BY <2>1, <2>3 DEF Drop, Stop, Disconnect, ButtonTells, Label
  <2>4. CASE Open
    BY <2>1, <2>4 DEF Open, ButtonTells, Label
  <2>5. CASE Load
    BY <2>5 DEF Load, ButtonTells, Label
  <2>6. CASE Receive
    <3>1. UNCHANGED <<pill, connection>>
      BY <2>6 DEF Receive, HearRequest, HearReload
    <3>2. CASE HearRequest(Head(wire))
      <4>1. \/ UNCHANGED pausing
            \/ paused /\ missed' = missed + 1 /\ button' = Label(TRUE, missed + 1)
               /\ UNCHANGED paused
        BY <3>2 DEF HearRequest
      <4>2. paused \in BOOLEAN
        BY DEF Typed, PauseTyped
      <4> QED BY <2>1, <3>1, <4>1, <4>2 DEF ButtonTells, Label
    <3>3. CASE HearReload
      BY <2>1, <3>1, <3>3 DEF HearReload, ButtonTells, Label
    <3> QED BY <2>6, <3>2, <3>3 DEF Receive
  <2>7. CASE TogglePause
    BY <2>1, <2>7 DEF TogglePause, ButtonTells, Label
  <2>8. CASE SwapResume \/ SwapRefresh
    BY <2>1, <2>8 DEF SwapResume, SwapRefresh, SwapIn, ButtonTells, Label
  <2> QED BY <2>2, <2>3, <2>4, <2>5, <2>6, <2>7, <2>8 DEF Next, Environment, User, Page
<1> QED BY <1>1, <1>2, InitTyped, StepTyped, PTL DEF Spec

-----------------------------------------------------------------------------
(* Which project the page shows.                                            *)

\* A page that is behind the mock has been told, will fetch, or holds an answer of the
\* project served.
Told ==
  \/ untold
  \/ \E i \in 1 .. Len(wire) : wire[i] = Reload
  \/ refresh.st = "asked"
  \/ refresh.st = "answered" /\ refresh.view = project
  \/ refresh.st = "idle" /\ view = project

LEMMA ToldFollows == Typed /\ Told => PageFollows
BY DEF Told, PageFollows

LEMMA StepTold == Typed /\ Told /\ [Next]_vars => Told'
<1> SUFFICES ASSUME Typed, Told, [Next]_vars PROVE Told'
  OBVIOUS
<1> USE DEF server, link, pausing, fetches, ghosts
<1>0. /\ wire \in Seq(Nat) /\ resume \in Fetch /\ refresh \in Fetch /\ untold \in BOOLEAN
      /\ served \in Nat /\ base \in 0 .. served /\ project \in Nat /\ Cap[at] \in Nat
  BY CapType DEF Typed, ServerTyped, WireTyped, ListTyped, FetchTyped, GhostTyped
<1>1. ASSUME NEW m \in Nat PROVE /\ Append(wire, m) \in Seq(Nat)
                                 /\ Len(Append(wire, m)) = Len(wire) + 1
                                 /\ Append(wire, m)[Len(wire) + 1] = m
                                 /\ \A i \in 1 .. Len(wire) : Append(wire, m)[i] = wire[i]
  BY <1>0
<1>2. ASSUME UNCHANGED <<untold, project, view>>, refresh'.st = refresh.st,
             refresh'.view = refresh.view,
             \A i \in 1 .. Len(wire) : i \in 1 .. Len(wire') /\ wire'[i] = wire[i]
      PROVE  Told'
  BY <1>2 DEF Told
<1>3. CASE Publish
  <2>1. served + 1 \in Nat /\ Send(served + 1) /\ OvertakeFetches
        /\ UNCHANGED <<untold, project, view>>
    BY <1>0, <1>3 DEF Publish
  <2>2. \A i \in 1 .. Len(wire) : i \in 1 .. Len(wire') /\ wire'[i] = wire[i]
    BY <1>0, <1>1, <2>1 DEF Send
  <2>3. refresh'.st = refresh.st /\ refresh'.view = refresh.view
    BY <1>0, <2>1, OvertakenType DEF OvertakeFetches
  <2> QED BY <1>2, <2>1, <2>2, <2>3
<1>4. CASE Swap
  <2>1. CASE Reaches
    <3>1. wire' = Append(wire, Reload) /\ Reload \in Nat
      BY <1>4, <2>1 DEF Swap, Send, Reload
    <3>2. Len(wire) + 1 \in 1 .. Len(wire') /\ wire'[Len(wire) + 1] = Reload
      BY <1>0, <1>1, <3>1
    <3> QED BY <3>2 DEF Told
  <2>2. CASE ~Reaches
    BY <1>4, <2>2 DEF Swap, Told
  <2> QED BY <2>1, <2>2
<1>5. CASE Reset \/ Start
  <2>1. OvertakeFetches /\ UNCHANGED <<untold, project, view, wire>>
    BY <1>5 DEF Reset, Start
  <2>2. refresh'.st = refresh.st /\ refresh'.view = refresh.view
    BY <1>0, <2>1, OvertakenType DEF OvertakeFetches
  <2> QED BY <1>2, <2>1, <2>2
<1>6. CASE Drop \/ Stop
  <2>1. untold' = (untold \/ \E i \in 1 .. Len(wire) : wire[i] = Reload)
        /\ UNCHANGED <<project, view, refresh>>
    BY <1>6 DEF Drop, Stop, Disconnect
  <2> QED BY <2>1 DEF Told
<1>7. CASE Load
  <2>1. refresh' = Idle /\ view' = project /\ project' = project
    BY <1>7 DEF Load
  <2> QED BY <2>1, IdleType DEF Told
<1>8. CASE Open \/ TogglePause \/ ClearView \/ AnswerResume \/ SwapResume \/ FailResume
           \/ Settle \/ UNCHANGED vars
  <2>1. UNCHANGED <<untold, project, view, wire, refresh>>
    BY <1>8 DEF Open, TogglePause, ClearView, AnswerResume, SwapResume, FailResume, Settle, vars
  <2> QED BY <2>1 DEF Told
<1>9. CASE Receive
  <2>1. wire # <<>> /\ wire' = Tail(wire) /\ UNCHANGED <<project, view>>
    BY <1>9 DEF Receive
  <2>2. /\ Len(wire') = Len(wire) - 1 /\ Head(wire) = wire[1]
        /\ \A i \in 1 .. Len(wire') : wire'[i] = wire[i + 1]
    BY <1>0, <2>1
  <2>3. CASE Head(wire) # Reload /\ HearRequest(Head(wire))
    <3>1. UNCHANGED <<untold, refresh>>
      BY <2>3 DEF HearRequest
    <3>2. ASSUME NEW i \in 1 .. Len(wire), wire[i] = Reload
          PROVE  i - 1 \in 1 .. Len(wire') /\ wire'[i - 1] = Reload
      <4>1. i # 1
        BY <2>2, <2>3, <3>2
      <4> QED BY <1>0, <2>2, <3>2, <4>1
    <3> QED BY <2>1, <3>1, <3>2 DEF Told
  <2>4. CASE Head(wire) = Reload /\ HearReload
    <3>1. CASE "app" \in ears /\ refresh.st = "idle"
      <4>1. refresh' = Asked
        BY <2>4, <3>1 DEF HearReload
      <4> QED BY <4>1, IdleType DEF Told
    <3>2. CASE "app" \notin ears \/ refresh.st = "answered"
      <4>1. untold'
        BY <2>4, <3>2 DEF HearReload
      <4> QED BY <4>1 DEF Told
    <3>3. CASE "app" \in ears /\ refresh.st = "asked"
      <4>1. refresh' = refresh
        BY <2>4, <3>3 DEF HearReload
      <4> QED BY <3>3, <4>1 DEF Told
    <3> QED BY <1>0, <3>1, <3>2, <3>3 DEF Fetch
  <2> QED BY <1>9, <2>3, <2>4 DEF Receive
<1>10. CASE AnswerRefresh
  <2>1. refresh' = Answered(refresh) /\ project' = project
    BY <1>10 DEF AnswerRefresh
  <2>2. refresh'.st = "answered" /\ refresh'.view = project
    BY <1>0, <2>1, AnsweredType
  <2> QED BY <2>1, <2>2 DEF Told
<1>11. CASE SwapRefresh
  <2>1. refresh.st = "answered" /\ refresh' = Idle /\ view' = refresh.view
        /\ UNCHANGED <<untold, project, wire>>
    BY <1>11 DEF SwapRefresh
  <2> QED BY <2>1, IdleType DEF Told
<1>12. CASE FailRefresh
  BY <1>12 DEF FailRefresh, Told
<1> QED
  BY <1>3, <1>4, <1>5, <1>6, <1>7, <1>8, <1>9, <1>10, <1>11, <1>12
  DEF Next, Environment, User, Page

\* A page at rest shows the project served, unless the word of a reload was lost.
THEOREM PageIsCurrent == Spec => []PageFollows
<1>1. Init => Told
  BY IdleType DEF Init, Told
<1>2. Spec => [](Typed /\ Told)
  BY <1>1, InitTyped, StepTyped, StepTold, PTL DEF Spec
<1> QED BY <1>2, ToldFollows, PTL
-----------------------------------------------------------------------------
(* The order of the rows.                                                   *)

Falling(s) == \A i, j \in 1 .. Len(s) : i < j => s[i] > s[j]

Known(s) == \A i \in 1 .. Len(s) : s[i] <= served

\* Requests are sent in their order.
Rising == \A i, j \in 1 .. Len(wire) :
            i < j /\ wire[i] # Reload /\ wire[j] # Reload => wire[i] < wire[j]

\* What is on its way is newer than any row.
Below == \A i \in 1 .. Len(rows), j \in 1 .. Len(wire) : wire[j] # Reload => rows[i] < wire[j]

Quiet == \A j \in 1 .. Len(wire) : wire[j] = Reload

\* An answer that is still clean was made, and is still held, with nothing on its way.
Fresh(f) == f.st = "answered" /\ f.here /\ f.clean => Quiet

Ordered ==
  /\ Rising /\ Known(wire) /\ Known(rows)
  /\ refresh.here
  /\ Falling(resume.rows) /\ Known(resume.rows) /\ Fresh(resume)
  /\ Falling(refresh.rows) /\ Known(refresh.rows) /\ Fresh(refresh)
  /\ ~overtaken => Falling(rows) /\ Below

LEMMA NewestOrdered ==
  ASSUME served \in Nat, base \in 0 .. served, NEW n \in Nat
  PROVE  Falling(Newest(served, n)) /\ Known(Newest(served, n))
<1>1. Least(served - base, n) \in Nat
  BY DEF Least
<1>2. /\ Len(Newest(served, n)) = Least(served - base, n)
      /\ \A i \in 1 .. Least(served - base, n) : Newest(served, n)[i] = served + 1 - i
  BY NewestSeq
<1> HIDE DEF Newest, Least
<1> QED BY <1>1, <1>2 DEF Falling, Known

LEMMA QuietWire == ASSUME wire \in Seq(Nat) PROVE OnTheWay = {} <=> Quiet
BY DEF OnTheWay, Quiet, Reload

LEMMA InitOrdered == Init => Ordered
<1> SUFFICES ASSUME Init PROVE Ordered
  OBVIOUS
<1>1. /\ wire = <<>> /\ refresh = Idle /\ resume = Idle /\ served \in Nat /\ base \in 0 .. served
      /\ Cap[at] \in Nat /\ rows = Newest(served, Cap[at])
  BY TrafficAssumption, CapType DEF Init
<1>2. Falling(rows) /\ Known(rows)
  BY <1>1, NewestOrdered
<1>3. Len(<<>>) = 0 /\ Len(wire) = 0
  BY <1>1
<1>4. Falling(<<>>) /\ Known(<<>>) /\ Rising /\ Known(wire) /\ Below /\ Quiet
  BY <1>3 DEF Falling, Known, Rising, Below, Quiet
<1>5. Idle.rows = <<>> /\ Idle.here
  BY DEF Idle
<1> QED BY <1>1, <1>2, <1>4, <1>5 DEF Ordered, Fresh

\* Nothing of it depends on more than the wire, the rows, the fetches and `served`.
LEMMA StepOrdered == Typed /\ Ordered /\ [Next]_vars => Ordered'
<1> SUFFICES ASSUME Typed, Ordered, [Next]_vars PROVE Ordered'
  OBVIOUS
<1> USE DEF server, link, pausing, fetches, ghosts
<1>0. /\ wire \in Seq(Nat) /\ rows \in Seq(Nat) /\ resume \in Fetch /\ refresh \in Fetch
      /\ served \in Nat /\ base \in 0 .. served /\ project \in Nat /\ Cap[at] \in Nat
      /\ overtaken \in BOOLEAN
  BY CapType DEF Typed, ServerTyped, WireTyped, ListTyped, FetchTyped, GhostTyped
<1>1. Idle.rows = <<>> /\ Idle.here /\ Idle.st = "idle"
      /\ Asked.rows = <<>> /\ Asked.here /\ Asked.st = "asked"
  BY IdleType DEF Idle
<1>2. Falling(<<>>) /\ Known(<<>>) /\ Known(<<>>)'
  <2>1. Len(<<>>) = 0
    OBVIOUS
  <2> QED BY <2>1 DEF Falling, Known
<1>3. \A f \in Fetch : f.rows \in Seq(Nat)
  BY DEF Fetch
<1>4. ASSUME UNCHANGED <<rows, served, overtaken, wire>>,
             refresh'.here, Falling(refresh'.rows), Known(refresh'.rows), Fresh(refresh'),
             Falling(resume'.rows), Known(resume'.rows), Fresh(resume')
      PROVE  Ordered'
  BY <1>4 DEF Ordered, Rising, Known, Fresh, Below, Falling, Quiet
<1>5. CASE Publish
  <2>1. /\ served' = served + 1 /\ Send(served + 1) /\ OvertakeFetches
        /\ UNCHANGED <<rows, overtaken>>
    BY <1>5 DEF Publish
  <2>2. \/ wire' = wire
        \/ /\ wire' \in Seq(Nat) /\ Len(wire') = Len(wire) + 1
           /\ wire'[Len(wire) + 1] = served + 1
           /\ \A i \in 1 .. Len(wire) : wire'[i] = wire[i]
    <3>1. served + 1 \in Nat
      BY <1>0
    <3> QED BY <1>0, <2>1, <3>1 DEF Send
  <2>3. Known(wire) /\ Known(rows) /\ Rising
    BY DEF Ordered
  <2>4. /\ \A i \in 1 .. Len(wire) : wire'[i] = wire[i]
        /\ \A i \in 1 .. Len(wire') : i \notin 1 .. Len(wire) => wire'[i] = served + 1
    BY <1>0, <2>2
  <2>5. \A i \in 1 .. Len(wire) :
          wire[i] \in Nat /\ wire[i] < served + 1 /\ wire[i] <= served + 1
    BY <1>0, <2>3 DEF Known
  <2>6. \A i \in 1 .. Len(rows) : rows[i] \in Nat /\ rows[i] < served + 1
    BY <1>0, <2>3 DEF Known
  <2>7. Known(wire)' /\ Known(rows)'
    <3>1. ASSUME NEW i \in 1 .. Len(wire') PROVE wire'[i] <= served + 1
      <4>1. CASE i \in 1 .. Len(wire)
        <5>1. wire'[i] = wire[i]
          BY <2>4, <4>1
        <5> QED BY <2>5, <4>1, <5>1
      <4>2. CASE i \notin 1 .. Len(wire)
        BY <1>0, <2>4, <4>2
      <4> QED BY <4>1, <4>2
    <3>2. ASSUME NEW i \in 1 .. Len(rows) PROVE rows[i] <= served + 1
      BY <1>0, <2>6
    <3> QED BY <2>1, <3>1, <3>2 DEF Known
  <2>8. Rising'
    <3> SUFFICES ASSUME NEW i \in 1 .. Len(wire'), NEW j \in 1 .. Len(wire'), i < j,
                        wire'[i] # Reload, wire'[j] # Reload
                 PROVE  wire'[i] < wire'[j]
      BY DEF Rising
    <3>1. i \in 1 .. Len(wire)
      BY <1>0, <2>2
    <3>2. wire'[i] = wire[i] /\ wire[i] < served + 1
      BY <2>4, <2>5, <3>1
    <3>3. CASE j \in 1 .. Len(wire)
      <4>1. wire'[j] = wire[j]
        BY <2>4, <3>3
      <4>2. wire[i] < wire[j]
        BY <2>3, <3>1, <3>2, <3>3, <4>1 DEF Rising
      <4> QED BY <3>2, <4>1, <4>2
    <3>4. CASE j \notin 1 .. Len(wire)
      BY <2>4, <3>2, <3>4
    <3> QED BY <3>3, <3>4
  <2>9. (~overtaken => Falling(rows) /\ Below)'
    <3>1. ASSUME ~overtaken, NEW i \in 1 .. Len(rows), NEW j \in 1 .. Len(wire'),
                 wire'[j] # Reload
          PROVE  rows[i] < wire'[j]
      <4>1. Below
        BY <3>1 DEF Ordered
      <4>2. CASE j \in 1 .. Len(wire)
        <5>1. wire'[j] = wire[j]
          BY <2>4, <4>2
        <5> QED BY <3>1, <4>1, <4>2, <5>1 DEF Below
      <4>3. CASE j \notin 1 .. Len(wire)
        BY <2>4, <2>6, <4>3
      <4> QED BY <4>2, <4>3
    <3>2. ~overtaken => Below'
      BY <2>1, <3>1 DEF Below
    <3> QED BY <2>1, <3>2 DEF Ordered, Falling
  <2>10. ASSUME NEW f \in Fetch, Falling(f.rows), Known(f.rows), Fresh(f)
         PROVE  Falling(Overtaken(f).rows) /\ Known(Overtaken(f).rows)' /\ Fresh(Overtaken(f))'
    <3>1. \A i \in 1 .. Len(f.rows) : f.rows[i] \in Nat /\ f.rows[i] <= served + 1
      BY <1>0, <1>3, <2>10 DEF Known
    <3>2. Known(Overtaken(f).rows)'
      BY <2>1, <3>1, OvertakenType DEF Known
    <3> QED BY <2>10, <3>2, OvertakenType DEF Fresh
  <2>11. Falling(resume.rows)' /\ Known(resume.rows)' /\ Fresh(resume)'
    BY <1>0, <2>1, <2>10 DEF Ordered, OvertakeFetches
  <2>12. Falling(refresh.rows)' /\ Known(refresh.rows)' /\ Fresh(refresh)' /\ refresh'.here
    BY <1>0, <2>1, <2>10, OvertakenType DEF Ordered, OvertakeFetches
  <2> QED BY <2>7, <2>8, <2>9, <2>11, <2>12 DEF Ordered
<1>6. CASE Swap
  <2>1. Send(Reload) /\ UNCHANGED <<served, rows, overtaken, refresh, resume>>
    BY <1>6 DEF Swap
  <2>2. \/ wire' = wire
        \/ /\ wire' \in Seq(Nat) /\ Len(wire') = Len(wire) + 1
           /\ wire'[Len(wire) + 1] = Reload
           /\ \A i \in 1 .. Len(wire) : wire'[i] = wire[i]
    <3>1. Reload \in Nat
      BY DEF Reload
    <3> QED BY <1>0, <2>1, <3>1 DEF Send
  <2>3. \A i \in 1 .. Len(wire') : wire'[i] # Reload => i \in 1 .. Len(wire) /\ wire'[i] = wire[i]
    <3>1. CASE wire' = wire
      BY <3>1
    <3>2. CASE wire' # wire
      <4>1. \A i \in 1 .. Len(wire') : i \in 1 .. Len(wire) \/ i = Len(wire) + 1
        BY <1>0, <2>2, <3>2
      <4> QED BY <2>2, <3>2, <4>1
    <3> QED BY <3>1, <3>2
  <2>4. Rising' /\ Known(rows)' /\ (~overtaken => Falling(rows) /\ Below)'
    BY <2>1, <2>3 DEF Ordered, Rising, Known, Falling, Below
  <2>5. Known(wire)'
    BY <1>0, <2>1, <2>3 DEF Ordered, Known, Reload
  <2>6. Quiet => Quiet'
    BY <2>3 DEF Quiet
  <2> QED BY <2>1, <2>4, <2>5, <2>6 DEF Ordered, Falling, Known, Fresh
<1>7. CASE Reset \/ Start
  <2>1. OvertakeFetches /\ UNCHANGED <<served, rows, overtaken, wire>>
    BY <1>7 DEF Reset, Start
  <2>2. ASSUME NEW f \in Fetch, Falling(f.rows), Known(f.rows), Fresh(f)
        PROVE  Falling(Overtaken(f).rows) /\ Known(Overtaken(f).rows) /\ Fresh(Overtaken(f))
    BY <2>2, OvertakenType DEF Fresh
  <2>3. Falling(resume'.rows) /\ Known(resume'.rows) /\ Fresh(resume')
    BY <1>0, <2>1, <2>2 DEF Ordered, OvertakeFetches
  <2>4. Falling(refresh'.rows) /\ Known(refresh'.rows) /\ Fresh(refresh') /\ refresh'.here
    BY <1>0, <2>1, <2>2, OvertakenType DEF Ordered, OvertakeFetches
  <2> QED BY <1>4, <2>1, <2>3, <2>4
<1>8. CASE Drop \/ Stop
  <2>1. wire' = <<>> /\ UNCHANGED <<served, rows, overtaken, resume, refresh>>
    BY <1>8 DEF Drop, Stop, Disconnect
  <2>2. Len(wire') = 0
    BY <2>1
  <2>3. Rising' /\ Known(wire)' /\ Below' /\ Quiet'
    BY <2>2 DEF Rising, Known, Below, Quiet
  <2> QED BY <2>1, <2>3 DEF Ordered, Known, Falling, Fresh
<1>9. CASE Load
  <2>1. /\ wire' = <<>> /\ rows' = Newest(served, Cap[at']) /\ at' \in Views
        /\ UNCHANGED served /\ resume' = Idle /\ refresh' = Idle
    BY <1>9 DEF Load
  <2>2. Len(wire') = 0
    BY <2>1
  <2>3. Rising' /\ Known(wire)' /\ Below' /\ Quiet'
    BY <2>2 DEF Rising, Known, Below, Quiet
  <2>4. Cap[at'] \in Nat
    BY <2>1, CapType
  <2>5. Falling(rows') /\ Known(rows')
    BY <1>0, <2>1, <2>4, NewestOrdered
  <2>6. Falling(resume.rows)' /\ Known(resume.rows)' /\ Falling(refresh.rows)'
        /\ Known(refresh.rows)' /\ refresh'.here
    BY <1>1, <1>2, <2>1
  <2> QED BY <2>1, <2>3, <2>5, <2>6 DEF Ordered, Known, Falling, Fresh
<1>10. CASE Receive
  <2>1. wire # <<>> /\ wire' = Tail(wire) /\ UNCHANGED served
    BY <1>10 DEF Receive
  <2>2. /\ Len(wire') = Len(wire) - 1 /\ Head(wire) = wire[1] /\ 1 \in 1 .. Len(wire)
        /\ \A i \in 1 .. Len(wire') : wire'[i] = wire[i + 1] /\ i + 1 \in 1 .. Len(wire)
    BY <1>0, <2>1
  <2>3. Len(wire) \in Nat /\ Len(wire') \in Nat
    BY <1>0, <2>2
  <2>4. Rising' /\ Known(wire)'
    BY <2>1, <2>2, <2>3 DEF Ordered, Rising, Known
  <2>5. Quiet => Quiet'
    BY <2>2 DEF Quiet
  <2>6. Below => Below' \/ rows' # rows
    BY <2>2, <2>3 DEF Below
  <2>7. CASE Head(wire) # Reload /\ HearRequest(Head(wire))
    <3>1. UNCHANGED <<resume, refresh>>
      BY <2>7 DEF HearRequest
    <3>2. CASE rows' = rows /\ (overtaken => overtaken')
      BY <2>1, <2>4, <2>5, <2>6, <3>1, <3>2 DEF Ordered, Known, Falling, Fresh
    <3>3. CASE rows' = Trimmed(Head(wire)) /\ overtaken' = overtaken
      <4> DEFINE h == Head(wire)
      <4>1. h \in Nat /\ h <= served
        BY <1>0, <2>2 DEF Ordered, Known
      <4>2. /\ rows' \in Seq(Nat) /\ Len(rows') <= Len(rows) + 1
            /\ Len(rows') > 0 => rows'[1] = h
            /\ \A i \in 2 .. Len(rows') : rows'[i] = rows[i - 1]
        BY <1>0, <3>3, <4>1, TrimmedSeq
      <4>3. /\ Len(rows') \in Nat /\ Len(rows) \in Nat
            /\ \A i \in 1 .. Len(rows) : rows[i] \in Nat
        BY <1>0, <4>2
      <4>4. \A i \in 1 .. Len(rows') : i # 1 => i - 1 \in 1 .. Len(rows) /\ rows'[i] = rows[i - 1]
        BY <4>2, <4>3
      <4> HIDE DEF h
      <4>5. Known(rows)'
        <5>1. \A i \in 1 .. Len(rows) : rows[i] <= served
          BY DEF Ordered, Known
        <5>2. ASSUME NEW i \in 1 .. Len(rows') PROVE rows'[i] <= served
          <6>1. CASE i = 1
            <7>1. rows'[i] = h
              BY <4>2, <4>3, <5>2, <6>1
            <7> QED BY <4>1, <7>1
          <6>2. CASE i # 1
            BY <4>4, <5>1, <5>2, <6>2
          <6> QED BY <6>1, <6>2
        <5> QED BY <2>1, <5>2 DEF Known
      <4>6. ASSUME ~overtaken PROVE Falling(rows') /\ Below'
        <5>1. Falling(rows) /\ Below /\ Rising
          BY <4>6 DEF Ordered
        <5>2. \A i \in 1 .. Len(rows) : rows[i] < h
          BY <2>2, <2>7, <5>1 DEF Below, h
        <5>3. ASSUME NEW i \in 1 .. Len(rows'), NEW j \in 1 .. Len(rows'), i < j
              PROVE  rows'[i] > rows'[j]
          <6>1. j # 1 /\ j - 1 \in 1 .. Len(rows) /\ rows'[j] = rows[j - 1]
            BY <4>3, <4>4, <5>3
          <6>2. CASE i = 1
            BY <4>1, <4>2, <4>3, <5>2, <6>1, <6>2
          <6>3. CASE i # 1
            <7>1. i - 1 \in 1 .. Len(rows) /\ rows'[i] = rows[i - 1] /\ i - 1 < j - 1
              BY <4>3, <4>4, <5>3, <6>3
            <7> QED BY <5>1, <6>1, <7>1 DEF Falling
          <6> QED BY <6>2, <6>3
        <5>4. ASSUME NEW i \in 1 .. Len(rows'), NEW j \in 1 .. Len(wire'), wire'[j] # Reload
              PROVE  rows'[i] < wire'[j]
          <6>1. wire'[j] = wire[j + 1] /\ j + 1 \in 1 .. Len(wire) /\ wire[j + 1] # Reload /\ 1 < j + 1
            BY <2>2, <2>3, <5>4
          <6>2. CASE i = 1
            <7>1. wire[1] < wire[j + 1]
              BY <2>2, <2>7, <5>1, <6>1 DEF Rising
            <7> QED BY <2>2, <4>2, <4>3, <6>1, <6>2, <7>1 DEF h
          <6>3. CASE i # 1
            BY <4>4, <5>1, <6>1, <6>3 DEF Below
          <6> QED BY <6>2, <6>3
        <5> QED BY <5>3, <5>4 DEF Falling, Below
      <4> QED BY <2>1, <2>4, <2>5, <3>1, <3>3, <4>5, <4>6 DEF Ordered, Known, Falling, Fresh
    <3> QED BY <2>7, <3>2, <3>3 DEF HearRequest
  <2>8. CASE Head(wire) = Reload /\ HearReload
    <3>1. UNCHANGED <<rows, resume, overtaken>> /\ (refresh' = refresh \/ refresh' = Asked)
      BY <2>8 DEF HearReload
    <3>2. Falling(refresh.rows)' /\ Known(refresh.rows)' /\ Fresh(refresh)' /\ refresh'.here
      <4>1. CASE refresh' = refresh
        BY <2>1, <2>5, <4>1 DEF Ordered, Falling, Known, Fresh
      <4>2. CASE refresh' = Asked
        BY <1>1, <1>2, <4>2 DEF Fresh
      <4> QED BY <3>1, <4>1, <4>2
    <3>3. Falling(resume.rows)' /\ Known(resume.rows)' /\ Fresh(resume)' /\ Known(rows)'
      BY <2>1, <2>5, <3>1 DEF Ordered, Falling, Known, Fresh
    <3>4. (~overtaken => Falling(rows) /\ Below)'
      BY <2>6, <3>1 DEF Ordered, Falling
    <3> QED BY <2>4, <3>2, <3>3, <3>4 DEF Ordered
  <2> QED BY <1>10, <2>7, <2>8 DEF Receive
<1>11. CASE TogglePause
  <2>1. UNCHANGED <<rows, served, overtaken, wire, refresh>> /\ (resume' = resume \/ resume' = Asked)
    BY <1>11 DEF TogglePause, AskResume
  <2>2. Falling(resume'.rows) /\ Known(resume'.rows) /\ Fresh(resume')
    BY <1>1, <1>2, <2>1 DEF Ordered, Fresh
  <2> QED BY <1>4, <2>1, <2>2 DEF Ordered
<1>12. CASE ClearView
  <2>1. rows' = <<>> /\ UNCHANGED <<served, wire, resume, refresh, overtaken>>
    BY <1>12 DEF ClearView
  <2>2. Len(rows') = 0
    BY <2>1
  <2>3. Known(rows)' /\ Falling(rows)' /\ Below'
    BY <2>2 DEF Known, Falling, Below
  <2> QED BY <2>1, <2>3 DEF Ordered, Rising, Known, Falling, Fresh, Quiet
<1>13. ASSUME NEW f \in Fetch
       PROVE  Falling(Answered(f).rows) /\ Known(Answered(f).rows) /\ Fresh(Answered(f))
  <2>1. Answered(f).rows = Newest(served, Cap[at]) /\ (Answered(f).clean <=> OnTheWay = {})
    BY <1>0, AnsweredType
  <2> QED BY <1>0, <2>1, NewestOrdered, QuietWire DEF Fresh
<1>14. CASE AnswerResume
  <2>1. UNCHANGED <<rows, served, overtaken, wire, refresh>>
        /\ resume' = IF resume.here THEN Answered(resume) ELSE [resume EXCEPT !.st = "answered"]
    BY <1>14 DEF AnswerResume
  <2>2. CASE resume.here
    BY <1>0, <1>4, <1>13, <2>1, <2>2 DEF Ordered
  <2>3. CASE ~resume.here
    <3>1. resume'.rows = resume.rows /\ ~resume'.here
      BY <1>0, <2>1, <2>3 DEF Fetch
    <3>2. Falling(resume'.rows) /\ Known(resume'.rows) /\ Fresh(resume')
      BY <3>1 DEF Ordered, Fresh
    <3> QED BY <1>4, <2>1, <3>2 DEF Ordered
  <2> QED BY <2>2, <2>3
<1>15. CASE AnswerRefresh
  <2>1. UNCHANGED <<rows, served, overtaken, wire, resume>> /\ refresh' = Answered(refresh)
    BY <1>15 DEF AnswerRefresh
  <2>2. Answered(refresh).here
    BY <1>0, AnsweredType DEF Ordered
  <2> QED BY <1>0, <1>4, <1>13, <2>1, <2>2 DEF Ordered
<1>16. ASSUME NEW f \in Fetch, f.st = "answered", f.here, Falling(f.rows), Known(f.rows), Fresh(f),
              SwapIn(f), UNCHANGED <<served, wire>>
       PROVE  /\ Known(rows)' /\ Rising' /\ Known(wire)' /\ (Quiet => Quiet')
              /\ (~overtaken => Falling(rows) /\ Below)'
  <2>1. rows' = f.rows /\ (overtaken' = (~f.clean \/ missed > 0))
    BY <1>16 DEF SwapIn
  <2>2. Known(rows)' /\ Rising' /\ Known(wire)' /\ (Quiet => Quiet') /\ Falling(rows)'
    BY <1>16, <2>1 DEF Ordered, Known, Rising, Quiet, Falling
  <2>3. ASSUME ~overtaken' PROVE Below'
    <3>1. Quiet
      BY <1>16, <2>1, <2>3 DEF Fresh
    <3> QED BY <1>16, <3>1 DEF Quiet, Below
  <2> QED BY <2>2, <2>3
<1>17. ASSUME NEW where, NextResume(where)
       PROVE  resume'.rows = <<>> /\ resume'.st # "answered"
  <2>1. resume' = Idle \/ resume' = [Asked EXCEPT !.here = where = "here"]
    BY <1>17 DEF NextResume
  <2>2. [Asked EXCEPT !.here = where = "here"].rows = <<>>
        /\ [Asked EXCEPT !.here = where = "here"].st = "asked"
    BY IdleType DEF Fetch
  <2> QED BY <1>1, <2>1, <2>2
<1>18. CASE SwapResume
  <2>1. UNCHANGED <<served, wire, refresh>> /\ resume.st = "answered"
        /\ (NextResume("gone") \/ NextResume(again))
    BY <1>18 DEF SwapResume
  <2>2. resume'.rows = <<>> /\ resume'.st # "answered"
    BY <1>17, <2>1
  <2>3. Falling(resume'.rows) /\ Known(resume'.rows) /\ Known(resume.rows)' /\ Fresh(resume')
        /\ Fresh(resume)'
    BY <1>2, <2>2 DEF Fresh
  <2>4. CASE resume.here
    <3>1. SwapIn(resume)
      BY <1>18, <2>4 DEF SwapResume
    <3>2. /\ Known(rows)' /\ Rising' /\ Known(wire)' /\ (Quiet => Quiet')
          /\ (~overtaken => Falling(rows) /\ Below)'
      BY <1>0, <1>16, <2>1, <2>4, <3>1 DEF Ordered
    <3> QED BY <2>1, <2>3, <3>2 DEF Ordered, Known, Falling, Fresh
  <2>5. CASE ~resume.here
    <3>1. UNCHANGED <<rows, overtaken>>
      BY <1>18, <2>5 DEF SwapResume
    <3> QED BY <1>4, <2>1, <2>3, <3>1 DEF Ordered
  <2> QED BY <2>4, <2>5
<1>19. CASE SwapRefresh
  <2>1. UNCHANGED <<served, wire>> /\ refresh.st = "answered" /\ SwapIn(refresh)
        /\ refresh' = Idle /\ resume' = Detached(resume)
    BY <1>19 DEF SwapRefresh
  <2>2. /\ Known(rows)' /\ Rising' /\ Known(wire)' /\ (Quiet => Quiet')
        /\ (~overtaken => Falling(rows) /\ Below)'
    BY <1>0, <1>16, <2>1 DEF Ordered
  <2>3. Falling(refresh.rows)' /\ Known(refresh.rows)' /\ Fresh(refresh)' /\ refresh'.here
    BY <1>1, <1>2, <2>1 DEF Fresh
  <2>4. Falling(resume.rows)' /\ Known(resume.rows)' /\ Fresh(resume)'
    <3>1. CASE resume.st = "idle"
      <4>1. resume' = resume
        BY <2>1, <3>1 DEF Detached
      <4> QED BY <2>1, <3>1, <4>1 DEF Ordered, Known, Falling, Fresh
    <3>2. CASE resume.st # "idle"
      <4>1. ~resume'.here /\ (resume'.rows = <<>> \/ resume' = resume)
        BY <1>0, <2>1, <3>2, DetachedType
      <4> QED BY <1>2, <2>1, <4>1 DEF Ordered, Known, Falling, Fresh
    <3> QED BY <3>1, <3>2
  <2> QED BY <2>2, <2>3, <2>4 DEF Ordered
<1>20. CASE FailResume
  <2>1. UNCHANGED <<served, wire, rows, overtaken, refresh>> /\ NextResume(again)
    BY <1>20 DEF FailResume
  <2>2. resume'.rows = <<>> /\ resume'.st # "answered"
    BY <1>17, <2>1
  <2>3. Falling(resume'.rows) /\ Known(resume'.rows) /\ Fresh(resume')
    BY <1>2, <2>2 DEF Fresh
  <2> QED BY <1>4, <2>1, <2>3 DEF Ordered
<1>21. CASE FailRefresh
  <2>1. UNCHANGED <<served, wire, rows, overtaken, resume>> /\ (refresh' = Asked \/ refresh' = Idle)
    BY <1>21 DEF FailRefresh
  <2>2. Falling(refresh'.rows) /\ Known(refresh'.rows) /\ Fresh(refresh') /\ refresh'.here
    BY <1>1, <1>2, <2>1 DEF Fresh
  <2> QED BY <1>4, <2>1, <2>2 DEF Ordered
<1>22. CASE Open \/ Settle \/ UNCHANGED vars
  <2>1. UNCHANGED <<served, wire, rows, overtaken, resume, refresh>>
    BY <1>22 DEF Open, Settle, vars
  <2> QED BY <1>4, <2>1 DEF Ordered
<1> QED
  BY <1>5, <1>6, <1>7, <1>8, <1>9, <1>10, <1>11, <1>12, <1>14, <1>15, <1>18, <1>19, <1>20,
     <1>21, <1>22
  DEF Next, Environment, User, Page

\* The newest row is on top and no request stands in the list twice, unless a request came
\* together with the fetch that brought the list: then it may be there twice.
THEOREM RowsInOrder == Spec => []NewestFirst
<1>1. Typed /\ Ordered => NewestFirst
  BY DEF Ordered, Falling, NewestFirst
<1>2. Spec => [](Typed /\ Ordered)
  BY InitTyped, StepTyped, InitOrdered, StepOrdered, PTL DEF Spec
<1> QED BY <1>1, <1>2, PTL
-----------------------------------------------------------------------------
(* Which rows the list has.                                                 *)

\* A fetch of a resume is under way that will bring #traffic anew.
Filling == (resume.st # "idle" /\ resume.here) \/ again = "here"

\* The list lacks the requests after n, which are on their way, and the last of those
\* before it, which the button counts.
LacksAfter(n) ==
  /\ n \in Nat /\ OnTheWay = n + 1 .. served
  /\ base <= n - missed /\ n <= served
  /\ rows = Newest(n - missed, Cap[at])

\* A clean answer is what the history has now.
Exact(f) == f.st = "answered" /\ f.here /\ f.clean => f.rows = Newest(served, Cap[at])

Whole ==
  /\ ~paused => missed = 0
  /\ again = "here" => resume.st # "idle"
  /\ Exact(resume) /\ Exact(refresh)
  /\ ~Filling /\ ~astray /\ ~overtaken => \E n \in Nat : LacksAfter(n)

LEMMA WholeRows == Typed /\ Whole => RowsWhole
<1> SUFFICES ASSUME Typed, Whole, resume.st = "idle", ~astray, ~overtaken
             PROVE  \E n \in 0 .. served : /\ OnTheWay = n + 1 .. served
                                           /\ rows = Newest(n - missed, Cap[at])
  BY DEF RowsWhole
<1>1. ~Filling
  BY DEF Filling, Whole
<1>2. PICK n \in Nat : LacksAfter(n)
  BY <1>1 DEF Whole
<1>3. n \in 0 .. served /\ OnTheWay = n + 1 .. served /\ rows = Newest(n - missed, Cap[at])
  BY <1>2 DEF LacksAfter, Typed, ServerTyped
<1> QED BY <1>3

\* A list just rendered, with nothing on its way.
LEMMA FreshLacks ==
  ASSUME served \in Nat, base \in 0 .. served, OnTheWay = {}, missed = 0,
         rows = Newest(served, Cap[at])
  PROVE  LacksAfter(served)
<1>1. served + 1 .. served = {} /\ served - missed = served
  OBVIOUS
<1> QED BY <1>1 DEF LacksAfter

LEMMA InitWhole == Init => Whole
<1> SUFFICES ASSUME Init PROVE Whole
  OBVIOUS
<1>1. served \in Nat /\ base \in 0 .. served /\ missed = 0 /\ rows = Newest(served, Cap[at])
      /\ wire = <<>>
  BY TrafficAssumption DEF Init
<1>2. OnTheWay = {}
  BY <1>1 DEF OnTheWay
<1>3. LacksAfter(served)
  BY <1>1, <1>2, FreshLacks
<1>4. Exact(resume) /\ Exact(refresh) /\ (again = "here" => resume.st # "idle")
  BY IdleType DEF Init, Exact
<1> QED BY <1>1, <1>3, <1>4 DEF Whole

\* What a message more, or one less, makes of what is on its way.
LEMMA OnTheWaySent ==
  ASSUME wire \in Seq(Nat), NEW m \in Nat, wire' = Append(wire, m)
  PROVE  OnTheWay' = OnTheWay \cup ({m} \ {Reload})
<1>1. /\ Len(wire') = Len(wire) + 1 /\ wire'[Len(wire) + 1] = m /\ Len(wire) \in Nat
      /\ \A i \in 1 .. Len(wire) : wire'[i] = wire[i]
  OBVIOUS
<1>2. \A i \in 1 .. Len(wire') : i \in 1 .. Len(wire) \/ i = Len(wire) + 1
  BY <1>1
<1>3. \A i \in 1 .. Len(wire) : i \in 1 .. Len(wire')
  BY <1>1
<1>4. Len(wire) + 1 \in 1 .. Len(wire')
  BY <1>1
<1>5. ASSUME NEW x PROVE x \in OnTheWay' <=> x \in OnTheWay \/ (x = m /\ x # Reload)
  BY <1>1, <1>2, <1>3, <1>4 DEF OnTheWay
<1> QED BY <1>5

LEMMA OnTheWayHeard ==
  ASSUME wire \in Seq(Nat), wire # <<>>, wire' = Tail(wire), Rising
  PROVE  OnTheWay' = OnTheWay \ {Head(wire)}
         /\ (Head(wire) # Reload =>
               Head(wire) \in OnTheWay /\ \A x \in OnTheWay : Head(wire) <= x)
<1>1. /\ Len(wire') = Len(wire) - 1 /\ Len(wire) \in Nat /\ 1 \in 1 .. Len(wire)
      /\ Head(wire) = wire[1]
      /\ \A i \in 1 .. Len(wire') : wire'[i] = wire[i + 1] /\ i + 1 \in 1 .. Len(wire)
      /\ \A i \in 1 .. Len(wire) : wire[i] \in Nat
  OBVIOUS
<1>2. \A i \in 1 .. Len(wire) : i # 1 => i - 1 \in 1 .. Len(wire') /\ wire'[i - 1] = wire[i]
  BY <1>1
<1>3. ASSUME NEW x \in OnTheWay, x # Head(wire) PROVE x \in OnTheWay'
  <2>1. PICK i \in 1 .. Len(wire) : wire[i] = x
    BY DEF OnTheWay
  <2>2. i - 1 \in 1 .. Len(wire') /\ wire'[i - 1] = x
    BY <1>1, <1>2, <1>3, <2>1
  <2>3. x # Reload
    BY DEF OnTheWay
  <2> QED BY <2>2, <2>3 DEF OnTheWay
<1>4. ASSUME NEW x \in OnTheWay' PROVE x \in OnTheWay /\ x # Head(wire)
  <2>1. PICK i \in 1 .. Len(wire') : wire'[i] = x
    BY DEF OnTheWay
  <2>2. x # Reload
    BY DEF OnTheWay
  <2>3. wire[i + 1] = x /\ i + 1 \in 1 .. Len(wire)
    BY <1>1, <2>1
  <2>4. x \in OnTheWay
    BY <2>2, <2>3 DEF OnTheWay
  <2>5. Head(wire) # Reload => Head(wire) < x
    BY <1>1, <2>2, <2>3 DEF Rising
  <2>6. x \in Nat
    BY <1>1, <2>3
  <2> QED BY <1>1, <2>2, <2>4, <2>5, <2>6
<1>5. ASSUME Head(wire) # Reload
      PROVE  Head(wire) \in OnTheWay /\ \A x \in OnTheWay : Head(wire) <= x
  <2>1. Head(wire) \in OnTheWay
    BY <1>1, <1>5 DEF OnTheWay
  <2>2. ASSUME NEW x \in OnTheWay PROVE Head(wire) <= x
    <3>1. PICK i \in 1 .. Len(wire) : wire[i] = x
      BY DEF OnTheWay
    <3>2. x # Reload
      BY DEF OnTheWay
    <3> QED BY <1>1, <1>5, <3>1, <3>2 DEF Rising
  <2> QED BY <2>1, <2>2
<1> QED BY <1>3, <1>4, <1>5

LEMMA StepWhole == Typed /\ Ordered /\ Whole /\ [Next]_vars => Whole'
<1> SUFFICES ASSUME Typed, Ordered, Whole, [Next]_vars PROVE Whole'
  OBVIOUS
<1> USE DEF server, link, pausing, fetches, ghosts
<1>0. /\ wire \in Seq(Nat) /\ rows \in Seq(Nat) /\ resume \in Fetch /\ refresh \in Fetch
      /\ served \in Nat /\ base \in 0 .. served /\ base \in Nat /\ base <= served
      /\ project \in Nat /\ Cap[at] \in Nat
      /\ overtaken \in BOOLEAN /\ astray \in BOOLEAN /\ missed \in Nat /\ paused \in BOOLEAN
  BY CapType DEF Typed, ServerTyped, WireTyped, ListTyped, FetchTyped, GhostTyped, PauseTyped
<1>1. Idle.here /\ Idle.st = "idle" /\ Asked.here /\ Asked.st = "asked"
  BY IdleType DEF Idle
\* Most steps leave the rows, what is on its way and the pause alone.
<1>2. ASSUME OnTheWay' = OnTheWay,
             UNCHANGED <<rows, served, base, at, overtaken, missed, paused>>,
             astray => astray', again' = "here" => resume'.st # "idle",
             Filling => Filling' \/ astray', Exact(resume'), Exact(refresh')
      PROVE  Whole'
  <2>1. \A n \in Nat : LacksAfter(n) => LacksAfter(n)'
    BY <1>2 DEF LacksAfter, Newest, Run
  <2>2. \A f : Exact(f) => Exact(f)'
    BY <1>2 DEF Exact, Newest, Run
  <2>3. Exact(resume)' /\ Exact(refresh)'
    BY <1>2 DEF Exact, Newest, Run
  <2> QED BY <1>2, <2>1, <2>3 DEF Whole
<1>3. UNCHANGED wire => OnTheWay' = OnTheWay
  BY DEF OnTheWay
<1>4. ASSUME NEW f \in Fetch PROVE Exact(Overtaken(f)) /\ Exact(Overtaken(f))'
  BY OvertakenType DEF Exact
<1>5. Exact(resume) /\ Exact(refresh) /\ (again = "here" => resume.st # "idle")
      /\ (~paused => missed = 0)
  BY DEF Whole
<1>6. CASE Publish
  <2>1. /\ served' = served + 1 /\ Send(served + 1) /\ OvertakeFetches
        /\ astray' = (astray \/ ~Reaches)
        /\ UNCHANGED <<base, at, rows, missed, paused, again, overtaken>>
    BY <1>6 DEF Publish
  <2>2. Exact(resume)' /\ Exact(refresh)' /\ resume'.st = resume.st /\ resume'.here = resume.here
    BY <1>0, <1>4, <2>1, OvertakenType DEF OvertakeFetches
  <2>3. ASSUME NEW n \in Nat, LacksAfter(n), ~astray' PROVE LacksAfter(n)'
    <3>1. wire' = Append(wire, served + 1) /\ served + 1 \in Nat /\ served + 1 # Reload
      <4>1. Reaches
        BY <2>1, <2>3
      <4>2. wire' = Append(wire, served + 1)
        BY <2>1, <4>1 DEF Send
      <4> QED BY <1>0, <4>2 DEF Reload
    <3>2. OnTheWay' = OnTheWay \cup {served + 1}
      BY <1>0, <3>1, OnTheWaySent
    <3>3. OnTheWay' = n + 1 .. served + 1
      BY <1>0, <2>3, <3>2 DEF LacksAfter
    <3>4. Newest(n - missed, Cap[at])' = Newest(n - missed, Cap[at])
      BY <2>1 DEF Newest, Run
    <3>5. n <= served + 1
      BY <1>0, <2>3 DEF LacksAfter
    <3> QED BY <2>1, <2>3, <3>3, <3>4, <3>5 DEF LacksAfter
  <2> QED BY <1>5, <2>1, <2>2, <2>3 DEF Whole, Filling
<1>7. CASE Swap
  <2>1. Send(Reload)
        /\ UNCHANGED <<served, base, at, rows, missed, paused, fetches, overtaken, astray>>
    BY <1>7 DEF Swap
  <2>2. OnTheWay' = OnTheWay
    <3>1. CASE wire' = Append(wire, Reload)
      <4>1. Reload \in Nat
        BY DEF Reload
      <4>2. OnTheWay' = OnTheWay \cup ({Reload} \ {Reload})
        BY <1>0, <3>1, <4>1, OnTheWaySent
      <4> QED BY <4>2
    <3>2. CASE UNCHANGED wire
      BY <1>3, <3>2
    <3> QED BY <2>1, <3>1, <3>2 DEF Send
  <2> QED BY <1>2, <1>5, <2>1, <2>2 DEF Filling
<1>8. CASE Reset \/ Start
  <2>1. OvertakeFetches /\ astray' = TRUE /\ UNCHANGED <<again, missed, paused>>
    BY <1>8 DEF Reset, Start
  <2>2. Exact(resume)' /\ Exact(refresh)' /\ resume'.st = resume.st
    BY <1>0, <1>4, <2>1, OvertakenType DEF OvertakeFetches
  <2> QED BY <1>5, <2>1, <2>2 DEF Whole
<1>9. CASE Drop \/ Stop
  <2>1. /\ wire' = <<>> /\ astray' = (astray \/ OnTheWay # {})
        /\ UNCHANGED <<served, base, at, rows, missed, paused, fetches, overtaken>>
    BY <1>9 DEF Drop, Stop, Disconnect
  <2>2. CASE OnTheWay = {}
    <3>1. OnTheWay' = OnTheWay
      BY <2>1, <2>2 DEF OnTheWay
    <3> QED BY <1>2, <1>5, <2>1, <3>1 DEF Filling
  <2>3. CASE OnTheWay # {}
    <3>1. Exact(resume)' /\ Exact(refresh)'
      BY <1>5, <2>1 DEF Exact, Newest, Run
    <3> QED BY <1>5, <2>1, <2>3, <3>1 DEF Whole
  <2> QED BY <2>2, <2>3
<1>10. CASE Load
  <2>1. /\ wire' = <<>> /\ rows' = Newest(served, Cap[at']) /\ missed' = 0
        /\ UNCHANGED <<served, base>> /\ resume' = Idle /\ refresh' = Idle /\ again' = "no"
    BY <1>10 DEF Load
  <2>2. OnTheWay' = {}
    BY <2>1 DEF OnTheWay
  <2>3. LacksAfter(served)'
    <3>1. served + 1 .. served = {} /\ served - 0 = served
      BY <1>0
    <3>2. rows' = Newest(served, Cap[at])'
      BY <2>1 DEF Newest, Run
    <3>3. served' + 1 .. served' = {} /\ served' - missed' = served'
      BY <2>1, <3>1
    <3>4. OnTheWay' = (served + 1 .. served)' /\ rows' = Newest(served - missed, Cap[at])'
      BY <2>2, <3>2, <3>3
    <3>5. served' \in Nat /\ base' <= served' - missed' /\ served' <= served'
      BY <1>0, <2>1
    <3> QED BY <3>4, <3>5 DEF LacksAfter
  <2>4. Exact(resume)' /\ Exact(refresh)'
    BY <1>1, <2>1 DEF Exact
  <2> QED BY <1>0, <2>1, <2>3, <2>4 DEF Whole
<1>11. CASE Receive
  <2>1. wire # <<>> /\ wire' = Tail(wire) /\ UNCHANGED <<served, base, at, astray>> /\ Rising
    BY <1>11 DEF Receive, Ordered
  <2>2. OnTheWay' = OnTheWay \ {Head(wire)}
        /\ (Head(wire) # Reload =>
              Head(wire) \in OnTheWay /\ \A x \in OnTheWay : Head(wire) <= x)
    BY <1>0, <2>1, OnTheWayHeard
  <2>3. CASE Head(wire) # Reload /\ HearRequest(Head(wire))
    <3>1. UNCHANGED <<resume, refresh, again>>
      BY <2>3 DEF HearRequest
    <3>2. (Filling' <=> Filling) /\ Exact(resume)' /\ Exact(refresh)'
      BY <1>5, <2>1, <3>1 DEF Filling, Exact, Newest, Run
    <3>3. CASE overtaken'
      <4>1. ~paused' => missed' = 0
        BY <1>5, <2>3 DEF HearRequest
      <4> QED BY <1>5, <3>1, <3>2, <3>3, <4>1 DEF Whole
    <3>4. CASE ~overtaken'
      <4>1. UNCHANGED <<overtaken, paused>> /\ ~overtaken
            /\ \/ paused /\ missed' = missed + 1 /\ rows' = rows
               \/ ~paused /\ missed' = missed /\ rows' = Trimmed(Head(wire))
        BY <2>3, <3>4 DEF HearRequest
      <4>2. ASSUME NEW n \in Nat, LacksAfter(n) PROVE n + 1 \in Nat /\ LacksAfter(n + 1)'
        <5>1. OnTheWay = n + 1 .. served /\ n <= served /\ base <= n - missed
              /\ rows = Newest(n - missed, Cap[at])
          BY <4>2 DEF LacksAfter
        <5>2. Head(wire) = n + 1 /\ n + 1 <= served
          BY <1>0, <2>2, <2>3, <5>1
        <5>3. OnTheWay' = (n + 1) + 1 .. served
          BY <1>0, <2>2, <5>1, <5>2
        <5>4. \A h : Newest(h, Cap[at])' = Newest(h, Cap[at])
          BY <2>1 DEF Newest, Run
        <5>5. CASE paused /\ missed' = missed + 1 /\ rows' = rows
          <6>1. (n + 1) - missed' = n - missed
            BY <1>0, <5>5
          <6>2. rows' = Newest((n + 1) - missed, Cap[at])'
            BY <5>1, <5>4, <5>5, <6>1
          <6> QED BY <1>0, <2>1, <5>1, <5>2, <5>3, <6>1, <6>2 DEF LacksAfter
        <5>6. CASE ~paused /\ missed' = missed /\ rows' = Trimmed(Head(wire))
          <6>1. missed = 0 /\ missed' = 0 /\ n - missed = n /\ (n + 1) - missed' = n + 1
                /\ base <= n
            BY <1>5, <5>1, <5>6
          <6>2. rows = Newest(n, Cap[at])
            BY <5>1, <6>1
          <6>3. Trimmed(n + 1) = Newest(n + 1, Cap[at])
            BY <1>0, <6>1, <6>2, TrimmedNewest
          <6>4. rows' = Newest((n + 1) - missed, Cap[at])'
            BY <5>2, <5>4, <5>6, <6>1, <6>3
          <6> QED BY <1>0, <2>1, <5>1, <5>2, <5>3, <6>1, <6>4 DEF LacksAfter
        <5> QED BY <4>1, <5>5, <5>6
      <4>3. ~Filling' /\ ~astray' /\ ~overtaken' => \E n \in Nat : LacksAfter(n)'
        BY <2>1, <3>2, <4>1, <4>2 DEF Whole
      <4>4. ~paused' => missed' = 0
        BY <1>5, <4>1
      <4> QED BY <1>5, <3>1, <3>2, <4>3, <4>4 DEF Whole
    <3> QED BY <3>3, <3>4
  <2>4. CASE Head(wire) = Reload /\ HearReload
    <3>1. UNCHANGED <<rows, missed, paused, resume, again, overtaken>>
          /\ (refresh' = refresh \/ refresh' = Asked)
      BY <2>4 DEF HearReload
    <3>2. OnTheWay' = OnTheWay
      BY <2>2, <2>4 DEF OnTheWay
    <3>3. Exact(refresh') /\ Exact(resume')
      BY <1>1, <1>5, <3>1 DEF Exact
    <3> QED BY <1>2, <1>5, <2>1, <3>1, <3>2, <3>3 DEF Filling
  <2> QED BY <1>11, <2>3, <2>4 DEF Receive
<1>12. CASE TogglePause
  <2>1. /\ paused' = ~paused /\ missed' = 0
        /\ UNCHANGED <<served, base, at, wire, rows, refresh, overtaken, astray>>
    BY <1>12 DEF TogglePause
  <2>2. CASE paused /\ missed > 0
    <3>1. \/ resume.st = "idle" /\ resume' = Asked /\ again' = again
          \/ resume.st # "idle" /\ again' = "here" /\ resume' = resume
      BY <1>12, <2>2 DEF TogglePause, AskResume
    <3>2. Filling'
      BY <1>1, <3>1 DEF Filling
    <3>3. Exact(resume)' /\ Exact(refresh)'
      BY <1>1, <1>5, <2>1, <3>1 DEF Exact, Newest, Run
    <3>4. again' = "here" => resume'.st # "idle"
      BY <1>1, <1>5, <3>1
    <3> QED BY <2>1, <3>2, <3>3, <3>4 DEF Whole
  <2>3. CASE ~(paused /\ missed > 0)
    <3>1. UNCHANGED <<resume, again>>
      BY <1>12, <2>3 DEF TogglePause
    <3>2. missed' = missed
      BY <1>0, <1>5, <2>1, <2>3
    <3>3. \A n \in Nat : LacksAfter(n) => LacksAfter(n)'
      BY <1>3, <2>1, <3>2 DEF LacksAfter, Newest, Run
    <3>4. Exact(resume)' /\ Exact(refresh)'
      BY <1>5, <2>1, <3>1 DEF Exact, Newest, Run
    <3> QED BY <1>5, <2>1, <3>1, <3>3, <3>4 DEF Whole, Filling
  <2> QED BY <2>2, <2>3
<1>13. CASE ClearView
  <2>1. astray' = TRUE /\ UNCHANGED <<served, base, at, missed, paused, fetches>>
    BY <1>13 DEF ClearView
  <2>2. Exact(resume)' /\ Exact(refresh)'
    BY <1>5, <2>1 DEF Exact, Newest, Run
  <2> QED BY <1>5, <2>1, <2>2 DEF Whole
<1>14. CASE AnswerResume
  <2>1. /\ resume.st = "asked"
        /\ resume' = IF resume.here THEN Answered(resume) ELSE [resume EXCEPT !.st = "answered"]
        /\ UNCHANGED <<served, base, at, wire, rows, missed, paused, again, refresh, overtaken,
                       astray>>
    BY <1>14 DEF AnswerResume
  <2>2. resume'.st = "answered" /\ resume'.here = resume.here /\ Exact(resume')
    <3>1. CASE resume.here
      BY <1>0, <2>1, <3>1, AnsweredType DEF Exact
    <3>2. CASE ~resume.here
      BY <1>0, <2>1, <3>2 DEF Fetch, Exact
    <3> QED BY <3>1, <3>2
  <2>3. Exact(refresh')
    BY <1>5, <2>1
  <2> QED BY <1>2, <1>3, <2>1, <2>2, <2>3 DEF Filling
<1>15. CASE AnswerRefresh
  <2>1. /\ refresh' = Answered(refresh)
        /\ UNCHANGED <<served, base, at, wire, rows, missed, paused, again, resume, overtaken,
                       astray>>
    BY <1>15 DEF AnswerRefresh
  <2>2. Exact(refresh') /\ Exact(resume')
    BY <1>0, <1>5, <2>1, AnsweredType DEF Exact
  <2> QED BY <1>2, <1>3, <1>5, <2>1, <2>2 DEF Filling
<1>16. ASSUME NEW f \in Fetch, f.st = "answered", f.here, Fresh(f), Exact(f), SwapIn(f),
              UNCHANGED <<served, base, at, wire, missed>>, ~overtaken'
       PROVE  LacksAfter(served)' /\ served' \in Nat
  <2>1. rows' = f.rows /\ f.clean /\ ~(missed > 0)
    BY <1>16 DEF SwapIn
  <2>2. Quiet /\ rows' = Newest(served, Cap[at]) /\ missed = 0
    BY <1>0, <1>16, <2>1 DEF Fresh, Exact
  <2>3. OnTheWay' = {}
    BY <1>0, <1>3, <1>16, <2>2, QuietWire
  <2>4. rows' = Newest(served, Cap[at])'
    BY <1>16, <2>2 DEF Newest, Run
  <2>5. served' + 1 .. served' = {} /\ served' - missed' = served' /\ served' \in Nat
        /\ base' <= served'
    BY <1>0, <1>16, <2>2
  <2>6. OnTheWay' = (served + 1 .. served)' /\ rows' = Newest(served - missed, Cap[at])'
    BY <2>3, <2>4, <2>5
  <2>7. base' <= served' - missed' /\ served' <= served'
    BY <2>5
  <2> QED BY <2>5, <2>6, <2>7 DEF LacksAfter
<1>17. ASSUME NEW where, NextResume(where)
       PROVE  resume'.st # "answered" /\ (again = "no" => resume' = Idle)
              /\ (again # "no" => resume'.st = "asked" /\ (resume'.here <=> where = "here"))
  <2>1. resume' = IF again = "no" THEN Idle ELSE [Asked EXCEPT !.here = where = "here"]
    BY <1>17 DEF NextResume
  <2>2. [Asked EXCEPT !.here = where = "here"].st = "asked"
        /\ ([Asked EXCEPT !.here = where = "here"].here <=> where = "here")
    BY IdleType DEF Fetch
  <2> QED BY <1>1, <2>1, <2>2
<1>18. CASE SwapResume
  <2>1. /\ resume.st = "answered" /\ again' = "no"
        /\ UNCHANGED <<served, base, at, wire, missed, paused, refresh>>
    BY <1>18 DEF SwapResume
  <2>2. CASE resume.here
    <3>1. SwapIn(resume) /\ NextResume("gone")
      BY <1>18, <2>2 DEF SwapResume
    <3>2. resume'.st # "answered"
      BY <1>17, <3>1
    <3>3. Exact(resume)' /\ Exact(refresh)'
      BY <1>5, <2>1, <3>2 DEF Exact, Newest, Run
    <3>4. ~overtaken' => \E n \in Nat : LacksAfter(n)'
      <4>1. ASSUME ~overtaken' PROVE LacksAfter(served)' /\ served' \in Nat
        BY <1>0, <1>5, <1>16, <2>1, <2>2, <3>1, <4>1 DEF Ordered
      <4> QED BY <1>0, <2>1, <4>1
    <3> QED BY <1>5, <2>1, <3>3, <3>4 DEF Whole
  <2>3. CASE ~resume.here
    <3>1. NextResume(again) /\ UNCHANGED <<rows, astray, overtaken>>
      BY <1>18, <2>3 DEF SwapResume
    <3>2. resume'.st # "answered" /\ (again = "no" => resume' = Idle)
          /\ (again # "no" => resume'.st = "asked" /\ (resume'.here <=> again = "here"))
      BY <1>17, <3>1
    <3>3. Exact(resume') /\ Exact(refresh')
      BY <1>5, <2>1, <3>2 DEF Exact
    <3>4. Filling => Filling'
      BY <2>3, <3>2 DEF Filling
    <3> QED BY <1>2, <1>3, <2>1, <3>1, <3>3, <3>4
  <2> QED BY <2>2, <2>3
<1>19. CASE SwapRefresh
  <2>1. /\ refresh.st = "answered" /\ SwapIn(refresh) /\ refresh' = Idle
        /\ resume' = Detached(resume) /\ again' # "here"
        /\ UNCHANGED <<served, base, at, wire, missed, paused>>
    BY <1>19 DEF SwapRefresh
  <2>2. Exact(refresh)' /\ Exact(resume)'
    <3>1. resume' = resume \/ ~resume'.here
      BY <1>0, <2>1, DetachedType DEF Detached
    <3> QED BY <1>1, <1>5, <2>1, <3>1 DEF Exact, Newest, Run
  <2>3. ~overtaken' => \E n \in Nat : LacksAfter(n)'
    <3>1. ASSUME ~overtaken' PROVE LacksAfter(served)' /\ served' \in Nat
      BY <1>0, <1>5, <1>16, <2>1, <3>1 DEF Ordered
    <3> QED BY <1>0, <2>1, <3>1
  <2> QED BY <1>5, <2>1, <2>2, <2>3 DEF Whole
<1>20. CASE FailResume
  <2>1. NextResume(again) /\ again' = "no" /\ astray' = TRUE
        /\ UNCHANGED <<served, base, at, missed, paused, refresh>>
    BY <1>20 DEF FailResume
  <2>2. resume'.st # "answered"
    BY <1>17, <2>1
  <2>3. Exact(resume)' /\ Exact(refresh)'
    BY <1>5, <2>1, <2>2 DEF Exact, Newest, Run
  <2> QED BY <1>5, <2>1, <2>3 DEF Whole
<1>21. CASE FailRefresh
  <2>1. (refresh' = Asked \/ refresh' = Idle)
        /\ UNCHANGED <<served, base, at, wire, rows, missed, paused, again, resume, overtaken,
                       astray>>
    BY <1>21 DEF FailRefresh
  <2>2. Exact(refresh') /\ Exact(resume')
    BY <1>1, <1>5, <2>1 DEF Exact
  <2> QED BY <1>2, <1>3, <1>5, <2>1, <2>2 DEF Filling
<1>22. CASE Open \/ Settle \/ UNCHANGED vars
  <2>1. UNCHANGED <<served, base, at, wire, rows, missed, paused, fetches, overtaken, astray>>
    BY <1>22 DEF Open, Settle, vars
  <2> QED BY <1>2, <1>3, <1>5, <2>1 DEF Filling
<1> QED
  BY <1>6, <1>7, <1>8, <1>9, <1>10, <1>11, <1>12, <1>13, <1>14, <1>15, <1>18, <1>19, <1>20,
     <1>21, <1>22
  DEF Next, Environment, User, Page

\* Row for row the list is the history's newest, less what is on its way and what the
\* button counts.
THEOREM RowsAreWhole == Spec => []RowsWhole
<1>1. Spec => [](Typed /\ Ordered /\ Whole)
  BY InitTyped, StepTyped, InitOrdered, StepOrdered, InitWhole, StepWhole, PTL DEF Spec
<1> QED BY <1>1, WholeRows, PTL
-----------------------------------------------------------------------------
(* That a page comes up to date in the end is a matter of fairness, and     *)
(* TLC's (PageUpdates).  What the page owes to it is not: it has a bounded  *)
(* way to go, and only another reload or a lost message changes that.       *)

\* A page that is not up to date has at most n tasks before it is: messages up to the
\* word of a reload, the mock's answer, a swap - and, where an answer from before that
\* reload has come, its swap first.
Within(n) ==
  \/ untold \/ view = project
  \/ n >= 1 /\ refresh.st = "answered" /\ refresh.view = project
  \/ n >= 2 /\ refresh.st = "asked"
  \/ \E i \in 1 .. Len(wire) :
       wire[i] = Reload /\ n >= 2 + i + (IF refresh.st = "answered" THEN 1 ELSE 0)

\* Until the next reload whatever the mock, the user and the page do keeps it on its
\* way, and its own next task takes it on.
ComesNearer ==
  project' = project /\ ~untold => \A n \in Nat : Within(n) =>
    /\ Within(n)'
    /\ n > 0 /\ (AnswerRefresh \/ SwapRefresh \/ (refresh.st = "idle" /\ Receive))
         => Within(n - 1)'

\* Where neither the page's fetch nor what it shows changes and no message is lost.
LEMMA KeepsWithin ==
  ASSUME NEW n \in Nat, Within(n), UNCHANGED <<untold, project, view>>,
         refresh'.st = refresh.st, refresh'.view = refresh.view, Len(wire) \in Nat,
         \A i \in 1 .. Len(wire) : i \in 1 .. Len(wire') /\ wire'[i] = wire[i]
  PROVE  Within(n)'
BY DEF Within

\* No answer is older than the page.
Newer == refresh.st = "answered" => view <= refresh.view

LEMMA StepNewer == Typed /\ Newer /\ [Next]_vars => Newer'
<1> SUFFICES ASSUME Typed, Newer, [Next]_vars PROVE Newer'
  OBVIOUS
<1> USE DEF server, link, pausing, fetches, ghosts
<1>1. /\ refresh \in Fetch /\ resume \in Fetch /\ view \in 0 .. project /\ project \in Nat
      /\ served \in Nat /\ base \in 0 .. served /\ Cap[at] \in Nat
  BY CapType DEF Typed, ServerTyped, ListTyped, FetchTyped
<1>2. CASE Publish \/ Reset \/ Start
  BY <1>1, <1>2, OvertakenType DEF Publish, Reset, Start, OvertakeFetches, Newer
<1>3. CASE Swap \/ Drop \/ Stop \/ Open \/ TogglePause \/ ClearView \/ AnswerResume
           \/ SwapResume \/ FailResume \/ Settle \/ UNCHANGED vars
  <2>1. UNCHANGED <<view, refresh>>
    BY <1>3 DEF Swap, Drop, Stop, Open, TogglePause, ClearView, AnswerResume, SwapResume,
                FailResume, Settle, vars
  <2> QED BY <2>1 DEF Newer
<1>4. CASE Load \/ SwapRefresh \/ FailRefresh
  BY <1>4, IdleType DEF Load, SwapRefresh, FailRefresh, Newer
<1>5. CASE Receive
  <2>1. view' = view /\ (refresh' = refresh \/ refresh' = Asked)
    BY <1>5 DEF Receive, HearRequest, HearReload
  <2> QED BY <2>1, IdleType DEF Newer
<1>6. CASE AnswerRefresh
  <2>1. view' = view /\ refresh' = Answered(refresh)
    BY <1>6 DEF AnswerRefresh
  <2> QED BY <1>1, <2>1, AnsweredType DEF Newer
<1> QED
  BY <1>2, <1>3, <1>4, <1>5, <1>6 DEF Next, Environment, User, Page

\* A message is heard: the word of a reload comes one nearer, or is acted on.
LEMMA ReceiveNearer ==
  ASSUME Typed, Receive, ~untold, NEW n \in Nat, Within(n)
  PROVE  Within(n)' /\ (n > 0 /\ refresh.st = "idle" => Within(n - 1)')
<1>1. wire \in Seq(Nat) /\ refresh \in Fetch
  BY DEF Typed, WireTyped, FetchTyped
<1>2. wire # <<>> /\ wire' = Tail(wire) /\ UNCHANGED <<project, view>>
  BY DEF Receive, server
<1>3. /\ Len(wire) \in Nat /\ Len(wire') = Len(wire) - 1 /\ Head(wire) = wire[1]
      /\ \A i \in 1 .. Len(wire') : wire'[i] = wire[i + 1]
  BY <1>1, <1>2
<1>4. ASSUME NEW i \in 1 .. Len(wire), wire[i] = Reload, i # 1
      PROVE  i - 1 \in 1 .. Len(wire') /\ wire'[i - 1] = Reload
  BY <1>3, <1>4
<1>5. CASE view = project
  BY <1>2, <1>5 DEF Within
<1>6. CASE Head(wire) = Reload /\ HearReload /\ refresh.st # "asked"
  <2>1. CASE "app" \in ears /\ refresh.st = "idle"
    <3>1. refresh'.st = "asked"
      BY <1>6, <2>1, IdleType DEF HearReload
    <3>2. view # project => n >= 3
      BY <1>3, <2>1 DEF Within
    <3> QED BY <1>5, <3>1, <3>2 DEF Within
  <2>2. CASE ~("app" \in ears /\ refresh.st = "idle")
    <3>1. untold'
      BY <1>1, <1>6, <2>2 DEF HearReload, Fetch
    <3> QED BY <3>1 DEF Within
  <2> QED BY <2>1, <2>2
<1>7. CASE refresh' = refresh /\ (refresh.st = "asked" \/ wire[1] # Reload)
  <2>1. CASE refresh.st = "asked"
    <3>1. n >= 2 \/ view = project
      BY <1>3, <2>1 DEF Within
    <3> QED BY <1>5, <1>7, <2>1, <3>1 DEF Within
  <2>2. CASE refresh.st = "answered" /\ refresh.view = project /\ n >= 1
    BY <1>2, <1>7, <2>2 DEF Within
  <2>3. CASE wire[1] # Reload /\ \E i \in 1 .. Len(wire) :
               wire[i] = Reload /\ n >= 2 + i + (IF refresh.st = "answered" THEN 1 ELSE 0)
    <3>1. PICK i \in 1 .. Len(wire) :
            wire[i] = Reload /\ n >= 2 + i + (IF refresh.st = "answered" THEN 1 ELSE 0)
      BY <2>3
    <3>2. i - 1 \in 1 .. Len(wire') /\ wire'[i - 1] = Reload
      BY <1>4, <2>3, <3>1
    <3>3. n - 1 >= 2 + (i - 1) + (IF refresh'.st = "answered" THEN 1 ELSE 0)
      BY <1>7, <3>1
    <3> QED BY <3>2, <3>3 DEF Within
  <2> QED BY <1>5, <1>7, <2>1, <2>2, <2>3 DEF Within
<1>8. CASE Head(wire) # Reload /\ HearRequest(Head(wire))
  BY <1>3, <1>7, <1>8 DEF HearRequest, fetches
<1>9. CASE Head(wire) = Reload /\ HearReload /\ refresh.st = "asked"
  <2>1. CASE untold'
    BY <2>1 DEF Within
  <2>2. CASE refresh' = refresh
    BY <1>7, <1>9, <2>2
  <2> QED BY <1>9, <2>1, <2>2 DEF HearReload
<1> QED BY <1>6, <1>8, <1>9 DEF Receive

LEMMA NearerStep ==
  ASSUME Typed, Newer, [Next]_vars, project' = project, ~untold, NEW n \in Nat, Within(n)
  PROVE  /\ Within(n)'
         /\ n > 0 /\ (AnswerRefresh \/ SwapRefresh \/ (refresh.st = "idle" /\ Receive))
              => Within(n - 1)'
<1> USE DEF server, link, pausing, fetches, ghosts
<1>1. /\ wire \in Seq(Nat) /\ Len(wire) \in Nat /\ refresh \in Fetch /\ resume \in Fetch
      /\ served \in Nat /\ base \in 0 .. served /\ project \in Nat /\ view \in 0 .. project
      /\ Cap[at] \in Nat
  BY CapType DEF Typed, ServerTyped, WireTyped, ListTyped, FetchTyped
<1>2. CASE AnswerRefresh
  <2>1. /\ refresh' = Answered(refresh) /\ UNCHANGED <<view, project, wire>>
        /\ refresh.st = "asked"
    BY <1>2 DEF AnswerRefresh
  <2>2. refresh'.st = "answered" /\ refresh'.view = project
    BY <1>1, <2>1, AnsweredType
  <2>3. view = project \/ n >= 2
    BY <1>1, <2>1 DEF Within
  <2> QED BY <2>1, <2>2, <2>3 DEF Within
<1>3. CASE SwapRefresh
  <2>1. /\ refresh.st = "answered" /\ refresh'.st = "idle" /\ view' = refresh.view
        /\ UNCHANGED <<untold, project, wire>> /\ refresh.view <= project
    BY <1>3, IdleType DEF SwapRefresh, Typed, FetchTyped
  <2>2. CASE refresh.view = project
    BY <2>1, <2>2 DEF Within
  <2>3. CASE refresh.view # project
    <3>1. view # project
      BY <1>1, <2>1, <2>3 DEF Newer, Fetch
    <3>2. PICK i \in 1 .. Len(wire) : wire[i] = Reload /\ n >= 3 + i
      BY <2>1, <2>3, <3>1 DEF Within
    <3>3. wire'[i] = Reload /\ i \in 1 .. Len(wire') /\ n - 1 >= 2 + i
      BY <2>1, <3>2
    <3> QED BY <2>1, <3>3 DEF Within
  <2> QED BY <2>2, <2>3
<1>4. CASE Receive
  BY <1>4, ReceiveNearer DEF AnswerRefresh, SwapRefresh, Receive
<1>5. ASSUME Publish PROVE Within(n)'
  <2>1. served + 1 \in Nat /\ Send(served + 1) /\ OvertakeFetches
        /\ UNCHANGED <<untold, project, view>>
    BY <1>1, <1>5 DEF Publish
  <2>2. \A i \in 1 .. Len(wire) : i \in 1 .. Len(wire') /\ wire'[i] = wire[i]
    BY <1>1, <2>1 DEF Send
  <2>3. refresh'.st = refresh.st /\ refresh'.view = refresh.view
    BY <1>1, <2>1, OvertakenType DEF OvertakeFetches
  <2> QED BY <1>1, <2>1, <2>2, <2>3, KeepsWithin
<1>6. ASSUME Reset \/ Start PROVE Within(n)'
  <2>1. OvertakeFetches /\ UNCHANGED <<untold, project, view, wire>>
    BY <1>6 DEF Reset, Start
  <2>2. refresh'.st = refresh.st /\ refresh'.view = refresh.view
    BY <1>1, <2>1, OvertakenType DEF OvertakeFetches
  <2> QED BY <1>1, <2>1, <2>2, KeepsWithin
<1>7. ASSUME Drop \/ Stop PROVE Within(n)'
  <2>1. untold' = (untold \/ \E i \in 1 .. Len(wire) : wire[i] = Reload)
        /\ UNCHANGED <<project, view, refresh>>
    BY <1>7 DEF Drop, Stop, Disconnect
  <2> QED BY <2>1 DEF Within
<1>8. ASSUME Load PROVE Within(n)'
  BY <1>8 DEF Load, Within
<1>9. ASSUME FailRefresh PROVE Within(n)'
  BY <1>9 DEF FailRefresh, Within
<1>10. ASSUME \/ Open \/ TogglePause \/ ClearView \/ AnswerResume \/ SwapResume
               \/ FailResume \/ Settle \/ UNCHANGED vars
       PROVE  Within(n)'
  <2>1. UNCHANGED <<untold, project, view, wire, refresh>>
    BY <1>10 DEF Open, TogglePause, ClearView, AnswerResume, SwapResume, FailResume, Settle,
                 vars
  <2> QED BY <1>1, <2>1, KeepsWithin
<1>11. ~Swap
  BY <1>1 DEF Swap
<1> QED
  BY <1>2, <1>3, <1>4, <1>5, <1>6, <1>7, <1>8, <1>9, <1>10, <1>11 DEF Next, Environment, User, Page

\* Until another reload comes, a page that was told of the last one shows it after no
\* more of its tasks than its stream holds messages, a fetch and two swaps: no request,
\* pause, clear or resume, and no row that arrives, puts that off.
THEOREM PageGetsThere == Spec => [](Within(Buffer + 3)) /\ [][ComesNearer]_vars
<1>1. Init => Newer /\ Told
  BY IdleType DEF Init, Newer, Told
<1>2. Spec => [](Typed /\ Newer /\ Told)
  BY <1>1, InitTyped, StepTyped, StepNewer, StepTold, PTL DEF Spec
<1>3. Typed /\ Told => Within(Buffer + 3)
  <2> SUFFICES ASSUME Typed, Told PROVE Within(Buffer + 3)
    OBVIOUS
  <2>1. Buffer \in Nat /\ Len(wire) \in Nat /\ Len(wire) <= Buffer
    BY TrafficAssumption DEF Typed, WireTyped
  <2> QED BY <2>1 DEF Told, Within
<1>4. Typed /\ Newer /\ [Next]_vars => [ComesNearer]_vars
  BY NearerStep DEF ComesNearer
<1> QED BY <1>2, <1>3, <1>4, PTL DEF Spec
=============================================================================
