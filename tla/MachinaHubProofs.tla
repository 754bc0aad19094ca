--------------------------- MODULE MachinaHubProofs ---------------------------
(***************************************************************************)
(* Proofs about MachinaHub, for every size of ring and buffer and any      *)
(* number of listeners and reloaders.                                      *)
(***************************************************************************)
EXTENDS MachinaHub, FiniteSetTheorems, TLAPS

-----------------------------------------------------------------------------
(* Arithmetic of the ring's indices.                                        *)

\* Below the modulus the remainder is the number itself.
LEMMA SmallMod ==
  ASSUME NEW a \in Nat, NEW m \in Nat \ {0}, a < m
  PROVE  a % m = a
OBVIOUS

\* One turn too far is taken back once.
LEMMA OneOver ==
  ASSUME NEW a \in Nat, NEW m \in Nat \ {0}, m <= a, a < 2 * m
  PROVE  a % m = a - m
OBVIOUS

\* The next slot is the one above, or the first.
LEMMA NextSlot ==
  ASSUME NEW a \in 0 .. Size - 1
  PROVE  (a + 1) % Size = IF a + 1 = Size THEN 0 ELSE a + 1
<1>1. CASE a + 1 = Size
  BY <1>1, OneOver, HubAssumption
<1>2. CASE a + 1 # Size
  BY <1>2, SmallMod, HubAssumption
<1> QED BY <1>1, <1>2

\* The i-th newest slot lies i below the next one, or that far from the end.
LEMMA NewestSlot ==
  ASSUME NEW a \in 0 .. Size - 1, NEW i \in 1 .. Size
  PROVE  (a - i + Size) % Size = IF i <= a THEN a - i ELSE a - i + Size
<1> DEFINE b == a - i + Size
<1>1. CASE i <= a
  <2>1. b \in Nat /\ Size <= b /\ b < 2 * Size
    BY <1>1, HubAssumption
  <2>2. b % Size = b - Size
    <3> HIDE DEF b
    <3> QED BY <2>1, OneOver, HubAssumption
  <2>3. b - Size = a - i
    BY HubAssumption
  <2> QED BY <1>1, <2>2, <2>3
<1>2. CASE ~(i <= a)
  <2>1. b \in Nat /\ b < Size
    BY <1>2, HubAssumption
  <2>2. b % Size = b
    <3> HIDE DEF b
    <3> QED BY <2>1, SmallMod, HubAssumption
  <2> QED BY <1>2, <2>2
<1> QED BY <1>1, <1>2

-----------------------------------------------------------------------------
(* Type correctness.                                                        *)

\* What a listener's channel holds after a send.
LEMMA SendType ==
  ASSUME TypeOK, NEW m \in Message, Send(m)
  PROVE  /\ queue' \in [Listeners -> Seq(Message)]
         /\ \A l \in Listeners : Len(queue'[l]) <= Buffer
         /\ sent' \in Nat /\ heard' = heard
         /\ missed' \in [Listeners -> BOOLEAN] /\ panicked' \in BOOLEAN
<1>1. ASSUME NEW l \in Listeners
      PROVE  queue'[l] \in Seq(Message) /\ Len(queue'[l]) <= Buffer
  <2>1. queue[l] \in Seq(Message) /\ Len(queue[l]) <= Buffer
    BY DEF TypeOK
  <2>2. queue'[l] = IF l \in listeners /\ HasRoom(l) THEN Append(queue[l], m) ELSE queue[l]
    BY DEF Send
  <2> QED BY <2>1, <2>2, HubAssumption DEF HasRoom
<1>2. queue' \in [Listeners -> Seq(Message)]
  BY <1>1 DEF Send
<1>3. sent' \in Nat /\ heard' = heard
  BY DEF TypeOK, Send
<1>4. missed' \in [Listeners -> BOOLEAN] /\ panicked' \in BOOLEAN
  BY DEF TypeOK, Send, Full
<1> QED BY <1>1, <1>2, <1>3, <1>4

\* The ring and its counts after an event.
LEMMA RecordType ==
  ASSUME TypeOK, NEW e \in Event, Record(e)
  PROVE  /\ history' \in [0 .. Size - 1 -> Event \cup {None}]
         /\ next' \in 0 .. Size - 1 /\ kept' \in 0 .. Size
         /\ total' \in Nat /\ errs' \in 0 .. total'
<1>1. next' \in 0 .. Size - 1
  BY NextSlot, HubAssumption DEF Record, TypeOK
<1>2. history' \in [0 .. Size - 1 -> Event \cup {None}]
  BY DEF Record, TypeOK
<1>3. kept' \in 0 .. Size
  BY HubAssumption DEF Record, TypeOK, Least
<1>4. total' \in Nat /\ errs' \in 0 .. total'
  BY DEF Record, TypeOK
<1> QED BY <1>1, <1>2, <1>3, <1>4

LEMMA InitTyped == Init => TypeOK
<1> SUFFICES ASSUME Init PROVE TypeOK
  OBVIOUS
<1>1. history \in [0 .. Size - 1 -> Event \cup {None}]
  BY DEF Init
<1>2. next \in 0 .. Size - 1 /\ kept \in 0 .. Size /\ total \in Nat /\ errs \in 0 .. total
  BY HubAssumption DEF Init
<1>3. /\ queue \in [Listeners -> Seq(Message)]
      /\ \A l \in Listeners : Len(queue[l]) <= Buffer
  BY HubAssumption DEF Init
<1>4. log \in Seq(Event)
  BY DEF Init
<1> QED BY <1>1, <1>2, <1>3, <1>4 DEF Init, TypeOK

LEMMA StepTyped == TypeOK /\ [Next]_vars => TypeOK'
<1> SUFFICES ASSUME TypeOK, [Next]_vars PROVE TypeOK'
  OBVIOUS
<1> USE DEF ring, streams, letters, page, pages
<1>1. ASSUME NEW bad \in BOOLEAN, Publish(bad) PROVE TypeOK'
  <2> DEFINE e == [n |-> served + 1, bad |-> bad]
             m == [at |-> sent + 1, reload |-> FALSE]
  <2>1. e \in Event /\ m \in Message
    BY DEF TypeOK, Event, Message
  <2>2. Record(e) /\ Send(m) /\ served' = served + 1 /\ log' = Append(log, e)
    BY <1>1 DEF Publish
  <2>3. served' \in Nat /\ log' \in Seq(Event)
    BY <2>1, <2>2 DEF TypeOK
  <2>4. UNCHANGED <<closed, listeners, chan, pc, project, swap, pages>>
    BY <1>1 DEF Publish
  <2> HIDE DEF e, m
  <2>5. /\ history' \in [0 .. Size - 1 -> Event \cup {None}]
        /\ next' \in 0 .. Size - 1 /\ kept' \in 0 .. Size
        /\ total' \in Nat /\ errs' \in 0 .. total'
    BY <2>1, <2>2, RecordType
  <2>6. /\ queue' \in [Listeners -> Seq(Message)]
        /\ \A l \in Listeners : Len(queue'[l]) <= Buffer
        /\ sent' \in Nat /\ heard' = heard
        /\ missed' \in [Listeners -> BOOLEAN] /\ panicked' \in BOOLEAN
    BY <2>1, <2>2, SendType
  <2> QED BY <2>3, <2>4, <2>5, <2>6 DEF TypeOK
<1>2. ASSUME NEW r \in Reloaders, Swap(r) PROVE TypeOK'
  <2>1. CASE swap[r] = "idle"
    <3>1. /\ project' = project + 1 /\ swap' = [swap EXCEPT ![r] = "stored"]
          /\ UNCHANGED <<ring, closed, streams, letters, pages, panicked>>
      BY <1>2, <2>1 DEF Swap
    <3> QED BY <3>1 DEF TypeOK
  <2>2. CASE swap[r] = "stored"
    <3> DEFINE m == [at |-> sent + 1, reload |-> TRUE]
    <3>1. m \in Message
      BY DEF TypeOK, Message
    <3>2. Send(m)
      BY <1>2, <2>2 DEF Swap
    <3>3. /\ swap' = [swap EXCEPT ![r] = "idle"]
          /\ misled' = [l \in Listeners |-> misled[l] \/ Full(l)]
          /\ UNCHANGED <<ring, closed, streams, project, page>>
      BY <1>2, <2>2 DEF Swap
    <3> HIDE DEF m
    <3>4. /\ queue' \in [Listeners -> Seq(Message)]
          /\ \A l \in Listeners : Len(queue'[l]) <= Buffer
          /\ sent' \in Nat /\ heard' = heard
          /\ missed' \in [Listeners -> BOOLEAN] /\ panicked' \in BOOLEAN
      BY <3>1, <3>2, SendType
    <3>5. misled' \in [Listeners -> BOOLEAN] /\ swap' \in [Reloaders -> {"idle", "stored"}]
      BY <3>3 DEF TypeOK, Full
    <3> QED BY <3>3, <3>4, <3>5 DEF TypeOK
  <2> QED BY <1>2, <2>1, <2>2 DEF Swap
<1>3. CASE Clear
  BY <1>3, HubAssumption DEF Clear, TypeOK
<1>4. CASE Close
  BY <1>4 DEF Close, TypeOK
<1>5. ASSUME NEW l \in Listeners, Subscribe(l) PROVE TypeOK'
  BY <1>5, HubAssumption DEF Subscribe, TypeOK
<1>6. ASSUME NEW l \in Listeners, Receive(l) PROVE TypeOK'
  <2>1. queue[l] \in Seq(Message) /\ queue[l] # <<>> /\ Len(queue[l]) <= Buffer
    BY <1>6 DEF Receive, TypeOK
  <2>2. /\ Head(queue[l]) \in Message /\ Tail(queue[l]) \in Seq(Message)
        /\ Len(Tail(queue[l])) <= Buffer
    BY <2>1, HubAssumption
  <2>3. /\ queue' \in [Listeners -> Seq(Message)]
        /\ \A k \in Listeners : Len(queue'[k]) <= Buffer
    BY <1>6, <2>2 DEF Receive, TypeOK
  <2>4. heard' \in [Listeners -> Nat]
    BY <1>6, <2>2 DEF Receive, TypeOK, Message
  <2>5. due' \in [Listeners -> BOOLEAN] /\ misled' \in [Listeners -> BOOLEAN]
    BY <1>6, <2>2 DEF Receive, TypeOK, Message
  <2> QED BY <1>6, <2>3, <2>4, <2>5 DEF Receive, TypeOK
<1>7. ASSUME NEW l \in Listeners, StreamEnds(l) \/ ClientLeaves(l) PROVE TypeOK'
  BY <1>7 DEF StreamEnds, ClientLeaves, TypeOK
<1>8. ASSUME NEW l \in Listeners, Unsubscribe(l) PROVE TypeOK'
  <2>1. /\ queue' \in [Listeners -> Seq(Message)]
        /\ \A k \in Listeners : Len(queue'[k]) <= Buffer
    BY <1>8, HubAssumption DEF Unsubscribe, TypeOK
  <2>2. /\ listeners' \in SUBSET Listeners /\ panicked' \in BOOLEAN
        /\ chan' \in [Listeners -> {"none", "open", "closed"}]
    BY <1>8 DEF Unsubscribe, TypeOK
  <2>3. /\ pc' \in [Listeners -> {"away", "streaming", "leaving"}]
        /\ heard' \in [Listeners -> Nat]
        /\ missed' \in [Listeners -> BOOLEAN] /\ misled' \in [Listeners -> BOOLEAN]
        /\ UNCHANGED <<ring, closed, sent, project, swap, page>>
    BY <1>8 DEF Unsubscribe, TypeOK
  <2> QED BY <2>1, <2>2, <2>3 DEF TypeOK
<1>9. ASSUME NEW l \in Listeners, Load(l) \/ Read(l) \/ Arrive(l) PROVE TypeOK'
  <2>1. CASE Load(l)
    BY <2>1 DEF Load, TypeOK
  <2>2. CASE Read(l)
    BY <2>2 DEF Read, TypeOK
  <2>3. CASE Arrive(l)
    BY <2>3 DEF Arrive, TypeOK
  <2> QED BY <1>9, <2>1, <2>2, <2>3
<1>10. CASE UNCHANGED vars
  BY <1>10 DEF vars, TypeOK
<1> QED BY <1>1, <1>2, <1>3, <1>4, <1>5, <1>6, <1>7, <1>8, <1>9, <1>10 DEF Next

\* Every variable of the hub keeps its type: the ring's index stays in the ring,
\* no channel holds more than its buffer, and no more requests count as errors
\* than count at all.
THEOREM HubTypeCorrect == Spec => []TypeOK
BY InitTyped, StepTyped, PTL DEF Spec

-----------------------------------------------------------------------------
(* No panic.                                                                *)

\* The channels on the list are the open ones, and a closed hub has none.
Registered ==
  /\ \A l \in Listeners : l \in listeners <=> chan[l] = "open"
  /\ closed => listeners = {}

Calm == TypeOK /\ Registered /\ NoPanic

LEMMA SendCalm ==
  ASSUME Calm, NEW m, Send(m)
  PROVE  panicked' = FALSE
BY DEF Calm, TypeOK, Registered, NoPanic, Send

LEMMA StepCalm == Calm /\ TypeOK' /\ [Next]_vars => Calm'
<1> SUFFICES ASSUME Calm, TypeOK', [Next]_vars PROVE Registered' /\ NoPanic'
  BY DEF Calm
<1> USE DEF ring, streams, letters, page, pages
<1>1. ASSUME NEW bad \in BOOLEAN, Publish(bad) PROVE Registered' /\ NoPanic'
  <2>1. UNCHANGED <<closed, listeners, chan>>
    BY <1>1 DEF Publish
  <2>2. panicked' = FALSE
    BY <1>1, SendCalm DEF Publish
  <2> QED BY <2>1, <2>2 DEF Calm, Registered, NoPanic
<1>2. ASSUME NEW r \in Reloaders, Swap(r) PROVE Registered' /\ NoPanic'
  <2>1. UNCHANGED <<closed, listeners, chan>>
    BY <1>2 DEF Swap
  <2>2. panicked' = FALSE
    <3>1. CASE swap[r] = "idle"
      <4>1. UNCHANGED panicked
        BY <1>2, <3>1 DEF Swap
      <4> QED BY <4>1 DEF Calm, NoPanic, TypeOK
    <3>2. CASE swap[r] = "stored"
      <4>1. Send([at |-> sent + 1, reload |-> TRUE])
        BY <1>2, <3>2 DEF Swap
      <4> QED BY <4>1, SendCalm
    <3> QED BY <1>2, <3>1, <3>2 DEF Swap
  <2> QED BY <2>1, <2>2 DEF Calm, Registered, NoPanic
<1>3. CASE Clear
  BY <1>3 DEF Clear, Calm, Registered, NoPanic
<1>4. CASE Close
  BY <1>4 DEF Close, Calm, TypeOK, Registered, NoPanic
<1>5. ASSUME NEW l \in Listeners, Subscribe(l) PROVE Registered' /\ NoPanic'
  BY <1>5 DEF Subscribe, Calm, TypeOK, Registered, NoPanic
<1>6. ASSUME NEW l \in Listeners, Receive(l) PROVE Registered' /\ NoPanic'
  BY <1>6 DEF Receive, Calm, Registered, NoPanic
<1>7. ASSUME NEW l \in Listeners, StreamEnds(l) \/ ClientLeaves(l)
      PROVE  Registered' /\ NoPanic'
  BY <1>7 DEF StreamEnds, ClientLeaves, Calm, Registered, NoPanic
<1>8. ASSUME NEW l \in Listeners, Unsubscribe(l) PROVE Registered' /\ NoPanic'
  <2>1. /\ closed' = closed /\ listeners' = listeners \ {l}
        /\ \A k \in Listeners \ {l} : chan'[k] = chan[k]
        /\ chan'[l] # "open"
    BY <1>8 DEF Unsubscribe, Calm, TypeOK, Registered
  <2>2. panicked' = FALSE
    BY <1>8 DEF Unsubscribe, Calm, TypeOK, Registered, NoPanic
  <2> QED BY <2>1, <2>2 DEF Calm, Registered, NoPanic
<1>9. ASSUME NEW l \in Listeners, Load(l) \/ Read(l) \/ Arrive(l)
      PROVE  Registered' /\ NoPanic'
  BY <1>9 DEF Load, Read, Arrive, Calm, Registered, NoPanic
<1>10. CASE UNCHANGED vars
  BY <1>10 DEF vars, Calm, Registered, NoPanic
<1> QED BY <1>1, <1>2, <1>3, <1>4, <1>5, <1>6, <1>7, <1>8, <1>9, <1>10 DEF Next

\* No interleaving of subscribe, stop(), send and close() sends on a closed
\* channel or closes one twice.
THEOREM NeverPanics == Spec => []NoPanic
<1>1. Init => Calm
  BY InitTyped DEF Init, Calm, Registered, NoPanic
<1>2. Calm /\ [Next]_vars => Calm'
  BY StepTyped, StepCalm DEF Calm
<1>3. Calm => NoPanic
  BY DEF Calm
<1> QED BY <1>1, <1>2, <1>3, PTL DEF Spec

-----------------------------------------------------------------------------
(* The ring.                                                                *)

\* The slot of the i-th newest request, with the modulus worked out.
SlotOf(i) == IF i <= next THEN next - i ELSE next - i + Size

BadOnes == {i \in 1 .. Len(log) : log[i].bad}

\* RecentIsNewest slot by slot.
RingHolds ==
  /\ kept = Least(Len(log), Size)
  /\ \A i \in 1 .. kept : history[SlotOf(i)] = log[Len(log) + 1 - i]
  /\ total = Len(log)
  /\ errs = Cardinality(BadOnes)

LEMMA RingShown == TypeOK /\ RingHolds => RecentIsNewest
<1> SUFFICES ASSUME TypeOK, RingHolds PROVE RecentIsNewest
  OBVIOUS
<1>1. ASSUME NEW i \in 1 .. kept
      PROVE  history[(next - i + Size) % Size] = log[Len(log) + 1 - i]
  <2>1. i \in 1 .. Size /\ next \in 0 .. Size - 1
    BY HubAssumption DEF TypeOK
  <2>2. (next - i + Size) % Size = SlotOf(i)
    BY <2>1, NewestSlot DEF SlotOf
  <2> QED BY <2>2 DEF RingHolds
<1>2. Recent = [i \in 1 .. kept |-> log[Len(log) + 1 - i]]
  BY <1>1 DEF Recent
<1> QED BY <1>2 DEF RingHolds, RecentIsNewest, BadOnes

\* An event pushes every kept request one slot further from the next one.
LEMMA RecordHolds ==
  ASSUME TypeOK, TypeOK', RingHolds, NEW e \in Event, Record(e), log' = Append(log, e)
  PROVE  RingHolds'
<1>1. /\ log \in Seq(Event) /\ Len(log) \in Nat /\ Len(log') = Len(log) + 1
      /\ \A i \in 1 .. Len(log) : log'[i] = log[i]
      /\ log'[Len(log) + 1] = e
  <2>1. log \in Seq(Event)
    BY DEF TypeOK
  <2>2. Len(log) \in Nat /\ Len(log') = Len(log) + 1
    BY <2>1
  <2>3. \A i \in 1 .. Len(log) : log'[i] = log[i]
    BY <2>1
  <2>4. log'[Len(log) + 1] = e
    BY <2>1
  <2> QED BY <2>1, <2>2, <2>3, <2>4
<1>2. next \in 0 .. Size - 1 /\ next' = IF next + 1 = Size THEN 0 ELSE next + 1
  BY NextSlot DEF Record, TypeOK
<1>3. kept' = Least(Len(log'), Size)
  BY <1>1, HubAssumption DEF RingHolds, Record, Least
<1>4. ASSUME NEW i \in 1 .. kept'
      PROVE  history'[SlotOf(i)'] = log'[Len(log') + 1 - i]
  <2>1. i \in 1 .. Size /\ i <= Len(log) + 1
    BY <1>1, <1>3, HubAssumption DEF Least
  <2>2. CASE i = 1
    <3>1. SlotOf(i)' = next
      BY <1>2, <2>2, HubAssumption DEF SlotOf
    <3>2. history'[next] = e
      BY <1>2 DEF Record, TypeOK
    <3> QED BY <1>1, <2>2, <3>1, <3>2
  <2>3. CASE i # 1
    <3>1. i - 1 \in 1 .. kept
      BY <1>1, <2>1, <2>3, HubAssumption DEF RingHolds, Least
    <3>2. SlotOf(i)' = SlotOf(i - 1) /\ SlotOf(i - 1) # next
          /\ SlotOf(i - 1) \in 0 .. Size - 1
      BY <1>2, <2>1, <2>3, HubAssumption DEF SlotOf
    <3>3. history'[SlotOf(i - 1)] = history[SlotOf(i - 1)]
      BY <3>2 DEF Record, TypeOK
    <3>4. history[SlotOf(i - 1)] = log[Len(log) + 1 - (i - 1)]
      BY <3>1 DEF RingHolds
    <3>5. Len(log) + 1 - (i - 1) = Len(log') + 1 - i /\ Len(log') + 1 - i \in 1 .. Len(log)
      BY <1>1, <2>1, <2>3
    <3> QED BY <1>1, <3>2, <3>3, <3>4, <3>5
  <2> QED BY <2>2, <2>3
<1>5. total' = Len(log')
  BY <1>1 DEF RingHolds, Record
<1>6. errs' = Cardinality(BadOnes')
  <2>1. IsFiniteSet(BadOnes)
    <3>1. IsFiniteSet(1 .. Len(log))
      BY <1>1, FS_Interval
    <3> QED BY <3>1, FS_Subset DEF BadOnes
  <2>2. Len(log) + 1 \notin BadOnes
    BY <1>1 DEF BadOnes
  <2>3. BadOnes' = IF e.bad THEN BadOnes \cup {Len(log) + 1} ELSE BadOnes
    BY <1>1 DEF BadOnes
  <2>4. Cardinality(BadOnes \cup {Len(log) + 1}) = Cardinality(BadOnes) + 1
    BY <2>1, <2>2, FS_AddElement
  <2> QED BY <2>3, <2>4 DEF RingHolds, Record
<1> QED BY <1>3, <1>4, <1>5, <1>6 DEF RingHolds

LEMMA InitHolds == Init => RingHolds
<1> SUFFICES ASSUME Init PROVE RingHolds
  OBVIOUS
<1>1. BadOnes = {}
  BY DEF Init, BadOnes
<1>2. Cardinality(BadOnes) = 0
  BY <1>1, FS_EmptySet
<1> QED BY <1>2, HubAssumption DEF Init, RingHolds, Least

LEMMA StepHolds == TypeOK /\ TypeOK' /\ RingHolds /\ [Next]_vars => RingHolds'
<1> SUFFICES ASSUME TypeOK, TypeOK', RingHolds, [Next]_vars PROVE RingHolds'
  OBVIOUS
<1>1. ASSUME NEW bad \in BOOLEAN, Publish(bad) PROVE RingHolds'
  <2> DEFINE e == [n |-> served + 1, bad |-> bad]
  <2>1. e \in Event
    BY DEF TypeOK, Event
  <2>2. Record(e) /\ log' = Append(log, e)
    BY <1>1 DEF Publish
  <2> HIDE DEF e
  <2> QED BY <2>1, <2>2, RecordHolds
<1>2. CASE Clear
  <2>1. next' = 0 /\ kept' = 0 /\ total' = 0 /\ errs' = 0 /\ log' = <<>>
    BY <1>2 DEF Clear
  <2>2. BadOnes' = {}
    BY <2>1 DEF BadOnes
  <2>3. Cardinality(BadOnes') = 0
    BY <2>2, FS_EmptySet
  <2> QED BY <2>1, <2>3, HubAssumption DEF RingHolds, Least
<1>3. CASE UNCHANGED <<history, next, kept, total, errs, log>>
  BY <1>3 DEF RingHolds, SlotOf, BadOnes
<1>4. [Next]_vars => \/ \E bad \in BOOLEAN : Publish(bad)
                     \/ Clear
                     \/ UNCHANGED <<history, next, kept, total, errs, log>>
  BY DEF Next, vars, ring, Swap, Close, Subscribe, Receive, StreamEnds, ClientLeaves,
         Unsubscribe, Load, Read, Arrive
<1> QED BY <1>1, <1>2, <1>3, <1>4

\* recent() is the newest requests, newest first, and the counts are right, for
\* any size of the ring, over any number of wraps and resets.
THEOREM RingCorrect == Spec => []RecentIsNewest
<1>1. Init => TypeOK /\ RingHolds
  BY InitTyped, InitHolds
<1>2. TypeOK /\ RingHolds /\ [Next]_vars => (TypeOK /\ RingHolds)'
  BY StepTyped, StepHolds
<1>3. TypeOK /\ RingHolds => RecentIsNewest
  BY RingShown
<1> QED BY <1>1, <1>2, <1>3, PTL DEF Spec

-----------------------------------------------------------------------------
(* Streams.                                                                 *)

\* What a channel holds are messages.
LEMMA Letters ==
  ASSUME TypeOK, NEW l \in Listeners
  PROVE  /\ queue[l] \in Seq(Message) /\ Len(queue[l]) \in Nat
         /\ sent \in Nat /\ heard[l] \in Nat
         /\ \A i \in 1 .. Len(queue[l]) :
              queue[l][i].at \in Nat /\ queue[l][i].reload \in BOOLEAN
<1>1. queue[l] \in Seq(Message) /\ sent \in Nat /\ heard[l] \in Nat
  BY DEF TypeOK
<1>2. Len(queue[l]) \in Nat /\ \A i \in 1 .. Len(queue[l]) : queue[l][i] \in Message
  BY <1>1
<1> QED BY <1>1, <1>2 DEF Message

\* What a send does to an open channel: it has room, or the message is missed.
LEMMA SendOpen ==
  ASSUME Calm, NEW m \in Message, Send(m), NEW l \in Listeners, chan[l] = "open"
  PROVE  \/ ~Full(l) /\ queue'[l] = Append(queue[l], m)
         \/ Full(l) /\ missed'[l] /\ queue'[l] = queue[l]
<1>1. l \in listeners /\ Len(queue[l]) <= Buffer /\ Len(queue[l]) \in Nat
  BY DEF Calm, TypeOK, Registered
<1>2. queue'[l] = IF HasRoom(l) THEN Append(queue[l], m) ELSE queue[l]
  BY <1>1 DEF Send
<1>3. HasRoom(l) <=> ~Full(l)
  BY <1>1, HubAssumption DEF HasRoom, Full
<1>4. missed'[l] = (missed[l] \/ Full(l))
  BY DEF Send
<1> QED BY <1>2, <1>3, <1>4

\* InOrder, and that a queue from which nothing is missing has no gaps.
Sequential ==
  \A l \in Listeners : chan[l] = "open" =>
    /\ heard[l] <= sent
    /\ \A i \in 1 .. Len(queue[l]) : heard[l] < queue[l][i].at /\ queue[l][i].at <= sent
    /\ \A i, j \in 1 .. Len(queue[l]) : i < j => queue[l][i].at < queue[l][j].at
    /\ ~missed[l] => /\ heard[l] + Len(queue[l]) = sent
                     /\ \A i \in 1 .. Len(queue[l]) : queue[l][i].at = heard[l] + i

LEMMA SendSequential ==
  ASSUME Calm, Sequential, NEW m \in Message, m.at = sent + 1, Send(m), chan' = chan
  PROVE  Sequential'
<1> SUFFICES ASSUME NEW l \in Listeners, chan[l] = "open"
             PROVE  /\ heard'[l] <= sent'
                    /\ \A i \in 1 .. Len(queue'[l]) :
                         heard'[l] < queue'[l][i].at /\ queue'[l][i].at <= sent'
                    /\ \A i, j \in 1 .. Len(queue'[l]) :
                         i < j => queue'[l][i].at < queue'[l][j].at
                    /\ ~missed'[l] =>
                         /\ heard'[l] + Len(queue'[l]) = sent'
                         /\ \A i \in 1 .. Len(queue'[l]) : queue'[l][i].at = heard'[l] + i
  BY DEF Sequential
<1>1. /\ queue[l] \in Seq(Message) /\ Len(queue[l]) \in Nat
      /\ sent \in Nat /\ heard[l] \in Nat
      /\ \A i \in 1 .. Len(queue[l]) : queue[l][i].at \in Nat
  BY Letters DEF Calm
<1>2. sent' = sent + 1 /\ heard' = heard /\ missed'[l] = (missed[l] \/ Full(l))
  BY DEF Send
<1>3. /\ heard[l] <= sent
      /\ \A i \in 1 .. Len(queue[l]) : heard[l] < queue[l][i].at /\ queue[l][i].at <= sent
      /\ \A i, j \in 1 .. Len(queue[l]) : i < j => queue[l][i].at < queue[l][j].at
      /\ ~missed[l] => /\ heard[l] + Len(queue[l]) = sent
                       /\ \A i \in 1 .. Len(queue[l]) : queue[l][i].at = heard[l] + i
  BY DEF Sequential
<1>4. CASE queue'[l] = Append(queue[l], m)
  <2>1. /\ Len(queue'[l]) = Len(queue[l]) + 1
        /\ \A i \in 1 .. Len(queue[l]) : queue'[l][i] = queue[l][i]
        /\ queue'[l][Len(queue[l]) + 1] = m
    BY <1>1, <1>4
  <2>2. ASSUME NEW i \in 1 .. Len(queue'[l])
        PROVE  \/ i \in 1 .. Len(queue[l]) /\ queue'[l][i] = queue[l][i]
               \/ i = Len(queue[l]) + 1 /\ queue'[l][i].at = sent + 1
    BY <1>1, <2>1
  <2>3. ASSUME NEW i \in 1 .. Len(queue'[l])
        PROVE  heard'[l] < queue'[l][i].at /\ queue'[l][i].at <= sent'
    <3>1. CASE i \in 1 .. Len(queue[l]) /\ queue'[l][i] = queue[l][i]
      <4>1. /\ queue[l][i].at \in Nat /\ heard[l] < queue[l][i].at
            /\ queue[l][i].at <= sent
        BY <1>1, <1>3, <3>1
      <4> QED BY <1>1, <1>2, <3>1, <4>1
    <3>2. CASE i = Len(queue[l]) + 1 /\ queue'[l][i].at = sent + 1
      BY <1>1, <1>2, <1>3, <3>2
    <3> QED BY <2>2, <3>1, <3>2
  <2>4. ASSUME NEW i \in 1 .. Len(queue'[l]), NEW j \in 1 .. Len(queue'[l]), i < j
        PROVE  queue'[l][i].at < queue'[l][j].at
    <3>1. i \in 1 .. Len(queue[l])
      BY <1>1, <2>1, <2>4
    <3>2. queue'[l][i] = queue[l][i] /\ queue[l][i].at \in Nat /\ queue[l][i].at <= sent
      BY <1>1, <1>3, <2>1, <3>1
    <3>3. CASE j \in 1 .. Len(queue[l]) /\ queue'[l][j] = queue[l][j]
      BY <1>3, <2>4, <3>1, <3>2, <3>3
    <3>4. CASE j = Len(queue[l]) + 1 /\ queue'[l][j].at = sent + 1
      BY <1>1, <3>2, <3>4
    <3> QED BY <2>2, <3>3, <3>4
  <2>5. ASSUME ~missed'[l]
        PROVE  /\ heard'[l] + Len(queue'[l]) = sent'
               /\ \A i \in 1 .. Len(queue'[l]) : queue'[l][i].at = heard'[l] + i
    <3>1. ~missed[l] /\ heard[l] + Len(queue[l]) = sent
      BY <1>2, <1>3, <2>5
    <3>2. ASSUME NEW i \in 1 .. Len(queue'[l])
          PROVE  queue'[l][i].at = heard'[l] + i
      <4>1. CASE i \in 1 .. Len(queue[l]) /\ queue'[l][i] = queue[l][i]
        BY <1>2, <1>3, <3>1, <4>1
      <4>2. CASE i = Len(queue[l]) + 1 /\ queue'[l][i].at = sent + 1
        <5>1. heard[l] \in Nat /\ Len(queue[l]) \in Nat /\ heard'[l] = heard[l]
          BY <1>1, <1>2
        <5>2. heard[l] + (Len(queue[l]) + 1) = sent + 1
          BY <3>1, <5>1
        <5> QED BY <4>2, <5>1, <5>2
      <4> QED BY <2>2, <4>1, <4>2
    <3>3. heard'[l] + Len(queue'[l]) = sent'
      BY <1>1, <1>2, <2>1, <3>1
    <3> QED BY <3>2, <3>3
  <2> QED BY <1>1, <1>2, <1>3, <2>3, <2>4, <2>5
<1>5. CASE missed'[l] /\ queue'[l] = queue[l]
  BY <1>1, <1>2, <1>3, <1>5
<1> QED BY <1>4, <1>5, SendOpen

LEMMA ReceiveSequential ==
  ASSUME Calm, Sequential, NEW k \in Listeners, Receive(k)
  PROVE  Sequential'
<1>1. UNCHANGED <<chan, sent, missed>>
  BY DEF Receive, streams
<1>2. /\ queue[k] \in Seq(Message) /\ queue[k] # <<>> /\ Len(queue[k]) \in Nat \ {0}
      /\ sent \in Nat /\ heard[k] \in Nat
      /\ \A i \in 1 .. Len(queue[k]) : queue[k][i].at \in Nat
  BY Letters DEF Receive, Calm
<1>3. /\ queue'[k] = Tail(queue[k]) /\ heard'[k] = queue[k][1].at
      /\ \A l \in Listeners \ {k} : queue'[l] = queue[l] /\ heard'[l] = heard[l]
  BY <1>2 DEF Receive, Calm, TypeOK
<1>4. /\ Len(queue'[k]) = Len(queue[k]) - 1
      /\ \A i \in 1 .. Len(queue[k]) - 1 : queue'[k][i] = queue[k][i + 1]
  BY <1>2, <1>3
<1>5. ASSUME NEW l \in Listeners, chan[l] = "open", l # k
      PROVE  /\ queue'[l] = queue[l] /\ heard'[l] = heard[l]
             /\ missed'[l] = missed[l] /\ sent' = sent
  BY <1>1, <1>3, <1>5
<1>6. ASSUME chan[k] = "open"
      PROVE  /\ heard'[k] <= sent
             /\ \A i \in 1 .. Len(queue'[k]) :
                  heard'[k] < queue'[k][i].at /\ queue'[k][i].at <= sent
             /\ \A i, j \in 1 .. Len(queue'[k]) :
                  i < j => queue'[k][i].at < queue'[k][j].at
             /\ ~missed[k] =>
                  /\ heard'[k] + Len(queue'[k]) = sent
                  /\ \A i \in 1 .. Len(queue'[k]) : queue'[k][i].at = heard'[k] + i
  <2>1. /\ \A i \in 1 .. Len(queue[k]) : heard[k] < queue[k][i].at /\ queue[k][i].at <= sent
        /\ \A i, j \in 1 .. Len(queue[k]) : i < j => queue[k][i].at < queue[k][j].at
        /\ ~missed[k] => /\ heard[k] + Len(queue[k]) = sent
                         /\ \A i \in 1 .. Len(queue[k]) : queue[k][i].at = heard[k] + i
    BY <1>6 DEF Sequential
  <2>2. ASSUME NEW i \in 1 .. Len(queue'[k])
        PROVE  i + 1 \in 1 .. Len(queue[k]) /\ queue'[k][i] = queue[k][i + 1] /\ 1 < i + 1
    BY <1>2, <1>4
  <2>3. 1 \in 1 .. Len(queue[k])
    BY <1>2
  <2>4. \A i \in 1 .. Len(queue'[k]) :
          heard'[k] < queue'[k][i].at /\ queue'[k][i].at <= sent
    BY <1>3, <2>1, <2>2, <2>3
  <2>5. ASSUME NEW i \in 1 .. Len(queue'[k]), NEW j \in 1 .. Len(queue'[k]), i < j
        PROVE  queue'[k][i].at < queue'[k][j].at
    <3>1. i + 1 < j + 1
      BY <1>2, <1>4, <2>5
    <3> QED BY <2>1, <2>2, <3>1
  <2>6. heard'[k] <= sent
    BY <1>3, <2>1, <2>3
  <2>7. ASSUME ~missed[k]
        PROVE  /\ heard'[k] + Len(queue'[k]) = sent
               /\ \A i \in 1 .. Len(queue'[k]) : queue'[k][i].at = heard'[k] + i
    <3>1. heard'[k] = heard[k] + 1 /\ heard[k] + Len(queue[k]) = sent
      BY <1>3, <2>1, <2>3, <2>7
    <3>2. ASSUME NEW i \in 1 .. Len(queue'[k])
          PROVE  queue'[k][i].at = heard'[k] + i
      <4>1. i + 1 \in 1 .. Len(queue[k]) /\ queue'[k][i] = queue[k][i + 1] /\ i \in Nat
        BY <2>2
      <4>2. queue[k][i + 1].at = heard[k] + (i + 1)
        BY <2>1, <2>7, <4>1
      <4>3. heard[k] \in Nat /\ i \in Nat /\ heard'[k] = heard[k] + 1
        BY <1>2, <3>1
      <4>4. heard[k] + (i + 1) = heard'[k] + i
        BY <4>3
      <4> QED BY <4>1, <4>2, <4>4
    <3> QED BY <1>2, <1>4, <3>1, <3>2
  <2> QED BY <2>4, <2>5, <2>6, <2>7
<1> QED BY <1>1, <1>5, <1>6 DEF Sequential

LEMMA StepSequential == Calm /\ Sequential /\ [Next]_vars => Sequential'
<1> SUFFICES ASSUME Calm, Sequential, [Next]_vars PROVE Sequential'
  OBVIOUS
<1> USE DEF ring, streams, letters, page, pages
<1>1. ASSUME NEW bad \in BOOLEAN, Publish(bad) PROVE Sequential'
  <2> DEFINE m == [at |-> sent + 1, reload |-> FALSE]
  <2>1. m \in Message /\ m.at = sent + 1
    BY DEF Calm, TypeOK, Message
  <2>2. Send(m) /\ chan' = chan
    BY <1>1 DEF Publish
  <2> HIDE DEF m
  <2> QED BY <2>1, <2>2, SendSequential
<1>2. ASSUME NEW r \in Reloaders, Swap(r), swap[r] = "stored" PROVE Sequential'
  <2> DEFINE m == [at |-> sent + 1, reload |-> TRUE]
  <2>1. m \in Message /\ m.at = sent + 1
    BY DEF Calm, TypeOK, Message
  <2>2. Send(m) /\ chan' = chan
    BY <1>2 DEF Swap
  <2> HIDE DEF m
  <2> QED BY <2>1, <2>2, SendSequential
<1>3. ASSUME NEW r \in Reloaders, Swap(r), swap[r] # "stored" PROVE Sequential'
  <2>1. UNCHANGED <<chan, letters>>
    BY <1>3 DEF Swap
  <2> QED BY <2>1 DEF Sequential
<1>4. CASE Clear
  BY <1>4 DEF Clear, Sequential
<1>5. CASE Close
  BY <1>5 DEF Close, Sequential, Calm, TypeOK
<1>6. ASSUME NEW k \in Listeners, Subscribe(k) PROVE Sequential'
  <2>1. /\ queue'[k] = <<>> /\ heard'[k] = sent /\ sent' = sent
        /\ \A l \in Listeners \ {k} : /\ queue'[l] = queue[l] /\ heard'[l] = heard[l]
                                     /\ missed'[l] = missed[l] /\ chan'[l] = chan[l]
    BY <1>6 DEF Subscribe, Calm, TypeOK
  <2>2. sent \in Nat
    BY DEF Calm, TypeOK
  <2> QED BY <2>1, <2>2 DEF Sequential
<1>7. ASSUME NEW k \in Listeners, Receive(k) PROVE Sequential'
  BY <1>7, ReceiveSequential
<1>8. ASSUME NEW k \in Listeners, StreamEnds(k) \/ ClientLeaves(k) PROVE Sequential'
  BY <1>8 DEF StreamEnds, ClientLeaves, Sequential
<1>9. ASSUME NEW k \in Listeners, Unsubscribe(k) PROVE Sequential'
  <2>1. /\ chan'[k] # "open" /\ sent' = sent
        /\ \A l \in Listeners \ {k} : /\ queue'[l] = queue[l] /\ heard'[l] = heard[l]
                                     /\ missed'[l] = missed[l] /\ chan'[l] = chan[l]
    BY <1>9 DEF Unsubscribe, Calm, TypeOK, Registered
  <2> QED BY <2>1 DEF Sequential
<1>10. ASSUME NEW k \in Listeners, Load(k) \/ Read(k) \/ Arrive(k) PROVE Sequential'
  BY <1>10 DEF Load, Read, Arrive, Sequential
<1>11. CASE UNCHANGED vars
  BY <1>11 DEF vars, Sequential
<1> QED BY <1>1, <1>2, <1>3, <1>4, <1>5, <1>6, <1>7, <1>8, <1>9, <1>10, <1>11 DEF Next

\* A listener gets what was sent in order, once, and all of it unless its buffer
\* was full, for any size of the buffer and any number of listeners.
THEOREM StreamOrder == Spec => []InOrder
<1>1. Init => Calm /\ Sequential
  BY InitTyped DEF Init, Calm, Registered, NoPanic, Sequential
<1>2. Calm /\ Sequential /\ [Next]_vars => (Calm /\ Sequential)'
  BY StepTyped, StepCalm, StepSequential DEF Calm
<1>3. Calm /\ Sequential => InOrder
  BY DEF Sequential, InOrder
<1> QED BY <1>1, <1>2, <1>3, PTL DEF Spec

-----------------------------------------------------------------------------
(* Pages.                                                                   *)

Waiting(l) == \E i \in 1 .. Len(queue[l]) : queue[l][i].reload

\* A page that has not been misled is up to date or will be once the answer is there,
\* or has asked, or is going to hear that it must.
Told ==
  /\ \A l \in Listeners : chan[l] = "open" /\ ~misled[l] =>
       /\ shown[l] \in Nat
       /\ \/ Showing(l) = project \/ due[l] \/ Waiting(l)
          \/ \E r \in Reloaders : swap[r] = "stored"
  /\ \A l \in Listeners : due[l] \/ coming[l] # None => shown[l] \in Nat

LEMMA PublishTold ==
  ASSUME Calm, Told, NEW m \in Message, Send(m),
         UNCHANGED <<chan, pages, project, swap>>
  PROVE  Told'
<1>1. ASSUME NEW l \in Listeners, chan[l] = "open", Waiting(l)
      PROVE  Waiting(l)'
  <2>1. queue[l] \in Seq(Message) /\ Len(queue[l]) \in Nat
    BY Letters DEF Calm
  <2>2. CASE queue'[l] = Append(queue[l], m)
    BY <1>1, <2>1, <2>2 DEF Waiting
  <2>3. CASE queue'[l] = queue[l]
    BY <1>1, <2>3 DEF Waiting
  <2> QED BY <1>1, <2>2, <2>3, SendOpen
<1> QED BY <1>1 DEF Told, Showing, page, pages

LEMMA AnnounceTold ==
  ASSUME Calm, Told, NEW m \in Message, m.reload, Send(m),
         misled' = [l \in Listeners |-> misled[l] \/ Full(l)],
         UNCHANGED <<chan, page>>
  PROVE  Told'
<1>1. ASSUME NEW l \in Listeners, chan[l] = "open", ~misled'[l]
      PROVE  Waiting(l)' /\ ~misled[l]
  <2>1. ~misled[l] /\ ~Full(l)
    BY <1>1
  <2>2. queue'[l] = Append(queue[l], m)
    BY <1>1, <2>1, SendOpen
  <2>3. queue[l] \in Seq(Message) /\ Len(queue[l]) \in Nat
    BY Letters DEF Calm
  <2>4. Len(queue'[l]) = Len(queue[l]) + 1 /\ queue'[l][Len(queue[l]) + 1] = m
    BY <2>2, <2>3
  <2> QED BY <2>1, <2>3, <2>4 DEF Waiting
<1> QED BY <1>1 DEF Told, Showing, page

LEMMA ReceiveTold ==
  ASSUME Calm, Told, NEW k \in Listeners, Receive(k)
  PROVE  Told'
<1>1. UNCHANGED <<chan, coming, shown, project, swap>>
  BY DEF Receive, streams
<1>2. queue[k] \in Seq(Message) /\ queue[k] # <<>>
  BY Letters DEF Receive, Calm
<1>3. /\ queue'[k] = Tail(queue[k])
      /\ due'[k] = (due[k] \/ (queue[k][1].reload /\ shown[k] # None /\ coming[k] = None))
      /\ misled'[k] = (misled[k] \/ (queue[k][1].reload /\ coming[k] # None))
      /\ \A l \in Listeners \ {k} :
           queue'[l] = queue[l] /\ due'[l] = due[l] /\ misled'[l] = misled[l]
  BY <1>2 DEF Receive, Calm, TypeOK
<1>4. ASSUME chan[k] = "open", ~misled'[k], Waiting(k)
      PROVE  due'[k] \/ Waiting(k)'
  <2>1. shown[k] \in Nat /\ shown[k] # None
    BY <1>3, <1>4, HubAssumption DEF Told, Calm, TypeOK
  <2>2. PICK i \in 1 .. Len(queue[k]) : queue[k][i].reload
    BY <1>4 DEF Waiting
  <2>3. CASE i = 1
    BY <1>3, <1>4, <2>1, <2>2, <2>3
  <2>4. CASE i # 1
    <3>1. i - 1 \in 1 .. Len(Tail(queue[k])) /\ Tail(queue[k])[i - 1] = queue[k][i]
      BY <1>2, <2>4
    <3> QED BY <1>3, <2>2, <3>1 DEF Waiting
  <2> QED BY <2>3, <2>4
<1>5. due'[k] => shown[k] \in Nat
  BY <1>3 DEF Told, Calm, TypeOK
<1>6. ASSUME NEW l \in Listeners, l # k
      PROVE  (Waiting(l)' <=> Waiting(l)) /\ due'[l] = due[l] /\ misled'[l] = misled[l]
  BY <1>3, <1>6 DEF Waiting
<1>7. (due[k] => due'[k]) /\ (~misled'[k] => ~misled[k])
  BY <1>3 DEF Calm, TypeOK
<1> QED BY <1>1, <1>4, <1>5, <1>6, <1>7 DEF Told, Showing

LEMMA StepTold == Calm /\ Calm' /\ Told /\ [Next]_vars => Told'
<1> SUFFICES ASSUME Calm, Calm', Told, [Next]_vars PROVE Told'
  OBVIOUS
<1> USE DEF ring, streams, letters, page, pages
<1>1. ASSUME NEW bad \in BOOLEAN, Publish(bad) PROVE Told'
  <2> DEFINE m == [at |-> sent + 1, reload |-> FALSE]
  <2>1. m \in Message
    BY DEF Calm, TypeOK, Message
  <2>2. Send(m) /\ UNCHANGED <<chan, pages, project, swap>>
    BY <1>1 DEF Publish
  <2> HIDE DEF m
  <2> QED BY <2>1, <2>2, PublishTold
<1>2. ASSUME NEW r \in Reloaders, Swap(r), swap[r] = "stored" PROVE Told'
  <2> DEFINE m == [at |-> sent + 1, reload |-> TRUE]
  <2>1. m \in Message /\ m.reload
    BY DEF Calm, TypeOK, Message
  <2>2. /\ Send(m) /\ UNCHANGED <<chan, page>>
        /\ misled' = [l \in Listeners |-> misled[l] \/ Full(l)]
    BY <1>2 DEF Swap
  <2> HIDE DEF m
  <2> QED BY <2>1, <2>2, AnnounceTold
<1>3. ASSUME NEW r \in Reloaders, Swap(r), swap[r] # "stored" PROVE Told'
  <2>1. swap'[r] = "stored" /\ UNCHANGED <<chan, pages>>
    BY <1>3 DEF Swap, Calm, TypeOK
  <2> QED BY <2>1 DEF Told
<1>4. CASE Clear
  BY <1>4 DEF Clear, Told, Waiting, Showing
<1>5. CASE Close
  BY <1>5 DEF Close, Told, Waiting, Showing, Calm, TypeOK
<1>6. ASSUME NEW k \in Listeners, Subscribe(k) PROVE Told'
  <2>1. /\ misled'[k] = (Showing(k) # project /\ ~due[k])
        /\ UNCHANGED <<project, swap, page>>
        /\ \A l \in Listeners \ {k} : /\ queue'[l] = queue[l] /\ chan'[l] = chan[l]
                                     /\ misled'[l] = misled[l]
    BY <1>6 DEF Subscribe, Calm, TypeOK
  <2>2. project \in Nat
    BY DEF Calm, TypeOK
  <2> QED BY <2>1, <2>2 DEF Told, Waiting, Showing
<1>7. ASSUME NEW k \in Listeners, Receive(k) PROVE Told'
  BY <1>7, ReceiveTold
<1>8. ASSUME NEW k \in Listeners, StreamEnds(k) \/ ClientLeaves(k) PROVE Told'
  BY <1>8 DEF StreamEnds, ClientLeaves, Told, Waiting, Showing
<1>9. ASSUME NEW k \in Listeners, Unsubscribe(k) PROVE Told'
  <2>1. /\ chan'[k] # "open" /\ UNCHANGED <<project, swap, page>>
        /\ \A l \in Listeners \ {k} : /\ queue'[l] = queue[l] /\ chan'[l] = chan[l]
                                     /\ misled'[l] = misled[l]
    BY <1>9 DEF Unsubscribe, Calm, TypeOK, Registered
  <2> QED BY <2>1 DEF Told, Waiting, Showing
<1>10. ASSUME NEW k \in Listeners, Load(k) \/ Read(k) PROVE Told'
  <2>1. /\ Showing(k)' = project /\ UNCHANGED <<chan, queue, project, swap>>
        /\ ~due'[k] /\ shown'[k] \in Nat
        /\ \A l \in Listeners \ {k} :
             UNCHANGED <<shown[l], due[l], coming[l], misled[l]>>
    <3>1. CASE Load(k)
      BY <3>1 DEF Load, Calm, TypeOK, Showing
    <3>2. CASE Read(k)
      BY <3>2, HubAssumption DEF Read, Calm, TypeOK, Told, Showing
    <3> QED BY <1>10, <3>1, <3>2
  <2> QED BY <2>1 DEF Told, Waiting, Showing
<1>11. ASSUME NEW k \in Listeners, Arrive(k) PROVE Told'
  <2>1. /\ Showing(k)' = Showing(k) /\ shown'[k] \in Nat
        /\ UNCHANGED <<chan, queue, project, swap, due, misled>>
        /\ \A l \in Listeners \ {k} : UNCHANGED <<shown[l], coming[l]>>
    BY <1>11 DEF Arrive, Calm, TypeOK, Showing
  <2> QED BY <2>1 DEF Told, Waiting, Showing
<1>12. CASE UNCHANGED vars
  BY <1>12 DEF vars, Told, Waiting, Showing
<1> QED BY <1>1, <1>2, <1>3, <1>4, <1>5, <1>6, <1>7, <1>8, <1>9, <1>10, <1>11, <1>12 DEF Next

\* A connected page that has not been misled shows the project of the last
\* reload once it has heard and fetched everything, however many goroutines
\* reload at once and however the buffers fill.
THEOREM PagesFollow == Spec => []PageFollows
<1>1. Init => Calm /\ Told
  BY InitTyped DEF Init, Calm, Registered, NoPanic, Told
<1>2. Calm /\ Told /\ [Next]_vars => (Calm /\ Told)'
  BY StepTyped, StepCalm, StepTold DEF Calm
<1>3. Calm /\ Told => PageFollows
  BY DEF Calm, TypeOK, Told, Waiting, Showing, PageFollows
<1> QED BY <1>1, <1>2, <1>3, PTL DEF Spec
-----------------------------------------------------------------------------
(* That every stream ends is a matter of fairness, and TLC's (StreamsEnd).  *)
(* What the code owes to it is not: a stream of a closed hub always has its *)
(* next step, and has at most Buffer + 2 of them to make.                   *)

\* A stream that is on has a message to hand on or reads its channel as closed.
StreamsGoOn ==
  closed => \A l \in Listeners : pc[l] = "streaming" => queue[l] # <<>> \/ chan[l] = "closed"

\* What a stream has still to do: its messages, the end of the channel, stop().
Rest(l) ==
  IF pc[l] = "away" THEN 0 ELSE IF pc[l] = "leaving" THEN 1 ELSE 2 + Len(queue[l])

\* Once the hub is closed a stream's step brings it nearer to its end and
\* nobody else's takes it away from there.
StreamsShorten ==
  closed => \A l \in Listeners :
    /\ Receive(l) \/ StreamEnds(l) \/ ClientLeaves(l) \/ Unsubscribe(l) => Rest(l)' < Rest(l)
    /\ pc[l] # "away" => Rest(l)' <= Rest(l)

Connected == \A l \in Listeners : pc[l] # "away" => chan[l] # "none"

LEMMA StepConnected == Calm /\ Connected /\ [Next]_vars => Connected'
<1> SUFFICES ASSUME Calm, Connected, [Next]_vars PROVE Connected'
  OBVIOUS
<1>1. CASE UNCHANGED streams
  BY <1>1 DEF streams, Connected
<1>2. CASE Close
  BY <1>2 DEF Close, Connected, Calm, TypeOK
<1>3. ASSUME NEW k \in Listeners, Subscribe(k) PROVE Connected'
  BY <1>3 DEF Subscribe, Connected, Calm, TypeOK
<1>4. ASSUME NEW k \in Listeners, StreamEnds(k) \/ ClientLeaves(k) PROVE Connected'
  BY <1>4 DEF StreamEnds, ClientLeaves, Connected, Calm, TypeOK
<1>5. ASSUME NEW k \in Listeners, Unsubscribe(k) PROVE Connected'
  BY <1>5 DEF Unsubscribe, Connected, Calm, TypeOK
<1> QED
  BY <1>1, <1>2, <1>3, <1>4, <1>5
     DEF Next, Publish, Swap, Clear, Receive, Load, Read, Arrive, vars

\* A closed hub has no listeners, so nothing is sent to a stream any more.
LEMMA NothingComes ==
  ASSUME Calm, closed, [Next]_vars, NEW l \in Listeners, pc[l] # "away"
  PROVE  \/ Receive(l) \/ StreamEnds(l) \/ ClientLeaves(l) \/ Unsubscribe(l)
         \/ queue'[l] = queue[l] /\ pc'[l] = pc[l]
<1>1. listeners = {}
  BY DEF Calm, Registered
<1>2. ASSUME NEW m, Send(m) PROVE queue'[l] = queue[l]
  BY <1>1, <1>2 DEF Send
<1>3. CASE \E bad \in BOOLEAN : Publish(bad)
  BY <1>2, <1>3 DEF Publish, streams
<1>4. CASE \E r \in Reloaders : Swap(r)
  BY <1>2, <1>4 DEF Swap, streams, letters
<1>5. CASE Clear \/ Close \/ UNCHANGED vars
  BY <1>5 DEF Clear, Close, vars, streams, letters
<1>6. ASSUME NEW k \in Listeners,
             \/ Subscribe(k) \/ Receive(k) \/ StreamEnds(k) \/ ClientLeaves(k)
             \/ Unsubscribe(k) \/ Load(k) \/ Read(k) \/ Arrive(k)
      PROVE  \/ Receive(l) \/ StreamEnds(l) \/ ClientLeaves(l) \/ Unsubscribe(l)
             \/ queue'[l] = queue[l] /\ pc'[l] = pc[l]
  <2>1. CASE k = l
    <3>1. ~Subscribe(l)
      BY DEF Subscribe
    <3>2. Load(l) \/ Read(l) \/ Arrive(l) => queue'[l] = queue[l] /\ pc'[l] = pc[l]
      BY DEF Load, Read, Arrive, streams, letters
    <3> QED
      BY <1>6, <2>1, <3>1, <3>2
  <2>2. CASE k # l
    BY <1>6, <2>2 DEF Subscribe, Receive, StreamEnds, ClientLeaves, Unsubscribe, Load, Read,
                      Arrive, streams, letters, Calm, TypeOK
  <2> QED
    BY <2>1, <2>2
<1> QED
  BY <1>3, <1>4, <1>5, <1>6 DEF Next

LEMMA StreamStep ==
  ASSUME Calm, NEW l \in Listeners,
         Receive(l) \/ StreamEnds(l) \/ ClientLeaves(l) \/ Unsubscribe(l)
  PROVE  Rest(l)' < Rest(l)
<1>1. queue[l] \in Seq(Message) /\ Len(queue[l]) \in Nat
  BY DEF Calm, TypeOK
<1>2. CASE Receive(l)
  <2>1. /\ queue'[l] = Tail(queue[l]) /\ queue[l] # <<>>
        /\ pc[l] = "streaming" /\ pc'[l] = "streaming"
    BY <1>2 DEF Receive, streams, Calm, TypeOK
  <2>2. Len(queue'[l]) = Len(queue[l]) - 1
    BY <1>1, <2>1
  <2> QED
    BY <1>1, <2>1, <2>2 DEF Rest
<1>3. CASE StreamEnds(l) \/ ClientLeaves(l)
  <2>1. pc[l] = "streaming" /\ pc'[l] = "leaving"
    BY <1>3 DEF StreamEnds, ClientLeaves, Calm, TypeOK
  <2> QED
    BY <1>1, <2>1 DEF Rest
<1>4. CASE Unsubscribe(l)
  <2>1. pc[l] = "leaving" /\ pc'[l] = "away"
    BY <1>4 DEF Unsubscribe, Calm, TypeOK
  <2> QED
    BY <2>1 DEF Rest
<1> QED
  BY <1>2, <1>3, <1>4

LEMMA AlwaysConnected == Spec => [](Calm /\ Connected)
<1>1. Init => Calm /\ Connected
  BY InitTyped DEF Init, Calm, Registered, NoPanic, Connected
<1>2. Calm /\ Connected /\ [Next]_vars => (Calm /\ Connected)'
  BY StepTyped, StepCalm, StepConnected DEF Calm
<1> QED BY <1>1, <1>2, PTL DEF Spec

\* No stream of a closed hub waits for a message, those that joined afterwards
\* included.
THEOREM ClosedStreamsGoOn == Spec => []StreamsGoOn
<1>1. Calm /\ Connected => StreamsGoOn
  BY DEF Calm, TypeOK, Registered, Connected, StreamsGoOn
<1> QED BY <1>1, AlwaysConnected, PTL

\* It hands on what its channel holds and leaves: requests and reloads that go
\* on meanwhile add nothing, for any number of them.
THEOREM ClosedStreamsShorten == Spec => [][StreamsShorten]_vars
<1>1. Calm /\ Calm' /\ [Next]_vars => [StreamsShorten]_vars
  <2> SUFFICES ASSUME Calm, Calm', [Next]_vars, closed, NEW l \in Listeners
               PROVE  /\ \/ Receive(l) \/ StreamEnds(l) \/ ClientLeaves(l) \/ Unsubscribe(l)
                         => Rest(l)' < Rest(l)
                      /\ pc[l] # "away" => Rest(l)' <= Rest(l)
    BY DEF StreamsShorten
  <2>1. Rest(l) \in Nat /\ Rest(l)' \in Nat
    <3>1. queue[l] \in Seq(Message) /\ queue'[l] \in Seq(Message)
      BY DEF Calm, TypeOK
    <3>2. Len(queue[l]) \in Nat /\ Len(queue'[l]) \in Nat
      BY <3>1
    <3> QED
      BY <3>2 DEF Rest
  <2>2. queue'[l] = queue[l] /\ pc'[l] = pc[l] => Rest(l)' = Rest(l)
    BY DEF Rest
  <2> QED
    BY <2>1, <2>2, StreamStep, NothingComes
<1> QED BY <1>1, AlwaysConnected, PTL DEF Spec
=============================================================================
