------------------------ MODULE MachinaCollectionsProofs ------------------------
(***************************************************************************)
(* What holds of MachinaCollections for any callers, routes, ids, data     *)
(* files and numbers of calls, resets and reloads: its type invariant,     *)
(* that the lock keeps an item found where it is (FoundStays), that no id  *)
(* comes to be in a collection twice (IdsUnique), that changes last        *)
(* (ChangesLast), and what the code owes to CallsEnd.                      *)
(***************************************************************************)
EXTENDS MachinaCollections, SequenceTheorems, WellFoundedInduction, TLAPS

-----------------------------------------------------------------------------
(* The inductive invariant.                                                 *)

\* A request that has drawn its number.
Drawn(c) == caller[c].route # None /\ caller[c].at \in {"numbered", "fetched", "reading"}

\* One of those that will make an id from it.
Makes(c) == Drawn(c) /\ caller[c].kind = "create" /\ caller[c].id = None

Own(c) == Made(caller[c].route, caller[c].number)

\* What a caller holds is there, and the lock is with the one that waits for its body.
Holds(c) ==
  /\ caller[c].at # "idle" => caller[c].data \in Data
  /\ caller[c].at = "bound" \/ (caller[c].at # "idle" /\ caller[c].kind = "create")
     => caller[c].route \in Routes
  /\ caller[c].at \in {"fetched", "reading"}
     => caller[c].coll # 0 /\ caller[c].since <= heap[caller[c].coll].since
  /\ caller[c].at = "reading" => heap[caller[c].coll].holder = c

Held == \A c \in Callers : Holds(c)

\* The collection in force was made after the last reset.
InForce ==
  /\ current # 0 => heap[current].since = resets
  /\ \A k \in 1 .. Len(heap) : heap[k].since <= resets

\* Between two resets a number is drawn once and makes one id.
Numbers ==
  /\ \A c \in Callers : Drawn(c) /\ caller[c].since = resets
       => caller[c].number <= calls[caller[c].route]
  /\ \A c, d \in Callers :
       c # d /\ Drawn(c) /\ Drawn(d) /\ caller[c].since = caller[d].since
       => Own(c) # Own(d)
  /\ \A m \in made : m[2] <= calls[m[1]]
  /\ \A c \in Callers : Makes(c) /\ caller[c].since = resets => Own(c) \notin made

\* A collection has the ids that were made, and those still to be made it has not.
Known(k) == heap[k].since = resets =>
  \A i \in 1 .. Len(heap[k].items) : heap[k].items[i] \in Ids \cup made

Awaited(k) == \A c \in Callers : Makes(c) /\ caller[c].since = heap[k].since =>
  \A i \in 1 .. Len(heap[k].items) : heap[k].items[i] # Own(c)

Clean == \A k \in 1 .. Len(heap) : ~heap[k].late => Known(k) /\ Awaited(k)

IInv == TypeOK /\ Held /\ FoundStays /\ InForce /\ Numbers /\ Clean

-----------------------------------------------------------------------------
(* Sequences of ids.                                                        *)

\* Find finds the id if it is there.
LEMMA FindPlace ==
  ASSUME NEW items \in Seq(Id), NEW id
  PROVE  /\ Find(items, id) \in 0 .. Len(items)
         /\ Find(items, id) = 0 <=> \A i \in 1 .. Len(items) : items[i] # id
         /\ Find(items, id) # 0 => items[Find(items, id)] = id
<1>1. Places(items, id) \subseteq Nat /\ 0 \notin Places(items, id)
  BY DEF Places
<1>2. ASSUME Places(items, id) # {}
      PROVE  \E i \in Places(items, id) : \A j \in Places(items, id) : i <= j
  <2>1. PICK i \in Places(items, id) :
          \A j \in Places(items, id) : ~ (<<j, i>> \in OpToRel(<, Nat))
    BY <1>1, <1>2, WFMin, NatLessThanWellFounded, Zenon
  <2>2. \A j \in Places(items, id) : ~ (j < i)
    BY <1>1, <2>1, Zenon DEF OpToRel
  <2>. QED  BY <1>1, <2>2
<1>3. ASSUME Places(items, id) # {}
      PROVE  Find(items, id) \in Places(items, id)
  <2>. DEFINE First(i) == \A j \in Places(items, id) : i <= j
  <2>1. \E i \in Places(items, id) : First(i)
    BY <1>2, <1>3
  <2>2. (CHOOSE i \in Places(items, id) : First(i)) \in Places(items, id)
    <3>. HIDE DEF First
    <3>. QED  BY <2>1, Zenon
  <2>. QED  BY <1>3, <2>2 DEF Find
<1>4. CASE Places(items, id) = {}
  <2>1. Find(items, id) = 0
    BY <1>4 DEF Find
  <2>2. \A i \in 1 .. Len(items) : items[i] # id
    BY <1>4 DEF Places
  <2>. QED  BY <2>1, <2>2
<1>5. CASE Places(items, id) # {}
  <2>1. Find(items, id) \in 1 .. Len(items) /\ items[Find(items, id)] = id
    BY <1>3, <1>5 DEF Places
  <2>. QED  BY <2>1
<1>. QED  BY <1>4, <1>5

\* An item is taken out and the rest stays in order.
LEMMA WithoutOne ==
  ASSUME NEW items \in Seq(Id), NEW i \in 1 .. Len(items)
  PROVE  /\ Without(items, i) \in Seq(Id)
         /\ Len(Without(items, i)) = Len(items) - 1
         /\ \A j \in 1 .. Len(items) - 1 :
              Without(items, i)[j] = IF j < i THEN items[j] ELSE items[j + 1]
<1>. DEFINE a == SubSeq(items, 1, i - 1)
           b == SubSeq(items, i + 1, Len(items))
<1>1. /\ a \in Seq(Id) /\ Len(a) = i - 1
      /\ \A j \in 1 .. i - 1 : a[j] = items[j]
  <2>1. \A j \in 1 .. i - 1 : items[j] \in Id
    OBVIOUS
  <2>2. /\ a \in Seq(Id) /\ Len(a) = (IF 1 <= i - 1 THEN (i - 1) - 1 + 1 ELSE 0)
        /\ \A j \in 1 .. (i - 1) - 1 + 1 : a[j] = items[1 + j - 1]
    BY <2>1, 1 \in Int, i - 1 \in Int, SubSeqProperties
  <2>. QED  BY <2>2
<1>2. /\ b \in Seq(Id) /\ Len(b) = Len(items) - i
      /\ \A j \in 1 .. Len(items) - i : b[j] = items[i + j]
  <2>1. \A j \in i + 1 .. Len(items) : items[j] \in Id
    OBVIOUS
  <2>2. i + 1 \in Int /\ Len(items) \in Int
    OBVIOUS
  <2>3. /\ b \in Seq(Id)
        /\ Len(b) = (IF i + 1 <= Len(items) THEN Len(items) - (i + 1) + 1 ELSE 0)
        /\ \A j \in 1 .. Len(items) - (i + 1) + 1 : b[j] = items[(i + 1) + j - 1]
    BY <2>1, <2>2, SubSeqProperties
  <2>. QED  BY <2>3
<1>3. /\ a \o b \in Seq(Id) /\ Len(a \o b) = Len(a) + Len(b)
      /\ \A j \in 1 .. Len(a) + Len(b) :
           (a \o b)[j] = IF j <= Len(a) THEN a[j] ELSE b[j - Len(a)]
  <2>. HIDE DEF a, b
  <2>. QED  BY <1>1, <1>2, ConcatProperties
<1>4. Without(items, i) = a \o b
  BY DEF Without
<1>. HIDE DEF a, b
<1>5. Len(a \o b) = Len(items) - 1
  BY <1>1, <1>2, <1>3
<1>6. ASSUME NEW j \in 1 .. Len(items) - 1
      PROVE  (a \o b)[j] = IF j < i THEN items[j] ELSE items[j + 1]
  <2>1. CASE j < i
    BY <1>1, <1>2, <1>3, <2>1
  <2>2. CASE ~(j < i)
    <3>1. (a \o b)[j] = b[j - (i - 1)] /\ j - (i - 1) \in 1 .. Len(items) - i
      BY <1>1, <1>2, <1>3, <2>2
    <3>2. b[j - (i - 1)] = items[i + (j - (i - 1))] /\ i + (j - (i - 1)) = j + 1
      BY <1>2, <3>1
    <3>. QED  BY <2>2, <3>1, <3>2
  <2>. QED  BY <2>1, <2>2
<1>. QED  BY <1>3, <1>4, <1>5, <1>6

\* Every other item is still there.
LEMMA WithoutOthers ==
  ASSUME NEW items \in Seq(Id), NEW i \in 1 .. Len(items), NEW m \in 1 .. Len(items), m # i
  PROVE  \E j \in 1 .. Len(Without(items, i)) : Without(items, i)[j] = items[m]
<1>1. CASE m < i
  <2>1. m \in 1 .. Len(items) - 1
    BY <1>1
  <2>2. Without(items, i)[m] = items[m]
    BY <1>1, <2>1, WithoutOne
  <2>. QED  BY <2>1, <2>2, WithoutOne
<1>2. CASE i < m
  <2>1. m - 1 \in 1 .. Len(items) - 1 /\ ~(m - 1 < i) /\ (m - 1) + 1 = m
    BY <1>2
  <2>2. Without(items, i)[m - 1] = items[m]
    BY <2>1, WithoutOne
  <2>. QED  BY <2>1, <2>2, WithoutOne
<1>. QED  BY <1>1, <1>2

\* An id that more than one item has is in two places.
LEMMA TwiceOf ==
  ASSUME NEW items, NEW id
  PROVE  id \in Twice(items) <=>
           \E i, j \in 1 .. Len(items) : i # j /\ items[i] = id /\ items[j] = id
BY DEF Twice

\* What is left has no id twice that was not there twice.
LEMMA WithoutTwice ==
  ASSUME NEW items \in Seq(Id), NEW i \in 1 .. Len(items)
  PROVE  /\ Twice(Without(items, i)) \subseteq Twice(items)
         /\ \A j \in 1 .. Len(Without(items, i)) :
              \E m \in 1 .. Len(items) : Without(items, i)[j] = items[m]
<1>. DEFINE w == Without(items, i)
           at(j) == IF j < i THEN j ELSE j + 1
<1>1. /\ Len(w) = Len(items) - 1
      /\ \A j \in 1 .. Len(items) - 1 : at(j) \in 1 .. Len(items) /\ w[j] = items[at(j)]
  BY WithoutOne
<1>2. \A j, m \in 1 .. Len(items) - 1 : at(j) = at(m) => j = m
  OBVIOUS
<1>. HIDE DEF w, at
<1>3. Twice(w) \subseteq Twice(items)
  <2>1. SUFFICES ASSUME NEW id, id \in Twice(w)
                 PROVE  id \in Twice(items)
    OBVIOUS
  <2>2. PICK j, m \in 1 .. Len(w) : j # m /\ w[j] = id /\ w[m] = id
    BY <2>1, TwiceOf
  <2>3. /\ at(j) \in 1 .. Len(items) /\ at(m) \in 1 .. Len(items) /\ at(j) # at(m)
        /\ items[at(j)] = id /\ items[at(m)] = id
    BY <1>1, <1>2, <2>2
  <2>. QED  BY <2>3, TwiceOf
<1>4. \A j \in 1 .. Len(w) : \E m \in 1 .. Len(items) : w[j] = items[m]
  BY <1>1
<1>. QED  BY <1>3, <1>4 DEF w

\* An id that no item has is not there twice when it has been added.
LEMMA AppendTwice ==
  ASSUME NEW items \in Seq(Id), NEW id \in Id, \A i \in 1 .. Len(items) : items[i] # id
  PROVE  Twice(Append(items, id)) \subseteq Twice(items)
<1>1. SUFFICES ASSUME NEW e, e \in Twice(Append(items, id))
               PROVE  e \in Twice(items)
  OBVIOUS
<1>2. PICK i, j \in 1 .. Len(Append(items, id)) :
        i # j /\ Append(items, id)[i] = e /\ Append(items, id)[j] = e
  BY <1>1, TwiceOf
<1>3. i \in 1 .. Len(items) /\ j \in 1 .. Len(items) /\ items[i] = e /\ items[j] = e
  BY <1>2
<1>. QED  BY <1>2, <1>3, TwiceOf

-----------------------------------------------------------------------------
(* Type correctness.                                                        *)

\* What a caller may be, with so many collections made and after so many resets.
CallerOK(r, size, n) ==
  /\ r \in [at : Steps, kind : Kinds, route : Routes \cup {None}, id : Id \cup {None},
            data : Data \cup {None}, number : Nat, since : 0 .. n,
            coll : 0 .. size, index : Nat]
  /\ r.at = "fetched" => r.coll # 0

\* A caller at rest is typed, and an id that a caller names is an id.
LEMMA IdleNamed ==
  ASSUME TypeOK
  PROVE  CallerOK(Idle, Len(heap), resets) /\ Named \subseteq Id
<1>1. CallerOK(Idle, Len(heap), resets)
  BY DEF TypeOK, CallerOK, Idle, Steps, Kinds
<1>2. \A k \in 1 .. Len(heap) : heap[k].items \in Seq(Id)
  <2>1. \A k \in 1 .. Len(heap) : heap[k] \in Collection
    BY DEF TypeOK
  <2>. QED  BY <2>1 DEF Collection
<1>3. \A k \in 1 .. Len(heap) : \A i \in 1 .. Len(heap[k].items) : heap[k].items[i] \in Id
  BY <1>2
<1>4. Ids \subseteq Id
  BY DEF Id
<1>. QED  BY <1>1, <1>3, <1>4 DEF Named

\* A number makes an id.
LEMMA MadeId ==
  ASSUME NEW r \in Routes, NEW n \in Nat
  PROVE  Made(r, n) \in Routes \X Nat /\ Made(r, n) \in Id /\ Made(r, n) \notin Ids
         /\ Made(r, n)[1] = r /\ Made(r, n)[2] = n
BY CollectionsAssumption DEF Made, Id

\* The collection a caller has is one of those made.
LEMMA HeldColl ==
  ASSUME IInv, NEW c \in Callers, caller[c].at \in {"fetched", "reading"}
  PROVE  caller[c].coll \in 1 .. Len(heap) /\ heap[caller[c].coll] \in Collection
<1>1. caller[c].coll \in 0 .. Len(heap) /\ caller[c].coll # 0
  BY DEF IInv, TypeOK, Held, Holds
<1>. QED  BY <1>1 DEF IInv, TypeOK

\* The heap only grows, and a collection keeps the data it was made from and when.
Grows ==
  /\ heap' \in Seq(Collection) /\ Len(heap) <= Len(heap')
  /\ \A k \in 1 .. Len(heap) :
       heap'[k].data = heap[k].data /\ heap'[k].since = heap[k].since

\* One collection is changed and keeps what it was made from.
LEMMA OneChanged ==
  ASSUME TypeOK, NEW k \in 1 .. Len(heap), NEW h \in Collection,
         h.data = heap[k].data, h.since = heap[k].since, heap' = [heap EXCEPT ![k] = h]
  PROVE  Grows /\ Len(heap') = Len(heap)
BY DEF Grows, TypeOK

\* No step makes a collection shorter or other than it is.
LEMMA GrowsStep ==
  ASSUME IInv, Next
  PROVE  Grows
<1>. USE DEF IInv
<1>1. CASE UNCHANGED heap
  BY <1>1 DEF Grows, TypeOK
<1>2. ASSUME NEW c \in Callers, Fetch(c)
      PROVE  Grows
  <2>1. CASE UNCHANGED heap
    BY <2>1 DEF Grows, TypeOK
  <2>2. CASE heap' = Append(heap, Fresh(caller[c].data))
    <3>1. caller[c].data \in Data
      BY <1>2 DEF Fetch, Held, Holds
    <3>2. Fresh(caller[c].data) \in Collection
      BY <3>1, CollectionsAssumption DEF Fresh, Collection, TypeOK
    <3>. QED  BY <2>2, <3>2 DEF Grows, TypeOK
  <2>. QED  BY <1>2, <2>1, <2>2 DEF Fetch
<1>3. ASSUME NEW c \in Callers, Answer(c)
      PROVE  Grows
  <2>. DEFINE k == caller[c].coll
              i == Find(heap[k].items, caller[c].id)
  <2>1. k \in 1 .. Len(heap) /\ heap[k] \in Collection
    BY <1>3, HeldColl DEF Answer
  <2>2. CASE UNCHANGED heap
    BY <2>2 DEF Grows, TypeOK
  <2>3. CASE i # 0 /\ heap' = [heap EXCEPT ![k].items = Without(@, i)]
    <3>1. heap[k].items \in Seq(Id)
      BY <2>1 DEF Collection
    <3>2. i \in 1 .. Len(heap[k].items)
      BY <2>3, <3>1, FindPlace
    <3>3. Without(heap[k].items, i) \in Seq(Id)
      BY <3>1, <3>2, WithoutOne
    <3>. HIDE DEF i, k
    <3>4. [heap[k] EXCEPT !.items = Without(@, i)] \in Collection
      BY <2>1, <3>3 DEF Collection
    <3>5. heap' = [heap EXCEPT ![k] = [heap[k] EXCEPT !.items = Without(@, i)]]
      BY <2>1, <2>3
    <3>. QED  BY <2>1, <3>4, <3>5, OneChanged DEF Collection
  <2>. QED  BY <1>3, <2>2, <2>3 DEF Answer
<1>4. ASSUME NEW c \in Callers, ReadBody(c)
      PROVE  Grows
  <2>. DEFINE k == caller[c].coll
  <2>1. k \in 1 .. Len(heap) /\ heap[k] \in Collection
    BY <1>4, HeldColl DEF ReadBody
  <2>2. heap' = [heap EXCEPT ![k].holder = c]
    BY <1>4 DEF ReadBody
  <2>. HIDE DEF k
  <2>3. heap' = [heap EXCEPT ![k] = [heap[k] EXCEPT !.holder = c]]
    BY <2>1, <2>2
  <2>4. [heap[k] EXCEPT !.holder = c] \in Collection
    BY <2>1 DEF Collection
  <2>. QED  BY <2>1, <2>3, <2>4, OneChanged DEF Collection
<1>5. ASSUME NEW c \in Callers, BadBody(c) \/ Update(c)
      PROVE  Grows
  <2>. DEFINE k == caller[c].coll
  <2>1. k \in 1 .. Len(heap) /\ heap[k] \in Collection
    BY <1>5, HeldColl DEF BadBody, Update
  <2>2. heap' = [heap EXCEPT ![k].holder = None]
    BY <1>5 DEF BadBody, Update
  <2>. HIDE DEF k
  <2>3. heap' = [heap EXCEPT ![k] = [heap[k] EXCEPT !.holder = None]]
    BY <2>1, <2>2
  <2>4. [heap[k] EXCEPT !.holder = None] \in Collection
    BY <2>1 DEF Collection
  <2>. QED  BY <2>1, <2>3, <2>4, OneChanged DEF Collection
<1>6. ASSUME NEW c \in Callers, Create(c)
      PROVE  Grows
  <2>. DEFINE k == caller[c].coll
              items == IF Conflicts(c) THEN heap[k].items
                                       ELSE Append(heap[k].items, NewId(c))
              h == [heap[k] EXCEPT !.holder = None, !.items = items,
                                   !.late = @ \/ Late(c)]
  <2>1. k \in 1 .. Len(heap) /\ heap[k] \in Collection
    BY <1>6, HeldColl DEF Create
  <2>2. NewId(c) \in Id
    <3>1. CASE caller[c].id = None
      BY <1>6, <3>1, MadeId DEF Create, NewId, Held, Holds, TypeOK
    <3>2. CASE caller[c].id # None
      BY <3>2 DEF NewId, TypeOK
    <3>. QED  BY <3>1, <3>2
  <2>3. items \in Seq(Id)
    BY <2>1, <2>2 DEF Collection
  <2>4. heap' = [heap EXCEPT ![k] = h]
    BY <1>6, <2>1 DEF Create
  <2>5. (heap[k].late \/ Late(c)) \in BOOLEAN
    BY <2>1 DEF Collection, Late
  <2>. HIDE DEF k, items
  <2>6. h \in Collection
    BY <2>1, <2>3, <2>5 DEF Collection
  <2>. QED  BY <2>1, <2>4, <2>6, OneChanged DEF Collection
<1>. QED  BY <1>1, <1>2, <1>3, <1>4, <1>5, <1>6
          DEF Next, GoOn, Serve, BodyCame, Request, Control, TakeNumber, TurnAway, Reset,
              SwapControl, SwapLive, memory, folder

\* One caller goes on, the others stay typed.
LEMMA OneTyped ==
  ASSUME TypeOK, Grows, NEW c \in Callers, NEW r, caller' = [caller EXCEPT ![c] = r],
         resets' = resets, CallerOK(r, Len(heap'), resets')
  PROVE  DOMAIN caller' = Callers /\ \A d \in Callers : CallerOK(caller'[d], Len(heap'), resets')
<1>1. DOMAIN caller' = Callers /\ caller'[c] = r
  BY DEF TypeOK
<1>2. ASSUME NEW d \in Callers, d # c
      PROVE  CallerOK(caller'[d], Len(heap'), resets')
  <2>1. caller'[d] = caller[d]
    BY <1>2 DEF TypeOK
  <2>2. CallerOK(caller[d], Len(heap), resets)
    BY DEF TypeOK, CallerOK
  <2>. QED  BY <2>1, <2>2 DEF CallerOK, Grows, TypeOK
<1>. QED  BY <1>1, <1>2

\* A caller that goes on stays typed.
LEMMA Onward ==
  ASSUME NEW size \in Nat, NEW n \in Nat, NEW q, CallerOK(q, size, n)
  PROVE  /\ \A number \in Nat :
              CallerOK([q EXCEPT !.at = "numbered", !.since = n, !.number = number], size, n)
         /\ \A coll \in 1 .. size :
              CallerOK([q EXCEPT !.at = "fetched", !.coll = coll], size, n)
         /\ \A index \in Nat :
              CallerOK([q EXCEPT !.at = "reading", !.index = index], size, n)
<1>1. ASSUME NEW number \in Nat
      PROVE  CallerOK([q EXCEPT !.at = "numbered", !.since = n, !.number = number], size, n)
  <2>1. n \in 0 .. n
    OBVIOUS
  <2>. QED  BY <2>1 DEF CallerOK, Steps
<1>2. ASSUME NEW coll \in 1 .. size
      PROVE  CallerOK([q EXCEPT !.at = "fetched", !.coll = coll], size, n)
  <2>1. coll \in 0 .. size /\ coll # 0
    OBVIOUS
  <2>. QED  BY <2>1 DEF CallerOK, Steps
<1>3. ASSUME NEW index \in Nat
      PROVE  CallerOK([q EXCEPT !.at = "reading", !.index = index], size, n)
  BY DEF CallerOK, Steps
<1>. QED  BY <1>1, <1>2, <1>3

\* It stays so when the heap has grown.
LEMMA Outlives ==
  ASSUME NEW size \in Nat, NEW more \in Nat, size <= more, NEW n \in Nat, NEW q,
         CallerOK(q, size, n)
  PROVE  CallerOK(q, more, n)
BY DEF CallerOK

\* Bounds and counters are numbers.
LEMMA Counts ==
  ASSUME TypeOK
  PROVE  /\ MaxCalls \in Nat /\ MaxResets \in Nat /\ MaxEdits \in Nat
         /\ begun \in Nat /\ resets \in Nat /\ edits \in Nat /\ Len(heap) \in Nat
         /\ handler \in Data /\ project \in Data
         /\ calls \in [Routes -> Nat] /\ current \in 0 .. Len(heap)
         /\ begun <= MaxCalls /\ resets <= MaxResets /\ edits <= MaxEdits
         /\ made \in SUBSET (Routes \X Nat)
         /\ DOMAIN caller = Callers
         /\ \A c \in Callers : CallerOK(caller[c], Len(heap), resets)
BY CollectionsAssumption DEF TypeOK, CallerOK

\* Every step keeps the types.
LEMMA TypeStep ==
  ASSUME IInv, Next
  PROVE  TypeOK'
<1>. USE DEF IInv
<1>1. Grows /\ CallerOK(Idle, Len(heap'), resets') /\ Named \subseteq Id
  <2>1. Grows
    BY GrowsStep
  <2>2. resets' \in Nat
    <3>1. CASE UNCHANGED resets
      BY <3>1, Counts
    <3>2. CASE Reset
      BY <3>2, Counts DEF Reset
    <3>. QED  BY <3>1, <3>2, ZenonT(30)
              DEF Next, GoOn, Serve, BodyCame, Request, Control, TakeNumber, TurnAway,
                  Fetch, Answer, ReadBody, BadBody, Update, Create, SwapControl, SwapLive
  <2>. QED  BY <2>1, <2>2, IdleNamed DEF Grows, CallerOK, Idle, TypeOK, Steps, Kinds
<1>. DEFINE Plain == /\ handler' \in Data /\ project' \in Data
                     /\ calls' \in [Routes -> Nat] /\ current' \in 0 .. Len(heap')
                     /\ begun' \in 0 .. MaxCalls /\ resets' \in 0 .. MaxResets
                     /\ edits' \in 0 .. MaxEdits /\ made' \in SUBSET (Routes \X Nat)
           Moved == /\ DOMAIN caller' = Callers
                    /\ \A d \in Callers : CallerOK(caller'[d], Len(heap'), resets')
<1>2. SUFFICES Plain /\ Moved
  BY <1>1 DEF TypeOK, Grows, CallerOK
<1>3. ASSUME NEW c \in Callers, NEW route \in Routes, NEW kind \in Kinds,
             NEW id \in Named \cup {None}, Request(c, kind, route, id)
      PROVE  Plain /\ Moved
  <2>. DEFINE r == [Idle EXCEPT !.at = "bound", !.kind = kind, !.route = route, !.id = id,
                                !.data = handler]
  <2>1. CallerOK(r, Len(heap'), resets')
    BY <1>1, <1>3 DEF Request, CallerOK, Idle, Steps, TypeOK, memory, folder
  <2>2. caller' = [caller EXCEPT ![c] = r] /\ UNCHANGED resets
    BY <1>3 DEF Request
  <2>. HIDE DEF r
  <2>3. Moved
    BY <1>1, <2>1, <2>2, OneTyped
  <2>4. Plain
    BY <1>3, Counts DEF Request, memory, folder
  <2>. QED  BY <2>3, <2>4
<1>4. ASSUME NEW c \in Callers, NEW kind \in Kinds, NEW id \in Named \cup {None},
             Control(c, kind, id)
      PROVE  Plain /\ Moved
  <2>. DEFINE r == [Idle EXCEPT !.at = "numbered", !.kind = kind, !.id = id,
                                !.data = project]
  <2>1. CallerOK(r, Len(heap'), resets')
    BY <1>1, <1>4 DEF Control, CallerOK, Idle, Steps, TypeOK, memory, folder
  <2>2. caller' = [caller EXCEPT ![c] = r] /\ UNCHANGED resets
    BY <1>4 DEF Control
  <2>. HIDE DEF r
  <2>3. Moved
    BY <1>1, <2>1, <2>2, OneTyped
  <2>4. Plain
    BY <1>4, Counts DEF Control, memory, folder
  <2>. QED  BY <2>3, <2>4
<1>5. ASSUME NEW c \in Callers, TakeNumber(c)
      PROVE  Plain /\ Moved
  <2>. DEFINE number == calls'[caller[c].route]
              r == [caller[c] EXCEPT !.at = "numbered", !.since = resets, !.number = number]
  <2>1. caller[c].route \in Routes /\ calls' \in [Routes -> Nat]
    BY <1>5 DEF TakeNumber, Held, Holds, TypeOK
  <2>2. caller' = [caller EXCEPT ![c].at = "numbered", ![c].since = resets,
                                 ![c].number = number]
    BY <1>5 DEF TakeNumber
  <2>3. number \in Nat /\ UNCHANGED <<heap, resets>>
    BY <1>5, <2>1 DEF TakeNumber
  <2>. HIDE DEF number
  <2>4. caller' = [caller EXCEPT ![c] = r]
    BY <2>2, Counts
  <2>5. CallerOK(r, Len(heap'), resets')
    BY <2>3, Counts, Onward
  <2>. HIDE DEF r
  <2>6. Moved
    BY <1>1, <2>3, <2>4, <2>5, OneTyped
  <2>7. Plain
    BY <1>5, <2>1, Counts DEF TakeNumber, folder
  <2>. QED  BY <2>6, <2>7
<1>6. ASSUME NEW c \in Callers, Fetch(c)
      PROVE  Plain /\ Moved
  <2>. DEFINE r == [caller[c] EXCEPT !.at = "fetched", !.coll = current']
  <2>1. UNCHANGED resets /\ Len(heap') \in Nat /\ current' \in 1 .. Len(heap')
    BY <1>1, <1>6 DEF Fetch, TypeOK, Grows
  <2>2. CallerOK(caller[c], Len(heap'), resets')
    BY <1>1, <2>1, Counts, Outlives DEF Grows
  <2>3. CallerOK(r, Len(heap'), resets')
    BY <2>1, <2>2, Counts, Onward
  <2>4. caller' = [caller EXCEPT ![c] = r]
    BY <1>6, Counts DEF Fetch
  <2>. HIDE DEF r
  <2>5. Moved
    BY <1>1, <2>1, <2>3, <2>4, OneTyped
  <2>6. Plain
    BY <1>6, <2>1, Counts DEF Fetch, folder
  <2>. QED  BY <2>5, <2>6
<1>7. ASSUME NEW c \in Callers, ReadBody(c)
      PROVE  Plain /\ Moved
  <2>. DEFINE k == caller[c].coll
              i == IF caller[c].kind = "update" THEN Find(heap[k].items, caller[c].id) ELSE 0
              r == [caller[c] EXCEPT !.at = "reading", !.index = i]
  <2>1. i \in Nat
    BY <1>7, HeldColl, FindPlace DEF ReadBody, Collection
  <2>2. caller' = [caller EXCEPT ![c].at = "reading", ![c].index = i]
    BY <1>7 DEF ReadBody
  <2>3. UNCHANGED resets /\ Len(heap) <= Len(heap') /\ Len(heap') \in Nat
    BY <1>1, <1>7 DEF ReadBody, Grows
  <2>4. CallerOK(caller[c], Len(heap'), resets')
    BY <2>3, Counts, Outlives
  <2>. HIDE DEF i
  <2>5. CallerOK(r, Len(heap'), resets')
    BY <2>1, <2>3, <2>4, Counts, Onward
  <2>6. caller' = [caller EXCEPT ![c] = r]
    BY <2>2, Counts
  <2>. HIDE DEF r
  <2>7. Moved
    BY <1>1, <2>3, <2>5, <2>6, OneTyped
  <2>8. Plain
    BY <1>7, <2>3, Counts DEF ReadBody, folder
  <2>. QED  BY <2>7, <2>8
<1>8. ASSUME NEW c \in Callers,
             TurnAway(c) \/ Answer(c) \/ BadBody(c) \/ Update(c) \/ Create(c)
      PROVE  Plain /\ Moved
  <2>1. caller' = [caller EXCEPT ![c] = Idle] /\ UNCHANGED resets
    BY <1>8 DEF TurnAway, Answer, BadBody, Update, Create
  <2>2. Moved
    BY <1>1, <2>1, OneTyped
  <2>3. made' \in SUBSET (Routes \X Nat)
    <3>1. CASE UNCHANGED made
      BY <3>1 DEF TypeOK
    <3>2. CASE Create(c) /\ caller[c].id = None /\ made' = made \cup {NewId(c)}
      <4>1. caller[c].route \in Routes /\ caller[c].number \in Nat
        BY <3>2 DEF Create, Held, Holds, TypeOK
      <4>. QED  BY <3>2, <4>1, MadeId DEF NewId, TypeOK
    <3>. QED  BY <1>8, <3>1, <3>2 DEF TurnAway, Answer, BadBody, Update, Create
  <2>. QED  BY <1>1, <1>8, <2>2, <2>3
            DEF TurnAway, Answer, BadBody, Update, Create, TypeOK, memory, folder, Grows
<1>9. ASSUME Reset \/ SwapControl \/ \E data \in Data : SwapLive(data)
      PROVE  Plain /\ Moved
  <2>1. UNCHANGED <<caller, heap>> /\ resets <= resets'
    BY <1>9 DEF Reset, SwapControl, SwapLive, memory, folder, TypeOK
  <2>2. Plain
    BY <1>9, Counts DEF Reset, SwapControl, SwapLive, memory, folder
  <2>3. \A d \in Callers : CallerOK(caller[d], Len(heap), resets)
    BY DEF TypeOK, CallerOK
  <2>4. Moved
    BY <2>1, <2>2, <2>3 DEF TypeOK, CallerOK
  <2>. QED  BY <2>2, <2>4
<1>. HIDE DEF Plain, Moved
<1>. QED  BY <1>1, <1>3, <1>4, <1>5, <1>6, <1>7, <1>8, <1>9 DEF Next, GoOn, Serve, BodyCame

-----------------------------------------------------------------------------
(* What callers hold.                                                       *)

\* The others stay where they are.
LEMMA OthersStand ==
  ASSUME TypeOK, NEW c \in Callers, GoOn(c), NEW d \in Callers, d # c
  PROVE  caller'[d] = caller[d]
<1>1. \E r : caller' = [caller EXCEPT ![c] = r]
  BY Counts DEF GoOn, Serve, BodyCame, TakeNumber, TurnAway, Fetch, Answer, ReadBody,
                BadBody, Update, Create
<1>. QED  BY <1>1, Counts

\* Nobody touches the collection of one that waits for its body.
LEMMA OthersStay ==
  ASSUME IInv, NEW c \in Callers, GoOn(c), NEW d \in Callers, d # c,
         caller[d].at = "reading"
  PROVE  heap'[caller[d].coll] = heap[caller[d].coll]
<1>1. /\ caller[d].coll \in 1 .. Len(heap) /\ heap[caller[d].coll].holder = d
      /\ None # d /\ heap \in Seq(Collection)
  BY HeldColl, CollectionsAssumption DEF IInv, Held, Holds, TypeOK
<1>2. CASE TakeNumber(c) \/ TurnAway(c)
  BY <1>2 DEF TakeNumber, TurnAway, memory
<1>3. CASE Fetch(c)
  BY <1>1, <1>3 DEF Fetch
<1>4. ASSUME NEW h, heap' = [heap EXCEPT ![caller[c].coll] = h],
             caller[c].coll # caller[d].coll
      PROVE  heap'[caller[d].coll] = heap[caller[d].coll]
  BY <1>1, <1>4
<1>5. CASE Answer(c) \/ ReadBody(c)
  <2>1. caller[c].coll # caller[d].coll
    BY <1>1, <1>5 DEF Answer, ReadBody, Unlocked
  <2>. QED  BY <1>1, <1>5, <2>1 DEF Answer, ReadBody
<1>6. CASE BadBody(c) \/ Update(c) \/ Create(c)
  <2>1. caller[c].coll # caller[d].coll
    BY <1>1, <1>6 DEF BadBody, Update, Create, IInv, Held, Holds
  <2>2. CASE BadBody(c) \/ Update(c)
    BY <1>1, <2>1, <2>2 DEF BadBody, Update
  <2>3. CASE Create(c)
    <3>1. caller[d].coll \in DOMAIN heap
      BY <1>1
    <3>. QED  BY <2>1, <2>3, <3>1 DEF Create
  <2>. QED  BY <1>6, <2>2, <2>3
<1>. QED  BY <1>2, <1>3, <1>5, <1>6 DEF GoOn, Serve, BodyCame

\* The item an update has found.
FoundBy(c) == caller[c].at = "reading" /\ caller[c].kind = "update" =>
  /\ caller[c].index \in 1 .. Len(heap[caller[c].coll].items)
  /\ heap[caller[c].coll].items[caller[c].index] = caller[c].id

\* Every step keeps what callers hold, and an item found stays where it was.
LEMMA HeldStep ==
  ASSUME IInv, Next
  PROVE  Held' /\ FoundStays'
<1>1. Grows /\ \A d \in Callers : Holds(d) /\ FoundBy(d)
  BY GrowsStep DEF IInv, Held, FoundStays, FoundBy
<1>2. SUFFICES ASSUME NEW d \in Callers
               PROVE  Holds(d)' /\ FoundBy(d)'
  BY DEF Held, FoundStays, FoundBy
<1>3. ASSUME caller'[d] = caller[d],
             caller[d].at = "reading" => heap'[caller[d].coll] = heap[caller[d].coll]
      PROVE  Holds(d)' /\ FoundBy(d)'
  <2>1. caller[d].at \in {"fetched", "reading"}
        => heap'[caller[d].coll].since = heap[caller[d].coll].since
    BY <1>1, HeldColl DEF Grows
  <2>. QED  BY <1>1, <1>3, <2>1 DEF Holds, FoundBy
<1>4. ASSUME NEW c \in Callers, c # d, GoOn(c)
      PROVE  Holds(d)' /\ FoundBy(d)'
  BY <1>3, <1>4, OthersStand, OthersStay DEF IInv
<1>5. ASSUME NEW c \in Callers, NEW route \in Routes, NEW kind \in Kinds,
             NEW id \in Named \cup {None}, Request(c, kind, route, id)
      PROVE  Holds(d)' /\ FoundBy(d)'
  <2>1. CASE c = d
    BY <1>5, <2>1, Counts DEF Request, Holds, FoundBy, Idle, IInv
  <2>2. CASE c # d
    BY <1>3, <1>5, <2>2, Counts DEF Request, memory, IInv
  <2>. QED  BY <2>1, <2>2
<1>6. ASSUME NEW c \in Callers, NEW kind \in Kinds, NEW id \in Named \cup {None},
             Control(c, kind, id)
      PROVE  Holds(d)' /\ FoundBy(d)'
  <2>1. CASE c = d
    BY <1>6, <2>1, Counts DEF Control, Holds, FoundBy, Idle, IInv
  <2>2. CASE c # d
    BY <1>3, <1>6, <2>2, Counts DEF Control, memory, IInv
  <2>. QED  BY <2>1, <2>2
<1>7. CASE Reset \/ SwapControl \/ \E data \in Data : SwapLive(data)
  BY <1>3, <1>7 DEF Reset, SwapControl, SwapLive, memory
<1>8. ASSUME TurnAway(d) \/ Answer(d) \/ BadBody(d) \/ Update(d) \/ Create(d)
      PROVE  Holds(d)' /\ FoundBy(d)'
  <2>1. caller'[d] = Idle
    BY <1>8, Counts DEF TurnAway, Answer, BadBody, Update, Create, IInv
  <2>. QED  BY <2>1 DEF Holds, FoundBy, Idle
<1>9. CASE TakeNumber(d)
  BY <1>1, <1>9, Counts DEF TakeNumber, Holds, FoundBy, IInv
<1>10. CASE Fetch(d)
  <2>1. /\ caller'[d].at = "fetched" /\ caller'[d].coll = current' /\ current' # 0
        /\ caller'[d].data = caller[d].data /\ caller'[d].kind = caller[d].kind
        /\ caller'[d].route = caller[d].route /\ caller'[d].since = caller[d].since
    BY <1>10, Counts DEF Fetch, IInv
  <2>2. caller[d].since <= resets /\ resets \in Nat
    BY Counts DEF CallerOK, IInv
  <2>3. heap'[current'].since = resets
    <3>1. CASE current # 0 /\ heap[current].data = caller[d].data
      BY <1>10, <3>1 DEF Fetch, IInv, InForce
    <3>2. CASE ~(current # 0 /\ heap[current].data = caller[d].data)
      BY <1>10, <3>2 DEF Fetch, Fresh, IInv, TypeOK
    <3>. QED  BY <3>1, <3>2
  <2>. QED  BY <1>1, <1>10, <2>1, <2>2, <2>3 DEF Holds, FoundBy, Fetch
<1>11. CASE ReadBody(d)
  <2>. DEFINE k == caller[d].coll
              i == IF caller[d].kind = "update" THEN Find(heap[k].items, caller[d].id) ELSE 0
  <2>1. k \in 1 .. Len(heap) /\ heap[k] \in Collection /\ caller[d].at = "fetched"
    BY <1>11, HeldColl DEF ReadBody
  <2>2. caller' = [caller EXCEPT ![d].at = "reading", ![d].index = i]
    BY <1>11 DEF ReadBody
  <2>3. heap' = [heap EXCEPT ![k].holder = d]
    BY <1>11 DEF ReadBody
  <2>4. caller[d].kind = "update" => i # 0
    BY <1>11 DEF ReadBody
  <2>5. caller[d].kind = "update"
        => i \in 1 .. Len(heap[k].items) /\ heap[k].items[i] = caller[d].id
    BY <2>1, <2>4, FindPlace DEF Collection
  <2>. HIDE DEF i
  <2>6. /\ caller'[d].at = "reading" /\ caller'[d].coll = k /\ caller'[d].index = i
        /\ caller'[d].data = caller[d].data /\ caller'[d].kind = caller[d].kind
        /\ caller'[d].route = caller[d].route /\ caller'[d].since = caller[d].since
        /\ caller'[d].id = caller[d].id
    BY <2>2, Counts DEF IInv, CallerOK
  <2>7. heap'[k].holder = d /\ heap'[k].items = heap[k].items /\ heap'[k].since = heap[k].since
    BY <2>1, <2>3 DEF Collection, IInv, TypeOK
  <2>. HIDE DEF k
  <2>8. Holds(d)'
    BY <1>1, <2>1, <2>6, <2>7 DEF Holds, k
  <2>. QED  BY <2>5, <2>6, <2>7, <2>8 DEF FoundBy
<1>. QED  BY <1>4, <1>5, <1>6, <1>7, <1>8, <1>9, <1>10, <1>11 DEF Next, GoOn, Serve,
                                                                  BodyCame

\* The collection in force was made since the last reset, and none later.
LEMMA InForceStep ==
  ASSUME IInv, Next
  PROVE  InForce'
<1>1. Grows /\ InForce /\ current \in 0 .. Len(heap) /\ heap \in Seq(Collection)
  BY GrowsStep DEF IInv, TypeOK
<1>2. CASE UNCHANGED <<current, resets>> /\ Len(heap') = Len(heap)
  BY <1>1, <1>2 DEF InForce, Grows
<1>3. ASSUME NEW c \in Callers, Fetch(c)
      PROVE  InForce'
  <2>1. CASE UNCHANGED <<current, heap>>
    BY <1>1, <1>3, <2>1 DEF InForce, Fetch
  <2>2. CASE heap' = Append(heap, Fresh(caller[c].data)) /\ current' = Len(heap')
    <3>1. Len(heap') = Len(heap) + 1 /\ heap'[Len(heap')].since = resets
      BY <1>1, <2>2 DEF Fresh
    <3>2. UNCHANGED resets /\ resets \in Nat
      BY <1>3, Counts DEF Fetch, IInv
    <3>. QED  BY <1>1, <2>2, <3>1, <3>2 DEF InForce, Grows
  <2>. QED  BY <1>3, <2>1, <2>2 DEF Fetch
<1>4. CASE Reset
  <2>1. current' = 0 /\ heap' = heap /\ resets' = resets + 1 /\ resets \in Nat
    BY <1>4, Counts DEF Reset, IInv
  <2>2. \A k \in 1 .. Len(heap) : heap[k].since \in Nat
    <3>1. \A k \in 1 .. Len(heap) : heap[k] \in Collection
      BY <1>1
    <3>. QED  BY <3>1 DEF Collection
  <2>. QED  BY <1>1, <2>1, <2>2 DEF InForce
<1>5. ASSUME NEW c \in Callers,
             Answer(c) \/ ReadBody(c) \/ BadBody(c) \/ Update(c) \/ Create(c)
      PROVE  InForce'
  <2>1. UNCHANGED <<current, resets>>
    BY <1>5 DEF Answer, ReadBody, BadBody, Update, Create
  <2>2. DOMAIN heap' = DOMAIN heap
    <3>1. CASE Answer(c)
      BY <3>1 DEF Answer
    <3>2. CASE ReadBody(c) \/ BadBody(c) \/ Update(c)
      BY <3>2 DEF ReadBody, BadBody, Update
    <3>3. CASE Create(c)
      BY <3>3 DEF Create
    <3>. QED  BY <1>5, <3>1, <3>2, <3>3
  <2>3. Len(heap') = Len(heap)
    BY <1>1, <2>2 DEF Grows
  <2>. QED  BY <1>2, <2>1, <2>3
<1>. QED  BY <1>2, <1>3, <1>4, <1>5
          DEF Next, GoOn, Serve, BodyCame, Request, Control, TakeNumber, TurnAway,
              SwapControl, SwapLive, memory, folder

-----------------------------------------------------------------------------
(* Numbers and the ids made from them.                                      *)

\* Only TakeNumber gives a request a number.
LEMMA SameDrawn ==
  ASSUME IInv, Next, NEW d \in Callers, ~TakeNumber(d), Drawn(d)'
  PROVE  /\ Drawn(d) /\ caller'[d].route = caller[d].route
         /\ caller'[d].number = caller[d].number /\ caller'[d].since = caller[d].since
         /\ caller'[d].kind = caller[d].kind /\ caller'[d].id = caller[d].id
<1>1. CASE caller'[d] = caller[d]
  BY <1>1 DEF Drawn
<1>2. ASSUME NEW c \in Callers, c # d, GoOn(c)
      PROVE  caller'[d] = caller[d]
  BY <1>2, OthersStand DEF IInv
<1>3. ASSUME NEW c \in Callers, NEW route \in Routes, NEW kind \in Kinds,
             NEW id \in Named \cup {None},
             Request(c, kind, route, id) \/ Control(c, kind, id)
      PROVE  caller'[d] = caller[d]
  <2>1. CASE c = d
    <3>1. CASE Request(c, kind, route, id)
      BY <2>1, <3>1, Counts DEF Request, Idle, IInv, Drawn
    <3>2. CASE Control(c, kind, id)
      BY <2>1, <3>2, Counts DEF Control, Idle, IInv, Drawn
    <3>. QED  BY <1>3, <3>1, <3>2
  <2>2. CASE c # d
    BY <1>3, <2>2, Counts DEF Request, Control, IInv
  <2>. QED  BY <2>1, <2>2
<1>4. CASE TurnAway(d) \/ Answer(d) \/ BadBody(d) \/ Update(d) \/ Create(d)
  <2>1. caller'[d] = Idle
    BY <1>4, Counts DEF TurnAway, Answer, BadBody, Update, Create, IInv
  <2>. QED  BY <2>1 DEF Idle, Drawn
<1>5. CASE Fetch(d)
  BY <1>5, Counts DEF Fetch, IInv, Drawn, CallerOK
<1>6. CASE ReadBody(d)
  <2>1. \E i : caller' = [caller EXCEPT ![d].at = "reading", ![d].index = i]
    BY <1>6 DEF ReadBody
  <2>. QED  BY <1>6, <2>1, Counts DEF ReadBody, IInv, Drawn, CallerOK
<1>7. CASE Reset \/ SwapControl \/ \E data \in Data : SwapLive(data)
  BY <1>1, <1>7 DEF Reset, SwapControl, SwapLive
<1>8. ASSUME NEW c \in Callers, NEW kind \in Kinds, NEW id \in Named \cup {None},
             Control(c, kind, id)
      PROVE  caller'[d] = caller[d]
  BY <1>8, Counts DEF Control, Idle, IInv, Drawn
<1>. QED  BY <1>1, <1>2, <1>3, <1>4, <1>5, <1>6, <1>7, <1>8 DEF Next, GoOn, Serve, BodyCame

\* A request that has drawn has a route and a number.
LEMMA DrawnTyped ==
  ASSUME TypeOK, NEW d \in Callers, Drawn(d)
  PROVE  /\ caller[d].route \in Routes /\ caller[d].number \in Nat
         /\ caller[d].since \in 0 .. resets
         /\ Own(d) \in Routes \X Nat /\ Own(d) \in Id /\ Own(d) \notin Ids
         /\ Own(d)[1] = caller[d].route /\ Own(d)[2] = caller[d].number
<1>1. /\ caller[d].route \in Routes /\ caller[d].number \in Nat
      /\ caller[d].since \in 0 .. resets
  BY DEF Drawn, TypeOK
<1>. QED  BY <1>1, MadeId DEF Own

\* Between two resets a number is drawn once and makes one id.
LEMMA NumbersStep ==
  ASSUME IInv, Next
  PROVE  Numbers'
<1>1. TypeOK /\ Numbers /\ resets \in Nat /\ calls \in [Routes -> Nat]
      /\ made \in SUBSET (Routes \X Nat)
  BY Counts DEF IInv
<1>. DEFINE Same(d) ==
       /\ Drawn(d) /\ caller'[d].route = caller[d].route
       /\ caller'[d].number = caller[d].number /\ caller'[d].since = caller[d].since
       /\ caller'[d].kind = caller[d].kind /\ caller'[d].id = caller[d].id
<1>2. ASSUME NEW d \in Callers, Drawn(d)', ~TakeNumber(d)
      PROVE  Same(d) /\ Own(d)' = Own(d) /\ (Makes(d)' <=> Makes(d))
  BY <1>2, SameDrawn DEF Own, Makes
<1>3. CASE /\ \A d \in Callers : ~TakeNumber(d)
           /\ UNCHANGED <<calls, resets, made>>
  BY <1>1, <1>2, <1>3 DEF Numbers, Makes
<1>4. ASSUME NEW c \in Callers, Create(c)
      PROVE  Numbers'
  <2>1. /\ \A d \in Callers : ~TakeNumber(d)
        /\ UNCHANGED <<calls, resets>> /\ ~Drawn(c)'
    <3>1. caller'[c] = Idle /\ caller[c].at = "reading"
      BY <1>1, <1>4, Counts DEF Create
    <3>2. ASSUME NEW d \in Callers, TakeNumber(d)
          PROVE  FALSE
      <4>1. d # c /\ caller'[d].at = "numbered" /\ caller[d].at = "bound"
        BY <1>1, <3>1, <3>2, Counts DEF TakeNumber, CallerOK
      <4>2. caller'[d] = caller[d]
        BY <1>1, <1>4, <4>1, OthersStand DEF GoOn, Serve, BodyCame
      <4>. QED  BY <4>1, <4>2
    <3>. QED  BY <1>4, <3>1, <3>2 DEF Create, Drawn, Idle
  <2>2. CASE UNCHANGED made
    BY <1>3, <2>1, <2>2
  <2>3. CASE caller[c].id = None /\ caller[c].since = resets /\ made' = made \cup {Own(c)}
    <3>1. Makes(c)
      BY <1>4, <2>3, CollectionsAssumption DEF Create, Makes, Drawn, IInv, Held, Holds
    <3>2. Own(c)[1] = caller[c].route /\ Own(c)[2] <= calls[caller[c].route]
      BY <1>1, <2>3, <3>1, DrawnTyped DEF Makes, Numbers
    <3>3. \A d \in Callers : Drawn(d)' => d # c /\ Same(d) /\ Own(d)' = Own(d)
                                         /\ (Makes(d)' <=> Makes(d))
      BY <1>2, <2>1
    <3>4. \A d \in Callers : Drawn(d)' /\ caller[d].since = resets => Own(d) # Own(c)
      BY <1>1, <2>3, <3>1, <3>3 DEF Numbers, Makes
    <3>. QED  BY <1>1, <2>1, <2>3, <3>2, <3>3, <3>4 DEF Numbers, Makes
  <2>. QED  BY <1>4, <2>2, <2>3 DEF Create, NewId, Own
<1>5. ASSUME NEW c \in Callers, TakeNumber(c)
      PROVE  Numbers'
  <2>. DEFINE r == caller[c].route
  <2>1. /\ r \in Routes /\ calls' = [calls EXCEPT ![r] = @ + 1]
        /\ UNCHANGED <<resets, made>>
        /\ caller'[c].route = r /\ caller'[c].number = calls[r] + 1
        /\ caller'[c].since = resets /\ calls'[r] = calls[r] + 1
    BY <1>1, <1>5, Counts DEF TakeNumber, IInv, Held, Holds, CallerOK
  <2>2. \A d \in Callers : d # c /\ Drawn(d)' =>
          Same(d) /\ Own(d)' = Own(d) /\ (Makes(d)' <=> Makes(d))
    <3>1. ASSUME NEW d \in Callers, d # c
          PROVE  ~TakeNumber(d)
      BY <1>5, <3>1, OthersStand, Counts DEF TakeNumber, GoOn, Serve, BodyCame, IInv,
                                             CallerOK
    <3>. QED  BY <1>2, <3>1
  <2>3. Own(c)' = <<r, calls[r] + 1>>
    BY <2>1 DEF Own, Made
  <2>4. \A q \in Routes : calls'[q] \in Nat /\ calls[q] <= calls'[q]
    BY <1>1, <2>1
  <2>5. ASSUME NEW d \in Callers, d # c, Drawn(d)', caller[d].since = resets
        PROVE  Own(d)' # Own(c)'
    <3>1. Own(d)' = Own(d) /\ Drawn(d)
      BY <2>2, <2>5
    <3>2. Own(d)[1] = caller[d].route /\ Own(d)[2] = caller[d].number
          /\ caller[d].number <= calls[caller[d].route] /\ caller[d].number \in Nat
      BY <1>1, <2>5, <3>1, DrawnTyped DEF Numbers
    <3>3. Own(c)'[1] = r /\ Own(c)'[2] = calls[r] + 1 /\ calls[r] \in Nat
      BY <1>1, <2>1, <2>3
    <3>. QED  BY <3>1, <3>2, <3>3
  <2>6. Own(c)' \notin made
    <3>1. SUFFICES ASSUME Own(c)' \in made
                   PROVE  FALSE
      OBVIOUS
    <3>2. Own(c)'[1] = r /\ Own(c)'[2] = calls[r] + 1 /\ calls[r] \in Nat
      BY <1>1, <2>1, <2>3
    <3>. QED  BY <1>1, <3>1, <3>2 DEF Numbers
  <2>7. \A d \in Callers : Drawn(d)' /\ caller'[d].since = resets'
          => caller'[d].number <= calls'[caller'[d].route]
    <3>1. SUFFICES ASSUME NEW d \in Callers, d # c, Drawn(d)', caller'[d].since = resets
                   PROVE  caller'[d].number <= calls'[caller'[d].route]
      BY <1>1, <2>1
    <3>2. Same(d) /\ caller[d].route \in Routes /\ caller[d].number \in Nat
          /\ caller[d].number <= calls[caller[d].route]
      BY <1>1, <2>2, <3>1, DrawnTyped DEF Numbers
    <3>. QED  BY <1>1, <2>4, <3>2
  <2>8. \A d, e \in Callers :
          d # e /\ Drawn(d)' /\ Drawn(e)' /\ caller'[d].since = caller'[e].since
          => Own(d)' # Own(e)'
    <3>1. SUFFICES ASSUME NEW d \in Callers, NEW e \in Callers, d # e, Drawn(d)', Drawn(e)',
                          caller'[d].since = caller'[e].since
                   PROVE  Own(d)' # Own(e)'
      OBVIOUS
    <3>2. CASE d = c
      BY <2>1, <2>2, <2>5, <3>1, <3>2
    <3>3. CASE e = c
      BY <2>1, <2>2, <2>5, <3>1, <3>3
    <3>4. CASE d # c /\ e # c
      BY <1>1, <2>2, <3>1, <3>4 DEF Numbers
    <3>. QED  BY <3>2, <3>3, <3>4
  <2>9. \A m \in made' : m[2] <= calls'[m[1]]
    BY <1>1, <2>1, <2>4 DEF Numbers
  <2>10. \A d \in Callers : Makes(d)' /\ caller'[d].since = resets' => Own(d)' \notin made'
    BY <1>1, <2>1, <2>2, <2>6 DEF Numbers, Makes
  <2>. QED  BY <2>7, <2>8, <2>9, <2>10 DEF Numbers
<1>6. CASE Reset
  <2>1. resets' = resets + 1 /\ made' = {} /\ UNCHANGED caller
    BY <1>6 DEF Reset
  <2>2. \A d \in Callers : Drawn(d)' => Drawn(d) /\ Own(d)' = Own(d)
                                       /\ caller[d].since \in 0 .. resets
    BY <1>1, <2>1, DrawnTyped DEF Drawn, Own
  <2>. QED  BY <1>1, <2>1, <2>2 DEF Numbers, Makes
<1>7. ASSUME \A d \in Callers : ~TakeNumber(d) /\ ~Create(d), ~Reset
      PROVE  UNCHANGED <<calls, resets, made>>
  BY <1>7, ZenonT(30) DEF Next, GoOn, Serve, BodyCame, Request, Control, TurnAway, Fetch,
                          Answer, ReadBody, BadBody, Update, SwapControl, SwapLive, memory,
                          folder
<1>. QED  BY <1>3, <1>4, <1>5, <1>6, <1>7

-----------------------------------------------------------------------------
(* Ids in a collection.                                                     *)

\* What Clean says of one collection.
CleanOne(k) == ~heap[k].late => Known(k) /\ Awaited(k)

\* A collection whose items only grow fewer stays clean when no number is drawn.
LEMMA StaysClean ==
  ASSUME IInv, Next, Grows, NEW k \in 1 .. Len(heap), ~heap'[k].late, ~heap[k].late,
         \A i \in 1 .. Len(heap'[k].items) :
           \E m \in 1 .. Len(heap[k].items) : heap'[k].items[i] = heap[k].items[m],
         made \subseteq made', resets' = resets,
         \A d \in Callers : ~TakeNumber(d)
  PROVE  CleanOne(k)'
<1>1. Known(k) /\ Awaited(k) /\ heap'[k].since = heap[k].since
  BY DEF IInv, Clean, Grows
<1>2. Known(k)'
  BY <1>1 DEF Known
<1>3. ASSUME NEW d \in Callers, Makes(d)', caller'[d].since = heap'[k].since,
             NEW i \in 1 .. Len(heap'[k].items)
      PROVE  heap'[k].items[i] # Own(d)'
  <2>1. Drawn(d)'
    BY <1>3 DEF Makes
  <2>2. Makes(d) /\ caller[d].since = heap[k].since /\ Own(d)' = Own(d)
    BY <1>1, <1>3, <2>1, SameDrawn DEF Makes, Own
  <2>. QED  BY <1>1, <2>2 DEF Awaited
<1>. QED  BY <1>2, <1>3 DEF CleanOne, Awaited

\* A step that draws no number gives no other caller a number.
LEMMA NoneDrawn ==
  ASSUME TypeOK, NEW c \in Callers, GoOn(c), ~TakeNumber(c)
  PROVE  \A d \in Callers : ~TakeNumber(d)
<1>1. SUFFICES ASSUME NEW d \in Callers, TakeNumber(d), d # c
               PROVE  FALSE
  OBVIOUS
<1>2. caller'[d].at = "numbered" /\ caller[d].at = "bound"
  BY <1>1, Counts DEF TakeNumber, CallerOK
<1>3. caller'[d] = caller[d]
  BY <1>1, OthersStand
<1>. QED  BY <1>2, <1>3

\* Every step keeps collections clean.
LEMMA CleanStep ==
  ASSUME IInv, Next
  PROVE  Clean'
<1>1. /\ Grows /\ TypeOK /\ Clean /\ heap \in Seq(Collection) /\ resets \in Nat
      /\ \A k \in 1 .. Len(heap) : /\ heap[k] \in Collection /\ heap[k].items \in Seq(Id)
                                   /\ CleanOne(k)
  <2>1. Grows /\ TypeOK /\ Clean /\ heap \in Seq(Collection) /\ resets \in Nat
    BY GrowsStep, Counts DEF IInv, TypeOK
  <2>2. \A k \in 1 .. Len(heap) : heap[k] \in Collection
    BY <2>1
  <2>. QED  BY <2>1, <2>2 DEF Collection, Clean, CleanOne
<1>2. ASSUME NEW k \in 1 .. Len(heap), heap'[k].items = heap[k].items,
             heap'[k].late = heap[k].late, made \subseteq made', resets' = resets,
             \A d \in Callers : ~TakeNumber(d)
      PROVE  CleanOne(k)'
  <2>1. CASE heap[k].late
    BY <1>2, <2>1 DEF CleanOne
  <2>2. CASE ~heap[k].late
    BY <1>1, <1>2, <2>2, StaysClean
  <2>. QED  BY <2>1, <2>2
<1>3. ASSUME NEW c \in Callers, TurnAway(c) \/ ReadBody(c) \/ BadBody(c) \/ Update(c)
      PROVE  Clean'
  <2>1. UNCHANGED <<made, resets>> /\ GoOn(c) /\ ~TakeNumber(c)
    BY <1>3 DEF TurnAway, ReadBody, BadBody, Update, GoOn, Serve, BodyCame, TakeNumber,
                memory
  <2>2. Len(heap') = Len(heap) /\ \A k \in 1 .. Len(heap) :
          heap'[k].items = heap[k].items /\ heap'[k].late = heap[k].late
    <3>1. CASE TurnAway(c)
      BY <3>1 DEF TurnAway, memory
    <3>2. ASSUME NEW n, NEW h, heap' = [heap EXCEPT ![n].holder = h]
          PROVE  Len(heap') = Len(heap) /\ \A k \in 1 .. Len(heap) :
                   heap'[k].items = heap[k].items /\ heap'[k].late = heap[k].late
      BY <1>1, <3>2 DEF Collection
    <3>. QED  BY <1>3, <3>1, <3>2 DEF ReadBody, BadBody, Update
  <2>. QED  BY <1>1, <1>2, <2>1, <2>2, NoneDrawn DEF Clean, CleanOne
<1>4. ASSUME NEW c \in Callers, Answer(c)
      PROVE  Clean'
  <2>. PICK n : n = caller[c].coll
    OBVIOUS
  <2>. DEFINE i == Find(heap[n].items, caller[c].id)
  <2>1. UNCHANGED <<made, resets>> /\ GoOn(c) /\ ~TakeNumber(c)
    BY <1>4 DEF Answer, GoOn, Serve, BodyCame, TakeNumber
  <2>2. \A d \in Callers : ~TakeNumber(d)
    BY <1>1, <2>1, NoneDrawn
  <2>3. CASE UNCHANGED heap
    BY <1>1, <1>2, <2>1, <2>2, <2>3 DEF Clean, CleanOne
  <2>4. CASE i # 0 /\ heap' = [heap EXCEPT ![n].items = Without(@, i)]
    <3>1. n \in 1 .. Len(heap)
      BY <1>4, HeldColl DEF Answer
    <3>2. i \in 1 .. Len(heap[n].items)
      BY <1>1, <2>4, <3>1, FindPlace
    <3>. HIDE DEF i
    <3>3. /\ Len(heap') = Len(heap) /\ heap'[n].items = Without(heap[n].items, i)
          /\ heap'[n].late = heap[n].late
          /\ \A k \in 1 .. Len(heap) : k # n => heap'[k] = heap[k]
      BY <1>1, <2>4, <3>1 DEF Collection, Grows
    <3>4. CASE ~heap[n].late
      <4>1. \A j \in 1 .. Len(heap'[n].items) :
              \E m \in 1 .. Len(heap[n].items) : heap'[n].items[j] = heap[n].items[m]
        <5>1. heap[n].items \in Seq(Id)
          BY <1>1, <3>1
        <5>2. \A j \in 1 .. Len(Without(heap[n].items, i)) :
                \E m \in 1 .. Len(heap[n].items) :
                  Without(heap[n].items, i)[j] = heap[n].items[m]
          BY <3>2, <5>1, WithoutTwice, Zenon
        <5>3. heap'[n].items = Without(heap[n].items, i)
          BY <3>3
        <5>. QED  BY <5>2, <5>3
      <4>2. CleanOne(n)'
        BY <1>1, <2>1, <2>2, <3>1, <3>3, <3>4, <4>1, StaysClean
      <4>. QED  BY <1>1, <1>2, <2>1, <2>2, <3>3, <4>2 DEF Clean, CleanOne
    <3>5. CASE heap[n].late
      BY <1>1, <1>2, <2>1, <2>2, <3>3, <3>5 DEF Clean, CleanOne
    <3>. QED  BY <3>4, <3>5
  <2>. QED  BY <1>4, <2>3, <2>4 DEF Answer
<1>5. ASSUME NEW c \in Callers, Fetch(c)
      PROVE  Clean'
  <2>1. UNCHANGED <<made, resets>> /\ GoOn(c) /\ ~TakeNumber(c)
    BY <1>5 DEF Fetch, GoOn, Serve, BodyCame, TakeNumber
  <2>2. \A d \in Callers : ~TakeNumber(d)
    BY <1>1, <2>1, NoneDrawn
  <2>3. CASE UNCHANGED heap
    BY <1>1, <1>2, <2>1, <2>2, <2>3 DEF Clean, CleanOne
  <2>4. CASE heap' = Append(heap, Fresh(caller[c].data))
    <3>. PICK n, data : n = Len(heap) + 1 /\ data = caller[c].data
      OBVIOUS
    <3>1. data \in Data
      BY <1>5 DEF Fetch, IInv, Held, Holds
    <3>2. /\ Len(heap') = n /\ heap'[n].items = Seed[data]
          /\ heap'[n].late = \E i \in 1 .. Len(Seed[data]) : Seed[data][i] \notin Ids
          /\ \A k \in 1 .. Len(heap) : heap'[k] = heap[k]
      <4>1. /\ Len(heap') = n /\ heap'[n] = Fresh(data)
            /\ \A k \in 1 .. Len(heap) : heap'[k] = heap[k]
        BY <1>1, <2>4
      <4>2. /\ Fresh(data).items = Seed[data]
            /\ Fresh(data).late = \E i \in 1 .. Len(Seed[data]) : Seed[data][i] \notin Ids
        BY DEF Fresh
      <4>. QED  BY <4>1, <4>2, Zenon
    <3>3. ~heap'[n].late => \A i \in 1 .. Len(Seed[data]) : Seed[data][i] \in Ids
      BY <3>2
    <3>4. \A d \in Callers : Makes(d)' => Own(d)' \notin Ids
      <4>1. ASSUME NEW d \in Callers, Makes(d)'
            PROVE  Own(d)' = Own(d) /\ Drawn(d)
        BY <2>2, <4>1, SameDrawn DEF Makes, Own
      <4>. QED  BY <1>1, <4>1, DrawnTyped
    <3>5. CleanOne(n)'
      <4>1. SUFFICES ASSUME ~heap'[n].late
                     PROVE  Known(n)' /\ Awaited(n)'
        BY DEF CleanOne
      <4>2. \A i \in 1 .. Len(heap'[n].items) : heap'[n].items[i] \in Ids
        BY <3>2, <3>3, <4>1
      <4>3. Known(n)'
        BY <4>2 DEF Known
      <4>4. ASSUME NEW d \in Callers, Makes(d)', NEW i \in 1 .. Len(heap'[n].items)
            PROVE  heap'[n].items[i] # Own(d)'
        <5>1. heap'[n].items[i] \in Ids /\ Own(d)' \notin Ids
          BY <3>4, <4>2, <4>4
        <5>. QED  BY <5>1
      <4>5. Awaited(n)'
        BY <4>4 DEF Awaited
      <4>. QED  BY <4>3, <4>5
    <3>6. \A k \in 1 .. Len(heap) : CleanOne(k)'
      BY <1>1, <1>2, <2>1, <2>2, <3>2
    <3>7. Len(heap') = Len(heap) + 1 /\ n = Len(heap) + 1 /\ Len(heap) \in Nat
      BY <1>1, <3>2
    <3>8. \A k \in 1 .. Len(heap') : CleanOne(k)'
      BY <3>5, <3>6, <3>7
    <3>. QED  BY <3>8 DEF Clean, CleanOne
  <2>. QED  BY <1>5, <2>3, <2>4 DEF Fetch
<1>6. ASSUME NEW c \in Callers, TakeNumber(c)
      PROVE  Clean'
  <2>. DEFINE r == caller[c].route
  <2>1. /\ r \in Routes /\ UNCHANGED <<heap, resets, made>> /\ calls[r] \in Nat
        /\ caller'[c].route = r /\ caller'[c].number = calls[r] + 1
        /\ caller'[c].since = resets
    BY <1>1, <1>6, Counts DEF TakeNumber, IInv, Held, Holds, CallerOK
  <2>2. Own(c)' \notin made /\ Own(c)' \notin Ids
    <3>1. Own(c)' = Made(r, calls[r] + 1)
      BY <2>1 DEF Own
    <3>2. Own(c)'[1] = r /\ Own(c)'[2] = calls[r] + 1 /\ Own(c)' \notin Ids
      BY <2>1, <3>1, MadeId
    <3>. QED  BY <2>1, <3>2 DEF IInv, Numbers
  <2>3. ASSUME NEW d \in Callers, d # c
        PROVE  caller'[d] = caller[d]
    BY <1>1, <1>6, <2>3, OthersStand DEF GoOn, Serve, BodyCame
  <2>4. ASSUME NEW k \in 1 .. Len(heap), ~heap[k].late
        PROVE  Awaited(k)'
    <3>1. SUFFICES ASSUME NEW d \in Callers, Makes(d)', caller'[d].since = heap[k].since,
                          NEW i \in 1 .. Len(heap[k].items)
                   PROVE  heap[k].items[i] # Own(d)'
      BY <2>1 DEF Awaited
    <3>2. CASE d = c
      <4>1. heap[k].items[i] \in Ids \cup made
        BY <1>1, <2>1, <2>4, <3>1, <3>2 DEF CleanOne, Known
      <4>. QED  BY <2>2, <3>2, <4>1
    <3>3. CASE d # c
      <4>1. Makes(d) /\ Own(d)' = Own(d) /\ caller[d].since = heap[k].since
        BY <2>3, <3>1, <3>3 DEF Makes, Drawn, Own
      <4>. QED  BY <1>1, <2>4, <3>1, <4>1 DEF CleanOne, Awaited
    <3>. QED  BY <3>2, <3>3
  <2>. QED  BY <1>1, <2>1, <2>4 DEF Clean, CleanOne, Known
<1>7. CASE Reset
  <2>1. UNCHANGED <<heap, caller>> /\ resets' = resets + 1
    BY <1>7 DEF Reset
  <2>2. \A k \in 1 .. Len(heap) : heap[k].since # resets'
    BY <1>1, <2>1 DEF IInv, InForce, Collection
  <2>3. \A d \in Callers : (Makes(d)' <=> Makes(d)) /\ Own(d)' = Own(d)
    BY <2>1 DEF Makes, Drawn, Own
  <2>4. \A k \in 1 .. Len(heap) : Known(k)' /\ (Awaited(k) => Awaited(k)')
    BY <2>1, <2>2, <2>3 DEF Known, Awaited
  <2>. QED  BY <1>1, <2>1, <2>4 DEF Clean, CleanOne
<1>8. ASSUME UNCHANGED <<heap, resets, made>>, \A d \in Callers : ~TakeNumber(d)
      PROVE  Clean'
  BY <1>1, <1>2, <1>8 DEF Clean, CleanOne
<1>9. ASSUME NEW c \in Callers, Create(c)
      PROVE  Clean'
  <2>. PICK n, items : n = caller[c].coll /\ items = heap[n].items
    OBVIOUS
  <2>1. n \in 1 .. Len(heap) /\ caller[c].at = "reading" /\ caller[c].kind = "create"
    BY <1>9, HeldColl DEF Create
  <2>2. /\ caller[c].since <= heap[n].since /\ caller[c].route \in Routes
        /\ caller[c].since \in Nat /\ heap[n].since \in Nat /\ heap[n].since <= resets
        /\ Drawn(c)
    <3>1. caller[c].since <= heap[n].since /\ caller[c].route \in Routes
      BY <2>1 DEF IInv, Held, Holds
    <3>2. caller[c].since \in Nat
      BY <1>1, Counts DEF CallerOK
    <3>3. heap[n].since \in Nat /\ heap[n].since <= resets
      BY <1>1, <2>1 DEF Collection, IInv, InForce
    <3>. QED  BY <2>1, <3>1, <3>2, <3>3, CollectionsAssumption DEF Drawn
  <2>3. UNCHANGED resets /\ GoOn(c) /\ ~TakeNumber(c) /\ made \subseteq made'
    BY <1>9, <2>1 DEF Create, GoOn, Serve, BodyCame, TakeNumber
  <2>4. \A d \in Callers : ~TakeNumber(d)
    BY <1>1, <2>3, NoneDrawn
  <2>5. /\ Len(heap') = Len(heap)
        /\ heap'[n].items = IF Conflicts(c) THEN items ELSE Append(items, NewId(c))
        /\ heap'[n].late = (heap[n].late \/ Late(c)) /\ heap'[n].since = heap[n].since
        /\ \A k \in 1 .. Len(heap) : k # n => heap'[k] = heap[k]
    <3>1. DOMAIN heap' = DOMAIN heap
      BY <1>9 DEF Create
    <3>2. Len(heap') = Len(heap)
      BY <1>1, <3>1 DEF Grows
    <3>3. heap[n] \in Collection
      BY <1>1, <2>1
    <3>4. \A k \in 1 .. Len(heap) : k # n => heap'[k] = heap[k]
      BY <1>1, <1>9 DEF Create
    <3>5. heap'[n] = [heap[n] EXCEPT !.holder = None,
                        !.items = IF Conflicts(c) THEN heap[n].items
                                                  ELSE Append(heap[n].items, NewId(c)),
                        !.late = heap[n].late \/ Late(c)]
      <4>. DEFINE k == caller[c].coll
                  after == IF Conflicts(c) THEN heap[k].items
                                           ELSE Append(heap[k].items, NewId(c))
                  late == heap[k].late \/ Late(c)
      <4>1. heap' = [heap EXCEPT ![k] = [heap[k] EXCEPT !.holder = None, !.items = after,
                                                        !.late = late]]
        BY <1>1, <1>9, <2>1 DEF Create
      <4>. HIDE DEF after, late
      <4>. HIDE DEF k
      <4>2. n \in DOMAIN heap /\ k = n
        BY <1>1, <2>1 DEF k
      <4>3. heap'[n] = [heap[n] EXCEPT !.holder = None, !.items = after, !.late = late]
        BY <4>1, <4>2
      <4>. QED  BY <4>2, <4>3 DEF after, late
    <3>. QED  BY <3>2, <3>3, <3>4, <3>5 DEF Collection
  <2>6. \A k \in 1 .. Len(heap) : k # n => CleanOne(k)'
    BY <1>2, <2>3, <2>4, <2>5
  <2>7. SUFFICES CleanOne(n)'
    BY <1>1, <2>5, <2>6 DEF Clean, CleanOne
  <2>8. CASE heap'[n].late
    BY <2>8 DEF CleanOne
  <2>9. CASE ~heap'[n].late /\ Conflicts(c)
    <3>1. ~heap[n].late /\ heap'[n].items = heap[n].items
      BY <1>1, <2>1, <2>5, <2>9 DEF CleanOne
    <3>. QED  BY <1>1, <2>1, <2>3, <2>4, <2>9, <3>1, StaysClean
  <2>10. CASE ~heap'[n].late /\ ~Conflicts(c)
    <3>1. ~heap[n].late /\ ~Late(c) /\ heap'[n].items = Append(items, NewId(c))
      BY <2>5, <2>10
    <3>2. Known(n) /\ Awaited(n) /\ items \in Seq(Id)
      BY <1>1, <2>1, <3>1 DEF CleanOne
    <3>3. ASSUME NEW d \in Callers, Makes(d)', caller'[d].since = heap'[n].since
          PROVE  d # c /\ Makes(d) /\ Drawn(d) /\ caller[d].since = heap[n].since
                 /\ Own(d)' = Own(d)
      <4>1. caller'[c] = Idle
        BY <1>1, <1>9, Counts DEF Create
      <4>2. d # c
        BY <3>3, <4>1 DEF Makes, Drawn, Idle
      <4>. QED  BY <2>4, <2>5, <3>3, <4>2, SameDrawn DEF Makes, Own
    <3>4. /\ NewId(c) \in Id
          /\ heap[n].since = resets => NewId(c) \in Ids \cup made'
          /\ \A d \in Callers : Makes(d)' /\ caller'[d].since = heap'[n].since
                               => NewId(c) # Own(d)'
      <4>1. CASE caller[c].id = None
        <5>1. NewId(c) = Own(c) /\ Makes(c) /\ caller[c].since = heap[n].since
          <6>1. NewId(c) = Own(c) /\ Makes(c)
            BY <2>1, <2>2, <4>1 DEF NewId, Own, Makes
          <6>2. ~(caller[c].since < heap[n].since)
            BY <3>1, <4>1 DEF Late
          <6>. QED  BY <2>2, <6>1, <6>2
        <5>2. NewId(c) \in Id
          BY <1>1, <2>2, <5>1, DrawnTyped
        <5>3. heap[n].since = resets => NewId(c) \in made'
          BY <1>9, <4>1, <5>1 DEF Create
        <5>4. ASSUME NEW d \in Callers, Makes(d)', caller'[d].since = heap'[n].since
              PROVE  NewId(c) # Own(d)'
          BY <2>2, <3>3, <5>1, <5>4 DEF IInv, Numbers
        <5>. QED  BY <5>2, <5>3, <5>4
      <4>2. CASE caller[c].id # None
        <5>1. NewId(c) = caller[c].id /\ NewId(c) \in Id
          BY <1>1, <4>2 DEF NewId, TypeOK
        <5>2. NewId(c) \in Ids \/ (heap[n].since = resets /\ NewId(c) \in made)
          BY <3>1, <4>2, <5>1 DEF Late
        <5>3. ASSUME NEW d \in Callers, Makes(d)', caller'[d].since = heap'[n].since
              PROVE  NewId(c) # Own(d)'
          <6>1. Own(d)' = Own(d) /\ Makes(d) /\ Drawn(d) /\ caller[d].since = heap[n].since
            BY <3>3, <5>3
          <6>2. CASE NewId(c) \in Ids
            BY <1>1, <6>1, <6>2, DrawnTyped
          <6>3. CASE heap[n].since = resets /\ NewId(c) \in made
            BY <6>1, <6>3 DEF IInv, Numbers
          <6>. QED  BY <5>2, <6>2, <6>3
        <5>. QED  BY <2>3, <5>1, <5>2, <5>3
      <4>. QED  BY <4>1, <4>2
    <3>5. \A i \in 1 .. Len(heap'[n].items) :
            heap'[n].items[i] = NewId(c) \/ \E m \in 1 .. Len(items) : heap'[n].items[i] = items[m]
      <4>1. ASSUME NEW id \in Id, NEW i \in 1 .. Len(Append(items, id))
            PROVE  Append(items, id)[i] = id \/ \E m \in 1 .. Len(items) : Append(items, id)[i] = items[m]
        <5>1. items \in Seq(Id)
          BY <3>2
        <5>. QED  BY <5>1
      <4>2. NewId(c) \in Id
        BY <3>4
      <4>3. heap'[n].items = Append(items, NewId(c))
        BY <3>1
      <4>. QED  BY <4>1, <4>2, <4>3
    <3>6. Known(n)'
      <4>1. SUFFICES ASSUME heap[n].since = resets, NEW i \in 1 .. Len(heap'[n].items)
                     PROVE  heap'[n].items[i] \in Ids \cup made'
        BY <2>3, <2>5 DEF Known
      <4>2. \A m \in 1 .. Len(items) : items[m] \in Ids \cup made'
        BY <2>3, <3>2, <4>1 DEF Known
      <4>3. NewId(c) \in Ids \cup made'
        BY <3>4, <4>1
      <4>. QED  BY <3>5, <4>1, <4>2, <4>3, Zenon
    <3>7. Awaited(n)'
      <4>1. SUFFICES ASSUME NEW d \in Callers, Makes(d)', caller'[d].since = heap'[n].since,
                            NEW i \in 1 .. Len(heap'[n].items)
                     PROVE  heap'[n].items[i] # Own(d)'
        BY DEF Awaited
      <4>2. Own(d)' = Own(d) /\ Makes(d) /\ caller[d].since = heap[n].since
        BY <3>3, <4>1
      <4>3. \A m \in 1 .. Len(items) : items[m] # Own(d)
        BY <3>2, <4>2 DEF Awaited
      <4>4. NewId(c) # Own(d)'
        BY <3>4, <4>1
      <4>5. heap'[n].items[i] = NewId(c) \/ \E m \in 1 .. Len(items) : heap'[n].items[i] = items[m]
        BY <3>5
      <4>. QED  BY <4>2, <4>3, <4>4, <4>5
    <3>. QED  BY <3>6, <3>7 DEF CleanOne
  <2>. QED  BY <2>8, <2>9, <2>10
<1>10. ASSUME \A d \in Callers : ~GoOn(d), ~Reset
       PROVE  UNCHANGED <<heap, resets, made>> /\ \A d \in Callers : ~TakeNumber(d)
  BY <1>10 DEF Next, GoOn, Serve, BodyCame, Request, Control, SwapControl, SwapLive, memory,
               folder
<1>. QED  BY <1>3, <1>4, <1>5, <1>6, <1>7, <1>8, <1>9, <1>10 DEF GoOn, Serve, BodyCame

-----------------------------------------------------------------------------
(* The theorems.                                                            *)

LEMMA InitInv ==
  ASSUME Init
  PROVE  IInv
<1>1. TypeOK
  BY CollectionsAssumption DEF Init, TypeOK, Idle, Steps, Kinds
<1>2. Held /\ FoundStays /\ InForce /\ Clean
  BY DEF Init, Held, Holds, FoundStays, InForce, Clean, Idle
<1>3. Numbers
  BY DEF Init, Numbers, Drawn, Makes, Idle
<1>. QED  BY <1>1, <1>2, <1>3 DEF IInv

LEMMA NextInv ==
  ASSUME IInv, [Next]_vars
  PROVE  IInv'
<1>1. CASE Next
  BY <1>1, TypeStep, HeldStep, InForceStep, NumbersStep, CleanStep DEF IInv
<1>2. CASE UNCHANGED vars
  <2>. USE <1>2 DEF vars, memory, folder
  <2>1. TypeOK'
    BY DEF IInv, TypeOK
  <2>2. Held' /\ FoundStays' /\ InForce'
    BY DEF IInv, Held, Holds, FoundStays, InForce
  <2>3. Numbers'
    BY DEF IInv, Numbers, Drawn, Makes, Own
  <2>4. Clean'
    BY DEF IInv, Clean, Known, Awaited, Drawn, Makes, Own
  <2>. QED  BY <2>1, <2>2, <2>3, <2>4 DEF IInv
<1>. QED  BY <1>1, <1>2

\* The inductive invariant: between two resets a number makes one id, and a collection
\* has none of the ids still to be made.
THEOREM Inductive == Spec => []IInv
<1>1. Init => IInv
  BY InitInv
<1>2. IInv /\ [Next]_vars => IInv'
  BY NextInv
<1>. QED  BY <1>1, <1>2, PTL DEF Spec

\* Handlers, callers, numbers and collections are always what they are declared to be.
THEOREM TypeCorrect == Spec => []TypeOK
<1>1. IInv => TypeOK
  BY DEF IInv
<1>. QED  BY <1>1, Inductive, PTL

\* However long a body takes and whatever else is asked, the item an update has found
\* is where it was (crud.go 122-140): the lock is held.
THEOREM ItemsFoundStay == Spec => []FoundStays
<1>1. IInv => FoundStays
  BY DEF IInv
<1>. QED  BY <1>1, Inductive, PTL

\* What IdsUnique says of a step.
Once ==
  \A k \in 1 .. Len(heap) :
    ~heap'[k].late => Twice(heap'[k].items) \subseteq Twice(heap[k].items)

\* A create adds an id that no item of the collection has.
LEMMA CreatesNew ==
  ASSUME IInv, NEW c \in Callers, Create(c), NEW n, n = caller[c].coll,
         ~heap[n].late, ~Late(c), ~Conflicts(c)
  PROVE  NewId(c) \in Id /\ \A i \in 1 .. Len(heap[n].items) : heap[n].items[i] # NewId(c)
<1>1. /\ caller[c].at = "reading" /\ caller[c].kind = "create" /\ caller[c].route \in Routes
      /\ caller[c].since \in Nat /\ caller[c].since <= heap[n].since
      /\ n \in 1 .. Len(heap) /\ heap[n] \in Collection /\ caller[c].id \in Id \cup {None}
      /\ TypeOK
  BY HeldColl DEF Create, IInv, Held, Holds, TypeOK
<1>2. heap[n].items \in Seq(Id) /\ heap[n].since \in Nat /\ Awaited(n)
  BY <1>1 DEF Collection, IInv, Clean
<1>3. CASE caller[c].id = None
  <2>1. caller[c].route # None
    BY <1>1, CollectionsAssumption
  <2>2. NewId(c) = Own(c) /\ Makes(c) /\ Drawn(c)
    BY <1>1, <1>3, <2>1 DEF NewId, Own, Makes, Drawn
  <2>3. ~(caller[c].since < heap[n].since)
    BY <1>3 DEF Late
  <2>4. caller[c].since = heap[n].since
    BY <1>1, <1>2, <2>3
  <2>. QED  BY <1>1, <1>2, <2>2, <2>4, DrawnTyped DEF Awaited
<1>4. CASE caller[c].id # None
  <2>1. NewId(c) = caller[c].id /\ Find(heap[n].items, caller[c].id) = 0
    BY <1>4 DEF NewId, Conflicts
  <2>. QED  BY <1>1, <1>2, <1>4, <2>1, FindPlace
<1>. QED  BY <1>3, <1>4

\* No step makes an id be there twice.
LEMMA OnceStep ==
  ASSUME IInv, Next
  PROVE  Once
<1>1. /\ heap \in Seq(Collection) /\ TypeOK
      /\ \A k \in 1 .. Len(heap) : heap[k] \in Collection /\ heap[k].items \in Seq(Id)
  <2>1. heap \in Seq(Collection) /\ TypeOK
    BY DEF IInv, TypeOK
  <2>2. \A k \in 1 .. Len(heap) : heap[k] \in Collection
    BY <2>1
  <2>. QED  BY <2>1, <2>2 DEF Collection
<1>2. SUFFICES ASSUME NEW k \in 1 .. Len(heap), ~heap'[k].late
               PROVE  Twice(heap'[k].items) \subseteq Twice(heap[k].items)
  BY DEF Once
<1>3. CASE heap'[k].items = heap[k].items
  BY <1>3
<1>4. ASSUME NEW c \in Callers, Fetch(c)
      PROVE  heap'[k].items = heap[k].items
  BY <1>1, <1>4 DEF Fetch
<1>5. ASSUME NEW c \in Callers, ReadBody(c) \/ BadBody(c) \/ Update(c)
      PROVE  heap'[k].items = heap[k].items
  <2>1. \E n, h : heap' = [heap EXCEPT ![n].holder = h]
    BY <1>5 DEF ReadBody, BadBody, Update
  <2>. QED  BY <1>1, <2>1 DEF Collection
<1>6. ASSUME NEW c \in Callers, Answer(c)
      PROVE  Twice(heap'[k].items) \subseteq Twice(heap[k].items)
  <2>. PICK n, j : n = caller[c].coll /\ j = Find(heap[n].items, caller[c].id)
    OBVIOUS
  <2>1. CASE heap' = heap
    BY <1>3, <2>1
  <2>2. CASE j # 0 /\ heap' = [heap EXCEPT ![n].items = Without(@, j)]
    <3>1. n \in 1 .. Len(heap) /\ heap[n].items \in Seq(Id)
      BY <1>1, <1>6, HeldColl DEF Answer
    <3>2. j \in 1 .. Len(heap[n].items)
      BY <2>2, <3>1, FindPlace
    <3>3. heap'[k].items = IF k = n THEN Without(heap[n].items, j) ELSE heap[k].items
      BY <1>1, <2>2, <3>1 DEF Collection
    <3>. QED  BY <3>1, <3>2, <3>3, WithoutTwice
  <2>. QED  BY <1>6, <2>1, <2>2 DEF Answer
<1>7. ASSUME NEW c \in Callers, Create(c)
      PROVE  Twice(heap'[k].items) \subseteq Twice(heap[k].items)
  <2>. DEFINE n == caller[c].coll
              after == IF Conflicts(c) THEN heap[n].items
                                       ELSE Append(heap[n].items, NewId(c))
              late == heap[n].late \/ Late(c)
  <2>1. n \in 1 .. Len(heap) /\ heap[n] \in Collection /\ heap[n].items \in Seq(Id)
    BY <1>1, <1>7, HeldColl DEF Create
  <2>2. heap' = [heap EXCEPT ![n] = [heap[n] EXCEPT !.holder = None, !.items = after,
                                                    !.late = late]]
    BY <1>1, <1>7, <2>1 DEF Create
  <2>3. ~late => Twice(after) \subseteq Twice(heap[n].items)
    <3>1. SUFFICES ASSUME ~late, ~Conflicts(c)
                   PROVE  Twice(Append(heap[n].items, NewId(c))) \subseteq Twice(heap[n].items)
      OBVIOUS
    <3>. PICK p : p = n
      OBVIOUS
    <3>2. /\ NewId(c) \in Id
          /\ \A i \in 1 .. Len(heap[p].items) : heap[p].items[i] # NewId(c)
      BY <1>7, <3>1, CreatesNew
    <3>. QED  BY <2>1, <3>2, AppendTwice
  <2>. HIDE DEF n, after, late
  <2>4. k # n => heap'[k] = heap[k]
    BY <1>1, <2>2
  <2>5. k = n => heap'[k].items = after /\ heap'[k].late = late
    <3>1. SUFFICES ASSUME k = n
                   PROVE  heap'[k].items = after /\ heap'[k].late = late
      OBVIOUS
    <3>2. k \in DOMAIN heap
      BY <1>1
    <3>3. heap'[k] = [heap[k] EXCEPT !.holder = None, !.items = after, !.late = late]
      BY <2>2, <3>1, <3>2
    <3>. QED  BY <2>1, <3>1, <3>3 DEF Collection
  <2>. QED  BY <1>2, <1>3, <2>3, <2>4, <2>5
<1>8. CASE UNCHANGED heap
  BY <1>3, <1>8
<1>. QED  BY <1>3, <1>4, <1>5, <1>6, <1>7, <1>8
          DEF Next, GoOn, Serve, BodyCame, Request, Control, TakeNumber, TurnAway, Reset,
              SwapControl, SwapLive, memory, folder

\* In a collection that has no id from before the last reset or from its data file, no id
\* comes to be there twice, whatever the data file holds and whatever creates, removals,
\* resets and reloads overlap.
THEOREM IdsAreUnique == Spec => IdsUnique
<1>1. IInv /\ [Next]_vars => [Once]_vars
  BY OnceStep
<1>2. [Once]_vars <=> [\A k \in 1 .. Len(heap) :
        ~heap'[k].late => Twice(heap'[k].items) \subseteq Twice(heap[k].items)]_vars
  BY DEF Once
<1>. QED  BY <1>1, <1>2, Inductive, PTL DEF Spec, IdsUnique

\* An item leaves the collection in force by a delete, a reset or another data file.
Kept ==
  \A id \in Items(current) \ (IF current' = 0 THEN {} ELSE Items(current)') :
    \/ resets' # resets
    \/ heap'[current'].data # heap[current].data
    \/ \E c \in Callers : /\ caller[c].kind = "delete" /\ caller[c].id = id
                          /\ caller[c].at = "fetched" /\ caller'[c].at = "idle"

LEMMA KeptStep ==
  ASSUME IInv, Next
  PROVE  Kept
<1>1. /\ Grows /\ TypeOK /\ current \in 0 .. Len(heap) /\ resets \in Nat
      /\ heap \in Seq(Collection) /\ \A k \in 1 .. Len(heap) : heap[k] \in Collection
  <2>1. Grows /\ TypeOK /\ current \in 0 .. Len(heap) /\ resets \in Nat
        /\ heap \in Seq(Collection)
    BY GrowsStep, Counts DEF IInv, TypeOK
  <2>. QED  BY <2>1
<1>2. SUFFICES ASSUME NEW k \in 1 .. Len(heap), k = current, NEW i \in 1 .. Len(heap[k].items),
                      resets' = resets,
                      ~(current' # 0 /\ \E m \in 1 .. Len(heap'[current'].items) :
                                            heap'[current'].items[m] = heap[k].items[i])
               PROVE  \/ heap'[current'].data # heap[current].data
                      \/ \E c \in Callers :
                           /\ caller[c].kind = "delete" /\ caller[c].id = heap[k].items[i]
                           /\ caller[c].at = "fetched" /\ caller'[c].at = "idle"
  <2>1. CASE current = 0
    BY <2>1 DEF Kept, Items
  <2>2. CASE current \in 1 .. Len(heap)
    <3>1. Items(current) = {heap[current].items[i] : i \in 1 .. Len(heap[current].items)}
      BY <1>1, <2>2 DEF Items
    <3>2. current' # 0 => Items(current)' =
            {heap'[current'].items[i] : i \in 1 .. Len(heap'[current'].items)}
      BY DEF Items
    <3>. QED  BY <1>2, <2>2, <3>1, <3>2 DEF Kept
  <2>. QED  BY <1>1, <2>1, <2>2
<1>3. CASE current' = current /\ heap'[k].items = heap[k].items
  BY <1>1, <1>2, <1>3
<1>4. CASE UNCHANGED <<current, heap>>
  BY <1>3, <1>4
<1>5. ASSUME NEW c \in Callers, Fetch(c)
      PROVE  heap'[current'].data # heap[current].data
  <2>1. current # 0 /\ ~(current' = current /\ heap' = heap)
    BY <1>1, <1>2
  <2>2. /\ heap[current].data # caller[c].data
        /\ heap' = Append(heap, Fresh(caller[c].data)) /\ current' = Len(heap')
    BY <1>5, <2>1 DEF Fetch
  <2>3. heap'[current'] = Fresh(caller[c].data)
    BY <1>1, <2>2
  <2>. QED  BY <2>2, <2>3 DEF Fresh
<1>6. ASSUME NEW c \in Callers, Answer(c)
      PROVE  \E d \in Callers :
               /\ caller[d].kind = "delete" /\ caller[d].id = heap[k].items[i]
               /\ caller[d].at = "fetched" /\ caller'[d].at = "idle"
  <2>. PICK n, j : n = caller[c].coll /\ j = Find(heap[n].items, caller[c].id)
    OBVIOUS
  <2>1. /\ caller[c].kind = "delete" /\ j # 0 /\ current' = current
        /\ heap' = [heap EXCEPT ![n].items = Without(@, j)]
    <3>1. ~(current' = current /\ heap' = heap)
      BY <1>1, <1>2
    <3>. QED  BY <1>6, <3>1 DEF Answer
  <2>2. n \in 1 .. Len(heap) /\ heap[n].items \in Seq(Id)
    BY <1>6, HeldColl DEF Answer, Collection
  <2>3. j \in 1 .. Len(heap[n].items) /\ heap[n].items[j] = caller[c].id
    BY <2>1, <2>2, FindPlace
  <2>4. n = k
    <3>1. CASE n # k
      <4>1. heap'[k] = heap[k]
        BY <1>1, <2>1, <3>1
      <4>2. current' = k /\ k # 0
        <5>1. k = current /\ k \in 1 .. Len(heap)
          BY <1>2
        <5>. QED  BY <2>1, <5>1
      <4>3. heap'[current'] = heap[k]
        BY <4>1, <4>2
      <4>. QED  BY <1>2, <4>2, <4>3
    <3>. QED  BY <3>1
  <2>5. heap'[k].items = Without(heap[k].items, j)
    BY <1>1, <2>1, <2>4 DEF Collection
  <2>6. i = j
    BY <1>2, <2>1, <2>2, <2>3, <2>4, <2>5, WithoutOthers
  <2>7. caller[c].at = "fetched" /\ caller'[c].at = "idle"
    BY <1>1, <1>6, Counts DEF Answer, Idle
  <2>. QED  BY <2>1, <2>3, <2>4, <2>6, <2>7
<1>7. ASSUME NEW c \in Callers, ReadBody(c) \/ BadBody(c) \/ Update(c)
      PROVE  FALSE
  <2>1. current' = current /\ \E n, h : heap' = [heap EXCEPT ![n].holder = h]
    BY <1>7 DEF ReadBody, BadBody, Update
  <2>2. heap'[k].items = heap[k].items
    BY <1>1, <2>1 DEF Collection
  <2>. QED  BY <1>1, <1>2, <2>1, <2>2
<1>8. ASSUME NEW c \in Callers, Create(c)
      PROVE  FALSE
  <2>. DEFINE n == caller[c].coll
              after == IF Conflicts(c) THEN heap[n].items
                                       ELSE Append(heap[n].items, NewId(c))
              late == heap[n].late \/ Late(c)
  <2>1. n \in 1 .. Len(heap) /\ heap[n] \in Collection /\ current' = current
    BY <1>8, HeldColl DEF Create
  <2>2. heap' = [heap EXCEPT ![n] = [heap[n] EXCEPT !.holder = None, !.items = after,
                                                    !.late = late]]
    BY <1>1, <1>8, <2>1 DEF Create
  <2>3. i \in 1 .. Len(heap[n].items)
        => i \in 1 .. Len(after) /\ after[i] = heap[n].items[i]
    BY <2>1 DEF Collection
  <2>. HIDE DEF n, after, late
  <2>4. IF n = k THEN heap'[k].items = after ELSE heap'[k] = heap[k]
    <3>1. CASE n = k
      <4>1. k \in DOMAIN heap
        BY <1>1
      <4>2. heap'[k] = [heap[k] EXCEPT !.holder = None, !.items = after, !.late = late]
        BY <2>2, <3>1, <4>1
      <4>. QED  BY <2>1, <3>1, <4>2 DEF Collection
    <3>2. CASE n # k
      BY <1>1, <2>2, <3>2
    <3>. QED  BY <3>1, <3>2
  <2>. QED  BY <1>1, <1>2, <2>1, <2>3, <2>4
<1>9. CASE Reset
  BY <1>1, <1>2, <1>9 DEF Reset
<1>. QED  BY <1>1, <1>2, <1>4, <1>5, <1>6, <1>7, <1>8, <1>9
          DEF Next, GoOn, Serve, BodyCame, Request, Control, TakeNumber, TurnAway,
              SwapControl, SwapLive, memory

\* Whatever overlaps, an item is in the collection in force until it is deleted, the
\* collections are reset, or the data file's content is another.
THEOREM ChangesAreKept == Spec => ChangesLast
<1>1. IInv /\ [Next]_vars => [Kept]_vars
  BY KeptStep
<1>2. [Kept]_vars <=> [\A id \in Items(current) \ (IF current' = 0 THEN {} ELSE Items(current)') :
       \/ resets' # resets
       \/ heap'[current'].data # heap[current].data
       \/ \E c \in Callers : /\ caller[c].kind = "delete" /\ caller[c].id = id
                             /\ caller[c].at = "fetched" /\ caller'[c].at = "idle"]_vars
  BY DEF Kept
<1>. QED  BY <1>1, <1>2, Inductive, PTL DEF Spec, ChangesLast
-----------------------------------------------------------------------------
(* That every caller gets its answer is a matter of fairness, and TLC's     *)
(* (CallsEnd).  What the code owes to it is not: a lock is held by a caller *)
(* that reads its body and by nobody else, so whoever waits for one waits   *)
(* for a client; and a call has four steps, whatever the others do.         *)

\* Whoever has fetched a collection finds it unlocked, or waits for one whose body is
\* still coming.
LocksEnd ==
  \A c \in Callers : caller[c].at = "fetched" /\ ~Unlocked(caller[c].coll) =>
    \E d \in Callers : caller[d].at = "reading" /\ caller[d].coll = caller[c].coll

\* No return path leaves a collection locked.
Manned ==
  \A k \in 1 .. Len(heap) : heap[k].holder # None =>
    /\ heap[k].holder \in Callers
    /\ caller[heap[k].holder].at = "reading" /\ caller[heap[k].holder].coll = k

\* A collection that is locked has had its lock before, or takes it from this step.
LEMMA LockedBefore ==
  ASSUME IInv, Manned, NEW c \in Callers, GoOn(c),
         NEW k \in 1 .. Len(heap'), heap'[k].holder # None
  PROVE  \/ /\ k \in 1 .. Len(heap) /\ heap'[k].holder = heap[k].holder
            /\ heap[k].holder # c
         \/ ReadBody(c) /\ k = caller[c].coll /\ heap'[k].holder = c
<1>1. heap \in Seq(Collection) /\ Len(heap) \in Nat
  BY DEF IInv, TypeOK
<1>2. ASSUME k \in 1 .. Len(heap), heap'[k].holder = heap[k].holder, caller[c].at # "reading"
      PROVE  heap[k].holder # c
  BY <1>2 DEF Manned
<1>3. CASE TakeNumber(c) \/ TurnAway(c)
  BY <1>1, <1>2, <1>3 DEF TakeNumber, TurnAway, memory
<1>4. CASE Fetch(c)
  <2>1. k \in 1 .. Len(heap) /\ heap'[k] = heap[k]
    <3>1. CASE UNCHANGED heap
      BY <3>1
    <3>2. CASE heap' = Append(heap, Fresh(caller[c].data))
      <4>1. Len(heap') = Len(heap) + 1 /\ heap'[Len(heap) + 1] = Fresh(caller[c].data)
        BY <1>1, <3>2
      <4>2. k # Len(heap) + 1
        BY <4>1 DEF Fresh
      <4>3. k \in 1 .. Len(heap)
        BY <1>1, <4>1, <4>2
      <4>. QED  BY <1>1, <3>2, <4>3
    <3>. QED  BY <1>4, <3>1, <3>2 DEF Fetch
  <2>. QED  BY <1>2, <1>4, <2>1 DEF Fetch
<1>5. CASE Answer(c)
  <2>. DEFINE n == caller[c].coll
  <2>1. \/ heap' = heap
        \/ \E s : heap' = [heap EXCEPT ![n].items = s]
    BY <1>5 DEF Answer
  <2>2. n \in 1 .. Len(heap) /\ heap[n] \in Collection /\ caller[c].at = "fetched"
    BY <1>5, HeldColl DEF Answer
  <2>3. k \in 1 .. Len(heap) /\ heap'[k].holder = heap[k].holder
    <3>1. CASE heap' = heap
      BY <3>1
    <3>2. ASSUME NEW s, heap' = [heap EXCEPT ![n].items = s]
          PROVE  k \in 1 .. Len(heap) /\ heap'[k].holder = heap[k].holder
      <4>. DEFINE after == [heap[n] EXCEPT !.items = s]
      <4>1. after.holder = heap[n].holder
        BY <2>2 DEF Collection
      <4>2. heap' = [heap EXCEPT ![n] = after]
        BY <3>2
      <4>. HIDE DEF after
      <4>3. Len(heap') = Len(heap) /\ DOMAIN heap = 1 .. Len(heap)
        BY <1>1, <4>2
      <4>4. heap'[k] = IF k = n THEN after ELSE heap[k]
        BY <4>2, <4>3
      <4>. QED  BY <4>1, <4>3, <4>4
    <3>. QED  BY <2>1, <3>1, <3>2
  <2>. QED  BY <1>2, <2>2, <2>3
<1>6. CASE ReadBody(c)
  <2>. DEFINE n == caller[c].coll
  <2>1. n \in 1 .. Len(heap) /\ heap[n] \in Collection /\ caller[c].at = "fetched"
    BY <1>6, HeldColl DEF ReadBody
  <2>2. heap' = [heap EXCEPT ![n].holder = c]
    BY <1>6 DEF ReadBody
  <2>3. k \in 1 .. Len(heap) /\ heap'[k].holder = IF k = n THEN c ELSE heap[k].holder
    BY <1>1, <2>1, <2>2 DEF Collection
  <2>. QED  BY <1>2, <1>6, <2>1, <2>3
<1>7. CASE BadBody(c) \/ Update(c) \/ Create(c)
  <2>. DEFINE n == caller[c].coll
  <2>1. n \in 1 .. Len(heap) /\ heap[n] \in Collection /\ caller[c].at = "reading"
    BY <1>7, HeldColl DEF BadBody, Update, Create
  <2>2. \E after : after.holder = None /\ heap' = [heap EXCEPT ![n] = after]
    <3>1. CASE BadBody(c) \/ Update(c)
      <4>. DEFINE after == [heap[n] EXCEPT !.holder = None]
      <4>1. heap' = [heap EXCEPT ![n] = after]
        BY <3>1 DEF BadBody, Update
      <4>2. after.holder = None
        BY <2>1 DEF Collection
      <4>. QED  BY <4>1, <4>2
    <3>2. CASE Create(c)
      <4>. DEFINE s == IF Conflicts(c) THEN heap[n].items ELSE Append(heap[n].items,
               NewId(c))
                  l == heap[n].late \/ Late(c)
                  after == [heap[n] EXCEPT !.holder = None, !.items = s, !.late = l]
      <4>1. heap' = [heap EXCEPT ![n].holder = None, ![n].items = s, ![n].late = l]
        BY <1>1, <2>1, <3>2 DEF Create
      <4>. HIDE DEF s, l
      <4>2. heap' = [heap EXCEPT ![n] = after]
        BY <1>1, <2>1, <4>1
      <4>3. after.holder = None
        BY <2>1 DEF Collection
      <4>. QED  BY <4>2, <4>3
    <3>. QED  BY <1>7, <3>1, <3>2
  <2>3. PICK after : after.holder = None /\ heap' = [heap EXCEPT ![n] = after]
    BY <2>2
  <2>4. k \in 1 .. Len(heap) /\ k # n /\ heap'[k] = heap[k]
    <3>1. Len(heap') = Len(heap) /\ DOMAIN heap = 1 .. Len(heap)
      BY <1>1, <2>3
    <3>2. heap'[k] = IF k = n THEN after ELSE heap[k]
      BY <2>3, <3>1
    <3>3. k # n
      BY <2>3, <3>2
    <3>. QED  BY <3>1, <3>2, <3>3
  <2>. QED  BY <2>1, <2>4 DEF Manned
<1>. QED  BY <1>3, <1>4, <1>5, <1>6, <1>7 DEF GoOn, Serve, BodyCame

LEMMA MannedStep ==
  ASSUME IInv, Manned, [Next]_vars
  PROVE  Manned'
<1>1. ASSUME NEW c \in Callers, GoOn(c)
      PROVE  Manned'
  <2>. SUFFICES ASSUME NEW k \in 1 .. Len(heap'), heap'[k].holder # None
                PROVE  /\ heap'[k].holder \in Callers
                       /\ caller'[heap'[k].holder].at = "reading"
                       /\ caller'[heap'[k].holder].coll = k
    BY DEF Manned
  <2>1. CASE /\ k \in 1 .. Len(heap) /\ heap'[k].holder = heap[k].holder
             /\ heap[k].holder # c
    BY <1>1, <2>1, OthersStand DEF Manned, IInv
  <2>2. CASE ReadBody(c) /\ k = caller[c].coll /\ heap'[k].holder = c
    <3>1. caller'[c].at = "reading" /\ caller'[c].coll = caller[c].coll
      BY <2>2, Counts DEF ReadBody, CallerOK, IInv
    <3>. QED  BY <2>2, <3>1
  <2>. QED  BY <1>1, <2>1, <2>2, LockedBefore
<1>2. ASSUME NEW c \in Callers, caller[c].at = "idle", NEW r,
             caller' = [caller EXCEPT ![c] = r], UNCHANGED heap
      PROVE  Manned'
  BY <1>2, Counts DEF Manned, IInv
<1>3. ASSUME NEW c \in Callers, NEW route \in Routes, NEW kind \in Kinds,
             NEW id \in Named \cup {None}, Request(c, kind, route, id)
      PROVE  Manned'
  BY <1>2, <1>3 DEF Request, memory
<1>4. ASSUME NEW c \in Callers, NEW kind \in Kinds, NEW id \in Named \cup {None},
             Control(c, kind, id)
      PROVE  Manned'
  BY <1>2, <1>4 DEF Control, memory
<1>5. CASE UNCHANGED <<heap, caller>>
  BY <1>5 DEF Manned
<1>. QED  BY <1>1, <1>3, <1>4, <1>5 DEF Next, Reset, SwapControl, SwapLive, vars, memory

\* Whoever waits for a collection waits for a client that sends a body: no answer and no
\* refusal leaves it locked, for any number of callers, collections and resets.
THEOREM LocksAreManned == Spec => []LocksEnd
<1>1. Init => Manned
  BY DEF Init, Manned
<1>2. IInv /\ Manned /\ [Next]_vars => Manned'
  BY MannedStep
<1>3. IInv /\ Manned => LocksEnd
  BY HeldColl DEF Manned, LocksEnd, Unlocked
<1>. QED  BY <1>1, <1>2, <1>3, Inductive, PTL DEF Spec

\* The steps a caller has still to make.
StepsLeft == [idle |-> 0, reading |-> 1, fetched |-> 2, numbered |-> 3, bound |-> 4]

\* A step of a call brings it nearer to its answer, and nobody else's step moves it.
CallsAdvance ==
  \A c \in Callers :
    /\ GoOn(c) => StepsLeft[caller'[c].at] < StepsLeft[caller[c].at]
    /\ caller[c].at # "idle" /\ ~GoOn(c) => caller'[c] = caller[c]

\* A call is answered after four steps of its own at the latest; with LocksAreManned
\* that is what CallsEnd asks of the code.
THEOREM CallsAreShort == Spec => [][CallsAdvance]_vars
<1>1. ASSUME TypeOK, Next, NEW c \in Callers, GoOn(c)
      PROVE  StepsLeft[caller'[c].at] < StepsLeft[caller[c].at]
  <2>1. \/ caller[c].at = "bound" /\ caller'[c].at = "numbered"
        \/ caller[c].at = "numbered" /\ caller'[c].at \in {"fetched", "idle"}
        \/ caller[c].at = "fetched" /\ caller'[c].at \in {"reading", "idle"}
        \/ caller[c].at = "reading" /\ caller'[c].at = "idle"
    BY <1>1, Counts DEF GoOn, Serve, BodyCame, TakeNumber, TurnAway, Fetch, Answer,
                        ReadBody, BadBody, Update, Create, Idle, CallerOK
  <2>. QED  BY <2>1 DEF StepsLeft
<1>2. ASSUME TypeOK, Next, NEW c \in Callers, caller[c].at # "idle", ~GoOn(c)
      PROVE  caller'[c] = caller[c]
  <2>1. ASSUME NEW d \in Callers, NEW r, caller[d].at = "idle",
               caller' = [caller EXCEPT ![d] = r]
        PROVE  caller'[c] = caller[c]
    BY <1>2, <2>1, Counts
  <2>2. ASSUME NEW d \in Callers, GoOn(d)
        PROVE  caller'[c] = caller[c]
    BY <1>2, <2>2, OthersStand
  <2>3. ASSUME NEW d \in Callers, NEW route \in Routes, NEW kind \in Kinds,
               NEW id \in Named \cup {None}, Request(d, kind, route, id) \/ Control(d, kind, id)
        PROVE  caller'[c] = caller[c]
    BY <2>1, <2>3 DEF Request, Control
  <2>4. ASSUME NEW d \in Callers, NEW kind \in Kinds, NEW id \in Named \cup {None},
               Control(d, kind, id)
        PROVE  caller'[c] = caller[c]
    BY <2>1, <2>4 DEF Control
  <2>. QED  BY <1>2, <2>2, <2>3, <2>4 DEF Next, Reset, SwapControl, SwapLive
<1>3. TypeOK /\ [Next]_vars => [CallsAdvance]_vars
  BY <1>1, <1>2 DEF CallsAdvance
<1>. QED  BY <1>3, TypeCorrect, PTL DEF Spec
=============================================================================
