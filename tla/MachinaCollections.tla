--------------------------- MODULE MachinaCollections ---------------------------
(***************************************************************************)
(* The CRUD collections of mock_machina: internal/server/crud.go, the part *)
(* of a request's way through server.go that leads to them, Memory.Reset   *)
(* (memory.go), what the control API shows and deletes of a collection     *)
(* (ops.go), and a reload that brings another data file.                   *)
(*                                                                         *)
(* There is one collection; several routes may share it.  Every request    *)
(* and every call of the control API runs on a goroutine of its own, here  *)
(* a caller.  Of an item only its id is kept.  The collection in force is  *)
(* a pointer in the memory: a caller fetches it in one step and locks it   *)
(* in a later one, when another may be in force.                           *)
(***************************************************************************)
EXTENDS Integers, Sequences, FiniteSets

CONSTANTS
  Callers,    \* goroutines
  Routes,     \* the CRUD routes of the collection
  Ids,        \* ids that clients choose
  Data,       \* what data/<collection>.json may hold
  Seed,       \* the ids of the items in it, as they are: nobody looks for repeated ones
  None,
  MaxCalls,   \* bound: requests and control calls
  MaxResets,  \* bound: resets
  MaxEdits    \* bound: reloads that bring another data file

\* The UUID made for a call of a route; a client or a data file has such a one only
\* from an answer.
Made(route, number) == <<route, number>>

Id == Ids \cup (Routes \X Nat)

ASSUME CollectionsAssumption ==
  /\ \A id \in Ids : id \notin Routes \X Nat
  /\ None \notin Id \cup Callers \cup Routes
  /\ Data # {} /\ Seed \in [Data -> Seq(Id)]
  /\ MaxCalls \in Nat /\ MaxResets \in Nat /\ MaxEdits \in Nat

VARIABLES
  handler, project,  \* the data file of the routes served, and of the control API's
  calls,    \* Memory.calls
  current,  \* Memory.collections: the number of the collection in force, 0 for none
  heap,     \* every collection made, those no longer in force too
  caller,   \* what each caller does
  begun, resets, edits,  \* bounds; the properties read resets too
  made      \* history: the ids made from numbers drawn since the last reset

memory == <<calls, current, heap>>
folder == <<handler, project, edits>>
vars   == <<memory, folder, caller, begun, resets, made>>

\* A collection: the data it was made from, its items and who has its lock.
\* For the properties: the reset it was made after, and whether an item has an id in it
\* that was made from a number drawn before that, or came from the data file.
Collection ==
  [data : Data, items : Seq(Id), holder : Callers \cup {None}, since : Nat, late : BOOLEAN]

Kinds == {"read", "create", "update", "delete"}

\* Where a caller is: a request is bound to its route, has its number, has fetched the
\* collection, and waits for its body with the lock held.
Steps == {"idle", "bound", "numbered", "fetched", "reading"}

Idle == [at |-> "idle", kind |-> "read", route |-> None, id |-> None, data |-> None,
         number |-> 0, since |-> 0, coll |-> 0, index |-> 0]

TypeOK ==
  /\ handler \in Data /\ project \in Data
  /\ calls \in [Routes -> Nat]
  /\ heap \in Seq(Collection) /\ current \in 0 .. Len(heap)
  /\ \A c \in Callers :
       /\ caller[c] \in [at : Steps, kind : Kinds, route : Routes \cup {None},
                         id : Id \cup {None}, data : Data \cup {None}, number : Nat,
                         since : 0 .. resets, coll : 0 .. Len(heap), index : Nat]
       /\ caller[c].at = "fetched" => caller[c].coll # 0
  /\ DOMAIN caller = Callers
  /\ begun \in 0 .. MaxCalls /\ resets \in 0 .. MaxResets /\ edits \in 0 .. MaxEdits
  /\ made \in SUBSET (Routes \X Nat)

Init ==
  /\ handler \in Data /\ project = handler
  /\ calls = [r \in Routes |-> 0] /\ current = 0 /\ heap = <<>>
  /\ caller = [c \in Callers |-> Idle]
  /\ begun = 0 /\ resets = 0 /\ edits = 0 /\ made = {}

-----------------------------------------------------------------------------
(* A request up to the collection: serveRoute.                              *)

\* The mux hands the request to the handler of that moment.  A create may name no id;
\* which item is read makes no difference.
Request(c, kind, route, id) ==
  /\ caller[c].at = "idle" /\ begun < MaxCalls
  /\ kind \in {"update", "delete"} => id # None
  /\ kind = "read" => id = None
  /\ caller' = [caller EXCEPT ![c] =
       [Idle EXCEPT !.at = "bound", !.kind = kind, !.route = route, !.id = id,
                    !.data = handler]]
  /\ begun' = begun + 1
  /\ UNCHANGED <<memory, folder, resets, made>>

\* Mutant: the number is looked at and not counted.
TakeNumberUncounted(c) ==
  /\ caller[c].at = "bound"
  /\ caller' = [caller EXCEPT ![c].at = "numbered", ![c].since = resets,
                              ![c].number = calls[caller[c].route] + 1]
  /\ UNCHANGED <<memory, folder, begun, resets, made>>

\* Memory.call
TakeNumber(c) ==
  /\ caller[c].at = "bound"
  /\ calls' = [calls EXCEPT ![caller[c].route] = @ + 1]
  /\ caller' = [caller EXCEPT ![c].at = "numbered", ![c].since = resets,
                              ![c].number = calls'[caller[c].route]]
  /\ UNCHANGED <<current, heap, folder, begun, resets, made>>

\* Another state is picked, the request is refused, or its client leaves while it is
\* held back: the collection is not asked.
TurnAway(c) ==
  /\ caller[c].at = "numbered"
  /\ caller' = [caller EXCEPT ![c] = Idle]
  /\ UNCHANGED <<memory, folder, begun, resets, made>>

\* Items and DeleteItem: the dashboard and the control API, from their own project.
Control(c, kind, id) ==
  /\ caller[c].at = "idle" /\ begun < MaxCalls
  /\ (kind = "delete" /\ id # None) \/ (kind = "read" /\ id = None)
  /\ caller' = [caller EXCEPT ![c] =
       [Idle EXCEPT !.at = "numbered", !.kind = kind, !.id = id, !.data = project]]
  /\ begun' = begun + 1
  /\ UNCHANGED <<memory, folder, resets, made>>

-----------------------------------------------------------------------------
(* The collection.                                                          *)

Fresh(data) == [data |-> data, items |-> Seed[data], holder |-> None, since |-> resets,
                late |-> \E i \in 1 .. Len(Seed[data]) : Seed[data][i] \notin Ids]

\* Mutant: a collection is made anew when the project was loaded anew.
FetchAnew(c) ==
  /\ caller[c].at = "numbered"
  /\ heap' = Append(heap, Fresh(caller[c].data))
  /\ current' = Len(heap')
  /\ caller' = [caller EXCEPT ![c].at = "fetched", ![c].coll = current']
  /\ UNCHANGED <<calls, folder, begun, resets, made>>

\* Memory.collection: the one in force if it was made from the same data.
Fetch(c) ==
  /\ caller[c].at = "numbered"
  /\ IF current # 0 /\ heap[current].data = caller[c].data
     THEN UNCHANGED <<current, heap>>
     ELSE heap' = Append(heap, Fresh(caller[c].data)) /\ current' = Len(heap')
  /\ caller' = [caller EXCEPT ![c].at = "fetched", ![c].coll = current']
  /\ UNCHANGED <<calls, folder, begun, resets, made>>

Places(items, id) == {i \in 1 .. Len(items) : items[i] = id}

\* c.find: the first item with the id, 0 for none.
Find(items, id) ==
  IF Places(items, id) = {} THEN 0
  ELSE CHOOSE i \in Places(items, id) : \A j \in Places(items, id) : i <= j

\* slices.Delete
Without(items, i) == SubSeq(items, 1, i - 1) \o SubSeq(items, i + 1, Len(items))

\* Mutant: the lock is taken by whoever wants it.
UnlockedAnyway(coll) == heap[coll].data \in Data

Unlocked(coll) == heap[coll].holder = None

\* Under the lock, without a wait: a list, an item, a removal, an answer that there is
\* none.
Answer(c) ==
  LET k == caller[c].coll
      i == Find(heap[k].items, caller[c].id)
  IN  /\ caller[c].at = "fetched" /\ Unlocked(k)
      /\ caller[c].kind \in {"read", "delete"} \/ (caller[c].kind = "update" /\ i = 0)
      /\ heap' = IF caller[c].kind = "delete" /\ i # 0
                 THEN [heap EXCEPT ![k].items = Without(@, i)]
                 ELSE heap
      /\ caller' = [caller EXCEPT ![c] = Idle]
      /\ UNCHANGED <<calls, current, folder, begun, resets, made>>

\* A create, and an update of an item that is there, keep the lock while the body is
\* read from the client.
ReadBody(c) ==
  LET k == caller[c].coll
      i == IF caller[c].kind = "update" THEN Find(heap[k].items, caller[c].id) ELSE 0
  IN  /\ caller[c].at = "fetched" /\ Unlocked(k)
      /\ caller[c].kind = "create" \/ (caller[c].kind = "update" /\ i # 0)
      /\ heap' = [heap EXCEPT ![k].holder = c]
      /\ caller' = [caller EXCEPT ![c].at = "reading", ![c].index = i]
      /\ UNCHANGED <<calls, current, folder, begun, resets, made>>

\* Mutant: a refused body keeps the lock.
BadBodyLocked(c) ==
  /\ caller[c].at = "reading"
  /\ UNCHANGED heap
  /\ caller' = [caller EXCEPT ![c] = Idle]
  /\ UNCHANGED <<calls, current, folder, begun, resets, made>>

\* The body is no object, or its client is gone.
BadBody(c) ==
  /\ caller[c].at = "reading"
  /\ heap' = [heap EXCEPT ![caller[c].coll].holder = None]
  /\ caller' = [caller EXCEPT ![c] = Idle]
  /\ UNCHANGED <<calls, current, folder, begun, resets, made>>

\* The item found before the body was read gets other values and keeps its place and id.
Update(c) ==
  /\ caller[c].at = "reading" /\ caller[c].kind = "update"
  /\ heap' = [heap EXCEPT ![caller[c].coll].holder = None]
  /\ caller' = [caller EXCEPT ![c] = Idle]
  /\ UNCHANGED <<calls, current, folder, begun, resets, made>>

\* The id an item is created under.
NewId(c) == IF caller[c].id = None THEN Made(caller[c].route, caller[c].number)
                                   ELSE caller[c].id

\* 409
Conflicts(c) == caller[c].id # None /\ Find(heap[caller[c].coll].items, caller[c].id) # 0

\* The id was made before the last reset or may have been: by this request, from the
\* number it had drawn, or by one whose answer the client has it from.
Late(c) ==
  LET since == heap[caller[c].coll].since
  IN  IF caller[c].id = None THEN caller[c].since < since
      ELSE caller[c].id \notin Ids /\ (since # resets \/ caller[c].id \notin made)

\* An id that the client chose must be new; one that is made is not looked for.
Create(c) ==
  LET k == caller[c].coll
  IN  /\ caller[c].at = "reading" /\ caller[c].kind = "create"
      /\ heap' = [heap EXCEPT
           ![k].holder = None,
           ![k].items = IF Conflicts(c) THEN @ ELSE Append(@, NewId(c)),
           ![k].late = @ \/ Late(c)]
      /\ made' = IF caller[c].id = None /\ caller[c].since = resets
                 THEN made \cup {NewId(c)} ELSE made
      /\ caller' = [caller EXCEPT ![c] = Idle]
      /\ UNCHANGED <<calls, current, folder, begun, resets>>

-----------------------------------------------------------------------------
(* Resets and reloads.                                                      *)

\* Memory.Reset: the numbers begin again and no collection is in force.
Reset ==
  /\ resets < MaxResets /\ resets' = resets + 1
  /\ calls' = [r \in Routes |-> 0] /\ current' = 0
  /\ made' = {}
  /\ UNCHANGED <<heap, folder, caller, begun>>

\* A reload swaps the handler first and the control API's project then; a caller keeps
\* the route it was bound to.
SwapLive(data) ==
  /\ handler = project /\ data # handler
  /\ edits < MaxEdits /\ edits' = edits + 1
  /\ handler' = data
  /\ UNCHANGED <<memory, project, caller, begun, resets, made>>

SwapControl ==
  /\ project # handler /\ project' = handler
  /\ UNCHANGED <<memory, handler, edits, caller, begun, resets, made>>

-----------------------------------------------------------------------------
\* Ids that a caller may name: one that clients choose, or one it was given.
Named == Ids \cup UNION {{heap[k].items[i] : i \in 1 .. Len(heap[k].items)} : k \in 1 .. Len(heap)}

\* What a goroutine does by itself once it has its request,
Serve(c) == TakeNumber(c) \/ TurnAway(c) \/ Fetch(c) \/ Answer(c) \/ ReadBody(c)

\* and what it does once its client has sent the body or is gone.
BodyCame(c) == BadBody(c) \/ Update(c) \/ Create(c)

GoOn(c) == Serve(c) \/ BodyCame(c)

Next ==
  \/ \E c \in Callers :
       \/ \E route \in Routes, kind \in Kinds, id \in Named \cup {None} :
            Request(c, kind, route, id)
       \/ \E kind \in Kinds, id \in Named \cup {None} : Control(c, kind, id)
       \/ GoOn(c)
  \/ Reset \/ SwapControl
  \/ \E data \in Data : SwapLive(data)

Spec == Init /\ [][Next]_vars

\* A goroutine goes on, and a mutex that is free again and again is not kept from one
\* that waits for it.  Nothing makes a client send its body or leave: the server has a
\* limit for the headers of a request (start.go:451) and none for its body.
FairSpec == Spec /\ \A c \in Callers : SF_vars(Serve(c))

-----------------------------------------------------------------------------
(* Properties.                                                              *)

Items(k) == IF k = 0 THEN {} ELSE {heap[k].items[i] : i \in 1 .. Len(heap[k].items)}

\* The ids that more than one item has.
Twice(items) ==
  {items[i] : i \in {i \in 1 .. Len(items) :
                       \E j \in 1 .. Len(items) : j # i /\ items[j] = items[i]}}

\* No id comes to be in a collection twice: whatever creates, removals, reloads and
\* resets overlap, "a missing id is filled in with a UUID; an existing one is a 409"
\* (docs/file-format.md:337).  An id that is there twice was so in the data file, which
\* is not searched for repeated ids (config/crud.go 71-92).  Left out, as late, is a
\* collection that has an id made before the last reset or from its data file, as the
\* same numbers make the same ids again.
IdsUnique ==
  [][\A k \in 1 .. Len(heap) :
       ~heap'[k].late => Twice(heap'[k].items) \subseteq Twice(heap[k].items)]_vars

\* The item an update has found is where it was when its body has come, however long
\* that takes (crud.go 122-140, 207-227).
FoundStays ==
  \A c \in Callers : caller[c].at = "reading" /\ caller[c].kind = "update" =>
    LET items == heap[caller[c].coll].items
    IN  caller[c].index \in 1 .. Len(items) /\ items[caller[c].index] = caller[c].id

\* "Changes last while the server runs" (docs/file-format.md:342): an item leaves the
\* collection in force when somebody deletes it, by a reset, or because the data
\* file's content is another - not by a reload of anything else.
ChangesLast ==
  [][\A id \in Items(current) \ (IF current' = 0 THEN {} ELSE Items(current)') :
       \/ resets' # resets
       \/ heap'[current'].data # heap[current].data
       \/ \E c \in Callers : /\ caller[c].kind = "delete" /\ caller[c].id = id
                             /\ caller[c].at = "fetched" /\ caller'[c].at = "idle"]_vars

\* Everybody gets an answer as long as bodies come: if no client keeps the server
\* waiting for its body for ever, no caller waits for ever, though the lock is held while
\* a body comes (crud.go:122) and others take it in between.
CallsEnd ==
  (\A c \in Callers : []<>(caller[c].at # "reading")) =>
    \A c \in Callers : caller[c].at # "idle" ~> caller[c].at = "idle"
=============================================================================
