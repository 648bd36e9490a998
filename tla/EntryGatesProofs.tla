--------------------------- MODULE EntryGatesProofs ---------------------------
(***************************************************************************)
(* The ceiling of EntryGates for any number of pairs, any ceiling and any  *)
(* window: a reservation is exactly one entry on its way, and the book     *)
(* together with the entries on their way stays within the ceiling, the    *)
(* recovered ones aside.                                                   *)
(***************************************************************************)
EXTENDS EntryGates, FiniteSetTheorems, TLAPS

\* the entries counted in entriesInFlight, and those of them not yet in the book
Reserved == {p \in Pairs : task[p].kind = "entry"}
Pending == {p \in Pairs : task[p].kind = "entry" /\ task[p].pc # "recorded"}

\* an entry is under way only while it is emitted; its answer is that of its row
TasksAgree ==
    \A p \in Pairs :
        /\ task[p].pc \in {"idle", "next"} => task[p].kind = "none"
        /\ task[p].pc = "emit" => task[p].kind \in {"entry", "close"}
        /\ task[p].kind = "close" => task[p].uxid \in Uxids
        /\ task[p].pc = "answer" => outbox[p].kind = task[p].kind /\ outbox[p].uxid \in Uxids

WithinBudget == Ceiling > 0 => Cardinality(open \ late) + Cardinality(Pending) <= Ceiling

Inv ==
    /\ TypeOK
    /\ TasksAgree
    /\ \A p \in Pairs : outbox[p] = NoRow \/ outbox[p].uxid \in Uxids
    /\ entriesInFlight = Cardinality(Reserved)
    /\ WithinBudget

-----------------------------------------------------------------------------
(* There are finitely many pairs and cycles, so their sets have a size. *)
LEMMA FiniteBooks == IsFiniteSet(Pairs) /\ IsFiniteSet(Uxids)
  <1>1. IsFiniteSet(Pairs) BY EntryGatesAssumption
  <1>2. IsFiniteSet(1..CyclesPerPair) BY EntryGatesAssumption, FS_Interval
  <1> QED BY <1>1, <1>2, FS_Product DEF Uxids

(* A subset of a finite set is counted by a natural number no larger. *)
LEMMA Counts ==
    ASSUME NEW S, IsFiniteSet(S), NEW T \in SUBSET S
    PROVE  IsFiniteSet(T) /\ Cardinality(T) \in Nat /\ Cardinality(T) <= Cardinality(S)
<1>1. IsFiniteSet(T) /\ Cardinality(T) <= Cardinality(S)
    BY FS_Subset
<1> QED BY <1>1, FS_CardinalityType

(* The sets that the invariant counts are finite, and none of their sizes exceeds what
   the account check compares with the ceiling. *)
LEMMA SizesAreNumbers ==
    ASSUME Inv
    PROVE  /\ IsFiniteSet(Reserved) /\ IsFiniteSet(Pending) /\ IsFiniteSet(open \ late)
           /\ Cardinality(Reserved) \in Nat /\ Cardinality(Pending) \in Nat
           /\ Cardinality(open \ late) \in Nat /\ Cardinality(open) \in Nat
           /\ Cardinality(Pending) <= Cardinality(Reserved)
           /\ Cardinality(open \ late) <= Cardinality(open)
<1>1. Reserved \in SUBSET Pairs /\ open \in SUBSET Uxids
    BY DEF Reserved, Inv, TypeOK
<1>2. Pending \in SUBSET Reserved
    BY DEF Pending, Reserved
<1>3. IsFiniteSet(Reserved) /\ Cardinality(Reserved) \in Nat
    BY <1>1, FiniteBooks, Counts
<1>4. IsFiniteSet(open) /\ Cardinality(open) \in Nat
    BY <1>1, FiniteBooks, Counts
<1>5. IsFiniteSet(Pending) /\ Cardinality(Pending) \in Nat
      /\ Cardinality(Pending) <= Cardinality(Reserved)
    BY <1>2, <1>3, Counts
<1>6. open \ late \in SUBSET open
    OBVIOUS
<1> QED BY <1>3, <1>4, <1>5, <1>6, Counts

(* A step that reserves nothing and releases nothing keeps both counts. *)
LEMMA SameEntries ==
    ASSUME Inv, \A p \in Pairs : /\ task'[p].kind = task[p].kind
                                 /\ task[p].kind = "entry" => (task'[p].pc = "recorded" <=>
                                                      task[p].pc = "recorded")
    PROVE  Reserved' = Reserved /\ Pending' = Pending
BY DEF Reserved, Pending

(* Giving a reservation back takes the pair out of both sets, and the count with it. *)
LEMMA ReleaseCounts ==
    ASSUME Inv, NEW p \in Pairs, task[p].pc \in {"emit", "answer", "recorded"}, Release(p)
    PROVE  /\ task' \in [Pairs -> Tasks]
           /\ \A q \in Pairs : q # p => task'[q] = task[q]
           /\ task'[p].pc = "next" /\ task'[p].kind = "none"
           /\ entriesInFlight' \in Nat
           /\ entriesInFlight' = Cardinality(Reserved')
           /\ Pending' = Pending \ {p}
<1>1. task \in [Pairs -> Tasks] /\ task[p] \in Tasks
    BY DEF Inv, TypeOK
<1>2. task' = [task EXCEPT ![p] = [task[p] EXCEPT !.pc = "next", !.kind = "none", !.uxid = NoUxid]]
    BY <1>1 DEF Release, Tasks
<1>3. [task[p] EXCEPT !.pc = "next", !.kind = "none", !.uxid = NoUxid] \in Tasks
    BY <1>1 DEF Tasks
<1>4. /\ task' \in [Pairs -> Tasks]
      /\ \A q \in Pairs : q # p => task'[q] = task[q]
    BY <1>1, <1>2, <1>3
<1>5. task'[p].pc = "next" /\ task'[p].kind = "none"
    BY <1>1, <1>2 DEF Tasks
<1>6. Reserved' = Reserved \ {p} /\ Pending' = Pending \ {p}
    BY <1>4, <1>5 DEF Reserved, Pending
<1>7. Cardinality(Reserved \ {p}) = IF p \in Reserved THEN Cardinality(Reserved) - 1
                                                      ELSE Cardinality(Reserved)
    BY SizesAreNumbers, FS_RemoveElement
<1>8. entriesInFlight' = Cardinality(Reserved')
    BY <1>1, <1>6, <1>7 DEF Release, Reserved, Inv, Tasks
<1>9. Cardinality(Reserved') \in Nat
    <2>1. Reserved' \in SUBSET Pairs
        BY <1>6 DEF Reserved
    <2> QED BY <2>1, FiniteBooks, Counts
<1> QED BY <1>4, <1>5, <1>6, <1>8, <1>9

(* Fewer entries on their way and a book that gains nothing stay in the budget. *)
LEMMA BudgetKept ==
    ASSUME Inv, open' \ late' \subseteq open \ late, Pending' \subseteq Pending
    PROVE  WithinBudget'
<1>1. Cardinality(open' \ late') \in Nat /\ Cardinality(open' \ late') <= Cardinality(open \ late)
    BY SizesAreNumbers, Counts
<1>2. Cardinality(Pending') \in Nat /\ Cardinality(Pending') <= Cardinality(Pending)
    BY SizesAreNumbers, Counts
<1>3. Ceiling \in Nat
    BY EntryGatesAssumption
<1> QED BY <1>1, <1>2, <1>3, SizesAreNumbers DEF WithinBudget, Inv

\* a set of uxids is what a strategy's result and a flatten close
LEMMA OpenCyclesAreUxids ==
    ASSUME Inv, NEW p \in Pairs
    PROVE  OpenCycles(p) \subseteq Uxids
BY DEF OpenCycles, Inv, TypeOK

-----------------------------------------------------------------------------
(* The initial state: nothing is open and nothing is on its way. *)
LEMMA InitHolds == Init => Inv
<1> SUFFICES ASSUME Init PROVE Inv
    OBVIOUS
<1>1. Idle \in Tasks
    BY EntryGatesAssumption DEF Idle, Task, Tasks
<1>2. TypeOK
    BY <1>1, EntryGatesAssumption DEF Init, TypeOK, Rows
<1>3. Reserved = {} /\ Pending = {}
    BY DEF Init, Reserved, Pending, Idle, Task
<1>4. TasksAgree /\ \A p \in Pairs : outbox[p] = NoRow
    BY DEF Init, TasksAgree, Idle, Task
<1>5. entriesInFlight = Cardinality(Reserved)
    BY <1>3, FS_EmptySet DEF Init
<1>6. open \ late = {}
    BY DEF Init
<1>7. WithinBudget
    BY <1>3, <1>6, FS_EmptySet, EntryGatesAssumption DEF WithinBudget
<1> QED BY <1>2, <1>4, <1>5, <1>7 DEF Inv

(* A new piece of work is a task, and reserves nothing. *)
LEMMA WorkIsATask ==
    ASSUME NEW m \in Nat, NEW from \in {"bar", "tick", "sweep", "flat"},
           NEW n \in 0..MaxEntries, NEW C \in SUBSET Uxids
    PROVE  LET t == Task("next", m, from, n, C)
           IN t \in Tasks /\ t.pc = "next" /\ t.kind = "none"
BY DEF Task, Tasks

(* The steps that only choose what to do next: a bar, a tick, the sweep, a close taken
   up, an entry dropped, the end of a result, and the clock. *)
LEMMA ChoosingKeeps ==
    ASSUME Inv, NEW p \in Pairs,
           ClockTicks \/ TickArrives(p) \/ Sweep(p) \/ TakeClose(p) \/ DropEntry(p)
           \/ EndOfResult(p) \/ \E o \in StartTime..(now - 1) : BarCloses(p, o)
    PROVE  Inv'
<1> USE EntryGatesAssumption
<1>1. /\ task \in [Pairs -> Tasks] /\ task[p] \in Tasks
      /\ now \in Nat /\ OpenCycles(p) \in SUBSET Uxids
    BY OpenCyclesAreUxids DEF Inv, TypeOK
<1> DEFINE Moves == /\ task' \in [Pairs -> Tasks]
                    /\ \A q \in Pairs : q # p => task'[q] = task[q]
                    /\ task'[p].kind = task[p].kind \/ task'[p].kind = "close"
                    /\ task[p].kind = "none"
                    /\ task'[p].pc \in {"idle", "next"} => task'[p].kind = "none"
                    /\ task'[p].pc = "emit" => task'[p].kind = "close"
                    /\ task'[p].kind = "close" => task'[p].uxid \in Uxids
                    /\ task'[p].pc \in {"idle", "next", "emit"}
<1>2. ASSUME NEW r \in Results(p), NEW m \in Nat, NEW from \in {"bar", "tick"},
             task[p].pc = "idle", Decide(p, m, from, r)
      PROVE  Moves /\ decided' \in Nat
    <2>1. r.entries \in 0..MaxEntries /\ r.closes \in SUBSET OpenCycles(p)
        BY DEF Results
    <2>2. IsFiniteSet(r.closes) /\ Cardinality(r.closes) \in Nat
        BY <1>1, <2>1, FiniteBooks, Counts
    <2>3. decided' \in Nat
        <3>1. decided \in Nat
            BY DEF Inv, TypeOK
        <3>2. decided' = decided + Cardinality(r.closes)
            BY <1>2 DEF Decide
        <3> QED BY <2>2, <3>1, <3>2
    <2> DEFINE t == Task("next", m, from, r.entries, r.closes)
    <2>4. t \in Tasks /\ t.pc = "next" /\ t.kind = "none"
        BY <1>1, <2>1, WorkIsATask
    <2>5. task' = [task EXCEPT ![p] = t] /\ task[p].kind = "none"
        BY <1>2 DEF Decide, Inv, TasksAgree
    <2> HIDE DEF t
    <2> QED BY <1>1, <2>3, <2>4, <2>5
<1>3. ASSUME Moves, UNCHANGED outbox PROVE TasksAgree'
    BY <1>3 DEF Inv, TasksAgree
<1>4. ASSUME Moves PROVE Reserved' = Reserved /\ Pending' = Pending
    BY <1>4 DEF Reserved, Pending
<1>5. CASE Moves /\ UNCHANGED <<open, late, outbox, entriesInFlight>> /\ TypeOK'
    BY <1>3, <1>4, <1>5 DEF Inv, WithinBudget
<1> HIDE DEF Moves
<1>6. CASE ClockTicks
    <2>1. Reserved' = Reserved /\ Pending' = Pending /\ TasksAgree'
        BY <1>6 DEF ClockTicks, Reserved, Pending, Inv, TasksAgree
    <2> QED BY <1>6, <2>1 DEF ClockTicks, Inv, TypeOK, WithinBudget, book, bounds
<1>7. CASE TickArrives(p)
    <2>1. Moves /\ decided' \in Nat
        BY <1>1, <1>2, <1>7 DEF TickArrives
    <2>2. task' \in [Pairs -> Tasks]
        BY <2>1 DEF Moves
    <2> QED BY <1>5, <1>7, <2>1, <2>2 DEF TickArrives, Inv, TypeOK, book
<1>8. CASE \E o \in StartTime..(now - 1) : BarCloses(p, o)
    <2>1. PICK o \in StartTime..(now - 1) : BarCloses(p, o)
        BY <1>8
    <2>2. o \in Nat /\ newest' \in [Pairs -> Int]
        BY <1>1, <2>1 DEF BarCloses, Inv, TypeOK
    <2>3. CASE UNCHANGED <<task, decided>>
        <3>1. Reserved' = Reserved /\ Pending' = Pending /\ TasksAgree'
            BY <2>1, <2>3 DEF BarCloses, Reserved, Pending, Inv, TasksAgree
        <3> QED BY <2>1, <2>2, <2>3, <3>1 DEF BarCloses, Inv, TypeOK, WithinBudget, book
    <2>4. CASE \E r \in Results(p) : Decide(p, o, "bar", r)
        <3>1. Moves /\ decided' \in Nat
            BY <1>2, <2>1, <2>2, <2>4 DEF BarCloses
        <3>2. task' \in [Pairs -> Tasks]
            BY <3>1 DEF Moves
        <3> QED BY <1>5, <2>1, <2>2, <3>1, <3>2 DEF BarCloses, Inv, TypeOK, book
    <2> QED BY <2>1, <2>3, <2>4 DEF BarCloses
<1>9. ASSUME NEW t \in Tasks, task' = [task EXCEPT ![p] = t],
             task[p].kind = "none",
             \/ t.kind = "none" /\ t.pc \in {"idle", "next"}
             \/ t.kind = "close" /\ t.pc = "emit" /\ t.uxid \in Uxids,
             UNCHANGED <<now, newest, open, built, entriesInFlight, uncertain, outbox,
                         ticks, decided, late>>
      PROVE  Inv'
    <2>1. Moves
        BY <1>1, <1>9 DEF Moves
    <2>2. TypeOK'
        BY <1>1, <1>9 DEF Inv, TypeOK
    <2> QED BY <1>5, <1>9, <2>1, <2>2
<1>10. CASE Sweep(p)
    <2> DEFINE t == Task("next", now, "sweep", 0, OpenCycles(p))
    <2>1. t \in Tasks /\ t.pc \in {"idle", "next"} /\ t.kind = "none"
        BY <1>1, WorkIsATask
    <2>2. task' = [task EXCEPT ![p] = t] /\ task[p].kind = "none"
        BY <1>10 DEF Sweep, Inv, TasksAgree
    <2>6. UNCHANGED <<now, newest, open, built, entriesInFlight, uncertain, outbox,
                       ticks, decided, late>>
        BY <1>10 DEF Sweep, book, bounds
    <2> HIDE DEF t
    <2> QED BY <1>9, <2>1, <2>2, <2>6
<1>11. CASE TakeClose(p)
    <2>1. PICK u \in task[p].closes :
            task' = [task EXCEPT ![p].pc = "emit", ![p].kind = "close", ![p].uxid = u,
                                 ![p].closes = @ \ {u}]
        BY <1>11 DEF TakeClose
    <2> DEFINE t == [task[p] EXCEPT !.pc = "emit", !.kind = "close", !.uxid = u,
                                    !.closes = task[p].closes \ {u}]
    <2>2. u \in Uxids /\ task[p].closes \in SUBSET Uxids
        BY <1>1, <2>1 DEF Tasks
    <2>3. t \in Tasks /\ t.pc = "emit" /\ t.kind = "close" /\ t.uxid \in Uxids
        BY <1>1, <2>2 DEF Tasks
    <2>4. task' = [task EXCEPT ![p] = t] /\ task[p].kind = "none"
        BY <1>1, <1>11, <2>1 DEF TakeClose, Inv, TasksAgree, Tasks
    <2>6. UNCHANGED <<now, newest, open, built, entriesInFlight, uncertain, outbox,
                       ticks, decided, late>>
        BY <1>11 DEF TakeClose, book, bounds
    <2> HIDE DEF t
    <2> QED BY <1>9, <2>3, <2>4, <2>6
<1>12. CASE DropEntry(p)
    <2> DEFINE t == [task[p] EXCEPT !.entries = task[p].entries - 1]
    <2>1. task[p].entries - 1 \in 0..MaxEntries /\ task[p].pc = "next"
        BY <1>1, <1>12 DEF DropEntry, Tasks
    <2>3. task' = [task EXCEPT ![p] = t] /\ task[p].kind = "none"
        BY <1>1, <1>12 DEF DropEntry, Inv, TasksAgree, Tasks
    <2>2. t \in Tasks /\ t.pc \in {"idle", "next"} /\ t.kind = "none"
        BY <1>1, <2>1, <2>3 DEF Tasks
    <2>6. UNCHANGED <<now, newest, open, built, entriesInFlight, uncertain, outbox,
                       ticks, decided, late>>
        BY <1>12 DEF DropEntry, book, bounds
    <2> HIDE DEF t
    <2> QED BY <1>9, <2>2, <2>3, <2>6
<1>13. CASE EndOfResult(p)
    <2> DEFINE f == Task("next", task[p].moment, "flat", 0, OpenCycles(p))
               t == IF task[p].from = "bar" /\ MarketIsShut(p) THEN f ELSE Idle
    <2>1. task[p].moment \in Nat
        BY <1>1 DEF Tasks
    <2>2. f \in Tasks /\ f.pc = "next" /\ f.kind = "none"
        BY <1>1, <2>1, WorkIsATask
    <2>3. Idle \in Tasks /\ Idle.pc = "idle" /\ Idle.kind = "none"
        BY DEF Idle, Task, Tasks
    <2>4. task' = [task EXCEPT ![p] = t] /\ task[p].kind = "none"
        BY <1>13 DEF EndOfResult, Inv, TasksAgree
    <2> HIDE DEF f
    <2>5. t \in Tasks /\ t.pc \in {"idle", "next"} /\ t.kind = "none"
        BY <2>2, <2>3
    <2>6. UNCHANGED <<now, newest, open, built, entriesInFlight, uncertain, outbox,
                       ticks, decided, late>>
        BY <1>13 DEF EndOfResult, book, bounds
    <2> HIDE DEF t
    <2> QED BY <1>9, <2>4, <2>5, <2>6
<1> QED BY <1>6, <1>7, <1>8, <1>10, <1>11, <1>12, <1>13

(* An entry is admitted below the ceiling, and counted from then on. *)
LEMMA AdmissionKeeps ==
    ASSUME Inv, NEW p \in Pairs, AdmitEntry(p)
    PROVE  Inv'
<1> USE EntryGatesAssumption
<1>1. /\ task \in [Pairs -> Tasks] /\ task[p] \in Tasks
      /\ task[p].pc = "next" /\ task[p].kind = "none"
      /\ task[p].entries - 1 \in 0..MaxEntries
    BY DEF AdmitEntry, Inv, TypeOK, TasksAgree, Tasks
<1> DEFINE t == [task[p] EXCEPT !.pc = "emit", !.kind = "entry", !.uxid = NoUxid,
                                !.entries = task[p].entries - 1]
<1>2. t \in Tasks /\ t.pc = "emit" /\ t.kind = "entry"
    BY <1>1 DEF Tasks
<1>3. task' = [task EXCEPT ![p] = t]
    BY <1>1 DEF AdmitEntry, Tasks
<1> HIDE DEF t
<1>4. Reserved' = Reserved \cup {p} /\ Pending' = Pending \cup {p}
    BY <1>1, <1>2, <1>3 DEF Reserved, Pending
<1>5. p \notin Reserved /\ p \notin Pending
    BY <1>1 DEF Reserved, Pending
<1>6. /\ Cardinality(Reserved') = Cardinality(Reserved) + 1
      /\ Cardinality(Pending') = Cardinality(Pending) + 1
    BY <1>4, <1>5, SizesAreNumbers, FS_AddElement
<1>7. entriesInFlight' = Cardinality(Reserved') /\ entriesInFlight' \in Nat
    BY <1>6, SizesAreNumbers DEF AdmitEntry, Inv
<1>8. UNCHANGED <<now, newest, open, built, uncertain, outbox, ticks, decided, late>>
    BY DEF AdmitEntry, book, bounds
<1>9. TypeOK'
    BY <1>1, <1>2, <1>3, <1>7, <1>8 DEF Inv, TypeOK
<1>10. TasksAgree'
    BY <1>1, <1>2, <1>3, <1>8 DEF Inv, TasksAgree
<1>11. WithinBudget'
    <2>1. Ceiling > 0 => Cardinality(open) + entriesInFlight < Ceiling
        BY SizesAreNumbers DEF AdmitEntry, AccountIsFull, Inv
    <2>2. Ceiling > 0 => Cardinality(open \ late) + Cardinality(Pending) < Ceiling
        BY <2>1, SizesAreNumbers DEF Inv
    <2> QED BY <1>6, <1>8, <2>2, SizesAreNumbers DEF WithinBudget
<1> QED BY <1>7, <1>8, <1>9, <1>10, <1>11 DEF Inv

(* An intent comes to its end and gives its reservation back; nothing enters the book. *)
LEMMA EndingKeeps ==
    ASSUME Inv, NEW p \in Pairs,
           task[p].pc \in {"emit", "answer", "recorded"}, Release(p),
           outbox' \in [Pairs -> Rows], \A q \in Pairs : q # p => outbox'[q] = outbox[q],
           uncertain' \subseteq Pairs, built' \subseteq Uxids,
           UNCHANGED <<now, newest, open, ticks, decided, late>>
    PROVE  Inv'
<1>1. /\ task' \in [Pairs -> Tasks]
      /\ \A q \in Pairs : q # p => task'[q] = task[q]
      /\ task'[p].pc = "next" /\ task'[p].kind = "none"
      /\ entriesInFlight' \in Nat
      /\ entriesInFlight' = Cardinality(Reserved')
      /\ Pending' = Pending \ {p}
    BY ReleaseCounts
<1>2. TypeOK'
    BY <1>1 DEF Inv, TypeOK
<1>3. TasksAgree'
    BY <1>1 DEF Inv, TasksAgree
<1>4. WithinBudget'
    BY <1>1, BudgetKept
<1>5. \A q \in Pairs : outbox'[q] = NoRow \/ outbox'[q].uxid \in Uxids
    BY DEF Rows
<1> QED BY <1>1, <1>2, <1>3, <1>4, <1>5 DEF Inv

(* The ways an intent ends: dropped, not staged, refused, recorded or unanswered. *)
LEMMA EndsKeep ==
    ASSUME Inv, NEW p \in Pairs,
           DropIntent(p) \/ StageFails(p) \/ Recorded(p) \/ Refused(p) \/ Unanswered(p)
    PROVE  Inv'
<1>1. /\ outbox \in [Pairs -> Rows] /\ uncertain \subseteq Pairs /\ built \subseteq Uxids
      /\ open \subseteq Uxids /\ task[p] \in Tasks
    BY DEF Inv, TypeOK
<1>2. CASE DropIntent(p)
    BY <1>1, <1>2, EndingKeeps DEF DropIntent, book, bounds
<1>3. CASE StageFails(p)
    <2>1. PICK u \in Buildable(p) :
            /\ built' = built \cup {u}
            /\ \/ outbox' = [outbox EXCEPT ![p] = [kind |-> task[p].kind, uxid |-> u]]
               \/ UNCHANGED outbox
        BY <1>3 DEF StageFails
    <2>3. task[p].kind \in {"entry", "close"}
          /\ (task[p].kind = "close" => task[p].uxid \in Uxids)
        BY <1>3 DEF StageFails, Inv, TasksAgree
    <2>2. u \in Uxids
        BY <1>1, <2>1, <2>3 DEF Buildable
    <2>4. [kind |-> task[p].kind, uxid |-> u] \in Rows
        BY <2>2, <2>3 DEF Rows
    <2>5. outbox' \in [Pairs -> Rows] /\ \A q \in Pairs : q # p => outbox'[q] = outbox[q]
        BY <1>1, <2>1, <2>4
    <2> QED BY <1>1, <1>3, <2>1, <2>2, <2>5, EndingKeeps DEF StageFails, bounds
<1>4. CASE Recorded(p)
    <2>1. outbox' \in [Pairs -> Rows] /\ \A q \in Pairs : q # p => outbox'[q] = outbox[q]
        BY <1>1, <1>4 DEF Recorded, Settled, Rows
    <2>2. uncertain' \subseteq Pairs
        BY <1>1, <1>4 DEF Recorded, Settled
    <2> QED BY <1>1, <1>4, <2>1, <2>2, EndingKeeps DEF Recorded, book, bounds
<1>5. CASE Refused(p)
    <2>1. outbox' \in [Pairs -> Rows] /\ \A q \in Pairs : q # p => outbox'[q] = outbox[q]
        BY <1>1, <1>5 DEF Refused, Settled, Rows
    <2>2. uncertain' \subseteq Pairs
        BY <1>1, <1>5 DEF Refused, Settled
    <2> QED BY <1>1, <1>5, <2>1, <2>2, EndingKeeps DEF Refused, book, bounds
<1>6. CASE Unanswered(p)
    BY <1>1, <1>6, EndingKeeps DEF Unanswered, book, bounds
<1> QED BY <1>2, <1>3, <1>4, <1>5, <1>6

(* An intent is staged: its row carries it. *)
LEMMA StagingKeeps ==
    ASSUME Inv, NEW p \in Pairs, Stage(p)
    PROVE  Inv'
<1>1. /\ task \in [Pairs -> Tasks] /\ task[p] \in Tasks /\ outbox \in [Pairs -> Rows]
      /\ open \subseteq Uxids /\ built \subseteq Uxids
      /\ task[p].kind \in {"entry", "close"} /\ task[p].pc = "emit"
      /\ task[p].kind = "close" => task[p].uxid \in Uxids
    BY DEF Stage, Inv, TypeOK, TasksAgree
<1>2. PICK u \in Buildable(p) :
        /\ task' = [task EXCEPT ![p].pc = "answer", ![p].uxid = u]
        /\ built' = built \cup {u}
        /\ outbox' = [outbox EXCEPT ![p] = [kind |-> task[p].kind, uxid |-> u]]
    BY DEF Stage
<1>3. u \in Uxids
    BY <1>1, <1>2 DEF Buildable
<1> DEFINE t == [task[p] EXCEPT !.pc = "answer", !.uxid = u]
           row == [kind |-> task[p].kind, uxid |-> u]
<1>4. t \in Tasks /\ t.pc = "answer" /\ t.kind = task[p].kind /\ t.uxid = u
    BY <1>1, <1>3 DEF Tasks
<1>5. row \in Rows /\ row.kind = task[p].kind /\ row.uxid = u
    BY <1>1, <1>3 DEF Rows
<1>6. task' = [task EXCEPT ![p] = t] /\ outbox' = [outbox EXCEPT ![p] = row]
    BY <1>1, <1>2 DEF Tasks
<1>7. UNCHANGED <<now, newest, open, entriesInFlight, ticks, decided, late>>
      /\ uncertain' = uncertain \cup {p}
    BY DEF Stage, bounds
<1> HIDE DEF t, row
<1>8. TypeOK'
    <2>1. task' \in [Pairs -> Tasks] /\ outbox' \in [Pairs -> Rows]
        BY <1>1, <1>4, <1>5, <1>6
    <2>2. built' \subseteq Uxids /\ uncertain' \subseteq Pairs
        BY <1>1, <1>2, <1>3, <1>7 DEF Inv, TypeOK
    <2> QED BY <1>7, <2>1, <2>2 DEF Inv, TypeOK
<1>9. TasksAgree'
    BY <1>1, <1>3, <1>4, <1>5, <1>6 DEF Inv, TasksAgree
<1>10. Reserved' = Reserved /\ Pending' = Pending
    BY <1>1, <1>4, <1>6 DEF Reserved, Pending
<1>11. \A q \in Pairs : outbox'[q] = NoRow \/ outbox'[q].uxid \in Uxids
    BY <1>1, <1>3, <1>5, <1>6 DEF Inv
<1> QED BY <1>7, <1>8, <1>9, <1>10, <1>11 DEF Inv, WithinBudget

(* An accepted entry moves from the entries on their way to the book; a close takes a
   cycle from it. *)
LEMMA AcceptanceKeeps ==
    ASSUME Inv, NEW p \in Pairs, Accepted(p)
    PROVE  Inv'
<1>1. /\ task \in [Pairs -> Tasks] /\ task[p] \in Tasks /\ open \subseteq Uxids
      /\ task[p].pc = "answer"
      /\ outbox[p].kind = task[p].kind /\ outbox[p].uxid \in Uxids
    BY DEF Accepted, Inv, TypeOK, TasksAgree
<1> DEFINE t == [task[p] EXCEPT !.pc = "recorded"]
           u == outbox[p].uxid
<1>2. t \in Tasks /\ t.pc = "recorded" /\ t.kind = task[p].kind /\ t.uxid = task[p].uxid
    BY <1>1 DEF Tasks
<1>3. task' = [task EXCEPT ![p] = t]
    BY <1>1 DEF Accepted, Tasks
<1>4. UNCHANGED <<now, newest, built, entriesInFlight, uncertain, outbox, ticks, decided, late>>
    BY DEF Accepted, bounds
<1> HIDE DEF t
<1>5. open' \subseteq Uxids /\ open' = IF task[p].kind = "entry" THEN open \cup {u} ELSE open \ {u}
    BY <1>1 DEF Accepted, Committed
<1>6. TypeOK' /\ TasksAgree'
    BY <1>1, <1>2, <1>3, <1>4, <1>5 DEF Inv, TypeOK, TasksAgree
<1>7. Reserved' = Reserved /\ Pending' = Pending \ {p}
    BY <1>1, <1>2, <1>3 DEF Reserved, Pending
<1>8. CASE task[p].kind = "entry"
    <2>1. p \in Pending
        BY <1>1, <1>8 DEF Pending
    <2>2. Cardinality(Pending') = Cardinality(Pending) - 1
        BY <1>7, <2>1, SizesAreNumbers, FS_RemoveElement
    <2>3. open' \ late' \in SUBSET ((open \ late) \cup {u})
        BY <1>4, <1>5
    <2>4. /\ IsFiniteSet((open \ late) \cup {u})
          /\ Cardinality((open \ late) \cup {u}) \in Nat
          /\ Cardinality((open \ late) \cup {u}) <= Cardinality(open \ late) + 1
        <3> DEFINE S == open \ late
        <3>1. IsFiniteSet(S) /\ Cardinality(S) \in Nat
            BY SizesAreNumbers
        <3> HIDE DEF S
        <3>2. /\ IsFiniteSet(S \cup {u})
              /\ Cardinality(S \cup {u}) = IF u \in S THEN Cardinality(S) ELSE Cardinality(S) + 1
            BY <3>1, FS_AddElement
        <3>3. Cardinality(S \cup {u}) \in Nat /\ Cardinality(S \cup {u}) <= Cardinality(S) + 1
            BY <3>1, <3>2
        <3> QED BY <3>2, <3>3 DEF S
    <2>5. /\ Cardinality(open' \ late') \in Nat
          /\ Cardinality(open' \ late') <= Cardinality((open \ late) \cup {u})
        BY <2>3, <2>4, Counts
    <2>6. WithinBudget'
        BY <2>2, <2>4, <2>5, SizesAreNumbers, EntryGatesAssumption DEF Inv, WithinBudget
    <2> QED BY <1>4, <1>6, <1>7, <2>6 DEF Inv
<1>9. CASE task[p].kind # "entry"
    <2>1. open' \ late' \subseteq open \ late
        BY <1>4, <1>5, <1>9
    <2>2. WithinBudget'
        BY <1>7, <2>1, BudgetKept
    <2> QED BY <1>4, <1>6, <1>7, <2>2 DEF Inv
<1> QED BY <1>8, <1>9

(* What the recovery brings into the book is counted as late; a restart drops the
   reservations together with the work they belonged to. *)
LEMMA RecoveryKeeps ==
    ASSUME Inv, (\E p \in Pairs : Recovers(p)) \/ Restart
    PROVE  Inv'
<1>0. /\ task \in [Pairs -> Tasks] /\ outbox \in [Pairs -> Rows]
      /\ open \subseteq Uxids /\ late \subseteq Uxids /\ uncertain \subseteq Pairs
    BY DEF Inv, TypeOK
<1>1. ASSUME NEW p \in Pairs, Recovers(p)
      PROVE  Inv'
    <2>1. task[p].pc = "idle" /\ UNCHANGED <<now, newest, task, built, entriesInFlight, ticks, decided>>
        BY <1>1 DEF Recovers, RecoverAccepted, RecoverNothing, book, bounds
    <2>2. Reserved' = Reserved /\ Pending' = Pending
        BY <2>1 DEF Reserved, Pending
    <2>3. /\ uncertain' \subseteq Pairs
          /\ outbox' = outbox \/ outbox' = [outbox EXCEPT ![p] = NoRow]
        BY <1>0, <1>1 DEF Recovers, RecoverAccepted, RecoverNothing, Settled
    <2>4. /\ outbox' \in [Pairs -> Rows]
          /\ \A q \in Pairs : q # p => outbox'[q] = outbox[q]
          /\ \A q \in Pairs : outbox'[q] = NoRow \/ outbox'[q].uxid \in Uxids
        BY <1>0, <2>3 DEF Rows, Inv
    <2>5. TasksAgree'
        BY <2>1, <2>4 DEF Inv, TasksAgree
    <2>6. open' \subseteq Uxids /\ late' \subseteq Uxids /\ open' \ late' \subseteq open \ late
        <3>1. CASE RecoverAccepted(p)
            <4>1. outbox[p].uxid \in Uxids
                BY <3>1 DEF RecoverAccepted, Inv
            <4> QED BY <1>0, <3>1, <4>1 DEF RecoverAccepted, Committed
        <3>2. CASE RecoverNothing(p)
            BY <1>0, <3>2 DEF RecoverNothing, book
        <3> QED BY <1>1, <3>1, <3>2 DEF Recovers
    <2>7. WithinBudget'
        BY <2>2, <2>6, BudgetKept
    <2>8. TypeOK'
        BY <2>1, <2>3, <2>4, <2>6 DEF Inv, TypeOK
    <2> QED BY <2>1, <2>2, <2>4, <2>5, <2>7, <2>8 DEF Inv
<1>2. CASE Restart
    <2>1. Idle \in Tasks /\ Idle.pc = "idle" /\ Idle.kind = "none"
        BY EntryGatesAssumption DEF Idle, Task, Tasks
    <2>2. task' = [q \in Pairs |-> Idle] /\ entriesInFlight' = 0 /\ uncertain' \subseteq Pairs
          /\ UNCHANGED <<now, newest, open, built, outbox, ticks, decided, late>>
        BY <1>2 DEF Restart, book, bounds
    <2>3. Reserved' = {} /\ Pending' = {}
        BY <2>1, <2>2 DEF Reserved, Pending
    <2>4. entriesInFlight' = Cardinality(Reserved')
        BY <2>2, <2>3, FS_EmptySet
    <2>5. WithinBudget'
        BY <2>2, <2>3, BudgetKept
    <2>6. TypeOK' /\ TasksAgree'
        BY <2>1, <2>2 DEF Inv, TypeOK, TasksAgree
    <2> QED BY <2>2, <2>4, <2>5, <2>6 DEF Inv
<1> QED BY <1>1, <1>2

-----------------------------------------------------------------------------
(* Every step of the engine keeps the invariant. *)
LEMMA StepKeeps == Inv /\ [Next]_vars => Inv'
<1> SUFFICES ASSUME Inv, [Next]_vars PROVE Inv'
    OBVIOUS
<1>1. CASE UNCHANGED vars
    BY <1>1 DEF vars, book, bounds, Inv, TypeOK, TasksAgree, WithinBudget, Reserved, Pending
<1>2. CASE ClockTicks
    <2>1. CASE Pairs = {}
        BY <1>2, <2>1 DEF ClockTicks, book, bounds, Inv, TypeOK, TasksAgree, WithinBudget,
                          Reserved, Pending
    <2>2. CASE Pairs # {}
        BY <1>2, <2>2, ChoosingKeeps
    <2> QED BY <2>1, <2>2
<1>3. ASSUME NEW p \in Pairs,
             \/ \E o \in StartTime..(now - 1) : BarCloses(p, o)
             \/ TickArrives(p) \/ Sweep(p) \/ Emits(p) \/ Recovers(p)
      PROVE  Inv'
    BY <1>3, ChoosingKeeps, AdmissionKeeps, EndsKeep, StagingKeeps, AcceptanceKeeps,
       RecoveryKeeps DEF Emits
<1>4. CASE Restart
    BY <1>4, RecoveryKeeps
<1> QED BY <1>1, <1>2, <1>3, <1>4 DEF Next

(* The invariant holds throughout. *)
LEMMA Invariance == Spec => []Inv
BY InitHolds, StepKeeps, PTL DEF Spec

(* Every variable keeps its type; the count of entries in flight is never negative. *)
THEOREM EntryGatesTypeCorrect == Spec => []TypeOK
<1>1. Inv => TypeOK
    BY DEF Inv
<1> QED BY <1>1, Invariance, PTL

(* The book exceeds the ceiling only by entries the recovery has brought in. *)
THEOREM CeilingBoundsTheBook == Spec => []OnlyRecoveriesOverfill
<1>1. Inv => OnlyRecoveriesOverfill
    BY SizesAreNumbers, EntryGatesAssumption DEF Inv, WithinBudget, OnlyRecoveriesOverfill
<1> QED BY <1>1, Invariance, PTL

(* A book with no work under way has no reservation left. *)
THEOREM NoReservationLeaks == Spec => []ReservationsReturn
<1>1. Inv => ReservationsReturn
    <2> SUFFICES ASSUME Inv, \A p \in Pairs : task[p].pc = "idle" PROVE entriesInFlight = 0
        BY DEF ReservationsReturn
    <2>1. Reserved = {}
        BY DEF Reserved, Inv, TasksAgree
    <2> QED BY <2>1, FS_EmptySet DEF Inv
<1> QED BY <1>1, Invariance, PTL
================================================================================
