------------------------ MODULE SignalDeliveryProofs ------------------------
(***************************************************************************)
(* What SignalDelivery promises for any pairs, any number of rows, any     *)
(* page size, horizon and clock.                                           *)
(***************************************************************************)
EXTENDS SignalDelivery, TLAPS, FiniteSetTheorems

\* Applying a command leaves a book of positions.
LEMMA CommitType ==
    ASSUME NEW b \in [Ids -> Position], NEW i \in Ids,
           command \in [Ids -> CommandType]
    PROVE  Commit(b, i) \in [Ids -> Position]
<1>1. NoPosition \in Position
  BY DEF NoPosition, Position, Full
<1>2. ASSUME NEW pos \in Position, NEW action
      PROVE  ApplyClose(pos, action, i) \in Position
  BY DEF ApplyClose, NoPosition, Position, Full
<1>3. [remaining |-> Full, applied |-> {i}] \in Position
  BY DEF Position, Full
<1>4. \A c \in Ids : b[c] \in Position
  OBVIOUS
<1>5. CASE command[i].cycle \in Ids
  BY <1>2, <1>3, <1>4, <1>5 DEF Commit
<1>6. CASE command[i].cycle \notin Ids
  BY <1>6 DEF Commit
<1> QED BY <1>5, <1>6

\* The end of a task leaves tasks, the blocked pairs and the scan well formed.
LEMMA ReturnType ==
    ASSUME TypeOK, NEW p \in Pairs, NEW ok \in BOOLEAN, Return(p, ok)
    PROVE  /\ task' \in [Pairs -> TaskType]
           /\ uncertain' \in SUBSET Pairs
           /\ scan' \in ScanType
<1>1. IdleTask \in TaskType
  BY DEF IdleTask, TaskType, PhaseType, Outcomes, NoId
<1>2. task' \in [Pairs -> TaskType]
  BY <1>1 DEF Return, TypeOK
<1>3. uncertain' \in SUBSET Pairs
  BY DEF Return, TypeOK
<1>4. scan' \in ScanType
  <2>1. CASE task[p].by = "scan"
    <3> DEFINE pc == IF scan.page = {} THEN "query" ELSE "page"
               resolved == IF ok THEN scan.resolved \cup {p} ELSE scan.resolved
               blocked == IF ok THEN scan.blocked ELSE scan.blocked \cup {p}
    <3>1. scan' = [scan EXCEPT !.pc = pc, !.row = NoId, !.resolved = resolved,
                               !.blocked = blocked]
      BY <2>1 DEF Return
    <3>2. pc \in {"query", "page"} /\ resolved \in SUBSET Pairs /\ blocked \in SUBSET Pairs
      BY DEF TypeOK, ScanType
    <3> HIDE DEF pc, resolved, blocked
    <3> QED BY <3>1, <3>2 DEF TypeOK, ScanType, NoId
  <2> QED BY <2>1 DEF Return, TypeOK
<1> QED BY <1>2, <1>3, <1>4

LEMMA InitType == Init => TypeOK
<1> SUFFICES ASSUME Init PROVE TypeOK OBVIOUS
<1>1. NoPosition \in Position
  BY DEF NoPosition, Position, Full
<1>2. 0 \in Times /\ Never \in Times \cup {Never} /\ 1 \in Ids \cup {MaxRows + 1}
  BY BoundAssumption DEF Times, Never, Ids
<1>3. NoCommand \in CommandType /\ IdleTask \in TaskType /\ IdleScan \in ScanType
  BY DEF NoCommand, CommandType, IdleTask, TaskType, PhaseType, Outcomes,
         IdleScan, ScanType, NoId
<1> QED BY <1>1, <1>2, <1>3 DEF Init, TypeOK, EmptyBook


-----------------------------------------------------------------------------
(* The inductive invariant.                                                *)

\* Where a row can stand once the runner knows a result for it.
Compatible(result) ==
    CASE result = "sent" -> {"unknown", "sent_pending", "sent"}
      [] result = "shadow" -> {"prepared", "unknown", "shadow_pending", "shadow"}
      [] result = "failed" -> {"unknown", "failed"}
      [] OTHER -> {"unknown"}

\* Ids from nextId on are unused; every other belongs to a pair.
Allocated ==
    \A i \in Ids : IF i < nextId THEN PairOf(i) \in Pairs
                   ELSE PairOf(i) = "none" /\ status[i] = "none" /\ pending[i] = "none"

\* The holder of a pair's lock works on a row of that pair, and the row's
\* status is the one its phase leaves it in.
TaskMatchesRow(p) ==
    LET i == task[p].id
        pc == task[p].pc
    IN  /\ i \in Ids /\ i < nextId /\ PairOf(i) = p
        /\ task[p].by \in {"handler", "scan"}
        /\ pc \in {"stage", "staged", "mark", "send", "sending"} =>
               pending[i] = "none" /\ task[p].out = "none"
        /\ pc = "stage" => status[i] = "none"
        /\ pc = "staged" => status[i] = "prepared"
        /\ pc \in {"stage", "staged"} => task[p].ambiguous = FALSE /\ task[p].by = "handler"
        /\ pc = "mark" => status[i] = IF task[p].ambiguous THEN "unknown" ELSE "prepared"
        /\ pc \in {"send", "sending"} => status[i] = "unknown"
        /\ pc \in {"checkpoint", "redis", "postgres"} => task[p].out \in Accepted
        /\ pc \in {"checkpoint", "redis", "postgres", "final"} =>
               /\ task[p].out # "none"
               /\ status[i] \in Compatible(task[p].out)
               /\ task[p].out # "unknown" => pending[i] = task[p].out
               /\ task[p].out = "unknown" => pending[i] = "none"
Phases == \A p \in Pairs : task[p].pc # "idle" => TaskMatchesRow(p)

ResultsMatch == \A i \in Ids : pending[i] # "none" => status[i] \in Compatible(pending[i])

ScanSeesRows ==
    /\ \A i \in scan.page : status[i] # "none"
    /\ scan.pc = "lock" => scan.row \in Ids /\ status[scan.row] # "none"
    /\ scan.pc = "row" =>
           /\ scan.row \in Ids /\ status[scan.row] # "none"
           /\ task[PairOf(scan.row)].pc # "idle"
           /\ task[PairOf(scan.row)].by = "scan"
           /\ task[PairOf(scan.row)].id = scan.row
    /\ \A p \in Pairs : task[p].pc # "idle" /\ task[p].by = "scan" =>
           scan.pc = "row" /\ PairOf(scan.row) = p

IInv == TypeOK /\ Allocated /\ Phases /\ ResultsMatch /\ ScanSeesRows /\ PreparedNeverSent

-----------------------------------------------------------------------------
(* Lemmas about the steps of one task.                                     *)

\* A task that only moves on keeps its type, its row and its owner.
LEMMA GotoFacts ==
    ASSUME TypeOK, NEW p \in Pairs, NEW pc \in PhaseType, Goto(p, pc)
    PROVE  /\ task' \in [Pairs -> TaskType]
           /\ task'[p] = [task[p] EXCEPT !.pc = pc]
           /\ \A q \in Pairs \ {p} : task'[q] = task[q]
<1>1. task[p] \in TaskType /\ task'[p] = [task[p] EXCEPT !.pc = pc]
  BY DEF Goto, TypeOK
<1>2. [task[p] EXCEPT !.pc = pc] \in TaskType
  BY <1>1 DEF TaskType
<1> QED BY <1>1, <1>2 DEF Goto, TypeOK

\* A task that is done leaves the pair's lock free and nothing else changed
\* among the tasks.
LEMMA ReturnFacts ==
    ASSUME TypeOK, NEW p \in Pairs, NEW ok \in BOOLEAN, Return(p, ok)
    PROVE  /\ task' \in [Pairs -> TaskType]
           /\ task'[p] = IdleTask
           /\ \A q \in Pairs \ {p} : task'[q] = task[q]
           /\ uncertain' \in SUBSET Pairs
           /\ scan' \in ScanType
           /\ scan'.page = scan.page
           /\ task[p].by = "handler" => scan' = scan
           /\ task[p].by = "scan" => scan'.pc \in {"query", "page"}
           /\ task[p].by \in {"handler", "scan"}
<1>1. /\ task' \in [Pairs -> TaskType] /\ uncertain' \in SUBSET Pairs
      /\ scan' \in ScanType
  BY ReturnType
<1>2. task'[p] = IdleTask /\ \A q \in Pairs \ {p} : task'[q] = task[q]
  BY DEF Return, TypeOK
<1>3. CASE task[p].by = "handler"
  BY <1>1, <1>2, <1>3 DEF Return
<1>4. CASE task[p].by = "scan"
  <2>1. scan'.page = scan.page /\ scan'.pc \in {"query", "page"}
    BY <1>4 DEF Return, TypeOK, ScanType
  <2> QED BY <1>1, <1>2, <1>4, <2>1
<1> QED BY <1>3, <1>4 DEF Return

\* A step of p's task on rows of p disturbs no other task: the rows of two
\* busy pairs differ because their pairs do.
LEMMA OthersUndisturbed ==
    ASSUME IInv, NEW p \in Pairs,
           \A q \in Pairs \ {p} : task'[q] = task[q],
           \A j \in Ids : PairOf(j) # p =>
               status'[j] = status[j] /\ pending'[j] = pending[j],
           command' = command, nextId' = nextId
    PROVE  \A q \in Pairs \ {p} : task'[q].pc # "idle" => TaskMatchesRow(q)'
<1> SUFFICES ASSUME NEW q \in Pairs \ {p}, task'[q].pc # "idle"
             PROVE  TaskMatchesRow(q)'
  OBVIOUS
<1>1. TaskMatchesRow(q)
  BY DEF IInv, Phases
<1>2. task'[q] = task[q] /\ PairOf(task[q].id)' = PairOf(task[q].id)
  BY DEF PairOf
<1>3. status'[task[q].id] = status[task[q].id] /\ pending'[task[q].id] = pending[task[q].id]
  BY <1>1 DEF TaskMatchesRow
<1> QED BY <1>1, <1>2, <1>3 DEF TaskMatchesRow, Compatible

\* The scan's view of the rows survives any step that leaves the scan alone,
\* deletes no row, and neither starts nor ends a task of the scan.
LEMMA ScanUndisturbed ==
    ASSUME IInv, scan' = scan,
           \A i \in Ids : status[i] # "none" => status'[i] # "none",
           \A i \in Ids : status[i] # "none" => PairOf(i)' = PairOf(i),
           \A q \in Pairs :
               \/ task'[q] = task[q]
               \/ /\ task[q].pc # "idle" /\ task'[q].pc # "idle"
                  /\ task'[q].by = task[q].by /\ task'[q].id = task[q].id
               \/ /\ task[q].pc = "idle" \/ task[q].by = "handler"
                  /\ task'[q].pc = "idle" \/ task'[q].by = "handler"
    PROVE  ScanSeesRows'
<1>1. /\ ScanSeesRows /\ Allocated /\ scan.page \subseteq Ids
      /\ scan.row \in Ids \cup {NoId} /\ nextId \in Ids \cup {MaxRows + 1}
  BY DEF IInv, TypeOK, ScanType
<1>2. \A i \in Ids : status[i] # "none" => PairOf(i) \in Pairs
  BY <1>1 DEF Allocated
<1>3. (\A i \in scan.page : status[i] # "none")'
  BY <1>1 DEF ScanSeesRows
<1>4. (scan.pc = "lock" => scan.row \in Ids /\ status[scan.row] # "none")'
  BY <1>1 DEF ScanSeesRows
<1>5. ASSUME scan.pc = "row"
      PROVE  /\ scan.row \in Ids /\ status'[scan.row] # "none"
             /\ PairOf(scan.row)' = PairOf(scan.row)
             /\ task'[PairOf(scan.row)].pc # "idle"
             /\ task'[PairOf(scan.row)].by = "scan"
             /\ task'[PairOf(scan.row)].id = scan.row
  BY <1>1, <1>2, <1>5 DEF ScanSeesRows
<1>6. ASSUME NEW q \in Pairs, task'[q].pc # "idle", task'[q].by = "scan"
      PROVE  scan.pc = "row" /\ PairOf(scan.row)' = q
  BY <1>1, <1>5, <1>6 DEF ScanSeesRows
<1> QED BY <1>3, <1>4, <1>5, <1>6 DEF ScanSeesRows

\* The end of p's task, whoever ran it, keeps the scan's view.
LEMMA ScanReturns ==
    ASSUME IInv, NEW p \in Pairs, NEW ok \in BOOLEAN, task[p].pc # "idle",
           Return(p, ok), command' = command,
           \A i \in Ids : status[i] # "none" => status'[i] # "none"
    PROVE  ScanSeesRows'
<1>1. TypeOK /\ ScanSeesRows
  BY DEF IInv
<1>2. /\ task'[p] = IdleTask /\ \A q \in Pairs \ {p} : task'[q] = task[q]
      /\ scan'.page = scan.page
      /\ task[p].by = "handler" => scan' = scan
      /\ task[p].by = "scan" => scan'.pc \in {"query", "page"}
      /\ task[p].by \in {"handler", "scan"}
  BY <1>1, ReturnFacts
<1>3. CASE task[p].by = "handler"
  BY <1>2, <1>3, ScanUndisturbed DEF PairOf, IdleTask
<1>4. CASE task[p].by = "scan"
  <2>1. \A q \in Pairs : task[q].pc # "idle" /\ task[q].by = "scan" => q = p
    BY <1>1, <1>4 DEF ScanSeesRows
  <2>2. (\A i \in scan.page : status[i] # "none")'
    BY <1>1, <1>2 DEF ScanSeesRows, TypeOK, ScanType
  <2> QED BY <1>2, <1>4, <2>1, <2>2 DEF ScanSeesRows, IdleTask
<1> QED BY <1>2, <1>3, <1>4

-----------------------------------------------------------------------------
(* One lemma per action: the invariant survives it.                        *)

LEMMA EmitIntentInv ==
    ASSUME IInv, NEW p \in Pairs, NEW action \in Actions, NEW c \in Ids,
           EmitIntent(p, action, c)
    PROVE  IInv'
<1> USE DEF cache, life, doubt, broker, history
<1>1. /\ TypeOK /\ Allocated /\ Phases /\ ResultsMatch /\ PreparedNeverSent
      /\ nextId \in Ids /\ nextId + 1 \in Ids \cup {MaxRows + 1} /\ nextId \in Nat
      /\ task[p].pc = "idle" /\ task \in [Pairs -> TaskType]
  BY BoundAssumption DEF IInv, EmitIntent, Ids, TypeOK
<1> DEFINE new == [IdleTask EXCEPT !.pc = "stage", !.by = "handler", !.id = nextId]
<1>2. /\ new \in TaskType /\ new.pc = "stage" /\ new.by = "handler"
      /\ new.id = nextId /\ new.out = "none" /\ new.ambiguous = FALSE
  BY <1>1 DEF IdleTask, TaskType, PhaseType, Outcomes
<1>3. task' = [task EXCEPT ![p] = new]
  BY DEF EmitIntent
<1> HIDE DEF new
<1>4. [pair |-> p, action |-> action, cycle |-> c] \in CommandType
  BY DEF CommandType
<1>5. TypeOK'
  BY <1>1, <1>2, <1>3, <1>4 DEF EmitIntent, TypeOK
<1>0. PICK n \in Ids : n = nextId
  BY <1>1
<1>6. /\ PairOf(n)' = p
      /\ \A i \in Ids : i # n => PairOf(i)' = PairOf(i)
      /\ nextId' = n + 1 /\ status' = status /\ pending' = pending
  <2>1. command' = [command EXCEPT ![n] =
                      [pair |-> p, action |-> action, cycle |-> c]]
    BY <1>0 DEF EmitIntent
  <2>2. command \in [Ids -> CommandType]
    BY <1>1 DEF TypeOK
  <2> QED BY <1>0, <2>1, <2>2 DEF EmitIntent, PairOf
<1>7. Allocated'
  BY <1>0, <1>1, <1>6 DEF Allocated, Ids
<1>8. Phases'
  <2> SUFFICES ASSUME NEW q \in Pairs, task'[q].pc # "idle" PROVE TaskMatchesRow(q)'
    BY DEF Phases
  <2>1. CASE q = p
    <3>1. task'[p] = new /\ n < n + 1 /\ status[n] = "none" /\ pending[n] = "none"
          /\ new.id = n
      BY <1>0, <1>1, <1>2, <1>3 DEF Allocated, Ids
    <3>2. PairOf(task[p].id)' = p
      BY <1>6, <3>1 DEF PairOf
    <3> QED BY <1>1, <1>2, <1>6, <2>1, <3>1, <3>2 DEF TaskMatchesRow
  <2>2. CASE q # p
    <3>1. task'[q] = task[q] /\ TaskMatchesRow(q)
      BY <1>1, <1>3, <2>2 DEF Phases
    <3>2. task[q].id \in Ids /\ task[q].id < n /\ task[q].id # n /\ task[q].id < n + 1
      BY <1>0, <1>1, <3>1 DEF TaskMatchesRow, Ids
    <3>3. PairOf(task[q].id)' = PairOf(task[q].id)
      BY <1>6, <3>1, <3>2 DEF PairOf
    <3> QED BY <1>6, <3>1, <3>2, <3>3 DEF TaskMatchesRow, Compatible
  <2> QED BY <2>1, <2>2
<1>9. ResultsMatch'
  BY <1>1 DEF EmitIntent, ResultsMatch, Compatible
<1>10. ScanSeesRows'
  <2>1. \A i \in Ids : status[i] # "none" => i # n
    BY <1>0, <1>1 DEF Allocated, Ids
  <2>2. \A q \in Pairs : task'[q] = task[q] \/ (task[q].pc = "idle" /\ task'[q].by = "handler")
    BY <1>1, <1>2, <1>3
  <2> QED BY <1>6, <2>1, <2>2, ScanUndisturbed DEF EmitIntent
<1>11. PreparedNeverSent'
  BY <1>1 DEF EmitIntent, PreparedNeverSent, Never
<1> QED BY <1>5, <1>7, <1>8, <1>9, <1>10, <1>11 DEF IInv

LEMMA StageCommitInv ==
    ASSUME IInv, NEW p \in Pairs, StageCommit(p) PROVE IInv'
<1> USE DEF cache, life, doubt, broker, clock, history
<1> DEFINE i == task[p].id
<1>1. TypeOK /\ Allocated /\ ResultsMatch /\ PreparedNeverSent /\ TaskMatchesRow(p)
  BY DEF IInv, Phases, StageCommit
<1>2. /\ task' \in [Pairs -> TaskType]
      /\ task'[p] = [task[p] EXCEPT !.pc = "staged"]
      /\ \A q \in Pairs \ {p} : task'[q] = task[q]
  BY <1>1, GotoFacts DEF StageCommit, PhaseType
<1>3. /\ i \in Ids /\ i < nextId /\ PairOf(i) = p /\ status[i] = "none"
      /\ pending[i] = "none" /\ task[p].out = "none" /\ task[p].ambiguous = FALSE
      /\ task[p].pc # "idle" /\ task[p].by = task'[p].by /\ task'[p].pc = "staged"
      /\ task'[p].id = i /\ task'[p].out = "none" /\ task'[p].ambiguous = FALSE
  BY <1>1, <1>2 DEF StageCommit, TaskMatchesRow, TypeOK, TaskType
<1>4. /\ status' = [status EXCEPT ![i] = "prepared"] /\ pending' = pending
      /\ command' = command /\ nextId' = nextId /\ scan' = scan
  BY DEF StageCommit
<1>5. TypeOK'
  <2>1. overtaken' \in SUBSET Ids /\ UNCHANGED <<halfSeeded, stranded>>
    BY <1>1, <1>3 DEF StageCommit, TypeOK
  <2> QED BY <1>1, <1>2, <1>4, <2>1 DEF StageCommit, TypeOK, Unfinished
<1>6. Allocated'
  BY <1>1, <1>3, <1>4 DEF Allocated, PairOf, Ids, TypeOK
<1>7. Phases'
  <2>1. \A q \in Pairs \ {p} : task'[q].pc # "idle" => TaskMatchesRow(q)'
    <3>1. \A j \in Ids : PairOf(j) # p => status'[j] = status[j] /\ pending'[j] = pending[j]
      BY <1>1, <1>3, <1>4 DEF TypeOK
    <3> QED BY <1>2, <1>4, <3>1, OthersUndisturbed
  <2>2. TaskMatchesRow(p)'
    <3>1. /\ PairOf(task[p].id)' = p /\ status'[task'[p].id] = "prepared"
          /\ pending'[task'[p].id] = "none" /\ task'[p].by = "handler"
          /\ task'[p].id < nextId'
      BY <1>1, <1>3, <1>4 DEF TaskMatchesRow, StageCommit, PairOf, TypeOK
    <3> QED BY <1>3, <3>1 DEF TaskMatchesRow
  <2> QED BY <2>1, <2>2 DEF Phases
<1>8. ResultsMatch'
  BY <1>1, <1>3, <1>4 DEF ResultsMatch, Compatible, TypeOK
<1>9. ScanSeesRows'
  BY <1>1, <1>2, <1>3, <1>4, ScanUndisturbed DEF PairOf, TypeOK
<1>10. PreparedNeverSent'
  BY <1>1, <1>3, <1>4 DEF StageCommit, PreparedNeverSent, Never, TypeOK
<1> QED BY <1>5, <1>6, <1>7, <1>8, <1>9, <1>10 DEF IInv

LEMMA StageReturnedInv ==
    ASSUME IInv, NEW p \in Pairs, StageReturned(p) PROVE IInv'
<1> USE DEF durable, cache, life, doubt, broker, clock, history
<1> DEFINE i == task[p].id
<1>1. TypeOK /\ Allocated /\ ResultsMatch /\ PreparedNeverSent /\ TaskMatchesRow(p)
  BY DEF IInv, Phases, StageReturned
<1>2. /\ task' \in [Pairs -> TaskType]
      /\ task'[p] = [task[p] EXCEPT !.pc = "mark"]
      /\ \A q \in Pairs \ {p} : task'[q] = task[q]
  BY <1>1, GotoFacts DEF StageReturned, PhaseType
<1>3. /\ i \in Ids /\ task[p].pc = "staged" /\ task'[p].pc = "mark"
      /\ task'[p].by = task[p].by /\ task'[p].id = i /\ task'[p].out = task[p].out
      /\ task'[p].ambiguous = task[p].ambiguous
  BY <1>1, <1>2 DEF StageReturned, TaskMatchesRow, TypeOK, TaskType
<1>4. /\ status' = status /\ pending' = pending /\ command' = command
      /\ nextId' = nextId /\ scan' = scan
  BY DEF StageReturned
<1>5. TypeOK'
  BY <1>1, <1>2 DEF StageReturned, TypeOK
<1>6. Allocated' /\ ResultsMatch' /\ PreparedNeverSent'
  BY <1>1, <1>4 DEF StageReturned, Allocated, PairOf, ResultsMatch, Compatible,
                    PreparedNeverSent, Never
<1>7. Phases'
  <2>1. \A q \in Pairs \ {p} : task'[q].pc # "idle" => TaskMatchesRow(q)'
    BY <1>2, <1>4, OthersUndisturbed
  <2>2. TaskMatchesRow(p)'
    BY <1>1, <1>3, <1>4 DEF TaskMatchesRow, PairOf
  <2> QED BY <2>1, <2>2 DEF Phases
<1>8. ScanSeesRows'
  BY <1>2, <1>3, <1>4, ScanUndisturbed DEF PairOf
<1> QED BY <1>5, <1>6, <1>7, <1>8 DEF IInv

LEMMA StageFailedInv ==
    ASSUME IInv, NEW p \in Pairs, StageFailed(p) PROVE IInv'
<1> USE DEF durable, cache, life, doubt, broker, clock, history
<1>1. TypeOK /\ Allocated /\ ResultsMatch /\ PreparedNeverSent /\ TaskMatchesRow(p)
  BY DEF IInv, Phases, StageFailed
<1>2. IdleTask \in TaskType /\ IdleTask.pc = "idle"
  BY DEF IdleTask, TaskType, PhaseType, Outcomes
<1>3. /\ task' = [task EXCEPT ![p] = IdleTask] /\ task'[p].pc = "idle"
      /\ \A q \in Pairs \ {p} : task'[q] = task[q]
      /\ status' = status /\ pending' = pending /\ command' = command
      /\ nextId' = nextId /\ scan' = scan
  BY <1>1, <1>2 DEF StageFailed, TypeOK
<1>4. TypeOK'
  BY <1>1, <1>2 DEF StageFailed, TypeOK
<1>5. Allocated' /\ ResultsMatch' /\ PreparedNeverSent'
  BY <1>1 DEF StageFailed, Allocated, PairOf, ResultsMatch, Compatible,
              PreparedNeverSent, Never
<1>6. Phases'
  BY <1>3, OthersUndisturbed DEF Phases
<1>7. ScanSeesRows'
  \* The scan never stages, so the task that failed to is a handler's.
  <2>1. task[p].by = "handler"
    BY <1>1 DEF TaskMatchesRow, StageFailed
  <2> QED BY <1>3, <2>1, ScanUndisturbed DEF PairOf
<1> QED BY <1>4, <1>5, <1>6, <1>7 DEF IInv

\* What is left to show of a task that moves on within its row.
LEMMA TaskMoves ==
    ASSUME IInv, NEW p \in Pairs, NEW i \in Ids, i = task[p].id,
           task[p].pc # "idle", task'[p].pc # "idle",
           task'[p].id = i, task'[p].by = task[p].by,
           \A q \in Pairs \ {p} : task'[q] = task[q],
           command' = command, nextId' = nextId, scan' = scan,
           \A j \in Ids \ {i} : status'[j] = status[j] /\ pending'[j] = pending[j],
           status'[i] # "none",
           pending'[i] # "none" => status'[i] \in Compatible(pending'[i]),
           TaskMatchesRow(p)'
    PROVE  Allocated' /\ Phases' /\ ResultsMatch' /\ ScanSeesRows'
<1>1. TypeOK /\ Allocated /\ ResultsMatch /\ TaskMatchesRow(p)
  BY DEF IInv, Phases
<1>2. i < nextId /\ PairOf(i) = p
  BY <1>1 DEF TaskMatchesRow
<1>3. \A j \in Ids : PairOf(j)' = PairOf(j)
  BY DEF PairOf
<1>4. Allocated'
  BY <1>1, <1>2, <1>3 DEF Allocated
<1>5. Phases'
  BY <1>2, OthersUndisturbed DEF Phases
<1>6. ResultsMatch'
  BY <1>1 DEF ResultsMatch, Compatible
<1>7. ScanSeesRows'
  BY <1>3, ScanUndisturbed
<1> QED BY <1>4, <1>5, <1>6, <1>7

\* What is left to show of a task that ends.
LEMMA TaskEnds ==
    ASSUME IInv, NEW p \in Pairs, NEW i \in Ids, i = task[p].id,
           task[p].pc # "idle", NEW ok \in BOOLEAN, Return(p, ok),
           command' = command, nextId' = nextId,
           \A j \in Ids \ {i} : status'[j] = status[j] /\ pending'[j] = pending[j],
           status'[i] # "none",
           pending'[i] # "none" => status'[i] \in Compatible(pending'[i])
    PROVE  Allocated' /\ Phases' /\ ResultsMatch' /\ ScanSeesRows'
<1>1. TypeOK /\ Allocated /\ ResultsMatch /\ TaskMatchesRow(p)
  BY DEF IInv, Phases
<1>2. i < nextId /\ PairOf(i) = p
  BY <1>1 DEF TaskMatchesRow
<1>3. \A j \in Ids : PairOf(j)' = PairOf(j)
  BY DEF PairOf
<1>4. task'[p].pc = "idle" /\ \A q \in Pairs \ {p} : task'[q] = task[q]
  BY <1>1, ReturnFacts DEF IdleTask
<1>5. Allocated'
  BY <1>1, <1>2, <1>3 DEF Allocated
<1>6. Phases'
  BY <1>2, <1>4, OthersUndisturbed DEF Phases
<1>7. ResultsMatch'
  BY <1>1 DEF ResultsMatch, Compatible
<1>8. ScanSeesRows'
  BY ScanReturns
<1> QED BY <1>5, <1>6, <1>7, <1>8

LEMMA SendShadowInv ==
    ASSUME IInv, NEW p \in Pairs, SendShadow(p) PROVE IInv'
<1> USE DEF durable, cache, life, doubt, broker, clock, history
<1>0. PICK i : i = task[p].id OBVIOUS
<1>1. TypeOK /\ PreparedNeverSent /\ TaskMatchesRow(p) /\ task[p].pc = "mark"
      /\ i \in Ids /\ task[p] \in TaskType
  BY <1>0 DEF IInv, Phases, SendShadow, TaskMatchesRow, TypeOK
<1>2. /\ task'[p] = [task[p] EXCEPT !.pc = "checkpoint", !.out = "shadow"]
      /\ \A q \in Pairs \ {p} : task'[q] = task[q]
      /\ task' \in [Pairs -> TaskType]
  BY <1>1 DEF SendShadow, TypeOK, TaskType, PhaseType, Outcomes, Final
<1>3. /\ task'[p].pc = "checkpoint" /\ task'[p].out = "shadow" /\ task'[p].id = i
      /\ task'[p].by = task[p].by
  BY <1>0, <1>1, <1>2 DEF TaskType
<1>4. /\ status' = status /\ pending' = [pending EXCEPT ![i] = "shadow"]
      /\ pending'[i] = "shadow" /\ command' = command /\ nextId' = nextId
      /\ scan' = scan
  BY <1>0, <1>1 DEF SendShadow, TypeOK
<1>5. status[i] \in {"prepared", "unknown"}
  BY <1>0, <1>1 DEF TaskMatchesRow
<1>6. TaskMatchesRow(p)'
  BY <1>0, <1>1, <1>3, <1>4, <1>5 DEF TaskMatchesRow, PairOf, Accepted, Compatible
<1>7. Allocated' /\ Phases' /\ ResultsMatch' /\ ScanSeesRows'
  BY <1>0, <1>1, <1>2, <1>3, <1>4, <1>5, <1>6, TaskMoves DEF Compatible, TypeOK
<1>8. TypeOK'
  <2>1. pending' \in [Ids -> {"none"} \cup Final]
    BY <1>1, <1>4 DEF TypeOK, Final
  <2> QED BY <1>1, <1>2, <2>1 DEF SendShadow, TypeOK
<1>9. PreparedNeverSent'
  BY <1>1, <1>4 DEF SendShadow, PreparedNeverSent, Never
<1> QED BY <1>7, <1>8, <1>9 DEF IInv

LEMMA SendWithheldInv ==
    ASSUME IInv, NEW p \in Pairs, SendWithheld(p) PROVE IInv'
<1> USE DEF durable, cache, life, broker, clock, history
<1>0. PICK i : i = task[p].id OBVIOUS
<1>1. TypeOK /\ PreparedNeverSent /\ TaskMatchesRow(p) /\ i \in Ids
      /\ status[i] \in {"prepared", "unknown"} /\ pending[i] = "none"
  BY <1>0 DEF IInv, Phases, SendWithheld, TaskMatchesRow
<1>2. TypeOK'
  BY <1>1, ReturnType DEF SendWithheld, TypeOK
<1>3. Allocated' /\ Phases' /\ ResultsMatch' /\ ScanSeesRows'
  BY <1>0, <1>1, TaskEnds DEF SendWithheld
<1>4. PreparedNeverSent'
  BY <1>1 DEF SendWithheld, PreparedNeverSent, Never
<1> QED BY <1>2, <1>3, <1>4 DEF IInv

LEMMA MarkUnknownInv ==
    ASSUME IInv, NEW p \in Pairs, MarkUnknown(p) PROVE IInv'
<1> USE DEF cache, life, doubt, broker, clock, history
<1>0. PICK i : i = task[p].id OBVIOUS
<1>1. TypeOK /\ PreparedNeverSent /\ TaskMatchesRow(p) /\ task[p].pc = "mark"
      /\ i \in Ids /\ pending[i] = "none" /\ task[p].out = "none"
  BY <1>0 DEF IInv, Phases, MarkUnknown, TaskMatchesRow
<1>2. /\ task' \in [Pairs -> TaskType]
      /\ task'[p] = [task[p] EXCEPT !.pc = "send"]
      /\ \A q \in Pairs \ {p} : task'[q] = task[q]
  BY <1>1, GotoFacts DEF MarkUnknown, PhaseType
<1>3. /\ task'[p].pc = "send" /\ task'[p].id = i /\ task'[p].by = task[p].by
      /\ task'[p].out = "none"
  BY <1>0, <1>1, <1>2 DEF TypeOK, TaskType
<1>4. /\ status' = [status EXCEPT ![i] = "unknown"] /\ status'[i] = "unknown"
      /\ pending' = pending /\ command' = command /\ nextId' = nextId /\ scan' = scan
  BY <1>0, <1>1 DEF MarkUnknown, TypeOK
<1>5. TaskMatchesRow(p)'
  BY <1>0, <1>1, <1>3, <1>4 DEF TaskMatchesRow, PairOf
<1>6. Allocated' /\ Phases' /\ ResultsMatch' /\ ScanSeesRows'
  BY <1>0, <1>1, <1>2, <1>3, <1>4, <1>5, TaskMoves DEF TypeOK
<1>7. TypeOK' /\ PreparedNeverSent'
  BY <1>1, <1>2, <1>4 DEF MarkUnknown, TypeOK, Unfinished, PreparedNeverSent, Never
<1> QED BY <1>6, <1>7 DEF IInv

LEMMA SendInv ==
    ASSUME IInv, NEW p \in Pairs, Send(p) PROVE IInv'
<1> USE DEF durable, cache, life, doubt, clock, history
<1>0. PICK i : i = task[p].id OBVIOUS
<1>1. TypeOK /\ PreparedNeverSent /\ TaskMatchesRow(p) /\ task[p].pc = "send"
      /\ i \in Ids /\ status[i] = "unknown" /\ pending[i] = "none"
      /\ task[p].out = "none"
  BY <1>0 DEF IInv, Phases, Send, TaskMatchesRow
<1>2. /\ task' \in [Pairs -> TaskType]
      /\ task'[p] = [task[p] EXCEPT !.pc = "sending"]
      /\ \A q \in Pairs \ {p} : task'[q] = task[q]
  BY <1>1, GotoFacts DEF Send, PhaseType
<1>3. /\ task'[p].pc = "sending" /\ task'[p].id = i /\ task'[p].by = task[p].by
      /\ task'[p].out = "none"
  BY <1>0, <1>1, <1>2 DEF TypeOK, TaskType
<1>4. /\ status' = status /\ pending' = pending /\ command' = command
      /\ nextId' = nextId /\ scan' = scan /\ takenAt' = takenAt /\ executed' = executed
      /\ net' = [net EXCEPT ![i] = @ + 1] /\ reply' = [reply EXCEPT ![i] = "none"]
  BY <1>0 DEF Send
<1>5. TaskMatchesRow(p)'
  BY <1>0, <1>1, <1>3, <1>4 DEF TaskMatchesRow, PairOf
<1>6. Allocated' /\ Phases' /\ ResultsMatch' /\ ScanSeesRows'
  BY <1>0, <1>1, <1>2, <1>3, <1>4, <1>5, TaskMoves
<1>7. TypeOK'
  BY <1>1, <1>2, <1>4 DEF Send, TypeOK
\* The row reads "unknown": the property says nothing of it.
<1>8. PreparedNeverSent'
  BY <1>1, <1>4 DEF PreparedNeverSent, TypeOK, Never
<1> QED BY <1>6, <1>7, <1>8 DEF IInv

LEMMA SendReturnsInv ==
    ASSUME IInv, NEW p \in Pairs, SendReturns(p) PROVE IInv'
<1> USE DEF durable, cache, life, doubt, broker, clock, history
<1>0. PICK i : i = task[p].id OBVIOUS
<1>1. TypeOK /\ PreparedNeverSent /\ TaskMatchesRow(p) /\ task[p].pc = "sending"
      /\ i \in Ids /\ status[i] = "unknown" /\ pending[i] = "none"
      /\ task[p] \in TaskType
  BY <1>0 DEF IInv, Phases, SendReturns, TaskMatchesRow, TypeOK
<1>2. PICK out \in {"sent", "failed", "unknown"} :
        /\ task' = [task EXCEPT ![p].out = out,
                     ![p].pc = IF out \in Accepted THEN "checkpoint" ELSE "final"]
        /\ pending' = IF out = "unknown" THEN pending ELSE [pending EXCEPT ![i] = out]
  BY <1>0 DEF SendReturns, Results, Outcome
<1>3. /\ task'[p] = [task[p] EXCEPT !.out = out,
                       !.pc = IF out \in Accepted THEN "checkpoint" ELSE "final"]
      /\ \A q \in Pairs \ {p} : task'[q] = task[q]
  BY <1>1, <1>2 DEF TypeOK
<1>4. /\ task'[p].pc = IF out \in Accepted THEN "checkpoint" ELSE "final"
      /\ task'[p].out = out /\ task'[p].id = i /\ task'[p].by = task[p].by
      /\ task'[p] \in TaskType
  <2> DEFINE pc == IF out \in Accepted THEN "checkpoint" ELSE "final"
  <2>1. pc \in PhaseType /\ out \in Outcomes
    BY DEF PhaseType, Outcomes, Final
  <2>2. task'[p] = [task[p] EXCEPT !.out = out, !.pc = pc]
    BY <1>3
  <2> HIDE DEF pc
  <2>3. task'[p].pc = pc /\ task'[p].out = out /\ task'[p].id = i
        /\ task'[p].by = task[p].by /\ task'[p] \in TaskType
    BY <1>0, <1>1, <2>1, <2>2 DEF TaskType
  <2> QED BY <2>3 DEF pc
<1>5. task' \in [Pairs -> TaskType]
  BY <1>1, <1>2, <1>3, <1>4 DEF TypeOK
<1>6. /\ status' = status /\ command' = command /\ nextId' = nextId /\ scan' = scan
      /\ pending'[i] = IF out = "unknown" THEN "none" ELSE out
      /\ \A j \in Ids \ {i} : pending'[j] = pending[j]
  BY <1>1, <1>2 DEF SendReturns, TypeOK
<1>7. status'[i] \in Compatible(out) /\ out # "none"
  BY <1>1, <1>2, <1>6 DEF Compatible
<1>8. TaskMatchesRow(p)'
  BY <1>0, <1>1, <1>2, <1>4, <1>6, <1>7 DEF TaskMatchesRow, PairOf, Accepted
<1>9. Allocated' /\ Phases' /\ ResultsMatch' /\ ScanSeesRows'
  <2>1. task[p].pc # "idle" /\ task'[p].pc # "idle" /\ status'[i] # "none"
    BY <1>1, <1>4, <1>6
  <2>2. pending'[i] # "none" => status'[i] \in Compatible(pending'[i])
    BY <1>6, <1>7
  <2>3. \A j \in Ids \ {i} : status'[j] = status[j] /\ pending'[j] = pending[j]
    BY <1>6
  <2> QED BY <1>0, <1>1, <1>3, <1>4, <1>6, <1>8, <2>1, <2>2, <2>3, TaskMoves
<1>10. TypeOK'
  <2>1. pending' \in [Ids -> {"none"} \cup Final]
    BY <1>1, <1>2 DEF TypeOK, Final
  <2> QED BY <1>1, <1>5, <2>1 DEF SendReturns, TypeOK
<1>11. PreparedNeverSent'
  BY <1>1, <1>6 DEF SendReturns, PreparedNeverSent, Never
<1> QED BY <1>9, <1>10, <1>11 DEF IInv

LEMMA CheckpointInv ==
    ASSUME IInv, NEW p \in Pairs, Checkpoint(p) PROVE IInv'
<1> USE DEF cache, life, doubt, broker, clock, history
<1>0. PICK i : i = task[p].id OBVIOUS
<1>1. /\ TypeOK /\ PreparedNeverSent /\ TaskMatchesRow(p)
      /\ task[p].pc = "checkpoint" /\ i \in Ids /\ task[p].out \in Accepted
      /\ pending[i] = task[p].out
  BY <1>0 DEF IInv, Phases, Checkpoint, TaskMatchesRow, Accepted
<1>2. /\ task' \in [Pairs -> TaskType]
      /\ task'[p] = [task[p] EXCEPT !.pc = "redis"]
      /\ \A q \in Pairs \ {p} : task'[q] = task[q]
  BY <1>1, GotoFacts DEF Checkpoint, PhaseType
<1>3. /\ task'[p].pc = "redis" /\ task'[p].id = i /\ task'[p].by = task[p].by
      /\ task'[p].out = task[p].out
  BY <1>0, <1>1, <1>2 DEF TypeOK, TaskType
<1>4. PICK mark \in {"sent_pending", "shadow_pending"} : mark = PendingStatus(task[p].out)
  BY DEF PendingStatus
<1>5. /\ status' = [status EXCEPT ![i] = mark] /\ status'[i] = mark
      /\ pending' = pending /\ command' = command /\ nextId' = nextId /\ scan' = scan
  BY <1>0, <1>1, <1>4 DEF Checkpoint, TypeOK
<1>6. mark \in Compatible(task[p].out)
  BY <1>1, <1>4 DEF PendingStatus, Compatible, Accepted
<1>7. TaskMatchesRow(p)'
  BY <1>0, <1>1, <1>3, <1>5, <1>6 DEF TaskMatchesRow, PairOf, Accepted, Compatible
<1>8. Allocated' /\ Phases' /\ ResultsMatch' /\ ScanSeesRows'
  <2>1. \A j \in Ids \ {i} : status'[j] = status[j] /\ pending'[j] = pending[j]
    BY <1>1, <1>5 DEF TypeOK
  <2>2. pending'[i] # "none" => status'[i] \in Compatible(pending'[i])
    BY <1>1, <1>5, <1>6 DEF Compatible
  <2> QED BY <1>0, <1>1, <1>2, <1>3, <1>4, <1>5, <1>7, <2>1, <2>2, TaskMoves
<1>9. TypeOK'
  <2>1. book' \in [Ids -> Position]
    BY <1>0, <1>1, CommitType DEF Checkpoint, TypeOK
  <2>2. status' \in [Ids -> {"none"} \cup Unfinished \cup Final]
    BY <1>1, <1>4, <1>5 DEF TypeOK, Unfinished
  <2>3. UNCHANGED <<command, created, pgPositions, cache, life, doubt, pending, scan,
                    nextId, broker, clock, history>>
    BY DEF Checkpoint
  <2> QED BY <1>1, <1>2, <2>1, <2>2, <2>3 DEF TypeOK
<1>10. PreparedNeverSent'
  BY <1>1, <1>4, <1>5 DEF Checkpoint, PreparedNeverSent, Never, TypeOK
<1> QED BY <1>8, <1>9, <1>10 DEF IInv

\* Both writes of _track_cycle store positions.
LEMMA TrackedType ==
    ASSUME TypeOK, NEW p \in Pairs, NEW store \in [Ids -> Position]
    PROVE  Tracked(p, store) \in [Ids -> Position]
<1>1. \A c \in Ids : book[c] \in Position
  BY DEF TypeOK
<1> DEFINE c == command[task[p].id].cycle
<1>2. CASE c \in Ids
  BY <1>1, <1>2 DEF Tracked
<1>3. CASE c \notin Ids
  BY <1>3 DEF Tracked
<1> QED BY <1>2, <1>3

\* A write of the cycle moves the task on and touches no row.
LEMMA TrackingMoves ==
    ASSUME IInv, NEW p \in Pairs, NEW pc \in {"postgres", "final"}, Goto(p, pc),
           task[p].pc \in {"redis", "postgres"},
           UNCHANGED <<status, command, nextId, pending, scan>>
    PROVE  /\ task' \in [Pairs -> TaskType]
           /\ Allocated' /\ Phases' /\ ResultsMatch' /\ ScanSeesRows'
<1>0. PICK i : i = task[p].id OBVIOUS
<1>1. /\ TypeOK /\ ResultsMatch /\ TaskMatchesRow(p) /\ i \in Ids
      /\ task[p].out \in Accepted /\ status[i] \in Compatible(task[p].out)
      /\ pending[i] = task[p].out
  BY <1>0 DEF IInv, Phases, TaskMatchesRow, Accepted
<1>2. /\ task' \in [Pairs -> TaskType]
      /\ task'[p] = [task[p] EXCEPT !.pc = pc]
      /\ \A q \in Pairs \ {p} : task'[q] = task[q]
  BY <1>1, GotoFacts DEF PhaseType
<1>3. /\ task'[p].pc = pc /\ task'[p].id = i /\ task'[p].by = task[p].by
      /\ task'[p].out = task[p].out
  BY <1>0, <1>1, <1>2 DEF TypeOK, TaskType
<1>4. TaskMatchesRow(p)'
  BY <1>0, <1>1, <1>3 DEF TaskMatchesRow, PairOf, Accepted, Compatible
<1>5. status[i] # "none"
  BY <1>1 DEF Compatible, Accepted
<1>6. pending'[i] # "none" => status'[i] \in Compatible(pending'[i])
  BY <1>1 DEF Compatible
<1> QED BY <1>0, <1>1, <1>2, <1>3, <1>4, <1>5, <1>6, TaskMoves

LEMMA TrackInv ==
    ASSUME IInv, NEW p \in Pairs, TrackRedis(p) \/ TrackPostgres(p) PROVE IInv'
<1> USE DEF durable, cache, life, doubt, broker, clock, history
<1>1. TypeOK /\ PreparedNeverSent
  BY DEF IInv
<1>2. /\ task' \in [Pairs -> TaskType]
      /\ Allocated' /\ Phases' /\ ResultsMatch' /\ ScanSeesRows'
  BY TrackingMoves DEF TrackRedis, TrackPostgres
<1>3. TypeOK'
  <2>1. redisPositions' \in [Ids -> Position] /\ pgPositions' \in [Ids -> Position]
    BY <1>1, TrackedType DEF TrackRedis, TrackPostgres, TypeOK
  <2> QED BY <1>1, <1>2, <2>1 DEF TrackRedis, TrackPostgres, TypeOK
<1>4. PreparedNeverSent'
  BY <1>1 DEF TrackRedis, TrackPostgres, PreparedNeverSent, Never
<1> QED BY <1>2, <1>3, <1>4 DEF IInv

LEMMA TrackFailedInv ==
    ASSUME IInv, NEW p \in Pairs, TrackFailed(p) PROVE IInv'
<1> USE DEF durable, cache, life, broker, clock, history
<1>0. PICK i : i = task[p].id OBVIOUS
<1>1. /\ TypeOK /\ PreparedNeverSent /\ TaskMatchesRow(p) /\ i \in Ids
      /\ task[p].out \in Accepted /\ status[i] \in Compatible(task[p].out)
      /\ pending[i] = task[p].out
  BY <1>0 DEF IInv, Phases, TrackFailed, TaskMatchesRow, Accepted
<1>2. TypeOK'
  <2>1. redisPositions' \in [Ids -> Position] /\ pgPositions' \in [Ids -> Position]
    BY <1>1, TrackedType DEF TrackFailed, TypeOK
  <2> QED BY <1>1, <2>1, ReturnType DEF TrackFailed, TypeOK
<1>3. status[i] # "none"
  BY <1>1 DEF Compatible, Accepted
<1>4. Allocated' /\ Phases' /\ ResultsMatch' /\ ScanSeesRows'
  BY <1>0, <1>1, <1>3, TaskEnds DEF TrackFailed, Compatible
<1>5. PreparedNeverSent'
  BY <1>1 DEF TrackFailed, PreparedNeverSent, Never
<1> QED BY <1>2, <1>4, <1>5 DEF IInv

LEMMA FinaliseInv ==
    ASSUME IInv, NEW p \in Pairs, Finalise(p) PROVE IInv'
<1> USE DEF durable, cache, life, broker, clock, history
<1>0. PICK i, out : i = task[p].id /\ out = task[p].out OBVIOUS
<1>1. /\ TypeOK /\ PreparedNeverSent /\ TaskMatchesRow(p) /\ i \in Ids
      /\ task[p].pc = "final" /\ out \in Final \cup {"unknown"}
      /\ status[i] \in Compatible(out)
      /\ pending[i] = IF out = "unknown" THEN "none" ELSE out
  BY <1>0 DEF IInv, Phases, Finalise, TaskMatchesRow, TypeOK, TaskType, Outcomes
<1>2. /\ status' = [status EXCEPT ![i] = out] /\ status'[i] = out
      /\ \A j \in Ids \ {i} : status'[j] = status[j]
      /\ pending' = IF out = "unknown" THEN pending
                    ELSE [pending EXCEPT ![i] = "none"]
      /\ Return(p, out # "unknown")
      /\ UNCHANGED <<command, created, pgPositions, cache, life, book, unconfirmed,
                     nextId, broker, clock, history>>
  BY <1>0, <1>1 DEF Finalise, TypeOK
<1>3. /\ pending' \in [Ids -> {"none"} \cup Final] /\ pending'[i] = "none"
      /\ \A j \in Ids \ {i} : pending'[j] = pending[j]
  BY <1>1, <1>2 DEF TypeOK
<1>4. TypeOK'
  <2>1. status' \in [Ids -> {"none"} \cup Unfinished \cup Final]
    BY <1>1, <1>2 DEF TypeOK, Unfinished
  <2> QED BY <1>1, <1>2, <1>3, <2>1, ReturnType DEF TypeOK
<1>5. Allocated' /\ Phases' /\ ResultsMatch' /\ ScanSeesRows'
  <2>1. out # "none" /\ task[p].pc # "idle"
    BY <1>1 DEF Final
  <2> QED BY <1>0, <1>2, <1>3, <1>1, <2>1, TaskEnds
<1>6. PreparedNeverSent'
  BY <1>1, <1>2 DEF PreparedNeverSent, Never, Final
<1> QED BY <1>4, <1>5, <1>6 DEF IInv

LEMMA MarkFailedInv ==
    ASSUME IInv, NEW p \in Pairs, MarkFailed(p) PROVE IInv'
<1> USE DEF durable, cache, life, broker, clock, history
<1>0. PICK i, out : i = task[p].id /\ out = task[p].out OBVIOUS
<1>1. /\ TypeOK /\ PreparedNeverSent /\ TaskMatchesRow(p) /\ i \in Ids
      /\ task[p].pc \in {"mark", "checkpoint", "final"} /\ out \in Outcomes
      /\ status[i] # "none" /\ ResultsMatch
  BY <1>0 DEF IInv, Phases, MarkFailed, TaskMatchesRow, TypeOK, TaskType, Compatible
<1> DEFINE mark == CASE task[p].pc = "mark" -> "unknown"
                     [] task[p].pc = "checkpoint" -> PendingStatus(out)
                     [] OTHER -> out
<1>2. mark \in Unfinished \cup Final
  BY <1>0, <1>1 DEF TaskMatchesRow, PendingStatus, Unfinished, Outcomes
<1>3. pending[i] # "none" => mark \in Compatible(pending[i])
  BY <1>0, <1>1 DEF TaskMatchesRow, PendingStatus, Compatible, Accepted, Outcomes, Final
<1>4. status' \in {status, [status EXCEPT ![i] = mark]}
  BY <1>0 DEF MarkFailed
<1>5. mark \notin {"none", "prepared"}
  BY <1>0, <1>1 DEF TaskMatchesRow, PendingStatus, Outcomes, Final
<1> HIDE DEF mark
<1>6. /\ status' \in [Ids -> {"none"} \cup Unfinished \cup Final]
      /\ status'[i] \in {status[i], mark}
      /\ \A j \in Ids \ {i} : status'[j] = status[j]
  BY <1>1, <1>2, <1>4 DEF TypeOK
<1>7. TypeOK'
  BY <1>1, <1>6, ReturnType DEF MarkFailed, TypeOK
<1>8. Allocated' /\ Phases' /\ ResultsMatch' /\ ScanSeesRows'
  <2>1. /\ \A j \in Ids \ {i} : status'[j] = status[j] /\ pending'[j] = pending[j]
        /\ status'[i] # "none" /\ task[p].pc # "idle"
        /\ pending' = pending
    BY <1>1, <1>5, <1>6 DEF MarkFailed
  <2>2. pending'[i] # "none" => status'[i] \in Compatible(pending'[i])
    BY <1>1, <1>3, <1>6, <2>1 DEF ResultsMatch
  <2>3. Return(p, FALSE) /\ command' = command /\ nextId' = nextId
    BY DEF MarkFailed
  <2> QED BY <1>0, <1>1, <2>1, <2>2, <2>3, TaskEnds
<1>9. PreparedNeverSent'
  BY <1>1, <1>5, <1>6 DEF MarkFailed, PreparedNeverSent, Never
<1> QED BY <1>7, <1>8, <1>9 DEF IInv

\* A step that touches neither a row nor a task keeps all that is said of them.
LEMMA RowsUnchanged ==
    ASSUME IInv, UNCHANGED <<status, command, nextId, pending, task>>
    PROVE  Allocated' /\ Phases' /\ ResultsMatch'
<1>1. Allocated /\ Phases /\ ResultsMatch
  BY DEF IInv
<1>2. Allocated' /\ ResultsMatch'
  BY <1>1 DEF Allocated, ResultsMatch, Compatible, PairOf
<1>3. Phases'
  <2> SUFFICES ASSUME NEW p \in Pairs, task[p].pc # "idle" PROVE TaskMatchesRow(p)'
    BY DEF Phases
  <2>1. TaskMatchesRow(p)
    BY <1>1 DEF Phases
  <2> QED BY <2>1 DEF TaskMatchesRow, Compatible, PairOf
<1> QED BY <1>2, <1>3

\* A step of the scan between two rows: no task is the scan's, before or after.
LEMMA ScanMoves ==
    ASSUME IInv, UNCHANGED <<status, command, nextId, pending, task>>,
           scan.pc \notin {"row"}, scan'.pc \notin {"row"},
           \A i \in scan'.page : i \in Ids /\ status[i] # "none",
           scan'.pc = "lock" => scan'.row \in Ids /\ status[scan'.row] # "none"
    PROVE  Allocated' /\ Phases' /\ ResultsMatch' /\ ScanSeesRows'
<1>1. Allocated' /\ Phases' /\ ResultsMatch'
  BY RowsUnchanged
<1>2. ScanSeesRows'
  BY DEF IInv, ScanSeesRows
<1> QED BY <1>1, <1>2

LEMMA ScanStepInv ==
    ASSUME IInv, ScanStart \/ ScanQuery \/ ScanQueryFailed \/ ScanVisit \/ ScanSkip \/ ScanEnd
    PROVE  IInv'
<1> USE DEF durable, cache, life, doubt, broker, clock, history
<1>1. TypeOK /\ Allocated /\ ScanSeesRows /\ PreparedNeverSent /\ scan \in ScanType
  BY DEF IInv, TypeOK
<1>2. PreparedNeverSent'
  BY <1>1 DEF ScanStart, ScanQuery, ScanQueryFailed, ScanVisit, ScanSkip, ScanEnd,
              PreparedNeverSent, Never
<1>3. \A i \in scan.page : i \in Ids /\ status[i] # "none" /\ PairOf(i) \in Pairs
  BY <1>1 DEF ScanType, ScanSeesRows, Allocated
<1>4. CASE ScanStart
  <2>1. scan' \in ScanType /\ scan'.pc = "query" /\ scan'.page = {}
    BY <1>4 DEF ScanStart, IdleScan, ScanType, NoId
  <2>2. TypeOK'
    BY <1>1, <1>4, <2>1 DEF ScanStart, TypeOK
  <2>3. Allocated' /\ Phases' /\ ResultsMatch' /\ ScanSeesRows'
    BY <1>4, <2>1, ScanMoves DEF ScanStart
  <2> QED BY <1>2, <2>2, <2>3 DEF IInv
<1>5. CASE ScanQuery
  <2>1. FirstPage(Backlog) \subseteq Ids /\ \A i \in FirstPage(Backlog) : status[i] # "none"
    BY DEF FirstPage, Backlog
  <2>2. /\ scan' \in ScanType /\ scan'.pc \in {"end", "page"}
        /\ scan'.page \subseteq scan.page \cup FirstPage(Backlog)
    <3>1. CASE scan' = [scan EXCEPT !.pc = "end"]
      BY <1>1, <3>1 DEF ScanType
    <3>2. CASE \E last \in FirstPage(Backlog) :
                  scan' = [scan EXCEPT !.pc = "page", !.page = FirstPage(Backlog),
                                       !.cursor = last]
      <4>1. PICK last \in Ids, page \in SUBSET Ids :
               /\ page = FirstPage(Backlog)
               /\ scan' = [scan EXCEPT !.pc = "page", !.page = page, !.cursor = last]
        BY <2>1, <3>2
      <4>2. scan' \in ScanType /\ scan'.pc = "page" /\ scan'.page = page
        BY <1>1, <4>1 DEF ScanType
      <4> QED BY <4>1, <4>2
    <3> QED BY <1>5, <3>1, <3>2 DEF ScanQuery
  <2>3. TypeOK'
    BY <1>1, <1>5, <2>2 DEF ScanQuery, TypeOK
  <2>4. UNCHANGED <<status, command, nextId, pending, task>> /\ scan.pc = "query"
    BY <1>5 DEF ScanQuery
  <2>5. \A i \in scan'.page : i \in Ids /\ status[i] # "none"
    BY <1>3, <2>1, <2>2
  <2>6. Allocated' /\ Phases' /\ ResultsMatch' /\ ScanSeesRows'
    BY <2>2, <2>4, <2>5, ScanMoves
  <2> QED BY <1>2, <2>3, <2>6 DEF IInv
<1>6. CASE ScanQueryFailed
  <2>1. scan' \in ScanType /\ scan'.pc = "idle" /\ scan'.page = {}
    BY <1>6 DEF ScanQueryFailed, IdleScan, ScanType, NoId
  <2>2. TypeOK'
    BY <1>1, <1>6, <2>1 DEF ScanQueryFailed, TypeOK
  <2>3. Allocated' /\ Phases' /\ ResultsMatch' /\ ScanSeesRows'
    BY <1>6, <2>1, ScanMoves DEF ScanQueryFailed
  <2> QED BY <1>2, <2>2, <2>3 DEF IInv
<1>7. CASE ScanVisit
  <2>1. PICK i \in scan.page :
          /\ uncertain' = uncertain \cup {PairOf(i)}
          /\ IF PairOf(i) \in slots /\ PairOf(i) \notin scan.blocked
             THEN scan' = [scan EXCEPT !.pc = "lock", !.row = i, !.page = @ \ {i}]
             ELSE scan' = [scan EXCEPT
                             !.pc = IF scan.page = {i} THEN "query" ELSE "page",
                             !.page = @ \ {i}, !.blocked = @ \cup {PairOf(i)}]
    BY <1>7 DEF ScanVisit
  <2>2. PICK p \in Pairs, page \in SUBSET Ids :
          p = PairOf(i) /\ page = scan.page \ {i}
    <3>1. scan.page \ {i} \in SUBSET Ids /\ PairOf(i) \in Pairs
      BY <1>1, <1>3 DEF ScanType
    <3> QED BY <3>1
  <2>3. /\ scan' \in ScanType /\ scan'.pc \in {"lock", "query", "page"}
        /\ scan'.page = page
        /\ scan'.pc = "lock" => scan'.row = i
    <3>1. CASE scan' = [scan EXCEPT !.pc = "lock", !.row = i, !.page = page]
      BY <1>1, <1>3, <2>2, <3>1 DEF ScanType
    <3>2. CASE scan' = [scan EXCEPT
                          !.pc = IF scan.page = {i} THEN "query" ELSE "page",
                          !.page = page, !.blocked = @ \cup {p}]
      <4>1. PICK pc \in {"query", "page"}, blocked \in SUBSET Pairs :
               scan' = [scan EXCEPT !.pc = pc, !.page = page, !.blocked = blocked]
        BY <1>1, <2>2, <3>2 DEF ScanType
      <4>2. scan'.pc = pc /\ scan'.page = page /\ scan' \in ScanType
        BY <1>1, <2>2, <4>1 DEF ScanType
      <4> QED BY <4>2
    <3> QED BY <2>1, <2>2, <3>1, <3>2
  <2>4. TypeOK'
    BY <1>1, <1>7, <2>1, <2>2, <2>3 DEF ScanVisit, TypeOK
  <2>5. UNCHANGED <<status, command, nextId, pending, task>> /\ scan.pc = "page"
    BY <1>7 DEF ScanVisit
  <2>6. Allocated' /\ Phases' /\ ResultsMatch' /\ ScanSeesRows'
    <3>1. scan.pc # "row" /\ scan'.pc # "row"
      BY <2>3, <2>5
    <3>2. \A j \in scan'.page : j \in Ids /\ status[j] # "none"
      BY <1>3, <2>2, <2>3
    <3>3. scan'.pc = "lock" => scan'.row \in Ids /\ status[scan'.row] # "none"
      BY <1>3, <2>3
    <3> QED BY <2>5, <3>1, <3>2, <3>3, ScanMoves
  <2> QED BY <1>2, <2>4, <2>6 DEF IInv
<1>8. CASE ScanSkip
  <2>1. scan.pc = "lock" /\ scan.row \in Ids /\ status[scan.row] # "none"
        /\ PairOf(scan.row) \in Pairs
    BY <1>1, <1>8 DEF ScanSkip, ScanSeesRows, Allocated
  <2>2. PICK ok \in BOOLEAN :
          scan' = [scan EXCEPT
                     !.pc = IF scan.page = {} THEN "query" ELSE "page",
                     !.row = NoId,
                     !.resolved = IF ok THEN @ \cup {PairOf(scan.row)} ELSE @,
                     !.blocked = IF ok THEN @ ELSE @ \cup {PairOf(scan.row)}]
    BY <1>8 DEF ScanSkip
  <2>3. PICK pc \in {"query", "page"}, resolved, blocked \in SUBSET Pairs :
          scan' = [scan EXCEPT !.pc = pc, !.row = NoId, !.resolved = resolved,
                               !.blocked = blocked]
    BY <1>1, <2>1, <2>2 DEF ScanType
  <2>4. scan' \in ScanType /\ scan'.pc = pc /\ scan'.page = scan.page
    BY <1>1, <2>3 DEF ScanType, NoId
  <2>5. TypeOK'
    BY <1>1, <1>8, <2>4 DEF ScanSkip, TypeOK
  <2>6. UNCHANGED <<status, command, nextId, pending, task>>
    BY <1>8 DEF ScanSkip
  <2>7. Allocated' /\ Phases' /\ ResultsMatch' /\ ScanSeesRows'
    BY <1>3, <2>1, <2>4, <2>6, ScanMoves
  <2> QED BY <1>2, <2>5, <2>7 DEF IInv
<1>9. CASE ScanEnd
  <2>1. scan' \in ScanType /\ scan'.pc = "idle" /\ scan'.page = {}
    BY <1>9 DEF ScanEnd, IdleScan, ScanType, NoId
  <2>2. TypeOK'
    BY <1>1, <1>9, <2>1 DEF ScanEnd, TypeOK
  <2>3. Allocated' /\ Phases' /\ ResultsMatch' /\ ScanSeesRows'
    BY <1>9, <2>1, ScanMoves DEF ScanEnd
  <2> QED BY <1>2, <2>2, <2>3 DEF IInv
<1> QED BY <1>4, <1>5, <1>6, <1>7, <1>8, <1>9

LEMMA ScanLockInv == ASSUME IInv, ScanLock PROVE IInv'
<1> USE DEF durable, cache, life, doubt, broker, history
<1>0. PICK i : i = scan.row OBVIOUS
<1>1. /\ TypeOK /\ Allocated /\ ScanSeesRows /\ ResultsMatch /\ PreparedNeverSent
      /\ scan \in ScanType /\ scan.pc = "lock" /\ i \in Ids /\ status[i] # "none"
  BY <1>0 DEF IInv, TypeOK, ScanLock, ScanSeesRows
<1>2. PICK p \in Pairs : p = PairOf(i) /\ i < nextId
  BY <1>1 DEF Allocated
<1>3. PICK out \in {"none"} \cup Final : out = KnownOutcome(i)
  BY <1>1 DEF KnownOutcome, TypeOK, Final
<1>4. /\ task[p].pc = "idle" /\ task' = [task EXCEPT ![p] = RecoveryTask(i)]
      /\ scan' = [scan EXCEPT !.pc = "row"]
      /\ pending' = IF out = "none" THEN pending ELSE [pending EXCEPT ![i] = out]
      /\ out # "none" \/ (status[i] \notin Final /\ Retriable(i))
      /\ checked' = IF out = "none" THEN [checked EXCEPT ![i] = now] ELSE checked
      /\ UNCHANGED <<durable, cache, life, book, doubt, nextId, broker, now, history>>
  BY <1>0, <1>2, <1>3 DEF ScanLock
<1> DEFINE pc == IF out = "none" THEN "mark"
                 ELSE IF out \in Accepted THEN "checkpoint" ELSE "final"
           new == RecoveryTask(i)
<1>5. /\ new = [pc |-> pc, by |-> "scan", id |-> i, out |-> out,
                ambiguous |-> status[i] = "unknown"]
      /\ pc \in {"mark", "checkpoint", "final"} /\ out \in Outcomes
  BY <1>3 DEF RecoveryTask, Outcomes
<1>6. /\ new \in TaskType /\ new.pc = pc /\ new.by = "scan" /\ new.id = i
      /\ new.out = out /\ new.ambiguous = (status[i] = "unknown")
  BY <1>1, <1>5 DEF TaskType, PhaseType
<1>7. /\ task' \in [Pairs -> TaskType] /\ task'[p] = new
      /\ \A q \in Pairs \ {p} : task'[q] = task[q]
  <2>1. task' = [task EXCEPT ![p] = new]
    BY <1>4
  <2> HIDE DEF new
  <2> QED BY <1>1, <1>6, <2>1 DEF TypeOK
<1> HIDE DEF new
<1>8. /\ pending' \in [Ids -> {"none"} \cup Final] /\ pending'[i] = out
      /\ \A j \in Ids \ {i} : pending'[j] = pending[j]
  BY <1>1, <1>3, <1>4 DEF TypeOK, KnownOutcome
\* What is known about a row fits its status.
<1>9. out # "none" => status[i] \in Compatible(out)
  BY <1>1, <1>3 DEF KnownOutcome, ResultsMatch, Compatible
<1>10. out = "none" => status[i] \in {"prepared", "unknown"}
  <2>1. status[i] \in Unfinished \cup Final
    BY <1>1 DEF TypeOK
  <2>2. out = "none" => status[i] \notin {"sent_pending", "shadow_pending"}
    BY <1>3 DEF KnownOutcome
  <2> QED BY <1>4, <2>1, <2>2 DEF Unfinished
<1>11. TypeOK'
  <2>1. scan' \in ScanType
    BY <1>1, <1>4 DEF ScanType
  <2>2. checked' \in [Ids -> Times]
    BY <1>1, <1>4 DEF TypeOK
  <2> QED BY <1>1, <1>4, <1>7, <1>8, <2>1, <2>2 DEF TypeOK
<1>12. \A j \in Ids : PairOf(j)' = PairOf(j)
  BY <1>4 DEF PairOf
<1>13. Allocated'
  BY <1>1, <1>2, <1>4, <1>8, <1>12 DEF Allocated
<1>14. Phases'
  <2>1. TaskMatchesRow(p)'
    <3>1. /\ task'[p].id = i /\ task'[p].pc = pc /\ task'[p].by = "scan"
          /\ task'[p].out = out /\ task'[p].ambiguous = (status[i] = "unknown")
          /\ status' = status /\ nextId' = nextId
      BY <1>4, <1>6, <1>7
    <3>2. PairOf(task[p].id)' = p
      BY <1>2, <1>12, <3>1, <1>4 DEF PairOf
    <3>3. CASE out = "none"
      BY <1>1, <1>2, <1>8, <1>10, <3>1, <3>2, <3>3 DEF TaskMatchesRow, Accepted
    <3>4. CASE out # "none"
      <4>1. pc = IF out \in Accepted THEN "checkpoint" ELSE "final"
        BY <3>4
      <4>2. status'[i] \in Compatible(out)
        BY <1>9, <3>1, <3>4
      <4>3. out # "unknown"
        BY <1>3 DEF Final
      <4> QED BY <1>1, <1>2, <1>8, <3>1, <3>2, <3>4, <4>1, <4>2, <4>3
           DEF TaskMatchesRow, Compatible
    <3> QED BY <3>3, <3>4
  <2>2. \A q \in Pairs \ {p} : task'[q].pc # "idle" => TaskMatchesRow(q)'
    BY <1>2, <1>4, <1>7, <1>8, OthersUndisturbed
  <2> QED BY <2>1, <2>2 DEF Phases
<1>15. ResultsMatch'
  BY <1>1, <1>4, <1>8, <1>9 DEF ResultsMatch, Compatible
<1>16. ScanSeesRows'
  <2>1. scan'.pc = "row" /\ scan'.row = i /\ scan'.page = scan.page
    BY <1>0, <1>1, <1>4 DEF ScanType
  <2>2. task'[p].pc # "idle" /\ task'[p].by = "scan" /\ task'[p].id = i
    BY <1>5, <1>6, <1>7
  <2>3. \A q \in Pairs \ {p} : ~(task'[q].pc # "idle" /\ task'[q].by = "scan")
    BY <1>1, <1>7 DEF ScanSeesRows
  <2>4. PairOf(scan.row)' = p
    BY <1>2, <1>4, <2>1 DEF PairOf
  <2> QED BY <1>1, <1>4, <2>1, <2>2, <2>3, <2>4 DEF ScanSeesRows
<1>17. PreparedNeverSent'
  BY <1>1, <1>4 DEF PreparedNeverSent, Never
<1> QED BY <1>11, <1>13, <1>14, <1>15, <1>16, <1>17 DEF IInv

\* Starting, stopping, the broker and the clock touch no row and no task, save
\* a crash, which clears the tasks and the results in memory.
LEMMA EnvironmentInv ==
    ASSUME IInv,
           \/ Boot \/ (\E p \in Pairs : BootCut(p)) \/ RedisFlushed \/ SetShadow
           \/ Broker \/ Tick
    PROVE  IInv'
<1> USE DEF durable, cache, life, doubt, memory, broker, clock, history
<1>1. TypeOK /\ PreparedNeverSent /\ ScanSeesRows
  BY DEF IInv
<1>2. UNCHANGED <<status, command, nextId, pending, task, scan>>
  BY DEF Boot, BootCut, RedisFlushed, SetShadow, Broker, BrokerTakes, BrokerRefuses,
         NetworkLoses, Tick
<1>3. Allocated' /\ Phases' /\ ResultsMatch'
  BY <1>2, RowsUnchanged
<1>4. ScanSeesRows'
  BY <1>1, <1>2 DEF ScanSeesRows, PairOf
<1>5. TypeOK'
  <2>1. NoPosition \in Position /\ EmptyBook \in [Ids -> Position]
    BY DEF NoPosition, Position, Full, EmptyBook
  <2>2. CASE Boot
    BY <1>1, <2>1, <2>2, PairAssumption DEF Boot, TypeOK, RestoredFrom
  <2>3. CASE \E p \in Pairs : BootCut(p)
    BY <1>1, <2>3 DEF BootCut, TypeOK
  <2>4. CASE RedisFlushed
    BY <1>1, <2>1, <2>4 DEF RedisFlushed, TypeOK
  <2>5. CASE SetShadow
    BY <1>1, <2>5 DEF SetShadow, TypeOK
  <2>6. CASE Broker
    <3> PICK i \in Ids : BrokerTakes(i) \/ BrokerRefuses(i) \/ NetworkLoses(i)
      BY <2>6 DEF Broker
    <3>1. CASE BrokerTakes(i)
      BY <1>1, <3>1 DEF BrokerTakes, TypeOK
    <3>2. CASE BrokerRefuses(i)
      BY <1>1, <3>2 DEF BrokerRefuses, TypeOK
    <3>3. CASE NetworkLoses(i)
      BY <1>1, <3>3 DEF NetworkLoses, TypeOK
    <3> QED BY <3>1, <3>2, <3>3
  <2>7. CASE Tick
    BY <1>1, <2>7, BoundAssumption DEF Tick, TypeOK, Times
  <2> QED BY <2>2, <2>3, <2>4, <2>5, <2>6, <2>7
\* A row still "prepared" has no copy in the network, so nothing of it moves.
<1>6. PreparedNeverSent'
  BY <1>1 DEF Boot, BootCut, RedisFlushed, SetShadow, Broker, BrokerTakes, BrokerRefuses,
              NetworkLoses, Tick, PreparedNeverSent, Never, TypeOK
<1> QED BY <1>3, <1>4, <1>5, <1>6 DEF IInv

LEMMA CrashInv == ASSUME IInv, Crash PROVE IInv'
<1> USE DEF durable, cache, life, doubt, memory, broker, clock, history
<1>1. TypeOK /\ Allocated /\ PreparedNeverSent
  BY DEF IInv
<1>2. /\ IdleTask \in TaskType /\ IdleScan \in ScanType /\ EmptyBook \in [Ids -> Position]
      /\ IdleTask.pc = "idle" /\ IdleScan.page = {} /\ IdleScan.pc = "idle"
  BY DEF IdleTask, IdleScan, EmptyBook, NoPosition, Position, Full, TaskType, PhaseType,
         Outcomes, ScanType, NoId
<1>3. TypeOK'
  BY <1>1, <1>2 DEF Crash, TypeOK
<1>4. Allocated' /\ Phases' /\ ResultsMatch' /\ ScanSeesRows' /\ PreparedNeverSent'
  BY <1>1, <1>2 DEF Crash, Allocated, PairOf, Phases, ResultsMatch, ScanSeesRows,
                    PreparedNeverSent, Never
<1> QED BY <1>3, <1>4 DEF IInv

LEMMA StutterInv == ASSUME IInv, UNCHANGED vars PROVE IInv'
<1> USE DEF vars, durable, cache, life, doubt, memory, broker, clock, history
<1>1. Allocated' /\ Phases' /\ ResultsMatch'
  BY RowsUnchanged
<1>2. TypeOK' /\ ScanSeesRows' /\ PreparedNeverSent'
  BY DEF IInv, TypeOK, ScanSeesRows, PairOf, PreparedNeverSent, Never
<1> QED BY <1>1, <1>2 DEF IInv

-----------------------------------------------------------------------------
(* The theorems.                                                           *)

LEMMA InitInv == Init => IInv
<1> SUFFICES ASSUME Init PROVE IInv OBVIOUS
<1>1. TypeOK
  BY InitType
<1>2. Allocated /\ Phases /\ ResultsMatch /\ ScanSeesRows /\ PreparedNeverSent
  BY DEF Init, Allocated, Phases, ResultsMatch, ScanSeesRows, PreparedNeverSent,
         PairOf, NoCommand, IdleTask, IdleScan, Ids
<1> QED BY <1>1, <1>2 DEF IInv

LEMMA StepInv == IInv /\ [Next]_vars => IInv'
<1> SUFFICES ASSUME IInv, [Next]_vars PROVE IInv' OBVIOUS
<1>1. ASSUME NEW p \in Pairs, Handler(p) PROVE IInv'
  BY <1>1, EmitIntentInv DEF Handler
<1>2. ASSUME NEW p \in Pairs, Progress(p) PROVE IInv'
  BY <1>2, StageCommitInv, StageReturnedInv, SendShadowInv, MarkUnknownInv, SendInv,
     SendReturnsInv, CheckpointInv, TrackInv, FinaliseInv DEF Progress
<1>3. ASSUME NEW p \in Pairs, Fault(p) PROVE IInv'
  BY <1>3, StageFailedInv, SendWithheldInv, TrackFailedInv, MarkFailedInv DEF Fault
<1>4. CASE Scanning \/ ScanQueryFailed
  BY <1>4, ScanStepInv, ScanLockInv DEF Scanning
<1>5. CASE \/ Boot \/ (\E p \in Pairs : BootCut(p)) \/ RedisFlushed \/ SetShadow
           \/ Broker \/ Tick
  BY <1>5, EnvironmentInv
<1>6. CASE Crash
  BY <1>6, CrashInv
<1>7. CASE UNCHANGED vars
  BY <1>7, StutterInv
<1> QED BY <1>1, <1>2, <1>3, <1>4, <1>5, <1>6, <1>7 DEF Next

LEMMA Invariance == Spec => []IInv
<1> QED BY InitInv, StepInv, PTL DEF Spec

\* Every variable keeps its type in every reachable state; no replay of a
\* commit pushes a position outside its bounds.
THEOREM TypeCorrect == Spec => []TypeOK
<1>1. IInv => TypeOK
  BY DEF IInv
<1> QED BY <1>1, Invariance, PTL

\* A row that reads "prepared" was never handed to the network, however many
\* crashes, failed writes and scans came between: _send_staged_signal writes
\* "unknown" first.
THEOREM PreparedIsUnsent == Spec => []PreparedNeverSent
<1>1. IInv => PreparedNeverSent
  BY DEF IInv
<1> QED BY <1>1, Invariance, PTL

\* Outside the three steps that write a row's result, a row changes its status
\* only by being staged or by being marked "unknown" before its first attempt.
LEMMA OutcomesKept == IInv /\ [Next]_vars => KeepsOutcomes
<1> SUFFICES ASSUME IInv, [Next]_vars, NEW i \in Ids PROVE KeepsOutcome(i)
  BY DEF KeepsOutcomes
<1> USE DEF durable, cache, life, doubt, memory, broker, clock, history
<1>1. TypeOK
  BY DEF IInv
<1>2. CASE status'[i] = status[i]
  BY <1>2 DEF KeepsOutcome
<1>3. ASSUME NEW p \in Pairs, task[p].pc # "idle", status'[i] # status[i],
             NEW mark, status' = [status EXCEPT ![task[p].id] = mark]
      PROVE  i = task[p].id /\ status'[i] = mark /\ TaskMatchesRow(p)
  BY <1>1, <1>3 DEF TypeOK, IInv, Phases, TaskMatchesRow
<1>4. ASSUME NEW p \in Pairs, StageCommit(p) \/ MarkUnknown(p), status'[i] # status[i]
      PROVE  KeepsOutcome(i)
  BY <1>3, <1>4 DEF StageCommit, MarkUnknown, TaskMatchesRow, KeepsOutcome
<1>5. ASSUME NEW p \in Pairs, Checkpoint(p) \/ Finalise(p), status'[i] # status[i]
      PROVE  KeepsOutcome(i)
  <2>1. PICK mark : /\ status' = [status EXCEPT ![task[p].id] = mark]
                    /\ \/ /\ mark = PendingStatus(task[p].out)
                          /\ task[p].pc = "checkpoint"
                       \/ mark = task[p].out /\ task[p].pc = "final"
    BY <1>5 DEF Checkpoint, Finalise
  <2>2. i = task[p].id /\ status'[i] = mark /\ TaskMatchesRow(p)
    BY <1>3, <1>5, <2>1
  <2>3. status[i] \in Compatible(task[p].out) /\ (task[p].pc = "checkpoint" => task[p].out \in Accepted)
        /\ task[p].out # "none"
    BY <2>1, <2>2 DEF TaskMatchesRow
  <2> QED BY <2>1, <2>2, <2>3 DEF KeepsOutcome, Compatible, PendingStatus, Accepted
<1>6. ASSUME NEW p \in Pairs, MarkFailed(p), status'[i] # status[i]
      PROVE  KeepsOutcome(i)
  <2>1. PICK mark : /\ status' = [status EXCEPT ![task[p].id] = mark]
                    /\ \/ mark = "unknown" /\ task[p].pc = "mark"
                       \/ /\ mark = PendingStatus(task[p].out)
                          /\ task[p].pc = "checkpoint"
                       \/ mark = task[p].out /\ task[p].pc = "final"
    BY <1>6 DEF MarkFailed
  <2>2. i = task[p].id /\ status'[i] = mark /\ TaskMatchesRow(p)
    BY <1>3, <1>6, <2>1
  <2>3. CASE task[p].pc = "mark"
    BY <2>1, <2>2, <2>3 DEF TaskMatchesRow, KeepsOutcome
  <2>4. CASE task[p].pc # "mark"
    <3>1. status[i] \in Compatible(task[p].out) /\ (task[p].pc = "checkpoint" => task[p].out \in Accepted)
          /\ task[p].out # "none"
      BY <2>1, <2>2, <2>4 DEF TaskMatchesRow
    <3> QED BY <2>1, <2>2, <2>4, <3>1 DEF KeepsOutcome, Compatible, PendingStatus, Accepted
  <2> QED BY <2>3, <2>4
<1>7. ASSUME NEW p \in Pairs,
             \/ Handler(p) \/ StageReturned(p) \/ SendShadow(p) \/ Send(p) \/ SendReturns(p)
             \/ TrackRedis(p) \/ TrackPostgres(p) \/ StageFailed(p) \/ SendWithheld(p)
             \/ TrackFailed(p) \/ BootCut(p)
      PROVE  status' = status
  BY <1>7 DEF Handler, EmitIntent, StageReturned, SendShadow, Send, SendReturns, TrackRedis,
              TrackPostgres, StageFailed, SendWithheld, TrackFailed, BootCut
<1>8. CASE \/ Scanning \/ ScanQueryFailed \/ Boot \/ Crash \/ RedisFlushed \/ SetShadow
           \/ Broker \/ Tick \/ UNCHANGED vars
  BY <1>2, <1>8 DEF Scanning, ScanStart, ScanQuery, ScanVisit, ScanLock, ScanSkip, ScanEnd,
              ScanQueryFailed, Boot, Crash, RedisFlushed, SetShadow, Broker, BrokerTakes,
              BrokerRefuses, NetworkLoses, Tick, vars
<1> QED BY <1>2, <1>4, <1>5, <1>6, <1>7, <1>8 DEF Next, Progress, Fault

\* A row that recorded an acceptance, or a refusal, keeps it for ever: retries,
\* replays and failed writes included.
THEOREM OutcomeStable == Spec => OutcomeIsStable
<1>1. IInv /\ [Next]_vars => [KeepsOutcomes]_vars
  BY OutcomesKept
<1> QED BY <1>1, Invariance, PTL DEF Spec, OutcomeIsStable

\* Only the attempt of a task sends, and it found the row undecided.
LEMMA SendsUnknown == IInv /\ [Next]_vars => SendsOnlyUnknown
<1> SUFFICES ASSUME IInv, [Next]_vars, NEW i \in Ids, net'[i] > net[i]
             PROVE  status[i] = "unknown" /\ pending[i] = "none"
  BY DEF SendsOnlyUnknown
<1> USE DEF durable, cache, life, doubt, memory, broker, clock, history
<1>1. net \in [Ids -> Nat]
  BY DEF IInv, TypeOK
<1>2. ASSUME NEW p \in Pairs, Send(p)
      PROVE  status[i] = "unknown" /\ pending[i] = "none"
  <2>1. TaskMatchesRow(p) /\ task[p].pc = "send"
    BY <1>2 DEF Send, IInv, Phases
  <2>2. i = task[p].id
    BY <1>1, <1>2, <2>1 DEF Send, TaskMatchesRow
  <2> QED BY <2>1, <2>2 DEF TaskMatchesRow
<1>3. ASSUME NEW p \in Pairs,
             \/ Handler(p) \/ StageCommit(p) \/ StageReturned(p) \/ SendShadow(p)
             \/ MarkUnknown(p) \/ SendReturns(p) \/ Checkpoint(p) \/ TrackRedis(p)
             \/ TrackPostgres(p) \/ Finalise(p) \/ Fault(p) \/ BootCut(p)
      PROVE  net' = net
  BY <1>3 DEF Handler, EmitIntent, StageCommit, StageReturned, SendShadow, MarkUnknown,
              SendReturns, Checkpoint, TrackRedis, TrackPostgres, Finalise, Fault,
              StageFailed, SendWithheld, TrackFailed, MarkFailed, BootCut
<1>4. CASE \/ Scanning \/ ScanQueryFailed \/ Boot \/ Crash \/ RedisFlushed \/ SetShadow
           \/ Tick \/ UNCHANGED vars
  <2>1. net' = net
    BY <1>4 DEF Scanning, ScanStart, ScanQuery, ScanVisit, ScanLock, ScanSkip, ScanEnd,
                ScanQueryFailed, Boot, Crash, RedisFlushed, SetShadow, Tick, vars
  <2> QED BY <1>1, <2>1
<1>5. CASE Broker
  BY <1>1, <1>5 DEF Broker, BrokerTakes, BrokerRefuses, NetworkLoses
<1> QED BY <1>1, <1>2, <1>3, <1>4, <1>5 DEF Next, Progress

\* "Accepted rows only retry local persistence; they never resend to the
\* broker": whatever the interleaving of handler, scan, crash and restart.
THEOREM ResendSafe == Spec => NeverResendAccepted
<1>1. IInv /\ [Next]_vars => [SendsOnlyUnknown]_vars
  BY SendsUnknown
<1> QED BY <1>1, Invariance, PTL DEF Spec, NeverResendAccepted
-----------------------------------------------------------------------------
(* Twice "once".  What reaches the broker: at most one execution of each   *)
(* command, because the retry horizon plus the lag fits in the broker's    *)
(* deduplication window; and, over a transport that reports "failed" only  *)
(* about commands that were refused, none at all of a command recorded as  *)
(* failed.  What is asked of it: one unfinished command per pair, where    *)
(* handler and scan do not overlap.                                        *)

\* The phases before the request leaves.
Leaving == {"stage", "staged", "mark", "send"}
Unsent(i) == net[i] = 0 /\ takenAt[i] = Never
\* The last attempt allowed for i was allowed within the retry horizon.
Young(i) == checked[i] < created[i] + RetryMaxAge

\* The clocks of row i: a copy under way is at most MaxLag older than its check.
Clocks(i) ==
    /\ created[i] =< checked[i] /\ checked[i] =< now
    /\ UnderWay(i) => now =< checked[i] + MaxLag
    /\ takenAt[i] # Never => created[i] =< takenAt[i] /\ takenAt[i] =< now

\* A copy that may be a second one was allowed within the horizon.
Copies(i) ==
    /\ executed[i] = IF takenAt[i] = Never THEN 0 ELSE 1
    /\ net[i] > 1 => Young(i)
    /\ net[i] > 0 /\ takenAt[i] # Never => Young(i)
    /\ IsPaper => Unsent(i)

Attempt(p) ==
    LET i == task[p].id
    IN  /\ task[p].pc = "mark" /\ task[p].ambiguous /\ ~IsPaper => Young(i)
        /\ task[p].pc = "send" => ~IsPaper /\ (Unsent(i) \/ Young(i))

Horizon == /\ \A i \in Ids : Clocks(i) /\ Copies(i)
           /\ \A p \in Pairs : Attempt(p)

-----------------------------------------------------------------------------
(* The horizon.                                                            *)

\* A step that leaves the broker and the clock alone keeps the horizon when no
\* task comes nearer to the broker but by MarkUnknown.
LEMMA HorizonKept ==
    ASSUME Horizon, UNCHANGED <<created, checked, now, net, takenAt, executed>>,
           \A p \in Pairs : task'[p].pc \in Leaving =>
               /\ task[p].pc \in Leaving /\ task'[p].id = task[p].id
               /\ task'[p].pc = "mark" =>
                      \/ task'[p].ambiguous = FALSE
                      \/ task[p].pc = "mark" /\ task'[p].ambiguous = task[p].ambiguous
               /\ task'[p].pc = "send" =>
                      task[p].pc = "send" \/ (~IsPaper /\ (Unsent(task[p].id) \/ Young(task[p].id)))
    PROVE  Horizon'
<1>1. ASSUME NEW i \in Ids PROVE Clocks(i)' /\ Copies(i)'
  <2>1. UnderWay(i)' => UnderWay(i)
    BY DEF UnderWay, Leaving
  <2>2. Clocks(i) /\ Copies(i)
    BY DEF Horizon
  <2>3. Clocks(i)'
    BY <2>1, <2>2 DEF Clocks, Never
  <2>4. Copies(i)'
    BY <2>2 DEF Copies, Young, Unsent, Never
  <2> QED BY <2>3, <2>4
<1>2. ASSUME NEW p \in Pairs PROVE Attempt(p)'
  <2>1. Attempt(p)
    BY DEF Horizon
  <2>2. CASE task'[p].pc = "mark"
    BY <2>1, <2>2 DEF Attempt, Young, Leaving
  <2>3. CASE task'[p].pc = "send"
    <3>1. /\ task'[p].id = task[p].id
          /\ task[p].pc = "send" \/ (~IsPaper /\ (Unsent(task[p].id) \/ Young(task[p].id)))
      BY <2>3 DEF Leaving
    <3>2. ~IsPaper /\ (Unsent(task[p].id) \/ Young(task[p].id))
      BY <2>1, <3>1 DEF Attempt
    <3> QED BY <2>3, <3>1, <3>2 DEF Attempt, Young, Unsent, Never
  <2> QED BY <2>2, <2>3 DEF Attempt
<1> QED BY <1>1, <1>2 DEF Horizon

\* The task of p alone changes, and it is not about to send.
LEMMA HorizonOneTask ==
    ASSUME IInv, Horizon, NEW p \in Pairs,
           UNCHANGED <<created, checked, now, net, takenAt, executed>>,
           \A q \in Pairs \ {p} : task'[q] = task[q],
           task'[p].pc \notin {"mark", "send"},
           task'[p].pc \in Leaving => task[p].pc \in Leaving /\ task'[p].id = task[p].id
    PROVE  Horizon'
<1>1. \A q \in Pairs \ {p} : task'[q] = task[q] /\ task[q] \in TaskType
  BY DEF IInv, TypeOK
<1>2. \A q \in Pairs : task'[q].pc = "mark" =>
          task[q].pc = "mark" /\ task'[q].ambiguous = task[q].ambiguous
  BY <1>1
<1>3. \A q \in Pairs : task'[q].pc = "send" => task[q].pc = "send"
  BY <1>1
<1>4. \A q \in Pairs : task'[q].pc \in Leaving =>
          task[q].pc \in Leaving /\ task'[q].id = task[q].id
  BY <1>1
<1> QED BY <1>2, <1>3, <1>4, HorizonKept

LEMMA EmitIntentHorizon ==
    ASSUME IInv, Horizon, NEW p \in Pairs, NEW action \in Actions, NEW c \in Ids,
           EmitIntent(p, action, c)
    PROVE  Horizon'
<1>1. PICK n \in Ids : n = nextId
  BY DEF EmitIntent
<1>2. /\ TypeOK /\ Unsent(n) /\ now \in Nat /\ task[p].pc = "idle"
      /\ created \in [Ids -> Times] /\ checked \in [Ids -> Times] /\ task \in [Pairs -> TaskType]
  BY <1>1, BoundAssumption
     DEF IInv, Allocated, PreparedNeverSent, Unsent, Ids, TypeOK, Times, EmitIntent
<1>3. /\ created' = [created EXCEPT ![n] = now] /\ checked' = [checked EXCEPT ![n] = now]
      /\ task' = [task EXCEPT ![p] = [IdleTask EXCEPT !.pc = "stage", !.by = "handler",
                                                      !.id = n]]
      /\ UNCHANGED <<now, net, takenAt, executed>>
  BY <1>1 DEF EmitIntent, broker
<1>4. /\ task'[p].pc = "stage" /\ task'[p].id = n
      /\ \A q \in Pairs \ {p} : task'[q] = task[q]
  BY <1>2, <1>3 DEF IdleTask
<1>5. ASSUME NEW i \in Ids PROVE Clocks(i)' /\ Copies(i)'
  <2>1. CASE i = n
    <3>1. created'[i] = now /\ checked'[i] = now
      BY <1>2, <1>3, <2>1
    <3>2. Clocks(i)'
      BY <1>2, <1>3, <2>1, <3>1, HorizonAssumption DEF Clocks, Unsent, Never
    <3>3. Copies(i)'
      BY <1>2, <1>3, <2>1 DEF Horizon, Copies, Unsent, Never
    <3> QED BY <3>2, <3>3
  <2>2. CASE i # n
    <3>1. created'[i] = created[i] /\ checked'[i] = checked[i] /\ Clocks(i) /\ Copies(i)
      BY <1>2, <1>3, <2>2 DEF Horizon
    <3>2. UnderWay(i)' => UnderWay(i)
      BY <1>3, <1>4, <2>2 DEF UnderWay
    <3> QED BY <1>3, <3>1, <3>2 DEF Clocks, Copies, Young, Unsent, Never
  <2> QED BY <2>1, <2>2
<1>6. ASSUME NEW q \in Pairs PROVE Attempt(q)'
  <2>1. CASE q = p
    BY <1>4, <2>1 DEF Attempt
  <2>2. CASE q # p /\ task[q].pc \in {"mark", "send"}
    <3>1. PICK i \in Ids : i = task[q].id /\ i # n
      BY <1>1, <2>2 DEF IInv, Phases, TaskMatchesRow, Ids
    <3>2. task'[q] = task[q] /\ created'[i] = created[i] /\ checked'[i] = checked[i] /\ Attempt(q)
      BY <1>2, <1>3, <1>4, <2>2, <3>1 DEF Horizon
    <3> QED BY <1>3, <3>1, <3>2 DEF Attempt, Young, Unsent, Never
  <2>3. CASE q # p /\ task[q].pc \notin {"mark", "send"}
    BY <1>4, <2>3 DEF Attempt
  <2> QED BY <2>1, <2>2, <2>3
<1> QED BY <1>5, <1>6 DEF Horizon

\* A copy leaves: it is the first, or it was allowed within the horizon.
LEMMA SendHorizon ==
    ASSUME IInv, Horizon, NEW p \in Pairs, Send(p) PROVE Horizon'
<1>0. PICK i : i = task[p].id OBVIOUS
<1>1. /\ TypeOK /\ task[p].pc = "send" /\ i \in Ids /\ TaskMatchesRow(p) /\ net[i] \in Nat
      /\ ~IsPaper /\ (Unsent(i) \/ Young(i)) /\ net \in [Ids -> Nat]
  BY <1>0 DEF IInv, Phases, Send, TaskMatchesRow, TypeOK, Horizon, Attempt
<1>2. /\ net' = [net EXCEPT ![i] = @ + 1]
      /\ UNCHANGED <<created, checked, now, takenAt, executed>>
  BY <1>0 DEF Send, durable, clock
<1>3. task'[p].pc = "sending" /\ \A q \in Pairs \ {p} : task'[q] = task[q]
  <2>1. /\ task'[p] = [task[p] EXCEPT !.pc = "sending"] /\ task[p] \in TaskType
        /\ \A q \in Pairs \ {p} : task'[q] = task[q]
    BY <1>1, GotoFacts DEF Send, PhaseType, TypeOK
  <2> QED BY <2>1 DEF TaskType
<1>4. UnderWay(i)
  BY <1>0, <1>1 DEF UnderWay
<1>5. ASSUME NEW j \in Ids PROVE Clocks(j)' /\ Copies(j)'
  <2>1. Clocks(j) /\ Copies(j)
    BY DEF Horizon
  <2>2. UnderWay(j)' => UnderWay(j)
    BY <1>1, <1>2, <1>3, <1>4 DEF UnderWay
  <2>3. Clocks(j)'
    BY <1>2, <2>1, <2>2 DEF Clocks, Never
  <2>4. CASE j # i
    <3>1. net'[j] = net[j]
      BY <1>1, <1>2, <2>4
    <3> QED BY <1>2, <2>1, <2>3, <3>1 DEF Copies, Young, Unsent, Never
  <2>5. CASE j = i
    <3>1. net'[i] = net[i] + 1
      BY <1>1, <1>2
    <3>2. CASE Unsent(i)
      <4>1. net'[i] = 1 /\ takenAt'[i] = Never
        BY <1>2, <3>1, <3>2 DEF Unsent, Never
      <4>2. executed'[i] = IF takenAt'[i] = Never THEN 0 ELSE 1
        BY <1>2, <2>1, <2>5 DEF Copies, Never
      <4> QED BY <1>1, <2>3, <2>5, <4>1, <4>2 DEF Copies, Never
    <3>3. CASE Young(i)
      <4>1. Young(i)'
        BY <1>2, <3>3 DEF Young
      <4>2. (executed[i] = IF takenAt[i] = Never THEN 0 ELSE 1)'
        BY <1>2, <2>1, <2>5 DEF Copies, Never
      <4> QED BY <1>1, <2>3, <2>5, <4>1, <4>2 DEF Copies
    <3> QED BY <1>1, <3>2, <3>3
  <2> QED BY <2>4, <2>5
<1>6. ASSUME NEW q \in Pairs PROVE Attempt(q)'
  <2>1. CASE q = p \/ task[q].pc \notin {"mark", "send"}
    BY <1>3, <2>1 DEF Attempt
  <2>2. CASE q # p /\ task[q].pc \in {"mark", "send"}
    <3>1. PICK j \in Ids : j = task[q].id /\ j # i
      BY <1>0, <1>1, <2>2 DEF IInv, Phases, TaskMatchesRow
    <3> QED BY <1>1, <1>2, <1>3, <2>2, <3>1 DEF Horizon, Attempt, Young, Unsent, Never
  <2> QED BY <2>1, <2>2
<1> QED BY <1>5, <1>6 DEF Horizon

\* The scan allows an attempt: the row was never sent, or it is young enough.
LEMMA ScanLockHorizon == ASSUME IInv, Horizon, ScanLock PROVE Horizon'
<1>0. PICK i : i = scan.row OBVIOUS
<1>1. /\ TypeOK /\ i \in Ids /\ PairOf(i) \in Pairs /\ task \in [Pairs -> TaskType]
      /\ status[i] # "none" /\ checked \in [Ids -> Times]
      /\ now \in Nat /\ created[i] \in Nat /\ checked[i] \in Nat
  BY <1>0, BoundAssumption DEF IInv, ScanSeesRows, ScanLock, Allocated, TypeOK, Times
<1>2. PICK p \in Pairs : p = PairOf(i)
  BY <1>1
<1>3. PICK out : out = KnownOutcome(i) OBVIOUS
<1>4. /\ task'[p] = RecoveryTask(i) /\ \A q \in Pairs \ {p} : task'[q] = task[q]
      /\ out # "none" \/ (status[i] \notin Final /\ Retriable(i))
      /\ checked' = IF out = "none" THEN [checked EXCEPT ![i] = now] ELSE checked
      /\ UNCHANGED <<created, now, net, takenAt, executed>>
  BY <1>0, <1>1, <1>2, <1>3 DEF ScanLock, durable, broker
<1>5. /\ task'[p].id = i /\ task'[p].ambiguous = (status[i] = "unknown")
      /\ task'[p].pc = IF out = "none" THEN "mark"
                       ELSE IF out \in Accepted THEN "checkpoint" ELSE "final"
  BY <1>3, <1>4 DEF RecoveryTask
<1>6. CASE out # "none"
  BY <1>4, <1>5, <1>6, HorizonOneTask DEF Leaving
<1>7. CASE out = "none"
  <2>1. checked'[i] = now /\ \A j \in Ids \ {i} : checked'[j] = checked[j]
    BY <1>1, <1>4, <1>7
  <2>2. Clocks(i) /\ Copies(i)
    BY <1>1 DEF Horizon
  <2>3. Unsent(i) \/ Young(i)'
    <3>1. CASE status[i] = "prepared"
      BY <1>1, <3>1 DEF IInv, PreparedNeverSent, Unsent
    <3>2. CASE IsPaper
      BY <2>2, <3>2 DEF Copies
    <3>3. CASE status[i] # "prepared" /\ ~IsPaper
      BY <1>1, <1>4, <1>7, <2>1, <3>3, HorizonAssumption DEF Retriable, Young
    <3> QED BY <3>1, <3>2, <3>3
  <2>4. status[i] = "unknown" /\ ~IsPaper => Young(i)'
    BY <1>1, <1>4, <1>7, <2>1, HorizonAssumption DEF Retriable, Young
  <2>5. ASSUME NEW j \in Ids PROVE Clocks(j)' /\ Copies(j)'
    <3>1. CASE j = i
      <4>1. Clocks(j)'
        BY <1>1, <1>4, <2>1, <2>2, <3>1, HorizonAssumption DEF Clocks, Never
      <4>2. Copies(j)'
        BY <1>4, <2>2, <2>3, <3>1 DEF Copies, Unsent, Never
      <4> QED BY <4>1, <4>2
    <3>2. CASE j # i
      <4>1. UnderWay(j)' => UnderWay(j)
        BY <1>4, <1>5, <3>2 DEF UnderWay
      <4> QED BY <1>4, <2>1, <3>2, <4>1 DEF Horizon, Clocks, Copies, Young, Unsent, Never
    <3> QED BY <3>1, <3>2
  <2>6. ASSUME NEW q \in Pairs PROVE Attempt(q)'
    <3>1. CASE q = p
      BY <1>5, <1>7, <2>4, <3>1 DEF Attempt
    <3>2. CASE q # p /\ task[q].pc \in {"mark", "send"}
      <4>1. PICK j \in Ids : j = task[q].id /\ j # i
        BY <1>2, <3>2 DEF IInv, Phases, TaskMatchesRow
      <4> QED BY <1>4, <2>1, <3>2, <4>1 DEF Horizon, Attempt, Young, Unsent, Never
    <3>3. CASE q # p /\ task[q].pc \notin {"mark", "send"}
      BY <1>4, <3>3 DEF Attempt
    <3> QED BY <3>1, <3>2, <3>3
  <2> QED BY <2>5, <2>6 DEF Horizon
<1> QED BY <1>6, <1>7

\* The broker takes, refuses or never gets a copy.  A second copy it takes was
\* allowed within the horizon, so it still remembers the id.
LEMMA BrokerHorizon == ASSUME IInv, Horizon, Broker PROVE Horizon'
<1>1. PICK i \in Ids : BrokerTakes(i) \/ BrokerRefuses(i) \/ NetworkLoses(i)
  BY DEF Broker
<1>2. /\ TypeOK /\ net \in [Ids -> Nat] /\ net[i] > 0 /\ net[i] \in Nat
      /\ takenAt \in [Ids -> Times \cup {Never}] /\ executed \in [Ids -> Nat]
      /\ created[i] \in Nat /\ checked[i] \in Nat /\ now \in Times /\ now \in Nat
      /\ now # Never /\ Never \in Nat
  BY <1>1, BoundAssumption DEF IInv, TypeOK, Times, Never, BrokerTakes, BrokerRefuses, NetworkLoses
<1>3. /\ net' = [net EXCEPT ![i] = @ - 1] /\ net'[i] = net[i] - 1
      /\ \A j \in Ids \ {i} : net'[j] = net[j]
      /\ UNCHANGED <<created, checked, now, task>>
  BY <1>1, <1>2 DEF BrokerTakes, BrokerRefuses, NetworkLoses, durable, memory, clock
<1>4. \A j \in Ids : UnderWay(j)' => UnderWay(j)
  BY <1>2, <1>3 DEF UnderWay
<1>5. Clocks(i) /\ Copies(i) /\ UnderWay(i)
  BY <1>2 DEF Horizon, UnderWay
<1>6. takenAt[i] # Never => now - takenAt[i] < DedupWindow
  BY <1>2, <1>5, HorizonAssumption DEF Clocks, Copies, Young, Times
<1>7. \/ takenAt' = takenAt /\ executed' = executed
      \/ /\ takenAt[i] = Never
         /\ takenAt' = [takenAt EXCEPT ![i] = now]
         /\ executed' = [executed EXCEPT ![i] = @ + 1]
  BY <1>1, <1>6 DEF BrokerTakes, BrokerRefuses, NetworkLoses
<1>8. ASSUME NEW j \in Ids PROVE Clocks(j)' /\ Copies(j)'
  <2>1. CASE j # i
    <3>1. net'[j] = net[j] /\ takenAt'[j] = takenAt[j] /\ executed'[j] = executed[j]
      BY <1>2, <1>3, <1>7, <2>1
    <3> QED BY <1>3, <1>4, <3>1 DEF Horizon, Clocks, Copies, Young, Unsent, Never
  <2>2. CASE j = i
    <3>1. Clocks(i)'
      BY <1>2, <1>3, <1>4, <1>5, <1>7 DEF Clocks, Never
    <3>2. (executed[i] = IF takenAt[i] = Never THEN 0 ELSE 1)'
      BY <1>2, <1>5, <1>7 DEF Copies, Never
    <3>3. ~IsPaper
      BY <1>2, <1>5 DEF Copies, Unsent
    <3>4. (net[i] > 0 => Young(i))'
      BY <1>2, <1>3, <1>5 DEF Copies, Young
    <3> QED BY <1>2, <1>3, <2>2, <3>1, <3>2, <3>3, <3>4 DEF Copies
  <2> QED BY <2>1, <2>2
<1>9. ASSUME NEW q \in Pairs PROVE Attempt(q)'
  <2>1. CASE task[q].pc \notin {"mark", "send"}
    BY <1>3, <2>1 DEF Attempt
  <2>2. CASE task[q].pc \in {"mark", "send"}
    <3>1. PICK j \in Ids : j = task[q].id
      BY <2>2 DEF IInv, Phases, TaskMatchesRow
    <3>2. Unsent(j) => Unsent(j)'
      BY <1>2, <1>3, <1>7, <3>1 DEF Unsent, Never
    <3> QED BY <1>3, <2>2, <3>1, <3>2 DEF Horizon, Attempt, Young
  <2> QED BY <2>1, <2>2
<1> QED BY <1>8, <1>9 DEF Horizon

\* Time passes only while every attempt under way is younger than MaxLag.
LEMMA TickHorizon == ASSUME IInv, Horizon, Tick PROVE Horizon'
<1>1. /\ now' = now + 1 /\ now \in Nat
      /\ \A i \in Ids : checked[i] \in Nat /\ created[i] \in Nat
      /\ UNCHANGED <<created, checked, net, takenAt, executed, task>>
      /\ \A i \in Ids : UnderWay(i) => now - checked[i] < MaxLag
      /\ takenAt \in [Ids -> Times \cup {Never}]
  BY BoundAssumption DEF Tick, IInv, TypeOK, Times, durable, broker, memory
<1>2. ASSUME NEW i \in Ids PROVE Clocks(i)' /\ Copies(i)'
  <2>1. Clocks(i) /\ Copies(i) /\ (UnderWay(i)' => UnderWay(i))
    BY <1>1 DEF Horizon, UnderWay
  <2>2. Clocks(i)'
    BY <1>1, <2>1, HorizonAssumption, BoundAssumption DEF Clocks, Times, Never
  <2>3. Copies(i)'
    BY <1>1, <2>1 DEF Copies, Young, Unsent, Never
  <2> QED BY <2>2, <2>3
<1>3. ASSUME NEW q \in Pairs PROVE Attempt(q)'
  BY <1>1 DEF Horizon, Attempt, Young, Unsent, Never
<1> QED BY <1>2, <1>3 DEF Horizon

LEMMA InitHorizon == Init => Horizon
<1> SUFFICES ASSUME Init PROVE Horizon OBVIOUS
<1>1. ASSUME NEW i \in Ids PROVE Clocks(i) /\ Copies(i)
  BY HorizonAssumption DEF Init, Clocks, Copies, UnderWay, Unsent, IdleTask
<1>2. ASSUME NEW p \in Pairs PROVE Attempt(p)
  BY DEF Init, Attempt, IdleTask
<1> QED BY <1>1, <1>2 DEF Horizon

\* The tasks that move towards the broker without reaching it.
LEMMA ProgressHorizon ==
    ASSUME IInv, Horizon, NEW p \in Pairs, Progress(p) PROVE Horizon'
<1> USE DEF durable, cache, life, doubt, broker, clock, history
<1>1. TypeOK /\ task[p] \in TaskType /\ task \in [Pairs -> TaskType]
  BY DEF IInv, TypeOK
<1>2. CASE StageCommit(p) \/ StageReturned(p) \/ MarkUnknown(p)
  <2>1. PICK pc \in {"staged", "mark", "send"} :
          /\ Goto(p, pc)
          /\ pc = "staged" => task[p].pc = "stage"
          /\ pc = "mark" => task[p].pc = "staged"
          /\ pc = "send" => task[p].pc = "mark" /\ ~IsPaper
          /\ UNCHANGED <<created, checked, now, net, takenAt, executed>>
    BY <1>2 DEF StageCommit, StageReturned, MarkUnknown
  <2>2. TaskMatchesRow(p) /\ Attempt(p)
    BY <2>1 DEF IInv, Phases, Horizon
  <2>3. /\ task'[p].pc = pc /\ task'[p].id = task[p].id
        /\ task'[p].ambiguous = task[p].ambiguous
        /\ \A q \in Pairs \ {p} : task'[q] = task[q]
    <3>1. task'[p] = [task[p] EXCEPT !.pc = pc] /\ \A q \in Pairs \ {p} : task'[q] = task[q]
      BY <1>1, <2>1, GotoFacts DEF PhaseType
    <3> QED BY <1>1, <3>1 DEF TaskType
  <2>4. pc = "mark" => task'[p].ambiguous = FALSE
    BY <2>1, <2>2, <2>3 DEF TaskMatchesRow
  \* A first attempt finds the row "prepared", so it was never sent.
  <2>5. pc = "send" => Unsent(task[p].id) \/ Young(task[p].id)
    BY <2>1, <2>2 DEF TaskMatchesRow, Attempt, IInv, PreparedNeverSent, Unsent
  <2>6. \A q \in Pairs : task'[q].pc \in Leaving =>
          task[q].pc \in Leaving /\ task'[q].id = task[q].id
    BY <2>1, <2>3 DEF Leaving
  <2>7. \A q \in Pairs : task'[q].pc = "mark" =>
          \/ task'[q].ambiguous = FALSE
          \/ task[q].pc = "mark" /\ task'[q].ambiguous = task[q].ambiguous
    BY <2>3, <2>4
  <2>8. \A q \in Pairs : task'[q].pc = "send" =>
          task[q].pc = "send" \/ (~IsPaper /\ (Unsent(task[q].id) \/ Young(task[q].id)))
    BY <2>1, <2>3, <2>5
  <2> QED BY <2>1, <2>6, <2>7, <2>8, HorizonKept
<1>3. CASE Send(p)
  BY <1>3, SendHorizon
<1>4. CASE SendShadow(p) \/ SendReturns(p)
  <2>1. /\ UNCHANGED <<created, checked, now, net, takenAt, executed>>
        /\ \A q \in Pairs \ {p} : task'[q] = task[q]
        /\ task'[p].pc \in {"checkpoint", "final"}
    BY <1>1, <1>4 DEF SendShadow, SendReturns, TaskType
  <2> QED BY <2>1, HorizonOneTask DEF Leaving
<1>5. CASE Checkpoint(p) \/ TrackRedis(p) \/ TrackPostgres(p)
  <2>1. PICK pc \in {"redis", "postgres", "final"} :
          Goto(p, pc) /\ UNCHANGED <<created, checked, now, net, takenAt, executed>>
    BY <1>5 DEF Checkpoint, TrackRedis, TrackPostgres
  <2>2. task'[p] = [task[p] EXCEPT !.pc = pc] /\ \A q \in Pairs \ {p} : task'[q] = task[q]
    BY <1>1, <2>1, GotoFacts DEF PhaseType
  <2>3. task'[p].pc = pc
    BY <1>1, <2>2 DEF TaskType
  <2> QED BY <2>1, <2>2, <2>3, HorizonOneTask DEF Leaving
<1>6. CASE Finalise(p)
  <2>1. /\ UNCHANGED <<created, checked, now, net, takenAt, executed>>
        /\ task' = [task EXCEPT ![p] = IdleTask]
    BY <1>6 DEF Finalise, Return
  <2> QED BY <1>1, <2>1, HorizonOneTask DEF Leaving, IdleTask
<1> QED BY <1>2, <1>3, <1>4, <1>5, <1>6 DEF Progress

LEMMA HorizonStep == IInv /\ Horizon /\ [Next]_vars => Horizon'
<1> SUFFICES ASSUME IInv, Horizon, [Next]_vars PROVE Horizon' OBVIOUS
<1> USE DEF durable, cache, life, doubt, memory, broker, clock, history
<1>1. ASSUME NEW p \in Pairs, Handler(p) PROVE Horizon'
  BY <1>1, EmitIntentHorizon DEF Handler
<1>2. ASSUME NEW p \in Pairs, Progress(p) PROVE Horizon'
  BY <1>2, ProgressHorizon
<1>3. ASSUME NEW p \in Pairs, Fault(p) PROVE Horizon'
  <2>1. /\ UNCHANGED <<created, checked, now, net, takenAt, executed>>
        /\ task' = [task EXCEPT ![p] = IdleTask]
    BY <1>3 DEF Fault, StageFailed, SendWithheld, TrackFailed, MarkFailed, Return
  <2>2. task \in [Pairs -> TaskType]
    BY DEF IInv, TypeOK
  <2> QED BY <2>1, <2>2, HorizonOneTask DEF Leaving, IdleTask
<1>4. CASE ScanLock
  BY <1>4, ScanLockHorizon
<1>5. CASE Broker
  BY <1>5, BrokerHorizon
<1>6. CASE Tick
  BY <1>6, TickHorizon
<1>7. CASE Crash
  <2>1. /\ UNCHANGED <<created, checked, now, net, takenAt, executed>>
        /\ \A p \in Pairs : task'[p].pc = "idle"
    BY <1>7 DEF Crash, IdleTask
  <2> QED BY <2>1, HorizonKept DEF Leaving
<1>8. CASE \/ ScanStart \/ ScanQuery \/ ScanVisit \/ ScanSkip \/ ScanEnd \/ ScanQueryFailed
           \/ Boot \/ (\E p \in Pairs : BootCut(p)) \/ RedisFlushed \/ SetShadow
           \/ UNCHANGED vars
  <2>1. UNCHANGED <<created, checked, now, net, takenAt, executed, task>>
    BY <1>8 DEF ScanStart, ScanQuery, ScanVisit, ScanSkip, ScanEnd, ScanQueryFailed, Boot,
                BootCut, RedisFlushed, SetShadow, vars
  <2> QED BY <2>1, HorizonKept DEF Leaving
<1> QED BY <1>1, <1>2, <1>3, <1>4, <1>5, <1>6, <1>7, <1>8 DEF Next, Scanning

\* The broker acts at most once on a command: the horizon of a retry plus the
\* longest lag fits in the window in which the broker remembers the delivery
\* id, and a row sent at any age ("prepared") was never sent before.
THEOREM DeliveredAtMostOnce == Spec => []AtMostOnce
<1>1. Init => IInv /\ Horizon
  BY InitInv, InitHorizon
<1>2. IInv /\ Horizon /\ [Next]_vars => IInv' /\ Horizon'
  BY StepInv, HorizonStep
<1>3. Horizon => AtMostOnce
  BY DEF Horizon, Copies, AtMostOnce
<1> QED BY <1>1, <1>2, <1>3, PTL DEF Spec

-----------------------------------------------------------------------------
(* Refusals over NATS.                                                     *)

\* What a first attempt, and a refusal, tell about the broker when BrokerSink
\* reports "failed" only about commands that were refused.
Unexecuted(i) == net[i] = 0 /\ executed[i] = 0
FirstAttempts ==
    \A p \in Pairs :
        LET i == task[p].id
        IN  ~task[p].ambiguous =>
                /\ task[p].pc = "send" => Unexecuted(i)
                /\ task[p].pc = "sending" =>
                       \/ net[i] = 1 /\ reply[i] = "none" /\ executed[i] = 0
                       \/ net[i] = 0 /\ (reply[i] = "nack" => executed[i] = 0)
Refusals == \A i \in Ids : status[i] = "failed" \/ pending[i] = "failed" => Unexecuted(i)
RefusalInv == FirstAttempts /\ Refusals

\* A step that leaves the broker alone keeps what is known of refusals when it
\* records no new one and no first attempt comes nearer to the broker.
LEMMA RefusalsKept ==
    ASSUME RefusalInv, UNCHANGED <<net, executed, reply>>,
           \A p \in Pairs : task'[p].pc \in {"send", "sending"} => task'[p] = task[p],
           \A i \in Ids : status'[i] = "failed" \/ pending'[i] = "failed" =>
               status[i] = "failed" \/ pending[i] = "failed"
    PROVE  RefusalInv'
<1>1. FirstAttempts'
  <2> SUFFICES ASSUME NEW q \in Pairs, ~task'[q].ambiguous, NEW j, j = task'[q].id
               PROVE  /\ task'[q].pc = "send" => net'[j] = 0 /\ executed'[j] = 0
                      /\ task'[q].pc = "sending" =>
                            \/ net'[j] = 1 /\ reply'[j] = "none" /\ executed'[j] = 0
                            \/ net'[j] = 0 /\ (reply'[j] = "nack" => executed'[j] = 0)
    BY DEF FirstAttempts, Unexecuted
  <2>1. task'[q].pc \in {"send", "sending"} => task'[q] = task[q]
    OBVIOUS
  <2> QED BY <2>1 DEF RefusalInv, FirstAttempts, Unexecuted
<1>2. Refusals'
  BY DEF RefusalInv, Refusals, Unexecuted
<1> QED BY <1>1, <1>2 DEF RefusalInv

\* Before its first attempt a row reads "prepared", so it was never sent.
LEMMA MarkUnknownRefusals ==
    ASSUME IInv, RefusalInv, NEW p \in Pairs, MarkUnknown(p) PROVE RefusalInv'
<1>0. PICK i : i = task[p].id OBVIOUS
<1>1. /\ TypeOK /\ task[p].pc = "mark" /\ TaskMatchesRow(p) /\ i \in Ids
      /\ ~task[p].ambiguous => Unexecuted(i)
  BY <1>0 DEF IInv, Phases, MarkUnknown, TaskMatchesRow, PreparedNeverSent, Unexecuted
<1>2. /\ UNCHANGED <<net, executed, reply, pending>>
      /\ status' = [status EXCEPT ![i] = "unknown"]
  BY <1>0 DEF MarkUnknown, broker
<1>3. /\ task'[p] = [task[p] EXCEPT !.pc = "send"] /\ task[p] \in TaskType
      /\ \A q \in Pairs \ {p} : task'[q] = task[q]
  BY <1>1, GotoFacts DEF MarkUnknown, PhaseType, TypeOK
<1>4. task'[p].pc = "send" /\ task'[p].id = i /\ task'[p].ambiguous = task[p].ambiguous
  BY <1>0, <1>3 DEF TaskType
<1>5. FirstAttempts'
  <2> SUFFICES ASSUME NEW q \in Pairs, ~task'[q].ambiguous, NEW j, j = task'[q].id
               PROVE  /\ task'[q].pc = "send" => net'[j] = 0 /\ executed'[j] = 0
                      /\ task'[q].pc = "sending" =>
                            \/ net'[j] = 1 /\ reply'[j] = "none" /\ executed'[j] = 0
                            \/ net'[j] = 0 /\ (reply'[j] = "nack" => executed'[j] = 0)
    BY DEF FirstAttempts, Unexecuted
  <2>1. CASE q = p
    BY <1>1, <1>2, <1>4, <2>1 DEF Unexecuted
  <2>2. CASE q # p
    BY <1>2, <1>3, <2>2 DEF RefusalInv, FirstAttempts, Unexecuted
  <2> QED BY <2>1, <2>2
<1>6. Refusals'
  BY <1>1, <1>2 DEF RefusalInv, Refusals, Unexecuted, TypeOK
<1> QED BY <1>5, <1>6 DEF RefusalInv

LEMMA SendRefusals ==
    ASSUME IInv, RefusalInv, NEW p \in Pairs, Send(p) PROVE RefusalInv'
<1>0. PICK i : i = task[p].id OBVIOUS
<1>1. /\ TypeOK /\ task[p].pc = "send" /\ TaskMatchesRow(p) /\ i \in Ids
      /\ status[i] = "unknown" /\ pending[i] = "none"
      /\ net \in [Ids -> Nat] /\ reply \in [Ids -> {"none", "ack", "nack"}]
  BY <1>0 DEF IInv, Phases, Send, TaskMatchesRow, TypeOK
<1>2. /\ net' = [net EXCEPT ![i] = @ + 1] /\ reply' = [reply EXCEPT ![i] = "none"]
      /\ UNCHANGED <<executed, status, pending>>
  BY <1>0 DEF Send, durable
<1>3. net'[i] = net[i] + 1 /\ reply'[i] = "none"
      /\ \A j \in Ids \ {i} : net'[j] = net[j] /\ reply'[j] = reply[j]
  BY <1>1, <1>2
<1>4. /\ task'[p] = [task[p] EXCEPT !.pc = "sending"] /\ task[p] \in TaskType
      /\ \A q \in Pairs \ {p} : task'[q] = task[q]
  BY <1>1, GotoFacts DEF Send, PhaseType, TypeOK
<1>5. task'[p].pc = "sending" /\ task'[p].id = i /\ task'[p].ambiguous = task[p].ambiguous
  BY <1>0, <1>4 DEF TaskType
<1>6. FirstAttempts'
  <2> SUFFICES ASSUME NEW q \in Pairs, ~task'[q].ambiguous, NEW j, j = task'[q].id
               PROVE  /\ task'[q].pc = "send" => net'[j] = 0 /\ executed'[j] = 0
                      /\ task'[q].pc = "sending" =>
                            \/ net'[j] = 1 /\ reply'[j] = "none" /\ executed'[j] = 0
                            \/ net'[j] = 0 /\ (reply'[j] = "nack" => executed'[j] = 0)
    BY DEF FirstAttempts, Unexecuted
  <2>1. CASE q = p
    <3>1. net[i] = 0 /\ executed[i] = 0
      BY <1>0, <1>1, <1>5, <2>1 DEF RefusalInv, FirstAttempts, Unexecuted
    <3> QED BY <1>2, <1>3, <1>5, <2>1, <3>1
  <2>2. CASE q # p /\ task[q].pc \in {"send", "sending"}
    <3>1. task'[q] = task[q] /\ j \in Ids /\ j # i
      BY <1>0, <1>1, <1>4, <2>2 DEF IInv, Phases, TaskMatchesRow
    <3> QED BY <1>2, <1>3, <3>1 DEF RefusalInv, FirstAttempts, Unexecuted
  <2>3. CASE q # p /\ task[q].pc \notin {"send", "sending"}
    BY <1>4, <2>3
  <2> QED BY <2>1, <2>2, <2>3
<1>7. Refusals'
  BY <1>1, <1>2, <1>3 DEF RefusalInv, Refusals, Unexecuted
<1> QED BY <1>6, <1>7 DEF RefusalInv

\* Over NATS a first attempt is reported as failed only after a nack.
LEMMA SendReturnsRefusals ==
    ASSUME Transport = "nats", IInv, RefusalInv, NEW p \in Pairs, SendReturns(p)
    PROVE  RefusalInv'
<1>0. PICK i : i = task[p].id OBVIOUS
<1>1. /\ TypeOK /\ task[p].pc = "sending" /\ TaskMatchesRow(p) /\ i \in Ids
      /\ task \in [Pairs -> TaskType] /\ pending \in [Ids -> {"none"} \cup Final]
  BY <1>0 DEF IInv, Phases, SendReturns, TaskMatchesRow, TypeOK
<1>2. PICK result \in Results(i) :
        /\ task' = [task EXCEPT ![p].out = Outcome(p, result),
                     ![p].pc = IF Outcome(p, result) \in Accepted
                               THEN "checkpoint" ELSE "final"]
        /\ pending' = IF Outcome(p, result) = "unknown" THEN pending
                      ELSE [pending EXCEPT ![i] = Outcome(p, result)]
  BY <1>0 DEF SendReturns
<1>3. UNCHANGED <<net, executed, reply, status>>
  BY DEF SendReturns, broker, durable
<1>4. task'[p].pc \in {"checkpoint", "final"} /\ \A q \in Pairs \ {p} : task'[q] = task[q]
  BY <1>1, <1>2 DEF TaskType
<1>5. FirstAttempts'
  BY <1>3, <1>4 DEF RefusalInv, FirstAttempts, Unexecuted
<1>6. Outcome(p, result) = "failed" => Unexecuted(i)
  <2> SUFFICES ASSUME Outcome(p, result) = "failed" PROVE Unexecuted(i)
    OBVIOUS
  <2>1. ~task[p].ambiguous /\ result = "failed"
    BY DEF Outcome
  <2>2. reply[i] = "nack"
    BY <1>2, <2>1 DEF Results
  <2> QED BY <1>0, <1>1, <2>1, <2>2 DEF RefusalInv, FirstAttempts, Unexecuted
<1>7. Refusals'
  <2> SUFFICES ASSUME NEW j \in Ids, status'[j] = "failed" \/ pending'[j] = "failed"
               PROVE  Unexecuted(j)
    BY <1>3 DEF Refusals, Unexecuted
  <2>1. CASE status[j] = "failed" \/ pending[j] = "failed"
    BY <2>1 DEF RefusalInv, Refusals
  <2>2. CASE status[j] # "failed" /\ pending[j] # "failed"
    BY <1>1, <1>2, <1>3, <1>6, <2>2
  <2> QED BY <2>1, <2>2
<1> QED BY <1>5, <1>7 DEF RefusalInv

LEMMA BrokerRefusals == ASSUME IInv, RefusalInv, Broker PROVE RefusalInv'
<1>1. PICK i \in Ids : BrokerTakes(i) \/ BrokerRefuses(i) \/ NetworkLoses(i)
  BY DEF Broker
<1>2. /\ net \in [Ids -> Nat] /\ net[i] > 0
      /\ reply \in [Ids -> {"none", "ack", "nack"}] /\ executed \in [Ids -> Nat]
  BY <1>1 DEF IInv, TypeOK, BrokerTakes, BrokerRefuses, NetworkLoses
<1>3. /\ net' = [net EXCEPT ![i] = @ - 1]
      /\ UNCHANGED <<status, pending, task>>
  BY <1>1 DEF BrokerTakes, BrokerRefuses, NetworkLoses, durable, memory
<1>4. \/ reply' = [reply EXCEPT ![i] = "ack"]
      \/ executed' = executed /\ reply' = [reply EXCEPT ![i] = "nack"]
      \/ executed' = executed /\ reply' = reply
  BY <1>1 DEF BrokerTakes, BrokerRefuses, NetworkLoses
<1>5. executed' = executed \/ executed' = [executed EXCEPT ![i] = @ + 1]
  BY <1>1 DEF BrokerTakes, BrokerRefuses, NetworkLoses
<1>6. /\ net'[i] = net[i] - 1
      /\ \A j \in Ids \ {i} : net'[j] = net[j] /\ reply'[j] = reply[j]
                               /\ executed'[j] = executed[j]
      /\ reply'[i] = "nack" => executed'[i] = executed[i]
  BY <1>2, <1>3, <1>4, <1>5
<1>7. FirstAttempts'
  <2> SUFFICES ASSUME NEW q \in Pairs, ~task[q].ambiguous, NEW j, j = task[q].id
               PROVE  /\ task[q].pc = "send" => net'[j] = 0 /\ executed'[j] = 0
                      /\ task[q].pc = "sending" =>
                            \/ net'[j] = 1 /\ reply'[j] = "none" /\ executed'[j] = 0
                            \/ net'[j] = 0 /\ (reply'[j] = "nack" => executed'[j] = 0)
    BY <1>3 DEF FirstAttempts, Unexecuted
  <2>1. CASE task[q].pc \in {"send", "sending"}
    <3>1. j \in Ids
      BY <2>1 DEF IInv, Phases, TaskMatchesRow
    <3>2. /\ task[q].pc = "send" => net[j] = 0 /\ executed[j] = 0
          /\ task[q].pc = "sending" =>
                \/ net[j] = 1 /\ reply[j] = "none" /\ executed[j] = 0
                \/ net[j] = 0 /\ (reply[j] = "nack" => executed[j] = 0)
      BY DEF RefusalInv, FirstAttempts, Unexecuted
    <3> QED BY <1>2, <1>6, <3>1, <3>2
  <2> QED BY <2>1
<1>8. Refusals'
  BY <1>2, <1>3, <1>6 DEF RefusalInv, Refusals, Unexecuted
<1> QED BY <1>7, <1>8 DEF RefusalInv

LEMMA RefusalStep ==
    ASSUME Transport = "nats" PROVE IInv /\ RefusalInv /\ [Next]_vars => RefusalInv'
<1> SUFFICES ASSUME IInv, RefusalInv, [Next]_vars PROVE RefusalInv' OBVIOUS
<1> USE DEF durable, cache, life, doubt, memory, broker, clock, history
<1>1. /\ task \in [Pairs -> TaskType] /\ status \in [Ids -> {"none"} \cup Unfinished \cup Final]
      /\ pending \in [Ids -> {"none"} \cup Final]
  BY DEF IInv, TypeOK
<1>2. ASSUME NEW p \in Pairs, MarkUnknown(p) \/ Send(p) \/ SendReturns(p) PROVE RefusalInv'
  BY <1>2, MarkUnknownRefusals, SendRefusals, SendReturnsRefusals
<1>3. CASE Broker
  BY <1>3, BrokerRefusals
<1>4. ASSUME NEW p \in Pairs,
             \/ Handler(p) \/ StageCommit(p) \/ StageReturned(p) \/ SendShadow(p)
             \/ Checkpoint(p) \/ TrackRedis(p) \/ TrackPostgres(p)
      PROVE  RefusalInv'
  <2>1. /\ UNCHANGED <<net, executed, reply>>
        /\ \A q \in Pairs : task'[q].pc \in {"send", "sending"} => task'[q] = task[q]
    <3>1. UNCHANGED <<net, executed, reply>>
      BY <1>4 DEF Handler, EmitIntent, StageCommit, StageReturned, SendShadow, Checkpoint,
                  TrackRedis, TrackPostgres
    <3>2. /\ \A q \in Pairs \ {p} : task'[q] = task[q]
          /\ task'[p].pc \notin {"send", "sending"}
      <4>1. CASE Handler(p)
        BY <1>1, <4>1 DEF Handler, EmitIntent, IdleTask
      <4>2. CASE SendShadow(p)
        BY <1>1, <4>2 DEF SendShadow, TaskType
      <4>3. ASSUME NEW pc \in {"staged", "mark", "redis", "postgres", "final"}, Goto(p, pc)
            PROVE  /\ \A q \in Pairs \ {p} : task'[q] = task[q]
                   /\ task'[p].pc = pc
        BY <1>1, <4>3 DEF Goto, TaskType
      <4> QED BY <1>4, <4>1, <4>2, <4>3
           DEF StageCommit, StageReturned, Checkpoint, TrackRedis, TrackPostgres
    <3> QED BY <3>1, <3>2
  <2>2. \A i \in Ids : status'[i] = "failed" \/ pending'[i] = "failed" =>
            status[i] = "failed" \/ pending[i] = "failed"
    BY <1>1, <1>4
       DEF Handler, EmitIntent, StageCommit, StageReturned, SendShadow, Checkpoint,
           TrackRedis, TrackPostgres, PendingStatus
  <2> QED BY <2>1, <2>2, RefusalsKept
\* The end of a task records a failure only when the memory already held it.
<1>5. ASSUME NEW p \in Pairs, Finalise(p) \/ Fault(p) PROVE RefusalInv'
  <2>1. /\ UNCHANGED <<net, executed, reply>>
        /\ task' = [task EXCEPT ![p] = IdleTask] /\ task[p].pc # "idle"
    BY <1>5 DEF Finalise, Fault, StageFailed, SendWithheld, TrackFailed, MarkFailed, Return
  <2>2. \A q \in Pairs : task'[q].pc \in {"send", "sending"} => task'[q] = task[q]
    BY <1>1, <2>1 DEF IdleTask
  <2>3. TaskMatchesRow(p)
    BY <2>1 DEF IInv, Phases
  <2>4. PICK mark :
          /\ status' = status \/ status' = [status EXCEPT ![task[p].id] = mark]
          /\ mark = "failed" => task[p].pc = "final" /\ task[p].out = "failed"
          /\ \/ pending' = pending
             \/ pending' = [pending EXCEPT ![task[p].id] = "none"]
    BY <1>5 DEF Finalise, Fault, StageFailed, SendWithheld, TrackFailed, MarkFailed,
                PendingStatus
  <2>5. mark = "failed" => pending[task[p].id] = "failed"
    BY <2>3, <2>4 DEF TaskMatchesRow
  <2>6. \A i \in Ids : status'[i] = "failed" \/ pending'[i] = "failed" =>
            status[i] = "failed" \/ pending[i] = "failed"
    BY <1>1, <2>4, <2>5
  <2> QED BY <2>1, <2>2, <2>6, RefusalsKept
<1>6. CASE ScanLock
  <2>1. PICK i \in Ids, p \in Pairs :
          /\ task' = [task EXCEPT ![p] = RecoveryTask(i)]
          /\ \/ pending' = pending
             \/ pending' = [pending EXCEPT ![i] = KnownOutcome(i)]
          /\ UNCHANGED <<net, executed, reply, status>>
    BY <1>6 DEF ScanLock, IInv, ScanSeesRows, Allocated
  <2>2. RecoveryTask(i).pc \notin {"send", "sending"}
    BY DEF RecoveryTask
  <2>3. \A q \in Pairs : task'[q].pc \in {"send", "sending"} => task'[q] = task[q]
    BY <1>1, <2>1, <2>2
  <2>4. KnownOutcome(i) = "failed" => pending[i] = "failed"
    BY <1>1, <2>1 DEF KnownOutcome
  <2> QED BY <1>1, <2>1, <2>3, <2>4, RefusalsKept
<1>7. CASE Crash
  BY <1>7, RefusalsKept DEF Crash, IdleTask
<1>8. CASE \/ ScanStart \/ ScanQuery \/ ScanVisit \/ ScanSkip \/ ScanEnd \/ ScanQueryFailed
           \/ Boot \/ (\E p \in Pairs : BootCut(p)) \/ RedisFlushed \/ SetShadow \/ Tick
           \/ UNCHANGED vars
  <2>1. UNCHANGED <<net, executed, reply, task, status, pending>>
    BY <1>8 DEF ScanStart, ScanQuery, ScanVisit, ScanSkip, ScanEnd, ScanQueryFailed, Boot,
                BootCut, RedisFlushed, SetShadow, Tick, vars
  <2> QED BY <2>1, RefusalsKept
<1> QED BY <1>2, <1>3, <1>4, <1>5, <1>6, <1>7, <1>8 DEF Next, Scanning, Progress

LEMMA InitRefusals == Init => RefusalInv
<1> QED BY DEF Init, RefusalInv, FirstAttempts, Refusals, Unexecuted, IdleTask

\* Over NATS a command recorded as failed was never executed and has no copy
\* under way: a refused retry of an ambiguous attempt stays ambiguous.  Over
\* HTTP this does not hold: a reset connection may hide an accepted command.
THEOREM FailedIsUnexecuted ==
    ASSUME Transport = "nats" PROVE Spec => []FailedMeansNotExecuted
<1>1. Init => IInv /\ RefusalInv
  BY InitInv, InitRefusals
<1>2. IInv /\ RefusalInv /\ [Next]_vars => IInv' /\ RefusalInv'
  BY StepInv, RefusalStep
<1>3. RefusalInv => FailedMeansNotExecuted
  BY DEF RefusalInv, Refusals, Unexecuted, FailedMeansNotExecuted
<1> QED BY <1>1, <1>2, <1>3, PTL DEF Spec

-----------------------------------------------------------------------------
(* One unfinished command per pair, but for rows that a scan overtook.     *)

\* A row that is unfinished, or final in Postgres only: the runner still holds
\* its result and will write it again.
OpenRow(i) == status[i] \in Unfinished \/ pending[i] # "none"

\* An open row that no scan overtook.
InSight(i) == OpenRow(i) /\ i \notin overtaken
OneOpen ==
    \A i, j \in Ids : i < j /\ InSight(i) /\ OpenRow(j) => PairOf(i) # PairOf(j)

\* A handler stages for a pair without an open row in sight, and its row is the
\* newest of the pair.
StagesAlone ==
    \A p \in Pairs : \A i \in Ids : PairOf(i) = p =>
        /\ task[p].pc = "stage" => ~InSight(i)
        /\ task[p].pc # "idle" /\ task[p].by = "handler" => i =< task[p].id

\* The scan has yet to read an open row, holds it, or has filed its pair as blocked:
\* so it is for every row in sight.
Seen(i) ==
    \/ scan.pc # "end" /\ i > scan.cursor
    \/ i \in scan.page
    \/ /\ PairOf(i) \in uncertain
       /\ PairOf(i) \in scan.blocked \/ (scan.pc \in {"lock", "row"} /\ i = scan.row)
ScanMissesNone ==
    /\ scan.pc \in {"idle", "query", "end"} => scan.page = {}
    /\ scan.pc # "idle" => \A i \in Ids : InSight(i) => Seen(i)

\* Once the first scan is over the pair of such a row is blocked; a handler blocks
\* it when the staging returns.
OpenIsBlocked ==
    mode = "up" => \A i \in Ids : InSight(i) =>
        PairOf(i) \in uncertain \/ task[PairOf(i)].pc = "staged"

OneInv == OneOpen /\ StagesAlone /\ ScanMissesNone /\ OpenIsBlocked

\* Whoever works on a staged row works on an open one.
LEMMA BusyIsOpen ==
    ASSUME IInv, NEW p \in Pairs, task[p].pc \notin {"idle", "stage"}
    PROVE  task[p].id \in Ids /\ PairOf(task[p].id) = p /\ OpenRow(task[p].id)
<1>1. TaskMatchesRow(p) /\ task[p].pc \in PhaseType /\ task[p].out \in Outcomes
  BY DEF IInv, Phases, TypeOK, TaskType
<1> QED BY <1>1 DEF TaskMatchesRow, OpenRow, Unfinished, PhaseType, Compatible, Outcomes, Final

\* A step that opens no row, leaves the scan alone and blocks whom it takes from
\* "staged" keeps the invariant.
LEMMA OpensNone ==
    ASSUME OneInv, command' = command, scan' = scan, uncertain \subseteq uncertain',
           overtaken' = overtaken, mode' = "up" => mode = "up",
           \A i \in Ids : OpenRow(i)' => OpenRow(i),
           \A q \in Pairs :
               /\ task'[q].pc \in {"stage", "staged"} => task'[q].pc = task[q].pc
               /\ task[q].pc = "staged" => task'[q].pc = "staged" \/ q \in uncertain'
               /\ task'[q].pc # "idle" /\ task'[q].by = "handler" =>
                      task[q].pc # "idle" /\ task[q].by = "handler" /\ task'[q].id = task[q].id,
           \A i \in Ids : OpenRow(i) => PairOf(i) \in Pairs
    PROVE  OneInv'
<1>1. \A i \in Ids : PairOf(i)' = PairOf(i) /\ (InSight(i)' => InSight(i))
  BY DEF PairOf, InSight
<1>2. OneOpen'
  BY <1>1 DEF OneInv, OneOpen
<1>3. StagesAlone'
  BY <1>1 DEF OneInv, StagesAlone
<1>4. \A i \in Ids : Seen(i) => Seen(i)'
  BY <1>1 DEF Seen
<1>5. ScanMissesNone'
  BY <1>1, <1>4 DEF OneInv, ScanMissesNone
<1>6. OpenIsBlocked'
  BY <1>1 DEF OneInv, OpenIsBlocked, InSight
<1> QED BY <1>2, <1>3, <1>5, <1>6 DEF OneInv

LEMMA OpenHasPair ==
    ASSUME IInv, NEW i \in Ids, OpenRow(i) PROVE PairOf(i) \in Pairs
BY DEF IInv, Allocated, OpenRow, Unfinished

\* A task that ends has closed its row, or reports that it has not.
LEMMA EndOpensNone ==
    ASSUME IInv, OneInv, NEW p \in Pairs, NEW ok \in BOOLEAN, Return(p, ok),
           task[p].pc \notin {"idle", "stage", "staged"},
           command' = command, mode' = mode, overtaken' = overtaken,
           \A i \in Ids : OpenRow(i)' => OpenRow(i),
           \A i \in Ids : i = task[p].id /\ ok => ~OpenRow(i)'
    PROVE  OneInv'
<1> DEFINE n == task[p].id
<1>1. /\ n \in Ids /\ PairOf(n) = p /\ OpenRow(n)
      /\ \A i \in Ids : PairOf(i)' = PairOf(i) /\ (InSight(i)' => InSight(i) /\ OpenRow(i)')
      /\ \A i \in Ids : OpenRow(i) => PairOf(i) \in Pairs
  BY BusyIsOpen, OpenHasPair DEF PairOf, InSight
<1>2. /\ task'[p].pc = "idle" /\ \A q \in Pairs \ {p} : task'[q] = task[q]
      /\ scan'.page = scan.page
      /\ task[p].by = "handler" => scan' = scan
      /\ task[p].by = "scan" => scan'.pc \in {"query", "page"}
      /\ task[p].by \in {"handler", "scan"}
  BY ReturnFacts DEF IInv, IdleTask
<1>3. ASSUME NEW i \in Ids, InSight(i)', PairOf(i) = p, task[p].by = "handler", ok
      PROVE  FALSE
  <2>1. i =< n /\ i # n
    BY <1>1, <1>3 DEF OneInv, StagesAlone
  <2>2. i < n
    BY <1>1, <2>1 DEF Ids
  <2> QED BY <1>1, <1>3, <2>2 DEF OneInv, OneOpen
<1>4. \A i \in Ids : InSight(i)' => (PairOf(i) \in uncertain' <=> PairOf(i) \in uncertain)
  BY <1>3 DEF Return
<1>5. OneOpen'
  BY <1>1 DEF OneInv, OneOpen
<1>6. StagesAlone'
  BY <1>1, <1>2 DEF OneInv, StagesAlone
<1>7. OpenIsBlocked'
  BY <1>1, <1>2, <1>4 DEF OneInv, OpenIsBlocked, InSight
<1>8. ScanMissesNone'
  <2>1. CASE task[p].by = "handler"
    <3>1. \A i \in Ids : InSight(i)' /\ Seen(i) => Seen(i)'
      BY <1>1, <1>2, <1>4, <2>1 DEF Seen
    <3> QED BY <1>1, <1>2, <2>1, <3>1 DEF OneInv, ScanMissesNone
  <2>2. CASE task[p].by = "scan"
    <3>1. /\ scan.pc = "row" /\ scan.row \in Ids /\ PairOf(scan.row) = p /\ n = scan.row
      BY <1>1, <2>2 DEF IInv, ScanSeesRows
    <3>2. /\ scan'.pc = IF scan.page = {} THEN "query" ELSE "page"
          /\ scan'.cursor = scan.cursor /\ scan'.page = scan.page
          /\ scan'.blocked = IF ok THEN scan.blocked ELSE scan.blocked \cup {p}
      BY <2>2 DEF Return, IInv, TypeOK, ScanType
    <3>3. ASSUME NEW i \in Ids, InSight(i)' PROVE Seen(i)'
      <4>1. Seen(i) /\ InSight(i) /\ OpenRow(i)'
        BY <1>1, <3>1, <3>3 DEF OneInv, ScanMissesNone
      <4>2. CASE i = n
        <5>1. ~ok
          BY <4>1, <4>2
        <5>2. i > scan.cursor \/ i \in scan.page \/ PairOf(i) \in uncertain
          BY <4>1 DEF Seen
        <5> QED BY <1>1, <1>4, <3>2, <3>3, <4>2, <5>1, <5>2 DEF Seen
      <4>3. CASE i # n
        BY <1>1, <1>4, <3>1, <3>2, <3>3, <4>1, <4>3 DEF Seen
      <4> QED BY <4>2, <4>3
    <3>4. scan'.pc \in {"idle", "query", "end"} => scan'.page = {}
      BY <3>2
    <3> QED BY <3>3, <3>4 DEF ScanMissesNone
  <2> QED BY <1>2, <2>1, <2>2
<1> QED BY <1>5, <1>6, <1>7, <1>8 DEF OneInv

\* A handler starts only where every open row is out of sight.
LEMMA EmitIntentOne ==
    ASSUME IInv, OneInv, NEW p \in Pairs,
           NEW action \in Actions, NEW c \in Ids, EmitIntent(p, action, c)
    PROVE  OneInv'
<1> USE DEF cache, life, doubt, broker, history
<1>1. /\ mode = "up" /\ mode' = mode /\ scan' = scan /\ p \notin uncertain
      /\ task[p].pc = "idle" /\ status' = status /\ pending' = pending
      /\ uncertain' = uncertain /\ overtaken' = overtaken
  BY DEF EmitIntent
<1>2. PICK n \in Ids : n = nextId
  BY DEF EmitIntent
<1>3. \A i \in Ids : i # n => PairOf(i)' = PairOf(i)
  <2>1. command \in [Ids -> CommandType]
    BY DEF IInv, TypeOK
  <2> QED BY <1>2, <2>1 DEF EmitIntent, PairOf
<1>4. ~OpenRow(n)
  BY <1>2 DEF IInv, Allocated, OpenRow, Unfinished, Ids
<1>5. /\ \A i \in Ids : (OpenRow(i)' <=> OpenRow(i)) /\ (OpenRow(i) => PairOf(i)' = PairOf(i))
      /\ \A i \in Ids : InSight(i)' <=> InSight(i)
      /\ \A i \in Ids : InSight(i) => OpenRow(i)
  BY <1>1, <1>3, <1>4 DEF OpenRow, InSight
<1>6. \A i \in Ids : InSight(i) => PairOf(i) # p
  BY <1>1 DEF OneInv, OpenIsBlocked
<1>7. /\ task'[p].pc = "stage" /\ task'[p].id = n /\ \A q \in Pairs \ {p} : task'[q] = task[q]
  BY <1>2 DEF EmitIntent, IInv, TypeOK, IdleTask
<1>8. OneOpen'
  BY <1>5 DEF OneInv, OneOpen
<1>9. StagesAlone'
  <2> SUFFICES ASSUME NEW q \in Pairs, NEW i \in Ids, PairOf(i)' = q
               PROVE  /\ task'[q].pc = "stage" => ~InSight(i)'
                      /\ task'[q].pc # "idle" /\ task'[q].by = "handler" => i =< task'[q].id
    BY DEF StagesAlone
  <2>1. PairOf(n)' = p
    BY <1>2 DEF EmitIntent, PairOf, IInv, TypeOK
  <2>2. CASE q = p
    <3>1. i # n => PairOf(i) = p /\ PairOf(i) \in Pairs
      BY <1>3, <2>2
    <3>2. ~InSight(i)'
      BY <1>4, <1>5, <1>6, <3>1
    <3>3. i =< n
      <4>1. CASE i < n
        BY <4>1 DEF Ids
      <4>2. CASE ~(i < n) /\ i # n
        <5>1. command[i] = command'[i] /\ PairOf(i) = p
          BY <1>2, <1>3, <2>2, <4>2 DEF EmitIntent, IInv, TypeOK
        <5>2. ~(i < nextId)
          BY <1>2, <4>2
        <5>3. PairOf(i) = "none"
          BY <5>2 DEF IInv, Allocated
        <5> QED BY <5>1, <5>3, PairAssumption
      <4> QED BY <4>1, <4>2 DEF Ids
    <3> QED BY <1>7, <2>2, <3>2, <3>3
  <2>3. CASE q # p
    <3>1. i # n /\ PairOf(i) = q
      BY <1>3, <2>1, <2>3
    <3> QED BY <1>5, <1>7, <2>3, <3>1 DEF OneInv, StagesAlone
  <2> QED BY <2>2, <2>3
<1>10. ScanMissesNone'
  <2>1. \A i \in Ids : InSight(i) /\ Seen(i) => Seen(i)'
    BY <1>1, <1>5 DEF Seen
  <2> QED BY <1>1, <1>5, <2>1 DEF OneInv, ScanMissesNone
<1>11. OpenIsBlocked'
  <2>1. \A i \in Ids : OpenRow(i) => PairOf(i) \in Pairs
    BY OpenHasPair
  <2> QED BY <1>1, <1>5, <1>6, <1>7, <2>1 DEF OneInv, OpenIsBlocked
<1> QED BY <1>8, <1>9, <1>10, <1>11 DEF OneInv

\* A row whose insert commits is in sight of the scan under way, or on record as
\* overtaken by it.
LEMMA StageCommitOne ==
    ASSUME IInv, OneInv, NEW p \in Pairs, StageCommit(p)
    PROVE  OneInv'
<1> USE DEF cache, life, doubt, broker, clock
<1>0. PICK n : n = task[p].id
  OBVIOUS
<1>1. /\ task[p].pc = "stage" /\ pending' = pending /\ scan' = scan /\ command' = command
      /\ status' = [status EXCEPT ![n] = "prepared"] /\ mode' = mode
      /\ uncertain' = uncertain
      /\ overtaken' = IF scan.pc = "idle" \/ LooksBeyond(n) THEN overtaken
                      ELSE overtaken \cup {n}
  BY <1>0 DEF StageCommit
<1>2. n \in Ids /\ PairOf(n) = p /\ task[p].by = "handler"
  BY <1>0, <1>1 DEF IInv, Phases, TaskMatchesRow
<1>3. /\ task'[p].pc = "staged" /\ task'[p].id = n /\ task'[p].by = task[p].by
      /\ \A q \in Pairs \ {p} : task'[q] = task[q]
  <2>1. TypeOK /\ Goto(p, "staged") /\ "staged" \in PhaseType /\ task[p] \in TaskType
    BY DEF StageCommit, IInv, TypeOK, PhaseType
  <2>2. /\ task'[p] = [task[p] EXCEPT !.pc = "staged"]
        /\ \A q \in Pairs \ {p} : task'[q] = task[q]
    BY <2>1, GotoFacts
  <2> QED BY <1>0, <2>1, <2>2 DEF TaskType
<1>4. \A i \in Ids : PairOf(i)' = PairOf(i)
  BY <1>1 DEF PairOf
<1>5. \A i \in Ids : (OpenRow(i)' => OpenRow(i) \/ i = n) /\ (InSight(i)' => InSight(i) \/ i = n)
  <2>1. \A i \in Ids : OpenRow(i)' => OpenRow(i) \/ i = n
    BY <1>1, <1>2 DEF OpenRow, IInv, TypeOK
  <2> QED BY <1>1, <2>1 DEF InSight
<1>6. \A i \in Ids : InSight(i) => PairOf(i) # p
  BY <1>1 DEF OneInv, StagesAlone
<1>7. OneOpen'
  <2> SUFFICES ASSUME NEW i \in Ids, NEW j \in Ids, i < j, InSight(i)', OpenRow(j)',
                      PairOf(i) = PairOf(j)
               PROVE  FALSE
    BY <1>4 DEF OneOpen
  <2>1. CASE i = n
    <3>1. j =< n
      BY <1>0, <1>1, <1>2, <2>1 DEF OneInv, StagesAlone
    <3> QED BY <2>1, <3>1 DEF Ids
  <2>2. CASE i # n
    <3>1. InSight(i) /\ PairOf(i) # p
      BY <1>5, <1>6, <2>2
    <3>2. OpenRow(j)
      BY <1>2, <1>5, <3>1
    <3> QED BY <3>1, <3>2 DEF OneInv, OneOpen
  <2> QED BY <2>1, <2>2
<1>8. StagesAlone'
  <2> SUFFICES ASSUME NEW q \in Pairs, NEW i \in Ids, PairOf(i) = q
               PROVE  /\ task'[q].pc = "stage" => ~InSight(i)'
                      /\ task'[q].pc # "idle" /\ task'[q].by = "handler" => i =< task'[q].id
    BY <1>4 DEF StagesAlone
  <2>1. CASE q = p
    BY <1>0, <1>1, <1>2, <1>3, <2>1 DEF OneInv, StagesAlone
  <2>2. CASE q # p
    BY <1>2, <1>3, <1>5, <2>2 DEF OneInv, StagesAlone
  <2> QED BY <2>1, <2>2
<1>9. ScanMissesNone'
  <2>1. ASSUME NEW i \in Ids, InSight(i)', scan.pc # "idle" PROVE Seen(i)'
    <3>1. CASE InSight(i)
      BY <1>1, <1>4, <2>1, <3>1 DEF OneInv, ScanMissesNone, Seen
    <3>2. CASE ~InSight(i)
      <4>1. i = n /\ n \notin overtaken'
        BY <1>5, <2>1, <3>2 DEF InSight
      <4>2. LooksBeyond(n)
        BY <1>1, <2>1, <4>1
      <4> QED BY <1>1, <4>1, <4>2 DEF LooksBeyond, Seen
    <3> QED BY <3>1, <3>2
  <2> QED BY <1>1, <2>1 DEF OneInv, ScanMissesNone
<1>10. OpenIsBlocked'
  <2>1. \A i \in Ids : InSight(i) => PairOf(i) \in Pairs
    BY OpenHasPair DEF InSight
  <2> QED BY <1>1, <1>2, <1>3, <1>4, <1>5, <1>6, <2>1 DEF OneInv, OpenIsBlocked
<1> QED BY <1>7, <1>8, <1>9, <1>10 DEF OneInv

\* The other steps that leave their task at work open no row.
LEMMA WorkOne ==
    ASSUME IInv, OneInv, NEW p \in Pairs,
           \/ StageReturned(p) \/ StageFailed(p) \/ SendShadow(p) \/ MarkUnknown(p)
           \/ Send(p) \/ SendReturns(p) \/ Checkpoint(p) \/ TrackRedis(p) \/ TrackPostgres(p)
    PROVE  OneInv'
<1> USE DEF durable, cache, life, doubt, broker, clock, history
<1> DEFINE n == task[p].id
<1>1. /\ command' = command /\ scan' = scan /\ mode' = mode /\ task[p].pc # "idle"
      /\ \A i \in Ids : OpenRow(i) => PairOf(i) \in Pairs
      /\ overtaken' = overtaken
  BY OpenHasPair DEF StageReturned, StageFailed, SendShadow, MarkUnknown, Send, SendReturns,
                     Checkpoint, TrackRedis, TrackPostgres
<1>2. uncertain \subseteq uncertain' /\ (task[p].pc = "staged" => p \in uncertain')
  BY DEF StageReturned, StageFailed, SendShadow, MarkUnknown, Send, SendReturns,
         Checkpoint, TrackRedis, TrackPostgres
<1>3. /\ task'[p].pc \notin {"stage", "staged"} /\ \A q \in Pairs \ {p} : task'[q] = task[q]
      /\ task'[p].pc = "idle" \/ (task'[p].by = task[p].by /\ task'[p].id = task[p].id)
  <2>1. task \in [Pairs -> TaskType] /\ task[p] \in TaskType
    BY DEF IInv, TypeOK
  <2>2. ASSUME NEW pc \in {"mark", "send", "sending", "redis", "postgres", "final"}, Goto(p, pc)
        PROVE  /\ task'[p].pc = pc /\ \A q \in Pairs \ {p} : task'[q] = task[q]
               /\ task'[p].by = task[p].by /\ task'[p].id = task[p].id
    BY <2>1, <2>2 DEF Goto, TaskType
  <2>3. CASE \/ StageReturned(p) \/ MarkUnknown(p) \/ Send(p)
            \/ Checkpoint(p) \/ TrackRedis(p) \/ TrackPostgres(p)
    BY <2>2, <2>3 DEF StageReturned, MarkUnknown, Send, Checkpoint, TrackRedis, TrackPostgres
  <2>4. CASE StageFailed(p)
    BY <2>1, <2>4 DEF StageFailed, IdleTask
  <2>5. CASE SendShadow(p)
    BY <2>1, <2>5 DEF SendShadow, TaskType
  <2>6. CASE SendReturns(p)
    <3>1. PICK result : LET out == Outcome(p, result)
                        IN  task' = [task EXCEPT ![p].out = out,
                              ![p].pc = IF out \in Accepted THEN "checkpoint" ELSE "final"]
      BY <2>6 DEF SendReturns
    <3> QED BY <2>1, <3>1 DEF TaskType
  <2> QED BY <2>3, <2>4, <2>5, <2>6
<1>4. \A i \in Ids : OpenRow(i)' => OpenRow(i)
  <2>1. CASE status' = status /\ pending' = pending
    BY <2>1 DEF OpenRow
  <2>2. ASSUME task[p].pc \notin {"stage", "staged"} PROVE n \in Ids /\ OpenRow(n)
    BY <1>1, <2>2, BusyIsOpen
  <2>3. CASE SendShadow(p) \/ SendReturns(p)
    <3>1. status' = status /\ \A i \in Ids : i # n => pending'[i] = pending[i]
      BY <2>3 DEF SendShadow, SendReturns, IInv, TypeOK
    <3> QED BY <2>2, <2>3, <3>1 DEF SendShadow, SendReturns, OpenRow
  <2>4. CASE MarkUnknown(p) \/ Checkpoint(p)
    <3>1. pending' = pending /\ \A i \in Ids : i # n => status'[i] = status[i]
      BY <2>4 DEF MarkUnknown, Checkpoint, IInv, TypeOK
    <3> QED BY <2>2, <2>4, <3>1 DEF MarkUnknown, Checkpoint, OpenRow
  <2> QED BY <2>1, <2>3, <2>4 DEF StageReturned, StageFailed, Send, TrackRedis, TrackPostgres
<1> QED BY <1>1, <1>2, <1>3, <1>4, OpensNone

\* The steps that end a task: only the last update of a definite result closes
\* the row, and only then is the pair released.
LEMMA EndOne ==
    ASSUME IInv, OneInv, NEW p \in Pairs,
           SendWithheld(p) \/ TrackFailed(p) \/ MarkFailed(p) \/ Finalise(p)
    PROVE  OneInv'
<1> USE DEF durable, cache, life, doubt, broker, clock, history
<1> DEFINE n == task[p].id
<1>1. /\ command' = command /\ mode' = mode /\ overtaken' = overtaken
      /\ task[p].pc \notin {"idle", "stage", "staged"}
  BY DEF SendWithheld, TrackFailed, MarkFailed, Finalise
<1>2. n \in Ids /\ OpenRow(n)
  BY <1>1, BusyIsOpen
<1>3. CASE SendWithheld(p) \/ TrackFailed(p)
  <2>1. Return(p, FALSE) /\ \A i \in Ids : OpenRow(i)' => OpenRow(i)
    BY <1>3 DEF SendWithheld, TrackFailed, OpenRow
  <2> QED BY <1>1, <2>1, EndOpensNone
<1>4. CASE MarkFailed(p)
  <2>1. pending' = pending /\ \A i \in Ids : i # n => status'[i] = status[i]
    BY <1>4 DEF MarkFailed, IInv, TypeOK
  <2>2. Return(p, FALSE) /\ \A i \in Ids : OpenRow(i)' => OpenRow(i)
    BY <1>2, <1>4, <2>1 DEF MarkFailed, OpenRow
  <2> QED BY <1>1, <2>2, EndOpensNone
<1>5. CASE Finalise(p)
  <2>1. /\ \A i \in Ids : i # n => status'[i] = status[i] /\ pending'[i] = pending[i]
        /\ \A i \in Ids : i = n /\ task[p].out # "unknown" =>
               status'[i] = task[p].out /\ pending'[i] = "none"
    BY <1>5 DEF Finalise, IInv, TypeOK
  <2>2. \A i \in Ids : OpenRow(i)' => OpenRow(i)
    BY <1>2, <2>1 DEF OpenRow
  <2>3. task[p].out \in Accepted \cup {"failed", "unknown"}
    <3>1. task[p].out \in Outcomes /\ TaskMatchesRow(p) /\ task[p].pc = "final"
      BY <1>5 DEF Finalise, IInv, TypeOK, TaskType, Phases
    <3> QED BY <3>1 DEF TaskMatchesRow, Outcomes, Final, Accepted
  <2>4. \A i \in Ids : i = n /\ task[p].out # "unknown" => ~OpenRow(i)'
    BY <2>1, <2>3 DEF OpenRow, Unfinished, Accepted
  <2> DEFINE ok == task[p].out # "unknown"
  <2>5. ok \in BOOLEAN /\ Return(p, ok)
    BY <1>5 DEF Finalise
  <2> HIDE DEF ok
  <2>6. \A i \in Ids : i = n /\ ok => ~OpenRow(i)'
    BY <2>4 DEF ok
  <2> QED BY <1>1, <2>2, <2>5, <2>6, EndOpensNone
<1> QED BY <1>3, <1>4, <1>5

\* A row of the backlog that is not on the page lies beyond its last row.
LEMMA PageIsPrefix ==
    ASSUME NEW S \in SUBSET Ids, NEW last \in FirstPage(S), NEW i \in S \ FirstPage(S)
    PROVE  i > last
<1> SUFFICES ASSUME i =< last PROVE FALSE
  BY DEF FirstPage, Ids
<1> DEFINE Before(k) == {j \in S : j < k}
<1>1. IsFiniteSet(Before(last))
  <2>1. IsFiniteSet(Ids)
    BY FS_Interval, BoundAssumption DEF Ids
  <2> QED BY <2>1, FS_Subset, Before(last) \in SUBSET Ids
<1>2. Before(i) \in SUBSET Before(last)
  <2>1. S \subseteq Int /\ i \in Int /\ last \in Int
    BY DEF FirstPage, Ids
  <2>2. \A j \in S : j < i => j < last
    BY <2>1
  <2> QED BY <2>2
<1>3. /\ Cardinality(Before(i)) =< Cardinality(Before(last)) /\ IsFiniteSet(Before(i))
  BY <1>1, <1>2, FS_Subset
<1>4. Cardinality(Before(i)) \in Nat /\ Cardinality(Before(last)) \in Nat
  BY <1>1, <1>3, FS_CardinalityType
<1>5. Cardinality(Before(last)) < PageSize
  BY DEF FirstPage
<1>6. Cardinality(Before(i)) < PageSize
  BY <1>3, <1>4, <1>5, BoundAssumption
<1> QED BY <1>6 DEF FirstPage

\* A step of the scan alone.
LEMMA ScanOne ==
    ASSUME IInv, OneInv, UNCHANGED <<status, command, pending, task, overtaken>>,
           ScanMissesNone', OpenIsBlocked'
    PROVE  OneInv'
<1>1. /\ \A i \in Ids : PairOf(i)' = PairOf(i) /\ (OpenRow(i)' <=> OpenRow(i))
      /\ \A i \in Ids : InSight(i)' <=> InSight(i)
  BY DEF PairOf, OpenRow, InSight
<1> QED BY <1>1 DEF OneInv, OneOpen, StagesAlone

LEMMA ScanStepOne ==
    ASSUME IInv, OneInv,
           ScanStart \/ ScanQuery \/ ScanQueryFailed \/ ScanVisit \/ ScanSkip \/ ScanEnd
    PROVE  OneInv'
<1> USE DEF durable, cache, life, doubt, broker, clock, history
<1>1. /\ scan \in ScanType /\ OpenIsBlocked /\ ScanMissesNone
  BY DEF IInv, TypeOK, OneInv
<1>2. UNCHANGED <<status, command, pending, task, overtaken>>
  BY DEF ScanStart, ScanQuery, ScanQueryFailed, ScanVisit, ScanSkip, ScanEnd
<1>3. \A i \in Ids : /\ PairOf(i)' = PairOf(i) /\ (InSight(i)' <=> InSight(i))
                     /\ InSight(i) => OpenRow(i)
  BY <1>2 DEF PairOf, OpenRow, InSight
<1>4. CASE ScanStart
  <2>1. scan' = [IdleScan EXCEPT !.pc = "query"] /\ UNCHANGED <<mode, uncertain>>
    BY <1>4 DEF ScanStart
  <2>2. scan'.pc = "query" /\ scan'.page = {} /\ scan'.cursor = 0
    BY <2>1 DEF IdleScan, NoId
  <2>3. ScanMissesNone'
    BY <2>2 DEF ScanMissesNone, Seen, Ids
  <2>4. OpenIsBlocked'
    BY <1>1, <1>2, <1>3, <2>1 DEF OpenIsBlocked
  <2> QED BY <1>2, <2>1, <2>3, <2>4, ScanOne
<1>5. CASE ScanQuery
  <2>1. scan.pc = "query" /\ UNCHANGED <<mode, uncertain>>
    BY <1>5 DEF ScanQuery
  <2>2. OpenIsBlocked'
    BY <1>1, <1>2, <1>3, <2>1 DEF OpenIsBlocked
  <2>3. \A i \in Ids : InSight(i) => \/ i \in Backlog
                                     \/ PairOf(i) \in uncertain /\ PairOf(i) \in scan.blocked
    <3>1. \A i \in Ids : OpenRow(i) => status[i] # "none"
      BY DEF OpenRow, Unfinished, IInv, ResultsMatch, Compatible
    <3> QED BY <1>1, <1>3, <2>1, <3>1 DEF ScanMissesNone, Seen, Backlog, OpenRow
  <2>4. CASE Backlog = {} /\ scan' = [scan EXCEPT !.pc = "end"]
    <3>1. scan'.pc = "end" /\ scan'.page = {} /\ scan'.blocked = scan.blocked
      BY <1>1, <2>1, <2>4 DEF ScanType, ScanMissesNone
    <3>2. ScanMissesNone'
      BY <1>3, <2>1, <2>3, <2>4, <3>1 DEF ScanMissesNone, Seen
    <3> QED BY <1>1, <1>2, <2>1, <2>2, <3>2, ScanOne
  <2>5. ASSUME NEW last \in FirstPage(Backlog),
               scan' = [scan EXCEPT !.pc = "page", !.page = FirstPage(Backlog),
                                    !.cursor = last]
        PROVE  OneInv'
    <3>1. /\ scan'.pc = "page" /\ scan'.page = FirstPage(Backlog) /\ scan'.cursor = last
          /\ scan'.blocked = scan.blocked
      BY <1>1, <2>5 DEF ScanType
    <3>2. \A i \in Backlog : i \in FirstPage(Backlog) \/ i > last
      BY PageIsPrefix, Backlog \in SUBSET Ids DEF Backlog
    <3>3. ScanMissesNone'
      BY <1>3, <2>1, <2>3, <3>1, <3>2 DEF ScanMissesNone, Seen
    <3> QED BY <1>1, <1>2, <2>1, <2>2, <3>3, ScanOne
  <2> QED BY <1>5, <2>4, <2>5 DEF ScanQuery
<1>6. CASE ScanQueryFailed
  <2>1. scan' = IdleScan /\ UNCHANGED <<mode, uncertain>>
    BY <1>6 DEF ScanQueryFailed
  <2>2. ScanMissesNone' /\ OpenIsBlocked' /\ scan'.pc = "idle"
    BY <1>1, <1>2, <1>3, <2>1 DEF OpenIsBlocked, ScanMissesNone, IdleScan
  <2> QED BY <1>2, <2>2, ScanOne
<1>7. CASE ScanVisit
  <2>1. scan.pc = "page"
    BY <1>7 DEF ScanVisit
  <2>2. PICK i \in scan.page :
          /\ uncertain' = uncertain \cup {PairOf(i)}
          /\ scan' = IF PairOf(i) \in slots /\ PairOf(i) \notin scan.blocked
                     THEN [scan EXCEPT !.pc = "lock", !.row = i, !.page = @ \ {i}]
                     ELSE [scan EXCEPT
                             !.pc = IF scan.page = {i} THEN "query" ELSE "page",
                             !.page = @ \ {i}, !.blocked = @ \cup {PairOf(i)}]
    BY <1>7 DEF ScanVisit
  <2>3. mode' = mode
    BY <1>7 DEF ScanVisit
  <2>4. OpenIsBlocked'
    BY <1>1, <1>2, <1>3, <2>2, <2>3 DEF OpenIsBlocked
  <2>5. /\ scan'.page = scan.page \ {i} /\ scan'.cursor = scan.cursor
        /\ scan.blocked \subseteq scan'.blocked
        /\ \/ scan'.pc = "lock" /\ scan'.row = i
           \/ /\ scan'.pc = IF scan.page = {i} THEN "query" ELSE "page"
              /\ PairOf(i) \in scan'.blocked
    BY <1>1, <2>2 DEF ScanType
  <2>6. ASSUME NEW j \in Ids, InSight(j)' PROVE Seen(j)'
    <3>1. Seen(j) /\ scan.pc # "end"
      BY <1>1, <1>3, <2>1, <2>6 DEF ScanMissesNone
    <3>2. CASE j = i
      BY <1>3, <2>2, <2>5, <3>2 DEF Seen
    <3>3. CASE j # i
      BY <1>3, <2>1, <2>2, <2>5, <3>1, <3>3 DEF Seen
    <3> QED BY <3>2, <3>3
  <2>7. ScanMissesNone'
    BY <2>5, <2>6 DEF ScanMissesNone
  <2> QED BY <1>1, <1>2, <2>1, <2>4, <2>7, ScanOne
<1>8. CASE ScanSkip
  <2>1. scan.pc = "lock" /\ UNCHANGED <<mode, uncertain>> /\ scan.row \in Ids
    BY <1>8 DEF ScanSkip, IInv, ScanSeesRows
  <2>2. PICK ok \in BOOLEAN :
          /\ ok => status[scan.row] \in Final /\ pending[scan.row] = "none"
          /\ scan' = [scan EXCEPT
                        !.pc = IF scan.page = {} THEN "query" ELSE "page",
                        !.row = NoId,
                        !.resolved = IF ok THEN @ \cup {PairOf(scan.row)} ELSE @,
                        !.blocked = IF ok THEN @ ELSE @ \cup {PairOf(scan.row)}]
    BY <1>8 DEF ScanSkip
  <2>3. OpenIsBlocked'
    BY <1>1, <1>2, <1>3, <2>1 DEF OpenIsBlocked
  <2>4. /\ scan'.page = scan.page /\ scan'.cursor = scan.cursor
        /\ scan.blocked \subseteq scan'.blocked
        /\ scan'.pc = IF scan.page = {} THEN "query" ELSE "page"
        /\ ok \/ PairOf(scan.row) \in scan'.blocked
    BY <1>1, <2>2 DEF ScanType
  <2>5. ASSUME NEW j \in Ids, InSight(j)' PROVE Seen(j)'
    <3>1. Seen(j) /\ OpenRow(j)
      BY <1>1, <1>3, <2>1, <2>5 DEF ScanMissesNone
    <3>2. CASE j = scan.row
      BY <1>3, <2>1, <2>2, <2>4, <3>1, <3>2 DEF Seen, OpenRow, Final, Unfinished
    <3>3. CASE j # scan.row
      BY <1>3, <2>1, <2>4, <3>1, <3>3 DEF Seen
    <3> QED BY <3>2, <3>3
  <2>6. ScanMissesNone'
    BY <2>4, <2>5 DEF ScanMissesNone
  <2> QED BY <1>1, <1>2, <2>1, <2>3, <2>6, ScanOne
<1>9. CASE ScanEnd
  <2>1. scan.pc = "end" /\ scan' = IdleScan /\ uncertain' = uncertain \ Released
    BY <1>9 DEF ScanEnd
  <2>2. \A i \in Ids : InSight(i) => PairOf(i) \in uncertain /\ PairOf(i) \in scan.blocked
    BY <1>1, <2>1 DEF ScanMissesNone, Seen
  <2>3. OpenIsBlocked'
    BY <1>3, <2>1, <2>2 DEF OpenIsBlocked, Released
  <2>4. ScanMissesNone' /\ scan'.pc = "idle"
    BY <2>1 DEF ScanMissesNone, IdleScan
  <2> QED BY <1>2, <2>3, <2>4, ScanOne
<1> QED BY <1>4, <1>5, <1>6, <1>7, <1>8, <1>9

LEMMA ScanLockOne ==
    ASSUME IInv, OneInv, ScanLock PROVE OneInv'
<1> USE DEF durable, cache, life, doubt, broker, history
<1>0. PICK i \in Ids : i = scan.row
  BY DEF ScanLock, IInv, ScanSeesRows
<1>1. /\ scan.pc = "lock" /\ scan \in ScanType
      /\ task[PairOf(i)].pc = "idle" /\ task' = [task EXCEPT ![PairOf(i)] = RecoveryTask(i)]
      /\ scan' = [scan EXCEPT !.pc = "row"]
      /\ pending' = IF KnownOutcome(i) = "none" THEN pending
                    ELSE [pending EXCEPT ![i] = KnownOutcome(i)]
      /\ UNCHANGED <<status, command, mode, uncertain, overtaken>>
  BY <1>0 DEF ScanLock, IInv, TypeOK
<1>2. /\ scan'.pc = "row" /\ scan'.row = i /\ scan'.page = scan.page
      /\ scan'.cursor = scan.cursor /\ scan'.blocked = scan.blocked
  BY <1>0, <1>1 DEF ScanType
<1>3. \A j \in Ids : PairOf(j)' = PairOf(j)
  BY <1>1 DEF PairOf
<1>4. \A j \in Ids : (OpenRow(j)' => OpenRow(j)) /\ (InSight(j)' => InSight(j))
  <2>1. \A j \in Ids : OpenRow(j)' => OpenRow(j)
    BY <1>1 DEF OpenRow, KnownOutcome, Unfinished, IInv, TypeOK
  <2> QED BY <1>1, <2>1 DEF InSight
<1>5. \A q \in Pairs : \/ task'[q] = task[q]
                       \/ /\ task[q].pc = "idle" /\ task'[q].pc \notin {"stage", "staged"}
                          /\ task'[q].by = "scan"
  BY <1>1 DEF RecoveryTask, IInv, TypeOK
<1>6. OneOpen'
  BY <1>3, <1>4 DEF OneInv, OneOpen
<1>7. StagesAlone'
  BY <1>1, <1>3, <1>4, <1>5 DEF OneInv, StagesAlone
<1>8. ScanMissesNone'
  BY <1>0, <1>1, <1>2, <1>3, <1>4 DEF OneInv, ScanMissesNone, Seen
<1>9. OpenIsBlocked'
  <2>1. \A j \in Ids : InSight(j) => PairOf(j) \in Pairs
    BY OpenHasPair DEF InSight
  <2> QED BY <1>1, <1>3, <1>4, <1>5, <2>1 DEF OneInv, OpenIsBlocked
<1> QED BY <1>6, <1>7, <1>8, <1>9 DEF OneInv

LEMMA EnvironmentOne ==
    ASSUME IInv, OneInv,
           \/ Boot \/ (\E p \in Pairs : BootCut(p)) \/ RedisFlushed \/ SetShadow
           \/ Broker \/ Tick \/ UNCHANGED vars
    PROVE  OneInv'
<1> USE DEF vars, durable, cache, life, doubt, memory, broker, clock, history
<1>1. UNCHANGED <<status, command, pending, task, scan, uncertain, overtaken>>
  BY DEF Boot, BootCut, RedisFlushed, SetShadow, Broker, BrokerTakes, BrokerRefuses,
         NetworkLoses, Tick
<1>2. mode' = "up" => mode = "up"
  BY DEF Boot, BootCut, RedisFlushed, SetShadow, Broker, BrokerTakes, BrokerRefuses,
         NetworkLoses, Tick
<1>3. \A i \in Ids : OpenRow(i)' => OpenRow(i)
  BY <1>1 DEF OpenRow
<1> QED BY <1>1, <1>2, <1>3, OpensNone, OpenHasPair

LEMMA CrashOne == ASSUME IInv, OneInv, Crash PROVE OneInv'
<1> USE DEF durable, cache, life, doubt, memory, broker, clock, history
<1>1. /\ \A i \in Ids : PairOf(i)' = PairOf(i) /\ (OpenRow(i)' => OpenRow(i))
      /\ \A i \in Ids : InSight(i)' => InSight(i)
      /\ \A p \in Pairs : task'[p].pc = "idle"
      /\ scan'.pc = "idle" /\ scan'.page = {} /\ mode' = "down"
  BY DEF Crash, PairOf, OpenRow, InSight, IdleTask, IdleScan
<1> QED BY <1>1 DEF OneInv, OneOpen, StagesAlone, ScanMissesNone, OpenIsBlocked

LEMMA StepOne ==
    ASSUME IInv, OneInv, [Next]_vars
    PROVE  OneInv'
<1>1. ASSUME NEW p \in Pairs, Handler(p) PROVE OneInv'
  BY <1>1, EmitIntentOne DEF Handler
<1>2. ASSUME NEW p \in Pairs, Progress(p) \/ Fault(p) PROVE OneInv'
  BY <1>2, StageCommitOne, WorkOne, EndOne DEF Progress, Fault
<1>3. CASE Scanning \/ ScanQueryFailed
  BY <1>3, ScanStepOne, ScanLockOne DEF Scanning
<1>4. CASE \/ Boot \/ (\E p \in Pairs : BootCut(p)) \/ RedisFlushed \/ SetShadow
           \/ Broker \/ Tick \/ UNCHANGED vars
  BY <1>4, EnvironmentOne
<1>5. CASE Crash
  BY <1>5, CrashOne
<1> QED BY <1>1, <1>2, <1>3, <1>4, <1>5 DEF Next

\* "Do not create a second command until a successful outbox scan proves whether
\* this pair has an unfinished row": a pair has two unfinished commands only where
\* the earlier was committed behind the cursor or the last page of a running scan,
\* for any number of pairs and rows, any page size, and whatever crashes, fails or
\* is refused.
THEOREM OneCommandPerPair == Spec => []OneOutstanding
<1>1. Init => OneInv
  BY DEF Init, OneInv, OneOpen, StagesAlone, ScanMissesNone, OpenIsBlocked, OpenRow,
         InSight, IdleTask, IdleScan, Unfinished
<1>2. IInv /\ OneInv /\ [Next]_vars => OneInv'
  BY StepOne
<1>3. OneInv => OneOutstanding
  BY DEF OneInv, OneOpen, InSight, OpenRow, OneOutstanding, Outstanding
<1> QED BY <1>1, <1>2, <1>3, Invariance, PTL DEF Spec
-----------------------------------------------------------------------------
(***************************************************************************)
(* The books are true: what a pair that may decide again has in memory,    *)
(* and what a start would restore for it, is what the broker holds.        *)
(*                                                                         *)
(* A position is a fold over the accepted rows of its cycle.  Each store   *)
(* (the book, Redis, Postgres) lags behind that fold by at most one row,   *)
(* the one whose acceptance is checkpointed and whose local writes are     *)
(* not complete; replaying that row is harmless in either state.           *)
(***************************************************************************)

\* The acceptance is on record and the local writes are still owed.
Recorded == {"sent_pending", "shadow_pending"}
Taken(i) == status[i] \in Accepted \cup Recorded
RowsOf(c) == {i \in Ids : command[i].cycle = c /\ Taken(i)}

\* The position that the rows S of cycle c leave.
Tp1s(S) == {i \in S : command[i].action = "tp1"}
Pos(S, c) ==
    IF c \notin S \/ (\E i \in S : command[i].action = "close")
       \/ Cardinality(Tp1s(S)) >= Full
    THEN NoPosition
    ELSE [remaining |-> Full - Cardinality(Tp1s(S)), applied |-> S]

\* A store holds the accepted position of cycle c; or it misses the row whose
\* local writes are owed, so that replaying that row makes it current.
Current(pos, c) == pos = Pos(RowsOf(c), c)
Replayable(pos, c) ==
    \/ Current(pos, c)
    \/ \E o \in RowsOf(c) : status[o] \in Recorded /\ pos = Pos(RowsOf(c) \ {o}, c)

\* A cycle is named by the entry that opens it, and only that entry names itself;
\* an unused id has no trace.
Untraced(i) ==
    /\ command[i] = NoCommand /\ redisPositions[i] = NoPosition
    /\ book[i] = NoPosition /\ pgPositions[i] = NoPosition
Cycles ==
    \A i \in Ids :
        IF i < nextId
        THEN LET c == command[i].cycle
             IN  /\ c \in Ids /\ c =< i /\ PairOf(c) = PairOf(i)
                 /\ command[i].action \in Actions
                 /\ command[i].action = "entry" <=> c = i
        ELSE Untraced(i)

\* A pair whose books nothing has spoiled, and a cycle of such a pair.  The entry
\* of that cycle is done with before another command names the cycle.
Whole(c) == PairOf(c) \in Pairs /\ Sound(PairOf(c))
EntryFirst ==
    \A i \in Ids : i < nextId /\ Whole(i) /\ command[i].cycle # i
                       => ~OpenRow(command[i].cycle)

\* Nobody works while the process is down, nor for a pair without a slot.
Running ==
    /\ mode = "down" => slots = {} /\ scan.pc = "idle"
    /\ \A p \in Pairs : task[p].pc # "idle" => p \in slots
    /\ scan.pc = "lock" => PairOf(scan.row) \in slots

\* What the runner takes for sent was executed.
Acked ==
    \A i \in Ids :
        reply[i] = "ack" \/ pending[i] = "sent" \/ status[i] \in {"sent", "sent_pending"}
            => executed[i] > 0

PostgresHolds == \A c \in Ids : Whole(c) => Replayable(pgPositions[c], c)
RedisHolds(p) == \A c \in CyclesOf(p) : Replayable(redisPositions[c], c)
RedisEmpty(p) == \A c \in CyclesOf(p) : redisPositions[c] = NoPosition
Stores ==
    /\ PostgresHolds
    /\ \A p \in Pairs : Sound(p) => RedisHolds(p) \/ (p \notin slots /\ RedisEmpty(p))
    /\ \A c \in Ids : Whole(c) /\ PairOf(c) \in slots => Replayable(book[c], c)

\* Which stores the task of p has brought up to date.
Writing(t) == t.pc \in {"redis", "postgres"} \/ (t.pc = "final" /\ t.out \in Accepted)
Written(p) ==
    LET i == task[p].id
        c == command[i].cycle
    IN  Sound(p) /\ Writing(task[p]) =>
            /\ status[i] \in Recorded
            /\ Current(book[c], c)
            /\ task[p].pc # "redis" => Current(redisPositions[c], c)
            /\ task[p].pc = "final" => Current(pgPositions[c], c)

BookInv ==
    Cycles /\ EntryFirst /\ Running /\ Acked /\ Stores /\ \A p \in Pairs : Written(p)

\* What is sound after a step was sound before it.
SoundBefore == \A p \in Pairs : Sound(p)' => Sound(p)
LEMMA SoundKept ==
    ASSUME overtaken \subseteq overtaken', halfSeeded \subseteq halfSeeded',
           \A i \in Ids : PairOf(i) \in Pairs => PairOf(i)' = PairOf(i),
           overtaken \in SUBSET Ids
    PROVE  SoundBefore
BY DEF SoundBefore, Sound
-----------------------------------------------------------------------------
(* The fold over the rows of a cycle.                                      *)

LEMMA RowsFinite ==
    ASSUME NEW S \in SUBSET Ids
    PROVE  /\ IsFiniteSet(S) /\ IsFiniteSet(Tp1s(S)) /\ Cardinality(Tp1s(S)) \in Nat
<1>1. IsFiniteSet(Ids)
  BY FS_Interval, BoundAssumption DEF Ids
<1>2. IsFiniteSet(S) /\ IsFiniteSet(Tp1s(S))
  BY <1>1, FS_Subset DEF Tp1s
<1> QED BY <1>2, FS_CardinalityType

\* Applying a row to a position that has it, or lacks only it, gives the
\* position with it: recovery may replay the row.
LEMMA Replay ==
    ASSUME NEW i \in Ids, NEW S \in SUBSET Ids, i \in S,
           NEW b \in [Ids -> Position], NEW c \in Ids, c = command[i].cycle,
           command[i].action \in Actions, command[i].action = "entry" <=> c = i,
           c = i => S = {i}, NEW R, R = S \ {i},
           b[c] = Pos(S, c) \/ b[c] = Pos(R, c)
    PROVE  Commit(b, i)[c] = Pos(S, c)
<1>1. /\ Cardinality(Tp1s(S)) \in Nat /\ Cardinality(Tp1s(R)) \in Nat
      /\ IsFiniteSet(Tp1s(R))
  BY RowsFinite
<1>2. CASE command[i].action = "entry"
  <2>1. c = i /\ S = {i} /\ Tp1s(S) = {} /\ R = {}
    BY <1>2 DEF Tp1s
  <2>2. Pos(S, c) = [remaining |-> Full, applied |-> {i}] /\ Pos(R, c) = NoPosition
    BY <1>2, <2>1, FS_EmptySet DEF Pos, Full
  <2> QED BY <1>2, <2>1, <2>2 DEF Commit, NoPosition, Full
<1>3. CASE command[i].action = "close"
  <2>1. Pos(S, c) = NoPosition
    BY <1>3 DEF Pos
  <2>2. b[c] # NoPosition => i \notin b[c].applied
    BY <2>1 DEF Pos, NoPosition
  <2> QED BY <1>3, <2>1, <2>2 DEF Commit, ApplyClose
<1>4. CASE command[i].action = "tp1"
  <2>1. Tp1s(S) = Tp1s(R) \cup {i} /\ i \notin Tp1s(R) /\ c # i
    BY <1>4 DEF Tp1s
  <2>2. Cardinality(Tp1s(S)) = Cardinality(Tp1s(R)) + 1
    BY <1>1, <2>1, FS_AddElement
  <2>3. (c \in S <=> c \in R) /\ ((\E j \in S : command[j].action = "close") <=>
                                  (\E j \in R : command[j].action = "close"))
    BY <1>4, <2>1
  <2>4. Pos(R, c) = NoPosition => Pos(S, c) = NoPosition
    BY <1>1, <2>2, <2>3 DEF Pos, NoPosition, Full
  <2>5. CASE b[c] = Pos(S, c)
    <3>1. b[c] = NoPosition \/ i \in b[c].applied
      BY <2>5 DEF Pos, NoPosition
    <3> QED BY <1>4, <2>5, <3>1 DEF Commit
  <2>6. CASE b[c] = Pos(R, c)
    <3>1. CASE b[c] = NoPosition
      BY <1>4, <2>4, <2>6, <3>1 DEF Commit
    <3>2. CASE b[c] # NoPosition
      <4>1. PICK k \in Nat : k = Cardinality(Tp1s(R))
        BY <1>1
      <4>2. /\ c \in R /\ ~(\E j \in R : command[j].action = "close") /\ k < Full
            /\ b[c] = [remaining |-> Full - k, applied |-> R]
        BY <2>6, <3>2, <4>1 DEF Pos, Full
      <4>3. b[c].remaining = Full - k /\ b[c].applied = R /\ i \notin R
        BY <4>2
      <4>4. Commit(b, i)[c] = ApplyClose(b[c], "tp1", i)
        BY <1>4, <3>2, <4>3 DEF Commit
      <4>5. R \cup {i} = S
        OBVIOUS
      <4>6. ApplyClose(b[c], "tp1", i) =
              IF Full - k - 1 = 0 THEN NoPosition
              ELSE [remaining |-> Full - k - 1, applied |-> S]
        <5>1. b[c].remaining > 0 /\ b[c].remaining - 1 = Full - k - 1
          BY <4>1, <4>2, <4>3 DEF Full
        <5>2. b[c].applied \cup {i} = S
          BY <4>3, <4>5
        <5> QED BY <5>1, <5>2 DEF ApplyClose
      <4>7. Pos(S, c) = IF k + 1 >= Full THEN NoPosition
                        ELSE [remaining |-> Full - (k + 1), applied |-> S]
        BY <2>2, <2>3, <4>1, <4>2 DEF Pos
      <4>8. Full - k - 1 = Full - (k + 1) /\ (Full - k - 1 = 0 <=> k + 1 >= Full)
        BY <4>1, <4>2 DEF Full
      <4> QED BY <2>6, <4>4, <4>6, <4>7, <4>8
    <3> QED BY <3>1, <3>2
  <2> QED BY <2>5, <2>6
<1> QED BY <1>2, <1>3, <1>4 DEF Actions

\* The accepted rows of cycle c stay what they are ...
SameRows(c) ==
    \A i \in Ids :
        /\ (command'[i].cycle = c /\ Taken(i)') <=> (command[i].cycle = c /\ Taken(i))
        /\ command[i].cycle = c /\ Taken(i) => command'[i] = command[i]
\* ... and so does the row whose writes are owed.
RowsKept(c) ==
    /\ SameRows(c)
    /\ \A i \in Ids : command[i].cycle = c /\ status[i] \in Recorded => status'[i] \in Recorded

LEMMA PosKept ==
    ASSUME NEW c, NEW S, \A i \in S : command'[i] = command[i]
    PROVE  Pos(S, c)' = Pos(S, c)
<1>1. Tp1s(S)' = Tp1s(S)
  BY DEF Tp1s
<1> QED BY <1>1 DEF Pos

LEMMA CurrentKept ==
    ASSUME NEW c, NEW pos, SameRows(c), Current(pos, c)
    PROVE  Current(pos, c)'
<1>1. PICK S : S = RowsOf(c) OBVIOUS
<1>2. RowsOf(c)' = S /\ \A i \in S : command'[i] = command[i]
  BY <1>1 DEF RowsOf, SameRows
<1>3. Pos(S, c)' = Pos(S, c)
  BY <1>2, PosKept
<1> QED BY <1>1, <1>2, <1>3 DEF Current

LEMMA ReplayableKept ==
    ASSUME NEW c, NEW pos, RowsKept(c), Replayable(pos, c)
    PROVE  Replayable(pos, c)'
<1>1. CASE Current(pos, c)
  BY <1>1, CurrentKept DEF Replayable, RowsKept
<1>2. ASSUME NEW o \in RowsOf(c), status[o] \in Recorded, pos = Pos(RowsOf(c) \ {o}, c)
      PROVE  Replayable(pos, c)'
  <2>1. PICK S : S = RowsOf(c) OBVIOUS
  <2>2. /\ RowsOf(c)' = S /\ (\A i \in S : command'[i] = command[i]) /\ o \in S
        /\ status'[o] \in Recorded
    BY <1>2, <2>1 DEF RowsOf, RowsKept, SameRows
  <2>3. Pos(S \ {o}, c)' = Pos(S \ {o}, c)
    BY <2>2, PosKept
  <2> QED BY <1>2, <2>1, <2>2, <2>3 DEF Replayable
<1> QED BY <1>1, <1>2 DEF Replayable

-----------------------------------------------------------------------------
(* Cycles, tasks and acknowledgements.                                     *)

\* What no step but EmitIntent changes, and where the steps of a task write.
LEMMA TaskWrites ==
    ASSUME IInv, NEW p \in Pairs, Progress(p) \/ Fault(p)
    PROVE  /\ UNCHANGED <<command, nextId, mode, slots>>
           /\ task[p].pc # "idle" /\ task[p].id \in Ids /\ task[p].id < nextId
           /\ PairOf(task[p].id) = p
           /\ \A q \in Pairs \ {p} : task'[q] = task[q]
           /\ \A i \in Ids \ {task[p].id} : status'[i] = status[i] /\ pending'[i] = pending[i]
           /\ \A c \in Ids \ {command[task[p].id].cycle} :
                  /\ book'[c] = book[c] /\ redisPositions'[c] = redisPositions[c]
                  /\ pgPositions'[c] = pgPositions[c]
           /\ SoundBefore
<1> USE DEF durable, cache, life, doubt, history
<1>1. /\ UNCHANGED <<command, nextId, mode, slots>> /\ task[p].pc # "idle"
  BY DEF Progress, Fault, StageCommit, StageReturned, SendShadow, MarkUnknown, Send,
         SendReturns, Checkpoint, TrackRedis, TrackPostgres, Finalise,
         StageFailed, SendWithheld, TrackFailed, MarkFailed
<1>2. TaskMatchesRow(p) /\ TypeOK
  BY <1>1 DEF IInv, Phases
<1>3. task[p].id \in Ids /\ task[p].id < nextId /\ PairOf(task[p].id) = p
  BY <1>2 DEF TaskMatchesRow
<1>4. \A q \in Pairs \ {p} : task'[q] = task[q]
  BY <1>2 DEF Progress, Fault, StageCommit, StageReturned, SendShadow, MarkUnknown, Send,
         SendReturns, Checkpoint, TrackRedis, TrackPostgres, Finalise, TypeOK,
         StageFailed, SendWithheld, TrackFailed, MarkFailed, Goto, Return
<1>5. \A i \in Ids \ {task[p].id} : status'[i] = status[i] /\ pending'[i] = pending[i]
  BY <1>2, <1>3 DEF Progress, Fault, StageCommit, StageReturned, SendShadow, MarkUnknown, Send,
         SendReturns, Checkpoint, TrackRedis, TrackPostgres, Finalise, TypeOK,
         StageFailed, SendWithheld, TrackFailed, MarkFailed
<1>6. ASSUME NEW c \in Ids, c # command[task[p].id].cycle
      PROVE  /\ book'[c] = book[c] /\ redisPositions'[c] = redisPositions[c]
             /\ pgPositions'[c] = pgPositions[c]
  <2>1. CASE Checkpoint(p)
    BY <1>2, <1>6, <2>1 DEF Checkpoint, Commit, TypeOK
  <2>2. CASE TrackRedis(p) \/ TrackPostgres(p) \/ TrackFailed(p)
    BY <1>2, <1>6, <2>2 DEF TrackRedis, TrackPostgres, TrackFailed, Tracked, TypeOK
  <2>3. CASE ~(Checkpoint(p) \/ TrackRedis(p) \/ TrackPostgres(p) \/ TrackFailed(p))
    BY <2>3 DEF Progress, Fault, StageCommit, StageReturned, SendShadow, MarkUnknown, Send,
         SendReturns, Finalise, StageFailed, SendWithheld, MarkFailed
  <2> QED BY <2>1, <2>2, <2>3
<1>7. SoundBefore
  <2>1. overtaken \subseteq overtaken' /\ halfSeeded' = halfSeeded
    BY DEF Progress, Fault, StageCommit, StageReturned, SendShadow, MarkUnknown, Send,
         SendReturns, Checkpoint, TrackRedis, TrackPostgres, Finalise,
         StageFailed, SendWithheld, TrackFailed, MarkFailed
  <2> QED BY <1>1, <1>2, <2>1, SoundKept DEF PairOf, TypeOK
<1> QED BY <1>1, <1>3, <1>4, <1>5, <1>6, <1>7

\* The steps of nobody's task.
Elsewhere ==
    \/ Scanning \/ ScanQueryFailed \/ (\E p \in Pairs : BootCut(p)) \/ Boot \/ Crash
    \/ RedisFlushed \/ SetShadow \/ Broker \/ Tick \/ UNCHANGED vars

LEMMA StepCases ==
    ASSUME [Next]_vars
    PROVE  \/ \E p \in Pairs, action \in Actions, c \in Ids : EmitIntent(p, action, c)
           \/ \E p \in Pairs : Progress(p) \/ Fault(p)
           \/ Elsewhere
BY DEF Next, Handler, Elsewhere

LEMMA ElsewhereKeepsRows ==
    ASSUME Elsewhere
    PROVE  UNCHANGED <<status, command, nextId, pgPositions, overtaken>>
BY DEF history, Elsewhere, Scanning, ScanStart, ScanQuery, ScanVisit, ScanLock, ScanSkip, ScanEnd,
       ScanQueryFailed, BootCut, Boot, Crash, RedisFlushed, SetShadow, Broker, BrokerTakes,
       BrokerRefuses, NetworkLoses, Tick, vars, durable

\* A row that is not open, and is not being staged, is left alone.
LEMMA ClosedStays ==
    ASSUME IInv, [Next]_vars, NEW i \in Ids, ~OpenRow(i), i < nextId,
           \A p \in Pairs : task[p].pc = "stage" => task[p].id # i
    PROVE  ~OpenRow(i)'
<1> USE DEF durable, cache, life, doubt, memory, broker, clock, history
<1>1. ASSUME NEW p \in Pairs, Progress(p) \/ Fault(p)
      PROVE  ~OpenRow(i)'
  <2>1. task[p].pc # "idle" /\ task[p].id \in Ids
    BY <1>1, TaskWrites
  <2>2. task[p].id # i
    BY <2>1, BusyIsOpen
  <2> QED BY <1>1, <2>2, TaskWrites DEF OpenRow
<1>2. CASE ScanLock
  <2>1. KnownOutcome(i) = "none"
    BY DEF KnownOutcome, OpenRow, Unfinished
  <2> QED BY <1>2, <2>1 DEF ScanLock, IInv, TypeOK, OpenRow
<1>3. CASE Elsewhere /\ ~ScanLock
  <2>1. status' = status
    BY <1>3, ElsewhereKeepsRows
  <2>2. pending'[i] = "none"
    BY <1>3 DEF Elsewhere, Scanning, ScanStart, ScanQuery, ScanVisit, ScanSkip, ScanEnd,
         ScanQueryFailed, BootCut, Boot, Crash, RedisFlushed, SetShadow, Broker, BrokerTakes,
         BrokerRefuses, NetworkLoses, Tick, vars, OpenRow
  <2> QED BY <2>1, <2>2 DEF OpenRow
<1>4. ASSUME NEW p \in Pairs, NEW action \in Actions, NEW c \in Ids, EmitIntent(p, action, c)
      PROVE  ~OpenRow(i)'
  BY <1>4 DEF EmitIntent, OpenRow
<1> QED BY <1>1, <1>2, <1>3, <1>4, StepCases

\* The rows of a cycle belong to the pair of the entry that opened it.
LEMMA RowPairs ==
    ASSUME Cycles, NEW c \in Ids, NEW i \in Ids, command[i].cycle = c
    PROVE  i < nextId /\ PairOf(i) = PairOf(c)
<1>1. i < nextId
  BY DEF Cycles, Untraced, NoCommand, NoId, Ids
<1> QED BY <1>1 DEF Cycles

\* What an intent finds: a new id, and, if the pair is sound, no open row of it.
LEMMA IntentFinds ==
    ASSUME IInv, OneInv, BookInv, NEW p \in Pairs, NEW action \in Actions, NEW c \in Ids,
           EmitIntent(p, action, c), NEW n, n = nextId
    PROVE  /\ n \in Ids /\ c =< n /\ (action = "entry" <=> c = n)
           /\ Sound(p) => \A i \in Ids : PairOf(i) = p => ~OpenRow(i)
           /\ c # n => PairOf(c) = p
           /\ command[n] = NoCommand /\ status[n] = "none" /\ pending[n] = "none"
           /\ command' = [command EXCEPT ![n] = [pair |-> p, action |-> action, cycle |-> c]]
           /\ nextId' = n + 1
           /\ UNCHANGED <<status, pending, pgPositions, redisPositions, book, slots, mode, scan,
                          reply, executed>>
           /\ p \in slots /\ task'[p].pc = "stage" /\ \A q \in Pairs \ {p} : task'[q] = task[q]
           /\ SoundBefore
<1>1. /\ mode = "up" /\ p \in slots /\ p \notin uncertain /\ task[p].pc = "idle" /\ n \in Ids
      /\ command' = [command EXCEPT ![n] = [pair |-> p, action |-> action, cycle |-> c]]
      /\ nextId' = n + 1
      /\ UNCHANGED <<status, pending, pgPositions, redisPositions, book, slots, mode, scan,
                     reply, executed, history>>
  BY DEF EmitIntent, cache, life, broker
<1>2. task'[p].pc = "stage" /\ \A q \in Pairs \ {p} : task'[q] = task[q]
  BY DEF EmitIntent, IInv, TypeOK, IdleTask
<1>3. Sound(p) => \A i \in Ids : PairOf(i) = p => ~OpenRow(i)
  BY <1>1 DEF OneInv, OpenIsBlocked, InSight, Sound
<1>4. command[n] = NoCommand /\ status[n] = "none" /\ pending[n] = "none"
  BY <1>1 DEF BookInv, Cycles, Untraced, IInv, Allocated, Ids
<1>5. SoundBefore
  <2>1. \A i \in Ids : PairOf(i) \in Pairs => PairOf(i)' = PairOf(i)
    BY <1>1, <1>4, PairAssumption DEF PairOf, NoCommand
  <2> QED BY <1>1, <2>1, SoundKept DEF history, IInv, TypeOK
<1>6. CASE action = "entry"
  BY <1>1, <1>2, <1>3, <1>4, <1>5, <1>6 DEF EmitIntent, Ids
<1>7. CASE action # "entry"
  <2>1. PairOf(c) = p
    BY <1>7 DEF EmitIntent, CyclesOf
  <2>2. c # n
    BY <1>4, <2>1, PairAssumption DEF PairOf, NoCommand
  <2>3. c < n
    <3>1. ~(c < nextId) => command[c] = NoCommand
      BY DEF BookInv, Cycles, Untraced
    <3>2. PairOf(c) # "none"
      BY <2>1, PairAssumption
    <3> QED BY <3>1, <3>2 DEF PairOf, NoCommand
  <2> QED BY <1>1, <1>2, <1>3, <1>4, <1>5, <1>7, <2>1, <2>2, <2>3 DEF Ids
<1> QED BY <1>6, <1>7

LEMMA CyclesStep ==
    ASSUME IInv, OneInv, BookInv, [Next]_vars
    PROVE  Cycles'
<1> USE DEF durable, cache, life, doubt, memory, broker, clock, history
<1>1. Cycles /\ command \in [Ids -> CommandType] /\ nextId \in Nat
  BY BoundAssumption DEF BookInv, IInv, TypeOK, Ids
<1>3. ASSUME UNCHANGED <<command, nextId>>,
             \A i \in Ids : i >= nextId =>
               redisPositions'[i] = NoPosition /\ book'[i] = NoPosition /\ pgPositions'[i] = NoPosition
      PROVE  Cycles'
  BY <1>1, <1>3 DEF Cycles, Untraced, PairOf, Ids
<1>4. ASSUME NEW p \in Pairs, NEW action \in Actions, NEW c \in Ids, EmitIntent(p, action, c)
      PROVE  Cycles'
  <2>1. PICK n \in Ids : n = nextId
    BY <1>4 DEF EmitIntent
  <2>2. /\ c =< n /\ (action = "entry" <=> c = n)
        /\ c # n => PairOf(c) = p
        /\ command' = [command EXCEPT ![n] = [pair |-> p, action |-> action, cycle |-> c]]
        /\ nextId' = n + 1
        /\ UNCHANGED <<redisPositions, book, pgPositions>>
    BY <1>4, <2>1, IntentFinds
  <2>3. command'[n] = [pair |-> p, action |-> action, cycle |-> c]
    BY <1>1, <2>2
  <2>4. \A i \in Ids : i # n => command'[i] = command[i]
    BY <1>1, <2>2
  <2> SUFFICES ASSUME NEW i \in Ids
               PROVE  IF i < nextId'
                      THEN LET d == command'[i].cycle
                           IN  /\ d \in Ids /\ d =< i /\ command'[d].pair = command'[i].pair
                               /\ command'[i].action \in Actions
                               /\ command'[i].action = "entry" <=> d = i
                      ELSE Untraced(i)'
    BY DEF Cycles, PairOf
  <2>5. CASE i = n
    BY <2>2, <2>3, <2>4, <2>5 DEF Ids, PairOf
  <2>6. CASE i < n
    <3>1. i < nextId /\ i < n + 1 /\ i # n
      BY <2>1, <2>6 DEF Ids
    <3>2. LET d == command[i].cycle
          IN  /\ d \in Ids /\ d =< i /\ command[d].pair = command[i].pair
              /\ command[i].action \in Actions
              /\ command[i].action = "entry" <=> d = i
      BY <1>1, <3>1 DEF Cycles, PairOf
    <3>3. command[i].cycle # n
      BY <2>6, <3>2 DEF Ids
    <3> QED BY <2>2, <2>4, <3>1, <3>2, <3>3
  <2>7. CASE i > n
    BY <1>1, <2>1, <2>2, <2>4, <2>7 DEF Cycles, Untraced, Ids
  <2> QED BY <2>5, <2>6, <2>7 DEF Ids
<1>5. ASSUME NEW p \in Pairs, Progress(p) \/ Fault(p) PROVE Cycles'
  <2>1. command[task[p].id].cycle < nextId
    BY <1>1, <1>5, TaskWrites DEF Cycles, Ids
  <2>2. \A i \in Ids : i >= nextId => i # command[task[p].id].cycle
    BY <1>1, <2>1 DEF Ids
  <2>3. \A i \in Ids : i >= nextId =>
            redisPositions[i] = NoPosition /\ book[i] = NoPosition /\ pgPositions[i] = NoPosition
    BY <1>1 DEF Cycles, Untraced, Ids
  <2> QED BY <1>3, <1>5, <2>2, <2>3, TaskWrites
<1>6. CASE Elsewhere
  <2>1. UNCHANGED <<command, nextId, pgPositions>>
    BY <1>6, ElsewhereKeepsRows
  <2>2. ASSUME NEW i \in Ids, i >= nextId
        PROVE  redisPositions'[i] = NoPosition /\ book'[i] = NoPosition /\ pgPositions'[i] = NoPosition
    <3>1. /\ command[i] = NoCommand /\ redisPositions[i] = NoPosition /\ book[i] = NoPosition
          /\ pgPositions[i] = NoPosition /\ PairOf(i) = "none"
      BY <1>1, <2>2 DEF Cycles, Untraced, Ids, PairOf, NoCommand
    <3>2. CASE Boot
      <4>1. PairOf(i) \notin slots'
        BY <3>1, <3>2, PairAssumption DEF Boot
      <4> QED BY <2>1, <3>1, <3>2, <4>1 DEF Boot
    <3>3. CASE Crash \/ RedisFlushed
      BY <2>1, <3>1, <3>3 DEF Crash, RedisFlushed, EmptyBook
    <3>4. CASE \E p \in Pairs : BootCut(p)
      <4>1. PICK p \in Pairs : BootCut(p)
        BY <3>4
      <4>2. i \notin CyclesOf(p)
        BY <3>1, PairAssumption DEF CyclesOf
      <4> QED BY <2>1, <3>1, <4>1, <4>2 DEF BootCut
    <3>5. CASE ~(Boot \/ Crash \/ RedisFlushed \/ \E p \in Pairs : BootCut(p))
      BY <1>6, <2>1, <3>1, <3>5 DEF Elsewhere, Scanning, ScanStart, ScanQuery, ScanVisit, ScanLock,
         ScanSkip, ScanEnd, ScanQueryFailed, SetShadow, Broker, BrokerTakes,
         BrokerRefuses, NetworkLoses, Tick, vars
    <3> QED BY <3>2, <3>3, <3>4, <3>5
  <2> QED BY <1>3, <2>1, <2>2
<1> QED BY <1>4, <1>5, <1>6, StepCases

\* What a sound pair stays through a step that stages nothing.
LEMMA StepKeepsSound ==
    ASSUME IInv, OneInv, BookInv, [Next]_vars PROVE SoundBefore
<1>1. ASSUME NEW p \in Pairs, NEW action \in Actions, NEW c \in Ids, EmitIntent(p, action, c)
      PROVE  SoundBefore
  BY <1>1, IntentFinds
<1>2. ASSUME NEW p \in Pairs, Progress(p) \/ Fault(p) PROVE SoundBefore
  BY <1>2, TaskWrites
<1>3. CASE Elsewhere
  <2>1. UNCHANGED <<command, overtaken>>
    BY <1>3, ElsewhereKeepsRows
  <2>2. halfSeeded \subseteq halfSeeded'
    BY <1>3 DEF Elsewhere, Scanning, ScanStart, ScanQuery, ScanVisit, ScanLock, ScanSkip, ScanEnd,
       ScanQueryFailed, BootCut, Boot, Crash, RedisFlushed, SetShadow, Broker, BrokerTakes,
       BrokerRefuses, NetworkLoses, Tick, vars, history
  <2> QED BY <2>1, <2>2, SoundKept DEF PairOf, IInv, TypeOK
<1> QED BY <1>1, <1>2, <1>3, StepCases

LEMMA EntryFirstStep ==
    ASSUME IInv, OneInv, BookInv, [Next]_vars
    PROVE  EntryFirst'
<1> SUFFICES ASSUME NEW i \in Ids, i < nextId', Whole(i)', command'[i].cycle # i,
                    NEW c, c = command'[i].cycle
             PROVE  ~OpenRow(c)'
  BY DEF EntryFirst
<1>1. SoundBefore /\ Cycles /\ EntryFirst /\ nextId \in Nat /\ Cycles'
  BY StepKeepsSound, CyclesStep, BoundAssumption DEF BookInv, IInv, TypeOK, Ids
<1>2. CASE command' = command /\ nextId' = nextId
  <2>1. /\ c \in Ids /\ c < i /\ c < nextId /\ PairOf(c) = PairOf(i) /\ PairOf(i) \in Pairs
        /\ Sound(PairOf(i)) /\ PairOf(i)' = PairOf(i)
    BY <1>1, <1>2 DEF Cycles, Whole, PairOf, SoundBefore, Ids
  <2>2. ~OpenRow(c)
    BY <1>1, <1>2, <2>1 DEF EntryFirst, Whole
  <2>3. ASSUME NEW p \in Pairs, task[p].pc = "stage", task[p].id = c PROVE FALSE
    <3>1. PairOf(c) = p /\ task[p].by = "handler"
      BY <2>3 DEF IInv, Phases, TaskMatchesRow
    <3>2. i =< c
      BY <2>1, <2>3, <3>1 DEF OneInv, StagesAlone
    <3> QED BY <2>1, <3>2 DEF Ids
  <2> QED BY <2>1, <2>2, <2>3, ClosedStays
<1>3. ASSUME NEW p \in Pairs, NEW action \in Actions, NEW d \in Ids, EmitIntent(p, action, d)
      PROVE  ~OpenRow(c)'
  <2>1. PICK n \in Ids : n = nextId
    BY <1>3 DEF EmitIntent
  <2>2. /\ d =< n /\ (action = "entry" <=> d = n)
        /\ Sound(p) => \A j \in Ids : PairOf(j) = p => ~OpenRow(j)
        /\ d # n => PairOf(d) = p
        /\ command' = [command EXCEPT ![n] = [pair |-> p, action |-> action, cycle |-> d]]
        /\ nextId' = n + 1
        /\ UNCHANGED <<status, pending>>
    BY <1>3, <2>1, IntentFinds
  <2>3. /\ command'[n] = [pair |-> p, action |-> action, cycle |-> d]
        /\ \A j \in Ids : j # n => command'[j] = command[j]
        /\ \A j \in Ids : OpenRow(j)' <=> OpenRow(j)
    BY <2>2 DEF IInv, TypeOK, OpenRow
  <2>4. CASE i = n
    <3>1. c = d /\ PairOf(i)' = p
      BY <2>3, <2>4 DEF PairOf
    <3>2. Sound(p)
      BY <1>1, <3>1 DEF Whole, SoundBefore
    <3> QED BY <2>2, <2>3, <2>4, <3>1, <3>2
  <2>5. CASE i # n
    <3>1. i < nextId /\ c = command[i].cycle /\ PairOf(i)' = PairOf(i)
      BY <2>1, <2>2, <2>3, <2>5 DEF Ids, PairOf
    <3>2. Whole(i) /\ c \in Ids
      BY <1>1, <3>1 DEF Whole, SoundBefore, Cycles
    <3> QED BY <1>1, <2>3, <3>1, <3>2 DEF EntryFirst
  <2> QED BY <2>4, <2>5
<1> QED BY <1>2, <1>3, StepCases, TaskWrites, ElsewhereKeepsRows

LEMMA RunningStep ==
    ASSUME IInv, OneInv, BookInv, [Next]_vars
    PROVE  Running'
<1> USE DEF durable, cache, life, doubt, memory, broker, clock, history
<1>1. Running /\ TypeOK /\ task \in [Pairs -> TaskType] /\ scan \in ScanType
  BY DEF BookInv, IInv, TypeOK
<1>2. ASSUME NEW p \in Pairs, NEW action \in Actions, NEW c \in Ids, EmitIntent(p, action, c)
      PROVE  Running'
  <2>1. /\ UNCHANGED <<slots, mode, scan>> /\ p \in slots /\ nextId \in Ids
        /\ \A q \in Pairs \ {p} : task'[q] = task[q]
        /\ command' = [command EXCEPT ![nextId] = [pair |-> p, action |-> action, cycle |-> c]]
    <3>1. nextId \in Ids
      BY <1>2 DEF EmitIntent
    <3> QED BY <1>2, <3>1, IntentFinds
  <2>2. scan.pc = "lock" => scan.row # nextId
    BY <2>1 DEF IInv, ScanSeesRows, Allocated, Ids
  <2>3. scan.pc = "lock" => PairOf(scan.row)' = PairOf(scan.row)
    BY <1>1, <2>1, <2>2 DEF PairOf, IInv, ScanSeesRows, TypeOK
  <2> QED BY <1>1, <2>1, <2>3 DEF Running
<1>3. ASSUME NEW p \in Pairs, Progress(p) \/ Fault(p) PROVE Running'
  <2>1. /\ UNCHANGED <<command, mode, slots>> /\ task[p].pc # "idle"
        /\ \A q \in Pairs \ {p} : task'[q] = task[q]
    BY <1>3, TaskWrites
  <2>2. scan' = scan \/ scan'.pc \in {"query", "page"}
    <3>1. CASE SendWithheld(p) \/ TrackFailed(p) \/ Finalise(p) \/ MarkFailed(p)
      <4>1. PICK ok \in BOOLEAN : Return(p, ok)
        BY <3>1 DEF SendWithheld, TrackFailed, Finalise, MarkFailed
      <4> QED BY <1>1, <4>1, ReturnFacts
    <3>2. CASE ~(SendWithheld(p) \/ TrackFailed(p) \/ Finalise(p) \/ MarkFailed(p))
      BY <1>3, <3>2 DEF Progress, Fault, StageCommit, StageReturned, SendShadow, MarkUnknown,
         Send, SendReturns, Checkpoint, TrackRedis, TrackPostgres, StageFailed
    <3> QED BY <3>1, <3>2
  <2>3. mode # "down"
    BY <1>1, <2>1 DEF Running
  <2> QED BY <1>1, <2>1, <2>2, <2>3 DEF Running, PairOf
<1>4. CASE Scanning \/ ScanQueryFailed
  <2>1. UNCHANGED <<command, slots>> /\ mode # "down" /\ mode' # "down"
    BY <1>1, <1>4 DEF Running, Scanning, ScanStart, ScanQuery, ScanVisit, ScanLock, ScanSkip,
         ScanEnd, ScanQueryFailed
  <2>2. ASSUME NEW q \in Pairs, task'[q].pc # "idle" PROVE q \in slots
    <3>1. CASE task'[q] = task[q]
      BY <1>1, <2>2, <3>1 DEF Running
    <3>2. CASE ScanLock
      <4>1. PairOf(scan.row) \in slots /\ task' = [task EXCEPT ![PairOf(scan.row)] =
                                                    RecoveryTask(scan.row)]
        BY <1>1, <3>2 DEF Running, ScanLock
      <4>2. q = PairOf(scan.row) \/ task'[q] = task[q]
        BY <1>1, <4>1
      <4> QED BY <3>1, <4>1, <4>2
    <3> QED BY <1>4, <3>1, <3>2 DEF Scanning, ScanStart, ScanQuery, ScanVisit, ScanSkip,
         ScanEnd, ScanQueryFailed
  <2>3. (scan.pc = "lock")' => PairOf(scan.row)' \in slots
    <3>1. CASE ScanVisit
      <4>1. PICK i \in scan.page :
              \/ PairOf(i) \in slots /\ scan' = [scan EXCEPT !.pc = "lock", !.row = i, !.page = @ \ {i}]
              \/ scan'.pc \in {"query", "page"}
        <5>1. PICK i \in scan.page :
                IF PairOf(i) \in slots /\ PairOf(i) \notin scan.blocked
                THEN scan' = [scan EXCEPT !.pc = "lock", !.row = i, !.page = @ \ {i}]
                ELSE scan' = [scan EXCEPT
                                !.pc = IF scan.page = {i} THEN "query" ELSE "page",
                                !.page = @ \ {i}, !.blocked = @ \cup {PairOf(i)}]
          BY <3>1 DEF ScanVisit
        <5> QED BY <1>1, <5>1 DEF ScanType
      <4>2. (scan.pc = "lock")' => PairOf(i) \in slots /\ scan'.row = i
        BY <1>1, <4>1 DEF ScanType
      <4> QED BY <2>1, <4>2 DEF PairOf
    <3>2. CASE ScanStart \/ ScanQueryFailed \/ ScanEnd
      BY <3>2 DEF ScanStart, ScanQueryFailed, ScanEnd, IdleScan
    <3>3. CASE ScanQuery
      <4>1. CASE scan' = [scan EXCEPT !.pc = "end"]
        BY <1>1, <4>1 DEF ScanType
      <4>2. ASSUME NEW last \in FirstPage(Backlog),
                   scan' = [scan EXCEPT !.pc = "page", !.page = FirstPage(Backlog),
                                        !.cursor = last]
            PROVE  scan'.pc # "lock"
        BY <1>1, <4>2 DEF ScanType
      <4> QED BY <3>3, <4>1, <4>2 DEF ScanQuery
    <3>4. CASE ScanLock
      BY <1>1, <3>4 DEF ScanLock, ScanType
    <3>5. CASE ScanSkip
      <4>1. PICK ok \in BOOLEAN :
              scan' = [scan EXCEPT
                         !.pc = IF scan.page = {} THEN "query" ELSE "page",
                         !.row = NoId,
                         !.resolved = IF ok THEN @ \cup {PairOf(scan.row)} ELSE @,
                         !.blocked = IF ok THEN @ ELSE @ \cup {PairOf(scan.row)}]
        BY <3>5 DEF ScanSkip
      <4> QED BY <1>1, <4>1 DEF ScanType
    <3> QED BY <1>4, <3>1, <3>2, <3>3, <3>4, <3>5 DEF Scanning
  <2> QED BY <2>1, <2>2, <2>3 DEF Running
<1>5. CASE Boot
  <2>1. /\ \A p \in Pairs : task'[p].pc = "idle" /\ scan'.pc = "idle" /\ mode' # "down"
    BY <1>1, <1>5 DEF Boot, Running
  <2> QED BY <1>1, <1>5, <2>1 DEF Running, Boot
<1>6. CASE Crash
  BY <1>6 DEF Crash, Running, IdleTask, IdleScan
<1>7. CASE (\E p \in Pairs : BootCut(p)) \/ RedisFlushed \/ SetShadow \/ Broker \/ Tick
           \/ UNCHANGED vars
  <2>1. UNCHANGED <<command, mode, slots, task, scan>>
    BY <1>7 DEF BootCut, RedisFlushed, SetShadow, Broker, BrokerTakes, BrokerRefuses,
         NetworkLoses, Tick, vars
  <2> QED BY <1>1, <2>1 DEF Running, PairOf
<1> QED BY <1>2, <1>3, <1>4, <1>5, <1>6, <1>7, StepCases DEF Elsewhere

LEMMA AckedStep ==
    ASSUME IInv, Horizon, BookInv, [Next]_vars
    PROVE  Acked'
<1> USE DEF durable, cache, life, doubt, memory, broker, clock, history
<1>1. /\ Acked /\ TypeOK /\ executed \in [Ids -> Nat] /\ reply \in [Ids -> {"none", "ack", "nack"}]
      /\ status \in [Ids -> {"none"} \cup Unfinished \cup Final]
      /\ pending \in [Ids -> {"none"} \cup Final]
  BY DEF BookInv, IInv, TypeOK
<1>2. ASSUME UNCHANGED <<reply, executed>>,
             \A i \in Ids : pending'[i] = "sent" => pending[i] = "sent" \/ executed[i] > 0,
             \A i \in Ids : status'[i] \in {"sent", "sent_pending"} =>
                 status[i] \in {"sent", "sent_pending"} \/ pending[i] = "sent"
      PROVE  Acked'
  BY <1>1, <1>2 DEF Acked
<1>3. ASSUME NEW p \in Pairs, Progress(p) \/ Fault(p) PROVE Acked'
  <2>1. /\ task[p].pc # "idle" /\ task[p].id \in Ids
        /\ \A i \in Ids \ {task[p].id} : status'[i] = status[i] /\ pending'[i] = pending[i]
    BY <1>3, TaskWrites
  <2>2. TaskMatchesRow(p)
    BY <2>1 DEF IInv, Phases
  <2>3. CASE Send(p)
    BY <1>1, <2>3 DEF Send, Acked
  <2>4. CASE SendReturns(p)
    <3>1. UNCHANGED <<status, reply, executed>>
      BY <2>4 DEF SendReturns
    <3>2. pending'[task[p].id] = "sent" =>
            pending[task[p].id] = "sent" \/ executed[task[p].id] > 0
      <4>1. PICK result \in Results(task[p].id) :
              pending' = IF Outcome(p, result) = "unknown" THEN pending
                         ELSE [pending EXCEPT ![task[p].id] = Outcome(p, result)]
        BY <2>4 DEF SendReturns
      <4>2. result = "sent" => executed[task[p].id] > 0
        BY <1>1, <2>1, <4>1 DEF Results, Acked
      <4> QED BY <1>1, <2>1, <4>1, <4>2 DEF Outcome
    <3> QED BY <1>2, <2>1, <3>1, <3>2
  <2>5. CASE ~Send(p) /\ ~SendReturns(p)
    <3>1. UNCHANGED <<reply, executed>>
      BY <1>3, <2>5 DEF Progress, Fault, StageCommit, StageReturned, SendShadow, MarkUnknown,
         Checkpoint, TrackRedis, TrackPostgres, Finalise, StageFailed, SendWithheld,
         TrackFailed, MarkFailed
    <3>2. \A i \in Ids : pending'[i] = "sent" => pending[i] = "sent"
      BY <1>1, <1>3, <2>1, <2>5 DEF Progress, Fault, StageCommit, StageReturned, SendShadow,
         MarkUnknown, Checkpoint, TrackRedis, TrackPostgres, Finalise, StageFailed,
         SendWithheld, TrackFailed, MarkFailed
    <3>3. status'[task[p].id] \in {"sent", "sent_pending"} =>
            status[task[p].id] \in {"sent", "sent_pending"} \/ pending[task[p].id] = "sent"
      <4>1. CASE Checkpoint(p) \/ Finalise(p) \/ MarkFailed(p)
        <5>1. task[p].out = "sent" /\ task[p].pc \in {"checkpoint", "final"} =>
                  pending[task[p].id] = "sent"
          BY <2>2 DEF TaskMatchesRow
        <5>0. /\ PendingStatus(task[p].out) \in {"sent", "sent_pending"} => task[p].out = "sent"
              /\ task[p].out # "sent_pending"
          BY DEF PendingStatus, IInv, TypeOK, TaskType, Outcomes, Final
        <5>2. CASE Checkpoint(p)
          <6>1. status'[task[p].id] = PendingStatus(task[p].out) /\ task[p].pc = "checkpoint"
            BY <1>1, <2>1, <5>2 DEF Checkpoint
          <6> QED BY <5>0, <5>1, <6>1
        <5>3. CASE Finalise(p)
          <6>1. status'[task[p].id] = task[p].out /\ task[p].pc = "final"
            BY <1>1, <2>1, <5>3 DEF Finalise
          <6> QED BY <5>0, <5>1, <6>1
        <5>4. CASE MarkFailed(p)
          <6>1. \/ status'[task[p].id] = status[task[p].id]
                \/ task[p].pc = "mark" /\ status'[task[p].id] = "unknown"
                \/ task[p].pc = "checkpoint" /\ status'[task[p].id] = PendingStatus(task[p].out)
                \/ task[p].pc = "final" /\ status'[task[p].id] = task[p].out
            BY <1>1, <2>1, <5>4 DEF MarkFailed
          <6> QED BY <5>0, <5>1, <6>1
        <5> QED BY <4>1, <5>2, <5>3, <5>4
      <4>2. CASE ~(Checkpoint(p) \/ Finalise(p) \/ MarkFailed(p))
        BY <1>1, <1>3, <2>1, <2>5, <4>2 DEF Progress, Fault, StageCommit, StageReturned,
           SendShadow, MarkUnknown, TrackRedis, TrackPostgres, StageFailed, SendWithheld,
           TrackFailed
      <4> QED BY <4>1, <4>2
    <3> QED BY <1>2, <2>1, <3>1, <3>2, <3>3
  <2> QED BY <2>3, <2>4, <2>5
<1>4. CASE ScanLock
  BY <1>1, <1>2, <1>4 DEF ScanLock, KnownOutcome, Acked
<1>5. CASE Broker
  <2>1. PICK i \in Ids : BrokerTakes(i) \/ BrokerRefuses(i) \/ NetworkLoses(i)
    BY <1>5 DEF Broker
  <2>2. UNCHANGED <<status, pending>>
    BY <2>1 DEF BrokerTakes, BrokerRefuses, NetworkLoses
  <2>3. CASE BrokerTakes(i)
    <3>1. executed[i] = IF takenAt[i] = Never THEN 0 ELSE 1
      BY DEF Horizon, Copies
    <3>2. executed'[i] > 0
      BY <1>1, <2>3, <3>1 DEF BrokerTakes, Never
    <3>3. \A j \in Ids \ {i} : executed'[j] = executed[j] /\ reply'[j] = reply[j]
      BY <1>1, <2>3 DEF BrokerTakes
    <3> QED BY <1>1, <2>2, <3>2, <3>3 DEF Acked
  <2>4. CASE BrokerRefuses(i) \/ NetworkLoses(i)
    BY <1>1, <2>2, <2>4 DEF BrokerRefuses, NetworkLoses, Acked
  <2> QED BY <2>1, <2>3, <2>4
<1>6. CASE Elsewhere /\ ~ScanLock /\ ~Broker
  <2>1. UNCHANGED <<status, reply, executed>> /\ \A i \in Ids : pending'[i] \in {pending[i], "none"}
    BY <1>6 DEF Elsewhere, Scanning, ScanStart, ScanQuery, ScanVisit, ScanSkip, ScanEnd,
         ScanQueryFailed, BootCut, Boot, Crash, RedisFlushed, SetShadow, Tick, vars
  <2> QED BY <1>2, <2>1
<1>7. ASSUME NEW p \in Pairs, NEW action \in Actions, NEW c \in Ids, EmitIntent(p, action, c)
      PROVE  Acked'
  BY <1>1, <1>7 DEF EmitIntent, Acked
<1> QED BY <1>3, <1>4, <1>5, <1>6, <1>7, StepCases
-----------------------------------------------------------------------------
(* The stores.                                                             *)

\* A step that moves no accepted row and writes no store.
LEMMA BooksKept ==
    ASSUME IInv, BookInv, UNCHANGED <<command, pgPositions, redisPositions, book, slots>>,
           \A c \in Ids : RowsKept(c), SoundBefore,
           \A q \in Pairs : Writing(task'[q]) => task'[q] = task[q]
    PROVE  Stores' /\ \A q \in Pairs : Written(q)'
<1>1. /\ Stores /\ \A p \in Pairs : CyclesOf(p)' = CyclesOf(p)
      /\ \A c \in Ids : PairOf(c)' = PairOf(c) /\ (Whole(c)' => Whole(c))
  BY DEF BookInv, CyclesOf, PairOf, Whole, SoundBefore
<1>2. ASSUME NEW c \in Ids, NEW pos, Replayable(pos, c) PROVE Replayable(pos, c)'
  BY <1>2, ReplayableKept
<1>3. ASSUME NEW c \in Ids, Replayable(pgPositions[c], c) PROVE Replayable(pgPositions[c], c)'
  <2>1. PICK pos : pos = pgPositions[c] OBVIOUS
  <2> QED BY <1>2, <1>3, <2>1 DEF Replayable, Current
<1>4. ASSUME NEW c \in Ids, Replayable(redisPositions[c], c)
      PROVE  Replayable(redisPositions[c], c)'
  <2>1. PICK pos : pos = redisPositions[c] OBVIOUS
  <2> QED BY <1>2, <1>4, <2>1 DEF Replayable, Current
<1>5. ASSUME NEW c \in Ids, Replayable(book[c], c) PROVE Replayable(book[c], c)'
  <2>1. PICK pos : pos = book[c] OBVIOUS
  <2> QED BY <1>2, <1>5, <2>1 DEF Replayable, Current
<1>6. PostgresHolds'
  BY <1>1, <1>3 DEF Stores, PostgresHolds
<1>7. \A p \in Pairs : (Sound(p) => RedisHolds(p) \/ (p \notin slots /\ RedisEmpty(p)))'
  <2> SUFFICES ASSUME NEW p \in Pairs, Sound(p)'
               PROVE  (RedisHolds(p) \/ (p \notin slots /\ RedisEmpty(p)))'
    OBVIOUS
  <2>1. RedisHolds(p) \/ (p \notin slots /\ RedisEmpty(p))
    BY <1>1 DEF Stores, SoundBefore
  <2> QED BY <1>1, <1>4, <2>1 DEF RedisHolds, RedisEmpty, CyclesOf
<1>8. (\A c \in Ids : Whole(c) /\ PairOf(c) \in slots => Replayable(book[c], c))'
  BY <1>1, <1>5 DEF Stores
<1>9. ASSUME NEW q \in Pairs PROVE Written(q)'
  <2> SUFFICES ASSUME Writing(task'[q]), Sound(q)' PROVE Written(q)'
    BY DEF Written
  <2>1. task'[q] = task[q] /\ Written(q) /\ Sound(q)
    BY DEF BookInv, SoundBefore
  <2>2. task[q].pc # "idle"
    BY <2>1 DEF Writing
  <2>3. task[q].id \in Ids /\ task[q].id < nextId
    BY <2>2 DEF IInv, Phases, TaskMatchesRow
  <2>4. PICK c \in Ids : c = command[task[q].id].cycle
    BY <2>3 DEF BookInv, Cycles
  <2>5. ASSUME NEW pos, Current(pos, c) PROVE Current(pos, c)'
    BY <2>5, CurrentKept DEF RowsKept
  <2>6. status'[task[q].id] \in Recorded
    BY <2>1, <2>3, <2>4 DEF Written, RowsKept
  <2>7. PICK b, r, g : b = book[c] /\ r = redisPositions[c] /\ g = pgPositions[c]
    OBVIOUS
  <2> QED BY <2>1, <2>4, <2>5, <2>6, <2>7 DEF Written, Current
<1> QED BY <1>6, <1>7, <1>8, <1>9 DEF Stores

\* A step of p's task on a row of cycle c: only the stores at c are in question.
LEMMA TaskBooks ==
    ASSUME IInv, BookInv, NEW p \in Pairs, Progress(p) \/ Fault(p),
           NEW c, c = command[task[p].id].cycle,
           NEW b, b = book'[c], NEW r, r = redisPositions'[c], NEW g, g = pgPositions'[c],
           Sound(p)' => Replayable(b, c)' /\ Replayable(r, c)' /\ Replayable(g, c)' /\ Written(p)'
    PROVE  Stores' /\ \A q \in Pairs : Written(q)'
<1>1. PICK n \in Ids : n = task[p].id
  BY TaskWrites
<1>2. /\ n < nextId /\ PairOf(n) = p /\ UNCHANGED <<command, nextId, slots>>
      /\ \A q \in Pairs \ {p} : task'[q] = task[q]
      /\ \A i \in Ids \ {n} : status'[i] = status[i]
      /\ \A d \in Ids \ {c} : /\ book'[d] = book[d] /\ redisPositions'[d] = redisPositions[d]
                               /\ pgPositions'[d] = pgPositions[d]
      /\ task[p].pc # "idle"
  BY <1>1, TaskWrites
<1>3. c \in Ids /\ PairOf(c) = p /\ p \in slots
  BY <1>1, <1>2 DEF BookInv, Cycles, Running
<1>4. ASSUME NEW d \in Ids \ {c} PROVE RowsKept(d)
  BY <1>1, <1>2 DEF RowsKept, SameRows, Taken
<1>5. ASSUME NEW d \in Ids \ {c}, NEW pos, Replayable(pos, d) PROVE Replayable(pos, d)'
  BY <1>4, <1>5, ReplayableKept
<1>6. /\ Stores /\ \A q \in Pairs : CyclesOf(q)' = CyclesOf(q)
      /\ SoundBefore /\ \A d \in Ids : PairOf(d)' = PairOf(d) /\ (Whole(d)' => Whole(d))
  <2>1. SoundBefore
    BY TaskWrites
  <2> QED BY <1>2, <2>1 DEF BookInv, CyclesOf, PairOf, Whole, SoundBefore
<1>7. ASSUME NEW d \in Ids, Whole(d)' PROVE Replayable(pgPositions[d], d)'
  <2>1. CASE d = c
    BY <1>3, <1>6, <1>7, <2>1 DEF Replayable, Current, Whole
  <2>2. CASE d # c
    <3>1. PICK pos : pos = pgPositions[d] OBVIOUS
    <3>2. Replayable(pos, d)
      BY <1>7, <1>6, <2>2, <3>1 DEF Stores, PostgresHolds
    <3>3. Replayable(pos, d)' /\ pos = pgPositions'[d]
      BY <1>2, <1>5, <2>2, <3>1, <3>2
    <3> QED BY <3>3 DEF Replayable, Current
  <2> QED BY <2>1, <2>2
<1>8. ASSUME NEW d \in Ids, Whole(d)', Replayable(redisPositions[d], d) \/ d = c
      PROVE  Replayable(redisPositions[d], d)'
  <2>1. CASE d = c
    BY <1>3, <1>6, <1>8, <2>1 DEF Replayable, Current, Whole
  <2>2. CASE d # c
    <3>1. PICK pos : pos = redisPositions[d] OBVIOUS
    <3>2. Replayable(pos, d)
      BY <1>8, <1>6, <2>2, <3>1
    <3>3. Replayable(pos, d)' /\ pos = redisPositions'[d]
      BY <1>2, <1>5, <2>2, <3>1, <3>2
    <3> QED BY <3>3 DEF Replayable, Current
  <2> QED BY <2>1, <2>2
<1>9. ASSUME NEW d \in Ids, Whole(d)', Replayable(book[d], d) \/ d = c
      PROVE  Replayable(book[d], d)'
  <2>1. CASE d = c
    BY <1>3, <1>6, <1>9, <2>1 DEF Replayable, Current, Whole
  <2>2. CASE d # c
    <3>1. PICK pos : pos = book[d] OBVIOUS
    <3>2. Replayable(pos, d)
      BY <1>9, <1>6, <2>2, <3>1
    <3>3. Replayable(pos, d)' /\ pos = book'[d]
      BY <1>2, <1>5, <2>2, <3>1, <3>2
    <3> QED BY <3>3 DEF Replayable, Current
  <2> QED BY <2>1, <2>2
<1>10. PostgresHolds'
  BY <1>7 DEF PostgresHolds
<1>11. ASSUME NEW q \in Pairs, Sound(q)' PROVE (RedisHolds(q) \/ (q \notin slots /\ RedisEmpty(q)))'
  <2>0. RedisHolds(q) \/ (q \notin slots /\ RedisEmpty(q))
    BY <1>6, <1>11 DEF Stores, SoundBefore
  <2>3. \A d \in CyclesOf(q) : d \in Ids /\ Whole(d)'
    BY <1>6, <1>11 DEF CyclesOf, Whole
  <2>1. CASE q = p
    BY <1>2, <1>3, <1>6, <1>8, <2>0, <2>1, <2>3 DEF RedisHolds
  <2>2. CASE q # p
    <3>1. c \notin CyclesOf(q)
      BY <1>3, <2>2 DEF CyclesOf
    <3> QED BY <1>2, <1>6, <1>8, <2>0, <2>3, <3>1 DEF RedisHolds, RedisEmpty
  <2> QED BY <2>1, <2>2
<1>12. (\A d \in Ids : Whole(d) /\ PairOf(d) \in slots => Replayable(book[d], d))'
  BY <1>2, <1>6, <1>9 DEF Stores
<1>13. ASSUME NEW q \in Pairs, q # p PROVE Written(q)'
  <2> SUFFICES ASSUME Writing(task[q]), Sound(q)' PROVE Written(q)'
    BY <1>2, <1>13 DEF Written
  <2>1. Written(q) /\ task'[q] = task[q] /\ TaskMatchesRow(q) /\ Sound(q)
    BY <1>2, <1>6, <1>13 DEF BookInv, Writing, IInv, Phases, SoundBefore
  <2>2. PICK m \in Ids : m = task[q].id
    BY <2>1 DEF TaskMatchesRow
  <2>3. PICK d \in Ids : d = command[m].cycle /\ PairOf(d) = q
    BY <2>1, <2>2 DEF TaskMatchesRow, BookInv, Cycles
  <2>4. d # c /\ m # n
    BY <1>2, <1>3, <1>13, <2>1, <2>2, <2>3 DEF TaskMatchesRow
  <2>5. ASSUME NEW pos, Current(pos, d) PROVE Current(pos, d)'
    BY <1>4, <2>4, <2>5, CurrentKept DEF RowsKept
  <2>6. /\ status'[m] = status[m] /\ book'[d] = book[d]
        /\ redisPositions'[d] = redisPositions[d] /\ pgPositions'[d] = pgPositions[d]
    BY <1>2, <2>4
  <2>7. PICK b2, r2, g2 : b2 = book[d] /\ r2 = redisPositions[d] /\ g2 = pgPositions[d]
    OBVIOUS
  <2>8. /\ status[m] \in Recorded /\ Current(b2, d)
        /\ task[q].pc # "redis" => Current(r2, d)
        /\ task[q].pc = "final" => Current(g2, d)
    BY <2>1, <2>2, <2>3, <2>7 DEF Written
  <2>9. /\ status'[m] \in Recorded /\ Current(b2, d)'
        /\ task[q].pc # "redis" => Current(r2, d)'
        /\ task[q].pc = "final" => Current(g2, d)'
    BY <2>5, <2>6, <2>8
  <2>10. b2 = book'[d] /\ r2 = redisPositions'[d] /\ g2 = pgPositions'[d]
    BY <2>6, <2>7
  <2> QED BY <1>2, <2>1, <2>2, <2>3, <2>9, <2>10 DEF Written, Current
<1>14. Written(p)'
  BY DEF Written
<1> QED BY <1>10, <1>11, <1>12, <1>13, <1>14 DEF Stores

\* What holds of the row n in work, of its cycle c and of the stores at c.
LEMMA AtWork ==
    ASSUME IInv, OneInv, BookInv, NEW p \in Pairs, Sound(p), task[p].pc # "idle",
           NEW n, n = task[p].id, NEW c, c = command[n].cycle
    PROVE  /\ n \in Ids /\ c \in Ids /\ PairOf(n) = p /\ PairOf(c) = p /\ p \in slots
           /\ command[n].action \in Actions /\ (command[n].action = "entry" <=> c = n)
           /\ TaskMatchesRow(p) /\ Written(p)
           /\ Replayable(book[c], c) /\ Replayable(redisPositions[c], c)
           /\ Replayable(pgPositions[c], c)
           /\ task[p].pc # "stage" =>
                  /\ OpenRow(n)
                  /\ \A o \in RowsOf(c) : status[o] \in Recorded => o = n
                  /\ c = n => RowsOf(c) \subseteq {n}
<1>1. TaskMatchesRow(p) /\ n \in Ids /\ n < nextId /\ PairOf(n) = p /\ Written(p) /\ Cycles
  BY DEF IInv, Phases, TaskMatchesRow, BookInv
<1>2. /\ c \in Ids /\ PairOf(c) = p
      /\ command[n].action \in Actions /\ (command[n].action = "entry" <=> c = n)
  BY <1>1 DEF Cycles
<1>3. p \in slots
  BY DEF BookInv, Running
<1>4. /\ Replayable(book[c], c) /\ Replayable(redisPositions[c], c)
      /\ Replayable(pgPositions[c], c)
  <2>1. Whole(c) /\ RedisHolds(p) /\ Stores
    BY <1>2, <1>3 DEF BookInv, Stores, Whole
  <2> QED BY <1>2, <1>3, <2>1 DEF Stores, PostgresHolds, RedisHolds, CyclesOf
<1>5. ASSUME task[p].pc # "stage"
      PROVE  /\ OpenRow(n)
             /\ \A o \in RowsOf(c) : status[o] \in Recorded => o = n
             /\ c = n => RowsOf(c) \subseteq {n}
  <2>1. OpenRow(n)
    BY <1>1, <1>5, BusyIsOpen
  <2>2. ASSUME NEW o \in RowsOf(c), status[o] \in Recorded PROVE o = n
    <3>1. o \in Ids /\ PairOf(o) = p /\ OpenRow(o)
      BY <1>1, <1>2, <2>2, RowPairs DEF RowsOf, OpenRow, Recorded, Unfinished
    <3>2. InSight(o) /\ InSight(n)
      BY <1>1, <2>1, <3>1 DEF InSight, Sound
    <3>3. o < n \/ n < o \/ o = n
      BY <1>1, <3>1 DEF Ids
    <3> QED BY <1>1, <2>1, <3>1, <3>2, <3>3 DEF OneInv, OneOpen
  <2>3. ASSUME c = n, NEW o \in RowsOf(c), o # n PROVE FALSE
    <3>1. o \in Ids /\ command[o].cycle = n /\ o < nextId
      BY <1>1, <1>2, <2>3, RowPairs DEF RowsOf
    <3>2. Whole(o)
      BY <1>1, <1>2, <2>3, <3>1 DEF Cycles, Whole
    <3> QED BY <2>1, <2>3, <3>1, <3>2 DEF BookInv, EntryFirst
  <2> QED BY <2>1, <2>2, <2>3
<1> QED BY <1>1, <1>2, <1>3, <1>4, <1>5

\* A step of p's task that moves no accepted row and writes no store.
LEMMA TaskOnly ==
    ASSUME IInv, BookInv, NEW p \in Pairs, Progress(p) \/ Fault(p),
           UNCHANGED <<pgPositions, redisPositions, book>>,
           NEW n, n = task[p].id, Taken(n)' <=> Taken(n),
           status[n] \in Recorded => status'[n] \in Recorded,
           ~Writing(task'[p])
    PROVE  Stores' /\ \A q \in Pairs : Written(q)'
<1>1. /\ UNCHANGED <<command, slots>> /\ \A q \in Pairs \ {p} : task'[q] = task[q]
      /\ n \in Ids /\ \A i \in Ids \ {n} : status'[i] = status[i]
  BY TaskWrites
<1>2. \A i \in Ids : /\ (Taken(i)' <=> Taken(i))
                     /\ status[i] \in Recorded => status'[i] \in Recorded
  BY <1>1 DEF Taken
<1>3. \A c \in Ids : RowsKept(c)
  BY <1>1, <1>2 DEF RowsKept, SameRows
<1>4. SoundBefore
  BY TaskWrites
<1> QED BY <1>1, <1>3, <1>4, BooksKept

\* A step for a pair that is not sound leaves the books of the others alone.
LEMMA OthersBooks ==
    ASSUME IInv, BookInv, NEW p \in Pairs, Progress(p) \/ Fault(p), ~Sound(p)'
    PROVE  Stores' /\ \A q \in Pairs : Written(q)'
<1>1. PICK c : c = command[task[p].id].cycle OBVIOUS
<1>2. PICK b : b = book'[c] OBVIOUS
<1>3. PICK r : r = redisPositions'[c] OBVIOUS
<1>4. PICK g : g = pgPositions'[c] OBVIOUS
<1> QED BY <1>1, <1>2, <1>3, <1>4, TaskBooks

LEMMA BeforeBooks ==
    ASSUME IInv, BookInv, NEW p \in Pairs,
           \/ StageCommit(p) \/ StageReturned(p) \/ StageFailed(p) \/ SendShadow(p)
           \/ SendWithheld(p) \/ MarkUnknown(p) \/ Send(p) \/ SendReturns(p)
    PROVE  Stores' /\ \A q \in Pairs : Written(q)'
<1> USE DEF durable, cache, life, doubt, broker, clock, history
<1>1. UNCHANGED <<pgPositions, redisPositions, book>> /\ (Progress(p) \/ Fault(p))
  BY DEF StageCommit, StageReturned, StageFailed, SendShadow, SendWithheld, MarkUnknown, Send,
         SendReturns, Progress, Fault
<1>0. PICK n : n = task[p].id
  OBVIOUS
<1>2. /\ n \in Ids /\ TaskMatchesRow(p) /\ task[p] \in TaskType
      /\ task \in [Pairs -> TaskType] /\ status \in [Ids -> {"none"} \cup Unfinished \cup Final]
  BY <1>0, <1>1, TaskWrites DEF IInv, Phases, TypeOK
<1>3. (Taken(n)' <=> Taken(n)) /\ (status[n] \in Recorded => status'[n] \in Recorded)
  <2>1. CASE StageCommit(p) \/ MarkUnknown(p)
    BY <1>0, <1>2, <2>1 DEF StageCommit, MarkUnknown, TaskMatchesRow, Taken, Accepted, Recorded
  <2>2. CASE ~(StageCommit(p) \/ MarkUnknown(p))
    <3>1. status' = status
      BY <2>2 DEF StageReturned, StageFailed, SendShadow, SendWithheld, Send, SendReturns
    <3> QED BY <3>1 DEF Taken
  <2> QED BY <2>1, <2>2
<1>4. ~Writing(task'[p])
  <2>1. CASE StageCommit(p) \/ StageReturned(p) \/ MarkUnknown(p) \/ Send(p)
    <3>1. PICK pc \in {"staged", "mark", "send", "sending"} : Goto(p, pc)
      BY <2>1 DEF StageCommit, StageReturned, MarkUnknown, Send
    <3>2. task'[p].pc = pc
      BY <1>2, <3>1 DEF Goto, TaskType
    <3> QED BY <3>2 DEF Writing
  <2>2. CASE StageFailed(p) \/ SendWithheld(p)
    BY <1>2, <2>2 DEF StageFailed, SendWithheld, Return, Writing, IdleTask
  <2>3. CASE SendShadow(p)
    BY <1>2, <2>3 DEF SendShadow, Writing, TaskType
  <2>4. CASE SendReturns(p)
    <3>1. PICK out : task' = [task EXCEPT ![p].out = out,
                               ![p].pc = IF out \in Accepted THEN "checkpoint" ELSE "final"]
      BY <2>4 DEF SendReturns
    <3>2. task'[p].out = out /\ task'[p].pc = IF out \in Accepted THEN "checkpoint" ELSE "final"
      BY <1>2, <3>1 DEF TaskType
    <3> QED BY <3>2 DEF Writing
  <2> QED BY <2>1, <2>2, <2>3, <2>4
<1> QED BY <1>0, <1>1, <1>3, <1>4, TaskOnly

\* A store at the cycle of the row in work has that row, or lacks only it.
LEMMA LacksOneRow ==
    ASSUME NEW c, NEW n, \A o \in RowsOf(c) : status[o] \in Recorded => o = n,
           NEW S, S = RowsOf(c) \cup {n}, NEW R, R = S \ {n},
           NEW pos, Replayable(pos, c)
    PROVE  pos = Pos(S, c) \/ pos = Pos(R, c)
<1>1. CASE n \in RowsOf(c)
  <2>1. S = RowsOf(c)
    BY <1>1
  <2> QED BY <2>1 DEF Replayable, Current
<1>2. CASE n \notin RowsOf(c)
  <2>1. R = RowsOf(c)
    BY <1>2
  <2> QED BY <1>2, <2>1 DEF Replayable, Current
<1> QED BY <1>1, <1>2

\* The acceptance of the row in work goes on record: every store can replay it.
LEMMA TakesRow ==
    ASSUME IInv, OneInv, BookInv, NEW p \in Pairs, Sound(p), task[p].pc \notin {"idle", "stage"},
           NEW n, n = task[p].id, NEW c, c = command[n].cycle,
           command' = command, NEW r \in Recorded, status' = [status EXCEPT ![n] = r],
           NEW S, S = RowsOf(c) \cup {n}
    PROVE  /\ RowsOf(c)' = S /\ S \in SUBSET Ids
           /\ \A pos : Replayable(pos, c) => Replayable(pos, c)'
<1>1. /\ n \in Ids /\ \A o \in RowsOf(c) : status[o] \in Recorded => o = n
  BY AtWork
<1>2. status \in [Ids -> {"none"} \cup Unfinished \cup Final]
  BY DEF IInv, TypeOK
<1>3. RowsOf(c)' = S /\ S \in SUBSET Ids /\ status'[n] \in Recorded
  <2>1. \A i \in Ids : Taken(i)' <=> Taken(i) \/ i = n
    BY <1>1, <1>2 DEF Taken
  <2> QED BY <1>1, <1>2, <2>1 DEF RowsOf
<1>4. PICK R : R = S \ {n}
  OBVIOUS
<1>5. Pos(S, c)' = Pos(S, c) /\ Pos(R, c)' = Pos(R, c)
  BY PosKept
<1>6. ASSUME NEW pos, Replayable(pos, c) PROVE Replayable(pos, c)'
  <2>1. pos = Pos(S, c) \/ pos = Pos(R, c)
    <3>1. \A o \in RowsOf(c) : status[o] \in Recorded => o = n
      BY <1>1
    <3>2. S = RowsOf(c) \cup {n} /\ R = S \ {n}
      BY <1>4
    <3> QED BY ONLY <1>6, <3>1, <3>2, LacksOneRow
  <2> QED BY <1>3, <1>4, <1>5, <2>1 DEF Replayable, Current
<1> QED BY <1>3, <1>6

LEMMA CheckpointBooks ==
    ASSUME IInv, OneInv, BookInv, NEW p \in Pairs, Sound(p), Checkpoint(p)
    PROVE  Stores' /\ \A q \in Pairs : Written(q)'
<1> USE DEF durable, cache, life, doubt, broker, clock, history
<1>1. PICK n, c : n = task[p].id /\ c = command[n].cycle
  OBVIOUS
<1>2. /\ task[p].pc = "checkpoint" /\ UNCHANGED <<command, pgPositions, redisPositions>>
      /\ status' = [status EXCEPT ![n] = PendingStatus(task[p].out)]
      /\ book' = Commit(book, n) /\ Goto(p, "redis") /\ (Progress(p) \/ Fault(p))
  BY <1>1 DEF Checkpoint, Progress
<1>3. PICK r \in Recorded : r = PendingStatus(task[p].out)
  BY DEF PendingStatus, Recorded
<1>4. /\ n \in Ids /\ c \in Ids /\ command[n].action \in Actions
      /\ (command[n].action = "entry" <=> c = n) /\ (c = n => RowsOf(c) \subseteq {n})
      /\ Replayable(book[c], c) /\ Replayable(redisPositions[c], c)
      /\ Replayable(pgPositions[c], c)
      /\ \A o \in RowsOf(c) : status[o] \in Recorded => o = n
  BY <1>1, <1>2, AtWork
<1>5. PICK S, R : S = RowsOf(c) \cup {n} /\ R = S \ {n}
  OBVIOUS
<1>6. PICK b, d, g : b = book[c] /\ d = redisPositions[c] /\ g = pgPositions[c]
  OBVIOUS
<1>7. /\ RowsOf(c)' = S /\ S \in SUBSET Ids
      /\ b = Pos(S, c) \/ b = Pos(R, c)
      /\ Replayable(d, c)' /\ Replayable(g, c)'
  <2>1. status' = [status EXCEPT ![n] = r]
    BY <1>2, <1>3
  <2>2. Replayable(b, c) /\ Replayable(d, c) /\ Replayable(g, c)
    BY <1>4, <1>6
  <2>3. task[p].pc \notin {"idle", "stage"}
    BY <1>2
  <2>4. /\ RowsOf(c)' = S
        /\ S \in SUBSET Ids
        /\ b = Pos(S, c) \/ b = Pos(R, c)
    <3>1. RowsOf(c)' = S
      BY <1>1, <1>2, <1>5, <2>1, <2>2, <2>3, TakesRow
    <3>2. S \in SUBSET Ids
      BY <1>4, <1>5 DEF RowsOf
    <3>3. b = Pos(S, c) \/ b = Pos(R, c)
      <4>1. \A o \in RowsOf(c) : status[o] \in Recorded => o = n
        BY <1>4
      <4>2. S = RowsOf(c) \cup {n} /\ R = S \ {n}
        BY <1>5
      <4>3. Replayable(b, c)
        BY <2>2
      <4> QED BY ONLY <4>1, <4>2, <4>3, LacksOneRow
    <3> QED BY <3>1, <3>2, <3>3
  <2>5. Replayable(d, c)'
    BY <1>1, <1>2, <1>5, <2>1, <2>2, <2>3, TakesRow
  <2>6. Replayable(g, c)'
    BY <1>1, <1>2, <1>5, <2>1, <2>2, <2>3, TakesRow
  <2> QED BY <2>4, <2>5, <2>6
<1>8. Commit(book, n)[c] = Pos(S, c)
  <2>1. book \in [Ids -> Position]
    BY DEF IInv, TypeOK
  <2>2. /\ n \in Ids /\ c \in Ids /\ n \in S /\ S \in SUBSET Ids /\ c = command[n].cycle
        /\ command[n].action \in Actions /\ (command[n].action = "entry" <=> c = n)
        /\ (c = n => S = {n}) /\ R = S \ {n}
        /\ book[c] = Pos(S, c) \/ book[c] = Pos(R, c)
    BY <1>1, <1>4, <1>5, <1>6, <1>7
  <2> QED BY <2>1, <2>2, Replay
<1>9. PICK e : e = book'[c]
  OBVIOUS
<1>10. Current(e, c)'
  <2>1. Pos(S, c)' = Pos(S, c)
    BY <1>2, PosKept
  <2> QED BY <1>2, <1>7, <1>8, <1>9, <2>1 DEF Current
<1>11. Written(p)'
  <2>1. task'[p].pc = "redis" /\ task'[p].id = n
    <3>1. task[p] \in TaskType /\ task' = [task EXCEPT ![p].pc = "redis"] /\ task \in [Pairs -> TaskType]
      BY <1>2 DEF IInv, TypeOK, Goto
    <3> QED BY <1>1, <3>1 DEF TaskType
  <2>2. status'[n] \in Recorded
    BY <1>2, <1>3, <1>4 DEF IInv, TypeOK
  <2>3. Current(book[c], c)'
    BY <1>9, <1>10 DEF Current
  <2> QED BY <1>1, <1>2, <2>1, <2>2, <2>3 DEF Written, Current
<1>12. Replayable(e, c)'
  BY <1>10 DEF Replayable
<1>13. d = redisPositions'[c] /\ g = pgPositions'[c]
  BY <1>2, <1>6
<1> QED BY <1>1, <1>2, <1>7, <1>9, <1>11, <1>12, <1>13, TaskBooks
\* A write of the book's position to Redis or to Postgres, whether it is known
\* to have succeeded or not.
LEMMA TrackBooks ==
    ASSUME IInv, OneInv, BookInv, NEW p \in Pairs, Sound(p),
           TrackRedis(p) \/ TrackPostgres(p) \/ TrackFailed(p)
    PROVE  Stores' /\ \A q \in Pairs : Written(q)'
<1> USE DEF durable, cache, life, doubt, broker, clock, history
<1>1. PICK n : n = task[p].id OBVIOUS
<1>2. PICK c : c = command[n].cycle OBVIOUS
<1>3. /\ UNCHANGED <<command, status, book>> /\ (Progress(p) \/ Fault(p))
      /\ task[p].pc \in {"redis", "postgres"}
  BY DEF TrackRedis, TrackPostgres, TrackFailed, Progress, Fault
<1>4. /\ n \in Ids /\ c \in Ids /\ Written(p)
      /\ Replayable(book[c], c) /\ Replayable(redisPositions[c], c)
      /\ Replayable(pgPositions[c], c)
  BY <1>1, <1>2, <1>3, AtWork
<1>5. RowsKept(c)
  BY <1>3 DEF RowsKept, SameRows, Taken
<1>6. PICK b : b = book[c] OBVIOUS
<1>7. PICK r : r = redisPositions'[c] OBVIOUS
<1>8. PICK g : g = pgPositions'[c] OBVIOUS
<1>9. status[n] \in Recorded /\ Current(b, c)
  BY <1>1, <1>2, <1>3, <1>4, <1>6 DEF Written, Writing
<1>10. /\ r = redisPositions[c] \/ r = b
       /\ g = pgPositions[c] \/ g = b
       /\ redisPositions \in [Ids -> Position] /\ pgPositions \in [Ids -> Position]
  BY <1>1, <1>2, <1>4, <1>6, <1>7, <1>8
     DEF TrackRedis, TrackPostgres, TrackFailed, Tracked, IInv, TypeOK
<1>11. Replayable(b, c)' /\ Replayable(r, c)' /\ Replayable(g, c)'
  <2>1. Replayable(b, c) /\ Replayable(r, c) /\ Replayable(g, c)
    BY <1>4, <1>9, <1>10 DEF Replayable
  <2> QED BY <1>5, <2>1, ReplayableKept
<1>12. Written(p)'
  <2>1. task[p] \in TaskType /\ task \in [Pairs -> TaskType]
    BY DEF IInv, TypeOK
  <2>2. Current(b, c)' /\ b = book'[c]
    BY <1>3, <1>5, <1>6, <1>9, CurrentKept DEF RowsKept
  <2>3. CASE TrackRedis(p)
    <3>1. task'[p].pc = "postgres" /\ task'[p].id = n
      BY <1>1, <2>1, <2>3 DEF TrackRedis, Goto, TaskType
    <3>2. redisPositions'[c] = b
      BY <1>1, <1>2, <1>4, <1>6, <1>10, <2>3 DEF TrackRedis, Tracked
    <3> QED BY <1>2, <1>3, <1>9, <2>2, <3>1, <3>2 DEF Written, Current
  <2>4. CASE TrackPostgres(p)
    <3>1. task'[p].pc = "final" /\ task'[p].id = n
      BY <1>1, <2>1, <2>4 DEF TrackPostgres, Goto, TaskType
    <3>2. pgPositions'[c] = b
      BY <1>1, <1>2, <1>4, <1>6, <1>10, <2>4 DEF TrackPostgres, Tracked
    <3>3. PICK d : d = redisPositions[c] OBVIOUS
    <3>4. Current(d, c) /\ d = redisPositions'[c]
      BY <1>1, <1>2, <1>4, <2>4, <3>3 DEF Written, Writing, TrackPostgres
    <3>5. Current(d, c)'
      BY <1>5, <3>4, CurrentKept DEF RowsKept
    <3> QED BY <1>2, <1>3, <1>9, <2>2, <3>1, <3>2, <3>4, <3>5 DEF Written, Current
  <2>5. CASE TrackFailed(p)
    <3>1. task'[p].pc = "idle"
      BY <2>1, <2>5 DEF TrackFailed, Return, IdleTask
    <3> QED BY <3>1 DEF Written, Writing
  <2> QED BY <2>3, <2>4, <2>5
<1>13. b = book'[c]
  BY <1>3, <1>6
<1> QED BY <1>1, <1>2, <1>3, <1>7, <1>8, <1>11, <1>12, <1>13, TaskBooks

\* The row's last update, and an update that is reported as failed.
LEMMA EndBooks ==
    ASSUME IInv, OneInv, BookInv, NEW p \in Pairs, Sound(p), Finalise(p) \/ MarkFailed(p)
    PROVE  Stores' /\ \A q \in Pairs : Written(q)'
<1> USE DEF durable, cache, life, doubt, broker, clock, history
<1>1. PICK n : n = task[p].id OBVIOUS
<1>2. PICK c : c = command[n].cycle OBVIOUS
<1>3. /\ UNCHANGED <<command, book, redisPositions, pgPositions>> /\ (Progress(p) \/ Fault(p))
      /\ task[p].pc \in {"mark", "checkpoint", "final"}
      /\ \/ status' = status
         \/ task[p].pc = "mark" /\ status' = [status EXCEPT ![n] = "unknown"]
         \/ task[p].pc = "checkpoint" /\ status' = [status EXCEPT ![n] = PendingStatus(task[p].out)]
         \/ task[p].pc = "final" /\ status' = [status EXCEPT ![n] = task[p].out]
  BY <1>1 DEF Finalise, MarkFailed, Progress, Fault
<1>4. /\ n \in Ids /\ c \in Ids /\ Written(p) /\ TaskMatchesRow(p)
      /\ Replayable(book[c], c) /\ Replayable(redisPositions[c], c)
      /\ Replayable(pgPositions[c], c)
  BY <1>1, <1>2, <1>3, AtWork
<1>5. /\ task[p] \in TaskType /\ task \in [Pairs -> TaskType]
      /\ status \in [Ids -> {"none"} \cup Unfinished \cup Final]
  BY DEF IInv, TypeOK
<1>6. task'[p].pc = "idle"
  BY <1>5 DEF Finalise, MarkFailed, Return, IdleTask
<1>7. CASE task[p].pc = "mark" \/ status' = status \/ task[p].out \notin Accepted
  <2>1. task[p].pc = "checkpoint" => task[p].out \in Accepted
    BY <1>4 DEF TaskMatchesRow
  <2>2. (Taken(n)' <=> Taken(n)) /\ (status[n] \in Recorded => status'[n] \in Recorded)
    <3>1. CASE status' = status
      BY <3>1 DEF Taken
    <3>2. CASE task[p].pc = "mark"
      BY <1>1, <1>3, <1>4, <1>5, <3>2 DEF TaskMatchesRow, Taken, Accepted, Recorded
    <3>3. CASE task[p].pc = "final" /\ task[p].out \notin Accepted
      <4>1. task[p].out \in {"failed", "unknown"} /\ status[n] \in {"unknown", "failed"}
        BY <1>1, <1>4, <1>5, <3>3
           DEF TaskMatchesRow, Compatible, TaskType, Outcomes, Final, Accepted
      <4> QED BY <1>3, <1>4, <1>5, <3>3, <4>1 DEF Taken, Accepted, Recorded
    <3> QED BY <1>3, <1>7, <2>1, <3>1, <3>2, <3>3
  <2>3. ~Writing(task'[p])
    BY <1>6 DEF Writing
  <2> QED BY <1>1, <1>3, <2>2, <2>3, TaskOnly
<1>8. CASE task[p].pc = "checkpoint" /\ status' = [status EXCEPT ![n] = PendingStatus(task[p].out)]
  <2>1. PICK r \in Recorded : r = PendingStatus(task[p].out)
    BY DEF PendingStatus, Recorded
  <2>2. PICK S : S = RowsOf(c) \cup {n} OBVIOUS
  <2>3. \A pos : Replayable(pos, c) => Replayable(pos, c)'
    <3>1. status' = [status EXCEPT ![n] = r] /\ task[p].pc \notin {"idle", "stage"}
      BY <1>8, <2>1
    <3> QED BY <1>1, <1>2, <1>3, <2>2, <3>1, TakesRow
  <2>4. PICK b : b = book[c] OBVIOUS
  <2>5. PICK d : d = redisPositions[c] OBVIOUS
  <2>6. PICK g : g = pgPositions[c] OBVIOUS
  <2>7. Replayable(b, c)' /\ Replayable(d, c)' /\ Replayable(g, c)'
    BY <1>4, <2>3, <2>4, <2>5, <2>6
  <2>8. b = book'[c] /\ d = redisPositions'[c] /\ g = pgPositions'[c]
    BY <1>3, <2>4, <2>5, <2>6
  <2>9. Written(p)'
    BY <1>6 DEF Written, Writing
  <2> QED BY <1>1, <1>2, <1>3, <2>7, <2>8, <2>9, TaskBooks
<1>9. CASE /\ task[p].pc = "final" /\ task[p].out \in Accepted
           /\ status' = [status EXCEPT ![n] = task[p].out]
  <2>1. /\ status[n] \in Recorded
        /\ Current(book[c], c) /\ Current(redisPositions[c], c) /\ Current(pgPositions[c], c)
    BY <1>1, <1>2, <1>4, <1>9 DEF Written, Writing
  <2>2. SameRows(c)
    BY <1>3, <1>4, <1>5, <1>9, <2>1 DEF SameRows, Taken
  <2>4. PICK b : b = book[c] OBVIOUS
  <2>5. PICK d : d = redisPositions[c] OBVIOUS
  <2>6. PICK g : g = pgPositions[c] OBVIOUS
  <2>7. Current(b, c)' /\ Current(d, c)' /\ Current(g, c)'
    BY <2>1, <2>2, <2>4, <2>5, <2>6, CurrentKept
  <2>8. b = book'[c] /\ d = redisPositions'[c] /\ g = pgPositions'[c]
    BY <1>3, <2>4, <2>5, <2>6
  <2>9. Written(p)'
    BY <1>6 DEF Written, Writing
  <2>10. Replayable(b, c)' /\ Replayable(d, c)' /\ Replayable(g, c)'
    BY <2>7 DEF Replayable
  <2> QED BY <1>1, <1>2, <1>3, <2>8, <2>9, <2>10, TaskBooks
<1> QED BY <1>3, <1>7, <1>8, <1>9

\* A new row is accepted by nobody yet, and no store has a trace of its cycle.
LEMMA IntentBooks ==
    ASSUME IInv, OneInv, BookInv, NEW p \in Pairs, NEW action \in Actions, NEW c \in Ids,
           EmitIntent(p, action, c)
    PROVE  Stores' /\ \A q \in Pairs : Written(q)'
<1>1. PICK n \in Ids : n = nextId
  BY DEF EmitIntent
<1>2. /\ command' = [command EXCEPT ![n] = [pair |-> p, action |-> action, cycle |-> c]]
      /\ UNCHANGED <<status, pgPositions, redisPositions, book, slots>> /\ status[n] = "none"
      /\ p \in slots /\ task'[p].pc = "stage" /\ \A q \in Pairs \ {p} : task'[q] = task[q]
      /\ command[n] = NoCommand /\ SoundBefore
  BY <1>1, IntentFinds
<1>3. /\ command'[n] = [pair |-> p, action |-> action, cycle |-> c]
      /\ \A i \in Ids \ {n} : command'[i] = command[i]
      /\ ~Taken(n) /\ \A i \in Ids : Taken(i)' <=> Taken(i)
  BY <1>2 DEF IInv, TypeOK, Taken, Accepted, Recorded
<1>4. ASSUME NEW d \in Ids PROVE RowsKept(d)
  BY <1>2, <1>3 DEF RowsKept, SameRows, Recorded
<1>5. ASSUME NEW d \in Ids, NEW pos, Replayable(pos, d) PROVE Replayable(pos, d)'
  BY <1>4, <1>5, ReplayableKept
<1>6. /\ Stores /\ Untraced(n)
      /\ \A d \in Ids \ {n} : PairOf(d)' = PairOf(d) /\ (Whole(d)' => Whole(d))
  BY <1>1, <1>2, <1>3 DEF BookInv, Cycles, Ids, PairOf, Whole, SoundBefore
<1>7. Replayable(NoPosition, n)
  <2>1. n \notin RowsOf(n)
    BY <1>3 DEF RowsOf
  <2> QED BY <2>1 DEF Replayable, Current, Pos
<1>8. ASSUME NEW d \in Ids, Whole(d)' PROVE Replayable(pgPositions[d], d)'
  <2>1. PICK pos : pos = pgPositions[d] OBVIOUS
  <2>2. Replayable(pos, d)
    BY <1>6, <1>7, <1>8, <2>1 DEF Stores, PostgresHolds, Untraced
  <2>3. Replayable(pos, d)' /\ pos = pgPositions'[d]
    BY <1>2, <1>5, <2>1, <2>2
  <2> QED BY <2>3 DEF Replayable, Current
<1>9. ASSUME NEW d \in Ids, Replayable(redisPositions[d], d) PROVE Replayable(redisPositions[d], d)'
  <2>1. PICK pos : pos = redisPositions[d] OBVIOUS
  <2>2. Replayable(pos, d)' /\ pos = redisPositions'[d]
    BY <1>2, <1>5, <1>9, <2>1
  <2> QED BY <2>2 DEF Replayable, Current
<1>10. ASSUME NEW d \in Ids, Replayable(book[d], d) PROVE Replayable(book[d], d)'
  <2>1. PICK pos : pos = book[d] OBVIOUS
  <2>2. Replayable(pos, d)' /\ pos = book'[d]
    BY <1>2, <1>5, <1>10, <2>1
  <2> QED BY <2>2 DEF Replayable, Current
<1>11. /\ CyclesOf(p)' = CyclesOf(p) \cup {n}
       /\ \A q \in Pairs \ {p} : CyclesOf(q)' = CyclesOf(q)
  <2>1. \A q \in Pairs : n \notin CyclesOf(q)
    BY <1>2, PairAssumption DEF CyclesOf, PairOf, NoCommand
  <2>2. PairOf(n)' = p /\ \A i \in Ids \ {n} : PairOf(i)' = PairOf(i)
    BY <1>3 DEF PairOf
  <2>3. ASSUME NEW q \in Pairs PROVE CyclesOf(q)' = {d \in Ids : PairOf(d)' = q}
    BY DEF CyclesOf
  <2> QED BY <2>1, <2>2, <2>3 DEF CyclesOf
<1>12. PostgresHolds'
  BY <1>8 DEF PostgresHolds
<1>13. ASSUME NEW q \in Pairs, Sound(q)'
       PROVE  (RedisHolds(q) \/ (q \notin slots /\ RedisEmpty(q)))'
  <2>0. RedisHolds(q) \/ (q \notin slots /\ RedisEmpty(q))
    BY <1>2, <1>6, <1>13 DEF Stores, SoundBefore
  <2>1. CASE q = p
    <3>1. RedisHolds(p)
      BY <1>2, <2>0, <2>1
    <3>2. \A d \in CyclesOf(p) \cup {n} : d \in Ids /\ Replayable(redisPositions[d], d)
      BY <1>6, <1>7, <3>1 DEF RedisHolds, CyclesOf, Untraced
    <3>3. \A d \in CyclesOf(p)' : Replayable(redisPositions[d], d)'
      BY <1>9, <1>11, <3>2
    <3> QED BY <2>1, <3>3 DEF RedisHolds
  <2>2. CASE q # p
    <3>1. CASE RedisHolds(q)
      <4>1. \A d \in CyclesOf(q)' : Replayable(redisPositions[d], d)'
        BY <1>9, <1>11, <2>2, <3>1 DEF RedisHolds, CyclesOf
      <4> QED BY <4>1 DEF RedisHolds
    <3>2. CASE q \notin slots /\ RedisEmpty(q)
      BY <1>2, <1>11, <2>2, <3>2 DEF RedisEmpty
    <3> QED BY <2>0, <3>1, <3>2
  <2> QED BY <2>1, <2>2
<1>14. ASSUME NEW d \in Ids, Whole(d)', PairOf(d)' \in slots PROVE Replayable(book[d], d)'
  <2>1. CASE d = n
    BY <1>6, <1>7, <1>10, <2>1 DEF Untraced
  <2>2. CASE d # n
    BY <1>6, <1>10, <1>14, <2>2 DEF Stores
  <2> QED BY <2>1, <2>2
<1>15. Stores'
  <2>1. slots' = slots
    BY <1>2
  <2> QED BY <1>12, <1>13, <1>14, <2>1 DEF Stores
<1>16. ASSUME NEW q \in Pairs PROVE Written(q)'
  <2>1. CASE q = p
    BY <1>2, <2>1 DEF Written, Writing
  <2>2. CASE q # p /\ ~(Sound(q)' /\ Writing(task[q]))
    BY <1>2, <2>2 DEF Written
  <2>3. CASE q # p /\ Sound(q)' /\ Writing(task[q])
    <3>1. Written(q) /\ TaskMatchesRow(q) /\ task'[q] = task[q] /\ Sound(q)
      BY <1>2, <2>3 DEF BookInv, Writing, IInv, Phases, SoundBefore
    <3>2. PICK m \in Ids : m = task[q].id
      BY <3>1 DEF TaskMatchesRow
    <3>3. PICK d \in Ids : d = command[m].cycle
      BY <3>1, <3>2 DEF TaskMatchesRow, BookInv, Cycles
    <3>4. m # n
      BY <1>2, <2>3, <3>1, <3>2 DEF Written, Recorded
    <3>5. PICK b : b = book[d] OBVIOUS
    <3>6. PICK r : r = redisPositions[d] OBVIOUS
    <3>7. PICK g : g = pgPositions[d] OBVIOUS
    <3>8. ASSUME NEW pos, Current(pos, d) PROVE Current(pos, d)'
      BY <1>4, <3>8, CurrentKept DEF RowsKept
    <3>9. /\ status[m] \in Recorded /\ Current(b, d)
          /\ task[q].pc # "redis" => Current(r, d)
          /\ task[q].pc = "final" => Current(g, d)
      BY <2>3, <3>1, <3>2, <3>3, <3>5, <3>6, <3>7 DEF Written
    <3>10. /\ status'[m] \in Recorded /\ Current(b, d)'
           /\ task[q].pc # "redis" => Current(r, d)'
           /\ task[q].pc = "final" => Current(g, d)'
      BY <1>2, <3>8, <3>9
    <3>11. /\ b = book'[d] /\ r = redisPositions'[d] /\ g = pgPositions'[d]
           /\ command'[m] = command[m]
      BY <1>2, <1>3, <3>4, <3>5, <3>6, <3>7
    <3> QED BY <3>1, <3>2, <3>3, <3>10, <3>11 DEF Written, Current
  <2> QED BY <2>1, <2>2, <2>3
<1> QED BY <1>15, <1>16

\* What a start restores for a pair: the cache where it has the pair, which then
\* holds all of its cycles, and the table otherwise.
LEMMA RestoredReplays ==
    ASSUME BookInv, NEW p \in Pairs, Sound(p), NEW c \in CyclesOf(p),
           NEW pos, pos = RestoredFrom(p)[c]
    PROVE  Replayable(pos, c)
<1>1. /\ c \in Ids /\ PostgresHolds /\ Whole(c)
      /\ RedisHolds(p) \/ RedisEmpty(p)
  BY DEF BookInv, Stores, CyclesOf, Whole
<1>2. CASE \E d \in CyclesOf(p) : redisPositions[d] # NoPosition
  <2>1. RedisHolds(p) /\ pos = redisPositions[c]
    BY <1>1, <1>2 DEF RedisEmpty, RestoredFrom
  <2> QED BY <2>1 DEF RedisHolds
<1>3. CASE ~(\E d \in CyclesOf(p) : redisPositions[d] # NoPosition)
  BY <1>1, <1>3 DEF RestoredFrom, PostgresHolds
<1> QED BY <1>2, <1>3

\* A start, the end of a process and a flush of the cache write a store each, and
\* nobody is at work when they do.
LEMMA RestartBooks ==
    ASSUME IInv, BookInv, Boot \/ Crash \/ RedisFlushed
    PROVE  Stores' /\ \A q \in Pairs : Written(q)'
<1> USE DEF durable, cache, life, doubt, memory, broker, clock, history
<1>1. UNCHANGED <<status, command, pgPositions>>
  BY DEF Boot, Crash, RedisFlushed
<1>2. \A c \in Ids : RowsKept(c)
  BY <1>1 DEF RowsKept, SameRows, Taken
<1>3. ASSUME NEW c \in Ids, NEW pos, Replayable(pos, c) PROVE Replayable(pos, c)'
  BY <1>2, <1>3, ReplayableKept
<1>4. /\ Stores /\ \A p \in Pairs : CyclesOf(p)' = CyclesOf(p) /\ (Sound(p)' <=> Sound(p))
      /\ \A c \in Ids : PairOf(c)' = PairOf(c) /\ (Whole(c)' <=> Whole(c))
  BY <1>1 DEF BookInv, CyclesOf, PairOf, Whole, Sound, Boot, Crash, RedisFlushed
<1>5. ASSUME NEW c \in Ids, Whole(c) PROVE Replayable(pgPositions[c], c)'
  <2>1. PICK pos : pos = pgPositions[c] OBVIOUS
  <2>2. Replayable(pos, c)
    BY <1>4, <1>5, <2>1 DEF Stores, PostgresHolds
  <2>3. Replayable(pos, c)' /\ pos = pgPositions'[c]
    BY <1>1, <1>3, <2>1, <2>2
  <2> QED BY <2>3 DEF Replayable, Current
<1>6. ASSUME NEW c \in Ids, Replayable(redisPositions[c], c), redisPositions'[c] = redisPositions[c]
      PROVE  Replayable(redisPositions[c], c)'
  <2>1. PICK pos : pos = redisPositions[c] OBVIOUS
  <2>2. Replayable(pos, c)' /\ pos = redisPositions'[c]
    BY <1>3, <1>6, <2>1
  <2> QED BY <2>2 DEF Replayable, Current
<1>7. \A q \in Pairs : Written(q)'
  <2>1. \A q \in Pairs : task'[q].pc = "idle"
    BY DEF Boot, Crash, RedisFlushed, BookInv, Running, IdleTask
  <2> QED BY <2>1 DEF Written, Writing
<1>8. (mode = "down" => slots = {}) /\ slots \subseteq Pairs
  BY DEF BookInv, Running, IInv, TypeOK
<1>9. CASE Boot
  <2>1. /\ slots = {} /\ slots' \in SlotChoices
        /\ book' = [c \in Ids |-> IF PairOf(c) \in slots'
                                  THEN RestoredFrom(PairOf(c))[c] ELSE NoPosition]
        /\ redisPositions' = [c \in Ids |-> IF PairOf(c) \in slots' THEN book'[c]
                                            ELSE redisPositions[c]]
    BY <1>8, <1>9 DEF Boot
  <2>2. slots' \subseteq Pairs
    BY <2>1, PairAssumption
  <2>3. ASSUME NEW c \in Ids, Whole(c), PairOf(c) \in slots'
        PROVE  Replayable(book[c], c)' /\ Replayable(redisPositions[c], c)'
    <3>1. PICK p \in Pairs : p = PairOf(c) /\ Sound(p)
      BY <2>3 DEF Whole
    <3>2. PICK pos : pos = RestoredFrom(p)[c]
      OBVIOUS
    <3>3. Replayable(pos, c)
      BY <3>1, <3>2, RestoredReplays DEF CyclesOf
    <3>4. Replayable(pos, c)' /\ pos = book'[c] /\ pos = redisPositions'[c]
      BY <1>3, <2>1, <2>3, <3>1, <3>2, <3>3
    <3> QED BY <3>4 DEF Replayable, Current
  <2>4. ASSUME NEW q \in Pairs, Sound(q)
        PROVE  (RedisHolds(q) \/ (q \notin slots /\ RedisEmpty(q)))'
    <3>1. CASE q \in slots'
      <4>1. \A c \in CyclesOf(q)' : c \in Ids /\ Whole(c) /\ PairOf(c) \in slots'
        BY <1>4, <2>4, <3>1 DEF CyclesOf, Whole
      <4> QED BY <2>3, <4>1 DEF RedisHolds
    <3>2. CASE q \notin slots'
      <4>1. \A c \in CyclesOf(q) : c \in Ids /\ redisPositions'[c] = redisPositions[c]
        BY <2>1, <3>2 DEF CyclesOf
      <4>2. CASE RedisHolds(q)
        BY <1>4, <1>6, <4>1, <4>2 DEF RedisHolds
      <4>3. CASE RedisEmpty(q)
        BY <1>4, <3>2, <4>1, <4>3 DEF RedisEmpty
      <4> QED BY <1>4, <2>4, <4>2, <4>3 DEF Stores
    <3> QED BY <3>1, <3>2
  <2>5. PostgresHolds'
    BY <1>4, <1>5 DEF PostgresHolds
  <2>6. (\A c \in Ids : Whole(c) /\ PairOf(c) \in slots => Replayable(book[c], c))'
    BY <1>4, <2>3
  <2> QED BY <1>4, <1>7, <2>4, <2>5, <2>6 DEF Stores
<1>10. CASE Crash \/ RedisFlushed
  <2>1. slots' = {}
    BY <1>8, <1>10 DEF Crash, RedisFlushed
  <2>2. ASSUME NEW q \in Pairs, Sound(q)
        PROVE  (RedisHolds(q) \/ (q \notin slots /\ RedisEmpty(q)))'
    <3>1. CASE Crash
      <4>1. redisPositions' = redisPositions
        BY <3>1 DEF Crash
      <4>2. CASE RedisHolds(q)
        BY <1>4, <1>6, <4>1, <4>2 DEF RedisHolds, CyclesOf
      <4>3. CASE RedisEmpty(q)
        BY <1>4, <2>1, <4>1, <4>3 DEF RedisEmpty
      <4> QED BY <1>4, <2>2, <4>2, <4>3 DEF Stores
    <3>2. CASE RedisFlushed
      BY <2>1, <3>2 DEF RedisFlushed, RedisEmpty, EmptyBook, CyclesOf
    <3> QED BY <1>10, <3>1, <3>2
  <2>3. PostgresHolds'
    BY <1>4, <1>5 DEF PostgresHolds
  <2> QED BY <1>4, <1>7, <2>1, <2>2, <2>3 DEF Stores
<1> QED BY <1>9, <1>10

\* A cache that was seeded in part is empty for the pair, or holds all of its
\* cycles, unless the pair counts as seeded in part.
LEMMA BootCutBooks ==
    ASSUME IInv, BookInv, NEW p \in Pairs, BootCut(p)
    PROVE  Stores' /\ \A q \in Pairs : Written(q)'
<1> USE DEF durable, cache, life, doubt, memory, broker, clock, history
<1>1. UNCHANGED <<status, command, pgPositions, book, slots, task, mode, overtaken>>
  BY DEF BootCut
<1>2. /\ mode = "down" /\ slots = {} /\ Stores
      /\ \A q \in Pairs : CyclesOf(q)' = CyclesOf(q) /\ task[q].pc = "idle"
      /\ \A c \in Ids : PairOf(c)' = PairOf(c)
  BY <1>1 DEF BootCut, BookInv, Running, CyclesOf, PairOf
<1>3. PICK seeded \in SUBSET CyclesOf(p) :
         /\ redisPositions' = [c \in Ids |-> IF c \in seeded THEN pgPositions[c]
                                            ELSE redisPositions[c]]
         /\ halfSeeded' = IF /\ \E c \in seeded : pgPositions[c] # NoPosition
                             /\ \E c \in CyclesOf(p) \ seeded : pgPositions[c] # NoPosition
                          THEN halfSeeded \cup {p} ELSE halfSeeded
  BY DEF BootCut
<1>4. SoundBefore
  BY <1>1, <1>2, <1>3, SoundKept DEF IInv, TypeOK
<1>5. \A c \in Ids : RowsKept(c) /\ (Whole(c)' => Whole(c))
  BY <1>1, <1>2, <1>4 DEF RowsKept, SameRows, Taken, SoundBefore, Whole
<1>6. ASSUME NEW c \in Ids, NEW pos, Replayable(pos, c) PROVE Replayable(pos, c)'
  BY <1>5, <1>6, ReplayableKept
<1>7. ASSUME NEW c \in Ids, Whole(c)' PROVE Replayable(pgPositions[c], c)'
  <2>1. PICK pos : pos = pgPositions[c] OBVIOUS
  <2>2. Replayable(pos, c)
    BY <1>2, <1>5, <1>7, <2>1 DEF Stores, PostgresHolds
  <2>3. Replayable(pos, c)' /\ pos = pgPositions'[c]
    BY <1>1, <1>6, <2>1, <2>2
  <2> QED BY <2>3 DEF Replayable, Current
<1>8. ASSUME NEW c \in Ids, Replayable(redisPositions[c], c), redisPositions'[c] = redisPositions[c]
      PROVE  Replayable(redisPositions[c], c)'
  <2>1. PICK pos : pos = redisPositions[c] OBVIOUS
  <2>2. Replayable(pos, c)' /\ pos = redisPositions'[c]
    BY <1>6, <1>8, <2>1
  <2> QED BY <2>2 DEF Replayable, Current
<1>9. ASSUME NEW q \in Pairs, Sound(q)' PROVE (RedisHolds(q) \/ (q \notin slots /\ RedisEmpty(q)))'
  <2>1. CASE q # p
    <3>1. \A c \in CyclesOf(q) : c \in Ids /\ c \notin seeded /\ redisPositions'[c] = redisPositions[c]
      BY <1>3, <2>1 DEF CyclesOf
    <3>2. CASE RedisHolds(q)
      BY <1>2, <1>8, <3>1, <3>2 DEF RedisHolds
    <3>3. CASE RedisEmpty(q)
      BY <1>1, <1>2, <3>1, <3>3 DEF RedisEmpty
    <3> QED BY <1>2, <1>4, <1>9, <3>2, <3>3 DEF Stores, SoundBefore
  <2>2. CASE q = p
    <3>1. /\ p \notin halfSeeded' /\ \A c \in CyclesOf(p) : redisPositions[c] = NoPosition
      BY <1>9, <2>2 DEF Sound, BootCut
    <3>2. CASE \A c \in seeded : pgPositions[c] = NoPosition
      <4>1. \A c \in CyclesOf(p) : redisPositions'[c] = NoPosition
        BY <1>3, <3>1, <3>2 DEF CyclesOf
      <4> QED BY <1>1, <1>2, <2>2, <4>1 DEF RedisEmpty
    <3>3. CASE \A c \in CyclesOf(p) \ seeded : pgPositions[c] = NoPosition
      <4>1. ASSUME NEW c \in CyclesOf(p) PROVE Replayable(redisPositions[c], c)'
        <5>1. c \in Ids /\ redisPositions'[c] = pgPositions'[c] /\ Whole(c)'
          BY <1>1, <1>2, <1>3, <1>9, <2>2, <3>1, <3>3 DEF CyclesOf, Whole
        <5> QED BY <1>7, <5>1 DEF Replayable, Current
      <4> QED BY <1>2, <2>2, <4>1 DEF RedisHolds
    <3> QED BY <1>3, <3>1, <3>2, <3>3
  <2> QED BY <2>1, <2>2
<1>10. PostgresHolds'
  BY <1>7 DEF PostgresHolds
<1>11. Stores'
  BY <1>1, <1>2, <1>9, <1>10 DEF Stores
<1>12. \A q \in Pairs : Written(q)'
  BY <1>1, <1>2 DEF Written, Writing
<1> QED BY <1>11, <1>12

\* The scan takes over no row whose stores are being written, and nobody else's
\* step touches the stores of a process that runs.
LEMMA ElsewhereBooks ==
    ASSUME IInv, OneInv, BookInv, Elsewhere, SoundBefore
    PROVE  Stores' /\ \A q \in Pairs : Written(q)'
<1> USE DEF durable, cache, life, doubt, memory, broker, clock, history
<1>1. CASE Boot \/ Crash \/ RedisFlushed
  BY <1>1, RestartBooks
<1>3. ASSUME NEW p \in Pairs, BootCut(p) PROVE Stores' /\ \A q \in Pairs : Written(q)'
  BY <1>3, BootCutBooks
<1>2. CASE ~(Boot \/ Crash \/ RedisFlushed \/ \E p \in Pairs : BootCut(p))
  <2>1. UNCHANGED <<status, command, pgPositions>>
    BY ElsewhereKeepsRows
  <2>2. UNCHANGED <<redisPositions, book, slots>>
    BY <1>2 DEF Elsewhere, Scanning, ScanStart, ScanQuery, ScanVisit, ScanLock, ScanSkip, ScanEnd,
       ScanQueryFailed, SetShadow, Broker, BrokerTakes, BrokerRefuses, NetworkLoses,
       Tick, vars
  <2>3. \A c \in Ids : RowsKept(c)
    BY <2>1 DEF RowsKept, SameRows, Taken
  <2>4. ASSUME NEW q \in Pairs, Writing(task'[q]) PROVE task'[q] = task[q]
    <3>1. CASE ScanLock
      <4>1. task' = [task EXCEPT ![PairOf(scan.row)] = RecoveryTask(scan.row)]
        BY <3>1 DEF ScanLock
      <4>2. ~Writing(RecoveryTask(scan.row))
        BY DEF Writing, RecoveryTask, Accepted
      <4> QED BY <2>4, <4>1, <4>2 DEF IInv, TypeOK
    <3>2. CASE ~ScanLock
      BY <1>2, <3>2 DEF Elsewhere, Scanning, ScanStart, ScanQuery, ScanVisit, ScanSkip, ScanEnd,
         ScanQueryFailed, SetShadow, Broker, BrokerTakes, BrokerRefuses, NetworkLoses,
         Tick, vars
    <3> QED BY <3>1, <3>2
  <2> QED BY <2>1, <2>2, <2>3, <2>4, BooksKept
<1> QED BY <1>1, <1>2, <1>3

-----------------------------------------------------------------------------
(* The books.                                                              *)

LEMMA InitBooks == Init => BookInv
<1> SUFFICES ASSUME Init PROVE BookInv
  OBVIOUS
<1> USE DEF Init
<1>1. \A c \in Ids : RowsOf(c) = {}
  BY DEF RowsOf, Taken, Accepted, Recorded
<1>2. \A c \in Ids : Replayable(NoPosition, c)
  BY <1>1 DEF Replayable, Current, Pos
<1>3. \A c \in Ids : redisPositions[c] = NoPosition /\ pgPositions[c] = NoPosition
  BY DEF EmptyBook
<1>4. Stores
  BY <1>2, <1>3 DEF Stores, PostgresHolds, RedisHolds, CyclesOf
<1>5. Cycles
  <2>1. nextId = 1 /\ \A i \in Ids : command[i] = NoCommand /\ book[i] = NoPosition /\ ~(i < 1)
    BY DEF EmptyBook, Ids
  <2> QED BY <1>3, <2>1 DEF Cycles, Untraced
<1>7. EntryFirst
  BY DEF EntryFirst, Ids
<1>6. Running /\ Acked /\ \A p \in Pairs : Written(p)
  <2>1. \A p \in Pairs : task[p].pc = "idle"
    BY DEF IdleTask
  <2>2. \A i \in Ids : reply[i] = "none" /\ pending[i] = "none" /\ status[i] = "none"
    OBVIOUS
  <2> QED BY <2>1, <2>2 DEF Running, Acked, Written, Writing, IdleScan
<1> QED BY <1>4, <1>5, <1>6, <1>7 DEF BookInv

LEMMA BookStep ==
    ASSUME IInv, Horizon, OneInv, BookInv, [Next]_vars
    PROVE  BookInv'
<1>1. Cycles' /\ EntryFirst' /\ Running' /\ Acked' /\ SoundBefore
  BY CyclesStep, EntryFirstStep, RunningStep, AckedStep, StepKeepsSound
<1>2. ASSUME NEW p \in Pairs, NEW action \in Actions, NEW c \in Ids, EmitIntent(p, action, c)
      PROVE  Stores' /\ \A q \in Pairs : Written(q)'
  BY <1>2, IntentBooks
<1>3. ASSUME NEW p \in Pairs, Progress(p) \/ Fault(p)
      PROVE  Stores' /\ \A q \in Pairs : Written(q)'
  <2>1. CASE Sound(p)
    BY <1>3, <2>1, BeforeBooks, CheckpointBooks, TrackBooks, EndBooks DEF Progress, Fault
  <2>2. CASE ~Sound(p)
    BY <1>1, <1>3, <2>2, OthersBooks DEF SoundBefore
  <2> QED BY <2>1, <2>2
<1>4. ASSUME Elsewhere PROVE Stores' /\ \A q \in Pairs : Written(q)'
  BY <1>1, <1>4, ElsewhereBooks
<1>5. Stores' /\ \A q \in Pairs : Written(q)'
  BY <1>2, <1>3, <1>4, StepCases
<1> QED BY <1>1, <1>5 DEF BookInv

\* With no unfinished row left, the accepted rows of a cycle are what happened
\* to it: a refused command was not executed.
LEMMA Settled ==
    ASSUME IInv, BookInv, FailedMeansNotExecuted, NEW c \in Ids,
           \A i \in Ids : PairOf(i) = PairOf(c) => ~Outstanding(i),
           NEW pos, Replayable(pos, c)
    PROVE  pos = BrokerPosition(c)
<1>1. ASSUME NEW i \in Ids, command[i].cycle = c PROVE Taken(i) <=> Happened(i)
  <2>1. PairOf(i) = PairOf(c)
    BY <1>1, RowPairs DEF BookInv
  <2>2. /\ status[i] \in {"none"} \cup Final /\ executed[i] \in Nat
    BY <2>1 DEF IInv, TypeOK, Outstanding
  <2>3. status[i] \in {"none", "failed"} => executed[i] = 0
    BY DEF IInv, PreparedNeverSent, FailedMeansNotExecuted
  <2>4. status[i] = "sent" => executed[i] > 0
    BY DEF BookInv, Acked
  <2> QED BY <2>2, <2>3, <2>4 DEF Taken, Happened, Accepted, Recorded, Final
<1>2. RowsOf(c) = {i \in Ids : command[i].cycle = c /\ Happened(i)}
  BY <1>1 DEF RowsOf
<1>3. Pos(RowsOf(c), c) = BrokerPosition(c)
  BY <1>2 DEF Pos, BrokerPosition, Tp1s
<1>4. \A o \in RowsOf(c) : status[o] \notin Recorded
  BY RowPairs DEF RowsOf, BookInv, Outstanding, Unfinished, Recorded
<1> QED BY <1>3, <1>4 DEF Replayable, Current

\* The books of a pair that may decide, and those a start would restore.
LEMMA TrueBooks ==
    ASSUME IInv, OneInv, BookInv, FailedMeansNotExecuted PROVE BooksAreTrue
<1>1. BookMatchesBroker
  <2> SUFFICES ASSUME NEW p \in slots, Sound(p), mode = "up", p \notin uncertain,
                      task[p].pc = "idle", NEW c \in CyclesOf(p)
               PROVE  book[c] = BrokerPosition(c)
    BY DEF BookMatchesBroker
  <2>1. c \in Ids /\ PairOf(c) = p /\ Whole(c)
    BY DEF CyclesOf, Whole, IInv, TypeOK
  <2>2. \A i \in Ids : PairOf(i) = PairOf(c) => ~Outstanding(i)
    BY <2>1 DEF OneInv, OpenIsBlocked, InSight, OpenRow, Outstanding, Sound
  <2>3. PICK pos : pos = book[c] OBVIOUS
  <2>4. Replayable(pos, c)
    BY <2>1, <2>3 DEF BookInv, Stores
  <2> QED BY <2>1, <2>2, <2>3, <2>4, Settled
<1>2. RestartForgetsNothing
  <2> SUFFICES ASSUME NEW p \in Pairs, Sound(p), \A i \in CyclesOf(p) : ~Outstanding(i),
                      NEW c \in CyclesOf(p)
               PROVE  RestoredFrom(p)[c] = BrokerPosition(c)
    BY DEF RestartForgetsNothing
  <2>1. c \in Ids /\ \A i \in Ids : PairOf(i) = PairOf(c) => ~Outstanding(i)
    BY DEF CyclesOf
  <2>2. PICK pos : pos = RestoredFrom(p)[c] OBVIOUS
  <2>3. Replayable(pos, c)
    BY <2>2, RestoredReplays
  <2> QED BY <2>1, <2>2, <2>3, Settled
<1> QED BY <1>1, <1>2 DEF BooksAreTrue

\* "The position book matches the broker": whatever crashes, fails, is retried,
\* replayed or refused, a pair that may decide has exactly the position that the
\* executed commands of each cycle leave, and so has what _restore_position
\* brings back for a pair without unfinished rows, from the cache or, once the
\* cache was re-provisioned, from the table.  It may fail only for a pair of which
\* a running scan overlooked a row, or whose cache a start that died has seeded in
\* part.  The hypothesis is about the transport: an HTTP error hides an acceptance.
THEOREM TheBooksAreTrue ==
    ASSUME Transport = "nats"
    PROVE  Spec => []BooksAreTrue
<1>1. Init => OneInv /\ Horizon /\ BookInv
  <2>1. Init => OneInv
    BY DEF Init, OneInv, OneOpen, StagesAlone, ScanMissesNone, OpenIsBlocked, OpenRow,
           InSight, IdleTask, IdleScan, Unfinished
  <2> QED BY <2>1, InitHorizon, InitBooks
<1>2. IInv /\ OneInv /\ Horizon /\ BookInv /\ [Next]_vars => OneInv' /\ Horizon' /\ BookInv'
  BY StepOne, HorizonStep, BookStep
<1>3. IInv /\ OneInv /\ BookInv /\ FailedMeansNotExecuted => BooksAreTrue
  BY TrueBooks
<1> QED BY <1>1, <1>2, <1>3, Invariance, FailedIsUnexecuted, PTL DEF Spec
=============================================================================
