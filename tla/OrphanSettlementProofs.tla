------------------------ MODULE OrphanSettlementProofs ------------------------
(***************************************************************************)
(* Whatever the settlement and /flat do, and wherever they are cut off,    *)
(* the runner's table or an unfinished row names every cycle the broker    *)
(* holds; no cycle is settled twice; and the book of a pair that is driven *)
(* again matches the broker.                                               *)
(*                                                                         *)
(* Inv, for the first, says besides: the staged rows are numbered without  *)
(* gaps, only staged closes travel, the coroutine works on a row of its    *)
(* own cycle, it believes in an acceptance only if the broker acted, and   *)
(* the broker takes no entry that was never sent or was refused.           *)
(* DoubtInv, for the second: the coroutine works on cycles no slot drives, *)
(* every pair in doubt is blocked, and only /flat goes for a cycle whose   *)
(* entry is in doubt.  BookInv, for the third: Redis has all of a pair     *)
(* that is recorded or nothing, and a closed cycle has left stores and     *)
(* books.                                                                  *)
(***************************************************************************)
EXTENDS OrphanSettlement, FiniteSetTheorems, TLAPS

USE DEF entries

Gapless == \E n \in 0..MaxCommands : Staged = 1..n
OnlyStagedTravel == taken \subseteq Staged /\ net \subseteq Staged
RowsHaveCycles == \A k \in Staged : rows[k].cycle \in Cycles

OnRow == {"mark", "send", "sending", "checkpoint", "final", "decide", "redis", "table"}
WorkIsSound ==
    /\ work.pc \in OnRow => work.id \in Staged /\ rows[work.id].cycle = work.cycle
    /\ work.pc \in OnRow /\ work.out = "sent" => work.id \in taken
    /\ work.pc \in {"checkpoint", "redis", "table"} => work.out = "sent"
    /\ work.pc \notin OnRow => work.out = "none"
    /\ work.pc = "final" => work.out # "none"
    /\ work.pc = "stage" => work.cycle \in Cycles

SentSoFar == {"unknown", "sent_pending", "sent"}
EntriesAreSound == \A c \in opened : entry[c] \in SentSoFar

Inv == /\ TypeOK /\ Gapless /\ OnlyStagedTravel /\ RowsHaveCycles /\ WorkIsSound
       /\ NothingForgotten /\ EntriesAreSound

\* The next id is the number after the last staged row's.
LEMMA NextIdIsNext ==
    ASSUME NEW n \in 0..MaxCommands, Staged = 1..n
    PROVE  NextId = n + 1
<1>1. n \in Nat /\ MaxCommands \in Nat
    BY OrphanAssumption
<1>2. Cardinality(1..n) = n
    BY <1>1, FS_Interval
<1> QED BY <1>1, <1>2 DEF NextId

\* Staging a close keeps the rows before it and adds the next one.
LEMMA StagingAdds ==
    ASSUME Inv, NEW c \in Cycles, NEW s \in {"sent", "failed"} \cup Unfinished,
           NEW by \in {"none", "slot", "settle", "flat"}, NextId \in Ids,
           Stage(NextId, c, s, by)
    PROVE  /\ NextId \notin Staged
           /\ Staged' = Staged \cup {NextId}
           /\ rows' \in [Ids -> RowType]
           /\ rows'[NextId].cycle = c
           /\ rows'[NextId] = [cycle |-> c, status |-> s, by |-> by]
           /\ \A k \in Ids \ {NextId} : rows'[k] = rows[k]
           /\ \A k \in Staged : rows'[k] = rows[k]
           /\ Gapless'
           /\ RowsHaveCycles'
<1>1. PICK n \in 0..MaxCommands : Staged = 1..n
    BY DEF Inv, Gapless
<1>2. NextId = n + 1
    BY <1>1, NextIdIsNext
<1>3. MaxCommands \in Nat /\ n \in Nat /\ n + 1 <= MaxCommands
    BY <1>2, OrphanAssumption DEF Ids
<1>4. rows \in [Ids -> RowType]
    BY DEF Inv, TypeOK
<1>5. NextId \notin Staged
    BY <1>1, <1>2, <1>3
<1>6. rows' = [rows EXCEPT ![NextId] = [cycle |-> c, status |-> s, by |-> by]]
    BY DEF Stage
<1>7. s # "none"
    BY DEF Unfinished
<1>8. Staged' = Staged \cup {NextId}
    BY <1>4, <1>6, <1>7 DEF Staged
<1>9. 1..(n + 1) = (1..n) \cup {n + 1} /\ n + 1 \in 0..MaxCommands
    BY <1>3
<1>10. Gapless'
    BY <1>1, <1>2, <1>8, <1>9 DEF Gapless
<1>11. /\ rows' \in [Ids -> RowType] /\ rows'[NextId].cycle = c
       /\ rows'[NextId] = [cycle |-> c, status |-> s, by |-> by]
       /\ \A k \in Ids \ {NextId} : rows'[k] = rows[k]
    BY <1>4, <1>6 DEF RowType
<1>12. \A k \in Staged : rows'[k] = rows[k]
    BY <1>4, <1>5, <1>6 DEF Staged
<1>13. RowsHaveCycles'
    BY <1>8, <1>11, <1>12 DEF Inv, RowsHaveCycles
<1> QED BY <1>5, <1>8, <1>10, <1>11, <1>12, <1>13

\* A step that only moves statuses of staged rows keeps what the rows are about.
LEMMA StatusMoves ==
    ASSUME Inv, NEW k \in Staged, NEW s \in {"sent", "failed"} \cup Unfinished,
           rows' = [rows EXCEPT ![k].status = s]
    PROVE  /\ Staged' = Staged
           /\ rows' \in [Ids -> RowType]
           /\ \A j \in Ids : rows'[j].cycle = rows[j].cycle
           /\ rows'[k].status = s /\ rows'[k].by = rows[k].by
           /\ \A j \in Ids \ {k} : rows'[j] = rows[j]
<1>1. rows \in [Ids -> RowType] /\ k \in Ids
    BY DEF Inv, TypeOK, Staged
<1>2. s # "none"
    BY DEF Unfinished
<1>3. rows' \in [Ids -> RowType]
    BY <1>1 DEF RowType
<1>4. \A j \in Ids : rows'[j].cycle = rows[j].cycle
    BY <1>1 DEF RowType
<1>5. /\ \A j \in Ids : rows'[j].status = IF j = k THEN s ELSE rows[j].status
      /\ rows'[k].by = rows[k].by /\ \A j \in Ids \ {k} : rows'[j] = rows[j]
    BY <1>1 DEF RowType
<1> QED BY <1>2, <1>3, <1>4, <1>5 DEF Staged

LEMMA InitInv == Init => Inv
<1> SUFFICES ASSUME Init PROVE Inv
    OBVIOUS
<1>1. Staged = {} /\ 1..0 = {} /\ 0 \in 0..MaxCommands
    BY OrphanAssumption DEF Init, Staged, NoRow
<1>2. rows \in [Ids -> RowType]
    BY DEF Init, RowType, NoRow, NoId, Ids
<1>3. work \in WorkType
    BY DEF Init, IdleWork, WorkType, NoId
<1>4. TypeOK
    BY <1>2, <1>3 DEF Init, TypeOK
<1>5. Gapless /\ OnlyStagedTravel /\ RowsHaveCycles
    BY <1>1 DEF Init, Gapless, OnlyStagedTravel, RowsHaveCycles
<1>6. WorkIsSound
    BY DEF Init, WorkIsSound, OnRow, IdleWork
<1>7. NothingForgotten /\ EntriesAreSound
    BY DEF Init, NothingForgotten, AtBroker, EntriesAreSound
<1> QED BY <1>4, <1>5, <1>6, <1>7 DEF Inv

\* What the broker holds, when neither the entries nor the rows of executed closes
\* change.
LEMMA BrokerKeeps ==
    ASSUME opened' = opened, taken \subseteq taken',
           \A k \in taken : rows'[k].cycle = rows[k].cycle
    PROVE  AtBroker' \subseteq AtBroker
BY DEF AtBroker, Closed

\* A step of the coroutine, or of its caller, that stages nothing, sends nothing and
\* clears nothing.
LEMMA QuietStep ==
    ASSUME Inv, UNCHANGED <<entry, opened, rows, taken, stored>>,
           net' \subseteq Staged, cached' \subseteq Cycles, book' \subseteq Cycles,
           mode' \in {"down", "recover", "settle", "up"},
           slots' \subseteq Pairs, uncertain' \subseteq Pairs, hasty' \subseteq Cycles, cut' \in BOOLEAN,
           declared' \subseteq SUBSET Pairs,
           work' \in WorkType, WorkIsSound'
    PROVE  Inv'
<1>1. Staged' = Staged /\ AtBroker' = AtBroker
    BY DEF Staged, AtBroker, Closed
<1>2. /\ Gapless' /\ OnlyStagedTravel' /\ RowsHaveCycles' /\ NothingForgotten'
      /\ EntriesAreSound'
    BY <1>1 DEF Inv, Gapless, OnlyStagedTravel, RowsHaveCycles, NothingForgotten, Entering,
        EntriesAreSound
<1>3. TypeOK'
    BY DEF Inv, TypeOK, Staged
<1> QED BY <1>2, <1>3 DEF Inv

\* The pairs of what is in doubt are pairs.
LEMMA RowsHavePairs ==
    ASSUME Inv
    PROVE  InDoubtPairs \subseteq Pairs
BY OrphanAssumption DEF Inv, RowsHaveCycles, InDoubt, Staged, Unfinished, RowPair,
   InDoubtPairs, Entering

\* What becomes of a cycle's entry: it moves on, and its cycle is taken in where it is
\* opened.
LEMMA EntriesMove ==
    ASSUME Inv, NEW c \in Cycles, SlotEnters(c) \/ ResolveEntry(c) \/ EntryTaken(c)
    PROVE  /\ UNCHANGED <<rows, taken, net, mode, slots, declared, work, hasty, cut>>
           /\ entry' \in [Cycles -> {"none", "sent", "failed"} \cup Unfinished]
           /\ \A e \in Cycles \ {c} : entry'[e] = entry[e]
           /\ opened' \in {opened, opened \cup {c}}
           /\ c \in opened' => entry'[c] \in SentSoFar
           /\ \/ UNCHANGED <<stored, cached, book>>
              \/ /\ c \in opened' /\ PairOf[c] \in slots /\ mode \in {"recover", "up"}
                 /\ stored' \in {stored, stored \cup {c}}
                 /\ cached' \in {cached, cached \cup {c}}
                 /\ book' \in {book, book \cup {c}}
           /\ entry'[c] = "sent" => c \in stored' /\ c \in cached' /\ c \in book'
           /\ c \in opened => c \in Entering
           /\ uncertain' \subseteq Pairs
<1>1. entry \in [Cycles -> {"none", "sent", "failed"} \cup Unfinished]
    BY DEF Inv, TypeOK
<1>2. \A e \in opened : entry[e] \in SentSoFar
    BY DEF Inv, EntriesAreSound
<1>3. PairOf[c] \in Pairs /\ uncertain \subseteq Pairs
    BY OrphanAssumption DEF Inv, TypeOK
<1>4. ASSUME NEW status \in {"sent", "failed"} \cup Unfinished, Enters(c, status)
      PROVE  /\ entry' \in [Cycles -> {"none", "sent", "failed"} \cup Unfinished]
             /\ \A e \in Cycles \ {c} : entry'[e] = entry[e]
             /\ entry'[c] = status
    BY <1>1, <1>4 DEF Enters
<1>5. CASE SlotEnters(c)
  <2>1. c \notin opened /\ mode = "up" /\ PairOf[c] \in slots
      BY <1>2, <1>5 DEF SlotEnters, SentSoFar
  <2>2. /\ UNCHANGED <<rows, taken, net, mode, slots, declared, work, hasty, cut>>
        /\ uncertain' \subseteq Pairs
      BY <1>3, <1>5 DEF SlotEnters, history
  <2>3. CASE /\ Enters(c, "sent")
             /\ opened' = opened \cup {c} /\ book' = book \cup {c}
             /\ stored' = stored \cup {c} /\ cached' = cached \cup {c}
      BY <1>4, <2>1, <2>2, <2>3 DEF SentSoFar
  <2>4. CASE /\ Enters(c, "prepared") \/ Enters(c, "unknown")
             /\ UNCHANGED <<opened, stores, book>>
      BY <1>4, <2>1, <2>2, <2>4 DEF SentSoFar, stores, Unfinished
  <2>5. CASE /\ Enters(c, "sent_pending")
             /\ opened' = opened \cup {c} /\ book' = book \cup {c}
             /\ cached' \in {cached, cached \cup {c}}
             /\ stored' \in {stored, stored \cup (cached' \cap {c})}
    <3>1. stored' \in {stored, stored \cup {c}}
        BY <2>5
    <3> QED BY <1>4, <2>1, <2>2, <2>5, <3>1 DEF SentSoFar, Unfinished
  <2> QED BY <1>5, <2>3, <2>4, <2>5 DEF SlotEnters
<1>6. CASE ResolveEntry(c)
  <2>1. c \in Entering /\ mode \in {"recover", "up"} /\ PairOf[c] \in slots
      BY <1>6 DEF ResolveEntry
  <2>2. /\ UNCHANGED <<rows, taken, net, mode, slots, declared, work, hasty, cut>>
        /\ uncertain' \subseteq Pairs
      BY <1>3, <1>6 DEF ResolveEntry, history
  <2>3. CASE /\ Enters(c, "sent")
             /\ opened' = opened \cup {c} /\ book' = book \cup {c}
             /\ stored' = stored \cup {c} /\ cached' = cached \cup {c}
      BY <1>4, <2>1, <2>2, <2>3 DEF SentSoFar
  <2>4. CASE /\ entry[c] = "prepared"
             /\ Enters(c, "unknown") \/ Enters(c, "failed")
             /\ UNCHANGED <<opened, stores, book>>
    <3>1. c \notin opened
        BY <1>2, <2>4 DEF SentSoFar
    <3> QED BY <1>4, <2>1, <2>2, <2>4, <3>1 DEF stores, Unfinished
  <2> QED BY <1>6, <2>3, <2>4 DEF ResolveEntry
<1>7. CASE EntryTaken(c)
  <2>1. c \in Entering /\ entry[c] \in SentSoFar /\ entry[c] # "sent"
      BY <1>7 DEF EntryTaken, Entering, Unfinished, SentSoFar
  <2> QED BY <1>1, <1>3, <1>7, <2>1 DEF EntryTaken, stores, runner, history
<1> QED BY <1>5, <1>6, <1>7

LEMMA EntriesKeep ==
    ASSUME Inv, NEW c \in Cycles, SlotEnters(c) \/ ResolveEntry(c) \/ EntryTaken(c)
    PROVE  Inv'
<1> USE DEF Inv
<1>1. /\ UNCHANGED <<rows, taken, net, mode, slots, declared, work, hasty, cut>>
      /\ entry' \in [Cycles -> {"none", "sent", "failed"} \cup Unfinished]
      /\ \A e \in Cycles \ {c} : entry'[e] = entry[e]
      /\ opened' \in {opened, opened \cup {c}}
      /\ c \in opened' => entry'[c] \in SentSoFar
      /\ stored' \in {stored, stored \cup {c}}
      /\ cached' \in {cached, cached \cup {c}}
      /\ book' \in {book, book \cup {c}}
      /\ entry'[c] = "sent" => c \in stored'
      /\ uncertain' \subseteq Pairs
    BY EntriesMove
<1>2. opened \subseteq Cycles
    BY DEF TypeOK
<1>3. EntriesAreSound'
    BY <1>1, <1>2 DEF EntriesAreSound
<1>4. AtBroker' \subseteq AtBroker \cup (opened' \cap {c})
    BY <1>1 DEF AtBroker, Closed
<1>5. NothingForgotten'
  <2> SUFFICES ASSUME NEW e \in AtBroker' PROVE e \in stored' \cup Entering'
      BY DEF NothingForgotten
  <2>1. CASE e = c
    <3>1. entry'[c] \in SentSoFar
        BY <1>1, <2>1 DEF AtBroker
    <3> QED BY <1>1, <2>1, <3>1 DEF Entering, SentSoFar, Unfinished
  <2>2. CASE e # c
    <3>1. e \in AtBroker /\ e \in Cycles
        BY <1>2, <1>4, <2>2 DEF AtBroker
    <3> QED BY <1>1, <2>2, <3>1 DEF NothingForgotten, Entering
  <2> QED BY <2>1, <2>2
<1>6. Gapless' /\ OnlyStagedTravel' /\ RowsHaveCycles' /\ WorkIsSound'
    BY <1>1 DEF Gapless, OnlyStagedTravel, RowsHaveCycles, WorkIsSound, Staged
<1>7. TypeOK'
    BY <1>1, <1>2 DEF TypeOK
<1> QED BY <1>3, <1>5, <1>6, <1>7

(***************************************************************************)
(* The steps.                                                              *)
(***************************************************************************)

LEMMA CallersKeep == Inv /\ Callers => Inv'
<1> SUFFICES ASSUME Inv, Callers PROVE Inv'
    OBVIOUS
<1> USE DEF Inv
<1>1. net \subseteq Staged /\ work \in WorkType
    BY DEF OnlyStagedTravel, TypeOK
<1>2. \A S \in SUBSET Cycles : \A b \in {"settle", "flat"} :
         LET w == [IdleWork EXCEPT !.pc = "next", !.by = b, !.todo = S] IN
         w \in WorkType /\ w.pc = "next" /\ w.out = "none"
    BY DEF IdleWork, WorkType, NoId
<1>3. Orphans \subseteq Cycles
    BY DEF Orphans, TypeOK
<1>4. ASSUME NEW d \in Deployments, Boot(d) PROVE Inv'
  <2>1. book' \subseteq Cycles /\ cached' \subseteq Cycles
      BY <1>4 DEF Boot, RestoredOf, TypeOK
  <2>2. slots' \subseteq Pairs /\ declared' \subseteq SUBSET Pairs
      BY <1>4, OrphanAssumption DEF Boot, TypeOK
  <2>3. WorkIsSound'
      BY <1>4 DEF Boot, WorkIsSound, Staged
  <2> QED BY <1>1, <1>4, <2>1, <2>2, <2>3, QuietStep DEF Boot, TypeOK, history
<1>5. ASSUME Recovered PROVE Inv'
  <2>1. work' \in WorkType /\ work'.pc = "next" /\ work'.out = "none"
    <3>1. PICK listed \in {Orphans, {}} :
             work' = [IdleWork EXCEPT !.pc = "next", !.by = "settle", !.todo = listed]
        BY <1>5 DEF Recovered
    <3>2. listed \in SUBSET Cycles
        BY <1>3
    <3> QED BY <1>2, <3>1, <3>2
  <2>2. WorkIsSound'
      BY <2>1 DEF WorkIsSound, OnRow
  <2> QED BY <1>1, <1>5, <2>1, <2>2, QuietStep, RowsHavePairs DEF Recovered, TypeOK, history, stores
<1>6. ASSUME NEW scope \in SUBSET Pairs, FlatOnRequest(scope) PROVE Inv'
  <2>1. work' \in WorkType /\ work'.pc = "next" /\ work'.out = "none"
    <3>1. PICK listed \in {{c \in Orphans : PairOf[c] \in scope}, {}} :
             work' = [IdleWork EXCEPT !.pc = "next", !.by = "flat", !.todo = listed]
        BY <1>6 DEF FlatOnRequest
    <3>2. listed \in SUBSET Cycles
        BY <1>3
    <3> QED BY <1>2, <3>1, <3>2
  <2>2. WorkIsSound'
      BY <2>1 DEF WorkIsSound, OnRow
  <2> QED BY <1>1, <1>6, <2>1, <2>2, QuietStep DEF FlatOnRequest, TypeOK, history, stores, runner
<1>7. ASSUME WorkDone PROVE Inv'
  <2>1. work' \in WorkType /\ WorkIsSound'
      BY <1>7 DEF WorkDone, WorkIsSound, OnRow, IdleWork, WorkType, NoId
  <2> QED BY <1>1, <1>7, <2>1, QuietStep DEF WorkDone, TypeOK, history, stores
<1>8. ASSUME NEW c \in Cycles, Leave(c) PROVE Inv'
  <2>1. work' \in WorkType /\ WorkIsSound'
      BY <1>1, <1>8 DEF Leave, WorkIsSound, OnRow, WorkType
  <2> QED BY <1>1, <1>8, <2>1, QuietStep DEF Leave, TypeOK, history, stores, runner
<1>9. ASSUME NEW c \in Cycles, Take(c) PROVE Inv'
  <2>1. work' \in WorkType /\ WorkIsSound'
      BY <1>1, <1>9 DEF Take, WorkIsSound, OnRow, WorkType
  <2>2. hasty' \subseteq Cycles /\ UNCHANGED cut
      BY <1>9 DEF Take, TypeOK
  <2> QED BY <1>1, <1>9, <2>1, <2>2, QuietStep DEF Take, TypeOK, stores, runner
<1> QED BY <1>4, <1>5, <1>6, <1>7, <1>8, <1>9 DEF Callers

\* Return gives up the row.
LEMMA ReturnIsIdle ==
    ASSUME Inv
    PROVE  Return \in WorkType /\ Return.pc = "next" /\ Return.out = "none"
BY DEF Inv, TypeOK, WorkType, Return, NoId

\* The coroutine's own marks move the status of its row only.
LEMMA MarkKeeps ==
    ASSUME Inv, NEW s \in {"sent", "failed"} \cup Unfinished,
           work.pc \in OnRow,
           rows' \in {rows, [rows EXCEPT ![work.id].status = s]},
           UNCHANGED <<entry, opened, taken, net, stores, runner, uncertain, hasty>>,
           cut' \in BOOLEAN, work' \in WorkType, WorkIsSound'
    PROVE  Inv'
<1> USE DEF Inv
<1>1. work.id \in Staged
    BY DEF WorkIsSound
<1>2. /\ Staged' = Staged
      /\ rows' \in [Ids -> RowType]
      /\ \A j \in Ids : rows'[j].cycle = rows[j].cycle
  <2>1. CASE rows' = rows
      BY <2>1 DEF Staged, TypeOK
  <2>2. CASE rows' = [rows EXCEPT ![work.id].status = s]
      BY <1>1, <2>2, StatusMoves
  <2> QED BY <2>1, <2>2
<1>3. taken \subseteq Ids
    BY DEF TypeOK
<1>4. AtBroker' \subseteq AtBroker
    BY <1>2, <1>3, BrokerKeeps
<1>5. TypeOK'
    BY <1>2 DEF TypeOK, stores, runner
<1>6. Gapless' /\ OnlyStagedTravel' /\ NothingForgotten' /\ EntriesAreSound'
    BY <1>2, <1>4 DEF Gapless, OnlyStagedTravel, NothingForgotten, Entering,
        EntriesAreSound, stores
<1>7. RowsHaveCycles'
    BY <1>2 DEF RowsHaveCycles, Staged
<1> QED BY <1>5, <1>6, <1>7

LEMMA FlattenKeeps == Inv /\ Flatten => Inv'
<1> SUFFICES ASSUME Inv, Flatten PROVE Inv'
    OBVIOUS
<1> USE DEF Inv
<1>1. net \subseteq Staged /\ work \in WorkType /\ taken \subseteq Ids
    BY DEF OnlyStagedTravel, TypeOK
<1>2. ASSUME StageCommit PROVE Inv'
  <2>1. work.cycle \in Cycles /\ work.by \in {"none", "settle", "flat"}
      BY <1>1, <1>2 DEF StageCommit, WorkIsSound, WorkType
  <2>2. Stage(NextId, work.cycle, "prepared", work.by) /\ NextId \in Ids
      BY <1>2 DEF StageCommit
  <2>3. /\ Staged' = Staged \cup {NextId} /\ NextId \notin Staged
        /\ rows' \in [Ids -> RowType] /\ rows'[NextId].cycle = work.cycle
        /\ \A k \in Staged : rows'[k] = rows[k]
        /\ Gapless' /\ RowsHaveCycles'
      BY <2>1, <2>2, StagingAdds DEF Unfinished
  <2>4. AtBroker' \subseteq AtBroker
      BY <1>2, <2>3, BrokerKeeps DEF StageCommit, OnlyStagedTravel
  <2>5. work' = [work EXCEPT !.pc = "mark", !.id = NextId]
      BY <1>2 DEF StageCommit
  <2>6. work' \in WorkType
      BY <1>1, <2>2, <2>5 DEF WorkType
  <2>7. WorkIsSound'
      BY <1>1, <1>2, <2>3, <2>5 DEF StageCommit, WorkIsSound, OnRow, WorkType
  <2>8. TypeOK'
      BY <1>2, <2>3, <2>6 DEF TypeOK, history, StageCommit, stores, runner
  <2>9. OnlyStagedTravel' /\ NothingForgotten' /\ EntriesAreSound'
      BY <1>2, <2>3, <2>4 DEF StageCommit, OnlyStagedTravel, NothingForgotten, Entering,
        EntriesAreSound, stores
  <2> QED BY <2>3, <2>7, <2>8, <2>9
<1>3. ASSUME StopsBeforeSend PROVE Inv'
  <2>1. work' \in WorkType /\ WorkIsSound'
      BY <1>3, ReturnIsIdle DEF StopsBeforeSend, WorkIsSound, OnRow
  <2>2. CASE rows' = rows
      BY <1>1, <1>3, <2>1, <2>2, QuietStep DEF StopsBeforeSend, TypeOK, history, stores, runner
  <2>3. CASE work.pc = "mark" /\ \E st \in {"prepared", "unknown"} :
                 rows' = [rows EXCEPT ![work.id].status = st]
    <3>1. PICK st \in {"prepared", "unknown"} :
              rows' = [rows EXCEPT ![work.id].status = st]
        BY <2>3
    <3>2. st \in Unfinished /\ work.pc \in OnRow
        BY <2>3 DEF Unfinished, OnRow
    <3>3. /\ UNCHANGED <<entry, opened, taken, net, stores, runner, uncertain, hasty>>
          /\ cut' \in BOOLEAN
        BY <1>3 DEF TypeOK, history, StopsBeforeSend
    <3> QED BY <2>1, <3>1, <3>2, <3>3, MarkKeeps
  <2> QED BY <1>3, <2>2, <2>3 DEF StopsBeforeSend
<1>4. ASSUME MarkUnknown PROVE Inv'
  <2>1. work' \in WorkType
      BY <1>1, <1>4 DEF MarkUnknown, WorkType
  <2>2. /\ rows' = [rows EXCEPT ![work.id].status = "unknown"]
        /\ work.id \in Staged /\ "unknown" \in Unfinished /\ work.pc \in OnRow
      BY <1>4 DEF MarkUnknown, WorkIsSound, OnRow, Unfinished
  <2>3. rows'[work.id].cycle = rows[work.id].cycle /\ Staged' = Staged
      BY <2>2, StatusMoves DEF Staged
  <2>4. WorkIsSound'
      BY <1>1, <1>4, <2>3 DEF MarkUnknown, WorkIsSound, OnRow, WorkType
  <2> QED BY <1>4, <2>1, <2>2, <2>4, MarkKeeps DEF MarkUnknown, TypeOK, history
<1>5. ASSUME Send PROVE Inv'
  <2>1. work' \in WorkType /\ WorkIsSound'
      BY <1>1, <1>5 DEF Send, WorkIsSound, OnRow, WorkType, Staged
  <2>2. net' \subseteq Staged
      BY <1>1, <1>5 DEF Send, WorkIsSound, OnRow
  <2> QED BY <1>5, <2>1, <2>2, QuietStep DEF Send, TypeOK, history, stores, runner
<1>6. ASSUME SendReturns PROVE Inv'
  <2>1. PICK out \in {"sent", "failed", "unknown"} :
           /\ out = "sent" => work.id \in taken
           /\ work' = [work EXCEPT !.out = out,
                         !.pc = IF out = "sent" THEN "checkpoint" ELSE "final"]
      BY <1>6 DEF SendReturns
  <2>2. work' \in WorkType
      BY <1>1, <2>1 DEF WorkType
  <2>3. /\ work'.pc = (IF out = "sent" THEN "checkpoint" ELSE "final")
        /\ work'.id = work.id /\ work'.out = out /\ work'.cycle = work.cycle
      BY <1>1, <2>1 DEF WorkType
  <2>4. WorkIsSound'
      BY <1>6, <2>1, <2>3 DEF SendReturns, WorkIsSound, OnRow, Staged
  <2> QED BY <1>1, <1>6, <2>2, <2>4, QuietStep DEF SendReturns, TypeOK, history, stores, runner
<1>7. ASSUME Checkpoint PROVE Inv'
  <2>1. PICK ok \in BOOLEAN :
           /\ rows' \in {rows, [rows EXCEPT ![work.id].status = "sent_pending"]}
           /\ work' = [work EXCEPT !.pc = "final", !.marked = @ /\ ok]
      BY <1>7 DEF Checkpoint, Mark
  <2>2. work' \in WorkType
      BY <1>1, <2>1 DEF WorkType
  <2>3. work.id \in Staged /\ "sent_pending" \in Unfinished /\ work.pc \in OnRow
      BY <1>7 DEF Checkpoint, WorkIsSound, OnRow, Unfinished
  <2>4. rows'[work.id].cycle = rows[work.id].cycle /\ Staged' = Staged
      BY <2>1, <2>3, StatusMoves DEF Staged
  <2>5. WorkIsSound'
      BY <1>1, <1>7, <2>1, <2>4 DEF Checkpoint, WorkIsSound, OnRow, WorkType
  <2> QED BY <1>7, <2>1, <2>2, <2>3, <2>5, MarkKeeps DEF Checkpoint, Mark, TypeOK
<1>8. ASSUME Finalise PROVE Inv'
  <2>1. PICK ok \in BOOLEAN :
           /\ rows' \in {rows, [rows EXCEPT ![work.id].status = work.out]}
           /\ work' = [work EXCEPT !.pc = "decide", !.marked = @ /\ ok]
      BY <1>8 DEF Finalise, Mark
  <2>2. work' \in WorkType
      BY <1>1, <2>1 DEF WorkType
  <2>3. work.id \in Staged /\ work.pc \in OnRow
      BY <1>8 DEF Finalise, WorkIsSound, OnRow
  <2>4. work.out \in {"sent", "failed"} \cup Unfinished
      BY <1>1, <1>8 DEF Finalise, WorkIsSound, OnRow, WorkType, Unfinished
  <2>5. rows'[work.id].cycle = rows[work.id].cycle /\ Staged' = Staged
      BY <2>1, <2>3, <2>4, StatusMoves DEF Staged
  <2>6. WorkIsSound'
      BY <1>1, <1>8, <2>1, <2>5 DEF Finalise, WorkIsSound, OnRow, WorkType
  <2> QED BY <1>8, <2>1, <2>2, <2>3, <2>4, <2>6, MarkKeeps DEF Finalise, Mark, TypeOK
<1>9. ASSUME Decide PROVE Inv'
  <2>1. CASE work.out = "sent" /\ work.marked
    <3>1. work' = [work EXCEPT !.pc = "redis"]
        BY <1>9, <2>1 DEF Decide
    <3>2. work' \in WorkType
        BY <1>1, <3>1 DEF WorkType
    <3>3. WorkIsSound'
        BY <1>1, <1>9, <2>1, <3>1 DEF Decide, WorkIsSound, OnRow, WorkType, Staged
    <3> QED BY <1>1, <1>9, <3>2, <3>3, QuietStep DEF Decide, TypeOK, history, stores, runner
  <2>2. CASE ~(work.out = "sent" /\ work.marked)
    <3>1. work' \in WorkType /\ WorkIsSound'
        BY <1>9, <2>2, ReturnIsIdle DEF Decide, WorkIsSound, OnRow
    <3> QED BY <1>1, <1>9, <3>1, QuietStep DEF Decide, TypeOK, history, stores, runner
  <2> QED BY <2>1, <2>2
<1>10. ASSUME ClearCached PROVE Inv'
  <2>1. work' \in WorkType /\ WorkIsSound'
      BY <1>1, <1>10 DEF ClearCached, WorkIsSound, OnRow, WorkType, Staged
  <2> QED BY <1>1, <1>10, <2>1, QuietStep DEF ClearCached, TypeOK, history, runner
<1>11. ASSUME ClearStored \/ ClearFails PROVE Inv'
  <2>1. /\ work.pc = "table" /\ work' = Return
        /\ stored' \in {stored, stored \ {work.cycle}}
        /\ UNCHANGED <<entry, opened, rows, taken, net, cached, runner, uncertain, hasty>>
        /\ cut' \in BOOLEAN
      BY <1>11 DEF TypeOK, history, ClearStored, ClearFails
  <2>2. work' \in WorkType /\ WorkIsSound'
      BY <2>1, ReturnIsIdle DEF WorkIsSound, OnRow
  <2>3. Closed(work.cycle)
      BY <2>1 DEF WorkIsSound, OnRow, Closed
  <2>4. AtBroker' = AtBroker /\ work.cycle \notin AtBroker
      BY <2>1, <2>3 DEF AtBroker, Closed
  <2>5. NothingForgotten' /\ EntriesAreSound'
      BY <2>1, <2>4 DEF NothingForgotten, Entering, EntriesAreSound
  <2>6. Gapless' /\ OnlyStagedTravel' /\ RowsHaveCycles'
      BY <2>1 DEF Gapless, OnlyStagedTravel, RowsHaveCycles, Staged
  <2>7. TypeOK'
      BY <2>1, <2>2 DEF TypeOK, runner
  <2> QED BY <2>2, <2>5, <2>6, <2>7
<1> QED BY <1>2, <1>3, <1>4, <1>5, <1>6, <1>7, <1>8, <1>9, <1>10, <1>11 DEF Flatten

LEMMA SlotsKeep == Inv /\ Slots => Inv'
<1> SUFFICES ASSUME Inv, Slots PROVE Inv'
    OBVIOUS
<1> USE DEF Inv
<1>1. net \subseteq Staged /\ taken \subseteq Staged /\ work \in WorkType
    BY DEF OnlyStagedTravel, TypeOK
<1>2. ASSUME NEW c \in Cycles, SlotEnters(c) \/ ResolveEntry(c) PROVE Inv'
    BY <1>2, EntriesKeep
<1>3. ASSUME NEW c \in Cycles, SlotCloses(c) PROVE Inv'
  <2>1. NextId \in Ids /\ UNCHANGED <<entry, opened, mode, slots, declared, work, history>>
      BY <1>3 DEF SlotCloses, history
  <2>2. PICK status \in {"sent", "failed"} \cup Unfinished :
           Stage(NextId, c, status, "slot")
      BY <1>3 DEF SlotCloses, Unfinished
  <2>3. /\ Staged' = Staged \cup {NextId} /\ NextId \notin Staged
        /\ rows' \in [Ids -> RowType] /\ rows'[NextId].cycle = c
        /\ \A k \in Staged : rows'[k] = rows[k]
        /\ Gapless' /\ RowsHaveCycles'
      BY <2>1, <2>2, StagingAdds
  <2>4. /\ taken' \in {taken, taken \cup {NextId}} /\ net' \in {net, net \cup {NextId}}
        /\ stored' \in {stored, stored \ {c}}
        /\ stored' # stored => NextId \in taken'
      BY <1>3 DEF SlotCloses
  <2>5. AtBroker' \subseteq AtBroker
      BY <1>1, <2>1, <2>3, <2>4, BrokerKeeps
  <2>6. stored' # stored => c \notin AtBroker'
      BY <2>3, <2>4 DEF AtBroker, Closed
  <2>7. NothingForgotten' /\ EntriesAreSound'
      BY <2>1, <2>4, <2>5, <2>6 DEF NothingForgotten, Entering, EntriesAreSound
  <2>8. OnlyStagedTravel'
      BY <1>1, <2>3, <2>4 DEF OnlyStagedTravel
  <2>9. WorkIsSound'
      BY <2>1, <2>3, <2>4 DEF WorkIsSound
  <2>10. /\ cached' \subseteq Cycles /\ book' \subseteq Cycles
         /\ uncertain' \subseteq Pairs /\ stored' \subseteq Cycles
      BY <1>3, <2>4, OrphanAssumption DEF SlotCloses, TypeOK
  <2>11. TypeOK'
      BY <2>1, <2>3, <2>4, <2>10 DEF TypeOK, history
  <2> QED BY <2>3, <2>7, <2>8, <2>9, <2>11
<1>4. ASSUME NEW k \in Ids, Resolve(k) PROVE Inv'
  <2>1. k \in Staged /\ UNCHANGED <<entry, opened, net, mode, slots, declared, work, history>>
      BY <1>4 DEF Resolve, InDoubt, Staged, Unfinished
  <2>2. PICK status \in {"sent", "failed"} : rows' = [rows EXCEPT ![k].status = status]
      BY <1>4 DEF Resolve
  <2>3. /\ Staged' = Staged /\ rows' \in [Ids -> RowType]
        /\ \A j \in Ids : rows'[j].cycle = rows[j].cycle
      BY <2>1, <2>2, StatusMoves
  <2>4. /\ taken \subseteq taken' /\ taken' \subseteq taken \cup {k}
        /\ stored' \in {stored, stored \ {rows[k].cycle}}
        /\ stored' # stored => k \in taken'
      BY <1>4 DEF Resolve
  <2>5. taken \subseteq Ids
      BY DEF TypeOK
  <2>6. AtBroker' \subseteq AtBroker
      BY <2>1, <2>3, <2>4, <2>5, BrokerKeeps
  <2>7. stored' # stored => rows[k].cycle \notin AtBroker'
      BY <2>3, <2>4 DEF AtBroker, Closed
  <2>8. NothingForgotten' /\ EntriesAreSound'
      BY <2>1, <2>4, <2>6, <2>7 DEF NothingForgotten, Entering, EntriesAreSound
  <2>9. Gapless' /\ OnlyStagedTravel' /\ RowsHaveCycles'
      BY <1>1, <2>1, <2>3, <2>4 DEF Gapless, OnlyStagedTravel, RowsHaveCycles, Staged
  <2>10. WorkIsSound'
      BY <2>1, <2>3, <2>4 DEF WorkIsSound, Staged
  <2>11. /\ cached' \subseteq Cycles /\ book' \subseteq Cycles
         /\ uncertain' \subseteq Pairs /\ stored' \subseteq Cycles
      BY <1>4, <2>4 DEF Resolve, TypeOK
  <2>12. TypeOK'
      BY <2>1, <2>3, <2>4, <2>11 DEF TypeOK, history
  <2> QED BY <2>8, <2>9, <2>10, <2>12
<1>5. ASSUME ScanBlocks PROVE Inv'
  <2>1. uncertain' \subseteq Pairs
      BY <1>5, RowsHavePairs DEF ScanBlocks, TypeOK
  <2>2. WorkIsSound'
      BY <1>5 DEF ScanBlocks, WorkIsSound, Staged
  <2> QED BY <1>1, <1>5, <2>1, <2>2, QuietStep DEF ScanBlocks, TypeOK, history, stores, runner
<1> QED BY <1>2, <1>3, <1>4, <1>5 DEF Slots

LEMMA EnvironmentKeeps == Inv /\ Environment => Inv'
<1> SUFFICES ASSUME Inv, Environment PROVE Inv'
    OBVIOUS
<1> USE DEF Inv
<1>1. net \subseteq Staged /\ taken \subseteq Staged /\ work \in WorkType
    BY DEF OnlyStagedTravel, TypeOK
<1>2. ASSUME Crash PROVE Inv'
  <2>1. work' \in WorkType /\ WorkIsSound'
      BY <1>2 DEF Crash, WorkIsSound, OnRow, IdleWork, WorkType, NoId
  <2> QED BY <1>1, <1>2, <2>1, QuietStep DEF Crash, TypeOK, stores
<1>3. ASSUME RedisFlushed PROVE Inv'
  <2>1. WorkIsSound'
      BY <1>3 DEF RedisFlushed, WorkIsSound, Staged
  <2> QED BY <1>1, <1>3, <2>1, QuietStep DEF RedisFlushed, TypeOK, history, runner
<1>4. ASSUME NEW k \in Ids, BrokerTakes(k) \/ BrokerLoses(k) PROVE Inv'
  <2>1. /\ taken \subseteq taken' /\ taken' \subseteq Staged /\ net' \subseteq Staged
        /\ UNCHANGED <<entry, opened, rows, stores, runner, uncertain, work, history>>
      BY <1>1, <1>4 DEF BrokerTakes, BrokerLoses
  <2>2. Staged' = Staged /\ AtBroker' \subseteq AtBroker
      BY <2>1, BrokerKeeps DEF Staged
  <2>3. /\ Gapless' /\ OnlyStagedTravel' /\ RowsHaveCycles' /\ NothingForgotten'
        /\ EntriesAreSound'
      BY <2>1, <2>2
      DEF Gapless, OnlyStagedTravel, RowsHaveCycles, NothingForgotten, Entering,
        EntriesAreSound, stores
  <2>4. WorkIsSound'
      BY <2>1, <2>2 DEF WorkIsSound
  <2>5. TypeOK'
      BY <2>1 DEF TypeOK, history, stores, runner, Staged
  <2> QED BY <2>3, <2>4, <2>5
<1>5. ASSUME NEW c \in Cycles, EntryTaken(c) PROVE Inv'
    BY <1>5, EntriesKeep
<1> QED BY <1>2, <1>3, <1>4, <1>5 DEF Environment

\* The invariant holds in every reachable state.
THEOREM Invariance == Spec => []Inv
<1>1. Inv /\ [Next]_vars => Inv'
  <2> SUFFICES ASSUME Inv, [Next]_vars PROVE Inv'
      OBVIOUS
  <2>1. CASE Next
      BY <2>1, SlotsKeep, CallersKeep, FlattenKeeps, EnvironmentKeeps DEF Next
  <2>2. CASE UNCHANGED vars
      BY <2>2 DEF vars, Inv, TypeOK, Gapless, OnlyStagedTravel, RowsHaveCycles,
                  WorkIsSound, NothingForgotten, AtBroker, Closed, Staged, Entering,
                  EntriesAreSound
  <2> QED BY <2>1, <2>2
<1> QED BY <1>1, InitInv, PTL DEF Spec

\* Types, for any number of pairs, cycles, closes and deployments.
THEOREM OrphanTypeCorrect == Spec => []TypeOK
<1>1. Inv => TypeOK
    BY DEF Inv
<1> QED BY <1>1, Invariance, PTL

\* No crash, failed write, lost or late command, settlement or /flat makes the runner
\* forget a cycle that the broker still holds: the table has it, or an unfinished row of
\* the outbox names its entry.
THEOREM BookForgetsNothing == Spec => []NothingForgotten
<1>1. Inv => NothingForgotten
    BY DEF Inv
<1> QED BY <1>1, Invariance, PTL

(***************************************************************************)
(* No cycle is settled twice, and the books match the broker.              *)
(***************************************************************************)

\* The coroutine runs for the settlement before the slots work, and for /flat after.
Modes ==
    /\ mode \in {"down", "recover"} => work.pc = "idle"
    /\ mode = "settle" => work.pc # "idle" /\ work.by = "settle"
    /\ mode = "up" /\ work.pc # "idle" => work.by = "flat"
    /\ mode = "down" => slots = {} /\ book = {}
    /\ work.pc = "idle" => work.todo = {}

\* It is given cycles that no slot drives, each of them once.
OnOrphans ==
    /\ \A c \in work.todo : c \in opened /\ PairOf[c] \notin slots
    /\ work.pc \notin {"idle", "next"} =>
           work.cycle \in opened \ work.todo /\ PairOf[work.cycle] \notin slots

\* The row it works on is its own, and open until the last mark.
RowOfWork ==
    /\ work.pc \in OnRow => rows[work.id].by = work.by
    /\ work.pc = "mark" => rows[work.id].status = "prepared"
    /\ work.pc \in {"send", "sending", "checkpoint", "final"} =>
           rows[work.id].status \in {"unknown", "sent_pending"}
    /\ work.pc = "final" /\ work.out = "failed" => work.id \notin taken \cup net

\* The stores, the books and the rows speak of cycles that were opened.
OpenedOnly ==
    /\ stored \cup cached \cup book \subseteq opened
    /\ \A k \in Staged : rows[k].cycle \in opened
    /\ \A c \in book : PairOf[c] \in slots

\* A row that was never sent, or that was refused, does not travel.
UnsentStay ==
    \A k \in Ids : rows[k].status \in {"prepared", "failed"} => k \notin taken \cup net

\* Once the outbox has been scanned, the pairs in doubt are blocked, and the
\* settlement stages nothing for a cycle in doubt.
DoubtIsBlocked ==
    /\ mode \in {"settle", "up"} =>
           \A k \in InDoubt : RowPair(k) \in slots => RowPair(k) \in uncertain
    /\ mode = "settle" =>
           \A k \in InDoubt : rows[k].cycle \in work.todo => RowPair(k) \in uncertain
    /\ mode = "settle" /\ work.pc = "stage" =>
           \A k \in InDoubt : rows[k].cycle # work.cycle

\* Of what is recorded, Redis holds all of a pair or nothing, and a pair that is driven
\* is whole.
Recorded == AtBroker \ Entering
CacheIsWhole ==
    /\ \A c, e \in Cycles :
           c \in cached /\ e \in Recorded /\ PairOf[c] = PairOf[e] => e \in cached
    /\ \A c \in Recorded : PairOf[c] \in slots => c \in cached /\ c \in book

\* Unless a record was cut short, or /flat was hasty: a cycle whose close is final has
\* left the stores and the books, or is about to.
ClosedAreGone ==
    ~cut => /\ \A k \in Ids : rows[k].status = "sent" =>
                   \/ rows[k].cycle \in hasty
                   \/ /\ rows[k].cycle \notin book
                      /\ rows[k].cycle \in stored \cup cached =>
                             /\ work.id = k /\ work.out = "sent"
                             /\ work.pc \in {"decide", "redis", "table"}
            /\ work.out = "sent" => work.marked
            /\ work.pc = "table" => work.cycle \notin cached
MarkedSoFar ==
    work.pc \notin {"final", "decide", "redis", "table"} => work.marked

\* So are the pairs whose entry is in doubt, and the settlement leaves them alone.
EntriesAreBlocked ==
    /\ mode \in {"settle", "up"} =>
           \A c \in Entering : PairOf[c] \in slots => PairOf[c] \in uncertain
    /\ mode = "settle" => \A c \in Entering \cap work.todo : PairOf[c] \in uncertain

\* A close is staged for a cycle whose entry is in doubt by /flat alone.
OnlyHasty ==
    /\ \A k \in Staged : rows[k].cycle \in Entering => rows[k].cycle \in hasty
    /\ work.pc \notin {"idle", "next"} =>
           (work.cycle \in Entering => work.cycle \in hasty)

DoubtInv ==
    /\ Modes /\ OnOrphans /\ RowOfWork /\ OpenedOnly /\ DoubtIsBlocked
    /\ EntriesAreBlocked /\ OnlyHasty
    /\ SettlesOnce
BookInv == UnsentStay /\ CacheIsWhole /\ ClosedAreGone /\ MarkedSoFar

\* The coroutine drives no slot, keeps its caller, and turns to no other cycle.
LEMMA FlattenStays ==
    ASSUME Inv, Flatten
    PROVE  /\ UNCHANGED <<entry, opened, runner, uncertain, hasty>>
           /\ work.pc \notin {"idle", "next"} /\ work'.pc \notin {"idle", "stage"}
           /\ work'.by = work.by /\ work'.todo = work.todo
           /\ work'.pc # "next" => work'.cycle = work.cycle
<1>1. work \in WorkType
    BY DEF Inv, TypeOK
<1>2. CASE StageCommit
    BY <1>1, <1>2 DEF StageCommit, history, WorkType
<1>3. CASE StopsBeforeSend
    BY <1>1, <1>3 DEF StopsBeforeSend, history, Return, WorkType
<1>4. CASE MarkUnknown \/ Send
    BY <1>1, <1>4 DEF MarkUnknown, Send, history, WorkType
<1>5. CASE SendReturns
  <2>1. PICK out \in {"sent", "failed", "unknown"} :
           work' = [work EXCEPT !.out = out,
                      !.pc = IF out = "sent" THEN "checkpoint" ELSE "final"]
      BY <1>5 DEF SendReturns
  <2> QED BY <1>1, <1>5, <2>1 DEF SendReturns, history, WorkType
<1>6. CASE Checkpoint
    BY <1>1, <1>6 DEF Checkpoint, Mark, WorkType
<1>7. CASE Finalise
    BY <1>1, <1>7 DEF Finalise, Mark, WorkType
<1>8. CASE Decide
    BY <1>1, <1>8 DEF Decide, history, Return, WorkType
<1>9. CASE ClearCached
    BY <1>1, <1>9 DEF ClearCached, history, WorkType
<1>10. CASE ClearStored \/ ClearFails
    BY <1>1, <1>10 DEF ClearStored, ClearFails, history, Return, WorkType
<1> QED BY <1>2, <1>3, <1>4, <1>5, <1>6, <1>7, <1>8, <1>9, <1>10 DEF Flatten

\* The callers touch no row, and leave the coroutine without one.
LEMMA CallersStay ==
    ASSUME Inv, Modes, MarkedSoFar, Callers
    PROVE  /\ UNCHANGED <<entry, opened, rows, taken, net, stored, cut>>
           /\ work'.pc \in {"idle", "next", "stage"}
           /\ work'.out = "none" /\ work'.marked
           /\ hasty \subseteq hasty'
<1>1. work \in WorkType
    BY DEF Inv, TypeOK
<1>2. work.pc \in {"idle", "next"} => work.out = "none" /\ work.marked
    BY DEF Inv, WorkIsSound, OnRow, MarkedSoFar
<1>3. CASE \E d \in Deployments : Boot(d)
    BY <1>2, <1>3 DEF Boot, Modes, history
<1>4. CASE Recovered
    BY <1>4 DEF Recovered, IdleWork, history, stores
<1>5. ASSUME NEW scope \in SUBSET Pairs, FlatOnRequest(scope)
      PROVE  /\ UNCHANGED <<entry, opened, rows, taken, net, stored, cut>>
             /\ work'.pc \in {"idle", "next", "stage"}
             /\ work'.out = "none" /\ work'.marked
             /\ hasty \subseteq hasty'
    BY <1>5 DEF FlatOnRequest, IdleWork, history, stores
<1>6. CASE WorkDone
    BY <1>6 DEF WorkDone, IdleWork, history, stores
<1>7. ASSUME NEW c \in Cycles, Leave(c) \/ Take(c)
      PROVE  /\ UNCHANGED <<entry, opened, rows, taken, net, stored, cut>>
             /\ work'.pc \in {"idle", "next", "stage"}
             /\ work'.out = "none" /\ work'.marked
             /\ hasty \subseteq hasty'
    BY <1>1, <1>2, <1>7 DEF Leave, Take, WorkType, history, stores
<1> QED BY <1>3, <1>4, <1>5, <1>6, <1>7 DEF Callers

\* Once it has staged its row, the coroutine moves the status of that row only.
LEMMA FlattenMarks ==
    ASSUME Inv, RowOfWork, Flatten, ~StageCommit
    PROVE  /\ Staged' = Staged
           /\ \A j \in Ids : rows'[j].cycle = rows[j].cycle /\ rows'[j].by = rows[j].by
           /\ \A j \in Ids \ {work.id} : rows'[j] = rows[j]
           /\ rows' # rows => work.pc \in OnRow
           /\ rows' # rows => rows[work.id].status \in Unfinished
<1> DEFINE Goal == /\ Staged' = Staged
                   /\ \A j \in Ids : rows'[j].cycle = rows[j].cycle
                                     /\ rows'[j].by = rows[j].by
                   /\ \A j \in Ids \ {work.id} : rows'[j] = rows[j]
                   /\ rows' # rows => work.pc \in OnRow
                   /\ rows' # rows => rows[work.id].status \in Unfinished
<1>1. CASE rows' = rows
    BY <1>1 DEF Staged
<1>2. ASSUME NEW st \in {"sent", "failed"} \cup Unfinished, work.pc \in OnRow,
             rows[work.id].status \in Unfinished,
             rows' = [rows EXCEPT ![work.id].status = st]
      PROVE  Goal
    BY <1>2, StatusMoves DEF Inv, WorkIsSound
<1>3. CASE StopsBeforeSend
  <2>1. CASE work.pc = "mark" /\ \E st \in {"prepared", "unknown"} :
                rows' = [rows EXCEPT ![work.id].status = st]
    <3>1. PICK st \in {"prepared", "unknown"} :
              rows' = [rows EXCEPT ![work.id].status = st]
        BY <2>1
    <3> QED BY <1>2, <2>1, <3>1 DEF RowOfWork, OnRow, Unfinished
  <2> QED BY <1>1, <1>3, <2>1 DEF StopsBeforeSend
<1>4. CASE MarkUnknown
    BY <1>2, <1>4 DEF MarkUnknown, RowOfWork, OnRow, Unfinished
<1>5. CASE Checkpoint
    BY <1>1, <1>2, <1>5 DEF Checkpoint, Mark, RowOfWork, OnRow, Unfinished
<1>6. CASE Finalise
  <2>1. work.out \in {"sent", "failed"} \cup Unfinished
      BY <1>6 DEF Finalise, Inv, WorkIsSound, TypeOK, WorkType, Unfinished
  <2>2. rows' \in {rows, [rows EXCEPT ![work.id].status = work.out]}
      BY <1>6 DEF Finalise, Mark
  <2>3. work.pc \in OnRow /\ rows[work.id].status \in Unfinished
      BY <1>6 DEF Finalise, RowOfWork, OnRow, Unfinished
  <2> QED BY <1>1, <1>2, <2>1, <2>2, <2>3
<1> QED BY <1>1, <1>3, <1>4, <1>5, <1>6
    DEF Flatten, Send, SendReturns, Decide, ClearCached, ClearStored, ClearFails

LEMMA ModesKeep == ASSUME Inv, Modes, Next PROVE Modes'
<1> USE DEF Modes
<1>1. work \in WorkType
    BY DEF Inv, TypeOK
<1>2. CASE Slots
    BY <1>2 DEF Slots, SlotEnters, ResolveEntry, SlotCloses, Resolve, ScanBlocks,
        runner
<1>3. CASE Callers
  <2>1. CASE \E d \in Deployments : Boot(d)
      BY <2>1 DEF Boot
  <2>2. CASE Recovered
      BY <2>2 DEF Recovered, IdleWork
  <2>3. ASSUME NEW scope \in SUBSET Pairs, FlatOnRequest(scope) PROVE Modes'
      BY <2>3 DEF FlatOnRequest, IdleWork, runner
  <2>4. CASE WorkDone
      BY <2>4 DEF WorkDone, IdleWork
  <2>5. ASSUME NEW c \in Cycles, Leave(c) \/ Take(c) PROVE Modes'
      BY <1>1, <2>5 DEF Leave, Take, WorkType, runner
  <2> QED BY <1>3, <2>1, <2>2, <2>3, <2>4, <2>5 DEF Callers
<1>4. CASE Flatten
    BY <1>4, FlattenStays DEF runner
<1>5. CASE Environment
    BY <1>1, <1>5 DEF Environment, Crash, RedisFlushed, EntryTaken, BrokerTakes, BrokerLoses,
        IdleWork, runner, WorkType
<1> QED BY <1>2, <1>3, <1>4, <1>5 DEF Next

LEMMA OnOrphansKeep == ASSUME Inv, Inv', Modes, OnOrphans, OpenedOnly, Next PROVE OnOrphans'
<1> USE DEF OnOrphans, Modes
<1>1. work \in WorkType
    BY DEF Inv, TypeOK
<1>2. CASE Slots
    BY <1>2 DEF Slots, SlotEnters, ResolveEntry, SlotCloses, Resolve, ScanBlocks,
        runner
<1>3. CASE Callers
  <2>1. CASE \E d \in Deployments : Boot(d)
      BY <1>1, <2>1 DEF Boot, WorkType
  <2>2. CASE Recovered
      BY <2>2 DEF Recovered, IdleWork, Orphans, OpenedOnly
  <2>3. ASSUME NEW scope \in SUBSET Pairs, FlatOnRequest(scope) PROVE OnOrphans'
      BY <2>3 DEF FlatOnRequest, IdleWork, Orphans, OpenedOnly, runner
  <2>4. CASE WorkDone
      BY <2>4 DEF WorkDone, IdleWork
  <2>5. ASSUME NEW c \in Cycles, Leave(c) PROVE OnOrphans'
      BY <1>1, <2>5 DEF Leave, WorkType, runner
  <2>6. ASSUME NEW c \in Cycles, Take(c) PROVE OnOrphans'
      BY <1>1, <2>6 DEF Take, WorkType, runner
  <2> QED BY <1>3, <2>1, <2>2, <2>3, <2>4, <2>5, <2>6 DEF Callers
<1>4. CASE Flatten
    BY <1>4, FlattenStays DEF runner
<1>5. CASE Environment
    BY <1>1, <1>5 DEF Environment, Crash, RedisFlushed, EntryTaken, BrokerTakes, BrokerLoses,
        IdleWork, runner, WorkType
<1> QED BY <1>2, <1>3, <1>4, <1>5 DEF Next

\* What a slot, or the scan, does to the rows: one of a pair it drives.
LEMMA SlotsTouch ==
    ASSUME Inv, Slots
    PROVE  /\ UNCHANGED <<mode, slots, declared, work, cut>>
           /\ \A k \in Staged : rows'[k].cycle = rows[k].cycle /\ rows'[k].by = rows[k].by
           /\ \A k \in Staged : RowPair(k) \notin slots =>
                  rows'[k] = rows[k] /\ (k \in taken' <=> k \in taken)
                                    /\ (k \in net' <=> k \in net)
           /\ Staged \subseteq Staged'
           /\ opened \subseteq opened'
<1> DEFINE Goal ==
           /\ UNCHANGED <<mode, slots, declared, work, cut>>
           /\ \A k \in Staged : rows'[k].cycle = rows[k].cycle /\ rows'[k].by = rows[k].by
           /\ \A k \in Staged : RowPair(k) \notin slots =>
                  rows'[k] = rows[k] /\ (k \in taken' <=> k \in taken)
                                    /\ (k \in net' <=> k \in net)
           /\ Staged \subseteq Staged'
           /\ opened \subseteq opened'
<1>1. ASSUME NEW c \in Cycles, SlotEnters(c) \/ ResolveEntry(c) PROVE Goal
    BY <1>1, EntriesMove DEF Staged
<1>2. ASSUME NEW c \in Cycles, SlotCloses(c) PROVE Goal
  <2>1. PICK status \in {"sent", "failed"} \cup Unfinished :
           Stage(NextId, c, status, "slot")
      BY <1>2 DEF SlotCloses, Unfinished
  <2>2. NextId \in Ids
      BY <1>2 DEF SlotCloses
  <2>3. /\ Staged' = Staged \cup {NextId} /\ NextId \notin Staged
        /\ \A k \in Staged : rows'[k] = rows[k]
      BY <2>1, <2>2, StagingAdds
  <2>4. /\ taken' \in {taken, taken \cup {NextId}} /\ net' \in {net, net \cup {NextId}}
        /\ UNCHANGED <<opened, mode, slots, declared, work, cut>>
      BY <1>2 DEF SlotCloses, history
  <2> QED BY <2>3, <2>4
<1>3. ASSUME NEW k \in Ids, Resolve(k) PROVE Goal
  <2>1. PICK status \in {"sent", "failed"} : rows' = [rows EXCEPT ![k].status = status]
      BY <1>3 DEF Resolve
  <2>2. k \in Staged /\ RowPair(k) \in slots
      BY <1>3 DEF Resolve, InDoubt, Staged, Unfinished
  <2>3. /\ Staged' = Staged /\ rows'[k].by = rows[k].by
        /\ \A j \in Ids : rows'[j].cycle = rows[j].cycle
        /\ \A j \in Ids \ {k} : rows'[j] = rows[j]
      BY <2>1, <2>2, StatusMoves
  <2>4. /\ taken' \in {taken, taken \cup {k}} /\ net' = net
        /\ UNCHANGED <<opened, mode, slots, declared, work, cut>>
      BY <1>3 DEF Resolve, history
  <2> QED BY <2>2, <2>3, <2>4 DEF Staged
<1>4. CASE ScanBlocks
    BY <1>4 DEF ScanBlocks, Staged, runner, history
<1> QED BY <1>1, <1>2, <1>3, <1>4 DEF Slots

\* The row of the coroutine is of a pair that no slot drives.
LEMMA WorkIsApart ==
    ASSUME Inv, OnOrphans, work.pc \in OnRow
    PROVE  work.id \in Staged /\ RowPair(work.id) \notin slots
BY DEF Inv, WorkIsSound, OnRow, OnOrphans, RowPair

LEMMA RowOfWorkKeeps ==
    ASSUME Inv, DoubtInv, MarkedSoFar, Next
    PROVE  RowOfWork'
<1> USE DEF DoubtInv
<1>1. work \in WorkType
    BY DEF Inv, TypeOK
<1>2. CASE Slots
  <2>1. CASE work.pc \in OnRow
      BY <1>2, <2>1, SlotsTouch, WorkIsApart DEF RowOfWork
  <2>2. CASE work.pc \notin OnRow
      BY <1>2, <2>2, SlotsTouch DEF RowOfWork, OnRow
  <2> QED BY <2>1, <2>2
<1>3. CASE Callers
    BY <1>3, CallersStay DEF RowOfWork, OnRow
<1>4. CASE Flatten
  <2>1. CASE StageCommit
    <3>1. Stage(NextId, work.cycle, "prepared", work.by) /\ NextId \in Ids
        BY <2>1 DEF StageCommit
    <3>2. work.cycle \in Cycles /\ work.by \in {"none", "settle", "flat"}
        BY <1>1, <2>1 DEF StageCommit, Inv, WorkIsSound, WorkType
    <3>3. rows'[NextId] = [cycle |-> work.cycle, status |-> "prepared", by |-> work.by]
      <4>1. /\ "prepared" \in {"sent", "failed"} \cup Unfinished
            /\ work.by \in {"none", "slot", "settle", "flat"}
          BY <3>2 DEF Unfinished
      <4> QED BY <3>1, <3>2, <4>1, StagingAdds
    <3>4. work'.pc = "mark" /\ work'.id = NextId /\ work'.by = work.by
        BY <1>1, <2>1 DEF StageCommit, WorkType
    <3> QED BY <3>3, <3>4 DEF RowOfWork, Unfinished
  <2>2. CASE StopsBeforeSend
      BY <2>2, ReturnIsIdle DEF StopsBeforeSend, RowOfWork, OnRow
  <2>3. CASE MarkUnknown
    <3>1. work.id \in Staged
        BY <2>3 DEF MarkUnknown, Inv, WorkIsSound, OnRow
    <3>2. rows'[work.id].status = "unknown" /\ rows'[work.id].by = rows[work.id].by
        BY <2>3, <3>1, StatusMoves DEF MarkUnknown, Unfinished
    <3>3. work'.pc = "send" /\ work'.id = work.id /\ work'.by = work.by
        BY <1>1, <2>3 DEF MarkUnknown, WorkType
    <3> QED BY <2>3, <3>2, <3>3 DEF MarkUnknown, RowOfWork, OnRow
  <2>4. CASE Send
      BY <1>1, <2>4 DEF Send, RowOfWork, OnRow, WorkType
  <2>5. CASE SendReturns
    <3>1. PICK out \in {"sent", "failed", "unknown"} :
             /\ out = "failed" => work.id \notin taken \cup net
             /\ work' = [work EXCEPT !.out = out,
                           !.pc = IF out = "sent" THEN "checkpoint" ELSE "final"]
        BY <2>5 DEF SendReturns
    <3>2. /\ work'.pc = (IF out = "sent" THEN "checkpoint" ELSE "final")
          /\ work'.id = work.id /\ work'.out = out /\ work'.by = work.by
        BY <1>1, <3>1 DEF WorkType
    <3> QED BY <2>5, <3>1, <3>2 DEF SendReturns, RowOfWork, OnRow
  <2>6. CASE Checkpoint
    <3>1. work'.pc = "final" /\ work'.id = work.id /\ work'.by = work.by
        BY <1>1, <2>6 DEF Checkpoint, Mark, WorkType
    <3>2. work'.out = work.out /\ work.out = "sent"
        BY <1>1, <2>6 DEF Checkpoint, Mark, WorkType, Inv, WorkIsSound
    <3>3. work.id \in Staged
        BY <2>6 DEF Checkpoint, Inv, WorkIsSound, OnRow
    <3>4. rows' = rows \/ rows' = [rows EXCEPT ![work.id].status = "sent_pending"]
        BY <2>6 DEF Checkpoint, Mark
    <3>5. /\ rows'[work.id].status \in {"unknown", "sent_pending"}
          /\ rows'[work.id].by = rows[work.id].by
      <4>1. CASE rows' = rows
          BY <2>6, <4>1 DEF Checkpoint, RowOfWork
      <4>2. CASE rows' = [rows EXCEPT ![work.id].status = "sent_pending"]
          BY <3>3, <4>2, StatusMoves DEF Unfinished
      <4> QED BY <3>4, <4>1, <4>2
    <3> QED BY <2>6, <3>1, <3>2, <3>5 DEF Checkpoint, RowOfWork, OnRow
  <2>7. CASE Finalise
    <3>1. work'.pc = "decide" /\ work'.id = work.id /\ work'.by = work.by
        BY <1>1, <2>7 DEF Finalise, Mark, WorkType
    <3>2. ~StageCommit /\ work.id \in Ids
        BY <2>7 DEF Finalise, StageCommit, Inv, WorkIsSound, OnRow, Staged
    <3>3. rows'[work.id].by = rows[work.id].by
        BY <1>4, <3>2, FlattenMarks
    <3> QED BY <2>7, <3>1, <3>3 DEF Finalise, RowOfWork, OnRow
  <2>8. CASE Decide
      BY <1>1, <2>8, ReturnIsIdle DEF Decide, RowOfWork, OnRow, WorkType
  <2>9. CASE ClearCached
      BY <1>1, <2>9 DEF ClearCached, RowOfWork, OnRow, WorkType
  <2>10. CASE ClearStored \/ ClearFails
      BY <2>10, ReturnIsIdle DEF ClearStored, ClearFails, RowOfWork, OnRow
  <2> QED BY <1>4, <2>1, <2>2, <2>3, <2>4, <2>5, <2>6, <2>7, <2>8, <2>9, <2>10 DEF Flatten
<1>5. CASE Environment
  <2>1. CASE Crash
      BY <2>1 DEF Crash, IdleWork, RowOfWork, OnRow
  <2>2. CASE RedisFlushed
      BY <2>2 DEF RedisFlushed, RowOfWork, runner
  <2>3. ASSUME NEW k \in Ids, BrokerTakes(k) \/ BrokerLoses(k) PROVE RowOfWork'
      BY <2>3 DEF BrokerTakes, BrokerLoses, RowOfWork
  <2>4. ASSUME NEW c \in Cycles, EntryTaken(c) PROVE RowOfWork'
      BY <2>4 DEF EntryTaken, RowOfWork
  <2> QED BY <1>5, <2>1, <2>2, <2>3, <2>4 DEF Environment
<1> QED BY <1>2, <1>3, <1>4, <1>5 DEF Next

LEMMA OpenedOnlyKeeps ==
    ASSUME Inv, DoubtInv, Next
    PROVE  OpenedOnly'
<1> USE DEF DoubtInv, OpenedOnly
<1>1. work \in WorkType
    BY DEF Inv, TypeOK
<1>2. ASSUME NEW c \in Cycles, SlotEnters(c) \/ ResolveEntry(c) \/ EntryTaken(c)
      PROVE  OpenedOnly'
  <2>1. /\ UNCHANGED <<rows, slots>> /\ opened \subseteq opened'
        /\ \/ UNCHANGED <<stored, cached, book>>
           \/ /\ c \in opened' /\ PairOf[c] \in slots
              /\ stored' \subseteq stored \cup {c} /\ cached' \subseteq cached \cup {c}
              /\ book' \subseteq book \cup {c}
    <3>1. UNCHANGED <<rows, slots>> /\ opened \subseteq opened'
        BY <1>2, EntriesMove
    <3>2. \/ UNCHANGED <<stored, cached, book>>
          \/ /\ c \in opened' /\ PairOf[c] \in slots /\ mode \in {"recover", "up"}
             /\ stored' \in {stored, stored \cup {c}}
             /\ cached' \in {cached, cached \cup {c}}
             /\ book' \in {book, book \cup {c}}
        BY <1>2, EntriesMove
    <3> QED BY <3>1, <3>2
  <2> QED BY <2>1 DEF Staged
<1>3. ASSUME NEW c \in Cycles, SlotCloses(c) PROVE OpenedOnly'
  <2>1. PICK status \in {"sent", "failed"} \cup Unfinished :
           Stage(NextId, c, status, "slot")
      BY <1>3 DEF SlotCloses, Unfinished
  <2>2. NextId \in Ids /\ c \in book
      BY <1>3 DEF SlotCloses
  <2>3. /\ Staged' = Staged \cup {NextId} /\ rows'[NextId].cycle = c
        /\ \A k \in Staged : rows'[k] = rows[k]
      BY <2>1, <2>2, StagingAdds
  <2>4. /\ stored' \subseteq stored /\ cached' \subseteq cached /\ book' \subseteq book
        /\ UNCHANGED <<opened, slots>>
      BY <1>3 DEF SlotCloses
  <2> QED BY <2>2, <2>3, <2>4
<1>4. ASSUME NEW k \in Ids, Resolve(k) PROVE OpenedOnly'
  <2>1. PICK status \in {"sent", "failed"} : rows' = [rows EXCEPT ![k].status = status]
      BY <1>4 DEF Resolve
  <2>2. Staged' = Staged /\ \A j \in Ids : rows'[j].cycle = rows[j].cycle
      BY <1>4, <2>1, StatusMoves DEF Resolve, InDoubt, Staged, Unfinished
  <2>3. /\ stored' \subseteq stored /\ cached' \subseteq cached /\ book' \subseteq book
        /\ UNCHANGED <<opened, slots>>
      BY <1>4 DEF Resolve
  <2> QED BY <2>2, <2>3 DEF Staged
<1>5. CASE ScanBlocks
    BY <1>5 DEF ScanBlocks, Staged, stores, runner
<1>6. ASSUME NEW d \in Deployments, Boot(d) PROVE OpenedOnly'
    BY <1>6 DEF Boot, RestoredOf, Staged
<1>7. CASE Callers /\ ~\E d \in Deployments : Boot(d)
    BY <1>7 DEF Callers, Recovered, WorkDone, FlatOnRequest, Leave, Take, Staged, stores, runner
<1>8. CASE Flatten
  <2>1. CASE StageCommit
    <3>1. Stage(NextId, work.cycle, "prepared", work.by) /\ NextId \in Ids
        BY <2>1 DEF StageCommit
    <3>2. /\ work.cycle \in Cycles /\ work.by \in {"none", "settle", "flat"}
          /\ work.cycle \in opened
        BY <1>1, <2>1 DEF StageCommit, Inv, WorkIsSound, WorkType, OnOrphans
    <3>3. /\ Staged' = Staged \cup {NextId} /\ rows'[NextId].cycle = work.cycle
          /\ \A k \in Staged : rows'[k] = rows[k]
        BY <3>1, <3>2, StagingAdds DEF Unfinished
    <3> QED BY <2>1, <3>2, <3>3 DEF StageCommit, stores, runner
  <2>2. CASE ~StageCommit
    <3>1. Staged' = Staged /\ \A j \in Ids : rows'[j].cycle = rows[j].cycle
        BY <1>8, <2>2, FlattenMarks
    <3>2. /\ stored' \subseteq stored /\ cached' \subseteq cached
          /\ UNCHANGED <<opened, slots, book>>
        BY <1>8, <2>2 DEF Flatten, StopsBeforeSend, MarkUnknown, Send, SendReturns, Checkpoint,
            Finalise, Decide, ClearCached, ClearStored, ClearFails, stores, runner
    <3> QED BY <3>1, <3>2 DEF Staged
  <2> QED BY <2>1, <2>2
<1>9. CASE Crash \/ RedisFlushed \/ \E k \in Ids : BrokerTakes(k) \/ BrokerLoses(k)
    BY <1>9 DEF Crash, RedisFlushed, BrokerTakes, BrokerLoses, Staged, stores, runner
<1> QED BY <1>2, <1>3, <1>4, <1>5, <1>6, <1>7, <1>8, <1>9 DEF Next, Slots, Environment

\* The pair of a close that stays in doubt is blocked.
LEMMA ClosesBlock ==
    ASSUME Inv, NEW c \in Cycles, SlotCloses(c)
    PROVE  /\ c \in book /\ mode = "up" /\ PairOf[c] \in slots \ uncertain
           /\ Staged' = Staged \cup {NextId} /\ NextId \in Ids \ Staged
           /\ rows'[NextId].cycle = c
           /\ \A k \in Ids \ {NextId} : rows'[k] = rows[k]
           /\ uncertain \subseteq uncertain'
           /\ rows'[NextId].status \in Unfinished => PairOf[c] \in uncertain'
<1>1. PICK status \in {"sent", "failed"} \cup Unfinished :
         /\ Stage(NextId, c, status, "slot")
         /\ status \in Unfinished => uncertain' = uncertain \cup {PairOf[c]}
  <2>1. CASE Stage(NextId, c, "sent", "slot")
      BY <2>1 DEF Unfinished
  <2>2. CASE Stage(NextId, c, "failed", "slot")
      BY <2>2 DEF Unfinished
  <2>3. ASSUME NEW st \in Unfinished, Stage(NextId, c, st, "slot"),
               uncertain' = uncertain \cup {PairOf[c]}
        PROVE  \E status \in {"sent", "failed"} \cup Unfinished :
                   /\ Stage(NextId, c, status, "slot")
                   /\ status \in Unfinished => uncertain' = uncertain \cup {PairOf[c]}
      BY <2>3
  <2> QED BY <2>1, <2>2, <2>3 DEF SlotCloses, Unfinished
<1>2. /\ NextId \in Ids /\ c \in book /\ mode = "up" /\ PairOf[c] \in slots \ uncertain
      /\ uncertain \subseteq uncertain'
    BY DEF SlotCloses
<1>3. /\ Staged' = Staged \cup {NextId} /\ NextId \notin Staged
      /\ rows'[NextId] = [cycle |-> c, status |-> status, by |-> "slot"]
      /\ \A k \in Ids \ {NextId} : rows'[k] = rows[k]
    BY <1>1, <1>2, StagingAdds
<1> QED BY <1>1, <1>2, <1>3

\* The coroutine's row is of its cycle, and prepared.
LEMMA StageCommitAdds ==
    ASSUME Inv, DoubtInv, StageCommit
    PROVE  /\ Staged' = Staged \cup {NextId} /\ NextId \in Ids \ Staged
           /\ rows'[NextId] = [cycle |-> work.cycle, status |-> "prepared", by |-> work.by]
           /\ \A k \in Ids \ {NextId} : rows'[k] = rows[k]
           /\ work.cycle \in opened \ work.todo /\ PairOf[work.cycle] \notin slots
           /\ UNCHANGED <<entry, opened, taken, net, stores, runner, uncertain, history>>
           /\ work.pc = "stage" /\ work'.pc = "mark" /\ work'.todo = work.todo
           /\ work'.out = work.out /\ work'.marked = work.marked
<1>1. work \in WorkType
    BY DEF Inv, TypeOK
<1>2. work.cycle \in Cycles /\ work.by \in {"none", "settle", "flat"}
    BY <1>1 DEF StageCommit, Inv, WorkIsSound, WorkType
<1>3. Stage(NextId, work.cycle, "prepared", work.by) /\ NextId \in Ids
    BY DEF StageCommit
<1>4. /\ Staged' = Staged \cup {NextId} /\ NextId \notin Staged
      /\ rows'[NextId] = [cycle |-> work.cycle, status |-> "prepared", by |-> work.by]
      /\ \A k \in Ids \ {NextId} : rows'[k] = rows[k]
  <2>1. /\ "prepared" \in {"sent", "failed"} \cup Unfinished
        /\ work.by \in {"none", "slot", "settle", "flat"}
      BY <1>2 DEF Unfinished
  <2> QED BY <1>2, <1>3, <2>1, StagingAdds
<1> QED BY <1>1, <1>3, <1>4 DEF StageCommit, DoubtInv, OnOrphans, WorkType

\* Outside of staging, a row that is in doubt was in doubt.
LEMMA DoubtShrinks ==
    ASSUME Inv, DoubtInv, Flatten, ~StageCommit
    PROVE  InDoubt' \subseteq InDoubt
<1>1. \A j \in Ids \ {work.id} : rows'[j] = rows[j]
    BY FlattenMarks DEF DoubtInv
<1>2. rows' # rows => rows[work.id].status \in Unfinished
    BY FlattenMarks DEF DoubtInv
<1> QED BY <1>1, <1>2 DEF InDoubt

LEMMA ResolveSettles ==
    ASSUME Inv, NEW k \in Ids, Resolve(k)
    PROVE  /\ k \in Staged /\ InDoubt' = InDoubt \ {k} /\ Staged' = Staged
           /\ \A j \in Ids : rows'[j].cycle = rows[j].cycle
           /\ \A j \in Ids \ {k} : rows'[j] = rows[j]
           /\ rows'[k].status \in {"sent", "failed"} /\ rows'[k].by = rows[k].by
<1>1. PICK status \in {"sent", "failed"} : rows' = [rows EXCEPT ![k].status = status]
    BY DEF Resolve
<1>2. k \in Staged
    BY DEF Resolve, InDoubt, Staged, Unfinished
<1>3. /\ Staged' = Staged /\ rows'[k].by = rows[k].by /\ rows'[k].status = status
      /\ \A j \in Ids : rows'[j].cycle = rows[j].cycle
      /\ \A j \in Ids \ {k} : rows'[j] = rows[j]
    BY <1>1, <1>2, StatusMoves
<1> QED BY <1>2, <1>3 DEF InDoubt, Unfinished

LEMMA DoubtIsBlockedKeeps ==
    ASSUME Inv, DoubtInv, Next
    PROVE  DoubtIsBlocked'
<1> USE DEF DoubtInv
<1>1. work \in WorkType
    BY DEF Inv, TypeOK
<1>2. ASSUME NEW c \in Cycles, SlotEnters(c) PROVE DoubtIsBlocked'
  <2>1. UNCHANGED <<rows, mode, slots>> /\ uncertain \subseteq uncertain' /\ mode = "up"
      BY <1>2 DEF SlotEnters
  <2> QED BY <2>1 DEF DoubtIsBlocked, InDoubt, RowPair
<1>14. ASSUME NEW c \in Cycles, ResolveEntry(c) PROVE DoubtIsBlocked'
  <2>1. UNCHANGED <<rows, mode, slots>> /\ mode # "settle"
      BY <1>14 DEF ResolveEntry
  <2>2. \A p \in uncertain : p \in InDoubtPairs' => p \in uncertain'
      BY <1>14 DEF ResolveEntry
  <2> QED BY <2>1, <2>2 DEF DoubtIsBlocked, InDoubt, RowPair, InDoubtPairs
<1>3. ASSUME NEW c \in Cycles, SlotCloses(c) PROVE DoubtIsBlocked'
  <2>1. mode' = "up" /\ slots' = slots
      BY <1>3 DEF SlotCloses
  <2>2. ASSUME NEW k \in Ids, k \in InDoubt', RowPair(k)' \in slots
        PROVE  RowPair(k)' \in uncertain'
    <3>1. CASE k = NextId
        BY <1>3, <2>2, <3>1, ClosesBlock DEF InDoubt, RowPair
    <3>2. CASE k # NextId
        BY <1>3, <2>2, <3>2, ClosesBlock DEF InDoubt, RowPair, DoubtIsBlocked
    <3> QED BY <3>1, <3>2
  <2>3. InDoubt' \subseteq Ids
      BY DEF InDoubt, Ids
  <2> QED BY <2>1, <2>2, <2>3 DEF DoubtIsBlocked
<1>4. ASSUME NEW k \in Ids, Resolve(k) PROVE DoubtIsBlocked'
  <2>1. /\ InDoubt' = InDoubt \ {k}
        /\ \A j \in Ids : rows'[j].cycle = rows[j].cycle
      BY <1>4, ResolveSettles
  <2>2. mode' \in {"recover", "up"} /\ mode' = mode /\ slots' = slots
      BY <1>4 DEF Resolve
  <2>3. uncertain' = IF \E j \in InDoubt \ {k} : RowPair(j) = RowPair(k)
                     THEN uncertain ELSE uncertain \ {RowPair(k)}
      BY <1>4 DEF Resolve
  <2>4. \A j \in InDoubt \ {k} : RowPair(j)' = RowPair(j)
      BY <2>1 DEF RowPair, InDoubt
  <2> QED BY <2>1, <2>2, <2>3, <2>4 DEF DoubtIsBlocked
<1>5. CASE ScanBlocks
    BY <1>5 DEF ScanBlocks, DoubtIsBlocked, InDoubt, RowPair, runner, InDoubtPairs
<1>6. ASSUME NEW d \in Deployments, Boot(d) PROVE DoubtIsBlocked'
    BY <1>6 DEF Boot, DoubtIsBlocked
<1>7. CASE Recovered
    BY <1>7 DEF Recovered, IdleWork, DoubtIsBlocked, InDoubt, RowPair, InDoubtPairs
<1>8. ASSUME NEW scope \in SUBSET Pairs, FlatOnRequest(scope) PROVE DoubtIsBlocked'
    BY <1>8 DEF FlatOnRequest, DoubtIsBlocked, InDoubt, RowPair, runner
<1>9. CASE WorkDone
  <2>1. mode \in {"settle", "up"}
      BY <1>9 DEF WorkDone, Modes, Inv, TypeOK
  <2> QED BY <1>9, <2>1 DEF WorkDone, DoubtIsBlocked, InDoubt, RowPair
<1>10. ASSUME NEW c \in Cycles, Leave(c) PROVE DoubtIsBlocked'
  <2>1. work'.todo = work.todo \ {c} /\ work'.pc = "next"
      BY <1>1, <1>10 DEF Leave, WorkType
  <2> QED BY <1>10, <2>1 DEF Leave, DoubtIsBlocked, InDoubt, RowPair, runner
<1>11. ASSUME NEW c \in Cycles, Take(c) PROVE DoubtIsBlocked'
  <2>1. work'.todo = work.todo \ {c} /\ work'.cycle = c
      BY <1>1, <1>11 DEF Take, WorkType
  <2>2. mode = "settle" => PairOf[c] \notin uncertain
      BY <1>11 DEF Take, Settles, Modes
  <2>3. c \in work.todo /\ UNCHANGED <<rows, mode, slots, uncertain>>
      BY <1>11 DEF Take, runner
  <2> QED BY <2>1, <2>2, <2>3 DEF DoubtIsBlocked, InDoubt, RowPair
<1>12. CASE Flatten
  <2>1. CASE StageCommit
    <3>1. UNCHANGED <<mode, slots, uncertain>>
        BY <2>1, StageCommitAdds DEF runner
    <3>2. work'.pc = "mark" /\ work'.todo = work.todo
        BY <2>1, StageCommitAdds
    <3>3. ASSUME NEW k \in InDoubt'
          PROVE  \/ k \in InDoubt /\ rows'[k].cycle = rows[k].cycle
                 \/ rows'[k].cycle = work.cycle
        BY <2>1, StageCommitAdds DEF InDoubt
    <3>4. work.cycle \notin work.todo /\ PairOf[work.cycle] \notin slots
        BY <2>1, StageCommitAdds
    <3> QED BY <3>1, <3>2, <3>3, <3>4 DEF DoubtIsBlocked, RowPair
  <2>2. CASE ~StageCommit
    <3>1. InDoubt' \subseteq InDoubt
        BY <1>12, <2>2, DoubtShrinks
    <3>2. \A j \in Ids : rows'[j].cycle = rows[j].cycle
        BY <1>12, <2>2, FlattenMarks
    <3>3. UNCHANGED <<mode, slots, uncertain>> /\ work'.todo = work.todo /\ work'.pc # "stage"
        BY <1>12, FlattenStays DEF runner
    <3> QED BY <3>1, <3>2, <3>3 DEF DoubtIsBlocked, RowPair, InDoubt
  <2> QED BY <2>1, <2>2
<1>13. CASE Environment
  <2>1. CASE Crash
      BY <2>1 DEF Crash, DoubtIsBlocked
  <2>2. CASE ~Crash
      BY <1>13, <2>2 DEF Environment, RedisFlushed, EntryTaken, BrokerTakes, BrokerLoses,
          DoubtIsBlocked, InDoubt, RowPair, runner
  <2> QED BY <2>1, <2>2
<1> QED BY <1>2, <1>14, <1>3, <1>4, <1>5, <1>6, <1>7, <1>8, <1>9, <1>10, <1>11, <1>12, <1>13
    DEF Next, Slots, Callers

LEMMA EntriesAreBlockedKeeps ==
    ASSUME Inv, DoubtInv, Next
    PROVE  EntriesAreBlocked'
<1> USE DEF DoubtInv
<1>1. work \in WorkType
    BY DEF Inv, TypeOK
\* A step that leaves the entries alone and unblocks no pair.
<1>2. ASSUME UNCHANGED <<entry, slots, mode>>, uncertain \subseteq uncertain',
             work'.todo \subseteq work.todo
      PROVE  EntriesAreBlocked'
    BY <1>2 DEF EntriesAreBlocked, Entering
<1>3. ASSUME NEW c \in Cycles, SlotEnters(c) PROVE EntriesAreBlocked'
  <2>1. /\ mode = "up" /\ UNCHANGED <<mode, slots>> /\ uncertain \subseteq uncertain'
        /\ Enters(c, "sent") \/ PairOf[c] \in uncertain'
      BY <1>3 DEF SlotEnters
  <2>2. \A e \in Cycles \ {c} : entry'[e] = entry[e]
      BY <1>3, EntriesMove
  <2>3. c \in Entering' => PairOf[c] \in uncertain'
    <3>1. Enters(c, "sent") => entry'[c] = "sent"
        BY DEF Enters, Inv, TypeOK
    <3> QED BY <2>1, <3>1 DEF Entering, Unfinished
  <2> QED BY <2>1, <2>2, <2>3 DEF EntriesAreBlocked, Entering
<1>4. ASSUME NEW c \in Cycles, ResolveEntry(c) PROVE EntriesAreBlocked'
  <2>1. /\ mode \in {"recover", "up"} /\ UNCHANGED <<mode, slots>> /\ c \in Entering
        /\ \A p \in uncertain : p \in InDoubtPairs' => p \in uncertain'
      BY <1>4 DEF ResolveEntry
  <2>2. \A e \in Cycles \ {c} : entry'[e] = entry[e]
      BY <1>4, EntriesMove
  <2>3. Entering' \subseteq Entering
      BY <2>1, <2>2 DEF Entering
  <2>4. \A e \in Entering' : PairOf[e] \in InDoubtPairs'
      BY DEF InDoubtPairs
  <2> QED BY <2>1, <2>3, <2>4 DEF EntriesAreBlocked
<1>5. ASSUME NEW c \in Cycles, SlotCloses(c) PROVE EntriesAreBlocked'
    BY <1>2, <1>5 DEF SlotCloses
<1>6. ASSUME NEW k \in Ids, Resolve(k) PROVE EntriesAreBlocked'
  <2>1. /\ UNCHANGED <<entry, slots, mode, work>> /\ mode # "settle"
        /\ uncertain' \in {uncertain, uncertain \ {RowPair(k)}}
        /\ \A e \in Entering : PairOf[e] # RowPair(k)
      BY <1>6 DEF Resolve
  <2> QED BY <2>1 DEF EntriesAreBlocked, Entering
<1>7. CASE ScanBlocks
    BY <1>2, <1>7 DEF ScanBlocks, runner
<1>8. ASSUME NEW d \in Deployments, Boot(d) PROVE EntriesAreBlocked'
    BY <1>8 DEF Boot, EntriesAreBlocked
<1>9. CASE Recovered
    BY <1>9 DEF Recovered, EntriesAreBlocked, Entering, InDoubtPairs
<1>10. ASSUME NEW scope \in SUBSET Pairs, FlatOnRequest(scope) PROVE EntriesAreBlocked'
    BY <1>10 DEF FlatOnRequest, EntriesAreBlocked, Entering, runner
<1>11. CASE WorkDone
  <2>1. mode \in {"settle", "up"}
      BY <1>11 DEF WorkDone, Modes, Inv, TypeOK
  <2> QED BY <1>11, <2>1 DEF WorkDone, EntriesAreBlocked, Entering
<1>12. ASSUME NEW c \in Cycles, Leave(c) \/ Take(c) PROVE EntriesAreBlocked'
  <2>1. work'.todo = work.todo \ {c}
      BY <1>1, <1>12 DEF Leave, Take, WorkType
  <2> QED BY <1>2, <1>12, <2>1 DEF Leave, Take, runner
<1>13. CASE Flatten
  <2>1. UNCHANGED <<entry, slots, mode, uncertain>> /\ work'.todo = work.todo
      BY <1>13, FlattenStays DEF runner
  <2> QED BY <1>2, <2>1
<1>14. CASE Environment
  <2>1. CASE Crash
      BY <2>1 DEF Crash, EntriesAreBlocked
  <2>2. CASE ~Crash
      BY <1>2, <1>14, <2>2 DEF Environment, RedisFlushed, EntryTaken, BrokerTakes, BrokerLoses,
          runner
  <2> QED BY <2>1, <2>2
<1> QED BY <1>3, <1>4, <1>5, <1>6, <1>7, <1>8, <1>9, <1>10, <1>11, <1>12, <1>13, <1>14
    DEF Next, Slots, Callers

LEMMA OnlyHastyKeeps ==
    ASSUME Inv, DoubtInv, Next
    PROVE  OnlyHasty'
<1> USE DEF DoubtInv
<1>1. work \in WorkType /\ Staged \subseteq Ids
    BY DEF Inv, TypeOK, Staged
\* A step that leaves the entries alone, with the coroutine at the same cycle or none.
<1>2. ASSUME UNCHANGED entry, hasty \subseteq hasty', Staged' = Staged,
             \A k \in Staged : rows'[k].cycle = rows[k].cycle,
             work'.pc \notin {"idle", "next"} =>
                 work.pc \notin {"idle", "next"} /\ work'.cycle = work.cycle
      PROVE  OnlyHasty'
    BY <1>2 DEF OnlyHasty, Entering
<1>3. ASSUME NEW c \in Cycles, SlotEnters(c) \/ ResolveEntry(c) \/ EntryTaken(c)
      PROVE  OnlyHasty'
  <2>1. /\ UNCHANGED <<rows, work, hasty>>
        /\ c \in opened => c \in Entering
        /\ \A e \in Cycles \ {c} : entry'[e] = entry[e]
      BY <1>3, EntriesMove
  <2>2. ASSUME NEW e \in opened, e \in Entering' PROVE e \in Entering
    <3>1. e \in Cycles
        BY DEF Inv, TypeOK
    <3>2. CASE e = c
        BY <2>1, <3>2
    <3>3. CASE e # c
      <4>1. entry'[e] = entry[e]
          BY <2>1, <3>1, <3>3
      <4> QED BY <2>2, <3>1, <4>1 DEF Entering
    <3> QED BY <3>2, <3>3
  <2>3. \A k \in Staged : rows[k].cycle \in opened
      BY DEF OpenedOnly
  <2>4. work.pc \notin {"idle", "next"} => work.cycle \in opened
      BY DEF OnOrphans
  <2>5. Staged' = Staged
    <3>1. rows' = rows
        BY <2>1
    <3> QED BY <3>1 DEF Staged
  <2>6. \A k \in Staged : rows[k].cycle \in Entering' => rows[k].cycle \in hasty
      BY <2>2, <2>3 DEF OnlyHasty
  <2>7. work.pc \notin {"idle", "next"} =>
           (work.cycle \in Entering' => work.cycle \in hasty)
      BY <2>2, <2>4 DEF OnlyHasty
  <2> QED BY <2>1, <2>5, <2>6, <2>7 DEF OnlyHasty
<1>4. ASSUME NEW c \in Cycles, SlotCloses(c) PROVE OnlyHasty'
  <2>1. /\ Staged' = Staged \cup {NextId} /\ rows'[NextId].cycle = c
        /\ \A k \in Staged : rows'[k] = rows[k]
      BY <1>1, <1>4, ClosesBlock
  <2>2. UNCHANGED <<entry, work, hasty>>
      BY <1>4 DEF SlotCloses, history
  <2>3. c \notin Entering
      BY <1>4, ClosesBlock DEF EntriesAreBlocked
  <2>4. Entering' = Entering
      BY <2>2 DEF Entering
  <2> QED BY <2>1, <2>2, <2>3, <2>4 DEF OnlyHasty
<1>5. ASSUME NEW k \in Ids, Resolve(k) PROVE OnlyHasty'
  <2>1. Staged' = Staged /\ \A j \in Ids : rows'[j].cycle = rows[j].cycle
      BY <1>5, ResolveSettles
  <2>2. UNCHANGED <<entry, work, hasty>>
    <3>1. UNCHANGED <<entries, work, history>>
        BY <1>5 DEF Resolve
    <3> QED BY <3>1 DEF history
  <2> QED BY <1>1, <1>2, <2>1, <2>2
<1>6. CASE ScanBlocks
  <2>1. UNCHANGED <<entries, rows, work, history>>
      BY <1>6 DEF ScanBlocks
  <2>2. Staged' = Staged
      BY <2>1 DEF Staged
  <2> QED BY <1>2, <2>1, <2>2 DEF history
<1>7. CASE Callers /\ ~\E c \in Cycles : Take(c)
  <2>1. CASE \E d \in Deployments : Boot(d)
    <3>1. UNCHANGED <<entries, rows, work, history>>
        BY <2>1 DEF Boot
    <3>2. Staged' = Staged
        BY <3>1 DEF Staged
    <3> QED BY <1>2, <3>1, <3>2 DEF history
  <2>2. CASE ~\E d \in Deployments : Boot(d)
    <3>1. work'.pc \in {"idle", "next"}
      <4>1. ASSUME NEW c \in Cycles, Leave(c) PROVE work'.pc \in {"idle", "next"}
          BY <1>1, <4>1 DEF Leave, WorkType
      <4>2. CASE Recovered
          BY <4>2 DEF Recovered, IdleWork
      <4>3. CASE WorkDone
          BY <4>3 DEF WorkDone, IdleWork
      <4>4. ASSUME NEW scope \in SUBSET Pairs, FlatOnRequest(scope)
            PROVE  work'.pc \in {"idle", "next"}
          BY <4>4 DEF FlatOnRequest, IdleWork
      <4> QED BY <1>7, <2>2, <4>1, <4>2, <4>3, <4>4 DEF Callers
    <3>2. UNCHANGED <<entries, rows, history>>
      <4>1. ASSUME NEW c \in Cycles, Leave(c) PROVE UNCHANGED <<entries, rows, history>>
          BY <4>1 DEF Leave
      <4>2. CASE Recovered \/ WorkDone \/ \E scope \in SUBSET Pairs : FlatOnRequest(scope)
          BY <4>2 DEF Recovered, WorkDone, FlatOnRequest
      <4> QED BY <1>7, <2>2, <4>1, <4>2 DEF Callers
    <3>3. Staged' = Staged
        BY <3>2 DEF Staged
    <3> QED BY <1>2, <3>1, <3>2, <3>3 DEF history
  <2> QED BY <2>1, <2>2
<1>8. ASSUME NEW c \in Cycles, Take(c) PROVE OnlyHasty'
  <2>1. /\ UNCHANGED <<entry, rows>> /\ c \in work.todo
        /\ hasty' = IF work.by = "flat" /\ c \in Entering THEN hasty \cup {c} ELSE hasty
        /\ work.by = "settle" => PairOf[c] \notin uncertain
      BY <1>8 DEF Take, Settles
  <2>2. work'.cycle = c /\ work'.pc = "stage"
      BY <1>1, <1>8 DEF Take, WorkType
  <2>3. \/ mode = "settle" /\ work.by = "settle"
        \/ work.by = "flat"
      BY <1>8 DEF Take, Modes, Inv, TypeOK
  <2>4. c \in Entering => c \in hasty'
    <3>1. CASE work.by = "flat"
        BY <2>1, <3>1
    <3>2. CASE mode = "settle" /\ work.by = "settle"
        BY <2>1, <3>2 DEF EntriesAreBlocked
    <3> QED BY <2>3, <3>1, <3>2
  <2>5. Entering' = Entering /\ Staged' = Staged /\ hasty \subseteq hasty'
      BY <2>1 DEF Entering, Staged
  <2> QED BY <2>1, <2>2, <2>4, <2>5 DEF OnlyHasty
<1>9. CASE StageCommit
  <2>1. /\ Staged' = Staged \cup {NextId} /\ NextId \in Ids \ Staged
        /\ rows'[NextId].cycle = work.cycle
        /\ \A k \in Ids \ {NextId} : rows'[k] = rows[k]
        /\ UNCHANGED <<entry, hasty>>
      BY <1>9, StageCommitAdds DEF history
  <2>2. work'.cycle = work.cycle /\ work.pc = "stage"
      BY <1>1, <1>9 DEF StageCommit, WorkType
  <2> QED BY <1>1, <2>1, <2>2 DEF OnlyHasty, Entering
<1>10. CASE Flatten /\ ~StageCommit
  <2>1. /\ Staged' = Staged /\ \A j \in Ids : rows'[j].cycle = rows[j].cycle
      BY <1>10, FlattenMarks
  <2>2. /\ UNCHANGED <<entry, hasty>> /\ work.pc \notin {"idle", "next"}
        /\ work'.pc \notin {"idle", "stage"} /\ (work'.pc # "next" => work'.cycle = work.cycle)
      BY <1>10, FlattenStays
  <2> QED BY <1>1, <1>2, <2>1, <2>2
<1>11. CASE Crash
  <2>1. UNCHANGED <<entry, rows, hasty>> /\ work'.pc = "idle"
      BY <1>11 DEF Crash, IdleWork
  <2> QED BY <1>2, <2>1 DEF Staged
<1>12. CASE RedisFlushed \/ \E k \in Ids : BrokerTakes(k) \/ BrokerLoses(k)
    BY <1>2, <1>12 DEF RedisFlushed, BrokerTakes, BrokerLoses, history, Staged
<1> QED BY <1>3, <1>4, <1>5, <1>6, <1>7, <1>8, <1>9, <1>10, <1>11, <1>12
    DEF Next, Slots, Callers, Environment

LEMMA SettlesOnceKeeps ==
    ASSUME Inv, DoubtInv, Next
    PROVE  SettlesOnce'
<1> USE DEF DoubtInv
<1>1. ASSUME InDoubt' \subseteq InDoubt, Staged' = Staged,
             \A j \in Staged : rows'[j].cycle = rows[j].cycle /\ rows'[j].by = rows[j].by
      PROVE  SettlesOnce'
  <2>1. InDoubt \subseteq Staged
      BY DEF InDoubt, Staged, Unfinished
  <2> QED BY <1>1, <2>1 DEF SettlesOnce, OneCloseInDoubt
<1>2. CASE UNCHANGED rows
    BY <1>1, <1>2 DEF InDoubt, Staged
<1>3. ASSUME NEW c \in Cycles, SlotCloses(c) PROVE SettlesOnce'
  <2>1. \A k \in InDoubt : rows[k].cycle # c
      BY <1>3, ClosesBlock DEF DoubtIsBlocked, RowPair
  <2>2. InDoubt' \subseteq InDoubt \cup {NextId}
      BY <1>3, ClosesBlock DEF InDoubt
  <2>3. rows'[NextId].cycle = c /\ NextId \notin InDoubt
      BY <1>3, ClosesBlock DEF InDoubt, Staged, Unfinished
  <2>4. \A k \in Ids \ {NextId} : rows'[k] = rows[k]
      BY <1>3, ClosesBlock
  <2>5. Staged \subseteq Staged' /\ NextId \notin Staged /\ InDoubt \subseteq Ids
      BY <1>3, ClosesBlock DEF InDoubt
  <2>6. Staged \subseteq Ids
      BY DEF Staged
  <2> QED BY <2>1, <2>2, <2>3, <2>4, <2>5, <2>6 DEF SettlesOnce, OneCloseInDoubt
<1>4. ASSUME NEW k \in Ids, Resolve(k) PROVE SettlesOnce'
  <2>1. \A j \in Staged : rows'[j].cycle = rows[j].cycle /\ rows'[j].by = rows[j].by
      BY <1>4, ResolveSettles DEF Staged
  <2> QED BY <1>1, <1>4, <2>1, ResolveSettles
<1>5. CASE StageCommit
  <2>1. \A k \in Ids \ {NextId} : rows'[k] = rows[k]
      BY <1>5, StageCommitAdds
  <2>2. /\ rows'[NextId].cycle = work.cycle /\ rows'[NextId].by = work.by
        /\ Staged' = Staged \cup {NextId} /\ NextId \in Ids \ Staged
      BY <1>5, StageCommitAdds
  <2>3. InDoubt' \subseteq InDoubt \cup {NextId} /\ NextId \notin InDoubt /\ InDoubt \subseteq Ids
      BY <2>1, <2>2 DEF InDoubt, Staged, Unfinished
  <2>4. CASE work.by = "flat"
      BY <2>2, <2>4 DEF SettlesOnce
  <2>5. CASE work.by # "flat"
    <3>1. mode = "settle" /\ work.pc = "stage"
        BY <1>5, <2>5, StageCommitAdds DEF Modes, Inv, TypeOK
    <3>2. \A k \in InDoubt : rows[k].cycle # work.cycle
        BY <3>1 DEF DoubtIsBlocked
    <3>3. Staged \subseteq Ids
        BY DEF Staged
    <3> QED BY <2>1, <2>2, <2>3, <3>2, <3>3 DEF SettlesOnce, OneCloseInDoubt
  <2> QED BY <2>4, <2>5
<1>6. CASE Flatten /\ ~StageCommit
  <2>1. InDoubt' \subseteq InDoubt
      BY <1>6, DoubtShrinks
  <2>2. Staged' = Staged
      BY <1>6, FlattenMarks
  <2>3. \A j \in Staged : rows'[j].cycle = rows[j].cycle /\ rows'[j].by = rows[j].by
      BY <1>6, FlattenMarks DEF Staged
  <2> QED BY <1>1, <2>1, <2>2, <2>3
<1>7. \/ \E c \in Cycles : SlotEnters(c) \/ ResolveEntry(c)
      \/ ScanBlocks \/ Callers \/ Environment
      => UNCHANGED rows
    BY DEF SlotEnters, ResolveEntry, EntryTaken, ScanBlocks, Callers, Boot, Recovered, WorkDone, FlatOnRequest, Leave,
        Take, Environment, Crash, RedisFlushed, BrokerTakes, BrokerLoses
<1> QED BY <1>2, <1>3, <1>4, <1>5, <1>6, <1>7 DEF Next, Slots

LEMMA UnsentStayKeeps ==
    ASSUME Inv, DoubtInv, UnsentStay, Next
    PROVE  UnsentStay'
<1> USE DEF DoubtInv
<1>1. taken \subseteq Staged /\ net \subseteq Staged /\ Staged \subseteq Ids
    BY DEF Inv, OnlyStagedTravel, Staged
<1>2. ASSUME UNCHANGED rows, taken' \cup net' \subseteq taken \cup net
      PROVE  UnsentStay'
    BY <1>2 DEF UnsentStay
<1>3. ASSUME NEW c \in Cycles, SlotCloses(c) PROVE UnsentStay'
  <2>1. /\ taken' \in {taken, taken \cup {NextId}} /\ net' \in {net, net \cup {NextId}}
      BY <1>3 DEF SlotCloses
  <2>2. NextId \in Ids \ Staged /\ \A k \in Ids \ {NextId} : rows'[k] = rows[k]
      BY <1>3, ClosesBlock
  <2>3. rows'[NextId].status \in {"prepared", "failed"} => UNCHANGED <<taken, net>>
    <3>1. rows \in [Ids -> RowType]
        BY DEF Inv, TypeOK
    <3>2. ASSUME NEW st, Stage(NextId, c, st, "slot")
          PROVE  rows'[NextId].status = st
        BY <2>2, <3>1, <3>2 DEF Stage
    <3>3. \/ rows'[NextId].status \in {"sent", "unknown", "sent_pending"}
          \/ UNCHANGED <<taken, net>>
        BY <1>3, <3>2 DEF SlotCloses
    <3> QED BY <3>3
  <2> QED BY <1>1, <2>1, <2>2, <2>3 DEF UnsentStay
<1>4. ASSUME NEW k \in Ids, Resolve(k) PROVE UnsentStay'
  <2>1. \A j \in Ids \ {k} : rows'[j] = rows[j]
      BY <1>4, ResolveSettles
  <2>2. CASE rows' = [rows EXCEPT ![k].status = "sent"] /\ taken' = taken \cup {k}
    <3>1. net' = net
        BY <1>4 DEF Resolve
    <3>2. rows \in [Ids -> RowType]
        BY DEF Inv, TypeOK
    <3>3. rows'[k].status = "sent"
        BY <2>2, <3>2 DEF RowType
    <3> QED BY <2>1, <2>2, <3>1, <3>3 DEF UnsentStay
  <2>3. CASE rows[k].status = "prepared" /\ taken' = taken
    <3>1. net' = net
        BY <1>4 DEF Resolve
    <3> QED BY <2>1, <2>3, <3>1 DEF UnsentStay
  <2> QED BY <1>4, <2>2, <2>3 DEF Resolve
<1>5. CASE StageCommit
  <2>1. NextId \in Ids \ Staged /\ \A k \in Ids \ {NextId} : rows'[k] = rows[k]
      BY <1>5, StageCommitAdds
  <2>2. UNCHANGED <<taken, net>>
      BY <1>5, StageCommitAdds
  <2> QED BY <1>1, <2>1, <2>2 DEF UnsentStay
<1>6. CASE Send
  <2>1. work.id \in Staged /\ rows[work.id].status \in {"unknown", "sent_pending"}
      BY <1>6 DEF Send, RowOfWork, Inv, WorkIsSound, OnRow
  <2> QED BY <1>6, <2>1 DEF Send, UnsentStay
<1>7. CASE StopsBeforeSend \/ MarkUnknown \/ Checkpoint \/ Finalise
  <2>1. Flatten /\ ~StageCommit
      BY <1>7 DEF Flatten, StageCommit, StopsBeforeSend, MarkUnknown, Checkpoint, Finalise,
          Stage, Inv, TypeOK, Return, WorkType
  <2>2. \A j \in Ids \ {work.id} : rows'[j] = rows[j]
      BY <2>1, FlattenMarks
  <2>3. UNCHANGED <<taken, net>>
      BY <1>7 DEF StopsBeforeSend, MarkUnknown, Checkpoint, Finalise
  <2>4. ASSUME work.id \in Ids, rows'[work.id].status \in {"prepared", "failed"}
        PROVE  work.id \notin taken \cup net
    <3>1. CASE rows' = rows
        BY <2>4, <3>1 DEF UnsentStay
    <3>2. CASE rows' # rows
      <4>1. work.id \in Staged
          BY <2>1, <3>2, FlattenMarks DEF Inv, WorkIsSound
      <4>2. CASE StopsBeforeSend
        <5>1. work.pc = "mark"
            BY <3>2, <4>2 DEF StopsBeforeSend
        <5>2. rows[work.id].status = "prepared"
            BY <5>1 DEF RowOfWork
        <5> QED BY <2>4, <5>2 DEF UnsentStay
      <4>3. CASE MarkUnknown
        <5>1. rows' = [rows EXCEPT ![work.id].status = "unknown"] /\ "unknown" \in Unfinished
            BY <4>3 DEF MarkUnknown, Unfinished
        <5>2. rows'[work.id].status = "unknown"
            BY <4>1, <5>1, StatusMoves
        <5> QED BY <2>4, <5>2
      <4>4. CASE Checkpoint
        <5>1. rows' = [rows EXCEPT ![work.id].status = "sent_pending"]
            BY <3>2, <4>4 DEF Checkpoint, Mark
        <5>2. "sent_pending" \in Unfinished
            BY DEF Unfinished
        <5>3. rows'[work.id].status = "sent_pending"
            BY <4>1, <5>1, <5>2, StatusMoves
        <5> QED BY <2>4, <5>3
      <4>5. CASE Finalise
        <5>1. rows' = [rows EXCEPT ![work.id].status = work.out]
            BY <3>2, <4>5 DEF Finalise, Mark
        <5>2. work.out \in {"sent", "failed"} \cup Unfinished /\ work.out # "prepared"
            BY <4>5 DEF Finalise, Inv, WorkIsSound, TypeOK, WorkType, Unfinished
        <5>3. work.out = "failed"
            BY <2>4, <4>1, <5>1, <5>2, StatusMoves
        <5> QED BY <4>5, <5>3 DEF Finalise, RowOfWork
      <4> QED BY <1>7, <4>2, <4>3, <4>4, <4>5
    <3> QED BY <3>1, <3>2
  <2> QED BY <2>2, <2>3, <2>4 DEF UnsentStay
<1>8. \/ \E c \in Cycles : SlotEnters(c) \/ ResolveEntry(c)
      \/ ScanBlocks \/ Callers \/ SendReturns \/ Decide \/ ClearCached \/ ClearStored
      \/ ClearFails \/ Environment
      => UnsentStay'
    BY <1>2 DEF SlotEnters, ResolveEntry, EntryTaken, ScanBlocks, Callers, Boot, Recovered,
        WorkDone, FlatOnRequest, Leave, Take, SendReturns, Decide, ClearCached, ClearStored, ClearFails, Environment, Crash,
        RedisFlushed, BrokerTakes, BrokerLoses
<1> QED BY <1>3, <1>4, <1>5, <1>6, <1>7, <1>8 DEF Next, Slots, Flatten

\* What is restored for a pair holds whatever the broker holds of it and is recorded.
LEMMA RestoreIsWhole ==
    ASSUME Inv, CacheIsWhole, NEW e \in Recorded
    PROVE  e \in RestoredOf(PairOf[e]) /\ e \in Cycles
<1>1. e \in Cycles /\ e \in stored
    BY DEF Inv, TypeOK, AtBroker, NothingForgotten, Recorded
<1>2. \A c \in cached : PairOf[c] = PairOf[e] => e \in cached
    BY <1>1 DEF CacheIsWhole, Inv, TypeOK
<1> QED BY <1>1, <1>2 DEF RestoredOf

LEMMA CacheIsWholeKeeps ==
    ASSUME Inv, DoubtInv, CacheIsWhole, Next
    PROVE  CacheIsWhole'
<1> USE DEF DoubtInv
<1>1. taken \subseteq Staged /\ Staged \subseteq Ids /\ work \in WorkType
    BY DEF Inv, OnlyStagedTravel, Staged, TypeOK
<1>2. AtBroker \subseteq Cycles /\ Recorded \subseteq Cycles
    BY DEF Inv, TypeOK, AtBroker, Recorded
<1>3. ASSUME AtBroker' \subseteq AtBroker, UNCHANGED <<entry, slots>>,
             cached' \subseteq cached, book' \subseteq book,
             \A e \in AtBroker' : /\ e \in cached => e \in cached'
                                  /\ e \in book => e \in book'
      PROVE  CacheIsWhole'
  <2>1. Recorded' \subseteq Recorded /\ Recorded' \subseteq AtBroker'
      BY <1>3 DEF Recorded, Entering
  <2> QED BY <1>2, <1>3, <2>1 DEF CacheIsWhole
<1>4. ASSUME NEW c \in Cycles, SlotEnters(c) \/ ResolveEntry(c) \/ EntryTaken(c)
      PROVE  CacheIsWhole'
  <2>1. /\ UNCHANGED <<rows, taken, slots>> /\ opened' \subseteq opened \cup {c}
        /\ \A e \in Cycles \ {c} : entry'[e] = entry[e]
        /\ c \in opened' => entry'[c] \in SentSoFar
        /\ entry'[c] = "sent" => c \in cached' /\ c \in book'
      BY <1>4, EntriesMove
  <2>2. /\ cached \subseteq cached' /\ book \subseteq book'
        /\ cached' \subseteq cached \cup {c}
        /\ cached' = cached \/ PairOf[c] \in slots
      BY <1>4, EntriesMove
  <2>3. opened' \subseteq Cycles
      BY <2>1 DEF Inv, TypeOK
  <2>4. ASSUME NEW e \in Recorded' PROVE e \in Recorded \/ (e = c /\ c \in cached' /\ c \in book')
    <3>1. e \in opened' /\ e \notin Entering' /\ e \in Cycles /\ ~Closed(e)'
        BY <2>3, <2>4 DEF Recorded, AtBroker
    <3>2. CASE e = c
        BY <2>1, <3>1, <3>2 DEF SentSoFar, Entering, Unfinished
    <3>3. CASE e # c
        BY <2>1, <3>1, <3>3 DEF Recorded, AtBroker, Closed, Entering
    <3> QED BY <3>2, <3>3
  <2>5. ASSUME NEW x \in cached', NEW e \in Recorded', PairOf[x] = PairOf[e], x \in Cycles
        PROVE  e \in cached'
    <3>1. CASE x \in cached
        BY <1>2, <2>2, <2>4, <2>5, <3>1 DEF CacheIsWhole
    <3>2. CASE x \notin cached
        BY <2>2, <2>4, <2>5, <3>2 DEF CacheIsWhole
    <3> QED BY <3>1, <3>2
  <2>6. ASSUME NEW e \in Recorded', PairOf[e] \in slots PROVE e \in cached' /\ e \in book'
      BY <2>2, <2>4, <2>6 DEF CacheIsWhole
  <2>7. slots' = slots
      BY <2>1
  <2> QED BY <2>5, <2>6, <2>7 DEF CacheIsWhole
<1>5. ASSUME NEW c \in Cycles, SlotCloses(c) PROVE CacheIsWhole'
  <2>1. /\ NextId \in Ids \ Staged /\ rows'[NextId].cycle = c
        /\ \A k \in Ids \ {NextId} : rows'[k] = rows[k]
      BY <1>5, ClosesBlock
  <2>2. /\ taken' \in {taken, taken \cup {NextId}}
        /\ cached' \in {cached, cached \ {c}} /\ book' \in {book, book \ {c}}
        /\ cached' # cached \/ book' # book => NextId \in taken'
        /\ UNCHANGED <<entry, opened, slots>>
      BY <1>5 DEF SlotCloses
  <2>3. AtBroker' \subseteq AtBroker
      BY <1>1, <2>1, <2>2, BrokerKeeps
  <2>4. cached' # cached \/ book' # book => c \notin AtBroker'
      BY <2>1, <2>2 DEF AtBroker, Closed
  <2> QED BY <1>3, <2>2, <2>3, <2>4
<1>6. ASSUME NEW k \in Ids, Resolve(k) PROVE CacheIsWhole'
  <2>1. \A j \in Ids : rows'[j].cycle = rows[j].cycle
      BY <1>6, ResolveSettles
  <2>2. /\ taken' \in {taken, taken \cup {k}}
        /\ cached' \in {cached, cached \ {rows[k].cycle}}
        /\ book' \in {book, book \ {rows[k].cycle}}
        /\ cached' # cached \/ book' # book => k \in taken'
        /\ UNCHANGED <<entry, opened, slots>>
      BY <1>6 DEF Resolve
  <2>3. AtBroker' \subseteq AtBroker
      BY <1>1, <2>1, <2>2, BrokerKeeps
  <2>4. cached' # cached \/ book' # book => rows[k].cycle \notin AtBroker'
      BY <2>1, <2>2 DEF AtBroker, Closed
  <2> QED BY <1>3, <2>2, <2>3, <2>4
<1>7. ASSUME NEW d \in Deployments, Boot(d) PROVE CacheIsWhole'
  <2>1. Recorded' = Recorded
      BY <1>7 DEF Boot, AtBroker, Closed, Recorded, Entering
  <2>2. /\ book' = UNION {RestoredOf(p) : p \in d.loaded}
        /\ cached' = cached \cup book' /\ slots' = d.loaded
      BY <1>7 DEF Boot
  <2>3. ASSUME NEW e \in Recorded, PairOf[e] \in d.loaded PROVE e \in book'
      BY <2>2, <2>3, RestoreIsWhole
  <2>4. \A c \in book' : PairOf[c] \in d.loaded
      BY <2>2 DEF RestoredOf
  <2> QED BY <2>1, <2>2, <2>3, <2>4 DEF CacheIsWhole
<1>8. CASE Flatten
  <2>1. AtBroker' = AtBroker
    <3>1. UNCHANGED <<opened, taken>>
        BY <1>8 DEF Flatten, StageCommit, StopsBeforeSend, MarkUnknown, Send, SendReturns,
            Checkpoint, Finalise, Decide, ClearCached, ClearStored, ClearFails
    <3>2. \A k \in taken : rows'[k].cycle = rows[k].cycle
      <4>1. CASE StageCommit
          BY <1>1, <4>1, StageCommitAdds
      <4>2. CASE ~StageCommit
          BY <1>1, <1>8, <4>2, FlattenMarks
      <4> QED BY <4>1, <4>2
    <3> QED BY <3>1, <3>2 DEF AtBroker, Closed
  <2>2. UNCHANGED <<entry, slots, book>>
      BY <1>8, FlattenStays DEF runner
  <2>3. CASE ClearCached
    <3>1. work.cycle \notin AtBroker
        BY <2>3 DEF ClearCached, Inv, WorkIsSound, OnRow, AtBroker, Closed
    <3> QED BY <1>3, <2>1, <2>2, <2>3, <3>1 DEF ClearCached
  <2>4. CASE ~ClearCached
    <3>1. cached' = cached
        BY <1>8, <2>4 DEF Flatten, StageCommit, StopsBeforeSend, MarkUnknown, Send, SendReturns,
            Checkpoint, Finalise, Decide, ClearStored, ClearFails, stores
    <3> QED BY <1>3, <2>1, <2>2, <3>1
  <2> QED BY <2>3, <2>4
<1>9. ASSUME UNCHANGED <<entry, opened, rows, taken, cached, slots, book>> PROVE CacheIsWhole'
  <2>1. AtBroker' = AtBroker
      BY <1>9 DEF AtBroker, Closed
  <2> QED BY <1>3, <1>9, <2>1
<1>10. CASE Crash \/ RedisFlushed \/ \E k \in Ids : BrokerTakes(k) \/ BrokerLoses(k)
  <2>1. UNCHANGED <<entry, opened, rows>> /\ taken \subseteq taken'
      BY <1>10 DEF Crash, RedisFlushed, BrokerTakes, BrokerLoses
  <2>2. AtBroker' \subseteq AtBroker
      BY <2>1, BrokerKeeps
  <2>3. CASE Crash
    <3>1. slots' = {} /\ cached' = cached /\ Recorded' \subseteq Recorded
        BY <2>1, <2>2, <2>3 DEF Crash, stores, Recorded, Entering
    <3> QED BY <1>2, <3>1 DEF CacheIsWhole
  <2>4. CASE RedisFlushed
    <3>1. slots' = {} /\ cached' = {}
        BY <2>4 DEF RedisFlushed, runner, Modes
    <3> QED BY <3>1 DEF CacheIsWhole
  <2>5. ASSUME NEW k \in Ids, BrokerTakes(k) \/ BrokerLoses(k) PROVE CacheIsWhole'
      BY <1>3, <2>1, <2>2, <2>5 DEF BrokerTakes, BrokerLoses, stores, runner
  <2> QED BY <1>10, <2>3, <2>4, <2>5
<1>11. ScanBlocks \/ (Callers /\ ~\E d \in Deployments : Boot(d)) => CacheIsWhole'
    BY <1>9 DEF ScanBlocks, Callers, Recovered, WorkDone, FlatOnRequest, Leave, Take, stores,
        runner
<1> QED BY <1>4, <1>5, <1>6, <1>7, <1>8, <1>10, <1>11 DEF Next, Slots, Environment

LEMMA MarkedSoFarKeeps ==
    ASSUME Inv, DoubtInv, MarkedSoFar, Next
    PROVE  MarkedSoFar'
<1> USE DEF DoubtInv
<1>1. work \in WorkType
    BY DEF Inv, TypeOK
<1>2. CASE Slots
    BY <1>2, SlotsTouch DEF MarkedSoFar
<1>3. CASE Callers
    BY <1>3, CallersStay DEF MarkedSoFar
<1>4. CASE SendReturns
  <2>1. PICK out \in {"sent", "failed", "unknown"} :
           work' = [work EXCEPT !.out = out,
                      !.pc = IF out = "sent" THEN "checkpoint" ELSE "final"]
      BY <1>4 DEF SendReturns
  <2>2. work'.marked = work.marked
      BY <1>1, <2>1 DEF WorkType
  <2> QED BY <1>4, <2>2 DEF SendReturns, MarkedSoFar
<1>5. CASE StageCommit \/ MarkUnknown \/ Send
    BY <1>1, <1>5 DEF StageCommit, MarkUnknown, Send, MarkedSoFar, WorkType
<1>6. CASE StopsBeforeSend \/ ClearStored \/ ClearFails
    BY <1>1, <1>6 DEF StopsBeforeSend, ClearStored, ClearFails, Return, MarkedSoFar, WorkType
<1>7. CASE Checkpoint \/ Finalise \/ ClearCached
    BY <1>1, <1>7 DEF Checkpoint, Finalise, Mark, ClearCached, MarkedSoFar, WorkType
<1>8. CASE Decide
    BY <1>1, <1>8 DEF Decide, Return, MarkedSoFar, WorkType
<1>9. CASE Environment
    BY <1>9 DEF Environment, Crash, RedisFlushed, EntryTaken, BrokerTakes, BrokerLoses, IdleWork,
        MarkedSoFar, runner
<1> QED BY <1>2, <1>3, <1>4, <1>5, <1>6, <1>7, <1>8, <1>9 DEF Next, Flatten

LEMMA ClosedAreGoneKeeps ==
    ASSUME Inv, DoubtInv, MarkedSoFar, ClosedAreGone, Next
    PROVE  ClosedAreGone'
<1> SUFFICES ASSUME ~cut' PROVE ClosedAreGone'
    BY DEF ClosedAreGone
<1> USE DEF DoubtInv
<1> DEFINE Recording == {"decide", "redis", "table"}
<1>1. work \in WorkType /\ rows \in [Ids -> RowType] /\ Staged \subseteq Ids
    BY DEF Inv, TypeOK, Staged
<1>2. ~cut
    BY DEF Next, Slots, Callers, Flatten, Environment, SlotEnters, ResolveEntry, EntryTaken,
        SlotCloses, Resolve,
        ScanBlocks, Boot, Recovered, FlatOnRequest, WorkDone, Leave, Take, StageCommit,
        StopsBeforeSend, MarkUnknown, Send, SendReturns, Checkpoint, Finalise, Mark, Decide,
        ClearCached, ClearStored, ClearFails, Crash, RedisFlushed, BrokerTakes, BrokerLoses,
        history
<1>3. /\ \A k \in Ids : rows[k].status = "sent" =>
             \/ rows[k].cycle \in hasty
             \/ /\ rows[k].cycle \notin book
                /\ rows[k].cycle \in stored \cup cached =>
                      work.id = k /\ work.out = "sent" /\ work.pc \in Recording
      /\ work.out = "sent" => work.marked
      /\ work.pc = "table" => work.cycle \notin cached
    BY <1>2 DEF ClosedAreGone
<1>4. hasty \subseteq hasty'
  <2>1. Callers => hasty \subseteq hasty'
      BY CallersStay
  <2>2. Flatten => hasty \subseteq hasty'
      BY FlattenStays
  <2> QED BY <2>1, <2>2 DEF Next, Slots, Environment, SlotEnters, ResolveEntry, EntryTaken,
      SlotCloses, Resolve, ScanBlocks, Crash, RedisFlushed, BrokerTakes, BrokerLoses, history
\* A step that closes nothing and puts nothing back, with the coroutine as it was.
<1>5. ASSUME UNCHANGED work, stored' \subseteq stored, cached' \subseteq cached,
             book' \subseteq book,
             \A k \in Ids : rows'[k].status = "sent" =>
                \/ rows[k].status = "sent" /\ rows'[k].cycle = rows[k].cycle
                \/ rows'[k].cycle \notin stored' \cup cached' \cup book'
      PROVE  ClosedAreGone'
    BY <1>3, <1>4, <1>5 DEF ClosedAreGone
\* A step of the coroutine outside of the record, which marks nothing as final.
<1>6. ASSUME work.pc \notin Recording, work'.pc \notin Recording,
             UNCHANGED book, stored' \cup cached' \subseteq stored \cup cached,
             work'.out = "sent" => work'.marked,
             \A k \in Ids : rows'[k].status = "sent" =>
                rows[k].status = "sent" /\ rows'[k].cycle = rows[k].cycle
      PROVE  ClosedAreGone'
    BY <1>3, <1>4, <1>6 DEF ClosedAreGone
<1>7. ASSUME NEW c \in Cycles, SlotEnters(c) \/ ResolveEntry(c) \/ EntryTaken(c)
      PROVE  ClosedAreGone'
  <2>1. /\ UNCHANGED <<rows, work, hasty>>
        /\ \/ UNCHANGED <<stored, cached, book>>
           \/ /\ PairOf[c] \in slots
              /\ stored' \cup cached' \subseteq stored \cup cached \cup {c}
              /\ cached' \subseteq cached \cup {c} /\ book' \subseteq book \cup {c}
    <3>1. UNCHANGED <<rows, work, hasty>>
        BY <1>7, EntriesMove
    <3>2. \/ UNCHANGED <<stored, cached, book>>
          \/ /\ c \in opened' /\ PairOf[c] \in slots /\ mode \in {"recover", "up"}
             /\ stored' \in {stored, stored \cup {c}}
             /\ cached' \in {cached, cached \cup {c}}
             /\ book' \in {book, book \cup {c}}
        BY <1>7, EntriesMove
    <3> QED BY <3>1, <3>2
  <2>2. work.pc = "table" => PairOf[work.cycle] \notin slots
      BY DEF OnOrphans
  <2>3. \A k \in Ids : rows[k].status = "sent" /\ rows[k].cycle = c => c \in hasty
    <3> SUFFICES ASSUME NEW k \in Ids, rows[k].status = "sent", rows[k].cycle = c
                 PROVE  c \in hasty
        OBVIOUS
    <3>1. k \in Staged /\ c \in opened
        BY DEF Staged, OpenedOnly
    <3>2. c \in Entering
        BY <1>7, <3>1, EntriesMove
    <3> QED BY <3>1, <3>2 DEF OnlyHasty
  <2>4. \A k \in Ids : rows'[k].status = "sent" =>
             \/ rows'[k].cycle \in hasty'
             \/ /\ rows'[k].cycle \notin book'
                /\ rows'[k].cycle \in stored' \cup cached' =>
                      work'.id = k /\ work'.out = "sent" /\ work'.pc \in Recording
      BY <1>3, <2>1, <2>3
  <2> QED BY <1>3, <2>1, <2>2, <2>4 DEF ClosedAreGone
<1>8. ASSUME NEW c \in Cycles, SlotCloses(c) PROVE ClosedAreGone'
  <2>1. /\ NextId \in Ids \ Staged /\ rows'[NextId].cycle = c
        /\ \A k \in Ids \ {NextId} : rows'[k] = rows[k]
      BY <1>8, ClosesBlock
  <2>2. /\ UNCHANGED work
        /\ stored' \subseteq stored /\ cached' \subseteq cached /\ book' \subseteq book
      BY <1>8 DEF SlotCloses
  <2>3. ASSUME NEW st, Stage(NextId, c, st, "slot")
        PROVE  rows'[NextId].status = st
      BY <1>1, <2>1, <2>3 DEF Stage
  <2>4. \/ rows'[NextId].status \in {"failed", "prepared", "unknown", "sent_pending"}
        \/ stored' = stored \ {c} /\ cached' = cached \ {c} /\ book' = book \ {c}
      BY <1>8, <2>3 DEF SlotCloses
  <2>5. rows'[NextId].status = "sent" => c \notin stored' \cup cached' \cup book'
      BY <2>4
  <2> QED BY <1>5, <2>1, <2>2, <2>5
<1>9. ASSUME NEW k \in Ids, Resolve(k) PROVE ClosedAreGone'
  <2>1. /\ UNCHANGED work
        /\ stored' \subseteq stored /\ cached' \subseteq cached /\ book' \subseteq book
      BY <1>9 DEF Resolve
  <2>2. /\ \A j \in Ids : rows'[j].cycle = rows[j].cycle
        /\ \A j \in Ids \ {k} : rows'[j] = rows[j]
      BY <1>9, ResolveSettles
  <2>3. rows'[k].status = "sent" => rows[k].cycle \notin stored' \cup cached' \cup book'
    <3>1. CASE /\ stored' = stored \ {rows[k].cycle} /\ cached' = cached \ {rows[k].cycle}
               /\ book' = book \ {rows[k].cycle}
        BY <3>1
    <3>2. CASE rows' = [rows EXCEPT ![k].status = "failed"]
        BY <1>1, <3>2 DEF RowType
    <3> QED BY <1>9, <3>1, <3>2 DEF Resolve
  <2> QED BY <1>5, <2>1, <2>2, <2>3
<1>10. CASE ScanBlocks
    BY <1>5, <1>10 DEF ScanBlocks, stores, runner
<1>11. CASE Callers
  <2>1. UNCHANGED <<rows, stored>> /\ work'.pc \notin Recording /\ work'.out = "none"
      BY <1>11, CallersStay
  <2>2. CASE \E d \in Deployments : Boot(d)
    <3>1. /\ book' \subseteq stored \cup cached /\ cached' \subseteq stored \cup cached
          /\ mode = "down" /\ UNCHANGED work
        BY <2>2 DEF Boot, RestoredOf
    <3>2. work.pc = "idle" /\ work.out = "none"
        BY <2>1, <3>1 DEF Modes
    <3> QED BY <1>3, <1>4, <2>1, <3>1, <3>2 DEF ClosedAreGone
  <2>3. CASE ~\E d \in Deployments : Boot(d)
    <3>1. work.pc \notin Recording /\ UNCHANGED <<cached, book>>
        BY <1>11, <2>3 DEF Callers, Recovered, WorkDone, FlatOnRequest, Leave, Take, stores,
            runner, Modes
    <3> QED BY <1>6, <2>1, <3>1
  <2> QED BY <2>2, <2>3
<1>12. CASE StageCommit
  <2>1. /\ NextId \in Ids /\ rows'[NextId].status = "prepared"
        /\ \A k \in Ids \ {NextId} : rows'[k] = rows[k]
      BY <1>12, StageCommitAdds
  <2>2. /\ work.pc = "stage" /\ work'.pc = "mark" /\ UNCHANGED <<stored, cached, book>>
        /\ work'.out = work.out /\ work'.marked = work.marked
      BY <1>12, StageCommitAdds DEF stores, runner
  <2> QED BY <1>3, <1>6, <2>1, <2>2
<1>13. CASE StopsBeforeSend
  <2>1. /\ work.pc \notin Recording /\ work'.pc = "next" /\ work'.out = "none"
        /\ UNCHANGED <<stored, cached, book>>
      BY <1>13, ReturnIsIdle DEF StopsBeforeSend, stores, runner
  <2>2. ASSUME NEW k \in Ids, rows'[k].status = "sent"
        PROVE  rows[k].status = "sent" /\ rows'[k].cycle = rows[k].cycle
      BY <1>1, <1>13, <2>2 DEF StopsBeforeSend, RowType
  <2> QED BY <1>6, <2>1, <2>2
<1>14. CASE MarkUnknown \/ Send
  <2>1. /\ work.pc \notin Recording /\ work'.pc \notin Recording
        /\ work'.out = work.out /\ work'.marked = work.marked
        /\ UNCHANGED <<stored, cached, book>>
      BY <1>1, <1>14 DEF MarkUnknown, Send, WorkType, stores, runner
  <2>2. ASSUME NEW k \in Ids, rows'[k].status = "sent"
        PROVE  rows[k].status = "sent" /\ rows'[k].cycle = rows[k].cycle
      BY <1>1, <1>14, <2>2 DEF MarkUnknown, Send, RowType
  <2> QED BY <1>3, <1>6, <2>1, <2>2
<1>15. CASE SendReturns
  <2>1. PICK out \in {"sent", "failed", "unknown"} :
           work' = [work EXCEPT !.out = out,
                      !.pc = IF out = "sent" THEN "checkpoint" ELSE "final"]
      BY <1>15 DEF SendReturns
  <2>2. work'.marked = work.marked /\ work'.pc \notin Recording
      BY <1>1, <2>1 DEF WorkType
  <2>3. work.pc = "sending" /\ work.marked /\ UNCHANGED <<rows, stored, cached, book>>
      BY <1>15 DEF SendReturns, MarkedSoFar, stores, runner
  <2> QED BY <1>6, <2>2, <2>3
<1>16. CASE Checkpoint
  <2>1. /\ work.pc \notin Recording /\ work'.pc \notin Recording
        /\ UNCHANGED <<stored, cached, book>> /\ work.marked
      BY <1>1, <1>16 DEF Checkpoint, Mark, WorkType, stores, runner, MarkedSoFar
  <2>2. work.out = "sent"
      BY <1>16 DEF Checkpoint, Inv, WorkIsSound
  <2>3. work'.marked
    <3>1. PICK ok \in BOOLEAN :
             /\ work' = [work EXCEPT !.pc = "final", !.marked = @ /\ ok]
             /\ cut' = (cut \/ (work.out = "sent" /\ ~ok))
        BY <1>16 DEF Checkpoint, Mark
    <3>2. ok
        BY <2>2, <3>1
    <3> QED BY <1>1, <2>1, <3>1, <3>2 DEF WorkType
  <2>4. ASSUME NEW k \in Ids, rows'[k].status = "sent"
        PROVE  rows[k].status = "sent" /\ rows'[k].cycle = rows[k].cycle
      BY <1>1, <1>16, <2>4 DEF Checkpoint, Mark, RowType
  <2> QED BY <1>6, <2>1, <2>3, <2>4
<1>17. CASE Finalise
  <2>1. PICK ok \in BOOLEAN :
           /\ rows' = [rows EXCEPT ![work.id].status = work.out] \/ (~ok /\ rows' = rows)
           /\ work' = [work EXCEPT !.pc = "decide", !.marked = @ /\ ok]
           /\ cut' = (cut \/ (work.out = "sent" /\ ~ok))
      BY <1>17 DEF Finalise, Mark
  <2>2. work.out = "sent" => ok /\ work.marked
      BY <1>3, <2>1
  <2>3. /\ work'.id = work.id /\ work'.out = work.out /\ work'.pc = "decide"
        /\ work.out = "sent" => work'.marked
      BY <1>1, <2>1, <2>2 DEF WorkType
  <2>4. UNCHANGED <<stored, cached, book>> /\ work.pc = "final"
      BY <1>17 DEF Finalise, stores, runner
  <2>5. /\ work.id \in Staged /\ rows[work.id].cycle = work.cycle
        /\ rows[work.id].status # "sent" /\ PairOf[work.cycle] \notin slots
      BY <2>4 DEF Inv, WorkIsSound, OnRow, RowOfWork, OnOrphans
  <2>6. \A k \in Ids : rows'[k].cycle = rows[k].cycle
      BY <1>1, <2>1 DEF RowType
  <2>7. \A k \in Ids \ {work.id} : rows'[k] = rows[k]
      BY <1>1, <2>1 DEF RowType
  <2>8. rows'[work.id].status = "sent" => work.out = "sent"
    <3>1. CASE rows' = rows
        BY <2>5, <3>1
    <3>2. CASE rows' = [rows EXCEPT ![work.id].status = work.out]
        BY <1>1, <2>5, <3>2 DEF RowType
    <3> QED BY <2>1, <3>1, <3>2
  <2>9. work.cycle \notin book
      BY <2>5 DEF OpenedOnly
  <2>10. ASSUME NEW k \in Ids, rows'[k].status = "sent"
         PROVE  \/ rows'[k].cycle \in hasty'
                \/ /\ rows'[k].cycle \notin book'
                   /\ rows'[k].cycle \in stored' \cup cached' =>
                         work'.id = k /\ work'.out = "sent" /\ work'.pc \in Recording
    <3>1. CASE k = work.id
        BY <2>3, <2>4, <2>5, <2>6, <2>8, <2>9, <2>10, <3>1
    <3>2. CASE k # work.id
        BY <1>3, <1>4, <2>4, <2>7, <2>10, <3>2
    <3> QED BY <3>1, <3>2
  <2> QED BY <2>3, <2>10 DEF ClosedAreGone
<1>18. CASE Decide
  <2>1. UNCHANGED <<rows, stored, cached, book>>
      BY <1>18 DEF Decide, stores, runner
  <2>2. CASE work.out = "sent" /\ work.marked
    <3>1. /\ work'.id = work.id /\ work'.out = work.out /\ work'.pc = "redis"
          /\ work'.marked = work.marked
        BY <1>1, <1>18, <2>2 DEF Decide, WorkType
    <3> QED BY <1>3, <1>4, <2>1, <2>2, <3>1 DEF ClosedAreGone
  <2>3. CASE work.out # "sent"
    <3>1. work'.out = "none" /\ work'.pc = "next"
        BY <1>18, <2>3, ReturnIsIdle DEF Decide
    <3> QED BY <1>3, <1>4, <2>1, <2>3, <3>1 DEF ClosedAreGone
  <2> QED BY <1>3, <2>2, <2>3
<1>19. CASE ClearCached
  <2>1. /\ work'.id = work.id /\ work'.out = work.out /\ work'.pc = "table"
        /\ work'.marked = work.marked /\ work'.cycle = work.cycle
      BY <1>1, <1>19 DEF ClearCached, WorkType
  <2>2. cached' = cached \ {work.cycle} /\ UNCHANGED <<rows, stored, book>>
      BY <1>19 DEF ClearCached, runner
  <2> QED BY <1>3, <1>4, <2>1, <2>2 DEF ClosedAreGone
<1>20. CASE ClearStored
  <2>1. /\ stored' = stored \ {work.cycle} /\ work.pc = "table"
        /\ work'.out = "none" /\ work'.pc = "next" /\ UNCHANGED <<rows, cached, book>>
      BY <1>20, ReturnIsIdle DEF ClearStored, runner
  <2>2. rows[work.id].cycle = work.cycle /\ work.cycle \notin cached
      BY <1>3, <2>1 DEF Inv, WorkIsSound, OnRow
  <2> QED BY <1>3, <1>4, <2>1, <2>2 DEF ClosedAreGone
<1>21. CASE ClearFails
    BY <1>21 DEF ClearFails
<1>22. CASE Crash
  <2>1. ~(work.pc \in Recording /\ work.out = "sent")
      BY <1>22 DEF Crash
  <2>2. /\ book' = {} /\ work'.out = "none" /\ work'.pc = "idle"
        /\ UNCHANGED <<rows, stored, cached>>
      BY <1>22 DEF Crash, IdleWork, stores
  <2> QED BY <1>3, <1>4, <2>1, <2>2 DEF ClosedAreGone
<1>23. CASE RedisFlushed \/ \E k \in Ids : BrokerTakes(k) \/ BrokerLoses(k)
    BY <1>5, <1>23 DEF RedisFlushed, BrokerTakes, BrokerLoses, stores, runner
<1> QED BY <1>7, <1>8, <1>9, <1>10, <1>11, <1>12, <1>13, <1>14, <1>15, <1>16, <1>17, <1>18,
        <1>19, <1>20, <1>21, <1>22, <1>23 DEF Next, Slots, Flatten, Environment

LEMMA OrphanInit == Init => DoubtInv /\ BookInv
<1> SUFFICES ASSUME Init PROVE DoubtInv /\ BookInv
    OBVIOUS
<1>1. Staged = {} /\ InDoubt = {} /\ AtBroker = {}
    BY DEF Init, Staged, InDoubt, Unfinished, AtBroker, NoRow
<1>2. work.pc = "idle" /\ work.out = "none" /\ work.todo = {} /\ work.marked
    BY DEF Init, IdleWork
<1>3. /\ Modes /\ OnOrphans /\ RowOfWork /\ OpenedOnly /\ DoubtIsBlocked /\ SettlesOnce
      /\ EntriesAreBlocked /\ OnlyHasty
    BY <1>1, <1>2 DEF Init, Modes, OnOrphans, RowOfWork, OnRow, OpenedOnly, DoubtIsBlocked,
        SettlesOnce, OneCloseInDoubt, EntriesAreBlocked, OnlyHasty
<1>4. UnsentStay /\ CacheIsWhole /\ MarkedSoFar
    BY <1>1, <1>2 DEF Init, UnsentStay, CacheIsWhole, MarkedSoFar, Recorded
<1>5. ClosedAreGone
    BY <1>2 DEF Init, ClosedAreGone, NoRow
<1> QED BY <1>3, <1>4, <1>5 DEF DoubtInv, BookInv

THEOREM OrphanInvariance == Spec => [](DoubtInv /\ BookInv)
<1>1. Inv /\ Inv' /\ DoubtInv /\ BookInv /\ [Next]_vars => DoubtInv' /\ BookInv'
  <2> SUFFICES ASSUME Inv, Inv', DoubtInv, BookInv, [Next]_vars PROVE DoubtInv' /\ BookInv'
      OBVIOUS
  <2>1. CASE Next
    <3>1. Modes' /\ OnOrphans'
        BY <2>1, ModesKeep, OnOrphansKeep DEF DoubtInv
    <3>2. RowOfWork' /\ OpenedOnly' /\ DoubtIsBlocked' /\ SettlesOnce'
        BY <2>1, RowOfWorkKeeps, OpenedOnlyKeeps, DoubtIsBlockedKeeps, SettlesOnceKeeps
        DEF BookInv
    <3>4. EntriesAreBlocked' /\ OnlyHasty'
        BY <2>1, EntriesAreBlockedKeeps, OnlyHastyKeeps DEF BookInv
    <3>3. UnsentStay' /\ CacheIsWhole' /\ ClosedAreGone' /\ MarkedSoFar'
        BY <2>1, UnsentStayKeeps, CacheIsWholeKeeps, ClosedAreGoneKeeps, MarkedSoFarKeeps
        DEF BookInv
    <3> QED BY <3>1, <3>2, <3>3, <3>4 DEF DoubtInv, BookInv
  <2>2. CASE UNCHANGED vars
    <3>1. DoubtInv'
        BY <2>2 DEF vars, DoubtInv, Modes, OnOrphans, RowOfWork, OpenedOnly, DoubtIsBlocked,
            SettlesOnce, OneCloseInDoubt, InDoubt, Staged, RowPair, EntriesAreBlocked, OnlyHasty,
            Entering
    <3>2. BookInv'
        BY <2>2 DEF vars, BookInv, UnsentStay, CacheIsWhole, ClosedAreGone, MarkedSoFar,
            AtBroker, Closed, Recorded, Entering
    <3> QED BY <3>1, <3>2
  <2> QED BY <2>1, <2>2
<1> QED BY <1>1, OrphanInit, Invariance, PTL DEF Spec

\* As long as nobody uses /flat, no cycle ever has two closes of which neither is
\* settled, however often the runner dies and whatever is retired or mounted again.
THEOREM OrphansSettleOnce == Spec => []SettlesOnce
<1>1. DoubtInv => SettlesOnce
    BY DEF DoubtInv
<1> QED BY <1>1, OrphanInvariance, PTL

\* A pair that a slot drives and that is not blocked has the broker's cycles in its book,
\* and none besides but one that /flat closed while its entry was in doubt, unless the
\* record of a confirmed close was cut short.
THEOREM OrphanBooksMatch == Spec => []BooksMatchBroker
<1>1. Inv /\ DoubtInv /\ BookInv => BooksMatchBroker
  <2> SUFFICES ASSUME Inv, DoubtInv, BookInv, ~cut, mode = "up",
                      NEW p \in slots \ uncertain, NEW c, PairOf[c] = p
               PROVE  /\ c \in AtBroker => c \in book
                      /\ c \in book => c \in AtBroker \cup hasty
      BY DEF BooksMatchBroker, BookMatchesBroker
  <2>1. c \notin Entering
      BY DEF DoubtInv, EntriesAreBlocked
  <2>2. c \in AtBroker => c \in book
      BY <2>1 DEF BookInv, CacheIsWhole, Recorded
  <2>3. ASSUME c \in book, c \notin hasty, Closed(c) PROVE FALSE
    <3>1. PICK k \in taken : rows[k].cycle = c
        BY <2>3 DEF Closed
    <3>2. k \in Staged /\ k \in Ids /\ rows[k] \in RowType
        BY DEF Inv, OnlyStagedTravel, TypeOK
    <3>3. rows[k].status # "sent"
        BY <2>3, <3>1, <3>2 DEF BookInv, ClosedAreGone
    <3>4. rows[k].status # "failed"
        BY <3>2 DEF BookInv, UnsentStay
    <3>5. k \in InDoubt /\ RowPair(k) = p
        BY <2>3, <3>1, <3>2, <3>3, <3>4 DEF InDoubt, Staged, RowType, Unfinished, RowPair
    <3> QED BY <3>5 DEF DoubtInv, DoubtIsBlocked
  <2>4. c \in book => c \in opened
      BY DEF DoubtInv, OpenedOnly
  <2> QED BY <2>2, <2>3, <2>4 DEF AtBroker
<1> QED BY <1>1, Invariance, OrphanInvariance, PTL
=============================================================================
