---------------------------- MODULE OperatorProofs ----------------------------
(***************************************************************************)
(* The two switches for any number of pairs, names and commands.  What is  *)
(* read after a switch is stored carries the switch: an answer that a slot *)
(* waits to take, given since its work began in a pause, is never one that *)
(* lets it through.                                                        *)
(*                                                                         *)
(* Below them what the chats are shown of a cycle (CycleMessages), for any *)
(* number of chats, rows, retries and failures, and which errors of a      *)
(* service they hear of (ErrorForwarding); and what an operator's buttons  *)
(* ask for and his pages show (OperatorBot), for any book and presses.     *)
(***************************************************************************)
EXTENDS OperatorSwitches, Integers, Sequences, TLAPS

CONSTANTS Rows, ChatOrder, Capacity, MaxBlocks, MaxTroubles, MaxRepeats
VARIABLES outbox, notifier, updates, worker, cycle, posts, excuses, troubles
Messages == INSTANCE CycleMessages WITH Chats <- ChatOrder

CONSTANTS Errors, SendPath, ErrorChats, QueueCapacity, Window, Active, Announces,
          MaxNow, MaxErrors
VARIABLES life, attached, taking, recent, calls, queue, sending, now, started, telling,
          told, closes, errors, logged, sent, dropped
Forwarding == INSTANCE ErrorForwarding WITH Chats <- ErrorChats

CONSTANTS Users, Operators, Symbols, Cycles, TooLong, PerPage, MaxMessages, MaxPresses, MaxFaults
CONSTANT Part    \* what the names of symbols and strategies are made of
VARIABLES open, ended, runner, blocked, botPosts, flats, reading, closedBy, windows, presses, faults
Bot == INSTANCE OperatorBot WITH messages <- botPosts

\* a slot waits for the answer to what it asked, and without work for none
Fits(t) ==
    /\ t.pc = "gate" => t.reply \in {"none", "read", "failed"}
    /\ t.pc \in Reading \ {"gate"} => t.reply \in {"none", "failed"} \cup Modes
    /\ t.pc \in {"idle", "sent"} => t.reply = "none"

AnswersFit ==
    /\ \A p \in Pairs : Fits(tasks[p])
    /\ control.pc = "idle" => control.reply = "none"
    /\ control.pc = "mode" => control.reply \in {"none", "failed"} \cup Modes
    /\ control.pc = "gate" => control.reply \in {"none", "read", "failed"}

\* a stopped runner has no work and waits for nothing
AtRest ==
    ~up => control.pc = "idle" /\ sync = "none" /\ \A p \in Pairs : tasks[p].pc = "idle"

PauseStands ==
    \A p \in paused :
        /\ Effective(storedMode) = "on"
        /\ tasks[p].pc # "gate" => tasks[p].reply \in {"none", "on", "failed"}

GateStands ==
    \A p \in gated :
        /\ Blocks(storedGate, p)
        /\ tasks[p].pc = "gate" /\ tasks[p].reply = "read" => Blocks(tasks[p].gate, p)

\* every gate that the runner has read, or may still take, blocks the pairs gated since its
\* start
StartStands ==
    \A p \in since :
        /\ Blocks(storedGate, p)
        /\ ~blind => Blocks(runnerGate, p)
        /\ \A q \in Pairs : tasks[q].pc = "gate" /\ tasks[q].reply = "read"
                               => Blocks(tasks[q].gate, p)
        /\ control.pc = "gate" /\ control.reply = "read"
                               => Blocks(control.gate, p)

Inv == TypeOK /\ AnswersFit /\ AtRest

-----------------------------------------------------------------------------
(* A command turns a gate into a gate. *)
LEMMA ChangeIsAGate ==
    ASSUME NEW g \in Gates, NEW blocking \in BOOLEAN, NEW scope \in Scopes
    PROVE  Change(g, blocking, scope) \in Gates
<1>1. EmptyGate \in Gates
    BY DEF EmptyGate, Gates
<1>2. ASSUME scope # All
      PROVE  [g EXCEPT !.names = @ \cup {scope}] \in Gates
             /\ [g EXCEPT !.names = @ \ {scope}] \in Gates
    BY <1>2 DEF Gates, Scopes
<1>3. [g EXCEPT !.everything = TRUE] \in Gates
    BY DEF Gates
<1> QED BY <1>1, <1>2, <1>3 DEF Change, Prevented, Allowed

(* A mode or its absence stands for a mode. *)
LEMMA EffectiveIsAMode ==
    ASSUME NEW stored \in Stops
    PROVE  Effective(stored) \in Modes
BY DEF Effective, Stops, Modes

(* Whatever is read leaves the runner with a mode and a gate. *)
LEMMA TakenIsKnown ==
    ASSUME TypeOK, NEW reply \in {"failed"} \cup Modes
    PROVE  ModeAfter(reply) \in Modes
BY DEF ModeAfter, Modes

-----------------------------------------------------------------------------
(* Types, and answers that fit                                             *)

(* What a slot becomes keeps the kinds of the slots and the fit of the answers. *)
LEMMA TasksKept ==
    ASSUME Inv, NEW p \in Pairs, NEW t \in Tasks, Fits(t), tasks' = [tasks EXCEPT ![p] = t],
           up, up' = up, control' = control
    PROVE  tasks' \in [Pairs -> Tasks] /\ AnswersFit' /\ AtRest'
<1>1. tasks \in [Pairs -> Tasks]
    BY DEF Inv, TypeOK
<1>2. tasks' \in [Pairs -> Tasks]
    BY <1>1
<1>3. \A q \in Pairs : tasks'[q] = IF q = p THEN t ELSE tasks[q]
    BY <1>1
<1>4. \A q \in Pairs : Fits(tasks'[q])
    BY <1>3 DEF AnswersFit, Inv
<1>5. AnswersFit'
    BY <1>4 DEF AnswersFit, Inv, Fits
<1> QED BY <1>2, <1>5 DEF AtRest

(* The initial state. *)
LEMMA InitHolds == Init => Inv /\ PauseStands /\ GateStands /\ StartStands
<1> SUFFICES ASSUME Init PROVE Inv /\ PauseStands /\ GateStands /\ StartStands
    OBVIOUS
<1>1. EmptyGate \in Gates
    BY DEF EmptyGate, Gates
<1>2. Effective("unset") \in Modes
    BY EffectiveIsAMode DEF Stops
<1>3. IdleChat \in [pc : {"idle", "write"}, blocking : BOOLEAN, scope : Scopes, gate : Gates]
    BY <1>1 DEF IdleChat, Scopes
<1>4. IdleTask \in Tasks
    BY <1>1 DEF IdleTask, Tasks, Replies
<1>5. control \in [pc : {"idle", "gate", "mode"}, reply : Replies, gate : Gates]
    BY <1>1 DEF Init, Replies
<1>6. TypeOK
    BY <1>1, <1>2, <1>3, <1>4, <1>5 DEF Init, TypeOK, Stops
<1>7. AtRest
    BY DEF Init, AtRest, IdleTask
<1>8. AnswersFit
    BY DEF Init, AnswersFit, Fits, IdleTask, Reading
<1> QED BY <1>6, <1>7, <1>8 DEF Inv, Init, PauseStands, GateStands, StartStands

(* Every step keeps the types, and every answer stays one to what was asked. *)
LEMMA StepKeepsInv == Inv /\ [Next]_vars => Inv'
<1> SUFFICES ASSUME Inv, [Next]_vars PROVE Inv'
    OBVIOUS
<1>e. EmptyGate \in Gates /\ storedGate \in Gates /\ runnerGate \in Gates
    BY DEF EmptyGate, Gates, Inv, TypeOK
<1>u. Effective("unset") \in Modes /\ Effective(storedMode) \in Modes
    BY EffectiveIsAMode DEF Stops, Inv, TypeOK
<1>i. IdleTask \in Tasks /\ Fits(IdleTask)
    BY <1>e DEF IdleTask, Tasks, Replies, Fits, Reading
<1>t. tasks \in [Pairs -> Tasks]
    BY DEF Inv, TypeOK
<1>f. \A p \in Pairs : tasks[p] \in Tasks /\ Fits(tasks[p])
    BY <1>t DEF Inv, AnswersFit
<1>1. ASSUME NEW mode \in Modes, SetShadowMode(mode) PROVE Inv'
    BY <1>1 DEF SetShadowMode, Inv, TypeOK, AnswersFit, AtRest, Fits, Stops
<1>2. ASSUME NEW c \in Chats, ReadGate(c) PROVE Inv'
    <2>1. PICK blocking \in BOOLEAN, scope \in Scopes, failed \in {FALSE, ReadsMayFail} :
             chats' = [chats EXCEPT ![c] =
                 [pc |-> "write", blocking |-> blocking, scope |-> scope,
                  gate |-> IF failed THEN EmptyGate ELSE storedGate]]
        BY <1>2 DEF ReadGate
    <2> DEFINE g == IF failed THEN EmptyGate ELSE storedGate
    <2>2. g \in Gates
        BY <1>e
    <2>3. chats' = [chats EXCEPT ![c] =
             [pc |-> "write", blocking |-> blocking, scope |-> scope, gate |-> g]]
        BY <2>1
    <2> HIDE DEF g
    <2>4. chats' \in [Chats -> [pc : {"idle", "write"}, blocking : BOOLEAN, scope : Scopes,
                               gate : Gates]]
        BY <2>2, <2>3 DEF Inv, TypeOK
    <2> QED BY <1>2, <2>4 DEF ReadGate, Inv, TypeOK, AnswersFit, AtRest, Fits, redis, held
<1>3. ASSUME NEW c \in Chats, WriteGate(c) PROVE Inv'
    <2>1. /\ chats[c].gate \in Gates /\ chats[c].blocking \in BOOLEAN
          /\ chats[c].scope \in Scopes
        BY DEF Inv, TypeOK
    <2>2. storedGate' \in Gates
        BY <1>3, <2>1, ChangeIsAGate DEF WriteGate
    <2>3. IdleChat \in [pc : {"idle", "write"}, blocking : BOOLEAN, scope : Scopes,
                        gate : Gates]
        BY <1>e DEF IdleChat, Scopes
    <2>4. chats' \in [Chats -> [pc : {"idle", "write"}, blocking : BOOLEAN, scope : Scopes,
                               gate : Gates]]
        BY <1>3, <2>3 DEF WriteGate, Inv, TypeOK
    <2>5. gated' \subseteq Pairs /\ since' \subseteq Pairs /\ bus' \subseteq {"gate", "mode"}
        BY <1>3 DEF WriteGate, Inv, TypeOK
    <2> QED BY <1>3, <2>2, <2>4, <2>5 DEF WriteGate, Inv, TypeOK, AnswersFit, AtRest, Fits
<1>4. ASSUME NEW c \in Chats, WriteFails(c) PROVE Inv'
    <2>1. IdleChat \in [pc : {"idle", "write"}, blocking : BOOLEAN, scope : Scopes,
                        gate : Gates]
        BY <1>e DEF IdleChat, Scopes
    <2>2. chats' \in [Chats -> [pc : {"idle", "write"}, blocking : BOOLEAN, scope : Scopes,
                               gate : Gates]]
        BY <1>4, <2>1 DEF WriteFails, Inv, TypeOK
    <2> QED BY <1>4, <2>2 DEF WriteFails, Inv, TypeOK, AnswersFit, AtRest, Fits, redis, held
<1>5. CASE Start
    <2>1. runnerGate' \in Gates /\ since' \subseteq Pairs /\ blind' \in BOOLEAN
        BY <1>5, <1>e, OperatorSwitchesAssumption DEF Start, Blocked
    <2>2. up' \in BOOLEAN /\ sinkMode' \in Modes /\ starts' \in Nat
        BY <1>5, <1>u DEF Start, Inv, TypeOK
    <2> QED BY <1>5, <2>1, <2>2 DEF Start, Inv, TypeOK, AnswersFit, AtRest, Fits, redis, operator
<1>6. CASE Crash
    <2>1. tasks' \in [Pairs -> Tasks] /\ \A p \in Pairs : tasks'[p] = IdleTask
        BY <1>6, <1>i DEF Crash
    <2>2. control' \in [pc : {"idle", "gate", "mode"}, reply : Replies, gate : Gates]
        BY <1>6, <1>e DEF Crash, Replies
    <2>3. sinkMode' \in Modes /\ runnerGate' \in Gates
        BY <1>6, <1>u, <1>e DEF Crash
    <2>4. AtRest' /\ AnswersFit'
        BY <1>6, <1>i, <2>1 DEF Crash, AtRest, AnswersFit, IdleTask
    <2> QED BY <1>6, <2>1, <2>2, <2>3, <2>4 DEF Crash, Inv, TypeOK, redis, operator
<1>7. ASSUME NEW p \in Pairs, BarCloses(p) \/ RecoveryBegins(p) PROVE Inv'
    <2>1. PICK pc \in {"gate", "stage"} : Begins(p, pc)
        BY <1>7 DEF BarCloses, RecoveryBegins
    <2> DEFINE t == [tasks[p] EXCEPT !.pc = pc]
    <2>2. t \in Tasks /\ Fits(t)
        BY <1>f, <2>1 DEF Tasks, Reading, Fits, Begins
    <2>3. tasks' = [tasks EXCEPT ![p] = t] /\ up /\ up' = up /\ control' = control
        BY <2>1, <1>t DEF Begins
    <2> HIDE DEF t
    <2>4. tasks' \in [Pairs -> Tasks] /\ AnswersFit' /\ AtRest'
        BY <2>2, <2>3, TasksKept
    <2>5. paused' \subseteq Pairs /\ gated' \subseteq Pairs /\ bars' \in Nat
        BY <2>1 DEF Begins, Inv, TypeOK
    <2> QED BY <2>1, <2>4, <2>5 DEF Begins, Inv, TypeOK, redis, operator
<1>8. ASSUME NEW p \in Pairs, Answered(p) PROVE Inv'
    <2>1. PICK t \in Tasks : Fits(t) /\ tasks' = [tasks EXCEPT ![p] = t]
        <3>1. CASE tasks[p].pc = "gate"
            <4>1. PICK failed \in {FALSE, ReadsMayFail} :
                    tasks' = [tasks EXCEPT ![p].reply = IF failed THEN "failed" ELSE "read",
                                           ![p].gate = storedGate]
                BY <1>8, <3>1 DEF Answered
            <4> DEFINE reply == IF failed THEN "failed" ELSE "read"
                       t == [tasks[p] EXCEPT !.reply = reply, !.gate = storedGate]
            <4>2. tasks' = [tasks EXCEPT ![p] = t]
                BY <4>1, <1>t
            <4>3. reply \in {"read", "failed"}
                OBVIOUS
            <4> HIDE DEF reply
            <4>4. t \in Tasks /\ Fits(t)
                BY <4>3, <1>e, <1>f, <3>1 DEF Replies, Tasks, Fits, Reading
            <4> QED BY <4>2, <4>4
        <3>2. CASE tasks[p].pc # "gate"
            <4>1. PICK reply \in Answers(storedMode) :
                    tasks' = [tasks EXCEPT ![p].reply = reply]
                BY <1>8, <3>2 DEF Answered
            <4> DEFINE t == [tasks[p] EXCEPT !.reply = reply]
            <4>2. reply \in {"failed"} \cup Modes
                BY <4>1, <1>u DEF Answers
            <4>3. t \in Tasks /\ Fits(t)
                BY <1>8, <1>f, <3>2, <4>2 DEF Answered, Tasks, Replies, Fits, Reading
            <4>4. tasks' = [tasks EXCEPT ![p] = t]
                BY <4>1, <1>t
            <4> QED BY <4>3, <4>4
        <3> QED BY <3>1, <3>2
    <2>2. up /\ up' = up /\ control' = control
        BY <1>8 DEF Answered, Inv, AtRest, Reading
    <2>3. tasks' \in [Pairs -> Tasks] /\ AnswersFit' /\ AtRest'
        BY <2>1, <2>2, TasksKept
    <2> QED BY <1>8, <2>3 DEF Answered, Inv, TypeOK, redis, operator, held
<1>9. ASSUME NEW p \in Pairs, GateTaken(p) \/ ModeTaken(p) \/ NothingToSend(p) PROVE Inv'
    <2>1. PICK t \in Tasks : Fits(t) /\ tasks' = [tasks EXCEPT ![p] = t]
        <3>1. CASE NothingToSend(p)
            BY <3>1, <1>i DEF NothingToSend
        <3>2. ASSUME NEW on \in BOOLEAN, tasks[p].pc \in Reading, Continues(p, on)
              PROVE  \E t \in Tasks : Fits(t) /\ tasks' = [tasks EXCEPT ![p] = t]
            <4> DEFINE n == [IdleTask EXCEPT !.pc = After(tasks[p].pc)]
            <4>1. After(tasks[p].pc) \in {"sent"} \cup Reading
                BY <3>2 DEF After, Reading
            <4>2. n \in Tasks /\ Fits(n)
                BY <4>1, <1>i DEF Tasks, Fits, IdleTask
            <4>3. tasks' = [tasks EXCEPT ![p] = IF on THEN n ELSE IdleTask]
                BY <3>2 DEF Continues
            <4> QED BY <4>2, <4>3, <1>i
        <3>3. CASE GateTaken(p)
            <4>1. (~Blocks(runnerGate', p)) \in BOOLEAN
                BY DEF Blocks
            <4>2. tasks[p].pc \in Reading /\ Continues(p, ~Blocks(runnerGate', p))
                BY <3>3 DEF GateTaken, Reading
            <4> QED BY <3>2, <4>1, <4>2
        <3>4. CASE ModeTaken(p)
            BY <3>2, <3>4 DEF ModeTaken
        <3> QED BY <1>9, <3>1, <3>3, <3>4
    <2>2. up /\ up' = up /\ control' = control
        BY <1>9 DEF GateTaken, ModeTaken, NothingToSend, Inv, AtRest, Reading
    <2>3. tasks' \in [Pairs -> Tasks] /\ AnswersFit' /\ AtRest'
        BY <2>1, <2>2, TasksKept
    <2>4. runnerGate' \in Gates
        <3>1. tasks[p].gate \in Gates
            BY <1>f DEF Tasks
        <3> QED BY <1>9, <1>e, <3>1 DEF GateTaken, ModeTaken, NothingToSend, GateAfter
    <2>5. sinkMode' \in Modes
        <3>1. CASE ModeTaken(p)
            <4>1. tasks[p].reply \in {"failed"} \cup Modes
                BY <3>1, <1>f DEF ModeTaken, Fits
            <4> QED BY <3>1, <4>1, TakenIsKnown DEF ModeTaken, Inv
        <3>2. CASE ~ModeTaken(p)
            BY <1>9, <3>2 DEF GateTaken, NothingToSend, Inv, TypeOK
        <3> QED BY <3>1, <3>2
    <2> QED BY <1>9, <2>3, <2>4, <2>5
            DEF GateTaken, ModeTaken, NothingToSend, Inv, TypeOK, redis, operator, held
<1>10. ASSUME NEW kind \in {"gate", "mode"}, Announced(kind) PROVE Inv'
    <2>1. control' = [control EXCEPT !.pc = kind] /\ control.reply = "none"
        BY <1>10 DEF Announced, Inv, AnswersFit
    <2>2. control' \in [pc : {"idle", "gate", "mode"}, reply : Replies, gate : Gates]
          /\ control'.reply = "none"
        BY <2>1 DEF Inv, TypeOK
    <2>3. AnswersFit'
        BY <1>10, <2>2 DEF Announced, AnswersFit, Inv, Fits
    <2> QED BY <1>10, <2>2, <2>3 DEF Announced, Inv, TypeOK, AtRest, redis, operator, held
<1>11. CASE AnnouncementLost
    BY <1>11 DEF AnnouncementLost, Inv, TypeOK, AnswersFit, AtRest, Fits, redis, operator, held
<1>12. CASE ControlAnswered
    <2> DEFINE Kinds == [pc : {"idle", "gate", "mode"}, reply : Replies, gate : Gates]
    <2>1. control \in Kinds
        BY DEF Inv, TypeOK
    <2>2. /\ control' \in Kinds /\ control'.pc = control.pc
          /\ control.pc = "gate" => control'.reply \in {"read", "failed"}
          /\ control.pc = "mode" => control'.reply \in {"failed"} \cup Modes
        <3>1. CASE control.pc = "gate"
            <4>1. PICK failed \in {FALSE, ReadsMayFail} :
                    control' = [control EXCEPT !.reply = IF failed THEN "failed" ELSE "read",
                                               !.gate = storedGate]
                BY <1>12, <3>1 DEF ControlAnswered
            <4> DEFINE reply == IF failed THEN "failed" ELSE "read"
            <4>2. control' = [control EXCEPT !.reply = reply, !.gate = storedGate]
                BY <4>1
            <4>3. reply \in {"read", "failed"}
                OBVIOUS
            <4> HIDE DEF reply
            <4> QED BY <2>1, <3>1, <4>2, <4>3, <1>e DEF Replies
        <3>2. CASE control.pc # "gate"
            <4>1. PICK reply \in Answers(storedMode) : control' = [control EXCEPT !.reply = reply]
                BY <1>12, <3>2 DEF ControlAnswered
            <4>2. reply \in {"failed"} \cup Modes
                BY <4>1, <1>u DEF Answers
            <4> QED BY <2>1, <3>2, <4>1, <4>2 DEF Replies
        <3> QED BY <3>1, <3>2
    <2>3. up
        BY <1>12 DEF ControlAnswered, Inv, AtRest
    <2>4. AnswersFit'
        BY <1>12, <2>2 DEF ControlAnswered, AnswersFit, Inv, Fits
    <2> QED BY <1>12, <2>2, <2>3, <2>4
            DEF ControlAnswered, Inv, TypeOK, AtRest, redis, operator, held
<1>13. CASE ControlTaken
    <2>1. control.gate \in Gates /\ control.pc # "idle"
        BY <1>13 DEF ControlTaken, Inv, TypeOK, AnswersFit
    <2>2. runnerGate' \in Gates
        BY <1>13, <1>e, <2>1 DEF ControlTaken, GateAfter
    <2>3. sinkMode' \in Modes
        <3>1. CASE control.pc = "mode"
            <4>1. control.reply \in {"failed"} \cup Modes
                BY <1>13, <3>1 DEF ControlTaken, Inv, AnswersFit
            <4> QED BY <1>13, <3>1, <4>1, TakenIsKnown DEF ControlTaken, Inv
        <3>2. CASE control.pc # "mode"
            BY <1>13, <3>2 DEF ControlTaken, Inv, TypeOK
        <3> QED BY <3>1, <3>2
    <2>4. /\ control' \in [pc : {"idle", "gate", "mode"}, reply : Replies, gate : Gates]
          /\ control'.pc = "idle" /\ control'.reply = "none"
        BY <1>13, <1>e DEF ControlTaken, Replies
    <2>5. AnswersFit'
        BY <1>13, <2>4 DEF ControlTaken, AnswersFit, Inv, Fits
    <2> QED BY <1>13, <2>2, <2>3, <2>4, <2>5
            DEF ControlTaken, Inv, TypeOK, AtRest, redis, operator, held
<1>14. CASE SyncAnswered
    <2>1. sync' \in {"none", "failed"} \cup Modes /\ up /\ up' = up
        BY <1>14, <1>u DEF SyncAnswered, Answers
    <2> QED BY <1>14, <2>1
            DEF SyncAnswered, Inv, TypeOK, AnswersFit, AtRest, Fits, redis, operator, held
<1>15. CASE SyncTaken
    <2>1. sync \in {"failed"} \cup Modes /\ sync' = "none"
        BY <1>15 DEF SyncTaken, Inv, TypeOK
    <2>2. sinkMode' \in Modes
        BY <1>15, <2>1, TakenIsKnown DEF SyncTaken, Inv
    <2> QED BY <1>15, <2>1, <2>2
            DEF SyncTaken, Inv, TypeOK, AnswersFit, AtRest, Fits, redis, operator, held
<1>16. CASE UNCHANGED vars
    BY <1>16 DEF vars, Inv, TypeOK, AnswersFit, AtRest, Fits
<1> QED BY <1>1, <1>2, <1>3, <1>4, <1>5, <1>6, <1>7, <1>8, <1>9, <1>10, <1>11, <1>12, <1>13,
           <1>14, <1>15, <1>16 DEF Next, Works, Controls

-----------------------------------------------------------------------------
(* The switches                                                            *)

(* Only the work of a slot changes that slot, apart from a crash. *)
LEMMA OthersKeepTheirWork ==
    ASSUME Inv, NEW p \in Pairs,
           NEW t, tasks' = [tasks EXCEPT ![p] = t]
    PROVE  tasks'[p] = t /\ \A q \in Pairs : q # p => tasks'[q] = tasks[q]
BY DEF Inv, TypeOK

(* Work that goes on has no answer yet. *)
LEMMA ContinuesUnanswered ==
    ASSUME Inv, NEW p \in Pairs, NEW on \in BOOLEAN, Continues(p, on)
    PROVE  /\ tasks'[p].reply = "none"
           /\ \A q \in Pairs : q # p => tasks'[q] = tasks[q]
<1>1. IdleTask.reply = "none" /\ [IdleTask EXCEPT !.pc = After(tasks[p].pc)].reply = "none"
    BY DEF IdleTask
<1>2. PICK t : tasks' = [tasks EXCEPT ![p] = t] /\ t.reply = "none"
    BY <1>1 DEF Continues
<1> QED BY <1>2, OthersKeepTheirWork

(* A step of a slot that takes an answer, or drops its work, waits for none after. *)
LEMMA TakenIsUnanswered ==
    ASSUME Inv, NEW p \in Pairs, GateTaken(p) \/ ModeTaken(p) \/ NothingToSend(p)
    PROVE  /\ tasks'[p].reply = "none"
           /\ \A q \in Pairs : q # p => tasks'[q] = tasks[q]
<1>1. CASE GateTaken(p)
    <2>1. (~Blocks(runnerGate', p)) \in BOOLEAN
        BY DEF Blocks
    <2> QED BY <1>1, <2>1, ContinuesUnanswered DEF GateTaken
<1>2. CASE ModeTaken(p)
    BY <1>2, ContinuesUnanswered DEF ModeTaken
<1>3. CASE NothingToSend(p)
    <2>1. tasks' = [tasks EXCEPT ![p] = IdleTask]
        BY <1>3 DEF NothingToSend
    <2>2. IdleTask.reply = "none"
        BY DEF IdleTask
    <2> QED BY <2>1, <2>2, OthersKeepTheirWork
<1> QED BY <1>1, <1>2, <1>3

(* The answer that Redis gives a slot. *)
LEMMA AnswerGiven ==
    ASSUME Inv, NEW p \in Pairs, Answered(p)
    PROVE  /\ \A q \in Pairs : q # p => tasks'[q] = tasks[q]
           /\ tasks'[p].pc = tasks[p].pc
           /\ tasks[p].pc = "gate" => tasks'[p].gate = storedGate
           /\ tasks[p].pc # "gate" => tasks'[p].reply \in Answers(storedMode)
<1>1. tasks \in [Pairs -> Tasks] /\ tasks[p] \in Tasks
    BY DEF Inv, TypeOK
<1>2. CASE tasks[p].pc = "gate"
    <2>1. PICK failed \in {FALSE, ReadsMayFail} :
            tasks' = [tasks EXCEPT ![p].reply = IF failed THEN "failed" ELSE "read",
                                   ![p].gate = storedGate]
        BY <1>2 DEF Answered
    <2> DEFINE reply == IF failed THEN "failed" ELSE "read"
    <2>2. tasks' = [tasks EXCEPT ![p] = [tasks[p] EXCEPT !.reply = reply, !.gate = storedGate]]
        BY <1>1, <2>1
    <2> HIDE DEF reply
    <2> QED BY <1>1, <1>2, <2>2 DEF Tasks
<1>3. CASE tasks[p].pc # "gate"
    <2>1. PICK reply \in Answers(storedMode) : tasks' = [tasks EXCEPT ![p].reply = reply]
        BY <1>3 DEF Answered
    <2>2. tasks' = [tasks EXCEPT ![p] = [tasks[p] EXCEPT !.reply = reply]]
        BY <1>1, <2>1
    <2> QED BY <1>1, <1>3, <2>1, <2>2 DEF Tasks
<1> QED BY <1>2, <1>3

(* A slot that begins waits for no answer, and belongs to the pause that is stored. *)
LEMMA BeginsUnanswered ==
    ASSUME Inv, NEW p \in Pairs, BarCloses(p) \/ RecoveryBegins(p)
    PROVE  /\ up /\ \A q \in Pairs : q # p => tasks'[q] = tasks[q]
           /\ tasks'[p].reply = "none"
           /\ paused' = IF Effective(storedMode) = "on" THEN paused \cup {p} ELSE paused \ {p}
           /\ gated' = IF Blocks(storedGate, p) THEN gated \cup {p} ELSE gated \ {p}
<1>1. PICK pc \in {"gate", "stage"} : Begins(p, pc)
    BY DEF BarCloses, RecoveryBegins
<1>2. tasks' = [tasks EXCEPT ![p] = [tasks[p] EXCEPT !.pc = pc]] /\ tasks[p].reply = "none"
    BY <1>1 DEF Begins, Inv, TypeOK, AnswersFit, Fits
<1>3. tasks[p] \in Tasks
    BY DEF Inv, TypeOK
<1> QED BY <1>1, <1>2, <1>3, OthersKeepTheirWork DEF Begins, Tasks

(* Work that began in a pause that stands never has an answer that lets it send. *)
LEMMA StepKeepsPause == Inv /\ PauseStands /\ [Next]_vars => PauseStands'
<1> SUFFICES ASSUME Inv, PauseStands, [Next]_vars PROVE PauseStands'
    OBVIOUS
<1>p. paused \subseteq Pairs
    BY DEF Inv, TypeOK
<1>1. ASSUME NEW mode \in Modes, SetShadowMode(mode) PROVE PauseStands'
    BY <1>1 DEF SetShadowMode, PauseStands, Effective, Modes
<1>2. CASE Crash
    BY <1>2 DEF Crash, PauseStands
<1>3. ASSUME NEW p \in Pairs, BarCloses(p) \/ RecoveryBegins(p) PROVE PauseStands'
    <2>1. storedMode' = storedMode
        BY <1>3 DEF BarCloses, RecoveryBegins, Begins, redis
    <2> QED BY <1>3, <1>p, <2>1, BeginsUnanswered DEF PauseStands, Effective
<1>4. ASSUME NEW p \in Pairs, Answered(p) PROVE PauseStands'
    <2>1. paused' = paused /\ storedMode' = storedMode
        BY <1>4 DEF Answered, redis, held
    <2>2. ASSUME p \in paused, tasks[p].pc # "gate"
          PROVE  tasks'[p].reply \in {"none", "on", "failed"}
        BY <1>4, <2>2, AnswerGiven DEF Answers, PauseStands
    <2> QED BY <1>4, <1>p, <2>1, <2>2, AnswerGiven DEF PauseStands, Effective
<1>5. ASSUME NEW p \in Pairs, GateTaken(p) \/ ModeTaken(p) \/ NothingToSend(p)
      PROVE  PauseStands'
    <2>1. paused' = paused /\ storedMode' = storedMode
        BY <1>5 DEF GateTaken, ModeTaken, NothingToSend, redis, held
    <2> QED BY <1>5, <1>p, <2>1, TakenIsUnanswered DEF PauseStands, Effective
<1>6. ASSUME paused' = paused, storedMode' = storedMode, tasks' = tasks PROVE PauseStands'
    BY <1>6 DEF PauseStands, Effective
<1>7. ASSUME NEW c \in Chats, ReadGate(c) \/ WriteGate(c) \/ WriteFails(c) PROVE PauseStands'
    BY <1>6, <1>7 DEF ReadGate, WriteGate, WriteFails, redis, held
<1>8. ASSUME Start \/ Controls \/ AnnouncementLost \/ SyncAnswered \/ SyncTaken
      PROVE  PauseStands'
    BY <1>6, <1>8 DEF Start, Controls, Announced, ControlAnswered, ControlTaken,
                      AnnouncementLost, SyncAnswered, SyncTaken, redis, held
<1>9. CASE UNCHANGED vars
    BY <1>6, <1>9 DEF vars
<1> QED BY <1>1, <1>2, <1>3, <1>4, <1>5, <1>7, <1>8, <1>9 DEF Next, Works

(* Likewise for the gate: its answer to a bar that closed while gated blocks it. *)
LEMMA StepKeepsGate == Inv /\ GateStands /\ [Next]_vars => GateStands'
<1> SUFFICES ASSUME Inv, GateStands, [Next]_vars PROVE GateStands'
    OBVIOUS
<1>p. gated \subseteq Pairs
    BY DEF Inv, TypeOK
<1>1. ASSUME NEW c \in Chats, WriteGate(c) PROVE GateStands'
    BY <1>1 DEF WriteGate, GateStands, Blocked
<1>2. CASE Crash
    BY <1>2 DEF Crash, GateStands
<1>3. ASSUME NEW p \in Pairs, BarCloses(p) \/ RecoveryBegins(p) PROVE GateStands'
    <2>1. storedGate' = storedGate
        BY <1>3 DEF BarCloses, RecoveryBegins, Begins, redis
    <2> QED BY <1>3, <1>p, <2>1, BeginsUnanswered DEF GateStands
<1>4. ASSUME NEW p \in Pairs, Answered(p) PROVE GateStands'
    <2>1. gated' = gated /\ storedGate' = storedGate
        BY <1>4 DEF Answered, redis, held
    <2> QED BY <1>4, <1>p, <2>1, AnswerGiven DEF GateStands
<1>5. ASSUME NEW p \in Pairs, GateTaken(p) \/ ModeTaken(p) \/ NothingToSend(p)
      PROVE  GateStands'
    <2>1. gated' = gated /\ storedGate' = storedGate
        BY <1>5 DEF GateTaken, ModeTaken, NothingToSend, redis, held
    <2> QED BY <1>5, <1>p, <2>1, TakenIsUnanswered DEF GateStands
<1>6. ASSUME gated' = gated, storedGate' = storedGate, tasks' = tasks PROVE GateStands'
    BY <1>6 DEF GateStands
<1>7. ASSUME NEW mode \in Modes, SetShadowMode(mode) PROVE GateStands'
    BY <1>6, <1>7 DEF SetShadowMode
<1>8. ASSUME NEW c \in Chats, ReadGate(c) \/ WriteFails(c) PROVE GateStands'
    BY <1>6, <1>8 DEF ReadGate, WriteFails, redis, held
<1>9. ASSUME Start \/ Controls \/ AnnouncementLost \/ SyncAnswered \/ SyncTaken
      PROVE  GateStands'
    BY <1>6, <1>9 DEF Start, Controls, Announced, ControlAnswered, ControlTaken,
                      AnnouncementLost, SyncAnswered, SyncTaken, redis, held
<1>10. CASE UNCHANGED vars
    BY <1>6, <1>10 DEF vars
<1> QED BY <1>1, <1>2, <1>3, <1>4, <1>5, <1>7, <1>8, <1>9, <1>10 DEF Next, Works

(* Every gate that the runner has read since its start, or may still take, blocks the pairs
   that have been gated since that start. *)
LEMMA StepKeepsStart ==
    ASSUME Inv, StartStands, [Next]_vars
    PROVE  StartStands'
<1>p. since \subseteq Pairs
    BY DEF Inv, TypeOK
<1>1. ASSUME NEW c \in Chats, WriteGate(c) PROVE StartStands'
    BY <1>1 DEF WriteGate, StartStands, Blocked
<1>2. CASE Start
    <2>1. /\ storedGate' = storedGate /\ since' = Blocked(storedGate)
          /\ ~blind' => runnerGate' = storedGate
          /\ tasks' = tasks /\ control' = control
        BY <1>2 DEF Start, redis
    <2>2. control.reply = "none" /\ \A q \in Pairs : tasks[q].pc = "idle"
        BY <1>2 DEF Start, Inv, AtRest, AnswersFit
    <2> QED BY <2>1, <2>2 DEF StartStands, Blocked
<1>3. CASE Crash
    BY <1>3 DEF Crash, StartStands
<1>4. ASSUME NEW p \in Pairs, BarCloses(p) \/ RecoveryBegins(p) PROVE StartStands'
    <2>1. /\ since' = since /\ storedGate' = storedGate /\ runnerGate' = runnerGate
          /\ control' = control /\ blind' = blind
        BY <1>4 DEF BarCloses, RecoveryBegins, Begins, redis
    <2> QED BY <1>4, <2>1, BeginsUnanswered DEF StartStands
<1>5. ASSUME NEW p \in Pairs, Answered(p) PROVE StartStands'
    <2>1. /\ since' = since /\ storedGate' = storedGate /\ runnerGate' = runnerGate
          /\ control' = control /\ blind' = blind
        BY <1>5 DEF Answered, redis, held
    <2> QED BY <1>5, <2>1, AnswerGiven DEF StartStands
<1>6. ASSUME NEW p \in Pairs, GateTaken(p) \/ ModeTaken(p) \/ NothingToSend(p)
      PROVE  StartStands'
    <2>1. since' = since /\ storedGate' = storedGate /\ control' = control
        BY <1>6 DEF GateTaken, ModeTaken, NothingToSend, redis, held
    <2>2. tasks[p].pc = "gate" => tasks[p].reply \in {"none", "read", "failed"}
        BY DEF Inv, AnswersFit, Fits
    <2>3. ~blind' => \A r \in since : Blocks(runnerGate', r)
      <3>1. CASE GateTaken(p)
        <4>1. ~blind' => ~blind \/ tasks[p].reply # "failed"
            BY <3>1 DEF GateTaken
        <4> QED BY <2>2, <3>1, <4>1 DEF GateTaken, GateAfter, StartStands
      <3>2. CASE ModeTaken(p) \/ NothingToSend(p)
          BY <3>2 DEF ModeTaken, NothingToSend, StartStands, held
      <3> QED BY <1>6, <3>1, <3>2
    <2> QED BY <1>6, <2>1, <2>3, TakenIsUnanswered DEF StartStands
<1>7. ASSUME NEW kind \in {"gate", "mode"}, Announced(kind) PROVE StartStands'
    <2>1. /\ since' = since /\ storedGate' = storedGate /\ runnerGate' = runnerGate
          /\ tasks' = tasks /\ blind' = blind
        BY <1>7 DEF Announced, redis, held
    <2>2. control'.reply = "none"
        BY <1>7 DEF Announced, Inv, TypeOK, AnswersFit
    <2> QED BY <2>1, <2>2 DEF StartStands
<1>8. CASE ControlAnswered
    <2>1. /\ since' = since /\ storedGate' = storedGate /\ runnerGate' = runnerGate
          /\ tasks' = tasks /\ blind' = blind
        BY <1>8 DEF ControlAnswered, redis, held
    <2>2. control'.pc = "gate" => control'.gate = storedGate
        <3>1. CASE control.pc = "gate"
            <4>1. PICK failed \in {FALSE, ReadsMayFail} :
                    control' = [control EXCEPT !.reply = IF failed THEN "failed" ELSE "read",
                                               !.gate = storedGate]
                BY <1>8, <3>1 DEF ControlAnswered
            <4> QED BY <4>1 DEF Inv, TypeOK
        <3>2. CASE control.pc # "gate"
            BY <1>8, <3>2 DEF ControlAnswered, Inv, TypeOK
        <3> QED BY <3>1, <3>2
    <2> QED BY <2>1, <2>2 DEF StartStands
<1>9. CASE ControlTaken
    <2>1. /\ since' = since /\ storedGate' = storedGate /\ tasks' = tasks
          /\ control'.reply = "none"
        BY <1>9 DEF ControlTaken, redis, held
    <2>2. ~blind' => \A r \in since : Blocks(runnerGate', r)
      <3>1. CASE control.pc = "gate"
        <4>1. /\ runnerGate' = GateAfter(control.reply, control.gate)
              /\ ~blind' => ~blind \/ control.reply # "failed"
            BY <1>9, <3>1 DEF ControlTaken
        <4>2. control.reply \in {"read", "failed"}
            BY <1>9, <3>1 DEF ControlTaken, Inv, AnswersFit
        <4> QED BY <3>1, <4>1, <4>2 DEF GateAfter, StartStands
      <3>2. CASE control.pc # "gate"
          BY <1>9, <3>2 DEF ControlTaken, StartStands
      <3> QED BY <3>1, <3>2
    <2> QED BY <2>1, <2>2 DEF StartStands
<1>10. ASSUME since' = since, storedGate' = storedGate, runnerGate' = runnerGate,
              tasks' = tasks, control' = control, blind' = blind
       PROVE  StartStands'
    BY <1>10 DEF StartStands
<1>11. ASSUME NEW mode \in Modes, SetShadowMode(mode) PROVE StartStands'
    BY <1>10, <1>11 DEF SetShadowMode
<1>12. ASSUME NEW c \in Chats, ReadGate(c) \/ WriteFails(c) PROVE StartStands'
    BY <1>10, <1>12 DEF ReadGate, WriteFails, redis, held
<1>13. ASSUME AnnouncementLost \/ SyncAnswered \/ SyncTaken PROVE StartStands'
    BY <1>10, <1>13 DEF AnnouncementLost, SyncAnswered, SyncTaken, redis, held
<1>14. CASE UNCHANGED vars
    BY <1>10, <1>14 DEF vars
<1> QED BY <1>1, <1>2, <1>3, <1>4, <1>5, <1>6, <1>7, <1>8, <1>9, <1>11, <1>12, <1>13, <1>14
        DEF Next, Works, Controls

(* Only taking its own answer takes a slot from one read to the next. *)
LEMMA OnlyAnAnswerGoesOn ==
    ASSUME Inv, [Next]_vars, NEW p \in Pairs,
           tasks[p].pc \in Reading, tasks'[p].pc # tasks[p].pc, tasks'[p].pc # "idle"
    PROVE  GateTaken(p) \/ ModeTaken(p)
<1>1. ASSUME NEW q \in Pairs, BarCloses(q) \/ RecoveryBegins(q) PROVE FALSE
    BY <1>1, BeginsUnanswered DEF BarCloses, RecoveryBegins, Begins, Reading
<1>2. ASSUME NEW q \in Pairs, Answered(q) PROVE FALSE
    BY <1>2, AnswerGiven
<1>3. ASSUME NEW q \in Pairs, GateTaken(q) \/ ModeTaken(q) PROVE GateTaken(p) \/ ModeTaken(p)
    BY <1>3, TakenIsUnanswered
<1>4. ASSUME NEW q \in Pairs, NothingToSend(q) PROVE FALSE
    <2>1. tasks' = [tasks EXCEPT ![q] = IdleTask] /\ IdleTask.pc = "idle"
        BY <1>4 DEF NothingToSend, IdleTask
    <2> QED BY <2>1, OthersKeepTheirWork
<1>5. CASE Crash
    BY <1>5 DEF Crash, IdleTask
<1>6. ASSUME NEW mode \in Modes, SetShadowMode(mode) PROVE FALSE
    BY <1>6 DEF SetShadowMode
<1>7. ASSUME NEW c \in Chats, ReadGate(c) \/ WriteGate(c) \/ WriteFails(c) PROVE FALSE
    BY <1>7 DEF ReadGate, WriteGate, WriteFails
<1>8. ASSUME Start \/ Controls \/ AnnouncementLost \/ SyncAnswered \/ SyncTaken PROVE FALSE
    BY <1>8 DEF Start, Controls, Announced, ControlAnswered, ControlTaken,
                AnnouncementLost, SyncAnswered, SyncTaken
<1>9. CASE UNCHANGED vars
    BY <1>9 DEF vars
<1> QED BY <1>1, <1>2, <1>3, <1>4, <1>5, <1>6, <1>7, <1>8, <1>9 DEF Next, Works

(* A slot that goes on was let through. *)
LEMMA GoesOnWhenOpen ==
    ASSUME Inv, NEW p \in Pairs, NEW on \in BOOLEAN, Continues(p, on), tasks'[p].pc # "idle"
    PROVE  on
<1>1. IdleTask.pc = "idle"
    BY DEF IdleTask
<1> QED BY <1>1, OthersKeepTheirWork DEF Continues

-----------------------------------------------------------------------------
(* Theorems                                                                *)

(* Every variable of the operator, the stored switches and the runner keeps its kind. *)
THEOREM OperatorSwitchesTypeCorrect == Spec => []TypeOK
<1>1. Inv => TypeOK
    BY DEF Inv
<1> QED BY InitHolds, StepKeepsInv, <1>1, PTL DEF Spec

(* A slot sends only after four reads of the stored mode; while a pause that was stored
   when its work began still stands, the last of them stops it. *)
THEOREM PauseStopsTheSend == Spec => SendsHonourThePause
<1>1. ASSUME Inv, PauseStands, [Next]_vars, NEW p \in Pairs, Sends(p) PROVE p \notin paused
    <2>1. tasks[p].pc = "mark" /\ tasks'[p].pc = "sent"
        BY <1>1 DEF Sends
    <2>2. ModeTaken(p)
        BY <1>1, <2>1, OnlyAnAnswerGoesOn DEF Reading, GateTaken
    <2>3. sinkMode' = "off"
        BY <1>1, <2>1, <2>2, GoesOnWhenOpen DEF ModeTaken
    <2>4. tasks[p].reply \notin {"none", "on", "failed"}
        BY <2>2, <2>3 DEF ModeTaken, ModeAfter
    <2> QED BY <1>1, <2>1, <2>4 DEF PauseStands
<1>2. Inv /\ PauseStands /\ [Next]_vars => [\A p \in Pairs : Sends(p) => p \notin paused]_vars
    BY <1>1
<1> QED BY InitHolds, StepKeepsInv, StepKeepsPause, <1>2, PTL DEF Spec, SendsHonourThePause

(* A bar decides only on a gate that lets its pair through: the one it read itself, or the
   last one known when the read failed. *)
LEMMA DecidesOnAnOpenGate ==
    ASSUME Inv, [Next]_vars, NEW p \in Pairs, Decides(p)
    PROVE  /\ GateTaken(p) /\ ~Blocks(runnerGate', p)
           /\ runnerGate' = GateAfter(tasks[p].reply, tasks[p].gate)
<1>1. tasks[p].pc = "gate" /\ tasks'[p].pc = "pause"
    BY DEF Decides
<1>2. GateTaken(p)
    BY <1>1, OnlyAnAnswerGoesOn DEF Reading, ModeTaken
<1>3. (~Blocks(runnerGate', p)) \in BOOLEAN
    BY DEF Blocks
<1> QED BY <1>1, <1>2, <1>3, GoesOnWhenOpen DEF GateTaken

(* A bar that closes while its pair is prevented is not decided while it stays prevented,
   unless its read of the gate fails. *)
THEOREM GateStopsTheDecision == Spec => DecisionsHonourTheGate
<1>1. ASSUME Inv, GateStands, [Next]_vars, NEW p \in Pairs, Decides(p), tasks[p].reply = "read"
      PROVE  p \notin gated
    <2>1. ~Blocks(tasks[p].gate, p) /\ tasks[p].pc = "gate"
        BY <1>1, DecidesOnAnOpenGate DEF GateAfter, Decides
    <2> QED BY <1>1, <2>1 DEF GateStands
<1>2. Inv /\ GateStands /\ [Next]_vars
        => [\A p \in Pairs : Decides(p) /\ tasks[p].reply = "read" => p \notin gated]_vars
    BY <1>1
<1> QED BY InitHolds, StepKeepsInv, StepKeepsGate, <1>2, PTL DEF Spec, DecisionsHonourTheGate

(* A restart keeps the pause, whatever becomes of reads and broadcasts, from the first read
   of the gate on that succeeds. *)
THEOREM RestartKeepsThePause == Spec => PauseOutlivesRestart
<1>1. ASSUME Inv, StartStands, [Next]_vars, NEW p \in Pairs, Decides(p), p \in since
      PROVE  blind /\ tasks[p].reply = "failed"
    <2>1. /\ ~Blocks(GateAfter(tasks[p].reply, tasks[p].gate), p)
          /\ tasks[p].pc = "gate" /\ tasks[p].reply \in {"read", "failed"}
        BY <1>1, DecidesOnAnOpenGate DEF Decides, GateTaken, Inv, AnswersFit, Fits
    <2>2. blind \in BOOLEAN
        BY <1>1 DEF Inv, TypeOK
    <2> QED BY <1>1, <2>1, <2>2 DEF StartStands, GateAfter
<1>2. Inv /\ StartStands /\ [Next]_vars =>
        [\A p \in Pairs : Decides(p) /\ p \in since => blind /\ tasks[p].reply = "failed"]_vars
    BY <1>1
<1>3. Inv /\ StartStands /\ [Next]_vars => StartStands'
    BY StepKeepsStart
<1> QED BY InitHolds, StepKeepsInv, <1>2, <1>3, PTL DEF Spec, PauseOutlivesRestart

-----------------------------------------------------------------------------
(* The messages of a cycle, for any number of rows, chats, retries and     *)
(* failures (telegram_notify.py).  The id that the notifier goes by, the   *)
(* worker's while it works and else the stored one, is that of a message   *)
(* of the chat; without one, or with one that is gone, every message the   *)
(* chat has had is excused.  The events of a record are in the order of    *)
(* their rows and none is newer than what is still to come.                *)
Texts == Messages!ChatSet
MessagesAssumption == Len(ChatOrder) \in Nat \ {0} /\ MaxBlocks \in Nat

Event == [delivery_id : Nat, delivery : {"sent", "unknown"}, action : {"LONG", "SL", "TP1"}]
Record == [status : {"RUNNING", "CLOSED"}, events : Seq(Event), messages : [Texts -> Nat]]
Line == [row : Nat, warned : BOOLEAN]
Body == [status : {"RUNNING", "CLOSED"}, entry : Line, actions : Seq(Line)]
Post == [body : Body, gone : BOOLEAN]
Working == [step : {"chat", "save"}, at : 1..Len(ChatOrder), posting : BOOLEAN, record : Record]

MessagesTypeOK ==
    /\ outbox \in [row : Nat, settled : BOOLEAN, repeats : Nat]
    /\ notifier \in {"up", "draining", "down"}
    /\ updates \in Seq(Event)
    /\ worker \in {Messages!Idle} \cup Working
    /\ cycle \in Record
    /\ posts \in [Texts -> Seq(Post)]
    /\ excuses \in [Texts -> Nat]
    /\ troubles \in Nat

Busy == worker # Messages!Idle
Known(c) == IF Busy THEN worker.record.messages[c] ELSE cycle.messages[c]
Spare(c) == Len(posts[c]) <= excuses[c]
ChatIsExcused(c) ==
    /\ Len(posts[c]) <= 1 + excuses[c]
    /\ Known(c) \in 0..Len(posts[c])
    /\ cycle.messages[c] \in 0..Len(posts[c])
    /\ Known(c) = 0 => Spare(c)
    /\ Known(c) # 0 /\ posts[c][Known(c)].gone => Spare(c)
ChatsAreExcused == \A c \in Texts : ChatIsExcused(c)

InRowOrder(events) ==
    \A i, j \in 1..Len(events) : i < j => events[i].delivery_id < events[j].delivery_id
UpTo(events, row) == \A i \in 1..Len(events) : events[i].delivery_id <= row
RecordInOrder(record) ==
    /\ InRowOrder(record.events)
    /\ UpTo(record.events, outbox.row)
    /\ \A i \in 1..Len(updates) : UpTo(record.events, updates[i].delivery_id)
EventsInOrder ==
    /\ RecordInOrder(cycle)
    /\ Busy => RecordInOrder(worker.record) /\ worker.record.events # <<>>
    /\ UpTo(updates, outbox.row)
    /\ \A i, j \in 1..Len(updates) : i < j => updates[i].delivery_id <= updates[j].delivery_id

Shown(body) == <<body.entry>> \o body.actions
BodyInOrder(body) ==
    \A a, b \in 1..Len(Shown(body)) : a < b => Shown(body)[a].row < Shown(body)[b].row
BodiesInOrder == \A c \in Texts : \A i \in 1..Len(posts[c]) : BodyInOrder(posts[c][i].body)

MessagesInv == MessagesTypeOK /\ ChatsAreExcused /\ EventsInOrder /\ BodiesInOrder

-----------------------------------------------------------------------------
(* Events and what is shown of them. *)

LEMMA EventIsTyped ==
    ASSUME NEW row \in Nat, NEW delivery \in {"sent", "unknown"}
    PROVE  /\ Messages!lifecycle_event(row, delivery) \in Event
           /\ Messages!lifecycle_event(row, delivery).delivery_id = row
BY DEF Messages!lifecycle_event, Event

LEMMA ElementOfSeq ==
    ASSUME NEW S, NEW s \in Seq(S), NEW i \in 1..Len(s)
    PROVE  s[i] \in S
OBVIOUS

(* An event that is folded in keeps the order of the rows if none is newer than it. *)
LEMMA FoldedInOrder ==
    ASSUME NEW events \in Seq(Event), NEW event \in Event, InRowOrder(events),
           UpTo(events, event.delivery_id)
    PROVE  /\ Messages!MergedEvents(events, event) \in Seq(Event)
           /\ InRowOrder(Messages!MergedEvents(events, event))
           /\ UpTo(Messages!MergedEvents(events, event), event.delivery_id)
           /\ Messages!MergedEvents(events, event) # <<>>
<1> DEFINE merged == Messages!MergedEvents(events, event)
<1>1. CASE \E i \in 1..Len(events) : events[i].delivery_id = event.delivery_id
  <2>1. merged = [i \in 1..Len(events) |->
                    IF events[i].delivery_id = event.delivery_id THEN event ELSE events[i]]
    BY <1>1 DEF Messages!MergedEvents
  <2> HIDE DEF merged
  <2>2. merged \in Seq(Event) /\ Len(merged) = Len(events) BY <2>1
  <2>3. \A i \in 1..Len(events) : merged[i].delivery_id = events[i].delivery_id BY <2>1
  <2>4. merged # <<>> BY <1>1, <2>2
  <2>5. InRowOrder(merged) /\ UpTo(merged, event.delivery_id) BY <2>2, <2>3 DEF InRowOrder, UpTo
  <2> QED BY <2>2, <2>4, <2>5 DEF merged
<1>2. CASE ~\E i \in 1..Len(events) : events[i].delivery_id = event.delivery_id
  <2>1. merged = Append(events, event) BY <1>2 DEF Messages!MergedEvents
  <2> HIDE DEF merged
  <2>2. merged \in Seq(Event) /\ Len(merged) = Len(events) + 1 /\ merged # <<>> BY <2>1
  <2>3. /\ \A i \in 1..Len(events) : merged[i] = events[i]
        /\ merged[Len(events) + 1] = event
    BY <2>1
  <2>4. \A i \in 1..Len(events) : events[i].delivery_id < event.delivery_id
    <3> SUFFICES ASSUME NEW i \in 1..Len(events) PROVE events[i].delivery_id < event.delivery_id
      OBVIOUS
    <3>1. events[i] \in Event BY ElementOfSeq
    <3>2. events[i].delivery_id \in Nat /\ event.delivery_id \in Nat BY <3>1 DEF Event
    <3>3. events[i].delivery_id <= event.delivery_id BY DEF UpTo
    <3>4. events[i].delivery_id # event.delivery_id BY <1>2
    <3> QED BY <3>2, <3>3, <3>4
  <2>5. InRowOrder(merged)
    <3> SUFFICES ASSUME NEW i \in 1..Len(merged), NEW j \in 1..Len(merged), i < j
                 PROVE  merged[i].delivery_id < merged[j].delivery_id
      BY DEF InRowOrder
    <3>1. i \in 1..Len(events) BY <2>2
    <3>2. CASE j = Len(events) + 1 BY <2>3, <2>4, <3>1, <3>2
    <3>3. CASE j \in 1..Len(events) BY <2>3, <3>1, <3>3 DEF InRowOrder
    <3> QED BY <2>2, <3>2, <3>3
  <2>6. UpTo(merged, event.delivery_id)
    <3> SUFFICES ASSUME NEW i \in 1..Len(merged)
                 PROVE  merged[i].delivery_id <= event.delivery_id
      BY DEF UpTo
    <3>1. CASE i = Len(events) + 1 BY <2>3, <3>1 DEF Event
    <3>2. CASE i \in 1..Len(events) BY <2>3, <3>2 DEF UpTo
    <3> QED BY <2>2, <3>1, <3>2
  <2> QED BY <2>2, <2>5, <2>6 DEF merged
<1> QED BY <1>1, <1>2

LEMMA WithinBound ==
    ASSUME NEW events \in Seq(Event), NEW low \in Nat, NEW high \in Nat, UpTo(events, low), low <= high
    PROVE  UpTo(events, high)
<1> SUFFICES ASSUME NEW i \in 1..Len(events) PROVE events[i].delivery_id <= high
  BY DEF UpTo
<1>1. events[i] \in Event BY ElementOfSeq
<1>2. events[i].delivery_id \in Nat BY <1>1 DEF Event
<1>3. events[i].delivery_id <= low BY DEF UpTo
<1> QED BY <1>2, <1>3

(* format_cycle leaves out the oldest actions and keeps the order of the others. *)
LEMMA FormattedInOrder ==
    ASSUME MessagesAssumption, NEW record \in Record, record.events # <<>>, InRowOrder(record.events)
    PROVE  /\ Messages!format_cycle(record) \in Body
           /\ BodyInOrder(Messages!format_cycle(record))
<1> DEFINE body == Messages!format_cycle(record)
           events == record.events
           rest == Tail(events)
           hidden == IF Len(rest) > MaxBlocks THEN Len(rest) - MaxBlocks ELSE 0
           actions == [i \in 1..(Len(rest) - hidden) |-> Messages!Block(rest[hidden + i])]
<1>1. body = [status |-> record.status, entry |-> Messages!Block(events[1]), actions |-> actions]
  BY DEF Messages!format_cycle
<1>2. events \in Seq(Event) /\ events # <<>> /\ record.status \in {"RUNNING", "CLOSED"}
  BY DEF Record
<1> HIDE DEF events, body
<1>3. Len(events) \in Nat \ {0} /\ rest \in Seq(Event) /\ Len(rest) = Len(events) - 1
  BY <1>2
<1>4. \A i \in 1..Len(rest) : rest[i] = events[i + 1]
  BY <1>2
<1> HIDE DEF rest
<1>5. hidden \in 0..Len(rest) BY <1>3 DEF MessagesAssumption
<1> HIDE DEF hidden
<1>6. \A e \in Event : Messages!Block(e) \in Line /\ Messages!Block(e).row = e.delivery_id
  BY DEF Event, Line, Messages!Block
<1>7. \A i \in 1..(Len(rest) - hidden) :
        /\ hidden + i \in 1..Len(rest)
        /\ rest[hidden + i] \in Event /\ rest[hidden + i] = events[hidden + i + 1]
  <2> SUFFICES ASSUME NEW i \in 1..(Len(rest) - hidden)
               PROVE  /\ hidden + i \in 1..Len(rest)
                      /\ rest[hidden + i] \in Event /\ rest[hidden + i] = events[hidden + i + 1]
    OBVIOUS
  <2>1. hidden + i \in 1..Len(rest) BY <1>3, <1>5
  <2> QED BY <1>3, <1>4, <2>1
<1>8. actions \in Seq(Line) /\ Len(actions) = Len(rest) - hidden
  <2>1. Len(rest) - hidden \in Nat BY <1>3, <1>5
  <2>2. \A i \in 1..(Len(rest) - hidden) : actions[i] \in Line BY <1>6, <1>7
  <2> QED BY <2>1, <2>2
<1>9. \A i \in 1..Len(actions) :
        /\ actions[i].row = events[hidden + i + 1].delivery_id
        /\ hidden + i + 1 \in 1..Len(events)
  <2> SUFFICES ASSUME NEW i \in 1..(Len(rest) - hidden)
               PROVE  /\ actions[i].row = events[hidden + i + 1].delivery_id
                      /\ hidden + i + 1 \in 1..Len(events)
    BY <1>8
  <2>1. actions[i] = Messages!Block(rest[hidden + i]) OBVIOUS
  <2> HIDE DEF actions
  <2>2. rest[hidden + i] \in Event /\ rest[hidden + i] = events[hidden + i + 1] BY <1>7
  <2>3. hidden + i + 1 \in 1..Len(events) BY <1>3, <1>5
  <2>4. actions[i].row = rest[hidden + i].delivery_id BY <1>6, <2>1, <2>2
  <2> QED BY <2>2, <2>3, <2>4
<1>10. events[1] \in Event /\ 1 \in 1..Len(events) BY <1>2, <1>3
<1>11. Messages!Block(events[1]) \in Line /\ Messages!Block(events[1]).row = events[1].delivery_id
  BY <1>6, <1>10
<1> HIDE DEF actions
<1>12. body \in Body BY <1>1, <1>2, <1>8, <1>11 DEF Body
<1>13. BodyInOrder(body)
  <2>1. body.entry = Messages!Block(events[1]) /\ body.actions = actions BY <1>1
  <2>2. Shown(body) = <<Messages!Block(events[1])>> \o actions BY <2>1 DEF Shown
  <2>3. Len(Shown(body)) = Len(actions) + 1 /\ Shown(body)[1].row = events[1].delivery_id
    BY <1>8, <1>11, <2>2
  <2>4. \A a \in 2..Len(Shown(body)) : Shown(body)[a] = actions[a - 1] /\ a - 1 \in 1..Len(actions)
    BY <1>8, <1>11, <2>2
  <2>5. \A a \in 2..Len(Shown(body)) :
          Shown(body)[a].row = events[hidden + a].delivery_id /\ hidden + a \in 1..Len(events)
    <3> SUFFICES ASSUME NEW a \in 2..Len(Shown(body))
                 PROVE  /\ Shown(body)[a].row = events[hidden + a].delivery_id
                        /\ hidden + a \in 1..Len(events)
      OBVIOUS
    <3>1. hidden + (a - 1) + 1 = hidden + a BY <1>3, <1>5
    <3> QED BY <1>9, <2>4, <3>1
  <2> SUFFICES ASSUME NEW a \in 1..Len(Shown(body)), NEW b \in 1..Len(Shown(body)), a < b
               PROVE  Shown(body)[a].row < Shown(body)[b].row
    BY DEF BodyInOrder
  <2>6. b \in 2..Len(Shown(body)) /\ hidden \in Nat BY <1>3, <1>5, <1>8, <2>3
  <2>7. CASE a = 1
    <3>1. 1 < hidden + b BY <2>6
    <3> QED BY <1>10, <2>3, <2>5, <2>6, <2>7, <3>1 DEF InRowOrder, events
  <2>8. CASE a # 1
    <3>1. a \in 2..Len(Shown(body)) /\ hidden + a < hidden + b BY <2>6, <2>8
    <3> QED BY <2>5, <2>6, <3>1 DEF InRowOrder, events
  <2> QED BY <2>7, <2>8
<1> QED BY <1>12, <1>13 DEF body

-----------------------------------------------------------------------------
LEMMA MessagesStart == MessagesAssumption /\ Messages!Init => MessagesInv
<1> SUFFICES ASSUME MessagesAssumption, Messages!Init PROVE MessagesInv
  OBVIOUS
<1>1. cycle \in Record /\ cycle.events = <<>> /\ \A c \in Texts : cycle.messages[c] = 0
  BY DEF Messages!Init, Messages!NoRecord, Record, Texts
<1>2. MessagesTypeOK
  BY <1>1 DEF Messages!Init, MessagesTypeOK, Messages!Idle, Texts
<1>3. ~Busy /\ updates = <<>> BY DEF Messages!Init, Busy
<1>4. ChatsAreExcused
  <2> SUFFICES ASSUME NEW c \in Texts PROVE ChatIsExcused(c) BY DEF ChatsAreExcused
  <2>1. posts[c] = <<>> /\ excuses[c] = 0 BY DEF Messages!Init, Texts
  <2> QED BY <1>1, <1>3, <2>1 DEF ChatIsExcused, Known, Spare
<1>5. EventsInOrder BY <1>1, <1>3 DEF EventsInOrder, RecordInOrder, InRowOrder, UpTo
<1>6. BodiesInOrder BY DEF Messages!Init, BodiesInOrder, Texts
<1> QED BY <1>2, <1>4, <1>5, <1>6 DEF MessagesInv

-----------------------------------------------------------------------------
(* What the steps on a record and on a chat do. *)

(* A step that leaves the events of the records and the queue alone keeps their order. *)
LEMMA EventsStay ==
    ASSUME MessagesInv, updates' = updates, outbox'.row = outbox.row,
           cycle'.events \in {cycle.events} \cup
                             (IF Busy THEN {worker.record.events} ELSE {}),
           Busy' => Busy /\ worker'.record.events = worker.record.events
    PROVE  EventsInOrder'
<1>1. EventsInOrder BY DEF MessagesInv
<1>2. RecordInOrder(cycle)'
  <2>1. CASE cycle'.events = cycle.events BY <1>1, <2>1 DEF EventsInOrder, RecordInOrder, UpTo, InRowOrder
  <2>2. CASE Busy /\ cycle'.events = worker.record.events
    BY <1>1, <2>2 DEF EventsInOrder, RecordInOrder, UpTo, InRowOrder
  <2> QED BY <2>1, <2>2
<1>3. Busy' => RecordInOrder(worker.record)' /\ worker'.record.events # <<>>
  BY <1>1 DEF EventsInOrder, RecordInOrder, UpTo, InRowOrder
<1> QED BY <1>1, <1>2, <1>3 DEF EventsInOrder, UpTo

(* A working worker. *)
LEMMA WorkerIsTyped ==
    ASSUME MessagesTypeOK
    PROVE  /\ Busy <=> worker \in Working
           /\ \A w \in Working : w.step \in {"chat", "save"}
           /\ worker.step \in {"chat", "save"} => Busy
<1>1. \A w \in Working : w.step \in {"chat", "save"} BY DEF Working
<1>2. Messages!Idle.step = "idle" BY DEF Messages!Idle
<1>3. worker = Messages!Idle \/ worker \in Working BY DEF MessagesTypeOK
<1> QED BY <1>1, <1>2, <1>3 DEF Busy

(* The worker is done with a chat, or turns to a new message. *)
Settles(w, id) ==
    /\ w \in Working
    /\ w.record.events = worker.record.events
    /\ w.record.messages[Messages!Target] = id
    /\ \A c \in Texts \ {Messages!Target} : w.record.messages[c] = worker.record.messages[c]

LEMMA ChatIsDone ==
    ASSUME MessagesTypeOK, MessagesAssumption, worker \in Working, NEW id \in Nat,
           Messages!NextChat(id) \/ (id = 0 /\ Messages!SendInstead)
    PROVE  Settles(worker', id) /\ Messages!Target \in Texts
<1> DEFINE t == Messages!Target
<1>1. t \in Texts BY DEF Working, Messages!Target, Texts, Messages!ChatSet
<1>2. worker.record \in Record /\ worker.record.messages \in [Texts -> Nat] BY DEF Working, Record
<1> HIDE DEF t
<1>3. [worker.record EXCEPT !.messages[t] = id] \in Record BY <1>1, <1>2 DEF Record
<1>4. worker.at \in 1..Len(ChatOrder) /\ worker.step \in {"chat", "save"} BY DEF Working
<1>5. CASE Messages!NextChat(id)
  <2>1. worker' = [worker EXCEPT !.record.messages[t] = id, !.posting = FALSE,
                     !.step = IF worker.at = Len(ChatOrder) THEN "save" ELSE "chat",
                     !.at = IF worker.at = Len(ChatOrder) THEN @ ELSE @ + 1]
    BY <1>5 DEF Messages!NextChat, t
  <2>2. worker' = [step |-> IF worker.at = Len(ChatOrder) THEN "save" ELSE "chat",
                   at |-> IF worker.at = Len(ChatOrder) THEN worker.at ELSE worker.at + 1,
                   posting |-> FALSE, record |-> [worker.record EXCEPT !.messages[t] = id]]
    BY <2>1 DEF Working
  <2>3. worker' \in Working BY <1>3, <1>4, <2>2 DEF Working, MessagesAssumption
  <2>4. worker'.record = [worker.record EXCEPT !.messages[t] = id] BY <2>2
  <2> QED BY <1>1, <1>2, <2>3, <2>4 DEF Settles, t, Record
<1>6. CASE id = 0 /\ Messages!SendInstead
  <2>1. worker' = [worker EXCEPT !.record.messages[t] = id, !.posting = TRUE]
    BY <1>6 DEF Messages!SendInstead, t
  <2>2. worker' = [step |-> worker.step, at |-> worker.at, posting |-> TRUE,
                   record |-> [worker.record EXCEPT !.messages[t] = id]]
    BY <2>1 DEF Working
  <2>3. worker' \in Working BY <1>3, <1>4, <2>2 DEF Working
  <2>4. worker'.record = [worker.record EXCEPT !.messages[t] = id] BY <2>2
  <2> QED BY <1>1, <1>2, <2>3, <2>4 DEF Settles, t, Record
<1> QED BY <1>5, <1>6

LEMMA Excused ==
    ASSUME NEW some, excuses \in [Texts -> Nat], Messages!Excuse(some)
    PROVE  /\ excuses' \in [Texts -> Nat]
           /\ \A c \in Texts : excuses'[c] = IF c \in some THEN excuses[c] + 1 ELSE excuses[c]
BY DEF Messages!Excuse, Texts

LEMMA TroubleIsCounted ==
    MessagesTypeOK /\ Messages!Trouble => troubles' \in Nat
BY DEF MessagesTypeOK, Messages!Trouble

-----------------------------------------------------------------------------
(* One lemma per step. *)

LEMMA EventIsQueued ==
    ASSUME MessagesInv, NEW row \in Nat, NEW delivery \in {"sent", "unknown"},
           outbox.row <= row, outbox'.row = row,
           Messages!enqueue(Messages!lifecycle_event(row, delivery)),
           UNCHANGED <<worker, cycle>>
    PROVE  updates' \in Seq(Event) /\ EventsInOrder'
<1> DEFINE event == Messages!lifecycle_event(row, delivery)
<1>1. event \in Event /\ event.delivery_id = row BY EventIsTyped
<1>2. updates' = updates \/ updates' = Append(updates, event) BY DEF Messages!enqueue
<1> HIDE DEF event
<1>3. /\ updates \in Seq(Event) /\ outbox.row \in Nat /\ EventsInOrder /\ cycle \in Record
      /\ worker = Messages!Idle \/ worker \in Working
  BY DEF MessagesInv, MessagesTypeOK
<1>4. updates' \in Seq(Event) BY <1>1, <1>2, <1>3
<1>5. \A i \in 1..Len(updates') : updates'[i] = event \/
        (i \in 1..Len(updates) /\ updates'[i] = updates[i])
  BY <1>2, <1>3
<1>6. \A i \in 1..Len(updates) : updates[i] \in Event /\ updates[i].delivery_id <= outbox.row
  BY <1>3, ElementOfSeq DEF EventsInOrder, UpTo
<1>7. UpTo(updates, outbox.row)'
  <2> SUFFICES ASSUME NEW i \in 1..Len(updates') PROVE updates'[i].delivery_id <= row
    BY DEF UpTo
  <2>1. CASE updates'[i] = event BY <1>1, <2>1
  <2>2. CASE i \in 1..Len(updates) /\ updates'[i] = updates[i]
    <3>1. updates[i].delivery_id \in Nat BY <1>6, <2>2 DEF Event
    <3> QED BY <1>3, <1>6, <2>2, <3>1
  <2> QED BY <1>5, <2>1, <2>2
<1>8. \A i, j \in 1..Len(updates') : i < j => updates'[i].delivery_id <= updates'[j].delivery_id
  <2>1. CASE updates' = updates BY <1>3, <2>1 DEF EventsInOrder
  <2>2. CASE updates' = Append(updates, event)
    <3> SUFFICES ASSUME NEW i \in 1..Len(updates'), NEW j \in 1..Len(updates'), i < j
                 PROVE  updates'[i].delivery_id <= updates'[j].delivery_id
      OBVIOUS
    <3>1. i \in 1..Len(updates) /\ updates'[i] = updates[i] BY <1>3, <2>2
    <3>2. CASE j = Len(updates) + 1
      <4>1. updates'[j].delivery_id = row BY <1>1, <1>3, <2>2, <3>2
      <4>2. updates'[i].delivery_id <= row BY <1>7 DEF UpTo
      <4> QED BY <4>1, <4>2
    <3>3. CASE j \in 1..Len(updates)
      <4>1. updates'[j] = updates[j] BY <1>3, <2>2, <3>3
      <4> QED BY <1>3, <3>1, <3>3, <4>1 DEF EventsInOrder
    <3> QED BY <1>3, <2>2, <3>2, <3>3
  <2> QED BY <1>2, <2>1, <2>2
<1>9. ASSUME NEW record \in Record, RecordInOrder(record)
      PROVE  /\ UpTo(record.events, row)
             /\ \A i \in 1..Len(updates') : UpTo(record.events, updates'[i].delivery_id)
  <2>1. record.events \in Seq(Event) BY DEF Record
  <2>2. UpTo(record.events, row) BY <1>3, <1>9, <2>1, WithinBound DEF RecordInOrder
  <2>3. ASSUME NEW i \in 1..Len(updates') PROVE UpTo(record.events, updates'[i].delivery_id)
    <3>1. CASE updates'[i] = event BY <1>1, <2>2, <3>1
    <3>2. CASE i \in 1..Len(updates) /\ updates'[i] = updates[i] BY <1>9, <3>2 DEF RecordInOrder
    <3> QED BY <1>5, <3>1, <3>2
  <2> QED BY <2>2, <2>3
<1>10. RecordInOrder(cycle)'
  <2>1. RecordInOrder(cycle) BY <1>3 DEF EventsInOrder
  <2> QED BY <1>3, <1>9, <2>1 DEF RecordInOrder
<1>11. Busy' => RecordInOrder(worker.record)' /\ worker'.record.events # <<>>
  <2> SUFFICES ASSUME Busy' PROVE RecordInOrder(worker.record)' /\ worker'.record.events # <<>>
    OBVIOUS
  <2>1. RecordInOrder(worker.record) /\ worker.record.events # <<>>
    BY <1>3 DEF EventsInOrder, Busy
  <2>2. worker.record \in Record BY <1>3 DEF Busy, Working
  <2> QED BY <1>9, <2>1, <2>2 DEF RecordInOrder
<1> QED BY <1>4, <1>7, <1>8, <1>10, <1>11 DEF EventsInOrder

LEMMA ChatsStay ==
    ASSUME MessagesInv, UNCHANGED <<worker, cycle, posts, excuses>>
    PROVE  ChatsAreExcused' /\ BodiesInOrder'
BY DEF MessagesInv, ChatsAreExcused, ChatIsExcused, Known, Busy, Spare, BodiesInOrder

LEMMA RowKeepsMessages ==
    ASSUME MessagesInv, Messages!NextRow \/ Messages!RowAgain PROVE MessagesInv'
<1>1. UNCHANGED <<notifier, worker, cycle, posts, excuses, troubles>>
  BY DEF Messages!NextRow, Messages!RowAgain
<1>2. outbox \in [row : Nat, settled : BOOLEAN, repeats : Nat] BY DEF MessagesInv, MessagesTypeOK
<1>3. outbox' \in [row : Nat, settled : BOOLEAN, repeats : Nat] /\ updates' \in Seq(Event) /\ EventsInOrder'
  <2>1. CASE Messages!NextRow
    <3>1. PICK delivery \in {"sent", "unknown"}, settled \in BOOLEAN :
            /\ outbox' = [outbox EXCEPT !.row = @ + 1, !.settled = settled]
            /\ Messages!enqueue(Messages!lifecycle_event(outbox.row + 1, delivery))
      BY <2>1 DEF Messages!NextRow
    <3>2. outbox' = [row |-> outbox.row + 1, settled |-> settled, repeats |-> outbox.repeats]
      BY <1>2, <3>1
    <3>3. /\ outbox.row \in Nat /\ outbox.repeats \in Nat
          /\ outbox.row + 1 \in Nat /\ outbox.row <= outbox.row + 1
      BY <1>2
    <3> QED BY <1>1, <3>1, <3>2, <3>3, EventIsQueued
  <2>2. CASE Messages!RowAgain
    <3>1. PICK delivery \in {"sent", "unknown"}, settled \in BOOLEAN :
            /\ outbox' = [outbox EXCEPT !.settled = settled, !.repeats = @ + 1]
            /\ Messages!enqueue(Messages!lifecycle_event(outbox.row, delivery))
      BY <2>2 DEF Messages!RowAgain
    <3>2. outbox' = [row |-> outbox.row, settled |-> settled, repeats |-> outbox.repeats + 1]
      BY <1>2, <3>1
    <3>3. outbox.row \in Nat /\ outbox.row <= outbox.row /\ outbox.repeats + 1 \in Nat BY <1>2
    <3> QED BY <1>1, <3>1, <3>2, <3>3, EventIsQueued
  <2> QED BY <2>1, <2>2
<1>4. MessagesTypeOK' BY <1>1, <1>3 DEF MessagesInv, MessagesTypeOK
<1> QED BY <1>1, <1>3, <1>4, ChatsStay DEF MessagesInv

(* A chat whose id and messages stay keeps what is known of it, however many excuses are added. *)
LEMMA ChatStays ==
    ASSUME MessagesInv, NEW c \in Texts,
           posts'[c] = posts[c] \/ (/\ Len(posts'[c]) = Len(posts[c])
                                   /\ \A i \in 1..Len(posts[c]) : posts'[c][i].gone = posts[c][i].gone),
           excuses'[c] \in Nat, excuses[c] <= excuses'[c],
           Known(c)' = Known(c), cycle'.messages[c] \in 0..Len(posts[c])
    PROVE  ChatIsExcused(c)'
<1>1. ChatIsExcused(c) /\ Len(posts[c]) \in Nat /\ excuses[c] \in Nat
  BY DEF MessagesInv, MessagesTypeOK, ChatsAreExcused
<1>2. Len(posts'[c]) = Len(posts[c])
      /\ \A i \in 1..Len(posts[c]) : posts'[c][i].gone = posts[c][i].gone
  OBVIOUS
<1>3. Spare(c) => Spare(c)' BY <1>1, <1>2 DEF Spare
<1>4. Known(c) # 0 => Known(c) \in 1..Len(posts[c]) BY <1>1 DEF ChatIsExcused
<1> QED BY <1>1, <1>2, <1>3, <1>4 DEF ChatIsExcused

(* A chat with more excuses than messages needs no id. *)
LEMMA SpareChat ==
    ASSUME NEW c \in Texts, Len(posts'[c]) \in Nat, excuses'[c] \in Nat, Spare(c)',
           Known(c)' \in 0..Len(posts'[c]), cycle'.messages[c] \in 0..Len(posts'[c])
    PROVE  ChatIsExcused(c)'
BY DEF ChatIsExcused, Spare

LEMMA DeliverKeepsMessages ==
    ASSUME MessagesInv, MessagesAssumption, Messages!Deliver PROVE MessagesInv'
<1>1. /\ ~Busy /\ updates \in Seq(Event) /\ updates # <<>> /\ updates' = Tail(updates)
      /\ cycle \in Record /\ excuses \in [Texts -> Nat] /\ posts \in [Texts -> Seq(Post)]
      /\ UNCHANGED <<outbox, notifier, cycle, posts>>
  BY DEF Messages!Deliver, MessagesInv, MessagesTypeOK, Busy
<1> DEFINE event == Head(updates)
<1>2. event \in Event /\ event = updates[1] /\ 1 \in 1..Len(updates) BY <1>1
<1>3. /\ updates' \in Seq(Event) /\ Len(updates') = Len(updates) - 1
      /\ \A i \in 1..Len(updates') : updates'[i] = updates[i + 1] /\ i + 1 \in 1..Len(updates)
  BY <1>1
<1> HIDE DEF event
<1>4. PICK record \in {cycle, Messages!NoRecord} :
        /\ Messages!Fold(event, record)
        /\ \/ record = cycle /\ UNCHANGED <<excuses, troubles>>
           \/ /\ Messages!Trouble /\ record = Messages!NoRecord
              /\ Messages!Excuse({c \in Texts : cycle.messages[c] # 0})
  BY DEF Messages!Deliver, event, Texts
<1>5. Messages!NoRecord \in Record /\ RecordInOrder(Messages!NoRecord)
  BY DEF Messages!NoRecord, Record, Texts, RecordInOrder, InRowOrder, UpTo
<1>6. record \in Record /\ RecordInOrder(record)
  BY <1>1, <1>4, <1>5 DEF MessagesInv, EventsInOrder
<1> DEFINE merged == Messages!MergedEvents(record.events, event)
<1>7. /\ merged \in Seq(Event) /\ InRowOrder(merged) /\ UpTo(merged, event.delivery_id)
      /\ merged # <<>>
  <2>1. record.events \in Seq(Event) /\ InRowOrder(record.events) BY <1>6 DEF Record, RecordInOrder
  <2>2. UpTo(record.events, event.delivery_id) BY <1>2, <1>6 DEF RecordInOrder
  <2> QED BY <1>2, <2>1, <2>2, FoldedInOrder
<1>8. worker' = [step |-> "chat", at |-> 1, posting |-> FALSE,
                 record |-> [record EXCEPT !.events = merged,
                    !.status = IF Messages!is_terminal_event(event) THEN "CLOSED" ELSE @]]
  BY <1>4 DEF Messages!Fold
<1> HIDE DEF merged
<1>9. /\ worker'.record \in Record /\ worker'.record.events = merged
      /\ worker'.record.messages = record.messages
  BY <1>6, <1>7, <1>8 DEF Record
<1>10. worker' \in Working BY <1>8, <1>9 DEF Working, MessagesAssumption
<1>11. Busy' BY <1>10, <1>8 DEF Busy, Messages!Idle
<1>12. excuses' \in [Texts -> Nat] /\ \A c \in Texts :
          /\ excuses[c] <= excuses'[c]
          /\ record = cycle \/ (cycle.messages[c] # 0 => excuses'[c] = excuses[c] + 1)
  <2>1. CASE UNCHANGED excuses /\ record = cycle BY <1>1, <2>1
  <2>2. CASE Messages!Excuse({c \in Texts : cycle.messages[c] # 0}) BY <1>1, <2>2, Excused
  <2> QED BY <1>4, <2>1, <2>2
<1>13. MessagesTypeOK'
  <2>1. troubles' \in Nat BY <1>4, TroubleIsCounted DEF MessagesInv, MessagesTypeOK
  <2> QED BY <1>1, <1>3, <1>10, <1>12, <2>1 DEF MessagesInv, MessagesTypeOK
<1>14. ChatsAreExcused'
  <2> SUFFICES ASSUME NEW c \in Texts PROVE ChatIsExcused(c)' BY DEF ChatsAreExcused
  <2>1. /\ ChatIsExcused(c) /\ Known(c) = cycle.messages[c] /\ Known(c)' = record.messages[c]
        /\ Len(posts[c]) \in Nat /\ excuses[c] \in Nat /\ excuses'[c] \in Nat
    BY <1>1, <1>9, <1>11, <1>12 DEF MessagesInv, ChatsAreExcused, Known
  <2>2. CASE record = cycle BY <1>1, <1>12, <2>1, <2>2, ChatStays DEF ChatIsExcused
  <2>3. CASE record # cycle
    <3>1. record.messages[c] = 0 BY <1>4, <2>3 DEF Messages!NoRecord, Texts
    <3>2. Spare(c)'
      <4>1. CASE cycle.messages[c] = 0 BY <1>1, <1>12, <2>1, <4>1 DEF ChatIsExcused, Spare
      <4>2. CASE cycle.messages[c] # 0 BY <1>1, <1>12, <2>1, <2>3, <4>2 DEF ChatIsExcused, Spare
      <4> QED BY <4>1, <4>2
    <3> QED BY <1>1, <2>1, <3>1, <3>2, SpareChat DEF ChatIsExcused
  <2> QED BY <2>2, <2>3
<1>15. EventsInOrder'
  <2>1. EventsInOrder /\ outbox.row \in Nat BY DEF MessagesInv, MessagesTypeOK
  <2>2. RecordInOrder(cycle)' BY <1>1, <1>3, <2>1 DEF EventsInOrder, RecordInOrder
  <2>3. UpTo(merged, outbox.row)
    <3>1. event.delivery_id <= outbox.row BY <1>2, <2>1 DEF EventsInOrder, UpTo
    <3>2. event.delivery_id \in Nat BY <1>2 DEF Event
    <3> QED BY <1>7, <2>1, <3>1, <3>2, WithinBound
  <2>4. ASSUME NEW i \in 1..Len(updates') PROVE UpTo(merged, updates'[i].delivery_id)
    <3>1. i + 1 \in 1..Len(updates) /\ updates'[i] = updates[i + 1] BY <1>3
    <3>2. event.delivery_id <= updates[i + 1].delivery_id
      <4>1. 1 < i + 1 BY <3>1
      <4> QED BY <1>2, <2>1, <3>1, <4>1 DEF EventsInOrder
    <3>3. updates[i + 1] \in Event BY <1>1, <3>1, ElementOfSeq
    <3>4. updates[i + 1].delivery_id \in Nat /\ event.delivery_id \in Nat BY <1>2, <3>3 DEF Event
    <3> QED BY <1>7, <3>1, <3>2, <3>4, WithinBound
  <2>5. RecordInOrder(worker.record)' BY <1>1, <1>7, <1>9, <2>3, <2>4 DEF RecordInOrder
  <2>6. UpTo(updates, outbox.row)' BY <1>1, <1>3, <2>1 DEF EventsInOrder, UpTo
  <2>7. \A i, j \in 1..Len(updates') : i < j => updates'[i].delivery_id <= updates'[j].delivery_id
    <3> SUFFICES ASSUME NEW i \in 1..Len(updates'), NEW j \in 1..Len(updates'), i < j
                 PROVE  updates[i + 1].delivery_id <= updates[j + 1].delivery_id
      BY <1>3
    <3>1. i + 1 \in 1..Len(updates) /\ j + 1 \in 1..Len(updates) /\ i + 1 < j + 1 BY <1>3
    <3> QED BY <2>1, <3>1 DEF EventsInOrder
  <2> QED BY <1>7, <1>9, <2>2, <2>5, <2>6, <2>7 DEF EventsInOrder
<1>16. BodiesInOrder' BY <1>1 DEF MessagesInv, BodiesInOrder
<1> QED BY <1>13, <1>14, <1>15, <1>16 DEF MessagesInv

(* The worker is done with a chat: the other chats are as they were. *)
LEMMA WorkerSettles ==
    ASSUME MessagesInv, MessagesAssumption, worker \in Working, NEW id \in Nat,
           NEW t \in Texts, t = Messages!Target,
           Messages!NextChat(id) \/ (id = 0 /\ Messages!SendInstead),
           UNCHANGED <<outbox, notifier, updates, cycle>>,
           troubles' \in Nat, posts' \in [Texts -> Seq(Post)],
           excuses' = excuses \/ Messages!Excuse({t}),
           \A c \in Texts \ {t} : posts'[c] = posts[c],
           Settles(worker', id) => ChatIsExcused(t)',
           BodiesInOrder'
    PROVE  MessagesInv'
<1>1. Settles(worker', id)
  BY ChatIsDone DEF MessagesInv
<1>2. Busy /\ Busy' BY <1>1 DEF Busy, Settles, Working, Messages!Idle
<1>3. MessagesTypeOK /\ excuses \in [Texts -> Nat] /\ posts \in [Texts -> Seq(Post)]
  BY DEF MessagesInv, MessagesTypeOK
<1>4. excuses' \in [Texts -> Nat]
      /\ \A c \in Texts \ {t} : excuses'[c] = excuses[c]
  <2>1. CASE Messages!Excuse({t}) BY <1>3, <2>1, Excused
  <2> QED BY <1>3, <2>1
<1>5. MessagesTypeOK' BY <1>1, <1>3, <1>4 DEF MessagesTypeOK, Settles
<1>6. ChatsAreExcused'
  <2> SUFFICES ASSUME NEW c \in Texts \ {t} PROVE ChatIsExcused(c)'
    BY <1>1 DEF ChatsAreExcused
  <2>1. /\ ChatIsExcused(c) /\ Known(c)' = Known(c) /\ posts'[c] = posts[c]
        /\ excuses'[c] = excuses[c] /\ excuses[c] \in Nat
    BY <1>1, <1>2, <1>3, <1>4 DEF MessagesInv, ChatsAreExcused, Known, Settles
  <2>2. cycle'.messages[c] \in 0..Len(posts[c]) BY <2>1 DEF ChatIsExcused
  <2> QED BY <2>1, <2>2, ChatStays
<1>7. EventsInOrder'
  <2>1. worker'.record.events = worker.record.events BY <1>1 DEF Settles
  <2> QED BY <1>2, <2>1, EventsStay
<1> QED BY <1>5, <1>6, <1>7 DEF MessagesInv

(* What the worker writes is in order. *)
LEMMA WorkerWritesInOrder ==
    ASSUME MessagesInv, MessagesAssumption, worker \in Working
    PROVE  /\ Messages!format_cycle(worker.record) \in Body
           /\ BodyInOrder(Messages!format_cycle(worker.record))
<1>1. Busy BY DEF Busy, Working, Messages!Idle
<1>2. worker.record \in Record /\ worker.record.events # <<>> /\ InRowOrder(worker.record.events)
  BY <1>1 DEF Working, MessagesInv, EventsInOrder, RecordInOrder
<1> QED BY <1>2, FormattedInOrder

(* An edited message: what it shows changes, and whether it is there does not. *)
LEMMA ShownAgain ==
    ASSUME MessagesInv, MessagesAssumption, worker \in Working, NEW t \in Texts, t = Messages!Target,
           NEW i \in 1..Len(posts[t]), Messages!Shows(i)
    PROVE  /\ posts' \in [Texts -> Seq(Post)]
           /\ \A c \in Texts \ {t} : posts'[c] = posts[c]
           /\ Len(posts'[t]) = Len(posts[t])
           /\ \A k \in 1..Len(posts[t]) :
                 posts'[t][k].gone = posts[t][k].gone
           /\ BodiesInOrder'
<1> DEFINE body == Messages!format_cycle(worker.record)
<1>1. body \in Body /\ BodyInOrder(body) BY WorkerWritesInOrder
<1>2. posts' = [posts EXCEPT ![t][i].body = body] BY DEF Messages!Shows
<1>3. posts \in [Texts -> Seq(Post)] /\ posts[t] \in Seq(Post) /\ t \in Texts
  BY DEF MessagesInv, MessagesTypeOK
<1> HIDE DEF body
<1>4. posts[t][i] \in Post BY <1>3
<1>5. posts' = [posts EXCEPT ![t] = [posts[t] EXCEPT ![i] = [posts[t][i] EXCEPT !.body = body]]]
  BY <1>2, <1>3
<1> DEFINE new == [posts[t][i] EXCEPT !.body = body]
<1>6. new \in Post /\ new.body = body /\ new.gone = posts[t][i].gone BY <1>1, <1>4 DEF Post
<1> HIDE DEF new
<1>7. posts' = [posts EXCEPT ![t] = [posts[t] EXCEPT ![i] = new]] BY <1>5 DEF new
<1> DEFINE row == [posts[t] EXCEPT ![i] = new]
<1>8. /\ row \in Seq(Post) /\ Len(row) = Len(posts[t])
      /\ \A k \in 1..Len(posts[t]) : row[k] = IF k = i THEN new ELSE posts[t][k]
  BY <1>3, <1>6, SMTT(20)
<1> HIDE DEF row
<1>9. posts' = [posts EXCEPT ![t] = row] BY <1>7 DEF row
<1>10. posts' \in [Texts -> Seq(Post)] /\ posts'[t] = row /\ \A c \in Texts \ {t} : posts'[c] = posts[c]
  BY <1>3, <1>8, <1>9
<1>11. \A k \in 1..Len(posts[t]) : row[k].gone = posts[t][k].gone BY <1>6, <1>8
<1>12. BodiesInOrder'
  <2> SUFFICES ASSUME NEW c \in Texts, NEW k \in 1..Len(posts'[c])
               PROVE  BodyInOrder(posts'[c][k].body)
    BY DEF BodiesInOrder
  <2>1. CASE c = t /\ k = i BY <1>1, <1>3, <1>6, <1>8, <1>10, <2>1
  <2>2. CASE c = t /\ k # i
    BY <1>3, <1>8, <1>10, <2>2 DEF MessagesInv, BodiesInOrder
  <2>3. CASE c # t BY <1>10, <2>3 DEF MessagesInv, BodiesInOrder
  <2> QED BY <2>1, <2>2, <2>3
<1> QED BY <1>8, <1>10, <1>11, <1>12

LEMMA EditKeepsMessages ==
    ASSUME MessagesInv, MessagesAssumption, Messages!Edit PROVE MessagesInv'
<1> DEFINE id == Messages!Stored
<1>1. MessagesTypeOK BY DEF MessagesInv
<1>2. Busy /\ worker \in Working BY <1>1, WorkerIsTyped DEF Messages!Edit, Messages!Chat
<1>3. PICK t \in Texts : t = Messages!Target
  BY <1>2 DEF Working, Messages!Target, Texts, Messages!ChatSet
<1>4. /\ id = worker.record.messages[t]
      /\ id = Known(t) /\ id # 0
  BY <1>2, <1>3 DEF Messages!Stored, Known, Messages!Edit
<1>5. ChatIsExcused(t) /\ posts \in [Texts -> Seq(Post)] /\ excuses \in [Texts -> Nat]
  BY <1>1, <1>3 DEF MessagesInv, ChatsAreExcused, MessagesTypeOK
<1>6. id \in 1..Len(posts[t]) /\ id \in Nat BY <1>4, <1>5 DEF ChatIsExcused
<1>7. UNCHANGED <<outbox, notifier, updates, cycle>> BY DEF Messages!Edit
<1>8. BodiesInOrder BY DEF MessagesInv
<1>9. cycle.messages[t] \in 0..Len(posts[t]) /\ Len(posts[t]) \in Nat /\ excuses[t] \in Nat
  BY <1>3, <1>5 DEF ChatIsExcused
<1> HIDE DEF id
(* The id stays, whatever became of the edit. *)
<1>10. ASSUME Messages!NextChat(id), UNCHANGED excuses, troubles' \in Nat,
              UNCHANGED posts \/ Messages!Shows(id)
       PROVE  MessagesInv'
  <2>1. /\ posts' \in [Texts -> Seq(Post)] /\ \A c \in Texts \ {t} : posts'[c] = posts[c]
        /\ Len(posts'[t]) = Len(posts[t])
        /\ \A k \in 1..Len(posts[t]) : posts'[t][k].gone = posts[t][k].gone
        /\ BodiesInOrder'
    <3>1. CASE UNCHANGED posts BY <1>5, <1>8, <3>1 DEF BodiesInOrder
    <3>2. CASE Messages!Shows(id) BY <1>2, <1>3, <1>6, <3>2, ShownAgain
    <3> QED BY <1>10, <3>1, <3>2
  <2>2. ASSUME Settles(worker', id) PROVE ChatIsExcused(t)'
    <3>1. Known(t)' = id BY <1>3, <2>2 DEF Settles, Known, Busy, Working, Messages!Idle
    <3> QED BY <1>3, <1>4, <1>7, <1>9, <1>10, <2>1, <3>1, ChatStays
  <2> QED BY <1>2, <1>3, <1>6, <1>7, <1>10, <2>1, <2>2, WorkerSettles
(* The message is gone, or is given up: a new one is sent. *)
<1>11. ASSUME Messages!SendInstead, UNCHANGED posts, troubles' \in Nat,
              excuses' = excuses \/ Messages!Excuse({t}), Spare(t)'
       PROVE  MessagesInv'
  <2>1. ASSUME Settles(worker', 0) PROVE ChatIsExcused(t)'
    <3>1. Known(t)' = 0 BY <1>3, <2>1 DEF Settles, Known, Busy, Working, Messages!Idle
    <3>2. excuses'[t] \in Nat BY <1>3, <1>5, <1>11, Excused
    <3> QED BY <1>3, <1>7, <1>9, <1>11, <3>1, <3>2, SpareChat
  <2>2. posts' \in [Texts -> Seq(Post)] /\ \A c \in Texts \ {t} : posts'[c] = posts[c]
    BY <1>5, <1>11
  <2>3. BodiesInOrder' BY <1>8, <1>11 DEF BodiesInOrder
  <2> QED BY <1>2, <1>3, <1>7, <1>11, <2>1, <2>2, <2>3, WorkerSettles
<1>12. troubles \in Nat /\ (Messages!Trouble => troubles' \in Nat)
  BY <1>1, TroubleIsCounted DEF MessagesTypeOK
<1>13. CASE Messages!Shows(id) /\ Messages!NextChat(id) /\ UNCHANGED <<excuses, troubles>>
  BY <1>10, <1>12, <1>13
<1>14. CASE posts[t][id].gone /\ Messages!SendInstead /\ UNCHANGED <<posts, excuses, troubles>>
  <2>1. Spare(t)' BY <1>4, <1>5, <1>14 DEF ChatIsExcused, Spare
  <2> QED BY <1>11, <1>12, <1>14, <2>1
<1>15. CASE Messages!Trouble /\ Messages!SendInstead /\ Messages!Excuse({t}) /\ UNCHANGED posts
  <2>1. excuses'[t] = excuses[t] + 1 BY <1>3, <1>5, <1>15, Excused
  <2>2. Spare(t)' BY <1>5, <1>9, <1>15, <2>1 DEF ChatIsExcused, Spare
  <2> QED BY <1>11, <1>12, <1>15, <2>2
<1>16. CASE /\ Messages!Trouble /\ Messages!AfterFailedEdit /\ UNCHANGED excuses
            /\ UNCHANGED posts \/ Messages!Shows(id)
  BY <1>10, <1>12, <1>16 DEF Messages!AfterFailedEdit, id
<1> QED BY <1>3, <1>13, <1>14, <1>15, <1>16 DEF Messages!Edit, id

LEMMA SendKeepsMessages ==
    ASSUME MessagesInv, MessagesAssumption, Messages!Send PROVE MessagesInv'
<1> DEFINE body == Messages!format_cycle(worker.record)
           new == [body |-> body, gone |-> FALSE]
<1>1. MessagesTypeOK BY DEF MessagesInv
<1>2. Busy /\ worker \in Working BY <1>1, WorkerIsTyped DEF Messages!Send, Messages!Chat
<1>3. PICK t \in Texts : t = Messages!Target
  BY <1>2 DEF Working, Messages!Target, Texts, Messages!ChatSet
<1> DEFINE longer == [posts EXCEPT ![t] = Append(@, new)]
<1>4. Known(t) = 0 BY <1>2, <1>3 DEF Messages!Stored, Known, Messages!Send
<1>5. ChatIsExcused(t) /\ posts \in [Texts -> Seq(Post)] /\ excuses \in [Texts -> Nat]
  BY <1>1, <1>3 DEF MessagesInv, ChatsAreExcused, MessagesTypeOK
<1>6. UNCHANGED <<outbox, notifier, updates, cycle>> BY DEF Messages!Send
<1>7. BodiesInOrder BY DEF MessagesInv
<1>8. /\ cycle.messages[t] \in 0..Len(posts[t]) /\ Len(posts[t]) \in Nat /\ excuses[t] \in Nat
      /\ Len(posts[t]) <= excuses[t]
  BY <1>3, <1>4, <1>5 DEF ChatIsExcused, Spare
<1>9. body \in Body /\ BodyInOrder(body) BY <1>2, WorkerWritesInOrder
<1>10. \/ posts' = longer /\ Messages!NextChat(Len(longer[t])) /\ UNCHANGED <<excuses, troubles>>
       \/ Messages!Trouble /\ UNCHANGED <<posts, excuses>> /\ Messages!NextChat(0)
       \/ Messages!Trouble /\ posts' = longer /\ Messages!NextChat(0) /\ Messages!Excuse({t})
  BY <1>3 DEF Messages!Send
<1> HIDE DEF body
<1>11. new \in Post /\ new.body = body /\ new.gone = FALSE BY <1>9 DEF Post
<1> HIDE DEF new
<1>12. /\ longer \in [Texts -> Seq(Post)] /\ longer[t] = Append(posts[t], new)
       /\ \A c \in Texts \ {t} : longer[c] = posts[c]
  BY <1>3, <1>5, <1>11
<1> HIDE DEF longer
<1>13. /\ Len(longer[t]) = Len(posts[t]) + 1 /\ longer[t][Len(posts[t]) + 1] = new
       /\ \A k \in 1..Len(posts[t]) : longer[t][k] = posts[t][k]
  BY <1>3, <1>5, <1>12
<1>14. ASSUME posts' = longer PROVE BodiesInOrder'
  <2> SUFFICES ASSUME NEW c \in Texts, NEW k \in 1..Len(posts'[c])
               PROVE  BodyInOrder(posts'[c][k].body)
    BY DEF BodiesInOrder
  <2>1. CASE c = t /\ k = Len(posts[t]) + 1 BY <1>9, <1>11, <1>13, <1>14, <2>1
  <2>2. CASE c = t /\ k # Len(posts[t]) + 1
    <3>1. k \in 1..Len(posts[t]) BY <1>8, <1>13, <1>14, <2>2
    <3> QED BY <1>7, <1>13, <1>14, <2>2, <3>1 DEF BodiesInOrder
  <2>3. CASE c # t BY <1>7, <1>12, <1>14, <2>3 DEF BodiesInOrder
  <2> QED BY <2>1, <2>2, <2>3
<1>15. troubles \in Nat /\ (Messages!Trouble => troubles' \in Nat)
  BY <1>1, TroubleIsCounted DEF MessagesTypeOK
<1>16. ASSUME NEW id \in Nat, Settles(worker', id) PROVE Known(t)' = id
  BY <1>3, <1>16 DEF Settles, Known, Busy, Working, Messages!Idle
<1>17. CASE posts' = longer /\ Messages!NextChat(Len(longer[t])) /\ UNCHANGED <<excuses, troubles>>
  <2> DEFINE id == Len(longer[t])
  <2>1. id \in Nat /\ id = Len(posts[t]) + 1 BY <1>8, <1>13
  <2> HIDE DEF id
  <2>2. ASSUME Settles(worker', id) PROVE ChatIsExcused(t)'
    <3>1. Known(t)' = id BY <1>16, <2>1, <2>2
    <3>2. /\ posts'[t][id].gone = FALSE /\ Len(posts'[t]) = id
          /\ excuses'[t] = excuses[t] /\ cycle' = cycle
      BY <1>6, <1>11, <1>13, <1>17, <2>1
    <3> QED BY <1>8, <2>1, <3>1, <3>2 DEF ChatIsExcused
  <2> QED BY <1>2, <1>3, <1>6, <1>12, <1>14, <1>15, <1>17, <2>1, <2>2, WorkerSettles DEF id
<1>18. CASE Messages!Trouble /\ UNCHANGED <<posts, excuses>> /\ Messages!NextChat(0)
  <2>1. ASSUME Settles(worker', 0) PROVE ChatIsExcused(t)'
    <3>1. Known(t)' = 0 BY <1>16, <2>1
    <3> QED BY <1>3, <1>6, <1>8, <1>18, <3>1, SpareChat DEF Spare
  <2>2. BodiesInOrder' BY <1>7, <1>18 DEF BodiesInOrder
  <2> QED BY <1>2, <1>3, <1>5, <1>6, <1>15, <1>18, <2>1, <2>2, WorkerSettles
<1>19. CASE Messages!Trouble /\ posts' = longer /\ Messages!NextChat(0) /\ Messages!Excuse({t})
  <2>1. excuses'[t] = excuses[t] + 1 BY <1>3, <1>5, <1>19, Excused
  <2>2. ASSUME Settles(worker', 0) PROVE ChatIsExcused(t)'
    <3>1. Known(t)' = 0 BY <1>16, <2>2
    <3>2. /\ Spare(t)' /\ Len(posts'[t]) = Len(posts[t]) + 1 /\ excuses'[t] \in Nat
          /\ cycle'.messages[t] \in 0..Len(posts'[t])
      BY <1>6, <1>8, <1>13, <1>19, <2>1 DEF Spare
    <3> QED BY <1>3, <1>8, <3>1, <3>2, SpareChat
  <2> QED BY <1>2, <1>3, <1>6, <1>12, <1>14, <1>15, <1>19, <2>2, WorkerSettles
<1> QED BY <1>10, <1>17, <1>18, <1>19

(* The worker is gone: what it knew of a chat and did not save is excused. *)
LEMMA WorkerForgets ==
    ASSUME MessagesInv, worker' = Messages!Idle, UNCHANGED <<cycle, posts>>,
           Messages!Excuse(Messages!Unsaved)
    PROVE  ChatsAreExcused' /\ excuses' \in [Texts -> Nat] /\ BodiesInOrder'
<1>1. MessagesTypeOK /\ excuses \in [Texts -> Nat] /\ posts \in [Texts -> Seq(Post)]
  BY DEF MessagesInv, MessagesTypeOK
<1>2. /\ excuses' \in [Texts -> Nat]
      /\ \A c \in Texts :
           excuses'[c] = IF c \in Messages!Unsaved THEN excuses[c] + 1 ELSE excuses[c]
  BY <1>1, Excused
<1>3. ASSUME NEW c \in Texts PROVE ChatIsExcused(c)'
  <2>1. ChatIsExcused(c) /\ Len(posts[c]) \in Nat /\ excuses[c] \in Nat /\ excuses'[c] \in Nat
    BY <1>1, <1>2 DEF MessagesInv, ChatsAreExcused
  <2>2. Known(c)' = cycle.messages[c] /\ cycle.messages[c] \in 0..Len(posts[c])
    BY <2>1 DEF Known, Busy, ChatIsExcused
  <2>3. excuses[c] <= excuses'[c] BY <1>2, <2>1
  <2>4. CASE Known(c) = cycle.messages[c] BY <2>1, <2>2, <2>3, <2>4, ChatStays
  <2>5. CASE Known(c) # cycle.messages[c]
    <3>1. Busy /\ Known(c) = worker.record.messages[c] BY <2>5 DEF Known
    <3>2. Spare(c)'
      <4>1. CASE Known(c) = 0 BY <2>1, <2>3, <4>1 DEF ChatIsExcused, Spare
      <4>2. CASE Known(c) # 0
        <5>1. c \in Messages!Unsaved
          BY <2>5, <3>1, <4>2 DEF Messages!Unsaved, Busy, Texts
        <5>2. excuses'[c] = excuses[c] + 1 BY <1>2, <5>1
        <5> QED BY <2>1, <5>2 DEF ChatIsExcused, Spare
      <4> QED BY <4>1, <4>2
    <3> QED BY <2>1, <2>2, <3>2, SpareChat
  <2> QED BY <2>4, <2>5
<1>4. BodiesInOrder' BY DEF MessagesInv, BodiesInOrder
<1> QED BY <1>2, <1>3, <1>4 DEF ChatsAreExcused

LEMMA SaveKeepsMessages ==
    ASSUME MessagesInv, Messages!Save PROVE MessagesInv'
<1>1. /\ Busy /\ worker \in Working /\ MessagesTypeOK
  BY WorkerIsTyped DEF Messages!Save, MessagesInv
<1>2. ~Busy' /\ worker' = Messages!Idle /\ UNCHANGED <<outbox, notifier, updates, posts>>
  BY DEF Messages!Save, Busy
<1>3. CASE cycle' = worker.record /\ UNCHANGED <<excuses, troubles>>
  <2>1. MessagesTypeOK' BY <1>1, <1>2, <1>3 DEF MessagesTypeOK, Working
  <2>2. ChatsAreExcused'
    <3> SUFFICES ASSUME NEW c \in Texts PROVE ChatIsExcused(c)' BY DEF ChatsAreExcused
    <3>1. ChatIsExcused(c) /\ excuses[c] \in Nat
      BY <1>1 DEF MessagesInv, ChatsAreExcused, MessagesTypeOK
    <3>2. Known(c)' = Known(c) /\ cycle'.messages[c] = Known(c)
      BY <1>1, <1>2, <1>3 DEF Known
    <3>3. posts'[c] = posts[c] /\ excuses'[c] = excuses[c] BY <1>2, <1>3
    <3> QED BY <3>1, <3>2, <3>3 DEF ChatIsExcused, Spare
  <2>3. EventsInOrder' BY <1>1, <1>2, <1>3, EventsStay
  <2>4. BodiesInOrder' BY <1>2 DEF MessagesInv, BodiesInOrder
  <2> QED BY <2>1, <2>2, <2>3, <2>4 DEF MessagesInv
<1>4. CASE Messages!Trouble /\ UNCHANGED cycle /\ Messages!Excuse(Messages!Unsaved)
  <2>1. ChatsAreExcused' /\ excuses' \in [Texts -> Nat] /\ BodiesInOrder'
    BY <1>2, <1>4, WorkerForgets
  <2>2. MessagesTypeOK' BY <1>1, <1>2, <1>4, <2>1, TroubleIsCounted DEF MessagesTypeOK
  <2>3. EventsInOrder' BY <1>2, <1>4, EventsStay
  <2> QED BY <2>1, <2>2, <2>3 DEF MessagesInv
<1> QED BY <1>3, <1>4 DEF Messages!Save

LEMMA DeletedKeepsMessages ==
    ASSUME MessagesInv, Messages!Deleted PROVE MessagesInv'
<1>1. MessagesTypeOK /\ excuses \in [Texts -> Nat] /\ posts \in [Texts -> Seq(Post)]
  BY DEF MessagesInv, MessagesTypeOK
<1>2. UNCHANGED <<outbox, notifier, updates, worker, cycle>> /\ Messages!Trouble
  BY DEF Messages!Deleted
<1>3. PICK t \in Texts : \E i \in 1..Len(posts[t]) :
        posts' = [posts EXCEPT ![t][i].gone = TRUE] /\ Messages!Excuse({t})
  BY DEF Messages!Deleted, Texts
<1>4. PICK i \in 1..Len(posts[t]) : posts' = [posts EXCEPT ![t][i].gone = TRUE]
  BY <1>3
<1>5. posts[t][i] \in Post BY <1>1
<1> DEFINE new == [posts[t][i] EXCEPT !.gone = TRUE]
           row == [posts[t] EXCEPT ![i] = new]
<1>6. posts' = [posts EXCEPT ![t] = row] BY <1>1, <1>4
<1>7. new \in Post /\ new.body = posts[t][i].body BY <1>5 DEF Post
<1> HIDE DEF new
<1>8. row \in Seq(Post) /\ Len(row) = Len(posts[t]) BY <1>1, <1>7
<1>9. \A k \in 1..Len(posts[t]) : row[k] = IF k = i THEN new ELSE posts[t][k]
  BY <1>1, <1>7
<1> HIDE DEF row
<1>10. posts' \in [Texts -> Seq(Post)] /\ posts'[t] = row /\ \A c \in Texts \ {t} : posts'[c] = posts[c]
  BY <1>1, <1>6, <1>8
<1>11. /\ excuses' \in [Texts -> Nat] /\ excuses'[t] = excuses[t] + 1
       /\ \A c \in Texts \ {t} : excuses'[c] = excuses[c]
  BY <1>1, <1>3, Excused
<1>12. MessagesTypeOK' BY <1>1, <1>2, <1>10, <1>11, TroubleIsCounted DEF MessagesTypeOK
<1>13. ASSUME NEW c \in Texts PROVE ChatIsExcused(c)'
  <2>1. /\ ChatIsExcused(c) /\ Len(posts[c]) \in Nat /\ excuses[c] \in Nat /\ excuses'[c] \in Nat
        /\ Known(c)' = Known(c)
    BY <1>1, <1>2, <1>11 DEF MessagesInv, ChatsAreExcused, Known, Busy
  <2>2. CASE c = t
    <3>1. Len(posts'[c]) = Len(posts[c]) BY <1>8, <1>10, <2>2
    <3>2. Spare(c)' BY <1>11, <2>1, <2>2, <3>1 DEF ChatIsExcused, Spare
    <3> QED BY <1>2, <2>1, <3>1, <3>2, SpareChat DEF ChatIsExcused
  <2>3. CASE c # t
    <3>1. posts'[c] = posts[c] /\ excuses[c] <= excuses'[c] BY <1>10, <1>11, <2>1, <2>3
    <3> QED BY <1>2, <2>1, <3>1, ChatStays DEF ChatIsExcused
  <2> QED BY <2>2, <2>3
<1>14. EventsInOrder' BY <1>2, EventsStay DEF Busy
<1>15. BodiesInOrder'
  <2> SUFFICES ASSUME NEW c \in Texts, NEW k \in 1..Len(posts'[c])
               PROVE  BodyInOrder(posts'[c][k].body)
    BY DEF BodiesInOrder
  <2>1. BodiesInOrder BY DEF MessagesInv
  <2>2. CASE c = t
    <3>1. k \in 1..Len(posts[t]) BY <1>8, <1>10, <2>2
    <3>2. posts'[c][k].body = posts[t][k].body BY <1>7, <1>9, <1>10, <2>2, <3>1
    <3> QED BY <2>1, <3>1, <3>2 DEF BodiesInOrder
  <2>3. CASE c # t BY <1>10, <2>1, <2>3 DEF BodiesInOrder
  <2> QED BY <2>2, <2>3
<1> QED BY <1>12, <1>13, <1>14, <1>15 DEF MessagesInv, ChatsAreExcused

LEMMA DiesKeepsMessages ==
    ASSUME MessagesInv, Messages!Dies PROVE MessagesInv'
<1>1. /\ notifier' = "down" /\ updates' = <<>> /\ worker' = Messages!Idle
      /\ Messages!Trouble /\ Messages!Excuse(Messages!Unsaved) /\ UNCHANGED <<outbox, cycle, posts>>
  BY DEF Messages!Dies
<1>2. ChatsAreExcused' /\ excuses' \in [Texts -> Nat] /\ BodiesInOrder' BY <1>1, WorkerForgets
<1>3. MessagesTypeOK' BY <1>1, <1>2, TroubleIsCounted DEF MessagesInv, MessagesTypeOK
<1>4. EventsInOrder'
  BY <1>1 DEF MessagesInv, EventsInOrder, RecordInOrder, UpTo, Busy
<1> QED BY <1>2, <1>3, <1>4 DEF MessagesInv

LEMMA PhaseKeepsMessages ==
    ASSUME MessagesInv,
           \/ Messages!StopBegins \/ Messages!Drained \/ Messages!Start
           \/ UNCHANGED Messages!messageVars
    PROVE  MessagesInv'
<1>1. UNCHANGED <<outbox, updates, worker, cycle, posts, excuses, troubles>>
  BY DEF Messages!StopBegins, Messages!Drained, Messages!Start, Messages!messageVars
<1>2. notifier' \in {"up", "draining", "down"}
  BY DEF Messages!StopBegins, Messages!Drained, Messages!Start, Messages!messageVars,
         MessagesInv, MessagesTypeOK
<1>3. MessagesTypeOK'
  <2>1. MessagesTypeOK BY DEF MessagesInv
  <2> QED BY <1>1, <1>2, <2>1 DEF MessagesTypeOK
<1>4. EventsInOrder' BY <1>1, EventsStay DEF Busy
<1> QED BY <1>1, <1>3, <1>4, ChatsStay DEF MessagesInv

LEMMA MessagesStep ==
    ASSUME MessagesInv, MessagesAssumption, [Messages!Next]_(Messages!messageVars)
    PROVE  MessagesInv'
<1>1. CASE Messages!NextRow \/ Messages!RowAgain BY <1>1, RowKeepsMessages
<1>2. CASE Messages!Deliver BY <1>2, DeliverKeepsMessages
<1>3. CASE Messages!Edit BY <1>3, EditKeepsMessages
<1>4. CASE Messages!Send BY <1>4, SendKeepsMessages
<1>5. CASE Messages!Save BY <1>5, SaveKeepsMessages
<1>6. CASE Messages!Deleted BY <1>6, DeletedKeepsMessages
<1>7. CASE Messages!Dies BY <1>7, DiesKeepsMessages
<1>8. CASE \/ Messages!StopBegins \/ Messages!Drained \/ Messages!Start
           \/ UNCHANGED Messages!messageVars
  BY <1>8, PhaseKeepsMessages
<1> QED BY <1>1, <1>2, <1>3, <1>4, <1>5, <1>6, <1>7, <1>8 DEF Messages!Next

LEMMA MessagesInvariant == MessagesAssumption => (Messages!Spec => []MessagesInv)
<1> SUFFICES ASSUME MessagesAssumption PROVE Messages!Spec => []MessagesInv
  OBVIOUS
<1>1. Messages!Init => MessagesInv BY MessagesStart
<1>2. MessagesInv /\ [Messages!Next]_(Messages!messageVars) => MessagesInv' BY MessagesStep
<1> QED BY <1>1, <1>2, PTL DEF Messages!Spec

(* A chat has a second message of a cycle only after the first was taken   *)
(* from the notifier: however many rows, chats, failures, retries, deaths  *)
(* and restarts there are (telegram_notify.py:580, telegram_sink.py:171).  *)
THEOREM SecondMessagesAreExcused ==
    MessagesAssumption => (Messages!Spec => []Messages!SecondMessageHasACause)
<1>1. MessagesInv => Messages!SecondMessageHasACause
  BY DEF MessagesInv, ChatsAreExcused, ChatIsExcused, Messages!SecondMessageHasACause, Texts
<1> QED BY <1>1, MessagesInvariant, PTL

(* No message shows an action twice or out of order, whatever is retried,  *)
(* dropped, forgotten or read back wrong (telegram_notify.py:605).         *)
THEOREM MessagesShowActionsOnce ==
    MessagesAssumption => (Messages!Spec => []Messages!ActionsShowOnce)
<1>1. MessagesInv => Messages!ActionsShowOnce
  BY DEF MessagesInv, BodiesInOrder, BodyInOrder, Shown, Messages!ActionsShowOnce, Texts
<1> QED BY <1>1, MessagesInvariant, PTL

-----------------------------------------------------------------------------
(* The errors that a service forwards, for any errors, window and failures *)
(* (telegram_errors.py).  While the handler is attached every message that *)
(* is younger than the window is remembered, and what is remembered was    *)
(* forwarded: so a repeat within the window is known as one.  A message    *)
(* leaves the way to a chat only when it is sent there, or refused, as     *)
(* long as the service is up.  What the chats were sent of its start and   *)
(* end fits the stage of its life and the announcement under way           *)
(* (service_status.py).                                                    *)
ForwardingAssumption ==
    /\ Window \in Nat /\ Len(ErrorChats) \in Nat \ {0}
    /\ Active \in BOOLEAN /\ Announces \in BOOLEAN

Told == [key : Errors, at : Nat]
SentTexts == [key : Errors, at : Nat, chat : Nat, ok : BOOLEAN]
BeingSent == [key : Errors, at : Nat, left : 1..Len(ErrorChats)]
OnItsWay == Forwarding!Forwarded

ForwardingTypeOK ==
    /\ life \in {"new", "starting", "announcing", "up", "stopping", "closing", "draining",
                "down", "dead"}
    /\ attached \in BOOLEAN /\ taking = attached
    /\ attached => life \in {"starting", "announcing", "up", "stopping", "closing"}
    /\ now \in Nat
    /\ DOMAIN recent \subseteq Errors
    /\ calls \in Seq(Told) /\ queue \in Seq(Told)
    /\ sent \subseteq SentTexts /\ dropped \subseteq Told
    /\ sending = Forwarding!NotSending \/ sending \in BeingSent
    /\ logged \subseteq Errors \X Nat

NewIsClean == life = "new" => OnItsWay = {} /\ logged = {} /\ DOMAIN recent = {}

RecentIsForwarded ==
    attached => \A e \in DOMAIN recent :
        /\ recent[e] \in 0..now
        /\ \E f \in OnItsWay : f.key = e /\ f.at = recent[e]

ForwardedIsRecent ==
    /\ \A f \in OnItsWay : f.at <= now /\ f.key \notin SendPath
    /\ attached => \A f \in OnItsWay :
         now - f.at < Window => f.key \in DOMAIN recent /\ f.at <= recent[f.key]

Hears(f, l) == f.key = l[1] /\ f.at <= l[2] /\ (f.at = l[2] \/ l[2] - f.at < Window)
LoggedIsHeard ==
    attached => \A l \in logged : l[2] <= now /\ \E f \in OnItsWay : Hears(f, l)

WindowApart ==
    \A f, g \in OnItsWay : f.key = g.key /\ f.at < g.at => g.at - f.at >= Window

Reached(f) == f \in dropped \/ \A n \in 1..Len(ErrorChats) : Forwarding!ComesTo(f, n)
EachChatIsReached == attached => \A f \in OnItsWay : Reached(f)

\* what the n-th chat was sent at each stage of the service's life
News == {"up", "down", "unfinished"}
Fresh(n) == told[n] = <<>>
Up(n) == IF Announces THEN Forwarding!CameUp(told[n]) ELSE Fresh(n)
Down(n) == IF Announces THEN Forwarding!WentDown(told[n]) ELSE Fresh(n)
Never(n) == Forwarding!NeverUp(told[n]) /\ (Announces => ~Fresh(n))
WasTold(n) == n <= Len(ErrorChats) - telling.left

NewsFit ==
    /\ told \in [1..Len(ErrorChats) -> Seq([what : News, ok : BOOLEAN])]
    /\ started \in BOOLEAN
    /\ life \in {"announcing", "stopping"} =>
         telling \in [what : News, left : 0..Len(ErrorChats)] /\ (~Announces => telling.left = 0)
    /\ life \notin {"announcing", "stopping"} => telling = Forwarding!Nothing
    /\ closes = 1 => life \in {"stopping", "closing", "draining", "down", "dead"}

NothingTold == ~started /\ \A n \in DOMAIN told : Fresh(n)
TellingUp == /\ started /\ telling.what = "up"
             /\ \A n \in DOMAIN told : IF WasTold(n) THEN Up(n) ELSE Fresh(n)
ToldUp == started /\ \A n \in DOMAIN told : Up(n)
TellingDown == /\ started /\ telling.what = "down" /\ closes # 1
               /\ \A n \in DOMAIN told : IF WasTold(n) THEN Down(n) ELSE Up(n)
TellingNever ==
    /\ ~started /\ telling.what = "unfinished"
    /\ \A n \in DOMAIN told : IF WasTold(n) THEN Never(n) ELSE Forwarding!NeverUp(told[n])
ToldTheEnd ==
    /\ ~started
    /\ (\A n \in DOMAIN told : Never(n)) \/ (closes # 1 /\ \A n \in DOMAIN told : Down(n))
CutOff ==
    \/ \A n \in DOMAIN told : Forwarding!NeverUp(told[n])
    \/ \A n \in DOMAIN told : \/ Fresh(n) \/ Forwarding!CameUp(told[n])
                              \/ Forwarding!WentDown(told[n])

StagesAreTold ==
    /\ life \in {"new", "starting"} => NothingTold
    /\ life = "announcing" => TellingUp
    /\ life = "up" => ToldUp
    /\ life = "stopping" => TellingDown \/ TellingNever
    /\ life \in {"closing", "draining", "down"} => ToldTheEnd
    /\ life = "dead" => CutOff

UpIsTold == NewsFit /\ StagesAreTold

WayIsKept == RecentIsForwarded /\ ForwardedIsRecent /\ LoggedIsHeard /\ WindowApart
ForwardingInv == ForwardingTypeOK /\ NewIsClean /\ WayIsKept /\ EachChatIsReached /\ UpIsTold

-----------------------------------------------------------------------------
LEMMA OnItsWayIsTold == ForwardingTypeOK => OnItsWay \subseteq Told
<1> SUFFICES ASSUME ForwardingTypeOK PROVE OnItsWay \subseteq Told
  OBVIOUS
<1>1. Forwarding!Elements(calls) \subseteq Told BY DEF ForwardingTypeOK, Forwarding!Elements
<1>2. Forwarding!Elements(queue) \subseteq Told BY DEF ForwardingTypeOK, Forwarding!Elements
<1>3. sending # Forwarding!NotSending => [key |-> sending.key, at |-> sending.at] \in Told
  BY DEF ForwardingTypeOK, Told, BeingSent
<1>4. \A x \in sent : [key |-> x.key, at |-> x.at] \in Told BY DEF ForwardingTypeOK, Told, SentTexts
<1> QED BY <1>1, <1>2, <1>3, <1>4 DEF ForwardingTypeOK, OnItsWay, Forwarding!Forwarded

LEMMA OneMessageMore ==
    ASSUME NEW messages \in Seq(Told), NEW m \in Told
    PROVE  Forwarding!Elements(Append(messages, m)) = Forwarding!Elements(messages) \cup {m}
<1> DEFINE longer == Append(messages, m)
<1>1. /\ Len(longer) = Len(messages) + 1 /\ longer[Len(messages) + 1] = m
      /\ \A i \in 1..Len(messages) : longer[i] = messages[i]
  OBVIOUS
<1>2. Len(messages) \in Nat OBVIOUS
<1> HIDE DEF longer
<1>3. ASSUME NEW x \in Forwarding!Elements(longer) PROVE x \in Forwarding!Elements(messages) \cup {m}
  <2>1. PICK i \in 1..Len(longer) : x = longer[i] BY DEF Forwarding!Elements
  <2>2. CASE i = Len(messages) + 1 BY <1>1, <2>1, <2>2
  <2>3. CASE i \in 1..Len(messages) BY <1>1, <2>1, <2>3 DEF Forwarding!Elements
  <2> QED BY <1>1, <1>2, <2>2, <2>3
<1>4. Forwarding!Elements(messages) \subseteq Forwarding!Elements(longer)
  <2> SUFFICES ASSUME NEW i \in 1..Len(messages) PROVE messages[i] \in Forwarding!Elements(longer)
    BY DEF Forwarding!Elements
  <2>1. i \in 1..Len(longer) /\ messages[i] = longer[i] BY <1>1, <1>2
  <2> QED BY <2>1 DEF Forwarding!Elements
<1>5. m \in Forwarding!Elements(longer)
  <2>1. Len(messages) + 1 \in 1..Len(longer) BY <1>1, <1>2
  <2> QED BY <1>1, <2>1 DEF Forwarding!Elements
<1> QED BY <1>3, <1>4, <1>5 DEF longer

LEMMA OneMessageLess ==
    ASSUME NEW messages \in Seq(Told), messages # <<>>
    PROVE  /\ Head(messages) \in Told /\ Tail(messages) \in Seq(Told)
           /\ Forwarding!Elements(messages) = Forwarding!Elements(Tail(messages)) \cup {Head(messages)}
<1> DEFINE shorter == Tail(messages)
           first == Head(messages)
<1>1. /\ Len(shorter) = Len(messages) - 1 /\ first = messages[1] /\ first \in Told
      /\ shorter \in Seq(Told) /\ Len(messages) \in Nat \ {0}
      /\ \A i \in 1..Len(shorter) : shorter[i] = messages[i + 1]
  OBVIOUS
<1> HIDE DEF shorter, first
<1>2. ASSUME NEW x \in Forwarding!Elements(messages)
      PROVE  x \in Forwarding!Elements(shorter) \cup {first}
  <2>1. PICK i \in 1..Len(messages) : x = messages[i] BY DEF Forwarding!Elements
  <2>2. CASE i = 1 BY <1>1, <2>1, <2>2
  <2>3. CASE i # 1
    <3>1. i - 1 \in 1..Len(shorter) /\ shorter[i - 1] = messages[i] BY <1>1, <2>3
    <3> QED BY <2>1, <3>1 DEF Forwarding!Elements
  <2> QED BY <2>2, <2>3
<1>3. Forwarding!Elements(shorter) \subseteq Forwarding!Elements(messages)
  <2> SUFFICES ASSUME NEW i \in 1..Len(shorter) PROVE shorter[i] \in Forwarding!Elements(messages)
    BY DEF Forwarding!Elements
  <2>1. i + 1 \in 1..Len(messages) /\ shorter[i] = messages[i + 1] BY <1>1
  <2> QED BY <2>1 DEF Forwarding!Elements
<1>4. first \in Forwarding!Elements(messages)
  <2>1. 1 \in 1..Len(messages) BY <1>1
  <2> QED BY <1>1, <2>1 DEF Forwarding!Elements
<1> QED BY <1>1, <1>2, <1>3, <1>4 DEF shorter, first

LEMMA AppendedTo ==
    ASSUME NEW S, NEW s \in Seq(S), NEW x \in S
    PROVE  /\ Append(s, x) \in Seq(S) /\ Append(s, x) # <<>> /\ Len(s) \in Nat
           /\ Len(Append(s, x)) = Len(s) + 1 /\ Append(s, x)[Len(s) + 1] = x
           /\ \A i \in 1..Len(s) : Append(s, x)[i] = s[i]
OBVIOUS

LEMMA ForwardingStart == ForwardingAssumption /\ Forwarding!Init => ForwardingInv
<1> SUFFICES ASSUME ForwardingAssumption, Forwarding!Init PROVE ForwardingInv
  OBVIOUS
<1>1. OnItsWay = {}
  <2>1. Forwarding!Elements(<<>>) = {} BY DEF Forwarding!Elements
  <2> QED BY <2>1 DEF Forwarding!Init, OnItsWay, Forwarding!Forwarded
<1>2. ForwardingTypeOK
  <2>1. DOMAIN recent = {} BY DEF Forwarding!Init
  <2>2. attached = FALSE /\ taking = FALSE BY DEF Forwarding!Init
  <2>3. attached \in BOOLEAN /\ taking = attached /\ ~attached BY <2>2
  <2> QED BY <2>1, <2>3 DEF Forwarding!Init, ForwardingTypeOK
<1>3. UpIsTold
  <2>1. /\ told = [n \in 1..Len(ErrorChats) |-> <<>>] /\ closes = 2
        /\ life = "new" /\ telling = Forwarding!Nothing
    BY DEF Forwarding!Init
  <2>5. started \in BOOLEAN /\ ~started
    <3>1. started = FALSE BY DEF Forwarding!Init
    <3> QED BY <3>1
  <2>2. told \in [1..Len(ErrorChats) -> Seq([what : News, ok : BOOLEAN])] BY <2>1
  <2>3. NewsFit BY <2>1, <2>2, <2>5 DEF NewsFit
  <2>4. NothingTold
    <3>1. \A n \in DOMAIN told : told[n] = <<>> BY <2>1
    <3> QED BY <2>5, <3>1 DEF NothingTold, Fresh
  <2>6. StagesAreTold BY <2>1, <2>4 DEF StagesAreTold
  <2> QED BY <2>3, <2>6 DEF UpIsTold
<1>4. NewIsClean BY <1>1 DEF Forwarding!Init, NewIsClean
<1>5. WayIsKept
  BY <1>1 DEF Forwarding!Init, WayIsKept, RecentIsForwarded, ForwardedIsRecent, LoggedIsHeard,
     WindowApart
<1>6. EachChatIsReached BY <1>1 DEF EachChatIsReached
<1> QED BY <1>2, <1>3, <1>4, <1>5, <1>6 DEF ForwardingInv

(* A step that changes neither the handler nor what is on its way. *)
LEMMA WayStays ==
    ASSUME WayIsKept, OnItsWay' = OnItsWay, attached' => attached, UNCHANGED <<recent, logged, now>>
    PROVE  WayIsKept'
BY DEF WayIsKept, RecentIsForwarded, ForwardedIsRecent, LoggedIsHeard, WindowApart

(* A step that gives messages up, with the handler detached. *)
LEMMA WayShrinks ==
    ASSUME WayIsKept, OnItsWay' \subseteq OnItsWay, ~attached', UNCHANGED now
    PROVE  WayIsKept'
BY DEF WayIsKept, RecentIsForwarded, ForwardedIsRecent, LoggedIsHeard, WindowApart

LEMMA ReachStays ==
    ASSUME EachChatIsReached, OnItsWay' = OnItsWay, attached' => attached,
           UNCHANGED <<calls, queue, dropped, sending, sent>>
    PROVE  EachChatIsReached'
BY DEF EachChatIsReached, Reached, Forwarding!ComesTo

LEMMA AnnouncementsStay ==
    ASSUME UpIsTold, UNCHANGED <<life, told, started, telling, closes>> PROVE UpIsTold'
<1>1. NewsFit' BY DEF UpIsTold, NewsFit
<1>2. \A n \in DOMAIN told : /\ Fresh(n)' <=> Fresh(n)
                             /\ Up(n)' <=> Up(n)
                             /\ Down(n)' <=> Down(n)
                             /\ Never(n)' <=> Never(n)
                             /\ WasTold(n)' <=> WasTold(n)
  BY Zenon DEF Up, Down, Never, Fresh, WasTold
<1>3. NothingTold' <=> NothingTold BY <1>2, Zenon DEF NothingTold
<1>4. TellingUp' <=> TellingUp BY <1>2, Zenon DEF TellingUp
<1>5. ToldUp' <=> ToldUp BY <1>2, Zenon DEF ToldUp
<1>6. TellingDown' <=> TellingDown BY <1>2, Zenon DEF TellingDown
<1>7. TellingNever' <=> TellingNever BY <1>2, Zenon DEF TellingNever
<1>8. ToldTheEnd' <=> ToldTheEnd BY <1>2, Zenon DEF ToldTheEnd
<1>9. CutOff' <=> CutOff BY <1>2, Zenon DEF CutOff
<1>10. StagesAreTold'
  BY <1>3, <1>4, <1>5, <1>6, <1>7, <1>8, <1>9 DEF UpIsTold, StagesAreTold
<1> QED BY <1>1, <1>10 DEF UpIsTold

-----------------------------------------------------------------------------
LEMMA ForwardingStarts ==
    ASSUME ForwardingInv, ForwardingAssumption, Forwarding!Start PROVE ForwardingInv'
<1>1. /\ UNCHANGED <<recent, calls, queue, sending, now, started, telling, told, closes,
                     logged, sent, dropped>>
      /\ life = "new" /\ life' = "starting" /\ attached' = Active /\ taking' = Active
  BY DEF Forwarding!Start
<1>2. OnItsWay' = OnItsWay BY <1>1 DEF OnItsWay, Forwarding!Forwarded
<1>3. OnItsWay = {} /\ logged = {} /\ DOMAIN recent = {} BY <1>1 DEF ForwardingInv, NewIsClean
<1>4. ForwardingTypeOK'
  <2>1. ForwardingTypeOK BY DEF ForwardingInv
  <2> QED BY <1>1, <2>1 DEF ForwardingTypeOK, ForwardingAssumption
<1>5. WayIsKept'
  BY <1>1, <1>2, <1>3 DEF WayIsKept, RecentIsForwarded, ForwardedIsRecent, LoggedIsHeard, WindowApart
<1>6. NewIsClean' BY <1>1 DEF NewIsClean
<1>7. UpIsTold'
  <2>1. UpIsTold BY DEF ForwardingInv
  <2>2. NewsFit' BY <1>1, <2>1 DEF UpIsTold, NewsFit
  <2>3. NothingTold BY <1>1, <2>1 DEF UpIsTold, StagesAreTold
  <2>4. NothingTold' BY <1>1, <2>3 DEF NothingTold, Fresh
  <2>5. StagesAreTold' BY <1>1, <2>4 DEF StagesAreTold
  <2> QED BY <2>2, <2>5 DEF UpIsTold
<1>8. EachChatIsReached' BY <1>2, <1>3 DEF EachChatIsReached
<1> QED BY <1>4, <1>5, <1>6, <1>7, <1>8 DEF ForwardingInv

(* The sink tells its caller nothing of a send that failed, and the error it *)
(* logs is filtered out.                                                     *)
LEMMA ReportsChangeNothing ==
    ASSUME NEW ok \in BOOLEAN, Forwarding!Reported(ok) PROVE UNCHANGED <<recent, calls, logged>>
<1>1. CASE ok BY <1>1 DEF Forwarding!Reported
<1>2. CASE ~ok
  <2>1. PICK e \in SendPath : Forwarding!Offer(e) BY <1>2 DEF Forwarding!Reported
  <2> QED BY <2>1 DEF Forwarding!Offer, Forwarding!Forwards
<1> QED BY <1>1, <1>2

(* One more announcement to a chat. *)
LEMMA OneMoreIsTold ==
    ASSUME NEW news \in Seq([what : News, ok : BOOLEAN]), NEW x \in [what : News, ok : BOOLEAN]
    PROVE  /\ Append(news, x) \in Seq([what : News, ok : BOOLEAN]) /\ Append(news, x) # <<>>
           /\ news = <<>> /\ x.what = "up" => Forwarding!CameUp(Append(news, x))
           /\ Forwarding!CameUp(news) /\ x.what = "down" => Forwarding!WentDown(Append(news, x))
           /\ Forwarding!NeverUp(news) /\ x.what = "unfinished" => Forwarding!NeverUp(Append(news, x))
<1> DEFINE longer == Append(news, x)
<1>1. /\ longer \in Seq([what : News, ok : BOOLEAN]) /\ longer # <<>> /\ Len(news) \in Nat
      /\ Len(longer) = Len(news) + 1 /\ longer[Len(news) + 1] = x
  BY AppendedTo
<1>2. ASSUME NEW i \in 1..Len(news) PROVE longer[i] = news[i] BY AppendedTo
<1>3. news = <<>> => Len(news) = 0 OBVIOUS
<1> HIDE DEF longer
<1>4. news = <<>> /\ x.what = "up" => Forwarding!CameUp(longer)
  BY <1>1, <1>3 DEF Forwarding!CameUp
<1>5. Forwarding!CameUp(news) /\ x.what = "down" => Forwarding!WentDown(longer)
  BY <1>1, <1>2 DEF Forwarding!CameUp, Forwarding!WentDown
<1>6. ASSUME Forwarding!NeverUp(news), x.what = "unfinished", NEW i \in 1..Len(longer)
      PROVE  longer[i].what = "unfinished"
  <2>1. CASE i = Len(news) + 1 BY <1>1, <1>6, <2>1
  <2>2. CASE i \in 1..Len(news) BY <1>2, <1>6, <2>2 DEF Forwarding!NeverUp
  <2> QED BY <1>1, <2>1, <2>2
<1>7. Forwarding!NeverUp(news) /\ x.what = "unfinished" => Forwarding!NeverUp(longer)
  BY <1>6 DEF Forwarding!NeverUp
<1> QED BY <1>1, <1>4, <1>5, <1>7 DEF longer

(* A chat is sent at most one of the stages. *)
LEMMA StagesDiffer ==
    ASSUME NEW news \in Seq([what : News, ok : BOOLEAN])
    PROVE  /\ news = <<>> => Forwarding!NeverUp(news)
           /\ news # <<>> /\ Forwarding!NeverUp(news) =>
                ~Forwarding!CameUp(news) /\ ~Forwarding!WentDown(news)
           /\ Forwarding!WentDown(news) => news # <<>> /\ ~Forwarding!CameUp(news)
<1>1. Len(news) \in Nat /\ (news # <<>> => Len(news) > 0) /\ Len(<<>>) = 0 OBVIOUS
<1>2. news = <<>> => Forwarding!NeverUp(news)
  <2> SUFFICES ASSUME news = <<>>, NEW i \in 1..Len(news) PROVE FALSE
    BY DEF Forwarding!NeverUp
  <2> QED BY <1>1
<1>3. news # <<>> /\ Forwarding!NeverUp(news) => news[1].what = "unfinished"
  BY <1>1 DEF Forwarding!NeverUp
<1> QED BY <1>1, <1>2, <1>3 DEF Forwarding!CameUp, Forwarding!WentDown

LEMMA StagesCutOff == ForwardingTypeOK /\ UpIsTold => CutOff
<1> SUFFICES ASSUME ForwardingTypeOK, UpIsTold PROVE CutOff
  OBVIOUS
<1>1. StagesAreTold BY DEF UpIsTold
<1>2. CASE life \in {"new", "starting"}
  <2>1. NothingTold BY <1>1, <1>2 DEF StagesAreTold
  <2> QED BY <2>1 DEF NothingTold, Fresh, CutOff
<1>3. CASE life = "announcing"
  <2>1. TellingUp BY <1>1, <1>3 DEF StagesAreTold
  <2>2. \A n \in DOMAIN told : Up(n) \/ Fresh(n) BY <2>1 DEF TellingUp
  <2> QED BY <2>2 DEF Up, Fresh, CutOff
<1>4. CASE life = "up"
  <2>1. \A n \in DOMAIN told : Up(n) BY <1>1, <1>4 DEF StagesAreTold, ToldUp
  <2> QED BY <2>1 DEF Up, Fresh, CutOff
<1>5. CASE life = "stopping" /\ TellingDown
  <2>1. \A n \in DOMAIN told : Down(n) \/ Up(n) BY <1>5 DEF TellingDown
  <2> QED BY <2>1 DEF Up, Down, Fresh, CutOff
<1>6. CASE life = "stopping" /\ TellingNever
  <2>1. \A n \in DOMAIN told : Never(n) \/ Forwarding!NeverUp(told[n]) BY <1>6 DEF TellingNever
  <2> QED BY <2>1 DEF Never, CutOff
<1>7. CASE life \in {"closing", "draining", "down"}
  <2>1. (\A n \in DOMAIN told : Never(n)) \/ (\A n \in DOMAIN told : Down(n))
    BY <1>1, <1>7 DEF StagesAreTold, ToldTheEnd
  <2> QED BY <2>1 DEF Never, Down, Fresh, CutOff
<1>8. CASE life = "dead"
  BY <1>1, <1>8 DEF StagesAreTold
<1>9. life = "stopping" => TellingDown \/ TellingNever BY <1>1 DEF StagesAreTold
<1> QED BY <1>2, <1>3, <1>4, <1>5, <1>6, <1>7, <1>8, <1>9 DEF ForwardingTypeOK

LEMMA StagesAreTrue == ForwardingTypeOK /\ UpIsTold => Forwarding!DownFollowsUp
<1> SUFFICES ASSUME ForwardingTypeOK, UpIsTold PROVE Forwarding!DownFollowsUp
  OBVIOUS
<1>1. NewsFit /\ StagesAreTold BY DEF UpIsTold
<1>2. \A n \in DOMAIN told : told[n] \in Seq([what : News, ok : BOOLEAN]) BY <1>1 DEF NewsFit
<1>3. CutOff BY StagesCutOff
<1>4. ASSUME life = "down", Announces, NEW n \in DOMAIN told
      PROVE  told[n] # <<>> /\ ~Forwarding!CameUp(told[n])
  <2>1. ToldTheEnd BY <1>1, <1>4 DEF StagesAreTold
  <2>4. Never(n) \/ Down(n) BY <1>4, <2>1 DEF ToldTheEnd
  <2>2. CASE Never(n) BY <1>2, <1>4, <2>2, StagesDiffer DEF Never, Fresh
  <2>3. CASE Down(n) BY <1>2, <1>4, <2>3, StagesDiffer DEF Down
  <2> QED BY <2>2, <2>3, <2>4
<1>5. \A n \in DOMAIN told : \/ Forwarding!CameUp(told[n]) \/ Forwarding!WentDown(told[n])
                             \/ Forwarding!NeverUp(told[n])
  BY <1>2, <1>3, StagesDiffer DEF CutOff, Fresh
<1>6. (\E n \in DOMAIN told : told[n] # <<>> /\ Forwarding!NeverUp(told[n]))
        => \A n \in DOMAIN told : Forwarding!NeverUp(told[n])
  BY <1>2, <1>3, StagesDiffer DEF CutOff, Fresh
<1> QED BY <1>4, <1>5, <1>6 DEF Forwarding!DownFollowsUp

(* The end of a service was told before its resources are closed. *)
LEMMA LaterStageIsTold ==
    ASSUME UpIsTold, UNCHANGED <<told, started, telling, closes>>,
           life \in {"closing", "draining"}, life' \in {"draining", "down"}
    PROVE  UpIsTold'
<1>1. NewsFit' BY DEF UpIsTold, NewsFit
<1>2. ToldTheEnd BY DEF UpIsTold, StagesAreTold
<1>3. \A n \in DOMAIN told : (Never(n)' <=> Never(n)) /\ (Down(n)' <=> Down(n))
  BY Zenon DEF Never, Down, Fresh
<1>4. ToldTheEnd' BY <1>2, <1>3, Zenon DEF ToldTheEnd
<1>5. StagesAreTold' BY <1>4 DEF StagesAreTold
<1> QED BY <1>1, <1>5 DEF UpIsTold

LEMMA DeathIsTold ==
    ASSUME ForwardingTypeOK, UpIsTold, UNCHANGED <<told, started, closes>>,
           life' = "dead", telling' = Forwarding!Nothing
    PROVE  UpIsTold'
<1>1. NewsFit' BY DEF UpIsTold, NewsFit
<1>2. CutOff BY StagesAreTrue, StagesCutOff
<1>3. CutOff' BY <1>2, Zenon DEF CutOff, Fresh
<1>4. StagesAreTold' BY <1>3 DEF StagesAreTold
<1> QED BY <1>1, <1>4 DEF UpIsTold

(* What the announcements leave alone. *)
LEMMA AnnouncementsKeepTheWay ==
    ASSUME ForwardingInv, UpIsTold',
           UNCHANGED <<attached, taking, recent, calls, queue, sending, now, logged, sent, dropped>>,
           life' \in {"announcing", "up", "stopping", "closing"}
    PROVE  ForwardingInv'
<1>1. OnItsWay' = OnItsWay BY DEF OnItsWay, Forwarding!Forwarded
<1>2. ForwardingTypeOK' BY DEF ForwardingInv, ForwardingTypeOK
<1>3. WayIsKept' /\ EachChatIsReached' BY <1>1, WayStays, ReachStays DEF ForwardingInv
<1> QED BY <1>2, <1>3 DEF ForwardingInv, NewIsClean

(* An announcement begins: nobody was told it yet, or nobody will be. *)
LEMMA AnnouncementBegins ==
    ASSUME ForwardingAssumption, NEW what \in News, Forwarding!Announce(what)
    PROVE  /\ telling' \in [what : News, left : 0..Len(ErrorChats)] /\ telling'.what = what
           /\ ~Announces => telling'.left = 0
           /\ \A n \in 1..Len(ErrorChats) : WasTold(n)' <=> ~Announces
<1>1. Len(ErrorChats) \in Nat BY DEF ForwardingAssumption
<1>2. telling' = [what |-> what, left |-> IF Announces THEN Len(ErrorChats) ELSE 0]
  BY DEF Forwarding!Announce
<1>3. telling'.left = IF Announces THEN Len(ErrorChats) ELSE 0 BY <1>2
<1>4. \A n \in 1..Len(ErrorChats) : WasTold(n)' <=> n <= Len(ErrorChats) - telling'.left
  BY DEF WasTold
<1> QED BY <1>1, <1>2, <1>3, <1>4

LEMMA AnnounceStartedKeeps ==
    ASSUME ForwardingInv, ForwardingAssumption, Forwarding!AnnounceStarted PROVE ForwardingInv'
<1>1. /\ UNCHANGED <<attached, taking, recent, calls, queue, sending, now, told, closes, logged,
                     sent, dropped>>
      /\ life = "starting" /\ life' = "announcing" /\ started' = TRUE /\ Forwarding!Announce("up")
  BY DEF Forwarding!AnnounceStarted
<1>2. UpIsTold BY DEF ForwardingInv
<1>3. "up" \in News BY DEF News
<1>4. /\ telling' \in [what : News, left : 0..Len(ErrorChats)] /\ telling'.what = "up"
      /\ ~Announces => telling'.left = 0
      /\ \A n \in 1..Len(ErrorChats) : WasTold(n)' <=> ~Announces
  BY <1>1, <1>3, AnnouncementBegins
<1>5. NewsFit' BY <1>1, <1>2, <1>4 DEF UpIsTold, NewsFit
<1>6. DOMAIN told = 1..Len(ErrorChats) BY <1>2 DEF UpIsTold, NewsFit
<1>7. \A n \in DOMAIN told : Fresh(n)
  <2>1. NothingTold BY <1>1, <1>2 DEF UpIsTold, StagesAreTold
  <2> QED BY <2>1 DEF NothingTold
<1>8. ASSUME NEW n \in DOMAIN told PROVE IF WasTold(n)' THEN Up(n)' ELSE Fresh(n)'
  <2>1. Fresh(n)' BY <1>1, <1>7 DEF Fresh
  <2>2. WasTold(n)' => Up(n)' BY <1>4, <1>6, <2>1 DEF Up
  <2> QED BY <2>1, <2>2
<1>9. TellingUp'
  <2>1. started' BY <1>1
  <2> QED BY <1>1, <1>4, <1>8, <2>1 DEF TellingUp
<1>10. StagesAreTold' BY <1>1, <1>9 DEF StagesAreTold
<1> QED BY <1>1, <1>5, <1>10, AnnouncementsKeepTheWay DEF UpIsTold

LEMMA AnnounceStoppedKeeps ==
    ASSUME ForwardingInv, ForwardingAssumption, Forwarding!AnnounceStopped PROVE ForwardingInv'
<1>1. /\ UNCHANGED <<attached, taking, recent, calls, queue, sending, now, started, told, logged,
                     sent, dropped>>
      /\ life' = "stopping"
  BY DEF Forwarding!AnnounceStopped
<1>10. \/ life \in {"new", "up"} /\ closes' = 0
       \/ life = "starting" /\ closes' = 1
       \/ life = "down" /\ closes = 1 /\ closes' = 0
  BY Zenon DEF Forwarding!AnnounceStopped
<1>2. UpIsTold BY DEF ForwardingInv
<1>3. PICK what : what = IF started THEN "down" ELSE "unfinished" OBVIOUS
<1>4. what \in News /\ Forwarding!Announce(what) BY <1>3 DEF News, Forwarding!AnnounceStopped
<1>5. /\ telling' \in [what : News, left : 0..Len(ErrorChats)] /\ telling'.what = what
      /\ ~Announces => telling'.left = 0
      /\ \A n \in 1..Len(ErrorChats) : WasTold(n)' <=> ~Announces
  BY <1>4, AnnouncementBegins
<1>6. NewsFit' BY <1>1, <1>2, <1>5, <1>10 DEF UpIsTold, NewsFit
<1>7. DOMAIN told = 1..Len(ErrorChats) /\ started \in BOOLEAN
      /\ \A n \in DOMAIN told : told[n] \in Seq([what : News, ok : BOOLEAN])
  BY <1>2 DEF UpIsTold, NewsFit
<1>11. /\ life \in {"new", "starting"} => NothingTold
       /\ life = "up" => ToldUp
       /\ life = "down" => ToldTheEnd
  BY <1>2 DEF UpIsTold, StagesAreTold
<1>8. CASE started
  <2>1. life = "up"
    <3>1. life \notin {"new", "starting"} BY <1>8, <1>11 DEF NothingTold
    <3>2. life # "down" BY <1>8, <1>11 DEF ToldTheEnd
    <3> QED BY <1>10, <3>1, <3>2
  <2>2. closes' # 1 BY <1>10, <2>1
  <2>3. \A n \in DOMAIN told : Up(n) BY <1>11, <2>1 DEF ToldUp
  <2>4. ASSUME NEW n \in DOMAIN told PROVE IF WasTold(n)' THEN Down(n)' ELSE Up(n)'
    <3>1. Up(n)' BY <1>1, <2>3 DEF Up, Fresh
    <3>2. WasTold(n)' => Down(n)' BY <1>5, <1>7, <3>1 DEF Up, Down
    <3> QED BY <3>1, <3>2
  <2>5. started' /\ what = "down" BY <1>1, <1>3, <1>8
  <2>6. TellingDown' BY <1>1, <1>5, <2>2, <2>4, <2>5 DEF TellingDown
  <2>7. StagesAreTold' BY <1>1, <2>6 DEF StagesAreTold
  <2> QED BY <1>1, <1>6, <2>7, AnnouncementsKeepTheWay DEF UpIsTold
<1>9. CASE ~started
  <2>1. ASSUME NEW n \in DOMAIN told
        PROVE  IF WasTold(n)' THEN Never(n)' ELSE Forwarding!NeverUp(told[n])'
    <3>1. Forwarding!NeverUp(told[n])
      <4>1. CASE life \in {"new", "starting"}
        <5>1. told[n] = <<>> BY <1>11, <4>1 DEF NothingTold, Fresh
        <5> QED BY <1>7, <5>1, StagesDiffer
      <4>2. CASE life = "down" /\ closes = 1 BY <1>11, <4>2 DEF ToldTheEnd, Never
      <4>3. life # "up" BY <1>9, <1>11 DEF ToldUp
      <4> QED BY <1>10, <4>1, <4>2, <4>3
    <3>2. told' = told BY <1>1
    <3>3. Forwarding!NeverUp(told[n])' BY <3>1, <3>2, Zenon DEF Forwarding!NeverUp
    <3>4. WasTold(n)' => Never(n)'
      <4>1. ASSUME WasTold(n)', Announces PROVE FALSE BY <1>5, <1>7, <4>1
      <4> QED BY <3>3, <4>1, Zenon DEF Never
    <3> QED BY <3>3, <3>4
  <2>2. ~started' /\ what = "unfinished" BY <1>1, <1>3, <1>9
  <2>3. TellingNever' BY <1>1, <1>5, <2>1, <2>2 DEF TellingNever
  <2>4. StagesAreTold' BY <1>1, <2>3 DEF StagesAreTold
  <2> QED BY <1>1, <1>6, <2>4, AnnouncementsKeepTheWay DEF UpIsTold
<1> QED BY <1>7, <1>8, <1>9

LEMMA AnnouncementEndsKeeps ==
    ASSUME ForwardingInv, ForwardingAssumption, Forwarding!AnnouncementEnds PROVE ForwardingInv'
<1>1. /\ UNCHANGED <<attached, taking, recent, calls, queue, sending, now, told, closes, logged,
                     sent, dropped>>
      /\ telling # Forwarding!Nothing /\ telling.left = 0 /\ telling' = Forwarding!Nothing
      /\ \/ life = "announcing" /\ life' = "up" /\ started' = started
         \/ life # "announcing" /\ life' = "closing" /\ started' = FALSE
  BY DEF Forwarding!AnnouncementEnds
<1>2. NewsFit /\ StagesAreTold BY DEF ForwardingInv, UpIsTold
<1>3. life \in {"announcing", "stopping"} BY <1>1, <1>2 DEF NewsFit
<1>4. NewsFit' BY <1>1, <1>2, <1>3 DEF NewsFit
<1>5. \A n \in DOMAIN told : WasTold(n)
  <2>1. DOMAIN told = 1..Len(ErrorChats) /\ Len(ErrorChats) \in Nat
    BY <1>2 DEF NewsFit, ForwardingAssumption
  <2> QED BY <1>1, <2>1 DEF WasTold
<1>6. \A n \in DOMAIN told : /\ Up(n)' <=> Up(n)
                             /\ Down(n)' <=> Down(n)
                             /\ Never(n)' <=> Never(n)
  <2>1. told' = told BY <1>1
  <2> QED BY <2>1, Zenon DEF Up, Down, Never, Fresh
<1>7. StagesAreTold'
  <2>1. CASE life = "announcing"
    <3>1. TellingUp BY <1>2, <2>1 DEF StagesAreTold
    <3>2. started /\ \A n \in DOMAIN told : Up(n) BY <1>5, <3>1 DEF TellingUp
    <3>3. life' = "up" /\ started' = started BY <1>1, <2>1
    <3>4. ToldUp' BY <1>1, <1>6, <3>2, <3>3 DEF ToldUp
    <3> QED BY <3>3, <3>4 DEF StagesAreTold
  <2>2. CASE life = "stopping"
    <3>1. TellingDown \/ TellingNever BY <1>2, <2>2 DEF StagesAreTold
    <3>2. (\A n \in DOMAIN told : Never(n)) \/ (closes # 1 /\ \A n \in DOMAIN told : Down(n))
      BY <1>5, <3>1 DEF TellingDown, TellingNever
    <3>3. life' = "closing" /\ started' = FALSE BY <1>1, <2>2
    <3>4. ~started' BY <3>3
    <3>5. ToldTheEnd' BY <1>1, <1>6, <3>2, <3>4 DEF ToldTheEnd
    <3> QED BY <3>3, <3>5 DEF StagesAreTold
  <2> QED BY <1>3, <2>1, <2>2
<1> QED BY <1>1, <1>4, <1>7, AnnouncementsKeepTheWay DEF UpIsTold

LEMMA TellKeeps ==
    ASSUME ForwardingInv, ForwardingAssumption, Forwarding!Tell PROVE ForwardingInv'
<1>1. PICK ok \in BOOLEAN :
        /\ told' = [told EXCEPT ![Len(ErrorChats) - telling.left + 1] =
                      Append(@, [what |-> telling.what, ok |-> ok])]
        /\ Forwarding!Reported(ok)
  BY DEF Forwarding!Tell
<1>2. UNCHANGED <<recent, calls, logged>> BY <1>1, ReportsChangeNothing
<1>3. /\ UNCHANGED <<life, attached, taking, queue, sending, now, started, closes, sent, dropped>>
      /\ telling.left > 0 /\ telling' = [telling EXCEPT !.left = @ - 1]
  BY DEF Forwarding!Tell
<1>4. NewsFit /\ StagesAreTold BY DEF ForwardingInv, UpIsTold
<1>5. life \in {"announcing", "stopping"}
  <2>1. Forwarding!Nothing.left = 0 BY DEF Forwarding!Nothing
  <2> QED BY <1>3, <1>4, <2>1 DEF NewsFit
<1>6. /\ telling \in [what : News, left : 0..Len(ErrorChats)] /\ (~Announces => telling.left = 0)
      /\ told \in [1..Len(ErrorChats) -> Seq([what : News, ok : BOOLEAN])]
      /\ Len(ErrorChats) \in Nat
  BY <1>4, <1>5 DEF NewsFit, ForwardingAssumption
<1>7. Announces BY <1>3, <1>6 DEF ForwardingAssumption
<1>8. PICK m : m = Len(ErrorChats) - telling.left + 1 OBVIOUS
<1>9. PICK x : x = [what |-> telling.what, ok |-> ok] OBVIOUS
<1>10. /\ m \in DOMAIN told /\ x \in [what : News, ok : BOOLEAN] /\ x.what = telling.what
       /\ telling' \in [what : News, left : 0..Len(ErrorChats)] /\ telling'.what = telling.what
       /\ telling'.left = telling.left - 1
  <2>1. telling.left \in 1..Len(ErrorChats) /\ telling.what \in News BY <1>3, <1>6
  <2>2. m \in 1..Len(ErrorChats) BY <1>6, <1>8, <2>1
  <2>3. telling' = [what |-> telling.what, left |-> telling.left - 1] BY <1>3, <1>6
  <2>4. telling.left - 1 \in 0..Len(ErrorChats) BY <1>6, <2>1
  <2> QED BY <1>6, <1>9, <2>1, <2>2, <2>3, <2>4
<1>11. /\ told'[m] = Append(told[m], x) /\ DOMAIN told' = DOMAIN told
       /\ \A n \in DOMAIN told : n # m => told'[n] = told[n]
  BY <1>1, <1>6, <1>8, <1>9, <1>10
<1>12. \A n \in DOMAIN told : /\ WasTold(n) <=> n < m
                              /\ WasTold(n)' <=> n <= m
  <2>1. ASSUME NEW n \in DOMAIN told PROVE (WasTold(n) <=> n < m) /\ (WasTold(n)' <=> n <= m)
    <3>1. n \in Nat /\ m \in Nat /\ telling.left \in Nat /\ telling'.left = telling.left - 1
      BY <1>6, <1>10
    <3>2. WasTold(n) <=> n <= Len(ErrorChats) - telling.left BY DEF WasTold
    <3>3. WasTold(n)' <=> n <= Len(ErrorChats) - telling'.left BY DEF WasTold
    <3> QED BY <1>6, <1>8, <3>1, <3>2, <3>3
  <2> QED BY <2>1
<1>13. \A n \in DOMAIN told : n # m => (WasTold(n)' <=> WasTold(n))
  <2>1. \A n \in DOMAIN told : n \in Nat /\ m \in Nat BY <1>6, <1>10
  <2> QED BY <1>12, <2>1
<1>14. ~WasTold(m) /\ WasTold(m)'
  <2>1. m \in Nat BY <1>6, <1>10
  <2> QED BY <1>10, <1>12, <2>1
<1>15. /\ told'[m] \in Seq([what : News, ok : BOOLEAN]) /\ told'[m] # <<>>
       /\ told[m] = <<>> /\ x.what = "up" => Forwarding!CameUp(told'[m])
       /\ Forwarding!CameUp(told[m]) /\ x.what = "down" => Forwarding!WentDown(told'[m])
       /\ Forwarding!NeverUp(told[m]) /\ x.what = "unfinished" => Forwarding!NeverUp(told'[m])
  <2>1. told[m] \in Seq([what : News, ok : BOOLEAN]) BY <1>6, <1>10
  <2>2. x \in [what : News, ok : BOOLEAN] /\ told'[m] = Append(told[m], x) BY <1>10, <1>11
  <2> QED BY <2>1, <2>2, OneMoreIsTold
<1>16. NewsFit'
  <2>1. told' \in [1..Len(ErrorChats) -> Seq([what : News, ok : BOOLEAN])]
    <3>1. told' = [told EXCEPT ![m] = Append(@, x)] BY <1>1, <1>8, <1>9
    <3>2. told' = [told EXCEPT ![m] = told'[m]] BY <1>10, <1>11, <3>1
    <3> QED BY <1>6, <1>10, <1>15, <3>2
  <2> QED BY <1>3, <1>4, <1>5, <1>7, <1>10, <2>1 DEF NewsFit
<1>17. ASSUME NEW n \in DOMAIN told, n # m
       PROVE  /\ Fresh(n)' <=> Fresh(n)
              /\ Up(n)' <=> Up(n)
              /\ Down(n)' <=> Down(n)
              /\ Never(n)' <=> Never(n)
              /\ Forwarding!NeverUp(told[n])' <=> Forwarding!NeverUp(told[n])
  <2>1. told'[n] = told[n] BY <1>11, <1>17
  <2> QED BY <2>1, Zenon DEF Fresh, Up, Down, Never, Forwarding!NeverUp
<1>21. \A n \in DOMAIN told' : n \in DOMAIN told /\ (n = m \/ n # m) BY <1>11
<1>18. CASE life = "announcing"
  <2>1. TellingUp BY <1>4, <1>18 DEF StagesAreTold
  <2>2. Up(m)'
    <3>1. told[m] = <<>> /\ telling.what = "up" BY <1>10, <1>14, <2>1 DEF TellingUp, Fresh
    <3> QED BY <1>7, <1>10, <1>15, <3>1 DEF Up
  <2>3. ASSUME NEW n \in DOMAIN told', n # m
        PROVE  IF WasTold(n)' THEN Up(n)' ELSE Fresh(n)'
    <3>1. IF WasTold(n) THEN Up(n) ELSE Fresh(n) BY <1>21, <2>1 DEF TellingUp
    <3> QED BY <1>13, <1>17, <1>21, <2>3, <3>1
  <2>4. started' BY <1>3, <2>1 DEF TellingUp
  <2>5. telling'.what = "up" BY <1>10, <2>1 DEF TellingUp
  <2>6. TellingUp' BY <1>14, <2>2, <2>3, <2>4, <2>5 DEF TellingUp
  <2>7. StagesAreTold' BY <1>3, <1>18, <2>6 DEF StagesAreTold
  <2> QED BY <1>2, <1>3, <1>5, <1>16, <2>7, AnnouncementsKeepTheWay DEF UpIsTold
<1>19. CASE life = "stopping" /\ TellingDown
  <2>1. Down(m)'
    <3>1. Forwarding!CameUp(told[m]) /\ telling.what = "down"
      BY <1>7, <1>10, <1>14, <1>19 DEF TellingDown, Up
    <3> QED BY <1>7, <1>10, <1>15, <3>1 DEF Down
  <2>2. ASSUME NEW n \in DOMAIN told', n # m
        PROVE  IF WasTold(n)' THEN Down(n)' ELSE Up(n)'
    <3>1. IF WasTold(n) THEN Down(n) ELSE Up(n) BY <1>19, <1>21 DEF TellingDown
    <3> QED BY <1>13, <1>17, <1>21, <2>2, <3>1
  <2>3. started' BY <1>3, <1>19 DEF TellingDown
  <2>4. telling'.what = "down" /\ closes' # 1 BY <1>3, <1>10, <1>19 DEF TellingDown
  <2>5. TellingDown' BY <1>14, <2>1, <2>2, <2>3, <2>4 DEF TellingDown
  <2>6. StagesAreTold' BY <1>3, <1>19, <2>5 DEF StagesAreTold
  <2> QED BY <1>2, <1>3, <1>5, <1>16, <2>6, AnnouncementsKeepTheWay DEF UpIsTold
<1>20. CASE life = "stopping" /\ TellingNever
  <2>1. Never(m)'
    <3>1. Forwarding!NeverUp(told[m]) /\ telling.what = "unfinished"
      BY <1>10, <1>14, <1>20 DEF TellingNever
    <3>2. Forwarding!NeverUp(told'[m]) /\ told'[m] # <<>> BY <1>10, <1>15, <3>1
    <3> QED BY <3>2, Zenon DEF Never, Fresh
  <2>2. ASSUME NEW n \in DOMAIN told', n # m
        PROVE  IF WasTold(n)' THEN Never(n)' ELSE Forwarding!NeverUp(told[n])'
    <3>1. IF WasTold(n) THEN Never(n) ELSE Forwarding!NeverUp(told[n])
      BY <1>20, <1>21 DEF TellingNever
    <3> QED BY <1>13, <1>17, <1>21, <2>2, <3>1
  <2>3. ~started' BY <1>3, <1>20 DEF TellingNever
  <2>4. telling'.what = "unfinished" BY <1>10, <1>20 DEF TellingNever
  <2>5. TellingNever' BY <1>14, <2>1, <2>2, <2>3, <2>4 DEF TellingNever
  <2>6. StagesAreTold' BY <1>3, <1>20, <2>5 DEF StagesAreTold
  <2> QED BY <1>2, <1>3, <1>5, <1>16, <2>6, AnnouncementsKeepTheWay DEF UpIsTold
<1>22. life = "stopping" => TellingDown \/ TellingNever BY <1>4 DEF StagesAreTold
<1> QED BY <1>5, <1>18, <1>19, <1>20, <1>22

LEMMA StopKeepsForwarding ==
    ASSUME ForwardingInv,
           \/ Forwarding!StopErrors \/ Forwarding!Drained
           \/ UNCHANGED Forwarding!vars
    PROVE  ForwardingInv'
<1>1. /\ UNCHANGED <<recent, calls, queue, sending, now, started, telling, told, closes,
                     logged, sent, dropped>>
      /\ attached' => attached
      /\ life' = "new" => life = "new"
      /\ life' # life => life \in {"closing", "draining"} /\ life' \in {"draining", "down"}
  BY DEF Forwarding!StopErrors, Forwarding!Drained, Forwarding!vars
<1>2. OnItsWay' = OnItsWay BY <1>1 DEF OnItsWay, Forwarding!Forwarded
<1>3. ForwardingTypeOK BY DEF ForwardingInv
<1>4. ForwardingTypeOK'
  <2>1. CASE Forwarding!StopErrors
    BY <1>1, <1>3, <2>1 DEF ForwardingTypeOK, Forwarding!StopErrors
  <2>2. CASE Forwarding!Drained
    BY <1>1, <1>3, <2>2 DEF ForwardingTypeOK, Forwarding!Drained
  <2>3. CASE UNCHANGED Forwarding!vars
    BY <1>1, <1>3, <2>3 DEF ForwardingTypeOK, Forwarding!vars
  <2> QED BY <2>1, <2>2, <2>3
<1>5. UpIsTold'
  <2>1. UpIsTold BY DEF ForwardingInv
  <2>2. CASE life' = life BY <1>1, <2>1, <2>2, AnnouncementsStay
  <2>3. CASE life \in {"closing", "draining"} /\ life' \in {"draining", "down"}
    BY <1>1, <2>1, <2>3, LaterStageIsTold
  <2> QED BY <1>1, <2>2, <2>3
<1>6. WayIsKept' /\ EachChatIsReached' BY <1>1, <1>2, WayStays, ReachStays DEF ForwardingInv
<1>7. NewIsClean' BY <1>1, <1>2 DEF ForwardingInv, NewIsClean
<1> QED BY <1>4, <1>5, <1>6, <1>7 DEF ForwardingInv

LEMMA GivingUpKeepsForwarding ==
    ASSUME ForwardingInv, Forwarding!DrainTimesOut \/ Forwarding!Dies PROVE ForwardingInv'
<1>1. /\ UNCHANGED <<now, started, told, closes, logged, sent, dropped>>
      /\ sending' = Forwarding!NotSending /\ life' \in {"down", "dead"}
      /\ calls' \in {calls, <<>>} /\ queue' \in {queue, <<>>}
      /\ recent' = recent \/ DOMAIN recent' = {}
  BY DEF Forwarding!DrainTimesOut, Forwarding!Dies
<1>2. ForwardingTypeOK BY DEF ForwardingInv
<1>3. ~attached' /\ taking' = attached' /\ attached' \in BOOLEAN
  <2>1. CASE Forwarding!DrainTimesOut
    <3>1. life = "draining" /\ attached' = attached /\ taking' = taking
      BY <2>1 DEF Forwarding!DrainTimesOut
    <3> QED BY <1>2, <3>1 DEF ForwardingTypeOK
  <2>2. CASE Forwarding!Dies BY <2>2 DEF Forwarding!Dies
  <2> QED BY <2>1, <2>2
<1>4. ForwardingTypeOK'
  <2>1. calls' \in Seq(Told) /\ queue' \in Seq(Told)
    <3>1. <<>> \in Seq(Told) OBVIOUS
    <3> QED BY <1>1, <1>2, <3>1 DEF ForwardingTypeOK
  <2>2. DOMAIN recent' \subseteq Errors BY <1>1, <1>2 DEF ForwardingTypeOK
  <2>3. life' \in {"down", "dead"} BY <1>1
  <2>4. now' \in Nat /\ sent' \subseteq SentTexts /\ dropped' \subseteq Told
        /\ logged' \subseteq Errors \X Nat
    BY <1>1, <1>2 DEF ForwardingTypeOK
  <2> QED BY <1>1, <1>3, <2>1, <2>2, <2>3, <2>4 DEF ForwardingTypeOK
<1>5. OnItsWay' \subseteq OnItsWay
  BY <1>1 DEF OnItsWay, Forwarding!Forwarded, Forwarding!Elements
<1>6. WayIsKept' BY <1>1, <1>3, <1>5, WayShrinks DEF ForwardingInv
<1>7. UpIsTold'
  <2>1. UpIsTold BY DEF ForwardingInv
  <2>2. CASE Forwarding!DrainTimesOut
    <3>1. life = "draining" /\ life' = "down" /\ telling' = telling
      BY <2>2 DEF Forwarding!DrainTimesOut
    <3> QED BY <1>1, <2>1, <3>1, LaterStageIsTold
  <2>3. CASE Forwarding!Dies
    <3>1. life \notin {"new", "dead"} /\ life' = "dead" /\ telling' = Forwarding!Nothing
      BY <2>3 DEF Forwarding!Dies
    <3> QED BY <1>1, <1>2, <2>1, <3>1, DeathIsTold
  <2> QED BY <2>2, <2>3
<1>8. EachChatIsReached' BY <1>3 DEF EachChatIsReached
<1> QED BY <1>1, <1>4, <1>6, <1>7, <1>8 DEF ForwardingInv, NewIsClean

-----------------------------------------------------------------------------
(* A message that moves on. *)
LEMMA MessageMoves ==
    ASSUME ForwardingInv, ForwardingTypeOK', OnItsWay' = OnItsWay, life # "new",
           EachChatIsReached',
           UNCHANGED <<life, attached, recent, logged, now, started, telling, told, closes>>
    PROVE  ForwardingInv'
<1>1. WayIsKept' BY WayStays DEF ForwardingInv
<1>2. UpIsTold' BY AnnouncementsStay DEF ForwardingInv
<1> QED BY <1>1, <1>2 DEF ForwardingInv, NewIsClean

LEMMA NewHasNothing ==
    ASSUME ForwardingInv, calls # <<>> \/ queue # <<>> \/ sending # Forwarding!NotSending
    PROVE  life # "new"
<1>1. ASSUME NEW messages \in Seq(Told), messages # <<>>
      PROVE  messages[1] \in Forwarding!Elements(messages)
  BY <1>1 DEF Forwarding!Elements
<1>2. OnItsWay # {}
  <2>1. CASE calls # <<>>
    BY <1>1, <2>1 DEF ForwardingInv, ForwardingTypeOK, OnItsWay, Forwarding!Forwarded
  <2>2. CASE queue # <<>>
    BY <1>1, <2>2 DEF ForwardingInv, ForwardingTypeOK, OnItsWay, Forwarding!Forwarded
  <2>3. CASE sending # Forwarding!NotSending
    BY <2>3 DEF OnItsWay, Forwarding!Forwarded
  <2> QED BY <2>1, <2>2, <2>3
<1> QED BY <1>2 DEF ForwardingInv, NewIsClean

LEMMA EnqueueKeeps ==
    ASSUME ForwardingInv, Forwarding!Enqueue PROVE ForwardingInv'
<1>1. ForwardingTypeOK BY DEF ForwardingInv
<1>2. /\ UNCHANGED <<life, attached, taking, recent, sending, now, started, telling, told,
                     closes, logged, sent>>
      /\ calls # <<>> /\ calls' = Tail(calls)
      /\ \/ queue' = Append(queue, Head(calls)) /\ dropped' = dropped
         \/ dropped' = dropped \cup {Head(calls)} /\ queue' = queue
  BY DEF Forwarding!Enqueue
<1>3. /\ Head(calls) \in Told /\ Tail(calls) \in Seq(Told)
      /\ Forwarding!Elements(calls) = Forwarding!Elements(Tail(calls)) \cup {Head(calls)}
  BY <1>1, <1>2, OneMessageLess DEF ForwardingTypeOK
<1>4. Forwarding!Elements(Append(queue, Head(calls))) = Forwarding!Elements(queue) \cup {Head(calls)}
  BY <1>1, <1>3, OneMessageMore DEF ForwardingTypeOK
<1>5. OnItsWay' = OnItsWay
  <2>1. CASE queue' = Append(queue, Head(calls)) /\ dropped' = dropped
    BY <1>2, <1>3, <1>4, <2>1 DEF OnItsWay, Forwarding!Forwarded
  <2>2. CASE dropped' = dropped \cup {Head(calls)} /\ queue' = queue
    BY <1>2, <1>3, <2>2 DEF OnItsWay, Forwarding!Forwarded
  <2> QED BY <1>2, <2>1, <2>2
<1>6. ForwardingTypeOK'
  <2>1. Append(queue, Head(calls)) \in Seq(Told) BY <1>1, <1>3 DEF ForwardingTypeOK
  <2> QED BY <1>1, <1>2, <1>3, <2>1 DEF ForwardingTypeOK
<1>7. EachChatIsReached'
  <2> SUFFICES ASSUME attached, NEW f \in OnItsWay, f \notin dropped',
                      NEW n \in 1..Len(ErrorChats)
               PROVE  Forwarding!ComesTo(f, n)'
    BY <1>2, <1>5 DEF EachChatIsReached, Reached
  <2>1. Forwarding!ComesTo(f, n)
    <3>1. f \notin dropped BY <1>2
    <3> QED BY <3>1 DEF ForwardingInv, EachChatIsReached, Reached
  <2>2. f \in Forwarding!Elements(calls) \cup Forwarding!Elements(queue) =>
          f \in Forwarding!Elements(calls') \cup Forwarding!Elements(queue')
    <3>1. CASE queue' = Append(queue, Head(calls)) BY <1>2, <1>3, <1>4, <3>1
    <3>2. CASE dropped' = dropped \cup {Head(calls)} /\ queue' = queue BY <1>2, <1>3, <3>2
    <3> QED BY <1>2, <3>1, <3>2
  <2>3. Forwarding!Elements(calls)' = Forwarding!Elements(calls')
        /\ Forwarding!Elements(queue)' = Forwarding!Elements(queue')
    BY DEF Forwarding!Elements
  <2> QED BY <1>2, <2>1, <2>2, <2>3 DEF Forwarding!ComesTo
<1> QED BY <1>2, <1>5, <1>6, <1>7, MessageMoves, NewHasNothing

LEMMA ErrorTakeKeeps ==
    ASSUME ForwardingInv, ForwardingAssumption, Forwarding!Take PROVE ForwardingInv'
<1>1. ForwardingTypeOK BY DEF ForwardingInv
<1>2. /\ UNCHANGED <<life, attached, taking, recent, calls, now, started, telling, told, closes,
                     logged, sent, dropped>>
      /\ queue # <<>> /\ queue' = Tail(queue) /\ sending = Forwarding!NotSending
      /\ sending' = [key |-> Head(queue).key, at |-> Head(queue).at, left |-> Len(ErrorChats)]
  BY DEF Forwarding!Take
<1>3. /\ Head(queue) \in Told /\ Tail(queue) \in Seq(Told)
      /\ Forwarding!Elements(queue) = Forwarding!Elements(Tail(queue)) \cup {Head(queue)}
  BY <1>1, <1>2, OneMessageLess DEF ForwardingTypeOK
<1>4. /\ sending' # Forwarding!NotSending
      /\ sending' \in BeingSent
      /\ [key |-> sending'.key, at |-> sending'.at] = Head(queue)
  BY <1>2, <1>3 DEF Told, BeingSent, ForwardingAssumption, Forwarding!NotSending
<1>5. OnItsWay' = OnItsWay BY <1>2, <1>3, <1>4 DEF OnItsWay, Forwarding!Forwarded
<1>6. ForwardingTypeOK' BY <1>1, <1>2, <1>3, <1>4 DEF ForwardingTypeOK
<1>7. EachChatIsReached'
  <2> SUFFICES ASSUME attached, NEW f \in OnItsWay, f \notin dropped,
                      NEW n \in 1..Len(ErrorChats)
               PROVE  Forwarding!ComesTo(f, n)'
    BY <1>2, <1>5 DEF EachChatIsReached, Reached
  <2>1. Forwarding!ComesTo(f, n) BY DEF ForwardingInv, EachChatIsReached, Reached
  <2>2. sending.left = 0 /\ Len(ErrorChats) \in Nat /\ n <= Len(ErrorChats) /\ n > 0
    BY <1>2 DEF Forwarding!NotSending, ForwardingAssumption
  <2>3. CASE f = Head(queue)
    <3>1. sending'.key = f.key /\ sending'.at = f.at /\ sending'.left = Len(ErrorChats)
      BY <1>2, <2>3
    <3> QED BY <2>2, <3>1 DEF Forwarding!ComesTo
  <2>4. CASE f # Head(queue)
    <3>0. ~(n > Len(ErrorChats) - sending.left) BY <2>2
    <3>1. f \in Forwarding!Elements(calls) \cup Forwarding!Elements(Tail(queue))
          \/ \E ok \in BOOLEAN : [key |-> f.key, at |-> f.at, chat |-> n, ok |-> ok] \in sent
      BY <1>3, <2>1, <2>4, <3>0, Zenon DEF Forwarding!ComesTo
    <3>2. Forwarding!Elements(calls)' = Forwarding!Elements(calls)
          /\ Forwarding!Elements(queue)' = Forwarding!Elements(Tail(queue))
      BY <1>2 DEF Forwarding!Elements
    <3> QED BY <1>2, <3>1, <3>2 DEF Forwarding!ComesTo
  <2> QED BY <2>3, <2>4
<1> QED BY <1>2, <1>5, <1>6, <1>7, MessageMoves, NewHasNothing

LEMMA SendingKeeps ==
    ASSUME ForwardingInv, ForwardingAssumption, Forwarding!Send PROVE ForwardingInv'
<1>1. ForwardingTypeOK BY DEF ForwardingInv
<1>2. PICK ok \in BOOLEAN :
        /\ sent' = sent \cup {[key |-> sending.key, at |-> sending.at,
                              chat |-> Len(ErrorChats) - sending.left + 1, ok |-> ok]}
        /\ Forwarding!Reported(ok)
  BY DEF Forwarding!Send
<1>3. /\ UNCHANGED <<life, attached, taking, queue, now, started, telling, told, closes, dropped>>
      /\ sending # Forwarding!NotSending
      /\ sending.left = 1 => sending' = Forwarding!NotSending
      /\ sending.left # 1 => sending' = [sending EXCEPT !.left = @ - 1]
  BY DEF Forwarding!Send
<1>4. UNCHANGED <<recent, calls, logged>> BY <1>2, ReportsChangeNothing
<1>5. sending \in BeingSent /\ Len(ErrorChats) \in Nat
  BY <1>1, <1>3 DEF ForwardingTypeOK, ForwardingAssumption
<1>6. PICK chat : chat = Len(ErrorChats) - sending.left + 1 OBVIOUS
<1>7. PICK new : new = [key |-> sending.key, at |-> sending.at, chat |-> chat, ok |-> ok] OBVIOUS
<1>8. sent' = sent \cup {new} /\ new \in SentTexts /\ chat \in Nat
  <2>1. sending.left \in 1..Len(ErrorChats) /\ sending.key \in Errors /\ sending.at \in Nat
    BY <1>5 DEF BeingSent
  <2>2. chat \in Nat BY <1>5, <1>6, <2>1
  <2> QED BY <1>2, <1>6, <1>7, <2>1, <2>2 DEF SentTexts
<1>9. /\ sending.left # 1 => /\ sending' \in BeingSent /\ sending' # Forwarding!NotSending
                             /\ sending'.key = sending.key /\ sending'.at = sending.at
                             /\ sending'.left = sending.left - 1
  <2> SUFFICES ASSUME sending.left # 1
               PROVE  /\ sending' \in BeingSent /\ sending' # Forwarding!NotSending
                      /\ sending'.key = sending.key /\ sending'.at = sending.at
                      /\ sending'.left = sending.left - 1
    OBVIOUS
  <2>1. sending.left \in 1..Len(ErrorChats) /\ sending.key \in Errors /\ sending.at \in Nat
    BY <1>5 DEF BeingSent
  <2>2. sending' = [key |-> sending.key, at |-> sending.at, left |-> sending.left - 1]
    BY <1>3, <1>5 DEF BeingSent
  <2>3. sending.left - 1 \in 1..Len(ErrorChats) BY <1>5, <2>1
  <2> QED BY <2>1, <2>2, <2>3 DEF BeingSent, Forwarding!NotSending
<1>10. OnItsWay' = OnItsWay
  <2>1. {[key |-> x.key, at |-> x.at] : x \in sent'}
          = {[key |-> x.key, at |-> x.at] : x \in sent} \cup {[key |-> sending.key, at |-> sending.at]}
    BY <1>7, <1>8
  <2>2. Forwarding!Elements(calls)' = Forwarding!Elements(calls)
        /\ Forwarding!Elements(queue)' = Forwarding!Elements(queue)
    BY <1>3, <1>4 DEF Forwarding!Elements
  <2> QED BY <1>3, <1>9, <2>1, <2>2 DEF OnItsWay, Forwarding!Forwarded
<1>11. ForwardingTypeOK' BY <1>1, <1>3, <1>4, <1>8, <1>9 DEF ForwardingTypeOK
<1>12. EachChatIsReached'
  <2> SUFFICES ASSUME attached, NEW f \in OnItsWay, f \notin dropped,
                      NEW n \in 1..Len(ErrorChats)
               PROVE  Forwarding!ComesTo(f, n)'
    BY <1>3, <1>10 DEF EachChatIsReached, Reached
  <2>1. Forwarding!ComesTo(f, n) BY DEF ForwardingInv, EachChatIsReached, Reached
  <2>2. Forwarding!Elements(calls)' = Forwarding!Elements(calls)
        /\ Forwarding!Elements(queue)' = Forwarding!Elements(queue)
    BY <1>3, <1>4 DEF Forwarding!Elements
  <2>3. CASE sending.key = f.key /\ sending.at = f.at /\ n > Len(ErrorChats) - sending.left
    <3>1. sending.left \in 1..Len(ErrorChats) BY <1>5 DEF BeingSent
    <3>2. CASE n = chat
      <4>1. new = [key |-> f.key, at |-> f.at, chat |-> n, ok |-> ok] BY <1>7, <2>3, <3>2
      <4> QED BY <1>2, <1>8, <4>1 DEF Forwarding!ComesTo
    <3>3. CASE n # chat
      <4>1. n \in Nat /\ n <= Len(ErrorChats) BY <1>5
      <4>2. sending.left # 1 /\ n > Len(ErrorChats) - (sending.left - 1)
        BY <1>5, <1>6, <2>3, <3>1, <3>3, <4>1
      <4> QED BY <1>9, <2>3, <4>2 DEF Forwarding!ComesTo
    <3> QED BY <3>2, <3>3
  <2>4. CASE ~(sending.key = f.key /\ sending.at = f.at /\ n > Len(ErrorChats) - sending.left)
    BY <1>8, <2>1, <2>2, <2>4 DEF Forwarding!ComesTo
  <2> QED BY <2>3, <2>4
<1> QED BY <1>3, <1>4, <1>10, <1>11, <1>12, MessageMoves, NewHasNothing

LEMMA TimeKeepsForwarding ==
    ASSUME ForwardingInv, ForwardingAssumption, Forwarding!Tick PROVE ForwardingInv'
<1>1. /\ UNCHANGED <<life, attached, taking, recent, calls, queue, sending, started, telling, told,
                     closes, logged, sent, dropped>>
      /\ now' = now + 1
  BY DEF Forwarding!Tick
<1>2. ForwardingTypeOK BY DEF ForwardingInv
<1>3. ForwardingTypeOK' BY <1>1, <1>2 DEF ForwardingTypeOK
<1>4. OnItsWay' = OnItsWay /\ OnItsWay \subseteq Told
  BY <1>1, <1>2, OnItsWayIsTold DEF OnItsWay, Forwarding!Forwarded
<1>5. now \in Nat /\ (\A f \in OnItsWay : f.at \in Nat) BY <1>2, <1>4 DEF ForwardingTypeOK, Told
<1>6. WayIsKept BY DEF ForwardingInv
<1>7. RecentIsForwarded' BY <1>1, <1>4, <1>5, <1>6 DEF WayIsKept, RecentIsForwarded
<1>8. ForwardedIsRecent'
  BY <1>1, <1>4, <1>5, <1>6 DEF WayIsKept, ForwardedIsRecent, ForwardingAssumption
<1>9. LoggedIsHeard'
  <2>1. \A l \in logged : l[2] \in Nat BY <1>2 DEF ForwardingTypeOK
  <2> QED BY <1>1, <1>4, <1>5, <1>6, <2>1 DEF WayIsKept, LoggedIsHeard
<1>10. WindowApart' BY <1>4, <1>6 DEF WayIsKept, WindowApart
<1>11. UpIsTold' BY <1>1, AnnouncementsStay DEF ForwardingInv
<1>12. EachChatIsReached' BY <1>1, <1>4, ReachStays DEF ForwardingInv
<1> QED
  BY <1>1, <1>3, <1>4, <1>7, <1>8, <1>9, <1>10, <1>11, <1>12
  DEF ForwardingInv, WayIsKept, NewIsClean

(* An error is logged. *)
LEMMA LogErrorKeeps ==
    ASSUME ForwardingInv, ForwardingAssumption, NEW e \in Errors, Forwarding!LogError(e)
    PROVE  ForwardingInv'
<1>1. /\ UNCHANGED <<life, attached, taking, queue, sending, now, started, telling, told, closes,
                     sent, dropped>>
      /\ life # "new" /\ e \notin SendPath /\ Forwarding!Offer(e)
  BY DEF Forwarding!LogError
<1>2. ForwardingTypeOK /\ OnItsWay \subseteq Told BY OnItsWayIsTold DEF ForwardingInv
<1>3. UpIsTold' /\ NewIsClean' BY <1>1, AnnouncementsStay DEF ForwardingInv, NewIsClean
<1>4. WayIsKept BY DEF ForwardingInv
<1>5. CASE ~attached
  <2>1. UNCHANGED <<recent, calls, logged>>
    BY <1>1, <1>5 DEF Forwarding!Offer, Forwarding!Forwards
  <2>2. OnItsWay' = OnItsWay BY <1>1, <2>1 DEF OnItsWay, Forwarding!Forwarded
  <2>3. ForwardingTypeOK' BY <1>1, <1>2, <2>1 DEF ForwardingTypeOK
  <2>4. EachChatIsReached' BY <1>1, <1>5 DEF EachChatIsReached
  <2> QED BY <1>1, <2>1, <2>2, <2>3, <2>4, MessageMoves
<1>6. CASE attached
  <2> DEFINE kept == Forwarding!Pruned
             new == Forwarding!Message(e)
             repeat == Window > 0 /\ e \in DOMAIN kept
  <2>1. Forwarding!Forwards(e) BY <1>1, <1>2, <1>6 DEF Forwarding!Forwards, ForwardingTypeOK
  <2>2. /\ logged' = logged \cup {<<e, now>>}
        /\ repeat => recent' = kept /\ calls' = calls
        /\ ~repeat => calls' = Append(calls, new)
        /\ ~repeat /\ Window = 0 => recent' = recent
        /\ ~repeat /\ Window # 0 =>
             recent' = [x \in DOMAIN kept \cup {e} |-> IF x = e THEN now ELSE kept[x]]
    BY <1>1, <1>6, <2>1 DEF Forwarding!Offer
  <2>3. /\ DOMAIN kept = {x \in DOMAIN recent : now - recent[x] < Window}
        /\ \A x \in DOMAIN kept : kept[x] = recent[x]
    BY DEF Forwarding!Pruned
  <2>4. new = [key |-> e, at |-> now] BY DEF Forwarding!Message
  <2> HIDE DEF kept, new
  <2>5. now \in Nat /\ Window \in Nat /\ new \in Told /\ new.key = e /\ new.at = now
    BY <1>2, <2>4 DEF ForwardingTypeOK, ForwardingAssumption, Told
  <2>6. \A f \in OnItsWay : f.at \in Nat /\ f.at <= now /\ f.key \notin SendPath
    BY <1>2, <1>4 DEF Told, WayIsKept, ForwardedIsRecent
  <2>7. \A x \in DOMAIN recent : recent[x] \in 0..now /\ \E f \in OnItsWay : f.key = x /\ f.at = recent[x]
    BY <1>4, <1>6 DEF WayIsKept, RecentIsForwarded
  <2>8. \A f \in OnItsWay : now - f.at < Window => f.key \in DOMAIN kept /\ f.at <= kept[f.key]
    <3> SUFFICES ASSUME NEW f \in OnItsWay, now - f.at < Window
                 PROVE  f.key \in DOMAIN kept /\ f.at <= kept[f.key]
      OBVIOUS
    <3>1. f.key \in DOMAIN recent /\ f.at <= recent[f.key]
      BY <1>4, <1>6 DEF WayIsKept, ForwardedIsRecent
    <3>2. now - recent[f.key] < Window BY <2>5, <2>6, <2>7, <3>1
    <3> QED BY <2>3, <3>1, <3>2
  <2>9. ASSUME NEW way, OnItsWay \subseteq way, \E f \in way : Hears(f, <<e, now>>)
        PROVE  \A l \in logged' : l[2] <= now /\ \E f \in way : Hears(f, l)
    <3>1. \A l \in logged : l[2] <= now /\ \E f \in OnItsWay : Hears(f, l)
      BY <1>4, <1>6 DEF WayIsKept, LoggedIsHeard
    <3>2. <<e, now>>[2] = now OBVIOUS
    <3> QED BY <2>2, <2>5, <2>9, <3>1, <3>2
  <2>10. logged' \subseteq Errors \X Nat BY <1>2, <2>2, <2>5 DEF ForwardingTypeOK
  <2>11. CASE repeat
    <3>1. OnItsWay' = OnItsWay BY <1>1, <2>2, <2>11 DEF OnItsWay, Forwarding!Forwarded
    <3>2. ForwardingTypeOK'
      BY <1>1, <1>2, <2>2, <2>3, <2>10, <2>11 DEF ForwardingTypeOK
    <3>3. RecentIsForwarded' BY <1>1, <2>2, <2>3, <2>7, <2>11, <3>1 DEF RecentIsForwarded
    <3>4. ForwardedIsRecent' BY <1>1, <2>2, <2>6, <2>8, <2>11, <3>1 DEF ForwardedIsRecent
    <3>5. \E f \in OnItsWay : Hears(f, <<e, now>>)
      <4>1. PICK f \in OnItsWay : f.key = e /\ f.at = recent[e] BY <2>3, <2>7, <2>11
      <4>2. recent[e] \in 0..now /\ now - recent[e] < Window BY <2>3, <2>7, <2>11
      <4> QED BY <2>5, <4>1, <4>2 DEF Hears
    <3>6. LoggedIsHeard'
      <4>1. \A l \in logged' : l[2] <= now /\ \E f \in OnItsWay : Hears(f, l) BY <2>9, <3>5
      <4> QED BY <1>1, <3>1, <4>1 DEF LoggedIsHeard
    <3>7. WindowApart' BY <1>4, <3>1 DEF WayIsKept, WindowApart
    <3>8. EachChatIsReached' BY <1>1, <2>2, <2>11, <3>1, ReachStays DEF ForwardingInv
    <3> QED BY <1>3, <3>2, <3>3, <3>4, <3>6, <3>7, <3>8 DEF ForwardingInv, WayIsKept
  <2>12. CASE ~repeat
    <3>1. Forwarding!Elements(calls') = Forwarding!Elements(calls) \cup {new}
      BY <1>2, <2>2, <2>5, <2>12, OneMessageMore DEF ForwardingTypeOK
    <3>2. OnItsWay' = OnItsWay \cup {new} BY <1>1, <3>1 DEF OnItsWay, Forwarding!Forwarded
    <3>3. ForwardingTypeOK'
      <4>1. calls' \in Seq(Told) BY <1>2, <2>2, <2>5, <2>12 DEF ForwardingTypeOK
      <4>2. DOMAIN recent' \subseteq Errors
        BY <1>2, <2>2, <2>3, <2>5, <2>12 DEF ForwardingTypeOK
      <4> QED BY <1>1, <1>2, <2>10, <4>1, <4>2 DEF ForwardingTypeOK
    <3>4. \A x \in DOMAIN recent' : (recent'[x] = now /\ x = e)
                                     \/ (x \in DOMAIN recent /\ recent'[x] = recent[x])
      BY <2>2, <2>3, <2>12
    <3>5. RecentIsForwarded'
      <4> SUFFICES ASSUME NEW x \in DOMAIN recent'
                   PROVE  /\ recent'[x] \in 0..now
                          /\ \E f \in OnItsWay \cup {new} : f.key = x /\ f.at = recent'[x]
        BY <1>1, <3>2 DEF RecentIsForwarded
      <4> QED BY <2>5, <2>7, <3>4
    <3>6. ForwardedIsRecent'
      <4>1. \A f \in OnItsWay \cup {new} : f.at <= now /\ f.key \notin SendPath
        BY <1>1, <2>5, <2>6
      <4>2. ASSUME NEW f \in OnItsWay \cup {new}, now - f.at < Window
            PROVE  f.key \in DOMAIN recent' /\ f.at <= recent'[f.key]
        <5>1. Window # 0 BY <2>5, <2>6, <4>2
        <5>2. recent' = [x \in DOMAIN kept \cup {e} |-> IF x = e THEN now ELSE kept[x]]
          BY <2>2, <2>12, <5>1
        <5>3. CASE f.key = e BY <4>1, <5>2, <5>3
        <5>4. CASE f.key # e
          <6>1. f \in OnItsWay BY <2>5, <5>4
          <6> QED BY <2>8, <4>2, <5>2, <5>4, <6>1
        <5> QED BY <5>3, <5>4
      <4> QED BY <1>1, <3>2, <4>1, <4>2 DEF ForwardedIsRecent
    <3>7. LoggedIsHeard'
      <4>1. Hears(new, <<e, now>>) BY <2>5 DEF Hears
      <4>2. \A l \in logged' : l[2] <= now /\ \E f \in OnItsWay \cup {new} : Hears(f, l)
        BY <2>9, <4>1
      <4> QED BY <1>1, <3>2, <4>2 DEF LoggedIsHeard
    <3>8. WindowApart'
      <4> SUFFICES ASSUME NEW f \in OnItsWay \cup {new}, NEW g \in OnItsWay \cup {new},
                          f.key = g.key, f.at < g.at
                   PROVE  g.at - f.at >= Window
        BY <3>2 DEF WindowApart
      <4>1. CASE f \in OnItsWay /\ g \in OnItsWay BY <1>4, <4>1 DEF WayIsKept, WindowApart
      <4>2. CASE g = new /\ f \in OnItsWay
        <5>1. f.at \in Nat /\ f.key = e /\ g.at = now BY <2>5, <2>6, <4>2
        <5>2. Window = 0 \/ e \notin DOMAIN kept BY <2>5, <2>12
        <5>3. ~(now - f.at < Window) BY <2>5, <2>6, <2>8, <4>2, <5>1, <5>2
        <5> QED BY <2>5, <5>1, <5>3
      <4>3. CASE f = new
        <5>1. g.at <= now BY <2>5, <2>6
        <5> QED BY <2>5, <2>6, <4>3, <5>1
      <4> QED BY <4>1, <4>2, <4>3
    <3>9. EachChatIsReached'
      <4> SUFFICES ASSUME NEW f \in OnItsWay \cup {new}, f \notin dropped,
                          NEW n \in 1..Len(ErrorChats)
                   PROVE  Forwarding!ComesTo(f, n)'
        BY <1>1, <3>2 DEF EachChatIsReached, Reached
      <4>1. Forwarding!Elements(calls)' = Forwarding!Elements(calls) \cup {new}
            /\ Forwarding!Elements(queue)' = Forwarding!Elements(queue)
        BY <1>1, <3>1 DEF Forwarding!Elements
      <4>2. CASE f = new BY <4>1, <4>2 DEF Forwarding!ComesTo
      <4>3. CASE f \in OnItsWay
        <5>1. Forwarding!ComesTo(f, n) BY <1>6, <4>3 DEF ForwardingInv, EachChatIsReached, Reached
        <5> QED BY <1>1, <4>1, <5>1 DEF Forwarding!ComesTo
      <4> QED BY <4>2, <4>3
    <3> QED BY <1>3, <3>3, <3>5, <3>6, <3>7, <3>8, <3>9 DEF ForwardingInv, WayIsKept
  <2> QED BY <2>11, <2>12
<1> QED BY <1>2, <1>5, <1>6 DEF ForwardingTypeOK

LEMMA ForwardingStep ==
    ASSUME ForwardingInv, ForwardingAssumption, [Forwarding!Next]_(Forwarding!vars)
    PROVE  ForwardingInv'
<1>1. CASE \E e \in Errors : Forwarding!LogError(e) BY <1>1, LogErrorKeeps
<1>2. CASE UNCHANGED Forwarding!vars BY <1>2, StopKeepsForwarding
<1> QED
  BY <1>1, <1>2, ForwardingStarts, AnnounceStartedKeeps, AnnounceStoppedKeeps,
     AnnouncementEndsKeeps, TellKeeps, StopKeepsForwarding, GivingUpKeepsForwarding, EnqueueKeeps, ErrorTakeKeeps, SendingKeeps, TimeKeepsForwarding
  DEF Forwarding!Next

LEMMA ForwardingInvariant == ForwardingAssumption => (Forwarding!Spec => []ForwardingInv)
<1> SUFFICES ASSUME ForwardingAssumption PROVE Forwarding!Spec => []ForwardingInv
  OBVIOUS
<1>1. Forwarding!Init => ForwardingInv BY ForwardingStart
<1>2. ForwardingInv /\ [Forwarding!Next]_(Forwarding!vars) => ForwardingInv' BY ForwardingStep
<1> QED BY <1>1, <1>2, PTL DEF Forwarding!Spec

(* No error is kept from an operator but by a send that failed or a queue  *)
(* that was full, and none comes twice within the window, whatever threads *)
(* log; and a failing send never feeds itself (telegram_errors.py).        *)
THEOREM OperatorsHearOfErrorsOnce ==
    ForwardingAssumption => (Forwarding!Spec => []Forwarding!ErrorsAreHeardOnce)
<1>1. ForwardingInv => Forwarding!ErrorsAreHeardOnce
  <2> SUFFICES ASSUME ForwardingInv PROVE Forwarding!ErrorsAreHeardOnce
    OBVIOUS
  <2>1. ASSUME attached, NEW l \in logged
        PROVE  \E f \in OnItsWay : Hears(f, l) /\ Reached(f)
    <3>1. PICK f \in OnItsWay : Hears(f, l) BY <2>1 DEF ForwardingInv, WayIsKept, LoggedIsHeard
    <3>2. Reached(f) BY <2>1, <3>1 DEF ForwardingInv, EachChatIsReached
    <3> QED BY <3>1, <3>2
  <2>2. WindowApart /\ ForwardedIsRecent BY DEF ForwardingInv, WayIsKept
  <2> QED
    BY <2>1, <2>2 DEF Hears, Reached, WindowApart, ForwardedIsRecent, OnItsWay,
       Forwarding!ErrorsAreHeardOnce
<1> QED BY <1>1, ForwardingInvariant, PTL

(* What the chats are sent of a service's start and end is true, whichever *)
(* sends fail: one down after the up, that it never came up only when no   *)
(* chat was sent that it did, and no up is left standing by a stop         *)
(* (service_status.py).                                                    *)
THEOREM DownIsToldAfterUp ==
    ForwardingAssumption => (Forwarding!Spec => []Forwarding!DownFollowsUp)
<1>1. ForwardingInv => Forwarding!DownFollowsUp BY StagesAreTrue DEF ForwardingInv
<1> QED BY <1>1, ForwardingInvariant, PTL

-----------------------------------------------------------------------------
(* What an operator asked for, for any book, messages and presses          *)
(* (handlers.py).                                                          *)
BotAssumption ==
    /\ Symbols \cup Bot!Strategies \subseteq Seq(Part)
    /\ PerPage \in Nat \ {0}

Words == {"usage", "nothing is open", "asked", "cancelled", "result", "no runner", "no ingestion"}
Fields == Part \cup {"flat", "ok", "a", "s", "t"}
AllCycles == DOMAIN Cycles
Extent == {Bot!Everything} \cup [kind : {"s", "t"}, name : Seq(Fields)]
BotSays == [kind : {"answer"}, text : Words]
Questions == [kind : {"question"}, text : Words, scope : Extent, data : Seq(Fields)]
Pages == [kind : {"page"}, offset : Nat, total : Nat, began : SUBSET AllCycles,
          seen : SUBSET AllCycles, whole : BOOLEAN, raced : BOOLEAN]
BotPosts == BotSays \cup Questions \cup Pages
Listed == {ended[k] : k \in DOMAIN ended}

BotTypeOK ==
    /\ botPosts \in Seq(BotPosts)
    /\ open \subseteq AllCycles
    /\ ended \in Seq(AllCycles)
    /\ flats \subseteq [msg : Nat, press : Nat, awaited : BOOLEAN, at : {"sent", "lost", "closing"}, scope : Extent]
    /\ reading \subseteq [msg : Nat, press : Nat, offset : Nat, total : Nat, raced : BOOLEAN]
    /\ presses \in Nat

\* A button carries the scope of its question, and what is under way or done
\* carries that of the question it answers.
AsksAlike(i, scope) ==
    i \in DOMAIN botPosts /\ botPosts[i].kind = "question" /\ botPosts[i].scope = scope

FlatsAreAsked ==
    /\ \A i \in DOMAIN botPosts :
          botPosts[i].kind = "question" => botPosts[i].data = Bot!Encoded(botPosts[i].scope)
    /\ \A f \in flats : AsksAlike(f.msg, f.scope)
    /\ \A c \in DOMAIN closedBy : \E scope \in Extent :
          AsksAlike(closedBy[c], scope) /\ Bot!Matches(c, scope)

NothingEndsTwice == open \cap Listed = {}

\* What a page had to show and did not lies behind it.
Unseen(m) == {k \in DOMAIN ended : ended[k] \in m.began \ m.seen}

PageIsSound(m) ==
    /\ m.began \subseteq Listed
    /\ ~m.whole => m.total = 0
    /\ ~m.raced =>
          /\ m.seen = {} => m.offset = 0 /\ m.total = 0
          /\ \A k \in Unseen(m) : k > m.offset /\ (m.whole => k > m.offset + PerPage)
          /\ m.whole /\ ~Bot!HasNext(m) => m.began \subseteq m.seen

ReadingIsSound(r, m) ==
    /\ m.kind = "page"
    /\ ~r.raced => r.total = Len(ended)
    /\ ~m.raced => /\ m.seen = {} => r.offset = 0
                   /\ \A k \in Unseen(m) : k > r.offset

PagesAreSound ==
    \A i \in DOMAIN botPosts : botPosts[i].kind = "page" => PageIsSound(botPosts[i])

ReadingsAreSound ==
    \A r \in reading :
        /\ r.msg \in DOMAIN botPosts /\ ReadingIsSound(r, botPosts[r.msg])
        /\ \A q \in reading : q.msg = r.msg => q = r

BotInv == BotTypeOK /\ FlatsAreAsked /\ NothingEndsTwice /\ PagesAreSound /\ ReadingsAreSound

LEMMA BotStart == BotAssumption /\ Bot!Init => BotInv
BY DEF Bot!Init, BotInv, BotTypeOK, FlatsAreAsked, NothingEndsTwice, PagesAreSound,
       ReadingsAreSound, Listed, AllCycles

(* The scope is read back from a button as it was put there.               *)
LEMMA ButtonsCarryTheScope ==
    ASSUME NEW scope \in Extent
    PROVE  /\ Bot!Encoded(scope) \in Seq(Fields)
           /\ Bot!ScopeFromCallback(Bot!Encoded(scope)) = scope
<1> DEFINE head == <<"flat", "ok", scope.kind>>
           data == head \o scope.name
<1>1. scope.kind \in {"a", "s", "t"} /\ scope.name \in Seq(Fields)
  <2>1. CASE scope = Bot!Everything
    <3>1. <<>> \in Seq(Fields) OBVIOUS
    <3> QED BY <2>1, <3>1 DEF Bot!Everything
  <2>2. CASE scope \in [kind : {"s", "t"}, name : Seq(Fields)]
    BY <2>2
  <2> QED BY <2>1, <2>2 DEF Extent
<1>2. head \in Seq(Fields) /\ Len(head) = 3 /\ head[3] = scope.kind
  BY <1>1 DEF Fields
<1>3. /\ data \in Seq(Fields) /\ Len(data) = 3 + Len(scope.name)
      /\ data[3] = scope.kind
      /\ \A i \in 1..Len(scope.name) : data[i + 3] = scope.name[i]
  BY <1>1, <1>2
<1>4. SubSeq(data, 4, Len(data)) = scope.name
  <2>1. /\ SubSeq(data, 4, Len(data)) \in Seq(Fields)
        /\ Len(SubSeq(data, 4, Len(data))) = Len(scope.name)
        /\ \A i \in 1..Len(scope.name) : SubSeq(data, 4, Len(data))[i] = data[i + 3]
    BY <1>1, <1>3
  <2> QED
    BY <1>1, <1>3, <2>1
<1>5. scope.kind = "a" => scope = Bot!Everything
  BY DEF Extent
<1>6. scope.kind # "a" => scope = [kind |-> scope.kind, name |-> scope.name]
  BY DEF Extent, Bot!Everything
<1> QED
  BY <1>1, <1>3, <1>4, <1>5, <1>6 DEF Bot!Encoded, Bot!ScopeFromCallback

(* Nothing that was said is unsaid.                                        *)
LEMMA SaidKeepsBot ==
    ASSUME BotInv, NEW m \in BotPosts, botPosts' = Append(botPosts, m),
           m.kind = "question" => m.data = Bot!Encoded(m.scope),
           m.kind = "page" => PageIsSound(m),
           UNCHANGED <<open, ended, flats, reading, closedBy, presses>>
    PROVE  BotInv'
<1>1. /\ botPosts' \in Seq(BotPosts) /\ DOMAIN botPosts' = DOMAIN botPosts \cup {Len(botPosts) + 1}
      /\ botPosts'[Len(botPosts) + 1] = m
      /\ \A i \in DOMAIN botPosts : botPosts'[i] = botPosts[i]
  BY DEF BotInv, BotTypeOK
<1>2. BotTypeOK' BY <1>1 DEF BotInv, BotTypeOK
<1>3. FlatsAreAsked' BY <1>1 DEF BotInv, FlatsAreAsked, AsksAlike
<1>4. NothingEndsTwice' BY DEF BotInv, NothingEndsTwice, Listed
<1>5. PagesAreSound'
  BY <1>1 DEF BotInv, PagesAreSound, PageIsSound, Listed, Unseen, Bot!HasNext
<1>6. ReadingsAreSound'
  BY <1>1 DEF BotInv, ReadingsAreSound, ReadingIsSound, Unseen
<1> QED BY <1>2, <1>3, <1>4, <1>5, <1>6 DEF BotInv

(* A question may be edited: only its text goes.                           *)
LEMMA EditKeepsBotPosts ==
    ASSUME BotInv, NEW i \in DOMAIN botPosts, botPosts[i].kind = "question",
           NEW text \in Words, Bot!Edits(i, text), UNCHANGED <<ended, reading>>
    PROVE  /\ botPosts' \in Seq(BotPosts) /\ DOMAIN botPosts' = DOMAIN botPosts
           /\ \A j \in DOMAIN botPosts : \/ botPosts'[j] = botPosts[j]
                                         \/ /\ botPosts[j].kind = "question"
                                            /\ botPosts'[j].kind = "question"
                                            /\ botPosts'[j].scope = botPosts[j].scope
                                            /\ botPosts'[j].data = botPosts[j].data
           /\ PagesAreSound' /\ ReadingsAreSound'
<1>1. botPosts[i] \in Questions
  BY DEF BotInv, BotTypeOK, BotPosts, BotSays, Pages
<1>2. [botPosts[i] EXCEPT !.text = text] \in Questions
  BY <1>1 DEF Questions
<1>3. botPosts' = [botPosts EXCEPT ![i] = [botPosts[i] EXCEPT !.text = text]]
  BY DEF Bot!Edits
<1>4. botPosts' \in Seq(BotPosts) /\ DOMAIN botPosts' = DOMAIN botPosts
  BY <1>2, <1>3 DEF BotInv, BotTypeOK, BotPosts
<1>5. /\ \A j \in DOMAIN botPosts : j # i => botPosts'[j] = botPosts[j]
      /\ botPosts'[i].kind = "question" /\ botPosts'[i].scope = botPosts[i].scope
      /\ botPosts'[i].data = botPosts[i].data
  BY <1>1, <1>3 DEF Questions
<1>6. PagesAreSound'
  BY <1>4, <1>5 DEF BotInv, PagesAreSound, PageIsSound, Listed, Unseen, Bot!HasNext
<1>7. ReadingsAreSound'
  BY <1>4, <1>5 DEF BotInv, ReadingsAreSound, ReadingIsSound, Unseen
<1> QED BY <1>4, <1>5, <1>6, <1>7

(* The flats that go on ask what they asked.                               *)
LEMMA FlatsKeepBot ==
    ASSUME BotInv, BotTypeOK', PagesAreSound', ReadingsAreSound', DOMAIN botPosts' = DOMAIN botPosts,
           \A j \in DOMAIN botPosts : \/ botPosts'[j] = botPosts[j]
                                      \/ /\ botPosts[j].kind = "question"
                                         /\ botPosts'[j].kind = "question"
                                         /\ botPosts'[j].scope = botPosts[j].scope
                                         /\ botPosts'[j].data = botPosts[j].data,
           \A f \in flats' : \/ AsksAlike(f.msg, f.scope)
                             \/ \E g \in flats : g.msg = f.msg /\ g.scope = f.scope,
           UNCHANGED <<open, ended, closedBy>>
    PROVE  BotInv'
<1>1. \A f \in flats' : AsksAlike(f.msg, f.scope)
  BY DEF BotInv, FlatsAreAsked
<1>2. \A i, scope : AsksAlike(i, scope) => AsksAlike(i, scope)'
  BY DEF AsksAlike
<1>3. FlatsAreAsked'
  BY <1>1, <1>2 DEF BotInv, FlatsAreAsked
<1>4. NothingEndsTwice' BY DEF BotInv, NothingEndsTwice, Listed
<1> QED BY <1>3, <1>4 DEF BotInv

Joins(t, a, b) ==
    /\ t = a \o b /\ Len(t) = Len(a) + Len(b)
    /\ \A i \in 1..Len(a) : t[i] = a[i]
    /\ \A i \in 1..Len(b) : t[Len(a) + i] = b[i]
LEMMA JoinedSeqs ==
    ASSUME NEW S, NEW a \in Seq(S), NEW b \in Seq(S)
    PROVE  a \o b \in Seq(S) /\ Joins(a \o b, a, b)
BY DEF Joins

JoinsAround(t, a, c, b) ==
    /\ t = (a \o <<c>>) \o b
    /\ Len(t) = Len(a) + 1 + Len(b)
    /\ \A i \in 1..Len(a) : t[i] = a[i]
    /\ t[Len(a) + 1] = c
    /\ \A i \in 1..Len(b) : t[Len(a) + 1 + i] = b[i]

LEMMA JoinedAround ==
    ASSUME NEW S, NEW a \in Seq(S), NEW b \in Seq(S), NEW c \in S
    PROVE  \E t \in Seq(S) : JoinsAround(t, a, c, b)
<1>1. <<c>> \in Seq(S) /\ Len(<<c>>) = 1 /\ <<c>>[1] = c OBVIOUS
<1>2. PICK one \in Seq(S) : one = <<c>> BY <1>1
<1>3. PICK x \in Seq(S) : Joins(x, a, one) BY JoinedSeqs, Zenon
<1>4. PICK t \in Seq(S) : Joins(t, x, b) BY JoinedSeqs, Zenon
<1>5. Len(one) = 1 /\ one[1] = c BY <1>1, <1>2
<1>6. Len(a) \in Nat /\ Len(b) \in Nat OBVIOUS
<1>7. t = (a \o <<c>>) \o b BY <1>2, <1>3, <1>4, Zenon DEF Joins
<1>8. Len(x) = Len(a) + 1 /\ x[Len(a) + 1] = c BY <1>3, <1>5 DEF Joins
<1>9. /\ Len(t) = Len(a) + 1 + Len(b)
      /\ \A i \in 1..Len(a) : t[i] = a[i]
      /\ t[Len(a) + 1] = c
      /\ \A i \in 1..Len(b) : t[Len(a) + 1 + i] = b[i]
  <2>1. /\ Len(x) = Len(a) + Len(one) /\ Len(t) = Len(x) + Len(b)
        /\ \A i \in 1..Len(a) : x[i] = a[i]
        /\ \A i \in 1..Len(x) : t[i] = x[i]
        /\ \A i \in 1..Len(b) : t[Len(x) + i] = b[i]
    BY <1>3, <1>4, Zenon DEF Joins
  <2> QED BY <1>5, <1>6, <1>8, <2>1
<1> QED BY <1>7, <1>9 DEF JoinsAround

(* A cycle that is listed pushes the others back and none forward.         *)
LEMMA InsertedInPlace ==
    ASSUME NEW S, NEW s \in Seq(S), NEW c \in S, NEW k \in 1..(Len(s) + 1)
    PROVE  /\ Bot!InsertAt(s, k, c) \in Seq(S)
           /\ \A i \in DOMAIN Bot!InsertAt(s, k, c) :
                 \/ Bot!InsertAt(s, k, c)[i] = c
                 \/ \E j \in DOMAIN s : j <= i /\ Bot!InsertAt(s, k, c)[i] = s[j]
           /\ \A j \in DOMAIN s : \E i \in DOMAIN Bot!InsertAt(s, k, c) :
                 Bot!InsertAt(s, k, c)[i] = s[j]
           /\ \E i \in DOMAIN Bot!InsertAt(s, k, c) : Bot!InsertAt(s, k, c)[i] = c
<1> DEFINE a == SubSeq(s, 1, k - 1)
           b == SubSeq(s, k, Len(s))
           t == (a \o <<c>>) \o b
<1>1. /\ a \in Seq(S) /\ Len(a) = k - 1
      /\ \A i \in 1..(k - 1) : a[i] = s[i]
  OBVIOUS
<1>2. /\ b \in Seq(S) /\ Len(b) = Len(s) + 1 - k
      /\ \A i \in 1..(Len(s) + 1 - k) : b[i] = s[i + k - 1]
  OBVIOUS
<1>3. /\ t \in Seq(S) /\ Len(t) = Len(s) + 1
      /\ \A i \in 1..(k - 1) : t[i] = s[i]
      /\ t[k] = c
      /\ \A i \in (k + 1)..(Len(s) + 1) : t[i] = s[i - 1]
  <2> HIDE DEF a, b
  <2>1. PICK u \in Seq(S) : JoinsAround(u, a, c, b)
    BY <1>1, <1>2, JoinedAround, Zenon
  <2>2. u = t /\ u \in Seq(S) BY <2>1, Zenon DEF JoinsAround
  <2> HIDE DEF t
  <2>3. \A i \in (k + 1)..(Len(s) + 1) : b[i - k] = s[i - 1]
    <3> TAKE i \in (k + 1)..(Len(s) + 1)
    <3>1. i - k \in 1..(Len(s) + 1 - k) /\ (i - k) + k - 1 = i - 1 OBVIOUS
    <3> QED BY <1>2, <3>1
  <2>4. /\ Len(u) = Len(s) + 1 /\ u[k] = c
        /\ \A i \in 1..(k - 1) : u[i] = s[i]
        /\ \A i \in 1..(Len(s) + 1 - k) : u[k + i] = b[i]
    <3>1. /\ Len(u) = Len(a) + 1 + Len(b) /\ u[Len(a) + 1] = c
          /\ \A i \in 1..Len(a) : u[i] = a[i]
          /\ \A i \in 1..Len(b) : u[Len(a) + 1 + i] = b[i]
      BY <2>1, Zenon DEF JoinsAround
    <3> QED BY <1>1, <1>2, <3>1
  <2>5. \A i \in (k + 1)..(Len(s) + 1) : u[i] = s[i - 1]
    <3> TAKE i \in (k + 1)..(Len(s) + 1)
    <3>1. i - k \in 1..(Len(s) + 1 - k) /\ k + (i - k) = i OBVIOUS
    <3> QED BY <2>3, <2>4, <3>1
  <2> QED BY <2>2, <2>4, <2>5
<1>4. Bot!InsertAt(s, k, c) = t
  BY DEF Bot!InsertAt
<1> HIDE DEF t
<1> DOMAIN s = 1..Len(s) /\ DOMAIN t = 1..(Len(s) + 1) /\ Len(s) \in Nat BY <1>3
<1>5. \A i \in DOMAIN t : t[i] = c \/ \E j \in DOMAIN s : j <= i /\ t[i] = s[j]
  <2> TAKE i \in DOMAIN t
  <2>1. CASE i < k
    <3>1. i \in DOMAIN s /\ t[i] = s[i] BY <1>3, <2>1
    <3> QED BY <3>1
  <2>2. CASE i = k BY <1>3, <2>2
  <2>3. CASE i > k
    <3>1. i - 1 \in DOMAIN s /\ i - 1 <= i /\ t[i] = s[i - 1] BY <1>3, <2>3
    <3> QED BY <3>1
  <2> QED BY <1>3, <2>1, <2>2, <2>3
<1>6. \A j \in DOMAIN s : \E i \in DOMAIN t : t[i] = s[j]
  <2> TAKE j \in DOMAIN s
  <2>1. CASE j < k
    <3>1. j \in DOMAIN t /\ t[j] = s[j] BY <1>3, <2>1
    <3> QED BY <3>1
  <2>2. CASE j >= k
    <3>1. j + 1 \in DOMAIN t /\ t[j + 1] = s[j + 1 - 1] /\ j + 1 - 1 = j BY <1>3, <2>2
    <3> QED BY <3>1
  <2> QED BY <2>1, <2>2
<1>7. k \in DOMAIN t BY <1>3
<1> QED BY <1>3, <1>4, <1>5, <1>6, <1>7

LEMMA EndKeepsBot ==
    ASSUME BotAssumption, BotInv, NEW c \in open, Bot!Ends(c),
           UNCHANGED <<botPosts, flats, presses>>,
           FlatsAreAsked'
    PROVE  BotInv'
<1>1. PICK at \in 1..(Len(ended) + 1) : ended' = Bot!InsertAt(ended, at, c)
  BY DEF Bot!Ends
<1>2. ended \in Seq(AllCycles) /\ c \in AllCycles /\ c \notin Listed
  BY DEF BotInv, BotTypeOK, NothingEndsTwice
<1>3. /\ ended' \in Seq(AllCycles)
      /\ \A i \in DOMAIN ended' : \/ ended'[i] = c
                                  \/ \E j \in DOMAIN ended : j <= i /\ ended'[i] = ended[j]
      /\ Listed' = Listed \cup {c}
  <2>1. \A i \in DOMAIN ended' : \/ ended'[i] = c
                                 \/ \E j \in DOMAIN ended : j <= i /\ ended'[i] = ended[j]
    BY <1>1, <1>2, InsertedInPlace
  <2>2. /\ \A j \in DOMAIN ended : \E i \in DOMAIN ended' : ended'[i] = ended[j]
        /\ \E i \in DOMAIN ended' : ended'[i] = c /\ ended' \in Seq(AllCycles)
    BY <1>1, <1>2, InsertedInPlace
  <2>3. Listed' = Listed \cup {c}
    BY <2>1, <2>2 DEF Listed
  <2> QED BY <2>1, <2>2, <2>3
<1>4. \A m : m.began \subseteq Listed => Unseen(m)' \subseteq
                   {i \in DOMAIN ended' : \E j \in Unseen(m) : j <= i}
  BY <1>2, <1>3 DEF Unseen
<1>5. DOMAIN ended \subseteq Int /\ DOMAIN ended' \subseteq Int
  BY <1>2, <1>3
<1>6. ASSUME NEW m \in Pages, PageIsSound(m) PROVE PageIsSound(m)'
  <2>1. \A k \in Unseen(m)' : \E j \in Unseen(m) : j <= k /\ j \in Int /\ k \in Int
    BY <1>4, <1>5, <1>6 DEF PageIsSound, Unseen
  <2>2. m.offset \in Nat BY DEF Pages
  <2>3. ~m.raced => \A k \in Unseen(m)' : k > m.offset /\ (m.whole => k > m.offset + PerPage)
    BY <1>6, <2>1, <2>2 DEF PageIsSound, BotAssumption
  <2> QED BY <1>3, <1>6, <2>3 DEF PageIsSound, Bot!HasNext
<1>7. \A i \in DOMAIN botPosts : botPosts[i].kind = "page" => botPosts[i] \in Pages
  BY DEF BotInv, BotTypeOK, BotPosts, BotSays, Questions
<1>8. PagesAreSound'
  BY <1>6, <1>7 DEF BotInv, PagesAreSound
<1>9. reading' = {[r EXCEPT !.raced = TRUE] : r \in reading}
  BY DEF Bot!Ends
<1>10. \A q \in reading' : \E r \in reading :
          /\ q.msg = r.msg /\ q.offset = r.offset /\ q.raced = TRUE
          /\ q = [r EXCEPT !.raced = TRUE]
  BY <1>9 DEF BotInv, BotTypeOK
<1>11. ASSUME NEW r \in reading, NEW q \in reading', q.msg = r.msg, q.offset = r.offset, q.raced = TRUE
       PROVE  r.msg \in DOMAIN botPosts /\ ReadingIsSound(q, botPosts[r.msg])'
  <2>1. r.msg \in DOMAIN botPosts /\ ReadingIsSound(r, botPosts[r.msg])
    BY DEF BotInv, ReadingsAreSound
  <2>2. botPosts[r.msg].began \subseteq Listed
    BY <2>1 DEF BotInv, PagesAreSound, PageIsSound, ReadingIsSound
  <2>3. \A k \in Unseen(botPosts[r.msg])' : \E j \in Unseen(botPosts[r.msg]) :
            j <= k /\ j \in Int /\ k \in Int
    BY <1>4, <1>5, <2>2 DEF Unseen
  <2>4. r.offset \in Nat BY DEF BotInv, BotTypeOK
  <2> QED BY <1>11, <2>1, <2>3, <2>4 DEF ReadingIsSound, Unseen
<1>12. ReadingsAreSound'
  <2> SUFFICES ASSUME NEW q \in reading'
               PROVE  /\ q.msg \in DOMAIN botPosts /\ ReadingIsSound(q, botPosts[q.msg])'
                      /\ \A p \in reading' : p.msg = q.msg => p = q
    BY DEF ReadingsAreSound
  <2>1. PICK r \in reading : /\ q.msg = r.msg /\ q.offset = r.offset /\ q.raced = TRUE
                             /\ q = [r EXCEPT !.raced = TRUE]
    BY <1>10
  <2>2. q.msg \in DOMAIN botPosts /\ ReadingIsSound(q, botPosts[q.msg])'
    BY <1>11, <2>1
  <2>3. ASSUME NEW p \in reading', p.msg = q.msg PROVE p = q
    <3>1. PICK o \in reading : p.msg = o.msg /\ p = [o EXCEPT !.raced = TRUE]
      BY <1>10
    <3>2. o = r BY <2>1, <2>3, <3>1 DEF BotInv, ReadingsAreSound
    <3> QED BY <2>1, <3>1, <3>2
  <2> QED BY <2>2, <2>3
<1>13. BotTypeOK'
  BY <1>3, <1>9 DEF BotInv, BotTypeOK, Bot!Ends
<1>14. NothingEndsTwice'
  BY <1>3 DEF BotInv, NothingEndsTwice, Bot!Ends
<1> QED BY <1>8, <1>12, <1>13, <1>14 DEF BotInv

(* The steps of /flat, each with the question it answers.                  *)
LEMMA AskKeepsBot ==
    ASSUME BotAssumption, BotInv, NEW user, NEW argument \in Bot!Arguments,
           Bot!AskFlat(user, argument)
    PROVE  BotInv'
<1>1. UNCHANGED <<open, ended, flats, reading, closedBy, presses>>
  BY DEF Bot!AskFlat
<1>2. \A text \in Words : Bot!Answer(text) \in BotPosts /\ Bot!Answer(text).kind = "answer"
  BY DEF Bot!Answer, BotPosts, BotSays
<1>3. ASSUME NEW scope \in Bot!AsScope(argument) PROVE scope \in Extent
  <2>1. argument \in Symbols \cup Bot!Strategies => argument \in Seq(Fields)
    BY DEF BotAssumption, Fields
  <2> QED BY <2>1 DEF Bot!AsScope, Bot!KnownStrategies, Extent
<1>4. ASSUME NEW scope \in Extent
      PROVE  /\ Bot!Question(scope) \in BotPosts /\ Bot!Question(scope).kind = "question"
             /\ Bot!Question(scope).data = Bot!Encoded(Bot!Question(scope).scope)
  BY ButtonsCarryTheScope DEF Bot!Question, BotPosts, Questions, Words
<1>5. \E m \in BotPosts : /\ botPosts' = Append(botPosts, m)
                          /\ m.kind = "question" => m.data = Bot!Encoded(m.scope)
                          /\ m.kind # "page"
  <2>1. CASE \E text \in Words : Bot!Says(Bot!Answer(text))
    BY <1>2, <2>1 DEF Bot!Says
  <2>2. CASE \E scope \in Bot!AsScope(argument) : Bot!Says(Bot!Question(scope))
    BY <1>3, <1>4, <2>2 DEF Bot!Says
  <2> QED BY <2>1, <2>2 DEF Bot!AskFlat, Words
<1> QED BY <1>1, <1>5, SaidKeepsBot

LEMMA ConfirmKeepsBot ==
    ASSUME BotInv, NEW user, NEW i, Bot!ConfirmFlat(user, i)
    PROVE  BotInv'
<1> DEFINE f == [msg |-> i, press |-> presses, awaited |-> TRUE,
                 at |-> IF runner = "up" THEN "sent" ELSE "lost",
                 scope |-> Bot!ScopeFromCallback(botPosts[i].data)]
<1>1. /\ i \in DOMAIN botPosts /\ botPosts[i].kind = "question"
      /\ flats' = flats \cup {f} /\ presses' = presses + 1
      /\ UNCHANGED <<open, ended, botPosts, reading, closedBy>>
  BY DEF Bot!ConfirmFlat, Bot!Asked, Bot!Press
<1>2. botPosts[i] \in Questions
  BY <1>1 DEF BotInv, BotTypeOK, BotPosts, BotSays, Pages
<1>3. f.scope = botPosts[i].scope /\ f.scope \in Extent /\ f.msg = i
  BY <1>1, <1>2, ButtonsCarryTheScope DEF BotInv, FlatsAreAsked, Questions
<1>4. i \in Nat
  BY <1>1 DEF BotInv, BotTypeOK
<1>5. BotTypeOK'
  <2>1. f \in [msg : Nat, press : Nat, awaited : BOOLEAN, at : {"sent", "lost", "closing"},
               scope : Extent]
    BY <1>3, <1>4 DEF BotInv, BotTypeOK
  <2> HIDE DEF f
  <2> QED BY <1>1, <2>1 DEF BotInv, BotTypeOK
<1>6. AsksAlike(f.msg, f.scope)
  BY <1>1, <1>3 DEF AsksAlike
<1>7. PagesAreSound' /\ ReadingsAreSound'
  BY <1>1 DEF BotInv, PagesAreSound, ReadingsAreSound, PageIsSound, ReadingIsSound, Listed,
     Unseen, Bot!HasNext
<1> HIDE DEF f
<1> QED BY <1>1, <1>5, <1>6, <1>7, FlatsKeepBot

LEMMA CancelKeepsBot ==
    ASSUME BotInv, NEW user, NEW i, Bot!CancelFlat(user, i)
    PROVE  BotInv'
<1>1. /\ i \in DOMAIN botPosts /\ botPosts[i].kind = "question" /\ Bot!Edits(i, "cancelled")
      /\ presses' = presses + 1 /\ "cancelled" \in Words
      /\ UNCHANGED <<open, ended, flats, reading, closedBy>>
  BY DEF Bot!CancelFlat, Bot!Asked, Bot!Press, Words
<1>2. BotTypeOK'
  BY <1>1, EditKeepsBotPosts DEF BotInv, BotTypeOK
<1> QED BY <1>1, <1>2, EditKeepsBotPosts, FlatsKeepBot

LEMMA TakeKeepsBot ==
    ASSUME BotInv, NEW f \in flats, Bot!TakeFlat(f)
    PROVE  BotInv'
<1> DEFINE g == [f EXCEPT !.at = "closing"]
<1>1. /\ flats' = (flats \ {f}) \cup {g}
      /\ UNCHANGED <<open, ended, botPosts, reading, closedBy, presses>>
  BY DEF Bot!TakeFlat
<1>2. /\ g \in [msg : Nat, press : Nat, awaited : BOOLEAN, at : {"sent", "lost", "closing"},
                scope : Extent]
      /\ g.msg = f.msg /\ g.scope = f.scope
  BY DEF BotInv, BotTypeOK
<1> HIDE DEF g
<1>3. BotTypeOK' BY <1>1, <1>2 DEF BotInv, BotTypeOK
<1>4. PagesAreSound' /\ ReadingsAreSound'
  BY <1>1 DEF BotInv, PagesAreSound, ReadingsAreSound, PageIsSound, ReadingIsSound, Listed,
     Unseen, Bot!HasNext
<1> QED BY <1>1, <1>2, <1>3, <1>4, FlatsKeepBot

LEMMA ReplyKeepsBot ==
    ASSUME BotInv, NEW f \in flats, Bot!ReplyFlat(f)
    PROVE  BotInv'
<1>1. flats' = flats \ {f} /\ UNCHANGED <<open, ended, reading, closedBy, presses>>
  BY DEF Bot!ReplyFlat
<1>2. f.msg \in DOMAIN botPosts /\ botPosts[f.msg].kind = "question" /\ "result" \in Words
  BY DEF BotInv, FlatsAreAsked, AsksAlike, Words
<1>3. CASE Bot!Edits(f.msg, "result")
  <2>1. BotTypeOK' BY <1>1, <1>2, <1>3, EditKeepsBotPosts DEF BotInv, BotTypeOK
  <2> QED BY <1>1, <1>2, <1>3, <2>1, EditKeepsBotPosts, FlatsKeepBot
<1>4. CASE UNCHANGED botPosts
  <2>1. BotTypeOK' BY <1>1, <1>4 DEF BotInv, BotTypeOK
  <2>2. PagesAreSound' /\ ReadingsAreSound'
    BY <1>1, <1>4 DEF BotInv, PagesAreSound, ReadingsAreSound, PageIsSound, ReadingIsSound,
       Listed, Unseen, Bot!HasNext
  <2> QED BY <1>1, <1>4, <2>1, <2>2, FlatsKeepBot
<1> QED BY <1>3, <1>4 DEF Bot!ReplyFlat

LEMMA UnansweredKeepsBot ==
    ASSUME BotInv, NEW f \in flats, Bot!Unanswered(f)
    PROVE  BotInv'
<1> DEFINE g == [f EXCEPT !.awaited = FALSE]
<1>1. /\ flats' \subseteq flats \cup {g} /\ Bot!Edits(f.msg, "no runner")
      /\ UNCHANGED <<open, ended, reading, closedBy, presses>>
  BY DEF Bot!Unanswered
<1>2. f.msg \in DOMAIN botPosts /\ botPosts[f.msg].kind = "question" /\ "no runner" \in Words
  BY DEF BotInv, FlatsAreAsked, AsksAlike, Words
<1>3. /\ g \in [msg : Nat, press : Nat, awaited : BOOLEAN, at : {"sent", "lost", "closing"},
                scope : Extent]
      /\ g.msg = f.msg /\ g.scope = f.scope
  BY DEF BotInv, BotTypeOK
<1> HIDE DEF g
<1>4. BotTypeOK' BY <1>1, <1>2, <1>3, EditKeepsBotPosts DEF BotInv, BotTypeOK
<1>5. \A h \in flats' : \E e \in flats : e.msg = h.msg /\ e.scope = h.scope
  BY <1>1, <1>3
<1> QED BY <1>1, <1>2, <1>4, <1>5, EditKeepsBotPosts, FlatsKeepBot

LEMMA RunnerStopKeepsBot ==
    ASSUME BotInv, Bot!RunnerStops
    PROVE  BotInv'
<1>1. UNCHANGED <<open, ended, botPosts, reading, closedBy, presses>>
  BY DEF Bot!RunnerStops
<1>2. \A h \in flats' : \E f \in flats :
          /\ h \in [msg : Nat, press : Nat, awaited : BOOLEAN, at : {"sent", "lost", "closing"},
                    scope : Extent]
          /\ f.msg = h.msg /\ f.scope = h.scope
  BY DEF Bot!RunnerStops, BotInv, BotTypeOK
<1>3. BotTypeOK' BY <1>1, <1>2 DEF BotInv, BotTypeOK
<1>4. PagesAreSound' /\ ReadingsAreSound'
  BY <1>1 DEF BotInv, PagesAreSound, ReadingsAreSound, PageIsSound, ReadingIsSound, Listed,
     Unseen, Bot!HasNext
<1> QED BY <1>1, <1>2, <1>3, <1>4, FlatsKeepBot

LEMMA CloseKeepsBot ==
    ASSUME BotAssumption, BotInv, NEW f \in flats, NEW c \in open, Bot!CloseCycle(f, c)
    PROVE  BotInv'
<1>1. /\ Bot!Ends(c) /\ Bot!Matches(c, f.scope)
      /\ closedBy' = [d \in DOMAIN closedBy \cup {c} |-> IF d = c THEN f.msg ELSE closedBy[d]]
      /\ UNCHANGED <<botPosts, flats, presses>>
  BY DEF Bot!CloseCycle
<1>2. f.scope \in Extent /\ AsksAlike(f.msg, f.scope)
  BY DEF BotInv, BotTypeOK, FlatsAreAsked
<1>3. \A d \in DOMAIN closedBy' : \E scope \in Extent :
          AsksAlike(closedBy'[d], scope) /\ Bot!Matches(d, scope)
  BY <1>1, <1>2 DEF BotInv, FlatsAreAsked
<1>4. FlatsAreAsked'
  BY <1>1, <1>3 DEF BotInv, FlatsAreAsked, AsksAlike, Bot!Matches
<1> QED BY <1>1, <1>4, EndKeepsBot

(* The steps of /closed.                                                   *)
LEMMA CountKeepsBot ==
    ASSUME BotAssumption, BotInv, NEW user, NEW i \in DOMAIN botPosts,
           botPosts[i].kind = "page", \A r \in reading : r.msg # i,
           NEW offset \in Bot!Buttons(botPosts[i]), Bot!CountClosed(user, i, offset),
           presses' = presses + 1
    PROVE  BotInv'
<1> DEFINE m == botPosts[i]
           r == [msg |-> i, press |-> presses, offset |-> offset, total |-> Len(ended),
                 raced |-> FALSE]
<1>1. i \in Nat \ {0} /\ m \in Pages /\ PageIsSound(m)
  BY DEF BotInv, BotTypeOK, PagesAreSound, BotPosts, BotSays, Questions
<1>2. /\ reading' = reading \cup {r}
      /\ UNCHANGED <<open, ended, botPosts, flats, closedBy>>
  BY <1>1 DEF Bot!CountClosed
<1>3. /\ m.offset \in Nat /\ m.total \in Nat /\ PerPage \in Nat \ {0} /\ offset \in Nat
      /\ \/ m.offset > 0 /\ offset < m.offset
         \/ m.offset + PerPage < m.total /\ offset = m.offset + PerPage
  BY <1>1 DEF Pages, BotAssumption, Bot!Buttons, Bot!HasNext
<1>4. \A k \in Unseen(m) : k \in Int
  BY DEF Unseen, BotInv, BotTypeOK
<1>5. ReadingIsSound(r, m)
  <2>1. ~m.raced /\ m.seen = {} => offset = 0
    BY <1>1, <1>3 DEF PageIsSound
  <2>2. ~m.raced => \A k \in Unseen(m) : k > offset
    BY <1>1, <1>3, <1>4 DEF PageIsSound
  <2> QED BY <2>1, <2>2 DEF ReadingIsSound
<1>6. ReadingsAreSound'
  <2>1. r.msg = i OBVIOUS
  <2> HIDE DEF r
  <2> QED BY <1>2, <1>5, <2>1 DEF BotInv, ReadingsAreSound, ReadingIsSound, Unseen
<1>7. BotTypeOK'
  <2>1. r \in [msg : Nat, press : Nat, offset : Nat, total : Nat, raced : BOOLEAN]
    BY <1>1, <1>3 DEF BotInv, BotTypeOK
  <2> HIDE DEF r
  <2> QED BY <1>2, <2>1 DEF BotInv, BotTypeOK
<1> QED
  BY <1>2, <1>6, <1>7 DEF BotInv, FlatsAreAsked, AsksAlike, NothingEndsTwice, Listed,
     PagesAreSound, PageIsSound, Unseen, Bot!HasNext

LEMMA ShowClosedKeepsBot ==
    ASSUME BotAssumption, BotInv, NEW user, Bot!ShowClosed(user)
    PROVE  BotInv'
<1> DEFINE n == Len(botPosts) + 1
           r == [msg |-> n, press |-> presses, offset |-> 0, total |-> Len(ended),
                 raced |-> FALSE]
<1>1. /\ botPosts' = Append(botPosts, Bot!NoPage)
      /\ UNCHANGED <<open, ended, flats, closedBy, presses>>
  BY DEF Bot!ShowClosed, Bot!CountClosed, Bot!Says
<1>2. Bot!NoPage \in Pages /\ PageIsSound(Bot!NoPage)
  BY DEF Bot!NoPage, Pages, PageIsSound, Unseen, Bot!HasNext, BotAssumption
<1>3. /\ botPosts' \in Seq(BotPosts) /\ DOMAIN botPosts' = DOMAIN botPosts \cup {n}
      /\ botPosts'[n] = Bot!NoPage /\ n \in Nat /\ n \notin DOMAIN botPosts
      /\ \A j \in DOMAIN botPosts : botPosts'[j] = botPosts[j]
  BY <1>1, <1>2 DEF BotInv, BotTypeOK, BotPosts
<1>4. reading' = reading \cup {r}
  BY <1>1, <1>3 DEF Bot!ShowClosed, Bot!CountClosed, BotInv, BotTypeOK
<1>5. ReadingIsSound(r, Bot!NoPage)
  BY DEF ReadingIsSound, Bot!NoPage, Unseen
<1>6. r \in [msg : Nat, press : Nat, offset : Nat, total : Nat, raced : BOOLEAN] /\ r.msg = n
  BY <1>3 DEF BotInv, BotTypeOK
<1> HIDE DEF r
<1>7. BotTypeOK' BY <1>1, <1>3, <1>4, <1>6 DEF BotInv, BotTypeOK
<1>8. FlatsAreAsked'
  BY <1>1, <1>3 DEF BotInv, FlatsAreAsked, AsksAlike, Bot!NoPage
<1>9. NothingEndsTwice' BY <1>1 DEF BotInv, NothingEndsTwice, Listed
<1>10. PagesAreSound'
  BY <1>1, <1>2, <1>3 DEF BotInv, PagesAreSound, PageIsSound, Listed, Unseen, Bot!HasNext
<1>11. ReadingsAreSound'
  BY <1>1, <1>3, <1>4, <1>5, <1>6 DEF BotInv, ReadingsAreSound, ReadingIsSound, Unseen
<1> QED BY <1>7, <1>8, <1>9, <1>10, <1>11 DEF BotInv

(* A page is replaced: by what the select gave, or by nothing.             *)
LEMMA ShownKeepsBot ==
    ASSUME BotInv, NEW r \in reading, NEW m \in Pages, PageIsSound(m),
           botPosts' = [botPosts EXCEPT ![r.msg] = m], reading' = reading \ {r},
           UNCHANGED <<open, ended, flats, closedBy, presses>>
    PROVE  BotInv'
<1>1. r.msg \in DOMAIN botPosts /\ botPosts[r.msg].kind = "page" /\ m.kind = "page"
  BY DEF BotInv, ReadingsAreSound, ReadingIsSound, Pages
<1>2. /\ botPosts' \in Seq(BotPosts) /\ DOMAIN botPosts' = DOMAIN botPosts
      /\ botPosts'[r.msg] = m
      /\ \A j \in DOMAIN botPosts \ {r.msg} : botPosts'[j] = botPosts[j]
  BY <1>1 DEF BotInv, BotTypeOK, BotPosts
<1>3. BotTypeOK' BY <1>2 DEF BotInv, BotTypeOK
<1>4. FlatsAreAsked' BY <1>1, <1>2 DEF BotInv, FlatsAreAsked, AsksAlike
<1>5. NothingEndsTwice' BY DEF BotInv, NothingEndsTwice, Listed
<1>6. PagesAreSound'
  BY <1>2 DEF BotInv, PagesAreSound, PageIsSound, Listed, Unseen, Bot!HasNext
<1>7. ReadingsAreSound'
  BY <1>2 DEF BotInv, ReadingsAreSound, ReadingIsSound, Unseen
<1> QED BY <1>3, <1>4, <1>5, <1>6, <1>7 DEF BotInv

LEMMA ShowPageKeepsBot ==
    ASSUME BotAssumption, BotInv, NEW r \in reading, Bot!ShowPage(r)
    PROVE  BotInv'
<1> DEFINE before == botPosts[r.msg]
           began == IF before.seen = {} THEN Listed ELSE before.began
           shown == [kind |-> "page", offset |-> r.offset, total |-> r.total, whole |-> TRUE,
                     began |-> began, seen |-> before.seen \cup Bot!RowsAt(r.offset),
                     raced |-> before.raced \/ r.raced]
           failed == [[[before EXCEPT !.offset = r.offset] EXCEPT !.total = 0] EXCEPT !.whole = FALSE]
<1>1. /\ r.msg \in DOMAIN botPosts /\ before \in Pages /\ PageIsSound(before)
      /\ ReadingIsSound(r, before)
  BY DEF BotInv, BotTypeOK, ReadingsAreSound, ReadingIsSound, PagesAreSound, BotPosts, BotSays,
     Questions
<1>2. /\ reading' = reading \ {r} /\ UNCHANGED <<open, ended, flats, closedBy, presses>>
      /\ \/ botPosts' = [botPosts EXCEPT ![r.msg] = shown]
         \/ botPosts' = [botPosts EXCEPT ![r.msg] = failed]
  <2>1. Bot!Range(ended) = Listed
    BY DEF Bot!Range, Listed
  <2>2. CASE botPosts' = [botPosts EXCEPT ![r.msg].offset = r.offset, ![r.msg].total = 0,
                                           ![r.msg].whole = FALSE]
    BY <1>1, <2>2 DEF Bot!ShowPage
  <2> QED BY <2>1, <2>2 DEF Bot!ShowPage
<1>3. /\ r.offset \in Nat /\ r.total \in Nat /\ r.raced \in BOOLEAN /\ PerPage \in Nat \ {0}
      /\ ended \in Seq(AllCycles) /\ Listed \subseteq AllCycles
      /\ DOMAIN ended = 1..Len(ended) /\ Len(ended) \in Nat
  BY DEF BotInv, BotTypeOK, Listed, BotAssumption
<1>4. Bot!RowsAt(r.offset) = {ended[k] : k \in (r.offset + 1)..(r.offset + PerPage) \cap DOMAIN ended}
  BY DEF Bot!RowsAt
<1>5. shown \in Pages /\ PageIsSound(shown)
  <2>1. shown \in Pages
    BY <1>1, <1>3, <1>4 DEF Pages
  <2>2. began \subseteq Listed
    BY <1>1 DEF PageIsSound
  <2>3. ASSUME ~shown.raced, NEW k \in Unseen(shown) PROVE k > r.offset + PerPage
    <3>1. /\ ~before.raced /\ k \in 1..Len(ended) /\ ended[k] \in began
          /\ ended[k] \notin before.seen /\ ended[k] \notin Bot!RowsAt(r.offset)
      BY <1>3, <2>3 DEF Unseen
    <3>2. k > r.offset
      BY <1>1, <1>3, <3>1 DEF ReadingIsSound, Unseen
    <3> QED BY <1>3, <1>4, <3>1, <3>2
  <2>4. ASSUME ~shown.raced, ~Bot!HasNext(shown) PROVE shown.began \subseteq shown.seen
    <3>1. ~r.raced /\ r.total = Len(ended) BY <1>1, <1>3, <2>4 DEF ReadingIsSound
    <3>2. r.offset + PerPage >= Len(ended) BY <1>3, <2>4, <3>1 DEF Bot!HasNext
    <3>3. Unseen(shown) = {} BY <1>3, <2>3, <2>4, <3>2 DEF Unseen
    <3> QED BY <2>2, <3>3 DEF Unseen, Listed
  <2>5. ASSUME ~shown.raced, shown.seen = {} PROVE shown.offset = 0 /\ shown.total = 0
    <3>1. r.offset = 0 /\ ~r.raced /\ r.total = Len(ended)
      BY <1>1, <1>3, <2>5 DEF ReadingIsSound
    <3>2. 1 \notin DOMAIN ended
      <4>1. Bot!RowsAt(r.offset) = {} BY <2>5
      <4>2. 1 \in (r.offset + 1)..(r.offset + PerPage) BY <1>3, <3>1
      <4> QED BY <1>4, <4>1, <4>2
    <3>3. Len(ended) = 0 BY <1>3, <3>2
    <3>4. shown.offset = r.offset /\ shown.total = r.total OBVIOUS
    <3> QED BY <3>1, <3>3, <3>4
  <2>6. ~shown.raced => \A k \in Unseen(shown) : k > r.offset /\ k > r.offset + PerPage
    <3>1. ASSUME NEW k \in Unseen(shown), ~shown.raced
          PROVE  k > r.offset /\ k > r.offset + PerPage
      <4>1. k \in Int BY <1>3, <3>1 DEF Unseen
      <4>2. k > r.offset + PerPage BY <2>3, <3>1
      <4> QED BY <1>3, <4>1, <4>2
    <3> QED BY <3>1
  <2>7. shown.began = began /\ shown.whole = TRUE /\ shown.offset = r.offset
    OBVIOUS
  <2> HIDE DEF shown, began
  <2> QED BY <2>1, <2>2, <2>4, <2>5, <2>6, <2>7 DEF PageIsSound
<1>6. failed \in Pages /\ PageIsSound(failed)
  <2>1. /\ failed \in Pages /\ failed.offset = r.offset /\ failed.total = 0
        /\ failed.whole = FALSE /\ failed.began = before.began /\ failed.seen = before.seen
        /\ failed.raced = before.raced
    BY <1>1, <1>3 DEF Pages
  <2> HIDE DEF failed
  <2> QED BY <1>1, <2>1 DEF PageIsSound, ReadingIsSound, Unseen
<1> HIDE DEF shown, failed
<1> QED BY <1>2, <1>5, <1>6, ShownKeepsBot

LEMMA RequestKeepsBot ==
    ASSUME BotInv, NEW user, NEW argument, NEW verb, Bot!RequestWindows(user, argument, verb)
    PROVE  BotInv'
<1>1. \A text \in Words : Bot!Answer(text) \in BotPosts /\ Bot!Answer(text).kind = "answer"
  BY DEF Bot!Answer, BotPosts, BotSays
<1>2. PICK text \in Words : botPosts' = Append(botPosts, Bot!Answer(text))
  BY DEF Bot!RequestWindows, Bot!Says, Words
<1>3. UNCHANGED <<open, ended, flats, reading, closedBy, presses>>
  BY DEF Bot!RequestWindows
<1> QED BY <1>1, <1>2, <1>3, SaidKeepsBot

LEMMA BotStep == BotAssumption /\ BotInv /\ [Bot!Next]_(Bot!botVars) => BotInv'
<1> SUFFICES ASSUME BotAssumption, BotInv, [Bot!Next]_(Bot!botVars) PROVE BotInv'
  OBVIOUS
<1>1. ASSUME NEW user \in Users, NEW argument \in Bot!Arguments, Bot!AskFlat(user, argument)
      PROVE  BotInv'
  BY <1>1, AskKeepsBot
<1>2. ASSUME NEW user \in Users, NEW argument \in Bot!Arguments, NEW verb \in {"warmup", "flush"},
             Bot!RequestWindows(user, argument, verb)
      PROVE  BotInv'
  BY <1>2, RequestKeepsBot
<1>3. ASSUME NEW user \in Users, Bot!ShowClosed(user) PROVE BotInv'
  BY <1>3, ShowClosedKeepsBot
<1>4. ASSUME NEW user \in Users, NEW i \in DOMAIN botPosts,
             Bot!ConfirmFlat(user, i) \/ Bot!CancelFlat(user, i) \/ Bot!PageClosed(user, i)
      PROVE  BotInv'
  <2>1. CASE Bot!PageClosed(user, i)
    BY <2>1, CountKeepsBot DEF Bot!PageClosed, Bot!Press
  <2> QED BY <1>4, <2>1, ConfirmKeepsBot, CancelKeepsBot
<1>5. ASSUME NEW f \in flats, \/ Bot!TakeFlat(f) \/ Bot!ReplyFlat(f) \/ Bot!Unanswered(f)
                              \/ \E c \in open : Bot!CloseCycle(f, c)
      PROVE  BotInv'
  BY <1>5, TakeKeepsBot, ReplyKeepsBot, UnansweredKeepsBot, CloseKeepsBot
<1>6. ASSUME NEW r \in reading, Bot!ShowPage(r) PROVE BotInv'
  BY <1>6, ShowPageKeepsBot
<1>7. ASSUME NEW c \in open, Bot!CycleEnds(c) PROVE BotInv'
  <2>1. Bot!Ends(c) /\ UNCHANGED <<botPosts, flats, closedBy, presses>>
    BY <1>7 DEF Bot!CycleEnds
  <2>2. FlatsAreAsked'
    BY <2>1 DEF BotInv, FlatsAreAsked, AsksAlike
  <2> QED BY <2>1, <2>2, EndKeepsBot
<1>8. CASE Bot!RunnerStops
  BY <1>8, RunnerStopKeepsBot
<1>9. CASE UNCHANGED <<open, ended, botPosts, flats, reading, closedBy, presses>>
  BY <1>9 DEF BotInv, BotTypeOK, FlatsAreAsked, AsksAlike, NothingEndsTwice, Listed,
     PagesAreSound, PageIsSound, Unseen, Bot!HasNext, ReadingsAreSound, ReadingIsSound
<1>10. CASE Bot!RunnerStarts \/ UNCHANGED Bot!botVars \/ \E c \in open : Bot!PairChanges(c)
  BY <1>9, <1>10 DEF Bot!RunnerStarts, Bot!botVars, Bot!PairChanges
<1> QED
  BY <1>1, <1>2, <1>3, <1>4, <1>5, <1>6, <1>7, <1>8, <1>10 DEF Bot!Next

(* A cycle an operator closed is one of the scope that the question he     *)
(* answered names, whenever, however often and by whomever it was answered *)
(* (handlers.py ask_flat, confirm_flat).                                   *)
THEOREM FlatsCloseWhatWasAsked == BotAssumption => (Bot!Spec => []Bot!FlatIsWhatWasAsked)
<1> SUFFICES ASSUME BotAssumption PROVE Bot!Spec => []Bot!FlatIsWhatWasAsked
  OBVIOUS
<1>1. BotInv => Bot!FlatIsWhatWasAsked
  BY DEF BotInv, FlatsAreAsked, AsksAlike, Bot!FlatIsWhatWasAsked
<1> QED BY <1>1, BotStart, BotStep, PTL DEF Bot!Spec

(* Who pages through /closed to its end has seen every cycle that had      *)
(* ended when he began, unless one ended between the count and the select  *)
(* of one page, for any size of the pages, with pages that fail on the way *)
(* (repository.py closed_cycles, pagination.py pagination_row).            *)
THEOREM PagesShowAll == BotAssumption => (Bot!Spec => []Bot!PagesMissNothing)
<1> SUFFICES ASSUME BotAssumption PROVE Bot!Spec => []Bot!PagesMissNothing
  OBVIOUS
<1>1. BotInv => Bot!PagesMissNothing
  BY DEF BotInv, PagesAreSound, PageIsSound, Bot!PagesMissNothing
<1> QED BY <1>1, BotStart, BotStep, PTL DEF Bot!Spec

==============================================================================
