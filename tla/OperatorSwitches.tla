--------------------------- MODULE OperatorSwitches ---------------------------
(***************************************************************************)
(* The two switches an operator has on a running engine: the shadow mode,  *)
(* which pauses live delivery (qte-control), and the bar gate, which stops *)
(* deciding on closed bars (/prevent and /allow of the Telegram bot).      *)
(* Both are stored in Redis first and announced over NATS second; the      *)
(* runner reads the stored value before it acts, whatever it was told.     *)
(*                                                                         *)
(* A read of the runner is two steps: Redis answers, and the answer is     *)
(* taken.  Between the two anything may happen, and answers of different   *)
(* coroutines may be taken in another order than they were given.          *)
(***************************************************************************)
EXTENDS Naturals, FiniteSets

CONSTANTS
    Pairs,              \* the slots of the runner
    Names,              \* symbols and strategies that the gate may name
    NamesOf,            \* each pair's symbol and strategy
    Chats,              \* bot commands that may be handled at once
    Configured,         \* ALGO_BROKER__SHADOW_MODE
    MaxGateCommands,    \* bound: /prevent and /allow
    MaxModeCommands,    \* bound: qte-control shadow
    MaxBars,            \* bound: bars and recoveries begun
    MaxStarts,          \* bound: starts of the runner
    ReadsMayFail        \* the reads of Redis may fail

ASSUME OperatorSwitchesAssumption ==
    /\ NamesOf \in [Pairs -> SUBSET Names]
    /\ Configured \in BOOLEAN
    /\ MaxGateCommands \in Nat /\ MaxModeCommands \in Nat
    /\ MaxBars \in Nat /\ MaxStarts \in Nat
    /\ ReadsMayFail \in BOOLEAN

All == "all"
Scopes == Names \cup {All}
Gates == [everything : BOOLEAN, names : SUBSET Names]
EmptyGate == [everything |-> FALSE, names |-> {}]
Modes == {"on", "off"}
Stops == {"unset"} \cup Modes

IdleChat == [pc |-> "idle", blocking |-> FALSE, scope |-> All, gate |-> EmptyGate]
IdleTask == [pc |-> "idle", reply |-> "none", gate |-> EmptyGate]

VARIABLES
    storedMode, storedGate,     \* the two flags in Redis
    chats,                      \* the bot's commands
    bus,                        \* announcements on their way
    up,                         \* the runner runs
    sinkMode,                   \* sink.shadow_mode: "on" is paused
    runnerGate,                 \* _bar_gate
    tasks,                      \* the coroutine of each slot
    control,                    \* the control handler and the answer it waits for
    sync,                       \* the answer the history loop waits for
    gateCommands, modeCommands, bars, starts,   \* for the bounds
    paused, gated,              \* for the properties: pairs whose work began in a pause that still holds
    since,                      \* ... pairs gated since before the runner's start
    blind                       \* ... no read of the gate has succeeded since the runner's start

vars == <<storedMode, storedGate, chats, bus, up, sinkMode, runnerGate, tasks, control, sync,
          gateCommands, modeCommands, bars, starts, paused, gated, since, blind>>
redis == <<storedMode, storedGate>>
operator == <<chats, gateCommands, modeCommands>>
held == <<paused, gated, since, blind>>

Prevented(g, scope) == IF scope = All THEN [g EXCEPT !.everything = TRUE]
                                      ELSE [g EXCEPT !.names = @ \cup {scope}]
Allowed(g, scope) == IF scope = All THEN EmptyGate
                                    ELSE [g EXCEPT !.names = @ \ {scope}]
Blocks(g, p) == g.everything \/ g.names \cap NamesOf[p] # {}
Blocked(g) == {p \in Pairs : Blocks(g, p)}

\* the mode that a stored flag stands for
Effective(stored) == IF stored = "unset" THEN (IF Configured THEN "on" ELSE "off") ELSE stored

Init ==
    /\ storedMode = "unset" /\ storedGate = EmptyGate
    /\ chats = [c \in Chats |-> IdleChat]
    /\ bus = {}
    /\ up = FALSE
    /\ sinkMode = Effective("unset")
    /\ runnerGate = EmptyGate
    /\ tasks = [p \in Pairs |-> IdleTask]
    /\ control = [pc |-> "idle", reply |-> "none", gate |-> EmptyGate]
    /\ sync = "none"
    /\ gateCommands = 0 /\ modeCommands = 0 /\ bars = 0 /\ starts = 0
    /\ paused = {} /\ gated = {} /\ since = {} /\ blind = FALSE

-----------------------------------------------------------------------------
(* The operator                                                            *)

(* qte-control shadow on | off: stored, then broadcast. *)
SetShadowMode(m) ==
    /\ modeCommands < MaxModeCommands
    /\ modeCommands' = modeCommands + 1
    /\ storedMode' = m
    /\ paused' = IF m = "on" THEN paused ELSE {}
    /\ bus' \in {bus, bus \cup {"mode"}}
    /\ UNCHANGED <<storedGate, chats, gateCommands, up, sinkMode, runnerGate, tasks,
                   control, sync, bars, starts, gated, since, blind>>

(* change_gate begins with the stored gate; one that cannot be read is an empty one. *)
ReadGate(c) ==
    /\ chats[c].pc = "idle"
    /\ gateCommands < MaxGateCommands
    /\ gateCommands' = gateCommands + 1
    /\ \E blocking \in BOOLEAN, scope \in Scopes, failed \in {FALSE, ReadsMayFail} :
          chats' = [chats EXCEPT ![c] =
              [pc |-> "write", blocking |-> blocking, scope |-> scope,
               gate |-> IF failed THEN EmptyGate ELSE storedGate]]
    /\ UNCHANGED <<redis, bus, up, sinkMode, runnerGate, tasks, control, sync, modeCommands,
                   bars, starts, held>>

Change(g, blocking, scope) == IF blocking THEN Prevented(g, scope) ELSE Allowed(g, scope)

(* ... and stores it with the scope put in or taken out. *)
WriteGate(c) ==
    LET new == Change(chats[c].gate, chats[c].blocking, chats[c].scope)
    IN /\ chats[c].pc = "write"
       /\ storedGate' = new
       /\ gated' = gated \cap Blocked(new)
       /\ since' = since \cap Blocked(new)
       /\ chats' = [chats EXCEPT ![c] = IdleChat]
       /\ bus' \in {bus, bus \cup {"gate"}}
       /\ UNCHANGED <<storedMode, up, sinkMode, runnerGate, tasks, control, sync,
                      gateCommands, modeCommands, bars, starts, paused, blind>>

(* Nothing is stored: the command is answered with that. *)
WriteFails(c) ==
    /\ chats[c].pc = "write"
    /\ chats' = [chats EXCEPT ![c] = IdleChat]
    /\ UNCHANGED <<redis, bus, up, sinkMode, runnerGate, tasks, control, sync, gateCommands,
                   modeCommands, bars, starts, held>>

-----------------------------------------------------------------------------
(* The runner: a start, a stop, and its two reads                          *)

(* start reads both flags; a mode that cannot be read refuses the start, a gate that
   cannot be read leaves the new process with an empty one. *)
Start ==
    /\ ~up /\ starts < MaxStarts
    /\ starts' = starts + 1
    /\ up' = TRUE
    /\ sinkMode' = Effective(storedMode)
    /\ blind' \in {FALSE, ReadsMayFail}
    /\ runnerGate' = IF blind' THEN EmptyGate ELSE storedGate
    /\ since' = Blocked(storedGate)
    /\ UNCHANGED <<redis, operator, bus, tasks, control, sync, bars, paused, gated>>

Crash ==
    /\ up
    /\ up' = FALSE
    /\ sinkMode' = Effective("unset") /\ runnerGate' = EmptyGate
    /\ tasks' = [p \in Pairs |-> IdleTask]
    /\ control' = [pc |-> "idle", reply |-> "none", gate |-> EmptyGate]
    /\ sync' = "none"
    /\ paused' = {} /\ gated' = {} /\ since' = {} /\ blind' = FALSE
    /\ UNCHANGED <<redis, operator, bus, bars, starts>>

Answers(stored) == {Effective(stored)} \cup (IF ReadsMayFail THEN {"failed"} ELSE {})

\* _refresh_shadow_mode: an unreadable mode is a pause
ModeAfter(reply) == IF reply = "failed" THEN "on" ELSE reply

\* _refresh_bar_gate: an unreadable gate is the last one known
BugOpensUnread(reply, gate) == IF reply = "failed" THEN EmptyGate ELSE gate
GateAfter(reply, gate) == IF reply = "failed" THEN runnerGate ELSE gate

-----------------------------------------------------------------------------
(* A slot: a bar, its gate, and the four reads of the mode up to the send  *)

Reading == {"gate", "pause", "emit", "stage", "mark"}
After(pc) == CASE pc = "gate" -> "pause" [] pc = "pause" -> "emit" [] pc = "emit" -> "stage"
               [] pc = "stage" -> "mark" [] pc = "mark" -> "sent"

\* work begins at a bar, or at a row the recovery takes up
Begins(p, pc) ==
    /\ up /\ tasks[p].pc = "idle" /\ bars < MaxBars
    /\ bars' = bars + 1
    /\ tasks' = [tasks EXCEPT ![p].pc = pc]
    /\ paused' = IF Effective(storedMode) = "on" THEN paused \cup {p} ELSE paused \ {p}
    /\ gated' = IF Blocks(storedGate, p) THEN gated \cup {p} ELSE gated \ {p}
    /\ UNCHANGED <<redis, operator, bus, up, sinkMode, runnerGate, control, sync, starts, since,
                   blind>>

BarCloses(p) == Begins(p, "gate")
RecoveryBegins(p) == Begins(p, "stage")

(* Redis answers the read of a slot. *)
Answered(p) ==
    /\ tasks[p].pc \in Reading /\ tasks[p].reply = "none"
    /\ \/ /\ tasks[p].pc = "gate"
          /\ \E failed \in {FALSE, ReadsMayFail} :
                tasks' = [tasks EXCEPT ![p].reply = IF failed THEN "failed" ELSE "read",
                                       ![p].gate = storedGate]
       \/ /\ tasks[p].pc # "gate"
          /\ \E reply \in Answers(storedMode) : tasks' = [tasks EXCEPT ![p].reply = reply]
    /\ UNCHANGED <<redis, operator, bus, up, sinkMode, runnerGate, control, sync, bars, starts,
                   held>>

\* the slot goes on, or its bar ends here
Continues(p, on) ==
    tasks' = [tasks EXCEPT ![p] =
                 IF on THEN [IdleTask EXCEPT !.pc = After(tasks[p].pc)] ELSE IdleTask]

(* _bar_is_gated: a bar of a gated pair is stored and not decided. *)
GateTaken(p) ==
    /\ tasks[p].pc = "gate" /\ tasks[p].reply # "none"
    /\ runnerGate' = GateAfter(tasks[p].reply, tasks[p].gate)
    /\ blind' = (blind /\ tasks[p].reply = "failed")
    /\ Continues(p, ~Blocks(runnerGate', p))
    /\ UNCHANGED <<redis, operator, bus, up, sinkMode, control, sync, bars, starts, paused,
                   gated, since>>

BugModeFromMemory(p) ==
    /\ tasks[p].pc \in Reading \ {"gate"} /\ tasks[p].reply # "none"
    /\ Continues(p, sinkMode = "off" /\ tasks[p].reply # "failed")
    /\ sinkMode' = ModeAfter(tasks[p].reply)
    /\ UNCHANGED <<redis, operator, bus, up, runnerGate, control, sync, bars, starts, held>>

(* _live_delivery_paused, _emit_intent and twice _send_staged_signal: each goes on only
   with a mode it has just read, and the last one into the send. *)
ModeTaken(p) ==
    /\ tasks[p].pc \in Reading \ {"gate"} /\ tasks[p].reply # "none"
    /\ sinkMode' = ModeAfter(tasks[p].reply)
    /\ Continues(p, sinkMode' = "off" /\ tasks[p].reply # "failed")
    /\ UNCHANGED <<redis, operator, bus, up, runnerGate, control, sync, bars, starts, held>>

(* The strategy asks for nothing, or its intent is dropped on the way. *)
NothingToSend(p) ==
    /\ tasks[p].pc \in {"emit", "stage", "mark", "sent"} /\ tasks[p].reply = "none"
    /\ tasks' = [tasks EXCEPT ![p] = IdleTask]
    /\ UNCHANGED <<redis, operator, bus, up, sinkMode, runnerGate, control, sync, bars, starts,
                   held>>

-----------------------------------------------------------------------------
(* The control handler and the history loop                                *)

Announced(kind) ==
    /\ up /\ control.pc = "idle" /\ kind \in bus
    /\ bus' = bus \ {kind}
    /\ control' = [control EXCEPT !.pc = kind]
    /\ UNCHANGED <<redis, operator, up, sinkMode, runnerGate, tasks, sync, bars, starts, held>>

AnnouncementLost ==
    /\ \E kind \in bus : bus' = bus \ {kind}
    /\ UNCHANGED <<redis, operator, up, sinkMode, runnerGate, tasks, control, sync, bars, starts,
                   held>>

ControlAnswered ==
    /\ control.pc # "idle" /\ control.reply = "none"
    /\ \/ /\ control.pc = "gate"
          /\ \E failed \in {FALSE, ReadsMayFail} :
                control' = [control EXCEPT !.reply = IF failed THEN "failed" ELSE "read",
                                           !.gate = storedGate]
       \/ /\ control.pc = "mode"
          /\ \E reply \in Answers(storedMode) : control' = [control EXCEPT !.reply = reply]
    /\ UNCHANGED <<redis, operator, bus, up, sinkMode, runnerGate, tasks, sync, bars, starts, held>>

ControlTaken ==
    /\ control.reply # "none"
    /\ \/ /\ control.pc = "gate"
          /\ runnerGate' = GateAfter(control.reply, control.gate)
          /\ blind' = (blind /\ control.reply = "failed")
          /\ UNCHANGED sinkMode
       \/ /\ control.pc = "mode"
          /\ sinkMode' = ModeAfter(control.reply)
          /\ UNCHANGED <<runnerGate, blind>>
    /\ control' = [pc |-> "idle", reply |-> "none", gate |-> EmptyGate]
    /\ UNCHANGED <<redis, operator, bus, up, tasks, sync, bars, starts, paused, gated, since>>

SyncAnswered ==
    /\ up /\ sync = "none"
    /\ sync' \in Answers(storedMode)
    /\ UNCHANGED <<redis, operator, bus, up, sinkMode, runnerGate, tasks, control, bars, starts,
                   held>>

BugSyncKeepsPause ==
    /\ sync # "none"
    /\ sinkMode' = IF sync = "off" THEN sinkMode ELSE ModeAfter(sync)
    /\ sync' = "none"
    /\ UNCHANGED <<redis, operator, bus, up, runnerGate, tasks, control, bars, starts, held>>

SyncTaken ==
    /\ sync # "none"
    /\ sinkMode' = ModeAfter(sync)
    /\ sync' = "none"
    /\ UNCHANGED <<redis, operator, bus, up, runnerGate, tasks, control, bars, starts, held>>

-----------------------------------------------------------------------------
Works(p) == Answered(p) \/ GateTaken(p) \/ ModeTaken(p) \/ NothingToSend(p)

Controls == (\E kind \in {"gate", "mode"} : Announced(kind)) \/ ControlAnswered \/ ControlTaken

Next ==
    \/ \E m \in Modes : SetShadowMode(m)
    \/ \E c \in Chats : ReadGate(c) \/ WriteGate(c) \/ WriteFails(c)
    \/ Start \/ Crash
    \/ \E p \in Pairs : BarCloses(p) \/ RecoveryBegins(p) \/ Works(p)
    \/ Controls \/ AnnouncementLost
    \/ SyncAnswered \/ SyncTaken

Spec == Init /\ [][Next]_vars

(* The history loop reads the mode at every interval, and the event loop runs every
   coroutine on. *)
Fairness ==
    /\ WF_vars(SyncAnswered) /\ WF_vars(SyncTaken)
    /\ WF_vars(ControlAnswered) /\ WF_vars(ControlTaken)
    /\ \A p \in Pairs : WF_vars(Works(p))

FairSpec == Spec /\ Fairness

-----------------------------------------------------------------------------
(* Properties                                                              *)

Replies == {"none", "read", "failed"} \cup Modes
Tasks == [pc : {"idle", "sent"} \cup Reading, reply : Replies, gate : Gates]

(* Every variable keeps its kind. *)
TypeOK ==
    /\ storedMode \in Stops /\ storedGate \in Gates
    /\ chats \in [Chats -> [pc : {"idle", "write"}, blocking : BOOLEAN, scope : Scopes,
                            gate : Gates]]
    /\ bus \subseteq {"gate", "mode"}
    /\ up \in BOOLEAN
    /\ sinkMode \in Modes /\ runnerGate \in Gates
    /\ tasks \in [Pairs -> Tasks]
    /\ control \in [pc : {"idle", "gate", "mode"}, reply : Replies, gate : Gates]
    /\ sync \in {"none", "failed"} \cup Modes
    /\ gateCommands \in Nat /\ modeCommands \in Nat /\ bars \in Nat /\ starts \in Nat
    /\ paused \subseteq Pairs /\ gated \subseteq Pairs /\ since \subseteq Pairs
    /\ blind \in BOOLEAN

Sends(p) == tasks[p].pc = "mark" /\ tasks'[p].pc = "sent"
Decides(p) == tasks[p].pc = "gate" /\ tasks'[p].pc = "pause"

(* Work that begins in a stored pause sends nothing while the pause holds, whatever was
   broadcast, lost or read late by others (_refresh_shadow_mode before every step). *)
SendsHonourThePause == [][\A p \in Pairs : Sends(p) => p \notin paused]_vars

(* A bar that closes while its pair is prevented is not decided, unless the pair is
   allowed again or the gate cannot be read (_bar_is_gated). *)
DecisionsHonourTheGate ==
    [][\A p \in Pairs : Decides(p) /\ tasks[p].reply = "read" => p \notin gated]_vars

(* bar_gate.py: "a runner that restarts during a pause must come back paused".  From the
   first read of the gate that succeeds, be it at the start, of a bar or of an
   announcement, and through every failure after it, the runner decides on no bar of a
   pair that was prevented at the start and has been ever since.  Up to that read it may:
   _refresh_bar_gate keeps "the last known one", and a new process knows an empty gate. *)
PauseOutlivesRestart ==
    [][\A p \in Pairs : Decides(p) /\ p \in since => blind /\ tasks[p].reply = "failed"]_vars
================================================================================
