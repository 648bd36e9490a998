-------------------------- MODULE RunnerOwnership --------------------------
(***************************************************************************)
(* The claim on a state namespace: the Redis key runner:owner, which one   *)
(* strategy runner at a time may hold.                                     *)
(*                                                                         *)
(* A place runs one runner process at a time: a container, whose PID 1 the *)
(* runner is and which carries an instance token from one process to the   *)
(* next, or a host that gives its runner no token.  A process claims the   *)
(* key, boots (recovers and settles deliveries), subscribes, works, and    *)
(* closes its resources in order before it releases the key.  It may crash *)
(* or be paused at any step.  An operator may run `qte-control owner       *)
(* clear` against any of this.                                             *)
(*                                                                         *)
(* Everything a process does to the book or the broker follows a check     *)
(* that it still holds the key, and the two are separate steps: "acting"   *)
(* is the stretch between the check and the end of the effect.             *)
(***************************************************************************)
EXTENDS Naturals, FiniteSets

CONSTANTS
    Places,             \* where a runner process can be started
    Containers,         \* the places that have an instance token
    Ids,                \* uuid4 values, each used by one process at a time
    Tokens,             \* instance tokens
    None,               \* an absent key, id or token
    OperatorConfirms,   \* the operator clears only what he knows to be dead
    Faults              \* which of PossibleFaults may happen

ASSUME PlacesAssumption == Containers \subseteq Places
\* A live runner may be paused or cut off from NATS; a Redis command may time
\* out; a step of the shutdown may fail.
PossibleFaults == {"silence", "timeout", "cleanup"}

ASSUME FlagsAssumption ==
    OperatorConfirms \in BOOLEAN /\ Faults \subseteq PossibleFaults
ASSUME NoneAssumption == None \notin Ids \cup Tokens

VARIABLES
    owner,      \* Redis: runner:owner
    token,      \* place -> the token on the container's writable layer
    pc,         \* place -> how far its process is
    me,         \* place -> _owner_id of its process
    acquired,   \* place -> _ownership_acquired
    stopping,   \* place -> _stopping
    task,       \* place -> what its own tasks and its bus callbacks are doing
    failed,     \* place -> cleanup_failed of the running _close_resources
    inStart,    \* place -> _close_resources runs inside a failed start()
    redis,      \* place -> its Redis client is connected
    paused,     \* place -> the process is stopped or hung
    doubt,      \* place -> history: a cleanup or a claim of it went wrong
    op          \* the operator's `owner clear`

vars == <<owner, token, pc, me, acquired, stopping, task, failed, inStart,
          redis, paused, doubt, op>>
procVars == <<pc, me, acquired, stopping, task, failed, inStart, redis, doubt>>

Owners == [id : Ids, token : Tokens \cup {None}]
NoOwner == [id |-> None, token |-> None]
Kinds == {"task", "callback"}
Idle == [k \in Kinds |-> "idle"]

PCs == {"off", "starting", "refused", "booting", "subscribed", "running",
        "draining", "sinks", "releasing", "disconnecting"}

TypeOK ==
    /\ owner \in Owners \cup {NoOwner}
    /\ token \in [Places -> Tokens \cup {None}]
    /\ pc \in [Places -> PCs]
    /\ me \in [Places -> Owners \cup {NoOwner}]
    /\ acquired \in [Places -> BOOLEAN]
    /\ stopping \in [Places -> BOOLEAN]
    /\ task \in [Places -> [Kinds -> {"idle", "acting"}]]
    /\ failed \in [Places -> BOOLEAN]
    /\ inStart \in [Places -> BOOLEAN]
    /\ redis \in [Places -> BOOLEAN]
    /\ paused \in [Places -> BOOLEAN]
    /\ doubt \in [Places -> BOOLEAN]
    /\ op \in [step : {"idle", "shown", "silent", "sure"},
               holder : Ids \cup {None}]
    /\ \A p \in Places :     \* once the bus is closed nothing works any more
        pc[p] \in {"off", "sinks", "releasing", "disconnecting"} => task[p] = Idle

Alive(p) == pc[p] # "off"
Runs(p) == Alive(p) /\ ~paused[p]
NoClear == [step |-> "idle", holder |-> None]

\* uuid4() and a container's new token: values nobody holds or remembers
UsedIds == {owner.id, op.holder} \cup {me[p].id : p \in Places}
NewId == CHOOSE i \in Ids : i \notin UsedIds
UsedTokens == {owner.token} \cup {token[p] : p \in Places}
NewToken == CHOOSE t \in Tokens : t \notin UsedTokens

Init ==
    /\ owner = NoOwner
    /\ token = [p \in Places |-> None]
    /\ pc = [p \in Places |-> "off"]
    /\ me = [p \in Places |-> NoOwner]
    /\ acquired = [p \in Places |-> FALSE]
    /\ stopping = [p \in Places |-> FALSE]
    /\ task = [p \in Places |-> Idle]
    /\ failed = [p \in Places |-> FALSE]
    /\ inStart = [p \in Places |-> FALSE]
    /\ redis = [p \in Places |-> FALSE]
    /\ paused = [p \in Places |-> FALSE]
    /\ doubt = [p \in Places |-> FALSE]
    /\ op = NoClear

(***************************************************************************)
(* A process and its place.                                                *)
(***************************************************************************)

Go(p, step) == pc' = [pc EXCEPT ![p] = step]

\* container_instance_token: PID 1 reads the token an earlier process of its
\* container left, or writes the first one; any other process has none.
InstanceToken(p) ==
    IF p \notin Containers THEN None
    ELSE IF token[p] # None THEN token[p] ELSE NewToken

LaunchWith(p, instance) ==
    /\ pc[p] = "off"
    /\ Ids \ UsedIds # {}
    /\ Go(p, "starting")
    /\ token' = [token EXCEPT ![p] = instance]
    /\ me' = [me EXCEPT ![p] = [id |-> NewId, token |-> instance]]
    /\ acquired' = [acquired EXCEPT ![p] = FALSE]
    /\ stopping' = [stopping EXCEPT ![p] = FALSE]
    /\ redis' = [redis EXCEPT ![p] = TRUE]
    /\ failed' = [failed EXCEPT ![p] = FALSE]
    /\ inStart' = [inStart EXCEPT ![p] = FALSE]
    /\ doubt' = [doubt EXCEPT ![p] = FALSE]
    /\ UNCHANGED <<owner, task, paused, op>>

Launch(p) ==
    /\ token[p] = None => Tokens \ UsedTokens # {}
    /\ LaunchWith(p, InstanceToken(p))

\* Recreating a container loses its writable layer.
Recreate(p) ==
    /\ token[p] # None
    /\ Tokens \ UsedTokens # {}
    /\ LaunchWith(p, NewToken)

\* The process is gone, at once or at the end of its shutdown.
Gone(p) ==
    /\ Go(p, "off")
    /\ me' = [me EXCEPT ![p] = NoOwner]
    /\ task' = [task EXCEPT ![p] = Idle]
    /\ acquired' = [acquired EXCEPT ![p] = FALSE]
    /\ stopping' = [stopping EXCEPT ![p] = FALSE]
    /\ inStart' = [inStart EXCEPT ![p] = FALSE]
    /\ redis' = [redis EXCEPT ![p] = FALSE]
    /\ doubt' = [doubt EXCEPT ![p] = FALSE]

Crash(p) ==
    /\ Alive(p)
    /\ Gone(p)
    /\ failed' = [failed EXCEPT ![p] = FALSE]
    /\ paused' = [paused EXCEPT ![p] = FALSE]
    /\ UNCHANGED <<owner, token, op>>

Pause(p) ==
    /\ "silence" \in Faults
    /\ Runs(p)
    /\ paused' = [paused EXCEPT ![p] = TRUE]
    /\ UNCHANGED <<owner, token, procVars, op>>

Resume(p) ==
    /\ paused[p]
    /\ paused' = [paused EXCEPT ![p] = FALSE]
    /\ UNCHANGED <<owner, token, procVars, op>>

\* SIGTERM: request_stop only sets the flag.
RequestStop(p) ==
    /\ Runs(p)
    /\ ~stopping[p]
    /\ stopping' = [stopping EXCEPT ![p] = TRUE]
    /\ UNCHANGED <<owner, token, pc, me, acquired, task, failed, inStart, redis,
                   paused, doubt, op>>

(***************************************************************************)
(* Claiming.                                                               *)
(***************************************************************************)

\* the flag is set only once the runner is up

Acquired(p) ==
    /\ acquired' = [acquired EXCEPT ![p] = TRUE]
    /\ Go(p, "booting")
    /\ UNCHANGED <<me, stopping, task, failed, inStart, redis, doubt>>

BugSetAnyway(p) == owner' = me[p]

\* SET runner:owner NX
SetNX(p) == owner' = IF owner = NoOwner THEN me[p] ELSE owner

\* claim_runner.  With retry_on_timeout a command whose reply is lost is sent
\* again, and the second SET NX finds the first one's value.
Claim(p) ==
    /\ Runs(p)
    /\ pc[p] = "starting"
    /\ SetNX(p)
    /\ \/ /\ owner = NoOwner
          /\ Acquired(p)
       \/ /\ owner # NoOwner \/ "timeout" \in Faults
          /\ Go(p, "refused")
          /\ doubt' = [doubt EXCEPT ![p] = (owner = NoOwner)]
          /\ UNCHANGED <<me, acquired, stopping, task, failed, inStart, redis>>
    /\ UNCHANGED <<token, paused, op>>

\* the whole id is compared, where only the token can agree

\* reclaim_runner: the Lua script compares the holder's token and replaces the
\* holder in one step.
Reclaimable(p) ==
    /\ me[p].token # None
    /\ owner # NoOwner
    /\ owner.token = me[p].token

Reclaim(p) ==
    /\ Runs(p)
    /\ pc[p] = "refused"
    /\ Reclaimable(p)
    /\ owner' = me[p]
    /\ Acquired(p)
    /\ UNCHANGED <<token, paused, op>>

(***************************************************************************)
(* _close_resources: cancel and await the tasks, drain the bus, stop the   *)
(* sink and the notifiers, release the claim, disconnect from Redis.       *)
(***************************************************************************)

\* what a step of the shutdown may report: TRUE when it fails
MayFail == IF "cleanup" \in Faults THEN BOOLEAN ELSE {FALSE}

\* Tasks that were cancelled are awaited, so none acts afterwards.
CancelTasks(p) ==
    /\ Go(p, "draining")
    /\ stopping' = [stopping EXCEPT ![p] = TRUE]
    /\ task' = [task EXCEPT ![p]["task"] = "idle"]

\* start() raises -- refused, failed at a check or at a dependency, or a Redis
\* command timed out -- and closes its resources itself before it re-raises.
StartFails(p) ==
    /\ Runs(p)
    /\ pc[p] \in {"starting", "refused", "booting", "subscribed"}
    /\ CancelTasks(p)
    /\ failed' = [failed EXCEPT ![p] = FALSE]
    /\ inStart' = [inStart EXCEPT ![p] = TRUE]
    /\ UNCHANGED <<token, me, acquired, redis, paused, op>>
    /\ \/ UNCHANGED <<owner, doubt>>
       \/ /\ "timeout" \in Faults        \* ... after the command had been executed
          /\ \/ pc[p] = "starting" /\ SetNX(p)
             \/ pc[p] = "refused" /\ Reclaimable(p) /\ owner' = me[p]
          /\ doubt' = [doubt EXCEPT ![p] = TRUE]

\* run_forever: start() has returned and _stopping is set.
Stop(p) ==
    /\ Runs(p)
    /\ pc[p] = "running"
    /\ stopping[p]
    /\ CancelTasks(p)
    /\ \E taskFails \in MayFail :
        /\ failed' = [failed EXCEPT ![p] = taskFails]
        /\ doubt' = [doubt EXCEPT ![p] = @ \/ taskFails]
    /\ UNCHANGED <<owner, token, me, acquired, inStart, redis, paused, op>>

\* bus.close: a callback either ends or, when the drain times out or fails, is
\* cancelled with its subscription.  Neither is reported as a failed cleanup.
DrainBus(p) ==
    /\ Runs(p)
    /\ pc[p] = "draining"
    /\ Go(p, "sinks")
    /\ task' = [task EXCEPT ![p] = Idle]
    /\ UNCHANGED <<owner, token, me, acquired, stopping, failed, inStart, redis,
                   paused, doubt, op>>

\* telegram.stop, telegram_errors.stop, status.aclose, sink.stop
StopSinks(p) ==
    /\ Runs(p)
    /\ pc[p] = "sinks"
    /\ Go(p, "releasing")
    /\ \E fails \in MayFail :
        /\ failed' = [failed EXCEPT ![p] = @ \/ fails]
        /\ doubt' = [doubt EXCEPT ![p] = @ \/ fails]
    /\ UNCHANGED <<owner, token, me, acquired, stopping, task, inStart, redis,
                   paused, op>>

BugPlainDelete(holder) == owner' = NoOwner

\* release_runner: the Lua script deletes the key only while it holds our id.
CompareAndDelete(holder) == owner' = IF owner.id = holder THEN NoOwner ELSE owner

Release(p) ==
    /\ Runs(p)
    /\ pc[p] = "releasing"
    /\ Go(p, "disconnecting")
    /\ UNCHANGED <<token, me, stopping, task, inStart, redis, paused, op>>
    /\ IF acquired[p] /\ ~failed[p]
       THEN \/ /\ redis[p]
               /\ CompareAndDelete(me[p].id)
               /\ acquired' = [acquired EXCEPT ![p] = FALSE]
               /\ UNCHANGED <<failed, doubt>>
            \/ /\ ~redis[p] \/ "timeout" \in Faults      \* the call raises ...
               /\ \/ UNCHANGED owner
                  \/ redis[p] /\ CompareAndDelete(me[p].id)     \* ... too late
               /\ failed' = [failed EXCEPT ![p] = TRUE]
               /\ doubt' = [doubt EXCEPT ![p] = TRUE]
               /\ UNCHANGED acquired
       ELSE UNCHANGED <<owner, acquired, failed, doubt>>

\* state.close, and `_cleaned`: stop() after a failed start() returns at once
\* if that start cleaned up, and closes everything once more if it did not.
Disconnect(p) ==
    /\ Runs(p)
    /\ pc[p] = "disconnecting"
    /\ UNCHANGED <<owner, token, paused, op>>
    /\ \E fails \in MayFail :
        IF inStart[p] /\ (failed[p] \/ fails)
        THEN /\ Go(p, "draining")
             /\ failed' = [failed EXCEPT ![p] = FALSE]
             /\ inStart' = [inStart EXCEPT ![p] = FALSE]
             /\ redis' = [redis EXCEPT ![p] = @ /\ fails]
             /\ doubt' = [doubt EXCEPT ![p] = TRUE]
             /\ UNCHANGED <<me, acquired, stopping, task>>
        ELSE /\ Gone(p)
             /\ failed' = [failed EXCEPT ![p] = FALSE]

(***************************************************************************)
(* Working.                                                                *)
(***************************************************************************)

\* start() recovers and settles deliveries itself; once it has subscribed,
\* background tasks and bus callbacks do the work, the callbacks until the bus
\* is closed.
MayWork(p, k) ==
    IF k = "task" THEN pc[p] \in {"booting", "subscribed", "running"}
                  ELSE pc[p] \in {"subscribed", "running", "draining"}

StillOwner(p) == acquired[p] /\ owner = me[p] /\ ~stopping[p]

\* _check_ownership: an effect may follow, or the runner stops.  An unreadable
\* key stops it too.
CheckOwnership(p, k) ==
    /\ Runs(p)
    /\ MayWork(p, k)
    /\ task[p][k] = "idle"
    /\ \/ /\ StillOwner(p)
          /\ task' = [task EXCEPT ![p][k] = "acting"]
          /\ UNCHANGED stopping
       \/ /\ ~StillOwner(p) \/ "timeout" \in Faults
          /\ stopping' = [stopping EXCEPT ![p] = TRUE]
          /\ UNCHANGED task
    /\ UNCHANGED <<owner, token, pc, me, acquired, failed, inStart, redis, paused,
                   doubt, op>>

\* The effect: a row staged, a command sent, a book written.
Effect(p, k) ==
    /\ Runs(p)
    /\ task[p][k] = "acting"
    /\ task' = [task EXCEPT ![p][k] = "idle"]
    /\ UNCHANGED <<owner, token, pc, me, acquired, stopping, failed, inStart,
                   redis, paused, doubt, op>>

\* start() subscribes, then catches up and returns.
Proceed(p) ==
    /\ Runs(p)
    /\ task[p]["task"] = "idle"
    /\ \/ pc[p] = "booting" /\ Go(p, "subscribed")
       \/ pc[p] = "subscribed" /\ Go(p, "running")
    /\ UNCHANGED <<owner, token, me, acquired, stopping, task, failed, inStart,
                   redis, paused, doubt, op>>

(***************************************************************************)
(* qte-control owner clear                                                 *)
(***************************************************************************)

Operator(step, holder) == op' = [step |-> step, holder |-> holder]

ShowHolder ==
    /\ op.step = "idle"
    /\ owner # NoOwner
    /\ Operator("shown", owner.id)
    /\ UNCHANGED <<owner, token, procVars, paused>>

\* Any runner that is subscribed to the control subject answers a ping.
Answers(p) == pc[p] \in {"subscribed", "running"} /\ ~paused[p]

PingUnanswered ==
    /\ op.step = "shown"
    /\ "silence" \in Faults \/ \A p \in Places : ~Answers(p)
    /\ Operator("silent", op.holder)
    /\ UNCHANGED <<owner, token, procVars, paused>>

\* The namespace typed back, or --yes.
Confirm ==
    /\ op.step = "silent"
    /\ OperatorConfirms => \A p \in Places : Alive(p) => me[p].id # op.holder
    /\ Operator("sure", op.holder)
    /\ UNCHANGED <<owner, token, procVars, paused>>

Clear ==
    /\ op.step = "sure"
    /\ CompareAndDelete(op.holder)
    /\ op' = NoClear
    /\ UNCHANGED <<token, procVars, paused>>

\* A runner answered, NATS is down, or the operator typed something else.
GiveUp ==
    /\ op.step # "idle"
    /\ op' = NoClear
    /\ UNCHANGED <<owner, token, procVars, paused>>

Next ==
    \/ \E p \in Places :
        \/ Launch(p) \/ Recreate(p) \/ Crash(p) \/ Pause(p) \/ Resume(p)
        \/ RequestStop(p) \/ Claim(p) \/ Reclaim(p)
        \/ StartFails(p) \/ Stop(p) \/ DrainBus(p) \/ StopSinks(p)
        \/ Release(p) \/ Disconnect(p) \/ Proceed(p)
        \/ \E k \in Kinds : CheckOwnership(p, k) \/ Effect(p, k)
    \/ ShowHolder \/ PingUnanswered \/ Confirm \/ Clear \/ GiveUp

Spec == Init /\ [][Next]_vars

(***************************************************************************)
(* Properties.                                                             *)
(***************************************************************************)

\* Between a successful check and the end of the effect the process still
\* holds the claim: no clear, reclaim, release or shutdown slips in between.
\* (_check_ownership is only a read; nothing fences the effect behind it.)
ActorHoldsClaim ==
    \A p \in Places : \A k \in Kinds :
        task[p][k] = "acting" => owner = me[p]

\* The claim of a process that is still there is given up by that process
\* alone, in the last part of its own shutdown.
LiveClaimIsKept ==
    [][\A p \in Places :
        Alive(p) /\ owner = me[p] /\ owner' # owner => pc[p] = "releasing"]_vars

=============================================================================
