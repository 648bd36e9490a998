----------------------- MODULE RunnerOwnershipProofs -----------------------
(***************************************************************************)
(* For every set of places, ids and tokens: whoever acts holds the claim,  *)
(* and a live claim is given up by its own process only, provided that the *)
(* operator clears nothing he does not know to be dead.                    *)
(* Below them the two other starts that act on what an earlier process     *)
(* left: the start of ingestion (StateGuard), for any bars and deaths, and *)
(* the start-up flush of stale positions (StaleFlush), for any book; and   *)
(* the strategies a start runs (StrategyMounts), for any repositories.     *)
(***************************************************************************)
EXTENDS RunnerOwnership, Integers, FiniteSets, Sequences, WellFoundedInduction, TLAPS

CONSTANTS Symbols, Scopes, Legacy, MaxNow, MaxBars, MaxCrashes
VARIABLES now, scope, plan, ticks, closed, opened, outbox, writer, phase, loose, made, crashes
Guard == INSTANCE StateGuard

CONSTANTS Pairs, Worlds, Modes, Stored, Decided, Now, AllowFuture, MaxStarts
VARIABLES flushPhase, mode, flushRedis, table, book, todo, sending, unsure, rows, starts
Flush == INSTANCE StaleFlush WITH phase <- flushPhase, redis <- flushRedis

CONSTANTS Week, Absent, Junk, On, Off, Refused, Repos, Skipped, Contents, Tables, Mode, MaxEdits
VARIABLES contents, mapped, record, engine, stale, slots, edits
Mounts == INSTANCE StrategyMounts WITH table <- mapped

(***************************************************************************)
(* The inductive invariant.                                                *)
(***************************************************************************)

\* Ids tell live processes apart, and the key names a process by all of its id.
Named ==
    \A p \in Places :
        /\ Alive(p) => me[p] \in Owners
        /\ ~Alive(p) => me[p] = NoOwner
        /\ Alive(p) /\ owner.id = me[p].id => owner = me[p]
        /\ \A q \in Places :
            p # q /\ Alive(p) /\ Alive(q) => me[p].id # me[q].id

\* A token belongs to one container, and a process carries its place's token.
Tokened ==
    \A p \in Places :
        /\ p \notin Containers => token[p] = None
        /\ Alive(p) => me[p].token = token[p]
        /\ \A q \in Places : p # q /\ token[p] # None => token[p] # token[q]

\* Nothing works before the claim is acquired.
Quiet == \A p \in Places : pc[p] \in {"starting", "refused"} => task[p] = Idle

\* What the operator is about to clear is dead.
SureIsDead ==
    op.step = "sure" => \A p \in Places : Alive(p) => me[p].id # op.holder

IInv ==
    /\ TypeOK
    /\ Named
    /\ Tokened
    /\ Quiet
    /\ SureIsDead
    /\ ActorHoldsClaim

ProcessStep(p) ==
    \/ Launch(p) \/ Recreate(p) \/ Crash(p) \/ Pause(p) \/ Resume(p)
    \/ RequestStop(p) \/ Claim(p) \/ Reclaim(p)
    \/ StartFails(p) \/ Stop(p) \/ DrainBus(p) \/ StopSinks(p)
    \/ Release(p) \/ Disconnect(p) \/ Proceed(p)
    \/ \E k \in Kinds : CheckOwnership(p, k) \/ Effect(p, k)

OperatorStep == ShowHolder \/ PingUnanswered \/ Confirm \/ Clear \/ GiveUp

LEMMA InitIInv == Init => IInv
  BY PlacesAssumption, NoneAssumption
  DEF Init, IInv, TypeOK, Named, Tokened, Quiet, SureIsDead, ActorHoldsClaim,
      NoOwner, NoClear, Idle, Kinds, Alive, PCs

(***************************************************************************)
(* A new id differs from every id in use, and so does a new token.         *)
(***************************************************************************)
LEMMA FreshId ==
  ASSUME Ids \ UsedIds # {}
  PROVE  NewId \in Ids /\ NewId \notin UsedIds
  BY DEF NewId

LEMMA FreshToken ==
  ASSUME Tokens \ UsedTokens # {}
  PROVE  NewToken \in Tokens /\ NewToken \notin UsedTokens
  BY DEF NewToken

LEMMA LaunchStep ==
  ASSUME IInv, NEW p \in Places, NEW instance \in Tokens \cup {None},
         LaunchWith(p, instance),
         p \notin Containers => instance = None,
         \/ instance = token[p]
         \/ instance \notin UsedTokens
  PROVE  IInv'
<1>1. NewId \in Ids /\ NewId \notin UsedIds
  BY FreshId DEF LaunchWith
<1>2. NewId # owner.id /\ NewId # op.holder /\ \A q \in Places : NewId # me[q].id
  BY <1>1 DEF UsedIds
<1>3. TypeOK'
  BY <1>1 DEF IInv, TypeOK, LaunchWith, Go, Owners, PCs
<1>4. \A q \in Places : q # p =>
        /\ pc'[q] = pc[q] /\ me'[q] = me[q] /\ token'[q] = token[q]
        /\ Alive(q)' = Alive(q)
  BY DEF IInv, TypeOK, LaunchWith, Go, Alive
<1>5. /\ pc[p] = "off" /\ pc'[p] = "starting" /\ token'[p] = instance
      /\ me'[p] = [id |-> NewId, token |-> instance]
      /\ owner' = owner /\ task' = task /\ op' = op
  BY DEF IInv, TypeOK, LaunchWith, Go
<1>6. Named'
  BY <1>1, <1>2, <1>4, <1>5 DEF IInv, Named, Alive, Owners
<1>7. Tokened'
  <2>1. \A q \in Places : q # p /\ instance # None => instance # token[q]
    BY DEF IInv, Tokened, UsedTokens
  <2>2. QED
    BY <1>4, <1>5, <2>1 DEF IInv, Tokened, Alive
<1>8. Quiet'
  BY <1>4, <1>5 DEF IInv, Quiet, TypeOK
<1>9. SureIsDead'
  BY <1>2, <1>4, <1>5 DEF IInv, SureIsDead, Alive
<1>10. ActorHoldsClaim'
  <2>1. task[p] = Idle
    BY <1>5 DEF IInv, TypeOK
  <2>2. QED
    BY <1>4, <1>5, <2>1 DEF IInv, ActorHoldsClaim, Idle, Kinds
<1>11. QED
  BY <1>3, <1>6, <1>7, <1>8, <1>9, <1>10 DEF IInv

(***************************************************************************)
(* Steps that leave the names and the tokens alone.                        *)
(***************************************************************************)
LEMMA SameNames ==
  ASSUME IInv, UNCHANGED <<me, token>>,
         \A p \in Places : Alive(p)' = Alive(p),
         owner' \in {owner, NoOwner} \cup {me[p] : p \in {q \in Places : Alive(q)}}
  PROVE  Named' /\ Tokened'
<1>1. Tokened'
  BY DEF IInv, Tokened
<1>2. ASSUME NEW p \in Places, Alive(p), owner'.id = me[p].id
      PROVE  owner' = me[p]
  <2>1. me[p].id # None
    BY <1>2, NoneAssumption DEF IInv, Named, Owners
  <2>2. CASE owner' = owner
    BY <1>2, <2>2 DEF IInv, Named
  <2>3. CASE owner' = NoOwner
    BY <1>2, <2>1, <2>3 DEF NoOwner
  <2>4. CASE \E q \in Places : Alive(q) /\ owner' = me[q]
    BY <1>2, <2>4 DEF IInv, Named
  <2>5. QED
    BY <2>2, <2>3, <2>4
<1>3. Named'
  BY <1>2 DEF IInv, Named
<1>4. QED
  BY <1>1, <1>3

\* The end of a process.
LEMMA GoneStep ==
  ASSUME IInv, NEW p \in Places, Gone(p), UNCHANGED <<owner, token, op>>
  PROVE  Named' /\ Tokened' /\ Quiet' /\ SureIsDead' /\ ActorHoldsClaim'
<1>1. /\ pc'[p] = "off" /\ me'[p] = NoOwner /\ task'[p] = Idle
      /\ \A q \in Places : q # p =>
            pc'[q] = pc[q] /\ me'[q] = me[q] /\ task'[q] = task[q]
  BY DEF Gone, Go, IInv, TypeOK
<1>2. QED
  BY <1>1 DEF IInv, Named, Tokened, Quiet, SureIsDead, ActorHoldsClaim, Alive,
              Idle, Kinds

(***************************************************************************)
(* The actions.                                                            *)
(***************************************************************************)
LEMMA LaunchAction ==
  ASSUME IInv, NEW p \in Places, Launch(p) \/ Recreate(p)
  PROVE  IInv'
<1>1. CASE Launch(p)
  <2>1. CASE p \notin Containers
    <3>1. InstanceToken(p) = None /\ token[p] = None
      BY <2>1 DEF InstanceToken, IInv, Tokened
    <3>2. QED
      BY <1>1, <2>1, <3>1, LaunchStep DEF Launch
  <2>2. CASE p \in Containers /\ token[p] # None
    <3>1. InstanceToken(p) = token[p] /\ token[p] \in Tokens
      BY <2>2 DEF InstanceToken, IInv, TypeOK
    <3>2. QED
      BY <1>1, <2>2, <3>1, LaunchStep DEF Launch
  <2>3. CASE p \in Containers /\ token[p] = None
    <3>1. InstanceToken(p) = NewToken /\ Tokens \ UsedTokens # {}
      BY <1>1, <2>3 DEF InstanceToken, Launch
    <3>2. QED
      BY <1>1, <2>3, <3>1, FreshToken, LaunchStep DEF Launch
  <2>4. QED
    BY <2>1, <2>2, <2>3
<1>2. CASE Recreate(p)
  <2>1. p \in Containers
    BY <1>2 DEF Recreate, IInv, Tokened
  <2>2. QED
    BY <1>2, <2>1, FreshToken, LaunchStep DEF Recreate
<1>3. QED
  BY <1>1, <1>2

LEMMA CrashAction ==
  ASSUME IInv, NEW p \in Places, Crash(p)
  PROVE  IInv'
<1>1. TypeOK'
  BY DEF Crash, Gone, Go, IInv, TypeOK, PCs, Idle, Kinds
<1>2. QED
  BY <1>1, GoneStep DEF Crash, IInv

LEMMA FlagAction ==
  ASSUME IInv, NEW p \in Places, Pause(p) \/ Resume(p) \/ RequestStop(p)
  PROVE  IInv'
<1>1. TypeOK'
  BY DEF Pause, Resume, RequestStop, procVars, IInv, TypeOK
<1>2. UNCHANGED <<owner, token, pc, me, task, op>>
  BY DEF Pause, Resume, RequestStop, procVars
<1>3. QED
  BY <1>1, <1>2 DEF IInv, Named, Tokened, Quiet, SureIsDead, ActorHoldsClaim, Alive

\* While somebody acts, the claim he holds is not free and carries his token.
LEMMA Actor ==
  ASSUME IInv, NEW p \in Places, NEW k \in Kinds, task[p][k] = "acting"
  PROVE  /\ Alive(p)
         /\ owner = me[p]
         /\ owner # NoOwner
         /\ pc[p] \notin {"off", "starting", "refused", "sinks", "releasing",
                          "disconnecting"}
         /\ \A q \in Places : Alive(q) /\ owner.token # None
                /\ owner.token = me[q].token => q = p
<1>1. task[p] # Idle
  BY DEF Idle
<1>2. Alive(p) /\ owner = me[p]
  BY <1>1 DEF IInv, TypeOK, ActorHoldsClaim, Alive
<1>3. owner # NoOwner
  BY <1>2, NoneAssumption DEF IInv, Named, NoOwner, Owners
<1>4. QED
  BY <1>1, <1>2, <1>3 DEF IInv, TypeOK, Quiet, Tokened

\* Setting the key to p's own id while p does nothing, when it is free or
\* carries p's token, takes the claim from nobody who acts.
LEMMA TakeStep ==
  ASSUME IInv, NEW p \in Places, pc[p] \in {"starting", "refused"},
         \/ owner' = owner
         \/ owner' = me[p] /\ (owner = NoOwner \/ Reclaimable(p)),
         UNCHANGED <<me, token, task, op>>,
         pc'[p] # "off", \A q \in Places : q # p => pc'[q] = pc[q],
         pc'[p] = "starting" => task[p] = Idle
  PROVE  Named' /\ Tokened' /\ Quiet' /\ SureIsDead' /\ ActorHoldsClaim'
<1>1. \A q \in Places : Alive(q)' = Alive(q)
  BY DEF Alive
<1>2. Named' /\ Tokened'
  BY <1>1, SameNames DEF Alive
<1>3. task[p] = Idle
  BY DEF IInv, Quiet
<1>4. Quiet' /\ SureIsDead'
  BY <1>1, <1>3 DEF IInv, Quiet, SureIsDead
<1>5. ActorHoldsClaim'
  <2>1. SUFFICES ASSUME NEW q \in Places, NEW k \in Kinds, task[q][k] = "acting"
                 PROVE  owner' = me[q]
    BY DEF ActorHoldsClaim
  <2>2. q # p
    BY <1>3, <2>1 DEF Idle
  <2>3. owner' = owner
    BY <2>1, <2>2, Actor DEF Reclaimable, Alive
  <2>4. QED
    BY <2>1, <2>3, Actor
<1>6. QED
  BY <1>2, <1>4, <1>5

LEMMA ClaimAction ==
  ASSUME IInv, NEW p \in Places, Claim(p) \/ Reclaim(p)
  PROVE  IInv'
<1>1. /\ pc[p] \in {"starting", "refused"}
      /\ pc'[p] \in {"booting", "refused"}
      /\ UNCHANGED <<me, token, task, op>>
      /\ \A q \in Places : q # p => pc'[q] = pc[q]
      /\ \/ owner' = owner
         \/ owner' = me[p] /\ (owner = NoOwner \/ Reclaimable(p))
  BY DEF Claim, Reclaim, SetNX, Acquired, Go, IInv, TypeOK
<1>2. me[p] \in Owners
  BY <1>1 DEF IInv, Named, Alive
<1>3. TypeOK'
  <2>1. owner' \in Owners \cup {NoOwner}
    BY <1>1, <1>2 DEF IInv, TypeOK
  <2>2. pc' \in [Places -> PCs]
    <3>1. Go(p, "booting") \/ Go(p, "refused")
      BY DEF Claim, Reclaim, Acquired
    <3>2. QED
      BY <3>1 DEF Go, IInv, TypeOK, PCs
  <2>3. acquired' \in [Places -> BOOLEAN] /\ doubt' \in [Places -> BOOLEAN]
    BY DEF Claim, Reclaim, Acquired, IInv, TypeOK
  <2>4. UNCHANGED <<stopping, failed, inStart, redis, paused>>
    BY DEF Claim, Reclaim, Acquired
  <2>5. QED
    BY <1>1, <2>1, <2>2, <2>3, <2>4 DEF IInv, TypeOK
<1>4. QED
  BY <1>1, <1>3, TakeStep DEF IInv

LEMMA StartFailsAction ==
  ASSUME IInv, NEW p \in Places, StartFails(p)
  PROVE  IInv'
<1>1. /\ Alive(p) /\ pc'[p] = "draining"
      /\ UNCHANGED <<me, token, op>>
      /\ \A q \in Places : q # p => pc'[q] = pc[q] /\ task'[q] = task[q]
      /\ \A k \in Kinds : task'[p][k] = "acting" => task[p][k] = "acting"
  BY DEF StartFails, CancelTasks, Go, Alive, Runs, IInv, TypeOK, Kinds
<1>2. \/ owner' = owner
      \/ /\ pc[p] \in {"starting", "refused"}
         /\ owner' = me[p] /\ (owner = NoOwner \/ Reclaimable(p))
  BY DEF StartFails, SetNX
<1>3. TypeOK'
  <2>1. owner' \in Owners \cup {NoOwner}
    BY <1>1, <1>2 DEF IInv, TypeOK, Named
  <2>2. pc' \in [Places -> PCs] /\ stopping' \in [Places -> BOOLEAN]
    BY DEF StartFails, CancelTasks, Go, IInv, TypeOK, PCs
  <2>3. /\ failed' \in [Places -> BOOLEAN] /\ inStart' \in [Places -> BOOLEAN]
        /\ doubt' \in [Places -> BOOLEAN]
    BY DEF StartFails, IInv, TypeOK
  <2>4. task' \in [Places -> [Kinds -> {"idle", "acting"}]]
    BY DEF StartFails, CancelTasks, IInv, TypeOK, Kinds
  <2>5. UNCHANGED <<acquired, redis, paused>>
    BY DEF StartFails
  <2>6. QED
    BY <1>1, <2>1, <2>2, <2>3, <2>4, <2>5 DEF IInv, TypeOK
<1>4. \A q \in Places : Alive(q)' = Alive(q)
  BY <1>1 DEF Alive
<1>5. Named' /\ Tokened'
  BY <1>1, <1>2, <1>4, SameNames
<1>6. Quiet' /\ SureIsDead'
  BY <1>1, <1>4 DEF IInv, Quiet, SureIsDead
<1>7. ActorHoldsClaim'
  <2>1. SUFFICES ASSUME NEW q \in Places, NEW k \in Kinds, task'[q][k] = "acting"
                 PROVE  owner' = me[q]
    BY <1>1 DEF ActorHoldsClaim
  <2>2. task[q][k] = "acting"
    BY <1>1, <2>1
  <2>3. owner' = owner
    BY <1>1, <1>2, <2>2, Actor DEF Reclaimable
  <2>4. QED
    BY <2>2, <2>3, Actor
<1>8. QED
  BY <1>3, <1>5, <1>6, <1>7 DEF IInv

\* Steps of one process that neither touch the key nor begin to act.
LEMMA QuietStep ==
  ASSUME IInv, NEW p \in Places, TypeOK', Alive(p), pc'[p] # "off",
         pc'[p] \notin {"starting", "refused"},
         UNCHANGED <<owner, me, token, op>>,
         \A q \in Places : q # p => pc'[q] = pc[q] /\ task'[q] = task[q],
         \A k \in Kinds : task'[p][k] = "acting" => task[p][k] = "acting"
  PROVE  IInv'
<1>1. \A q \in Places : Alive(q)' = Alive(q)
  BY DEF Alive
<1>2. Named' /\ Tokened'
  BY <1>1, SameNames
<1>3. Quiet' /\ SureIsDead' /\ ActorHoldsClaim'
  BY <1>1 DEF IInv, Quiet, SureIsDead, ActorHoldsClaim
<1>4. QED
  BY <1>2, <1>3 DEF IInv

LEMMA ShutdownAction ==
  ASSUME IInv, NEW p \in Places, Stop(p) \/ DrainBus(p) \/ StopSinks(p) \/ Proceed(p)
  PROVE  IInv'
<1>1. /\ Alive(p)
      /\ pc'[p] \in {"draining", "sinks", "releasing", "subscribed", "running"}
      /\ UNCHANGED <<owner, me, token, op, acquired, inStart, redis, paused>>
      /\ \A q \in Places : q # p => pc'[q] = pc[q] /\ task'[q] = task[q]
      /\ \A k \in Kinds : task'[p][k] = "acting" => task[p][k] = "acting"
  BY DEF Stop, DrainBus, StopSinks, Proceed, CancelTasks, Go, Alive, Runs, IInv,
         TypeOK, Idle, Kinds
<1>2. TypeOK'
  <2>1. CASE Stop(p)
    <3>1. failed' \in [Places -> BOOLEAN] /\ doubt' \in [Places -> BOOLEAN]
      <4>1. PICK taskFails \in MayFail :
              /\ failed' = [failed EXCEPT ![p] = taskFails]
              /\ doubt' = [doubt EXCEPT ![p] = @ \/ taskFails]
        BY <2>1 DEF Stop
      <4>2. taskFails \in BOOLEAN /\ (doubt[p] \/ taskFails) \in BOOLEAN
        BY DEF MayFail
      <4>3. QED
        BY <4>1, <4>2 DEF IInv, TypeOK
    <3>2. pc' \in [Places -> PCs] /\ stopping' \in [Places -> BOOLEAN]
      BY <2>1 DEF Stop, CancelTasks, Go, IInv, TypeOK, PCs
    <3>3. /\ task' \in [Places -> [Kinds -> {"idle", "acting"}]]
          /\ pc'[p] = "draining"
      BY <2>1 DEF Stop, CancelTasks, Go, IInv, TypeOK, Kinds
    <3>4. QED
      BY <1>1, <3>1, <3>2, <3>3 DEF IInv, TypeOK
  <2>2. CASE DrainBus(p)
    BY <2>2 DEF DrainBus, Go, IInv, TypeOK, PCs, Idle, Kinds
  <2>3. CASE StopSinks(p)
    BY <2>3 DEF StopSinks, Go, MayFail, IInv, TypeOK, PCs
  <2>4. CASE Proceed(p)
    BY <2>4 DEF Proceed, Go, IInv, TypeOK, PCs
  <2>5. QED
    BY <2>1, <2>2, <2>3, <2>4
<1>3. QED
  BY <1>1, <1>2, QuietStep

\* Deleting the key on behalf of a process that does nothing, or of an id no
\* live process has, takes the claim from nobody who acts.
LEMMA DeleteStep ==
  ASSUME IInv, NEW holder, CompareAndDelete(holder),
         \A q \in Places : me[q].id = holder /\ Alive(q) => task[q] = Idle
  PROVE  /\ owner' \in {owner, NoOwner}
         /\ \A q \in Places : \A k \in Kinds :
                task[q][k] = "acting" => owner' = me[q]
<1>1. owner' \in {owner, NoOwner}
  BY DEF CompareAndDelete
<1>2. ASSUME NEW q \in Places, NEW k \in Kinds, task[q][k] = "acting"
      PROVE  owner' = me[q]
  <2>1. Alive(q) /\ owner = me[q]
    BY <1>2, Actor
  <2>2. task[q] # Idle
    BY <1>2 DEF Idle
  <2>3. owner.id # holder
    BY <2>1, <2>2
  <2>4. QED
    BY <2>1, <2>3 DEF CompareAndDelete
<1>3. QED
  BY <1>1, <1>2

LEMMA ReleaseAction ==
  ASSUME IInv, NEW p \in Places, Release(p)
  PROVE  IInv'
<1>1. /\ pc[p] = "releasing" /\ pc'[p] = "disconnecting"
      /\ UNCHANGED <<me, token, task, op, stopping, inStart, redis, paused>>
      /\ \A q \in Places : q # p => pc'[q] = pc[q]
      /\ owner' = owner \/ CompareAndDelete(me[p].id)
  BY DEF Release, Go, IInv, TypeOK
<1>2. task[p] = Idle /\ Alive(p)
  BY <1>1 DEF IInv, TypeOK, Alive
<1>3. /\ owner' \in {owner, NoOwner}
      /\ \A q \in Places : \A k \in Kinds : task[q][k] = "acting" => owner' = me[q]
  <2>1. CASE owner' = owner
    BY <2>1, Actor
  <2>2. CASE CompareAndDelete(me[p].id)
    <3>1. \A q \in Places : me[q].id = me[p].id /\ Alive(q) => task[q] = Idle
      BY <1>2 DEF IInv, Named
    <3>2. QED
      BY <2>2, <3>1, DeleteStep
  <2>3. QED
    BY <1>1, <2>1, <2>2
<1>4. TypeOK'
  <2>1. owner' \in Owners \cup {NoOwner}
    BY <1>3 DEF IInv, TypeOK
  <2>2. /\ pc' \in [Places -> PCs] /\ acquired' \in [Places -> BOOLEAN]
        /\ failed' \in [Places -> BOOLEAN] /\ doubt' \in [Places -> BOOLEAN]
    BY DEF Release, Go, IInv, TypeOK, PCs
  <2>3. QED
    BY <1>1, <1>2, <2>1, <2>2 DEF IInv, TypeOK
<1>5. \A q \in Places : Alive(q)' = Alive(q)
  BY <1>1 DEF Alive
<1>6. Named' /\ Tokened'
  BY <1>1, <1>3, <1>5, SameNames
<1>7. Quiet' /\ SureIsDead' /\ ActorHoldsClaim'
  BY <1>1, <1>3, <1>5 DEF IInv, Quiet, SureIsDead, ActorHoldsClaim
<1>8. QED
  BY <1>4, <1>6, <1>7 DEF IInv

LEMMA DisconnectAction ==
  ASSUME IInv, NEW p \in Places, Disconnect(p)
  PROVE  IInv'
<1>1. PICK fails \in MayFail :
        IF inStart[p] /\ (failed[p] \/ fails)
        THEN /\ Go(p, "draining")
             /\ failed' = [failed EXCEPT ![p] = FALSE]
             /\ inStart' = [inStart EXCEPT ![p] = FALSE]
             /\ redis' = [redis EXCEPT ![p] = @ /\ fails]
             /\ doubt' = [doubt EXCEPT ![p] = TRUE]
             /\ UNCHANGED <<me, acquired, stopping, task>>
        ELSE /\ Gone(p)
             /\ failed' = [failed EXCEPT ![p] = FALSE]
  BY DEF Disconnect
<1>2. /\ UNCHANGED <<owner, token, paused, op>>
      /\ pc[p] = "disconnecting" /\ Alive(p)
  BY DEF Disconnect, Alive
<1>3. CASE inStart[p] /\ (failed[p] \/ fails)
  <2>1. redis' \in [Places -> BOOLEAN]
    <3>1. (redis[p] /\ fails) \in BOOLEAN
      OBVIOUS
    <3>2. redis' = [redis EXCEPT ![p] = redis[p] /\ fails]
      BY <1>1, <1>3
    <3>3. QED
      BY <3>1, <3>2 DEF IInv, TypeOK
  <2>2. pc' \in [Places -> PCs] /\ pc'[p] = "draining"
    BY <1>1, <1>3 DEF Go, IInv, TypeOK, PCs
  <2>3. TypeOK'
    BY <1>1, <1>2, <1>3, <2>1, <2>2 DEF Go, IInv, TypeOK
  <2>4. QED
    BY <1>1, <1>2, <1>3, <2>3, QuietStep DEF Go, IInv, TypeOK
<1>4. CASE ~(inStart[p] /\ (failed[p] \/ fails))
  <2>1. Gone(p) /\ failed' = [failed EXCEPT ![p] = FALSE]
    BY <1>1, <1>4
  <2>2. TypeOK'
    BY <1>2, <2>1 DEF Gone, Go, IInv, TypeOK, PCs, Idle, Kinds
  <2>3. QED
    BY <1>2, <2>1, <2>2, GoneStep DEF IInv
<1>5. QED
  BY <1>3, <1>4

\* Only a process that owns the key begins to act.
LEMMA CheckAction ==
  ASSUME IInv, NEW p \in Places, NEW k \in Kinds, CheckOwnership(p, k)
  PROVE  IInv'
<1>1. /\ UNCHANGED <<owner, token, pc, me, acquired, failed, inStart, redis, paused,
                     doubt, op>>
      /\ pc[p] \in {"booting", "subscribed", "running", "draining"}
      /\ \A q \in Places : q # p => task'[q] = task[q]
      /\ \A j \in Kinds : task'[p][j] = "acting" =>
            task[p][j] = "acting" \/ owner = me[p]
  BY DEF CheckOwnership, MayWork, StillOwner, IInv, TypeOK, Kinds
<1>2. TypeOK'
  <2>1. stopping' \in [Places -> BOOLEAN]
    BY DEF CheckOwnership, IInv, TypeOK
  <2>2. task' \in [Places -> [Kinds -> {"idle", "acting"}]]
    <3>1. \/ task' = task
          \/ task' = [task EXCEPT ![p][k] = "acting"]
      BY DEF CheckOwnership
    <3>2. task \in [Places -> [Kinds -> {"idle", "acting"}]]
      BY DEF IInv, TypeOK
    <3>3. QED
      BY <3>1, <3>2
  <2>3. QED
    BY <1>1, <2>1, <2>2 DEF IInv, TypeOK
<1>3. QED
  BY <1>1, <1>2 DEF IInv, Named, Tokened, Quiet, SureIsDead, ActorHoldsClaim, Alive

LEMMA EffectAction ==
  ASSUME IInv, NEW p \in Places, NEW k \in Kinds, Effect(p, k)
  PROVE  IInv'
<1>1. /\ UNCHANGED <<owner, token, pc, me, acquired, stopping, failed, inStart,
                     redis, paused, doubt, op>>
      /\ \A q \in Places : q # p => task'[q] = task[q]
      /\ \A j \in Kinds : task'[p][j] = "acting" => task[p][j] = "acting"
  BY DEF Effect, IInv, TypeOK, Kinds
<1>2. pc[p] \notin {"off", "starting", "refused", "sinks", "releasing",
                    "disconnecting"} /\ Alive(p)
  BY Actor DEF Effect
<1>3. TypeOK'
  BY <1>1, <1>2 DEF Effect, IInv, TypeOK, Kinds
<1>4. QED
  BY <1>1, <1>2, <1>3, QuietStep

LEMMA OperatorAction ==
  ASSUME IInv, OperatorConfirms, OperatorStep
  PROVE  IInv'
<1>1. UNCHANGED <<token, pc, me, acquired, stopping, task, failed, inStart, redis,
                  doubt, paused>>
  BY DEF OperatorStep, ShowHolder, PingUnanswered, Confirm, Clear, GiveUp, procVars
<1>2. CASE Clear
  <2>1. \A q \in Places : me[q].id = op.holder /\ Alive(q) => task[q] = Idle
    BY <1>2 DEF Clear, IInv, SureIsDead
  <2>2. /\ owner' \in {owner, NoOwner}
        /\ \A q \in Places : \A k \in Kinds :
                task[q][k] = "acting" => owner' = me[q]
    BY <1>2, <2>1, DeleteStep DEF Clear
  <2>3. op' = NoClear
    BY <1>2 DEF Clear
  <2>4. TypeOK'
    BY <1>1, <2>2, <2>3 DEF IInv, TypeOK, NoClear
  <2>5. \A q \in Places : Alive(q)' = Alive(q)
    BY <1>1 DEF Alive
  <2>6. Named' /\ Tokened'
    BY <1>1, <2>2, <2>5, SameNames
  <2>7. Quiet' /\ SureIsDead' /\ ActorHoldsClaim'
    BY <1>1, <2>2, <2>3 DEF IInv, Quiet, SureIsDead, ActorHoldsClaim, NoClear
  <2>8. QED
    BY <2>4, <2>6, <2>7 DEF IInv
<1>3. CASE ~Clear
  <2>1. /\ owner' = owner
        /\ op' \in [step : {"idle", "shown", "silent", "sure"},
                    holder : Ids \cup {None}]
        /\ op'.step = "sure" => \A p \in Places : Alive(p) => me[p].id # op'.holder
    BY <1>3 DEF OperatorStep, ShowHolder, PingUnanswered, Confirm, GiveUp, Operator,
                NoClear, NoOwner, Owners, IInv, TypeOK
  <2>2. QED
    BY <1>1, <2>1 DEF IInv, TypeOK, Named, Tokened, Quiet, SureIsDead,
                      ActorHoldsClaim, Alive
<1>4. QED
  BY <1>2, <1>3

LEMMA StepIInv ==
  ASSUME IInv, OperatorConfirms, [Next]_vars
  PROVE  IInv'
<1>1. ASSUME NEW p \in Places, ProcessStep(p)
      PROVE  IInv'
  BY <1>1, LaunchAction, CrashAction, FlagAction, ClaimAction, StartFailsAction,
     ShutdownAction, ReleaseAction, DisconnectAction, CheckAction, EffectAction
  DEF ProcessStep
<1>2. CASE OperatorStep
  BY <1>2, OperatorAction
<1>3. CASE UNCHANGED vars
  BY <1>3 DEF vars, IInv, TypeOK, Named, Tokened, Quiet, SureIsDead,
              ActorHoldsClaim, Alive
<1>4. QED
  BY <1>1, <1>2, <1>3 DEF Next, ProcessStep, OperatorStep

(***************************************************************************)
(* The theorems.                                                           *)
(***************************************************************************)

\* The variables keep their types, and nothing works once the bus is closed.
THEOREM OwnershipTypeCorrect ==
  ASSUME OperatorConfirms
  PROVE  Spec => []TypeOK
<1>1. IInv => TypeOK
  BY DEF IInv
<1>2. QED
  BY <1>1, InitIInv, StepIInv, PTL DEF Spec

\* An operator who clears only dead holders never makes a runner act without
\* the claim, however processes crash, hang, restart or fail to release it.
THEOREM ActingIsOwned ==
  ASSUME OperatorConfirms
  PROVE  Spec => []ActorHoldsClaim
<1>1. IInv => ActorHoldsClaim
  BY DEF IInv
<1>2. QED
  BY <1>1, InitIInv, StepIInv, PTL DEF Spec

\* The only step that takes the key from a live process is its own release.
LEMMA OwnReleaseOnly ==
  ASSUME IInv, OperatorConfirms, Next, NEW p \in Places, Alive(p),
         owner = me[p], owner' # owner
  PROVE  pc[p] = "releasing"
<1>1. owner # NoOwner /\ owner.id = me[p].id
  BY NoneAssumption DEF IInv, Named, NoOwner, Owners
<1>2. ASSUME NEW q \in Places, Claim(q) \/ Reclaim(q) \/ StartFails(q)
      PROVE  FALSE
  <2>1. Reclaimable(q) /\ owner' = me[q] /\ Alive(q)
    BY <1>1, <1>2 DEF Claim, Reclaim, StartFails, SetNX, Alive, Runs
  <2>2. me[p].token = me[q].token /\ me[q].token # None
    BY <2>1 DEF Reclaimable
  <2>3. p = q
    BY <2>1, <2>2 DEF IInv, Tokened
  <2>4. QED
    BY <2>1, <2>3
<1>3. ASSUME NEW q \in Places, Release(q)
      PROVE  pc[p] = "releasing"
  <2>1. pc[q] = "releasing" /\ Alive(q) /\ CompareAndDelete(me[q].id)
    BY <1>3 DEF Release, Alive
  <2>2. owner.id = me[q].id
    BY <2>1 DEF CompareAndDelete
  <2>3. p = q
    BY <1>1, <2>1, <2>2 DEF IInv, Named
  <2>4. QED
    BY <2>1, <2>3
<1>4. CASE Clear
  <2>1. owner.id # op.holder
    BY <1>1, <1>4 DEF Clear, IInv, SureIsDead
  <2>2. QED
    BY <1>4, <2>1 DEF Clear, CompareAndDelete
<1>5. CASE ShowHolder \/ PingUnanswered \/ Confirm \/ GiveUp
  BY <1>5 DEF ShowHolder, PingUnanswered, Confirm, GiveUp
<1>6. ASSUME NEW q \in Places, NEW k \in Kinds, CheckOwnership(q, k) \/ Effect(q, k)
      PROVE  FALSE
  BY <1>6 DEF CheckOwnership, Effect
<1>7. ASSUME NEW q \in Places,
             \/ Launch(q) \/ Recreate(q) \/ Crash(q) \/ Pause(q) \/ Resume(q)
             \/ RequestStop(q) \/ Stop(q) \/ DrainBus(q) \/ StopSinks(q)
             \/ Disconnect(q) \/ Proceed(q)
      PROVE  FALSE
  BY <1>7 DEF Launch, Recreate, LaunchWith, Crash, Pause, Resume, RequestStop, Stop,
              DrainBus, StopSinks, Disconnect, Proceed
<1>8. QED
  BY <1>2, <1>3, <1>4, <1>5, <1>6, <1>7 DEF Next

\* No clear, reclaim or shutdown of another process takes a live claim.
THEOREM LiveClaimKept ==
  ASSUME OperatorConfirms
  PROVE  Spec => LiveClaimIsKept
<1>1. IInv /\ [Next]_vars =>
        [\A p \in Places :
            Alive(p) /\ owner = me[p] /\ owner' # owner => pc[p] = "releasing"]_vars
  BY OwnReleaseOnly
<1>2. QED
  BY <1>1, InitIInv, StepIInv, PTL DEF Spec, LiveClaimIsKept

-----------------------------------------------------------------------------
(* The start of ingestion, for any scopes, plans, bars and deaths          *)
(* (state_guard.py).  What a start has looked at is its own: the ticks     *)
(* already read, the lists already discarded, and after the judgement      *)
(* everything.                                                             *)
GuardAssumption == \A b \in Legacy : b.closes \in Int
Steps == {"down", "reading", "discarding", "recording", "running"}
GuardTypeOK ==
    /\ phase \in [at : Steps, todo : SUBSET Symbols, horizon : Int]
    /\ DOMAIN plan \subseteq Symbols
    /\ DOMAIN ticks = Symbols
    /\ now \in Int
    /\ \A b \in closed \cup opened \cup outbox : b.closes \in Int

\* A staged close is listed unless its list was discarded without it.
StagedIsListed == outbox \subseteq closed \cup loose

TicksAreRead ==
    phase.at \in Steps \ {"down", "running"} =>
        \A s \in DOMAIN plan : phase.at # "reading" \/ s \notin phase.todo =>
            ticks[s] \in {Guard!NoTick, plan[s]}

DiscardedAreGone ==
    phase.at = "discarding" =>
        \A b \in closed \cup opened : b.symbol \in DOMAIN plan => b.symbol \in phase.todo

BuiltOnIsOwn ==
    phase.at = "recording" =>
        /\ \A b \in Guard!Kept : b.by = plan[b.symbol]
        /\ Guard!StagedIsOwnOrLeft
        /\ Guard!NothingIsAhead

GuardInv == GuardTypeOK /\ StagedIsListed /\ TicksAreRead /\ DiscardedAreGone /\ BuiltOnIsOwn

LEMMA GuardStart == GuardAssumption /\ Guard!Init => GuardInv
BY DEF GuardAssumption, Guard!Init, Guard!Down, GuardInv, GuardTypeOK, Steps, StagedIsListed, TicksAreRead,
       DiscardedAreGone, BuiltOnIsOwn

(* A step after which the service runs, or is down. *)
LEMMA OutsideTheGuard ==
    ASSUME GuardTypeOK', StagedIsListed', phase'.at \in {"down", "running"} PROVE GuardInv'
BY DEF GuardInv, TicksAreRead, DiscardedAreGone, BuiltOnIsOwn, Steps

LEMMA ClockKeepsGuard ==
    ASSUME GuardInv, Guard!Clock \/ UNCHANGED Guard!guardVars PROVE GuardInv'
<1>1. /\ UNCHANGED <<scope, plan, ticks, closed, opened, outbox, writer, phase, loose>>
      /\ now' \in Int
  BY DEF Guard!Clock, Guard!guardVars, GuardInv, GuardTypeOK
<1>2. Guard!Kept' = Guard!Kept /\ Guard!StagedIsOwnOrLeft' = Guard!StagedIsOwnOrLeft
      /\ Guard!NothingIsAhead' = Guard!NothingIsAhead
  BY <1>1 DEF Guard!Kept, Guard!Subscribed, Guard!AnySynthetic, Guard!Accepts,
     Guard!StagedIsOwnOrLeft, Guard!NothingIsAhead
<1> QED
  BY <1>1, <1>2 DEF GuardInv, GuardTypeOK, StagedIsListed, TicksAreRead, DiscardedAreGone, BuiltOnIsOwn

LEMMA BeginsKeepsGuard ==
    ASSUME GuardInv, Guard!Begins PROVE GuardInv'
<1>1. /\ plan' \in Guard!Plans /\ phase' = [at |-> "reading", todo |-> DOMAIN plan', horizon |-> now]
      /\ UNCHANGED <<now, scope, ticks, closed, opened, outbox, writer, loose>>
  BY DEF Guard!Begins
<1>2. DOMAIN plan' \subseteq Symbols BY <1>1 DEF Guard!Plans
<1> QED
  BY <1>1, <1>2 DEF GuardInv, GuardTypeOK, Steps, StagedIsListed, TicksAreRead, DiscardedAreGone,
     BuiltOnIsOwn

LEMMA ReadsTickKeepsGuard ==
    ASSUME GuardInv, NEW s \in Symbols, Guard!ReadsTick(s) PROVE GuardInv'
<1>1. /\ phase.at = "reading" /\ s \in phase.todo
      /\ ticks' = [ticks EXCEPT ![s] = IF @ = Guard!ExpectedOrigin(s) THEN @ ELSE Guard!NoTick]
      /\ phase' = [phase EXCEPT !.todo = @ \ {s}]
      /\ UNCHANGED <<now, scope, plan, closed, opened, outbox, writer, loose>>
  BY DEF Guard!ReadsTick
<1>2. GuardTypeOK BY DEF GuardInv
<1>3. /\ phase'.at = "reading" /\ phase'.todo = phase.todo \ {s} /\ phase'.horizon = phase.horizon
      /\ phase' \in [at : Steps, todo : SUBSET Symbols, horizon : Int]
  BY <1>1, <1>2 DEF GuardTypeOK
<1>4. GuardTypeOK' BY <1>1, <1>2, <1>3 DEF GuardTypeOK
<1>5. ticks'[s] \in {Guard!NoTick, plan[s]} BY <1>1, <1>2 DEF GuardTypeOK, Guard!ExpectedOrigin
<1>6. \A r \in Symbols \ {s} : ticks'[r] = ticks[r] BY <1>1, <1>2 DEF GuardTypeOK
<1>7. TicksAreRead' BY <1>1, <1>2, <1>3, <1>5, <1>6 DEF GuardInv, TicksAreRead, GuardTypeOK, Steps
<1> QED
  BY <1>1, <1>3, <1>4, <1>7 DEF GuardInv, StagedIsListed, DiscardedAreGone, BuiltOnIsOwn

LEMMA JudgesKeepsGuard ==
    ASSUME GuardInv, Guard!Judges PROVE GuardInv'
<1>1. /\ phase.at = "reading" /\ phase.todo = {}
      /\ UNCHANGED <<now, scope, plan, ticks, closed, opened, outbox, writer, loose>>
  BY DEF Guard!Judges
<1>2. GuardTypeOK /\ StagedIsListed /\ TicksAreRead BY DEF GuardInv
<1>3. \A s \in DOMAIN plan : ticks[s] \in {Guard!NoTick, plan[s]}
  BY <1>1, <1>2 DEF TicksAreRead, Steps
<1>4. CASE phase' = [phase EXCEPT !.at = "discarding", !.todo = Guard!Subscribed]
  <2>1. /\ phase'.at = "discarding" /\ phase'.todo = DOMAIN plan
        /\ phase' \in [at : Steps, todo : SUBSET Symbols, horizon : Int]
    BY <1>2, <1>4 DEF GuardTypeOK, Guard!Subscribed, Steps
  <2> QED
    BY <1>1, <1>2, <1>3, <2>1 DEF GuardInv, GuardTypeOK, StagedIsListed, TicksAreRead,
       DiscardedAreGone, BuiltOnIsOwn
<1>5. CASE /\ phase' = [phase EXCEPT !.at = "recording"]
           /\ ~Guard!ForeignBars /\ ~Guard!ForeignOutbox
           /\ Guard!AnySynthetic \/ ~Guard!FutureDated
  <2>1. /\ phase'.at = "recording" /\ phase'.horizon = phase.horizon
        /\ phase' \in [at : Steps, todo : SUBSET Symbols, horizon : Int]
    BY <1>2, <1>5 DEF GuardTypeOK, Steps
  <2>2. GuardTypeOK' /\ StagedIsListed' /\ TicksAreRead' /\ DiscardedAreGone'
    BY <1>1, <1>2, <1>3, <2>1 DEF GuardTypeOK, StagedIsListed, TicksAreRead, DiscardedAreGone
  <2>3. \A b \in Guard!Kept : b.by = plan[b.symbol]
    BY <1>5 DEF Guard!ForeignBars, Guard!ExpectedOrigin
  <2>4. \A b \in outbox : b.symbol \in DOMAIN plan => b \in Guard!Kept \/ b \in loose
    BY <1>2 DEF StagedIsListed, Guard!Kept, Guard!Subscribed
  <2>5. Guard!StagedIsOwnOrLeft
    BY <1>5, <2>3, <2>4 DEF Guard!StagedIsOwnOrLeft, Guard!ForeignOutbox, Guard!Subscribed
  <2>6. ASSUME ~Guard!AnySynthetic
        PROVE  /\ \A b \in closed : b.symbol \in DOMAIN plan => ~(b.closes > phase.horizon)
               /\ \A b \in opened : b.symbol \in DOMAIN plan => ~(b.closes - 1 > phase.horizon)
               /\ \A b \in outbox : ~(b.closes > phase.horizon)
    BY <1>5, <2>6 DEF Guard!FutureDated, Guard!Subscribed
  <2>7. /\ \A b \in closed \cup opened \cup outbox : b.closes \in Int
        /\ phase.horizon \in Int
    BY <1>2 DEF GuardTypeOK
  <2>8. Guard!NothingIsAhead
    BY <2>6, <2>7 DEF Guard!NothingIsAhead, Guard!Subscribed
  <2>9. /\ Guard!Kept' = Guard!Kept /\ Guard!StagedIsOwnOrLeft' = Guard!StagedIsOwnOrLeft
        /\ Guard!NothingIsAhead' = Guard!NothingIsAhead
    BY <1>1, <2>1 DEF Guard!Kept, Guard!Subscribed, Guard!AnySynthetic, Guard!Accepts,
       Guard!StagedIsOwnOrLeft, Guard!NothingIsAhead
  <2>10. BuiltOnIsOwn'
    BY <1>1, <2>3, <2>5, <2>8, <2>9 DEF BuiltOnIsOwn
  <2> QED BY <2>2, <2>10 DEF GuardInv
<1> QED BY <1>4, <1>5 DEF Guard!Judges

LEMMA DropsTickKeepsGuard ==
    ASSUME GuardInv, NEW s \in Symbols, Guard!DropsTick(s) PROVE GuardInv'
<1>1. /\ phase.at = "discarding"
      /\ ticks' = [ticks EXCEPT ![s] = Guard!NoTick]
      /\ UNCHANGED <<now, scope, plan, closed, opened, outbox, writer, phase, loose>>
  BY DEF Guard!DropsTick
<1>2. GuardTypeOK BY DEF GuardInv
<1>3. \A r \in Symbols : ticks'[r] \in {Guard!NoTick, ticks[r]} BY <1>1, <1>2 DEF GuardTypeOK
<1>4. GuardTypeOK' BY <1>1, <1>2 DEF GuardTypeOK
<1>5. TicksAreRead' BY <1>1, <1>2, <1>3 DEF GuardInv, TicksAreRead, GuardTypeOK, Steps
<1> QED BY <1>1, <1>4, <1>5 DEF GuardInv, StagedIsListed, DiscardedAreGone, BuiltOnIsOwn

LEMMA DiscardsKeepsGuard ==
    ASSUME GuardInv, NEW s \in Symbols, Guard!Discards(s) PROVE GuardInv'
<1>1. /\ phase.at = "discarding" /\ s \in phase.todo
      /\ closed' = {b \in closed : b.symbol # s} /\ opened' = {b \in opened : b.symbol # s}
      /\ loose' = loose \cup {b \in outbox : b.symbol = s}
      /\ phase' = [phase EXCEPT !.todo = @ \ {s}]
      /\ UNCHANGED <<now, scope, plan, ticks, outbox, writer>>
  BY DEF Guard!Discards
<1>2. GuardTypeOK BY DEF GuardInv
<1>3. /\ phase'.at = "discarding" /\ phase'.todo = phase.todo \ {s}
      /\ phase' \in [at : Steps, todo : SUBSET Symbols, horizon : Int]
  BY <1>1, <1>2 DEF GuardTypeOK
<1>4. GuardTypeOK' BY <1>1, <1>2, <1>3 DEF GuardTypeOK
<1>5. TicksAreRead' BY <1>1, <1>2, <1>3 DEF GuardInv, TicksAreRead, GuardTypeOK, Steps
<1>6. StagedIsListed' BY <1>1 DEF GuardInv, StagedIsListed
<1>7. DiscardedAreGone' BY <1>1, <1>3 DEF GuardInv, DiscardedAreGone
<1> QED BY <1>3, <1>4, <1>5, <1>6, <1>7 DEF GuardInv, BuiltOnIsOwn

LEMMA DiscardsOutboxKeepsGuard ==
    ASSUME GuardInv, Guard!DiscardsOutbox PROVE GuardInv'
<1>1. /\ phase.at = "discarding" /\ phase.todo = {} /\ outbox' = {} /\ loose' = {}
      /\ phase' = [phase EXCEPT !.at = "recording"]
      /\ UNCHANGED <<now, scope, plan, ticks, closed, opened, writer>>
  BY DEF Guard!DiscardsOutbox
<1>2. GuardTypeOK BY DEF GuardInv
<1>3. phase'.at = "recording" /\ phase' \in [at : Steps, todo : SUBSET Symbols, horizon : Int]
  BY <1>1, <1>2 DEF GuardTypeOK, Steps
<1>4. GuardTypeOK' /\ StagedIsListed' BY <1>1, <1>2, <1>3 DEF GuardTypeOK, StagedIsListed
<1>5. TicksAreRead' BY <1>1, <1>3 DEF GuardInv, TicksAreRead, Steps
<1>6. \A b \in closed \cup opened : b.symbol \notin DOMAIN plan
  BY <1>1 DEF GuardInv, DiscardedAreGone
<1>7. BuiltOnIsOwn'
  BY <1>1, <1>6 DEF BuiltOnIsOwn, Guard!Kept, Guard!Subscribed, Guard!StagedIsOwnOrLeft,
     Guard!NothingIsAhead
<1> QED BY <1>3, <1>4, <1>5, <1>7 DEF GuardInv, DiscardedAreGone

LEMMA RunningKeepsGuard ==
    ASSUME GuardInv,
           \/ Guard!Records \/ Guard!Ends
           \/ \E s \in Symbols : Guard!OpensBar(s) \/ Guard!Flushed(s)
           \/ \E b \in opened : Guard!Stages(b)
           \/ \E b \in outbox : Guard!Drains(b)
    PROVE  GuardInv'
<1>1. GuardTypeOK /\ StagedIsListed BY DEF GuardInv
<1>2. CASE Guard!Records
  <2>1. phase'.at = "running" /\ phase' \in [at : Steps, todo : SUBSET Symbols, horizon : Int]
    BY <1>1, <1>2 DEF Guard!Records, GuardTypeOK, Steps
  <2>2. GuardTypeOK' /\ StagedIsListed'
    BY <1>1, <1>2, <2>1 DEF Guard!Records, GuardTypeOK, StagedIsListed
  <2> QED BY <2>1, <2>2, OutsideTheGuard
<1>3. CASE Guard!Ends
  <2>1. phase'.at = "down" /\ phase' \in [at : Steps, todo : SUBSET Symbols, horizon : Int]
    BY <1>3 DEF Guard!Ends, Guard!Down, Steps
  <2>2. GuardTypeOK' /\ StagedIsListed'
    BY <1>1, <1>3, <2>1 DEF Guard!Ends, GuardTypeOK, StagedIsListed
  <2> QED BY <2>1, <2>2, OutsideTheGuard
<1>4. CASE \E s \in Symbols : Guard!OpensBar(s)
  <2>0. \A b \in opened' : b.closes \in Int
    BY <1>1, <1>4 DEF Guard!OpensBar, Guard!Bar, GuardTypeOK
  <2>1. phase' = phase /\ phase.at = "running" BY <1>4 DEF Guard!OpensBar, Guard!Running
  <2>2. GuardTypeOK' /\ StagedIsListed'
    BY <1>1, <1>4, <2>0 DEF Guard!OpensBar, GuardTypeOK, StagedIsListed
  <2> QED BY <2>1, <2>2, OutsideTheGuard
<1>5. CASE \E s \in Symbols : Guard!Flushed(s)
  <2>1. phase' = phase /\ phase.at = "running" BY <1>5 DEF Guard!Flushed, Guard!Running
  <2>2. GuardTypeOK' /\ StagedIsListed'
    BY <1>1, <1>5 DEF Guard!Flushed, GuardTypeOK, StagedIsListed
  <2> QED BY <2>1, <2>2, OutsideTheGuard
<1>6. CASE \E b \in opened : Guard!Stages(b)
  <2>1. phase' = phase /\ phase.at = "running" BY <1>6 DEF Guard!Stages, Guard!Running
  <2>2. GuardTypeOK' /\ StagedIsListed'
    BY <1>1, <1>6 DEF Guard!Stages, GuardTypeOK, StagedIsListed
  <2> QED BY <2>1, <2>2, OutsideTheGuard
<1>7. CASE \E b \in outbox : Guard!Drains(b)
  <2>1. phase' = phase /\ phase.at = "running" BY <1>7 DEF Guard!Drains, Guard!Running
  <2>2. GuardTypeOK' /\ StagedIsListed'
    BY <1>1, <1>7 DEF Guard!Drains, GuardTypeOK, StagedIsListed
  <2> QED BY <2>1, <2>2, OutsideTheGuard
<1> QED BY <1>2, <1>3, <1>4, <1>5, <1>6, <1>7

LEMMA GuardStep == GuardInv /\ [Guard!Next]_(Guard!guardVars) => GuardInv'
BY ClockKeepsGuard, BeginsKeepsGuard, ReadsTickKeepsGuard, JudgesKeepsGuard, DropsTickKeepsGuard,
   DiscardsKeepsGuard, DiscardsOutboxKeepsGuard, RunningKeepsGuard DEF Guard!Next

(* A start of ingestion that gets to run builds on windows, open bars and  *)
(* ticks of its own markets, none of them ahead of its clock, whatever     *)
(* earlier starts left or died over; of the closes still staged, another   *)
(* market's only if its list was discarded without the outbox, by a start  *)
(* that died in between or a /flush, and only one of the scope's           *)
(* (state_guard.py discard_foreign_candle_state).                          *)
THEOREM StartsBuildOnTheirOwn ==
    GuardAssumption => (Guard!Spec => [][Guard!BuildsOnItsOwn]_(Guard!guardVars))
<1> SUFFICES ASSUME GuardAssumption
             PROVE  Guard!Spec => [][Guard!BuildsOnItsOwn]_(Guard!guardVars)
  OBVIOUS
<1>1. GuardInv /\ [Guard!Next]_(Guard!guardVars) => [Guard!BuildsOnItsOwn]_(Guard!guardVars)
  <2> SUFFICES ASSUME GuardInv, Guard!Next, phase.at # "running", phase'.at = "running"
               PROVE  Guard!BuildsOnItsOwn
    BY DEF Guard!BuildsOnItsOwn
  <2>1. Guard!Records
    <3>1. CASE Guard!Clock BY <3>1 DEF Guard!Clock
    <3>2. CASE Guard!Begins BY <3>2 DEF Guard!Begins
    <3>3. CASE Guard!Judges BY <3>3 DEF Guard!Judges, GuardInv, GuardTypeOK
    <3>4. CASE Guard!DiscardsOutbox BY <3>4 DEF Guard!DiscardsOutbox, GuardInv, GuardTypeOK
    <3>5. CASE Guard!Ends BY <3>5 DEF Guard!Ends, Guard!Down
    <3>6. CASE \E s \in Symbols : Guard!ReadsTick(s) \/ Guard!DropsTick(s) \/ Guard!Discards(s)
      BY <3>6 DEF Guard!ReadsTick, Guard!DropsTick, Guard!Discards, GuardInv, GuardTypeOK
    <3>7. CASE \/ \E s \in Symbols : Guard!OpensBar(s) \/ Guard!Flushed(s)
               \/ \E b \in opened : Guard!Stages(b)
               \/ \E b \in outbox : Guard!Drains(b)
      BY <3>7 DEF Guard!OpensBar, Guard!Flushed, Guard!Stages, Guard!Drains, Guard!Running
    <3> QED BY <3>1, <3>2, <3>3, <3>4, <3>5, <3>6, <3>7 DEF Guard!Next
  <2>2. phase.at = "recording" /\ UNCHANGED <<now, scope, plan, ticks, closed, opened, outbox, loose>>
    BY <2>1 DEF Guard!Records
  <2>3. BuiltOnIsOwn /\ TicksAreRead BY DEF GuardInv
  <2>4. \A s \in DOMAIN plan : ticks[s] \in {Guard!NoTick, plan[s]} BY <2>2, <2>3 DEF TicksAreRead, Steps
  <2>5. /\ Guard!Kept' = Guard!Kept /\ Guard!StagedIsOwnOrLeft' = Guard!StagedIsOwnOrLeft
        /\ phase'.horizon = phase.horizon
    BY <2>1, <2>2 DEF Guard!Records, GuardInv, GuardTypeOK, Guard!Kept, Guard!Subscribed, Guard!Accepts,
       Guard!StagedIsOwnOrLeft
  <2>6. Guard!WindowsAreOwn'
    BY <2>2, <2>3, <2>4, <2>5 DEF BuiltOnIsOwn, Guard!WindowsAreOwn, Guard!Subscribed
  <2>7. Guard!NothingIsAhead'
    BY <2>2, <2>3, <2>5 DEF BuiltOnIsOwn, Guard!NothingIsAhead, Guard!Subscribed, Guard!AnySynthetic
  <2> QED BY <2>2, <2>3, <2>5, <2>6, <2>7 DEF BuiltOnIsOwn, Guard!BuildsOnItsOwn
<1>2. Guard!Init => GuardInv BY GuardStart
<1> QED BY <1>1, <1>2, GuardStep, PTL DEF Guard!Spec

-----------------------------------------------------------------------------
(* The flush of a runner's start, for any cycles, modes and deaths         *)
(* (runner.py _flush_stale_positions).  A pair whose close is in the       *)
(* outbox is uncertain for as long as the process runs, and an uncertain   *)
(* pair gets no second one.                                                *)
FlushAssumption ==
    /\ Modes \subseteq {"off", "warn", "close"}
    /\ Stored \in [Pairs -> Seq(Nat)]
    /\ Now \in Nat

FlushTypeOK ==
    /\ flushPhase \in {"down", "restored", "flushing", "trading", "refused"}
    /\ mode \in {"off", "warn", "close"}
    /\ \A c \in book : c.pair \in Pairs
    /\ \A c \in todo : c.pair \in Pairs
    /\ todo # {} => flushPhase = "flushing"
    /\ flushPhase = "flushing" => mode # "off"
    /\ flushPhase # "flushing" => sending = {}
    /\ sending \subseteq rows

RowsAreUncertain ==
    /\ flushPhase # "down" => \A r \in rows : r.pair \in unsure
    /\ \A r, s \in rows : r.pair = s.pair => r = s

ClosesAreDue ==
    \A r \in rows : r.old /\ r.mode = "close" /\ (AllowFuture \/ r.price + 1 <= Now)

BookIsOfOnePair ==
    flushPhase \in {"flushing", "trading"} =>
        \A c, d \in book : c.uxid = d.uxid => c.pair = d.pair

FlushInv == FlushTypeOK /\ RowsAreUncertain /\ ClosesAreDue /\ BookIsOfOnePair

(* The newest bar of a window that holds none after now is not after now. *)
LEMMA NewestIsEnded ==
    ASSUME NEW S \in SUBSET Nat, NEW n \in Nat, \A o \in S : o + 1 <= n, S # {}
    PROVE  Flush!Max(S) \in S
<1> DEFINE T == {n - t : t \in S}
           R == {ss \in Nat \X Nat : ss[1] < ss[2]}
<1>1. T # {} OBVIOUS
<1>2. \A t \in S : n - t \in Nat OBVIOUS
<1>3. PICK x \in T : \A y \in T : ~(<<y, x>> \in R)
  <2>1. IsWellFoundedOn(R, Nat) BY NatLessThanWellFounded DEF OpToRel
  <2>2. T \subseteq Nat BY <1>2
  <2> HIDE DEF T, R
  <2> QED BY <1>1, <2>1, <2>2, WFMin
<1>4. PICK t \in S : x = n - t OBVIOUS
<1>5. \A u \in S : t >= u
  <2> TAKE u \in S
  <2>1. n - u \in T /\ n - u \in Nat /\ n - t \in Nat BY <1>2
  <2>2. <<n - u, x>> \notin R BY <1>3, <2>1
  <2>3. ~(n - u < n - t) BY <1>4, <2>1, <2>2
  <2> QED BY <2>3
<1> QED BY <1>5 DEF Flush!Max

LEMMA PriceIsOfAnEndedBar ==
    ASSUME FlushAssumption, NEW p \in Pairs, ~AllowFuture
    PROVE  Flush!LastKnownPrice(p) + 1 <= Now
<1> DEFINE bars == Flush!Buffer(p)
<1>1. bars \in SUBSET Nat /\ \A o \in bars : o + 1 <= Now
  BY DEF FlushAssumption, Flush!Buffer, Flush!Cleaned, Flush!ToSet
<1> HIDE DEF bars
<1>2. CASE bars = {} BY <1>2 DEF FlushAssumption, Flush!LastKnownPrice, bars
<1>3. CASE bars # {}
  <2>1. Flush!Max(bars) \in bars BY <1>1, <1>3, NewestIsEnded DEF FlushAssumption
  <2> QED BY <1>1, <1>3, <2>1 DEF Flush!LastKnownPrice, bars
<1> QED BY <1>2, <1>3

LEMMA FlushStart == Flush!Init => FlushInv
BY DEF Flush!Init, FlushInv, FlushTypeOK, RowsAreUncertain, ClosesAreDue, BookIsOfOnePair

LEMMA BootKeepsFlush ==
    ASSUME FlushInv, FlushAssumption, Flush!Boot PROVE FlushInv'
<1>1. /\ flushPhase = "down" /\ flushPhase' = "restored" /\ mode' \in Modes
      /\ UNCHANGED <<todo, sending>> /\ rows' \subseteq rows
      /\ unsure' = {r.pair : r \in rows'}
  BY DEF Flush!Boot
<1>2. sending = {} /\ todo = {} BY <1>1 DEF FlushInv, FlushTypeOK
<1>3. \A c \in book' : c.pair \in Pairs
  <2>1. \A c \in Flush!Restored(flushRedis, table) : c.pair \in Pairs
    BY DEF Flush!Restored, Flush!Of
  <2>2. book' \subseteq Flush!Restored(flushRedis, table) BY DEF Flush!Boot, Flush!Without
  <2> QED BY <2>1, <2>2
<1>4. FlushTypeOK' BY <1>1, <1>2, <1>3 DEF FlushTypeOK, FlushAssumption
<1> QED BY <1>1, <1>4 DEF FlushInv, RowsAreUncertain, ClosesAreDue, BookIsOfOnePair

LEMMA CheckKeepsFlush ==
    ASSUME FlushInv, Flush!Check PROVE FlushInv'
<1>1. /\ flushPhase = "restored" /\ UNCHANGED <<mode, flushRedis, table, book, sending, unsure, rows>>
  BY DEF Flush!Check
<1>2. FlushTypeOK BY DEF FlushInv
<1>3. PICK listed : IF Flush!Shared(book, listed)
                    THEN flushPhase' = "refused" /\ UNCHANGED todo
                    ELSE IF mode = "off" THEN flushPhase' = "trading" /\ UNCHANGED todo
                    ELSE flushPhase' = "flushing" /\ todo' = book
  BY DEF Flush!Check
<1>4. FlushTypeOK' BY <1>1, <1>2, <1>3 DEF FlushTypeOK
<1>5. BookIsOfOnePair' BY <1>1, <1>3 DEF BookIsOfOnePair, Flush!Shared
<1> QED BY <1>1, <1>4, <1>5 DEF FlushInv, RowsAreUncertain, ClosesAreDue

LEMMA CloseKeepsFlush ==
    ASSUME FlushInv, FlushAssumption, NEW c \in todo,
           \/ Flush!Keep(c) \/ Flush!Shadowed(c) \/ Flush!Stage(c) \/ Flush!StagingFails(c)
    PROVE  FlushInv'
<1>1. /\ UNCHANGED <<flushPhase, mode, book>> /\ todo' = todo \ {c} /\ flushPhase = "flushing"
      /\ sending = {}
  BY DEF Flush!Keep, Flush!Shadowed, Flush!Stage, Flush!StagingFails
<1>2. FlushTypeOK BY DEF FlushInv
<1>3. c.pair \in Pairs /\ mode # "off" /\ mode \in {"off", "warn", "close"}
  BY <1>1, <1>2 DEF FlushTypeOK
<1>4. BookIsOfOnePair' BY <1>1 DEF FlushInv, BookIsOfOnePair
<1>5. CASE UNCHANGED <<rows, unsure, sending>>
  <2>1. FlushTypeOK' BY <1>1, <1>2, <1>5 DEF FlushTypeOK
  <2> QED BY <1>1, <1>4, <1>5, <2>1 DEF FlushInv, RowsAreUncertain, ClosesAreDue
<1>6. CASE ~Flush!Skips(c) /\ unsure' = unsure \cup {c.pair}
           /\ rows' \in {rows, rows \cup {Flush!Row(c)}} /\ sending' \in {{}, {Flush!Row(c)}}
           /\ sending' \subseteq rows'
  <2> DEFINE row == Flush!Row(c)
  <2>1. /\ row.pair = c.pair /\ row.old = c.old /\ row.mode = mode
        /\ row.price = Flush!LastKnownPrice(c.pair)
    BY DEF Flush!Row
  <2>2. c.pair \notin unsure /\ c.old /\ mode = "close" BY <1>3, <1>6 DEF Flush!Skips
  <2>3. AllowFuture \/ row.price + 1 <= Now BY <1>3, <2>1, PriceIsOfAnEndedBar
  <2> HIDE DEF row
  <2>4. rows' \subseteq rows \cup {row} BY <1>6 DEF row
  <2>5. ClosesAreDue' BY <2>1, <2>2, <2>3, <2>4 DEF FlushInv, ClosesAreDue
  <2>6. \A r \in rows : r.pair \in unsure BY <1>1 DEF FlushInv, RowsAreUncertain
  <2>7. RowsAreUncertain' BY <1>1, <1>6, <2>1, <2>2, <2>4, <2>6 DEF FlushInv, RowsAreUncertain
  <2>8. FlushTypeOK' BY <1>1, <1>2, <1>6 DEF FlushTypeOK
  <2> QED BY <1>4, <2>5, <2>7, <2>8 DEF FlushInv
<1> QED BY <1>1, <1>5, <1>6 DEF Flush!Keep, Flush!Shadowed, Flush!Stage, Flush!StagingFails

LEMMA AnswerKeepsFlush ==
    ASSUME FlushInv, Flush!Accepted \/ Flush!Rejected \/ Flush!Unanswered PROVE FlushInv'
<1>1. /\ UNCHANGED <<flushPhase, mode, todo>> /\ sending' = {} /\ sending # {}
      /\ book' \subseteq book
      /\ \/ rows' = rows \ sending /\ unsure' = unsure \ {r.pair : r \in sending}
         \/ UNCHANGED <<rows, unsure>>
  BY DEF Flush!Accepted, Flush!Rejected, Flush!Unanswered, Flush!Without
<1>2. FlushTypeOK' BY <1>1 DEF FlushInv, FlushTypeOK
<1>3. RowsAreUncertain'
  <2>1. RowsAreUncertain /\ sending \subseteq rows BY DEF FlushInv, FlushTypeOK
  <2>2. CASE rows' = rows \ sending /\ unsure' = unsure \ {r.pair : r \in sending}
    BY <1>1, <2>1, <2>2 DEF RowsAreUncertain
  <2>3. CASE UNCHANGED <<rows, unsure>> BY <1>1, <2>1, <2>3 DEF RowsAreUncertain
  <2> QED BY <1>1, <2>2, <2>3
<1>4. rows' \subseteq rows BY <1>1
<1> QED BY <1>1, <1>2, <1>3, <1>4 DEF FlushInv, ClosesAreDue, BookIsOfOnePair

LEMMA EndKeepsFlush ==
    ASSUME FlushInv, Flush!GoLive \/ Flush!Dies \/ UNCHANGED Flush!vars PROVE FlushInv'
<1>1. CASE Flush!GoLive
  BY <1>1 DEF Flush!GoLive, FlushInv, FlushTypeOK, RowsAreUncertain, ClosesAreDue, BookIsOfOnePair
<1>2. CASE Flush!Dies
  BY <1>2 DEF Flush!Dies, FlushInv, FlushTypeOK, RowsAreUncertain, ClosesAreDue, BookIsOfOnePair
<1>3. CASE UNCHANGED Flush!vars
  BY <1>3 DEF Flush!vars, FlushInv, FlushTypeOK, RowsAreUncertain, ClosesAreDue, BookIsOfOnePair
<1> QED BY <1>1, <1>2, <1>3

(* The flush closes what it may and no more, whatever starts and deaths    *)
(* came before it, and a book in which two pairs hold one cycle id is      *)
(* never traded (runner.py _flush_stale_positions, _verify_position_uxids).*)
THEOREM FlushClosesWhatItMay == FlushAssumption => (Flush!Spec => []Flush!FlushIsSafe)
<1> SUFFICES ASSUME FlushAssumption PROVE Flush!Spec => []Flush!FlushIsSafe
  OBVIOUS
<1>1. FlushInv /\ [Flush!Next]_(Flush!vars) => FlushInv'
  BY BootKeepsFlush, CheckKeepsFlush, CloseKeepsFlush, AnswerKeepsFlush, EndKeepsFlush DEF Flush!Next
<1>2. FlushInv => Flush!FlushIsSafe
  BY DEF FlushInv, RowsAreUncertain, ClosesAreDue, BookIsOfOnePair, Flush!FlushIsSafe
<1> QED BY <1>1, <1>2, FlushStart, PTL DEF Flush!Spec

-----------------------------------------------------------------------------
(* The strategies a start of the runner runs, for any repositories, tables *)
(* and records (plugin_loader.py, preflight.py).  What the audit of a      *)
(* start let pass holds of the repositories nobody has touched since.      *)
MountsAssumption == Repos \subseteq Int

Refuses == Mode \in {"error", "strict"}
Passed(r) == \A k \in Mounts!Candidates({r}) : Mounts!ClassErrors(k.class) = {}

MountsInv ==
    engine = "audited" /\ Refuses =>
        \A r \in (Mounts!Mounted \ Skipped) \ stale : Passed(r)

LEMMA CandidatesOfOne ==
    ASSUME NEW repos, NEW k
    PROVE  k \in Mounts!Candidates(repos) <=> \E r \in repos : k \in Mounts!Candidates({r})
BY DEF Mounts!Candidates

LEMMA CandidateOfItsRepository ==
    ASSUME NEW repos, NEW k \in Mounts!Candidates(repos)
    PROVE  /\ k.repo \in repos /\ k \in Mounts!Candidates({k.repo})
           /\ contents[k.repo].manifests > 0 =>
                 /\ Mounts!HookAnswers(contents[k.repo])
                 /\ k.name \notin Mounts!SwitchedOff(contents[k.repo])
                 /\ k.settings = Mounts!Declared(contents[k.repo], k.name)
<1>1. PICK r \in repos : k \in Mounts!Candidates({r})
  BY CandidatesOfOne
<1>2. CASE \E a \in IF Mounts!HookAnswers(contents[r])
                    THEN DOMAIN contents[r].offers \ Mounts!SwitchedOff(contents[r]) ELSE {} :
              k = [name |-> a, class |-> contents[r].offers[a], repo |-> r, via |-> "manifest",
                   settings |-> Mounts!Declared(contents[r], a)]
  BY <1>1, <1>2
<1>3. CASE \E a \in {b \in DOMAIN contents[r].loose :
                        ~Mounts!Claimed(r) /\ Mounts!LooksLikeAStrategy(contents[r].loose[b])} :
              k = [name |-> a, class |-> contents[r].loose[a], repo |-> r, via |-> "scan",
                   settings |-> Mounts!NoWeekendFlat]
  BY <1>1, <1>3 DEF Mounts!Claimed
<1> QED
  BY <1>1, <1>2, <1>3 DEF Mounts!Candidates

LEMMA MountsStart == Mounts!Init => MountsInv
BY DEF Mounts!Init, MountsInv

LEMMA AuditLetsNothingPass ==
    ASSUME Mounts!Preflight PROVE MountsInv'
<1> SUFFICES ASSUME Refuses, NEW r \in Mounts!Mounted' \ Skipped PROVE Passed(r)'
  BY DEF MountsInv
<1>1. ~Mounts!AuditErrors(Mounts!Mounted \ Skipped, mapped)
  BY DEF Mounts!Preflight, Mounts!Blocking, Refuses
<1>2. contents' = contents /\ r \in Mounts!Mounted \ Skipped
  BY DEF Mounts!Preflight, Mounts!Mounted
<1>3. Passed(r)
  BY <1>1, <1>2, CandidatesOfOne DEF Mounts!AuditErrors, Passed
<1> QED
  BY <1>2, <1>3 DEF Passed, Mounts!Candidates, Mounts!Claimed

LEMMA MountsStep == MountsInv /\ [Mounts!Next]_(Mounts!mountVars) => MountsInv'
<1> SUFFICES ASSUME MountsInv, [Mounts!Next]_(Mounts!mountVars) PROVE MountsInv'
  OBVIOUS
<1>1. CASE Mounts!Preflight
  BY <1>1, AuditLetsNothingPass
<1>2. CASE engine' # "audited"
  BY <1>2 DEF MountsInv
<1>3. ASSUME NEW q \in Repos, Mounts!Change(q) PROVE MountsInv'
  <2> SUFFICES ASSUME engine = "audited", Refuses,
                      NEW r \in (Mounts!Mounted' \ Skipped) \ stale'
               PROVE  Passed(r)'
    BY <1>3 DEF MountsInv, Mounts!Change
  <2>1. r # q /\ r \notin stale
    BY <1>3 DEF Mounts!Change
  <2>2. contents'[r] = contents[r] /\ r \in Mounts!Mounted
    BY <1>3, <2>1 DEF Mounts!Change, Mounts!Mounted
  <2>3. Passed(r)
    BY <2>1, <2>2 DEF MountsInv
  <2> QED
    BY <2>2, <2>3 DEF Passed, Mounts!Candidates, Mounts!Claimed
<1>4. CASE engine' = engine /\ stale' = stale /\ contents' = contents
  BY <1>4 DEF MountsInv, Passed, Mounts!Candidates, Mounts!Claimed, Mounts!Mounted
<1> QED
  BY <1>1, <1>2, <1>3, <1>4 DEF Mounts!Next, Mounts!mountVars, Mounts!Mount, Mounts!Remap,
     Mounts!MountBreaks, Mounts!Ensure, Mounts!Load, Mounts!Stop

(* One record of one repository decides alone.                             *)
LEMMA OwnVerdict ==
    ASSUME NEW a, NEW r \in Int,
           {q \in DOMAIN Mounts!Recorded : a \in DOMAIN Mounts!Recorded[q]} = {r},
           Mounts!Verdict(a)
    PROVE  Mounts!Recorded[r][a]
<1>1. Mounts!Max({r}) = r
  BY DEF Mounts!Max
<1> QED
  BY <1>1 DEF Mounts!Verdict

(* What a start builds slots of.                                           *)
LEMMA SlotsAreFit ==
    ASSUME MountsAssumption, MountsInv, Mounts!Load, engine' = "running" PROVE Mounts!RunsWhatIsFit
<1> SUFFICES ASSUME NEW s \in Mounts!Built
             PROVE  /\ s.repo \notin Skipped
                    /\ contents[s.repo].manifests > 0 =>
                          /\ s.alias \notin Mounts!SwitchedOff(contents[s.repo])
                          /\ contents[s.repo].switch # Junk
                          /\ ~Mounts!IsRefused(Mounts!ParseTable(contents[s.repo].settings))
                    /\ {r \in DOMAIN Mounts!Recorded : s.alias \in DOMAIN Mounts!Recorded[r]}
                          = {s.repo} => Mounts!Recorded[s.repo][s.alias]
                    /\ Refuses /\ s.repo \notin stale => Mounts!ClassErrors(s.class) = {}
  <2>1. slots' = Mounts!Built
    BY DEF Mounts!Load
  <2> QED
    BY <2>1 DEF Mounts!RunsWhatIsFit, Refuses
<1> DEFINE repos == Mounts!Mounted \ Mounts!BlockedMounts(TRUE)
<1>1. PICK k \in Mounts!Discovered(repos) :
          s.repo = k.repo /\ s.alias = k.name /\ s.class = k.class
  <2> DEFINE pairs(k) == IF mapped = Mounts!NoTable
                         THEN {[symbol |-> x, alias |-> k.name, params |-> Mounts!NoParams] :
                                  x \in k.class.symbols}
                         ELSE {p \in Mounts!Pairings(mapped) : p.alias = k.name}
             slotsOf(k) ==
                 {[symbol |-> p.symbol, alias |-> k.name, repo |-> k.repo, class |-> k.class,
                   flat |-> Mounts!ResolveWeekendFlat(k.settings, p.params.flat),
                   warmup |-> Mounts!ResolveWarmup(k.class.warmup, k.class.history,
                                                   p.params.warmup)] : p \in pairs(k)}
  <2>1. Mounts!Built = UNION {slotsOf(k) : k \in Mounts!Discovered(repos)}
    BY DEF Mounts!Built, Mounts!SlotsOf
  <2>2. PICK k \in Mounts!Discovered(repos) : s \in slotsOf(k)
    BY <2>1
  <2>3. s.repo = k.repo /\ s.alias = k.name /\ s.class = k.class
    <3> HIDE DEF pairs
    <3> QED BY <2>2
  <2> QED
    BY <2>3
<1>2. /\ k \in Mounts!Candidates(repos)
      /\ ~Mounts!IsRefused(k.settings) /\ Mounts!Verdict(k.name)
  BY <1>1 DEF Mounts!Discovered
<1>3. /\ k.repo \in repos /\ k \in Mounts!Candidates({k.repo})
      /\ contents[k.repo].manifests > 0 =>
            /\ Mounts!HookAnswers(contents[k.repo])
            /\ k.name \notin Mounts!SwitchedOff(contents[k.repo])
            /\ k.settings = Mounts!Declared(contents[k.repo], k.name)
  BY <1>2, CandidateOfItsRepository
<1>4. k.repo \in Mounts!Mounted \ Skipped /\ k.repo \in Int
  BY <1>3 DEF Mounts!BlockedMounts, Mounts!Mounted, MountsAssumption
<1>5. ASSUME contents[s.repo].manifests > 0
      PROVE  /\ s.alias \notin Mounts!SwitchedOff(contents[s.repo])
             /\ contents[s.repo].switch # Junk
             /\ ~Mounts!IsRefused(Mounts!ParseTable(contents[s.repo].settings))
  BY <1>1, <1>2, <1>3, <1>5 DEF Mounts!HookAnswers, Mounts!Declared, Mounts!IsRefused
<1>6. {r \in DOMAIN Mounts!Recorded : s.alias \in DOMAIN Mounts!Recorded[r]} = {s.repo}
         => Mounts!Recorded[s.repo][s.alias]
  BY <1>1, <1>2, <1>4, OwnVerdict
<1>7. Refuses /\ s.repo \notin stale => Mounts!ClassErrors(s.class) = {}
  BY <1>1, <1>3, <1>4 DEF MountsInv, Passed, Mounts!Load
<1> QED
  BY <1>1, <1>4, <1>5, <1>6, <1>7

(* A start runs no strategy that its own repository keeps out of service,  *)
(* that the newest record of its repository alone rejects, or whose        *)
(* declared market policy did not read; under a mode that refuses errors   *)
(* it runs none that its audit would have rejected, unless the repository  *)
(* changed after the audit (plugin_loader.py collect/discover,             *)
(* preflight.py), for any repositories, tables and records.                *)
THEOREM StartsRunWhatIsFit ==
    MountsAssumption => (Mounts!Spec => [][Mounts!RunsWhatIsFit]_(Mounts!mountVars))
<1> SUFFICES ASSUME MountsAssumption
             PROVE  Mounts!Spec => [][Mounts!RunsWhatIsFit]_(Mounts!mountVars)
  OBVIOUS
<1>1. MountsInv /\ [Mounts!Next]_(Mounts!mountVars) => [Mounts!RunsWhatIsFit]_(Mounts!mountVars)
  <2> SUFFICES ASSUME MountsInv, Mounts!Next PROVE Mounts!RunsWhatIsFit
    OBVIOUS
  <2>1. CASE Mounts!Load /\ engine' = "running"
    BY <2>1, SlotsAreFit
  <2>2. CASE ~(engine = "audited" /\ engine' = "running")
    BY <2>2 DEF Mounts!RunsWhatIsFit
  <2> QED
    BY <2>1, <2>2 DEF Mounts!Next, Mounts!Change, Mounts!Mount, Mounts!Remap,
       Mounts!MountBreaks, Mounts!Ensure, Mounts!Preflight, Mounts!Load, Mounts!Stop
<1> QED
  BY <1>1, MountsStart, MountsStep, PTL DEF Mounts!Spec

==============================================================================
