------------------------ MODULE CompletionThreadProofs ------------------------
(***************************************************************************)
(* What holds of CompletionThread for every value of its constants.        *)
(***************************************************************************)
EXTENDS CompletionThread, FiniteSetTheorems, TLAPS

USE ThreadAssumption DEF ThreadAssumption
USE DEF reqVars, engVars, hwVars, thrVars, locVars, devVars, vars
-----------------------------------------------------------------------------
\* The inductive invariant, in parts.

\* The callers between the lock and the unlock of desc_lock are its holders.
Inside == {"queue", "wake", "wait", "reap"}
LockHeld ==
    \A e \in Engines, r \in Reqs : descLock[e] = r <=> eng[r] = e /\ pc[r] \in Inside

\* A transfer on the queue is submitted, and nothing is complete of one that
\* the channel still runs.
QueuedSubmitted ==
    \A e \in Engines, r \in Reqs : queued[e] = r => xstate[r] = "submitted"
RunFresh == \A e \in Engines : hwRun[e] # None => hwCount[e] = 0

\* All engines are on the work list until the device is closed, and nobody
\* submits then.
Listed(e) == \E i \in 1 .. Len(workList) : workList[i] = e
OpenListed ==
    IF dpc = "open" THEN \A e \in Engines : Listed(e) ELSE \A r \in Reqs : pc[r] = "idle"

\* Who is about to sleep has seen all transfers that were there, or will see
\* schedule.
LookAwake ==
    tpc = "look" /\ ~schedule =>
        \A e \in Engines : queued[e] # None => pc[queued[e]] = "wake"

\* The thread holds its lock for a round, so that the list does not change.
Polling == {"read", "zero", "test", "service"}
RoundLocked ==
    /\ tpc \in {"clear", "work"} \cup Polling => threadLock = "thread"
    /\ tpc \in {"work"} \cup Polling => \A i \in 1 .. Len(todo) : Listed(todo[i])

SafeInv ==
    TypeOK /\ LockHeld /\ QueuedIsHeld /\ QueuedSubmitted /\ RunFresh /\ OpenListed
    /\ LookAwake /\ NoSleepOnWork /\ RoundLocked

\* A writeback w of engine e is that of the transfer on its queue, whose run
\* has ended.
Owns(e, w) ==
    /\ queued[e] # None /\ hwRun[e] = None /\ w.count > 0
    /\ w.count >= xnum[queued[e]] => queued[e] \in moved

\* What is written back, or read and not yet used, is the present transfer's.
WritebackFresh ==
    /\ \A e \in Engines : wb[e] # NoWb => Owns(e, wb[e])
    /\ tpc = "zero" => twb = wb[Head(todo)] /\ twb # NoWb
    /\ tpc \in {"test", "service"} /\ twb # NoWb =>
           Owns(Head(todo), twb) /\ wb[Head(todo)] = NoWb
    /\ tpc = "service" => twb # NoWb
    /\ tpc \in Polling => texp > 0

Sized == \A r \in Reqs : pc[r] # "idle" => xnum[r] > 0
ReapsEnded == \A r \in Reqs : pc[r] = "reap" => xstate[r] # "submitted"

PatientInv ==
    SafeInv /\ Sized /\ (~impatient => WritebackFresh /\ ReapsEnded /\ CompletedMeansMoved)
-----------------------------------------------------------------------------
\* The first of a sequence and the rest.
LEMMA SeqFacts ==
    ASSUME NEW S, NEW q \in Seq(S), q # <<>>
    PROVE  /\ Head(q) \in S /\ Head(q) = q[1] /\ 1 \in 1 .. Len(q)
           /\ Tail(q) \in Seq(S) /\ Len(Tail(q)) = Len(q) - 1
           /\ \A i \in 1 .. Len(Tail(q)) : Tail(q)[i] = q[i + 1] /\ i + 1 \in 1 .. Len(q)
  OBVIOUS

\* What the queue and the channel say of a caller.
LEMMA HeldFacts ==
    ASSUME SafeInv, NEW e \in Engines, NEW r \in Reqs
    PROVE  /\ r # None
           /\ queued[e] = r =>
                  /\ eng[r] = e /\ descLock[e] = r
                  /\ pc[r] \in {"wake", "wait", "reap"} /\ xstate[r] = "submitted"
           /\ hwRun[e] = r => queued[e] = r /\ running[e] /\ hwCount[e] = 0
           /\ descLock[e] = r <=> eng[r] = e /\ pc[r] \in Inside
  BY DEF SafeInv, TypeOK, ReqTypeOK, EngTypeOK, HwTypeOK, ThreadTypeOK, LockHeld,
         QueuedIsHeld, QueuedSubmitted, RunFresh, Inside
-----------------------------------------------------------------------------
\* The work list, from xdma_thread_add_work for each engine, has them all.
LEMMA AllListed ==
    /\ SetToSeq(Engines) \in Seq(Engines)
    /\ \A e \in Engines : \E i \in 1 .. Len(SetToSeq(Engines)) : SetToSeq(Engines)[i] = e
<1> DEFINE n == Cardinality(Engines)
           f == SetToSeq(Engines)
<1>1. n \in Nat /\ ExistsBijection(1 .. n, Engines)
  BY FS_CardinalityType
<1>2. \E g \in [1 .. n -> Engines] : IsInjective(g)
  BY <1>1 DEF ExistsBijection, Bijection, Injection
<1>3. f \in [1 .. n -> Engines] /\ IsInjective(f)
  BY <1>2 DEF SetToSeq
<1>4. IsFiniteSet(1 .. n) /\ Cardinality(1 .. n) = n
  BY <1>1, FS_Interval
<1>5. f \in Injection(1 .. n, Engines)
  BY <1>3 DEF Injection
<1>6. f \in Surjection(1 .. n, Engines)
  BY <1>4, <1>5, FS_Injection
<1>7. f \in Seq(Engines) /\ Len(f) = n
  BY <1>1, <1>3
<1>8. QED
  BY <1>6, <1>7 DEF Surjection

\* The driver starts in the invariant.
LEMMA InitInv == Init => PatientInv
<1> SUFFICES ASSUME Init PROVE PatientInv
  OBVIOUS
<1>1. (CHOOSE e \in Engines : TRUE) \in Engines
  OBVIOUS
<1>2. TypeOK
  <2>1. ReqTypeOK
    BY <1>1 DEF Init, ReqTypeOK
  <2>2. EngTypeOK
    BY DEF Init, EngTypeOK
  <2>3. HwTypeOK
    BY DEF Init, HwTypeOK, Writebacks, NoWb
  <2>4. ThreadTypeOK
    <3>1. workList \in Seq(Engines) /\ todo \in Seq(Engines)
      BY AllListed DEF Init
    <3>2. twb \in Writebacks
      BY DEF Init, Writebacks, NoWb
    <3>3. QED
      BY <3>1, <3>2 DEF Init, ThreadTypeOK
  <2>5. QED
    BY <2>1, <2>2, <2>3, <2>4 DEF Init, TypeOK
<1>3. LockHeld /\ QueuedIsHeld /\ QueuedSubmitted /\ RunFresh
  BY DEF Init, LockHeld, Inside, QueuedIsHeld, QueuedSubmitted, RunFresh
<1>4. OpenListed
  BY AllListed DEF Init, OpenListed, Listed
<1>5. LookAwake /\ NoSleepOnWork /\ RoundLocked
  BY DEF Init, LookAwake, NoSleepOnWork, RoundLocked, Polling
<1>6. Sized /\ WritebackFresh /\ ReapsEnded /\ CompletedMeansMoved
  BY DEF Init, Sized, WritebackFresh, Polling, ReapsEnded, CompletedMeansMoved
<1>7. QED
  BY <1>2, <1>3, <1>4, <1>5, <1>6 DEF PatientInv, SafeInv
-----------------------------------------------------------------------------
\* Every step keeps each part, an action at a time.

\* Every step keeps the types.
LEMMA TypeStep == TypeOK /\ [Next]_vars => TypeOK'
<1> SUFFICES ASSUME TypeOK, [Next]_vars PROVE TypeOK'
  OBVIOUS
<1> USE DEF TypeOK, ReqTypeOK, EngTypeOK, HwTypeOK, ThreadTypeOK, Writebacks, NoWb
<1>1. ASSUME NEW r \in Reqs, LockDesc(r)
      PROVE  TypeOK'
  BY <1>1 DEF LockDesc
<1>2. ASSUME NEW r \in Reqs, Wake(r)
      PROVE  TypeOK'
  BY <1>2 DEF Wake, WakeThread
<1>3. ASSUME NEW r \in Reqs, Woken(r)
      PROVE  TypeOK'
  BY <1>3 DEF Woken
<1>4. ASSUME NEW r \in Reqs, Submit(r) PROVE TypeOK'
  <2>1. PICK e \in Engines, n \in Counts :
           eng' = [eng EXCEPT ![r] = e] /\ xnum' = [xnum EXCEPT ![r] = n]
    BY <1>4 DEF Submit
  <2>2. /\ xstate' = [xstate EXCEPT ![r] = "new"] /\ pc' = [pc EXCEPT ![r] = "lock"]
        /\ reqs' = reqs + 1
        /\ UNCHANGED <<engVars, hwVars, thrVars, locVars, devVars, moved>>
    BY <1>4 DEF Submit
  <2>3. ReqTypeOK'
    <3>1. eng' \in [Reqs -> Engines] /\ xnum' \in [Reqs -> Nat]
      BY <2>1
    <3>2. xstate' \in [Reqs -> {"none", "new", "submitted", "completed", "failed"}]
      BY <2>2
    <3>3. pc' \in [Reqs -> {"idle", "lock", "queue", "wake", "wait", "reap"}]
      BY <2>2
    <3>4. reqs' \in Nat /\ moved' \subseteq Reqs
      BY <2>2
    <3>5. QED BY <3>1, <3>2, <3>3, <3>4 DEF ReqTypeOK
  <2>4. EngTypeOK' /\ HwTypeOK' /\ ThreadTypeOK'
    BY <2>2
  <2>5. QED BY <2>2, <2>3, <2>4
<1>5. ASSUME NEW r \in Reqs, Queue(r) PROVE TypeOK'
  <2>1. eng[r] \in Engines
    OBVIOUS
  <2>2. /\ serr' \in [Engines -> BOOLEAN] /\ running' \in [Engines -> BOOLEAN]
        /\ hwRun' \in [Engines -> Reqs \cup {None}] /\ hwCount' \in [Engines -> Nat]
    <3>1. CASE running[eng[r]]
      BY <1>5, <3>1 DEF Queue
    <3>2. CASE ~running[eng[r]]
      <4>1. EngineStart(eng[r], r)
        BY <1>5, <3>2 DEF Queue
      <4>2. QED BY <2>1, <4>1 DEF EngineStart
    <3>3. QED BY <3>1, <3>2
  <2>3. /\ xstate' = [xstate EXCEPT ![r] = "submitted"] /\ pc' = [pc EXCEPT ![r] = "wake"]
        /\ queued' = [queued EXCEPT ![eng[r]] = r]
        /\ UNCHANGED <<eng, xnum, reqs, descLock, hwErr, wb, thrVars, locVars, devVars, moved>>
    BY <1>5 DEF Queue
  <2>4. ReqTypeOK'
    BY <2>1, <2>2, <2>3
  <2>5. EngTypeOK'
    BY <2>1, <2>2, <2>3
  <2>6. HwTypeOK'
    BY <2>1, <2>2, <2>3
  <2>7. ThreadTypeOK'
    BY <2>1, <2>2, <2>3
  <2>8. QED BY <2>1, <2>2, <2>3, <2>4, <2>5, <2>6, <2>7
<1>6. ASSUME NEW r \in Reqs, Reap(r) PROVE TypeOK'
  <2>1. eng[r] \in Engines
    OBVIOUS
  <2>2. /\ queued' \in [Engines -> Reqs \cup {None}] /\ hwRun' \in [Engines -> Reqs \cup {None}]
        /\ running' \in [Engines -> BOOLEAN] /\ serr' \in [Engines -> BOOLEAN]
    <3>1. CASE xstate[r] = "submitted"
      <4>1. Unqueued(eng[r], r) \in Reqs \cup {None}
        BY <2>1 DEF Unqueued
      <4>2. /\ queued' = [queued EXCEPT ![eng[r]] = Unqueued(eng[r], r)]
            /\ running' = [running EXCEPT ![eng[r]] = FALSE]
            /\ hwRun' = [hwRun EXCEPT ![eng[r]] = None]
            /\ serr' = [serr EXCEPT ![eng[r]] = hwErr[eng[r]]]
        BY <1>6, <3>1 DEF Reap
      <4>3. QED BY <2>1, <4>1, <4>2
    <3>2. CASE xstate[r] # "submitted"
      BY <1>6, <3>2 DEF Reap
    <3>3. QED BY <3>1, <3>2
  <2>3. /\ xstate' = [xstate EXCEPT ![r] = "none"] /\ pc' = [pc EXCEPT ![r] = "idle"]
        /\ xnum' = [xnum EXCEPT ![r] = 0] /\ descLock' = [descLock EXCEPT ![eng[r]] = None]
        /\ moved' = moved \ {r}
        /\ UNCHANGED <<eng, reqs, hwCount, hwErr, wb, thrVars, locVars, devVars>>
    BY <1>6 DEF Reap
  <2>4. ReqTypeOK'
    BY <2>1, <2>2, <2>3
  <2>5. EngTypeOK'
    BY <2>1, <2>2, <2>3
  <2>6. HwTypeOK'
    BY <2>1, <2>2, <2>3
  <2>7. ThreadTypeOK'
    BY <2>1, <2>2, <2>3
  <2>8. QED BY <2>1, <2>2, <2>3, <2>4, <2>5, <2>6, <2>7
<1>7. ASSUME NEW e \in Engines, HwDone(e)
      PROVE  TypeOK'
  BY <1>7 DEF HwDone
<1>8. ASSUME NEW e \in Engines, HwFail(e) PROVE TypeOK'
  <2>1. PICK k \in (IF impatient THEN 0 ELSE 1) .. xnum[hwRun[e]] - 1 :
           /\ hwCount' = [hwCount EXCEPT ![e] = k]
           /\ wb' = [wb EXCEPT ![e] = [count |-> k, err |-> TRUE]]
    BY <1>8 DEF HwFail
  <2>2. hwRun[e] \in Reqs /\ xnum[hwRun[e]] \in Nat
    BY <1>8 DEF HwFail
  <2>3. hwCount' \in [Engines -> Nat] /\ wb' \in [Engines -> Writebacks]
    BY <2>1, <2>2
  <2>4. /\ hwErr' = [hwErr EXCEPT ![e] = TRUE] /\ hwRun' = [hwRun EXCEPT ![e] = None]
        /\ UNCHANGED <<reqVars, engVars, thrVars, locVars, devVars, moved>>
    BY <1>8 DEF HwFail
  <2>5. ReqTypeOK'
    BY <2>3, <2>4
  <2>6. EngTypeOK'
    BY <2>3, <2>4
  <2>7. HwTypeOK'
    BY <2>3, <2>4
  <2>8. ThreadTypeOK'
    BY <2>3, <2>4
  <2>9. QED BY <2>3, <2>4, <2>5, <2>6, <2>7, <2>8
<1>9. CASE ThreadTop \/ ThreadPending \/ ThreadWait
  BY <1>9 DEF ThreadTop, ThreadPending, ThreadWait, ThreadOnly
<1>10. CASE ThreadRelock \/ ThreadClear \/ ThreadUnlock
  BY <1>10 DEF ThreadRelock, ThreadClear, ThreadUnlock, ThreadOnly
<1>11. CASE ThreadRead
  BY <1>11 DEF ThreadRead, ThreadOnly
<1>12. CASE ThreadLook
  <2>1. todo # <<>> /\ Head(todo) \in Engines /\ Tail(todo) \in Seq(Engines)
    BY <1>12, SeqFacts DEF ThreadLook
  <2>2. ThreadOnly /\ UNCHANGED <<thrVars, twb>>
    BY <1>12 DEF ThreadLook
  <2>3. \/ todo' = Tail(todo) /\ tpc' = tpc /\ texp' = texp /\ tpc = "work"
        \/ todo' = todo /\ tpc' = "read" /\ queued[Head(todo)] \in Reqs
           /\ texp' \in Nat
    BY <1>12, <2>1 DEF ThreadLook
  <2>4. ReqTypeOK'
    BY <2>1, <2>2, <2>3 DEF ThreadOnly
  <2>5. EngTypeOK'
    BY <2>1, <2>2, <2>3 DEF ThreadOnly
  <2>6. HwTypeOK'
    BY <2>1, <2>2, <2>3 DEF ThreadOnly
  <2>7. ThreadTypeOK'
    BY <2>1, <2>2, <2>3 DEF ThreadOnly
  <2>8. QED BY <2>2, <2>4, <2>5, <2>6, <2>7 DEF ThreadOnly
<1>13. CASE ThreadZero
  BY <1>13 DEF ThreadZero
<1>14. CASE ThreadTest
  <2>1. todo # <<>> /\ Tail(todo) \in Seq(Engines) /\ NoWb \in Writebacks
    BY <1>14, SeqFacts DEF ThreadTest
  <2>2. \/ todo' = Tail(todo) /\ tpc' = "work" /\ texp' = 0 /\ twb' = NoWb
        \/ tpc' \in {"read", "service"} /\ UNCHANGED <<todo, texp, twb>>
    BY <1>14 DEF ThreadTest, ThreadNext
  <2>3. ThreadOnly /\ UNCHANGED thrVars
    BY <1>14 DEF ThreadTest
  <2>4. QED BY <2>1, <2>2, <2>3 DEF ThreadOnly
<1>15. CASE ThreadService
  <2>1. todo # <<>> /\ Head(todo) \in Engines /\ Tail(todo) \in Seq(Engines)
    BY <1>15, SeqFacts DEF ThreadService
  <2>2. /\ serr' \in [Engines -> BOOLEAN] /\ hwErr' \in [Engines -> BOOLEAN]
        /\ running' \in [Engines -> BOOLEAN]
    BY <1>15, <2>1, Zenon DEF ThreadService
  <2>3. queued' \in [Engines -> Reqs \cup {None}] /\ hwRun' \in [Engines -> Reqs \cup {None}]
    BY <1>15, <2>1 DEF ThreadService
  <2>4. xstate' \in [Reqs -> {"none", "new", "submitted", "completed", "failed"}]
    BY <1>15, <2>1 DEF ThreadService, Outcome
  <2>5. ThreadNext /\ UNCHANGED <<pc, eng, xnum, reqs, descLock, hwCount, wb, thrVars,
                                  devVars, moved>>
    BY <1>15 DEF ThreadService
  <2>6. QED BY <2>1, <2>2, <2>3, <2>4, <2>5 DEF ThreadNext
<1>16. CASE StopSchedule \/ StopStop \/ StopJoin
  BY <1>16 DEF StopSchedule, StopStop, WakeThread, StopJoin
<1>17. CASE CloseRemove
  <2>1. Tail(workList) \in Seq(Engines)
    BY <1>17, SeqFacts DEF CloseRemove
  <2>2. QED BY <1>17, <2>1 DEF CloseRemove
<1>18. CASE UNCHANGED vars
  BY <1>18
<1>19. QED
  BY <1>1, <1>2, <1>3, <1>4, <1>5, <1>6, <1>7, <1>8, <1>9, <1>10, <1>11, <1>12,
     <1>13, <1>14, <1>15, <1>16, <1>17, <1>18
     DEF Next, Caller, Hardware, Thread, Close

\* desc_lock: taken in LockDesc, given back by the same caller in Reap.
LEMMA LockStep == SafeInv /\ [Next]_vars => LockHeld'
<1> SUFFICES ASSUME SafeInv, [Next]_vars PROVE LockHeld'
  OBVIOUS
<1> USE DEF SafeInv, TypeOK, ReqTypeOK, EngTypeOK, HwTypeOK, ThreadTypeOK, LockHeld,
            Inside
<1>1. ASSUME NEW r \in Reqs, Submit(r) \/ LockDesc(r) \/ Queue(r) \/ Wake(r) \/
            Woken(r) \/ Reap(r)
      PROVE  LockHeld'
  BY <1>1 DEF Submit, LockDesc, Queue, EngineStart, Wake, WakeThread, Woken, Reap,
     Unqueued
<1>2. ASSUME NEW e \in Engines, HwDone(e) \/ HwFail(e)
      PROVE  LockHeld'
  BY <1>2 DEF HwDone, HwFail
<1>3. CASE ThreadTop \/ ThreadPending \/ ThreadWait \/ ThreadRelock \/ ThreadClear
          \/ ThreadUnlock \/ ThreadLook \/ ThreadRead \/ ThreadZero \/ ThreadTest \/
          ThreadService
  BY <1>3 DEF ThreadTop, ThreadPending, ThreadWait, ThreadRelock, ThreadClear,
     ThreadUnlock, ThreadLook, ThreadRead, ThreadZero, ThreadTest, Enough,
     ThreadNext, ThreadService, Outcome, ThreadOnly
<1>4. CASE CloseRemove \/ StopSchedule \/ StopStop \/ StopJoin
  BY <1>4 DEF CloseRemove, StopSchedule, StopStop, WakeThread, StopJoin
<1>5. CASE UNCHANGED vars
  BY <1>5
<1>6. QED
  BY <1>1, <1>2, <1>3, <1>4, <1>5
     DEF Next, Caller, Hardware, Thread, Close

\* The queue: filled in Queue, emptied by transfer_abort in Reap and by ThreadService.
\* The channel runs no transfer that has left the queue, since a count other than
\* zero is the sign that its run has ended.
LEMMA HeldStep == SafeInv /\ [Next]_vars => QueuedIsHeld'
<1> SUFFICES ASSUME SafeInv, [Next]_vars PROVE QueuedIsHeld'
  OBVIOUS
<1> USE DEF SafeInv, TypeOK, ReqTypeOK, EngTypeOK, HwTypeOK, ThreadTypeOK, LockHeld,
            Inside, QueuedIsHeld, QueuedSubmitted, RunFresh
<1>1. ASSUME NEW r \in Reqs, Submit(r) \/ LockDesc(r) \/ Queue(r)
      PROVE  QueuedIsHeld'
  BY <1>1 DEF Submit, LockDesc, Queue, EngineStart
<1>2. ASSUME NEW r \in Reqs, Wake(r) \/ Woken(r) \/ Reap(r)
      PROVE  QueuedIsHeld'
  BY <1>2 DEF Wake, WakeThread, Woken, Reap, Unqueued
<1>3. ASSUME NEW e \in Engines, HwDone(e) \/ HwFail(e)
      PROVE  QueuedIsHeld'
  BY <1>3 DEF HwDone, HwFail
<1>4. CASE ThreadTop \/ ThreadPending \/ ThreadWait \/ ThreadRelock \/ ThreadClear
          \/ ThreadUnlock \/ ThreadLook \/ ThreadRead \/ ThreadZero \/ ThreadTest \/
          ThreadService
  BY <1>4 DEF ThreadTop, ThreadPending, ThreadWait, ThreadRelock, ThreadClear,
     ThreadUnlock, ThreadLook, ThreadRead, ThreadZero, ThreadTest, Enough,
     ThreadNext, ThreadService, Outcome, ThreadOnly
<1>5. CASE CloseRemove \/ StopSchedule \/ StopStop \/ StopJoin
  BY <1>5 DEF CloseRemove, StopSchedule, StopStop, WakeThread, StopJoin
<1>6. CASE UNCHANGED vars
  BY <1>6
<1>7. QED
  BY <1>1, <1>2, <1>3, <1>4, <1>5, <1>6
     DEF Next, Caller, Hardware, Thread, Close

\* Who changes the state of a transfer takes it off the queue in the same step.
LEMMA SubmittedStep == SafeInv /\ [Next]_vars => QueuedSubmitted'
<1> SUFFICES ASSUME SafeInv, [Next]_vars PROVE QueuedSubmitted'
  OBVIOUS
<1> USE DEF SafeInv, TypeOK, ReqTypeOK, EngTypeOK, HwTypeOK, ThreadTypeOK,
            QueuedSubmitted
<1>1. ASSUME NEW r \in Reqs, LockDesc(r)
      PROVE  QueuedSubmitted'
  BY <1>1 DEF LockDesc
<1>2. ASSUME NEW r \in Reqs, Queue(r)
      PROVE  QueuedSubmitted'
  BY <1>2 DEF Queue, EngineStart
<1>3. ASSUME NEW r \in Reqs, Wake(r)
      PROVE  QueuedSubmitted'
  BY <1>3 DEF Wake, WakeThread
<1>4. ASSUME NEW r \in Reqs, Woken(r)
      PROVE  QueuedSubmitted'
  BY <1>4 DEF Woken
<1>5. ASSUME NEW r \in Reqs, Submit(r) PROVE QueuedSubmitted'
  <2>1. pc[r] = "idle" /\ xstate' = [xstate EXCEPT ![r] = "new"] /\ queued' = queued
    BY <1>5 DEF Submit
  <2>2. \A e \in Engines : queued[e] # r
    BY <2>1, HeldFacts
  <2>3. QED BY <2>1, <2>2
<1>6. ASSUME NEW r \in Reqs, Reap(r) PROVE QueuedSubmitted'
  <2>1. \A e \in Engines : queued[e] = r => e = eng[r]
    BY HeldFacts
  <2>2. \A e \in Engines : queued'[e] # None => queued'[e] = queued[e] /\ queued'[e] # r
    <3>1. CASE xstate[r] = "submitted"
      <4>1. queued' = [queued EXCEPT ![eng[r]] = Unqueued(eng[r], r)]
        BY <1>6, <3>1 DEF Reap
      <4>2. r # None
        OBVIOUS
      <4>3. QED BY <2>1, <4>1, <4>2 DEF Unqueued
    <3>2. CASE xstate[r] # "submitted"
      BY <1>6, <3>2, HeldFacts DEF Reap
    <3>3. QED BY <3>1, <3>2
  <2>3. xstate' = [xstate EXCEPT ![r] = "none"]
    BY <1>6 DEF Reap
  <2>4. QED BY <2>2, <2>3
<1>7. ASSUME NEW e \in Engines, HwDone(e) \/ HwFail(e)
      PROVE  QueuedSubmitted'
  BY <1>7 DEF HwDone, HwFail
<1>8. CASE ThreadTop \/ ThreadPending \/ ThreadWait \/ ThreadRelock \/ ThreadClear
          \/ ThreadUnlock \/ ThreadLook \/ ThreadRead \/ ThreadZero \/ ThreadTest
  BY <1>8 DEF ThreadTop, ThreadPending, ThreadWait, ThreadRelock, ThreadClear,
     ThreadUnlock, ThreadLook, ThreadRead, ThreadZero, ThreadTest, Enough,
     ThreadNext, ThreadOnly
<1>9. CASE ThreadService
  <2>1. todo # <<>> /\ Head(todo) \in Engines
    BY <1>9, SeqFacts DEF ThreadService
  <2>2. \A e \in Engines : queued[e] # None /\ queued[e] = queued[Head(todo)] => e = Head(todo)
    BY <2>1, HeldFacts
  <2>3. QED BY <1>9, <2>1, <2>2, HeldFacts DEF ThreadService
<1>10. CASE CloseRemove \/ StopSchedule \/ StopStop \/ StopJoin
  BY <1>10 DEF CloseRemove, StopSchedule, StopStop, WakeThread, StopJoin
<1>11. CASE UNCHANGED vars
  BY <1>11
<1>12. QED
  BY <1>1, <1>2, <1>3, <1>4, <1>5, <1>6, <1>7, <1>8, <1>9, <1>10, <1>11
     DEF Next, Caller, Hardware, Thread, Close

\* A run starts with a count of zero and ends when it counts.
LEMMA FreshRunStep == SafeInv /\ [Next]_vars => RunFresh'
<1> SUFFICES ASSUME SafeInv, [Next]_vars PROVE RunFresh'
  OBVIOUS
<1> USE DEF SafeInv, TypeOK, ReqTypeOK, EngTypeOK, HwTypeOK, ThreadTypeOK, RunFresh
<1>1. ASSUME NEW r \in Reqs, Submit(r) \/ LockDesc(r) \/ Queue(r) \/ Wake(r) \/
            Woken(r) \/ Reap(r)
      PROVE  RunFresh'
  BY <1>1 DEF Submit, LockDesc, Queue, EngineStart, Wake, WakeThread, Woken, Reap,
     Unqueued
<1>2. ASSUME NEW e \in Engines, HwDone(e) \/ HwFail(e)
      PROVE  RunFresh'
  BY <1>2 DEF HwDone, HwFail
<1>3. CASE ThreadTop \/ ThreadPending \/ ThreadWait \/ ThreadRelock \/ ThreadClear
          \/ ThreadUnlock \/ ThreadLook \/ ThreadRead \/ ThreadZero \/ ThreadTest \/
          ThreadService
  BY <1>3 DEF ThreadTop, ThreadPending, ThreadWait, ThreadRelock, ThreadClear,
     ThreadUnlock, ThreadLook, ThreadRead, ThreadZero, ThreadTest, Enough,
     ThreadNext, ThreadService, Outcome, ThreadOnly
<1>4. CASE CloseRemove \/ StopSchedule \/ StopStop \/ StopJoin
  BY <1>4 DEF CloseRemove, StopSchedule, StopStop, WakeThread, StopJoin
<1>5. CASE UNCHANGED vars
  BY <1>5
<1>6. QED
  BY <1>1, <1>2, <1>3, <1>4, <1>5
     DEF Next, Caller, Hardware, Thread, Close

\* Submitters are gone before the first engine is taken off the list.
LEMMA ListedStep == SafeInv /\ [Next]_vars => OpenListed'
<1> SUFFICES ASSUME SafeInv, [Next]_vars PROVE OpenListed'
  OBVIOUS
<1> USE DEF SafeInv, TypeOK, ReqTypeOK, EngTypeOK, HwTypeOK, ThreadTypeOK,
            OpenListed, Listed
<1>1. ASSUME NEW r \in Reqs, Submit(r) \/ LockDesc(r) \/ Queue(r) \/ Wake(r) \/
            Woken(r) \/ Reap(r)
      PROVE  OpenListed'
  BY <1>1 DEF Submit, LockDesc, Queue, EngineStart, Wake, WakeThread, Woken, Reap,
     Unqueued
<1>2. ASSUME NEW e \in Engines, HwDone(e) \/ HwFail(e)
      PROVE  OpenListed'
  BY <1>2 DEF HwDone, HwFail
<1>3. CASE ThreadTop \/ ThreadPending \/ ThreadWait \/ ThreadRelock \/ ThreadClear
          \/ ThreadUnlock \/ ThreadLook \/ ThreadRead \/ ThreadZero \/ ThreadTest \/
          ThreadService
  BY <1>3 DEF ThreadTop, ThreadPending, ThreadWait, ThreadRelock, ThreadClear,
     ThreadUnlock, ThreadLook, ThreadRead, ThreadZero, ThreadTest, Enough,
     ThreadNext, ThreadService, Outcome, ThreadOnly
<1>4. CASE CloseRemove \/ StopSchedule \/ StopStop \/ StopJoin
  BY <1>4 DEF CloseRemove, StopSchedule, StopStop, WakeThread, StopJoin
<1>5. CASE UNCHANGED vars
  BY <1>5
<1>6. QED
  BY <1>1, <1>2, <1>3, <1>4, <1>5
     DEF Next, Caller, Hardware, Thread, Close

\* The thread goes on to look at schedule only after it saw every queue empty;
\* transfers queued from then on have a caller about to wake it.
LEMMA LookStep == SafeInv /\ [Next]_vars => LookAwake'
<1> SUFFICES ASSUME SafeInv, [Next]_vars PROVE LookAwake'
  OBVIOUS
<1> USE DEF SafeInv, TypeOK, ReqTypeOK, EngTypeOK, HwTypeOK, ThreadTypeOK,
            LookAwake, OpenListed, Listed, NoSleepOnWork
<1>1. ASSUME NEW r \in Reqs, Submit(r) \/ LockDesc(r) \/ Wake(r) \/ Woken(r) \/
            Reap(r)
      PROVE  LookAwake'
  BY <1>1 DEF Submit, LockDesc, Wake, WakeThread, Woken, Reap, Unqueued
<1>2. ASSUME NEW r \in Reqs, Queue(r) PROVE LookAwake'
  <2>1. eng[r] \in Engines /\ queued' = [queued EXCEPT ![eng[r]] = r]
    BY <1>2 DEF Queue
  <2>2. tpc' = tpc /\ schedule' = schedule /\ pc' = [pc EXCEPT ![r] = "wake"]
    BY <1>2 DEF Queue
  <2> SUFFICES ASSUME tpc = "look", ~schedule, NEW e \in Engines, queued'[e] # None
               PROVE  pc'[queued'[e]] = "wake"
    BY <2>2
  <2>3. CASE e = eng[r]
    BY <2>1, <2>2, <2>3
  <2>4. CASE e # eng[r]
    <3>1. queued'[e] = queued[e] /\ queued[e] \in Reqs /\ pc[queued[e]] = "wake"
      BY <2>1, <2>4
    <3>2. QED BY <2>2, <3>1
  <2>5. QED BY <2>3, <2>4
<1>3. ASSUME NEW e \in Engines, HwDone(e) \/ HwFail(e)
      PROVE  LookAwake'
  BY <1>3 DEF HwDone, HwFail
<1>4. CASE ThreadTop \/ ThreadWait \/ ThreadRelock \/ ThreadClear \/ ThreadUnlock \/
          ThreadLook \/ ThreadRead \/ ThreadZero \/ ThreadTest \/ ThreadService
  BY <1>4 DEF ThreadTop, ThreadWait, ThreadRelock, ThreadClear, ThreadUnlock,
     ThreadLook, ThreadRead, ThreadZero, ThreadTest, Enough, ThreadNext,
     ThreadService, Outcome, ThreadOnly
<1>5. CASE ThreadPending
  <2> SUFFICES ASSUME tpc' = "look", NEW e \in Engines, queued[e] # None
               PROVE  pc[queued[e]] = "wake"
    BY <1>5 DEF ThreadPending, ThreadOnly
  <2>1. \A i \in 1 .. Len(workList) : queued[workList[i]] = None
    BY <1>5 DEF ThreadPending
  <2>2. CASE dpc = "open"
    <3>1. PICK i \in 1 .. Len(workList) : workList[i] = e
      BY <2>2
    <3>2. QED BY <2>1, <3>1
  <2>3. CASE dpc # "open"
    <3>1. PICK r \in Reqs : queued[e] = r
      OBVIOUS
    <3>2. pc[r] = "idle"
      BY <2>3
    <3>3. pc[r] \in {"wake", "wait", "reap"}
      BY <3>1, HeldFacts
    <3>4. QED BY <3>2, <3>3
  <2>4. QED BY <2>2, <2>3
<1>6. CASE CloseRemove \/ StopSchedule \/ StopStop \/ StopJoin
  BY <1>6 DEF CloseRemove, StopSchedule, StopStop, WakeThread, StopJoin
<1>7. CASE UNCHANGED vars
  BY <1>7
<1>8. QED
  BY <1>1, <1>2, <1>3, <1>4, <1>5, <1>6, <1>7
     DEF Next, Caller, Hardware, Thread, Close

\* The thread falls asleep only with schedule clear, and is awake when it is set.
LEMMA SleepStep == SafeInv /\ [Next]_vars => NoSleepOnWork'
<1> SUFFICES ASSUME SafeInv, [Next]_vars PROVE NoSleepOnWork'
  OBVIOUS
<1> USE DEF SafeInv, TypeOK, ReqTypeOK, EngTypeOK, HwTypeOK, ThreadTypeOK, LockHeld,
            Inside, QueuedIsHeld, LookAwake, NoSleepOnWork
<1>1. ASSUME NEW r \in Reqs, Submit(r) \/ LockDesc(r) \/ Queue(r) \/ Wake(r) \/
            Woken(r) \/ Reap(r)
      PROVE  NoSleepOnWork'
  BY <1>1 DEF Submit, LockDesc, Queue, EngineStart, Wake, WakeThread, Woken, Reap,
     Unqueued
<1>2. ASSUME NEW e \in Engines, HwDone(e) \/ HwFail(e)
      PROVE  NoSleepOnWork'
  BY <1>2 DEF HwDone, HwFail
<1>3. CASE ThreadTop \/ ThreadPending \/ ThreadWait \/ ThreadRelock \/ ThreadClear
          \/ ThreadUnlock \/ ThreadLook \/ ThreadRead \/ ThreadZero \/ ThreadTest \/
          ThreadService
  BY <1>3 DEF ThreadTop, ThreadPending, ThreadWait, ThreadRelock, ThreadClear,
     ThreadUnlock, ThreadLook, ThreadRead, ThreadZero, ThreadTest, Enough,
     ThreadNext, ThreadService, Outcome, ThreadOnly
<1>4. CASE CloseRemove \/ StopSchedule \/ StopStop \/ StopJoin
  BY <1>4 DEF CloseRemove, StopSchedule, StopStop, WakeThread, StopJoin
<1>5. CASE UNCHANGED vars
  BY <1>5
<1>6. QED
  BY <1>1, <1>2, <1>3, <1>4, <1>5
     DEF Next, Caller, Hardware, Thread, Close

\* The work list does not change while the thread holds its lock.
LEMMA RoundStep == SafeInv /\ [Next]_vars => RoundLocked'
<1> SUFFICES ASSUME SafeInv, [Next]_vars PROVE RoundLocked'
  OBVIOUS
<1> USE DEF SafeInv, TypeOK, ReqTypeOK, EngTypeOK, HwTypeOK, ThreadTypeOK, Polling
<1>1. ASSUME NEW r \in Reqs, Submit(r) \/ LockDesc(r) \/ Queue(r) \/ Wake(r) \/
            Woken(r) \/ Reap(r)
      PROVE  RoundLocked'
  BY <1>1 DEF Submit, LockDesc, Queue, EngineStart, Wake, WakeThread, Woken, Reap,
     Unqueued, RoundLocked, Listed
<1>2. ASSUME NEW e \in Engines, HwDone(e) \/ HwFail(e)
      PROVE  RoundLocked'
  BY <1>2 DEF HwDone, HwFail, RoundLocked, Listed
<1>3. CASE ThreadTop \/ ThreadPending \/ ThreadWait \/ ThreadRelock \/ ThreadClear
          \/ ThreadUnlock \/ ThreadRead \/ ThreadZero
  BY <1>3 DEF ThreadTop, ThreadPending, ThreadWait, ThreadRelock, ThreadClear,
     ThreadUnlock, ThreadRead, ThreadZero, ThreadOnly, RoundLocked, Listed
<1>4. CASE ThreadLook
  <2>1. todo \in Seq(Engines) /\ todo # <<>> /\ tpc = "work"
    BY <1>4 DEF ThreadLook
  <2>2. todo' \in {todo, Tail(todo)} /\ tpc' \in {"work", "read"}
        /\ threadLock' = threadLock /\ workList' = workList
    BY <1>4 DEF ThreadLook
  <2>3. \A i \in 1 .. Len(todo') : Listed(todo'[i])
    <3>1. \A i \in 1 .. Len(todo) : Listed(todo[i])
      BY <2>1 DEF RoundLocked
    <3>2. \A i \in 1 .. Len(Tail(todo)) : Tail(todo)[i] = todo[i + 1] /\ i + 1 \in 1 .. Len(todo)
      BY <2>1, SeqFacts
    <3>3. CASE todo' = todo
      BY <3>1, <3>3
    <3>4. CASE todo' = Tail(todo)
      BY <3>1, <3>2, <3>4
    <3>5. QED BY <2>2, <3>3, <3>4
  <2>4. QED BY <2>1, <2>2, <2>3 DEF RoundLocked, Listed
<1>5. CASE ThreadTest
  <2>1. todo \in Seq(Engines) /\ todo # <<>> /\ tpc = "test"
    BY <1>5 DEF ThreadTest
  <2>2. todo' \in {todo, Tail(todo)} /\ tpc' \in {"work", "read", "service"}
        /\ threadLock' = threadLock /\ workList' = workList
    BY <1>5 DEF ThreadTest, ThreadNext
  <2>3. \A i \in 1 .. Len(todo') : Listed(todo'[i])
    <3>1. \A i \in 1 .. Len(todo) : Listed(todo[i])
      BY <2>1 DEF RoundLocked
    <3>2. \A i \in 1 .. Len(Tail(todo)) : Tail(todo)[i] = todo[i + 1] /\ i + 1 \in 1 .. Len(todo)
      BY <2>1, SeqFacts
    <3>3. CASE todo' = todo
      BY <3>1, <3>3
    <3>4. CASE todo' = Tail(todo)
      BY <3>1, <3>2, <3>4
    <3>5. QED BY <2>2, <3>3, <3>4
  <2>4. QED BY <2>1, <2>2, <2>3 DEF RoundLocked, Listed
<1>6. CASE ThreadService
  <2>1. todo \in Seq(Engines) /\ todo # <<>> /\ tpc = "service"
    BY <1>6 DEF ThreadService
  <2>2. todo' = Tail(todo) /\ tpc' = "work"
        /\ threadLock' = threadLock /\ workList' = workList
    BY <1>6 DEF ThreadService, ThreadNext
  <2>3. \A i \in 1 .. Len(todo') : Listed(todo'[i])
    <3>1. \A i \in 1 .. Len(todo) : Listed(todo[i])
      BY <2>1 DEF RoundLocked
    <3>2. \A i \in 1 .. Len(Tail(todo)) : Tail(todo)[i] = todo[i + 1] /\ i + 1 \in 1 .. Len(todo)
      BY <2>1, SeqFacts
    <3>3. CASE todo' = todo
      BY <3>1, <3>3
    <3>4. CASE todo' = Tail(todo)
      BY <3>1, <3>2, <3>4
    <3>5. QED BY <2>2, <3>3, <3>4
  <2>4. QED BY <2>1, <2>2, <2>3 DEF RoundLocked, Listed
<1>7. CASE StopSchedule \/ StopStop \/ StopJoin
  BY <1>7 DEF StopSchedule, StopStop, WakeThread, StopJoin, RoundLocked, Listed
<1>8. CASE CloseRemove
  <2>1. tpc' = tpc /\ threadLock' = threadLock /\ threadLock # "thread"
    BY <1>8 DEF CloseRemove
  <2>2. QED BY <2>1 DEF RoundLocked
<1>9. CASE UNCHANGED vars
  BY <1>9 DEF RoundLocked, Listed
<1>10. QED
  BY <1>1, <1>2, <1>3, <1>4, <1>5, <1>6, <1>7, <1>8, <1>9
     DEF Next, Caller, Hardware, Thread, Close

\* A transfer has descriptors.
LEMMA SizedStep == PatientInv /\ [Next]_vars => Sized'
<1> SUFFICES ASSUME PatientInv, [Next]_vars PROVE Sized'
  OBVIOUS
<1> USE DEF PatientInv, SafeInv, TypeOK, ReqTypeOK, EngTypeOK, HwTypeOK,
            ThreadTypeOK, Sized
<1>1. ASSUME NEW r \in Reqs, Submit(r) \/ LockDesc(r) \/ Queue(r) \/ Wake(r) \/
            Woken(r) \/ Reap(r)
      PROVE  Sized'
  BY <1>1 DEF Submit, LockDesc, Queue, EngineStart, Wake, WakeThread, Woken, Reap,
     Unqueued
<1>2. ASSUME NEW e \in Engines, HwDone(e) \/ HwFail(e)
      PROVE  Sized'
  BY <1>2 DEF HwDone, HwFail
<1>3. CASE ThreadTop \/ ThreadPending \/ ThreadWait \/ ThreadRelock \/ ThreadClear
          \/ ThreadUnlock \/ ThreadLook \/ ThreadRead \/ ThreadZero \/ ThreadTest \/
          ThreadService
  BY <1>3 DEF ThreadTop, ThreadPending, ThreadWait, ThreadRelock, ThreadClear,
     ThreadUnlock, ThreadLook, ThreadRead, ThreadZero, ThreadTest, Enough,
     ThreadNext, ThreadService, Outcome, ThreadOnly
<1>4. CASE CloseRemove \/ StopSchedule \/ StopStop \/ StopJoin
  BY <1>4 DEF CloseRemove, StopSchedule, StopStop, WakeThread, StopJoin
<1>5. CASE UNCHANGED vars
  BY <1>5
<1>6. QED
  BY <1>1, <1>2, <1>3, <1>4, <1>5
     DEF Next, Caller, Hardware, Thread, Close

\* Without timeouts a caller goes on only after its transfer has an outcome.
LEMMA ReapsStep == PatientInv /\ [Next]_vars => (~impatient => ReapsEnded)'
<1> SUFFICES ASSUME PatientInv, [Next]_vars PROVE (~impatient => ReapsEnded)'
  OBVIOUS
<1> USE DEF PatientInv, SafeInv, TypeOK, ReqTypeOK, EngTypeOK, HwTypeOK,
            ThreadTypeOK, ReapsEnded
<1>1. ASSUME NEW r \in Reqs, Submit(r) \/ LockDesc(r) \/ Queue(r) \/ Wake(r) \/
            Woken(r) \/ Reap(r)
      PROVE  (~impatient => ReapsEnded)'
  BY <1>1 DEF Submit, LockDesc, Queue, EngineStart, Wake, WakeThread, Woken, Reap,
     Unqueued
<1>2. ASSUME NEW e \in Engines, HwDone(e) \/ HwFail(e)
      PROVE  (~impatient => ReapsEnded)'
  BY <1>2 DEF HwDone, HwFail
<1>3. CASE ThreadTop \/ ThreadPending \/ ThreadWait \/ ThreadRelock \/ ThreadClear
          \/ ThreadUnlock \/ ThreadLook \/ ThreadRead \/ ThreadZero \/ ThreadTest \/
          ThreadService
  BY <1>3 DEF ThreadTop, ThreadPending, ThreadWait, ThreadRelock, ThreadClear,
     ThreadUnlock, ThreadLook, ThreadRead, ThreadZero, ThreadTest, Enough,
     ThreadNext, ThreadService, Outcome, ThreadOnly
<1>4. CASE CloseRemove \/ StopSchedule \/ StopStop \/ StopJoin
  BY <1>4 DEF CloseRemove, StopSchedule, StopStop, WakeThread, StopJoin
<1>5. CASE UNCHANGED vars
  BY <1>5
<1>6. QED
  BY <1>1, <1>2, <1>3, <1>4, <1>5
     DEF Next, Caller, Hardware, Thread, Close

\* A writeback that is read and used is that of the present transfer: the location
\* is cleared between the end of its run and its outcome.
LEMMA FreshStep == PatientInv /\ [Next]_vars => (~impatient => WritebackFresh)'
<1> SUFFICES ASSUME PatientInv, [Next]_vars PROVE (~impatient => WritebackFresh)'
  OBVIOUS
<1> USE DEF PatientInv, SafeInv, TypeOK, ReqTypeOK, EngTypeOK, HwTypeOK,
            ThreadTypeOK, WritebackFresh, Owns, Polling, NoWb, Writebacks
<1>1. ASSUME NEW r \in Reqs, LockDesc(r)
      PROVE  (~impatient => WritebackFresh)'
  BY <1>1 DEF LockDesc
<1>2. ASSUME NEW r \in Reqs, Wake(r)
      PROVE  (~impatient => WritebackFresh)'
  BY <1>2 DEF Wake, WakeThread
<1>3. ASSUME NEW r \in Reqs, Woken(r)
      PROVE  (~impatient => WritebackFresh)'
  BY <1>3 DEF Woken
<1>4. ASSUME NEW r \in Reqs, Submit(r) PROVE (~impatient => WritebackFresh)'
  <2>1. \A e \in Engines : queued[e] # r
    <3>1. pc[r] = "idle"
      BY <1>4 DEF Submit
    <3>2. QED BY <3>1, HeldFacts
  <2>2. PICK n \in Counts : xnum' = [xnum EXCEPT ![r] = n]
    BY <1>4 DEF Submit
  <2>3. UNCHANGED <<engVars, hwVars, locVars, impatient, moved>>
    BY <1>4 DEF Submit
  <2>4. \A e \in Engines : queued[e] # None => xnum'[queued[e]] = xnum[queued[e]]
    BY <2>1, <2>2
  <2>5. tpc \in Polling => Head(todo) \in Engines
    BY SeqFacts
  <2>6. QED BY <2>3, <2>4, <2>5
<1>5. ASSUME NEW r \in Reqs, Queue(r) PROVE (~impatient => WritebackFresh)'
  <2>1. eng[r] \in Engines /\ queued[eng[r]] = None
    <3>1. pc[r] = "queue"
      BY <1>5 DEF Queue
    <3>2. descLock[eng[r]] = r
      BY <3>1, HeldFacts DEF Inside
    <3>3. ASSUME NEW q \in Reqs, queued[eng[r]] = q PROVE FALSE
      <4>1. descLock[eng[r]] = q /\ pc[q] \in {"wake", "wait", "reap"}
        BY <3>3, HeldFacts
      <4>2. QED BY <3>1, <3>2, <4>1
    <3>4. QED BY <3>3
  <2>2. /\ queued' = [queued EXCEPT ![eng[r]] = r] /\ UNCHANGED <<xnum, wb, locVars, impatient, moved>>
        /\ \A e \in Engines \ {eng[r]} : hwRun'[e] = hwRun[e]
    BY <1>5 DEF Queue, EngineStart
  <2>3. tpc \in Polling => Head(todo) \in Engines
    BY SeqFacts
  <2>4. QED BY <2>1, <2>2, <2>3
<1>6. ASSUME NEW r \in Reqs, Reap(r) PROVE (~impatient => WritebackFresh)'
  <2>1. ~impatient => queued' = queued /\ hwRun' = hwRun
    BY <1>6 DEF Reap, ReapsEnded
  <2>2. xnum' = [xnum EXCEPT ![r] = 0] /\ moved' = moved \ {r} /\ UNCHANGED <<wb, locVars, impatient>>
    BY <1>6 DEF Reap
  <2>3. ~impatient => \A e \in Engines : queued[e] # r
    BY <1>6, HeldFacts DEF Reap, ReapsEnded
  <2>4. tpc \in Polling => Head(todo) \in Engines
    BY SeqFacts
  <2>5. QED BY <2>1, <2>2, <2>3, <2>4
<1>7. ASSUME NEW e \in Engines, HwDone(e) PROVE (~impatient => WritebackFresh)'
  <2>1. PICK r \in Reqs : hwRun[e] = r
    BY <1>7 DEF HwDone
  <2>2. queued[e] = r /\ xnum[r] > 0 /\ r # None
    BY <2>1, HeldFacts DEF Sized
  <2>3. UNCHANGED <<queued, xnum, locVars, impatient>> /\ hwRun' = [hwRun EXCEPT ![e] = None]
    BY <1>7 DEF HwDone
  <2>4. moved' = moved \cup {r} /\ wb' = [wb EXCEPT ![e] = [count |-> xnum[r], err |-> FALSE]]
    BY <1>7, <2>1 DEF HwDone
  <2>5. tpc \in Polling => Head(todo) \in Engines
    BY SeqFacts
  <2>6. ~impatient => wb[e] = NoWb
    BY <2>1, <2>2
  <2>7. ~impatient /\ tpc \in {"zero", "test", "service"} /\ twb # NoWb => Head(todo) # e
    BY <2>1, <2>2
  <2>8. ~impatient => \A f \in Engines : wb'[f] # NoWb => Owns(f, wb[f])'
    <3>1. ASSUME ~impatient PROVE Owns(e, wb[e])'
      BY <2>1, <2>2, <2>3, <2>4, <3>1
    <3>2. ASSUME ~impatient, NEW f \in Engines, f # e, wb'[f] # NoWb PROVE Owns(f, wb[f])'
      <4>1. wb'[f] = wb[f] /\ hwRun'[f] = hwRun[f] /\ moved \subseteq moved'
        BY <2>3, <2>4, <3>2
      <4>2. Owns(f, wb[f])
        BY <3>2, <4>1
      <4>3. QED BY <2>3, <4>1, <4>2
    <3>3. QED BY <3>1, <3>2
  <2>9. QED BY <2>2, <2>3, <2>4, <2>5, <2>7, <2>8
<1>8. ASSUME NEW e \in Engines, HwFail(e) PROVE (~impatient => WritebackFresh)'
  <2>1. PICK r \in Reqs : hwRun[e] = r
    BY <1>8 DEF HwFail
  <2>2. queued[e] = r /\ xnum[r] > 0 /\ r # None
    BY <2>1, HeldFacts DEF Sized
  <2>3. UNCHANGED <<queued, xnum, locVars, impatient>> /\ hwRun' = [hwRun EXCEPT ![e] = None]
    BY <1>8 DEF HwFail
  <2>4. /\ moved' = moved
        /\ \E k \in (IF impatient THEN 0 ELSE 1) .. xnum[r] - 1 :
               wb' = [wb EXCEPT ![e] = [count |-> k, err |-> TRUE]]
    BY <1>8, <2>1 DEF HwFail
  <2>5. tpc \in Polling => Head(todo) \in Engines
    BY SeqFacts
  <2>6. ~impatient => wb[e] = NoWb
    BY <2>1, <2>2
  <2>7. ~impatient /\ tpc \in {"zero", "test", "service"} /\ twb # NoWb => Head(todo) # e
    BY <2>1, <2>2
  <2>8. ~impatient => \A f \in Engines : wb'[f] # NoWb => Owns(f, wb[f])'
    <3>1. ASSUME ~impatient PROVE Owns(e, wb[e])'
      BY <2>1, <2>2, <2>3, <2>4, <3>1
    <3>2. ASSUME ~impatient, NEW f \in Engines, f # e, wb'[f] # NoWb PROVE Owns(f, wb[f])'
      <4>1. wb'[f] = wb[f] /\ hwRun'[f] = hwRun[f] /\ moved \subseteq moved'
        BY <2>3, <2>4, <3>2
      <4>2. Owns(f, wb[f])
        BY <3>2, <4>1
      <4>3. QED BY <2>3, <4>1, <4>2
    <3>3. QED BY <3>1, <3>2
  <2>9. QED BY <2>2, <2>3, <2>4, <2>5, <2>7, <2>8
<1>9. CASE ThreadTop \/ ThreadPending \/ ThreadWait
  BY <1>9 DEF ThreadTop, ThreadPending, ThreadWait, ThreadOnly
<1>10. CASE ThreadRelock \/ ThreadClear \/ ThreadUnlock
  BY <1>10 DEF ThreadRelock, ThreadClear, ThreadUnlock, ThreadOnly
<1>11. CASE ThreadRead
  BY <1>11 DEF ThreadRead, ThreadOnly
<1>12. CASE ThreadLook
  <2>1. tpc = "work" /\ todo # <<>> /\ Head(todo) \in Engines
    BY <1>12, SeqFacts DEF ThreadLook
  <2>2. ThreadOnly /\ UNCHANGED twb
    BY <1>12 DEF ThreadLook
  <2>3. tpc' # "work" =>
            tpc' = "read" /\ queued[Head(todo)] \in Reqs /\ texp' = xnum[queued[Head(todo)]]
    BY <1>12, <2>1 DEF ThreadLook
  <2>4. tpc' = "read" => texp' > 0
    <3>1. SUFFICES ASSUME tpc' = "read" PROVE texp' > 0
      OBVIOUS
    <3>2. PICK r \in Reqs : queued[Head(todo)] = r /\ texp' = xnum[r]
      BY <2>1, <2>3, <3>1
    <3>3. pc[r] # "idle"
      BY <2>1, <3>2, HeldFacts
    <3>4. QED BY <3>2, <3>3 DEF Sized
  <2>5. QED BY <2>1, <2>2, <2>3, <2>4 DEF ThreadOnly
<1>13. CASE ThreadZero
  <2>1. tpc = "zero" /\ Head(todo) \in Engines
    BY <1>13, SeqFacts DEF ThreadZero
  <2>2. /\ wb' = [wb EXCEPT ![Head(todo)] = NoWb] /\ tpc' = "test"
        /\ UNCHANGED <<queued, hwRun, xnum, todo, texp, twb, impatient, moved>>
    BY <1>13 DEF ThreadZero
  <2>3. ~impatient => Owns(Head(todo), twb)
    BY <2>1
  <2>4. QED BY <2>1, <2>2, <2>3
<1>14. CASE ThreadTest
  BY <1>14 DEF ThreadTest, ThreadOnly, Enough, ThreadNext
<1>15. CASE ThreadService
  BY <1>15 DEF ThreadService, ThreadNext, Outcome
<1>16. CASE CloseRemove
  BY <1>16 DEF CloseRemove
<1>17. CASE StopSchedule
  BY <1>17 DEF StopSchedule
<1>18. CASE StopStop
  BY <1>18 DEF StopStop, WakeThread
<1>19. CASE StopJoin
  BY <1>19 DEF StopJoin
<1>20. CASE UNCHANGED vars
  BY <1>20
<1>21. QED
  BY <1>1, <1>2, <1>3, <1>4, <1>5, <1>6, <1>7, <1>8, <1>9, <1>10, <1>11, <1>12,
     <1>13, <1>14, <1>15, <1>16, <1>17, <1>18, <1>19, <1>20
     DEF Next, Caller, Hardware, Thread, Close

\* Only ThreadService completes a transfer, from a count that covers it.
LEMMA MovedStep == PatientInv /\ [Next]_vars => (~impatient => CompletedMeansMoved)'
<1> SUFFICES ASSUME PatientInv, [Next]_vars PROVE (~impatient => CompletedMeansMoved)'
  OBVIOUS
<1> USE DEF PatientInv, SafeInv, TypeOK, ReqTypeOK, EngTypeOK, HwTypeOK,
            ThreadTypeOK, WritebackFresh, Owns, CompletedMeansMoved, NoWb, Polling
<1>1. ASSUME NEW r \in Reqs, Submit(r) \/ LockDesc(r) \/ Queue(r) \/ Wake(r) \/
            Woken(r) \/ Reap(r)
      PROVE  (~impatient => CompletedMeansMoved)'
  BY <1>1 DEF Submit, LockDesc, Queue, EngineStart, Wake, WakeThread, Woken, Reap,
     Unqueued
<1>2. ASSUME NEW e \in Engines, HwDone(e) \/ HwFail(e)
      PROVE  (~impatient => CompletedMeansMoved)'
  BY <1>2 DEF HwDone, HwFail
<1>3. CASE ThreadTop \/ ThreadPending \/ ThreadWait \/ ThreadRelock \/ ThreadClear
          \/ ThreadUnlock \/ ThreadLook \/ ThreadRead \/ ThreadZero \/ ThreadTest
  BY <1>3 DEF ThreadTop, ThreadPending, ThreadWait, ThreadRelock, ThreadClear,
     ThreadUnlock, ThreadLook, ThreadRead, ThreadZero, ThreadTest, Enough,
     ThreadNext, ThreadOnly
<1>4. CASE ThreadService
  <2> SUFFICES ASSUME ~impatient, NEW r \in Reqs, xstate'[r] = "completed"
               PROVE  r \in moved'
    BY <1>4 DEF ThreadService
  <2>1. tpc = "service" /\ Head(todo) \in Engines /\ moved' = moved
    BY <1>4, SeqFacts DEF ThreadService
  <2>2. Owns(Head(todo), twb)
    BY <2>1
  <2>3. CASE r = queued[Head(todo)] /\ xstate'[r] # xstate[r]
    <3>1. \E err \in BOOLEAN : Outcome(xnum[r], twb.count, err) = "completed"
      BY <1>4, <2>1, <2>2, <2>3 DEF ThreadService
    <3>2. twb.count \in Nat /\ xnum[r] \in Nat
      BY DEF Writebacks
    <3>3. twb.count >= xnum[r]
      BY <3>1, <3>2 DEF Outcome
    <3>4. QED BY <2>1, <2>2, <2>3, <3>3
  <2>4. CASE xstate'[r] = xstate[r]
    BY <2>1, <2>4
  <2>5. CASE r # queued[Head(todo)]
    BY <1>4, <2>1, <2>5 DEF ThreadService
  <2>6. QED BY <2>3, <2>4, <2>5
<1>5. CASE CloseRemove \/ StopSchedule \/ StopStop \/ StopJoin
  BY <1>5 DEF CloseRemove, StopSchedule, StopStop, WakeThread, StopJoin
<1>6. CASE UNCHANGED vars
  BY <1>6
<1>7. QED
  BY <1>1, <1>2, <1>3, <1>4, <1>5, <1>6
     DEF Next, Caller, Hardware, Thread, Close
-----------------------------------------------------------------------------
\* The invariant is inductive.
LEMMA Inductive == PatientInv /\ [Next]_vars => PatientInv'
<1> SUFFICES ASSUME PatientInv, [Next]_vars PROVE PatientInv'
  OBVIOUS
<1>1. SafeInv
  BY DEF PatientInv
<1>2. SafeInv'
  BY <1>1, TypeStep, LockStep, HeldStep, SubmittedStep, FreshRunStep, ListedStep,
     LookStep, SleepStep, RoundStep DEF SafeInv
<1>3. QED
  BY <1>2, SizedStep, ReapsStep, FreshStep, MovedStep DEF PatientInv

LEMMA Invariant == Spec => []PatientInv
<1>1. QED
  BY InitInv, Inductive, PTL DEF Spec

\* Every variable keeps its type (xdma_thread.c and the polled part of libxdma.c).
THEOREM ThreadTypesCorrect == Spec => []TypeOK
<1>1. PatientInv => TypeOK
  BY DEF PatientInv, SafeInv
<1>2. QED
  BY <1>1, Invariant, PTL

\* A transfer on an engine's queue belongs to the caller that holds desc_lock,
\* and the channel runs no other (xdma_xfer_submit, engine_service).
THEOREM QueueHeld == Spec => []QueuedIsHeld
<1>1. PatientInv => QueuedIsHeld
  BY DEF PatientInv, SafeInv
<1>2. QED
  BY <1>1, Invariant, PTL

\* The thread does not sleep on a transfer, unless its caller is still about to
\* wake it (xthread_main, xdma_kthread_wakeup).
THEOREM WakeUpKept == Spec => []NoSleepOnWork
<1>1. PatientInv => NoSleepOnWork
  BY DEF PatientInv, SafeInv
<1>2. QED
  BY <1>1, Invariant, PTL

\* The thread polls only engines on its work list, also while the device is
\* closed (xdma_thread_remove_work).
THEOREM PollsListed == Spec => []PollsWorkList
<1>1. PatientInv => PollsWorkList
  <2> SUFFICES ASSUME PatientInv, tpc \in Polling
               PROVE  Listed(Head(todo))
    BY DEF PollsWorkList, Polling, Listed
  <2>1. todo \in Seq(Engines) /\ todo # <<>> /\ \A i \in 1 .. Len(todo) : Listed(todo[i])
    BY DEF PatientInv, SafeInv, TypeOK, ThreadTypeOK, RoundLocked, Polling
  <2>2. QED BY <2>1, SeqFacts
<1>2. QED
  BY <1>1, Invariant, PTL

\* As long as no wait times out, what is reported as completed was moved
\* (engine_service_wb_monitor, engine_service_final_transfer).
THEOREM PatientCompletion == Spec => []PatientlyMoved
<1>1. PatientInv => PatientlyMoved
  BY DEF PatientInv, PatientlyMoved
<1>2. QED
  BY <1>1, Invariant, PTL
=============================================================================
