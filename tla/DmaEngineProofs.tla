--------------------------- MODULE DmaEngineProofs ---------------------------
(***************************************************************************)
(* What holds of DmaEngine for every value of its constants; and, further  *)
(* down, when all its requests are blocking ones, for any number of        *)
(* callers, any ring, any sizes of requests, timeouts, errors and resets   *)
(* of the device, as long as its registers answer.                         *)
(***************************************************************************)
EXTENDS DmaEngine, TLAPS

\* The last descriptor of the ring ends the chain it belongs to, so that the
\* channel never runs off the ring.
LastAtEnd == ring[DescMax - 1].own # None => ring[DescMax - 1].last

\* A running channel was started for a transfer.
BusyHasXfer == hwBusy => hwXfer \in Xfers

TypeInv == TypeOK /\ LastAtEnd /\ BusyHasXfer

USE EngineAssumption
USE DEF reqVars, xferVars, engVars, workVars, hwVars, devVars, histVars, vars
-----------------------------------------------------------------------------
\* The operators the actions are made of.

LEMMA RingFacts == DescMax \in Nat \ {0} /\ DescMax - 1 \in Ring /\ 0 \in Ring
  BY DEF EngineAssumption, Ring

LEMMA XferFacts ==
    /\ \A r \in Reqs : \A k \in {1, 2} : <<r, k>> \in Xfers
    /\ \A t \in Xfers : t = <<t[1], t[2]>> /\ t[1] \in Reqs /\ t[2] \in {1, 2}
    /\ None \notin Xfers
  BY DEF Xfers, EngineAssumption

\* The chain of transfer_init fits in the request and before the end of the
\* ring.
LEMMA ChainLengthFits ==
    ASSUME descIdx \in Ring, NEW n \in Nat
    PROVE  /\ ChainLength(n) \in Nat
           /\ ChainLength(n) <= n
           /\ descIdx + ChainLength(n) <= DescMax
  BY DEF ChainLength, Ring, EngineAssumption

\* Groups of variables a step leaves alone keep their types.
LEMMA Unchanged ==
    /\ ReqTypeOK /\ UNCHANGED reqVars => ReqTypeOK'
    /\ XferTypeOK /\ UNCHANGED xferVars => XferTypeOK'
    /\ EngTypeOK /\ UNCHANGED engVars => EngTypeOK'
    /\ WorkTypeOK /\ UNCHANGED workVars => WorkTypeOK'
    /\ HwTypeOK /\ UNCHANGED hwVars => HwTypeOK'
    /\ DevTypeOK /\ UNCHANGED devVars => DevTypeOK'
    /\ HistTypeOK /\ UNCHANGED histVars => HistTypeOK'
    /\ LastAtEnd /\ UNCHANGED engVars => LastAtEnd'
    /\ BusyHasXfer /\ UNCHANGED <<hwVars, histVars>> => BusyHasXfer'
<1>1. ReqTypeOK /\ UNCHANGED reqVars => ReqTypeOK'  BY DEF ReqTypeOK
<1>2. XferTypeOK /\ UNCHANGED xferVars => XferTypeOK'  BY DEF XferTypeOK
<1>3. EngTypeOK /\ UNCHANGED engVars => EngTypeOK'  BY DEF EngTypeOK
<1>4. WorkTypeOK /\ UNCHANGED workVars => WorkTypeOK'  BY DEF WorkTypeOK
<1>5. HwTypeOK /\ UNCHANGED hwVars => HwTypeOK'  BY DEF HwTypeOK
<1>6. DevTypeOK /\ UNCHANGED devVars => DevTypeOK'  BY DEF DevTypeOK
<1>7. HistTypeOK /\ UNCHANGED histVars => HistTypeOK'  BY DEF HistTypeOK
<1>8. LastAtEnd /\ UNCHANGED engVars => LastAtEnd'  BY DEF LastAtEnd
<1>9. BusyHasXfer /\ UNCHANGED <<hwVars, histVars>> => BusyHasXfer'  BY DEF BusyHasXfer
<1>10. QED BY <1>1, <1>2, <1>3, <1>4, <1>5, <1>6, <1>7, <1>8, <1>9

\* Recycled descriptors are free, the others stay.
LEMMA RecycleType ==
    ASSUME TypeOK, NEW ts
    PROVE  /\ Recycle(ts) \in [Ring -> Descriptors]
           /\ LastAtEnd => (Recycle(ts)[DescMax - 1].own # None => Recycle(ts)[DescMax - 1].last)
  BY RingFacts DEF TypeOK, EngTypeOK, Recycle, Free, Descriptors, LastAtEnd

\* engine_start keeps the types.
LEMMA EngineStartType ==
    ASSUME TypeInv, NEW q \in Seq(Xfers), q # <<>>, EngineStart(q)
    PROVE  /\ running' \in BOOLEAN /\ shutdown' \in SUBSET {"REQUEST", "IDLE"}
           /\ dequeued' \in Nat /\ hwBusy' \in BOOLEAN /\ hwPos' \in Ring
           /\ hwCount' \in Nat /\ hwXfer' \in Xfers
<1>1. Head(q) \in Xfers
  OBVIOUS
<1>2. QED
  BY <1>1 DEF EngineStart, TypeInv, TypeOK, XferTypeOK

\* engine_service_resume keeps the types.
LEMMA ResumeType ==
    ASSUME TypeInv, NEW q \in Seq(Xfers), NEW run \in BOOLEAN, NEW deq \in Nat,
           Resume(q, run, deq)
    PROVE  /\ running' \in BOOLEAN /\ shutdown' \in SUBSET {"REQUEST", "IDLE"}
           /\ dequeued' \in Nat /\ hwBusy' \in BOOLEAN /\ hwPos' \in Ring
           /\ hwCount' \in Nat /\ hwXfer' \in Xfers \cup {None}
           /\ hwBusy' => hwXfer' \in Xfers
<1>1. CASE q # <<>> /\ ~run
  BY <1>1, EngineStartType DEF Resume
<1>2. CASE ~(q # <<>> /\ ~run)
  BY <1>2 DEF Resume, TypeInv, TypeOK, EngTypeOK, HwTypeOK, HistTypeOK, BusyHasXfer
<1>3. QED BY <1>1, <1>2

\* engine_transfer_completion keeps the types.
LEMMA CompleteType ==
    ASSUME TypeInv, NEW t \in Xfers, NEW s \in XferStates, Complete(t, s)
    PROVE  /\ pc' \in [Reqs -> PCs] /\ done' \in [Reqs -> Nat]
           /\ xstate' \in [Xfers -> XferStates]
           /\ ring' \in [Ring -> Descriptors] /\ LastAtEnd'
<1> DEFINE st == [xstate EXCEPT ![t] = s]
           ts == Reaped(t[1], st)
           Len1(x) == IF x \in ts /\ st[x] = "completed" THEN xnum[x] ELSE 0
<1>1. st \in [Xfers -> XferStates]
  BY DEF TypeInv, TypeOK, XferTypeOK
<1>2. Len1(<<t[1], 1>>) + Len1(<<t[1], 2>>) \in Nat
  <2>1. Len1(<<t[1], 1>>) \in Nat /\ Len1(<<t[1], 2>>) \in Nat
    BY XferFacts DEF TypeInv, TypeOK, XferTypeOK
  <2>2. QED BY <2>1
<1>3. CASE EndsRequest(t)
  <2>1. /\ xstate' = [x \in Xfers |-> IF x[1] = t[1] THEN "none" ELSE st[x]]
        /\ ring' = Recycle(ts)
        /\ done' = [done EXCEPT ![t[1]] = Len1(<<t[1], 1>>) + Len1(<<t[1], 2>>)]
        /\ pc' = [pc EXCEPT ![t[1]] = "idle"]
    BY <1>3 DEF Complete
  <2>2. xstate' \in [Xfers -> XferStates]
    BY <2>1, <1>1 DEF XferStates
  <2>3. ring' \in [Ring -> Descriptors] /\ LastAtEnd'
    BY <2>1, RecycleType DEF TypeInv, LastAtEnd
  <2>4. done' \in [Reqs -> Nat] /\ pc' \in [Reqs -> PCs]
    BY <2>1, <1>2 DEF TypeInv, TypeOK, ReqTypeOK, PCs
  <2>5. QED BY <2>2, <2>3, <2>4
<1>4. CASE ~EndsRequest(t)
  BY <1>4, <1>1 DEF Complete, TypeInv, TypeOK, ReqTypeOK, EngTypeOK, LastAtEnd
<1>5. QED BY <1>3, <1>4
-----------------------------------------------------------------------------
\* Each step of the submitters keeps the types.

LEMMA SubmitType == ASSUME TypeInv, NEW r \in Reqs, Submit(r) PROVE TypeInv'
<1> USE DEF TypeInv, TypeOK
<1>1. PICK n \in ReqDescs :
        /\ nents' = [nents EXCEPT ![r] = n]
        /\ pc' = [pc EXCEPT ![r] = IF r \in Sync THEN "lock" ELSE "init"]
  BY DEF Submit
<1>2. ReqTypeOK'
  BY <1>1 DEF Submit, ReqTypeOK, PCs, EngineAssumption
<1>3. /\ XferTypeOK' /\ EngTypeOK' /\ WorkTypeOK' /\ HwTypeOK' /\ DevTypeOK'
      /\ LastAtEnd' /\ BusyHasXfer'
  BY DEF Submit, XferTypeOK, EngTypeOK, WorkTypeOK, HwTypeOK, DevTypeOK,
         LastAtEnd, BusyHasXfer
<1>4. HistTypeOK'
  BY DEF Submit, HistTypeOK
<1>5. QED BY <1>2, <1>3, <1>4

LEMMA TransferInitType ==
    ASSUME TypeInv, NEW r \in Reqs, TransferInit(r) PROVE TypeInv'
<1> USE DEF TypeInv, TypeOK
<1> DEFINE t == Current(r)
           n == ChainLength(nents[r])
<1>1. t \in Xfers
  BY XferFacts DEF Current, ReqTypeOK
<1>2. n \in Nat /\ n <= nents[r] /\ descIdx + n <= DescMax /\ descIdx \in Ring /\ nents[r] \in Nat
  BY ChainLengthFits DEF EngTypeOK, ReqTypeOK
<1>3. /\ xstate' = [xstate EXCEPT ![t] = "new"]
      /\ xidx' = [xidx EXCEPT ![t] = descIdx]
      /\ xnum' = [xnum EXCEPT ![t] = n]
      /\ xlast' = [xlast EXCEPT ![t] = (n = nents[r])]
      /\ nents' = [nents EXCEPT ![r] = @ - n]
      /\ ring' = [i \in Ring |->
                    IF descIdx <= i /\ i < descIdx + n
                    THEN [own |-> t, last |-> i = descIdx + n - 1]
                    ELSE ring[i]]
      /\ descIdx' = (descIdx + n) % DescMax
      /\ faulted' = faulted \ {t}
  BY DEF TransferInit
<1> HIDE DEF t, n
<1>4. ReqTypeOK'
  <2>1. nents' \in [Reqs -> Nat]
    BY <1>2, <1>3 DEF ReqTypeOK
  <2>2. QED BY <2>1 DEF TransferInit, ReqTypeOK, PCs
<1>5. XferTypeOK'
  BY <1>1, <1>2, <1>3 DEF XferTypeOK, XferStates
<1>6. descIdx' \in Ring
  BY <1>2, <1>3, RingFacts DEF Ring
<1>7. ring' \in [Ring -> Descriptors]
  BY <1>1, <1>3 DEF Descriptors, EngTypeOK
<1>8. EngTypeOK'
  BY <1>6, <1>7 DEF TransferInit, EngTypeOK
<1>9. LastAtEnd'
  <2>1. CASE DescMax - 1 < descIdx + n
    <3>1. DescMax - 1 = descIdx + n - 1
      BY <2>1, <1>2, RingFacts DEF Ring
    <3>2. ring'[DescMax - 1].last = (DescMax - 1 = descIdx + n - 1)
      BY <2>1, <1>2, <1>3, RingFacts DEF Ring
    <3>3. ring'[DescMax - 1].last
      BY <3>1, <3>2
    <3>4. QED BY <3>3 DEF LastAtEnd
  <2>2. CASE ~(DescMax - 1 < descIdx + n)
    <3>1. ring'[DescMax - 1] = ring[DescMax - 1]
      BY <2>2, <1>3, RingFacts
    <3>2. QED BY <3>1 DEF LastAtEnd
  <2>3. QED BY <2>1, <2>2
<1>10. WorkTypeOK' /\ HwTypeOK' /\ DevTypeOK' /\ HistTypeOK' /\ BusyHasXfer'
  BY <1>3 DEF TransferInit, WorkTypeOK, HwTypeOK, DevTypeOK, HistTypeOK, BusyHasXfer
<1>11. QED BY <1>4, <1>5, <1>8, <1>9, <1>10

LEMMA EnqueueType == ASSUME TypeInv, NEW r \in Reqs, Enqueue(r) PROVE TypeInv'
<1> USE DEF TypeInv, TypeOK
<1> DEFINE t == Current(r)
           q == Queued(t)
<1>1. t \in Xfers
  BY XferFacts DEF Current, ReqTypeOK
<1>2. q \in Seq(Xfers) /\ q # <<>>
  BY <1>1 DEF Queued, EngTypeOK
<1>3. \/ running /\ UNCHANGED <<running, shutdown, dequeued, hwBusy, hwPos, hwCount, hwXfer>>
      \/ EngineStart(q)
  BY DEF Enqueue
<1>4. transferList' = q
  BY DEF Enqueue
<1> HIDE DEF q, t
<1>5. /\ running' \in BOOLEAN /\ shutdown' \in SUBSET {"REQUEST", "IDLE"}
      /\ dequeued' \in Nat /\ hwBusy' \in BOOLEAN /\ hwPos' \in Ring
      /\ hwCount' \in Nat /\ hwXfer' \in Xfers \cup {None} /\ BusyHasXfer'
  <2>1. CASE EngineStart(q)
    BY <2>1, <1>2, EngineStartType DEF BusyHasXfer
  <2>2. CASE UNCHANGED <<running, shutdown, dequeued, hwBusy, hwPos, hwCount, hwXfer>>
    BY <2>2 DEF EngTypeOK, HwTypeOK, HistTypeOK, BusyHasXfer
  <2>3. QED BY <1>3, <2>1, <2>2
<1>6. EngTypeOK' /\ HwTypeOK' /\ HistTypeOK'
  BY <1>2, <1>4, <1>5 DEF Enqueue, EngTypeOK, HwTypeOK, HistTypeOK
<1>7. ReqTypeOK'
  BY DEF Enqueue, ReqTypeOK, PCs
<1>8. XferTypeOK'
  BY <1>1 DEF Enqueue, XferTypeOK, XferStates, t
<1>9. WorkTypeOK' /\ DevTypeOK' /\ LastAtEnd'
  BY DEF Enqueue, WorkTypeOK, DevTypeOK, LastAtEnd
<1>10. QED BY <1>5, <1>6, <1>7, <1>8, <1>9

LEMMA ReapType == ASSUME TypeInv, NEW r \in Reqs, Reap(r) PROVE TypeInv'
<1> USE DEF TypeInv, TypeOK
<1> DEFINE t == <<r, 1>>
<1>1. t \in Xfers
  BY XferFacts
<1>2. ReqTypeOK'
  <2>1. done' = [done EXCEPT ![r] = IF xstate[t] = "completed" THEN @ + xnum[t] ELSE @]
    BY DEF Reap
  <2>2. xnum[t] \in Nat
    BY <1>1 DEF XferTypeOK
  <2>3. done' \in [Reqs -> Nat]
    BY <2>1, <2>2 DEF ReqTypeOK
  <2>4. QED BY <2>3 DEF Reap, ReqTypeOK, PCs
<1>3. Unqueued(t) \in Seq(Xfers)
  BY DEF Unqueued, EngTypeOK
<1>4. running' \in BOOLEAN /\ hwBusy' \in BOOLEAN /\ transferList' \in Seq(Xfers) /\ BusyHasXfer'
  <2>1. CASE UNCHANGED <<transferList, running, hwBusy>>
    BY <2>1 DEF Reap, EngTypeOK, HwTypeOK, BusyHasXfer
  <2>2. CASE transferList' = Unqueued(t) /\ EngineStop
    BY <2>2, <1>3 DEF EngineStop, BusyHasXfer
  <2>3. QED BY <2>1, <2>2 DEF Reap
<1>8. EngTypeOK' /\ HwTypeOK'
  BY <1>4 DEF Reap, EngTypeOK, HwTypeOK
<1>5. XferTypeOK'
  BY DEF Reap, XferTypeOK, XferStates
<1>6. WorkTypeOK' /\ DevTypeOK' /\ HistTypeOK' /\ LastAtEnd'
  BY DEF Reap, WorkTypeOK, DevTypeOK, HistTypeOK, LastAtEnd
<1>7. QED BY <1>2, <1>4, <1>5, <1>6, <1>8

LEMMA DestroyType == ASSUME TypeInv, NEW r \in Reqs, Destroy(r) PROVE TypeInv'
<1> USE DEF TypeInv, TypeOK
<1>1. ring' = Recycle({<<r, 1>>})
  BY DEF Destroy
<1>2. EngTypeOK' /\ LastAtEnd'
  BY <1>1, RecycleType DEF Destroy, EngTypeOK, LastAtEnd
<1>3. ReqTypeOK' /\ XferTypeOK'
  BY DEF Destroy, ReqTypeOK, XferTypeOK, PCs, XferStates
<1>4. WorkTypeOK' /\ HwTypeOK' /\ DevTypeOK' /\ HistTypeOK' /\ BusyHasXfer'
  BY DEF Destroy, WorkTypeOK, HwTypeOK, DevTypeOK, HistTypeOK, BusyHasXfer
<1>5. QED BY <1>2, <1>3, <1>4

LEMMA RequesterType == ASSUME TypeInv, NEW r \in Reqs, Requester(r) PROVE TypeInv'
<1> USE DEF TypeInv, TypeOK
<1>1. CASE LockDesc(r) \/ Woken(r)
  <2>1. ReqTypeOK'
    BY <1>1 DEF LockDesc, Woken, ReqTypeOK, PCs
  <2>2. UNCHANGED <<xferVars, engVars, workVars, hwVars, devVars, histVars>>
    BY <1>1 DEF LockDesc, Woken
  <2>3. QED BY <2>1, <2>2, Unchanged
<1>2. CASE QueueCheck(r) \/ EnqueueRefused(r)
  <2>1. ReqTypeOK' /\ XferTypeOK'
    BY <1>2 DEF QueueCheck, EnqueueRefused, Refuse, ReqTypeOK, XferTypeOK, PCs, XferStates
  <2>2. /\ EngTypeOK' /\ WorkTypeOK' /\ HwTypeOK' /\ DevTypeOK' /\ HistTypeOK'
        /\ LastAtEnd' /\ BusyHasXfer'
    <3>1. UNCHANGED <<engVars, workVars, hwVars, devVars, histVars>>
      BY <1>2 DEF QueueCheck, EnqueueRefused, Refuse
    <3>2. QED BY <3>1, Unchanged
  <2>3. QED BY <2>1, <2>2
<1>3. QED
  BY <1>1, <1>2, SubmitType, TransferInitType, EnqueueType, ReapType, DestroyType
  DEF Requester
-----------------------------------------------------------------------------
\* Each step of the channel, the work item and the error path keeps the types.

LEMMA HardwareType == ASSUME TypeInv, Hardware PROVE TypeInv'
<1> USE DEF TypeInv, TypeOK
<1>1. CASE HwMove
  <2> DEFINE d == ring[hwPos]
  <2>1. d \in Descriptors /\ hwPos \in Ring
    BY DEF EngTypeOK, HwTypeOK
  <2>2. d.own \in Xfers
    BY <1>1, <2>1 DEF HwMove, Descriptors
  <2>3. ~d.last => hwPos + 1 \in Ring
    <3>1. hwPos = DescMax - 1 => d.last
      BY <2>2, XferFacts DEF LastAtEnd
    <3>2. QED BY <3>1, <2>1, RingFacts DEF Ring
  <2>4. HwTypeOK'
    <3>1. hwBusy' \in BOOLEAN /\ armed' \in BOOLEAN
      BY <1>1 DEF HwMove, HwTypeOK
    <3>2. hwPos' \in Ring
      BY <1>1, <2>1, <2>3 DEF HwMove
    <3>3. hwCount' \in Nat
      BY <1>1 DEF HwMove, HwTypeOK
    <3>4. hwStat' \in SUBSET {"done", "err"}
      BY <1>1 DEF HwMove, HwTypeOK
    <3>5. QED BY <3>1, <3>2, <3>3, <3>4 DEF HwTypeOK
  <2>5. HistTypeOK'
    <3>1. d.own[1] \in Reqs
      BY <2>2, XferFacts
    <3>2. moved' = [moved EXCEPT ![d.own[1]] = @ + 1]
      BY <1>1 DEF HwMove
    <3>3. moved' \in [Reqs -> Nat]
      BY <3>1, <3>2 DEF HistTypeOK
    <3>4. QED BY <1>1, <3>3 DEF HwMove, HistTypeOK
  <2>6. /\ ReqTypeOK' /\ XferTypeOK' /\ EngTypeOK' /\ WorkTypeOK' /\ DevTypeOK'
        /\ LastAtEnd' /\ BusyHasXfer'
    BY <1>1 DEF HwMove, ReqTypeOK, XferTypeOK, EngTypeOK, WorkTypeOK, DevTypeOK,
                LastAtEnd, BusyHasXfer, HwTypeOK
  <2>7. QED BY <2>4, <2>5, <2>6
<1>2. CASE HwError
  <2>1. HwTypeOK' /\ HistTypeOK' /\ BusyHasXfer'
    BY <1>2 DEF HwError, HwTypeOK, HistTypeOK, BusyHasXfer
  <2>2. ReqTypeOK' /\ XferTypeOK' /\ EngTypeOK' /\ WorkTypeOK' /\ DevTypeOK' /\ LastAtEnd'
    BY <1>2 DEF HwError, ReqTypeOK, XferTypeOK, EngTypeOK, WorkTypeOK, DevTypeOK, LastAtEnd
  <2>3. QED BY <2>1, <2>2
<1>3. QED BY <1>1, <1>2 DEF Hardware

LEMMA WorkPopType == ASSUME TypeInv, WorkPop PROVE TypeInv'
<1> USE DEF TypeInv, TypeOK
<1> DEFINE t == Head(transferList)
<1>1. t \in Xfers /\ Tail(transferList) \in Seq(Xfers) /\ xnum[t] \in Nat
  BY DEF WorkPop, EngTypeOK, XferTypeOK
<1>2. /\ wcount > xnum[t] /\ wcount' = wcount - xnum[t]
      /\ transferList' = Tail(transferList)
      /\ dequeued' = dequeued + xnum[t] /\ Complete(t, "completed")
  BY DEF WorkPop
<1>3. "completed" \in XferStates
  BY DEF XferStates
<1> HIDE DEF t
<1>4. /\ pc' \in [Reqs -> PCs] /\ done' \in [Reqs -> Nat]
      /\ xstate' \in [Xfers -> XferStates]
      /\ ring' \in [Ring -> Descriptors] /\ LastAtEnd'
  BY <1>1, <1>2, <1>3, CompleteType
<1>5. ReqTypeOK' /\ XferTypeOK'
  BY <1>4 DEF WorkPop, ReqTypeOK, XferTypeOK
<1>6. dequeued' \in Nat /\ wcount' \in Nat
  BY <1>1, <1>2 DEF EngTypeOK, WorkTypeOK
<1>7. EngTypeOK' /\ WorkTypeOK'
  BY <1>1, <1>2, <1>4, <1>6 DEF WorkPop, EngTypeOK, WorkTypeOK
<1>8. HwTypeOK' /\ DevTypeOK' /\ HistTypeOK' /\ BusyHasXfer'
  BY DEF WorkPop, HwTypeOK, DevTypeOK, HistTypeOK, BusyHasXfer
<1>9. QED BY <1>4, <1>5, <1>7, <1>8

LEMMA WorkFinalType == ASSUME TypeInv, WorkFinal PROVE TypeInv'
<1> USE DEF TypeInv, TypeOK
<1> DEFINE t == Head(transferList)
<1>1. /\ transferList' \in Seq(Xfers)
      /\ pc' \in [Reqs -> PCs] /\ done' \in [Reqs -> Nat]
      /\ xstate' \in [Xfers -> XferStates]
      /\ ring' \in [Ring -> Descriptors] /\ LastAtEnd'
      /\ \E q \in Seq(Xfers), run \in BOOLEAN, deq \in Nat : Resume(q, run, deq)
  <2>1. CASE transferList = <<>>
    <3>1. /\ Resume(transferList, running, dequeued)
          /\ UNCHANGED <<xstate, transferList, ring, done, pc>>
      BY <2>1 DEF WorkFinal
    <3>2. transferList \in Seq(Xfers) /\ running \in BOOLEAN /\ dequeued \in Nat
      BY DEF EngTypeOK
    <3>3. QED BY <3>1, <3>2 DEF ReqTypeOK, XferTypeOK, EngTypeOK, LastAtEnd
  <2>2. CASE transferList # <<>>
    <3>1. t \in Xfers /\ Tail(transferList) \in Seq(Xfers) /\ xnum[t] \in Nat
      BY <2>2 DEF EngTypeOK, XferTypeOK
    <3>2. /\ Complete(t, Outcome(t))
          /\ transferList' = Tail(transferList)
          /\ Resume(Tail(transferList), running /\ ~werr,
                    IF werr THEN dequeued ELSE dequeued + xnum[t])
      BY <2>2 DEF WorkFinal
    <3>3. Outcome(t) \in XferStates
      BY DEF Outcome, XferStates
    <3>4. (running /\ ~werr) \in BOOLEAN
      OBVIOUS
    <3>5. (IF werr THEN dequeued ELSE dequeued + xnum[t]) \in Nat
      BY <3>1 DEF EngTypeOK
    <3> HIDE DEF t
    <3>6. /\ pc' \in [Reqs -> PCs] /\ done' \in [Reqs -> Nat]
          /\ xstate' \in [Xfers -> XferStates]
          /\ ring' \in [Ring -> Descriptors] /\ LastAtEnd'
      BY <3>1, <3>2, <3>3, CompleteType
    <3>7. QED BY <3>1, <3>2, <3>4, <3>5, <3>6
  <2>3. QED BY <2>1, <2>2
<1>2. /\ running' \in BOOLEAN /\ shutdown' \in SUBSET {"REQUEST", "IDLE"}
      /\ dequeued' \in Nat /\ hwBusy' \in BOOLEAN /\ hwPos' \in Ring
      /\ hwCount' \in Nat /\ hwXfer' \in Xfers \cup {None} /\ BusyHasXfer'
  BY <1>1, ResumeType DEF BusyHasXfer
<1>3. ReqTypeOK' /\ XferTypeOK'
  BY <1>1 DEF WorkFinal, ReqTypeOK, XferTypeOK
<1>4. EngTypeOK' /\ HwTypeOK' /\ HistTypeOK'
  BY <1>1, <1>2 DEF WorkFinal, Rearm, EngTypeOK, HwTypeOK, HistTypeOK
<1>5. WorkTypeOK' /\ DevTypeOK'
  BY DEF WorkFinal, WorkTypeOK, DevTypeOK
<1>6. QED BY <1>1, <1>2, <1>3, <1>4, <1>5

LEMMA WorkType == ASSUME TypeInv, Work PROVE TypeInv'
<1> USE DEF TypeInv, TypeOK
<1>1. CASE WorkIdle
  <2>1. WorkTypeOK' /\ HwTypeOK' /\ BusyHasXfer'
    BY <1>1 DEF WorkIdle, Rearm, WorkTypeOK, HwTypeOK, BusyHasXfer
  <2>2. UNCHANGED <<reqVars, xferVars, engVars, devVars, histVars>>
    BY <1>1 DEF WorkIdle
  <2>3. QED BY <2>1, <2>2, Unchanged
<1>2. CASE WorkBegin
  <2>1. werr' = ("err" \in hwStat)
    BY <1>2 DEF WorkBegin
  <2>2. werr' \in BOOLEAN
    BY <2>1
  <2>3. WorkTypeOK'
    BY <1>2, <2>2 DEF WorkBegin, WorkTypeOK
  <2>4. /\ ReqTypeOK' /\ XferTypeOK' /\ EngTypeOK' /\ HwTypeOK' /\ DevTypeOK'
        /\ HistTypeOK' /\ LastAtEnd' /\ BusyHasXfer'
    BY <1>2 DEF WorkBegin, ReqTypeOK, XferTypeOK, EngTypeOK, HwTypeOK, DevTypeOK,
                HistTypeOK, LastAtEnd, BusyHasXfer
  <2>5. QED BY <2>3, <2>4
<1>3. CASE WorkCount
  <2>1. (hwCount - dequeued) % CountMod \in Nat
    BY DEF HwTypeOK, EngTypeOK, EngineAssumption
  <2>2. WorkTypeOK'
    BY <1>3, <2>1 DEF WorkCount, WorkTypeOK
  <2>3. HistTypeOK'
    BY <1>3 DEF WorkCount, HistTypeOK
  <2>4. /\ ReqTypeOK' /\ XferTypeOK' /\ EngTypeOK' /\ HwTypeOK' /\ DevTypeOK'
        /\ LastAtEnd' /\ BusyHasXfer'
    BY <1>3 DEF WorkCount, Rearm, ReqTypeOK, XferTypeOK, EngTypeOK, HwTypeOK,
                DevTypeOK, LastAtEnd, BusyHasXfer
  <2>5. QED BY <2>2, <2>3, <2>4
<1>4. QED BY <1>1, <1>2, <1>3, WorkPopType, WorkFinalType DEF Work

LEMMA DeviceType == ASSUME TypeInv, Device PROVE TypeInv'
<1> USE DEF TypeInv, TypeOK
<1>1. DevTypeOK'
  <2>1. CASE OfflineFlag BY <2>1 DEF OfflineFlag, DevTypeOK
  <2>2. CASE OfflineStop BY <2>2 DEF OfflineStop, DevTypeOK
  <2>3. CASE OfflineIrq BY <2>3 DEF OfflineIrq, DevTypeOK
  <2>4. CASE OnlineEngine BY <2>4 DEF OnlineEngine, DevTypeOK
  <2>5. CASE OnlineFlag BY <2>5 DEF OnlineFlag, DevTypeOK
  <2>6. QED BY <2>1, <2>2, <2>3, <2>4, <2>5 DEF Device
<1>2. EngTypeOK' /\ HwTypeOK' /\ LastAtEnd' /\ BusyHasXfer'
  <2>1. CASE OfflineFlag \/ OnlineFlag
    BY <2>1, Unchanged DEF OfflineFlag, OnlineFlag
  <2>2. CASE OfflineStop
    BY <2>2 DEF OfflineStop, EngineStop, EngTypeOK, HwTypeOK, LastAtEnd, BusyHasXfer
  <2>3. CASE OfflineIrq
    BY <2>3 DEF OfflineIrq, EngTypeOK, HwTypeOK, LastAtEnd, BusyHasXfer
  <2>4. CASE OnlineEngine
    BY <2>4 DEF OnlineEngine, Rearm, EngTypeOK, HwTypeOK, LastAtEnd, BusyHasXfer
  <2>5. QED BY <2>1, <2>2, <2>3, <2>4 DEF Device
<1>3. ReqTypeOK' /\ XferTypeOK' /\ WorkTypeOK' /\ HistTypeOK'
  <2>1. UNCHANGED <<reqVars, xferVars, workVars, histVars>>
    BY DEF Device, OfflineFlag, OfflineStop, OfflineIrq, OnlineEngine, OnlineFlag
  <2>2. QED BY <2>1, Unchanged
<1>4. QED BY <1>1, <1>2, <1>3

LEMMA TypeStep == ASSUME TypeInv, [Next]_vars PROVE TypeInv'
<1>1. CASE UNCHANGED vars
  BY <1>1, Unchanged DEF TypeInv, TypeOK
<1>2. CASE ChannelIrq
  <2>1. WorkTypeOK' /\ HwTypeOK' /\ BusyHasXfer'
    BY <1>2 DEF ChannelIrq, TypeInv, TypeOK, WorkTypeOK, HwTypeOK, BusyHasXfer
  <2>2. UNCHANGED <<reqVars, xferVars, engVars, devVars, histVars>>
    BY <1>2 DEF ChannelIrq
  <2>3. QED BY <2>1, <2>2, Unchanged DEF TypeInv, TypeOK
<1>3. QED
  BY <1>1, <1>2, RequesterType, HardwareType, WorkType, DeviceType DEF Next

LEMMA InitType == Init => TypeInv
<1> SUFFICES ASSUME Init PROVE TypeInv
  OBVIOUS
<1> USE DEF Init
<1>1. ReqTypeOK /\ XferTypeOK
  BY RingFacts DEF ReqTypeOK, XferTypeOK, PCs, XferStates
<1>2. EngTypeOK /\ LastAtEnd
  <2>1. Free \in Descriptors /\ Free.own = None
    BY DEF Free, Descriptors
  <2>2. ring \in [Ring -> Descriptors] /\ ring[DescMax - 1] = Free
    BY <2>1, RingFacts
  <2>3. EngTypeOK
    <3>1. descIdx \in Ring /\ dequeued \in Nat /\ transferList \in Seq(Xfers)
      BY RingFacts
    <3>2. running \in BOOLEAN /\ shutdown \in SUBSET {"REQUEST", "IDLE"}
      OBVIOUS
    <3> HIDE DEF Init
    <3>3. QED BY <2>2, <3>1, <3>2 DEF EngTypeOK
  <2>4. QED BY <2>1, <2>2, <2>3 DEF LastAtEnd
<1>3. WorkTypeOK /\ HwTypeOK /\ DevTypeOK /\ HistTypeOK /\ BusyHasXfer
  BY RingFacts DEF WorkTypeOK, HwTypeOK, DevTypeOK, HistTypeOK, BusyHasXfer
<1>4. QED BY <1>1, <1>2, <1>3 DEF TypeInv, TypeOK

\* Every variable of the engine model keeps its type; in particular the channel
\* never fetches a descriptor beyond the ring.
LEMMA TypeInvariant == Spec => []TypeInv
  BY InitType, TypeStep, PTL DEF Spec

THEOREM TypeCorrect == Spec => []TypeOK
  BY TypeInvariant, PTL DEF TypeInv
-----------------------------------------------------------------------------
\* engine_service_resume leaves no channel running behind the driver's back.
LEMMA ResumeKeepsIdle ==
    ASSUME NEW q, NEW run, NEW deq, Resume(q, run, deq)
    PROVE  hwBusy' => running'
<1>1. CASE q # <<>> /\ ~run
  BY <1>1 DEF Resume, EngineStart
<1>2. CASE ~(q # <<>> /\ ~run)
  <2>1. running' = (run /\ q # <<>>) /\ hwBusy' = (hwBusy /\ run /\ q # <<>>)
    BY <1>2 DEF Resume
  <2>2. QED BY <2>1
<1>3. QED BY <1>1, <1>2

\* A channel the driver takes for idle is idle (engine->running is cleared only
\* where xdma_engine_stop is called or the channel reports that it stopped).
THEOREM IdleMeansIdle == Spec => []BusyIsRunning
<1>1. Init => BusyIsRunning
  BY DEF Init, BusyIsRunning
<1>2. ASSUME BusyIsRunning, [Next]_vars PROVE BusyIsRunning'
  <2> USE <1>2 DEF BusyIsRunning
  <2>1. CASE UNCHANGED vars
    BY <2>1
  <2>2. CASE \E r \in Reqs : Requester(r)
    <3>1. PICK r \in Reqs : Requester(r)
      BY <2>2
    <3>2. CASE Submit(r) \/ LockDesc(r) \/ TransferInit(r) \/ QueueCheck(r)
               \/ EnqueueRefused(r) \/ Woken(r) \/ Destroy(r)
      BY <3>2 DEF Submit, LockDesc, TransferInit, QueueCheck, EnqueueRefused, Refuse, Woken, Destroy
    <3>3. CASE Enqueue(r)
      BY <3>3 DEF Enqueue, EngineStart
    <3>4. CASE Reap(r)
      <4>1. UNCHANGED <<running, hwBusy>> \/ (running' = FALSE /\ hwBusy' = FALSE)
        BY <3>4 DEF Reap, EngineStop
      <4>2. QED BY <4>1
    <3>5. QED BY <3>1, <3>2, <3>3, <3>4 DEF Requester
  <2>3. CASE Hardware \/ ChannelIrq
    BY <2>3 DEF Hardware, HwMove, HwError, ChannelIrq
  <2>4. CASE Work
    <3>1. CASE WorkIdle \/ WorkCount \/ WorkPop
      BY <3>1 DEF WorkIdle, WorkCount, WorkPop
    <3>2. CASE WorkBegin
      <4>1. running' = hwBusy
        BY <3>2 DEF WorkBegin
      <4>2. hwBusy' = hwBusy
        BY <3>2 DEF WorkBegin
      <4>3. QED BY <4>1, <4>2, Zenon
    <3>3. CASE WorkFinal
      BY <3>3, ResumeKeepsIdle DEF WorkFinal
    <3>4. QED BY <2>4, <3>1, <3>2, <3>3 DEF Work
  <2>5. CASE Device
    BY <2>5 DEF Device, OfflineFlag, OfflineStop, EngineStop, OfflineIrq, OnlineEngine, OnlineFlag
  <2>6. QED BY <2>1, <2>2, <2>3, <2>4, <2>5 DEF Next
<1>3. QED BY <1>1, <1>2, PTL DEF Spec

\* Whatever the channel reports, its interrupt is armed or the work item that
\* will arm it is on its way; stronger than InterruptNotLost, and inductive.
ArmedOrServed == armed \/ work \/ wpc # "idle"

\* No cause of interrupt is lost between xdma_channel_irq, which masks the
\* interrupt, and engine_service_work, which unmasks it on every path.
THEOREM InterruptKept == Spec => []InterruptNotLost
<1>1. Init => ArmedOrServed
  BY DEF Init, ArmedOrServed
<1>2. ASSUME ArmedOrServed, [Next]_vars PROVE ArmedOrServed'
  <2> USE <1>2 DEF ArmedOrServed
  <2>1. CASE UNCHANGED vars
    BY <2>1
  <2>2. CASE \E r \in Reqs : Requester(r)
    <3>1. UNCHANGED <<armed, work, wpc>>
      BY <2>2 DEF Requester, Submit, LockDesc, TransferInit, QueueCheck, Enqueue,
                  EnqueueRefused, Refuse, Woken, Reap, Destroy
    <3>2. QED BY <3>1
  <2>3. CASE Hardware \/ ChannelIrq
    BY <2>3 DEF Hardware, HwMove, HwError, ChannelIrq
  <2>4. CASE Work
    BY <2>4 DEF Work, WorkIdle, WorkBegin, WorkCount, WorkPop, WorkFinal, Rearm
  <2>5. CASE Device
    BY <2>5 DEF Device, OfflineFlag, OfflineStop, OfflineIrq, OnlineEngine, OnlineFlag, Rearm
  <2>6. QED BY <2>1, <2>2, <2>3, <2>4, <2>5 DEF Next
<1>3. ArmedOrServed => InterruptNotLost
  BY DEF ArmedOrServed, InterruptNotLost
<1>4. QED BY <1>1, <1>2, <1>3, PTL DEF Spec

\* An engine nobody looks after does nothing that needs looking after
\* (engine_start and engine_service_shutdown; xdma_channel_irq and
\* engine_service_work): the two above, together.
THEOREM Attended == Spec => []EngineAttended
<1>1. BusyIsRunning /\ InterruptNotLost => EngineAttended
  BY DEF EngineAttended
<1>2. QED BY <1>1, IdleMeansIdle, InterruptKept, PTL

\* A stopped engine that is to stay so, and a work item that is not inside its
\* critical section: it would otherwise start the engine again on its way out.
StaysDown ==
    dpc \in {"irq", "down"} => "REQUEST" \in shutdown /\ ~running /\ ~hwBusy /\ LockFree

\* Between xdma_device_offline's stop of the engine and xdma_device_online
\* nothing starts the engine: transfer_queue sees the shutdown request under the
\* lock, and engine_service returns early on an engine that does not run.
THEOREM OfflineStaysQuiet == Spec => []QuiescedOffline
<1>1. Init => StaysDown
  BY DEF Init, StaysDown
<1>2. ASSUME StaysDown, [Next]_vars PROVE StaysDown'
  <2> USE <1>2 DEF StaysDown, LockFree
  <2>1. CASE UNCHANGED vars
    BY <2>1
  <2>2. CASE \E r \in Reqs : Requester(r)
    <3>1. PICK r \in Reqs : Requester(r)
      BY <2>2
    <3>2. CASE Submit(r) \/ LockDesc(r) \/ TransferInit(r) \/ QueueCheck(r)
               \/ EnqueueRefused(r) \/ Woken(r) \/ Destroy(r)
      BY <3>2 DEF Submit, LockDesc, TransferInit, QueueCheck, EnqueueRefused, Refuse, Woken, Destroy
    <3>3. CASE Enqueue(r)
      <4>1. ~ShutdownRequested /\ UNCHANGED dpc
        BY <3>3 DEF Enqueue
      <4>2. QED BY <4>1 DEF ShutdownRequested
    <3>4. CASE Reap(r)
      BY <3>4 DEF Reap, EngineStop
    <3>5. QED BY <3>1, <3>2, <3>3, <3>4 DEF Requester
  <2>3. CASE Hardware \/ ChannelIrq
    BY <2>3 DEF Hardware, HwMove, HwError, ChannelIrq
  <2>4. CASE Work
    BY <2>4 DEF Work, WorkIdle, WorkBegin, WorkCount, WorkPop, WorkFinal
  <2>5. CASE Device
    BY <2>5 DEF Device, OfflineFlag, OfflineStop, EngineStop, OfflineIrq, OnlineEngine, OnlineFlag
  <2>6. QED BY <2>1, <2>2, <2>3, <2>4, <2>5 DEF Next
<1>3. StaysDown => QuiescedOffline
  BY DEF StaysDown, QuiescedOffline
<1>4. QED BY <1>1, <1>2, <1>3, PTL DEF Spec
-----------------------------------------------------------------------------
\* Callers that block.

\* Blocking requests only; counts do not wrap within a request.
Blocking == Aio = {} /\ ~CanVanish /\ \A n \in ReqDescs : n < CountMod

InCall == {"init", "queue", "enqueue", "wait", "reap", "destroy"}
Mine(r) == <<r, 1>>

\* A call past its mutex_lock holds desc_lock, and uses its first transfer.
LockHeld ==
    \A r \in Reqs : tfer[r] = 1 /\ pc[r] # "async" /\ (pc[r] \in InCall => descLock = r)

\* The queue is empty, or holds the transfer of the call that holds desc_lock.
QueueOfHolder ==
    transferList = <<>> \/
        /\ descLock \in Reqs /\ transferList = << Mine(descLock) >>
        /\ pc[descLock] \in {"wait", "reap"}
        /\ xstate[Mine(descLock)] = "submitted"

\* A request that has no transfer shows no outcome, and has descriptors left.
Unbuilt ==
    \A r \in Reqs :
        /\ xstate[<<r, 2>>] = "none"
        /\ pc[r] \in {"idle", "lock", "init"} => xstate[Mine(r)] = "none"
        /\ pc[r] \in {"lock", "init"} => nents[r] > 0
        /\ pc[r] \in {"queue", "enqueue"} => xstate[Mine(r)] = "new"

\* The descriptors of t are a chain of its own, inside the ring.
Chained(t) ==
    /\ xnum[t] > 0 /\ xidx[t] + xnum[t] <= DescMax
    /\ \A i \in Slots(t) : ring[i] = [own |-> t, last |-> i = xidx[t] + xnum[t] - 1]

ChainsKept ==
    \A r \in Reqs :
        pc[r] \in {"queue", "enqueue"} \/ xstate[Mine(r)] = "submitted" => Chained(Mine(r))

\* While the engine runs, or the work item is at it, it serves the head of the
\* queue, whose descriptors are counted from none on.
Serving == running \/ wpc # "idle"
ServesHead ==
    Serving =>
        /\ transferList # <<>> /\ hwXfer = Head(transferList)
        /\ dequeued = 0
        /\ hwCount <= xnum[hwXfer]
        /\ done[hwXfer[1]] + hwCount <= moved[hwXfer[1]]
        /\ wpc = "list" => wcount <= hwCount

\* The channel is at the descriptor that follows those it has moved.
AtNext == hwBusy => hwPos = xidx[hwXfer] + hwCount /\ hwCount < xnum[hwXfer]

\* What is counted as done was moved, the outcome that is not yet counted too.
DoneMoved ==
    \A r \in Reqs :
        /\ done[r] <= moved[r]
        /\ xstate[Mine(r)] = "completed" /\ pc[r] # "destroy" => done[r] + xnum[Mine(r)] <= moved[r]

BlockInv ==
    /\ LockHeld /\ QueueOfHolder /\ Unbuilt /\ ChainsKept /\ ServesHead /\ AtNext
    /\ DoneMoved

\* When nobody runs out of patience, a call leaves its wait with an outcome; an
\* interrupt and its work item follow each run, and none is left of an earlier one;
\* a run that has ended moved its descriptors or failed.
Fresh ==
    /\ \A r \in Reqs : pc[r] = "reap" => xstate[Mine(r)] # "submitted"
    /\ hwBusy \/ transferList = <<>> => hwStat = {} /\ ~work /\ wpc = "idle"
    /\ wpc # "idle" => hwStat = {} /\ ~work /\ ~hwBusy
    /\ Serving /\ ~hwBusy => hwCount = xnum[hwXfer] \/ hwXfer \in faulted
    /\ "err" \in hwStat \/ (werr /\ wpc # "idle") => hwXfer \in faulted
    /\ wpc = "list" => wcount = hwCount
    /\ \A t \in Xfers : xstate[t] = "failed" => t \in faulted

\* No request is as long as a count can count.
Short == \A r \in Reqs : nents[r] < CountMod /\ xnum[Mine(r)] < CountMod

PatientInv == Short /\ (~impatient => Fresh)

USE EngineAssumption
USE DEF reqVars, xferVars, engVars, workVars, hwVars, devVars, histVars, vars, Mine
-----------------------------------------------------------------------------
LEMMA OneQueued ==
    ASSUME NEW t
    PROVE  Head(<<t>>) = t /\ Tail(<<t>>) = <<>> /\ Append(<<>>, t) = <<t>> /\ <<t>> # <<>>
  OBVIOUS

LEMMA BlockInit == Blocking /\ Init => BlockInv /\ PatientInv
<1> SUFFICES ASSUME Blocking, Init PROVE BlockInv /\ PatientInv
  OBVIOUS
<1>1. \A r \in Reqs : <<r, 1>> \in Xfers /\ <<r, 2>> \in Xfers
  BY XferFacts
<1>2. LockHeld /\ QueueOfHolder
  BY DEF Init, LockHeld, InCall, QueueOfHolder
<1>3. \A t \in Xfers : xstate[t] = "none" /\ xnum[t] = 0
  BY DEF Init
<1>4. \A r \in Reqs : pc[r] = "idle" /\ done[r] = 0 /\ moved[r] = 0 /\ nents[r] = 0
  BY DEF Init
<1>5. Unbuilt /\ ChainsKept
  BY <1>1, <1>3, <1>4 DEF Unbuilt, ChainsKept
<1>6. ~running /\ wpc = "idle" /\ ~hwBusy /\ hwStat = {} /\ ~work
  BY DEF Init
<1>7. ServesHead /\ AtNext
  BY <1>6 DEF ServesHead, Serving, AtNext
<1>8. DoneMoved
  <2>1. \A r \in Reqs : done[r] <= moved[r]
    BY <1>4
  <2>2. \A r \in Reqs : xstate[Mine(r)] # "completed"
    BY <1>1, <1>3
  <2>3. QED BY <2>1, <2>2 DEF DoneMoved
<1>9. Short
  <2>1. 0 < CountMod
    BY DEF EngineAssumption
  <2>2. \A r \in Reqs : nents[r] = 0 /\ xnum[Mine(r)] = 0
    BY <1>1, <1>3, <1>4
  <2>3. QED BY <2>1, <2>2 DEF Short
<1>10. Fresh
  BY <1>3, <1>4, <1>6 DEF Fresh, Serving
<1>11. QED BY <1>2, <1>5, <1>7, <1>8, <1>9, <1>10 DEF BlockInv, PatientInv

\* What the transfers of the requests have to do with each other.
LEMMA Apart ==
    /\ \A r \in Reqs : <<r, 1>> \in Xfers /\ <<r, 2>> \in Xfers /\ <<r, 1>>[1] = r
    /\ \A q, r \in Reqs : <<q, 2>> # <<r, 1>> /\ (<<q, 1>> = <<r, 1>> => q = r)
  BY XferFacts

\* DoneMoved is about requests that had it, or whose state says nothing yet.
LEMMA DoneMovedKept ==
    ASSUME DoneMoved,
           \A r \in Reqs :
               \/ /\ done'[r] = done[r] /\ moved'[r] = moved[r] /\ xnum'[Mine(r)] = xnum[Mine(r)]
                  /\ xstate'[Mine(r)] = xstate[Mine(r)]
                  /\ pc'[r] # "destroy" => pc[r] # "destroy"
               \/ done'[r] <= moved'[r] /\ (xstate'[Mine(r)] = "completed" => pc'[r] = "destroy")
    PROVE  DoneMoved'
  BY DEF DoneMoved

\* While a call is past its mutex_lock, no other is.
LEMMA Others ==
    ASSUME TypeInv, BlockInv, NEW r \in Reqs, pc[r] \in InCall
    PROVE  /\ descLock = r
           /\ \A q \in Reqs : q # r => pc[q] \in {"idle", "lock"} /\ xstate[Mine(q)] = "none"
<1>1. descLock = r
  BY DEF BlockInv, LockHeld
<1>2. ASSUME NEW q \in Reqs, q # r PROVE pc[q] \in {"idle", "lock"}
  <2>1. pc[q] \in PCs /\ pc[q] # "async" /\ pc[q] \notin InCall
    BY <1>1, <1>2 DEF BlockInv, LockHeld, TypeInv, TypeOK, ReqTypeOK
  <2>2. QED BY <2>1 DEF PCs, InCall
<1>3. QED BY <1>1, <1>2 DEF BlockInv, Unbuilt

\* The calls that are not at their queue have nothing on it.
LEMMA NotQueued ==
    ASSUME BlockInv, NEW r \in Reqs, pc[r] \in InCall, pc[r] \notin {"wait", "reap"}
    PROVE  transferList = <<>> /\ ~Serving
<1>1. descLock = r
  BY DEF BlockInv, LockHeld
<1>2. transferList = <<>>
  BY <1>1 DEF BlockInv, QueueOfHolder
<1>3. ~Serving
  BY <1>2 DEF BlockInv, ServesHead
<1>4. QED BY <1>2, <1>3

\* What the engine serves is the transfer of the call that holds desc_lock, in its
\* wait or just out of it.
LEMMA Served ==
    ASSUME TypeInv, BlockInv, transferList # <<>>
    PROVE  /\ descLock \in Reqs /\ transferList = << Mine(descLock) >>
           /\ pc[descLock] \in {"wait", "reap"}
           /\ xstate[Mine(descLock)] = "submitted"
           /\ Chained(Mine(descLock))
           /\ Mine(descLock) \in Xfers
           /\ Head(transferList) = Mine(descLock) /\ Tail(transferList) = <<>>
           /\ Serving => hwXfer = Mine(descLock) /\ hwXfer[1] = descLock
<1>1. /\ descLock \in Reqs /\ transferList = << Mine(descLock) >>
      /\ pc[descLock] \in {"wait", "reap"}
      /\ xstate[Mine(descLock)] = "submitted"
  BY DEF BlockInv, QueueOfHolder
<1>2. Chained(Mine(descLock))
  BY <1>1 DEF BlockInv, ChainsKept
<1>3. Head(transferList) = Mine(descLock) /\ Tail(transferList) = <<>>
  BY <1>1, OneQueued
<1>4. Serving => hwXfer = Mine(descLock)
  BY <1>3 DEF BlockInv, ServesHead
<1>5. QED BY <1>1, <1>2, <1>3, <1>4, XferFacts

\* Steps that leave alone all that BlockInv speaks of.
LEMMA BlockUnchanged ==
    ASSUME BlockInv,
           UNCHANGED <<pc, nents, tfer, done, descLock, xferVars, transferList, dequeued, ring,
                       running, wpc, wcount, hwBusy, hwPos, hwCount, hwXfer, moved>>
    PROVE  BlockInv'
<1>1. LockHeld' /\ QueueOfHolder'
  BY DEF BlockInv, LockHeld, QueueOfHolder
<1>2. Unbuilt' /\ ChainsKept'
  BY DEF BlockInv, Unbuilt, ChainsKept, Chained, Slots
<1>3. ServesHead' /\ AtNext' /\ DoneMoved'
  BY DEF BlockInv, ServesHead, Serving, AtNext, DoneMoved
<1>4. QED BY <1>1, <1>2, <1>3 DEF BlockInv

\* The engine's part of BlockInv, when only the callers move.
LEMMA EngineUnchanged ==
    ASSUME BlockInv,
           UNCHANGED <<xnum, xidx, engVars, workVars, hwVars, hwXfer>>,
           Serving => done'[hwXfer[1]] = done[hwXfer[1]] /\ moved'[hwXfer[1]] = moved[hwXfer[1]]
    PROVE  ServesHead' /\ AtNext'
  BY DEF BlockInv, ServesHead, Serving, AtNext

LEMMA SubmitBlock ==
    ASSUME Blocking, TypeInv, BlockInv, NEW r \in Reqs, Submit(r)
    PROVE  BlockInv'
<1>1. PICK n \in ReqDescs :
        /\ nents' = [nents EXCEPT ![r] = n]
        /\ pc' = [pc EXCEPT ![r] = IF r \in Sync THEN "lock" ELSE "init"]
  BY DEF Submit
<1>2. r \in Sync /\ n > 0
  BY DEF Blocking, Reqs, EngineAssumption
<1>3. pc[r] = "idle" /\ xstate[Mine(r)] = "none"
  BY DEF BlockInv, Unbuilt, Submit
<1>. USE DEF TypeInv, TypeOK, ReqTypeOK, XferTypeOK
<1>4. LockHeld'
  BY <1>1, <1>2 DEF BlockInv, LockHeld, InCall, Submit
<1>5. QueueOfHolder'
  BY <1>1, <1>2, <1>3 DEF BlockInv, QueueOfHolder, Submit
<1>6. Unbuilt'
  BY <1>1, <1>2, <1>3 DEF BlockInv, Unbuilt, Submit
<1>7. ChainsKept'
  BY <1>1, <1>2, <1>3 DEF BlockInv, ChainsKept, Chained, Slots, Submit
<1>8. Serving => hwXfer[1] # r
  BY <1>3, Served DEF BlockInv, ServesHead
<1>9. ServesHead' /\ AtNext'
  <2>1. \A q \in Reqs : q # r => done'[q] = done[q] /\ moved'[q] = moved[q]
    BY DEF Submit, HistTypeOK
  <2>2. Serving => hwXfer[1] \in Reqs
    BY Served DEF BlockInv, ServesHead
  <2>3. UNCHANGED <<xnum, xidx, engVars, workVars, hwVars, hwXfer>>
    BY DEF Submit
  <2>4. QED BY <1>8, <2>1, <2>2, <2>3, EngineUnchanged
<1>10. DoneMoved'
  <2>1. done'[r] = 0 /\ moved'[r] = 0 /\ xstate'[Mine(r)] = "none"
    BY <1>3 DEF Submit, HistTypeOK
  <2>2. \A q \in Reqs : q # r =>
            /\ done'[q] = done[q] /\ moved'[q] = moved[q] /\ pc'[q] = pc[q]
    BY <1>1 DEF Submit, HistTypeOK
  <2>3. UNCHANGED <<xnum, xstate>>
    BY DEF Submit
  <2>4. QED BY <2>1, <2>2, <2>3, DoneMovedKept DEF BlockInv
<1>11. QED BY <1>4, <1>5, <1>6, <1>7, <1>9, <1>10 DEF BlockInv

LEMMA LockDescBlock ==
    ASSUME Blocking, TypeInv, BlockInv, NEW r \in Reqs, LockDesc(r), DescLockFree
    PROVE  BlockInv'
<1>. USE DEF TypeInv, TypeOK, ReqTypeOK, XferTypeOK
<1>1. pc[r] = "lock" /\ xstate[Mine(r)] = "none" /\ descLock = None /\ pc' = [pc EXCEPT ![r] = "init"]
  BY DEF BlockInv, Unbuilt, LockDesc, DescLockFree
<1>2. transferList = <<>>
  BY <1>1 DEF BlockInv, QueueOfHolder, EngineAssumption
<1>3. LockHeld'
  <2>1. \A q \in Reqs : pc[q] \notin InCall
    BY <1>1 DEF BlockInv, LockHeld, EngineAssumption
  <2>2. QED BY <1>1, <2>1 DEF BlockInv, LockHeld, InCall, LockDesc
<1>4. QueueOfHolder'
  BY <1>2 DEF QueueOfHolder, LockDesc
<1>5. Unbuilt'
  BY <1>1 DEF BlockInv, Unbuilt, LockDesc
<1>6. ChainsKept'
  BY <1>1 DEF BlockInv, ChainsKept, Chained, Slots, LockDesc
<1>7. ServesHead' /\ AtNext'
  BY EngineUnchanged DEF LockDesc
<1>8. DoneMoved'
  BY <1>1 DEF BlockInv, DoneMoved, LockDesc
<1>9. QED BY <1>3, <1>4, <1>5, <1>6, <1>7, <1>8 DEF BlockInv

LEMMA WokenBlock ==
    ASSUME Blocking, TypeInv, BlockInv, NEW r \in Reqs, Woken(r)
    PROVE  BlockInv'
<1>. USE DEF TypeInv, TypeOK, ReqTypeOK, XferTypeOK
<1>1. pc[r] = "wait" /\ pc' = [pc EXCEPT ![r] = "reap"]
  BY DEF Woken
<1>2. LockHeld' /\ QueueOfHolder'
  BY <1>1 DEF BlockInv, LockHeld, InCall, QueueOfHolder, Woken
<1>3. Unbuilt'
  BY <1>1 DEF BlockInv, Unbuilt, Woken
<1>4. ChainsKept'
  BY <1>1 DEF BlockInv, ChainsKept, Chained, Slots, Woken
<1>5. ServesHead' /\ AtNext'
  BY EngineUnchanged DEF Woken
<1>6. DoneMoved'
  BY <1>1 DEF BlockInv, DoneMoved, Woken
<1>7. QED BY <1>2, <1>3, <1>4, <1>5, <1>6 DEF BlockInv

LEMMA QueueCheckBlock ==
    ASSUME Blocking, TypeInv, BlockInv, NEW r \in Reqs, pc[r] \in {"queue", "enqueue"},
           QueueCheck(r) \/ EnqueueRefused(r)
    PROVE  BlockInv'
<1>. USE DEF TypeInv, TypeOK, ReqTypeOK, XferTypeOK
<1>1. transferList = <<>> /\ ~Serving /\ r \in Sync
  BY NotQueued DEF InCall, Blocking, Reqs
<1>2. descLock = r /\ \A q \in Reqs : q # r => pc[q] \in {"idle", "lock"} /\ xstate[Mine(q)] = "none"
  BY Others DEF InCall
<1>3. CASE Refuse(r)
  <2>1. pc' = [pc EXCEPT ![r] = "idle"] /\ descLock' = None /\ UNCHANGED <<tfer, nents>>
    BY <1>1, <1>3 DEF Refuse
  <2>2. \A q \in Reqs : xstate'[Mine(q)] = "none" /\ xstate'[<<q, 2>>] = "none"
    BY <1>2, <1>3, XferFacts DEF Refuse, BlockInv, Unbuilt
  <2>3. LockHeld'
    BY <1>2, <2>1 DEF BlockInv, LockHeld, InCall
  <2>4. QueueOfHolder' /\ ServesHead' /\ AtNext'
    BY <1>1, <1>3, EngineUnchanged DEF QueueOfHolder, Refuse
  <2>5. Unbuilt' /\ ChainsKept'
    BY <1>2, <2>1, <2>2 DEF BlockInv, Unbuilt, ChainsKept
  <2>6. DoneMoved'
    <3>1. UNCHANGED <<done, moved, xnum>>
      BY <1>3 DEF Refuse
    <3>2. \A q \in Reqs : done[q] \in Nat /\ moved[q] \in Nat /\ xnum[Mine(q)] \in Nat
      BY XferFacts DEF HistTypeOK
    <3>3. QED BY <2>2, <3>1, <3>2 DEF BlockInv, DoneMoved
  <2>7. QED BY <2>3, <2>4, <2>5, <2>6 DEF BlockInv
<1>4. CASE QueueCheck(r) /\ ~Refuse(r)
  <2>1. pc[r] = "queue" /\ pc' = [pc EXCEPT ![r] = "enqueue"]
    BY <1>4 DEF QueueCheck
  <2>2. UNCHANGED <<nents, tfer, done, descLock, reqs, xferVars, engVars,
                    workVars, hwVars, devVars, histVars>>
    BY <1>4 DEF QueueCheck
  <2>3. LockHeld' /\ QueueOfHolder'
    BY <1>1, <2>1, <2>2 DEF BlockInv, LockHeld, InCall, QueueOfHolder
  <2>4. Unbuilt'
    BY <2>1, <2>2 DEF BlockInv, Unbuilt
  <2>5. ChainsKept'
    BY <2>1, <2>2 DEF BlockInv, ChainsKept, Chained, Slots
  <2>6. ServesHead' /\ AtNext'
    BY <2>2, EngineUnchanged
  <2>7. DoneMoved'
    BY <2>1, <2>2 DEF BlockInv, DoneMoved
  <2>8. QED BY <2>3, <2>4, <2>5, <2>6, <2>7 DEF BlockInv
<1>5. QED BY <1>3, <1>4 DEF EnqueueRefused

\* The chain transfer_init builds is the request's own.
LEMMA TransferInitBlock ==
    ASSUME Blocking, TypeInv, BlockInv, BusyIsRunning, NEW r \in Reqs, TransferInit(r)
    PROVE  BlockInv'
<1>. USE DEF TypeInv, TypeOK, ReqTypeOK, XferTypeOK
<1> DEFINE n == ChainLength(nents[r])
<1>1. pc[r] = "init" /\ Current(r) = Mine(r) /\ nents[r] > 0
  BY DEF TransferInit, BlockInv, LockHeld, Unbuilt, Current
<1>2. transferList = <<>> /\ ~Serving
  BY <1>1, NotQueued DEF InCall
<1>3. descLock = r /\ \A q \in Reqs : q # r => pc[q] \in {"idle", "lock"} /\ xstate[Mine(q)] = "none"
  BY <1>1, Others DEF InCall
<1>4. n \in Nat /\ n > 0 /\ descIdx + n <= DescMax /\ descIdx \in Nat
  <2>1. descIdx \in Nat /\ descIdx < DescMax
    BY DEF EngTypeOK, Ring
  <2>2. nents[r] \in Nat
    OBVIOUS
  <2>3. QED BY <1>1, <2>1, <2>2 DEF ChainLength, EngineAssumption
<1>5. /\ xstate' = [xstate EXCEPT ![Mine(r)] = "new"]
      /\ xidx' = [xidx EXCEPT ![Mine(r)] = descIdx]
      /\ xnum' = [xnum EXCEPT ![Mine(r)] = n]
      /\ nents' = [nents EXCEPT ![r] = @ - n]
      /\ ring' = [i \in Ring |->
                    IF descIdx <= i /\ i < descIdx + n
                    THEN [own |-> Mine(r), last |-> i = descIdx + n - 1]
                    ELSE ring[i]]
      /\ pc' = [pc EXCEPT ![r] = "queue"]
      /\ UNCHANGED <<tfer, done, descLock, running, transferList, dequeued, workVars, hwVars,
                     hwXfer, moved>>
  BY <1>1 DEF TransferInit
<1> HIDE DEF n
<1>6. Mine(r) \in Xfers
  BY XferFacts
<1>7. LockHeld' /\ QueueOfHolder'
  BY <1>1, <1>2, <1>3, <1>5 DEF BlockInv, LockHeld, InCall, QueueOfHolder
<1>8. Unbuilt'
  <2>1. \A q \in Reqs : xstate'[<<q, 2>>] = xstate[<<q, 2>>]
    BY <1>5, Apart
  <2>2. \A q \in Reqs : q # r =>
            /\ xstate'[Mine(q)] = xstate[Mine(q)] /\ pc'[q] = pc[q] /\ nents'[q] = nents[q]
    BY <1>5, Apart
  <2>3. xstate'[Mine(r)] = "new" /\ pc'[r] = "queue"
    BY <1>5, <1>6
  <2>4. QED BY <2>1, <2>2, <2>3 DEF BlockInv, Unbuilt
<1>9. Chained(Mine(r))'
  <2>1. xidx'[Mine(r)] = descIdx /\ xnum'[Mine(r)] = n
    BY <1>5, <1>6
  <2>2. \A i \in Slots(Mine(r))' : i \in Ring /\ descIdx <= i /\ i < descIdx + n
    BY <2>1 DEF Slots
  <2>3. \A i \in Slots(Mine(r))' : ring'[i] = [own |-> Mine(r), last |-> i = descIdx + n - 1]
    BY <1>5, <2>2
  <2>4. QED BY <1>4, <2>1, <2>3 DEF Chained
<1>10. ChainsKept'
  BY <1>3, <1>5, <1>6, <1>9 DEF ChainsKept
<1>11. ~Serving' /\ ~hwBusy'
  BY <1>2, <1>5 DEF Serving, BusyIsRunning
<1>12. ServesHead' /\ AtNext'
  BY <1>11 DEF ServesHead, AtNext
<1>13. DoneMoved'
  <2>1. xstate'[Mine(r)] = "new" /\ done[r] <= moved[r]
    BY <1>5, <1>6 DEF BlockInv, DoneMoved
  <2>2. \A q \in Reqs : q # r =>
            /\ xstate'[Mine(q)] = xstate[Mine(q)] /\ pc'[q] = pc[q] /\ xnum'[Mine(q)] = xnum[Mine(q)]
    BY <1>5, Apart
  <2>3. QED BY <1>5, <2>1, <2>2, DoneMovedKept DEF BlockInv
<1>14. QED BY <1>7, <1>8, <1>10, <1>12, <1>13 DEF BlockInv

\* transfer_queue finds an empty queue and an idle engine, and starts it.
LEMMA EnqueueBlock ==
    ASSUME Blocking, TypeInv, BlockInv, NEW r \in Reqs, Enqueue(r)
    PROVE  BlockInv'
<1>. USE DEF TypeInv, TypeOK, ReqTypeOK, XferTypeOK
<1>1. pc[r] = "enqueue" /\ Current(r) = Mine(r) /\ r \in Sync /\ r \notin Aio
  BY DEF Enqueue, BlockInv, LockHeld, Current, Blocking, Reqs
<1>2. transferList = <<>> /\ ~Serving
  BY <1>1, NotQueued DEF InCall
<1>3. descLock = r /\ \A q \in Reqs : q # r => pc[q] \in {"idle", "lock"} /\ xstate[Mine(q)] = "none"
  BY <1>1, Others DEF InCall
<1>4. Queued(Mine(r)) = << Mine(r) >> /\ Head(<< Mine(r) >>) = Mine(r)
  BY <1>2, OneQueued DEF Queued
<1>5. ~running
  BY <1>2 DEF Serving
<1>6. /\ xstate' = [xstate EXCEPT ![Mine(r)] = "submitted"]
      /\ transferList' = << Mine(r) >>
      /\ EngineStart(<< Mine(r) >>)
      /\ pc' = [pc EXCEPT ![r] = "wait"]
      /\ tfer' = tfer
      /\ UNCHANGED <<nents, done, descLock, xidx, xnum, ring, workVars, moved>>
  BY <1>1, <1>4, <1>5 DEF Enqueue
<1>7. /\ dequeued' = 0 /\ hwPos' = xidx[Mine(r)] /\ hwCount' = 0
      /\ hwBusy' = TRUE /\ running' = TRUE /\ hwXfer' = Mine(r)
  BY <1>4, <1>6 DEF EngineStart
<1>8. Mine(r) \in Xfers /\ Mine(r)[1] = r
  BY XferFacts
<1>9. LockHeld' /\ QueueOfHolder'
  BY <1>1, <1>3, <1>6, <1>8 DEF BlockInv, LockHeld, InCall, QueueOfHolder
<1>10. Unbuilt'
  <2>1. \A q \in Reqs : xstate'[<<q, 2>>] = xstate[<<q, 2>>]
    BY <1>6, Apart
  <2>2. \A q \in Reqs : q # r => xstate'[Mine(q)] = xstate[Mine(q)] /\ pc'[q] = pc[q]
    BY <1>6, Apart
  <2>3. pc'[r] = "wait" /\ nents' = nents
    BY <1>6
  <2>4. QED BY <2>1, <2>2, <2>3 DEF BlockInv, Unbuilt
<1>11. Chained(Mine(r))
  BY <1>1 DEF BlockInv, ChainsKept
<1>12. ChainsKept'
  BY <1>1, <1>3, <1>6, <1>8, <1>11 DEF ChainsKept, Chained, Slots
<1>13. DoneMoved'
  <2>1. xstate'[Mine(r)] = "submitted" /\ done[r] <= moved[r]
    BY <1>6, <1>8 DEF BlockInv, DoneMoved
  <2>2. \A q \in Reqs : q # r => xstate'[Mine(q)] = xstate[Mine(q)] /\ pc'[q] = pc[q]
    BY <1>6, Apart
  <2>3. QED BY <1>6, <2>1, <2>2, DoneMovedKept DEF BlockInv
<1>14. ServesHead'
  <2>1. wpc' = "idle"
    BY <1>2, <1>6 DEF Serving, WorkTypeOK
  <2>2. done[r] <= moved[r] /\ done[r] \in Nat /\ moved[r] \in Nat
    BY DEF BlockInv, DoneMoved, HistTypeOK
  <2>3. xnum[Mine(r)] \in Nat
    BY <1>8
  <2>4. transferList' # <<>> /\ hwXfer' = Head(transferList') /\ dequeued' = 0
    BY <1>6, <1>7, <1>4
  <2>5. hwCount' <= xnum'[hwXfer'] /\ done'[hwXfer'[1]] + hwCount' <= moved'[hwXfer'[1]]
    BY <1>6, <1>7, <1>8, <2>2, <2>3
  <2>6. QED BY <2>1, <2>4, <2>5 DEF ServesHead
<1>15. AtNext'
  BY <1>6, <1>7, <1>8, <1>11 DEF AtNext, Chained, Ring
<1>16. QED BY <1>9, <1>10, <1>12, <1>13, <1>14, <1>15 DEF BlockInv

\* A caller takes the outcome it was woken with, or gives up and stops the engine.
LEMMA ReapBlock ==
    ASSUME Blocking, TypeInv, BlockInv, BusyIsRunning, NEW r \in Reqs, Reap(r)
    PROVE  BlockInv'
<1>. USE DEF TypeInv, TypeOK, ReqTypeOK, XferTypeOK
<1>1. pc[r] = "reap" /\ pc' = [pc EXCEPT ![r] = "destroy"] /\ wpc = "idle"
  BY DEF Reap, LockFree
<1>2. descLock = r /\ \A q \in Reqs : q # r => pc[q] \in {"idle", "lock"} /\ xstate[Mine(q)] = "none"
  BY <1>1, Others DEF InCall
<1>3. Mine(r) \in Xfers /\ Mine(r)[1] = r
  BY XferFacts
<1>4. UNCHANGED <<nents, tfer, descLock, xidx, xnum, ring, workVars, dequeued, hwPos, hwCount, hwXfer, moved>>
  BY DEF Reap
<1>5. LockHeld'
  BY <1>1, <1>2, <1>4 DEF BlockInv, LockHeld, InCall
<1>6. \A q \in Reqs : q # r => done'[q] = done[q] /\ xstate'[Mine(q)] = xstate[Mine(q)] /\ pc'[q] = pc[q]
  BY <1>1, XferFacts DEF Reap
<1>7. \A q \in Reqs : xstate'[<<q, 2>>] = xstate[<<q, 2>>]
  <2>1. xstate' = xstate \/ xstate' = [xstate EXCEPT ![Mine(r)] = "aborted"]
    BY DEF Reap
  <2>2. QED BY <2>1, Apart
<1>8. Unbuilt'
  BY <1>1, <1>4, <1>6, <1>7 DEF BlockInv, Unbuilt
<1>9. DoneMoved'
  <2>1. done'[r] = IF xstate[Mine(r)] = "completed" THEN done[r] + xnum[Mine(r)] ELSE done[r]
    BY DEF Reap
  <2>2. done'[r] <= moved'[r]
    BY <1>1, <1>4, <2>1 DEF BlockInv, DoneMoved
  <2>3. pc'[r] = "destroy"
    BY <1>1
  <2>4. QED BY <1>2, <1>4, <1>6, <2>2, <2>3 DEF BlockInv, DoneMoved
<1>10. CASE xstate[Mine(r)] # "submitted"
  <2>1. UNCHANGED <<xstate, transferList, running, hwBusy>>
    BY <1>10 DEF Reap
  <2>2. transferList = <<>>
    BY <1>2, <1>10 DEF BlockInv, QueueOfHolder
  <2>3. ~Serving
    BY <2>2 DEF BlockInv, ServesHead
  <2>4. QueueOfHolder' /\ ServesHead' /\ AtNext'
    BY <1>1, <1>4, <2>1, <2>2, <2>3 DEF QueueOfHolder, ServesHead, AtNext, Serving, BusyIsRunning
  <2>5. ChainsKept'
    BY <1>1, <1>2, <1>4, <1>10, <2>1 DEF ChainsKept, Chained, Slots
  <2>6. QED BY <1>5, <1>8, <1>9, <2>4, <2>5 DEF BlockInv
<1>11. CASE xstate[Mine(r)] = "submitted"
  <2>1. /\ xstate' = [xstate EXCEPT ![Mine(r)] = "aborted"]
        /\ transferList' = Unqueued(Mine(r))
        /\ running' = FALSE /\ hwBusy' = FALSE
    BY <1>11 DEF Reap, Blocking, EngineStop
  <2>2. transferList' = <<>>
    BY <1>2, <2>1, OneQueued DEF Unqueued, BlockInv, QueueOfHolder
  <2>3. QueueOfHolder' /\ ServesHead' /\ AtNext'
    BY <1>1, <1>4, <2>1, <2>2 DEF QueueOfHolder, ServesHead, AtNext, Serving
  <2>4. ChainsKept'
    BY <1>1, <1>2, <1>3, <1>4, <1>6, <2>1 DEF ChainsKept
  <2>5. QED BY <1>5, <1>8, <1>9, <2>3, <2>4 DEF BlockInv
<1>12. QED BY <1>10, <1>11

\* transfer_destroy recycles descriptors nobody is running.
LEMMA DestroyBlock ==
    ASSUME Blocking, TypeInv, BlockInv, BusyIsRunning, NEW r \in Reqs, Destroy(r)
    PROVE  BlockInv'
<1>. USE DEF TypeInv, TypeOK, ReqTypeOK, XferTypeOK
<1> DEFINE more == xstate[Mine(r)] = "completed" /\ nents[r] > 0
<1>1. /\ pc[r] = "destroy"
      /\ xstate' = [xstate EXCEPT ![Mine(r)] = "none"]
      /\ pc' = [pc EXCEPT ![r] = IF more THEN "init" ELSE "idle"]
      /\ descLock' = IF more THEN descLock ELSE None
      /\ UNCHANGED <<nents, tfer, done, xidx, xnum, running, transferList, dequeued, workVars,
                     hwVars, hwXfer, moved>>
  BY DEF Destroy
<1>2. transferList = <<>> /\ ~Serving
  BY <1>1, NotQueued DEF InCall
<1>3. descLock = r /\ \A q \in Reqs : q # r => pc[q] \in {"idle", "lock"} /\ xstate[Mine(q)] = "none"
  BY <1>1, Others DEF InCall
<1>4. Mine(r) \in Xfers /\ \A q \in Reqs : Mine(q) \in Xfers
  BY XferFacts
<1>5. more => nents[r] > 0
  OBVIOUS
<1> HIDE DEF more
<1>6. \A q \in Reqs : xstate'[Mine(q)] = "none"
  BY <1>1, <1>3, <1>4
<1>7. LockHeld'
  BY <1>1, <1>3 DEF BlockInv, LockHeld, InCall
<1>8. QueueOfHolder' /\ ServesHead' /\ AtNext'
  BY <1>1, <1>2 DEF QueueOfHolder, ServesHead, AtNext, Serving, BusyIsRunning
<1>9. Unbuilt'
  <2>1. \A q \in Reqs : xstate'[<<q, 2>>] = xstate[<<q, 2>>]
    BY <1>1, Apart
  <2>2. \A q \in Reqs : q # r => pc'[q] = pc[q]
    BY <1>1
  <2>3. pc'[r] \in {"init", "idle"} /\ (pc'[r] = "init" => nents[r] > 0) /\ nents' = nents
    BY <1>1, <1>5
  <2>4. QED BY <1>3, <1>6, <2>1, <2>2, <2>3 DEF BlockInv, Unbuilt
<1>10. ChainsKept'
  BY <1>1, <1>3, <1>6 DEF ChainsKept
<1>11. DoneMoved'
  BY <1>1, <1>6 DEF BlockInv, DoneMoved
<1>12. QED BY <1>7, <1>8, <1>9, <1>10, <1>11 DEF BlockInv

LEMMA RequesterBlock ==
    ASSUME Blocking, TypeInv, BlockInv, BusyIsRunning, NEW r \in Reqs, Requester(r)
    PROVE  BlockInv'
<1>1. LockDesc(r) => DescLockFree
  BY DEF LockDesc
<1>2. QueueCheck(r) \/ EnqueueRefused(r) => pc[r] \in {"queue", "enqueue"}
  BY DEF QueueCheck, EnqueueRefused
<1>3. QED
  BY <1>1, <1>2, SubmitBlock, LockDescBlock, TransferInitBlock, QueueCheckBlock, EnqueueBlock,
     WokenBlock, ReapBlock, DestroyBlock
  DEF Requester
-----------------------------------------------------------------------------
\* The channel moves the descriptors of the transfer it serves, in their order, and
\* no others.
LEMMA NextDescriptor ==
    ASSUME TypeInv, BlockInv, BusyIsRunning, hwBusy
    PROVE  /\ Serving /\ transferList # <<>> /\ descLock \in Reqs
           /\ hwXfer = Mine(descLock) /\ hwXfer[1] = descLock /\ hwXfer \in Xfers
           /\ hwCount < xnum[hwXfer] /\ hwCount \in Nat /\ xnum[hwXfer] \in Nat
           /\ hwPos = xidx[hwXfer] + hwCount
           /\ ring[hwPos].own = hwXfer
           /\ ring[hwPos].last <=> hwCount + 1 = xnum[hwXfer]
<1>1. Serving /\ transferList # <<>>
  BY DEF BusyIsRunning, Serving, BlockInv, ServesHead
<1>2. /\ descLock \in Reqs /\ hwXfer = Mine(descLock) /\ hwXfer[1] = descLock
      /\ hwXfer \in Xfers /\ Chained(hwXfer)
  BY <1>1, Served
<1>3. hwPos = xidx[hwXfer] + hwCount /\ hwCount < xnum[hwXfer]
  BY DEF BlockInv, AtNext
<1>4. hwCount \in Nat /\ xnum[hwXfer] \in Nat /\ xidx[hwXfer] \in Nat /\ hwPos \in Ring
  BY <1>2 DEF TypeInv, TypeOK, HwTypeOK, XferTypeOK, Ring
<1>5. hwPos \in Slots(hwXfer)
  BY <1>3, <1>4 DEF Slots
<1>6. ring[hwPos] = [own |-> hwXfer, last |-> hwPos = xidx[hwXfer] + xnum[hwXfer] - 1]
  BY <1>2, <1>5 DEF Chained
<1>7. (hwPos = xidx[hwXfer] + xnum[hwXfer] - 1) <=> (hwCount + 1 = xnum[hwXfer])
  BY <1>3, <1>4
<1>8. ring[hwPos].own = hwXfer /\ (ring[hwPos].last <=> hwCount + 1 = xnum[hwXfer])
  <2>1. ring[hwPos].own = hwXfer
    BY <1>6
  <2>2. ring[hwPos].last = (hwPos = xidx[hwXfer] + xnum[hwXfer] - 1)
    BY <1>6
  <2>3. QED BY <2>1, <2>2, <1>7, Zenon
<1>9. QED BY <1>1, <1>2, <1>3, <1>4, <1>8

LEMMA HwMoveBlock ==
    ASSUME Blocking, TypeInv, BlockInv, BusyIsRunning, HwMove
    PROVE  BlockInv'
<1>1. hwBusy
  BY DEF HwMove
<1>2. /\ Serving /\ descLock \in Reqs /\ hwXfer = Mine(descLock) /\ hwXfer[1] = descLock
      /\ hwCount < xnum[hwXfer] /\ hwCount \in Nat /\ xnum[hwXfer] \in Nat
      /\ hwPos = xidx[hwXfer] + hwCount
      /\ ring[hwPos].own = hwXfer
      /\ ring[hwPos].last <=> hwCount + 1 = xnum[hwXfer]
      /\ xidx[hwXfer] \in Nat
  <2>1. hwXfer \in Xfers => xidx[hwXfer] \in Nat
    BY DEF TypeInv, TypeOK, XferTypeOK, Ring
  <2>2. QED BY <1>1, <2>1, NextDescriptor
<1>3. UNCHANGED <<reqVars, xferVars, engVars, workVars, hwXfer>>
  BY DEF HwMove
<1>4. moved' = [moved EXCEPT ![descLock] = @ + 1] /\ hwCount' = hwCount + 1
  BY <1>2 DEF HwMove
<1>5. \A q \in Reqs : moved[q] \in Nat /\ done[q] \in Nat /\ xnum[Mine(q)] \in Nat
  BY Apart DEF TypeInv, TypeOK, HistTypeOK, ReqTypeOK, XferTypeOK
<1>6. /\ moved'[descLock] = moved[descLock] + 1
      /\ \A q \in Reqs : moved[q] <= moved'[q] /\ moved'[q] \in Nat
  <2>1. moved'[descLock] = moved[descLock] + 1 /\ \A q \in Reqs \ {descLock} : moved'[q] = moved[q]
    BY <1>2, <1>4 DEF TypeInv, TypeOK, HistTypeOK
  <2>2. ASSUME NEW q \in Reqs PROVE moved[q] <= moved'[q] /\ moved'[q] \in Nat
    <3>1. moved[q] \in Nat /\ moved'[q] \in {moved[q], moved[q] + 1}
      BY <1>5, <2>1
    <3>2. QED BY <3>1
  <2>3. QED BY <2>1, <2>2
<1>7. LockHeld' /\ QueueOfHolder'
  BY <1>3 DEF BlockInv, LockHeld, QueueOfHolder
<1>8. Unbuilt' /\ ChainsKept'
  BY <1>3 DEF BlockInv, Unbuilt, ChainsKept, Chained, Slots
<1>9. DoneMoved'
  <2>2. ASSUME NEW q \in Reqs PROVE done[q] <= moved'[q]
    <3>1. done[q] <= moved[q]
      BY DEF BlockInv, DoneMoved
    <3>2. moved[q] <= moved'[q] /\ moved'[q] \in Nat
      BY <1>6
    <3>3. moved[q] \in Nat /\ done[q] \in Nat
      BY <1>5
    <3>4. QED BY <3>1, <3>2, <3>3
  <2>3. ASSUME NEW q \in Reqs, xstate[Mine(q)] = "completed", pc[q] # "destroy"
        PROVE  done[q] + xnum[Mine(q)] <= moved'[q]
    <3>1. done[q] + xnum[Mine(q)] <= moved[q]
      BY <2>3 DEF BlockInv, DoneMoved
    <3>2. QED BY <1>5, <1>6, <3>1
  <2>4. QED BY <1>3, <2>2, <2>3 DEF DoneMoved
<1>10. ServesHead'
  <2>1. /\ transferList # <<>> /\ hwXfer = Head(transferList) /\ dequeued = 0
        /\ done[descLock] + hwCount <= moved[descLock]
        /\ wpc = "list" => wcount <= hwCount
    BY <1>2 DEF BlockInv, ServesHead
  <2>2. wpc = "list" => wcount <= hwCount + 1
    BY <1>2, <2>1 DEF TypeInv, TypeOK, WorkTypeOK
  <2>3. done[descLock] + (hwCount + 1) <= moved'[descLock]
    BY <1>2, <1>5, <1>6, <2>1
  <2>4. hwCount + 1 <= xnum[hwXfer]
    BY <1>2
  <2>5. QED BY <1>2, <1>3, <1>4, <2>1, <2>2, <2>3, <2>4 DEF ServesHead
<1>11. AtNext'
  <2>1. CASE ring[hwPos].last
    BY <2>1 DEF HwMove, AtNext
  <2>2. CASE ~ring[hwPos].last
    <3>1. hwPos' = hwPos + 1 /\ hwCount' = hwCount + 1
      BY <2>2 DEF HwMove
    <3>2. hwCount + 1 < xnum[hwXfer]
      BY <1>2, <2>2
    <3>3. QED BY <1>2, <1>3, <3>1, <3>2 DEF AtNext
  <2>3. QED BY <2>1, <2>2
<1>12. QED BY <1>7, <1>8, <1>9, <1>10, <1>11 DEF BlockInv

\* A channel that stops where it is changes nothing else of what BlockInv says.
LEMMA StopBlock ==
    ASSUME BlockInv, running' \in {FALSE, running}, hwBusy' \in {FALSE, hwBusy},
           UNCHANGED <<reqVars, xferVars, transferList, dequeued, ring, wpc, wcount, hwPos,
                       hwCount, hwXfer, moved>>
    PROVE  BlockInv'
<1>1. LockHeld' /\ QueueOfHolder'
  BY DEF BlockInv, LockHeld, QueueOfHolder
<1>2. Unbuilt' /\ ChainsKept'
  BY DEF BlockInv, Unbuilt, ChainsKept, Chained, Slots
<1>3. Serving' => Serving
  BY DEF Serving
<1>4. ServesHead'
  BY <1>3 DEF BlockInv, ServesHead
<1>5. AtNext'
  <2>1. hwBusy' => hwBusy
    OBVIOUS
  <2>2. QED BY <2>1 DEF BlockInv, AtNext
<1>6. DoneMoved'
  BY DoneMovedKept DEF BlockInv
<1>7. QED BY <1>1, <1>2, <1>4, <1>5, <1>6 DEF BlockInv

LEMMA OthersBlock ==
    ASSUME Blocking, TypeInv, BlockInv, HwError \/ ChannelIrq \/ WorkIdle \/ Device \/ UNCHANGED vars
    PROVE  BlockInv'
<1>1. CASE HwError
  BY <1>1, StopBlock DEF HwError
<1>2. CASE ChannelIrq \/ WorkIdle
  BY <1>2, StopBlock DEF ChannelIrq, WorkIdle
<1>3. CASE Device
  BY <1>3, StopBlock DEF Device, OfflineFlag, OfflineStop, EngineStop, OfflineIrq, OnlineEngine, OnlineFlag
<1>4. CASE UNCHANGED vars
  BY <1>4, StopBlock
<1>5. QED BY <1>1, <1>2, <1>3, <1>4
-----------------------------------------------------------------------------
\* The work item.

LEMMA WorkBeginBlock ==
    ASSUME Blocking, TypeInv, BlockInv, WorkBegin
    PROVE  BlockInv'
<1>1. /\ running /\ wpc' = "count"
      /\ UNCHANGED <<reqVars, xferVars, transferList, dequeued, ring, wcount, hwBusy, hwPos,
                     hwCount, hwXfer, moved>>
  BY DEF WorkBegin
<1>2. LockHeld' /\ QueueOfHolder'
  BY <1>1 DEF BlockInv, LockHeld, QueueOfHolder
<1>3. Unbuilt' /\ ChainsKept'
  BY <1>1 DEF BlockInv, Unbuilt, ChainsKept, Chained, Slots
<1>4. ServesHead'
  BY <1>1 DEF BlockInv, ServesHead, Serving
<1>5. AtNext'
  BY <1>1 DEF BlockInv, AtNext
<1>6. DoneMoved'
  BY <1>1, DoneMovedKept DEF BlockInv
<1>7. QED BY <1>2, <1>3, <1>4, <1>5, <1>6 DEF BlockInv

\* A count is at most what was moved: it wraps at more than a request may have.
LEMMA ModBelow ==
    ASSUME NEW n \in Nat, NEW k \in Nat, n <= k
    PROVE  n % CountMod <= k
  BY DEF EngineAssumption

LEMMA WorkCountBlock ==
    ASSUME Blocking, TypeInv, BlockInv, WorkCount
    PROVE  BlockInv'
<1>1. /\ wpc = "count" /\ Serving
      /\ UNCHANGED <<reqVars, xferVars, engVars, hwBusy, hwPos, hwCount, hwXfer, moved>>
  BY DEF WorkCount, Serving
<1>2. LockHeld' /\ QueueOfHolder'
  BY <1>1 DEF BlockInv, LockHeld, QueueOfHolder
<1>3. Unbuilt' /\ ChainsKept'
  BY <1>1 DEF BlockInv, Unbuilt, ChainsKept, Chained, Slots
<1>4. ServesHead'
  <2>1. /\ transferList # <<>> /\ hwXfer = Head(transferList) /\ dequeued = 0
        /\ hwCount <= xnum[hwXfer]
        /\ done[hwXfer[1]] + hwCount <= moved[hwXfer[1]]
    BY <1>1 DEF BlockInv, ServesHead
  <2>2. hwCount \in Nat
    BY DEF TypeInv, TypeOK, HwTypeOK
  <2>3. wpc' = "list" => wcount' = hwCount % CountMod
    BY <2>1, <2>2 DEF WorkCount
  <2>4. wpc' = "list" => wcount' <= hwCount
    BY <2>2, <2>3, ModBelow
  <2>5. QED BY <1>1, <2>1, <2>4 DEF ServesHead
<1>5. AtNext'
  BY <1>1 DEF BlockInv, AtNext
<1>6. DoneMoved'
  BY <1>1, DoneMovedKept DEF BlockInv
<1>7. QED BY <1>2, <1>3, <1>4, <1>5, <1>6 DEF BlockInv

\* What the work item finds at the head of the queue, with the count it read.
LEMMA AtService ==
    ASSUME Blocking, TypeInv, BlockInv, wpc = "list"
    PROVE  /\ descLock \in Reqs /\ Mine(descLock) \in Xfers
           /\ transferList # <<>> /\ Tail(transferList) = <<>>
           /\ Head(transferList) = Mine(descLock) /\ hwXfer = Mine(descLock)
           /\ pc[descLock] \in {"wait", "reap"}
           /\ ~EndsRequest(Mine(descLock))
           /\ wcount <= hwCount /\ hwCount <= xnum[Mine(descLock)]
           /\ wcount \in Nat /\ hwCount \in Nat /\ xnum[Mine(descLock)] \in Nat
           /\ done[descLock] + hwCount <= moved[descLock]
           /\ done[descLock] \in Nat /\ moved[descLock] \in Nat
<1>1. Serving /\ transferList # <<>>
  BY DEF Serving, BlockInv, ServesHead
<1>2. /\ descLock \in Reqs /\ Mine(descLock) \in Xfers /\ Tail(transferList) = <<>>
      /\ Head(transferList) = Mine(descLock) /\ hwXfer = Mine(descLock) /\ hwXfer[1] = descLock
      /\ pc[descLock] \in {"wait", "reap"}
  BY <1>1, Served
<1>3. /\ wcount <= hwCount /\ hwCount <= xnum[Mine(descLock)]
      /\ done[descLock] + hwCount <= moved[descLock]
  BY <1>1, <1>2 DEF BlockInv, ServesHead
<1>4. ~EndsRequest(Mine(descLock))
  BY DEF EndsRequest, Blocking
<1>5. /\ wcount \in Nat /\ hwCount \in Nat /\ xnum[Mine(descLock)] \in Nat
      /\ done[descLock] \in Nat /\ moved[descLock] \in Nat
  BY <1>2 DEF TypeInv, TypeOK, ReqTypeOK, WorkTypeOK, HwTypeOK, XferTypeOK, HistTypeOK
<1>6. QED BY <1>1, <1>2, <1>3, <1>4, <1>5

\* The transfer at the head gets its outcome, and the queue is empty.
LEMMA WorkFinalBlock ==
    ASSUME Blocking, TypeInv, BlockInv, WorkFinal
    PROVE  BlockInv' /\ ~running' /\ ~hwBusy' /\ transferList' = <<>> /\ wpc' = "idle"
<1> DEFINE r == descLock
           t == Mine(r)
           s == Outcome(t)
<1>1. /\ r \in Reqs /\ t \in Xfers /\ transferList # <<>> /\ Tail(transferList) = <<>>
      /\ Head(transferList) = t /\ pc[r] \in {"wait", "reap"} /\ ~EndsRequest(t)
      /\ wcount <= hwCount /\ hwCount <= xnum[t]
      /\ wcount \in Nat /\ hwCount \in Nat /\ xnum[t] \in Nat
      /\ done[r] + hwCount <= moved[r] /\ done[r] \in Nat /\ moved[r] \in Nat
  BY AtService DEF WorkFinal
<1>2. s \in {"failed", "completed"} /\ (s = "completed" => wcount >= xnum[t])
  BY <1>1 DEF Outcome
<1>3. /\ Complete(t, s) /\ transferList' = <<>>
      /\ \E deq : Resume(<<>>, running /\ ~werr, deq)
  BY <1>1 DEF WorkFinal
<1>4. xstate' = [xstate EXCEPT ![t] = s] /\ UNCHANGED <<ring, done, pc>>
  BY <1>1, <1>3 DEF Complete
<1>5. ~running' /\ ~hwBusy'
  BY <1>3 DEF Resume
<1>6. UNCHANGED <<nents, tfer, descLock, xidx, xnum, moved>> /\ wpc' = "idle"
  BY DEF WorkFinal
<1>7. s = "completed" => done[r] + xnum[t] <= moved[r]
  BY <1>1, <1>2
<1> HIDE DEF s
<1>8. /\ xstate'[t] = s
      /\ \A q \in Reqs : xstate'[<<q, 2>>] = xstate[<<q, 2>>]
      /\ \A q \in Reqs : q # r => xstate'[Mine(q)] = xstate[Mine(q)]
  BY <1>1, <1>4, Apart DEF TypeInv, TypeOK, XferTypeOK
<1>9. LockHeld' /\ QueueOfHolder'
  BY <1>3, <1>4, <1>6 DEF BlockInv, LockHeld, QueueOfHolder
<1>10. Unbuilt'
  BY <1>1, <1>4, <1>6, <1>8 DEF BlockInv, Unbuilt
<1>11. ChainsKept'
  <2>1. ASSUME NEW q \in Reqs, pc'[q] \in {"queue", "enqueue"} \/ xstate'[Mine(q)] = "submitted"
        PROVE  Chained(Mine(q))
    <3>1. pc[q] \in {"queue", "enqueue"} \/ xstate[Mine(q)] = "submitted"
      BY <1>2, <1>4, <1>8, <2>1
    <3>2. QED BY <3>1 DEF BlockInv, ChainsKept
  <2>2. \A q \in Reqs : Chained(Mine(q)) => Chained(Mine(q))'
    BY <1>4, <1>6 DEF Chained, Slots
  <2>3. QED BY <2>1, <2>2 DEF ChainsKept
<1>12. ServesHead' /\ AtNext'
  BY <1>5, <1>6 DEF ServesHead, AtNext, Serving
<1>13. DoneMoved'
  <2>1. done[r] <= moved[r]
    BY <1>1 DEF BlockInv, DoneMoved
  <2>2. \A q \in Reqs : q # r =>
            /\ done[q] <= moved[q]
            /\ xstate[Mine(q)] = "completed" /\ pc[q] # "destroy" => done[q] + xnum[Mine(q)] <= moved[q]
    BY DEF BlockInv, DoneMoved
  <2>3. \A q \in Reqs : done[q] <= moved[q]
    BY DEF BlockInv, DoneMoved
  <2>4. ASSUME NEW q \in Reqs, xstate'[Mine(q)] = "completed", pc[q] # "destroy"
        PROVE  done[q] + xnum[Mine(q)] <= moved[q]
    <3>1. CASE q = r
      BY <3>1, <1>7, <1>8, <2>4
    <3>2. CASE q # r
      BY <3>2, <1>8, <2>2, <2>4
    <3>3. QED BY <3>1, <3>2
  <2>5. QED BY <1>4, <1>6, <2>3, <2>4 DEF DoneMoved
<1>14. QED BY <1>3, <1>5, <1>6, <1>9, <1>10, <1>11, <1>12, <1>13 DEF BlockInv

\* The count never exceeds the only transfer on the queue.
LEMMA NoPop == ASSUME Blocking, TypeInv, BlockInv PROVE ~WorkPop
<1>1. SUFFICES ASSUME WorkPop PROVE FALSE
  OBVIOUS
<1>2. wcount > xnum[Head(transferList)] /\ wpc = "list"
  BY <1>1 DEF WorkPop
<1>3. /\ Head(transferList) = Mine(descLock) /\ wcount <= hwCount
      /\ hwCount <= xnum[Mine(descLock)] /\ wcount \in Nat /\ hwCount \in Nat
      /\ xnum[Mine(descLock)] \in Nat
  BY <1>2, AtService
<1>4. QED BY <1>2, <1>3

LEMMA BlockStep ==
    ASSUME Blocking, TypeInv, BlockInv, BusyIsRunning, [Next]_vars
    PROVE  BlockInv'
  BY RequesterBlock, HwMoveBlock, OthersBlock, WorkBeginBlock, WorkCountBlock, WorkFinalBlock, NoPop
  DEF Next, Hardware, Work

\* A single transfer is in flight at a time, and its descriptors are its own.
LEMMA BlockInvariant == ASSUME Blocking PROVE Spec => []BlockInv
<1>1. Init => BlockInv
  BY BlockInit
<1>2. TypeInv /\ BlockInv /\ BusyIsRunning /\ [Next]_vars => BlockInv'
  BY BlockStep
<1>3. QED BY <1>1, <1>2, TypeInvariant, IdleMeansIdle, PTL DEF Spec
-----------------------------------------------------------------------------
\* No call's descriptors are more than a count can count.
LEMMA ShortStep ==
    ASSUME Blocking, TypeInv, Short, [Next]_vars
    PROVE  Short'
<1>. USE DEF TypeInv, TypeOK, ReqTypeOK, XferTypeOK
<1>1. ASSUME NEW r \in Reqs, Submit(r) PROVE Short'
  <2>1. PICK n \in ReqDescs : nents' = [nents EXCEPT ![r] = n]
    BY <1>1 DEF Submit
  <2>2. n < CountMod
    BY DEF Blocking
  <2>3. xnum' = xnum
    BY <1>1 DEF Submit
  <2>4. QED BY <2>1, <2>2, <2>3 DEF Short
<1>2. ASSUME NEW r \in Reqs, TransferInit(r) PROVE Short'
  <2> DEFINE n == ChainLength(nents[r])
             t == Current(r)
  <2>1. nents' = [nents EXCEPT ![r] = @ - n] /\ xnum' = [xnum EXCEPT ![t] = n]
    BY <1>2 DEF TransferInit
  <2>2. n \in Nat /\ n <= nents[r] /\ nents[r] \in Nat /\ nents[r] < CountMod
    BY ChainLengthFits DEF Short, EngTypeOK
  <2>3. CountMod \in Nat
    BY DEF EngineAssumption
  <2> HIDE DEF n, t
  <2>4. ASSUME NEW q \in Reqs PROVE nents'[q] < CountMod
    <3>1. CASE q = r
      BY <3>1, <2>1, <2>2, <2>3
    <3>2. CASE q # r
      BY <3>2, <2>1 DEF Short
    <3>3. QED BY <3>1, <3>2
  <2>5. ASSUME NEW q \in Reqs PROVE xnum'[Mine(q)] < CountMod
    <3>1. Mine(q) \in Xfers
      BY Apart
    <3>2. CASE Mine(q) = t
      BY <3>1, <3>2, <2>1, <2>2, <2>3
    <3>3. CASE Mine(q) # t
      BY <3>1, <3>3, <2>1 DEF Short
    <3>4. QED BY <3>2, <3>3
  <2>6. QED BY <2>4, <2>5 DEF Short
<1>3. ASSUME UNCHANGED <<nents, xnum>> PROVE Short'
  BY <1>3 DEF Short
<1>4. ASSUME NEW r \in Reqs, Requester(r), ~Submit(r), ~TransferInit(r) PROVE UNCHANGED <<nents, xnum>>
  BY <1>4 DEF Requester, LockDesc, QueueCheck, Refuse, Enqueue, EnqueueRefused, Woken, Reap, Destroy
<1>5. Hardware \/ ChannelIrq \/ Work \/ Device \/ UNCHANGED vars => UNCHANGED <<nents, xnum>>
  BY DEF Hardware, HwMove, HwError, ChannelIrq, Work, WorkIdle, WorkBegin, WorkCount, WorkPop,
         WorkFinal, Device, OfflineFlag, OfflineStop, OfflineIrq, OnlineEngine, OnlineFlag
<1>6. QED BY <1>1, <1>2, <1>3, <1>4, <1>5 DEF Next

\* A caller's step leaves what the engine did as it is, or finds it at rest.
LEMMA RequesterFresh ==
    ASSUME Blocking, TypeInv, BlockInv, Fresh, ~impatient, NEW r \in Reqs, Requester(r)
    PROVE  Fresh'
<1>. USE DEF TypeInv, TypeOK, ReqTypeOK, XferTypeOK
<1>1. CASE Submit(r) \/ LockDesc(r) \/ Woken(r) \/ (QueueCheck(r) /\ ~Refuse(r))
  <2>1. UNCHANGED <<xferVars, transferList, running, hwBusy, hwCount, hwStat, workVars, hwXfer, faulted>>
    BY <1>1 DEF Submit, LockDesc, Woken, QueueCheck
  <2>2. \A q \in Reqs : pc'[q] = "reap" => pc[q] = "reap" \/ xstate[Mine(q)] # "submitted"
    <3>1. CASE Woken(r)
      BY <3>1 DEF Woken
    <3>2. CASE Submit(r)
      <4>1. PICK x : pc' = [pc EXCEPT ![r] = x] /\ x \in {"lock", "init"}
        BY <3>2 DEF Submit
      <4>2. QED BY <4>1
    <3>3. CASE LockDesc(r) \/ (QueueCheck(r) /\ ~Refuse(r))
      BY <3>3 DEF LockDesc, QueueCheck
    <3>4. QED BY <1>1, <3>1, <3>2, <3>3
  <2>3. QED BY <2>1, <2>2 DEF Fresh, Serving
<1>2. CASE TransferInit(r)
  <2>1. /\ pc[r] = "init" /\ Current(r) = Mine(r) /\ Mine(r) \in Xfers
        /\ xstate' = [xstate EXCEPT ![Mine(r)] = "new"] /\ faulted' = faulted \ {Mine(r)}
        /\ pc' = [pc EXCEPT ![r] = "queue"]
        /\ UNCHANGED <<transferList, running, hwBusy, hwCount, hwStat, workVars, hwXfer>>
    BY <1>2, Apart DEF TransferInit, BlockInv, LockHeld, Current
  <2>2. transferList = <<>> /\ ~Serving
    BY <2>1, NotQueued DEF InCall
  <2>3. hwStat = {} /\ ~work /\ wpc = "idle"
    BY <2>2 DEF Fresh
  <2>4. \A q \in Reqs : pc'[q] = "reap" => xstate'[Mine(q)] # "submitted"
    BY <2>1, Apart DEF Fresh
  <2>5. \A t \in Xfers : xstate'[t] = "failed" => t \in faulted'
    BY <2>1 DEF Fresh
  <2>6. ~Serving'
    BY <2>1, <2>2 DEF Serving
  <2>7. QED BY <2>1, <2>3, <2>4, <2>5, <2>6 DEF Fresh
<1>3. CASE Refuse(r) /\ pc[r] \in {"queue", "enqueue"}
  <2>1. /\ \A t \in Xfers : xstate'[t] \in {xstate[t], "none"}
        /\ pc' = [pc EXCEPT ![r] = "idle"]
        /\ UNCHANGED <<xnum, transferList, running, hwBusy, hwCount, hwStat, workVars, hwXfer, faulted>>
    BY <1>3 DEF Refuse
  <2>2. \A q \in Reqs : pc'[q] = "reap" => xstate'[Mine(q)] # "submitted"
    BY <2>1, Apart DEF Fresh
  <2>3. \A t \in Xfers : xstate'[t] = "failed" => t \in faulted'
    BY <2>1 DEF Fresh
  <2>4. QED BY <2>1, <2>2, <2>3 DEF Fresh, Serving
<1>4. CASE Enqueue(r)
  <2>1. pc[r] = "enqueue" /\ Current(r) = Mine(r) /\ Mine(r) \in Xfers /\ r \in Sync /\ r \notin Aio
    BY <1>4, Apart DEF Enqueue, BlockInv, LockHeld, Current, Blocking, Reqs
  <2>2. transferList = <<>> /\ ~Serving
    BY <2>1, NotQueued DEF InCall
  <2>3. hwStat = {} /\ ~work /\ wpc = "idle"
    BY <2>2 DEF Fresh
  <2>4. ~running
    BY <2>2 DEF Serving
  <2>5. /\ xstate' = [xstate EXCEPT ![Mine(r)] = "submitted"]
        /\ pc' = [pc EXCEPT ![r] = "wait"]
        /\ EngineStart(Queued(Mine(r)))
        /\ UNCHANGED <<workVars, hwStat, faulted>>
    BY <1>4, <2>1, <2>4 DEF Enqueue
  <2>6. hwBusy'
    BY <2>5 DEF EngineStart
  <2>7. \A q \in Reqs : pc'[q] = "reap" => xstate'[Mine(q)] # "submitted"
    BY <2>5, Apart DEF Fresh
  <2>8. \A t \in Xfers : xstate'[t] = "failed" => t \in faulted'
    BY <2>1, <2>5 DEF Fresh
  <2>9. QED BY <2>3, <2>5, <2>6, <2>7, <2>8 DEF Fresh
<1>5. CASE Reap(r)
  <2>1. /\ pc[r] = "reap" /\ xstate[Mine(r)] # "submitted"
    BY <1>5 DEF Reap, Fresh
  <2>2. UNCHANGED <<xferVars, transferList, running, hwBusy, hwCount, hwStat, workVars, hwXfer, faulted>>
    BY <1>5, <2>1 DEF Reap
  <2>3. pc' = [pc EXCEPT ![r] = "destroy"]
    BY <1>5 DEF Reap
  <2>4. \A q \in Reqs : pc'[q] = "reap" => pc[q] = "reap"
    BY <2>3
  <2>5. QED BY <2>2, <2>4 DEF Fresh, Serving
<1>6. CASE Destroy(r)
  <2>1. /\ xstate' = [xstate EXCEPT ![Mine(r)] = "none"]
        /\ UNCHANGED <<xnum, transferList, running, hwBusy, hwCount, hwStat, workVars, hwXfer, faulted>>
    BY <1>6 DEF Destroy
  <2>2. PICK x : pc' = [pc EXCEPT ![r] = x] /\ x \in {"init", "idle"}
    BY <1>6 DEF Destroy
  <2>3. \A q \in Reqs : pc'[q] = "reap" => xstate'[Mine(q)] # "submitted"
    BY <2>1, <2>2, Apart DEF Fresh
  <2>4. \A t \in Xfers : xstate'[t] = "failed" => t \in faulted'
    BY <2>1 DEF Fresh
  <2>5. QED BY <2>1, <2>3, <2>4 DEF Fresh, Serving
<1>7. EnqueueRefused(r) => Refuse(r) /\ pc[r] = "enqueue"
  BY DEF EnqueueRefused
<1>8. QueueCheck(r) => pc[r] = "queue"
  BY DEF QueueCheck
<1>9. QED BY <1>1, <1>2, <1>3, <1>4, <1>5, <1>6, <1>7, <1>8 DEF Requester

LEMMA EngineFresh ==
    ASSUME Blocking, TypeInv, BlockInv, BusyIsRunning, QuiescedOffline, Short, Fresh,
           Hardware \/ ChannelIrq \/ Work \/ Device
    PROVE  Fresh'
<1>1. CASE HwMove
  <2>1. /\ hwBusy /\ Serving /\ transferList # <<>>
        /\ hwStat = {} /\ ~work /\ wpc = "idle"
        /\ ring[hwPos].last <=> hwCount + 1 = xnum[hwXfer]
    BY <1>1, NextDescriptor DEF HwMove, Fresh
  <2>2. /\ UNCHANGED <<reqVars, xferVars, engVars, workVars, hwXfer, faulted>>
        /\ hwCount' = hwCount + 1
    BY <1>1 DEF HwMove
  <2>3. CASE ring[hwPos].last
    <3>1. ~hwBusy' /\ "err" \notin hwStat' /\ hwCount' = xnum[hwXfer]
      BY <1>1, <2>1, <2>2, <2>3 DEF HwMove
    <3>2. QED BY <2>1, <2>2, <3>1 DEF Fresh
  <2>4. CASE ~ring[hwPos].last
    <3>1. hwBusy' = hwBusy /\ hwStat' = hwStat
      BY <1>1, <2>4 DEF HwMove
    <3>2. QED BY <2>1, <2>2, <3>1 DEF Fresh
  <2>5. QED BY <2>3, <2>4
<1>2. CASE HwError
  <2>1. hwBusy /\ Serving /\ transferList # <<>> /\ hwStat = {} /\ ~work /\ wpc = "idle"
    BY <1>2, NextDescriptor DEF HwError, Fresh
  <2>2. /\ UNCHANGED <<reqVars, xferVars, engVars, workVars, hwXfer>>
        /\ ~hwBusy' /\ hwXfer \in faulted' /\ faulted \subseteq faulted'
    BY <1>2 DEF HwError
  <2>3. QED BY <2>1, <2>2 DEF Fresh
<1>3. CASE ChannelIrq
  <2>1. ~hwBusy /\ transferList # <<>> /\ wpc = "idle"
    BY <1>3 DEF ChannelIrq, Fresh
  <2>2. UNCHANGED <<reqVars, xferVars, engVars, wpc, werr, wcount, hwBusy, hwCount, hwStat, histVars>>
    BY <1>3 DEF ChannelIrq
  <2>3. QED BY <2>1, <2>2 DEF Fresh, Serving
<1>4. CASE WorkIdle
  <2>1. /\ hwStat' = {} /\ ~work' /\ wpc' = "idle" /\ ~running
        /\ UNCHANGED <<reqVars, xferVars, engVars, wpc, werr, wcount, hwBusy, hwCount, histVars>>
    BY <1>4 DEF WorkIdle, LockFree
  <2>2. QED BY <2>1 DEF Fresh, Serving
<1>5. CASE WorkBegin
  <2>1. work /\ running /\ Serving
    BY <1>5 DEF WorkBegin, Serving
  <2>2. ~hwBusy /\ transferList # <<>>
    BY <2>1 DEF Fresh
  <2>3. /\ hwStat' = {} /\ ~work' /\ wpc' = "count" /\ werr' = ("err" \in hwStat)
        /\ UNCHANGED <<reqVars, xferVars, transferList, hwBusy, hwCount, histVars>>
    BY <1>5 DEF WorkBegin
  <2>4. hwCount = xnum[hwXfer] \/ hwXfer \in faulted
    BY <2>1, <2>2 DEF Fresh
  <2>5. werr' => hwXfer \in faulted
    BY <2>3 DEF Fresh
  <2>6. QED BY <2>2, <2>3, <2>4, <2>5 DEF Fresh
<1>6. CASE WorkCount
  <2>1. /\ wpc = "count" /\ Serving
        /\ UNCHANGED <<reqVars, xferVars, engVars, work, werr, hwBusy, hwCount, hwStat, histVars>>
    BY <1>6 DEF WorkCount, Serving
  <2>2. transferList # <<>> /\ dequeued = 0 /\ hwCount <= xnum[hwXfer] /\ hwXfer = Mine(descLock)
        /\ descLock \in Reqs
    BY <2>1, Served DEF BlockInv, ServesHead
  <2>3. hwCount \in Nat /\ xnum[hwXfer] \in Nat /\ xnum[hwXfer] < CountMod /\ CountMod \in Nat
    BY <2>2, Apart DEF Short, TypeInv, TypeOK, HwTypeOK, XferTypeOK, EngineAssumption
  <2>4. (hwCount - dequeued) % CountMod = hwCount
    BY <2>2, <2>3
  <2>5. wpc' = "list" => wcount' = hwCount
    BY <1>6, <2>4 DEF WorkCount
  <2>6. hwStat = {} /\ ~work /\ ~hwBusy
    BY <2>1 DEF Fresh
  <2>7. hwCount = xnum[hwXfer] \/ hwXfer \in faulted
    BY <2>1, <2>6 DEF Fresh
  <2>8. werr => hwXfer \in faulted
    BY <2>1 DEF Fresh
  <2>9. QED BY <2>1, <2>2, <2>5, <2>6, <2>7, <2>8 DEF Fresh
<1>7. CASE WorkPop
  BY <1>7, NoPop
<1>8. CASE WorkFinal
  <2>1. /\ ~running' /\ ~hwBusy' /\ transferList' = <<>> /\ wpc' = "idle"
    BY <1>8, WorkFinalBlock
  <2>2. wpc = "list" /\ UNCHANGED <<hwStat, work, faulted>>
    BY <1>8 DEF WorkFinal
  <2>3. hwStat = {} /\ ~work /\ ~hwBusy /\ wcount = hwCount
    BY <2>2 DEF Fresh
  <2>4. /\ descLock \in Reqs /\ Mine(descLock) \in Xfers /\ transferList # <<>>
        /\ Head(transferList) = Mine(descLock) /\ hwXfer = Mine(descLock)
        /\ ~EndsRequest(Mine(descLock)) /\ pc[descLock] \in {"wait", "reap"}
        /\ hwCount \in Nat /\ xnum[Mine(descLock)] \in Nat
    BY <2>2, AtService
  <2>5. Complete(Mine(descLock), Outcome(Mine(descLock)))
    BY <1>8, <2>4 DEF WorkFinal
  <2>6. xstate' = [xstate EXCEPT ![Mine(descLock)] = Outcome(Mine(descLock))] /\ pc' = pc
    BY <2>4, <2>5 DEF Complete
  <2>7. Outcome(Mine(descLock)) = "failed" => hwXfer \in faulted
    <3>1. CASE werr
      BY <3>1, <2>2 DEF Fresh
    <3>2. CASE ~werr /\ Outcome(Mine(descLock)) = "failed"
      <4>1. hwCount # xnum[Mine(descLock)]
        BY <3>2, <2>3, <2>4 DEF Outcome
      <4>2. Serving /\ ~hwBusy
        BY <2>2, <2>3 DEF Serving
      <4>3. QED BY <2>4, <4>1, <4>2 DEF Fresh
    <3>3. QED BY <3>1, <3>2
  <2>8. \A t \in Xfers : xstate'[t] = "failed" => t \in faulted'
    BY <2>2, <2>4, <2>6, <2>7 DEF Fresh
  <2>9. \A q \in Reqs : pc'[q] = "reap" => xstate'[Mine(q)] # "submitted"
    <3>1. Outcome(Mine(descLock)) # "submitted"
      BY DEF Outcome
    <3>2. \A q \in Reqs : xstate'[Mine(q)] \in {xstate[Mine(q)], Outcome(Mine(descLock))}
      BY <2>4, <2>6, Apart DEF TypeInv, TypeOK, XferTypeOK
    <3>3. QED BY <2>6, <3>1, <3>2 DEF Fresh
  <2>10. QED BY <2>1, <2>2, <2>3, <2>8, <2>9 DEF Fresh, Serving
<1>9. CASE Device
  <2>1. CASE OfflineFlag \/ OnlineEngine \/ OnlineFlag
    <3>1. UNCHANGED <<reqVars, xferVars, transferList, running, workVars, hwBusy, hwCount, hwStat, histVars>>
      BY <2>1 DEF OfflineFlag, OnlineEngine, OnlineFlag
    <3>2. QED BY <3>1 DEF Fresh, Serving
  <2>2. CASE OfflineStop
    <3>1. /\ wpc = "idle" /\ ~running' /\ ~hwBusy'
          /\ UNCHANGED <<reqVars, xferVars, transferList, workVars, hwCount, hwStat, histVars>>
      BY <2>2 DEF OfflineStop, EngineStop, LockFree
    <3>2. QED BY <3>1 DEF Fresh, Serving
  <2>3. CASE OfflineIrq
    <3>1. ~running /\ ~hwBusy
      BY <2>3 DEF OfflineIrq, QuiescedOffline
    <3>2. /\ hwStat' = {} /\ ~hwBusy'
          /\ UNCHANGED <<reqVars, xferVars, engVars, workVars, hwCount, histVars>>
      BY <2>3 DEF OfflineIrq
    <3>3. QED BY <3>1, <3>2 DEF Fresh, Serving
  <2>4. QED BY <1>9, <2>1, <2>2, <2>3 DEF Device
<1>10. QED BY <1>1, <1>2, <1>3, <1>4, <1>5, <1>6, <1>7, <1>8, <1>9 DEF Hardware, Work

LEMMA PatientInvariant == ASSUME Blocking PROVE Spec => []PatientInv
<1>1. Init => PatientInv
  BY BlockInit
<1>2. ASSUME TypeInv, BlockInv, BusyIsRunning, QuiescedOffline, PatientInv, [Next]_vars
      PROVE  PatientInv'
  <2>1. Short /\ Short'
    BY <1>2, ShortStep DEF PatientInv
  <2>2. impatient' = impatient
    BY <1>2 DEF Next, Requester, Submit, LockDesc, TransferInit, QueueCheck, Refuse, Enqueue,
         EnqueueRefused, Woken, Reap, Destroy, Hardware, HwMove, HwError, ChannelIrq, Work,
         WorkIdle, WorkBegin, WorkCount, WorkPop, WorkFinal, Device, OfflineFlag, OfflineStop,
         OfflineIrq, OnlineEngine, OnlineFlag
  <2>3. ASSUME ~impatient PROVE Fresh'
    <3>1. Fresh
      BY <1>2, <2>3 DEF PatientInv
    <3>2. CASE UNCHANGED vars
      BY <3>1, <3>2 DEF Fresh, Serving
    <3>3. QED
      BY <1>2, <2>1, <2>3, <3>1, <3>2, RequesterFresh, EngineFresh DEF Next
  <2>4. QED BY <2>1, <2>2, <2>3 DEF PatientInv
<1>3. QED
  BY <1>1, <1>2, TypeInvariant, IdleMeansIdle, OfflineStaysQuiet, BlockInvariant, PTL DEF Spec
-----------------------------------------------------------------------------
\* The queue of an engine that only blocking callers use holds one transfer at most,
\* which is in flight, of the caller that holds desc_lock (xdma_xfer_submit).
THEOREM OneInFlight == ASSUME Blocking PROVE Spec => []QueueIsInFlight
<1>1. BlockInv => QueueIsInFlight
  <2> SUFFICES ASSUME BlockInv, NEW i \in 1 .. Len(transferList)
               PROVE  /\ xstate[transferList[i]] = "submitted"
                      /\ transferList[i][1] \in Sync =>
                            descLock = transferList[i][1] /\ pc[transferList[i][1]] \in {"wait", "reap"}
    BY DEF QueueIsInFlight
  <2>1. /\ descLock \in Reqs /\ transferList = << Mine(descLock) >>
        /\ pc[descLock] \in {"wait", "reap"} /\ xstate[Mine(descLock)] = "submitted"
    BY DEF BlockInv, QueueOfHolder
  <2>2. i = 1 /\ transferList[i] = Mine(descLock) /\ transferList[i][1] = descLock
    BY <2>1
  <2>3. QED BY <2>1, <2>2
<1>2. QED BY <1>1, BlockInvariant, PTL

\* What a blocking call is told was done the channel has moved, timeouts, errors and
\* resets included (engine_service_final_transfer, xdma_xfer_submit).
THEOREM ToldWasMoved == ASSUME Blocking PROVE Spec => []DoneMeansMoved
<1>1. TypeInv /\ BlockInv => DoneMeansMoved
  <2> SUFFICES ASSUME TypeInv, BlockInv, NEW r \in Reqs
               PROVE  done[r] + (IF xstate[<<r, 1>>] = "completed" /\ pc[r] # "destroy"
                                 THEN xnum[<<r, 1>>] ELSE 0)
                              + (IF xstate[<<r, 2>>] = "completed" /\ pc[r] # "destroy"
                                 THEN xnum[<<r, 2>>] ELSE 0) <= moved[r]
    BY Zenon DEF DoneMeansMoved
  <2>1. xstate[<<r, 2>>] = "none"
    BY DEF BlockInv, Unbuilt
  <2>2. /\ done[r] \in Nat /\ moved[r] \in Nat /\ xnum[<<r, 1>>] \in Nat /\ done[r] <= moved[r]
        /\ xstate[<<r, 1>>] = "completed" /\ pc[r] # "destroy" => done[r] + xnum[<<r, 1>>] <= moved[r]
    BY Apart DEF BlockInv, DoneMoved, TypeInv, TypeOK, ReqTypeOK, XferTypeOK, HistTypeOK
  <2>3. QED BY <2>1, <2>2
<1>2. QED BY <1>1, TypeInvariant, BlockInvariant, PTL

\* The channel fetches descriptors of the transfer it was started for and no others,
\* and that transfer is the head of the queue, even when callers give up and recycle
\* theirs (transfer_abort, transfer_destroy).
THEOREM RunsItsOwn == ASSUME Blocking PROVE Spec => []RunOwnsDescriptors
<1>1. TypeInv /\ BlockInv /\ BusyIsRunning => RunOwnsDescriptors
  BY NextDescriptor DEF RunOwnsDescriptors, BlockInv, ServesHead, Serving
<1>2. QED BY <1>1, TypeInvariant, BlockInvariant, IdleMeansIdle, PTL

\* As long as no wait times out, what fails has failed in the channel too
\* (engine_service_final_transfer).
THEOREM FailedHasFault == ASSUME Blocking PROVE Spec => []OutcomeIsTrue
<1>1. DoneMeansMoved /\ PatientInv => OutcomeIsTrue
  BY DEF PatientInv, Fresh, OutcomeIsTrue
<1>2. QED BY <1>1, ToldWasMoved, PatientInvariant, PTL
=============================================================================
