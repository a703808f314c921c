---------------------------- MODULE SgDeviceProofs ----------------------------
(***************************************************************************)
(* An asynchronous call ends once, after its last element, for any number  *)
(* of calls, elements and resets of the device, and the handler finds its  *)
(* object gone only after cdev_aio_write refused an element.  A            *)
(* measurement comes and goes with its transfer and its buffer, for any    *)
(* number of ioctls, their callers and the requests next to them, and      *)
(* misuses memory only in company.  A blocking call moves its bytes, each  *)
(* once and to its place, whatever the sizes of buffers, pages, blocks,    *)
(* windows and the ring.                                                   *)
(***************************************************************************)
EXTENDS SgDevice, FiniteSetTheorems, SequenceTheorems, WellFoundedInduction, TLAPS
-----------------------------------------------------------------------------
\* The performance measurement (PerfRun).

\* The type invariant, variable by variable.
PerfTyped ==
    /\ xdma_perf \in BOOLEAN /\ perf_buf \in BOOLEAN /\ runs \in BOOLEAN /\ desc \in BOOLEAN
    /\ gone \in BOOLEAN /\ wrecked \in BOOLEAN
    /\ list \in Seq(Requests \cup {"cyclic"})
    /\ slots \in Requests \cup {"cyclic", "free"}
    /\ state \in [Requests -> {"idle", "submitted", "done"}]
    /\ where \in [Askers -> {"idle", "claim", "fill", "queue", "stop", "copy"}]
    /\ pick \in [Askers -> Requests \cup {"cyclic", "none"}]
    /\ trouble \subseteq {"refused", "raced", "shared", "error", "offline"}
    /\ starts \in 0 .. MaxStarts

\* One request has desc_lock, and its transfer is on the list until it is answered.
OneCaller == \A q, r \in Requests : state[q] # "idle" /\ state[r] # "idle" => q = r
InFlight == \A r \in Requests : state[r] = "submitted" => Perf!Listed(r)
Queued ==
    ~wrecked => \A p, q \in DOMAIN list : list[p] \in Requests /\ list[q] \in Requests
                    => p = q /\ state[list[p]] = "submitted"

\* What is so as long as ioctls come one after the other, nobody else uses the engine
\* and it reports no error, whatever is refused: ...
Undisturbed == trouble \subseteq {"refused"}

OneAsker == \A i, j \in Askers : where[i] # "idle" /\ where[j] # "idle" => i = j

\* ... the list holds the measurement's transfer, or a request's, or nothing, ...
OnList ==
    /\ list # <<>> => Len(list) = 1 /\ (list[1] = "cyclic" \/ state[list[1]] = "submitted")
    /\ xdma_perf => \A r \in Requests : state[r] = "idle"
    /\ Perf!Listed("cyclic") => xdma_perf /\ runs /\ perf_buf
    /\ slots = "cyclic" => xdma_perf

\* ... an ioctl that is under way finds what it left or picked, ...
Underway(i) ==
    /\ where[i] = "claim" => ~xdma_perf /\ ~perf_buf
    /\ where[i] = "fill" => xdma_perf /\ ~perf_buf /\ list = <<>>
    /\ where[i] = "queue" => xdma_perf /\ perf_buf /\ list = <<>>
    /\ where[i] = "stop" => pick[i] = "cyclic" /\ Perf!Listed("cyclic")
    /\ where[i] = "copy" => pick[i] = "cyclic" /\ xdma_perf /\ ~perf_buf /\ list = <<>>
                           /\ slots # "cyclic"

\* ... and one that is over leaves transfer and buffer together, and the measurement
\* with them unless it was refused.
Settled ==
    /\ perf_buf = Perf!Listed("cyclic")
    /\ trouble = {} => xdma_perf = perf_buf

PerfAlone ==
    /\ ~gone /\ ~wrecked
    /\ OneAsker /\ OnList /\ \A i \in Askers : Underway(i)
    /\ (\A i \in Askers : where[i] = "idle") => Settled

PerfInv ==
    /\ PerfTyped /\ OneCaller /\ InFlight /\ Queued
    /\ Undisturbed => PerfAlone
    /\ Perf!HarmNeedsCompany

LEMMA PerfConstants ==
  MaxStarts \in Nat /\ "cyclic" \notin Requests /\ "none" \notin Requests
BY DeviceAssumption DEF Perf!PerfAssumption

Entries == Requests \cup {"cyclic"}

\* What happens to the list.
LEMMA EntryAdded ==
  ASSUME list \in Seq(Entries), NEW t \in Entries, list' = Append(list, t)
  PROVE  /\ list' \in Seq(Entries)
         /\ \A u : Perf!Listed(u)' <=> Perf!Listed(u) \/ u = t
         /\ list = <<>> => Len(list') = 1 /\ list'[1] = t
         /\ \A k \in DOMAIN list' : \/ k \in DOMAIN list /\ list'[k] = list[k]
                                    \/ k = Len(list) + 1 /\ list'[k] = t
<1>1. /\ list' \in Seq(Entries) /\ Len(list') = Len(list) + 1 /\ Len(list) \in Nat
      /\ DOMAIN list = 1 .. Len(list) /\ DOMAIN list' = 1 .. Len(list) + 1
      /\ \A k \in 1 .. Len(list) : list'[k] = list[k]
      /\ list'[Len(list) + 1] = t
  OBVIOUS
<1>2. list = <<>> => Len(list) = 0
  OBVIOUS
<1>3. ASSUME NEW u PROVE Perf!Listed(u)' <=> Perf!Listed(u) \/ u = t
  <2>1. ASSUME NEW k \in 1 .. Len(list) + 1, list'[k] = u PROVE Perf!Listed(u) \/ u = t
    <3>1. CASE k \in 1 .. Len(list)
      BY <1>1, <2>1, <3>1 DEF Perf!Listed
    <3>2. CASE k = Len(list) + 1
      BY <1>1, <2>1, <3>2
    <3>3. QED BY <1>1, <3>1, <3>2
  <2>2. ASSUME NEW k \in 1 .. Len(list), list[k] = u PROVE Perf!Listed(u)'
    <3>1. k \in DOMAIN list' /\ list'[k] = u
      BY <1>1, <2>2
    <3>2. QED BY <3>1 DEF Perf!Listed
  <2>3. ASSUME u = t PROVE Perf!Listed(u)'
    <3>1. Len(list) + 1 \in DOMAIN list'
      BY <1>1
    <3>2. QED BY <1>1, <2>3, <3>1 DEF Perf!Listed
  <2>4. QED BY <1>1, <2>1, <2>2, <2>3 DEF Perf!Listed
<1>4. ASSUME NEW k \in DOMAIN list'
      PROVE  \/ k \in DOMAIN list /\ list'[k] = list[k]
             \/ k = Len(list) + 1 /\ list'[k] = t
  BY <1>1, <1>4
<1>5. QED BY <1>1, <1>2, <1>3, <1>4

LEMMA HeadGone ==
  ASSUME list \in Seq(Entries), list # <<>>, list' = Tail(list)
  PROVE  /\ list' \in Seq(Entries) /\ Head(list) \in Entries
         /\ \A u : u # Head(list) /\ Perf!Listed(u) => Perf!Listed(u)'
         /\ Len(list) = 1 => list' = <<>> /\ Head(list) = list[1]
         /\ 1 \in DOMAIN list /\ Head(list) = list[1]
         /\ \A k \in DOMAIN list' : k \in Nat \ {0} /\ k + 1 \in DOMAIN list /\ list'[k] = list[k + 1]
<1>1. /\ list' \in Seq(Entries) /\ Len(list') = Len(list) - 1 /\ Len(list) \in Nat
      /\ DOMAIN list = 1 .. Len(list) /\ DOMAIN list' = 1 .. Len(list) - 1
      /\ \A k \in 1 .. Len(list) - 1 : list'[k] = list[k + 1]
      /\ Head(list) = list[1] /\ Head(list) \in Entries
  OBVIOUS
<1>2. ASSUME NEW u, u # Head(list), Perf!Listed(u) PROVE Perf!Listed(u)'
  <2>1. PICK k \in 1 .. Len(list) : list[k] = u
    BY <1>1, <1>2 DEF Perf!Listed
  <2>2. k - 1 \in 1 .. Len(list) - 1 /\ list'[k - 1] = list[(k - 1) + 1] /\ (k - 1) + 1 = k
    BY <1>1, <1>2, <2>1
  <2>3. QED BY <1>1, <2>1, <2>2 DEF Perf!Listed
<1>3. Len(list) = 1 => list' = <<>>
  BY <1>1, EmptySeq
<1>4. 1 \in DOMAIN list
  BY <1>1
<1>5. \A k \in DOMAIN list' : k \in Nat \ {0} /\ k + 1 \in DOMAIN list /\ list'[k] = list[k + 1]
  BY <1>1
<1>6. QED BY <1>1, <1>2, <1>3, <1>4, <1>5

LEMMA EntryDeleted ==
  ASSUME list \in Seq(Entries), NEW t, list' = Perf!Without(t)
  PROVE  /\ list' \in Seq(Entries)
         /\ \A u : u # t /\ Perf!Listed(u) => Perf!Listed(u)'
         /\ Len(list) = 1 /\ list[1] = t => list' = <<>>
         /\ \A k, l \in DOMAIN list' :
              \E a, b \in DOMAIN list : list'[k] = list[a] /\ list'[l] = list[b] /\ (a = b => k = l)
<1>1. /\ DOMAIN list = 1 .. Len(list) /\ Len(list) \in Nat
      /\ \A k \in 1 .. Len(list) : list[k] \in Entries
  OBVIOUS
<1>2. CASE ~Perf!Listed(t)
  <2>1. list' = list
    BY <1>2 DEF Perf!Without
  <2>2. ~(Len(list) = 1 /\ list[1] = t)
    BY <1>1, <1>2 DEF Perf!Listed
  <2>3. \A k, l \in DOMAIN list' :
          \E a, b \in DOMAIN list : list'[k] = list[a] /\ list'[l] = list[b] /\ (a = b => k = l)
    BY <2>1
  <2>4. QED BY <2>1, <2>2, <2>3 DEF Perf!Listed
<1>3. CASE Perf!Listed(t)
  <2> DEFINE p == CHOOSE k \in DOMAIN list : list[k] = t
             new == [k \in 1 .. Len(list) - 1 |-> IF k < p THEN list[k] ELSE list[k + 1]]
  <2>1. p \in 1 .. Len(list) /\ list[p] = t
    BY <1>1, <1>3 DEF Perf!Listed
  <2>2. list' = new
    BY <1>3 DEF Perf!Without
  <2> HIDE DEF p
  <2>3. ASSUME NEW k \in 1 .. Len(list) - 1 PROVE new[k] \in Entries
    <3>1. k \in 1 .. Len(list) /\ k + 1 \in 1 .. Len(list)
      BY <1>1
    <3>2. QED BY <1>1, <3>1
  <2>4. Len(list) - 1 \in Nat
    BY <1>1, <2>1
  <2>5. new \in [1 .. Len(list) - 1 -> Entries]
    BY <2>3
  <2>6. new \in Seq(Entries) /\ Len(new) = Len(list) - 1 /\ DOMAIN new = 1 .. Len(list) - 1
    BY <2>4, <2>5
  <2>7. ASSUME NEW u, u # t, Perf!Listed(u) PROVE \E k \in 1 .. Len(list) - 1 : new[k] = u
    <3>1. PICK k \in 1 .. Len(list) : list[k] = u
      BY <1>1, <2>7 DEF Perf!Listed
    <3>2. CASE k < p
      <4>1. k \in 1 .. Len(list) - 1
        BY <1>1, <2>1, <3>2
      <4>2. QED BY <3>1, <3>2, <4>1
    <3>3. CASE k > p
      <4>1. k - 1 \in 1 .. Len(list) - 1 /\ ~(k - 1 < p) /\ (k - 1) + 1 = k
        BY <1>1, <2>1, <3>3
      <4>2. QED BY <3>1, <4>1
    <3>4. k # p
      BY <2>1, <2>7, <3>1
    <3>5. QED BY <1>1, <2>1, <3>2, <3>3, <3>4
  <2>8. \A u : u # t /\ Perf!Listed(u) => Perf!Listed(u)'
    BY <2>2, <2>6, <2>7 DEF Perf!Listed
  <2>9. Len(list) = 1 => new = <<>>
    BY <2>6, EmptySeq
  <2>10. ASSUME NEW k \in 1 .. Len(list) - 1, NEW l \in 1 .. Len(list) - 1
         PROVE  \E a, b \in DOMAIN list : new[k] = list[a] /\ new[l] = list[b] /\ (a = b => k = l)
    <3> DEFINE From(m) == IF m < p THEN m ELSE m + 1
    <3>1. From(k) \in DOMAIN list /\ From(l) \in DOMAIN list /\ (From(k) = From(l) => k = l)
      BY <1>1, <2>1
    <3>2. new[k] = list[From(k)] /\ new[l] = list[From(l)]
      OBVIOUS
    <3> HIDE DEF new, From
    <3>3. QED BY <3>1, <3>2
  <2>11. QED BY <2>2, <2>6, <2>8, <2>9, <2>10
<1>4. QED BY <1>2, <1>3

\* One entry, or none.
LEMMA OneEntry ==
  ASSUME list \in Seq(Entries)
  PROVE  /\ list = <<>> => \A u : ~Perf!Listed(u)
         /\ Len(list) = 1 => /\ \A u : Perf!Listed(u) <=> list[1] = u
                             /\ list # <<>> /\ Head(list) = list[1] /\ list[1] \in Entries
<1>1. DOMAIN list = 1 .. Len(list) /\ Len(list) \in Nat
  OBVIOUS
<1>2. list = <<>> => Len(list) = 0
  OBVIOUS
<1>3. list = <<>> => \A u : ~Perf!Listed(u)
  BY <1>1, <1>2 DEF Perf!Listed
<1>4. Len(list) = 1 => /\ \A u : Perf!Listed(u) <=> list[1] = u
                       /\ list # <<>> /\ Head(list) = list[1] /\ list[1] \in Entries
  BY <1>1, <1>2 DEF Perf!Listed
<1>5. QED BY <1>3, <1>4

\* Whoever was under way, it is one ioctl that goes on, and the others are idle.
LEMMA AskerGoes ==
  ASSUME PerfTyped, NEW i \in Askers,
         NEW to \in {"idle", "claim", "fill", "queue", "stop", "copy"},
         where' = [where EXCEPT ![i] = to], \A j \in Askers : j # i => where[j] = "idle",
         ~gone', ~wrecked', OnList', Underway(i)', to = "idle" => Settled'
  PROVE  PerfAlone'
<1>1. where'[i] = to /\ \A j \in Askers : j # i => where'[j] = "idle"
  BY DEF PerfTyped
<1>2. OneAsker'
  BY <1>1 DEF OneAsker
<1>3. ASSUME NEW j \in Askers PROVE Underway(j)'
  BY <1>1 DEF Underway
<1>4. (\A j \in Askers : where'[j] = "idle") => Settled'
  BY <1>1
<1>5. QED BY <1>2, <1>3, <1>4 DEF PerfAlone

\* Nobody asks, or somebody still does.
LEMMA AskersStay ==
  ASSUME PerfAlone, UNCHANGED where, ~gone', ~wrecked', OnList',
         \A i \in Askers : Underway(i)',
         (\A i \in Askers : where[i] = "idle") => Settled'
  PROVE  PerfAlone'
BY DEF PerfAlone, OneAsker

LEMMA OthersIdle ==
  ASSUME PerfAlone, NEW i \in Askers, where[i] # "idle"
  PROVE  \A j \in Askers : j # i => where[j] = "idle"
BY DEF PerfAlone, OneAsker

LEMMA NotRaced ==
  ASSUME NEW i \in Askers, Undisturbed', trouble' = trouble \cup Perf!Raced(i)
  PROVE  /\ trouble' = trouble /\ Undisturbed
         /\ \A j \in Askers : j # i => where[j] = "idle"
<1>1. "raced" \notin trouble'
  BY DEF Undisturbed
<1>2. ~(\E j \in Askers \ {i} : where[j] # "idle")
  BY <1>1 DEF Perf!Raced
<1>3. Perf!Raced(i) = {}
  BY <1>2 DEF Perf!Raced
<1>4. QED BY <1>2, <1>3 DEF Undisturbed

LEMMA RequestsKept ==
  ASSUME OneCaller, InFlight, Queued, ~wrecked, UNCHANGED <<list, state>>
  PROVE  OneCaller' /\ InFlight' /\ Queued'
BY DEF OneCaller, InFlight, Queued, Perf!Listed

LEMMA StartCheckStep ==
  ASSUME PerfInv, NEW i \in Askers, Perf!StartCheck(i), ~wrecked PROVE PerfInv'
<1>0. /\ where[i] = "idle" /\ where' = [where EXCEPT ![i] = "claim"] /\ ~xdma_perf
      /\ starts < MaxStarts /\ starts' = starts + 1 /\ trouble' = trouble \cup Perf!Raced(i)
      /\ UNCHANGED <<xdma_perf, perf_buf, list, runs, desc, slots, state, pick, gone, wrecked>>
  BY DEF Perf!StartCheck, Perf!Goes, Perf!driverVars
<1>1. PerfTyped'
  BY <1>0, PerfConstants DEF PerfInv, PerfTyped, Perf!Raced
<1>2. OneCaller' /\ InFlight' /\ Queued'
  BY <1>0, RequestsKept DEF PerfInv
<1>3. ASSUME Undisturbed' PROVE PerfAlone'
  <2>1. trouble' = trouble /\ Undisturbed /\ \A j \in Askers : j # i => where[j] = "idle"
    BY <1>0, <1>3, NotRaced
  <2>2. PerfAlone /\ Settled
    BY <1>0, <2>1 DEF PerfInv, PerfAlone
  <2>3. ~perf_buf
    BY <1>0, <2>2 DEF Settled, PerfAlone, OnList
  <2>4. Underway(i)'
    BY <1>0, <2>3 DEF Underway, PerfInv, PerfTyped
  <2>5. OnList' /\ ~gone' /\ ~wrecked'
    BY <1>0, <2>2 DEF PerfAlone, OnList, Perf!Listed
  <2>6. QED BY <1>0, <2>1, <2>4, <2>5, AskerGoes DEF PerfInv
<1>4. Perf!HarmNeedsCompany'
  BY <1>0 DEF Perf!HarmNeedsCompany
<1>5. QED BY <1>1, <1>2, <1>3, <1>4, Zenon DEF PerfInv

LEMMA StartClaimStep ==
  ASSUME PerfInv, NEW i \in Askers, Perf!StartClaim(i), ~wrecked PROVE PerfInv'
<1>0. /\ where[i] = "claim" /\ where' = [where EXCEPT ![i] = "fill"] /\ xdma_perf' = TRUE
      /\ trouble' = trouble \cup (IF Perf!Busy THEN {"shared"} ELSE {})
      /\ UNCHANGED <<perf_buf, list, runs, desc, slots, state, pick, gone, wrecked, starts>>
  BY DEF Perf!StartClaim, Perf!Goes
<1>1. PerfTyped'
  BY <1>0 DEF PerfInv, PerfTyped
<1>2. OneCaller' /\ InFlight' /\ Queued'
  BY <1>0, RequestsKept DEF PerfInv
<1>3. ASSUME Undisturbed' PROVE PerfAlone'
  <2>1. ~Perf!Busy /\ Undisturbed
    BY <1>0, <1>3 DEF Undisturbed
  <2>2. PerfAlone /\ list \in Seq(Entries)
    BY <2>1 DEF PerfInv, PerfTyped, Entries
  <2>3. \A r \in Requests : state[r] = "idle"
    BY <2>1 DEF Perf!Busy
  <2>4. ~Perf!Listed("cyclic") /\ ~perf_buf /\ list = <<>>
    <3>1. ~Perf!Listed("cyclic") /\ ~perf_buf
      BY <1>0, <2>2 DEF PerfAlone, Underway, OnList
    <3>2. ASSUME list # <<>> PROVE FALSE
      BY <2>2, <2>3, <3>1, <3>2, OneEntry DEF PerfAlone, OnList, Entries
    <3>3. QED BY <3>1, <3>2
  <2>5. Underway(i)'
    BY <1>0, <2>4 DEF Underway, PerfInv, PerfTyped
  <2>6. OnList' /\ ~gone' /\ ~wrecked'
    BY <1>0, <2>2, <2>3, <2>4 DEF PerfAlone, OnList, Perf!Listed
  <2>7. QED BY <1>0, <2>2, <2>5, <2>6, AskerGoes, OthersIdle DEF PerfInv
<1>4. Perf!HarmNeedsCompany'
  BY <1>0 DEF Perf!HarmNeedsCompany
<1>5. QED BY <1>1, <1>2, <1>3, <1>4, Zenon DEF PerfInv

\* A start or a copy that fails: nothing changes but the history.
LEMMA RefusedStep ==
  ASSUME PerfInv, NEW i \in Askers, Perf!StartFails(i) \/ Perf!CopyFails(i), ~wrecked
  PROVE  PerfInv'
<1>0. /\ where[i] \in {"fill", "copy"} /\ where' = [where EXCEPT ![i] = "idle"]
      /\ trouble' = trouble \cup {"refused"}
      /\ UNCHANGED <<xdma_perf, perf_buf, list, runs, desc, slots, state, pick, gone, wrecked,
                     starts>>
  BY DEF Perf!StartFails, Perf!CopyFails, Perf!Goes, Perf!driverVars
<1>1. PerfTyped'
  BY <1>0 DEF PerfInv, PerfTyped
<1>2. OneCaller' /\ InFlight' /\ Queued'
  BY <1>0, RequestsKept DEF PerfInv
<1>3. ASSUME Undisturbed' PROVE PerfAlone'
  <2>1. PerfAlone /\ list \in Seq(Entries)
    BY <1>0, <1>3 DEF Undisturbed, PerfInv, PerfTyped, Entries
  <2>2. list = <<>> /\ ~perf_buf
    BY <1>0, <2>1 DEF PerfAlone, Underway
  <2>3. ~Perf!Listed("cyclic")
    BY <2>1, <2>2, OneEntry
  <2>4. Settled'
    BY <1>0, <2>2, <2>3 DEF Settled, PerfInv, PerfTyped, Perf!Listed
  <2>5. Underway(i)'
    BY <1>0 DEF Underway, PerfInv, PerfTyped
  <2>6. OnList' /\ ~gone' /\ ~wrecked'
    BY <1>0, <2>1 DEF PerfAlone, OnList, Perf!Listed
  <2>7. QED BY <1>0, <2>1, <2>4, <2>5, <2>6, AskerGoes, OthersIdle DEF PerfInv
<1>4. Perf!HarmNeedsCompany'
  BY <1>0 DEF Perf!HarmNeedsCompany
<1>5. QED BY <1>1, <1>2, <1>3, <1>4, Zenon DEF PerfInv

LEMMA FillStep ==
  ASSUME PerfInv, NEW i \in Askers, Perf!Fill(i), ~wrecked PROVE PerfInv'
<1>0. /\ where[i] = "fill" /\ where' = [where EXCEPT ![i] = "queue"]
      /\ perf_buf' = TRUE /\ slots' = "cyclic" /\ desc' = TRUE
      /\ UNCHANGED <<xdma_perf, list, runs, state, pick, gone, trouble, wrecked, starts>>
  BY DEF Perf!Fill, Perf!Goes, Perf!Cyclic
<1>1. PerfTyped'
  BY <1>0 DEF PerfInv, PerfTyped
<1>2. OneCaller' /\ InFlight' /\ Queued'
  BY <1>0, RequestsKept DEF PerfInv
<1>3. ASSUME Undisturbed' PROVE PerfAlone'
  <2>1. PerfAlone
    BY <1>0, <1>3 DEF Undisturbed, PerfInv
  <2>2. list = <<>> /\ xdma_perf
    BY <1>0, <2>1 DEF PerfAlone, Underway
  <2>5. Underway(i)'
    BY <1>0, <2>2 DEF Underway, PerfInv, PerfTyped
  <2>6. OnList' /\ ~gone' /\ ~wrecked'
    BY <1>0, <2>1, <2>2 DEF PerfAlone, OnList, Perf!Listed
  <2>7. QED BY <1>0, <2>1, <2>5, <2>6, AskerGoes, OthersIdle DEF PerfInv
<1>4. Perf!HarmNeedsCompany'
  BY <1>0 DEF Perf!HarmNeedsCompany
<1>5. QED BY <1>1, <1>2, <1>3, <1>4, Zenon DEF PerfInv

LEMMA PerfQueueStep ==
  ASSUME PerfInv, NEW i \in Askers, Perf!PerfQueue(i), ~wrecked PROVE PerfInv'
<1>0. /\ where[i] = "queue" /\ where' = [where EXCEPT ![i] = "idle"]
      /\ list' = Append(list, "cyclic") /\ runs' = TRUE
      /\ UNCHANGED <<xdma_perf, perf_buf, desc, slots, state, pick, gone, trouble, wrecked,
                     starts>>
  BY DEF Perf!PerfQueue, Perf!Goes, Perf!Cyclic, Perf!Enqueue
<1>a. /\ list' \in Seq(Entries) /\ \A u : Perf!Listed(u)' <=> Perf!Listed(u) \/ u = "cyclic"
      /\ list = <<>> => Len(list') = 1 /\ list'[1] = "cyclic"
      /\ \A k \in DOMAIN list' : \/ k \in DOMAIN list /\ list'[k] = list[k]
                                 \/ k = Len(list) + 1 /\ list'[k] = "cyclic"
  BY <1>0, EntryAdded DEF PerfInv, PerfTyped, Entries
<1>1. PerfTyped'
  BY <1>0, <1>a DEF PerfInv, PerfTyped, Entries
<1>2. OneCaller' /\ InFlight' /\ Queued'
  <2>1. OneCaller' /\ InFlight'
    BY <1>0, <1>a DEF PerfInv, OneCaller, InFlight
  <2>2. Queued'
    BY <1>0, <1>a, PerfConstants DEF PerfInv, Queued
  <2>3. QED BY <2>1, <2>2
<1>3. ASSUME Undisturbed' PROVE PerfAlone'
  <2>1. PerfAlone
    BY <1>0, <1>3 DEF Undisturbed, PerfInv
  <2>2. list = <<>> /\ xdma_perf /\ perf_buf
    BY <1>0, <2>1 DEF PerfAlone, Underway
  <2>3. Settled'
    BY <1>0, <1>a, <2>2 DEF Settled, PerfInv, PerfTyped
  <2>5. Underway(i)'
    BY <1>0 DEF Underway, PerfInv, PerfTyped
  <2>6. OnList' /\ ~gone' /\ ~wrecked'
    BY <1>0, <1>a, <2>1, <2>2 DEF PerfAlone, OnList
  <2>7. QED BY <1>0, <2>1, <2>3, <2>5, <2>6, AskerGoes, OthersIdle DEF PerfInv
<1>4. Perf!HarmNeedsCompany'
  BY <1>0 DEF Perf!HarmNeedsCompany
<1>5. QED BY <1>1, <1>2, <1>3, <1>4, Zenon DEF PerfInv

LEMMA PerfRefusedStep ==
  ASSUME PerfInv, NEW i \in Askers, Perf!PerfRefused(i), ~wrecked PROVE PerfInv'
<1>0. /\ where' = [where EXCEPT ![i] = "idle"] /\ gone /\ desc' = FALSE /\ wrecked' = TRUE
      /\ UNCHANGED <<xdma_perf, perf_buf, list, runs, slots, state, pick, gone, trouble, starts>>
  BY DEF Perf!PerfRefused, Perf!Goes
<1>1. PerfTyped'
  BY <1>0 DEF PerfInv, PerfTyped
<1>2. OneCaller' /\ InFlight' /\ Queued'
  BY <1>0, RequestsKept DEF PerfInv
<1>3. ~Undisturbed'
  BY <1>0 DEF PerfInv, PerfAlone, Undisturbed
<1>4. Perf!HarmNeedsCompany'
  BY <1>3 DEF Undisturbed, Perf!HarmNeedsCompany
<1>5. QED BY <1>1, <1>2, <1>3, <1>4, Zenon DEF PerfInv

LEMMA StopPickStep ==
  ASSUME PerfInv, NEW i \in Askers, Perf!StopPick(i), ~wrecked PROVE PerfInv'
<1>0. /\ where[i] = "idle" /\ where' = [where EXCEPT ![i] = "stop"]
      /\ xdma_perf /\ list # <<>> /\ pick' = [pick EXCEPT ![i] = Head(list)]
      /\ trouble' = trouble \cup Perf!Raced(i)
      /\ UNCHANGED <<xdma_perf, perf_buf, list, runs, desc, slots, state, gone, wrecked, starts>>
  BY DEF Perf!StopPick, Perf!Goes, Perf!driverVars
<1>a. list \in Seq(Entries) /\ Head(list) \in Entries
  BY <1>0 DEF PerfInv, PerfTyped, Entries
<1>1. PerfTyped'
  BY <1>0, <1>a DEF PerfInv, PerfTyped, Perf!Raced, Entries
<1>2. OneCaller' /\ InFlight' /\ Queued'
  BY <1>0, RequestsKept DEF PerfInv
<1>3. ASSUME Undisturbed' PROVE PerfAlone'
  <2>1. Undisturbed /\ \A j \in Askers : j # i => where[j] = "idle"
    BY <1>0, <1>3, NotRaced
  <2>2. PerfAlone
    BY <2>1 DEF PerfInv
  <2>3. Head(list) = "cyclic" /\ Perf!Listed("cyclic")
    <3>1. Len(list) = 1 /\ (list[1] = "cyclic" \/ state[list[1]] = "submitted")
      BY <1>0, <2>2 DEF PerfAlone, OnList
    <3>2. Head(list) = list[1] /\ list[1] \in Entries
      BY <1>a, <3>1, OneEntry
    <3>3. \A r \in Requests : state[r] = "idle"
      BY <1>0, <2>2 DEF PerfAlone, OnList
    <3>4. list[1] = "cyclic"
      BY <3>1, <3>2, <3>3 DEF Entries
    <3>5. QED BY <1>a, <3>1, <3>2, <3>4, OneEntry
  <2>4. Underway(i)'
    BY <1>0, <2>3 DEF Underway, PerfInv, PerfTyped, Perf!Listed
  <2>5. OnList' /\ ~gone' /\ ~wrecked'
    BY <1>0, <2>2 DEF PerfAlone, OnList, Perf!Listed
  <2>6. QED BY <1>0, <2>1, <2>4, <2>5, AskerGoes DEF PerfInv
<1>4. Perf!HarmNeedsCompany'
  BY <1>0 DEF Perf!HarmNeedsCompany
<1>5. QED BY <1>1, <1>2, <1>3, <1>4, Zenon DEF PerfInv

LEMMA StopDeleteStep ==
  ASSUME PerfInv, NEW i \in Askers, Perf!StopDelete(i), ~wrecked PROVE PerfInv'
<1>0. /\ where[i] = "stop" /\ where' = [where EXCEPT ![i] = "copy"] /\ runs' = FALSE
      /\ IF pick[i] = "cyclic"
         THEN /\ list' = Perf!Without("cyclic") /\ perf_buf' = FALSE
              /\ slots' = (IF slots = "cyclic" THEN "free" ELSE slots)
              /\ wrecked' = ~Perf!Listed("cyclic")
         ELSE UNCHANGED <<list, perf_buf, slots, wrecked>>
      /\ UNCHANGED <<xdma_perf, desc, state, pick, gone, trouble, starts>>
  BY DEF Perf!StopDelete, Perf!Goes, Perf!Cyclic
<1>a. /\ list \in Seq(Entries) /\ list' \in Seq(Entries)
      /\ \A u : u # "cyclic" /\ Perf!Listed(u) => Perf!Listed(u)'
      /\ pick[i] = "cyclic" /\ Len(list) = 1 /\ list[1] = "cyclic" => list' = <<>>
      /\ \A k, l \in DOMAIN list' :
           \E a, b \in DOMAIN list : list'[k] = list[a] /\ list'[l] = list[b] /\ (a = b => k = l)
  <2>1. list \in Seq(Entries)
    BY DEF PerfInv, PerfTyped, Entries
  <2>2. CASE pick[i] = "cyclic"
    BY <1>0, <2>1, <2>2, EntryDeleted
  <2>3. CASE pick[i] # "cyclic"
    BY <1>0, <2>1, <2>3 DEF Perf!Listed
  <2>4. QED BY <2>1, <2>2, <2>3
<1>1. PerfTyped'
  <2>1. perf_buf' \in BOOLEAN /\ wrecked' \in BOOLEAN /\ runs' \in BOOLEAN
    BY <1>0 DEF PerfInv, PerfTyped
  <2>2. QED BY <1>0, <1>a, <2>1 DEF PerfInv, PerfTyped, Entries
<1>2. OneCaller' /\ InFlight' /\ Queued'
  <2>1. OneCaller' /\ InFlight'
    BY <1>0, <1>a, PerfConstants DEF PerfInv, OneCaller, InFlight
  <2>2. Queued'
    BY <1>0, <1>a DEF PerfInv, Queued
  <2>3. QED BY <2>1, <2>2
<1>3. ASSUME Undisturbed' PROVE PerfAlone'
  <2>1. PerfAlone
    BY <1>0, <1>3 DEF Undisturbed, PerfInv
  <2>2. pick[i] = "cyclic" /\ Perf!Listed("cyclic") /\ xdma_perf
    BY <1>0, <2>1 DEF PerfAlone, Underway, OnList
  <2>3. list' = <<>>
    <3>1. list # <<>>
      BY <1>a, <2>2, OneEntry
    <3>2. Len(list) = 1
      BY <2>1, <3>1 DEF PerfAlone, OnList
    <3>3. list[1] = "cyclic"
      BY <1>a, <2>2, <3>2, OneEntry
    <3>4. QED BY <1>a, <2>2, <3>2, <3>3
  <2>4. Underway(i)'
    BY <1>0, <2>2, <2>3 DEF Underway, PerfInv, PerfTyped
  <2>5. ~Perf!Listed("cyclic")'
    BY <2>3 DEF Perf!Listed
  <2>6. OnList' /\ ~gone' /\ ~wrecked'
    BY <1>0, <2>1, <2>2, <2>3, <2>5 DEF PerfAlone, OnList
  <2>7. QED BY <1>0, <2>1, <2>4, <2>6, AskerGoes, OthersIdle DEF PerfInv
<1>4. Perf!HarmNeedsCompany'
  BY <1>0, <1>3 DEF Perf!HarmNeedsCompany, Undisturbed, PerfAlone
<1>5. QED BY <1>1, <1>2, <1>3, <1>4, Zenon DEF PerfInv

LEMMA StopFreeStep ==
  ASSUME PerfInv, NEW i \in Askers, Perf!StopFree(i), ~wrecked PROVE PerfInv'
<1>0. /\ where[i] = "copy" /\ where' = [where EXCEPT ![i] = "idle"]
      /\ xdma_perf' = FALSE /\ wrecked' = (pick[i] # "cyclic")
      /\ UNCHANGED <<perf_buf, list, runs, desc, slots, state, pick, gone, trouble, starts>>
  BY DEF Perf!StopFree, Perf!Goes, Perf!Cyclic
<1>1. PerfTyped'
  BY <1>0 DEF PerfInv, PerfTyped
<1>2. OneCaller' /\ InFlight' /\ Queued'
  BY <1>0, RequestsKept DEF PerfInv
<1>3. ASSUME Undisturbed' PROVE PerfAlone'
  <2>1. PerfAlone /\ list \in Seq(Entries)
    BY <1>0, <1>3 DEF Undisturbed, PerfInv, PerfTyped, Entries
  <2>2. pick[i] = "cyclic" /\ ~perf_buf /\ list = <<>> /\ slots # "cyclic"
    BY <1>0, <2>1 DEF PerfAlone, Underway
  <2>3. ~Perf!Listed("cyclic")
    BY <2>1, <2>2, OneEntry
  <2>5. Settled'
    BY <1>0, <2>2, <2>3 DEF Settled, Perf!Listed, PerfInv, PerfTyped
  <2>6. Underway(i)'
    BY <1>0 DEF Underway, PerfInv, PerfTyped
  <2>7. OnList' /\ ~gone' /\ ~wrecked'
    BY <1>0, <2>1, <2>2, <2>3 DEF PerfAlone, OnList, Perf!Listed
  <2>8. QED BY <1>0, <2>1, <2>5, <2>6, <2>7, AskerGoes, OthersIdle DEF PerfInv
<1>4. Perf!HarmNeedsCompany'
  BY <1>0, <1>3 DEF Perf!HarmNeedsCompany, Undisturbed, PerfAlone
<1>5. QED BY <1>1, <1>2, <1>3, <1>4, Zenon DEF PerfInv

\* Nobody's request is under way: the one that comes is the only one.
LEMMA RequestStep ==
  ASSUME PerfInv, NEW r \in Requests, Perf!Request(r), ~wrecked PROVE PerfInv'
<1>0. /\ ~Perf!Busy /\ ~gone /\ slots' \in {slots, r}
      /\ list' = Append(list, r) /\ runs' = TRUE /\ state' = [state EXCEPT ![r] = "submitted"]
      /\ trouble' = trouble \cup (IF xdma_perf THEN {"shared"} ELSE {})
      /\ UNCHANGED <<xdma_perf, perf_buf, desc, where, pick, gone, wrecked, starts>>
  BY DEF Perf!Request, Perf!Enqueue
<1>a. /\ list \in Seq(Entries)
      /\ list' \in Seq(Entries) /\ \A u : Perf!Listed(u)' <=> Perf!Listed(u) \/ u = r
      /\ list = <<>> => Len(list') = 1 /\ list'[1] = r
      /\ \A k \in DOMAIN list' : \/ k \in DOMAIN list /\ list'[k] = list[k]
                                 \/ k = Len(list) + 1 /\ list'[k] = r
  BY <1>0, EntryAdded DEF PerfInv, PerfTyped, Entries
<1>b. (\A q \in Requests : state[q] = "idle") /\ r # "cyclic"
  BY <1>0, PerfConstants DEF Perf!Busy
<1>c. state'[r] = "submitted" /\ \A q \in Requests : q # r => state'[q] = "idle"
  BY <1>0, <1>b DEF PerfInv, PerfTyped
<1>1. PerfTyped'
  BY <1>0, <1>a DEF PerfInv, PerfTyped, Entries
<1>2. OneCaller' /\ InFlight' /\ Queued'
  <2>1. OneCaller' /\ InFlight'
    BY <1>a, <1>c DEF OneCaller, InFlight
  <2>2. \A k \in DOMAIN list : list[k] \notin Requests
    BY <1>b DEF PerfInv, Queued
  <2>3. Queued'
    BY <1>a, <1>c, <2>2 DEF Queued
  <2>4. QED BY <2>1, <2>3
<1>3. ASSUME Undisturbed' PROVE PerfAlone'
  <2>1. ~xdma_perf /\ trouble' = trouble /\ Undisturbed
    BY <1>0, <1>3 DEF Undisturbed
  <2>2. PerfAlone
    BY <2>1 DEF PerfInv
  <2>3. ~Perf!Listed("cyclic") /\ list = <<>>
    <3>1. ~Perf!Listed("cyclic")
      BY <2>1, <2>2 DEF PerfAlone, OnList
    <3>2. ASSUME list # <<>> PROVE FALSE
      BY <1>a, <1>b, <2>2, <3>1, <3>2, OneEntry DEF PerfAlone, OnList, Entries
    <3>3. QED BY <3>1, <3>2
  <2>4. OnList'
    BY <1>0, <1>a, <1>b, <1>c, <2>1, <2>2, <2>3 DEF PerfAlone, OnList
  <2>5. ASSUME NEW i \in Askers PROVE Underway(i)'
    <3>1. where[i] \notin {"fill", "queue", "stop", "copy"}
      BY <2>1, <2>2, <2>3 DEF PerfAlone, Underway
    <3>2. QED BY <1>0, <2>2, <3>1 DEF PerfAlone, Underway
  <2>6. ~Perf!Listed("cyclic")'
    BY <1>a, <1>b, <2>3
  <2>7. (\A i \in Askers : where[i] = "idle") => Settled'
    BY <1>0, <2>1, <2>2, <2>3, <2>6 DEF PerfAlone, Settled, Perf!Listed
  <2>8. QED BY <1>0, <2>2, <2>4, <2>5, <2>7, AskersStay DEF PerfAlone
<1>4. Perf!HarmNeedsCompany'
  BY <1>0 DEF Perf!HarmNeedsCompany
<1>5. QED BY <1>1, <1>2, <1>3, <1>4, Zenon DEF PerfInv

\* A request that leaves the list leaves it empty, and the measurement as it was.
LEMMA RequestLeaves ==
  ASSUME PerfInv, Undisturbed, NEW r \in Requests, Perf!Listed(r), Head(list) = r,
         list' = Tail(list), NEW what, state' = [state EXCEPT ![r] = what],
         slots' = slots \/ slots' = "free",
         UNCHANGED <<xdma_perf, perf_buf, where, pick, gone, wrecked, trouble>>
  PROVE  PerfAlone'
<1>1. PerfAlone /\ list \in Seq(Entries) /\ r # "cyclic" /\ Perf!Listed(r)
  BY PerfConstants DEF PerfInv, PerfTyped, Entries
<1>2. Len(list) = 1 /\ list # <<>> /\ list[1] = r
  <2>1. list # <<>>
    BY <1>1, OneEntry
  <2>2. Len(list) = 1
    BY <1>1, <2>1 DEF PerfAlone, OnList
  <2>3. QED BY <1>1, <2>1, <2>2, OneEntry
<1>3. list' = <<>> /\ ~Perf!Listed("cyclic")
  <2>1. list' = <<>>
    BY <1>1, <1>2, HeadGone
  <2>2. QED BY <1>1, <1>2, <2>1, OneEntry
<1>4. ~Perf!Listed("cyclic")'
  BY <1>3 DEF Perf!Listed
<1>5. state[r] = "submitted"
  <2>1. 1 \in DOMAIN list
    BY <1>1, <1>2, HeadGone
  <2>2. QED BY <1>1, <1>2, <2>1 DEF PerfInv, Queued, PerfAlone
<1>6. ~xdma_perf
  BY <1>1, <1>5 DEF PerfAlone, OnList
<1>7. OnList'
  BY <1>1, <1>3, <1>4, <1>6 DEF PerfAlone, OnList
<1>8. ASSUME NEW i \in Askers PROVE Underway(i)'
  <2>1. where[i] \notin {"fill", "queue", "stop", "copy"}
    BY <1>1, <1>3, <1>6 DEF PerfAlone, Underway
  <2>2. QED BY <1>1, <2>1 DEF PerfAlone, Underway
<1>9. (\A i \in Askers : where[i] = "idle") => Settled'
  BY <1>1, <1>3, <1>4 DEF PerfAlone, Settled, Perf!Listed
<1>10. QED BY <1>1, <1>7, <1>8, <1>9, AskersStay DEF PerfAlone

\* Nobody but the caller of the request at the head had a request there.
LEMMA HeadTaken ==
  ASSUME PerfInv, ~wrecked, NEW r \in Requests, list # <<>>, Head(list) = r,
         list' = Tail(list), NEW what \in {"done", "idle"},
         state' = [state EXCEPT ![r] = what]
  PROVE  list' \in Seq(Entries) /\ OneCaller' /\ InFlight' /\ Queued'
<1>1. /\ list' \in Seq(Entries) /\ 1 \in DOMAIN list /\ list[1] = r
      /\ \A u : u # r /\ Perf!Listed(u) => Perf!Listed(u)'
      /\ \A k \in DOMAIN list' : k \in Nat \ {0} /\ k + 1 \in DOMAIN list /\ list'[k] = list[k + 1]
  BY HeadGone DEF PerfInv, PerfTyped, Entries
<1>2. state[r] = "submitted" /\ \A k \in DOMAIN list : list[k] \in Requests => k = 1
  BY <1>1 DEF PerfInv, Queued
<1>3. state'[r] = what /\ \A q \in Requests : q # r => state'[q] = state[q] /\ state[q] = "idle"
  BY <1>2 DEF PerfInv, PerfTyped, OneCaller
<1>4. OneCaller'
  BY <1>3 DEF OneCaller
<1>5. InFlight'
  BY <1>3 DEF InFlight
<1>6. \A k \in DOMAIN list' : list'[k] \notin Requests
  <2>1. ASSUME NEW k \in DOMAIN list' PROVE list'[k] \notin Requests
    <3>1. k + 1 # 1 /\ k + 1 \in DOMAIN list /\ list'[k] = list[k + 1]
      BY <1>1
    <3>2. QED BY <1>2, <3>1
  <2>2. QED BY <2>1
<1>7. QED BY <1>1, <1>4, <1>5, <1>6 DEF Queued

LEMMA PerfCompleteStep ==
  ASSUME PerfInv, Perf!Complete, ~wrecked PROVE PerfInv'
<1>0. /\ list # <<>> /\ Head(list) # "cyclic"
      /\ state' = [state EXCEPT ![Head(list)] = "done"]
      /\ list' = Tail(list) /\ runs' = (Len(list) > 1)
      /\ UNCHANGED <<xdma_perf, perf_buf, desc, slots, where, pick, gone, trouble, wrecked, starts>>
  BY DEF Perf!Complete, Perf!Cyclic
<1>a. Head(list) \in Requests /\ Perf!Listed(Head(list))
  <2>1. Head(list) \in Entries /\ 1 \in DOMAIN list /\ Head(list) = list[1]
    BY <1>0, HeadGone DEF PerfInv, PerfTyped, Entries
  <2>2. QED BY <1>0, <2>1 DEF Entries, Perf!Listed
<1>2. list' \in Seq(Entries) /\ OneCaller' /\ InFlight' /\ Queued'
  BY <1>0, <1>a, HeadTaken
<1>1. PerfTyped'
  BY <1>0, <1>a, <1>2 DEF PerfInv, PerfTyped, Entries
<1>3. ASSUME Undisturbed' PROVE PerfAlone'
  <2>1. Undisturbed
    BY <1>0, <1>3 DEF Undisturbed
  <2>2. QED BY <1>0, <1>a, <2>1, RequestLeaves
<1>4. Perf!HarmNeedsCompany'
  BY <1>0 DEF Perf!HarmNeedsCompany
<1>5. QED BY <1>1, <1>2, <1>3, <1>4, Zenon DEF PerfInv

LEMMA ReapStep ==
  ASSUME PerfInv, NEW r \in Requests, Perf!Reap(r), ~wrecked PROVE PerfInv'
<1>0. /\ state[r] = "done" /\ state' = [state EXCEPT ![r] = "idle"]
      /\ slots' = (IF slots = r THEN "free" ELSE slots)
      /\ UNCHANGED <<xdma_perf, perf_buf, list, runs, desc, where, pick, gone, trouble, wrecked,
                     starts>>
  BY DEF Perf!Reap
<1>a. state'[r] = "idle" /\ \A q \in Requests : q # r => state'[q] = state[q]
  BY <1>0 DEF PerfInv, PerfTyped
<1>1. PerfTyped'
  BY <1>0 DEF PerfInv, PerfTyped
<1>2. OneCaller' /\ InFlight' /\ Queued'
  BY <1>0, <1>a DEF PerfInv, OneCaller, InFlight, Queued, Perf!Listed
<1>3. ASSUME Undisturbed' PROVE PerfAlone'
  <2>1. PerfAlone
    BY <1>0, <1>3 DEF Undisturbed, PerfInv
  <2>2. OnList'
    <3>1. list # <<>> => Len(list) = 1 /\ (list[1] = "cyclic" \/ state'[list[1]] = "submitted")
      <4>1. list # <<>> => Len(list) = 1 /\ (list[1] = "cyclic" \/ state[list[1]] = "submitted")
        BY <2>1 DEF PerfAlone, OnList
      <4>2. ASSUME list # <<>>, list[1] # "cyclic" PROVE list[1] \in Requests /\ list[1] # r
        <5>1. list[1] \in Entries
          BY <4>1, <4>2, OneEntry DEF PerfInv, PerfTyped, Entries
        <5>2. QED BY <1>0, <4>1, <4>2, <5>1 DEF Entries
      <4>3. QED BY <1>a, <4>1, <4>2
    <3>2. QED BY <1>0, <1>a, <2>1, <3>1 DEF PerfAlone, OnList, Perf!Listed
  <2>3. ASSUME NEW i \in Askers PROVE Underway(i)'
    BY <1>0, <2>1 DEF PerfAlone, Underway, Perf!Listed
  <2>4. (\A i \in Askers : where[i] = "idle") => Settled'
    BY <1>0, <2>1 DEF PerfAlone, Settled, Perf!Listed
  <2>5. QED BY <1>0, <2>1, <2>2, <2>3, <2>4, AskersStay DEF PerfAlone
<1>4. Perf!HarmNeedsCompany'
  BY <1>0 DEF Perf!HarmNeedsCompany
<1>5. QED BY <1>1, <1>2, <1>3, <1>4, Zenon DEF PerfInv

LEMMA GiveUpStep ==
  ASSUME PerfInv, NEW r \in Requests, Perf!GiveUp(r), ~wrecked PROVE PerfInv'
<1>0. /\ state[r] = "submitted"
      /\ list' = (IF Head(list) = r THEN Tail(list) ELSE list)
      /\ runs' = FALSE /\ wrecked' = (Head(list) # r)
      /\ state' = [state EXCEPT ![r] = "idle"]
      /\ slots' = (IF slots = r THEN "free" ELSE slots)
      /\ UNCHANGED <<xdma_perf, perf_buf, desc, where, pick, gone, trouble, starts>>
  BY DEF Perf!GiveUp
<1>a. list \in Seq(Entries) /\ Perf!Listed(r) /\ list # <<>>
  <2>1. list \in Seq(Entries) /\ Perf!Listed(r)
    BY <1>0 DEF PerfInv, InFlight, PerfTyped, Entries
  <2>2. QED BY <2>1, OneEntry
<1>b. state'[r] = "idle" /\ \A q \in Requests : q # r => state'[q] = "idle"
  BY <1>0 DEF PerfInv, PerfTyped, OneCaller
<1>2. list' \in Seq(Entries) /\ OneCaller' /\ InFlight' /\ Queued'
  <2>1. CASE Head(list) = r
    BY <1>0, <1>a, <2>1, HeadTaken
  <2>2. CASE Head(list) # r
    BY <1>0, <1>a, <1>b, <2>2 DEF OneCaller, InFlight, Queued
  <2>3. QED BY <2>1, <2>2
<1>1. PerfTyped'
  <2>1. wrecked' \in BOOLEAN
    BY <1>0
  <2>2. QED BY <1>0, <1>2, <2>1 DEF PerfInv, PerfTyped, Entries
<1>3. ASSUME Undisturbed' PROVE PerfAlone'
  <2>1. PerfAlone /\ Undisturbed
    BY <1>0, <1>3 DEF Undisturbed, PerfInv
  <2>2. Head(list) = r
    <3>1. Len(list) = 1
      BY <1>a, <2>1 DEF PerfAlone, OnList
    <3>2. QED BY <1>a, <3>1, OneEntry
  <2>3. UNCHANGED wrecked
    BY <1>0, <2>2 DEF PerfInv, PerfTyped
  <2>4. QED BY <1>0, <1>a, <2>1, <2>2, <2>3, RequestLeaves
<1>4. Perf!HarmNeedsCompany'
  BY <1>0, <1>3 DEF Perf!HarmNeedsCompany, Undisturbed, PerfAlone
<1>5. QED BY <1>1, <1>2, <1>3, <1>4, Zenon DEF PerfInv

LEMMA PerfErrorStep ==
  ASSUME PerfInv, Perf!PerfError, ~wrecked PROVE PerfInv'
<1>0. /\ list # <<>> /\ Head(list) = "cyclic" /\ list' = Tail(list)
      /\ runs' = (Len(list) > 1) /\ trouble' = trouble \cup {"error"}
      /\ UNCHANGED <<xdma_perf, perf_buf, desc, slots, state, where, pick, gone, wrecked, starts>>
  BY DEF Perf!PerfError, Perf!Cyclic
<1>a. /\ list' \in Seq(Entries)
      /\ \A u : u # "cyclic" /\ Perf!Listed(u) => Perf!Listed(u)'
      /\ \A k \in DOMAIN list' : k \in Nat \ {0} /\ k + 1 \in DOMAIN list /\ list'[k] = list[k + 1]
  BY <1>0, HeadGone DEF PerfInv, PerfTyped, Entries
<1>1. PerfTyped'
  BY <1>0, <1>a DEF PerfInv, PerfTyped, Entries
<1>2. OneCaller' /\ InFlight' /\ Queued'
  <2>1. OneCaller' /\ InFlight'
    BY <1>0, <1>a, PerfConstants DEF PerfInv, OneCaller, InFlight
  <2>2. ASSUME NEW k \in DOMAIN list', NEW l \in DOMAIN list',
               list'[k] \in Requests, list'[l] \in Requests
        PROVE  k = l /\ state[list'[k]] = "submitted"
    <3>1. k + 1 = l + 1 /\ state[list[k + 1]] = "submitted"
      BY <1>a, <2>2 DEF PerfInv, Queued
    <3>2. QED BY <1>a, <3>1
  <2>3. QED BY <1>0, <2>1, <2>2 DEF Queued
<1>3. ~Undisturbed'
  BY <1>0 DEF Undisturbed
<1>4. Perf!HarmNeedsCompany'
  BY <1>3 DEF Undisturbed, Perf!HarmNeedsCompany
<1>5. QED BY <1>1, <1>2, <1>3, <1>4, Zenon DEF PerfInv

LEMMA OfflineStep ==
  ASSUME PerfInv, Perf!Offline, ~wrecked PROVE PerfInv'
<1>0. /\ gone' = TRUE /\ runs' = FALSE /\ trouble' = trouble \cup {"offline"}
      /\ UNCHANGED <<xdma_perf, perf_buf, list, desc, slots, state, where, pick, wrecked, starts>>
  BY DEF Perf!Offline
<1>1. PerfTyped'
  BY <1>0 DEF PerfInv, PerfTyped
<1>2. OneCaller' /\ InFlight' /\ Queued'
  BY <1>0, RequestsKept DEF PerfInv
<1>3. ~Undisturbed'
  BY <1>0 DEF Undisturbed
<1>4. Perf!HarmNeedsCompany'
  BY <1>3 DEF Undisturbed, Perf!HarmNeedsCompany
<1>5. QED BY <1>1, <1>2, <1>3, <1>4, Zenon DEF PerfInv

\* Another use of the device.
LEMMA PerfStands ==
  ASSUME PerfInv, UNCHANGED perfVars PROVE PerfInv'
<1>1. PerfTyped'
  BY DEF perfVars, PerfInv, PerfTyped
<1>2. OneCaller' /\ InFlight' /\ Queued'
  BY DEF perfVars, PerfInv, OneCaller, InFlight, Queued, Perf!Listed
<1>3. ASSUME Undisturbed' PROVE PerfAlone'
  <2>1. PerfAlone
    BY <1>3 DEF perfVars, PerfInv, Undisturbed
  <2>2. OnList'
    BY <2>1 DEF perfVars, PerfAlone, OnList, Perf!Listed
  <2>3. ASSUME NEW i \in Askers PROVE Underway(i)'
    BY <2>1 DEF perfVars, PerfAlone, Underway, Perf!Listed
  <2>4. Settled => Settled'
    BY DEF perfVars, Settled, Perf!Listed
  <2>5. QED BY <2>1, <2>2, <2>3, <2>4, AskersStay DEF perfVars, PerfAlone
<1>4. Perf!HarmNeedsCompany'
  BY DEF perfVars, PerfInv, Perf!HarmNeedsCompany
<1>5. QED BY <1>1, <1>2, <1>3, <1>4, Zenon DEF PerfInv

LEMMA PerfStep ==
  ASSUME PerfInv, [NextUse]_<<use, vars, sgVars, perfVars>> PROVE PerfInv'
<1>1. CASE Perf!Next
  <2>1. ~wrecked
    BY <1>1 DEF Perf!Next
  <2>2. ASSUME NEW i \in Askers, Perf!Asker(i) PROVE PerfInv'
    BY <2>1, <2>2, StartCheckStep, StartClaimStep, RefusedStep, FillStep, PerfQueueStep,
       PerfRefusedStep, StopPickStep, StopDeleteStep, StopFreeStep DEF Perf!Asker
  <2>3. ASSUME NEW r \in Requests, Perf!Request(r) \/ Perf!Reap(r) \/ Perf!GiveUp(r)
        PROVE  PerfInv'
    BY <2>1, <2>3, RequestStep, ReapStep, GiveUpStep
  <2>4. ASSUME Perf!Complete \/ Perf!PerfError \/ Perf!Offline PROVE PerfInv'
    BY <2>1, <2>4, PerfCompleteStep, PerfErrorStep, OfflineStep
  <2>5. QED BY <1>1, <2>2, <2>3, <2>4 DEF Perf!Next
<1>2. CASE UNCHANGED perfVars
  BY <1>2, PerfStands
<1>3. QED BY <1>1, <1>2 DEF NextUse

LEMMA PerfInitial ==
  ASSUME Perf!Init PROVE PerfInv
<1>1. PerfTyped
  <2>1. list \in Seq(Requests \cup {"cyclic"})
    BY DEF Perf!Init
  <2>2. starts \in 0 .. MaxStarts
    BY PerfConstants DEF Perf!Init
  <2>3. /\ state \in [Requests -> {"idle", "submitted", "done"}]
        /\ where \in [Askers -> {"idle", "claim", "fill", "queue", "stop", "copy"}]
        /\ pick \in [Askers -> Requests \cup {"cyclic", "none"}]
    BY DEF Perf!Init
  <2>4. /\ xdma_perf \in BOOLEAN /\ perf_buf \in BOOLEAN /\ runs \in BOOLEAN
        /\ desc \in BOOLEAN /\ gone \in BOOLEAN /\ wrecked \in BOOLEAN
        /\ slots \in Requests \cup {"cyclic", "free"}
        /\ trouble \subseteq {"refused", "raced", "shared", "error", "offline"}
    BY DEF Perf!Init
  <2>5. QED BY <2>1, <2>2, <2>3, <2>4, Zenon DEF PerfTyped
<1>2. OneCaller /\ InFlight /\ Queued
  BY DEF Perf!Init, OneCaller, InFlight, Queued
<1>3. \A u : ~Perf!Listed(u)
  BY DEF Perf!Init, Perf!Listed
<1>4. PerfAlone
  <2>1. Settled
    BY <1>3 DEF Perf!Init, Settled, Perf!Listed
  <2>2. OnList
    BY <1>3 DEF Perf!Init, OnList
  <2>3. ASSUME NEW i \in Askers PROVE Underway(i)
    BY DEF Perf!Init, Underway
  <2>4. QED BY <2>1, <2>2, <2>3 DEF Perf!Init, PerfAlone, OneAsker
<1>5. Perf!HarmNeedsCompany
  BY DEF Perf!Init, Perf!HarmNeedsCompany
<1>6. QED BY <1>1, <1>2, <1>4, <1>5, Zenon DEF PerfInv

LEMMA MeasurementsKept ==
  ASSUME PerfInv PROVE MeasuredAlone
<1>1. Perf!TypeOK
  <2>1. {xdma_perf, perf_buf, runs, desc, gone, wrecked} \subseteq BOOLEAN
    BY Zenon DEF PerfInv, PerfTyped
  <2>2. QED BY <2>1, Zenon DEF PerfInv, PerfTyped, Perf!TypeOK, Perf!Cyclic
<1>2. Perf!Whole
  BY DEF PerfInv, Undisturbed, PerfAlone, Settled, OnList, Perf!Whole, Perf!Cyclic
<1>3. Perf!RingKept
  BY DEF PerfInv, Undisturbed, PerfAlone, OnList, Perf!RingKept, Perf!Cyclic
<1>4. QED BY <1>1, <1>2, <1>3, Zenon DEF PerfInv, MeasuredAlone, Perf!MeasuredAlone

\* A measurement and its transfer and buffer come and go together as long as the engine is
\* used by one ioctl after the other and reports no error, its descriptors overwrite no
\* request's, and whatever is refused memory is misused only in company
\* (xdma_performance_submit, engine_cyclic_stop).
THEOREM MeasuresAlone == SpecDevice => []MeasuredAlone
<1>1. InitDevice => PerfInv
  BY PerfInitial DEF InitDevice
<1>2. PerfInv /\ [NextUse]_<<use, vars, sgVars, perfVars>> => PerfInv'
  BY PerfStep
<1>3. PerfInv => MeasuredAlone
  BY MeasurementsKept
<1>4. QED BY <1>1, <1>2, <1>3, PTL DEF SpecDevice
-----------------------------------------------------------------------------
\* Asynchronous calls (AsyncIo).

\* The elements of c on a queue, and whether none is on it twice.
WaitsIn(q, c) == {k \in Nat \ {0} : \E p \in 1 .. Len(q) : q[p] = <<c, k>>}
Distinct(q) == \A i, j \in 1 .. Len(q) : q[i] = q[j] => i = j

Waiting(c) == WaitsIn(queue, c)
Submitted(c) == 1 .. (at[c] - 1)
Handled(c) == (Submitted(c) \ Waiting(c)) \ refused[c]

\* The life of a call: its object lives from its beginning to its completion or
\* its refusal; it returns an error only before its last element was submitted.
Phases(c) ==
    /\ pc[c] = "idle" <=> caio[c] = "none"
    /\ pc[c] = "idle" => at[c] = 1
    /\ pc[c] # "over" => result[c] = "none"
    /\ pc[c] = "submit" \/ result[c] = "error" => at[c] <= count[c]
    /\ ended[c] > 0 => ended[c] = 1 /\ caio[c] = "freed" /\ at[c] > count[c]
    /\ caio[c] = "freed" /\ ended[c] = 0 => result[c] = "error"

\* An element that was submitted is on the queue, was refused, or was handled and
\* counted; what was moved are elements that were handled.  Nothing is left of a
\* call that was completed.
Accounted(c) ==
    /\ Waiting(c) \subseteq Submitted(c)
    /\ refused[c] \subseteq Submitted(c) \ Waiting(c)
    /\ pinned[c] \subseteq Waiting(c) \cup refused[c] \cup
                           (IF pc[c] = "submit" THEN {at[c]} ELSE {})
    /\ cmpl_cnt[c] = Cardinality(Handled(c))
    /\ moved[c] \subseteq Handled(c) /\ res[c] = Cardinality(moved[c])
    /\ ended[c] > 0 => Waiting(c) = {} /\ refused[c] = {}

\* A behaviour that has not gone wild, and one that has.
Sound == TypeOK /\ ~wild /\ Distinct(queue) /\ \A c \in Calls : Phases(c) /\ Accounted(c)
CallsInv == Sound \/ (wild /\ TypeOK /\ EndsOnceAtLast /\ FreedOnlyByRefusal)

USE DEF callVars, caioVars, setVars, engVars, vars, Elements
-----------------------------------------------------------------------------
LEMMA AppendWaits ==
    ASSUME NEW q \in Seq(Elements), NEW c \in Calls, NEW k \in Nat \ {0},
           Distinct(q), k \notin WaitsIn(q, c)
    PROVE  /\ Append(q, <<c, k>>) \in Seq(Elements) /\ Distinct(Append(q, <<c, k>>))
           /\ WaitsIn(Append(q, <<c, k>>), c) = WaitsIn(q, c) \cup {k}
           /\ \A d \in Calls : d # c => WaitsIn(Append(q, <<c, k>>), d) = WaitsIn(q, d)
<1> DEFINE a == Append(q, <<c, k>>)
<1>1. /\ a \in Seq(Elements) /\ Len(a) = Len(q) + 1 /\ Len(q) \in Nat
      /\ \A i \in 1 .. Len(q) : a[i] = q[i]
      /\ a[Len(q) + 1] = <<c, k>>
  OBVIOUS
<1> HIDE DEF a
<1>2. \A i \in 1 .. Len(q) : q[i] # <<c, k>>
  BY DEF WaitsIn
<1>3. Distinct(a)
  <2>1. ASSUME NEW i \in 1 .. Len(a), NEW j \in 1 .. Len(a), a[i] = a[j] PROVE i = j
    <3>1. i \in 1 .. Len(q) \/ i = Len(q) + 1
      BY <1>1
    <3>2. j \in 1 .. Len(q) \/ j = Len(q) + 1
      BY <1>1
    <3>3. CASE i \in 1 .. Len(q) /\ j \in 1 .. Len(q)
      BY <1>1, <2>1, <3>3 DEF Distinct
    <3>4. QED BY <1>1, <1>2, <2>1, <3>1, <3>2, <3>3
  <2>2. QED BY <2>1 DEF Distinct
<1>4. ASSUME NEW d \in Calls, NEW j \in Nat \ {0}
      PROVE  j \in WaitsIn(a, d) <=> j \in WaitsIn(q, d) \/ (d = c /\ j = k)
  <2>1. ASSUME NEW i \in 1 .. Len(a), a[i] = <<d, j>>
        PROVE  j \in WaitsIn(q, d) \/ (d = c /\ j = k)
    <3>1. CASE i = Len(q) + 1
      BY <1>1, <2>1, <3>1
    <3>2. CASE i # Len(q) + 1
      <4>1. i \in 1 .. Len(q) /\ q[i] = <<d, j>>
        BY <1>1, <2>1, <3>2
      <4>2. QED BY <4>1 DEF WaitsIn
    <3>3. QED BY <3>1, <3>2
  <2>2. ASSUME NEW i \in 1 .. Len(q), q[i] = <<d, j>> PROVE j \in WaitsIn(a, d)
    <3>1. i \in 1 .. Len(a) /\ a[i] = <<d, j>>
      BY <1>1, <2>2
    <3>2. QED BY <3>1 DEF WaitsIn
  <2>3. k \in WaitsIn(a, c)
    <3>1. Len(q) + 1 \in 1 .. Len(a)
      BY <1>1
    <3>2. QED BY <1>1, <3>1 DEF WaitsIn
  <2>4. j \in WaitsIn(a, d) => j \in WaitsIn(q, d) \/ (d = c /\ j = k)
    BY <2>1 DEF WaitsIn
  <2>5. j \in WaitsIn(q, d) => j \in WaitsIn(a, d)
    BY <2>2 DEF WaitsIn
  <2>6. QED BY <2>3, <2>4, <2>5
<1>5. \A d \in Calls : WaitsIn(a, d) \subseteq Nat \ {0} /\ WaitsIn(q, d) \subseteq Nat \ {0}
  BY DEF WaitsIn
<1>6. /\ WaitsIn(a, c) = WaitsIn(q, c) \cup {k}
      /\ \A d \in Calls : d # c => WaitsIn(a, d) = WaitsIn(q, d)
  BY <1>4, <1>5
<1>7. QED BY <1>1, <1>3, <1>6 DEF a

LEMMA TailWaits ==
    ASSUME NEW q \in Seq(Elements), q # <<>>, Distinct(q),
           NEW c \in Calls, NEW k \in Nat \ {0}, Head(q) = <<c, k>>
    PROVE  /\ Tail(q) \in Seq(Elements) /\ Distinct(Tail(q)) /\ k \in WaitsIn(q, c)
           /\ WaitsIn(Tail(q), c) = WaitsIn(q, c) \ {k}
           /\ \A d \in Calls : d # c => WaitsIn(Tail(q), d) = WaitsIn(q, d)
<1> DEFINE t == Tail(q)
<1>1. /\ t \in Seq(Elements) /\ Len(t) = Len(q) - 1 /\ Len(q) \in Nat /\ Len(q) > 0
      /\ \A i \in 1 .. Len(q) - 1 : t[i] = q[i + 1]
      /\ Head(q) = q[1] /\ Head(q) \in Elements
  OBVIOUS
<1> HIDE DEF t
<1>2. q[1] = <<c, k>>
  BY <1>1
<1>3. Distinct(t)
  <2>1. ASSUME NEW i \in 1 .. Len(t), NEW j \in 1 .. Len(t), t[i] = t[j] PROVE i = j
    <3>1. i + 1 \in 1 .. Len(q) /\ j + 1 \in 1 .. Len(q) /\ i \in Int /\ j \in Int
      BY <1>1
    <3>2. t[i] = q[i + 1] /\ t[j] = q[j + 1]
      BY <1>1
    <3>3. q[i + 1] = q[j + 1]
      BY <2>1, <3>2
    <3>4. i + 1 = j + 1
      BY <3>1, <3>3 DEF Distinct
    <3>5. QED BY <3>1, <3>4
  <2>2. QED BY <2>1 DEF Distinct
<1>4. k \in WaitsIn(q, c)
  <2>1. 1 \in 1 .. Len(q)
    BY <1>1
  <2>2. QED BY <1>2, <2>1 DEF WaitsIn
<1>5. ASSUME NEW d \in Calls, NEW j \in Nat \ {0}
      PROVE  j \in WaitsIn(t, d) <=> j \in WaitsIn(q, d) /\ ~(d = c /\ j = k)
  <2>1. ASSUME NEW i \in 1 .. Len(t), t[i] = <<d, j>>
        PROVE  j \in WaitsIn(q, d) /\ ~(d = c /\ j = k)
    <3>1. i + 1 \in 1 .. Len(q) /\ q[i + 1] = <<d, j>> /\ 1 \in 1 .. Len(q) /\ i + 1 # 1
      BY <1>1, <2>1
    <3>2. QED BY <1>2, <3>1 DEF WaitsIn, Distinct
  <2>2. ASSUME NEW i \in 1 .. Len(q), q[i] = <<d, j>>, ~(d = c /\ j = k)
        PROVE  j \in WaitsIn(t, d)
    <3>1. i # 1
      BY <1>2, <2>2
    <3>2. i - 1 \in 1 .. Len(t) /\ i - 1 \in 1 .. Len(q) - 1 /\ (i - 1) + 1 = i
      BY <1>1, <3>1
    <3>3. t[i - 1] = q[(i - 1) + 1]
      BY <1>1, <3>2
    <3>4. t[i - 1] = <<d, j>>
      BY <2>2, <3>2, <3>3
    <3>5. QED BY <3>2, <3>4 DEF WaitsIn
  <2>3. QED BY <2>1, <2>2 DEF WaitsIn
<1>6. \A d \in Calls : WaitsIn(t, d) \subseteq Nat \ {0} /\ WaitsIn(q, d) \subseteq Nat \ {0}
  BY DEF WaitsIn
<1>7. /\ WaitsIn(t, c) = WaitsIn(q, c) \ {k}
      /\ \A d \in Calls : d # c => WaitsIn(t, d) = WaitsIn(q, d)
  BY <1>5, <1>6
<1>8. QED BY <1>1, <1>3, <1>4, <1>7 DEF t

\* What has been handled is finite.
LEMMA HandledFinite ==
    ASSUME NEW n \in Nat, NEW S \in SUBSET (1 .. n)
    PROVE  IsFiniteSet(S) /\ Cardinality(S) \in Nat /\ Cardinality(S) <= n
           /\ (Cardinality(S) = n => S = 1 .. n)
<1>1. IsFiniteSet(1 .. n) /\ Cardinality(1 .. n) = n
  BY FS_Interval
<1>2. QED BY <1>1, FS_Subset, FS_CardinalityType

-----------------------------------------------------------------------------
LEMMA Numbers ==
    ASSUME TypeOK, NEW c \in Calls
    PROVE  at[c] \in Nat \ {0} /\ count[c] \in Nat /\ ended[c] \in Nat /\ at[c] <= count[c] + 1
           /\ cmpl_cnt[c] \in Nat /\ res[c] \in Nat
<1>1. at[c] \in 1 .. count[c] + 1 /\ count[c] \in Nat
  BY DEF TypeOK
<1>2. QED BY <1>1 DEF TypeOK

\* What the conjuncts say of one call when nothing of it changes.
LEMMA CallKept ==
    ASSUME NEW d \in Calls, Phases(d), Accounted(d),
           pc'[d] = pc[d], at'[d] = at[d], count'[d] = count[d], result'[d] = result[d],
           caio'[d] = caio[d], cmpl_cnt'[d] = cmpl_cnt[d], res'[d] = res[d],
           ended'[d] = ended[d], pinned'[d] = pinned[d], refused'[d] = refused[d],
           moved'[d] = moved[d], Waiting(d)' = Waiting(d)
    PROVE  Phases(d)' /\ Accounted(d)'
<1>1. Submitted(d)' = Submitted(d)
  BY DEF Submitted
<1>2. Handled(d)' = Handled(d)
  BY <1>1 DEF Handled
<1>3. QED BY <1>1, <1>2 DEF Phases, Accounted

\* Steps that leave the queue alone leave what waits alone.
LEMMA SameQueue ==
    ASSUME queue' = queue
    PROVE  /\ Distinct(queue)' <=> Distinct(queue)
           /\ \A d \in Calls : Waiting(d)' = Waiting(d)
BY DEF Waiting, WaitsIn, Distinct

LEMMA CallStep ==
    ASSUME Sound, AioAssumption, NEW c \in Calls, Call(c)
    PROVE  Sound'
<1> USE DEF Sound, Call
<1>1. TypeOK'
  <2>1. PICK n \in Lengths : count' = [count EXCEPT ![c] = n]
    OBVIOUS
  <2>2. n \in Nat /\ at[c] = 1
    BY <2>1 DEF AioAssumption, Phases
  <2>3. QED BY <2>1, <2>2 DEF TypeOK
<1>2. ASSUME NEW d \in Calls PROVE Phases(d)' /\ Accounted(d)'
  <2>1. CASE d = c
    <3>1. /\ at[c] = 1 /\ ended[c] = 0 /\ caio[c] = "none"
      <4>1. Phases(c) /\ TypeOK /\ pc[c] = "idle"
        OBVIOUS
      <4>2. at[c] = 1 /\ caio[c] = "none" /\ ~(ended[c] > 0)
        BY <4>1 DEF Phases
      <4>3. QED BY <4>1, <4>2, Numbers
    <3>2. Submitted(c)' = Submitted(c) /\ Handled(c)' = Handled(c)
      BY SameQueue DEF Submitted, Handled
    <3>3. /\ pc'[c] = "check" /\ caio'[c] = "live" /\ result'[c] = "none" /\ at' = at
      BY DEF TypeOK, Phases
    <3>4. Phases(c)'
      BY <3>1, <3>3 DEF Phases
    <3>5. Accounted(c)'
      BY <3>1, <3>2, <3>3, SameQueue DEF Accounted
    <3>6. QED BY <2>1, <3>4, <3>5
  <2>2. CASE d # c
    BY <2>2, CallKept, SameQueue DEF TypeOK
  <2>3. QED BY <2>1, <2>2
<1>3. QED BY <1>1, <1>2, SameQueue

\* Returning an error, with the object freed or left.
LEMMA RefusalStep ==
    ASSUME Sound, NEW c \in Calls, Misaligned(c) \/ MapFails(c)
    PROVE  Sound'
<1> USE DEF Sound, Misaligned, MapFails, MoreElements, Return
<1>1. TypeOK'
  BY DEF TypeOK
<1>2. ASSUME NEW d \in Calls PROVE Phases(d)' /\ Accounted(d)'
  <2>1. CASE d = c
    <3>1. /\ pc'[c] = "over" /\ result'[c] = "error" /\ at' = at /\ count' = count
          /\ caio'[c] \in {caio[c], "freed"} /\ ended' = ended
      BY DEF TypeOK
    <3>2. ended[c] = 0 /\ caio[c] # "none" /\ at[c] <= count[c]
      <4>1. Phases(c) /\ TypeOK /\ pc[c] = "check" /\ at[c] <= count[c]
        OBVIOUS
      <4>2. caio[c] # "none" /\ (ended[c] > 0 => at[c] > count[c])
        BY <4>1 DEF Phases
      <4>3. QED BY <4>1, <4>2, Numbers
    <3>3. Submitted(c)' = Submitted(c) /\ Handled(c)' = Handled(c)
      BY SameQueue DEF Submitted, Handled
    <3>4. Phases(c)'
      BY <3>1, <3>2 DEF Phases
    <3>5. Accounted(c)'
      BY <3>1, <3>3, SameQueue DEF Accounted
    <3>6. QED BY <2>1, <3>4, <3>5
  <2>2. CASE d # c
    BY <2>2, CallKept, SameQueue DEF TypeOK
  <2>3. QED BY <2>1, <2>2
<1>3. QED BY <1>1, <1>2, SameQueue

LEMMA MapStep ==
    ASSUME Sound, NEW c \in Calls, Map(c)
    PROVE  Sound'
<1> USE DEF Sound, Map, MoreElements
<1>1. TypeOK'
  BY DEF TypeOK
<1>2. ASSUME NEW d \in Calls PROVE Phases(d)' /\ Accounted(d)'
  <2>1. CASE d = c
    <3>1. /\ pc'[c] = "submit" /\ pinned'[c] = pinned[c] \cup {at[c]}
      BY DEF TypeOK
    <3>2. Submitted(c)' = Submitted(c) /\ Handled(c)' = Handled(c)
      BY SameQueue DEF Submitted, Handled
    <3>3. Phases(c)'
      BY <3>1 DEF Phases
    <3>4. Accounted(c)'
      BY <3>1, <3>2, SameQueue DEF Accounted
    <3>5. QED BY <2>1, <3>3, <3>4
  <2>2. CASE d # c
    BY <2>2, CallKept, SameQueue DEF TypeOK
  <2>3. QED BY <2>1, <2>2
<1>3. QED BY <1>1, <1>2, SameQueue

LEMMA ReturnStep ==
    ASSUME Sound, NEW c \in Calls, ReturnQueued(c)
    PROVE  Sound'
<1> USE DEF Sound, ReturnQueued, Return
<1>1. TypeOK'
  BY DEF TypeOK
<1>2. ASSUME NEW d \in Calls PROVE Phases(d)' /\ Accounted(d)'
  <2>1. CASE d = c
    <3>1. /\ pc'[c] = "over" /\ result'[c] = "queued"
      BY DEF TypeOK
    <3>2. Submitted(c)' = Submitted(c) /\ Handled(c)' = Handled(c)
      BY SameQueue DEF Submitted, Handled
    <3>3. result[c] = "none" /\ caio[c] # "none"
      BY DEF Phases
    <3>4. Phases(c)'
      BY <3>1, <3>3 DEF Phases
    <3>5. Accounted(c)'
      BY <3>1, <3>2, SameQueue DEF Accounted
    <3>6. QED BY <2>1, <3>4, <3>5
  <2>2. CASE d # c
    BY <2>2, CallKept, SameQueue DEF TypeOK
  <2>3. QED BY <2>1, <2>2
<1>3. QED BY <1>1, <1>2, SameQueue

\* An element that is refused, or put on the queue: it was not there before.
LEMMA SubmittedGrows ==
    ASSUME Sound, NEW c \in Calls, pc[c] = "submit", at'[c] = at[c] + 1
    PROVE  /\ Submitted(c)' = Submitted(c) \cup {at[c]} /\ at[c] \notin Submitted(c)
           /\ at[c] \notin Waiting(c) /\ at[c] \notin refused[c]
           /\ at[c] \in Nat \ {0} /\ at[c] <= count[c] /\ ended[c] = 0
<1>1. TypeOK /\ Phases(c) /\ Accounted(c)
  BY DEF Sound
<1>2. at[c] \in Nat \ {0} /\ at[c] <= count[c] /\ ended[c] = 0
  BY <1>1, Numbers DEF Phases
<1>3. Submitted(c)' = Submitted(c) \cup {at[c]} /\ at[c] \notin Submitted(c)
  BY <1>2 DEF Submitted
<1>4. QED BY <1>1, <1>2, <1>3 DEF Accounted

\* The numbers of the next element keep their types.
LEMMA NextTyped ==
    ASSUME Sound, NEW c \in Calls, pc[c] = "submit", NextElement(c)
    PROVE  /\ pc' \in [Calls -> {"idle", "check", "submit", "over"}]
           /\ at' \in [Calls -> Nat] /\ \A d \in Calls : at'[d] \in 1 .. count'[d] + 1
           /\ at'[c] = at[c] + 1 /\ pc'[c] = "check"
           /\ count' = count /\ result' = result
           /\ \A d \in Calls : d # c => at'[d] = at[d] /\ pc'[d] = pc[d]
<1>1. TypeOK /\ Phases(c)
  BY DEF Sound
<1>2. at'[c] = at[c] + 1 /\ at[c] \in Nat \ {0} /\ at[c] <= count[c] /\ count[c] \in Nat
  BY <1>1, Numbers DEF NextElement, Phases, TypeOK
<1>3. ASSUME NEW d \in Calls PROVE at'[d] \in 1 .. count'[d] + 1
  <2>1. CASE d = c
    BY <1>2, <2>1 DEF NextElement
  <2>2. CASE d # c
    BY <1>1, <2>2 DEF NextElement, TypeOK
  <2>3. QED BY <2>1, <2>2
<1>4. QED BY <1>1, <1>2, <1>3 DEF NextElement, TypeOK

LEMMA QueueGrows ==
    ASSUME TypeOK, Distinct(queue), NEW c \in Calls, NEW k \in Nat \ {0}, k \notin Waiting(c),
           queue' = Append(queue, <<c, k>>)
    PROVE  /\ queue' \in Seq(Elements) /\ Distinct(queue)'
           /\ Waiting(c)' = Waiting(c) \cup {k}
           /\ \A d \in Calls : d # c => Waiting(d)' = Waiting(d)
<1> DEFINE a == Append(queue, <<c, k>>)
<1>1. queue \in Seq(Elements) /\ k \notin WaitsIn(queue, c)
  BY DEF TypeOK, Waiting
<1>2. /\ a \in Seq(Elements) /\ Distinct(a)
      /\ WaitsIn(a, c) = WaitsIn(queue, c) \cup {k}
      /\ \A d \in Calls : d # c => WaitsIn(a, d) = WaitsIn(queue, d)
  BY <1>1, AppendWaits
<1>3. queue' = a
  OBVIOUS
<1> HIDE DEF a
<1>4. Distinct(queue)' <=> Distinct(a)
  BY <1>3 DEF Distinct
<1>5. \A d \in Calls : Waiting(d)' = WaitsIn(a, d) /\ Waiting(d) = WaitsIn(queue, d)
  BY <1>3 DEF WaitsIn, Waiting
<1>6. QED BY <1>2, <1>3, <1>4, <1>5

LEMMA SubmitRefusedStep ==
    ASSUME Sound, NEW c \in Calls, SubmitRefused(c)
    PROVE  Sound'
<1> USE DEF Sound, SubmitRefused, NextElement
<1>1. pc[c] = "submit" /\ at'[c] = at[c] + 1
  BY DEF TypeOK
<1>2. TypeOK'
  <2>1. /\ pc' \in [Calls -> {"idle", "check", "submit", "over"}]
        /\ at' \in [Calls -> Nat] /\ \A d \in Calls : at'[d] \in 1 .. count'[d] + 1
        /\ count' = count /\ result' = result
    <3> HIDE DEF Sound, NextElement
    <3>1. QED BY <1>1, NextTyped
  <2>2. refused' \in [Calls -> SUBSET Nat]
    BY <1>1, SubmittedGrows DEF TypeOK
  <2>3. QED BY <2>1, <2>2 DEF TypeOK
<1>3. ASSUME NEW d \in Calls PROVE Phases(d)' /\ Accounted(d)'
  <2>1. CASE d = c
    <3>1. pc'[c] = "check" /\ refused'[c] = refused[c] \cup {at[c]}
      BY DEF TypeOK
    <3>2. Waiting(c)' = Waiting(c)
      BY SameQueue
    <3>3. Handled(c)' = Handled(c)
      BY <1>1, <3>1, <3>2, SubmittedGrows DEF Handled
    <3>4. Phases(c)'
      BY <1>1, <3>1, SubmittedGrows DEF Phases
    <3>5. Accounted(c)'
      BY <1>1, <3>1, <3>2, <3>3, SubmittedGrows DEF Accounted
    <3>6. QED BY <2>1, <3>4, <3>5
  <2>2. CASE d # c
    BY <2>2, CallKept, SameQueue DEF TypeOK
  <2>3. QED BY <2>1, <2>2
<1>4. QED BY <1>2, <1>3, SameQueue

LEMMA SubmitStep ==
    ASSUME Sound, NEW c \in Calls, Submit(c)
    PROVE  Sound'
<1> USE DEF Sound, Submit, NextElement
<1>0. /\ queue' = Append(queue, <<c, at[c]>>) /\ queue \in Seq(Elements) /\ Distinct(queue)
      /\ ~wild'
  BY DEF TypeOK
<1>1. pc[c] = "submit" /\ at'[c] = at[c] + 1
  BY DEF TypeOK
<1>2. at[c] \in Nat \ {0} /\ at[c] \notin Waiting(c)
  BY <1>1, SubmittedGrows
<1>3. /\ queue' \in Seq(Elements) /\ Distinct(queue)'
      /\ Waiting(c)' = Waiting(c) \cup {at[c]}
      /\ \A d \in Calls : d # c => Waiting(d)' = Waiting(d)
  <2> HIDE DEF Sound, Submit
  <2>1. TypeOK
    BY DEF Sound
  <2>2. QED BY <1>0, <1>2, <2>1, QueueGrows
<1>4. TypeOK'
  <2>1. /\ pc' \in [Calls -> {"idle", "check", "submit", "over"}]
        /\ at' \in [Calls -> Nat] /\ \A d \in Calls : at'[d] \in 1 .. count'[d] + 1
        /\ count' = count /\ result' = result
    <3> HIDE DEF Sound, NextElement
    <3>1. QED BY <1>1, NextTyped
  <2>2. QED BY <1>3, <2>1 DEF TypeOK
<1>5. ASSUME NEW d \in Calls PROVE Phases(d)' /\ Accounted(d)'
  <2>1. CASE d = c
    <3>1. pc'[c] = "check"
      BY DEF TypeOK
    <3>2. Waiting(c)' = Waiting(c) \cup {at[c]}
      BY <1>3
    <3>3. Handled(c)' = Handled(c)
      BY <1>1, <3>1, <3>2, SubmittedGrows DEF Handled
    <3>4. Phases(c)'
      BY <1>1, <3>1, SubmittedGrows DEF Phases
    <3>5. Accounted(c)'
      BY <1>1, <3>1, <3>2, <3>3, SubmittedGrows DEF Accounted
    <3>6. QED BY <2>1, <3>4, <3>5
  <2>2. CASE d # c
    <3>1. Waiting(d)' = Waiting(d)
      BY <1>3, <2>2
    <3>2. QED BY <2>2, <3>1, CallKept DEF TypeOK
  <2>3. QED BY <2>1, <2>2
<1> HIDE DEF Submit
<1>6. QED BY <1>0, <1>3, <1>4, <1>5

\* Nothing of a call that was completed is left; it has one outcome.
LEMMA LeftNothing ==
    ASSUME Sound, NEW d \in Calls
    PROVE  /\ ended[d] + (IF result[d] = "error" THEN 1 ELSE 0) <= 1
           /\ ended[d] > 0 => /\ at[d] > count[d] /\ pinned[d] = {} /\ refused[d] = {}
                              /\ Waiting(d) = {} /\ res[d] = Cardinality(moved[d])
<1>1. TypeOK /\ Phases(d) /\ Accounted(d)
  BY DEF Sound
<1>2. /\ at[d] \in Nat /\ count[d] \in Nat /\ ended[d] \in Nat
      /\ result[d] = "error" => at[d] <= count[d]
      /\ pc[d] = "submit" => at[d] <= count[d]
      /\ ended[d] > 0 => ended[d] = 1 /\ at[d] > count[d]
  BY <1>1, Numbers DEF Phases
<1>3. ended[d] + (IF result[d] = "error" THEN 1 ELSE 0) <= 1
  <2>1. CASE result[d] = "error"
    <3>1. ended[d] = 0
      BY <1>2, <2>1
    <3>2. QED BY <2>1, <3>1
  <2>2. CASE result[d] # "error"
    BY <1>2, <2>2
  <2>3. QED BY <2>1, <2>2
<1>4. ASSUME ended[d] > 0 PROVE pinned[d] = {} /\ refused[d] = {} /\ Waiting(d) = {}
  <2>1. pc[d] # "submit"
    BY <1>2, <1>4
  <2>2. QED BY <1>1, <1>4, <2>1 DEF Accounted
<1>5. QED BY <1>1, <1>2, <1>3, <1>4 DEF Accounted

LEMMA NotOnQueue ==
    ASSUME NEW d \in Calls, NEW q \in Seq(Elements), WaitsIn(q, d) = {}
    PROVE  \A p \in DOMAIN q : q[p][1] # d
<1>1. ASSUME NEW p \in DOMAIN q, q[p][1] = d PROVE FALSE
  <2>1. p \in 1 .. Len(q) /\ q[p] \in Elements
    BY <1>1
  <2>2. PICK j \in Nat \ {0} : q[p] = <<d, j>>
    BY <1>1, <2>1
  <2>3. QED BY <2>1, <2>2 DEF WaitsIn
<1>2. QED BY <1>1

LEMMA HeadOfQueue ==
    ASSUME TypeOK, queue # <<>>
    PROVE  \E c \in Calls, k \in Nat \ {0} : Head(queue) = <<c, k>>
<1>1. queue \in Seq(Elements)
  BY DEF TypeOK
<1>2. Head(queue) \in Elements
  BY <1>1
<1>3. QED BY <1>2

LEMMA QueueShrinks ==
    ASSUME TypeOK, Distinct(queue), queue # <<>>, queue' = Tail(queue),
           NEW c \in Calls, NEW k \in Nat \ {0}, Head(queue) = <<c, k>>
    PROVE  /\ queue' \in Seq(Elements) /\ Distinct(queue)'
           /\ k \in Waiting(c) /\ Waiting(c)' = Waiting(c) \ {k}
           /\ \A d \in Calls : d # c => Waiting(d)' = Waiting(d)
<1> DEFINE t == Tail(queue)
<1>1. queue \in Seq(Elements)
  BY DEF TypeOK
<1>2. /\ t \in Seq(Elements) /\ Distinct(t) /\ k \in WaitsIn(queue, c)
      /\ WaitsIn(t, c) = WaitsIn(queue, c) \ {k}
      /\ \A d \in Calls : d # c => WaitsIn(t, d) = WaitsIn(queue, d)
  BY <1>1, TailWaits
<1>3. queue' = t
  OBVIOUS
<1> HIDE DEF t
<1>4. Distinct(queue)' <=> Distinct(t)
  BY <1>3 DEF Distinct
<1>5. \A d \in Calls : Waiting(d)' = WaitsIn(t, d) /\ Waiting(d) = WaitsIn(queue, d)
  BY <1>3 DEF WaitsIn, Waiting
<1>6. QED BY <1>2, <1>3, <1>4, <1>5

\* What one more element handled adds up to.
LEMMA HandlesOne ==
    ASSUME Sound, NEW c \in Calls, NEW k \in Waiting(c), at'[c] = at[c], refused'[c] = refused[c],
           Waiting(c)' = Waiting(c) \ {k}
    PROVE  /\ Submitted(c)' = Submitted(c) /\ Handled(c)' = Handled(c) \cup {k}
           /\ k \notin refused[c] /\ k \notin moved[c] /\ k \in Nat
           /\ at[c] > 1 /\ ended[c] = 0
           /\ Cardinality(Handled(c)') = cmpl_cnt[c] + 1
           /\ Cardinality(moved[c] \cup {k}) = res[c] + 1
           /\ cmpl_cnt[c] + 1 = count[c] =>
                at[c] > count[c] /\ Waiting(c)' = {} /\ refused[c] = {}
<1>1. TypeOK /\ Phases(c) /\ Accounted(c)
  BY DEF Sound
<1>2. /\ at[c] \in Nat \ {0} /\ count[c] \in Nat /\ at[c] <= count[c] + 1 /\ ended[c] \in Nat
      /\ k \in 1 .. at[c] - 1
  BY <1>1, Numbers DEF Accounted, Submitted
<1>3. Submitted(c)' = Submitted(c)
  BY DEF Submitted
<1>4. k \notin refused[c] /\ k \notin Handled(c) /\ k \in Submitted(c)
  BY <1>1 DEF Accounted, Handled
<1>5. Handled(c)' = Handled(c) \cup {k}
  BY <1>3, <1>4 DEF Handled
<1>6. ended[c] = 0 /\ at[c] > 1
  BY <1>1, <1>2 DEF Accounted
<1>7. k \notin moved[c] /\ moved[c] \subseteq Handled(c)
  BY <1>1, <1>4 DEF Accounted
<1> DEFINE n == at[c] - 1
           H == Handled(c)
<1>8. n \in Nat /\ H \subseteq 1 .. n /\ H \cup {k} \subseteq 1 .. n
  BY <1>2, <1>4 DEF Handled, Submitted
<1>9. /\ IsFiniteSet(H) /\ Cardinality(H \cup {k}) = Cardinality(H) + 1
      /\ (Cardinality(H \cup {k}) = n => H \cup {k} = 1 .. n) /\ Cardinality(H \cup {k}) <= n
  <2> HIDE DEF n, H
  <2>1. IsFiniteSet(H)
    BY <1>8, HandledFinite
  <2>2. k \notin H
    BY <1>4 DEF H
  <2>3. QED BY <1>8, <2>1, <2>2, HandledFinite, FS_AddElement
<1>10. Cardinality(moved[c] \cup {k}) = res[c] + 1
  <2>1. IsFiniteSet(moved[c])
    BY <1>7, <1>9, FS_Subset
  <2>2. Cardinality(moved[c]) = res[c]
    BY <1>1 DEF Accounted
  <2>3. QED BY <1>7, <2>1, <2>2, FS_AddElement
<1>11. Cardinality(H) = cmpl_cnt[c]
  BY <1>1 DEF Accounted
<1>12. ASSUME cmpl_cnt[c] + 1 = count[c]
       PROVE  at[c] > count[c] /\ Waiting(c)' = {} /\ refused[c] = {}
  <2>1. Cardinality(H \cup {k}) = count[c]
    BY <1>9, <1>11, <1>12
  <2>2. count[c] = n
    BY <1>2, <1>9, <2>1
  <2>3. H \cup {k} = Submitted(c)
    BY <1>9, <2>1, <2>2 DEF Submitted
  <2>4. Waiting(c) \subseteq Submitted(c) /\ refused[c] \subseteq Submitted(c)
    BY <1>1 DEF Accounted
  <2>5. Waiting(c) \subseteq {k} /\ refused[c] \subseteq {k}
    BY <2>3, <2>4 DEF Handled
  <2>6. QED BY <1>2, <1>4, <2>2, <2>5
<1>13. QED BY <1>2, <1>3, <1>4, <1>5, <1>6, <1>7, <1>9, <1>10, <1>11, <1>12

\* A step of the engine, with the names of the element that it completes.
LEMMA CompleteOf ==
    ASSUME Complete, TypeOK, NEW c \in Calls, NEW k \in Nat \ {0}, Head(queue) = <<c, k>>
    PROVE  /\ queue # <<>> /\ queue' = Tail(queue) /\ running' \in BOOLEAN
           /\ UNCHANGED <<callVars, refused, offline, resets>>
           /\ \E ok \in BOOLEAN :
                /\ moved' = IF ok THEN [moved EXCEPT ![c] = @ \cup {k}] ELSE moved
                /\ IF caio[c] = "live"
                   THEN Handle(c, k, ok) /\ UNCHANGED wild
                   ELSE wild' = TRUE /\ UNCHANGED <<pinned, caioVars>>
<1>1. Head(queue)[1] = c /\ Head(queue)[2] = k
  OBVIOUS
<1>2. running' = (Len(queue) > 1)
  BY DEF Complete
<1>3. running' \in BOOLEAN
  BY <1>2
<1>4. QED BY <1>1, <1>3 DEF Complete

LEMMA HandledStep ==
    ASSUME Sound, Complete, ~wild',
           NEW c \in Calls, NEW k \in Nat \ {0}, Head(queue) = <<c, k>>
    PROVE  Sound'
<1>1. /\ caio[c] = "live" /\ pinned' = [pinned EXCEPT ![c] = @ \ {k}]
      /\ cmpl_cnt' = [cmpl_cnt EXCEPT ![c] = @ + 1]
      /\ IF IsLast(c) THEN /\ ended' = [ended EXCEPT ![c] = @ + 1]
                           /\ caio' = [caio EXCEPT ![c] = "freed"]
         ELSE ended' = ended /\ caio' = caio
      /\ \/ moved' = [moved EXCEPT ![c] = @ \cup {k}] /\ res' = [res EXCEPT ![c] = @ + 1]
         \/ moved' = moved /\ res' = res
  <2>1. PICK ok \in BOOLEAN :
          /\ moved' = IF ok THEN [moved EXCEPT ![c] = @ \cup {k}] ELSE moved
          /\ caio[c] = "live" /\ Handle(c, k, ok)
    BY CompleteOf DEF Sound
  <2>2. CASE ok = TRUE
    BY <2>1, <2>2 DEF Handle
  <2>3. CASE ok = FALSE
    <3>1. res' = [res EXCEPT ![c] = @]
      BY <2>1, <2>3 DEF Handle
    <3>2. res' = res
      BY <3>1 DEF Sound, TypeOK
    <3>3. QED BY <2>1, <2>3, <3>2 DEF Handle
  <2>4. QED BY <2>2, <2>3
<1>2. /\ TypeOK /\ Distinct(queue) /\ \A d \in Calls : Phases(d) /\ Accounted(d)
      /\ queue # <<>> /\ queue' = Tail(queue) /\ running' \in BOOLEAN
      /\ UNCHANGED <<callVars, refused, offline, resets>>
  BY CompleteOf DEF Sound
<1>3. /\ queue' \in Seq(Elements) /\ Distinct(queue)'
      /\ k \in Waiting(c) /\ Waiting(c)' = Waiting(c) \ {k}
      /\ \A d \in Calls : d # c => Waiting(d)' = Waiting(d)
  BY <1>2, QueueShrinks
<1>4. /\ Submitted(c)' = Submitted(c) /\ Handled(c)' = Handled(c) \cup {k}
      /\ k \notin refused[c] /\ k \notin moved[c] /\ k \in Nat
      /\ at[c] > 1 /\ ended[c] = 0
      /\ Cardinality(Handled(c)') = cmpl_cnt[c] + 1
      /\ Cardinality(moved[c] \cup {k}) = res[c] + 1
      /\ cmpl_cnt[c] + 1 = count[c] =>
           at[c] > count[c] /\ Waiting(c)' = {} /\ refused[c] = {}
  BY <1>2, <1>3, HandlesOne
<1>5. /\ pinned'[c] = pinned[c] \ {k} /\ cmpl_cnt'[c] = cmpl_cnt[c] + 1
      /\ \/ moved'[c] = moved[c] \cup {k} /\ res'[c] = res[c] + 1
         \/ moved'[c] = moved[c] /\ res'[c] = res[c]
      /\ IF cmpl_cnt[c] + 1 = count[c] THEN ended'[c] = 1 /\ caio'[c] = "freed"
                                       ELSE ended'[c] = 0 /\ caio'[c] = "live"
  <2>1. /\ pinned \in [Calls -> SUBSET Nat] /\ cmpl_cnt \in [Calls -> Nat]
        /\ moved \in [Calls -> SUBSET Nat] /\ res \in [Calls -> Nat]
        /\ ended \in [Calls -> Nat] /\ caio \in [Calls -> {"none", "live", "freed"}]
    BY <1>2 DEF TypeOK
  <2>2. QED BY <1>1, <1>4, <2>1 DEF IsLast
<1>6. TypeOK'
  <2>1. /\ pinned' \in [Calls -> SUBSET Nat] /\ moved' \in [Calls -> SUBSET Nat]
        /\ cmpl_cnt' \in [Calls -> Nat] /\ res' \in [Calls -> Nat]
    <3>1. /\ pinned \in [Calls -> SUBSET Nat] /\ cmpl_cnt \in [Calls -> Nat]
          /\ moved \in [Calls -> SUBSET Nat] /\ res \in [Calls -> Nat]
      BY <1>2 DEF TypeOK
    <3>2. moved[c] \cup {k} \in SUBSET Nat /\ pinned[c] \ {k} \in SUBSET Nat
      BY <3>1
    <3>3. cmpl_cnt[c] + 1 \in Nat /\ res[c] + 1 \in Nat
      BY <3>1
    <3>4. QED BY <1>1, <3>1, <3>2, <3>3
  <2>2. ended' \in [Calls -> Nat] /\ caio' \in [Calls -> {"none", "live", "freed"}]
    <3>1. ended \in [Calls -> Nat] /\ caio \in [Calls -> {"none", "live", "freed"}]
      BY <1>2 DEF TypeOK
    <3>2. CASE IsLast(c)
      BY <1>1, <3>1, <3>2
    <3>3. CASE ~IsLast(c)
      BY <1>1, <3>1, <3>3
    <3>4. QED BY <3>2, <3>3
  <2>3. wild' \in BOOLEAN
    <3>1. wild' = wild
      BY <1>1, CompleteOf DEF Sound
    <3>2. QED BY <1>2, <3>1 DEF TypeOK
  <2>4. QED BY <1>2, <1>3, <2>1, <2>2, <2>3 DEF TypeOK
<1>7. ASSUME NEW d \in Calls PROVE Phases(d)' /\ Accounted(d)'
  <2>1. CASE d = c
    <3>1. Phases(c) /\ Accounted(c) /\ pc' = pc /\ at' = at /\ count' = count
          /\ result' = result /\ refused' = refused
      BY <1>2
    <3>2. Phases(c)'
      BY <1>1, <1>4, <1>5, <3>1 DEF Phases
    <3>3. pinned[c] \ {k} \subseteq Waiting(c)' \cup refused[c] \cup
                           (IF pc[c] = "submit" THEN {at[c]} ELSE {})
      BY <1>3, <3>1 DEF Accounted
    <3>4. moved'[c] \subseteq Handled(c)' /\ res'[c] = Cardinality(moved'[c])
      BY <1>4, <1>5, <3>1 DEF Accounted
    <3>5. Accounted(c)'
      BY <1>3, <1>4, <1>5, <3>1, <3>3, <3>4 DEF Accounted
    <3>6. QED BY <2>1, <3>2, <3>5
  <2>2. CASE d # c
    <3>1. /\ caio'[d] = caio[d] /\ cmpl_cnt'[d] = cmpl_cnt[d] /\ res'[d] = res[d]
          /\ ended'[d] = ended[d] /\ pinned'[d] = pinned[d] /\ moved'[d] = moved[d]
      BY <1>1, <1>2, <2>2 DEF TypeOK
    <3>2. QED BY <1>2, <1>3, <2>2, <3>1, CallKept
  <2>3. QED BY <2>1, <2>2
<1>8. QED BY <1>3, <1>6, <1>7 DEF Sound

\* The handler finds the object gone: its call was refused.
LEMMA AstrayStep ==
    ASSUME Sound, Complete, wild',
           NEW c \in Calls, NEW k \in Nat \ {0}, Head(queue) = <<c, k>>
    PROVE  (wild /\ TypeOK /\ EndsOnceAtLast /\ FreedOnlyByRefusal)'
<1>1. /\ caio[c] # "live" /\ wild' = TRUE /\ UNCHANGED <<pinned, caioVars>>
      /\ moved' \in {moved, [moved EXCEPT ![c] = @ \cup {k}]}
  BY CompleteOf DEF Sound
<1>2. UNCHANGED <<pinned, caioVars>>
  BY <1>1
<1>3. /\ TypeOK /\ Distinct(queue) /\ \A d \in Calls : Phases(d) /\ Accounted(d)
      /\ queue # <<>> /\ queue' = Tail(queue) /\ running' \in BOOLEAN
      /\ UNCHANGED <<callVars, refused, offline, resets>>
  BY CompleteOf DEF Sound
<1>4. /\ queue' \in Seq(Elements) /\ k \in Waiting(c)
      /\ Waiting(c)' = Waiting(c) \ {k}
      /\ \A d \in Calls : d # c => Waiting(d)' = Waiting(d)
  BY <1>3, QueueShrinks
<1>5. at[c] > 1 /\ ended[c] = 0
  BY <1>3, <1>4, HandlesOne
<1>6. TypeOK'
  <2>1. moved' \in [Calls -> SUBSET Nat]
    <3>1. moved \in [Calls -> SUBSET Nat] /\ moved[c] \cup {k} \in SUBSET Nat
      BY <1>3 DEF TypeOK
    <3>2. QED BY <1>1, <3>1
  <2>2. QED BY <1>1, <1>2, <1>3, <1>4, <2>1 DEF TypeOK
<1>7. FreedOnlyByRefusal'
  <2>1. Phases(c) /\ TypeOK
    BY <1>3
  <2>2. pc[c] # "idle"
    BY <1>5, <2>1, Numbers DEF Phases
  <2>3. caio[c] = "freed"
    BY <1>1, <2>1, <2>2 DEF Phases, TypeOK
  <2>4. RefusedLate(c)
    BY <1>5, <2>1, <2>3 DEF Phases, RefusedLate
  <2>5. RefusedLate(c)'
    BY <1>2, <1>3, <2>4 DEF RefusedLate
  <2>6. QED BY <2>5 DEF FreedOnlyByRefusal
<1>8. OneOutcome'
  <2>1. ended' = ended /\ result' = result
    BY <1>2, <1>3
  <2>2. QED BY <2>1, LeftNothing DEF OneOutcome
<1>9. EndsAfterLast'
  <2>1. ASSUME NEW d \in Calls, ended'[d] > 0
        PROVE  /\ at'[d] > count'[d] /\ pinned'[d] = {} /\ refused'[d] = {}
               /\ OnQueue(d)' = FALSE /\ res'[d] = Cardinality(moved'[d])
    <3>1. d # c /\ ended[d] > 0
      BY <1>2, <1>5, <2>1
    <3>2. moved'[d] = moved[d]
      BY <1>1, <1>3, <3>1 DEF TypeOK
    <3>3. /\ at[d] > count[d] /\ pinned[d] = {} /\ refused[d] = {}
          /\ Waiting(d) = {} /\ res[d] = Cardinality(moved[d])
      BY <3>1, LeftNothing
    <3>4. Waiting(d)' = {}
      BY <1>4, <3>1, <3>3
    <3>5. (OnQueue(d)') = FALSE
      <4>1. WaitsIn(queue', d) = {} /\ queue' \in Seq(Elements)
        BY <1>4, <3>4 DEF Waiting
      <4>2. \A p \in DOMAIN queue' : queue'[p][1] # d
        BY <4>1, NotOnQueue
      <4>3. QED BY <4>2 DEF OnQueue
    <3>6. QED BY <1>2, <1>3, <3>2, <3>3, <3>5
  <2>2. QED BY <1>6, <2>1 DEF EndsAfterLast
<1>10. QED BY <1>1, <1>6, <1>7, <1>8, <1>9 DEF EndsOnceAtLast

LEMMA ResetStep ==
    ASSUME Sound, AioAssumption, Offline \/ Online
    PROVE  Sound'
<1>1. /\ queue' = queue /\ UNCHANGED <<callVars, caioVars, setVars, wild>>
      /\ offline' \in BOOLEAN /\ running' \in BOOLEAN /\ resets' \in 0 .. MaxResets
  <2>1. resets \in Nat /\ resets <= MaxResets /\ running \in BOOLEAN /\ offline \in BOOLEAN
    BY DEF Sound, TypeOK, AioAssumption
  <2>2. resets' \in 0 .. MaxResets
    BY <2>1 DEF Offline, Online, AioAssumption
  <2>3. offline' \in BOOLEAN /\ running' \in BOOLEAN
    BY <2>1, Zenon DEF Offline, Online
  <2>4. QED BY <2>2, <2>3 DEF Offline, Online
<1>2. TypeOK'
  BY <1>1 DEF Sound, TypeOK
<1>3. ASSUME NEW d \in Calls PROVE Phases(d)' /\ Accounted(d)'
  BY <1>1, CallKept, SameQueue DEF Sound
<1>4. QED BY <1>1, <1>2, <1>3, SameQueue DEF Sound

LEMMA Begins ==
    ASSUME AioAssumption, Init
    PROVE  Sound
<1>1. TypeOK
  <2>1. queue \in Seq(Elements) /\ resets \in 0 .. MaxResets
    BY DEF Init, AioAssumption
  <2>2. \A c \in Calls : at[c] \in 1 .. count[c] + 1
    BY DEF Init
  <2>3. {} \in SUBSET Nat
    OBVIOUS
  <2>4. QED BY <2>1, <2>2, <2>3 DEF Init, TypeOK
<1>2. Distinct(queue)
  BY DEF Init, Distinct
<1>3. ASSUME NEW c \in Calls PROVE Phases(c) /\ Accounted(c)
  <2>1. Waiting(c) = {}
    BY DEF Init, Waiting, WaitsIn
  <2>2. Submitted(c) = {} /\ Handled(c) = {}
    BY DEF Init, Submitted, Handled
  <2>3. Cardinality({}) = 0
    BY FS_EmptySet
  <2>4. Phases(c)
    BY DEF Init, Phases
  <2>5. Accounted(c)
    BY <2>1, <2>2, <2>3 DEF Init, Accounted
  <2>6. QED BY <2>4, <2>5
<1>4. QED BY <1>1, <1>2, <1>3 DEF Init, Sound

LEMMA CallsStep ==
    ASSUME CallsInv, AioAssumption, [Next]_vars
    PROVE  CallsInv'
<1>1. CASE Next
  <2>1. Sound /\ ~wild
    BY <1>1 DEF Next, CallsInv, Sound
  <2>2. ASSUME NEW c \in Calls, Caller(c) PROVE Sound'
    BY <2>1, <2>2, CallStep, RefusalStep, MapStep, SubmitRefusedStep, SubmitStep, ReturnStep
    DEF Caller
  <2>3. CASE Complete
    <3>1. TypeOK /\ queue # <<>>
      BY <2>1, <2>3 DEF Sound, Complete
    <3>2. PICK c \in Calls, k \in Nat \ {0} : Head(queue) = <<c, k>>
      BY <3>1, HeadOfQueue
    <3>3. CASE wild'
      BY <2>1, <2>3, <3>2, <3>3, AstrayStep DEF CallsInv
    <3>4. CASE ~wild'
      BY <2>1, <2>3, <3>2, <3>4, HandledStep DEF CallsInv
    <3>5. QED BY <3>3, <3>4
  <2>4. CASE Offline \/ Online
    BY <2>1, <2>4, ResetStep DEF CallsInv
  <2>5. QED BY <1>1, <2>2, <2>3, <2>4 DEF Next, CallsInv
<1>2. CASE UNCHANGED vars
  <2>1. CASE Sound
    <3>1. TypeOK'
      BY <1>2, <2>1 DEF Sound, TypeOK
    <3>2. ASSUME NEW d \in Calls PROVE Phases(d)' /\ Accounted(d)'
      BY <1>2, <2>1, CallKept, SameQueue DEF Sound
    <3>3. QED BY <1>2, <2>1, <3>1, <3>2, SameQueue DEF Sound, CallsInv
  <2>2. CASE wild /\ TypeOK /\ EndsOnceAtLast /\ FreedOnlyByRefusal
    <3>1. TypeOK' /\ OneOutcome' /\ wild'
      BY <1>2, <2>2 DEF TypeOK, OneOutcome, EndsOnceAtLast
    <3>2. EndsAfterLast'
      BY <1>2, <2>2, <3>1 DEF EndsAfterLast, EndsOnceAtLast, OnQueue
    <3>3. FreedOnlyByRefusal'
      BY <1>2, <2>2 DEF FreedOnlyByRefusal, RefusedLate
    <3>4. QED BY <3>1, <3>2, <3>3 DEF CallsInv, EndsOnceAtLast
  <2>3. QED BY <2>1, <2>2 DEF CallsInv
<1>3. QED BY <1>1, <1>2

LEMMA CallsEnd ==
    ASSUME CallsInv
    PROVE  EndsOnceAtLast /\ FreedOnlyByRefusal
<1>1. CASE Sound
  <2>1. OneOutcome
    BY <1>1, LeftNothing DEF OneOutcome
  <2>2. ASSUME NEW d \in Calls, ended[d] > 0 PROVE ~OnQueue(d)
    <3>1. WaitsIn(queue, d) = {} /\ queue \in Seq(Elements)
      BY <1>1, <2>2, LeftNothing DEF Sound, TypeOK, Waiting
    <3>2. QED BY <3>1, NotOnQueue DEF OnQueue
  <2>3. EndsAfterLast
    BY <1>1, <2>2, LeftNothing DEF EndsAfterLast, Sound
  <2>4. QED BY <1>1, <2>1, <2>3 DEF EndsOnceAtLast, FreedOnlyByRefusal, Sound
<1>2. QED BY <1>1 DEF CallsInv

\* An asynchronous call has one outcome, and is completed after its last element,
\* with what was moved, for any number of calls, elements and resets; the handler is
\* called for a call that is gone only when an element of it was refused after others
\* were submitted (cdev_aio_write, cdev_aio_read, async_io_handler).
THEOREM CallsEndOnce == SpecDevice => []AioHolds
<1>1. InitDevice => CallsInv
  BY Begins, DeviceAssumption DEF CallsInv, InitDevice
<1>2. ASSUME CallsInv, [NextUse]_<<use, vars, sgVars, perfVars>> PROVE CallsInv'
  <2>1. [Next]_vars
    BY <1>2 DEF NextUse
  <2>2. QED BY <1>2, <2>1, CallsStep, DeviceAssumption
<1>3. CallsInv => AioHolds
  BY CallsEnd DEF AioHolds
<1>4. QED BY <1>1, <1>2, <1>3, PTL DEF SpecDevice
-----------------------------------------------------------------------------
\* Induction, and the bytes of a list of descriptors.

\* A set of numbers has a smallest one, ...
LEMMA Smallest ==
  ASSUME NEW S \in SUBSET Nat, S # {}
  PROVE  \E m \in S : \A k \in S : m <= k
<1> DEFINE R == OpToRel(<, Nat)
<1>1. IsWellFoundedOn(R, Nat)
  BY NatLessThanWellFounded
<1>2. PICK m \in S : \A k \in S : ~ (<<k, m>> \in R)
  <2> HIDE DEF R
  <2> QED BY <1>1, WFMin
<1>3. \A k \in S : ~(k < m)
  BY <1>2 DEF OpToRel
<1>4. QED BY <1>3

\* ... which is induction over a set.
LEMMA Inductive ==
  ASSUME NEW S, 0 \in S, \A n \in Nat : n \in S => n + 1 \in S
  PROVE  Nat \subseteq S
<1> DEFINE T == {n \in Nat : n \notin S}
<1> SUFFICES ASSUME T # {} PROVE FALSE
  OBVIOUS
<1>1. PICK m \in T : \A k \in T : m <= k
  <2> HIDE DEF T
  <2>1. T \in SUBSET Nat
     BY DEF T
  <2> QED BY <2>1, Smallest
<1>2. m # 0 /\ m - 1 \in Nat /\ m - 1 \notin T
  BY <1>1
<1>3. m - 1 \in S
  BY <1>2
<1>4. (m - 1) + 1 \in S
  BY <1>2, <1>3
<1>5. QED BY <1>1, <1>4

\* Induction up to a bound.
LEMMA InductiveTo ==
  ASSUME NEW N \in Nat, NEW S, 0 \in S, \A n \in 0 .. N - 1 : n \in S => n + 1 \in S
  PROVE  0 .. N \subseteq S
<1> DEFINE T == {n \in Nat : n <= N => n \in S}
<1>1. 0 \in T
  OBVIOUS
<1>2. ASSUME NEW n \in Nat, n \in T PROVE n + 1 \in T
  BY <1>2
<1>3. Nat \subseteq T
  <2> HIDE DEF T
  <2> QED BY <1>1, <1>2, Inductive
<1>4. QED BY <1>3
-----------------------------------------------------------------------------
\* Sums.  f says what is before each of the first n descriptors.
Counts(f, ds, n) == f = [j \in 1 .. n |-> IF j = 1 THEN 0 ELSE f[j - 1] + ds[j - 1].len]

\* There is such a function, whatever n is: by induction.
LEMMA CountsExist ==
  ASSUME NEW ds, NEW n \in Nat
  PROVE  \E f : Counts(f, ds, n)
<1> DEFINE S == {m \in Nat : \E f : Counts(f, ds, m)}
<1>1. 0 \in S
  <2>1. Counts([i \in 1 .. 0 |-> 0], ds, 0)
    BY DEF Counts
  <2>2. QED BY <2>1
<1>2. ASSUME NEW m \in Nat, m \in S PROVE m + 1 \in S
  <2>1. PICK f : Counts(f, ds, m)
    BY <1>2
  <2> DEFINE g == [j \in 1 .. m + 1 |-> IF j = 1 THEN 0 ELSE
                     IF j = m + 1 THEN f[j - 1] + ds[j - 1].len ELSE f[j]]
  <2>2. ASSUME NEW j \in 1 .. m + 1 PROVE g[j] = IF j = 1 THEN 0 ELSE g[j - 1] + ds[j - 1].len
    <3>1. CASE j = 1
      BY <3>1
    <3>2. CASE j # 1
      <4>1. j - 1 \in 1 .. m
        BY <3>2
      <4>2. f[j - 1] = IF j - 1 = 1 THEN 0 ELSE f[j - 1 - 1] + ds[j - 1 - 1].len
        BY <2>1, <4>1 DEF Counts
      <4>3. g[j - 1] = f[j - 1]
        BY <4>1, <4>2
      <4>4. CASE j = m + 1
        BY <3>2, <4>3, <4>4
      <4>5. CASE j # m + 1
        <5>1. j \in 1 .. m
          BY <4>5
        <5>2. f[j] = f[j - 1] + ds[j - 1].len
          BY <2>1, <3>2, <5>1 DEF Counts
        <5>3. QED BY <3>2, <4>3, <4>5, <5>2
      <4>6. QED BY <4>4, <4>5
    <3>3. QED BY <3>1, <3>2
  <2>3. g = [j \in 1 .. m + 1 |-> IF j = 1 THEN 0 ELSE g[j - 1] + ds[j - 1].len]
    <3>1. g = [j \in 1 .. m + 1 |-> g[j]]
      OBVIOUS
    <3> HIDE DEF g
    <3>2. QED BY <2>2, <3>1
  <2>4. Counts(g, ds, m + 1)
    <3> HIDE DEF g
    <3> QED BY <2>3 DEF Counts
  <2>5. QED
    <3> HIDE DEF g
    <3> QED BY <2>4
<1>3. Nat \subseteq S
  <2> HIDE DEF S
  <2> QED BY <1>1, <1>2, Inductive
<1>4. QED BY <1>3

\* What Before(ds) is: nothing before the first, and what is before the next is
\* that and it.
LEMMA BeforeFacts ==
  ASSUME NEW S, \A e \in S : e.len \in Nat, NEW ds \in Seq(S)
  PROVE  /\ Transfer!Before(ds) \in [1 .. Len(ds) + 1 -> Nat]
         /\ Transfer!Before(ds)[1] = 0
         /\ \A j \in 1 .. Len(ds) :
                Transfer!Before(ds)[j + 1] = Transfer!Before(ds)[j] + ds[j].len
<1> DEFINE N == Len(ds) + 1
           b == Transfer!Before(ds)
<1>1. N \in Nat /\ N - 1 \in Nat /\ \A j \in 1 .. N - 1 : ds[j].len \in Nat
  OBVIOUS
<1>2. Counts(b, ds, N)
  <2>1. \E f : Counts(f, ds, N)
    BY <1>1, CountsExist
  <2>2. b = CHOOSE f : Counts(f, ds, N)
    BY DEF Transfer!Before, Counts
  <2> HIDE DEF b
  <2>3. QED BY <2>1, <2>2
<1> HIDE DEF b
<1>3. DOMAIN b = 1 .. N /\ \A j \in 1 .. N : b[j] = IF j = 1 THEN 0 ELSE b[j - 1] + ds[j - 1].len
  BY <1>2 DEF Counts
<1>4. b[1] = 0 /\ \A j \in 1 .. Len(ds) : b[j + 1] = b[j] + ds[j].len
  BY <1>1, <1>3
<1>5. 0 .. N - 1 \subseteq {j \in Nat : b[j + 1] \in Nat}
  <2> DEFINE T == {j \in Nat : b[j + 1] \in Nat}
  <2>1. 0 \in T
    BY <1>4
  <2>2. ASSUME NEW j \in 0 .. N - 1 - 1, j \in T PROVE j + 1 \in T
    <3>1. b[j + 1 + 1] = b[j + 1] + ds[j + 1].len
      BY <1>1, <1>4
    <3>2. ds[j + 1].len \in Nat
      BY <1>1
    <3>3. QED BY <2>2, <3>1, <3>2
  <2> HIDE DEF T
  <2>3. QED BY <1>1, <2>1, <2>2, InductiveTo DEF T
<1>6. \A j \in 1 .. N : b[j] \in Nat
  <2>1. SUFFICES ASSUME NEW j \in 1 .. N PROVE b[j] \in Nat
    OBVIOUS
  <2>2. j - 1 \in 0 .. N - 1
    BY <1>1
  <2>3. b[(j - 1) + 1] \in Nat
    BY <1>5, <2>2
  <2>4. QED BY <1>1, <2>3
<1>7. b = [j \in 1 .. N |-> b[j]]
  BY <1>2 DEF Counts
<1>8. QED BY <1>4, <1>6, <1>7 DEF b

\* There is one such function.
LEMMA BeforeUnique ==
  ASSUME NEW S, \A e \in S : e.len \in Nat, NEW ds \in Seq(S), NEW g,
         g[1] = 0, \A j \in 1 .. Len(ds) : g[j + 1] = g[j] + ds[j].len
  PROVE  \A j \in 1 .. Len(ds) + 1 : Transfer!Before(ds)[j] = g[j]
<1> DEFINE N == Len(ds)
           b == Transfer!Before(ds)
           T == {j \in Nat : b[j + 1] = g[j + 1]}
<1>1. b[1] = 0 /\ \A j \in 1 .. N : b[j + 1] = b[j] + ds[j].len
  BY BeforeFacts
<1> HIDE DEF b
<1>2. N \in Nat
  OBVIOUS
<1>3. 0 \in T
  BY <1>1
<1>4. ASSUME NEW j \in 0 .. N - 1, j \in T PROVE j + 1 \in T
  <2>1. j + 1 \in 1 .. N
    BY <1>2
  <2>2. b[j + 1 + 1] = b[j + 1] + ds[j + 1].len /\ g[j + 1 + 1] = g[j + 1] + ds[j + 1].len
    BY <1>1, <2>1
  <2>3. QED BY <1>4, <2>2
<1>5. 0 .. N \subseteq T
  <2> HIDE DEF T, N
  <2> QED BY <1>2, <1>3, <1>4, InductiveTo
<1>6. ASSUME NEW j \in 1 .. N + 1 PROVE b[j] = g[j]
  <2>1. j - 1 \in T
    <3>1. j - 1 \in 0 .. N
      BY <1>2
    <3>2. QED BY <1>5, <3>1
  <2>2. b[(j - 1) + 1] = g[(j - 1) + 1]
    BY <2>1
  <2>3. (j - 1) + 1 = j
    BY <1>2
  <2>4. QED BY <2>2, <2>3
<1>7. QED BY <1>6 DEF b

\* No fewer bytes are before a later descriptor.
LEMMA BeforeGrows ==
  ASSUME NEW S, \A e \in S : e.len \in Nat, NEW ds \in Seq(S),
         NEW i \in 1 .. Len(ds) + 1, NEW j \in 1 .. Len(ds) + 1, i <= j
  PROVE  Transfer!Before(ds)[i] <= Transfer!Before(ds)[j]
<1> DEFINE b == Transfer!Before(ds)
           N == Len(ds)
           T == {k \in Nat : b[i] <= b[i + k]}
<1>1. b \in [1 .. N + 1 -> Nat] /\ \A k \in 1 .. N : b[k + 1] = b[k] + ds[k].len
  BY BeforeFacts
<1>2. N \in Nat /\ \A k \in 1 .. N : ds[k].len \in Nat
  OBVIOUS
<1> HIDE DEF b, N
<1>3. 0 \in T
  BY <1>1, <1>2 DEF N
<1>4. ASSUME NEW k \in 0 .. (N + 1 - i) - 1, k \in T PROVE k + 1 \in T
  <2>1. i + k \in 1 .. N
    BY <1>2 DEF N
  <2>2. b[i + k + 1] = b[i + k] + ds[i + k].len /\ b[i + k] \in Nat /\ ds[i + k].len \in Nat
    BY <1>1, <1>2, <2>1
  <2>3. b[i] \in Nat
    BY <1>1 DEF N
  <2>4. b[i] <= b[i + k]
    BY <1>4
  <2>5. i + (k + 1) = i + k + 1
    BY <1>2 DEF N
  <2>6. QED BY <2>2, <2>3, <2>4, <2>5
<1>5. 0 .. N + 1 - i \subseteq T
  <2>1. N + 1 - i \in Nat
    BY <1>2 DEF N
  <2> HIDE DEF T
  <2>2. QED BY <1>3, <1>4, <2>1, InductiveTo
<1>6. j - i \in T
  <2>1. j - i \in 0 .. N + 1 - i
    BY <1>2 DEF N
  <2> HIDE DEF T
  <2>2. QED BY <1>5, <2>1
<1>7. QED BY <1>2, <1>6 DEF b, N

\* The bytes before depend on the lengths alone.
LEMMA BeforeSame ==
  ASSUME NEW S, \A e \in S : e.len \in Nat, NEW ds \in Seq(S),
         NEW R, \A e \in R : e.len \in Nat, NEW es \in Seq(R),
         Len(ds) = Len(es), \A j \in 1 .. Len(ds) : ds[j].len = es[j].len
  PROVE  /\ \A j \in 1 .. Len(ds) + 1 : Transfer!Before(ds)[j] = Transfer!Before(es)[j]
         /\ Transfer!Bytes(ds) = Transfer!Bytes(es)
<1>1. /\ Transfer!Before(es)[1] = 0
      /\ \A j \in 1 .. Len(ds) :
             Transfer!Before(es)[j + 1] = Transfer!Before(es)[j] + ds[j].len
  BY BeforeFacts
<1>2. \A j \in 1 .. Len(ds) + 1 : Transfer!Before(ds)[j] = Transfer!Before(es)[j]
  BY <1>1, BeforeUnique
<1>3. Len(ds) + 1 \in 1 .. Len(ds) + 1
  OBVIOUS
<1>4. QED BY <1>2, <1>3 DEF Transfer!Bytes

\* One list after another.
LEMMA BeforeConcat ==
  ASSUME NEW S, \A e \in S : e.len \in Nat, NEW ds \in Seq(S), NEW es \in Seq(S)
  PROVE  /\ \A j \in 1 .. Len(ds) + 1 : Transfer!Before(ds \o es)[j] = Transfer!Before(ds)[j]
         /\ \A j \in 1 .. Len(es) + 1 :
                Transfer!Before(ds \o es)[Len(ds) + j] = Transfer!Bytes(ds) + Transfer!Before(es)[j]
         /\ Transfer!Bytes(ds \o es) = Transfer!Bytes(ds) + Transfer!Bytes(es)
<1> DEFINE M == Len(ds)
           N == Len(es)
           b == Transfer!Before(ds)
           c == Transfer!Before(es)
           g == [j \in 1 .. M + N + 1 |-> IF j <= M + 1 THEN b[j] ELSE b[M + 1] + c[j - M]]
           fs == ds \o es
<1>1. /\ b \in [1 .. M + 1 -> Nat] /\ b[1] = 0
      /\ \A j \in 1 .. M : b[j + 1] = b[j] + ds[j].len
  BY BeforeFacts
<1>2. /\ c \in [1 .. N + 1 -> Nat] /\ c[1] = 0
      /\ \A j \in 1 .. N : c[j + 1] = c[j] + es[j].len
  BY BeforeFacts
<1>3. /\ fs \in Seq(S) /\ Len(fs) = M + N /\ M \in Nat /\ N \in Nat
      /\ \A j \in 1 .. M + N : fs[j] = IF j <= M THEN ds[j] ELSE es[j - M]
  BY ConcatProperties
<1> HIDE DEF b, c, fs, M, N
<1>g. /\ \A k \in 1 .. M + N + 1 : k <= M + 1 => g[k] = b[k]
      /\ \A k \in 1 .. M + N + 1 : k > M + 1 => g[k] = b[M + 1] + c[k - M]
  BY <1>3
<1> HIDE DEF g
<1>4. g[1] = 0
  BY <1>1, <1>3, <1>g
<1>5. ASSUME NEW j \in 1 .. M + N PROVE g[j + 1] = g[j] + fs[j].len
  <2>1. CASE j <= M
    <3>1. g[j] = b[j] /\ g[j + 1] = b[j + 1] /\ fs[j] = ds[j] /\ j \in 1 .. M
      BY <1>3, <1>g, <2>1
    <3>2. QED BY <1>1, <3>1
  <2>2. CASE j = M + 1
    <3>1. g[j] = b[M + 1] /\ g[j + 1] = b[M + 1] + c[2] /\ fs[j] = es[1] /\ 1 \in 1 .. N
      BY <1>3, <1>g, <2>2
    <3>2. c[1 + 1] = c[1] + es[1].len
      BY <1>2, <3>1
    <3>3. c[2] = es[1].len
      <4>1. c[2] \in Nat /\ c[1] = 0
        BY <1>2, <1>3, <3>1
      <4>2. es[1].len \in Nat
        BY <3>1, <1>3 DEF N
      <4>3. QED BY <3>2, <4>1, <4>2
    <3>4. QED BY <3>1, <3>3
  <2>3. CASE j > M + 1
    <3>0. j \in 1 .. M + N + 1 /\ j + 1 \in 1 .. M + N + 1 /\ j + 1 > M + 1
      BY <1>3, <2>3
    <3>1. /\ g[j] = b[M + 1] + c[j - M] /\ g[j + 1] = b[M + 1] + c[j + 1 - M]
          /\ fs[j] = es[j - M] /\ j - M \in 1 .. N
      BY <1>3, <1>g, <2>3, <3>0
    <3>2. c[(j - M) + 1] = c[j - M] + es[j - M].len
      BY <1>2, <3>1
    <3>3. (j - M) + 1 = j + 1 - M
      BY <1>3
    <3>4. b[M + 1] \in Nat /\ c[j - M] \in Nat
      BY <1>1, <1>2, <1>3, <3>1
    <3>5. es[j - M].len \in Nat
      BY <3>1, <1>3 DEF N
    <3>6. QED BY <3>1, <3>2, <3>3, <3>4, <3>5
  <2>4. j <= M \/ j = M + 1 \/ j > M + 1
    BY <1>3
  <2>5. QED BY <2>1, <2>2, <2>3, <2>4
<1>6. \A j \in 1 .. M + N + 1 : Transfer!Before(fs)[j] = g[j]
  <2>1. \A j \in 1 .. Len(fs) : g[j + 1] = g[j] + fs[j].len
    BY <1>3, <1>5
  <2>2. \A j \in 1 .. Len(fs) + 1 : Transfer!Before(fs)[j] = g[j]
    BY <1>3, <1>4, <2>1, BeforeUnique
  <2>3. QED BY <1>3, <2>2
<1>7. ASSUME NEW j \in 1 .. M + 1 PROVE Transfer!Before(fs)[j] = b[j]
  <2>1. j \in 1 .. M + N + 1 /\ j <= M + 1
    BY <1>3
  <2>2. QED BY <1>6, <1>g, <2>1
<1>8. ASSUME NEW j \in 1 .. N + 1 PROVE Transfer!Before(fs)[M + j] = b[M + 1] + c[j]
  <2>1. CASE j = 1
    <3>1. Transfer!Before(fs)[M + 1] = b[M + 1] /\ b[M + 1] \in Nat
      BY <1>1, <1>3, <1>7
    <3>2. QED BY <1>2, <2>1, <3>1
  <2>2. CASE j # 1
    <3>1. M + j \in 1 .. M + N + 1 /\ M + j > M + 1 /\ M + j - M = j
      BY <1>3, <2>2
    <3>2. Transfer!Before(fs)[M + j] = g[M + j]
      BY <1>6, <3>1
    <3>4. g[M + j] = b[M + 1] + c[M + j - M]
      BY <1>3, <1>g, <3>1
    <3>5. QED BY <3>1, <3>2, <3>4
  <2>3. QED BY <2>1, <2>2
<1>9. Transfer!Before(fs)[M + (N + 1)] = b[M + 1] + c[N + 1]
  BY <1>3, <1>8
<1>10. M + (N + 1) = M + N + 1
  BY <1>3
<1>11. Transfer!Bytes(fs) = b[M + 1] + c[N + 1]
  BY <1>3, <1>9, <1>10 DEF Transfer!Bytes
<1>12. QED BY <1>7, <1>8, <1>11 DEF Transfer!Bytes, b, c, fs, M, N

\* A part of a list.
LEMMA BeforeSubSeq ==
  ASSUME NEW S, \A e \in S : e.len \in Nat, NEW ds \in Seq(S),
         NEW m \in Nat, NEW n \in Nat, m + n <= Len(ds)
  PROVE  /\ SubSeq(ds, m + 1, m + n) \in Seq(S) /\ Len(SubSeq(ds, m + 1, m + n)) = n
         /\ \A j \in 1 .. n : SubSeq(ds, m + 1, m + n)[j] = ds[m + j]
         /\ \A j \in 1 .. n + 1 :
                Transfer!Before(SubSeq(ds, m + 1, m + n))[j]
                = Transfer!Before(ds)[m + j] - Transfer!Before(ds)[m + 1]
<1> DEFINE b == Transfer!Before(ds)
           es == SubSeq(ds, m + 1, m + n)
           g == [j \in 1 .. n + 1 |-> b[m + j] - b[m + 1]]
<1>1. /\ b \in [1 .. Len(ds) + 1 -> Nat]
      /\ \A j \in 1 .. Len(ds) : b[j + 1] = b[j] + ds[j].len
  BY BeforeFacts
<1>2. es \in Seq(S) /\ Len(es) = n /\ \A j \in 1 .. n : es[j] = ds[m + j]
  OBVIOUS
<1>3. \A j \in 1 .. n : es[j].len \in Nat
  BY <1>2
<1> HIDE DEF b, es
<1>g. \A j \in 1 .. n + 1 : g[j] = b[m + j] - b[m + 1]
  OBVIOUS
<1> HIDE DEF g
<1>4. g[1] = 0
  <2>1. m + 1 \in 1 .. Len(ds) + 1
    OBVIOUS
  <2>2. b[m + 1] \in Nat
    BY <1>1, <2>1
  <2>3. QED BY <1>g, <2>2
<1>5. ASSUME NEW j \in 1 .. n PROVE g[j + 1] = g[j] + es[j].len
  <2>1. m + j \in 1 .. Len(ds) /\ m + j + 1 \in 1 .. Len(ds) + 1 /\ m + 1 \in 1 .. Len(ds) + 1
        /\ m + (j + 1) = m + j + 1
    OBVIOUS
  <2>2. b[m + j + 1] = b[m + j] + ds[m + j].len
    BY <1>1, <2>1
  <2>3. b[m + j] \in Nat /\ b[m + 1] \in Nat /\ es[j] = ds[m + j]
    <3>1. m + j \in 1 .. Len(ds) + 1
      BY <2>1
    <3>2. QED BY <1>1, <1>2, <2>1, <3>1
  <2>4. g[j + 1] = b[m + j + 1] - b[m + 1] /\ g[j] = b[m + j] - b[m + 1]
    BY <1>g, <2>1
  <2>5. es[j].len \in Nat
    BY <1>3
  <2>6. QED BY <2>2, <2>3, <2>4, <2>5
<1>6. \A j \in 1 .. n + 1 : Transfer!Before(es)[j] = g[j]
  <2>1. \A j \in 1 .. Len(es) : g[j + 1] = g[j] + es[j].len
    BY <1>2, <1>5
  <2>2. \A j \in 1 .. Len(es) + 1 : Transfer!Before(es)[j] = g[j]
    <3>1. es \in Seq(S)
      BY <1>2
    <3>2. QED BY <1>4, <2>1, <3>1, BeforeUnique
  <2>3. QED BY <1>2, <2>2
<1>7. QED BY <1>2, <1>6, <1>g DEF es, b

\* A list of one.
LEMMA BeforeOne ==
  ASSUME NEW S, \A e \in S : e.len \in Nat, NEW d \in S
  PROVE  Transfer!Before(<<d>>)[1] = 0 /\ Transfer!Bytes(<<d>>) = d.len
<1>1. <<d>> \in Seq(S) /\ Len(<<d>>) = 1 /\ 1 \in 1 .. Len(<<d>>) /\ <<d>>[1] = d
  OBVIOUS
<1>2. /\ Transfer!Before(<<d>>)[1] = 0
      /\ Transfer!Before(<<d>>)[1 + 1] = Transfer!Before(<<d>>)[1] + <<d>>[1].len
  <2>1. <<d>> \in Seq(S)
    BY <1>1
  <2>2. \A j \in 1 .. Len(<<d>>) :
           Transfer!Before(<<d>>)[j + 1] = Transfer!Before(<<d>>)[j] + <<d>>[j].len
    BY <2>1, BeforeFacts
  <2>3. Transfer!Before(<<d>>)[1] = 0
    BY <2>1, BeforeFacts
  <2>4. QED BY <1>1, <2>2, <2>3
<1>3. d.len \in Nat
  OBVIOUS
<1>4. QED BY <1>1, <1>2, <1>3 DEF Transfer!Bytes

\* One descriptor added.
LEMMA BeforeAppend ==
  ASSUME NEW S, \A e \in S : e.len \in Nat, NEW ds \in Seq(S), NEW d \in S
  PROVE  /\ \A j \in 1 .. Len(ds) + 1 : Transfer!Before(Append(ds, d))[j] = Transfer!Before(ds)[j]
         /\ Transfer!Bytes(Append(ds, d)) = Transfer!Bytes(ds) + d.len
<1>1. Append(ds, d) = ds \o <<d>>
  BY AppendIsConcat
<1>2. <<d>> \in Seq(S)
  OBVIOUS
<1>3. /\ \A j \in 1 .. Len(ds) + 1 : Transfer!Before(ds \o <<d>>)[j] = Transfer!Before(ds)[j]
      /\ Transfer!Bytes(ds \o <<d>>) = Transfer!Bytes(ds) + Transfer!Bytes(<<d>>)
  BY <1>2, BeforeConcat
<1>4. QED BY <1>1, <1>3, BeforeOne

-----------------------------------------------------------------------------
\* FlattenSeq.  f holds what the first sequences come to, for n of them.
Flattens(f, ss, n) == f = [i \in 1 .. n |-> IF i = 1 THEN ss[i] ELSE f[i - 1] \o ss[i]]

\* There is such a function, whatever n is: by induction.
LEMMA FlattensExist ==
  ASSUME NEW ss, NEW n \in Nat
  PROVE  \E f : Flattens(f, ss, n)
<1> DEFINE S == {m \in Nat : \E f : Flattens(f, ss, m)}
<1>1. 0 \in S
  <2>1. Flattens([i \in 1 .. 0 |-> 0], ss, 0)
    BY DEF Flattens
  <2>2. QED BY <2>1
<1>2. ASSUME NEW m \in Nat, m \in S PROVE m + 1 \in S
  <2>1. PICK f : Flattens(f, ss, m)
    BY <1>2
  <2> DEFINE n1 == m + 1
             c == f[m] \o ss[n1]
             g == [i \in 1 .. n1 |-> IF i = 1 THEN ss[1] ELSE IF i = n1 THEN c ELSE f[i]]
  <2>n. n1 \in Nat /\ n1 = m + 1
    OBVIOUS
  <2> HIDE DEF c, n1
  <2>g. /\ g[1] = ss[1] /\ (m # 0 => g[n1] = c)
        /\ \A i \in 2 .. m : g[i] = f[i]
        /\ g = [i \in 1 .. n1 |-> g[i]]
    BY <2>n
  <2> HIDE DEF g
  <2>2. ASSUME NEW i \in 1 .. n1 PROVE g[i] = IF i = 1 THEN ss[i] ELSE g[i - 1] \o ss[i]
    <3>1. CASE i = 1
      BY <2>g, <3>1
    <3>2. CASE i # 1
      <4>1. i - 1 \in 1 .. m
        BY <2>n, <3>2
      <4>2. i - 1 = 1 => f[i - 1] = ss[1]
        <5>1. 1 \in 1 .. m => f[1] = ss[1]
          BY <2>1 DEF Flattens
        <5>2. QED BY <4>1, <5>1
      <4>3. g[i - 1] = f[i - 1]
        <5>1. CASE i - 1 = 1
          BY <2>g, <4>2, <5>1
        <5>2. CASE i - 1 # 1
          BY <2>g, <2>n, <4>1, <5>2
        <5>3. QED BY <5>1, <5>2
      <4>4. CASE i = n1
        <5>1. g[i] = c /\ i - 1 = m
          BY <2>g, <2>n, <3>2, <4>4
        <5>2. c = f[i - 1] \o ss[i]
          BY <4>4, <5>1 DEF c
        <5>3. QED BY <3>2, <4>3, <5>1, <5>2
      <4>5. CASE i # n1
        <5>1. i \in 1 .. m
          BY <2>n, <4>5
        <5>2. f[i] = f[i - 1] \o ss[i]
          BY <2>1, <3>2, <5>1 DEF Flattens
        <5>3. g[i] = f[i]
          BY <2>g, <3>2, <5>1
        <5>4. QED BY <3>2, <4>3, <5>2, <5>3
      <4>6. QED BY <4>4, <4>5
    <3>3. QED BY <3>1, <3>2
  <2>4. g = [i \in 1 .. n1 |-> IF i = 1 THEN ss[i] ELSE g[i - 1] \o ss[i]]
    BY <2>2, <2>g
  <2>5. Flattens(g, ss, m + 1)
    BY <2>4 DEF Flattens, n1
  <2>6. QED BY <2>5
<1>3. Nat \subseteq S
  <2> HIDE DEF S
  <2> QED BY <1>1, <1>2, Inductive
<1>4. QED BY <1>3

\* What FlattenSeq(ss) is: the last of the sequences one gets by adding ss[1], ss[2], ...
\* one after the other.
LEMMA FlattenFacts ==
  ASSUME NEW S, NEW ss \in Seq(Seq(S))
  PROVE  \E f \in [0 .. Len(ss) -> Seq(S)] :
            /\ f[0] = <<>>
            /\ \A i \in 1 .. Len(ss) : f[i] = f[i - 1] \o ss[i]
            /\ Transfer!FlattenSeq(ss) = f[Len(ss)]
<1> DEFINE N == Len(ss)
           h == CHOOSE f : Flattens(f, ss, N)
           g == [i \in 0 .. N |-> IF i = 0 THEN <<>> ELSE h[i]]
           T == {i \in Nat : g[i] \in Seq(S)}
<1>1. N \in Nat /\ \A i \in 1 .. N : ss[i] \in Seq(S)
  OBVIOUS
<1>2. Flattens(h, ss, N)
  BY <1>1, FlattensExist
<1>3. N # 0 => Transfer!FlattenSeq(ss) = h[N]
  BY DEF Transfer!FlattenSeq, Flattens
<1>4. N = 0 => ss = <<>>
  OBVIOUS
<1>5. N = 0 => Transfer!FlattenSeq(ss) = <<>>
  BY <1>4 DEF Transfer!FlattenSeq
<1> HIDE DEF h, N
<1>6. \A i \in 1 .. N : h[i] = IF i = 1 THEN ss[i] ELSE h[i - 1] \o ss[i]
  BY <1>2 DEF Flattens
<1>7. /\ DOMAIN g = 0 .. N /\ g[0] = <<>> /\ \A i \in 1 .. N : g[i] = h[i]
      /\ g = [i \in 0 .. N |-> g[i]]
  BY <1>1
<1> HIDE DEF g
<1>8. ASSUME NEW i \in 1 .. N PROVE g[i] = g[i - 1] \o ss[i]
  <2>1. CASE i = 1
    <3>1. ss[1] \in Seq(S)
      BY <1>1, <2>1
    <3>2. g[1] = ss[1]
      <4>1. 1 \in 1 .. N
        BY <2>1
      <4>2. h[1] = ss[1]
        BY <1>6, <4>1
      <4>3. g[1] = h[1]
        BY <1>7, <4>1
      <4>4. QED BY <4>2, <4>3
    <3>3. <<>> \o ss[1] = ss[1]
      BY <3>1, ConcatEmptySeq
    <3>4. g[i - 1] = <<>>
      <4>1. i - 1 = 0
        BY <2>1
      <4>2. QED BY <1>7, <4>1
    <3>5. g[i] = ss[1] /\ ss[i] = ss[1]
      BY <2>1, <3>2
    <3>6. QED BY <3>3, <3>4, <3>5
  <2>2. CASE i # 1
    <3>1. i - 1 \in 1 .. N
      BY <1>1, <2>2
    <3>2. QED BY <1>6, <1>7, <2>2, <3>1
  <2>3. QED BY <2>1, <2>2
<1>9. 0 .. N \subseteq T
  <2>1. 0 \in T
    <3>1. <<>> \in Seq(S)
      OBVIOUS
    <3>2. g[0] \in Seq(S)
      BY <1>7, <3>1
    <3>3. QED BY <3>2
  <2>2. ASSUME NEW i \in 0 .. N - 1, i \in T PROVE i + 1 \in T
    <3> DEFINE k == i + 1
    <3>1. k \in 1 .. N /\ k \in Nat /\ k - 1 = i
      BY <1>1
    <3> HIDE DEF k
    <3>2. g[k] = g[i] \o ss[k]
      BY <1>8, <3>1
    <3>3. g[i] \in Seq(S) /\ ss[k] \in Seq(S)
      BY <1>1, <2>2, <3>1
    <3>4. g[k] \in Seq(S)
      BY <3>2, <3>3, ConcatProperties
    <3>5. k \in T
      BY <3>1, <3>4
    <3>6. QED BY <3>5 DEF k
  <2> HIDE DEF T
  <2>3. QED BY <1>1, <2>1, <2>2, InductiveTo
<1>10. g \in [0 .. N -> Seq(S)]
  <2>1. \A i \in 0 .. N : g[i] \in Seq(S)
    BY <1>9
  <2>2. QED BY <1>7, <2>1
<1>11. Transfer!FlattenSeq(ss) = g[N]
  <2>1. CASE N = 0
    BY <1>5, <1>7, <2>1
  <2>2. CASE N # 0
    <3>1. N \in 1 .. N
      BY <1>1, <2>2
    <3>2. QED BY <1>3, <1>7, <2>2, <3>1
  <2>3. QED BY <2>1, <2>2
<1>12. QED BY <1>7, <1>8, <1>10, <1>11 DEF N
-----------------------------------------------------------------------------
\* Division.
LEMMA DividedBy ==
  ASSUME NEW x \in Int, NEW n \in Nat \ {0}, NEW q, q = x \div n, NEW r, r = x % n
  PROVE  q \in Int /\ r \in 0 .. n - 1 /\ x = n * q + r /\ (x >= 0 => q >= 0)
<1>1. n \in Int /\ n > 0
  OBVIOUS
<1>2. q \in Int /\ r \in 0 .. n - 1
  OBVIOUS
<1>3. x = n * q + r
  BY <1>1, <1>2
<1>4. x >= 0 => q >= 0
  BY <1>2
<1>5. QED BY <1>2, <1>3, <1>4

\* A number has one quotient and one remainder.
LEMMA DivUnique ==
  ASSUME NEW n \in Nat \ {0}, NEW q \in Int, NEW r \in 0 .. n - 1
  PROVE  (n * q + r) \div n = q /\ (n * q + r) % n = r
<1> DEFINE x == n * q + r
<1>1. x \in Int
  OBVIOUS
<1>2. PICK p \in Int, t \in 0 .. n - 1 : p = x \div n /\ t = x % n /\ x = n * p + t
  <2> DEFINE p == x \div n
             t == x % n
  <2>1. p \in Int /\ t \in 0 .. n - 1 /\ x = n * p + t
    <3> HIDE DEF x
    <3> QED BY <1>1, DividedBy
  <2>2. QED BY <2>1
<1>3. n * q + r = n * p + t
  BY <1>2
<1>4. n * (q - p) = t - r
  BY <1>3
<1>5. ASSUME NEW d \in Int, d = q - p, n * d = t - r PROVE d = 0
  <2>1. CASE d > 0
    <3>1. n * d >= n
      BY <2>1
    <3>2. QED BY <1>5, <3>1
  <2>2. CASE d < 0
    <3>1. n * d <= 0 - n
      BY <2>2
    <3>2. QED BY <1>5, <3>1
  <2>3. QED BY <2>1, <2>2
<1>6. q - p = 0
  BY <1>4, <1>5
<1>7. q = p /\ r = t
  BY <1>3, <1>6
<1>8. QED BY <1>2, <1>7

-----------------------------------------------------------------------------
\* The scatter list and the request (char_sgdma_map_user_buf_to_sgl, xdma_init_request).

\* Multiplying keeps the order.
LEMMA Times ==
  ASSUME NEW n \in Nat, NEW i \in Int, NEW j \in Int, i <= j
  PROVE  i * n \in Int /\ j * n \in Int /\ i * n <= j * n
<1>1. (j - i) * n >= 0
  OBVIOUS
<1>2. QED BY <1>1

\* The entries of a list.
SgEntries == [addr : Nat, len : Nat]
\* The calls there are.
Asks == {a \in [buf : Nat, len : Nat, ep : Nat, aperture : Nat, merged : BOOLEAN] :
            a.buf \in Offsets /\ a.len \in Sizes /\ a.ep \in EpAddrs
            /\ a.aperture \in Apertures \cup {0}}

\* The descriptors, or entries of a list, hold the bytes of the buffer from byte p on, in
\* their order.
LaidFrom(a, ds, p) ==
    \A j \in 1 .. Len(ds) : \A b \in 0 .. ds[j].len - 1 :
        Transfer!BusOf(a, p + Transfer!Before(ds)[j] + b) = ds[j].addr + b

\* All of them: they hold the whole buffer.
Covers(a, ds) == LaidFrom(a, ds, 0) /\ Transfer!Bytes(ds) = a.len

\* What is assumed of the constants.
LEMMA SgConstants ==
  /\ PageSize \in Nat \ {0} /\ Offsets \subseteq 0 .. PageSize - 1
  /\ Sizes \subseteq 1 .. Word - 1 /\ Word \in Nat \ {0}
  /\ EpAddrs \subseteq Nat /\ Apertures \subseteq Nat \ {0}
  /\ DescMax \in Nat \ {0} /\ BlenMax \in Nat \ {0} /\ Block \in Nat \ {0}
BY DeviceAssumption DEF Transfer!SgAssumption

\* The smaller of two.
LEMMA Smallest2 ==
  ASSUME NEW a \in Int, NEW b \in Int
  PROVE  /\ Transfer!Smaller(a, b) \in {a, b}
         /\ Transfer!Smaller(a, b) <= a /\ Transfer!Smaller(a, b) <= b
BY DEF Transfer!Smaller

\* How many parts of n bytes x bytes come to.
LEMMA RoundedUp ==
  ASSUME NEW x \in Nat \ {0}, NEW n \in Nat \ {0}, NEW q, q = (x + n - 1) \div n
  PROVE  q \in Nat \ {0} /\ (q - 1) * n < x /\ x <= q * n
<1> DEFINE y == x + n - 1
           p == y \div n
           r == y % n
<1>1. y \in Int /\ y >= 0 /\ y >= n
  OBVIOUS
<1>2. q = p
  OBVIOUS
<1>3. p \in Int /\ r \in 0 .. n - 1 /\ y = n * p + r /\ p >= 0
  <2> HIDE DEF y
  <2>1. p \in Int /\ r \in 0 .. n - 1 /\ y = n * p + r
    BY <1>1, DividedBy
  <2>2. p >= 0
    BY <1>1, DividedBy
  <2>3. QED BY <2>1, <2>2
<1> HIDE DEF y, p, r
<1>4. q # 0
  BY <1>1, <1>2, <1>3
<1>5. (q - 1) * n = n * q - n /\ q * n = n * q
  BY <1>2, <1>3
<1>6. QED BY <1>2, <1>3, <1>4, <1>5 DEF y

\* A byte of the buffer lies in the page that holds it.
LEMMA BusOfPage ==
  ASSUME NEW a \in Asks, ~a.merged, NEW p \in Nat \ {0}, NEW b \in Nat,
         (p - 1) * PageSize <= a.buf + b, a.buf + b < p * PageSize
  PROVE  Transfer!BusOf(a, b) = 2 * PageSize * (p - 1) + (a.buf + b - (p - 1) * PageSize)
<1> DEFINE r == a.buf + b - (p - 1) * PageSize
<1>1. PageSize \in Nat \ {0} /\ a.buf \in Nat
  BY SgConstants DEF Asks
<1>2. p * PageSize = (p - 1) * PageSize + PageSize /\ (p - 1) * PageSize \in Int
  BY <1>1
<1>3. r \in 0 .. PageSize - 1
  BY <1>1, <1>2
<1>4. a.buf + b = PageSize * (p - 1) + r
  BY <1>1, <1>2
<1> DEFINE q == p - 1
<1>q. q \in Int
  OBVIOUS
<1> HIDE DEF r, q
<1>5. (PageSize * q + r) \div PageSize = q /\ (PageSize * q + r) % PageSize = r
  BY <1>1, <1>3, <1>q, DivUnique
<1>6. Transfer!BusOf(a, b) = 2 * PageSize * ((a.buf + b) \div PageSize) + ((a.buf + b) % PageSize)
  BY DEF Transfer!BusOf
<1>7. QED BY <1>4, <1>5, <1>6 DEF r, q

\* The scatter list holds the buffer.
LEMMA ScatterCovers ==
  ASSUME NEW a \in Asks
  PROVE  /\ Transfer!ScatterList(a) \in Seq(SgEntries)
         /\ Transfer!ScatterList(a) # <<>>
         /\ \A p \in 1 .. Len(Transfer!ScatterList(a)) :
               Transfer!ScatterList(a)[p].len \in 1 .. a.len
         /\ Covers(a, Transfer!ScatterList(a))
<1> DEFINE s == Transfer!ScatterList(a)
           PS == PageSize
           N == Transfer!PagesOf(a)
<1>1. /\ PS \in Nat \ {0} /\ a.buf \in 0 .. PS - 1 /\ a.len \in Nat \ {0}
  BY SgConstants DEF Asks
<1>2. \A e \in SgEntries : e.len \in Nat
  BY DEF SgEntries
<1>3. CASE a.merged
  <2>1. s = <<[addr |-> a.buf, len |-> a.len]>>
    BY <1>1, <1>3 DEF Transfer!ScatterList, Transfer!BusOf
  <2> DEFINE d == [addr |-> a.buf, len |-> a.len]
  <2>2. d \in SgEntries /\ d.len = a.len /\ d.addr = a.buf
    BY <1>1 DEF SgEntries
  <2> HIDE DEF s, d
  <2>3. s \in Seq(SgEntries) /\ Len(s) = 1 /\ s[1] = d /\ s # <<>>
    BY <2>1, <2>2 DEF d
  <2>4. Transfer!Before(s)[1] = 0 /\ Transfer!Bytes(s) = a.len
    BY <1>2, <2>1, <2>2, BeforeOne DEF d
  <2>5. LaidFrom(a, s, 0)
    <3>1. ASSUME NEW b \in 0 .. a.len - 1 PROVE Transfer!BusOf(a, 0 + 0 + b) = a.buf + b
      BY <1>1, <1>3 DEF Transfer!BusOf
    <3>2. QED BY <1>1, <2>2, <2>3, <2>4, <3>1 DEF LaidFrom
  <2>6. QED BY <1>1, <2>2, <2>3, <2>4, <2>5 DEF Covers, s
<1>4. CASE ~a.merged
  <2>1. N \in Nat \ {0} /\ (N - 1) * PS < a.buf + a.len /\ a.buf + a.len <= N * PS
    <3>1. N = ((a.buf + a.len) + PS - 1) \div PS
      BY DEF Transfer!PagesOf
    <3>2. a.buf + a.len \in Nat \ {0}
      BY <1>1
    <3> HIDE DEF N, PS
    <3>3. QED BY <1>1, <3>1, <3>2, RoundedUp
  <2> DEFINE from(p) == IF p = 1 THEN 0 ELSE (p - 1) * PS - a.buf
             to(p) == Transfer!Smaller(a.len, p * PS - a.buf)
             e(p) == [addr |-> Transfer!BusOf(a, from(p)), len |-> to(p) - from(p)]
             g == [p \in 1 .. N + 1 |-> IF p = N + 1 THEN a.len ELSE from(p)]
  <2>2. s = [p \in 1 .. N |-> e(p)]
    BY <1>4 DEF Transfer!ScatterList
  <2> HIDE DEF s, N
  <2>3. ASSUME NEW p \in 1 .. N
        PROVE  /\ (p - 1) * PS \in Nat /\ p * PS = (p - 1) * PS + PS
               /\ (p - 1) * PS < a.buf + a.len
               /\ p < N => p * PS < a.buf + a.len
    <3>1. p - 1 \in Int /\ N - 1 \in Int /\ p - 1 <= N - 1 /\ p \in Int /\ p - 1 >= 0
      BY <2>1
    <3>2. (p - 1) * PS \in Int /\ (N - 1) * PS \in Int /\ (p - 1) * PS <= (N - 1) * PS
          /\ 0 * PS <= (p - 1) * PS
      BY <1>1, <3>1, Times
    <3>3. ASSUME p < N PROVE p * PS <= (N - 1) * PS /\ p * PS \in Int
      <4>1. p <= N - 1
        BY <2>1, <3>3
      <4>2. QED BY <1>1, <3>1, <4>1, Times
    <3>4. p * PS = (p - 1) * PS + PS
      BY <1>1, <3>1
    <3>5. QED BY <1>1, <2>1, <3>2, <3>3, <3>4
  <2>4. ASSUME NEW p \in 1 .. N
        PROVE  /\ from(p) \in Nat /\ to(p) \in Nat /\ from(p) < to(p) /\ to(p) <= a.len
               /\ (p - 1) * PS <= a.buf + from(p) /\ a.buf + to(p) <= p * PS
               /\ to(p) = IF p < N THEN p * PS - a.buf ELSE a.len
    <3> DEFINE m == (p - 1) * PS
    <3>1. m \in Nat /\ p * PS = m + PS /\ m < a.buf + a.len /\ (p < N => m + PS < a.buf + a.len)
      BY <2>3
    <3>2. p = 1 => m = 0
      BY <1>1
    <3>3. p # 1 => m >= PS
      <4>1. p # 1 => 1 <= p - 1 /\ 1 \in Int /\ p - 1 \in Int
        BY <2>1
      <4>2. p # 1 => 1 * PS <= (p - 1) * PS
        BY <1>1, <4>1, Times
      <4>3. QED BY <1>1, <4>2
    <3>4. p = N => a.buf + a.len <= m + PS
      BY <2>1, <3>1
    <3> HIDE DEF m
    <3>5. from(p) = IF p = 1 THEN 0 ELSE m - a.buf
      BY DEF m
    <3>6. to(p) = IF a.len < m + PS - a.buf THEN a.len ELSE m + PS - a.buf
      <4> DEFINE q == p * PS
      <4>1. q = m + PS
        BY <3>1
      <4>2. to(p) = IF a.len < q - a.buf THEN a.len ELSE q - a.buf
        BY DEF Transfer!Smaller
      <4>3. q = m + PS => to(p) = IF a.len < m + PS - a.buf THEN a.len ELSE m + PS - a.buf
        <5> HIDE DEF q, to
        <5> QED BY <1>1, <3>1, <4>2
      <4> HIDE DEF q, to
      <4>4. QED BY <4>1, <4>3
    <3>7. p < N \/ p = N
      BY <2>1
    <3> HIDE DEF from, to
    <3>8. m <= a.buf + from(p)
      BY <1>1, <3>1, <3>2, <3>3, <3>5
    <3>9. QED BY <1>1, <3>1, <3>2, <3>3, <3>4, <3>5, <3>6, <3>7, <3>8 DEF m
  <2>5. ASSUME NEW p \in 1 .. N, NEW b \in 0 .. to(p) - from(p) - 1
        PROVE  Transfer!BusOf(a, from(p) + b) = e(p).addr + b
    <3> DEFINE f == from(p)
               m == (p - 1) * PS
               k == 2 * PS * (p - 1)
    <3>1. /\ f \in Nat /\ to(p) \in Nat /\ m <= a.buf + f /\ a.buf + to(p) <= p * PS
          /\ f < to(p)
      BY <2>4
    <3>2. p \in Nat \ {0} /\ b \in Nat /\ m \in Nat /\ k \in Int
      BY <1>1, <2>1, <2>3, <3>1
    <3> HIDE DEF f, m, k
    <3>3. f + b \in Nat /\ m <= a.buf + (f + b) /\ a.buf + (f + b) < p * PS
      BY <1>1, <3>1, <3>2 DEF f
    <3>4. Transfer!BusOf(a, f + b) = k + (a.buf + (f + b) - m)
      BY <1>4, <3>2, <3>3, BusOfPage DEF k, m
    <3>5. m <= a.buf + f /\ a.buf + f < p * PS
      BY <1>1, <3>1, <3>2
    <3>6. Transfer!BusOf(a, f) = k + (a.buf + f - m)
      BY <1>4, <3>1, <3>2, <3>5, BusOfPage DEF k, m
    <3>7. Transfer!BusOf(a, f + b) = Transfer!BusOf(a, f) + b
      BY <1>1, <3>1, <3>2, <3>4, <3>6
    <3>8. QED BY <3>7 DEF f
  <2>6. ASSUME NEW p \in 1 .. N PROVE e(p) \in SgEntries /\ e(p).len \in 1 .. a.len
    <3>1. Transfer!BusOf(a, from(p)) \in Nat
      <4> DEFINE f == from(p)
                 x == a.buf + f
                 q == x \div PS
                 r == x % PS
      <4>1. x \in Int /\ x >= 0
        BY <1>1, <2>4
      <4> HIDE DEF x
      <4>2. q \in Int /\ r \in 0 .. PS - 1 /\ q >= 0
        BY <1>1, <4>1, DividedBy
      <4> HIDE DEF q, r
      <4>3. Transfer!BusOf(a, f) = 2 * PS * q + r
        BY <1>4 DEF Transfer!BusOf, x, q, r
      <4>4. 2 * PS * q + r \in Nat
        BY <1>1, <4>2
      <4>5. QED BY <4>3, <4>4
    <3>2. to(p) - from(p) \in 1 .. a.len
      BY <1>1, <2>4
    <3> HIDE DEF from, to
    <3>3. QED BY <1>1, <3>1, <3>2 DEF SgEntries
  <2>7. s \in Seq(SgEntries) /\ Len(s) = N /\ s # <<>>
    <3> HIDE DEF e
    <3>1. s \in [1 .. N -> SgEntries]
      BY <2>2, <2>6
    <3>2. QED BY <2>1, <3>1
  <2>8. \A p \in 1 .. N : s[p] = e(p) /\ s[p].len = to(p) - from(p)
    <3>1. \A p \in 1 .. N : s[p] = e(p)
      <4> HIDE DEF e
      <4> QED BY <2>2
    <3>2. \A p \in 1 .. N : e(p).len = to(p) - from(p)
      <4> HIDE DEF from, to
      <4> QED OBVIOUS
    <3> HIDE DEF e, from, to
    <3>3. QED BY <3>1, <3>2
  <2>9. \A p \in 1 .. N + 1 : Transfer!Before(s)[p] = g[p]
    <3>1. g[1] = 0
      BY <2>1
    <3>2. ASSUME NEW p \in 1 .. N PROVE g[p + 1] = g[p] + s[p].len
      <4>1. s[p].len = to(p) - from(p)
        <5> HIDE DEF e, from, to
        <5> QED BY <2>8
      <4>2. g[p] = from(p)
        BY <2>1
      <4>3. g[p + 1] = to(p)
        <5>1. CASE p = N
          <6>1. g[p + 1] = a.len
            BY <2>1, <5>1
          <6>2. to(p) = a.len
            BY <2>1, <2>4, <5>1
          <6>3. QED BY <6>1, <6>2
        <5>2. CASE p # N
          <6>1. p < N /\ p + 1 \in 1 .. N + 1 /\ p + 1 # N + 1 /\ p + 1 # 1 /\ (p + 1) - 1 = p
            BY <2>1, <5>2
          <6>2. g[p + 1] = p * PS - a.buf
            BY <6>1
          <6>3. to(p) = p * PS - a.buf
            BY <2>4, <6>1
          <6>4. QED BY <6>2, <6>3
        <5>3. QED BY <5>1, <5>2
      <4> HIDE DEF g, from, to
      <4>4. QED BY <2>4, <4>1, <4>2, <4>3
    <3> HIDE DEF g
    <3>3. \A p \in 1 .. Len(s) : g[p + 1] = g[p] + s[p].len
      BY <2>7, <3>2
    <3>4. s \in Seq(SgEntries)
      BY <2>7
    <3>5. \A p \in 1 .. Len(s) + 1 : Transfer!Before(s)[p] = g[p]
      BY <1>2, <3>1, <3>3, <3>4, BeforeUnique
    <3>6. QED BY <2>7, <3>5
  <2>10. Transfer!Bytes(s) = a.len
    <3>1. N + 1 \in 1 .. N + 1
      BY <2>1
    <3>2. g[N + 1] = a.len
      BY <3>1
    <3>3. QED BY <2>7, <2>9, <3>1, <3>2 DEF Transfer!Bytes
  <2>11. LaidFrom(a, s, 0)
    <3>1. ASSUME NEW p \in 1 .. N, NEW b \in 0 .. s[p].len - 1
          PROVE  Transfer!BusOf(a, 0 + Transfer!Before(s)[p] + b) = s[p].addr + b
      <4>1. s[p] = e(p) /\ s[p].len = to(p) - from(p)
        <5> HIDE DEF e, from, to
        <5> QED BY <2>8
      <4>2. p \in 1 .. N + 1 /\ p # N + 1
        BY <2>1
      <4>3. Transfer!Before(s)[p] = from(p)
        BY <2>9, <4>2
      <4> HIDE DEF e
      <4>4. Transfer!BusOf(a, from(p) + b) = e(p).addr + b
        BY <2>5, <4>1
      <4>5. 0 + from(p) + b = from(p) + b
        <5>1. from(p) \in Nat
          BY <2>4
        <5> HIDE DEF from
        <5>2. QED BY <5>1
      <4>6. QED BY <4>1, <4>3, <4>4, <4>5
    <3>2. QED BY <2>7, <3>1 DEF LaidFrom
  <2>12. QED BY <2>6, <2>7, <2>8, <2>10, <2>11 DEF Covers, s
<1>5. QED BY <1>3, <1>4

\* Lengths are numbers.
LEMMA LensNat == \A e \in SgEntries : e.len \in Nat
BY DEF SgEntries

\* Two lists that lie one after the other.
LEMMA LaidConcat ==
  ASSUME NEW a, NEW p \in Nat, NEW ds \in Seq(SgEntries), NEW es \in Seq(SgEntries),
         LaidFrom(a, ds, p), LaidFrom(a, es, p + Transfer!Bytes(ds))
  PROVE  LaidFrom(a, ds \o es, p)
<1> DEFINE fs == ds \o es
           M == Len(ds)
           N == Len(es)
<1>1. /\ fs \in Seq(SgEntries) /\ Len(fs) = M + N /\ M \in Nat /\ N \in Nat
      /\ \A j \in 1 .. M + N : fs[j] = IF j <= M THEN ds[j] ELSE es[j - M]
  BY ConcatProperties
<1>2. /\ \A j \in 1 .. M + 1 : Transfer!Before(fs)[j] = Transfer!Before(ds)[j]
      /\ \A j \in 1 .. N + 1 :
             Transfer!Before(fs)[M + j] = Transfer!Bytes(ds) + Transfer!Before(es)[j]
  BY BeforeConcat, LensNat
<1>3. Transfer!Bytes(ds) \in Nat /\ \A j \in 1 .. N + 1 : Transfer!Before(es)[j] \in Nat
  <2>1. Transfer!Before(ds) \in [1 .. Len(ds) + 1 -> Nat]
    BY BeforeFacts, LensNat
  <2>2. Transfer!Before(es) \in [1 .. Len(es) + 1 -> Nat]
    BY BeforeFacts, LensNat
  <2>3. Len(ds) + 1 \in 1 .. Len(ds) + 1
    OBVIOUS
  <2>4. QED BY <2>1, <2>2, <2>3 DEF Transfer!Bytes
<1>4. /\ \A j \in 1 .. M : \A b \in 0 .. ds[j].len - 1 :
            Transfer!BusOf(a, p + Transfer!Before(ds)[j] + b) = ds[j].addr + b
      /\ \A j \in 1 .. N : \A b \in 0 .. es[j].len - 1 :
            Transfer!BusOf(a, p + Transfer!Bytes(ds) + Transfer!Before(es)[j] + b) = es[j].addr + b
  BY DEF LaidFrom
<1>n. \A j \in 1 .. N : es[j].len \in Nat
  BY LensNat
<1> HIDE DEF fs, M, N
<1>5. ASSUME NEW j \in 1 .. M + N, NEW b \in 0 .. fs[j].len - 1
      PROVE  Transfer!BusOf(a, p + Transfer!Before(fs)[j] + b) = fs[j].addr + b
  <2>1. CASE j <= M
    <3>1. j \in 1 .. M /\ j \in 1 .. M + 1 /\ fs[j] = ds[j]
      BY <1>1, <2>1
    <3>2. QED BY <1>2, <1>4, <3>1
  <2>2. CASE j > M
    <3> DEFINE k == j - M
    <3>1. k \in 1 .. N /\ k \in 1 .. N + 1 /\ fs[j] = es[k] /\ j = M + k
      BY <1>1, <2>2
    <3> HIDE DEF k
    <3>2. Transfer!Before(fs)[j] = Transfer!Bytes(ds) + Transfer!Before(es)[k]
      BY <1>2, <3>1
    <3>3. es[k].len \in Nat /\ Transfer!Before(es)[k] \in Nat
      BY <1>3, <1>n, <3>1
    <3>4. b \in 0 .. es[k].len - 1 /\ b \in Nat
      BY <3>1, <3>3
    <3>5. Transfer!BusOf(a, p + Transfer!Bytes(ds) + Transfer!Before(es)[k] + b) = es[k].addr + b
      BY <1>4, <3>1, <3>4
    <3>6. p + Transfer!Before(fs)[j] + b = p + Transfer!Bytes(ds) + Transfer!Before(es)[k] + b
      BY <1>3, <3>2, <3>3, <3>4
    <3>7. QED BY <3>1, <3>5, <3>6
  <2>3. QED BY <1>1, <2>1, <2>2
<1>6. QED BY <1>1, <1>5 DEF LaidFrom, fs

\* An entry cut into pieces is the entry.
LEMMA PiecesCover ==
  ASSUME NEW e \in SgEntries, e.len # 0, NEW a, NEW p \in Nat,
         \A b \in 0 .. e.len - 1 : Transfer!BusOf(a, p + b) = e.addr + b
  PROVE  /\ Transfer!Pieces(e) \in Seq(SgEntries)
         /\ \A k \in 1 .. Len(Transfer!Pieces(e)) : Transfer!Pieces(e)[k].len \in 1 .. BlenMax
         /\ LaidFrom(a, Transfer!Pieces(e), p)
         /\ Transfer!Bytes(Transfer!Pieces(e)) = e.len
<1> DEFINE B == BlenMax
           N == (e.len + B - 1) \div B
           m(k) == (k - 1) * B
           w(k) == Transfer!Smaller(B, e.len - m(k))
           d(k) == [addr |-> e.addr + m(k), len |-> w(k)]
           s == Transfer!Pieces(e)
           g == [k \in 1 .. N + 1 |-> IF k = N + 1 THEN e.len ELSE m(k)]
<1>1. B \in Nat \ {0} /\ e.len \in Nat \ {0} /\ e.addr \in Nat
  BY SgConstants DEF SgEntries
<1>2. N \in Nat \ {0} /\ (N - 1) * B < e.len /\ e.len <= N * B
  <2> HIDE DEF B
  <2>1. QED BY <1>1, RoundedUp
<1>3. s = [k \in 1 .. N |-> d(k)]
  BY DEF Transfer!Pieces
<1> HIDE DEF s, N, B
<1>4. ASSUME NEW k \in 1 .. N
      PROVE  /\ m(k) \in Nat /\ m(k) < e.len
             /\ m(k + 1) = m(k) + B /\ (k < N => m(k) + B < e.len)
             /\ (k = N => e.len <= m(k) + B)
  <2>1. k \in Int /\ k - 1 \in Int /\ 0 <= k - 1 /\ k - 1 <= N - 1 /\ N - 1 \in Int
    BY <1>2
  <2>2. 0 * B <= (k - 1) * B /\ (k - 1) * B \in Int
    BY <1>1, <2>1, Times
  <2>3. (k - 1) * B <= (N - 1) * B /\ (N - 1) * B \in Int
    BY <1>1, <2>1, Times
  <2>4. (k + 1 - 1) * B = (k - 1) * B + B
    BY <1>1, <2>1
  <2>5. ASSUME k < N PROVE (k - 1) * B + B <= (N - 1) * B
    <3>1. k <= N - 1
      BY <1>2, <2>1, <2>5
    <3>2. k * B <= (N - 1) * B
      BY <1>1, <2>1, <3>1, Times
    <3>3. k * B = (k - 1) * B + B
      BY <1>1, <2>1
    <3>4. QED BY <3>2, <3>3
  <2>6. k = N => N * B = (k - 1) * B + B
    BY <1>1, <2>1
  <2>7. 0 * B = 0
    BY <1>1
  <2>8. QED BY <1>1, <1>2, <2>2, <2>3, <2>4, <2>5, <2>6, <2>7
<1>5. m(1) = 0
  BY <1>1
<1> HIDE DEF m
<1>6. ASSUME NEW k \in 1 .. N
      PROVE  /\ w(k) \in 1 .. B /\ m(k) + w(k) <= e.len
             /\ w(k) = IF k < N THEN B ELSE e.len - m(k)
  BY <1>1, <1>2, <1>4 DEF Transfer!Smaller
<1> HIDE DEF w
<1>7. ASSUME NEW k \in 1 .. N PROVE d(k) \in SgEntries /\ d(k).len = w(k) /\ d(k).addr = e.addr + m(k)
  BY <1>1, <1>4, <1>6 DEF SgEntries
<1> HIDE DEF d
<1>8. s \in Seq(SgEntries) /\ Len(s) = N /\ \A k \in 1 .. N : s[k] = d(k)
  <2>1. s \in [1 .. N -> SgEntries]
    BY <1>3, <1>7
  <2>2. QED BY <1>2, <1>3, <2>1
<1>g. /\ g[N + 1] = e.len /\ \A k \in 1 .. N : g[k] = m(k)
  BY <1>2
<1> HIDE DEF g
<1>9. \A k \in 1 .. N + 1 : Transfer!Before(s)[k] = g[k]
  <2>1. g[1] = 0
    BY <1>2, <1>5, <1>g
  <2>2. ASSUME NEW k \in 1 .. N PROVE g[k + 1] = g[k] + s[k].len
    <3>1. g[k] = m(k) /\ s[k].len = w(k)
      BY <1>7, <1>8, <1>g
    <3>2. CASE k = N
      <4>1. g[k + 1] = e.len /\ w(k) = e.len - m(k)
        BY <1>2, <1>6, <1>g, <3>2
      <4>2. QED BY <1>1, <1>4, <3>1, <4>1
    <3>3. CASE k # N
      <4>1. k < N /\ k + 1 \in 1 .. N
        BY <1>2, <3>3
      <4>2. g[k + 1] = m(k + 1) /\ w(k) = B
        BY <1>6, <1>g, <4>1
      <4>3. QED BY <1>4, <3>1, <4>2
    <3>4. QED BY <3>2, <3>3
  <2>3. \A k \in 1 .. Len(s) : g[k + 1] = g[k] + s[k].len
    BY <1>8, <2>2
  <2>4. s \in Seq(SgEntries)
    BY <1>8
  <2>5. \A k \in 1 .. Len(s) + 1 : Transfer!Before(s)[k] = g[k]
    BY <2>1, <2>3, <2>4, BeforeUnique, LensNat
  <2>6. QED BY <1>8, <2>5
<1>10. Transfer!Bytes(s) = e.len
  <2>1. N + 1 \in 1 .. N + 1
    BY <1>2
  <2>2. QED BY <1>8, <1>9, <1>g, <2>1 DEF Transfer!Bytes
<1>11. LaidFrom(a, s, p)
  <2>1. ASSUME NEW k \in 1 .. N, NEW b \in 0 .. s[k].len - 1
        PROVE  Transfer!BusOf(a, p + Transfer!Before(s)[k] + b) = s[k].addr + b
    <3>1. s[k].len = w(k) /\ s[k].addr = e.addr + m(k)
      BY <1>7, <1>8
    <3>2. Transfer!Before(s)[k] = m(k)
      BY <1>2, <1>9, <1>g
    <3>3. m(k) \in Nat /\ w(k) \in 1 .. B /\ m(k) + w(k) <= e.len
      BY <1>4, <1>6
    <3>4. b \in Nat /\ m(k) + b \in 0 .. e.len - 1
      BY <1>1, <3>1, <3>3
    <3>5. Transfer!BusOf(a, p + (m(k) + b)) = e.addr + (m(k) + b)
      BY <3>4
    <3>6. p + (m(k) + b) = p + m(k) + b /\ e.addr + (m(k) + b) = e.addr + m(k) + b
      BY <1>1, <3>3, <3>4
    <3>7. QED BY <3>1, <3>2, <3>5, <3>6
  <2>2. QED BY <1>8, <2>1 DEF LaidFrom
<1>12. \A k \in 1 .. N : s[k].len \in 1 .. B
  BY <1>6, <1>7, <1>8
<1>13. QED BY <1>8, <1>10, <1>11, <1>12 DEF s, B

\* Descriptors that hold bytes are there.
LEMMA NonEmptyBytes ==
  ASSUME NEW S, \A e \in S : e.len \in Nat, NEW ds \in Seq(S), Transfer!Bytes(ds) # 0
  PROVE  ds # <<>> /\ Len(ds) \in Nat \ {0}
<1>1. Transfer!Before(ds)[1] = 0
  BY BeforeFacts
<1>2. Len(ds) \in Nat
  OBVIOUS
<1>3. Len(ds) # 0
  <2>1. ASSUME Len(ds) = 0 PROVE FALSE
    <3>1. Transfer!Bytes(ds) = Transfer!Before(ds)[1]
      BY <2>1 DEF Transfer!Bytes
    <3>2. QED BY <1>1, <3>1
  <2>2. QED BY <2>1
<1>4. QED BY <1>2, <1>3

\* The descriptors of a request hold what its list holds.
LEMMA RequestCovers ==
  ASSUME NEW a, NEW s \in Seq(SgEntries), \A k \in 1 .. Len(s) : s[k].len # 0, Covers(a, s),
         NEW ds, ds = Transfer!FlattenSeq([k \in DOMAIN s |-> Transfer!Pieces(s[k])])
  PROVE  /\ ds \in Seq(SgEntries) /\ Covers(a, ds)
         /\ \A j \in 1 .. Len(ds) : ds[j].len \in 1 .. BlenMax
<1> DEFINE N == Len(s)
           ss == [k \in DOMAIN s |-> Transfer!Pieces(s[k])]
           b == Transfer!Before(s)
<1>1. N \in Nat /\ DOMAIN s = 1 .. N
  OBVIOUS
<1>2. /\ b \in [1 .. N + 1 -> Nat] /\ b[1] = 0 /\ \A k \in 1 .. N : b[k + 1] = b[k] + s[k].len
  BY BeforeFacts, LensNat
<1>3. LaidFrom(a, s, 0) /\ Transfer!Bytes(s) = a.len
  BY DEF Covers
<1>4. ASSUME NEW k \in 1 .. N
      PROVE  /\ ss[k] \in Seq(SgEntries)
             /\ \A j \in 1 .. Len(ss[k]) : ss[k][j].len \in 1 .. BlenMax
             /\ LaidFrom(a, ss[k], b[k])
             /\ Transfer!Bytes(ss[k]) = s[k].len
  <2>1. s[k] \in SgEntries /\ s[k].len # 0 /\ ss[k] = Transfer!Pieces(s[k])
    BY <1>1
  <2>2. b[k] \in Nat /\ 0 + b[k] = b[k]
    BY <1>1, <1>2
  <2>3. \A c \in 0 .. s[k].len - 1 : Transfer!BusOf(a, 0 + b[k] + c) = s[k].addr + c
    BY <1>3 DEF LaidFrom
  <2> HIDE DEF b, ss
  <2>4. \A c \in 0 .. s[k].len - 1 : Transfer!BusOf(a, b[k] + c) = s[k].addr + c
    BY <2>2, <2>3
  <2>5. QED BY <2>1, <2>2, <2>4, PiecesCover
<1>5. ss \in Seq(Seq(SgEntries)) /\ Len(ss) = N
  <2>1. ss \in [1 .. N -> Seq(SgEntries)]
    BY <1>1, <1>4
  <2>2. QED BY <1>1, <2>1
<1>6. PICK f \in [0 .. N -> Seq(SgEntries)] :
         /\ f[0] = <<>>
         /\ \A k \in 1 .. N : f[k] = f[k - 1] \o ss[k]
         /\ ds = f[N]
  <2>1. ds = Transfer!FlattenSeq(ss)
    OBVIOUS
  <2> HIDE DEF ss, N
  <2>2. \E f \in [0 .. Len(ss) -> Seq(SgEntries)] :
            /\ f[0] = <<>>
            /\ \A i \in 1 .. Len(ss) : f[i] = f[i - 1] \o ss[i]
            /\ Transfer!FlattenSeq(ss) = f[Len(ss)]
    BY <1>5, FlattenFacts
  <2>3. QED BY <1>5, <2>1, <2>2
<1> DEFINE Good(x, k) == /\ LaidFrom(a, x, 0) /\ Transfer!Bytes(x) = b[k + 1]
                         /\ \A j \in 1 .. Len(x) : x[j].len \in 1 .. BlenMax
           T == {k \in Nat : Good(f[k], k)}
<1> HIDE DEF ss, b, N
<1>7. 0 \in T
  <2>1. f[0] = <<>> /\ Len(<<>>) = 0 /\ <<>> \in Seq(SgEntries)
    BY <1>6
  <2>2. Transfer!Bytes(<<>>) = 0
    <3>1. Transfer!Before(<<>>)[1] = 0
      BY <2>1, BeforeFacts, LensNat
    <3>2. QED BY <2>1, <3>1 DEF Transfer!Bytes
  <2>3. b[0 + 1] = 0
    BY <1>2
  <2>4. LaidFrom(a, <<>>, 0)
    BY <2>1 DEF LaidFrom
  <2>5. QED BY <2>1, <2>2, <2>3, <2>4
<1>8. ASSUME NEW k \in 0 .. N - 1, k \in T PROVE k + 1 \in T
  <2> DEFINE n == k + 1
             x == f[k]
             y == ss[n]
  <2>1. n \in 1 .. N /\ n - 1 = k /\ n \in Nat /\ k \in 0 .. N
    BY <1>1
  <2> HIDE DEF n
  <2>2. f[n] = x \o y
    BY <1>6, <2>1
  <2>3. x \in Seq(SgEntries) /\ y \in Seq(SgEntries)
    BY <1>4, <1>6, <2>1
  <2>4. Good(x, k)
    BY <1>8
  <2>5. LaidFrom(a, x, 0) /\ Transfer!Bytes(x) = b[n] /\ \A j \in 1 .. Len(x) : x[j].len \in 1 .. BlenMax
    BY <2>4 DEF n
  <2>6. LaidFrom(a, y, b[n]) /\ Transfer!Bytes(y) = s[n].len /\ \A j \in 1 .. Len(y) : y[j].len \in 1 .. BlenMax
    BY <1>4, <2>1
  <2> HIDE DEF x, y
  <2>7. LaidFrom(a, x \o y, 0)
    <3>1. 0 + Transfer!Bytes(x) = b[n]
      BY <1>1, <1>2, <2>1, <2>5
    <3>2. QED BY <2>3, <2>5, <2>6, <3>1, LaidConcat
  <2>8. Transfer!Bytes(x \o y) = b[n + 1]
    <3>1. Transfer!Bytes(x \o y) = Transfer!Bytes(x) + Transfer!Bytes(y)
      BY <2>3, LensNat, BeforeConcat
    <3>2. QED BY <1>2, <2>1, <2>5, <2>6, <3>1
  <2>9. \A j \in 1 .. Len(x \o y) : (x \o y)[j].len \in 1 .. BlenMax
    <3>1. Len(x \o y) = Len(x) + Len(y) /\ Len(x) \in Nat /\ Len(y) \in Nat
          /\ \A j \in 1 .. Len(x) + Len(y) : (x \o y)[j] = IF j <= Len(x) THEN x[j] ELSE y[j - Len(x)]
      BY <2>3, ConcatProperties
    <3>2. ASSUME NEW j \in 1 .. Len(x) + Len(y) PROVE (x \o y)[j].len \in 1 .. BlenMax
      <4>1. CASE j <= Len(x)
        <5>1. j \in 1 .. Len(x)
          BY <3>1, <4>1
        <5>2. QED BY <2>5, <3>1, <4>1, <5>1
      <4>2. CASE ~(j <= Len(x))
        <5>1. j - Len(x) \in 1 .. Len(y)
          BY <3>1, <4>2
        <5>2. QED BY <2>6, <3>1, <4>2, <5>1
      <4>3. QED BY <4>1, <4>2
    <3>3. QED BY <3>1, <3>2
  <2>10. Good(f[n], n)
    BY <2>2, <2>7, <2>8, <2>9
  <2> HIDE DEF Good
  <2>11. n \in T
    BY <2>1, <2>10
  <2>12. QED BY <2>11 DEF n
<1>9. N \in T
  <2> HIDE DEF T
  <2>1. 0 .. N \subseteq T
    BY <1>1, <1>7, <1>8, InductiveTo
  <2>2. QED BY <1>1, <2>1
<1>10. Good(ds, N)
  BY <1>6, <1>9
<1>11. ds \in Seq(SgEntries)
  BY <1>1, <1>6
<1>12. QED BY <1>3, <1>10, <1>11 DEF Covers, Transfer!Bytes, b, N

-----------------------------------------------------------------------------
\* The offset in a window: masking by a power of two less one is the remainder.

\* The row of a number in the table And, from that of its half.
AndRow(h, a) == [b \in Nat |-> IF a = 0 \/ b = 0 THEN 0
                              ELSE 2 * h[b \div 2] + (a % 2) * (b % 2)]
\* f holds the first rows of the table.
AndTo(f, n) == f = [a \in 0 .. n |-> AndRow(f[a \div 2], a)]

\* Halving ends.
LEMMA Half ==
  ASSUME NEW a \in Nat
  PROVE  a \div 2 \in 0 .. a /\ (a # 0 => a \div 2 <= a - 1)
OBVIOUS

\* The row of zero is that of nothing.
LEMMA RowOfZero == ASSUME NEW g, NEW h PROVE AndRow(g, 0) = AndRow(h, 0)
BY DEF AndRow

\* There is such a table, however long: by induction.
LEMMA AndsExist ==
  ASSUME NEW n \in Nat
  PROVE  \E f : AndTo(f, n)
<1> DEFINE S == {m \in Nat : \E f : AndTo(f, m)}
<1>1. 0 \in S
  <2> DEFINE g == [a \in 0 .. 0 |-> AndRow(0, a)]
  <2>1. \A a \in 0 .. 0 : g[a] = AndRow(0, 0) /\ a = 0
    OBVIOUS
  <2>2. \A a \in 0 .. 0 : g[a] = AndRow(g[a \div 2], a)
    BY <2>1, RowOfZero
  <2>3. g = [a \in 0 .. 0 |-> g[a]]
    OBVIOUS
  <2> HIDE DEF g
  <2>4. AndTo(g, 0)
    BY <2>2, <2>3 DEF AndTo
  <2>5. QED BY <2>4
<1>2. ASSUME NEW m \in Nat, m \in S PROVE m + 1 \in S
  <2>1. PICK f : AndTo(f, m)
    BY <1>2
  <2> DEFINE n1 == m + 1
             row == AndRow(f[n1 \div 2], n1)
             g == [a \in 0 .. n1 |-> IF a = n1 THEN row ELSE f[a]]
  <2>2. n1 \in Nat \ {0} /\ n1 \div 2 \in 0 .. m /\ m = n1 - 1
    OBVIOUS
  <2> HIDE DEF n1, row
  <2>3. g[n1] = row /\ (\A a \in 0 .. m : g[a] = f[a]) /\ g = [a \in 0 .. n1 |-> g[a]]
    BY <2>2
  <2> HIDE DEF g
  <2>4. ASSUME NEW a \in 0 .. n1 PROVE g[a] = AndRow(g[a \div 2], a)
    <3>1. CASE a = n1
      <4>1. g[n1 \div 2] = f[n1 \div 2]
        BY <2>2, <2>3
      <4>2. QED BY <2>3, <3>1, <4>1 DEF row
    <3>2. CASE a # n1
      <4>1. a \in 0 .. m /\ a \in Nat
        BY <2>2, <3>2
      <4>2. a \div 2 \in 0 .. m
        BY <4>1, Half
      <4>3. f[a] = AndRow(f[a \div 2], a)
        BY <2>1, <4>1 DEF AndTo
      <4>4. QED BY <2>3, <4>1, <4>2, <4>3
    <3>3. QED BY <3>1, <3>2
  <2>5. AndTo(g, n1)
    BY <2>3, <2>4 DEF AndTo
  <2>6. QED BY <2>5 DEF n1
<1>3. Nat \subseteq S
  <2> HIDE DEF S
  <2> QED BY <1>1, <1>2, Inductive
<1>4. QED BY <1>3

\* Tables agree as far as both go.
LEMMA AndsAgree ==
  ASSUME NEW f, NEW n \in Nat, AndTo(f, n), NEW g, NEW m \in Nat, AndTo(g, m),
         NEW k \in Nat, k <= n, k <= m
  PROVE  f[k] = g[k]
<1> DEFINE T == {i \in Nat : \A j \in 0 .. i : j <= n /\ j <= m => f[j] = g[j]}
<1>1. ASSUME NEW j \in Nat, j <= n, j <= m PROVE f[j] = AndRow(f[j \div 2], j) /\ g[j] = AndRow(g[j \div 2], j)
  <2>1. j \in 0 .. n /\ j \in 0 .. m
    BY <1>1
  <2>2. QED BY <2>1 DEF AndTo
<1>2. 0 \in T
  <2>1. f[0] = g[0]
    <3>1. f[0] = AndRow(f[0 \div 2], 0) /\ g[0] = AndRow(g[0 \div 2], 0)
      BY <1>1
    <3>2. QED BY <3>1, RowOfZero
  <2>2. \A j \in 0 .. 0 : j = 0
    OBVIOUS
  <2>3. QED BY <2>1, <2>2
<1>3. ASSUME NEW i \in Nat, i \in T PROVE i + 1 \in T
  <2>1. ASSUME NEW j \in 0 .. i + 1, j <= n, j <= m PROVE f[j] = g[j]
    <3>1. CASE j <= i
      BY <1>3, <2>1, <3>1
    <3>2. CASE j = i + 1
      <4>1. j \in Nat /\ j \div 2 \in 0 .. i /\ j \div 2 <= n /\ j \div 2 <= m
        BY <2>1, <3>2, Half
      <4>2. f[j \div 2] = g[j \div 2]
        BY <1>3, <4>1
      <4>3. QED BY <1>1, <2>1, <4>1, <4>2
    <3>3. QED BY <3>1, <3>2
  <2>2. QED BY <2>1
<1>4. Nat \subseteq T
  <2> HIDE DEF T
  <2> QED BY <1>2, <1>3, Inductive
<1>5. k \in T
  BY <1>4
<1>6. QED BY <1>5

\* What And is: a table of such rows.
LEMMA AndIs == \A a \in Nat : Transfer!And[a] = AndRow(Transfer!And[a \div 2], a)
<1> DEFINE Is(f) == f = [a \in Nat |-> AndRow(f[a \div 2], a)]
           c(n) == CHOOSE f : AndTo(f, n)
           F == [a \in Nat |-> c(a)[a]]
<1>1. \A n \in Nat : AndTo(c(n), n)
  BY AndsExist
<1> HIDE DEF c
<1>2. ASSUME NEW a \in Nat PROVE F[a] = AndRow(F[a \div 2], a)
  <2> DEFINE h == a \div 2
  <2>1. h \in Nat /\ h <= a
    BY Half
  <2>2. c(a)[a] = AndRow(c(a)[h], a)
    <3>1. a \in 0 .. a
      OBVIOUS
    <3>2. AndTo(c(a), a)
      BY <1>1
    <3>3. QED BY <3>1, <3>2 DEF AndTo
  <2> HIDE DEF h
  <2>3. c(a)[h] = c(h)[h]
    BY <1>1, <2>1, AndsAgree
  <2>4. F[a] = c(a)[a] /\ F[h] = c(h)[h]
    BY <2>1
  <2> HIDE DEF F
  <2>5. QED BY <2>2, <2>3, <2>4 DEF h
<1>3. F = [a \in Nat |-> F[a]]
  OBVIOUS
<1> HIDE DEF F
<1>4. Is(F)
  BY <1>2, <1>3
<1>5. Transfer!And = CHOOSE f : Is(f)
  BY DEF Transfer!And, AndRow
<1>6. Is(Transfer!And)
  <2> HIDE DEF Is
  <2> QED BY <1>4, <1>5
<1>7. QED BY <1>6

\* Its values are numbers.
LEMMA AndTyped == \A a \in Nat : Transfer!And[a] \in [Nat -> Nat]
<1> DEFINE T == {i \in Nat : \A j \in 0 .. i : Transfer!And[j] \in [Nat -> Nat]}
<1>0. ASSUME NEW h, NEW a \in Nat, a = 0 \/ h \in [Nat -> Nat] PROVE AndRow(h, a) \in [Nat -> Nat]
  <2>1. CASE a = 0
    BY <2>1 DEF AndRow
  <2>2. CASE h \in [Nat -> Nat]
    <3>1. ASSUME NEW b \in Nat PROVE 2 * h[b \div 2] + (a % 2) * (b % 2) \in Nat
      <4>1. b \div 2 \in Nat
        BY Half
      <4>2. h[b \div 2] \in Nat
        BY <2>2, <4>1
      <4>3. a % 2 \in 0 .. 1 /\ b % 2 \in 0 .. 1
        OBVIOUS
      <4>4. (a % 2) * (b % 2) \in Nat
        BY <4>3
      <4>5. QED BY <4>2, <4>4
    <3>2. QED BY <3>1 DEF AndRow
  <2>3. QED BY <1>0, <2>1, <2>2
<1>1. 0 \in T
  <2>1. Transfer!And[0] \in [Nat -> Nat]
    BY <1>0, AndIs
  <2>2. \A j \in 0 .. 0 : j = 0
    OBVIOUS
  <2>3. QED BY <2>1, <2>2
<1>2. ASSUME NEW i \in Nat, i \in T PROVE i + 1 \in T
  <2>1. ASSUME NEW j \in 0 .. i + 1 PROVE Transfer!And[j] \in [Nat -> Nat]
    <3>1. CASE j <= i
      BY <1>2, <3>1
    <3>2. CASE j = i + 1
      <4>1. j \in Nat /\ j \div 2 \in 0 .. i
        BY <3>2, Half
      <4>2. Transfer!And[j \div 2] \in [Nat -> Nat]
        BY <1>2, <4>1
      <4>3. AndRow(Transfer!And[j \div 2], j) \in [Nat -> Nat]
        BY <1>0, <4>1, <4>2
      <4>4. QED BY <4>1, <4>3, AndIs
    <3>3. QED BY <3>1, <3>2
  <2>2. QED BY <2>1
<1>3. Nat \subseteq T
  <2> HIDE DEF T
  <2> QED BY <1>1, <1>2, Inductive
<1>4. QED BY <1>3

\* The last bit of an odd number, and the rest.
LEMMA AndOdd ==
  ASSUME NEW x \in Nat, NEW m \in Nat
  PROVE  Transfer!And[x][2 * m + 1] = 2 * Transfer!And[x \div 2][m] + (x % 2)
<1>1. Transfer!And[x] = AndRow(Transfer!And[x \div 2], x)
  BY AndIs
<1>2. (2 * m + 1) \div 2 = m /\ (2 * m + 1) % 2 = 1 /\ 2 * m + 1 \in Nat /\ 2 * m + 1 # 0
  OBVIOUS
<1>3. CASE x = 0
  <2>1. Transfer!And[x][2 * m + 1] = 0
    BY <1>1, <1>2, <1>3 DEF AndRow
  <2>2. x \div 2 = 0 /\ x % 2 = 0
    BY <1>3
  <2>3. Transfer!And[0] = AndRow(Transfer!And[0 \div 2], 0)
    BY AndIs
  <2>4. Transfer!And[0][m] = 0
    BY <2>3 DEF AndRow
  <2>5. QED BY <2>1, <2>2, <2>4
<1>4. CASE x # 0
  <2> DEFINE h == Transfer!And[x \div 2]
             n == 2 * m + 1
  <2>1. n \in Nat /\ n # 0 /\ n \div 2 = m /\ n % 2 = 1
    BY <1>2
  <2> HIDE DEF n
  <2>2. AndRow(h, x)[n] = 2 * h[n \div 2] + (x % 2) * (n % 2)
    BY <1>4, <2>1 DEF AndRow
  <2>3. (x % 2) * 1 = x % 2
    OBVIOUS
  <2>4. QED BY <1>1, <2>1, <2>2, <2>3 DEF n
<1>5. QED BY <1>3, <1>4

\* Nothing has no bits.
LEMMA AndZero == ASSUME NEW x \in Nat PROVE Transfer!And[x][0] = 0
<1>1. Transfer!And[x] = AndRow(Transfer!And[x \div 2], x)
  BY AndIs
<1>2. QED BY <1>1 DEF AndRow

\* Where in a window whose length is a power of two an offset lies.
LEMMA AndModulo ==
  ASSUME NEW x \in Nat, NEW w \in Transfer!PowersOfTwo
  PROVE  Transfer!And[x][w - 1] = x % w
<1>0. \A y \in Nat : y \div 2 \in Nat
  BY Half
<1>1. \A y \in Nat : Transfer!And[y][1] = y % 2
  <2>1. ASSUME NEW y \in Nat PROVE Transfer!And[y][1] = y % 2
    <3>1. Transfer!And[y][2 * 0 + 1] = 2 * Transfer!And[y \div 2][0] + (y % 2)
      BY AndOdd
    <3>2. Transfer!And[y \div 2][0] = 0
      BY <1>0, AndZero
    <3>3. QED BY <3>1, <3>2
  <2>2. QED BY <2>1
<1>2. \A y \in Nat : Transfer!And[y][3] = y % 4
  <2>1. ASSUME NEW y \in Nat PROVE Transfer!And[y][3] = y % 4
    <3>1. Transfer!And[y][2 * 1 + 1] = 2 * Transfer!And[y \div 2][1] + (y % 2)
      BY AndOdd
    <3>2. Transfer!And[y \div 2][1] = (y \div 2) % 2
      BY <1>0, <1>1
    <3>3. 2 * ((y \div 2) % 2) + (y % 2) = y % 4
      OBVIOUS
    <3>4. Transfer!And[y][3] = 2 * ((y \div 2) % 2) + (y % 2)
      BY <3>1, <3>2
    <3>5. QED BY <3>3, <3>4
  <2>2. QED BY <2>1
<1>3. \A y \in Nat : Transfer!And[y][7] = y % 8
  <2>1. ASSUME NEW y \in Nat PROVE Transfer!And[y][7] = y % 8
    <3>1. Transfer!And[y][2 * 3 + 1] = 2 * Transfer!And[y \div 2][3] + (y % 2)
      BY AndOdd
    <3>2. Transfer!And[y \div 2][3] = (y \div 2) % 4
      BY <1>0, <1>2
    <3>3. 2 * ((y \div 2) % 4) + (y % 2) = y % 8
      OBVIOUS
    <3>4. Transfer!And[y][7] = 2 * ((y \div 2) % 4) + (y % 2)
      BY <3>1, <3>2
    <3>5. QED BY <3>3, <3>4
  <2>2. QED BY <2>1
<1>4. \A y \in Nat : Transfer!And[y][15] = y % 16
  <2>1. ASSUME NEW y \in Nat PROVE Transfer!And[y][15] = y % 16
    <3>1. Transfer!And[y][2 * 7 + 1] = 2 * Transfer!And[y \div 2][7] + (y % 2)
      BY AndOdd
    <3>2. Transfer!And[y \div 2][7] = (y \div 2) % 8
      BY <1>0, <1>3
    <3>3. 2 * ((y \div 2) % 8) + (y % 2) = y % 16
      OBVIOUS
    <3>4. Transfer!And[y][15] = 2 * ((y \div 2) % 8) + (y % 2)
      BY <3>1, <3>2
    <3>5. QED BY <3>3, <3>4
  <2>2. QED BY <2>1
<1>5. w \in {1, 2, 4, 8, 16}
  BY DEF Transfer!PowersOfTwo
<1>6. CASE w = 1
  BY <1>6, AndZero
<1>7. CASE w = 2
  BY <1>1, <1>7
<1>8. CASE w = 4
  BY <1>2, <1>8
<1>9. CASE w = 8
  BY <1>3, <1>9
<1>10. CASE w = 16
  BY <1>4, <1>10
<1>11. QED BY <1>5, <1>6, <1>7, <1>8, <1>9, <1>10

-----------------------------------------------------------------------------
\* The walk of an aperture over its list (xdma_xfer_aperture).

\* The walk of an aperture, turn by turn.
Descs == [addr : Nat, ep : Nat, len : Nat]
\* A walk under way.
Walkers == [i : Nat \ {0}, sg : Nat \ {0}, into : Nat, descs : Seq(Descs), ep : Nat]

\* f is the walk, for n turns.
Walks(f, n) == f = [k \in 0 .. n |-> IF k = 0 THEN Transfer!WalkBegin ELSE Transfer!WalkTurn(f[k - 1])]

\* There is such a function, whatever n is: by induction.
LEMMA WalksExist ==
  ASSUME NEW n \in Nat
  PROVE  \E f : Walks(f, n)
<1> DEFINE S == {m \in Nat : \E f : Walks(f, m)}
<1>1. 0 \in S
  <2> DEFINE g == [k \in 0 .. 0 |-> Transfer!WalkBegin]
  <2>1. g = [k \in 0 .. 0 |-> IF k = 0 THEN Transfer!WalkBegin ELSE Transfer!WalkTurn(g[k - 1])]
    OBVIOUS
  <2> HIDE DEF g
  <2>2. Walks(g, 0)
    BY <2>1 DEF Walks
  <2>3. QED BY <2>2
<1>2. ASSUME NEW m \in Nat, m \in S PROVE m + 1 \in S
  <2>1. PICK f : Walks(f, m)
    BY <1>2
  <2> DEFINE g == [k \in 0 .. m + 1 |-> IF k = 0 THEN Transfer!WalkBegin ELSE
                     IF k = m + 1 THEN Transfer!WalkTurn(f[k - 1]) ELSE f[k]]
  <2>2. ASSUME NEW k \in 0 .. m + 1
        PROVE g[k] = IF k = 0 THEN Transfer!WalkBegin ELSE Transfer!WalkTurn(g[k - 1])
    <3>1. CASE k = 0
      BY <3>1
    <3>2. CASE k # 0
      <4>1. k - 1 \in 0 .. m
        BY <3>2
      <4>2. f[k - 1] = IF k - 1 = 0 THEN Transfer!WalkBegin ELSE Transfer!WalkTurn(f[k - 1 - 1])
        BY <2>1, <4>1 DEF Walks
      <4>3. g[k - 1] = f[k - 1]
        BY <4>1, <4>2
      <4>4. CASE k = m + 1
        BY <3>2, <4>3, <4>4
      <4>5. CASE k # m + 1
        <5>1. k \in 0 .. m
          BY <4>5
        <5>2. f[k] = Transfer!WalkTurn(f[k - 1])
          BY <2>1, <3>2, <5>1 DEF Walks
        <5>3. QED BY <3>2, <4>3, <4>5, <5>2
      <4>6. QED BY <4>4, <4>5
    <3>3. QED BY <3>1, <3>2
  <2>3. g = [k \in 0 .. m + 1 |-> g[k]]
    OBVIOUS
  <2> HIDE DEF g
  <2>4. g = [k \in 0 .. m + 1 |-> IF k = 0 THEN Transfer!WalkBegin ELSE Transfer!WalkTurn(g[k - 1])]
    BY <2>2, <2>3
  <2>5. Walks(g, m + 1)
    BY <2>4 DEF Walks
  <2>6. QED BY <2>5
<1>3. Nat \subseteq S
  <2> HIDE DEF S
  <2> QED BY <1>1, <1>2, Inductive
<1>4. QED BY <1>3

\* What holds after the first turn and is kept by every turn holds at the end.
LEMMA WalkReaches ==
  ASSUME NEW S, Len(sg) \in Nat, Transfer!WalkTurn(Transfer!WalkBegin) \in S,
         \A w \in S : Transfer!WalkTurn(w) \in S
  PROVE  Transfer!Walked \in S
<1> DEFINE N == DescMax + Len(sg)
           walk == CHOOSE f : Walks(f, N)
           T == {k \in Nat : walk[k + 1] \in S}
<1>1. N \in Nat \ {0}
  BY SgConstants
<1>2. Transfer!Walked = walk[N]
  BY DEF Transfer!Walked, Walks
<1>3. Walks(walk, N)
  <2> HIDE DEF N
  <2> QED BY <1>1, WalksExist
<1> HIDE DEF walk, N
<1>4. walk[0] = Transfer!WalkBegin /\ \A k \in 1 .. N : walk[k] = Transfer!WalkTurn(walk[k - 1])
  BY <1>1, <1>3 DEF Walks
<1>5. 0 \in T
  <2>1. walk[1] = Transfer!WalkTurn(walk[1 - 1])
    BY <1>1, <1>4
  <2>2. QED BY <1>4, <2>1
<1>6. ASSUME NEW k \in 0 .. (N - 1) - 1, k \in T PROVE k + 1 \in T
  <2>1. k + 1 + 1 \in 1 .. N /\ k + 1 + 1 - 1 = k + 1
    BY <1>1
  <2>2. walk[k + 1 + 1] = Transfer!WalkTurn(walk[k + 1])
    BY <1>4, <2>1
  <2>3. QED BY <1>6, <2>2
<1>7. 0 .. N - 1 \subseteq T
  <2>1. N - 1 \in Nat
    BY <1>1
  <2> HIDE DEF T
  <2>2. QED BY <1>5, <1>6, <2>1, InductiveTo
<1>8. walk[N - 1 + 1] \in S
  BY <1>1, <1>7
<1>9. N - 1 + 1 = N
  BY <1>1
<1>10. QED BY <1>2, <1>8, <1>9

\* The descriptor a turn places, and the walk after it.
Placing(w, n, e) == [addr |-> sg[w.sg].addr + w.into, ep |-> e, len |-> n]
PlacedBy(w, n, e) ==
    [w EXCEPT !.into = @ + n, !.ep = e + n, !.descs = Append(@, Placing(w, n, e))]

\* A turn that places a descriptor: one that fits.
LEMMA PlaceFits ==
  ASSUME ask \in Asks, ask.aperture > 0, sg \in Seq(SgEntries), NEW w \in Walkers, w.sg <= Len(sg),
         Transfer!Left(w) # 0
  PROVE  \E n \in Nat \ {0}, e \in Nat :
            /\ e = Transfer!InWindow(w.ep)
            /\ n <= Transfer!Left(w) /\ Transfer!Left(w) \in Nat
            /\ e + n <= ask.ep + ask.aperture
            /\ Placing(w, n, e) \in Descs /\ PlacedBy(w, n, e) \in Walkers
            /\ Transfer!Place(w) = IF n = Transfer!Left(w) THEN Transfer!NextEntry(PlacedBy(w, n, e))
                                                           ELSE PlacedBy(w, n, e)
<1> DEFINE e == Transfer!InWindow(w.ep)
           l == Transfer!Left(w)
           n == Transfer!Smaller(Transfer!Smaller(l, Transfer!Smaller(ask.aperture, BlenMax)),
                     ask.ep + ask.aperture - e)
           d == Placing(w, n, e)
           v == PlacedBy(w, n, e)
<1>1. /\ w.sg \in Nat \ {0} /\ w.into \in Nat /\ w.ep \in Nat /\ w.descs \in Seq(Descs)
      /\ ask.ep \in Nat /\ ask.aperture \in Nat \ {0} /\ BlenMax \in Nat \ {0} /\ Word \in Nat \ {0}
  BY SgConstants DEF Walkers, Asks
<1>2. sg[w.sg] \in SgEntries
  BY <1>1
<1>3. sg[w.sg].addr \in Nat /\ sg[w.sg].len \in Nat
  BY <1>2 DEF SgEntries
<1>4. l \in Nat \ {0}
  <2>1. (sg[w.sg].len - w.into) % Word \in 0 .. Word - 1
    <3> DEFINE x == sg[w.sg].len - w.into
    <3>1. x \in Int
      BY <1>1, <1>3
    <3> HIDE DEF x
    <3>2. x % Word \in 0 .. Word - 1
      BY <1>1, <3>1, DividedBy
    <3>3. QED BY <3>2 DEF x
  <2>2. QED BY <1>1, <2>1 DEF Transfer!Left
<1>5. e \in Nat /\ e <= ask.ep + ask.aperture - 1
  BY <1>1 DEF Transfer!InWindow
<1> HIDE DEF e, l
<1>6. n \in Nat \ {0} /\ n <= l /\ n <= ask.ep + ask.aperture - e
  <2> DEFINE x == Transfer!Smaller(ask.aperture, BlenMax)
             y == Transfer!Smaller(l, x)
             z == ask.ep + ask.aperture - e
  <2>1. x \in Nat \ {0}
    BY <1>1, Smallest2
  <2> HIDE DEF x
  <2>2. y \in Nat \ {0} /\ y <= l
    BY <1>4, <2>1, Smallest2
  <2> HIDE DEF y
  <2>3. z \in Nat \ {0}
    BY <1>1, <1>5
  <2> HIDE DEF z
  <2>4. Transfer!Smaller(y, z) \in Nat \ {0} /\ Transfer!Smaller(y, z) <= l /\ Transfer!Smaller(y, z) <= z
    BY <1>4, <2>2, <2>3, Smallest2
  <2>5. QED BY <2>4 DEF x, y, z
<1>7. Transfer!Place(w) = IF n = l THEN Transfer!NextEntry(v) ELSE v
  BY DEF Transfer!Place, e, l, Placing, PlacedBy
<1> HIDE DEF n
<1>8. d \in Descs
  <2>1. sg[w.sg].addr + w.into \in Nat
    BY <1>1, <1>3
  <2>2. QED BY <1>5, <1>6, <2>1 DEF Descs, Placing
<1>9. v \in Walkers
  <2>1. Append(w.descs, d) \in Seq(Descs)
    BY <1>1, <1>8
  <2> HIDE DEF Placing
  <2>2. w.into + n \in Nat /\ e + n \in Nat
    BY <1>1, <1>5, <1>6
  <2>3. QED BY <2>1, <2>2 DEF Walkers, PlacedBy
<1>10. e + n <= ask.ep + ask.aperture
  BY <1>1, <1>5, <1>6
<1> HIDE DEF d, v
<1>12. /\ e = Transfer!InWindow(w.ep) /\ n <= l /\ l \in Nat
       /\ e + n <= ask.ep + ask.aperture
       /\ d \in Descs /\ v \in Walkers
       /\ Transfer!Place(w) = IF n = l THEN Transfer!NextEntry(v) ELSE v
  BY <1>4, <1>6, <1>7, <1>8, <1>9, <1>10 DEF e
<1>13. n \in Nat \ {0} /\ e \in Nat
  BY <1>5, <1>6
<1> USE <1>13
<1> WITNESS n \in Nat \ {0}, e \in Nat
<1>14. QED BY <1>12 DEF l, d, v

\* Field by field: the next entry, ...
LEMMA NextEntryFields ==
  ASSUME NEW w \in Walkers
  PROVE  LET u == Transfer!NextEntry(w) IN
         /\ u \in Walkers /\ u.i = w.i + 1 /\ u.sg = w.sg + 1 /\ u.into = 0
         /\ u.descs = w.descs /\ u.ep = w.ep
<1>1. w.i + 1 \in Nat \ {0} /\ w.sg + 1 \in Nat \ {0}
  BY DEF Walkers
<1>2. QED BY <1>1 DEF Transfer!NextEntry, Walkers

\* ... the descriptor placed, ...
LEMMA PlacedFields ==
  ASSUME NEW w \in Walkers, NEW n, NEW e
  PROVE  LET u == PlacedBy(w, n, e) IN
         /\ u.i = w.i /\ u.sg = w.sg /\ u.into = w.into + n
         /\ u.descs = Append(w.descs, Placing(w, n, e)) /\ u.ep = e + n
<1> DEFINE d == Placing(w, n, e)
<1> HIDE DEF Placing
<1>1. PlacedBy(w, n, e) = [w EXCEPT !.into = @ + n, !.ep = e + n, !.descs = Append(@, Placing(w, n, e))]
  BY DEF PlacedBy
<1>2. QED BY <1>1 DEF Walkers

\* ... and the turn.
LEMMA TurnPlaces ==
  ASSUME ask \in Asks, ask.aperture > 0, sg \in Seq(SgEntries), NEW w \in Walkers, w.sg <= w.i,
         ~Transfer!WalkEnds(w), Transfer!Left(w) # 0, NEW u, u = Transfer!WalkTurn(w)
  PROVE  \E n \in Nat \ {0}, e \in Nat :
            /\ e = Transfer!InWindow(w.ep)
            /\ n <= Transfer!Left(w) /\ Transfer!Left(w) \in Nat
            /\ e + n <= ask.ep + ask.aperture
            /\ Placing(w, n, e) \in Descs
            /\ u \in Walkers /\ u.descs = Append(w.descs, Placing(w, n, e)) /\ u.ep = e + n
            /\ n = Transfer!Left(w) => u.i = w.i + 1 /\ u.sg = w.sg + 1 /\ u.into = 0
            /\ n # Transfer!Left(w) => u.i = w.i /\ u.sg = w.sg /\ u.into = w.into + n
<1>1. w.sg <= Len(sg) /\ w.i \in Nat /\ w.sg \in Nat
  BY DEF Transfer!WalkEnds, Walkers
<1>2. PICK n \in Nat \ {0}, e \in Nat :
            /\ e = Transfer!InWindow(w.ep)
            /\ n <= Transfer!Left(w) /\ Transfer!Left(w) \in Nat
            /\ e + n <= ask.ep + ask.aperture
            /\ Placing(w, n, e) \in Descs /\ PlacedBy(w, n, e) \in Walkers
            /\ Transfer!Place(w) = IF n = Transfer!Left(w) THEN Transfer!NextEntry(PlacedBy(w, n, e))
                                                           ELSE PlacedBy(w, n, e)
  BY <1>1, PlaceFits
<1>3. u = Transfer!Place(w)
  BY DEF Transfer!WalkTurn
<1> DEFINE v == PlacedBy(w, n, e)
<1>4. /\ v \in Walkers /\ v.i = w.i /\ v.sg = w.sg /\ v.into = w.into + n
      /\ v.descs = Append(w.descs, Placing(w, n, e)) /\ v.ep = e + n
  BY <1>2, PlacedFields
<1>5. u = IF n = Transfer!Left(w) THEN Transfer!NextEntry(v) ELSE v
  BY <1>2, <1>3
<1> HIDE DEF v
<1>6. CASE n = Transfer!Left(w)
  <2>1. u = Transfer!NextEntry(v)
    BY <1>5, <1>6
  <2>2. u \in Walkers /\ u.i = v.i + 1 /\ u.sg = v.sg + 1 /\ u.into = 0 /\ u.descs = v.descs /\ u.ep = v.ep
    BY <1>4, <2>1, NextEntryFields
  <2>3. QED BY <1>2, <1>4, <1>6, <2>2
<1>7. CASE n # Transfer!Left(w)
  <2>1. u = v
    BY <1>5, <1>7
  <2>2. QED BY <1>2, <1>4, <1>7, <2>1
<1>8. QED BY <1>6, <1>7

\* Every turn keeps the walk within the list and the ring.
Walking == {w \in Walkers : w.sg <= w.i /\ desc_idx + Len(w.descs) <= DescMax}

\* A transfer of an aperture is to be made.
ApertureAsked ==
    /\ ask \in Asks /\ ask.aperture > 0 /\ sg \in Seq(SgEntries) /\ desc_idx \in Transfer!Slots
    /\ req.offset \in Nat /\ req.sg_idx \in Nat \ {0} /\ req.sg_offset \in Nat

\* The walk begins within list and ring, ...
LEMMA BeginWalks ==
  ASSUME ApertureAsked
  PROVE  /\ Transfer!WalkBegin \in Walking /\ Transfer!WalkBegin.descs = <<>>
         /\ Transfer!WalkBegin.i = req.sg_idx /\ Transfer!WalkBegin.sg = 1
         /\ Transfer!WalkBegin.into = req.sg_offset
         /\ Transfer!WalkBegin.ep = ask.ep + Transfer!And[req.offset][ask.aperture - 1]
<1> DEFINE x == Transfer!And[req.offset][ask.aperture - 1]
           w == Transfer!WalkBegin
<1>1. x \in Nat
  <2>1. ask.aperture \in Nat \ {0} /\ req.offset \in Nat
    BY DEF ApertureAsked, Asks
  <2>2. ask.aperture - 1 \in Nat
    BY <2>1
  <2>3. Transfer!And[req.offset] \in [Nat -> Nat]
    BY <2>1, AndTyped
  <2>4. QED BY <2>2, <2>3
<1>2. w = [i |-> req.sg_idx, sg |-> 1, into |-> req.sg_offset, descs |-> <<>>, ep |-> ask.ep + x]
  BY DEF Transfer!WalkBegin
<1> HIDE DEF x, w
<1>3. ask.ep + x \in Nat
  BY <1>1 DEF ApertureAsked, Asks
<1>4. <<>> \in Seq(Descs) /\ Len(<<>>) = 0
  OBVIOUS
<1>5. w \in Walkers
  BY <1>2, <1>3, <1>4 DEF Walkers, ApertureAsked
<1>6. w.descs = <<>> /\ w.i = req.sg_idx /\ w.sg = 1 /\ w.into = req.sg_offset /\ w.ep = ask.ep + x
  BY <1>2
<1>7. 1 <= req.sg_idx /\ desc_idx + 0 <= DescMax
  BY SgConstants DEF ApertureAsked, Transfer!Slots
<1>8. w \in Walking
  BY <1>4, <1>5, <1>6, <1>7 DEF Walking
<1>9. QED BY <1>6, <1>8 DEF w, x

\* ... and a turn stays there.
LEMMA TurnWalks ==
  ASSUME ApertureAsked, NEW w \in Walking, NEW u, u = Transfer!WalkTurn(w)
  PROVE  u \in Walking /\ Len(w.descs) <= Len(u.descs)
<1>1. w \in Walkers /\ w.sg <= w.i /\ desc_idx + Len(w.descs) <= DescMax
  BY DEF Walking
<1>0. /\ w.descs \in Seq(Descs) /\ Len(w.descs) \in Nat /\ w.i \in Nat /\ w.sg \in Nat
      /\ DescMax \in Nat /\ desc_idx \in Nat
  BY <1>1, SgConstants DEF Walkers, ApertureAsked, Transfer!Slots
<1>2. CASE Transfer!WalkEnds(w)
  BY <1>0, <1>2 DEF Transfer!WalkTurn
<1>3. CASE ~Transfer!WalkEnds(w) /\ Transfer!Left(w) = 0
  <2>1. u = Transfer!NextEntry(w)
    BY <1>3 DEF Transfer!WalkTurn
  <2>2. u \in Walkers /\ u.i = w.i + 1 /\ u.sg = w.sg + 1 /\ u.descs = w.descs
    BY <1>1, <2>1, NextEntryFields
  <2>3. QED BY <1>0, <1>1, <2>2 DEF Walking
<1>4. CASE ~Transfer!WalkEnds(w) /\ Transfer!Left(w) # 0
  <2>1. PICK n \in Nat \ {0}, e \in Nat :
            /\ Placing(w, n, e) \in Descs
            /\ u \in Walkers /\ u.descs = Append(w.descs, Placing(w, n, e))
            /\ n = Transfer!Left(w) => u.i = w.i + 1 /\ u.sg = w.sg + 1
            /\ n # Transfer!Left(w) => u.i = w.i /\ u.sg = w.sg
    BY <1>1, <1>4, TurnPlaces DEF ApertureAsked
  <2>2. u.sg <= u.i
    BY <1>0, <1>1, <2>1
  <2>3. desc_idx + Len(w.descs) # DescMax
    BY <1>4 DEF Transfer!WalkEnds
  <2>4. Len(u.descs) = Len(w.descs) + 1
    BY <1>0, <2>1
  <2>5. desc_idx + Len(u.descs) <= DescMax /\ Len(w.descs) <= Len(u.descs)
    BY <1>0, <1>1, <2>3, <2>4
  <2>6. QED BY <2>1, <2>2, <2>5 DEF Walking
<1>5. QED BY <1>2, <1>3, <1>4

\* So does the walk.
LEMMA WalkWithin == ASSUME ApertureAsked PROVE Transfer!Walked \in Walking
<1>1. Len(sg) \in Nat
  BY DEF ApertureAsked
<1>2. Transfer!WalkTurn(Transfer!WalkBegin) \in Walking
  BY BeginWalks, TurnWalks
<1>3. \A w \in Walking : Transfer!WalkTurn(w) \in Walking
  BY TurnWalks
<1>4. QED BY <1>1, <1>2, <1>3, WalkReaches

\* A transfer that starts at the list's first entry, where the call has come to.
InOneGo ==
    /\ ApertureAsked /\ sg = Transfer!ScatterList(ask)
    /\ req.sg_idx = 1 /\ req.sg_offset = req.offset /\ req.offset < sg[1].len

\* The walk has come to a byte of the list, and its descriptors lie on those before it.
Ordered(w) ==
    /\ w.sg = w.i /\ w.i <= Len(sg) + 1
    /\ w.i <= Len(sg) => w.into < sg[w.i].len
    /\ w.i = Len(sg) + 1 => w.into = 0
    /\ req.offset + Transfer!Bytes(w.descs) = Transfer!Before(sg)[w.i] + w.into
    /\ LaidFrom(ask, w.descs, req.offset)

\* Lengths are numbers.
LEMMA DescLens == \A e \in Descs : e.len \in Nat
BY DEF Descs

\* No descriptors, no bytes.
LEMMA BytesOfNone == Transfer!Bytes(<<>>) = 0
<1>1. <<>> \in Seq(Descs) /\ Len(<<>>) + 1 = 1
  OBVIOUS
<1>2. Transfer!Before(<<>>)[1] = 0
  BY <1>1, DescLens, BeforeFacts
<1>3. QED BY <1>1, <1>2 DEF Transfer!Bytes

\* The bytes of a list are a number.
LEMMA BytesNat ==
  ASSUME NEW S, \A e \in S : e.len \in Nat, NEW ds \in Seq(S)
  PROVE  Transfer!Bytes(ds) \in Nat
<1>1. Transfer!Before(ds) \in [1 .. Len(ds) + 1 -> Nat]
  BY BeforeFacts
<1>2. Len(ds) + 1 \in 1 .. Len(ds) + 1
  OBVIOUS
<1>3. QED BY <1>1, <1>2 DEF Transfer!Bytes

\* One descriptor added where the others end.
LEMMA LaidAppend ==
  ASSUME NEW a, NEW p \in Nat, NEW S, \A e \in S : e.len \in Nat, NEW ds \in Seq(S), NEW d \in S,
         LaidFrom(a, ds, p),
         \A b \in 0 .. d.len - 1 : Transfer!BusOf(a, p + Transfer!Bytes(ds) + b) = d.addr + b
  PROVE  LaidFrom(a, Append(ds, d), p)
<1> DEFINE es == Append(ds, d)
           c == Transfer!Before(es)
<1>1. Len(es) = Len(ds) + 1 /\ es[Len(ds) + 1] = d /\ (\A j \in 1 .. Len(ds) : es[j] = ds[j]) /\ Len(ds) \in Nat
  OBVIOUS
<1>2. \A j \in 1 .. Len(ds) + 1 : c[j] = Transfer!Before(ds)[j]
  BY BeforeAppend
<1> HIDE DEF es, c
<1>3. ASSUME NEW j \in 1 .. Len(es), NEW b \in 0 .. es[j].len - 1
      PROVE Transfer!BusOf(a, p + c[j] + b) = es[j].addr + b
  <2>1. CASE j \in 1 .. Len(ds)
    <3>1. es[j] = ds[j] /\ c[j] = Transfer!Before(ds)[j]
      BY <1>1, <1>2, <2>1
    <3>2. QED BY <2>1, <3>1 DEF LaidFrom
  <2>2. CASE j = Len(ds) + 1
    <3>1. es[j] = d /\ c[j] = Transfer!Bytes(ds)
      BY <1>1, <1>2, <2>2 DEF Transfer!Bytes
    <3>2. QED BY <3>1
  <2>3. QED BY <1>1, <2>1, <2>2
<1>4. QED BY <1>3 DEF LaidFrom, es, c

\* What the list of such a call is.
LEMMA ListOfAsk ==
  ASSUME InOneGo
  PROVE  /\ sg \in Seq(SgEntries) /\ Len(sg) \in Nat \ {0} /\ LaidFrom(ask, sg, 0)
         /\ \A i \in 1 .. Len(sg) : sg[i].len \in 1 .. Word - 1 /\ sg[i].addr \in Nat
         /\ Transfer!Before(sg) \in [1 .. Len(sg) + 1 -> Nat] /\ Transfer!Before(sg)[1] = 0
         /\ \A i \in 1 .. Len(sg) : Transfer!Before(sg)[i + 1] = Transfer!Before(sg)[i] + sg[i].len
         /\ Word \in Nat \ {0}
<1>1. ask \in Asks
  BY DEF InOneGo, ApertureAsked
<1>2. /\ sg \in Seq(SgEntries) /\ sg # <<>> /\ \A i \in 1 .. Len(sg) : sg[i].len \in 1 .. ask.len
      /\ LaidFrom(ask, sg, 0)
  BY <1>1, ScatterCovers DEF InOneGo, Covers
<1>3. ask.len \in 1 .. Word - 1 /\ Word \in Nat \ {0}
  BY <1>1, SgConstants DEF Asks
<1>4. \A i \in 1 .. Len(sg) : sg[i].len \in 1 .. Word - 1 /\ sg[i].addr \in Nat
  <2>1. \A i \in 1 .. Len(sg) : sg[i] \in SgEntries
    BY <1>2
  <2>2. QED BY <1>2, <1>3, <2>1 DEF SgEntries
<1>5. Len(sg) \in Nat \ {0}
  BY <1>2
<1>6. /\ Transfer!Before(sg) \in [1 .. Len(sg) + 1 -> Nat] /\ Transfer!Before(sg)[1] = 0
      /\ \A i \in 1 .. Len(sg) : Transfer!Before(sg)[i + 1] = Transfer!Before(sg)[i] + sg[i].len
  BY <1>2, LensNat, BeforeFacts
<1>7. QED BY <1>2, <1>3, <1>4, <1>5, <1>6

\* What is left of an entry is its rest.
LEMMA LeftIsRest ==
  ASSUME InOneGo, NEW w \in Walking, Ordered(w), w.i <= Len(sg)
  PROVE  Transfer!Left(w) = sg[w.i].len - w.into /\ Transfer!Left(w) \in Nat \ {0}
         /\ w.i \in 1 .. Len(sg) /\ w.into \in Nat
<1>1. w.sg = w.i /\ w.i \in 1 .. Len(sg) /\ w.into \in Nat /\ w.into < sg[w.i].len
  BY ListOfAsk DEF Walking, Walkers, Ordered
<1>2. sg[w.i].len \in 1 .. Word - 1 /\ Word \in Nat \ {0}
  BY <1>1, ListOfAsk
<1> DEFINE r == sg[w.i].len - w.into
<1>3. r \in 0 .. Word - 1 /\ r \in Nat \ {0}
  BY <1>1, <1>2
<1>4. Transfer!Left(w) = r % Word
  BY <1>1 DEF Transfer!Left
<1> HIDE DEF r
<1> DEFINE z == 0
<1>z. z \in Int /\ z = 0
  OBVIOUS
<1> HIDE DEF z
<1>5. (Word * z + r) % Word = r
  BY <1>2, <1>3, <1>z, DivUnique
<1>6. Word * z + r = r
  BY <1>2, <1>3, <1>z
<1>7. Transfer!Left(w) = r /\ r \in Nat \ {0}
  BY <1>3, <1>4, <1>5, <1>6
<1>8. QED BY <1>1, <1>7 DEF r

\* The walk begins at the byte the call has come to, ...
LEMMA BeginOrdered ==
  ASSUME InOneGo
  PROVE  Ordered(Transfer!WalkBegin) /\ ~Transfer!WalkEnds(Transfer!WalkBegin)
<1> DEFINE w == Transfer!WalkBegin
<1>1. w.descs = <<>> /\ w.i = 1 /\ w.sg = 1 /\ w.into = req.offset
  BY BeginWalks DEF InOneGo
<1> HIDE DEF w
<1>2. Len(sg) \in Nat \ {0} /\ Transfer!Before(sg)[1] = 0 /\ req.offset \in Nat /\ req.offset < sg[1].len
  BY ListOfAsk DEF InOneGo, ApertureAsked
<1>3. req.offset + Transfer!Bytes(w.descs) = Transfer!Before(sg)[w.i] + w.into
  BY <1>1, <1>2, BytesOfNone
<1>4. LaidFrom(ask, w.descs, req.offset)
  BY <1>1 DEF LaidFrom
<1>5. Ordered(w)
  BY <1>1, <1>2, <1>3, <1>4 DEF Ordered
<1>6. desc_idx + Len(w.descs) # DescMax
  BY <1>1, SgConstants DEF InOneGo, ApertureAsked, Transfer!Slots
<1>7. ~Transfer!WalkEnds(w)
  BY <1>1, <1>2, <1>6 DEF Transfer!WalkEnds
<1>8. QED BY <1>5, <1>7 DEF w

\* Sums that are regrouped.
LEMMA AddUp ==
  ASSUME NEW o \in Nat, NEW p \in Nat, NEW n \in Nat, NEW b \in Nat, NEW x \in Nat, o + p = b + x
  PROVE  /\ o + (p + n) = b + (x + n)
         /\ \A l \in Nat : \A t : t = b + l /\ n = l - x => o + (p + n) = t + 0
OBVIOUS

\* ... and each turn goes on by a descriptor.
LEMMA TurnOrdered ==
  ASSUME InOneGo, NEW w \in Walking, Ordered(w), NEW u, u = Transfer!WalkTurn(w)
  PROVE  Ordered(u) /\ (~Transfer!WalkEnds(w) => Len(u.descs) = Len(w.descs) + 1)
<1>0. /\ w \in Walkers /\ w.sg <= w.i /\ w.i \in Nat \ {0} /\ w.into \in Nat /\ w.descs \in Seq(Descs)
      /\ req.offset \in Nat /\ ask \in Asks /\ ask.aperture > 0 /\ sg \in Seq(SgEntries)
      /\ Len(sg) \in Nat \ {0} /\ w.i <= Len(sg) + 1
      /\ req.offset + Transfer!Bytes(w.descs) = Transfer!Before(sg)[w.i] + w.into
      /\ w.sg = w.i /\ LaidFrom(ask, w.descs, req.offset)
  BY ListOfAsk DEF Walking, Walkers, InOneGo, ApertureAsked, Ordered
<1>1. CASE Transfer!WalkEnds(w)
  BY <1>1 DEF Transfer!WalkTurn
<1>2. CASE ~Transfer!WalkEnds(w)
  <2>1. w.i <= Len(sg)
    BY <1>0, <1>2 DEF Transfer!WalkEnds
  <2>2. /\ Transfer!Left(w) = sg[w.i].len - w.into /\ Transfer!Left(w) \in Nat \ {0}
        /\ w.i \in 1 .. Len(sg)
    BY <2>1, LeftIsRest
  <2>3. PICK n \in Nat \ {0}, e \in Nat :
            /\ n <= Transfer!Left(w)
            /\ Placing(w, n, e) \in Descs
            /\ u.descs = Append(w.descs, Placing(w, n, e))
            /\ n = Transfer!Left(w) => u.i = w.i + 1 /\ u.sg = w.sg + 1 /\ u.into = 0
            /\ n # Transfer!Left(w) => u.i = w.i /\ u.sg = w.sg /\ u.into = w.into + n
    <3>1. Transfer!Left(w) # 0
      BY <2>2
    <3>2. ask \in Asks /\ ask.aperture > 0 /\ sg \in Seq(SgEntries) /\ w \in Walkers /\ w.sg <= w.i
      BY <1>0
    <3>3. QED BY <1>2, <3>1, <3>2, TurnPlaces
  <2> DEFINE d == Placing(w, n, e)
             c == Transfer!Before(sg)
             p == Transfer!Bytes(w.descs)
             i == w.i
  <2>4. d.addr = sg[i].addr + w.into /\ d.len = n
    BY <1>0 DEF Placing
  <2>5. /\ c[i] \in Nat /\ c[i + 1] = c[i] + sg[i].len /\ sg[i].len \in Nat \ {0} /\ sg[i].addr \in Nat
        /\ LaidFrom(ask, sg, 0)
    <3>1. i \in 1 .. Len(sg) /\ i + 1 \in 1 .. Len(sg) + 1 /\ i \in 1 .. Len(sg) + 1
      BY <1>0, <2>2
    <3> HIDE DEF i
    <3>2. LaidFrom(ask, sg, 0) /\ sg[i].len \in 1 .. Word - 1 /\ sg[i].addr \in Nat
      BY <3>1, ListOfAsk
    <3>3. c[i] \in Nat /\ c[i + 1] = c[i] + sg[i].len
      BY <3>1, ListOfAsk
    <3>4. sg[i].len \in Nat \ {0}
      BY <3>2
    <3>5. QED BY <3>2, <3>3, <3>4
  <2>6. p \in Nat
    BY <1>0, DescLens, BytesNat
  <2>7. d \in Descs /\ u.descs = Append(w.descs, d)
    BY <2>3
  <2>8. Transfer!Bytes(u.descs) = p + n
    <3>1. Transfer!Bytes(Append(w.descs, d)) = p + d.len
      <4> HIDE DEF d
      <4> QED BY <1>0, <2>7, DescLens, BeforeAppend
    <3>2. QED BY <2>4, <2>7, <3>1
  <2>9. LaidFrom(ask, u.descs, req.offset)
    <3>1. ASSUME NEW b \in 0 .. d.len - 1 PROVE Transfer!BusOf(ask, req.offset + p + b) = d.addr + b
      <4> DEFINE q == w.into + b
      <4>1. q \in 0 .. sg[i].len - 1 /\ q \in Nat
        <5>1. b \in 0 .. n - 1 /\ n \in Nat
          BY <2>4
        <5>2. n <= sg[i].len - w.into /\ w.into \in Nat /\ sg[i].len \in Nat
          BY <1>0, <2>2, <2>3, <2>5
        <5>3. QED BY <5>1, <5>2
      <4>2. req.offset + p + b = 0 + c[i] + q
        BY <1>0, <2>4, <2>5, <2>6
      <4>3. sg[i].addr + q = d.addr + b
        BY <1>0, <2>4, <2>5
      <4> HIDE DEF q, c, p, d, i
      <4>4. i \in 1 .. Len(sg)
        BY <2>2 DEF i
      <4>5. Transfer!BusOf(ask, 0 + c[i] + q) = sg[i].addr + q
        BY <2>5, <4>1, <4>4 DEF LaidFrom, c
      <4>6. QED BY <4>2, <4>3, <4>5
    <3> HIDE DEF d
    <3>2. \A b \in 0 .. d.len - 1 : Transfer!BusOf(ask, req.offset + Transfer!Bytes(w.descs) + b) = d.addr + b
      BY <3>1
    <3>3. QED BY <1>0, <2>7, <3>2, DescLens, LaidAppend
  <2>12. Len(u.descs) = Len(w.descs) + 1
    BY <1>0, <2>7
  <2>g. i \in Nat /\ req.offset + p = c[i] + w.into /\ n \in Nat
    BY <1>0
  <2>h. /\ req.offset \in Nat /\ w.into \in Nat /\ sg[i].len \in Nat /\ c[i] \in Nat /\ p \in Nat
        /\ c[i + 1] = c[i] + sg[i].len /\ Len(sg) \in Nat /\ i <= Len(sg)
    BY <1>0, <2>1, <2>5, <2>6
  <2> HIDE DEF d, p, c, i
  <2>10. CASE n = Transfer!Left(w)
    <3>1. u.i = i + 1 /\ u.sg = i + 1 /\ u.into = 0
      BY <1>0, <2>3, <2>10 DEF i
    <3>2. req.offset + (p + n) = c[i + 1] + 0
      <4>1. n = sg[i].len - w.into
        BY <2>2, <2>10 DEF i
      <4>2. req.offset + p = c[i] + w.into
        BY <2>g
      <4>3. req.offset \in Nat /\ p \in Nat /\ c[i] \in Nat /\ w.into \in Nat /\ sg[i].len \in Nat
        BY <2>h
      <4>4. c[i + 1] = c[i] + sg[i].len
        BY <2>h
      <4>5. n \in Nat
        OBVIOUS
      <4>6. \A l \in Nat : \A t : t = c[i] + l /\ n = l - w.into => req.offset + (p + n) = t + 0
        BY <4>2, <4>3, <4>5, AddUp
      <4>7. QED BY <4>1, <4>3, <4>4, <4>6
    <3>3. u.i <= Len(sg) => 0 < sg[u.i].len
      <4>1. u.i <= Len(sg) => u.i \in 1 .. Len(sg)
        BY <2>g, <2>h, <3>1
      <4>2. \A k \in 1 .. Len(sg) : sg[k].len \in 1 .. Word - 1
        BY ListOfAsk
      <4>3. QED BY <4>1, <4>2
    <3>4. u.i <= Len(sg) + 1
      BY <1>0, <2>1, <3>1 DEF i
    <3>5. req.offset + Transfer!Bytes(u.descs) = Transfer!Before(sg)[u.i] + u.into
      BY <2>8, <3>1, <3>2 DEF c
    <3>6. u.i = Len(sg) + 1 => u.into = 0
      BY <3>1
    <3>7. u.sg = u.i
      BY <3>1
    <3>8. QED BY <2>9, <2>12, <3>1, <3>3, <3>4, <3>5, <3>6, <3>7 DEF Ordered
  <2>11. CASE n # Transfer!Left(w)
    <3>1. u.i = i /\ u.sg = i /\ u.into = w.into + n
      BY <1>0, <2>3, <2>11 DEF i
    <3>2. req.offset + (p + n) = c[i] + (w.into + n)
      <4>1. req.offset + p = c[i] + w.into
        BY <2>g
      <4>2. req.offset \in Nat /\ p \in Nat /\ c[i] \in Nat /\ w.into \in Nat
        BY <2>h
      <4>3. n \in Nat
        OBVIOUS
      <4>4. QED BY <4>1, <4>2, <4>3, AddUp
    <3>3. w.into + n < sg[i].len
      <4>1. Transfer!Left(w) = sg[i].len - w.into /\ n <= Transfer!Left(w)
        BY <2>2, <2>3 DEF i
      <4>2. QED BY <1>0, <2>5, <2>11, <2>g, <4>1
    <3>4. i # Len(sg) + 1 /\ i <= Len(sg) + 1
      BY <1>0, <2>1 DEF i
    <3>5. req.offset + Transfer!Bytes(u.descs) = Transfer!Before(sg)[u.i] + u.into
      BY <2>8, <3>1, <3>2 DEF c
    <3>6. QED BY <2>9, <2>12, <3>1, <3>3, <3>4, <3>5 DEF Ordered
  <2>13. QED BY <2>10, <2>11
<1>3. QED BY <1>1, <1>2

\* The descriptors of such a transfer are there, and lie on the list's bytes.
LEMMA WalkInOrder ==
  ASSUME InOneGo
  PROVE  /\ Transfer!Walked \in Walking /\ Ordered(Transfer!Walked)
         /\ Transfer!Walked.descs # <<>> /\ Len(Transfer!Walked.descs) \in Nat \ {0}
<1> DEFINE S == {w \in Walking : Ordered(w) /\ Len(w.descs) >= 1}
           v == Transfer!WalkBegin
           u == Transfer!WalkTurn(v)
<1>0. ApertureAsked /\ Len(sg) \in Nat
  BY ListOfAsk DEF InOneGo
<1>1. v \in Walking /\ v.descs = <<>> /\ Ordered(v) /\ ~Transfer!WalkEnds(v)
  BY <1>0, BeginWalks, BeginOrdered
<1> HIDE DEF v
<1>2. u \in Walking /\ Ordered(u) /\ Len(u.descs) = Len(v.descs) + 1
  BY <1>0, <1>1, TurnWalks, TurnOrdered
<1> HIDE DEF u
<1>3. Len(u.descs) >= 1
  BY <1>1, <1>2
<1>4. u \in S
  BY <1>2, <1>3
<1>5. ASSUME NEW w \in S PROVE Transfer!WalkTurn(w) \in S
  <2> DEFINE x == Transfer!WalkTurn(w)
  <2>1. w \in Walking /\ Ordered(w) /\ Len(w.descs) >= 1
    OBVIOUS
  <2>2. x \in Walking /\ Len(w.descs) <= Len(x.descs)
    BY <1>0, <2>1, TurnWalks
  <2>3. Ordered(x)
    BY <2>1, TurnOrdered
  <2> HIDE DEF x
  <2>4. Len(w.descs) \in Nat /\ Len(x.descs) \in Nat
    BY <2>1, <2>2 DEF Walking, Walkers
  <2>5. Len(x.descs) >= 1
    BY <2>1, <2>2, <2>4
  <2>6. x \in S
    BY <2>2, <2>3, <2>5
  <2>7. QED BY <2>6 DEF x
<1>6. Transfer!Walked \in S
  <2> HIDE DEF S
  <2>1. Transfer!WalkTurn(Transfer!WalkBegin) \in S
    BY <1>4 DEF u, v
  <2>2. QED BY <1>0, <1>5, <2>1, WalkReaches
<1>7. Len(Transfer!Walked.descs) \in Nat /\ Len(Transfer!Walked.descs) >= 1
  BY <1>6 DEF Walking, Walkers
<1>8. QED BY <1>6, <1>7

\* A remainder is smaller than the divisor.
LEMMA ModRange ==
  ASSUME NEW x \in Int, NEW n \in Nat \ {0}
  PROVE  x % n \in 0 .. n - 1
BY DividedBy

\* Adding to a remainder, up to the divisor.
LEMMA ModAdd ==
  ASSUME NEW x \in Nat, NEW n \in Nat \ {0}, NEW b \in Nat, NEW r, r = x % n
  PROVE  /\ r \in Nat /\ r < n
         /\ r + b < n => (x + b) % n = r + b
         /\ r + b = n => (x + b) % n = 0
<1> DEFINE q == x \div n
<1>1. q \in Int /\ r \in 0 .. n - 1 /\ x = n * q + r
  BY DividedBy
<1> HIDE DEF q
<1>r. r \in Nat /\ r < n /\ (r + b < n => r + b # n)
  BY <1>1
<1>2. CASE r + b < n
  <2> DEFINE s == r + b
  <2>1. s \in 0 .. n - 1
    BY <1>1, <1>2
  <2>2. x + b = n * q + s
    <3> DEFINE y == n * q
    <3>1. y \in Int
      BY <1>1
    <3> HIDE DEF y
    <3>2. x = y + r
      BY <1>1 DEF y
    <3>3. x + b = y + (r + b)
      BY <1>1, <3>1, <3>2
    <3>4. QED BY <3>3 DEF y
  <2> HIDE DEF s
  <2>3. (n * q + s) % n = s
    BY <1>1, <2>1, DivUnique
  <2>4. (x + b) % n = r + b
    BY <2>2, <2>3 DEF s
  <2>5. QED BY <1>r, <1>2, <2>4
<1>3. CASE r + b = n
  <2> DEFINE k == q + 1
             z == 0
  <2>1. k \in Int /\ z \in 0 .. n - 1
    BY <1>1
  <2>2. x + b = n * k + z
    <3> DEFINE y == n * q
    <3>1. y \in Int /\ n * (q + 1) = y + n
      BY <1>1
    <3> HIDE DEF y
    <3>2. x = y + r
      BY <1>1 DEF y
    <3>3. x + b = y + n
      BY <1>1, <1>3, <3>1, <3>2
    <3>4. y + n = n * k + z
      BY <3>1
    <3>5. QED BY <3>3, <3>4
  <2>z. z = 0
    OBVIOUS
  <2> HIDE DEF k, z
  <2>3. (n * k + z) % n = z
    BY <2>1, DivUnique
  <2>4. (x + b) % n = 0
    BY <2>2, <2>3, <2>z
  <2>5. QED BY <1>r, <1>3, <2>4
<1>4. CASE ~(r + b < n) /\ ~(r + b = n)
  BY <1>1, <1>4
<1>5. QED BY <1>2, <1>3, <1>4

\* Descriptors that go on through the window from p on, and turn within none.
AimedFrom(a, ds, p) ==
    \A j \in 1 .. Len(ds) :
        /\ ds[j].ep = a.ep + ((p + Transfer!Before(ds)[j]) % a.aperture)
        /\ ((p + Transfer!Before(ds)[j]) % a.aperture) + ds[j].len <= a.aperture

\* The walk goes through the window.
Aimed(w) ==
    /\ Transfer!InWindow(w.ep) = ask.ep + ((req.offset + Transfer!Bytes(w.descs)) % ask.aperture)
    /\ AimedFrom(ask, w.descs, req.offset)

\* One descriptor added.
LEMMA AimedAppend ==
  ASSUME NEW a, NEW p \in Nat, NEW S, \A e \in S : e.len \in Nat, NEW ds \in Seq(S), NEW d \in S,
         AimedFrom(a, ds, p),
         d.ep = a.ep + ((p + Transfer!Bytes(ds)) % a.aperture),
         ((p + Transfer!Bytes(ds)) % a.aperture) + d.len <= a.aperture
  PROVE  AimedFrom(a, Append(ds, d), p)
<1> DEFINE es == Append(ds, d)
           c == Transfer!Before(es)
<1>1. Len(es) = Len(ds) + 1 /\ es[Len(ds) + 1] = d /\ (\A j \in 1 .. Len(ds) : es[j] = ds[j]) /\ Len(ds) \in Nat
  OBVIOUS
<1>2. \A j \in 1 .. Len(ds) + 1 : c[j] = Transfer!Before(ds)[j]
  BY BeforeAppend
<1> HIDE DEF es, c
<1>3. ASSUME NEW j \in 1 .. Len(es)
      PROVE /\ es[j].ep = a.ep + ((p + c[j]) % a.aperture)
            /\ ((p + c[j]) % a.aperture) + es[j].len <= a.aperture
  <2>1. CASE j \in 1 .. Len(ds)
    <3>1. es[j] = ds[j] /\ c[j] = Transfer!Before(ds)[j]
      BY <1>1, <1>2, <2>1
    <3>2. QED BY <2>1, <3>1 DEF AimedFrom
  <2>2. CASE j = Len(ds) + 1
    <3>1. es[j] = d /\ c[j] = Transfer!Bytes(ds)
      BY <1>1, <1>2, <2>2 DEF Transfer!Bytes
    <3>2. QED BY <3>1
  <2>3. QED BY <1>1, <2>1, <2>2
<1>4. QED BY <1>3 DEF AimedFrom, es, c

\* The walk begins at the right address of the window, ...
LEMMA BeginAimed ==
  ASSUME InOneGo, Transfer!And[req.offset][ask.aperture - 1] = req.offset % ask.aperture
  PROVE  Aimed(Transfer!WalkBegin)
<1> DEFINE w == Transfer!WalkBegin
           r == req.offset % ask.aperture
<1>0. ask.ep \in Nat /\ ask.aperture \in Nat \ {0} /\ req.offset \in Nat
  BY DEF InOneGo, ApertureAsked, Asks
<1>1. w.descs = <<>> /\ w.ep = ask.ep + r
  BY BeginWalks DEF InOneGo
<1>2. r \in 0 .. ask.aperture - 1
  BY <1>0, ModRange
<1> HIDE DEF w, r
<1>3. Transfer!InWindow(w.ep) = ask.ep + r
  <2>1. ~(ask.ep + r > ask.ep + ask.aperture - 1)
    BY <1>0, <1>2
  <2>2. QED BY <1>1, <2>1 DEF Transfer!InWindow
<1>4. req.offset + Transfer!Bytes(w.descs) = req.offset
  BY <1>0, <1>1, BytesOfNone
<1>5. AimedFrom(ask, w.descs, req.offset)
  BY <1>1 DEF AimedFrom
<1>6. QED BY <1>3, <1>4, <1>5 DEF Aimed, r, w

\* ... and each turn goes on from there.
LEMMA TurnAimed ==
  ASSUME InOneGo, NEW w \in Walking, Ordered(w), Aimed(w), NEW u, u = Transfer!WalkTurn(w)
  PROVE  Aimed(u)
<1>0. /\ w \in Walkers /\ w.sg <= w.i /\ w.i \in Nat \ {0} /\ w.descs \in Seq(Descs)
      /\ req.offset \in Nat /\ ask \in Asks /\ ask.aperture > 0 /\ sg \in Seq(SgEntries)
      /\ ask.ep \in Nat /\ ask.aperture \in Nat \ {0} /\ Len(sg) \in Nat /\ w.i <= Len(sg) + 1
  BY DEF Walking, Walkers, InOneGo, ApertureAsked, Ordered, Asks
<1>1. CASE Transfer!WalkEnds(w)
  BY <1>1 DEF Transfer!WalkTurn
<1>2. CASE ~Transfer!WalkEnds(w)
  <2>1. w.i <= Len(sg)
    BY <1>0, <1>2 DEF Transfer!WalkEnds
  <2>2. Transfer!Left(w) # 0
    BY <2>1, LeftIsRest
  <2>3. PICK n \in Nat \ {0}, e \in Nat :
            /\ e = Transfer!InWindow(w.ep)
            /\ e + n <= ask.ep + ask.aperture
            /\ Placing(w, n, e) \in Descs
            /\ u.descs = Append(w.descs, Placing(w, n, e)) /\ u.ep = e + n
    <3>1. ask \in Asks /\ ask.aperture > 0 /\ sg \in Seq(SgEntries) /\ w \in Walkers /\ w.sg <= w.i
      BY <1>0
    <3>2. QED BY <1>2, <2>2, <3>1, TurnPlaces
  <2> DEFINE d == Placing(w, n, e)
             p == Transfer!Bytes(w.descs)
             x == req.offset + p
             r == x % ask.aperture
  <2>4. d.ep = e /\ d.len = n
    BY DEF Placing
  <2>5. d \in Descs /\ u.descs = Append(w.descs, d)
    BY <2>3
  <2> HIDE DEF d
  <2>6. p \in Nat
    BY <1>0, DescLens, BytesNat
  <2> HIDE DEF p
  <2>7. x \in Nat
    BY <1>0, <2>6
  <2>8. e = ask.ep + r
    BY <2>3 DEF Aimed, p
  <2> HIDE DEF x
  <2>9. /\ r \in Nat /\ r < ask.aperture
        /\ r + n < ask.aperture => (x + n) % ask.aperture = r + n
        /\ r + n = ask.aperture => (x + n) % ask.aperture = 0
    <3>1. r = x % ask.aperture /\ n \in Nat
      OBVIOUS
    <3> HIDE DEF r
    <3>2. \A m \in Nat \ {0}, b \in Nat : \A s : s = x % m =>
            /\ s \in Nat /\ s < m
            /\ s + b < m => (x + b) % m = s + b
            /\ s + b = m => (x + b) % m = 0
      BY <2>7, ModAdd
    <3>3. ask.aperture \in Nat \ {0}
      BY <1>0
    <3> HIDE DEF x
    <3>4. QED BY <3>1, <3>2, <3>3, Zenon
  <2>10. r + n <= ask.aperture
    <3> HIDE DEF r
    <3> QED BY <1>0, <2>3, <2>8, <2>9
  <2>11. AimedFrom(ask, u.descs, req.offset)
    <3>1. d.ep = ask.ep + ((req.offset + Transfer!Bytes(w.descs)) % ask.aperture)
          /\ ((req.offset + Transfer!Bytes(w.descs)) % ask.aperture) + d.len <= ask.aperture
      BY <2>4, <2>8, <2>10 DEF x, p
    <3>2. AimedFrom(ask, w.descs, req.offset)
      BY DEF Aimed
    <3>3. QED BY <1>0, <2>5, <3>1, <3>2, DescLens, AimedAppend
  <2>12. req.offset + Transfer!Bytes(u.descs) = x + n
    <3>1. Transfer!Bytes(u.descs) = p + n
      BY <1>0, <2>4, <2>5, DescLens, BeforeAppend DEF p
    <3>2. req.offset + (p + n) = x + n
      BY <1>0, <2>6 DEF x
    <3>3. QED BY <3>1, <3>2
  <2>13. Transfer!InWindow(u.ep) = ask.ep + ((x + n) % ask.aperture)
    <3> HIDE DEF r
    <3>1. u.ep = ask.ep + (r + n)
      BY <1>0, <2>3, <2>8, <2>9
    <3>2. CASE r + n < ask.aperture
      <4>1. ~(ask.ep + (r + n) > ask.ep + ask.aperture - 1)
        BY <1>0, <2>9, <3>2
      <4>2. QED BY <2>9, <3>1, <3>2, <4>1 DEF Transfer!InWindow
    <3>3. CASE r + n = ask.aperture
      <4>1. ask.ep + (r + n) > ask.ep + ask.aperture - 1
        BY <1>0, <2>9, <3>3
      <4>2. Transfer!InWindow(u.ep) = ask.ep
        BY <3>1, <4>1 DEF Transfer!InWindow
      <4>3. ask.ep = ask.ep + 0
        BY <1>0
      <4>4. QED BY <2>9, <3>3, <4>2, <4>3
    <3>4. r + n < ask.aperture \/ r + n = ask.aperture
      <4>1. r \in Nat /\ n \in Nat /\ ask.aperture \in Nat
        BY <1>0, <2>9
      <4>2. QED BY <2>10, <4>1
    <3>5. QED BY <3>2, <3>3, <3>4
  <2>14. QED BY <2>11, <2>12, <2>13 DEF Aimed
<1>3. QED BY <1>1, <1>2

\* They go through the window.
LEMMA WalkAims ==
  ASSUME InOneGo, Transfer!And[req.offset][ask.aperture - 1] = req.offset % ask.aperture
  PROVE  Aimed(Transfer!Walked)
<1> DEFINE S == {w \in Walking : Ordered(w) /\ Aimed(w)}
           v == Transfer!WalkBegin
           u == Transfer!WalkTurn(v)
<1>0. ApertureAsked /\ Len(sg) \in Nat
  BY ListOfAsk DEF InOneGo
<1>1. v \in Walking /\ Ordered(v) /\ Aimed(v)
  BY <1>0, BeginWalks, BeginOrdered, BeginAimed
<1>2. ASSUME NEW w \in S PROVE Transfer!WalkTurn(w) \in S
  <2> DEFINE x == Transfer!WalkTurn(w)
  <2>1. w \in Walking /\ Ordered(w) /\ Aimed(w)
    OBVIOUS
  <2>2. x \in Walking
    BY <1>0, <2>1, TurnWalks
  <2>3. Ordered(x)
    BY <2>1, TurnOrdered
  <2>4. Aimed(x)
    BY <2>1, TurnAimed
  <2> HIDE DEF x
  <2>5. x \in S
    BY <2>2, <2>3, <2>4
  <2>6. QED BY <2>5 DEF x
<1>3. v \in S
  <2> HIDE DEF v
  <2> QED BY <1>1
<1>4. Transfer!Walked \in S
  <2> HIDE DEF S
  <2>1. Transfer!WalkTurn(Transfer!WalkBegin) \in S
    BY <1>2, <1>3
  <2>2. QED BY <1>0, <1>2, <2>1, WalkReaches
<1>5. QED BY <1>4

-----------------------------------------------------------------------------
\* The chain in the ring, and what its descriptors move (transfer_init, transfer_build).

\* How many adjacent descriptors are announced: no more than there are, and none
\* of the next block.
LEMMA AdjacentStay ==
  ASSUME NEW r \in Nat, NEW i \in Nat, NEW a, a = Transfer!NextAdj(r, i)
  PROVE  /\ a \in Nat /\ (r # 0 => a <= r - 1)
         /\ i \div Block = (i + a) \div Block
<1>0. Block \in Nat \ {0}
  BY SgConstants
<1>1. CASE r <= 1
  <2>1. a = 0
    BY <1>1 DEF Transfer!NextAdj
  <2>2. i + a = i
    BY <2>1
  <2>3. QED BY <2>1, <2>2
<1>2. CASE ~(r <= 1)
  <2> DEFINE q == i \div Block
             s == i % Block
             x == Block - s - 1
             y == r - 1
  <2>1. q \in Int /\ s \in 0 .. Block - 1 /\ i = Block * q + s
    BY <1>0, DividedBy
  <2>2. a = Transfer!Smaller(x, y)
    BY <1>2 DEF Transfer!NextAdj
  <2> HIDE DEF s, q
  <2>3. x \in Nat /\ y \in Nat
    BY <1>0, <1>2, <2>1
  <2> HIDE DEF x, y
  <2>4. a \in Nat /\ a <= x /\ a <= y
    BY <2>2, <2>3, Smallest2
  <2> DEFINE t == s + a
  <2>5. t \in 0 .. Block - 1
    BY <1>0, <2>1, <2>4 DEF x
  <2>6. i + a = Block * q + t
    <3> DEFINE z == Block * q
    <3>1. z \in Int
      BY <1>0, <2>1
    <3> HIDE DEF z
    <3>2. i = z + s
      BY <2>1 DEF z
    <3>3. i + a = z + (s + a)
      BY <2>1, <2>4, <3>1, <3>2
    <3>4. QED BY <3>3 DEF z
  <2> HIDE DEF t
  <2>7. (Block * q + t) \div Block = q
    BY <1>0, <2>1, <2>5, DivUnique
  <2>8. (i + a) \div Block = i \div Block
    BY <2>6, <2>7 DEF q
  <2>9. QED BY <1>2, <2>4, <2>8 DEF y
<1>3. QED BY <1>1, <1>2

\* Descriptors in the ring.
RingDescs == [addr : Nat, ep : Nat, len : Nat, next : Nat, adj : Nat, stop : BOOLEAN]

\* A chain of n descriptors from the slot first on.
Chained(r, first, n) ==
    \A i \in first .. first + n - 1 :
        /\ r[i].stop = (i = first + n - 1)
        /\ i # first + n - 1 =>
             r[i].next = i + 1 /\ r[i].adj = Transfer!NextAdj(first + n - (i + 1), i + 1)

\* Chain makes such a chain, of the descriptors it is given.
LEMMA ChainLinks ==
  ASSUME ring \in [Transfer!Slots -> RingDescs], NEW first \in Transfer!Slots,
         NEW ds \in Seq(Descs), first + Len(ds) <= DescMax, NEW r, r = Transfer!Chain(first, ds)
  PROVE  /\ r \in [Transfer!Slots -> RingDescs] /\ Chained(r, first, Len(ds))
         /\ \A j \in 1 .. Len(ds) : r[first + j - 1].addr = ds[j].addr
                /\ r[first + j - 1].ep = ds[j].ep /\ r[first + j - 1].len = ds[j].len
<1> DEFINE n == Len(ds)
           D(i) == LET j == i - first + 1
                       next == IF j < n THEN i + 1 ELSE 0
                   IN  [addr |-> ds[j].addr, ep |-> ds[j].ep, len |-> ds[j].len, next |-> next,
                        adj |-> Transfer!NextAdj(n - j, next), stop |-> j = n]
<1>1. /\ first \in Nat /\ n \in Nat /\ DescMax \in Nat /\ first + n <= DescMax
      /\ \A i \in Int : i \in Transfer!Slots <=> 0 <= i /\ i < DescMax
  BY SgConstants DEF Transfer!Slots
<1>2. r = [i \in Transfer!Slots |-> IF i \notin first .. first + n - 1 THEN ring[i] ELSE D(i)]
  BY DEF Transfer!Chain
<1>3. \A i \in first .. first + n - 1 : i \in Transfer!Slots
  BY <1>1
<1>4. \A i \in first .. first + n - 1 : r[i] = D(i)
  <2> HIDE DEF D, n
  <2> QED BY <1>2, <1>3
<1>5. ASSUME NEW i \in first .. first + n - 1, NEW j, j = i - first + 1
      PROVE /\ D(i) \in RingDescs /\ j \in 1 .. n
            /\ D(i).addr = ds[j].addr /\ D(i).ep = ds[j].ep /\ D(i).len = ds[j].len
            /\ D(i).stop = (i = first + n - 1)
            /\ i # first + n - 1 =>
                 D(i).next = i + 1 /\ D(i).adj = Transfer!NextAdj(first + n - (i + 1), i + 1)
  <2> DEFINE next == IF j < n THEN i + 1 ELSE 0
             adj == Transfer!NextAdj(n - j, next)
  <2>1. j \in 1 .. n /\ n - j \in Nat /\ i \in Nat /\ (j = n <=> i = first + n - 1)
    BY <1>1, <1>5
  <2>2. ds[j] \in Descs
    BY <2>1
  <2>3. next \in Nat
    BY <2>1
  <2>4. D(i) = [addr |-> ds[j].addr, ep |-> ds[j].ep, len |-> ds[j].len, next |-> next,
                adj |-> adj, stop |-> j = n]
    BY <1>5
  <2>5. i # first + n - 1 => next = i + 1 /\ n - j = first + n - (i + 1)
    BY <1>1, <1>5, <2>1
  <2>6. adj \in Nat
    <3> HIDE DEF next
    <3> QED BY <2>1, <2>3, AdjacentStay
  <2>7. i # first + n - 1 => adj = Transfer!NextAdj(first + n - (i + 1), i + 1)
    BY <2>5
  <2> HIDE DEF D, next, adj, n
  <2>8. (j = n) = (i = first + n - 1)
    BY <2>1
  <2>9. D(i) \in RingDescs
    BY <2>2, <2>3, <2>4, <2>6 DEF RingDescs, Descs
  <2>10. /\ D(i).addr = ds[j].addr /\ D(i).ep = ds[j].ep /\ D(i).len = ds[j].len
         /\ D(i).stop = (j = n) /\ D(i).next = next /\ D(i).adj = adj
    BY <2>4
  <2>11. QED BY <2>1, <2>5, <2>7, <2>8, <2>9, <2>10
<1> HIDE DEF D
<1>6. r \in [Transfer!Slots -> RingDescs]
  <2>1. \A i \in Transfer!Slots : (IF i \notin first .. first + n - 1 THEN ring[i] ELSE D(i)) \in RingDescs
    BY <1>5
  <2> HIDE DEF n
  <2>2. QED BY <1>2, <2>1
<1>7. Chained(r, first, n)
  <2> HIDE DEF n
  <2> QED BY <1>4, <1>5 DEF Chained
<1>8. ASSUME NEW j \in 1 .. n
      PROVE r[first + j - 1].addr = ds[j].addr /\ r[first + j - 1].ep = ds[j].ep
            /\ r[first + j - 1].len = ds[j].len
  <2> DEFINE i == first + j - 1
  <2>1. i \in first .. first + n - 1 /\ j = i - first + 1
    BY <1>1
  <2> HIDE DEF i, n
  <2>2. QED BY <1>4, <1>5, <2>1 DEF i
<1>9. QED BY <1>6, <1>7, <1>8

\* Where byte k of a call belongs, on the card and in memory.
EpAt(a, ni, k) == IF ni THEN a.ep ELSE IF a.aperture = 0 THEN a.ep + k ELSE a.ep + (k % a.aperture)

\* Descriptors that move the bytes from p on as they should.
Rightly(a, ni, ds, p) ==
    \A j \in 1 .. Len(ds) : \A b \in 0 .. ds[j].len - 1 :
        /\ Transfer!BusOf(a, p + Transfer!Before(ds)[j] + b) = ds[j].addr + b
        /\ EpAt(a, ni, p + Transfer!Before(ds)[j] + b) = IF ni THEN ds[j].ep ELSE ds[j].ep + b

\* It depends on address, place and length alone.
LEMMA RightlySame ==
  ASSUME NEW S, \A e \in S : e.len \in Nat, NEW ds \in Seq(S),
         NEW R, \A e \in R : e.len \in Nat, NEW es \in Seq(R),
         Len(ds) = Len(es),
         \A j \in 1 .. Len(ds) : es[j].addr = ds[j].addr /\ es[j].ep = ds[j].ep /\ es[j].len = ds[j].len,
         NEW a, NEW ni, NEW p, Rightly(a, ni, ds, p)
  PROVE  Rightly(a, ni, es, p)
<1>1. \A j \in 1 .. Len(ds) + 1 : Transfer!Before(ds)[j] = Transfer!Before(es)[j]
  BY BeforeSame
<1>2. \A j \in 1 .. Len(ds) : j \in 1 .. Len(ds) + 1
  OBVIOUS
<1>3. \A j \in 1 .. Len(es) : Transfer!Before(es)[j] = Transfer!Before(ds)[j]
  BY <1>1, <1>2
<1>4. QED BY <1>3 DEF Rightly

\* The walk's descriptors are right.
LEMMA AimedRightly ==
  ASSUME NEW a \in Asks, a.aperture > 0, NEW ds \in Seq(Descs), NEW p \in Nat,
         LaidFrom(a, ds, p), AimedFrom(a, ds, p)
  PROVE  Rightly(a, FALSE, ds, p)
<1>1. SUFFICES ASSUME NEW j \in 1 .. Len(ds), NEW b \in 0 .. ds[j].len - 1
               PROVE  EpAt(a, FALSE, p + Transfer!Before(ds)[j] + b) = ds[j].ep + b
  BY DEF Rightly, LaidFrom
<1> DEFINE x == p + Transfer!Before(ds)[j]
           r == x % a.aperture
<1>2. a.ep \in Nat /\ a.aperture \in Nat \ {0} /\ a.aperture # 0
  BY DEF Asks
<1>3. x \in Nat
  <2>1. Transfer!Before(ds) \in [1 .. Len(ds) + 1 -> Nat]
    BY DescLens, BeforeFacts
  <2>2. j \in 1 .. Len(ds) + 1
    OBVIOUS
  <2>3. Transfer!Before(ds)[j] \in Nat
    BY <2>1, <2>2
  <2>4. QED BY <2>3
<1>4. ds[j].ep = a.ep + r /\ r + ds[j].len <= a.aperture
  BY DEF AimedFrom
<1>5. ds[j].len \in Nat
  BY DescLens
<1> HIDE DEF x
<1>6. r \in Nat /\ (r + b < a.aperture => (x + b) % a.aperture = r + b)
  <2>1. \A m \in Nat \ {0}, c \in Nat : \A s : s = x % m =>
            /\ s \in Nat /\ s < m
            /\ s + c < m => (x + c) % m = s + c
            /\ s + c = m => (x + c) % m = 0
    BY <1>3, ModAdd
  <2>2. b \in Nat
    BY <1>5
  <2>3. QED BY <1>2, <2>1, <2>2, Zenon
<1> HIDE DEF r
<1>7. r + b < a.aperture
  BY <1>2, <1>4, <1>5, <1>6
<1>8. EpAt(a, FALSE, x + b) = a.ep + (r + b)
  BY <1>2, <1>6, <1>7 DEF EpAt
<1>9. a.ep + (r + b) = ds[j].ep + b
  BY <1>2, <1>4, <1>5, <1>6
<1>10. QED BY <1>8, <1>9 DEF x

\* A part of a list of entries.
LEMMA SubSeqEntries ==
  \A ds \in Seq(SgEntries), m \in Nat, n \in Nat : m + n <= Len(ds) =>
     /\ SubSeq(ds, m + 1, m + n) \in Seq(SgEntries) /\ Len(SubSeq(ds, m + 1, m + n)) = n
     /\ \A j \in 1 .. n : SubSeq(ds, m + 1, m + n)[j] = ds[m + j]
     /\ \A j \in 1 .. n + 1 :
             Transfer!Before(SubSeq(ds, m + 1, m + n))[j]
             = Transfer!Before(ds)[m + j] - Transfer!Before(ds)[m + 1]
BY LensNat, BeforeSubSeq

\* Sums that are regrouped.
LEMMA Further ==
  ASSUME NEW e \in Nat, NEW x \in Nat, NEW y \in Nat, NEW c, c = y - x, NEW k \in Nat
  PROVE  e + x + c = e + y /\ (e + x + c) + k = e + (y + k)
OBVIOUS

\* So are those a read or a write makes of the request.
LEMMA FilledRightly ==
  ASSUME ask \in Asks, ask.aperture = 0, NEW sd \in Seq(SgEntries), sd = req.sdesc, Covers(ask, sd),
         NEW m \in Nat, m = req.sw_desc_idx, NEW n \in Nat, m + n <= Len(sd), req.ep \in Nat,
         NEW f, f = Transfer!Filled(n), NEW b, b = Transfer!Before(sd)
  PROVE  /\ f.descs \in Seq(Descs) /\ Len(f.descs) = n /\ f.ep \in Nat
         /\ b[m + 1] + Transfer!Bytes(f.descs) = b[m + n + 1]
         /\ req.ep = EpAt(ask, non_incr_addr, b[m + 1]) =>
              /\ f.ep = EpAt(ask, non_incr_addr, b[m + n + 1])
              /\ Rightly(ask, non_incr_addr, f.descs, b[m + 1])
<1> DEFINE es == SubSeq(req.sdesc, req.sw_desc_idx + 1, req.sw_desc_idx + n)
           c == Transfer!Before(es)
           ep == [j \in 1 .. n + 1 |-> IF non_incr_addr THEN req.ep ELSE req.ep + c[j]]
           ds == [j \in 1 .. n |-> [addr |-> es[j].addr, len |-> es[j].len, ep |-> ep[j]]]
<1>1. f = [descs |-> ds, ep |-> ep[n + 1]]
  BY DEF Transfer!Filled
<1>2. /\ es \in Seq(SgEntries) /\ Len(es) = n /\ \A j \in 1 .. n : es[j] = sd[m + j]
      /\ \A j \in 1 .. n + 1 : c[j] = b[m + j] - b[m + 1]
  <2>1. es = SubSeq(sd, m + 1, m + n)
    OBVIOUS
  <2> HIDE DEF es
  <2>2. /\ SubSeq(sd, m + 1, m + n) \in Seq(SgEntries) /\ Len(SubSeq(sd, m + 1, m + n)) = n
        /\ \A j \in 1 .. n : SubSeq(sd, m + 1, m + n)[j] = sd[m + j]
        /\ \A j \in 1 .. n + 1 :
                Transfer!Before(SubSeq(sd, m + 1, m + n))[j]
                = Transfer!Before(sd)[m + j] - Transfer!Before(sd)[m + 1]
    BY SubSeqEntries, Zenon
  <2>3. QED BY <2>1, <2>2
<1> HIDE DEF es
<1>3. c \in [1 .. n + 1 -> Nat]
  BY <1>2, LensNat, BeforeFacts
<1>4. /\ b \in [1 .. Len(sd) + 1 -> Nat]
      /\ \A j \in 1 .. n + 1 : m + j \in 1 .. Len(sd) + 1
  BY LensNat, BeforeFacts
<1>5. \A j \in 1 .. n + 1 : b[m + j] \in Nat
  BY <1>4
<1> HIDE DEF c
<1>6. \A j \in 1 .. n + 1 : ep[j] \in Nat /\ ep[j] = IF non_incr_addr THEN req.ep ELSE req.ep + c[j]
  BY <1>3
<1> HIDE DEF ep
<1>7. \A j \in 1 .. n : es[j].addr \in Nat /\ es[j].len \in Nat
  <2>1. \A j \in 1 .. n : es[j] \in SgEntries
    BY <1>2
  <2>2. QED BY <2>1 DEF SgEntries
<1>8. ds \in Seq(Descs) /\ Len(ds) = n
  <2>1. \A j \in 1 .. n : j \in 1 .. n + 1
    OBVIOUS
  <2>2. \A j \in 1 .. n : [addr |-> es[j].addr, len |-> es[j].len, ep |-> ep[j]] \in Descs
    BY <1>6, <1>7, <2>1 DEF Descs
  <2>3. ds \in [1 .. n -> Descs]
    BY <2>2
  <2>4. QED BY <2>3
<1>9. \A j \in 1 .. n : ds[j].addr = es[j].addr /\ ds[j].len = es[j].len /\ ds[j].ep = ep[j]
  OBVIOUS
<1> HIDE DEF ds
<1>10. /\ \A j \in 1 .. n + 1 : Transfer!Before(ds)[j] = c[j]
       /\ Transfer!Bytes(ds) = Transfer!Bytes(es)
  <2>1. \A j \in 1 .. Len(ds) : ds[j].len = es[j].len
    BY <1>8, <1>9
  <2>2. Len(ds) = Len(es)
    BY <1>2, <1>8
  <2>3. /\ \A j \in 1 .. Len(ds) + 1 : Transfer!Before(ds)[j] = Transfer!Before(es)[j]
        /\ Transfer!Bytes(ds) = Transfer!Bytes(es)
    BY <1>2, <1>8, <2>1, <2>2, LensNat, DescLens, BeforeSame
  <2>4. QED BY <1>8, <2>3 DEF c
<1>11. f.descs = ds /\ f.ep = ep[n + 1]
  BY <1>1
<1>12. n + 1 \in 1 .. n + 1 /\ 1 \in 1 .. n + 1 /\ m + (n + 1) = m + n + 1
  OBVIOUS
<1>13. f.ep \in Nat
  BY <1>6, <1>11, <1>12
<1>14. b[m + 1] + Transfer!Bytes(ds) = b[m + n + 1]
  <2>1. Transfer!Bytes(ds) = c[n + 1]
    BY <1>2, <1>10 DEF Transfer!Bytes, c
  <2>2. c[n + 1] = b[m + (n + 1)] - b[m + 1] /\ b[m + (n + 1)] \in Nat /\ b[m + 1] \in Nat
    BY <1>2, <1>5, <1>12
  <2>3. QED BY <1>12, <2>1, <2>2
<1>15. ASSUME req.ep = EpAt(ask, non_incr_addr, b[m + 1])
       PROVE  f.ep = EpAt(ask, non_incr_addr, b[m + n + 1])
  <2>1. ask.ep \in Nat
    BY DEF Asks
  <2>2. CASE non_incr_addr
    BY <1>6, <1>11, <1>12, <1>15, <2>2 DEF EpAt
  <2>3. CASE ~non_incr_addr
    <3>1. f.ep = req.ep + c[n + 1]
      BY <1>6, <1>11, <1>12, <2>3
    <3>2. c[n + 1] = b[m + (n + 1)] - b[m + 1] /\ b[m + (n + 1)] \in Nat /\ b[m + 1] \in Nat
      BY <1>2, <1>5, <1>12
    <3>3. req.ep = ask.ep + b[m + 1]
      BY <1>15, <2>3 DEF EpAt
    <3>4. f.ep = ask.ep + b[m + n + 1]
      <4> DEFINE x == b[m + 1]
                 y == b[m + (n + 1)]
                 d == c[n + 1]
      <4>1. x \in Nat /\ y \in Nat /\ d = y - x /\ f.ep = ask.ep + x + d
        BY <3>1, <3>2, <3>3
      <4> HIDE DEF x, y, d
      <4>2. ask.ep + x + d = ask.ep + y
        BY <2>1, <4>1, Further
      <4>3. QED BY <1>12, <4>1, <4>2 DEF y
    <3>5. QED BY <2>3, <3>4 DEF EpAt
  <2>4. QED BY <2>2, <2>3
<1>16. ASSUME req.ep = EpAt(ask, non_incr_addr, b[m + 1])
       PROVE  Rightly(ask, non_incr_addr, ds, b[m + 1])
  <2>1. SUFFICES ASSUME NEW j \in 1 .. n, NEW k \in 0 .. ds[j].len - 1
        PROVE /\ Transfer!BusOf(ask, b[m + 1] + Transfer!Before(ds)[j] + k) = ds[j].addr + k
              /\ EpAt(ask, non_incr_addr, b[m + 1] + Transfer!Before(ds)[j] + k)
                 = IF non_incr_addr THEN ds[j].ep ELSE ds[j].ep + k
    BY <1>8 DEF Rightly
  <2>2. j \in 1 .. n + 1 /\ m + j \in 1 .. Len(sd) /\ 1 \in 1 .. n + 1
    OBVIOUS
  <2>3. b[m + 1] \in Nat /\ b[m + j] \in Nat /\ c[j] = b[m + j] - b[m + 1] /\ ds[j].len \in Nat
        /\ Transfer!Before(ds)[j] = c[j] /\ ds[j].addr = sd[m + j].addr /\ ds[j].len = sd[m + j].len
        /\ ds[j].ep = ep[j]
    BY <1>2, <1>5, <1>7, <1>9, <1>10, <2>2
  <2>4. b[m + 1] + Transfer!Before(ds)[j] + k = b[m + j] + k /\ k \in Nat
    BY <2>3
  <2>5. Transfer!BusOf(ask, b[m + j] + k) = ds[j].addr + k
    <3>1. k \in 0 .. sd[m + j].len - 1
      BY <2>3
    <3>2. Transfer!BusOf(ask, 0 + b[m + j] + k) = sd[m + j].addr + k
      BY <2>2, <3>1 DEF Covers, LaidFrom
    <3>3. 0 + b[m + j] + k = b[m + j] + k
      BY <2>3
    <3>4. QED BY <2>3, <3>2, <3>3
  <2>6. EpAt(ask, non_incr_addr, b[m + j] + k) = IF non_incr_addr THEN ds[j].ep ELSE ds[j].ep + k
    <3>1. CASE non_incr_addr
      BY <1>6, <1>16, <2>2, <2>3, <3>1 DEF EpAt
    <3>2. CASE ~non_incr_addr
      <4>1. ds[j].ep = req.ep + c[j] /\ req.ep = ask.ep + b[m + 1]
        BY <1>6, <1>16, <2>2, <2>3, <3>2 DEF EpAt
      <4>2. ask.ep \in Nat
        BY DEF Asks
      <4>3. ask.ep + (b[m + j] + k) = ds[j].ep + k
        <5> DEFINE x == b[m + 1]
                   y == b[m + j]
                   d == c[j]
        <5>1. x \in Nat /\ y \in Nat /\ d = y - x /\ ds[j].ep = ask.ep + x + d /\ k \in Nat
          BY <2>3, <2>4, <4>1
        <5> HIDE DEF x, y, d
        <5>2. \A z \in Nat : (z + x + d) + k = z + (y + k)
          BY <5>1, Further
        <5>4. (ask.ep + x + d) + k = ask.ep + (y + k)
          BY <4>2, <5>2, Zenon
        <5>3. QED BY <5>1, <5>4 DEF y
      <4>4. QED BY <3>2, <4>3 DEF EpAt
    <3>3. QED BY <3>1, <3>2
  <2>7. QED BY <2>4, <2>5, <2>6
<1>17. QED BY <1>8, <1>11, <1>13, <1>14, <1>15, <1>16

\* What has been moved so far is what was asked for.
AsAsked(a, ni, bs) ==
    \A k \in 1 .. Len(bs) : bs[k] = <<Transfer!BusOf(a, k - 1), EpAt(a, ni, k - 1)>>

\* The bytes a descriptor moves.
MovesOf(ni, d) == [b \in 1 .. d.len |-> <<d.addr + b - 1, IF ni THEN d.ep ELSE d.ep + b - 1>>]

\* From where to where a byte is moved.
Pairs == Nat \X Nat

\* Lengths are numbers.
LEMMA RingLens == \A e \in RingDescs : e.len \in Nat
BY DEF RingDescs

\* A descriptor moves as many bytes as it says.
LEMMA MovesTyped ==
  ASSUME NEW ni, NEW d \in RingDescs
  PROVE  MovesOf(ni, d) \in Seq(Pairs) /\ Len(MovesOf(ni, d)) = d.len
<1>1. d.len \in Nat /\ d.addr \in Nat /\ d.ep \in Nat
  BY DEF RingDescs
<1>2. \A b \in 1 .. d.len : <<d.addr + b - 1, IF ni THEN d.ep ELSE d.ep + b - 1>> \in Pairs
  <2>1. SUFFICES ASSUME NEW b \in 1 .. d.len
                 PROVE  <<d.addr + b - 1, IF ni THEN d.ep ELSE d.ep + b - 1>> \in Pairs
    OBVIOUS
  <2>2. d.addr + b - 1 \in Nat /\ d.ep + b - 1 \in Nat
    BY <1>1
  <2>3. (IF ni THEN d.ep ELSE d.ep + b - 1) \in Nat
    BY <1>1, <2>2
  <2>4. QED BY <2>2, <2>3 DEF Pairs
<1>3. MovesOf(ni, d) \in [1 .. d.len -> Pairs]
  BY <1>2 DEF MovesOf
<1>4. QED BY <1>1, <1>3

\* One descriptor more.
LEMMA OneMore ==
  ASSUME NEW a, NEW ni, NEW ds \in Seq(RingDescs), NEW p \in Nat, Rightly(a, ni, ds, p),
         NEW j \in 1 .. Len(ds), NEW bs \in Seq(Pairs),
         Len(bs) = p + Transfer!Before(ds)[j], AsAsked(a, ni, bs),
         NEW ms, ms = MovesOf(ni, ds[j])
  PROVE  /\ bs \o ms \in Seq(Pairs) /\ AsAsked(a, ni, bs \o ms)
         /\ Len(bs \o ms) = p + Transfer!Before(ds)[j + 1]
<1> DEFINE b == Transfer!Before(ds)
           d == ds[j]
           cs == bs \o ms
<1>1. d \in RingDescs
  OBVIOUS
<1>2. d.len \in Nat /\ d.addr \in Nat /\ d.ep \in Nat
  BY <1>1 DEF RingDescs
<1>3. ms \in Seq(Pairs) /\ Len(ms) = d.len
  BY <1>1, MovesTyped
<1>4. b[j + 1] = b[j] + d.len /\ b[j] \in Nat
  <2>1. b \in [1 .. Len(ds) + 1 -> Nat] /\ \A k \in 1 .. Len(ds) : b[k + 1] = b[k] + ds[k].len
    BY RingLens, BeforeFacts
  <2>2. j \in 1 .. Len(ds) + 1
    OBVIOUS
  <2> HIDE DEF b
  <2>3. QED BY <2>1, <2>2
<1>5. /\ cs \in Seq(Pairs) /\ Len(cs) = Len(bs) + Len(ms)
      /\ \A k \in 1 .. Len(bs) + Len(ms) : cs[k] = IF k <= Len(bs) THEN bs[k] ELSE ms[k - Len(bs)]
  BY <1>3, ConcatProperties
<1>6. Len(bs) \in Nat
  OBVIOUS
<1>7. \A k \in 0 .. d.len - 1 :
        Transfer!BusOf(a, p + b[j] + k) = d.addr + k
        /\ EpAt(a, ni, p + b[j] + k) = IF ni THEN d.ep ELSE d.ep + k
  BY DEF Rightly
<1>8. \A k \in 1 .. d.len : ms[k] = <<d.addr + k - 1, IF ni THEN d.ep ELSE d.ep + k - 1>>
  BY DEF MovesOf
<1>9. Len(bs) = p + b[j]
  OBVIOUS
<1> HIDE DEF b, d, cs
<1>10. ASSUME NEW k \in 1 .. Len(cs)
       PROVE  cs[k] = <<Transfer!BusOf(a, k - 1), EpAt(a, ni, k - 1)>>
  <2>1. CASE k <= Len(bs)
    <3>1. k \in 1 .. Len(bs) /\ cs[k] = bs[k]
      BY <1>3, <1>5, <1>6, <2>1
    <3>2. QED BY <3>1 DEF AsAsked
  <2>2. CASE ~(k <= Len(bs))
    <3> DEFINE x == k - Len(bs)
               y == x - 1
    <3>0. k \in 1 .. Len(bs) + d.len /\ cs[k] = ms[x] /\ k \in Nat
      <4>1. k \in 1 .. Len(bs) + Len(ms) /\ Len(bs) + Len(ms) = Len(bs) + d.len
        BY <1>3, <1>5
      <4>2. cs[k] = ms[k - Len(bs)]
        BY <1>5, <2>2, <4>1
      <4>3. QED BY <4>1, <4>2
    <3>1. x \in 1 .. d.len /\ y \in 0 .. d.len - 1
      <4> DEFINE n == Len(bs)
                 t == d.len
      <4>1. n \in Nat /\ t \in Nat /\ k \in 1 .. n + t /\ ~(k <= n) /\ x = k - n
        BY <1>2, <1>6, <2>2, <3>0
      <4> HIDE DEF n, t, x
      <4>2. x \in 1 .. t /\ x - 1 \in 0 .. t - 1
        BY <4>1
      <4>3. QED BY <4>2 DEF t
    <3>2. k - 1 = p + b[j] + y
      <4> DEFINE n == Len(bs)
                 t == b[j]
      <4>1. n = p + t /\ t \in Nat /\ y = k - n - 1
        BY <1>4, <1>9
      <4> HIDE DEF n, t, y
      <4>2. k - 1 = p + t + y
        BY <3>0, <4>1
      <4>3. QED BY <4>2 DEF t
    <3>3. d.addr + x - 1 = d.addr + y /\ d.ep + x - 1 = d.ep + y
      BY <1>2, <1>6
    <3> HIDE DEF x, y
    <3>4. ms[x] = <<d.addr + y, IF ni THEN d.ep ELSE d.ep + y>>
      BY <1>8, <3>1, <3>3
    <3>5. Transfer!BusOf(a, k - 1) = d.addr + y /\ EpAt(a, ni, k - 1) = IF ni THEN d.ep ELSE d.ep + y
      BY <1>7, <3>1, <3>2
    <3>6. QED BY <3>0, <3>4, <3>5
  <2>3. QED BY <2>1, <2>2
<1>11. AsAsked(a, ni, cs)
  BY <1>10 DEF AsAsked
<1>12. Len(cs) = p + b[j + 1]
  <2> DEFINE n == Len(bs)
             t == b[j]
             l == d.len
  <2>1. n = p + t /\ t \in Nat /\ l \in Nat /\ Len(cs) = n + l /\ b[j + 1] = t + l
    BY <1>2, <1>3, <1>4, <1>5, <1>9
  <2> HIDE DEF n, t, l
  <2>2. n + l = p + (t + l)
    BY <2>1
  <2>3. QED BY <2>1, <2>2
<1>13. QED BY <1>5, <1>11, <1>12 DEF cs, b

\* A function on 1 .. n is a sequence.
LEMMA FunIsSeq ==
  ASSUME NEW S, NEW n \in Nat, NEW f \in [1 .. n -> S]
  PROVE  f \in Seq(S) /\ Len(f) = n
OBVIOUS

\* Sequences of moves: their lengths, ...
LEMMA PairsConcat == \A s, t \in Seq(Pairs) : Len(s \o t) = Len(s) + Len(t)
BY ConcatProperties

\* ... and their order.
LEMMA PairsAssociate ==
  \A s, t, u \in Seq(Pairs) : (s \o t) \o u = s \o (t \o u)
BY ConcatAssociative

\* A block of h + 1 descriptors of a transfer from the m-th on, when the bytes before it have been
\* moved.
Fetching(a, ni, ds, p, m, h, bs, ss) ==
    /\ ds \in Seq(RingDescs) /\ p \in Nat /\ Rightly(a, ni, ds, p)
    /\ m \in 1 .. Len(ds) /\ h \in Nat /\ m + h <= Len(ds) /\ bs \in Seq(Pairs)
    /\ Len(bs) = p + Transfer!Before(ds)[m] /\ AsAsked(a, ni, bs)
    /\ ss \in Seq(Seq(Pairs)) /\ Len(ss) = h + 1
    /\ \A k \in 1 .. h + 1 : ss[k] = MovesOf(ni, ds[m + k - 1])

\* A block of descriptors more.
LEMMA BlockMore ==
  ASSUME NEW a, NEW ni, NEW ds, NEW p, NEW m, NEW h, NEW bs, NEW ss,
         Fetching(a, ni, ds, p, m, h, bs, ss), NEW cs, cs = bs \o Transfer!FlattenSeq(ss)
  PROVE  /\ cs \in Seq(Pairs) /\ AsAsked(a, ni, cs)
         /\ Len(cs) = p + Transfer!Before(ds)[m + h + 1]
<1>0. /\ ds \in Seq(RingDescs) /\ p \in Nat /\ Rightly(a, ni, ds, p)
      /\ m \in 1 .. Len(ds) /\ h \in Nat /\ m + h <= Len(ds) /\ bs \in Seq(Pairs)
      /\ Len(bs) = p + Transfer!Before(ds)[m] /\ AsAsked(a, ni, bs)
      /\ ss \in Seq(Seq(Pairs)) /\ Len(ss) = h + 1
      /\ \A k \in 1 .. h + 1 : ss[k] = MovesOf(ni, ds[m + k - 1])
  BY DEF Fetching
<1> USE <1>0
<1>1. ss \in Seq(Seq(Pairs)) /\ Len(ss) = h + 1 /\ h + 1 \in Nat
      /\ \A k \in 1 .. h + 1 : ss[k] = MovesOf(ni, ds[m + k - 1]) /\ m + k - 1 \in 1 .. Len(ds)
  <2>1. \A k \in 1 .. h + 1 : m + k - 1 \in 1 .. Len(ds)
    OBVIOUS
  <2>2. h + 1 \in Nat
    OBVIOUS
  <2>3. QED BY <2>1, <2>2
<1>2. PICK f \in [0 .. Len(ss) -> Seq(Pairs)] :
            /\ f[0] = <<>>
            /\ \A i \in 1 .. Len(ss) : f[i] = f[i - 1] \o ss[i]
            /\ Transfer!FlattenSeq(ss) = f[Len(ss)]
  BY <1>1, FlattenFacts
<1> DEFINE b == Transfer!Before(ds)
           Good(ts, k) == ts \in Seq(Pairs) /\ AsAsked(a, ni, ts) /\ Len(ts) = p + b[m + k]
           T == {k \in Nat : Good(bs \o f[k], k)}
<1>3. 0 \in T
  <2>1. bs \o <<>> = bs
    OBVIOUS
  <2>2. m + 0 = m
    OBVIOUS
  <2>3. Good(bs, 0)
    BY <2>2
  <2> HIDE DEF Good
  <2>4. QED BY <1>2, <2>1, <2>3
<1>4. ASSUME NEW k \in 0 .. (h + 1) - 1, k \in T PROVE k + 1 \in T
  <2> DEFINE n == k + 1
             x == f[k]
             y == ss[n]
             j == m + k
  <2>1. n \in 1 .. h + 1 /\ n - 1 = k /\ n \in Nat /\ k \in 0 .. h + 1 /\ j + 1 = m + n /\ m + n - 1 = j
    OBVIOUS
  <2> HIDE DEF n, j
  <2>2. f[n] = x \o y /\ j \in 1 .. Len(ds) /\ y = MovesOf(ni, ds[j])
    <3>1. f[n] = x \o y
      <4>1. n \in 1 .. Len(ss)
        BY <1>1, <2>1
      <4>2. f[n] = f[n - 1] \o ss[n]
        BY <1>2, <4>1
      <4>3. QED BY <2>1, <4>2
    <3>2. m + n - 1 \in 1 .. Len(ds) /\ y = MovesOf(ni, ds[m + n - 1])
      BY <1>1, <2>1
    <3>3. QED BY <2>1, <3>1, <3>2
  <2>3. x \in Seq(Pairs) /\ y \in Seq(Pairs)
    <3>1. k \in 0 .. Len(ss) /\ n \in 1 .. Len(ss)
      BY <1>1, <2>1
    <3>2. x \in Seq(Pairs)
      BY <3>1
    <3>3. y \in Seq(Pairs)
      <4>1. ds[j] \in RingDescs
        BY <2>2
      <4>2. MovesOf(ni, ds[j]) \in Seq(Pairs)
        BY <4>1, MovesTyped
      <4>3. QED BY <2>2, <4>2
    <3>4. QED BY <3>2, <3>3
  <2>4. Good(bs \o x, k)
    BY <1>4
  <2> HIDE DEF x, y
  <2> DEFINE ts == bs \o x
  <2>5. ts \in Seq(Pairs) /\ AsAsked(a, ni, ts) /\ Len(ts) = p + b[j]
    BY <2>4 DEF j
  <2> HIDE DEF ts
  <2>6. ts \o y \in Seq(Pairs) /\ AsAsked(a, ni, ts \o y) /\ Len(ts \o y) = p + b[j + 1]
    <3>1. ts \in Seq(Pairs) /\ AsAsked(a, ni, ts) /\ Len(ts) = p + Transfer!Before(ds)[j]
      BY <2>5
    <3>2. j \in 1 .. Len(ds) /\ y = MovesOf(ni, ds[j])
      BY <2>2
    <3>3. ts \o y \in Seq(Pairs)
      BY <3>1, <3>2, OneMore
    <3>4. AsAsked(a, ni, ts \o y)
      BY <3>1, <3>2, OneMore
    <3>5. Len(ts \o y) = p + Transfer!Before(ds)[j + 1]
      <4> DEFINE bb == Transfer!Before(ds)
      <4>1. bb[j + 1] = bb[j] + ds[j].len /\ bb[j] \in Nat
        <5>1. bb \in [1 .. Len(ds) + 1 -> Nat] /\ \A i \in 1 .. Len(ds) : bb[i + 1] = bb[i] + ds[i].len
          BY RingLens, BeforeFacts
        <5>2. j \in 1 .. Len(ds) /\ j \in 1 .. Len(ds) + 1
          BY <3>2
        <5> HIDE DEF bb
        <5>3. QED BY <5>1, <5>2
      <4>2. Len(y) = ds[j].len /\ ds[j].len \in Nat
        <5>1. ds[j] \in RingDescs
          BY <3>2
        <5>2. QED BY <3>2, <5>1, MovesTyped, RingLens
      <4>3. Len(ts \o y) = Len(ts) + Len(y)
        BY <2>3, <3>1, PairsConcat, Zenon
      <4> HIDE DEF bb
      <4>4. Len(ts) = p + bb[j]
        BY <3>1 DEF bb
      <4>5. \A l \in Nat, t \in Nat : (p + t) + l = p + (t + l)
        OBVIOUS
      <4>6. (p + bb[j]) + ds[j].len = p + (bb[j] + ds[j].len)
        BY <4>1, <4>2, <4>5, Zenon
      <4>7. QED BY <4>1, <4>2, <4>3, <4>4, <4>6, Zenon DEF bb
    <3>6. QED BY <3>3, <3>4, <3>5
  <2>7. Good(ts \o y, n)
    BY <2>1, <2>6
  <2>8. ts \o y = bs \o (x \o y)
    <3>1. (bs \o x) \o y = bs \o (x \o y)
      BY <2>3, PairsAssociate, Zenon
    <3>2. QED BY <3>1 DEF ts
  <2> HIDE DEF Good
  <2>9. Good(bs \o f[n], n)
    BY <2>2, <2>7, <2>8
  <2>10. n \in T
    BY <2>1, <2>9
  <2>11. QED BY <2>10 DEF n
<1>5. h + 1 \in T
  <2> HIDE DEF T
  <2>1. 0 .. h + 1 \subseteq T
    BY <1>1, <1>3, <1>4, InductiveTo
  <2>2. QED BY <1>1, <2>1
<1>6. Good(bs \o f[h + 1], h + 1)
  BY <1>5
<1>7. m + (h + 1) = m + h + 1
  OBVIOUS
<1>8. QED BY <1>1, <1>2, <1>6, <1>7

-----------------------------------------------------------------------------
\* The inductive invariant of a call, action by action.

\* The inductive invariant of a call.
SgReqs == [sdesc : Seq(SgEntries), sw_desc_idx : Nat, ep : Nat, offset : Nat,
           sg_idx : Nat \ {0}, sg_offset : Nat, passes : Nat]
\* Transfers.
SgXfers == [first : Nat, num : Nat, len : Nat, last : BOOLEAN,
            state : {"new", "submitted", "completed", "failed"}]

\* Types: request, transfer and the card have theirs too.
SgTypes ==
    /\ Transfer!TypeOK
    /\ stage # "idle" => ask \in Asks
    /\ sg \in Seq(SgEntries) /\ req \in SgReqs /\ xfer \in SgXfers
    /\ ring \in [Transfer!Slots -> RingDescs]
    /\ fetch \in [at : Nat, more : Nat] /\ bytes \in Seq(Pairs)

\* What holds at each stage of the call.
SgStages ==
    /\ stage \in {"idle", "pages", "submit"} => bytes = <<>> /\ done = 0
    /\ stage \in {"idle", "pages", "over"} => ~mapped /\ pages = 0
    /\ stage \in {"submit", "build", "wait"} =>
         sg = Transfer!ScatterList(ask) /\ pages = Transfer!PagesOf(ask)
    /\ stage \in {"build", "wait"} => mapped
    /\ stage = "build" => Transfer!MoreToDo
    /\ stage = "wait" => (xfer.last => ~Transfer!MoreToDo)

\* The request: the descriptors of a read or write hold the buffer; how far an aperture has come.
SgRequest ==
    /\ ask.aperture = 0 =>
         Covers(ask, req.sdesc) /\ req.sw_desc_idx <= Len(req.sdesc)
    /\ ask.aperture > 0 =>
         /\ req.passes = 0 => req.offset = 0 /\ req.sg_idx = 1 /\ req.sg_offset = 0
         /\ Len(sg) = 1 =>
              \/ req.sg_idx = 1 /\ req.sg_offset = req.offset /\ req.offset < ask.len
              \/ req.sg_idx = 2 /\ req.offset = ask.len

\* The transfer is a chain in the ring, and the card at one of its descriptors.
SgFetch ==
    /\ xfer.first \in Transfer!Slots /\ xfer.num # 0 /\ xfer.first + xfer.num <= DescMax
    /\ Chained(ring, xfer.first, xfer.num)
    /\ fetch.at \in xfer.first .. xfer.first + xfer.num - 1
    /\ fetch.more = Transfer!NextAdj(xfer.first + xfer.num - fetch.at, fetch.at)

\* Up to which byte the request has been made into transfers.
Position == IF ask.aperture = 0 THEN Transfer!Before(req.sdesc)[req.sw_desc_idx + 1] ELSE req.offset
\* The descriptors of the transfer.
Loaded == [j \in 1 .. xfer.num |-> ring[xfer.first + j - 1]]

\* Of a request the code handles, the card has moved what was asked for, up to its descriptor.
SgMoved ==
    /\ AsAsked(ask, non_incr_addr, bytes) /\ Len(bytes) <= ask.len /\ done <= Len(bytes)
    /\ stage = "build" => Len(bytes) = Position /\ done = Position
    /\ stage \in {"build", "wait"} /\ ask.aperture = 0 => req.ep = EpAt(ask, non_incr_addr, Position)
    /\ stage = "wait" =>
         /\ done + xfer.len = Position /\ Position <= ask.len
         /\ Transfer!Bytes(Loaded) = xfer.len /\ Rightly(ask, non_incr_addr, Loaded, done)
         /\ xfer.state = "submitted" =>
              Len(bytes) = done + Transfer!Before(Loaded)[fetch.at - xfer.first + 1]
         /\ xfer.state = "completed" => Len(bytes) = done + xfer.len
    /\ stage \in {"unpin", "over"} /\ rv = "none" => done = ask.len

\* All of it.
SgInv ==
    /\ SgTypes /\ SgStages
    /\ stage \in {"build", "wait"} => SgRequest
    /\ stage = "wait" => SgFetch
    /\ Transfer!Handled => SgMoved
    /\ Transfer!StaysInRing

\* Nothing moved is as asked.
LEMMA NothingMoved ==
  ASSUME NEW a, NEW ni
  PROVE  AsAsked(a, ni, <<>>)
BY DEF AsAsked

\* The fields of a call.
LEMMA AsksTyped ==
  ASSUME NEW a \in Asks
  PROVE  /\ a \in [buf : Nat, len : Nat, ep : Nat, aperture : Nat, merged : BOOLEAN]
         /\ a.len \in Nat \ {0} /\ a.ep \in Nat /\ a.aperture \in Nat
BY SgConstants DEF Asks

\* Each action keeps the invariant.  A call is made, ...
LEMMA StepBegin ==
  ASSUME SgInv, ~astray, Transfer!Begin
  PROVE  SgInv'
<1>1. /\ stage = "idle" /\ stage' = "pages" /\ ask' \in Asks
      /\ UNCHANGED <<done, rv, sg, mapped, pages, req, xfer, ring, desc_idx, non_incr_addr, switched,
                     fetch, bytes, astray>>
  <2>1. ask' \in Asks
    BY SgConstants DEF Transfer!Begin, Asks
  <2>2. QED BY <2>1 DEF Transfer!Begin, Transfer!bufVars, Transfer!engVars, Transfer!cardVars
<1>2. ask' \in [buf : Nat, len : Nat, ep : Nat, aperture : Nat, merged : BOOLEAN] /\ ask'.len \in Nat
  BY <1>1, AsksTyped
<1>3. SgTypes'
  BY <1>1, <1>2 DEF SgInv, SgTypes, Transfer!TypeOK
<1>4. SgStages'
  BY <1>1 DEF SgInv, SgStages
<1>5. SgMoved'
  <2>1. bytes' = <<>> /\ done' = 0 /\ Len(<<>>) = 0
    BY <1>1 DEF SgInv, SgStages
  <2>2. AsAsked(ask', non_incr_addr', bytes')
    BY <2>1, NothingMoved
  <2>3. Len(bytes') <= ask'.len /\ done' <= Len(bytes')
    BY <1>2, <2>1
  <2>4. QED BY <1>1, <2>2, <2>3 DEF SgMoved
<1>6. Transfer!StaysInRing'
  BY <1>1 DEF Transfer!StaysInRing
<1>7. QED BY <1>1, <1>3, <1>4, <1>5, <1>6 DEF SgInv

\* ... its pages cannot be had, ...
LEMMA StepMapFails ==
  ASSUME SgInv, ~astray, Transfer!MapFails
  PROVE  SgInv'
<1>1. /\ stage = "pages" /\ stage' = "over" /\ rv' = "error"
      /\ UNCHANGED <<ask, done, sg, mapped, pages, req, xfer, ring, desc_idx, non_incr_addr, switched,
                     fetch, bytes, astray>>
  BY DEF Transfer!MapFails, Transfer!bufVars, Transfer!engVars, Transfer!cardVars
<1>2. ask.len \in Nat
  BY <1>1, AsksTyped DEF SgInv, SgTypes
<1>3. SgTypes'
  BY <1>1 DEF SgInv, SgTypes, Transfer!TypeOK
<1>4. SgStages'
  BY <1>1 DEF SgInv, SgStages
<1>5. SgMoved'
  <2>1. bytes' = <<>> /\ done' = 0 /\ Len(<<>>) = 0
    BY <1>1 DEF SgInv, SgStages
  <2>2. AsAsked(ask', non_incr_addr', bytes')
    BY <2>1, NothingMoved
  <2>3. Len(bytes') <= ask'.len /\ done' <= Len(bytes')
    BY <1>1, <1>2, <2>1
  <2>4. QED BY <1>1, <2>2, <2>3 DEF SgMoved
<1>6. Transfer!StaysInRing'
  BY <1>1 DEF Transfer!StaysInRing
<1>7. QED BY <1>1, <1>3, <1>4, <1>5, <1>6 DEF SgInv

\* (the pages are a number)
LEMMA PagesNat ==
  ASSUME NEW a \in Asks
  PROVE  Transfer!PagesOf(a) \in Nat
<1> DEFINE x == a.buf + a.len
           q == (x + PageSize - 1) \div PageSize
<1>1. x \in Nat \ {0}
  BY SgConstants DEF Asks
<1> HIDE DEF x
<1>2. q \in Nat
  BY <1>1, SgConstants, RoundedUp
<1>3. QED BY <1>2 DEF Transfer!PagesOf, x

\* ... or are had, ...
LEMMA StepMapPages ==
  ASSUME SgInv, ~astray, Transfer!MapPages
  PROVE  SgInv'
<1>1. /\ stage = "pages" /\ stage' = "submit" /\ sg' = Transfer!ScatterList(ask)
      /\ pages' = Transfer!PagesOf(ask)
      /\ UNCHANGED <<ask, done, rv, mapped, req, xfer, ring, desc_idx, non_incr_addr, switched,
                     fetch, bytes, astray>>
  BY DEF Transfer!MapPages, Transfer!engVars, Transfer!cardVars
<1>2. ask \in Asks /\ ask.len \in Nat
  BY <1>1, AsksTyped DEF SgInv, SgTypes
<1>3. SgTypes'
  <2>1. sg' \in Seq(SgEntries) /\ pages' \in Nat
    BY <1>1, <1>2, ScatterCovers, PagesNat
  <2>2. QED BY <1>1, <2>1 DEF SgInv, SgTypes, Transfer!TypeOK
<1>4. SgStages'
  <2>1. Transfer!ScatterList(ask)' = Transfer!ScatterList(ask) /\ Transfer!PagesOf(ask)' = Transfer!PagesOf(ask)
    BY <1>1 DEF Transfer!ScatterList, Transfer!PagesOf, Transfer!BusOf
  <2>2. QED BY <1>1, <2>1 DEF SgInv, SgStages
<1>5. SgMoved'
  <2>1. bytes' = <<>> /\ done' = 0 /\ Len(<<>>) = 0
    BY <1>1 DEF SgInv, SgStages
  <2>2. AsAsked(ask', non_incr_addr', bytes')
    BY <2>1, NothingMoved
  <2>3. Len(bytes') <= ask'.len /\ done' <= Len(bytes')
    BY <1>1, <1>2, <2>1
  <2>4. QED BY <1>1, <2>2, <2>3 DEF SgMoved
<1>6. Transfer!StaysInRing'
  BY <1>1 DEF Transfer!StaysInRing
<1>7. QED BY <1>1, <1>3, <1>4, <1>5, <1>6 DEF SgInv

\* ... the request is made, ...
LEMMA StepSubmit ==
  ASSUME SgInv, ~astray, Transfer!Submit
  PROVE  SgInv'
<1>1. /\ stage = "submit" /\ stage' = "build" /\ mapped' = TRUE /\ req' = Transfer!InitRequest
      /\ UNCHANGED <<ask, done, rv, sg, pages, xfer, ring, desc_idx, non_incr_addr, switched,
                     fetch, bytes, astray>>
  BY DEF Transfer!Submit, Transfer!engVars, Transfer!cardVars
<1>2. /\ ask \in Asks /\ ask.len \in Nat \ {0} /\ ask.ep \in Nat /\ ask.aperture \in Nat
      /\ sg = Transfer!ScatterList(ask) /\ pages = Transfer!PagesOf(ask) /\ bytes = <<>> /\ done = 0
  BY <1>1, AsksTyped DEF SgInv, SgTypes, SgStages
<1>3. /\ sg \in Seq(SgEntries) /\ Covers(ask, sg) /\ sg # <<>>
      /\ \A k \in 1 .. Len(sg) : sg[k].len \in 1 .. ask.len
  BY <1>2, ScatterCovers
<1> DEFINE ds == Transfer!FlattenSeq([k \in DOMAIN sg |-> Transfer!Pieces(sg[k])])
<1>4. ds \in Seq(SgEntries) /\ Covers(ask, ds)
  <2>1. \A k \in 1 .. Len(sg) : sg[k].len # 0
    BY <1>3
  <2>2. QED BY <1>3, <2>1, RequestCovers
<1>5. req' = [Transfer!NoReq EXCEPT !.ep = ask.ep, !.sdesc = IF ask.aperture = 0 THEN ds ELSE <<>>]
  BY <1>1 DEF Transfer!InitRequest
<1> HIDE DEF ds
<1>6. /\ req'.sdesc = (IF ask.aperture = 0 THEN ds ELSE <<>>) /\ req'.sw_desc_idx = 0 /\ req'.ep = ask.ep
      /\ req'.offset = 0 /\ req'.sg_idx = 1 /\ req'.sg_offset = 0 /\ req'.passes = 0
      /\ req' = [sdesc |-> req'.sdesc, sw_desc_idx |-> 0, ep |-> ask.ep, offset |-> 0,
                 sg_idx |-> 1, sg_offset |-> 0, passes |-> 0]
  BY <1>5 DEF Transfer!NoReq
<1>7. req'.sdesc \in Seq(SgEntries)
  BY <1>4, <1>6
<1>8. req' \in SgReqs
  <2> DEFINE d == req'.sdesc
  <2>1. d \in Seq(SgEntries) /\ ask.ep \in Nat
        /\ req' = [sdesc |-> d, sw_desc_idx |-> 0, ep |-> ask.ep, offset |-> 0,
                   sg_idx |-> 1, sg_offset |-> 0, passes |-> 0]
    BY <1>2, <1>6, <1>7
  <2> HIDE DEF d
  <2>2. QED BY <2>1 DEF SgReqs
<1>9. SgTypes'
  BY <1>1, <1>8 DEF SgInv, SgTypes, Transfer!TypeOK
<1>10. ask.aperture = 0 => Len(ds) \in Nat \ {0}
  <2>1. Transfer!Bytes(ds) # 0
    BY <1>2, <1>4 DEF Covers
  <2>2. QED BY <1>4, <2>1, LensNat, NonEmptyBytes
<1>11. Transfer!MoreToDo'
  <2>1. CASE ask.aperture = 0
    BY <1>1, <1>6, <1>10, <2>1 DEF Transfer!MoreToDo
  <2>2. CASE ask.aperture # 0
    BY <1>1, <1>2, <1>6, <2>2 DEF Transfer!MoreToDo
  <2>3. QED BY <2>1, <2>2
<1>12. SgStages'
  <2>1. Transfer!ScatterList(ask)' = Transfer!ScatterList(ask) /\ Transfer!PagesOf(ask)' = Transfer!PagesOf(ask)
    BY <1>1 DEF Transfer!ScatterList, Transfer!PagesOf, Transfer!BusOf
  <2>2. QED BY <1>1, <1>2, <1>11, <2>1 DEF SgStages
<1>13. SgRequest'
  <2>1. CASE ask.aperture = 0
    <3>1. Covers(ask', req'.sdesc)
      BY <1>1, <1>4, <1>6, <2>1
    <3>2. req'.sw_desc_idx <= Len(req'.sdesc)
      BY <1>6, <1>10, <2>1
    <3>3. ask'.aperture = 0
      BY <1>1, <2>1
    <3>4. QED BY <3>1, <3>2, <3>3 DEF SgRequest
  <2>2. CASE ask.aperture > 0
    <3>1. ask'.aperture # 0 /\ 0 < ask'.len
      BY <1>1, <1>2, <2>2
    <3>2. QED BY <1>6, <3>1 DEF SgRequest
  <2>3. QED BY <1>2, <2>1, <2>2
<1>14. SgMoved'
  <2>1. Position' = 0 /\ (ask.aperture = 0 => Transfer!Before(ds)[1] = 0)
    <3>1. CASE ask.aperture = 0
      <4>1. Transfer!Before(ds)[1] = 0
        BY <1>4, LensNat, BeforeFacts
      <4>2. Position' = Transfer!Before(ds)[0 + 1]
        BY <1>1, <1>6, <3>1 DEF Position
      <4>3. QED BY <4>1, <4>2
    <3>2. CASE ask.aperture # 0
      BY <1>1, <1>6, <3>2 DEF Position
    <3>3. QED BY <3>1, <3>2
  <2>2. AsAsked(ask', non_incr_addr', bytes')
    BY <1>1, <1>2, NothingMoved
  <2>3. Len(bytes') = 0 /\ done' = 0
    BY <1>1, <1>2
  <2>4. Len(bytes') <= ask'.len /\ done' <= Len(bytes')
    BY <1>1, <1>2, <2>3
  <2>5. ask'.aperture = 0 => req'.ep = EpAt(ask', non_incr_addr', Position')
    BY <1>1, <1>2, <1>6, <2>1 DEF EpAt
  <2>6. QED BY <1>1, <2>1, <2>2, <2>3, <2>4, <2>5 DEF SgMoved
<1>15. Transfer!StaysInRing'
  BY <1>1 DEF Transfer!StaysInRing
<1>16. QED BY <1>1, <1>9, <1>12, <1>13, <1>14, <1>15 DEF SgInv

\* ... or is not, ...
LEMMA StepSubmitFails ==
  ASSUME SgInv, ~astray, Transfer!SubmitFails
  PROVE  SgInv'
<1>1. /\ stage = "submit" /\ stage' = "unpin" /\ rv' = "error"
      /\ UNCHANGED <<ask, done, sg, mapped, pages, req, xfer, ring, desc_idx, non_incr_addr, switched,
                     fetch, bytes, astray>>
  BY DEF Transfer!SubmitFails, Transfer!bufVars, Transfer!engVars, Transfer!cardVars
<1>2. ask.len \in Nat
  BY <1>1, AsksTyped DEF SgInv, SgTypes
<1>3. SgTypes'
  BY <1>1 DEF SgInv, SgTypes, Transfer!TypeOK
<1>4. SgStages'
  BY <1>1 DEF SgInv, SgStages
<1>5. SgMoved'
  <2>1. bytes' = <<>> /\ done' = 0 /\ Len(<<>>) = 0
    BY <1>1 DEF SgInv, SgStages
  <2>2. AsAsked(ask', non_incr_addr', bytes')
    BY <2>1, NothingMoved
  <2>3. Len(bytes') <= ask'.len /\ done' <= Len(bytes')
    BY <1>1, <1>2, <2>1
  <2>4. QED BY <1>1, <2>2, <2>3 DEF SgMoved
<1>6. Transfer!StaysInRing'
  BY <1>1 DEF Transfer!StaysInRing
<1>7. QED BY <1>1, <1>3, <1>4, <1>5, <1>6 DEF SgInv

\* A transfer that was built and started.
LEMMA Built ==
  ASSUME ring \in [Transfer!Slots -> RingDescs], desc_idx \in Transfer!Slots,
         NEW ds \in Seq(Descs), NEW n, n = Len(ds), n # 0, desc_idx + n <= DescMax,
         ring' = Transfer!Chain(desc_idx, ds), xfer'.first = desc_idx, xfer'.num = n,
         fetch' = [at |-> desc_idx, more |-> Transfer!NextAdj(n, desc_idx)],
         desc_idx' = (desc_idx + n) % DescMax
  PROVE  /\ ring' \in [Transfer!Slots -> RingDescs] /\ desc_idx' \in Transfer!Slots
         /\ fetch' \in [at : Nat, more : Nat] /\ SgFetch'
         /\ Loaded' \in Seq(RingDescs) /\ Len(Loaded') = n
         /\ Transfer!Bytes(Loaded)' = Transfer!Bytes(ds)
         /\ Transfer!Before(Loaded)'[1] = 0
         /\ \A a, ni, p : Rightly(a, ni, ds, p) => Rightly(a, ni, Loaded', p)
<1>0. n \in Nat \ {0} /\ desc_idx \in Nat /\ DescMax \in Nat \ {0}
  BY SgConstants DEF Transfer!Slots
<1>1. /\ ring' \in [Transfer!Slots -> RingDescs] /\ Chained(ring', desc_idx, n)
      /\ \A j \in 1 .. n : ring'[desc_idx + j - 1].addr = ds[j].addr
             /\ ring'[desc_idx + j - 1].ep = ds[j].ep /\ ring'[desc_idx + j - 1].len = ds[j].len
  BY ChainLinks
<1>2. desc_idx' \in Transfer!Slots
  <2>1. desc_idx + n \in Int
    BY <1>0
  <2>2. (desc_idx + n) % DescMax \in 0 .. DescMax - 1
    BY <1>0, <2>1, ModRange
  <2>3. QED BY <2>2 DEF Transfer!Slots
<1>3. fetch' \in [at : Nat, more : Nat]
  BY <1>0, AdjacentStay
<1>4. SgFetch'
  <2>1. desc_idx \in desc_idx .. desc_idx + n - 1 /\ desc_idx + n - desc_idx = n
    BY <1>0
  <2>2. QED BY <1>0, <1>1, <2>1 DEF SgFetch, Transfer!Slots
<1> DEFINE xd == Loaded'
<1>5. xd = [j \in 1 .. n |-> ring'[desc_idx + j - 1]]
  BY DEF Loaded
<1>6. xd \in Seq(RingDescs) /\ Len(xd) = n /\ \A j \in 1 .. n : xd[j] = ring'[desc_idx + j - 1]
  <2>1. \A j \in 1 .. n : desc_idx + j - 1 \in Transfer!Slots
    BY <1>0 DEF Transfer!Slots
  <2>2. xd \in [1 .. n -> RingDescs]
    BY <1>1, <1>5, <2>1
  <2>3. \A j \in 1 .. n : xd[j] = ring'[desc_idx + j - 1]
    BY <1>5
  <2> HIDE DEF xd
  <2>4. QED BY <1>0, <2>2, <2>3, FunIsSeq
<1> HIDE DEF xd
<1>7. \A j \in 1 .. Len(ds) : xd[j].addr = ds[j].addr /\ xd[j].ep = ds[j].ep /\ xd[j].len = ds[j].len
  BY <1>1, <1>6
<1>8. Transfer!Bytes(xd) = Transfer!Bytes(ds)
  <2>1. \A j \in 1 .. Len(ds) : ds[j].len = xd[j].len
    BY <1>7
  <2>2. Len(ds) = Len(xd)
    BY <1>6
  <2>3. QED BY <1>6, <2>1, <2>2, DescLens, RingLens, BeforeSame
<1>9. Transfer!Before(xd)[1] = 0
  BY <1>6, RingLens, BeforeFacts
<1>10. ASSUME NEW a, NEW ni, NEW p, Rightly(a, ni, ds, p) PROVE Rightly(a, ni, xd, p)
  <2>1. Len(ds) = Len(xd) /\ xd \in Seq(RingDescs)
    BY <1>6
  <2>2. QED BY <1>7, <1>10, <2>1, DescLens, RingLens, RightlySame
<1>11. Transfer!Bytes(Loaded)' = Transfer!Bytes(xd) /\ Transfer!Before(Loaded)' = Transfer!Before(xd)
  BY DEF xd, Transfer!Bytes, Transfer!Before
<1>12. QED BY <1>1, <1>2, <1>3, <1>4, <1>6, <1>8, <1>9, <1>10, <1>11 DEF xd

\* transfer_init takes descriptors that are there, for slots that are there.
LEMMA CountFits ==
  ASSUME req \in SgReqs, desc_idx \in Transfer!Slots, req.sw_desc_idx < Len(req.sdesc),
         NEW n, n = Transfer!DescCount
  PROVE  n \in Nat \ {0} /\ req.sw_desc_idx + n <= Len(req.sdesc) /\ desc_idx + n <= DescMax
<1> DEFINE l == Len(req.sdesc) - req.sw_desc_idx
           m == Transfer!Smaller(l, DescMax)
<1>1. /\ req.sw_desc_idx \in Nat /\ Len(req.sdesc) \in Nat /\ DescMax \in Nat \ {0}
      /\ desc_idx \in Nat /\ desc_idx < DescMax
  BY SgConstants DEF SgReqs, Transfer!Slots
<1>2. n = IF desc_idx + m >= DescMax THEN DescMax - desc_idx ELSE m
  BY DEF Transfer!DescCount
<1>3. l \in Nat \ {0} /\ req.sw_desc_idx + l = Len(req.sdesc)
  BY <1>1
<1> HIDE DEF l
<1>4. m \in Nat \ {0} /\ m <= l /\ m <= DescMax
  BY <1>1, <1>3, Smallest2
<1> HIDE DEF m
<1>5. QED BY <1>1, <1>2, <1>3, <1>4

\* ... a transfer is built and started, ...
LEMMA StepBuild ==
  ASSUME SgInv, ~astray, Transfer!Build
  PROVE  SgInv'
<1> DEFINE n == Transfer!DescCount
           f == Transfer!Filled(n)
           sd == req.sdesc
           m == req.sw_desc_idx
           b == Transfer!Before(sd)
<1>1. /\ stage = "build" /\ ask.aperture = 0 /\ stage' = "wait"
      /\ ring' = Transfer!Chain(desc_idx, f.descs)
      /\ xfer' = [first |-> desc_idx, num |-> n, len |-> Transfer!Bytes(f.descs),
                  last |-> m + n = Len(sd), state |-> "submitted"]
      /\ req' = [req EXCEPT !.sw_desc_idx = @ + n, !.ep = f.ep, !.passes = @ + 1]
      /\ fetch' = [at |-> desc_idx, more |-> Transfer!NextAdj(n, desc_idx)]
      /\ desc_idx' = (desc_idx + n) % DescMax
      /\ UNCHANGED <<ask, done, rv, sg, mapped, pages, non_incr_addr, switched, bytes, astray>>
  BY DEF Transfer!Build, Transfer!Start, Transfer!bufVars
<1>2. /\ ask \in Asks /\ ask.len \in Nat /\ req \in SgReqs /\ desc_idx \in Transfer!Slots
      /\ ring \in [Transfer!Slots -> RingDescs] /\ done \in Nat
  BY <1>1, AsksTyped DEF SgInv, SgTypes, Transfer!TypeOK
<1>3. Covers(ask, sd) /\ m < Len(sd)
  BY <1>1 DEF SgInv, SgRequest, SgStages, Transfer!MoreToDo
<1>4. n \in Nat \ {0} /\ m + n <= Len(sd) /\ desc_idx + n <= DescMax
  BY <1>2, <1>3, CountFits
<1>5. sd \in Seq(SgEntries) /\ m \in Nat /\ req.ep \in Nat
  BY <1>2 DEF SgReqs
<1> HIDE DEF n
<1>6. /\ f.descs \in Seq(Descs) /\ Len(f.descs) = n /\ f.ep \in Nat
      /\ b[m + 1] + Transfer!Bytes(f.descs) = b[m + n + 1]
      /\ req.ep = EpAt(ask, non_incr_addr, b[m + 1]) =>
           /\ f.ep = EpAt(ask, non_incr_addr, b[m + n + 1])
           /\ Rightly(ask, non_incr_addr, f.descs, b[m + 1])
  BY <1>1, <1>2, <1>3, <1>4, <1>5, FilledRightly
<1>7. Transfer!Bytes(f.descs) \in Nat
  BY <1>6, DescLens, BytesNat
<1> DEFINE ds == f.descs
           e == f.ep
<1>8. req' = [req EXCEPT !.sw_desc_idx = @ + n, !.ep = e, !.passes = @ + 1]
  BY <1>1
<1>9. xfer' = [first |-> desc_idx, num |-> n, len |-> Transfer!Bytes(ds),
               last |-> m + n = Len(sd), state |-> "submitted"]
  BY <1>1
<1>10. ds \in Seq(Descs) /\ Len(ds) = n /\ e \in Nat /\ Transfer!Bytes(ds) \in Nat
       /\ ring' = Transfer!Chain(desc_idx, ds)
  BY <1>1, <1>6, <1>7
<1>11. /\ req.ep = EpAt(ask, non_incr_addr, b[m + 1]) =>
           /\ e = EpAt(ask, non_incr_addr, b[m + n + 1])
           /\ Rightly(ask, non_incr_addr, ds, b[m + 1])
       /\ b[m + 1] + Transfer!Bytes(ds) = b[m + n + 1]
  BY <1>6
<1> HIDE DEF f, ds, e
<1>12. xfer'.first = desc_idx /\ xfer'.num = n
  BY <1>9
<1>13. /\ ring' \in [Transfer!Slots -> RingDescs] /\ desc_idx' \in Transfer!Slots
       /\ fetch' \in [at : Nat, more : Nat] /\ SgFetch'
       /\ Loaded' \in Seq(RingDescs) /\ Len(Loaded') = n
       /\ Transfer!Bytes(Loaded)' = Transfer!Bytes(ds)
       /\ Transfer!Before(Loaded)'[1] = 0
       /\ \A a, ni, p : Rightly(a, ni, ds, p) => Rightly(a, ni, Loaded', p)
  <2>1. n # 0
    BY <1>4
  <2>2. QED BY <1>1, <1>2, <1>4, <1>10, <1>12, <2>1, Built
<1>14. /\ req' \in SgReqs /\ req'.sdesc = sd /\ req'.sw_desc_idx = m + n /\ req'.ep = e
       /\ req'.passes = req.passes + 1 /\ req'.offset = req.offset
  <2>1. m + n \in Nat /\ req.passes + 1 \in Nat
    BY <1>2, <1>4, <1>5 DEF SgReqs
  <2>2. QED BY <1>2, <1>8, <1>10, <2>1 DEF SgReqs
<1>15. xfer' \in SgXfers
  <2>1. desc_idx \in Nat
    BY <1>2, SgConstants DEF Transfer!Slots
  <2>2. (m + n = Len(sd)) \in BOOLEAN
    OBVIOUS
  <2>3. QED BY <1>4, <1>9, <1>10, <2>1, <2>2 DEF SgXfers
<1>16. SgTypes'
  BY <1>1, <1>13, <1>14, <1>15 DEF SgInv, SgTypes, Transfer!TypeOK
<1>17. SgStages'
  <2>1. Transfer!ScatterList(ask)' = Transfer!ScatterList(ask) /\ Transfer!PagesOf(ask)' = Transfer!PagesOf(ask)
    BY <1>1 DEF Transfer!ScatterList, Transfer!PagesOf, Transfer!BusOf
  <2>2. xfer'.last => ~Transfer!MoreToDo'
    <3>1. xfer'.last <=> m + n = Len(sd)
      BY <1>9
    <3>2. Transfer!MoreToDo' <=> m + n < Len(sd)
      BY <1>1, <1>14 DEF Transfer!MoreToDo
    <3>3. m + n \in Nat /\ Len(sd) \in Nat
      BY <1>4, <1>5
    <3>4. QED BY <3>1, <3>2, <3>3
  <2>3. QED BY <1>1, <2>1, <2>2 DEF SgInv, SgStages
<1>18. SgRequest'
  BY <1>1, <1>3, <1>4, <1>14 DEF SgRequest
<1>19. Transfer!StaysInRing'
  BY <1>1 DEF Transfer!StaysInRing
<1>20. ASSUME Transfer!Handled' PROVE SgMoved'
  <2>1. SgMoved
    BY <1>1, <1>20 DEF SgInv, Transfer!Handled
  <2>2. Position = b[m + 1] /\ Position' = b[m + n + 1]
    BY <1>1, <1>14 DEF Position
  <2>3. /\ AsAsked(ask, non_incr_addr, bytes) /\ Len(bytes) <= ask.len /\ done <= Len(bytes)
        /\ Len(bytes) = b[m + 1] /\ done = b[m + 1]
        /\ req.ep = EpAt(ask, non_incr_addr, b[m + 1])
    BY <1>1, <2>1, <2>2 DEF SgMoved
  <2>4. done + Transfer!Bytes(ds) = b[m + n + 1]
    BY <1>11, <2>3
  <2>5. b[m + n + 1] <= ask.len
    <3>1. m + n + 1 \in 1 .. Len(sd) + 1 /\ Len(sd) + 1 \in 1 .. Len(sd) + 1 /\ m + n + 1 <= Len(sd) + 1
      BY <1>4, <1>5
    <3>2. b[m + n + 1] <= b[Len(sd) + 1]
      BY <1>5, <3>1, LensNat, BeforeGrows
    <3>3. b[Len(sd) + 1] = ask.len
      BY <1>3 DEF Covers, Transfer!Bytes
    <3>4. QED BY <3>2, <3>3
  <2>6. Rightly(ask', non_incr_addr', Loaded', done')
    BY <1>1, <1>11, <1>13, <2>3
  <2>7. Transfer!Bytes(Loaded)' = xfer'.len /\ done' + xfer'.len = Position' /\ Position' <= ask'.len
    BY <1>1, <1>9, <1>13, <2>2, <2>4, <2>5
  <2>8. Len(bytes') = done' + Transfer!Before(Loaded)'[fetch'.at - xfer'.first + 1]
    <3>1. desc_idx \in Nat
      BY <1>2, SgConstants DEF Transfer!Slots
    <3>2. fetch'.at - xfer'.first + 1 = 1
      BY <1>1, <1>12, <3>1
    <3>3. done + 0 = done
      BY <1>2
    <3>4. QED BY <1>1, <1>13, <2>3, <3>2, <3>3
  <2>9. req'.ep = EpAt(ask', non_incr_addr', Position')
    BY <1>1, <1>11, <1>14, <2>2, <2>3
  <2>10. xfer'.state = "submitted" /\ stage' = "wait"
    BY <1>1, <1>9
  <2>11. AsAsked(ask', non_incr_addr', bytes') /\ Len(bytes') <= ask'.len /\ done' <= Len(bytes')
    BY <1>1, <2>3
  <2>12. QED BY <2>6, <2>7, <2>8, <2>9, <2>10, <2>11 DEF SgMoved
<1>21. QED BY <1>1, <1>13, <1>16, <1>17, <1>18, <1>19, <1>20 DEF SgInv

\* ... or one of an aperture, ...
LEMMA StepAperture ==
  ASSUME SgInv, ~astray, Transfer!BuildAperture
  PROVE  SgInv'
<1> DEFINE w == Transfer!Walked
           ds == w.descs
           n == Len(ds)
           to == req.offset + Transfer!Bytes(ds)
<1>1. /\ stage = "build" /\ ask.aperture > 0
      /\ n = 0 => astray' = TRUE /\ UNCHANGED <<stage, ring, xfer, req, fetch, desc_idx>>
      /\ n # 0 => /\ stage' = "wait" /\ UNCHANGED astray
                  /\ ring' = Transfer!Chain(desc_idx, ds)
                  /\ xfer' = [first |-> desc_idx, num |-> n, len |-> Transfer!Bytes(ds),
                              last |-> to = ask.len, state |-> "submitted"]
                  /\ req' = [req EXCEPT !.offset = to, !.sg_idx = w.i, !.sg_offset = w.into,
                                        !.passes = @ + 1]
                  /\ fetch' = [at |-> desc_idx, more |-> Transfer!NextAdj(n, desc_idx)]
                  /\ desc_idx' = (desc_idx + n) % DescMax
      /\ UNCHANGED <<ask, done, rv, sg, mapped, pages, non_incr_addr, switched, bytes>>
  BY DEF Transfer!BuildAperture, Transfer!Start, Transfer!bufVars
<1>2. /\ ask \in Asks /\ ask.len \in Nat \ {0} /\ req \in SgReqs /\ desc_idx \in Transfer!Slots
      /\ ring \in [Transfer!Slots -> RingDescs] /\ done \in Nat /\ sg \in Seq(SgEntries)
      /\ sg = Transfer!ScatterList(ask) /\ req.offset < ask.len /\ ask.aperture \in Nat \ {0}
  <2>1. Transfer!MoreToDo /\ ask.aperture # 0
    BY <1>1 DEF SgInv, SgStages
  <2>2. req.offset < ask.len
    BY <2>1 DEF Transfer!MoreToDo
  <2>3. ask \in Asks
    BY <1>1 DEF SgInv, SgTypes
  <2>4. QED BY <1>1, <2>1, <2>2, <2>3, AsksTyped DEF SgInv, SgTypes, SgStages, Transfer!TypeOK
<1>3. /\ req.passes \in Nat /\ req.offset \in Nat /\ req.sg_idx \in Nat \ {0} /\ req.sg_offset \in Nat
  BY <1>2 DEF SgReqs
<1>4. ApertureAsked
  BY <1>1, <1>2, <1>3 DEF ApertureAsked
<1>5. w \in Walking
  BY <1>4, WalkWithin
<1>6. SgRequest
  BY <1>1 DEF SgInv
\* Where the list has one entry, or it is the first transfer, the walk goes on where it was.
<1>7. /\ sg # <<>> /\ Len(sg) \in Nat \ {0} /\ sg[1].len \in Nat \ {0}
      /\ (Len(sg) = 1 => sg[1].len = ask.len)
      /\ Transfer!Before(sg) \in [1 .. Len(sg) + 1 -> Nat]
      /\ Transfer!Before(sg)[Len(sg) + 1] = ask.len
      /\ Transfer!Before(sg)[1] = 0
      /\ \A j \in 1 .. Len(sg) : Transfer!Before(sg)[j + 1] = Transfer!Before(sg)[j] + sg[j].len
  <2>1. /\ sg # <<>> /\ \A p \in 1 .. Len(sg) : sg[p].len \in 1 .. ask.len
        /\ Covers(ask, sg)
    BY <1>2, ScatterCovers
  <2>2. Len(sg) \in Nat \ {0}
    BY <1>2, <2>1
  <2>3. sg[1].len \in Nat \ {0}
    <3>1. 1 \in 1 .. Len(sg)
      BY <2>2
    <3>2. sg[1].len \in 1 .. ask.len
      BY <2>1, <3>1
    <3>3. QED BY <1>2, <3>2
  <2>4. /\ Transfer!Before(sg) \in [1 .. Len(sg) + 1 -> Nat] /\ Transfer!Before(sg)[1] = 0
        /\ \A j \in 1 .. Len(sg) : Transfer!Before(sg)[j + 1] = Transfer!Before(sg)[j] + sg[j].len
    BY <1>2, LensNat, BeforeFacts
  <2>5. Transfer!Before(sg)[Len(sg) + 1] = ask.len
    BY <2>1 DEF Covers, Transfer!Bytes
  <2>6. Len(sg) = 1 => sg[1].len = ask.len
    <3>1. SUFFICES ASSUME Len(sg) = 1 PROVE sg[1].len = ask.len
      OBVIOUS
    <3>2. Transfer!Before(sg)[1 + 1] = Transfer!Before(sg)[1] + sg[1].len
      BY <2>4, <3>1
    <3>3. Transfer!Before(sg)[1 + 1] = ask.len
      BY <2>5, <3>1
    <3>4. QED BY <2>3, <2>4, <3>2, <3>3
  <2>7. QED BY <2>1, <2>2, <2>3, <2>4, <2>5, <2>6
<1>8. ASSUME req.passes = 0 \/ Len(sg) = 1
      PROVE  InOneGo /\ n # 0 /\ Ordered(w)
  <2>1. req.sg_idx = 1 /\ req.sg_offset = req.offset /\ req.offset < sg[1].len
    <3>1. CASE req.passes = 0
      BY <1>1, <1>6, <1>7, <3>1 DEF SgRequest
    <3>2. CASE Len(sg) = 1
      BY <1>1, <1>2, <1>3, <1>6, <1>7, <3>2 DEF SgRequest
    <3>3. QED BY <1>8, <3>1, <3>2
  <2>2. InOneGo
    BY <1>2, <1>4, <2>1 DEF InOneGo
  <2>3. Ordered(w) /\ n \in Nat \ {0}
    BY <2>2, WalkInOrder
  <2>4. QED BY <2>2, <2>3
<1>9. ds \in Seq(Descs) /\ n \in Nat /\ desc_idx + n <= DescMax
      /\ w.i \in Nat \ {0} /\ w.into \in Nat
  BY <1>5 DEF Walking, Walkers
<1>10. Transfer!Bytes(ds) \in Nat /\ to \in Nat
  BY <1>3, <1>9, DescLens, BytesNat
<1> HIDE DEF w, ds, to
<1>11. CASE n = 0
  <2>1. /\ astray' = TRUE
        /\ UNCHANGED <<stage, ask, done, rv, sg, mapped, pages, req, xfer, ring, desc_idx, non_incr_addr,
                       switched, fetch, bytes>>
    BY <1>1, <1>11
  <2>2. SgTypes' /\ SgStages'
    <3>1. SgTypes'
      BY <2>1 DEF SgInv, SgTypes, Transfer!TypeOK
    <3>2. SgStages'
      BY <2>1 DEF SgInv, SgStages, Transfer!MoreToDo, Transfer!ScatterList, Transfer!PagesOf, Transfer!BusOf
    <3>3. QED BY <3>1, <3>2
  <2>3. SgRequest'
    BY <1>6, <2>1 DEF SgRequest
  <2>4. (Transfer!Handled => SgMoved) => (Transfer!Handled' => SgMoved')
    <3>1. stage # "wait"
      BY <1>1
    <3>2. Position' = Position
      BY <2>1 DEF Position
    <3>3. QED BY <2>1, <3>1, <3>2 DEF SgMoved, Transfer!Handled
  <2>5. Transfer!StaysInRing'
    <3>1. req.passes # 0 /\ Len(sg) # 1
      BY <1>8, <1>11
    <3>2. req.passes > 0 /\ Len(sg) > 1
      <4>1. req.passes \in Nat
        BY <1>3
      <4>2. Len(sg) \in Nat \ {0}
        BY <1>7
      <4>3. /\ \A k \in Nat \ {0} : k # 1 => k > 1
            /\ \A k \in Nat : k # 0 => k > 0
        OBVIOUS
      <4>4. QED BY <3>1, <4>1, <4>2, <4>3, Zenon
    <3>3. QED BY <1>1, <2>1, <3>2 DEF Transfer!StaysInRing
  <2>6. stage' # "wait"
    BY <1>1, <2>1
  <2>7. QED BY <2>2, <2>3, <2>4, <2>5, <2>6 DEF SgInv
<1>12. CASE n # 0
  <2>1. /\ stage' = "wait" /\ ring' = Transfer!Chain(desc_idx, ds)
        /\ xfer' = [first |-> desc_idx, num |-> n, len |-> Transfer!Bytes(ds),
                    last |-> to = ask.len, state |-> "submitted"]
        /\ req' = [req EXCEPT !.offset = to, !.sg_idx = w.i, !.sg_offset = w.into, !.passes = @ + 1]
        /\ fetch' = [at |-> desc_idx, more |-> Transfer!NextAdj(n, desc_idx)]
        /\ desc_idx' = (desc_idx + n) % DescMax
        /\ UNCHANGED <<ask, done, rv, sg, mapped, pages, non_incr_addr, switched, bytes, astray>>
    BY <1>1, <1>12
  <2>2. xfer'.first = desc_idx /\ xfer'.num = n
    BY <2>1
  <2>3. /\ ring' \in [Transfer!Slots -> RingDescs] /\ desc_idx' \in Transfer!Slots
        /\ fetch' \in [at : Nat, more : Nat] /\ SgFetch'
        /\ Loaded' \in Seq(RingDescs) /\ Len(Loaded') = n
        /\ Transfer!Bytes(Loaded)' = Transfer!Bytes(ds)
        /\ Transfer!Before(Loaded)'[1] = 0
        /\ \A a, ni, p : Rightly(a, ni, ds, p) => Rightly(a, ni, Loaded', p)
    BY <1>2, <1>9, <1>12, <2>1, <2>2, Built
  <2>4. /\ req' \in SgReqs /\ req'.offset = to /\ req'.sg_idx = w.i /\ req'.sg_offset = w.into
        /\ req'.passes = req.passes + 1
    <3>1. req.passes + 1 \in Nat
      BY <1>3
    <3>2. QED BY <1>2, <1>9, <1>10, <2>1, <3>1 DEF SgReqs
  <2>5. xfer' \in SgXfers
    <3>1. desc_idx \in Nat
      BY <1>2, SgConstants DEF Transfer!Slots
    <3>2. (to = ask.len) \in BOOLEAN
      OBVIOUS
    <3>3. QED BY <1>9, <1>10, <2>1, <3>1, <3>2 DEF SgXfers
  <2>6. SgTypes'
    <3>1. SgTypes
      BY DEF SgInv
    <3>2. Transfer!TypeOK'
      BY <2>1, <2>3, <3>1 DEF SgTypes, Transfer!TypeOK
    <3>3. stage' # "idle" => ask' \in Asks
      BY <1>2, <2>1
    <3>4. sg' \in Seq(SgEntries) /\ bytes' \in Seq(Pairs)
      BY <2>1, <3>1 DEF SgTypes
    <3>5. QED BY <2>3, <2>4, <2>5, <3>2, <3>3, <3>4 DEF SgTypes
  <2>7. SgStages'
    <3>1. Transfer!ScatterList(ask)' = Transfer!ScatterList(ask) /\ Transfer!PagesOf(ask)' = Transfer!PagesOf(ask)
      BY <2>1 DEF Transfer!ScatterList, Transfer!PagesOf, Transfer!BusOf
    <3>2. xfer'.last => ~Transfer!MoreToDo'
      <4>1. xfer'.last <=> to = ask.len
        BY <2>1
      <4>2. Transfer!MoreToDo' <=> to < ask.len
        BY <1>2, <2>1, <2>4 DEF Transfer!MoreToDo
      <4>3. QED BY <1>2, <1>10, <4>1, <4>2
    <3>3. QED BY <1>1, <2>1, <3>1, <3>2 DEF SgInv, SgStages
  <2>8. ASSUME Len(sg) = 1
        PROVE  \/ w.i = 1 /\ w.into = to /\ to < ask.len
               \/ w.i = 2 /\ to = ask.len
    <3>1. Ordered(w)
      BY <1>8, <2>8
    <3>2. /\ w.i <= 2 /\ to = Transfer!Before(sg)[w.i] + w.into
          /\ w.i <= 1 => w.into < sg[w.i].len
          /\ w.i = 2 => w.into = 0
      BY <2>8, <3>1 DEF Ordered, to, ds
    <3>3. CASE w.i = 1
      <4>1. to = 0 + w.into /\ w.into < sg[1].len
        BY <1>7, <3>2, <3>3
      <4>2. QED BY <1>7, <1>9, <2>8, <3>3, <4>1
    <3>4. CASE w.i = 2
      <4>1. to = ask.len + 0
        BY <1>7, <2>8, <3>2, <3>4
      <4>2. QED BY <1>2, <3>4, <4>1
    <3>5. w.i = 1 \/ w.i = 2
      BY <1>9, <3>2
    <3>6. QED BY <3>3, <3>4, <3>5
  <2>9. SgRequest'
    <3>1. ask'.aperture > 0 /\ ask'.aperture # 0 /\ ask' = ask /\ sg' = sg
      BY <1>1, <1>2, <2>1
    <3>2. req'.passes # 0
      BY <1>3, <2>4
    <3>3. Len(sg) = 1 => \/ req'.sg_idx = 1 /\ req'.sg_offset = req'.offset /\ req'.offset < ask.len
                         \/ req'.sg_idx = 2 /\ req'.offset = ask.len
      BY <2>4, <2>8
    <3>4. QED BY <3>1, <3>2, <3>3 DEF SgRequest
  <2>10. Transfer!StaysInRing'
    BY <2>1 DEF Transfer!StaysInRing
  <2>11. ASSUME Transfer!Handled' PROVE SgMoved'
    <3>1. /\ ~switched /\ ~non_incr_addr
          /\ req.passes = 0 \/ (Len(sg) = 1 /\ ask.aperture \in Transfer!PowersOfTwo)
      <4>0. ask'.aperture > 0
        BY <1>1, <2>1
      <4>1. /\ ~switched' /\ ~non_incr_addr'
            /\ req'.passes <= 1 \/ (Len(sg') = 1 /\ ask'.aperture \in Transfer!PowersOfTwo')
        BY <2>11, <4>0 DEF Transfer!Handled
      <4>2. Transfer!PowersOfTwo' = Transfer!PowersOfTwo
        BY DEF Transfer!PowersOfTwo
      <4>3. req'.passes <= 1 => req.passes = 0
        BY <1>3, <2>4
      <4>4. ask' = ask /\ sg' = sg /\ switched' = switched /\ non_incr_addr' = non_incr_addr
        BY <2>1
      <4>5. ~switched /\ ~non_incr_addr
        BY <1>1, <4>1, <4>4
      <4>6. req'.passes <= 1 \/ (Len(sg) = 1 /\ ask.aperture \in Transfer!PowersOfTwo)
        BY <1>1, <4>1, <4>2, <4>4
      <4>7. QED BY <4>3, <4>5, <4>6
    <3>2. Transfer!Handled
      <4>1. req.passes = 0 => req.passes <= 1
        OBVIOUS
      <4>2. QED BY <3>1, <4>1 DEF Transfer!Handled
    <3>3. SgMoved
      BY <3>2 DEF SgInv
    <3>4. Position = req.offset /\ Position' = to
      BY <1>2, <2>1, <2>4 DEF Position
    <3>5. /\ AsAsked(ask, non_incr_addr, bytes) /\ Len(bytes) <= ask.len /\ done <= Len(bytes)
          /\ Len(bytes) = req.offset /\ done = req.offset
      BY <1>1, <3>3, <3>4 DEF SgMoved
    <3>6. InOneGo /\ Ordered(w)
      BY <1>8, <3>1
    <3>7. Transfer!And[req.offset][ask.aperture - 1] = req.offset % ask.aperture
      <4>1. CASE req.passes = 0
        <5>1. req.offset = 0
          BY <1>1, <1>6, <4>1 DEF SgRequest
        <5>2. Transfer!And[0][ask.aperture - 1] = 0
          <6>1. ask.aperture - 1 \in Nat
            BY <1>2
          <6>2. Transfer!And[0] = AndRow(Transfer!And[0 \div 2], 0)
            BY AndIs
          <6>3. QED BY <6>1, <6>2 DEF AndRow
        <5>3. 0 % ask.aperture = 0
          <6> DEFINE z == 0
                     a == ask.aperture
          <6>1. z \in Int /\ z = 0 /\ a \in Nat \ {0} /\ z \in 0 .. a - 1
            BY <1>2
          <6> HIDE DEF z, a
          <6>2. (a * z + z) % a = z
            BY <6>1, DivUnique
          <6>3. a * z + z = 0
            BY <6>1
          <6>4. QED BY <6>1, <6>2, <6>3 DEF a
        <5>4. QED BY <5>1, <5>2, <5>3
      <4>2. CASE ask.aperture \in Transfer!PowersOfTwo
        BY <1>3, <4>2, AndModulo
      <4>3. QED BY <3>1, <4>1, <4>2
    <3>8. Aimed(w)
      BY <3>6, <3>7, WalkAims DEF w
    <3>9. LaidFrom(ask, ds, req.offset) /\ AimedFrom(ask, ds, req.offset)
      BY <3>6, <3>8 DEF Ordered, Aimed, ds
    <3>10. Rightly(ask, FALSE, ds, req.offset)
      BY <1>1, <1>2, <1>3, <1>9, <3>9, AimedRightly
    <3>11. Rightly(ask', non_incr_addr', Loaded', done')
      <4>1. non_incr_addr' = FALSE
        BY <2>1, <3>1 DEF SgInv, SgTypes, Transfer!TypeOK
      <4>2. QED BY <2>1, <2>3, <3>5, <3>10, <4>1
    <3>12. to <= ask.len
      <4>1. /\ to = Transfer!Before(sg)[w.i] + w.into /\ w.i <= Len(sg) + 1
            /\ (w.i <= Len(sg) => w.into < sg[w.i].len) /\ (w.i = Len(sg) + 1 => w.into = 0)
        BY <3>6 DEF Ordered, to, ds
      <4>2. CASE w.i = Len(sg) + 1
        BY <1>2, <1>7, <4>1, <4>2
      <4>3. CASE w.i # Len(sg) + 1
        <5> DEFINE k == w.i
                   c == Transfer!Before(sg)
        <5>1. k \in 1 .. Len(sg) /\ k + 1 \in 1 .. Len(sg) + 1 /\ Len(sg) + 1 \in 1 .. Len(sg) + 1
              /\ k + 1 <= Len(sg) + 1 /\ k \in 1 .. Len(sg) + 1
          BY <1>7, <1>9, <4>1, <4>3
        <5> HIDE DEF k
        <5>2. c[k + 1] <= c[Len(sg) + 1]
          BY <1>2, <5>1, LensNat, BeforeGrows
        <5>3. c[k + 1] = c[k] + sg[k].len /\ c[k] \in Nat /\ c[k + 1] \in Nat
          BY <1>7, <5>1
        <5>4. sg[k].len \in Nat
          <6>1. sg[k] \in SgEntries
            BY <1>2, <5>1
          <6>2. QED BY <6>1, LensNat
        <5>5. to = c[k] + w.into /\ w.into < sg[k].len
          BY <4>1, <5>1 DEF k
        <5>6. c[Len(sg) + 1] = ask.len
          BY <1>7
        <5> HIDE DEF c
        <5> DEFINE c1 == c[k]
                   c2 == c[k + 1]
                   l == sg[k].len
                   t == ask.len
                   x == w.into
        <5>7. c1 \in Nat /\ c2 \in Nat /\ l \in Nat /\ t \in Nat /\ x \in Nat
              /\ c2 <= t /\ c2 = c1 + l /\ to = c1 + x /\ x < l
          BY <1>2, <1>9, <5>2, <5>3, <5>4, <5>5, <5>6
        <5> HIDE DEF c1, c2, l, t, x
        <5>8. to <= t
          BY <5>7
        <5>9. QED BY <5>8 DEF t
      <4>4. QED BY <4>2, <4>3
    <3>13. Transfer!Bytes(Loaded)' = xfer'.len /\ done' + xfer'.len = Position' /\ Position' <= ask'.len
      BY <2>1, <2>3, <3>4, <3>5, <3>12 DEF to
    <3>14. Len(bytes') = done' + Transfer!Before(Loaded)'[fetch'.at - xfer'.first + 1]
      <4>1. desc_idx \in Nat
        BY <1>2, SgConstants DEF Transfer!Slots
      <4>2. fetch'.at - xfer'.first + 1 = 1
        BY <2>1, <2>2, <4>1
      <4>3. done + 0 = done
        BY <1>2
      <4>4. QED BY <2>1, <2>3, <3>5, <4>2, <4>3
    <3>15. xfer'.state = "submitted" /\ stage' = "wait" /\ ask'.aperture # 0
      BY <1>2, <2>1
    <3>16. AsAsked(ask', non_incr_addr', bytes') /\ Len(bytes') <= ask'.len /\ done' <= Len(bytes')
      BY <2>1, <3>5
    <3>17. QED BY <3>11, <3>13, <3>14, <3>15, <3>16 DEF SgMoved
  <2>12. QED BY <2>1, <2>3, <2>6, <2>7, <2>9, <2>10, <2>11 DEF SgInv
<1>13. QED BY <1>11, <1>12

\* What FlattenSeq makes is a sequence.
LEMMA FlattenTyped ==
  ASSUME NEW S, NEW ss \in Seq(Seq(S))
  PROVE  Transfer!FlattenSeq(ss) \in Seq(S)
<1>1. PICK f \in [0 .. Len(ss) -> Seq(S)] : Transfer!FlattenSeq(ss) = f[Len(ss)]
  BY FlattenFacts
<1>2. Len(ss) \in 0 .. Len(ss)
  OBVIOUS
<1>3. QED BY <1>1, <1>2

\* Two sequences of moves are one.
LEMMA PairsTyped == \A s, t \in Seq(Pairs) : s \o t \in Seq(Pairs)
BY ConcatProperties

\* The block the card fetches lies in the transfer.
LEMMA BlockOwn ==
  ASSUME SgFetch, xfer \in SgXfers, fetch \in [at : Nat, more : Nat],
         ring \in [Transfer!Slots -> RingDescs]
  PROVE  /\ xfer.first \in Nat /\ xfer.num \in Nat \ {0} /\ xfer.first + xfer.num <= DescMax
         /\ fetch.at \in Nat /\ fetch.more \in Nat
         /\ fetch.at >= xfer.first /\ fetch.at + fetch.more <= xfer.first + xfer.num - 1
         /\ fetch.at \div Block = (fetch.at + fetch.more) \div Block
         /\ Loaded \in Seq(RingDescs) /\ Len(Loaded) = xfer.num
         /\ \A j \in 1 .. xfer.num : Loaded[j] = ring[xfer.first + j - 1]
<1> DEFINE f == xfer.first
           n == xfer.num
           i == fetch.at
           h == fetch.more
           r == f + n - i
<1>1. f \in Nat /\ n \in Nat \ {0} /\ f + n <= DescMax /\ i \in Nat /\ h \in Nat /\ i \in f .. f + n - 1
      /\ h = Transfer!NextAdj(r, i) /\ DescMax \in Nat
  BY SgConstants DEF SgFetch, SgXfers
<1> DEFINE xd == Loaded
<1>2. xd = [j \in 1 .. n |-> ring[f + j - 1]]
  BY DEF Loaded
<1> HIDE DEF f, n, i, h, xd
<1>3. r \in Nat /\ r # 0
  BY <1>1
<1>4. h <= r - 1 /\ i \div Block = (i + h) \div Block
  <2> HIDE DEF r
  <2>1. QED BY <1>1, <1>3, AdjacentStay
<1>5. i >= f /\ i + h <= f + n - 1
  BY <1>1, <1>4
<1>6. \A j \in 1 .. n : f + j - 1 \in Transfer!Slots
  BY <1>1 DEF Transfer!Slots
<1>7. xd \in [1 .. n -> RingDescs] /\ \A j \in 1 .. n : xd[j] = ring[f + j - 1]
  BY <1>2, <1>6
<1>8. xd \in Seq(RingDescs) /\ Len(xd) = n
  BY <1>1, <1>7, FunIsSeq
<1>9. QED BY <1>1, <1>4, <1>5, <1>7, <1>8 DEF f, n, i, h, xd

\* What the card does next.
LEMMA GoesOn ==
  ASSUME SgFetch, xfer \in SgXfers, fetch \in [at : Nat, more : Nat],
         ring \in [Transfer!Slots -> RingDescs], NEW l, l = fetch.at + fetch.more
  PROVE  /\ ring[l].stop <=> l = xfer.first + xfer.num - 1
         /\ ~ring[l].stop =>
              /\ ring[l].next = l + 1 /\ l + 1 \in xfer.first .. xfer.first + xfer.num - 1
              /\ ring[l].adj = Transfer!NextAdj(xfer.first + xfer.num - (l + 1), l + 1)
              /\ ring[l].adj \in Nat
<1> DEFINE f == xfer.first
           n == xfer.num
           e == ring[l]
<1>1. f \in Nat /\ n \in Nat \ {0} /\ l \in Nat /\ l >= f /\ l <= f + n - 1
  BY BlockOwn
<1>2. Chained(ring, f, n)
  BY DEF SgFetch
<1> HIDE DEF f, n
<1>3. l \in f .. f + n - 1
  BY <1>1
<1>4. e.stop = (l = f + n - 1)
  BY <1>2, <1>3 DEF Chained
<1>5. l # f + n - 1 => e.next = l + 1 /\ e.adj = Transfer!NextAdj(f + n - (l + 1), l + 1)
  BY <1>2, <1>3 DEF Chained
<1> HIDE DEF e
<1>6. l # f + n - 1 => l + 1 \in f .. f + n - 1 /\ f + n - (l + 1) \in Nat /\ l + 1 \in Nat
  BY <1>1
<1>7. l # f + n - 1 => e.adj \in Nat
  BY <1>5, <1>6, AdjacentStay
<1>8. QED BY <1>4, <1>5, <1>6, <1>7 DEF f, n, e

\* ... the card moves a block, ...
LEMMA StepCardMoves ==
  ASSUME SgInv, ~astray, Transfer!CardMoves
  PROVE  SgInv'
<1> DEFINE f == xfer.first
           n == xfer.num
           i == fetch.at
           h == fetch.more
           l == i + h
           d == ring[l]
           ss == [k \in 1 .. h + 1 |-> Transfer!Moves(ring[i + k - 1])]
           cs == bytes \o Transfer!FlattenSeq(ss)
<1>1. /\ stage = "wait" /\ xfer.state = "submitted" /\ bytes' = cs
      /\ d.stop => xfer' = [xfer EXCEPT !.state = "completed"] /\ fetch' = fetch
      /\ ~d.stop => fetch' = [at |-> d.next, more |-> d.adj] /\ xfer' = xfer
      /\ UNCHANGED <<stage, ask, done, rv, sg, mapped, pages, req, ring, desc_idx, non_incr_addr,
                     switched, astray>>
  BY DEF Transfer!CardMoves, Transfer!callVars, Transfer!bufVars, Transfer!engVars
<1>2. /\ SgTypes /\ SgStages /\ SgRequest /\ SgFetch
      /\ ask \in Asks /\ ask.len \in Nat /\ xfer \in SgXfers /\ fetch \in [at : Nat, more : Nat]
      /\ ring \in [Transfer!Slots -> RingDescs] /\ bytes \in Seq(Pairs) /\ done \in Nat
  BY <1>1, AsksTyped DEF SgInv, SgTypes, Transfer!TypeOK
<1>3. /\ f \in Nat /\ n \in Nat \ {0} /\ f + n <= DescMax /\ i \in Nat /\ h \in Nat
      /\ i >= f /\ l <= f + n - 1
      /\ Loaded \in Seq(RingDescs) /\ Len(Loaded) = n
      /\ \A j \in 1 .. n : Loaded[j] = ring[f + j - 1]
  BY <1>2, BlockOwn
<1>4. /\ d.stop <=> l = f + n - 1
      /\ ~d.stop => /\ d.next = l + 1 /\ l + 1 \in f .. f + n - 1
                    /\ d.adj = Transfer!NextAdj(f + n - (l + 1), l + 1) /\ d.adj \in Nat
  BY <1>2, GoesOn
<1> DEFINE m == i - f + 1
<1>5. ss = [k \in 1 .. h + 1 |-> MovesOf(non_incr_addr, Loaded[m + k - 1])]
      /\ m \in 1 .. n /\ m + h <= n
  <2> HIDE DEF f, n, i, h
  <2>1. m \in 1 .. n /\ m + h <= n
    BY <1>3
  <2>2. \A k \in 1 .. h + 1 : m + k - 1 \in 1 .. n /\ f + (m + k - 1) - 1 = i + k - 1
    BY <1>3
  <2>3. ASSUME NEW k \in 1 .. h + 1
        PROVE  Transfer!Moves(ring[i + k - 1]) = MovesOf(non_incr_addr, Loaded[m + k - 1])
    <3>1. Loaded[m + k - 1] = ring[i + k - 1]
      BY <1>3, <2>2
    <3>2. QED BY <3>1 DEF Transfer!Moves, MovesOf
  <2>4. QED BY <2>1, <2>3
<1>6. cs \in Seq(Pairs) /\ ss \in Seq(Seq(Pairs)) /\ Len(ss) = h + 1
      /\ \A k \in 1 .. h + 1 : ss[k] = MovesOf(non_incr_addr, Loaded[m + k - 1])
  <2>1. \A k \in 1 .. h + 1 : MovesOf(non_incr_addr, Loaded[m + k - 1]) \in Seq(Pairs)
    <3> HIDE DEF f, n, i, h
    <3>1. \A k \in 1 .. h + 1 : m + k - 1 \in 1 .. Len(Loaded)
      BY <1>3, <1>5
    <3>2. \A k \in 1 .. h + 1 : Loaded[m + k - 1] \in RingDescs
      BY <1>3, <3>1
    <3>3. QED BY <3>2, MovesTyped
  <2>2. ss \in [1 .. h + 1 -> Seq(Pairs)]
    BY <1>5, <2>1
  <2>3. h + 1 \in Nat
    BY <1>3
  <2>4. \A k \in 1 .. h + 1 : ss[k] = MovesOf(non_incr_addr, Loaded[m + k - 1])
    BY <1>5
  <2> DEFINE k1 == h + 1
  <2>5. k1 \in Nat /\ ss \in [1 .. k1 -> Seq(Pairs)]
    BY <2>2, <2>3
  <2> HIDE DEF ss, k1
  <2>6. ss \in Seq(Seq(Pairs)) /\ Len(ss) = k1
    BY <2>5, FunIsSeq
  <2>7. Transfer!FlattenSeq(ss) \in Seq(Pairs)
    BY <2>6, FlattenTyped
  <2>8. cs \in Seq(Pairs)
    BY <1>2, <2>7, PairsTyped
  <2>9. QED BY <2>4, <2>6, <2>8 DEF k1
<1> HIDE DEF ss
<1>7. xfer' \in SgXfers /\ xfer'.first = f /\ xfer'.num = n /\ xfer'.last = xfer.last /\ xfer'.len = xfer.len
      /\ xfer'.state = IF d.stop THEN "completed" ELSE "submitted"
  <2>1. CASE d.stop
    BY <1>1, <1>2, <2>1 DEF SgXfers
  <2>2. CASE ~d.stop
    BY <1>1, <1>2, <2>2
  <2>3. QED BY <2>1, <2>2
<1>8. fetch' \in [at : Nat, more : Nat]
  <2>1. CASE d.stop
    BY <1>1, <1>2, <2>1
  <2>2. CASE ~d.stop
    <3>1. l + 1 \in Nat
      BY <1>3
    <3>2. QED BY <1>1, <1>4, <2>2, <3>1
  <2>3. QED BY <2>1, <2>2
<1>9. SgTypes'
  BY <1>1, <1>2, <1>6, <1>7, <1>8 DEF SgTypes, Transfer!TypeOK
<1>10. SgStages'
  BY <1>1, <1>2, <1>7 DEF SgStages, Transfer!MoreToDo, Transfer!ScatterList, Transfer!PagesOf, Transfer!BusOf
<1>11. SgRequest'
  BY <1>1, <1>2 DEF SgRequest
<1>12. SgFetch'
  <2>1. CASE d.stop
    BY <1>1, <1>2, <1>7, <2>1 DEF SgFetch
  <2>2. CASE ~d.stop
    <3>1. fetch'.at = l + 1 /\ fetch'.more = d.adj
      BY <1>1, <1>4, <2>2
    <3>2. QED BY <1>1, <1>2, <1>4, <1>7, <2>2, <3>1 DEF SgFetch
  <2>3. QED BY <2>1, <2>2
<1>13. ASSUME Transfer!Handled' PROVE SgMoved'
  <2>1. SgMoved
    BY <1>1, <1>13 DEF SgInv, Transfer!Handled
  <2> DEFINE b == Transfer!Before(Loaded)
  <2>2. /\ AsAsked(ask, non_incr_addr, bytes) /\ done <= Len(bytes)
        /\ done + xfer.len = Position /\ Position <= ask.len
        /\ Transfer!Bytes(Loaded) = xfer.len /\ Rightly(ask, non_incr_addr, Loaded, done)
        /\ Len(bytes) = done + b[m]
        /\ ask.aperture = 0 => req.ep = EpAt(ask, non_incr_addr, Position)
    BY <1>1, <2>1 DEF SgMoved
  <2>3. AsAsked(ask, non_incr_addr, cs) /\ Len(cs) = done + b[m + h + 1]
    <3> HIDE DEF m, h
    <3>1. m \in 1 .. Len(Loaded) /\ h \in Nat /\ m + h <= Len(Loaded)
      BY <1>3, <1>5
    <3>2. Len(bytes) = done + Transfer!Before(Loaded)[m]
      BY <2>2
    <3> HIDE DEF b
    <3> DEFINE xd == Loaded
               ni == non_incr_addr
    <3>3. xd \in Seq(RingDescs) /\ Rightly(ask, ni, xd, done) /\ AsAsked(ask, ni, bytes)
          /\ m \in 1 .. Len(xd) /\ m + h <= Len(xd) /\ Len(bytes) = done + Transfer!Before(xd)[m]
          /\ \A k \in 1 .. h + 1 : ss[k] = MovesOf(ni, xd[m + k - 1])
      BY <1>3, <1>6, <2>2, <3>1, <3>2
    <3>4. done \in Nat /\ bytes \in Seq(Pairs) /\ h \in Nat /\ ss \in Seq(Seq(Pairs)) /\ Len(ss) = h + 1
      BY <1>2, <1>6, <3>1
    <3> HIDE DEF xd, ni
    <3>5. Fetching(ask, ni, xd, done, m, h, bytes, ss)
      BY <3>3, <3>4 DEF Fetching
    <3>6. cs = bytes \o Transfer!FlattenSeq(ss)
      OBVIOUS
    <3> HIDE DEF cs
    <3>7. AsAsked(ask, ni, cs)
      BY <3>5, <3>6, BlockMore, Zenon
    <3>8. Len(cs) = done + Transfer!Before(xd)[m + h + 1]
      BY <3>5, <3>6, BlockMore
    <3>9. QED BY <3>7, <3>8 DEF xd, ni, b
  <2>4. Loaded' = Loaded
    BY <1>1, <1>7 DEF Loaded
  <2>5. b \in [1 .. n + 1 -> Nat] /\ b[n + 1] = xfer.len
    BY <1>3, <2>2, RingLens, BeforeFacts DEF Transfer!Bytes
  <2>6. m + h + 1 \in 1 .. n + 1 /\ n + 1 \in 1 .. n + 1 /\ m + h + 1 <= n + 1 /\ m \in 1 .. n + 1 /\ m <= m + h + 1
    <3> HIDE DEF f, n, i, h, m
    <3>1. QED BY <1>3, <1>5
  <2>7. b[m + h + 1] <= b[n + 1]
    <3> HIDE DEF m, h, n
    <3>1. QED BY <1>3, <2>6, RingLens, BeforeGrows
  <2>8. Len(cs) <= ask.len /\ done <= Len(cs)
    <3> DEFINE x == b[m + h + 1]
               y == xfer.len
    <3>1. x \in Nat /\ y \in Nat /\ x <= y /\ done + y <= ask.len /\ Len(cs) = done + x
      BY <2>2, <2>3, <2>5, <2>6, <2>7
    <3> HIDE DEF x, y, cs
    <3>2. QED BY <1>2, <3>1
  <2>9. CASE d.stop
    <3>1. m + h + 1 = n + 1
      <4> HIDE DEF f, n, h, d
      <4>1. i + h = f + n - 1 /\ i \in Nat /\ h \in Nat /\ f \in Nat /\ n \in Nat
        BY <1>3, <1>4, <2>9
      <4> HIDE DEF i
      <4>2. QED BY <4>1
    <3>2. Len(cs) = done + xfer.len
      BY <2>3, <2>5, <3>1
    <3>3. xfer'.state = "completed" /\ stage' = "wait"
      BY <1>1, <1>7, <2>9
    <3> HIDE DEF cs, b
    <3>4. Transfer!Bytes(Loaded)' = xfer'.len /\ Position' = Position
      BY <1>1, <1>7, <2>2, <2>4 DEF Transfer!Bytes, Transfer!Before, Position
    <3>5. AsAsked(ask', non_incr_addr', bytes') /\ Len(bytes') <= ask'.len /\ done' <= Len(bytes')
      BY <1>1, <2>3, <2>8
    <3>6. done' + xfer'.len = Position' /\ Position' <= ask'.len /\ Rightly(ask', non_incr_addr', Loaded', done')
      BY <1>1, <1>7, <2>2, <2>4, <3>4
    <3>7. Len(bytes') = done' + xfer'.len
      BY <1>1, <1>7, <3>2
    <3>8. ask'.aperture = 0 => req'.ep = EpAt(ask', non_incr_addr', Position')
      BY <1>1, <2>2, <3>4
    <3>9. QED BY <3>3, <3>4, <3>5, <3>6, <3>7, <3>8 DEF SgMoved
  <2>10. CASE ~d.stop
    <3>1. fetch'.at - xfer'.first + 1 = m + h + 1
      <4>1. fetch'.at = l + 1
        BY <1>1, <1>4, <2>10
      <4> HIDE DEF f, h
      <4>2. fetch'.at = i + h + 1 /\ i \in Nat /\ h \in Nat /\ f \in Nat /\ xfer'.first = f
        BY <1>3, <1>7, <4>1
      <4> HIDE DEF i
      <4>3. QED BY <4>2
    <3>2. xfer'.state = "submitted" /\ stage' = "wait"
      BY <1>1, <1>7, <2>10
    <3>3. Transfer!Before(Loaded)' = b
      BY <2>4 DEF Transfer!Before
    <3>4. Transfer!Bytes(Loaded)' = xfer'.len /\ Position' = Position
      BY <1>1, <1>7, <2>2, <2>4 DEF Transfer!Bytes, Transfer!Before, Position
    <3> HIDE DEF cs, b
    <3>5. AsAsked(ask', non_incr_addr', bytes') /\ Len(bytes') <= ask'.len /\ done' <= Len(bytes')
      BY <1>1, <2>3, <2>8
    <3>6. done' + xfer'.len = Position' /\ Position' <= ask'.len /\ Rightly(ask', non_incr_addr', Loaded', done')
      BY <1>1, <1>7, <2>2, <2>4, <3>4
    <3>7. Len(bytes') = done' + Transfer!Before(Loaded)'[fetch'.at - xfer'.first + 1]
      BY <1>1, <2>3, <3>1, <3>3
    <3>8. ask'.aperture = 0 => req'.ep = EpAt(ask', non_incr_addr', Position')
      BY <1>1, <2>2, <3>4
    <3>9. QED BY <3>2, <3>4, <3>5, <3>6, <3>7, <3>8 DEF SgMoved
  <2>11. QED BY <2>9, <2>10
<1>14. Transfer!StaysInRing'
  BY <1>1 DEF Transfer!StaysInRing
<1>15. QED BY <1>1, <1>9, <1>10, <1>11, <1>12, <1>13, <1>14 DEF SgInv

\* ... or fails, ...
LEMMA StepCardFails ==
  ASSUME SgInv, ~astray, Transfer!CardFails
  PROVE  SgInv'
<1>1. /\ stage = "wait" /\ xfer' = [xfer EXCEPT !.state = "failed"]
      /\ UNCHANGED <<stage, ask, done, rv, sg, mapped, pages, req, ring, desc_idx, non_incr_addr,
                     switched, fetch, bytes, astray>>
  BY DEF Transfer!CardFails, Transfer!callVars, Transfer!bufVars, Transfer!engVars, Transfer!cardVars
<1>2. SgTypes /\ SgStages /\ SgRequest /\ SgFetch /\ xfer \in SgXfers
  BY <1>1 DEF SgInv, SgTypes
<1>3. xfer' \in SgXfers /\ xfer'.first = xfer.first /\ xfer'.num = xfer.num /\ xfer'.last = xfer.last
      /\ xfer'.len = xfer.len /\ xfer'.state = "failed"
  BY <1>1, <1>2 DEF SgXfers
<1>4. SgTypes'
  BY <1>1, <1>2, <1>3 DEF SgTypes, Transfer!TypeOK
<1>5. SgStages'
  BY <1>1, <1>2, <1>3 DEF SgStages, Transfer!MoreToDo, Transfer!ScatterList, Transfer!PagesOf, Transfer!BusOf
<1>6. SgRequest'
  BY <1>1, <1>2 DEF SgRequest
<1>7. SgFetch'
  BY <1>1, <1>2, <1>3 DEF SgFetch
<1>8. ASSUME Transfer!Handled' PROVE SgMoved'
  <2>1. SgMoved
    BY <1>1, <1>8 DEF SgInv, Transfer!Handled
  <2>2. Loaded' = Loaded
    BY <1>1, <1>3 DEF Loaded
  <2>3. Transfer!Bytes(Loaded)' = Transfer!Bytes(Loaded) /\ Position' = Position
    BY <1>1, <2>2 DEF Transfer!Bytes, Transfer!Before, Position
  <2>4. QED BY <1>1, <1>3, <2>1, <2>2, <2>3 DEF SgMoved
<1>9. Transfer!StaysInRing'
  BY <1>1 DEF Transfer!StaysInRing
<1>10. QED BY <1>1, <1>4, <1>5, <1>6, <1>7, <1>8, <1>9 DEF SgInv

\* With nothing left to do, all that was asked for has been handed to the card.
LEMMA AllHanded ==
  ASSUME ask \in Asks, req \in SgReqs, SgRequest, ~Transfer!MoreToDo, Position <= ask.len
  PROVE  Position = ask.len
<1>1. ask.len \in Nat /\ ask.aperture \in Nat
  BY AsksTyped
<1>2. CASE ask.aperture = 0
  <2>1. Covers(ask, req.sdesc) /\ req.sw_desc_idx <= Len(req.sdesc)
    BY <1>2 DEF SgRequest
  <2>2. ~(req.sw_desc_idx < Len(req.sdesc))
    BY <1>2 DEF Transfer!MoreToDo
  <2>3. req.sw_desc_idx = Len(req.sdesc)
    BY <2>1, <2>2 DEF SgReqs
  <2>4. Position = Transfer!Before(req.sdesc)[Len(req.sdesc) + 1]
    BY <1>2, <2>3 DEF Position
  <2>5. QED BY <2>1, <2>4 DEF Covers, Transfer!Bytes
<1>3. CASE ask.aperture # 0
  <2>1. Position = req.offset /\ ~(req.offset < ask.len) /\ req.offset \in Nat
    BY <1>3 DEF Position, Transfer!MoreToDo, SgReqs
  <2>2. QED BY <1>1, <2>1
<1>4. QED BY <1>2, <1>3

\* ... the caller wakes, ...
LEMMA StepReap ==
  ASSUME SgInv, ~astray, Transfer!Reap
  PROVE  SgInv'
<1>1. /\ stage = "wait"
      /\ ring' = [i \in Transfer!Slots |->
                    IF i \in xfer.first .. xfer.first + xfer.num - 1 THEN Transfer!Cleared ELSE ring[i]]
      /\ mapped' = (mapped /\ ~xfer.last)
      /\ UNCHANGED <<ask, sg, pages, req, xfer, desc_idx, non_incr_addr, switched, fetch, bytes, astray>>
  BY DEF Transfer!Reap, Transfer!Destroy, Transfer!cardVars
<1>2. \/ /\ xfer.state = "completed" /\ done' = done + xfer.len /\ rv' = rv
         /\ stage' = IF Transfer!MoreToDo THEN "build" ELSE "unpin"
      \/ rv' = "error" /\ stage' = "unpin" /\ done' = done
  BY DEF Transfer!Reap
<1>3. /\ SgTypes /\ SgStages /\ SgRequest /\ mapped
      /\ ask \in Asks /\ ask.len \in Nat /\ req \in SgReqs /\ xfer.len \in Nat /\ done \in Nat
      /\ ring \in [Transfer!Slots -> RingDescs] /\ xfer.last \in BOOLEAN
  <2>1. SgTypes /\ SgStages /\ SgRequest /\ ask \in Asks
    BY <1>1 DEF SgInv, SgTypes
  <2>2. QED BY <1>1, <2>1, AsksTyped DEF SgTypes, SgStages, SgXfers, Transfer!TypeOK
<1>4. stage' \in {"build", "unpin"} /\ (stage' = "build" => Transfer!MoreToDo)
  BY <1>2
<1>5. SgTypes'
  <2>1. ring' \in [Transfer!Slots -> RingDescs]
    <3>1. Transfer!Cleared \in RingDescs
      BY DEF Transfer!Cleared, RingDescs
    <3>2. QED BY <1>1, <1>3, <3>1
  <2>2. done' \in Nat /\ rv' \in {"none", "error"} /\ mapped' \in BOOLEAN
    <3>1. done' \in Nat
      BY <1>2, <1>3
    <3>2. rv' \in {"none", "error"}
      BY <1>2, <1>3 DEF SgTypes, Transfer!TypeOK
    <3>3. mapped' \in BOOLEAN
      BY <1>1
    <3>4. QED BY <3>1, <3>2, <3>3
  <2>3. Transfer!TypeOK'
    <3>1. DOMAIN ring' = Transfer!Slots
      BY <1>1
    <3>2. Transfer!Slots' = Transfer!Slots
      BY DEF Transfer!Slots
    <3>3. QED BY <1>1, <1>3, <1>4, <2>2, <3>1, <3>2 DEF SgTypes, Transfer!TypeOK
  <2>4. QED BY <1>1, <1>3, <2>1, <2>3 DEF SgTypes
<1>6. SgStages'
  <2>1. Transfer!ScatterList(ask)' = Transfer!ScatterList(ask) /\ Transfer!PagesOf(ask)' = Transfer!PagesOf(ask)
    BY <1>1 DEF Transfer!ScatterList, Transfer!PagesOf, Transfer!BusOf
  <2>2. Transfer!MoreToDo' = Transfer!MoreToDo
    BY <1>1 DEF Transfer!MoreToDo
  <2>3. stage' = "build" => mapped'
    BY <1>1, <1>3, <1>4 DEF SgStages
  <2>4. QED BY <1>1, <1>3, <1>4, <2>1, <2>2, <2>3 DEF SgStages
<1>7. SgRequest'
  BY <1>1, <1>3 DEF SgRequest
<1>8. ASSUME Transfer!Handled' PROVE SgMoved'
  <2>1. SgMoved
    BY <1>1, <1>8 DEF SgInv, Transfer!Handled
  <2>2. /\ AsAsked(ask, non_incr_addr, bytes) /\ Len(bytes) <= ask.len /\ done <= Len(bytes)
        /\ ask.aperture = 0 => req.ep = EpAt(ask, non_incr_addr, Position)
        /\ done + xfer.len = Position /\ Position <= ask.len
        /\ xfer.state = "completed" => Len(bytes) = done + xfer.len
    BY <1>1, <2>1 DEF SgMoved
  <2>3. Position' = Position
    BY <1>1 DEF Position
  <2>4. CASE xfer.state = "completed" /\ done' = done + xfer.len /\ rv' = rv
             /\ stage' = IF Transfer!MoreToDo THEN "build" ELSE "unpin"
    <3>1. Len(bytes') = Position' /\ done' = Position' /\ done' <= Len(bytes') /\ Len(bytes') <= ask'.len
      <4>1. Len(bytes') = Position /\ done' = Position
        BY <1>1, <2>2, <2>4
      <4>2. Position \in Nat
        BY <1>3, <2>2
      <4>3. QED BY <1>1, <2>2, <2>3, <4>1, <4>2
    <3>2. stage' = "unpin" => done' = ask'.len
      <4>1. ~Transfer!MoreToDo => Position = ask.len
        BY <1>3, <2>2, AllHanded
      <4>2. QED BY <1>1, <2>3, <2>4, <3>1, <4>1
    <3>3. AsAsked(ask', non_incr_addr', bytes')
      BY <1>1, <2>2
    <3>4. ask'.aperture = 0 => req'.ep = EpAt(ask', non_incr_addr', Position')
      BY <1>1, <2>2, <2>3
    <3>5. QED BY <1>4, <3>1, <3>2, <3>3, <3>4 DEF SgMoved
  <2>5. CASE rv' = "error" /\ stage' = "unpin" /\ done' = done
    BY <1>1, <2>2, <2>5 DEF SgMoved
  <2>6. QED BY <1>2, <2>4, <2>5
<1>9. Transfer!StaysInRing'
  BY <1>1 DEF Transfer!StaysInRing
<1>10. QED BY <1>4, <1>5, <1>6, <1>7, <1>8, <1>9 DEF SgInv

\* ... puts its pages, ...
LEMMA StepUnpin ==
  ASSUME SgInv, ~astray, Transfer!Unpin
  PROVE  SgInv'
<1>1. /\ stage = "unpin" /\ stage' = "over" /\ mapped' = FALSE /\ pages' = 0
      /\ UNCHANGED <<ask, done, rv, sg, req, xfer, ring, desc_idx, non_incr_addr, switched, fetch, bytes,
                     astray>>
  BY DEF Transfer!Unpin, Transfer!engVars, Transfer!cardVars
<1>2. SgTypes'
  BY <1>1 DEF SgInv, SgTypes, Transfer!TypeOK
<1>3. SgStages'
  BY <1>1 DEF SgStages
<1>4. ASSUME Transfer!Handled' PROVE SgMoved'
  <2>1. SgMoved
    BY <1>1, <1>4 DEF SgInv, Transfer!Handled
  <2>2. QED BY <1>1, <2>1 DEF SgMoved
<1>5. Transfer!StaysInRing'
  BY <1>1 DEF Transfer!StaysInRing
<1>6. QED BY <1>1, <1>2, <1>3, <1>4, <1>5 DEF SgInv

\* ... returns, ...
LEMMA StepReturn ==
  ASSUME SgInv, ~astray, Transfer!Return
  PROVE  SgInv'
<1>1. /\ stage = "over" /\ stage' = "idle" /\ ask' = Transfer!Nothing /\ done' = 0 /\ rv' = "none"
      /\ sg' = <<>> /\ req' = Transfer!NoReq /\ xfer' = Transfer!NoXfer /\ fetch' = Transfer!NoFetch
      /\ bytes' = <<>> /\ switched' = FALSE
      /\ UNCHANGED <<mapped, pages, ring, desc_idx, non_incr_addr, astray>>
  BY DEF Transfer!Return
<1>2. SgTypes'
  <2>1. /\ Transfer!NoReq \in SgReqs /\ Transfer!NoXfer \in SgXfers
        /\ Transfer!NoFetch \in [at : Nat, more : Nat] /\ <<>> \in Seq(SgEntries) /\ <<>> \in Seq(Pairs)
    BY DEF Transfer!NoReq, Transfer!NoXfer, Transfer!NoFetch, SgReqs, SgXfers
  <2>2. Transfer!TypeOK'
    <3>1. Transfer!Nothing \in [buf : Nat, len : Nat, ep : Nat, aperture : Nat, merged : BOOLEAN]
      BY DEF Transfer!Nothing
    <3>2. QED BY <1>1, <3>1 DEF SgInv, SgTypes, Transfer!TypeOK
  <2>3. QED BY <1>1, <2>1, <2>2 DEF SgInv, SgTypes
<1>3. SgStages'
  BY <1>1 DEF SgInv, SgStages
<1>4. SgMoved'
  <2>1. AsAsked(ask', non_incr_addr', bytes')
    BY <1>1, NothingMoved
  <2>2. Len(bytes') = 0 /\ done' = 0 /\ ask'.len = 0
    BY <1>1 DEF Transfer!Nothing
  <2>3. QED BY <1>1, <2>1, <2>2 DEF SgMoved
<1>5. Transfer!StaysInRing'
  BY <1>1 DEF Transfer!StaysInRing
<1>6. QED BY <1>1, <1>2, <1>3, <1>4, <1>5 DEF SgInv

\* ... and another thread changes the addressing mode.
LEMMA StepAddrMode ==
  ASSUME SgInv, ~astray, Transfer!AddrMode
  PROVE  SgInv'
<1>1. /\ non_incr_addr' = ~non_incr_addr /\ switched' = (stage # "idle")
      /\ UNCHANGED <<stage, ask, done, rv, sg, mapped, pages, req, xfer, ring, desc_idx, fetch, bytes, astray>>
  BY DEF Transfer!AddrMode, Transfer!callVars, Transfer!bufVars, Transfer!cardVars
<1>2. SgTypes'
  BY <1>1 DEF SgInv, SgTypes, Transfer!TypeOK
<1>3. SgStages'
  BY <1>1 DEF SgInv, SgStages, Transfer!MoreToDo, Transfer!ScatterList, Transfer!PagesOf, Transfer!BusOf
<1>4. stage \in {"build", "wait"} => SgRequest'
  BY <1>1 DEF SgInv, SgRequest
<1>5. stage = "wait" => SgFetch'
  BY <1>1 DEF SgInv, SgFetch
<1>6. ASSUME Transfer!Handled' PROVE SgMoved'
  <2>1. stage = "idle"
    BY <1>1, <1>6 DEF Transfer!Handled
  <2>2. bytes' = <<>> /\ done' = 0 /\ Len(<<>>) = 0
    BY <1>1, <2>1 DEF SgInv, SgStages
  <2>3. AsAsked(ask', non_incr_addr', bytes')
    BY <2>2, NothingMoved
  <2>4. ask'.len \in Nat
    BY <1>1 DEF SgInv, SgTypes, Transfer!TypeOK
  <2>5. QED BY <1>1, <2>1, <2>2, <2>3, <2>4 DEF SgMoved
<1>7. Transfer!StaysInRing'
  BY <1>1 DEF Transfer!StaysInRing
<1>8. QED BY <1>1, <1>2, <1>3, <1>4, <1>5, <1>6, <1>7 DEF SgInv

\* Nothing is done.
LEMMA SgStands ==
  ASSUME SgInv, UNCHANGED sgVars
  PROVE  SgInv'
<1>1. UNCHANGED <<stage, ask, done, rv, sg, mapped, pages, req, xfer, ring, desc_idx, non_incr_addr, switched,
                  fetch, bytes, astray>>
  BY DEF sgVars
<1>2. SgTypes'
  BY <1>1 DEF SgInv, SgTypes, Transfer!TypeOK
<1>3. SgStages'
  BY <1>1 DEF SgInv, SgStages, Transfer!MoreToDo, Transfer!ScatterList, Transfer!PagesOf, Transfer!BusOf
<1>4. stage \in {"build", "wait"} => SgRequest'
  BY <1>1 DEF SgInv, SgRequest
<1>5. stage = "wait" => SgFetch'
  BY <1>1 DEF SgInv, SgFetch
<1>6. ASSUME Transfer!Handled' PROVE SgMoved'
  <2>1. SgMoved
    BY <1>1, <1>6 DEF SgInv, Transfer!Handled
  <2>2. Position' = Position /\ Loaded' = Loaded
    BY <1>1 DEF Position, Loaded
  <2>3. Transfer!Bytes(Loaded)' = Transfer!Bytes(Loaded) /\ Transfer!Before(Loaded)' = Transfer!Before(Loaded)
    BY <2>2 DEF Transfer!Bytes, Transfer!Before
  <2>4. QED BY <1>1, <2>1, <2>2, <2>3 DEF SgMoved
<1>7. Transfer!StaysInRing'
  BY <1>1 DEF SgInv, Transfer!StaysInRing
<1>8. QED BY <1>1, <1>2, <1>3, <1>4, <1>5, <1>6, <1>7 DEF SgInv

\* No call is made at first.
LEMMA SgInitial ==
  ASSUME Transfer!Init
  PROVE  SgInv
<1>1. /\ stage = "idle" /\ ask = Transfer!Nothing /\ done = 0 /\ rv = "none"
      /\ sg = <<>> /\ mapped = FALSE /\ pages = 0 /\ req = Transfer!NoReq /\ xfer = Transfer!NoXfer
      /\ ring = [i \in Transfer!Slots |-> Transfer!Cleared] /\ desc_idx \in Transfer!Slots
      /\ non_incr_addr = FALSE /\ switched = FALSE /\ fetch = Transfer!NoFetch /\ bytes = <<>>
      /\ astray = FALSE
  BY DEF Transfer!Init
<1>2. SgTypes
  <2>1. /\ Transfer!NoReq \in SgReqs /\ Transfer!NoXfer \in SgXfers
        /\ Transfer!NoFetch \in [at : Nat, more : Nat] /\ <<>> \in Seq(SgEntries) /\ <<>> \in Seq(Pairs)
        /\ Transfer!Cleared \in RingDescs
    BY DEF Transfer!NoReq, Transfer!NoXfer, Transfer!NoFetch, Transfer!Cleared, SgReqs, SgXfers, RingDescs
  <2>2. Transfer!TypeOK
    <3>1. Transfer!Nothing \in [buf : Nat, len : Nat, ep : Nat, aperture : Nat, merged : BOOLEAN]
      BY DEF Transfer!Nothing
    <3>2. QED BY <1>1, <3>1 DEF Transfer!TypeOK
  <2>3. QED BY <1>1, <2>1, <2>2 DEF SgTypes
<1>3. SgStages
  BY <1>1 DEF SgStages
<1>4. SgMoved
  <2>1. AsAsked(ask, non_incr_addr, bytes)
    BY <1>1, NothingMoved
  <2>2. Len(bytes) = 0 /\ done = 0 /\ ask.len = 0
    BY <1>1 DEF Transfer!Nothing
  <2>3. QED BY <1>1, <2>1, <2>2 DEF SgMoved
<1>5. Transfer!StaysInRing
  BY <1>1 DEF Transfer!StaysInRing
<1>6. QED BY <1>1, <1>2, <1>3, <1>4, <1>5 DEF SgInv

\* Every step keeps the invariant.
LEMMA SgStep ==
  ASSUME SgInv, Transfer!Next
  PROVE  SgInv'
<1>1. ~astray
  BY DEF Transfer!Next
<1>2. CASE Transfer!Begin
  BY <1>1, <1>2, StepBegin
<1>3. CASE Transfer!MapFails
  BY <1>1, <1>3, StepMapFails
<1>4. CASE Transfer!MapPages
  BY <1>1, <1>4, StepMapPages
<1>5. CASE Transfer!Submit
  BY <1>1, <1>5, StepSubmit
<1>6. CASE Transfer!SubmitFails
  BY <1>1, <1>6, StepSubmitFails
<1>7. CASE Transfer!Build
  BY <1>1, <1>7, StepBuild
<1>8. CASE Transfer!BuildAperture
  BY <1>1, <1>8, StepAperture
<1>9. CASE Transfer!Reap
  BY <1>1, <1>9, StepReap
<1>10. CASE Transfer!Unpin
  BY <1>1, <1>10, StepUnpin
<1>11. CASE Transfer!Return
  BY <1>1, <1>11, StepReturn
<1>12. CASE Transfer!CardMoves
  BY <1>1, <1>12, StepCardMoves
<1>13. CASE Transfer!CardFails
  BY <1>1, <1>13, StepCardFails
<1>14. CASE Transfer!AddrMode
  BY <1>1, <1>14, StepAddrMode
<1>15. QED
  BY <1>2, <1>3, <1>4, <1>5, <1>6, <1>7, <1>8, <1>9, <1>10, <1>11, <1>12, <1>13, <1>14
  DEF Transfer!Next, Transfer!Caller

\* The invariant says what a call promises.
LEMMA CallsDone ==
  ASSUME SgInv
  PROVE  CallMoves
<1>1. Transfer!TypeOK
  BY DEF SgInv, SgTypes
<1>2. Transfer!MovedAsAsked
  <2>1. SUFFICES ASSUME Transfer!Handled
                 PROVE  /\ Transfer!IsPrefix(bytes, Transfer!Asked)
                        /\ done <= Len(bytes)
                        /\ stage = "over" /\ rv = "none" => done = ask.len
    BY DEF Transfer!MovedAsAsked
  <2>2. SgMoved
    BY <2>1 DEF SgInv
  <2>3. /\ AsAsked(ask, non_incr_addr, bytes) /\ Len(bytes) <= ask.len /\ done <= Len(bytes)
        /\ stage = "over" /\ rv = "none" => done = ask.len
    BY <2>2 DEF SgMoved
  <2> DEFINE t == Transfer!Asked
             u == ask.len
             D(k) == <<Transfer!BusOf(ask, k - 1), Transfer!EpOf(k - 1)>>
  <2>4. u \in Nat /\ bytes \in Seq(Pairs)
    BY <1>1 DEF SgInv, SgTypes, Transfer!TypeOK
  <2>5. t = [k \in 1 .. u |-> D(k)]
    BY DEF Transfer!Asked
  <2>6. \A k \in 1 .. Len(bytes) : bytes[k] = D(k)
    <3>1. \A k : EpAt(ask, non_incr_addr, k) = Transfer!EpOf(k)
      BY DEF EpAt, Transfer!EpOf
    <3>2. QED BY <2>3, <3>1 DEF AsAsked
  <2> HIDE DEF D, t
  <2>7. t \in Seq({D(k) : k \in 1 .. u}) /\ Len(t) = u /\ \A k \in 1 .. u : t[k] = D(k)
    <3>1. t \in [1 .. u -> {D(k) : k \in 1 .. u}]
      BY <2>5
    <3> HIDE DEF u
    <3>2. t \in Seq({D(k) : k \in 1 .. u}) /\ Len(t) = u
      BY <2>4, <3>1, FunIsSeq
    <3>3. QED BY <2>5, <3>2
  <2> HIDE DEF u
  <2>8. SubSeq(bytes, 1, Len(bytes)) = SubSeq(t, 1, Len(bytes))
    <3> DEFINE n == Len(bytes)
    <3>1. n \in Nat /\ n <= u
      BY <2>3, <2>4 DEF u
    <3>2. \A k \in 1 .. n : k \in 1 .. u /\ bytes[k] = t[k]
      BY <2>4, <2>6, <2>7, <3>1
    <3>3. SubSeq(bytes, 1, n) = [k \in 1 .. n |-> bytes[k]]
      BY <2>4
    <3>4. SubSeq(t, 1, n) = [k \in 1 .. n |-> t[k]]
      BY <2>7, <3>1
    <3> HIDE DEF n
    <3>5. [k \in 1 .. n |-> bytes[k]] = [k \in 1 .. n |-> t[k]]
      BY <3>2
    <3>6. QED BY <3>3, <3>4, <3>5 DEF n
  <2>9. Transfer!IsPrefix(bytes, t)
    BY <2>3, <2>7, <2>8 DEF Transfer!IsPrefix, u
  <2>10. QED BY <2>3, <2>9 DEF t
<1>3. Transfer!FetchesOwn
  <2>1. SUFFICES ASSUME stage = "wait"
                 PROVE  /\ Transfer!Fetched \subseteq xfer.first .. xfer.first + xfer.num - 1
                        /\ fetch.at \div Block = (fetch.at + fetch.more) \div Block
    BY DEF Transfer!FetchesOwn
  <2> DEFINE f == xfer.first
             n == xfer.num
             i == fetch.at
             h == fetch.more
  <2>2. /\ f \in Nat /\ n \in Nat \ {0} /\ i \in Nat /\ h \in Nat
        /\ i >= f /\ i + h <= f + n - 1
        /\ i \div Block = (i + h) \div Block
    BY <2>1, BlockOwn DEF SgInv, SgTypes
  <2> HIDE DEF f, n, i, h
  <2>3. i .. i + h \subseteq f .. f + n - 1
    BY <2>2
  <2>4. QED BY <2>2, <2>3 DEF Transfer!Fetched, f, n, i, h
<1>4. Transfer!BufferHeld
  BY DEF SgInv, SgStages, Transfer!BufferHeld
<1>5. Transfer!StaysInRing
  BY DEF SgInv
<1>6. QED BY <1>1, <1>2, <1>3, <1>4, <1>5 DEF CallMoves, Transfer!CallMoves

\* A blocking read, write or aperture call moves the bytes it was asked to, each once, in
\* order and to its place on the card, from pages that are held and as blocks of its own
\* descriptors, and returns what was moved, for every size of pages, descriptors, blocks,
\* windows and the ring (xdma_xfer_submit, xdma_xfer_aperture).
THEOREM CallsMove == SpecDevice => []CallMoves
<1>1. InitDevice => SgInv
  BY SgInitial DEF InitDevice
<1>2. SgInv /\ [NextUse]_<<use, vars, sgVars, perfVars>> => SgInv'
  <2>1. SUFFICES ASSUME SgInv, [NextUse]_<<use, vars, sgVars, perfVars>> PROVE SgInv'
    OBVIOUS
  <2>2. CASE Transfer!Next
    BY <2>1, <2>2, SgStep
  <2>3. CASE UNCHANGED sgVars
    BY <2>1, <2>3, SgStands
  <2>4. QED BY <2>1, <2>2, <2>3 DEF NextUse
<1>3. SgInv => CallMoves
  BY CallsDone
<1>4. QED BY <1>1, <1>2, <1>3, PTL DEF SpecDevice
=============================================================================
