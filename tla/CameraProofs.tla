----------------------------- MODULE CameraProofs -----------------------------
(***************************************************************************)
(* The camera library keeps its buffers, returns frames in order until the *)
(* reader is overtaken, and intact for one round of the buffers, for any   *)
(* number of buffers, initialisations, poll threads and frames; and what   *)
(* it looks at is a frame of the format of its node, for any formats,      *)
(* sizes and number of buffers, whatever another program does with the     *)
(* node meanwhile.                                                         *)
(***************************************************************************)
EXTENDS MCCamera, FiniteSetTheorems, SequenceTheorems, TLAPS

-----------------------------------------------------------------------------
\* The FIFO and the threads (CameraFifo).

\* Lists of buffers.
Listed(q, b) == \E i \in 1 .. Len(q) : q[i] = b
Once(q) == \A i, j \in 1 .. Len(q) : q[i] = q[j] => i = j

\* Every buffer of a camera that streams is in one place.
Places ==
    /\ Once(vq) /\ Once(doneq)
    /\ \A b \in Bufs : ~(Listed(vq, b) /\ Listed(doneq, b))
    /\ \A t \in Held : ~Listed(vq, tbuf[t].buf) /\ ~Listed(doneq, tbuf[t].buf)
    /\ \A s, t \in Held : tbuf[s].buf = tbuf[t].buf => s = t
    /\ \A b \in Bufs : Listed(vq, b) \/ Listed(doneq, b) \/ \E t \in Held : tbuf[t].buf = b
    /\ Len(vq) + Len(doneq) + Cardinality(Held) = Depth

\* The frame being filled is the last one started; the number of the next frame
\* that is dequeued is the number of frames that were.
InFill == IF filling THEN 1 ELSE 0
Oldest == frames - InFill - Len(doneq)

\* Between two frames in one buffer all buffers have their turn, but for those that
\* other threads hold.
Round == Depth - (Cardinality(users) - 1)

\* Filled buffers hold consecutive frames; those being given back hold earlier ones;
\* and a buffer that waits gets its next frame a round after the one it holds.
Numbered ==
    /\ filling => vq # <<>> /\ content[Head(vq)] = frames - 1
    /\ Oldest >= 0
    /\ \A i \in 1 .. Len(doneq) : content[doneq[i]] = Oldest + i - 1
    /\ \A t \in Held : tbuf[t].no < Oldest
    /\ \A i \in InFill + 1 .. Len(vq) :
            content[vq[i]] >= 0 => frames - InFill + i - 1 - content[vq[i]] >= Round

\* Threads that hold a buffer have captured from this camera, and it is unchanged.
Holding ==
    /\ \A b \in Bufs : content[b] < frames
    /\ \A t \in Threads : tgen[t] <= gen
    /\ \A t \in Held :
          t \in users /\ tbuf[t].buf \in Bufs /\ content[tbuf[t].buf] = tbuf[t].no /\ tbuf[t].no >= 0

\* A frame the application has, or may come to have.
Promised(f) ==
    /\ f.buf \in Bufs /\ f.no >= 0 /\ f.no <= content[f.buf]
    /\ content[f.buf] # f.no => content[f.buf] - f.no >= Round

Promises ==
    /\ \A s \in Slots : s < writeIndex => Promised(fifo[s])
    /\ apc = "copy" => Promised(got)

\* What one thread captures is in order.
Capturing == \E t \in Held : tpc[t] = "slot"
InOrder ==
    Alone =>
        /\ \A t \in Held : tpc[t] = "slot" => tbuf[t].no = writeIndex
        /\ cam = "streaming" /\ Capturing => Oldest = writeIndex + 1
        /\ cam = "streaming" /\ ~Capturing => Oldest = writeIndex
        /\ \A j \in Nat : writeIndex - Depth <= j /\ j < writeIndex => fifo[j % Depth].no = j
        /\ ~overrun /\ apc = "copy" => got.no = readIndex - 1

FifoInv ==
    /\ TypeOK /\ Holding /\ Promises /\ InOrder
    /\ cam = "streaming" => Places /\ Numbered
    /\ cam # "streaming" => doneq = <<>> /\ ~filling
    /\ apc \in {"close", "delete"} => cam # "streaming"

\* Until a camera is started nothing was done with it, whatever threads are left from
\* the ones before; until its thread is created there is none of that number.
Beginning ==
    /\ apc \in {"open", "start"} =>
          /\ cam # "streaming" /\ Held = {}
          /\ frames = 0 /\ writeIndex = 0 /\ content = [b \in Bufs |-> -1]
    /\ \A t \in Threads :
          t > gen \/ (t = gen /\ apc \in {"open", "start", "thread"}) => tpc[t] = "none"

USE DEF appVars, camVars, fifoVars, thrVars, drvVars, histVars, vars
-----------------------------------------------------------------------------
LEMMA AppendList ==
    ASSUME NEW q \in Seq(Bufs), NEW b \in Bufs, ~Listed(q, b), Once(q)
    PROVE  /\ Append(q, b) \in Seq(Bufs) /\ Append(q, b) # <<>> /\ Once(Append(q, b))
           /\ q # <<>> => Head(Append(q, b)) = Head(q)
           /\ \A c : Listed(Append(q, b), c) <=> Listed(q, c) \/ c = b
<1>1. /\ Append(q, b) \in Seq(Bufs) /\ Len(Append(q, b)) = Len(q) + 1 /\ Len(q) \in Nat
      /\ \A i \in 1 .. Len(q) : Append(q, b)[i] = q[i]
      /\ Append(q, b)[Len(q) + 1] = b
  OBVIOUS
<1>2. Once(Append(q, b))
  BY <1>1 DEF Once, Listed
<1>3. q # <<>> => Head(Append(q, b)) = Head(q)
  BY <1>1
<1>4. ASSUME NEW c PROVE Listed(Append(q, b), c) <=> Listed(q, c) \/ c = b
  <2>1. ASSUME NEW i \in 1 .. Len(q) + 1, Append(q, b)[i] = c PROVE Listed(q, c) \/ c = b
    <3>1. CASE i = Len(q) + 1
      BY <1>1, <2>1, <3>1
    <3>2. CASE i # Len(q) + 1
      <4>1. i \in 1 .. Len(q)
        BY <1>1, <3>2
      <4>2. q[i] = c
        BY <1>1, <2>1, <4>1
      <4>3. QED BY <4>1, <4>2 DEF Listed
    <3>3. QED BY <3>1, <3>2
  <2>2. ASSUME NEW i \in 1 .. Len(q), q[i] = c PROVE Listed(Append(q, b), c)
    BY <1>1, <2>2 DEF Listed
  <2>3. Len(q) + 1 \in 1 .. Len(Append(q, b))
    BY <1>1
  <2>4. Listed(Append(q, b), b)
    BY <1>1, <2>3 DEF Listed
  <2>5. Listed(Append(q, b), c) => \E i \in 1 .. Len(q) + 1 : Append(q, b)[i] = c
    BY <1>1 DEF Listed
  <2>6. Listed(q, c) => Listed(Append(q, b), c)
    BY <2>2 DEF Listed
  <2>7. Listed(Append(q, b), c) => Listed(q, c) \/ c = b
    BY <2>1, <2>5
  <2>8. QED BY <2>4, <2>6, <2>7
<1>5. Append(q, b) # <<>>
  BY <1>1
<1>6. QED BY <1>1, <1>2, <1>3, <1>4, <1>5

LEMMA TailList ==
    ASSUME NEW q \in Seq(Bufs), q # <<>>, Once(q)
    PROVE  /\ Tail(q) \in Seq(Bufs) /\ Once(Tail(q)) /\ Head(q) \in Bufs
           /\ \A c : Listed(Tail(q), c) <=> Listed(q, c) /\ c # Head(q)
<1>1. /\ Tail(q) \in Seq(Bufs) /\ Len(Tail(q)) = Len(q) - 1 /\ Len(q) \in Nat /\ Len(q) > 0
      /\ \A i \in 1 .. Len(q) - 1 : Tail(q)[i] = q[i + 1]
      /\ Head(q) = q[1] /\ Head(q) \in Bufs
  OBVIOUS
<1>2. Once(Tail(q))
  BY <1>1 DEF Once
<1>3. ASSUME NEW c PROVE Listed(Tail(q), c) <=> Listed(q, c) /\ c # Head(q)
  <2>1. ASSUME NEW i \in 1 .. Len(q) - 1, Tail(q)[i] = c PROVE Listed(q, c) /\ c # Head(q)
    BY <1>1, <2>1 DEF Listed, Once
  <2>2. ASSUME NEW i \in 1 .. Len(q), q[i] = c, c # Head(q) PROVE Listed(Tail(q), c)
    <3>1. i # 1 /\ i - 1 \in 1 .. Len(q) - 1
      BY <1>1, <2>2
    <3>2. Tail(q)[i - 1] = c
      BY <1>1, <2>2, <3>1
    <3>3. QED BY <1>1, <3>1, <3>2 DEF Listed
  <2>3. QED BY <1>1, <2>1, <2>2 DEF Listed
<1>4. QED BY <1>1, <1>2, <1>3

-----------------------------------------------------------------------------
\* Division with a remainder: a place in the FIFO, and which numbers have different
\* ones.
LEMMA Divided ==
    ASSUME NEW n \in Nat \ {0}, NEW i \in Nat,
           NEW q \in Int, q = i \div n, NEW r \in Int, r = i % n
    PROVE  i = n * q + r /\ r \in 0 .. n - 1
<1>1. n \in Int /\ n > 0 /\ i \in Int
  OBVIOUS
<1>2. i = n * q + r
  BY <1>1
<1>3. r \in 0 .. n - 1
  BY <1>1
<1>4. QED BY <1>2, <1>3

LEMMA DifferentSlots ==
    ASSUME NEW n \in Nat \ {0}, NEW i \in Nat, NEW j \in Nat, i - n < j, j < i
    PROVE  i % n # j % n
<1>1. i \div n \in Int /\ i % n \in Int /\ j \div n \in Int /\ j % n \in Int
  OBVIOUS
<1>2. ASSUME NEW q \in Int, q = i \div n, NEW r \in Int, r = i % n,
             NEW p \in Int, p = j \div n, r = j % n
      PROVE  FALSE
  <2>1. i = n * q + r /\ j = n * p + r
    BY <1>2, Divided
  <2>2. i - j = n * (q - p)
    BY <2>1
  <2>3. ASSUME NEW d \in Int, d = q - p PROVE FALSE
    <3>1. i - j = n * d
      BY <2>2, <2>3
    <3>2. d > 0
      BY <3>1
    <3>3. n * d >= n
      BY <3>2
    <3>4. QED BY <3>1, <3>3
  <2>4. QED BY <2>3
<1>3. QED BY <1>1, <1>2

LEMMA SlotOf ==
    ASSUME NEW n \in Nat \ {0}, NEW i \in Nat
    PROVE  i % n \in 0 .. n - 1 /\ i % n <= i
OBVIOUS

LEMMA FirstSlots ==
    ASSUME NEW n \in Nat \ {0}, NEW i \in Nat, i < n
    PROVE  i % n = i
OBVIOUS
-----------------------------------------------------------------------------
\* Sets of threads.
LEMMA ThreadSets ==
    ASSUME FifoAssumption, NEW S \in SUBSET Threads
    PROVE  /\ IsFiniteSet(S) /\ Cardinality(S) \in Nat
           /\ \A R \in SUBSET S : Cardinality(R) <= Cardinality(S)
           /\ \A t \in Threads \ S : Cardinality(S \cup {t}) = Cardinality(S) + 1
           /\ \A t \in S : Cardinality(S \ {t}) = Cardinality(S) - 1
           /\ Cardinality(S) <= 1 => \A s, t \in S : s = t
<1>1. IsFiniteSet(S)
  <2>1. IsFiniteSet(Threads)
    BY FS_Interval DEF FifoAssumption, Threads
  <2>2. QED BY <2>1, FS_Subset
<1>2. Cardinality(S) \in Nat
  BY <1>1, FS_CardinalityType
<1>3. \A R \in SUBSET S : Cardinality(R) <= Cardinality(S)
  BY <1>1, FS_Subset
<1>4. \A t \in Threads \ S : Cardinality(S \cup {t}) = Cardinality(S) + 1
  BY <1>1, FS_AddElement
<1>5. \A t \in S : Cardinality(S \ {t}) = Cardinality(S) - 1
  BY <1>1, FS_RemoveElement
<1>6. ASSUME Cardinality(S) <= 1, NEW s \in S, NEW t \in S PROVE s = t
  <2>1. Cardinality(S \ {t}) = 0 \/ Cardinality(S \ {t}) < 0
    BY <1>2, <1>5, <1>6
  <2>2. IsFiniteSet(S \ {t})
    BY <1>1, FS_Subset
  <2>3. Cardinality(S \ {t}) = 0
    BY <2>1, <2>2, FS_CardinalityType
  <2>4. S \ {t} = {}
    BY <2>2, <2>3, FS_EmptySet
  <2>5. QED BY <1>6, <2>4
<1>7. QED BY <1>1, <1>2, <1>3, <1>4, <1>5, <1>6

\* The numbers the invariant computes with.
LEMMA Numbers ==
    ASSUME FifoAssumption, TypeOK
    PROVE  /\ Depth \in Nat \ {0} /\ frames \in Nat /\ gen \in Nat
           /\ readIndex \in Nat /\ writeIndex \in Nat
           /\ Len(vq) \in Nat /\ Len(doneq) \in Nat
           /\ InFill \in {0, 1} /\ (filling => InFill = 1) /\ (~filling => InFill = 0)
           /\ Oldest \in Int /\ Oldest = frames - InFill - Len(doneq)
           /\ Cardinality(users) \in Nat /\ Cardinality(Held) \in Nat
           /\ Round \in Int /\ Round = Depth - (Cardinality(users) - 1)
           /\ \A b \in Bufs : content[b] \in Int
           /\ \A t \in Threads : tbuf[t] \in Frames /\ tbuf[t].no \in Int
           /\ \A s \in Slots : fifo[s] \in Frames /\ fifo[s].no \in Int
           /\ got \in Frames /\ got.no \in Int
<1>1. \A f \in Frames : f.no \in Int
  BY DEF Frames, NoFrame
<1>2. Cardinality(users) \in Nat /\ Cardinality(Held) \in Nat
  <2>1. users \in SUBSET Threads /\ Held \in SUBSET Threads
    BY DEF TypeOK, Held
  <2>2. QED BY <2>1, ThreadSets
<1>3. Depth \in Nat \ {0} /\ frames \in Nat /\ gen \in Nat /\ Len(vq) \in Nat /\ Len(doneq) \in Nat
      /\ readIndex \in Nat /\ writeIndex \in Nat
  BY DEF TypeOK, FifoAssumption
<1>4. InFill \in {0, 1} /\ (filling => InFill = 1) /\ (~filling => InFill = 0)
  BY DEF InFill
<1>5. Oldest \in Int /\ Oldest = frames - InFill - Len(doneq)
  BY <1>3, <1>4 DEF Oldest
<1>6. Round \in Int /\ Round = Depth - (Cardinality(users) - 1)
  BY <1>2, <1>3 DEF Round
<1>7. /\ \A b \in Bufs : content[b] \in Int
      /\ \A t \in Threads : tbuf[t] \in Frames
      /\ \A s \in Slots : fifo[s] \in Frames
      /\ got \in Frames
  BY DEF TypeOK
<1>8. QED BY <1>1, <1>2, <1>3, <1>4, <1>5, <1>6, <1>7
-----------------------------------------------------------------------------
\* Steps that leave the buffers and the FIFO alone.
LEMMA Quiet ==
    ASSUME FifoInv, TypeOK',
           UNCHANGED <<gen, fifo, writeIndex, drvVars, users>>,
           cam' = cam \/ (cam # "streaming" /\ cam' # "streaming"),
           apc' \in {"close", "delete"} => cam' # "streaming",
           apc' = "copy" => apc = "copy" /\ UNCHANGED <<got, readIndex, overrun>>,
           Held' = Held,
           \A t \in Held : tpc'[t] = tpc[t] /\ tbuf'[t] = tbuf[t],
           \A t \in Threads : tgen'[t] <= gen
    PROVE  FifoInv'
<1> USE DEF FifoInv
<1>1. Holding'
  BY DEF Holding
<1>2. Promises'
  BY DEF Promises, Promised, Round
<1>3. Oldest' = Oldest /\ InFill' = InFill /\ Round' = Round
  BY DEF Oldest, InFill, Round
<1>4. Capturing' <=> Capturing
  BY DEF Capturing
<1>5. InOrder'
  BY <1>3, <1>4 DEF InOrder, Alone
<1>6. ASSUME cam' = "streaming" PROVE Places' /\ Numbered'
  <2>1. Places /\ Numbered
    BY <1>6
  <2>2. Places'
    BY <2>1 DEF Places
  <2>3. Numbered'
    BY <1>3, <2>1 DEF Numbered
  <2>4. QED BY <2>2, <2>3
<1>7. QED BY <1>1, <1>2, <1>5, <1>6

LEMMA QuietApplication ==
    ASSUME FifoInv, FifoAssumption,
           Beginning,
           CopyFrame \/ DestroyFlag \/ CameraClose \/ DeleteCamera \/ UNCHANGED vars
           \/ CameraOpen \/ CameraOpenFails
    PROVE  FifoInv'
<1> USE DEF CopyFrame, DestroyFlag, CameraClose, DeleteCamera, Destroy, CameraOpen,
            CameraOpenFails, Advance
<1>1. TypeOK
  BY DEF FifoInv
<1>2. TypeOK'
  BY <1>1 DEF TypeOK, Frames
<1>3. UNCHANGED <<gen, fifo, writeIndex, drvVars, users, tpc, tgen, tbuf>>
  OBVIOUS
<1>4. Held' = Held
  BY <1>3 DEF Held
<1>5. \A t \in Threads : tgen'[t] <= gen
  BY <1>3 DEF FifoInv, Holding
<1>6. cam' = cam \/ (cam # "streaming" /\ cam' # "streaming")
  BY DEF FifoInv, Beginning
<1>7. apc' \in {"close", "delete"} => cam' # "streaming"
  BY DEF FifoInv
<1>8. apc' = "copy" => apc = "copy" /\ UNCHANGED <<got, readIndex, overrun>>
  OBVIOUS
<1>9. QED BY <1>2, <1>3, <1>4, <1>5, <1>6, <1>7, <1>8, Quiet

\* Threads that are not about to give a buffer back.
LEMMA QuietPoll ==
    ASSUME FifoInv, FifoAssumption, NEW t \in Threads,
           PollBegin(t) \/ PollLoop(t) \/ PollSelect(t) \/ Astray
           \/ (CaptureDequeue(t) /\ doneq = <<>>)
    PROVE  FifoInv'
<1> USE DEF PollBegin, PollLoop, PollSelect, CaptureDequeue, Astray, Goto
<1>1. TypeOK /\ gen \in Nat /\ \A s \in Threads : tgen[s] <= gen
  BY Numbers DEF FifoInv, Holding
<1>2. UNCHANGED <<appVars, camVars, fifoVars, drvVars, histVars>>
  OBVIOUS
<1>3. /\ \A s \in Threads \ {t} : tpc'[s] = tpc[s] /\ tgen'[s] = tgen[s] /\ tbuf'[s] = tbuf[s]
      /\ \/ UNCHANGED thrVars
         \/ tpc[t] \notin {"slot", "qbuf"} /\ tpc'[t] \notin {"slot", "qbuf"} /\ tgen'[t] <= gen
  BY <1>1 DEF TypeOK
<1>4. TypeOK'
  <2>1. tpc' \in [Threads -> ThreadPCs]
    BY <1>1 DEF TypeOK, ThreadPCs
  <2>2. tgen' \in [Threads -> 0 .. MaxInits]
    BY <1>1 DEF TypeOK
  <2>3. tbuf' \in [Threads -> Frames]
    BY <1>1 DEF TypeOK, Frames
  <2>4. {pollExit', filling', wild', overrun'} \subseteq BOOLEAN
    BY <1>1 DEF TypeOK
  <2>5. QED BY <1>1, <1>2, <2>1, <2>2, <2>3, <2>4 DEF TypeOK
<1>5. Held' = Held
  BY <1>2, <1>3 DEF Held
<1>6. \A s \in Held : tpc'[s] = tpc[s] /\ tbuf'[s] = tbuf[s]
  BY <1>3 DEF Held
<1>7. \A s \in Threads : tgen'[s] <= gen
  BY <1>1, <1>3
<1>8. apc' \in {"close", "delete"} => cam' # "streaming"
  BY <1>2 DEF FifoInv
<1>9. QED BY <1>2, <1>4, <1>5, <1>6, <1>7, <1>8, Quiet
-----------------------------------------------------------------------------
\* The application.
LEMMA StopStep ==
    ASSUME FifoInv, FifoAssumption, CameraStop
    PROVE  FifoInv'
<1> USE DEF CameraStop, Destroy
<1>1. TypeOK /\ Holding /\ Promises /\ InOrder
  BY DEF FifoInv
<1>2. TypeOK'
  <2>1. {pollExit', filling', wild', overrun'} \subseteq BOOLEAN
    BY <1>1 DEF TypeOK
  <2>2. QED BY <1>1, <2>1 DEF TypeOK
<1>3. Held' = Held
  BY DEF Held
<1>4. Holding'
  BY <1>1, <1>3 DEF Holding
<1>5. Promises'
  BY <1>1 DEF Promises, Promised, Round
<1>6. InOrder'
  BY <1>1, <1>3 DEF InOrder, Alone
<1>7. QED BY <1>2, <1>4, <1>5, <1>6 DEF FifoInv

LEMMA InitStep ==
    ASSUME FifoInv, FifoAssumption, CameraInit
    PROVE  FifoInv'
<1> USE DEF CameraInit
<1>1. TypeOK /\ Depth \in Nat \ {0} /\ gen \in Nat /\ \A t \in Threads : tgen[t] \in Nat /\ tgen[t] <= gen
  <2> HIDE DEF CameraInit
  <2>1. TypeOK /\ Holding
    BY DEF FifoInv
  <2>2. Depth \in Nat \ {0} /\ gen \in Nat
    BY <2>1, Numbers
  <2>3. \A t \in Threads : tgen[t] \in Nat /\ tgen[t] <= gen
    BY <2>1 DEF TypeOK, Holding
  <2>4. QED BY <2>1, <2>2, <2>3
<1>2. vq' \in Seq(Bufs) /\ doneq' \in Seq(Bufs)
  OBVIOUS
<1>3. TypeOK'
  <2>1. gen' \in 0 .. MaxInits
    BY <1>1 DEF TypeOK, FifoAssumption
  <2>2. fifo' \in [Slots -> Frames] /\ content' \in [Bufs -> Nat \cup {-1}]
    BY DEF Frames
  <2>3. {pollExit', filling', wild', overrun'} \subseteq BOOLEAN
    BY <1>1 DEF TypeOK
  <2>4. frames' \in 0 .. MaxFrames
    BY DEF FifoAssumption
  <2>5. QED BY <1>1, <1>2, <2>1, <2>2, <2>3, <2>4 DEF TypeOK
<1>4. Held' = {}
  BY <1>1 DEF Held
<1>5. Holding'
  BY <1>1, <1>4 DEF Holding
<1>6. Promises'
  BY <1>1 DEF Promises, Slots
<1>7. InOrder'
  BY <1>4 DEF InOrder, Capturing
<1>8. QED BY <1>3, <1>5, <1>6, <1>7 DEF FifoInv

\* The buffers are given to the driver, and no thread has one.
LEMMA StartStep ==
    ASSUME FifoInv, FifoAssumption, Beginning, CameraStart
    PROVE  FifoInv'
<1> USE DEF CameraStart, Advance
<1>1. TypeOK /\ Holding /\ Promises /\ doneq = <<>> /\ ~filling /\ Depth \in Nat \ {0}
  <2> HIDE DEF CameraStart, Advance
  <2>1. TypeOK /\ Holding /\ Promises
    BY DEF FifoInv
  <2>2. apc = "start"
    BY DEF CameraStart, Advance
  <2>3. QED BY <2>1, <2>2, Numbers DEF FifoInv, Beginning
<1>2. vq' \in Seq(Bufs) /\ Len(vq') = Depth /\ Len(doneq') = 0 /\ \A i \in 1 .. Depth : vq'[i] = i
  BY <1>1 DEF Bufs
<1>3. TypeOK'
  <2>1. {pollExit', filling', wild', overrun'} \subseteq BOOLEAN
    BY <1>1 DEF TypeOK
  <2>2. QED BY <1>1, <1>2, <2>1 DEF TypeOK
<1>4. /\ Held = {} /\ frames' = 0 /\ writeIndex' = 0 /\ content' = [b \in Bufs |-> -1]
      /\ Held' = {}
  BY DEF Beginning, Held
<1>5. Cardinality(Held') = 0
  BY <1>4, FS_EmptySet
<1>6. Holding'
  BY <1>1, <1>4 DEF Holding
<1>7. Promises'
  BY <1>1, <1>4 DEF Promises, Slots
<1>8. InFill' = 0 /\ Oldest' = 0 /\ ~Capturing'
  <2>1. InFill' = 0
    BY <1>1 DEF InFill
  <2>2. Oldest' = 0
    <3> HIDE DEF CameraStart, Advance
    <3>1. Oldest' = frames' - InFill' - Len(doneq')
      BY DEF Oldest
    <3>2. QED BY <1>2, <1>4, <2>1, <3>1
  <2>3. QED BY <1>4, <2>1, <2>2 DEF Capturing
<1>9. InOrder'
  BY <1>4, <1>8 DEF InOrder
<1>10. Places'
  <2> HIDE DEF CameraStart, Advance
  <2>1. Once(vq') /\ Once(doneq')
    BY <1>2 DEF Once
  <2>2. \A b \in Bufs : Listed(vq', b) /\ ~Listed(doneq', b)
    BY <1>1, <1>2 DEF Listed, Bufs
  <2>3. QED BY <1>1, <1>2, <1>4, <1>5, <2>1, <2>2 DEF Places
<1>11. Numbered'
  <2>1. \A i \in 1 .. Depth : content'[vq'[i]] = -1
    BY <1>2, <1>4 DEF Bufs
  <2>2. QED BY <1>1, <1>2, <1>4, <1>8, <2>1 DEF Numbered
<1>12. QED BY <1>3, <1>6, <1>7, <1>9, <1>10, <1>11 DEF FifoInv

\* The thread that is created has had no buffer.
LEMMA CreateStep ==
    ASSUME FifoInv, FifoAssumption, Beginning, CreateThread
    PROVE  FifoInv'
<1> USE DEF CreateThread, Advance
<1>1. TypeOK
  BY DEF FifoInv
<1>2. TypeOK'
  <2>1. tpc' \in [Threads -> ThreadPCs]
    BY <1>1 DEF TypeOK, ThreadPCs
  <2>2. {pollExit', filling', wild', overrun'} \subseteq BOOLEAN
    BY <1>1 DEF TypeOK
  <2>3. QED BY <1>1, <2>1, <2>2 DEF TypeOK
<1>3. /\ \A t \in Threads : t # gen => tpc'[t] = tpc[t]
      /\ \A t \in Threads : t = gen => tpc[t] = "none" /\ tpc'[t] = "born"
  BY <1>1 DEF TypeOK, Beginning
<1>4. Held' = Held /\ \A t \in Held : tpc'[t] = tpc[t] /\ tbuf'[t] = tbuf[t]
  BY <1>3 DEF Held
<1>5. \A t \in Threads : tgen'[t] <= gen
  BY DEF FifoInv, Holding
<1>6. UNCHANGED <<gen, cam, fifo, writeIndex, drvVars, users>> /\ apc' = "in"
  OBVIOUS
<1>7. QED BY <1>2, <1>4, <1>5, <1>6, Quiet

LEMMA GetStep ==
    ASSUME FifoInv, FifoAssumption, GetYuvFrame
    PROVE  FifoInv'
<1> USE DEF GetYuvFrame
<1>1. TypeOK /\ Holding /\ Promises /\ InOrder
  BY DEF FifoInv
<1>2. /\ Depth \in Nat \ {0} /\ readIndex \in Nat /\ writeIndex \in Nat /\ readIndex <= writeIndex
      /\ Corrected \in Nat /\ Corrected <= writeIndex
      /\ ~Behind => Corrected = readIndex
  <2> HIDE DEF GetYuvFrame
  <2>1. Depth \in Nat \ {0} /\ readIndex \in Nat /\ writeIndex \in Nat /\ readIndex <= writeIndex
    BY <1>1, Numbers DEF TypeOK
  <2>2. QED BY <2>1 DEF Corrected, Behind
<1>3. readIndex % Depth \in Slots /\ readIndex % Depth <= readIndex
  BY <1>2, SlotOf DEF Slots
<1>4. readIndex' \in Nat /\ readIndex' <= writeIndex
  BY <1>2 DEF Available
<1>5. TypeOK'
  <2>1. got' \in Frames
    BY <1>1, <1>3 DEF TypeOK
  <2>2. {pollExit', filling', wild', overrun'} \subseteq BOOLEAN
    BY <1>1 DEF TypeOK
  <2>3. apc' \in {"in", "copy"}
    OBVIOUS
  <2>4. QED BY <1>1, <1>4, <2>1, <2>2, <2>3 DEF TypeOK
<1>6. Held' = Held /\ UNCHANGED <<gen, cam, fifo, writeIndex, thrVars, drvVars, users>>
  BY DEF Held
<1>7. CASE ~Available
  <2>1. UNCHANGED <<got, apc>> /\ apc' = "in"
    BY <1>7
  <2>2. \A t \in Threads : tgen'[t] <= gen
    BY <1>1, <1>6 DEF Holding
  <2>3. QED BY <1>5, <1>6, <2>1, <2>2, Quiet
<1>8. CASE Available
  <2>1. apc' = "copy" /\ got' = fifo[readIndex % Depth] /\ readIndex' = Corrected + 1 /\ readIndex < writeIndex
    BY <1>2, <1>8 DEF Available, Corrected, Behind
  <2>2. Promised(got')
    BY <1>1, <1>2, <1>3, <2>1 DEF Promises
  <2>3. Promises'
    BY <1>1, <1>6, <2>2 DEF Promises, Promised, Round
  <2>4. Oldest' = Oldest /\ InFill' = InFill /\ Round' = Round
    BY <1>6 DEF Oldest, InFill, Round
  <2>5. Capturing' <=> Capturing
    BY <1>6 DEF Capturing
  <2>6. ASSUME Alone, ~overrun' PROVE got'.no = readIndex' - 1
    <3>1. ~Behind /\ readIndex' = readIndex + 1
      BY <1>2, <2>1, <2>6
    <3>2. writeIndex - Depth <= readIndex
      BY <1>2, <3>1 DEF Behind
    <3>3. fifo[readIndex % Depth].no = readIndex
      BY <1>1, <1>2, <2>1, <2>6, <3>2 DEF InOrder
    <3>4. QED BY <1>2, <2>1, <3>1, <3>3
  <2>7. InOrder'
    BY <1>1, <1>6, <2>4, <2>5, <2>6 DEF InOrder, Alone
  <2>8. Holding'
    BY <1>1, <1>6 DEF Holding
  <2>9. ASSUME cam' = "streaming" PROVE Places' /\ Numbered'
    <3>1. Places /\ Numbered
      BY <1>6, <2>9 DEF FifoInv
    <3>2. QED BY <1>6, <2>4, <3>1 DEF Places, Numbered
  <2>10. cam' # "streaming" => doneq' = <<>> /\ ~filling'
    BY <1>6 DEF FifoInv
  <2>11. QED BY <1>5, <2>1, <2>3, <2>7, <2>8, <2>9, <2>10 DEF FifoInv
<1>9. QED BY <1>7, <1>8
-----------------------------------------------------------------------------
\* A thread captures: it takes the oldest filled buffer.
LEMMA DequeueStep ==
    ASSUME FifoInv, FifoAssumption, NEW t \in Threads,
           tpc[t] = "dqbuf", ~Gone(t), doneq # <<>>, CaptureDequeue(t)
    PROVE  FifoInv'
<1>1. /\ tpc[t] = "dqbuf" /\ tgen[t] = gen
      /\ tbuf' = [tbuf EXCEPT ![t] = [buf |-> Head(doneq), no |-> content[Head(doneq)]]]
      /\ doneq' = Tail(doneq)
      /\ users' = users \cup {t}
      /\ tpc' = [tpc EXCEPT ![t] = "slot"]
      /\ UNCHANGED <<appVars, camVars, fifoVars, tgen, pollExit, vq, filling,
                     content, frames, wild, overrun>>
  BY DEF CaptureDequeue, Gone, Goto
<1>2. /\ TypeOK /\ Holding /\ Promises /\ InOrder /\ Places /\ Numbered
      /\ cam = "streaming" /\ ~(apc \in {"close", "delete"})
  BY DEF FifoInv
<1>n. /\ Depth \in Nat /\ frames \in Int /\ Len(doneq) \in Nat /\ Len(vq) \in Nat /\ InFill \in Int
      /\ Oldest \in Int /\ Oldest = frames - InFill - Len(doneq)
      /\ Round \in Int /\ Round = Depth - (Cardinality(users) - 1)
  BY <1>2, Numbers
<1> DEFINE b == Head(doneq)
<1>3. /\ b \in Bufs /\ b = doneq[1] /\ Len(doneq) >= 1 /\ Len(doneq') = Len(doneq) - 1
      /\ doneq' \in Seq(Bufs)
      /\ \A i \in 1 .. Len(doneq') : doneq'[i] = doneq[i + 1]
  BY <1>1, <1>2 DEF TypeOK
<1>4. /\ Once(doneq') /\ Listed(doneq, b)
      /\ \A c : Listed(doneq', c) <=> Listed(doneq, c) /\ c # b
  <2>1. Once(doneq) /\ doneq \in Seq(Bufs)
    BY <1>2 DEF Places, TypeOK
  <2>2. Listed(doneq, b)
    BY <1>3 DEF Listed
  <2>3. QED BY <1>1, <2>1, <2>2, TailList
<1> HIDE DEF b
<1>5. content[b] = Oldest /\ Oldest >= 0
  <2>1. 1 \in 1 .. Len(doneq)
    BY <1>3, <1>n
  <2>2. content[doneq[1]] = Oldest + 1 - 1 /\ Oldest >= 0
    BY <1>2, <2>1 DEF Numbered
  <2>3. QED BY <1>3, <1>n, <2>2
<1>6. /\ tbuf'[t].buf = b /\ tbuf'[t].no = Oldest /\ tpc'[t] = "slot" /\ t \notin Held
      /\ \A s \in Threads \ {t} : tbuf'[s] = tbuf[s] /\ tpc'[s] = tpc[s]
      /\ \A s \in Held : s # t /\ s \in Threads /\ tbuf'[s] = tbuf[s] /\ tpc'[s] = tpc[s]
      /\ Held' = Held \cup {t}
  BY <1>1, <1>2, <1>5 DEF TypeOK, Held, b
<1>7. TypeOK'
  <2>1. tpc' \in [Threads -> ThreadPCs]
    BY <1>1, <1>2 DEF TypeOK, ThreadPCs
  <2>2. tbuf' \in [Threads -> Frames]
    <3>1. [buf |-> b, no |-> content[b]] \in Frames
      BY <1>2, <1>3, <1>5, Numbers DEF Frames
    <3>2. QED BY <1>1, <1>2, <3>1 DEF TypeOK, b
  <2>3. {pollExit', filling', wild', overrun'} \subseteq BOOLEAN
    BY <1>1, <1>2 DEF TypeOK
  <2>4. QED BY <1>1, <1>2, <1>3, <2>1, <2>2, <2>3 DEF TypeOK
<1>8. /\ Cardinality(Held') = Cardinality(Held) + 1 /\ Cardinality(Held) \in Nat
      /\ Cardinality(users') >= Cardinality(users)
      /\ Cardinality(users) \in Nat /\ Cardinality(users') \in Nat
  <2>1. Held \in SUBSET Threads /\ users \in SUBSET Threads /\ users' \in SUBSET Threads
    BY <1>1, <1>2 DEF Held, TypeOK
  <2>2. Cardinality(Held') = Cardinality(Held) + 1
    BY <1>6, <2>1, ThreadSets
  <2>3. users \in SUBSET users'
    BY <1>1
  <2>4. QED BY <2>1, <2>2, <2>3, ThreadSets
<1>9. /\ InFill' = InFill /\ Oldest' = Oldest + 1
      /\ Round' <= Round /\ Round' \in Int /\ Round \in Int
  <2>1. InFill' = InFill
    BY <1>1 DEF InFill
  <2>2. Oldest' = frames - InFill - Len(doneq')
    BY <1>1, <2>1 DEF Oldest
  <2>3. Round' = Depth - (Cardinality(users') - 1)
    BY DEF Round
  <2>4. Len(doneq') = Len(doneq) - 1
    BY <1>3
  <2>5. Oldest' = Oldest + 1
    BY <1>n, <2>2, <2>4
  <2>6. Round' <= Round /\ Round' \in Int
    BY <1>n, <1>8, <2>3
  <2>7. QED BY <1>n, <2>1, <2>5, <2>6
<1>10. Holding'
  <2>1. \A s \in Held' : s \in users' /\ tbuf'[s].buf \in Bufs
                         /\ content[tbuf'[s].buf] = tbuf'[s].no /\ tbuf'[s].no >= 0
    BY <1>1, <1>2, <1>3, <1>5, <1>6 DEF Holding
  <2>2. QED BY <1>1, <1>2, <2>1 DEF Holding
<1>11. Places'
  <2>1. ~Listed(vq, b) /\ \A s \in Held : tbuf[s].buf # b
    BY <1>2, <1>3, <1>4 DEF Places
  <2>2. Len(vq') + Len(doneq') + Cardinality(Held') = Depth
    BY <1>1, <1>2, <1>3, <1>8, Numbers DEF Places
  <2>3. \A s \in Held' : ~Listed(vq, tbuf'[s].buf) /\ ~Listed(doneq', tbuf'[s].buf)
    BY <1>2, <1>4, <1>6, <2>1 DEF Places
  <2>4. \A r, s \in Held' : tbuf'[r].buf = tbuf'[s].buf => r = s
    BY <1>2, <1>6, <2>1 DEF Places
  <2>5. \A c \in Bufs : Listed(vq, c) \/ Listed(doneq', c) \/ \E s \in Held' : tbuf'[s].buf = c
    BY <1>2, <1>4, <1>6 DEF Places
  <2>6. QED BY <1>1, <1>2, <1>4, <2>2, <2>3, <2>4, <2>5 DEF Places
<1>12. Numbered'
  <2>1. \A i \in 1 .. Len(doneq') : content[doneq'[i]] = Oldest' + i - 1
    <3>1. ASSUME NEW i \in 1 .. Len(doneq') PROVE content[doneq'[i]] = Oldest' + i - 1
      <4>1. i + 1 \in 1 .. Len(doneq) /\ doneq'[i] = doneq[i + 1]
        BY <1>n, <1>3
      <4>2. content[doneq[i + 1]] = Oldest + (i + 1) - 1
        BY <1>2, <4>1 DEF Numbered
      <4>3. QED BY <1>n, <1>9, <4>1, <4>2
    <3>2. QED BY <3>1
  <2>2. \A s \in Held' : tbuf'[s].no < Oldest'
    <3>1. ASSUME NEW s \in Held PROVE tbuf'[s].no < Oldest'
      <4>1. tbuf[s].no < Oldest /\ tbuf[s].no \in Int /\ tbuf'[s] = tbuf[s]
        BY <1>2, <1>6, Numbers DEF Numbered
      <4>2. QED BY <1>n, <1>9, <4>1
    <3>2. tbuf'[t].no < Oldest'
      BY <1>n, <1>6, <1>9
    <3>3. QED BY <1>6, <3>1, <3>2
  <2>3. \A i \in InFill' + 1 .. Len(vq') :
            content'[vq'[i]] >= 0 => frames' - InFill' + i - 1 - content'[vq'[i]] >= Round'
    <3>1. ASSUME NEW i \in InFill + 1 .. Len(vq), content[vq[i]] >= 0
          PROVE  frames - InFill + i - 1 - content[vq[i]] >= Round'
      <4>1. frames - InFill + i - 1 - content[vq[i]] >= Round
        BY <1>2, <3>1 DEF Numbered
      <4>2. vq[i] \in Bufs
        <5>1. i \in 1 .. Len(vq) /\ vq \in Seq(Bufs)
          <6>1. InFill \in {0, 1}
            BY <1>2, Numbers
          <6>2. QED BY <1>2, <1>n, <6>1 DEF TypeOK
        <5>2. QED BY <5>1
      <4>3. content[vq[i]] \in Int
        BY <1>2, <4>2, Numbers
      <4>4. i \in Int
        BY <1>n
      <4>5. ASSUME NEW x \in Int, frames - InFill + i - 1 - x >= Round
            PROVE  frames - InFill + i - 1 - x >= Round'
        BY <1>n, <1>9, <4>4, <4>5
      <4>6. QED BY <4>1, <4>3, <4>5
    <3>2. QED BY <1>1, <1>9, <3>1
  <2>4. filling' => vq' # <<>> /\ content'[Head(vq')] = frames' - 1
    BY <1>1, <1>2 DEF Numbered
  <2>5. Oldest' >= 0
    BY <1>2, <1>5, <1>9, Numbers
  <2>6. QED BY <1>1, <2>1, <2>2, <2>3, <2>4, <2>5 DEF Numbered
<1>13. Promises'
  <2>1. ASSUME NEW f \in Frames, Promised(f) PROVE Promised(f)'
    <3>1. f.buf \in Bufs /\ f.no \in Int /\ content[f.buf] \in Int
      <4>1. f.buf \in Bufs
        BY <2>1 DEF Promised
      <4>2. f.no \in Int
        BY DEF Frames, NoFrame
      <4>3. QED BY <1>2, <4>1, <4>2, Numbers
    <3>2. QED BY <1>1, <1>9, <2>1, <3>1 DEF Promised
  <2>2. ASSUME NEW s \in Slots, s < writeIndex PROVE Promised(fifo[s])'
    BY <1>1, <1>2, <2>1, <2>2, Numbers DEF Promises
  <2>3. ASSUME apc = "copy" PROVE Promised(got)'
    BY <1>1, <1>2, <2>1, <2>3, Numbers DEF Promises
  <2>4. QED BY <1>1, <2>2, <2>3 DEF Promises
<1>14. InOrder'
  <2>1. SUFFICES ASSUME Alone' PROVE InOrder'
    BY DEF InOrder
  <2>2. Alone
    BY <1>8, <2>1 DEF Alone
  <2>3. Held = {}
    <3>1. \A s \in Held : s \in users /\ s # t
      BY <1>2, <1>6 DEF Holding
    <3>2. users' \in SUBSET Threads /\ Cardinality(users') <= 1
      BY <1>1, <1>2, <2>1 DEF TypeOK, Alone
    <3>3. \A r, s \in users' : r = s
      BY <3>2, ThreadSets
    <3>4. QED BY <1>1, <3>1, <3>3
  <2>4. Oldest = writeIndex
    BY <1>2, <2>2, <2>3 DEF InOrder, Capturing
  <2>5. Capturing' /\ Oldest' = writeIndex' + 1
    BY <1>1, <1>6, <1>9, <2>4 DEF Capturing
  <2>6. \A s \in Held' : tpc'[s] = "slot" => tbuf'[s].no = writeIndex'
    BY <1>1, <1>6, <2>3, <2>4
  <2>7. QED BY <1>1, <1>2, <2>2, <2>5, <2>6 DEF InOrder
<1>15. QED BY <1>1, <1>2, <1>7, <1>10, <1>11, <1>12, <1>13, <1>14 DEF FifoInv

\* Its address goes into the FIFO.
LEMMA SlotStep ==
    ASSUME FifoInv, FifoAssumption, NEW t \in Threads,
           tpc[t] = "slot", ~Gone(t), cam # "closed", CaptureSlot(t)
    PROVE  FifoInv'
<1>1. /\ tpc[t] = "slot" /\ tgen[t] = gen
      /\ fifo' = [fifo EXCEPT ![writeIndex % Depth] = tbuf[t]]
      /\ writeIndex' = writeIndex + 1
      /\ tpc' = [tpc EXCEPT ![t] = "qbuf"]
      /\ UNCHANGED <<appVars, camVars, readIndex, tgen, tbuf, pollExit, drvVars, wild, histVars>>
  BY DEF CaptureSlot, CaptureIndex, Gone, Goto
<1>2. TypeOK /\ Holding /\ Promises /\ InOrder
  BY DEF FifoInv
<1>n. /\ Depth \in Nat \ {0} /\ writeIndex \in Nat /\ readIndex \in Nat /\ readIndex <= writeIndex
      /\ \A s \in Slots : fifo[s].no \in Int
      /\ writeIndex % Depth \in Slots
  BY <1>2, Numbers, SlotOf DEF TypeOK, Slots
<1>3. t \in Held /\ Held' = Held /\ tpc'[t] = "qbuf" /\ \A s \in Threads \ {t} : tpc'[s] = tpc[s]
  BY <1>1, <1>2 DEF Held, TypeOK
<1>4. fifo'[writeIndex % Depth] = tbuf[t]
      /\ \A s \in Slots : s # writeIndex % Depth => fifo'[s] = fifo[s]
  BY <1>1, <1>2, <1>n DEF TypeOK
<1>5. TypeOK'
  <2>1. tpc' \in [Threads -> ThreadPCs]
    BY <1>1, <1>2 DEF TypeOK, ThreadPCs
  <2>2. fifo' \in [Slots -> Frames] /\ writeIndex' \in Nat /\ readIndex <= writeIndex'
    BY <1>1, <1>2, <1>n DEF TypeOK
  <2>3. {pollExit', filling', wild', overrun'} \subseteq BOOLEAN
    BY <1>1, <1>2 DEF TypeOK
  <2>4. QED BY <1>1, <1>2, <2>1, <2>2, <2>3 DEF TypeOK
<1>6. Holding'
  BY <1>1, <1>2, <1>3 DEF Holding
<1>7. InFill' = InFill /\ Oldest' = Oldest /\ Round' = Round
  BY <1>1 DEF InFill, Oldest, Round
<1>8. Promises'
  <2>1. ASSUME NEW f, Promised(f) PROVE Promised(f)'
    BY <1>1, <1>7, <2>1 DEF Promised
  <2>2. ASSUME NEW s \in Slots, s < writeIndex + 1, s # writeIndex % Depth PROVE Promised(fifo[s])
    <3>1. s < writeIndex
      <4>1. s \in Nat /\ s < Depth
        BY <1>n DEF Slots
      <4>2. CASE s = writeIndex
        <5>1. writeIndex % Depth = writeIndex
          BY <1>n, <4>1, <4>2, FirstSlots
        <5>2. QED BY <2>2, <4>2, <5>1
      <4>3. QED BY <1>n, <2>2, <4>1, <4>2
    <3>2. QED BY <1>2, <3>1 DEF Promises
  <2>3. Promised(tbuf[t])
    <3>1. tbuf[t].buf \in Bufs /\ content[tbuf[t].buf] = tbuf[t].no /\ tbuf[t].no >= 0
      BY <1>2, <1>3 DEF Holding
    <3>2. tbuf[t].no \in Int
      BY <1>2, Numbers
    <3>3. QED BY <3>1, <3>2 DEF Promised
  <2>4. ASSUME NEW s \in Slots, s < writeIndex' PROVE Promised(fifo[s])'
    <3>1. ASSUME NEW f, f = fifo'[s] PROVE Promised(f)
      <4>1. CASE s = writeIndex % Depth
        BY <1>4, <2>3, <3>1, <4>1
      <4>2. CASE s # writeIndex % Depth
        BY <1>1, <1>4, <2>2, <2>4, <3>1, <4>2
      <4>3. QED BY <4>1, <4>2
    <3>2. ASSUME NEW f, f = fifo'[s] PROVE Promised(fifo[s])'
      BY <2>1, <3>1, <3>2 DEF Promised
    <3>3. QED BY <3>2
  <2>5. apc = "copy" => Promised(got)'
    BY <1>1, <1>2, <2>1 DEF Promises
  <2>6. QED BY <1>1, <2>4, <2>5 DEF Promises
<1>9. InOrder'
  <2>1. SUFFICES ASSUME Alone' PROVE InOrder'
    BY DEF InOrder
  <2>2. Alone
    BY <1>1, <2>1 DEF Alone
  <2>3. \A s \in Held : s = t
    <3>1. users \in SUBSET Threads /\ Cardinality(users) <= 1
      BY <1>2, <2>2 DEF TypeOK, Alone
    <3>2. \A r, s \in users : r = s
      BY <3>1, ThreadSets
    <3>3. QED BY <1>2, <1>3, <3>2 DEF Holding
  <2>4. tbuf[t].no = writeIndex /\ Capturing /\ ~Capturing'
    BY <1>1, <1>2, <1>3, <2>2, <2>3 DEF InOrder, Capturing
  <2>5. cam = "streaming" => Oldest = writeIndex + 1
    BY <1>2, <2>2, <2>4 DEF InOrder
  <2>6. ASSUME NEW j \in Nat, writeIndex + 1 - Depth <= j, j < writeIndex + 1
        PROVE  fifo'[j % Depth].no = j
    <3>1. CASE j = writeIndex
      BY <1>4, <2>4, <3>1
    <3>2. CASE j # writeIndex
      <4>1. writeIndex - Depth < j /\ j < writeIndex
        BY <1>n, <2>6, <3>2
      <4>2. j % Depth # writeIndex % Depth /\ j % Depth \in Slots
        BY <1>n, <4>1, DifferentSlots, SlotOf DEF Slots
      <4>3. fifo[j % Depth].no = j
        BY <1>n, <1>2, <2>2, <4>1 DEF InOrder
      <4>4. QED BY <1>4, <4>2, <4>3
    <3>3. QED BY <3>1, <3>2
  <2>7. ~overrun /\ apc = "copy" => got.no = readIndex - 1
    BY <1>2, <2>2 DEF InOrder
  <2>8. \A s \in Held' : tpc'[s] # "slot"
    BY <1>3, <2>3
  <2>9. \A j \in Nat : writeIndex' - Depth <= j /\ j < writeIndex' => fifo'[j % Depth].no = j
    <3>1. ASSUME NEW j \in Nat, writeIndex' - Depth <= j, j < writeIndex'
          PROVE  fifo'[j % Depth].no = j
      <4>1. writeIndex' = writeIndex + 1
        BY <1>1
      <4>2. writeIndex + 1 - Depth <= j /\ j < writeIndex + 1
        BY <1>n, <3>1, <4>1
      <4>3. QED BY <2>6, <4>2
    <3>2. QED BY <3>1
  <2>10. cam' = "streaming" => Oldest' = writeIndex'
    BY <1>1, <1>7, <2>5
  <2>11. QED BY <1>1, <2>4, <2>7, <2>8, <2>9, <2>10 DEF InOrder
<1>10. ASSUME cam = "streaming" PROVE Places' /\ Numbered'
  <2>1. Places /\ Numbered
    BY <1>10 DEF FifoInv
  <2>2. QED BY <1>1, <1>3, <1>7, <2>1 DEF Places, Numbered
<1>11. QED BY <1>1, <1>5, <1>6, <1>8, <1>9, <1>10 DEF FifoInv

\* It gives the buffer back.
LEMMA RequeueStep ==
    ASSUME FifoInv, FifoAssumption, NEW t \in Threads,
           tpc[t] = "qbuf", ~Gone(t), CaptureRequeue(t)
    PROVE  FifoInv'
<1> DEFINE b == tbuf[t].buf
<1>1. /\ tpc[t] = "qbuf" /\ tgen[t] = gen
      /\ cam = "streaming" => vq' = Append(vq, b)
      /\ cam # "streaming" => vq' = vq
      /\ tpc' = [tpc EXCEPT ![t] = "loop"]
      /\ UNCHANGED <<appVars, camVars, fifoVars, tgen, tbuf, pollExit, filling,
                     doneq, content, frames, wild, histVars>>
  BY DEF CaptureRequeue, Requeued, Gone, Goto
<1>2. TypeOK /\ Holding /\ Promises /\ InOrder
  BY DEF FifoInv
<1>3. /\ t \in Held /\ Held' = Held \ {t} /\ tpc'[t] = "loop"
      /\ \A s \in Threads \ {t} : tpc'[s] = tpc[s]
      /\ \A s \in Held' : s \in Held /\ tpc'[s] = tpc[s] /\ tpc[t] # "slot"
      /\ \A s \in Held : tpc[s] = "slot" => s \in Held'
  BY <1>1, <1>2 DEF Held, TypeOK
<1>4. b \in Bufs /\ content[b] = tbuf[t].no /\ t \in users
  BY <1>2, <1>3 DEF Holding
<1> HIDE DEF b
<1>5. TypeOK'
  <2>1. tpc' \in [Threads -> ThreadPCs]
    BY <1>1, <1>2 DEF TypeOK, ThreadPCs
  <2>2. vq' \in Seq(Bufs)
    <3>1. vq \in Seq(Bufs)
      BY <1>2 DEF TypeOK
    <3>2. Append(vq, b) \in Seq(Bufs)
      BY <1>4, <3>1
    <3>3. QED BY <1>1, <3>1, <3>2
  <2>3. {pollExit', filling', wild', overrun'} \subseteq BOOLEAN
    BY <1>1, <1>2 DEF TypeOK
  <2>4. QED BY <1>1, <1>2, <2>1, <2>2, <2>3 DEF TypeOK
<1>6. Holding'
  BY <1>1, <1>2, <1>3 DEF Holding
<1>7. InFill' = InFill /\ Oldest' = Oldest /\ Round' = Round
  BY <1>1 DEF InFill, Oldest, Round
<1>8. Promises'
  BY <1>1, <1>2, <1>7 DEF Promises, Promised
<1>9. Capturing' <=> Capturing
  BY <1>3 DEF Capturing
<1>10. InOrder'
  BY <1>1, <1>2, <1>3, <1>7, <1>9 DEF InOrder, Alone
<1>11. ASSUME cam = "streaming" PROVE Places' /\ Numbered'
  <2>1. Places /\ Numbered /\ vq' = Append(vq, b) /\ vq \in Seq(Bufs)
    BY <1>1, <1>2, <1>11 DEF FifoInv, TypeOK
  <2>2. ~Listed(vq, b) /\ ~Listed(doneq, b) /\ \A s \in Held' : tbuf[s].buf # b
    BY <1>3, <2>1 DEF Places, b
  <2>3. /\ Len(vq') = Len(vq) + 1 /\ Len(vq) \in Nat /\ vq'[Len(vq) + 1] = b
        /\ \A i \in 1 .. Len(vq) : vq'[i] = vq[i]
    BY <1>4, <2>1
  <2>4. /\ vq' # <<>> /\ Once(vq') /\ (vq # <<>> => Head(vq') = Head(vq))
        /\ \A c : Listed(vq', c) <=> Listed(vq, c) \/ c = b
    BY <1>4, <2>1, <2>2, AppendList DEF Places
  <2>5. /\ Cardinality(Held') = Cardinality(Held) - 1 /\ Cardinality(Held) \in Nat
        /\ Cardinality(Held) <= Cardinality(users)
    <3>1. Held \in SUBSET Threads /\ users \in SUBSET Threads /\ Held \in SUBSET users
      BY <1>2 DEF Held, Holding, TypeOK
    <3>2. QED BY <1>3, <3>1, ThreadSets
  <2>n. /\ Depth \in Nat /\ frames \in Int /\ Len(doneq) \in Nat /\ InFill \in Int /\ InFill >= 0
        /\ Oldest \in Int /\ Oldest = frames - InFill - Len(doneq)
        /\ Round \in Int /\ Round = Depth - (Cardinality(users) - 1)
        /\ Cardinality(users) \in Nat /\ tbuf[t].no \in Int /\ Len(vq) \in Nat
        /\ Cardinality(Held) \in Nat /\ Cardinality(Held) <= Cardinality(users)
        /\ Len(vq) + Len(doneq) + Cardinality(Held) = Depth
    <3>1. Len(vq) + Len(doneq) + Cardinality(Held) = Depth
      BY <2>1 DEF Places
    <3>2. InFill \in {0, 1}
      BY <1>2, Numbers
    <3>3. InFill \in Int /\ InFill >= 0
      BY <3>2
    <3>4. /\ Depth \in Nat /\ frames \in Int /\ Len(doneq) \in Nat /\ Len(vq) \in Nat
          /\ Oldest \in Int /\ Oldest = frames - InFill - Len(doneq)
          /\ Round \in Int /\ Round = Depth - (Cardinality(users) - 1)
          /\ Cardinality(users) \in Nat /\ tbuf[t].no \in Int
      BY <1>2, Numbers
    <3>5. QED BY <2>5, <3>1, <3>3, <3>4
  <2>6. Places'
    <3>1. Len(vq') + Len(doneq') + Cardinality(Held') = Depth
      BY <1>1, <2>3, <2>5, <2>n
    <3>2. \A s \in Held' : ~Listed(vq', tbuf[s].buf) /\ ~Listed(doneq, tbuf[s].buf)
      BY <1>3, <2>1, <2>2, <2>4 DEF Places
    <3>3. \A c \in Bufs : Listed(vq', c) \/ Listed(doneq, c) \/ \E s \in Held' : tbuf[s].buf = c
      BY <1>3, <2>1, <2>4 DEF Places, b
    <3>4. \A c \in Bufs : ~(Listed(vq', c) /\ Listed(doneq, c))
      BY <2>1, <2>2, <2>4 DEF Places
    <3>5. \A r, s \in Held' : tbuf[r].buf = tbuf[s].buf => r = s
      BY <1>3, <2>1 DEF Places
    <3>6. Once(doneq)
      BY <2>1 DEF Places
    <3>7. QED BY <1>1, <2>4, <3>1, <3>2, <3>3, <3>4, <3>5, <3>6 DEF Places
  <2>7. Numbered'
    <3>1. ASSUME NEW i \in InFill + 1 .. Len(vq) + 1, content[vq'[i]] >= 0
          PROVE  frames - InFill + i - 1 - content[vq'[i]] >= Round
      <4>1. CASE i = Len(vq) + 1
        <5>1. content[vq'[i]] = tbuf[t].no
          BY <1>4, <2>3, <4>1
        <5>2. tbuf[t].no < Oldest
          BY <1>3, <2>1 DEF Numbered
        <5>3. frames - InFill + (Len(vq) + 1) - 1 - tbuf[t].no >= Round
          <6>1. ASSUME NEW d \in Int, d = tbuf[t].no, NEW h \in Nat, h = Cardinality(Held),
                       NEW u \in Nat, u = Cardinality(users), NEW v \in Nat, v = Len(vq),
                       NEW w \in Nat, w = Len(doneq)
                PROVE  frames - InFill + (v + 1) - 1 - d >= Round
            <7>1. d < frames - InFill - w
              BY <2>n, <5>2, <6>1
            <7>2. v + w + h = Depth /\ h <= u /\ Round = Depth - (u - 1)
              BY <2>n, <6>1
            <7>3. Depth \in Nat /\ frames \in Int /\ InFill \in Int
              BY <2>n
            <7>4. QED BY <7>1, <7>2, <7>3
          <6>2. QED BY <2>n, <6>1
        <5>4. QED BY <4>1, <5>1, <5>3
      <4>2. CASE i # Len(vq) + 1
        <5>1. i \in InFill + 1 .. Len(vq) /\ i \in 1 .. Len(vq)
          <6>1. Len(vq) \in Nat /\ InFill \in Int /\ InFill >= 0
            BY <2>n
          <6>2. QED BY <4>2, <6>1
        <5>2. vq'[i] = vq[i]
          BY <2>3, <5>1
        <5>3. QED BY <2>1, <3>1, <5>1, <5>2 DEF Numbered
      <4>3. QED BY <4>1, <4>2
    <3>2. filling => vq' # <<>> /\ content[Head(vq')] = frames - 1
      BY <2>1, <2>4 DEF Numbered
    <3>3. \A s \in Held' : tbuf[s].no < Oldest
      BY <1>3, <2>1 DEF Numbered
    <3>4. Oldest >= 0 /\ \A i \in 1 .. Len(doneq) : content[doneq[i]] = Oldest + i - 1
      BY <2>1 DEF Numbered
    <3>5. QED BY <1>1, <1>7, <2>3, <3>1, <3>2, <3>3, <3>4 DEF Numbered
  <2>8. QED BY <2>6, <2>7
<1>12. QED BY <1>1, <1>5, <1>6, <1>8, <1>10, <1>11 DEF FifoInv
-----------------------------------------------------------------------------
\* The driver starts a frame in the first buffer that waits.
LEMMA FillStartStep ==
    ASSUME FifoInv, FifoAssumption, FillStart
    PROVE  FifoInv'
<1> DEFINE b == Head(vq)
<1>1. /\ cam = "streaming" /\ vq # <<>> /\ ~filling /\ frames < MaxFrames
      /\ filling' = TRUE
      /\ content' = [content EXCEPT ![b] = frames]
      /\ frames' = frames + 1
      /\ UNCHANGED <<appVars, camVars, fifoVars, thrVars, pollExit, vq, doneq, wild, histVars>>
  BY DEF FillStart
<1>2. TypeOK /\ Holding /\ Promises /\ InOrder /\ Places /\ Numbered
  BY <1>1 DEF FifoInv
<1>3. b \in Bufs /\ b = vq[1] /\ Len(vq) \in Nat /\ Len(vq) >= 1
  BY <1>1, <1>2 DEF TypeOK
<1> HIDE DEF b
<1>4. Listed(vq, b) /\ \A i \in 2 .. Len(vq) : vq[i] # b
  BY <1>2, <1>3 DEF Listed, Places, Once
<1>n. /\ Depth \in Nat /\ frames \in Int /\ Len(doneq) \in Nat /\ InFill = 0
      /\ Oldest \in Int /\ Oldest = frames - InFill - Len(doneq) /\ Round \in Int
  BY <1>1, <1>2, Numbers
<1>5. content'[b] = frames /\ \A c \in Bufs : c # b => content'[c] = content[c]
  BY <1>1, <1>2, <1>3 DEF TypeOK
<1>6. TypeOK'
  <2>1. frames' \in 0 .. MaxFrames
    BY <1>1, <1>2 DEF TypeOK, FifoAssumption
  <2>2. content' \in [Bufs -> Nat \cup {-1}]
    <3>1. frames \in Nat
      BY <1>2, Numbers
    <3>2. QED BY <1>1, <1>2, <3>1 DEF TypeOK
  <2>3. {pollExit', filling', wild', overrun'} \subseteq BOOLEAN
    BY <1>1, <1>2 DEF TypeOK
  <2>4. QED BY <1>1, <1>2, <2>1, <2>2, <2>3 DEF TypeOK
<1>7. Held' = Held /\ Round' = Round
  BY <1>1 DEF Held, Round
<1>8. InFill' = 1 /\ Oldest' = Oldest
  <2>1. InFill' = 1
    BY <1>1 DEF InFill
  <2>2. Oldest' = frames' - InFill' - Len(doneq')
    BY DEF Oldest
  <2>3. frames' = frames + 1 /\ Len(doneq') = Len(doneq)
    BY <1>1
  <2>4. QED BY <1>n, <2>1, <2>2, <2>3
<1>9. \A c \in Bufs : content[c] \in Int /\ content[c] < frames
  BY <1>2, Numbers DEF Holding
<1>10. \A t \in Held : tbuf[t].buf \in Bufs /\ tbuf[t].buf # b
  BY <1>2, <1>4 DEF Places, Holding
<1>11. \A i \in 1 .. Len(doneq) : doneq[i] \in Bufs /\ doneq[i] # b
  <2>1. \A i \in 1 .. Len(doneq) : doneq[i] \in Bufs
    BY <1>2 DEF TypeOK
  <2>2. ~Listed(doneq, b)
    BY <1>2, <1>3, <1>4 DEF Places
  <2>3. QED BY <2>1, <2>2 DEF Listed
<1>12. Holding'
  <2>1. \A c \in Bufs : content'[c] < frames + 1
    BY <1>n, <1>5, <1>9
  <2>2. QED BY <1>1, <1>2, <1>5, <1>7, <1>10, <2>1 DEF Holding
<1>13. Places'
  BY <1>1, <1>2, <1>7 DEF Places
<1>14. content[b] >= 0 => frames - content[b] >= Round
  <2>1. InFill + 1 = 1 /\ 1 \in 1 .. Len(vq)
    BY <1>3, <1>n
  <2>2. content[vq[1]] >= 0 => frames - InFill + 1 - 1 - content[vq[1]] >= Round
    BY <1>2, <2>1 DEF Numbered
  <2>3. QED BY <1>3, <1>n, <1>9, <2>2
<1>15. Numbered'
  <2>1. content'[Head(vq')] = frames' - 1
    BY <1>1, <1>5, <1>n DEF b
  <2>2. ASSUME NEW i \in 2 .. Len(vq), content'[vq[i]] >= 0
        PROVE  (frames + 1) - 1 + i - 1 - content'[vq[i]] >= Round
    <3>1. i \in InFill + 1 .. Len(vq) /\ i \in Int
      BY <1>3, <1>n
    <3>2. vq[i] \in Bufs /\ content'[vq[i]] = content[vq[i]] /\ content[vq[i]] \in Int
      BY <1>2, <1>3, <1>4, <1>5, <1>9 DEF TypeOK
    <3>3. frames - InFill + i - 1 - content[vq[i]] >= Round
      BY <1>2, <2>2, <3>1, <3>2 DEF Numbered
    <3>4. QED BY <1>n, <3>1, <3>2, <3>3
  <2>3. \A i \in 1 .. Len(doneq) : content'[doneq[i]] = Oldest + i - 1
    BY <1>2, <1>5, <1>11 DEF Numbered
  <2>4. Oldest >= 0 /\ \A t \in Held : tbuf[t].no < Oldest
    BY <1>2 DEF Numbered
  <2>5. InFill' + 1 = 2
    BY <1>8
  <2>6. QED BY <1>1, <1>7, <1>8, <2>1, <2>2, <2>3, <2>4, <2>5 DEF Numbered
<1>16. Promises'
  <2>1. ASSUME NEW f \in Frames, Promised(f) PROVE Promised(f)'
    <3>1. f.buf \in Bufs /\ f.no \in Int /\ f.no >= 0 /\ f.no <= content[f.buf]
      BY <2>1 DEF Promised, Frames, NoFrame
    <3>2. CASE f.buf = b
      <4>1. frames - content[b] >= Round /\ content[b] \in Int /\ content[b] < frames
        BY <1>9, <1>14, <3>1, <3>2
      <4>2. content'[f.buf] = frames /\ f.no <= content[b]
        BY <1>5, <3>1, <3>2
      <4>3. f.no <= frames /\ frames - f.no >= Round
        BY <1>n, <3>1, <4>1, <4>2
      <4>4. QED BY <1>7, <3>1, <4>2, <4>3 DEF Promised
    <3>3. CASE f.buf # b
      BY <1>5, <1>7, <2>1, <3>1, <3>3 DEF Promised
    <3>4. QED BY <3>2, <3>3
  <2>2. ASSUME NEW s \in Slots, s < writeIndex PROVE Promised(fifo[s])'
    BY <1>1, <1>2, <2>1, <2>2, Numbers DEF Promises
  <2>3. ASSUME apc = "copy" PROVE Promised(got)'
    BY <1>1, <1>2, <2>1, <2>3, Numbers DEF Promises
  <2>4. QED BY <1>1, <2>2, <2>3 DEF Promises
<1>17. Capturing' <=> Capturing
  BY <1>1, <1>7 DEF Capturing
<1>18. InOrder'
  BY <1>1, <1>2, <1>7, <1>8, <1>17 DEF InOrder, Alone
<1>19. apc' \in {"close", "delete"} => cam' # "streaming"
  BY <1>1 DEF FifoInv
<1>20. QED BY <1>1, <1>6, <1>12, <1>13, <1>15, <1>16, <1>18, <1>19 DEF FifoInv

\* The frame is complete.
LEMMA FillEndStep ==
    ASSUME FifoInv, FifoAssumption, FillEnd
    PROVE  FifoInv'
<1> DEFINE b == Head(vq)
<1>1. /\ filling /\ filling' = FALSE
      /\ doneq' = Append(doneq, b) /\ vq' = Tail(vq)
      /\ UNCHANGED <<appVars, camVars, fifoVars, thrVars, pollExit, content, frames, wild, histVars>>
  BY DEF FillEnd
<1>2. TypeOK /\ Holding /\ Promises /\ InOrder /\ Places /\ Numbered /\ cam = "streaming"
  BY <1>1 DEF FifoInv
<1>3. vq # <<>> /\ content[b] = frames - 1
  BY <1>1, <1>2 DEF Numbered
<1>4. /\ b \in Bufs /\ b = vq[1] /\ Len(vq) \in Nat /\ Len(vq) >= 1
      /\ Len(vq') = Len(vq) - 1 /\ vq' \in Seq(Bufs)
      /\ \A i \in 1 .. Len(vq) - 1 : vq'[i] = vq[i + 1]
  BY <1>1, <1>2, <1>3 DEF TypeOK
<1>5. Once(vq') /\ Listed(vq, b) /\ \A c : Listed(vq', c) <=> Listed(vq, c) /\ c # b
  <2>1. Once(vq) /\ vq \in Seq(Bufs)
    BY <1>2 DEF Places, TypeOK
  <2>2. Listed(vq, b)
    BY <1>4 DEF Listed
  <2>3. QED BY <1>1, <1>3, <2>1, <2>2, TailList
<1> HIDE DEF b
<1>6. ~Listed(doneq, b) /\ doneq \in Seq(Bufs) /\ Once(doneq)
  BY <1>2, <1>4, <1>5 DEF Places, TypeOK
<1>7. /\ doneq' \in Seq(Bufs) /\ Once(doneq')
      /\ \A c : Listed(doneq', c) <=> Listed(doneq, c) \/ c = b
  BY <1>1, <1>4, <1>6, AppendList
<1>8. /\ Len(doneq) \in Nat /\ Len(doneq') = Len(doneq) + 1 /\ doneq'[Len(doneq) + 1] = b
      /\ \A i \in 1 .. Len(doneq) : doneq'[i] = doneq[i]
  BY <1>1, <1>4, <1>6
<1>n. /\ Depth \in Nat /\ frames \in Int /\ Len(doneq) \in Nat /\ Len(vq) \in Nat /\ InFill = 1
      /\ Oldest \in Int /\ Oldest = frames - 1 - Len(doneq) /\ Round \in Int
      /\ Cardinality(Held) \in Nat
  <2>1. InFill = 1 /\ Oldest = frames - InFill - Len(doneq)
    BY <1>1, <1>2, Numbers
  <2>2. QED BY <1>2, <2>1, Numbers
<1>9. TypeOK'
  <2>1. {pollExit', filling', wild', overrun'} \subseteq BOOLEAN
    BY <1>1, <1>2 DEF TypeOK
  <2>2. QED BY <1>1, <1>2, <1>4, <1>7, <2>1 DEF TypeOK
<1>10. Held' = Held /\ Round' = Round
  BY <1>1 DEF Held, Round
<1>11. InFill' = 0 /\ Oldest' = Oldest
  <2>1. InFill' = 0
    BY <1>1 DEF InFill
  <2>2. Oldest' = frames' - InFill' - Len(doneq')
    BY DEF Oldest
  <2>3. frames' = frames
    BY <1>1
  <2>4. QED BY <1>8, <1>n, <2>1, <2>2, <2>3
<1>12. Holding'
  BY <1>1, <1>2, <1>10 DEF Holding
<1>13. Places'
  <2>1. Len(vq') + Len(doneq') + Cardinality(Held') = Depth
    <3>1. Len(vq) + Len(doneq) + Cardinality(Held) = Depth
      BY <1>2 DEF Places
    <3>2. Len(vq') = Len(vq) - 1 /\ Len(doneq') = Len(doneq) + 1 /\ Cardinality(Held') = Cardinality(Held)
      BY <1>4, <1>8, <1>10
    <3>3. QED BY <1>n, <3>1, <3>2
  <2>2. \A c \in Bufs : ~(Listed(vq', c) /\ Listed(doneq', c))
    BY <1>2, <1>5, <1>7 DEF Places
  <2>3. \A t \in Held : ~Listed(vq', tbuf[t].buf) /\ ~Listed(doneq', tbuf[t].buf)
    BY <1>2, <1>5, <1>7 DEF Places
  <2>4. \A c \in Bufs : Listed(vq', c) \/ Listed(doneq', c) \/ \E t \in Held : tbuf[t].buf = c
    BY <1>2, <1>5, <1>7 DEF Places
  <2>5. \A s, t \in Held : tbuf[s].buf = tbuf[t].buf => s = t
    BY <1>2 DEF Places
  <2>6. tbuf' = tbuf /\ Once(vq') /\ Once(doneq')
    BY <1>1, <1>5, <1>7
  <2>7. QED BY <1>10, <2>1, <2>2, <2>3, <2>4, <2>5, <2>6 DEF Places
<1>14. Numbered'
  <2>1. ASSUME NEW i \in 1 .. Len(doneq) + 1 PROVE content[doneq'[i]] = Oldest + i - 1
    <3>1. CASE i = Len(doneq) + 1
      <4>1. content[doneq'[i]] = frames - 1
        BY <1>3, <1>8, <3>1
      <4>2. QED BY <1>n, <3>1, <4>1
    <3>2. CASE i # Len(doneq) + 1
      <4>1. i \in 1 .. Len(doneq)
        BY <1>n, <3>2
      <4>2. QED BY <1>2, <1>8, <4>1 DEF Numbered
    <3>3. QED BY <3>1, <3>2
  <2>2. ASSUME NEW i \in 1 .. Len(vq) - 1, content[vq'[i]] >= 0
        PROVE  frames - 0 + i - 1 - content[vq'[i]] >= Round
    <3>1. vq'[i] = vq[i + 1] /\ i + 1 \in InFill + 1 .. Len(vq) /\ i \in Int /\ i + 1 \in 1 .. Len(vq)
      BY <1>4, <1>n
    <3>2. content[vq[i + 1]] \in Int
      <4>1. vq[i + 1] \in Bufs
        BY <1>2, <3>1 DEF TypeOK
      <4>2. QED BY <1>2, <4>1, Numbers
    <3>3. frames - InFill + (i + 1) - 1 - content[vq[i + 1]] >= Round
      BY <1>2, <2>2, <3>1 DEF Numbered
    <3>4. frames - 0 + i - 1 - content[vq[i + 1]] >= Round
      <4>1. ASSUME NEW x \in Int, frames - InFill + (i + 1) - 1 - x >= Round
            PROVE  frames - 0 + i - 1 - x >= Round
        BY <1>n, <3>1, <4>1
      <4>2. QED BY <3>2, <3>3, <4>1
    <3>5. QED BY <3>1, <3>4
  <2>3. Oldest >= 0 /\ \A t \in Held : tbuf[t].no < Oldest
    BY <1>2 DEF Numbered
  <2>4. InFill' + 1 = 1 /\ ~filling'
    BY <1>1, <1>11
  <2>5. QED BY <1>1, <1>4, <1>8, <1>10, <1>11, <2>1, <2>2, <2>3, <2>4 DEF Numbered
<1>15. Promises'
  BY <1>1, <1>2, <1>10 DEF Promises, Promised
<1>16. Capturing' <=> Capturing
  BY <1>1, <1>10 DEF Capturing
<1>17. InOrder'
  BY <1>1, <1>2, <1>10, <1>11, <1>16 DEF InOrder, Alone
<1>18. apc' \in {"close", "delete"} => cam' # "streaming"
  BY <1>1 DEF FifoInv
<1>19. QED BY <1>1, <1>2, <1>9, <1>12, <1>13, <1>14, <1>15, <1>17, <1>18 DEF FifoInv
-----------------------------------------------------------------------------
LEMMA InitHolds == FifoAssumption /\ Init => FifoInv /\ Beginning
<1> SUFFICES ASSUME FifoAssumption, Init PROVE FifoInv /\ Beginning
  OBVIOUS
<1> USE DEF Init
<1>1. TypeOK
  <2>1. /\ got \in Frames /\ fifo \in [Slots -> Frames] /\ tbuf \in [Threads -> Frames]
        /\ gen \in 0 .. MaxInits /\ frames \in 0 .. MaxFrames
    BY DEF Frames, FifoAssumption
  <2>2. tpc \in [Threads -> ThreadPCs] /\ tgen \in [Threads -> 0 .. MaxInits]
    BY DEF ThreadPCs, FifoAssumption
  <2>3. vq \in Seq(Bufs) /\ doneq \in Seq(Bufs) /\ content \in [Bufs -> Nat \cup {-1}]
    OBVIOUS
  <2>4. {pollExit, filling, wild, overrun} \subseteq BOOLEAN
    OBVIOUS
  <2>5. QED BY <2>1, <2>2, <2>3, <2>4 DEF TypeOK
<1>2. Held = {}
  BY DEF Held
<1>3. Holding
  BY <1>2 DEF Holding
<1>4. Promises
  BY DEF Promises, Slots
<1>5. InOrder
  BY <1>2 DEF InOrder
<1>6. FifoInv
  BY <1>1, <1>3, <1>4, <1>5 DEF FifoInv
<1>7. Beginning
  BY DEF Beginning
<1>8. QED BY <1>6, <1>7

\* Threads do not touch a camera that was not started, and come when they are created.
LEMMA BeginningKept ==
    ASSUME FifoInv, FifoAssumption, Beginning, [Next]_vars
    PROVE  Beginning'
<1>1. TypeOK /\ gen \in Nat /\ \A t \in Threads : tgen[t] \in Nat /\ tgen[t] <= gen
  <2>1. TypeOK /\ Holding
    BY DEF FifoInv
  <2>2. gen \in Nat
    BY <2>1, Numbers
  <2>3. \A t \in Threads : tgen[t] \in Nat /\ tgen[t] <= gen
    BY <2>1 DEF TypeOK, Holding
  <2>4. QED BY <2>1, <2>2, <2>3
<1> DEFINE Others(t) == \A s \in Threads \ {t} : tpc'[s] = tpc[s]
<1>2. CASE CameraInit
  <2>1. Held' = {}
    BY <1>1, <1>2 DEF CameraInit, Held
  <2>2. QED BY <1>1, <1>2, <2>1 DEF CameraInit, Beginning, Threads
<1>3. CASE CameraOpen \/ CameraOpenFails
  BY <1>3 DEF CameraOpen, CameraOpenFails, Advance, Beginning, Held
<1>4. CASE CameraStart
  BY <1>4 DEF CameraStart, Advance, Beginning
<1>5. CASE CreateThread
  BY <1>1, <1>5 DEF CreateThread, Advance, Beginning, TypeOK
<1>6. CASE GetYuvFrame \/ CopyFrame \/ DestroyFlag \/ CameraStop \/ CameraClose \/ DeleteCamera
  <2>1. /\ UNCHANGED <<gen, thrVars>>
        /\ apc' \in {"in", "copy", "stop", "close", "delete", "out"}
    BY <1>6 DEF GetYuvFrame, CopyFrame, DestroyFlag, CameraStop, CameraClose, DeleteCamera, Destroy
  <2>2. apc \notin {"open", "start", "thread"}
    BY <1>6 DEF GetYuvFrame, CopyFrame, DestroyFlag, CameraStop, CameraClose, DeleteCamera, Destroy
  <2>3. QED BY <2>1, <2>2 DEF Beginning
<1>7. ASSUME NEW t \in Threads, Poll(t) PROVE Beginning'
  <2>1. tpc[t] # "none" /\ Others(t) /\ UNCHANGED <<apc, camVars>>
    BY <1>1, <1>7 DEF Poll, PollBegin, PollLoop, PollSelect, CaptureDequeue, CaptureSlot,
       CaptureRequeue, Goto, Astray, TypeOK
  <2>2. ASSUME apc \in {"open", "start"} PROVE UNCHANGED <<Held, frames, writeIndex, content>>
    <3>1. cam # "streaming" /\ doneq = <<>> /\ t \notin Held
      BY <2>2 DEF Beginning, FifoInv
    <3>2. CASE UNCHANGED <<thrVars, frames, writeIndex, content>>
      BY <2>1, <3>2 DEF Held
    <3>3. CASE PollBegin(t) \/ PollLoop(t) \/ PollSelect(t) \/ CaptureDequeue(t)
      <4>1. UNCHANGED <<frames, writeIndex, content>>
        BY <3>1, <3>3 DEF PollBegin, PollLoop, PollSelect, CaptureDequeue, Astray
      <4>2. /\ \A s \in Threads \ {t} : UNCHANGED <<tgen[s], tpc[s]>>
            /\ \/ UNCHANGED thrVars
               \/ tpc[t] \notin {"slot", "qbuf"} /\ tpc'[t] \notin {"slot", "qbuf"}
        BY <1>1, <3>1, <3>3 DEF PollBegin, PollLoop, PollSelect, CaptureDequeue, Astray, Goto, TypeOK
      <4>3. Held' = Held
        BY <2>1, <4>2 DEF Held
      <4>4. QED BY <4>1, <4>3
    <3>4. CASE CaptureSlot(t) \/ CaptureRequeue(t)
      <4>1. tpc[t] \in {"slot", "qbuf"} /\ Gone(t)
        BY <3>1, <3>4 DEF CaptureSlot, CaptureRequeue, Gone, Held
      <4>2. Astray
        BY <3>4, <4>1 DEF CaptureSlot, CaptureRequeue
      <4>3. QED BY <3>2, <4>2 DEF Astray
    <3>5. QED BY <1>7, <3>3, <3>4 DEF Poll
  <2>3. QED BY <1>1, <2>1, <2>2 DEF Beginning
<1>8. CASE Driver
  <2>1. cam = "streaming" /\ UNCHANGED <<appVars, camVars, thrVars>>
    BY <1>8 DEF Driver, FillStart, FillEnd, FifoInv
  <2>2. QED BY <2>1 DEF Beginning
<1>9. CASE UNCHANGED vars
  BY <1>9 DEF Beginning, Held
<1>10. QED BY <1>2, <1>3, <1>4, <1>5, <1>6, <1>7, <1>8, <1>9 DEF Next, Application

LEMMA NextHolds == FifoAssumption /\ FifoInv /\ Beginning /\ [Next]_vars => FifoInv' /\ Beginning'
<1> SUFFICES ASSUME FifoAssumption, FifoInv, Beginning, [Next]_vars PROVE FifoInv'
  BY BeginningKept
<1>1. CASE Application \/ UNCHANGED vars
  BY <1>1, QuietApplication, StopStep, InitStep, StartStep, CreateStep, GetStep DEF Application
<1>2. ASSUME NEW t \in Threads, Poll(t) PROVE FifoInv'
  <2>1. CASE PollBegin(t) \/ PollLoop(t) \/ PollSelect(t) \/ Astray
    BY <2>1, QuietPoll
  <2>2. CASE CaptureDequeue(t)
    <3>1. CASE doneq = <<>>
      BY <2>2, <3>1, QuietPoll
    <3>2. CASE doneq # <<>> /\ ~Gone(t)
      BY <2>2, <3>2, DequeueStep DEF CaptureDequeue
    <3>3. QED BY <2>1, <2>2, <3>1, <3>2 DEF CaptureDequeue
  <2>3. CASE CaptureSlot(t)
    BY <2>1, <2>3, SlotStep DEF CaptureSlot
  <2>4. CASE CaptureRequeue(t)
    BY <2>1, <2>4, RequeueStep DEF CaptureRequeue
  <2>5. QED BY <1>2, <2>1, <2>2, <2>3, <2>4 DEF Poll
<1>3. CASE Driver
  BY <1>3, FillStartStep, FillEndStep DEF Driver
<1>4. QED BY <1>1, <1>2, <1>3 DEF Next

\* A buffer is in a list once, if it is listed.
LEMMA CountOf ==
    ASSUME NEW q \in Seq(Bufs), Once(q), NEW b
    PROVE  /\ Listed(q, b) => Cardinality({p \in DOMAIN q : q[p] = b}) = 1
           /\ ~Listed(q, b) => Cardinality({p \in DOMAIN q : q[p] = b}) = 0
<1>1. DOMAIN q = 1 .. Len(q)
  OBVIOUS
<1>2. ASSUME Listed(q, b) PROVE Cardinality({p \in DOMAIN q : q[p] = b}) = 1
  <2>1. PICK i \in 1 .. Len(q) : q[i] = b
    BY <1>2 DEF Listed
  <2>2. {p \in DOMAIN q : q[p] = b} = {i}
    BY <1>1, <2>1 DEF Once
  <2>3. QED BY <2>2, FS_Singleton
<1>3. ASSUME ~Listed(q, b) PROVE Cardinality({p \in DOMAIN q : q[p] = b}) = 0
  <2>1. {p \in DOMAIN q : q[p] = b} = {}
    BY <1>1, <1>3 DEF Listed
  <2>2. QED BY <2>1, FS_EmptySet
<1>4. QED BY <1>2, <1>3

LEMMA InvConserves == FifoInv => BuffersConserved
<1> SUFFICES ASSUME FifoInv PROVE BuffersConserved
  OBVIOUS
<1>1. TypeOK
  BY DEF FifoInv
<1>2. ASSUME cam = "streaming", NEW b \in Bufs
      PROVE  Cardinality({p \in DOMAIN vq : vq[p] = b})
             + Cardinality({p \in DOMAIN doneq : doneq[p] = b})
             + Cardinality({t \in Held : tbuf[t].buf = b}) = 1
  <2>1. Places /\ vq \in Seq(Bufs) /\ doneq \in Seq(Bufs)
    BY <1>1, <1>2 DEF FifoInv, TypeOK
  <2> DEFINE inVq == Cardinality({p \in DOMAIN vq : vq[p] = b})
             inDone == Cardinality({p \in DOMAIN doneq : doneq[p] = b})
             holders == {t \in Held : tbuf[t].buf = b}
  <2>2. (Listed(vq, b) => inVq = 1) /\ (~Listed(vq, b) => inVq = 0)
    BY <2>1, CountOf DEF Places
  <2>3. (Listed(doneq, b) => inDone = 1) /\ (~Listed(doneq, b) => inDone = 0)
    BY <2>1, CountOf DEF Places
  <2>4. holders # {} => Cardinality(holders) = 1
    <3>1. ASSUME NEW t \in holders PROVE holders = {t}
      BY <2>1, <3>1 DEF Places
    <3>2. QED BY <3>1, FS_Singleton
  <2>5. holders = {} => Cardinality(holders) = 0
    BY FS_EmptySet
  <2>6. /\ ~(Listed(vq, b) /\ Listed(doneq, b))
        /\ holders # {} => ~Listed(vq, b) /\ ~Listed(doneq, b)
        /\ Listed(vq, b) \/ Listed(doneq, b) \/ holders # {}
    BY <2>1 DEF Places
  <2> HIDE DEF inVq, inDone, holders
  <2>7. inVq + inDone + Cardinality(holders) = 1
    <3>1. CASE Listed(vq, b)
      BY <2>2, <2>3, <2>5, <2>6, <3>1
    <3>2. CASE Listed(doneq, b)
      BY <2>2, <2>3, <2>5, <2>6, <3>2
    <3>3. CASE holders # {}
      BY <2>2, <2>3, <2>4, <2>6, <3>3
    <3>4. QED BY <2>6, <3>1, <3>2, <3>3
  <2>8. QED BY <2>7 DEF inVq, inDone, holders
<1>3. QED BY <1>1, <1>2 DEF BuffersConserved

\* BuffersConserved: as long as the camera streams, each buffer is with the driver,
\* done, or with one thread that is about to give it back, and in no second place
\* (Camera::CameraCapture, pcie_camera_init).
THEOREM NoBufferLost == ASSUME FifoAssumption PROVE Spec => []BuffersConserved
<1>1. Init => FifoInv /\ Beginning
  BY InitHolds
<1>2. FifoInv /\ Beginning /\ [Next]_vars => FifoInv' /\ Beginning'
  BY NextHolds
<1>3. FifoInv => BuffersConserved
  BY InvConserves
<1>4. QED BY <1>1, <1>2, <1>3, PTL DEF Spec

\* FramesHold: one capturing thread's frames are returned once and in order until the
\* reader is overtaken, and what is copied out of a buffer is the frame promised,
\* unless the driver has been once round the buffers (Camera::getYuvFrame).
THEOREM FramesInOrder == ASSUME FifoAssumption PROVE Spec => FramesHold
<1>1. Init => FifoInv /\ Beginning
  BY InitHolds
<1>2. FifoInv /\ Beginning /\ [Next]_vars => FifoInv' /\ Beginning'
  BY NextHolds
<1>3. FifoInv => InOrderUntilOverrun
  BY DEF FifoInv, InOrder, InOrderUntilOverrun
<1>4. FifoInv => CopiesIntact
  BY DEF FifoInv, Promises, Promised, Round, CopiesIntact
<1>5. FifoInv /\ FifoInv' => [InOrderUntilOverrun' /\ CopiesIntact]_vars
  BY <1>3, <1>4, PTL
<1>6. QED BY <1>1, <1>2, <1>5, PTL DEF Spec, FramesHold
-----------------------------------------------------------------------------
\* The format of the node (VideoFormat).

Frame == Format!FrameBytes(hsize)

\* The type invariant, variable by variable.
FormatTyped ==
    /\ cardSize \in CardSizes /\ hsize \in CardSizes /\ size \in CardSizes \cup AskedSizes
    /\ format \in Known \cup {None} /\ owner \in {"library", "program", None}
    /\ bufs \in Seq([len : Nat, payload : Nat, queued : BOOLEAN])
    /\ streaming \in BOOLEAN /\ oops \in BOOLEAN /\ odd \in BOOLEAN /\ meddled \in BOOLEAN
    /\ hpc \in {"closed", "try", "set", "req", "map", "queue", "start", "capture", "look"}
    /\ hlen \in Seq(Nat) /\ hi \in 1 .. Fifo

\* The format is unknown only after an odd call.
OddCalls == oops \/ format = None => odd

\* The library queues no more buffers than it has places for.
QueuedHere == owner = "library" => \A i \in DOMAIN bufs : bufs[i].queued => i <= Fifo

\* Nobody sets another format once the library has set its own, ...
SizeKept ==
    hpc \in {"req", "map", "queue", "start", "capture", "look"} /\ ~meddled => size = hsize

\* ... and the buffers it has asked for stay its own, ...
BuffersKept ==
    hpc \in {"map", "queue", "start", "capture", "look"} /\ ~meddled =>
        /\ owner = "library" /\ Len(bufs) >= 3 /\ Len(bufs) >= Fifo
        /\ \A i \in DOMAIN bufs : /\ bufs[i].len = Frame
                                  /\ bufs[i].queued => bufs[i].payload = Frame

\* ... mapped one after the other.
Mapped ==
    hpc \in {"map", "queue", "start", "capture", "look"} /\ ~meddled =>
        /\ Len(hlen) = (IF hpc = "map" THEN hi - 1 ELSE Fifo)
        /\ \A i \in DOMAIN hlen : hlen[i] = Frame

\* The buffer the library looks at holds a frame.
Looked ==
    hpc = "look" /\ ~meddled => hi \in DOMAIN bufs /\ bufs[hi].payload = Frame

\* In words: the format is there when buffers are, the buffers of the library are its
\* own from the request to the end unless it was meddled with, and what it mapped of
\* them is what it looks at.
FormatInv ==
    /\ FormatTyped /\ Format!BuffersFit /\ OddCalls /\ QueuedHere
    /\ SizeKept /\ BuffersKept /\ Mapped /\ Looked

Buffers == [len : Nat, payload : Nat, queued : BOOLEAN]

LEMMA FormatConstants ==
  /\ None \notin Known /\ None \notin {"library", "program"}
  /\ Fifo \in Nat \ {0} /\ Word \in Nat \ {0}
  /\ AskedSizes \subseteq Nat \X Nat /\ CardSizes \subseteq Nat \X Nat
BY CameraAssumption DEF Format!FormatAssumption

\* What a frame of the card takes, and where the library looks for the exposure.
LEMMA FrameOfCard ==
  ASSUME NEW s \in CardSizes
  PROVE  Format!Exposure(s) < Format!FrameBytes(s)
<1>1. /\ s[1] \in Nat \ {0} /\ s[2] \in Nat \ {0} /\ s[1] * s[2] * 16 < Word
      /\ Word \in Nat \ {0}
  BY CameraAssumption DEF Format!FormatAssumption
<1> DEFINE w == s[1]
           h == s[2]
           p == w * h
<1>2. w \in Nat \ {0} /\ h \in Nat \ {0} /\ p \in Nat
  BY <1>1
<1>3. w * (h - 1) = p - w
  BY <1>2
<1> HIDE DEF w, h, p
<1>4. p * 16 < Word /\ p \in Nat /\ Word \in Nat \ {0}
  BY <1>1, <1>2 DEF w, h, p
<1>5. (p * 16) % Word = p * 16
  BY <1>4
<1>6. (p * 16) \div 8 = p * 2
  BY <1>4
<1>7. Format!FrameBytes(s) = p * 2
  BY <1>5, <1>6 DEF Format!FrameBytes, w, h, p
<1>8. Format!Exposure(s) = w * (h - 1) * 2 + 1
  BY DEF Format!Exposure, w, h
<1>9. QED BY <1>2, <1>3, <1>4, <1>7, <1>8

LEMMA FrameIsNat ==
  \A s \in CardSizes \cup AskedSizes : Format!FrameBytes(s) \in Nat
<1> SUFFICES ASSUME NEW s \in CardSizes \cup AskedSizes PROVE Format!FrameBytes(s) \in Nat
  OBVIOUS
<1>1. s[1] \in Nat /\ s[2] \in Nat
  BY FormatConstants
<1> DEFINE n == s[1] * s[2] * 16
<1>2. n \in Nat
  BY <1>1
<1> HIDE DEF n
<1>3. n % Word \in Nat
  BY <1>2, FormatConstants
<1>4. QED BY <1>3 DEF Format!FrameBytes, n

\* Buffers whose requests change keep their number and their lengths.
LEMMA Reshaped ==
  ASSUME bufs \in Seq(Buffers), NEW b, b \in [DOMAIN bufs -> Buffers]
  PROVE  b \in Seq(Buffers) /\ Len(b) = Len(bufs) /\ DOMAIN b = DOMAIN bufs
<1>1. DOMAIN bufs = 1 .. Len(bufs) /\ Len(bufs) \in Nat
  BY LenProperties
<1>2. QED BY <1>1

LEMMA BufferFields ==
  ASSUME bufs \in Seq(Buffers)
  PROVE  /\ DOMAIN bufs = 1 .. Len(bufs) /\ Len(bufs) \in Nat
         /\ bufs \in [DOMAIN bufs -> Buffers]
         /\ \A i \in DOMAIN bufs :
              /\ bufs[i] \in Buffers /\ bufs[i].len \in Nat /\ bufs[i].payload \in Nat
              /\ bufs[i].queued \in BOOLEAN
<1>1. DOMAIN bufs = 1 .. Len(bufs) /\ Len(bufs) \in Nat /\ bufs \in [DOMAIN bufs -> Buffers]
  BY LenProperties
<1>2. QED BY <1>1 DEF Buffers

\* A step that gives one buffer to the channel, takes some from it, or does nothing.
Given(f, i) ==
  /\ bufs' \in Seq(Buffers) /\ Len(bufs') = Len(bufs) /\ DOMAIN bufs' = DOMAIN bufs
  /\ \A j \in DOMAIN bufs :
       /\ bufs'[j].len = bufs[j].len
       /\ bufs'[j] # bufs[j] =>
            /\ owner = f
            /\ \/ bufs'[j].payload = bufs[j].payload /\ ~bufs'[j].queued
               \/ j = i /\ bufs'[j].payload = Format!FrameBytes(size)

LEMMA QueueBufferGives ==
  ASSUME FormatTyped, NEW f, NEW i, Format!QueueBuffer(f, i)
  PROVE  Given(f, i)
<1>1. /\ bufs \in Seq(Buffers) /\ Format!FrameBytes(size) \in Nat
  BY FrameIsNat DEF FormatTyped, Buffers
<1>2. CASE UNCHANGED bufs
  BY <1>1, <1>2 DEF Given
<1>3. CASE /\ i \in DOMAIN bufs /\ owner = f
           /\ bufs' = [bufs EXCEPT ![i] = [@ EXCEPT !.payload = Format!FrameBytes(size),
                                                    !.queued = TRUE]]
  <2>1. bufs' \in [DOMAIN bufs -> Buffers]
    BY <1>1, <1>3, BufferFields DEF Buffers
  <2>2. bufs' \in Seq(Buffers) /\ Len(bufs') = Len(bufs) /\ DOMAIN bufs' = DOMAIN bufs
    BY <1>1, <2>1, Reshaped
  <2>3. ASSUME NEW j \in DOMAIN bufs
        PROVE  /\ bufs'[j].len = bufs[j].len
               /\ bufs'[j] # bufs[j] =>
                    j = i /\ bufs'[j].payload = Format!FrameBytes(size)
    BY <1>1, <1>3, BufferFields DEF Buffers
  <2>4. QED BY <1>3, <2>2, <2>3 DEF Given
<1>4. QED BY <1>2, <1>3 DEF Format!QueueBuffer

LEMMA TakingGives ==
  ASSUME FormatTyped, NEW f, NEW i, owner = f, NEW k \in DOMAIN bufs,
         bufs' = [bufs EXCEPT ![k].queued = FALSE]
  PROVE  /\ Given(f, i)
         /\ \A j \in DOMAIN bufs : bufs'[j].payload = bufs[j].payload
<1>1. bufs \in Seq(Buffers)
  BY DEF FormatTyped, Buffers
<1>2. bufs' \in [DOMAIN bufs -> Buffers]
  BY <1>1, BufferFields DEF Buffers
<1>3. bufs' \in Seq(Buffers) /\ Len(bufs') = Len(bufs) /\ DOMAIN bufs' = DOMAIN bufs
  BY <1>1, <1>2, Reshaped
<1>4. ASSUME NEW j \in DOMAIN bufs
      PROVE  /\ bufs'[j].len = bufs[j].len /\ bufs'[j].payload = bufs[j].payload
             /\ bufs'[j] # bufs[j] => ~bufs'[j].queued
  BY <1>1, BufferFields DEF Buffers
<1>5. QED BY <1>3, <1>4 DEF Given

\* What is left of the buffers' part of the invariant after such a step.
LEMMA GivenKeeps ==
  ASSUME FormatTyped, Format!BuffersFit, QueuedHere, BuffersKept, SizeKept,
         NEW f, NEW i, Given(f, i), f = "library" => i <= Fifo,
         UNCHANGED <<format, size, owner, hsize, meddled>>,
         hpc' \in {"map", "queue", "start", "capture", "look"} =>
             hpc \in {"map", "queue", "start", "capture", "look"}
  PROVE  Format!BuffersFit' /\ QueuedHere' /\ BuffersKept'
<1>1. /\ bufs \in Seq(Buffers) /\ bufs' \in Seq(Buffers) /\ Len(bufs') = Len(bufs)
      /\ DOMAIN bufs' = DOMAIN bufs /\ DOMAIN bufs = 1 .. Len(bufs) /\ Len(bufs) \in Nat
      /\ \A j \in DOMAIN bufs : bufs'[j].len = bufs[j].len
      /\ \A j \in DOMAIN bufs : bufs'[j] # bufs[j] =>
            /\ owner = f
            /\ \/ bufs'[j].payload = bufs[j].payload /\ ~bufs'[j].queued
               \/ j = i /\ bufs'[j].payload = Format!FrameBytes(size)
  BY BufferFields DEF FormatTyped, Buffers, Given
<1>2. bufs' = <<>> <=> bufs = <<>>
  BY <1>1, EmptySeq
<1>3. \A s : Format!FrameBytes(s)' = Format!FrameBytes(s)
  BY DEF Format!FrameBytes
<1>4. Format!BuffersFit'
  <2>1. SUFFICES ASSUME bufs # <<>>
        PROVE  /\ format' # None /\ owner' # None /\ Len(bufs') >= 3
               /\ \A j \in DOMAIN bufs : /\ bufs'[j].len >= Format!FrameBytes(size)
                                         /\ bufs'[j].payload \in {0, Format!FrameBytes(size)}
    BY <1>1, <1>2, <1>3 DEF Format!BuffersFit
  <2>2. /\ format # None /\ owner # None /\ Len(bufs) >= 3
        /\ \A j \in DOMAIN bufs : /\ bufs[j].len >= Format!FrameBytes(size)
                                  /\ bufs[j].payload \in {0, Format!FrameBytes(size)}
    BY <2>1 DEF Format!BuffersFit
  <2>3. ASSUME NEW j \in DOMAIN bufs
        PROVE  /\ bufs'[j].len >= Format!FrameBytes(size)
               /\ bufs'[j].payload \in {0, Format!FrameBytes(size)}
    <3>1. CASE bufs'[j] = bufs[j]
      BY <2>2, <3>1
    <3>2. CASE bufs'[j] # bufs[j]
      BY <1>1, <2>2, <3>2
    <3>3. QED BY <3>1, <3>2
  <2>4. QED BY <1>1, <2>2, <2>3
<1>5. QueuedHere'
  <2>1. ASSUME owner = "library", NEW j \in DOMAIN bufs, bufs'[j].queued PROVE j <= Fifo
    <3>1. CASE bufs'[j] = bufs[j]
      BY <2>1, <3>1 DEF QueuedHere
    <3>2. CASE bufs'[j] # bufs[j]
      BY <1>1, <2>1, <3>2
    <3>3. QED BY <3>1, <3>2
  <2>2. QED BY <1>1, <2>1 DEF QueuedHere
<1>6. BuffersKept'
  <2>1. SUFFICES ASSUME hpc \in {"map", "queue", "start", "capture", "look"}, ~meddled
        PROVE  /\ owner = "library" /\ Len(bufs') >= 3 /\ Len(bufs') >= Fifo
               /\ \A j \in DOMAIN bufs : /\ bufs'[j].len = Frame
                                         /\ bufs'[j].queued => bufs'[j].payload = Frame
    BY <1>1, <1>3 DEF BuffersKept, Frame
  <2>2. /\ owner = "library" /\ Len(bufs) >= 3 /\ Len(bufs) >= Fifo /\ size = hsize
        /\ \A j \in DOMAIN bufs : /\ bufs[j].len = Frame
                                  /\ bufs[j].queued => bufs[j].payload = Frame
    BY <2>1 DEF BuffersKept, SizeKept
  <2>3. ASSUME NEW j \in DOMAIN bufs, bufs'[j].queued PROVE bufs'[j].payload = Frame
    <3>1. CASE bufs'[j] = bufs[j]
      BY <2>2, <2>3, <3>1
    <3>2. CASE bufs'[j] # bufs[j]
      BY <1>1, <2>2, <2>3, <3>2 DEF Frame
    <3>3. QED BY <3>1, <3>2
  <2>4. QED BY <1>1, <2>2, <2>3
<1>7. QED BY <1>4, <1>5, <1>6

\* The other program leaves the library's buffers alone.
LEMMA ProgramApart ==
  ASSUME FormatInv, UNCHANGED <<hpc, hsize, hlen, hi>>, meddled => meddled',
         owner = "library" /\ bufs # <<>> => UNCHANGED <<bufs, owner, size>>,
         hpc = "req" /\ ~meddled' => size' = size
  PROVE  SizeKept' /\ BuffersKept' /\ Mapped' /\ Looked'
<1>1. \A s : Format!FrameBytes(s)' = Format!FrameBytes(s)
  BY DEF Format!FrameBytes
<1>2. Frame' = Frame
  BY <1>1 DEF Frame
<1>3. hpc \in {"map", "queue", "start", "capture", "look"} /\ ~meddled' =>
        ~meddled /\ UNCHANGED <<bufs, owner, size>>
  BY EmptySeq DEF FormatInv, BuffersKept
<1>4. SizeKept'
  BY <1>3 DEF FormatInv, SizeKept
<1>5. BuffersKept'
  BY <1>2, <1>3 DEF FormatInv, BuffersKept
<1>6. Mapped'
  BY <1>2, <1>3 DEF FormatInv, Mapped
<1>7. Looked'
  BY <1>2, <1>3 DEF FormatInv, Looked
<1>8. QED BY <1>4, <1>5, <1>6, <1>7

LEMMA ProgramSetsFormatStep ==
  ASSUME FormatInv, ~oops, Format!ProgramSetsFormat PROVE  FormatInv'
<1>1. PICK code \in Known \cup {None}, s \in AskedSizes :
        /\ Format!SetFormat(code, s)
        /\ odd' = IF bufs # <<>> THEN odd ELSE code \notin Known
  BY DEF Format!ProgramSetsFormat, Format!Busy
<1>2. /\ meddled' = (meddled \/ (hpc = "req" /\ bufs = <<>>))
      /\ UNCHANGED <<cardSize, owner, bufs, streaming, oops, hpc, hsize, hlen, hi>>
  BY DEF Format!ProgramSetsFormat, Format!Busy, Format!vb2Vars, Format!halVars
<1>3. IF bufs # <<>> THEN UNCHANGED <<format, size>>
      ELSE /\ format' = IF code \in Known THEN code ELSE None
           /\ size' = IF code \in Known THEN s ELSE size
  BY <1>1 DEF Format!SetFormat, Format!Busy
<1>4. FormatTyped'
  <2>1. meddled' \in BOOLEAN /\ odd' \in BOOLEAN
    BY <1>1, <1>2 DEF FormatInv, FormatTyped
  <2>2. QED BY <1>1, <1>2, <1>3, <2>1 DEF FormatInv, FormatTyped
<1>5. Format!BuffersFit'
  BY <1>2, <1>3 DEF FormatInv, Format!BuffersFit, Format!FrameBytes
<1>6. OddCalls'
  <2>1. CASE bufs # <<>>
    BY <1>1, <1>2, <1>3, <2>1 DEF FormatInv, OddCalls
  <2>2. CASE bufs = <<>> /\ code \in Known
    BY <1>2, <1>3, <2>2, FormatConstants DEF OddCalls
  <2>3. CASE bufs = <<>> /\ code \notin Known
    BY <1>1, <2>3 DEF OddCalls
  <2>4. QED BY <2>1, <2>2, <2>3
<1>7. QueuedHere'
  BY <1>2 DEF FormatInv, QueuedHere
<1>8. SizeKept' /\ BuffersKept' /\ Mapped' /\ Looked'
  <2>1. meddled => meddled'
    BY <1>2
  <2>2. hpc = "req" /\ ~meddled' => size' = size
    BY <1>2, <1>3
  <2>3. owner = "library" /\ bufs # <<>> => UNCHANGED <<bufs, owner, size>>
    BY <1>2, <1>3
  <2>4. UNCHANGED <<hpc, hsize, hlen, hi>>
    BY <1>2
  <2>5. QED BY <2>1, <2>2, <2>3, <2>4, ProgramApart
<1>9. QED BY <1>4, <1>5, <1>6, <1>7, <1>8, Zenon DEF FormatInv

LEMMA CrashStep ==
  ASSUME FormatInv, oops' = TRUE, odd' \in BOOLEAN, odd',
         UNCHANGED <<cardSize, format, size, owner, bufs, streaming, hpc, hsize, hlen, hi,
                     meddled>>
  PROVE  FormatInv'
<1>1. FormatTyped'
  BY DEF FormatInv, FormatTyped
<1>2. Format!BuffersFit' /\ QueuedHere' /\ OddCalls'
  BY DEF FormatInv, Format!BuffersFit, Format!FrameBytes, QueuedHere, OddCalls
<1>3. SizeKept' /\ BuffersKept' /\ Mapped' /\ Looked'
  BY ProgramApart
<1>4. QED BY <1>1, <1>2, <1>3, Zenon DEF FormatInv

LEMMA ProgramAsksStep == ASSUME FormatInv, Format!ProgramAsks PROVE FormatInv'
<1>1. UNCHANGED <<cardSize, format, size, owner, bufs, streaming, hpc, hsize, hlen, hi,
                  meddled>>
  BY DEF Format!ProgramAsks, Format!setVars, Format!vb2Vars, Format!halVars
<1>2. oops' = TRUE /\ (odd' = TRUE \/ (format = None /\ odd' = odd))
  BY DEF Format!ProgramAsks
<1>3. odd' \in BOOLEAN /\ odd'
  BY <1>2 DEF FormatInv, FormatTyped, OddCalls
<1>4. QED BY <1>1, <1>2, <1>3, CrashStep

LEMMA RequestCrashStep == ASSUME FormatInv, Format!RequestCrash PROVE FormatInv'
<1>1. UNCHANGED <<cardSize, format, size, owner, bufs, streaming, hpc, hsize, hlen, hi,
                  meddled>>
  BY DEF Format!RequestCrash, Format!setVars, Format!vb2Vars, Format!halVars
<1>2. oops' = TRUE /\ odd' = (odd \/ format # None)
  BY DEF Format!RequestCrash
<1>3. odd' \in BOOLEAN /\ odd'
  BY <1>2 DEF FormatInv, FormatTyped, OddCalls
<1>4. QED BY <1>1, <1>2, <1>3, CrashStep

LEMMA LibraryCrashStep ==
  ASSUME FormatInv, Format!HalEnumCrash \/ Format!HalRequestCrash PROVE FormatInv'
<1>1. format = None /\ Format!Crash
  BY DEF Format!HalEnumCrash, Format!HalRequestCrash
<1>2. /\ UNCHANGED <<cardSize, format, size, owner, bufs, streaming, hpc, hsize, hlen, hi,
                     meddled>>
      /\ oops' = TRUE /\ odd' = odd
  BY <1>1 DEF Format!Crash, Format!setVars, Format!vb2Vars, Format!halVars
<1>3. odd' \in BOOLEAN /\ odd'
  BY <1>1, <1>2 DEF FormatInv, FormatTyped, OddCalls
<1>4. QED BY <1>2, <1>3, CrashStep

LEMMA FreshBuffers ==
  ASSUME FormatTyped, NEW f, NEW n \in Nat, Format!RequestBuffers(f, n)
  PROVE  /\ bufs' \in Seq(Buffers) /\ Len(bufs') >= 3 /\ Len(bufs') >= n /\ Len(bufs') \in Nat
         /\ DOMAIN bufs' = 1 .. Len(bufs')
         /\ \A j \in DOMAIN bufs' : /\ bufs'[j].len = Format!FrameBytes(size)
                                    /\ bufs'[j].payload = 0 /\ ~bufs'[j].queued
         /\ owner \in {None, f} /\ owner' = f /\ format # None
         /\ Format!FrameBytes(size) > 0 /\ UNCHANGED streaming
<1> DEFINE k == Format!AtLeast(n, 0)
           b == [len |-> Format!FrameBytes(size), payload |-> 0, queued |-> FALSE]
<1>1. k \in Nat /\ k >= 3 /\ k >= n
  BY DEF Format!AtLeast
<1>2. Format!FrameBytes(size) \in Nat
  BY FrameIsNat DEF FormatTyped
<1>3. b \in Buffers /\ b.len = Format!FrameBytes(size) /\ b.payload = 0 /\ b.queued = FALSE
  BY <1>2 DEF Buffers
<1>4. bufs' = [i \in 1 .. k |-> b]
  BY DEF Format!RequestBuffers, Format!NewBuf
<1> HIDE DEF k, b
<1>5. /\ bufs' \in Seq(Buffers) /\ Len(bufs') = k /\ DOMAIN bufs' = 1 .. k
      /\ \A j \in 1 .. k : bufs'[j] = b
  BY <1>1, <1>3, <1>4
<1>6. /\ owner \in {None, f} /\ owner' = f /\ format # None
      /\ Format!FrameBytes(size) > 0 /\ UNCHANGED streaming
  BY DEF Format!RequestBuffers, Format!Allowed
<1>7. QED BY <1>1, <1>3, <1>5, <1>6

LEMMA ProgramRequestsStep == ASSUME FormatInv, Format!ProgramRequests PROVE FormatInv'
<1>0. UNCHANGED <<cardSize, format, size, oops, hpc, hsize, hlen, hi, odd, meddled>>
  BY DEF Format!ProgramRequests, Format!setVars, Format!halVars
<1>1. FormatTyped /\ Format!FrameBytes(size)' = Format!FrameBytes(size)
  BY <1>0 DEF FormatInv, Format!FrameBytes
<1>2. CASE \E n \in 1 .. Fifo : Format!RequestBuffers("program", n)
  <2>1. PICK n \in 1 .. Fifo : Format!RequestBuffers("program", n)
    BY <1>2
  <2>2. n \in Nat
    BY <2>1
  <2>3. /\ bufs' \in Seq(Buffers) /\ Len(bufs') >= 3
        /\ \A j \in DOMAIN bufs' : /\ bufs'[j].len = Format!FrameBytes(size)
                                   /\ bufs'[j].payload = 0
        /\ owner \in {None, "program"} /\ owner' = "program" /\ format # None
        /\ UNCHANGED streaming
    BY <1>1, <2>1, <2>2, FreshBuffers
  <2>4. FormatTyped'
    BY <1>0, <1>1, <2>3 DEF FormatTyped, Buffers
  <2>5. Format!BuffersFit'
    BY <1>0, <1>1, <2>3, FormatConstants, FrameIsNat DEF Format!BuffersFit, FormatTyped
  <2>6. OddCalls' /\ QueuedHere'
    BY <1>0, <2>3 DEF FormatInv, OddCalls, QueuedHere
  <2>7. SizeKept' /\ BuffersKept' /\ Mapped' /\ Looked'
    BY <1>0, <2>3, FormatConstants, ProgramApart
  <2>8. QED BY <2>4, <2>5, <2>6, <2>7, Zenon DEF FormatInv
<1>3. CASE \E memory \in BOOLEAN : Format!RequestFails("program", memory)
  <2>1. \/ owner \in {None, "program"} /\ bufs' = <<>> /\ UNCHANGED <<owner, streaming>>
        \/ UNCHANGED <<owner, bufs, streaming>>
    BY <1>3 DEF Format!RequestFails, Format!Allowed, Format!vb2Vars
  <2>2. FormatTyped'
    BY <1>0, <1>1, <2>1, EmptySeq DEF FormatTyped
  <2>3. Format!BuffersFit'
    BY <1>0, <1>1, <2>1 DEF FormatInv, Format!BuffersFit
  <2>4. OddCalls' /\ QueuedHere'
    BY <1>0, <2>1, FormatConstants DEF FormatInv, OddCalls, QueuedHere
  <2>5. SizeKept' /\ BuffersKept' /\ Mapped' /\ Looked'
    BY <1>0, <2>1, FormatConstants, ProgramApart
  <2>6. QED BY <2>2, <2>3, <2>4, <2>5, Zenon DEF FormatInv
<1>4. QED BY <1>2, <1>3 DEF Format!ProgramRequests

LEMMA ProgramCreatesStep == ASSUME FormatInv, Format!ProgramCreates PROVE FormatInv'
<1>0. /\ UNCHANGED <<cardSize, format, size, streaming, oops, hpc, hsize, hlen, hi, odd,
                     meddled>>
      /\ owner \in {None, "program"} /\ owner' = "program" /\ format # None
  BY DEF Format!ProgramCreates, Format!setVars, Format!halVars, Format!Allowed
<1>1. /\ FormatTyped /\ Format!FrameBytes(size)' = Format!FrameBytes(size)
      /\ Format!FrameBytes(size) \in Nat /\ bufs \in Seq(Buffers)
  BY <1>0, FrameIsNat DEF FormatInv, FormatTyped, Buffers, Format!FrameBytes
<1>2. PICK n \in 1 .. Fifo, s \in AskedSizes :
        /\ Format!FrameBytes(s) >= Format!FrameBytes(size)
        /\ bufs' = bufs \o [i \in 1 .. Format!AtLeast(n, Len(bufs)) |->
                              Format!NewBuf(Format!FrameBytes(s))]
  BY DEF Format!ProgramCreates
<1> DEFINE k == Format!AtLeast(n, Len(bufs))
           b == [len |-> Format!FrameBytes(s), payload |-> 0, queued |-> FALSE]
           new == [i \in 1 .. k |-> b]
<1>3. k \in Nat /\ Len(bufs) + k >= 3 /\ Len(bufs) \in Nat
  BY <1>1, LenProperties DEF Format!AtLeast
<1>4. b \in Buffers /\ b.len = Format!FrameBytes(s) /\ b.payload = 0
  BY FrameIsNat DEF Buffers
<1>5. bufs' = bufs \o new
  BY <1>2 DEF Format!NewBuf
<1> HIDE DEF k, b
<1>6. new \in Seq(Buffers) /\ Len(new) = k /\ \A j \in 1 .. k : new[j] = b
  BY <1>3, <1>4
<1> HIDE DEF new
<1>7. /\ bufs' \in Seq(Buffers) /\ Len(bufs') = Len(bufs) + k
      /\ DOMAIN bufs' = 1 .. Len(bufs) + k
      /\ \A j \in 1 .. Len(bufs) + k :
            bufs'[j] = IF j <= Len(bufs) THEN bufs[j] ELSE new[j - Len(bufs)]
  <2>1. /\ bufs \o new \in Seq(Buffers)
        /\ Len(bufs \o new) = Len(bufs) + Len(new)
        /\ \A j \in 1 .. Len(bufs) + Len(new) :
              (bufs \o new)[j] = IF j <= Len(bufs) THEN bufs[j] ELSE new[j - Len(bufs)]
    BY <1>1, <1>6, ConcatProperties
  <2>2. bufs' \in Seq(Buffers) /\ Len(bufs') = Len(bufs) + k
    BY <1>5, <1>6, <2>1
  <2>3. DOMAIN bufs' = 1 .. Len(bufs')
    BY <2>2, LenProperties
  <2>4. QED BY <1>5, <1>6, <2>1, <2>2, <2>3
<1>8. FormatTyped'
  BY <1>0, <1>1, <1>7 DEF FormatTyped, Buffers
<1>9. Format!BuffersFit'
  <2>1. ASSUME NEW j \in 1 .. Len(bufs) + k
        PROVE  /\ bufs'[j].len >= Format!FrameBytes(size)
               /\ bufs'[j].payload \in {0, Format!FrameBytes(size)}
    <3>1. CASE j <= Len(bufs)
      <4>1. j \in DOMAIN bufs /\ bufs # <<>>
        BY <1>1, <1>3, <3>1, EmptySeq, LenProperties
      <4>2. QED BY <1>7, <3>1, <4>1 DEF FormatInv, Format!BuffersFit
    <3>2. CASE ~(j <= Len(bufs))
      <4>1. j - Len(bufs) \in 1 .. k
        BY <1>3, <3>2
      <4>2. bufs'[j] = b
        BY <1>6, <1>7, <3>2, <4>1
      <4>3. QED BY <1>2, <1>4, <4>2
    <3>3. QED BY <3>1, <3>2
  <2>2. QED BY <1>0, <1>1, <1>3, <1>7, <2>1, FormatConstants DEF Format!BuffersFit
<1>10. OddCalls' /\ QueuedHere'
  BY <1>0 DEF FormatInv, OddCalls, QueuedHere
<1>11. SizeKept' /\ BuffersKept' /\ Mapped' /\ Looked'
  BY <1>0, FormatConstants, ProgramApart
<1>12. QED BY <1>8, <1>9, <1>10, <1>11, Zenon DEF FormatInv

\* The program's buffers given or taken.
LEMMA ProgramGives ==
  ASSUME FormatInv, NEW i, Given("program", i), owner = "program" \/ UNCHANGED bufs,
         streaming' \in BOOLEAN,
         UNCHANGED <<cardSize, format, size, owner, oops, hpc, hsize, hlen, hi, odd,
                     meddled>>
  PROVE  FormatInv'
<1>1. FormatTyped'
  BY DEF FormatInv, FormatTyped, Given, Buffers
<1>2. Format!BuffersFit' /\ QueuedHere'
  BY GivenKeeps DEF FormatInv
<1>3. OddCalls'
  BY DEF FormatInv, OddCalls
<1>4. SizeKept' /\ BuffersKept' /\ Mapped' /\ Looked'
  BY ProgramApart
<1>5. QED BY <1>1, <1>2, <1>3, <1>4, Zenon DEF FormatInv

LEMMA ProgramBuffersStep ==
  ASSUME FormatInv,
         Format!ProgramQueues \/ Format!ProgramStreams \/ Format!ProgramTakes
  PROVE  FormatInv'
<1>0. /\ UNCHANGED <<cardSize, format, size, owner, oops, hpc, hsize, hlen, hi, odd,
                     meddled>>
      /\ FormatTyped /\ bufs \in Seq(Buffers)
  BY DEF Format!ProgramQueues, Format!ProgramStreams, Format!ProgramTakes, Format!setVars,
         Format!halVars, FormatInv, FormatTyped, Buffers
<1>1. CASE Format!ProgramQueues
  <2>1. PICK i \in DOMAIN bufs : Format!QueueBuffer("program", i)
    BY <1>1 DEF Format!ProgramQueues
  <2>2. Given("program", i) /\ UNCHANGED streaming
    BY <1>0, <1>1, <2>1, QueueBufferGives DEF Format!ProgramQueues
  <2>3. owner = "program" \/ UNCHANGED bufs
    BY <2>1 DEF Format!QueueBuffer
  <2>4. QED BY <1>0, <2>2, <2>3, ProgramGives DEF FormatTyped
<1>2. CASE Format!ProgramTakes
  <2>1. PICK k \in DOMAIN bufs : bufs' = [bufs EXCEPT ![k].queued = FALSE]
    BY <1>2 DEF Format!ProgramTakes
  <2>2. owner = "program" /\ UNCHANGED streaming
    BY <1>2 DEF Format!ProgramTakes
  <2>3. Given("program", 1)
    BY <1>0, <2>1, <2>2, TakingGives
  <2>4. QED BY <1>0, <2>2, <2>3, ProgramGives DEF FormatTyped
<1>3. CASE Format!ProgramStreams
  <2>1. /\ owner = "program" /\ streaming' = ~streaming
        /\ \/ bufs' = [i \in DOMAIN bufs |-> [bufs[i] EXCEPT !.queued = FALSE]]
           \/ UNCHANGED bufs
    BY <1>3 DEF Format!ProgramStreams
  <2>2. CASE UNCHANGED bufs
    <3>1. Given("program", 1)
      BY <1>0, <2>2 DEF Given
    <3>2. QED BY <1>0, <2>1, <3>1, ProgramGives
  <2>3. CASE bufs' = [i \in DOMAIN bufs |-> [bufs[i] EXCEPT !.queued = FALSE]]
    <3>1. bufs' \in [DOMAIN bufs -> Buffers]
      BY <1>0, <2>3, BufferFields DEF Buffers
    <3>2. bufs' \in Seq(Buffers) /\ Len(bufs') = Len(bufs) /\ DOMAIN bufs' = DOMAIN bufs
      BY <1>0, <3>1, Reshaped
    <3>3. ASSUME NEW j \in DOMAIN bufs
          PROVE  /\ bufs'[j].len = bufs[j].len /\ bufs'[j].payload = bufs[j].payload
                 /\ ~bufs'[j].queued
      BY <1>0, <2>3, BufferFields DEF Buffers
    <3>4. Given("program", 1)
      BY <2>1, <3>2, <3>3 DEF Given
    <3>5. QED BY <1>0, <2>1, <3>4, ProgramGives
  <2>4. QED BY <2>1, <2>2, <2>3
<1>4. QED BY <1>1, <1>2, <1>3

LEMMA ReleasedStep ==
  ASSUME FormatInv, NEW f \in {"program", "library"}, Format!Released(f),
         UNCHANGED <<cardSize, format, size, oops, odd, meddled>>
  PROVE  /\ bufs' \in Seq(Buffers) /\ owner' \in {"library", "program", None}
         /\ streaming' \in BOOLEAN /\ Format!BuffersFit' /\ OddCalls' /\ QueuedHere'
         /\ owner = f \/ UNCHANGED <<owner, bufs, streaming>>
<1>1. \/ owner = f /\ owner' = None /\ bufs' = <<>> /\ streaming' = FALSE
      \/ UNCHANGED <<owner, bufs, streaming>>
  BY DEF Format!Released, Format!vb2Vars
<1>2. /\ bufs' \in Seq(Buffers) /\ owner' \in {"library", "program", None}
      /\ streaming' \in BOOLEAN
  BY <1>1, EmptySeq DEF FormatInv, FormatTyped, Buffers
<1>3. Format!BuffersFit'
  BY <1>1 DEF FormatInv, Format!BuffersFit, Format!FrameBytes
<1>4. OddCalls' /\ QueuedHere'
  BY <1>1, FormatConstants DEF FormatInv, OddCalls, QueuedHere
<1>5. QED BY <1>1, <1>2, <1>3, <1>4

LEMMA ProgramClosesStep == ASSUME FormatInv, Format!ProgramCloses PROVE FormatInv'
<1>0. /\ UNCHANGED <<cardSize, format, size, oops, hpc, hsize, hlen, hi, odd, meddled>>
      /\ Format!Released("program")
  BY DEF Format!ProgramCloses, Format!setVars, Format!halVars
<1>1. /\ bufs' \in Seq(Buffers) /\ owner' \in {"library", "program", None}
      /\ streaming' \in BOOLEAN /\ Format!BuffersFit' /\ OddCalls' /\ QueuedHere'
      /\ owner = "program" \/ UNCHANGED <<owner, bufs, streaming>>
  BY <1>0, ReleasedStep
<1>2. FormatTyped'
  BY <1>0, <1>1 DEF FormatInv, FormatTyped, Buffers
<1>3. SizeKept' /\ BuffersKept' /\ Mapped' /\ Looked'
  BY <1>0, <1>1, ProgramApart
<1>4. QED BY <1>1, <1>2, <1>3, Zenon DEF FormatInv
-----------------------------------------------------------------------------
\* The steps of the library.

LEMMA HalOpensStep ==
  ASSUME FormatInv, ~oops, Format!HalEnum \/ Format!HalTry \/ Format!HalSet PROVE FormatInv'
<1>1. CASE Format!HalEnum
  <2>1. /\ UNCHANGED <<cardSize, format, size, owner, bufs, streaming, oops, hsize, hlen, hi,
                       odd, meddled>>
        /\ hpc' = "try"
    BY <1>1 DEF Format!HalEnum, Format!HalGoto, Format!setVars, Format!vb2Vars
  <2>2. FormatTyped'
    BY <2>1 DEF FormatInv, FormatTyped
  <2>3. Format!BuffersFit' /\ OddCalls' /\ QueuedHere'
    BY <2>1 DEF FormatInv, Format!BuffersFit, Format!FrameBytes, OddCalls, QueuedHere
  <2>4. SizeKept' /\ BuffersKept' /\ Mapped' /\ Looked'
    BY <2>1 DEF SizeKept, BuffersKept, Mapped, Looked
  <2>5. QED BY <2>2, <2>3, <2>4, Zenon DEF FormatInv
<1>2. CASE Format!HalTry
  <2>1. /\ UNCHANGED <<cardSize, format, size, owner, bufs, streaming, oops, hlen, hi, odd,
                       meddled>>
        /\ hpc' = "set" /\ hsize' = cardSize
    BY <1>2 DEF Format!HalTry, Format!HalGoto, Format!setVars, Format!vb2Vars
  <2>2. FormatTyped'
    BY <2>1 DEF FormatInv, FormatTyped
  <2>3. Format!BuffersFit' /\ OddCalls' /\ QueuedHere'
    BY <2>1 DEF FormatInv, Format!BuffersFit, Format!FrameBytes, OddCalls, QueuedHere
  <2>4. SizeKept' /\ BuffersKept' /\ Mapped' /\ Looked'
    BY <2>1 DEF SizeKept, BuffersKept, Mapped, Looked
  <2>5. QED BY <2>2, <2>3, <2>4, Zenon DEF FormatInv
<1>3. CASE Format!HalSet
  <2>1. /\ UNCHANGED <<cardSize, owner, bufs, streaming, oops, hsize, hlen, hi>>
        /\ hpc' = "req" /\ meddled' = (bufs # <<>>) /\ odd' = (odd /\ bufs # <<>>)
    BY <1>3 DEF Format!HalSet, Format!HalGoto, Format!vb2Vars, Format!Busy
  <2>2. PICK code \in Known : Format!SetFormat(code, hsize)
    BY <1>3 DEF Format!HalSet
  <2>3. IF bufs # <<>> THEN UNCHANGED <<format, size>>
        ELSE format' = code /\ size' = hsize
    BY <2>2 DEF Format!SetFormat, Format!Busy
  <2>4. meddled' \in BOOLEAN /\ odd' \in BOOLEAN
    BY <2>1
  <2>5. FormatTyped'
    BY <2>1, <2>2, <2>3, <2>4 DEF FormatInv, FormatTyped
  <2>6. Format!BuffersFit' /\ QueuedHere'
    BY <2>1, <2>3 DEF FormatInv, Format!BuffersFit, Format!FrameBytes, QueuedHere
  <2>7. OddCalls'
    BY <2>1, <2>2, <2>3, FormatConstants DEF FormatInv, OddCalls
  <2>8. SizeKept' /\ BuffersKept' /\ Mapped' /\ Looked'
    BY <2>1, <2>3 DEF SizeKept, BuffersKept, Mapped, Looked
  <2>9. QED BY <2>5, <2>6, <2>7, <2>8, Zenon DEF FormatInv
<1>4. QED BY <1>1, <1>2, <1>3

LEMMA HalRequestStep == ASSUME FormatInv, Format!HalRequest PROVE FormatInv'
<1>0. /\ UNCHANGED <<cardSize, format, size, oops, hsize, odd>>
      /\ hpc = "req" /\ hpc' = "map" /\ hlen' = <<>> /\ hi' = 1
  BY DEF Format!HalRequest, Format!HalGoto, Format!setVars
<1>1. /\ FormatTyped /\ Format!FrameBytes(size)' = Format!FrameBytes(size) /\ Frame' = Frame
      /\ Fifo \in Nat \ {0}
  BY <1>0, FormatConstants DEF FormatInv, Format!FrameBytes, Frame
<1>2. hlen' \in Seq(Nat) /\ Len(hlen') = 0 /\ hi' \in 1 .. Fifo /\ DOMAIN hlen' = {}
  BY <1>0, <1>1, EmptySeq
<1>3. Mapped' /\ Looked'
  BY <1>0, <1>2 DEF Mapped, Looked
<1>4. CASE Format!RequestBuffers("library", Fifo) /\ UNCHANGED meddled
  <2>1. /\ bufs' \in Seq(Buffers) /\ Len(bufs') >= 3 /\ Len(bufs') >= Fifo
        /\ \A j \in DOMAIN bufs' : /\ bufs'[j].len = Format!FrameBytes(size)
                                   /\ bufs'[j].payload = 0 /\ ~bufs'[j].queued
        /\ owner' = "library" /\ format # None /\ UNCHANGED streaming
    BY <1>1, <1>4, FreshBuffers
  <2>2. FormatTyped'
    BY <1>0, <1>1, <1>2, <1>4, <2>1 DEF FormatTyped, Buffers
  <2>3. Format!BuffersFit'
    BY <1>0, <1>1, <2>1, FormatConstants, FrameIsNat DEF Format!BuffersFit, FormatTyped
  <2>4. OddCalls' /\ QueuedHere'
    BY <1>0, <2>1 DEF FormatInv, OddCalls, QueuedHere
  <2>5. SizeKept'
    BY <1>0, <1>4 DEF FormatInv, SizeKept
  <2>6. BuffersKept'
    <3>1. ~meddled => Format!FrameBytes(size) = Frame
      BY <1>0 DEF FormatInv, SizeKept, Frame
    <3>2. QED BY <1>1, <1>4, <2>1, <3>1 DEF BuffersKept
  <2>7. QED BY <1>3, <2>2, <2>3, <2>4, <2>5, <2>6, Zenon DEF FormatInv
<1>5. CASE (\E memory \in BOOLEAN : Format!RequestFails("library", memory)) /\ meddled' = TRUE
  <2>1. \/ owner \in {None, "library"} /\ bufs' = <<>> /\ UNCHANGED <<owner, streaming>>
        \/ UNCHANGED <<owner, bufs, streaming>>
    BY <1>5 DEF Format!RequestFails, Format!Allowed, Format!vb2Vars
  <2>2. FormatTyped'
    BY <1>0, <1>1, <1>2, <1>5, <2>1, EmptySeq DEF FormatTyped
  <2>3. Format!BuffersFit'
    BY <1>0, <1>1, <2>1 DEF FormatInv, Format!BuffersFit
  <2>4. OddCalls' /\ QueuedHere'
    BY <1>0, <2>1 DEF FormatInv, OddCalls, QueuedHere
  <2>5. SizeKept' /\ BuffersKept'
    BY <1>5 DEF SizeKept, BuffersKept
  <2>6. QED BY <1>3, <2>2, <2>3, <2>4, <2>5, Zenon DEF FormatInv
<1>6. QED BY <1>4, <1>5 DEF Format!HalRequest

LEMMA HalMapStep == ASSUME FormatInv, Format!HalMap PROVE FormatInv'
<1> DEFINE n == IF hi \in DOMAIN bufs THEN bufs[hi].len ELSE 0
<1>0. /\ UNCHANGED <<cardSize, format, size, owner, bufs, streaming, oops, hsize, odd, meddled>>
      /\ hpc = "map" /\ hlen' = Append(hlen, n)
      /\ hpc' = (IF hi = Fifo THEN "queue" ELSE "map")
      /\ hi' = (IF hi = Fifo THEN 1 ELSE hi + 1)
  BY DEF Format!HalMap, Format!setVars, Format!vb2Vars
<1>1. /\ FormatTyped /\ bufs \in Seq(Buffers) /\ hlen \in Seq(Nat) /\ hi \in 1 .. Fifo
      /\ Fifo \in Nat \ {0} /\ Frame' = Frame
  BY <1>0, FormatConstants DEF FormatInv, FormatTyped, Buffers, Frame, Format!FrameBytes
<1>2. n \in Nat
  BY <1>1, BufferFields
<1>3. ~meddled => n = Frame
  <2>1. ASSUME ~meddled PROVE n = Frame
    <3>1. Len(bufs) >= Fifo /\ \A i \in DOMAIN bufs : bufs[i].len = Frame
      BY <1>0, <2>1 DEF FormatInv, BuffersKept
    <3>2. hi \in DOMAIN bufs
      BY <1>1, <3>1, BufferFields
    <3>3. QED BY <3>1, <3>2
  <2>2. QED BY <2>1
<1> HIDE DEF n
<1>4. /\ hlen' \in Seq(Nat) /\ Len(hlen') = Len(hlen) + 1 /\ Len(hlen) \in Nat
      /\ \A i \in 1 .. Len(hlen) : hlen'[i] = hlen[i]
      /\ hlen'[Len(hlen) + 1] = n
      /\ DOMAIN hlen = 1 .. Len(hlen) /\ DOMAIN hlen' = 1 .. Len(hlen) + 1
  BY <1>0, <1>1, <1>2
<1>5. FormatTyped'
  BY <1>0, <1>1, <1>4 DEF FormatTyped
<1>6. Format!BuffersFit' /\ OddCalls' /\ QueuedHere' /\ SizeKept'
  BY <1>0 DEF FormatInv, Format!BuffersFit, Format!FrameBytes, OddCalls, QueuedHere, SizeKept
<1>7. BuffersKept'
  BY <1>0, <1>1 DEF FormatInv, BuffersKept
<1>8. Mapped'
  <2>1. SUFFICES ASSUME ~meddled
        PROVE  /\ Len(hlen') = (IF hpc' = "map" THEN hi' - 1 ELSE Fifo)
               /\ \A i \in DOMAIN hlen' : hlen'[i] = Frame
    BY <1>0, <1>1 DEF Mapped
  <2>2. Len(hlen) = hi - 1 /\ \A i \in DOMAIN hlen : hlen[i] = Frame
    BY <1>0, <2>1 DEF FormatInv, Mapped
  <2>3. Len(hlen') = (IF hpc' = "map" THEN hi' - 1 ELSE Fifo)
    BY <1>0, <1>1, <1>4, <2>2
  <2>4. ASSUME NEW i \in DOMAIN hlen' PROVE hlen'[i] = Frame
    <3>1. CASE i \in 1 .. Len(hlen)
      BY <1>4, <2>2, <3>1
    <3>2. CASE i = Len(hlen) + 1
      BY <1>3, <1>4, <2>1, <3>2
    <3>3. QED BY <1>4, <3>1, <3>2
  <2>5. QED BY <2>3, <2>4
<1>9. Looked'
  BY <1>0 DEF Looked
<1>10. QED BY <1>5, <1>6, <1>7, <1>8, <1>9, Zenon DEF FormatInv

\* The library gives a buffer to the channel, before it streams or after it has
\* looked at the frame.
LEMMA HalGivesStep == ASSUME FormatInv, Format!HalQueue \/ Format!HalRequeue PROVE FormatInv'
<1>0. /\ UNCHANGED <<cardSize, format, size, owner, streaming, oops, hsize, hlen, odd, meddled>>
      /\ Format!QueueBuffer("library", hi)
      /\ hpc \in {"queue", "look"} /\ hpc' \in {"queue", "start", "capture"}
      /\ hi' = 1 \/ (hi # Fifo /\ hi' = hi + 1)
  BY DEF Format!HalQueue, Format!HalRequeue, Format!HalGoto, Format!setVars
<1>1. FormatTyped /\ hi \in 1 .. Fifo /\ Fifo \in Nat \ {0} /\ Frame' = Frame
  BY <1>0, FormatConstants DEF FormatInv, FormatTyped, Frame, Format!FrameBytes
<1>2. Given("library", hi)
  BY <1>0, <1>1, QueueBufferGives
<1>3. hi' \in 1 .. Fifo /\ hi <= Fifo
  BY <1>0, <1>1
<1>4. FormatTyped'
  BY <1>0, <1>1, <1>2, <1>3 DEF FormatTyped, Given, Buffers
<1>5. Format!BuffersFit' /\ QueuedHere' /\ BuffersKept'
  BY <1>0, <1>2, <1>3, GivenKeeps DEF FormatInv
<1>6. OddCalls' /\ SizeKept'
  BY <1>0 DEF FormatInv, OddCalls, SizeKept
<1>7. Mapped' /\ Looked'
  BY <1>0, <1>1 DEF FormatInv, Mapped, Looked
<1>8. QED BY <1>4, <1>5, <1>6, <1>7, Zenon DEF FormatInv

LEMMA HalStartStep == ASSUME FormatInv, Format!HalStart PROVE FormatInv'
<1>0. /\ UNCHANGED <<cardSize, format, size, owner, bufs, oops, hsize, hlen, hi, odd, meddled>>
      /\ hpc = "start" /\ hpc' = "capture" /\ streaming' = (streaming \/ owner = "library")
  BY DEF Format!HalStart, Format!HalGoto, Format!setVars
<1>1. Frame' = Frame /\ streaming' \in BOOLEAN
  BY <1>0 DEF Frame, Format!FrameBytes
<1>2. FormatTyped'
  BY <1>0, <1>1 DEF FormatInv, FormatTyped
<1>3. Format!BuffersFit' /\ OddCalls' /\ QueuedHere' /\ SizeKept'
  BY <1>0 DEF FormatInv, Format!BuffersFit, Format!FrameBytes, OddCalls, QueuedHere, SizeKept
<1>4. BuffersKept' /\ Mapped' /\ Looked'
  BY <1>0, <1>1 DEF FormatInv, BuffersKept, Mapped, Looked
<1>5. QED BY <1>2, <1>3, <1>4, Zenon DEF FormatInv

LEMMA HalDequeueStep == ASSUME FormatInv, Format!HalDequeue PROVE FormatInv'
<1>0. /\ UNCHANGED <<cardSize, format, size, owner, streaming, oops, hsize, hlen, odd, meddled>>
      /\ hpc = "capture" /\ hpc' = "look" /\ owner = "library"
  BY DEF Format!HalDequeue, Format!HalGoto, Format!setVars
<1>1. PICK i \in DOMAIN bufs :
        bufs[i].queued /\ bufs' = [bufs EXCEPT ![i].queued = FALSE] /\ hi' = i
  BY DEF Format!HalDequeue
<1>2. /\ FormatTyped /\ bufs \in Seq(Buffers) /\ Fifo \in Nat \ {0} /\ Frame' = Frame
  BY <1>0, FormatConstants DEF FormatInv, FormatTyped, Buffers, Frame, Format!FrameBytes
<1>3. i \in 1 .. Fifo
  <2>1. i <= Fifo
    BY <1>0, <1>1 DEF FormatInv, QueuedHere
  <2>2. QED BY <1>2, <2>1, BufferFields
<1>4. /\ Given("library", i)
      /\ \A j \in DOMAIN bufs : bufs'[j].payload = bufs[j].payload
  BY <1>0, <1>1, <1>2, TakingGives
<1>5. FormatTyped'
  BY <1>0, <1>1, <1>2, <1>3, <1>4 DEF FormatTyped, Given, Buffers
<1>6. Format!BuffersFit' /\ QueuedHere' /\ BuffersKept'
  BY <1>0, <1>3, <1>4, GivenKeeps DEF FormatInv
<1>7. OddCalls' /\ SizeKept'
  BY <1>0 DEF FormatInv, OddCalls, SizeKept
<1>8. Mapped'
  BY <1>0, <1>2 DEF FormatInv, Mapped
<1>9. Looked'
  <2>1. DOMAIN bufs' = DOMAIN bufs
    BY <1>4 DEF Given
  <2>2. ~meddled => bufs[i].payload = Frame
    BY <1>0, <1>1 DEF FormatInv, BuffersKept
  <2>3. QED BY <1>0, <1>1, <1>2, <1>4, <2>1, <2>2 DEF Looked
<1>10. QED BY <1>5, <1>6, <1>7, <1>8, <1>9, Zenon DEF FormatInv

LEMMA HalCloseStep == ASSUME FormatInv, Format!HalClose PROVE FormatInv'
<1>0. /\ UNCHANGED <<cardSize, format, size, oops, hsize, hi, odd, meddled>>
      /\ hpc' = "closed" /\ hlen' = <<>> /\ Format!Released("library")
  BY DEF Format!HalClose, Format!HalGoto, Format!setVars
<1>1. /\ bufs' \in Seq(Buffers) /\ owner' \in {"library", "program", None}
      /\ streaming' \in BOOLEAN /\ Format!BuffersFit' /\ OddCalls' /\ QueuedHere'
  BY <1>0, ReleasedStep
<1>2. hlen' \in Seq(Nat)
  BY <1>0, EmptySeq
<1>3. FormatTyped'
  BY <1>0, <1>1, <1>2 DEF FormatInv, FormatTyped, Buffers
<1>4. SizeKept' /\ BuffersKept' /\ Mapped' /\ Looked'
  BY <1>0 DEF SizeKept, BuffersKept, Mapped, Looked
<1>5. QED BY <1>1, <1>3, <1>4, Zenon DEF FormatInv

LEMMA CardChangesStep ==
  ASSUME FormatInv, Format!CardChanges \/ UNCHANGED formatVars PROVE FormatInv'
<1>1. /\ UNCHANGED <<format, size, owner, bufs, streaming, oops, hpc, hsize, hlen, hi, odd,
                     meddled>>
      /\ cardSize' \in CardSizes
  BY DEF Format!CardChanges, Format!setVars, Format!vb2Vars, Format!halVars, formatVars,
         FormatInv, FormatTyped
<1>2. Frame' = Frame
  BY <1>1 DEF Frame, Format!FrameBytes
<1>3. FormatTyped'
  BY <1>1 DEF FormatInv, FormatTyped
<1>4. Format!BuffersFit' /\ OddCalls' /\ QueuedHere' /\ SizeKept'
  BY <1>1 DEF FormatInv, Format!BuffersFit, Format!FrameBytes, OddCalls, QueuedHere, SizeKept
<1>5. BuffersKept' /\ Mapped' /\ Looked'
  BY <1>1, <1>2 DEF FormatInv, BuffersKept, Mapped, Looked
<1>6. QED BY <1>3, <1>4, <1>5, Zenon DEF FormatInv

LEMMA FormatStep == ASSUME FormatInv, Format!Next PROVE FormatInv'
<1>1. ~oops /\ (Format!Program \/ Format!Library \/ Format!CardChanges)
  BY DEF Format!Next
<1>2. CASE Format!Program
  BY <1>1, <1>2, ProgramSetsFormatStep, ProgramAsksStep, ProgramRequestsStep,
     RequestCrashStep, ProgramCreatesStep, ProgramBuffersStep, ProgramClosesStep
  DEF Format!Program
<1>3. CASE Format!Library
  BY <1>1, <1>3, HalOpensStep, LibraryCrashStep, HalRequestStep, HalMapStep, HalGivesStep,
     HalStartStep, HalDequeueStep, HalCloseStep
  DEF Format!Library
<1>4. CASE Format!CardChanges
  BY <1>4, CardChangesStep
<1>5. QED BY <1>1, <1>2, <1>3, <1>4

LEMMA FormatFirst == ASSUME InitCamera PROVE FormatInv
<1>1. /\ cardSize \in CardSizes /\ format \in Known /\ size = cardSize
      /\ owner = None /\ bufs = <<>> /\ streaming = FALSE /\ oops = FALSE
      /\ hpc = "closed" /\ hsize = cardSize /\ hlen = <<>> /\ hi = 1
      /\ odd = FALSE /\ meddled = FALSE
  BY DEF InitCamera, Format!Init
<1>2. FormatTyped
  <2>1. bufs \in Seq([len : Nat, payload : Nat, queued : BOOLEAN]) /\ hlen \in Seq(Nat)
    BY <1>1
  <2>2. hi \in 1 .. Fifo
    BY <1>1, FormatConstants
  <2>3. QED BY <1>1, <2>1, <2>2 DEF FormatTyped
<1>3. Format!BuffersFit /\ OddCalls /\ QueuedHere
  BY <1>1, FormatConstants DEF Format!BuffersFit, OddCalls, QueuedHere
<1>4. SizeKept /\ BuffersKept /\ Mapped /\ Looked
  BY <1>1 DEF SizeKept, BuffersKept, Mapped, Looked
<1>5. QED BY <1>2, <1>3, <1>4, Zenon DEF FormatInv

LEMMA FormatEnough == ASSUME FormatInv PROVE Format!FormatHolds
<1>1. Format!TypeOK
  <2>1. FormatTyped
    BY DEF FormatInv
  <2>2. {cardSize, hsize} \subseteq CardSizes /\ {streaming, oops, odd, meddled} \subseteq BOOLEAN
    BY <2>1, Zenon DEF FormatTyped
  <2>3. owner \in Format!Files \cup {None}
    BY <2>1 DEF FormatTyped, Format!Files
  <2>4. QED BY <2>1, <2>2, <2>3, Zenon DEF FormatTyped, Format!TypeOK
<1>2. Format!LooksInside
  <2>1. SUFFICES ASSUME hpc = "look", ~meddled
        PROVE  /\ hi \in DOMAIN hlen /\ Format!Exposure(hsize) < hlen[hi]
               /\ bufs[hi].payload = Format!FrameBytes(hsize)
    BY DEF Format!LooksInside
  <2>2. hi \in DOMAIN hlen
    BY <2>1, LenProperties DEF FormatInv, FormatTyped, Mapped
  <2>3. hlen[hi] = Frame /\ bufs[hi].payload = Frame
    BY <2>1, <2>2 DEF FormatInv, Mapped, Looked
  <2>4. Format!Exposure(hsize) < Frame
    BY FrameOfCard DEF FormatInv, FormatTyped, Frame
  <2>5. QED BY <2>2, <2>3, <2>4 DEF Frame
<1>3. Format!BuffersFit /\ Format!CrashNeedsOddCall
  BY DEF FormatInv, OddCalls, Format!CrashNeedsOddCall
<1>4. QED BY <1>1, <1>2, <1>3, Zenon DEF Format!FormatHolds

\* FormatHolds: buffers hold frames of the node's format, the library looks at what it
\* mapped, and the kernel does not crash, unless something odd was asked for
\* (xdma_video_s_fmt_vid_cap, Camera::CameraOpen).
THEOREM FormatKept == SpecCamera => []FormatHolds
<1>1. InitCamera => FormatInv
  BY FormatFirst
<1>2. FormatInv /\ [NextUse]_<<use, vars, formatVars>> => FormatInv'
  BY FormatStep, CardChangesStep DEF NextUse
<1>3. FormatInv => FormatHolds
  BY FormatEnough DEF FormatHolds
<1>4. QED BY <1>1, <1>2, <1>3, PTL DEF SpecCamera
=============================================================================
