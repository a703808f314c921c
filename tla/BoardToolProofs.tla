--------------------------- MODULE BoardToolProofs ---------------------------
(***************************************************************************)
(* Theorems on the command window and on the tool that uses it, serdes_cfg.*)
(* Whatever commands are sent and however many of them fail, the A53 takes *)
(* no command half or twice, and a command that was given up spoils one    *)
(* later command at most.  A measurement of a link leaves its registers as *)
(* they were and reports what it measured; a configuration believes only   *)
(* links that answered, and sets up the links that are there.  The tool's  *)
(* state says little without the list of what it still has to do: the      *)
(* invariants are on both.                                                 *)
(***************************************************************************)
EXTENDS BoardTool, FiniteSetTheorems, TLAPS

\* A command is in somebody's debt when it will end with a result that is not
\* its own: the A53 works on one that was given up, or has answered that one.
Debt(b) == IF b THEN 1 ELSE 0
StaleRun == exec.busy /\ ~exec.own
StaleResult == ((phase = "poll" /\ ~irq) \/ phase = "collect") /\ ~resp.own

WindowShape ==
    /\ resp = [bad |-> resp.bad, value |-> resp.value, own |-> resp.own]
    /\ exec = [busy |-> exec.busy, cmd |-> exec.cmd, own |-> exec.own]
    /\ resp.own \in BOOLEAN /\ exec.busy \in BOOLEAN /\ exec.own \in BOOLEAN
    /\ irq \in BOOLEAN /\ whole \in BOOLEAN /\ taken \in BOOLEAN /\ misread \in BOOLEAN
    /\ spoiled \in Nat /\ timeouts \in Nat

\* The register is set only while the tool polls, for a command that is whole,
\* and which the A53 runs if it has taken it.
PostedWhole ==
    /\ irq => phase = "poll" /\ whole
    /\ irq /\ taken => exec.busy /\ exec.own
    /\ phase = "compose" => ~taken
    /\ ~misread

\* Every command spoiled, or to be, is paid for by one that was given up.
DebtsPaid == spoiled + Debt(StaleRun) + Debt(StaleResult) <= timeouts

WindowInv == WindowShape /\ PostedWhole /\ DebtsPaid

\* What the window's own specification and the tool's have in common: their
\* steps, with any command and any value.
WindowStep ==
    \/ \E c : Compose(c)
    \/ Sending \/ Return \/ A53Take \/ A53Bad
    \/ \E v : A53Done(v)

LEMMA WindowInit == ASSUME CWInit PROVE WindowInv
<1>1. WindowShape
  BY DEF CWInit, Free, WindowShape
<1>2. PostedWhole
  BY DEF CWInit, PostedWhole
<1>3. ~StaleRun /\ ~StaleResult
  BY DEF CWInit, Free, StaleRun, StaleResult
<1>4. DebtsPaid
  BY <1>3 DEF CWInit, DebtsPaid, Debt
<1>5. QED BY <1>1, <1>2, <1>4 DEF WindowInv

LEMMA AnswerKeeps ==
  ASSUME WindowInv, NEW v, NEW b, Answer(v, b)
  PROVE  WindowInv'
<1>1. WindowShape'
  BY DEF Answer, Free, WindowInv, WindowShape, toolVars
<1>2. PostedWhole'
  BY DEF Answer, Free, WindowInv, WindowShape, PostedWhole, toolVars
<1>3. /\ Debt(StaleRun)' = 0
      /\ exec.own => Debt(StaleResult)' = 0
      /\ ~exec.own => Debt(StaleRun) = 1
      /\ Debt(StaleResult)' \in {0, 1} /\ Debt(StaleRun) \in {0, 1}
      /\ Debt(StaleResult) \in {0, 1}
  BY DEF Answer, Free, Debt, StaleRun, StaleResult, toolVars
<1>4. spoiled' = spoiled /\ timeouts' = timeouts
  BY DEF Answer
<1>5. DebtsPaid'
  BY <1>3, <1>4 DEF DebtsPaid, WindowInv, WindowShape
<1>6. QED BY <1>1, <1>2, <1>5 DEF WindowInv

LEMMA WindowKept ==
  ASSUME WindowInv, WindowStep
  PROVE  WindowInv'
<1> USE DEF WindowInv
<1>1. ASSUME NEW c, Compose(c) PROVE WindowInv'
  BY <1>1 DEF Compose, WindowShape, PostedWhole, DebtsPaid, Debt, StaleRun, StaleResult
<1>2. CASE Post
  BY <1>2 DEF Post, WindowShape, PostedWhole, DebtsPaid, Debt, StaleRun, StaleResult,
              windowHistory
<1>3. CASE PollDone
  BY <1>3 DEF PollDone, WindowShape, PostedWhole, DebtsPaid, Debt, StaleRun, StaleResult,
              windowVars, windowHistory
<1>4. CASE Timeout
  <2>1. WindowShape'
    <3>1. /\ exec' = [exec EXCEPT !.own = FALSE] /\ irq' = FALSE
          /\ UNCHANGED <<resp, whole, taken, misread, spoiled>>
          /\ timeouts' = timeouts + 1
      BY <1>4 DEF Timeout, GiveUp
    <3>2. timeouts' \in Nat /\ spoiled' \in Nat
      BY <3>1 DEF WindowShape
    <3>3. exec' = [busy |-> exec.busy, cmd |-> exec.cmd, own |-> FALSE]
      BY <3>1 DEF WindowShape
    <3>4. irq' \in BOOLEAN
      BY <3>1
    <3>5. QED BY <3>1, <3>2, <3>3, <3>4 DEF WindowShape
  <2>2. PostedWhole'
    BY <1>4 DEF Timeout, GiveUp, PostedWhole
  <2>3. ~StaleResult /\ ~StaleResult'
    BY <1>4 DEF Timeout, GiveUp, StaleResult
  <2>4. timeouts' = timeouts + 1 /\ spoiled' = spoiled
    BY <1>4 DEF Timeout, GiveUp
  <2>5. DebtsPaid'
    BY <2>3, <2>4 DEF DebtsPaid, Debt, WindowShape
  <2>6. QED BY <2>1, <2>2, <2>5
<1>5. CASE Collect
  BY <1>5 DEF Collect, WindowShape, PostedWhole, DebtsPaid, Debt, StaleRun, StaleResult,
              windowVars
<1>6. CASE Return
  BY <1>6 DEF Return, WindowShape, PostedWhole, DebtsPaid, Debt, StaleRun, StaleResult,
              windowVars, windowHistory
<1>7. CASE A53Take
  BY <1>7 DEF A53Take, WindowShape, PostedWhole, DebtsPaid, Debt, StaleRun, StaleResult,
              toolVars, windowVars
<1>8. CASE A53Bad
  BY <1>8, AnswerKeeps DEF A53Bad
<1>9. ASSUME NEW v, A53Done(v) PROVE WindowInv'
  BY <1>9, AnswerKeeps DEF A53Done
<1>10. QED
  BY <1>1, <1>2, <1>3, <1>4, <1>5, <1>6, <1>7, <1>8, <1>9 DEF WindowStep, Sending

LEMMA WindowStutters == ASSUME WindowInv, UNCHANGED cwVars PROVE WindowInv'
BY DEF cwVars, toolVars, windowVars, windowHistory, WindowInv, WindowShape, PostedWhole,
       DebtsPaid, Debt, StaleRun, StaleResult

LEMMA WindowApart == WindowInv => CommandsApart
BY DEF WindowInv, WindowShape, PostedWhole, DebtsPaid, Debt, CommandsApart, TakenWhole,
       SpoilsOne

\* send_cmd_to_a53_sync keeps commands apart for any program that uses it, any
\* commands and any number of failures.
THEOREM WindowHolds == CWSpec => []CommandsApart
<1>1. ASSUME WindowInv, [CWNext]_cwVars PROVE WindowInv'
  BY <1>1, WindowKept, WindowStutters DEF CWNext, WindowStep
<1>2. QED BY <1>1, WindowInit, WindowApart, PTL DEF CWSpec
-----------------------------------------------------------------------------
\* A step of the tool or of the board is one of the window, or leaves it alone.
LEMMA ToolSteps == ASSUME [Next]_vars PROVE WindowStep \/ UNCHANGED cwVars
<1>1. CASE UNCHANGED vars
  BY <1>1 DEF vars
<1>2. CASE Send \/ Next_step
  BY <1>2 DEF Send, Next_step, WindowStep
<1>3. CASE Post \/ PollDone \/ Collect \/ Timeout
  BY <1>3 DEF WindowStep, Sending
<1>4. CASE DecideCheck \/ DecideLock \/ DecideLoop \/ DecideLinkA \/ DecideLinkB
  BY <1>4 DEF DecideCheck, DecideLock, DecideLoop, DecideLinkA, DecideLinkB, LocalsOnly
<1>5. CASE A53
  BY <1>5 DEF A53, Execute, WindowStep
<1>6. QED BY <1>1, <1>2, <1>3, <1>4, <1>5 DEF Next, Tool

\* The commands of serdes_cfg stay apart, for any index, rate and amplitude, and
\* however many of them time out or go wrong (send_cmd_to_a53_sync, called by
\* element_channel_process and iic_reg16_rd8).
THEOREM ToolCommandsApart == Spec => []CommandsApart
<1>1. Init => WindowInv
  BY WindowInit DEF Init
<1>2. ASSUME WindowInv, [Next]_vars PROVE WindowInv'
  BY <1>2, ToolSteps, WindowKept, WindowStutters
<1>3. QED BY <1>1, <1>2, WindowApart, PTL DEF Spec
-----------------------------------------------------------------------------
\* What a run of the tool consists of; a decision ends a list of them.
Names ==
    {"", "detect", "element", "sensor", "probe", "linkA", "linkB",
     "0x90", "0x80", "0xc0", "0xc4", "0x34", "0x36", "0x38", "0x6c", "0x20", "0x42",
     "select", "reset", "move", "translate", "set", "a", "b", "ab",
     "read", "write", "check", "lock", "loop", "se", "de",
     "RLMSA4", "RLMS4", "RLMS3", "REG01", "RLMS95", "CNT0", "CTRL3",
     "rate", "lower", "off", "on", "org", "orgOn", "amp"}
Steps == [op : Names, dev : Names, reg : Names, as : Names]

StepsEnd(t) ==
    /\ t \in Seq(Steps)
    /\ \A k \in 1 .. Len(t) : t[k].op \in Decisions => k = Len(t)

\* The command under way has been answered, and with what.
Answered == (phase = "poll" /\ ~irq) \/ phase \in {"collect", "back"}
Outcome == IF phase = "back" THEN cmd_result ELSE resp.value

\* As long as no command but a probe has failed, the window holds and the A53
\* runs the one at the head of the list.
InStep ==
    /\ irq => phase = "poll"
    /\ exec.busy => irq /\ exec.cmd = Command(Head(todo))
    /\ irq \/ phase = "compose" => cmd = Command(Head(todo))
    /\ resp.bad /\ Answered /\ phase # "back" => Head(todo).op = "probe"

Failed ==
    /\ failures \in Nat /\ lost \in BOOLEAN
    /\ lost => failures > 0
    /\ failures = 0 => ~resp.bad

UnderWay ==
    /\ phase \in Phases
    /\ phase # "idle" => todo # <<>> /\ Head(todo).op \notin Decisions

ToolInv == UnderWay /\ Failed /\ (~lost => InStep)
-----------------------------------------------------------------------------
\* link_margin: the steps it has.
MarginStep(s) ==
    /\ s.op \in {"detect", "read", "write", "check", "lock", "loop"}
    /\ s.op \in {"read", "write"} => s.dev \in Chips /\ s.reg \in Regs
    /\ s.as \in {"", "rate", "lower"} <=> s.op # "write"
    /\ s.as = "rate" => s.op = "read" /\ s.reg = "REG01"
    /\ s.as = "lower" => s.op = "read" /\ s.dev = "se" /\ s.reg = "RLMS95"
    /\ s.op = "write" =>
        \/ s.reg \in Switches /\ s.as \in {"off", "on"}
        \/ s.reg = "RLMS95" /\ s.as \in {"off", "org"}
        \/ s.dev = "se" /\ s.reg = "RLMS95" /\ s.as \in {"amp", "orgOn"}

\* In the loop that lowers the amplitude.
InLoop(t) == t # <<>> /\ t[Len(t)].op \in {"lock", "loop"}

\* What is left of link_margin, whatever the state.
MarginAt(t, k) ==
    /\ MarginStep(t[k])
    /\ t[k].as = "rate" /\ t[k].dev = "se" =>
        \E m \in k + 1 .. Len(t) : t[m] = W("se", "RLMS95", "org")
    /\ t[k].as \in {"lower", "amp"} => InLoop(t)
    /\ t[k].as = "lower" => k = 1
    /\ t[k].as = "lower" => \E m \in 2 .. Len(t) : t[m].as = "amp"
    /\ t[k].as = "orgOn" => k = 1
    /\ t[k].as \in {"org", "orgOn"} /\ t[k].dev = "se" => ~InLoop(t)
    /\ t[k].as = "on" =>
        \E m \in k + 1 .. Len(t) : t[m] = W(t[k].dev, t[k].reg, "off")
MarginList(t) == StepsEnd(t) /\ \A k \in 1 .. Len(t) : MarginAt(t, k)

\* What is written back has been read, or will be before that.
Kept(d, r) == r \in Switches => local[d][r].tag = d
FedAt(t, k) ==
    t[k].as \in {"off", "on"} =>
        \/ Kept(t[k].dev, t[k].reg)
        \/ \E j \in 1 .. k - 1 : t[j] = R(t[k].dev, t[k].reg)
Fed(t) == \A k \in 1 .. Len(t) : FedAt(t, k)

\* The same of the amplitude, once it is the one to start from.
Plain(t, j) ==
    \A m \in j .. Len(t) : t[m].as \in {"", "off", "on"} /\ t[m].op \notin {"lock", "loop"}
AmplitudeFedAt(t, k) ==
    t[k].as = "off" /\ t[k].dev = "se" /\ t[k].reg = "RLMS95" =>
        \/ local["se"]["RLMS95"].num = tx_amp_org["se"] /\ Plain(t, 1)
        \/ \E j \in 1 .. k - 1 : t[j] = R("se", "RLMS95") /\ Plain(t, j)
AmplitudeFed(t) == \A k \in 1 .. Len(t) : AmplitudeFedAt(t, k)

\* A switch that is on will be turned off.
TurnedOff(t) ==
    \A d \in Chips, r \in Switches :
        reg[d][r].on => \E k \in 1 .. Len(t) : t[k] = W(d, r, "off")
Tagged == \A d \in Chips, r \in Switches : reg[d][r].tag = d

Amplitude == reg["se"]["RLMS95"].num
\* The amplitude is the first one, or will be.
Restoring(t) ==
    \/ Amplitude = tx_amp_org["se"] \/ InLoop(t)
    \/ \E k \in 1 .. Len(t) : t[k].dev = "se" /\ t[k].as \in {"org", "orgOn"}

\* The first one is that of the rate.
Rated(t) ==
    \/ tx_amp_org["se"] = SeAmp
    \/ \E k \in 1 .. Len(t) : t[k].dev = "se" /\ t[k].as = "rate"

InMargin(n) == Floor <= n /\ n < SeAmp
Lowering(t) ==
    /\ InLoop(t) =>
        IF \E k \in 1 .. Len(t) : t[k].as = "lower"
        THEN Floor < Amplitude /\ Amplitude <= SeAmp
        ELSE InMargin(se_tx_amp) /\ (Amplitude = se_tx_amp \/ \E k \in 1 .. Len(t) : t[k].as = "amp")
    /\ t # <<>> /\ Head(t).as = "orgOn" /\ ~Answered =>
        InMargin(se_tx_amp) /\ Amplitude = se_tx_amp

Bytes == [on : BOOLEAN, tag : Tags, num : Nat]
\* An answer is what the register holds, and what is written is there.
Delivered ==
    Answered =>
        LET s == Head(todo) IN
        /\ s.op = "write" => reg[s.dev][s.reg] = Written(s)
        /\ s.op = "read" => Outcome \in Bytes
        /\ s.op = "read" /\ s.reg \notin {"CNT0", "CTRL3"} => Outcome = reg[s.dev][s.reg]

MarginTypes ==
    /\ reg \in [Chips -> [Regs -> Bytes]] /\ local \in [Chips -> [Regs -> Bytes]]
    /\ tx_amp_org \in [Chips -> Nat] /\ se_tx_amp \in Nat

RateKnown == reg["se"]["REG01"].num # 3

MarginInv ==
    /\ MarginTypes
    /\ Fed(todo) /\ AmplitudeFed(todo) /\ TurnedOff(todo) /\ Tagged
    /\ Restoring(todo) /\ Delivered
    /\ RateKnown => Rated(todo) /\ Lowering(todo)
-----------------------------------------------------------------------------
\* serdes_channel_init: the steps it has.
Selecting(s) == s.op = "element" /\ s.dev = "0x90" /\ s.reg \in {"select", "reset"}
Sole(l) == IF l = "linkA" THEN "a" ELSE "b"

ChannelStep(s) ==
    /\ s.op \in {"detect", "element", "sensor", "probe"} \cup Links
    /\ s.op # "element" => s.reg = ""
    /\ s.op = "detect" => s = Detect
    /\ s.reg = "select" => s.dev = "0x90" /\ s.as \in {"a", "b", "ab"}
    /\ s.reg = "move" => \E l \in Links : s = Move(Own[l])

\* Before a serializer is moved its link, and no other, is selected.
SelectsFirst(t, k, l) ==
    \E j \in 1 .. k - 1 :
        /\ t[j] = Select(Sole(l))
        /\ \A m \in j + 1 .. k - 1 : ~Selecting(t[m])

\* What is left of serdes_channel_init, whatever the state: a probe comes after
\* an i2cdetect, and its decision last.
ChannelList(t) ==
    /\ StepsEnd(t)
    /\ \A k \in 1 .. Len(t) :
        /\ ChannelStep(t[k])
        /\ t[k].op = "probe" =>
            /\ Len(t) = k + 1
            /\ k > 1 => t[k - 1] = Detect
            /\ t[k + 1].op \in Links /\ t[k].dev = Own[t[k + 1].op]
        /\ t[k].op \in Links /\ k > 1 => t[k - 1].op = "probe"

Guided(t) ==
    \A k \in 1 .. Len(t), l \in Links : t[k] = Move(Own[l]) =>
        \/ SelectsFirst(t, k, l)
        \/ selected = {l} /\ \A m \in 1 .. k - 1 : ~Selecting(t[m])

\* What an answer to a probe, in a result, tells of its link.
Tells(v, l) == v = Identity(index, Own[l]) => l \in present

Told ==
    todo # <<>> =>
        LET s == Head(todo) IN
        /\ Selecting(s) /\ s.reg = "select" /\ Answered => selected = Chosen[s.as]
        /\ s.op = "detect" /\ Answered => Outcome = Zero
        /\ s.op = "probe" /\ phase # "back" => cmd_result = Zero
        /\ s.op = "probe" /\ Answered /\ (phase = "back" \/ ~resp.bad) => Tells(Outcome, todo[2].op)
        /\ s.op \in Links => Tells(result, s.op)

ChannelInv ==
    /\ selected \subseteq Links
    /\ Guided(todo)
    /\ addr \in [Links -> {"0x80", "0xc0", "0xc4"}] /\ \A l \in Links : addr[l] \in {"0x80", Own[l]}
    /\ Told /\ LinkAnswered

ChannelI == ~MarginTool /\ ~lost => ChannelInv
-----------------------------------------------------------------------------
\* The lists of a measurement.

\* A list has n steps, in the form the provers make most of.
Long(t, n) == Len(t) <= n /\ n <= Len(t)

\* The tail of a list, and what it is a list of.
LEMMA TailIs ==
  ASSUME NEW S, NEW t \in Seq(S), t # <<>>
  PROVE  /\ Tail(t) \in Seq(S) /\ Len(Tail(t)) \in Nat /\ Len(t) \in Nat \ {0}
         /\ Len(Tail(t)) + 1 = Len(t)
         /\ \A k \in 1 .. Len(Tail(t)) : Tail(t)[k] = t[k + 1] /\ k + 1 \in 1 .. Len(t)
         /\ Head(t) = t[1] /\ t[1] \in S
OBVIOUS

\* A value within its field.
LEMMA ModSmall == ASSUME NEW n \in Nat, NEW m \in Nat, n < m PROVE n % m = n
OBVIOUS

\* What is left after a step of a measurement is left of a measurement.
LEMMA MarginTail ==
  ASSUME NEW t, MarginList(t), t # <<>>
  PROVE  MarginList(Tail(t))
<1> DEFINE u == Tail(t)
<1>1. /\ t \in Seq(Steps) /\ u \in Seq(Steps) /\ Len(u) \in Nat /\ Len(t) = Len(u) + 1
      /\ \A k \in 1 .. Len(u) : u[k] = t[k + 1] /\ k + 1 \in 1 .. Len(t)
  BY TailIs DEF MarginList, StepsEnd
<1>2. InLoop(u) => InLoop(t)
  BY <1>1 DEF InLoop
<1>3. u # <<>> /\ InLoop(t) => InLoop(u)
  <2>1. u # <<>> => Len(u) \in 1 .. Len(u)
    BY <1>1
  <2>2. QED BY <1>1, <2>1 DEF InLoop
<1> HIDE DEF u
<1>4. StepsEnd(u)
  BY <1>1 DEF MarginList, StepsEnd
<1>5. ASSUME NEW k \in 1 .. Len(u) PROVE MarginAt(u, k)
  <2>1. k + 1 \in 1 .. Len(t) /\ u[k] = t[k + 1] /\ u # <<>>
    BY <1>1
  <2>2. \A m \in (k + 1) + 1 .. Len(t) : m - 1 \in k + 1 .. Len(u) /\ u[m - 1] = t[m]
    BY <1>1
  <2>3. /\ MarginStep(t[k + 1])
        /\ t[k + 1].as = "rate" /\ t[k + 1].dev = "se" =>
              \E m \in (k + 1) + 1 .. Len(t) : t[m] = W("se", "RLMS95", "org")
        /\ t[k + 1].as \in {"lower", "amp"} => InLoop(t)
        /\ t[k + 1].as = "lower" => k + 1 = 1
        /\ t[k + 1].as = "orgOn" => k + 1 = 1
        /\ t[k + 1].as \in {"org", "orgOn"} /\ t[k + 1].dev = "se" => ~InLoop(t)
        /\ t[k + 1].as = "on" =>
              \E m \in (k + 1) + 1 .. Len(t) : t[m] = W(t[k + 1].dev, t[k + 1].reg, "off")
    BY <2>1 DEF MarginList, MarginAt
  <2>4. /\ u[k].as \in {"lower", "amp"} => InLoop(u)
        /\ u[k].as \in {"org", "orgOn"} /\ u[k].dev = "se" => ~InLoop(u)
    BY <2>1, <2>3, <1>2, <1>3
  <2>5. u[k].as # "lower" /\ u[k].as # "orgOn"
    BY <2>1, <2>3
  <2>6. u[k].as = "rate" /\ u[k].dev = "se" =>
           \E m \in k + 1 .. Len(u) : u[m] = W("se", "RLMS95", "org")
    <3>1. SUFFICES ASSUME t[k + 1].as = "rate", t[k + 1].dev = "se"
                   PROVE  \E m \in k + 1 .. Len(u) : u[m] = W("se", "RLMS95", "org")
      BY <2>1
    <3>2. PICK m \in (k + 1) + 1 .. Len(t) : t[m] = W("se", "RLMS95", "org")
      BY <3>1, <2>3
    <3>3. QED BY <3>2, <2>2
  <2>7. u[k].as = "on" => \E m \in k + 1 .. Len(u) : u[m] = W(u[k].dev, u[k].reg, "off")
    <3>1. SUFFICES ASSUME t[k + 1].as = "on"
                   PROVE  \E m \in k + 1 .. Len(u) : u[m] = W(t[k + 1].dev, t[k + 1].reg, "off")
      BY <2>1
    <3>2. PICK m \in (k + 1) + 1 .. Len(t) : t[m] = W(t[k + 1].dev, t[k + 1].reg, "off")
      BY <3>1, <2>3
    <3>3. QED BY <3>2, <2>2
  <2>8. MarginStep(u[k])
    BY <2>1, <2>3
  <2>9. QED BY <2>4, <2>5, <2>6, <2>7, <2>8 DEF MarginAt
<1>6. QED BY <1>4, <1>5 DEF MarginList, u

\* Steps are made of names.
LEMMA StepIs ==
  ASSUME NEW a \in Names, NEW b \in Names, NEW c \in Names, NEW d \in Names
  PROVE  Step(a, b, c, d) \in Steps
BY DEF Step, Steps

\* The chips, and their registers, are named.
LEMMA NamesAre ==
  /\ {"", "read", "write", "detect", "check", "lock", "loop", "rate", "lower"} \subseteq Names
  /\ {"off", "on", "org", "orgOn", "amp"} \cup Chips \cup Regs \subseteq Names
BY DEF Names, Chips, Regs, Switches

\* Reads, writes, decisions and the i2cdetect are steps.
LEMMA MarginSteps ==
  /\ \A d \in Chips, r \in Regs :
        /\ R(d, r) \in Steps
        /\ \A as \in {"off", "on", "org", "orgOn", "amp"} : W(d, r, as) \in Steps
        /\ \A as \in {"rate", "lower"} : Step("read", d, r, as) \in Steps
  /\ \A what \in {"check", "lock", "loop"} : Decide(what) \in Steps
  /\ Detect \in Steps
<1>1. ASSUME NEW d \in Chips, NEW r \in Regs PROVE R(d, r) \in Steps
  BY StepIs, NamesAre DEF R
<1>2. ASSUME NEW d \in Chips, NEW r \in Regs, NEW as \in {"off", "on", "org", "orgOn", "amp"}
      PROVE  W(d, r, as) \in Steps
  BY StepIs, NamesAre DEF W
<1>3. ASSUME NEW d \in Chips, NEW r \in Regs, NEW as \in {"rate", "lower"}
      PROVE  Step("read", d, r, as) \in Steps
  BY StepIs, NamesAre
<1>4. ASSUME NEW what \in {"check", "lock", "loop"} PROVE Decide(what) \in Steps
  BY StepIs, NamesAre DEF Decide
<1>5. Detect \in Steps
  BY StepIs, NamesAre DEF Detect
<1>6. QED BY <1>1, <1>2, <1>3, <1>4, <1>5

\* Lists in a row are a list.
LEMMA ConcatIs ==
  ASSUME NEW s \in Seq(Steps), NEW t \in Seq(Steps)
  PROVE  /\ s \o t \in Seq(Steps) /\ Len(s \o t) = Len(s) + Len(t)
         /\ \A k \in 1 .. Len(s) : (s \o t)[k] = s[k]
         /\ \A k \in 1 .. Len(t) : (s \o t)[Len(s) + k] = t[k]
OBVIOUS

\* Both chips are chips, and the registers below are registers.
LEMMA ChipsAre == "se" \in Chips /\ "de" \in Chips
BY DEF Chips
LEMMA RegsAre == {"RLMSA4", "RLMS4", "RLMS3", "REG01", "RLMS95", "CNT0", "CTRL3"} \subseteq Regs
BY DEF Regs, Switches

\* A switch of both chips, read and turned off, step by step.
LEMMA OffIs ==
  ASSUME NEW r \in Regs
  PROVE  /\ Off(r) \in Seq(Steps) /\ Long(Off(r), 4)
         /\ Off(r)[1] = R("se", r) /\ Off(r)[2] = R("de", r)
         /\ Off(r)[3] = W("se", r, "off") /\ Off(r)[4] = W("de", r, "off")
BY MarginSteps, ChipsAre, RegsAre DEF Off, Long

\* Adapt, step by step.
LEMMA AdaptIs ==
  /\ Adapt \in Seq(Steps) /\ Long(Adapt, 4)
  /\ Adapt[1] = R("de", "RLMS3") /\ Adapt[2] = W("de", "RLMS3", "on")
  /\ Adapt[3] = R("de", "RLMS3") /\ Adapt[4] = W("de", "RLMS3", "off")
BY MarginSteps, ChipsAre, RegsAre DEF Adapt, Long

\* A round of the loop that lowers the amplitude.
LEMMA LowerIs ==
  /\ Lower \in Seq(Steps) /\ Long(Lower, 8)
  /\ Lower[1] = Step("read", "se", "RLMS95", "lower") /\ Lower[2] = W("se", "RLMS95", "amp")
  /\ Lower[3] = R("de", "RLMS3") /\ Lower[4] = W("de", "RLMS3", "on")
  /\ Lower[5] = R("de", "RLMS3") /\ Lower[6] = W("de", "RLMS3", "off")
  /\ Lower[7] = R("de", "CTRL3") /\ Lower[8] = Decide("lock")
BY MarginSteps, ChipsAre, RegsAre, AdaptIs, ConcatIs DEF Lower, Long

Again == <<R("de", "CTRL3"), Decide("lock")>>
LEMMA AgainIs ==
  /\ Again \in Seq(Steps) /\ Long(Again, 2)
  /\ Again[1] = R("de", "CTRL3") /\ Again[2] = Decide("lock")
BY MarginSteps, ChipsAre, RegsAre DEF Again, Long

\* The check that the link is sound.
LEMMA CheckIs ==
  /\ Check \in Seq(Steps) /\ Long(Check, 3)
  /\ Check[1] = R("de", "CNT0") /\ Check[2] = R("de", "CTRL3") /\ Check[3] = Decide("check")
BY MarginSteps, ChipsAre, RegsAre DEF Check, Long

\* The error counter, cleared and read again.
LEMMA ErrorsIs ==
  /\ Errors \in Seq(Steps) /\ Long(Errors, 3)
  /\ Errors[1] = R("de", "CNT0") /\ Errors[2] = R("de", "CNT0") /\ Errors[3] = Decide("loop")
BY MarginSteps, ChipsAre, RegsAre DEF Errors, Long

\* link_margin_complete.
LEMMA CompleteIs ==
  /\ link_margin_complete \in Seq(Steps) /\ Long(link_margin_complete, 2)
  /\ link_margin_complete[1] = R("se", "CNT0") /\ link_margin_complete[2] = R("de", "CNT0")
BY MarginSteps, ChipsAre, RegsAre DEF link_margin_complete, Long

Closing == Restore \o link_margin_complete

\* The way out of the loop.
LEMMA ClosingIs ==
  /\ Closing \in Seq(Steps) /\ Long(Closing, 7)
  /\ Closing[1] = W("se", "RLMS95", "orgOn")
  /\ Closing[2] = R("de", "RLMS3") /\ Closing[3] = W("de", "RLMS3", "on")
  /\ Closing[4] = R("de", "RLMS3") /\ Closing[5] = W("de", "RLMS3", "off")
  /\ Closing[6] = R("se", "CNT0") /\ Closing[7] = R("de", "CNT0")
<1>1. /\ Restore \in Seq(Steps) /\ Long(Restore, 5)
      /\ Restore[1] = W("se", "RLMS95", "orgOn")
      /\ Restore[2] = R("de", "RLMS3") /\ Restore[3] = W("de", "RLMS3", "on")
      /\ Restore[4] = R("de", "RLMS3") /\ Restore[5] = W("de", "RLMS3", "off")
  BY MarginSteps, ChipsAre, RegsAre, AdaptIs, ConcatIs DEF Restore, Long
<1>2. QED BY <1>1, CompleteIs, ConcatIs DEF Closing, Long

\* link_margin_test, as far as its first decision.
LEMMA TestIs ==
  LET t == link_margin_test IN
  /\ t \in Seq(Steps) /\ Long(t, 26)
  /\ t[1] = Detect /\ t[2] = Step("read", "de", "REG01", "rate")
  /\ t[3] = W("de", "RLMS95", "org") /\ t[4] = Step("read", "se", "REG01", "rate")
  /\ t[5] = W("se", "RLMS95", "org")
  /\ t[6] = R("se", "RLMSA4") /\ t[7] = R("de", "RLMSA4")
  /\ t[8] = W("se", "RLMSA4", "off") /\ t[9] = W("de", "RLMSA4", "off")
  /\ t[10] = R("se", "RLMS4") /\ t[11] = R("de", "RLMS4")
  /\ t[12] = W("se", "RLMS4", "off") /\ t[13] = W("de", "RLMS4", "off")
  /\ t[14] = R("se", "RLMS3") /\ t[15] = R("de", "RLMS3")
  /\ t[16] = W("se", "RLMS3", "off") /\ t[17] = W("de", "RLMS3", "off")
  /\ t[18] = R("se", "RLMS95") /\ t[19] = R("de", "RLMS95")
  /\ t[20] = W("se", "RLMS95", "off") /\ t[21] = W("de", "RLMS95", "off")
  /\ t[22] = R("se", "CNT0") /\ t[23] = R("de", "CNT0")
  /\ t[24] = R("de", "CNT0") /\ t[25] = R("de", "CTRL3") /\ t[26] = Decide("check")
<1> DEFINE o1 == Off("RLMSA4") o2 == Off("RLMS4") o3 == Off("RLMS3") o4 == Off("RLMS95")
<1> DEFINE a == <<Step("read", "de", "REG01", "rate"), W("de", "RLMS95", "org"),
                  Step("read", "se", "REG01", "rate"), W("se", "RLMS95", "org")>>
           b == a \o o1
           c == b \o o2
           d == c \o o3
           e == d \o o4
           f == <<R("se", "CNT0"), R("de", "CNT0")>>
           g == <<Detect>> \o link_margin_init
<1>1. a \in Seq(Steps) /\ Long(a, 4)
  BY MarginSteps, ChipsAre, RegsAre DEF Long
<1>2. /\ a[1] = Step("read", "de", "REG01", "rate") /\ a[2] = W("de", "RLMS95", "org")
      /\ a[3] = Step("read", "se", "REG01", "rate") /\ a[4] = W("se", "RLMS95", "org")
  OBVIOUS
<1>3. f \in Seq(Steps) /\ Long(f, 2)
  BY MarginSteps, ChipsAre, RegsAre DEF Long
<1>4. f[1] = R("se", "CNT0") /\ f[2] = R("de", "CNT0")
  OBVIOUS
<1>5. /\ o1 \in Seq(Steps) /\ Long(o1, 4) /\ o2 \in Seq(Steps) /\ Long(o2, 4)
      /\ o3 \in Seq(Steps) /\ Long(o3, 4) /\ o4 \in Seq(Steps) /\ Long(o4, 4)
  BY OffIs, RegsAre
<1>6. link_margin_init = e \o f /\ link_margin_test = g \o Check
  BY DEF link_margin_init, link_margin_test
<1>7. Check \in Seq(Steps) /\ Long(Check, 3)
  BY CheckIs
<1> HIDE DEF a, f, o1, o2, o3, o4, g
<1>8. b \in Seq(Steps) /\ Long(b, 8)
  BY <1>1, <1>5 DEF Long
<1>9. \A k \in 1 .. 4 : b[k] = a[k]
  BY <1>1, <1>5 DEF Long
<1>10. \A k \in 1 .. 4 : b[4 + k] = o1[k]
  BY <1>1, <1>5 DEF Long
<1> HIDE DEF b
<1>11. c \in Seq(Steps) /\ Long(c, 12)
  BY <1>8, <1>5 DEF Long
<1>12. \A k \in 1 .. 8 : c[k] = b[k]
  BY <1>8, <1>5 DEF Long
<1>13. \A k \in 1 .. 4 : c[8 + k] = o2[k]
  BY <1>8, <1>5 DEF Long
<1> HIDE DEF c
<1>14. d \in Seq(Steps) /\ Long(d, 16)
  BY <1>11, <1>5 DEF Long
<1>15. \A k \in 1 .. 12 : d[k] = c[k]
  BY <1>11, <1>5 DEF Long
<1>16. \A k \in 1 .. 4 : d[12 + k] = o3[k]
  BY <1>11, <1>5 DEF Long
<1> HIDE DEF d
<1>17. e \in Seq(Steps) /\ Long(e, 20)
  BY <1>14, <1>5 DEF Long
<1>18. \A k \in 1 .. 16 : e[k] = d[k]
  BY <1>14, <1>5 DEF Long
<1>19. \A k \in 1 .. 4 : e[16 + k] = o4[k]
  BY <1>14, <1>5 DEF Long
<1> HIDE DEF e
<1>20. link_margin_init \in Seq(Steps) /\ Long(link_margin_init, 22)
  BY <1>3, <1>6, <1>17 DEF Long
<1>21. \A k \in 1 .. 20 : link_margin_init[k] = e[k]
  BY <1>3, <1>6, <1>17 DEF Long
<1>22. \A k \in 1 .. 2 : link_margin_init[20 + k] = f[k]
  BY <1>3, <1>6, <1>17 DEF Long
<1>23. g \in Seq(Steps) /\ Long(g, 23) /\ g[1] = Detect
  BY <1>20, MarginSteps DEF Long, g
<1>24. \A k \in 1 .. 22 : g[1 + k] = link_margin_init[k]
  BY <1>20, MarginSteps DEF Long, g
<1>25. link_margin_test \in Seq(Steps) /\ Long(link_margin_test, 26)
  BY <1>6, <1>7, <1>23 DEF Long
<1>26. \A k \in 1 .. 23 : link_margin_test[k] = g[k]
  BY <1>6, <1>7, <1>23 DEF Long
<1>27. \A k \in 1 .. 3 : link_margin_test[23 + k] = Check[k]
  BY <1>6, <1>7, <1>23 DEF Long
<1>28. \A l \in 1 .. 20 : link_margin_test[1 + l] = e[l]
  BY <1>21, <1>24, <1>26
<1>29. \A k \in 1 .. 4 : link_margin_test[17 + k] = o4[k]
  <2>1. ASSUME NEW k \in 1 .. 4 PROVE link_margin_test[17 + k] = o4[k]
    <3>1. 16 + k \in 1 .. 20 /\ 1 + (16 + k) = 17 + k
      OBVIOUS
    <3>2. QED BY <3>1, <1>28, <1>19
  <2>2. QED BY <2>1
<1>30. \A k \in 1 .. 4 : link_margin_test[13 + k] = o3[k]
  <2>1. ASSUME NEW k \in 1 .. 4 PROVE link_margin_test[13 + k] = o3[k]
    <3>1. 12 + k \in 1 .. 20 /\ 1 + (12 + k) = 13 + k /\ 12 + k \in 1 .. 16
      OBVIOUS
    <3>2. link_margin_test[13 + k] = e[12 + k]
      BY <3>1, <1>28
    <3>3. e[12 + k] = d[12 + k]
      BY <1>18
    <3>4. QED BY <3>2, <3>3, <1>16
  <2>2. QED BY <2>1
<1>31. \A k \in 1 .. 4 : link_margin_test[9 + k] = o2[k]
  <2>1. ASSUME NEW k \in 1 .. 4 PROVE link_margin_test[9 + k] = o2[k]
    <3>1. 8 + k \in 1 .. 20 /\ 1 + (8 + k) = 9 + k /\ 8 + k \in 1 .. 12
      OBVIOUS
    <3>2. link_margin_test[9 + k] = e[8 + k]
      BY <3>1, <1>28
    <3>3. e[8 + k] = c[8 + k]
      BY <1>15, <1>18
    <3>4. QED BY <3>2, <3>3, <1>13
  <2>2. QED BY <2>1
<1>32. \A k \in 1 .. 4 : link_margin_test[5 + k] = o1[k]
  <2>1. ASSUME NEW k \in 1 .. 4 PROVE link_margin_test[5 + k] = o1[k]
    <3>1. 4 + k \in 1 .. 20 /\ 1 + (4 + k) = 5 + k /\ 4 + k \in 1 .. 8
      OBVIOUS
    <3>2. link_margin_test[5 + k] = e[4 + k]
      BY <3>1, <1>28
    <3>3. e[4 + k] = b[4 + k]
      BY <1>12, <1>15, <1>18
    <3>4. QED BY <3>2, <3>3, <1>10
  <2>2. QED BY <2>1
<1>33. \A k \in 1 .. 4 : link_margin_test[1 + k] = a[k]
  <2>1. ASSUME NEW k \in 1 .. 4 PROVE link_margin_test[1 + k] = a[k]
    <3>1. 0 + k \in 1 .. 20 /\ 1 + (0 + k) = 1 + k /\ 0 + k \in 1 .. 4
      OBVIOUS
    <3>2. link_margin_test[1 + k] = e[0 + k]
      BY <3>1, <1>28
    <3>3. e[0 + k] = a[0 + k]
      BY <1>9, <1>12, <1>15, <1>18
    <3>4. QED BY <3>2, <3>3
  <2>2. QED BY <2>1
<1>34. link_margin_test[1] = Detect
  <2>1. 1 \in 1 .. 23
    OBVIOUS
  <2>2. link_margin_test[1] = g[1]
    BY <2>1, <1>26
  <2>3. QED BY <2>2, <1>23
<1>35. link_margin_test[22] = f[1] /\ link_margin_test[23] = f[2]
  BY <1>22, <1>24, <1>26
<1> DEFINE t == link_margin_test
<1>36. /\ t[2] = a[1] /\ t[3] = a[2] /\ t[4] = a[3] /\ t[5] = a[4]
       /\ t[6] = o1[1] /\ t[7] = o1[2] /\ t[8] = o1[3] /\ t[9] = o1[4]
       /\ t[10] = o2[1] /\ t[11] = o2[2] /\ t[12] = o2[3] /\ t[13] = o2[4]
       /\ t[14] = o3[1] /\ t[15] = o3[2] /\ t[16] = o3[3] /\ t[17] = o3[4]
       /\ t[18] = o4[1] /\ t[19] = o4[2] /\ t[20] = o4[3] /\ t[21] = o4[4]
       /\ t[24] = Check[1] /\ t[25] = Check[2] /\ t[26] = Check[3]
  BY <1>27, <1>29, <1>30, <1>31, <1>32, <1>33
<1>37. /\ o1[1] = R("se", "RLMSA4") /\ o1[2] = R("de", "RLMSA4")
       /\ o1[3] = W("se", "RLMSA4", "off") /\ o1[4] = W("de", "RLMSA4", "off")
       /\ o2[1] = R("se", "RLMS4") /\ o2[2] = R("de", "RLMS4")
       /\ o2[3] = W("se", "RLMS4", "off") /\ o2[4] = W("de", "RLMS4", "off")
       /\ o3[1] = R("se", "RLMS3") /\ o3[2] = R("de", "RLMS3")
       /\ o3[3] = W("se", "RLMS3", "off") /\ o3[4] = W("de", "RLMS3", "off")
       /\ o4[1] = R("se", "RLMS95") /\ o4[2] = R("de", "RLMS95")
       /\ o4[3] = W("se", "RLMS95", "off") /\ o4[4] = W("de", "RLMS95", "off")
  BY OffIs, RegsAre DEF o1, o2, o3, o4
<1>38. QED BY <1>2, <1>4, <1>25, <1>34, <1>35, <1>36, <1>37, CheckIs

\* The switches.
LEMMA SwitchesAre == {"RLMSA4", "RLMS4", "RLMS3"} \subseteq Switches
BY DEF Switches

\* Steps of a measurement have the form of one.
LEMMA FormsAre ==
  /\ \A d \in Chips, r \in Regs : LET x == R(d, r) IN
        MarginStep(x) /\ x.op = "read" /\ x.dev = d /\ x.reg = r /\ x.as = ""
  /\ \A d \in Chips, r \in Regs, as \in {"off", "on", "org", "amp", "orgOn"} : LET x == W(d, r, as) IN
        x.op = "write" /\ x.dev = d /\ x.reg = r /\ x.as = as
  /\ \A d \in Chips, r \in Switches, as \in {"off", "on"} : MarginStep(W(d, r, as))
  /\ \A d \in Chips, as \in {"off", "org"} : MarginStep(W(d, "RLMS95", as))
  /\ \A as \in {"amp", "orgOn"} : MarginStep(W("se", "RLMS95", as))
  /\ \A d \in Chips, r \in Regs, as \in {"rate", "lower"} : LET x == Step("read", d, r, as) IN
        x.op = "read" /\ x.dev = d /\ x.reg = r /\ x.as = as
  /\ \A d \in Chips : MarginStep(Step("read", d, "REG01", "rate"))
  /\ MarginStep(Step("read", "se", "RLMS95", "lower"))
  /\ \A what \in {"check", "lock", "loop"} : LET x == Decide(what) IN
        MarginStep(x) /\ x.op = what /\ x.dev = "" /\ x.as = ""
  /\ MarginStep(Detect) /\ Detect.op = "detect" /\ Detect.dev = "" /\ Detect.as = ""
<1>1. ASSUME NEW d \in Chips, NEW r \in Regs
      PROVE  LET x == R(d, r) IN
             MarginStep(x) /\ x.op = "read" /\ x.dev = d /\ x.reg = r /\ x.as = ""
  BY DEF MarginStep, R, Step
<1>2. ASSUME NEW d \in Chips, NEW r \in Switches, NEW as \in {"off", "on"}
      PROVE  MarginStep(W(d, r, as))
  BY DEF MarginStep, W, Step, Regs
<1>3. ASSUME NEW d \in Chips, NEW as \in {"off", "org"} PROVE MarginStep(W(d, "RLMS95", as))
  BY RegsAre DEF MarginStep, W, Step
<1>4. ASSUME NEW as \in {"amp", "orgOn"} PROVE MarginStep(W("se", "RLMS95", as))
  BY RegsAre, ChipsAre DEF MarginStep, W, Step
<1>5. ASSUME NEW d \in Chips PROVE MarginStep(Step("read", d, "REG01", "rate"))
  BY RegsAre DEF MarginStep, Step
<1>6. MarginStep(Step("read", "se", "RLMS95", "lower"))
  BY RegsAre, ChipsAre DEF MarginStep, Step
<1>7. ASSUME NEW what \in {"check", "lock", "loop"}
      PROVE  LET x == Decide(what) IN MarginStep(x) /\ x.op = what /\ x.dev = "" /\ x.as = ""
  BY DEF MarginStep, Decide, Step
<1>8. MarginStep(Detect) /\ Detect.op = "detect" /\ Detect.dev = "" /\ Detect.as = ""
  BY DEF MarginStep, Detect, Step
<1>9. ASSUME NEW d \in Chips, NEW r \in Regs, NEW as \in {"off", "on", "org", "amp", "orgOn"}
      PROVE  LET x == W(d, r, as) IN x.op = "write" /\ x.dev = d /\ x.reg = r /\ x.as = as
  BY DEF W, Step
<1>10. ASSUME NEW d \in Chips, NEW r \in Regs, NEW as \in {"rate", "lower"}
       PROVE  LET x == Step("read", d, r, as) IN x.op = "read" /\ x.dev = d /\ x.reg = r /\ x.as = as
  BY DEF Step
<1>11. QED BY <1>1, <1>2, <1>3, <1>4, <1>5, <1>6, <1>7, <1>8, <1>9, <1>10

\* A step that is none of the rest needs no more than its form.
LEMMA OthersFit ==
  ASSUME NEW t, NEW k, MarginStep(t[k]), t[k].as = ""
  PROVE  MarginAt(t, k) /\ FedAt(t, k) /\ AmplitudeFedAt(t, k)
BY DEF MarginAt, FedAt, AmplitudeFedAt

\* A switch that is turned off, or on, was read before.
LEMMA SwitchesFit ==
  ASSUME NEW t, NEW k \in Nat, NEW j \in 1 .. k - 1, MarginStep(t[k]), t[k].as = "off",
         t[k].reg \in Switches \/ t[k].dev = "de",
         t[j] = R(t[k].dev, t[k].reg)
  PROVE  MarginAt(t, k) /\ FedAt(t, k) /\ AmplitudeFedAt(t, k)
BY DEF MarginAt, FedAt, AmplitudeFedAt, Switches

\* The last step of a list of n.
LEMMA LastIs == ASSUME NEW t, NEW n \in Nat, Long(t, n), Len(t) \in Nat PROVE t[Len(t)] = t[n]
BY DEF Long

\* Only the last step decides.
LEMMA LastEnds ==
  ASSUME NEW t \in Seq(Steps), NEW n \in Nat, Long(t, n),
         \A k \in 1 .. Len(t) : k # n => t[k].op \notin Decisions
  PROVE  StepsEnd(t)
BY DEF Long, StepsEnd

\* A switch that is turned on is turned off later in the list.
LEMMA OnFits ==
  ASSUME NEW t, NEW k \in Nat, NEW j \in 1 .. k - 1, MarginStep(t[k]), t[k].as = "on",
         t[j] = R(t[k].dev, t[k].reg),
         NEW m \in k + 1 .. Len(t), t[m] = W(t[k].dev, t[k].reg, "off")
  PROVE  MarginAt(t, k) /\ FedAt(t, k) /\ AmplitudeFedAt(t, k)
BY DEF MarginAt, FedAt, AmplitudeFedAt

\* Every list of a measurement has the form of one, and what it writes back it
\* read: the check of the link;
LEMMA CheckList ==
  /\ MarginList(Check) /\ Fed(Check) /\ AmplitudeFed(Check) /\ ~InLoop(Check)
  /\ Check # <<>> /\ \A k \in 1 .. Len(Check) : Check[k].as = ""
<1>1. Check \in Seq(Steps) /\ Check # <<>>
  BY CheckIs DEF Long
<1>2. Len(Check) \in Nat /\ Len(Check) <= 3 /\ 3 <= Len(Check)
  BY CheckIs DEF Long
<1>3. LET x == R("de", "CNT0") IN
      MarginStep(x) /\ x.op = "read" /\ x.as = "" /\ x.dev = "de" /\ x.reg = "CNT0"
  BY DEF MarginStep, R, W, Step, Decide, Detect, Chips, Regs, Switches
<1>4. LET x == R("de", "CTRL3") IN
      MarginStep(x) /\ x.op = "read" /\ x.as = "" /\ x.dev = "de" /\ x.reg = "CTRL3"
  BY DEF MarginStep, R, W, Step, Decide, Detect, Chips, Regs, Switches
<1>5. LET x == Decide("check") IN
      MarginStep(x) /\ x.op = "check" /\ x.as = ""
  BY DEF MarginStep, R, W, Step, Decide, Detect, Chips, Regs, Switches
<1>6. LET x == Check[1] IN
      MarginStep(x) /\ x.op = "read" /\ x.as = "" /\ x.dev = "de" /\ x.reg = "CNT0"
  BY CheckIs, <1>3
<1>7. LET x == Check[2] IN
      MarginStep(x) /\ x.op = "read" /\ x.as = "" /\ x.dev = "de" /\ x.reg = "CTRL3"
  BY CheckIs, <1>4
<1>8. LET x == Check[3] IN
      MarginStep(x) /\ x.op = "check" /\ x.as = ""
  BY CheckIs, <1>5
<1>9. Check[Len(Check)] = Check[3]
  BY <1>2, LastIs DEF Long
<1>10. ~InLoop(Check)
  BY <1>1, <1>9, <1>8 DEF InLoop
<1>11. ASSUME NEW k \in 1 .. Len(Check) PROVE k = 1 \/ k = 2 \/ k = 3
  BY <1>2
<1>12. StepsEnd(Check)
  <2> DEFINE D(k) == Check[k].op \in Decisions
  <2>1. ~D(1) BY <1>6 DEF Decisions
  <2>2. ~D(2) BY <1>7 DEF Decisions
  <2> HIDE DEF D
  <2>3. ASSUME NEW k \in 1 .. Len(Check), k # 3 PROVE ~D(k)
    BY <2>3, <1>11, <2>1, <2>2
  <2>4. QED BY <2>3, <1>1, <1>2, LastEnds DEF Long, D
<1>13. MarginAt(Check, 1) /\ FedAt(Check, 1) /\ AmplitudeFedAt(Check, 1)
  BY <1>6, OthersFit
<1>14. MarginAt(Check, 2) /\ FedAt(Check, 2) /\ AmplitudeFedAt(Check, 2)
  BY <1>7, OthersFit
<1>15. MarginAt(Check, 3) /\ FedAt(Check, 3) /\ AmplitudeFedAt(Check, 3)
  BY <1>8, OthersFit
<1>16. ASSUME NEW k \in 1 .. Len(Check) PROVE MarginAt(Check, k) /\ FedAt(Check, k) /\ AmplitudeFedAt(Check, k)
  BY <1>11, <1>13, <1>14, <1>15
<1>17. \A k \in 1 .. Len(Check) : Check[k].as = ""
  BY <1>2, <1>11, <1>6, <1>7, <1>8
<1>18. QED BY <1>10, <1>12, <1>16, <1>1, <1>17 DEF MarginList, Fed, AmplitudeFed

\* a round of the loop;
LEMMA LowerList ==
  /\ MarginList(Lower) /\ Fed(Lower) /\ AmplitudeFed(Lower) /\ InLoop(Lower)
  /\ Lower # <<>> /\ 1 \in 1 .. Len(Lower) /\ Lower[1].as = "lower"
<1>1. Lower \in Seq(Steps) /\ Lower # <<>>
  BY LowerIs DEF Long
<1>2. Len(Lower) \in Nat /\ Len(Lower) <= 8 /\ 8 <= Len(Lower)
  BY LowerIs DEF Long
<1>3. LET x == Step("read", "se", "RLMS95", "lower") IN
      MarginStep(x) /\ x.op = "read" /\ x.as = "lower" /\ x.dev = "se" /\ x.reg = "RLMS95"
  BY DEF MarginStep, R, W, Step, Decide, Detect, Chips, Regs, Switches
<1>4. LET x == W("se", "RLMS95", "amp") IN
      MarginStep(x) /\ x.op = "write" /\ x.as = "amp" /\ x.dev = "se" /\ x.reg = "RLMS95"
  BY DEF MarginStep, R, W, Step, Decide, Detect, Chips, Regs, Switches
<1>5. LET x == R("de", "RLMS3") IN
      MarginStep(x) /\ x.op = "read" /\ x.as = "" /\ x.dev = "de" /\ x.reg = "RLMS3"
  BY DEF MarginStep, R, W, Step, Decide, Detect, Chips, Regs, Switches
<1>6. LET x == W("de", "RLMS3", "on") IN
      MarginStep(x) /\ x.op = "write" /\ x.as = "on" /\ x.dev = "de" /\ x.reg = "RLMS3"
  BY DEF MarginStep, R, W, Step, Decide, Detect, Chips, Regs, Switches
<1>7. LET x == W("de", "RLMS3", "off") IN
      MarginStep(x) /\ x.op = "write" /\ x.as = "off" /\ x.dev = "de" /\ x.reg = "RLMS3"
  BY DEF MarginStep, R, W, Step, Decide, Detect, Chips, Regs, Switches
<1>8. LET x == R("de", "CTRL3") IN
      MarginStep(x) /\ x.op = "read" /\ x.as = "" /\ x.dev = "de" /\ x.reg = "CTRL3"
  BY DEF MarginStep, R, W, Step, Decide, Detect, Chips, Regs, Switches
<1>9. LET x == Decide("lock") IN
      MarginStep(x) /\ x.op = "lock" /\ x.as = ""
  BY DEF MarginStep, R, W, Step, Decide, Detect, Chips, Regs, Switches
<1>10. LET x == Lower[1] IN
      MarginStep(x) /\ x.op = "read" /\ x.as = "lower" /\ x.dev = "se" /\ x.reg = "RLMS95"
  BY LowerIs, <1>3
<1>11. LET x == Lower[2] IN
      MarginStep(x) /\ x.op = "write" /\ x.as = "amp" /\ x.dev = "se" /\ x.reg = "RLMS95"
  BY LowerIs, <1>4
<1>12. LET x == Lower[3] IN
      MarginStep(x) /\ x.op = "read" /\ x.as = "" /\ x.dev = "de" /\ x.reg = "RLMS3"
  BY LowerIs, <1>5
<1>13. LET x == Lower[4] IN
      MarginStep(x) /\ x.op = "write" /\ x.as = "on" /\ x.dev = "de" /\ x.reg = "RLMS3"
  BY LowerIs, <1>6
<1>14. LET x == Lower[5] IN
      MarginStep(x) /\ x.op = "read" /\ x.as = "" /\ x.dev = "de" /\ x.reg = "RLMS3"
  BY LowerIs, <1>5
<1>15. LET x == Lower[6] IN
      MarginStep(x) /\ x.op = "write" /\ x.as = "off" /\ x.dev = "de" /\ x.reg = "RLMS3"
  BY LowerIs, <1>7
<1>16. LET x == Lower[7] IN
      MarginStep(x) /\ x.op = "read" /\ x.as = "" /\ x.dev = "de" /\ x.reg = "CTRL3"
  BY LowerIs, <1>8
<1>17. LET x == Lower[8] IN
      MarginStep(x) /\ x.op = "lock" /\ x.as = ""
  BY LowerIs, <1>9
<1>18. Lower[Len(Lower)] = Lower[8]
  BY <1>2, LastIs DEF Long
<1>19. InLoop(Lower)
  BY <1>1, <1>18, <1>17 DEF InLoop
<1>20. ASSUME NEW k \in 1 .. Len(Lower) PROVE k = 1 \/ k = 2 \/ k = 3 \/ k = 4 \/ k = 5 \/ k = 6 \/ k = 7 \/ k = 8
  BY <1>2
<1>21. StepsEnd(Lower)
  <2> DEFINE D(k) == Lower[k].op \in Decisions
  <2>1. ~D(1) BY <1>10 DEF Decisions
  <2>2. ~D(2) BY <1>11 DEF Decisions
  <2>3. ~D(3) BY <1>12 DEF Decisions
  <2>4. ~D(4) BY <1>13 DEF Decisions
  <2>5. ~D(5) BY <1>14 DEF Decisions
  <2>6. ~D(6) BY <1>15 DEF Decisions
  <2>7. ~D(7) BY <1>16 DEF Decisions
  <2> HIDE DEF D
  <2>8. ASSUME NEW k \in 1 .. Len(Lower), k # 8 PROVE ~D(k)
    BY <2>8, <1>20, <2>1, <2>2, <2>3, <2>4, <2>5, <2>6, <2>7
  <2>9. QED BY <2>8, <1>1, <1>2, LastEnds DEF Long, D
<1>22. MarginAt(Lower, 1) /\ FedAt(Lower, 1) /\ AmplitudeFedAt(Lower, 1)
  BY <1>2, 2 \in 1 + 1 .. Len(Lower), <1>19, LowerIs, <1>10, <1>11 DEF MarginAt, FedAt, AmplitudeFedAt
<1>23. MarginAt(Lower, 2) /\ FedAt(Lower, 2) /\ AmplitudeFedAt(Lower, 2)
  BY <1>2, <1>19, LowerIs, <1>11, <1>12, <1>13 DEF MarginAt, FedAt, AmplitudeFedAt, Plain
<1>24. MarginAt(Lower, 3) /\ FedAt(Lower, 3) /\ AmplitudeFedAt(Lower, 3)
  BY <1>12, OthersFit
<1>25. MarginAt(Lower, 4) /\ FedAt(Lower, 4) /\ AmplitudeFedAt(Lower, 4)
  BY <1>2, <1>13, LowerIs, OnFits, 3 \in 1 .. 4 - 1, 6 \in 4 + 1 .. Len(Lower)
<1>26. MarginAt(Lower, 5) /\ FedAt(Lower, 5) /\ AmplitudeFedAt(Lower, 5)
  BY <1>14, OthersFit
<1>27. MarginAt(Lower, 6) /\ FedAt(Lower, 6) /\ AmplitudeFedAt(Lower, 6)
  BY <1>15, LowerIs, SwitchesFit, 5 \in 1 .. 6 - 1, SwitchesAre
<1>28. MarginAt(Lower, 7) /\ FedAt(Lower, 7) /\ AmplitudeFedAt(Lower, 7)
  BY <1>16, OthersFit
<1>29. MarginAt(Lower, 8) /\ FedAt(Lower, 8) /\ AmplitudeFedAt(Lower, 8)
  BY <1>17, OthersFit
<1>30. ASSUME NEW k \in 1 .. Len(Lower) PROVE MarginAt(Lower, k) /\ FedAt(Lower, k) /\ AmplitudeFedAt(Lower, k)
  BY <1>20, <1>22, <1>23, <1>24, <1>25, <1>26, <1>27, <1>28, <1>29
<1>31. 1 \in 1 .. Len(Lower) /\ Lower[1].as = "lower"
  BY <1>1, <1>2, <1>10
<1>32. QED BY <1>19, <1>21, <1>30, <1>1, <1>31 DEF MarginList, Fed, AmplitudeFed

\* the lock bit, read again;
LEMMA AgainList ==
  /\ MarginList(Again) /\ Fed(Again) /\ AmplitudeFed(Again) /\ InLoop(Again)
  /\ Again # <<>> /\ \A k \in 1 .. Len(Again) : Again[k].as = ""
<1>1. Again \in Seq(Steps) /\ Again # <<>>
  BY AgainIs DEF Long
<1>2. Len(Again) \in Nat /\ Len(Again) <= 2 /\ 2 <= Len(Again)
  BY AgainIs DEF Long
<1>3. LET x == R("de", "CTRL3") IN
      MarginStep(x) /\ x.op = "read" /\ x.as = "" /\ x.dev = "de" /\ x.reg = "CTRL3"
  BY DEF MarginStep, R, W, Step, Decide, Detect, Chips, Regs, Switches
<1>4. LET x == Decide("lock") IN
      MarginStep(x) /\ x.op = "lock" /\ x.as = ""
  BY DEF MarginStep, R, W, Step, Decide, Detect, Chips, Regs, Switches
<1>5. LET x == Again[1] IN
      MarginStep(x) /\ x.op = "read" /\ x.as = "" /\ x.dev = "de" /\ x.reg = "CTRL3"
  BY AgainIs, <1>3
<1>6. LET x == Again[2] IN
      MarginStep(x) /\ x.op = "lock" /\ x.as = ""
  BY AgainIs, <1>4
<1>7. Again[Len(Again)] = Again[2]
  BY <1>2, LastIs DEF Long
<1>8. InLoop(Again)
  BY <1>1, <1>7, <1>6 DEF InLoop
<1>9. ASSUME NEW k \in 1 .. Len(Again) PROVE k = 1 \/ k = 2
  BY <1>2
<1>10. StepsEnd(Again)
  <2> DEFINE D(k) == Again[k].op \in Decisions
  <2>1. ~D(1) BY <1>5 DEF Decisions
  <2> HIDE DEF D
  <2>2. ASSUME NEW k \in 1 .. Len(Again), k # 2 PROVE ~D(k)
    BY <2>2, <1>9, <2>1
  <2>3. QED BY <2>2, <1>1, <1>2, LastEnds DEF Long, D
<1>11. MarginAt(Again, 1) /\ FedAt(Again, 1) /\ AmplitudeFedAt(Again, 1)
  BY <1>5, OthersFit
<1>12. MarginAt(Again, 2) /\ FedAt(Again, 2) /\ AmplitudeFedAt(Again, 2)
  BY <1>6, OthersFit
<1>13. ASSUME NEW k \in 1 .. Len(Again) PROVE MarginAt(Again, k) /\ FedAt(Again, k) /\ AmplitudeFedAt(Again, k)
  BY <1>9, <1>11, <1>12
<1>14. \A k \in 1 .. Len(Again) : Again[k].as = ""
  BY <1>2, <1>9, <1>5, <1>6
<1>15. QED BY <1>8, <1>10, <1>13, <1>1, <1>14 DEF MarginList, Fed, AmplitudeFed

\* the error counter;
LEMMA ErrorsList ==
  /\ MarginList(Errors) /\ Fed(Errors) /\ AmplitudeFed(Errors) /\ InLoop(Errors)
  /\ Errors # <<>> /\ \A k \in 1 .. Len(Errors) : Errors[k].as = ""
<1>1. Errors \in Seq(Steps) /\ Errors # <<>>
  BY ErrorsIs DEF Long
<1>2. Len(Errors) \in Nat /\ Len(Errors) <= 3 /\ 3 <= Len(Errors)
  BY ErrorsIs DEF Long
<1>3. LET x == R("de", "CNT0") IN
      MarginStep(x) /\ x.op = "read" /\ x.as = "" /\ x.dev = "de" /\ x.reg = "CNT0"
  BY DEF MarginStep, R, W, Step, Decide, Detect, Chips, Regs, Switches
<1>4. LET x == Decide("loop") IN
      MarginStep(x) /\ x.op = "loop" /\ x.as = ""
  BY DEF MarginStep, R, W, Step, Decide, Detect, Chips, Regs, Switches
<1>5. LET x == Errors[1] IN
      MarginStep(x) /\ x.op = "read" /\ x.as = "" /\ x.dev = "de" /\ x.reg = "CNT0"
  BY ErrorsIs, <1>3
<1>6. LET x == Errors[2] IN
      MarginStep(x) /\ x.op = "read" /\ x.as = "" /\ x.dev = "de" /\ x.reg = "CNT0"
  BY ErrorsIs, <1>3
<1>7. LET x == Errors[3] IN
      MarginStep(x) /\ x.op = "loop" /\ x.as = ""
  BY ErrorsIs, <1>4
<1>8. Errors[Len(Errors)] = Errors[3]
  BY <1>2, LastIs DEF Long
<1>9. InLoop(Errors)
  BY <1>1, <1>8, <1>7 DEF InLoop
<1>10. ASSUME NEW k \in 1 .. Len(Errors) PROVE k = 1 \/ k = 2 \/ k = 3
  BY <1>2
<1>11. StepsEnd(Errors)
  <2> DEFINE D(k) == Errors[k].op \in Decisions
  <2>1. ~D(1) BY <1>5 DEF Decisions
  <2>2. ~D(2) BY <1>6 DEF Decisions
  <2> HIDE DEF D
  <2>3. ASSUME NEW k \in 1 .. Len(Errors), k # 3 PROVE ~D(k)
    BY <2>3, <1>10, <2>1, <2>2
  <2>4. QED BY <2>3, <1>1, <1>2, LastEnds DEF Long, D
<1>12. MarginAt(Errors, 1) /\ FedAt(Errors, 1) /\ AmplitudeFedAt(Errors, 1)
  BY <1>5, OthersFit
<1>13. MarginAt(Errors, 2) /\ FedAt(Errors, 2) /\ AmplitudeFedAt(Errors, 2)
  BY <1>6, OthersFit
<1>14. MarginAt(Errors, 3) /\ FedAt(Errors, 3) /\ AmplitudeFedAt(Errors, 3)
  BY <1>7, OthersFit
<1>15. ASSUME NEW k \in 1 .. Len(Errors) PROVE MarginAt(Errors, k) /\ FedAt(Errors, k) /\ AmplitudeFedAt(Errors, k)
  BY <1>10, <1>12, <1>13, <1>14
<1>16. \A k \in 1 .. Len(Errors) : Errors[k].as = ""
  BY <1>2, <1>10, <1>5, <1>6, <1>7
<1>17. QED BY <1>9, <1>11, <1>15, <1>1, <1>16 DEF MarginList, Fed, AmplitudeFed

\* the way out of the loop;
LEMMA ClosingList ==
  /\ MarginList(Closing) /\ Fed(Closing) /\ AmplitudeFed(Closing) /\ ~InLoop(Closing)
  /\ Closing # <<>> /\ 1 \in 1 .. Len(Closing) /\ Closing[1].as = "orgOn" /\ Closing[1].dev = "se"
<1>1. Closing \in Seq(Steps) /\ Closing # <<>>
  BY ClosingIs DEF Long
<1>2. Len(Closing) \in Nat /\ Len(Closing) <= 7 /\ 7 <= Len(Closing)
  BY ClosingIs DEF Long
<1>3. LET x == W("se", "RLMS95", "orgOn") IN
      MarginStep(x) /\ x.op = "write" /\ x.as = "orgOn" /\ x.dev = "se" /\ x.reg = "RLMS95"
  BY DEF MarginStep, R, W, Step, Decide, Detect, Chips, Regs, Switches
<1>4. LET x == R("de", "RLMS3") IN
      MarginStep(x) /\ x.op = "read" /\ x.as = "" /\ x.dev = "de" /\ x.reg = "RLMS3"
  BY DEF MarginStep, R, W, Step, Decide, Detect, Chips, Regs, Switches
<1>5. LET x == W("de", "RLMS3", "on") IN
      MarginStep(x) /\ x.op = "write" /\ x.as = "on" /\ x.dev = "de" /\ x.reg = "RLMS3"
  BY DEF MarginStep, R, W, Step, Decide, Detect, Chips, Regs, Switches
<1>6. LET x == W("de", "RLMS3", "off") IN
      MarginStep(x) /\ x.op = "write" /\ x.as = "off" /\ x.dev = "de" /\ x.reg = "RLMS3"
  BY DEF MarginStep, R, W, Step, Decide, Detect, Chips, Regs, Switches
<1>7. LET x == R("se", "CNT0") IN
      MarginStep(x) /\ x.op = "read" /\ x.as = "" /\ x.dev = "se" /\ x.reg = "CNT0"
  BY DEF MarginStep, R, W, Step, Decide, Detect, Chips, Regs, Switches
<1>8. LET x == R("de", "CNT0") IN
      MarginStep(x) /\ x.op = "read" /\ x.as = "" /\ x.dev = "de" /\ x.reg = "CNT0"
  BY DEF MarginStep, R, W, Step, Decide, Detect, Chips, Regs, Switches
<1>9. LET x == Closing[1] IN
      MarginStep(x) /\ x.op = "write" /\ x.as = "orgOn" /\ x.dev = "se" /\ x.reg = "RLMS95"
  BY ClosingIs, <1>3
<1>10. LET x == Closing[2] IN
      MarginStep(x) /\ x.op = "read" /\ x.as = "" /\ x.dev = "de" /\ x.reg = "RLMS3"
  BY ClosingIs, <1>4
<1>11. LET x == Closing[3] IN
      MarginStep(x) /\ x.op = "write" /\ x.as = "on" /\ x.dev = "de" /\ x.reg = "RLMS3"
  BY ClosingIs, <1>5
<1>12. LET x == Closing[4] IN
      MarginStep(x) /\ x.op = "read" /\ x.as = "" /\ x.dev = "de" /\ x.reg = "RLMS3"
  BY ClosingIs, <1>4
<1>13. LET x == Closing[5] IN
      MarginStep(x) /\ x.op = "write" /\ x.as = "off" /\ x.dev = "de" /\ x.reg = "RLMS3"
  BY ClosingIs, <1>6
<1>14. LET x == Closing[6] IN
      MarginStep(x) /\ x.op = "read" /\ x.as = "" /\ x.dev = "se" /\ x.reg = "CNT0"
  BY ClosingIs, <1>7
<1>15. LET x == Closing[7] IN
      MarginStep(x) /\ x.op = "read" /\ x.as = "" /\ x.dev = "de" /\ x.reg = "CNT0"
  BY ClosingIs, <1>8
<1>16. Closing[Len(Closing)] = Closing[7]
  BY <1>2, LastIs DEF Long
<1>17. ~InLoop(Closing)
  BY <1>1, <1>16, <1>15 DEF InLoop
<1>18. ASSUME NEW k \in 1 .. Len(Closing) PROVE k = 1 \/ k = 2 \/ k = 3 \/ k = 4 \/ k = 5 \/ k = 6 \/ k = 7
  BY <1>2
<1>19. StepsEnd(Closing)
  <2> DEFINE D(k) == Closing[k].op \in Decisions
  <2>1. ~D(1) BY <1>9 DEF Decisions
  <2>2. ~D(2) BY <1>10 DEF Decisions
  <2>3. ~D(3) BY <1>11 DEF Decisions
  <2>4. ~D(4) BY <1>12 DEF Decisions
  <2>5. ~D(5) BY <1>13 DEF Decisions
  <2>6. ~D(6) BY <1>14 DEF Decisions
  <2> HIDE DEF D
  <2>7. ASSUME NEW k \in 1 .. Len(Closing), k # 7 PROVE ~D(k)
    BY <2>7, <1>18, <2>1, <2>2, <2>3, <2>4, <2>5, <2>6
  <2>8. QED BY <2>7, <1>1, <1>2, LastEnds DEF Long, D
<1>20. MarginAt(Closing, 1) /\ FedAt(Closing, 1) /\ AmplitudeFedAt(Closing, 1)
  BY <1>2, <1>17, ClosingIs, <1>9, <1>10, <1>11 DEF MarginAt, FedAt, AmplitudeFedAt, Plain
<1>21. MarginAt(Closing, 2) /\ FedAt(Closing, 2) /\ AmplitudeFedAt(Closing, 2)
  BY <1>10, OthersFit
<1>22. MarginAt(Closing, 3) /\ FedAt(Closing, 3) /\ AmplitudeFedAt(Closing, 3)
  BY <1>2, <1>11, ClosingIs, OnFits, 2 \in 1 .. 3 - 1, 5 \in 3 + 1 .. Len(Closing)
<1>23. MarginAt(Closing, 4) /\ FedAt(Closing, 4) /\ AmplitudeFedAt(Closing, 4)
  BY <1>12, OthersFit
<1>24. MarginAt(Closing, 5) /\ FedAt(Closing, 5) /\ AmplitudeFedAt(Closing, 5)
  BY <1>13, ClosingIs, SwitchesFit, 4 \in 1 .. 5 - 1, SwitchesAre
<1>25. MarginAt(Closing, 6) /\ FedAt(Closing, 6) /\ AmplitudeFedAt(Closing, 6)
  BY <1>14, OthersFit
<1>26. MarginAt(Closing, 7) /\ FedAt(Closing, 7) /\ AmplitudeFedAt(Closing, 7)
  BY <1>15, OthersFit
<1>27. ASSUME NEW k \in 1 .. Len(Closing) PROVE MarginAt(Closing, k) /\ FedAt(Closing, k) /\ AmplitudeFedAt(Closing, k)
  BY <1>18, <1>20, <1>21, <1>22, <1>23, <1>24, <1>25, <1>26
<1>28. 1 \in 1 .. Len(Closing) /\ Closing[1].as = "orgOn" /\ Closing[1].dev = "se"
  BY <1>1, <1>2, <1>9
<1>29. QED BY <1>17, <1>19, <1>27, <1>1, <1>28 DEF MarginList, Fed, AmplitudeFed

\* link_margin_complete;
LEMMA CompleteList ==
  /\ MarginList(link_margin_complete) /\ Fed(link_margin_complete) /\ AmplitudeFed(link_margin_complete) /\ ~InLoop(link_margin_complete)
  /\ link_margin_complete # <<>> /\ \A k \in 1 .. Len(link_margin_complete) : link_margin_complete[k].as = ""
<1>1. link_margin_complete \in Seq(Steps) /\ link_margin_complete # <<>>
  BY CompleteIs DEF Long
<1>2. Len(link_margin_complete) \in Nat /\ Len(link_margin_complete) <= 2 /\ 2 <= Len(link_margin_complete)
  BY CompleteIs DEF Long
<1>3. LET x == R("se", "CNT0") IN
      MarginStep(x) /\ x.op = "read" /\ x.as = "" /\ x.dev = "se" /\ x.reg = "CNT0"
  BY DEF MarginStep, R, W, Step, Decide, Detect, Chips, Regs, Switches
<1>4. LET x == R("de", "CNT0") IN
      MarginStep(x) /\ x.op = "read" /\ x.as = "" /\ x.dev = "de" /\ x.reg = "CNT0"
  BY DEF MarginStep, R, W, Step, Decide, Detect, Chips, Regs, Switches
<1>5. LET x == link_margin_complete[1] IN
      MarginStep(x) /\ x.op = "read" /\ x.as = "" /\ x.dev = "se" /\ x.reg = "CNT0"
  BY CompleteIs, <1>3
<1>6. LET x == link_margin_complete[2] IN
      MarginStep(x) /\ x.op = "read" /\ x.as = "" /\ x.dev = "de" /\ x.reg = "CNT0"
  BY CompleteIs, <1>4
<1>7. link_margin_complete[Len(link_margin_complete)] = link_margin_complete[2]
  BY <1>2, LastIs DEF Long
<1>8. ~InLoop(link_margin_complete)
  BY <1>1, <1>7, <1>6 DEF InLoop
<1>9. ASSUME NEW k \in 1 .. Len(link_margin_complete) PROVE k = 1 \/ k = 2
  BY <1>2
<1>10. StepsEnd(link_margin_complete)
  <2> DEFINE D(k) == link_margin_complete[k].op \in Decisions
  <2>1. ~D(1) BY <1>5 DEF Decisions
  <2> HIDE DEF D
  <2>2. ASSUME NEW k \in 1 .. Len(link_margin_complete), k # 2 PROVE ~D(k)
    BY <2>2, <1>9, <2>1
  <2>3. QED BY <2>2, <1>1, <1>2, LastEnds DEF Long, D
<1>11. MarginAt(link_margin_complete, 1) /\ FedAt(link_margin_complete, 1) /\ AmplitudeFedAt(link_margin_complete, 1)
  BY <1>5, OthersFit
<1>12. MarginAt(link_margin_complete, 2) /\ FedAt(link_margin_complete, 2) /\ AmplitudeFedAt(link_margin_complete, 2)
  BY <1>6, OthersFit
<1>13. ASSUME NEW k \in 1 .. Len(link_margin_complete) PROVE MarginAt(link_margin_complete, k) /\ FedAt(link_margin_complete, k) /\ AmplitudeFedAt(link_margin_complete, k)
  BY <1>9, <1>11, <1>12
<1>14. \A k \in 1 .. Len(link_margin_complete) : link_margin_complete[k].as = ""
  BY <1>2, <1>9, <1>5, <1>6
<1>15. QED BY <1>8, <1>10, <1>13, <1>1, <1>14 DEF MarginList, Fed, AmplitudeFed

\* link_margin_test from its beginning.
LEMMA TestList ==
  /\ MarginList(link_margin_test) /\ Fed(link_margin_test) /\ AmplitudeFed(link_margin_test) /\ ~InLoop(link_margin_test)
<1>1. link_margin_test \in Seq(Steps) /\ link_margin_test # <<>>
  BY TestIs DEF Long
<1>2. Len(link_margin_test) \in Nat /\ Len(link_margin_test) <= 26 /\ 26 <= Len(link_margin_test)
  BY TestIs DEF Long
<1>3. LET x == Detect IN
      MarginStep(x) /\ x.op = "detect" /\ x.as = ""
  BY DEF MarginStep, R, W, Step, Decide, Detect, Chips, Regs, Switches
<1>4. LET x == Step("read", "de", "REG01", "rate") IN
      MarginStep(x) /\ x.op = "read" /\ x.as = "rate" /\ x.dev = "de" /\ x.reg = "REG01"
  BY DEF MarginStep, R, W, Step, Decide, Detect, Chips, Regs, Switches
<1>5. LET x == W("de", "RLMS95", "org") IN
      MarginStep(x) /\ x.op = "write" /\ x.as = "org" /\ x.dev = "de" /\ x.reg = "RLMS95"
  BY DEF MarginStep, R, W, Step, Decide, Detect, Chips, Regs, Switches
<1>6. LET x == Step("read", "se", "REG01", "rate") IN
      MarginStep(x) /\ x.op = "read" /\ x.as = "rate" /\ x.dev = "se" /\ x.reg = "REG01"
  BY DEF MarginStep, R, W, Step, Decide, Detect, Chips, Regs, Switches
<1>7. LET x == W("se", "RLMS95", "org") IN
      MarginStep(x) /\ x.op = "write" /\ x.as = "org" /\ x.dev = "se" /\ x.reg = "RLMS95"
  BY DEF MarginStep, R, W, Step, Decide, Detect, Chips, Regs, Switches
<1>8. LET x == R("se", "RLMSA4") IN
      MarginStep(x) /\ x.op = "read" /\ x.as = "" /\ x.dev = "se" /\ x.reg = "RLMSA4"
  BY DEF MarginStep, R, W, Step, Decide, Detect, Chips, Regs, Switches
<1>9. LET x == R("de", "RLMSA4") IN
      MarginStep(x) /\ x.op = "read" /\ x.as = "" /\ x.dev = "de" /\ x.reg = "RLMSA4"
  BY DEF MarginStep, R, W, Step, Decide, Detect, Chips, Regs, Switches
<1>10. LET x == W("se", "RLMSA4", "off") IN
      MarginStep(x) /\ x.op = "write" /\ x.as = "off" /\ x.dev = "se" /\ x.reg = "RLMSA4"
  BY DEF MarginStep, R, W, Step, Decide, Detect, Chips, Regs, Switches
<1>11. LET x == W("de", "RLMSA4", "off") IN
      MarginStep(x) /\ x.op = "write" /\ x.as = "off" /\ x.dev = "de" /\ x.reg = "RLMSA4"
  BY DEF MarginStep, R, W, Step, Decide, Detect, Chips, Regs, Switches
<1>12. LET x == R("se", "RLMS4") IN
      MarginStep(x) /\ x.op = "read" /\ x.as = "" /\ x.dev = "se" /\ x.reg = "RLMS4"
  BY DEF MarginStep, R, W, Step, Decide, Detect, Chips, Regs, Switches
<1>13. LET x == R("de", "RLMS4") IN
      MarginStep(x) /\ x.op = "read" /\ x.as = "" /\ x.dev = "de" /\ x.reg = "RLMS4"
  BY DEF MarginStep, R, W, Step, Decide, Detect, Chips, Regs, Switches
<1>14. LET x == W("se", "RLMS4", "off") IN
      MarginStep(x) /\ x.op = "write" /\ x.as = "off" /\ x.dev = "se" /\ x.reg = "RLMS4"
  BY DEF MarginStep, R, W, Step, Decide, Detect, Chips, Regs, Switches
<1>15. LET x == W("de", "RLMS4", "off") IN
      MarginStep(x) /\ x.op = "write" /\ x.as = "off" /\ x.dev = "de" /\ x.reg = "RLMS4"
  BY DEF MarginStep, R, W, Step, Decide, Detect, Chips, Regs, Switches
<1>16. LET x == R("se", "RLMS3") IN
      MarginStep(x) /\ x.op = "read" /\ x.as = "" /\ x.dev = "se" /\ x.reg = "RLMS3"
  BY DEF MarginStep, R, W, Step, Decide, Detect, Chips, Regs, Switches
<1>17. LET x == R("de", "RLMS3") IN
      MarginStep(x) /\ x.op = "read" /\ x.as = "" /\ x.dev = "de" /\ x.reg = "RLMS3"
  BY DEF MarginStep, R, W, Step, Decide, Detect, Chips, Regs, Switches
<1>18. LET x == W("se", "RLMS3", "off") IN
      MarginStep(x) /\ x.op = "write" /\ x.as = "off" /\ x.dev = "se" /\ x.reg = "RLMS3"
  BY DEF MarginStep, R, W, Step, Decide, Detect, Chips, Regs, Switches
<1>19. LET x == W("de", "RLMS3", "off") IN
      MarginStep(x) /\ x.op = "write" /\ x.as = "off" /\ x.dev = "de" /\ x.reg = "RLMS3"
  BY DEF MarginStep, R, W, Step, Decide, Detect, Chips, Regs, Switches
<1>20. LET x == R("se", "RLMS95") IN
      MarginStep(x) /\ x.op = "read" /\ x.as = "" /\ x.dev = "se" /\ x.reg = "RLMS95"
  BY DEF MarginStep, R, W, Step, Decide, Detect, Chips, Regs, Switches
<1>21. LET x == R("de", "RLMS95") IN
      MarginStep(x) /\ x.op = "read" /\ x.as = "" /\ x.dev = "de" /\ x.reg = "RLMS95"
  BY DEF MarginStep, R, W, Step, Decide, Detect, Chips, Regs, Switches
<1>22. LET x == W("se", "RLMS95", "off") IN
      MarginStep(x) /\ x.op = "write" /\ x.as = "off" /\ x.dev = "se" /\ x.reg = "RLMS95"
  BY DEF MarginStep, R, W, Step, Decide, Detect, Chips, Regs, Switches
<1>23. LET x == W("de", "RLMS95", "off") IN
      MarginStep(x) /\ x.op = "write" /\ x.as = "off" /\ x.dev = "de" /\ x.reg = "RLMS95"
  BY DEF MarginStep, R, W, Step, Decide, Detect, Chips, Regs, Switches
<1>24. LET x == R("se", "CNT0") IN
      MarginStep(x) /\ x.op = "read" /\ x.as = "" /\ x.dev = "se" /\ x.reg = "CNT0"
  BY DEF MarginStep, R, W, Step, Decide, Detect, Chips, Regs, Switches
<1>25. LET x == R("de", "CNT0") IN
      MarginStep(x) /\ x.op = "read" /\ x.as = "" /\ x.dev = "de" /\ x.reg = "CNT0"
  BY DEF MarginStep, R, W, Step, Decide, Detect, Chips, Regs, Switches
<1>26. LET x == R("de", "CTRL3") IN
      MarginStep(x) /\ x.op = "read" /\ x.as = "" /\ x.dev = "de" /\ x.reg = "CTRL3"
  BY DEF MarginStep, R, W, Step, Decide, Detect, Chips, Regs, Switches
<1>27. LET x == Decide("check") IN
      MarginStep(x) /\ x.op = "check" /\ x.as = ""
  BY DEF MarginStep, R, W, Step, Decide, Detect, Chips, Regs, Switches
<1>28. LET x == link_margin_test[1] IN
      MarginStep(x) /\ x.op = "detect" /\ x.as = ""
  BY TestIs, <1>3
<1>29. LET x == link_margin_test[2] IN
      MarginStep(x) /\ x.op = "read" /\ x.as = "rate" /\ x.dev = "de" /\ x.reg = "REG01"
  BY TestIs, <1>4
<1>30. LET x == link_margin_test[3] IN
      MarginStep(x) /\ x.op = "write" /\ x.as = "org" /\ x.dev = "de" /\ x.reg = "RLMS95"
  BY TestIs, <1>5
<1>31. LET x == link_margin_test[4] IN
      MarginStep(x) /\ x.op = "read" /\ x.as = "rate" /\ x.dev = "se" /\ x.reg = "REG01"
  BY TestIs, <1>6
<1>32. LET x == link_margin_test[5] IN
      MarginStep(x) /\ x.op = "write" /\ x.as = "org" /\ x.dev = "se" /\ x.reg = "RLMS95"
  BY TestIs, <1>7
<1>33. LET x == link_margin_test[6] IN
      MarginStep(x) /\ x.op = "read" /\ x.as = "" /\ x.dev = "se" /\ x.reg = "RLMSA4"
  BY TestIs, <1>8
<1>34. LET x == link_margin_test[7] IN
      MarginStep(x) /\ x.op = "read" /\ x.as = "" /\ x.dev = "de" /\ x.reg = "RLMSA4"
  BY TestIs, <1>9
<1>35. LET x == link_margin_test[8] IN
      MarginStep(x) /\ x.op = "write" /\ x.as = "off" /\ x.dev = "se" /\ x.reg = "RLMSA4"
  BY TestIs, <1>10
<1>36. LET x == link_margin_test[9] IN
      MarginStep(x) /\ x.op = "write" /\ x.as = "off" /\ x.dev = "de" /\ x.reg = "RLMSA4"
  BY TestIs, <1>11
<1>37. LET x == link_margin_test[10] IN
      MarginStep(x) /\ x.op = "read" /\ x.as = "" /\ x.dev = "se" /\ x.reg = "RLMS4"
  BY TestIs, <1>12
<1>38. LET x == link_margin_test[11] IN
      MarginStep(x) /\ x.op = "read" /\ x.as = "" /\ x.dev = "de" /\ x.reg = "RLMS4"
  BY TestIs, <1>13
<1>39. LET x == link_margin_test[12] IN
      MarginStep(x) /\ x.op = "write" /\ x.as = "off" /\ x.dev = "se" /\ x.reg = "RLMS4"
  BY TestIs, <1>14
<1>40. LET x == link_margin_test[13] IN
      MarginStep(x) /\ x.op = "write" /\ x.as = "off" /\ x.dev = "de" /\ x.reg = "RLMS4"
  BY TestIs, <1>15
<1>41. LET x == link_margin_test[14] IN
      MarginStep(x) /\ x.op = "read" /\ x.as = "" /\ x.dev = "se" /\ x.reg = "RLMS3"
  BY TestIs, <1>16
<1>42. LET x == link_margin_test[15] IN
      MarginStep(x) /\ x.op = "read" /\ x.as = "" /\ x.dev = "de" /\ x.reg = "RLMS3"
  BY TestIs, <1>17
<1>43. LET x == link_margin_test[16] IN
      MarginStep(x) /\ x.op = "write" /\ x.as = "off" /\ x.dev = "se" /\ x.reg = "RLMS3"
  BY TestIs, <1>18
<1>44. LET x == link_margin_test[17] IN
      MarginStep(x) /\ x.op = "write" /\ x.as = "off" /\ x.dev = "de" /\ x.reg = "RLMS3"
  BY TestIs, <1>19
<1>45. LET x == link_margin_test[18] IN
      MarginStep(x) /\ x.op = "read" /\ x.as = "" /\ x.dev = "se" /\ x.reg = "RLMS95"
  BY TestIs, <1>20
<1>46. LET x == link_margin_test[19] IN
      MarginStep(x) /\ x.op = "read" /\ x.as = "" /\ x.dev = "de" /\ x.reg = "RLMS95"
  BY TestIs, <1>21
<1>47. LET x == link_margin_test[20] IN
      MarginStep(x) /\ x.op = "write" /\ x.as = "off" /\ x.dev = "se" /\ x.reg = "RLMS95"
  BY TestIs, <1>22
<1>48. LET x == link_margin_test[21] IN
      MarginStep(x) /\ x.op = "write" /\ x.as = "off" /\ x.dev = "de" /\ x.reg = "RLMS95"
  BY TestIs, <1>23
<1>49. LET x == link_margin_test[22] IN
      MarginStep(x) /\ x.op = "read" /\ x.as = "" /\ x.dev = "se" /\ x.reg = "CNT0"
  BY TestIs, <1>24
<1>50. LET x == link_margin_test[23] IN
      MarginStep(x) /\ x.op = "read" /\ x.as = "" /\ x.dev = "de" /\ x.reg = "CNT0"
  BY TestIs, <1>25
<1>51. LET x == link_margin_test[24] IN
      MarginStep(x) /\ x.op = "read" /\ x.as = "" /\ x.dev = "de" /\ x.reg = "CNT0"
  BY TestIs, <1>25
<1>52. LET x == link_margin_test[25] IN
      MarginStep(x) /\ x.op = "read" /\ x.as = "" /\ x.dev = "de" /\ x.reg = "CTRL3"
  BY TestIs, <1>26
<1>53. LET x == link_margin_test[26] IN
      MarginStep(x) /\ x.op = "check" /\ x.as = ""
  BY TestIs, <1>27
<1>54. link_margin_test[Len(link_margin_test)] = link_margin_test[26]
  BY <1>2, LastIs DEF Long
<1>55. ~InLoop(link_margin_test)
  BY <1>1, <1>54, <1>53 DEF InLoop
<1>56. ASSUME NEW k \in 1 .. Len(link_margin_test) PROVE k = 1 \/ k = 2 \/ k = 3 \/ k = 4 \/ k = 5 \/ k = 6 \/ k = 7 \/ k = 8 \/ k = 9 \/ k = 10 \/ k = 11 \/ k = 12 \/ k = 13 \/ k = 14 \/ k = 15 \/ k = 16 \/ k = 17 \/ k = 18 \/ k = 19 \/ k = 20 \/ k = 21 \/ k = 22 \/ k = 23 \/ k = 24 \/ k = 25 \/ k = 26
  BY <1>2
<1>57. StepsEnd(link_margin_test)
  <2> DEFINE D(k) == link_margin_test[k].op \in Decisions
  <2>1. ~D(1) BY <1>28 DEF Decisions
  <2>2. ~D(2) BY <1>29 DEF Decisions
  <2>3. ~D(3) BY <1>30 DEF Decisions
  <2>4. ~D(4) BY <1>31 DEF Decisions
  <2>5. ~D(5) BY <1>32 DEF Decisions
  <2>6. ~D(6) BY <1>33 DEF Decisions
  <2>7. ~D(7) BY <1>34 DEF Decisions
  <2>8. ~D(8) BY <1>35 DEF Decisions
  <2>9. ~D(9) BY <1>36 DEF Decisions
  <2>10. ~D(10) BY <1>37 DEF Decisions
  <2>11. ~D(11) BY <1>38 DEF Decisions
  <2>12. ~D(12) BY <1>39 DEF Decisions
  <2>13. ~D(13) BY <1>40 DEF Decisions
  <2>14. ~D(14) BY <1>41 DEF Decisions
  <2>15. ~D(15) BY <1>42 DEF Decisions
  <2>16. ~D(16) BY <1>43 DEF Decisions
  <2>17. ~D(17) BY <1>44 DEF Decisions
  <2>18. ~D(18) BY <1>45 DEF Decisions
  <2>19. ~D(19) BY <1>46 DEF Decisions
  <2>20. ~D(20) BY <1>47 DEF Decisions
  <2>21. ~D(21) BY <1>48 DEF Decisions
  <2>22. ~D(22) BY <1>49 DEF Decisions
  <2>23. ~D(23) BY <1>50 DEF Decisions
  <2>24. ~D(24) BY <1>51 DEF Decisions
  <2>25. ~D(25) BY <1>52 DEF Decisions
  <2> HIDE DEF D
  <2>26. ASSUME NEW k \in 1 .. Len(link_margin_test), k # 26 PROVE ~D(k)
    BY <2>26, <1>56, <2>1, <2>2, <2>3, <2>4, <2>5, <2>6, <2>7, <2>8, <2>9, <2>10, <2>11, <2>12, <2>13, <2>14, <2>15, <2>16, <2>17, <2>18, <2>19, <2>20, <2>21, <2>22, <2>23, <2>24, <2>25
  <2>27. QED BY <2>26, <1>1, <1>2, LastEnds DEF Long, D
<1>58. MarginAt(link_margin_test, 1) /\ FedAt(link_margin_test, 1) /\ AmplitudeFedAt(link_margin_test, 1)
  BY <1>28, OthersFit
<1>59. MarginAt(link_margin_test, 2) /\ FedAt(link_margin_test, 2) /\ AmplitudeFedAt(link_margin_test, 2)
  BY <1>2, <1>55, TestIs, <1>29, <1>30, <1>31 DEF MarginAt, FedAt, AmplitudeFedAt, Plain
<1>60. MarginAt(link_margin_test, 3) /\ FedAt(link_margin_test, 3) /\ AmplitudeFedAt(link_margin_test, 3)
  BY <1>2, <1>55, TestIs, <1>30, <1>31, <1>32 DEF MarginAt, FedAt, AmplitudeFedAt, Plain
<1>61. MarginAt(link_margin_test, 4) /\ FedAt(link_margin_test, 4) /\ AmplitudeFedAt(link_margin_test, 4)
  BY <1>2, 5 \in 4 + 1 .. Len(link_margin_test), <1>55, TestIs, <1>31, <1>32 DEF MarginAt, FedAt, AmplitudeFedAt
<1>62. MarginAt(link_margin_test, 5) /\ FedAt(link_margin_test, 5) /\ AmplitudeFedAt(link_margin_test, 5)
  BY <1>2, <1>55, TestIs, <1>32, <1>33, <1>34 DEF MarginAt, FedAt, AmplitudeFedAt, Plain
<1>63. MarginAt(link_margin_test, 6) /\ FedAt(link_margin_test, 6) /\ AmplitudeFedAt(link_margin_test, 6)
  BY <1>33, OthersFit
<1>64. MarginAt(link_margin_test, 7) /\ FedAt(link_margin_test, 7) /\ AmplitudeFedAt(link_margin_test, 7)
  BY <1>34, OthersFit
<1>65. MarginAt(link_margin_test, 8) /\ FedAt(link_margin_test, 8) /\ AmplitudeFedAt(link_margin_test, 8)
  BY <1>35, TestIs, SwitchesFit, 6 \in 1 .. 8 - 1, SwitchesAre
<1>66. MarginAt(link_margin_test, 9) /\ FedAt(link_margin_test, 9) /\ AmplitudeFedAt(link_margin_test, 9)
  BY <1>36, TestIs, SwitchesFit, 7 \in 1 .. 9 - 1, SwitchesAre
<1>67. MarginAt(link_margin_test, 10) /\ FedAt(link_margin_test, 10) /\ AmplitudeFedAt(link_margin_test, 10)
  BY <1>37, OthersFit
<1>68. MarginAt(link_margin_test, 11) /\ FedAt(link_margin_test, 11) /\ AmplitudeFedAt(link_margin_test, 11)
  BY <1>38, OthersFit
<1>69. MarginAt(link_margin_test, 12) /\ FedAt(link_margin_test, 12) /\ AmplitudeFedAt(link_margin_test, 12)
  BY <1>39, TestIs, SwitchesFit, 10 \in 1 .. 12 - 1, SwitchesAre
<1>70. MarginAt(link_margin_test, 13) /\ FedAt(link_margin_test, 13) /\ AmplitudeFedAt(link_margin_test, 13)
  BY <1>40, TestIs, SwitchesFit, 11 \in 1 .. 13 - 1, SwitchesAre
<1>71. MarginAt(link_margin_test, 14) /\ FedAt(link_margin_test, 14) /\ AmplitudeFedAt(link_margin_test, 14)
  BY <1>41, OthersFit
<1>72. MarginAt(link_margin_test, 15) /\ FedAt(link_margin_test, 15) /\ AmplitudeFedAt(link_margin_test, 15)
  BY <1>42, OthersFit
<1>73. MarginAt(link_margin_test, 16) /\ FedAt(link_margin_test, 16) /\ AmplitudeFedAt(link_margin_test, 16)
  BY <1>43, TestIs, SwitchesFit, 14 \in 1 .. 16 - 1, SwitchesAre
<1>74. MarginAt(link_margin_test, 17) /\ FedAt(link_margin_test, 17) /\ AmplitudeFedAt(link_margin_test, 17)
  BY <1>44, TestIs, SwitchesFit, 15 \in 1 .. 17 - 1, SwitchesAre
<1>75. MarginAt(link_margin_test, 18) /\ FedAt(link_margin_test, 18) /\ AmplitudeFedAt(link_margin_test, 18)
  BY <1>45, OthersFit
<1>76. MarginAt(link_margin_test, 19) /\ FedAt(link_margin_test, 19) /\ AmplitudeFedAt(link_margin_test, 19)
  BY <1>46, OthersFit
<1>77. MarginAt(link_margin_test, 20) /\ FedAt(link_margin_test, 20) /\ AmplitudeFedAt(link_margin_test, 20)
  <2> DEFINE P(q) == link_margin_test[q].as \in {"", "off", "on"} /\ link_margin_test[q].op \notin {"lock", "loop"}
  <2>1. P(18) BY <1>45
  <2>2. P(19) BY <1>46
  <2>3. P(20) BY <1>47
  <2>4. P(21) BY <1>48
  <2>5. P(22) BY <1>49
  <2>6. P(23) BY <1>50
  <2>7. P(24) BY <1>51
  <2>8. P(25) BY <1>52
  <2>9. P(26) BY <1>53
  <2> HIDE DEF P
  <2>10. ASSUME NEW q \in 18 .. Len(link_margin_test) PROVE P(q)
    <3>1. q = 18 \/ q = 19 \/ q = 20 \/ q = 21 \/ q = 22 \/ q = 23 \/ q = 24 \/ q = 25 \/ q = 26
      BY <1>2
    <3>2. QED BY <3>1, <2>1, <2>2, <2>3, <2>4, <2>5, <2>6, <2>7, <2>8, <2>9
  <2>11. Plain(link_margin_test, 18)
    BY <2>10 DEF Plain, P
  <2>12. 18 \in 1 .. 20 - 1 /\ link_margin_test[18] = R("se", "RLMS95")
    BY TestIs
  <2>13. QED BY <2>11, <2>12, <1>47 DEF MarginAt, FedAt, AmplitudeFedAt
<1>78. MarginAt(link_margin_test, 21) /\ FedAt(link_margin_test, 21) /\ AmplitudeFedAt(link_margin_test, 21)
  BY <1>48, TestIs, SwitchesFit, 19 \in 1 .. 21 - 1, SwitchesAre
<1>79. MarginAt(link_margin_test, 22) /\ FedAt(link_margin_test, 22) /\ AmplitudeFedAt(link_margin_test, 22)
  BY <1>49, OthersFit
<1>80. MarginAt(link_margin_test, 23) /\ FedAt(link_margin_test, 23) /\ AmplitudeFedAt(link_margin_test, 23)
  BY <1>50, OthersFit
<1>81. MarginAt(link_margin_test, 24) /\ FedAt(link_margin_test, 24) /\ AmplitudeFedAt(link_margin_test, 24)
  BY <1>51, OthersFit
<1>82. MarginAt(link_margin_test, 25) /\ FedAt(link_margin_test, 25) /\ AmplitudeFedAt(link_margin_test, 25)
  BY <1>52, OthersFit
<1>83. MarginAt(link_margin_test, 26) /\ FedAt(link_margin_test, 26) /\ AmplitudeFedAt(link_margin_test, 26)
  BY <1>53, OthersFit
<1>84. ASSUME NEW k \in 1 .. Len(link_margin_test) PROVE MarginAt(link_margin_test, k) /\ FedAt(link_margin_test, k) /\ AmplitudeFedAt(link_margin_test, k)
  BY <1>56, <1>58, <1>59, <1>60, <1>61, <1>62, <1>63, <1>64, <1>65, <1>66, <1>67, <1>68, <1>69, <1>70, <1>71, <1>72, <1>73, <1>74, <1>75, <1>76, <1>77, <1>78, <1>79, <1>80, <1>81, <1>82, <1>83
<1>85. QED BY <1>55, <1>57, <1>84 DEF MarginList, Fed, AmplitudeFed
-----------------------------------------------------------------------------
\* One command at a time.

\* What a command consists of.
LEMMA CommandKept ==
  ASSUME UNCHANGED <<todo, local, tx_amp_org, se_tx_amp>>
  PROVE  Command(Head(todo))' = Command(Head(todo))
BY DEF Command, Written

\* A step makes the same command as long as what it writes is the same.
LEMMA CommandIs ==
  ASSUME NEW s
  PROVE  Command(s).op = s.op /\ Command(s).dev = s.dev /\ Command(s).reg = s.reg
         /\ Command(s).val = Written(s) /\ (s.op = "element" => Command(s).as = s.as)
BY DEF Command

\* The tool begins with no command under way.
LEMMA ToolBegins == ASSUME Init PROVE ToolInv
BY DEF Init, CWInit, Free, ToolInv, Failed, InStep, UnderWay, Phases, Answered

\* A command under way is the one at the head of the list.
LEMMA WayKept == ASSUME UnderWay, [Next]_vars PROVE UnderWay'
<1>1. CASE UNCHANGED vars
  BY <1>1 DEF vars, cwVars, toolVars, UnderWay
<1>2. CASE Send
  BY <1>2 DEF Send, Compose, UnderWay, Phases
<1>3. CASE Next_step
  BY <1>3 DEF Next_step, Return, UnderWay, Phases
<1>4. CASE (Post \/ PollDone \/ Collect) /\ UNCHANGED <<ToolRest, board>>
  BY <1>4 DEF Post, PollDone, Collect, UnderWay, Phases, ToolRest
<1>5. CASE Timeout /\ UNCHANGED ToolRest
  BY <1>5 DEF Timeout, GiveUp, UnderWay, Phases, ToolRest
<1>6. CASE DecideCheck \/ DecideLock \/ DecideLoop \/ DecideLinkA \/ DecideLinkB
  BY <1>6 DEF DecideCheck, DecideLock, DecideLoop, DecideLinkA, DecideLinkB, LocalsOnly,
              Deciding, cwVars, toolVars, UnderWay
<1>7. CASE A53
  <2>1. UNCHANGED <<phase, todo>>
    BY <1>7 DEF A53, A53Take, A53Bad, Execute, A53Done, Answer, toolVars, ToolRest
  <2>2. QED BY <2>1 DEF UnderWay
<1>8. QED BY <1>1, <1>2, <1>3, <1>4, <1>5, <1>6, <1>7 DEF Next, Tool

\* The A53 runs the command at the head of the list until one is given up.
LEMMA ToolKept == ASSUME ToolInv, [Next]_vars PROVE ToolInv'
<1> USE DEF ToolInv
<1>0. UnderWay'
  BY WayKept
<1>1. CASE UNCHANGED vars
  <2>1. UNCHANGED <<todo, local, tx_amp_org, se_tx_amp>>
    BY <1>1 DEF vars, toolLocals
  <2>2. QED BY <1>0, <1>1, <2>1, CommandKept DEF vars, cwVars, toolVars, windowVars, windowHistory, board, bus, Failed, InStep, Answered
<1>2. CASE Send
  <2>1. UNCHANGED <<todo, local, tx_amp_org, se_tx_amp>> /\ lost' = lost
    BY <1>2 DEF Send, toolLocals, board, bus
  <2>2. Failed'
    BY <1>2, <2>1 DEF Send, Compose, Failed
  <2>3. ASSUME ~lost PROVE InStep'
    BY <1>2, <2>1, <2>3, CommandKept DEF Send, Compose, Failed, InStep, Answered
  <2>4. QED BY <1>0, <2>1, <2>2, <2>3
<1>3. CASE Next_step
  <2>1. lost' = lost
    BY <1>3 DEF Next_step, board, bus
  <2>2. Failed'
    BY <1>3, <2>1 DEF Next_step, Return, windowVars, windowHistory, Failed
  <2>3. ASSUME ~lost PROVE InStep'
    BY <1>3, <2>3 DEF Next_step, Return, windowVars, windowHistory, InStep, Answered
  <2>4. QED BY <1>0, <2>1, <2>2, <2>3
<1>4. CASE (Post \/ PollDone \/ Collect) /\ UNCHANGED <<ToolRest, board>>
  <2>1. UNCHANGED <<todo, local, tx_amp_org, se_tx_amp>> /\ lost' = lost
    BY <1>4 DEF ToolRest, toolLocals, board, bus
  <2>2. Failed'
    BY <1>4, <2>1 DEF Post, PollDone, Collect, windowVars, windowHistory, Failed
  <2>3. ASSUME ~lost, Post PROVE InStep'
    BY <2>1, <2>3, CommandKept DEF Post, windowHistory, InStep, Answered
  <2>4. ASSUME ~lost, PollDone PROVE InStep'
    BY <2>1, <2>4, CommandKept DEF PollDone, windowVars, windowHistory, InStep, Answered
  <2>5. ASSUME ~lost, Collect PROVE InStep'
    BY <2>1, <2>5, CommandKept DEF Collect, windowVars, InStep, Answered
  <2>6. QED BY <1>0, <1>4, <2>1, <2>2, <2>3, <2>4, <2>5
<1>5. CASE Timeout /\ lost' = TRUE
  BY <1>0, <1>5 DEF Timeout, GiveUp, Failed
<1>6. CASE DecideCheck \/ DecideLock \/ DecideLoop \/ DecideLinkA \/ DecideLinkB
  <2>1. phase = "idle" /\ UNCHANGED <<cwVars, lost>>
    BY <1>6 DEF DecideCheck, DecideLock, DecideLoop, DecideLinkA, DecideLinkB, LocalsOnly,
                Deciding, board, bus
  <2>2. QED BY <1>0, <2>1 DEF cwVars, toolVars, windowVars, windowHistory, Failed, InStep, Answered
<1>7. CASE A53Take /\ UNCHANGED <<ToolRest, board>>
  <2>1. UNCHANGED <<todo, local, tx_amp_org, se_tx_amp>> /\ lost' = lost
    BY <1>7 DEF ToolRest, toolLocals, board, bus
  <2>2. QED BY <1>0, <1>7, <2>1, CommandKept DEF A53Take, toolVars, windowVars, Failed, InStep, Answered
<1>8. CASE A53Bad /\ lost' = (lost \/ exec.cmd.op # "probe") /\ UNCHANGED ToolRest
  <2>1. UNCHANGED <<todo, local, tx_amp_org, se_tx_amp>>
    BY <1>8 DEF ToolRest, toolLocals
  <2>2. Failed'
    BY <1>8 DEF A53Bad, Answer, Failed
  <2>3. ASSUME ~lost' PROVE InStep'
    <3>1. ~lost /\ exec.cmd.op = "probe" /\ exec.busy /\ irq /\ phase = "poll"
      BY <1>8, <2>3 DEF A53Bad, Answer, InStep, Failed
    <3>2. Head(todo).op = "probe"
      BY <3>1, CommandIs DEF InStep
    <3>3. QED BY <1>8, <2>1, <3>1, <3>2 DEF A53Bad, Answer, Free, toolVars, InStep, Answered
  <2>4. QED BY <1>0, <2>2, <2>3
<1>9. CASE Execute
  <2>1. UNCHANGED <<todo, local, tx_amp_org, se_tx_amp>> /\ lost' = lost
    BY <1>9 DEF Execute, ToolRest, toolLocals, OnBus
  <2>2. PICK v : A53Done(v)
    BY <1>9 DEF Execute
  <2>3. Failed'
    BY <2>1, <2>2 DEF A53Done, Answer, Failed
  <2>4. ASSUME ~lost PROVE InStep'
    BY <2>1, <2>2, <2>4 DEF A53Done, Answer, Free, toolVars, InStep, Answered
  <2>5. QED BY <1>0, <2>1, <2>3, <2>4
<1>10. QED
  BY <1>0, <1>1, <1>2, <1>3, <1>4, <1>5, <1>6, <1>7, <1>8, <1>9 DEF Next, Tool, A53

\* link_margin_test begins with a list of its own.
LEMMA MarginListed == ASSUME MarginTool, Init PROVE MarginList(todo)
<1>1. NoIndex \notin Indices
  BY BoardAssumption DEF NoIndex
<1>2. todo = link_margin_test
  BY <1>1 DEF Init, MarginTool
<1>3. QED BY <1>2, TestList

\* Every step of a measurement leaves one of its lists.
LEMMA MarginListKept ==
  ASSUME MarginTool, MarginList(todo), UnderWay, [Next]_vars
  PROVE  MarginTool' /\ MarginList(todo') /\ ~DecideLinkA /\ ~DecideLinkB
<1>1. index' = index
  BY DEF Next, Tool, A53, vars, Send, Next_step, Execute, ToolRest, toolLocals, LocalsOnly,
         DecideCheck, DecideLock, DecideLoop, DecideLinkA, DecideLinkB
<1>2. ASSUME todo # <<>> PROVE Head(todo).op \notin {"linkA", "linkB"}
  <2>1. todo \in Seq(Steps) /\ 1 \in 1 .. Len(todo) /\ Head(todo) = todo[1]
    BY <1>2, TailIs DEF MarginList, StepsEnd
  <2>2. MarginStep(Head(todo))
    BY <2>1 DEF MarginList, MarginAt
  <2>3. QED BY <2>2 DEF MarginStep
<1>3. ~DecideLinkA /\ ~DecideLinkB
  BY <1>2 DEF DecideLinkA, DecideLinkB, Deciding
<1>4. CASE todo' = todo
  BY <1>1, <1>3, <1>4 DEF MarginTool
<1>5. CASE Next_step
  <2>1. todo # <<>> /\ todo' = Tail(todo)
    BY <1>5 DEF Next_step, Return, UnderWay
  <2>2. QED BY <1>1, <1>3, <2>1, MarginTail DEF MarginTool
<1>6. CASE DecideCheck
  <2>1. todo' \in {Lower, Check, link_margin_complete}
    BY <1>6 DEF DecideCheck
  <2>2. QED BY <1>1, <1>3, <2>1, LowerList, CheckList, CompleteList DEF MarginTool
<1>7. CASE DecideLock
  <2>1. todo' \in {Errors, Again}
    BY <1>7 DEF DecideLock, Again
  <2>2. QED BY <1>1, <1>3, <2>1, ErrorsList, AgainList DEF MarginTool
<1>8. CASE DecideLoop
  <2>1. todo' \in {Lower, Closing}
    BY <1>8 DEF DecideLoop, Closing
  <2>2. QED BY <1>1, <1>3, <2>1, LowerList, ClosingList DEF MarginTool
<1>9. CASE Send \/ A53 \/ UNCHANGED vars \/ UNCHANGED ToolRest
  <2>1. todo' = todo
    BY <1>9 DEF Send, A53, Execute, ToolRest, vars
  <2>2. QED BY <2>1, <1>4
<1>10. QED
  BY <1>3, <1>5, <1>6, <1>7, <1>8, <1>9 DEF Next, Tool
-----------------------------------------------------------------------------
\* What a measurement keeps: the A53 runs its commands, the callers take the
\* results, and the decisions go on from there.

\* What the invariant of a measurement depends on.
LEMMA MarginQuiet ==
  ASSUME MarginInv, UNCHANGED <<todo, local, tx_amp_org, se_tx_amp, reg>>,
         Answered' <=> Answered, Answered => Outcome' = Outcome
  PROVE  MarginInv'
<1>1. MarginTypes'
  BY DEF MarginInv, MarginTypes
<1>2. Fed(todo)' /\ AmplitudeFed(todo)'
  BY DEF MarginInv, Fed, FedAt, Kept, AmplitudeFed, AmplitudeFedAt, Plain
<1>3. TurnedOff(todo)' /\ Tagged'
  BY DEF MarginInv, TurnedOff, Tagged
<1>4. Restoring(todo)'
  BY DEF MarginInv, Restoring, Amplitude, InLoop
<1>5. Delivered'
  BY DEF MarginInv, Delivered, Written
<1>6. RateKnown' => (Rated(todo) /\ Lowering(todo))'
  BY DEF MarginInv, RateKnown, Rated, Lowering, InLoop, Amplitude, InMargin
<1>7. QED BY <1>1, <1>2, <1>3, <1>4, <1>5, <1>6 DEF MarginInv

\* The step at the head of a list, and the ones after it.
LEMMA HeadIs ==
  ASSUME MarginList(todo), todo # <<>>
  PROVE  /\ todo \in Seq(Steps) /\ 1 \in 1 .. Len(todo) /\ Head(todo) = todo[1]
         /\ MarginStep(Head(todo)) /\ MarginAt(todo, 1)
<1>1. todo \in Seq(Steps) /\ 1 \in 1 .. Len(todo) /\ Head(todo) = todo[1]
  BY TailIs DEF MarginList, StepsEnd
<1>2. QED BY <1>1 DEF MarginList, MarginAt

\* What is sent to be written.
LEMMA WrittenIs ==
  ASSUME MarginInv, MarginTool, MarginList(todo), todo # <<>>, Head(todo).op = "write"
  PROVE  LET s == Head(todo) IN
         /\ s.dev \in Chips /\ s.reg \in Switches \cup {"RLMS95"}
         /\ s.as = "off" => Written(s) = [local[s.dev][s.reg] EXCEPT !.on = FALSE]
         /\ s.as = "on" => Written(s) = [local[s.dev][s.reg] EXCEPT !.on = TRUE]
         /\ s.as = "org" => Written(s) = Byte(FALSE, "amp", tx_amp_org[s.dev])
         /\ s.as = "orgOn" => Written(s) = Byte(TRUE, "amp", tx_amp_org[s.dev])
         /\ s.as = "amp" => Written(s) = Byte(TRUE, "amp", se_tx_amp % AmpSpan)
         /\ s.as \in {"off", "on", "org", "orgOn", "amp"}
         /\ s.reg \in Switches <=> s.as \in {"off", "on"} /\ s.reg # "RLMS95"
         /\ Written(s) \in Bytes
<1> DEFINE s == Head(todo)
<1>1. MarginStep(s)
  BY HeadIs
<1>2. /\ s.dev \in Chips /\ s.reg \in Switches \cup {"RLMS95"} /\ s.reg \in Regs
      /\ s.as \in {"off", "on", "org", "orgOn", "amp"}
      /\ s.reg \in Switches <=> s.as \in {"off", "on"} /\ s.reg # "RLMS95"
  BY <1>1 DEF MarginStep, Switches
<1>3. /\ s.as = "off" => Written(s) = [local[s.dev][s.reg] EXCEPT !.on = FALSE]
      /\ s.as = "on" => Written(s) = [local[s.dev][s.reg] EXCEPT !.on = TRUE]
      /\ s.as = "org" => Written(s) = Byte(FALSE, "amp", tx_amp_org[s.dev])
      /\ s.as = "orgOn" => Written(s) = Byte(TRUE, "amp", tx_amp_org[s.dev])
      /\ s.as = "amp" => Written(s) = Byte(TRUE, "amp", se_tx_amp % AmpSpan)
  BY DEF Written
<1>4. /\ local[s.dev][s.reg] \in Bytes /\ tx_amp_org[s.dev] \in Nat
      /\ se_tx_amp % AmpSpan \in Nat
  BY <1>2, BoardAssumption DEF MarginInv, MarginTypes
<1>5. Written(s) \in Bytes
  <2>1. \A on \in BOOLEAN, n \in Nat : Byte(on, "amp", n) \in Bytes
    BY DEF Bytes, Byte, Tags
  <2>2. \A v \in Bytes, b \in BOOLEAN : [v EXCEPT !.on = b] \in Bytes
    BY DEF Bytes
  <2>3. QED BY <1>2, <1>3, <1>4, <2>1, <2>2
<1>6. QED BY <1>2, <1>3, <1>5

\* A read is answered with what the register holds.
LEMMA RegisterAnswers ==
  ASSUME NEW c, NEW o, NEW d, NEW r, c.op = o, c.dev = d, c.reg = r,
         o = "read", r # "CNT0", r # "CTRL3", NEW v \in Answers(c)
  PROVE  v = reg[d][r]
BY DEF Answers

\* The A53 runs a command of a measurement.
LEMMA MarginExecute ==
  ASSUME MarginTool, MarginList(todo), ToolInv, MarginInv, failures = 0, Execute
  PROVE  MarginInv'
<1> DEFINE s == Head(todo)
<1>1. /\ ~lost /\ exec.busy /\ exec.cmd = Command(s) /\ irq /\ phase = "poll"
      /\ todo # <<>> /\ s.op \notin Decisions
  BY DEF Execute, ToolInv, Failed, InStep, UnderWay
<1>2. PICK v \in Answers(exec.cmd) : A53Done(v)
  BY DEF Execute
<1>3. /\ UNCHANGED <<todo, local, tx_amp_org, se_tx_amp, phase>>
      /\ ~Answered /\ Answered' /\ Outcome' = v
  BY <1>1, <1>2 DEF Execute, ToolRest, toolLocals, A53Done, Answer, toolVars, Answered, Outcome
<1>4. exec.cmd.op = s.op /\ exec.cmd.dev = s.dev /\ exec.cmd.reg = s.reg /\ exec.cmd.val = Written(s)
  BY <1>1, CommandIs
<1>5. reg' = IF s.op = "write" THEN [reg EXCEPT ![s.dev][s.reg] = Written(s)] ELSE reg
  BY <1>4 DEF Execute
<1>6. MarginStep(s) /\ s = todo[1] /\ 1 \in 1 .. Len(todo) /\ MarginAt(todo, 1) /\ Len(todo) \in Nat
  BY <1>1, HeadIs
<1>7. Fed(todo)' /\ AmplitudeFed(todo)'
  BY <1>3 DEF MarginInv, Fed, FedAt, Kept, AmplitudeFed, AmplitudeFedAt, Plain
<1>8. reg \in [Chips -> [Regs -> Bytes]]
  BY DEF MarginInv, MarginTypes
<1>9. CASE s.op # "write"
  <2>1. reg' = reg
    BY <1>5, <1>9
  <2>2. s.op = "read" => v \in Bytes /\ (s.reg \notin {"CNT0", "CTRL3"} => v = reg[s.dev][s.reg])
    <3>1. SUFFICES ASSUME s.op = "read"
                   PROVE  v \in Bytes /\ (s.reg \notin {"CNT0", "CTRL3"} => v = reg[s.dev][s.reg])
      OBVIOUS
    <3>2. s.dev \in Chips /\ s.reg \in Regs
      BY <1>6, <3>1 DEF MarginStep
    <3>3. CASE s.reg = "CNT0"
      <4>1. exec.cmd.op = "read" /\ exec.cmd.reg = "CNT0"
        BY <1>4, <3>1, <3>3
      <4>2. Answers(exec.cmd) = {Zero, Byte(FALSE, "errors", 1)}
        BY <4>1 DEF Answers
      <4>3. Zero \in Bytes /\ Byte(FALSE, "errors", 1) \in Bytes
        BY DEF Zero, Byte, Bytes, Tags
      <4>4. QED BY <4>2, <4>3, <1>2, <3>3
    <3>4. CASE s.reg = "CTRL3"
      <4>1. \E on \in BOOLEAN, n \in 0 .. 1 : v = Byte(on, "none", n)
        BY <1>2, <1>4, <3>1, <3>4 DEF Answers
      <4>2. QED BY <4>1, <3>4 DEF Byte, Bytes, Tags
    <3>5. CASE s.reg \notin {"CNT0", "CTRL3"}
      <4>0. exec.cmd.op = "read" /\ exec.cmd.reg # "CNT0" /\ exec.cmd.reg # "CTRL3"
        BY <1>4, <3>1, <3>5
      <4>1. v = reg[s.dev][s.reg]
        <5> DEFINE c == exec.cmd o == s.op d == s.dev r == s.reg
        <5>1. /\ c.op = o /\ c.dev = d /\ c.reg = r
              /\ o = "read" /\ r # "CNT0" /\ r # "CTRL3" /\ v \in Answers(c)
          BY <1>2, <1>4, <3>1, <3>5
        <5> HIDE DEF c, o, d, r
        <5>2. v = reg[d][r]
          BY <5>1, RegisterAnswers
        <5>3. QED BY <5>2 DEF d, r
      <4>2. QED BY <4>1, <3>2, <1>8
    <3>6. QED BY <3>3, <3>4, <3>5
  <2>3. Delivered'
    BY <1>3, <1>9, <2>1, <2>2 DEF Delivered
  <2>4. MarginTypes' /\ TurnedOff(todo)' /\ Tagged' /\ Restoring(todo)'
    BY <1>3, <2>1 DEF MarginInv, MarginTypes, TurnedOff, Tagged, Restoring, Amplitude, InLoop
  <2>5. RateKnown' => (Rated(todo) /\ Lowering(todo))'
    BY <1>3, <2>1 DEF MarginInv, RateKnown, Rated, Lowering, InLoop, Amplitude, InMargin
  <2>6. QED BY <1>7, <2>3, <2>4, <2>5 DEF MarginInv
<1>10. CASE s.op = "write"
  <2> DEFINE w == Written(s)
  <2>1. /\ s.dev \in Chips /\ s.reg \in Switches \cup {"RLMS95"} /\ w \in Bytes
        /\ s.as \in {"off", "on", "org", "orgOn", "amp"}
        /\ s.reg \in Switches <=> s.as \in {"off", "on"} /\ s.reg # "RLMS95"
        /\ s.as \in {"off", "on"} => w.tag = local[s.dev][s.reg].tag /\ w.num = local[s.dev][s.reg].num
        /\ s.as = "off" => ~w.on
        /\ s.as \in {"org", "orgOn"} => w.num = tx_amp_org[s.dev]
        /\ s.as = "amp" => w.num = se_tx_amp % AmpSpan
    <3>1. s.dev \in Chips /\ s.reg \in Regs
      BY <1>6, <1>10 DEF MarginStep
    <3>2. local[s.dev][s.reg] \in Bytes
      BY <3>1 DEF MarginInv, MarginTypes
    <3>3. \A x \in Bytes, b \in BOOLEAN :
             LET y == [x EXCEPT !.on = b] IN y.on = b /\ y.tag = x.tag /\ y.num = x.num
      BY DEF Bytes
    <3>4. \A n : Byte(TRUE, "amp", n).num = n /\ Byte(FALSE, "amp", n).num = n
      BY DEF Byte
    <3>5. /\ s.as = "off" => w = [local[s.dev][s.reg] EXCEPT !.on = FALSE]
          /\ s.as = "on" => w = [local[s.dev][s.reg] EXCEPT !.on = TRUE]
          /\ s.as = "org" => w = Byte(FALSE, "amp", tx_amp_org[s.dev])
          /\ s.as = "orgOn" => w = Byte(TRUE, "amp", tx_amp_org[s.dev])
          /\ s.as = "amp" => w = Byte(TRUE, "amp", se_tx_amp % AmpSpan)
          /\ s.as \in {"off", "on", "org", "orgOn", "amp"} /\ w \in Bytes
          /\ s.reg \in Switches \cup {"RLMS95"}
          /\ s.reg \in Switches <=> s.as \in {"off", "on"} /\ s.reg # "RLMS95"
      BY <1>1, <1>10, WrittenIs
    <3> HIDE DEF w
    <3>6. s.as = "off" => w.tag = local[s.dev][s.reg].tag /\ w.num = local[s.dev][s.reg].num /\ ~w.on
      BY <3>2, <3>3, <3>5
    <3>7. s.as = "on" => w.tag = local[s.dev][s.reg].tag /\ w.num = local[s.dev][s.reg].num
      BY <3>2, <3>3, <3>5
    <3>8. /\ s.as \in {"org", "orgOn"} => w.num = tx_amp_org[s.dev]
          /\ s.as = "amp" => w.num = se_tx_amp % AmpSpan
      BY <3>4, <3>5
    <3>9. QED BY <3>1, <3>5, <3>6, <3>7, <3>8
  <2>2. reg' = [reg EXCEPT ![s.dev][s.reg] = w]
    BY <1>5, <1>10
  <2> HIDE DEF w
  <2>3. s.reg \in Regs
    BY <2>1 DEF Regs
  <2>4. /\ reg' \in [Chips -> [Regs -> Bytes]] /\ reg'[s.dev][s.reg] = w
        /\ \A d \in Chips, r \in Regs : d # s.dev \/ r # s.reg => reg'[d][r] = reg[d][r]
    BY <1>8, <2>1, <2>2, <2>3
  <2>5. MarginTypes'
    BY <1>3, <2>4 DEF MarginInv, MarginTypes
  <2>6. Delivered'
    BY <1>3, <1>10, <2>4 DEF Delivered, w, Written
  <2>7. FedAt(todo, 1) /\ AmplitudeFedAt(todo, 1)
    BY <1>6 DEF MarginInv, Fed, AmplitudeFed
  <2>8. s.reg \in Switches => w.tag = s.dev
    BY <1>6, <2>1, <2>7 DEF FedAt, Kept
  <2>9. Tagged'
    BY <2>1, <2>4, <2>8 DEF MarginInv, Tagged, Regs
  <2>10. TurnedOff(todo)'
    <3>1. SUFFICES ASSUME NEW d \in Chips, NEW r \in Switches, reg'[d][r].on
                   PROVE  \E k \in 1 .. Len(todo) : todo[k] = W(d, r, "off")
      BY <1>3 DEF TurnedOff
    <3>2. CASE d = s.dev /\ r = s.reg
      <4>1. s.as = "on"
        BY <2>1, <2>4, <3>1, <3>2
      <4>2. PICK m \in 1 + 1 .. Len(todo) : todo[m] = W(s.dev, s.reg, "off")
        BY <4>1, <1>6 DEF MarginAt
      <4>3. m \in 1 .. Len(todo)
        BY <1>6
      <4>4. QED BY <4>2, <4>3, <3>2
    <3>3. CASE d # s.dev \/ r # s.reg
      <4>1. reg[d][r].on
        BY <3>1, <3>3, <2>4 DEF Regs
      <4>2. QED BY <4>1 DEF MarginInv, TurnedOff
    <3>4. QED BY <3>2, <3>3
  <2>11. /\ "se" \in Chips /\ "RLMS95" \in Regs /\ "REG01" \in Regs /\ "RLMS95" \notin Switches
                         /\ s.reg # "REG01"
    BY <2>1 DEF Chips, Regs, Switches
  <2> DEFINE mine == s.dev = "se" /\ s.reg = "RLMS95"
  <2>12. ~mine => Amplitude' = Amplitude
    BY <2>4, <2>11 DEF Amplitude
  <2>13. mine => Amplitude' = w.num
    BY <2>4, <2>11 DEF Amplitude
  <2>14. mine /\ s.as = "off" => w.num = tx_amp_org["se"] /\ Plain(todo, 1)
    BY <1>6, <2>1, <2>7 DEF AmplitudeFedAt
  <2>15. mine /\ s.as \in {"org", "orgOn"} => w.num = tx_amp_org["se"] /\ ~InLoop(todo)
    BY <1>6, <2>1 DEF MarginAt
  <2>16. s.as = "amp" => InLoop(todo)
    BY <1>6 DEF MarginAt
  <2>17. Plain(todo, 1) => ~InLoop(todo)
    <3>1. Len(todo) \in 1 .. Len(todo)
      BY <1>6
    <3>2. QED BY <3>1 DEF Plain, InLoop
  <2>18. mine => s.as \in {"off", "org", "orgOn", "amp"}
    BY <1>6, <1>10, <2>11 DEF MarginStep
  <2>19. Restoring(todo)'
    BY <1>3, <2>12, <2>13, <2>14, <2>15, <2>16, <2>18 DEF MarginInv, Restoring, InLoop
  <2>20. RateKnown' = RateKnown
    BY <2>4, <2>11 DEF RateKnown
  <2>21. ASSUME RateKnown PROVE (Rated(todo) /\ Lowering(todo))'
    <3>1. Rated(todo) /\ Lowering(todo)
      BY <2>21 DEF MarginInv
    <3>2. Rated(todo)'
      BY <1>3, <3>1 DEF Rated
    <3>3. ~\E k \in 1 .. Len(todo) : todo[k].as = "lower"
      <4>1. ASSUME NEW k \in 1 .. Len(todo), todo[k].as = "lower" PROVE FALSE
        <5>1. MarginAt(todo, k)
          BY DEF MarginList
        <5>2. k = 1
          BY <4>1, <5>1 DEF MarginAt
        <5>3. QED BY <4>1, <5>2, <1>6, <2>1
      <4>2. QED BY <4>1
    <3>4. ASSUME InLoop(todo)
          PROVE  /\ InMargin(se_tx_amp)
                 /\ Amplitude' = se_tx_amp \/ \E k \in 1 .. Len(todo) : todo[k].as = "amp"
      <4>1. /\ InMargin(se_tx_amp)
            /\ Amplitude = se_tx_amp \/ \E k \in 1 .. Len(todo) : todo[k].as = "amp"
        BY <3>1, <3>3, <3>4 DEF Lowering
      <4>2. se_tx_amp % AmpSpan = se_tx_amp
        BY <4>1, ModSmall, BoardAssumption DEF InMargin, MarginInv, MarginTypes
      <4>3. mine => s.as = "amp"
        BY <2>14, <2>15, <2>17, <2>18, <3>4
      <4>4. QED BY <4>1, <4>2, <4>3, <2>1, <2>12, <2>13
    <3>5. Lowering(todo)'
      BY <1>3, <3>3, <3>4 DEF Lowering, InLoop, InMargin
    <3>6. QED BY <3>2, <3>5
  <2>22. QED BY <1>7, <2>5, <2>6, <2>9, <2>10, <2>19, <2>20, <2>21 DEF MarginInv
<1>11. QED BY <1>9, <1>10

\* The caller of a command takes its result and goes on.
LEMMA MarginNext ==
  ASSUME MarginTool, MarginList(todo), ToolInv, MarginInv, Next_step
  PROVE  MarginInv'
<1> DEFINE t == todo s == t[1] u == Tail(t)
<1>1. todo # <<>> /\ s.op \notin Decisions /\ todo' = u /\ Answered /\ ~Answered' /\ Outcome = cmd_result
  <2>1. phase = "back" /\ phase' = "idle" /\ todo' = u /\ todo # <<>> /\ Head(todo).op \notin Decisions
    BY DEF Next_step, Return, ToolInv, UnderWay
  <2>2. QED BY <2>1, HeadIs DEF Answered, Outcome
<1>2. /\ t \in Seq(Steps) /\ u \in Seq(Steps) /\ Len(u) \in Nat /\ Len(t) = Len(u) + 1
      /\ \A k \in 1 .. Len(u) : u[k] = t[k + 1] /\ k + 1 \in 1 .. Len(t)
      /\ Head(t) = s
  BY <1>1, HeadIs, TailIs
<1>3. MarginStep(s) /\ MarginAt(t, 1) /\ \A k \in 1 .. Len(t) : MarginAt(t, k) /\ MarginStep(t[k])
  BY <1>1, <1>2, HeadIs DEF MarginList, MarginAt
<1>4. \A k \in 1 .. Len(t) : k = 1 \/ (k - 1 \in 1 .. Len(u) /\ u[k - 1] = t[k])
  BY <1>2
<1>5. /\ local' = IF s.op = "read" THEN [local EXCEPT ![s.dev][s.reg] = cmd_result] ELSE local
      /\ tx_amp_org' = IF s.as = "rate"
                       THEN [tx_amp_org EXCEPT ![s.dev] = OrgOfRate(s.dev, cmd_result)]
                       ELSE tx_amp_org
      /\ se_tx_amp' = IF s.as = "lower" THEN Decrement(cmd_result.num % AmpSpan) ELSE se_tx_amp
      /\ reg' = reg
  BY <1>2 DEF Next_step, board
<1>6. /\ s.op = "write" => reg[s.dev][s.reg] = Written(s)
      /\ s.op = "read" => cmd_result \in Bytes
      /\ s.op = "read" /\ s.reg \notin {"CNT0", "CTRL3"} => cmd_result = reg[s.dev][s.reg]
  BY <1>1, <1>2 DEF MarginInv, Delivered
<1>7. MarginTypes
  BY DEF MarginInv
<1>8. /\ s.op \in {"read", "write"} => s.dev \in Chips /\ s.reg \in Regs
      /\ s.as = "rate" => s.op = "read" /\ s.reg = "REG01"
      /\ s.as = "lower" => s.op = "read" /\ s.dev = "se" /\ s.reg = "RLMS95"
      /\ s.as \in {"off", "on", "org", "orgOn", "amp"} => s.op = "write"
      /\ s.as \in {"amp", "org", "orgOn"} => s.reg = "RLMS95"
      /\ s.as = "amp" => s.dev = "se"
  BY <1>3 DEF MarginStep, Switches
<1> HIDE DEF t, s, u
<1>9. InLoop(t) <=> InLoop(u)
  <2>1. CASE Len(u) = 0
    <3>1. ~InLoop(t)
      BY <2>1, <1>1, <1>2 DEF InLoop, Decisions, s
    <3>2. ~InLoop(u)
      BY <2>1, <1>2 DEF InLoop
    <3>3. QED BY <3>1, <3>2
  <2>2. CASE Len(u) # 0
    <3>1. Len(u) \in 1 .. Len(u) /\ t # <<>> /\ u # <<>> /\ t[Len(t)] = u[Len(u)]
      BY <2>2, <1>2
    <3>2. QED BY <3>1 DEF InLoop
  <2>3. QED BY <2>1, <2>2
<1>10. MarginTypes'
  <2>1. local' \in [Chips -> [Regs -> Bytes]]
    BY <1>5, <1>6, <1>7, <1>8 DEF MarginTypes
  <2>2. s.as = "rate" => OrgOfRate(s.dev, cmd_result) \in Nat
    BY <1>7, <1>8, BoardAssumption, ChipsAre DEF OrgOfRate, MarginTypes, Chips
  <2>3. tx_amp_org' \in [Chips -> Nat]
    BY <1>5, <1>7, <1>8, <2>2 DEF MarginTypes
  <2>4. se_tx_amp' \in Nat
    <3>1. CASE s.as = "lower"
      <4>1. cmd_result.num \in Nat
        BY <1>6, <1>8, <3>1 DEF Bytes
      <4>2. cmd_result.num % AmpSpan \in Nat
        BY <4>1, BoardAssumption
      <4>3. QED BY <3>1, <4>2, <1>5, BoardAssumption DEF Decrement
    <3>2. CASE s.as # "lower"
      BY <3>2, <1>5, <1>7 DEF MarginTypes
    <3>3. QED BY <3>1, <3>2
  <2>5. QED BY <1>5, <1>7, <2>1, <2>3, <2>4 DEF MarginTypes
<1>11. ASSUME NEW d \in Chips, NEW r \in Regs
       PROVE  local'[d][r] = IF s.op = "read" /\ s.dev = d /\ s.reg = r
                             THEN cmd_result ELSE local[d][r]
  BY <1>5, <1>7, <1>8 DEF MarginTypes
<1>12. ASSUME NEW d \in Chips, NEW r \in Regs, Kept(d, r) \/ s = R(d, r) 
       PROVE  r \in Switches => local'[d][r].tag = d
  <2>1. SUFFICES ASSUME r \in Switches PROVE local'[d][r].tag = d
    OBVIOUS
  <2>2. s = R(d, r) => s.op = "read" /\ s.dev = d /\ s.reg = r
    <3>1. LET x == R(d, r) IN x.op = "read" /\ x.dev = d /\ x.reg = r
      BY DEF R, Step
    <3>2. QED BY <3>1
  <2>3. CASE s.op = "read" /\ s.dev = d /\ s.reg = r
    <3>1. s.reg \notin {"CNT0", "CTRL3"}
      BY <2>1, <2>3 DEF Switches
    <3>2. local'[d][r] = reg[d][r]
      BY <1>11, <1>6, <2>3, <3>1
    <3>3. QED BY <3>2, <2>1 DEF MarginInv, Tagged
  <2>4. CASE ~(s.op = "read" /\ s.dev = d /\ s.reg = r)
    BY <2>1, <2>2, <2>4, <1>11, <1>12 DEF Kept
  <2>5. QED BY <2>3, <2>4
<1>13. Fed(todo)'
  <2>1. SUFFICES ASSUME NEW k \in 1 .. Len(u), u[k].as \in {"off", "on"}
                 PROVE  \/ u[k].reg \in Switches => local'[u[k].dev][u[k].reg].tag = u[k].dev
                        \/ \E j \in 1 .. k - 1 : u[j] = R(u[k].dev, u[k].reg)
    BY <1>1 DEF Fed, FedAt, Kept
  <2> DEFINE d == u[k].dev r == u[k].reg
  <2>2. u[k] = t[k + 1] /\ k + 1 \in 1 .. Len(t) /\ MarginStep(u[k])
    BY <1>2, <1>3
  <2>3. d \in Chips /\ r \in Regs
    BY <2>1, <2>2 DEF MarginStep
  <2>4. Kept(d, r) \/ \E j \in 1 .. (k + 1) - 1 : t[j] = R(d, r)
    BY <2>1, <2>2 DEF MarginInv, Fed, FedAt, t
  <2> HIDE DEF d, r
  <2>5. CASE Kept(d, r) \/ s = R(d, r)
    BY <2>3, <2>5, <1>12 DEF d, r
  <2>6. CASE \E j \in 2 .. k : t[j] = R(d, r)
    <3>1. PICK j \in 2 .. k : t[j] = R(d, r)
      BY <2>6
    <3>2. j - 1 \in 1 .. k - 1 /\ j - 1 \in 1 .. Len(u) /\ (j - 1) + 1 = j
      BY <1>2
    <3>3. u[j - 1] = R(d, r)
      BY <3>1, <3>2, <1>2
    <3>4. QED BY <3>2, <3>3 DEF d, r
  <2>7. \A j \in 1 .. (k + 1) - 1 : j = 1 \/ j \in 2 .. k
    OBVIOUS
  <2>8. QED BY <2>4, <2>5, <2>6, <2>7 DEF s
<1>14. ASSUME NEW j \in 1 .. Len(t), j > 1, Plain(t, j) PROVE Plain(u, j - 1)
  <2>1. ASSUME NEW m \in j - 1 .. Len(u) PROVE m + 1 \in j .. Len(t) /\ u[m] = t[m + 1]
    BY <1>14, <1>2
  <2>2. QED BY <2>1, <1>14 DEF Plain
<1>15. ASSUME Plain(t, 1)
       PROVE  /\ Plain(u, 1) /\ tx_amp_org' = tx_amp_org /\ Amplitude = tx_amp_org["se"]
  <2>1. \A m \in 1 .. Len(t) : t[m].as \in {"", "off", "on"} /\ t[m].op \notin {"lock", "loop"}
    BY <1>15 DEF Plain
  <2>2. Plain(u, 1)
    BY <2>1, <1>2 DEF Plain
  <2>3. tx_amp_org' = tx_amp_org
    <3>1. 1 \in 1 .. Len(t)
      BY <1>2
    <3>2. s.as \in {"", "off", "on"}
      BY <2>1, <3>1 DEF s
    <3>3. QED BY <3>2, <1>5
  <2>4. ~InLoop(t)
    <3>1. Len(t) \in 1 .. Len(t)
      BY <1>2
    <3>2. QED BY <2>1, <3>1 DEF InLoop
  <2>5. QED BY <2>1, <2>2, <2>3, <2>4 DEF MarginInv, Restoring, t
<1>16. AmplitudeFed(todo)'
  <2>1. SUFFICES ASSUME NEW k \in 1 .. Len(u),
                        u[k].as = "off", u[k].dev = "se", u[k].reg = "RLMS95"
                 PROVE  \/ local'["se"]["RLMS95"].num = tx_amp_org'["se"] /\ Plain(u, 1)
                        \/ \E j \in 1 .. k - 1 : u[j] = R("se", "RLMS95") /\ Plain(u, j)
    BY <1>1 DEF AmplitudeFed, AmplitudeFedAt, Plain
  <2>2. u[k] = t[k + 1] /\ k + 1 \in 1 .. Len(t)
    BY <1>2
  <2>3. \/ local["se"]["RLMS95"].num = tx_amp_org["se"] /\ Plain(t, 1)
        \/ \E j \in 1 .. (k + 1) - 1 : t[j] = R("se", "RLMS95") /\ Plain(t, j)
    BY <2>1, <2>2 DEF MarginInv, AmplitudeFed, AmplitudeFedAt, t
  <2>4. local'["se"]["RLMS95"] = IF s.op = "read" /\ s.dev = "se" /\ s.reg = "RLMS95"
                                 THEN reg["se"]["RLMS95"] ELSE local["se"]["RLMS95"]
    <3>1. "se" \in Chips /\ "RLMS95" \in Regs
      BY ChipsAre, RegsAre
    <3>2. QED BY <3>1, <1>11, <1>6
  <2>5. CASE local["se"]["RLMS95"].num = tx_amp_org["se"] /\ Plain(t, 1)
    BY <2>4, <2>5, <1>15 DEF Amplitude
  <2>6. CASE s = R("se", "RLMS95") /\ Plain(t, 1)
    <3>1. s.op = "read" /\ s.dev = "se" /\ s.reg = "RLMS95"
      BY <2>6 DEF R, Step
    <3>2. QED BY <2>4, <2>6, <3>1, <1>15 DEF Amplitude
  <2>7. CASE \E j \in 2 .. k : t[j] = R("se", "RLMS95") /\ Plain(t, j)
    <3>1. PICK j \in 2 .. k : t[j] = R("se", "RLMS95") /\ Plain(t, j)
      BY <2>7
    <3>2. j - 1 \in 1 .. k - 1 /\ j - 1 \in 1 .. Len(u) /\ (j - 1) + 1 = j /\ j > 1 /\ j \in 1 .. Len(t)
      BY <1>2
    <3>3. u[j - 1] = R("se", "RLMS95")
      BY <3>1, <3>2, <1>2
    <3>4. Plain(u, j - 1)
      BY <3>1, <3>2, <1>14
    <3>5. QED BY <3>2, <3>3, <3>4
  <2>8. \A j \in 1 .. (k + 1) - 1 : j = 1 \/ j \in 2 .. k
    OBVIOUS
  <2>9. QED BY <2>3, <2>5, <2>6, <2>7, <2>8 DEF s
<1>17. TurnedOff(todo)'
  <2>1. SUFFICES ASSUME NEW d \in Chips, NEW r \in Switches, reg[d][r].on
                 PROVE  \E k \in 1 .. Len(u) : u[k] = W(d, r, "off")
    BY <1>1, <1>5 DEF TurnedOff
  <2>2. PICK k \in 1 .. Len(t) : t[k] = W(d, r, "off")
    BY <2>1 DEF MarginInv, TurnedOff, t
  <2>3. r \in Regs
    BY DEF Regs
  <2>4. ASSUME k = 1 PROVE FALSE
    <3>1. s.op = "write" /\ s.dev = d /\ s.reg = r /\ s.as = "off"
      BY <2>2, <2>4 DEF s, W, Step
    <3>2. reg[d][r] = Written(s)
      BY <3>1, <1>6
    <3>3. Written(s) = [local[d][r] EXCEPT !.on = FALSE]
      BY <3>1 DEF Written
    <3>4. local[d][r] \in Bytes
      BY <1>7, <2>3 DEF MarginTypes
    <3>5. \A x \in Bytes : ~[x EXCEPT !.on = FALSE].on
      BY DEF Bytes
    <3>6. QED BY <2>1, <3>2, <3>3, <3>4, <3>5
  <2>5. QED BY <2>2, <2>4, <1>4
<1>18. Tagged'
  BY <1>5 DEF MarginInv, Tagged
<1>19. Amplitude' = Amplitude
  BY <1>5 DEF Amplitude
<1>20. ASSUME ~(s.as = "rate" /\ s.dev = "se") PROVE tx_amp_org'["se"] = tx_amp_org["se"]
  BY <1>20, <1>5, <1>7, ChipsAre DEF MarginTypes
<1>21. Restoring(todo)'
  <2>1. Restoring(t)
    BY DEF MarginInv, t
  <2>2. CASE s.as = "rate" /\ s.dev = "se"
    <3>1. PICK m \in 1 + 1 .. Len(t) : t[m] = W("se", "RLMS95", "org")
      BY <2>2, <1>3 DEF MarginAt, s
    <3>2. m \in 1 .. Len(t) /\ m # 1
      BY <1>2
    <3>3. m - 1 \in 1 .. Len(u) /\ u[m - 1] = W("se", "RLMS95", "org")
      BY <3>1, <3>2, <1>4
    <3>4. W("se", "RLMS95", "org").dev = "se" /\ W("se", "RLMS95", "org").as = "org"
      BY DEF W, Step
    <3>5. QED BY <3>3, <3>4, <1>1 DEF Restoring
  <2>3. CASE ~(s.as = "rate" /\ s.dev = "se")
    <3>1. tx_amp_org'["se"] = tx_amp_org["se"]
      BY <2>3, <1>20
    <3>2. CASE Amplitude = tx_amp_org["se"]
      BY <3>1, <3>2, <1>19 DEF Restoring
    <3>3. CASE InLoop(t)
      BY <3>3, <1>9, <1>1 DEF Restoring, InLoop
    <3>4. CASE \E k \in 1 .. Len(t) : t[k].dev = "se" /\ t[k].as \in {"org", "orgOn"}
      <4>1. PICK k \in 1 .. Len(t) : t[k].dev = "se" /\ t[k].as \in {"org", "orgOn"}
        BY <3>4
      <4>2. CASE k = 1
        <5>1. s.dev = "se" /\ s.as \in {"org", "orgOn"} /\ s.op = "write" /\ s.reg = "RLMS95"
          BY <4>1, <4>2, <1>8 DEF s
        <5>2. reg["se"]["RLMS95"] = Written(s)
          BY <5>1, <1>6
        <5>3. /\ s.as = "org" => Written(s) = Byte(FALSE, "amp", tx_amp_org[s.dev])
              /\ s.as = "orgOn" => Written(s) = Byte(TRUE, "amp", tx_amp_org[s.dev])
          BY <5>1 DEF Written
        <5>4. \A n : Byte(TRUE, "amp", n).num = n /\ Byte(FALSE, "amp", n).num = n
          BY DEF Byte
        <5>5. Amplitude = tx_amp_org["se"]
          BY <5>1, <5>2, <5>3, <5>4 DEF Amplitude
        <5>6. QED BY <5>5, <3>2
      <4>3. CASE k # 1
        <5>1. k - 1 \in 1 .. Len(u) /\ u[k - 1] = t[k]
          BY <4>3, <1>4
        <5>2. QED BY <4>1, <5>1, <1>1 DEF Restoring
      <4>4. QED BY <4>2, <4>3
    <3>5. QED BY <2>1, <3>2, <3>3, <3>4 DEF Restoring
  <2>4. QED BY <2>2, <2>3
<1>22. Delivered'
  BY <1>1 DEF Delivered
<1>23. RateKnown' = RateKnown
  BY <1>5 DEF RateKnown
<1>24. ASSUME RateKnown PROVE Rated(todo)'
  <2>1. Rated(t)
    BY <1>24 DEF MarginInv, t
  <2>2. CASE s.as = "rate" /\ s.dev = "se"
    <3>1. cmd_result = reg["se"]["REG01"]
      BY <2>2, <1>6, <1>8
    <3>2. OrgOfRate("se", cmd_result) = SeAmp
      BY <3>1, <1>24 DEF OrgOfRate, RateKnown
    <3>3. tx_amp_org'["se"] = SeAmp
      BY <2>2, <3>2, <1>5, <1>7, ChipsAre DEF MarginTypes
    <3>4. QED BY <3>3 DEF Rated
  <2>3. CASE ~(s.as = "rate" /\ s.dev = "se")
    <3>1. tx_amp_org'["se"] = tx_amp_org["se"]
      BY <2>3, <1>20
    <3>2. CASE tx_amp_org["se"] = SeAmp
      BY <3>1, <3>2 DEF Rated
    <3>3. CASE \E k \in 1 .. Len(t) : t[k].dev = "se" /\ t[k].as = "rate"
      <4>1. PICK k \in 1 .. Len(t) : t[k].dev = "se" /\ t[k].as = "rate"
        BY <3>3
      <4>2. k - 1 \in 1 .. Len(u) /\ u[k - 1] = t[k]
        BY <4>1, <2>3, <1>4 DEF s
      <4>3. QED BY <4>1, <4>2, <1>1 DEF Rated
    <3>4. QED BY <2>1, <3>2, <3>3 DEF Rated
  <2>4. QED BY <2>2, <2>3
<1>25. ASSUME RateKnown PROVE Lowering(todo)'
  <2>1. Lowering(t)
    BY <1>25 DEF MarginInv, t
  <2>2. \A k \in 1 .. Len(u) : u[k].as # "lower" /\ u[k].as # "orgOn"
    <3>1. ASSUME NEW k \in 1 .. Len(u) PROVE u[k].as # "lower" /\ u[k].as # "orgOn"
      <4>1. u[k] = t[k + 1] /\ MarginAt(t, k + 1) /\ k + 1 # 1
        BY <1>2, <1>3
      <4>2. QED BY <4>1 DEF MarginAt
    <3>2. QED BY <3>1
  <2>3. u # <<>> => Head(u).as # "orgOn"
    <3>1. SUFFICES ASSUME u # <<>> PROVE Head(u).as # "orgOn"
      OBVIOUS
    <3>2. 1 \in 1 .. Len(u) /\ Head(u) = u[1]
      BY <3>1, <1>2
    <3>3. QED BY <3>2, <2>2
  <2>4. ASSUME InLoop(u)
        PROVE  InMargin(se_tx_amp)' /\ (Amplitude = se_tx_amp' \/ \E k \in 1 .. Len(u) : u[k].as = "amp")
    <3>1. InLoop(t)
      BY <2>4, <1>9
    <3>2. CASE s.as = "lower"
      <4>1. Floor < Amplitude /\ Amplitude <= SeAmp
        <5>1. \E k \in 1 .. Len(t) : t[k].as = "lower"
          BY <3>2, <1>2 DEF s
        <5>2. QED BY <2>1, <3>1, <5>1 DEF Lowering
      <4>2. cmd_result.num = Amplitude /\ Amplitude \in Nat
        <5>1. cmd_result = reg["se"]["RLMS95"]
          BY <3>2, <1>6, <1>8
        <5>2. reg["se"]["RLMS95"] \in Bytes
          BY <1>7, ChipsAre, RegsAre DEF MarginTypes
        <5>3. QED BY <5>1, <5>2 DEF Amplitude, Bytes
      <4>3. Amplitude % AmpSpan = Amplitude
        BY <4>1, <4>2, ModSmall, BoardAssumption
      <4>4. se_tx_amp' = Amplitude - 1
        BY <3>2, <4>1, <4>2, <4>3, <1>5, BoardAssumption DEF Decrement
      <4>5. InMargin(se_tx_amp)'
        BY <4>1, <4>2, <4>4, BoardAssumption DEF InMargin
      <4>6. PICK m \in 2 .. Len(t) : t[m].as = "amp"
        BY <3>2, <1>3 DEF MarginAt, s
      <4>7. m - 1 \in 1 .. Len(u) /\ u[m - 1] = t[m]
        BY <1>2
      <4>8. QED BY <4>5, <4>6, <4>7
    <3>3. CASE s.as # "lower"
      <4>1. ~\E k \in 1 .. Len(t) : t[k].as = "lower"
        BY <3>3, <2>2, <1>4 DEF s
      <4>2. InMargin(se_tx_amp) /\ (Amplitude = se_tx_amp \/ \E k \in 1 .. Len(t) : t[k].as = "amp")
        BY <2>1, <3>1, <4>1 DEF Lowering
      <4>3. se_tx_amp' = se_tx_amp
        BY <3>3, <1>5
      <4>4. CASE Amplitude = se_tx_amp
        BY <4>2, <4>3, <4>4 DEF InMargin
      <4>5. CASE \E k \in 1 .. Len(t) : t[k].as = "amp"
        <5>1. PICK k \in 1 .. Len(t) : t[k].as = "amp"
          BY <4>5
        <5>2. CASE k = 1
          <6>1. s.as = "amp" /\ s.op = "write" /\ s.dev = "se" /\ s.reg = "RLMS95"
            BY <5>1, <5>2, <1>8 DEF s
          <6>2. reg["se"]["RLMS95"] = Byte(TRUE, "amp", se_tx_amp % AmpSpan)
            BY <6>1, <1>6 DEF Written
          <6>3. se_tx_amp % AmpSpan = se_tx_amp
            BY <4>2, <1>7, ModSmall, BoardAssumption DEF InMargin, MarginTypes
          <6>4. QED BY <6>2, <6>3, <4>4 DEF Amplitude, Byte
        <5>3. CASE k # 1
          <6>1. k - 1 \in 1 .. Len(u) /\ u[k - 1] = t[k]
            BY <5>3, <1>4
          <6>2. QED BY <5>1, <6>1, <4>2, <4>3 DEF InMargin
        <5>4. QED BY <5>2, <5>3
      <4>6. QED BY <4>2, <4>4, <4>5
    <3>4. QED BY <3>2, <3>3
  <2>5. QED BY <2>2, <2>3, <2>4, <1>1, <1>19 DEF Lowering, InLoop, InMargin
<1>26. QED
  BY <1>1, <1>10, <1>13, <1>16, <1>17, <1>18, <1>21, <1>22, <1>23, <1>24, <1>25 DEF MarginInv

\* A decision is all that is left, and nothing is on or, in the loop, unmeasured.
LEMMA AtDecision ==
  ASSUME MarginTool, MarginList(todo), MarginInv, NEW o \in {"check", "lock", "loop"}, Deciding(o)
  PROVE  /\ Long(todo, 1) /\ todo[1].op = o /\ todo[1].as = "" /\ ~Answered
         /\ \A d \in Chips, r \in Switches : ~reg[d][r].on
         /\ InLoop(todo) <=> o # "check"
         /\ o = "check" => Amplitude = tx_amp_org["se"]
         /\ RateKnown => /\ tx_amp_org["se"] = SeAmp
                         /\ o # "check" => InMargin(se_tx_amp) /\ Amplitude = se_tx_amp
<1>1. todo # <<>> /\ phase = "idle" /\ Head(todo).op = o
  BY DEF Deciding
<1>2. /\ todo \in Seq(Steps) /\ 1 \in 1 .. Len(todo) /\ todo[1].op = o /\ MarginStep(todo[1])
      /\ Head(todo) = todo[1] /\ Len(todo) \in Nat
  BY <1>1, HeadIs, TailIs
<1>3. Long(todo, 1) /\ todo[Len(todo)] = todo[1] /\ \A k \in 1 .. Len(todo) : todo[k] = todo[1]
  <2>1. Len(todo) = 1
    <3>1. todo[1].op \in Decisions => 1 = Len(todo)
      BY <1>2 DEF MarginList, StepsEnd
    <3>2. QED BY <3>1, <1>2 DEF Decisions
  <2>2. QED BY <2>1 DEF Long
<1>4. todo[1].as = "" /\ todo[1].op # "write"
  BY <1>2 DEF MarginStep
<1>5. ~Answered
  BY <1>1 DEF Answered
<1>6. InLoop(todo) <=> o # "check"
  BY <1>1, <1>2, <1>3 DEF InLoop
<1>7. ASSUME NEW d \in Chips, NEW r \in Switches PROVE ~reg[d][r].on
  <2>1. ASSUME NEW k \in 1 .. Len(todo), todo[k] = W(d, r, "off") PROVE FALSE
    <3>1. W(d, r, "off").op = "write"
      BY DEF W, Step
    <3>2. QED BY <2>1, <3>1, <1>3, <1>4
  <2>2. QED BY <2>1 DEF MarginInv, TurnedOff
<1>8. o = "check" => Amplitude = tx_amp_org["se"]
  BY <1>3, <1>4, <1>6 DEF MarginInv, Restoring
<1>9. ASSUME RateKnown
      PROVE  /\ tx_amp_org["se"] = SeAmp
             /\ o # "check" => InMargin(se_tx_amp) /\ Amplitude = se_tx_amp
  <2>1. Rated(todo) /\ Lowering(todo)
    BY <1>9 DEF MarginInv
  <2>2. tx_amp_org["se"] = SeAmp
    BY <2>1, <1>3, <1>4 DEF Rated
  <2>3. ~\E k \in 1 .. Len(todo) : todo[k].as \in {"lower", "amp"}
    BY <1>3, <1>4
  <2>4. o # "check" => InMargin(se_tx_amp) /\ Amplitude = se_tx_amp
    BY <2>1, <2>3, <1>6 DEF Lowering
  <2>5. QED BY <2>2, <2>4
<1>10. QED BY <1>2, <1>3, <1>4, <1>5, <1>6, <1>7, <1>8, <1>9

\* What a decision puts in the place of the list holds as it is.
LEMMA DecisionKeeps ==
  ASSUME MarginInv, NEW v, todo' = v, Fed(v), AmplitudeFed(v),
         UNCHANGED <<local, tx_amp_org, se_tx_amp, reg, phase, irq>>, ~Answered,
         \A d \in Chips, r \in Switches : ~reg[d][r].on,
         Restoring(v), RateKnown => tx_amp_org["se"] = SeAmp /\ Lowering(v)
  PROVE  MarginInv'
<1>1. MarginTypes'
  BY DEF MarginInv, MarginTypes
<1>2. Fed(todo)' /\ AmplitudeFed(todo)'
  BY DEF Fed, FedAt, Kept, AmplitudeFed, AmplitudeFedAt, Plain
<1>3. TurnedOff(todo)' /\ Tagged'
  BY DEF MarginInv, TurnedOff, Tagged
<1>4. Restoring(todo)'
  BY DEF Restoring, Amplitude, InLoop
<1>5. Answered' = Answered
  BY DEF Answered
<1>6. Delivered'
  BY <1>5 DEF Delivered
<1>7. RateKnown' => (Rated(todo) /\ Lowering(todo))'
  BY <1>5 DEF RateKnown, Rated, Lowering, InLoop, Amplitude, InMargin
<1>8. QED BY <1>1, <1>2, <1>3, <1>4, <1>6, <1>7 DEF MarginInv

\* A decision of the tool keeps the invariant of a measurement.
LEMMA MarginDecides ==
  ASSUME MarginTool, MarginList(todo), MarginInv, DecideCheck \/ DecideLock \/ DecideLoop
  PROVE  MarginInv'
<1>1. UNCHANGED <<local, tx_amp_org, se_tx_amp, reg, phase, irq>>
  BY DEF DecideCheck, DecideLock, DecideLoop, LocalsOnly, cwVars, toolVars, windowVars, board
<1>2. "se" \in Chips /\ Amplitude \in Nat /\ se_tx_amp \in Nat
  BY ChipsAre, RegsAre DEF MarginInv, MarginTypes, Amplitude, Bytes
<1>3. ASSUME NEW v \in Seq(Steps), v # <<>>
      PROVE  (\A k \in 1 .. Len(v) : v[k].as = "") =>
                Head(v).as # "orgOn" /\ ~\E k \in 1 .. Len(v) : v[k].as = "lower"
  <2>1. 1 \in 1 .. Len(v) /\ Head(v) = v[1]
    BY <1>3, TailIs
  <2>2. QED BY <2>1
<1>4. CASE DecideCheck
  <2>1. Deciding("check") /\ todo' \in {Lower, Check, link_margin_complete}
    BY <1>4 DEF DecideCheck
  <2>2. /\ \A d \in Chips, r \in Switches : ~reg[d][r].on
        /\ ~Answered /\ Amplitude = tx_amp_org["se"]
        /\ RateKnown => tx_amp_org["se"] = SeAmp
    BY <2>1, AtDecision
  <2>3. CASE todo' = Lower
    <3>1. Restoring(Lower)
      BY <2>2 DEF Restoring
    <3>2. ASSUME RateKnown PROVE Lowering(Lower)
      <4>1. Floor < Amplitude /\ Amplitude <= SeAmp
        BY <3>2, <2>2, <1>2, BoardAssumption
      <4>2. \E k \in 1 .. Len(Lower) : Lower[k].as = "lower"
        BY LowerList
      <4>3. Head(Lower) = Lower[1] /\ Lower[1].as # "orgOn"
        BY LowerList DEF MarginList, StepsEnd
      <4>4. QED BY <4>1, <4>2, <4>3 DEF Lowering
    <3>3. QED BY <1>1, <2>2, <2>3, <3>1, <3>2, LowerList, DecisionKeeps
  <2>4. CASE todo' \in {Check, link_margin_complete}
    <3> DEFINE v == IF todo' = Check THEN Check ELSE link_margin_complete
    <3>1. /\ todo' = v /\ Fed(v) /\ AmplitudeFed(v) /\ ~InLoop(v) /\ v # <<>> /\ v \in Seq(Steps)
          /\ \A k \in 1 .. Len(v) : v[k].as = ""
      BY <2>4, CheckList, CompleteList DEF MarginList, StepsEnd
    <3> HIDE DEF v
    <3>2. Restoring(v)
      BY <2>2 DEF Restoring
    <3>3. Lowering(v)
      BY <3>1, <1>3 DEF Lowering
    <3>4. QED BY <1>1, <2>2, <3>1, <3>2, <3>3, DecisionKeeps
  <2>5. QED BY <2>1, <2>3, <2>4
<1>5. CASE DecideLock
  <2>1. Deciding("lock") /\ todo' \in {Errors, Again}
    BY <1>5 DEF DecideLock, Again
  <2>2. /\ \A d \in Chips, r \in Switches : ~reg[d][r].on
        /\ ~Answered
        /\ RateKnown => /\ tx_amp_org["se"] = SeAmp
                        /\ InMargin(se_tx_amp) /\ Amplitude = se_tx_amp
    BY <2>1, AtDecision
  <2> DEFINE v == IF todo' = Errors THEN Errors ELSE Again
  <2>3. /\ todo' = v /\ Fed(v) /\ AmplitudeFed(v) /\ InLoop(v) /\ v # <<>> /\ v \in Seq(Steps)
        /\ \A k \in 1 .. Len(v) : v[k].as = ""
    BY <2>1, ErrorsList, AgainList DEF MarginList, StepsEnd
  <2> HIDE DEF v
  <2>4. Restoring(v)
    BY <2>3 DEF Restoring
  <2>5. RateKnown => Lowering(v)
    BY <2>2, <2>3, <1>3 DEF Lowering
  <2>6. QED BY <1>1, <2>2, <2>3, <2>4, <2>5, DecisionKeeps
<1>6. CASE DecideLoop
  <2>1. /\ Deciding("loop")
        /\ \/ todo' = Lower /\ se_tx_amp > Floor
           \/ todo' = Closing
    BY <1>6 DEF DecideLoop, Closing
  <2>2. /\ \A d \in Chips, r \in Switches : ~reg[d][r].on
        /\ ~Answered
        /\ RateKnown => /\ tx_amp_org["se"] = SeAmp
                        /\ InMargin(se_tx_amp) /\ Amplitude = se_tx_amp
    BY <2>1, AtDecision
  <2>3. CASE todo' = Lower /\ se_tx_amp > Floor
    <3>1. Restoring(Lower)
      BY LowerList DEF Restoring
    <3>2. ASSUME RateKnown PROVE Lowering(Lower)
      <4>1. Floor < Amplitude /\ Amplitude <= SeAmp
        BY <3>2, <2>2, <2>3, <1>2, BoardAssumption DEF InMargin
      <4>2. \E k \in 1 .. Len(Lower) : Lower[k].as = "lower"
        BY LowerList
      <4>3. Head(Lower) = Lower[1] /\ Lower[1].as # "orgOn"
        BY LowerList DEF MarginList, StepsEnd
      <4>4. QED BY <4>1, <4>2, <4>3 DEF Lowering
    <3>3. QED BY <1>1, <2>2, <2>3, <3>1, <3>2, LowerList, DecisionKeeps
  <2>4. CASE todo' = Closing
    <3>1. Restoring(Closing)
      BY ClosingList DEF Restoring
    <3>2. RateKnown => Lowering(Closing)
      BY <2>2, ClosingList DEF Lowering
    <3>3. QED BY <1>1, <2>2, <2>4, <3>1, <3>2, ClosingList, DecisionKeeps
  <2>5. QED BY <2>1, <2>3, <2>4
<1>7. QED BY <1>4, <1>5, <1>6

\* link_margin_test as it begins: every switch is on, and on its list.
LEMMA MarginBegins == ASSUME MarginTool, Init PROVE MarginInv
<1> DEFINE t == link_margin_test
<1>1. NoIndex \notin Indices
  BY BoardAssumption DEF NoIndex
<1>2. todo = t /\ phase = "idle"
  BY <1>1 DEF Init, CWInit, MarginTool
<1>3. PICK rate \in Rates : reg = [d \in Chips |-> [r \in Regs |->
                        IF r = "REG01" THEN Byte(FALSE, "rate", rate)
                        ELSE IF r = "RLMS95" THEN Byte(TRUE, "amp", DeAmp)
                        ELSE Byte(TRUE, d, 0)]]
  BY <1>1 DEF Init, MarginTool
<1>4. rate \in Nat /\ DeAmp \in Nat
  BY BoardAssumption
<1>5. MarginTypes
  <2>1. /\ Byte(FALSE, "rate", rate) \in Bytes /\ Byte(TRUE, "amp", DeAmp) \in Bytes
        /\ Zero \in Bytes /\ \A d \in Chips : Byte(TRUE, d, 0) \in Bytes
    BY <1>4 DEF Byte, Bytes, Tags, Zero
  <2>2. reg \in [Chips -> [Regs -> Bytes]]
    BY <1>3, <2>1
  <2>3. local = [d \in Chips |-> [r \in Regs |-> Zero]] /\ tx_amp_org = [d \in Chips |-> 0] /\ se_tx_amp = 0
    BY DEF Init
  <2>4. QED BY <2>1, <2>2, <2>3 DEF MarginTypes
<1>6. Tagged
  <2>1. ASSUME NEW d \in Chips, NEW r \in Switches PROVE reg[d][r].tag = d
    <3>1. r \in Regs /\ r # "REG01" /\ r # "RLMS95"
      BY DEF Regs, Switches
    <3>2. reg[d][r] = Byte(TRUE, d, 0)
      BY <1>3, <3>1
    <3>3. QED BY <3>2 DEF Byte
  <2>2. QED BY <2>1 DEF Tagged
<1>7. Len(t) \in Nat /\ Len(t) <= 26 /\ 26 <= Len(t) /\ t \in Seq(Steps)
  BY TestIs DEF Long
<1>8. TurnedOff(t)
  <2>1. /\ t[8] = W("se", "RLMSA4", "off") /\ t[9] = W("de", "RLMSA4", "off")
        /\ t[12] = W("se", "RLMS4", "off") /\ t[13] = W("de", "RLMS4", "off")
        /\ t[16] = W("se", "RLMS3", "off") /\ t[17] = W("de", "RLMS3", "off")
    BY TestIs
  <2>2. {8, 9, 12, 13, 16, 17} \subseteq 1 .. Len(t)
    BY <1>7
  <2> HIDE DEF t
  <2>3. ASSUME NEW d \in Chips, NEW r \in Switches
        PROVE  \E k \in 1 .. Len(t) : t[k] = W(d, r, "off")
    BY <2>1, <2>2 DEF Chips, Switches
  <2>4. QED BY <2>3 DEF TurnedOff
<1>9. Restoring(t)
  <2>1. t[5] = W("se", "RLMS95", "org") /\ 5 \in 1 .. Len(t)
    BY TestIs, <1>7
  <2>2. LET x == W("se", "RLMS95", "org") IN x.dev = "se" /\ x.as = "org"
    BY DEF W, Step
  <2>3. QED BY <2>1, <2>2 DEF Restoring
<1>10. Rated(t)
  <2>1. t[4] = Step("read", "se", "REG01", "rate") /\ 4 \in 1 .. Len(t)
    BY TestIs, <1>7
  <2>2. LET x == Step("read", "se", "REG01", "rate") IN x.dev = "se" /\ x.as = "rate"
    BY DEF Step
  <2>3. QED BY <2>1, <2>2 DEF Rated
<1>11. Lowering(t)
  <2>1. Head(t) = Detect
    BY TestIs, <1>7
  <2>2. Detect.as # "orgOn"
    BY DEF Detect, Step
  <2>3. QED BY <2>1, <2>2, TestList DEF Lowering
<1>12. Delivered
  BY <1>2 DEF Delivered, Answered
<1>13. Fed(t) /\ AmplitudeFed(t)
  BY TestList
<1>14. QED BY <1>2, <1>5, <1>6, <1>8, <1>9, <1>10, <1>11, <1>12, <1>13 DEF MarginInv

\* What holds of a measurement whose commands have not failed.
MarginBI == MarginTool => MarginList(todo) /\ (failures = 0 => MarginInv)

\* A step of the tool or the board keeps the lists, and the invariant as long as
\* no command has failed.
LEMMA MarginKept ==
  ASSUME MarginTool, MarginList(todo), ToolInv, failures = 0 => MarginInv, [Next]_vars, failures' = 0
  PROVE  MarginInv'
<1> DEFINE quiet == UNCHANGED <<todo, local, tx_amp_org, se_tx_amp, reg>>
<1>1. failures = 0
  BY DEF Next, Tool, A53, Send, Next_step, Compose, Return, Post, PollDone, Collect, Timeout, GiveUp,
         A53Take, A53Bad, Answer, Execute, A53Done, DecideCheck, DecideLock, DecideLoop, DecideLinkA,
         DecideLinkB, LocalsOnly, cwVars, windowHistory, vars, ToolInv, Failed
<1>2. MarginInv
  BY <1>1
<1>3. CASE UNCHANGED vars
  <2>1. quiet /\ Answered' = Answered /\ Outcome' = Outcome
    BY <1>3 DEF vars, toolLocals, board, cwVars, toolVars, windowVars, Answered, Outcome
  <2>2. QED BY <2>1, <1>2, MarginQuiet
<1>4. CASE Send
  <2>1. quiet /\ ~Answered /\ ~Answered'
    BY <1>4 DEF Send, Compose, toolLocals, board, Answered
  <2>2. QED BY <2>1, <1>2, MarginQuiet
<1>5. CASE Next_step
  BY <1>2, <1>5, MarginNext
<1>6. CASE Post /\ UNCHANGED <<ToolRest, board>>
  <2>1. quiet /\ ~Answered /\ ~Answered'
    BY <1>6 DEF Post, ToolRest, toolLocals, board, Answered
  <2>2. QED BY <2>1, <1>2, MarginQuiet
<1>7. CASE PollDone /\ UNCHANGED <<ToolRest, board>>
  <2>1. quiet /\ Answered /\ Answered' /\ Outcome' = Outcome
    BY <1>7 DEF PollDone, windowVars, ToolRest, toolLocals, board, Answered, Outcome
  <2>2. QED BY <2>1, <1>2, MarginQuiet
<1>8. CASE Collect /\ UNCHANGED <<ToolRest, board>>
  <2>1. ~resp.bad
    BY <1>1 DEF ToolInv, Failed
  <2>2. quiet /\ Answered /\ Answered' /\ Outcome' = Outcome
    BY <1>8, <2>1 DEF Collect, windowVars, ToolRest, toolLocals, board, Answered, Outcome
  <2>3. QED BY <2>2, <1>2, MarginQuiet
<1>9. CASE Timeout
  BY <1>1, <1>9 DEF Timeout, GiveUp
<1>10. CASE DecideCheck \/ DecideLock \/ DecideLoop
  BY <1>2, <1>10, MarginDecides
<1>11. ~DecideLinkA /\ ~DecideLinkB
  BY MarginListKept DEF ToolInv
<1>12. CASE A53Take /\ UNCHANGED <<ToolRest, board>>
  <2>1. quiet /\ Answered' = Answered /\ Outcome' = Outcome
    BY <1>12 DEF A53Take, toolVars, windowVars, ToolRest, toolLocals, board, Answered, Outcome
  <2>2. QED BY <2>1, <1>2, MarginQuiet
<1>13. CASE A53Bad
  BY <1>1, <1>13 DEF A53Bad
<1>14. CASE Execute
  BY <1>1, <1>2, <1>14, MarginExecute
<1>15. QED
  BY <1>3, <1>4, <1>5, <1>6, <1>7, <1>8, <1>9, <1>10, <1>11, <1>12, <1>13, <1>14 DEF Next, Tool, A53

\* The invariant says what is promised.
LEMMA MarginSafe == ASSUME MarginTool, failures = 0, MarginInv PROVE MarginHolds
<1>1. RegistersKept
  <2>1. \A d \in Chips, r \in Switches : reg[d][r].tag = d
    BY DEF MarginInv, Tagged
  <2>2. ASSUME todo = <<>>
        PROVE  /\ \A d \in Chips, r \in Switches : ~reg[d][r].on
               /\ reg["se"]["RLMS95"].num = tx_amp_org["se"]
    <3>1. 1 .. Len(todo) = {} /\ ~InLoop(todo)
      BY <2>2 DEF InLoop
    <3>2. QED BY <3>1 DEF MarginInv, TurnedOff, Restoring, Amplitude
  <2>3. QED BY <2>1, <2>2 DEF RegistersKept
<1>2. MarginIsMeasured
  <2>1. SUFFICES ASSUME phase = "idle", todo = Closing, RateKnown
                 PROVE  /\ se_tx_amp = reg["se"]["RLMS95"].num
                        /\ Floor <= se_tx_amp /\ se_tx_amp < tx_amp_org["se"]
    BY DEF MarginIsMeasured, Closing, RateKnown
  <2>2. Rated(Closing) /\ Lowering(Closing) /\ ~Answered
    BY <2>1 DEF MarginInv, Answered
  <2>3. InMargin(se_tx_amp) /\ Amplitude = se_tx_amp
    BY <2>2, ClosingList DEF Lowering
  <2>4. ASSUME NEW k \in 1 .. Len(Closing) PROVE Closing[k].as # "rate"
    <3>2. /\ W("se", "RLMS95", "orgOn").as # "rate" /\ W("de", "RLMS3", "on").as # "rate"
          /\ W("de", "RLMS3", "off").as # "rate" /\ R("de", "RLMS3").as # "rate"
          /\ R("se", "CNT0").as # "rate" /\ R("de", "CNT0").as # "rate"
      BY DEF W, R, Step
    <3>3. k = 1 \/ k = 2 \/ k = 3 \/ k = 4 \/ k = 5 \/ k = 6 \/ k = 7
      BY ClosingIs DEF Long
    <3>4. QED BY <3>2, <3>3, ClosingIs
  <2>5. tx_amp_org["se"] = SeAmp
    BY <2>2, <2>4 DEF Rated
  <2>6. QED BY <2>3, <2>5 DEF InMargin, Amplitude
<1>3. QED BY <1>1, <1>2 DEF MarginHolds

\* link_margin_test puts every switch and the amplitude back, and the margin it
\* reports is one it measured, for any rate, amplitude, scale and
\* number of tries, until a command fails (forward_link_margin, link_margin_init,
\* link_margin_complete).
THEOREM Measures == Spec => []MarginHolds
<1>1. Init => ToolInv /\ MarginBI
  BY ToolBegins, MarginListed, MarginBegins DEF MarginBI
<1>2. ASSUME ToolInv, MarginBI, [Next]_vars PROVE ToolInv' /\ MarginBI'
  <2>1. ToolInv'
    BY <1>2, ToolKept
  <2>2. index' = index
    BY <1>2 DEF Next, Tool, A53, vars, Send, Next_step, Execute, ToolRest, toolLocals, LocalsOnly,
         DecideCheck, DecideLock, DecideLoop, DecideLinkA, DecideLinkB
  <2>3. MarginBI'
    BY <1>2, <2>2, MarginListKept, MarginKept DEF MarginBI, MarginTool, ToolInv
  <2>4. QED BY <2>1, <2>3
<1>3. MarginBI => MarginHolds
  BY MarginSafe DEF MarginBI, MarginHolds, RegistersKept, MarginIsMeasured
<1>4. QED BY <1>1, <1>2, <1>3, PTL DEF Spec
-----------------------------------------------------------------------------
\* The lists of a configuration are made of parts, which may come in any order.

\* Part of a list of serdes_channel_init: no probes, and a link is selected
\* before its serializer is moved.
Ordinary(s) == s \in Steps /\ ChannelStep(s) /\ s.op \in {"detect", "element", "sensor"}
Fits(t, k) ==
    Ordinary(t[k]) /\ \A l \in Links : t[k] = Move(Own[l]) => SelectsFirst(t, k, l)
Chunk(t) == t \in Seq(Steps) /\ \A k \in 1 .. Len(t) : Fits(t, k)
\* One that ends with an i2cdetect.
Sent(t) == Chunk(t) /\ t # <<>> /\ t[Len(t)] = Detect
\* A list as serdes_channel_init begins it.
Fresh(t) ==
    /\ ChannelList(t) /\ \A k \in 1 .. Len(t), l \in Links : t[k] = Move(Own[l]) => SelectsFirst(t, k, l)
    /\ t # <<>> => t[1].op \notin {"probe"} \cup Links

Devices == {"0x90", "0x80", "0xc0", "0xc4"}
Targets == {"0x34", "0x6c", "0x20", "0x42"}
Sensors == {"0x34", "0x36", "0x38"}

\* A link has an address and an i2c channel of its own.
LEMMA OwnIs ==
  /\ Links = {"linkA", "linkB"} /\ Own["linkA"] = "0xc0" /\ Own["linkB"] = "0xc4"
  /\ Own.linkA = "0xc0" /\ Own.linkB = "0xc4"
  /\ Sole("linkA") = "a" /\ Sole("linkB") = "b"
  /\ Chosen["a"] = {"linkA"} /\ Chosen["b"] = {"linkB"} /\ Chosen["ab"] = Links
BY DEF Links, Own, Sole, Chosen

\* What elements are made of.
LEMMA ElementNames ==
  /\ Devices \cup Targets \cup Sensors \cup {"a", "b", "ab", ""} \subseteq Names
  /\ {"element", "sensor", "detect", "probe", "linkA", "linkB"} \subseteq Names
  /\ {"set", "select", "reset", "translate", "move"} \subseteq Names
BY DEF Names, Devices, Targets, Sensors

\* The elements of the tables.
LEMMA SetIs ==
  ASSUME NEW d \in Devices
  PROVE  LET s == Set(d) IN Ordinary(s) /\ s.reg # "move" /\ ~Selecting(s)
<1>1. Set(d) \in Steps
  BY StepIs, ElementNames DEF Set, Element
<1>2. QED BY <1>1 DEF Ordinary, ChannelStep, Selecting, Set, Element, Step

\* a translation;
LEMMA TranslateIs ==
  ASSUME NEW d \in Devices, NEW to \in Targets
  PROVE  LET s == Translate(d, to) IN Ordinary(s) /\ s.reg # "move" /\ ~Selecting(s)
<1>1. Translate(d, to) \in Steps
  BY StepIs, ElementNames DEF Translate, Element
<1>2. QED BY <1>1 DEF Ordinary, ChannelStep, Selecting, Translate, Element, Step

\* a reset;
LEMMA ResetIs ==
  ASSUME NEW d \in Devices
  PROVE  LET s == Reset(d) IN Ordinary(s) /\ s.reg # "move" /\ (d # "0x90" => ~Selecting(s))
<1>1. Reset(d) \in Steps
  BY StepIs, ElementNames DEF Reset, Element
<1>2. QED BY <1>1 DEF Ordinary, ChannelStep, Selecting, Reset, Element, Step

\* a selection, which selects its links;
LEMMA SelectIs ==
  ASSUME NEW x \in {"a", "b", "ab"}
  PROVE  LET s == Select(x) IN Ordinary(s) /\ s.reg # "move"
<1>1. Select(x) \in Steps
  BY StepIs, ElementNames DEF Select, Element, Devices
<1>2. QED BY <1>1 DEF Ordinary, ChannelStep, Select, Element, Step

\* a move, each to an address of its own;
LEMMA MoveIs ==
  ASSUME NEW l \in Links
  PROVE  LET s == Move(Own[l]) IN
         /\ Ordinary(s) /\ ~Selecting(s) /\ s.reg = "move" /\ s.dev = "0x80" /\ s.as = Own[l]
         /\ s.op = "element"
         /\ \A m \in Links : s = Move(Own[m]) => m = l
<1>0. Own[l] \in Names /\ "0x80" \in Names
  BY OwnIs, ElementNames DEF Devices
<1>1. Move(Own[l]) \in Steps
  BY <1>0, StepIs, ElementNames DEF Move, Element
<1>2. LET s == Move(Own[l]) IN
      s.reg = "move" /\ s.dev = "0x80" /\ s.as = Own[l] /\ s.op = "element"
  BY DEF Move, Element, Step
<1>3. Ordinary(Move(Own[l])) /\ ~Selecting(Move(Own[l]))
  BY <1>1, <1>2 DEF Ordinary, ChannelStep, Selecting, Links
<1>4. ASSUME NEW m \in Links, Move(Own[l]) = Move(Own[m]) PROVE m = l
  <2>1. Move(Own[l]).as = Own[l] /\ Move(Own[m]).as = Own[m]
    BY DEF Move, Element, Step
  <2>2. QED BY <2>1, <1>4, OwnIs
<1>5. QED BY <1>2, <1>3, <1>4

\* an i2cdetect;
LEMMA DetectIs == LET s == Detect IN Ordinary(s) /\ s.reg # "move" /\ ~Selecting(s) /\ s.op = "detect"
<1>1. Detect \in Steps
  BY StepIs, ElementNames DEF Detect
<1>2. QED BY <1>1 DEF Ordinary, ChannelStep, Selecting, Detect, Step

\* the commands of a sensor;
LEMMA SensorIs ==
  ASSUME NEW d \in Sensors
  PROVE  LET s == Step("sensor", d, "", "") IN Ordinary(s) /\ s.reg # "move" /\ ~Selecting(s)
<1>1. Step("sensor", d, "", "") \in Steps
  BY StepIs, ElementNames
<1>2. QED BY <1>1 DEF Ordinary, ChannelStep, Selecting, Step, Detect

\* a probe and its decision.
LEMMA ProbeIs ==
  ASSUME NEW l \in Links
  PROVE  /\ Probe(l) \in Seq(Steps) /\ Long(Probe(l), 2)
         /\ LET s == Probe(l)[1] IN
            ChannelStep(s) /\ s.op = "probe" /\ s.reg = "" /\ s.dev = Own[l] /\ s \in Steps
         /\ LET s == Probe(l)[2] IN ChannelStep(s) /\ s.op = l /\ s.reg = "" /\ s \in Steps
<1> DEFINE p == Step("probe", Own[l], "", "") q == Decide(l)
<1>1. p \in Steps /\ q \in Steps
  BY StepIs, ElementNames, OwnIs DEF Decide, Devices
<1>2. ChannelStep(p) /\ p.op = "probe" /\ p.reg = "" /\ p.dev = Own[l]
  BY DEF ChannelStep, Step
<1>3. ChannelStep(q) /\ q.op = l /\ q.reg = ""
  BY OwnIs DEF ChannelStep, Decide, Step
<1> HIDE DEF p, q
<1>4. Probe(l) = <<p, q>>
  BY DEF Probe, p, q
<1>5. Probe(l) \in Seq(Steps) /\ Long(Probe(l), 2)
  BY <1>1, <1>4 DEF Long
<1>6. Probe(l)[1] = p /\ Probe(l)[2] = q
  BY <1>4
<1>7. QED BY <1>1, <1>2, <1>3, <1>5, <1>6

\* Steps that move no serializer, and those that do.
LEMMA MovesOnly == ASSUME NEW s, s.reg # "move", NEW l \in Links PROVE s # Move(Own[l])
BY MoveIs

\* A step that moves no serializer fits anywhere.
LEMMA PlainFits ==
  ASSUME NEW t, NEW k, Ordinary(t[k]), t[k].reg # "move"
  PROVE  Fits(t, k)
BY MovesOnly DEF Fits

\* One that does fits where its link was selected before.
LEMMA MoveFits ==
  ASSUME NEW t, NEW k \in Nat, NEW l \in Links, t[k] = Move(Own[l]),
         NEW j \in 1 .. k - 1, t[j] = Select(Sole(l)),
         \A m \in j + 1 .. k - 1 : ~Selecting(t[m])
  PROVE  Fits(t, k)
<1>1. SelectsFirst(t, k, l)
  BY DEF SelectsFirst
<1>2. QED BY <1>1, MoveIs DEF Fits

\* Parts in a row are a part.
LEMMA ChunkConcat ==
  ASSUME NEW a, NEW b, Chunk(a), Chunk(b)
  PROVE  Chunk(a \o b) /\ (Sent(b) => Sent(a \o b))
<1> DEFINE c == a \o b
<1>1. /\ a \in Seq(Steps) /\ b \in Seq(Steps) /\ c \in Seq(Steps)
      /\ Len(a) \in Nat /\ Len(b) \in Nat /\ Len(c) = Len(a) + Len(b)
      /\ \A k \in 1 .. Len(a) : c[k] = a[k]
      /\ \A k \in 1 .. Len(b) : c[Len(a) + k] = b[k]
  BY ConcatIs DEF Chunk
<1> HIDE DEF c
<1>2. ASSUME NEW k \in 1 .. Len(a) PROVE Fits(c, k)
  <2>1. Fits(a, k) /\ c[k] = a[k]
    BY <1>1 DEF Chunk
  <2>2. ASSUME NEW l \in Links, SelectsFirst(a, k, l) PROVE SelectsFirst(c, k, l)
    <3>1. PICK j \in 1 .. k - 1 : a[j] = Select(Sole(l)) /\ \A m \in j + 1 .. k - 1 : ~Selecting(a[m])
      BY <2>2 DEF SelectsFirst
    <3>2. j \in 1 .. Len(a) /\ \A m \in j + 1 .. k - 1 : m \in 1 .. Len(a)
      BY <1>1
    <3>3. c[j] = Select(Sole(l)) /\ \A m \in j + 1 .. k - 1 : ~Selecting(c[m])
      BY <3>1, <3>2, <1>1
    <3>4. QED BY <3>3 DEF SelectsFirst
  <2>3. QED BY <2>1, <2>2 DEF Fits
<1>3. ASSUME NEW k \in 1 .. Len(b) PROVE Fits(c, Len(a) + k)
  <2>1. Fits(b, k) /\ c[Len(a) + k] = b[k]
    BY <1>1 DEF Chunk
  <2>2. ASSUME NEW l \in Links, SelectsFirst(b, k, l) PROVE SelectsFirst(c, Len(a) + k, l)
    <3>1. PICK j \in 1 .. k - 1 : b[j] = Select(Sole(l)) /\ \A m \in j + 1 .. k - 1 : ~Selecting(b[m])
      BY <2>2 DEF SelectsFirst
    <3>2. /\ Len(a) + j \in 1 .. (Len(a) + k) - 1 /\ j \in 1 .. Len(b)
          /\ \A m \in (Len(a) + j) + 1 .. (Len(a) + k) - 1 :
                m - Len(a) \in j + 1 .. k - 1 /\ m - Len(a) \in 1 .. Len(b) /\ Len(a) + (m - Len(a)) = m
      BY <1>1
    <3>3. c[Len(a) + j] = Select(Sole(l))
      BY <3>1, <3>2, <1>1
    <3>4. ASSUME NEW m \in (Len(a) + j) + 1 .. (Len(a) + k) - 1 PROVE ~Selecting(c[m])
      <4>1. c[m] = b[m - Len(a)]
        BY <3>2, <1>1
      <4>2. QED BY <4>1, <3>1, <3>2
    <3>5. QED BY <3>2, <3>3, <3>4 DEF SelectsFirst
  <2>3. QED BY <2>1, <2>2 DEF Fits
<1>4. ASSUME NEW k \in 1 .. Len(c) PROVE Fits(c, k)
  <2>1. CASE k <= Len(a)
    <3>1. k \in 1 .. Len(a)
      BY <2>1, <1>1
    <3>2. QED BY <3>1, <1>2
  <2>2. CASE k > Len(a)
    <3>1. k - Len(a) \in 1 .. Len(b) /\ Len(a) + (k - Len(a)) = k
      BY <2>2, <1>1
    <3>2. Fits(c, Len(a) + (k - Len(a)))
      BY <3>1, <1>3
    <3>3. QED BY <3>1, <3>2
  <2>3. QED BY <2>1, <2>2, <1>1
<1>5. Chunk(c)
  BY <1>1, <1>4 DEF Chunk
<1>6. ASSUME Sent(b) PROVE Sent(c)
  <2>1. Len(b) \in 1 .. Len(b) /\ c # <<>>
    BY <1>6, <1>1 DEF Sent
  <2>2. c[Len(c)] = b[Len(b)]
    BY <2>1, <1>1
  <2>3. QED BY <2>1, <2>2, <1>5, <1>6 DEF Sent
<1>7. QED BY <1>5, <1>6 DEF c

\* The parts there are nothing of, or one step.
LEMMA ChunkEmpty == Chunk(<<>>)
BY DEF Chunk

\* A step of its own is a part.
LEMMA ChunkOne == ASSUME NEW s, Ordinary(s), s.reg # "move" PROVE Chunk(<<s>>)
<1> DEFINE t == <<s>>
<1>1. s \in Steps
  BY DEF Ordinary
<1>2. t \in Seq(Steps) /\ t[1] = s /\ Long(t, 1)
  BY <1>1 DEF Long
<1> HIDE DEF t
<1>3. Fits(t, 1)
  BY <1>2, PlainFits
<1>4. QED BY <1>2, <1>3 DEF Chunk, Long, t

\* The elements of a part, sent with an i2cdetect before them.
LEMMA ElementsSent ==
  ASSUME NEW t, Chunk(t)
  PROVE  Sent(Elements(t)) /\ Chunk(Elements(t))
<1> DEFINE d == <<Detect>>
<1>1. Chunk(d)
  BY DetectIs, ChunkOne
<1>2. Sent(d)
  BY <1>1 DEF Sent
<1> HIDE DEF d
<1>3. Chunk(d \o t)
  BY <1>1, ChunkConcat
<1>4. Sent((d \o t) \o d)
  BY <1>1, <1>2, <1>3, ChunkConcat
<1>5. QED BY <1>4 DEF Elements, d, Sent

\* A part can be what is left of a configuration, probes or not.
LEMMA ChunkFresh == ASSUME NEW t, Chunk(t) PROVE Fresh(t)
<1>1. t \in Seq(Steps) /\ \A k \in 1 .. Len(t) : Ordinary(t[k])
  BY DEF Chunk, Fits
<1>2. ASSUME NEW k \in 1 .. Len(t)
      PROVE t[k].op \notin Decisions /\ t[k].op \notin {"probe"} \cup Links /\ ChannelStep(t[k])
  BY <1>1 DEF Ordinary, Decisions, Links
<1>3. StepsEnd(t)
  BY <1>1, <1>2 DEF StepsEnd
<1>4. ChannelList(t)
  BY <1>2, <1>3 DEF ChannelList
<1>5. t # <<>> => 1 \in 1 .. Len(t)
  BY <1>1, TailIs
<1>6. QED BY <1>2, <1>4, <1>5 DEF Chunk, Fits, Fresh

\* So can a part with a probe after it, which an i2cdetect precedes.
LEMMA SentProbe == ASSUME NEW a, Sent(a), NEW l \in Links PROVE Fresh(a \o Probe(l))
<1> DEFINE b == Probe(l) c == a \o b n == Len(a)
<1>1. /\ a \in Seq(Steps) /\ b \in Seq(Steps) /\ c \in Seq(Steps)
      /\ n \in Nat /\ n > 0 /\ Len(b) <= 2 /\ 2 <= Len(b) /\ Len(c) <= n + 2 /\ n + 2 <= Len(c)
      /\ \A k \in 1 .. n : c[k] = a[k]
      /\ \A k \in 1 .. Len(b) : c[n + k] = b[k]
  <2>1. a \in Seq(Steps) /\ b \in Seq(Steps) /\ Len(b) <= 2 /\ 2 <= Len(b) /\ a # <<>>
    BY ProbeIs DEF Chunk, Sent, Long
  <2> HIDE DEF b
  <2>2. n \in Nat /\ n > 0 /\ Len(b) \in Nat
    BY <2>1, TailIs
  <2>3. c \in Seq(Steps) /\ Len(c) = n + Len(b)
    BY <2>1, ConcatIs
  <2>4. \A k \in 1 .. n : c[k] = a[k]
    BY <2>1, ConcatIs
  <2>5. \A k \in 1 .. Len(b) : c[n + k] = b[k]
    BY <2>1, ConcatIs
  <2> HIDE DEF c
  <2>6. QED BY <2>1, <2>2, <2>3, <2>4, <2>5
<1>2. \A k \in 1 .. n : Fits(a, k)
  BY DEF Sent, Chunk
<1>3. /\ ChannelStep(c[n + 1]) /\ c[n + 1].op = "probe" /\ c[n + 1].reg = "" /\ c[n + 1].dev = Own[l]
      /\ ChannelStep(c[n + 2]) /\ c[n + 2].op = l /\ c[n + 2].reg = ""
  <2>1. 1 \in 1 .. Len(b) /\ 2 \in 1 .. Len(b)
    BY <1>1
  <2> HIDE DEF c
  <2>2. c[n + 1] = b[1] /\ c[n + 2] = b[2]
    BY <2>1, <1>1
  <2>3. /\ ChannelStep(b[1]) /\ b[1].op = "probe" /\ b[1].reg = "" /\ b[1].dev = Own[l]
        /\ ChannelStep(b[2]) /\ b[2].op = l /\ b[2].reg = ""
    BY ProbeIs
  <2> HIDE DEF b
  <2>4. QED BY <2>2, <2>3
<1>4. c[n] = Detect
  BY <1>1 DEF Sent
<1> HIDE DEF c, b
<1>5. ASSUME NEW k \in 1 .. n
      PROVE  /\ ChannelStep(c[k]) /\ c[k].op \notin {"probe"} \cup Links /\ c[k].op \notin Decisions
             /\ \A m \in Links : c[k] = Move(Own[m]) => SelectsFirst(c, k, m)
  <2>1. c[k] = a[k] /\ Fits(a, k) /\ Ordinary(a[k])
    BY <1>1, <1>2 DEF Fits
  <2>2. ASSUME NEW m \in Links, SelectsFirst(a, k, m) PROVE SelectsFirst(c, k, m)
    <3>1. PICK j \in 1 .. k - 1 : a[j] = Select(Sole(m)) /\ \A i1 \in j + 1 .. k - 1 : ~Selecting(a[i1])
      BY <2>2 DEF SelectsFirst
    <3>2. j \in 1 .. n /\ \A i1 \in j + 1 .. k - 1 : i1 \in 1 .. n
      BY <1>1
    <3>3. c[j] = Select(Sole(m)) /\ \A i1 \in j + 1 .. k - 1 : ~Selecting(c[i1])
      BY <3>1, <3>2, <1>1
    <3>4. QED BY <3>3 DEF SelectsFirst
  <2>3. QED BY <2>1, <2>2 DEF Fits, Ordinary, Links, Decisions
<1>6. ASSUME NEW k \in 1 .. Len(c) PROVE k \in 1 .. n \/ k = n + 1 \/ k = n + 2
  BY <1>1
<1>7. c[n + 1].op \notin Decisions /\ c[n + 1].op \notin Links /\ c[n + 2].op # "probe"
  BY <1>3 DEF Decisions, Links
<1>8. StepsEnd(c)
  <2>1. ASSUME NEW k \in 1 .. Len(c), c[k].op \in Decisions PROVE k = Len(c)
    BY <2>1, <1>1, <1>5, <1>6, <1>7
  <2>2. QED BY <1>1, <2>1 DEF StepsEnd
<1>9. ASSUME NEW k \in 1 .. Len(c)
      PROVE  /\ ChannelStep(c[k])
             /\ c[k].op = "probe" => k = n + 1
             /\ c[k].op \in Links => k = n + 2
             /\ \A m \in Links : c[k] = Move(Own[m]) => SelectsFirst(c, k, m)
  <2>1. \A m \in Links : c[n + 1] # Move(Own[m]) /\ c[n + 2] # Move(Own[m])
    BY <1>3, MovesOnly
  <2>2. QED BY <2>1, <1>3, <1>5, <1>6, <1>7
<1>10. (n + 2) - 1 = n + 1 /\ (n + 1) - 1 = n /\ (n + 1) + 1 = n + 2
  BY <1>1
<1>11. ChannelList(c)
  <2>1. ASSUME NEW k \in 1 .. Len(c)
        PROVE  /\ c[k].op = "probe" =>
                    /\ Len(c) = k + 1
                    /\ k > 1 => c[k - 1] = Detect
                    /\ c[k + 1].op \in Links /\ c[k].dev = Own[c[k + 1].op]
               /\ c[k].op \in Links /\ k > 1 => c[k - 1].op = "probe"
    <3>1. CASE k = n + 1
      <4>1. Len(c) = k + 1 /\ k - 1 = n /\ k + 1 = n + 2
        BY <3>1, <1>1
      <4>2. c[k - 1] = Detect /\ c[k + 1].op = l /\ c[k].dev = Own[l] /\ c[k].op \notin Links
        BY <3>1, <4>1, <1>3, <1>4, <1>7
      <4>3. QED BY <4>1, <4>2
    <3>2. CASE k = n + 2
      BY <3>2, <1>1, <1>3, <1>7, <1>10
    <3>3. CASE k # n + 1 /\ k # n + 2
      BY <3>3, <1>9
    <3>4. QED BY <3>1, <3>2, <3>3
  <2>2. QED BY <1>8, <1>9, <2>1 DEF ChannelList
<1>12. c[1].op \notin {"probe"} \cup Links
  BY <1>1, <1>5
<1>13. Fresh(c)
  BY <1>9, <1>11, <1>12 DEF Fresh
<1>14. QED BY <1>13 DEF c, b
-----------------------------------------------------------------------------
\* Every table of serdes_data.c and serdes_data_raw.c is such a part.

\* What the tables are made of.
LEMMA ElementsFit ==
  /\ Move("0xc0") \in Steps /\ ~Selecting(Move("0xc0"))
  /\ Move("0xc4") \in Steps /\ ~Selecting(Move("0xc4"))
  /\ Ordinary(Reset("0x90")) /\ Reset("0x90").reg # "move" /\ Reset("0x90") \in Steps
  /\ Ordinary(Reset("0xc0")) /\ Reset("0xc0").reg # "move" /\ Reset("0xc0") \in Steps /\ ~Selecting(Reset("0xc0"))
  /\ Ordinary(Select("a")) /\ Select("a").reg # "move" /\ Select("a") \in Steps
  /\ Ordinary(Select("ab")) /\ Select("ab").reg # "move" /\ Select("ab") \in Steps
  /\ Ordinary(Select("b")) /\ Select("b").reg # "move" /\ Select("b") \in Steps
  /\ Ordinary(Set("0x80")) /\ Set("0x80").reg # "move" /\ Set("0x80") \in Steps /\ ~Selecting(Set("0x80"))
  /\ Ordinary(Set("0x90")) /\ Set("0x90").reg # "move" /\ Set("0x90") \in Steps /\ ~Selecting(Set("0x90"))
  /\ Ordinary(Set("0xc0")) /\ Set("0xc0").reg # "move" /\ Set("0xc0") \in Steps /\ ~Selecting(Set("0xc0"))
  /\ Ordinary(Set("0xc4")) /\ Set("0xc4").reg # "move" /\ Set("0xc4") \in Steps /\ ~Selecting(Set("0xc4"))
  /\ Ordinary(Translate("0xc0", "0x34")) /\ Translate("0xc0", "0x34").reg # "move" /\ Translate("0xc0", "0x34") \in Steps /\ ~Selecting(Translate("0xc0", "0x34"))
  /\ Ordinary(Translate("0xc4", "0x34")) /\ Translate("0xc4", "0x34").reg # "move" /\ Translate("0xc4", "0x34") \in Steps /\ ~Selecting(Translate("0xc4", "0x34"))
<1>0. /\ {"0x90", "0x80", "0xc0", "0xc4"} \subseteq Devices
      /\ "0x34" \in Targets /\ \A s : Ordinary(s) => s \in Steps
  BY DEF Devices, Targets, Ordinary
<1>1. Move("0xc0") \in Steps /\ ~Selecting(Move("0xc0"))
  BY <1>0, MoveIs, OwnIs
<1>2. Move("0xc4") \in Steps /\ ~Selecting(Move("0xc4"))
  BY <1>0, MoveIs, OwnIs
<1>3. Ordinary(Reset("0x90")) /\ Reset("0x90").reg # "move" /\ Reset("0x90") \in Steps
  BY <1>0, ResetIs
<1>4. Ordinary(Reset("0xc0")) /\ Reset("0xc0").reg # "move" /\ Reset("0xc0") \in Steps /\ ~Selecting(Reset("0xc0"))
  BY <1>0, ResetIs
<1>5. Ordinary(Select("a")) /\ Select("a").reg # "move" /\ Select("a") \in Steps
  BY <1>0, SelectIs
<1>6. Ordinary(Select("ab")) /\ Select("ab").reg # "move" /\ Select("ab") \in Steps
  BY <1>0, SelectIs
<1>7. Ordinary(Select("b")) /\ Select("b").reg # "move" /\ Select("b") \in Steps
  BY <1>0, SelectIs
<1>8. Ordinary(Set("0x80")) /\ Set("0x80").reg # "move" /\ Set("0x80") \in Steps /\ ~Selecting(Set("0x80"))
  BY <1>0, SetIs
<1>9. Ordinary(Set("0x90")) /\ Set("0x90").reg # "move" /\ Set("0x90") \in Steps /\ ~Selecting(Set("0x90"))
  BY <1>0, SetIs
<1>10. Ordinary(Set("0xc0")) /\ Set("0xc0").reg # "move" /\ Set("0xc0") \in Steps /\ ~Selecting(Set("0xc0"))
  BY <1>0, SetIs
<1>11. Ordinary(Set("0xc4")) /\ Set("0xc4").reg # "move" /\ Set("0xc4") \in Steps /\ ~Selecting(Set("0xc4"))
  BY <1>0, SetIs
<1>12. Ordinary(Translate("0xc0", "0x34")) /\ Translate("0xc0", "0x34").reg # "move" /\ Translate("0xc0", "0x34") \in Steps /\ ~Selecting(Translate("0xc0", "0x34"))
  BY <1>0, TranslateIs
<1>13. Ordinary(Translate("0xc4", "0x34")) /\ Translate("0xc4", "0x34").reg # "move" /\ Translate("0xc4", "0x34") \in Steps /\ ~Selecting(Translate("0xc4", "0x34"))
  BY <1>0, TranslateIs
<1>14. QED BY <1>1, <1>2, <1>3, <1>4, <1>5, <1>6, <1>7, <1>8, <1>9, <1>10, <1>11, <1>12, <1>13

\* Translations of sensors move no serializer.
LEMMA TranslatesFit ==
  ASSUME NEW to \in Targets
  PROVE  \A d \in {"0xc0", "0xc4"} :
            LET s == Translate(d, to) IN Ordinary(s) /\ s.reg # "move" /\ s \in Steps /\ ~Selecting(s)
BY TranslateIs DEF Devices, Ordinary

LEMMA max9296_two9295_linka_Fits == Chunk(max9296_two9295_linka)
<1> DEFINE t == max9296_two9295_linka
<1>1. t \in Seq(Steps) /\ Long(t, 6)
  BY ElementsFit DEF max9296_two9295_linka, Long
<1>2. /\ t[1] = Reset("0x90")
      /\ t[2] = Set("0x90")
      /\ t[3] = Select("a")
      /\ t[4] = Set("0x90")
      /\ t[5] = Move("0xc0")
      /\ t[6] = Set("0xc0")
  BY DEF max9296_two9295_linka
<1> HIDE DEF t
<1>3. Fits(t, 1) /\ Fits(t, 2) /\ Fits(t, 3) /\ Fits(t, 4) /\ Fits(t, 6)
  BY <1>2, ElementsFit, PlainFits
<1>4. Fits(t, 5)
  <2>1. \A m \in 3 + 1 .. 5 - 1 : m = 4
    OBVIOUS
  <2>2. \A m \in 3 + 1 .. 5 - 1 : ~Selecting(t[m])
    BY <2>1, <1>2, ElementsFit
  <2>3. t[5] = Move(Own["linkA"]) /\ t[3] = Select(Sole("linkA")) /\ "linkA" \in Links /\ 3 \in 1 .. 5 - 1
    BY <1>2, OwnIs
  <2>4. QED BY <2>2, <2>3, MoveFits
<1>5. ASSUME NEW k \in 1 .. Len(t) PROVE k = 1 \/ k = 2 \/ k = 3 \/ k = 4 \/ k = 5 \/ k = 6
  BY <1>1 DEF Long
<1>6. QED BY <1>1, <1>5, <1>3, <1>4 DEF Chunk, t

LEMMA max9296_two9295_linka_1_Fits == Chunk(max9296_two9295_linka_1)
<1> DEFINE t == max9296_two9295_linka_1
<1>1. t \in Seq(Steps) /\ Long(t, 8)
  BY ElementsFit DEF max9296_two9295_linka_1, Long
<1>2. /\ t[1] = Set("0xc0")
      /\ t[2] = Translate("0xc0", "0x34")
      /\ t[3] = Set("0xc0")
      /\ t[4] = Select("ab")
      /\ t[5] = Select("b")
      /\ t[6] = Set("0x90")
      /\ t[7] = Move("0xc4")
      /\ t[8] = Set("0xc4")
  BY DEF max9296_two9295_linka_1
<1> HIDE DEF t
<1>3. Fits(t, 1) /\ Fits(t, 2) /\ Fits(t, 3) /\ Fits(t, 4) /\ Fits(t, 5) /\ Fits(t, 6) /\ Fits(t, 8)
  BY <1>2, ElementsFit, PlainFits
<1>4. Fits(t, 7)
  <2>1. \A m \in 5 + 1 .. 7 - 1 : m = 6
    OBVIOUS
  <2>2. \A m \in 5 + 1 .. 7 - 1 : ~Selecting(t[m])
    BY <2>1, <1>2, ElementsFit
  <2>3. t[7] = Move(Own["linkB"]) /\ t[5] = Select(Sole("linkB")) /\ "linkB" \in Links /\ 5 \in 1 .. 7 - 1
    BY <1>2, OwnIs
  <2>4. QED BY <2>2, <2>3, MoveFits
<1>5. ASSUME NEW k \in 1 .. Len(t) PROVE k = 1 \/ k = 2 \/ k = 3 \/ k = 4 \/ k = 5 \/ k = 6 \/ k = 7 \/ k = 8
  BY <1>1 DEF Long
<1>6. QED BY <1>1, <1>5, <1>3, <1>4 DEF Chunk, t

LEMMA max9296_two9295_linka_2_Fits == Chunk(max9296_two9295_linka_2)
<1> DEFINE t == max9296_two9295_linka_2
<1>1. t \in Seq(Steps) /\ Long(t, 7)
  BY ElementsFit DEF max9296_two9295_linka_2, Long
<1>2. /\ t[1] = Reset("0x90")
      /\ t[2] = Select("a")
      /\ t[3] = Reset("0xc0")
      /\ t[4] = Move("0xc0")
      /\ t[5] = Set("0xc0")
      /\ t[6] = Set("0x90")
      /\ t[7] = Set("0xc0")
  BY DEF max9296_two9295_linka_2
<1> HIDE DEF t
<1>3. Fits(t, 1) /\ Fits(t, 2) /\ Fits(t, 3) /\ Fits(t, 5) /\ Fits(t, 6) /\ Fits(t, 7)
  BY <1>2, ElementsFit, PlainFits
<1>4. Fits(t, 4)
  <2>1. \A m \in 2 + 1 .. 4 - 1 : m = 3
    OBVIOUS
  <2>2. \A m \in 2 + 1 .. 4 - 1 : ~Selecting(t[m])
    BY <2>1, <1>2, ElementsFit
  <2>3. t[4] = Move(Own["linkA"]) /\ t[2] = Select(Sole("linkA")) /\ "linkA" \in Links /\ 2 \in 1 .. 4 - 1
    BY <1>2, OwnIs
  <2>4. QED BY <2>2, <2>3, MoveFits
<1>5. ASSUME NEW k \in 1 .. Len(t) PROVE k = 1 \/ k = 2 \/ k = 3 \/ k = 4 \/ k = 5 \/ k = 6 \/ k = 7
  BY <1>1 DEF Long
<1>6. QED BY <1>1, <1>5, <1>3, <1>4 DEF Chunk, t

LEMMA max9296_two9295_linkb_Fits == Chunk(max9296_two9295_linkb)
<1> DEFINE t == max9296_two9295_linkb
<1>1. t \in Seq(Steps) /\ Long(t, 6)
  BY ElementsFit DEF max9296_two9295_linkb, Long
<1>2. /\ t[1] = Select("b")
      /\ t[2] = Move("0xc4")
      /\ t[3] = Set("0xc4")
      /\ t[4] = Translate("0xc4", "0x34")
      /\ t[5] = Set("0xc4")
      /\ t[6] = Set("0x90")
  BY DEF max9296_two9295_linkb
<1> HIDE DEF t
<1>3. Fits(t, 1) /\ Fits(t, 3) /\ Fits(t, 4) /\ Fits(t, 5) /\ Fits(t, 6)
  BY <1>2, ElementsFit, PlainFits
<1>4. Fits(t, 2)
  <2>2. \A m \in 1 + 1 .. 2 - 1 : ~Selecting(t[m])
    OBVIOUS
  <2>3. t[2] = Move(Own["linkB"]) /\ t[1] = Select(Sole("linkB")) /\ "linkB" \in Links /\ 1 \in 1 .. 2 - 1
    BY <1>2, OwnIs
  <2>4. QED BY <2>2, <2>3, MoveFits
<1>5. ASSUME NEW k \in 1 .. Len(t) PROVE k = 1 \/ k = 2 \/ k = 3 \/ k = 4 \/ k = 5 \/ k = 6
  BY <1>1 DEF Long
<1>6. QED BY <1>1, <1>5, <1>3, <1>4 DEF Chunk, t

LEMMA max9296_two9295_linkab_Fits == Chunk(max9296_two9295_linkab)
<1> DEFINE t == max9296_two9295_linkab
<1>1. t \in Seq(Steps) /\ Long(t, 11)
  BY ElementsFit DEF max9296_two9295_linkab, Long
<1>2. /\ t[1] = Reset("0x90")
      /\ t[2] = Reset("0xc0")
      /\ t[3] = Select("b")
      /\ t[4] = Set("0xc4")
      /\ t[5] = Select("a")
      /\ t[6] = Move("0xc0")
      /\ t[7] = Set("0xc0")
      /\ t[8] = Select("ab")
      /\ t[9] = Set("0x90")
      /\ t[10] = Set("0xc0")
      /\ t[11] = Set("0xc4")
  BY DEF max9296_two9295_linkab
<1> HIDE DEF t
<1>3. Fits(t, 1) /\ Fits(t, 2) /\ Fits(t, 3) /\ Fits(t, 4) /\ Fits(t, 5) /\ Fits(t, 7) /\ Fits(t, 8) /\ Fits(t, 9) /\ Fits(t, 10) /\ Fits(t, 11)
  BY <1>2, ElementsFit, PlainFits
<1>4. Fits(t, 6)
  <2>2. \A m \in 5 + 1 .. 6 - 1 : ~Selecting(t[m])
    OBVIOUS
  <2>3. t[6] = Move(Own["linkA"]) /\ t[5] = Select(Sole("linkA")) /\ "linkA" \in Links /\ 5 \in 1 .. 6 - 1
    BY <1>2, OwnIs
  <2>4. QED BY <2>2, <2>3, MoveFits
<1>5. ASSUME NEW k \in 1 .. Len(t) PROVE k = 1 \/ k = 2 \/ k = 3 \/ k = 4 \/ k = 5 \/ k = 6 \/ k = 7 \/ k = 8 \/ k = 9 \/ k = 10 \/ k = 11
  BY <1>1 DEF Long
<1>6. QED BY <1>1, <1>5, <1>3, <1>4 DEF Chunk, t

LEMMA max9296_two96705_linkab_0_Fits == Chunk(max9296_two96705_linkab_0)
<1> DEFINE t == max9296_two96705_linkab_0
<1>1. t \in Seq(Steps) /\ Long(t, 1)
  BY ElementsFit DEF max9296_two96705_linkab_0, Long
<1>2. t[1] = Set("0x90")
  BY DEF max9296_two96705_linkab_0
<1> HIDE DEF t
<1>3. Fits(t, 1)
  BY <1>2, ElementsFit, PlainFits
<1>4. ASSUME NEW k \in 1 .. Len(t) PROVE k = 1
  BY <1>1 DEF Long
<1>5. QED BY <1>1, <1>4, <1>3 DEF Chunk, t

LEMMA max9296_two96705_linka_Fits == Chunk(max9296_two96705_linka)
<1> DEFINE t == max9296_two96705_linka
<1>1. t \in Seq(Steps) /\ Long(t, 4)
  BY ElementsFit DEF max9296_two96705_linka, Long
<1>2. /\ t[1] = Select("a")
      /\ t[2] = Move("0xc0")
      /\ t[3] = Move("0xc0")
      /\ t[4] = Set("0xc0")
  BY DEF max9296_two96705_linka
<1> HIDE DEF t
<1>3. Fits(t, 1) /\ Fits(t, 4)
  BY <1>2, ElementsFit, PlainFits
<1>4. Fits(t, 2)
  <2>2. \A m \in 1 + 1 .. 2 - 1 : ~Selecting(t[m])
    OBVIOUS
  <2>3. t[2] = Move(Own["linkA"]) /\ t[1] = Select(Sole("linkA")) /\ "linkA" \in Links /\ 1 \in 1 .. 2 - 1
    BY <1>2, OwnIs
  <2>4. QED BY <2>2, <2>3, MoveFits
<1>5. Fits(t, 3)
  <2>1. \A m \in 1 + 1 .. 3 - 1 : m = 2
    OBVIOUS
  <2>2. \A m \in 1 + 1 .. 3 - 1 : ~Selecting(t[m])
    BY <2>1, <1>2, ElementsFit
  <2>3. t[3] = Move(Own["linkA"]) /\ t[1] = Select(Sole("linkA")) /\ "linkA" \in Links /\ 1 \in 1 .. 3 - 1
    BY <1>2, OwnIs
  <2>4. QED BY <2>2, <2>3, MoveFits
<1>6. ASSUME NEW k \in 1 .. Len(t) PROVE k = 1 \/ k = 2 \/ k = 3 \/ k = 4
  BY <1>1 DEF Long
<1>7. QED BY <1>1, <1>6, <1>3, <1>4, <1>5 DEF Chunk, t

LEMMA max9296_two96705_linkab_1_Fits == Chunk(max9296_two96705_linkab_1)
<1> DEFINE t == max9296_two96705_linkab_1
<1>1. t \in Seq(Steps) /\ Long(t, 1)
  BY ElementsFit DEF max9296_two96705_linkab_1, Long
<1>2. t[1] = Set("0x90")
  BY DEF max9296_two96705_linkab_1
<1> HIDE DEF t
<1>3. Fits(t, 1)
  BY <1>2, ElementsFit, PlainFits
<1>4. ASSUME NEW k \in 1 .. Len(t) PROVE k = 1
  BY <1>1 DEF Long
<1>5. QED BY <1>1, <1>4, <1>3 DEF Chunk, t

LEMMA max9296_two96705_linkab_2_Fits == Chunk(max9296_two96705_linkab_2)
<1> DEFINE t == max9296_two96705_linkab_2
<1>1. t \in Seq(Steps) /\ Long(t, 1)
  BY ElementsFit DEF max9296_two96705_linkab_2, Long
<1>2. t[1] = Select("ab")
  BY DEF max9296_two96705_linkab_2
<1> HIDE DEF t
<1>3. Fits(t, 1)
  BY <1>2, ElementsFit, PlainFits
<1>4. ASSUME NEW k \in 1 .. Len(t) PROVE k = 1
  BY <1>1 DEF Long
<1>5. QED BY <1>1, <1>4, <1>3 DEF Chunk, t

LEMMA max9296_two96705_linkb_Fits == Chunk(max9296_two96705_linkb)
<1> DEFINE t == max9296_two96705_linkb
<1>1. t \in Seq(Steps) /\ Long(t, 3)
  BY ElementsFit DEF max9296_two96705_linkb, Long
<1>2. /\ t[1] = Select("b")
      /\ t[2] = Move("0xc4")
      /\ t[3] = Set("0xc4")
  BY DEF max9296_two96705_linkb
<1> HIDE DEF t
<1>3. Fits(t, 1) /\ Fits(t, 3)
  BY <1>2, ElementsFit, PlainFits
<1>4. Fits(t, 2)
  <2>2. \A m \in 1 + 1 .. 2 - 1 : ~Selecting(t[m])
    OBVIOUS
  <2>3. t[2] = Move(Own["linkB"]) /\ t[1] = Select(Sole("linkB")) /\ "linkB" \in Links /\ 1 \in 1 .. 2 - 1
    BY <1>2, OwnIs
  <2>4. QED BY <2>2, <2>3, MoveFits
<1>5. ASSUME NEW k \in 1 .. Len(t) PROVE k = 1 \/ k = 2 \/ k = 3
  BY <1>1 DEF Long
<1>6. QED BY <1>1, <1>5, <1>3, <1>4 DEF Chunk, t

LEMMA max9296_two96705_linka_video_Fits == Chunk(max9296_two96705_linka_video)
<1> DEFINE t == max9296_two96705_linka_video
<1>1. t \in Seq(Steps) /\ Long(t, 1)
  BY ElementsFit DEF max9296_two96705_linka_video, Long
<1>2. t[1] = Set("0xc0")
  BY DEF max9296_two96705_linka_video
<1> HIDE DEF t
<1>3. Fits(t, 1)
  BY <1>2, ElementsFit, PlainFits
<1>4. ASSUME NEW k \in 1 .. Len(t) PROVE k = 1
  BY <1>1 DEF Long
<1>5. QED BY <1>1, <1>4, <1>3 DEF Chunk, t

LEMMA max9296_two96705_linkb_video_Fits == Chunk(max9296_two96705_linkb_video)
<1> DEFINE t == max9296_two96705_linkb_video
<1>1. t \in Seq(Steps) /\ Long(t, 1)
  BY ElementsFit DEF max9296_two96705_linkb_video, Long
<1>2. t[1] = Set("0xc4")
  BY DEF max9296_two96705_linkb_video
<1> HIDE DEF t
<1>3. Fits(t, 1)
  BY <1>2, ElementsFit, PlainFits
<1>4. ASSUME NEW k \in 1 .. Len(t) PROVE k = 1
  BY <1>1 DEF Long
<1>5. QED BY <1>1, <1>4, <1>3 DEF Chunk, t

LEMMA max9296_two96717f_Fits == Chunk(max9296_two96717f)
<1> DEFINE t == max9296_two96717f
<1>1. t \in Seq(Steps) /\ Long(t, 2)
  BY ElementsFit DEF max9296_two96717f, Long
<1>2. /\ t[1] = Set("0x90")
      /\ t[2] = Select("ab")
  BY DEF max9296_two96717f
<1> HIDE DEF t
<1>3. Fits(t, 1) /\ Fits(t, 2)
  BY <1>2, ElementsFit, PlainFits
<1>4. ASSUME NEW k \in 1 .. Len(t) PROVE k = 1 \/ k = 2
  BY <1>1 DEF Long
<1>5. QED BY <1>1, <1>4, <1>3 DEF Chunk, t

LEMMA max9296_two96717f_linka_Fits == Chunk(max9296_two96717f_linka)
<1> DEFINE t == max9296_two96717f_linka
<1>1. t \in Seq(Steps) /\ Long(t, 3)
  BY ElementsFit DEF max9296_two96717f_linka, Long
<1>2. /\ t[1] = Select("a")
      /\ t[2] = Move("0xc0")
      /\ t[3] = Set("0xc0")
  BY DEF max9296_two96717f_linka
<1> HIDE DEF t
<1>3. Fits(t, 1) /\ Fits(t, 3)
  BY <1>2, ElementsFit, PlainFits
<1>4. Fits(t, 2)
  <2>2. \A m \in 1 + 1 .. 2 - 1 : ~Selecting(t[m])
    OBVIOUS
  <2>3. t[2] = Move(Own["linkA"]) /\ t[1] = Select(Sole("linkA")) /\ "linkA" \in Links /\ 1 \in 1 .. 2 - 1
    BY <1>2, OwnIs
  <2>4. QED BY <2>2, <2>3, MoveFits
<1>5. ASSUME NEW k \in 1 .. Len(t) PROVE k = 1 \/ k = 2 \/ k = 3
  BY <1>1 DEF Long
<1>6. QED BY <1>1, <1>5, <1>3, <1>4 DEF Chunk, t

LEMMA max9296_two96717f_linkb_Fits == Chunk(max9296_two96717f_linkb)
<1> DEFINE t == max9296_two96717f_linkb
<1>1. t \in Seq(Steps) /\ Long(t, 3)
  BY ElementsFit DEF max9296_two96717f_linkb, Long
<1>2. /\ t[1] = Select("b")
      /\ t[2] = Move("0xc4")
      /\ t[3] = Set("0xc4")
  BY DEF max9296_two96717f_linkb
<1> HIDE DEF t
<1>3. Fits(t, 1) /\ Fits(t, 3)
  BY <1>2, ElementsFit, PlainFits
<1>4. Fits(t, 2)
  <2>2. \A m \in 1 + 1 .. 2 - 1 : ~Selecting(t[m])
    OBVIOUS
  <2>3. t[2] = Move(Own["linkB"]) /\ t[1] = Select(Sole("linkB")) /\ "linkB" \in Links /\ 1 \in 1 .. 2 - 1
    BY <1>2, OwnIs
  <2>4. QED BY <2>2, <2>3, MoveFits
<1>5. ASSUME NEW k \in 1 .. Len(t) PROVE k = 1 \/ k = 2 \/ k = 3
  BY <1>1 DEF Long
<1>6. QED BY <1>1, <1>5, <1>3, <1>4 DEF Chunk, t

LEMMA max9296_two96717f_linkab_Fits == Chunk(max9296_two96717f_linkab)
<1> DEFINE t == max9296_two96717f_linkab
<1>1. t \in Seq(Steps) /\ Long(t, 3)
  BY ElementsFit DEF max9296_two96717f_linkab, Long
<1>2. /\ t[1] = Select("b")
      /\ t[2] = Move("0xc4")
      /\ t[3] = Set("0xc4")
  BY DEF max9296_two96717f_linkab
<1> HIDE DEF t
<1>3. Fits(t, 1) /\ Fits(t, 3)
  BY <1>2, ElementsFit, PlainFits
<1>4. Fits(t, 2)
  <2>2. \A m \in 1 + 1 .. 2 - 1 : ~Selecting(t[m])
    OBVIOUS
  <2>3. t[2] = Move(Own["linkB"]) /\ t[1] = Select(Sole("linkB")) /\ "linkB" \in Links /\ 1 \in 1 .. 2 - 1
    BY <1>2, OwnIs
  <2>4. QED BY <2>2, <2>3, MoveFits
<1>5. ASSUME NEW k \in 1 .. Len(t) PROVE k = 1 \/ k = 2 \/ k = 3
  BY <1>1 DEF Long
<1>6. QED BY <1>1, <1>5, <1>3, <1>4 DEF Chunk, t

LEMMA max9296_two96717f_linkab_1_Fits == Chunk(max9296_two96717f_linkab_1)
<1> DEFINE t == max9296_two96717f_linkab_1
<1>1. t \in Seq(Steps) /\ Long(t, 1)
  BY ElementsFit DEF max9296_two96717f_linkab_1, Long
<1>2. t[1] = Set("0x90")
  BY DEF max9296_two96717f_linkab_1
<1> HIDE DEF t
<1>3. Fits(t, 1)
  BY <1>2, ElementsFit, PlainFits
<1>4. ASSUME NEW k \in 1 .. Len(t) PROVE k = 1
  BY <1>1 DEF Long
<1>5. QED BY <1>1, <1>4, <1>3 DEF Chunk, t

LEMMA max9296_two96717f_linkab_2_Fits == Chunk(max9296_two96717f_linkab_2)
<1> DEFINE t == max9296_two96717f_linkab_2
<1>1. t \in Seq(Steps) /\ Long(t, 2)
  BY ElementsFit DEF max9296_two96717f_linkab_2, Long
<1>2. /\ t[1] = Set("0x90")
      /\ t[2] = Select("ab")
  BY DEF max9296_two96717f_linkab_2
<1> HIDE DEF t
<1>3. Fits(t, 1) /\ Fits(t, 2)
  BY <1>2, ElementsFit, PlainFits
<1>4. ASSUME NEW k \in 1 .. Len(t) PROVE k = 1 \/ k = 2
  BY <1>1 DEF Long
<1>5. QED BY <1>1, <1>4, <1>3 DEF Chunk, t

LEMMA max9296_two96717f_linka_video_Fits == Chunk(max9296_two96717f_linka_video)
<1> DEFINE t == max9296_two96717f_linka_video
<1>1. t \in Seq(Steps) /\ Long(t, 1)
  BY ElementsFit DEF max9296_two96717f_linka_video, Long
<1>2. t[1] = Set("0xc0")
  BY DEF max9296_two96717f_linka_video
<1> HIDE DEF t
<1>3. Fits(t, 1)
  BY <1>2, ElementsFit, PlainFits
<1>4. ASSUME NEW k \in 1 .. Len(t) PROVE k = 1
  BY <1>1 DEF Long
<1>5. QED BY <1>1, <1>4, <1>3 DEF Chunk, t

LEMMA max9296_two96717f_linkb_video_Fits == Chunk(max9296_two96717f_linkb_video)
<1> DEFINE t == max9296_two96717f_linkb_video
<1>1. t \in Seq(Steps) /\ Long(t, 1)
  BY ElementsFit DEF max9296_two96717f_linkb_video, Long
<1>2. t[1] = Set("0xc4")
  BY DEF max9296_two96717f_linkb_video
<1> HIDE DEF t
<1>3. Fits(t, 1)
  BY <1>2, ElementsFit, PlainFits
<1>4. ASSUME NEW k \in 1 .. Len(t) PROVE k = 1
  BY <1>1 DEF Long
<1>5. QED BY <1>1, <1>4, <1>3 DEF Chunk, t

LEMMA max9295_9296_S36_YUV_array_Fits == Chunk(max9295_9296_S36_YUV_array)
<1> DEFINE t == max9295_9296_S36_YUV_array
<1>1. t \in Seq(Steps) /\ Long(t, 7)
  BY ElementsFit DEF max9295_9296_S36_YUV_array, Long
<1>2. /\ t[1] = Set("0x90")
      /\ t[2] = Select("a")
      /\ t[3] = Set("0x80")
      /\ t[4] = Select("a")
      /\ t[5] = Set("0x80")
      /\ t[6] = Set("0x90")
      /\ t[7] = Set("0x80")
  BY DEF max9295_9296_S36_YUV_array
<1> HIDE DEF t
<1>3. Fits(t, 1) /\ Fits(t, 2) /\ Fits(t, 3) /\ Fits(t, 4) /\ Fits(t, 5) /\ Fits(t, 6) /\ Fits(t, 7)
  BY <1>2, ElementsFit, PlainFits
<1>4. ASSUME NEW k \in 1 .. Len(t) PROVE k = 1 \/ k = 2 \/ k = 3 \/ k = 4 \/ k = 5 \/ k = 6 \/ k = 7
  BY <1>1 DEF Long
<1>5. QED BY <1>1, <1>4, <1>3 DEF Chunk, t

LEMMA max9296_two9295_raw12_linka_Fits == Chunk(max9296_two9295_raw12_linka)
<1> DEFINE t == max9296_two9295_raw12_linka
<1>1. t \in Seq(Steps) /\ Long(t, 6)
  BY ElementsFit DEF max9296_two9295_raw12_linka, Long
<1>2. /\ t[1] = Set("0x90")
      /\ t[2] = Select("a")
      /\ t[3] = Set("0x90")
      /\ t[4] = Set("0x80")
      /\ t[5] = Move("0xc0")
      /\ t[6] = Set("0xc0")
  BY DEF max9296_two9295_raw12_linka
<1> HIDE DEF t
<1>3. Fits(t, 1) /\ Fits(t, 2) /\ Fits(t, 3) /\ Fits(t, 4) /\ Fits(t, 6)
  BY <1>2, ElementsFit, PlainFits
<1>4. Fits(t, 5)
  <2>1. \A m \in 2 + 1 .. 5 - 1 : m = 3 \/ m = 4
    OBVIOUS
  <2>2. \A m \in 2 + 1 .. 5 - 1 : ~Selecting(t[m])
    BY <2>1, <1>2, ElementsFit
  <2>3. t[5] = Move(Own["linkA"]) /\ t[2] = Select(Sole("linkA")) /\ "linkA" \in Links /\ 2 \in 1 .. 5 - 1
    BY <1>2, OwnIs
  <2>4. QED BY <2>2, <2>3, MoveFits
<1>5. ASSUME NEW k \in 1 .. Len(t) PROVE k = 1 \/ k = 2 \/ k = 3 \/ k = 4 \/ k = 5 \/ k = 6
  BY <1>1 DEF Long
<1>6. QED BY <1>1, <1>5, <1>3, <1>4 DEF Chunk, t

LEMMA max9296_two9295_raw12_linka_1_Fits == Chunk(max9296_two9295_raw12_linka_1)
<1> DEFINE t == max9296_two9295_raw12_linka_1
<1>1. t \in Seq(Steps) /\ Long(t, 5)
  BY ElementsFit DEF max9296_two9295_raw12_linka_1, Long
<1>2. /\ t[1] = Set("0xc0")
      /\ t[2] = Select("b")
      /\ t[3] = Set("0x90")
      /\ t[4] = Move("0xc4")
      /\ t[5] = Set("0xc4")
  BY DEF max9296_two9295_raw12_linka_1
<1> HIDE DEF t
<1>3. Fits(t, 1) /\ Fits(t, 2) /\ Fits(t, 3) /\ Fits(t, 5)
  BY <1>2, ElementsFit, PlainFits
<1>4. Fits(t, 4)
  <2>1. \A m \in 2 + 1 .. 4 - 1 : m = 3
    OBVIOUS
  <2>2. \A m \in 2 + 1 .. 4 - 1 : ~Selecting(t[m])
    BY <2>1, <1>2, ElementsFit
  <2>3. t[4] = Move(Own["linkB"]) /\ t[2] = Select(Sole("linkB")) /\ "linkB" \in Links /\ 2 \in 1 .. 4 - 1
    BY <1>2, OwnIs
  <2>4. QED BY <2>2, <2>3, MoveFits
<1>5. ASSUME NEW k \in 1 .. Len(t) PROVE k = 1 \/ k = 2 \/ k = 3 \/ k = 4 \/ k = 5
  BY <1>1 DEF Long
<1>6. QED BY <1>1, <1>5, <1>3, <1>4 DEF Chunk, t

LEMMA max9296_two9295_raw12_linka_2_Fits ==
  ASSUME NEW to \in Targets
  PROVE  Chunk(max9296_two9295_raw12_linka_2(to))
<1> DEFINE t == max9296_two9295_raw12_linka_2(to)
<1>1. t \in Seq(Steps) /\ Long(t, 5)
  BY ElementsFit, TranslatesFit DEF max9296_two9295_raw12_linka_2, Long
<1>2. /\ t[1] = Set("0x90")
      /\ t[2] = Select("a")
      /\ t[3] = Set("0xc0")
      /\ t[4] = Translate("0xc0", to)
      /\ t[5] = Set("0x90")
  BY DEF max9296_two9295_raw12_linka_2
<1> HIDE DEF t
<1>3. Fits(t, 1) /\ Fits(t, 2) /\ Fits(t, 3) /\ Fits(t, 4) /\ Fits(t, 5)
  BY <1>2, ElementsFit, TranslatesFit, PlainFits
<1>4. ASSUME NEW k \in 1 .. Len(t) PROVE k = 1 \/ k = 2 \/ k = 3 \/ k = 4 \/ k = 5
  BY <1>1 DEF Long
<1>5. QED BY <1>1, <1>4, <1>3 DEF Chunk, t

LEMMA max9296_two9295_raw12_linkb_Fits ==
  ASSUME NEW to \in Targets
  PROVE  Chunk(max9296_two9295_raw12_linkb(to))
<1> DEFINE t == max9296_two9295_raw12_linkb(to)
<1>1. t \in Seq(Steps) /\ Long(t, 7)
  BY ElementsFit, TranslatesFit DEF max9296_two9295_raw12_linkb, Long
<1>2. /\ t[1] = Select("b")
      /\ t[2] = Set("0x80")
      /\ t[3] = Move("0xc4")
      /\ t[4] = Set("0xc4")
      /\ t[5] = Translate("0xc4", to)
      /\ t[6] = Set("0xc4")
      /\ t[7] = Set("0x90")
  BY DEF max9296_two9295_raw12_linkb
<1> HIDE DEF t
<1>3. Fits(t, 1) /\ Fits(t, 2) /\ Fits(t, 4) /\ Fits(t, 5) /\ Fits(t, 6) /\ Fits(t, 7)
  BY <1>2, ElementsFit, TranslatesFit, PlainFits
<1>4. Fits(t, 3)
  <2>1. \A m \in 1 + 1 .. 3 - 1 : m = 2
    OBVIOUS
  <2>2. \A m \in 1 + 1 .. 3 - 1 : ~Selecting(t[m])
    BY <2>1, <1>2, ElementsFit
  <2>3. t[3] = Move(Own["linkB"]) /\ t[1] = Select(Sole("linkB")) /\ "linkB" \in Links /\ 1 \in 1 .. 3 - 1
    BY <1>2, OwnIs
  <2>4. QED BY <2>2, <2>3, MoveFits
<1>5. ASSUME NEW k \in 1 .. Len(t) PROVE k = 1 \/ k = 2 \/ k = 3 \/ k = 4 \/ k = 5 \/ k = 6 \/ k = 7
  BY <1>1 DEF Long
<1>6. QED BY <1>1, <1>5, <1>3, <1>4 DEF Chunk, t

LEMMA max9296_two9295_raw12_linkab_Fits ==
  ASSUME NEW to \in Targets
  PROVE  Chunk(max9296_two9295_raw12_linkab(to))
<1> DEFINE t == max9296_two9295_raw12_linkab(to)
<1>1. t \in Seq(Steps) /\ Long(t, 10)
  BY ElementsFit, TranslatesFit DEF max9296_two9295_raw12_linkab, Long
<1>2. /\ t[1] = Set("0xc4")
      /\ t[2] = Translate("0xc4", to)
      /\ t[3] = Set("0xc4")
      /\ t[4] = Select("ab")
      /\ t[5] = Set("0x90")
      /\ t[6] = Translate("0xc0", to)
      /\ t[7] = Set("0xc0")
      /\ t[8] = Set("0x90")
      /\ t[9] = Set("0xc4")
      /\ t[10] = Set("0x90")
  BY DEF max9296_two9295_raw12_linkab
<1> HIDE DEF t
<1>3. Fits(t, 1) /\ Fits(t, 2) /\ Fits(t, 3) /\ Fits(t, 4) /\ Fits(t, 5) /\ Fits(t, 6) /\ Fits(t, 7) /\ Fits(t, 8) /\ Fits(t, 9) /\ Fits(t, 10)
  BY <1>2, ElementsFit, TranslatesFit, PlainFits
<1>4. ASSUME NEW k \in 1 .. Len(t) PROVE k = 1 \/ k = 2 \/ k = 3 \/ k = 4 \/ k = 5 \/ k = 6 \/ k = 7 \/ k = 8 \/ k = 9 \/ k = 10
  BY <1>1 DEF Long
<1>5. QED BY <1>1, <1>4, <1>3 DEF Chunk, t

LEMMA max9296_two9295_raw12_linka_forDB_Fits == Chunk(max9296_two9295_raw12_linka_forDB)
<1> DEFINE t == max9296_two9295_raw12_linka_forDB
<1>1. t \in Seq(Steps) /\ Long(t, 6)
  BY ElementsFit DEF max9296_two9295_raw12_linka_forDB, Long
<1>2. /\ t[1] = Set("0x90")
      /\ t[2] = Select("a")
      /\ t[3] = Reset("0xc0")
      /\ t[4] = Set("0x80")
      /\ t[5] = Set("0x90")
      /\ t[6] = Set("0x80")
  BY DEF max9296_two9295_raw12_linka_forDB
<1> HIDE DEF t
<1>3. Fits(t, 1) /\ Fits(t, 2) /\ Fits(t, 3) /\ Fits(t, 4) /\ Fits(t, 5) /\ Fits(t, 6)
  BY <1>2, ElementsFit, PlainFits
<1>4. ASSUME NEW k \in 1 .. Len(t) PROVE k = 1 \/ k = 2 \/ k = 3 \/ k = 4 \/ k = 5 \/ k = 6
  BY <1>1 DEF Long
<1>5. QED BY <1>1, <1>4, <1>3 DEF Chunk, t

FlowFresh(f) ==
    Fresh(f.start) /\ Fresh(f.between) /\ Fresh(f.both) /\ Fresh(f.onlyA) /\ Fresh(f.noA)

\* A flow whose parts are tables can begin anywhere.
LEMMA FlowIs ==
  ASSUME NEW start, Sent(start), NEW between, Sent(between),
         NEW both, Chunk(both), NEW onlyA, Chunk(onlyA), NEW noA, Chunk(noA)
  PROVE  FlowFresh(Flow(start, between, both, onlyA, noA))
<1>1. /\ Fresh(start \o Probe("linkA")) /\ Fresh(between \o Probe("linkB"))
      /\ Fresh(both) /\ Fresh(onlyA) /\ Fresh(noA)
  BY SentProbe, ChunkFresh, OwnIs
<1>2. QED BY <1>1 DEF Flow, FlowFresh

\* Every setting of the tool is such a flow.
LEMMA Index0Fresh == FlowFresh(Index0)
<1>1. /\ Sent(Elements(max9296_two96705_linkab_0)) /\ Chunk(Elements(max9296_two96705_linkab_0))
      /\ Sent(Elements(max9296_two96705_linka)) /\ Sent(Elements(max9296_two96705_linkb))
      /\ Chunk(Elements(max9296_two96705_linkb)) /\ Chunk(Elements(max9296_two96705_linkab_2))
      /\ Chunk(Elements(max9296_two96705_linkab_1)) /\ Chunk(Elements(max9296_two96705_linka_video))
      /\ Chunk(Elements(max9296_two96705_linkb_video)) /\ Chunk(Elements(max9296_two96705_linka))
  BY ElementsSent, max9296_two96705_linkab_0_Fits, max9296_two96705_linka_Fits,
     max9296_two96705_linkb_Fits, max9296_two96705_linkab_2_Fits, max9296_two96705_linkab_1_Fits,
     max9296_two96705_linka_video_Fits, max9296_two96705_linkb_video_Fits
<1>2. Chunk(<<Select("a")>>)
  BY ElementsFit, ChunkOne
<1>3. QED BY <1>1, <1>2, ChunkConcat, FlowIs DEF Index0

\* The tables of index 1.
LEMMA Index1Parts ==
  /\ Sent(Elements(max9296_two9295_linka)) /\ Sent(Elements(max9296_two9295_linka_1))
  /\ Chunk(Elements(max9296_two9295_linkab)) /\ Chunk(Elements(max9296_two9295_linka_2))
  /\ Chunk(Elements(max9296_two9295_linkb))
BY ElementsSent, max9296_two9295_linka_Fits, max9296_two9295_linka_1_Fits, max9296_two9295_linkab_Fits,
   max9296_two9295_linka_2_Fits, max9296_two9295_linkb_Fits

LEMMA Index1Fresh == FlowFresh(Index1)
BY Index1Parts, FlowIs DEF Index1

LEMMA Index2Fresh == FlowFresh(Index2)
<1>1. /\ Chunk(Elements(max9296_two96717f)) /\ Sent(Elements(max9296_two96717f_linka))
      /\ Chunk(Elements(max9296_two96717f_linka)) /\ Sent(Elements(max9296_two96717f_linkab))
      /\ Chunk(Elements(max9296_two96717f_linkb)) /\ Chunk(Elements(max9296_two96717f_linkab_2))
      /\ Chunk(Elements(max9296_two96717f_linkab_1))
      /\ Chunk(Elements(max9296_two96717f_linka_video)) /\ Chunk(Elements(max9296_two96717f_linkb_video))
  BY ElementsSent, max9296_two96717f_Fits, max9296_two96717f_linka_Fits, max9296_two96717f_linkab_Fits,
     max9296_two96717f_linkb_Fits, max9296_two96717f_linkab_2_Fits, max9296_two96717f_linkab_1_Fits,
     max9296_two96717f_linka_video_Fits, max9296_two96717f_linkb_video_Fits
<1>2. QED BY <1>1, ChunkConcat, FlowIs DEF Index2

\* The tables of the sensors.
LEMMA SensorSent == ASSUME NEW d \in Sensors PROVE Sent(Elements(Sensor(d))) /\ Chunk(Elements(Sensor(d)))
<1>1. Chunk(Sensor(d))
  BY SensorIs, ChunkOne DEF Sensor
<1>2. QED BY <1>1, ElementsSent

LEMMA Index6Fresh == FlowFresh(Index6)
<1> DEFINE own == Elements(Sensor("0x34")) a == Elements(Sensor("0x36")) b == Elements(Sensor("0x38"))
           both == Elements(max9296_two9295_linkab) onlyA == Elements(max9296_two9295_linka_2)
           noA == Elements(max9296_two9295_linkb)
           start == Elements(max9296_two9295_linka) between == Elements(max9296_two9295_linka_1)
<1>1. Chunk(own) /\ Chunk(a) /\ Chunk(b)
  BY SensorSent DEF Sensors
<1>2. Sent(start) /\ Sent(between) /\ Chunk(both) /\ Chunk(onlyA) /\ Chunk(noA)
  BY Index1Parts
<1> HIDE DEF own, a, b, both, onlyA, noA, start, between
<1>3. Index1 = Flow(start, between, both, onlyA, noA)
  BY DEF Index1, start, between, both, onlyA, noA
<1>4. Index6 = Flow(start, between, (both \o a) \o b, onlyA \o own, noA \o own)
  <2>1. Index6 = [Index1 EXCEPT !.both = (@ \o a) \o b, !.onlyA = @ \o own, !.noA = @ \o own]
    BY DEF Index6, own, a, b, max9296_9295_ISX028_ES2_YUV_array_fromflash
  <2>2. QED BY <2>1, <1>3 DEF Flow
<1>5. QED BY <1>1, <1>2, <1>4, ChunkConcat, FlowIs

LEMMA Index7Fresh == FlowFresh(Index7)
<1>1. Chunk(Elements(max9295_9296_S36_YUV_array))
  BY ElementsSent, max9295_9296_S36_YUV_array_Fits
<1>2. QED BY <1>1, ChunkEmpty, ChunkFresh DEF Index7, FlowFresh

\* The indices from 100 on.
LEMMA RawFresh == ASSUME NEW n \in 0 .. 8 PROVE FlowFresh(serdes_channel_init_raw(n))
<1>1. n # 7 => RawTo(n) \in Targets
  BY DEF RawTo, Targets
<1>2. /\ Sent(Elements(max9296_two9295_raw12_linka)) /\ Sent(Elements(max9296_two9295_raw12_linka_1))
      /\ Chunk(Elements(max9296_two9295_raw12_linka_forDB)) /\ Chunk(Elements(<<>>))
  BY ElementsSent, max9296_two9295_raw12_linka_Fits, max9296_two9295_raw12_linka_1_Fits,
     max9296_two9295_raw12_linka_forDB_Fits, ChunkEmpty
<1>3. Chunk(Elements(Sensor("0x36"))) /\ Chunk(Elements(Sensor("0x38"))) /\ Chunk(<<>>)
  BY SensorSent, ChunkEmpty DEF Sensors
<1>4. ASSUME n # 7
      PROVE  /\ Chunk(Elements(max9296_two9295_raw12_linkab(RawTo(n))))
             /\ Chunk(Elements(max9296_two9295_raw12_linka_2(RawTo(n))))
             /\ Chunk(Elements(max9296_two9295_raw12_linkb(RawTo(n))))
  BY <1>1, <1>4, ElementsSent, max9296_two9295_raw12_linkab_Fits, max9296_two9295_raw12_linka_2_Fits,
     max9296_two9295_raw12_linkb_Fits
<1>5. Chunk(RawBoth(n))
  BY <1>3, <1>4, ChunkConcat DEF RawBoth
<1>6. Chunk(RawOnlyA(n))
  BY <1>2, <1>3, <1>4, ChunkConcat DEF RawOnlyA
<1>7. Chunk(RawNoA(n))
  BY <1>3, <1>4, ChunkConcat DEF RawNoA
<1>8. QED BY <1>2, <1>5, <1>6, <1>7, FlowIs DEF serdes_channel_init_raw

\* So whatever serdes_channel_init is asked for.
LEMMA AllFresh == ASSUME NEW x \in Indices PROVE FlowFresh(serdes_channel_init(x))
<1>1. x \in {0, 1, 2, 6, 7} \cup (100 .. 108)
  BY BoardAssumption
<1>2. CASE x \in {0, 1, 2, 6, 7}
  BY <1>2, Index0Fresh, Index1Fresh, Index2Fresh, Index6Fresh, Index7Fresh DEF serdes_channel_init
<1>3. CASE x \in 100 .. 108
  <2>1. x - 100 \in 0 .. 8
    BY <1>3
  <2>2. serdes_channel_init(x) = serdes_channel_init_raw(x - 100)
    BY <1>3 DEF serdes_channel_init
  <2>3. QED BY <2>1, <2>2, RawFresh
<1>4. QED BY <1>1, <1>2, <1>3

\* What is left after a step of a configuration is left of a configuration.
LEMMA ChannelTail ==
  ASSUME NEW t, ChannelList(t), t # <<>>
  PROVE  ChannelList(Tail(t))
<1> DEFINE u == Tail(t)
<1>1. /\ t \in Seq(Steps) /\ u \in Seq(Steps) /\ Len(u) \in Nat /\ Len(t) = Len(u) + 1
      /\ \A k \in 1 .. Len(u) : u[k] = t[k + 1] /\ k + 1 \in 1 .. Len(t)
  BY TailIs DEF ChannelList, StepsEnd
<1> HIDE DEF u
<1>2. StepsEnd(u)
  BY <1>1 DEF ChannelList, StepsEnd
<1>3. ASSUME NEW k \in 1 .. Len(u)
      PROVE  /\ ChannelStep(u[k])
             /\ u[k].op = "probe" =>
                  /\ Len(u) = k + 1
                  /\ k > 1 => u[k - 1] = Detect
                  /\ u[k + 1].op \in Links /\ u[k].dev = Own[u[k + 1].op]
             /\ u[k].op \in Links /\ k > 1 => u[k - 1].op = "probe"
  <2>1. /\ u[k] = t[k + 1] /\ k + 1 \in 1 .. Len(t) /\ (k + 1) - 1 = k
        /\ k > 1 => u[k - 1] = t[k]
        /\ Len(t) = (k + 1) + 1 => Len(u) = k + 1 /\ u[k + 1] = t[(k + 1) + 1]
    <3>1. u[k] = t[k + 1] /\ k + 1 \in 1 .. Len(t) /\ (k + 1) - 1 = k
      BY <1>1
    <3>2. ASSUME k > 1 PROVE u[k - 1] = t[k]
      <4>1. k - 1 \in 1 .. Len(u) /\ (k - 1) + 1 = k
        BY <3>2, <1>1
      <4>2. QED BY <4>1, <1>1
    <3>3. ASSUME Len(t) = (k + 1) + 1 PROVE Len(u) = k + 1 /\ u[k + 1] = t[(k + 1) + 1]
      <4>1. Len(u) = k + 1 /\ k + 1 \in 1 .. Len(u)
        BY <3>3, <1>1
      <4>2. QED BY <4>1, <1>1
    <3>4. QED BY <3>1, <3>2, <3>3
  <2>2. /\ ChannelStep(t[k + 1])
        /\ t[k + 1].op = "probe" =>
             /\ Len(t) = (k + 1) + 1
             /\ k + 1 > 1 => t[(k + 1) - 1] = Detect
             /\ t[(k + 1) + 1].op \in Links /\ t[k + 1].dev = Own[t[(k + 1) + 1].op]
        /\ t[k + 1].op \in Links /\ k + 1 > 1 => t[(k + 1) - 1].op = "probe"
    BY <2>1 DEF ChannelList
  <2>3. k + 1 > 1
    OBVIOUS
  <2>4. QED BY <2>1, <2>2, <2>3
<1>4. QED BY <1>2, <1>3 DEF ChannelList, u
-----------------------------------------------------------------------------
\* What a configuration keeps.

\* The step at the head of a configuration.
LEMMA FirstIs ==
  ASSUME ChannelList(todo), todo # <<>>
  PROVE  /\ todo \in Seq(Steps) /\ Len(todo) \in Nat /\ 1 \in 1 .. Len(todo) /\ Head(todo) = todo[1]
         /\ ChannelStep(Head(todo))
<1>1. /\ todo \in Seq(Steps) /\ Len(todo) \in Nat /\ 1 \in 1 .. Len(todo) /\ Head(todo) = todo[1]
  BY TailIs DEF ChannelList, StepsEnd
<1>2. QED BY <1>1 DEF ChannelList

\* What a serializer answers to a probe is not what an i2cdetect leaves.
LEMMA IdentityIs ==
  ASSUME NEW x \in Nat, NEW d
  PROVE  Identity(x, d) # Text /\ Identity(x, d) # Zero
<1>1. Identity(x, d).tag \notin {"text", "none"}
  <2>1. CASE x = 0
    BY <2>1 DEF Identity, Byte
  <2>2. CASE x = 2
    BY <2>2 DEF Identity, Byte
  <2>3. CASE x # 0 /\ x # 2 /\ d = "0xc0"
    BY <2>3 DEF Identity, Byte
  <2>4. CASE x # 0 /\ x # 2 /\ d # "0xc0"
    BY <2>4 DEF Identity, Byte
  <2>5. QED BY <2>1, <2>2, <2>3, <2>4
<1>2. Text.tag = "text" /\ Zero.tag = "none"
  BY DEF Text, Zero, Byte
<1>3. QED BY <1>1, <1>2

\* Configurations are not measurements.
LEMMA IndexIs == ASSUME index \in Indices PROVE index \in Nat /\ ~MarginTool
BY BoardAssumption DEF MarginTool, NoIndex

\* The index and the links are what they are, and a failure is not undone.
LEMMA FlowKept == ASSUME [Next]_vars PROVE UNCHANGED <<index, present>> /\ (lost => lost')
<1>1. CASE UNCHANGED vars
  BY <1>1 DEF vars, toolLocals, board, bus
<1>2. CASE Send
  BY <1>2 DEF Send, toolLocals, board, bus
<1>3. CASE Next_step
  BY <1>3 DEF Next_step, board, bus
<1>4. CASE (Post \/ PollDone \/ Collect) /\ UNCHANGED <<ToolRest, board>>
  BY <1>4 DEF ToolRest, toolLocals, board, bus
<1>5. CASE Timeout /\ lost' = TRUE /\ UNCHANGED <<ToolRest, reg, BusRest>>
  BY <1>5 DEF ToolRest, toolLocals, BusRest
<1>6. CASE DecideCheck \/ DecideLock \/ DecideLoop \/ DecideLinkA \/ DecideLinkB
  BY <1>6 DEF DecideCheck, DecideLock, DecideLoop, DecideLinkA, DecideLinkB, LocalsOnly, board, bus
<1>7. CASE A53Take /\ UNCHANGED <<ToolRest, board>>
  BY <1>7 DEF ToolRest, toolLocals, board, bus
<1>8. CASE A53Bad /\ lost' = (lost \/ exec.cmd.op # "probe") /\ UNCHANGED <<ToolRest, reg, BusRest>>
  BY <1>8 DEF ToolRest, toolLocals, BusRest
<1>9. CASE Execute
  BY <1>9 DEF Execute, OnBus, toolLocals
<1>10. QED BY <1>1, <1>2, <1>3, <1>4, <1>5, <1>6, <1>7, <1>8, <1>9 DEF Next, Tool, A53

\* The lists the decisions put in place.
LEMMA ChannelDecides ==
  ASSUME index \in Indices, DecideLinkA \/ DecideLinkB
  PROVE  Fresh(todo')
<1>1. FlowFresh(serdes_channel_init(index))
  BY AllFresh
<1>2. /\ Fresh(serdes_channel_init(index).between) /\ Fresh(serdes_channel_init(index).noA)
      /\ Fresh(serdes_channel_init(index).both) /\ Fresh(serdes_channel_init(index).onlyA)
  BY <1>1 DEF FlowFresh
<1>3. QED BY <1>2 DEF DecideLinkA, DecideLinkB

\* Every step of a configuration leaves one of its lists.
LEMMA ChannelListKept ==
  ASSUME index \in Indices, ChannelList(todo), UnderWay, [Next]_vars
  PROVE  ChannelList(todo') /\ ~DecideCheck /\ ~DecideLock /\ ~DecideLoop
<1>1. ASSUME todo # <<>> PROVE Head(todo).op \notin {"check", "lock", "loop"}
  BY <1>1, FirstIs DEF ChannelStep, Links
<1>2. ~DecideCheck /\ ~DecideLock /\ ~DecideLoop
  BY <1>1 DEF DecideCheck, DecideLock, DecideLoop, Deciding
<1>3. CASE todo' = todo
  BY <1>2, <1>3
<1>4. CASE Next_step
  <2>1. todo # <<>> /\ todo' = Tail(todo)
    BY <1>4 DEF Next_step, Return, UnderWay
  <2>2. QED BY <1>2, <2>1, ChannelTail
<1>5. CASE DecideLinkA \/ DecideLinkB
  BY <1>2, <1>5, ChannelDecides DEF Fresh
<1>6. CASE Send \/ A53 \/ UNCHANGED vars \/ UNCHANGED ToolRest
  <2>1. todo' = todo
    BY <1>6 DEF Send, A53, Execute, ToolRest, vars
  <2>2. QED BY <2>1, <1>3
<1>7. QED BY <1>2, <1>4, <1>5, <1>6 DEF Next, Tool

\* What a list that begins needs.
LEMMA FreshHolds ==
  ASSUME NEW t, Fresh(t)
  PROVE  Guided(t) /\ (t # <<>> => t[1].op \notin {"probe"} \cup Links)
BY DEF Fresh, Guided

\* serdes_channel_init as it begins: no serializer has been moved.
LEMMA ChannelBegins ==
  ASSUME Init, ~MarginTool
  PROVE  index \in Indices /\ ChannelList(todo) /\ ChannelInv
<1>1. /\ index \in Indices /\ todo = serdes_channel_init(index).start
      /\ selected \subseteq Links /\ phase = "idle" /\ chose = {}
      /\ addr = [l \in Links |-> "0x80"]
  BY DEF Init, CWInit, MarginTool
<1>2. Fresh(todo)
  <2>1. FlowFresh(serdes_channel_init(index))
    BY <1>1, AllFresh
  <2>2. QED BY <1>1, <2>1 DEF FlowFresh
<1>3. ChannelList(todo) /\ Guided(todo) /\ (todo # <<>> => todo[1].op \notin {"probe"} \cup Links)
  BY <1>1, <1>2, FreshHolds DEF Fresh
<1>4. ~Answered
  BY <1>1 DEF Answered
<1>5. Told
  <2>1. todo # <<>> => Head(todo).op \notin {"probe"} \cup Links
    BY <1>3, FirstIs
  <2>2. QED BY <2>1, <1>4 DEF Told
<1>6. QED BY <1>1, <1>3, <1>5 DEF ChannelInv, LinkAnswered

\* What the invariant of a configuration depends on.
LEMMA ChannelQuiet ==
  ASSUME ChannelInv, UNCHANGED <<todo, selected, addr, present, chose, lost>>, Told'
  PROVE  ChannelInv'
BY DEF ChannelInv, Guided, LinkAnswered

\* What an answer tells depends on the command and its outcome.
LEMMA ToldQuiet ==
  ASSUME Told, UNCHANGED <<todo, selected, present, index, result, cmd_result>>,
         phase # "back", phase' # "back",
         Answered' => Answered /\ resp' = resp
  PROVE  Told'
<1>1. Answered' => Outcome' = Outcome
  BY DEF Outcome
<1>2. ASSUME todo # <<>>
      PROVE  LET s == Head(todo) IN
             /\ Selecting(s) /\ s.reg = "select" /\ Answered' => selected = Chosen[s.as]
             /\ s.op = "detect" /\ Answered' => Outcome' = Zero
             /\ s.op = "probe" => cmd_result = Zero
             /\ s.op = "probe" /\ Answered' /\ ~resp'.bad => Tells(Outcome', todo[2].op)
             /\ s.op \in Links => Tells(result, s.op)
  BY <1>1, <1>2 DEF Told
<1>3. QED BY <1>2 DEF Told, Tells

\* A serializer that has been moved answers for its own link only.
LEMMA OneAnswers ==
  ASSUME NEW l \in Links, \A m \in Links : addr[m] \in {"0x80", Own[m]},
         selected \subseteq Links, At(Own[l]) # {}
  PROVE  l \in present
<1>1. PICK m \in selected \cap present : addr[m] = Own[l]
  BY DEF At
<1>2. m \in Links /\ addr[m] \in {"0x80", Own[m]}
  BY <1>1
<1>3. m = l
  BY <1>1, <1>2, OwnIs
<1>4. QED BY <1>1, <1>3

\* A probe of a link that is not there is not answered.
LEMMA OtherAnswers ==
  ASSUME NEW c, NEW o, c.op = o, o # "read", o # "probe", NEW v \in Answers(c)
  PROVE  v = Zero
BY DEF Answers

\* The A53 runs a command of a configuration.
LEMMA ChannelExecute ==
  ASSUME index \in Indices, ChannelList(todo), ToolInv, ~lost, ChannelInv, Execute
  PROVE  ChannelInv'
<1> DEFINE t == todo s == Head(todo)
<1>1. /\ exec.busy /\ exec.cmd = Command(s) /\ irq /\ phase = "poll"
      /\ todo # <<>> /\ s.op \notin Decisions
  BY DEF Execute, ToolInv, InStep, UnderWay
<1>2. PICK v \in Answers(exec.cmd) : A53Done(v)
  BY DEF Execute
<1>3. /\ UNCHANGED <<todo, phase, index, result, chose, cmd_result, present, lost>>
      /\ ~Answered /\ Answered' /\ Outcome' = v /\ ~resp'.bad
  BY <1>1, <1>2 DEF Execute, toolLocals, A53Done, Answer, toolVars, Answered, Outcome, OnBus
<1>4. /\ exec.cmd.op = s.op /\ exec.cmd.dev = s.dev /\ exec.cmd.reg = s.reg
      /\ s.op = "element" => exec.cmd.as = s.as
  BY <1>1, CommandIs
<1>5. t \in Seq(Steps) /\ Len(t) \in Nat /\ 1 \in 1 .. Len(t) /\ s = t[1] /\ ChannelStep(s)
  BY <1>1, FirstIs
<1>6. /\ selected \subseteq Links /\ Guided(t) /\ Told /\ LinkAnswered
      /\ addr \in [Links -> {"0x80", "0xc0", "0xc4"}] /\ \A l \in Links : addr[l] \in {"0x80", Own[l]}
  BY DEF ChannelInv
<1>7. /\ s.op # "element" => s.reg = ""
      /\ s.op = "detect" => s = Detect
      /\ s.reg = "select" => s.dev = "0x90" /\ s.as \in {"a", "b", "ab"}
      /\ s.reg = "move" => \E l \in Links : s = Move(Own[l])
  BY <1>5 DEF ChannelStep
<1>8. OnBus(exec.cmd)
  BY DEF Execute
<1>9. selected' \subseteq Links /\ (~Selecting(s) => selected' = selected)
      /\ (Selecting(s) /\ s.reg = "select" => selected' = Chosen[s.as])
  <2>1. CASE ~Selecting(s)
    <3>1. selected' = selected
      BY <2>1, <1>4, <1>8 DEF OnBus, Selecting
    <3>2. QED BY <3>1, <2>1, <1>6
  <2>2. CASE Selecting(s) /\ s.reg = "select"
    <3>1. exec.cmd.op = "element" /\ exec.cmd.dev = "0x90" /\ exec.cmd.reg = "select" /\ exec.cmd.as = s.as
      BY <2>2, <1>4 DEF Selecting
    <3>2. selected' = Chosen[s.as]
      BY <3>1, <1>8 DEF OnBus
    <3>3. Chosen[s.as] \subseteq Links
      BY <2>2, <1>7, OwnIs
    <3>4. QED BY <3>2, <3>3, <2>2
  <2>3. CASE Selecting(s) /\ s.reg = "reset"
    <3>1. exec.cmd.op = "element" /\ exec.cmd.dev = "0x90" /\ exec.cmd.reg = "reset"
      BY <2>3, <1>4 DEF Selecting
    <3>2. selected' \in SUBSET Links
      BY <3>1, <1>8 DEF OnBus
    <3>3. QED BY <3>2, <2>3
  <2>4. QED BY <2>1, <2>2, <2>3 DEF Selecting
<1>10. /\ addr' \in [Links -> {"0x80", "0xc0", "0xc4"}]
       /\ \A l \in Links : addr'[l] \in {"0x80", Own[l]}
  <2> DEFINE to == At(exec.cmd.dev)
  <2>1. CASE s.reg = "move"
    <3>1. PICK l \in Links : s = Move(Own[l])
      BY <2>1, <1>7
    <3>2. s.op = "element" /\ s.dev = "0x80" /\ s.as = Own[l] /\ s.reg = "move"
      BY <3>1, MoveIs
    <3>3. exec.cmd.reg = "move" /\ exec.cmd.as = Own[l]
      BY <3>2, <1>4
    <3>4. selected = {l}
      <4>1. t[1] = Move(Own[l])
        BY <3>1, <1>5
      <4>2. SelectsFirst(t, 1, l) \/ selected = {l}
        BY <4>1, <1>5, <1>6 DEF Guided
      <4>3. ~SelectsFirst(t, 1, l)
        BY DEF SelectsFirst
      <4>4. QED BY <4>2, <4>3
    <3>5. to \subseteq {l}
      BY <3>4 DEF At
    <3> HIDE DEF to
    <3>6. addr' = [m \in Links |-> IF m \in to THEN Own[l] ELSE addr[m]]
      BY <3>3, <1>8 DEF OnBus, to
    <3>7. Own[l] \in {"0xc0", "0xc4"}
      BY OwnIs
    <3>8. QED BY <3>5, <3>6, <3>7, <1>6
  <2>2. CASE s.reg = "reset"
    <3>1. exec.cmd.reg = "reset"
      BY <2>2, <1>4
    <3> HIDE DEF to
    <3>2. addr' = [m \in Links |-> IF m \in to THEN "0x80" ELSE addr[m]]
      BY <3>1, <1>8 DEF OnBus, to
    <3>3. QED BY <3>2, <1>6
  <2>3. CASE s.reg \notin {"move", "reset"}
    <3>1. addr' = addr
      BY <2>3, <1>4, <1>8 DEF OnBus
    <3>2. QED BY <3>1, <1>6
  <2>4. QED BY <2>1, <2>2, <2>3
<1>11. Guided(todo)'
  <2>1. SUFFICES ASSUME NEW k \in 1 .. Len(t), NEW l \in Links, t[k] = Move(Own[l])
                 PROVE  \/ SelectsFirst(t, k, l)
                        \/ selected' = {l} /\ \A m \in 1 .. k - 1 : ~Selecting(t[m])
    BY <1>3 DEF Guided, SelectsFirst
  <2>2. \/ SelectsFirst(t, k, l)
        \/ selected = {l} /\ \A m \in 1 .. k - 1 : ~Selecting(t[m])
    BY <2>1, <1>6 DEF Guided
  <2>3. CASE SelectsFirst(t, k, l)
    BY <2>3
  <2>4. CASE selected = {l} /\ \A m \in 1 .. k - 1 : ~Selecting(t[m])
    <3>1. ~Selecting(t[1])
      <4>1. CASE k = 1
        BY <4>1, <2>1, MoveIs
      <4>2. CASE k # 1
        <5>1. 1 \in 1 .. k - 1
          BY <4>2, <1>5
        <5>2. QED BY <5>1, <2>4
      <4>3. QED BY <4>1, <4>2
    <3>2. selected' = selected
      BY <3>1, <1>5, <1>9
    <3>3. QED BY <3>2, <2>4
  <2>5. QED BY <2>2, <2>3, <2>4
<1>12. s.op = "detect" => v = Zero
  <2>1. ASSUME s.op = "detect" PROVE v = Zero
    <3> DEFINE c == exec.cmd o == s.op
    <3>1. c.op = o /\ o # "read" /\ o # "probe" /\ v \in Answers(c)
      BY <2>1, <1>2, <1>4
    <3> HIDE DEF c, o
    <3>2. QED BY <3>1, OtherAnswers
  <2>2. QED BY <2>1
<1>13. s.op = "probe" => Tells(v, t[2].op)'
  <2>1. SUFFICES ASSUME s.op = "probe", v = Identity(index, Own[t[2].op]) PROVE t[2].op \in present
    BY <1>3 DEF Tells, Identity
  <2> DEFINE l == t[2].op
  <2>2. l \in Links /\ s.dev = Own[l]
    BY <2>1, <1>5 DEF ChannelList
  <2>3. exec.cmd.op = "probe" /\ exec.cmd.dev = Own[l]
    BY <2>1, <2>2, <1>4
  <2> HIDE DEF l
  <2>4. v = (IF At(Own[l]) # {} THEN Identity(index, Own[l]) ELSE Text)
    <3>1. Answers(exec.cmd) = {IF At(exec.cmd.dev) # {} THEN Identity(index, exec.cmd.dev) ELSE Text}
      BY <2>3 DEF Answers
    <3>2. QED BY <3>1, <2>3, <1>2
  <2>5. v # Text
    BY <2>1, IdentityIs, IndexIs
  <2>6. At(Own[l]) # {}
    BY <2>4, <2>5
  <2>7. l \in present
    BY <2>2, <2>6, <1>6, OneAnswers
  <2>8. QED BY <2>7 DEF l
<1>14. Told'
  <2>1. /\ Selecting(s) /\ s.reg = "select" => selected' = Chosen[s.as]
        /\ s.op = "detect" => Outcome' = Zero
        /\ s.op = "probe" => cmd_result = Zero
        /\ s.op = "probe" => Tells(v, t[2].op)'
        /\ s.op \in Links => Tells(result, s.op)
    BY <1>1, <1>3, <1>6, <1>9, <1>12, <1>13 DEF Told
  <2>2. (s.op \in Links => Tells(result, s.op))'
    BY <2>1, <1>3 DEF Tells, Identity
  <2>3. QED BY <2>1, <2>2, <1>1, <1>3 DEF Told
<1>15. LinkAnswered'
  BY <1>3, <1>6 DEF LinkAnswered
<1>16. QED BY <1>9, <1>10, <1>11, <1>14, <1>15 DEF ChannelInv

\* The caller of a command takes its result and goes on.
LEMMA ChannelNext ==
  ASSUME index \in Indices, ChannelList(todo), ToolInv, ChannelInv, Next_step
  PROVE  ChannelInv'
<1> DEFINE t == todo s == t[1] u == Tail(t)
<1>1. /\ todo # <<>> /\ s.op \notin Decisions /\ todo' = u /\ Answered /\ ~Answered'
      /\ Outcome = cmd_result /\ phase = "back" /\ Head(t) = s
      /\ UNCHANGED <<selected, addr, present, chose, lost, index, cmd_result>>
      /\ result' = IF s.op = "probe" THEN cmd_result ELSE result
  <2>1. /\ phase = "back" /\ phase' = "idle" /\ todo' = u /\ todo # <<>> /\ Head(todo).op \notin Decisions
        /\ UNCHANGED <<selected, addr, present, chose, lost, index, cmd_result>>
        /\ result' = IF Head(todo).op = "probe" THEN cmd_result ELSE result
    BY DEF Next_step, Return, ToolInv, UnderWay, board, bus
  <2>2. Head(todo) = s
    BY <2>1, FirstIs
  <2>3. QED BY <2>1, <2>2 DEF Answered, Outcome
<1>2. /\ t \in Seq(Steps) /\ u \in Seq(Steps) /\ Len(u) \in Nat /\ Len(t) = Len(u) + 1
      /\ \A k \in 1 .. Len(u) : u[k] = t[k + 1] /\ k + 1 \in 1 .. Len(t)
  BY <1>1, FirstIs, TailIs
<1>3. Told /\ Guided(t)
  BY DEF ChannelInv
<1>4. \A k \in 1 .. Len(t) :
        /\ t[k].op = "probe" =>
            /\ Len(t) = k + 1
            /\ k > 1 => t[k - 1] = Detect
            /\ t[k + 1].op \in Links /\ t[k].dev = Own[t[k + 1].op]
        /\ t[k].op \in Links /\ k > 1 => t[k - 1].op = "probe"
  BY DEF ChannelList
<1> HIDE DEF t, s, u
<1>5. Guided(todo)'
  <2>1. SUFFICES ASSUME NEW k \in 1 .. Len(u), NEW l \in Links, u[k] = Move(Own[l])
                 PROVE  \/ SelectsFirst(u, k, l)
                        \/ selected = {l} /\ \A m \in 1 .. k - 1 : ~Selecting(u[m])
    BY <1>1 DEF Guided, SelectsFirst
  <2>2. u[k] = t[k + 1] /\ k + 1 \in 1 .. Len(t)
    BY <1>2
  <2>3. \/ SelectsFirst(t, k + 1, l)
        \/ selected = {l} /\ \A m \in 1 .. (k + 1) - 1 : ~Selecting(t[m])
    BY <2>1, <2>2, <1>3 DEF Guided
  <2>4. \A m \in 1 .. k - 1 : u[m] = t[m + 1] /\ m + 1 \in 1 .. (k + 1) - 1
    BY <1>2
  <2>5. CASE SelectsFirst(t, k + 1, l)
    <3>1. PICK j \in 1 .. (k + 1) - 1 :
             t[j] = Select(Sole(l)) /\ \A m \in j + 1 .. (k + 1) - 1 : ~Selecting(t[m])
      BY <2>5 DEF SelectsFirst
    <3>2. CASE j = 1
      <4>1. s = Select(Sole(l))
        BY <3>1, <3>2 DEF s
      <4>2. Selecting(s) /\ s.reg = "select" /\ s.as = Sole(l)
        BY <4>1 DEF Selecting, Select, Element, Step
      <4>3. selected = Chosen[Sole(l)]
        BY <4>2, <1>1, <1>3 DEF Told, t
      <4>4. selected = {l}
        BY <4>3, OwnIs
      <4>5. ASSUME NEW m \in 1 .. k - 1 PROVE ~Selecting(u[m])
        <5>1. u[m] = t[m + 1] /\ m + 1 \in j + 1 .. (k + 1) - 1
          BY <2>4, <3>2
        <5>2. QED BY <5>1, <3>1
      <4>6. QED BY <4>4, <4>5
    <3>3. CASE j # 1
      <4>1. j - 1 \in 1 .. k - 1 /\ j - 1 \in 1 .. Len(u) /\ (j - 1) + 1 = j
        BY <3>3, <1>2
      <4>2. u[j - 1] = Select(Sole(l))
        BY <4>1, <3>1, <1>2
      <4>3. ASSUME NEW m \in (j - 1) + 1 .. k - 1 PROVE ~Selecting(u[m])
        <5>1. u[m] = t[m + 1] /\ m + 1 \in j + 1 .. (k + 1) - 1
          BY <2>4, <3>3
        <5>2. QED BY <5>1, <3>1
      <4>4. QED BY <4>1, <4>2, <4>3 DEF SelectsFirst
    <3>4. QED BY <3>2, <3>3
  <2>6. CASE selected = {l} /\ \A m \in 1 .. (k + 1) - 1 : ~Selecting(t[m])
    BY <2>4, <2>6
  <2>7. QED BY <2>3, <2>5, <2>6
<1>6. Told'
  <2>1. SUFFICES ASSUME u # <<>>
                 PROVE  /\ u[1].op = "probe" => cmd_result = Zero
                        /\ u[1].op \in Links => (result' = Identity(index, Own[u[1].op]) => u[1].op \in present)
    <3>1. u # <<>> => Head(u) = u[1]
      BY <1>2, TailIs
    <3>2. (u # <<>> => /\ u[1].op = "probe" => cmd_result = Zero
                       /\ u[1].op \in Links => (result' = Identity(index, Own[u[1].op]) => u[1].op \in present))
          => Told'
      BY <3>1, <1>1 DEF Told, Tells, Identity
    <3>3. QED BY <3>2
  <2>2. u[1] = t[2] /\ 2 \in 1 .. Len(t) /\ 2 - 1 = 1
    <3>1. 1 \in 1 .. Len(u)
      BY <2>1, <1>2, TailIs
    <3>2. QED BY <3>1, <1>2
  <2>3. ASSUME u[1].op = "probe" PROVE cmd_result = Zero
    <3>1. s = Detect
      BY <2>2, <2>3, <1>4 DEF s
    <3>2. s.op = "detect"
      BY <3>1, DetectIs
    <3>3. QED BY <3>2, <1>1, <1>3 DEF Told, t
  <2>4. ASSUME u[1].op \in Links PROVE (result' = Identity(index, Own[u[1].op]) => u[1].op \in present)
    <3>1. s.op = "probe"
      BY <2>2, <2>4, <1>4 DEF s
    <3>2. Tells(cmd_result, t[2].op)
      BY <3>1, <1>1, <1>3 DEF Told, t
    <3>3. result' = cmd_result
      BY <3>1, <1>1
    <3>4. QED BY <3>2, <3>3, <2>2 DEF Tells
  <2>5. QED BY <2>3, <2>4
<1>7. QED BY <1>1, <1>5, <1>6 DEF ChannelInv, LinkAnswered

\* What was read is copied, or a probe that failed leaves what was there.
LEMMA ChannelCollect ==
  ASSUME index \in Indices, ToolInv, ~lost, ChannelInv,
         Collect, UNCHANGED <<ToolRest, board>>
  PROVE  ChannelInv'
<1> DEFINE s == Head(todo)
<1>1. /\ UNCHANGED <<todo, selected, addr, present, chose, lost, index, result>>
      /\ phase = "collect" /\ phase' = "back" /\ Answered /\ Outcome = resp.value
      /\ Outcome' = IF resp.bad THEN cmd_result ELSE resp.value
  BY DEF Collect, ToolRest, toolLocals, board, bus, Answered, Outcome
<1>2. Told /\ InStep
  BY DEF ChannelInv, ToolInv
<1>3. Told'
  <2>1. SUFFICES ASSUME todo # <<>>
                 PROVE  /\ Selecting(s) /\ s.reg = "select" => selected = Chosen[s.as]
                        /\ s.op = "detect" => Outcome' = Zero
                        /\ s.op = "probe" => Tells(Outcome, todo[2].op)'
                        /\ s.op \in Links => Tells(result, s.op)
    BY <1>1 DEF Told, Tells, Identity
  <2>2. CASE resp.bad
    <3>1. s.op = "probe" /\ cmd_result = Zero
      BY <1>1, <1>2, <2>1, <2>2 DEF InStep, Told
    <3>2. Zero # Identity(index, Own[todo[2].op])
      BY IdentityIs, IndexIs
    <3>3. Tells(Outcome, todo[2].op)'
      BY <1>1, <2>2, <3>1, <3>2 DEF Tells, Identity
    <3>4. QED BY <3>1, <3>3, <1>1, <1>2, <2>1 DEF Told, Selecting
  <2>3. CASE ~resp.bad
    <3>1. Outcome' = Outcome
      BY <1>1, <2>3
    <3>2. s.op = "probe" => Tells(Outcome, todo[2].op)
      BY <1>1, <1>2, <2>1, <2>3 DEF Told
    <3>3. s.op = "probe" => Tells(Outcome, todo[2].op)'
      BY <1>1, <3>1, <3>2 DEF Tells, Identity
    <3>4. QED BY <3>1, <3>3, <1>1, <1>2, <2>1 DEF Told
  <2>4. QED BY <2>2, <2>3
<1>4. QED BY <1>1, <1>3, ChannelQuiet

\* A probe fails.
LEMMA ChannelBad ==
  ASSUME ToolInv, ~lost', ChannelInv, A53Bad, lost' = (lost \/ exec.cmd.op # "probe"),
         UNCHANGED <<ToolRest, reg, BusRest>>
  PROVE  ChannelInv'
<1> DEFINE s == Head(todo)
<1>1. ~lost /\ exec.cmd.op = "probe" /\ exec.busy /\ lost' = lost
  BY DEF A53Bad, Answer, ToolInv, Failed
<1>2. /\ UNCHANGED <<todo, selected, addr, present, chose, index, result, cmd_result, phase>>
      /\ resp'.bad
  BY DEF A53Bad, Answer, toolVars, ToolRest, toolLocals, BusRest
<1>3. phase = "poll" /\ s.op = "probe"
  BY <1>1, CommandIs DEF ToolInv, InStep
<1>4. Told'
  <2>1. todo # <<>> => cmd_result = Zero /\ (s.op \in Links => Tells(result, s.op))
    BY <1>3 DEF ChannelInv, Told
  <2>2. ~Selecting(s) /\ s.op # "detect" /\ s.op \notin Links
    BY <1>3 DEF Selecting, Links
  <2>3. QED BY <1>2, <1>3, <2>1, <2>2 DEF Told
<1>5. QED BY <1>1, <1>2, <1>4, ChannelQuiet

\* A link is taken to be there, or not.
LEMMA ChannelTakes ==
  ASSUME index \in Indices, ~lost, ChannelInv, ChannelList(todo), DecideLinkA \/ DecideLinkB
  PROVE  ChannelInv'
<1>1. /\ UNCHANGED <<selected, addr, present, lost, index, result, phase>> /\ phase = "idle"
      /\ todo # <<>>
  BY DEF DecideLinkA, DecideLinkB, LocalsOnly, Deciding, board, bus, cwVars, toolVars
<1>2. Fresh(todo')
  BY ChannelDecides
<1>3. ChannelList(todo') /\ Guided(todo') /\ (todo' # <<>> => todo'[1].op \notin {"probe"} \cup Links)
  BY <1>2, FreshHolds DEF Fresh
<1>4. Guided(todo)'
  <2>1. \A k \in 1 .. Len(todo'), l \in Links : todo'[k] = Move(Own[l]) => SelectsFirst(todo', k, l)
    BY <1>2 DEF Fresh
  <2>2. QED BY <2>1 DEF Guided, SelectsFirst
<1>5. Told'
  <2>1. todo' # <<>> => Head(todo') = todo'[1]
    <3>1. todo' \in Seq(Steps)
      BY <1>3 DEF ChannelList, StepsEnd
    <3>2. QED BY <3>1, TailIs
  <2>2. ~Answered'
    BY <1>1 DEF Answered
  <2>3. QED BY <1>3, <2>1, <2>2 DEF Told
<1>6. chose' \subseteq present
  <2>1. chose \subseteq present /\ Told
    BY DEF ChannelInv, LinkAnswered
  <2>2. CASE DecideLinkA
    <3>1. Head(todo).op = "linkA"
      BY <2>2 DEF DecideLinkA, Deciding
    <3>2. result = Identity(index, Own["linkA"]) => "linkA" \in present
      BY <3>1, <2>1, <1>1, OwnIs DEF Told, Tells
    <3>3. QED BY <2>1, <2>2, <3>2 DEF DecideLinkA
  <2>3. CASE DecideLinkB
    <3>1. Head(todo).op = "linkB"
      BY <2>3 DEF DecideLinkB, Deciding
    <3>2. result = Identity(index, Own["linkB"]) => "linkB" \in present
      BY <3>1, <2>1, <1>1, OwnIs DEF Told, Tells
    <3>3. QED BY <2>1, <2>3, <3>2 DEF DecideLinkB
  <2>4. QED BY <2>2, <2>3
<1>7. QED BY <1>1, <1>4, <1>5, <1>6 DEF ChannelInv, LinkAnswered

\* A step of the tool or the board keeps the lists, and the invariant as long as
\* no command but a probe has failed.
LEMMA ChannelKept ==
  ASSUME index \in Indices, ChannelList(todo), ToolInv, ~lost => ChannelInv, ~lost', [Next]_vars
  PROVE  ChannelInv'
<1>1. ~lost
  BY FlowKept
<1>2. ChannelInv /\ Told
  BY <1>1 DEF ChannelInv
<1> DEFINE quiet == UNCHANGED <<todo, selected, addr, present, chose, lost, index, result>>
<1>3. CASE UNCHANGED vars
  <2>1. quiet /\ UNCHANGED <<phase, irq, resp, cmd_result>>
    BY <1>3 DEF vars, toolLocals, board, bus, cwVars, toolVars, windowVars
  <2>2. Told'
    BY <1>2, <2>1 DEF Told, Tells, Identity, Answered, Outcome
  <2>3. QED BY <2>1, <2>2, <1>2, ChannelQuiet
<1>4. CASE Send
  <2>1. quiet /\ ~Answered' /\ UNCHANGED cmd_result /\ phase # "back" /\ phase' # "back"
    BY <1>4 DEF Send, Compose, toolLocals, board, bus, Answered
  <2>2. QED BY <2>1, <1>2, ToldQuiet, ChannelQuiet
<1>5. CASE Next_step
  BY <1>2, <1>5, ChannelNext
<1>6. CASE Post /\ UNCHANGED <<ToolRest, board>>
  <2>1. quiet /\ ~Answered' /\ UNCHANGED cmd_result /\ phase # "back" /\ phase' # "back"
    BY <1>6 DEF Post, ToolRest, toolLocals, board, bus, Answered
  <2>2. QED BY <2>1, <1>2, ToldQuiet, ChannelQuiet
<1>7. CASE PollDone /\ UNCHANGED <<ToolRest, board>>
  <2>1. quiet /\ Answered /\ UNCHANGED <<resp, cmd_result>> /\ phase # "back" /\ phase' # "back"
    BY <1>7 DEF PollDone, windowVars, ToolRest, toolLocals, board, bus, Answered
  <2>2. QED BY <2>1, <1>2, ToldQuiet, ChannelQuiet
<1>8. CASE Collect /\ UNCHANGED <<ToolRest, board>>
  BY <1>1, <1>2, <1>8, ChannelCollect
<1>9. CASE DecideLinkA \/ DecideLinkB
  BY <1>1, <1>2, <1>9, ChannelTakes
<1>10. ~DecideCheck /\ ~DecideLock /\ ~DecideLoop
  BY ChannelListKept DEF ToolInv
<1>11. CASE A53Take /\ UNCHANGED <<ToolRest, board>>
  <2>1. quiet /\ UNCHANGED <<phase, irq, resp, cmd_result>>
    BY <1>11 DEF A53Take, toolVars, windowVars, ToolRest, toolLocals, board, bus
  <2>2. Told'
    BY <1>2, <2>1 DEF Told, Tells, Identity, Answered, Outcome
  <2>3. QED BY <2>1, <2>2, <1>2, ChannelQuiet
<1>12. CASE A53Bad /\ lost' = (lost \/ exec.cmd.op # "probe") /\ UNCHANGED <<ToolRest, reg, BusRest>>
  BY <1>2, <1>12, ChannelBad
<1>13. CASE Execute
  BY <1>1, <1>2, <1>13, ChannelExecute
<1>14. CASE Timeout /\ lost' = TRUE
  BY <1>14
<1>15. QED
  BY <1>3, <1>4, <1>5, <1>6, <1>7, <1>8, <1>9, <1>10, <1>11, <1>12, <1>13, <1>14 DEF Next, Tool, A53

\* What holds of a configuration as long as no command but a probe has failed.
ChannelBI == ~MarginTool => index \in Indices /\ ChannelList(todo) /\ (~lost => ChannelInv)

\* At first no link is taken to be there.
LEMMA NothingChosen == ASSUME Init PROVE chose = {}
BY DEF Init

\* serdes_channel_init takes a link to be there only if its serializer answered,
\* for every index and whatever the links and the probes that fail
\* (iic_reg16_rd8, after what element_channel_process sent).
THEOREM LinksAnswer == Spec => []LinkAnswered
<1>1. Init => ToolInv /\ ChannelBI /\ (MarginTool => MarginList(todo) /\ chose = {})
  BY ToolBegins, MarginListed, ChannelBegins, NothingChosen DEF ChannelBI
<1>2. ASSUME ToolInv, ChannelBI, MarginTool => MarginList(todo) /\ chose = {}, [Next]_vars
      PROVE  ToolInv' /\ ChannelBI' /\ (MarginTool => MarginList(todo) /\ chose = {})'
  <2>1. ToolInv' /\ index' = index
    BY <1>2, ToolKept, FlowKept
  <2>2. CASE MarginTool
    <3>1. MarginTool' /\ MarginList(todo') /\ ~DecideLinkA /\ ~DecideLinkB
      BY <1>2, <2>2, MarginListKept DEF ToolInv
    <3>2. chose' = chose
      BY <1>2, <3>1 DEF Next, Tool, A53, vars, Send, Next_step, Execute, ToolRest, toolLocals, LocalsOnly,
         DecideCheck, DecideLock, DecideLoop
    <3>3. QED BY <1>2, <2>1, <2>2, <3>1, <3>2 DEF ChannelBI
  <2>3. CASE ~MarginTool
    <3>1. ~MarginTool'
      BY <2>1, <2>3 DEF MarginTool
    <3>2. ChannelList(todo') /\ (~lost' => ChannelInv')
      BY <1>2, <2>3, ChannelListKept, ChannelKept DEF ChannelBI, ToolInv
    <3>3. QED BY <1>2, <2>1, <2>3, <3>1, <3>2 DEF ChannelBI
  <2>4. QED BY <2>2, <2>3
<1>3. ChannelBI /\ (MarginTool => MarginList(todo) /\ chose = {}) => LinkAnswered
  BY DEF ChannelBI, ChannelInv, LinkAnswered
<1>4. QED BY <1>1, <1>2, <1>3, PTL DEF Spec
-----------------------------------------------------------------------------
\* serdes_channel_init, seen from the ends of its links.

\* A list of steps brings the two links where they should be, whichever of them
\* are there.  For that each link is looked at alone, by the little that its end
\* has of the state: the links selected, whether its serializer has been moved,
\* whether that translates its sensor's address to the one (y) the sensor's table
\* is written for, and whether that table has reached the sensor.
Views == [sel : SUBSET Links, moved : BOOLEAN, told : BOOLEAN, set : BOOLEAN]
View(l, y) == [sel |-> selected, moved |-> addr[l] = Own[l],
               told |-> sensorTo[l] = y, set |-> l \in sensorsSet]
Seen(S, M, T, D) == {v \in Views : v.sel \in S /\ v.moved \in M /\ v.told \in T /\ v.set \in D}

\* A step finds the chip it is for, and no other, at this end.
Safe(l, s, v) ==
    /\ s.op = "element" =>
        /\ s.dev \in Devices
        /\ s.dev = Own[l] /\ s.reg \in {"set", "translate"} => l \in v.sel /\ v.moved
        /\ s.dev = "0x80" => s.reg \in {"set", "move"}
        /\ s.dev = "0x80" /\ s.reg = "set" /\ l \in v.sel => v.sel = {l} /\ ~v.moved
        /\ s.reg = "move" => s = Move(Own[l]) \/ l \notin v.sel
        /\ s.reg = "reset" /\ s.dev = Own[l] => s = Reset(Own[l])
    /\ s.op = "probe" /\ s.dev = Own[l] => l \in v.sel /\ v.moved

\* What the step does there.
Becomes(l, y, s, v, w) ==
    /\ s.reg = "select" => w.sel = Chosen[s.as]
    /\ ~Selecting(s) => w.sel = v.sel
    /\ w.moved = IF s = Move(Own[l]) THEN v.moved \/ l \in v.sel
                 ELSE IF s = Reset(Own[l]) THEN v.moved /\ l \notin v.sel
                 ELSE v.moved
    /\ IF s.reg = "translate" /\ s.dev = Own[l] THEN w.told = (s.as = y)
       ELSE s # Reset(Own[l]) => w.told = v.told
    /\ w.set = (v.set \/ (/\ s.op = "sensor" /\ l \in v.sel
                          /\ s.dev = y \/ (s.dev = Alias[l] /\ v.told)))

Goes(l, y, s, P, Q) ==
    \A v \in P : Safe(l, s, v) /\ \A w \in Views : Becomes(l, y, s, v, w) => w \in Q

\* A list leads from views to views, step by step.
Leads(l, y, t, P, Q) ==
    \E f \in [1 .. Len(t) + 1 -> SUBSET Views] :
        /\ P \subseteq f[1] /\ f[Len(t) + 1] \subseteq Q
        /\ \A k \in 1 .. Len(t) : Goes(l, y, t[k], f[k], f[k + 1])

\* A list at its end leads nowhere else,
LEMMA LeadsNowhere ==
  ASSUME NEW l, NEW y, NEW P, NEW Q, P \subseteq Q, P \subseteq Views
  PROVE  Leads(l, y, <<>>, P, Q)
<1> DEFINE f == [k \in 1 .. 1 |-> P]
<1>1. Len(<<>>) = 0 /\ 0 + 1 = 1 /\ 1 .. 0 = {}
  OBVIOUS
<1>2. f \in [1 .. 1 -> SUBSET Views] /\ f[1] = P
  OBVIOUS
<1> HIDE DEF f
<1>3. QED BY <1>1, <1>2 DEF Leads

\* and has led where it should.
LEMMA LeadsEnd ==
  ASSUME NEW l, NEW y, NEW P, NEW Q, Leads(l, y, <<>>, P, Q)
  PROVE  P \subseteq Q
BY DEF Leads

\* A list of one step.
LEMMA LeadsOne ==
  ASSUME NEW l, NEW y, NEW s, NEW P \in SUBSET Views, NEW Q \in SUBSET Views, Goes(l, y, s, P, Q)
  PROVE  Leads(l, y, <<s>>, P, Q)
<1> DEFINE f == [k \in 1 .. 2 |-> IF k = 1 THEN P ELSE Q] t == <<s>>
<1>1. Len(t) = 1 /\ t[1] = s
  OBVIOUS
<1>2. f \in [1 .. Len(t) + 1 -> SUBSET Views] /\ f[1] = P /\ f[2] = Q
  BY <1>1
<1> HIDE DEF f, t
<1>3. \A k \in 1 .. Len(t) : k = 1
  BY <1>1
<1>4. \A k \in 1 .. Len(t) : Goes(l, y, t[k], f[k], f[k + 1])
  BY <1>1, <1>2, <1>3
<1>5. P \subseteq f[1] /\ f[Len(t) + 1] \subseteq Q
  BY <1>1, <1>2
<1>6. Leads(l, y, t, P, Q)
  BY <1>2, <1>4, <1>5 DEF Leads
<1>7. QED BY <1>6 DEF t

\* One list after another.
LEMMA LeadsOn ==
  ASSUME NEW l, NEW y, NEW A, NEW a \in Seq(A), NEW b \in Seq(A), NEW P, NEW Q, NEW G,
         Leads(l, y, a, P, Q), Leads(l, y, b, Q, G)
  PROVE  Leads(l, y, a \o b, P, G)
<1> DEFINE c == a \o b n == Len(a) m == Len(b)
<1>1. /\ n \in Nat /\ m \in Nat /\ Len(c) = n + m
      /\ \A k \in 1 .. n : c[k] = a[k]
      /\ \A k \in 1 .. m : c[n + k] = b[k]
  BY ConcatIs
<1> HIDE DEF c, n, m
<1>2. PICK f \in [1 .. n + 1 -> SUBSET Views] :
        /\ P \subseteq f[1] /\ f[n + 1] \subseteq Q
        /\ \A k \in 1 .. n : Goes(l, y, a[k], f[k], f[k + 1])
  BY DEF Leads, n
<1>3. PICK g \in [1 .. m + 1 -> SUBSET Views] :
        /\ Q \subseteq g[1] /\ g[m + 1] \subseteq G
        /\ \A k \in 1 .. m : Goes(l, y, b[k], g[k], g[k + 1])
  BY DEF Leads, m
<1> DEFINE h == [k \in 1 .. n + m + 1 |-> IF k <= n THEN f[k] ELSE g[k - n]]
<1>4. /\ h \in [1 .. Len(c) + 1 -> SUBSET Views]
      /\ \A k \in 1 .. n : h[k] = f[k]
      /\ \A k \in 1 .. m + 1 : h[n + k] = g[k]
  <2>1. ASSUME NEW k \in 1 .. n + m + 1
        PROVE  (k <= n => k \in 1 .. n + 1) /\ (~(k <= n) => k - n \in 1 .. m + 1)
    BY <1>1
  <2>2. h \in [1 .. n + m + 1 -> SUBSET Views]
    BY <2>1, <1>1
  <2>3. \A k \in 1 .. n : h[k] = f[k]
    BY <1>1
  <2>4. ASSUME NEW k \in 1 .. m + 1 PROVE h[n + k] = g[k]
    <3>1. n + k \in 1 .. n + m + 1 /\ ~(n + k <= n) /\ (n + k) - n = k
      BY <1>1
    <3>2. QED BY <3>1
  <2>5. QED BY <1>1, <2>2, <2>3, <2>4
<1> HIDE DEF h
<1>5. P \subseteq h[1]
  <2>1. CASE n = 0
    <3>1. 1 \in 1 .. m + 1 /\ n + 1 = 1
      BY <2>1, <1>1
    <3>2. h[1] = g[1]
      BY <3>1, <1>4, <2>1
    <3>3. QED BY <3>1, <3>2, <1>2, <1>3
  <2>2. CASE n # 0
    <3>1. 1 \in 1 .. n
      BY <2>2, <1>1
    <3>2. QED BY <3>1, <1>2, <1>4
  <2>3. QED BY <2>1, <2>2
<1>6. h[Len(c) + 1] \subseteq G
  <2>1. m + 1 \in 1 .. m + 1 /\ Len(c) + 1 = n + (m + 1)
    BY <1>1
  <2>2. h[n + (m + 1)] = g[m + 1]
    BY <2>1, <1>4
  <2>3. QED BY <2>1, <2>2, <1>3
<1>7. ASSUME NEW k \in 1 .. n PROVE Goes(l, y, c[k], h[k], h[k + 1])
  <2>1. CASE k = n
    <3>1. 1 \in 1 .. m + 1 /\ k + 1 = n + 1
      BY <2>1, <1>1
    <3>2. f[k + 1] \subseteq h[k + 1]
      BY <3>1, <1>2, <1>3, <1>4
    <3>3. c[k] = a[k] /\ h[k] = f[k] /\ Goes(l, y, a[k], f[k], f[k + 1])
      BY <1>1, <1>2, <1>4
    <3>4. QED BY <3>2, <3>3 DEF Goes
  <2>2. CASE k # n
    <3>1. k + 1 \in 1 .. n
      BY <2>2, <1>1
    <3>2. QED BY <3>1, <1>1, <1>2, <1>4
  <2>3. QED BY <2>1, <2>2
<1>8. ASSUME NEW k \in 1 .. m PROVE Goes(l, y, c[n + k], h[n + k], h[n + (k + 1)])
  <2>1. k \in 1 .. m + 1 /\ k + 1 \in 1 .. m + 1
    BY <1>1
  <2>2. QED BY <2>1, <1>1, <1>3, <1>4
<1>9. ASSUME NEW k \in 1 .. Len(c) PROVE Goes(l, y, c[k], h[k], h[k + 1])
  <2>1. CASE k <= n
    <3>1. k \in 1 .. n
      BY <2>1, <1>1
    <3>2. QED BY <3>1, <1>7
  <2>2. CASE k > n
    <3>1. k - n \in 1 .. m /\ n + (k - n) = k /\ n + ((k - n) + 1) = k + 1
      BY <2>2, <1>1
    <3>2. Goes(l, y, c[n + (k - n)], h[n + (k - n)], h[n + ((k - n) + 1)])
      BY <3>1, <1>8
    <3>3. QED BY <3>1, <3>2
  <2>3. QED BY <2>1, <2>2, <1>1
<1>10. Leads(l, y, c, P, G)
  BY <1>4, <1>5, <1>6, <1>9 DEF Leads
<1>11. QED BY <1>10 DEF c

\* A step taken.
LEMMA LeadsTail ==
  ASSUME NEW l, NEW y, NEW A, NEW t \in Seq(A), t # <<>>, NEW P, NEW Q, Leads(l, y, t, P, Q),
         NEW v \in P
  PROVE  /\ Safe(l, t[1], v)
         /\ \A w \in Views : Becomes(l, y, t[1], v, w) => Leads(l, y, Tail(t), {w}, Q)
<1> DEFINE u == Tail(t) n == Len(t) m == Len(u)
<1>1. /\ n \in Nat /\ m \in Nat /\ n = m + 1
      /\ \A k \in 1 .. m : u[k] = t[k + 1] /\ k + 1 \in 1 .. n
  BY TailIs
<1> HIDE DEF u, n, m
<1>2. PICK f \in [1 .. n + 1 -> SUBSET Views] :
        /\ P \subseteq f[1] /\ f[n + 1] \subseteq Q
        /\ \A k \in 1 .. n : Goes(l, y, t[k], f[k], f[k + 1])
  BY DEF Leads, n
<1>3. 1 \in 1 .. n
  BY <1>1
<1>4. Safe(l, t[1], v) /\ \A w \in Views : Becomes(l, y, t[1], v, w) => w \in f[2]
  <2>1. Goes(l, y, t[1], f[1], f[1 + 1]) /\ v \in f[1]
    BY <1>2, <1>3
  <2>2. QED BY <2>1 DEF Goes
<1> DEFINE g == [k \in 1 .. m + 1 |-> f[k + 1]]
<1>5. /\ g \in [1 .. m + 1 -> SUBSET Views] /\ g[1] = f[2] /\ g[m + 1] = f[n + 1]
      /\ \A k \in 1 .. m : g[k] = f[k + 1] /\ g[k + 1] = f[(k + 1) + 1]
  <2>1. \A k \in 1 .. m + 1 : k + 1 \in 1 .. n + 1
    BY <1>1
  <2>2. g \in [1 .. m + 1 -> SUBSET Views]
    BY <2>1
  <2>3. 1 \in 1 .. m + 1 /\ m + 1 \in 1 .. m + 1 /\ (m + 1) + 1 = n + 1 /\ 1 + 1 = 2
    BY <1>1
  <2>4. \A k \in 1 .. m : k \in 1 .. m + 1 /\ k + 1 \in 1 .. m + 1
    BY <1>1
  <2>5. QED BY <2>2, <2>3, <2>4
<1> HIDE DEF g
<1>6. ASSUME NEW w \in Views, Becomes(l, y, t[1], v, w) PROVE Leads(l, y, u, {w}, Q)
  <2>1. {w} \subseteq g[1] /\ g[m + 1] \subseteq Q
    BY <1>2, <1>4, <1>5, <1>6
  <2>2. ASSUME NEW k \in 1 .. m PROVE Goes(l, y, u[k], g[k], g[k + 1])
    BY <1>1, <1>2, <1>5
  <2>3. QED BY <1>5, <2>1, <2>2 DEF Leads, m
<1>7. QED BY <1>4, <1>6 DEF u

\* A list leads from less, and to more.
LEMMA LeadsFrom ==
  ASSUME NEW l, NEW y, NEW t, NEW P, NEW O, NEW Q, NEW G, Leads(l, y, t, P, Q), O \subseteq P, Q \subseteq G
  PROVE  Leads(l, y, t, O, G)
BY DEF Leads

\* Views by what they show.
LEMMA SeenAre == ASSUME NEW S, NEW M, NEW T, NEW D PROVE Seen(S, M, T, D) \in SUBSET Views
BY DEF Seen

\* A step before a list.
LEMMA LeadsMore ==
  ASSUME NEW l, NEW y, NEW A, NEW s \in A, NEW t \in Seq(A),
         NEW P \in SUBSET Views, NEW Q \in SUBSET Views, NEW G,
         Goes(l, y, s, P, Q), Leads(l, y, t, Q, G)
  PROVE  Leads(l, y, <<s>> \o t, P, G)
<1>1. <<s>> \in Seq(A)
  OBVIOUS
<1>2. QED BY <1>1, LeadsOne, LeadsOn

\* Steps that do not concern this end.
LEMMA NamesDiffer ==
  /\ \A l \in Links : Own[l] \in {"0xc0", "0xc4"} /\ Alias[l] \in {"0x36", "0x38"}
  /\ Links = {"linkA", "linkB"} /\ Own["linkA"] = "0xc0" /\ Own["linkB"] = "0xc4"
  /\ Alias["linkA"] = "0x36" /\ Alias["linkB"] = "0x38"
BY DEF Links, Own, Alias

\* An i2cdetect changes nothing.
LEMMA DetectGoes ==
  ASSUME NEW l \in Links, NEW y, NEW S, NEW M, NEW T, NEW D
  PROVE  LET P == Seen(S, M, T, D) IN Goes(l, y, Detect, P, P)
<1>1. LET s == Detect IN s.op = "detect" /\ s.reg = "" /\ s.dev = ""
  BY DEF Detect, Step
<1>2. Detect # Move(Own[l]) /\ Detect # Reset(Own[l])
  BY DEF Detect, Move, Reset, Element, Step
<1>3. QED BY <1>1, <1>2 DEF Goes, Seen, Views, Safe, Becomes, Selecting

\* A setting finds a serializer that has been moved and is selected.
LEMMA SetGoes ==
  ASSUME NEW l \in Links, NEW y, NEW S, NEW M, NEW T, NEW D, NEW d \in {"0x90", "0xc0", "0xc4"},
         d = Own[l] => M = {TRUE} /\ \A v \in S : l \in v
  PROVE  LET P == Seen(S, M, T, D) IN Goes(l, y, Set(d), P, P)
<1>1. LET s == Set(d) IN s.op = "element" /\ s.reg = "set" /\ s.dev = d
  BY DEF Set, Element, Step
<1>2. Set(d) # Move(Own[l]) /\ Set(d) # Reset(Own[l])
  BY DEF Set, Move, Reset, Element, Step
<1>3. QED BY <1>1, <1>2 DEF Goes, Seen, Views, Safe, Becomes, Selecting, Devices

\* A register of a serializer that has not been moved.
LEMMA EarlyGoes ==
  ASSUME NEW l \in Links, NEW y, NEW x, NEW M, NEW T, NEW D,
         l \in x => x = {l} /\ M = {FALSE}
  PROVE  LET P == Seen({x}, M, T, D) IN Goes(l, y, Set("0x80"), P, P)
<1>1. LET s == Set("0x80") IN s.op = "element" /\ s.reg = "set" /\ s.dev = "0x80"
  BY DEF Set, Element, Step
<1>2. Set("0x80") # Move(Own[l]) /\ Set("0x80") # Reset(Own[l]) /\ "0x80" # Own[l]
  BY NamesDiffer DEF Set, Move, Reset, Element, Step
<1>3. QED BY <1>1, <1>2 DEF Goes, Seen, Views, Safe, Becomes, Selecting, Devices

\* A selection selects its links.
LEMMA SelectGoes ==
  ASSUME NEW l \in Links, NEW y, NEW S, NEW M, NEW T, NEW D, NEW x \in {"a", "b", "ab"}
  PROVE  Goes(l, y, Select(x), Seen(S, M, T, D), Seen({Chosen[x]}, M, T, D))
<1>1. LET s == Select(x) IN s.op = "element" /\ s.reg = "select" /\ s.dev = "0x90" /\ s.as = x
  BY DEF Select, Element, Step
<1>2. Select(x) # Move(Own[l]) /\ Select(x) # Reset(Own[l]) /\ "0x90" # Own[l]
  BY NamesDiffer DEF Select, Move, Reset, Element, Step
<1>3. QED BY <1>1, <1>2 DEF Goes, Seen, Views, Safe, Becomes, Selecting, Devices

\* A deserializer that was reset selects any links.
LEMMA RestartGoes ==
  ASSUME NEW l \in Links, NEW y, NEW S, NEW M, NEW T, NEW D
  PROVE  Goes(l, y, Reset("0x90"), Seen(S, M, T, D), Seen(SUBSET Links, M, T, D))
<1>1. LET s == Reset("0x90") IN s.op = "element" /\ s.reg = "reset" /\ s.dev = "0x90"
  BY DEF Reset, Element, Step
<1>2. Reset("0x90") # Move(Own[l]) /\ Reset("0x90") # Reset(Own[l]) /\ "0x90" # Own[l]
  BY NamesDiffer DEF Move, Reset, Element, Step
<1>3. QED BY <1>1, <1>2 DEF Goes, Seen, Views, Safe, Becomes, Selecting, Devices

\* A serializer that is reset, if its link is selected, is back where it was.
LEMMA ResetGoes ==
  ASSUME NEW l \in Links, NEW y, NEW S, NEW M \in SUBSET BOOLEAN, NEW T, NEW D
  PROVE  /\ Goes(l, y, Reset(Own[l]), Seen(S, M, T, D), Seen(S, BOOLEAN, BOOLEAN, D))
         /\ (\A v \in S : l \in v) =>
                Goes(l, y, Reset(Own[l]), Seen(S, M, T, D), Seen(S, {FALSE}, BOOLEAN, D))
<1> DEFINE s == Reset(Own[l])
<1>1. /\ s.op = "element" /\ s.reg = "reset" /\ s.dev = Own[l]
      /\ Own[l] \in Devices /\ Own[l] # "0x80" /\ Own[l] # "0x90"
  BY NamesDiffer DEF Reset, Element, Step, Devices
<1>2. s # Move(Own[l])
  BY DEF Move, Reset, Element, Step
<1>3. s = Reset(Own[l])
  OBVIOUS
<1> HIDE DEF s
<1>4. Goes(l, y, s, Seen(S, M, T, D), Seen(S, BOOLEAN, BOOLEAN, D))
  BY <1>1, <1>2, <1>3 DEF Goes, Seen, Views, Safe, Becomes, Selecting
<1>5. ASSUME \A v \in S : l \in v
      PROVE  Goes(l, y, s, Seen(S, M, T, D), Seen(S, {FALSE}, BOOLEAN, D))
  BY <1>1, <1>2, <1>3, <1>5 DEF Goes, Seen, Views, Safe, Becomes, Selecting
<1>6. QED BY <1>4, <1>5 DEF s

\* A serializer that is selected is moved to its own address.
LEMMA MoveGoes ==
  ASSUME NEW l \in Links, NEW y, NEW S, NEW M, NEW T, NEW D, \A v \in S : l \in v
  PROVE  Goes(l, y, Move(Own[l]), Seen(S, M, T, D), Seen(S, {TRUE}, T, D))
<1> DEFINE s == Move(Own[l])
<1>1. s.op = "element" /\ s.reg = "move" /\ s.dev = "0x80" /\ "0x80" \in Devices /\ "0x80" # Own[l]
  BY NamesDiffer DEF Move, Element, Step, Devices
<1>2. s # Reset(Own[l])
  BY DEF Move, Reset, Element, Step
<1>3. s = Move(Own[l])
  OBVIOUS
<1> HIDE DEF s
<1>4. Goes(l, y, s, Seen(S, M, T, D), Seen(S, {TRUE}, T, D))
  BY <1>1, <1>2, <1>3 DEF Goes, Seen, Views, Safe, Becomes, Selecting
<1>5. QED BY <1>4 DEF s

\* Whether sensors translated to an address answer where their table goes.
Same(to, y) == {to = y}

\* A serializer translates the address of its sensor.
LEMMA TranslateGoes ==
  ASSUME NEW l \in Links, NEW y, NEW to, NEW S, NEW T, NEW D, \A v \in S : l \in v
  PROVE  Goes(l, y, Translate(Own[l], to), Seen(S, {TRUE}, T, D), Seen(S, {TRUE}, Same(to, y), D))
<1> DEFINE s == Translate(Own[l], to)
<1>1. /\ s.op = "element" /\ s.reg = "translate" /\ s.dev = Own[l] /\ s.as = to
      /\ Own[l] \in Devices /\ Own[l] # "0x80" /\ Own[l] # "0x90"
  BY NamesDiffer DEF Translate, Element, Step, Devices
<1>2. s # Reset(Own[l]) /\ s # Move(Own[l])
  BY DEF Translate, Move, Reset, Element, Step
<1> HIDE DEF s
<1>3. Goes(l, y, s, Seen(S, {TRUE}, T, D), Seen(S, {TRUE}, Same(to, y), D))
  BY <1>1, <1>2 DEF Goes, Seen, Views, Safe, Becomes, Selecting, Same
<1>4. QED BY <1>3 DEF s

\* The same of the other link's serializer, which leaves this end alone.
LEMMA OthersGo ==
  ASSUME NEW l \in Links, NEW m \in Links, m # l, NEW y, NEW to, NEW S, NEW M, NEW T, NEW D
  PROVE  LET P == Seen(S, M, T, D) IN
         /\ Goes(l, y, Reset(Own[m]), P, P) /\ Goes(l, y, Translate(Own[m], to), P, P)
         /\ (\A v \in S : l \notin v) => Goes(l, y, Move(Own[m]), P, P)
<1> DEFINE r == Reset(Own[m]) t == Translate(Own[m], to) s == Move(Own[m])
<1>1. /\ r.op = "element" /\ r.reg = "reset" /\ r.dev = Own[m]
      /\ t.op = "element" /\ t.reg = "translate" /\ t.dev = Own[m]
      /\ s.op = "element" /\ s.reg = "move" /\ s.dev = "0x80" /\ s.as = Own[m]
      /\ Own[m] \in Devices /\ "0x80" \in Devices
      /\ Own[m] # "0x80" /\ Own[m] # "0x90" /\ Own[m] # Own[l] /\ "0x80" # Own[l]
  BY NamesDiffer DEF Reset, Translate, Move, Element, Step, Devices
<1>2. /\ LET a == Reset(Own[l]) IN a.dev = Own[l] /\ a.reg = "reset"
      /\ LET a == Move(Own[l]) IN a.as = Own[l] /\ a.reg = "move"
  BY DEF Reset, Move, Element, Step
<1>3. {r, t, s} \cap {Reset(Own[l]), Move(Own[l])} = {}
  BY <1>1, <1>2
<1> HIDE DEF r, t, s
<1>4. Goes(l, y, r, Seen(S, M, T, D), Seen(S, M, T, D))
  BY <1>1, <1>3 DEF Goes, Seen, Views, Safe, Becomes, Selecting
<1>5. Goes(l, y, t, Seen(S, M, T, D), Seen(S, M, T, D))
  BY <1>1, <1>3 DEF Goes, Seen, Views, Safe, Becomes, Selecting
<1>6. (\A v \in S : l \notin v) => Goes(l, y, s, Seen(S, M, T, D), Seen(S, M, T, D))
  BY <1>1, <1>3 DEF Goes, Seen, Views, Safe, Becomes, Selecting
<1>7. QED BY <1>4, <1>5, <1>6 DEF r, t, s

\* A sensor's table reaches the sensors that answer at its address.
LEMMA SensorGoes ==
  ASSUME NEW l \in Links, NEW y, NEW d, NEW S, NEW M, NEW T, NEW D, D = BOOLEAN \/ D = {TRUE}
  PROVE  LET s == Step("sensor", d, "", "") IN
         /\ Goes(l, y, s, Seen(S, M, T, D), Seen(S, M, T, D))
         /\ (\A v \in S : l \in v) /\ d = y =>
                Goes(l, y, s, Seen(S, M, T, D), Seen(S, M, T, {TRUE}))
         /\ (\A v \in S : l \in v) /\ d = Alias[l] /\ T = {TRUE} =>
                Goes(l, y, s, Seen(S, M, T, D), Seen(S, M, T, {TRUE}))
<1> DEFINE s == Step("sensor", d, "", "")
<1>1. s.op = "sensor" /\ s.reg = "" /\ s.dev = d
  BY DEF Step
<1>2. s # Reset(Own[l]) /\ s # Move(Own[l])
  BY DEF Move, Reset, Element, Step
<1> HIDE DEF s
<1>3. Goes(l, y, s, Seen(S, M, T, D), Seen(S, M, T, D))
  BY <1>1, <1>2 DEF Goes, Seen, Views, Safe, Becomes, Selecting
<1>4. ASSUME \A v \in S : l \in v, d = y
      PROVE  Goes(l, y, s, Seen(S, M, T, D), Seen(S, M, T, {TRUE}))
  BY <1>1, <1>2, <1>4 DEF Goes, Seen, Views, Safe, Becomes, Selecting
<1>5. ASSUME \A v \in S : l \in v, d = Alias[l] /\ T = {TRUE}
      PROVE  Goes(l, y, s, Seen(S, M, T, D), Seen(S, M, T, {TRUE}))
  BY <1>1, <1>2, <1>5 DEF Goes, Seen, Views, Safe, Becomes, Selecting
<1>6. QED BY <1>3, <1>4, <1>5 DEF s

\* A probe finds the serializer, and the decision after it changes nothing.
LEMMA ProbeGoes ==
  ASSUME NEW l \in Links, NEW m \in Links, NEW y, NEW S, NEW M, NEW T, NEW D,
         m = l => M = {TRUE} /\ \A v \in S : l \in v
  PROVE  LET s == Step("probe", Own[m], "", "") P == Seen(S, M, T, D) IN
         Goes(l, y, s, P, P) /\ Goes(l, y, Decide(m), P, P)
<1> DEFINE s == Step("probe", Own[m], "", "") d == Decide(m)
<1>1. /\ s.op = "probe" /\ s.reg = "" /\ s.dev = Own[m]
      /\ d.op = m /\ d.reg = "" /\ d.dev = "" /\ d.op \notin {"element", "probe", "sensor"}
  BY NamesDiffer DEF Step, Decide
<1>2. s # Reset(Own[l]) /\ s # Move(Own[l]) /\ d # Reset(Own[l]) /\ d # Move(Own[l])
  <2>1. LET r == Reset(Own[l]) IN r.reg = "reset"
    BY DEF Reset, Element, Step
  <2>2. LET r == Move(Own[l]) IN r.reg = "move"
    BY DEF Move, Element, Step
  <2>3. QED BY <1>1, <2>1, <2>2
<1> HIDE DEF s, d
<1>3. m # l => Own[m] # Own[l]
  BY NamesDiffer
<1>4. Goes(l, y, s, Seen(S, M, T, D), Seen(S, M, T, D))
  BY <1>1, <1>2, <1>3 DEF Goes, Seen, Views, Safe, Becomes, Selecting
<1>5. Goes(l, y, d, Seen(S, M, T, D), Seen(S, M, T, D))
  BY <1>1, <1>2, <1>3 DEF Goes, Seen, Views, Safe, Becomes, Selecting
<1>6. QED BY <1>4, <1>5 DEF s, d

\* A list of 1 step.
LEMMA Leads1 ==
  ASSUME NEW l, NEW y, NEW A, NEW s1 \in A,
         NEW P0 \in SUBSET Views, NEW P1 \in SUBSET Views,
         Goes(l, y, s1, P0, P1)
  PROVE  Leads(l, y, <<s1>>, P0, P1)
BY LeadsOne

\* A list of 2 steps.
LEMMA Leads2 ==
  ASSUME NEW l, NEW y, NEW A, NEW s1 \in A, NEW s2 \in A,
         NEW P0 \in SUBSET Views, NEW P1 \in SUBSET Views, NEW P2 \in SUBSET Views,
         Goes(l, y, s1, P0, P1), Goes(l, y, s2, P1, P2)
  PROVE  Leads(l, y, <<s1, s2>>, P0, P2)
<1> DEFINE f == [k \in 1 .. 3 |-> IF k = 1 THEN P0 ELSE IF k = 2 THEN P1 ELSE P2] t == <<s1, s2>>
<1>1. Len(t) = 2 /\ t[1] = s1 /\ t[2] = s2
  OBVIOUS
<1>2. f \in [1 .. Len(t) + 1 -> SUBSET Views] /\ f[1] = P0 /\ f[2] = P1 /\ f[3] = P2
  BY <1>1
<1> HIDE DEF f, t
<1>3. \A k \in 1 .. Len(t) : (k = 1 /\ k + 1 = 2) \/ (k = 2 /\ k + 1 = 3)
  BY <1>1
<1>4. \A k \in 1 .. Len(t) : Goes(l, y, t[k], f[k], f[k + 1])
  BY <1>1, <1>2, <1>3
<1>5. P0 \subseteq f[1] /\ f[Len(t) + 1] \subseteq P2
  BY <1>1, <1>2
<1>6. Leads(l, y, t, P0, P2)
  BY <1>2, <1>4, <1>5 DEF Leads
<1>7. QED BY <1>6 DEF t

\* A list of 3 steps.
LEMMA Leads3 ==
  ASSUME NEW l, NEW y, NEW A, NEW s1 \in A, NEW s2 \in A, NEW s3 \in A,
         NEW P0 \in SUBSET Views, NEW P1 \in SUBSET Views, NEW P2 \in SUBSET Views, NEW P3 \in SUBSET Views,
         Goes(l, y, s1, P0, P1), Goes(l, y, s2, P1, P2), Goes(l, y, s3, P2, P3)
  PROVE  Leads(l, y, <<s1, s2, s3>>, P0, P3)
<1>1. <<s2, s3>> \in Seq(A)
  OBVIOUS
<1>2. <<s1, s2, s3>> = <<s1>> \o <<s2, s3>>
  OBVIOUS
<1>3. Leads(l, y, <<s2, s3>>, P1, P3)
  BY Leads2
<1>4. Leads(l, y, <<s1>> \o <<s2, s3>>, P0, P3)
  BY <1>1, <1>3, LeadsMore
<1>5. QED BY <1>2, <1>4

\* A list of 4 steps.
LEMMA Leads4 ==
  ASSUME NEW l, NEW y, NEW A, NEW s1 \in A, NEW s2 \in A, NEW s3 \in A, NEW s4 \in A,
         NEW P0 \in SUBSET Views, NEW P1 \in SUBSET Views, NEW P2 \in SUBSET Views, NEW P3 \in SUBSET Views, NEW P4 \in SUBSET Views,
         Goes(l, y, s1, P0, P1), Goes(l, y, s2, P1, P2), Goes(l, y, s3, P2, P3), Goes(l, y, s4, P3, P4)
  PROVE  Leads(l, y, <<s1, s2, s3, s4>>, P0, P4)
<1>1. <<s2, s3, s4>> \in Seq(A)
  OBVIOUS
<1>2. <<s1, s2, s3, s4>> = <<s1>> \o <<s2, s3, s4>>
  OBVIOUS
<1>3. Leads(l, y, <<s2, s3, s4>>, P1, P4)
  BY Leads3
<1>4. Leads(l, y, <<s1>> \o <<s2, s3, s4>>, P0, P4)
  BY <1>1, <1>3, LeadsMore
<1>5. QED BY <1>2, <1>4

\* A list of 5 steps.
LEMMA Leads5 ==
  ASSUME NEW l, NEW y, NEW A, NEW s1 \in A, NEW s2 \in A, NEW s3 \in A, NEW s4 \in A, NEW s5 \in A,
         NEW P0 \in SUBSET Views, NEW P1 \in SUBSET Views, NEW P2 \in SUBSET Views, NEW P3 \in SUBSET Views, NEW P4 \in SUBSET Views, NEW P5 \in SUBSET Views,
         Goes(l, y, s1, P0, P1), Goes(l, y, s2, P1, P2), Goes(l, y, s3, P2, P3), Goes(l, y, s4, P3, P4), Goes(l, y, s5, P4, P5)
  PROVE  Leads(l, y, <<s1, s2, s3, s4, s5>>, P0, P5)
<1>1. <<s2, s3, s4, s5>> \in Seq(A)
  OBVIOUS
<1>2. <<s1, s2, s3, s4, s5>> = <<s1>> \o <<s2, s3, s4, s5>>
  OBVIOUS
<1>3. Leads(l, y, <<s2, s3, s4, s5>>, P1, P5)
  BY Leads4
<1>4. Leads(l, y, <<s1>> \o <<s2, s3, s4, s5>>, P0, P5)
  BY <1>1, <1>3, LeadsMore
<1>5. QED BY <1>2, <1>4

\* A list of 6 steps.
LEMMA Leads6 ==
  ASSUME NEW l, NEW y, NEW A, NEW s1 \in A, NEW s2 \in A, NEW s3 \in A, NEW s4 \in A, NEW s5 \in A, NEW s6 \in A,
         NEW P0 \in SUBSET Views, NEW P1 \in SUBSET Views, NEW P2 \in SUBSET Views, NEW P3 \in SUBSET Views, NEW P4 \in SUBSET Views, NEW P5 \in SUBSET Views, NEW P6 \in SUBSET Views,
         Goes(l, y, s1, P0, P1), Goes(l, y, s2, P1, P2), Goes(l, y, s3, P2, P3), Goes(l, y, s4, P3, P4), Goes(l, y, s5, P4, P5), Goes(l, y, s6, P5, P6)
  PROVE  Leads(l, y, <<s1, s2, s3, s4, s5, s6>>, P0, P6)
<1>1. <<s2, s3, s4, s5, s6>> \in Seq(A)
  OBVIOUS
<1>2. <<s1, s2, s3, s4, s5, s6>> = <<s1>> \o <<s2, s3, s4, s5, s6>>
  OBVIOUS
<1>3. Leads(l, y, <<s2, s3, s4, s5, s6>>, P1, P6)
  BY Leads5
<1>4. Leads(l, y, <<s1>> \o <<s2, s3, s4, s5, s6>>, P0, P6)
  BY <1>1, <1>3, LeadsMore
<1>5. QED BY <1>2, <1>4

\* A list of 7 steps.
LEMMA Leads7 ==
  ASSUME NEW l, NEW y, NEW A, NEW s1 \in A, NEW s2 \in A, NEW s3 \in A, NEW s4 \in A, NEW s5 \in A, NEW s6 \in A, NEW s7 \in A,
         NEW P0 \in SUBSET Views, NEW P1 \in SUBSET Views, NEW P2 \in SUBSET Views, NEW P3 \in SUBSET Views, NEW P4 \in SUBSET Views, NEW P5 \in SUBSET Views, NEW P6 \in SUBSET Views, NEW P7 \in SUBSET Views,
         Goes(l, y, s1, P0, P1), Goes(l, y, s2, P1, P2), Goes(l, y, s3, P2, P3), Goes(l, y, s4, P3, P4), Goes(l, y, s5, P4, P5), Goes(l, y, s6, P5, P6), Goes(l, y, s7, P6, P7)
  PROVE  Leads(l, y, <<s1, s2, s3, s4, s5, s6, s7>>, P0, P7)
<1>1. <<s2, s3, s4, s5, s6, s7>> \in Seq(A)
  OBVIOUS
<1>2. <<s1, s2, s3, s4, s5, s6, s7>> = <<s1>> \o <<s2, s3, s4, s5, s6, s7>>
  OBVIOUS
<1>3. Leads(l, y, <<s2, s3, s4, s5, s6, s7>>, P1, P7)
  BY Leads6
<1>4. Leads(l, y, <<s1>> \o <<s2, s3, s4, s5, s6, s7>>, P0, P7)
  BY <1>1, <1>3, LeadsMore
<1>5. QED BY <1>2, <1>4

\* A list of 8 steps.
LEMMA Leads8 ==
  ASSUME NEW l, NEW y, NEW A, NEW s1 \in A, NEW s2 \in A, NEW s3 \in A, NEW s4 \in A, NEW s5 \in A, NEW s6 \in A, NEW s7 \in A, NEW s8 \in A,
         NEW P0 \in SUBSET Views, NEW P1 \in SUBSET Views, NEW P2 \in SUBSET Views, NEW P3 \in SUBSET Views, NEW P4 \in SUBSET Views, NEW P5 \in SUBSET Views, NEW P6 \in SUBSET Views, NEW P7 \in SUBSET Views, NEW P8 \in SUBSET Views,
         Goes(l, y, s1, P0, P1), Goes(l, y, s2, P1, P2), Goes(l, y, s3, P2, P3), Goes(l, y, s4, P3, P4), Goes(l, y, s5, P4, P5), Goes(l, y, s6, P5, P6), Goes(l, y, s7, P6, P7), Goes(l, y, s8, P7, P8)
  PROVE  Leads(l, y, <<s1, s2, s3, s4, s5, s6, s7, s8>>, P0, P8)
<1>1. <<s2, s3, s4, s5, s6, s7, s8>> \in Seq(A)
  OBVIOUS
<1>2. <<s1, s2, s3, s4, s5, s6, s7, s8>> = <<s1>> \o <<s2, s3, s4, s5, s6, s7, s8>>
  OBVIOUS
<1>3. Leads(l, y, <<s2, s3, s4, s5, s6, s7, s8>>, P1, P8)
  BY Leads7
<1>4. Leads(l, y, <<s1>> \o <<s2, s3, s4, s5, s6, s7, s8>>, P0, P8)
  BY <1>1, <1>3, LeadsMore
<1>5. QED BY <1>2, <1>4

\* A list of 9 steps.
LEMMA Leads9 ==
  ASSUME NEW l, NEW y, NEW A, NEW s1 \in A, NEW s2 \in A, NEW s3 \in A, NEW s4 \in A, NEW s5 \in A, NEW s6 \in A, NEW s7 \in A, NEW s8 \in A, NEW s9 \in A,
         NEW P0 \in SUBSET Views, NEW P1 \in SUBSET Views, NEW P2 \in SUBSET Views, NEW P3 \in SUBSET Views, NEW P4 \in SUBSET Views, NEW P5 \in SUBSET Views, NEW P6 \in SUBSET Views, NEW P7 \in SUBSET Views, NEW P8 \in SUBSET Views, NEW P9 \in SUBSET Views,
         Goes(l, y, s1, P0, P1), Goes(l, y, s2, P1, P2), Goes(l, y, s3, P2, P3), Goes(l, y, s4, P3, P4), Goes(l, y, s5, P4, P5), Goes(l, y, s6, P5, P6), Goes(l, y, s7, P6, P7), Goes(l, y, s8, P7, P8), Goes(l, y, s9, P8, P9)
  PROVE  Leads(l, y, <<s1, s2, s3, s4, s5, s6, s7, s8, s9>>, P0, P9)
<1>1. <<s2, s3, s4, s5, s6, s7, s8, s9>> \in Seq(A)
  OBVIOUS
<1>2. <<s1, s2, s3, s4, s5, s6, s7, s8, s9>> = <<s1>> \o <<s2, s3, s4, s5, s6, s7, s8, s9>>
  OBVIOUS
<1>3. Leads(l, y, <<s2, s3, s4, s5, s6, s7, s8, s9>>, P1, P9)
  BY Leads8
<1>4. Leads(l, y, <<s1>> \o <<s2, s3, s4, s5, s6, s7, s8, s9>>, P0, P9)
  BY <1>1, <1>3, LeadsMore
<1>5. QED BY <1>2, <1>4

\* A list of 10 steps.
LEMMA Leads10 ==
  ASSUME NEW l, NEW y, NEW A, NEW s1 \in A, NEW s2 \in A, NEW s3 \in A, NEW s4 \in A, NEW s5 \in A, NEW s6 \in A, NEW s7 \in A, NEW s8 \in A, NEW s9 \in A, NEW s10 \in A,
         NEW P0 \in SUBSET Views, NEW P1 \in SUBSET Views, NEW P2 \in SUBSET Views, NEW P3 \in SUBSET Views, NEW P4 \in SUBSET Views, NEW P5 \in SUBSET Views, NEW P6 \in SUBSET Views, NEW P7 \in SUBSET Views, NEW P8 \in SUBSET Views, NEW P9 \in SUBSET Views, NEW P10 \in SUBSET Views,
         Goes(l, y, s1, P0, P1), Goes(l, y, s2, P1, P2), Goes(l, y, s3, P2, P3), Goes(l, y, s4, P3, P4), Goes(l, y, s5, P4, P5), Goes(l, y, s6, P5, P6), Goes(l, y, s7, P6, P7), Goes(l, y, s8, P7, P8), Goes(l, y, s9, P8, P9), Goes(l, y, s10, P9, P10)
  PROVE  Leads(l, y, <<s1, s2, s3, s4, s5, s6, s7, s8, s9, s10>>, P0, P10)
<1>1. <<s2, s3, s4, s5, s6, s7, s8, s9, s10>> \in Seq(A)
  OBVIOUS
<1>2. <<s1, s2, s3, s4, s5, s6, s7, s8, s9, s10>> = <<s1>> \o <<s2, s3, s4, s5, s6, s7, s8, s9, s10>>
  OBVIOUS
<1>3. Leads(l, y, <<s2, s3, s4, s5, s6, s7, s8, s9, s10>>, P1, P10)
  BY Leads9
<1>4. Leads(l, y, <<s1>> \o <<s2, s3, s4, s5, s6, s7, s8, s9, s10>>, P0, P10)
  BY <1>1, <1>3, LeadsMore
<1>5. QED BY <1>2, <1>4

\* A list of 11 steps.
LEMMA Leads11 ==
  ASSUME NEW l, NEW y, NEW A, NEW s1 \in A, NEW s2 \in A, NEW s3 \in A, NEW s4 \in A, NEW s5 \in A, NEW s6 \in A, NEW s7 \in A, NEW s8 \in A, NEW s9 \in A, NEW s10 \in A, NEW s11 \in A,
         NEW P0 \in SUBSET Views, NEW P1 \in SUBSET Views, NEW P2 \in SUBSET Views, NEW P3 \in SUBSET Views, NEW P4 \in SUBSET Views, NEW P5 \in SUBSET Views, NEW P6 \in SUBSET Views, NEW P7 \in SUBSET Views, NEW P8 \in SUBSET Views, NEW P9 \in SUBSET Views, NEW P10 \in SUBSET Views, NEW P11 \in SUBSET Views,
         Goes(l, y, s1, P0, P1), Goes(l, y, s2, P1, P2), Goes(l, y, s3, P2, P3), Goes(l, y, s4, P3, P4), Goes(l, y, s5, P4, P5), Goes(l, y, s6, P5, P6), Goes(l, y, s7, P6, P7), Goes(l, y, s8, P7, P8), Goes(l, y, s9, P8, P9), Goes(l, y, s10, P9, P10), Goes(l, y, s11, P10, P11)
  PROVE  Leads(l, y, <<s1, s2, s3, s4, s5, s6, s7, s8, s9, s10, s11>>, P0, P11)
<1>1. <<s2, s3, s4, s5, s6, s7, s8, s9, s10, s11>> \in Seq(A)
  OBVIOUS
<1>2. <<s1, s2, s3, s4, s5, s6, s7, s8, s9, s10, s11>> = <<s1>> \o <<s2, s3, s4, s5, s6, s7, s8, s9, s10, s11>>
  OBVIOUS
<1>3. Leads(l, y, <<s2, s3, s4, s5, s6, s7, s8, s9, s10, s11>>, P1, P11)
  BY Leads10
<1>4. Leads(l, y, <<s1>> \o <<s2, s3, s4, s5, s6, s7, s8, s9, s10, s11>>, P0, P11)
  BY <1>1, <1>3, LeadsMore
<1>5. QED BY <1>2, <1>4

Now(S, M) == Seen(S, M, BOOLEAN, BOOLEAN)

Takes(l, y, t, P, Q) ==
    Chunk(t) /\ P \in SUBSET Views /\ Q \in SUBSET Views /\ Leads(l, y, t, P, Q)

\* The tables, as the ends of the two links see them.
\*
\* max9296_two9295_linka at the end of link A.
LEMMA two9295_linka_A ==
  ASSUME NEW y
  PROVE  Takes("linkA", y, max9296_two9295_linka,
               Now(SUBSET Links, {FALSE}), Now({{"linkA"}}, {TRUE}))
<1> DEFINE l == "linkA"
           P == Now(SUBSET Links, {FALSE})
           Q == Now({{"linkA"}}, {FALSE})
           G == Now({{"linkA"}}, {TRUE})
<1>1. /\ Goes(l, y, Reset("0x90"), P, P) /\ Goes(l, y, Set("0x90"), P, P)
      /\ Goes(l, y, Select("a"), P, Q) /\ Goes(l, y, Set("0x90"), Q, Q)
      /\ Goes(l, y, Move("0xc0"), Q, G) /\ Goes(l, y, Set("0xc0"), G, G)
  BY MoveGoes, OwnIs, RestartGoes, SelectGoes, SetGoes DEF Now
<1>2. {P, Q, G} \subseteq SUBSET Views
  BY SeenAre DEF Now
<1> HIDE DEF P, Q, G, l
<1>3. Leads(l, y, max9296_two9295_linka, P, G)
  BY <1>1, <1>2, ElementsFit, Leads6 DEF max9296_two9295_linka
<1>4. QED BY <1>2, <1>3, max9296_two9295_linka_Fits DEF Takes, P, G, l

\* max9296_two9295_linka at the end of link B.
LEMMA two9295_linka_B ==
  ASSUME NEW y
  PROVE  Takes("linkB", y, max9296_two9295_linka,
               Now(SUBSET Links, {FALSE}), Now({{"linkA"}}, {FALSE}))
<1> DEFINE l == "linkB"
           P == Now(SUBSET Links, {FALSE})
           Q == Now({{"linkA"}}, {FALSE})
<1>1. /\ Goes(l, y, Reset("0x90"), P, P) /\ Goes(l, y, Set("0x90"), P, P)
      /\ Goes(l, y, Select("a"), P, Q) /\ Goes(l, y, Set("0x90"), Q, Q)
      /\ Goes(l, y, Move("0xc0"), Q, Q) /\ Goes(l, y, Set("0xc0"), Q, Q)
  BY OthersGo, OwnIs, RestartGoes, SelectGoes, SetGoes DEF Now
<1>2. {P, Q} \subseteq SUBSET Views
  BY SeenAre DEF Now
<1> HIDE DEF P, Q, l
<1>3. Leads(l, y, max9296_two9295_linka, P, Q)
  BY <1>1, <1>2, ElementsFit, Leads6 DEF max9296_two9295_linka
<1>4. QED BY <1>2, <1>3, max9296_two9295_linka_Fits DEF Takes, P, Q, l

\* max9296_two9295_linka_1 at the end of link A.
LEMMA two9295_linka_1_A ==
  ASSUME NEW y
  PROVE  Takes("linkA", y, max9296_two9295_linka_1,
               Now({{"linkA"}}, {TRUE}), Seen({{"linkB"}}, {TRUE}, Same("0x34", y), BOOLEAN))
<1> DEFINE l == "linkA"
           P == Now({{"linkA"}}, {TRUE})
           Q == Seen({{"linkA"}}, {TRUE}, Same("0x34", y), BOOLEAN)
           G == Seen({Links}, {TRUE}, Same("0x34", y), BOOLEAN)
           U == Seen({{"linkB"}}, {TRUE}, Same("0x34", y), BOOLEAN)
<1>1. /\ Goes(l, y, Set("0xc0"), P, P) /\ Goes(l, y, Translate("0xc0", "0x34"), P, Q)
      /\ Goes(l, y, Set("0xc0"), Q, Q) /\ Goes(l, y, Select("ab"), Q, G)
      /\ Goes(l, y, Select("b"), G, U) /\ Goes(l, y, Set("0x90"), U, U)
      /\ Goes(l, y, Move("0xc4"), U, U) /\ Goes(l, y, Set("0xc4"), U, U)
  BY OthersGo, OwnIs, SelectGoes, SetGoes, TranslateGoes DEF Now
<1>2. {P, Q, G, U} \subseteq SUBSET Views
  BY SeenAre DEF Now
<1> HIDE DEF P, Q, G, U, l
<1>3. Leads(l, y, max9296_two9295_linka_1, P, U)
  BY <1>1, <1>2, ElementsFit, Leads8 DEF max9296_two9295_linka_1
<1>4. QED BY <1>2, <1>3, max9296_two9295_linka_1_Fits DEF Takes, P, U, l

\* max9296_two9295_linka_1 at the end of link B.
LEMMA two9295_linka_1_B ==
  ASSUME NEW y
  PROVE  Takes("linkB", y, max9296_two9295_linka_1,
               Now({{"linkA"}}, {FALSE}), Now({{"linkB"}}, {TRUE}))
<1> DEFINE l == "linkB"
           P == Now({{"linkA"}}, {FALSE})
           Q == Now({Links}, {FALSE})
           G == Now({{"linkB"}}, {FALSE})
           U == Now({{"linkB"}}, {TRUE})
<1>1. /\ Goes(l, y, Set("0xc0"), P, P) /\ Goes(l, y, Translate("0xc0", "0x34"), P, P)
      /\ Goes(l, y, Select("ab"), P, Q) /\ Goes(l, y, Select("b"), Q, G)
      /\ Goes(l, y, Set("0x90"), G, G) /\ Goes(l, y, Move("0xc4"), G, U)
      /\ Goes(l, y, Set("0xc4"), U, U)
  BY MoveGoes, OthersGo, OwnIs, SelectGoes, SetGoes DEF Now
<1>2. {P, Q, G, U} \subseteq SUBSET Views
  BY SeenAre DEF Now
<1> HIDE DEF P, Q, G, U, l
<1>3. Leads(l, y, max9296_two9295_linka_1, P, U)
  BY <1>1, <1>2, ElementsFit, Leads8 DEF max9296_two9295_linka_1
<1>4. QED BY <1>2, <1>3, max9296_two9295_linka_1_Fits DEF Takes, P, U, l

\* max9296_two9295_linka_2 at the end of link A.
LEMMA two9295_linka_2_A ==
  ASSUME NEW y
  PROVE  Takes("linkA", y, max9296_two9295_linka_2,
               Now({{"linkB"}}, {TRUE}), Now({{"linkA"}}, {TRUE}))
<1> DEFINE l == "linkA"
           P == Now({{"linkB"}}, {TRUE})
           Q == Now(SUBSET Links, {TRUE})
           G == Now({{"linkA"}}, {TRUE})
           U == Now({{"linkA"}}, {FALSE})
<1>1. /\ Goes(l, y, Reset("0x90"), P, Q) /\ Goes(l, y, Select("a"), Q, G)
      /\ Goes(l, y, Reset("0xc0"), G, U) /\ Goes(l, y, Move("0xc0"), U, G)
      /\ Goes(l, y, Set("0xc0"), G, G) /\ Goes(l, y, Set("0x90"), G, G)
  BY MoveGoes, OwnIs, ResetGoes, RestartGoes, SelectGoes, SetGoes DEF Now
<1>2. {P, Q, G, U} \subseteq SUBSET Views
  BY SeenAre DEF Now
<1> HIDE DEF P, Q, G, U, l
<1>3. Leads(l, y, max9296_two9295_linka_2, P, G)
  BY <1>1, <1>2, ElementsFit, Leads7 DEF max9296_two9295_linka_2
<1>4. QED BY <1>2, <1>3, max9296_two9295_linka_2_Fits DEF Takes, P, G, l

\* max9296_two9295_linkb at the end of link B.
LEMMA two9295_linkb_B ==
  ASSUME NEW y
  PROVE  Takes("linkB", y, max9296_two9295_linkb,
               Now({{"linkA"}}, {FALSE}), Seen({{"linkB"}}, {TRUE}, Same("0x34", y), BOOLEAN))
<1> DEFINE l == "linkB"
           P == Now({{"linkA"}}, {FALSE})
           Q == Now({{"linkB"}}, {FALSE})
           G == Now({{"linkB"}}, {TRUE})
           U == Seen({{"linkB"}}, {TRUE}, Same("0x34", y), BOOLEAN)
<1>1. /\ Goes(l, y, Select("b"), P, Q) /\ Goes(l, y, Move("0xc4"), Q, G)
      /\ Goes(l, y, Set("0xc4"), G, G) /\ Goes(l, y, Translate("0xc4", "0x34"), G, U)
      /\ Goes(l, y, Set("0xc4"), U, U) /\ Goes(l, y, Set("0x90"), U, U)
  BY MoveGoes, OwnIs, SelectGoes, SetGoes, TranslateGoes DEF Now
<1>2. {P, Q, G, U} \subseteq SUBSET Views
  BY SeenAre DEF Now
<1> HIDE DEF P, Q, G, U, l
<1>3. Leads(l, y, max9296_two9295_linkb, P, U)
  BY <1>1, <1>2, ElementsFit, Leads6 DEF max9296_two9295_linkb
<1>4. QED BY <1>2, <1>3, max9296_two9295_linkb_Fits DEF Takes, P, U, l

\* max9296_two9295_linkab at the end of link A.
LEMMA two9295_linkab_A ==
  ASSUME NEW y
  PROVE  Takes("linkA", y, max9296_two9295_linkab,
               Now({{"linkB"}}, {TRUE}), Now({Links}, {TRUE}))
<1> DEFINE l == "linkA"
           P == Now({{"linkB"}}, {TRUE})
           Q == Now(SUBSET Links, {TRUE})
           G == Now(SUBSET Links, BOOLEAN)
           U == Now({{"linkB"}}, BOOLEAN)
           V == Now({{"linkA"}}, BOOLEAN)
           H == Now({{"linkA"}}, {TRUE})
           X == Now({Links}, {TRUE})
<1>1. /\ Goes(l, y, Reset("0x90"), P, Q) /\ Goes(l, y, Reset("0xc0"), Q, G)
      /\ Goes(l, y, Select("b"), G, U) /\ Goes(l, y, Set("0xc4"), U, U)
      /\ Goes(l, y, Select("a"), U, V) /\ Goes(l, y, Move("0xc0"), V, H)
      /\ Goes(l, y, Set("0xc0"), H, H) /\ Goes(l, y, Select("ab"), H, X)
      /\ Goes(l, y, Set("0x90"), X, X) /\ Goes(l, y, Set("0xc0"), X, X)
      /\ Goes(l, y, Set("0xc4"), X, X)
  BY MoveGoes, OwnIs, ResetGoes, RestartGoes, SelectGoes, SetGoes DEF Now
<1>2. {P, Q, G, U, V, H, X} \subseteq SUBSET Views
  BY SeenAre DEF Now
<1> HIDE DEF P, Q, G, U, V, H, X, l
<1>3. Leads(l, y, max9296_two9295_linkab, P, X)
  BY <1>1, <1>2, ElementsFit, Leads11 DEF max9296_two9295_linkab
<1>4. QED BY <1>2, <1>3, max9296_two9295_linkab_Fits DEF Takes, P, X, l

\* max9296_two9295_linkab at the end of link B.
LEMMA two9295_linkab_B ==
  ASSUME NEW y
  PROVE  Takes("linkB", y, max9296_two9295_linkab,
               Now({{"linkB"}}, {TRUE}), Now({Links}, {TRUE}))
<1> DEFINE l == "linkB"
           P == Now({{"linkB"}}, {TRUE})
           Q == Now(SUBSET Links, {TRUE})
           G == Now({{"linkA"}}, {TRUE})
           U == Now({Links}, {TRUE})
<1>1. /\ Goes(l, y, Reset("0x90"), P, Q) /\ Goes(l, y, Reset("0xc0"), Q, Q)
      /\ Goes(l, y, Select("b"), Q, P) /\ Goes(l, y, Set("0xc4"), P, P)
      /\ Goes(l, y, Select("a"), P, G) /\ Goes(l, y, Move("0xc0"), G, G)
      /\ Goes(l, y, Set("0xc0"), G, G) /\ Goes(l, y, Select("ab"), G, U)
      /\ Goes(l, y, Set("0x90"), U, U) /\ Goes(l, y, Set("0xc0"), U, U)
      /\ Goes(l, y, Set("0xc4"), U, U)
  BY OthersGo, OwnIs, RestartGoes, SelectGoes, SetGoes DEF Now
<1>2. {P, Q, G, U} \subseteq SUBSET Views
  BY SeenAre DEF Now
<1> HIDE DEF P, Q, G, U, l
<1>3. Leads(l, y, max9296_two9295_linkab, P, U)
  BY <1>1, <1>2, ElementsFit, Leads11 DEF max9296_two9295_linkab
<1>4. QED BY <1>2, <1>3, max9296_two9295_linkab_Fits DEF Takes, P, U, l

\* max9296_two96705_linka at the end of link A.
LEMMA two96705_linka_A ==
  ASSUME NEW y
  PROVE  Takes("linkA", y, max9296_two96705_linka,
               Now(SUBSET Links, {FALSE}), Now({{"linkA"}}, {TRUE}))
<1> DEFINE l == "linkA"
           P == Now(SUBSET Links, {FALSE})
           Q == Now({{"linkA"}}, {FALSE})
           G == Now({{"linkA"}}, {TRUE})
<1>1. /\ Goes(l, y, Select("a"), P, Q) /\ Goes(l, y, Move("0xc0"), Q, G)
      /\ Goes(l, y, Move("0xc0"), G, G) /\ Goes(l, y, Set("0xc0"), G, G)
  BY MoveGoes, OwnIs, SelectGoes, SetGoes DEF Now
<1>2. {P, Q, G} \subseteq SUBSET Views
  BY SeenAre DEF Now
<1> HIDE DEF P, Q, G, l
<1>3. Leads(l, y, max9296_two96705_linka, P, G)
  BY <1>1, <1>2, ElementsFit, Leads4 DEF max9296_two96705_linka
<1>4. QED BY <1>2, <1>3, max9296_two96705_linka_Fits DEF Takes, P, G, l

\* max9296_two96705_linka at the end of link B.
LEMMA two96705_linka_B ==
  ASSUME NEW y
  PROVE  Takes("linkB", y, max9296_two96705_linka,
               Now(SUBSET Links, {FALSE}), Now({{"linkA"}}, {FALSE}))
<1> DEFINE l == "linkB"
           P == Now(SUBSET Links, {FALSE})
           Q == Now({{"linkA"}}, {FALSE})
<1>1. /\ Goes(l, y, Select("a"), P, Q) /\ Goes(l, y, Move("0xc0"), Q, Q)
      /\ Goes(l, y, Set("0xc0"), Q, Q)
  BY OthersGo, OwnIs, SelectGoes, SetGoes DEF Now
<1>2. {P, Q} \subseteq SUBSET Views
  BY SeenAre DEF Now
<1> HIDE DEF P, Q, l
<1>3. Leads(l, y, max9296_two96705_linka, P, Q)
  BY <1>1, <1>2, ElementsFit, Leads4 DEF max9296_two96705_linka
<1>4. QED BY <1>2, <1>3, max9296_two96705_linka_Fits DEF Takes, P, Q, l

\* max9296_two96705_linkb at the end of link A.
LEMMA two96705_linkb_A ==
  ASSUME NEW y
  PROVE  Takes("linkA", y, max9296_two96705_linkb,
               Now({{"linkA"}}, {TRUE}), Now({{"linkB"}}, {TRUE}))
<1> DEFINE l == "linkA"
           P == Now({{"linkA"}}, {TRUE})
           Q == Now({{"linkB"}}, {TRUE})
<1>1. /\ Goes(l, y, Select("b"), P, Q) /\ Goes(l, y, Move("0xc4"), Q, Q)
      /\ Goes(l, y, Set("0xc4"), Q, Q)
  BY OthersGo, OwnIs, SelectGoes, SetGoes DEF Now
<1>2. {P, Q} \subseteq SUBSET Views
  BY SeenAre DEF Now
<1> HIDE DEF P, Q, l
<1>3. Leads(l, y, max9296_two96705_linkb, P, Q)
  BY <1>1, <1>2, ElementsFit, Leads3 DEF max9296_two96705_linkb
<1>4. QED BY <1>2, <1>3, max9296_two96705_linkb_Fits DEF Takes, P, Q, l

\* max9296_two96705_linkb at the end of link B.
LEMMA two96705_linkb_B ==
  ASSUME NEW y
  PROVE  Takes("linkB", y, max9296_two96705_linkb,
               Now({{"linkA"}}, {FALSE}), Now({{"linkB"}}, {TRUE}))
<1> DEFINE l == "linkB"
           P == Now({{"linkA"}}, {FALSE})
           Q == Now({{"linkB"}}, {FALSE})
           G == Now({{"linkB"}}, {TRUE})
<1>1. /\ Goes(l, y, Select("b"), P, Q) /\ Goes(l, y, Move("0xc4"), Q, G)
      /\ Goes(l, y, Set("0xc4"), G, G)
  BY MoveGoes, OwnIs, SelectGoes, SetGoes DEF Now
<1>2. {P, Q, G} \subseteq SUBSET Views
  BY SeenAre DEF Now
<1> HIDE DEF P, Q, G, l
<1>3. Leads(l, y, max9296_two96705_linkb, P, G)
  BY <1>1, <1>2, ElementsFit, Leads3 DEF max9296_two96705_linkb
<1>4. QED BY <1>2, <1>3, max9296_two96705_linkb_Fits DEF Takes, P, G, l

\* max9296_two96717f at the end of link A.
LEMMA two96717f_A ==
  ASSUME NEW y
  PROVE  Takes("linkA", y, max9296_two96717f,
               Now(SUBSET Links, {FALSE}), Now({Links}, {FALSE}))
<1> DEFINE l == "linkA"
           P == Now(SUBSET Links, {FALSE})
           Q == Now({Links}, {FALSE})
<1>1. /\ Goes(l, y, Set("0x90"), P, P) /\ Goes(l, y, Select("ab"), P, Q)
  BY OwnIs, SelectGoes, SetGoes DEF Now
<1>2. {P, Q} \subseteq SUBSET Views
  BY SeenAre DEF Now
<1> HIDE DEF P, Q, l
<1>3. Leads(l, y, max9296_two96717f, P, Q)
  BY <1>1, <1>2, ElementsFit, Leads2 DEF max9296_two96717f
<1>4. QED BY <1>2, <1>3, max9296_two96717f_Fits DEF Takes, P, Q, l

\* max9296_two96717f at the end of link B.
LEMMA two96717f_B ==
  ASSUME NEW y
  PROVE  Takes("linkB", y, max9296_two96717f,
               Now(SUBSET Links, {FALSE}), Now({Links}, {FALSE}))
<1> DEFINE l == "linkB"
           P == Now(SUBSET Links, {FALSE})
           Q == Now({Links}, {FALSE})
<1>1. /\ Goes(l, y, Set("0x90"), P, P) /\ Goes(l, y, Select("ab"), P, Q)
  BY OwnIs, SelectGoes, SetGoes DEF Now
<1>2. {P, Q} \subseteq SUBSET Views
  BY SeenAre DEF Now
<1> HIDE DEF P, Q, l
<1>3. Leads(l, y, max9296_two96717f, P, Q)
  BY <1>1, <1>2, ElementsFit, Leads2 DEF max9296_two96717f
<1>4. QED BY <1>2, <1>3, max9296_two96717f_Fits DEF Takes, P, Q, l

\* max9296_two96717f_linka at the end of link A.
LEMMA two96717f_linka_A ==
  ASSUME NEW y
  PROVE  Takes("linkA", y, max9296_two96717f_linka,
               Now(SUBSET Links, BOOLEAN), Now({{"linkA"}}, {TRUE}))
<1> DEFINE l == "linkA"
           P == Now(SUBSET Links, BOOLEAN)
           Q == Now({{"linkA"}}, BOOLEAN)
           G == Now({{"linkA"}}, {TRUE})
<1>1. /\ Goes(l, y, Select("a"), P, Q) /\ Goes(l, y, Move("0xc0"), Q, G)
      /\ Goes(l, y, Set("0xc0"), G, G)
  BY MoveGoes, OwnIs, SelectGoes, SetGoes DEF Now
<1>2. {P, Q, G} \subseteq SUBSET Views
  BY SeenAre DEF Now
<1> HIDE DEF P, Q, G, l
<1>3. Leads(l, y, max9296_two96717f_linka, P, G)
  BY <1>1, <1>2, ElementsFit, Leads3 DEF max9296_two96717f_linka
<1>4. QED BY <1>2, <1>3, max9296_two96717f_linka_Fits DEF Takes, P, G, l

\* max9296_two96717f_linka at the end of link B.
LEMMA two96717f_linka_B ==
  ASSUME NEW y
  PROVE  Takes("linkB", y, max9296_two96717f_linka,
               Now(SUBSET Links, {FALSE}), Now({{"linkA"}}, {FALSE}))
<1> DEFINE l == "linkB"
           P == Now(SUBSET Links, {FALSE})
           Q == Now({{"linkA"}}, {FALSE})
<1>1. /\ Goes(l, y, Select("a"), P, Q) /\ Goes(l, y, Move("0xc0"), Q, Q)
      /\ Goes(l, y, Set("0xc0"), Q, Q)
  BY OthersGo, OwnIs, SelectGoes, SetGoes DEF Now
<1>2. {P, Q} \subseteq SUBSET Views
  BY SeenAre DEF Now
<1> HIDE DEF P, Q, l
<1>3. Leads(l, y, max9296_two96717f_linka, P, Q)
  BY <1>1, <1>2, ElementsFit, Leads3 DEF max9296_two96717f_linka
<1>4. QED BY <1>2, <1>3, max9296_two96717f_linka_Fits DEF Takes, P, Q, l

\* max9296_two96717f_linkb at the end of link A.
LEMMA two96717f_linkb_A ==
  ASSUME NEW y
  PROVE  Takes("linkA", y, max9296_two96717f_linkb,
               Now(SUBSET Links, {TRUE}), Now({{"linkB"}}, {TRUE}))
<1> DEFINE l == "linkA"
           P == Now(SUBSET Links, {TRUE})
           Q == Now({{"linkB"}}, {TRUE})
<1>1. /\ Goes(l, y, Select("b"), P, Q) /\ Goes(l, y, Move("0xc4"), Q, Q)
      /\ Goes(l, y, Set("0xc4"), Q, Q)
  BY OthersGo, OwnIs, SelectGoes, SetGoes DEF Now
<1>2. {P, Q} \subseteq SUBSET Views
  BY SeenAre DEF Now
<1> HIDE DEF P, Q, l
<1>3. Leads(l, y, max9296_two96717f_linkb, P, Q)
  BY <1>1, <1>2, ElementsFit, Leads3 DEF max9296_two96717f_linkb
<1>4. QED BY <1>2, <1>3, max9296_two96717f_linkb_Fits DEF Takes, P, Q, l

\* max9296_two96717f_linkb at the end of link B.
LEMMA two96717f_linkb_B ==
  ASSUME NEW y
  PROVE  Takes("linkB", y, max9296_two96717f_linkb,
               Now(SUBSET Links, BOOLEAN), Now({{"linkB"}}, {TRUE}))
<1> DEFINE l == "linkB"
           P == Now(SUBSET Links, BOOLEAN)
           Q == Now({{"linkB"}}, BOOLEAN)
           G == Now({{"linkB"}}, {TRUE})
<1>1. /\ Goes(l, y, Select("b"), P, Q) /\ Goes(l, y, Move("0xc4"), Q, G)
      /\ Goes(l, y, Set("0xc4"), G, G)
  BY MoveGoes, OwnIs, SelectGoes, SetGoes DEF Now
<1>2. {P, Q, G} \subseteq SUBSET Views
  BY SeenAre DEF Now
<1> HIDE DEF P, Q, G, l
<1>3. Leads(l, y, max9296_two96717f_linkb, P, G)
  BY <1>1, <1>2, ElementsFit, Leads3 DEF max9296_two96717f_linkb
<1>4. QED BY <1>2, <1>3, max9296_two96717f_linkb_Fits DEF Takes, P, G, l

\* max9296_two96717f_linkab at the end of link A.
LEMMA two96717f_linkab_A ==
  ASSUME NEW y
  PROVE  Takes("linkA", y, max9296_two96717f_linkab,
               Now(SUBSET Links, {TRUE}), Now({{"linkB"}}, {TRUE}))
<1> DEFINE l == "linkA"
           P == Now(SUBSET Links, {TRUE})
           Q == Now({{"linkB"}}, {TRUE})
<1>1. /\ Goes(l, y, Select("b"), P, Q) /\ Goes(l, y, Move("0xc4"), Q, Q)
      /\ Goes(l, y, Set("0xc4"), Q, Q)
  BY OthersGo, OwnIs, SelectGoes, SetGoes DEF Now
<1>2. {P, Q} \subseteq SUBSET Views
  BY SeenAre DEF Now
<1> HIDE DEF P, Q, l
<1>3. Leads(l, y, max9296_two96717f_linkab, P, Q)
  BY <1>1, <1>2, ElementsFit, Leads3 DEF max9296_two96717f_linkab
<1>4. QED BY <1>2, <1>3, max9296_two96717f_linkab_Fits DEF Takes, P, Q, l

\* max9296_two96717f_linkab at the end of link B.
LEMMA two96717f_linkab_B ==
  ASSUME NEW y
  PROVE  Takes("linkB", y, max9296_two96717f_linkab,
               Now(SUBSET Links, BOOLEAN), Now({{"linkB"}}, {TRUE}))
<1> DEFINE l == "linkB"
           P == Now(SUBSET Links, BOOLEAN)
           Q == Now({{"linkB"}}, BOOLEAN)
           G == Now({{"linkB"}}, {TRUE})
<1>1. /\ Goes(l, y, Select("b"), P, Q) /\ Goes(l, y, Move("0xc4"), Q, G)
      /\ Goes(l, y, Set("0xc4"), G, G)
  BY MoveGoes, OwnIs, SelectGoes, SetGoes DEF Now
<1>2. {P, Q, G} \subseteq SUBSET Views
  BY SeenAre DEF Now
<1> HIDE DEF P, Q, G, l
<1>3. Leads(l, y, max9296_two96717f_linkab, P, G)
  BY <1>1, <1>2, ElementsFit, Leads3 DEF max9296_two96717f_linkab
<1>4. QED BY <1>2, <1>3, max9296_two96717f_linkab_Fits DEF Takes, P, G, l

\* max9296_two96717f_linkab_2 at the end of link A.
LEMMA two96717f_linkab_2_A ==
  ASSUME NEW y
  PROVE  Takes("linkA", y, max9296_two96717f_linkab_2,
               Now({{"linkB"}}, {TRUE}), Now({Links}, {TRUE}))
<1> DEFINE l == "linkA"
           P == Now({{"linkB"}}, {TRUE})
           Q == Now({Links}, {TRUE})
<1>1. /\ Goes(l, y, Set("0x90"), P, P) /\ Goes(l, y, Select("ab"), P, Q)
  BY OwnIs, SelectGoes, SetGoes DEF Now
<1>2. {P, Q} \subseteq SUBSET Views
  BY SeenAre DEF Now
<1> HIDE DEF P, Q, l
<1>3. Leads(l, y, max9296_two96717f_linkab_2, P, Q)
  BY <1>1, <1>2, ElementsFit, Leads2 DEF max9296_two96717f_linkab_2
<1>4. QED BY <1>2, <1>3, max9296_two96717f_linkab_2_Fits DEF Takes, P, Q, l

\* max9296_two96717f_linkab_2 at the end of link B.
LEMMA two96717f_linkab_2_B ==
  ASSUME NEW y
  PROVE  Takes("linkB", y, max9296_two96717f_linkab_2,
               Now({{"linkB"}}, {TRUE}), Now({Links}, {TRUE}))
<1> DEFINE l == "linkB"
           P == Now({{"linkB"}}, {TRUE})
           Q == Now({Links}, {TRUE})
<1>1. /\ Goes(l, y, Set("0x90"), P, P) /\ Goes(l, y, Select("ab"), P, Q)
  BY OwnIs, SelectGoes, SetGoes DEF Now
<1>2. {P, Q} \subseteq SUBSET Views
  BY SeenAre DEF Now
<1> HIDE DEF P, Q, l
<1>3. Leads(l, y, max9296_two96717f_linkab_2, P, Q)
  BY <1>1, <1>2, ElementsFit, Leads2 DEF max9296_two96717f_linkab_2
<1>4. QED BY <1>2, <1>3, max9296_two96717f_linkab_2_Fits DEF Takes, P, Q, l

\* max9296_two9295_raw12_linka at the end of link A.
LEMMA two9295_raw12_linka_A ==
  ASSUME NEW y
  PROVE  Takes("linkA", y, max9296_two9295_raw12_linka,
               Now(SUBSET Links, {FALSE}), Now({{"linkA"}}, {TRUE}))
<1> DEFINE l == "linkA"
           P == Now(SUBSET Links, {FALSE})
           Q == Now({{"linkA"}}, {FALSE})
           G == Now({{"linkA"}}, {TRUE})
<1>1. /\ Goes(l, y, Set("0x90"), P, P) /\ Goes(l, y, Select("a"), P, Q)
      /\ Goes(l, y, Set("0x90"), Q, Q) /\ Goes(l, y, Set("0x80"), Q, Q)
      /\ Goes(l, y, Move("0xc0"), Q, G) /\ Goes(l, y, Set("0xc0"), G, G)
  BY EarlyGoes, MoveGoes, OwnIs, SelectGoes, SetGoes DEF Now
<1>2. {P, Q, G} \subseteq SUBSET Views
  BY SeenAre DEF Now
<1> HIDE DEF P, Q, G, l
<1>3. Leads(l, y, max9296_two9295_raw12_linka, P, G)
  BY <1>1, <1>2, ElementsFit, Leads6 DEF max9296_two9295_raw12_linka
<1>4. QED BY <1>2, <1>3, max9296_two9295_raw12_linka_Fits DEF Takes, P, G, l

\* max9296_two9295_raw12_linka at the end of link B.
LEMMA two9295_raw12_linka_B ==
  ASSUME NEW y
  PROVE  Takes("linkB", y, max9296_two9295_raw12_linka,
               Now(SUBSET Links, {FALSE}), Now({{"linkA"}}, {FALSE}))
<1> DEFINE l == "linkB"
           P == Now(SUBSET Links, {FALSE})
           Q == Now({{"linkA"}}, {FALSE})
<1>1. /\ Goes(l, y, Set("0x90"), P, P) /\ Goes(l, y, Select("a"), P, Q)
      /\ Goes(l, y, Set("0x90"), Q, Q) /\ Goes(l, y, Set("0x80"), Q, Q)
      /\ Goes(l, y, Move("0xc0"), Q, Q) /\ Goes(l, y, Set("0xc0"), Q, Q)
  BY EarlyGoes, OthersGo, OwnIs, SelectGoes, SetGoes DEF Now
<1>2. {P, Q} \subseteq SUBSET Views
  BY SeenAre DEF Now
<1> HIDE DEF P, Q, l
<1>3. Leads(l, y, max9296_two9295_raw12_linka, P, Q)
  BY <1>1, <1>2, ElementsFit, Leads6 DEF max9296_two9295_raw12_linka
<1>4. QED BY <1>2, <1>3, max9296_two9295_raw12_linka_Fits DEF Takes, P, Q, l

\* max9296_two9295_raw12_linka_1 at the end of link A.
LEMMA two9295_raw12_linka_1_A ==
  ASSUME NEW y
  PROVE  Takes("linkA", y, max9296_two9295_raw12_linka_1,
               Now({{"linkA"}}, {TRUE}), Now({{"linkB"}}, {TRUE}))
<1> DEFINE l == "linkA"
           P == Now({{"linkA"}}, {TRUE})
           Q == Now({{"linkB"}}, {TRUE})
<1>1. /\ Goes(l, y, Set("0xc0"), P, P) /\ Goes(l, y, Select("b"), P, Q)
      /\ Goes(l, y, Set("0x90"), Q, Q) /\ Goes(l, y, Move("0xc4"), Q, Q)
      /\ Goes(l, y, Set("0xc4"), Q, Q)
  BY OthersGo, OwnIs, SelectGoes, SetGoes DEF Now
<1>2. {P, Q} \subseteq SUBSET Views
  BY SeenAre DEF Now
<1> HIDE DEF P, Q, l
<1>3. Leads(l, y, max9296_two9295_raw12_linka_1, P, Q)
  BY <1>1, <1>2, ElementsFit, Leads5 DEF max9296_two9295_raw12_linka_1
<1>4. QED BY <1>2, <1>3, max9296_two9295_raw12_linka_1_Fits DEF Takes, P, Q, l

\* max9296_two9295_raw12_linka_1 at the end of link B.
LEMMA two9295_raw12_linka_1_B ==
  ASSUME NEW y
  PROVE  Takes("linkB", y, max9296_two9295_raw12_linka_1,
               Now({{"linkA"}}, {FALSE}), Now({{"linkB"}}, {TRUE}))
<1> DEFINE l == "linkB"
           P == Now({{"linkA"}}, {FALSE})
           Q == Now({{"linkB"}}, {FALSE})
           G == Now({{"linkB"}}, {TRUE})
<1>1. /\ Goes(l, y, Set("0xc0"), P, P) /\ Goes(l, y, Select("b"), P, Q)
      /\ Goes(l, y, Set("0x90"), Q, Q) /\ Goes(l, y, Move("0xc4"), Q, G)
      /\ Goes(l, y, Set("0xc4"), G, G)
  BY MoveGoes, OwnIs, SelectGoes, SetGoes DEF Now
<1>2. {P, Q, G} \subseteq SUBSET Views
  BY SeenAre DEF Now
<1> HIDE DEF P, Q, G, l
<1>3. Leads(l, y, max9296_two9295_raw12_linka_1, P, G)
  BY <1>1, <1>2, ElementsFit, Leads5 DEF max9296_two9295_raw12_linka_1
<1>4. QED BY <1>2, <1>3, max9296_two9295_raw12_linka_1_Fits DEF Takes, P, G, l

\* max9296_two9295_raw12_linka_2 at the end of link A.
LEMMA two9295_raw12_linka_2_A ==
  ASSUME NEW y, NEW to \in Targets
  PROVE  Takes("linkA", y, max9296_two9295_raw12_linka_2(to),
               Now({{"linkB"}}, {TRUE}), Seen({{"linkA"}}, {TRUE}, Same(to, y), BOOLEAN))
<1> DEFINE l == "linkA"
           P == Now({{"linkB"}}, {TRUE})
           Q == Now({{"linkA"}}, {TRUE})
           G == Seen({{"linkA"}}, {TRUE}, Same(to, y), BOOLEAN)
<1>1. /\ Goes(l, y, Set("0x90"), P, P) /\ Goes(l, y, Select("a"), P, Q)
      /\ Goes(l, y, Set("0xc0"), Q, Q) /\ Goes(l, y, Translate("0xc0", to), Q, G)
      /\ Goes(l, y, Set("0x90"), G, G)
  BY OwnIs, SelectGoes, SetGoes, TranslateGoes DEF Now
<1>2. {P, Q, G} \subseteq SUBSET Views
  BY SeenAre DEF Now
<1> HIDE DEF P, Q, G, l
<1>3. Leads(l, y, max9296_two9295_raw12_linka_2(to), P, G)
  BY <1>1, <1>2, ElementsFit, TranslatesFit, Leads5 DEF max9296_two9295_raw12_linka_2
<1>4. QED BY <1>2, <1>3, max9296_two9295_raw12_linka_2_Fits DEF Takes, P, G, l

\* max9296_two9295_raw12_linkb at the end of link B.
LEMMA two9295_raw12_linkb_B ==
  ASSUME NEW y, NEW to \in Targets
  PROVE  Takes("linkB", y, max9296_two9295_raw12_linkb(to),
               Now({{"linkA"}}, {FALSE}), Seen({{"linkB"}}, {TRUE}, Same(to, y), BOOLEAN))
<1> DEFINE l == "linkB"
           P == Now({{"linkA"}}, {FALSE})
           Q == Now({{"linkB"}}, {FALSE})
           G == Now({{"linkB"}}, {TRUE})
           U == Seen({{"linkB"}}, {TRUE}, Same(to, y), BOOLEAN)
<1>1. /\ Goes(l, y, Select("b"), P, Q) /\ Goes(l, y, Set("0x80"), Q, Q)
      /\ Goes(l, y, Move("0xc4"), Q, G) /\ Goes(l, y, Set("0xc4"), G, G)
      /\ Goes(l, y, Translate("0xc4", to), G, U) /\ Goes(l, y, Set("0xc4"), U, U)
      /\ Goes(l, y, Set("0x90"), U, U)
  BY EarlyGoes, MoveGoes, OwnIs, SelectGoes, SetGoes, TranslateGoes DEF Now
<1>2. {P, Q, G, U} \subseteq SUBSET Views
  BY SeenAre DEF Now
<1> HIDE DEF P, Q, G, U, l
<1>3. Leads(l, y, max9296_two9295_raw12_linkb(to), P, U)
  BY <1>1, <1>2, ElementsFit, TranslatesFit, Leads7 DEF max9296_two9295_raw12_linkb
<1>4. QED BY <1>2, <1>3, max9296_two9295_raw12_linkb_Fits DEF Takes, P, U, l

\* max9296_two9295_raw12_linkab at the end of link A.
LEMMA two9295_raw12_linkab_A ==
  ASSUME NEW y, NEW to \in Targets
  PROVE  Takes("linkA", y, max9296_two9295_raw12_linkab(to),
               Now({{"linkB"}}, {TRUE}), Seen({Links}, {TRUE}, Same(to, y), BOOLEAN))
<1> DEFINE l == "linkA"
           P == Now({{"linkB"}}, {TRUE})
           Q == Now({Links}, {TRUE})
           G == Seen({Links}, {TRUE}, Same(to, y), BOOLEAN)
<1>1. /\ Goes(l, y, Set("0xc4"), P, P) /\ Goes(l, y, Translate("0xc4", to), P, P)
      /\ Goes(l, y, Select("ab"), P, Q) /\ Goes(l, y, Set("0x90"), Q, Q)
      /\ Goes(l, y, Translate("0xc0", to), Q, G) /\ Goes(l, y, Set("0xc0"), G, G)
      /\ Goes(l, y, Set("0x90"), G, G) /\ Goes(l, y, Set("0xc4"), G, G)
  BY OthersGo, OwnIs, SelectGoes, SetGoes, TranslateGoes DEF Now
<1>2. {P, Q, G} \subseteq SUBSET Views
  BY SeenAre DEF Now
<1> HIDE DEF P, Q, G, l
<1>3. Leads(l, y, max9296_two9295_raw12_linkab(to), P, G)
  BY <1>1, <1>2, ElementsFit, TranslatesFit, Leads10 DEF max9296_two9295_raw12_linkab
<1>4. QED BY <1>2, <1>3, max9296_two9295_raw12_linkab_Fits DEF Takes, P, G, l

\* max9296_two9295_raw12_linkab at the end of link B.
LEMMA two9295_raw12_linkab_B ==
  ASSUME NEW y, NEW to \in Targets
  PROVE  Takes("linkB", y, max9296_two9295_raw12_linkab(to),
               Now({{"linkB"}}, {TRUE}), Seen({Links}, {TRUE}, Same(to, y), BOOLEAN))
<1> DEFINE l == "linkB"
           P == Now({{"linkB"}}, {TRUE})
           Q == Seen({{"linkB"}}, {TRUE}, Same(to, y), BOOLEAN)
           G == Seen({Links}, {TRUE}, Same(to, y), BOOLEAN)
<1>1. /\ Goes(l, y, Set("0xc4"), P, P) /\ Goes(l, y, Translate("0xc4", to), P, Q)
      /\ Goes(l, y, Set("0xc4"), Q, Q) /\ Goes(l, y, Select("ab"), Q, G)
      /\ Goes(l, y, Set("0x90"), G, G) /\ Goes(l, y, Translate("0xc0", to), G, G)
      /\ Goes(l, y, Set("0xc0"), G, G) /\ Goes(l, y, Set("0xc4"), G, G)
  BY OthersGo, OwnIs, SelectGoes, SetGoes, TranslateGoes DEF Now
<1>2. {P, Q, G} \subseteq SUBSET Views
  BY SeenAre DEF Now
<1> HIDE DEF P, Q, G, l
<1>3. Leads(l, y, max9296_two9295_raw12_linkab(to), P, G)
  BY <1>1, <1>2, ElementsFit, TranslatesFit, Leads10 DEF max9296_two9295_raw12_linkab
<1>4. QED BY <1>2, <1>3, max9296_two9295_raw12_linkab_Fits DEF Takes, P, G, l

\* max9296_two9295_raw12_linka_forDB at the end of link A.
LEMMA two9295_raw12_linka_forDB_A ==
  ASSUME NEW y
  PROVE  Takes("linkA", y, max9296_two9295_raw12_linka_forDB,
               Now({{"linkB"}}, {TRUE}), Now({{"linkA"}}, {FALSE}))
<1> DEFINE l == "linkA"
           P == Now({{"linkB"}}, {TRUE})
           Q == Now({{"linkA"}}, {TRUE})
           G == Now({{"linkA"}}, {FALSE})
<1>1. /\ Goes(l, y, Set("0x90"), P, P) /\ Goes(l, y, Select("a"), P, Q)
      /\ Goes(l, y, Reset("0xc0"), Q, G) /\ Goes(l, y, Set("0x80"), G, G)
      /\ Goes(l, y, Set("0x90"), G, G)
  BY EarlyGoes, OwnIs, ResetGoes, SelectGoes, SetGoes DEF Now
<1>2. {P, Q, G} \subseteq SUBSET Views
  BY SeenAre DEF Now
<1> HIDE DEF P, Q, G, l
<1>3. Leads(l, y, max9296_two9295_raw12_linka_forDB, P, G)
  BY <1>1, <1>2, ElementsFit, Leads6 DEF max9296_two9295_raw12_linka_forDB
<1>4. QED BY <1>2, <1>3, max9296_two9295_raw12_linka_forDB_Fits DEF Takes, P, G, l

\* Lists in a row.
LEMMA TakesOn ==
  ASSUME NEW l, NEW y, NEW a, NEW b, NEW P, NEW Q, NEW G, Takes(l, y, a, P, Q), Takes(l, y, b, Q, G)
  PROVE  Takes(l, y, a \o b, P, G)
<1>1. Leads(l, y, a, P, Q) /\ Leads(l, y, b, Q, G) /\ a \in Seq(Steps) /\ b \in Seq(Steps)
  BY DEF Takes, Chunk
<1>2. Leads(l, y, a \o b, P, G)
  BY <1>1, LeadsOn
<1>3. Chunk(a \o b) /\ P \in SUBSET Views /\ G \in SUBSET Views
  BY ChunkConcat DEF Takes
<1>4. QED BY <1>2, <1>3 DEF Takes

\* A part takes from less, and to more.
LEMMA TakesWithin ==
  ASSUME NEW l, NEW y, NEW t, NEW O, NEW P, NEW Q, NEW G, Takes(l, y, t, P, Q),
         O \subseteq P, Q \subseteq G, G \subseteq Views
  PROVE  Takes(l, y, t, O, G)
BY LeadsFrom DEF Takes

\* An i2cdetect as a part.
LEMMA DetectTakes ==
  ASSUME NEW l \in Links, NEW y, NEW P \in SUBSET Views
  PROVE  Takes(l, y, <<Detect>>, P, P)
<1>1. LET s == Detect IN s.op = "detect" /\ s.reg = "" /\ s.dev = ""
  BY DEF Detect, Step
<1>2. Detect # Move(Own[l]) /\ Detect # Reset(Own[l])
  BY DEF Detect, Move, Reset, Element, Step
<1>3. ASSUME NEW v \in Views, NEW w \in Views, Becomes(l, y, Detect, v, w) PROVE v = w
  <2>1. v.sel = w.sel /\ v.moved = w.moved /\ v.told = w.told /\ v.set = w.set
    BY <1>1, <1>2, <1>3 DEF Becomes, Selecting, Views
  <2>2. QED BY <2>1 DEF Views
<1>4. \A v \in Views : Safe(l, Detect, v)
  BY <1>1 DEF Safe
<1>5. Goes(l, y, Detect, P, P)
  BY <1>3, <1>4 DEF Goes
<1>6. Chunk(<<Detect>>)
  BY DetectIs, ChunkOne
<1>7. QED BY <1>5, <1>6, LeadsOne DEF Takes

\* A table is sent between two i2cdetect, which leave everything as it is.
LEMMA ElementsTake ==
  ASSUME NEW l \in Links, NEW y, NEW t, NEW P, NEW Q, Takes(l, y, t, P, Q)
  PROVE  Takes(l, y, Elements(t), P, Q)
<1>1. P \in SUBSET Views /\ Q \in SUBSET Views
  BY DEF Takes
<1>2. Takes(l, y, <<Detect>>, P, P) /\ Takes(l, y, <<Detect>>, Q, Q)
  BY <1>1, DetectTakes
<1>3. Takes(l, y, <<Detect>> \o t, P, Q)
  BY <1>2, TakesOn
<1>4. Takes(l, y, (<<Detect>> \o t) \o <<Detect>>, P, Q)
  BY <1>2, <1>3, TakesOn
<1>5. QED BY <1>4 DEF Elements

\* A setting as a part.
LEMMA SetTakes ==
  ASSUME NEW l \in Links, NEW y, NEW S, NEW M, NEW d \in {"0x90", "0xc0", "0xc4"},
         d = Own[l] => M = {TRUE} /\ \A v \in S : l \in v
  PROVE  Takes(l, y, <<Set(d)>>, Now(S, M), Now(S, M))
<1> DEFINE P == Now(S, M)
<1>1. P \in SUBSET Views
  BY SeenAre DEF Now
<1>2. Goes(l, y, Set(d), P, P)
  BY SetGoes DEF Now
<1>3. Chunk(<<Set(d)>>)
  BY SetIs, ChunkOne DEF Devices
<1> HIDE DEF P
<1>4. Takes(l, y, <<Set(d)>>, P, P)
  BY <1>1, <1>2, <1>3, LeadsOne DEF Takes
<1>5. QED BY <1>4 DEF P

\* A selection as a part.
LEMMA SelectTakes ==
  ASSUME NEW l \in Links, NEW y, NEW S, NEW M, NEW x \in {"a", "b", "ab"}
  PROVE  Takes(l, y, <<Select(x)>>, Now(S, M), Now({Chosen[x]}, M))
<1> DEFINE P == Now(S, M) Q == Now({Chosen[x]}, M)
<1>1. P \in SUBSET Views /\ Q \in SUBSET Views
  BY SeenAre DEF Now
<1>2. Goes(l, y, Select(x), P, Q)
  BY SelectGoes DEF Now
<1>3. Chunk(<<Select(x)>>)
  BY SelectIs, ChunkOne
<1> HIDE DEF P, Q
<1>4. Takes(l, y, <<Select(x)>>, P, Q)
  BY <1>1, <1>2, <1>3, LeadsOne DEF Takes
<1>5. QED BY <1>4 DEF P, Q

\* The table of a sensor.
LEMMA SensorTakes ==
  ASSUME NEW l \in Links, NEW y, NEW d \in Sensors, NEW S, NEW M, NEW T, NEW D, D = BOOLEAN \/ D = {TRUE}
  PROVE  LET t == Elements(Sensor(d)) IN
         /\ Takes(l, y, t, Seen(S, M, T, D), Seen(S, M, T, D))
         /\ (\A v \in S : l \in v) /\ d = y =>
                Takes(l, y, t, Seen(S, M, T, D), Seen(S, M, T, {TRUE}))
         /\ (\A v \in S : l \in v) /\ d = Alias[l] /\ T = {TRUE} =>
                Takes(l, y, t, Seen(S, M, T, D), Seen(S, M, T, {TRUE}))
<1> DEFINE s == Step("sensor", d, "", "") P == Seen(S, M, T, D) Q == Seen(S, M, T, {TRUE})
           Ours == (\A v \in S : l \in v) /\ d = y
           Translated == (\A v \in S : l \in v) /\ d = Alias[l] /\ T = {TRUE}
<1>1. P \in SUBSET Views /\ Q \in SUBSET Views
  BY SeenAre
<1>2. Goes(l, y, s, P, P) /\ (Ours \/ Translated => Goes(l, y, s, P, Q))
  BY SensorGoes
<1>3. Chunk(<<s>>)
  BY SensorIs, ChunkOne
<1> HIDE DEF P, Q, Ours, Translated, s
<1>4. Takes(l, y, <<s>>, P, P) /\ (Ours \/ Translated => Takes(l, y, <<s>>, P, Q))
  BY <1>1, <1>2, <1>3, LeadsOne DEF Takes
<1>5. Takes(l, y, Elements(<<s>>), P, P) /\ (Ours \/ Translated => Takes(l, y, Elements(<<s>>), P, Q))
  BY <1>4, ElementsTake
<1>6. QED BY <1>5 DEF P, Q, Ours, Translated, s, Sensor

\* A list with a probe after it.
LEMMA ProbeTakes ==
  ASSUME NEW l \in Links, NEW m \in Links, NEW y, NEW t, NEW P, NEW S, NEW M,
         Takes(l, y, t, P, Now(S, M)), m = l => M = {TRUE} /\ \A v \in S : l \in v
  PROVE  Leads(l, y, t \o Probe(m), P, Now(S, M))
<1> DEFINE p == Step("probe", Own[m], "", "") d == Decide(m) Q == Now(S, M)
<1>1. Q \in SUBSET Views
  BY SeenAre DEF Now
<1>2. Goes(l, y, p, Q, Q) /\ Goes(l, y, d, Q, Q)
  BY ProbeGoes DEF Now
<1>3. p \in Steps /\ d \in Steps
  BY StepIs, ElementNames, OwnIs DEF Decide, Devices
<1>4. t \in Seq(Steps) /\ Leads(l, y, t, P, Q)
  BY DEF Takes, Chunk
<1> HIDE DEF p, d, Q
<1>5. Leads(l, y, <<p, d>>, Q, Q)
  BY <1>1, <1>2, <1>3, Leads2
<1>6. <<p, d>> \in Seq(Steps)
  BY <1>3
<1>7. Leads(l, y, t \o <<p, d>>, P, Q)
  BY <1>4, <1>5, <1>6, LeadsOn
<1>8. QED BY <1>7 DEF p, d, Q, Probe
-----------------------------------------------------------------------------
\* What a link's end is like at the beginning, at the two decisions, and at the
\* end of serdes_channel_init.
Begin == Now(SUBSET Links, {FALSE})
Moved(x) == Now({x}, {TRUE})
AtA(l) == IF l = "linkA" THEN Moved({"linkA"}) ELSE Now({{"linkA"}}, {FALSE})
AtB == Moved({"linkB"})
Final(l, x, p) ==
    {v \in Views : /\ l \in v.sel /\ (p = Links => v.moved)
                   /\ SensorAt(x) # "" /\ ~(x = 6 /\ p = Links) => v.set}

\* The link a list ends with the decision on.
Stage(t) == IF t # <<>> /\ t[Len(t)].op \in Links THEN t[Len(t)].op ELSE "end"

Brings(l, x, t, P, Q, m) == Leads(l, SensorAt(x), t, P, Q) /\ Stage(t) = m

Staged(f, l, x, p) ==
    /\ Brings(l, x, f.start, Begin, AtA(l), "linkA")
    /\ "linkA" \in p => Brings(l, x, f.between, AtA(l), AtB, "linkB")
    /\ p = Links => Brings(l, x, f.both, AtB, Final(l, x, p), "end")
    /\ p = {"linkA"} => Brings(l, x, f.onlyA, AtB, Final(l, x, p), "end")
    /\ p = {"linkB"} => Brings(l, x, f.noA, AtA(l), Final(l, x, p), "end")

\* A list that ends with a probe ends with its decision;
LEMMA ProbeStage == ASSUME NEW t \in Seq(Steps), NEW m \in Links PROVE Stage(t \o Probe(m)) = m
<1> DEFINE b == Probe(m) c == t \o b
<1>1. b \in Seq(Steps) /\ Len(b) <= 2 /\ 2 <= Len(b) /\ b[2].op = m
  BY ProbeIs DEF Long
<1> HIDE DEF b
<1>2. c \in Seq(Steps) /\ Len(c) = Len(t) + 2 /\ c[Len(t) + 2] = b[2] /\ Len(t) \in Nat
  BY <1>1, ConcatIs
<1> HIDE DEF c
<1>3. c # <<>>
  BY <1>2
<1>4. c[Len(c)].op = m
  BY <1>1, <1>2
<1>5. Stage(c) = m
  BY <1>3, <1>4 DEF Stage
<1>6. QED BY <1>5 DEF b, c

\* one without a probe ends the configuration.
LEMMA ChunkStage == ASSUME NEW t, Chunk(t) PROVE Stage(t) = "end"
<1>1. ASSUME t # <<>> PROVE t[Len(t)].op \notin Links
  <2>1. Len(t) \in 1 .. Len(t)
    BY <1>1, TailIs DEF Chunk
  <2>2. Ordinary(t[Len(t)])
    BY <2>1 DEF Chunk, Fits
  <2>3. QED BY <2>2 DEF Ordinary, Links
<1>2. QED BY <1>1 DEF Stage

\* The stages are sets of views.
LEMMA StagesAre ==
  /\ Begin \in SUBSET Views /\ AtB \in SUBSET Views /\ \A x : Moved(x) \in SUBSET Views
  /\ \A l : AtA(l) \in SUBSET Views
  /\ \A l, x, p : Final(l, x, p) \in SUBSET Views
<1>1. \A S, M : Now(S, M) \in SUBSET Views
  BY SeenAre DEF Now
<1>2. \A l, x, p : Final(l, x, p) \in SUBSET Views
  BY DEF Final
<1>3. QED BY <1>1, <1>2 DEF Begin, AtB, AtA, Moved

\* A flow is staged when its parts take from one stage to the next.
LEMMA FlowStaged ==
  ASSUME NEW l \in Links, NEW x, NEW p, NEW start, NEW between, NEW both, NEW onlyA, NEW noA,
         Takes(l, SensorAt(x), start, Begin, AtA(l)),
         "linkA" \in p => Takes(l, SensorAt(x), between, AtA(l), AtB),
         p = Links => Takes(l, SensorAt(x), both, AtB, Final(l, x, p)),
         p = {"linkA"} => Takes(l, SensorAt(x), onlyA, AtB, Final(l, x, p)),
         p = {"linkB"} => Takes(l, SensorAt(x), noA, AtA(l), Final(l, x, p))
  PROVE  Staged(Flow(start, between, both, onlyA, noA), l, x, p)
<1> DEFINE f == Flow(start, between, both, onlyA, noA) y == SensorAt(x)
<1>1. /\ f.start = start \o Probe("linkA") /\ f.between = between \o Probe("linkB")
      /\ f.both = both /\ f.onlyA = onlyA /\ f.noA = noA
  BY DEF Flow
<1>2. {"linkA", "linkB"} = Links
  BY DEF Links
<1>3. start \in Seq(Steps) /\ ("linkA" \in p => between \in Seq(Steps))
  BY DEF Takes, Chunk
<1> HIDE DEF f, y
<1>4. Brings(l, x, start \o Probe("linkA"), Begin, AtA(l), "linkA")
  <2>1. CASE l = "linkA"
    BY <2>1, <1>2, <1>3, ProbeTakes, ProbeStage DEF AtA, Moved, Brings
  <2>2. CASE l # "linkA"
    BY <2>2, <1>2, <1>3, ProbeTakes, ProbeStage DEF AtA, Brings
  <2>3. QED BY <2>1, <2>2
<1>5. "linkA" \in p => Brings(l, x, between \o Probe("linkB"), AtA(l), AtB, "linkB")
  BY <1>2, <1>3, ProbeTakes, ProbeStage DEF AtB, Moved, Brings
<1>6. ASSUME NEW t, NEW P, NEW Q, Takes(l, SensorAt(x), t, P, Q) PROVE Brings(l, x, t, P, Q, "end")
  BY <1>6, ChunkStage DEF Takes, Brings
<1>7. /\ p = Links => Brings(l, x, both, AtB, Final(l, x, p), "end")
      /\ p = {"linkA"} => Brings(l, x, onlyA, AtB, Final(l, x, p), "end")
      /\ p = {"linkB"} => Brings(l, x, noA, AtA(l), Final(l, x, p), "end")
  BY <1>6
<1>8. Staged(f, l, x, p)
  BY <1>1, <1>4, <1>5, <1>7 DEF Staged
<1>9. QED BY <1>8 DEF f

\* A link in its final state.
LEMMA EndsWell ==
  ASSUME NEW l \in Links, NEW x, NEW p, NEW s, l \in s
  PROVE  /\ SensorAt(x) = "" \/ (x = 6 /\ p = Links) => Moved(s) \subseteq Final(l, x, p)
         /\ \A T : Seen({s}, {TRUE}, T, {TRUE}) \subseteq Final(l, x, p)
BY DEF Moved, Now, Seen, Final, Views

\* A list that ends in what is final.
LEMMA TakesToEnd ==
  ASSUME NEW l \in Links, NEW y, NEW x, NEW p, NEW s, l \in s, NEW t, NEW P,
         Takes(l, y, t, P, Moved(s)), SensorAt(x) = "" \/ (x = 6 /\ p = Links)
  PROVE  Takes(l, y, t, P, Final(l, x, p))
<1>1. Moved(s) \subseteq Final(l, x, p) /\ Final(l, x, p) \subseteq Views
  BY EndsWell, StagesAre
<1>2. P \in SUBSET Views
  BY DEF Takes
<1>3. QED BY <1>1, TakesWithin

\* The same registers, whatever else was set.
LEMMA SeenWithin ==
  ASSUME NEW S, NEW M, NEW T, NEW N \in SUBSET S, NEW L \in SUBSET M
  PROVE  Now(N, L) \subseteq Now(S, M) /\ Seen(S, M, T, BOOLEAN) \subseteq Now(S, M)
         /\ Now(S, M) \subseteq Views
BY DEF Now, Seen, Views

\* The tables of index 0.
LEMMA Index0Takes ==
  ASSUME NEW y
  PROVE  /\ \A l \in Links :
              /\ Takes(l, y, Elements(max9296_two96705_linkab_0) \o Elements(max9296_two96705_linka), Begin, AtA(l))
              /\ Takes(l, y, Elements(max9296_two96705_linkb), AtA(l), AtB)
              /\ Takes(l, y, Elements(max9296_two96705_linkab_2) \o Elements(max9296_two96705_linkab_1)
                             \o Elements(max9296_two96705_linka_video) \o Elements(max9296_two96705_linkb_video),
                       AtB, Moved(Links))
         /\ Takes("linkA", y, <<Select("a")>> \o Elements(max9296_two96705_linkab_1)
                              \o Elements(max9296_two96705_linka_video), AtB, Moved({"linkA"}))
         /\ Takes("linkB", y, Elements(max9296_two96705_linkb) \o Elements(max9296_two96705_linkab_1)
                              \o Elements(max9296_two96705_linkb_video), AtA("linkB"), Moved({"linkB"}))
<1>1. ASSUME NEW l \in Links
      PROVE  /\ Takes(l, y, max9296_two96705_linka, Begin, AtA(l))
             /\ Takes(l, y, max9296_two96705_linkb, AtA(l), AtB)
  <2>1. CASE l = "linkA"
    BY <2>1, two96705_linka_A, two96705_linkb_A DEF Begin, AtA, AtB, Moved
  <2>2. CASE l = "linkB"
    BY <2>2, two96705_linka_B, two96705_linkb_B DEF Begin, AtA, AtB, Moved
  <2>3. QED BY <2>1, <2>2, OwnIs
<1>2. ASSUME NEW l \in Links, NEW s, l \in s
      PROVE  /\ Takes(l, y, max9296_two96705_linkab_1, Moved(s), Moved(s))
             /\ Takes(l, y, max9296_two96705_linka_video, Moved(s), Moved(s))
             /\ Takes(l, y, max9296_two96705_linkb_video, Moved(s), Moved(s))
  BY <1>2, SetTakes DEF Moved, max9296_two96705_linkab_1, max9296_two96705_linka_video, max9296_two96705_linkb_video
<1>3. ASSUME NEW l \in Links
      PROVE  /\ Takes(l, y, max9296_two96705_linkab_0, Begin, Begin)
             /\ Takes(l, y, max9296_two96705_linkab_2, AtB, Moved(Links))
             /\ Takes(l, y, <<Select("a")>>, AtB, Moved({"linkA"}))
  <2>1. Takes(l, y, max9296_two96705_linkab_0, Begin, Begin)
    BY SetTakes, OwnIs DEF Begin, max9296_two96705_linkab_0
  <2>2. QED BY <2>1, SelectTakes, OwnIs DEF Moved, AtB, max9296_two96705_linkab_2
<1>4. ASSUME NEW l \in Links
      PROVE  /\ Takes(l, y, Elements(max9296_two96705_linka), Begin, AtA(l))
             /\ Takes(l, y, Elements(max9296_two96705_linkb), AtA(l), AtB)
             /\ Takes(l, y, Elements(max9296_two96705_linkab_0), Begin, Begin)
             /\ Takes(l, y, Elements(max9296_two96705_linkab_2), AtB, Moved(Links))
             /\ \A s : l \in s =>
                  /\ Takes(l, y, Elements(max9296_two96705_linkab_1), Moved(s), Moved(s))
                  /\ Takes(l, y, Elements(max9296_two96705_linka_video), Moved(s), Moved(s))
                  /\ Takes(l, y, Elements(max9296_two96705_linkb_video), Moved(s), Moved(s))
  BY <1>1, <1>2, <1>3, ElementsTake
<1>5. {"linkA"} \subseteq Links /\ "linkA" \in {"linkA"} /\ "linkB" \in {"linkB"} /\ "linkB" \in Links
  BY OwnIs
<1>6. ASSUME NEW l \in Links
      PROVE  /\ Takes(l, y, Elements(max9296_two96705_linkab_0) \o Elements(max9296_two96705_linka), Begin, AtA(l))
             /\ Takes(l, y, Elements(max9296_two96705_linkab_2) \o Elements(max9296_two96705_linkab_1)
                            \o Elements(max9296_two96705_linka_video) \o Elements(max9296_two96705_linkb_video),
                      AtB, Moved(Links))
  BY <1>4, TakesOn
<1>7. Takes("linkA", y, <<Select("a")>> \o Elements(max9296_two96705_linkab_1)
                        \o Elements(max9296_two96705_linka_video), AtB, Moved({"linkA"}))
  BY <1>3, <1>4, <1>5, TakesOn
<1>8. Takes("linkB", y, Elements(max9296_two96705_linkb) \o Elements(max9296_two96705_linkab_1)
                        \o Elements(max9296_two96705_linkb_video), AtA("linkB"), Moved({"linkB"}))
  BY <1>4, <1>5, TakesOn DEF AtB
<1>9. QED BY <1>4, <1>6, <1>7, <1>8

\* Which link is which.
LEMMA LinksThere ==
  ASSUME NEW l \in Links, NEW p \in SUBSET Links, l \in p
  PROVE  /\ p = {"linkA"} => l = "linkA"
         /\ p = {"linkB"} => l = "linkB"
         /\ l \in Links /\ l \in {l}
OBVIOUS

\* A flow without sensors leads to its end when its parts lead to selected links.
LEMMA PlainStaged ==
  ASSUME NEW l \in Links, NEW x, NEW p \in SUBSET Links, l \in p, SensorAt(x) = "",
         NEW start, NEW between, NEW both, NEW onlyA, NEW noA,
         Takes(l, "", start, Begin, AtA(l)), Takes(l, "", between, AtA(l), AtB),
         Takes(l, "", both, AtB, Moved(Links)),
         l = "linkA" => Takes(l, "", onlyA, AtB, Moved({"linkA"})),
         l = "linkB" => Takes(l, "", noA, AtA(l), Moved({"linkB"}))
  PROVE  Staged(Flow(start, between, both, onlyA, noA), l, x, p)
<1>1. Takes(l, "", both, AtB, Final(l, x, p))
  BY TakesToEnd
<1>2. l = "linkA" => Takes(l, "", onlyA, AtB, Final(l, x, p))
  BY TakesToEnd
<1>3. l = "linkB" => Takes(l, "", noA, AtA(l), Final(l, x, p))
  BY TakesToEnd
<1>4. QED BY <1>1, <1>2, <1>3, LinksThere, FlowStaged

\* So index 0 is staged.
LEMMA Index0Staged == ASSUME NEW l \in Links, NEW p \in SUBSET Links, l \in p PROVE Staged(Index0, l, 0, p)
<1>1. SensorAt(0) = ""
  BY DEF SensorAt
<1>2. QED BY <1>1, Index0Takes, PlainStaged DEF Index0

\* The tables of index 1.
LEMMA Index1Takes ==
  ASSUME NEW y
  PROVE  /\ \A l \in Links :
              /\ Takes(l, y, Elements(max9296_two9295_linka), Begin, AtA(l))
              /\ Takes(l, y, Elements(max9296_two9295_linka_1), AtA(l), AtB)
              /\ Takes(l, y, Elements(max9296_two9295_linkab), AtB, Moved(Links))
         /\ Takes("linkA", y, Elements(max9296_two9295_linka_2), AtB, Moved({"linkA"}))
         /\ Takes("linkB", y, Elements(max9296_two9295_linkb), AtA("linkB"), Moved({"linkB"}))
<1>1. /\ Seen({{"linkB"}}, {TRUE}, Same("0x34", y), BOOLEAN) \subseteq AtB
      /\ AtB \in SUBSET Views /\ Moved({"linkB"}) = AtB
  BY SeenWithin, StagesAre DEF AtB, Moved
<1>2. ASSUME NEW l \in Links
      PROVE  /\ Takes(l, y, max9296_two9295_linka, Begin, AtA(l))
             /\ Takes(l, y, max9296_two9295_linka_1, AtA(l), AtB)
             /\ Takes(l, y, max9296_two9295_linkab, AtB, Moved(Links))
  <2>1. CASE l = "linkA"
    <3>1. Takes(l, y, max9296_two9295_linka_1, AtA(l), Seen({{"linkB"}}, {TRUE}, Same("0x34", y), BOOLEAN))
      BY <2>1, two9295_linka_1_A DEF AtA, Moved
    <3>2. Takes(l, y, max9296_two9295_linka_1, AtA(l), AtB)
      BY <3>1, <1>1, TakesWithin
    <3>3. QED BY <3>2, <2>1, two9295_linka_A, two9295_linkab_A DEF Begin, AtA, AtB, Moved
  <2>2. CASE l = "linkB"
    BY <2>2, two9295_linka_B, two9295_linka_1_B, two9295_linkab_B DEF Begin, AtA, AtB, Moved
  <2>3. QED BY <2>1, <2>2, OwnIs
<1>3. Takes("linkA", y, max9296_two9295_linka_2, AtB, Moved({"linkA"}))
  BY two9295_linka_2_A DEF AtB, Moved
<1>4. Takes("linkB", y, max9296_two9295_linkb, AtA("linkB"), Moved({"linkB"}))
  <2>1. Takes("linkB", y, max9296_two9295_linkb, AtA("linkB"), Seen({{"linkB"}}, {TRUE}, Same("0x34", y), BOOLEAN))
    BY two9295_linkb_B DEF AtA
  <2>2. Takes("linkB", y, max9296_two9295_linkb, AtA("linkB"), AtB)
    BY <2>1, <1>1, TakesWithin
  <2>3. QED BY <2>2, <1>1
<1>5. QED BY <1>2, <1>3, <1>4, OwnIs, ElementsTake

\* So index 1 is staged.
LEMMA Index1Staged == ASSUME NEW l \in Links, NEW p \in SUBSET Links, l \in p PROVE Staged(Index1, l, 1, p)
<1>1. SensorAt(1) = ""
  BY DEF SensorAt
<1>2. QED BY <1>1, Index1Takes, PlainStaged DEF Index1

\* The tables of index 2.
LEMMA Index2Takes ==
  ASSUME NEW y
  PROVE  /\ \A l \in Links :
              /\ Takes(l, y, Elements(max9296_two96717f) \o Elements(max9296_two96717f_linka), Begin, AtA(l))
              /\ Takes(l, y, Elements(max9296_two96717f_linkab), AtA(l), AtB)
              /\ Takes(l, y, Elements(max9296_two96717f_linkb) \o Elements(max9296_two96717f_linkab_2)
                             \o Elements(max9296_two96717f_linkab_1)
                             \o Elements(max9296_two96717f_linka_video) \o Elements(max9296_two96717f_linkb_video),
                       AtB, Moved(Links))
         /\ Takes("linkA", y, Elements(max9296_two96717f_linka) \o Elements(max9296_two96717f_linkab_1)
                              \o Elements(max9296_two96717f_linka_video), AtB, Moved({"linkA"}))
         /\ Takes("linkB", y, Elements(max9296_two96717f_linkb) \o Elements(max9296_two96717f_linkab_1)
                              \o Elements(max9296_two96717f_linkb_video), AtA("linkB"), Moved({"linkB"}))
<1> DEFINE C == Now({Links}, {FALSE})
<1>1. /\ C \in SUBSET Views /\ C \subseteq Begin
      /\ Begin \subseteq Now(SUBSET Links, BOOLEAN) /\ AtB \subseteq Now(SUBSET Links, BOOLEAN)
      /\ AtA("linkB") \subseteq Now(SUBSET Links, BOOLEAN)
      /\ AtB \subseteq Now(SUBSET Links, {TRUE}) /\ AtA("linkA") \subseteq Now(SUBSET Links, {TRUE})
      /\ Now(SUBSET Links, BOOLEAN) \subseteq Views /\ Now(SUBSET Links, {TRUE}) \subseteq Views
  <2>1. {Links} \in SUBSET SUBSET Links /\ {{"linkA"}} \in SUBSET SUBSET Links
        /\ {{"linkB"}} \in SUBSET SUBSET Links /\ "linkA" # "linkB"
    BY OwnIs
  <2>2. QED BY <2>1, SeenWithin DEF Begin, AtB, AtA, Moved
<1> HIDE DEF C
<1>2. /\ AtB \in SUBSET Views /\ \A s : Moved(s) \in SUBSET Views
      /\ \A l : AtA(l) \in SUBSET Views
  BY StagesAre
<1>3. ASSUME NEW l \in Links
      PROVE  /\ Takes(l, y, max9296_two96717f, Begin, C)
             /\ Takes(l, y, max9296_two96717f_linka, C, AtA(l))
             /\ Takes(l, y, max9296_two96717f_linkab, AtA(l), AtB)
             /\ Takes(l, y, max9296_two96717f_linkb, AtB, AtB)
             /\ Takes(l, y, max9296_two96717f_linkab_2, AtB, Moved(Links))
  <2>1. CASE l = "linkA"
    <3>1. /\ Takes(l, y, max9296_two96717f, Begin, C)
          /\ Takes(l, y, max9296_two96717f_linka, Now(SUBSET Links, BOOLEAN), AtA(l))
          /\ Takes(l, y, max9296_two96717f_linkab, Now(SUBSET Links, {TRUE}), AtB)
          /\ Takes(l, y, max9296_two96717f_linkb, Now(SUBSET Links, {TRUE}), AtB)
          /\ Takes(l, y, max9296_two96717f_linkab_2, AtB, Moved(Links))
      BY <2>1, two96717f_A, two96717f_linka_A, two96717f_linkab_A, two96717f_linkb_A, two96717f_linkab_2_A
         DEF Begin, C, AtA, AtB, Moved
    <3>2. C \subseteq Now(SUBSET Links, BOOLEAN)
      BY <1>1
    <3>3. QED BY <3>1, <3>2, <2>1, <1>1, <1>2, TakesWithin
  <2>2. CASE l = "linkB"
    <3>1. /\ Takes(l, y, max9296_two96717f, Begin, C)
          /\ Takes(l, y, max9296_two96717f_linka, Begin, AtA(l))
          /\ Takes(l, y, max9296_two96717f_linkab, Now(SUBSET Links, BOOLEAN), AtB)
          /\ Takes(l, y, max9296_two96717f_linkb, Now(SUBSET Links, BOOLEAN), AtB)
          /\ Takes(l, y, max9296_two96717f_linkab_2, AtB, Moved(Links))
      BY <2>2, two96717f_B, two96717f_linka_B, two96717f_linkab_B, two96717f_linkb_B, two96717f_linkab_2_B
         DEF Begin, C, AtA, AtB, Moved
    <3>2. QED BY <3>1, <2>2, <1>1, <1>2, TakesWithin
  <2>3. QED BY <2>1, <2>2, OwnIs
<1>4. ASSUME NEW l \in Links, NEW s, l \in s
      PROVE  /\ Takes(l, y, max9296_two96717f_linkab_1, Moved(s), Moved(s))
             /\ Takes(l, y, max9296_two96717f_linka_video, Moved(s), Moved(s))
             /\ Takes(l, y, max9296_two96717f_linkb_video, Moved(s), Moved(s))
  BY <1>4, SetTakes DEF Moved, max9296_two96717f_linkab_1, max9296_two96717f_linka_video, max9296_two96717f_linkb_video
<1>5. /\ Takes("linkA", y, max9296_two96717f_linka, AtB, Moved({"linkA"}))
      /\ Takes("linkB", y, max9296_two96717f_linkb, AtA("linkB"), Moved({"linkB"}))
  <2>1. /\ Takes("linkA", y, max9296_two96717f_linka, Now(SUBSET Links, BOOLEAN), Moved({"linkA"}))
        /\ Takes("linkB", y, max9296_two96717f_linkb, Now(SUBSET Links, BOOLEAN), Moved({"linkB"}))
    BY two96717f_linka_A, two96717f_linkb_B DEF Moved
  <2>2. QED BY <2>1, <1>1, <1>2, TakesWithin
<1>6. ASSUME NEW l \in Links
      PROVE  /\ Takes(l, y, Elements(max9296_two96717f), Begin, C)
             /\ Takes(l, y, Elements(max9296_two96717f_linka), C, AtA(l))
             /\ Takes(l, y, Elements(max9296_two96717f_linkab), AtA(l), AtB)
             /\ Takes(l, y, Elements(max9296_two96717f_linkb), AtB, AtB)
             /\ Takes(l, y, Elements(max9296_two96717f_linkab_2), AtB, Moved(Links))
             /\ \A s : l \in s =>
                  /\ Takes(l, y, Elements(max9296_two96717f_linkab_1), Moved(s), Moved(s))
                  /\ Takes(l, y, Elements(max9296_two96717f_linka_video), Moved(s), Moved(s))
                  /\ Takes(l, y, Elements(max9296_two96717f_linkb_video), Moved(s), Moved(s))
  BY <1>3, <1>4, ElementsTake
<1>7. /\ Takes("linkA", y, Elements(max9296_two96717f_linka), AtB, Moved({"linkA"}))
      /\ Takes("linkB", y, Elements(max9296_two96717f_linkb), AtA("linkB"), Moved({"linkB"}))
  BY <1>5, OwnIs, ElementsTake
<1>8. "linkA" \in {"linkA"} /\ "linkB" \in {"linkB"} /\ {"linkA", "linkB"} \subseteq Links
  BY OwnIs
<1>9. ASSUME NEW l \in Links
      PROVE  /\ Takes(l, y, Elements(max9296_two96717f) \o Elements(max9296_two96717f_linka), Begin, AtA(l))
             /\ Takes(l, y, Elements(max9296_two96717f_linkb) \o Elements(max9296_two96717f_linkab_2)
                            \o Elements(max9296_two96717f_linkab_1)
                            \o Elements(max9296_two96717f_linka_video) \o Elements(max9296_two96717f_linkb_video),
                      AtB, Moved(Links))
  BY <1>6, TakesOn
<1>10. Takes("linkA", y, Elements(max9296_two96717f_linka) \o Elements(max9296_two96717f_linkab_1)
                         \o Elements(max9296_two96717f_linka_video), AtB, Moved({"linkA"}))
  BY <1>6, <1>7, <1>8, TakesOn
<1>11. Takes("linkB", y, Elements(max9296_two96717f_linkb) \o Elements(max9296_two96717f_linkab_1)
                         \o Elements(max9296_two96717f_linkb_video), AtA("linkB"), Moved({"linkB"}))
  BY <1>6, <1>7, <1>8, TakesOn
<1>12. QED BY <1>6, <1>9, <1>10, <1>11

\* So index 2 is staged.
LEMMA Index2Staged == ASSUME NEW l \in Links, NEW p \in SUBSET Links, l \in p PROVE Staged(Index2, l, 2, p)
<1>1. SensorAt(2) = ""
  BY DEF SensorAt
<1>2. QED BY <1>1, Index2Takes, PlainStaged DEF Index2

\* The tables of the sensors at index 6, which reach the one of a single link.
LEMMA Index6Staged == ASSUME NEW l \in Links, NEW p \in SUBSET Links, l \in p PROVE Staged(Index6, l, 6, p)
<1> DEFINE own == Elements(Sensor("0x34")) a == Elements(Sensor("0x36")) b == Elements(Sensor("0x38"))
           both == Elements(max9296_two9295_linkab) onlyA == Elements(max9296_two9295_linka_2)
           noA == Elements(max9296_two9295_linkb)
           start == Elements(max9296_two9295_linka) between == Elements(max9296_two9295_linka_1)
           y == "0x34"
<1>1. SensorAt(6) = y /\ {"0x34", "0x36", "0x38"} \subseteq Sensors
  BY DEF SensorAt, max9296_9295_ISX028_ES2_YUV_array_fromflash, Sensors
<1>2. ASSUME NEW s, l \in s
      PROVE  /\ Takes(l, y, a, Moved(s), Moved(s)) /\ Takes(l, y, b, Moved(s), Moved(s))
             /\ Takes(l, y, own, Moved(s), Seen({s}, {TRUE}, BOOLEAN, {TRUE}))
  <2> DEFINE N == Seen({s}, {TRUE}, BOOLEAN, BOOLEAN) G == Seen({s}, {TRUE}, BOOLEAN, {TRUE})
  <2>1. ASSUME NEW d \in Sensors
        PROVE  /\ Takes(l, y, Elements(Sensor(d)), N, N)
               /\ d = y => Takes(l, y, Elements(Sensor(d)), N, G)
    <3>1. \A v \in {s} : l \in v
      BY <1>2
    <3>2. Takes(l, y, Elements(Sensor(d)), N, N)
      BY SensorTakes
    <3>3. ASSUME d = y PROVE Takes(l, y, Elements(Sensor(d)), N, G)
      BY <3>1, <3>3, SensorTakes
    <3>4. QED BY <3>2, <3>3
  <2>2. "0x34" = y
    OBVIOUS
  <2>3. QED BY <1>1, <2>1, <2>2 DEF Moved, Now
<1>3. /\ Takes(l, y, start, Begin, AtA(l)) /\ Takes(l, y, between, AtA(l), AtB)
      /\ Takes(l, y, both, AtB, Moved(Links))
      /\ l = "linkA" => Takes(l, y, onlyA, AtB, Moved({"linkA"}))
      /\ l = "linkB" => Takes(l, y, noA, AtA(l), Moved({"linkB"}))
  BY Index1Takes
<1>4. Index6 = Flow(start, between, (both \o a) \o b, onlyA \o own, noA \o own)
  <2> HIDE DEF a, b, both, onlyA, noA, start, between
  <2>1. Index1 = Flow(start, between, both, onlyA, noA)
    BY DEF Index1, start, between, both, onlyA, noA
  <2>2. Index6 = [Index1 EXCEPT !.both = (@ \o a) \o b, !.onlyA = @ \o own, !.noA = @ \o own]
    BY DEF Index6, a, b, max9296_9295_ISX028_ES2_YUV_array_fromflash
  <2> HIDE DEF own
  <2>3. QED BY <2>1, <2>2 DEF Flow
<1> HIDE DEF own, a, b, both, onlyA, noA, start, between, y
<1>5. Takes(l, y, (both \o a) \o b, AtB, Moved(Links))
  BY <1>2, <1>3, TakesOn
<1>6. p = Links => Takes(l, y, (both \o a) \o b, AtB, Final(l, 6, p))
  BY <1>5, TakesToEnd
<1>7. ASSUME NEW t, NEW P, Takes(l, y, t, P, Moved({l}))
      PROVE  Takes(l, y, t \o own, P, Final(l, 6, p))
  <2> DEFINE s == {l} Q == Seen({s}, {TRUE}, BOOLEAN, {TRUE})
  <2>0. l \in s /\ P \in SUBSET Views
    BY <1>7 DEF Takes
  <2>2. Q \subseteq Final(l, 6, p) /\ Final(l, 6, p) \subseteq Views
    BY <2>0, EndsWell, StagesAre
  <2>4. Takes(l, y, own, Moved(s), Q)
    BY <2>0, <1>2
  <2>5. Takes(l, y, t, P, Moved(s))
    BY <1>7
  <2> HIDE DEF s, Q
  <2>1. Takes(l, y, t \o own, P, Q)
    BY <2>4, <2>5, TakesOn
  <2>3. QED BY <2>0, <2>1, <2>2, TakesWithin
<1>8. /\ l = "linkA" => Takes(l, y, onlyA \o own, AtB, Final(l, 6, p))
      /\ l = "linkB" => Takes(l, y, noA \o own, AtA(l), Final(l, 6, p))
  BY <1>3, <1>7
<1>9. QED BY <1>1, <1>3, <1>4, <1>6, <1>8, LinksThere, FlowStaged

\* The raw tables, up to the sensors.
LEMMA RawTakes ==
  ASSUME NEW y, y \in Targets
  PROVE  /\ \A l \in Links :
              /\ Takes(l, y, max9296_two9295_raw12_linkab(y), AtB, Seen({Links}, {TRUE}, {TRUE}, BOOLEAN))
         /\ Takes("linkA", y, max9296_two9295_raw12_linka_2(y), AtB, Seen({{"linkA"}}, {TRUE}, {TRUE}, BOOLEAN))
         /\ Takes("linkB", y, max9296_two9295_raw12_linkb(y), AtA("linkB"), Seen({{"linkB"}}, {TRUE}, {TRUE}, BOOLEAN))
<1>1. Same(y, y) = {TRUE}
  BY DEF Same
<1>2. \A l \in Links : Takes(l, y, max9296_two9295_raw12_linkab(y), AtB, Seen({Links}, {TRUE}, Same(y, y), BOOLEAN))
  BY OwnIs, two9295_raw12_linkab_A, two9295_raw12_linkab_B DEF AtB, Moved
<1>3. Takes("linkA", y, max9296_two9295_raw12_linka_2(y), AtB, Seen({{"linkA"}}, {TRUE}, Same(y, y), BOOLEAN))
  BY two9295_raw12_linka_2_A DEF AtB, Moved
<1>4. Takes("linkB", y, max9296_two9295_raw12_linkb(y), AtA("linkB"), Seen({{"linkB"}}, {TRUE}, Same(y, y), BOOLEAN))
  BY two9295_raw12_linkb_B DEF AtA
<1>5. QED BY <1>1, <1>2, <1>3, <1>4

\* They begin alike for all sensors.
LEMMA RawBegins ==
  ASSUME NEW l \in Links, NEW y
  PROVE  /\ Takes(l, y, Elements(max9296_two9295_raw12_linka), Begin, AtA(l))
         /\ Takes(l, y, Elements(max9296_two9295_raw12_linka_1), AtA(l), AtB)
<1>1. CASE l = "linkA"
  BY <1>1, two9295_raw12_linka_A, two9295_raw12_linka_1_A, ElementsTake DEF Begin, AtA, AtB, Moved
<1>2. CASE l = "linkB"
  BY <1>2, two9295_raw12_linka_B, two9295_raw12_linka_1_B, ElementsTake DEF Begin, AtA, AtB, Moved
<1>3. QED BY <1>1, <1>2, OwnIs

\* The sensors answer where their tables were translated to.
LEMMA SensorsTake ==
  ASSUME NEW l \in Links, NEW y, NEW x, NEW p, NEW s, l \in s, NEW t, NEW P,
         Takes(l, y, t, P, Seen({s}, {TRUE}, {TRUE}, BOOLEAN))
  PROVE  /\ Takes(l, y, Elements(t) \o Elements(Sensor("0x36")) \o Elements(Sensor("0x38")), P, Final(l, x, p))
         /\ Takes(l, y, Elements(t) \o Elements(Sensor(Alias[l])), P, Final(l, x, p))
<1> DEFINE N == Seen({s}, {TRUE}, {TRUE}, BOOLEAN) G == Seen({s}, {TRUE}, {TRUE}, {TRUE}) F == Final(l, x, p)
           a == Elements(Sensor("0x36")) b == Elements(Sensor("0x38"))
<1>1. P \in SUBSET Views /\ F \in SUBSET Views /\ G \subseteq F
  BY EndsWell, StagesAre DEF Takes
<1>2. Takes(l, y, Elements(t), P, N)
  BY ElementsTake
<1>3. ASSUME NEW d \in Sensors
      PROVE  /\ Takes(l, y, Elements(Sensor(d)), N, N) /\ Takes(l, y, Elements(Sensor(d)), G, G)
             /\ d = Alias[l] => Takes(l, y, Elements(Sensor(d)), N, G)
  <2>1. \A v \in {s} : l \in v
    OBVIOUS
  <2>2. Takes(l, y, Elements(Sensor(d)), N, N) /\ (d = Alias[l] => Takes(l, y, Elements(Sensor(d)), N, G))
    BY <2>1, SensorTakes
  <2>3. Takes(l, y, Elements(Sensor(d)), G, G)
    BY SensorTakes
  <2>4. QED BY <2>2, <2>3
<1>4. Alias[l] \in Sensors /\ Alias[l] \in {"0x36", "0x38"} /\ {"0x36", "0x38"} \subseteq Sensors
  BY NamesDiffer DEF Sensors
<1> HIDE DEF N, G, F
<1>5. Takes(l, y, Elements(t) \o Elements(Sensor(Alias[l])), P, G)
  BY <1>2, <1>3, <1>4, TakesOn
<1>6. Takes(l, y, Elements(t) \o a \o b, P, G)
  <2>1. /\ Takes(l, y, a, N, N) /\ Takes(l, y, b, G, G) /\ Takes(l, y, b, N, N) /\ Takes(l, y, a, G, G)
        /\ Alias[l] = "0x36" => Takes(l, y, a, N, G)
        /\ Alias[l] = "0x38" => Takes(l, y, b, N, G)
    BY <1>3, <1>4
  <2> HIDE DEF a, b
  <2>2. CASE Alias[l] = "0x36"
    BY <2>1, <2>2, <1>2, TakesOn
  <2>3. CASE Alias[l] = "0x38"
    BY <2>1, <2>3, <1>2, TakesOn
  <2>4. QED BY <2>2, <2>3, <1>4
<1>7. /\ Takes(l, y, Elements(t) \o Elements(Sensor(Alias[l])), P, F)
      /\ Takes(l, y, Elements(t) \o a \o b, P, F)
  BY <1>1, <1>5, <1>6, TakesWithin
<1>8. QED BY <1>7 DEF F

\* A sensor's table was written for the address it is translated to.
LEMMA RawToIs ==
  ASSUME NEW n \in 0 .. 8
  PROVE  IF n = 7 THEN SensorAt(100 + n) = "" ELSE SensorAt(100 + n) = RawTo(n) /\ RawTo(n) \in Targets
<1>1. SensorAt(100 + n) = ele_info_raw[n + 1]
  <2>1. 100 + n \in 100 .. 108 /\ (100 + n) - 100 = n /\ 100 + n # 6
    OBVIOUS
  <2>2. QED BY <2>1 DEF SensorAt, SensorTable
<1>2. ele_info_raw = <<"0x6c", "0x6c", "0x20", "0x20", "0x42", "0x34", "0x34", "", "0x6c">>
  BY DEF ele_info_raw, max9296_9295_ox03c_raw_array, max9296_9295_OX8B_raw_array, max9296_9295_ar0233_raw_array,
         max9296_9295_ar0820_raw_array, max9296_9295_imx390_raw_array, max9296_9295_imx490_raw_array,
         max9296_9295_imx728_raw_array, max9296_9295D_imx900DB_raw12_array, max9296_96717_SHW3G_raw12_array
<1>3. /\ ele_info_raw[1] = "0x6c" /\ ele_info_raw[2] = "0x6c" /\ ele_info_raw[3] = "0x20"
      /\ ele_info_raw[4] = "0x20" /\ ele_info_raw[5] = "0x42" /\ ele_info_raw[6] = "0x34"
      /\ ele_info_raw[7] = "0x34" /\ ele_info_raw[8] = "" /\ ele_info_raw[9] = "0x6c"
  BY <1>2
<1>4. /\ n = 0 => n + 1 = 1
      /\ n = 1 => n + 1 = 2
      /\ n = 2 => n + 1 = 3
      /\ n = 3 => n + 1 = 4
      /\ n = 4 => n + 1 = 5
      /\ n = 5 => n + 1 = 6
      /\ n = 6 => n + 1 = 7
      /\ n = 7 => n + 1 = 8
      /\ n = 8 => n + 1 = 9
      /\ n \in {0, 1, 2, 3, 4, 5, 6, 7, 8}
  OBVIOUS
<1>5. /\ n \in {0, 1, 8} => RawTo(n) = "0x6c"
      /\ n \in {2, 3} => RawTo(n) = "0x20"
      /\ n = 4 => RawTo(n) = "0x42"
      /\ n \in {5, 6} => RawTo(n) = "0x34"
  BY DEF RawTo
<1>6. {"0x6c", "0x20", "0x42", "0x34"} \subseteq Targets
  BY DEF Targets
<1>7. ASSUME n # 7 PROVE ele_info_raw[n + 1] = RawTo(n) /\ RawTo(n) \in Targets
  <2>1. CASE n = 0
    BY <2>1, <1>3, <1>4, <1>5, <1>6
  <2>2. CASE n = 1
    BY <2>2, <1>3, <1>4, <1>5, <1>6
  <2>3. CASE n = 2
    BY <2>3, <1>3, <1>4, <1>5, <1>6
  <2>4. CASE n = 3
    BY <2>4, <1>3, <1>4, <1>5, <1>6
  <2>5. CASE n = 4
    BY <2>5, <1>3, <1>4, <1>5, <1>6
  <2>6. CASE n = 5
    BY <2>6, <1>3, <1>4, <1>5, <1>6
  <2>7. CASE n = 6
    BY <2>7, <1>3, <1>4, <1>5, <1>6
  <2>8. CASE n = 8
    BY <2>8, <1>3, <1>4, <1>5, <1>6
  <2>9. QED BY <1>4, <1>7, <2>1, <2>2, <2>3, <2>4, <2>5, <2>6, <2>7, <2>8
<1>8. n = 7 => ele_info_raw[n + 1] = ""
  BY <1>3, <1>4
<1>9. QED BY <1>1, <1>7, <1>8

\* Index 107 sets up a single link A.
LEMMA DbTakes ==
  ASSUME NEW y
  PROVE  Takes("linkA", y, RawOnlyA(7), AtB, Now({{"linkA"}}, {FALSE}))
<1> DEFINE Q == Now({{"linkA"}}, {FALSE})
<1>1. Q \in SUBSET Views /\ "linkA" \in Links
  BY SeenAre, OwnIs DEF Now
<1>2. Takes("linkA", y, Elements(max9296_two9295_raw12_linka_forDB), AtB, Q)
  BY <1>1, ElementsTake, two9295_raw12_linka_forDB_A DEF AtB, Moved
<1>3. Takes("linkA", y, <<>>, Q, Q)
  BY <1>1, LeadsNowhere, ChunkEmpty DEF Takes
<1> HIDE DEF Q
<1>4. Takes("linkA", y, Elements(max9296_two9295_raw12_linka_forDB) \o Elements(<<>>), AtB, Q)
  BY <1>1, <1>2, <1>3, ElementsTake, TakesOn
<1>5. QED BY <1>4 DEF Q, RawOnlyA

\* So the indices from 100 on are staged.
LEMMA RawStaged ==
  ASSUME NEW n \in 0 .. 8, NEW l \in Links, NEW p \in SUBSET Links, l \in p, Covered(100 + n, p)
  PROVE  Staged(serdes_channel_init_raw(n), l, 100 + n, p)
<1> DEFINE x == 100 + n y == SensorAt(x)
<1>1. /\ n = 7 => p = {"linkA"}
      /\ n = 8 => "linkA" \in p
  BY DEF Covered
<1>2. {"linkA", "linkB"} = Links /\ "linkA" # "linkB" /\ Alias["linkA"] = "0x36" /\ Alias["linkB"] = "0x38"
  BY NamesDiffer
<1>3. n # 7 => y = RawTo(n) /\ y \in Targets
  BY RawToIs
<1>4. n = 7 => y = ""
  BY RawToIs
<1> HIDE DEF x, y
<1>5. /\ Takes(l, y, Elements(max9296_two9295_raw12_linka), Begin, AtA(l))
      /\ Takes(l, y, Elements(max9296_two9295_raw12_linka_1), AtA(l), AtB)
  BY RawBegins
<1>6. p = Links => Takes(l, y, RawBoth(n), AtB, Final(l, x, p))
  <2>1. SUFFICES ASSUME p = Links PROVE Takes(l, y, RawBoth(n), AtB, Final(l, x, p))
    OBVIOUS
  <2>2. n # 7
    BY <1>1, <1>2, <2>1
  <2>3. Takes(l, y, max9296_two9295_raw12_linkab(y), AtB, Seen({Links}, {TRUE}, {TRUE}, BOOLEAN))
    BY <1>3, <2>2, RawTakes
  <2>4. Takes(l, y, Elements(max9296_two9295_raw12_linkab(y)) \o Elements(Sensor("0x36")) \o Elements(Sensor("0x38")),
              AtB, Final(l, x, p))
    BY <2>3, SensorsTake
  <2>5. QED BY <2>2, <2>4, <1>3 DEF RawBoth
<1>7. p = {"linkA"} => Takes(l, y, RawOnlyA(n), AtB, Final(l, x, p))
  <2>1. SUFFICES ASSUME p = {"linkA"} PROVE Takes(l, y, RawOnlyA(n), AtB, Final(l, x, p))
    OBVIOUS
  <2>2. l = "linkA"
    BY <2>1
  <2>3. CASE n = 7
    <3>1. Takes(l, y, RawOnlyA(n), AtB, Now({{"linkA"}}, {FALSE}))
      BY <2>2, <2>3, DbTakes
    <3>2. p # Links
      BY <1>2, <2>1
    <3>3. Now({{"linkA"}}, {FALSE}) \subseteq Final(l, x, p)
      BY <2>2, <2>3, <3>2, <1>4 DEF Final, Now, Seen, y
    <3>4. QED BY <3>1, <3>3, StagesAre, TakesWithin
  <2>4. CASE n # 7
    <3>1. Takes(l, y, max9296_two9295_raw12_linka_2(y), AtB, Seen({{"linkA"}}, {TRUE}, {TRUE}, BOOLEAN))
      BY <2>2, <2>4, <1>3, RawTakes
    <3>2. "linkA" \in {"linkA"}
      OBVIOUS
    <3>3. Takes(l, y, Elements(max9296_two9295_raw12_linka_2(y)) \o Elements(Sensor(Alias[l])), AtB, Final(l, x, p))
      BY <2>2, <3>1, <3>2, SensorsTake
    <3>4. QED BY <3>3, <2>2, <2>4, <1>2, <1>3 DEF RawOnlyA
  <2>5. QED BY <2>3, <2>4
<1>8. p = {"linkB"} => Takes(l, y, RawNoA(n), AtA(l), Final(l, x, p))
  <2>1. SUFFICES ASSUME p = {"linkB"} PROVE Takes(l, y, RawNoA(n), AtA(l), Final(l, x, p))
    OBVIOUS
  <2>2. l = "linkB" /\ n \notin {7, 8}
    BY <1>1, <1>2, <2>1
  <2>3. Takes(l, y, max9296_two9295_raw12_linkb(y), AtA(l), Seen({{"linkB"}}, {TRUE}, {TRUE}, BOOLEAN))
    BY <2>2, <1>3, RawTakes
  <2>4. "linkB" \in {"linkB"}
    OBVIOUS
  <2>5. Takes(l, y, Elements(max9296_two9295_raw12_linkb(y)) \o Elements(Sensor(Alias[l])), AtA(l), Final(l, x, p))
    BY <2>2, <2>3, <2>4, SensorsTake
  <2>6. QED BY <2>2, <2>5, <1>2, <1>3 DEF RawNoA
<1>9. Staged(serdes_channel_init_raw(n), l, x, p)
  BY <1>5, <1>6, <1>7, <1>8, FlowStaged DEF serdes_channel_init_raw, y
<1>10. QED BY <1>9 DEF x

\* So serdes_channel_init leads every link that is there from its beginning to
\* its end, whatever it is asked for.
LEMMA AllStaged ==
  ASSUME NEW x \in Indices, NEW p \in SUBSET Links, NEW l \in p, Covered(x, p)
  PROVE  Staged(serdes_channel_init(x), l, x, p)
<1>1. x \in {0, 1, 2, 6} \cup (100 .. 108) /\ l \in Links
  BY DEF Covered
<1>2. CASE x \in {0, 1, 2, 6}
  BY <1>1, <1>2, Index0Staged, Index1Staged, Index2Staged, Index6Staged DEF serdes_channel_init
<1>3. CASE x \in 100 .. 108
  <2> DEFINE n == x - 100
  <2>1. n \in 0 .. 8 /\ 100 + n = x
    BY <1>3
  <2>2. serdes_channel_init(x) = serdes_channel_init_raw(n)
    BY <1>3 DEF serdes_channel_init
  <2> HIDE DEF n
  <2>3. Staged(serdes_channel_init_raw(n), l, 100 + n, p)
    BY <1>1, <2>1, RawStaged
  <2>4. QED BY <2>1, <2>2, <2>3
<1>4. QED BY <1>1, <1>2, <1>3
-----------------------------------------------------------------------------
\* A configuration under way.

\* What is left to be run.
Left == IF Answered THEN Tail(todo) ELSE todo

\* What the end of a link comes to with a list that ends in stage m.
Goal(l, x, p, m) ==
    IF m = "linkA" THEN AtA(l) ELSE IF m = "linkB" THEN AtB ELSE Final(l, x, p)

OnCourse ==
    \A l \in present :
        Leads(l, SensorAt(index), Left, {View(l, SensorAt(index))}, Goal(l, index, present, Stage(todo)))

\* A link that is there answers its probe.
Heard ==
    todo # <<>> =>
        \A l \in present :
            /\ Head(todo).op = "probe" /\ Head(todo).dev = Own[l] /\ Answered =>
                    Outcome = Identity(index, Own[l])
            /\ Head(todo).op = l => result = Identity(index, Own[l])

SetUpInv ==
    /\ ~astray /\ OnCourse /\ Heard
    /\ present # {} /\ Stage(todo) = "linkB" => "linkA" \in present

\* What a configuration keeps as long as no command fails.
SetUpI ==
    /\ present \subseteq Links
    /\ failures = 0 /\ ~MarginTool /\ Covered(index, present) => SetUpInv

\* What a view shows.
LEMMA ViewIs ==
  ASSUME NEW l, NEW y
  PROVE  LET v == View(l, y) IN
         /\ v.sel = selected /\ v.moved = (addr[l] = Own[l])
         /\ v.told = (sensorTo[l] = y) /\ v.set = (l \in sensorsSet)
         /\ selected \subseteq Links => v \in Views
BY DEF View, Views

\* The links are what they are.
LEMMA PresentBegins == ASSUME Init PROVE present \subseteq Links
BY DEF Init

\* serdes_channel_init as it begins.
LEMMA SetUpBegins ==
  ASSUME Init, ~MarginTool, Covered(index, present)
  PROVE  SetUpInv
<1>1. /\ index \in Indices /\ todo = serdes_channel_init(index).start
      /\ selected \subseteq Links /\ phase = "idle" /\ present \subseteq Links
      /\ addr = [l \in Links |-> "0x80"] /\ ~astray
  BY DEF Init, CWInit, MarginTool
<1>2. ~Answered
  BY <1>1 DEF Answered
<1>3. ASSUME NEW l \in present
      PROVE  /\ Leads(l, SensorAt(index), todo, {View(l, SensorAt(index))}, AtA(l))
             /\ Stage(todo) = "linkA"
  <2> DEFINE y == SensorAt(index) v == View(l, y)
  <2>1. Brings(l, index, todo, Begin, AtA(l), "linkA")
    BY <1>1, AllStaged DEF Staged
  <2>2. v \in Begin
    <3>1. l \in Links /\ addr[l] # Own[l]
      BY <1>1, OwnIs
    <3>2. v \in Views /\ v.moved = FALSE
      <4>1. v \in Views /\ v.moved = (addr[l] = Own[l])
        BY <1>1, ViewIs
      <4> HIDE DEF v
      <4>2. v.moved \in BOOLEAN /\ ~v.moved
        BY <3>1, <4>1 DEF Views
      <4>3. QED BY <4>1, <4>2
    <3> HIDE DEF v
    <3>3. v.sel \in SUBSET Links /\ v.told \in BOOLEAN /\ v.set \in BOOLEAN
      BY <3>2 DEF Views
    <3>4. QED BY <3>2, <3>3 DEF Begin, Now, Seen
  <2> HIDE DEF v
  <2>3. QED BY <2>1, <2>2, LeadsFrom DEF Brings, v
<1>4. OnCourse
  BY <1>2, <1>3 DEF OnCourse, Left, Goal
<1>5. todo # <<>> => Head(todo).op \notin {"probe"} \cup Links
  <2>1. Fresh(todo)
    BY <1>1, AllFresh DEF FlowFresh
  <2>2. ChannelList(todo) /\ (todo # <<>> => todo[1].op \notin {"probe"} \cup Links)
    BY <2>1 DEF Fresh
  <2>3. QED BY <2>2, FirstIs
<1>6. Heard
  BY <1>1, <1>5 DEF Heard
<1>7. present # {} => Stage(todo) = "linkA"
  BY <1>3
<1>8. QED BY <1>1, <1>4, <1>6, <1>7 DEF SetUpInv

\* A step that only concerns the command under way.
LEMMA SetUpQuiet ==
  ASSUME SetUpInv, UNCHANGED <<todo, selected, addr, sensorTo, sensorsSet, astray, index, present, result>>,
         Answered' <=> Answered, Answered => Outcome' = Outcome
  PROVE  SetUpInv'
<1>1. Left' = Left
  BY DEF Left
<1>2. \A l : View(l, SensorAt(index))' = View(l, SensorAt(index))
  BY DEF View
<1>3. OnCourse'
  BY <1>1, <1>2 DEF OnCourse, SetUpInv
<1>4. Heard'
  BY DEF Heard, SetUpInv
<1>5. QED BY <1>3, <1>4 DEF SetUpInv

\* The result of a command is taken, and the next step begins.
LEMMA StageTail == ASSUME NEW t \in Seq(Steps), t # <<>>, t[1].op \notin Links PROVE Stage(Tail(t)) = Stage(t)
<1> DEFINE u == Tail(t) n == Len(t) m == Len(u)
<1>1. /\ u \in Seq(Steps) /\ m \in Nat /\ n = m + 1 /\ (u # <<>> <=> m # 0)
      /\ \A k \in 1 .. m : u[k] = t[k + 1]
  <2>1. /\ u \in Seq(Steps) /\ m \in Nat /\ n = m + 1 /\ \A k \in 1 .. m : u[k] = t[k + 1]
    BY TailIs
  <2> HIDE DEF n
  <2>2. u # <<>> <=> m # 0
    BY <2>1
  <2>3. QED BY <2>1, <2>2
<1> HIDE DEF u, n, m
<1>2. CASE m = 0
  <2>1. n = 1
    BY <1>1, <1>2
  <2>2. Stage(t) = "end"
    BY <2>1 DEF Stage, n
  <2>3. Stage(u) = "end"
    BY <1>1, <1>2 DEF Stage
  <2>4. QED BY <2>2, <2>3 DEF u
<1>3. CASE m # 0
  <2>1. m \in 1 .. m /\ u # <<>>
    BY <1>1, <1>3
  <2>2. u[m] = t[n]
    BY <2>1, <1>1
  <2>3. Stage(u) = Stage(t)
    BY <2>1, <2>2 DEF Stage, n, m
  <2>4. QED BY <2>3 DEF u
<1>4. QED BY <1>2, <1>3

\* A step whose result is taken leaves the list on its course.
LEMMA SetUpNext ==
  ASSUME index \in Indices, ChannelList(todo), ToolInv, SetUpInv, present \subseteq Links, Next_step
  PROVE  SetUpInv'
<1> DEFINE t == todo s == t[1] u == Tail(t)
<1>1. /\ todo # <<>> /\ s.op \notin Decisions /\ todo' = u /\ Answered /\ ~Answered'
      /\ Outcome = cmd_result /\ Head(t) = s
      /\ UNCHANGED <<selected, addr, sensorTo, sensorsSet, astray, present, index>>
      /\ result' = IF s.op = "probe" THEN cmd_result ELSE result
  <2>1. /\ phase = "back" /\ phase' = "idle" /\ todo' = u /\ todo # <<>> /\ Head(todo).op \notin Decisions
        /\ UNCHANGED <<selected, addr, sensorTo, sensorsSet, astray, present, index>>
        /\ result' = IF Head(todo).op = "probe" THEN cmd_result ELSE result
    BY DEF Next_step, Return, ToolInv, UnderWay, board, bus
  <2>2. Head(todo) = s
    BY <2>1, FirstIs
  <2>3. QED BY <2>1, <2>2 DEF Answered, Outcome
<1>2. /\ t \in Seq(Steps) /\ u \in Seq(Steps) /\ Len(u) \in Nat /\ Len(t) = Len(u) + 1
      /\ \A k \in 1 .. Len(u) : u[k] = t[k + 1] /\ k + 1 \in 1 .. Len(t)
  BY <1>1, FirstIs, TailIs
<1>3. \A k \in 1 .. Len(t) :
        /\ t[k].op = "probe" =>
            /\ Len(t) = k + 1
            /\ t[k + 1].op \in Links /\ t[k].dev = Own[t[k + 1].op]
        /\ t[k].op \in Links /\ k > 1 => t[k - 1].op = "probe"
  BY DEF ChannelList
<1>4. Stage(u) = Stage(t)
  BY <1>1, <1>2, StageTail DEF Decisions, Links
<1> HIDE DEF t, s, u
<1>5. Left = u /\ Left' = u
  BY <1>1 DEF Left, t, u
<1>6. OnCourse'
  <2>1. \A l : View(l, SensorAt(index))' = View(l, SensorAt(index))
    BY <1>1 DEF View
  <2>2. QED BY <2>1, <1>1, <1>4, <1>5 DEF OnCourse, SetUpInv, t
<1>7. Heard'
  <2>1. SUFFICES ASSUME u # <<>>, NEW l \in present, u[1].op = l
                 PROVE  result' = Identity(index, Own[l])
    <3>1. u # <<>> => Head(u) = u[1]
      BY <1>2, TailIs
    <3>2. QED BY <3>1, <1>1 DEF Heard
  <2>2. u[1] = t[2] /\ 2 \in 1 .. Len(t) /\ 2 - 1 = 1 /\ 1 \in 1 .. Len(t) /\ 1 + 1 = 2
    <3>1. 1 \in 1 .. Len(u)
      BY <2>1, <1>2, TailIs
    <3>2. QED BY <3>1, <1>2
  <2>3. s.op = "probe"
    BY <2>1, <2>2, <1>3 DEF s
  <2>4. s.dev = Own[l]
    BY <2>1, <2>2, <2>3, <1>3 DEF s
  <2>5. Outcome = Identity(index, Own[l])
    BY <2>3, <2>4, <1>1 DEF SetUpInv, Heard, t
  <2>6. QED BY <2>3, <2>5, <1>1
<1>8. QED BY <1>1, <1>4, <1>6, <1>7 DEF SetUpInv, t
-----------------------------------------------------------------------------
\* A command on the bus.

\* Which serializers answer to an address.
LEMMA WhoAnswers ==
  ASSUME selected \subseteq Links, \A l \in Links : addr[l] \in {"0x80", Own[l]}
  PROVE  /\ At("0x90") = {} /\ \A l \in Links : At(Own[l]) \subseteq {l}
         /\ \A a : \A l \in present : l \in At(a) <=> l \in selected /\ addr[l] = a
         /\ \A a : At(a) \subseteq selected
BY NamesDiffer DEF At

\* What a command does to the serializers: those it concerns, and the others.
LEMMA OthersKept ==
  ASSUME NEW c, OnBus(c), NEW l \in Links
  PROVE  /\ c.reg = "move" => addr'[l] = IF l \in At(c.dev) THEN c.as ELSE addr[l]
         /\ c.reg = "reset" => addr'[l] = IF l \in At(c.dev) THEN "0x80" ELSE addr[l]
         /\ c.reg \notin {"move", "reset"} => addr'[l] = addr[l]
         /\ c.reg = "translate" => sensorTo'[l] = IF l \in At(c.dev) THEN c.as ELSE sensorTo[l]
         /\ c.reg = "reset" => sensorTo'[l] = IF l \in At(c.dev) THEN "" ELSE sensorTo[l]
         /\ c.reg \notin {"translate", "reset"} => sensorTo'[l] = sensorTo[l]
<1> DEFINE to == At(c.dev)
<1>1. /\ addr' = CASE c.reg = "move" -> [m \in Links |-> IF m \in to THEN c.as ELSE addr[m]]
                   [] c.reg = "reset" -> [m \in Links |-> IF m \in to THEN "0x80" ELSE addr[m]]
                   [] OTHER -> addr
      /\ sensorTo' = CASE c.reg = "translate" -> [m \in Links |-> IF m \in to THEN c.as ELSE sensorTo[m]]
                       [] c.reg = "reset" -> [m \in Links |-> IF m \in to THEN "" ELSE sensorTo[m]]
                       [] OTHER -> sensorTo
  BY DEF OnBus
<1> HIDE DEF to
<1>2. CASE c.reg = "move"
  BY <1>1, <1>2 DEF to
<1>3. CASE c.reg = "reset"
  BY <1>1, <1>3 DEF to
<1>4. CASE c.reg = "translate"
  BY <1>1, <1>4 DEF to
<1>5. CASE c.reg \notin {"move", "reset", "translate"}
  BY <1>1, <1>5
<1>6. QED BY <1>2, <1>3, <1>4, <1>5

\* A link's end becomes what the step makes of it.
LEMMA BusBecomes ==
  ASSUME NEW c, NEW s, c.op = s.op, c.dev = s.dev, c.reg = s.reg, s.op = "element" => c.as = s.as,
         ChannelStep(s), OnBus(c), selected \subseteq Links, selected' \subseteq Links,
         ~Selecting(s) => selected' = selected,
         Selecting(s) /\ s.reg = "select" => selected' = Chosen[s.as],
         present \subseteq Links, \A m \in Links : addr[m] \in {"0x80", Own[m]},
         NEW l \in present, NEW y, y = SensorAt(index), Safe(l, s, View(l, y)),
         NEW w, w = View(l, y)'
  PROVE  w \in Views /\ Becomes(l, y, s, View(l, y), w)
<1> DEFINE v == View(l, y) to == At(c.dev) mine == l \in to
<1>1. /\ v.sel = selected /\ v.moved = (addr[l] = Own[l])
      /\ v.told = (sensorTo[l] = y) /\ v.set = (l \in sensorsSet) /\ v \in Views
  BY ViewIs
<1>2. /\ w.sel = selected' /\ w.moved = (addr'[l] = Own[l])
      /\ w.told = (sensorTo'[l] = y) /\ w.set = (l \in sensorsSet') /\ w \in Views
  BY DEF View, Views
<1>3. /\ l \in Links /\ "0x80" # Own[l] /\ addr[l] \in {"0x80", Own[l]}
      /\ (mine <=> l \in selected /\ addr[l] = s.dev)
      /\ s.dev = "0x90" => ~mine
      /\ \A m \in Links : s.dev = Own[m] /\ mine => m = l
      /\ Own[l] \in {"0xc0", "0xc4"}
  <2>1. /\ At("0x90") = {} /\ \A m \in Links : At(Own[m]) \subseteq {m}
        /\ l \in At(s.dev) <=> l \in selected /\ addr[l] = s.dev
    BY WhoAnswers
  <2>2. QED BY <2>1, NamesDiffer
<1>4. /\ s.op # "element" => s.reg = ""
      /\ s.reg = "select" => s.dev = "0x90" /\ s.as \in {"a", "b", "ab"}
      /\ s.reg = "move" => \E m \in Links : s = Move(Own[m])
  BY DEF ChannelStep
<1>5. Safe(l, s, v)
  OBVIOUS
<1>6. /\ s.reg = "move" => addr'[l] = IF mine THEN s.as ELSE addr[l]
      /\ s.reg = "reset" => addr'[l] = IF mine THEN "0x80" ELSE addr[l]
      /\ s.reg \notin {"move", "reset"} => addr'[l] = addr[l]
      /\ s.reg = "translate" => sensorTo'[l] = IF mine THEN s.as ELSE sensorTo[l]
      /\ s.reg = "reset" => sensorTo'[l] = IF mine THEN "" ELSE sensorTo[l]
      /\ s.reg \notin {"translate", "reset"} => sensorTo'[l] = sensorTo[l]
  <2>1. s.reg # "" => c.as = s.as
    BY <1>4
  <2>2. QED BY <2>1, <1>3, OthersKept
<1>7. l \in sensorsSet' <=>
        \/ l \in sensorsSet
        \/ s.op = "sensor" /\ l \in selected /\ (s.dev = y \/ (s.dev = Alias[l] /\ sensorTo[l] = y))
  <2>1. sensorsSet' = IF c.op # "sensor" THEN sensorsSet
                      ELSE sensorsSet \cup {m \in selected \cap present :
                             c.dev = y \/ (c.dev = Alias[m] /\ sensorTo[m] = y)}
    BY DEF OnBus
  <2>2. QED BY <2>1
<1> HIDE DEF v, to, mine
<1>8. s.reg = "select" => w.sel = Chosen[s.as]
  BY <1>2, <1>4 DEF Selecting
<1>9. ~Selecting(s) => w.sel = v.sel
  BY <1>1, <1>2
<1>10. w.moved <=> IF s = Move(Own[l]) THEN v.moved \/ l \in v.sel
                   ELSE IF s = Reset(Own[l]) THEN v.moved /\ l \notin v.sel
                   ELSE v.moved
  <2>1. CASE s = Move(Own[l])
    <3>1. s.reg = "move" /\ s.dev = "0x80" /\ s.as = Own[l]
      BY <2>1, <1>3, MoveIs
    <3>2. QED BY <2>1, <3>1, <1>1, <1>2, <1>3, <1>6
  <2>2. CASE s.reg = "move" /\ s # Move(Own[l])
    <3>1. l \notin v.sel /\ s # Reset(Own[l])
      <4>1. s.op = "element"
        BY <2>2, <1>4
      <4>2. Reset(Own[l]).reg = "reset"
        BY DEF Reset, Element, Step
      <4>3. QED BY <2>2, <4>1, <4>2, <1>5 DEF Safe
    <3>2. QED BY <2>2, <3>1, <1>1, <1>2, <1>3, <1>6
  <2>3. CASE s = Reset(Own[l])
    <3>1. s.reg = "reset" /\ s.dev = Own[l] /\ s # Move(Own[l])
      BY <2>3 DEF Reset, Move, Element, Step
    <3>2. QED BY <2>3, <3>1, <1>1, <1>2, <1>3, <1>6
  <2>4. CASE s.reg = "reset" /\ s # Reset(Own[l])
    <3>1. ~mine /\ s # Move(Own[l])
      <4>1. s.op = "element"
        BY <2>4, <1>4
      <4>2. Move(Own[l]).reg = "move"
        BY DEF Move, Element, Step
      <4>3. s.dev \in Devices /\ s.dev # "0x80" /\ s.dev # Own[l]
        BY <2>4, <4>1, <1>5 DEF Safe
      <4>4. QED BY <2>4, <4>2, <4>3, <1>3
    <3>2. QED BY <2>4, <3>1, <1>1, <1>2, <1>6
  <2>5. CASE s.reg \notin {"move", "reset"}
    <3>1. s # Move(Own[l]) /\ s # Reset(Own[l])
      <4>1. Move(Own[l]).reg = "move" /\ Reset(Own[l]).reg = "reset"
        BY DEF Move, Reset, Element, Step
      <4>2. QED BY <2>5, <4>1
    <3>2. QED BY <2>5, <3>1, <1>1, <1>2, <1>6
  <2>6. QED BY <2>1, <2>2, <2>3, <2>4, <2>5
<1>11. IF s.reg = "translate" /\ s.dev = Own[l] THEN w.told <=> (s.as = y)
       ELSE s # Reset(Own[l]) => (w.told <=> v.told)
  <2>1. CASE s.reg = "translate" /\ s.dev = Own[l]
    <3>1. mine
      <4>1. s.op = "element"
        BY <2>1, <1>4
      <4>2. l \in v.sel /\ v.moved
        BY <2>1, <4>1, <1>5 DEF Safe
      <4>3. QED BY <2>1, <4>2, <1>1, <1>3
    <3>2. QED BY <2>1, <3>1, <1>2, <1>6
  <2>2. CASE s.reg = "translate" /\ s.dev # Own[l]
    <3>1. ~mine
      <4>1. s.op = "element"
        BY <2>2, <1>4
      <4>2. s.dev # "0x80"
        BY <2>2, <4>1, <1>5 DEF Safe
      <4>3. QED BY <2>2, <4>2, <1>3
    <3>2. QED BY <2>2, <3>1, <1>1, <1>2, <1>6
  <2>3. CASE s.reg = "reset" /\ s # Reset(Own[l])
    <3>1. ~mine
      <4>1. s.op = "element"
        BY <2>3, <1>4
      <4>2. s.dev # "0x80" /\ s.dev # Own[l]
        BY <2>3, <4>1, <1>5 DEF Safe
      <4>3. QED BY <2>3, <4>2, <1>3
    <3>2. QED BY <2>3, <3>1, <1>1, <1>2, <1>6
  <2>4. CASE s.reg = "reset" /\ s = Reset(Own[l])
    BY <2>4
  <2>5. CASE s.reg \notin {"translate", "reset"}
    BY <2>5, <1>1, <1>2, <1>6
  <2>6. QED BY <2>1, <2>2, <2>3, <2>4, <2>5
<1>12. w.set <=> (v.set \/ (/\ s.op = "sensor" /\ l \in v.sel
                            /\ s.dev = y \/ (s.dev = Alias[l] /\ v.told)))
  BY <1>1, <1>2, <1>7
<1>13. {v.moved, v.told, v.set, w.moved, w.told, w.set} \subseteq BOOLEAN
  BY <1>1, <1>2 DEF Views
<1>14. Becomes(l, y, s, v, w)
  BY <1>8, <1>9, <1>10, <1>11, <1>12, <1>13 DEF Becomes
<1>15. QED BY <1>2, <1>14 DEF v

\* A set of one link at most.
LEMMA OneAtMost == ASSUME NEW m, NEW S, S \subseteq {m} PROVE ~(Cardinality(S) > 1)
<1>1. S = {} \/ S = {m}
  OBVIOUS
<1>2. Cardinality({}) = 0 /\ Cardinality({m}) = 1
  BY FS_EmptySet, FS_Singleton
<1>3. QED BY <1>1, <1>2

\* A setting reaches the serializer it is for, and only that.
LEMMA NoneAstray ==
  ASSUME NEW c, NEW s, c.op = s.op, c.dev = s.dev, c.reg = s.reg, ChannelStep(s), OnBus(c), ~astray,
         selected \subseteq Links, present \subseteq Links, \A m \in Links : addr[m] \in {"0x80", Own[m]},
         NEW y, \A l \in present : Safe(l, s, View(l, y))
  PROVE  ~astray'
<1> DEFINE to == At(s.dev)
<1>1. SUFFICES ASSUME s.reg \in {"set", "translate"}, s.dev # "0x90"
               PROVE  ~(Meant(s.dev) # {} /\ to = {}) /\ ~(Cardinality(to) > 1)
  BY DEF OnBus
<1>2. s.op = "element"
  BY <1>1 DEF ChannelStep
<1>3. ASSUME NEW l \in present
      PROVE  /\ s.dev \in Devices /\ l \in Links
             /\ s.dev = Own[l] => l \in selected /\ addr[l] = Own[l]
             /\ s.dev = "0x80" /\ l \in selected => selected = {l} /\ addr[l] # Own[l]
  <2> DEFINE v == View(l, y)
  <2>1. Safe(l, s, v) /\ v.sel = selected /\ v.moved = (addr[l] = Own[l])
    BY ViewIs
  <2> HIDE DEF v
  <2>2. QED BY <2>1, <1>1, <1>2 DEF Safe
<1>4. /\ \A m \in Links : At(Own[m]) \subseteq {m}
      /\ \A a : \A l \in present : l \in At(a) <=> l \in selected /\ addr[l] = a
      /\ \A a : At(a) \subseteq selected \cap present
  BY WhoAnswers DEF At
<1> HIDE DEF to
<1>5. CASE present = {}
  <2>1. to = {} /\ Meant(s.dev) = {}
    BY <1>4, <1>5 DEF Meant, to
  <2>2. QED BY <2>1, OneAtMost
<1>6. CASE s.dev = "0x80"
  <2>1. ASSUME NEW l \in Meant(s.dev) PROVE l \in to /\ to \subseteq {l}
    <3>1. l \in selected \cap present
      BY <1>6 DEF Meant
    <3>2. selected = {l} /\ addr[l] = "0x80"
      BY <3>1, <1>3, <1>6
    <3>3. QED BY <3>1, <3>2, <1>4, <1>6 DEF to
  <2>2. to \subseteq Meant(s.dev)
    BY <1>4, <1>6 DEF Meant, to
  <2>3. CASE Meant(s.dev) = {}
    <3>1. to \subseteq {"linkA"}
      BY <2>2, <2>3
    <3>2. QED BY <3>1, <2>3, OneAtMost
  <2>4. CASE Meant(s.dev) # {}
    BY <2>1, <2>4, OneAtMost
  <2>5. QED BY <2>3, <2>4
<1>7. CASE present # {} /\ s.dev # "0x80"
  <2>1. PICK m \in Links : s.dev = Own[m]
    <3>1. s.dev \in {"0xc0", "0xc4"}
      BY <1>1, <1>3, <1>7 DEF Devices
    <3>2. QED BY <3>1, NamesDiffer
  <2>2. to \subseteq {m}
    BY <2>1, <1>4 DEF to
  <2>3. ASSUME Meant(s.dev) # {} PROVE m \in to
    <3>1. PICK l \in present : Own[l] = s.dev
      BY <2>3, <1>7 DEF Meant
    <3>2. l \in to
      BY <3>1, <1>3, <1>4 DEF to
    <3>3. QED BY <3>2, <2>2
  <2>4. QED BY <2>2, <2>3, OneAtMost
<1>8. QED BY <1>5, <1>6, <1>7

\* The A53 runs a command: every link's end goes on as its list has it.
LEMMA SetUpExecute ==
  ASSUME index \in Indices, ChannelList(todo), ToolInv, ~lost, ChannelInv, ChannelInv',
         SetUpInv, present \subseteq Links, Execute
  PROVE  SetUpInv'
<1> DEFINE t == todo s == Head(todo)
<1>0. PICK y : y = SensorAt(index)
  OBVIOUS
<1>1. /\ exec.busy /\ exec.cmd = Command(s) /\ irq /\ phase = "poll"
      /\ todo # <<>> /\ s.op \notin Decisions
  BY DEF Execute, ToolInv, InStep, UnderWay
<1>2. PICK v \in Answers(exec.cmd) : A53Done(v)
  BY DEF Execute
<1>3. /\ UNCHANGED <<todo, phase, index, result, cmd_result, present>>
      /\ ~Answered /\ Answered' /\ Outcome' = v
  BY <1>1, <1>2 DEF Execute, toolLocals, A53Done, Answer, toolVars, Answered, Outcome, OnBus
<1> DEFINE c == exec.cmd
<1>4. /\ c.op = s.op /\ c.dev = s.dev /\ c.reg = s.reg
      /\ s.op = "element" => c.as = s.as
  BY <1>1, CommandIs
<1>5. t \in Seq(Steps) /\ s = t[1] /\ ChannelStep(s) /\ OnBus(c)
  BY <1>1, FirstIs DEF Execute
<1>6. /\ selected \subseteq Links /\ selected' \subseteq Links
      /\ \A l \in Links : addr[l] \in {"0x80", Own[l]}
  BY DEF ChannelInv
<1>7. /\ ~Selecting(s) => selected' = selected
      /\ Selecting(s) /\ s.reg = "select" => selected' = Chosen[s.as]
  <2>1. CASE ~Selecting(s)
    BY <2>1, <1>4, <1>5 DEF OnBus, Selecting
  <2>2. CASE Selecting(s) /\ s.reg = "select"
    <3>1. c.op = "element" /\ c.dev = "0x90" /\ c.reg = "select" /\ c.as = s.as
      BY <2>2, <1>4 DEF Selecting
    <3>2. QED BY <3>1, <2>2, <1>5 DEF OnBus
  <2>3. QED BY <2>1, <2>2
<1>8. Left = t /\ Left' = Tail(t) /\ Stage(todo)' = Stage(todo)
  BY <1>3 DEF Left
<1>9. ASSUME NEW l \in present
      PROVE  /\ Safe(l, s, View(l, y))
             /\ Leads(l, y, Tail(t), {View(l, y)'}, Goal(l, index, present, Stage(todo)))
  <2> DEFINE a == View(l, y) w == View(l, y)' Q == Goal(l, index, present, Stage(todo))
  <2>1. Leads(l, y, t, {a}, Q) /\ a \in {a}
    BY <1>0, <1>8 DEF SetUpInv, OnCourse
  <2>2. /\ Safe(l, s, a)
        /\ \A b \in Views : Becomes(l, y, s, a, b) => Leads(l, y, Tail(t), {b}, Q)
    <3> HIDE DEF a, Q
    <3>1. QED BY <2>1, <1>1, <1>5, LeadsTail
  <2>3. w \in Views /\ Becomes(l, y, s, a, w)
    BY <2>2, <1>0, <1>4, <1>5, <1>6, <1>7, BusBecomes
  <2> HIDE DEF a, w, Q
  <2>4. QED BY <2>2, <2>3 DEF a, w, Q
<1>10. OnCourse'
  <2>1. \A l : View(l, SensorAt(index))' = View(l, y)'
    BY <1>0, <1>3 DEF View
  <2>2. QED BY <2>1, <1>0, <1>3, <1>8, <1>9 DEF OnCourse
<1>11. ~astray'
  BY <1>4, <1>5, <1>6, <1>9, NoneAstray DEF SetUpInv
<1>12. Heard'
  <2>1. s.op \notin Links
    BY <1>1 DEF Decisions, Links
  <2>2. ASSUME NEW l \in present, s.op = "probe", s.dev = Own[l] PROVE v = Identity(index, Own[l])
    <3> DEFINE a == View(l, y)
    <3>1. a.sel = selected /\ a.moved = (addr[l] = Own[l]) /\ Safe(l, s, a)
      <4>1. Safe(l, s, a)
        BY <1>9
      <4>2. QED BY <4>1, ViewIs
    <3> HIDE DEF a
    <3>2. l \in selected /\ addr[l] = Own[l]
      BY <2>2, <3>1 DEF Safe
    <3>3. At(c.dev) # {}
      BY <3>2, <2>2, <1>4 DEF At
    <3>4. Answers(c) = {IF At(c.dev) # {} THEN Identity(index, c.dev) ELSE Text}
      BY <2>2, <1>4 DEF Answers
    <3>5. QED BY <3>3, <3>4, <2>2, <1>2, <1>4
  <2>3. QED BY <2>1, <2>2, <1>3 DEF Heard
<1>13. QED BY <1>3, <1>8, <1>10, <1>11, <1>12 DEF SetUpInv

\* A decision changes nothing at the ends of the links.
LEMMA DecidingBecomes ==
  ASSUME NEW l, NEW y, NEW s, s.op \in Links, s.reg = "", NEW v \in Views
  PROVE  Becomes(l, y, s, v, v)
<1>1. s # Move(Own[l]) /\ s # Reset(Own[l])
  <2>1. Move(Own[l]).reg = "move" /\ Reset(Own[l]).reg = "reset"
    BY DEF Move, Reset, Element, Step
  <2>2. QED BY <2>1
<1>2. s.op # "sensor" /\ v.set \in BOOLEAN
  BY DEF Links, Views
<1>3. QED BY <1>1, <1>2 DEF Becomes

\* At a decision the ends of the links are as far as its list brings them.
LEMMA SetUpAt ==
  ASSUME ChannelList(todo), ChannelInv, SetUpInv, NEW m \in Links, Deciding(m)
  PROVE  /\ Stage(todo) = m /\ ~Answered
         /\ \A l \in present : View(l, SensorAt(index)) \in Goal(l, index, present, m)
<1> DEFINE s == todo[1]
<1>1. /\ phase = "idle" /\ todo # <<>> /\ s.op = m /\ todo \in Seq(Steps) /\ 1 \in 1 .. Len(todo)
      /\ ChannelStep(s)
  BY FirstIs DEF Deciding
<1>2. Len(todo) = 1
  BY <1>1 DEF ChannelList, StepsEnd, Decisions, Links
<1>3. ~Answered /\ Left = todo
  BY <1>1 DEF Answered, Left
<1>4. Stage(todo) = m
  BY <1>1, <1>2 DEF Stage
<1>5. Tail(todo) = <<>>
  <2> DEFINE u == Tail(todo)
  <2>1. u \in Seq(Steps) /\ Len(u) = 0
    BY <1>1, <1>2, TailIs
  <2> HIDE DEF u
  <2>2. u = <<>>
    BY <2>1
  <2>3. QED BY <2>2 DEF u
<1>6. s.reg = ""
  BY <1>1 DEF ChannelStep, Links
<1> HIDE DEF s
<1>7. ASSUME NEW l \in present
      PROVE  View(l, SensorAt(index)) \in Goal(l, index, present, m)
  <2> DEFINE y == SensorAt(index) v == View(l, y) Q == Goal(l, index, present, m)
  <2>1. Leads(l, y, todo, {v}, Q) /\ v \in {v}
    BY <1>3, <1>4 DEF SetUpInv, OnCourse
  <2>2. v \in Views
    BY ViewIs DEF ChannelInv
  <2> HIDE DEF y, v, Q
  <2>3. Becomes(l, y, todo[1], v, v)
    BY <2>2, <1>1, <1>6, DecidingBecomes DEF s
  <2>4. Leads(l, y, <<>>, {v}, Q)
    BY <2>1, <2>2, <2>3, <1>1, <1>5, LeadsTail
  <2>5. v \in Q
    BY <2>4, LeadsEnd
  <2>6. QED BY <2>5 DEF v, y, Q
<1>8. QED BY <1>3, <1>4, <1>7

\* A decision finds the link that is there, and puts a list in place that goes
\* on from where the ends of the links are.
LEMMA SetUpTakes ==
  ASSUME index \in Indices, ChannelList(todo), ChannelInv, SetUpInv,
         present \subseteq Links, Covered(index, present), DecideLinkA \/ DecideLinkB
  PROVE  SetUpInv'
<1> DEFINE f == serdes_channel_init(index) y == SensorAt(index)
<1>1. /\ UNCHANGED <<selected, addr, sensorTo, sensorsSet, astray, present, index, result, phase>>
      /\ phase = "idle" /\ todo # <<>>
  BY DEF DecideLinkA, DecideLinkB, LocalsOnly, Deciding, board, bus, cwVars, toolVars
<1>2. ~Answered' /\ Left' = todo'
  BY <1>1 DEF Answered, Left
<1>3. \A l \in present : Staged(f, l, index, present)
  BY AllStaged
<1>4. Links = {"linkA", "linkB"}
  BY DEF Links
<1>5. ASSUME NEW m \in Links, Deciding(m)
      PROVE  /\ Stage(todo) = m /\ \A l \in present : View(l, y) \in Goal(l, index, present, m)
             /\ result = Identity(index, Own[m]) <=> m \in present
  <2>1. /\ Stage(todo) = m /\ \A l \in present : View(l, y) \in Goal(l, index, present, m)
    BY <1>5, SetUpAt
  <2>2. result = Identity(index, Own[m]) => m \in present
    BY <1>5 DEF ChannelInv, Told, Tells, Deciding
  <2>3. m \in present => result = Identity(index, Own[m])
    BY <1>5 DEF SetUpInv, Heard, Deciding
  <2>4. QED BY <2>1, <2>2, <2>3
<1> HIDE DEF f
<1>6. ASSUME NEW l \in present
      PROVE  /\ Leads(l, y, todo', {View(l, y)}, Goal(l, index, present, Stage(todo')))
             /\ Stage(todo') = "linkB" => "linkA" \in present
  <2> DEFINE v == View(l, y)
  <2>1. /\ Brings(l, index, f.start, Begin, AtA(l), "linkA")
        /\ "linkA" \in present => Brings(l, index, f.between, AtA(l), AtB, "linkB")
        /\ present = Links => Brings(l, index, f.both, AtB, Final(l, index, present), "end")
        /\ present = {"linkA"} => Brings(l, index, f.onlyA, AtB, Final(l, index, present), "end")
        /\ present = {"linkB"} => Brings(l, index, f.noA, AtA(l), Final(l, index, present), "end")
    BY <1>3 DEF Staged
  <2> HIDE DEF v
  <2>2. ASSUME NEW P, v \in P, Brings(l, index, todo', P, AtB, "linkB"), "linkA" \in present
        PROVE  /\ Leads(l, y, todo', {v}, Goal(l, index, present, Stage(todo')))
               /\ Stage(todo') = "linkB" => "linkA" \in present
    <3>1. Leads(l, y, todo', {v}, AtB) /\ Stage(todo') = "linkB"
      BY <2>2, LeadsFrom DEF Brings
    <3>2. QED BY <3>1, <2>2 DEF Goal
  <2>3. ASSUME NEW P, v \in P, Brings(l, index, todo', P, Final(l, index, present), "end")
        PROVE  /\ Leads(l, y, todo', {v}, Goal(l, index, present, Stage(todo')))
               /\ Stage(todo') = "linkB" => "linkA" \in present
    <3>1. Leads(l, y, todo', {v}, Final(l, index, present)) /\ Stage(todo') = "end"
      BY <2>3, LeadsFrom DEF Brings
    <3>2. QED BY <3>1 DEF Goal
  <2>4. CASE DecideLinkA
    <3>1. v \in AtA(l) /\ (result = Identity(index, Own.linkA) <=> "linkA" \in present)
      BY <2>4, <1>4, <1>5 DEF DecideLinkA, Goal, v
    <3>2. CASE "linkA" \in present
      <4>1. todo' = f.between
        BY <2>4, <3>1, <3>2 DEF DecideLinkA, f
      <4>2. QED BY <4>1, <3>1, <3>2, <2>1, <2>2 DEF v
    <3>3. CASE "linkA" \notin present
      <4>1. todo' = f.noA
        BY <2>4, <3>1, <3>3 DEF DecideLinkA, f
      <4>2. present = {"linkB"}
        BY <3>3, <1>4
      <4>3. QED BY <4>1, <4>2, <3>1, <2>1, <2>3 DEF v
    <3>4. QED BY <3>2, <3>3
  <2>5. CASE DecideLinkB
    <3>1. /\ v \in AtB /\ (result = Identity(index, Own.linkB) <=> "linkB" \in present)
          /\ Stage(todo) = "linkB"
      BY <2>5, <1>4, <1>5 DEF DecideLinkB, Goal, v
    <3>2. "linkA" \in present
      BY <3>1 DEF SetUpInv
    <3>3. CASE "linkB" \in present
      <4>1. todo' = f.both
        BY <2>5, <3>1, <3>3 DEF DecideLinkB, f
      <4>2. present = Links
        BY <3>2, <3>3, <1>4
      <4>3. QED BY <4>1, <4>2, <3>1, <2>1, <2>3 DEF v
    <3>4. CASE "linkB" \notin present
      <4>1. todo' = f.onlyA
        BY <2>5, <3>1, <3>4 DEF DecideLinkB, f
      <4>2. present = {"linkA"}
        BY <3>2, <3>4, <1>4
      <4>3. QED BY <4>1, <4>2, <3>1, <2>1, <2>3 DEF v
    <3>5. QED BY <3>3, <3>4
  <2>6. QED BY <2>4, <2>5 DEF v
<1>7. OnCourse'
  <2>1. \A l : View(l, SensorAt(index))' = View(l, SensorAt(index))
    BY <1>1 DEF View
  <2>2. QED BY <2>1, <1>1, <1>2, <1>6 DEF OnCourse
<1>8. Heard'
  <2>1. Fresh(todo')
    BY ChannelDecides
  <2>2. todo' \in Seq(Steps) /\ (todo' # <<>> => todo'[1].op \notin {"probe"} \cup Links)
    BY <2>1 DEF Fresh, ChannelList, StepsEnd
  <2>3. todo' # <<>> => Head(todo') = todo'[1]
    BY <2>2, TailIs
  <2>4. QED BY <2>2, <2>3, <1>1 DEF Heard
<1>9. present # {} /\ Stage(todo') = "linkB" => "linkA" \in present
  BY <1>6
<1>10. QED BY <1>1, <1>7, <1>8, <1>9 DEF SetUpInv

\* A step of the tool or the board keeps what a configuration keeps.
LEMMA SetUpKept ==
  ASSUME index \in Indices, ChannelList(todo), ToolInv, ~lost => ChannelInv, ~MarginTool,
         SetUpI, [Next]_vars
  PROVE  SetUpI'
<1>1. UNCHANGED <<index, present>> /\ present \subseteq Links
  BY FlowKept DEF SetUpI
<1>2. SUFFICES ASSUME failures' = 0, Covered(index, present) PROVE SetUpInv'
  BY <1>1 DEF SetUpI
<1>3. failures = 0
  BY <1>2 DEF Next, Tool, A53, Send, Next_step, Compose, Return, Post, PollDone, Collect, Timeout, GiveUp,
         A53Take, A53Bad, Answer, Execute, A53Done, DecideCheck, DecideLock, DecideLoop, DecideLinkA,
         DecideLinkB, LocalsOnly, cwVars, windowHistory, vars, ToolInv, Failed
<1>4. ~lost /\ ~lost' /\ ~resp.bad
  <2>1. ToolInv'
    BY ToolKept
  <2>2. QED BY <2>1, <1>2, <1>3 DEF ToolInv, Failed
<1>5. ChannelInv /\ ChannelInv' /\ SetUpInv
  BY <1>2, <1>3, <1>4, ChannelKept DEF SetUpI
<1> DEFINE quiet ==
       UNCHANGED <<todo, selected, addr, sensorTo, sensorsSet, astray, index, present, result>>
<1>6. CASE UNCHANGED vars
  <2>1. quiet /\ (Answered' <=> Answered) /\ Outcome' = Outcome
    BY <1>6 DEF vars, toolLocals, board, bus, cwVars, toolVars, windowVars, Answered, Outcome
  <2>2. QED BY <2>1, <1>5, SetUpQuiet
<1>7. CASE Send
  <2>1. quiet /\ ~Answered /\ ~Answered'
    BY <1>7 DEF Send, Compose, toolLocals, board, bus, Answered
  <2>2. QED BY <2>1, <1>5, SetUpQuiet
<1>8. CASE Next_step
  BY <1>1, <1>5, <1>8, SetUpNext
<1>9. CASE Post /\ UNCHANGED <<ToolRest, board>>
  <2>1. quiet /\ ~Answered /\ ~Answered'
    BY <1>9 DEF Post, ToolRest, toolLocals, board, bus, Answered
  <2>2. QED BY <2>1, <1>5, SetUpQuiet
<1>10. CASE PollDone /\ UNCHANGED <<ToolRest, board>>
  <2>1. quiet /\ Answered /\ Answered' /\ Outcome' = Outcome
    BY <1>10 DEF PollDone, windowVars, ToolRest, toolLocals, board, bus, Answered, Outcome
  <2>2. QED BY <2>1, <1>5, SetUpQuiet
<1>11. CASE Collect /\ UNCHANGED <<ToolRest, board>>
  <2>1. quiet /\ Answered /\ Answered' /\ Outcome' = Outcome
    BY <1>4, <1>11 DEF Collect, windowVars, ToolRest, toolLocals, board, bus, Answered, Outcome
  <2>2. QED BY <2>1, <1>5, SetUpQuiet
<1>12. CASE Timeout
  BY <1>2, <1>3, <1>12 DEF Timeout, GiveUp
<1>13. CASE DecideLinkA \/ DecideLinkB
  BY <1>1, <1>2, <1>5, <1>13, SetUpTakes
<1>14. ~DecideCheck /\ ~DecideLock /\ ~DecideLoop
  BY ChannelListKept DEF ToolInv
<1>15. CASE A53Take /\ UNCHANGED <<ToolRest, board>>
  <2>1. quiet /\ (Answered' <=> Answered) /\ Outcome' = Outcome
    BY <1>15 DEF A53Take, toolVars, windowVars, ToolRest, toolLocals, board, bus, Answered, Outcome
  <2>2. QED BY <2>1, <1>5, SetUpQuiet
<1>16. CASE A53Bad
  BY <1>2, <1>3, <1>16 DEF A53Bad
<1>17. CASE Execute
  BY <1>1, <1>4, <1>5, <1>17, SetUpExecute
<1>18. QED
  BY <1>6, <1>7, <1>8, <1>9, <1>10, <1>11, <1>12, <1>13, <1>14, <1>15, <1>16, <1>17 DEF Next, Tool, A53

\* What is kept is what is promised: a configuration at its end has brought
\* every link there.
LEMMA SetUpEnds == ASSUME ToolInv, ChannelBI, SetUpI PROVE LinksSetUp
<1>1. SUFFICES ASSUME failures = 0, ~MarginTool, Covered(index, present)
               PROVE  /\ ~astray
                      /\ todo = <<>> =>
                           /\ present \subseteq selected
                           /\ present = Links => addr.linkA # addr.linkB
                           /\ SensorAt(index) # "" /\ ~(index = 6 /\ present = Links) =>
                                present \subseteq sensorsSet
  BY DEF LinksSetUp
<1>2. SetUpInv /\ ChannelInv
  BY <1>1 DEF SetUpI, ChannelBI, ToolInv, Failed
<1>3. ASSUME todo = <<>>, NEW l \in present
      PROVE  /\ l \in selected /\ (present = Links => addr[l] = Own[l])
             /\ SensorAt(index) # "" /\ ~(index = 6 /\ present = Links) => l \in sensorsSet
  <2> DEFINE y == SensorAt(index) v == View(l, y) Q == Final(l, index, present)
  <2>1. phase = "idle"
    BY <1>3 DEF ToolInv, UnderWay
  <2>2. Left = <<>> /\ Stage(todo) = "end"
    BY <2>1, <1>3 DEF Left, Answered, Stage
  <2>3. Leads(l, y, <<>>, {v}, Q)
    BY <2>2, <1>2 DEF SetUpInv, OnCourse, Goal
  <2>4. v \in Q
    <3> HIDE DEF v, Q
    <3>1. QED BY <2>3, LeadsEnd
  <2>5. v.sel = selected /\ v.moved = (addr[l] = Own[l]) /\ v.set = (l \in sensorsSet)
    BY ViewIs
  <2> HIDE DEF v, y
  <2>6. l \in v.sel /\ (present = Links => v.moved)
        /\ (SensorAt(index) # "" /\ ~(index = 6 /\ present = Links) => v.set)
    BY <2>4 DEF Final
  <2>7. QED BY <2>5, <2>6
<1>4. ASSUME todo = <<>>, present = Links PROVE addr.linkA # addr.linkB
  <2>1. "linkA" \in present /\ "linkB" \in present
    BY <1>4, OwnIs
  <2>2. addr["linkA"] = "0xc0" /\ addr["linkB"] = "0xc4"
    BY <2>1, <1>3, <1>4, OwnIs
  <2>3. QED BY <2>2
<1>5. QED BY <1>2, <1>3, <1>4 DEF SetUpInv

\* As long as no command fails, every setting of serdes_channel_init reaches the
\* serializer it is for and no other, whatever links there are and whatever a
\* reset selects; at its end the links that are there are selected, their
\* serializers have addresses of their own and their sensors have been set.
THEOREM SetsUp == Spec => []LinksSetUp
<1>1. Init => ToolInv /\ ChannelBI /\ (MarginTool => MarginList(todo)) /\ SetUpI
  BY ToolBegins, MarginListed, ChannelBegins, PresentBegins, SetUpBegins DEF ChannelBI, SetUpI
<1>2. ASSUME ToolInv, ChannelBI, MarginTool => MarginList(todo), SetUpI, [Next]_vars
      PROVE  ToolInv' /\ ChannelBI' /\ (MarginTool => MarginList(todo))' /\ SetUpI'
  <2>1. ToolInv' /\ index' = index /\ present' = present
    BY <1>2, ToolKept, FlowKept
  <2>2. CASE MarginTool
    <3>1. MarginTool' /\ MarginList(todo')
      BY <1>2, <2>2, MarginListKept DEF ToolInv
    <3>2. QED BY <1>2, <2>1, <3>1 DEF ChannelBI, SetUpI
  <2>3. CASE ~MarginTool
    <3>1. ~MarginTool'
      BY <2>1, <2>3 DEF MarginTool
    <3>2. ChannelList(todo') /\ (~lost' => ChannelInv')
      BY <1>2, <2>3, ChannelListKept, ChannelKept DEF ChannelBI, ToolInv
    <3>3. SetUpI'
      BY <1>2, <2>3, SetUpKept DEF ChannelBI
    <3>4. QED BY <1>2, <2>1, <2>3, <3>1, <3>2, <3>3 DEF ChannelBI
  <2>4. QED BY <2>2, <2>3
<1>3. ToolInv /\ ChannelBI /\ SetUpI => LinksSetUp
  BY SetUpEnds
<1>4. QED BY <1>1, <1>2, <1>3, PTL DEF Spec
-----------------------------------------------------------------------------
\* Whatever it is used for, with any index, rate, amplitude and links, serdes_cfg
\* keeps its commands apart, leaves a link it measures as it was, and believes
\* only links that answered.
THEOREM ToolSafe == Spec => []ToolHolds
<1>1. CommandsApart /\ MarginHolds /\ LinkAnswered => ToolHolds
  BY DEF ToolHolds
<1>2. QED BY <1>1, ToolCommandsApart, Measures, LinksAnswer, PTL
=============================================================================
