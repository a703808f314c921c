----------------------------- MODULE BoardTool -----------------------------
(***************************************************************************)
(* The command-line tool serdes_cfg (tools/pcie_a53_rw): it configures the *)
(* deserializer, serializers and sensors of a channel by commands it has   *)
(* the A53 run, one after the other (serdes_channel_init, element_process) *)
(* or measures how far the serializer's amplitude can be lowered before    *)
(* the link has errors (link_margin).  Nothing it sends is checked: a read *)
(* that fails is answered from the result of the command before.           *)
(*                                                                         *)
(* A run of the tool is the list of steps it has left (todo): commands,    *)
(* and the decisions between them; what it sends to configure a channel is *)
(* SerdesLinks.  A register is its switch (on), its number where one is    *)
(* used, and what else it holds (tag).                                     *)
(***************************************************************************)
EXTENDS CommandWindow, SerdesLinks, FiniteSets

CONSTANTS
    Indices,       \* index arguments of serdes_channel_init to run
    Rates,         \* rates REG01 may report, of 0 .. 3
    SeAmp, DeAmp,  \* amplitudes link_margin_init sets
    Floor,         \* where forward_link_margin stops (10)
    AmpSpan,       \* values of the amplitude in RLMS95 (64)
    ByteSpan,      \* values of a uint8_t
    CheckTries, LockTries    \* 20 and 100 in forward_link_margin

ASSUME BoardAssumption ==
    /\ {Floor, SeAmp, DeAmp, AmpSpan, ByteSpan} \subseteq Nat
    /\ Rates \subseteq 0 .. 3
    /\ Indices \subseteq {0, 1, 2, 6, 7} \cup (100 .. 108)
    /\ Floor < SeAmp /\ SeAmp < AmpSpan /\ AmpSpan < ByteSpan

VARIABLES
    todo,          \* steps left
    \* link_margin.c: what was last read of each register, tx_amp_org of the
    \* two chips, se_tx_amp, i
    local, tx_amp_org, se_tx_amp, i,
    \* serdes_data.c: index and the last result
    index, result,
    \* the board: registers of the chips in a measurement; links with a
    \* serializer, those selected, the serializers' addresses, where they
    \* translate their sensors' addresses to
    reg, present, selected, addr, sensorTo,
    \* history: links the tool took to be there, whose sensors were set; an
    \* element missed its serializer; a command other than a probe failed
    chose, sensorsSet, astray, lost

toolLocals == <<local, tx_amp_org, se_tx_amp, i, index, result, chose>>
bus == <<present, selected, addr, sensorTo, sensorsSet, astray, lost>>
board == <<reg, bus>>
vars == <<cwVars, todo, toolLocals, board>>

Chips == {"se", "de"}
Switches == {"RLMSA4", "RLMS4", "RLMS3"}
Regs == Switches \cup {"REG01", "RLMS95", "CNT0", "CTRL3"}

\* Contents of a register, and a result of a read.
Byte(on, tag, num) == [on |-> on, tag |-> tag, num |-> num]
Zero == Byte(FALSE, "none", 0)       \* what an empty result reads as

\* Reads and writes of a measurement.
R(d, r) == Step("read", d, r, "")
W(d, r, as) == Step("write", d, r, as)
Decisions == {"check", "lock", "loop", "linkA", "linkB"}
\* What the window carries, for the constants of CommandWindow.
Tags == Chips \cup {"none", "rate", "amp", "errors", "text", "0x01", "0xc4", "0x41", "0xc8"}
ToolValues == [on : BOOLEAN, tag : Tags, num : 0 .. ByteSpan - 1]
ToolCmds == [op : {"read", "write", "detect", "element", "sensor", "probe"}, dev : STRING,
             reg : STRING, as : STRING, val : ToolValues]
NoCommand == [op |-> "none", dev |-> "", reg |-> "", as |-> "", val |-> Zero]
-----------------------------------------------------------------------------
\* link_margin.c

\* Both chips read, then both written, with the switch off.
Off(r) == <<R("se", r), R("de", r), W("se", r, "off"), W("de", r, "off")>>

link_margin_init ==
    <<Step("read", "de", "REG01", "rate"), W("de", "RLMS95", "org"),
      Step("read", "se", "REG01", "rate"), W("se", "RLMS95", "org")>>
    \o Off("RLMSA4") \o Off("RLMS4") \o Off("RLMS3") \o Off("RLMS95")
    \o <<R("se", "CNT0"), R("de", "CNT0")>>

Check == <<R("de", "CNT0"), R("de", "CTRL3"), Decide("check")>>

\* Global Adapt on and off again.
Adapt == <<R("de", "RLMS3"), W("de", "RLMS3", "on"),
           R("de", "RLMS3"), W("de", "RLMS3", "off")>>

\* One round of the margin loop, to the wait for RXDP_LOCK, and after it.
Lower ==
    <<Step("read", "se", "RLMS95", "lower"), W("se", "RLMS95", "amp")>> \o Adapt
    \o <<R("de", "CTRL3"), Decide("lock")>>
Errors == <<R("de", "CNT0"), R("de", "CNT0"), Decide("loop")>>

Restore == <<W("se", "RLMS95", "orgOn")>> \o Adapt
link_margin_complete == <<R("se", "CNT0"), R("de", "CNT0")>>
link_margin_test == <<Detect>> \o link_margin_init \o Check
-----------------------------------------------------------------------------
\* What the serializer of a link answers, where it is there.
Identity(x, dev) ==
    Byte(FALSE, CASE x = 0 -> "0x41" [] x = 2 -> "0xc8"
                  [] OTHER -> IF dev = "0xc0" THEN "0x01" ELSE "0xc4", 0)
Text == Byte(FALSE, "text", 0)       \* an error message, or other contents
-----------------------------------------------------------------------------
\* link_margin_test makes no use of its index.
NoIndex == 1000
MarginTool == index = NoIndex

\* main: channels above 102 are measured, those below 100 configured.
Init ==
    /\ CWInit
    /\ local = [d \in Chips |-> [r \in Regs |-> Zero]]
    /\ tx_amp_org = [d \in Chips |-> 0] /\ se_tx_amp = 0 /\ i = 0
    /\ result = Zero /\ chose = {}
    /\ addr = [l \in Links |-> "0x80"] /\ sensorTo = [l \in Links |-> ""]
    /\ sensorsSet = {} /\ astray = FALSE /\ lost = FALSE
    /\ \/ /\ index = NoIndex /\ todo = link_margin_test
          /\ present = {} /\ selected = {}
          /\ \E rate \in Rates :
                reg = [d \in Chips |-> [r \in Regs |->
                        IF r = "REG01" THEN Byte(FALSE, "rate", rate)
                        ELSE IF r = "RLMS95" THEN Byte(TRUE, "amp", DeAmp)
                        ELSE Byte(TRUE, d, 0)]]
       \/ /\ index \in Indices /\ todo = serdes_channel_init(index).start
          /\ present \in SUBSET Links /\ selected \in SUBSET Links
          /\ reg = [d \in Chips |-> [r \in Regs |-> Zero]]

\* The value a write step sends.
Written(s) ==
    CASE s.op # "write" -> Zero
      [] s.as = "off" -> [local[s.dev][s.reg] EXCEPT !.on = FALSE]
      [] s.as = "on" -> [local[s.dev][s.reg] EXCEPT !.on = TRUE]
      [] s.as = "org" -> Byte(FALSE, "amp", tx_amp_org[s.dev])
      [] s.as = "orgOn" -> Byte(TRUE, "amp", tx_amp_org[s.dev])
      [] s.as = "amp" -> Byte(TRUE, "amp", se_tx_amp % AmpSpan)

Command(s) == [op |-> s.op, dev |-> s.dev, reg |-> s.reg,
               as |-> IF s.op = "element" THEN s.as ELSE "", val |-> Written(s)]

Send ==
    /\ todo # <<>> /\ Head(todo).op \notin Decisions
    /\ Compose(Command(Head(todo)))
    /\ UNCHANGED <<todo, toolLocals, board>>

\* link_margin_init knows three of the serializer's four rates.
OrgOfRate(d, v) ==
    CASE d = "de" -> DeAmp
      [] d = "se" -> IF v.num = 3 THEN tx_amp_org["se"] ELSE SeAmp

\* se_tx_amp--, a uint8_t.
Decrement(n) == IF n = 0 THEN ByteSpan - 1 ELSE n - 1

\* The caller reads cmd_result, whatever became of its command.
Next_step ==
    LET s == Head(todo) IN
    /\ Return
    /\ todo' = Tail(todo)
    /\ local' = IF s.op = "read" THEN [local EXCEPT ![s.dev][s.reg] = cmd_result] ELSE local
    /\ tx_amp_org' = IF s.as = "rate"
                     THEN [tx_amp_org EXCEPT ![s.dev] = OrgOfRate(s.dev, cmd_result)]
                     ELSE tx_amp_org
    /\ se_tx_amp' = IF s.as = "lower" THEN Decrement(cmd_result.num % AmpSpan) ELSE se_tx_amp
    /\ result' = IF s.op = "probe" THEN cmd_result ELSE result
    /\ UNCHANGED <<i, index, chose, board>>

Deciding(what) == phase = "idle" /\ todo # <<>> /\ Head(todo).op = what
LocalsOnly == UNCHANGED <<cwVars, local, tx_amp_org, se_tx_amp, index, result, board>>

\* No errors and a locked link, or it is asked again, 20 times.
DecideCheck ==
    LET good == local["de"]["CNT0"] = Zero /\ local["de"]["CTRL3"].on IN
    /\ Deciding("check")
    /\ todo' = IF good THEN Lower
               ELSE IF i + 1 < CheckTries THEN Check ELSE link_margin_complete
    /\ i' = IF ~good /\ i + 1 < CheckTries THEN i + 1 ELSE 0
    /\ LocalsOnly /\ UNCHANGED chose

\* RXDP_LOCK (0x40 of CTRL3), or 100 times without it.
DecideLock ==
    LET on == local["de"]["CTRL3"].num = 1 \/ i + 1 = LockTries IN
    /\ Deciding("lock")
    /\ todo' = IF on THEN Errors ELSE <<R("de", "CTRL3"), Decide("lock")>>
    /\ i' = IF on THEN 0 ELSE i + 1
    /\ LocalsOnly /\ UNCHANGED chose

\* while ((de_cnt0 == 0) || ...): on as long as there are no errors.
DecideLoop_Or ==
    /\ Deciding("loop")
    /\ todo' = IF local["de"]["CNT0"] = Zero \/ se_tx_amp > Floor
               THEN Lower ELSE Restore \o link_margin_complete
    /\ LocalsOnly /\ UNCHANGED <<i, chose>>

DecideLoop ==
    /\ Deciding("loop")
    /\ todo' = IF local["de"]["CNT0"] = Zero /\ se_tx_amp > Floor
               THEN Lower ELSE Restore \o link_margin_complete
    /\ LocalsOnly /\ UNCHANGED <<i, chose>>

DecideLinkA ==
    /\ Deciding("linkA")
    /\ IF result = Identity(index, Own.linkA)
       THEN todo' = serdes_channel_init(index).between /\ chose' = chose \cup {"linkA"}
       ELSE todo' = serdes_channel_init(index).noA /\ UNCHANGED chose
    /\ LocalsOnly /\ UNCHANGED i

DecideLinkB ==
    /\ Deciding("linkB")
    /\ IF result = Identity(index, Own.linkB)
       THEN todo' = serdes_channel_init(index).both /\ chose' = chose \cup {"linkB"}
       ELSE todo' = serdes_channel_init(index).onlyA /\ UNCHANGED chose
    /\ LocalsOnly /\ UNCHANGED i
-----------------------------------------------------------------------------
\* Who answers on the bus: the serializers of the selected links.
At(a) == {l \in selected \cap present : addr[l] = a}
\* Whose element this is, if that is there: a serializer's at 0x80 is that of
\* a selected link.
Meant(a) == IF a = "0x80" THEN selected \cap present ELSE {l \in present : Own[l] = a}

\* What a command does to the chips.  A deserializer that was reset selects as
\* it is strapped; a serializer is back at 0x80.
OnBus(c) ==
    LET to == At(c.dev) IN
    /\ UNCHANGED <<present, lost>>
    /\ IF c.op # "element" \/ c.dev # "0x90" THEN UNCHANGED selected
       ELSE CASE c.reg = "select" -> selected' = Chosen[c.as]
              [] c.reg = "reset" -> selected' \in SUBSET Links
              [] OTHER -> UNCHANGED selected
    /\ addr' = CASE c.reg = "move" -> [l \in Links |-> IF l \in to THEN c.as ELSE addr[l]]
                 [] c.reg = "reset" -> [l \in Links |-> IF l \in to THEN "0x80" ELSE addr[l]]
                 [] OTHER -> addr
    /\ sensorTo' = CASE c.reg = "translate" -> [l \in Links |-> IF l \in to THEN c.as ELSE sensorTo[l]]
                     [] c.reg = "reset" -> [l \in Links |-> IF l \in to THEN "" ELSE sensorTo[l]]
                     [] OTHER -> sensorTo
    /\ sensorsSet' = IF c.op # "sensor" THEN sensorsSet
                     ELSE sensorsSet \cup {l \in selected \cap present :
                            \/ c.dev = SensorAt(index)
                            \/ c.dev = Alias[l] /\ sensorTo[l] = SensorAt(index)}
    /\ astray' = (astray \/ (/\ c.reg \in {"set", "translate"} /\ c.dev # "0x90"
                             /\ \/ Meant(c.dev) # {} /\ to = {}
                                \/ Cardinality(to) > 1))

\* What the A53 does with a command: error counts and locks are read as the
\* link happens to be, other registers as they were written.
Answers(c) ==
    CASE c.op = "read" ->
            (CASE c.reg = "CNT0" -> {Zero, Byte(FALSE, "errors", 1)}
               [] c.reg = "CTRL3" -> {Byte(on, "none", n) : on \in BOOLEAN, n \in 0 .. 1}
               [] OTHER -> {reg[c.dev][c.reg]})
      [] c.op = "probe" -> {IF At(c.dev) # {} THEN Identity(index, c.dev) ELSE Text}
      [] OTHER -> {Zero}

Execute ==
    LET c == exec.cmd IN
    /\ exec.busy
    /\ \E v \in Answers(c) : A53Done(v)
    /\ reg' = IF c.op = "write" THEN [reg EXCEPT ![c.dev][c.reg] = c.val] ELSE reg
    /\ OnBus(c)
    /\ UNCHANGED <<todo, toolLocals>>

ToolRest == <<todo, toolLocals>>
BusRest == <<present, selected, addr, sensorTo, sensorsSet, astray>>

A53 == \/ A53Take /\ UNCHANGED <<ToolRest, board>>
       \/ A53Bad /\ lost' = (lost \/ exec.cmd.op # "probe") /\ UNCHANGED <<ToolRest, reg, BusRest>>
       \/ Execute

Tool ==
    \/ Send \/ Next_step
    \/ (Post \/ PollDone \/ Collect) /\ UNCHANGED <<ToolRest, board>>
    \/ Timeout /\ lost' = TRUE /\ UNCHANGED <<ToolRest, reg, BusRest>>
    \/ DecideCheck \/ DecideLock \/ DecideLoop \/ DecideLinkA \/ DecideLinkB

Next == Tool \/ A53

Spec == Init /\ [][Next]_vars
FairSpec == Spec /\ WF_vars(Tool) /\ WF_vars(A53)
-----------------------------------------------------------------------------
\* Until a command fails, the registers the tool reads, changes and writes
\* back keep their other bits, and what it writes to one was read from it; a
\* measurement that ends leaves Global Adapt off and the amplitude at the one
\* it started from.
RegistersKept ==
    MarginTool /\ failures = 0 =>
        /\ \A d \in Chips, r \in Switches : reg[d][r].tag = d
        /\ todo = <<>> => /\ \A d \in Chips, r \in Switches : ~reg[d][r].on
                          /\ reg["se"]["RLMS95"].num = tx_amp_org["se"]

\* The margin the tool reports is the distance to the last amplitude the
\* serializer was really set to, and positive, until a command fails and
\* unless the serializer has the rate link_margin_init does not know (3).
MarginIsMeasured ==
    (/\ MarginTool /\ failures = 0 /\ phase = "idle"
     /\ todo = Restore \o link_margin_complete /\ reg["se"]["REG01"].num # 3) =>
        /\ se_tx_amp = reg["se"]["RLMS95"].num
        /\ Floor <= se_tx_amp /\ se_tx_amp < tx_amp_org["se"]

\* So the tool measures, and leaves the link as it should.
MarginHolds == RegistersKept /\ MarginIsMeasured

\* A link is taken to be there only if it answered, although a probe that
\* fails is answered by an older command: what the i2cdetect before it left
\* is never an identity.  (Where another command fails, link B's serializer may
\* have taken the address of link A's, and answer for it.)
LinkAnswered == ~lost => chose \subseteq present

\* What serdes_channel_init has a way to set up.
Covered(x, p) ==
    \/ x \in {0, 1, 2, 6} \cup (100 .. 106)
    \/ x = 107 /\ p = {"linkA"}
    \/ x = 108 /\ "linkA" \in p

\* When no command fails, every setting reaches the serializer it is for and
\* only that one, whatever a reset selects; in the end the links that are there
\* are selected, their serializers have addresses of their own, and the tables
\* of their sensors have reached these.  (The sensors of index 6 with two links
\* do not get theirs.)
LinksSetUp ==
    failures = 0 /\ ~MarginTool /\ Covered(index, present) =>
        /\ ~astray
        /\ todo = <<>> =>
            /\ present \subseteq selected
            /\ present = Links => addr.linkA # addr.linkB
            /\ SensorAt(index) # "" /\ ~(index = 6 /\ present = Links) => present \subseteq sensorsSet

\* So the tool keeps its commands apart, leaves a link it measures as it should,
\* and believes only links that answered.
ToolHolds == CommandsApart /\ MarginHolds /\ LinkAnswered

\* However commands fail, as long as they do so only finitely often, the tool
\* comes to its end.
ToolEnds == <>(todo = <<>>)
=============================================================================
