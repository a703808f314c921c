--------------------------- MODULE CommandWindow ---------------------------
(***************************************************************************)
(* The register window through which a command-line tool has the A53 of    *)
(* the board run a shell command (arm_pcie_protocol.c): the tool writes    *)
(* the command and sets the interrupt register to 1, the A53 runs it,      *)
(* leaves code, flag and text of the result, and clears the register; the  *)
(* tool polls the register and gives up after 1000 times.                  *)
(*                                                                         *)
(* The A53's side is external.  It works level-triggered: it takes what    *)
(* the window holds when it is free and the register is 1, and clears the  *)
(* register when it is done, even if the tool gave up on that command      *)
(* meanwhile and another one is waiting.                                   *)
(***************************************************************************)
EXTENDS Naturals

CONSTANTS
    Cmds, NoCmd,   \* shell commands; none
    Values, Empty, \* what results say; an empty one, which reads as 0
    MaxFails       \* bound on commands that time out or go wrong

ASSUME WindowAssumption ==
    /\ NoCmd \notin Cmds /\ Empty \in Values
    /\ MaxFails \in Nat

VARIABLES
    \* the tool: where send_cmd_to_a53_sync is, the result it last copied
    phase, cmd_result,
    \* the window: the command, whether it is all there, 0x30300, the result
    cmd, whole, irq, resp,
    \* the A53: the command it runs
    exec,
    \* history: the A53 has taken the command of the window; it took one
    \* twice or half; commands failed, given up, ended with another's result
    taken, misread, failures, timeouts, spoiled

toolVars == <<phase, cmd_result>>
windowVars == <<cmd, whole, irq, resp>>
windowHistory == <<taken, misread, failures, timeouts, spoiled>>
cwVars == <<toolVars, windowVars, exec, windowHistory>>

Phases == {"idle", "compose", "poll", "collect", "back"}
Free == [busy |-> FALSE, cmd |-> NoCmd, own |-> FALSE]

\* An operator X_Fault, written before X, is X with the fault its comment names:
\* no specification uses it, it is there to be put in the place of X, to see that
\* a property notices.

CWInit ==
    /\ phase = "idle" /\ cmd_result = Empty
    /\ cmd = NoCmd /\ whole = FALSE /\ irq = FALSE
    /\ resp = [bad |-> FALSE, value |-> Empty, own |-> FALSE]
    /\ exec = Free
    /\ taken = FALSE /\ misread = FALSE
    /\ failures = 0 /\ timeouts = 0 /\ spoiled = 0
-----------------------------------------------------------------------------
\* send_cmd_to_a53_sync.

\* The flag and the words of the command.
Compose(c) ==
    /\ phase = "idle" /\ phase' = "compose"
    /\ cmd' = c /\ whole' = FALSE /\ taken' = FALSE
    /\ resp' = [resp EXCEPT !.own = FALSE]
    /\ UNCHANGED <<cmd_result, irq, exec, misread, failures, timeouts, spoiled>>

\* The length, the type and the interrupt.
Post ==
    /\ phase = "compose" /\ phase' = "poll"
    /\ whole' = TRUE /\ irq' = TRUE
    /\ UNCHANGED <<cmd_result, cmd, resp, exec, windowHistory>>

\* One of the 1000 polls finds the register clear.
PollDone ==
    /\ phase = "poll" /\ ~irq /\ phase' = "collect"
    /\ UNCHANGED <<cmd_result, windowVars, exec, windowHistory>>

GiveUp ==
    /\ phase = "poll" /\ irq /\ failures < MaxFails
    /\ phase' = "back"
    /\ exec' = [exec EXCEPT !.own = FALSE]
    /\ failures' = failures + 1 /\ timeouts' = timeouts + 1
    /\ UNCHANGED <<cmd_result, cmd, whole, resp, taken, misread, spoiled>>

\* The interrupt register stays set.
Timeout_KeepsIrq == GiveUp /\ UNCHANGED irq

\* 1000 polls later the tool clears the register itself and returns -1.
Timeout == GiveUp /\ irq' = FALSE

\* A result code or a flag that is not right returns -1 and leaves cmd_result
\* to the command before.
Collect ==
    /\ phase = "collect" /\ phase' = "back"
    /\ IF resp.bad THEN UNCHANGED cmd_result ELSE cmd_result' = resp.value
    /\ spoiled' = spoiled + (IF resp.own THEN 0 ELSE 1)
    /\ UNCHANGED <<windowVars, exec, taken, misread, failures, timeouts>>

\* The callers drop what it returned and read cmd_result (get_cmd_result).
Return ==
    /\ phase = "back" /\ phase' = "idle"
    /\ UNCHANGED <<cmd_result, windowVars, exec, windowHistory>>
-----------------------------------------------------------------------------
\* The A53.

A53Take ==
    /\ irq /\ ~exec.busy
    /\ exec' = [busy |-> TRUE, cmd |-> cmd, own |-> TRUE]
    /\ misread' = (misread \/ ~whole \/ taken) /\ taken' = TRUE
    /\ UNCHANGED <<toolVars, windowVars, failures, timeouts, spoiled>>

Answer(v, bad) ==
    /\ exec.busy
    /\ resp' = [bad |-> bad, value |-> v, own |-> exec.own]
    /\ exec' = Free
    /\ irq' = FALSE
    /\ UNCHANGED <<toolVars, cmd, whole, taken, misread, timeouts, spoiled>>

A53Done(v) == Answer(v, FALSE) /\ UNCHANGED failures
A53Bad ==
    /\ failures < MaxFails
    /\ Answer(Empty, TRUE) /\ failures' = failures + 1
-----------------------------------------------------------------------------
Sending == Post \/ PollDone \/ Timeout \/ Collect

CWNext ==
    \/ \E c \in Cmds : Compose(c)
    \/ Sending \/ Return
    \/ A53Take \/ A53Bad \/ \E v \in Values : A53Done(v)

CWSpec == CWInit /\ [][CWNext]_cwVars
-----------------------------------------------------------------------------
Results == [bad : BOOLEAN, value : Values, own : BOOLEAN]

WindowTypeOK ==
    /\ phase \in Phases /\ cmd_result \in Values
    /\ cmd \in Cmds \cup {NoCmd} /\ whole \in BOOLEAN /\ irq \in BOOLEAN
    /\ resp \in Results
    /\ exec \in [busy : BOOLEAN, cmd : Cmds \cup {NoCmd}, own : BOOLEAN]
    /\ taken \in BOOLEAN /\ misread \in BOOLEAN
    /\ failures \in Nat /\ timeouts \in Nat /\ spoiled \in Nat

\* The A53 never takes a command that is half written and takes none twice,
\* also when the tool gave up and writes the next one while the A53 is busy
\* with the last.
TakenWhole == ~misread

\* A command that was given up spoils at most one later command: that one is
\* reported done with the other's result, and never run.  As long as none
\* was given up, every command that returns was run and has its own result.
SpoilsOne == spoiled <= timeouts

\* So the window keeps commands apart as far as it can.
CommandsApart == TakenWhole /\ SpoilsOne
=============================================================================
