--------------------------- MODULE UserInterrupts ---------------------------
(***************************************************************************)
(* The user interrupts of the board and the events devices that hand them  *)
(* to applications (cdev_events.c; xdma_isr, xdma_user_irq and             *)
(* user_irq_service in libxdma.c).                                         *)
(*                                                                         *)
(* A line the FPGA raises is serviced by xdma_isr, which serves all lines  *)
(* from one register (legacy interrupts and MSI), or by a vector of its    *)
(* own (MSI-X).  A line with a registered handler goes to the handler      *)
(* (frame_sync_isr of the video channels); any other one sets events_irq,  *)
(* a latch that readers and pollers of /dev/xdmaN_events_L wait for.       *)
(* wait_event_interruptible is modelled down to the wait queue: the latch  *)
(* is tested without events_lock and taken under it, in a later step.      *)
(***************************************************************************)
EXTENDS Naturals

CONSTANTS
    Lines,         \* numbers of the lines (user_idx)
    VideoLines,    \* those xdma_video_add registers a handler for
    Callers,       \* threads of applications that read or poll
    Modes          \* subset of BOOLEAN: TRUE for xdma_isr, FALSE for MSI-X

ASSUME UserAssumption ==
    /\ Lines \subseteq 0 .. 15 /\ VideoLines \subseteq Lines
    /\ Modes \subseteq BOOLEAN

VARIABLES
    legacy,        \* which of the two is in use, for the whole behaviour
    \* the FPGA: lines raised (user_int_request; pending vectors for MSI-X)
    raised,
    \* struct xdma_user_irq: lines with a handler, events_irq of each, the
    \* callers on events_wq
    handler, events_irq, onWq,
    \* xdma_isr: where it is, lines it read and has not served yet
    ipc, todo,
    \* the callers: where each is, the line whose device it has open, what
    \* it took, whether a signal is pending
    pc, line, events_user, signalled,
    \* history: lines raised and not serviced since, serviced and not taken
    \* since; callers that lost an event they had seen to another one
    fresh, due, robbed

fpgaVars == <<legacy, raised>>
irqVars == <<handler, events_irq>>
isrVars == <<ipc, todo>>
callVars == <<pc, line, events_user, robbed>>
vars == <<fpgaVars, irqVars, onWq, isrVars, callVars, signalled, fresh, due>>

ReadPCs == {"test", "prepare", "retest", "asleep", "take"}
PollPCs == {"pollcheck", "pollsleep"}
PCs == {"idle", "return"} \cup ReadPCs \cup PollPCs

\* An operator X_Fault, written before X, is X with the fault its comment names:
\* no specification uses it, it is there to be put in the place of X, to see that
\* a property notices.

Init ==
    /\ legacy \in Modes
    /\ raised = {} /\ fresh = {} /\ due = {}
    /\ handler = {} /\ events_irq = [l \in Lines |-> FALSE] /\ onWq = {}
    /\ ipc = "idle" /\ todo = {}
    /\ pc = [c \in Callers |-> "idle"]
    /\ line \in [Callers -> Lines]
    /\ events_user = [c \in Callers |-> FALSE]
    /\ robbed = [c \in Callers |-> FALSE]
    /\ signalled = {}
-----------------------------------------------------------------------------
\* The FPGA and the interrupt handlers.

Raise(l) ==
    /\ raised' = raised \cup {l}
    /\ fresh' = fresh \cup {l}
    /\ UNCHANGED <<legacy, irqVars, onWq, isrVars, callVars, signalled, due>>

\* The latch is set and nobody woken.
Service_NoWake(l) ==
    /\ IF l \in handler THEN UNCHANGED events_irq
       ELSE events_irq' = [events_irq EXCEPT ![l] = TRUE]
    /\ fresh' = fresh \ {l} /\ due' = due \cup (fresh \cap {l})
    /\ UNCHANGED <<handler, onWq>>

\* user_irq_service: the handler, or the latch and a wake-up of everyone on
\* the queue.  The latch holds one event: raised again it stays as it is.
Service(l) ==
    /\ IF l \in handler \/ events_irq[l]
       THEN UNCHANGED <<events_irq, onWq>>
       ELSE /\ events_irq' = [events_irq EXCEPT ![l] = TRUE]
            /\ onWq' = {c \in onWq : line[c] # l}
    /\ fresh' = fresh \ {l} /\ due' = due \cup (fresh \cap {l})
    /\ UNCHANGED handler

\* xdma_user_irq: the vector of the line.
VectorIrq(l) ==
    /\ ~legacy /\ l \in raised
    /\ raised' = raised \ {l}
    /\ Service(l)
    /\ UNCHANGED <<legacy, isrVars, callVars, signalled>>

\* xdma_isr reads the request register; it keeps the lower eight lines.
IsrRead ==
    /\ legacy /\ ipc = "idle" /\ raised # {}
    /\ todo' = {l \in raised : l < 8}
    /\ ipc' = "clear"
    /\ UNCHANGED <<fpgaVars, irqVars, onWq, callVars, signalled, fresh, due>>

\* Every line is cleared, not only those that were read.
IsrClear_All ==
    /\ ipc = "clear"
    /\ raised' = {}
    /\ ipc' = "serve"
    /\ UNCHANGED <<legacy, irqVars, onWq, todo, callVars, signalled, fresh, due>>

\* The lines it read are cleared in the FPGA, before they are served.
IsrClear ==
    /\ ipc = "clear"
    /\ raised' = raised \ todo
    /\ ipc' = "serve"
    /\ UNCHANGED <<legacy, irqVars, onWq, todo, callVars, signalled, fresh, due>>

\* for (; user < max && user_irq; user++): lowest first.
IsrServe ==
    /\ ipc = "serve" /\ todo # {}
    /\ \E l \in todo :
        /\ \A k \in todo : l <= k
        /\ Service(l)
        /\ todo' = todo \ {l}
    /\ UNCHANGED <<fpgaVars, ipc, callVars, signalled>>

IsrDone ==
    /\ ipc = "serve" /\ todo = {}
    /\ ipc' = "idle"
    /\ UNCHANGED <<fpgaVars, irqVars, onWq, todo, callVars, signalled, fresh, due>>

\* xdma_user_isr_register: xdma_video_add takes lines over.
Register(l) ==
    /\ l \in VideoLines
    /\ handler' = handler \cup {l}
    /\ UNCHANGED <<fpgaVars, events_irq, onWq, isrVars,
                   callVars, signalled, fresh, due>>
-----------------------------------------------------------------------------
\* char_events_read.

Goto(c, from, to) == pc[c] = from /\ pc' = [pc EXCEPT ![c] = to]
\* A call that ends, with its locals.
Leave(c, from) ==
    /\ Goto(c, from, "idle")
    /\ events_user' = [events_user EXCEPT ![c] = FALSE]
    /\ robbed' = [robbed EXCEPT ![c] = FALSE]
CallerOnly == UNCHANGED <<fpgaVars, irqVars, isrVars, line, fresh, due>>

ReadCall(c) ==
    /\ Goto(c, "idle", "test")
    /\ CallerOnly /\ UNCHANGED <<onWq, events_user, robbed, signalled>>

\* wait_event_interruptible does not wait when there is an event.
ReadTest(c) ==
    /\ Goto(c, "test", IF events_irq[line[c]] THEN "take" ELSE "prepare")
    /\ CallerOnly /\ UNCHANGED <<onWq, events_user, robbed, signalled>>

ReadPrepare(c) ==
    /\ Goto(c, "prepare", "retest")
    /\ onWq' = onWq \cup {c}
    /\ CallerOnly /\ UNCHANGED <<events_user, robbed, signalled>>

\* Once on the queue the caller sleeps, whatever happened before it got there.
ReadRetest_Sleeps(c) ==
    /\ Goto(c, "retest", "asleep")
    /\ CallerOnly /\ UNCHANGED <<onWq, events_user, robbed, signalled>>

\* On the queue: an event goes before a signal (-ERESTARTSYS), a signal
\* before sleep.
ReadRetest(c) ==
    /\ \/ /\ events_irq[line[c]]
          /\ Goto(c, "retest", "take")
          /\ onWq' = onWq \ {c}
          /\ UNCHANGED <<events_user, robbed, signalled>>
       \/ /\ ~events_irq[line[c]] /\ c \in signalled
          /\ Leave(c, "retest")
          /\ onWq' = onWq \ {c} /\ signalled' = signalled \ {c}
       \/ /\ ~events_irq[line[c]] /\ c \notin signalled
          /\ Goto(c, "retest", "asleep")
          /\ UNCHANGED <<onWq, events_user, robbed, signalled>>
    /\ CallerOnly

ReadWake(c) ==
    /\ c \notin onWq \/ c \in signalled
    /\ Goto(c, "asleep", "prepare")
    /\ CallerOnly /\ UNCHANGED <<onWq, events_user, robbed, signalled>>

\* Under events_lock.  Callers that saw the event and did not take it lose it.
ReadTake(c) ==
    LET l == line[c] IN
    /\ Goto(c, "take", "return")
    /\ events_user' = [events_user EXCEPT ![c] = events_irq[l]]
    /\ events_irq' = [events_irq EXCEPT ![l] = FALSE]
    /\ due' = IF events_irq[l] THEN due \ {l} ELSE due
    /\ robbed' = [d \in Callers |-> robbed[d] \/
                    (events_irq[l] /\ d # c /\ pc[d] = "take" /\ line[d] = l)]
    /\ UNCHANGED <<fpgaVars, handler, onWq, isrVars, line, signalled, fresh>>

\* The latch is cleared once the value has been copied, not where it was read.
ReadReturn_Clears(c) ==
    /\ Leave(c, "return")
    /\ events_irq' = [events_irq EXCEPT ![line[c]] = FALSE]
    /\ UNCHANGED <<fpgaVars, handler, isrVars, line, fresh, due, onWq, signalled>>

\* copy_to_user and four bytes, whatever they are.
ReadReturn(c) ==
    /\ Leave(c, "return")
    /\ CallerOnly /\ UNCHANGED <<onWq, signalled>>

\* A signal for a caller that waits.
Signal(c) ==
    /\ pc[c] \in {"prepare", "retest", "asleep"}
    /\ signalled' = signalled \cup {c}
    /\ CallerOnly /\ UNCHANGED <<pc, events_user, robbed, onWq>>

\* Back in user space the signal is delivered.
SignalDone(c) ==
    /\ pc[c] = "idle" /\ c \in signalled
    /\ signalled' = signalled \ {c}
    /\ CallerOnly /\ UNCHANGED <<pc, events_user, robbed, onWq>>
-----------------------------------------------------------------------------
\* char_events_poll, called by poll(2) or select(2), which sleep and call it
\* again when woken.

PollCall(c) ==
    /\ Goto(c, "idle", "pollcheck")
    /\ onWq' = onWq \cup {c}                          \* poll_wait
    /\ CallerOnly /\ UNCHANGED <<events_user, robbed, signalled>>

\* Under events_lock: readable (POLLIN), or the caller sleeps.
PollCheck(c) ==
    /\ \/ /\ events_irq[line[c]]
          /\ Leave(c, "pollcheck")
          /\ onWq' = onWq \ {c}
       \/ /\ ~events_irq[line[c]]
          /\ Goto(c, "pollcheck", "pollsleep")
          /\ UNCHANGED <<onWq, events_user, robbed>>
    /\ CallerOnly /\ UNCHANGED signalled

PollWake(c) ==
    /\ c \notin onWq
    /\ Goto(c, "pollsleep", "pollcheck")
    /\ onWq' = onWq \cup {c}
    /\ CallerOnly /\ UNCHANGED <<events_user, robbed, signalled>>
-----------------------------------------------------------------------------
Isr == IsrRead \/ IsrClear \/ IsrServe \/ IsrDone
CallerSteps(c) ==
    \/ ReadTest(c) \/ ReadPrepare(c) \/ ReadRetest(c) \/ ReadWake(c)
    \/ ReadTake(c) \/ ReadReturn(c) \/ SignalDone(c)
    \/ PollCheck(c) \/ PollWake(c)

Next ==
    \/ \E l \in Lines : Raise(l) \/ VectorIrq(l) \/ Register(l)
    \/ Isr
    \/ \E c \in Callers : CallerSteps(c) \/ ReadCall(c) \/ PollCall(c) \/ Signal(c)

Spec == Init /\ [][Next]_vars

\* Interrupts are taken by the processor, threads that can run are scheduled.
Fairness ==
    /\ WF_vars(Isr)
    /\ \A l \in Lines : WF_vars(VectorIrq(l))
    /\ \A c \in Callers : WF_vars(CallerSteps(c))

FairSpec == Spec /\ Fairness
-----------------------------------------------------------------------------
TypeOK ==
    /\ legacy \in BOOLEAN
    /\ raised \subseteq Lines /\ handler \subseteq Lines /\ todo \subseteq Lines
    /\ events_irq \in [Lines -> BOOLEAN]
    /\ onWq \subseteq Callers /\ signalled \subseteq Callers
    /\ ipc \in {"idle", "clear", "serve"}
    /\ pc \in [Callers -> PCs] /\ line \in [Callers -> Lines]
    /\ events_user \in [Callers -> BOOLEAN] /\ robbed \in [Callers -> BOOLEAN]
    /\ fresh \subseteq Lines /\ due \subseteq Lines

\* No caller sleeps, in read or in poll, while its line has an event: between
\* the test without the lock and the sleep no wake-up is lost.
NoSleepOnEvent ==
    \A c \in Callers :
        pc[c] \in {"asleep", "pollsleep"} /\ c \in onWq => ~events_irq[line[c]]

\* No interrupt gets lost between the FPGA and the reader: once nothing is
\* pending in the FPGA, in the interrupt handler or in the latch, a reader has
\* taken an event that was set after the last interrupt.
QuietMeansRead ==
    \A l \in Lines \ handler :
        l \notin raised \cup todo /\ ~events_irq[l] => l \notin fresh \cup due

\* A read that returns no event had seen one, and another reader took it.
ZeroMeansTaken ==
    \A c \in Callers : pc[c] = "return" /\ ~events_user[c] => robbed[c]

\* Lines xdma_isr looks at.
Reached(l) == legacy => l < 8
Pending(l) == l \in raised \cup todo \/ events_irq[l]

\* What is pending for a line without handler gets to a reader as long as one
\* waits: it, or another one, is handed an event (or a signal ends its call).
ReaderServed ==
    \A c \in Callers, l \in Lines :
        (pc[c] \in ReadPCs /\ line[c] = l /\ Pending(l) /\ Reached(l))
            ~> \/ \E d \in Callers : pc[d] = "return" /\ line[d] = l
               \/ l \in handler \/ pc[c] \notin ReadPCs
=============================================================================
