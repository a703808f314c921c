----------------------------- MODULE CardSetup -----------------------------
(***************************************************************************)
(* What xdma_device_open (libxdma.c) finds out about a card and writes     *)
(* into it: which BAR is which, which engines there are, by which kind of  *)
(* interrupt the card calls, and which vector each engine and each user    *)
(* line is to use.  xdma_device_offline, xdma_device_online, a reset of    *)
(* the card in between and xdma_device_close undo and repeat parts of it,  *)
(* on behalf of the PCI error handlers and of ioctls.                      *)
(*                                                                         *)
(* The handlers are in DmaEngine and UserInterrupts; how the probe goes on *)
(* after the open is in DeviceLifecycle.                                   *)
(***************************************************************************)
EXTENDS Integers, Sequences, FiniteSets

CONSTANTS
    MaxChannels,   \* XDMA_CHANNEL_NUM_MAX
    UserMax,       \* user interrupts, MAX_USER_IRQ
    PerWord,       \* vectors in a register of the interrupt block
    Layouts,       \* what the BARs of a card may hold, in their order
    Pins,          \* interrupt pins: 0 is none, 1 is INTA
    MaxShares      \* bound: handlers on the interrupt line

\* What is assumed of the constants; the modules this one is checked in assume it.
CardAssumption ==
    /\ MaxChannels \in Nat /\ UserMax \in Nat /\ PerWord \in Nat \ {0}
    /\ Pins \subseteq Nat /\ MaxShares \in Nat

VARIABLES
    \* the card, and its registers: vectors of channels and of user interrupts,
    \* their enables, and by engine the interrupt enables and whether the
    \* writeback address is set
    card, chanVec, userVec, chanEn, userEn, ie, wb,
    \* module parameters: poll_mode, interrupt_mode
    poll_mode, interrupt_mode,
    \* where the device is between open and close; what went wrong so far
    at, mishap,
    \* struct xdma_dev: which BARs are mapped and which is which
    mapped, config_bar, user_bar, bypass_bar,
    \* the engines: their numbers, and by engine irq_bitmask and msix_irq_line
    h2c_channel_max, c2h_channel_max, irq_bit, msix_irq_line,
    \* interrupts: what is enabled, what is requested of the kernel, whether
    \* irq_line is set, handlers on it, user interrupts wanted
    enabled, requested, irq_line, shares, mask_irq_user,
    \* an interrupt was given back that was not held, or its vector while it was
    astray

regVars == <<chanVec, userVec, chanEn, userEn, ie, wb>>
paramVars == <<poll_mode, interrupt_mode>>
barVars == <<mapped, config_bar, user_bar, bypass_bar>>
engVars == <<h2c_channel_max, c2h_channel_max, irq_bit, msix_irq_line>>
irqVars == <<enabled, requested, irq_line, shares, mask_irq_user>>
cardVars == <<card, regVars, paramVars, at, mishap, barVars, engVars, irqVars, astray>>

Unset == -1
Engines == {"h2c", "c2h"} \X (0 .. MaxChannels - 1)
Users == 0 .. UserMax - 1
ChanSlots == 0 .. 2 * MaxChannels - 1
Cards == [bars : Layouts, h2c : 0 .. MaxChannels, c2h : 0 .. MaxChannels,
          caps : SUBSET {"msix", "msi"}, pin : Pins]

\* channel_interrupts_enable and _disable, user_interrupts_enable and _disable,
\* all of them at once.
Enable(channels, users) == chanEn' = channels /\ userEn' = users

ClearRegs ==
    /\ chanVec' = [s \in ChanSlots |-> 0] /\ userVec' = [u \in Users |-> 0]
    /\ Enable(FALSE, FALSE)
    /\ ie' = [e \in Engines |-> "none"] /\ wb' = [e \in Engines |-> FALSE]

Init ==
    /\ card \in Cards
    /\ chanVec = [s \in ChanSlots |-> 0] /\ userVec = [u \in Users |-> 0]
    /\ chanEn = FALSE /\ userEn = FALSE
    /\ ie = [e \in Engines |-> "none"] /\ wb = [e \in Engines |-> FALSE]
    /\ poll_mode = FALSE /\ interrupt_mode = "auto"
    /\ at = "closed" /\ mishap = {}
    /\ mapped = {} /\ config_bar = Unset /\ user_bar = Unset /\ bypass_bar = Unset
    /\ h2c_channel_max = 0 /\ c2h_channel_max = 0
    /\ irq_bit = [e \in Engines |-> Unset] /\ msix_irq_line = [e \in Engines |-> Unset]
    /\ enabled = "none" /\ requested = {} /\ irq_line = FALSE /\ shares = 0
    /\ mask_irq_user = FALSE
    /\ astray = FALSE
-----------------------------------------------------------------------------
\* An operator X_Fault, written before X, is X with the fault its comment
\* names: no specification uses it, it is there to be put in the place of X, to
\* see that a property notices.

\* xdma_device_open: struct xdma_dev, with the most channels there can be.
\* Bound: a card for which something went wrong is not bound again.
Open ==
    /\ at = "closed" /\ at' = "bars"
    /\ mishap = {}
    /\ poll_mode' \in BOOLEAN
    /\ interrupt_mode' \in {"auto", "msi", "legacy", "msix"}
    /\ h2c_channel_max' = MaxChannels /\ c2h_channel_max' = MaxChannels
    /\ UNCHANGED <<card, regVars, mishap, barVars, irq_bit, msix_irq_line, irqVars, astray>>

\* The device is freed, and struct xdma_dev with it.
Freed ==
    /\ at' = "closed"
    /\ mapped' = {} /\ config_bar' = Unset /\ user_bar' = Unset /\ bypass_bar' = Unset
    /\ h2c_channel_max' = 0 /\ c2h_channel_max' = 0
    /\ irq_bit' = [e \in Engines |-> Unset] /\ msix_irq_line' = [e \in Engines |-> Unset]
    /\ enabled' = "none" /\ irq_line' = FALSE /\ mask_irq_user' = FALSE

\* The BARs a card has; a BAR's number is one less than its place in card.bars.
Detected == {i \in 0 .. Len(card.bars) - 1 : card.bars[i + 1] # "absent"}

Has(bar, kind) == card.bars[bar + 1] = kind

\* The first of them, large enough, that holds the identifiers of the interrupt
\* and configuration blocks (is_config_bar).
ConfigBars == {i \in Detected : Has(i, "config")
                                /\ \A j \in Detected : j < i => ~Has(j, "config")}

\* map_bars and identify_bars: with one BAR more the place of the config BAR
\* among them, config_bar_pos, says what it is; with three or four the first and
\* the last are taken.
MapBars ==
    /\ at = "bars" /\ at' = "engines"
    /\ \E config \in ConfigBars, first \in Detected, last \in Detected :
        LET n == Cardinality(Detected)
            config_bar_pos == Cardinality({i \in Detected : i < config})
            both == n \in {3, 4} /\ config_bar_pos \in {1, 2}
        IN  /\ \A i \in Detected : first <= i /\ i <= last
            /\ mapped' = Detected
            /\ config_bar' = config
            /\ user_bar' = IF both \/ (n = 2 /\ config_bar_pos = 1) THEN first ELSE Unset
            /\ bypass_bar' = IF both \/ (n = 2 /\ config_bar_pos = 0) THEN last ELSE Unset
    /\ Enable(FALSE, FALSE)
    /\ UNCHANGED <<card, chanVec, userVec, ie, wb, paramVars, mishap, engVars, irqVars, astray>>

\* There is no config BAR, a BAR cannot be mapped, or no DMA mask is accepted:
\* what was mapped is unmapped.
OpenFails ==
    /\ at = "bars"
    /\ Freed
    /\ UNCHANGED <<card, regVars, paramVars, mishap, requested, shares, astray>>
-----------------------------------------------------------------------------
\* Engines.

Counted == {e \in Engines : e[2] < (IF e[1] = "h2c" THEN h2c_channel_max
                                    ELSE c2h_channel_max)}

\* engine_init_regs: the interrupts the engine is to raise, and where it writes
\* back when it is polled.
InitRegs(es) ==
    /\ ie' = [e \in Engines |-> IF e \notin es THEN ie[e]
                                ELSE IF poll_mode THEN "errors" ELSE "all"]
    /\ wb' = [e \in Engines |-> wb[e] \/ (e \in es /\ poll_mode)]

\* probe_engines: in each direction the channels the card has are set up, up to
\* one whose memory cannot be had; that one is not counted, but has taken a
\* number (engine_init).
ProbeEngines ==
    /\ at = "engines" /\ at' = "enable"
    /\ \E h \in 0 .. card.h2c, c \in 0 .. card.c2h :
        LET first == IF h < card.h2c THEN h + 1 ELSE h
            setup == {e \in Engines : e[2] < (IF e[1] = "h2c" THEN h ELSE c)}
            numbered == {e \in Engines : e[2] < (IF e[1] = "h2c" THEN first
                                                 ELSE IF c < card.c2h THEN c + 1 ELSE c)}
        IN  /\ h2c_channel_max' = h /\ c2h_channel_max' = c
            /\ irq_bit' = [e \in Engines |->
                             IF e \notin numbered THEN Unset
                             ELSE IF e[1] = "h2c" THEN e[2] ELSE first + e[2]]
            /\ InitRegs(setup)
            /\ mishap' = IF setup = numbered THEN mishap ELSE mishap \cup {"engine"}
    /\ UNCHANGED <<card, chanVec, userVec, chanEn, userEn, paramVars, barVars, msix_irq_line,
                   irqVars, astray>>

\* remove_engines: engine_destroy masks the engine's interrupts.
RemoveEngines ==
    /\ ie' = [e \in Engines |-> IF e \in Counted THEN "none" ELSE ie[e]]
    /\ UNCHANGED wb
-----------------------------------------------------------------------------
\* Interrupts.

\* enable_msi_msix: what the parameter asks for, if the card has it.
Chosen ==
    IF interrupt_mode \in {"msix", "auto"} /\ "msix" \in card.caps THEN "msix"
    ELSE IF interrupt_mode \in {"msi", "auto"} /\ "msi" \in card.caps THEN "msi"
    ELSE "none"

EnableIrqs ==
    /\ at = "enable" /\ at' = "irqs"
    /\ enabled' = Chosen
    /\ UNCHANGED <<card, regVars, paramVars, mishap, barVars, engVars, requested,
                   irq_line, shares, mask_irq_user, astray>>

\* The kernel has not as many vectors.
EnableIrqsFails ==
    /\ at = "enable" /\ Chosen # "none"
    /\ RemoveEngines
    /\ Freed
    /\ UNCHANGED <<card, chanVec, userVec, chanEn, userEn, paramVars, mishap, requested,
                   shares, astray>>

\* The vectors: the engines', H2C first, and then the user interrupts'.
NEngines == h2c_channel_max + c2h_channel_max
Entry(h) ==
    IF h[1] = "h2c" THEN h[2]
    ELSE IF h[1] = "c2h" THEN h2c_channel_max + h[2]
    ELSE NEngines + h[2]

UserHandlers == {<<"user", u>> : u \in Users}
Wanted == {<<Entry(h), h>> : h \in Counted \cup UserHandlers}

\* A request of the first n vectors.
Granted(n) == {w \in Wanted : w[1] < n}

Words(n) == PerWord * ((n + PerWord - 1) \div PerWord)

\* The numbers start over for the user interrupts.
Program_FromZero(vec, first, n) ==
    [s \in DOMAIN vec |-> IF s < n THEN s ELSE IF s < Words(n) THEN 0 ELSE vec[s]]

\* prog_irq_msix_channel and prog_irq_msix_user: n vectors from the first on,
\* whole registers at a time; or zeros.
Program(vec, first, n) ==
    [s \in DOMAIN vec |-> IF s < n THEN first + s ELSE IF s < Words(n) THEN 0 ELSE vec[s]]
Clear(vec, n) == [s \in DOMAIN vec |-> IF s < Words(n) THEN 0 ELSE vec[s]]

\* irq_setup with MSI-X: a handler for each vector, then the registers.  At the
\* first request that fails those for users are given back, those for engines
\* are not, and no register is written.
MsixSetup(ok) ==
    /\ \E n \in 0 .. NEngines + UserMax :
        /\ ok = (n = NEngines + UserMax)
        /\ \A w \in Granted(n) : \A h \in requested : h[1] # w[1]
        /\ LET got == IF ok THEN Wanted ELSE Granted(IF n < NEngines THEN n ELSE NEngines)
           IN  /\ requested' = requested \cup got
               /\ msix_irq_line' = [e \in Engines |-> IF <<Entry(e), e>> \in got THEN Entry(e)
                                             ELSE msix_irq_line[e]]
    /\ IF ok THEN /\ chanVec' = Program(chanVec, 0, NEngines)
                  /\ userVec' = Program(userVec, NEngines, UserMax)
             ELSE UNCHANGED <<chanVec, userVec>>
    /\ UNCHANGED <<irq_line, shares>>

\* With MSI, or on the interrupt line, which handlers may share: one handler for
\* the device.  The card is told its pin, unless it is the first.
LineSetup(ok) ==
    /\ irq_line' = TRUE
    /\ IF ok THEN /\ enabled = "msi" => shares = 0
                  /\ shares < MaxShares
                  /\ shares' = shares + 1
             ELSE UNCHANGED shares
    /\ IF enabled = "none" /\ card.pin > 1
       THEN /\ chanVec' = [s \in ChanSlots |-> card.pin - 1]
            /\ userVec' = [u \in Users |-> card.pin - 1]
       ELSE UNCHANGED <<chanVec, userVec>>
    /\ UNCHANGED <<requested, msix_irq_line>>

\* irq_setup.  A card without a pin has no interrupt line.
IrqSetup(ok) ==
    IF enabled = "msix" THEN MsixSetup(ok)
    ELSE IF enabled = "none" /\ card.pin = 0
    THEN ~ok /\ UNCHANGED <<chanVec, userVec, requested, msix_irq_line, irq_line, shares>>
    ELSE LineSetup(ok)

\* The end of xdma_device_open.
Online ==
    /\ at = "irqs" /\ at' = "running"
    /\ IrqSetup(TRUE)
    /\ chanEn' = ~poll_mode
    /\ UNCHANGED <<card, userEn, ie, wb, paramVars, mishap, barVars, h2c_channel_max,
                   c2h_channel_max, irq_bit, enabled, mask_irq_user, astray>>

\* irq_setup fails; the vectors are disabled while some may be requested.
IrqSetupFails ==
    /\ at = "irqs"
    /\ \E n \in 0 .. NEngines :
        astray' = (enabled = "msix" /\ n > 0)
    /\ mishap' = mishap \cup {"request"}
    /\ RemoveEngines
    /\ Freed
    /\ UNCHANGED <<card, chanVec, userVec, chanEn, userEn, paramVars, requested, shares>>

\* irq_teardown: registers cleared, and handlers given back: the engines' that
\* have a vector up to the first that has none, and every user's.
IrqTeardown ==
    IF enabled = "msix"
    THEN LET engines == {e \in Counted : \A k \in 0 .. e[2] : msix_irq_line[<<e[1], k>>] # Unset}
             given == {<<msix_irq_line[e], e>> : e \in engines}
                      \cup {<<Entry(h), h>> : h \in UserHandlers}
         IN  /\ chanVec' = Clear(chanVec, NEngines) /\ userVec' = Clear(userVec, UserMax)
             /\ requested' = requested \ given
             /\ astray' = ~(given \subseteq requested)
             /\ UNCHANGED shares
    ELSE /\ IF irq_line THEN /\ shares' = (IF shares = 0 THEN 0 ELSE shares - 1)
                             /\ astray' = (shares = 0)
                        ELSE UNCHANGED <<shares, astray>>
         /\ UNCHANGED <<chanVec, userVec, requested>>
-----------------------------------------------------------------------------
\* An open device.

\* xdma_user_isr_enable, by probe_one.
UserEnable ==
    /\ at = "running" /\ mask_irq_user' = TRUE /\ userEn' = TRUE
    /\ UNCHANGED <<card, chanVec, userVec, chanEn, ie, wb, paramVars, at, mishap, barVars,
                   engVars, enabled, requested, irq_line, shares, astray>>

\* xdma_device_offline, by an error handler of PCI or an ioctl.
Offline ==
    /\ at \in {"running", "offline"} /\ at' = "offline"
    /\ Enable(FALSE, FALSE)
    /\ IrqTeardown
    /\ mishap' = mishap \cup (IF at = "offline" THEN {"unpaired"} ELSE {})
                        \cup (IF poll_mode THEN {"polled"} ELSE {})
    /\ UNCHANGED <<card, ie, wb, paramVars, barVars, engVars, enabled, irq_line, mask_irq_user>>

\* The card is reset (external) and forgets its registers.
CardReset ==
    /\ at = "offline"
    /\ ClearRegs
    /\ UNCHANGED <<card, paramVars, at, mishap, barVars, engVars, irqVars, astray>>

\* The registers of the engines are left as they are.
BackOnline_NoInit ==
    /\ at \in {"running", "offline"} /\ at' = "running"
    /\ UNCHANGED <<ie, wb>>
    /\ IF poll_mode
       THEN UNCHANGED <<chanVec, userVec, chanEn, userEn, requested, msix_irq_line, irq_line, shares, mishap>>
       ELSE /\ \E ok \in BOOLEAN :
                /\ IrqSetup(ok)
                /\ mishap' = mishap \cup (IF ok THEN {} ELSE {"request"})
                                    \cup (IF at = "running" THEN {"unpaired"} ELSE {})
            /\ Enable(TRUE, userEn \/ mask_irq_user)
    /\ UNCHANGED <<card, paramVars, barVars, h2c_channel_max, c2h_channel_max, irq_bit,
                   enabled, mask_irq_user, astray>>

\* xdma_device_online: the registers of the engines, and unless the device is
\* polled the interrupts, whether irq_setup succeeds or not.
BackOnline ==
    /\ at \in {"running", "offline"} /\ at' = "running"
    /\ InitRegs(Counted)
    /\ IF poll_mode
       THEN UNCHANGED <<chanVec, userVec, chanEn, userEn, requested, msix_irq_line, irq_line, shares, mishap>>
       ELSE /\ \E ok \in BOOLEAN :
                /\ IrqSetup(ok)
                /\ mishap' = mishap \cup (IF ok THEN {} ELSE {"request"})
                                    \cup (IF at = "running" THEN {"unpaired"} ELSE {})
            /\ Enable(TRUE, userEn \/ mask_irq_user)
    /\ UNCHANGED <<card, paramVars, barVars, h2c_channel_max, c2h_channel_max, irq_bit,
                   enabled, mask_irq_user, astray>>

\* xdma_device_close; the handlers of the line stay, if some are left.
Close ==
    /\ at \in {"running", "offline"}
    /\ IrqTeardown
    /\ mishap' = mishap \cup (IF at = "offline" THEN {"removed"} ELSE {})
    /\ Enable(FALSE, FALSE)
    /\ RemoveEngines
    /\ Freed
    /\ UNCHANGED <<card, paramVars>>

Next ==
    /\ ~astray
    /\ \/ Open \/ MapBars \/ OpenFails \/ ProbeEngines \/ EnableIrqs \/ EnableIrqsFails
       \/ Online \/ IrqSetupFails
       \/ UserEnable \/ Offline \/ CardReset \/ BackOnline \/ Close

Spec == Init /\ [][Next]_cardVars
-----------------------------------------------------------------------------
\* Properties.

\* The number of an engine in the card's interrupt block (external): H2C
\* channels first, as many as the card has.
Number(e) == IF e[1] = "h2c" THEN e[2] ELSE card.h2c + e[2]

\* What engine e raises reaches its handler: by the entry its vector names, or
\* by the one handler there is, which knows it by its bit.
Arrives(e) ==
    IF enabled = "msix" THEN <<chanVec[Number(e)], e>> \in requested
    ELSE /\ shares > 0 /\ irq_bit[e] = Number(e)
         /\ enabled = "none" => chanVec[Number(e)] = card.pin - 1

\* And to where user interrupts are read: a vector of their own, or xdma_isr, which
\* leaves lines 8 to 15 unserved (UserInterrupts says which lines are).
UserArrives(u) ==
    IF enabled = "msix" THEN <<userVec[u], <<"user", u>>>> \in requested
    ELSE shares > 0 /\ (enabled = "none" => userVec[u] = card.pin - 1)

\* A device that is open, whose engines were all set up, whose vectors were all
\* had, and that went offline and online in turns, not when polled: every engine
\* and every user interrupt that is wanted is enabled and reaches its handler, a
\* user interrupt without MSI-X only xdma_isr, also after resets (irq_setup,
\* engine_init_regs, xdma_device_online).
Ready ==
    at = "running" /\ mishap = {} =>
        /\ \A e \in Counted : ie[e] = (IF poll_mode THEN "errors" ELSE "all")
        /\ IF poll_mode THEN \A e \in Counted : wb[e]
           ELSE chanEn /\ \A e \in Counted : Arrives(e)
        /\ mask_irq_user => userEn /\ \A u \in Users : UserArrives(u)

\* The layouts identify_bars' comment describes: a user BAR before the config
\* BAR and a bypass BAR after it, either of which may be missing.
Documented ==
    \E config \in Detected :
        /\ Has(config, "config")
        /\ \A i \in Detected : /\ i < config => Has(i, "user")
                               /\ i > config => Has(i, "bypass")
        /\ \A i, j \in Detected : card.bars[i + 1] = card.bars[j + 1] => i = j

\* Each BAR of such a card is used for what it is, and no more are found
\* (map_bars, identify_bars).
RolesRight ==
    config_bar # Unset =>
        /\ config_bar \in Detected /\ Has(config_bar, "config")
        /\ Documented =>
            /\ user_bar # Unset => user_bar \in Detected
            /\ bypass_bar # Unset => bypass_bar \in Detected
            /\ \A i \in Detected : /\ user_bar = i <=> Has(i, "user")
                                   /\ bypass_bar = i <=> Has(i, "bypass")

\* Interrupts are given back once, and before their vectors are, unless a request
\* failed, offline and online did not take turns, or a polled device went
\* offline; a device that is closed holds none (irq_teardown).
GivenBack ==
    /\ astray => mishap # {}
    /\ at = "closed" /\ mishap = {} => requested = {} /\ shares = 0 /\ ~chanEn /\ ~userEn

\* Types.
TypeOK ==
    /\ card \in Cards
    /\ chanVec \in [ChanSlots -> Nat] /\ userVec \in [Users -> Nat]
    /\ ie \in [Engines -> {"none", "errors", "all"}] /\ wb \in [Engines -> BOOLEAN]
    /\ {chanEn, userEn, poll_mode, irq_line, mask_irq_user, astray} \subseteq BOOLEAN
    /\ at \in {"closed", "bars", "engines", "enable", "irqs", "running", "offline"}
    /\ mishap \subseteq {"engine", "request", "unpaired", "polled", "removed"}
    /\ {h2c_channel_max, c2h_channel_max} \subseteq 0 .. MaxChannels
    /\ enabled \in {"none", "msi", "msix"} /\ shares \in 0 .. MaxShares

\* A card is known for what it is, its interrupts arrive, and are given back.
SetupHolds == TypeOK /\ Ready /\ RolesRight /\ GivenBack
=============================================================================
