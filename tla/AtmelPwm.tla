------------------------------ MODULE AtmelPwm ------------------------------
(***************************************************************************)
(* The driver of the AVR32's PWM controller, drivers/misc/atmel_pwm.c: it  *)
(* hands out channels and the two divided clocks CLKA and CLKB, switches   *)
(* channels on and off, and calls the owners' handlers from pwm_irq.       *)
(*                                                                         *)
(* Every call runs with pwm->lock held and interrupts off, so it is one    *)
(* action.  pwm_irq drops the lock around each handler: between reading    *)
(* the interrupt status and acting on it, the handlers of the channels     *)
(* before (the only code that runs meanwhile on a single CPU) may use the  *)
(* whole interface.                                                        *)
(***************************************************************************)
EXTENDS Integers, FiniteSets

CONSTANTS
    Channels,    \* indexes 0 .. PWM_NCHAN - 1
    Mask,        \* pwm->mask: the channels pinned out on this board
    Clients,     \* struct pwm_channel objects of the drivers above
    NoClient,    \* NULL
    Prescales,   \* prescalers callers ask for
    Divs         \* linear divisors callers ask for

ASSUME ChannelAssumption ==
    /\ IsFiniteSet(Channels) /\ Channels \subseteq Nat /\ Mask \subseteq Channels
    /\ NoClient \notin Clients
ASSUME ClockAssumption == Prescales \subseteq Nat /\ Divs \subseteq Nat

VARIABLES
    present,     \* pwm # NULL
    channel,     \* pwm->channel[]
    handler,     \* pwm->handler[] is set
    index,       \* ch->index of every client
    enabled,     \* clk_enable calls not yet balanced by clk_disable
    sr, imr, isr,\* PWM_SR, PWM_IMR and PWM_ISR
    mr,          \* the CLKA and CLKB fields of PWM_MR, each <<prescale, div>>
    granted,     \* history: the clocks handed out and not freed, each with the
                 \* configuration its owner asked for
    irqPc, irqstat, at   \* pwm_irq: where it is, the status left, the channel served

chanVars  == <<channel, handler, index, enabled>>
clockVars == <<mr, granted>>
irqVars   == <<irqPc, irqstat, at>>
vars == <<present, chanVars, sr, imr, isr, clockVars, irqVars>>

Clocks == {"CLKA", "CLKB"}
Off == <<0, 0>>                      \* an unconfigured clock field
Config(prescale, div) == <<prescale, div>>
Configs == (Prescales \X Divs) \cup {Off}
Grants == [clk : Clocks, config : Configs]
Owned == {c \in Channels : channel[c] # NoClient}

Init ==
    /\ present = FALSE
    /\ channel = [c \in Channels |-> NoClient]
    /\ handler = [c \in Channels |-> FALSE]
    /\ index = [h \in Clients |-> 0]
    /\ enabled = 0
    /\ sr = {} /\ imr = {} /\ isr = {}
    /\ mr = [k \in Clocks |-> Off]
    /\ granted = {}
    /\ irqPc = "idle" /\ irqstat = {} /\ at = 0

-----------------------------------------------------------------------------
\* pwm_probe succeeds once; its failures leave nothing behind.
Probe ==
    /\ ~ present
    /\ present' = TRUE
    /\ UNCHANGED <<chanVars, sr, imr, isr, clockVars, irqVars>>

\* pwm->lock is free: not inside pwm_irq, or inside one of its handlers.
Callable == present /\ irqPc # "scan"

\* pwmcheck: the index the client's channel has, if it really is its own.
Checked_IndexOnly(h) == index[h] \in Channels   \* mutant: any client's channel passes
Checked(h) == index[h] \in Channels /\ channel[index[h]] = h

\* "channel and irq are always disabled when we return"
Disable_KeepsIrq(c) == sr' = sr \ {c} /\ UNCHANGED imr      \* mutant: no PWM_IDR
Disable(c) == sr' = sr \ {c} /\ imr' = imr \ {c}

ClkDisable_Missing == UNCHANGED enabled                     \* mutant
ClkDisable == enabled' = enabled - 1

\* pwm_channel_alloc: memset clears the client's index before the lock is taken,
\* also of a client that owns a channel, and also when the channel turns out to be
\* busy.  An interrupt between the two meets what a refused call leaves.
ChannelAlloc(h, c) ==
    /\ Callable /\ c \in Mask
    /\ IF channel[c] # NoClient
       THEN /\ index' = [index EXCEPT ![h] = 0]
            /\ UNCHANGED <<channel, handler, enabled, sr, imr>>
       ELSE /\ index' = [index EXCEPT ![h] = c]
            /\ channel' = [channel EXCEPT ![c] = h]
            /\ handler' = [handler EXCEPT ![c] = FALSE]
            /\ enabled' = enabled + 1
            /\ Disable(c)
    /\ UNCHANGED <<present, isr, clockVars, irqVars>>

ChannelFree(h) ==
    /\ Callable /\ Checked(h)
    /\ channel' = [channel EXCEPT ![index[h]] = NoClient]
    /\ handler' = [handler EXCEPT ![index[h]] = FALSE]
    /\ Disable(index[h])
    /\ ClkDisable
    /\ UNCHANGED <<present, index, isr, clockVars, irqVars>>

\* __pwm_channel_onoff
ChannelOnOff(h, on) ==
    /\ Callable /\ Checked(h)
    /\ sr' = IF on THEN sr \cup {index[h]} ELSE sr \ {index[h]}
    /\ UNCHANGED <<present, chanVars, imr, isr, clockVars, irqVars>>

ChannelHandler(h, set) ==
    /\ Callable /\ Checked(h)
    /\ handler' = [handler EXCEPT ![index[h]] = set]
    /\ imr' = IF set THEN imr \cup {index[h]} ELSE imr \ {index[h]}
    /\ UNCHANGED <<present, channel, index, enabled, sr, isr, clockVars, irqVars>>

-----------------------------------------------------------------------------
\* The clocks pwm_clk_alloc configures: every unconfigured one; it returns the
\* last of them.
Unconfigured_Any == Clocks           \* mutant: the fields of PWM_MR are not looked at
Unconfigured == {k \in Clocks : mr[k] = Off}
Returned == IF "CLKB" \in Unconfigured THEN "CLKB" ELSE "CLKA"

ClkAlloc(prescale, div) ==
    /\ Callable
    /\ LET valid == prescale < 10 /\ div # 0 /\ div <= 255
           ret == IF ~ valid THEN "EINVAL"
                  ELSE IF Unconfigured = {} THEN "EBUSY" ELSE Returned
       IN /\ mr' = IF valid THEN [k \in Clocks |-> IF k \in Unconfigured
                                                   THEN Config(prescale, div) ELSE mr[k]]
                            ELSE mr
          /\ granted' = IF ret \in Clocks
                        THEN granted \cup {[clk |-> ret, config |-> Config(prescale, div)]}
                        ELSE granted
    /\ UNCHANGED <<present, chanVars, sr, imr, isr, irqVars>>

\* pwm_clk_free of a clock its caller was given.
ClkFree(g) ==
    /\ Callable
    /\ mr' = [mr EXCEPT ![g.clk] = Off]
    /\ granted' = granted \ {g}
    /\ UNCHANGED <<present, chanVars, sr, imr, isr, irqVars>>

-----------------------------------------------------------------------------
\* The controller: a period of a running channel ends.
Period(c) ==
    /\ c \in sr
    /\ isr' = isr \cup {c}
    /\ UNCHANGED <<present, chanVars, sr, imr, clockVars, irqVars>>

\* pwm_irq: reading ISR acknowledges everything, masked channels too.
IrqEnter ==
    /\ present /\ irqPc = "idle" /\ isr \cap imr # {}
    /\ irqPc' = "scan" /\ irqstat' = isr /\ isr' = {}
    /\ UNCHANGED <<present, chanVars, sr, imr, clockVars, at>>

\* ffs(irqstat): the lowest channel; its handler is called without the lock.
IrqScan ==
    /\ irqPc = "scan"
    /\ \E c \in irqstat :
          /\ \A d \in irqstat : c <= d
          /\ irqstat' = irqstat \ {c}
          /\ IF handler[c] /\ channel[c] # NoClient
             THEN irqPc' = "handler" /\ at' = c
             ELSE UNCHANGED <<irqPc, at>>
    /\ UNCHANGED <<present, chanVars, sr, imr, isr, clockVars>>

HandlerReturns ==
    /\ irqPc = "handler" /\ irqPc' = "scan"
    /\ UNCHANGED <<present, chanVars, sr, imr, isr, clockVars, irqstat, at>>

IrqLeave ==
    /\ irqPc = "scan" /\ irqstat = {}
    /\ irqPc' = "idle"
    /\ UNCHANGED <<present, chanVars, sr, imr, isr, clockVars, irqstat, at>>

-----------------------------------------------------------------------------
Calls ==
    \/ \E h \in Clients : \/ \E c \in Channels : ChannelAlloc(h, c)
                          \/ ChannelFree(h)
                          \/ \E b \in BOOLEAN : ChannelOnOff(h, b) \/ ChannelHandler(h, b)
    \/ \E prescale \in Prescales, div \in Divs : ClkAlloc(prescale, div)
    \/ \E g \in granted : ClkFree(g)

Irq == IrqEnter \/ IrqScan \/ HandlerReturns \/ IrqLeave

Next == Probe \/ Calls \/ (\E c \in Channels : Period(c)) \/ Irq

Spec == Init /\ [][Next]_vars

-----------------------------------------------------------------------------
(***************************************************************************)
(* Properties.                                                             *)
(***************************************************************************)
TypeOK ==
    /\ present \in BOOLEAN
    /\ channel \in [Channels -> Clients \cup {NoClient}]
    /\ handler \in [Channels -> BOOLEAN]
    /\ index \in [Clients -> Channels \cup {0}]
    /\ enabled \in Nat
    /\ sr \in SUBSET Channels /\ imr \in SUBSET Channels /\ isr \in SUBSET Channels
    /\ mr \in [Clocks -> Configs] /\ granted \in SUBSET Grants
    /\ irqPc \in {"idle", "scan", "handler"}
    /\ irqstat \in SUBSET Channels /\ at \in Channels \cup {0}

\* The controller's clock is enabled once for every channel handed out: it
\* neither stops under a channel in use nor runs on after the last is freed.
ClockBalance == enabled = Cardinality(Owned)

\* A channel nobody owns neither runs nor interrupts, and a channel interrupts
\* exactly when it has a handler, also after handlers freed or took channels
\* in the middle of pwm_irq.
ChannelsQuiet ==
    \A c \in Channels :
        /\ c \in sr => c \in Owned
        /\ c \in imr <=> handler[c]
        /\ handler[c] => c \in Owned

\* A clock handed out keeps the configuration its owner asked for until the
\* owner frees it: pwm_clk_alloc never reconfigures a clock in use.
GrantedClocksKept == \A g \in granted : mr[g.clk] = g.config
=============================================================================
