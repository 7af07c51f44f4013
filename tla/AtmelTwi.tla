------------------------------ MODULE AtmelTwi ------------------------------
(***************************************************************************)
(* The driver of the AVR32's two-wire interface,                           *)
(* drivers/i2c/busses/i2c-atmeltwi.c: twi_xfer moves the messages of one   *)
(* I2C transfer with the help of the interrupt handler twi_interrupt and   *)
(* gives up after 100 ms without a completion.                             *)
(*                                                                         *)
(* i2c-core calls twi_xfer under the adapter's bus lock, so there is one   *)
(* caller.  Beside it run the controller and the slave, at their own pace, *)
(* and the interrupt handler, whenever an enabled status bit is set.  A    *)
(* bus that hangs is a controller that takes no step.  The handler is      *)
(* atomic: it runs with interrupts off on the only CPU and is faster than  *)
(* the transfer of a byte.                                                 *)
(***************************************************************************)
EXTENDS Integers, Sequences

CONSTANTS
    MaxMsgs,   \* bound: messages in a transfer
    MaxLen,    \* bound: bytes in a message
    MaxAcks    \* the largest value of twi->acks_left, a u16

ASSUME TwiAssumption ==
    MaxMsgs \in Nat \ {0} /\ MaxLen \in Nat \ {0} /\ MaxAcks \in Nat /\ MaxLen =< MaxAcks

VARIABLES
    pc, msgs, i, ret,                \* twi_xfer: where it is, its messages, its result
    buf,                             \* what reads put into the messages' buffers
    acksLeft, mask, status, comp,    \* twi->acks_left, mask, status and comp
    sr, imr, thr, rhr, stop,         \* TWI registers: SR, IMR, THR, RHR, a pending STOP
    bus, shift, count, wire,         \* the bus: its phase, the byte in flight, bytes read
                                     \* from the slave, bytes the slave took of each message
    faults                           \* history: what went wrong on the bus

callVars == <<pc, msgs, i, ret>>
twiVars  == <<acksLeft, mask, status, comp>>
regVars  == <<sr, imr, thr, rhr, stop>>
busVars  == <<bus, shift, count, wire, faults>>
vars == <<callVars, buf, twiVars, regVars, busVars>>

Flags == {"TXCOMP", "RXRDY", "TXRDY", "OVRE", "NACK"}
Errors == {"EPIPE", "ENOSR", "EOVERFLOW", "ETIMEDOUT"}
Message == [rd : BOOLEAN, len : 0 .. MaxLen]

Nothing == <<0, 0>>
Garbage == <<0, 1>>                  \* what is in memory and no part of the message
Byte(m, k) == <<m, k>>               \* the k-th byte of message m, on either side
Bytes == (0 .. MaxMsgs) \X (0 .. MaxLen + 2)

Msg == msgs[i]
\* twi->buf[twi->len - twi->acks_left], counted from 1, and the k-th byte of buf.
Position == Msg.len - acksLeft + 1
Given(k) == IF k \in 1 .. Msg.len THEN Byte(i, k) ELSE Garbage

Less_Signed(n) == n - 1                   \* mutant: acks_left is an int

\* twi->acks_left--
Less(n) == IF n = 0 THEN MaxAcks ELSE n - 1

NoBytes == [m \in 1 .. MaxMsgs |-> <<>>]
EmptyBuffers == [m \in 1 .. MaxMsgs |-> [k \in 1 .. MaxLen |-> Nothing]]

Init ==
    /\ pc = "idle" /\ msgs = <<>> /\ i = 1 /\ ret = "ok"
    /\ buf = EmptyBuffers
    /\ acksLeft = 0 /\ mask = {} /\ status = "ok" /\ comp = FALSE
    /\ sr = {"TXCOMP", "TXRDY"} /\ imr = {} /\ thr = Nothing /\ rhr = Nothing
    /\ stop = FALSE
    /\ bus = "idle" /\ shift = Nothing /\ count = 0 /\ wire = NoBytes /\ faults = {}

-----------------------------------------------------------------------------
(***************************************************************************)
(* twi_xfer and twi_complete.                                              *)
(***************************************************************************)
ClearStatus_Missing == UNCHANGED status   \* mutant: the last transfer's status stays
ClearStatus == status' = "ok"

\* i2c-core hands over a transfer; the history starts anew with it.
Call ==
    /\ pc \in {"idle", "returned"}
    /\ \E n \in 1 .. MaxMsgs : msgs' \in [1 .. n -> Message]
    /\ i' = 1 /\ pc' = "setup"
    /\ ClearStatus
    /\ buf' = EmptyBuffers /\ wire' = NoBytes /\ faults' = {}
    /\ UNCHANGED <<ret, acksLeft, mask, comp, regVars, bus, shift, count>>

\* A read: drop what an earlier overrun left in RHR, then START, with STOP for
\* a single byte.  Reading SR clears OVRE and NACK.
StartRead ==
    /\ pc = "setup" /\ Msg.rd
    /\ acksLeft' = Msg.len
    /\ sr' = sr \ {"RXRDY", "OVRE", "NACK", "TXCOMP"}
    /\ stop' = (Msg.len = 1)
    /\ bus' = "addr" /\ count' = 0
    /\ pc' = "arm"
    /\ UNCHANGED <<msgs, i, ret, buf, mask, status, comp, imr, thr, rhr, shift, wire,
                   faults>>

\* A write starts when its first byte is written to THR; nothing asks whether there
\* is one.
StartWrite ==
    /\ pc = "setup" /\ ~ Msg.rd
    /\ acksLeft' = Less(Msg.len)
    /\ thr' = Given(1)
    /\ sr' = sr \ {"TXRDY", "TXCOMP"}
    /\ stop' = FALSE
    /\ bus' = "addr"
    /\ pc' = "arm"
    /\ UNCHANGED <<msgs, i, ret, buf, mask, status, comp, imr, rhr, shift, count, wire,
                   faults>>

\* twi_complete up to the wait: only the caller's bit and TXCOMP are enabled,
\* NACK and OVRE are looked at when one of these comes.
Arm ==
    LET wanted == {IF Msg.rd THEN "RXRDY" ELSE "TXRDY", "TXCOMP"} IN
    /\ pc = "arm"
    /\ mask' = wanted \cup {"NACK", "OVRE"}
    /\ comp' = FALSE
    /\ imr' = imr \cup wanted
    /\ pc' = "wait"
    /\ UNCHANGED <<msgs, i, ret, buf, acksLeft, status, sr, thr, rhr, stop, busVars>>

\* The completion came: MSDIS, then an error, the next message or the end.
Completed ==
    /\ pc = "wait" /\ comp
    /\ \/ status # "ok" /\ ret' = status /\ pc' = "returned" /\ UNCHANGED i
       \/ status = "ok" /\ i < Len(msgs) /\ i' = i + 1 /\ pc' = "setup" /\ UNCHANGED ret
       \/ status = "ok" /\ i = Len(msgs) /\ ret' = "ok" /\ pc' = "returned" /\ UNCHANGED i
    /\ UNCHANGED <<msgs, buf, twiVars, regVars, busVars>>

Timeout_Never == FALSE                    \* mutant: wait_for_completion

\* wait_for_completion_timeout returns 0; an interrupt may still come in.
Timeout ==
    /\ pc = "wait" /\ ~ comp
    /\ pc' = "reset"
    /\ UNCHANGED <<msgs, i, ret, buf, twiVars, regVars, busVars>>

MaskAll_Missing == UNCHANGED imr          \* mutant: twi_hwinit does not write IDR
MaskAll == imr' = {}

\* SWRST and twi_hwinit.
Reset ==
    /\ pc = "reset"
    /\ MaskAll /\ sr' = {"TXCOMP", "TXRDY"} /\ thr' = Nothing /\ stop' = FALSE
    /\ bus' = "idle" /\ shift' = Nothing
    /\ ret' = "ETIMEDOUT" /\ pc' = "returned"
    /\ UNCHANGED <<msgs, i, buf, twiVars, rhr, count, wire, faults>>

-----------------------------------------------------------------------------
(***************************************************************************)
(* twi_interrupt.  Reading SR clears OVRE and NACK.                        *)
(***************************************************************************)
Pending == sr \cap mask
Interrupt == sr \cap imr # {}
AfterRead == sr \ {"OVRE", "NACK"}

Done_IgnoresUnderrun(left) ==             \* mutant: ENOSR is not reported
    /\ status' = IF "NACK" \in Pending THEN "EPIPE" ELSE status
    /\ imr' = {} /\ comp' = TRUE

\* The label done: judge the message, mask everything, wake the caller.
Done(left) ==
    /\ status' = IF "NACK" \in Pending THEN "EPIPE"
                 ELSE IF left > 0 /\ "TXRDY" \in mask THEN "ENOSR"
                 ELSE status
    /\ imr' = {} /\ comp' = TRUE

Continue_KeepsEnabled(left) == UNCHANGED <<imr, comp>>   \* mutant: no IDR

\* With no byte left only TXCOMP stays enabled.
Continue(left) ==
    /\ imr' = IF left = 0 THEN imr \cap {"TXCOMP"} ELSE imr
    /\ UNCHANGED comp

\* A byte was lost while the message still needs some.
IsrOverrun ==
    /\ Interrupt /\ {"RXRDY", "OVRE"} \subseteq Pending /\ acksLeft > 0
    /\ acksLeft' = 0 /\ stop' = TRUE
    /\ sr' = AfterRead
    /\ IF "TXCOMP" \in Pending
       THEN /\ imr' = {} /\ comp' = TRUE
            /\ status' = IF "NACK" \in Pending THEN "EPIPE" ELSE "EOVERFLOW"
       ELSE Continue(0) /\ status' = "EOVERFLOW"
    /\ UNCHANGED <<callVars, buf, mask, thr, rhr, busVars>>

\* Take the byte, if one is missing; ask for STOP when one more is to come.
IsrReceive ==
    /\ Interrupt /\ "RXRDY" \in Pending
    /\ "OVRE" \in Pending => acksLeft = 0
    /\ IF acksLeft > 0
       THEN /\ buf' = [buf EXCEPT ![i][Position] = rhr]
            /\ acksLeft' = acksLeft - 1
            /\ sr' = AfterRead \ {"RXRDY"}
       ELSE UNCHANGED <<buf, acksLeft>> /\ sr' = AfterRead
    /\ IF "TXCOMP" \in Pending
       THEN Done(acksLeft') /\ UNCHANGED stop
       ELSE Continue(acksLeft') /\ UNCHANGED status /\ stop' = (stop \/ acksLeft' = 1)
    /\ UNCHANGED <<callVars, mask, thr, rhr, busVars>>

IsrComplete ==
    /\ Interrupt /\ "RXRDY" \notin Pending /\ Pending \cap {"NACK", "TXCOMP"} # {}
    /\ sr' = AfterRead
    /\ Done(acksLeft)
    /\ UNCHANGED <<callVars, buf, acksLeft, mask, thr, rhr, stop, busVars>>

\* The next byte of a write, or STOP after the last.
IsrSend ==
    /\ Interrupt /\ Pending \cap {"RXRDY", "NACK", "TXCOMP"} = {} /\ "TXRDY" \in Pending
    /\ IF acksLeft > 0
       THEN /\ thr' = Given(Position)
            /\ acksLeft' = acksLeft - 1
            /\ sr' = AfterRead \ {"TXRDY"}
            /\ UNCHANGED stop
       ELSE stop' = TRUE /\ sr' = AfterRead /\ UNCHANGED <<thr, acksLeft>>
    /\ Continue(acksLeft')
    /\ UNCHANGED <<callVars, buf, mask, status, rhr, busVars>>

Isr == IsrOverrun \/ IsrReceive \/ IsrComplete \/ IsrSend

-----------------------------------------------------------------------------
(***************************************************************************)
(* The controller and the slave, as the driver takes them to behave.       *)
(***************************************************************************)
BusIdle(more) == bus' = "idle" /\ sr' = sr \cup {"TXCOMP"} \cup more

\* The slave acknowledges its address, or does not.
HwAddress ==
    /\ bus = "addr"
    /\ \/ /\ bus' = "data"
          /\ IF Msg.rd THEN UNCHANGED <<sr, thr, shift>>
             ELSE shift' = thr /\ thr' = Nothing /\ sr' = sr \cup {"TXRDY"}
          /\ UNCHANGED faults
       \/ /\ BusIdle({"NACK"}) /\ faults' = faults \cup {"nack"}
          /\ thr' = Nothing /\ UNCHANGED shift
    /\ UNCHANGED <<callVars, buf, twiVars, imr, rhr, stop, count, wire>>

\* A byte from the slave; an unread one before it is lost.  The last one is followed
\* by STOP, before or after the driver sees the byte.
HwReceive ==
    /\ bus = "data" /\ Msg.rd /\ count <= MaxLen
    /\ count' = count + 1
    /\ rhr' = Byte(i, count + 1)
    /\ LET lost == IF "RXRDY" \in sr THEN {"OVRE"} ELSE {} IN
       /\ faults' = IF lost = {} THEN faults ELSE faults \cup {"overrun"}
       /\ \/ stop /\ BusIdle({"RXRDY"} \cup lost)
          \/ /\ bus' = IF stop THEN "stop" ELSE "data"
             /\ sr' = sr \cup {"RXRDY"} \cup lost
    /\ UNCHANGED <<callVars, buf, twiVars, imr, thr, stop, shift, wire>>

HwStop ==
    /\ bus = "stop" /\ BusIdle({})
    /\ UNCHANGED <<callVars, buf, twiVars, imr, thr, rhr, stop, shift, count, wire, faults>>

\* A byte to the slave; with THR empty after it the controller stops by itself.
HwTransmit ==
    /\ bus = "data" /\ ~ Msg.rd
    /\ \/ /\ wire' = [wire EXCEPT ![i] = Append(@, shift)]
          /\ shift' = thr /\ thr' = Nothing
          /\ IF thr # Nothing THEN bus' = "data" /\ sr' = sr \cup {"TXRDY"}
                              ELSE BusIdle({})
          /\ faults' = IF thr = Nothing /\ acksLeft > 0 THEN faults \cup {"underrun"}
                                                        ELSE faults
       \/ /\ BusIdle({"NACK"}) /\ faults' = faults \cup {"nack"}
          /\ shift' = Nothing /\ thr' = Nothing /\ UNCHANGED wire
    /\ UNCHANGED <<callVars, buf, twiVars, imr, rhr, stop, count>>

Hardware == HwAddress \/ HwReceive \/ HwStop \/ HwTransmit

-----------------------------------------------------------------------------
Xfer == StartRead \/ StartWrite \/ Arm \/ Completed \/ Timeout \/ Reset
Next == Call \/ Xfer \/ Isr \/ Hardware

\* The caller runs and its timer expires; the bus owes nothing.
Spec == Init /\ [][Next]_vars
FairSpec == Spec /\ WF_vars(Xfer)

-----------------------------------------------------------------------------
(***************************************************************************)
(* Properties.                                                             *)
(***************************************************************************)
TypeOK ==
    /\ pc \in {"idle", "setup", "arm", "wait", "reset", "returned"}
    /\ msgs \in UNION {[1 .. n -> Message] : n \in 0 .. MaxMsgs}
    /\ i \in 1 .. MaxMsgs
    /\ ret \in {"ok"} \cup Errors
    /\ buf \in [1 .. MaxMsgs -> [1 .. MaxLen -> Bytes]]
    /\ acksLeft \in 0 .. MaxAcks
    /\ mask \in SUBSET Flags
    /\ status \in {"ok"} \cup Errors
    /\ comp \in BOOLEAN
    /\ sr \in SUBSET Flags /\ imr \in SUBSET Flags
    /\ thr \in Bytes /\ rhr \in Bytes /\ shift \in Bytes
    /\ stop \in BOOLEAN
    /\ bus \in {"idle", "addr", "data", "stop"}
    /\ count \in 0 .. MaxLen + 1
    /\ wire \in [1 .. MaxMsgs -> Seq(Bytes)]
    /\ faults \in SUBSET {"nack", "overrun", "underrun"}

InOrder(m) == [k \in 1 .. msgs[m].len |-> Byte(m, k)]
Succeeded == pc = "returned" /\ ret = "ok"

\* A transfer that reports success moved every byte of every message, in order
\* and once: the buffers hold what the slave sent, the slave has what was given, and
\* nothing else unless it was given a message of no bytes.
SuccessMeansMoved ==
    Succeeded => \A m \in 1 .. Len(msgs) :
        IF msgs[m].rd THEN \A k \in 1 .. msgs[m].len : buf[m][k] = Byte(m, k)
                      ELSE msgs[m].len > 0 => wire[m] = InOrder(m)

\* Whatever an error verdict names did happen during this transfer, and a
\* fault never passes for success: no status, completion or status bit of an
\* earlier message or of a transfer that timed out is taken for this one's.
VerdictHonest ==
    pc = "returned" =>
        /\ ret = "EPIPE" => "nack" \in faults
        /\ ret = "EOVERFLOW" => "overrun" \in faults
        /\ ret = "ENOSR" => "underrun" \in faults
        /\ ret = "ok" => faults = {}

\* Between transfers the interface is silent: nothing is enabled, and the bus
\* is idle, whichever way the last transfer ended.
QuietBetweenTransfers == pc \in {"idle", "returned"} => imr = {} /\ bus = "idle"

\* Every run of the handler removes the cause of its interrupt, else the only
\* CPU would never leave it.
InterruptCauseRemoved == [][Isr => sr' \cap imr' = {}]_vars

\* twi_xfer returns, even from a bus that hangs, and from a read of no bytes, for
\* which nobody asks the controller to stop.
XferReturns == pc = "setup" ~> pc = "returned"
=============================================================================
