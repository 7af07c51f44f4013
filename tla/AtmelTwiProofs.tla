--------------------------- MODULE AtmelTwiProofs ---------------------------
(***************************************************************************)
(* Proofs about AtmelTwi, for transfers of any number of messages of any   *)
(* length, none included: a transfer that succeeds has moved every byte,   *)
(* an error is reported when it happened, and the controller is silent     *)
(* afterwards.                                                             *)
(***************************************************************************)
EXTENDS AtmelTwi, TLAPS, SequenceTheorems

-----------------------------------------------------------------------------
\* The interrupts a message needs, besides the two that tell of errors.
Wanted == {IF Msg.rd THEN "RXRDY" ELSE "TXRDY", "TXCOMP"}

\* s is the first n bytes of message m.
Sent(s, m, n) == Len(s) = n /\ \A k \in 1 .. n : s[k] = Byte(m, k)
\* Bytes taken from RHR or given to THR.
Handled == Msg.len - acksLeft

\* The bytes of message m are where they belong.
Moved(m) ==
    IF msgs[m].rd THEN \A k \in 1 .. msgs[m].len : buf[m][k] = Byte(m, k)
                  ELSE msgs[m].len > 0 => Sent(wire[m], m, msgs[m].len)

\* A message is in flight from its START until twi_interrupt has judged it.
InFlight == pc = "arm" \/ (pc \in {"wait", "reset"} /\ ~ comp)

\* Between transfers nothing is enabled and the bus is idle; what each step of
\* twi_xfer knows of the registers.
Stages ==
    /\ ~ InFlight => imr = {} /\ bus = "idle" /\ "NACK" \notin sr
    /\ bus = "idle" <=> "TXCOMP" \in sr
    /\ "NACK" \in sr => bus = "idle"
    /\ pc = "arm" => imr = {}
    /\ pc \in {"wait", "reset"} =>
          mask = Wanted \cup {"NACK", "OVRE"} /\ imr \subseteq Wanted
    /\ pc \in {"setup", "arm", "wait", "reset"} => i \in 1 .. Len(msgs)
    /\ pc = "setup" => status = "ok" /\ faults = {}

\* A read in flight.
ReadUnharmed ==
    /\ faults = {} /\ status = "ok" /\ sr \cap {"OVRE", "NACK"} = {}
    /\ count = Handled + (IF "RXRDY" \in sr THEN 1 ELSE 0)
    /\ "RXRDY" \in sr => rhr = Byte(i, count)
    /\ \A k \in 1 .. Handled : buf[i][k] = Byte(i, k)
    /\ stop <=> acksLeft =< 1
    /\ bus = "addr" => count = 0
    /\ bus = "data" => count < Msg.len
    /\ bus \in {"stop", "idle"} => count = Msg.len
ReadOverrun ==
    /\ faults = {"overrun"} /\ "NACK" \notin sr /\ bus # "addr"
    /\ IF acksLeft > 0 THEN {"RXRDY", "OVRE"} \subseteq sr /\ status = "ok"
                       ELSE status = "EOVERFLOW"
ReadRefused ==
    faults = {"nack"} /\ "NACK" \in sr /\ "OVRE" \notin sr /\ status = "ok"
\* Nobody asks for STOP: only a missing acknowledge ends a read of no bytes.
ReadOfNothing ==
    /\ status = "ok" /\ ~ stop /\ bus \in {"addr", "data"}
    /\ bus = "addr" => faults = {} /\ "OVRE" \notin sr
Reading ==
    InFlight /\ Msg.rd =>
        /\ acksLeft \in 0 .. Msg.len
        /\ \/ Msg.len > 0 /\ (ReadUnharmed \/ ReadOverrun)
           \/ Msg.len = 0 /\ ReadOfNothing
           \/ ReadRefused

\* A write in flight.
OnTheWire(n) == Sent(wire[i], i, n)
WriteAddressed ==
    /\ bus = "addr" /\ Handled = 1 /\ OnTheWire(0)
    /\ thr = Byte(i, 1) /\ "TXRDY" \notin sr
WriteSending ==
    /\ bus = "data"
    /\ \/ thr = Nothing /\ OnTheWire(Handled - 1) /\ shift = Byte(i, Handled)
       \/ /\ thr = Byte(i, Handled) /\ "TXRDY" \notin sr
          /\ Handled > 1 /\ OnTheWire(Handled - 2) /\ shift = Byte(i, Handled - 1)
WriteEnded ==
    /\ bus = "idle" /\ OnTheWire(Handled)
    /\ faults = IF acksLeft > 0 THEN {"underrun"} ELSE {}
WriteRefused == bus = "idle" /\ "NACK" \in sr /\ faults = {"nack"}
\* acks_left has wrapped, and counts bytes that are none of the message's.
WriteOfNothing ==
    bus # "stop" /\ faults = IF bus = "idle" /\ acksLeft > 0 THEN {"underrun"} ELSE {}
Writing ==
    InFlight /\ ~ Msg.rd =>
        /\ acksLeft \in 0 .. MaxAcks /\ status = "ok"
        /\ \/ /\ Msg.len > 0 /\ acksLeft < Msg.len /\ "NACK" \notin sr
              /\ \/ (WriteAddressed \/ WriteSending) /\ faults = {}
                 \/ WriteEnded
           \/ Msg.len = 0 /\ WriteOfNothing /\ "NACK" \notin sr
           \/ WriteRefused

\* The verdict on the message, and the messages before and after it.
Honest(verdict) ==
    /\ verdict = "EPIPE" => "nack" \in faults
    /\ verdict = "EOVERFLOW" => "overrun" \in faults
    /\ verdict = "ENOSR" => "underrun" \in faults
    /\ verdict = "ok" => faults = {}

\* When twi_xfer is woken the handler's verdict is there.
Judged == pc = "wait" /\ comp => Honest(status) /\ (status = "ok" => Moved(i))

\* The messages before the current one have been moved, ...
Before ==
    /\ pc \in {"setup", "arm", "wait"} => \A m \in 1 .. i - 1 : Moved(m)
    /\ Succeeded => \A m \in 1 .. Len(msgs) : Moved(m)

\* ... none of those after it has been started.
After ==
    /\ pc = "setup" => wire[i] = <<>>
    /\ pc \in {"setup", "arm", "wait"} => \A m \in i + 1 .. Len(msgs) : wire[m] = <<>>
Returned == pc = "returned" => Honest(ret)

\* The inductive invariant.
IInv ==
    TypeOK /\ Stages /\ Reading /\ Writing /\ Judged /\ Before /\ After /\ Returned

\* pmsg[0 .. num - 1] are messages.
LEMMA MsgsTyped ==
    ASSUME TypeOK
    PROVE  /\ Len(msgs) \in 0 .. MaxMsgs /\ DOMAIN msgs = 1 .. Len(msgs)
           /\ \A m \in 1 .. Len(msgs) : msgs[m] \in Message
<1>1. PICK n \in 0 .. MaxMsgs : msgs \in [1 .. n -> Message]
  BY DEF TypeOK
<1>2. MaxMsgs \in Nat
  BY TwiAssumption
<1>3. n \in Nat /\ n =< MaxMsgs
  BY <1>1, <1>2
<1>4. msgs \in Seq(Message) /\ DOMAIN msgs = 1 .. n
  BY <1>1, <1>3
<1>5. Len(msgs) = n
  BY <1>3, <1>4
<1> QED
  BY <1>1, <1>3, <1>4, <1>5

\* twi->pmsg is one of them while a transfer runs.
LEMMA MsgTyped ==
    ASSUME TypeOK, Stages, pc \in {"setup", "arm", "wait", "reset"}
    PROVE  Msg.rd \in BOOLEAN /\ Msg.len \in 0 .. MaxLen /\ i \in 1 .. Len(msgs)
BY MsgsTyped DEF Stages, Message, Msg

\* An enabled interrupt or a busy bus tells that a message is in flight.
LEMMA Inside ==
    ASSUME TypeOK, Stages
    PROVE  /\ bus # "idle" => InFlight
           /\ imr # {} => InFlight
BY DEF Stages

\* twi_interrupt runs only while a message is in flight, and only for the
\* flags of its direction and for errors; so the flags it sees pending are
\* those of the status register.
LEMMA IsrRuns ==
    ASSUME TypeOK, Stages, Interrupt
    PROVE  /\ InFlight /\ pc \in {"wait", "reset"} /\ ~ comp
           /\ mask = Wanted \cup {"NACK", "OVRE"} /\ imr \subseteq Wanted
           /\ "RXRDY" \in Pending => Msg.rd
           /\ "TXRDY" \in Pending => ~ Msg.rd
           /\ "TXRDY" \in mask <=> ~ Msg.rd
           /\ \A f \in {"TXCOMP", "NACK", "OVRE"} : f \in Pending <=> f \in sr
           /\ Msg.rd => ("RXRDY" \in Pending <=> "RXRDY" \in sr)
           /\ ~ Msg.rd => ("TXRDY" \in Pending <=> "TXRDY" \in sr)
<1>1. imr # {}
  BY DEF Interrupt
<1>2. InFlight /\ pc \in {"wait", "reset"} /\ ~ comp
  BY <1>1 DEF Stages, InFlight
<1>3. mask = Wanted \cup {"NACK", "OVRE"} /\ imr \subseteq Wanted
  BY <1>2 DEF Stages
<1>4. Msg.rd \in BOOLEAN
  BY <1>2, MsgTyped
<1> QED
  BY <1>2, <1>3, <1>4 DEF Wanted, Pending

\* The types of the variables, with names for the large sets.
Transfers == UNION {[1 .. n -> Message] : n \in 0 .. MaxMsgs}
Wires == [1 .. MaxMsgs -> Seq(Bytes)]
Buffers == [1 .. MaxMsgs -> [1 .. MaxLen -> Bytes]]
Typed ==
    /\ pc \in {"idle", "setup", "arm", "wait", "reset", "returned"}
    /\ msgs \in Transfers /\ i \in 1 .. MaxMsgs /\ ret \in {"ok"} \cup Errors
    /\ buf \in Buffers /\ acksLeft \in 0 .. MaxAcks
    /\ mask \in SUBSET Flags /\ status \in {"ok"} \cup Errors /\ comp \in BOOLEAN
    /\ sr \in SUBSET Flags /\ imr \in SUBSET Flags
    /\ thr \in Bytes /\ rhr \in Bytes /\ shift \in Bytes /\ stop \in BOOLEAN
    /\ bus \in {"idle", "addr", "data", "stop"} /\ count \in 0 .. MaxLen + 1
    /\ wire \in Wires /\ faults \in SUBSET {"nack", "overrun", "underrun"}

\* That is TypeOK.
LEMMA TypedIs == TypeOK <=> Typed
BY DEF TypeOK, Typed, Transfers, Wires, Buffers

\* Bytes of messages are bytes, also just beyond the last one.
LEMMA ByteTyped ==
    \A m \in 0 .. MaxMsgs, k \in 0 .. MaxLen + 2 : Byte(m, k) \in Bytes
BY DEF Byte, Bytes

\* So is the content of a register never loaded.
LEMMA NothingTyped == Nothing \in Bytes
BY TwiAssumption DEF Nothing, Bytes

\* twi_xfer leaves each message with every interrupt disabled and the bus
\* idle, because the handler masks everything when it completes one, and
\* because the reset does after a time-out.
LEMMA StagesStep ==
    ASSUME TypeOK, TypeOK', Stages, Judged, [Next]_vars
    PROVE  Stages'
<1> USE DEF vars, callVars, twiVars, regVars, busVars
<1>0. CASE UNCHANGED vars
  BY <1>0 DEF Stages, InFlight, Wanted, Msg
<1>1. CASE Call
  BY <1>1, MsgsTyped, TwiAssumption, MsgTyped
     DEF Call, ClearStatus, NoBytes, EmptyBuffers, Stages, InFlight, Wanted, Msg
<1>2. CASE StartRead
  BY <1>2, MsgTyped DEF StartRead, Stages, InFlight, Wanted, Msg
<1>3. CASE StartWrite
  BY <1>3, MsgTyped DEF StartWrite, Stages, InFlight, Wanted, Msg
<1>4. CASE Arm
  BY <1>4, MsgTyped DEF Arm, Stages, InFlight, Wanted, Msg
<1>5. CASE Completed
  <2>1. status = "ok" => faults = {}
    BY <1>5 DEF Completed, Judged, Honest
  <2>2. i \in Nat /\ Len(msgs) \in Nat
    BY <1>5, MsgsTyped, MsgTyped, TwiAssumption DEF Completed
  <2> QED
    BY <1>5, <2>1, <2>2, MsgTyped DEF Completed, Stages, InFlight
<1>6. CASE Timeout
  BY <1>6, MsgTyped DEF Timeout, Stages, InFlight, Wanted, Msg
<1>7. CASE Reset
  BY <1>7, MsgTyped DEF Reset, MaskAll, Stages, InFlight, Wanted, Msg
<1>8. CASE IsrOverrun
  BY <1>8, MsgTyped
     DEF IsrOverrun, Interrupt, Pending, AfterRead, Continue, Stages, InFlight, Wanted,
         Msg
<1>9. CASE IsrReceive
  BY <1>9, MsgTyped
     DEF IsrReceive, Interrupt, Pending, AfterRead, Continue, Done, Stages, InFlight,
         Wanted, Msg
<1>10. CASE IsrComplete
  BY <1>10, MsgTyped
     DEF IsrComplete, Interrupt, Pending, AfterRead, Done, Stages, InFlight, Wanted, Msg
<1>11. CASE IsrSend
  BY <1>11, MsgTyped
     DEF IsrSend, Interrupt, Pending, AfterRead, Continue, Stages, InFlight, Wanted, Msg
<1>12. CASE HwAddress
  BY <1>12, MsgTyped DEF HwAddress, BusIdle, Stages, InFlight, Wanted, Msg
<1>13. CASE HwReceive
  BY <1>13, MsgTyped DEF HwReceive, BusIdle, Stages, InFlight, Wanted, Msg
<1>14. CASE HwTransmit
  BY <1>14, MsgTyped DEF HwTransmit, BusIdle, Stages, InFlight, Wanted, Msg
<1>15. CASE HwStop
  BY <1>15, MsgTyped DEF HwStop, BusIdle, Stages, InFlight, Wanted, Msg
<1> QED
  BY <1>0, <1>1, <1>2, <1>3, <1>4, <1>5, <1>6, <1>7, <1>8, <1>9, <1>10, <1>11, <1>12,
     <1>13, <1>14, <1>15
     DEF Next, Xfer, Isr, Hardware

\* A read in flight: acks_left counts the bytes still to be taken from RHR, so
\* the position they are stored at is right, and STOP is set with one byte to
\* go.
LEMMA ReadingStep ==
    ASSUME TypeOK, TypeOK', Stages, Stages', Reading, [Next]_vars
    PROVE  Reading'
<1> USE DEF vars, callVars, twiVars, regVars, busVars
<1>0. CASE UNCHANGED vars
  BY <1>0
     DEF Reading, ReadUnharmed, ReadOverrun, ReadRefused, ReadOfNothing, Handled,
         Stages, InFlight, Wanted, Msg, TypeOK
<1>1. CASE Call
  BY <1>1, MsgTyped
     DEF Call, ClearStatus, NoBytes, EmptyBuffers, Reading, ReadUnharmed, ReadOverrun,
         ReadRefused, ReadOfNothing, Handled, Stages, InFlight, Wanted, Msg, TypeOK
<1>2. CASE StartRead
  <2>1. Msg' = Msg /\ Msg.len \in Nat
    BY <1>2, MsgTyped, TwiAssumption DEF StartRead, Msg
  <2>2. Handled' = 0 /\ acksLeft' = Msg.len
    BY <1>2, <2>1 DEF StartRead, Handled
  <2>3. /\ faults' = {} /\ status' = "ok"
        /\ sr' \cap {"OVRE", "NACK"} = {} /\ "RXRDY" \notin sr'
    BY <1>2 DEF StartRead, Stages
  <2>4. (stop' <=> Msg.len = 1) /\ bus' = "addr" /\ count' = 0
    BY <1>2 DEF StartRead
  <2>5. CASE Msg.len = 0
    <3>1. ReadOfNothing'
      BY <2>3, <2>4, <2>5 DEF ReadOfNothing
    <3>2. acksLeft' \in 0 .. Msg.len /\ Msg.len = 0
      BY <2>1, <2>2, <2>5
    <3> QED
      BY <2>1, <3>1, <3>2 DEF Reading
  <2>6. CASE Msg.len > 0
    <3>1. ReadUnharmed'
      <4>1. stop' <=> acksLeft' =< 1
        BY <2>1, <2>2, <2>4, <2>6
      <4>2. count' = Handled' + 0
        BY <2>2, <2>4
      <4> QED
        BY <2>2, <2>3, <2>4, <4>1, <4>2 DEF ReadUnharmed
    <3> QED
      BY <2>1, <2>2, <2>6, <3>1 DEF Reading
  <2> QED
    BY <2>1, <2>5, <2>6
<1>3. CASE StartWrite
  BY <1>3, MsgTyped
     DEF StartWrite, Reading, ReadUnharmed, ReadOverrun, ReadRefused, ReadOfNothing,
         Handled, Stages, InFlight, Wanted, Msg, TypeOK
<1>4. CASE Arm
  BY <1>4, MsgTyped
     DEF Arm, Reading, ReadUnharmed, ReadOverrun, ReadRefused, ReadOfNothing, Handled,
         Stages, InFlight, Wanted, Msg, TypeOK
<1>5. CASE Completed
  BY <1>5, MsgTyped
     DEF Completed, Reading, ReadUnharmed, ReadOverrun, ReadRefused, ReadOfNothing,
         Handled, Stages, InFlight, Wanted, Msg, TypeOK
<1>6. CASE Timeout
  BY <1>6, MsgTyped
     DEF Timeout, Reading, ReadUnharmed, ReadOverrun, ReadRefused, ReadOfNothing,
         Handled, Stages, InFlight, Wanted, Msg, TypeOK
<1>7. CASE Reset
  BY <1>7, MsgTyped
     DEF Reset, MaskAll, Reading, ReadUnharmed, ReadOverrun, ReadRefused,
         ReadOfNothing, Handled, Stages, InFlight, Wanted, Msg, TypeOK
<1>8. CASE IsrOverrun
  BY <1>8, MsgTyped
     DEF IsrOverrun, Interrupt, Pending, AfterRead, Continue, Reading, ReadUnharmed,
         ReadOverrun, ReadRefused, ReadOfNothing, Handled, Stages, InFlight, Wanted,
         Msg, TypeOK
<1>9. CASE IsrReceive
  <2>1. Msg' = Msg /\ Msg.rd /\ InFlight /\ Msg.len \in 0 .. MaxLen /\ MaxLen \in Nat
    BY <1>9, IsrRuns, MsgTyped, TwiAssumption DEF IsrReceive, Msg
  <2>2. CASE "TXCOMP" \in Pending
    BY <1>9, <2>1, <2>2, IsrRuns DEF IsrReceive, Done, Reading, InFlight
  <2>3. CASE "TXCOMP" \notin Pending
    <3>1. "TXCOMP" \notin sr /\ bus # "idle" /\ "NACK" \notin sr /\ "RXRDY" \in sr
      BY <1>9, <2>3, IsrRuns DEF IsrReceive, Stages, Pending
    <3>2. CASE ReadUnharmed /\ Msg.len > 0
      <4>0. /\ acksLeft \in Nat /\ count \in Nat
            /\ bus \in {"idle", "addr", "data", "stop"} /\ stop \in BOOLEAN
        BY TwiAssumption DEF TypeOK
      <4>1. /\ count = Handled + 1 /\ rhr = Byte(i, count)
            /\ count =< Msg.len /\ Handled \in Nat /\ acksLeft > 0
        <5>1. count = Handled + 1 /\ rhr = Byte(i, count)
          BY <3>1, <3>2 DEF ReadUnharmed
        <5>2. Handled \in Int
          BY <2>1, <4>0 DEF Handled
        <5>3. bus = "addr" => count = 0
          BY <3>2 DEF ReadUnharmed
        <5>4. /\ bus = "data" => count < Msg.len
              /\ bus = "stop" => count = Msg.len
          BY <3>2 DEF ReadUnharmed
        <5>5. acksLeft =< Msg.len
          BY <2>1, <4>0 DEF Reading
        <5> QED
          BY <2>1, <3>1, <4>0, <5>1, <5>2, <5>3, <5>4, <5>5 DEF Handled
      <4>2. acksLeft' = acksLeft - 1 /\ Handled' = count
        BY <1>9, <2>1, <4>0, <4>1 DEF IsrReceive, Handled
      <4>3. buf'[i] = [buf[i] EXCEPT ![count] = rhr]
        BY <1>9, <2>1, <4>1 DEF IsrReceive, TypeOK, Position, Handled
      <4>4. \A k \in 1 .. Handled' : buf'[i][k] = Byte(i, k)
        <5>1. i \in 1 .. MaxMsgs /\ DOMAIN buf[i] = 1 .. MaxLen
          BY DEF TypeOK
        <5>2. \A k \in 1 .. Handled : buf[i][k] = Byte(i, k)
          BY <3>2 DEF ReadUnharmed
        <5>3. /\ count \in 1 .. MaxLen /\ Handled \in Nat
              /\ Handled' = Handled + 1 /\ count = Handled + 1
          BY <2>1, <4>0, <4>1, <4>2
        <5>4. buf'[i][count] = rhr /\ \A k \in 1 .. Handled : buf'[i][k] = buf[i][k]
          BY <2>1, <4>3, <5>1, <5>3
        <5> HIDE DEF Handled
        <5> QED
          BY <4>1, <5>2, <5>3, <5>4
      <4>5. sr' = sr \ {"OVRE", "NACK", "RXRDY"}
        BY <1>9, <4>1 DEF IsrReceive, AfterRead
      <4>6. stop' <=> acksLeft' =< 1
        <5>1. stop <=> acksLeft =< 1
          BY <3>2 DEF ReadUnharmed
        <5>2. stop' <=> stop \/ acksLeft' = 1
          BY <1>9, <2>3 DEF IsrReceive
        <5> QED
          BY <4>0, <4>1, <4>2, <5>1, <5>2
      <4>7. UNCHANGED <<faults, status, count, bus, i>>
        BY <1>9, <2>3 DEF IsrReceive
      <4>8. ReadUnharmed'
        <5>1. count' = Handled' + 0 /\ "RXRDY" \notin sr'
          BY <2>1, <4>0, <4>2, <4>5, <4>7
        <5>2. /\ bus' = "addr" => count' = 0
              /\ bus' = "data" => count' < Msg.len
              /\ bus' \in {"stop", "idle"} => count' = Msg.len
          BY <3>2, <4>7 DEF ReadUnharmed
        <5>3. faults' = {} /\ status' = "ok" /\ sr' \cap {"OVRE", "NACK"} = {}
          BY <3>2, <4>5, <4>7 DEF ReadUnharmed
        <5> QED
          BY <2>1, <4>4, <4>6, <4>7, <5>1, <5>2, <5>3 DEF ReadUnharmed
      <4>9. acksLeft' \in 0 .. Msg.len
        BY <2>1, <4>0, <4>1, <4>2 DEF Reading
      <4> QED
        BY <2>1, <3>2, <4>8, <4>9 DEF Reading
    <3>5. CASE Msg.len = 0 /\ ReadOfNothing
      <4>1. acksLeft = 0 /\ UNCHANGED <<acksLeft, status, bus, faults>>
        BY <1>9, <2>1, <2>3, <3>5 DEF IsrReceive, Reading
      <4>2. ~ stop' /\ sr' \subseteq sr
        <5>1. stop' <=> stop \/ acksLeft' = 1
          BY <1>9, <2>3 DEF IsrReceive
        <5>2. sr' \subseteq sr
          BY <1>9 DEF IsrReceive, AfterRead
        <5> QED
          BY <3>5, <4>1, <5>1, <5>2 DEF ReadOfNothing
      <4> QED
        BY <2>1, <3>5, <4>1, <4>2 DEF Reading, ReadOfNothing
    <3>3. CASE ReadOverrun /\ Msg.len > 0
      <4>1. acksLeft = 0
        BY <1>9, <3>3, IsrRuns DEF IsrReceive, ReadOverrun, TypeOK
      <4>2. UNCHANGED <<faults, status, acksLeft, bus>> /\ "NACK" \notin sr'
        BY <1>9, <2>3, <3>1, <4>1 DEF IsrReceive, AfterRead
      <4> QED
        BY <2>1, <3>3, <4>1, <4>2 DEF Reading, ReadOverrun
    <3>4. CASE ReadRefused
      BY <3>1, <3>4 DEF ReadRefused
    <3> QED
      BY <2>1, <3>2, <3>3, <3>4, <3>5 DEF Reading
  <2> QED
    BY <2>2, <2>3
<1>10. CASE IsrComplete
  BY <1>10, MsgTyped
     DEF IsrComplete, Interrupt, Pending, AfterRead, Done, Reading, ReadUnharmed,
         ReadOverrun, ReadRefused, ReadOfNothing, Handled, Stages, InFlight, Wanted,
         Msg, TypeOK
<1>11. CASE IsrSend
  BY <1>11, MsgTyped
     DEF IsrSend, Interrupt, Pending, AfterRead, Continue, Reading, ReadUnharmed,
         ReadOverrun, ReadRefused, ReadOfNothing, Handled, Stages, InFlight, Wanted,
         Msg, TypeOK
<1>12. CASE HwAddress
  <2>1. Msg' = Msg /\ InFlight /\ Msg.len \in 0 .. MaxLen /\ MaxLen \in Nat
    BY <1>12, MsgTyped, TwiAssumption DEF HwAddress, Msg, Stages, InFlight
  <2>2. ASSUME Msg.rd PROVE Reading'
    <3>0. bus = "addr" /\ bus' \in {"data", "idle"} /\ acksLeft \in 0 .. Msg.len
          /\ UNCHANGED <<acksLeft, status, stop, rhr, count, buf, i>>
      BY <1>12, <2>1, <2>2 DEF HwAddress, BusIdle, Reading
    <3>1. \/ Msg.len > 0 /\ ReadUnharmed
          \/ Msg.len = 0 /\ ReadOfNothing
      BY <2>1, <2>2, <3>0 DEF Reading, ReadOverrun, ReadRefused, Stages
    <3>2. faults = {} /\ "OVRE" \notin sr /\ status = "ok"
      BY <3>0, <3>1 DEF ReadUnharmed, ReadOfNothing
    <3>3. CASE UNCHANGED <<sr, faults>> /\ bus' = "data"
      <4>1. CASE Msg.len > 0 /\ ReadUnharmed
        BY <2>1, <3>0, <3>3, <4>1 DEF Reading, ReadUnharmed, Handled
      <4>2. CASE Msg.len = 0 /\ ReadOfNothing
        BY <2>1, <3>0, <3>3, <4>2 DEF Reading, ReadOfNothing
      <4> QED
        BY <3>1, <4>1, <4>2
    <3>4. CASE BusIdle({"NACK"}) /\ faults' = faults \cup {"nack"}
      <4>1. ReadRefused'
        BY <3>0, <3>2, <3>4 DEF ReadRefused, BusIdle
      <4> QED
        BY <2>1, <3>0, <4>1 DEF Reading
    <3> QED
      BY <1>12, <2>2, <3>3, <3>4 DEF HwAddress
  <2> QED
    BY <2>1, <2>2 DEF Reading
<1>13. CASE HwReceive
  <2>1. Msg' = Msg /\ Msg.rd /\ InFlight /\ Msg.len \in 0 .. MaxLen /\ MaxLen \in Nat
    BY <1>13, MsgTyped, TwiAssumption DEF HwReceive, Msg, Stages, InFlight
  <2>0. /\ bus = "data" /\ bus' \in {"idle", "data", "stop"} /\ count \in Nat
        /\ acksLeft \in 0 .. Msg.len /\ acksLeft \in Nat /\ stop \in BOOLEAN
        /\ UNCHANGED <<acksLeft, status, stop, buf, i>> /\ Handled \in Nat /\ Handled' = Handled
        /\ count' = count + 1 /\ rhr' = Byte(i, count + 1)
        /\ "RXRDY" \in sr' /\ sr \subseteq sr'
        /\ sr' \subseteq sr \cup {"RXRDY", "OVRE", "TXCOMP"}
    BY <1>13, <2>1 DEF HwReceive, BusIdle, Reading, Handled, TypeOK
  <2>2. CASE ReadUnharmed /\ Msg.len > 0 /\ "RXRDY" \notin sr
    <3>1. count = Handled /\ count' = Handled + 1 /\ count < Msg.len
      BY <2>0, <2>2 DEF ReadUnharmed
    <3>2. faults' = {} /\ status' = "ok" /\ sr' \cap {"OVRE", "NACK"} = {}
      BY <1>13, <2>2 DEF HwReceive, BusIdle, ReadUnharmed
    <3>3. stop <=> acksLeft =< 1
      BY <2>2 DEF ReadUnharmed
    <3>4. stop => count' = Msg.len
      BY <2>0, <2>1, <3>1, <3>3 DEF Handled
    <3>5. ~ stop => count' < Msg.len
      BY <2>0, <2>1, <3>1, <3>3 DEF Handled
    <3>6. IF stop THEN bus' \in {"idle", "stop"} ELSE bus' = "data"
      BY <1>13 DEF HwReceive, BusIdle
    <3>7. \A k \in 1 .. Handled : buf[i][k] = Byte(i, k)
      BY <2>2 DEF ReadUnharmed
    <3>8. ReadUnharmed'
      <4> HIDE DEF Handled
      <4> QED
        BY <2>0, <2>1, <3>1, <3>2, <3>3, <3>4, <3>5, <3>6, <3>7 DEF ReadUnharmed
    <3> QED
      BY <2>0, <2>1, <2>2, <3>8 DEF Reading
  <2>3. CASE ReadUnharmed /\ Msg.len > 0 /\ "RXRDY" \in sr
    <3>1. acksLeft > 0
      BY <2>0, <2>1, <2>3 DEF ReadUnharmed, Handled
    <3>2. faults' = {"overrun"} /\ {"RXRDY", "OVRE"} \subseteq sr'
      BY <1>13, <2>3 DEF HwReceive, BusIdle, ReadUnharmed
    <3>3. ReadOverrun'
      BY <2>0, <2>3, <3>1, <3>2 DEF ReadOverrun, ReadUnharmed
    <3> QED
      BY <2>0, <2>1, <2>3, <3>3 DEF Reading
  <2>4. CASE ReadOverrun /\ Msg.len > 0
    <3>1. faults' = {"overrun"}
      BY <1>13, <2>4 DEF HwReceive, ReadOverrun
    <3>2. ReadOverrun'
      BY <2>0, <2>4, <3>1 DEF ReadOverrun
    <3> QED
      BY <2>0, <2>1, <2>4, <3>2 DEF Reading
  <2>5. CASE ReadRefused
    BY <1>13, <2>5 DEF HwReceive, ReadRefused, Stages
  <2>6. CASE ReadOfNothing /\ Msg.len = 0
    <3>1. bus' = "data" /\ ~ stop
      BY <1>13, <2>6 DEF HwReceive, ReadOfNothing
    <3> QED
      BY <2>0, <2>1, <2>6, <3>1 DEF Reading, ReadOfNothing
  <2> QED
    BY <2>1, <2>2, <2>3, <2>4, <2>5, <2>6 DEF Reading
<1>14. CASE HwTransmit
  BY <1>14, MsgTyped
     DEF HwTransmit, BusIdle, Reading, ReadUnharmed, ReadOverrun, ReadRefused,
         ReadOfNothing, Handled, Stages, InFlight, Wanted, Msg, TypeOK
<1>15. CASE HwStop
  <2>1. /\ InFlight /\ UNCHANGED <<msgs, i, pc, comp, acksLeft, status, stop, rhr, count, buf>>
        /\ bus = "stop" /\ bus' = "idle" /\ sr' = sr \cup {"TXCOMP"} /\ faults' = faults
    BY <1>15 DEF HwStop, BusIdle, Stages
  <2>2. Msg' = Msg /\ Handled' = Handled
    BY <2>1 DEF Msg, Handled
  <2>3. ReadUnharmed => ReadUnharmed'
    <3> HIDE DEF Handled
    <3> QED
      BY <2>1, <2>2 DEF ReadUnharmed
  <2> QED
    BY <2>1, <2>2, <2>3 DEF Reading, ReadOverrun, ReadRefused, ReadOfNothing, InFlight
<1> QED
  BY <1>0, <1>1, <1>2, <1>3, <1>4, <1>5, <1>6, <1>7, <1>8, <1>9, <1>10, <1>11, <1>12,
     <1>13, <1>14, <1>15
     DEF Next, Xfer, Isr, Hardware

\* A message's byte is not the mark of an empty register.
LEMMA BytesDiffer ==
    ASSUME TypeOK
    PROVE  \A k : Byte(i, k) # Nothing
BY TwiAssumption DEF TypeOK, Byte, Nothing

\* A write in flight: the bytes on the wire, in the shift register and in THR
\* are the ones handed over, in order.
LEMMA WritingStep ==
    ASSUME TypeOK, TypeOK', Stages, Stages', Writing, After, [Next]_vars
    PROVE  Writing'
<1> USE DEF vars, callVars, twiVars, regVars, busVars
<1>m. pc \in {"setup", "arm", "wait", "reset"} =>
         Msg.len \in 0 .. MaxLen /\ i \in 1 .. Len(msgs)
  BY MsgTyped
<1>n. /\ MaxLen \in Nat /\ MaxMsgs \in Nat /\ MaxAcks \in Nat /\ MaxLen =< MaxAcks
      /\ acksLeft \in Nat /\ acksLeft =< MaxAcks
  BY TwiAssumption DEF TypeOK
<1>0. CASE UNCHANGED vars
  BY <1>0
     DEF Writing, WriteAddressed, WriteSending, WriteEnded, WriteRefused,
         WriteOfNothing, OnTheWire, Handled, Stages, InFlight, Wanted, Msg
<1>1. CASE Call
  BY <1>1, MsgTyped
     DEF Call, ClearStatus, NoBytes, EmptyBuffers, Writing, WriteAddressed,
         WriteSending, WriteEnded, WriteRefused, WriteOfNothing, OnTheWire, Handled,
         Stages, InFlight, Wanted, Msg
<1>2. CASE StartRead
  BY <1>2, MsgTyped
     DEF StartRead, Writing, WriteAddressed, WriteSending, WriteEnded, WriteRefused,
         WriteOfNothing, OnTheWire, Handled, Stages, InFlight, Wanted, Msg
<1>3. CASE StartWrite
  <2>1. Msg' = Msg /\ i' = i /\ Msg.len \in Nat /\ Msg.len =< MaxLen /\ ~ Msg.rd
    BY <1>3, <1>m, <1>n DEF StartWrite, Msg
  <2>2. acksLeft' = Less(Msg.len) /\ thr' = Given(1) /\ "TXRDY" \notin sr' /\ "NACK" \notin sr'
        /\ bus' = "addr" /\ faults' = {} /\ status' = "ok"
    BY <1>3 DEF StartWrite, Stages
  <2>3. CASE Msg.len = 0
    BY <1>n, <2>1, <2>2, <2>3 DEF Writing, WriteOfNothing, Less
  <2>4. CASE Msg.len > 0
    <3>1. Handled' = 1 /\ acksLeft' \in 0 .. MaxAcks /\ acksLeft' < Msg.len
      BY <1>n, <2>1, <2>2, <2>4 DEF Handled, Less
    <3>2. wire'[i] = <<>>
      BY <1>3 DEF StartWrite, After
    <3>3. OnTheWire(0)'
      BY <2>1, <3>2 DEF OnTheWire, Sent
    <3>4. thr' = Byte(i, 1)
      BY <2>1, <2>2, <2>4 DEF Given
    <3>5. WriteAddressed'
      BY <2>1, <2>2, <3>1, <3>3, <3>4 DEF WriteAddressed
    <3> QED
      BY <2>1, <2>2, <2>4, <3>1, <3>5 DEF Writing
  <2> QED
    BY <2>1, <2>3, <2>4
<1>4. CASE Arm
  BY <1>4, MsgTyped
     DEF Arm, Writing, WriteAddressed, WriteSending, WriteEnded, WriteRefused,
         WriteOfNothing, OnTheWire, Handled, Stages, InFlight, Wanted, Msg
<1>5. CASE Completed
  BY <1>5, MsgTyped
     DEF Completed, Writing, WriteAddressed, WriteSending, WriteEnded, WriteRefused,
         WriteOfNothing, OnTheWire, Handled, Stages, InFlight, Wanted, Msg
<1>6. CASE Timeout
  BY <1>6, MsgTyped
     DEF Timeout, Writing, WriteAddressed, WriteSending, WriteEnded, WriteRefused,
         WriteOfNothing, OnTheWire, Handled, Stages, InFlight, Wanted, Msg
<1>7. CASE Reset
  BY <1>7, MsgTyped
     DEF Reset, MaskAll, Writing, WriteAddressed, WriteSending, WriteEnded,
         WriteRefused, WriteOfNothing, OnTheWire, Handled, Stages, InFlight, Wanted,
         Msg
<1>8. CASE IsrOverrun
  BY <1>8, MsgTyped
     DEF IsrOverrun, Interrupt, Pending, AfterRead, Continue, Writing, WriteAddressed,
         WriteSending, WriteEnded, WriteRefused, WriteOfNothing, OnTheWire, Handled,
         Stages, InFlight, Wanted, Msg
<1>9. CASE IsrReceive
  BY <1>9, IsrRuns DEF IsrReceive, Writing, Msg
<1>10. CASE IsrComplete
  BY <1>10, MsgTyped
     DEF IsrComplete, Interrupt, Pending, AfterRead, Done, Writing, WriteAddressed,
         WriteSending, WriteEnded, WriteRefused, WriteOfNothing, OnTheWire, Handled,
         Stages, InFlight, Wanted, Msg
<1>11. CASE IsrSend
  <2>1. /\ ~ Msg.rd /\ InFlight /\ Msg' = Msg /\ i' = i /\ Msg.len \in Nat
        /\ "TXRDY" \in sr /\ "NACK" \notin sr /\ bus # "idle"
    BY <1>11, <1>m, <1>n, IsrRuns DEF IsrSend, Msg, Stages
  <2>2. UNCHANGED <<wire, shift, bus, faults, status>> /\ sr' \subseteq sr
    BY <1>11 DEF IsrSend, AfterRead
  <2>a. status = "ok" /\ acksLeft' \in 0 .. MaxAcks
    <3>1. acksLeft' = acksLeft \/ (acksLeft > 0 /\ acksLeft' = acksLeft - 1)
      BY <1>11, <1>n DEF IsrSend
    <3> QED
      BY <1>n, <2>1, <3>1 DEF Writing
  <2>b. CASE Msg.len = 0
    <3>1. faults = {} /\ bus # "stop"
      BY <2>1, <2>b DEF Writing, WriteOfNothing, WriteRefused
    <3> QED
      BY <2>1, <2>2, <2>a, <2>b, <3>1 DEF Writing, WriteOfNothing
  <2>c. CASE Msg.len > 0
    <3>0. WriteSending /\ faults = {} /\ thr = Nothing /\ acksLeft < Msg.len
      BY <2>1, <2>c, BytesDiffer
         DEF Writing, WriteAddressed, WriteSending, WriteEnded, WriteRefused
    <3>4. CASE acksLeft > 0
      <4>1. acksLeft' = acksLeft - 1 /\ Handled' = Handled + 1 /\ Handled \in Nat \ {0}
        BY <1>11, <1>n, <2>1, <3>0, <3>4 DEF IsrSend, Handled
      <4>2. Position = Handled + 1 /\ Position \in 1 .. Msg.len
        BY <1>n, <2>1, <3>0, <3>4 DEF Position, Handled
      <4>3. thr' = Byte(i, Handled') /\ "TXRDY" \notin sr'
        BY <1>11, <3>4, <4>1, <4>2 DEF IsrSend, Given
      <4>4. Sent(wire[i], i, Handled - 1) /\ shift = Byte(i, Handled)
        BY <2>1, <3>0, <4>1, BytesDiffer DEF WriteSending, OnTheWire
      <4>5. Sent(wire'[i], i, Handled' - 2) /\ shift' = Byte(i, Handled' - 1) /\ Handled' > 1
        <5> HIDE DEF Handled
        <5> QED
          BY <2>1, <2>2, <4>1, <4>4
      <4>6. WriteSending'
        BY <2>1, <2>2, <3>0, <4>3, <4>5 DEF WriteSending, OnTheWire
      <4>7. acksLeft' < Msg.len
        BY <1>n, <2>1, <3>0, <4>1
      <4> QED
        BY <2>1, <2>2, <2>a, <2>c, <3>0, <4>6, <4>7 DEF Writing
    <3>5. CASE acksLeft = 0
      <4>1. UNCHANGED <<acksLeft, thr>> /\ Handled' = Handled
        BY <1>11, <2>1, <3>5 DEF IsrSend, Handled
      <4>2. WriteSending'
        BY <2>1, <2>2, <3>0, <4>1 DEF WriteSending, OnTheWire
      <4> QED
        BY <2>1, <2>2, <2>a, <2>c, <3>0, <4>1, <4>2 DEF Writing
    <3> QED
      BY <1>n, <3>4, <3>5
  <2> QED
    BY <2>1, <2>b, <2>c
<1>12. CASE HwAddress
  <2>1. InFlight /\ Msg' = Msg /\ i' = i /\ bus = "addr" /\ Handled' = Handled
    BY <1>12 DEF HwAddress, Stages, Msg, Handled
  <2>2. ASSUME ~ Msg.rd PROVE Writing'
    <3>0. /\ UNCHANGED <<acksLeft, status, wire>> /\ acksLeft \in 0 .. MaxAcks
          /\ status = "ok" /\ "NACK" \notin sr /\ Msg.len \in Nat
      BY <1>12, <1>m, <1>n, <2>1, <2>2 DEF HwAddress, Writing, Stages, InFlight
    <3>1. faults = {}
      BY <2>1, <2>2, <3>0
         DEF Writing, WriteSending, WriteEnded, WriteRefused, WriteOfNothing
    <3>2. CASE bus' = "data"
      <4>0. thr' = Nothing /\ shift' = thr /\ sr' = sr \cup {"TXRDY"} /\ faults' = {}
        BY <1>12, <2>2, <3>1, <3>2 DEF HwAddress, BusIdle
      <4>1. CASE Msg.len = 0
        BY <2>1, <2>2, <3>0, <3>2, <4>0, <4>1 DEF Writing, WriteOfNothing
      <4>2. CASE Msg.len > 0
        <5>1. WriteAddressed /\ acksLeft < Msg.len
          BY <2>1, <2>2, <3>0, <4>2 DEF Writing, WriteSending, WriteEnded, WriteRefused
        <5>2. OnTheWire(0)' /\ Handled = 1 /\ shift' = Byte(i, 1)
          BY <2>1, <3>0, <4>0, <5>1 DEF WriteAddressed, OnTheWire
        <5>3. WriteSending'
          BY <2>1, <3>2, <4>0, <5>2 DEF WriteSending
        <5> QED
          BY <2>1, <2>2, <3>0, <4>0, <4>2, <5>1, <5>3 DEF Writing
      <4> QED
        BY <3>0, <4>1, <4>2
    <3>3. CASE bus' # "data"
      <4>1. WriteRefused'
        BY <1>12, <3>1, <3>3 DEF HwAddress, BusIdle, WriteRefused
      <4> QED
        BY <2>1, <2>2, <3>0, <4>1 DEF Writing
    <3> QED
      BY <3>2, <3>3
  <2> QED
    BY <2>1, <2>2 DEF Writing
<1>13. CASE HwReceive
  BY <1>13, MsgTyped
     DEF HwReceive, Writing, WriteAddressed, WriteSending, WriteEnded, WriteRefused,
         WriteOfNothing, OnTheWire, Handled, Stages, InFlight, Wanted, Msg
<1>14. CASE HwTransmit
  <2>1. /\ InFlight /\ ~ Msg.rd /\ Msg' = Msg /\ i' = i
        /\ bus = "data" /\ Handled' = Handled /\ i \in 1 .. MaxMsgs /\ Msg.len \in Nat
    BY <1>14, <1>m, <1>n DEF HwTransmit, Stages, Msg, Handled, InFlight, TypeOK
  <2>0. /\ UNCHANGED <<acksLeft, status>> /\ acksLeft \in 0 .. MaxAcks /\ status = "ok"
        /\ faults = {} /\ "NACK" \notin sr
    BY <1>14, <2>1
       DEF HwTransmit, Writing, WriteAddressed, WriteEnded, WriteRefused, WriteOfNothing
  <2>3. CASE "NACK" \in sr'
    <3>1. WriteRefused'
      BY <1>14, <2>0, <2>3 DEF HwTransmit, BusIdle, WriteRefused
    <3> QED
      BY <2>0, <2>1, <3>1 DEF Writing
  <2>5. CASE "NACK" \notin sr' /\ Msg.len = 0
    <3>1. /\ bus' # "stop"
          /\ faults' = IF bus' = "idle" /\ acksLeft > 0 THEN {"underrun"} ELSE {}
      BY <1>14, <2>0, <2>1, <2>5 DEF HwTransmit, BusIdle
    <3> QED
      BY <2>0, <2>1, <2>5, <3>1 DEF Writing, WriteOfNothing
  <2>4. CASE "NACK" \notin sr' /\ Msg.len > 0
    <3>0. WriteSending /\ acksLeft < Msg.len
      BY <2>0, <2>1, <2>4 DEF Writing, WriteAddressed, WriteEnded, WriteRefused
    <3>1. /\ wire' = [wire EXCEPT ![i] = Append(wire[i], shift)]
          /\ shift' = thr /\ thr' = Nothing
      BY <1>14, <2>4 DEF HwTransmit, BusIdle
    <3>2. wire[i] \in Seq(Bytes) /\ wire'[i] = Append(wire[i], shift) /\ Handled \in Int
      <4>1. Handled \in Int
        BY <1>n, <2>1 DEF Handled
      <4>2. wire \in [1 .. MaxMsgs -> Seq(Bytes)]
        BY DEF TypeOK, Bytes
      <4> QED
        BY <2>1, <3>1, <4>1, <4>2
    <3>3. ASSUME NEW n \in Int, Sent(wire[i], i, n), shift = Byte(i, n + 1)
          PROVE  Sent(wire'[i], i, n + 1)
      <4>1. n \in Nat /\ Len(wire'[i]) = n + 1 /\ wire'[i][n + 1] = Byte(i, n + 1)
        BY <3>2, <3>3 DEF Sent
      <4>2. \A k \in 1 .. n : wire'[i][k] = wire[i][k]
        BY <3>2, <3>3 DEF Sent
      <4>3. \A k \in 1 .. n + 1 : k \in 1 .. n \/ k = n + 1
        BY <4>1
      <4>4. \A k \in 1 .. n : wire[i][k] = Byte(i, k)
        BY <3>3 DEF Sent
      <4>5. \A k \in 1 .. n + 1 : wire'[i][k] = Byte(i, k)
        BY <4>1, <4>2, <4>3, <4>4
      <4> QED
        BY <4>1, <4>5 DEF Sent
    <3>4. CASE thr = Nothing
      <4>1. OnTheWire(Handled - 1) /\ shift = Byte(i, Handled)
        BY <3>4, <3>0, BytesDiffer DEF WriteSending
      <4>2. OnTheWire(Handled)'
        <5> HIDE DEF Handled
        <5>1. Handled - 1 \in Int /\ (Handled - 1) + 1 = Handled
          BY <3>2
        <5>2. Sent(wire'[i], i, (Handled - 1) + 1)
          BY <3>3, <4>1, <5>1 DEF OnTheWire
        <5> QED
          BY <5>1, <5>2, <2>1 DEF OnTheWire
      <4>3. bus' = "idle" /\ faults' = IF acksLeft > 0 THEN {"underrun"} ELSE {}
        BY <1>14, <2>0, <2>4, <3>4 DEF HwTransmit, BusIdle
      <4>4. WriteEnded'
        BY <1>14, <2>1, <4>2, <4>3 DEF HwTransmit, WriteEnded
      <4> QED
        BY <2>0, <2>1, <2>4, <3>0, <4>4 DEF Writing
    <3>5. CASE thr # Nothing
      <4>1. OnTheWire(Handled - 2) /\ shift = Byte(i, Handled - 1) /\ thr = Byte(i, Handled)
        BY <3>5, <3>0 DEF WriteSending
      <4>2. OnTheWire(Handled - 1)'
        <5> HIDE DEF Handled
        <5>1. Handled - 2 \in Int /\ (Handled - 2) + 1 = Handled - 1
          BY <3>2
        <5>2. Sent(wire'[i], i, (Handled - 2) + 1)
          BY <3>3, <4>1, <5>1 DEF OnTheWire
        <5> QED
          BY <5>1, <5>2, <2>1 DEF OnTheWire
      <4>3. bus' = "data" /\ faults' = {}
        BY <1>14, <2>0, <2>4, <3>5 DEF HwTransmit, BusIdle
      <4>4. WriteSending'
        BY <2>1, <3>1, <4>1, <4>2, <4>3 DEF WriteSending
      <4> QED
        BY <2>0, <2>1, <2>4, <3>0, <4>3, <4>4 DEF Writing
    <3> QED
      BY <3>4, <3>5
  <2> QED
    BY <2>1, <2>3, <2>4, <2>5
<1>15. CASE HwStop
  <2>1. /\ UNCHANGED <<Msg, pc, comp, i, acksLeft, wire, thr, shift, faults, status>>
        /\ bus = "stop" /\ sr' = sr \cup {"TXCOMP"} /\ bus' = "idle"
    BY <1>15 DEF HwStop, BusIdle, Msg
  <2>2. InFlight /\ Msg.rd \in BOOLEAN
    BY <2>1, Inside, MsgTyped DEF InFlight
  <2> QED
    BY <2>1, <2>2
       DEF Writing, WriteAddressed, WriteSending, WriteEnded, WriteRefused,
           WriteOfNothing
<1> QED
  BY <1>0, <1>1, <1>2, <1>3, <1>4, <1>5, <1>6, <1>7, <1>8, <1>9, <1>10, <1>11, <1>12,
     <1>13, <1>14, <1>15
     DEF Next, Xfer, Isr, Hardware

\* The controller moves only while a message is in flight, and changes nothing
\* of the call.
LEMMA HardwareRuns ==
    ASSUME Stages, Hardware
    PROVE  InFlight /\ bus # "idle" /\ UNCHANGED <<pc, msgs, i, comp, status, ret>>
BY DEF Stages, Hardware, HwAddress, HwReceive, HwStop, HwTransmit, callVars, twiVars

\* The last interrupt of a read takes the last byte, and its verdict is right.
LEMMA ReadVerdict ==
    ASSUME TypeOK, Stages, Reading, IsrReceive, "TXCOMP" \in Pending
    PROVE  Honest(status') /\ (status' = "ok" => Moved(i)')
<1>1. /\ Msg.rd /\ InFlight /\ Msg.len \in 0 .. MaxLen /\ MaxLen \in Nat /\ acksLeft \in Nat
      /\ i \in 1 .. MaxMsgs /\ bus = "idle"
  BY IsrRuns, MsgTyped, TwiAssumption DEF IsrReceive, TypeOK, Stages, Pending
<1>2. "TXRDY" \notin mask
  BY <1>1, IsrRuns DEF IsrReceive
<1>3. status' = IF "NACK" \in sr THEN "EPIPE" ELSE status
  BY <1>2, IsrRuns DEF IsrReceive, Done
<1>4. CASE ReadUnharmed /\ Msg.len > 0
  <2>1. "RXRDY" \in sr /\ "NACK" \notin sr /\ count = Msg.len /\ rhr = Byte(i, count)
    BY <1>1, <1>4 DEF IsrReceive, ReadUnharmed, Pending
  <2>2. count = Handled + 1 /\ Handled \in Nat
    <3>1. count = Handled + 1
      BY <1>4, <2>1 DEF ReadUnharmed
    <3>2. Handled \in Int
      BY <1>1 DEF Handled
    <3>3. count \in Nat \ {0}
      BY <1>1, <1>4, <2>1
    <3> QED
      BY <3>1, <3>2, <3>3
  <2>3. buf' = [buf EXCEPT ![i][count] = rhr]
    <3>1. acksLeft > 0 /\ Position = count
      BY <1>1, <2>1, <2>2 DEF Handled, Position
    <3> QED
      BY <3>1 DEF IsrReceive
  <2>4. DOMAIN buf[i] = 1 .. MaxLen /\ i \in DOMAIN buf
    BY DEF TypeOK
  <2>5. buf'[i] = [buf[i] EXCEPT ![count] = rhr]
    BY <2>3, <2>4
  <2>6. \A k \in 1 .. Handled : buf[i][k] = Byte(i, k)
    BY <1>4 DEF ReadUnharmed
  <2>7. \A k \in 1 .. Msg.len : buf'[i][k] = Byte(i, k)
    <3> HIDE DEF Handled
    <3>1. \A k \in 1 .. Msg.len : k \in 1 .. Handled \/ k = count
      BY <1>1, <2>1, <2>2
    <3>2. buf'[i][count] = Byte(i, count)
      <4>1. count \in 1 .. MaxLen
        BY <1>1, <1>4, <2>1
      <4> QED
        BY <2>1, <2>4, <2>5, <4>1
    <3>3. \A k \in 1 .. Handled : k # count /\ k \in DOMAIN buf[i]
      BY <1>1, <2>1, <2>2, <2>4
    <3> QED
      BY <2>5, <2>6, <3>1, <3>2, <3>3
  <2>8. UNCHANGED <<msgs, i>>
    BY DEF IsrReceive, callVars
  <2> QED
    BY <1>1, <1>3, <1>4, <2>1, <2>7, <2>8 DEF Moved, Msg, Honest, ReadUnharmed
<1>5. CASE ReadOverrun
  <2>1. status = "EOVERFLOW"
    BY <1>5, <1>1, IsrRuns DEF IsrReceive, ReadOverrun
  <2> QED
    BY <1>3, <1>5, <2>1 DEF ReadOverrun, Honest
<1>6. CASE ReadRefused
  BY <1>3, <1>6 DEF ReadRefused, Honest
<1> QED
  BY <1>1, <1>4, <1>5, <1>6 DEF Reading, ReadOfNothing

\* So is the verdict of the interrupt that only finds TXCOMP: acks_left is 0
\* unless the controller ran out of bytes.
LEMMA CompleteVerdict ==
    ASSUME TypeOK, Stages, Reading, Writing, IsrComplete
    PROVE  Honest(status') /\ (status' = "ok" => Moved(i)')
<1>1. /\ InFlight /\ Msg.len \in 0 .. MaxLen /\ MaxLen \in Nat /\ acksLeft \in Nat
      /\ i \in 1 .. MaxMsgs /\ bus = "idle" /\ UNCHANGED <<msgs, i, wire>>
  BY IsrRuns, MsgTyped, TwiAssumption
     DEF IsrComplete, TypeOK, Stages, Pending, callVars, busVars
<1>2. status' = IF "NACK" \in sr THEN "EPIPE"
                ELSE IF acksLeft > 0 /\ ~ Msg.rd THEN "ENOSR" ELSE status
  BY IsrRuns DEF IsrComplete, Done
<1>3. CASE Msg.rd
  <2>1. "RXRDY" \notin sr
    BY <1>3, IsrRuns DEF IsrComplete
  <2>2. CASE ReadUnharmed /\ Msg.len > 0
    <3>1. Handled = Msg.len
      <4>1. Handled \in Int
        BY <1>1 DEF Handled
      <4> QED
        BY <1>1, <2>1, <2>2, <4>1 DEF ReadUnharmed
    <3>2. \A k \in 1 .. Msg.len : buf[i][k] = Byte(i, k)
      BY <2>2, <3>1 DEF ReadUnharmed
    <3>3. UNCHANGED buf /\ status' = "ok"
      BY <1>2, <1>3, <2>2 DEF IsrComplete, ReadUnharmed
    <3> QED
      BY <1>1, <1>3, <2>2, <3>2, <3>3 DEF Moved, Msg, Honest, ReadUnharmed
  <2>3. CASE ReadOverrun
    BY <1>1, <1>2, <1>3, <2>1, <2>3 DEF ReadOverrun, Honest
  <2>4. CASE ReadRefused
    BY <1>2, <2>4 DEF ReadRefused, Honest
  <2> QED
    BY <1>1, <1>3, <2>2, <2>3, <2>4 DEF Reading, ReadOfNothing
<1>4. CASE ~ Msg.rd
  <2>1. CASE WriteEnded /\ "NACK" \notin sr /\ acksLeft = 0
    <3>1. Sent(wire[i], i, Msg.len)
      BY <1>1, <2>1 DEF WriteEnded, OnTheWire, Handled
    <3> QED
      BY <1>1, <1>2, <1>4, <2>1, <3>1 DEF WriteEnded, Honest, Moved, Msg, Writing
  <2>2. CASE WriteEnded /\ "NACK" \notin sr /\ acksLeft > 0
    BY <1>2, <1>4, <2>2 DEF WriteEnded, Honest
  <2>3. CASE WriteRefused
    BY <1>2, <2>3 DEF WriteRefused, Honest
  <2>4. CASE Msg.len = 0 /\ WriteOfNothing /\ "NACK" \notin sr
    BY <1>1, <1>2, <1>4, <2>4 DEF WriteOfNothing, Honest, Moved, Msg, Writing
  <2> QED
    BY <1>1, <1>4, <2>1, <2>2, <2>3, <2>4 DEF Writing, WriteAddressed, WriteSending
<1> QED
  BY <1>1, <1>3, <1>4, MsgTyped DEF InFlight

\* Neither the handler nor the controller touches another message's bytes.
LEMMA OtherMessages ==
    ASSUME TypeOK, Stages, IsrReceive \/ HwTransmit
    PROVE  \A m \in 1 .. Len(msgs) : m # i =>
             wire'[m] = wire[m] /\ buf'[m] = buf[m] /\ Moved(m)' = Moved(m)
<1>1. UNCHANGED <<msgs, i>> /\ 1 .. Len(msgs) \subseteq 1 .. MaxMsgs
  BY MsgsTyped, TwiAssumption DEF IsrReceive, HwTransmit, callVars
<1>2. \A m \in 1 .. Len(msgs) : m # i => wire'[m] = wire[m] /\ buf'[m] = buf[m]
  BY <1>1 DEF IsrReceive, HwTransmit, busVars, TypeOK
<1> QED
  BY <1>1, <1>2 DEF Moved

\* comp is completed only together with a verdict that holds.
LEMMA JudgedStep ==
    ASSUME TypeOK, TypeOK', Stages, Reading, Writing, Judged, [Next]_vars
    PROVE  Judged'
<1> USE DEF vars, callVars, twiVars, regVars, busVars
<1>0. CASE UNCHANGED vars
  BY <1>0 DEF Judged, Honest, Moved
<1>1. CASE Call
  BY <1>1 DEF Call, ClearStatus, NoBytes, EmptyBuffers, Judged, Honest, Moved
<1>2. CASE StartRead
  BY <1>2 DEF StartRead, Judged, Honest, Moved
<1>3. CASE StartWrite
  BY <1>3 DEF StartWrite, Judged, Honest, Moved
<1>4. CASE Arm
  BY <1>4 DEF Arm, Judged, Honest, Moved
<1>5. CASE Completed
  BY <1>5 DEF Completed, Judged, Honest, Moved
<1>6. CASE Timeout
  BY <1>6 DEF Timeout, Judged, Honest, Moved
<1>7. CASE Reset
  BY <1>7 DEF Reset, MaskAll, Judged, Honest, Moved
<1>8. CASE IsrOverrun
  <2>1. Msg.rd /\ InFlight
    BY <1>8, IsrRuns DEF IsrOverrun
  <2>2. ReadOverrun
    BY <1>8, <2>1 DEF IsrOverrun, Reading, ReadUnharmed, ReadRefused, Pending
  <2> QED
    BY <1>8, <2>2, IsrRuns DEF IsrOverrun, Judged, Continue, Honest, ReadOverrun
<1>9. CASE IsrReceive
  BY <1>9, ReadVerdict, IsrRuns DEF IsrReceive, Judged, Continue, Honest
<1>10. CASE IsrComplete
  BY <1>10, CompleteVerdict DEF IsrComplete, Judged, Honest
<1>11. CASE IsrSend
  BY <1>11, IsrRuns DEF IsrSend, Judged, Continue
<1>12. CASE HwAddress
  BY <1>12, HardwareRuns DEF Hardware, Judged, InFlight
<1>13. CASE HwReceive
  BY <1>13, HardwareRuns DEF Hardware, Judged, InFlight
<1>14. CASE HwTransmit
  BY <1>14, HardwareRuns DEF Hardware, Judged, InFlight
<1>15. CASE HwStop
  BY <1>15, HardwareRuns DEF Hardware, Judged, InFlight
<1> QED
  BY <1>0, <1>1, <1>2, <1>3, <1>4, <1>5, <1>6, <1>7, <1>8, <1>9, <1>10, <1>11, <1>12,
     <1>13, <1>14, <1>15
     DEF Next, Xfer, Isr, Hardware

\* twi_xfer goes on to the next message only after a message that succeeded.
LEMMA BeforeStep ==
    ASSUME TypeOK, TypeOK', Stages, Before, Judged, [Next]_vars
    PROVE  Before'
<1> USE DEF vars, callVars, twiVars, regVars, busVars
<1>0. CASE UNCHANGED vars
  BY <1>0 DEF Before, Moved, Succeeded
<1>1. CASE Call
  BY <1>1, MsgTyped DEF Call, ClearStatus, NoBytes, EmptyBuffers, Before, Moved, Succeeded
<1>2. CASE StartRead
  BY <1>2, MsgTyped DEF StartRead, Before, Moved, Succeeded
<1>3. CASE StartWrite
  BY <1>3, MsgTyped DEF StartWrite, Before, Moved, Succeeded
<1>4. CASE Arm
  BY <1>4, MsgTyped DEF Arm, Before, Moved, Succeeded
<1>5. CASE Completed
  <2>1. status = "ok" => \A m \in 1 .. i : Moved(m)
    BY <1>5, MsgTyped, MsgsTyped, TwiAssumption DEF Completed, Before, Judged
  <2>2. \A m : Moved(m)' = Moved(m)
    BY <1>5 DEF Completed, Moved
  <2>3. i \in Nat
    BY TwiAssumption DEF TypeOK
  <2> QED
    BY <1>5, <2>1, <2>2, <2>3 DEF Completed, Before, Succeeded
<1>6. CASE Timeout
  BY <1>6, MsgTyped DEF Timeout, Before, Moved, Succeeded
<1>7. CASE Reset
  BY <1>7, MsgTyped DEF Reset, MaskAll, Before, Moved, Succeeded
<1>8. CASE IsrOverrun
  BY <1>8, MsgTyped
     DEF IsrOverrun, Interrupt, Pending, AfterRead, Continue, Before, Moved, Succeeded
<1>9. CASE IsrReceive
  <2>1. /\ UNCHANGED <<pc, msgs, i, ret>> /\ pc \in {"wait", "reset"}
        /\ i \in 1 .. Len(msgs) /\ Len(msgs) \in Nat
    BY <1>9, IsrRuns, MsgTyped, MsgsTyped, TwiAssumption DEF IsrReceive
  <2> QED
    BY <1>9, <2>1, OtherMessages DEF Before, Succeeded
<1>10. CASE IsrComplete
  BY <1>10, MsgTyped
     DEF IsrComplete, Interrupt, Pending, AfterRead, Done, Before, Moved, Succeeded
<1>11. CASE IsrSend
  BY <1>11, MsgTyped
     DEF IsrSend, Interrupt, Pending, AfterRead, Continue, Before, Moved, Succeeded
<1>12. CASE HwAddress
  BY <1>12, MsgTyped DEF HwAddress, BusIdle, Before, Moved, Succeeded
<1>13. CASE HwReceive
  BY <1>13, MsgTyped DEF HwReceive, Before, Moved, Succeeded
<1>14. CASE HwTransmit
  <2>1. UNCHANGED <<pc, msgs, i, ret>> /\ pc \in {"arm", "wait", "reset"}
    BY <1>14, HardwareRuns DEF Hardware, InFlight
  <2>2. i \in 1 .. Len(msgs) /\ Len(msgs) \in Nat
    BY <2>1, MsgTyped, MsgsTyped, TwiAssumption
  <2> QED
    BY <1>14, <2>1, <2>2, OtherMessages DEF Before, Succeeded
<1>15. CASE HwStop
  BY <1>15, HardwareRuns DEF Hardware, HwStop, Before, Succeeded, Moved, InFlight
<1> QED
  BY <1>0, <1>1, <1>2, <1>3, <1>4, <1>5, <1>6, <1>7, <1>8, <1>9, <1>10, <1>11, <1>12,
     <1>13, <1>14, <1>15
     DEF Next, Xfer, Isr, Hardware

\* Nothing is sent ahead.
LEMMA AfterStep ==
    ASSUME TypeOK, TypeOK', Stages, After, [Next]_vars
    PROVE  After'
<1> USE DEF vars, callVars, twiVars, regVars, busVars
<1>0. CASE UNCHANGED vars
  BY <1>0 DEF After, InFlight, Stages
<1>1. CASE Call
  <2>1. i' = 1 /\ pc' = "setup" /\ \A m \in 1 .. MaxMsgs : wire'[m] = <<>>
    BY <1>1 DEF Call, NoBytes
  <2>2. Len(msgs') \in 0 .. MaxMsgs
    <3>1. PICK n \in 1 .. MaxMsgs : msgs' \in [1 .. n -> Message]
      BY <1>1 DEF Call
    <3>2. n \in Nat /\ n =< MaxMsgs
      BY TwiAssumption
    <3>3. Len(msgs') = n
      BY <3>1, <3>2
    <3> QED
      BY <3>2, <3>3, TwiAssumption
  <2> QED
    BY <2>1, <2>2, TwiAssumption DEF After
<1>2. CASE StartRead
  BY <1>2, MsgTyped DEF StartRead, After, InFlight, Stages
<1>3. CASE StartWrite
  BY <1>3, MsgTyped DEF StartWrite, After, InFlight, Stages
<1>4. CASE Arm
  BY <1>4, MsgTyped DEF Arm, After, InFlight, Stages
<1>5. CASE Completed
  BY <1>5, MsgsTyped, TwiAssumption, MsgTyped DEF Completed, After, InFlight, Stages
<1>6. CASE Timeout
  BY <1>6, MsgTyped DEF Timeout, After, InFlight, Stages
<1>7. CASE Reset
  BY <1>7, MsgTyped DEF Reset, MaskAll, After, InFlight, Stages
<1>8. CASE IsrOverrun
  BY <1>8, MsgTyped
     DEF IsrOverrun, Interrupt, Pending, AfterRead, Continue, After, InFlight, Stages
<1>9. CASE IsrReceive
  BY <1>9, MsgTyped
     DEF IsrReceive, Interrupt, Pending, AfterRead, Continue, Done, After, InFlight,
         Stages
<1>10. CASE IsrComplete
  BY <1>10, MsgTyped
     DEF IsrComplete, Interrupt, Pending, AfterRead, Done, After, InFlight, Stages
<1>11. CASE IsrSend
  BY <1>11, MsgTyped
     DEF IsrSend, Interrupt, Pending, AfterRead, Continue, After, InFlight, Stages
<1>12. CASE HwAddress
  BY <1>12, MsgTyped DEF HwAddress, BusIdle, After, InFlight, Stages
<1>13. CASE HwReceive
  BY <1>13, MsgTyped DEF HwReceive, After, InFlight, Stages
<1>14. CASE HwTransmit
  <2>1. UNCHANGED <<pc, msgs, i, ret>> /\ pc \in {"arm", "wait", "reset"}
    BY <1>14, HardwareRuns DEF Hardware, InFlight
  <2>2. i \in 1 .. Len(msgs) /\ Len(msgs) \in Nat
    BY <2>1, MsgTyped, MsgsTyped, TwiAssumption
  <2> QED
    BY <1>14, <2>1, <2>2, OtherMessages DEF After
<1>15. CASE HwStop
  BY <1>15, MsgTyped DEF HwStop, After, InFlight, Stages
<1> QED
  BY <1>0, <1>1, <1>2, <1>3, <1>4, <1>5, <1>6, <1>7, <1>8, <1>9, <1>10, <1>11, <1>12,
     <1>13, <1>14, <1>15
     DEF Next, Xfer, Isr, Hardware

\* twi_xfer returns the handler's verdict, or -ETIMEDOUT.
LEMMA ReturnedStep ==
    ASSUME TypeOK, TypeOK', Stages, Judged, Returned, [Next]_vars
    PROVE  Returned'
<1> USE DEF vars, callVars, twiVars, regVars, busVars
<1>0. CASE UNCHANGED vars
  BY <1>0 DEF Returned, Honest, Judged
<1>1. CASE Call
  BY <1>1, MsgTyped DEF Call, ClearStatus, NoBytes, EmptyBuffers, Returned, Honest, Judged
<1>2. CASE StartRead
  BY <1>2, MsgTyped DEF StartRead, Returned, Honest, Judged
<1>3. CASE StartWrite
  BY <1>3, MsgTyped DEF StartWrite, Returned, Honest, Judged
<1>4. CASE Arm
  BY <1>4, MsgTyped DEF Arm, Returned, Honest, Judged
<1>5. CASE Completed
  BY <1>5, MsgTyped DEF Completed, Returned, Honest, Judged
<1>6. CASE Timeout
  BY <1>6, MsgTyped DEF Timeout, Returned, Honest, Judged
<1>7. CASE Reset
  BY <1>7, MsgTyped DEF Reset, MaskAll, Returned, Honest, Judged
<1>8. CASE IsrOverrun
  BY <1>8, MsgTyped
     DEF IsrOverrun, Interrupt, Pending, AfterRead, Continue, Returned, Honest, Judged
<1>9. CASE IsrReceive
  BY <1>9, MsgTyped
     DEF IsrReceive, Interrupt, Pending, AfterRead, Continue, Done, Returned, Honest,
         Judged
<1>10. CASE IsrComplete
  BY <1>10, MsgTyped
     DEF IsrComplete, Interrupt, Pending, AfterRead, Done, Returned, Honest, Judged
<1>11. CASE IsrSend
  BY <1>11, MsgTyped
     DEF IsrSend, Interrupt, Pending, AfterRead, Continue, Returned, Honest, Judged
<1>12. CASE HwAddress
  BY <1>12, HardwareRuns DEF Hardware, Returned, InFlight
<1>13. CASE HwReceive
  BY <1>13, HardwareRuns DEF Hardware, Returned, InFlight
<1>14. CASE HwTransmit
  BY <1>14, HardwareRuns DEF Hardware, Returned, InFlight
<1>15. CASE HwStop
  BY <1>15, HardwareRuns DEF Hardware, Returned, InFlight
<1> QED
  BY <1>0, <1>1, <1>2, <1>3, <1>4, <1>5, <1>6, <1>7, <1>8, <1>9, <1>10, <1>11, <1>12,
     <1>13, <1>14, <1>15
     DEF Next, Xfer, Isr, Hardware

\* Types: a read leaves between none and all of its message's bytes to come; a write
\* of no bytes wraps acks_left, and then reads beside the buffer.
LEMMA TypeStep ==
    ASSUME TypeOK, Stages, Reading, Writing, [Next]_vars
    PROVE  Typed'
<1> USE DEF vars, callVars, twiVars, regVars, busVars
<1>t. Typed
  BY TypedIs
<1>m. pc \in {"setup", "arm", "wait", "reset"} =>
         Msg.len \in 0 .. MaxLen /\ i \in 1 .. Len(msgs)
  BY MsgTyped
<1>n. MaxLen \in Nat \ {0} /\ MaxMsgs \in Nat /\ MaxAcks \in Nat /\ MaxLen =< MaxAcks
  BY TwiAssumption
<1>k. InFlight => acksLeft \in 0 .. MaxAcks
  BY <1>t DEF Typed
<1>b. \A k \in 0 .. MaxLen + 2 : Byte(i, k) \in Bytes
  BY <1>t, <1>n, ByteTyped DEF Typed
<1>g. ASSUME pc \in {"setup", "arm", "wait", "reset"} PROVE \A k : Given(k) \in Bytes
  <2>1. Garbage \in Bytes
    BY <1>n DEF Garbage, Bytes
  <2>2. \A k \in 1 .. Msg.len : k \in 0 .. MaxLen + 2
    BY <1>g, <1>m, <1>n
  <2> QED
    BY <2>1, <2>2, <1>b DEF Given
<1>l. \A n \in 0 .. MaxAcks : Less(n) \in 0 .. MaxAcks
  BY <1>n DEF Less
<1>0. CASE UNCHANGED vars
  BY <1>0, <1>t DEF Typed, Flags, Errors
<1>1. CASE Call
  <2>1. PICK n \in 1 .. MaxMsgs : msgs' \in [1 .. n -> Message]
    BY <1>1 DEF Call
  <2>2. msgs' \in Transfers
    BY <1>n, <2>1 DEF Transfers
  <2>3. buf' \in Buffers
    BY <1>1, NothingTyped DEF Call, EmptyBuffers, Buffers
  <2>4. wire' \in Wires
    BY <1>1 DEF Call, NoBytes, Wires
  <2>5. i' \in 1 .. MaxMsgs
    BY <1>1, TwiAssumption DEF Call
  <2> QED
    BY <1>1, <1>t, <2>2, <2>3, <2>4, <2>5 DEF Call, ClearStatus, Typed
<1>2. CASE StartRead
  <2>1. acksLeft' \in 0 .. MaxAcks /\ count' \in 0 .. MaxLen + 1 /\ stop' \in BOOLEAN
    BY <1>2, <1>m, <1>n DEF StartRead
  <2>2. sr' \in SUBSET Flags
    BY <1>2, <1>t DEF StartRead, Typed
  <2> QED
    BY <1>2, <1>t, <2>1, <2>2 DEF StartRead, Typed
<1>3. CASE StartWrite
  <2>1. thr' \in Bytes
    BY <1>3, <1>g DEF StartWrite
  <2>2. acksLeft' \in 0 .. MaxAcks
    <3>1. Msg.len \in 0 .. MaxAcks
      BY <1>3, <1>m, <1>n DEF StartWrite
    <3> QED
      BY <1>3, <1>l, <3>1 DEF StartWrite
  <2>3. sr' \in SUBSET Flags
    BY <1>3, <1>t DEF StartWrite, Typed
  <2> QED
    BY <1>3, <1>t, <2>1, <2>2, <2>3 DEF StartWrite, Typed
<1>4. CASE Arm
  BY <1>4, <1>t, <1>m, <1>n, <1>k, <1>b, NothingTyped DEF Arm, Typed, Flags, Errors
<1>5. CASE Completed
  <2>1. i' \in 1 .. MaxMsgs
    <3>1. i \in Nat \ {0} /\ i =< MaxMsgs /\ Len(msgs) \in Nat /\ Len(msgs) =< MaxMsgs
      BY <1>n, <1>t, MsgsTyped DEF Typed
    <3>2. i' = i \/ (i < Len(msgs) /\ i' = i + 1)
      BY <1>5 DEF Completed
    <3> QED
      BY <1>n, <3>1, <3>2
  <2> QED
    BY <1>5, <1>t, <2>1 DEF Completed, Typed
<1>6. CASE Timeout
  BY <1>6, <1>t, <1>m, <1>n, <1>k, <1>b, NothingTyped DEF Timeout, Typed, Flags, Errors
<1>7. CASE Reset
  BY <1>7, <1>t, <1>m, <1>n, <1>k, <1>b, NothingTyped
     DEF Reset, MaskAll, Typed, Flags, Errors
<1>8. CASE IsrOverrun
  <2>1. sr' \in SUBSET Flags /\ imr' \in SUBSET Flags
    BY <1>8, <1>t DEF IsrOverrun, AfterRead, Continue, Typed
  <2>2. status' \in {"ok"} \cup Errors /\ acksLeft' \in 0 .. MaxAcks
    BY <1>8, <1>n, <1>t DEF IsrOverrun, Errors, Typed
  <2>3. comp' \in BOOLEAN
    BY <1>8, <1>t DEF IsrOverrun, Continue, Typed
  <2> QED
    BY <1>8, <1>t, <2>1, <2>2, <2>3 DEF IsrOverrun, Typed
<1>9. CASE IsrReceive
  <2>1. sr' \in SUBSET Flags /\ imr' \in SUBSET Flags
    BY <1>9, <1>t DEF IsrReceive, AfterRead, Continue, Done, Typed
  <2>2. status' \in {"ok"} \cup Errors /\ comp' \in BOOLEAN
    BY <1>9, <1>t DEF IsrReceive, Continue, Done, Errors, Typed
  <2>3. acksLeft' \in 0 .. MaxAcks
    <3>1. acksLeft \in Nat /\ acksLeft =< MaxAcks
      BY <1>n, <1>t DEF Typed
    <3>2. acksLeft' = acksLeft \/ (acksLeft > 0 /\ acksLeft' = acksLeft - 1)
      BY <1>9, <3>1 DEF IsrReceive
    <3> QED
      BY <1>n, <3>1, <3>2
  <2>4. stop' \in BOOLEAN
    BY <1>9, <1>t DEF IsrReceive, Typed
  <2>5. buf' \in Buffers
    <3>1. buf' = buf \/ buf' = [buf EXCEPT ![i][Position] = rhr]
      BY <1>9 DEF IsrReceive
    <3>2. ASSUME NEW q PROVE [buf EXCEPT ![i][q] = rhr] \in Buffers
      BY <1>t DEF Typed, Buffers
    <3> QED
      BY <1>t, <3>1, <3>2 DEF Typed
  <2> QED
    BY <1>9, <1>t, <2>1, <2>2, <2>3, <2>5, <2>4 DEF IsrReceive, Typed
<1>10. CASE IsrComplete
  BY <1>10, <1>t, <1>m, <1>n, <1>k, <1>b, NothingTyped
     DEF IsrComplete, Interrupt, Pending, AfterRead, Done, Typed, Flags, Errors
<1>11. CASE IsrSend
  <2>1. sr' \in SUBSET Flags /\ imr' \in SUBSET Flags
    BY <1>11, <1>t DEF IsrSend, AfterRead, Continue, Typed
  <2>2. acksLeft' \in 0 .. MaxAcks
    <3>1. acksLeft \in Nat /\ acksLeft =< MaxAcks
      BY <1>n, <1>t DEF Typed
    <3>2. acksLeft' = acksLeft \/ (acksLeft > 0 /\ acksLeft' = acksLeft - 1)
      BY <1>11, <3>1 DEF IsrSend
    <3> QED
      BY <1>n, <3>1, <3>2
  <2>3. stop' \in BOOLEAN
    BY <1>11, <1>t DEF IsrSend, Typed
  <2>5. thr' \in Bytes
    BY <1>11, <1>t, <1>g, IsrRuns DEF IsrSend, Typed
  <2> QED
    BY <1>11, <1>t, <2>1, <2>2, <2>5, <2>3 DEF IsrSend, Continue, Typed
<1>12. CASE HwAddress
  BY <1>12, <1>t, <1>m, <1>n, <1>k, <1>b, NothingTyped
     DEF HwAddress, BusIdle, Typed, Flags, Errors
<1>13. CASE HwReceive
  <2>1. count' \in 0 .. MaxLen + 1
    BY <1>13, <1>t, <1>n DEF HwReceive, Typed
  <2>2. rhr' \in Bytes
    <3>1. count + 1 \in 0 .. MaxLen + 2
      BY <1>13, <1>t, <1>n DEF Typed
    <3> QED
      BY <1>13, <1>b, <3>1 DEF HwReceive
  <2>3. sr' \in SUBSET Flags /\ bus' \in {"idle", "data", "stop"}
    BY <1>13, <1>t DEF HwReceive, BusIdle, Typed, Flags
  <2>4. faults' \in SUBSET {"nack", "overrun", "underrun"}
    BY <1>13, <1>t DEF HwReceive, Typed
  <2> QED
    BY <1>13, <1>t, <2>1, <2>2, <2>3, <2>4 DEF HwReceive, Typed
<1>14. CASE HwTransmit
  <2>1. wire' \in Wires
    <3>1. wire' = wire \/ wire' = [wire EXCEPT ![i] = Append(wire[i], shift)]
      BY <1>14 DEF HwTransmit
    <3>2. wire[i] \in Seq(Bytes) /\ shift \in Bytes
      BY <1>t DEF Typed, Wires
    <3>3. Append(wire[i], shift) \in Seq(Bytes)
      BY <3>2
    <3> QED
      BY <1>t, <3>1, <3>3 DEF Typed, Wires
  <2>2. sr' \in SUBSET Flags /\ bus' \in {"idle", "addr", "data"}
    BY <1>14, <1>t DEF HwTransmit, BusIdle, Typed, Flags
  <2>3. faults' \in SUBSET {"nack", "overrun", "underrun"}
    BY <1>14, <1>t DEF HwTransmit, Typed
  <2>4. thr' \in Bytes /\ shift' \in Bytes
    BY <1>14, <1>t, NothingTyped DEF HwTransmit, Typed
  <2> QED
    BY <1>14, <1>t, <2>1, <2>2, <2>3, <2>4 DEF HwTransmit, Typed
<1>15. CASE HwStop
  BY <1>15, <1>t DEF HwStop, BusIdle, Typed, Flags, Errors
<1> QED
  BY <1>0, <1>1, <1>2, <1>3, <1>4, <1>5, <1>6, <1>7, <1>8, <1>9, <1>10, <1>11, <1>12,
     <1>13, <1>14, <1>15
     DEF Next, Xfer, Isr, Hardware

\* One step of any kind preserves the whole invariant.
LEMMA Inductive == IInv /\ [Next]_vars => IInv'
<1> SUFFICES ASSUME IInv, [Next]_vars PROVE IInv'
  OBVIOUS
<1> USE DEF IInv
<1>1. TypeOK'
  <2>1. Typed'
    BY TypeStep
  <2> QED
    BY <2>1 DEF Typed, TypeOK, Transfers, Wires, Buffers
<1>2. Stages' /\ Judged' /\ Before' /\ After' /\ Returned'
  BY <1>1, StagesStep, JudgedStep, BeforeStep, AfterStep, ReturnedStep
<1>3. Reading' /\ Writing'
  BY <1>1, <1>2, ReadingStep, WritingStep
<1> QED
  BY <1>1, <1>2, <1>3

\* At first the controller is idle and masked.
LEMMA Initially == Init => IInv
<1> SUFFICES ASSUME Init PROVE IInv
  OBVIOUS
<1>0. MaxMsgs \in Nat \ {0} /\ MaxLen \in Nat /\ MaxAcks \in Nat
  BY TwiAssumption
<1>1. msgs \in Transfers
  <2>1. <<>> \in [1 .. 0 -> Message]
    OBVIOUS
  <2> QED
    BY <1>0, <2>1 DEF Init, Transfers
<1>2. buf \in Buffers
  BY NothingTyped DEF Init, EmptyBuffers, Buffers
<1>3. wire \in Wires
  BY DEF Init, NoBytes, Wires
<1>4. Typed
  <2>1. sr \in SUBSET Flags /\ imr \in SUBSET Flags /\ mask \in SUBSET Flags /\ faults = {}
    BY DEF Init, Flags
  <2>2. i \in 1 .. MaxMsgs /\ acksLeft \in 0 .. MaxAcks /\ count \in 0 .. MaxLen + 1
    BY <1>0 DEF Init
  <2>3. stop \in BOOLEAN /\ comp \in BOOLEAN
    BY DEF Init
  <2> QED
    BY <1>1, <1>2, <1>3, <2>1, <2>2, <2>3, NothingTyped DEF Init, Typed
<1>5. TypeOK
  BY <1>4, TypedIs
<1>6. Stages /\ Judged /\ Before /\ After /\ Returned
  BY DEF Init, Stages, InFlight, Judged, Before, Succeeded, After, Returned
<1>7. Reading /\ Writing
  BY DEF Init, Reading, Writing, InFlight
<1> QED
  BY <1>5, <1>6, <1>7 DEF IInv

\* The invariant holds in every reachable state.
LEMMA Invariance == Spec => []IInv
BY Initially, Inductive, PTL DEF Spec

\* The variables keep their types for any number of messages of any length, none
\* included: where a write of no bytes makes acks_left wrap it stays within a u16.
THEOREM TypesAreRight == Spec => []TypeOK
<1>1. IInv => TypeOK
  BY DEF IInv
<1> QED
  BY <1>1, Invariance, PTL

\* twi_xfer: when it reports success every byte of every message has arrived,
\* in order and at its place, for any number of messages of any length,
\* whatever the order of interrupts, late answers and time-outs.
THEOREM SuccessMovesEverything == Spec => []SuccessMeansMoved
<1>1. IInv => SuccessMeansMoved
  <2> SUFFICES ASSUME IInv, Succeeded, NEW m \in 1 .. Len(msgs)
               PROVE  IF msgs[m].rd THEN \A k \in 1 .. msgs[m].len : buf[m][k] = Byte(m, k)
                                    ELSE msgs[m].len > 0 => wire[m] = InOrder(m)
    BY DEF SuccessMeansMoved
  <2>1. Moved(m)
    BY DEF IInv, Before
  <2>2. m \in 1 .. MaxMsgs /\ msgs[m].len \in Nat
    BY MsgsTyped, TwiAssumption DEF IInv, Message
  <2>3. ASSUME ~ msgs[m].rd, msgs[m].len > 0 PROVE wire[m] = InOrder(m)
    <3>1. wire[m] \in Seq(Bytes)
      BY <2>2 DEF IInv, TypeOK
    <3>2. wire[m] = [k \in 1 .. msgs[m].len |-> wire[m][k]]
      BY <2>1, <2>3, <3>1 DEF Moved, Sent
    <3> QED
      BY <2>1, <2>3, <3>2 DEF Moved, Sent, InOrder
  <2> QED
    BY <2>1, <2>3 DEF Moved
<1> QED
  BY <1>1, Invariance, PTL

\* twi_interrupt: an error is reported only when it happened on the bus, and
\* success only when nothing went wrong.
THEOREM VerdictsAreHonest == Spec => []VerdictHonest
<1>1. IInv => VerdictHonest
  BY DEF IInv, Returned, Honest, VerdictHonest
<1> QED
  BY <1>1, Invariance, PTL

\* Between transfers no interrupt is enabled and the bus rests, also after a
\* time-out whose answer comes late.
THEOREM SilentBetweenTransfers == Spec => []QuietBetweenTransfers
<1>1. IInv => QuietBetweenTransfers
  BY DEF IInv, Stages, InFlight, QuietBetweenTransfers
<1> QED
  BY <1>1, Invariance, PTL

\* twi_interrupt never returns with its cause still pending and enabled, so
\* that it cannot run for ever.
THEOREM HandlerRemovesCause == Spec => InterruptCauseRemoved
<1>1. IInv /\ [Next]_vars => [Isr => sr' \cap imr' = {}]_vars
  <2> SUFFICES ASSUME IInv, Isr PROVE sr' \cap imr' = {}
    OBVIOUS
  <2>0. acksLeft \in Nat
    BY TwiAssumption DEF IInv, TypeOK
  <2>1. CASE IsrOverrun
    BY <2>1, IsrRuns DEF IsrOverrun, AfterRead, Continue, IInv
  <2>2. CASE IsrReceive
    <3>1. imr \subseteq {"RXRDY", "TXCOMP"}
      BY <2>2, IsrRuns DEF IsrReceive, IInv, Wanted
    <3>2. "TXCOMP" \in Pending <=> "TXCOMP" \in sr
      BY <2>2, IsrRuns DEF IsrReceive, IInv
    <3> QED
      BY <2>0, <2>2, <3>1, <3>2 DEF IsrReceive, AfterRead, Continue, Done
  <2>3. CASE IsrComplete
    BY <2>3 DEF IsrComplete, Done
  <2>4. CASE IsrSend
    <3>1. imr \subseteq {"TXRDY", "TXCOMP"}
      BY <2>4, IsrRuns DEF IsrSend, IInv, Wanted
    <3>2. "TXCOMP" \notin sr
      BY <2>4, IsrRuns DEF IsrSend, IInv
    <3>3. imr' \subseteq imr /\ sr' \subseteq sr
      BY <2>4 DEF IsrSend, AfterRead, Continue
    <3>4. "TXRDY" \notin sr' \/ "TXRDY" \notin imr'
      BY <2>0, <2>4 DEF IsrSend, Continue
    <3> QED
      BY <3>1, <3>2, <3>3, <3>4
  <2> QED
    BY <2>1, <2>2, <2>3, <2>4 DEF Isr
<1> QED
  BY <1>1, Invariance, PTL DEF Spec, InterruptCauseRemoved
=============================================================================
