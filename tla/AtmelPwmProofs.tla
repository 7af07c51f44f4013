--------------------------- MODULE AtmelPwmProofs ---------------------------
(***************************************************************************)
(* Proofs about AtmelPwm, for any set of channels, clients, prescalers and *)
(* divisors.                                                               *)
(*                                                                         *)
(* Type correctness is not inductive by itself: the count of clk_enable    *)
(* calls stays a natural number only because it counts the owned channels, *)
(* and pwm_channel_free, which trusts ch->index no further than pwmcheck   *)
(* does, releases an owned one.  The inductive invariant is therefore the  *)
(* conjunction of types, clock balance and quiet channels.                 *)
(***************************************************************************)
EXTENDS AtmelPwm, FiniteSetTheorems, TLAPS

IInv == TypeOK /\ ClockBalance /\ ChannelsQuiet

\* Handing out a free channel adds one to the number of owned channels.
LEMMA OwnMore ==
    ASSUME TypeOK, NEW h \in Clients, NEW c \in Channels, channel[c] = NoClient,
           channel' = [channel EXCEPT ![c] = h]
    PROVE  Cardinality(Owned') = Cardinality(Owned) + 1
<1>1. IsFiniteSet(Owned)
    BY FS_Subset, ChannelAssumption DEF Owned
<1>2. Owned' = Owned \cup {c} /\ c \notin Owned
    BY ChannelAssumption DEF Owned, TypeOK
<1> QED
    BY <1>1, <1>2, FS_AddElement

\* Giving one back takes one away, and there was one to take.
LEMMA OwnLess ==
    ASSUME TypeOK, NEW c \in Channels, channel[c] # NoClient,
           channel' = [channel EXCEPT ![c] = NoClient]
    PROVE  /\ Cardinality(Owned') = Cardinality(Owned) - 1
           /\ Cardinality(Owned') \in Nat
<1>1. IsFiniteSet(Owned)
    BY FS_Subset, ChannelAssumption DEF Owned
<1>2. Owned' = Owned \ {c} /\ c \in Owned
    BY DEF Owned, TypeOK
<1>3. IsFiniteSet(Owned')
    BY <1>1, <1>2, FS_RemoveElement
<1> QED
    BY <1>1, <1>2, <1>3, FS_RemoveElement, FS_CardinalityType

\* The initial states satisfy the inductive invariant.
LEMMA InitIInv == Init => IInv
<1> SUFFICES ASSUME Init PROVE IInv
    OBVIOUS
<1>1. TypeOK
    BY DEF Init, TypeOK, Configs, Off
<1>2. ChannelsQuiet
    BY DEF Init, ChannelsQuiet
<1>3. ClockBalance
  <2>1. Owned = {}
    BY DEF Init, Owned
  <2> QED
    BY <2>1, FS_EmptySet DEF Init, ClockBalance
<1> QED
    BY <1>1, <1>2, <1>3 DEF IInv

\* Every step preserves it.
LEMMA NextIInv == IInv /\ [Next]_vars => IInv'
<1> SUFFICES ASSUME IInv, [Next]_vars PROVE IInv'
    OBVIOUS
<1> USE DEF IInv
<1>1. ASSUME NEW h \in Clients, NEW c \in Channels, ChannelAlloc(h, c) PROVE IInv'
  <2>1. CASE channel[c] # NoClient
    <3>1. /\ index' = [index EXCEPT ![h] = 0]
          /\ UNCHANGED <<channel, handler, enabled, sr, imr>>
        BY <1>1, <2>1 DEF ChannelAlloc
    <3>2. TypeOK'
        BY <1>1, <3>1 DEF ChannelAlloc, TypeOK, clockVars, irqVars
    <3>4. ClockBalance' /\ ChannelsQuiet'
        BY <3>1 DEF ClockBalance, ChannelsQuiet, Owned
    <3> QED
        BY <3>2, <3>4
  <2>2. CASE channel[c] = NoClient
    <3>1. /\ index' = [index EXCEPT ![h] = c]
          /\ channel' = [channel EXCEPT ![c] = h]
          /\ handler' = [handler EXCEPT ![c] = FALSE]
          /\ enabled' = enabled + 1
          /\ sr' = sr \ {c} /\ imr' = imr \ {c}
        BY <1>1, <2>2 DEF ChannelAlloc, Disable
    <3>2. TypeOK'
        BY <1>1, <3>1 DEF ChannelAlloc, TypeOK, clockVars, irqVars
    <3>4. ClockBalance'
        BY <1>1, <2>2, <3>1, OwnMore DEF ClockBalance
    <3>5. ChannelsQuiet'
        BY <1>1, <2>2, <3>1, ChannelAssumption DEF ChannelsQuiet, TypeOK, Owned
    <3> QED
        BY <3>2, <3>4, <3>5
  <2> QED
    BY <2>1, <2>2
<1>2. ASSUME NEW h \in Clients, ChannelFree(h) PROVE IInv'
  <2> DEFINE c == index[h]
  <2>1. /\ c \in Channels /\ channel[c] = h /\ h # NoClient
        /\ channel' = [channel EXCEPT ![c] = NoClient]
        /\ handler' = [handler EXCEPT ![c] = FALSE]
        /\ sr' = sr \ {c} /\ imr' = imr \ {c}
        /\ enabled' = enabled - 1
        /\ UNCHANGED <<present, index, isr, clockVars, irqVars>>
    BY <1>2, ChannelAssumption DEF ChannelFree, Checked, Disable, ClkDisable
  <2> HIDE DEF c
  <2>2. ClockBalance' /\ enabled' \in Nat
    BY <2>1, OwnLess DEF ClockBalance
  <2>3. TypeOK'
    BY <2>1, <2>2 DEF TypeOK, clockVars, irqVars
  <2>5. ChannelsQuiet'
    BY <2>1 DEF ChannelsQuiet, TypeOK, Owned
  <2> QED
    BY <2>2, <2>3, <2>5
<1>3. ASSUME NEW h \in Clients, NEW on \in BOOLEAN, ChannelOnOff(h, on) PROVE IInv'
  <2>1. /\ index[h] \in Channels /\ index[h] \in Owned
        /\ sr' = IF on THEN sr \cup {index[h]} ELSE sr \ {index[h]}
        /\ UNCHANGED <<present, chanVars, imr, isr, clockVars, irqVars>>
    BY <1>3, ChannelAssumption DEF ChannelOnOff, Checked, Owned
  <2>2. TypeOK'
    BY <2>1 DEF TypeOK, chanVars, clockVars, irqVars
  <2>3. ClockBalance'
    BY <2>1 DEF ClockBalance, Owned, chanVars
  <2>4. ChannelsQuiet'
    BY <2>1 DEF ChannelsQuiet, TypeOK, Owned, chanVars
  <2> QED
    BY <2>2, <2>3, <2>4
<1>4. ASSUME NEW h \in Clients, NEW set \in BOOLEAN, ChannelHandler(h, set) PROVE IInv'
  <2>1. /\ index[h] \in Channels /\ index[h] \in Owned
        /\ handler' = [handler EXCEPT ![index[h]] = set]
        /\ imr' = IF set THEN imr \cup {index[h]} ELSE imr \ {index[h]}
        /\ UNCHANGED <<present, channel, index, enabled, sr, isr>>
        /\ UNCHANGED <<clockVars, irqVars>>
    BY <1>4, ChannelAssumption DEF ChannelHandler, Checked, Owned
  <2>2. TypeOK'
    BY <2>1 DEF TypeOK, clockVars, irqVars
  <2>3. ClockBalance'
    BY <2>1 DEF ClockBalance, Owned
  <2>4. ChannelsQuiet'
    BY <2>1 DEF ChannelsQuiet, TypeOK, Owned
  <2> QED
    BY <2>2, <2>3, <2>4
<1>5. ASSUME NEW prescale \in Prescales, NEW div \in Divs, ClkAlloc(prescale, div)
      PROVE IInv'
  <2>1. UNCHANGED <<present, chanVars, sr, imr, isr, irqVars>>
    BY <1>5 DEF ClkAlloc
  <2>2. mr' \in [Clocks -> Configs] /\ granted' \subseteq Grants
    BY <1>5 DEF ClkAlloc, TypeOK, Grants, Configs, Config, Clocks, Returned
  <2>3. TypeOK'
    BY <2>1, <2>2 DEF TypeOK, chanVars, irqVars
  <2> QED
    BY <2>1, <2>3 DEF ClockBalance, ChannelsQuiet, Owned, chanVars
<1>6. ASSUME NEW g \in granted, ClkFree(g) PROVE IInv'
  <2>1. TypeOK'
    BY <1>6 DEF ClkFree, TypeOK, Grants, Configs, chanVars, irqVars
  <2> QED
    BY <1>6, <2>1 DEF ClkFree, ClockBalance, ChannelsQuiet, Owned, chanVars
<1>7. ASSUME NEW c \in Channels, Period(c) PROVE IInv'
  <2>1. TypeOK'
    BY <1>7 DEF Period, TypeOK, chanVars, clockVars, irqVars
  <2> QED
    BY <1>7, <2>1 DEF Period, ClockBalance, ChannelsQuiet, Owned, chanVars
<1>8. ASSUME Probe \/ Irq PROVE IInv'
  <2>1. UNCHANGED <<chanVars, sr, imr, clockVars>>
    BY <1>8 DEF Probe, Irq, IrqEnter, IrqScan, HandlerReturns, IrqLeave
  <2>2. /\ present' \in BOOLEAN /\ isr' \in SUBSET Channels
        /\ irqPc' \in {"idle", "scan", "handler"}
        /\ irqstat' \in SUBSET Channels /\ at' \in Channels \cup {0}
    BY <1>8
       DEF Probe, Irq, IrqEnter, IrqScan, HandlerReturns, IrqLeave, TypeOK, irqVars
  <2>3. TypeOK'
    BY <2>1, <2>2 DEF TypeOK, chanVars, clockVars
  <2> QED
    BY <2>1, <2>3 DEF ClockBalance, ChannelsQuiet, Owned, chanVars
<1>9. CASE UNCHANGED vars
  <2>1. TypeOK'
    BY <1>9 DEF vars, chanVars, clockVars, irqVars, TypeOK
  <2> QED
    BY <1>9, <2>1 DEF vars, chanVars, ClockBalance, ChannelsQuiet, Owned
<1> QED
    BY <1>1, <1>2, <1>3, <1>4, <1>5, <1>6, <1>7, <1>8, <1>9 DEF Next, Calls

\* The inductive invariant holds in every reachable state.
THEOREM Invariance == Spec => []IInv
<1>1. Init => IInv
    BY InitIInv
<1>2. IInv /\ [Next]_vars => IInv'
    BY NextIInv
<1> QED
    BY <1>1, <1>2, PTL DEF Spec

\* The variables keep their types; in particular the count of clk_enable calls
\* never goes below zero.
THEOREM TypeCorrect == Spec => []TypeOK
<1>1. IInv => TypeOK
    BY DEF IInv
<1> QED
    BY <1>1, Invariance, PTL

\* The controller's clock is enabled once per channel handed out.
THEOREM ClockBalanced == Spec => []ClockBalance
<1>1. IInv => ClockBalance
    BY DEF IInv
<1> QED
    BY <1>1, Invariance, PTL

\* A channel without an owner neither runs nor interrupts, and interrupts are
\* enabled exactly for the channels with a handler.
THEOREM ChannelsAreQuiet == Spec => []ChannelsQuiet
<1>1. IInv => ChannelsQuiet
    BY DEF IInv
<1> QED
    BY <1>1, Invariance, PTL

\* No clock in use is ever reconfigured by another request.  The configuration
\* of a clock in use is never the empty one, by which pwm_clk_alloc tells a free
\* clock; and no clock is handed out twice, so freeing one strips nobody else.
THEOREM ClocksKept == Spec => []GrantedClocksKept
<1> DEFINE Configured == \A g \in granted : g.config # Off
           Kept == GrantedClocksKept /\ Configured
<1>1. Init => Kept
    BY DEF Init, GrantedClocksKept
<1>2. TypeOK /\ Kept /\ [Next]_vars => Kept'
  <2> SUFFICES ASSUME TypeOK, Kept, [Next]_vars PROVE Kept'
    OBVIOUS
  <2>1. ASSUME NEW prescale \in Prescales, NEW div \in Divs, ClkAlloc(prescale, div)
        PROVE  Kept'
    <3> SUFFICES ASSUME NEW g \in granted'
                 PROVE  mr'[g.clk] = g.config /\ g.config # Off
        BY DEF GrantedClocksKept
    <3>1. CASE g \in granted
      <4>1. g.clk \in Clocks /\ mr[g.clk] = g.config /\ g.config # Off
        BY <3>1 DEF TypeOK, Grants, GrantedClocksKept
      <4> QED
        BY <2>1, <4>1 DEF ClkAlloc, TypeOK, Unconfigured
    <3>2. CASE g \notin granted
      <4>1. /\ prescale < 10 /\ div # 0 /\ div <= 255 /\ Unconfigured # {}
            /\ g = [clk |-> Returned, config |-> Config(prescale, div)]
        BY <2>1, <3>2 DEF ClkAlloc, Clocks
      <4>2. Returned \in Unconfigured
        BY <4>1 DEF Returned, Unconfigured, Clocks
      <4> QED
        BY <2>1, <4>1, <4>2 DEF ClkAlloc, TypeOK, Unconfigured, Config, Off
    <3> QED
        BY <3>1, <3>2
  <2>2. ASSUME NEW f \in granted, ClkFree(f) PROVE Kept'
    <3> SUFFICES ASSUME NEW g \in granted, g # f
                 PROVE  mr'[g.clk] = g.config /\ g.config # Off
        BY <2>2 DEF ClkFree, GrantedClocksKept
    <3>1. mr[g.clk] = g.config /\ mr[f.clk] = f.config /\ g.config # Off
        BY DEF GrantedClocksKept
    <3>2. g.clk # f.clk
        BY <3>1 DEF TypeOK, Grants
    <3> QED
        BY <2>2, <3>1, <3>2 DEF ClkFree, TypeOK, Grants
  <2>3. CASE UNCHANGED <<mr, granted>>
    BY <2>3 DEF GrantedClocksKept
  <2> QED
    BY <2>1, <2>2, <2>3 DEF Next, Calls, Irq, Probe, ChannelAlloc, ChannelFree,
       ChannelOnOff, ChannelHandler, Period, IrqEnter, IrqScan, HandlerReturns,
       IrqLeave, vars, clockVars
<1>3. Kept => GrantedClocksKept
    OBVIOUS
<1> QED
    BY <1>1, <1>2, <1>3, TypeCorrect, PTL DEF Spec
=============================================================================
