---------------------------- MODULE CodecProofs -----------------------------
(***************************************************************************)
(* Proofs about Codec, for every size of the mailbox, bound on the mails   *)
(* read at one interrupt, and number of traces.                            *)
(***************************************************************************)
EXTENDS Codec, FiniteSetTheorems, FunctionTheorems, SequenceTheorems, TLAPS

-----------------------------------------------------------------------------
\* The inductive invariant, in parts.

Labels == {"out", "unbound", "set_up", "request_fw", "bind", "start", "ping", "pool", "send",
           "ack", "stop", "unbind", "release_fw", "cdev", "bound", "tear_down", "tear_group",
           "tear_memory", "cdev_del", "devres", "devres_mem"}

Resources == Module \cup Devm \cup Images \cup Visible
             \cup {"declared", "users", "icache", "irq", "suballoc", "mem_node"}

\* Failures of al5_codec_set_up, and what makes al5_codec_tear_down due.
SetUpFailures == {"regs", "declared", "mcu", "icache", "irq"}
TearDowns     == {"fw", "start", "init", "cdev", "removed"}
Reasons       == {"none", "class", "driver"} \cup SetUpFailures \cup TearDowns

\* TypeOK, one variable at a time, and what TypeOK does not say.
Types ==
    /\ pc \in Labels
    /\ step \in 1..6
    /\ held \in SUBSET Resources
    /\ failedAt \in Reasons
    /\ root \in {"none", "live", "gone"}
    /\ queue \in Nat
    /\ mcu \in {"asleep", "boot", "ready", "configured"}
    /\ box \in Seq({"INIT", "TRACE"})
    /\ Len(box) <= BoxCap
    /\ nb \in 0..MaxMsg

\* The history variables and the flags.
Flags ==
    /\ bound \in BOOLEAN /\ poolPtr \in BOOLEAN /\ cmd \in BOOLEAN
    /\ raise \in BOOLEAN /\ irqSta \in BOOLEAN /\ wake \in BOOLEAN /\ reading \in BOOLEAN
    /\ inherited \in BOOLEAN /\ abandoned \in BOOLEAN /\ stale \in BOOLEAN /\ twice \in BOOLEAN

\* What al5_codec_set_up holds when it returns, without the dedicated memory.
SetUpSet == Module \cup Devm \cup {"users", "icache", "irq"}

Probing   == {"set_up", "request_fw", "bind", "start", "ping", "pool", "send", "ack", "unbind",
              "cdev", "bound"}
Tearing   == {"tear_down", "tear_group", "tear_memory"}

\* Why the device is where it is.
ReasonOK ==
    /\ pc \in Probing => failedAt = "none"
    /\ pc = "stop" => failedAt = "init"
    /\ pc = "release_fw" => failedAt \in {"none", "start", "init"}
    /\ pc \in Tearing => failedAt \in TearDowns
    /\ pc = "cdev_del" => failedAt = "removed"
    /\ pc \in {"devres", "devres_mem"} => failedAt \in SetUpFailures \cup TearDowns

\* The memory of the firmware's allocator is there.
PoolThere ==
    \/ pc \in {"send", "ack", "unbind", "cdev", "bound"}
    \/ pc = "release_fw" /\ failedAt = "none"
    \/ pc \in Tearing /\ failedAt \in {"cdev", "removed"}

\* What is held at each point after al5_codec_set_up: nothing depends on
\* how the thread got there, except for the reason the device goes down.
HeldOK ==
    /\ pc = "out" /\ failedAt \notin {"class", "driver", "declared", "icache", "irq"} => held = {}
    /\ pc = "unbound" /\ failedAt \notin {"declared", "icache", "irq"} => held = Module
    /\ pc = "set_up" =>
          held \ {"declared"} = Module \cup {"codec"}
                                \cup {r \in {"regs", "mcu", "users", "icache"} :
                                        \E i \in 1..step-1 : SetUpOrder[i] = r}
    /\ pc = "set_up" /\ "declared" \in held => step > 2
    /\ pc \in {"request_fw", "bind", "start", "ping", "pool", "send", "ack", "stop", "unbind",
               "release_fw", "cdev", "bound"} \cup Tearing =>
          held \ {"declared"} =
              (SetUpSet \ ((IF pc \in {"tear_group", "tear_memory"} THEN {"mcu"} ELSE {})
                            \cup (IF pc = "tear_memory" THEN {"users"} ELSE {})))
              \cup (IF pc \in {"bind", "start", "ping", "pool", "send", "ack", "stop", "unbind",
                               "release_fw"} THEN Images ELSE {})
              \cup (IF PoolThere THEN {"suballoc"} ELSE {})
              \cup (IF pc = "bound" \/ (pc \in Tearing /\ failedAt = "removed")
                    THEN Visible ELSE {})
    /\ pc = "cdev_del" => held = Module \cup {"codec", "regs", "irq"} \cup Visible
    /\ pc \in {"devres", "devres_mem"} /\ failedAt \notin {"declared", "icache", "irq"} =>
          held \ (Devm \cup {"irq"}) = Module
    /\ pc \in {"devres_mem", "unbound", "out"} => "irq" \notin held
    /\ pc = "devres" /\ failedAt \in SetUpFailures => "irq" \notin held

\* The pointer is set exactly while there is something to free, up to the free.
PointerOK ==
    /\ ~twice
    /\ pc \in {"set_up", "request_fw", "bind", "start", "ping", "pool", "send", "ack", "stop",
               "unbind", "release_fw", "cdev", "bound"} \cup Tearing => poolPtr = PoolThere

\* The answers to INIT in the mailbox, and those the firmware will still send:
\* its ping, and the acknowledgement of a configuration that was sent.
InitMails(s) == {i \in 1..Len(s) : s[i] = "INIT"}
Coming == (IF mcu = "boot" THEN 1 ELSE 0)
          + (IF cmd /\ mcu \in {"boot", "ready"} THEN 1 ELSE 0)
Answers == queue + Cardinality(InitMails(box)) + Coming

\* Both mailboxes are empty of what an earlier life left.
Emptied == (pc = "set_up" /\ step > 3) \/ pc \in {"request_fw", "bind", "start"}

\* The acknowledgement was read.
Acknowledged == pc \in {"unbind", "cdev", "bound"} \/ (pc = "release_fw" /\ failedAt = "none")

\* The root user never has more than two answers before it.  One of them may
\* be a late one; without it, their number says how far the firmware is.
HandshakeOK ==
    /\ Answers <= 2
    /\ pc \in {"set_up", "request_fw", "bind"} => queue = 0 /\ root = "none"
    /\ Emptied \/ pc \in {"ping", "pool", "send"} => ~cmd
    /\ Emptied \/ pc \in {"pool", "send"} => Answers <= 1
    /\ Emptied /\ ~inherited => Answers = 0
    /\ pc \in {"ping", "pool", "send"} => mcu \in {"boot", "ready"}
    /\ pc = "ping" /\ ~inherited => Answers = 1
    /\ pc \in {"pool", "send"} /\ ~inherited => Answers = 0
    /\ pc = "ack" /\ ~inherited => /\ Answers = 1
                                   /\ IF cmd THEN mcu = "ready" ELSE mcu = "configured"
    /\ Acknowledged /\ ~inherited => Answers = 0 /\ mcu = "configured"

\* A firmware that runs was started by this probe, or was left running.
FirmwareOK ==
    mcu # "asleep" /\ ~abandoned =>
        \/ pc \in {"ping", "pool", "send", "ack", "stop", "unbind", "cdev", "bound"}
        \/ pc = "release_fw" /\ failedAt = "none"
        \/ pc \in Tearing /\ failedAt \in {"cdev", "removed"}

\* The handler runs only while the interrupt is requested, and the root user is
\* bound only while it lives, up to a tear-down.
HandlerOK ==
    /\ wake \/ reading => "irq" \in held
    /\ pc \in {"start", "ping", "pool", "send", "ack", "stop", "unbind"} => root = "live" /\ bound
    /\ pc = "release_fw" => root = "live"
    /\ pc \in {"cdev", "bound"} \/ (pc = "release_fw" /\ failedAt = "none") => ~bound
    /\ stale => failedAt \in TearDowns

CodecInv == Types /\ Flags /\ ReasonOK /\ HeldOK /\ PointerOK /\ HandshakeOK /\ FirmwareOK /\ HandlerOK

-----------------------------------------------------------------------------
\* The answers in the mailbox.

LEMMA InitMailsFinite ==
    ASSUME NEW s \in Seq({"INIT", "TRACE"})
    PROVE  /\ IsFiniteSet(InitMails(s))
           /\ Cardinality(InitMails(s)) \in Nat
<1>1. Len(s) \in Nat /\ InitMails(s) \in SUBSET (1..Len(s))
    BY DEF InitMails
<1>2. IsFiniteSet(1..Len(s))
    BY <1>1, FS_Interval
<1>3. IsFiniteSet(InitMails(s))
    BY <1>1, <1>2, FS_Subset
<1> QED
    BY <1>3, FS_CardinalityType

LEMMA InitMailsEmpty == Cardinality(InitMails(<<>>)) = 0
<1>1. InitMails(<<>>) = {}
    BY DEF InitMails
<1> QED
    BY <1>1, FS_EmptySet

LEMMA InitMailsAppend ==
    ASSUME NEW s \in Seq({"INIT", "TRACE"}), NEW m \in {"INIT", "TRACE"}
    PROVE  /\ Append(s, m) \in Seq({"INIT", "TRACE"})
           /\ Len(Append(s, m)) = Len(s) + 1
           /\ Cardinality(InitMails(Append(s, m)))
                = Cardinality(InitMails(s)) + (IF m = "INIT" THEN 1 ELSE 0)
<1>1. /\ Append(s, m) \in Seq({"INIT", "TRACE"})
      /\ Len(s) \in Nat
      /\ Len(Append(s, m)) = Len(s) + 1
      /\ \A i \in 1..Len(s) : Append(s, m)[i] = s[i]
      /\ Append(s, m)[Len(s) + 1] = m
    OBVIOUS
<1>2. CASE m = "INIT"
    <2>1. InitMails(Append(s, m)) = InitMails(s) \cup {Len(s) + 1}
        BY <1>1, <1>2 DEF InitMails
    <2>2. Len(s) + 1 \notin InitMails(s)
        BY <1>1 DEF InitMails
    <2> QED
        BY <1>1, <1>2, <2>1, <2>2, InitMailsFinite, FS_AddElement
<1>3. CASE m = "TRACE"
    <2>1. InitMails(Append(s, m)) = InitMails(s)
        BY <1>1, <1>3 DEF InitMails
    <2> QED
        BY <1>1, <1>3, <2>1, InitMailsFinite
<1> QED
    BY <1>2, <1>3

\* Reading the first mail moves the others up.
LEMMA InitMailsTail ==
    ASSUME NEW s \in Seq({"INIT", "TRACE"}), s # <<>>
    PROVE  /\ Head(s) \in {"INIT", "TRACE"}
           /\ Tail(s) \in Seq({"INIT", "TRACE"})
           /\ Len(Tail(s)) = Len(s) - 1
           /\ Cardinality(InitMails(Tail(s)))
                = Cardinality(InitMails(s)) - (IF Head(s) = "INIT" THEN 1 ELSE 0)
<1>1. /\ Head(s) \in {"INIT", "TRACE"}
      /\ Head(s) = s[1]
      /\ Tail(s) \in Seq({"INIT", "TRACE"})
      /\ Len(s) \in Nat
      /\ Len(s) >= 1
      /\ Len(Tail(s)) = Len(s) - 1
      /\ \A i \in 1..Len(s) - 1 : Tail(s)[i] = s[i + 1]
    OBVIOUS
<1> DEFINE T == InitMails(Tail(s))
           S == InitMails(s) \ {1}
           up == [i \in T |-> i + 1]
<1>2. up \in Bijection(T, S)
    <2>1. \A i \in T : i \in Nat /\ i + 1 \in S
        BY <1>1 DEF InitMails
    <2>2. up \in [T -> S]
        BY <2>1
    <2>3. \A j \in S : j - 1 \in T /\ up[j - 1] = j
        BY <1>1 DEF InitMails
    <2>4. \A i, k \in T : up[i] = up[k] => i = k
        BY <2>1
    <2> HIDE DEF T, S, up
    <2> QED
        BY <2>2, <2>3, <2>4, Fun_IsBij
<1>3. IsFiniteSet(T) /\ Cardinality(T) \in Nat
    BY <1>1, InitMailsFinite
<1>4. Cardinality(S) = Cardinality(T)
    <2> HIDE DEF T, S, up
    <2>1. ExistsBijection(T, S)
        BY <1>2 DEF ExistsBijection
    <2> QED
        BY <1>3, <2>1, FS_Bijection
<1>5. IsFiniteSet(InitMails(s)) /\ Cardinality(InitMails(s)) \in Nat
    BY InitMailsFinite
<1>6. Cardinality(S) = IF 1 \in InitMails(s) THEN Cardinality(InitMails(s)) - 1
                       ELSE Cardinality(InitMails(s))
    BY <1>5, FS_RemoveElement
<1>7. 1 \in InitMails(s) <=> Head(s) = "INIT"
    BY <1>1 DEF InitMails
<1> QED
    BY <1>1, <1>3, <1>4, <1>5, <1>6, <1>7

LEMMA SetUpOrderFacts ==
    /\ Len(SetUpOrder) = 6
    /\ SetUpOrder[1] = "regs" /\ SetUpOrder[2] = "declared" /\ SetUpOrder[3] = "mcu"
    /\ SetUpOrder[4] = "users" /\ SetUpOrder[5] = "icache" /\ SetUpOrder[6] = "irq"
    BY DEF SetUpOrder

-----------------------------------------------------------------------------
\* The invariant holds initially, and every step preserves it.

LEMMA InitInv == Init => CodecInv
<1> SUFFICES ASSUME Init PROVE CodecInv
    OBVIOUS
<1>1. Cardinality(InitMails(box)) = 0
    BY InitMailsEmpty DEF Init
<1>2. Types
    BY CodecAssumption DEF Init, Types, Labels, Resources, Reasons
<1>3. Flags
    BY DEF Init, Flags
<1>4. ReasonOK /\ HeldOK /\ PointerOK
    BY DEF Init, ReasonOK, HeldOK, PointerOK, Probing, Tearing, PoolThere
<1>5. HandshakeOK
    BY <1>1 DEF Init, HandshakeOK, Answers, Coming, Emptied, Acknowledged
<1>6. FirmwareOK /\ HandlerOK
    BY DEF Init, FirmwareOK, HandlerOK
<1> QED
    BY <1>2, <1>3, <1>4, <1>5, <1>6 DEF CodecInv

\* The interrupt handler and the firmware leave to the probing thread what is its own.
Beside ==
    \/ al5_hardirq_handler
    \/ ThreadStep
    \/ McuPing \/ McuConfigure \/ McuTrace \/ McuRaise

LEMMA BesideKeeps == Beside => UNCHANGED <<probeVars, twice>>
    BY DEF Beside, ThreadStep, al5_hardirq_handler, IrqEnter, read_mail, IrqReturn, IrqAstray,
       McuPing, McuConfigure, McuTrace, McuRaise, probeVars, histVars

\* Every variable keeps its type.
LEMMA Types_Next == CodecInv /\ Next => Types'
<1> SUFFICES ASSUME CodecInv, Next PROVE Types'
    OBVIOUS
<1> USE CodecAssumption DEF CodecInv, Types, Labels, Resources, Reasons, SetUpFailures,
       TearDowns, Module, Devm, Images, Visible, probeVars, rootVars, mcuVars, irqVars, histVars
<1>1. CASE al5e_init
    BY <1>1 DEF al5e_init
<1>2. CASE al5e_exit
    BY <1>2 DEF al5e_exit
<1>3. CASE ProbeEnter
    BY <1>3 DEF ProbeEnter
<1>4. CASE RemoveEnter
    BY <1>4 DEF RemoveEnter
<1>5. CASE SetUpStep
    <2>1. SetUpOrder[step] \in Resources
        BY SetUpOrderFacts
    <2>2. held' \in SUBSET Resources
        BY <1>5, <2>1 DEF SetUpStep
    <2>3. pc' \in Labels /\ step' \in 1..6
        BY <1>5, SetUpOrderFacts DEF SetUpStep
    <2>4. box' = box \/ box' = <<>>
        BY <1>5 DEF SetUpStep, al5_mcu_interface_create
    <2>5. UNCHANGED <<failedAt, root, queue, mcu, nb>>
        BY <1>5 DEF SetUpStep
    <2>6. box' \in Seq({"INIT", "TRACE"}) /\ Len(box') <= BoxCap
        <3>1. CASE box' = box
            BY <3>1
        <3>2. CASE box' = <<>>
            <4>1. Len(<<>>) = 0 /\ <<>> \in Seq({"INIT", "TRACE"})
                OBVIOUS
            <4> QED
                BY <3>2, <4>1
        <3> QED
            BY <2>4, <3>1, <3>2
    <2> QED
        BY <2>2, <2>3, <2>5, <2>6
<1>6. CASE SetUpFails
    BY <1>6 DEF SetUpFails, SetUpOrder
<1>7. CASE request_all_firmwares
    BY <1>7 DEF request_all_firmwares
<1>8. CASE BindRoot
    BY <1>8 DEF BindRoot
<1>9. CASE setup_and_start_mcu
    BY <1>9 DEF setup_and_start_mcu, reset_mcu, start_mcu
<1>10. CASE PopPing
    BY <1>10 DEF PopPing
<1>11. CASE AllocPool
    BY <1>11 DEF AllocPool
<1>12. CASE SendConfig
    BY <1>12 DEF SendConfig
<1>13. CASE PopAck
    BY <1>13 DEF PopAck
<1>14. CASE InitFails
    BY <1>14 DEF InitFails
<1>15. CASE InitFailsMsg
    BY <1>15 DEF InitFailsMsg
<1>16. CASE StopMcu
    BY <1>16 DEF StopMcu
<1>17. CASE UnbindRoot
    BY <1>17 DEF UnbindRoot
<1>18. CASE SetFirmwareReturns
    BY <1>18 DEF SetFirmwareReturns
<1>19. CASE al5e_setup_codec_cdev
    BY <1>19 DEF al5e_setup_codec_cdev
<1>20. CASE TearDownInterface
    BY <1>20 DEF TearDownInterface
<1>21. CASE al5_group_deinit
    BY <1>21 DEF al5_group_deinit
<1>22. CASE TearDownMemory
    BY <1>22 DEF TearDownMemory
<1>23. CASE RemoveCdev
    BY <1>23 DEF RemoveCdev
<1>24. CASE DevresIrq
    BY <1>24 DEF DevresIrq
<1>25. CASE DevresMemory
    BY <1>25 DEF DevresMemory
<1>26. CASE al5_hardirq_handler
    BY <1>26 DEF al5_hardirq_handler
<1>27. CASE IrqEnter
    BY <1>27 DEF IrqEnter
<1>28. CASE read_mail
    BY <1>28, InitMailsTail DEF read_mail, MailsLeft, handle_mail
<1>29. CASE IrqReturn
    BY <1>29 DEF IrqReturn, MailsLeft
<1>30. CASE IrqAstray
    BY <1>30 DEF IrqAstray
<1>31. CASE McuPing
    BY <1>31, InitMailsAppend DEF McuPing, McuPost
<1>32. CASE McuConfigure
    BY <1>32, InitMailsAppend DEF McuConfigure, McuPost
<1>33. CASE McuTrace
    BY <1>33, InitMailsAppend DEF McuTrace, McuPost
<1>34. CASE McuRaise
    BY <1>34 DEF McuRaise
<1> QED
    BY <1>1, <1>2, <1>3, <1>4, <1>5, <1>6, <1>7, <1>8, <1>9, <1>10, <1>11, <1>12, <1>13,
       <1>14, <1>15, <1>16, <1>17, <1>18, <1>19, <1>20, <1>21, <1>22, <1>23, <1>24, <1>25,
       <1>26, <1>27, <1>28, <1>29, <1>30, <1>31, <1>32, <1>33, <1>34 DEF Next, DriverStep,
       ThreadStep

\* The flags stay Boolean.
LEMMA Flags_Next == CodecInv /\ Next => Flags'
<1> SUFFICES ASSUME CodecInv, Next PROVE Flags'
    OBVIOUS
<1> USE CodecAssumption DEF CodecInv, Flags, probeVars, rootVars, mcuVars, irqVars, histVars
<1>1. CASE al5e_init
    BY <1>1 DEF al5e_init
<1>2. CASE al5e_exit
    BY <1>2 DEF al5e_exit
<1>3. CASE ProbeEnter
    BY <1>3 DEF ProbeEnter
<1>4. CASE RemoveEnter
    BY <1>4 DEF RemoveEnter
<1>5. CASE SetUpStep
    <2>1. cmd' \in BOOLEAN
        BY <1>5 DEF SetUpStep, al5_mcu_interface_create
    <2>2. bound' \in BOOLEAN
        BY <1>5 DEF SetUpStep
    <2>3. inherited' \in BOOLEAN
        <3>1. inherited' = IF SetUpOrder[step] = "mcu" THEN mcu \in {"boot", "ready"} ELSE inherited
            BY <1>5 DEF SetUpStep
        <3>2. CASE SetUpOrder[step] = "mcu" /\ mcu \in {"boot", "ready"}
            BY <3>1, <3>2
        <3>3. CASE SetUpOrder[step] = "mcu" /\ mcu \notin {"boot", "ready"}
            BY <3>1, <3>3
        <3>4. CASE SetUpOrder[step] # "mcu"
            BY <3>1, <3>4
        <3> QED
            BY <3>2, <3>3, <3>4
    <2>4. UNCHANGED <<poolPtr, raise, irqSta, wake, reading, abandoned, stale, twice>>
        BY <1>5 DEF SetUpStep
    <2> QED
        BY <2>1, <2>2, <2>3, <2>4
<1>6. CASE SetUpFails
    BY <1>6 DEF SetUpFails, SetUpOrder
<1>7. CASE request_all_firmwares
    BY <1>7 DEF request_all_firmwares
<1>8. CASE BindRoot
    BY <1>8 DEF BindRoot
<1>9. CASE setup_and_start_mcu
    BY <1>9 DEF setup_and_start_mcu, reset_mcu, start_mcu
<1>10. CASE PopPing
    BY <1>10 DEF PopPing
<1>11. CASE AllocPool
    BY <1>11 DEF AllocPool
<1>12. CASE SendConfig
    BY <1>12 DEF SendConfig
<1>13. CASE PopAck
    BY <1>13 DEF PopAck
<1>14. CASE InitFails
    BY <1>14 DEF InitFails
<1>15. CASE InitFailsMsg
    BY <1>15 DEF InitFailsMsg
<1>16. CASE StopMcu
    BY <1>16 DEF StopMcu
<1>17. CASE UnbindRoot
    BY <1>17 DEF UnbindRoot
<1>18. CASE SetFirmwareReturns
    BY <1>18 DEF SetFirmwareReturns
<1>19. CASE al5e_setup_codec_cdev
    BY <1>19 DEF al5e_setup_codec_cdev
<1>20. CASE TearDownInterface
    BY <1>20 DEF TearDownInterface
<1>21. CASE al5_group_deinit
    BY <1>21 DEF al5_group_deinit
<1>22. CASE TearDownMemory
    BY <1>22 DEF TearDownMemory
<1>23. CASE RemoveCdev
    BY <1>23 DEF RemoveCdev
<1>24. CASE DevresIrq
    BY <1>24 DEF DevresIrq
<1>25. CASE DevresMemory
    BY <1>25 DEF DevresMemory
<1>26. CASE al5_hardirq_handler
    BY <1>26 DEF al5_hardirq_handler
<1>27. CASE IrqEnter
    BY <1>27 DEF IrqEnter
<1>28. CASE read_mail
    BY <1>28 DEF read_mail, MailsLeft, handle_mail
<1>29. CASE IrqReturn
    BY <1>29 DEF IrqReturn, MailsLeft
<1>30. CASE IrqAstray
    BY <1>30 DEF IrqAstray
<1>31. CASE McuPing
    BY <1>31 DEF McuPing, McuPost
<1>32. CASE McuConfigure
    BY <1>32 DEF McuConfigure, McuPost
<1>33. CASE McuTrace
    BY <1>33 DEF McuTrace, McuPost
<1>34. CASE McuRaise
    BY <1>34 DEF McuRaise
<1> QED
    BY <1>1, <1>2, <1>3, <1>4, <1>5, <1>6, <1>7, <1>8, <1>9, <1>10, <1>11, <1>12, <1>13,
       <1>14, <1>15, <1>16, <1>17, <1>18, <1>19, <1>20, <1>21, <1>22, <1>23, <1>24, <1>25,
       <1>26, <1>27, <1>28, <1>29, <1>30, <1>31, <1>32, <1>33, <1>34 DEF Next, DriverStep,
       ThreadStep

\* The reason the device goes down is set where it goes down.
LEMMA ReasonOK_Next == CodecInv /\ Next => ReasonOK'
<1> SUFFICES ASSUME CodecInv, Next PROVE ReasonOK'
    OBVIOUS
<1> USE CodecAssumption DEF CodecInv, Types, Labels, ReasonOK, Probing, Tearing,
       SetUpFailures, TearDowns, Reasons, probeVars, rootVars, mcuVars, irqVars, histVars
<1>1. CASE al5e_init
    BY <1>1 DEF al5e_init
<1>2. CASE al5e_exit
    BY <1>2 DEF al5e_exit
<1>3. CASE ProbeEnter
    BY <1>3 DEF ProbeEnter
<1>4. CASE RemoveEnter
    BY <1>4 DEF RemoveEnter
<1>5. CASE SetUpStep
    BY <1>5, SetUpOrderFacts DEF SetUpStep, al5_mcu_interface_create
<1>6. CASE SetUpFails
    BY <1>6 DEF SetUpFails, SetUpOrder
<1>7. CASE request_all_firmwares
    BY <1>7 DEF request_all_firmwares
<1>8. CASE BindRoot
    BY <1>8 DEF BindRoot
<1>9. CASE setup_and_start_mcu
    BY <1>9 DEF setup_and_start_mcu, reset_mcu, start_mcu
<1>10. CASE PopPing
    BY <1>10 DEF PopPing
<1>11. CASE AllocPool
    BY <1>11 DEF AllocPool
<1>12. CASE SendConfig
    BY <1>12 DEF SendConfig
<1>13. CASE PopAck
    BY <1>13 DEF PopAck
<1>14. CASE InitFails
    BY <1>14 DEF InitFails
<1>15. CASE InitFailsMsg
    BY <1>15 DEF InitFailsMsg
<1>16. CASE StopMcu
    BY <1>16 DEF StopMcu
<1>17. CASE UnbindRoot
    BY <1>17 DEF UnbindRoot
<1>18. CASE SetFirmwareReturns
    BY <1>18 DEF SetFirmwareReturns
<1>19. CASE al5e_setup_codec_cdev
    BY <1>19 DEF al5e_setup_codec_cdev
<1>20. CASE TearDownInterface
    BY <1>20 DEF TearDownInterface
<1>21. CASE al5_group_deinit
    BY <1>21 DEF al5_group_deinit
<1>22. CASE TearDownMemory
    BY <1>22 DEF TearDownMemory
<1>23. CASE RemoveCdev
    BY <1>23 DEF RemoveCdev
<1>24. CASE DevresIrq
    BY <1>24 DEF DevresIrq
<1>25. CASE DevresMemory
    BY <1>25 DEF DevresMemory
<1>26. CASE Beside
    BY <1>26, BesideKeeps
<1> QED
    BY <1>1, <1>2, <1>3, <1>4, <1>5, <1>6, <1>7, <1>8, <1>9, <1>10, <1>11, <1>12, <1>13,
       <1>14, <1>15, <1>16, <1>17, <1>18, <1>19, <1>20, <1>21, <1>22, <1>23, <1>24, <1>25,
       <1>26 DEF Next, DriverStep, Beside

\* The table of resources: each step takes or gives back what the next label says.
LEMMA HeldOK_Next == CodecInv /\ Next => HeldOK'
<1> SUFFICES ASSUME CodecInv, Next PROVE HeldOK'
    OBVIOUS
<1> USE CodecAssumption DEF CodecInv, Types, Labels, ReasonOK, Probing, Tearing,
       SetUpFailures, TearDowns, Reasons, HeldOK, SetUpSet, Module, Devm, Images, Visible,
       PoolThere, SetUpOrder, probeVars, rootVars, mcuVars, irqVars, histVars
<1>1. CASE al5e_init
    BY <1>1 DEF al5e_init
<1>2. CASE al5e_exit
    BY <1>2 DEF al5e_exit
<1>3. CASE ProbeEnter
    BY <1>3 DEF ProbeEnter
<1>4. CASE RemoveEnter
    BY <1>4 DEF RemoveEnter
<1>5. CASE SetUpStep
    BY <1>5, SetUpOrderFacts DEF SetUpStep, al5_mcu_interface_create
<1>6. CASE SetUpFails
    BY <1>6 DEF SetUpFails, SetUpOrder
<1>7. CASE request_all_firmwares
    BY <1>7 DEF request_all_firmwares
<1>8. CASE BindRoot
    BY <1>8 DEF BindRoot
<1>9. CASE setup_and_start_mcu
    BY <1>9 DEF setup_and_start_mcu, reset_mcu, start_mcu
<1>10. CASE PopPing
    BY <1>10 DEF PopPing
<1>11. CASE AllocPool
    BY <1>11 DEF AllocPool
<1>12. CASE SendConfig
    BY <1>12 DEF SendConfig
<1>13. CASE PopAck
    BY <1>13 DEF PopAck
<1>14. CASE InitFails
    BY <1>14 DEF InitFails
<1>15. CASE InitFailsMsg
    BY <1>15 DEF InitFailsMsg
<1>16. CASE StopMcu
    BY <1>16 DEF StopMcu
<1>17. CASE UnbindRoot
    BY <1>17 DEF UnbindRoot
<1>18. CASE SetFirmwareReturns
    BY <1>18 DEF SetFirmwareReturns
<1>19. CASE al5e_setup_codec_cdev
    BY <1>19 DEF al5e_setup_codec_cdev
<1>20. CASE TearDownInterface
    BY <1>20 DEF TearDownInterface
<1>21. CASE al5_group_deinit
    BY <1>21 DEF al5_group_deinit
<1>22. CASE TearDownMemory
    BY <1>22 DEF TearDownMemory
<1>23. CASE RemoveCdev
    BY <1>23 DEF RemoveCdev
<1>24. CASE DevresIrq
    BY <1>24 DEF DevresIrq
<1>25. CASE DevresMemory
    BY <1>25 DEF DevresMemory
<1>26. CASE Beside
    BY <1>26, BesideKeeps
<1> QED
    BY <1>1, <1>2, <1>3, <1>4, <1>5, <1>6, <1>7, <1>8, <1>9, <1>10, <1>11, <1>12, <1>13,
       <1>14, <1>15, <1>16, <1>17, <1>18, <1>19, <1>20, <1>21, <1>22, <1>23, <1>24, <1>25,
       <1>26 DEF Next, DriverStep, Beside

\* codec->suballoc_buf follows the memory, so nothing is freed twice.
LEMMA PointerOK_Next == CodecInv /\ Next => PointerOK'
<1> SUFFICES ASSUME CodecInv, Next PROVE PointerOK'
    OBVIOUS
<1> USE CodecAssumption DEF CodecInv, Types, ReasonOK, Probing, Tearing, SetUpFailures,
       TearDowns, HeldOK, PoolThere, PointerOK, probeVars, rootVars, mcuVars, irqVars, histVars
<1>1. CASE al5e_init
    BY <1>1 DEF al5e_init
<1>2. CASE al5e_exit
    BY <1>2 DEF al5e_exit
<1>3. CASE ProbeEnter
    BY <1>3 DEF ProbeEnter
<1>4. CASE RemoveEnter
    BY <1>4 DEF RemoveEnter
<1>5. CASE SetUpStep
    BY <1>5, SetUpOrderFacts DEF SetUpStep, al5_mcu_interface_create
<1>6. CASE SetUpFails
    BY <1>6 DEF SetUpFails, SetUpOrder
<1>7. CASE request_all_firmwares
    BY <1>7 DEF request_all_firmwares
<1>8. CASE BindRoot
    BY <1>8 DEF BindRoot
<1>9. CASE setup_and_start_mcu
    BY <1>9 DEF setup_and_start_mcu, reset_mcu, start_mcu
<1>10. CASE PopPing
    BY <1>10 DEF PopPing
<1>11. CASE AllocPool
    BY <1>11 DEF AllocPool
<1>12. CASE SendConfig
    BY <1>12 DEF SendConfig
<1>13. CASE PopAck
    BY <1>13 DEF PopAck
<1>14. CASE InitFails
    BY <1>14 DEF InitFails
<1>15. CASE InitFailsMsg
    BY <1>15 DEF InitFailsMsg
<1>16. CASE StopMcu
    BY <1>16 DEF StopMcu
<1>17. CASE UnbindRoot
    BY <1>17 DEF UnbindRoot
<1>18. CASE SetFirmwareReturns
    BY <1>18 DEF SetFirmwareReturns
<1>19. CASE al5e_setup_codec_cdev
    BY <1>19 DEF al5e_setup_codec_cdev
<1>20. CASE TearDownInterface
    BY <1>20 DEF TearDownInterface
<1>21. CASE al5_group_deinit
    BY <1>21 DEF al5_group_deinit
<1>22. CASE TearDownMemory
    BY <1>22 DEF TearDownMemory
<1>23. CASE RemoveCdev
    BY <1>23 DEF RemoveCdev
<1>24. CASE DevresIrq
    BY <1>24 DEF DevresIrq
<1>25. CASE DevresMemory
    BY <1>25 DEF DevresMemory
<1>26. CASE Beside
    <2>1. UNCHANGED <<pc, failedAt, poolPtr, twice>>
        BY <1>26, BesideKeeps
    <2>2. PoolThere' = PoolThere
        BY <2>1
    <2> HIDE DEF PoolThere
    <2> QED
        BY <2>1, <2>2
<1> QED
    BY <1>1, <1>2, <1>3, <1>4, <1>5, <1>6, <1>7, <1>8, <1>9, <1>10, <1>11, <1>12, <1>13,
       <1>14, <1>15, <1>16, <1>17, <1>18, <1>19, <1>20, <1>21, <1>22, <1>23, <1>24, <1>25,
       <1>26 DEF Next, DriverStep, Beside

\* The answers to INIT.  Only the firmware adds to them, what it has posted it no longer
\* owes, and every wait of init_mcu takes one.
LEMMA HandshakeOK_Next == CodecInv /\ Next => HandshakeOK'
<1> SUFFICES ASSUME CodecInv, Next PROVE HandshakeOK'
    OBVIOUS
<1> USE CodecAssumption DEF CodecInv, Types, HandlerOK, ReasonOK, Probing, Tearing, TearDowns,
       HandshakeOK, Answers, Coming, Emptied, Acknowledged, probeVars, rootVars, mcuVars, irqVars,
       histVars
<1>0. Cardinality(InitMails(box)) \in Nat /\ queue \in Nat
    BY InitMailsFinite DEF Types
<1>1. CASE al5e_init
    BY <1>1, <1>0 DEF al5e_init
<1>2. CASE al5e_exit
    BY <1>2, <1>0 DEF al5e_exit
<1>3. CASE ProbeEnter
    BY <1>3, <1>0 DEF ProbeEnter
<1>4. CASE RemoveEnter
    BY <1>4, <1>0 DEF RemoveEnter
<1>5. CASE SetUpStep
    <2>1. CASE step = 3
        <3>1. box' = <<>> /\ ~cmd' /\ (~inherited' => mcu \notin {"boot", "ready"})
            BY <1>5, <2>1, SetUpOrderFacts DEF SetUpStep, al5_mcu_interface_create
        <3>2. Cardinality(InitMails(box')) = 0
            BY <3>1, InitMailsEmpty
        <3>3. pc' = "set_up" /\ step' = 4 /\ UNCHANGED <<root, queue, mcu, failedAt>>
            BY <1>5, <2>1, SetUpOrderFacts DEF SetUpStep
        <3>4. queue = 0 /\ root = "none"
            BY <1>5 DEF SetUpStep
        <3>5. /\ Answers' \in Nat
              /\ mcu \in {"boot", "ready"} => Answers' <= 1
              /\ mcu \notin {"boot", "ready"} => Answers' = 0
            <4> HIDE DEF CodecInv
            <4> QED
                BY <3>1, <3>2, <3>3, <3>4
        <3> HIDE DEF Answers, CodecInv
        <3> QED
            BY <3>1, <3>3, <3>4, <3>5
    <2>2. CASE step # 3
        <3>1. UNCHANGED <<box, cmd, inherited, root, queue, mcu, failedAt>>
            BY <1>5, <2>2, SetUpOrderFacts DEF SetUpStep
        <3>2. pc' = (IF step = 6 THEN "request_fw" ELSE "set_up")
              /\ step' = (IF step = 6 THEN 1 ELSE step + 1)
            BY <1>5, SetUpOrderFacts DEF SetUpStep
        <3> QED
            BY <1>0, <1>5, <2>2, <3>1, <3>2 DEF SetUpStep
    <2> QED
        BY <2>1, <2>2
<1>6. CASE SetUpFails
    BY <1>6, <1>0 DEF SetUpFails, SetUpOrder
<1>7. CASE request_all_firmwares
    BY <1>7, <1>0 DEF request_all_firmwares
<1>8. CASE BindRoot
    BY <1>8, <1>0 DEF BindRoot
<1>9. CASE setup_and_start_mcu
    <2>1. /\ pc = "start" /\ pc' \in {"ping", "release_fw"}
          /\ pc' = "ping" => mcu' = "boot"
          /\ pc' = "release_fw" => mcu' = "asleep" /\ failedAt' = "start"
          /\ UNCHANGED <<queue, root, cmd, box, inherited>>
        BY <1>9 DEF setup_and_start_mcu, start_mcu
    <2>2. Coming' = IF pc' = "ping" THEN 1 ELSE 0
        BY <2>1
    <2>3. Answers' = queue + Cardinality(InitMails(box)) + Coming'
        BY <2>1
    <2> QED
        BY <1>0, <2>1, <2>2, <2>3
<1>10. CASE PopPing
    BY <1>10, <1>0 DEF PopPing
<1>11. CASE AllocPool
    BY <1>11, <1>0 DEF AllocPool
<1>12. CASE SendConfig
    BY <1>12, <1>0 DEF SendConfig
<1>13. CASE PopAck
    BY <1>13, <1>0 DEF PopAck
<1>14. CASE InitFails
    BY <1>14, <1>0 DEF InitFails
<1>15. CASE InitFailsMsg
    BY <1>15, <1>0 DEF InitFailsMsg
<1>16. CASE StopMcu
    BY <1>16, <1>0 DEF StopMcu
<1>17. CASE UnbindRoot
    BY <1>17, <1>0 DEF UnbindRoot
<1>18. CASE SetFirmwareReturns
    BY <1>18, <1>0 DEF SetFirmwareReturns
<1>19. CASE al5e_setup_codec_cdev
    BY <1>19, <1>0 DEF al5e_setup_codec_cdev
<1>20. CASE TearDownInterface
    BY <1>20, <1>0 DEF TearDownInterface
<1>21. CASE al5_group_deinit
    BY <1>21, <1>0 DEF al5_group_deinit
<1>22. CASE TearDownMemory
    BY <1>22, <1>0 DEF TearDownMemory
<1>23. CASE RemoveCdev
    BY <1>23, <1>0 DEF RemoveCdev
<1>24. CASE DevresIrq
    BY <1>24, <1>0 DEF DevresIrq
<1>25. CASE DevresMemory
    BY <1>25, <1>0 DEF DevresMemory
<1>26. CASE al5_hardirq_handler
    BY <1>26, <1>0 DEF al5_hardirq_handler
<1>27. CASE IrqEnter
    BY <1>27, <1>0 DEF IrqEnter
<1>28. CASE read_mail
    <2>1. /\ box # <<>> /\ box' = Tail(box)
          /\ handle_mail(Head(box))
          /\ UNCHANGED <<pc, step, failedAt, root, mcu, cmd, inherited>>
        BY <1>28 DEF read_mail, MailsLeft
    <2>2. Head(box) \in {"INIT", "TRACE"} /\ box' \in Seq({"INIT", "TRACE"})
        BY <2>1, InitMailsTail
    <2>3. Cardinality(InitMails(box'))
            = Cardinality(InitMails(box)) - (IF Head(box) = "INIT" THEN 1 ELSE 0)
        BY <2>1, InitMailsTail
    <2>4. Cardinality(InitMails(box')) \in Nat
        BY <2>2, InitMailsFinite
    <2>5. CASE Head(box) = "TRACE"
        BY <1>0, <2>1, <2>3, <2>4, <2>5 DEF handle_mail
    <2>6. CASE Head(box) = "INIT"
        <3>1. queue' = IF bound /\ root = "live" THEN queue + 1 ELSE queue
            BY <2>1, <2>6 DEF handle_mail
        <3>2. Coming' = Coming
            BY <2>1
        <3>3. Coming \in Nat
            OBVIOUS
        <3>4. /\ Answers' = IF bound /\ root = "live" THEN Answers ELSE Answers - 1
              /\ Answers' \in Nat /\ Answers \in Nat
            <4> HIDE DEF CodecInv, Coming
            <4> QED
                BY <1>0, <2>3, <2>4, <2>6, <3>1, <3>2, <3>3
        <3> HIDE DEF Answers
        <3> QED
            BY <2>1, <3>1, <3>4
    <2> QED
        BY <2>2, <2>5, <2>6
<1>29. CASE IrqReturn
    BY <1>29, <1>0 DEF IrqReturn, MailsLeft
<1>30. CASE IrqAstray
    BY <1>30, <1>0 DEF IrqAstray
<1>31. CASE McuPing
    BY <1>31, <1>0, InitMailsAppend DEF McuPing, McuPost
<1>32. CASE McuConfigure
    BY <1>32, <1>0, InitMailsAppend DEF McuConfigure, McuPost
<1>33. CASE McuTrace
    <2>1. /\ box' = Append(box, "TRACE")
          /\ UNCHANGED <<pc, step, failedAt, root, queue, mcu, cmd, inherited>>
        BY <1>33 DEF McuTrace, McuPost
    <2>2. Cardinality(InitMails(box')) = Cardinality(InitMails(box))
        BY <1>0, <2>1, InitMailsAppend
    <2> QED
        BY <1>0, <2>1, <2>2
<1>34. CASE McuRaise
    BY <1>34, <1>0 DEF McuRaise
<1> QED
    BY <1>1, <1>2, <1>3, <1>4, <1>5, <1>6, <1>7, <1>8, <1>9, <1>10, <1>11, <1>12, <1>13,
       <1>14, <1>15, <1>16, <1>17, <1>18, <1>19, <1>20, <1>21, <1>22, <1>23, <1>24, <1>25,
       <1>26, <1>27, <1>28, <1>29, <1>30, <1>31, <1>32, <1>33, <1>34 DEF Next, DriverStep,
       ThreadStep

\* A firmware that is not stopped is remembered as abandoned.
LEMMA FirmwareOK_Next == CodecInv /\ Next => FirmwareOK'
<1> SUFFICES ASSUME CodecInv, Next PROVE FirmwareOK'
    OBVIOUS
<1> USE CodecAssumption DEF CodecInv, Types, ReasonOK, Probing, Tearing, TearDowns,
       HandshakeOK, FirmwareOK, probeVars, rootVars, mcuVars, irqVars, histVars
<1>1. CASE al5e_init
    BY <1>1 DEF al5e_init
<1>2. CASE al5e_exit
    BY <1>2 DEF al5e_exit
<1>3. CASE ProbeEnter
    BY <1>3 DEF ProbeEnter
<1>4. CASE RemoveEnter
    BY <1>4 DEF RemoveEnter
<1>5. CASE SetUpStep
    BY <1>5, SetUpOrderFacts DEF SetUpStep, al5_mcu_interface_create
<1>6. CASE SetUpFails
    BY <1>6 DEF SetUpFails, SetUpOrder
<1>7. CASE request_all_firmwares
    BY <1>7 DEF request_all_firmwares
<1>8. CASE BindRoot
    BY <1>8 DEF BindRoot
<1>9. CASE setup_and_start_mcu
    BY <1>9 DEF setup_and_start_mcu, reset_mcu, start_mcu
<1>10. CASE PopPing
    BY <1>10 DEF PopPing
<1>11. CASE AllocPool
    BY <1>11 DEF AllocPool
<1>12. CASE SendConfig
    BY <1>12 DEF SendConfig
<1>13. CASE PopAck
    BY <1>13 DEF PopAck
<1>14. CASE InitFails
    BY <1>14 DEF InitFails
<1>15. CASE InitFailsMsg
    BY <1>15 DEF InitFailsMsg
<1>16. CASE StopMcu
    BY <1>16 DEF StopMcu
<1>17. CASE UnbindRoot
    BY <1>17 DEF UnbindRoot
<1>18. CASE SetFirmwareReturns
    BY <1>18 DEF SetFirmwareReturns
<1>19. CASE al5e_setup_codec_cdev
    BY <1>19 DEF al5e_setup_codec_cdev
<1>20. CASE TearDownInterface
    BY <1>20 DEF TearDownInterface
<1>21. CASE al5_group_deinit
    BY <1>21 DEF al5_group_deinit
<1>22. CASE TearDownMemory
    BY <1>22 DEF TearDownMemory
<1>23. CASE RemoveCdev
    BY <1>23 DEF RemoveCdev
<1>24. CASE DevresIrq
    BY <1>24 DEF DevresIrq
<1>25. CASE DevresMemory
    BY <1>25 DEF DevresMemory
<1>26. CASE al5_hardirq_handler
    BY <1>26 DEF al5_hardirq_handler
<1>27. CASE IrqEnter
    BY <1>27 DEF IrqEnter
<1>28. CASE read_mail
    BY <1>28 DEF read_mail, MailsLeft, handle_mail
<1>29. CASE IrqReturn
    BY <1>29 DEF IrqReturn, MailsLeft
<1>30. CASE IrqAstray
    BY <1>30 DEF IrqAstray
<1>31. CASE McuPing
    BY <1>31 DEF McuPing, McuPost
<1>32. CASE McuConfigure
    BY <1>32 DEF McuConfigure, McuPost
<1>33. CASE McuTrace
    BY <1>33 DEF McuTrace, McuPost
<1>34. CASE McuRaise
    BY <1>34 DEF McuRaise
<1> QED
    BY <1>1, <1>2, <1>3, <1>4, <1>5, <1>6, <1>7, <1>8, <1>9, <1>10, <1>11, <1>12, <1>13,
       <1>14, <1>15, <1>16, <1>17, <1>18, <1>19, <1>20, <1>21, <1>22, <1>23, <1>24, <1>25,
       <1>26, <1>27, <1>28, <1>29, <1>30, <1>31, <1>32, <1>33, <1>34 DEF Next, DriverStep,
       ThreadStep

\* The handler and what it goes by.
LEMMA HandlerOK_Next == CodecInv /\ Next => HandlerOK'
<1> SUFFICES ASSUME CodecInv, Next PROVE HandlerOK'
    OBVIOUS
<1> USE CodecAssumption DEF CodecInv, Types, ReasonOK, Probing, Tearing, TearDowns,
       SetUpFailures, HeldOK, HandlerOK, Labels, Reasons, SetUpSet, Module, Devm, Images, Visible,
       PoolThere, probeVars, rootVars, mcuVars, irqVars, histVars
<1>1. CASE al5e_init
    BY <1>1 DEF al5e_init
<1>2. CASE al5e_exit
    BY <1>2 DEF al5e_exit
<1>3. CASE ProbeEnter
    BY <1>3 DEF ProbeEnter
<1>4. CASE RemoveEnter
    BY <1>4 DEF RemoveEnter
<1>5. CASE SetUpStep
    BY <1>5, SetUpOrderFacts DEF SetUpStep, al5_mcu_interface_create
<1>6. CASE SetUpFails
    BY <1>6 DEF SetUpFails, SetUpOrder
<1>7. CASE request_all_firmwares
    BY <1>7 DEF request_all_firmwares
<1>8. CASE BindRoot
    BY <1>8 DEF BindRoot
<1>9. CASE setup_and_start_mcu
    BY <1>9 DEF setup_and_start_mcu, reset_mcu, start_mcu
<1>10. CASE PopPing
    BY <1>10 DEF PopPing
<1>11. CASE AllocPool
    BY <1>11 DEF AllocPool
<1>12. CASE SendConfig
    BY <1>12 DEF SendConfig
<1>13. CASE PopAck
    BY <1>13 DEF PopAck
<1>14. CASE InitFails
    BY <1>14 DEF InitFails
<1>15. CASE InitFailsMsg
    BY <1>15 DEF InitFailsMsg
<1>16. CASE StopMcu
    BY <1>16 DEF StopMcu
<1>17. CASE UnbindRoot
    BY <1>17 DEF UnbindRoot
<1>18. CASE SetFirmwareReturns
    BY <1>18 DEF SetFirmwareReturns
<1>19. CASE al5e_setup_codec_cdev
    BY <1>19 DEF al5e_setup_codec_cdev
<1>20. CASE TearDownInterface
    BY <1>20 DEF TearDownInterface
<1>21. CASE al5_group_deinit
    BY <1>21 DEF al5_group_deinit
<1>22. CASE TearDownMemory
    BY <1>22 DEF TearDownMemory
<1>23. CASE RemoveCdev
    BY <1>23 DEF RemoveCdev
<1>24. CASE DevresIrq
    BY <1>24 DEF DevresIrq
<1>25. CASE DevresMemory
    BY <1>25 DEF DevresMemory
<1>26. CASE al5_hardirq_handler
    BY <1>26 DEF al5_hardirq_handler
<1>27. CASE IrqEnter
    BY <1>27 DEF IrqEnter
<1>28. CASE read_mail
    <2>1. UNCHANGED <<pc, step, held, failedAt, root, bound, wake, reading>>
        BY <1>28 DEF read_mail
    <2>2. "irq" \in held
        BY <1>28 DEF read_mail
    <2>3. failedAt \notin TearDowns => "users" \in held /\ ~(bound /\ root = "gone")
        BY <2>2 DEF HandshakeOK
    <2>4. stale' => stale \/ "users" \notin held \/ (bound /\ root = "gone")
        BY <1>28 DEF read_mail, handle_mail
    <2> QED
        BY <2>1, <2>3, <2>4
<1>29. CASE IrqReturn
    BY <1>29 DEF IrqReturn, MailsLeft
<1>30. CASE IrqAstray
    BY <1>30 DEF IrqAstray
<1>31. CASE McuPing
    BY <1>31 DEF McuPing, McuPost
<1>32. CASE McuConfigure
    BY <1>32 DEF McuConfigure, McuPost
<1>33. CASE McuTrace
    BY <1>33 DEF McuTrace, McuPost
<1>34. CASE McuRaise
    BY <1>34 DEF McuRaise
<1> QED
    BY <1>1, <1>2, <1>3, <1>4, <1>5, <1>6, <1>7, <1>8, <1>9, <1>10, <1>11, <1>12, <1>13,
       <1>14, <1>15, <1>16, <1>17, <1>18, <1>19, <1>20, <1>21, <1>22, <1>23, <1>24, <1>25,
       <1>26, <1>27, <1>28, <1>29, <1>30, <1>31, <1>32, <1>33, <1>34 DEF Next, DriverStep,
       ThreadStep

LEMMA StutterInv == CodecInv /\ UNCHANGED vars => CodecInv'
<1> SUFFICES ASSUME CodecInv, UNCHANGED vars PROVE CodecInv'
    OBVIOUS
<1> USE DEF vars, probeVars, rootVars, mcuVars, irqVars, histVars
<1>1. Types'
    BY DEF CodecInv, Types
<1>2. Flags'
    BY DEF CodecInv, Flags
<1>3. ReasonOK'
    BY DEF CodecInv, ReasonOK
<1>4. PoolThere' = PoolThere
    BY DEF PoolThere
<1>5. HeldOK'
    BY <1>4 DEF CodecInv, HeldOK
<1>6. PointerOK'
    BY <1>4 DEF CodecInv, PointerOK
<1>7. HandshakeOK'
    BY DEF CodecInv, HandshakeOK, Answers, Coming, Emptied, Acknowledged
<1>8. FirmwareOK'
    BY DEF CodecInv, FirmwareOK
<1>9. HandlerOK'
    BY DEF CodecInv, HandlerOK
<1> QED
    BY <1>1, <1>2, <1>3, <1>5, <1>6, <1>7, <1>8, <1>9 DEF CodecInv

\* The inductive invariant: what is held at each label, how many answers are on
\* their way, and which firmware runs.
THEOREM CodecInvariant == Spec => []CodecInv
<1>1. CodecInv /\ [Next]_vars => CodecInv'
    BY Types_Next, Flags_Next, ReasonOK_Next, HeldOK_Next, PointerOK_Next, HandshakeOK_Next,
       FirmwareOK_Next, HandlerOK_Next, StutterInv DEF CodecInv
<1> QED
    BY InitInv, <1>1, PTL DEF Spec

-----------------------------------------------------------------------------
\* What follows from it.

\* Types: the root user's queue has at most two mails, although a firmware that
\* stop_mcu gave up on may answer as well; no mail is written beyond the mailbox, and
\* al5_group_read_mails stops at its bound.
THEOREM TypeCorrect == Spec => []TypeOK
<1>1. CodecInv => TypeOK
    <2> SUFFICES ASSUME CodecInv PROVE TypeOK
        OBVIOUS
    <2>1. step \in 1..Len(SetUpOrder)
        BY SetUpOrderFacts DEF CodecInv, Types
    <2>2. Cardinality(InitMails(box)) \in Nat /\ queue \in Nat /\ Coming \in Nat /\ Answers <= 2
        BY InitMailsFinite DEF CodecInv, Types, HandshakeOK, Coming
    <2>3. queue \in 0..2
        BY <2>2 DEF Answers
    <2>4. {bound, poolPtr, cmd, raise, irqSta, wake, reading, inherited, abandoned, stale, twice}
             \subseteq BOOLEAN
        BY DEF CodecInv, Flags
    <2> QED
        BY <2>1, <2>3, <2>4 DEF CodecInv, Types, Resources, TypeOK
<1> QED
    BY CodecInvariant, <1>1, PTL

\* Whatever fails in al5_codec_set_up, al5_codec_set_firmware or the character
\* device, and after a removal, everything is given back, and once, but for the three
\* failures that NothingLeft leaves out.
THEOREM GivesEverythingBack == Spec => []NothingLeft
<1>1. CodecInv => NothingLeft
    BY DEF CodecInv, Types, ReasonOK, HeldOK, PointerOK, NothingLeft, BoundSet, SetUpSet, PoolThere,
       Probing, Tearing, Devm, Images, Visible, Module
<1> QED
    BY CodecInvariant, <1>1, PTL

\* The handshake of init_mcu is sound: a device that appears has a firmware that
\* acknowledged its configuration, and no answer is left, unless an abandoned firmware
\* was still about to answer when the mailboxes were emptied.
THEOREM AppearsConfigured == Spec => []VisibleOnlyConfigured
<1>1. CodecInv => VisibleOnlyConfigured
    <2> SUFFICES ASSUME CodecInv, pc \in {"cdev", "bound"}, ~inherited
                 PROVE  /\ mcu = "configured" /\ queue = 0 /\ ~bound
                        /\ \A i \in 1..Len(box) : box[i] # "INIT"
        BY DEF VisibleOnlyConfigured
    <2>1. /\ Cardinality(InitMails(box)) \in Nat /\ IsFiniteSet(InitMails(box))
          /\ queue \in Nat /\ Coming \in Nat
        BY InitMailsFinite DEF CodecInv, Types, Coming
    <2>2. Answers = 0 /\ mcu = "configured" /\ ~bound
        BY DEF CodecInv, HandshakeOK, Acknowledged, HandlerOK
    <2>3. queue = 0 /\ Cardinality(InitMails(box)) = 0
        BY <2>1, <2>2 DEF Answers
    <2>4. InitMails(box) = {}
        BY <2>1, <2>3, FS_EmptySet
    <2> QED
        BY <2>2, <2>3, <2>4 DEF InitMails
<1> QED
    BY CodecInvariant, <1>1, PTL

\* No firmware that this probe started runs from memory that was given back.
THEOREM FirmwareKeepsItsMemory == Spec => []McuMemoryAlive
<1>1. CodecInv => McuMemoryAlive
    BY DEF CodecInv, Types, ReasonOK, HeldOK, HandshakeOK, FirmwareOK, McuMemoryAlive, SetUpSet,
       PoolThere, Probing, Tearing, Devm, Images, Visible, Module
<1> QED
    BY CodecInvariant, <1>1, PTL

\* Up to al5_codec_tear_down the interrupt handler uses nothing that is not there,
\* whenever an interrupt comes.
THEOREM HandlerIsSafe == Spec => []HandlerFindsAll
<1>1. CodecInv => HandlerFindsAll
    BY DEF CodecInv, HandlerOK, HandlerFindsAll, TearDowns
<1> QED
    BY CodecInvariant, <1>1, PTL

=============================================================================
