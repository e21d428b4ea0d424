------------------------------- MODULE Codec --------------------------------
(***************************************************************************)
(* The life of a device: the module is loaded, the driver is probed        *)
(* (al5_codec_set_up, al5_codec_set_firmware, the character device), the   *)
(* MCU is booted and told of its memory, and all of it is undone when a    *)
(* step fails or the device is removed.  Al_enc.c is the reference;        *)
(* al_dec.c has the same functions.                                        *)
(*                                                                         *)
(* Beside the thread that probes run the MCU, which posts mails and raises *)
(* interrupts, and the two halves of the interrupt handler.  The group is  *)
(* used by one user here, the root of al5_codec_set_firmware; clients are  *)
(* in module Users.  A resource is held from its allocation to its release;*)
(* those of devm_ functions are released by the kernel after the probe     *)
(* failed or the device was removed, the last one first.                   *)
(***************************************************************************)
EXTENDS Naturals, Sequences

CONSTANTS
    MaxMsg,          \* MAX_MAILBOX_MSG: mails read at one interrupt
    BoxCap,          \* mails the status mailbox has room for
    MaxTraces        \* traces the firmware sends, for each probe

ASSUME CodecAssumption ==
    /\ BoxCap \in Nat \ {0}
    /\ MaxMsg \in Nat /\ BoxCap <= MaxMsg
    /\ MaxTraces \in Nat

VARIABLES
    pc,          \* where the thread that probes or removes is
    step,        \* in al5_codec_set_up: the resource that is next
    held,        \* resources that are held
    failedAt,    \* why the device goes down: the step that failed, or removed
    poolPtr,     \* codec->suballoc_buf is not NULL
    root,        \* the user on the stack of al5_codec_set_firmware
    bound,       \* group->users[0] points to it
    queue,       \* mails in its queue AL5_USER_MAIL_INIT
    mcu,         \* the firmware: asleep, boot, ready or configured
    cmd,         \* the configuration is in the command mailbox
    box,         \* the status mailbox
    raise,       \* the firmware posted a mail and is to raise the interrupt
    irqSta,      \* AL5_MCU_IRQ_STA
    wake,        \* the interrupt thread is to run (again)
    reading,     \* it runs, and has group->lock
    nb,          \* nb_msg of al5_group_read_mails
    traces,      \* traces sent in this probe
    inherited,   \* history: an earlier firmware runs that may still send INIT
    abandoned,   \* history: the device went down under a running MCU
    stale,       \* history: the handler went by memory that was gone
    twice        \* history: the memory pool was freed twice

probeVars == <<pc, step, held, failedAt, poolPtr>>
rootVars  == <<root, bound, queue>>
mcuVars   == <<mcu, cmd, box, raise, irqSta, traces>>
irqVars   == <<wake, reading, nb>>
histVars  == <<inherited, abandoned, stale, twice>>
vars      == <<probeVars, rootVars, mcuVars, irqVars, histVars>>

Module  == {"region", "class", "driver"}
Devm    == {"codec", "regs", "mcu"}
Images  == {"fw", "bl_fw"}
Visible == {"cdev", "node"}

\* mutant: interrupts are requested before there is a group to deliver to.
SetUpOrder_IrqFirst == <<"regs", "declared", "irq", "mcu", "users", "icache">>

\* al5_codec_set_up: the registers, the dedicated memory, the interface with the
\* MCU, the group, the caches and the interrupt.
SetUpOrder == <<"regs", "declared", "mcu", "users", "icache", "irq">>

Init ==
    /\ pc = "out" /\ step = 1
    /\ held = {}
    /\ failedAt = "none"
    /\ poolPtr = FALSE
    /\ root = "none" /\ bound = FALSE /\ queue = 0
    /\ mcu = "asleep" /\ cmd = FALSE
    /\ box = <<>>
    /\ raise = FALSE /\ irqSta = FALSE
    /\ wake = FALSE /\ reading = FALSE /\ nb = 0
    /\ traces = 0
    /\ inherited = FALSE /\ abandoned = FALSE /\ stale = FALSE /\ twice = FALSE

-----------------------------------------------------------------------------
\* The module.

\* What was registered before a failure stays registered.  What an earlier life of
\* the module left behind nobody can give back, and is not looked at any more.
al5e_init ==
    /\ pc = "out"
    /\ \/ /\ held' = Module
          /\ failedAt' = "none"
          /\ pc' = "unbound"
       \/ /\ held' = {"region"}
          /\ failedAt' = "class"
          /\ UNCHANGED pc
       \/ /\ held' = {"region", "class"}
          /\ failedAt' = "driver"
          /\ UNCHANGED pc
    /\ stale' = FALSE
    /\ UNCHANGED <<step, poolPtr, rootVars, mcuVars, irqVars, inherited, abandoned, twice>>

\* platform_driver_unregister removes a device that is bound first.
al5e_exit ==
    /\ pc = "unbound"
    /\ held' = held \ Module
    /\ pc' = "out"
    /\ UNCHANGED <<step, failedAt, poolPtr, rootVars, mcuVars, irqVars, histVars>>

-----------------------------------------------------------------------------
\* al5e_probe.

ProbeEnter ==
    /\ pc = "unbound"
    /\ pc' = "set_up" /\ step' = 1
    /\ held' = Module \cup {"codec"}
    /\ failedAt' = "none"
    /\ poolPtr' = FALSE
    /\ root' = "none" /\ queue' = 0
    /\ traces' = 0
    /\ stale' = FALSE
    /\ UNCHANGED <<bound, mcu, cmd, box, raise, irqSta, irqVars, inherited, abandoned, twice>>

\* mutant: the mailboxes keep what an earlier firmware left in them.
al5_mcu_interface_create_Keeps == UNCHANGED <<cmd, box>>

\* Both mailboxes are emptied.
al5_mcu_interface_create == cmd' = FALSE /\ box' = <<>>

\* The device tree need not name a dedicated memory.
SetUpStep ==
    /\ pc = "set_up"
    /\ LET r == SetUpOrder[step] IN
          /\ \/ held' = held \cup {r}
             \/ r = "declared" /\ UNCHANGED held
          /\ IF r = "mcu" THEN al5_mcu_interface_create ELSE UNCHANGED <<cmd, box>>
          /\ bound' = (bound /\ r # "users")
          /\ inherited' = IF r = "mcu" THEN mcu \in {"boot", "ready"} ELSE inherited
    /\ step' = IF step = Len(SetUpOrder) THEN 1 ELSE step + 1
    /\ pc' = IF step = Len(SetUpOrder) THEN "request_fw" ELSE "set_up"
    /\ UNCHANGED <<failedAt, poolPtr, root, queue, mcu, raise, irqSta, traces, irqVars,
                   abandoned, stale, twice>>

\* The labels fail and free_mcu_caches.  The array of users is not freed, nor is
\* the node of the dedicated memory put when the mask cannot be set.
SetUpFails ==
    /\ pc = "set_up"
    /\ LET r == SetUpOrder[step] IN
          /\ r # "users"
          /\ held' = (held \ ({"declared"} \cup (IF r = "irq" THEN {"icache"} ELSE {})))
                     \cup (IF r = "declared" THEN {"mem_node"} ELSE {})
          /\ failedAt' = r
    /\ pc' = "devres"
    /\ UNCHANGED <<step, poolPtr, rootVars, mcuVars, irqVars, histVars>>

\* Both images, or none.
request_all_firmwares ==
    /\ pc = "request_fw"
    /\ \/ held' = held \cup Images /\ pc' = "bind" /\ UNCHANGED failedAt
       \/ pc' = "tear_down" /\ failedAt' = "fw" /\ UNCHANGED held
    /\ UNCHANGED <<step, poolPtr, rootVars, mcuVars, irqVars, histVars>>

\* al5_group_bind_user and al5_user_init; group->lock is taken.
BindRoot ==
    /\ pc = "bind"
    /\ ~reading
    /\ root' = "live" /\ bound' = TRUE /\ queue' = 0
    /\ pc' = "start"
    /\ UNCHANGED <<step, held, failedAt, poolPtr, mcuVars, irqVars, histVars>>

\* Whatever ran before is gone.
reset_mcu == raise' = FALSE /\ abandoned' = FALSE

start_mcu == mcu' = "boot"

\* stop_mcu, reset_mcu, copy_firmware, for which an image may be too big, and
\* start_mcu.
setup_and_start_mcu ==
    /\ pc = "start"
    /\ reset_mcu
    /\ \/ start_mcu /\ pc' = "ping" /\ UNCHANGED failedAt
       \/ mcu' = "asleep" /\ pc' = "release_fw" /\ failedAt' = "start"
    /\ UNCHANGED <<step, held, poolPtr, rootVars, cmd, box, irqSta, traces, irqVars,
                   inherited, stale, twice>>

-----------------------------------------------------------------------------
\* init_mcu.  Its mutex is that of the root user, which nobody else locks.

PopPing ==
    /\ pc = "ping"
    /\ queue > 0
    /\ queue' = queue - 1
    /\ pc' = "pool"
    /\ UNCHANGED <<step, held, failedAt, poolPtr, root, bound, mcuVars, irqVars, histVars>>

AllocPool ==
    /\ pc = "pool"
    /\ held' = held \cup {"suballoc"}
    /\ poolPtr' = TRUE
    /\ pc' = "send"
    /\ UNCHANGED <<step, failedAt, rootVars, mcuVars, irqVars, histVars>>

\* mutant: the acknowledgement is not waited for.
SendConfig_NoWait ==
    /\ pc = "send"
    /\ cmd' = TRUE
    /\ pc' = "unbind"
    /\ UNCHANGED <<step, held, failedAt, poolPtr, rootVars, mcu, box, raise, irqSta, traces,
                   irqVars, histVars>>

SendConfig ==
    /\ pc = "send"
    /\ cmd' = TRUE
    /\ pc' = "ack"
    /\ UNCHANGED <<step, held, failedAt, poolPtr, rootVars, mcu, box, raise, irqSta, traces,
                   irqVars, histVars>>

PopAck ==
    /\ pc = "ack"
    /\ queue > 0
    /\ queue' = queue - 1
    /\ pc' = "unbind"
    /\ UNCHANGED <<step, held, failedAt, poolPtr, root, bound, mcuVars, irqVars, histVars>>

\* The label unlock: no ping within five seconds or a signal, or no memory.
InitFails ==
    /\ \/ pc = "ping" /\ queue = 0
       \/ pc = "pool"
    /\ pc' = "stop" /\ failedAt' = "init"
    /\ UNCHANGED <<step, held, poolPtr, rootVars, mcuVars, irqVars, histVars>>

\* The label fail_msg: the mail could not be sent, or there was no answer.
InitFailsMsg ==
    /\ \/ pc = "send"
       \/ pc = "ack" /\ queue = 0
    /\ held' = held \ {"suballoc"}
    /\ poolPtr' = FALSE
    /\ pc' = "stop" /\ failedAt' = "init"
    /\ UNCHANGED <<step, rootVars, mcuVars, irqVars, histVars>>

-----------------------------------------------------------------------------
\* The end of al5_codec_set_firmware.

\* mutant: the MCU is left running.
StopMcu_Missing ==
    /\ pc = "stop"
    /\ pc' = "release_fw"
    /\ UNCHANGED <<step, held, failedAt, poolPtr, rootVars, mcuVars, irqVars, histVars>>

\* stop_mcu waits a tenth of a second for the MCU to fall asleep, and goes on.
StopMcu ==
    /\ pc = "stop"
    /\ \/ mcu' = "asleep" /\ raise' = FALSE /\ UNCHANGED abandoned
       \/ mcu # "asleep" /\ abandoned' = TRUE /\ UNCHANGED <<mcu, raise>>
    /\ pc' = "release_fw"
    /\ UNCHANGED <<step, held, failedAt, poolPtr, rootVars, cmd, box, irqSta, traces, irqVars,
                   inherited, stale, twice>>

UnbindRoot ==
    /\ pc = "unbind"
    /\ ~reading
    /\ bound' = FALSE
    /\ pc' = "release_fw"
    /\ UNCHANGED <<step, held, failedAt, poolPtr, root, queue, mcuVars, irqVars, histVars>>

\* The images are released and the root user goes with the stack, bound or not.
SetFirmwareReturns ==
    /\ pc = "release_fw"
    /\ held' = held \ Images
    /\ root' = "gone"
    /\ pc' = IF failedAt = "none" THEN "cdev" ELSE "tear_down"
    /\ UNCHANGED <<step, failedAt, poolPtr, bound, queue, mcuVars, irqVars, histVars>>

\* The character device and its node, or neither.
al5e_setup_codec_cdev ==
    /\ pc = "cdev"
    /\ \/ held' = held \cup Visible /\ pc' = "bound" /\ UNCHANGED failedAt
       \/ pc' = "tear_down" /\ failedAt' = "cdev" /\ UNCHANGED held
    /\ UNCHANGED <<step, poolPtr, rootVars, mcuVars, irqVars, histVars>>

-----------------------------------------------------------------------------
\* al5e_remove, al5_codec_tear_down and what the kernel releases after them.

RemoveEnter ==
    /\ pc = "bound"
    /\ pc' = "tear_down" /\ failedAt' = "removed"
    /\ UNCHANGED <<step, held, poolPtr, rootVars, mcuVars, irqVars, histVars>>

\* al5_mcu_interface_destroy
TearDownInterface ==
    /\ pc = "tear_down"
    /\ held' = held \ {"mcu"}
    /\ pc' = "tear_group"
    /\ UNCHANGED <<step, failedAt, poolPtr, rootVars, mcuVars, irqVars, histVars>>

al5_group_deinit ==
    /\ pc = "tear_group"
    /\ held' = held \ {"users"}
    /\ pc' = "tear_memory"
    /\ UNCHANGED <<step, failedAt, poolPtr, rootVars, mcuVars, irqVars, histVars>>

\* mutant: the memory of the firmware's allocator is forgotten.
TearDownMemory_KeepsPool ==
    /\ pc = "tear_memory"
    /\ held' = held \ {"icache", "declared"}
    /\ pc' = IF failedAt = "removed" THEN "cdev_del" ELSE "devres"
    /\ UNCHANGED <<step, failedAt, poolPtr, rootVars, mcuVars, irqVars, histVars>>

TearDownMemory ==
    /\ pc = "tear_memory"
    /\ held' = held \ {"suballoc", "icache", "declared"}
    /\ twice' = (twice \/ (poolPtr /\ "suballoc" \notin held))
    /\ abandoned' = (abandoned \/ (mcu # "asleep" /\ failedAt \in {"cdev", "removed"}))
    /\ pc' = IF failedAt = "removed" THEN "cdev_del" ELSE "devres"
    /\ UNCHANGED <<step, failedAt, poolPtr, rootVars, mcuVars, irqVars, inherited, stale>>

\* device_destroy and al5_clean_up_codec_cdev
RemoveCdev ==
    /\ pc = "cdev_del"
    /\ held' = held \ Visible
    /\ pc' = "devres"
    /\ UNCHANGED <<step, failedAt, poolPtr, rootVars, mcuVars, irqVars, histVars>>

\* free_irq waits for the handler that runs.
DevresIrq ==
    /\ pc = "devres"
    /\ ~reading
    /\ held' = held \ {"irq"}
    /\ wake' = FALSE
    /\ pc' = "devres_mem"
    /\ UNCHANGED <<step, failedAt, poolPtr, rootVars, mcuVars, reading, nb, histVars>>

DevresMemory ==
    /\ pc = "devres_mem"
    /\ held' = held \ Devm
    /\ pc' = "unbound"
    /\ UNCHANGED <<step, failedAt, poolPtr, rootVars, mcuVars, irqVars, histVars>>

-----------------------------------------------------------------------------
\* Interrupts.

\* mutant: an interrupt that comes while the thread runs does not wake it again.
al5_hardirq_handler_Once ==
    /\ "irq" \in held
    /\ irqSta
    /\ irqSta' = FALSE
    /\ wake' = (wake \/ ~reading)
    /\ UNCHANGED <<probeVars, rootVars, mcu, cmd, box, raise, traces, reading, nb, histVars>>

\* The interrupt is cleared before the thread is woken.
al5_hardirq_handler ==
    /\ "irq" \in held
    /\ irqSta
    /\ irqSta' = FALSE
    /\ wake' = TRUE
    /\ UNCHANGED <<probeVars, rootVars, mcu, cmd, box, raise, traces, reading, nb, histVars>>

\* al5_irq_handler takes group->lock ...
IrqEnter ==
    /\ wake
    /\ ~reading
    /\ wake' = FALSE /\ reading' = TRUE /\ nb' = 0
    /\ UNCHANGED <<probeVars, rootVars, mcuVars, histVars>>

MailsLeft == box # <<>> /\ nb < MaxMsg

\* A trace is printed; the answer to INIT goes to the user it names, if any.
handle_mail(mail) ==
    IF mail = "TRACE" THEN UNCHANGED <<queue, stale>>
    ELSE /\ queue' = IF bound /\ root = "live" THEN queue + 1 ELSE queue
         /\ stale' = (stale \/ "users" \notin held \/ (bound /\ root = "gone"))

\* ... reads the mails of the mailbox ...
read_mail ==
    /\ reading
    /\ "mcu" \in held
    /\ MailsLeft
    /\ nb' = nb + 1
    /\ box' = Tail(box)
    /\ handle_mail(Head(box))
    /\ UNCHANGED <<probeVars, root, bound, mcu, cmd, raise, irqSta, traces, wake, reading,
                   inherited, abandoned, twice>>

\* ... and gives the lock back.
IrqReturn ==
    /\ reading
    /\ "mcu" \in held
    /\ ~MailsLeft
    /\ reading' = FALSE
    /\ UNCHANGED <<probeVars, rootVars, mcuVars, wake, nb, histVars>>

\* The interface with the MCU is gone: nothing is known of what it reads there.
IrqAstray ==
    /\ reading
    /\ "mcu" \notin held
    /\ reading' = FALSE
    /\ stale' = TRUE
    /\ UNCHANGED <<probeVars, rootVars, mcuVars, wake, nb, inherited, abandoned, twice>>

-----------------------------------------------------------------------------
\* The firmware: it pings when it is up, takes its configuration, acknowledges
\* it, and traces as it likes.

McuPost(mail) ==
    /\ Len(box) < BoxCap
    /\ box' = Append(box, mail)
    /\ raise' = TRUE

McuPing ==
    /\ mcu = "boot"
    /\ McuPost("INIT")
    /\ mcu' = "ready"
    /\ UNCHANGED <<probeVars, rootVars, cmd, irqSta, traces, irqVars, histVars>>

McuConfigure ==
    /\ mcu = "ready" /\ cmd
    /\ McuPost("INIT")
    /\ mcu' = "configured" /\ cmd' = FALSE
    /\ UNCHANGED <<probeVars, rootVars, irqSta, traces, irqVars, histVars>>

McuTrace ==
    /\ mcu \in {"ready", "configured"}
    /\ traces < MaxTraces
    /\ McuPost("TRACE")
    /\ traces' = traces + 1
    /\ UNCHANGED <<probeVars, rootVars, mcu, cmd, irqSta, irqVars, histVars>>

McuRaise ==
    /\ raise
    /\ raise' = FALSE
    /\ irqSta' = TRUE
    /\ UNCHANGED <<probeVars, rootVars, mcu, cmd, box, traces, irqVars, histVars>>

-----------------------------------------------------------------------------
DriverStep ==
    \/ SetUpStep
    \/ request_all_firmwares
    \/ BindRoot
    \/ setup_and_start_mcu
    \/ PopPing
    \/ AllocPool
    \/ SendConfig
    \/ PopAck
    \/ StopMcu
    \/ UnbindRoot
    \/ SetFirmwareReturns
    \/ al5e_setup_codec_cdev
    \/ TearDownInterface
    \/ al5_group_deinit
    \/ TearDownMemory
    \/ RemoveCdev
    \/ DevresIrq
    \/ DevresMemory

ThreadStep ==
    \/ IrqEnter
    \/ read_mail
    \/ IrqReturn
    \/ IrqAstray

Next ==
    \/ al5e_init
    \/ al5e_exit
    \/ ProbeEnter
    \/ RemoveEnter
    \/ DriverStep
    \/ SetUpFails
    \/ InitFails
    \/ InitFailsMsg
    \/ al5_hardirq_handler
    \/ ThreadStep
    \/ McuPing
    \/ McuConfigure
    \/ McuTrace
    \/ McuRaise

Spec == Init /\ [][Next]_vars

\* The kernel runs the probe and the interrupt thread; the firmware does not hang.
\* Nothing ever has to fail or to time out.
Fairness ==
    /\ WF_vars(DriverStep)
    /\ WF_vars(al5_hardirq_handler)
    /\ WF_vars(ThreadStep)
    /\ WF_vars(McuPing)
    /\ WF_vars(McuConfigure)
    /\ WF_vars(McuRaise)

FairSpec == Spec /\ Fairness

-----------------------------------------------------------------------------
TypeOK ==
    /\ step \in 1..Len(SetUpOrder)
    /\ held \subseteq Module \cup Devm \cup Images \cup Visible
                      \cup {"declared", "users", "icache", "irq", "suballoc", "mem_node"}
    /\ root \in {"none", "live", "gone"}
    /\ queue \in 0..2
    /\ mcu \in {"asleep", "boot", "ready", "configured"}
    /\ box \in Seq({"INIT", "TRACE"}) /\ Len(box) <= BoxCap
    /\ nb \in 0..MaxMsg
    /\ {bound, poolPtr, cmd, raise, irqSta, wake, reading, inherited, abandoned, stale, twice}
          \subseteq BOOLEAN

BoundSet == Module \cup Devm \cup Visible \cup {"users", "icache", "irq", "suballoc"}

\* A probe that succeeds keeps what the device needs and neither of the firmware
\* images; one that fails, at whichever step, and a removal give everything back,
\* but for three failures in al5_codec_set_up, and give the memory of the firmware's
\* allocator, which init_mcu or al5_codec_tear_down frees, back once.
\* (al5_codec_set_up, al5_codec_set_firmware, al5_codec_tear_down, fail_msg)
NothingLeft ==
    /\ ~twice
    /\ pc = "bound" => held \ {"declared"} = BoundSet
    /\ pc = "unbound" /\ failedAt \notin {"declared", "icache", "irq"} => held = Module
    /\ pc = "out" /\ failedAt \in {"none", "fw", "start", "init", "cdev", "removed"} => held = {}

\* The device is visible only after the firmware acknowledged its configuration,
\* whatever mails an earlier firmware left behind, and then no mail for the root
\* user is left; unless stop_mcu gave up on a firmware that had not answered.
\* (init_mcu, al5_mcu_interface_create)
VisibleOnlyConfigured ==
    pc \in {"cdev", "bound"} /\ ~inherited =>
                                /\ mcu = "configured"
                                /\ queue = 0 /\ ~bound
                                /\ \A i \in 1..Len(box) : box[i] # "INIT"

\* The firmware runs only from memory that is held: its code, and, between fail_msg
\* and stop_mcu excepted, the memory it was told of; a device that goes down under
\* a running firmware, or a stop_mcu that gives up, is the other exception.  (al5_codec_set_firmware,
\* al5_codec_tear_down)
McuMemoryAlive ==
    mcu # "asleep" /\ ~abandoned =>
        /\ "icache" \in held
        /\ cmd \/ mcu = "configured" => "suballoc" \in held \/ pc = "stop"

\* Until al5_codec_tear_down is due, which leaves interrupts requested, whatever the
\* interrupt handler goes by is there: the interface, the array of users and the
\* user, although an interrupt of an earlier life may be pending.
\* (al5_irq_handler, al5_codec_set_up, al5_codec_set_firmware)
HandlerFindsAll == stale => failedAt \in {"fw", "start", "init", "cdev", "removed"}

\* A probe returns: if nothing fails, the two mails of the firmware get through and
\* no time-out is needed.  (al5_codec_set_firmware, init_mcu)
ProbeReturns == pc \notin {"out", "unbound", "bound"} ~> pc \in {"unbound", "bound"}

\* Every mail is read as long as interrupts are served, although an interrupt may
\* stand for several mails, or for one that was read before it came.
\* (al5_hardirq_handler, al5_group_read_mails)
EveryMailServed ==
    box # <<>> /\ "irq" \in held ~> box = <<>> \/ "irq" \notin held

\* "after this, the mcu is set to send us an interrupt, we can't fail before ack'ing
\* it" (al_codec.c, above the call of init_mcu)
NoFailureBeforeAck == pc = "stop" => ~irqSta

=============================================================================
