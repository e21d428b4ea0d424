------------------------------ MODULE BufPool -------------------------------
(***************************************************************************)
(* The DMA memory of a client: the buffers of a pool (al_buffers_pool.c),  *)
(* the buffers it asks for by GET_DMA_FD, and the dma-bufs that share both *)
(* (al_dmabuf.c).                                                          *)
(*                                                                         *)
(* A buffer is a place in DMA memory, handed out again after it was freed. *)
(* Its dma-buf counts references: al5_dmabuf_release frees the memory at   *)
(* the last put.  The kernel's part (dma_buf_fd, dma_buf_get, dma_buf_put, *)
(* the descriptor table) is modelled from how the driver uses it.          *)
(*                                                                         *)
(* Three kinds of actors: the thread that creates and destroys the channel *)
(* (ctl), the one in a call on a reconstructed picture (rec: one at a time *)
(* under the mutex AL5_USER_REC), and threads in GET_DMA_FD or GET_DMA_PHY,*)
(* which take no mutex.  The client closes the descriptors it was told of, *)
(* and the kernel closes all of them when the process exits.               *)
(***************************************************************************)
EXTENDS Integers, FiniteSets

CONSTANTS
    Bufs,        \* places in DMA memory
    NoBuf,
    Fds,         \* descriptors of the process
    NoFd,
    Count,       \* buffers of the pool
    Threads      \* threads in GET_DMA_FD, GET_DMA_PHY or in another driver

ASSUME BufPoolAssumption ==
    /\ NoBuf \notin Bufs
    /\ NoFd \notin Fds
    /\ Count \in Nat \ {0}
    /\ IsFiniteSet(Fds) /\ IsFiniteSet(Threads)

VARIABLES
    mem,         \* DMA memory and its al5_dma_buffer are allocated
    refs,        \* references to the dma-buf of each buffer
    fdt,         \* the descriptor table: which dma-buf each descriptor names
    told,        \* descriptors the client was told of
    created,     \* al5_chan_is_created; a close tests it once, at its start
    count,       \* bufpool->count
    handles,     \* bufpool->handles[]
    arrays,      \* the arrays behind bufpool->buffers and ->handles
    ctl,         \* where al5_bufpool_allocate or al5_bufpool_free is
    next,        \* the next handle al5_bufpool_free puts
    destroying,  \* the free is that of a destroy, which holds every mutex
    rec,         \* where the call on a picture is
    recBuf,      \* its dma-buf
    recFd,       \* its descriptor
    call,        \* where each thread is
    buf,         \* its dma-buf
    newFd,       \* the descriptor GET_DMA_FD made
    dir,         \* direction of its attachment: attach->dma_dir
    maps,        \* mappings of its attachment that dma_map_sg made
    exiting,     \* the process exits
    lost,        \* history: buffers nobody can free any more
    noHandles,   \* history: the array of handles of this channel could not be allocated
    faults       \* history: in which ways an array was used after it was freed

memVars  == <<mem, refs>>
fdVars   == <<fdt, told>>
poolVars == <<created, count, handles, arrays, ctl, next, destroying>>
recVars  == <<rec, recBuf, recFd>>
callVars == <<call, buf, newFd, dir, maps>>
histVars == <<lost, noHandles, faults>>
vars     == <<memVars, fdVars, poolVars, recVars, callVars, exiting, histVars>>

Pointers == {"NULL", "array", "freed"}
Ids      == 0..Count-1

Init ==
    /\ mem = [b \in Bufs |-> FALSE]
    /\ refs = [b \in Bufs |-> 0]
    /\ fdt = [fd \in Fds |-> NoBuf]
    /\ told = {}
    /\ created = FALSE
    /\ count = 0
    /\ handles = [i \in Ids |-> NoBuf]
    /\ arrays = [buffers |-> "NULL", handles |-> "NULL"]
    /\ ctl = "idle"
    /\ next = 0
    /\ destroying = FALSE
    /\ rec = "idle"
    /\ recBuf = NoBuf
    /\ recFd = NoFd
    /\ call = [t \in Threads |-> "idle"]
    /\ buf = [t \in Threads |-> NoBuf]
    /\ newFd = [t \in Threads |-> NoFd]
    /\ dir = [t \in Threads |-> "NONE"]
    /\ maps = [t \in Threads |-> 0]
    /\ exiting = FALSE
    /\ lost = {}
    /\ noHandles = FALSE
    /\ faults = {}

-----------------------------------------------------------------------------
\* The memory and the references.

\* al5_alloc_dma and a successful al5_dmabuf_wrap.
AllocAndWrap(b) ==
    /\ ~mem[b]
    /\ mem' = [mem EXCEPT ![b] = TRUE]
    /\ refs' = [refs EXCEPT ![b] = 1]

\* al5_alloc_dma without a dma-buf.
AllocOnly(b) ==
    /\ ~mem[b]
    /\ mem' = [mem EXCEPT ![b] = TRUE]
    /\ UNCHANGED refs

dma_buf_get(b) == refs' = [refs EXCEPT ![b] = @ + 1] /\ UNCHANGED mem

\* mutant: the memory is freed while others still refer to it.
al5_dmabuf_release_Early(b) == [mem EXCEPT ![b] = FALSE]

\* mutant: the memory is not given back.
al5_dmabuf_release_Never(b) == mem

\* al5_dmabuf_release, when the last reference is put.
al5_dmabuf_release(b) == [mem EXCEPT ![b] = refs[b] # 1]

dma_buf_put(b) ==
    /\ refs' = [refs EXCEPT ![b] = @ - 1]
    /\ mem' = al5_dmabuf_release(b)

FreeFds == {fd \in Fds : fdt[fd] = NoBuf}

\* dma_buf_fd gives the caller's reference to the descriptor.
dma_buf_fd(fd, b) == fd \in FreeFds /\ fdt' = [fdt EXCEPT ![fd] = b]

-----------------------------------------------------------------------------
\* al5_bufpool_allocate, called once for a channel, in its create.

\* The firmware's answer names the channel.  From here on other calls find it
\* created.
check_and_affect_chan_uid ==
    /\ ctl = "idle" /\ ~created /\ ~exiting
    /\ created' = TRUE
    /\ ctl' = "create"
    /\ UNCHANGED <<memVars, fdVars, count, handles, arrays, next, destroying, recVars, callVars,
                   exiting, histVars>>

AllocateArrays ==
    /\ ctl = "create"
    /\ count' = 0
    /\ arrays' = [buffers |-> "array", handles |-> "array"]
    /\ handles' = [i \in Ids |-> NoBuf]
    /\ ctl' = "fill"
    /\ UNCHANGED <<memVars, fdVars, created, next, destroying, recVars, callVars, exiting, histVars>>

\* fail_buffers
AllocateNoBuffers ==
    /\ ctl = "create"
    /\ count' = 0
    /\ arrays' = [arrays EXCEPT !.buffers = "NULL"]
    /\ ctl' = "idle"
    /\ UNCHANGED <<memVars, fdVars, created, handles, next, destroying, recVars, callVars,
                   exiting, histVars>>

\* fail_handles frees the first array and leaves the pointer to it.
AllocateNoHandles ==
    /\ ctl = "create"
    /\ count' = 0
    /\ arrays' = [buffers |-> "freed", handles |-> "NULL"]
    /\ noHandles' = TRUE
    /\ ctl' = "idle"
    /\ UNCHANGED <<memVars, fdVars, created, handles, next, destroying, recVars, callVars,
                   exiting, lost, faults>>

\* mutant: one buffer more than asked for.
AllocateBuffer_OneMore ==
    /\ ctl = "fill"
    /\ \E b \in Bufs :
          /\ AllocAndWrap(b)
          /\ handles' = [handles EXCEPT ![count % Count] = b]
    /\ count' = count + 1
    /\ ctl' = IF count = Count THEN "idle" ELSE "fill"
    /\ UNCHANGED <<fdVars, created, arrays, next, destroying, recVars, callVars, exiting, histVars>>

AllocateBuffer ==
    /\ ctl = "fill"
    /\ \E b \in Bufs :
          /\ AllocAndWrap(b)
          /\ handles' = [handles EXCEPT ![count] = b]
    /\ count' = count + 1
    /\ ctl' = IF count + 1 = Count THEN "idle" ELSE "fill"
    /\ UNCHANGED <<fdVars, created, arrays, next, destroying, recVars, callVars, exiting, histVars>>

\* mutant: the buffers allocated so far are not undone.
AllocateFails_NoUndo ==
    /\ ctl = "fill"
    /\ ctl' = "idle"
    /\ next' = 0
    /\ UNCHANGED <<memVars, fdVars, created, count, handles, arrays, destroying, recVars, callVars,
                   exiting, histVars>>

\* No memory, or no dma-buf for it: the memory of this buffer is given back
\* at once, al5_bufpool_free does the rest.
AllocateFails ==
    /\ ctl = "fill"
    /\ ctl' = "put"
    /\ next' = 0
    /\ UNCHANGED <<memVars, fdVars, created, count, handles, arrays, destroying, recVars, callVars,
                   exiting, histVars>>

-----------------------------------------------------------------------------
\* al5_bufpool_free.

\* mutant: the destroy does not wait for the mutex AL5_USER_REC.
FreeEnter_NoMutex ==
    /\ ctl = "idle" /\ created
    /\ created' = FALSE \/ (exiting /\ UNCHANGED created)
    /\ ctl' = "put"
    /\ next' = 0
    /\ destroying' = TRUE
    /\ UNCHANGED <<memVars, fdVars, count, handles, arrays, recVars, callVars, exiting, histVars>>

\* al5_user_destroy_channel_resources, in a destroy that the firmware has answered
\* or in the close of the file, which frees what its destroy has freed before.
FreeEnter ==
    /\ ctl = "idle" /\ created
    /\ rec = "idle"
    /\ created' = FALSE \/ (exiting /\ UNCHANGED created)
    /\ ctl' = "put"
    /\ next' = 0
    /\ destroying' = TRUE
    /\ UNCHANGED <<memVars, fdVars, count, handles, arrays, recVars, callVars, exiting, histVars>>

FreePut ==
    /\ ctl = "put" /\ next < count
    /\ dma_buf_put(handles[next])
    /\ next' = next + 1
    /\ UNCHANGED <<fdVars, created, count, handles, arrays, ctl, destroying, recVars, callVars,
                   exiting, histVars>>

\* The pointer was freed before, by fail_handles or not.
FreedBefore ==
    IF "freed" \notin {arrays.buffers, arrays.handles} THEN {}
    ELSE {IF noHandles THEN "free after fail_handles" ELSE "free"}

kfree(pointer) == IF pointer = "array" THEN "freed" ELSE pointer

FreeArrays ==
    /\ ctl = "put" /\ next = count
    /\ faults' = faults \cup FreedBefore
    /\ arrays' = [p \in {"buffers", "handles"} |-> kfree(arrays[p])]
    /\ ctl' = "reset"
    /\ UNCHANGED <<memVars, fdVars, created, count, handles, next, destroying, recVars, callVars,
                   exiting, lost, noHandles>>

FreeReset ==
    /\ ctl = "reset"
    /\ count' = 0
    /\ handles' = [i \in Ids |-> NoBuf]
    /\ arrays' = [buffers |-> "NULL", handles |-> "NULL"]
    /\ next' = 0
    /\ destroying' = FALSE
    /\ noHandles' = FALSE
    /\ ctl' = "idle"
    /\ UNCHANGED <<memVars, fdVars, created, recVars, callVars, exiting, lost, faults>>

-----------------------------------------------------------------------------
\* Calls on reconstructed pictures, under AL5_USER_REC.

\* The mutex is free and there is a channel, whatever its create is about to do.
RecMayRun ==
    /\ rec = "idle" /\ ~destroying /\ ~exiting
    /\ created

\* The array of handles was freed, by a failed allocation that undoes itself or not.
ReadFreed ==
    IF arrays.handles # "freed" THEN {}
    ELSE {IF destroying THEN "read" ELSE "read in undo"}

\* What the firmware names in its answer: a picture it was given, or none.
FirmwareIds == {-1} \cup (IF ctl = "idle" THEN 0..count-1 ELSE {})

\* get_user_rec_buffer; the id that equals the count gets through.
RefusedId(id) == id > count \/ id < 0

\* al5_bufpool_reserve_fd: the pool's reference goes to the descriptor ...
ReserveFd(id) ==
    /\ RecMayRun
    /\ ~RefusedId(id)
    /\ \E fd \in Fds :
          /\ dma_buf_fd(fd, handles[id])
          /\ recFd' = fd
    /\ rec' = "reserve"
    /\ faults' = faults \cup ReadFreed
    /\ UNCHANGED <<memVars, told, poolVars, recBuf, callVars, exiting, lost, noHandles>>

\* mutant: no reference is taken for the pool.
ReserveGet_Missing ==
    /\ rec = "reserve"
    /\ told' = told \cup {recFd}
    /\ rec' = "idle"
    /\ recFd' = NoFd
    /\ UNCHANGED <<memVars, fdt, poolVars, recBuf, callVars, exiting, histVars>>

\* ... and the pool takes a new one from the descriptor, if it still names one.
ReserveGet ==
    /\ rec = "reserve"
    /\ IF fdt[recFd] = NoBuf THEN UNCHANGED memVars ELSE dma_buf_get(fdt[recFd])
    /\ told' = told \cup {recFd}
    /\ rec' = "idle"
    /\ recFd' = NoFd
    /\ UNCHANGED <<fdt, poolVars, recBuf, callVars, exiting, histVars>>

\* al5_bufpool_get_id
GetIdEnter ==
    /\ RecMayRun
    /\ \E fd \in told :
          /\ fdt[fd] # NoBuf
          /\ dma_buf_get(fdt[fd])
          /\ recBuf' = fdt[fd]
    /\ rec' = "get_id"
    /\ UNCHANGED <<fdVars, poolVars, recFd, callVars, exiting, histVars>>

\* The search, and the put whatever it found.
GetIdReturn ==
    /\ rec = "get_id"
    /\ faults' = faults \cup (IF count > 0 THEN ReadFreed ELSE {})
    /\ dma_buf_put(recBuf)
    /\ rec' = "idle"
    /\ recBuf' = NoBuf
    /\ UNCHANGED <<fdVars, poolVars, recFd, callVars, exiting, lost, noHandles>>

-----------------------------------------------------------------------------
\* GET_DMA_FD and GET_DMA_PHY: al5_allocate_dmabuf, al5_dmabuf_get_address.

\* The errors of al5_create_dmabuf_fd are taken for a descriptor: a buffer
\* without a dma-buf, or a dma-buf without a descriptor, stays behind.
AllocateDmabuf(t) ==
    /\ call[t] = "idle" /\ ~exiting
    /\ \E b \in Bufs :
          \/ /\ AllocAndWrap(b)
             /\ \E fd \in Fds : dma_buf_fd(fd, b) /\ newFd' = [newFd EXCEPT ![t] = fd]
             /\ call' = [call EXCEPT ![t] = "named"]
             /\ UNCHANGED lost
          \/ /\ AllocAndWrap(b)
             /\ FreeFds = {}
             /\ lost' = lost \cup {b}
             /\ UNCHANGED <<fdt, newFd, call>>
          \/ /\ AllocOnly(b)
             /\ lost' = lost \cup {b}
             /\ UNCHANGED <<fdt, newFd, call>>
    /\ UNCHANGED <<told, poolVars, recVars, buf, dir, maps, exiting, noHandles, faults>>

GetFd(t, fd) ==
    /\ fdt[fd] # NoBuf
    /\ dma_buf_get(fdt[fd])
    /\ buf' = [buf EXCEPT ![t] = fdt[fd]]
    /\ call' = [call EXCEPT ![t] = "got"]
    /\ UNCHANGED <<fdVars, poolVars, recVars, newFd, dir, maps, exiting, histVars>>

\* The descriptor that was just made, or one the client names.
GetNewFd(t) == call[t] = "named" /\ GetFd(t, newFd[t])

GetKnownFd(t) == call[t] = "idle" /\ ~exiting /\ \E fd \in told : GetFd(t, fd)

al5_dmabuf_attach(t) ==
    /\ call[t] = "got"
    /\ \/ dir' = [dir EXCEPT ![t] = "NONE"] /\ call' = [call EXCEPT ![t] = "attached"]
       \/ call' = [call EXCEPT ![t] = "failed"] /\ UNCHANGED dir
    /\ UNCHANGED <<memVars, fdVars, poolVars, recVars, buf, newFd, maps, exiting, histVars>>

Directions == {"TO_DEVICE", "BIDIRECTIONAL"}

Mapped(t) == IF dir[t] = "NONE" THEN 0 ELSE 1

\* mutant: a remap that fails leaves the old direction.
al5_dmabuf_map_KeepsDir(t, d) ==
    \/ dir[t] = d /\ UNCHANGED <<dir, maps>>
    \/ /\ dir[t] # d
       /\ maps' = [maps EXCEPT ![t] = @ - Mapped(t) + 1]
       /\ dir' = [dir EXCEPT ![t] = d]
    \/ /\ dir[t] # d
       /\ maps' = [maps EXCEPT ![t] = @ - Mapped(t)]
       /\ UNCHANGED dir

\* The mapping of the same direction is kept; another is undone first, and
\* dma_map_sg may fail.
al5_dmabuf_map(t, d) ==
    \/ dir[t] = d /\ UNCHANGED <<dir, maps>>
    \/ /\ dir[t] # d
       /\ maps' = [maps EXCEPT ![t] = @ - Mapped(t) + 1]
       /\ dir' = [dir EXCEPT ![t] = d]
    \/ /\ dir[t] # d
       /\ maps' = [maps EXCEPT ![t] = @ - Mapped(t)]
       /\ dir' = [dir EXCEPT ![t] = "NONE"]

\* dma_buf_unmap_attachment changes nothing: al5_dmabuf_unmap is empty.
MapAttachment(t) ==
    /\ call[t] = "attached"
    /\ al5_dmabuf_map(t, "BIDIRECTIONAL")
    /\ call' = [call EXCEPT ![t] = IF dir'[t] = "NONE" THEN "unmapped" ELSE "mapped"]
    /\ UNCHANGED <<memVars, fdVars, poolVars, recVars, buf, newFd, exiting, histVars>>

\* Another driver that was given the descriptor maps the buffer as often, and in
\* as many directions, as it likes.
ImporterMap(t) ==
    /\ call[t] \in {"attached", "mapped"}
    /\ newFd[t] = NoFd
    /\ \E d \in Directions : al5_dmabuf_map(t, d)
    /\ call' = [call EXCEPT ![t] = "mapped"]
    /\ UNCHANGED <<memVars, fdVars, poolVars, recVars, buf, newFd, exiting, histVars>>

al5_dmabuf_detach(t) ==
    /\ call[t] \in {"mapped", "unmapped"}
    /\ maps' = [maps EXCEPT ![t] = @ - Mapped(t)]
    /\ dir' = [dir EXCEPT ![t] = "NONE"]
    /\ call' = [call EXCEPT ![t] = IF @ = "mapped" THEN "done" ELSE "failed"]
    /\ UNCHANGED <<memVars, fdVars, poolVars, recVars, buf, newFd, exiting, histVars>>

\* fail_attach, and the answer: a new descriptor is told only on success.
PutAddress(t) ==
    /\ call[t] \in {"done", "failed"}
    /\ dma_buf_put(buf[t])
    /\ told' = told \cup (IF call[t] = "done" THEN {newFd[t]} \ {NoFd} ELSE {})
    /\ call' = [call EXCEPT ![t] = "idle"]
    /\ buf' = [buf EXCEPT ![t] = NoBuf]
    /\ newFd' = [newFd EXCEPT ![t] = NoFd]
    /\ UNCHANGED <<fdt, poolVars, recVars, dir, maps, exiting, histVars>>

-----------------------------------------------------------------------------
\* The client.

Close(fd) ==
    /\ fdt[fd] # NoBuf
    /\ fd \in told \/ exiting
    /\ dma_buf_put(fdt[fd])
    /\ fdt' = [fdt EXCEPT ![fd] = NoBuf]
    /\ told' = told \ {fd}
    /\ UNCHANGED <<poolVars, recVars, callVars, exiting, histVars>>

\* A process exits once its threads are out of their calls.
Exit ==
    /\ ~exiting
    /\ ctl = "idle" /\ rec = "idle"
    /\ \A t \in Threads : call[t] = "idle"
    /\ exiting' = TRUE
    /\ UNCHANGED <<memVars, fdVars, poolVars, recVars, callVars, histVars>>

\* The close of the device file frees the pool; then another process comes.
Exited ==
    /\ exiting
    /\ ctl = "idle" /\ ~created
    /\ FreeFds = Fds
    /\ exiting' = FALSE
    /\ UNCHANGED <<memVars, fdVars, poolVars, recVars, callVars, histVars>>

PoolStep ==
    \/ AllocateBuffer
    \/ AllocateFails
    \/ FreePut
    \/ FreeArrays
    \/ FreeReset

CallStep(t) ==
    \/ GetNewFd(t)
    \/ al5_dmabuf_attach(t)
    \/ MapAttachment(t)
    \/ al5_dmabuf_detach(t)
    \/ PutAddress(t)

Next ==
    \/ check_and_affect_chan_uid
    \/ AllocateArrays
    \/ AllocateNoBuffers
    \/ AllocateNoHandles
    \/ FreeEnter
    \/ PoolStep
    \/ \E id \in FirmwareIds : ReserveFd(id)
    \/ ReserveGet
    \/ GetIdEnter
    \/ GetIdReturn
    \/ \E t \in Threads : AllocateDmabuf(t) \/ GetKnownFd(t) \/ CallStep(t) \/ ImporterMap(t)
    \/ \E fd \in Fds : Close(fd)
    \/ Exit
    \/ Exited

Spec == Init /\ [][Next]_vars

\* The kernel closes the files of a process that exits: the descriptors, and the
\* device, whose release frees the pool.  al5_bufpool_free runs on.
Fairness ==
    /\ WF_vars(PoolStep)
    /\ WF_vars(exiting /\ FreeEnter)
    /\ \A fd \in Fds : WF_vars(exiting /\ Close(fd))

FairSpec == Spec /\ Fairness

-----------------------------------------------------------------------------
Held(S) == Cardinality(S)

PoolRefs(b) == Held({i \in Ids : i < count /\ handles[i] = b /\ (ctl = "put" => i >= next)
                                 /\ ctl # "reset"})
FdRefs(b)   == Held({fd \in Fds : fdt[fd] = b})
CallRefs(b) == Held({t \in Threads : buf[t] = b}) + (IF recBuf = b THEN 1 ELSE 0)

\* Between the two halves of al5_bufpool_reserve_fd the pool has no reference
\* of its own.
Lent(b) == IF rec = "reserve" /\ fdt[recFd] = b THEN 1 ELSE 0

TypeOK ==
    /\ mem \in [Bufs -> BOOLEAN]
    /\ refs \in [Bufs -> Nat]
    /\ fdt \in [Fds -> Bufs \cup {NoBuf}]
    /\ told \subseteq {fd \in Fds : fdt[fd] # NoBuf}
    /\ count \in 0..Count
    /\ handles \in [Ids -> Bufs \cup {NoBuf}]
    /\ arrays \in [{"buffers", "handles"} -> Pointers]
    /\ ctl \in {"idle", "create", "fill", "put", "reset"}
    /\ next \in 0..Count
    /\ maps \in [Threads -> Nat]
    /\ lost \subseteq Bufs

\* Every reference to a dma-buf is somebody's: the pool's, a descriptor's or
\* that of a call under way, whatever failed before.  (al5_bufpool_reserve_fd,
\* al5_bufpool_get_id, al5_dmabuf_get_address, al5_bufpool_free)
RefsMatchOwners ==
    \A b \in Bufs \ lost : refs[b] = PoolRefs(b) + FdRefs(b) + CallRefs(b) - Lent(b)

\* The memory of a buffer lives exactly as long as anybody goes by it: the pool,
\* whose buffers the firmware writes to, a descriptor, although the pool was
\* freed, or a call with its mapping, although the descriptor was closed.  No step
\* that fails leaves memory to nobody, but for GET_DMA_FD when its buffer gets no
\* descriptor.  (al5_dmabuf_release, fail_dma_allocation, al5_allocate_dmabuf)
MemoryFollowsUsers ==
    \A b \in Bufs \ lost : mem[b] <=> PoolRefs(b) + FdRefs(b) + CallRefs(b) > 0

\* Outside its two operations a pool has all its buffers, each its own, or
\* none: what the model of the encoder takes a pool to be.  (al5_bufpool_allocate)
AllOrNothing ==
    ctl = "idle" => /\ count \in {0, Count}
                    /\ \A i, j \in 0..count-1 : i # j => handles[i] # handles[j]
                    /\ \A i \in 0..count-1 : handles[i] # NoBuf

\* The arrays of a pool are freed once, however often the pool is (a close frees it
\* after its destroy did), and a call on a picture, which may come as soon as the
\* channel has an id, reads them only while they live.  Two paths are excepted, where
\* the code does otherwise: the free after fail_handles, which has freed one array and
\* kept the pointer; and a search while a failed allocation undoes itself, since
\* al5e_user_release_rec tests chan_uid only and does not wait for the create.
\* (al5_bufpool_free, al5_bufpool_get_id, al5_bufpool_reserve_fd,
\* al5_user_destroy_channel)
ArraysUsedAlive == faults \subseteq {"free after fail_handles", "read in undo"}

\* However often a buffer was mapped, and whichever map failed, its attachment
\* has at most one mapping and leaves none.  (al5_dmabuf_map, al5_dmabuf_detach)
MappingsUndone ==
    \A t \in Threads : /\ maps[t] = Mapped(t)
                       /\ call[t] \notin {"attached", "mapped", "unmapped"} => maps[t] = 0

\* When a process exits, all its memory comes back, in whatever order the kernel
\* closes its files and whatever its calls left behind.  (al5_codec_release,
\* al5_dmabuf_release)
ExitReturnsMemory ==
    exiting ~> \A b \in Bufs \ lost : ~mem[b]

=============================================================================
