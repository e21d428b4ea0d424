--------------------------- MODULE BufPoolProofs ----------------------------
(***************************************************************************)
(* Proofs about BufPool, for every amount of memory, size of the pool,     *)
(* table of descriptors and number of threads.                             *)
(***************************************************************************)
EXTENDS BufPool, FiniteSetTheorems, TLAPS

-----------------------------------------------------------------------------
\* The inductive invariant, in parts.

Calls == {"idle", "named", "got", "attached", "mapped", "unmapped", "done", "failed"}

\* TypeOK without the bound of told, and the variables it leaves out.
Types ==
    /\ fdt \in [Fds -> Bufs \cup {NoBuf}]
    /\ told \subseteq Fds
    /\ count \in 0..Count
    /\ handles \in [Ids -> Bufs \cup {NoBuf}]
    /\ arrays \in [{"buffers", "handles"} -> Pointers]
    /\ ctl \in {"idle", "create", "fill", "put", "reset"}
    /\ next \in 0..Count
    /\ rec \in {"idle", "reserve", "get_id"}
    /\ recBuf \in Bufs \cup {NoBuf}
    /\ recFd \in Fds \cup {NoFd}
    /\ call \in [Threads -> Calls]
    /\ buf \in [Threads -> Bufs \cup {NoBuf}]
    /\ newFd \in [Threads -> Fds \cup {NoFd}]
    /\ dir \in [Threads -> Directions \cup {"NONE"}]
    /\ maps \in [Threads -> Nat]
    /\ lost \subseteq Bufs

\* Which buffers the pool still owns: all up to the count, but for those that
\* al5_bufpool_free has put.
Owned(i) == i < count /\ (ctl = "put" => i >= next) /\ ctl # "reset"
PoolOf   == [i \in Ids |-> IF Owned(i) THEN handles[i] ELSE NoBuf]

\* The count follows the operations on the pool, and the buffers are distinct.
PoolOK ==
    /\ ctl = "idle" => count \in {0, Count}
    /\ ctl = "fill" => count < Count
    /\ ctl = "put" => next <= count
    /\ \A i \in Ids : i < count => handles[i] # NoBuf
    /\ \A i, j \in Ids : i # j /\ PoolOf[i] # NoBuf => PoolOf[i] # PoolOf[j]

\* A channel has buffers, and calls on pictures, from its create to its destroy only.
ChannelOK ==
    /\ ctl \in {"create", "fill"} => created
    /\ ctl \in {"idle", "create", "fill"} => ~destroying
    /\ rec # "idle" => created /\ ~destroying
    /\ ctl = "create" \/ (~created /\ ~destroying) => count = 0

\* A call has a dma-buf exactly while it must put it, and a descriptor that
\* was just made is open, its own and not yet told.
CallsOK ==
    /\ \A t \in Threads :
          /\ buf[t] = NoBuf <=> call[t] \in {"idle", "named"}
          /\ call[t] = "idle" => newFd[t] = NoFd
          /\ call[t] = "named" => newFd[t] # NoFd
          /\ newFd[t] # NoFd => fdt[newFd[t]] # NoBuf /\ newFd[t] \notin told /\ newFd[t] # recFd
          /\ \A u \in Threads : newFd[t] = newFd[u] /\ newFd[t] # NoFd => t = u
    /\ exiting => \A t \in Threads : call[t] = "idle"

\* The call on a picture; a descriptor between the halves of
\* al5_bufpool_reserve_fd names a buffer of the pool.
RecOK ==
    /\ recBuf = NoBuf <=> rec # "get_id"
    /\ recFd = NoFd <=> rec # "reserve"
    /\ rec = "reserve" => /\ ctl = "idle"
                          /\ fdt[recFd] # NoBuf
                          /\ recFd \notin told
                          /\ \E i \in Ids : PoolOf[i] = fdt[recFd]
    /\ exiting => rec = "idle"

ToldOpen == \A fd \in told : fdt[fd] # NoBuf

\* A freed array is one that al5_bufpool_free is about to forget, or the one of
\* fail_handles.
ArraysOK ==
    /\ arrays["handles"] = "freed" => ctl = "reset"
    /\ arrays["buffers"] = "freed" => ctl = "reset" \/ noHandles
    /\ faults \subseteq {"free after fail_handles", "read in undo"}

MapsOK == MappingsUndone

\* What nobody can free is owned by nobody.
LostOK ==
    \A b \in lost : /\ \A i \in Ids : PoolOf[i] # b
                    /\ \A fd \in Fds : fdt[fd] # b
                    /\ \A t \in Threads : buf[t] # b
                    /\ recBuf # b

\* The memory of a buffer is there exactly while it is referred to, or nobody
\* can free it any more.
MemoryOK ==
    /\ mem \in [Bufs -> BOOLEAN]
    /\ refs \in [Bufs -> Nat]
    /\ \A b \in Bufs \ lost : mem[b] <=> refs[b] > 0
    /\ \A b \in lost : mem[b]

BufPoolInv == Types /\ PoolOK /\ ChannelOK /\ CallsOK /\ RecOK /\ ToldOpen /\ ArraysOK
              /\ MapsOK /\ LostOK /\ MemoryOK /\ RefsMatchOwners

-----------------------------------------------------------------------------
\* Counting the owners of a buffer.

Is(x, c) == IF x = c THEN 1 ELSE 0

\* The entries of a table that name c.
Naming(S, f, c) == {y \in S : f[y] = c}

\* Two tables agree but for one entry.
Agree(S, f, g, x) == \A y \in S : y # x => g[y] = f[y]

\* One entry of a table changes: the number of entries that name c follows.
LEMMA CountUpdate ==
    ASSUME NEW S, IsFiniteSet(S), NEW f, NEW g, NEW x \in S, NEW c,
           Agree(S, f, g, x)
    PROVE  /\ Cardinality(Naming(S, f, c)) \in Nat
           /\ Cardinality(Naming(S, g, c))
                = Cardinality(Naming(S, f, c))
                  + Is(g[x], c) - Is(f[x], c)
           /\ f[x] = c => Cardinality(Naming(S, f, c)) >= 1
<1> DEFINE A == {y \in S : y # x /\ f[y] = c}
           F == {y \in S : f[y] = c}
           G == {y \in S : g[y] = c}
<1> USE DEF Agree
<1>1. IsFiniteSet(A) /\ Cardinality(A) \in Nat
    BY FS_Subset, FS_CardinalityType
<1>2. x \notin A
    OBVIOUS
<1>3. Cardinality(F) = Cardinality(A) + (IF f[x] = c THEN 1 ELSE 0)
    <2>1. CASE f[x] = c
        <3>1. F = A \cup {x}
            BY <2>1
        <3> HIDE DEF A, F
        <3> QED
            BY <1>1, <1>2, <2>1, <3>1, FS_AddElement
    <2>2. CASE f[x] # c
        <3>1. F = A
            BY <2>2
        <3> HIDE DEF A, F
        <3> QED
            BY <1>1, <2>2, <3>1
    <2> QED
        BY <2>1, <2>2
<1>4. Cardinality(G) = Cardinality(A) + (IF g[x] = c THEN 1 ELSE 0)
    <2>1. CASE g[x] = c
        <3>1. G = A \cup {x}
            BY <2>1
        <3> HIDE DEF A, G
        <3> QED
            BY <1>1, <1>2, <2>1, <3>1, FS_AddElement
    <2>2. CASE g[x] # c
        <3>1. G = A
            BY <2>2
        <3> HIDE DEF A, G
        <3> QED
            BY <1>1, <2>2, <3>1
    <2> QED
        BY <2>1, <2>2
<1> HIDE DEF A, F, G
<1> QED
    BY <1>1, <1>3, <1>4 DEF Naming, Is, F, G

\* The number of entries that name c is a number, and positive if there is one.
LEMMA CountType ==
    ASSUME NEW S, IsFiniteSet(S), NEW f, NEW c
    PROVE  /\ Cardinality(Naming(S, f, c)) \in Nat
           /\ \A x \in S : f[x] = c => Cardinality(Naming(S, f, c)) >= 1
           /\ (\A x \in S : f[x] # c) => Cardinality(Naming(S, f, c)) = 0
<1> DEFINE F == {y \in S : f[y] = c}
<1>1. IsFiniteSet(F) /\ Cardinality(F) \in Nat
    BY FS_Subset, FS_CardinalityType
<1>2. \A x \in S : f[x] = c => F # {}
    OBVIOUS
<1>3. (\A x \in S : f[x] # c) => F = {}
    OBVIOUS
<1> HIDE DEF F
<1>4. Cardinality(F) = 0 <=> F = {}
    BY <1>1, FS_EmptySet
<1> QED
    BY <1>1, <1>2, <1>3, <1>4 DEF Naming, F

LEMMA FiniteIds == IsFiniteSet(Ids)
    BY BufPoolAssumption, FS_Interval DEF Ids

LEMMA OwnersAreCounts ==
    ASSUME NEW b \in Bufs
    PROVE  /\ PoolRefs(b) = Cardinality(Naming(Ids, PoolOf, b))
           /\ FdRefs(b) = Cardinality(Naming(Fds, fdt, b))
           /\ CallRefs(b) = Cardinality(Naming(Threads, buf, b)) + (IF recBuf = b THEN 1 ELSE 0)
<1>1. {i \in Ids : i < count /\ handles[i] = b /\ (ctl = "put" => i >= next) /\ ctl # "reset"}
        = Naming(Ids, PoolOf, b)
    BY BufPoolAssumption DEF PoolOf, Owned, Naming
<1> QED
    BY <1>1 DEF PoolRefs, FdRefs, CallRefs, Held, Naming

\* The owners of a buffer, as numbers.
LEMMA OwnerTypes ==
    ASSUME NEW b \in Bufs
    PROVE  /\ PoolRefs(b) \in Nat /\ FdRefs(b) \in Nat /\ CallRefs(b) \in Nat
           /\ \A i \in Ids : PoolOf[i] = b => PoolRefs(b) >= 1
           /\ \A fd \in Fds : fdt[fd] = b => FdRefs(b) >= 1
           /\ \A t \in Threads : buf[t] = b => CallRefs(b) >= 1
           /\ recBuf = b => CallRefs(b) >= 1
           /\ /\ \A i \in Ids : PoolOf[i] # b
              /\ \A fd \in Fds : fdt[fd] # b
              /\ \A t \in Threads : buf[t] # b
              /\ recBuf # b
              => PoolRefs(b) + FdRefs(b) + CallRefs(b) = 0
<1>1. /\ PoolRefs(b) \in Nat
      /\ \A i \in Ids : PoolOf[i] = b => PoolRefs(b) >= 1
      /\ (\A i \in Ids : PoolOf[i] # b) => PoolRefs(b) = 0
    BY OwnersAreCounts, FiniteIds, CountType
<1>2. /\ FdRefs(b) \in Nat
      /\ \A fd \in Fds : fdt[fd] = b => FdRefs(b) >= 1
      /\ (\A fd \in Fds : fdt[fd] # b) => FdRefs(b) = 0
    BY OwnersAreCounts, BufPoolAssumption, CountType
<1> DEFINE C == Cardinality(Naming(Threads, buf, b))
<1>3. /\ C \in Nat
      /\ \A t \in Threads : buf[t] = b => C >= 1
      /\ (\A t \in Threads : buf[t] # b) => C = 0
    BY BufPoolAssumption, CountType
<1>4. CallRefs(b) = C + (IF recBuf = b THEN 1 ELSE 0)
    BY OwnersAreCounts
<1> HIDE DEF C
<1> QED
    BY <1>1, <1>2, <1>3, <1>4

-----------------------------------------------------------------------------
\* Consequences of the invariant that the steps go by.

\* Between the halves of al5_bufpool_reserve_fd both the pool and the descriptor
\* name the buffer, so one reference stands for both.
LEMMA LentIsShared ==
    ASSUME BufPoolInv, NEW b \in Bufs
    PROVE  /\ Lent(b) \in {0, 1}
           /\ Lent(b) = 1 => PoolRefs(b) >= 1 /\ FdRefs(b) >= 1
<1>1. Lent(b) \in {0, 1}
    BY DEF Lent
<1>2. ASSUME Lent(b) = 1 PROVE PoolRefs(b) >= 1 /\ FdRefs(b) >= 1
    <2>1. rec = "reserve" /\ fdt[recFd] = b
        BY <1>2 DEF Lent
    <2>2. recFd \in Fds /\ \E i \in Ids : PoolOf[i] = b
        BY <2>1 DEF BufPoolInv, Types, RecOK
    <2> QED
        BY <2>1, <2>2, OwnerTypes
<1> QED
    BY <1>1, <1>2

\* A buffer with an owner is not lost, and is referred to.
LEMMA OwnedIsReferred ==
    ASSUME BufPoolInv, NEW b \in Bufs,
           \/ \E i \in Ids : PoolOf[i] = b
           \/ \E fd \in Fds : fdt[fd] = b
           \/ \E t \in Threads : buf[t] = b
           \/ recBuf = b
    PROVE  b \notin lost /\ refs[b] >= 1
<1>1. b \notin lost
    BY DEF BufPoolInv, LostOK
<1>2. refs[b] = PoolRefs(b) + FdRefs(b) + CallRefs(b) - Lent(b)
    BY <1>1 DEF BufPoolInv, RefsMatchOwners
<1>3. PoolRefs(b) + FdRefs(b) + CallRefs(b) >= 1
    BY OwnerTypes
<1> QED
    BY <1>1, <1>2, <1>3, LentIsShared, OwnerTypes

\* A place that is free is nobody's.
LEMMA FreeIsNobodys ==
    ASSUME BufPoolInv, NEW b \in Bufs, ~mem[b]
    PROVE  /\ b \notin lost /\ refs[b] = 0
           /\ \A i \in Ids : PoolOf[i] # b
           /\ \A fd \in Fds : fdt[fd] # b
           /\ \A t \in Threads : buf[t] # b
           /\ recBuf # b
<1>1. b \notin lost
    BY DEF BufPoolInv, MemoryOK
<1>2. refs[b] = 0
    BY <1>1 DEF BufPoolInv, MemoryOK
<1> QED
    BY <1>1, <1>2, OwnedIsReferred

\* The picture the firmware names is one of the pool, which is complete.
LEMMA ReservedIsOwned ==
    ASSUME BufPoolInv, NEW id \in FirmwareIds, ReserveFd(id)
    PROVE  /\ ctl = "idle" /\ ~exiting
           /\ id \in Ids /\ PoolOf[id] = handles[id] /\ handles[id] \in Bufs
<1>1. ctl = "idle" /\ id \in 0..count-1 /\ ~exiting
    BY DEF ReserveFd, RecMayRun, FirmwareIds, RefusedId, BufPoolInv, Types
<1>2. id \in Ids /\ id < count
    BY <1>1, BufPoolAssumption DEF BufPoolInv, Types, Ids
<1> QED
    BY <1>1, <1>2 DEF BufPoolInv, Types, PoolOK, PoolOf, Owned

\* The steps that leave the owners and their buffers as they are.
Quiet ==
    \/ check_and_affect_chan_uid
    \/ AllocateArrays \/ AllocateNoBuffers \/ AllocateNoHandles \/ AllocateFails
    \/ FreeEnter \/ FreeArrays \/ FreeReset
    \/ \E t \in Threads : \/ al5_dmabuf_attach(t) \/ MapAttachment(t)
                          \/ al5_dmabuf_detach(t) \/ ImporterMap(t)
    \/ Exit \/ Exited

LEMMA QuietSteps ==
    ASSUME BufPoolInv, Quiet
    PROVE  /\ UNCHANGED <<mem, refs, fdt, rec, recBuf, recFd, buf, lost>>
           /\ PoolOf' = PoolOf
<1>1. UNCHANGED <<mem, refs, fdt, rec, recBuf, recFd, buf, lost>>
    BY DEF Quiet, check_and_affect_chan_uid, AllocateArrays, AllocateNoBuffers, AllocateNoHandles, AllocateFails, FreeEnter,
       FreeArrays, FreeReset, al5_dmabuf_attach, MapAttachment, al5_dmabuf_detach, ImporterMap,
       Exit, Exited, memVars, fdVars, poolVars, recVars, callVars, histVars
<1>2. \A i \in Ids : PoolOf'[i] = PoolOf[i]
    BY BufPoolAssumption DEF BufPoolInv, Types, PoolOK, ChannelOK, PoolOf, Owned, Ids,
       Quiet, check_and_affect_chan_uid, AllocateArrays, AllocateNoBuffers, AllocateNoHandles, AllocateFails, FreeEnter,
       FreeArrays, FreeReset, al5_dmabuf_attach, MapAttachment, al5_dmabuf_detach, ImporterMap,
       Exit, Exited, poolVars
<1> QED
    BY <1>1, <1>2 DEF PoolOf

\* A step on the pool changes one owner at most.
LEMMA PoolOfKept ==
    ASSUME UNCHANGED <<count, handles, ctl, next>>
    PROVE  PoolOf' = PoolOf
    BY DEF PoolOf, Owned

LEMMA PoolOfPut ==
    ASSUME BufPoolInv, FreePut
    PROVE  /\ next \in Ids /\ handles[next] \in Bufs
           /\ PoolOf[next] = handles[next] /\ PoolOf'[next] = NoBuf
           /\ Agree(Ids, PoolOf, PoolOf', next)
<1>1. next \in Ids /\ handles[next] \in Bufs
    BY BufPoolAssumption DEF BufPoolInv, Types, PoolOK, FreePut, Ids
<1> QED
    BY <1>1, BufPoolAssumption DEF BufPoolInv, Types, FreePut, PoolOf, Owned, Ids, Agree

LEMMA PoolOfAllocate ==
    ASSUME BufPoolInv, NEW b \in Bufs, ctl = "fill", count' = count + 1,
           handles' = [handles EXCEPT ![count] = b],
           ctl' = IF count + 1 = Count THEN "idle" ELSE "fill"
    PROVE  /\ count \in Ids
           /\ PoolOf[count] = NoBuf /\ PoolOf'[count] = b
           /\ Agree(Ids, PoolOf, PoolOf', count)
<1>1. count \in Ids
    BY BufPoolAssumption DEF BufPoolInv, Types, PoolOK, Ids
<1> QED
    BY <1>1, BufPoolAssumption DEF BufPoolInv, Types, PoolOf, Owned, Ids, Agree

-----------------------------------------------------------------------------
\* How a step moves the numbers of owners.

OwnerNumbers ==
    \A c \in Bufs : /\ PoolRefs(c) = Cardinality(Naming(Ids, PoolOf, c))
                    /\ FdRefs(c) = Cardinality(Naming(Fds, fdt, c))
                    /\ CallRefs(c) = Cardinality(Naming(Threads, buf, c)) + Is(recBuf, c)

LEMMA Numbers == OwnerNumbers
    BY OwnersAreCounts DEF OwnerNumbers, Is

LEMMA NumbersNext == OwnerNumbers'
    BY Numbers, PTL

LEMMA PoolSame ==
    ASSUME PoolOf' = PoolOf, NEW c \in Bufs
    PROVE  PoolRefs(c)' = PoolRefs(c)
    BY Numbers, NumbersNext DEF OwnerNumbers

LEMMA PoolMoves ==
    ASSUME NEW i \in Ids, Agree(Ids, PoolOf, PoolOf', i), NEW c \in Bufs
    PROVE  PoolRefs(c)' = PoolRefs(c) + Is(PoolOf'[i], c) - Is(PoolOf[i], c)
<1>1. /\ Cardinality(Naming(Ids, PoolOf, c)) \in Nat
      /\ Cardinality(Naming(Ids, PoolOf', c))
           = Cardinality(Naming(Ids, PoolOf, c)) + Is(PoolOf'[i], c) - Is(PoolOf[i], c)
    BY FiniteIds, CountUpdate
<1> QED
    BY <1>1, Numbers, NumbersNext, Zenon DEF OwnerNumbers

LEMMA FdSame ==
    ASSUME fdt' = fdt, NEW c \in Bufs
    PROVE  FdRefs(c)' = FdRefs(c)
    BY DEF FdRefs

LEMMA FdMoves ==
    ASSUME NEW fd \in Fds, Agree(Fds, fdt, fdt', fd), NEW c \in Bufs
    PROVE  FdRefs(c)' = FdRefs(c) + Is(fdt'[fd], c) - Is(fdt[fd], c)
<1>1. Cardinality(Naming(Fds, fdt', c))
        = Cardinality(Naming(Fds, fdt, c)) + Is(fdt'[fd], c) - Is(fdt[fd], c)
    BY BufPoolAssumption, CountUpdate
<1> QED
    BY <1>1, Numbers, NumbersNext, Zenon DEF OwnerNumbers

LEMMA CallSame ==
    ASSUME buf' = buf, recBuf' = recBuf, NEW c \in Bufs
    PROVE  CallRefs(c)' = CallRefs(c)
    BY DEF CallRefs

LEMMA CallMoves ==
    ASSUME NEW t \in Threads, Agree(Threads, buf, buf', t), recBuf' = recBuf, NEW c \in Bufs
    PROVE  CallRefs(c)' = CallRefs(c) + Is(buf'[t], c) - Is(buf[t], c)
<1>1. /\ Cardinality(Naming(Threads, buf, c)) \in Nat
      /\ Cardinality(Naming(Threads, buf', c))
           = Cardinality(Naming(Threads, buf, c)) + Is(buf'[t], c) - Is(buf[t], c)
    BY BufPoolAssumption, CountUpdate
<1>2. /\ CallRefs(c) = Cardinality(Naming(Threads, buf, c)) + Is(recBuf, c)
      /\ CallRefs(c)' = Cardinality(Naming(Threads, buf', c)) + Is(recBuf, c)
    BY Numbers, NumbersNext DEF OwnerNumbers
<1> QED
    BY <1>1, <1>2 DEF Is

LEMMA RecMoves ==
    ASSUME buf' = buf, NEW c \in Bufs
    PROVE  CallRefs(c)' = CallRefs(c) + Is(recBuf', c) - Is(recBuf, c)
<1>1. Cardinality(Naming(Threads, buf, c)) \in Nat
    BY BufPoolAssumption, CountType
<1> QED
    BY <1>1, Numbers, NumbersNext DEF OwnerNumbers, Is

LEMMA LentSame ==
    ASSUME rec' = rec, recFd' = recFd, rec = "reserve" => fdt'[recFd] = fdt[recFd], NEW c \in Bufs
    PROVE  Lent(c)' = Lent(c)
    BY DEF Lent

-----------------------------------------------------------------------------
\* The memory and the references, whoever takes or puts one.

LEMMA AllocMoves ==
    ASSUME BufPoolInv, NEW b \in Bufs, AllocAndWrap(b), lost' = lost \/ lost' = lost \cup {b}
    PROVE  MemoryOK' /\ \A c \in Bufs : refs'[c] = refs[c] + Is(b, c)
<1>1. ~mem[b] /\ refs[b] = 0 /\ b \notin lost
    BY FreeIsNobodys DEF AllocAndWrap
<1>2. mem' = [mem EXCEPT ![b] = TRUE] /\ refs' = [refs EXCEPT ![b] = 1]
    BY DEF AllocAndWrap
<1> QED
    BY <1>1, <1>2 DEF BufPoolInv, MemoryOK, Is

LEMMA GetMoves ==
    ASSUME BufPoolInv, NEW b \in Bufs, refs[b] >= 1, b \notin lost, dma_buf_get(b), lost' = lost
    PROVE  MemoryOK' /\ \A c \in Bufs : refs'[c] = refs[c] + Is(b, c)
    BY DEF BufPoolInv, MemoryOK, Is, dma_buf_get

LEMMA PutMoves ==
    ASSUME BufPoolInv, NEW b \in Bufs, refs[b] >= 1, b \notin lost, dma_buf_put(b), lost' = lost
    PROVE  MemoryOK' /\ \A c \in Bufs : refs'[c] = refs[c] - Is(b, c)
<1>1. refs' = [refs EXCEPT ![b] = refs[b] - 1] /\ refs[b] \in Nat
    BY DEF dma_buf_put, BufPoolInv, MemoryOK
<1>2. refs' \in [Bufs -> Nat] /\ \A c \in Bufs : refs'[c] = refs[c] - Is(b, c)
    BY <1>1 DEF BufPoolInv, MemoryOK, Is
<1>3. CASE refs[b] = 1
    <2>1. mem' = [mem EXCEPT ![b] = FALSE]
        BY <1>3 DEF dma_buf_put, al5_dmabuf_release
    <2> QED
        BY <1>1, <1>2, <1>3, <2>1 DEF BufPoolInv, MemoryOK
<1>4. CASE refs[b] # 1
    <2>1. mem' = [mem EXCEPT ![b] = TRUE]
        BY <1>4 DEF dma_buf_put, al5_dmabuf_release
    <2> QED
        BY <1>1, <1>2, <1>4, <2>1 DEF BufPoolInv, MemoryOK
<1> QED
    BY <1>2, <1>3, <1>4

\* A map leaves at most one mapping.
LEMMA MapMoves ==
    ASSUME BufPoolInv, NEW t \in Threads, NEW d \in Directions, al5_dmabuf_map(t, d)
    PROVE  dir' \in [Threads -> Directions \cup {"NONE"}] /\ maps' \in [Threads -> Nat]
<1>1. /\ dir \in [Threads -> Directions \cup {"NONE"}] /\ maps \in [Threads -> Nat]
      /\ maps[t] = Mapped(t) /\ Mapped(t) \in Nat
    BY DEF BufPoolInv, Types, MapsOK, MappingsUndone, Mapped
<1>2. CASE UNCHANGED <<dir, maps>>
    BY <1>1, <1>2
<1>3. CASE /\ maps' = [maps EXCEPT ![t] = @ - Mapped(t) + 1]
           /\ dir' = [dir EXCEPT ![t] = d]
    BY <1>1, <1>3
<1>4. CASE /\ maps' = [maps EXCEPT ![t] = @ - Mapped(t)]
           /\ dir' = [dir EXCEPT ![t] = "NONE"]
    BY <1>1, <1>4
<1> QED
    BY <1>2, <1>3, <1>4 DEF al5_dmabuf_map


\* Every variable keeps its type.
LEMMA Types_Next == BufPoolInv /\ Next => Types'
<1> SUFFICES ASSUME BufPoolInv, Next PROVE Types'
    OBVIOUS
<1> USE BufPoolAssumption DEF BufPoolInv, Types, Calls, Pointers, Ids, memVars, fdVars,
       poolVars, recVars, callVars, histVars
<1>1. CASE AllocateArrays
    BY <1>1 DEF AllocateArrays
<1>2. CASE AllocateNoBuffers
    <2>1. arrays' \in [{"buffers", "handles"} -> Pointers]
        BY <1>2 DEF AllocateNoBuffers
    <2> QED
        BY <1>2, <2>1 DEF AllocateNoBuffers
<1>3. CASE AllocateNoHandles
    BY <1>3 DEF AllocateNoHandles
<1>4. CASE FreeEnter
    BY <1>4 DEF FreeEnter
<1>5. CASE AllocateBuffer
    BY <1>5 DEF AllocateBuffer, PoolOK
<1>6. CASE AllocateFails
    BY <1>6 DEF AllocateFails
<1>7. CASE FreePut
    BY <1>7 DEF FreePut, dma_buf_put
<1>8. CASE FreeArrays
    BY <1>8 DEF FreeArrays, kfree
<1>9. CASE FreeReset
    BY <1>9 DEF FreeReset
<1>10. ASSUME NEW id \in FirmwareIds, ReserveFd(id) PROVE Types'
    BY <1>10, ReservedIsOwned DEF ReserveFd, dma_buf_fd
<1>11. CASE ReserveGet
    BY <1>11 DEF ReserveGet, RecOK
<1>12. CASE GetIdEnter
    BY <1>12 DEF GetIdEnter, dma_buf_get, RecMayRun
<1>13. CASE GetIdReturn
    BY <1>13 DEF GetIdReturn, dma_buf_put
<1>14. ASSUME NEW t \in Threads, AllocateDmabuf(t) PROVE Types'
    <2>1. UNCHANGED <<told, count, handles, arrays, ctl, next, rec, recBuf, recFd, buf, dir, maps>>
        BY <1>14 DEF AllocateDmabuf
    <2>2. lost' \subseteq Bufs
        BY <1>14 DEF AllocateDmabuf
    <2>3. \/ UNCHANGED <<fdt, newFd, call>>
          \/ \E b \in Bufs, fd \in Fds : /\ fdt' = [fdt EXCEPT ![fd] = b]
                                        /\ newFd' = [newFd EXCEPT ![t] = fd]
                                        /\ call' = [call EXCEPT ![t] = "named"]
        BY <1>14 DEF AllocateDmabuf, dma_buf_fd
    <2>4. fdt' \in [Fds -> Bufs \cup {NoBuf}]
        BY <2>3
    <2>5. newFd' \in [Threads -> Fds \cup {NoFd}]
        BY <2>3
    <2>6. call' \in [Threads -> Calls]
        BY <2>3
    <2> QED
        BY <2>1, <2>2, <2>4, <2>5, <2>6
<1>15. ASSUME NEW t \in Threads, GetKnownFd(t) PROVE Types'
    BY <1>15 DEF GetKnownFd, GetFd, dma_buf_get
<1>16. ASSUME NEW t \in Threads, GetNewFd(t) PROVE Types'
    <2>1. newFd[t] \in Fds
        BY <1>16 DEF GetNewFd, CallsOK
    <2> QED
        BY <1>16, <2>1 DEF GetNewFd, GetFd
<1>17. ASSUME NEW t \in Threads, al5_dmabuf_attach(t) PROVE Types'
    BY <1>17 DEF al5_dmabuf_attach
<1>18. ASSUME NEW t \in Threads, MapAttachment(t) PROVE Types'
    <2>1. al5_dmabuf_map(t, "BIDIRECTIONAL")
        BY <1>18 DEF MapAttachment
    <2>2. dir' \in [Threads -> Directions \cup {"NONE"}] /\ maps' \in [Threads -> Nat]
        BY <2>1, MapMoves DEF Directions
    <2> QED
        BY <1>18, <2>2 DEF MapAttachment
<1>19. ASSUME NEW t \in Threads, al5_dmabuf_detach(t) PROVE Types'
    BY <1>19 DEF al5_dmabuf_detach, MapsOK, MappingsUndone, Mapped
<1>20. ASSUME NEW t \in Threads, PutAddress(t) PROVE Types'
    BY <1>20 DEF PutAddress, dma_buf_put
<1>21. ASSUME NEW t \in Threads, ImporterMap(t) PROVE Types'
    <2>1. dir' \in [Threads -> Directions \cup {"NONE"}] /\ maps' \in [Threads -> Nat]
        BY <1>21, MapMoves DEF ImporterMap
    <2> QED
        BY <1>21, <2>1 DEF ImporterMap
<1>22. ASSUME NEW fd \in Fds, Close(fd) PROVE Types'
    BY <1>22 DEF Close, dma_buf_put
<1>23. CASE Exit
    BY <1>23 DEF Exit
<1>24. CASE Exited
    BY <1>24 DEF Exited
<1>25. CASE check_and_affect_chan_uid
    BY <1>25 DEF check_and_affect_chan_uid
<1> QED
    BY <1>1, <1>2, <1>3, <1>4, <1>5, <1>6, <1>7, <1>8, <1>9, <1>10, <1>11, <1>12, <1>13,
       <1>14, <1>15, <1>16, <1>17, <1>18, <1>19, <1>20, <1>21, <1>22, <1>23, <1>24, <1>25 DEF Next,
       PoolStep, CallStep

\* The buffers of a pool are as many as its count says and distinct: a buffer that is not
\* allocated is no other entry's.
LEMMA PoolOK_Next == BufPoolInv /\ Next => PoolOK'
<1> SUFFICES ASSUME BufPoolInv, Next PROVE PoolOK'
    OBVIOUS
<1> USE BufPoolAssumption DEF BufPoolInv, Types, PoolOK, Ids, Owned, PoolOf, memVars, fdVars,
       poolVars, recVars, callVars, histVars
<1>1. CASE AllocateArrays
    BY <1>1 DEF AllocateArrays
<1>2. CASE AllocateNoBuffers
    BY <1>2 DEF AllocateNoBuffers
<1>3. CASE AllocateNoHandles
    BY <1>3 DEF AllocateNoHandles
<1>4. CASE FreeEnter
    BY <1>4 DEF FreeEnter
<1>5. CASE AllocateBuffer
    <2>1. PICK b \in Bufs : AllocAndWrap(b) /\ handles' = [handles EXCEPT ![count] = b]
        BY <1>5 DEF AllocateBuffer
    <2>2. /\ ctl = "fill" /\ count' = count + 1 /\ next' = next
          /\ ctl' = IF count + 1 = Count THEN "idle" ELSE "fill"
        BY <1>5 DEF AllocateBuffer
    <2>3. /\ count \in Ids
          /\ PoolOf'[count] = b
          /\ \A i \in Ids : i # count => PoolOf'[i] = PoolOf[i]
        BY <2>1, <2>2, PoolOfAllocate DEF Agree
    <2>4. b # NoBuf /\ \A i \in Ids : PoolOf[i] # b
        BY <2>1, FreeIsNobodys DEF AllocAndWrap
    <2>5. \A i, j \in Ids : i # j /\ PoolOf'[i] # NoBuf => PoolOf'[i] # PoolOf'[j]
        <3> HIDE DEF PoolOf
        <3> QED
            BY <2>3, <2>4
    <2>6. \A i \in Ids : i < count' => handles'[i] # NoBuf
        BY <2>1, <2>2, <2>3, <2>4
    <2>7. /\ ctl' = "idle" => count' \in {0, Count}
          /\ ctl' = "fill" => count' < Count
          /\ ctl' # "put"
        BY <2>2
    <2> HIDE DEF PoolOf
    <2> QED
        BY <2>5, <2>6, <2>7
<1>6. CASE AllocateFails
    BY <1>6 DEF AllocateFails
<1>7. CASE FreePut
    BY <1>7 DEF FreePut, dma_buf_put
<1>8. CASE FreeArrays
    BY <1>8 DEF FreeArrays, kfree
<1>9. CASE FreeReset
    BY <1>9 DEF FreeReset
<1>10. ASSUME NEW id \in FirmwareIds, ReserveFd(id) PROVE PoolOK'
    BY <1>10 DEF ReserveFd, dma_buf_fd, FreeFds
<1>11. CASE ReserveGet
    BY <1>11 DEF ReserveGet, dma_buf_get
<1>12. CASE GetIdEnter
    BY <1>12 DEF GetIdEnter, dma_buf_get, RecMayRun
<1>13. CASE GetIdReturn
    BY <1>13 DEF GetIdReturn, dma_buf_put
<1>14. ASSUME NEW t \in Threads, AllocateDmabuf(t) PROVE PoolOK'
    BY <1>14 DEF AllocateDmabuf, AllocAndWrap, AllocOnly, dma_buf_fd, FreeFds
<1>15. ASSUME NEW t \in Threads, GetKnownFd(t) PROVE PoolOK'
    BY <1>15 DEF GetKnownFd, GetFd, dma_buf_get
<1>16. ASSUME NEW t \in Threads, GetNewFd(t) PROVE PoolOK'
    BY <1>16 DEF GetNewFd, GetFd, dma_buf_get
<1>17. ASSUME NEW t \in Threads, al5_dmabuf_attach(t) PROVE PoolOK'
    BY <1>17 DEF al5_dmabuf_attach
<1>18. ASSUME NEW t \in Threads, MapAttachment(t) PROVE PoolOK'
    BY <1>18 DEF MapAttachment, al5_dmabuf_map, Mapped, Directions
<1>19. ASSUME NEW t \in Threads, al5_dmabuf_detach(t) PROVE PoolOK'
    BY <1>19 DEF al5_dmabuf_detach, Mapped
<1>20. ASSUME NEW t \in Threads, PutAddress(t) PROVE PoolOK'
    BY <1>20 DEF PutAddress, dma_buf_put
<1>21. ASSUME NEW t \in Threads, ImporterMap(t) PROVE PoolOK'
    BY <1>21 DEF ImporterMap, al5_dmabuf_map, Mapped, Directions
<1>22. ASSUME NEW fd \in Fds, Close(fd) PROVE PoolOK'
    BY <1>22 DEF Close, dma_buf_put
<1>23. CASE Exit
    BY <1>23 DEF Exit
<1>24. CASE Exited
    BY <1>24 DEF Exited
<1>25. CASE check_and_affect_chan_uid
    BY <1>25 DEF check_and_affect_chan_uid
<1> QED
    BY <1>1, <1>2, <1>3, <1>4, <1>5, <1>6, <1>7, <1>8, <1>9, <1>10, <1>11, <1>12, <1>13,
       <1>14, <1>15, <1>16, <1>17, <1>18, <1>19, <1>20, <1>21, <1>22, <1>23, <1>24, <1>25 DEF Next,
       PoolStep, CallStep

\* The id of the channel is there before its buffers are, and goes before they do, under
\* every mutex.
LEMMA ChannelOK_Next == BufPoolInv /\ Next => ChannelOK'
<1> SUFFICES ASSUME BufPoolInv, Next PROVE ChannelOK'
    OBVIOUS
<1> USE DEF BufPoolInv, Types, ChannelOK, memVars, fdVars, poolVars, recVars, callVars, histVars
<1>1. CASE AllocateArrays
    BY <1>1 DEF AllocateArrays
<1>2. CASE AllocateNoBuffers
    BY <1>2 DEF AllocateNoBuffers
<1>3. CASE AllocateNoHandles
    BY <1>3 DEF AllocateNoHandles
<1>4. CASE FreeEnter
    BY <1>4 DEF FreeEnter
<1>5. CASE AllocateBuffer
    BY <1>5 DEF AllocateBuffer
<1>6. CASE AllocateFails
    BY <1>6 DEF AllocateFails
<1>7. CASE FreePut
    BY <1>7 DEF FreePut
<1>8. CASE FreeArrays
    BY <1>8 DEF FreeArrays
<1>9. CASE FreeReset
    BY <1>9 DEF FreeReset
<1>10. ASSUME NEW id \in FirmwareIds, ReserveFd(id) PROVE ChannelOK'
    BY <1>10 DEF ReserveFd, RecMayRun
<1>11. CASE ReserveGet
    BY <1>11 DEF ReserveGet
<1>12. CASE GetIdEnter
    BY <1>12 DEF GetIdEnter, RecMayRun
<1>13. CASE GetIdReturn
    BY <1>13 DEF GetIdReturn
<1>14. ASSUME NEW t \in Threads, AllocateDmabuf(t) PROVE ChannelOK'
    BY <1>14 DEF AllocateDmabuf
<1>15. ASSUME NEW t \in Threads, GetKnownFd(t) PROVE ChannelOK'
    BY <1>15 DEF GetKnownFd, GetFd
<1>16. ASSUME NEW t \in Threads, GetNewFd(t) PROVE ChannelOK'
    BY <1>16 DEF GetNewFd, GetFd
<1>17. ASSUME NEW t \in Threads, al5_dmabuf_attach(t) PROVE ChannelOK'
    BY <1>17 DEF al5_dmabuf_attach
<1>18. ASSUME NEW t \in Threads, MapAttachment(t) PROVE ChannelOK'
    BY <1>18 DEF MapAttachment
<1>19. ASSUME NEW t \in Threads, al5_dmabuf_detach(t) PROVE ChannelOK'
    BY <1>19 DEF al5_dmabuf_detach
<1>20. ASSUME NEW t \in Threads, PutAddress(t) PROVE ChannelOK'
    BY <1>20 DEF PutAddress
<1>21. ASSUME NEW t \in Threads, ImporterMap(t) PROVE ChannelOK'
    BY <1>21 DEF ImporterMap
<1>22. ASSUME NEW fd \in Fds, Close(fd) PROVE ChannelOK'
    BY <1>22 DEF Close
<1>23. CASE Exit
    BY <1>23 DEF Exit
<1>24. CASE Exited
    BY <1>24 DEF Exited
<1>25. CASE check_and_affect_chan_uid
    BY <1>25 DEF check_and_affect_chan_uid
<1> QED
    BY <1>1, <1>2, <1>3, <1>4, <1>5, <1>6, <1>7, <1>8, <1>9, <1>10, <1>11, <1>12, <1>13,
       <1>14, <1>15, <1>16, <1>17, <1>18, <1>19, <1>20, <1>21, <1>22, <1>23, <1>24, <1>25 DEF Next,
       PoolStep, CallStep

\* GET_DMA_FD and GET_DMA_PHY hold what they put, and only they know their descriptor.
LEMMA CallsOK_Next == BufPoolInv /\ Next => CallsOK'
<1> SUFFICES ASSUME BufPoolInv, Next PROVE CallsOK'
    OBVIOUS
<1> USE BufPoolAssumption DEF BufPoolInv, Types, Calls, CallsOK, memVars, fdVars, poolVars,
       recVars, callVars, histVars
<1>1. CASE AllocateArrays
    BY <1>1 DEF AllocateArrays
<1>2. CASE AllocateNoBuffers
    BY <1>2 DEF AllocateNoBuffers
<1>3. CASE AllocateNoHandles
    BY <1>3 DEF AllocateNoHandles
<1>4. CASE FreeEnter
    BY <1>4 DEF FreeEnter
<1>5. CASE AllocateBuffer
    BY <1>5 DEF AllocateBuffer, AllocAndWrap
<1>6. CASE AllocateFails
    BY <1>6 DEF AllocateFails
<1>7. CASE FreePut
    BY <1>7 DEF FreePut, dma_buf_put
<1>8. CASE FreeArrays
    BY <1>8 DEF FreeArrays, kfree
<1>9. CASE FreeReset
    BY <1>9 DEF FreeReset
<1>10. ASSUME NEW id \in FirmwareIds, ReserveFd(id) PROVE CallsOK'
    BY <1>10 DEF ReserveFd, dma_buf_fd, FreeFds
<1>11. CASE ReserveGet
    BY <1>11 DEF ReserveGet, dma_buf_get
<1>12. CASE GetIdEnter
    BY <1>12 DEF GetIdEnter, dma_buf_get, RecMayRun
<1>13. CASE GetIdReturn
    BY <1>13 DEF GetIdReturn, dma_buf_put
<1>14. ASSUME NEW t \in Threads, AllocateDmabuf(t) PROVE CallsOK'
    <2>1. call[t] = "idle" /\ newFd[t] = NoFd /\ ~exiting
          /\ UNCHANGED <<told, recFd, buf, exiting>>
        BY <1>14 DEF AllocateDmabuf
    <2>2. CASE UNCHANGED <<fdt, newFd, call>>
        BY <2>1, <2>2
    <2>3. ASSUME NEW b \in Bufs, NEW fd \in Fds, dma_buf_fd(fd, b),
                 newFd' = [newFd EXCEPT ![t] = fd], call' = [call EXCEPT ![t] = "named"]
          PROVE  CallsOK'
        <3>1. fdt[fd] = NoBuf /\ fdt' = [fdt EXCEPT ![fd] = b]
            BY <2>3 DEF dma_buf_fd, FreeFds
        <3>2. fd \notin told /\ fd # recFd /\ \A u \in Threads : newFd[u] # fd
            BY <3>1 DEF ToldOpen, RecOK
        <3> QED
            BY <2>1, <2>3, <3>1, <3>2
    <2> QED
        BY <1>14, <2>2, <2>3 DEF AllocateDmabuf
<1>15. ASSUME NEW t \in Threads, GetKnownFd(t) PROVE CallsOK'
    BY <1>15 DEF GetKnownFd, GetFd, dma_buf_get
<1>16. ASSUME NEW t \in Threads, GetNewFd(t) PROVE CallsOK'
    BY <1>16 DEF GetNewFd, GetFd, dma_buf_get
<1>17. ASSUME NEW t \in Threads, al5_dmabuf_attach(t) PROVE CallsOK'
    BY <1>17 DEF al5_dmabuf_attach
<1>18. ASSUME NEW t \in Threads, MapAttachment(t) PROVE CallsOK'
    BY <1>18 DEF MapAttachment, al5_dmabuf_map, Mapped, Directions
<1>19. ASSUME NEW t \in Threads, al5_dmabuf_detach(t) PROVE CallsOK'
    BY <1>19 DEF al5_dmabuf_detach, Mapped
<1>20. ASSUME NEW t \in Threads, PutAddress(t) PROVE CallsOK'
    BY <1>20 DEF PutAddress, dma_buf_put
<1>21. ASSUME NEW t \in Threads, ImporterMap(t) PROVE CallsOK'
    BY <1>21 DEF ImporterMap, al5_dmabuf_map, Mapped, Directions
<1>22. ASSUME NEW fd \in Fds, Close(fd) PROVE CallsOK'
    BY <1>22 DEF Close, dma_buf_put
<1>23. CASE Exit
    BY <1>23 DEF Exit
<1>24. CASE Exited
    BY <1>24 DEF Exited
<1>25. CASE check_and_affect_chan_uid
    BY <1>25 DEF check_and_affect_chan_uid
<1> QED
    BY <1>1, <1>2, <1>3, <1>4, <1>5, <1>6, <1>7, <1>8, <1>9, <1>10, <1>11, <1>12, <1>13,
       <1>14, <1>15, <1>16, <1>17, <1>18, <1>19, <1>20, <1>21, <1>22, <1>23, <1>24, <1>25 DEF Next,
       PoolStep, CallStep

\* The call on a picture keeps the pool in place.
LEMMA RecOK_Next == BufPoolInv /\ Next => RecOK'
<1> SUFFICES ASSUME BufPoolInv, Next PROVE RecOK'
    OBVIOUS
<1> USE BufPoolAssumption DEF BufPoolInv, Types, RecOK, Ids, Owned, PoolOf, memVars, fdVars,
       poolVars, recVars, callVars, histVars
<1>1. CASE AllocateArrays
    BY <1>1 DEF AllocateArrays
<1>2. CASE AllocateNoBuffers
    BY <1>2 DEF AllocateNoBuffers
<1>3. CASE AllocateNoHandles
    BY <1>3 DEF AllocateNoHandles
<1>4. CASE FreeEnter
    BY <1>4 DEF FreeEnter
<1>5. CASE AllocateBuffer
    BY <1>5 DEF AllocateBuffer, AllocAndWrap
<1>6. CASE AllocateFails
    BY <1>6 DEF AllocateFails
<1>7. CASE FreePut
    BY <1>7 DEF FreePut, dma_buf_put
<1>8. CASE FreeArrays
    BY <1>8 DEF FreeArrays, kfree
<1>9. CASE FreeReset
    BY <1>9 DEF FreeReset
<1>10. ASSUME NEW id \in FirmwareIds, ReserveFd(id) PROVE RecOK'
    <2>1. /\ ctl = "idle" /\ ~exiting /\ id \in Ids
          /\ PoolOf[id] = handles[id] /\ handles[id] \in Bufs
        BY <1>10, ReservedIsOwned
    <2>2. PICK fd \in Fds : fdt[fd] = NoBuf /\ fdt' = [fdt EXCEPT ![fd] = handles[id]] /\ recFd' = fd
        BY <1>10 DEF ReserveFd, dma_buf_fd, FreeFds
    <2>3. PoolOf' = PoolOf
        BY <1>10, PoolOfKept DEF ReserveFd
    <2>4. rec = "idle" /\ rec' = "reserve" /\ UNCHANGED <<ctl, recBuf, exiting, told>>
        BY <1>10 DEF ReserveFd, RecMayRun
    <2>5. fd \notin told /\ fdt'[fd] = handles[id] /\ handles[id] # NoBuf
        BY <2>1, <2>2 DEF ToldOpen
    <2> HIDE DEF PoolOf
    <2> QED
        BY <2>1, <2>2, <2>3, <2>4, <2>5
<1>11. CASE ReserveGet
    BY <1>11 DEF ReserveGet, dma_buf_get
<1>12. CASE GetIdEnter
    BY <1>12 DEF GetIdEnter, dma_buf_get, RecMayRun
<1>13. CASE GetIdReturn
    BY <1>13 DEF GetIdReturn, dma_buf_put
<1>14. ASSUME NEW t \in Threads, AllocateDmabuf(t) PROVE RecOK'
    BY <1>14 DEF AllocateDmabuf, AllocAndWrap, AllocOnly, dma_buf_fd, FreeFds
<1>15. ASSUME NEW t \in Threads, GetKnownFd(t) PROVE RecOK'
    BY <1>15 DEF GetKnownFd, GetFd, dma_buf_get
<1>16. ASSUME NEW t \in Threads, GetNewFd(t) PROVE RecOK'
    BY <1>16 DEF GetNewFd, GetFd, dma_buf_get
<1>17. ASSUME NEW t \in Threads, al5_dmabuf_attach(t) PROVE RecOK'
    BY <1>17 DEF al5_dmabuf_attach
<1>18. ASSUME NEW t \in Threads, MapAttachment(t) PROVE RecOK'
    BY <1>18 DEF MapAttachment, al5_dmabuf_map, Mapped, Directions
<1>19. ASSUME NEW t \in Threads, al5_dmabuf_detach(t) PROVE RecOK'
    BY <1>19 DEF al5_dmabuf_detach, Mapped
<1>20. ASSUME NEW t \in Threads, PutAddress(t) PROVE RecOK'
    <2>1. UNCHANGED <<fdt, count, handles, ctl, next, rec, recBuf, recFd, exiting>>
          /\ told' \subseteq told \cup ({newFd[t]} \ {NoFd})
        BY <1>20 DEF PutAddress
    <2>2. newFd[t] # NoFd => newFd[t] # recFd
        BY DEF CallsOK
    <2>3. rec = "reserve" => recFd \notin told' /\ recFd # NoFd
        BY <2>1, <2>2
    <2> QED
        BY <2>1, <2>3
<1>21. ASSUME NEW t \in Threads, ImporterMap(t) PROVE RecOK'
    BY <1>21 DEF ImporterMap, al5_dmabuf_map, Mapped, Directions
<1>22. ASSUME NEW fd \in Fds, Close(fd) PROVE RecOK'
    BY <1>22 DEF Close, dma_buf_put
<1>23. CASE Exit
    BY <1>23 DEF Exit
<1>24. CASE Exited
    BY <1>24 DEF Exited
<1>25. CASE check_and_affect_chan_uid
    <2>1. rec = "idle" /\ UNCHANGED <<rec, recBuf, recFd, exiting>>
        BY <1>25, Zenon DEF check_and_affect_chan_uid, ChannelOK
    <2> QED
        BY <2>1
<1> QED
    BY <1>1, <1>2, <1>3, <1>4, <1>5, <1>6, <1>7, <1>8, <1>9, <1>10, <1>11, <1>12, <1>13,
       <1>14, <1>15, <1>16, <1>17, <1>18, <1>19, <1>20, <1>21, <1>22, <1>23, <1>24, <1>25 DEF Next,
       PoolStep, CallStep

\* The client is told of open descriptors, and those it closes it forgets.
LEMMA ToldOpen_Next == BufPoolInv /\ Next => ToldOpen'
<1> SUFFICES ASSUME BufPoolInv, Next PROVE ToldOpen'
    OBVIOUS
<1> USE BufPoolAssumption DEF BufPoolInv, Types, CallsOK, RecOK, ToldOpen, memVars, fdVars,
       poolVars, recVars, callVars, histVars
<1>1. CASE AllocateArrays
    BY <1>1 DEF AllocateArrays
<1>2. CASE AllocateNoBuffers
    BY <1>2 DEF AllocateNoBuffers
<1>3. CASE AllocateNoHandles
    BY <1>3 DEF AllocateNoHandles
<1>4. CASE FreeEnter
    BY <1>4 DEF FreeEnter
<1>5. CASE AllocateBuffer
    BY <1>5 DEF AllocateBuffer, AllocAndWrap
<1>6. CASE AllocateFails
    BY <1>6 DEF AllocateFails
<1>7. CASE FreePut
    BY <1>7 DEF FreePut, dma_buf_put
<1>8. CASE FreeArrays
    BY <1>8 DEF FreeArrays, kfree
<1>9. CASE FreeReset
    BY <1>9 DEF FreeReset
<1>10. ASSUME NEW id \in FirmwareIds, ReserveFd(id) PROVE ToldOpen'
    BY <1>10 DEF ReserveFd, dma_buf_fd, FreeFds
<1>11. CASE ReserveGet
    BY <1>11 DEF ReserveGet, dma_buf_get
<1>12. CASE GetIdEnter
    BY <1>12 DEF GetIdEnter, dma_buf_get, RecMayRun
<1>13. CASE GetIdReturn
    BY <1>13 DEF GetIdReturn, dma_buf_put
<1>14. ASSUME NEW t \in Threads, AllocateDmabuf(t) PROVE ToldOpen'
    BY <1>14 DEF AllocateDmabuf, AllocAndWrap, AllocOnly, dma_buf_fd, FreeFds
<1>15. ASSUME NEW t \in Threads, GetKnownFd(t) PROVE ToldOpen'
    BY <1>15 DEF GetKnownFd, GetFd, dma_buf_get
<1>16. ASSUME NEW t \in Threads, GetNewFd(t) PROVE ToldOpen'
    BY <1>16 DEF GetNewFd, GetFd, dma_buf_get
<1>17. ASSUME NEW t \in Threads, al5_dmabuf_attach(t) PROVE ToldOpen'
    BY <1>17 DEF al5_dmabuf_attach
<1>18. ASSUME NEW t \in Threads, MapAttachment(t) PROVE ToldOpen'
    BY <1>18 DEF MapAttachment, al5_dmabuf_map, Mapped, Directions
<1>19. ASSUME NEW t \in Threads, al5_dmabuf_detach(t) PROVE ToldOpen'
    BY <1>19 DEF al5_dmabuf_detach, Mapped
<1>20. ASSUME NEW t \in Threads, PutAddress(t) PROVE ToldOpen'
    BY <1>20 DEF PutAddress, dma_buf_put
<1>21. ASSUME NEW t \in Threads, ImporterMap(t) PROVE ToldOpen'
    BY <1>21 DEF ImporterMap, al5_dmabuf_map, Mapped, Directions
<1>22. ASSUME NEW fd \in Fds, Close(fd) PROVE ToldOpen'
    BY <1>22 DEF Close, dma_buf_put
<1>23. CASE Exit
    BY <1>23 DEF Exit
<1>24. CASE Exited
    BY <1>24 DEF Exited
<1>25. CASE check_and_affect_chan_uid
    BY <1>25 DEF check_and_affect_chan_uid
<1> QED
    BY <1>1, <1>2, <1>3, <1>4, <1>5, <1>6, <1>7, <1>8, <1>9, <1>10, <1>11, <1>12, <1>13,
       <1>14, <1>15, <1>16, <1>17, <1>18, <1>19, <1>20, <1>21, <1>22, <1>23, <1>24, <1>25 DEF Next,
       PoolStep, CallStep

\* The arrays are freed once and not read afterwards.
LEMMA ArraysOK_Next == BufPoolInv /\ Next => ArraysOK'
<1> SUFFICES ASSUME BufPoolInv, Next PROVE ArraysOK'
    OBVIOUS
<1> USE BufPoolAssumption DEF BufPoolInv, Types, Pointers, PoolOK, RecOK, ArraysOK, memVars,
       fdVars, poolVars, recVars, callVars, histVars
<1>1. CASE AllocateArrays
    BY <1>1 DEF AllocateArrays
<1>2. CASE AllocateNoBuffers
    BY <1>2 DEF AllocateNoBuffers
<1>3. CASE AllocateNoHandles
    BY <1>3 DEF AllocateNoHandles
<1>4. CASE FreeEnter
    BY <1>4 DEF FreeEnter
<1>5. CASE AllocateBuffer
    BY <1>5 DEF AllocateBuffer, AllocAndWrap
<1>6. CASE AllocateFails
    BY <1>6 DEF AllocateFails
<1>7. CASE FreePut
    BY <1>7 DEF FreePut, dma_buf_put
<1>8. CASE FreeArrays
    <2>1. ctl = "put" /\ ctl' = "reset" /\ faults' = faults \cup FreedBefore
        BY <1>8 DEF FreeArrays
    <2>2. arrays.handles # "freed" /\ (arrays.buffers = "freed" => noHandles)
        BY <2>1
    <2>3. FreedBefore \subseteq {"free after fail_handles"}
        BY <2>2 DEF FreedBefore
    <2> QED
        BY <2>1, <2>3
<1>9. CASE FreeReset
    BY <1>9 DEF FreeReset
<1>10. ASSUME NEW id \in FirmwareIds, ReserveFd(id) PROVE ArraysOK'
    <2>1. arrays.handles # "freed"
        BY <1>10, ReservedIsOwned
    <2>2. faults' = faults
        BY <1>10, <2>1 DEF ReserveFd, ReadFreed
    <2>3. UNCHANGED <<arrays, ctl, noHandles>>
        BY <1>10 DEF ReserveFd
    <2> QED
        BY <2>2, <2>3
<1>11. CASE ReserveGet
    BY <1>11 DEF ReserveGet, dma_buf_get
<1>12. CASE GetIdEnter
    BY <1>12 DEF GetIdEnter, dma_buf_get, RecMayRun
<1>13. CASE GetIdReturn
    <2>1. ~destroying /\ UNCHANGED <<arrays, ctl, noHandles>>
        BY <1>13 DEF GetIdReturn, ChannelOK
    <2>2. faults' \subseteq faults \cup {"read in undo"}
        BY <1>13, <2>1 DEF GetIdReturn, ReadFreed
    <2> QED
        BY <2>1, <2>2
<1>14. ASSUME NEW t \in Threads, AllocateDmabuf(t) PROVE ArraysOK'
    BY <1>14 DEF AllocateDmabuf, AllocAndWrap, AllocOnly, dma_buf_fd, FreeFds
<1>15. ASSUME NEW t \in Threads, GetKnownFd(t) PROVE ArraysOK'
    <2>1. UNCHANGED <<arrays, ctl, noHandles, faults>>
        BY <1>15 DEF GetKnownFd, GetFd
    <2> QED
        BY <2>1
<1>16. ASSUME NEW t \in Threads, GetNewFd(t) PROVE ArraysOK'
    <2>1. UNCHANGED <<arrays, ctl, noHandles, faults>>
        BY <1>16 DEF GetNewFd, GetFd
    <2> QED
        BY <2>1
<1>17. ASSUME NEW t \in Threads, al5_dmabuf_attach(t) PROVE ArraysOK'
    BY <1>17 DEF al5_dmabuf_attach
<1>18. ASSUME NEW t \in Threads, MapAttachment(t) PROVE ArraysOK'
    BY <1>18 DEF MapAttachment, al5_dmabuf_map, Mapped, Directions
<1>19. ASSUME NEW t \in Threads, al5_dmabuf_detach(t) PROVE ArraysOK'
    BY <1>19 DEF al5_dmabuf_detach, Mapped
<1>20. ASSUME NEW t \in Threads, PutAddress(t) PROVE ArraysOK'
    BY <1>20 DEF PutAddress, dma_buf_put
<1>21. ASSUME NEW t \in Threads, ImporterMap(t) PROVE ArraysOK'
    BY <1>21 DEF ImporterMap, al5_dmabuf_map, Mapped, Directions
<1>22. ASSUME NEW fd \in Fds, Close(fd) PROVE ArraysOK'
    BY <1>22 DEF Close, dma_buf_put
<1>23. CASE Exit
    BY <1>23 DEF Exit
<1>24. CASE Exited
    BY <1>24 DEF Exited
<1>25. CASE check_and_affect_chan_uid
    BY <1>25 DEF check_and_affect_chan_uid
<1> QED
    BY <1>1, <1>2, <1>3, <1>4, <1>5, <1>6, <1>7, <1>8, <1>9, <1>10, <1>11, <1>12, <1>13,
       <1>14, <1>15, <1>16, <1>17, <1>18, <1>19, <1>20, <1>21, <1>22, <1>23, <1>24, <1>25 DEF Next,
       PoolStep, CallStep

\* A mapping is undone before another is made, and by the detach.
LEMMA MapsOK_Next == BufPoolInv /\ Next => MapsOK'
<1> SUFFICES ASSUME BufPoolInv, Next PROVE MapsOK'
    OBVIOUS
<1> USE BufPoolAssumption DEF BufPoolInv, Types, Calls, MapsOK, MappingsUndone, Mapped,
       memVars, fdVars, poolVars, recVars, callVars, histVars
<1>1. CASE AllocateArrays
    BY <1>1 DEF AllocateArrays
<1>2. CASE AllocateNoBuffers
    BY <1>2 DEF AllocateNoBuffers
<1>3. CASE AllocateNoHandles
    BY <1>3 DEF AllocateNoHandles
<1>4. CASE FreeEnter
    BY <1>4 DEF FreeEnter
<1>5. CASE AllocateBuffer
    BY <1>5 DEF AllocateBuffer, AllocAndWrap
<1>6. CASE AllocateFails
    BY <1>6 DEF AllocateFails
<1>7. CASE FreePut
    BY <1>7 DEF FreePut, dma_buf_put
<1>8. CASE FreeArrays
    BY <1>8 DEF FreeArrays, kfree
<1>9. CASE FreeReset
    BY <1>9 DEF FreeReset
<1>10. ASSUME NEW id \in FirmwareIds, ReserveFd(id) PROVE MapsOK'
    BY <1>10 DEF ReserveFd, dma_buf_fd, FreeFds
<1>11. CASE ReserveGet
    BY <1>11 DEF ReserveGet, dma_buf_get
<1>12. CASE GetIdEnter
    BY <1>12 DEF GetIdEnter, dma_buf_get, RecMayRun
<1>13. CASE GetIdReturn
    BY <1>13 DEF GetIdReturn, dma_buf_put
<1>14. ASSUME NEW t \in Threads, AllocateDmabuf(t) PROVE MapsOK'
    BY <1>14 DEF AllocateDmabuf, AllocAndWrap, AllocOnly, dma_buf_fd, FreeFds
<1>15. ASSUME NEW t \in Threads, GetKnownFd(t) PROVE MapsOK'
    BY <1>15 DEF GetKnownFd, GetFd, dma_buf_get
<1>16. ASSUME NEW t \in Threads, GetNewFd(t) PROVE MapsOK'
    BY <1>16 DEF GetNewFd, GetFd, dma_buf_get
<1>17. ASSUME NEW t \in Threads, al5_dmabuf_attach(t) PROVE MapsOK'
    BY <1>17 DEF al5_dmabuf_attach
<1>18. ASSUME NEW t \in Threads, MapAttachment(t) PROVE MapsOK'
    BY <1>18 DEF MapAttachment, al5_dmabuf_map, Mapped, Directions
<1>19. ASSUME NEW t \in Threads, al5_dmabuf_detach(t) PROVE MapsOK'
    BY <1>19 DEF al5_dmabuf_detach, Mapped
<1>20. ASSUME NEW t \in Threads, PutAddress(t) PROVE MapsOK'
    BY <1>20 DEF PutAddress, dma_buf_put
<1>21. ASSUME NEW t \in Threads, ImporterMap(t) PROVE MapsOK'
    BY <1>21 DEF ImporterMap, al5_dmabuf_map, Mapped, Directions
<1>22. ASSUME NEW fd \in Fds, Close(fd) PROVE MapsOK'
    BY <1>22 DEF Close, dma_buf_put
<1>23. CASE Exit
    BY <1>23 DEF Exit
<1>24. CASE Exited
    BY <1>24 DEF Exited
<1>25. CASE check_and_affect_chan_uid
    BY <1>25 DEF check_and_affect_chan_uid
<1> QED
    BY <1>1, <1>2, <1>3, <1>4, <1>5, <1>6, <1>7, <1>8, <1>9, <1>10, <1>11, <1>12, <1>13,
       <1>14, <1>15, <1>16, <1>17, <1>18, <1>19, <1>20, <1>21, <1>22, <1>23, <1>24, <1>25 DEF Next,
       PoolStep, CallStep

\* A lost buffer is not handed out again, and gets no owner.
LEMMA LostOK_Next == BufPoolInv /\ Next => LostOK'
<1> SUFFICES ASSUME BufPoolInv, Next PROVE LostOK'
    OBVIOUS
<1> USE BufPoolAssumption DEF BufPoolInv, Types, LostOK, memVars, fdVars, poolVars, recVars,
       callVars, histVars
<1>1. CASE Quiet
    BY <1>1, QuietSteps
<1>2. CASE AllocateBuffer
    <2>1. PICK b \in Bufs : AllocAndWrap(b) /\ handles' = [handles EXCEPT ![count] = b]
        BY <1>2 DEF AllocateBuffer
    <2>2. /\ count \in Ids /\ PoolOf'[count] = b
          /\ Agree(Ids, PoolOf, PoolOf', count)
        BY <1>2, <2>1, PoolOfAllocate DEF AllocateBuffer
    <2>3. b \notin lost
        BY <2>1, FreeIsNobodys DEF AllocAndWrap
    <2> QED
        BY <1>2, <2>2, <2>3 DEF AllocateBuffer, Agree
<1>3. CASE FreePut
    <2>1. next \in Ids /\ PoolOf'[next] = NoBuf /\ Agree(Ids, PoolOf, PoolOf', next)
        BY <1>3, PoolOfPut
    <2> QED
        BY <1>3, <2>1 DEF FreePut, Agree
<1>4. ASSUME NEW id \in FirmwareIds, ReserveFd(id) PROVE LostOK'
    <2>1. handles[id] \notin lost /\ PoolOf' = PoolOf
        BY <1>4, ReservedIsOwned, OwnedIsReferred, PoolOfKept DEF ReserveFd
    <2> QED
        BY <1>4, <2>1 DEF ReserveFd, dma_buf_fd
<1>5. CASE ReserveGet
    BY <1>5, PoolOfKept DEF ReserveGet
<1>6. CASE GetIdEnter
    BY <1>6, PoolOfKept DEF GetIdEnter
<1>7. CASE GetIdReturn
    BY <1>7, PoolOfKept DEF GetIdReturn
<1>8. ASSUME NEW t \in Threads, AllocateDmabuf(t) PROVE LostOK'
    <2>1. PoolOf' = PoolOf /\ UNCHANGED <<buf, recBuf>>
        BY <1>8, PoolOfKept DEF AllocateDmabuf
    <2>2. PICK b \in Bufs : /\ ~mem[b]
                            /\ \/ lost' = lost /\ \E fd \in Fds : fdt' = [fdt EXCEPT ![fd] = b]
                               \/ lost' = lost \cup {b} /\ fdt' = fdt
        BY <1>8 DEF AllocateDmabuf, AllocAndWrap, AllocOnly, dma_buf_fd
    <2> QED
        BY <2>1, <2>2, FreeIsNobodys
<1>9. ASSUME NEW t \in Threads, GetKnownFd(t) PROVE LostOK'
    <2>1. PICK fd \in Fds : GetFd(t, fd)
        BY <1>9 DEF GetKnownFd
    <2> QED
        BY <2>1, PoolOfKept DEF GetFd
<1>10. ASSUME NEW t \in Threads, GetNewFd(t) PROVE LostOK'
    <2>1. newFd[t] \in Fds /\ GetFd(t, newFd[t])
        BY <1>10 DEF GetNewFd, CallsOK
    <2> QED
        BY <2>1, PoolOfKept DEF GetFd
<1>11. ASSUME NEW t \in Threads, PutAddress(t) PROVE LostOK'
    BY <1>11, PoolOfKept DEF PutAddress
<1>12. ASSUME NEW fd \in Fds, Close(fd) PROVE LostOK'
    BY <1>12, PoolOfKept DEF Close
<1> QED
    BY <1>1, <1>2, <1>3, <1>4, <1>5, <1>6, <1>7, <1>8, <1>9, <1>10, <1>11, <1>12 DEF Next,
       PoolStep, CallStep, Quiet

\* Whoever puts a reference has it, so the memory goes with the last one, and whoever takes one
\* takes it of memory that is there.
LEMMA MemoryOK_Next == BufPoolInv /\ Next => MemoryOK'
<1> SUFFICES ASSUME BufPoolInv, Next PROVE MemoryOK'
    OBVIOUS
<1> USE BufPoolAssumption DEF BufPoolInv, memVars, fdVars, poolVars, recVars, callVars,
       histVars
<1>1. CASE Quiet
    BY <1>1, QuietSteps DEF MemoryOK
<1>2. CASE AllocateBuffer
    <2>1. PICK b \in Bufs : AllocAndWrap(b)
        BY <1>2 DEF AllocateBuffer
    <2> QED
        BY <1>2, <2>1, AllocMoves DEF AllocateBuffer
<1>3. CASE FreePut
    BY <1>3, PoolOfPut, OwnedIsReferred, PutMoves DEF FreePut
<1>4. ASSUME NEW id \in FirmwareIds, ReserveFd(id) PROVE MemoryOK'
    BY <1>4 DEF ReserveFd, MemoryOK
<1>5. CASE ReserveGet
    <2>1. recFd \in Fds /\ fdt[recFd] \in Bufs
        BY <1>5 DEF ReserveGet, RecOK, Types
    <2> QED
        BY <1>5, <2>1, OwnedIsReferred, GetMoves DEF ReserveGet
<1>6. CASE GetIdEnter
    <2>1. PICK fd \in Fds : fdt[fd] \in Bufs /\ dma_buf_get(fdt[fd])
        BY <1>6 DEF GetIdEnter, Types
    <2> QED
        BY <1>6, <2>1, OwnedIsReferred, GetMoves DEF GetIdEnter
<1>7. CASE GetIdReturn
    <2>1. recBuf \in Bufs
        BY <1>7 DEF GetIdReturn, RecOK, Types
    <2> QED
        BY <1>7, <2>1, OwnedIsReferred, PutMoves DEF GetIdReturn
<1>8. ASSUME NEW t \in Threads, AllocateDmabuf(t) PROVE MemoryOK'
    <2>1. PICK b \in Bufs : \/ AllocAndWrap(b) /\ (lost' = lost \/ lost' = lost \cup {b})
                            \/ AllocOnly(b) /\ lost' = lost \cup {b}
        BY <1>8 DEF AllocateDmabuf
    <2>2. CASE AllocOnly(b) /\ lost' = lost \cup {b}
        BY <2>2 DEF AllocOnly, MemoryOK
    <2> QED
        BY <2>1, <2>2, AllocMoves
<1>9. ASSUME NEW t \in Threads, GetKnownFd(t) PROVE MemoryOK'
    <2>1. PICK fd \in Fds : fdt[fd] \in Bufs /\ GetFd(t, fd)
        BY <1>9 DEF GetKnownFd, GetFd, Types
    <2> QED
        BY <2>1, OwnedIsReferred, GetMoves DEF GetFd
<1>10. ASSUME NEW t \in Threads, GetNewFd(t) PROVE MemoryOK'
    <2>1. newFd[t] \in Fds /\ fdt[newFd[t]] \in Bufs /\ GetFd(t, newFd[t])
        BY <1>10 DEF GetNewFd, CallsOK, Types
    <2> QED
        BY <2>1, OwnedIsReferred, GetMoves DEF GetFd
<1>11. ASSUME NEW t \in Threads, PutAddress(t) PROVE MemoryOK'
    <2>1. buf[t] \in Bufs
        BY <1>11 DEF PutAddress, CallsOK, Types
    <2> QED
        BY <1>11, <2>1, OwnedIsReferred, PutMoves DEF PutAddress
<1>12. ASSUME NEW fd \in Fds, Close(fd) PROVE MemoryOK'
    <2>1. fdt[fd] \in Bufs
        BY <1>12 DEF Close, Types
    <2> QED
        BY <1>12, <2>1, OwnedIsReferred, PutMoves DEF Close
<1> QED
    BY <1>1, <1>2, <1>3, <1>4, <1>5, <1>6, <1>7, <1>8, <1>9, <1>10, <1>11, <1>12 DEF Next,
       PoolStep, CallStep, Quiet

\* The references, step by step: whoever becomes an owner takes one, whoever stops to be one puts it,
\* and al5_bufpool_reserve_fd lends the pool's to the descriptor until it has taken another.
LEMMA RefsMatchOwners_Next == BufPoolInv /\ Next => RefsMatchOwners'
<1> SUFFICES ASSUME BufPoolInv, Next PROVE RefsMatchOwners'
    OBVIOUS
<1> USE BufPoolAssumption DEF RefsMatchOwners, memVars, fdVars, poolVars, recVars, callVars,
       histVars
<1>0. ASSUME NEW c \in Bufs
      PROVE  /\ PoolRefs(c) \in Nat /\ FdRefs(c) \in Nat /\ CallRefs(c) \in Nat
             /\ Lent(c) \in {0, 1}
    BY OwnerTypes, LentIsShared
<1>1. CASE Quiet
    <2>1. UNCHANGED <<mem, refs, fdt, rec, recBuf, recFd, buf, lost>> /\ PoolOf' = PoolOf
        BY <1>1, QuietSteps
    <2>2. ASSUME NEW c \in Bufs
          PROVE  PoolRefs(c)' = PoolRefs(c) /\ FdRefs(c)' = FdRefs(c)
                 /\ CallRefs(c)' = CallRefs(c) /\ Lent(c)' = Lent(c)
        BY <2>1, PoolSame, FdSame, CallSame, LentSame
    <2> QED
        BY <2>1, <2>2 DEF BufPoolInv
<1>2. CASE AllocateBuffer
    <2>1. PICK b \in Bufs : AllocAndWrap(b) /\ handles' = [handles EXCEPT ![count] = b]
        BY <1>2 DEF AllocateBuffer
    <2>2. /\ count \in Ids /\ PoolOf[count] = NoBuf /\ PoolOf'[count] = b
          /\ Agree(Ids, PoolOf, PoolOf', count)
        BY <1>2, <2>1, PoolOfAllocate DEF AllocateBuffer
    <2>3. b # NoBuf /\ UNCHANGED <<fdt, rec, recFd, recBuf, buf, lost>>
        BY <1>2 DEF AllocateBuffer
    <2>4. ASSUME NEW c \in Bufs
          PROVE  /\ PoolRefs(c)' = PoolRefs(c) + Is(b, c)
                 /\ FdRefs(c)' = FdRefs(c)
                 /\ CallRefs(c)' = CallRefs(c)
                 /\ Lent(c)' = Lent(c)
        <3>1. PoolRefs(c)' = PoolRefs(c) + Is(b, c)
            BY <1>0, <2>1, <2>2, <2>3, PoolMoves DEF Is
        <3> QED
            BY <2>1, <2>2, <2>3, <3>1, FdSame, CallSame, LentSame
    <2>5. lost' = lost /\ \A c \in Bufs : refs'[c] = refs[c] + Is(b, c)
        BY <2>1, <2>3, AllocMoves
    <2> QED
        BY <1>0, <2>4, <2>5 DEF BufPoolInv, MemoryOK, Is
<1>3. CASE FreePut
    <2>1. /\ next \in Ids /\ handles[next] \in Bufs
          /\ PoolOf[next] = handles[next] /\ PoolOf'[next] = NoBuf
          /\ Agree(Ids, PoolOf, PoolOf', next)
        BY <1>3, PoolOfPut
    <2>2. dma_buf_put(handles[next]) /\ UNCHANGED <<fdt, rec, recFd, recBuf, buf, lost>>
        BY <1>3 DEF FreePut
    <2>3. ASSUME NEW c \in Bufs
          PROVE  /\ PoolRefs(c)' = PoolRefs(c) - Is(handles[next], c)
                 /\ FdRefs(c)' = FdRefs(c)
                 /\ CallRefs(c)' = CallRefs(c)
                 /\ Lent(c)' = Lent(c)
        <3>1. PoolRefs(c)' = PoolRefs(c) - Is(handles[next], c)
            BY <1>0, <2>1, <2>2, PoolMoves DEF Is
        <3> QED
            BY <2>1, <2>2, <3>1, FdSame, CallSame, LentSame
    <2>4. lost' = lost /\ \A c \in Bufs : refs'[c] = refs[c] - Is(handles[next], c)
        BY <2>1, <2>2, OwnedIsReferred, PutMoves
    <2> QED
        BY <1>0, <2>3, <2>4 DEF BufPoolInv, MemoryOK, Is
<1>4. ASSUME NEW id \in FirmwareIds, ReserveFd(id) PROVE RefsMatchOwners'
    <2>1. PICK fd \in Fds : fdt[fd] = NoBuf /\ fdt' = [fdt EXCEPT ![fd] = handles[id]] /\ recFd' = fd
        BY <1>4 DEF ReserveFd, dma_buf_fd, FreeFds
    <2>2. handles[id] \in Bufs
        BY <1>4, ReservedIsOwned
    <2>3. Agree(Fds, fdt, fdt', fd) /\ fdt'[fd] = handles[id] /\ fdt[fd] = NoBuf /\ fd \in Fds
        BY <2>1 DEF Agree, BufPoolInv, Types
    <2>4. PoolOf' = PoolOf /\ rec # "reserve" /\ rec' = "reserve" /\ UNCHANGED <<refs, recBuf, buf, lost>>
        BY <1>4, PoolOfKept DEF ReserveFd, RecMayRun
    <2>5. ASSUME NEW c \in Bufs
          PROVE  /\ PoolRefs(c)' = PoolRefs(c)
                 /\ FdRefs(c)' = FdRefs(c) + Is(handles[id], c)
                 /\ CallRefs(c)' = CallRefs(c)
                 /\ Lent(c)' = Lent(c) + Is(handles[id], c)
        <3>1. FdRefs(c)' = FdRefs(c) + Is(handles[id], c)
            BY <1>0, <2>2, <2>3, FdMoves DEF Is
        <3>2. Lent(c)' = Lent(c) + Is(handles[id], c)
            BY <2>1, <2>2, <2>3, <2>4 DEF Lent, Is
        <3> QED
            BY <2>1, <2>2, <2>3, <2>4, <3>1, <3>2, PoolSame, CallSame
    <2> QED
        BY <1>0, <2>5, <2>1, <2>2, <2>3, <2>4 DEF BufPoolInv, MemoryOK, Is
<1>5. CASE ReserveGet
    <2>1. recFd \in Fds /\ fdt[recFd] \in Bufs
        BY <1>5 DEF ReserveGet, BufPoolInv, RecOK, Types
    <2>2. /\ dma_buf_get(fdt[recFd]) /\ rec = "reserve" /\ rec' = "idle"
          /\ PoolOf' = PoolOf /\ UNCHANGED <<fdt, recBuf, buf, lost>>
        BY <1>5, <2>1, PoolOfKept DEF ReserveGet
    <2>3. ASSUME NEW c \in Bufs
          PROVE  /\ PoolRefs(c)' = PoolRefs(c)
                 /\ FdRefs(c)' = FdRefs(c)
                 /\ CallRefs(c)' = CallRefs(c)
                 /\ Lent(c)' = Lent(c) - Is(fdt[recFd], c)
        <3>1. Lent(c)' = Lent(c) - Is(fdt[recFd], c)
            BY <2>1, <2>2 DEF Lent, Is
        <3> QED
            BY <2>1, <2>2, <3>1, PoolSame, FdSame, CallSame
    <2>4. lost' = lost /\ \A c \in Bufs : refs'[c] = refs[c] + Is(fdt[recFd], c)
        BY <2>1, <2>2, OwnedIsReferred, GetMoves
    <2> QED
        BY <1>0, <2>3, <2>4 DEF BufPoolInv, MemoryOK, Is
<1>6. CASE GetIdEnter
    <2>1. PICK fd \in Fds : fdt[fd] \in Bufs /\ dma_buf_get(fdt[fd]) /\ recBuf' = fdt[fd]
        BY <1>6 DEF GetIdEnter, BufPoolInv, Types
    <2>2. /\ recBuf = NoBuf /\ rec = "idle" /\ rec' = "get_id"
          /\ PoolOf' = PoolOf /\ UNCHANGED <<fdt, buf, lost>>
        BY <1>6, PoolOfKept DEF GetIdEnter, RecMayRun, BufPoolInv, RecOK
    <2>3. ASSUME NEW c \in Bufs
          PROVE  /\ PoolRefs(c)' = PoolRefs(c)
                 /\ FdRefs(c)' = FdRefs(c)
                 /\ CallRefs(c)' = CallRefs(c) + Is(fdt[fd], c)
                 /\ Lent(c)' = Lent(c) + 0
        <3>1. CallRefs(c)' = CallRefs(c) + Is(fdt[fd], c)
            BY <1>0, <2>1, <2>2, RecMoves DEF Is
        <3>2. Lent(c)' = Lent(c) + 0
            BY <2>1, <2>2 DEF Lent, Is
        <3> QED
            BY <2>1, <2>2, <3>1, <3>2, PoolSame, FdSame
    <2>4. lost' = lost /\ \A c \in Bufs : refs'[c] = refs[c] + Is(fdt[fd], c)
        BY <2>1, <2>2, OwnedIsReferred, GetMoves
    <2> QED
        BY <1>0, <2>3, <2>4 DEF BufPoolInv, MemoryOK, Is
<1>7. CASE GetIdReturn
    <2>1. recBuf \in Bufs /\ recBuf' = NoBuf
        BY <1>7 DEF GetIdReturn, BufPoolInv, RecOK, Types
    <2>2. /\ dma_buf_put(recBuf) /\ rec = "get_id" /\ rec' = "idle"
          /\ PoolOf' = PoolOf /\ UNCHANGED <<fdt, buf, lost>>
        BY <1>7, PoolOfKept DEF GetIdReturn
    <2>3. ASSUME NEW c \in Bufs
          PROVE  /\ PoolRefs(c)' = PoolRefs(c)
                 /\ FdRefs(c)' = FdRefs(c)
                 /\ CallRefs(c)' = CallRefs(c) - Is(recBuf, c)
                 /\ Lent(c)' = Lent(c) + 0
        <3>1. CallRefs(c)' = CallRefs(c) - Is(recBuf, c)
            BY <1>0, <2>1, <2>2, RecMoves DEF Is
        <3>2. Lent(c)' = Lent(c) + 0
            BY <2>1, <2>2 DEF Lent, Is
        <3> QED
            BY <2>1, <2>2, <3>1, <3>2, PoolSame, FdSame
    <2>4. lost' = lost /\ \A c \in Bufs : refs'[c] = refs[c] - Is(recBuf, c)
        BY <2>1, <2>2, OwnedIsReferred, PutMoves
    <2> QED
        BY <1>0, <2>3, <2>4 DEF BufPoolInv, MemoryOK, Is
<1>8. ASSUME NEW t \in Threads, AllocateDmabuf(t) PROVE RefsMatchOwners'
    <2>1. PoolOf' = PoolOf /\ UNCHANGED <<buf, rec, recFd, recBuf>>
        BY <1>8, PoolOfKept DEF AllocateDmabuf
    <2>2. CASE fdt' = fdt
        <3>1. PICK b \in Bufs : /\ lost' = lost \cup {b}
                                /\ \A c \in Bufs : c # b => refs'[c] = refs[c]
            <4>1. PICK b \in Bufs : \/ AllocAndWrap(b) /\ \E fd \in Fds : dma_buf_fd(fd, b)
                                    \/ AllocAndWrap(b) /\ lost' = lost \cup {b}
                                    \/ AllocOnly(b) /\ lost' = lost \cup {b}
                BY <1>8 DEF AllocateDmabuf
            <4>2. ~ \E fd \in Fds : dma_buf_fd(fd, b)
                BY <2>2 DEF dma_buf_fd, FreeFds, BufPoolInv, Types
            <4> QED
                BY <4>1, <4>2 DEF AllocAndWrap, AllocOnly, BufPoolInv, MemoryOK
        <3>2. ASSUME NEW c \in Bufs
              PROVE  /\ PoolRefs(c)' = PoolRefs(c) /\ FdRefs(c)' = FdRefs(c)
                     /\ CallRefs(c)' = CallRefs(c) /\ Lent(c)' = Lent(c)
            BY <2>1, <2>2, PoolSame, FdSame, CallSame, LentSame
        <3> QED
            BY <3>1, <3>2 DEF BufPoolInv
    <2>3. ASSUME NEW b \in Bufs, NEW fd \in Fds, AllocAndWrap(b), dma_buf_fd(fd, b), lost' = lost
          PROVE  RefsMatchOwners'
        <3>1. fdt[fd] = NoBuf /\ fdt' = [fdt EXCEPT ![fd] = b]
            BY <2>3 DEF dma_buf_fd, FreeFds
        <3>2. Agree(Fds, fdt, fdt', fd) /\ fdt'[fd] = b
            BY <3>1 DEF Agree, BufPoolInv, Types
        <3>3. rec = "reserve" => fdt'[recFd] = fdt[recFd]
            BY <3>1 DEF BufPoolInv, RecOK, Types
        <3>4. ASSUME NEW c \in Bufs
              PROVE  /\ PoolRefs(c)' = PoolRefs(c)
                     /\ FdRefs(c)' = FdRefs(c) + Is(b, c)
                     /\ CallRefs(c)' = CallRefs(c)
                     /\ Lent(c)' = Lent(c)
            <4>1. FdRefs(c)' = FdRefs(c) + Is(b, c) - Is(NoBuf, c)
                BY <3>1, <3>2, FdMoves
            <4>2. Is(NoBuf, c) = 0
                BY DEF Is
            <4> QED
                BY <1>0, <2>1, <3>3, <4>1, <4>2, PoolSame, CallSame, LentSame DEF Is
        <3>5. \A c \in Bufs : refs'[c] = refs[c] + Is(b, c)
            BY <2>3, AllocMoves
        <3> SUFFICES ASSUME NEW c \in Bufs \ lost
                     PROVE  refs[c]' = (PoolRefs(c) + FdRefs(c) + CallRefs(c) - Lent(c))'
            BY <2>3
        <3>6. refs[c] = PoolRefs(c) + FdRefs(c) + CallRefs(c) - Lent(c)
            BY DEF BufPoolInv
        <3>7. refs'[c] = refs[c] + Is(b, c) /\ Is(b, c) \in {0, 1}
            BY <3>5 DEF Is
        <3> QED
            BY <1>0, <3>4, <3>6, <3>7
    <2> QED
        BY <1>8, <2>2, <2>3 DEF AllocateDmabuf
<1>9. ASSUME NEW t \in Threads, GetKnownFd(t) PROVE RefsMatchOwners'
    <2>1. PICK b \in Bufs, fd \in Fds : b = fdt[fd] /\ GetFd(t, fd)
        BY <1>9 DEF GetKnownFd, GetFd, BufPoolInv, Types
    <2>2. /\ dma_buf_get(b) /\ buf' = [buf EXCEPT ![t] = b] /\ buf[t] = NoBuf
          /\ PoolOf' = PoolOf /\ UNCHANGED <<fdt, rec, recFd, recBuf, lost>>
        BY <1>9, <2>1, PoolOfKept DEF GetFd, GetKnownFd, GetNewFd, BufPoolInv, CallsOK
    <2>3. Agree(Threads, buf, buf', t) /\ buf'[t] = b /\ buf[t] = NoBuf /\ recBuf' = recBuf
        BY <2>2 DEF Agree, BufPoolInv, Types
    <2>4. ASSUME NEW c \in Bufs
          PROVE  /\ PoolRefs(c)' = PoolRefs(c)
                 /\ FdRefs(c)' = FdRefs(c)
                 /\ CallRefs(c)' = CallRefs(c) + Is(b, c)
                 /\ Lent(c)' = Lent(c)
        <3>1. CallRefs(c)' = CallRefs(c) + Is(b, c)
            BY <1>0, <2>3, CallMoves DEF Is
        <3> QED
            BY <2>1, <2>2, <2>3, <3>1, PoolSame, FdSame, LentSame
    <2>5. lost' = lost /\ \A c \in Bufs : refs'[c] = refs[c] + Is(b, c)
        BY <2>1, <2>2, OwnedIsReferred, GetMoves
    <2> QED
        BY <1>0, <2>4, <2>5 DEF BufPoolInv, MemoryOK, Is
<1>10. ASSUME NEW t \in Threads, GetNewFd(t) PROVE RefsMatchOwners'
    <2>1. PICK b \in Bufs, fd \in Fds : b = fdt[fd] /\ GetFd(t, fd)
        <3>1. newFd[t] \in Fds /\ fdt[newFd[t]] \in Bufs /\ GetFd(t, newFd[t])
            BY <1>10 DEF GetNewFd, BufPoolInv, Types, CallsOK
        <3> QED
            BY <3>1
    <2>2. /\ dma_buf_get(b) /\ buf' = [buf EXCEPT ![t] = b] /\ buf[t] = NoBuf
          /\ PoolOf' = PoolOf /\ UNCHANGED <<fdt, rec, recFd, recBuf, lost>>
        BY <1>10, <2>1, PoolOfKept DEF GetFd, GetKnownFd, GetNewFd, BufPoolInv, CallsOK
    <2>3. Agree(Threads, buf, buf', t) /\ buf'[t] = b /\ buf[t] = NoBuf /\ recBuf' = recBuf
        BY <2>2 DEF Agree, BufPoolInv, Types
    <2>4. ASSUME NEW c \in Bufs
          PROVE  /\ PoolRefs(c)' = PoolRefs(c)
                 /\ FdRefs(c)' = FdRefs(c)
                 /\ CallRefs(c)' = CallRefs(c) + Is(b, c)
                 /\ Lent(c)' = Lent(c)
        <3>1. CallRefs(c)' = CallRefs(c) + Is(b, c)
            BY <1>0, <2>3, CallMoves DEF Is
        <3> QED
            BY <2>1, <2>2, <2>3, <3>1, PoolSame, FdSame, LentSame
    <2>5. lost' = lost /\ \A c \in Bufs : refs'[c] = refs[c] + Is(b, c)
        BY <2>1, <2>2, OwnedIsReferred, GetMoves
    <2> QED
        BY <1>0, <2>4, <2>5 DEF BufPoolInv, MemoryOK, Is
<1>11. ASSUME NEW t \in Threads, PutAddress(t) PROVE RefsMatchOwners'
    <2>1. buf[t] \in Bufs
        BY <1>11 DEF PutAddress, BufPoolInv, CallsOK, Types
    <2>2. /\ dma_buf_put(buf[t]) /\ buf' = [buf EXCEPT ![t] = NoBuf]
          /\ PoolOf' = PoolOf /\ UNCHANGED <<fdt, rec, recFd, recBuf, lost>>
        BY <1>11, PoolOfKept DEF PutAddress
    <2>3. Agree(Threads, buf, buf', t) /\ buf'[t] = NoBuf /\ recBuf' = recBuf
        BY <2>2 DEF Agree, BufPoolInv, Types
    <2>4. ASSUME NEW c \in Bufs
          PROVE  /\ PoolRefs(c)' = PoolRefs(c)
                 /\ FdRefs(c)' = FdRefs(c)
                 /\ CallRefs(c)' = CallRefs(c) - Is(buf[t], c)
                 /\ Lent(c)' = Lent(c)
        <3>1. CallRefs(c)' = CallRefs(c) - Is(buf[t], c)
            BY <1>0, <2>1, <2>3, CallMoves DEF Is
        <3> QED
            BY <2>1, <2>2, <2>3, <3>1, PoolSame, FdSame, LentSame
    <2>5. lost' = lost /\ \A c \in Bufs : refs'[c] = refs[c] - Is(buf[t], c)
        BY <2>1, <2>2, OwnedIsReferred, PutMoves
    <2> QED
        BY <1>0, <2>4, <2>5 DEF BufPoolInv, MemoryOK, Is
<1>12. ASSUME NEW fd \in Fds, Close(fd) PROVE RefsMatchOwners'
    <2>1. fdt[fd] \in Bufs /\ (rec = "reserve" => fd # recFd /\ recFd \in Fds)
        BY <1>12 DEF Close, BufPoolInv, RecOK, Types
    <2>2. /\ dma_buf_put(fdt[fd]) /\ fdt' = [fdt EXCEPT ![fd] = NoBuf]
          /\ PoolOf' = PoolOf /\ UNCHANGED <<buf, rec, recFd, recBuf, lost>>
        BY <1>12, PoolOfKept DEF Close
    <2>3. /\ Agree(Fds, fdt, fdt', fd) /\ fdt'[fd] = NoBuf
          /\ rec = "reserve" => fdt'[recFd] = fdt[recFd]
        BY <2>1, <2>2 DEF Agree, BufPoolInv, Types
    <2>4. ASSUME NEW c \in Bufs
          PROVE  /\ PoolRefs(c)' = PoolRefs(c)
                 /\ FdRefs(c)' = FdRefs(c) - Is(fdt[fd], c)
                 /\ CallRefs(c)' = CallRefs(c)
                 /\ Lent(c)' = Lent(c)
        <3>1. FdRefs(c)' = FdRefs(c) - Is(fdt[fd], c)
            BY <1>0, <2>1, <2>3, FdMoves DEF Is
        <3> QED
            BY <2>1, <2>2, <2>3, <3>1, PoolSame, CallSame, LentSame
    <2>5. lost' = lost /\ \A c \in Bufs : refs'[c] = refs[c] - Is(fdt[fd], c)
        BY <2>1, <2>2, OwnedIsReferred, PutMoves
    <2> QED
        BY <1>0, <2>4, <2>5 DEF BufPoolInv, MemoryOK, Is
<1> QED
    BY <1>1, <1>2, <1>3, <1>4, <1>5, <1>6, <1>7, <1>8, <1>9, <1>10, <1>11, <1>12 DEF Next,
       PoolStep, CallStep, Quiet
LEMMA InitInv == Init => BufPoolInv
<1> SUFFICES ASSUME Init PROVE BufPoolInv
    OBVIOUS
<1> USE BufPoolAssumption DEF Init
<1>1. Types
    BY DEF Types, Calls, Pointers, Ids
<1>2. \A i \in Ids : PoolOf[i] = NoBuf
    BY DEF PoolOf, Owned, Ids
<1>3. PoolOK /\ ChannelOK
    BY <1>2 DEF PoolOK, ChannelOK, Ids
<1>4. CallsOK /\ RecOK /\ ToldOpen /\ LostOK
    BY DEF CallsOK, RecOK, ToldOpen, LostOK
<1>5. ArraysOK
    BY DEF ArraysOK
<1>6. MapsOK
    BY DEF MapsOK, MappingsUndone, Mapped
<1>7. MemoryOK
    BY DEF MemoryOK
<1>8. RefsMatchOwners
    <2> SUFFICES ASSUME NEW b \in Bufs
                 PROVE  refs[b] = PoolRefs(b) + FdRefs(b) + CallRefs(b) - Lent(b)
        BY DEF RefsMatchOwners
    <2>1. PoolRefs(b) + FdRefs(b) + CallRefs(b) = 0
        BY <1>2, OwnerTypes
    <2>2. Lent(b) = 0 /\ refs[b] = 0
        BY DEF Lent
    <2> QED
        BY <2>1, <2>2, OwnerTypes
<1> QED
    BY <1>1, <1>3, <1>4, <1>5, <1>6, <1>7, <1>8 DEF BufPoolInv

LEMMA StutterInv == BufPoolInv /\ UNCHANGED vars => BufPoolInv'
<1> SUFFICES ASSUME BufPoolInv, UNCHANGED vars PROVE BufPoolInv'
    OBVIOUS
<1> USE DEF vars, memVars, fdVars, poolVars, recVars, callVars, histVars
<1>1. PoolOf' = PoolOf
    BY PoolOfKept
<1>2. Types'
    BY DEF BufPoolInv, Types
<1>3. PoolOK' /\ ChannelOK' /\ CallsOK' /\ RecOK'
    BY <1>1 DEF BufPoolInv, PoolOK, ChannelOK, CallsOK, RecOK
<1>4. ToldOpen' /\ ArraysOK' /\ LostOK'
    BY <1>1 DEF BufPoolInv, ToldOpen, ArraysOK, LostOK
<1>5. MapsOK'
    BY DEF BufPoolInv, MapsOK, MappingsUndone, Mapped
<1>6. MemoryOK'
    BY DEF BufPoolInv, MemoryOK
<1>7. RefsMatchOwners'
    BY DEF BufPoolInv, RefsMatchOwners, PoolRefs, FdRefs, CallRefs, Lent
<1> QED
    BY <1>2, <1>3, <1>4, <1>5, <1>6, <1>7 DEF BufPoolInv

\* The inductive invariant: who owns each buffer, and with which reference.
THEOREM BufPoolInvariant == Spec => []BufPoolInv
<1>1. BufPoolInv /\ [Next]_vars => BufPoolInv'
    BY Types_Next, PoolOK_Next, ChannelOK_Next, CallsOK_Next, RecOK_Next, ToldOpen_Next, ArraysOK_Next,
       MapsOK_Next, LostOK_Next, MemoryOK_Next, RefsMatchOwners_Next, StutterInv DEF BufPoolInv
<1> QED
    BY InitInv, <1>1, PTL DEF Spec

-----------------------------------------------------------------------------
\* What follows from it.

\* Types: no reference count goes below zero, although descriptors, calls and the
\* pool put theirs in any order; al5_bufpool_allocate and al5_bufpool_free stay within
\* the arrays, and the client knows of open descriptors only.
THEOREM TypeCorrect == Spec => []TypeOK
<1>1. BufPoolInv => TypeOK
    BY DEF BufPoolInv, Types, MemoryOK, ToldOpen, TypeOK
<1> QED
    BY BufPoolInvariant, <1>1, PTL

\* Every reference to a dma-buf has an owner that will put it, through
\* al5_bufpool_reserve_fd, al5_bufpool_get_id, al5_dmabuf_get_address and al5_bufpool_free,
\* whichever of their steps fails.
THEOREM ReferencesHaveOwners == Spec => []RefsMatchOwners
<1>1. BufPoolInv => RefsMatchOwners
    BY DEF BufPoolInv
<1> QED
    BY BufPoolInvariant, <1>1, PTL

\* al5_dmabuf_release frees the memory when the last of the pool, the descriptors and
\* the calls under way lets go of it: never before, and not later.
THEOREM MemoryLivesWithItsUsers == Spec => []MemoryFollowsUsers
<1>1. BufPoolInv => MemoryFollowsUsers
    <2> SUFFICES ASSUME BufPoolInv, NEW b \in Bufs \ lost
                 PROVE  mem[b] <=> PoolRefs(b) + FdRefs(b) + CallRefs(b) > 0
        BY DEF MemoryFollowsUsers
    <2>1. mem[b] <=> refs[b] > 0
        BY DEF BufPoolInv, MemoryOK
    <2>2. refs[b] = PoolRefs(b) + FdRefs(b) + CallRefs(b) - Lent(b)
        BY DEF BufPoolInv, RefsMatchOwners
    <2>3. PoolRefs(b) + FdRefs(b) + CallRefs(b) > 0 <=> refs[b] > 0
        BY <2>2, OwnerTypes, LentIsShared
    <2> QED
        BY <2>1, <2>3
<1> QED
    BY BufPoolInvariant, <1>1, PTL

\* al5_bufpool_allocate gives a pool all its buffers, each its own, or none.
THEOREM PoolIsWhole == Spec => []AllOrNothing
<1>1. BufPoolInv => AllOrNothing
    <2> SUFFICES ASSUME BufPoolInv, ctl = "idle"
                 PROVE  /\ count \in {0, Count}
                        /\ \A i, j \in 0..count-1 : i # j => handles[i] # handles[j]
                        /\ \A i \in 0..count-1 : handles[i] # NoBuf
        BY DEF AllOrNothing
    <2>1. count \in {0, Count}
        BY DEF BufPoolInv, PoolOK
    <2>2. \A i \in 0..count-1 : i \in Ids /\ i < count
        BY <2>1, BufPoolAssumption DEF Ids
    <2>3. \A i \in 0..count-1 : PoolOf[i] = handles[i] /\ handles[i] # NoBuf
        BY <2>2 DEF PoolOf, Owned, BufPoolInv, PoolOK
    <2>4. \A i, j \in Ids : i # j /\ PoolOf[i] # NoBuf => PoolOf[i] # PoolOf[j]
        BY DEF BufPoolInv, PoolOK
    <2> QED
        BY <2>1, <2>2, <2>3, <2>4
<1> QED
    BY BufPoolInvariant, <1>1, PTL

\* al5_bufpool_free, which a destroy, a close and a failed allocation call, frees the
\* arrays once, but for the one fail_handles has freed; and the mutexes a destroy takes
\* keep every search of a picture from them, whenever it came after the channel
\* got its id, but for one while a failed allocation undoes itself.
THEOREM ArraysLive == Spec => []ArraysUsedAlive
<1>1. BufPoolInv => ArraysUsedAlive
    BY DEF BufPoolInv, ArraysOK, ArraysUsedAlive
<1> QED
    BY BufPoolInvariant, <1>1, PTL

\* al5_dmabuf_map undoes a mapping before it makes another, and al5_dmabuf_detach
\* leaves none, whichever dma_map_sg failed.
THEOREM EveryMappingIsUndone == Spec => []MappingsUndone
<1>1. BufPoolInv => MappingsUndone
    BY DEF BufPoolInv, MapsOK
<1> QED
    BY BufPoolInvariant, <1>1, PTL
=============================================================================
