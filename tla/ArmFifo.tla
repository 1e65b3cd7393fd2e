------------------------------ MODULE ArmFifo ------------------------------
(***************************************************************************)
(* The FIFO of ctask_fifo.c, in which the worker keeps the ARM's requests  *)
(* until a user buffer is there for them, and which the thread that closes *)
(* or resets a task drains.  CFifo_GetFifo and CFifo_SetFifo are broken    *)
(* into the accesses between which another thread can come: CObject_lock   *)
(* excludes it only if the object has a critical section, and the          *)
(* constructor of CObject leaves that NULL.                                *)
(***************************************************************************)
EXTENDS Integers, Sequences

CONSTANTS
  Threads,   \* the threads that use the FIFO
  NoThread,  \* nobody
  Entries,   \* what is stored
  Zero,      \* the entry that kzalloc leaves
  Size,      \* m_size, 0x201 in CTask_Open
  Words,     \* 2^32, the values of m_dwFifoLevel
  HasMutex   \* m_semCriticalSection # NULL

ASSUME ThreadsAssumption == NoThread \notin Threads
ASSUME EntriesAssumption == Zero \in Entries
ASSUME SizeAssumption == Size \in Nat \ {0} /\ Words \in Nat /\ Words > Size
ASSUME HasMutexAssumption == HasMutex \in BOOLEAN

VARIABLES
  m_dwReadPtr, m_dwWritePtr, m_dwFifoLevel,
  m_Fifo,  \* the entries
  mutex,   \* who holds the critical section
  pc,      \* where each thread is
  op,      \* in which operation
  entry,   \* the buffer it passed
  tmp,     \* the level it loaded, to store it incremented or decremented
  ret      \* what its last operation returns, once that is decided

fifoVars == <<m_dwReadPtr, m_dwWritePtr, m_dwFifoLevel, m_Fifo>>
vars == <<fifoVars, mutex, pc, op, entry, tmp, ret>>

Slots == 0 .. Size - 1

TypeOK ==
  /\ m_dwReadPtr \in Slots
  /\ m_dwWritePtr \in Slots
  /\ m_dwFifoLevel \in 0 .. Words - 1
  /\ m_Fifo \in [Slots -> Entries]
  /\ mutex \in Threads \cup {NoThread}
  /\ pc \in [Threads -> {"idle", "lock", "check", "copy", "ptr", "load", "store"}]
  /\ op \in [Threads -> {"get", "set"}]
  /\ entry \in [Threads -> Entries]
  /\ tmp \in [Threads -> 0 .. Words - 1]
  /\ ret \in [Threads -> {"none", "done", "refused"}]

(* CFifo_Constructor: the pointers and the level are 0, and so are the entries. *)
Init ==
  /\ m_dwReadPtr = 0
  /\ m_dwWritePtr = 0
  /\ m_dwFifoLevel = 0
  /\ m_Fifo = [s \in Slots |-> Zero]
  /\ mutex = NoThread
  /\ pc = [t \in Threads |-> "idle"]
  /\ op = [t \in Threads |-> "get"]
  /\ entry = [t \in Threads |-> Zero]
  /\ tmp = [t \in Threads |-> 0]
  /\ ret = [t \in Threads |-> "none"]
-----------------------------------------------------------------------------
Goto(t, label) == pc' = [pc EXCEPT ![t] = label]

(* The caller's buffer holds the entry to store, or is to be overwritten. *)
Call(t) ==
  /\ pc[t] = "idle"
  /\ Goto(t, "lock")
  /\ \E o \in {"get", "set"} : op' = [op EXCEPT ![t] = o]
  /\ \E e \in Entries : entry' = [entry EXCEPT ![t] = e]
  /\ ret' = [ret EXCEPT ![t] = "none"]
  /\ UNCHANGED <<fifoVars, mutex, tmp>>

CObject_lock(t) ==
  /\ pc[t] = "lock"
  /\ HasMutex => mutex = NoThread
  /\ mutex' = IF HasMutex THEN t ELSE mutex
  /\ Goto(t, "check")
  /\ UNCHANGED <<fifoVars, op, entry, tmp, ret>>

CObject_unlock(t) == mutex' = IF HasMutex THEN NoThread ELSE mutex

(* Variant: one entry more than the size is accepted. *)
CannotOffByOne(t) == IF op[t] = "get" THEN m_dwFifoLevel = 0 ELSE m_dwFifoLevel > Size

(* The first test: an empty FIFO is not read, a full one not written. *)
Cannot(t) == IF op[t] = "get" THEN m_dwFifoLevel = 0 ELSE m_dwFifoLevel >= Size

Refuse(t) ==
  /\ pc[t] = "check" /\ Cannot(t)
  /\ ret' = [ret EXCEPT ![t] = "refused"]
  /\ CObject_unlock(t)
  /\ Goto(t, "idle")
  /\ UNCHANGED <<fifoVars, op, entry, tmp>>

Check(t) ==
  /\ pc[t] = "check" /\ ~Cannot(t)
  /\ Goto(t, "copy")
  /\ UNCHANGED <<fifoVars, mutex, op, entry, tmp, ret>>

(* Variant: the newest slot is read. *)
CopyOutNewest(t) ==
  /\ pc[t] = "copy" /\ op[t] = "get"
  /\ entry' = [entry EXCEPT ![t] = m_Fifo[m_dwWritePtr]]
  /\ ret' = [ret EXCEPT ![t] = "done"]
  /\ Goto(t, "ptr")
  /\ UNCHANGED <<fifoVars, mutex, op, tmp>>

(* memcpy out of, or into, the slot. *)
CopyOut(t) ==
  /\ pc[t] = "copy" /\ op[t] = "get"
  /\ entry' = [entry EXCEPT ![t] = m_Fifo[m_dwReadPtr]]
  /\ ret' = [ret EXCEPT ![t] = "done"]
  /\ Goto(t, "ptr")
  /\ UNCHANGED <<fifoVars, mutex, op, tmp>>

CopyIn(t) ==
  /\ pc[t] = "copy" /\ op[t] = "set"
  /\ m_Fifo' = [m_Fifo EXCEPT ![m_dwWritePtr] = entry[t]]
  /\ Goto(t, "ptr")
  /\ UNCHANGED <<m_dwReadPtr, m_dwWritePtr, m_dwFifoLevel, mutex, op, entry, tmp, ret>>

(* Variant: the pointer does not wrap. *)
AdvanceNoWrap(p) == p + 1

Advance(p) == (p + 1) % Size

AdvanceRead(t) ==
  /\ pc[t] = "ptr" /\ op[t] = "get"
  /\ m_dwReadPtr' = Advance(m_dwReadPtr)
  /\ Goto(t, "load")
  /\ UNCHANGED <<m_dwWritePtr, m_dwFifoLevel, m_Fifo, mutex, op, entry, tmp, ret>>

AdvanceWrite(t) ==
  /\ pc[t] = "ptr" /\ op[t] = "set"
  /\ m_dwWritePtr' = Advance(m_dwWritePtr)
  /\ Goto(t, "load")
  /\ UNCHANGED <<m_dwReadPtr, m_dwFifoLevel, m_Fifo, mutex, op, entry, tmp, ret>>

(* m_dwFifoLevel-- or m_dwFifoLevel++, in two halves, and the return. *)
LoadLevel(t) ==
  /\ pc[t] = "load"
  /\ tmp' = [tmp EXCEPT ![t] = m_dwFifoLevel]
  /\ Goto(t, "store")
  /\ UNCHANGED <<fifoVars, mutex, op, entry, ret>>

StoreLevel(t) ==
  /\ pc[t] = "store"
  /\ m_dwFifoLevel' = (IF op[t] = "get" THEN tmp[t] - 1 ELSE tmp[t] + 1) % Words
  /\ ret' = [ret EXCEPT ![t] = "done"]
  /\ CObject_unlock(t)
  /\ Goto(t, "idle")
  /\ UNCHANGED <<m_dwReadPtr, m_dwWritePtr, m_Fifo, op, entry, tmp>>

Step(t) ==
  \/ Call(t) \/ CObject_lock(t) \/ Refuse(t) \/ Check(t) \/ CopyOut(t) \/ CopyIn(t)
  \/ AdvanceRead(t) \/ AdvanceWrite(t) \/ LoadLevel(t) \/ StoreLevel(t)

Next == \E t \in Threads : Step(t)

Spec == Init /\ [][Next]_vars
-----------------------------------------------------------------------------
(* One thread at a time is between lock and unlock. *)
Inside(t) == pc[t] \notin {"idle", "lock"}
MutualExclusion == \A s, t \in Threads : Inside(s) /\ Inside(t) => s = t

(* An operation that has not yet returned has already taken the oldest entry. *)
Taken == \E t \in Threads : op[t] = "get" /\ pc[t] \in {"ptr", "load", "store"}
Advanced == \E t \in Threads : op[t] = "get" /\ pc[t] \in {"load", "store"}

Wrap(p) == IF p < Size THEN p ELSE p - Size
Oldest == IF Taken /\ ~Advanced THEN Wrap(m_dwReadPtr + 1) ELSE m_dwReadPtr
Stored == IF Taken THEN m_dwFifoLevel - 1 ELSE m_dwFifoLevel
Contents == [i \in 1 .. Stored |-> m_Fifo[Wrap(Oldest + (i - 1))]]

(* The slots, pointers and level implement a queue: every entry comes out  *)
(* once, in the order the entries went in, and the FIFO refuses only when  *)
(* it is empty or full.                                                    *)
Queue == INSTANCE BoundedQueue WITH queue <- Contents, buffer <- entry

ImplementsQueue == Queue!Spec

(* The level never exceeds the size, so it has not wrapped below 0.        *)
LevelInRange == m_dwFifoLevel \in 0 .. Size
-----------------------------------------------------------------------------
(* What holds at every step of an operation while the operations exclude   *)
(* each other: the pointers, the level and the entries agree.              *)
PutAdvanced == \E t \in Threads : op[t] = "set" /\ pc[t] \in {"load", "store"}
Newest == Wrap(Oldest + Stored)

Accounts ==
  /\ LevelInRange /\ Stored \in 0 .. Size
  /\ PutAdvanced => Stored < Size
  /\ m_dwWritePtr = IF PutAdvanced THEN Wrap(Newest + 1) ELSE Newest

Progress(t) ==
  /\ pc[t] \in {"copy", "ptr", "load", "store"} =>
       IF op[t] = "get" THEN m_dwFifoLevel > 0 ELSE m_dwFifoLevel < Size
  /\ pc[t] = "store" => tmp[t] = m_dwFifoLevel
  /\ op[t] = "set" /\ pc[t] \in {"ptr", "load", "store"} => m_Fifo[Newest] = entry[t]
  /\ pc[t] \in {"lock", "check", "copy"} \/ (op[t] = "set" /\ pc[t] # "idle") => ret[t] = "none"
  /\ op[t] = "get" /\ pc[t] \in {"ptr", "load", "store"} => ret[t] = "done"

MutexHeld == HasMutex => \A t \in Threads : Inside(t) <=> mutex = t

FifoInv ==
  /\ MutualExclusion
  /\ MutexHeld
  /\ Accounts
  /\ \A t \in Threads : Progress(t)
=============================================================================
