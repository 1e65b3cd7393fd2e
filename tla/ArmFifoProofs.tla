---------------------------- MODULE ArmFifoProofs ----------------------------
(***************************************************************************)
(* Proofs about the FIFO of ctask_fifo.c, for every size, every set of     *)
(* entries and every width of the level: if its operations exclude each    *)
(* other, because the mutex exists or because one thread makes them all,   *)
(* the slots, pointers and level implement a bounded queue.                *)
(***************************************************************************)
EXTENDS ArmFifo, SequenceTheorems, TLAPS

USE ThreadsAssumption, EntriesAssumption, SizeAssumption, HasMutexAssumption

Exclusive == HasMutex \/ \A s, t \in Threads : s = t

-----------------------------------------------------------------------------
(* Arithmetic of the ring, without the modulo.                             *)

LEMMA AdvanceIsWrap == \A p \in Slots : Advance(p) = Wrap(p + 1) /\ Advance(p) \in Slots
BY DEF Advance, Wrap, Slots

LEMMA WrapInRing == \A p \in 0 .. 2 * Size - 1 : Wrap(p) \in Slots
BY DEF Wrap, Slots

(* Positions less than Size apart are different slots. *)
LEMMA WrapApart ==
  ASSUME NEW p \in Slots, NEW i \in 0 .. Size, NEW j \in 0 .. Size - 1, j < i, i - j < Size
  PROVE  Wrap(p + i) # Wrap(p + j)
BY DEF Wrap, Slots

(* One position further, however the first was reached. *)
LEMMA WrapNext ==
  ASSUME NEW p \in Slots, NEW i \in 0 .. Size - 1
  PROVE  Wrap(Wrap(p + i) + 1) = Wrap(p + (i + 1)) /\ Wrap(Wrap(p + 1) + i) = Wrap(p + (i + 1))
BY DEF Wrap, Slots

LEMMA LevelFits == \A n \in 0 .. Words - 1 : n % Words = n
OBVIOUS
-----------------------------------------------------------------------------
(* Every variable keeps its type, whatever the interleaving. *)
THEOREM TypeCorrect == Spec => []TypeOK
<1>1. Init => TypeOK
  BY DEF Init, TypeOK, Slots
<1>2. TypeOK /\ [Next]_vars => TypeOK'
  <2> SUFFICES ASSUME TypeOK, [Next]_vars PROVE TypeOK'
    OBVIOUS
  <2> USE DEF TypeOK, fifoVars, Goto, CObject_unlock
  <2>1. ASSUME NEW t \in Threads, Call(t) PROVE TypeOK'
    BY <2>1 DEF Call
  <2>2. ASSUME NEW t \in Threads, CObject_lock(t) PROVE TypeOK'
    BY <2>2 DEF CObject_lock
  <2>3. ASSUME NEW t \in Threads, Refuse(t) \/ Check(t) PROVE TypeOK'
    BY <2>3 DEF Refuse, Check
  <2>4. ASSUME NEW t \in Threads, CopyOut(t) \/ CopyIn(t) PROVE TypeOK'
    BY <2>4 DEF CopyOut, CopyIn
  <2>5. ASSUME NEW t \in Threads, AdvanceRead(t) \/ AdvanceWrite(t) PROVE TypeOK'
    BY <2>5, AdvanceIsWrap DEF AdvanceRead, AdvanceWrite
  <2>6. ASSUME NEW t \in Threads, LoadLevel(t) PROVE TypeOK'
    BY <2>6 DEF LoadLevel
  <2>7. ASSUME NEW t \in Threads, StoreLevel(t) PROVE TypeOK'
    <3>1. m_dwFifoLevel' \in 0 .. Words - 1
      BY <2>7 DEF StoreLevel
    <3> QED
      BY <2>7, <3>1 DEF StoreLevel
  <2>8. CASE UNCHANGED vars
    BY <2>8 DEF vars
  <2> QED
    BY <2>1, <2>2, <2>3, <2>4, <2>5, <2>6, <2>7, <2>8 DEF Next, Step
<1> QED
  BY <1>1, <1>2, PTL DEF Spec
-----------------------------------------------------------------------------
(* While a thread is inside an operation it alone decides how far the      *)
(* operation in progress has come.                                         *)
LEMMA OthersOutside ==
  ASSUME TypeOK, MutualExclusion, NEW t \in Threads, Inside(t)
  PROVE  \A s \in Threads \ {t} : pc[s] \in {"idle", "lock"}
BY DEF TypeOK, MutualExclusion, Inside

LEMMA Phase ==
  ASSUME NEW t \in Threads, \A s \in Threads \ {t} : pc[s] \in {"idle", "lock"}
  PROVE  /\ Taken <=> op[t] = "get" /\ pc[t] \in {"ptr", "load", "store"}
         /\ Advanced <=> op[t] = "get" /\ pc[t] \in {"load", "store"}
         /\ PutAdvanced <=> op[t] = "set" /\ pc[t] \in {"load", "store"}
BY DEF Taken, Advanced, PutAdvanced

LEMMA PhaseAfter ==
  ASSUME NEW t \in Threads, \A s \in Threads \ {t} : pc'[s] \in {"idle", "lock"}
  PROVE  /\ Taken' <=> op'[t] = "get" /\ pc'[t] \in {"ptr", "load", "store"}
         /\ Advanced' <=> op'[t] = "get" /\ pc'[t] \in {"load", "store"}
         /\ PutAdvanced' <=> op'[t] = "set" /\ pc'[t] \in {"load", "store"}
BY DEF Taken, Advanced, PutAdvanced

(* A call and an acquisition change nothing of the queue. *)
LEMMA OutsideSteps ==
  ASSUME TypeOK, NEW t \in Threads, Call(t) \/ CObject_lock(t)
  PROVE  /\ UNCHANGED fifoVars
         /\ (Taken' <=> Taken) /\ (Advanced' <=> Advanced) /\ (PutAdvanced' <=> PutAdvanced)
         /\ Oldest' = Oldest /\ Stored' = Stored /\ Newest' = Newest
<1>1. \A s \in Threads : 
        \/ pc'[s] = pc[s] /\ op'[s] = op[s]
        \/ pc[s] \in {"idle", "lock"} /\ pc'[s] \in {"lock", "check"}
  BY DEF TypeOK, Call, CObject_lock, Goto
<1>2. (Taken' <=> Taken) /\ (Advanced' <=> Advanced) /\ (PutAdvanced' <=> PutAdvanced)
  BY <1>1 DEF Taken, Advanced, PutAdvanced
<1>3. UNCHANGED fifoVars
  BY DEF Call, CObject_lock
<1> QED
  BY <1>2, <1>3 DEF fifoVars, Oldest, Stored, Newest, Wrap

(* Exclusion: by the mutex, or because there is nobody to exclude. *)
LEMMA StaysExclusive ==
  ASSUME Exclusive, TypeOK, MutualExclusion, MutexHeld, [Next]_vars
  PROVE  MutualExclusion' /\ MutexHeld'
<1> USE DEF TypeOK, MutualExclusion, MutexHeld, Inside, Exclusive
<1>1. ASSUME NEW t \in Threads, Call(t) PROVE MutualExclusion' /\ MutexHeld'
  BY <1>1 DEF Call, Goto
<1>2. ASSUME NEW t \in Threads, CObject_lock(t) PROVE MutualExclusion' /\ MutexHeld'
  BY <1>2 DEF CObject_lock, Goto
<1>3. ASSUME NEW t \in Threads, Refuse(t) \/ StoreLevel(t) PROVE MutualExclusion' /\ MutexHeld'
  BY <1>3 DEF Refuse, StoreLevel, Goto, CObject_unlock
<1>4. ASSUME NEW t \in Threads, Check(t) \/ CopyOut(t) \/ CopyIn(t) PROVE MutualExclusion' /\ MutexHeld'
  BY <1>4 DEF Check, CopyOut, CopyIn, Goto
<1>5. ASSUME NEW t \in Threads, AdvanceRead(t) \/ AdvanceWrite(t) \/ LoadLevel(t)
      PROVE  MutualExclusion' /\ MutexHeld'
  BY <1>5 DEF AdvanceRead, AdvanceWrite, LoadLevel, Goto
<1>6. CASE UNCHANGED vars
  BY <1>6 DEF vars
<1> QED
  BY <1>1, <1>2, <1>3, <1>4, <1>5, <1>6 DEF Next, Step

-----------------------------------------------------------------------------
(* One step of a thread inside an operation keeps the accounts right.      *)
LEMMA InsideSteps ==
  ASSUME TypeOK, FifoInv, NEW t \in Threads, Inside(t), Step(t)
  PROVE  /\ \A s \in Threads \ {t} : pc[s] \in {"idle", "lock"} /\ pc'[s] = pc[s]
         /\ \A s \in Threads \ {t} : op'[s] = op[s] /\ entry'[s] = entry[s] /\ ret'[s] = ret[s]
         /\ ~Call(t) /\ ~CObject_lock(t)
<1>1. \A s \in Threads \ {t} : pc[s] \in {"idle", "lock"}
  BY OthersOutside DEF FifoInv
<1>2. ~Call(t) /\ ~CObject_lock(t)
  BY DEF Inside, Call, CObject_lock
<1>3. \A s \in Threads \ {t} : pc'[s] = pc[s] /\ op'[s] = op[s] /\ entry'[s] = entry[s] /\ ret'[s] = ret[s]
  BY <1>2 DEF TypeOK, Step, Goto, Refuse, Check, CopyOut, CopyIn, AdvanceRead, AdvanceWrite,
              LoadLevel, StoreLevel
<1> QED
  BY <1>1, <1>2, <1>3

LEMMA AccountsKept ==
  ASSUME Exclusive, TypeOK, TypeOK', FifoInv, [Next]_vars
  PROVE  Accounts' /\ \A t \in Threads : Progress(t)'
<1> USE DEF FifoInv
<1>1. ASSUME NEW t \in Threads, Call(t) \/ CObject_lock(t)
      PROVE  Accounts' /\ \A s \in Threads : Progress(s)'
  <2>1. Accounts'
    BY <1>1, OutsideSteps DEF Accounts, LevelInRange, fifoVars, Wrap
  <2>2. ASSUME NEW s \in Threads PROVE Progress(s)'
    BY <1>1, <2>2, OutsideSteps DEF Progress, fifoVars, Call, CObject_lock, Goto, TypeOK
  <2> QED
    BY <2>1, <2>2
<1>2. ASSUME NEW t \in Threads, Step(t), Inside(t)
      PROVE  Accounts' /\ \A s \in Threads : Progress(s)'
  <2> DEFINE In(label) == pc[t] = label
  <2>1. \A s \in Threads \ {t} : /\ pc[s] \in {"idle", "lock"} /\ pc'[s] = pc[s]
                                 /\ op'[s] = op[s] /\ ret'[s] = ret[s]
    BY <1>2, InsideSteps
  <2>2. /\ Taken <=> op[t] = "get" /\ pc[t] \in {"ptr", "load", "store"}
        /\ Advanced <=> op[t] = "get" /\ pc[t] \in {"load", "store"}
        /\ PutAdvanced <=> op[t] = "set" /\ pc[t] \in {"load", "store"}
    BY <2>1, Phase
  <2>3. /\ Taken' <=> op'[t] = "get" /\ pc'[t] \in {"ptr", "load", "store"}
        /\ Advanced' <=> op'[t] = "get" /\ pc'[t] \in {"load", "store"}
        /\ PutAdvanced' <=> op'[t] = "set" /\ pc'[t] \in {"load", "store"}
    BY <2>1, PhaseAfter
  <2>4. ASSUME NEW s \in Threads \ {t} PROVE Progress(s)'
    BY <2>1, <2>4 DEF Progress
  <2> USE DEF TypeOK, Accounts, LevelInRange, Progress, Oldest, Stored, Newest, Goto, fifoVars
  <2>5. CASE Refuse(t) \/ Check(t)
    <3>1. UNCHANGED fifoVars /\ op' = op /\ pc[t] = "check" /\ pc'[t] \in {"idle", "copy"}
      BY <2>5 DEF Refuse, Check
    <3>2. /\ ~Taken /\ ~Taken' /\ ~PutAdvanced /\ ~PutAdvanced'
          /\ Oldest' = Oldest /\ Stored' = Stored /\ Newest' = Newest
      BY <2>2, <2>3, <3>1 DEF Wrap
    <3>3. Accounts'
      BY <3>1, <3>2 DEF Wrap
    <3>4. Progress(t)'
      BY <2>5, <3>1 DEF Refuse, Check, Cannot
    <3> QED
      BY <2>4, <3>3, <3>4
  <2>6. CASE CopyOut(t)
    BY <2>2, <2>3, <2>4, <2>6 DEF CopyOut, Wrap, Slots
  <2>7. CASE CopyIn(t)
    BY <2>2, <2>3, <2>4, <2>7 DEF CopyIn, Wrap, Slots
  <2>8. CASE AdvanceRead(t)
    BY <2>2, <2>3, <2>4, <2>8, AdvanceIsWrap DEF AdvanceRead, Wrap, Slots
  <2>9. CASE AdvanceWrite(t)
    BY <2>2, <2>3, <2>4, <2>9, AdvanceIsWrap DEF AdvanceWrite, Wrap, Slots
  <2>10. CASE LoadLevel(t)
    BY <2>2, <2>3, <2>4, <2>10 DEF LoadLevel, Wrap, Slots
  <2>11. CASE StoreLevel(t)
    <3>1. /\ pc[t] = "store" /\ tmp[t] = m_dwFifoLevel /\ op' = op
          /\ m_dwFifoLevel' = (IF op[t] = "get" THEN tmp[t] - 1 ELSE tmp[t] + 1) % Words
          /\ UNCHANGED <<m_dwReadPtr, m_dwWritePtr, m_Fifo>>
      BY <2>11 DEF StoreLevel
    <3>2. m_dwFifoLevel' = IF op[t] = "get" THEN m_dwFifoLevel - 1 ELSE m_dwFifoLevel + 1
      <4>1. (IF op[t] = "get" THEN m_dwFifoLevel - 1 ELSE m_dwFifoLevel + 1) \in 0 .. Words - 1
        BY <3>1
      <4> QED
        BY <3>1, <4>1, LevelFits
    <3>3. pc'[t] = "idle" /\ ~Taken' /\ ~PutAdvanced'
      BY <2>3, <2>11 DEF StoreLevel
    <3>4. Oldest = m_dwReadPtr /\ Oldest' = m_dwReadPtr /\ Stored' = m_dwFifoLevel'
      BY <2>2, <3>1, <3>3
    <3>5. CASE op[t] = "get"
      <4>1. Stored' = Stored /\ Newest' = Newest /\ ~PutAdvanced
        BY <2>2, <3>1, <3>2, <3>4, <3>5 DEF Wrap
      <4>2. Accounts'
        BY <3>1, <3>2, <3>3, <3>4, <3>5, <4>1 DEF Wrap
      <4> QED
        BY <2>4, <3>3, <4>2
    <3>6. CASE op[t] = "set"
      <4>1. Stored = m_dwFifoLevel /\ PutAdvanced /\ Stored' = Stored + 1 /\ Stored < Size
        BY <2>2, <3>1, <3>2, <3>4, <3>6
      <4>2. Newest = Wrap(m_dwReadPtr + Stored) /\ Newest' = Wrap(m_dwReadPtr + (Stored + 1))
        BY <3>1, <3>4, <4>1 DEF Wrap
      <4>3. Newest' = Wrap(Newest + 1)
        <5>1. Stored \in 0 .. Size - 1 /\ m_dwReadPtr \in Slots
          BY <4>1
        <5> QED
          BY <4>2, <5>1, WrapNext
      <4>4. Accounts'
        BY <3>1, <3>2, <3>3, <3>4, <4>1, <4>3
      <4> QED
        BY <2>4, <3>3, <4>4
    <3> QED
      BY <3>5, <3>6
  <2> QED
    BY <1>2, <2>5, <2>6, <2>7, <2>8, <2>9, <2>10, <2>11, InsideSteps DEF Step
<1>3. CASE UNCHANGED vars
  BY <1>3 DEF vars, fifoVars, Accounts, Progress, LevelInRange, Oldest, Stored, Newest, Taken,
              Advanced, PutAdvanced, Wrap
<1> QED
  BY <1>1, <1>2, <1>3
  DEF Next, Step, Inside, Refuse, Check, CopyOut, CopyIn, AdvanceRead, AdvanceWrite,
      LoadLevel, StoreLevel

(* While operations exclude each other, the level never leaves its range   *)
(* and pointers, level and entries agree at every step.                    *)
THEOREM FifoAgrees == ASSUME Exclusive PROVE Spec => []FifoInv
<1>1. Init => FifoInv
  BY DEF Init, FifoInv, MutualExclusion, MutexHeld, Inside, Accounts, LevelInRange, Progress,
         Oldest, Stored, Newest, Taken, Advanced, PutAdvanced, Wrap
<1>2. TypeOK /\ TypeOK' /\ FifoInv /\ [Next]_vars => FifoInv'
  BY StaysExclusive, AccountsKept DEF FifoInv
<1> QED
  BY <1>1, <1>2, TypeCorrect, PTL DEF Spec

-----------------------------------------------------------------------------
(* The queue that the slots stand for.                                     *)
LEMMA ContentsIsSeq ==
  ASSUME TypeOK, FifoInv
  PROVE  Contents \in Seq(Entries) /\ Len(Contents) = Stored /\ Stored \in 0 .. Size
<1>1. Oldest \in Slots /\ Stored \in 0 .. Size
  BY WrapInRing DEF TypeOK, FifoInv, Accounts, Oldest, Slots
<1>2. \A i \in 1 .. Stored : m_Fifo[Wrap(Oldest + (i - 1))] \in Entries
  BY <1>1, WrapInRing DEF TypeOK, Slots
<1> QED
  BY <1>1, <1>2 DEF Contents

LEMMA SameContents ==
  ASSUME UNCHANGED m_Fifo, Oldest' = Oldest, Stored' = Stored
  PROVE  Contents' = Contents
BY DEF Contents, Wrap

(* Taking an entry out: the head is what was copied, the rest is the tail. *)
LEMMA CopyOutTakes ==
  ASSUME TypeOK, FifoInv, NEW t \in Threads, CopyOut(t), Step(t)
  PROVE  /\ Contents # <<>> /\ Contents' = Tail(Contents)
         /\ entry' = [entry EXCEPT ![t] = Head(Contents)]
<1>1. Inside(t)
  BY DEF CopyOut, Inside
<1>2. ~Taken /\ Taken' /\ ~Advanced'
  BY <1>1, InsideSteps, Phase, PhaseAfter DEF CopyOut, Goto, TypeOK
<1>3. /\ Oldest = m_dwReadPtr /\ Stored = m_dwFifoLevel
      /\ Oldest' = Wrap(m_dwReadPtr + 1) /\ Stored' = m_dwFifoLevel - 1
      /\ m_Fifo' = m_Fifo
  BY <1>2 DEF Oldest, Stored, CopyOut, fifoVars, Wrap
<1>4. m_dwFifoLevel \in 1 .. Size /\ m_dwReadPtr \in Slots
  BY DEF FifoInv, Accounts, LevelInRange, Progress, CopyOut, TypeOK
<1>5. Contents # <<>> /\ Head(Contents) = m_Fifo[m_dwReadPtr]
  <2>1. Contents \in Seq(Entries) /\ Len(Contents) = m_dwFifoLevel
    BY ContentsIsSeq, <1>3
  <2>2. Contents[1] = m_Fifo[m_dwReadPtr]
    BY <1>3, <1>4 DEF Contents, Wrap, Slots
  <2> QED
    BY <2>1, <2>2, <1>4
<1>6. Contents' = Tail(Contents)
  <2> DEFINE n == m_dwFifoLevel - 1
  <2>1. Contents' = [i \in 1 .. n |-> m_Fifo[Wrap(Wrap(m_dwReadPtr + 1) + (i - 1))]]
    BY <1>3 DEF Contents, Wrap
  <2>2. \A i \in 1 .. n : Wrap(Wrap(m_dwReadPtr + 1) + (i - 1)) = Wrap(m_dwReadPtr + i)
    <3> TAKE i \in 1 .. n
    <3>1. i - 1 \in 0 .. Size - 1 /\ (i - 1) + 1 = i
      BY <1>4
    <3> QED
      BY <1>4, <3>1, WrapNext
  <2>3. \A i \in 1 .. n : m_Fifo[Wrap(m_dwReadPtr + i)] \in Entries
    BY <1>4 DEF TypeOK, Wrap, Slots
  <2>4. Contents' \in Seq(Entries) /\ Len(Contents') = n /\ n \in Nat
    BY <1>4, <2>1, <2>2, <2>3
  <2>5. /\ Tail(Contents) \in Seq(Entries) /\ Len(Tail(Contents)) = n
        /\ \A i \in 1 .. n : Tail(Contents)[i] = Contents[i + 1]
    BY <1>3, <1>4, <1>5, ContentsIsSeq, HeadTailProperties
  <2>6. \A i \in 1 .. n : Contents[i + 1] = m_Fifo[Wrap(m_dwReadPtr + i)]
    BY <1>3, <1>4 DEF Contents
  <2>7. \A i \in 1 .. n : Contents'[i] = Tail(Contents)[i]
    BY <2>1, <2>2, <2>5, <2>6
  <2> HIDE DEF n
  <2> QED
    BY <2>4, <2>5, <2>7, SeqEqual
<1> QED
  BY <1>5, <1>6 DEF CopyOut

(* Copying an entry in touches no slot of the queue. *)
LEMMA CopyInKeeps ==
  ASSUME TypeOK, FifoInv, NEW t \in Threads, CopyIn(t), Step(t)
  PROVE  Contents' = Contents
<1>1. Inside(t)
  BY DEF CopyIn, Inside
<1>2. ~Taken /\ ~Taken' /\ ~PutAdvanced
  BY <1>1, InsideSteps, Phase, PhaseAfter DEF CopyIn, Goto, TypeOK
<1>3. /\ Oldest = m_dwReadPtr /\ Stored = m_dwFifoLevel
      /\ Oldest' = m_dwReadPtr /\ Stored' = m_dwFifoLevel
  BY <1>2 DEF Oldest, Stored, CopyIn
<1>4. /\ m_dwFifoLevel \in 0 .. Size - 1 /\ m_dwReadPtr \in Slots
      /\ m_dwWritePtr = Wrap(m_dwReadPtr + m_dwFifoLevel)
  BY <1>2, <1>3 DEF FifoInv, Accounts, LevelInRange, Progress, CopyIn, TypeOK, Newest
<1>5. \A i \in 1 .. m_dwFifoLevel : m_Fifo'[Wrap(m_dwReadPtr + (i - 1))] = m_Fifo[Wrap(m_dwReadPtr + (i - 1))]
  <2> TAKE i \in 1 .. m_dwFifoLevel
  <2>1. Wrap(m_dwReadPtr + (i - 1)) \in Slots /\ Wrap(m_dwReadPtr + (i - 1)) # m_dwWritePtr
    BY <1>4 DEF Wrap, Slots
  <2> QED
    BY <2>1 DEF CopyIn, TypeOK
<1> QED
  BY <1>3, <1>5 DEF Contents, Wrap

(* Raising the level is what puts the entry into the queue. *)
LEMMA StorePuts ==
  ASSUME TypeOK, TypeOK', FifoInv, FifoInv', NEW t \in Threads, StoreLevel(t), Step(t), op[t] = "set"
  PROVE  /\ Len(Contents) < Size
         /\ Contents' = Append(Contents, entry[t])
<1>1. Inside(t)
  BY DEF StoreLevel, Inside
<1>2. ~Taken /\ ~Taken'
  BY <1>1, InsideSteps, Phase, PhaseAfter DEF StoreLevel, Goto, TypeOK
<1>3. /\ Oldest = m_dwReadPtr /\ Stored = m_dwFifoLevel
      /\ Oldest' = m_dwReadPtr /\ Stored' = m_dwFifoLevel' /\ m_Fifo' = m_Fifo
  BY <1>2 DEF Oldest, Stored, StoreLevel
<1>4. m_dwFifoLevel \in 0 .. Size - 1 /\ tmp[t] = m_dwFifoLevel
  BY DEF FifoInv, Accounts, LevelInRange, Progress, StoreLevel
<1>5. m_dwFifoLevel' = m_dwFifoLevel + 1
  BY <1>4, LevelFits DEF StoreLevel
<1>6. m_Fifo[Wrap(m_dwReadPtr + m_dwFifoLevel)] = entry[t]
  BY <1>3 DEF FifoInv, Progress, StoreLevel, Newest
<1>7. /\ Contents = [i \in 1 .. m_dwFifoLevel |-> m_Fifo[Wrap(m_dwReadPtr + (i - 1))]]
      /\ Contents' = [i \in 1 .. m_dwFifoLevel + 1 |-> m_Fifo[Wrap(m_dwReadPtr + (i - 1))]]
  BY <1>3, <1>5 DEF Contents, Wrap
<1>8. Contents \in Seq(Entries) /\ Len(Contents) = m_dwFifoLevel
  BY <1>3, ContentsIsSeq
<1>9. /\ Append(Contents, entry[t]) \in Seq(Entries)
      /\ Len(Append(Contents, entry[t])) = m_dwFifoLevel + 1
      /\ \A i \in 1 .. m_dwFifoLevel : Append(Contents, entry[t])[i] = Contents[i]
      /\ Append(Contents, entry[t])[m_dwFifoLevel + 1] = entry[t]
  BY <1>4, <1>8, AppendProperties DEF TypeOK
<1>10. \A i \in 1 .. m_dwFifoLevel + 1 : Contents'[i] = Append(Contents, entry[t])[i]
  <2> TAKE i \in 1 .. m_dwFifoLevel + 1
  <2>1. CASE i = m_dwFifoLevel + 1
    BY <1>4, <1>6, <1>7, <1>9, <2>1
  <2>2. CASE i \in 1 .. m_dwFifoLevel
    BY <1>4, <1>7, <1>9, <2>2
  <2>3. i = m_dwFifoLevel + 1 \/ i \in 1 .. m_dwFifoLevel
    BY <1>4
  <2> QED
    BY <2>1, <2>2, <2>3
<1>11. Contents' \in Seq(Entries) /\ Len(Contents') = m_dwFifoLevel + 1
  <2>1. \A i \in 1 .. m_dwFifoLevel + 1 : m_Fifo[Wrap(m_dwReadPtr + (i - 1))] \in Entries
    BY <1>4 DEF TypeOK, Wrap, Slots
  <2> QED
    BY <1>4, <1>7, <2>1
<1>12. Contents' = Append(Contents, entry[t])
  BY <1>4, <1>9, <1>10, <1>11, SeqEqual
<1> QED
  BY <1>4, <1>8, <1>12

(* The FIFO implements the abstract queue: a get takes effect when it      *)
(* copies the entry out, a set when it stores the new level.               *)
THEOREM FifoIsQueue == ASSUME Exclusive PROVE Spec => ImplementsQueue
<1> USE DEF Queue!qvars
<1>1. Init => Queue!Init
  <2> SUFFICES ASSUME Init PROVE Queue!Init
    OBVIOUS
  <2>1. Contents = <<>>
    BY DEF Init, Contents, Stored, Taken
  <2> QED
    BY <2>1 DEF Init, Queue!Init
<1>2. TypeOK /\ TypeOK' /\ FifoInv /\ FifoInv' /\ [Next]_vars => [Queue!Next]_(Queue!qvars)
  <2> SUFFICES ASSUME TypeOK, TypeOK', FifoInv, FifoInv', [Next]_vars
               PROVE  Queue!Next \/ UNCHANGED Queue!qvars
    OBVIOUS
  <2>1. ASSUME NEW t \in Threads, Call(t) PROVE Queue!Call(t)
    <3>1. Contents' = Contents
      BY <2>1, OutsideSteps, SameContents DEF fifoVars
    <3> QED
      BY <2>1, <3>1 DEF Call, Queue!Call
  <2>2. ASSUME NEW t \in Threads, CObject_lock(t) PROVE UNCHANGED Queue!qvars
    <3>1. Contents' = Contents
      BY <2>2, OutsideSteps, SameContents DEF fifoVars
    <3> QED
      BY <2>2, <3>1 DEF CObject_lock
  <2>3. ASSUME NEW t \in Threads, Step(t), Inside(t) PROVE Queue!Next \/ UNCHANGED Queue!qvars
    <3>1. /\ Taken <=> op[t] = "get" /\ pc[t] \in {"ptr", "load", "store"}
          /\ Advanced <=> op[t] = "get" /\ pc[t] \in {"load", "store"}
      BY <2>3, InsideSteps, Phase
    <3>2. /\ Taken' <=> op'[t] = "get" /\ pc'[t] \in {"ptr", "load", "store"}
          /\ Advanced' <=> op'[t] = "get" /\ pc'[t] \in {"load", "store"}
      BY <2>3, InsideSteps, PhaseAfter
    <3> USE DEF TypeOK, Goto
    <3>3. CASE Refuse(t)
      <4>1. UNCHANGED fifoVars /\ op' = op /\ ~Taken /\ ~Taken'
        BY <3>1, <3>2, <3>3 DEF Refuse
      <4>2. Contents' = Contents /\ Stored = m_dwFifoLevel
        BY <4>1, SameContents DEF Oldest, Stored, fifoVars
      <4>3. Len(Contents) = IF op[t] = "get" THEN 0 ELSE Size
        BY <3>3, <4>2, ContentsIsSeq DEF Refuse, Cannot
      <4>4. Queue!Refuse(t)
        BY <3>3, <4>2, <4>3 DEF Refuse, Queue!Refuse, FifoInv, Progress
      <4> QED
        BY <4>4 DEF Queue!Next
    <3>4. CASE Check(t) \/ LoadLevel(t) \/ AdvanceWrite(t)
      <4>1. /\ UNCHANGED <<m_dwReadPtr, m_dwFifoLevel, m_Fifo, op, entry, ret>>
            /\ (Taken' <=> Taken) /\ (Advanced' <=> Advanced)
        BY <3>1, <3>2, <3>4 DEF Check, LoadLevel, AdvanceWrite, fifoVars
      <4>2. Contents' = Contents
        BY <4>1, SameContents DEF Oldest, Stored, Wrap
      <4> QED
        BY <4>1, <4>2
    <3>5. CASE CopyOut(t)
      <4>1. Queue!Take(t)
        BY <2>3, <3>5, CopyOutTakes DEF CopyOut, Queue!Take, FifoInv, Progress
      <4> QED
        BY <4>1 DEF Queue!Next
    <3>6. CASE CopyIn(t)
      BY <2>3, <3>6, CopyInKeeps DEF CopyIn
    <3>7. CASE AdvanceRead(t)
      <4>1. Oldest' = Oldest /\ Stored' = Stored
        BY <3>1, <3>2, <3>7, AdvanceIsWrap DEF AdvanceRead, Oldest, Stored, Wrap
      <4> QED
        BY <3>7, <4>1, SameContents DEF AdvanceRead
    <3>8. CASE StoreLevel(t) /\ op[t] = "get"
      <4>1. m_dwFifoLevel' = m_dwFifoLevel - 1
        BY <3>8, LevelFits DEF StoreLevel, FifoInv, Progress
      <4>2. Oldest' = Oldest /\ Stored' = Stored
        BY <3>1, <3>2, <3>8, <4>1 DEF StoreLevel, Oldest, Stored
      <4>3. ret' = ret
        BY <3>8 DEF StoreLevel, FifoInv, Progress
      <4> QED
        BY <3>8, <4>2, <4>3, SameContents DEF StoreLevel
    <3>9. CASE StoreLevel(t) /\ op[t] = "set"
      <4>1. Queue!Put(t)
        BY <2>3, <3>9, StorePuts DEF StoreLevel, Queue!Put, FifoInv, Progress
      <4> QED
        BY <4>1 DEF Queue!Next
    <3> QED
      BY <2>3, <3>3, <3>4, <3>5, <3>6, <3>7, <3>8, <3>9, InsideSteps DEF Step
  <2>4. CASE UNCHANGED vars
    BY <2>4, SameContents DEF vars, fifoVars, Oldest, Stored, Taken, Advanced, Wrap
  <2> QED
    BY <2>1, <2>2, <2>3, <2>4
    DEF Next, Step, Inside, Queue!Next, Refuse, Check, CopyOut, CopyIn, AdvanceRead, AdvanceWrite,
        LoadLevel, StoreLevel
<1> QED
  BY <1>1, <1>2, TypeCorrect, FifoAgrees, PTL DEF Spec, ImplementsQueue, Queue!Spec
=============================================================================
