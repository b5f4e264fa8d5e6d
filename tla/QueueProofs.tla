----------------------------- MODULE QueueProofs -----------------------------
(***************************************************************************)
(* The safety properties of Queue, for any number of threads and any       *)
(* messages.                                                               *)
(***************************************************************************)
EXTENDS Queue, FiniteSetTheorems, TLAPS

\* A blocked thread is in PopOrWait(), so that waking it sends it to the list.
WaitersPop == \A t \in Threads : pc[t] = "waiting" => call[t] = "PopOrWait"

-----------------------------------------------------------------------------
\* Every step of the queue keeps its variables in their types.
LEMMA TypeInvariance == TypeOK /\ [Next]_vars => TypeOK'
<1> SUFFICES ASSUME TypeOK, [Next]_vars PROVE TypeOK'
  OBVIOUS
<1> USE DEF TypeOK, Ops, PCs
<1>1. CASE UNCHANGED vars
  BY <1>1 DEF vars
<1>2. ASSUME NEW t \in Threads, NEW op \in Ops, NEW m \in Messages, Call(t, op, m)
      PROVE  TypeOK'
  BY <1>2, MessagesAssumption DEF Call, Goto
<1>3. ASSUME NEW t \in Threads, Lock(t) PROVE TypeOK'
  BY <1>3 DEF Lock, Goto
<1>4. ASSUME NEW t \in Threads, PopFront(t) PROVE TypeOK'
  BY <1>4 DEF PopFront, Goto, Unlock
<1>5. ASSUME NEW t \in Threads, PopEmpty(t) PROVE TypeOK'
  BY <1>5, MessagesAssumption DEF PopEmpty, Goto, Unlock
<1>6. ASSUME NEW t \in Threads, Wait(t) PROVE TypeOK'
  BY <1>6 DEF Wait, Goto, Unlock
<1>7. ASSUME NEW t \in Threads, SpuriousWakeup(t) PROVE TypeOK'
  BY <1>7 DEF SpuriousWakeup, Goto
<1>8. ASSUME NEW t \in Threads, Push(t) PROVE TypeOK'
  BY <1>8 DEF Push, Goto, Unlock
<1>9. ASSUME NEW t \in Threads, NotifyOne(t) PROVE TypeOK'
  BY <1>9 DEF NotifyOne, Goto, Waiting
<1>10. ASSUME NEW t \in Threads, Clear(t) PROVE TypeOK'
  BY <1>10 DEF Clear, Goto, Unlock
<1>11. ASSUME NEW t \in Threads, Size(t) PROVE TypeOK'
  BY <1>11 DEF Size, Goto, Unlock
<1> QED
  BY <1>1, <1>2, <1>3, <1>4, <1>5, <1>6, <1>7, <1>8, <1>9, <1>10, <1>11
  DEF Next, Step, PopOrWait, Pop

\* The variables of the queue always have their types.
THEOREM TypeCorrect == Spec => []TypeOK
<1>1. Init => TypeOK
  BY MessagesAssumption DEF Init, TypeOK, Ops, PCs
<1> QED
  BY <1>1, TypeInvariance, PTL DEF Spec

-----------------------------------------------------------------------------
\* A step takes mutex_ for one thread that goes into its critical section, or
\* gives it back for the one that leaves.
LEMMA MutexInvariance == TypeOK /\ MutexHeld /\ [Next]_vars => MutexHeld'
<1> SUFFICES ASSUME TypeOK, MutexHeld, [Next]_vars PROVE MutexHeld'
  OBVIOUS
<1> USE NoThreadAssumption DEF TypeOK, MutexHeld, PCs
<1>1. CASE UNCHANGED vars
  BY <1>1 DEF vars
<1>2. ASSUME NEW t \in Threads, NEW op \in Ops, NEW m \in Messages, Call(t, op, m)
      PROVE  MutexHeld'
  BY <1>2 DEF Call, Goto
<1>3. ASSUME NEW t \in Threads, Lock(t) PROVE MutexHeld'
  BY <1>3 DEF Lock, Goto
<1>4. ASSUME NEW t \in Threads, pc[t] = "inside", PopFront(t) \/ PopEmpty(t) PROVE MutexHeld'
  BY <1>4 DEF PopFront, PopEmpty, Goto, Unlock
<1>5. ASSUME NEW t \in Threads, Wait(t) PROVE MutexHeld'
  BY <1>5 DEF Wait, Goto, Unlock, In
<1>6. ASSUME NEW t \in Threads, SpuriousWakeup(t) PROVE MutexHeld'
  BY <1>6 DEF SpuriousWakeup, Goto
<1>7. ASSUME NEW t \in Threads, Push(t) \/ Clear(t) \/ Size(t) PROVE MutexHeld'
  BY <1>7 DEF Push, Clear, Size, Goto, Unlock, In
<1>8. ASSUME NEW t \in Threads, NotifyOne(t) PROVE MutexHeld'
  BY <1>8 DEF NotifyOne, Goto, Waiting
<1> QED
  BY <1>1, <1>2, <1>3, <1>4, <1>5, <1>6, <1>7, <1>8 DEF Next, Step, PopOrWait, Pop, In

\* mutex_ is held by exactly the thread that is inside a critical section, so
\* there is at most one (every method of queue.h).
THEOREM MutualExclusion == Spec => []MutexHeld
<1>1. Init => MutexHeld
  BY NoThreadAssumption DEF Init, MutexHeld
<1> QED
  BY <1>1, MutexInvariance, TypeCorrect, PTL DEF Spec

-----------------------------------------------------------------------------
\* Only PopOrWait() blocks on not_empty_cv_.
LEMMA WaitersInvariance == TypeOK /\ WaitersPop /\ [Next]_vars => WaitersPop'
<1> SUFFICES ASSUME TypeOK, WaitersPop, [Next]_vars PROVE WaitersPop'
  OBVIOUS
<1> USE DEF TypeOK, WaitersPop, PCs
<1>1. CASE UNCHANGED vars
  BY <1>1 DEF vars
<1>2. ASSUME NEW t \in Threads, NEW op \in Ops, NEW m \in Messages, Call(t, op, m)
      PROVE  WaitersPop'
  BY <1>2 DEF Call, Goto
<1>3. ASSUME NEW t \in Threads, Lock(t) \/ Wait(t) \/ SpuriousWakeup(t) PROVE WaitersPop'
  BY <1>3 DEF Lock, Wait, SpuriousWakeup, Goto, In
<1>4. ASSUME NEW t \in Threads, PopFront(t) \/ PopEmpty(t) PROVE WaitersPop'
  BY <1>4 DEF PopFront, PopEmpty, Goto
<1>5. ASSUME NEW t \in Threads, Push(t) \/ Clear(t) \/ Size(t) PROVE WaitersPop'
  BY <1>5 DEF Push, Clear, Size, Goto
<1>6. ASSUME NEW t \in Threads, NotifyOne(t) PROVE WaitersPop'
  BY <1>6 DEF NotifyOne, Goto, Waiting
<1> QED
  BY <1>1, <1>2, <1>3, <1>4, <1>5, <1>6 DEF Next, Step, PopOrWait, Pop

\* InFlight is a finite set, and its size a natural number.
LEMMA InFlightFinite == IsFiniteSet(InFlight) /\ Cardinality(InFlight) \in Nat
BY ThreadsFinite, FS_Subset, FS_CardinalityType DEF InFlight

\* A finite set is no smaller after it has gained an element, and it loses one
\* for one element that leaves.
LEMMA SizeAdd ==
  ASSUME NEW S, NEW T, NEW x, IsFiniteSet(S), T = S \cup {x}, x \notin S
  PROVE  Cardinality(T) = Cardinality(S) + 1
BY FS_AddElement

\* The other direction of SizeAdd.
LEMMA SizeRemove ==
  ASSUME NEW S, NEW T, NEW x, IsFiniteSet(S), T = S \ {x}, x \in S
  PROVE  Cardinality(T) = Cardinality(S) - 1
BY FS_RemoveElement

\* Every step that adds a message adds a thread that is on its way to the list,
\* and every thread that leaves the way takes a message or wakes another.
LEMMA WakeupInvariance ==
  TypeOK /\ WaitersPop /\ NoLostWakeup /\ [Next]_vars => NoLostWakeup'
<1> SUFFICES ASSUME TypeOK, WaitersPop, NoLostWakeup, [Next]_vars PROVE NoLostWakeup'
  OBVIOUS
<1> USE InFlightFinite DEF TypeOK, NoLostWakeup, Waiting
<1>1. CASE UNCHANGED vars
  BY <1>1 DEF vars, InFlight
<1>2. ASSUME NEW t \in Threads, NEW op \in Ops, NEW m \in Messages, Call(t, op, m)
      PROVE  NoLostWakeup'
  <2>1. Waiting' = Waiting /\ message_list' = message_list
    BY <1>2 DEF Call, Goto
  <2>2. InFlight' = InFlight \/ (InFlight' = InFlight \cup {t} /\ t \notin InFlight)
    BY <1>2 DEF Call, Goto, InFlight
  <2> QED
    BY <2>1, <2>2, SizeAdd
<1>3. ASSUME NEW t \in Threads, Lock(t) PROVE NoLostWakeup'
  <2>1. Waiting' = Waiting /\ InFlight' = InFlight /\ message_list' = message_list
    BY <1>3 DEF Lock, Goto, InFlight
  <2> QED
    BY <2>1
<1>4. ASSUME NEW t \in Threads, PopOrWait(t) PROVE NoLostWakeup'
  <2>1. Waiting' = Waiting /\ Len(message_list') = Len(message_list) - 1
    BY <1>4 DEF PopOrWait, PopFront, Goto, In
  <2>2. InFlight' = InFlight \ {t} /\ t \in InFlight
    BY <1>4 DEF PopOrWait, PopFront, Goto, In, InFlight
  <2> QED
    BY <2>1, <2>2, SizeRemove
<1>5. ASSUME NEW t \in Threads, Wait(t) \/ Clear(t) PROVE NoLostWakeup'
  <2>1. Len(message_list') = 0
    BY <1>5 DEF Wait, Clear
  <2>2. Cardinality(InFlight') \in Nat
    BY ThreadsFinite, FS_Subset, FS_CardinalityType DEF InFlight
  <2> QED
    BY <2>1, <2>2
<1>6. ASSUME NEW t \in Threads, SpuriousWakeup(t) PROVE NoLostWakeup'
  <2>1. message_list' = message_list /\ t \in Waiting
    BY <1>6 DEF SpuriousWakeup
  <2>2. InFlight' = InFlight \cup {t} /\ t \notin InFlight
    BY <1>6 DEF SpuriousWakeup, Goto, InFlight, WaitersPop
  <2> QED
    BY <2>1, <2>2, SizeAdd
<1>7. ASSUME NEW t \in Threads, Pop(t) PROVE NoLostWakeup'
  <2>1. Waiting' = Waiting /\ InFlight' = InFlight
    BY <1>7 DEF Pop, PopFront, PopEmpty, Goto, In, InFlight
  <2>2. Len(message_list') <= Len(message_list)
    BY <1>7 DEF Pop, PopFront, PopEmpty
  <2>3. Len(message_list') \in Nat
    BY <1>7 DEF Pop, PopFront, PopEmpty
  <2> QED
    BY <2>1, <2>2, <2>3
<1>8. ASSUME NEW t \in Threads, Push(t) PROVE NoLostWakeup'
  <2>1. Waiting' = Waiting /\ Len(message_list') = Len(message_list) + 1
    BY <1>8 DEF Push, Goto, In
  <2>2. InFlight' = InFlight \cup {t} /\ t \notin InFlight
    BY <1>8 DEF Push, Goto, In, InFlight
  <2> QED
    BY <2>1, <2>2, SizeAdd
<1>9. ASSUME NEW t \in Threads, NotifyOne(t) PROVE NoLostWakeup'
  <2>1. CASE Waiting = {} /\ Goto(t, "idle")
    BY <1>9, <2>1 DEF NotifyOne, Goto
  <2>2. ASSUME NEW w \in Waiting, pc' = [pc EXCEPT ![t] = "idle", ![w] = "lock"]
        PROVE  NoLostWakeup'
    <3>1. message_list' = message_list
      BY <1>9 DEF NotifyOne
    <3>2. /\ t \in InFlight
          /\ w \notin InFlight \ {t}
          /\ InFlight' = (InFlight \ {t}) \cup {w}
      BY <1>9, <2>2 DEF NotifyOne, InFlight, WaitersPop
    <3>3. IsFiniteSet(InFlight \ {t}) /\ Cardinality(InFlight \ {t}) = Cardinality(InFlight) - 1
      BY <3>2, FS_RemoveElement
    <3>4. Cardinality(InFlight') = Cardinality(InFlight \ {t}) + 1
      BY <3>2, <3>3, SizeAdd
    <3> QED
      BY <3>1, <3>3, <3>4, <2>2
  <2> QED
    BY <1>9, <2>1, <2>2 DEF NotifyOne
<1>10. ASSUME NEW t \in Threads, Size(t) PROVE NoLostWakeup'
  <2>1. Waiting' = Waiting /\ InFlight' = InFlight /\ message_list' = message_list
    BY <1>10 DEF Size, Goto, In, InFlight
  <2> QED
    BY <2>1
<1> QED
  BY <1>1, <1>2, <1>3, <1>4, <1>5, <1>6, <1>7, <1>8, <1>9, <1>10 DEF Next, Step

\* No interleaving of Push() and PopOrWait() loses a wakeup, although
\* notify_one() is called outside the lock and Clear() and Pop() take messages
\* that a notified thread was woken for.
THEOREM NoWakeupIsLost == Spec => []NoLostWakeup
<1>1. Init => WaitersPop /\ NoLostWakeup
  <2>1. Init => Waiting = {} /\ WaitersPop
    BY DEF Init, Waiting, WaitersPop
  <2> QED
    BY <2>1 DEF NoLostWakeup
<1>2. TypeOK /\ (WaitersPop /\ NoLostWakeup) /\ [Next]_vars => (WaitersPop /\ NoLostWakeup)'
  BY WaitersInvariance, WakeupInvariance
<1> QED
  BY <1>1, <1>2, TypeCorrect, PTL DEF Spec

-----------------------------------------------------------------------------
\* Every operation of queue.h takes effect at one instant: the list with its
\* lock and its condition variable implements MessageQueue.
THEOREM Linearizable == Spec => AtomicSpec
<1>1. Init => Atomic!Init
  BY DEF Init, Atomic!Init
<1>2. TypeOK /\ [Next]_vars => [Atomic!Next]_Atomic!vars
  <2> SUFFICES ASSUME TypeOK, [Next]_vars PROVE [Atomic!Next]_Atomic!vars
    OBVIOUS
  <2> USE DEF TypeOK, PCs, Ops
  <2>1. CASE UNCHANGED vars
    BY <2>1 DEF vars, Atomic!vars
  <2>2. ASSUME NEW t \in Threads, NEW op \in Ops, NEW m \in Messages, Call(t, op, m)
        PROVE  Atomic!Next
    <3>1. Atomic!Call(t, op, m)
      BY <2>2 DEF Call, Goto, Atomic!Call
    <3> QED
      BY <3>1 DEF Atomic!Next
  <2>3. ASSUME NEW t \in Threads, Lock(t) \/ Wait(t) \/ SpuriousWakeup(t) \/ NotifyOne(t)
        PROVE  UNCHANGED Atomic!vars
    BY <2>3 DEF Lock, Wait, SpuriousWakeup, NotifyOne, Waiting, Goto, In, Atomic!vars
  <2>4. ASSUME NEW t \in Threads, PopOrWait(t) PROVE Atomic!Next
    <3>1. Atomic!PopOrWait(t)
      BY <2>4 DEF PopOrWait, PopFront, Goto, In, Atomic!PopOrWait, Atomic!Effect, Atomic!Return
    <3> QED
      BY <3>1 DEF Atomic!Next
  <2>5. ASSUME NEW t \in Threads, Pop(t) PROVE Atomic!Next
    <3>1. Atomic!Pop(t)
      BY <2>5 DEF Pop, PopFront, PopEmpty, Goto, In, Atomic!Pop, Atomic!Effect, Atomic!Return
    <3> QED
      BY <3>1 DEF Atomic!Next
  <2>6. ASSUME NEW t \in Threads, Push(t) PROVE Atomic!Next
    <3>1. Atomic!Push(t)
      BY <2>6 DEF Push, Goto, In, Atomic!Push, Atomic!Effect
    <3> QED
      BY <3>1 DEF Atomic!Next
  <2>7. ASSUME NEW t \in Threads, Clear(t) PROVE Atomic!Next
    <3>1. Atomic!Clear(t)
      BY <2>7 DEF Clear, Goto, In, Atomic!Clear, Atomic!Effect
    <3> QED
      BY <3>1 DEF Atomic!Next
  <2>8. ASSUME NEW t \in Threads, Size(t) PROVE Atomic!Next
    <3>1. Atomic!Size(t)
      BY <2>8 DEF Size, Goto, In, Atomic!Size, Atomic!Effect
    <3> QED
      BY <3>1 DEF Atomic!Next
  <2> QED
    BY <2>1, <2>2, <2>3, <2>4, <2>5, <2>6, <2>7, <2>8 DEF Next, Step
<1> QED
  BY <1>1, <1>2, TypeCorrect, PTL DEF Spec, AtomicSpec, Atomic!Spec

=============================================================================
