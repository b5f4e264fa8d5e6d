-------------------------------- MODULE Queue --------------------------------
(***************************************************************************)
(* webcc/queue.h, class Queue<T>: a std::list guarded by one mutex, with a *)
(* condition variable on which PopOrWait() blocks.  Any thread may call    *)
(* any operation.  Every operation first takes mutex_ (Lock); its body     *)
(* runs while the mutex is held and releases it.  Push() notifies after it *)
(* has released the mutex, so other threads may run in between.            *)
(***************************************************************************)
EXTENDS Naturals, Sequences, FiniteSets

CONSTANTS
  Threads,
  Messages,
  Null,
  NoMessage,
  NoThread,     \* mutex_ is free
  MaxLength     \* bound: no Push() is called on a list this long

ASSUME ThreadsFinite == IsFiniteSet(Threads)
ASSUME NoThreadAssumption == NoThread \notin Threads
ASSUME MessagesAssumption == Null \in Messages /\ NoMessage \notin Messages
ASSUME MaxLengthAssumption == MaxLength \in Nat

VARIABLES
  message_list,  \* message_list_
  mutex,         \* the thread that holds mutex_
  call,          \* the operation each thread is in (or was last in)
  pc,            \* where in that operation it is
  arg,           \* the argument of its Push()
  got            \* the result of its last PopOrWait() or Pop()

vars == <<message_list, mutex, call, pc, arg, got>>

Ops == {"PopOrWait", "Pop", "Push", "Clear", "Size"}

\* lock: about to take the mutex; inside: holds it; waiting: blocked in
\* not_empty_cv_; notify: Push() has unlocked and is about to notify_one().
PCs == {"idle", "lock", "inside", "waiting", "notify"}

TypeOK ==
  /\ message_list \in Seq(Messages)
  /\ mutex \in Threads \cup {NoThread}
  /\ call \in [Threads -> Ops]
  /\ pc \in [Threads -> PCs]
  /\ arg \in [Threads -> Messages]
  /\ got \in [Threads -> Messages \cup {NoMessage}]

Init ==
  /\ message_list = <<>>
  /\ mutex = NoThread
  /\ call = [t \in Threads |-> "Size"]
  /\ pc = [t \in Threads |-> "idle"]
  /\ arg = [t \in Threads |-> Null]
  /\ got = [t \in Threads |-> NoMessage]

-----------------------------------------------------------------------------
Goto(t, l) == pc' = [pc EXCEPT ![t] = l]

\* The thread holds the mutex inside op.
In(t, op) == pc[t] = "inside" /\ call[t] = op

\* The lock goes out of scope.
Unlock == mutex' = NoThread

Call(t, op, m) ==
  /\ pc[t] = "idle"
  /\ op = "Push" => Len(message_list) < MaxLength
  /\ op # "Push" => m = Null
  /\ Goto(t, "lock")
  /\ call' = [call EXCEPT ![t] = op]
  /\ arg' = [arg EXCEPT ![t] = m]
  /\ got' = [got EXCEPT ![t] = NoMessage]
  /\ UNCHANGED <<message_list, mutex>>

Lock(t) ==
  /\ pc[t] = "lock"
  /\ mutex = NoThread
  /\ mutex' = t
  /\ Goto(t, "inside")
  /\ UNCHANGED <<message_list, call, arg, got>>

PopFront(t) ==
  /\ message_list # <<>>
  /\ got' = [got EXCEPT ![t] = Head(message_list)]
  /\ message_list' = Tail(message_list)
  /\ Goto(t, "idle")
  /\ Unlock
  /\ UNCHANGED <<call, arg>>

PopEmpty(t) ==
  /\ message_list = <<>>
  /\ got' = [got EXCEPT ![t] = Null]
  /\ Goto(t, "idle")
  /\ Unlock
  /\ UNCHANGED <<message_list, call, arg>>

\* Seeded bug: wait() without the predicate, so that a thread which was
\* overtaken on its way to the list returns from an empty one.
PopOrWaitUnguarded(t) == In(t, "PopOrWait") /\ (PopFront(t) \/ PopEmpty(t))

\* The predicate of not_empty_cv_.wait() is true: take the front message.
PopOrWait(t) == In(t, "PopOrWait") /\ PopFront(t)

\* The predicate is false: release the mutex and block, in one step.
Wait(t) ==
  /\ In(t, "PopOrWait")
  /\ message_list = <<>>
  /\ Goto(t, "waiting")
  /\ Unlock
  /\ UNCHANGED <<message_list, call, arg, got>>

\* std::condition_variable may wake a waiter for no reason.
SpuriousWakeup(t) ==
  /\ pc[t] = "waiting"
  /\ Goto(t, "lock")
  /\ UNCHANGED <<message_list, mutex, call, arg, got>>

Pop(t) == In(t, "Pop") /\ (PopFront(t) \/ PopEmpty(t))

\* Seeded bug: a message that has been moved from is pushed.
PushMovedFrom(t) ==
  /\ In(t, "Push")
  /\ message_list' = Append(message_list, got[t])
  /\ Goto(t, "notify")
  /\ Unlock
  /\ UNCHANGED <<call, arg, got>>

\* Seeded bug: notify only when the list was empty.
PushNotifyIfEmpty(t) ==
  /\ In(t, "Push")
  /\ message_list' = Append(message_list, arg[t])
  /\ Goto(t, IF message_list = <<>> THEN "notify" ELSE "idle")
  /\ Unlock
  /\ UNCHANGED <<call, arg, got>>

Push(t) ==
  /\ In(t, "Push")
  /\ message_list' = Append(message_list, arg[t])
  /\ Goto(t, "notify")
  /\ Unlock
  /\ UNCHANGED <<call, arg, got>>

Waiting == {t \in Threads : pc[t] = "waiting"}

\* notify_one(): a woken thread has to take the mutex again before it tests
\* the predicate.
NotifyOne(t) ==
  /\ pc[t] = "notify"
  /\ \/ /\ Waiting = {}
        /\ Goto(t, "idle")
     \/ \E w \in Waiting : pc' = [pc EXCEPT ![t] = "idle", ![w] = "lock"]
  /\ UNCHANGED <<message_list, mutex, call, arg, got>>

Clear(t) ==
  /\ In(t, "Clear")
  /\ message_list' = <<>>
  /\ Goto(t, "idle")
  /\ Unlock
  /\ UNCHANGED <<call, arg, got>>

Size(t) ==
  /\ In(t, "Size")
  /\ Goto(t, "idle")
  /\ Unlock
  /\ UNCHANGED <<message_list, call, arg, got>>

-----------------------------------------------------------------------------
\* What a thread does once it has called.
Step(t) ==
  \/ Lock(t)
  \/ PopOrWait(t)
  \/ Wait(t)
  \/ Pop(t)
  \/ Push(t)
  \/ NotifyOne(t)
  \/ Clear(t)
  \/ Size(t)

Next ==
  \E t \in Threads :
    \/ \E op \in Ops, m \in Messages : Call(t, op, m)
    \/ Step(t)
    \/ SpuriousWakeup(t)

\* A runnable thread is scheduled; a mutex that is free is taken by some thread
\* that asks for it.  Nobody has to call, and no waiter is sure to be woken
\* without a notification.
Spec == Init /\ [][Next]_vars /\ \A t \in Threads : WF_vars(Step(t))

-----------------------------------------------------------------------------
\* Threads that will look at the list, or will wake a thread that does,
\* whatever the others do.
InFlight ==
  {t \in Threads : \/ pc[t] \in {"lock", "inside"} /\ call[t] = "PopOrWait"
                   \/ pc[t] = "notify"}

\* No wakeup is lost, although Push() calls notify_one() after it has released
\* the lock and one notification wakes one thread: while a thread is blocked
\* on the condition variable, the threads on their way to the list are at
\* least as many as the messages in it.
NoLostWakeup == Waiting # {} => Len(message_list) <= Cardinality(InFlight)

\* The critical sections are mutually exclusive, and a thread that blocks on
\* the condition variable, notifies or returns has given mutex_ back.
MutexHeld == \A t \in Threads : (mutex = t) <=> (pc[t] = "inside")

\* The queue implements the atomic FIFO list: every call takes effect once, and
\* no message is lost, duplicated or reordered by the interleaving.
Atomic == INSTANCE MessageQueue WITH
  messages <- message_list,
  pending <- [t \in Threads |-> IF pc[t] \in {"idle", "notify"} THEN "none" ELSE call[t]]
AtomicSpec == Atomic!Spec

\* Once the threads make no new calls, no message stays in the list while a
\* thread that could take it is blocked in PopOrWait().
NoNewCalls == [][\A t \in Threads : pc[t] = "idle" => pc'[t] = "idle"]_pc
WaiterServed ==
  <>NoNewCalls => <>[](Waiting = {} \/ message_list = <<>>)

=============================================================================
