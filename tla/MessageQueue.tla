---------------------------- MODULE MessageQueue ----------------------------
(***************************************************************************)
(* What webcc/queue.h promises its users: a FIFO list of messages, each    *)
(* operation of which takes effect at one instant between its call and its *)
(* return.  Queue is the implementation; Server uses the queue at this     *)
(* level.                                                                  *)
(***************************************************************************)
EXTENDS Naturals, Sequences

CONSTANTS
  Threads,    \* the threads that share the queue
  Messages,   \* the values of the template parameter T
  Null,       \* T(): the message Pop() returns from an empty queue
  NoMessage   \* the thread holds no result

VARIABLES
  messages,   \* the list, head first
  pending,    \* the call of each thread that has not taken effect yet
  arg,        \* the argument of the thread's Push()
  got         \* the message the thread's last call returned

vars == <<messages, pending, arg, got>>

Init ==
  /\ messages = <<>>
  /\ pending = [t \in Threads |-> "none"]
  /\ arg = [t \in Threads |-> Null]
  /\ got = [t \in Threads |-> NoMessage]

Call(t, op, m) ==
  /\ pending[t] = "none"
  /\ pending' = [pending EXCEPT ![t] = op]
  /\ arg' = [arg EXCEPT ![t] = m]
  /\ got' = [got EXCEPT ![t] = NoMessage]
  /\ UNCHANGED messages

\* The call takes effect and leaves the list `list`.
Effect(t, op, list) ==
  /\ pending[t] = op
  /\ pending' = [pending EXCEPT ![t] = "none"]
  /\ messages' = list
  /\ UNCHANGED arg

Return(t, m) == got' = [got EXCEPT ![t] = m]

\* PopOrWait() takes effect only on a non-empty list.
PopOrWait(t) ==
  /\ messages # <<>>
  /\ Effect(t, "PopOrWait", Tail(messages))
  /\ Return(t, Head(messages))

Pop(t) ==
  \/ /\ messages # <<>>
     /\ Effect(t, "Pop", Tail(messages))
     /\ Return(t, Head(messages))
  \/ /\ messages = <<>>
     /\ Effect(t, "Pop", messages)
     /\ Return(t, Null)

Push(t) == Effect(t, "Push", Append(messages, arg[t])) /\ UNCHANGED got
Clear(t) == Effect(t, "Clear", <<>>) /\ UNCHANGED got
Size(t) == Effect(t, "Size", messages) /\ UNCHANGED got

Next ==
  \E t \in Threads :
    \/ \E op \in {"PopOrWait", "Pop", "Push", "Clear", "Size"}, m \in Messages :
         Call(t, op, m)
    \/ PopOrWait(t) \/ Pop(t) \/ Push(t) \/ Clear(t) \/ Size(t)

Spec == Init /\ [][Next]_vars

=============================================================================
