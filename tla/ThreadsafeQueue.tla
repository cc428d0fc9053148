-------------------------- MODULE ThreadsafeQueue --------------------------
(***************************************************************************)
(* threadsafe_queue.hpp: a std::queue behind a mutex, with a condition      *)
(* variable for wait_and_pop. Threads call any method in any order; a       *)
(* method is as many steps as it has effects another thread could see if    *)
(* the mutex were not there.                                                *)
(***************************************************************************)
EXTENDS Naturals, Sequences, FiniteSets

CONSTANTS
  Threads,
  Free,         \* the value of mut while no thread holds it
  MaxCalls,     \* bound: calls one thread makes
  MaxSpurious,  \* bound: spurious wakeups of the condition variable
  MaxThrows     \* bound: calls that end in std::bad_alloc

ASSUME QueueAssumption ==
  /\ Free \notin Threads
  /\ IsFiniteSet(Threads)
  /\ MaxCalls \in Nat /\ MaxSpurious \in Nat /\ MaxThrows \in Nat

VARIABLES
  mut,         \* the thread that holds the mutex, or Free
  data_queue,
  call,        \* thread -> the method it is in, or was in last
  pc,          \* thread -> its next step; "wait": asleep on data_cond
  front,       \* thread -> the item it copied with front()
  calls,       \* thread -> calls it has made
  spurious,    \* spurious wakeups so far
  thrown,      \* calls that threw so far
  pushed,      \* history: all items pushed
  handed       \* history: all items given to callers

vars == <<mut, data_queue, call, pc, front, calls, spurious, thrown, pushed, handed>>
bounds == <<calls, spurious, thrown>>

Methods == {"push", "wait_and_pop", "try_pop", "grab_all", "size"}
Items == Nat \ {0}
Holding == {"push", "notify", "test", "front", "pop", "swap", "read", "unlock"}
Waiting == {t \in Threads : pc[t] = "wait"}

TypeOK ==
  /\ mut \in Threads \cup {Free}
  /\ data_queue \in Seq(Items)
  /\ call \in [Threads -> Methods]
  /\ pc \in [Threads -> Holding \cup {"idle", "lock", "wait", "woken"}]
  /\ front \in [Threads -> Nat]
  /\ calls \in [Threads -> Nat]
  /\ spurious \in Nat /\ thrown \in Nat
  /\ pushed \in Seq(Items)
  /\ handed \in Seq(Items)

Init ==
  /\ mut = Free
  /\ data_queue = <<>>
  /\ call = [t \in Threads |-> "size"]
  /\ pc = [t \in Threads |-> "idle"]
  /\ front = [t \in Threads |-> 0]
  /\ calls = [t \in Threads |-> 0]
  /\ spurious = 0 /\ thrown = 0
  /\ pushed = <<>> /\ handed = <<>>

-----------------------------------------------------------------------------

Call(t) ==
  /\ pc[t] = "idle"
  /\ calls[t] < MaxCalls
  /\ \E m \in Methods : call' = [call EXCEPT ![t] = m]
  /\ calls' = [calls EXCEPT ![t] = @ + 1]
  /\ pc' = [pc EXCEPT ![t] = "lock"]
  /\ UNCHANGED <<mut, data_queue, front, spurious, thrown, pushed, handed>>

\* The first step of the method's body.
Body(m) ==
  CASE m = "push" -> "push"
    [] m \in {"wait_and_pop", "try_pop"} -> "test"
    [] m = "grab_all" -> "swap"
    [] m = "size" -> "read"

\* Mutant of Lock: a method without its lock_guard.
LockNothing(t) ==
  /\ pc[t] \in {"lock", "woken"}
  /\ mut' = t
  /\ pc' = [pc EXCEPT ![t] = Body(call[t])]
  /\ UNCHANGED <<data_queue, call, front, bounds, pushed, handed>>

\* The guard's constructor, or wait() taking the mutex back before it tests again.
Lock(t) ==
  /\ pc[t] \in {"lock", "woken"}
  /\ mut = Free
  /\ mut' = t
  /\ pc' = [pc EXCEPT ![t] = Body(call[t])]
  /\ UNCHANGED <<data_queue, call, front, bounds, pushed, handed>>

\* The guard's destructor; the method returns.
Unlock(t) ==
  /\ pc[t] = "unlock"
  /\ mut' = Free
  /\ front' = [front EXCEPT ![t] = 0]
  /\ pc' = [pc EXCEPT ![t] = "idle"]
  /\ UNCHANGED <<data_queue, call, bounds, pushed, handed>>

\* push: data_queue.push(new_value).
PushItem(t) ==
  /\ pc[t] = "push"
  /\ LET x == Len(pushed) + 1
     IN data_queue' = Append(data_queue, x) /\ pushed' = Append(pushed, x)
  /\ pc' = [pc EXCEPT ![t] = "notify"]
  /\ UNCHANGED <<mut, call, front, bounds, handed>>

\* Mutant of NotifyOne: only the push onto an empty queue notifies.
NotifyFirst(t) ==
  /\ pc[t] = "notify"
  /\ \/ (Waiting = {} \/ Len(data_queue) > 1) /\ pc' = [pc EXCEPT ![t] = "unlock"]
     \/ /\ Len(data_queue) = 1
        /\ \E w \in Waiting : pc' = [pc EXCEPT ![t] = "unlock", ![w] = "woken"]
  /\ UNCHANGED <<mut, data_queue, call, front, bounds, pushed, handed>>

\* push: data_cond.notify_one(), which is lost when nobody sleeps.
NotifyOne(t) ==
  /\ pc[t] = "notify"
  /\ \/ Waiting = {} /\ pc' = [pc EXCEPT ![t] = "unlock"]
     \/ \E w \in Waiting : pc' = [pc EXCEPT ![t] = "unlock", ![w] = "woken"]
  /\ UNCHANGED <<mut, data_queue, call, front, bounds, pushed, handed>>

\* The test for an empty queue: try_pop gives up, wait_and_pop releases the mutex and
\* falls asleep in one step.
Test(t) ==
  /\ pc[t] = "test"
  /\ \/ data_queue # <<>> /\ pc' = [pc EXCEPT ![t] = "front"] /\ UNCHANGED mut
     \/ /\ data_queue = <<>> /\ call[t] = "try_pop"
        /\ pc' = [pc EXCEPT ![t] = "unlock"] /\ UNCHANGED mut
     \/ /\ data_queue = <<>> /\ call[t] = "wait_and_pop"
        /\ pc' = [pc EXCEPT ![t] = "wait"] /\ mut' = Free
  /\ UNCHANGED <<data_queue, call, front, bounds, pushed, handed>>

\* wait() may return without a notification; it tests again.
WakeSpuriously(t) ==
  /\ pc[t] = "wait"
  /\ spurious < MaxSpurious
  /\ spurious' = spurious + 1
  /\ pc' = [pc EXCEPT ![t] = "woken"]
  /\ UNCHANGED <<mut, data_queue, call, front, calls, thrown, pushed, handed>>

\* Mutant of CopyFront: nothing is copied before the pop, which returns no value.
CopyFrontSkipped(t) ==
  /\ pc[t] = "front"
  /\ pc' = [pc EXCEPT ![t] = "pop"]
  /\ UNCHANGED <<mut, data_queue, call, front, bounds, pushed, handed>>

\* value = data_queue.front(), or make_shared of it.
CopyFront(t) ==
  /\ pc[t] = "front"
  /\ front' = [front EXCEPT ![t] = Head(data_queue)]
  /\ pc' = [pc EXCEPT ![t] = "pop"]
  /\ UNCHANGED <<mut, data_queue, call, bounds, pushed, handed>>

\* data_queue.pop(); the caller has the copy.
Pop(t) ==
  /\ pc[t] = "pop"
  /\ data_queue' = Tail(data_queue)
  /\ handed' = Append(handed, front[t])
  /\ pc' = [pc EXCEPT ![t] = "unlock"]
  /\ UNCHANGED <<mut, call, front, bounds, pushed>>

\* No memory for the new element or for the copy: nothing is changed, the guard unlocks.
Throws(t) ==
  /\ pc[t] \in {"push", "front"}
  /\ thrown < MaxThrows
  /\ thrown' = thrown + 1
  /\ pc' = [pc EXCEPT ![t] = "unlock"]
  /\ UNCHANGED <<mut, data_queue, call, front, calls, spurious, pushed, handed>>

\* Mutant of Swap: the queue is copied and not emptied.
SwapCopies(t) ==
  /\ pc[t] = "swap"
  /\ handed' = handed \o data_queue
  /\ pc' = [pc EXCEPT ![t] = "unlock"]
  /\ UNCHANGED <<mut, data_queue, call, front, bounds, pushed>>

\* Mutant of Swap: the caller gets a reference to the local queue, which is gone.
SwapDangles(t) ==
  /\ pc[t] = "swap"
  /\ data_queue' = <<>>
  /\ pc' = [pc EXCEPT ![t] = "unlock"]
  /\ UNCHANGED <<mut, call, front, bounds, pushed, handed>>

\* grab_all: the whole queue is swapped for an empty one.
Swap(t) ==
  /\ pc[t] = "swap"
  /\ handed' = handed \o data_queue
  /\ data_queue' = <<>>
  /\ pc' = [pc EXCEPT ![t] = "unlock"]
  /\ UNCHANGED <<mut, call, front, bounds, pushed>>

\* size and empty.
Read(t) ==
  /\ pc[t] = "read"
  /\ pc' = [pc EXCEPT ![t] = "unlock"]
  /\ UNCHANGED <<mut, data_queue, call, front, bounds, pushed, handed>>

Step(t) ==
  \/ Lock(t) \/ Unlock(t) \/ PushItem(t) \/ NotifyOne(t) \/ Test(t)
  \/ CopyFront(t) \/ Pop(t) \/ Throws(t) \/ Swap(t) \/ Read(t)

Next == \E t \in Threads : Call(t) \/ Step(t) \/ WakeSpuriously(t)

Spec == Init /\ [][Next]_vars

\* Every thread in a method is scheduled. Calls and spurious wakeups are bounded, so
\* weak fairness lets a thread that wants the mutex have it in the end.
FairSpec == Spec /\ \A t \in Threads : WF_vars(Step(t))

-----------------------------------------------------------------------------

\* A thread between its guard's constructor and destructor is the one that holds mut
\* (every method locks before it looks at data_queue, and wait() locks again).
MutualExclusion == \A t \in Threads : pc[t] \in Holding => mut = t

\* Items leave in the order they were pushed, none lost and none twice, although a pop
\* copies the front and removes it in two steps.
Fifo == handed \o data_queue = pushed

\* Threads that were woken or are about to take an item, and a push about to notify.
OnTheWay == {t \in Threads : pc[t] \in {"woken", "test", "front", "pop", "notify"}}

\* No wakeup is lost: while a thread sleeps in wait_and_pop, every item in the queue has
\* a thread coming for it. A call that threw takes its wakeup with it.
NoLostWakeup ==
  thrown = 0 /\ Waiting # {} => Len(data_queue) <= Cardinality(OnTheWay)

\* A thread asleep in wait_and_pop does not stay so while the queue has items.
SleeperServed ==
  \A t \in Threads :
    (pc[t] = "wait" /\ data_queue # <<>>)
      ~> (pc[t] # "wait" \/ data_queue = <<>> \/ thrown > 0)

\* The refinement: to its callers the queue is FifoQueue.
Abstract == INSTANCE FifoQueue
ImplementsFifo == Abstract!Spec
=============================================================================
