----------------------- MODULE ThreadsafeQueueProofs -----------------------
(***************************************************************************)
(* The queue for any number of threads, calls, spurious wakeups and         *)
(* exceptions.                                                              *)
(***************************************************************************)
EXTENDS ThreadsafeQueue, SequenceLemmas, FiniteSetTheorems

\* The initial values have their types.
LEMMA InitTypeOK == Init => TypeOK
  BY EmptySeq DEF Init, TypeOK, Methods, Holding

\* A thread about to copy or remove the front has an item there, and the copy is of it.
FrontInv ==
  \A t \in Threads :
    /\ pc[t] \in {"front", "pop"} => data_queue # <<>>
    /\ pc[t] = "pop" => front[t] = Head(data_queue)

\* Only wait_and_pop sleeps, and only push notifies.
CallInv ==
  \A t \in Threads : pc[t] \in {"wait", "woken"} => call[t] = "wait_and_pop"

Inv == TypeOK /\ MutualExclusion /\ FrontInv /\ CallInv

\* Every step keeps them.
LEMMA TypeStep ==
  ASSUME TypeOK, FrontInv, [Next]_vars
  PROVE  TypeOK'
  <1>. USE DEF TypeOK, Holding, bounds
  <1>1. ASSUME NEW t \in Threads, Call(t) PROVE TypeOK'
    BY <1>1 DEF Call
  <1>2. ASSUME NEW t \in Threads, Lock(t) PROVE TypeOK'
    BY <1>2 DEF Lock, Body, Methods
  <1>3. ASSUME NEW t \in Threads, Unlock(t) PROVE TypeOK'
    BY <1>3 DEF Unlock
  <1>4. ASSUME NEW t \in Threads, PushItem(t) PROVE TypeOK'
    <2>1. Len(pushed) + 1 \in Items
      BY LenProperties DEF Items
    <2>2. /\ Append(pushed, Len(pushed) + 1) \in Seq(Items)
          /\ Append(data_queue, Len(pushed) + 1) \in Seq(Items)
      BY <2>1, AppendProperties
    <2>. QED BY <1>4, <2>2 DEF PushItem
  <1>5. ASSUME NEW t \in Threads, NotifyOne(t) PROVE TypeOK'
    BY <1>5 DEF NotifyOne, Waiting
  <1>6. ASSUME NEW t \in Threads, Test(t) PROVE TypeOK'
    BY <1>6 DEF Test
  <1>7. ASSUME NEW t \in Threads, WakeSpuriously(t) PROVE TypeOK'
    BY <1>7 DEF WakeSpuriously
  <1>8. ASSUME NEW t \in Threads, CopyFront(t) PROVE TypeOK'
    <2>0. data_queue \in Seq(Items) /\ data_queue # <<>>
      BY <1>8 DEF CopyFront, FrontInv
    <2>1. Head(data_queue) \in Items
      BY <2>0, HeadTailProperties
    <2>2. Head(data_queue) \in Nat
      BY <2>1 DEF Items
    <2>. QED BY <1>8, <2>2 DEF CopyFront
  <1>9. ASSUME NEW t \in Threads, Pop(t) PROVE TypeOK'
    <2>0. data_queue \in Seq(Items) /\ data_queue # <<>> /\ front[t] = Head(data_queue)
      BY <1>9 DEF Pop, FrontInv
    <2>1. Head(data_queue) \in Items /\ Tail(data_queue) \in Seq(Items)
      BY <2>0, HeadTailProperties
    <2>2. Append(handed, front[t]) \in Seq(Items)
      BY <2>0, <2>1, AppendProperties
    <2>. QED BY <1>9, <2>1, <2>2 DEF Pop
  <1>10. ASSUME NEW t \in Threads, Throws(t) PROVE TypeOK'
    BY <1>10 DEF Throws
  <1>11. ASSUME NEW t \in Threads, Swap(t) PROVE TypeOK'
    <2>1. handed \o data_queue \in Seq(Items) /\ <<>> \in Seq(Items)
      BY ConcatProperties, EmptySeq
    <2>. QED BY <1>11, <2>1 DEF Swap
  <1>12. ASSUME NEW t \in Threads, Read(t) PROVE TypeOK'
    BY <1>12 DEF Read
  <1>13. CASE UNCHANGED vars
    BY <1>13 DEF vars
  <1>14. ASSUME NEW t \in Threads, Step(t) PROVE TypeOK'
    BY <1>2, <1>3, <1>4, <1>5, <1>6, <1>8, <1>9, <1>10, <1>11, <1>12, <1>14 DEF Step
  <1>. HIDE DEF TypeOK
  <1>. QED BY <1>1, <1>7, <1>13, <1>14 DEF Next

\* Who holds the mutex is alone between its guard's constructor and destructor.
LEMMA LockStep ==
  ASSUME TypeOK, MutualExclusion, [Next]_vars
  PROVE  MutualExclusion'
  <1>. USE QueueAssumption DEF TypeOK, MutualExclusion, Holding
  <1>1. ASSUME NEW t \in Threads, Call(t) \/ WakeSpuriously(t)
        PROVE  MutualExclusion'
    BY <1>1 DEF Call, WakeSpuriously
  <1>2. ASSUME NEW t \in Threads, Lock(t) \/ Unlock(t)
        PROVE  MutualExclusion'
    BY <1>2 DEF Lock, Unlock
  <1>3. ASSUME NEW t \in Threads, NotifyOne(t)
        PROVE  MutualExclusion'
    BY <1>3 DEF NotifyOne, Waiting
  <1>4. ASSUME NEW t \in Threads, Test(t)
        PROVE  MutualExclusion'
    <2>1. \A u \in Threads : pc[u] \in Holding => u = t
      BY <1>4 DEF Test
    <2>2. CASE mut' = mut
      BY <1>4, <2>2 DEF Test
    <2>3. CASE pc' = [pc EXCEPT ![t] = "wait"]
      <3>1. \A u \in Threads : pc'[u] \notin Holding
        BY <2>1, <2>3
      <3>. QED BY <3>1
    <2>. QED BY <1>4, <2>2, <2>3 DEF Test
  <1>5. ASSUME NEW t \in Threads,
               \/ PushItem(t) \/ CopyFront(t) \/ Pop(t) \/ Throws(t) \/ Swap(t) \/ Read(t)
        PROVE  MutualExclusion'
    BY <1>5 DEF PushItem, CopyFront, Pop, Throws, Swap, Read
  <1>6. CASE UNCHANGED vars
    BY <1>6 DEF vars
  <1>. HIDE DEF TypeOK, MutualExclusion, Holding
  <1>7. ASSUME NEW t \in Threads, Step(t) PROVE MutualExclusion'
    BY <1>2, <1>3, <1>4, <1>5, <1>7 DEF Step
  <1>. QED BY <1>1, <1>6, <1>7 DEF Next

\* Nobody else changes the queue between a pop's test, its copy and its removal.
LEMMA FrontStep ==
  ASSUME TypeOK, MutualExclusion, FrontInv, [Next]_vars
  PROVE  FrontInv'
  <1>. USE DEF TypeOK, FrontInv, Holding
  <1>1. ASSUME NEW t \in Threads, Call(t) \/ WakeSpuriously(t) \/ Lock(t) \/ Unlock(t)
        PROVE  FrontInv'
    BY <1>1 DEF Call, WakeSpuriously, Lock, Unlock, Body, Methods, bounds
  <1>2. ASSUME NEW t \in Threads, NotifyOne(t) \/ Test(t) \/ Throws(t) \/ Read(t)
        PROVE  FrontInv'
    BY <1>2 DEF NotifyOne, Waiting, Test, Throws, Read
  <1>3. ASSUME NEW t \in Threads, CopyFront(t)
        PROVE  FrontInv'
    BY <1>3 DEF CopyFront
  <1>4. ASSUME NEW t \in Threads, PushItem(t) \/ Pop(t) \/ Swap(t)
        PROVE  FrontInv'
    <2>1. \A u \in Threads : pc[u] \in {"front", "pop"} => u = t
      BY <1>4 DEF MutualExclusion, PushItem, Pop, Swap
    <2>2. \A u \in Threads : pc'[u] \notin {"front", "pop"}
      BY <1>4, <2>1 DEF PushItem, Pop, Swap
    <2>. QED BY <2>2
  <1>5. CASE UNCHANGED vars
    BY <1>5 DEF vars
  <1>. HIDE DEF TypeOK, FrontInv, Holding
  <1>6. ASSUME NEW t \in Threads, Step(t) PROVE FrontInv'
    BY <1>1, <1>2, <1>3, <1>4, <1>6 DEF Step
  <1>. QED BY <1>1, <1>5, <1>6 DEF Next

\* Every step keeps the sleepers in wait_and_pop.
LEMMA CallStep ==
  ASSUME TypeOK, CallInv, [Next]_vars
  PROVE  CallInv'
  <1>. USE DEF TypeOK, CallInv, Holding
  <1>1. ASSUME NEW t \in Threads, Call(t) \/ WakeSpuriously(t) \/ Lock(t) \/ Unlock(t)
        PROVE  CallInv'
    BY <1>1 DEF Call, WakeSpuriously, Lock, Unlock, Body, Methods, bounds
  <1>2. ASSUME NEW t \in Threads, NotifyOne(t) \/ Test(t)
        PROVE  CallInv'
    BY <1>2 DEF NotifyOne, Waiting, Test
  <1>3. ASSUME NEW t \in Threads,
               \/ PushItem(t) \/ CopyFront(t) \/ Pop(t) \/ Throws(t) \/ Swap(t) \/ Read(t)
        PROVE  CallInv'
    BY <1>3 DEF PushItem, CopyFront, Pop, Throws, Swap, Read
  <1>4. CASE UNCHANGED vars
    BY <1>4 DEF vars
  <1>. HIDE DEF TypeOK, CallInv, Holding
  <1>5. ASSUME NEW t \in Threads, Step(t) PROVE CallInv'
    BY <1>1, <1>2, <1>3, <1>5 DEF Step
  <1>. QED BY <1>1, <1>4, <1>5 DEF Next

\* The inductive invariant: types, the lock, and what a thread in mid-pop relies on.
THEOREM QueueInvariant == Spec => []Inv
  <1>1. Init => Inv
    BY InitTypeOK DEF Init, Inv, MutualExclusion, Holding, FrontInv, CallInv
  <1>2. Inv /\ [Next]_vars => Inv'
    BY TypeStep, LockStep, FrontStep, CallStep DEF Inv
  <1>. QED BY <1>1, <1>2, PTL DEF Spec

\* Every variable of the queue keeps its type, for any number of threads and items.
THEOREM TypeCorrect == Spec => []TypeOK
  BY QueueInvariant, PTL DEF Inv

\* data_queue is touched by one thread at a time.
THEOREM QueueExclusive == Spec => []MutualExclusion
  BY QueueInvariant, PTL DEF Inv

-----------------------------------------------------------------------------
(* First in, first out.                                                    *)

\* The lemmas on sequences, for items.
LEMMA ItemAppendLast ==
  \A a, b \in Seq(Items) : \A x \in Items : a \o Append(b, x) = Append(a \o b, x)
  BY AppendLast

\* An item moved from the head of the queue to the caller leaves the whole alone.
LEMMA ItemMoveHead ==
  \A a, b \in Seq(Items) : b # <<>> => Append(a, Head(b)) \o Tail(b) = a \o b
  BY MoveHead

\* Every method moves items from the queue to its caller in order.
LEMMA FifoStep ==
  ASSUME Inv, Fifo, [Next]_vars
  PROVE  Fifo'
  <1>1. /\ data_queue \in Seq(Items) /\ handed \in Seq(Items) /\ pushed \in Seq(Items)
        /\ Len(pushed) + 1 \in Items
    BY LenProperties DEF Inv, TypeOK, Items
  <1>2. ASSUME NEW t \in Threads, PushItem(t) PROVE Fifo'
    <2>1. /\ data_queue' = Append(data_queue, Len(pushed) + 1)
          /\ pushed' = Append(pushed, Len(pushed) + 1) /\ handed' = handed
      BY <1>2 DEF PushItem
    <2>2. handed \o Append(data_queue, Len(pushed) + 1)
            = Append(handed \o data_queue, Len(pushed) + 1)
      BY <1>1, ItemAppendLast, Zenon
    <2>. QED BY <2>1, <2>2 DEF Fifo
  <1>3. ASSUME NEW t \in Threads, Pop(t) PROVE Fifo'
    <2>1. /\ data_queue # <<>> /\ data_queue' = Tail(data_queue)
          /\ handed' = Append(handed, Head(data_queue)) /\ pushed' = pushed
      BY <1>3 DEF Pop, Inv, FrontInv
    <2>2. Append(handed, Head(data_queue)) \o Tail(data_queue) = handed \o data_queue
      BY <1>1, <2>1, ItemMoveHead, Zenon
    <2>. QED BY <2>1, <2>2 DEF Fifo
  <1>4. ASSUME NEW t \in Threads, Swap(t) PROVE Fifo'
    <2>1. (handed \o data_queue) \o <<>> = handed \o data_queue
      BY <1>1, ConcatProperties, ConcatEmptySeq
    <2>. QED BY <1>4, <2>1 DEF Swap, Fifo
  <1>5. ASSUME NEW t \in Threads,
               \/ Call(t) \/ WakeSpuriously(t) \/ Lock(t) \/ Unlock(t) \/ NotifyOne(t)
               \/ Test(t) \/ CopyFront(t) \/ Throws(t) \/ Read(t)
        PROVE  UNCHANGED <<data_queue, pushed, handed>>
    BY <1>5 DEF Call, WakeSpuriously, Lock, Unlock, NotifyOne, Test, CopyFront, Throws, Read
  <1>6. CASE UNCHANGED vars
    BY <1>6 DEF vars, Fifo
  <1>. QED BY <1>2, <1>3, <1>4, <1>5, <1>6 DEF Next, Step, Fifo

\* Items leave in the order they came, none lost and none twice.
THEOREM QueueFifo == Spec => []Fifo
  <1>1. Init => Fifo
    BY EmptySeq, ConcatEmptySeq DEF Init, Fifo
  <1>2. Inv /\ Fifo /\ [Next]_vars => Fifo'
    BY FifoStep
  <1>. QED BY <1>1, <1>2, QueueInvariant, PTL DEF Spec

-----------------------------------------------------------------------------
(* The refinement.                                                         *)

\* One more item for the callers is a longer beginning of what was pushed.
LEMMA ItemNext ==
  \A a, b \in Seq(Items) :
    b # <<>> => /\ Len(a) < Len(a) + 1 /\ Len(a) + 1 <= Len(a \o b)
                /\ Append(a, Head(b)) = SubSeq(a \o b, 1, Len(a) + 1)
  BY NextBeginning

\* All items for the callers are all that was pushed.
LEMMA ItemAll ==
  \A a, b \in Seq(Items) :
    b # <<>> => Len(a) < Len(a \o b) /\ SubSeq(a \o b, 1, Len(a \o b)) = a \o b
  BY ConcatProperties, SubSeqFull, LenProperties, EmptySeq

\* Every step is a step of FifoQueue or one its callers cannot see.
LEMMA FifoRefines ==
  ASSUME Inv, Fifo, [Next]_vars
  PROVE  [Abstract!Next]_<<pushed, handed>>
  <1>1. /\ data_queue \in Seq(Items) /\ handed \in Seq(Items) /\ pushed \in Seq(Items)
        /\ handed \o data_queue = pushed /\ Len(pushed) \in Nat
    BY LenProperties DEF Inv, TypeOK, Fifo
  <1>2. ASSUME NEW t \in Threads, PushItem(t) PROVE Abstract!Push
    BY <1>2 DEF PushItem, Abstract!Push
  <1>3. ASSUME NEW t \in Threads, Pop(t) PROVE Abstract!TakeUpTo(Len(handed) + 1)
    <2>1. /\ data_queue # <<>> /\ handed' = Append(handed, Head(data_queue))
          /\ pushed' = pushed
      BY <1>3 DEF Pop, Inv, FrontInv
    <2>2. /\ Len(handed) < Len(handed) + 1 /\ Len(handed) + 1 <= Len(pushed)
          /\ Append(handed, Head(data_queue)) = SubSeq(pushed, 1, Len(handed) + 1)
      BY <1>1, <2>1, ItemNext
    <2>. QED BY <2>1, <2>2 DEF Abstract!TakeUpTo
  <1>4. ASSUME NEW t \in Threads, Swap(t)
        PROVE  Abstract!TakeUpTo(Len(pushed)) \/ UNCHANGED <<pushed, handed>>
    <2>1. handed' = handed \o data_queue /\ pushed' = pushed
      BY <1>4 DEF Swap
    <2>2. CASE data_queue = <<>>
      BY <1>1, <2>1, <2>2, ConcatEmptySeq
    <2>3. CASE data_queue # <<>>
      <3>1. Len(handed) < Len(pushed) /\ SubSeq(pushed, 1, Len(pushed)) = pushed
        BY <1>1, <2>3, ItemAll
      <3>. QED BY <1>1, <2>1, <3>1 DEF Abstract!TakeUpTo
    <2>. QED BY <2>2, <2>3
  <1>5. ASSUME NEW t \in Threads,
               \/ Call(t) \/ WakeSpuriously(t) \/ Lock(t) \/ Unlock(t) \/ NotifyOne(t)
               \/ Test(t) \/ CopyFront(t) \/ Throws(t) \/ Read(t)
        PROVE  UNCHANGED <<pushed, handed>>
    BY <1>5 DEF Call, WakeSpuriously, Lock, Unlock, NotifyOne, Test, CopyFront, Throws, Read
  <1>6. CASE UNCHANGED vars
    BY <1>6 DEF vars
  <1>. QED BY <1>2, <1>3, <1>4, <1>5, <1>6 DEF Next, Step, Abstract!Next

\* The queue implements FifoQueue: to its callers each method is one atomic step.
THEOREM QueueRefined == Spec => ImplementsFifo
  <1>1. Init => Abstract!Init
    BY DEF Init, Abstract!Init
  <1>2. Inv /\ Fifo /\ [Next]_vars => [Abstract!Next]_<<pushed, handed>>
    BY FifoRefines
  <1>. QED
    BY <1>1, <1>2, QueueInvariant, QueueFifo, PTL DEF Spec, ImplementsFifo, Abstract!Spec

-----------------------------------------------------------------------------
(* Wakeups.                                                                *)

\* How the number of threads on their way changes when one joins or leaves.
LEMMA WayCounts ==
  /\ IsFiniteSet(OnTheWay) /\ Cardinality(OnTheWay) \in Nat
  /\ \A S \in SUBSET Threads :
       /\ IsFiniteSet(S) /\ Cardinality(S) \in Nat
       /\ OnTheWay \subseteq S => Cardinality(OnTheWay) <= Cardinality(S)
       /\ \A t \in Threads :
            /\ t \notin S => Cardinality(S \cup {t}) = Cardinality(S) + 1
            /\ t \in S => Cardinality(S \ {t}) = Cardinality(S) - 1
  <1>1. \A S \in SUBSET Threads : IsFiniteSet(S) /\ Cardinality(S) \in Nat
    BY QueueAssumption, FS_Subset, FS_CardinalityType
  <1>2. OnTheWay \in SUBSET Threads
    BY DEF OnTheWay
  <1>3. \A S \in SUBSET Threads :
          OnTheWay \subseteq S => Cardinality(OnTheWay) <= Cardinality(S)
    BY <1>1, FS_Subset
  <1>4. \A S \in SUBSET Threads, t \in Threads :
          /\ t \notin S => Cardinality(S \cup {t}) = Cardinality(S) + 1
          /\ t \in S => Cardinality(S \ {t}) = Cardinality(S) - 1
    BY <1>1, FS_AddElement, FS_RemoveElement
  <1>. QED BY <1>1, <1>2, <1>3, <1>4

\* A step that takes nobody off the way and adds no item and no sleeper is harmless.
LEMMA WayGrows ==
  ASSUME TypeOK, TypeOK', NoLostWakeup,
         thrown' = 0 => thrown = 0, Waiting' \subseteq Waiting,
         Len(data_queue') <= Len(data_queue), OnTheWay \subseteq OnTheWay'
  PROVE  NoLostWakeup'
  <1>1. OnTheWay' \in SUBSET Threads
    BY DEF OnTheWay
  <1>2. /\ Cardinality(OnTheWay) <= Cardinality(OnTheWay')
        /\ Cardinality(OnTheWay) \in Nat /\ Cardinality(OnTheWay') \in Nat
    BY <1>1, WayCounts
  <1>3. Len(data_queue) \in Nat /\ Len(data_queue') \in Nat
    BY LenProperties DEF TypeOK
  <1>4. Waiting' # {} => Waiting # {}
    OBVIOUS
  <1>. QED BY <1>2, <1>3, <1>4 DEF NoLostWakeup

\* Every step leaves enough threads on their way for the items in the queue.
LEMMA WakeStep ==
  ASSUME Inv, Inv', NoLostWakeup, [Next]_vars
  PROVE  NoLostWakeup'
  <1>. USE DEF Inv
  <1>0. /\ pc \in [Threads -> Holding \cup {"idle", "lock", "wait", "woken"}]
        /\ data_queue \in Seq(Items) /\ data_queue' \in Seq(Items)
        /\ Len(data_queue) \in Nat /\ Len(data_queue') \in Nat
        /\ thrown \in Nat
    BY LenProperties DEF TypeOK
  <1>1. ASSUME NEW t \in Threads,
               \/ Call(t) \/ Unlock(t) \/ CopyFront(t) \/ Read(t)
               \/ Lock(t) \/ WakeSpuriously(t)
        PROVE  NoLostWakeup'
    <2>1. /\ thrown' = thrown /\ data_queue' = data_queue
          /\ Waiting' \subseteq Waiting /\ OnTheWay \subseteq OnTheWay'
      <3>. USE DEF Waiting, OnTheWay, bounds
      <3>1. CASE Lock(t)
        <4>1. pc' = [pc EXCEPT ![t] = Body(call[t])] /\ pc[t] \in {"lock", "woken"}
              /\ UNCHANGED <<data_queue, thrown>>
          BY <3>1 DEF Lock
        <4>2. /\ call[t] \in Methods
              /\ pc[t] = "woken" => call[t] = "wait_and_pop"
          BY DEF CallInv, TypeOK
        <4>3. /\ Body(call[t]) # "wait"
              /\ pc[t] = "woken" => Body(call[t]) = "test"
          BY <4>2 DEF Body, Methods
        <4>. HIDE DEF Body
        <4>. QED BY <1>0, <4>1, <4>3
      <3>2. CASE Call(t)
        BY <1>0, <3>2 DEF Call
      <3>3. CASE Unlock(t)
        BY <1>0, <3>3 DEF Unlock
      <3>4. CASE CopyFront(t)
        BY <1>0, <3>4 DEF CopyFront
      <3>5. CASE Read(t)
        BY <1>0, <3>5 DEF Read
      <3>6. CASE WakeSpuriously(t)
        BY <1>0, <3>6 DEF WakeSpuriously
      <3>. QED BY <1>1, <3>1, <3>2, <3>3, <3>4, <3>5, <3>6
    <2>. QED BY <1>0, <2>1, WayGrows
  <1>2. ASSUME NEW t \in Threads, PushItem(t) PROVE NoLostWakeup'
    <2>1. /\ thrown' = thrown /\ Waiting' = Waiting
          /\ OnTheWay' = OnTheWay \cup {t} /\ t \notin OnTheWay
      BY <1>0, <1>2 DEF PushItem, Waiting, OnTheWay, bounds
    <2>2. Cardinality(OnTheWay') = Cardinality(OnTheWay) + 1
      BY <2>1, WayCounts DEF OnTheWay
    <2>3. Len(data_queue') = Len(data_queue) + 1
      BY <1>0, <1>2 DEF PushItem
    <2>. QED BY <1>0, <2>1, <2>2, <2>3, WayCounts DEF NoLostWakeup
  <1>3. ASSUME NEW t \in Threads, NotifyOne(t) PROVE NoLostWakeup'
    <2>1. thrown' = thrown /\ data_queue' = data_queue
      BY <1>3 DEF NotifyOne, bounds
    <2>2. CASE Waiting = {} /\ pc' = [pc EXCEPT ![t] = "unlock"]
      <3>1. Waiting' = {}
        BY <1>0, <2>2 DEF Waiting
      <3>. QED BY <3>1 DEF NoLostWakeup
    <2>3. ASSUME NEW w \in Waiting, pc' = [pc EXCEPT ![t] = "unlock", ![w] = "woken"]
          PROVE  NoLostWakeup'
      <3>1. /\ t \in OnTheWay /\ w \notin OnTheWay /\ w # t /\ w \in Threads
            /\ OnTheWay' = (OnTheWay \ {t}) \cup {w}
        BY <1>0, <1>3, <2>3 DEF NotifyOne, Waiting, OnTheWay
      <3>2. /\ Cardinality(OnTheWay \ {t}) = Cardinality(OnTheWay) - 1
            /\ Cardinality((OnTheWay \ {t}) \cup {w}) = Cardinality(OnTheWay \ {t}) + 1
        <4>1. OnTheWay \in SUBSET Threads /\ OnTheWay \ {t} \in SUBSET Threads
          BY DEF OnTheWay
        <4>2. w \notin OnTheWay \ {t}
          BY <3>1
        <4>. QED BY <3>1, <4>1, <4>2, WayCounts
      <3>3. Waiting # {}
        BY <2>3
      <3>. QED BY <1>0, <2>1, <3>1, <3>2, <3>3, WayCounts DEF NoLostWakeup
    <2>. QED BY <1>3, <2>2, <2>3 DEF NotifyOne
  <1>4. ASSUME NEW t \in Threads, Test(t) PROVE NoLostWakeup'
    <2>1. thrown' = thrown /\ data_queue' = data_queue
      BY <1>4 DEF Test, bounds
    <2>2. CASE data_queue = <<>>
      <3>1. OnTheWay' \in SUBSET Threads
        BY DEF OnTheWay
      <3>2. Cardinality(OnTheWay') \in Nat
        BY <3>1, WayCounts
      <3>3. Len(data_queue') = 0
        BY <2>1, <2>2
      <3>. QED BY <3>2, <3>3 DEF NoLostWakeup
    <2>3. CASE data_queue # <<>>
      <3>1. Waiting' = Waiting /\ OnTheWay' = OnTheWay
        BY <1>0, <1>4, <2>3 DEF Test, Waiting, OnTheWay
      <3>. QED BY <2>1, <3>1 DEF NoLostWakeup
    <2>. QED BY <2>2, <2>3
  <1>5. ASSUME NEW t \in Threads, Pop(t) PROVE NoLostWakeup'
    <2>1. /\ thrown' = thrown /\ Waiting' = Waiting
          /\ OnTheWay' = OnTheWay \ {t} /\ t \in OnTheWay
      BY <1>0, <1>5 DEF Pop, Waiting, OnTheWay, bounds
    <2>2. Cardinality(OnTheWay') = Cardinality(OnTheWay) - 1
      BY <2>1, WayCounts DEF OnTheWay
    <2>3. data_queue # <<>> /\ data_queue' = Tail(data_queue)
      BY <1>5 DEF Pop, FrontInv
    <2>4. Len(data_queue') = Len(data_queue) - 1
      BY <1>0, <2>3, HeadTailProperties
    <2>. QED BY <1>0, <2>1, <2>2, <2>4, WayCounts DEF NoLostWakeup
  <1>6. ASSUME NEW t \in Threads, Throws(t) PROVE NoLostWakeup'
    BY <1>0, <1>6 DEF Throws, NoLostWakeup
  <1>7. ASSUME NEW t \in Threads, Swap(t) PROVE NoLostWakeup'
    <2>1. OnTheWay' \in SUBSET Threads
      BY DEF OnTheWay
    <2>2. Cardinality(OnTheWay') \in Nat
      BY <2>1, WayCounts
    <2>3. Len(data_queue') = 0
      BY <1>7 DEF Swap
    <2>. QED BY <2>2, <2>3 DEF NoLostWakeup
  <1>8. CASE UNCHANGED vars
    BY <1>8 DEF vars, NoLostWakeup, Waiting, OnTheWay
  <1>. HIDE DEF Inv
  <1>9. ASSUME NEW t \in Threads, Step(t) PROVE NoLostWakeup'
    BY <1>1, <1>2, <1>3, <1>4, <1>5, <1>6, <1>7, <1>9 DEF Step
  <1>. QED BY <1>1, <1>8, <1>9 DEF Next

\* No wakeup is lost, however many threads pop, push, grab or wake for no reason.
THEOREM QueueWakes == Spec => []NoLostWakeup
  <1>1. Init => NoLostWakeup
    BY DEF Init, NoLostWakeup, Waiting
  <1>2. Inv /\ Inv' /\ NoLostWakeup /\ [Next]_vars => NoLostWakeup'
    BY WakeStep
  <1>. QED BY <1>1, <1>2, QueueInvariant, PTL DEF Spec
=============================================================================
