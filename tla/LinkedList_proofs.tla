-------------------------- MODULE LinkedList_proofs --------------------------
(* Proofs about LinkedList for every set of writers and every bound. *)
EXTENDS LinkedList, FiniteSets, FiniteSetTheorems, SequenceTheorems, TLAPS

InFlight == worker \in {"init", "first", "link"}

\* The numbers on the list, the one about to join it and the variable never
\* run backwards.
Ascending ==
  /\ ListInOrder
  /\ \A i \in 1..Len(list) : list[i] <= etx_value
  /\ InFlight => node <= etx_value /\ \A i \in 1..Len(list) : list[i] <= node

\* Where the last number written is on its way to the list.
OnItsWay ==
  exit = "loaded" /\ etx_value > 0 =>
    \/ writing # {} \/ pending \/ worker = "alloc"
    \/ InFlight /\ node = etx_value
    \/ list # <<>> /\ list[Len(list)] = etx_value

Tickets == (IF pending THEN 1 ELSE 0) + (IF worker # "idle" THEN 1 ELSE 0)

Accounts ==
  /\ Len(list) + Tickets <= irqs
  /\ Len(list) + (IF InFlight THEN 1 ELSE 0) <= heap
  /\ exit \in {"del", "del_last"} => list # <<>>
  /\ exit = "loaded" /\ worker = "link" => list # <<>>

Inv == TypeOK /\ Ascending /\ OnItsWay /\ Accounts

USE BoundsAssumption

\* The initial states satisfy the invariant.
LEMMA InitInv == Init => Inv
<1> SUFFICES ASSUME Init PROVE Inv
  OBVIOUS
<1> USE DEF Init
<1>1. TypeOK
  <2>1. list \in Seq(0..MaxStores)
    OBVIOUS
  <2>2. etx_value \in 0..MaxStores /\ node \in 0..MaxStores
    OBVIOUS
  <2>3. irqs \in Nat /\ runs \in Nat /\ heap \in Nat
    OBVIOUS
  <2>4. pending \in BOOLEAN /\ owed \in BOOLEAN
    BY Zenon
  <2> QED BY <2>1, <2>2, <2>3, <2>4, Zenon DEF TypeOK
<1>2. Ascending BY DEF Ascending, ListInOrder, InFlight
<1>3. OnItsWay BY DEF OnItsWay
<1>4. Accounts BY DEF Accounts, Tickets, InFlight
<1> QED BY <1>1, <1>2, <1>3, <1>4 DEF Inv

\* Every step preserves the type invariant.
LEMMA TypeStep == Inv /\ [Next]_vars => TypeOK'
<1> SUFFICES ASSUME Inv, [Next]_vars PROVE TypeOK'
  OBVIOUS
<1> USE DEF Inv, TypeOK, workvars, fnvars
<1>1. ASSUME NEW w \in Writers, EtxWriteStore(w) PROVE TypeOK'
  BY <1>1 DEF EtxWriteStore
<1>2. ASSUME NEW w \in Writers, EtxWriteInt(w) PROVE TypeOK'
  <2>1. pending' \in BOOLEAN /\ owed' \in BOOLEAN
    BY <1>2, Zenon DEF EtxWriteInt, QueueWork
  <2> QED BY <1>2, <2>1 DEF EtxWriteInt, QueueWork
<1>3. CASE OtherDeviceIrq
  <2>1. pending' \in BOOLEAN /\ owed' \in BOOLEAN
    BY <1>3, Zenon DEF OtherDeviceIrq, QueueWork
  <2> QED BY <1>3, <2>1 DEF OtherDeviceIrq, QueueWork
<1>4. CASE WorkqueueFnStart
  <2>1. pending' \in BOOLEAN /\ owed' \in BOOLEAN
    BY <1>4, Zenon DEF WorkqueueFnStart
  <2>2. runs' \in Nat
    BY <1>4 DEF WorkqueueFnStart
  <2> QED BY <1>4, <2>1, <2>2, Zenon DEF WorkqueueFnStart
<1>5. CASE AllocNode
  BY <1>5 DEF AllocNode
<1>6. CASE FindTail
  BY <1>6 DEF FindTail
<1>7. CASE LinkNode
  <2> HIDE DEF Inv
  <2>1. list \in Seq(0..MaxStores) /\ node \in 0..MaxStores
    BY DEF Inv
  <2>2. Append(list, node) \in Seq(0..MaxStores)
    BY <2>1
  <2>3. list' \in Seq(0..MaxStores)
    BY <1>7, <2>1, <2>2, Zenon DEF LinkNode
  <2> QED BY <1>7, <2>3 DEF LinkNode, Inv
<1>8. CASE Rmmod
  BY <1>8 DEF Rmmod, ExitGoto
<1>9. CASE WalkList
  BY <1>9 DEF WalkList, ExitGoto
<1>10. CASE FreeNode
  <2>1. list # <<>>
    BY <1>10 DEF FreeNode, ExitGoto, Accounts
  <2>2. list' \in Seq(0..MaxStores)
    BY <1>10, <2>1 DEF FreeNode
  <2>3. heap' \in Nat
    BY <1>10, <2>1 DEF FreeNode, Accounts
  <2> QED BY <1>10, <2>2, <2>3 DEF FreeNode, ExitGoto
<1>11. CASE DestroyWorkqueue \/ DrainWorkqueue \/ FreeIrq \/ CleanUp
  BY <1>11 DEF DestroyWorkqueue, DrainWorkqueue, FreeIrq, CleanUp, ExitGoto
<1>12. CASE UNCHANGED vars
  BY <1>12 DEF vars
<1> QED
  BY <1>1, <1>2, <1>3, <1>4, <1>5, <1>6, <1>7, <1>8, <1>9, <1>10, <1>11, <1>12
  DEF Next, WorkqueueFn, Exit

\* Every step keeps the numbers ascending.
LEMMA AscendingStep == Inv /\ [Next]_vars => Ascending'
<1> SUFFICES ASSUME Inv, [Next]_vars PROVE Ascending'
  OBVIOUS
<1> USE DEF Inv, TypeOK, workvars, fnvars, Ascending, ListInOrder, InFlight
<1>1. ASSUME NEW w \in Writers, EtxWriteStore(w) PROVE Ascending'
  BY <1>1 DEF EtxWriteStore
<1>2. ASSUME NEW w \in Writers, EtxWriteInt(w) PROVE Ascending'
  BY <1>2 DEF EtxWriteInt, QueueWork
<1>3. CASE OtherDeviceIrq
  BY <1>3 DEF OtherDeviceIrq, QueueWork
<1>4. CASE WorkqueueFnStart
  BY <1>4 DEF WorkqueueFnStart
<1>5. CASE AllocNode
  BY <1>5 DEF AllocNode
<1>6. CASE FindTail
  BY <1>6 DEF FindTail
<1>7. CASE LinkNode
  <2> USE <1>7 DEF LinkNode
  <2>1. CASE list' = list
    BY <2>1
  <2>2. CASE list' = Append(list, node)
    <3>1. /\ Len(list') = Len(list) + 1
          /\ \A i \in 1..Len(list) : list'[i] = list[i]
          /\ list'[Len(list) + 1] = node
      BY <2>2
    <3>2. \A i \in 1..Len(list') : list'[i] <= node /\ list'[i] <= etx_value'
      BY <3>1
    <3>3. ListInOrder'
      BY <3>1, <3>2
    <3> QED BY <3>2, <3>3
  <2> QED BY <2>1, <2>2
<1>8. CASE Rmmod
  BY <1>8 DEF Rmmod, ExitGoto
<1>9. CASE WalkList
  BY <1>9 DEF WalkList, ExitGoto
<1>10. CASE FreeNode
  <2> USE <1>10 DEF FreeNode, ExitGoto
  <2>1. list # <<>>
    BY DEF Accounts
  <2>2. /\ Len(list') = Len(list) - 1
        /\ \A i \in 1..Len(list') : i + 1 \in 1..Len(list) /\ list'[i] = list[i + 1]
    BY <2>1
  <2>3. \A i \in 1..Len(list') : list'[i] <= etx_value'
    BY <2>2
  <2>4. ListInOrder'
    BY <2>2
  <2>5. InFlight' => \A i \in 1..Len(list') : list'[i] <= node'
    BY <2>2
  <2> QED BY <2>3, <2>4, <2>5
<1>11. CASE DestroyWorkqueue \/ DrainWorkqueue \/ FreeIrq \/ CleanUp
  BY <1>11 DEF DestroyWorkqueue, DrainWorkqueue, FreeIrq, CleanUp, ExitGoto
<1>12. CASE UNCHANGED vars
  BY <1>12 DEF vars
<1> QED
  BY <1>1, <1>2, <1>3, <1>4, <1>5, <1>6, <1>7, <1>8, <1>9, <1>10, <1>11, <1>12
  DEF Next, WorkqueueFn, Exit

\* Every step keeps the last number on its way.
LEMMA OnItsWayStep == Inv /\ [Next]_vars => OnItsWay'
<1> SUFFICES ASSUME Inv, [Next]_vars PROVE OnItsWay'
  OBVIOUS
<1> USE DEF Inv, TypeOK, workvars, fnvars, OnItsWay, InFlight
<1>1. ASSUME NEW w \in Writers, EtxWriteStore(w) PROVE OnItsWay'
  BY <1>1 DEF EtxWriteStore
<1>2. ASSUME NEW w \in Writers, EtxWriteInt(w) PROVE OnItsWay'
  BY <1>2 DEF EtxWriteInt, QueueWork, Open
<1>3. CASE OtherDeviceIrq
  BY <1>3 DEF OtherDeviceIrq, QueueWork
<1>4. CASE WorkqueueFnStart
  BY <1>4 DEF WorkqueueFnStart
<1>5. CASE AllocNode
  BY <1>5 DEF AllocNode
<1>6. CASE FindTail
  BY <1>6 DEF FindTail
<1>7. CASE LinkNode
  <2> SUFFICES ASSUME exit = "loaded", etx_value > 0,
                      ~(writing # {} \/ pending \/ worker = "alloc")
               PROVE  list' # <<>> /\ list'[Len(list')] = etx_value
    BY <1>7 DEF LinkNode
  <2>1. list' = Append(list, node)
    BY <1>7 DEF LinkNode, Accounts
  <2>2. list' # <<>> /\ list'[Len(list')] = node
    BY <2>1
  <2>3. node = etx_value
    BY <1>7 DEF LinkNode, Ascending
  <2> QED BY <2>2, <2>3
<1>8. CASE Rmmod
  BY <1>8 DEF Rmmod, ExitGoto
<1>9. CASE WalkList
  BY <1>9 DEF WalkList, ExitGoto
<1>10. CASE FreeNode
  BY <1>10 DEF FreeNode, ExitGoto
<1>11. CASE DestroyWorkqueue \/ DrainWorkqueue \/ FreeIrq \/ CleanUp
  BY <1>11 DEF DestroyWorkqueue, DrainWorkqueue, FreeIrq, CleanUp, ExitGoto
<1>12. CASE UNCHANGED vars
  BY <1>12 DEF vars
<1> QED
  BY <1>1, <1>2, <1>3, <1>4, <1>5, <1>6, <1>7, <1>8, <1>9, <1>10, <1>11, <1>12
  DEF Next, WorkqueueFn, Exit

\* Every step keeps the accounts.
LEMMA AccountsStep == Inv /\ [Next]_vars => Accounts'
<1> SUFFICES ASSUME Inv, [Next]_vars PROVE Accounts'
  OBVIOUS
<1> USE DEF Inv, TypeOK, workvars, fnvars, Accounts, Tickets, InFlight
<1>1. ASSUME NEW w \in Writers, EtxWriteStore(w) PROVE Accounts'
  BY <1>1 DEF EtxWriteStore
<1>2. ASSUME NEW w \in Writers, EtxWriteInt(w) PROVE Accounts'
  BY <1>2 DEF EtxWriteInt, QueueWork
<1>3. CASE OtherDeviceIrq
  BY <1>3 DEF OtherDeviceIrq, QueueWork
<1>4. CASE WorkqueueFnStart
  BY <1>4 DEF WorkqueueFnStart
<1>5. CASE AllocNode
  BY <1>5 DEF AllocNode
<1>6. CASE FindTail
  BY <1>6 DEF FindTail
<1>7. CASE LinkNode
  <2>1. CASE list' = list /\ list = <<>> /\ worker = "link"
    BY <1>7, <2>1 DEF LinkNode
  <2>2. CASE list' = Append(list, node)
    <3>1. list' # <<>> /\ Len(list') = Len(list) + 1
      BY <2>2
    <3>2. /\ worker \in {"first", "link"} /\ worker' = "idle"
          /\ UNCHANGED <<pending, irqs, heap, exit>>
      BY <1>7 DEF LinkNode
    <3> QED BY <3>1, <3>2
  <2> QED BY <1>7, <2>1, <2>2, Zenon DEF LinkNode
<1>8. CASE Rmmod
  BY <1>8 DEF Rmmod, ExitGoto
<1>9. CASE WalkList
  <2>1. /\ UNCHANGED <<pending, worker, list, irqs, heap>>
        /\ exit' # "loaded"
    BY <1>9 DEF WalkList, ExitGoto
  <2>2. ASSUME list = <<>> PROVE exit' = "destroy"
    BY <1>9, <2>2 DEF WalkList, ExitGoto
  <2> QED BY <2>1, <2>2
<1>10. CASE FreeNode
  <2>1. list # <<>> /\ Len(list') = Len(list) - 1
    BY <1>10 DEF FreeNode, ExitGoto
  <2>2. exit' \in {"walk", "destroy"} /\ heap' = heap - 1
    BY <1>10 DEF FreeNode, ExitGoto
  <2>3. UNCHANGED <<pending, worker, irqs>>
    BY <1>10 DEF FreeNode, ExitGoto
  <2> QED BY <2>1, <2>2, <2>3
<1>11. CASE DestroyWorkqueue \/ DrainWorkqueue \/ FreeIrq \/ CleanUp
  BY <1>11 DEF DestroyWorkqueue, DrainWorkqueue, FreeIrq, CleanUp, ExitGoto
<1>12. CASE UNCHANGED vars
  BY <1>12 DEF vars
<1> QED
  BY <1>1, <1>2, <1>3, <1>4, <1>5, <1>6, <1>7, <1>8, <1>9, <1>10, <1>11, <1>12
  DEF Next, WorkqueueFn, Exit

\* The invariant holds in every reachable state.
THEOREM Invariant == Spec => []Inv
<1>1. Inv /\ [Next]_vars => Inv'
  BY TypeStep, AscendingStep, OnItsWayStep, AccountsStep DEF Inv
<1> QED BY InitInv, <1>1, PTL DEF Spec

\* The variables keep their types.
THEOREM TypeCorrect == Spec => []TypeOK
<1>1. Inv => TypeOK BY DEF Inv
<1> QED BY Invariant, <1>1, PTL

\* workqueue_fn lists the numbers in the order they were written.
THEOREM OrderIsKept == Spec => []ListInOrder
<1>1. Inv => ListInOrder BY DEF Inv, Ascending
<1> QED BY Invariant, <1>1, PTL

\* However writes, interrupts and work interleave, the last number written
\* ends the list when all is quiet.
THEOREM LastWriteArrives == Spec => []LastWriteIsListed
<1>1. Inv => LastWriteIsListed
  BY DEF Inv, OnItsWay, InFlight, LastWriteIsListed, Quiet
<1> QED BY Invariant, <1>1, PTL

\* The list never holds more nodes than there were interrupts.
THEOREM NodesArePaidFor == Spec => []NodesAreEarned
<1>1. Inv => NodesAreEarned
  BY DEF Inv, TypeOK, Accounts, Tickets, NodesAreEarned
<1> QED BY Invariant, <1>1, PTL

\* The two together: the list is what was written.
THEOREM ListFollowsWrites == Spec => []ListIsFaithful
<1> QED  BY OrderIsKept, LastWriteArrives, PTL DEF ListIsFaithful

-----------------------------------------------------------------------------
(* Nodes and the heap *)

\* No node leaks while the module is loaded: the node at hand finds the tail it
\* looked up still there.
THEOREM NodesStayListed == Spec => []NoNodeLeaks
<1>1. Init => NoNodeLeaks
  BY DEF Init, NoNodeLeaks
<1>2. Inv /\ NoNodeLeaks /\ [Next]_vars => NoNodeLeaks'
  <2> SUFFICES ASSUME Inv, NoNodeLeaks, [Next]_vars, exit' = "loaded"
               PROVE  heap' = Len(list')
                        + (IF worker' \in {"init", "first", "link"} THEN 1 ELSE 0)
    BY DEF NoNodeLeaks
  <2> USE DEF Inv, TypeOK, NoNodeLeaks, workvars, fnvars
  <2>1. CASE \E w \in Writers : EtxWriteStore(w) \/ EtxWriteInt(w)
    BY <2>1 DEF EtxWriteStore, EtxWriteInt, QueueWork
  <2>2. CASE OtherDeviceIrq
    BY <2>2 DEF OtherDeviceIrq, QueueWork
  <2>3. CASE WorkqueueFnStart
    BY <2>3 DEF WorkqueueFnStart
  <2>4. CASE AllocNode
    BY <2>4 DEF AllocNode
  <2>5. CASE FindTail
    BY <2>5 DEF FindTail
  <2>6. CASE LinkNode
    <3>1. exit = "loaded" /\ list' = Append(list, node)
      BY <2>6 DEF LinkNode, Accounts
    <3>2. Len(list') = Len(list) + 1
      BY <3>1
    <3> QED BY <2>6, <3>1, <3>2 DEF LinkNode
  <2>7. CASE Rmmod \/ Exit
    BY <2>7 DEF Rmmod, Exit, ExitGoto, WalkList, FreeNode, DestroyWorkqueue, DrainWorkqueue,
                FreeIrq, CleanUp
  <2>8. CASE UNCHANGED vars
    BY <2>8 DEF vars
  <2> QED BY <2>1, <2>2, <2>3, <2>4, <2>5, <2>6, <2>7, <2>8 DEF Next, WorkqueueFn
<1> QED BY Invariant, <1>1, <1>2, PTL DEF Spec

-----------------------------------------------------------------------------
(* The refinement of BottomHalf *)

\* Writers are inside etx_write only while the module is loaded, and a queue that
\* has been drained has no work.
Stages ==
  /\ writing # {} => exit = "loaded"
  /\ exit \in {"free_irq", "cleanup", "unloaded"} => ~pending /\ worker = "idle"

LEMMA StagesHold == Spec => []Stages
<1>1. Init => Stages
  BY DEF Init, Stages
<1>2. Inv /\ Stages /\ [Next]_vars => Stages'
  <2> SUFFICES ASSUME Inv, Stages, [Next]_vars PROVE Stages'
    OBVIOUS
  <2> USE DEF Inv, TypeOK, Stages, workvars, fnvars
  <2>1. ASSUME NEW w \in Writers, EtxWriteStore(w) PROVE Stages'
    BY <2>1 DEF EtxWriteStore
  <2>2. ASSUME NEW w \in Writers, EtxWriteInt(w) PROVE Stages'
    <3>1. exit = "loaded" /\ exit' = "loaded"
      BY <2>2 DEF EtxWriteInt
    <3> QED BY <3>1
  <2>3. CASE OtherDeviceIrq
    BY <2>3 DEF OtherDeviceIrq, QueueWork, Open
  <2>4. CASE WorkqueueFn
    BY <2>4 DEF WorkqueueFn, WorkqueueFnStart, AllocNode, FindTail, LinkNode
  <2>5. CASE Rmmod
    BY <2>5 DEF Rmmod, ExitGoto
  <2>6. CASE Exit
    <3>1. writing' = {}
      BY <2>6 DEF Exit, ExitGoto, WalkList, FreeNode, DestroyWorkqueue, DrainWorkqueue,
                  FreeIrq, CleanUp
    <3>2. exit' \in {"free_irq", "cleanup", "unloaded"} => ~pending' /\ worker' = "idle"
      BY <2>6 DEF Exit, ExitGoto, WalkList, FreeNode, DestroyWorkqueue, DrainWorkqueue,
                  FreeIrq, CleanUp
    <3> QED BY <3>1, <3>2
  <2>7. CASE UNCHANGED vars
    BY <2>7 DEF vars
  <2> QED BY <2>1, <2>2, <2>3, <2>4, <2>5, <2>6, <2>7 DEF Next
<1> QED BY Invariant, <1>1, <1>2, PTL DEF Spec

\* Every interrupt of a writer is paid for by its write.
Budget ==
  /\ IsFiniteSet(writing)
  /\ Cardinality(writing) <= etx_value
  /\ irqs + Cardinality(writing) <= MaxIrqs + etx_value

LEMMA BudgetHolds == Spec => []Budget
<1>1. Init => Budget
  BY FS_EmptySet DEF Init, Budget
<1>2. Inv /\ Budget /\ [Next]_vars => Budget'
  <2> SUFFICES ASSUME Inv, Budget, [Next]_vars PROVE Budget'
    OBVIOUS
  <2>0. /\ Cardinality(writing) \in Nat /\ irqs \in Nat /\ etx_value \in Nat
    BY FS_CardinalityType DEF Inv, TypeOK, Budget
  <2>1. ASSUME NEW w \in Writers, EtxWriteStore(w) PROVE Budget'
    <3>1. /\ IsFiniteSet(writing \cup {w})
          /\ Cardinality(writing \cup {w}) = Cardinality(writing) + 1
      BY <2>1, FS_AddElement DEF Budget, EtxWriteStore
    <3> QED BY <2>0, <2>1, <3>1 DEF Budget, EtxWriteStore, workvars
  <2>2. ASSUME NEW w \in Writers, EtxWriteInt(w) PROVE Budget'
    <3>1. /\ IsFiniteSet(writing \ {w})
          /\ Cardinality(writing \ {w}) = Cardinality(writing) - 1
      BY <2>2, FS_RemoveElement DEF Budget, EtxWriteInt
    <3> QED BY <2>0, <2>2, <3>1 DEF Budget, EtxWriteInt, QueueWork
  <2>3. CASE OtherDeviceIrq
    BY <2>0, <2>3 DEF Budget, OtherDeviceIrq, QueueWork
  <2>4. CASE WorkqueueFn \/ Rmmod \/ Exit \/ UNCHANGED vars
    <3>1. UNCHANGED <<writing, etx_value, irqs>>
      BY <2>4 DEF WorkqueueFn, WorkqueueFnStart, AllocNode, FindTail, LinkNode, Rmmod, Exit,
                  ExitGoto, WalkList, FreeNode, DestroyWorkqueue, DrainWorkqueue, FreeIrq,
                  CleanUp, vars, workvars
    <3> QED BY <3>1 DEF Budget
  <2> QED BY <2>1, <2>2, <2>3, <2>4 DEF Next
<1> QED BY Invariant, <1>1, <1>2, PTL DEF Spec

\* What BottomHalf sees of this driver.
Queue == CASE Open -> "open" [] exit = "drain" -> "draining" [] OTHER -> "gone"
Phase == CASE exit = "loaded" -> "loaded" [] exit = "unloaded" -> "unloaded"
           [] OTHER -> "exiting"
Todo  == CASE Open                -> <<"drain", "destroy_workqueue", "free_irq">>
           [] exit = "drain"      -> <<"destroy_workqueue", "free_irq">>
           [] exit = "free_irq"   -> <<"free_irq">>
           [] OTHER               -> <<>>
Seen  == <<pending, worker # "idle", Queue, Phase, Todo, irqs, runs, owed>>

\* An interrupt, also that of a write, is one of BottomHalf's.
LEMMA MapsInterrupt ==
  ASSUME TypeOK, QueueWork, UNCHANGED <<exit, worker>>, irqs < MaxIrqs + MaxStores,
         exit \notin {"cleanup", "unloaded"}
  PROVE  Deferral!IrqHandler
<1>1. Phase # "unloaded" /\ Todo # <<>> /\ (Queue = "open" <=> Open)
  BY DEF Phase, Todo, Queue, Open, TypeOK
<1>2. UNCHANGED <<worker # "idle", Queue, Phase, Todo>>
  BY DEF Queue, Phase, Todo, Open
<1> QED BY <1>1, <1>2 DEF Deferral!IrqHandler, QueueWork, Queue, Phase, Todo

\* The steps of workqueue_fn: its start, its return, and what BottomHalf does not
\* see of it.
LEMMA MapsWork ==
  ASSUME TypeOK, Stages, WorkqueueFn
  PROVE  Deferral!Start \/ Deferral!Return \/ UNCHANGED Seen
<1>1. UNCHANGED exit
  BY DEF WorkqueueFn, WorkqueueFnStart, AllocNode, FindTail, LinkNode
<1>2. UNCHANGED <<Queue, Phase, Todo>>
  BY <1>1 DEF Queue, Phase, Todo, Open
<1>3. (pending \/ worker # "idle") => Phase # "unloaded"
  BY DEF Phase, Stages
<1>4. CASE WorkqueueFnStart
  BY <1>2, <1>3, <1>4 DEF WorkqueueFnStart, Deferral!Start, Queue, Phase, Todo
<1>5. CASE AllocNode \/ FindTail
  <2>1. UNCHANGED <<pending, irqs, runs, owed>> /\ worker # "idle" /\ worker' # "idle"
    BY <1>5 DEF AllocNode, FindTail, workvars
  <2> QED BY <1>2, <2>1 DEF Seen
<1>6. CASE LinkNode
  <2>1. UNCHANGED <<pending, irqs, runs, owed>> /\ worker # "idle" /\ worker' = "idle"
    BY <1>6 DEF LinkNode, workvars
  <2> QED BY <1>2, <1>3, <2>1 DEF Deferral!Return, Queue, Phase, Todo
<1> QED BY <1>4, <1>5, <1>6 DEF WorkqueueFn

\* rmmod and the exit function: the walk of the list is not seen.
LEMMA MapsExit ==
  ASSUME TypeOK, Stages, Rmmod \/ Exit
  PROVE  Deferral!Rmmod \/ Deferral!Exit \/ UNCHANGED Seen
<1>1. UNCHANGED <<pending, worker, irqs, runs, owed>>
  BY DEF Rmmod, Exit, ExitGoto, WalkList, FreeNode, DestroyWorkqueue, DrainWorkqueue, FreeIrq,
         CleanUp, workvars, fnvars
<1>2. CASE Rmmod
  <2>1. exit = "loaded" /\ exit' = "walk"
    BY <1>2 DEF Rmmod, ExitGoto
  <2> QED BY <1>1, <2>1 DEF Deferral!Rmmod, Open
<1>3. CASE WalkList \/ FreeNode
  <2>1. /\ exit \in {"walk", "del", "del_last"}
        /\ exit' \in {"walk", "del", "del_last", "destroy"}
    BY <1>3 DEF WalkList, FreeNode, ExitGoto
  <2>2. UNCHANGED <<Queue, Phase, Todo>>
    BY <2>1 DEF Queue, Phase, Todo, Open
  <2> QED BY <1>1, <2>2 DEF Seen
<1>4. CASE DestroyWorkqueue
  <2>1. exit = "destroy" /\ exit' = "drain"
    BY <1>4 DEF DestroyWorkqueue, ExitGoto
  <2>2. Deferral!Drain
    BY <1>1, <2>1 DEF Deferral!Drain, Deferral!ExitStep, Open
  <2> QED BY <2>2 DEF Deferral!Exit
<1>5. CASE DrainWorkqueue
  <2>1. exit = "drain" /\ exit' = "free_irq" /\ ~pending /\ worker = "idle"
    BY <1>5 DEF DrainWorkqueue, ExitGoto
  <2>2. Deferral!DestroyWorkqueue
    BY <1>1, <2>1 DEF Deferral!DestroyWorkqueue, Deferral!ExitStep, Open
  <2> QED BY <2>2 DEF Deferral!Exit
<1>6. CASE FreeIrq
  <2>1. exit = "free_irq" /\ exit' = "cleanup"
    BY <1>6 DEF FreeIrq, ExitGoto
  <2>2. Deferral!FreeIrq
    BY <1>1, <2>1 DEF Deferral!FreeIrq, Deferral!ExitStep, Open
  <2> QED BY <2>2 DEF Deferral!Exit
<1>7. CASE CleanUp
  <2>1. exit = "cleanup" /\ exit' = "unloaded"
    BY <1>7 DEF CleanUp, ExitGoto
  <2>2. Deferral!Unloaded
    BY <1>1, <2>1 DEF Deferral!Unloaded, Open
  <2> QED BY <2>2 DEF Deferral!Exit
<1> QED BY <1>2, <1>3, <1>4, <1>5, <1>6, <1>7 DEF Exit

\* The driver with its list implements the interrupt, the work and the exit that
\* BottomHalf specifies.
THEOREM ImplementsBottomHalf == Spec => BottomHalfSpec
<1>1. Init => Deferral!Init
  BY DEF Init, Deferral!Init, Deferral!ExitSteps, Open
<1>2. Inv /\ Stages /\ Budget /\ [Next]_vars => [Deferral!Next]_(Deferral!vars)
  <2> SUFFICES ASSUME Inv, Stages, Budget, [Next]_vars
               PROVE  Deferral!Next \/ UNCHANGED Deferral!vars
    OBVIOUS
  <2>0. TypeOK
    BY DEF Inv
  <2>1. UNCHANGED Seen => UNCHANGED Deferral!vars
    BY DEF Seen, Queue, Phase, Todo, Deferral!vars
  <2>2. ASSUME NEW w \in Writers, EtxWriteStore(w) PROVE UNCHANGED Seen
    BY <2>2 DEF EtxWriteStore, workvars, fnvars, Seen, Queue, Phase, Todo, Open
  <2>3. ASSUME NEW w \in Writers, EtxWriteInt(w) PROVE Deferral!IrqHandler
    <3>1. exit = "loaded" /\ QueueWork /\ UNCHANGED <<exit, worker>>
      BY <2>3 DEF EtxWriteInt, Stages, fnvars
    <3>2. Cardinality(writing) \in Nat /\ Cardinality(writing) # 0
      BY <2>3, FS_CardinalityType, FS_EmptySet DEF Budget, EtxWriteInt
    <3>3. irqs < MaxIrqs + MaxStores
      BY <2>0, <3>2 DEF Budget, TypeOK
    <3> QED BY <2>0, <3>1, <3>3, MapsInterrupt
  <2>4. CASE OtherDeviceIrq
    <3>1. /\ exit \notin {"cleanup", "unloaded"} /\ QueueWork /\ UNCHANGED <<exit, worker>>
          /\ irqs < MaxIrqs + MaxStores
      BY <2>0, <2>4 DEF OtherDeviceIrq, fnvars, TypeOK
    <3> QED BY <2>0, <3>1, MapsInterrupt DEF Deferral!Next
  <2>5. CASE UNCHANGED vars
    BY <2>1, <2>5 DEF vars, Seen, Queue, Phase, Todo, Open
  <2> QED
    BY <2>0, <2>1, <2>2, <2>3, <2>4, <2>5, MapsWork, MapsExit DEF Next, Deferral!Next
<1> QED BY Invariant, StagesHold, BudgetHolds, <1>1, <1>2, PTL
        DEF Spec, BottomHalfSpec, Deferral!Spec
=============================================================================
