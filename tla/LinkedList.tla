----------------------------- MODULE LinkedList -----------------------------
(***************************************************************************)
(* 13_linked_list/driver.c: etx_write stores a number in etx_value and     *)
(* raises IRQ 11, whose handler queues workqueue_fn on own_workqueue;      *)
(* workqueue_fn appends a node with etx_value to Head_Node; rmmod frees    *)
(* the nodes, destroys the workqueue and frees the interrupt.  No lock     *)
(* protects the list or the variable.                                      *)
(*                                                                         *)
(* The numbers written are told apart by their order: the n-th store of    *)
(* etx_value stores n, and a node holds the number it copied.              *)
(***************************************************************************)
EXTENDS Naturals, Sequences

CONSTANTS Writers,      \* processes that write the device
          MaxStores,    \* bound on the number of writes in a behaviour
          MaxIrqs       \* the line's other devices stop when there were this many interrupts

ASSUME BoundsAssumption == MaxStores \in Nat /\ MaxIrqs \in Nat

VARIABLES
  etx_value,
  writing,    \* the writers between their sscanf and their int
  pending,    \* work is queued on own_workqueue
  worker,     \* workqueue_fn: "idle" "alloc" "init" "first" "link"
  node,       \* the number in the node being added
  list,       \* the numbers in the nodes on Head_Node
  heap,       \* nodes allocated and not yet freed
  exit,       \* "loaded" "walk" "del" "del_last" "destroy" "drain" "free_irq"
              \* "cleanup" "unloaded"
  irqs, runs, owed    \* history, as in BottomHalf

vars == <<etx_value, writing, pending, worker, node, list, heap, exit, irqs, runs, owed>>
fnvars   == <<worker, node, list, heap>>
workvars == <<pending, irqs, runs, owed>>

Garbage == MaxStores + 1    \* what kmalloc leaves in a node

TypeOK ==
  /\ etx_value \in 0..MaxStores
  /\ writing \subseteq Writers
  /\ pending \in BOOLEAN /\ owed \in BOOLEAN
  /\ worker \in {"idle", "alloc", "init", "first", "link"}
  /\ node \in 0..MaxStores
  /\ list \in Seq(0..MaxStores)
  /\ heap \in Nat
  /\ exit \in {"loaded", "walk", "del", "del_last", "destroy", "drain", "free_irq",
               "cleanup", "unloaded"}
  /\ irqs \in Nat /\ runs \in Nat

Init ==
  /\ etx_value = 0 /\ writing = {}
  /\ pending = FALSE /\ worker = "idle" /\ node = 0
  /\ list = <<>> /\ heap = 0
  /\ exit = "loaded"
  /\ irqs = 0 /\ runs = 0 /\ owed = FALSE

-----------------------------------------------------------------------------
(* irq_handler *)

\* queue_work is refused while destroy_workqueue drains the queue.
Open == exit \notin {"drain", "free_irq", "cleanup", "unloaded"}

\* Seeded fault: no work is queued while the function is at work.
QueueWorkIfIdle ==
  /\ irqs' = irqs + 1
  /\ IF Open /\ worker = "idle"
     THEN pending' = TRUE /\ owed' = TRUE ELSE UNCHANGED <<pending, owed>>
  /\ UNCHANGED runs

QueueWork ==
  /\ irqs' = irqs + 1
  /\ IF Open THEN pending' = TRUE /\ owed' = TRUE ELSE UNCHANGED <<pending, owed>>
  /\ UNCHANGED runs

\* Another device on the shared line, until free_irq is done.
OtherDeviceIrq ==
  /\ exit \notin {"cleanup", "unloaded"}
  /\ irqs < MaxIrqs
  /\ QueueWork
  /\ UNCHANGED <<etx_value, writing, exit>> /\ UNCHANGED fnvars

-----------------------------------------------------------------------------
(* etx_write *)

EtxWriteStore(w) ==
  /\ exit = "loaded" /\ w \notin writing
  /\ etx_value < MaxStores
  /\ etx_value' = etx_value + 1
  /\ writing' = writing \cup {w}
  /\ UNCHANGED exit /\ UNCHANGED workvars /\ UNCHANGED fnvars

\* asm("int $0x3B") runs the handler.
EtxWriteInt(w) ==
  /\ w \in writing
  /\ writing' = writing \ {w}
  /\ QueueWork
  /\ UNCHANGED <<etx_value, exit>> /\ UNCHANGED fnvars

-----------------------------------------------------------------------------
(* workqueue_fn, on own_workqueue's worker thread.  list_add_tail reads the *)
(* last node from the head before it links the new one behind it.           *)

WorkqueueFnStart ==
  /\ pending /\ worker = "idle"
  /\ pending' = FALSE /\ worker' = "alloc"
  /\ runs' = runs + 1 /\ owed' = FALSE
  /\ UNCHANGED <<irqs, etx_value, writing, node, list, heap, exit>>

\* kmalloc, and temp_node->data = etx_value
AllocNode ==
  /\ worker = "alloc"
  /\ heap' = heap + 1 /\ node' = etx_value
  /\ worker' = "init"
  /\ UNCHANGED <<list, etx_value, writing, exit>> /\ UNCHANGED workvars

FindTail ==
  /\ worker = "init"
  /\ worker' = IF list = <<>> THEN "first" ELSE "link"
  /\ UNCHANGED <<node, list, heap, etx_value, writing, exit>> /\ UNCHANGED workvars

\* Seeded fault: a node is linked behind the last one only.
LinkNodeBehindNone ==
  /\ worker \in {"first", "link"}
  /\ list' = IF list = <<>> THEN list ELSE Append(list, node)
  /\ worker' = "idle"
  /\ UNCHANGED <<node, heap, etx_value, writing, exit>> /\ UNCHANGED workvars

\* If rmmod has freed the last node meanwhile, the new one hangs behind it, off
\* the list.
LinkNode ==
  /\ worker \in {"first", "link"}
  /\ list' = IF worker = "link" /\ list = <<>> THEN list ELSE Append(list, node)
  /\ worker' = "idle"
  /\ UNCHANGED <<node, heap, etx_value, writing, exit>> /\ UNCHANGED workvars

WorkqueueFn == WorkqueueFnStart \/ AllocNode \/ FindTail \/ LinkNode

-----------------------------------------------------------------------------
(* etx_driver_exit; the kernel refuses rmmod while the device is open *)

ExitGoto(from, to) ==
  /\ exit = from /\ exit' = to
  /\ UNCHANGED <<etx_value, writing>> /\ UNCHANGED workvars

Rmmod == writing = {} /\ ExitGoto("loaded", "walk") /\ UNCHANGED fnvars

\* list_for_each_entry_safe reads the next node before it frees this one.
WalkList ==
  /\ ExitGoto("walk", CASE Len(list) = 0 -> "destroy"
                        [] Len(list) = 1 -> "del_last"
                        [] OTHER         -> "del")
  /\ UNCHANGED fnvars

FreeNode ==
  /\ \/ ExitGoto("del", "walk")
     \/ ExitGoto("del_last", "destroy")
  /\ list' = Tail(list) /\ heap' = heap - 1
  /\ UNCHANGED <<worker, node>>

DestroyWorkqueue == ExitGoto("destroy", "drain") /\ UNCHANGED fnvars

\* Seeded fault: the queue is freed while its function runs.
DrainForgetsRunning ==
  /\ ~pending
  /\ ExitGoto("drain", "free_irq") /\ UNCHANGED fnvars

DrainWorkqueue ==
  /\ ~pending /\ worker = "idle"
  /\ ExitGoto("drain", "free_irq") /\ UNCHANGED fnvars

FreeIrq == ExitGoto("free_irq", "cleanup") /\ UNCHANGED fnvars

CleanUp == ExitGoto("cleanup", "unloaded") /\ UNCHANGED fnvars

Exit == WalkList \/ FreeNode \/ DestroyWorkqueue \/ DrainWorkqueue \/ FreeIrq \/ CleanUp

Next == \/ \E w \in Writers : EtxWriteStore(w) \/ EtxWriteInt(w)
        \/ OtherDeviceIrq \/ WorkqueueFn \/ Rmmod \/ Exit

Spec == Init /\ [][Next]_vars

FairSpec == /\ Spec
            /\ WF_vars(WorkqueueFn) /\ WF_vars(Exit)
            /\ \A w \in Writers : WF_vars(EtxWriteInt(w))

-----------------------------------------------------------------------------
(* Properties *)

\* The interrupt, the work and the exit of this driver are those BottomHalf
\* describes.
Deferral == INSTANCE BottomHalf WITH
  Drivers <- {"linked_list"},
  MaxIrqs <- MaxIrqs + MaxStores,
  driver  <- "linked_list",
  running <- worker # "idle",
  queue   <- CASE Open -> "open" [] exit = "drain" -> "draining" [] OTHER -> "gone",
  phase   <- CASE exit = "loaded" -> "loaded" [] exit = "unloaded" -> "unloaded"
               [] OTHER -> "exiting",
  todo    <- CASE Open                -> <<"drain", "destroy_workqueue", "free_irq">>
               [] exit = "drain"      -> <<"destroy_workqueue", "free_irq">>
               [] exit = "free_irq"   -> <<"free_irq">>
               [] OTHER               -> <<>>

BottomHalfSpec == Deferral!Spec

Quiet == writing = {} /\ ~pending /\ worker = "idle"

\* When all is quiet the last number written is the last on the list, however
\* the writes, the interrupts and the work interleaved.
LastWriteIsListed ==
  exit = "loaded" /\ Quiet /\ etx_value > 0 => list # <<>> /\ list[Len(list)] = etx_value

\* The numbers are listed in the order of the writes.
ListInOrder == \A i, j \in 1..Len(list) : i <= j => list[i] <= list[j]

\* The list is what was written: in order, and up to the last number.
ListIsFaithful == LastWriteIsListed /\ ListInOrder

\* No node without an interrupt: an interrupt adds at most one.
NodesAreEarned == Len(list) <= irqs

\* While the module is loaded every node allocated is on the list, or about to be.
NoNodeLeaks ==
  exit = "loaded" => heap = Len(list) + (IF worker \in {"init", "first", "link"} THEN 1 ELSE 0)

\* A write is followed by a node that holds it or a later one.
WriteArrives ==
  \A n \in 1..MaxStores :
    etx_value = n ~> exit # "loaded" \/ \E i \in 1..Len(list) : list[i] >= n
=============================================================================
