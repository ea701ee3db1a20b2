-------------------------------- MODULE Poll --------------------------------
(***************************************************************************)
(* The poll_driver.c of 34_poll, 35_select and 36_epoll (one driver in     *)
(* three copies) and their applications: a write of the sysfs file stores  *)
(* a value and sets can_read, a read of it sets can_write, and both wake   *)
(* the pollers; etx_poll tests and clears the flags; an application reads  *)
(* on POLLIN and writes a value of its own on POLLOUT.  No lock protects   *)
(* the flags or etx_value.  The n-th value stored through sysfs is n; 0 is *)
(* anything else etx_value may hold.  select(2) asks etx_poll as poll(2)   *)
(* does; epoll asks it once when the device is added and then whenever the *)
(* device is on its ready list.                                            *)
(***************************************************************************)
EXTENDS Naturals, FiniteSets

CONSTANTS Pollers,       \* processes that run one of the applications
          Apps,          \* those they may run: "poll" (or select), "epoll"
          Users,         \* processes that read and write the sysfs file
          MaxStores,     \* bound on the writes of the sysfs file
          MaxShows       \* bound on its reads

ASSUME AppsAssumption == Apps \subseteq {"poll", "epoll"}
ASSUME UsersAssumption == IsFiniteSet(Users)
ASSUME BoundsAssumption == MaxStores \in Nat /\ MaxShows \in Nat

VARIABLES
  runs,         \* what each poller runs
  etx_value, can_read, can_write,
  poller,      \* where each poller is: "start", in etx_poll at "test_in"
               \* "clear_in" "test_out" "clear_out", then "sleep" or "read" "write"
  mask,        \* what etx_poll has found so far
  triggered,   \* pollers that were woken since they registered or last looked;
               \* of those that run epoll, the ready lists with the device on them
  added,       \* pollers that run epoll and have added the device
  user,        \* where each user is: "idle", "stored", "store_wake", "show_wake"
  stores, shows,    \* history: how many writes and reads of the sysfs file
  seen,             \* history: the stores made before the last read of the device
  swallowed         \* history: those EPOLL_CTL_ADD has last asked etx_poll about

pollVars    == <<runs, etx_value, can_read, can_write, poller, mask, triggered, added,
                 user, stores, shows, seen, swallowed>>
flags       == <<can_read, can_write>>
pollerState == <<poller, mask, triggered, added>>
history     == <<stores, shows, seen, swallowed>>

PollTypeOK ==
  /\ runs \in [Pollers -> Apps]
  /\ etx_value \in 0..MaxStores
  /\ can_read \in BOOLEAN /\ can_write \in BOOLEAN
  /\ poller \in [Pollers -> {"start", "test_in", "clear_in", "test_out", "clear_out",
                             "sleep", "read", "write"}]
  /\ mask \in [Pollers -> SUBSET {"POLLIN", "POLLOUT"}]
  /\ triggered \subseteq Pollers /\ added \subseteq {p \in Pollers : runs[p] = "epoll"}
  /\ user \in [Users -> {"idle", "stored", "store_wake", "show_wake"}]
  /\ stores \in 0..MaxStores /\ shows \in 0..MaxShows
  /\ seen \in 0..MaxStores /\ swallowed \in 0..MaxStores

PollInit ==
  /\ runs \in [Pollers -> Apps]
  /\ etx_value = 0 /\ can_read = FALSE /\ can_write = FALSE
  /\ poller = [p \in Pollers |-> "start"]
  /\ mask = [p \in Pollers |-> {}]
  /\ triggered = {} /\ added = {}
  /\ user = [u \in Users |-> "idle"]
  /\ stores = 0 /\ shows = 0 /\ seen = 0 /\ swallowed = 0

-----------------------------------------------------------------------------
(* sysfs_store and sysfs_show *)

UserGoto(u, from, to) == user[u] = from /\ user' = [user EXCEPT ![u] = to]

SysfsStoreValue(u) ==
  /\ UserGoto(u, "idle", "stored")
  /\ stores < MaxStores
  /\ stores' = stores + 1
  /\ etx_value' = stores + 1
  /\ UNCHANGED flags /\ UNCHANGED pollerState /\ UNCHANGED <<runs, shows, seen, swallowed>>

SysfsStoreFlag(u) ==
  /\ UserGoto(u, "stored", "store_wake")
  /\ can_read' = TRUE
  /\ UNCHANGED <<runs, etx_value, can_write>> /\ UNCHANGED pollerState /\ UNCHANGED history

SysfsShow(u) ==
  /\ UserGoto(u, "idle", "show_wake")
  /\ shows < MaxShows
  /\ shows' = shows + 1
  /\ can_write' = TRUE
  /\ UNCHANGED <<runs, etx_value, can_read, stores, seen, swallowed>> /\ UNCHANGED pollerState

\* poll(2) leaves the queue when it returns, epoll stays on it.
Queued == {p \in Pollers : poller[p] \notin IF runs[p] = "epoll"
                                           THEN {"start"} ELSE {"start", "read", "write"}}

\* Seeded fault: only those already asleep are woken.
WakeUpSleepers == triggered' = triggered \cup {p \in Pollers : poller[p] = "sleep"}

WakeUp == triggered' = triggered \cup Queued

SysfsWakes(u) ==
  /\ UserGoto(u, "store_wake", "idle") \/ UserGoto(u, "show_wake", "idle")
  /\ WakeUp
  /\ UNCHANGED <<runs, etx_value, poller, mask, added>> /\ UNCHANGED flags /\ UNCHANGED history

-----------------------------------------------------------------------------
(* etx_poll and the system calls that ask it *)

PollerGoto(p, from, to) == poller[p] = from /\ poller' = [poller EXCEPT ![p] = to]

\* poll_wait queues the poller before etx_poll looks at the flags.
PollWait(p) ==
  /\ PollerGoto(p, "start", "test_in")
  /\ mask' = [mask EXCEPT ![p] = {}]
  /\ triggered' = triggered \ {p}
  /\ UNCHANGED <<runs, etx_value, added, user>> /\ UNCHANGED flags /\ UNCHANGED history

TestIn(p) ==
  /\ PollerGoto(p, "test_in", IF can_read THEN "clear_in" ELSE "test_out")
  /\ UNCHANGED <<runs, etx_value, mask, triggered, added, user>>
  /\ UNCHANGED flags /\ UNCHANGED history

Adding(p) == runs[p] = "epoll" /\ p \notin added

\* The stores whose flag was set.
Announced == stores - Cardinality({u \in Users : user[u] = "stored"})

\* Seeded fault: the flag is cleared and the event is not reported.
ClearInSilently(p) ==
  /\ PollerGoto(p, "clear_in", "test_out")
  /\ can_read' = FALSE
  /\ UNCHANGED <<runs, etx_value, can_write, mask, triggered, added, user>> /\ UNCHANGED history

ClearIn(p) ==
  /\ PollerGoto(p, "clear_in", "test_out")
  /\ can_read' = FALSE
  /\ mask' = [mask EXCEPT ![p] = @ \cup {"POLLIN"}]
  /\ swallowed' = IF Adding(p) THEN Announced ELSE swallowed
  /\ UNCHANGED <<runs, etx_value, can_write, triggered, added, user, stores, shows, seen>>

\* What the application does with the events its system call returns.
Outcome(events) ==
  CASE "POLLIN" \in events  -> "read"
    [] events = {"POLLOUT"} -> "write"
    [] OTHER                -> "sleep"

\* etx_poll returns: poll(2) goes on or sleeps; EPOLL_CTL_ADD puts a ready device
\* on the ready list, and epoll_wait puts a device it reports back on it.
Returned(p, from, events) ==
  /\ PollerGoto(p, from, IF Adding(p) THEN "sleep" ELSE Outcome(events))
  /\ triggered' = IF runs[p] = "epoll" /\ events # {} THEN triggered \cup {p} ELSE triggered
  /\ added' = IF runs[p] = "epoll" THEN added \cup {p} ELSE added

TestOut(p) ==
  /\ IF can_write
     THEN PollerGoto(p, "test_out", "clear_out") /\ UNCHANGED <<triggered, added>>
     ELSE Returned(p, "test_out", mask[p])
  /\ UNCHANGED <<runs, etx_value, mask, user>> /\ UNCHANGED flags /\ UNCHANGED history

ClearOut(p) ==
  /\ can_write' = FALSE
  /\ mask' = [mask EXCEPT ![p] = @ \cup {"POLLOUT"}]
  /\ Returned(p, "clear_out", mask'[p])
  /\ UNCHANGED <<runs, etx_value, can_read, user>> /\ UNCHANGED history

\* The system call asks again if a wake-up came since the last look.
Wakes(p) ==
  /\ p \in triggered
  /\ PollerGoto(p, "sleep", "test_in")
  /\ triggered' = triggered \ {p}
  /\ mask' = [mask EXCEPT ![p] = {}]
  /\ UNCHANGED <<runs, etx_value, added, user>> /\ UNCHANGED flags /\ UNCHANGED history

\* After 5 seconds poll(2) looks once more; the application polls again.  epoll_wait
\* looks at nothing that is not on its ready list and is called again.
Timeout(p) ==
  /\ PollerGoto(p, "sleep", IF runs[p] = "epoll" THEN "sleep" ELSE "test_in")
  /\ UNCHANGED <<runs, etx_value, mask, triggered, added, user>>
  /\ UNCHANGED flags /\ UNCHANGED history

-----------------------------------------------------------------------------
(* The application's read and write: etx_read, etx_write *)

Again(p) == IF runs[p] = "epoll" THEN "sleep" ELSE "start"

Read(p) ==
  /\ PollerGoto(p, "read", IF "POLLOUT" \in mask[p] THEN "write" ELSE Again(p))
  /\ seen' = stores
  /\ UNCHANGED <<runs, etx_value, mask, triggered, added, user, stores, shows, swallowed>>
  /\ UNCHANGED flags

Write(p) ==
  /\ PollerGoto(p, "write", Again(p))
  /\ etx_value' = 0
  /\ UNCHANGED <<runs, mask, triggered, added, user>> /\ UNCHANGED flags /\ UNCHANGED history

PollerStep(p) == \/ PollWait(p) \/ TestIn(p) \/ ClearIn(p) \/ TestOut(p) \/ ClearOut(p)
                 \/ Wakes(p) \/ Read(p) \/ Write(p)

UserStep(u) == SysfsStoreFlag(u) \/ SysfsWakes(u)

PollNext == \/ \E u \in Users : SysfsStoreValue(u) \/ SysfsShow(u) \/ UserStep(u)
        \/ \E p \in Pollers : PollerStep(p) \/ Timeout(p)

PollSpec == PollInit /\ [][PollNext]_pollVars

\* Processes that can run do; nobody has to touch the sysfs file, and the
\* timeout is not counted on.
FairPollSpec == /\ PollSpec
                /\ \A p \in Pollers : WF_pollVars(PollerStep(p))
                /\ \A u \in Users : WF_pollVars(UserStep(u))

-----------------------------------------------------------------------------
(* Properties *)

\* No poller sleeps on an event: if a flag is set, every sleeper has been woken
\* or a sysfs handler is about to wake it.
PollersAreWoken ==
  can_read \/ can_write =>
    \A p \in Pollers : poller[p] = "sleep" /\ p \notin triggered =>
      \E u \in Users : user[u] \in {"store_wake", "show_wake"}

\* After every store some poller reads the device, although a store that comes
\* while the flag is being taken is not announced on its own, and although nobody
\* counts on the timeout: unless EPOLL_CTL_ADD took the flag, which etx_poll clears
\* for whoever asks.
StoreIsRead == \A n \in 1..MaxStores : stores = n ~> seen >= n \/ swallowed >= n
=============================================================================
