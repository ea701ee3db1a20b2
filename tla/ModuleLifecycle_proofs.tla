------------------------ MODULE ModuleLifecycle_proofs ------------------------
(***************************************************************************)
(* Rules of three lines or so, which a reader can check in the text of an  *)
(* init function, its labels and its exit function (here, in the row of    *)
(* Table), and the proof that they suffice: a module that obeys them can   *)
(* be loaded and unloaded for ever, with any failures, and leaves nothing  *)
(* behind, serves its entry points and gives back only what it has.        *)
(*                                                                         *)
(* The rules speak of one pass over a row.  The theorems speak of every    *)
(* behaviour: which steps fail, which failures go unnoticed, and what one  *)
(* load leaves for the next.                                               *)
(***************************************************************************)
EXTENDS ModuleLifecycle, TLAPS

-----------------------------------------------------------------------------
(* Reading a row: what init has taken, and which list is gone through then *)

\* Giving back does not fail.
Steps == [kind : {"take", "check"}, res : STRING, fail : STRING]
           \cup [kind : {"give"}, res : STRING, fail : {"never"}]

\* A row is made of steps, and of lists of names to give back.
RowTyped(d) ==
  /\ Table[d].init \in Seq(Steps) /\ Table[d].exit \in Seq(STRING)
  /\ \A l \in DOMAIN Table[d].unwind : Table[d].unwind[l] \in Seq(STRING)

\* The steps among the first n that take a resource which none of them gives back.
Takes(d, n) ==
  {i \in 1..n : /\ Table[d].init[i].kind = "take"
                /\ \A j \in i..n : Table[d].init[j].kind = "give" =>
                                     Table[d].init[j].res # Table[d].init[i].res}

\* A failure that init goes on after.
Silent == {"ignored", "dereferenced"}

\* What the first n steps may have taken, and what they have for certain.
Taken(d, n) == {Table[d].init[i].res : i \in Takes(d, n)}
Got(d, n)   ==
  {Table[d].init[i].res :
     i \in {j \in Takes(d, n) : d \in MayFail => Table[d].init[j].fail \notin Silent}}

\* The first k of a list give r back, by its name or with its directory.
Clears(list, k, r) ==
  \E i \in 1..k : r = list[i] \/ (list[i] \in {"kobj", "procdir"} /\ <<r, list[i]>> \in Inside)

\* The ways out: the exit function, and behind a failed step the code of its label.
Ways(d) ==
  {[after |-> Len(Table[d].init), list |-> Table[d].exit, exit |-> TRUE]}
  \cup {[after |-> n - 1, exit |-> FALSE,
         list  |-> IF Table[d].init[n].fail \in DOMAIN Table[d].unwind
                   THEN Table[d].unwind[Table[d].init[n].fail] ELSE <<>>] :
          n \in {m \in 1..Len(Table[d].init) :
                   d \in MayFail /\ Table[d].init[m].fail \notin Silent \cup {"never"}}}

-----------------------------------------------------------------------------
(* The rules *)

\* Without a failure, no name is taken twice and no step comes before its directory's.
Orderly(d) ==
  d \notin MayFail => \A n \in 1..Len(Table[d].init) : Table[d].init[n].fail # "never" =>
    /\ Table[d].init[n].res \notin Taken(d, n - 1)
    /\ \A p \in ResourcesOf(d) : <<Table[d].init[n].res, p>> \in Inside => p \in Taken(d, n - 1)

\* Every way out gives back what was taken before it.
GivesAllBack(d) ==
  \A w \in Ways(d) : \A r \in Taken(d, w.after) \ (OwnMemory \cup Managed) :
    Clears(w.list, Len(w.list), r)

\* What an entry point uses is taken before it and given back after it; a file that
\* may be open when its module is gone uses nothing.
UsersGoFirst(d) ==
  \A u \in Table[d].uses :
    /\ \A n \in 0..Len(Table[d].init) : u[1] \in Taken(d, n) => u[2] \in Got(d, n)
    /\ d \in Unowned => u[1] \notin DeviceFiles
    /\ \A w \in Ways(d) : u[1] \in Taken(d, w.after) /\ ~(u[1] \in DeviceFiles /\ w.exit) =>
         \A k \in 1..Len(w.list) : Clears(w.list, k, u[2]) => Clears(w.list, k, u[1])

\* The k-th of a list can be given back by a module that has at least what is in "had":
\* it is named once, and was there, and its class is.
RightTurn(list, k, had) ==
  /\ \A j \in 1..k - 1 : list[j] # list[k]
  /\ list[k] \notin ToleratesAbsence => list[k] \in had /\ ~Clears(list, k - 1, list[k])
  /\ list[k] = "device" => "class" \in had /\ ~Clears(list, k - 1, "class")

\* What is given back was taken for certain, and is given back once.
GivesOnlyItsOwn(d) ==
  /\ d \in MayFail => \A n \in 1..Len(Table[d].init) : Table[d].init[n].fail # "dereferenced"
  /\ \A w \in Ways(d) : w.exit \/ d \notin FreesUnclaimed =>
       \A k \in 1..Len(w.list) : RightTurn(w.list, k, Got(d, w.after))

Tidy(d) == RowTyped(d) /\ Orderly(d) /\ GivesAllBack(d)

-----------------------------------------------------------------------------
(* The inductive invariant: in init, what is held lies between what the    *)
(* steps done have got for certain and what they may have taken; on a way  *)
(* out, the rest of the list still names all that is held.                 *)

\* How many steps of init are done, and what the module has then.
Done == Len(Code.init) - Len(todo)
HoldsAfter(n) == Got(driver, n) \subseteq held /\ held \subseteq Taken(driver, n)

LoadInv ==
  /\ driver \in Drivers
  /\ phase \in {"out", "init", "unwind", "live", "exit"}
  /\ phase = "out" => held = {}
  /\ phase = "init" => /\ todo \in Seq(Steps) /\ Len(todo) <= Len(Code.init)
                       /\ \A i \in 1..Len(todo) : todo[i] = Code.init[Done + i]
                       /\ HoldsAfter(Done)
  /\ phase = "live" => HoldsAfter(Len(Code.init))
  /\ GivingBack => /\ todo \in Seq(STRING)
                   /\ \A r \in held \ (OwnMemory \cup Managed) : Clears(todo, Len(todo), r)

\* Only device files are open, and of a module that its files pin only while it is loaded.
PinInv ==
  /\ open \subseteq DeviceFiles
  /\ PinsItself => IF phase = "live" THEN open \subseteq held ELSE open = {}

\* What one step adds to what the steps before it have taken.
LEMMA TakenNext ==
  ASSUME NEW d, RowTyped(d), NEW n \in 0..Len(Table[d].init) - 1,
         NEW s, s = Table[d].init[n + 1]
  PROVE  /\ s.kind = "take" => /\ Taken(d, n + 1) = Taken(d, n) \cup {s.res}
                               /\ Got(d, n + 1) = Got(d, n) \cup
                                    (IF d \in MayFail /\ s.fail \in Silent THEN {} ELSE {s.res})
         /\ s.kind = "give" => /\ Taken(d, n + 1) = Taken(d, n) \ {s.res}
                               /\ Got(d, n + 1) = Got(d, n) \ {s.res}
         /\ s.kind = "check" => Taken(d, n + 1) = Taken(d, n) /\ Got(d, n + 1) = Got(d, n)
<1> DEFINE init == Table[d].init
<1>1. init \in Seq(Steps) /\ n \in Nat /\ 1..n + 1 = 1..n \cup {n + 1} /\ n + 1 \notin 1..n
  BY DEF RowTyped
<1>2. CASE s.kind = "take"
  <2>1. Takes(d, n + 1) = Takes(d, n) \cup {n + 1}
    <3>1. \A i \in 1..n : i..n + 1 = i..n \cup {n + 1}  BY <1>1
    <3>2. (n + 1)..(n + 1) = {n + 1}  BY <1>1
    <3> HIDE DEF init
    <3> QED  BY <1>1, <1>2, <3>1, <3>2, Zenon DEF Takes, init
  <2> QED  BY <1>2, <2>1, Zenon DEF Taken, Got
<1>3. CASE s.kind = "check"
  <2>1. Takes(d, n + 1) = Takes(d, n)
    <3>1. \A i \in 1..n : i..n + 1 = i..n \cup {n + 1}  BY <1>1
    <3> QED  BY <1>1, <1>3, <3>1 DEF Takes
  <2> QED  BY <1>3, <2>1 DEF Taken, Got
<1>4. CASE s.kind = "give"
  <2>1. Takes(d, n + 1) = {i \in Takes(d, n) : init[i].res # s.res}
    <3>1. \A i \in 1..n : i..n + 1 = i..n \cup {n + 1}  BY <1>1
    <3> QED  BY <1>1, <1>4, <3>1 DEF Takes
  <2> QED  BY <1>4, <2>1 DEF Taken, Got
<1>5. s.kind \in {"take", "give", "check"}
  <2>1. n + 1 \in 1..Len(init)  BY <1>1
  <2>2. s \in Steps  BY <1>1, <2>1
  <2> QED  BY <2>2 DEF Steps
<1> QED  BY <1>2, <1>3, <1>4

\* Nothing is taken before the first step.
LEMMA NothingTaken == \A d : Taken(d, 0) = {} /\ Got(d, 0) = {}
BY DEF Taken, Got, Takes

\* Certain is what may be; without failures it is the same.
LEMMA GotIsTaken ==
  ASSUME NEW d, NEW n
  PROVE  Got(d, n) \subseteq Taken(d, n) /\ (d \notin MayFail => Got(d, n) = Taken(d, n))
BY DEF Got, Taken

\* The first element of what is to be given back, and the others behind it.
LEMMA ClearsNext ==
  ASSUME NEW list \in Seq(STRING), NEW k \in Nat, k < Len(list), NEW r
  PROVE  Clears(list, k + 1, r) <=>
           \/ r = Head(list)
           \/ Head(list) \in {"kobj", "procdir"} /\ <<r, Head(list)>> \in Inside
           \/ Clears(Tail(list), k, r)
<1> DEFINE Gives(x) == r = x \/ (x \in {"kobj", "procdir"} /\ <<r, x>> \in Inside)
<1>1. list[1] = Head(list) /\ \A i \in 1..k : Tail(list)[i] = list[i + 1]
  OBVIOUS
<1>2. (\E i \in 1..k + 1 : Gives(list[i])) <=> Gives(list[1]) \/ \E i \in 1..k : Gives(list[i + 1])
  <2> HIDE DEF Gives
  <2>1. \A i \in 1..k + 1 : i = 1 \/ (i - 1 \in 1..k /\ i = (i - 1) + 1)  OBVIOUS
  <2>2. 1 \in 1..k + 1 /\ \A i \in 1..k : i + 1 \in 1..k + 1  OBVIOUS
  <2> QED  BY <2>1, <2>2
<1> QED  BY <1>1, <1>2 DEF Clears

-----------------------------------------------------------------------------
(* The steps *)

\* Nothing is loaded at the beginning.
LEMMA LoadStarts == Init => LoadInv
BY DEF Init, LoadInv, GivingBack

\* Insmod begins with all steps.
LEMMA InsmodKeeps ==
  ASSUME LoadInv, Tidy(driver), Insmod
  PROVE  LoadInv'
<1>1. Code' = Code /\ Code = Table[driver]  BY DEF Insmod, Code
<1>2. Code.init \in Seq(Steps)  BY DEF Tidy, RowTyped, Code
<1>3. Done' = 0  BY <1>1, <1>2 DEF Insmod, Done
<1>4. HoldsAfter(0)'  BY NothingTaken DEF Insmod, HoldsAfter, LoadInv
<1> QED  BY <1>1, <1>2, <1>3, <1>4 DEF Insmod, LoadInv, GivingBack

\* The step that init is about to make.
LEMMA NextStep ==
  ASSUME LoadInv, Tidy(driver), phase = "init", todo # <<>>
  PROVE  /\ Code.init \in Seq(Steps)
         /\ Done + 1 \in 1..Len(Code.init) /\ Done \in 0..Len(Code.init) - 1
         /\ Step = Code.init[Done + 1] /\ Step \in Steps
         /\ HoldsAfter(Done)
<1>1. /\ Code.init \in Seq(Steps) /\ todo \in Seq(Steps) /\ Len(todo) <= Len(Code.init)
      /\ \A i \in 1..Len(todo) : todo[i] = Code.init[Done + i]
      /\ HoldsAfter(Done)
  BY DEF LoadInv, Tidy, RowTyped, Code
<1>2. Len(todo) \in Nat \ {0} /\ Len(Code.init) \in Nat /\ Step = todo[1]  BY <1>1 DEF Step
<1> QED  BY <1>1, <1>2 DEF Done

\* Init goes on to its next step with what this one took or gave back.
LEMMA InitGoesOn ==
  ASSUME LoadInv, Tidy(driver), phase = "init", todo # <<>>,
         todo' = Tail(todo), phase' = "init", driver' = driver,
         Got(driver, Done + 1) \subseteq held', held' \subseteq Taken(driver, Done + 1)
  PROVE  LoadInv'
<1>1. /\ Code.init \in Seq(Steps) /\ todo \in Seq(Steps) /\ Len(todo) <= Len(Code.init)
      /\ \A i \in 1..Len(todo) : todo[i] = Code.init[Done + i]
  BY DEF LoadInv, Tidy, RowTyped, Code
<1>2. Code' = Code  BY DEF Code
<1>3. /\ Len(todo) \in Nat \ {0} /\ todo' \in Seq(Steps) /\ Len(todo') = Len(todo) - 1
      /\ \A i \in 1..Len(todo') : todo'[i] = todo[i + 1]
  BY <1>1
<1>4. Len(Code.init) \in Nat  BY <1>1
<1>5. Done' = Done + 1 /\ Done \in Nat  BY <1>1, <1>2, <1>3, <1>4 DEF Done
<1>6. \A i \in 1..Len(todo') : todo'[i] = Code.init[Done' + i]
  <2> TAKE i \in 1..Len(todo')
  <2>1. i + 1 \in 1..Len(todo) /\ i \in Nat  BY <1>3
  <2>2. Done + (i + 1) = Done' + i  BY <1>5, <2>1
  <2> QED  BY <1>1, <1>3, <2>1, <2>2
<1>7. HoldsAfter(Done)'  BY <1>5 DEF HoldsAfter
<1> QED  BY <1>1, <1>2, <1>3, <1>4, <1>6, <1>7 DEF LoadInv, GivingBack

\* A step that succeeds.
LEMMA StepSucceedsKeeps ==
  ASSUME LoadInv, Tidy(driver), StepSucceeds
  PROVE  LoadInv'
<1>1. phase = "init" /\ todo # <<>>  BY DEF StepSucceeds
<1>2. /\ Done \in 0..Len(Table[driver].init) - 1 /\ Step = Table[driver].init[Done + 1]
      /\ RowTyped(driver) /\ HoldsAfter(Done)
  BY <1>1, NextStep DEF Code, Tidy
<1>3. Got(driver, Done + 1) \subseteq held' /\ held' \subseteq Taken(driver, Done + 1)
  <2>1. /\ Step.kind = "take" =>
             /\ Taken(driver, Done + 1) = Taken(driver, Done) \cup {Step.res}
             /\ Got(driver, Done + 1) \subseteq Got(driver, Done) \cup {Step.res}
        /\ Step.kind = "give" => /\ Taken(driver, Done + 1) = Taken(driver, Done) \ {Step.res}
                                 /\ Got(driver, Done + 1) = Got(driver, Done) \ {Step.res}
        /\ Step.kind = "check" => /\ Taken(driver, Done + 1) = Taken(driver, Done)
                                  /\ Got(driver, Done + 1) = Got(driver, Done)
    BY <1>2, TakenNext
  <2> QED  BY <1>2, <2>1 DEF StepSucceeds, HoldsAfter
<1> QED  BY <1>1, <1>3, InitGoesOn DEF StepSucceeds

\* What CanTake asks for is there if nothing fails.
LEMMA CanTakeInOrder ==
  ASSUME LoadInv, Tidy(driver), phase = "init", todo # <<>>, driver \notin MayFail,
         Step.fail # "never"
  PROVE  CanTake
<1>1. /\ Done \in 0..Len(Table[driver].init) - 1 /\ Done + 1 \in 1..Len(Table[driver].init)
      /\ Step = Table[driver].init[Done + 1] /\ (Done + 1) - 1 = Done
      /\ HoldsAfter(Done)
  BY NextStep DEF Code
<1>2. held = Taken(driver, Done)  BY <1>1, GotIsTaken DEF HoldsAfter
<1>3. /\ Step.res \notin Taken(driver, Done)
      /\ \A p \in ResourcesOf(driver) : <<Step.res, p>> \in Inside => p \in Taken(driver, Done)
  BY <1>1 DEF Tidy, Orderly
<1> QED  BY <1>2, <1>3 DEF CanTake

\* A step whose failure is not noticed takes nothing, and nothing counts on it.
LEMMA FailureIgnoredKeeps ==
  ASSUME LoadInv, Tidy(driver), FailureIgnored
  PROVE  LoadInv' /\ driver \in MayFail
<1>1. /\ phase = "init" /\ todo # <<>> /\ Step.fail \in Silent
      /\ driver' = driver /\ phase' = "init" /\ held' = held /\ todo' = Tail(todo)
  BY DEF FailureIgnored, Fails, Silent
<1>2. driver \in MayFail  BY <1>1, CanTakeInOrder DEF FailureIgnored, Fails, Silent
<1>3. /\ Done \in 0..Len(Table[driver].init) - 1 /\ Step = Table[driver].init[Done + 1]
      /\ RowTyped(driver) /\ HoldsAfter(Done) /\ Step \in Steps
  BY <1>1, NextStep DEF Code, Tidy
<1>4. \/ Step.kind = "take" /\ Taken(driver, Done + 1) = Taken(driver, Done) \cup {Step.res}
      \/ Step.kind = "check" /\ Taken(driver, Done + 1) = Taken(driver, Done)
  <2>1. Step.kind # "give"  BY <1>1, <1>3 DEF Steps, Silent
  <2>2. Step.kind = "take" \/ Step.kind = "check"  BY <1>3, <2>1 DEF Steps
  <2> QED  BY <1>3, <2>2, TakenNext
<1>5. Got(driver, Done + 1) = Got(driver, Done)
  <2>1. Step.kind = "take" => Got(driver, Done + 1) = Got(driver, Done) \cup {}
    BY <1>1, <1>2, <1>3, TakenNext
  <2>2. Step.kind = "check" => Got(driver, Done + 1) = Got(driver, Done)
    BY <1>3, TakenNext
  <2> QED  BY <1>4, <2>1, <2>2
<1> QED  BY <1>1, <1>2, <1>3, <1>4, <1>5, InitGoesOn DEF HoldsAfter

\* A way out begins: what may be held is what its list gives back.
LEMMA WayOut ==
  ASSUME LoadInv, Tidy(driver), NEW w \in Ways(driver), held \subseteq Taken(driver, w.after)
  PROVE  /\ w.list \in Seq(STRING)
         /\ \A r \in held \ (OwnMemory \cup Managed) : Clears(w.list, Len(w.list), r)
<1>1. w.list \in Seq(STRING)
  <2>1. /\ Table[driver].exit \in Seq(STRING) /\ <<>> \in Seq(STRING)
        /\ \A l \in DOMAIN Table[driver].unwind : Table[driver].unwind[l] \in Seq(STRING)
    BY DEF Tidy, RowTyped
  <2>2. CASE w = [after |-> Len(Table[driver].init), list |-> Table[driver].exit, exit |-> TRUE]
    BY <2>1, <2>2
  <2>3. CASE \E n \in 1..Len(Table[driver].init) :
               w = [after |-> n - 1, exit |-> FALSE,
                    list  |-> IF Table[driver].init[n].fail \in DOMAIN Table[driver].unwind
                              THEN Table[driver].unwind[Table[driver].init[n].fail] ELSE <<>>]
    <3>1. PICK n \in 1..Len(Table[driver].init) :
            w.list = IF Table[driver].init[n].fail \in DOMAIN Table[driver].unwind
                     THEN Table[driver].unwind[Table[driver].init[n].fail] ELSE <<>>
      BY <2>3
    <3>2. CASE Table[driver].init[n].fail \in DOMAIN Table[driver].unwind
      BY <2>1, <3>1, <3>2
    <3>3. CASE Table[driver].init[n].fail \notin DOMAIN Table[driver].unwind
      BY <2>1, <3>1, <3>3
    <3> QED  BY <3>2, <3>3
  <2> QED  BY <2>2, <2>3 DEF Ways
<1> QED  BY <1>1 DEF Tidy, GivesAllBack

\* The way out behind the label of a step, and the exit function.
LEMMA WaysAre ==
  /\ \A d, n : /\ n \in 1..Len(Table[d].init) /\ d \in MayFail
               /\ Table[d].init[n].fail \notin Silent \cup {"never"}
               => [after |-> n - 1, exit |-> FALSE,
                   list  |-> IF Table[d].init[n].fail \in DOMAIN Table[d].unwind
                             THEN Table[d].unwind[Table[d].init[n].fail] ELSE <<>>] \in Ways(d)
  /\ \A d : [after |-> Len(Table[d].init), list |-> Table[d].exit, exit |-> TRUE] \in Ways(d)
BY DEF Ways

\* A step whose failure is noticed.
LEMMA StepFailsIs ==
  ASSUME LoadInv, Tidy(driver), StepFails
  PROVE  \E w \in Ways(driver) : /\ todo' = w.list /\ ~w.exit /\ w.after \in 0..Len(Code.init)
                                 /\ HoldsAfter(w.after)
<1>1. phase = "init" /\ todo # <<>> /\ Step.fail \notin Silent \cup {"never"}
  BY DEF StepFails, Fails, Silent
<1>2. driver \in MayFail  BY <1>1, CanTakeInOrder DEF StepFails, Fails
<1>3. /\ Done + 1 \in 1..Len(Code.init) /\ Done \in 0..Len(Code.init) /\ (Done + 1) - 1 = Done
      /\ Step = Code.init[Done + 1] /\ HoldsAfter(Done)
  BY <1>1, NextStep
<1>4. [after |-> Done, exit |-> FALSE,
       list  |-> IF Step.fail \in DOMAIN Code.unwind THEN Code.unwind[Step.fail] ELSE <<>>]
      \in Ways(driver)
  BY <1>1, <1>2, <1>3, WaysAre DEF Code
<1> QED  BY <1>3, <1>4 DEF StepFails

\* The code of the label, or a plain return, has the rest to give back.
LEMMA StepFailsKeeps ==
  ASSUME LoadInv, Tidy(driver), StepFails
  PROVE  LoadInv'
<1>1. PICK w \in Ways(driver) : todo' = w.list /\ HoldsAfter(w.after)  BY StepFailsIs
<1>2. held \subseteq Taken(driver, w.after)  BY <1>1 DEF HoldsAfter
<1> QED  BY <1>1, <1>2, WayOut DEF StepFails, LoadInv, GivingBack

\* Init is done.
LEMMA InitReturnsKeeps ==
  ASSUME LoadInv, Tidy(driver), InitReturns
  PROVE  LoadInv'
<1>1. Code.init \in Seq(Steps) /\ Done = Len(Code.init)
  BY DEF InitReturns, Done, Tidy, RowTyped, Code
<1>2. HoldsAfter(Len(Code.init))  BY <1>1 DEF InitReturns, LoadInv
<1> QED  BY <1>2 DEF InitReturns, LoadInv, GivingBack, HoldsAfter, Code

\* The exit function.
LEMMA RmmodIs ==
  ASSUME LoadInv, Rmmod
  PROVE  \E w \in Ways(driver) : /\ todo' = w.list /\ w.exit /\ w.after = Len(Code.init)
                                 /\ HoldsAfter(w.after)
<1>1. [after |-> Len(Code.init), list |-> Code.exit, exit |-> TRUE] \in Ways(driver)
  BY WaysAre DEF Code
<1>2. HoldsAfter(Len(Code.init)) /\ todo' = Code.exit  BY DEF LoadInv, Rmmod
<1> QED  BY <1>1, <1>2

\* The exit function has all to give back.
LEMMA RmmodKeeps ==
  ASSUME LoadInv, Tidy(driver), Rmmod
  PROVE  LoadInv'
<1>1. PICK w \in Ways(driver) : todo' = w.list /\ HoldsAfter(w.after)  BY RmmodIs
<1>2. held \subseteq Taken(driver, w.after)  BY <1>1 DEF HoldsAfter
<1> QED  BY <1>1, <1>2, WayOut DEF Rmmod, LoadInv, GivingBack

\* What remains held is what the rest of the list gives back.
LEMMA GiveBackIs ==
  ASSUME GiveBack, todo \in Seq(STRING)
  PROVE  /\ todo' \in Seq(STRING) /\ Len(todo') \in Nat /\ Len(todo) = Len(todo') + 1
         /\ \A r \in held' : \A k \in 0..Len(todo') :
              r \in held /\ (Clears(todo, k + 1, r) <=> Clears(todo', k, r))
         /\ \A r \in held \ held' : Clears(todo, 1, r)
<1>1. todo # <<>> /\ todo' = Tail(todo) /\ held' = held \ ({Step} \cup Contents(Step))
  BY DEF GiveBack
<1>2. todo' \in Seq(STRING) /\ Len(todo') \in Nat /\ Len(todo) = Len(todo') + 1  BY <1>1
<1>3. ASSUME NEW r \in held
      PROVE  r \in held' <=>
               ~(r = Step \/ (Step \in {"kobj", "procdir"} /\ <<r, Step>> \in Inside))
  BY <1>1 DEF Contents
<1>4. ASSUME NEW r \in held', NEW k \in 0..Len(todo')
      PROVE  r \in held /\ (Clears(todo, k + 1, r) <=> Clears(todo', k, r))
  <2>1. r \in held /\ k \in Nat /\ k < Len(todo)  BY <1>1, <1>2
  <2> QED  BY <1>1, <1>3, <2>1, ClearsNext DEF Step
<1>5. ASSUME NEW r \in held \ held'
      PROVE  Clears(todo, 1, r)
  <2>1. 0 \in Nat /\ 0 < Len(todo) /\ 0 + 1 = 1  BY <1>2
  <2>2. Clears(todo, 0 + 1, r)  BY <1>3, <1>5, <2>1, ClearsNext DEF Step
  <2> QED  BY <2>1, <2>2
<1> QED  BY <1>2, <1>4, <1>5

\* One resource, and what is in its directory, is given back.
LEMMA GiveBackKeeps ==
  ASSUME LoadInv, Tidy(driver), GiveBack
  PROVE  LoadInv'
<1>1. /\ todo \in Seq(STRING) /\ phase \in {"unwind", "exit"} /\ phase' = phase /\ driver' = driver
      /\ \A r \in held \ (OwnMemory \cup Managed) : Clears(todo, Len(todo), r)
  BY DEF GiveBack, GivingBack, LoadInv
<1>2. \A r \in held' \ (OwnMemory \cup Managed) : Clears(todo', Len(todo'), r)
  <2> TAKE r \in held' \ (OwnMemory \cup Managed)
  <2>1. Len(todo') \in 0..Len(todo')  BY <1>1, GiveBackIs
  <2>2. r \in held /\ (Clears(todo, Len(todo') + 1, r) <=> Clears(todo', Len(todo'), r))
    BY <1>1, <2>1, GiveBackIs
  <2>3. Len(todo) = Len(todo') + 1  BY <1>1, GiveBackIs
  <2> QED  BY <1>1, <2>2, <2>3
<1>3. todo' \in Seq(STRING)  BY <1>1, GiveBackIs
<1> QED  BY <1>1, <1>2, <1>3 DEF LoadInv, GivingBack

\* At the end of a way out only what the kernel drops by itself is left.
LEMMA GoneKeeps ==
  ASSUME LoadInv, Tidy(driver), Gone
  PROVE  LoadInv'
<1>1. /\ GivingBack /\ todo = <<>> /\ phase' = "out" /\ held' = held \ (OwnMemory \cup Managed)
      /\ driver' = driver
  BY DEF Gone
<1>2. \A r \in held' : Clears(<<>>, 0, r)  BY <1>1 DEF LoadInv
<1>3. held' = {}  BY <1>2 DEF Clears
<1> QED  BY <1>1, <1>3 DEF LoadInv, GivingBack

\* Every step keeps the invariant.
LEMMA LoadStays == (\A d \in Drivers : Tidy(d)) /\ LoadInv /\ [Next]_vars => LoadInv'
<1> SUFFICES ASSUME \A d \in Drivers : Tidy(d), LoadInv, [Next]_vars PROVE LoadInv'
  OBVIOUS
<1>0. Tidy(driver)  BY DEF LoadInv
<1>1. CASE Insmod  BY <1>0, <1>1, InsmodKeeps
<1>2. CASE StepSucceeds  BY <1>0, <1>2, StepSucceedsKeeps
<1>3. CASE StepFails  BY <1>0, <1>3, StepFailsKeeps
<1>4. CASE FailureIgnored  BY <1>0, <1>4, FailureIgnoredKeeps
<1>5. CASE InitReturns  BY <1>0, <1>5, InitReturnsKeeps
<1>6. CASE Rmmod  BY <1>0, <1>6, RmmodKeeps
<1>7. CASE GiveBack  BY <1>0, <1>7, GiveBackKeeps
<1>8. CASE Gone  BY <1>0, <1>8, GoneKeeps
<1>9. CASE UNCHANGED vars \/ Opens \/ Closes
  BY <1>9 DEF vars, Opens, Closes, LoadInv, GivingBack, HoldsAfter, Done, Code
<1> QED  BY <1>1, <1>2, <1>3, <1>4, <1>5, <1>6, <1>7, <1>8, <1>9 DEF Next

\* A file that pins its module is closed before the module is removed.
LEMMA PinStays == PinInv /\ [Next]_vars => PinInv'
<1> SUFFICES ASSUME PinInv, [Next]_vars PROVE PinInv'
  OBVIOUS
<1> USE DEF PinInv, PinsItself
<1>1. CASE Insmod \/ StepSucceeds \/ StepFails \/ FailureIgnored \/ InitReturns
  BY <1>1 DEF Insmod, StepSucceeds, StepFails, FailureIgnored, Fails, InitReturns
<1>2. CASE Opens  BY <1>2 DEF Opens
<1>3. CASE Closes  BY <1>3 DEF Closes
<1>4. CASE Rmmod  BY <1>4 DEF Rmmod
<1>5. CASE GiveBack \/ Gone  BY <1>5 DEF GiveBack, Gone, GivingBack
<1>6. CASE UNCHANGED vars  BY <1>6 DEF vars
<1> QED  BY <1>1, <1>2, <1>3, <1>4, <1>5, <1>6 DEF Next

\* module_init, its labels and module_exit leave nothing registered in the kernel, whatever
\* fails and however often the module is loaded, if each way out of init and the exit
\* function name what was taken; and no file stays open but of the Unowned.
THEOREM LeavesNothing == (\A d \in Drivers : Tidy(d)) => (Spec => []NothingLeft)
<1> SUFFICES ASSUME \A d \in Drivers : Tidy(d) PROVE Spec => []NothingLeft
  OBVIOUS
<1>1. Init => LoadInv /\ PinInv  BY LoadStarts DEF Init, PinInv
<1>2. LoadInv /\ PinInv /\ [Next]_vars => LoadInv' /\ PinInv'  BY LoadStays, PinStays
<1>3. LoadInv /\ PinInv => NothingLeft  BY DEF LoadInv, PinInv, NothingLeft
<1> QED  BY <1>1, <1>2, <1>3, PTL DEF Spec

-----------------------------------------------------------------------------
(* What is used and what is owned *)

\* What an entry point uses is there, and does not go before the entry point does.
ServedInv ==
  GivingBack /\ driver \notin Exposed => \A u \in Code.uses : u[1] \in held /\ ~(u[1] \in DeviceFiles /\ phase = "exit") =>
    /\ u[2] \in held
    /\ \A k \in 1..Len(todo) : Clears(todo, k, u[2]) => Clears(todo, k, u[1])

\* What is given back is held, and given back once.
OwnedInv ==
  GivingBack /\ Careful =>
    \A k \in 1..Len(todo) : todo[k] \notin given /\ RightTurn(todo, k, held)

\* While init runs and after it the first rule of UsersGoFirst suffices.
LEMMA ServedWhileLoading ==
  ASSUME Tidy(driver), UsersGoFirst(driver), NEW n \in 0..Len(Code.init), HoldsAfter(n)
  PROVE  \A u \in Code.uses : u[1] \in held => u[2] \in held
BY DEF UsersGoFirst, HoldsAfter, Code

\* Where init is.
LEMMA LoadingIs ==
  ASSUME LoadInv, Tidy(driver), phase \in {"init", "live"}
  PROVE  \E n \in 0..Len(Code.init) : HoldsAfter(n)
<1>1. Code.init \in Seq(Steps)  BY DEF Tidy, RowTyped, Code
<1>2. CASE phase = "init"
  <2>1. Done \in 0..Len(Code.init) /\ HoldsAfter(Done)  BY <1>1, <1>2 DEF LoadInv, Done
  <2> QED  BY <2>1
<1>3. CASE phase = "live"
  <2>1. Len(Code.init) \in 0..Len(Code.init)  BY <1>1
  <2> QED  BY <1>3, <2>1 DEF LoadInv
<1> QED  BY <1>2, <1>3

\* A way out begins.
LEMMA WayOutServed ==
  ASSUME LoadInv, Tidy(driver), UsersGoFirst(driver), NEW w \in Ways(driver),
         w.after \in 0..Len(Code.init), HoldsAfter(w.after)
  PROVE  \A u \in Code.uses : u[1] \in held /\ ~(u[1] \in DeviceFiles /\ w.exit) =>
           /\ u[2] \in held
           /\ \A k \in 1..Len(w.list) : Clears(w.list, k, u[2]) => Clears(w.list, k, u[1])
<1>1. \A u \in Code.uses : u[1] \in held => u[2] \in held  BY ServedWhileLoading
<1>2. \A u \in Code.uses : u[1] \in held => u[1] \in Taken(driver, w.after)  BY DEF HoldsAfter
<1> QED  BY <1>1, <1>2 DEF UsersGoFirst, Code

\* Every step keeps it.
LEMMA ServedStays ==
  ASSUME LoadInv, ServedInv, [Next]_vars,
         \A d \in Drivers : Tidy(d) /\ (d \notin Exposed => UsersGoFirst(d))
  PROVE  ServedInv'
<1> SUFFICES ASSUME driver \notin Exposed PROVE ServedInv'
  BY DEF ServedInv, Next, vars, Insmod, StepSucceeds, StepFails, FailureIgnored, InitReturns,
         Opens, Closes, Rmmod, GiveBack, Gone
<1>0. Tidy(driver) /\ UsersGoFirst(driver) /\ LoadInv'  BY LoadStays DEF LoadInv
<1>1. CASE UNCHANGED vars \/ Opens \/ Closes
  BY <1>1 DEF vars, Opens, Closes, ServedInv, GivingBack, Code
<1>2. CASE Insmod \/ StepSucceeds \/ FailureIgnored \/ InitReturns
  BY <1>2 DEF Insmod, StepSucceeds, FailureIgnored, Fails, InitReturns, ServedInv, GivingBack
<1>3. CASE StepFails
  <2>1. PICK w \in Ways(driver) : /\ todo' = w.list /\ ~w.exit /\ w.after \in 0..Len(Code.init)
                                  /\ HoldsAfter(w.after)
    BY <1>0, <1>3, StepFailsIs
  <2> QED  BY <1>0, <1>3, <2>1, WayOutServed DEF StepFails, ServedInv, GivingBack, Code
<1>4. CASE Rmmod
  <2>1. PICK w \in Ways(driver) : /\ todo' = w.list /\ w.exit /\ w.after = Len(Code.init)
                                  /\ HoldsAfter(w.after)
    BY <1>4, RmmodIs
  <2>2. Code.init \in Seq(Steps)  BY <1>0 DEF Tidy, RowTyped, Code
  <2>3. w.after \in 0..Len(Code.init)  BY <2>1, <2>2
  <2> QED  BY <1>0, <1>4, <2>1, <2>3, WayOutServed DEF Rmmod, ServedInv, GivingBack, Code
<1>5. CASE GiveBack
  <2>1. /\ GivingBack /\ phase' = phase /\ driver' = driver /\ Code' = Code /\ GivingBack'
        /\ todo \in Seq(STRING)
    BY <1>5 DEF GiveBack, GivingBack, LoadInv, Code
  <2>2. ASSUME NEW u \in Code.uses, u[1] \in held', ~(u[1] \in DeviceFiles /\ phase = "exit")
        PROVE  /\ u[2] \in held'
               /\ \A k \in 1..Len(todo') : Clears(todo', k, u[2]) => Clears(todo', k, u[1])
    <3>1. Len(todo') \in Nat /\ Len(todo) = Len(todo') + 1  BY <1>5, <2>1, GiveBackIs
    <3>2. u[1] \in held /\ ~Clears(todo, 1, u[1])
      <4>1. 0 \in 0..Len(todo') /\ 0 + 1 = 1  BY <3>1
      <4>2. u[1] \in held /\ (Clears(todo, 0 + 1, u[1]) <=> Clears(todo', 0, u[1]))
        BY <1>5, <2>1, <2>2, <4>1, GiveBackIs
      <4>3. ~Clears(todo', 0, u[1])  BY DEF Clears
      <4> QED  BY <4>1, <4>2, <4>3
    <3>3. /\ u[2] \in held
          /\ \A k \in 1..Len(todo) : Clears(todo, k, u[2]) => Clears(todo, k, u[1])
      BY <2>1, <2>2, <3>2 DEF ServedInv
    <3>4. u[2] \in held'
      <4>1. 1 \in 1..Len(todo)  BY <3>1
      <4>2. ~Clears(todo, 1, u[2])  BY <3>2, <3>3, <4>1
      <4> QED  BY <1>5, <2>1, <3>3, <4>2, GiveBackIs
    <3>5. ASSUME NEW k \in 1..Len(todo'), Clears(todo', k, u[2])
          PROVE  Clears(todo', k, u[1])
      <4>1. k \in 0..Len(todo') /\ k + 1 \in 1..Len(todo)  BY <3>1
      <4>2. Clears(todo, k + 1, u[2])  BY <1>5, <2>1, <3>4, <3>5, <4>1, GiveBackIs
      <4>3. Clears(todo, k + 1, u[1])  BY <3>3, <4>1, <4>2
      <4> QED  BY <1>5, <2>1, <2>2, <4>1, <4>3, GiveBackIs
    <3> QED  BY <3>4, <3>5
  <2> QED  BY <2>1, <2>2 DEF ServedInv, GivingBack
<1>6. CASE Gone  BY <1>6 DEF Gone, ServedInv, GivingBack
<1> QED  BY <1>1, <1>2, <1>3, <1>4, <1>5, <1>6 DEF Next

\* No interrupt, thread or file operation of a module finds what it uses gone or not yet
\* there, if init takes it before the entry point and every way out gives it back after
\* (which the Exposed do not).
THEOREM ServesEntries ==
  (\A d \in Drivers : Tidy(d) /\ (d \notin Exposed => UsersGoFirst(d))) =>
    (Spec => []EntriesServed)
<1> SUFFICES ASSUME \A d \in Drivers : Tidy(d) /\ (d \notin Exposed => UsersGoFirst(d))
             PROVE  Spec => []EntriesServed
  OBVIOUS
<1>1. Init => LoadInv /\ PinInv /\ ServedInv
  BY LoadStarts DEF Init, PinInv, ServedInv, GivingBack
<1>2. LoadInv /\ PinInv /\ ServedInv /\ [Next]_vars => LoadInv' /\ PinInv' /\ ServedInv'
  BY LoadStays, PinStays, ServedStays
<1>3. LoadInv /\ PinInv /\ ServedInv => EntriesServed
  <2> SUFFICES ASSUME LoadInv, PinInv, ServedInv, driver \notin Exposed,
                      NEW u \in Code.uses, Callable(u[1])
               PROVE  u[2] \in held
    BY DEF EntriesServed
  <2>1. Tidy(driver) /\ UsersGoFirst(driver)  BY DEF LoadInv
  <2>2. /\ u[1] \in held
        /\ ~(u[1] \in DeviceFiles /\ phase = "exit")
    <3>1. CASE u[1] \in DeviceFiles
      <4>1. PinsItself  BY <2>1, <3>1 DEF UsersGoFirst, Code, PinsItself
      <4> QED  BY <4>1 DEF Callable, PinInv
    <3>2. CASE u[1] \notin DeviceFiles  BY <3>2 DEF Callable, PinInv
    <3> QED  BY <3>1, <3>2
  <2>3. CASE phase \in {"init", "live"}
    <3>1. PICK n \in 0..Len(Code.init) : HoldsAfter(n)  BY <2>1, <2>3, LoadingIs
    <3> QED  BY <2>1, <2>2, <3>1, ServedWhileLoading
  <2>4. CASE GivingBack  BY <2>2, <2>4 DEF ServedInv
  <2>5. CASE phase = "out"  BY <2>2, <2>5 DEF LoadInv
  <2> QED  BY <2>3, <2>4, <2>5 DEF LoadInv, GivingBack
<1> QED  BY <1>1, <1>2, <1>3, PTL DEF Spec

\* Nothing has been given back while init runs and after it.
FreshInv == phase \in {"init", "live"} => given = {}

\* A way out begins.
LEMMA WayOutOwned ==
  ASSUME GivesOnlyItsOwn(driver), NEW w \in Ways(driver), HoldsAfter(w.after),
         w.exit \/ driver \notin FreesUnclaimed
  PROVE  \A k \in 1..Len(w.list) : RightTurn(w.list, k, held)
BY DEF GivesOnlyItsOwn, HoldsAfter, RightTurn

\* What has its turn is there when all behind it have theirs.
LEMMA TurnIsRight ==
  ASSUME GiveBack, todo \in Seq(STRING),
         \A k \in 1..Len(todo) : todo[k] \notin given /\ RightTurn(todo, k, held)
  PROVE  /\ misuse' = misuse
         /\ \A k \in 1..Len(todo') : todo'[k] \notin given' /\ RightTurn(todo', k, held')
<1>1. /\ todo # <<>> /\ todo' = Tail(todo) /\ Step = todo[1]
      /\ Len(todo') \in Nat /\ Len(todo) = Len(todo') + 1
      /\ \A k \in 1..Len(todo') : todo'[k] = todo[k + 1]
  BY DEF GiveBack, Step
<1>2. misuse' = misuse
  <2>1. 1 \in 1..Len(todo)  BY <1>1
  <2>2. Step \notin given /\ RightTurn(todo, 1, held)  BY <1>1, <2>1
  <2>3. ~Wrong(Step)  BY <1>1, <2>2 DEF Wrong, RightTurn
  <2> QED  BY <2>3 DEF GiveBack
<1>3. ASSUME NEW k \in 1..Len(todo')
      PROVE  todo'[k] \notin given' /\ RightTurn(todo', k, held')
  <2> DEFINE r == todo'[k]
  <2>1. /\ k + 1 \in 1..Len(todo) /\ (k + 1) - 1 = k /\ k - 1 \in 0..Len(todo') /\ (k - 1) + 1 = k
        /\ r = todo[k + 1] /\ 1 \in 1..k /\ 1..1 \subseteq 1..k
    BY <1>1
  <2>2. r \notin given /\ RightTurn(todo, k + 1, held)  BY <2>1
  <2>3. \A j \in 1..k : todo[j] # r  BY <2>1, <2>2 DEF RightTurn
  <2>4. r \notin given'  BY <1>1, <2>1, <2>2, <2>3 DEF GiveBack
  <2>5. \A j \in 1..k - 1 : todo'[j] # r
    <3> TAKE j \in 1..k - 1
    <3>1. j \in 1..Len(todo') /\ j + 1 \in 1..k  BY <1>1
    <3> QED  BY <1>1, <2>3, <3>1
  <2>6. ASSUME NEW x, x \in held, ~Clears(todo, k, x)
        PROVE  x \in held' /\ ~Clears(todo', k - 1, x)
    <3>1. ~Clears(todo, 1, x)  BY <2>1, <2>6 DEF Clears
    <3>2. x \in held'  BY <2>6, <3>1, GiveBackIs
    <3>3. Clears(todo, (k - 1) + 1, x) <=> Clears(todo', k - 1, x)
      BY <2>1, <3>2, GiveBackIs
    <3> QED  BY <2>1, <2>6, <3>2, <3>3
  <2>7. r \notin ToleratesAbsence => r \in held' /\ ~Clears(todo', k - 1, r)
    BY <2>1, <2>2, <2>6 DEF RightTurn
  <2>8. r = "device" => "class" \in held' /\ ~Clears(todo', k - 1, "class")
    BY <2>1, <2>2, <2>6 DEF RightTurn
  <2> QED  BY <2>4, <2>5, <2>7, <2>8 DEF RightTurn
<1> QED  BY <1>2, <1>3

\* Every step keeps it, and gives back nothing the module has not.
LEMMA OwnedStays ==
  ASSUME LoadInv, FreshInv, OwnedInv, [Next]_vars,
         \A d \in Drivers : Tidy(d) /\ (d \notin DestroysClassTwice => GivesOnlyItsOwn(d))
  PROVE  FreshInv' /\ OwnedInv' /\ (Careful => misuse' = misuse)
<1>0. Tidy(driver) /\ (driver \notin DestroysClassTwice => GivesOnlyItsOwn(driver))
  BY DEF LoadInv
<1>1. CASE UNCHANGED vars \/ Opens \/ Closes
  BY <1>1 DEF vars, Opens, Closes, FreshInv, OwnedInv, GivingBack, Careful
<1>2. CASE Insmod \/ StepSucceeds \/ InitReturns
  BY <1>2 DEF Insmod, StepSucceeds, InitReturns, FreshInv, OwnedInv, GivingBack
<1>3. CASE FailureIgnored
  <2>1. driver \in MayFail /\ phase = "init" /\ todo # <<>>
    BY <1>0, <1>3, FailureIgnoredKeeps DEF FailureIgnored, Fails
  <2>2. Step = Code.init[Done + 1] /\ Done + 1 \in 1..Len(Code.init)  BY <1>0, <2>1, NextStep
  <2>3. Careful => Step.fail # "dereferenced"
    BY <1>0, <2>1, <2>2 DEF GivesOnlyItsOwn, Careful, Code
  <2> QED  BY <1>3, <2>1, <2>3 DEF FailureIgnored, FreshInv, OwnedInv, GivingBack
<1>4. CASE StepFails
  <2>1. PICK w \in Ways(driver) : todo' = w.list /\ ~w.exit /\ HoldsAfter(w.after)
    BY <1>0, <1>4, StepFailsIs
  <2>2. phase = "init" /\ phase' = "unwind" /\ given' = {} /\ held' = held /\ driver' = driver
        /\ misuse' = misuse
    BY <1>4 DEF StepFails, Fails, FreshInv
  <2>3. Careful' => driver \notin DestroysClassTwice /\ driver \notin FreesUnclaimed
    BY <2>2 DEF Careful
  <2> QED  BY <1>0, <2>1, <2>2, <2>3, WayOutOwned DEF FreshInv, OwnedInv
<1>5. CASE Rmmod
  <2>1. PICK w \in Ways(driver) : todo' = w.list /\ w.exit /\ HoldsAfter(w.after)
    BY <1>5, RmmodIs
  <2>2. phase = "live" /\ phase' = "exit" /\ given' = {} /\ held' = held /\ driver' = driver
        /\ misuse' = misuse
    BY <1>5 DEF Rmmod, FreshInv
  <2> QED  BY <1>0, <2>1, <2>2, WayOutOwned DEF FreshInv, OwnedInv, Careful
<1>6. CASE GiveBack
  <2>1. /\ GivingBack /\ phase' = phase /\ driver' = driver /\ Careful' = Careful
        /\ todo \in Seq(STRING)
    BY <1>6 DEF GiveBack, GivingBack, LoadInv, Careful
  <2>2. FreshInv'  BY <2>1 DEF GivingBack, FreshInv
  <2>3. CASE Careful
    <3>1. \A k \in 1..Len(todo) : todo[k] \notin given /\ RightTurn(todo, k, held)
      BY <2>1, <2>3 DEF OwnedInv
    <3> QED  BY <1>6, <2>1, <2>2, <3>1, TurnIsRight DEF OwnedInv
  <2>4. CASE ~Careful  BY <2>1, <2>2, <2>4 DEF OwnedInv
  <2> QED  BY <2>3, <2>4
<1>7. CASE Gone  BY <1>7 DEF Gone, FreshInv, OwnedInv, GivingBack
<1> QED  BY <1>1, <1>2, <1>3, <1>4, <1>5, <1>6, <1>7 DEF Next

\* Neither module_exit nor a label gives back what the module does not have, or gave back
\* before, or a device without its class, if they name only what was taken for certain, and
\* once (which 10-13 of Johannes4Linux_driver_tutorial do not).
THEOREM GivesOnlyOwned ==
  (\A d \in Drivers : Tidy(d) /\ (d \notin DestroysClassTwice => GivesOnlyItsOwn(d))) =>
    (Spec => OnlyOwned)
<1> SUFFICES ASSUME \A d \in Drivers :
                      Tidy(d) /\ (d \notin DestroysClassTwice => GivesOnlyItsOwn(d))
             PROVE  Spec => OnlyOwned
  OBVIOUS
<1>1. Init => LoadInv /\ FreshInv /\ OwnedInv
  BY LoadStarts DEF Init, FreshInv, OwnedInv, GivingBack
<1>2. LoadInv /\ FreshInv /\ OwnedInv /\ [Next]_vars => LoadInv' /\ FreshInv' /\ OwnedInv'
  BY LoadStays, OwnedStays
<1>3. LoadInv /\ FreshInv /\ OwnedInv /\ [Next]_vars => [Careful => misuse' = misuse]_vars
  BY OwnedStays
<1> QED  BY <1>1, <1>2, <1>3, PTL DEF Spec, OnlyOwned
=============================================================================
