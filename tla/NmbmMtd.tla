------------------------------- MODULE NmbmMtd -------------------------------
(***************************************************************************)
(* The device lock of the MTD glue (nmbm-mtd.c).  Every MTD operation of   *)
(* the upper device takes the device with nmbm_get_device, calls the core  *)
(* and gives the device back with nmbm_release_device.  The lock is hand   *)
(* made: a state word under a spin lock and a wait queue whose waiters put *)
(* themselves to sleep and try again when woken.  The reboot hook takes    *)
(* the device as FL_PM_SUSPENDED and keeps it.                             *)
(*                                                                         *)
(* One action stands for one section under nm->lock, or for one step       *)
(* between two of them.                                                    *)
(***************************************************************************)
EXTENDS Naturals, FiniteSets

CONSTANTS Callers,     \* the tasks that use the upper MTD device
          None,        \* no caller
          MaxCalls     \* bound: MTD calls each task makes

ASSUME NoneAssumption == None \notin Callers
ASSUME CallsAssumption == MaxCalls \in Nat

VARIABLES state,       \* nm->state
          wq,          \* tasks on nm->wq
          asleep,      \* tasks in TASK_UNINTERRUPTIBLE
          pc,          \* where each task is
          want,        \* new_state of the call each task is making
          calls        \* calls made

vars == <<state, wq, asleep, pc, want, calls>>

(* Ways of holding the device that are given back.  An erase takes it as   *)
(* FL_ERASING, a read or block_isbad as FL_READING, a write or             *)
(* block_markbad as FL_WRITING.                                            *)
Working == {"FL_READING", "FL_WRITING", "FL_ERASING"}
States  == {"FL_READY", "FL_PM_SUSPENDED"} \union Working

TypeOK ==
    /\ state \in States
    /\ wq \in SUBSET Callers
    /\ asleep \in SUBSET Callers
    /\ pc \in [Callers -> {"out", "retry", "queued", "core"}]
    /\ want \in [Callers -> States \ {"FL_READY"}]
    /\ calls \in [Callers -> 0..MaxCalls]

Init ==
    /\ state = "FL_READY"
    /\ wq = {}
    /\ asleep = {}
    /\ pc = [c \in Callers |-> "out"]
    /\ want = [c \in Callers |-> "FL_READING"]
    /\ calls = [c \in Callers |-> 0]

Goto(c, l) == pc' = [pc EXCEPT ![c] = l]

(* An MTD operation, or the reboot hook, calls nmbm_get_device.            *)
Call(c, s) ==
    /\ pc[c] = "out"
    /\ calls[c] < MaxCalls
    /\ calls' = [calls EXCEPT ![c] = @ + 1]
    /\ want' = [want EXCEPT ![c] = s]
    /\ Goto(c, "retry")
    /\ UNCHANGED <<state, wq, asleep>>

(* Mutant: only a suspended device is held to be taken.                    *)
BusyTake(c) ==
    /\ pc[c] = "retry"
    /\ state # "FL_PM_SUSPENDED"
    /\ state' = want[c]
    /\ Goto(c, IF want[c] \in Working THEN "core" ELSE "out")
    /\ UNCHANGED <<wq, asleep, want, calls>>

(* Mutant: the reboot hook gives the device back like everyone else.       *)
ReturningTake(c) ==
    /\ pc[c] = "retry"
    /\ state = "FL_READY"
    /\ state' = want[c]
    /\ Goto(c, "core")
    /\ UNCHANGED <<wq, asleep, want, calls>>

(* The device is free.  A working caller goes on into the core; the reboot *)
(* hook returns at once and leaves the device taken.                       *)
Take(c) ==
    /\ pc[c] = "retry"
    /\ state = "FL_READY"
    /\ state' = want[c]
    /\ Goto(c, IF want[c] \in Working THEN "core" ELSE "out")
    /\ UNCHANGED <<wq, asleep, want, calls>>

(* A second shutdown finds the device suspended and is content.            *)
AlreadySuspended(c) ==
    /\ pc[c] = "retry"
    /\ state = "FL_PM_SUSPENDED"
    /\ want[c] = "FL_PM_SUSPENDED"
    /\ Goto(c, "out")
    /\ UNCHANGED <<state, wq, asleep, want, calls>>

(* Mutant: the state is looked at before nm->lock is taken.                *)
StaleWait(c) ==
    /\ pc[c] = "retry"
    /\ asleep' = asleep \union {c}
    /\ wq' = wq \union {c}
    /\ Goto(c, "queued")
    /\ UNCHANGED <<state, want, calls>>

(* The device is taken: mark the task asleep, join the queue, unlock.      *)
Wait(c) ==
    /\ pc[c] = "retry"
    /\ state # "FL_READY"
    /\ ~(want[c] = "FL_PM_SUSPENDED" /\ state = "FL_PM_SUSPENDED")
    /\ asleep' = asleep \union {c}
    /\ wq' = wq \union {c}
    /\ Goto(c, "queued")
    /\ UNCHANGED <<state, want, calls>>

(* schedule() returns, at once if the wake-up came before it, and the task *)
(* leaves the queue and tries again.                                       *)
Resume(c) ==
    /\ pc[c] = "queued"
    /\ c \notin asleep
    /\ wq' = wq \ {c}
    /\ Goto(c, "retry")
    /\ UNCHANGED <<state, asleep, want, calls>>

(* Mutant: the device is freed and nobody is woken.                        *)
SilentRelease(c) ==
    /\ pc[c] = "core"
    /\ state' = "FL_READY"
    /\ Goto(c, "out")
    /\ UNCHANGED <<wq, asleep, want, calls>>

(* The core call has returned: nmbm_release_device frees the device and    *)
(* wakes every task on the queue (none of them is an exclusive waiter).    *)
Release(c) ==
    /\ pc[c] = "core"
    /\ state' = "FL_READY"
    /\ asleep' = asleep \ wq
    /\ Goto(c, "out")
    /\ UNCHANGED <<wq, want, calls>>

Step(c) == Take(c) \/ AlreadySuspended(c) \/ Wait(c) \/ Resume(c) \/ Release(c)

Next == \E c \in Callers :
            \/ \E s \in States \ {"FL_READY"} : Call(c, s)
            \/ Step(c)

Spec == Init /\ [][Next]_vars

(* A task that can run is eventually run, and a core call returns.         *)
FairSpec == Spec /\ \A c \in Callers : WF_vars(Step(c))
-----------------------------------------------------------------------------
Inside == {c \in Callers : pc[c] = "core"}

(* Mutual exclusion and its converse: a task is inside the core exactly    *)
(* when nm->state says so, as the kind of work it asked for, and it is the *)
(* only one.  The core and the page cache have no lock but this one.       *)
Exclusive ==
    /\ \A c, d \in Inside : c = d
    /\ \A c \in Inside : state = want[c]
    /\ state \in Working => Inside # {}

(* No wake-up is lost: a task that marked itself asleep still has somebody *)
(* holding the device, who will find it on the queue on giving it back.  A *)
(* task asleep on a free device would sleep for ever.                      *)
NoLostWakeup ==
    \A c \in asleep : c \in wq /\ pc[c] = "queued" /\ state # "FL_READY"

(* Once the reboot hook has the device nobody gets it back: no operation   *)
(* runs on the flash under a kernel that is going down.                    *)
ShutdownIsFinal ==
    [][state = "FL_PM_SUSPENDED" => state' = "FL_PM_SUSPENDED" /\ Inside' = {}]_vars

(* The glue serialises the core as module NmbmSerial demands.              *)
Holder == IF Inside = {} THEN None ELSE CHOOSE c \in Inside : TRUE
Serial == INSTANCE NmbmSerial WITH
    inside <- Holder, off <- state = "FL_PM_SUSPENDED"
Serialises == Serial!Spec

(* Every call gets the device, unless the system is shut down meanwhile.   *)
CallsReturn ==
    \A c \in Callers : pc[c] = "retry" ~> (pc[c] = "out" \/ state = "FL_PM_SUSPENDED")

(* The reboot hook does not hang: it outlasts the work it finds going on   *)
(* and returns.                                                            *)
ShutdownReturns ==
    \A c \in Callers :
        (pc[c] = "retry" /\ want[c] = "FL_PM_SUSPENDED") ~> pc[c] = "out"
=============================================================================
