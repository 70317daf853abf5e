---------------------------- MODULE NmbmMtdProofs ----------------------------
(***************************************************************************)
(* For any set of tasks, the device lock of nmbm-mtd.c excludes, loses no  *)
(* wake-up, stays taken after a shutdown, and serialises the core.         *)
(***************************************************************************)
EXTENDS NmbmMtd, TLAPS

USE SMTT(60), ZenonT(60)

(* A task inside the core took the device for work it will give back.      *)
HoldsForWork == \A c \in Inside : want[c] \in Working

IInv == TypeOK /\ Exclusive /\ NoLostWakeup /\ HoldsForWork

(* The lock starts free, with every task outside.                          *)
LEMMA InitInv == Init => IInv
  BY CallsAssumption
  DEF Init, IInv, TypeOK, Exclusive, NoLostWakeup, HoldsForWork, Inside, States, Working

(* Calling nmbm_get_device disturbs nothing: the task is outside the core. *)
LEMMA CallInv ==
  ASSUME IInv, NEW c \in Callers, NEW s \in States \ {"FL_READY"}, Call(c, s)
  PROVE  IInv'
  <1> USE DEF IInv, Call, Goto
  <1>1. TypeOK'
    BY CallsAssumption DEF TypeOK
  <1>2. Inside' = Inside /\ c \notin Inside
    BY DEF TypeOK, Inside
  <1>3. \A d \in Inside : want'[d] = want[d]
    BY <1>2 DEF TypeOK, Inside
  <1>4. Exclusive' /\ HoldsForWork'
    BY <1>2, <1>3 DEF Exclusive, HoldsForWork
  <1>5. NoLostWakeup'
    BY DEF NoLostWakeup, TypeOK
  <1> QED  BY <1>1, <1>4, <1>5

(* Taking a free device: nobody was inside, so the taker is alone.         *)
LEMMA TakeInv ==
  ASSUME IInv, NEW c \in Callers, Take(c)
  PROVE  IInv'
  <1> USE DEF IInv, Take, Goto
  <1>1. TypeOK'
    BY DEF TypeOK, States, Working
  <1>2. Inside = {}
    BY DEF Exclusive, HoldsForWork, Inside, Working
  <1>3. Inside' = IF want[c] \in Working THEN {c} ELSE {}
    BY <1>2 DEF TypeOK, Inside
  <1>4. Exclusive' /\ HoldsForWork'
    BY <1>3 DEF Exclusive, HoldsForWork, TypeOK
  <1>5. asleep = {}
    BY DEF NoLostWakeup
  <1>6. NoLostWakeup'
    BY <1>5 DEF NoLostWakeup
  <1> QED  BY <1>1, <1>4, <1>6

(* Waiting: the device is taken, so there is a holder to wake the sleeper. *)
LEMMA WaitInv ==
  ASSUME IInv, NEW c \in Callers, Wait(c)
  PROVE  IInv'
  <1> USE DEF IInv, Wait, Goto
  <1>1. TypeOK'
    BY DEF TypeOK
  <1>2. Inside' = Inside
    BY DEF TypeOK, Inside
  <1>3. Exclusive' /\ HoldsForWork'
    BY <1>2 DEF Exclusive, HoldsForWork
  <1>4. NoLostWakeup'
    BY DEF NoLostWakeup, TypeOK
  <1> QED  BY <1>1, <1>3, <1>4

(* Trying again, or finding the device already suspended, moves no holder. *)
LEMMA ResumeInv ==
  ASSUME IInv, NEW c \in Callers, Resume(c) \/ AlreadySuspended(c)
  PROVE  IInv'
  <1> USE DEF IInv, Resume, AlreadySuspended, Goto
  <1>1. TypeOK'
    BY DEF TypeOK
  <1>2. Inside' = Inside
    BY DEF TypeOK, Inside
  <1>3. Exclusive' /\ HoldsForWork'
    BY <1>2 DEF Exclusive, HoldsForWork
  <1>4. c \notin asleep
    BY DEF NoLostWakeup
  <1>5. NoLostWakeup'
    BY <1>4 DEF NoLostWakeup, TypeOK
  <1> QED  BY <1>1, <1>3, <1>5

(* Giving the device back wakes every sleeper: all of them are queued.     *)
LEMMA ReleaseInv ==
  ASSUME IInv, NEW c \in Callers, Release(c)
  PROVE  IInv'
  <1> USE DEF IInv, Release, Goto
  <1>1. TypeOK'
    BY DEF TypeOK, States
  <1>2. Inside' = {}
    BY DEF TypeOK, Inside, Exclusive
  <1>3. Exclusive' /\ HoldsForWork'
    BY <1>2 DEF Exclusive, HoldsForWork, Working
  <1>4. NoLostWakeup'
    BY DEF NoLostWakeup
  <1> QED  BY <1>1, <1>3, <1>4

(* Every step of the lock preserves the invariant.                         *)
LEMMA NextInv == IInv /\ [Next]_vars => IInv'
  <1> SUFFICES ASSUME IInv, [Next]_vars PROVE IInv'
    OBVIOUS
  <1>1. CASE UNCHANGED vars
    BY <1>1 DEF vars, IInv, TypeOK, Exclusive, NoLostWakeup, HoldsForWork, Inside
  <1>2. CASE Next
    <2>1. PICK c \in Callers :
              (\E s \in States \ {"FL_READY"} : Call(c, s)) \/ Step(c)
      BY <1>2 DEF Next
    <2>2. CASE \E s \in States \ {"FL_READY"} : Call(c, s)
      BY <2>2, CallInv
    <2>3. CASE Step(c)
      BY <2>3, TakeInv, WaitInv, ResumeInv, ReleaseInv DEF Step
    <2> QED  BY <2>1, <2>2, <2>3
  <1> QED  BY <1>1, <1>2

(* Mutual exclusion and no lost wake-up, with the types and the reason a   *)
(* holder always gives the device back.                                    *)
THEOREM LockInvariant == Spec => []IInv
  BY InitInv, NextInv, PTL DEF Spec

(* At most one task is inside the core, for any number of tasks.           *)
THEOREM MutualExclusion == Spec => []Exclusive
  BY LockInvariant, PTL DEF IInv

(* No task sleeps on a free device, for any number of tasks.               *)
THEOREM WakeupsKept == Spec => []NoLostWakeup
  BY LockInvariant, PTL DEF IInv

(* A device suspended by the reboot hook stays suspended and unused.       *)
THEOREM ShutdownHolds == Spec => ShutdownIsFinal
  <1> DEFINE Final == state = "FL_PM_SUSPENDED" =>
                          state' = "FL_PM_SUSPENDED" /\ Inside' = {}
  <1>1. ASSUME IInv, IInv', [Next]_vars, state = "FL_PM_SUSPENDED"
        PROVE  state' = "FL_PM_SUSPENDED" /\ Inside' = {}
    <2>1. Inside = {}
      BY <1>1 DEF IInv, Exclusive, HoldsForWork, Working
    <2>2. state' = "FL_PM_SUSPENDED"
      BY <1>1, <2>1
      DEF Next, Step, Call, Take, AlreadySuspended, Wait, Resume, Release, Inside, vars
    <2> QED  BY <1>1, <2>2 DEF IInv, Exclusive, HoldsForWork, Working
  <1>2. IInv /\ IInv' /\ [Next]_vars => [Final]_vars
    BY <1>1
  <1> QED  BY LockInvariant, <1>2, PTL DEF Spec, ShutdownIsFinal

(* Who is inside, as module NmbmSerial sees it.                            *)
LEMMA HolderIs ==
  ASSUME Exclusive
  PROVE  /\ Inside = {} => Holder = None
         /\ \A c \in Inside : Holder = c
  BY DEF Holder, Exclusive

(* Likewise after a step.                                                  *)
LEMMA HolderNext ==
  ASSUME Exclusive'
  PROVE  /\ Inside' = {} => Holder' = None
         /\ \A c \in Inside' : Holder' = c
  BY DEF Holder, Exclusive

(* The lock implements module NmbmSerial: taking the device for work is    *)
(* entering the core, releasing it is leaving, the reboot hook's taking is *)
(* switching off, and everything else is invisible to the core.            *)
THEOREM Serialisation == Spec => Serialises
  <1>1. Init => Serial!Init
    BY DEF Init, Serial!Init, Holder, Inside
  <1>2. ASSUME IInv, IInv', [Next]_vars
        PROVE  [Serial!Next]_(Serial!vars)
    <2> DEFINE off == state = "FL_PM_SUSPENDED"
    <2>1. CASE Inside' = Inside /\ state' = state
      BY <2>1 DEF Serial!vars, Holder
    <2>2. ASSUME NEW c \in Callers, (\E s \in States : Call(c, s))
                   \/ AlreadySuspended(c) \/ Wait(c) \/ Resume(c)
          PROVE  Inside' = Inside /\ state' = state
      BY <1>2, <2>2
      DEF IInv, TypeOK, Inside, Call, AlreadySuspended, Wait, Resume, Goto
    <2>3. ASSUME NEW c \in Callers, Take(c)
          PROVE  Serial!Next
      <3>1. Inside = {} /\ ~off
        BY <1>2, <2>3 DEF IInv, Exclusive, HoldsForWork, Inside, Working, Take
      <3>2. CASE want[c] \in Working
        <4>1. c \in Inside' /\ ~off'
          BY <2>3, <3>2, <1>2 DEF Take, Goto, IInv, TypeOK, Inside, Working
        <4>2. Serial!Enter(c)
          BY <4>1, <3>1, <1>2, HolderIs, HolderNext DEF Serial!Enter, IInv
        <4> QED  BY <4>2 DEF Serial!Next
      <3>3. CASE want[c] \notin Working
        <4>1. off' /\ Inside' = {}
          BY <2>3, <3>1, <3>3, <1>2 DEF Take, Goto, IInv, TypeOK, Inside, States
        <4>2. Serial!SwitchOff
          BY <4>1, <3>1, <1>2, HolderIs, HolderNext DEF Serial!SwitchOff, IInv
        <4> QED  BY <4>2 DEF Serial!Next
      <3> QED  BY <3>2, <3>3
    <2>4. ASSUME NEW c \in Callers, Release(c)
          PROVE  Serial!Next
      <3>1. c \in Inside /\ Inside' = {}
        BY <1>2, <2>4 DEF Release, Goto, IInv, TypeOK, Inside, Exclusive
      <3>2. ~off /\ ~off'
        BY <1>2, <2>4, <3>1 DEF Release, IInv, Exclusive, HoldsForWork, Working
      <3>3. Serial!Leave
        BY <3>1, <3>2, <1>2, HolderIs, HolderNext, NoneAssumption
          DEF Serial!Leave, IInv, Inside
      <3> QED  BY <3>3 DEF Serial!Next
    <2>5. CASE UNCHANGED vars
      BY <2>5, <2>1 DEF vars, Inside
    <2>6. CASE Next
      <3>1. PICK c \in Callers :
                (\E s \in States \ {"FL_READY"} : Call(c, s)) \/ Step(c)
        BY <2>6 DEF Next
      <3> QED  BY <3>1, <2>1, <2>2, <2>3, <2>4 DEF Step
    <2> QED  BY <1>2, <2>5, <2>6
  <1> QED  BY <1>1, <1>2, LockInvariant, PTL DEF Spec, Serialises, Serial!Spec
=============================================================================
