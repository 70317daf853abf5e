--------------------------- MODULE ConninfraProofs ----------------------------
(***************************************************************************)
(* For any number of threads that use the API and any number of calls:     *)
(* there is one reset at a time; every pre callback is told the radio that *)
(* triggered it; no callback is late or counted twice; a reset restores    *)
(* the power it cut; and the chip is on with the radios.                   *)
(***************************************************************************)
EXTENDS ConninfraCore, TLAPS

USE ZenonT(60)

(* What joins and leaves a queue. *)
LEMMA AppendFacts ==
  ASSUME NEW S, NEW q \in Seq(S), NEW e \in S
  PROVE  /\ Append(q, e) \in Seq(S) /\ Append(q, e) # <<>>
         /\ Len(q) \in Nat /\ Len(Append(q, e)) = Len(q) + 1
         /\ Append(q, e)[Len(q) + 1] = e
         /\ \A k \in 1..Len(q) : Append(q, e)[k] = q[k] /\ q[k] \in S
  BY SMTT(30)

LEMMA TailFacts ==
  ASSUME NEW S, NEW q \in Seq(S), q # <<>>
  PROVE  /\ Tail(q) \in Seq(S) /\ Len(q) \in Nat \ {0} /\ Len(Tail(q)) = Len(q) - 1
         /\ Head(q) = q[1] /\ \A k \in 1..Len(q) : q[k] \in S
         /\ \A k \in 1..Len(Tail(q)) : Tail(q)[k] = q[k + 1]
  BY SMTT(30)

Request == [op : {"on", "off"}, type : Types \union {None}, by : Users]

(* The types the argument needs.                                           *)
Shape ==
    /\ cbq \in Nat
    /\ user \in [Users -> [pc : {"idle", "on", "off", "wait", "set", "trg"},
                           type : Types \union {None}]]
    /\ msgq \in Seq(Request)
    /\ cb \in [pc : {"idle", "pre", "wait", "force", "on", "waitpost", "end"},
               todo : SUBSET Types, drv_pwr_state : SUBSET Types]

(* A queued request is that of a caller who waits for it, and a caller has *)
(* one request: serving it never disturbs a caller that triggers a reset.  *)
Queued ==
    /\ cored.busy => msgq # <<>>
    /\ \A k \in 1..Len(msgq) : user[msgq[k].by].pc = "wait"
    /\ \A k, l \in 1..Len(msgq) : msgq[k].by = msgq[l].by => k = l

(* The callers that conninfra_core_lock_rst has granted the reset to.      *)
Granted == {u \in Users : user[u].pc \in {"set", "trg"}}

(* A grant is handed on, from the caller to the queue of conninfra_cb and  *)
(* from there to its handler, or is lost when it could not be sent:        *)
(* OneReset.                                                               *)
Handed ==
    /\ \A u, v \in Granted : u = v
    /\ Granted # {} => rst_status # "NONE" /\ cbq = 0 /\ cb.pc = "idle"
    /\ cbq # 0 => rst_status # "NONE" /\ cbq = 1 /\ cb.pc = "idle"
    /\ cb.pc # "idle" => rst_status # "NONE"
    /\ rst_status # "NONE" => Granted # {} \/ cbq # 0 \/ cb.pc # "idle" \/ unsent
    /\ unsent => rst_status # "NONE" /\ Granted = {} /\ cbq = 0 /\ cb.pc = "idle"

(* The radio the reset was granted to is in trg_drv from before the        *)
(* request is sent until after the post callbacks.                         *)
Named ==
    /\ \A u \in Granted : user[u].type = owner
    /\ \A u \in Granted : user[u].pc = "trg" => trg_drv = owner
    /\ cbq # 0 => trg_drv = owner
    /\ cb.pc \notin {"idle", "end"} => trg_drv = owner
    /\ cb.pc \in {"pre", "wait", "force"} => told \subseteq {owner}

RInv == Shape /\ Queued /\ Handed /\ Named

(* Nothing is queued and no reset is on the way at first.                  *)
LEMMA InitRInv == Init => RInv
  BY SMTT(30) DEF Init, RInv, Shape, Queued, Handed, Named, Granted, Idle

(* Asking for power moves a caller that is neither waiting nor granted.    *)
LEMMA AskInv ==
  ASSUME RInv, NEW u \in Users, NEW d \in Types, NEW op \in {"on", "off"}, AskPower(u, op, d)
  PROVE  RInv'
  <1> USE DEF RInv, AskPower, Goes, reset, power, phase
  <1>1. Shape'
    BY DEF Shape
  <1>2. Granted' = Granted /\ \A v \in Granted : user'[v] = user[v]
    BY DEF Shape, Granted
  <1>3. Queued'
    BY SMTT(30) DEF Shape, Queued
  <1>4. Handed' /\ Named'
    BY <1>2 DEF Handed, Named
  <1> QED  BY <1>1, <1>3, <1>4

(* Sending a request: the caller had none in the queue.                    *)
LEMMA SendInv ==
  ASSUME RInv, NEW u \in Users, SendPower(u)
  PROVE  RInv'
  <1> USE DEF RInv, SendPower, Goes, reset, power, phase
  <1> DEFINE m == [op |-> user[u].pc, type |-> user[u].type, by |-> u]
  <1>1. m \in Request /\ m.by = u
    BY DEF Shape, Request
  <1>2. msgq' = Append(msgq, m)
    OBVIOUS
  <1> HIDE DEF m
  <1>0. /\ msgq' \in Seq(Request) /\ msgq' # <<>>
        /\ Len(msgq) \in Nat /\ Len(msgq') = Len(msgq) + 1
        /\ msgq'[Len(msgq) + 1] = m
        /\ \A k \in 1..Len(msgq) : msgq'[k] = msgq[k] /\ msgq[k] \in Request
    BY SMTT(30), <1>1, <1>2, AppendFacts DEF Shape
  <1>3. Shape'
    BY <1>0 DEF Shape
  <1>4. Granted' = Granted /\ \A v \in Granted : user'[v] = user[v]
    BY DEF Shape, Granted
  <1>5. Handed' /\ Named'
    BY <1>4 DEF Handed, Named
  <1>6. \A k \in 1..Len(msgq) : msgq[k].by \in Users
    BY <1>0 DEF Request
  <1>7. \A k \in 1..Len(msgq) : msgq[k].by # u
    BY DEF Queued
  <1>8. Queued'
    <2>1. cored'.busy => msgq' # <<>>
      BY <1>0
    <2>2. ASSUME NEW k \in 1..Len(msgq') PROVE user'[msgq'[k].by].pc = "wait"
      <3>1. CASE k \in 1..Len(msgq)
        BY <3>1, <1>0, <1>6, <1>7 DEF Shape, Queued
      <3>2. CASE k = Len(msgq) + 1
        BY <3>2, <1>1, <1>0 DEF Shape
      <3> QED  BY SMTT(30), <3>1, <3>2, <1>0
    <2>3. ASSUME NEW k \in 1..Len(msgq'), NEW l \in 1..Len(msgq'), msgq'[k].by = msgq'[l].by
          PROVE  k = l
      BY SMTT(30), <2>3, <1>0, <1>1, <1>7 DEF Queued
    <2> QED  BY <2>1, <2>2, <2>3 DEF Queued
  <1> QED  BY <1>3, <1>5, <1>8

(* Granting a reset: none was on the way.                                  *)
LEMMA LockInv ==
  ASSUME RInv, NEW u \in Users, NEW d \in Types, LockRst(u, d)
  PROVE  RInv'
  <1> USE DEF RInv, LockRst, Goes, reset, power, phase
  <1>1. Shape'
    BY DEF Shape
  <1>2. Granted = {} /\ cbq = 0 /\ cb.pc = "idle" /\ ~unsent
    BY DEF Handed
  <1>3. Granted' = {u} /\ user'[u] = [pc |-> "set", type |-> d]
    BY <1>2 DEF Shape, Granted
  <1>4. Queued'
    BY SMTT(30) DEF Shape, Queued
  <1>5. Handed' /\ Named'
    BY SMTT(30), <1>2, <1>3 DEF Handed, Named
  <1> QED  BY <1>1, <1>4, <1>5

(* Saying who: only the granted caller writes trg_drv.                     *)
LEMMA SetInv ==
  ASSUME RInv, NEW u \in Users, SetTrg(u)
  PROVE  RInv'
  <1> USE DEF RInv, SetTrg, Goes, reset, power, phase
  <1>1. Shape'
    BY DEF Shape
  <1>2. Granted = {u} /\ user[u].type = owner /\ ~unsent
    BY SMTT(30) DEF Shape, Granted, Handed, Named
  <1>3. Granted' = {u} /\ user'[u] = [pc |-> "trg", type |-> owner]
    BY <1>2 DEF Shape, Granted
  <1>4. Queued'
    BY SMTT(30) DEF Shape, Queued
  <1>5. Handed' /\ Named'
    BY SMTT(30), <1>2, <1>3 DEF Handed, Named
  <1> QED  BY <1>1, <1>4, <1>5

(* Sending the reset hands the grant to the queue.                         *)
LEMMA SendRstInv ==
  ASSUME RInv, NEW u \in Users, SendRst(u)
  PROVE  RInv'
  <1> USE DEF RInv, SendRst, Goes, reset, power, phase
  <1>1. Shape'
    BY SMTT(30) DEF Shape
  <1>2. /\ Granted = {u} /\ trg_drv = owner /\ cbq = 0 /\ cb.pc = "idle"
        /\ rst_status # "NONE" /\ ~unsent
    BY SMTT(30) DEF Shape, Granted, Handed, Named
  <1>3. Granted' = {}
    BY <1>2 DEF Shape, Granted
  <1>4. Queued'
    BY SMTT(30) DEF Shape, Queued
  <1>5. Handed' /\ Named'
    BY SMTT(30), <1>2, <1>3 DEF Handed, Named
  <1> QED  BY <1>1, <1>4, <1>5

(* A power request that cannot be sent was not queued.                     *)
LEMMA SendFailsInv ==
  ASSUME RInv, NEW u \in Users, SendPowerFails(u)
  PROVE  RInv'
  <1> USE DEF RInv, SendPowerFails, Goes, reset, power, phase
  <1>1. Shape'
    BY DEF Shape
  <1>2. Granted' = Granted /\ \A v \in Granted : user'[v] = user[v]
    BY DEF Shape, Granted
  <1>3. Queued'
    BY SMTT(30) DEF Shape, Queued
  <1>4. Handed' /\ Named'
    BY <1>2 DEF Handed, Named
  <1> QED  BY <1>1, <1>3, <1>4

(* A reset that cannot be sent: the grant is gone, rst_status stays.       *)
LEMMA SendRstFailsInv ==
  ASSUME RInv, NEW u \in Users, SendRstFails(u)
  PROVE  RInv'
  <1> USE DEF RInv, SendRstFails, Goes, power, phase
  <1>1. Shape'
    BY SMTT(30) DEF Shape
  <1>2. Granted = {u} /\ cbq = 0 /\ cb.pc = "idle" /\ rst_status # "NONE"
    BY SMTT(30) DEF Shape, Granted, Handed, Named
  <1>3. Granted' = {}
    BY <1>2 DEF Shape, Granted
  <1>4. Queued'
    BY SMTT(30) DEF Shape, Queued
  <1>5. Handed' /\ Named'
    BY SMTT(30), <1>2, <1>3 DEF Handed, Named
  <1> QED  BY <1>1, <1>4, <1>5

(* Serving a request: its caller waits, so no granted caller is touched.   *)
LEMMA ServeInv ==
  ASSUME RInv, CoredServe
  PROVE  RInv'
  <1> DEFINE m == Head(msgq)
  <1>1. msgq # <<>> /\ msgq' = Tail(msgq) /\ cored'.busy = FALSE
    BY DEF CoredServe, RInv, Queued
  <1>2. user' = [user EXCEPT ![m.by] = [pc |-> "idle", type |-> None]]
    BY DEF CoredServe, Goes
  <1>3. UNCHANGED <<cbq, cb, rst_status, trg_drv, owner, unsent, told>>
    BY DEF CoredServe, reset, phase
  <1>0. /\ msgq' \in Seq(Request) /\ Len(msgq) \in Nat \ {0} /\ Len(msgq') = Len(msgq) - 1
        /\ m = msgq[1] /\ \A k \in 1..Len(msgq) : msgq[k] \in Request
        /\ \A k \in 1..Len(msgq') : msgq'[k] = msgq[k + 1]
    BY SMTT(30), <1>1, TailFacts DEF RInv, Shape
  <1>4. m.by \in Users /\ 1 \in 1..Len(msgq)
    BY SMTT(30), <1>0 DEF Request
  <1>5. user[m.by].pc = "wait"
    BY <1>0, <1>4 DEF RInv, Queued
  <1> HIDE DEF m
  <1>6. Shape'
    BY <1>0, <1>2, <1>3, <1>4 DEF RInv, Shape
  <1>7. Granted' = Granted /\ \A v \in Granted : user'[v] = user[v]
    BY <1>2, <1>4, <1>5 DEF RInv, Shape, Granted
  <1>8. Handed' /\ Named'
    BY <1>3, <1>7 DEF RInv, Handed, Named
  <1>9. Queued'
    <2>1. ASSUME NEW k \in 1..Len(msgq') PROVE user'[msgq'[k].by].pc = "wait"
      <3>1. k + 1 \in 1..Len(msgq) /\ 1 \in 1..Len(msgq) /\ k + 1 # 1 /\ msgq'[k] = msgq[k + 1]
        BY SMTT(30), <1>0
      <3>2. msgq[k + 1].by # m.by /\ user[msgq[k + 1].by].pc = "wait"
        BY <3>1, <1>0 DEF RInv, Queued
      <3>3. msgq[k + 1].by \in Users
        BY <3>1, <1>0 DEF Request
      <3> QED  BY <1>2, <3>1, <3>2, <3>3 DEF RInv, Shape
    <2>2. ASSUME NEW k \in 1..Len(msgq'), NEW l \in 1..Len(msgq'), msgq'[k].by = msgq'[l].by
          PROVE  k = l
      <3>1. k + 1 \in 1..Len(msgq) /\ l + 1 \in 1..Len(msgq)
        BY SMTT(30), <1>0
      <3>2. k + 1 = l + 1
        BY <2>2, <3>1, <1>0 DEF RInv, Queued
      <3> QED  BY SMTT(30), <3>2, <1>0
    <2> QED  BY <2>1, <2>2, <1>1 DEF Queued
  <1> QED  BY <1>6, <1>8, <1>9 DEF RInv

(* Starting the handler takes the grant from the queue.  With no power the *)
(* reset is over at once.                                                  *)
LEMMA StartInv ==
  ASSUME RInv, CbStart
  PROVE  RInv'
  <1> USE DEF RInv, CbStart, reset, power, phase
  <1>1. cbq = 1 /\ cbq' = 0 /\ Granted = {} /\ trg_drv = owner /\ ~unsent
    BY SMTT(30) DEF Shape, Handed, Named
  <1>2. Granted' = Granted
    BY DEF Granted
  <1>3. Shape'
    BY SMTT(30), <1>1 DEF Shape
  <1>4. Queued'
    BY DEF Queued
  <1>5. Handed'
    BY SMTT(30), <1>1, <1>2 DEF Handed, Shape
  <1>6. Named'
    BY <1>1, <1>2 DEF Named, Shape
  <1> QED  BY <1>3, <1>4, <1>5, <1>6

(* A callback is told trg_drv while the reset is in its pre phase.         *)
LEMMA SubInv ==
  ASSUME RInv, NEW d \in Types, SubReset(d)
  PROVE  RInv'
  <1>1. UNCHANGED <<user, msgq, cored, cbq, cb, rst_status, trg_drv, owner, unsent>>
    BY DEF SubReset, reset
  <1>2. told' \subseteq told \union {trg_drv}
    BY DEF SubReset
  <1>3. Granted' = Granted
    BY <1>1 DEF Granted
  <1>4. Shape' /\ Queued' /\ Handed'
    BY <1>1, <1>3 DEF RInv, Shape, Queued, Handed
  <1>5. Named'
    BY <1>1, <1>2, <1>3 DEF RInv, Named
  <1> QED  BY <1>4, <1>5 DEF RInv

(* Taking a request, or registering callbacks, moves nobody.               *)
LEMMA AsideInv ==
  ASSUME RInv, CoredTake \/ \E d \in Types : Register(d)
  PROVE  RInv'
  <1>1. UNCHANGED <<user, msgq, cbq, cb, rst_status, trg_drv, owner, unsent, told>>
    BY DEF CoredTake, Register, reset, phase
  <1>2. cored'.busy => msgq # <<>>
    BY DEF CoredTake, Register, RInv, Queued
  <1>3. Granted' = Granted
    BY <1>1 DEF Granted
  <1>4. Queued'
    BY <1>1, <1>2 DEF RInv, Queued
  <1>5. Shape' /\ Handed' /\ Named'
    BY <1>1, <1>3 DEF RInv, Shape, Handed, Named
  <1> QED  BY <1>4, <1>5 DEF RInv

(* The handler moves on, from one place where it is busy to another.  The  *)
(* data of the trigger are cleared only on the way to the last place.      *)
LEMMA MovesOn ==
  ASSUME RInv, cb.pc # "idle", cb'.pc # "idle", rst_status' # "NONE",
         cb' \in [pc : {"idle", "pre", "wait", "force", "on", "waitpost", "end"},
                  todo : SUBSET Types, drv_pwr_state : SUBSET Types],
         UNCHANGED <<user, msgq, cored, cbq, owner, unsent, told>>,
         cb'.pc # "end" => trg_drv' = trg_drv /\ cb.pc # "end",
         cb'.pc \in {"pre", "wait", "force"} => cb.pc \in {"pre", "wait", "force"}
  PROVE  RInv'
  <1>1. Granted' = Granted /\ Granted = {} /\ cbq = 0 /\ ~unsent
    BY DEF RInv, Handed, Granted
  <1>2. Shape' /\ Queued'
    BY DEF RInv, Shape, Queued
  <1>3. Handed'
    BY <1>1 DEF RInv, Handed
  <1>4. Named'
    BY <1>1 DEF RInv, Named
  <1> QED  BY <1>2, <1>3, <1>4 DEF RInv

(* Each step of the handler between its first and its last.                *)
LEMMA HandlerInv ==
  ASSUME RInv, CbPre \/ CbWait \/ CbForce \/ CbOn \/ CbPost \/ CbWaitPost
  PROVE  RInv'
  <1> USE DEF reset, phase
  <1>0. Shape /\ (cb.pc # "idle" => rst_status # "NONE")
    BY DEF RInv, Handed
  <1>1. CASE CbPre
    <2>1. cb' \in [pc : {"pre", "wait"}, todo : SUBSET Types, drv_pwr_state : SUBSET Types]
      BY <1>0, <1>1 DEF CbPre, Shape, Status
    <2>2. UNCHANGED <<user, msgq, cored, cbq, owner, unsent, told, rst_status, trg_drv>> /\ cb.pc = "pre"
      BY <1>1 DEF CbPre
    <2> QED  BY <2>1, <2>2, <1>0, MovesOn
  <1>2. CASE CbWait
    <2>1. cb' = [cb EXCEPT !.pc = "force", !.todo = {}] /\ rst_status' = "RESET" /\ cb.pc = "wait"
      BY <1>2 DEF CbWait, CbGoes
    <2>2. UNCHANGED <<user, msgq, cored, cbq, owner, unsent, told, trg_drv>>
      BY <1>2 DEF CbWait
    <2> QED  BY <2>1, <2>2, <1>0, MovesOn DEF Shape
  <1>3. CASE CbForce
    <2>1. cb' = [cb EXCEPT !.pc = "on", !.todo = cb.drv_pwr_state] /\ cb.pc = "force"
      BY <1>3 DEF CbForce, CbGoes
    <2>2. UNCHANGED <<user, msgq, cored, cbq, owner, unsent, told, trg_drv, rst_status>>
      BY <1>3 DEF CbForce
    <2> QED  BY <2>1, <2>2, <1>0, MovesOn DEF Shape
  <1>4. CASE CbOn
    <2>1. cb' = [cb EXCEPT !.pc = "on", !.todo = cb.todo \ {Min(cb.todo)}] /\ cb.pc = "on"
      BY <1>4 DEF CbOn, CbGoes
    <2>2. UNCHANGED <<user, msgq, cored, cbq, owner, unsent, told, trg_drv, rst_status>>
      BY <1>4 DEF CbOn
    <2> QED  BY <2>1, <2>2, <1>0, MovesOn DEF Shape
  <1>5. CASE CbPost
    <2>1. cb' = [cb EXCEPT !.pc = "waitpost", !.todo = {}] /\ rst_status' = "POST_CB" /\ cb.pc = "on"
      BY <1>5 DEF CbPost, CbGoes
    <2>2. UNCHANGED <<user, msgq, cored, cbq, owner, unsent, told, trg_drv>>
      BY <1>5 DEF CbPost
    <2> QED  BY <2>1, <2>2, <1>0, MovesOn DEF Shape
  <1>6. CASE CbWaitPost
    <2>1. cb' = [cb EXCEPT !.pc = "end", !.todo = {}] /\ cb.pc = "waitpost"
      BY <1>6 DEF CbWaitPost, CbGoes
    <2>2. UNCHANGED <<user, msgq, cored, cbq, owner, unsent, told, rst_status>>
      BY <1>6 DEF CbWaitPost
    <2> QED  BY <2>1, <2>2, <1>0, MovesOn DEF Shape
  <1> QED  BY <1>1, <1>2, <1>3, <1>4, <1>5, <1>6

(* The reset is over: nobody holds a grant, and the next may be granted.   *)
LEMMA EndInv ==
  ASSUME RInv, CbEnd
  PROVE  RInv'
  <1> USE DEF RInv, CbEnd, CbGoes, reset, phase
  <1>1. Granted' = Granted /\ Granted = {} /\ cbq = 0 /\ ~unsent
    BY DEF Handed, Granted
  <1>2. Shape' /\ Queued'
    BY DEF Shape, Queued
  <1>3. cb'.pc = "idle"
    BY DEF Shape
  <1>4. Handed' /\ Named'
    BY <1>1, <1>3 DEF Handed, Named
  <1> QED  BY <1>2, <1>4

(* The inductive invariant: requests belong to waiting callers, the grant  *)
(* of a reset is in one place, and trg_drv names the radio it was given to.*)
THEOREM ResetInvariant == Spec => []RInv
  <1>1. RInv /\ [Next]_vars => RInv'
    <2> SUFFICES ASSUME RInv, [Next]_vars PROVE RInv'
      OBVIOUS
    <2>1. CASE UNCHANGED vars
      <3>1. UNCHANGED <<user, msgq, cored, cbq, cb, rst_status, trg_drv, owner, unsent, told>>
        BY <2>1 DEF vars, reset, phase
      <3>2. Granted' = Granted
        BY <3>1 DEF Granted
      <3> QED  BY <3>1, <3>2 DEF RInv, Shape, Queued, Handed, Named
    <2>2. ASSUME NEW u \in Users, NEW d \in Types,
                 AskPower(u, "on", d) \/ AskPower(u, "off", d) \/ LockRst(u, d)
          PROVE  RInv'
      BY <2>2, AskInv, LockInv
    <2>3. ASSUME NEW u \in Users, UserStep(u) PROVE RInv'
      BY <2>3, SendInv, SendFailsInv, SetInv, SendRstInv, SendRstFailsInv DEF UserStep
    <2>4. ASSUME NEW d \in Types, Register(d) \/ SubReset(d) PROVE RInv'
      BY <2>4, AsideInv, SubInv
    <2>5. CASE CoredStep
      BY <2>5, AsideInv, ServeInv DEF CoredStep
    <2>6. CASE CbStep
      BY <2>6, StartInv, HandlerInv, EndInv DEF CbStep
    <2> QED  BY <2>1, <2>2, <2>3, <2>4, <2>5, <2>6 DEF Next
  <1> QED  BY InitRInv, <1>1, PTL DEF Spec

(* Whatever the callers do, at most one reset is granted, queued or being  *)
(* run, and rst_status is not NONE exactly then, and for ever after a      *)
(* granted reset that conninfra_core_trg_chip_rst could not send.          *)
THEOREM ResetsExclude == Spec => []OneReset
  <1>1. RInv => OneReset
    BY DEF RInv, Handed, Granted, OneReset
  <1> QED  BY ResetInvariant, <1>1, PTL

(* No pre callback is told anybody but the radio that triggered the reset. *)
THEOREM TriggerKnown == Spec => []TriggerIntact
  <1>1. RInv => TriggerIntact
    BY DEF RInv, Named, TriggerIntact
  <1> QED  BY ResetInvariant, <1>1, PTL
-----------------------------------------------------------------------------
(* The phases of a reset, the power it restores, and the chip *)

(* The types of what a reset notes and of the power state.                 *)
PowerShape ==
    /\ drv_status \in [Types -> BOOLEAN]
    /\ hw \in [top : BOOLEAN, wf : BOOLEAN]
    /\ infra_drv_status \in BOOLEAN
    /\ done \subseteq Types
    /\ resets \in Nat

(* Power is asked for on behalf of a radio.                                *)
Asked ==
    /\ \A u \in Users : user[u].pc \in {"on", "off"} => user[u].type \in Types
    /\ \A k \in 1..Len(msgq) : msgq[k].type \in Types

(* What the thread of radio d has to do, by the phase of the reset: the    *)
(* callbacks that were sent and are not done.                              *)
Pending(d) ==
    CASE cb.pc \in {"pre", "wait"} /\ d \notin cb.todo \union done -> <<"pre">>
      [] cb.pc = "waitpost" /\ d \notin done                       -> <<"post">>
      [] OTHER                                                     -> <<>>

(* Every radio is sent one callback in each phase, and has its bit in      *)
(* rst_state if and only if it is done with it.                            *)
Phases ==
    /\ rst_state = Bits(done)
    /\ subq = [d \in Types |-> Pending(d)]
    /\ cb.pc \in {"pre", "wait"} => cb.todo \intersect done = {}
    /\ cb.pc = "pre" => cb.todo # {}
    /\ cb.pc \notin {"pre", "on"} => cb.todo = {}

(* As long as no request has been served since the reset began, the radios *)
(* noted so far are those on, and later those on or still to be switched   *)
(* on are those noted.                                                     *)
Noted ==
    /\ cb.pc \in {"pre", "wait", "force"} /\ ~served =>
          cb.drv_pwr_state = Status \ cb.todo
    /\ cb.pc \in {"on", "waitpost", "end"} /\ ~served =>
          cb.drv_pwr_state = Status \union cb.todo

(* Without a reset conninfra_cored alone changes the power, so the status  *)
(* that it read before it took core_lock is still that of the radios.      *)
Follows ==
    resets = 0 =>
        /\ rst_status = "NONE"
        /\ cored.busy /\ Head(msgq).op = "off" => cored.curr = Status
        /\ hw.top <=> Status # {}
        /\ infra_drv_status <=> Status # {}

CInv == PowerShape /\ Asked /\ Phases /\ Noted /\ Follows

(* The least radio of a set is one of it.                                  *)
LEMMA MinIn ==
  ASSUME NEW S \in SUBSET Types, S # {}
  PROVE  Min(S) \in S
  <1>1. S \subseteq {0, 1, 2, 3, 4}
    BY SMTT(30), TypesAssumption
  <1>2. \E x \in S : \A y \in S : x =< y
    <2>1. CASE 0 \in S  BY SMTT(30), <2>1, <1>1
    <2>2. CASE 0 \notin S /\ 1 \in S  BY SMTT(30), <2>2, <1>1
    <2>3. CASE 0 \notin S /\ 1 \notin S /\ 2 \in S  BY SMTT(30), <2>3, <1>1
    <2>4. CASE 0 \notin S /\ 1 \notin S /\ 2 \notin S /\ 3 \in S  BY SMTT(30), <2>4, <1>1
    <2>5. CASE S \subseteq {4}
      <3>1. S = {4}  BY <2>5
      <3> QED  BY SMTT(30), <3>1
    <2> QED  BY <2>1, <2>2, <2>3, <2>4, <2>5, <1>1
  <1> QED  BY <1>2 DEF Min

(* Adding the bit of a radio that is not done adds it to the set.          *)
LEMMA BitsAdd ==
  ASSUME NEW S \in SUBSET Types, NEW d \in Types, d \notin S
  PROVE  Bits(S \union {d}) = Bits(S) + Bit(d)
  <1>1. d \in {0, 1, 2, 3, 4}
    BY SMTT(30), TypesAssumption
  <1>2. CASE d = 0  BY SMTT(30), <1>2 DEF Bits, Bit
  <1>3. CASE d = 1  BY SMTT(30), <1>3 DEF Bits, Bit
  <1>4. CASE d = 2  BY SMTT(30), <1>4 DEF Bits, Bit
  <1>5. CASE d = 3  BY SMTT(30), <1>5 DEF Bits, Bit
  <1>6. CASE d = 4  BY SMTT(30), <1>6 DEF Bits, Bit
  <1> QED  BY <1>1, <1>2, <1>3, <1>4, <1>5, <1>6

(* The sum that conninfra_cb waits for is reached by all radios only.      *)
LEMMA BitsAll ==
  ASSUME NEW S \in SUBSET Types, Bits(S) = AllDone
  PROVE  S = Types
  <1>1. Types \subseteq {0, 1, 2, 3, 4}
    BY SMTT(30), TypesAssumption
  <1>2. \A d \in {0, 1, 2, 3, 4} : d \in S <=> d \in Types
    BY SMTT(30), <1>1 DEF AllDone, Bits, Bit
  <1> QED  BY <1>1, <1>2

LEMMA BitsNone == Bits({}) = 0
  BY SMTT(30) DEF Bits, Bit

LEMMA InitCInv == Init => CInv
  <1> SUFFICES ASSUME Init PROVE CInv
    OBVIOUS
  <1>1. use \in Uses /\ use.auto_up \in BOOLEAN
    BY UsesAssumption DEF Init
  <1>2. PowerShape
    BY <1>1 DEF Init, PowerShape
  <1>7. Asked
    BY SMTT(30) DEF Init, Asked, Idle
  <1>3. Phases
    BY BitsNone DEF Init, Phases, Pending
  <1>4. Noted
    BY DEF Init, Noted
  <1>5. Status = IF use.auto_up THEN {CONNINFRA} ELSE {}
    BY <1>1, TypesAssumption DEF Init, Status
  <1>6. Follows
    BY <1>1, <1>5 DEF Init, Follows
  <1> QED  BY <1>2, <1>3, <1>4, <1>6, <1>7 DEF CInv

(* Power: what is switched on and off keeps its type, and the status       *)
(* follows.                                                                *)
LEMMA OnStatus ==
  ASSUME PowerShape, NEW d \in Types, PowerOn(d)
  PROVE  /\ drv_status' \in [Types -> BOOLEAN] /\ hw' \in [top : BOOLEAN, wf : BOOLEAN]
         /\ infra_drv_status' \in BOOLEAN
         /\ Status' = Status \union {d}
  <1>1. CASE drv_status[d]
    BY <1>1 DEF PowerShape, PowerOn, Status
  <1>2. CASE ~drv_status[d]
    <2>1. drv_status' = [drv_status EXCEPT ![d] = TRUE] /\ hw' = HwPwrOn(Status, d)
          /\ infra_drv_status' = TRUE
      BY <1>2 DEF PowerOn
    <2>2. HwPwrOn(Status, d) \in [top : BOOLEAN, wf : BOOLEAN]
      BY DEF HwPwrOn, PowerShape
    <2>3. Status' = Status \union {d}
      BY <2>1 DEF PowerShape, Status
    <2> QED  BY <2>1, <2>2, <2>3 DEF PowerShape
  <1> QED  BY <1>1, <1>2

LEMMA OffStatus ==
  ASSUME PowerShape, NEW d \in Types, NEW curr, RadioOff(d, curr)
  PROVE  /\ drv_status' \in [Types -> BOOLEAN] /\ hw' \in [top : BOOLEAN, wf : BOOLEAN]
         /\ infra_drv_status' \in BOOLEAN
         /\ Status' = Status \ {d}
  <1>1. CASE ~drv_status[d]
    BY <1>1 DEF PowerShape, RadioOff, Status
  <1>2. CASE drv_status[d]
    <2>1. drv_status' = [drv_status EXCEPT ![d] = FALSE] /\ hw' = HwPwrOff(curr, d)
          /\ infra_drv_status' \in {FALSE, infra_drv_status}
      BY <1>2 DEF RadioOff
    <2>2. HwPwrOff(curr, d) \in [top : BOOLEAN, wf : BOOLEAN]
      BY DEF HwPwrOff, PowerShape
    <2>3. Status' = Status \ {d}
      BY <2>1 DEF PowerShape, Status
    <2> QED  BY <2>1, <2>2, <2>3 DEF PowerShape
  <1> QED  BY <1>1, <1>2

LEMMA ForceStatus ==
  ASSUME PowerShape, ForceOff
  PROVE  /\ drv_status' \in [Types -> BOOLEAN] /\ hw' \in [top : BOOLEAN, wf : BOOLEAN]
         /\ infra_drv_status' \in BOOLEAN
         /\ Status' = IF infra_drv_status THEN {} ELSE Status
  <1>1. CASE ~infra_drv_status
    BY <1>1 DEF PowerShape, ForceOff, Status
  <1>2. CASE infra_drv_status
    <2>1. drv_status' = [d \in Types |-> FALSE] /\ hw' = [top |-> FALSE, wf |-> FALSE]
          /\ infra_drv_status' = FALSE
      BY <1>2 DEF ForceOff, HwPwrOff
    <2> QED  BY <1>2, <2>1 DEF Status
  <1> QED  BY <1>1, <1>2

(* A step that leaves the handler, the radios' threads and what they have  *)
(* reported alone.                                                         *)
LEMMA PhasesFrame ==
  ASSUME Phases, UNCHANGED <<rst_state, done, subq, cb>>
  PROVE  Phases'
  <1>1. \A d \in Types : Pending(d)' = Pending(d)
    BY DEF Pending
  <1> QED  BY <1>1 DEF Phases

(* A radio's thread has a callback to do only if it was sent one in this   *)
(* phase and has not reported: its bit is not in rst_state yet.            *)
LEMMA SubPhases ==
  ASSUME PowerShape, Phases, NEW d \in Types, SubReset(d)
  PROVE  Phases'
  <1>1. /\ subq[d] = Pending(d) /\ subq[d] # <<>>
        /\ cb' = cb /\ done' = done \union {d} /\ rst_state' = rst_state + Bit(d)
        /\ subq' = [subq EXCEPT ![d] = Tail(@)]
    BY DEF SubReset, SubDone, Phases
  <1>2. d \notin done /\ (cb.pc \in {"pre", "wait"} => d \notin cb.todo)
    BY <1>1 DEF Pending
  <1>3. rst_state' = Bits(done')
    BY <1>1, <1>2, BitsAdd DEF Phases, PowerShape
  <1>4. subq' = [e \in Types |-> Pending(e)']
    <2>1. Tail(subq[d]) = <<>>
      BY SMTT(30), <1>1 DEF Pending
    <2>2. Pending(d)' = <<>>
      BY <1>1 DEF Pending
    <2>3. ASSUME NEW e \in Types, e # d PROVE Pending(e)' = Pending(e)
      BY <1>1, <2>3 DEF Pending
    <2> QED  BY <1>1, <2>1, <2>2, <2>3 DEF Phases
  <1>5. cb'.pc \in {"pre", "wait"} => cb'.todo \intersect done' = {}
    BY <1>1, <1>2 DEF Phases
  <1> QED  BY <1>1, <1>3, <1>4, <1>5 DEF Phases

LEMMA StartPhases ==
  ASSUME Phases, CbStart
  PROVE  Phases'
  <1>1. CASE ~infra_drv_status
    BY <1>1, PhasesFrame DEF CbStart, phase
  <1>2. CASE infra_drv_status
    <2>1. /\ cb.pc = "idle" /\ subq' = subq
          /\ rst_state' = 0 /\ done' = {}
          /\ cb' = [pc |-> "pre", todo |-> Types, drv_pwr_state |-> {}]
      BY <1>2 DEF CbStart
    <2>2. \A d \in Types : Pending(d) = <<>> /\ Pending(d)' = <<>>
      BY <2>1 DEF Pending
    <2> QED  BY <2>1, <2>2, BitsNone, TypesAssumption DEF Phases
  <1> QED  BY <1>1, <1>2

(* Sending to one radio after the other.                                   *)
LEMMA PrePhases ==
  ASSUME Shape, Phases, CbPre
  PROVE  Phases'
  <1>1. cb.todo \in SUBSET Types /\ cb.todo # {} /\ cb.pc = "pre"
    BY DEF Shape, Phases, CbPre
  <1>2. PICK i \in Types : i = Min(cb.todo) /\ i \in cb.todo
    BY <1>1, MinIn
  <1>3. /\ cb'.pc = (IF cb.todo = {i} THEN "wait" ELSE "pre")
        /\ cb'.todo = cb.todo \ {i}
        /\ subq' = [subq EXCEPT ![i] = Append(@, "pre")]
        /\ rst_state' = rst_state /\ done' = done
    BY <1>2 DEF CbPre, phase
  <1>4. subq[i] = <<>> /\ i \notin done
    BY <1>1, <1>2 DEF Phases, Pending
  <1>5. subq' = [e \in Types |-> Pending(e)']
    <2>1. Pending(i)' = <<"pre">>
      BY <1>2, <1>3, <1>4 DEF Pending
    <2>3. Append(subq[i], "pre") = <<"pre">>
      BY SMTT(30), <1>4
    <2>2. ASSUME NEW e \in Types, e # i PROVE Pending(e)' = Pending(e)
      BY <1>1, <1>3, <2>2 DEF Pending
    <2> QED  BY <1>2, <1>3, <2>1, <2>2, <2>3 DEF Phases
  <1>6. cb'.todo \intersect done' = {}
    BY <1>1, <1>3 DEF Phases
  <1> QED  BY SMTT(30), <1>1, <1>2, <1>3, <1>5, <1>6 DEF Phases

(* The sum is complete: every radio is done, none has anything pending.    *)
LEMMA WaitPhases ==
  ASSUME Shape, PowerShape, Phases, CbWait \/ CbWaitPost
  PROVE  Phases'
  <1>1. /\ cb.pc \in {"wait", "waitpost"} /\ cb'.pc \in {"force", "end"} /\ cb'.todo = {}
        /\ rst_state = AllDone
        /\ subq' = subq /\ rst_state' = rst_state /\ done' = done
    BY DEF CbWait, CbWaitPost, CbGoes, Shape, phase
  <1>2. done = Types
    BY <1>1, BitsAll DEF Phases, PowerShape
  <1>3. \A d \in Types : Pending(d) = <<>> /\ Pending(d)' = <<>>
    BY <1>1, <1>2 DEF Pending
  <1> QED  BY <1>1, <1>3 DEF Phases

(* Between the two phases nothing is pending.                              *)
LEMMA BetweenPhases ==
  ASSUME Shape, Phases, CbForce \/ CbOn \/ CbEnd
  PROVE  Phases'
  <1>1. /\ cb.pc \in {"force", "on", "end"} /\ cb'.pc \in {"on", "idle"}
        /\ cb'.pc = "idle" => cb'.todo = {}
        /\ subq' = subq /\ rst_state' = rst_state /\ done' = done
    BY DEF CbForce, CbOn, CbEnd, CbGoes, Shape, phase
  <1>2. \A d \in Types : Pending(d) = <<>> /\ Pending(d)' = <<>>
    BY <1>1 DEF Pending
  <1> QED  BY <1>1, <1>2 DEF Phases

LEMMA PostPhases ==
  ASSUME Shape, Phases, CbPost
  PROVE  Phases'
  <1>1. /\ cb.pc = "on" /\ cb'.pc = "waitpost" /\ cb'.todo = {}
        /\ subq' = [d \in Types |-> Append(subq[d], "post")]
        /\ rst_state' = 0 /\ done' = {}
    BY DEF CbPost, CbGoes, Shape
  <1>2. \A d \in Types : Pending(d) = <<>> /\ Pending(d)' = <<"post">>
    BY <1>1 DEF Pending
  <1> QED  BY SMTT(30), <1>1, <1>2, BitsNone DEF Phases

(* What the handler notes and restores.  A request served in between lifts *)
(* the promise.                                                            *)
LEMMA NotedNext ==
  ASSUME Shape, PowerShape, Phases, Noted, CbStep
  PROVE  Noted'
  <1>1. CASE CbStart
    <2>1. CASE ~infra_drv_status
      BY <1>1, <2>1 DEF CbStart, Noted
    <2>2. CASE infra_drv_status
      <3>1. cb'.pc = "pre" /\ cb'.todo = Types /\ cb'.drv_pwr_state = {} /\ Status' = Status
        BY SMTT(30), <1>1, <2>2 DEF CbStart, power, Status
      <3> QED  BY <3>1 DEF Noted, Status
    <2> QED  BY <2>1, <2>2
  <1>2. CASE CbPre
    <2> DEFINE i == Min(cb.todo)
    <2>1. cb.todo \in SUBSET Types /\ cb.todo # {} /\ cb.pc = "pre"
      BY <1>2 DEF Shape, Phases, CbPre
    <2>2. i \in cb.todo
      BY <2>1, MinIn
    <2>3. /\ cb'.pc \in {"pre", "wait"} /\ cb'.todo = cb.todo \ {i}
          /\ cb'.drv_pwr_state = cb.drv_pwr_state \union ({i} \intersect Status)
          /\ Status' = Status /\ served' = served
      BY <1>2 DEF CbPre, power, Status
    <2> HIDE DEF i
    <2> QED  BY <2>1, <2>2, <2>3 DEF Noted
  <1>3. CASE CbWait
    <2>1. /\ cb.pc = "wait" /\ cb.todo = {} /\ cb'.pc = "force" /\ cb'.todo = {}
          /\ cb'.drv_pwr_state = cb.drv_pwr_state
          /\ Status' = Status /\ served' = served
      BY <1>3 DEF CbWait, CbGoes, Shape, Phases, power, Status
    <2> QED  BY <2>1 DEF Noted
  <1>4. CASE CbForce
    <2>1. /\ cb.pc = "force" /\ cb.todo = {} /\ cb'.pc = "on" /\ cb'.todo = cb.drv_pwr_state
          /\ cb'.drv_pwr_state = cb.drv_pwr_state /\ served' = served
      BY <1>4 DEF CbForce, CbGoes, Shape, Phases
    <2>2. Status' \subseteq Status
      BY <1>4, ForceStatus DEF CbForce
    <2> QED  BY <2>1, <2>2 DEF Noted
  <1>5. CASE CbOn
    <2> DEFINE i == Min(cb.todo)
    <2>1. cb.todo \in SUBSET Types /\ cb.todo # {} /\ cb.pc = "on"
      BY <1>5 DEF Shape, CbOn
    <2>2. i \in cb.todo /\ i \in Types
      BY <2>1, MinIn
    <2>3. /\ PowerOn(i) /\ cb'.pc = "on" /\ cb'.todo = cb.todo \ {i}
          /\ cb'.drv_pwr_state = cb.drv_pwr_state /\ served' = served
      BY <1>5 DEF CbOn, CbGoes, Shape
    <2>4. Status' = Status \union {i}
      BY <2>2, <2>3, OnStatus
    <2> HIDE DEF i
    <2> QED  BY <2>1, <2>2, <2>3, <2>4 DEF Noted
  <1>6. CASE CbPost \/ CbWaitPost
    <2>1. cb.pc \in {"on", "waitpost"} /\ cb.todo = {}
      BY <1>6 DEF CbPost, CbWaitPost, Phases
    <2>2. /\ cb'.pc \in {"waitpost", "end"} /\ cb'.todo = {}
          /\ cb'.drv_pwr_state = cb.drv_pwr_state
      BY <1>6 DEF CbPost, CbWaitPost, CbGoes, Shape
    <2>3. Status' = Status /\ served' = served
      BY <1>6 DEF CbPost, CbWaitPost, power, Status
    <2> QED  BY <2>1, <2>2, <2>3 DEF Noted
  <1>7. CASE CbEnd
    BY <1>7 DEF CbEnd, CbGoes, Shape, Noted
  <1> QED  BY <1>1, <1>2, <1>3, <1>4, <1>5, <1>6, <1>7 DEF CbStep

(* Requests are queued for the radio they were made for.                   *)
LEMMA AskedNext ==
  ASSUME RInv, Asked, Next
  PROVE  Asked'
  <1> USE DEF RInv
  <1>1. ASSUME NEW u \in Users, NEW d \in Types, NEW op \in {"on", "off"}, AskPower(u, op, d)
        PROVE  Asked'
    BY <1>1 DEF AskPower, Goes, Asked, Shape
  <1>2. ASSUME NEW u \in Users, NEW d \in Types, LockRst(u, d)
        PROVE  Asked'
    BY <1>2 DEF LockRst, Goes, Asked, Shape
  <1>3. ASSUME NEW u \in Users, SetTrg(u) \/ SendRst(u) \/ SendRstFails(u) \/ SendPowerFails(u)
        PROVE  Asked'
    BY SMTT(30), <1>3 DEF SetTrg, SendRst, SendRstFails, SendPowerFails, Goes, Asked, Shape
  <1>4. ASSUME NEW u \in Users, SendPower(u)
        PROVE  Asked'
    <2> DEFINE m == [op |-> user[u].pc, type |-> user[u].type, by |-> u]
    <2>1. m \in Request /\ m.type \in Types
      BY <1>4 DEF SendPower, Shape, Request, Asked
    <2>2. msgq' = Append(msgq, m)
      BY <1>4 DEF SendPower
    <2> HIDE DEF m
    <2>3. /\ Len(msgq) \in Nat /\ Len(msgq') = Len(msgq) + 1
          /\ msgq'[Len(msgq) + 1] = m
          /\ \A k \in 1..Len(msgq) : msgq'[k] = msgq[k]
      BY SMTT(30), <2>1, <2>2, AppendFacts DEF Shape
    <2>4. \A k \in 1..Len(msgq') : msgq'[k].type \in Types
      BY SMTT(30), <2>1, <2>3 DEF Asked
    <2>5. \A v \in Users : user'[v].pc \in {"on", "off"} => user'[v].type \in Types
      BY <1>4 DEF SendPower, Goes, Asked, Shape
    <2> QED  BY <2>4, <2>5 DEF Asked
  <1>5. CASE CoredServe
    <2>1. msgq # <<>> /\ msgq' = Tail(msgq)
      BY <1>5 DEF CoredServe, Queued
    <2>2. /\ Len(msgq) \in Nat \ {0} /\ Len(msgq') = Len(msgq) - 1
          /\ \A k \in 1..Len(msgq') : msgq'[k] = msgq[k + 1]
      BY SMTT(30), <2>1, TailFacts DEF Shape
    <2>3. \A k \in 1..Len(msgq') : msgq'[k].type \in Types
      BY SMTT(30), <2>2 DEF Asked
    <2>4. user' = [user EXCEPT ![Head(msgq).by] = [pc |-> "idle", type |-> None]]
      BY <1>5 DEF CoredServe, Goes
    <2>5. \A v \in Users : user'[v].pc \in {"on", "off"} => user'[v].type \in Types
      BY <2>4 DEF Asked, Shape
    <2> QED  BY <2>3, <2>5 DEF Asked
  <1>6. CASE CoredTake \/ CbStep \/ \E d \in Types : Register(d) \/ SubReset(d)
    <2>1. UNCHANGED <<user, msgq>>
      BY <1>6
        DEF CoredTake, CbStep, Register, SubReset, CbStart, CbPre, CbWait, CbForce, CbOn,
                  CbPost, CbWaitPost, CbEnd
    <2> QED  BY <2>1 DEF Asked
  <1> QED  BY <1>1, <1>2, <1>3, <1>4, <1>5, <1>6 DEF Next, UserStep, CoredStep

(* Serving a request switches the chip with the radios.                    *)
LEMMA ServeFollows ==
  ASSUME RInv, PowerShape, Asked, Follows, CoredServe
  PROVE  PowerShape' /\ Follows'
  <1> DEFINE m == Head(msgq)
  <1>1. msgq # <<>>
    BY DEF CoredServe, RInv, Queued
  <1>2. m.op \in {"on", "off"} /\ m.type \in Types
    <2>1. m = msgq[1] /\ msgq[1] \in Request /\ 1 \in 1..Len(msgq)
      BY SMTT(30), <1>1, TailFacts DEF RInv, Shape
    <2> QED  BY <2>1 DEF Request, Asked
  <1>3. UNCHANGED <<done, resets, rst_status>> /\ cored'.busy = FALSE
    BY DEF CoredServe, phase, reset
  <1>4. CASE m.op = "on"
    <2>1. PowerOn(m.type)
      BY <1>4 DEF CoredServe
    <2>2. PowerShape' /\ Status' = Status \union {m.type}
      BY <1>2, <1>3, <2>1, OnStatus DEF PowerShape
    <2>3. resets = 0 => hw'.top /\ infra_drv_status'
      <3>1. CASE drv_status[m.type]
        BY <1>2, <2>1, <3>1 DEF PowerOn, Follows, Status
      <3>2. CASE ~drv_status[m.type]
        BY <2>1, <3>2 DEF PowerOn, HwPwrOn, Follows, PowerShape
      <3> QED  BY <3>1, <3>2
    <2> HIDE DEF m
    <2> QED  BY <1>3, <2>2, <2>3 DEF Follows
  <1>5. CASE m.op = "off" /\ m.type = CONNINFRA
    <2>1. ForceOff
      BY <1>5 DEF CoredServe
    <2>2. PowerShape' /\ Status' = IF infra_drv_status THEN {} ELSE Status
      BY <1>3, <2>1, ForceStatus DEF PowerShape
    <2>3. IF infra_drv_status THEN ~hw'.top /\ ~infra_drv_status'
          ELSE hw' = hw /\ infra_drv_status' = infra_drv_status
      BY SMTT(30), <2>1 DEF ForceOff, HwPwrOff
    <2> QED  BY <1>3, <2>2, <2>3 DEF Follows
  <1>6. CASE m.op = "off" /\ m.type # CONNINFRA
    <2>1. RadioOff(m.type, cored.curr)
      BY <1>6 DEF CoredServe
    <2>2. PowerShape' /\ Status' = Status \ {m.type}
      BY <1>2, <1>3, <2>1, OffStatus DEF PowerShape
    <2>3. resets = 0 => cored.curr = Status
      BY <1>6 DEF Follows, CoredServe
    <2>4. ASSUME resets = 0
          PROVE  (hw'.top <=> Status' # {}) /\ (infra_drv_status' <=> Status' # {})
      <3>1. CASE drv_status[m.type]
        <4>1. hw.top /\ infra_drv_status
          BY <1>2, <2>4, <3>1 DEF Follows, Status
        <4>2. CASE Status \ {m.type} = {}
          BY SMTT(30), <2>1, <2>2, <2>3, <2>4, <3>1, <4>2 DEF RadioOff, HwPwrOff
        <4>3. CASE Status \ {m.type} # {}
          BY <2>1, <2>2, <2>3, <2>4, <3>1, <4>1, <4>3 DEF RadioOff, HwPwrOff, PowerShape
        <4> QED  BY <4>2, <4>3
      <3>2. CASE ~drv_status[m.type]
        <4>1. UNCHANGED <<hw, infra_drv_status, drv_status>>
          BY <2>1, <3>2 DEF RadioOff
        <4> QED  BY <2>4, <4>1 DEF Follows, Status
      <3> QED  BY <3>1, <3>2
    <2> HIDE DEF m
    <2> QED  BY <1>3, <2>2, <2>4 DEF Follows
  <1> QED  BY <1>2, <1>4, <1>5, <1>6

(* conninfra_cored takes a request: a power-off reads the status.          *)
LEMMA TakeFollows ==
  ASSUME Follows, CoredTake
  PROVE  Follows'
  <1>1. /\ UNCHANGED <<drv_status, hw, infra_drv_status, rst_status, resets, msgq>>
        /\ cored'.curr = IF Head(msgq).op = "off" THEN Status ELSE {}
    BY DEF CoredTake, power, reset
  <1>2. Status' = Status
    BY <1>1 DEF Status
  <1> QED  BY <1>1, <1>2 DEF Follows

(* A step of the others, but the handler, leaves the power and the request *)
(* at work alone, or is the grant of a reset.                              *)
LEMMA FollowsFrame ==
  ASSUME RInv, PowerShape, Follows,
         UNCHANGED <<drv_status, hw, infra_drv_status, cored>>,
         UNCHANGED <<rst_status, resets>> \/ resets' = resets + 1,
         UNCHANGED msgq \/ \E m : msgq' = Append(msgq, m)
  PROVE  Follows'
  <1>1. Status' = Status
    BY DEF Status
  <1>2. cored.busy => Head(msgq)' = Head(msgq)
    <2>1. msgq \in Seq(Request) /\ (cored.busy => msgq # <<>>)
      BY DEF RInv, Shape, Queued
    <2>2. ASSUME NEW m, msgq' = Append(msgq, m), msgq # <<>> PROVE Head(msgq') = Head(msgq)
      BY SMTT(30), <2>1, <2>2
    <2> QED  BY <2>1, <2>2
  <1>3. resets' = 0 => resets = 0 /\ rst_status' = rst_status
    BY SMTT(30) DEF PowerShape
  <1> QED  BY <1>1, <1>2, <1>3 DEF Follows

(* The handler runs only when a reset was asked for.                       *)
LEMMA HandlerFollows ==
  ASSUME RInv, Follows, CbStep
  PROVE  Follows'
  <1>1. resets = 0 => cbq = 0 /\ cb.pc = "idle"
    BY DEF RInv, Handed, Follows
  <1>2. resets' = resets /\ (cbq > 0 \/ cb.pc # "idle")
    BY DEF CbStep, CbStart, CbPre, CbWait, CbForce, CbOn, CbPost, CbWaitPost, CbEnd
  <1> QED  BY SMTT(30), <1>1, <1>2 DEF Follows

(* The handler's own steps keep the types of the power state.              *)
LEMMA HandlerShape ==
  ASSUME Shape, PowerShape, Phases, CbStep
  PROVE  PowerShape'
  <1>1. CASE CbForce
    BY <1>1, ForceStatus DEF CbForce, PowerShape, phase
  <1>2. CASE CbOn
    <2>1. cb.todo \in SUBSET Types /\ cb.todo # {}
      BY <1>2 DEF Shape, CbOn
    <2>2. Min(cb.todo) \in Types /\ PowerOn(Min(cb.todo))
      BY <1>2, <2>1, MinIn DEF CbOn
    <2> QED  BY <1>2, <2>2, OnStatus DEF CbOn, PowerShape, phase
  <1>3. CASE CbStart \/ CbPre \/ CbWait \/ CbPost \/ CbWaitPost \/ CbEnd
    <2>1. UNCHANGED <<drv_status, hw, infra_drv_status, resets>> /\ done' \in {done, {}}
      BY <1>3 DEF CbStart, CbPre, CbWait, CbPost, CbWaitPost, CbEnd, power, phase
    <2> QED  BY <2>1 DEF PowerShape
  <1> QED  BY <1>1, <1>2, <1>3 DEF CbStep

LEMMA CInvNext ==
  ASSUME RInv, CInv, [Next]_vars
  PROVE  CInv'
  <1> USE DEF CInv
  <1>0. Shape
    BY DEF RInv
  <1>1. CASE UNCHANGED vars
    <2>1. UNCHANGED <<drv_status, hw, infra_drv_status, done, resets, user, msgq, cored, cb,
                      subq, rst_state, rst_status, served>>
      BY <1>1 DEF vars, power, reset, phase
    <2>2. Status' = Status
      BY <2>1 DEF Status
    <2>3. Phases'
      BY <2>1, PhasesFrame
    <2> QED  BY <2>1, <2>2, <2>3 DEF PowerShape, Asked, Noted, Follows
  <1>2. CASE CbStep
    <2>1. Phases'
      BY <1>0, <1>2, StartPhases, PrePhases, WaitPhases, BetweenPhases, PostPhases
        DEF CbStep
    <2>2. Asked'
      BY <1>2, AskedNext DEF Next
    <2> QED  BY <1>0, <1>2, <2>1, <2>2, HandlerShape, NotedNext, HandlerFollows
  <1>3. CASE CoredServe
    <2>1. UNCHANGED <<rst_state, done, subq, cb>> /\ served' = TRUE
      BY <1>3 DEF CoredServe, phase
    <2>2. Asked'
      BY <1>3, AskedNext DEF Next, CoredStep
    <2>3. Noted'
      BY <2>1 DEF Noted
    <2> QED  BY <1>3, <2>1, <2>2, <2>3, PhasesFrame, ServeFollows
  <1>4. CASE Next /\ ~CbStep /\ ~CoredServe
    <2>1. UNCHANGED <<drv_status, hw, infra_drv_status, cb, served>>
      BY <1>4
         DEF Next, UserStep, CoredStep, AskPower, LockRst, SendPower,
                 SendPowerFails, SetTrg, SendRst, SendRstFails,
                 Register, SubReset, CoredTake, power
    <2>2. Status' = Status
      BY <2>1 DEF Status
    <2>3. Noted'
      BY <2>1, <2>2 DEF Noted
    <2>4. Asked'
      BY <1>4, AskedNext
    <2>5. Phases' /\ done' \subseteq Types
      <3>1. CASE \E d \in Types : SubReset(d)
        BY <3>1, SubPhases DEF SubReset, SubDone, PowerShape
      <3>2. CASE ~ \E d \in Types : SubReset(d)
        <4>1. UNCHANGED <<rst_state, done, subq>>
          BY <1>4, <3>2
             DEF Next, UserStep, CoredStep, AskPower, LockRst, SendPower,
                 SendPowerFails, SetTrg, SendRst, SendRstFails,
                 Register, CoredTake, phase
        <4> QED  BY <2>1, <4>1, PhasesFrame DEF PowerShape
      <3> QED  BY <3>1, <3>2
    <2>6. Follows' /\ resets' \in Nat
      <3>1. CASE CoredTake
        BY <3>1, TakeFollows DEF CoredTake, PowerShape
      <3>2. CASE ~CoredTake
        <4>1. /\ cored' = cored
              /\ UNCHANGED <<rst_status, resets>> \/ resets' = resets + 1
          BY <1>4, <3>2
             DEF Next, UserStep, CoredStep, AskPower, LockRst, SendPower,
                 SendPowerFails, SetTrg, SendRst, SendRstFails,
                 Register, SubReset, reset
        <4>2. UNCHANGED msgq \/ \E m : msgq' = Append(msgq, m)
          BY <1>4, <3>2
             DEF Next, UserStep, CoredStep, AskPower, LockRst, SendPower,
                 SendPowerFails, SetTrg, SendRst, SendRstFails,
                 Register, SubReset
        <4>3. Follows'
          BY <2>1, <4>1, <4>2, FollowsFrame
        <4> QED  BY SMTT(30), <4>1, <4>3 DEF PowerShape
      <3> QED  BY <3>1, <3>2
    <2>7. PowerShape'
      BY <2>1, <2>5, <2>6 DEF PowerShape
    <2> QED  BY <2>3, <2>4, <2>5, <2>6, <2>7
  <1> QED  BY <1>1, <1>2, <1>3, <1>4

(* Inductive, on top of RInv: the bits of rst_state are those of the       *)
(* radios that are done, each with one callback in each phase; the reset   *)
(* restores what it noted; the chip follows the radios until the first     *)
(* reset.                                                                  *)
THEOREM PowerInvariant == Spec => []CInv
  <1>1. RInv /\ CInv /\ [Next]_vars => CInv'
    BY CInvNext
  <1> QED  BY InitCInv, <1>1, ResetInvariant, PTL DEF Spec

(* rst_state never counts a radio twice, in one phase of a reset or across *)
(* two, for any number of threads and of resets.                           *)
THEOREM BitsCountRadios == Spec => []DoneCountedOnce
  <1>1. CInv => DoneCountedOnce
    BY DEF CInv, Phases, DoneCountedOnce
  <1> QED  BY PowerInvariant, <1>1, PTL

(* No callback is running or pending while opfunc_chip_rst cuts and        *)
(* restores the power, nor when it is over.                                *)
THEOREM CallbacksQuiet == Spec => []QuietDuringReset
  <1>1. CInv => QuietDuringReset
    BY DEF CInv, Phases, Pending, QuietDuringReset
  <1> QED  BY PowerInvariant, <1>1, PTL

(* opfunc_chip_rst restores the power of exactly the radios that had it if *)
(* no power request is served meanwhile.                                   *)
THEOREM ResetRestoresPower == Spec => []PowerRestored
  <1>1. CInv => PowerRestored
    BY DEF CInv, Phases, Noted, PowerRestored
  <1> QED  BY PowerInvariant, <1>1, PTL

(* Before the first reset the chip is on if and only if some radio is,     *)
(* although a power-off reads the status before it takes core_lock.        *)
THEOREM ChipWithRadios == Spec => []ChipFollowsRadios
  <1>1. CInv => ChipFollowsRadios
    BY DEF CInv, Follows, ChipFollowsRadios
  <1> QED  BY PowerInvariant, <1>1, PTL
=============================================================================
