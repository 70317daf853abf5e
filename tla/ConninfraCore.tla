---------------------------- MODULE ConninfraCore ----------------------------
(***************************************************************************)
(* Power control and whole-chip reset of the conninfra driver              *)
(* (src/conninfra.c, core/conninfra_core.c, platform/consys_hw.c).         *)
(*                                                                         *)
(* Drivers of the radios ask for power through the API.  The request goes  *)
(* to the thread conninfra_cored, which serves requests in order under     *)
(* core_lock.  A reset is asked for by any of them, and run by the thread  *)
(* conninfra_cb: it has every radio's own thread call the radio's pre      *)
(* callback, cuts the power, restores it for the radios that had it, and   *)
(* has the post callbacks called.  rst_status tells the API that a reset   *)
(* is on the way.                                                          *)
(*                                                                         *)
(* The message threads are those of MsgThread: here a queue in order, and  *)
(* a caller that waits until its request has been handled, not only for    *)
(* MSG_OP_TIMEOUT.  As there, a send may fail: the caller is killed while  *)
(* it waits for the lock of a queue, or there is no free op.  What is done *)
(* under core_lock is one step.                                            *)
(***************************************************************************)
EXTENDS Integers, Sequences, FiniteSetsExt

CONSTANTS Users,     \* threads that use the API
          Types,     \* the radios of enum consys_drv_type that are present
          None,      \* CONNDRV_TYPE_MAX: nobody
          Uses       \* how the driver is used, one record for each way:
                     \*   auto_up: built with CONFIG_CONNINFRA_AUTO_UP
                     \*   asks:    the radios power is asked for
                     \*   trgs:    the radios whose drivers trigger resets
                     \*   cbs:     the radios whose drivers register callbacks
                     \*   fails:   sends of the API's threads may fail
                     \*   calls, resets: bounds on the power requests made
                     \*            and on the resets triggered

WIFI      == 3       \* CONNDRV_TYPE_WIFI
CONNINFRA == 4       \* CONNDRV_TYPE_CONNINFRA, the common part itself

ASSUME TypesAssumption == Types \subseteq 0..4 /\ CONNINFRA \in Types /\ None \notin Types
ASSUME UsesAssumption ==
    Uses \subseteq [auto_up : BOOLEAN, asks : SUBSET Types, trgs : SUBSET Types,
                     cbs : SUBSET Types, fails : BOOLEAN, calls : Nat, resets : Nat]

VARIABLES use,              \* the way the driver is used; never changes
          drv_status,       \* drv_inst[].drv_status: powered on or not
          infra_drv_status, \* infra_drv_status
          hw,               \* the chip: CONNSYS top part on, WFSYS on
          core_lock,        \* TRUE: still locked although its holder is gone
          rst_status,       \* rst_status
          trg_drv,          \* trg_drv: who triggered the reset
          ops_cb,           \* the radios with registered callbacks
          user,             \* each API thread: where it is, what it asks for
          msgq, cored,      \* conninfra_cored: its queue, what it works on
          cbq, cb,          \* conninfra_cb: requests queued, what it works on
          subq,             \* each radio's thread: its queue
          rst_state,        \* rst_state: a bit for each radio that is done
          calls, resets,    \* counters for the bounds
          owner,            \* history: who triggered the latest reset
          unsent,           \* history: a granted reset could not be sent
          told,             \* history: whom the pre callbacks were told of
          done,             \* history: radios done in this phase of a reset
          served            \* history: a power request was served since the
                            \* latest reset began

power == <<drv_status, infra_drv_status, hw, core_lock>>
reset == <<rst_status, trg_drv, owner, unsent>>
phase == <<rst_state, done, told>>
vars  == <<use, power, reset, ops_cb, user, msgq, cored, cbq, cb, subq, phase, calls, resets, served>>

RstStatus == {"NONE", "START", "PRE_CB", "RESET", "POST_CB"}
Status == {d \in Types : drv_status[d]}        \* opfunc_get_current_status
Bit(d) == <<1, 2, 4, 8, 16>>[d + 1]            \* 0x1 << drv_type

(* The bits of the radios in S, added up.                                  *)
Bits(S) ==
    LET bit(d) == IF d \in S THEN Bit(d) ELSE 0
    IN  bit(0) + bit(1) + bit(2) + bit(3) + bit(4)

AllDone == Bits(Types)                         \* subdrv_all_done

Idle == [pc |-> "idle", type |-> None]

TypeOK ==
    /\ use \in Uses
    /\ drv_status \in [Types -> BOOLEAN] /\ infra_drv_status \in BOOLEAN
    /\ hw \in [top : BOOLEAN, wf : BOOLEAN] /\ core_lock \in BOOLEAN
    /\ rst_status \in RstStatus /\ trg_drv \in Types \union {None} /\ unsent \in BOOLEAN
    /\ ops_cb \subseteq Types
    /\ user \in [Users -> [pc : {"idle", "on", "off", "wait", "set", "trg"},
                           type : Types \union {None}]]
    /\ msgq \in Seq([op : {"on", "off"}, type : Types, by : Users])
    /\ cored \in [busy : BOOLEAN, curr : SUBSET Types]
    /\ cbq \in 0..1
    /\ cb \in [pc : {"idle", "pre", "wait", "force", "on", "waitpost", "end"},
               todo : SUBSET Types, drv_pwr_state : SUBSET Types]
    /\ subq \in [Types -> Seq({"pre", "post"})]
    /\ rst_state \in 0..AllDone

(* conninfra_core_init; with CONFIG_CONNINFRA_AUTO_UP conninfra_dev_init   *)
(* has then powered the common part on.                                    *)
Init ==
    /\ use \in Uses
    /\ drv_status = [d \in Types |-> use.auto_up /\ d = CONNINFRA]
    /\ infra_drv_status = use.auto_up
    /\ hw = [top |-> use.auto_up, wf |-> FALSE] /\ core_lock = FALSE
    /\ rst_status = "NONE" /\ trg_drv = None /\ ops_cb = {}
    /\ user = [u \in Users |-> Idle]
    /\ msgq = <<>> /\ cored = [busy |-> FALSE, curr |-> {}]
    /\ cbq = 0 /\ cb = [pc |-> "idle", todo |-> {}, drv_pwr_state |-> {}]
    /\ subq = [d \in Types |-> <<>>]
    /\ rst_state = 0 /\ done = {} /\ told = {}
    /\ calls = 0 /\ resets = 0 /\ owner = None /\ unsent = FALSE /\ served = FALSE
-----------------------------------------------------------------------------
(* Power, under core_lock *)

(* consys_hw_pwr_on: the first radio brings up the common part only.       *)
HwPwrOn(curr, d) ==
    IF curr = {} THEN [hw EXCEPT !.top = TRUE]
    ELSE IF d = WIFI THEN [hw EXCEPT !.wf = TRUE] ELSE hw

(* consys_hw_pwr_off: the last radio puts the whole chip into reset.       *)
HwPwrOff(curr, d) ==
    IF curr \ {d} = {} THEN [top |-> FALSE, wf |-> FALSE]
    ELSE IF d = WIFI THEN [hw EXCEPT !.wf = FALSE] ELSE hw

(* Mutant: the early return for a radio that is on forgets to unlock.      *)
PowerOnKeepsLock(d) ==
    /\ ~core_lock
    /\ core_lock' = drv_status[d]
    /\ IF drv_status[d]
       THEN UNCHANGED <<drv_status, infra_drv_status, hw>>
       ELSE /\ hw' = HwPwrOn(Status, d)
            /\ infra_drv_status' = TRUE
            /\ drv_status' = [drv_status EXCEPT ![d] = TRUE]

(* opfunc_power_on_internal *)
PowerOn(d) ==
    /\ ~core_lock
    /\ UNCHANGED core_lock
    /\ IF drv_status[d]
       THEN UNCHANGED <<drv_status, infra_drv_status, hw>>
       ELSE /\ hw' = HwPwrOn(Status, d)
            /\ infra_drv_status' = TRUE
            /\ drv_status' = [drv_status EXCEPT ![d] = TRUE]

(* opfunc_power_off_internal of the common part, "force power off".  When  *)
(* the chip is off already it returns with core_lock locked.               *)
ForceOff ==
    /\ ~core_lock
    /\ IF ~infra_drv_status
       THEN /\ core_lock' = TRUE
            /\ UNCHANGED <<drv_status, infra_drv_status, hw>>
       ELSE /\ drv_status' = [d \in Types |-> FALSE]
            /\ hw' = HwPwrOff({}, CONNINFRA)
            /\ infra_drv_status' = FALSE
            /\ UNCHANGED core_lock

(* Mutant: whether a radio is left on is asked before this one is off.     *)
RadioOffAskedEarly(d, curr) ==
    /\ ~core_lock
    /\ UNCHANGED core_lock
    /\ IF ~drv_status[d]
       THEN UNCHANGED <<drv_status, infra_drv_status, hw>>
       ELSE /\ drv_status' = [drv_status EXCEPT ![d] = FALSE]
            /\ infra_drv_status' = (Status # {})
            /\ hw' = HwPwrOff(curr, d)

(* opfunc_power_off_internal of a radio.  curr is the status read before   *)
(* core_lock was taken; whether the chip goes off depends on it.           *)
RadioOff(d, curr) ==
    /\ ~core_lock
    /\ UNCHANGED core_lock
    /\ IF ~drv_status[d]
       THEN UNCHANGED <<drv_status, infra_drv_status, hw>>
       ELSE /\ drv_status' = [drv_status EXCEPT ![d] = FALSE]
            /\ infra_drv_status' = IF Status \ {d} = {} THEN FALSE ELSE infra_drv_status
            /\ hw' = HwPwrOff(curr, d)
-----------------------------------------------------------------------------
(* The API, src/conninfra.c *)

Goes(u, pc, d) == user' = [user EXCEPT ![u] = [pc |-> pc, type |-> d]]

(* conninfra_core_is_rst_locking *)
RstLocking == rst_status \in {"START", "PRE_CB", "RESET"}

(* conninfra_pwr_on and conninfra_pwr_off are refused while a reset is on  *)
(* the way; the request is sent in another step.                           *)
AskPower(u, op, d) ==
    /\ user[u].pc = "idle" /\ d \in use.asks /\ calls < use.calls
    /\ ~RstLocking
    /\ Goes(u, op, d)
    /\ calls' = calls + 1
    /\ UNCHANGED <<use, power, reset, ops_cb, msgq, cored, cbq, cb, subq, phase, resets, served>>

(* conninfra_core_power_on and _power_off: send, and wait.                 *)
SendPower(u) ==
    /\ user[u].pc \in {"on", "off"}
    /\ msgq' = Append(msgq, [op |-> user[u].pc, type |-> user[u].type, by |-> u])
    /\ Goes(u, "wait", user[u].type)
    /\ UNCHANGED <<use, power, reset, ops_cb, cored, cbq, cb, subq, phase, calls, resets, served>>

(* The send fails and the caller returns with an error; nothing is queued. *)
SendPowerFails(u) ==
    /\ user[u].pc \in {"on", "off"} /\ use.fails
    /\ Goes(u, "idle", None)
    /\ UNCHANGED <<use, power, reset, ops_cb, msgq, cored, cbq, cb, subq, phase, calls, resets, served>>

(* Mutant: the range of is_rst_locking is used.                            *)
LockRstToPostCb(u, d) ==
    /\ user[u].pc = "idle" /\ d \in use.trgs /\ resets < use.resets
    /\ ~RstLocking
    /\ rst_status' = "START" /\ owner' = d
    /\ Goes(u, "set", d)
    /\ resets' = resets + 1
    /\ UNCHANGED <<use, power, trg_drv, unsent, ops_cb, msgq, cored, cbq, cb, subq, phase, calls, served>>

(* conninfra_trigger_whole_chip_rst: conninfra_core_lock_rst, which fails  *)
(* while a reset is ongoing ...                                            *)
LockRst(u, d) ==
    /\ user[u].pc = "idle" /\ d \in use.trgs /\ resets < use.resets
    /\ rst_status = "NONE"
    /\ rst_status' = "START" /\ owner' = d
    /\ Goes(u, "set", d)
    /\ resets' = resets + 1
    /\ UNCHANGED <<use, power, trg_drv, unsent, ops_cb, msgq, cored, cbq, cb, subq, phase, calls, served>>

(* ... and conninfra_core_trg_chip_rst, which says who and sends.          *)
SetTrg(u) ==
    /\ user[u].pc = "set"
    /\ trg_drv' = user[u].type
    /\ Goes(u, "trg", user[u].type)
    /\ UNCHANGED <<use, power, rst_status, owner, unsent, ops_cb, msgq, cored, cbq, cb, subq,
                   phase, calls, resets, served>>

SendRst(u) ==
    /\ user[u].pc = "trg"
    /\ cbq' = cbq + 1
    /\ Goes(u, "idle", None)
    /\ UNCHANGED <<use, power, reset, ops_cb, msgq, cored, cb, subq, phase, calls, resets, served>>

(* The send fails: conninfra_core_trg_chip_rst returns an error, which     *)
(* conninfra_trigger_whole_chip_rst ignores.  rst_status stays as it is,   *)
(* and conninfra_core_unlock_rst, which would reset it, is not called.     *)
SendRstFails(u) ==
    /\ user[u].pc = "trg" /\ use.fails
    /\ Goes(u, "idle", None)
    /\ unsent' = TRUE
    /\ UNCHANGED <<use, power, rst_status, trg_drv, owner, ops_cb, msgq, cored, cbq, cb, subq,
                   phase, calls, resets, served>>

(* conninfra_sub_drv_ops_register and _unregister *)
Register(d) ==
    /\ d \in use.cbs
    /\ ops_cb' \in {ops_cb \union {d}, ops_cb \ {d}} \ {ops_cb}
    /\ UNCHANGED <<use, power, reset, user, msgq, cored, cbq, cb, subq, phase, calls, resets, served>>
-----------------------------------------------------------------------------
(* The thread conninfra_cored *)

(* It takes a request.  A power-off reads the status at once.              *)
CoredTake ==
    /\ ~cored.busy /\ msgq # <<>>
    /\ cored' = [busy |-> TRUE, curr |-> IF Head(msgq).op = "off" THEN Status ELSE {}]
    /\ UNCHANGED <<use, power, reset, ops_cb, user, msgq, cbq, cb, subq, phase, calls, resets, served>>

(* core_lock is free: the request is served, and its caller returns.       *)
CoredServe ==
    /\ cored.busy
    /\ LET m == Head(msgq) IN
       /\ IF m.op = "on" THEN PowerOn(m.type)
          ELSE IF m.type = CONNINFRA THEN ForceOff ELSE RadioOff(m.type, cored.curr)
       /\ Goes(m.by, "idle", None)
    /\ msgq' = Tail(msgq)
    /\ cored' = [busy |-> FALSE, curr |-> {}]
    /\ served' = TRUE
    /\ UNCHANGED <<use, reset, ops_cb, cbq, cb, subq, phase, calls, resets>>
-----------------------------------------------------------------------------
(* The radios' threads: the callback if there is one, then the bit *)

(* Mutant: a radio without callbacks does not report.                      *)
SubDoneIfCalled(d) ==
    IF d \in ops_cb THEN /\ rst_state' = rst_state + Bit(d)
                         /\ done' = done \union {d}
                    ELSE UNCHANGED <<rst_state, done>>

(* atomic_add to rst_state *)
SubDone(d) ==
    /\ rst_state' = rst_state + Bit(d)
    /\ done' = done \union {d}

(* opfunc_subdrv_pre_reset and opfunc_subdrv_post_reset *)
SubReset(d) ==
    /\ subq[d] # <<>>
    /\ told' = IF d \in ops_cb /\ Head(subq[d]) = "pre" THEN told \union {trg_drv} ELSE told
    /\ SubDone(d)
    /\ subq' = [subq EXCEPT ![d] = Tail(@)]
    /\ UNCHANGED <<use, power, reset, ops_cb, user, msgq, cored, cbq, cb, calls, resets, served>>
-----------------------------------------------------------------------------
(* The thread conninfra_cb: opfunc_chip_rst *)

CbGoes(pc, todo) == cb' = [cb EXCEPT !.pc = pc, !.todo = todo]

(* With no power there is nothing to reset.  Otherwise the pre phase       *)
(* begins.                                                                 *)
CbStart ==
    /\ cb.pc = "idle" /\ cbq > 0
    /\ cbq' = cbq - 1
    /\ IF ~infra_drv_status
       THEN /\ rst_status' = "NONE"
            /\ UNCHANGED <<cb, phase, served>>
       ELSE /\ rst_status' = "PRE_CB"
            /\ rst_state' = 0 /\ done' = {} /\ told' = {} /\ served' = FALSE
            /\ cb' = [pc |-> "pre", todo |-> Types, drv_pwr_state |-> {}]
    /\ UNCHANGED <<use, power, trg_drv, owner, unsent, ops_cb, user, msgq, cored, subq, calls, resets>>

(* One radio after the other: note whether it is on, and send.             *)
CbPre ==
    /\ cb.pc = "pre"
    /\ LET i == Min(cb.todo) IN
       /\ cb' = [pc |-> IF cb.todo = {i} THEN "wait" ELSE "pre", todo |-> cb.todo \ {i},
                 drv_pwr_state |-> cb.drv_pwr_state \union ({i} \intersect Status)]
       /\ subq' = [subq EXCEPT ![i] = Append(@, "pre")]
    /\ UNCHANGED <<use, power, reset, ops_cb, user, msgq, cored, cbq, phase, calls, resets, served>>

(* Mutant: one radio is not waited for.                                    *)
CbWaitNotAll ==
    /\ cb.pc = "wait"
    /\ rst_state >= AllDone - Bit(CONNINFRA)
    /\ rst_status' = "RESET"
    /\ CbGoes("force", {})
    /\ UNCHANGED <<use, power, trg_drv, owner, unsent, ops_cb, user, msgq, cored, cbq, subq,
                   phase, calls, resets, served>>

CbWait ==
    /\ cb.pc = "wait"
    /\ rst_state = AllDone
    /\ rst_status' = "RESET"
    /\ CbGoes("force", {})
    /\ UNCHANGED <<use, power, trg_drv, owner, unsent, ops_cb, user, msgq, cored, cbq, subq,
                   phase, calls, resets, served>>

CbForce ==
    /\ cb.pc = "force"
    /\ ForceOff
    /\ CbGoes("on", cb.drv_pwr_state)
    /\ UNCHANGED <<use, reset, ops_cb, user, msgq, cored, cbq, subq, phase, calls, resets, served>>

(* Mutant: the loop ends one radio early.                                  *)
CbOnButLast ==
    /\ cb.pc = "on" /\ cb.todo # {}
    /\ LET i == Min(cb.todo) IN
       /\ IF cb.todo = {i} THEN UNCHANGED power ELSE PowerOn(i)
       /\ CbGoes("on", cb.todo \ {i})
    /\ UNCHANGED <<use, reset, ops_cb, user, msgq, cored, cbq, subq, phase, calls, resets, served>>

CbOn ==
    /\ cb.pc = "on" /\ cb.todo # {}
    /\ LET i == Min(cb.todo) IN PowerOn(i) /\ CbGoes("on", cb.todo \ {i})
    /\ UNCHANGED <<use, reset, ops_cb, user, msgq, cored, cbq, subq, phase, calls, resets, served>>

(* Mutant: rst_state is not cleared for the second phase.                  *)
CbPostUncleared ==
    /\ cb.pc = "on" /\ cb.todo = {}
    /\ rst_status' = "POST_CB"
    /\ done' = {}
    /\ subq' = [d \in Types |-> Append(subq[d], "post")]
    /\ CbGoes("waitpost", {})
    /\ UNCHANGED <<use, power, trg_drv, owner, unsent, ops_cb, user, msgq, cored, cbq,
                   rst_state, told, calls, resets, served>>

CbPost ==
    /\ cb.pc = "on" /\ cb.todo = {}
    /\ rst_status' = "POST_CB"
    /\ rst_state' = 0 /\ done' = {}
    /\ subq' = [d \in Types |-> Append(subq[d], "post")]
    /\ CbGoes("waitpost", {})
    /\ UNCHANGED <<use, power, trg_drv, owner, unsent, ops_cb, user, msgq, cored, cbq, told,
                   calls, resets, served>>

(* reset_chip_rst_trg_data, and only then the reset is over.               *)
CbWaitPost ==
    /\ cb.pc = "waitpost"
    /\ rst_state = AllDone
    /\ trg_drv' = None
    /\ CbGoes("end", {})
    /\ UNCHANGED <<use, power, rst_status, owner, unsent, ops_cb, user, msgq, cored, cbq, subq,
                   phase, calls, resets, served>>

(* Mutant: the data of the trigger are cleared last.                       *)
CbEndClearsLast ==
    /\ cb.pc = "end"
    /\ \/ /\ rst_status # "NONE" /\ rst_status' = "NONE"
          /\ UNCHANGED <<cb, trg_drv>>
       \/ /\ trg_drv' = None
          /\ CbGoes("idle", {})
          /\ UNCHANGED rst_status
    /\ UNCHANGED <<use, power, owner, unsent, ops_cb, user, msgq, cored, cbq, subq, phase,
                   calls, resets, served>>

CbEnd ==
    /\ cb.pc = "end"
    /\ rst_status' = "NONE"
    /\ CbGoes("idle", {})
    /\ UNCHANGED <<use, power, trg_drv, owner, unsent, ops_cb, user, msgq, cored, cbq, subq,
                   phase, calls, resets, served>>
-----------------------------------------------------------------------------
UserStep(u) ==
    \/ SendPower(u) \/ SendPowerFails(u)
    \/ SetTrg(u) \/ SendRst(u) \/ SendRstFails(u)
CoredStep == CoredTake \/ CoredServe
CbStep == CbStart \/ CbPre \/ CbWait \/ CbForce \/ CbOn \/ CbPost \/ CbWaitPost \/ CbEnd

Next ==
    \/ \E u \in Users, d \in Types :
           AskPower(u, "on", d) \/ AskPower(u, "off", d) \/ LockRst(u, d)
    \/ \E u \in Users : UserStep(u)
    \/ \E d \in Types : Register(d) \/ SubReset(d)
    \/ CoredStep \/ CbStep

Spec == Init /\ [][Next]_vars

(* The driver's threads are kernel threads that are scheduled, callbacks   *)
(* return, and a call of the API that has begun goes on.                   *)
FairSpec ==
    /\ Spec
    /\ WF_vars(CoredStep) /\ WF_vars(CbStep)
    /\ \A u \in Users : WF_vars(UserStep(u))
    /\ \A d \in Types : WF_vars(SubReset(d))
-----------------------------------------------------------------------------
(* There is one reset at a time, and rst_status tells: it is not NONE      *)
(* exactly while a reset has been granted to a caller, is queued or runs,  *)
(* and from when the request of a granted reset could not be sent; from    *)
(* then on no reset is granted, queued or run any more.                    *)
(* conninfra_core_lock_rst is the only guard of this.                      *)
OneReset ==
    LET granted == {u \in Users : user[u].pc \in {"set", "trg"}}
        open == rst_status = "NONE"
    IN  /\ \A u, v \in granted : u = v
        /\ granted # {} => ~open /\ cbq = 0 /\ cb.pc = "idle"
        /\ cbq # 0 => ~open /\ cbq = 1 /\ cb.pc = "idle"
        /\ cb.pc # "idle" => ~open
        /\ ~open => granted # {} \/ cbq # 0 \/ cb.pc # "idle" \/ unsent
        /\ unsent => ~open /\ granted = {} /\ cbq = 0 /\ cb.pc = "idle"

(* Every pre callback is told the radio that triggered this very reset,    *)
(* although trg_drv is written without a lock.                             *)
TriggerIntact == cb.pc \in {"pre", "wait", "force"} => told \subseteq {owner}

(* rst_state, a sum of bits, is the set of the radios that are done: no    *)
(* radio is counted twice, in one phase or across two.                     *)
DoneCountedOnce == rst_state = Bits(done)

(* While the power is cut and restored no callback is running or pending;  *)
(* a pre callback is over before, a post callback comes after.             *)
QuietDuringReset ==
    /\ cb.pc \in {"force", "on"} => \A d \in Types : subq[d] = <<>>
    /\ cb.pc = "idle" => \A d \in Types : subq[d] = <<>>

(* A reset no power request runs into restores the power of exactly the    *)
(* radios that had it.                                                     *)
PowerRestored ==
    cb.pc \in {"waitpost", "end"} /\ ~served => Status = cb.drv_pwr_state

(* As long as there is no reset the chip is on, and recorded as on, if and *)
(* only if some radio is on: the two ways in which the last power-off is   *)
(* recognised (the status read before core_lock, the loop after it) agree. *)
ChipFollowsRadios ==
    resets = 0 => (hw.top <=> Status # {}) /\ (infra_drv_status <=> Status # {})

(* "do nothing for force off": a power-off that finds the chip off leaves  *)
(* core_lock as it was, so that the next request can take it.              *)
CoreLockReleased == ~core_lock

(* A reset that was granted ends, and the API is open again, unless the    *)
(* request for it could not be sent.                                       *)
ResetEnds == (rst_status # "NONE") ~> (rst_status = "NONE" \/ unsent)

(* A power request that was accepted is served.                            *)
RequestsServed == \A u \in Users : (user[u].pc = "wait") ~> (user[u].pc # "wait")
=============================================================================
