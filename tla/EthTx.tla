------------------------------- MODULE EthTx -------------------------------
(***************************************************************************)
(* The transmit side of the Ethernet driver (mtk_eth_soc.c): one ring of   *)
(* DMA descriptors shared by the network devices of the SoC.               *)
(*                                                                         *)
(* Actors: the stack calling mtk_start_xmit (serialised by page_lock), the *)
(* QDMA engine, the interrupt handler and the NAPI poll, the RTNL holder   *)
(* (mtk_open, mtk_stop and the reset work mtk_pending_work).               *)
(*                                                                         *)
(* The descriptors form a circle 0..N-1 (txd2 points to the next one).     *)
(* last_free_ptr always equals last_free where the code reads it, and the  *)
(* engine's DTX_PTR is the descriptor after DRX_PTR, so neither is a       *)
(* variable.  A dropped packet changes nothing but statistics.             *)
(***************************************************************************)
EXTENDS Integers, FiniteSets

CONSTANTS N,          \* MTK_DMA_SIZE
          Thresh,     \* ring->thresh (MAX_SKB_FRAGS)
          Budget,     \* NAPI budget of one poll
          MacCount,   \* MTK_MAC_COUNT
          Uses        \* what the users of the driver do (UseType)

Desc == 0 .. N - 1
Devs == 0 .. MacCount - 1

\* One way of using the driver: the devices there are, the numbers of
\* descriptors packets need (mtk_cal_txd_req), whether packets come in bursts
\* (netdev_xmit_more), the devices that are taken down, whether the frame
\* engine is reset, and whether mtk_open may fail in a reset.
UseType == [devs: SUBSET Devs, sizes: SUBSET (Nat \ {0}), bursts: BOOLEAN,
            downs: SUBSET Devs, resets: BOOLEAN, fails: BOOLEAN]

ASSUME NAssumption == N \in Nat /\ N >= 4
ASSUME CountAssumption == MacCount \in Nat \ {0} /\ Budget \in Nat \ {0}
ASSUME ThreshAssumption == Thresh \in Nat
ASSUME UsesAssumption ==
  \A u \in Uses : /\ u.devs \subseteq Devs /\ u.downs \subseteq Devs
                  /\ u.sizes \subseteq Nat \ {0}
                  /\ {u.bursts, u.resets, u.fails} \subseteq BOOLEAN

VARIABLES
  use,        \* the use of the driver in this behaviour
  alive,      \* ring->buf and ring->dma are allocated
  own,        \* owner bit of each descriptor: "cpu" or "hw"
  buf,        \* ring->buf[i].skb: "none", "skb" or "dummy"
  next_free, last_free, free_count,
  ctx, drx,   \* MTK_QTX_CTX_PTR (doorbell), MTK_QTX_DRX_PTR (released)
  dma_en,     \* TX_DMA_EN in MTK_QDMA_GLO_CFG
  status,     \* MTK_TX_DONE_INT in tx_int_status_reg
  mask,       \* MTK_TX_DONE_INT in tx_int_mask_reg
  stopped,    \* __QUEUE_STATE_DRV_XOFF of each device
  up,         \* netif_running, and the stack may hand packets over
  dma_refcnt,
  resetting,  \* MTK_RESETTING
  xmit,       \* the mtk_start_xmit that holds page_lock
  napi,       \* where the NAPI poll stands
  napi_on, missed,
  rearm,      \* napi_complete done, mtk_tx_irq_enable still to come
  dma, done,  \* locals of mtk_poll_tx_qdma
  stop,       \* the mtk_stop in progress
  rst, ri, restart  \* mtk_pending_work: its phase, loop index, restart bits

ring == <<alive, own, buf, next_free, last_free, free_count>>
hw == <<ctx, drx, dma_en, status>>
poll == <<napi, napi_on, missed, rearm, dma, done>>
work == <<use, rst, ri, restart, resetting>>
netdev == <<stopped, up, dma_refcnt>>
vars == <<ring, hw, mask, netdev, xmit, poll, stop, work>>

Idle == [pc |-> "none", dev |-> 0, n |-> 0, more |-> FALSE]
NoStop == [pc |-> "none", dev |-> 0]

Plus(i, k) == (i + k) % N
Dist(a, b) == (b - a) % N

\* The types of everything but the flags.
TypeOK ==
  /\ use \in Uses
  /\ own \in [Desc -> {"cpu", "hw"}]
  /\ buf \in [Desc -> {"none", "skb", "dummy"}]
  /\ next_free \in Desc /\ last_free \in Desc
  /\ ctx \in Desc /\ drx \in Desc /\ dma \in Desc
  /\ free_count \in Int /\ dma_refcnt \in Nat /\ done \in Nat
  /\ DOMAIN stopped = Devs /\ DOMAIN up = Devs
  /\ xmit.pc \in {"none", "map", "thresh", "stop"}
  /\ xmit.dev \in Devs /\ xmit.n \in Nat
  /\ napi \in {"idle", "sched", "read", "loop", "end"}
  /\ stop \in [pc: {"none", "txoff", "ref", "irq", "napi", "dma", "free"},
               dev: Devs]
  /\ rst \in {"idle", "wait", "stop", "open"}
  /\ ri \in 0 .. MacCount /\ restart \subseteq Devs

\* No device is up and the ring is not allocated.
Init ==
  /\ use \in Uses
  /\ alive = FALSE /\ own = [i \in Desc |-> "cpu"]
  /\ buf = [i \in Desc |-> "none"]
  /\ next_free = 0 /\ last_free = N - 1 /\ free_count = N - 2
  /\ ctx = 0 /\ drx = N - 1 /\ dma_en = FALSE
  /\ status = FALSE /\ mask = FALSE
  /\ stopped = [d \in Devs |-> FALSE] /\ up = [d \in Devs |-> FALSE]
  /\ dma_refcnt = 0 /\ resetting = FALSE
  /\ xmit = Idle
  /\ napi = "idle" /\ napi_on = FALSE /\ missed = FALSE /\ rearm = FALSE
  /\ dma = 0 /\ done = 0
  /\ stop = NoStop
  /\ rst = "idle" /\ ri = 0 /\ restart = {}

-----------------------------------------------------------------------------
(* mtk_start_xmit.  A packet that meets MTK_RESETTING is dropped: no step. *)

(* Mutant: MTK_RESETTING is not looked at.                                 *)
StartXmitUnchecked(d, n, more) ==
  /\ n \in use.sizes /\ (more => use.bursts)
  /\ xmit = Idle /\ up[d] /\ ~stopped[d]
  /\ xmit' = IF free_count <= n
             THEN [Idle EXCEPT !.pc = "stop", !.dev = d]
             ELSE [pc |-> "map", dev |-> d, n |-> n, more |-> more]
  /\ UNCHANGED <<ring, hw, mask, netdev, poll, stop, work>>

\* The stack hands a packet of n descriptors to device d.
StartXmit(d, n, more) ==
  /\ n \in use.sizes /\ (more => use.bursts)
  /\ xmit = Idle /\ up[d] /\ ~stopped[d]
  /\ ~resetting
  /\ xmit' = IF free_count <= n
             THEN [Idle EXCEPT !.pc = "stop", !.dev = d]
             ELSE [pc |-> "map", dev |-> d, n |-> n, more |-> more]
  /\ UNCHANGED <<ring, hw, mask, netdev, poll, stop, work>>

Taken == {Plus(next_free, k) : k \in 0 .. xmit.n - 1}

\* mtk_tx_map: fill the descriptors, account for them, ring the doorbell.
TxMap ==
  /\ xmit.pc = "map" /\ last_free \notin Taken
  /\ buf' = [i \in Desc |-> IF i = next_free THEN "skb"
                            ELSE IF i \in Taken THEN "dummy" ELSE buf[i]]
  /\ own' = [i \in Desc |-> IF i \in Taken THEN "hw" ELSE own[i]]
  /\ next_free' = Plus(next_free, xmit.n)
  /\ free_count' = free_count - xmit.n
  /\ ctx' = IF stopped[xmit.dev] \/ ~xmit.more THEN next_free' ELSE ctx
  /\ xmit' = [Idle EXCEPT !.pc = "thresh", !.dev = xmit.dev]
  /\ UNCHANGED <<alive, last_free, drx, dma_en, status, mask, netdev, poll,
                 stop, work>>

\* GSO head expansion or a DMA mapping failed, or the ring ran into last_free:
\* what was mapped is unwound and the packet dropped.
TxMapFail ==
  /\ xmit.pc = "map"
  /\ xmit' = Idle
  /\ UNCHANGED <<ring, hw, mask, netdev, poll, stop, work>>

\* The read of free_count that decides whether the queue is stopped.
TxThresh ==
  /\ xmit.pc = "thresh"
  /\ xmit' = IF free_count <= Thresh
             THEN [Idle EXCEPT !.pc = "stop", !.dev = xmit.dev] ELSE Idle
  /\ UNCHANGED <<ring, hw, mask, netdev, poll, stop, work>>

\* netif_stop_queue, after either test, and the release of page_lock.
TxStopQueue ==
  /\ xmit.pc = "stop"
  /\ stopped' = [stopped EXCEPT ![xmit.dev] = TRUE]
  /\ xmit' = Idle
  /\ UNCHANGED <<ring, hw, mask, up, dma_refcnt, poll, stop, work>>

-----------------------------------------------------------------------------
(* The QDMA engine: it sends up to the doorbell, hands each descriptor     *)
(* back (write-back is on, MTK_TX_WB_DDONE) and reports it in DRX_PTR.     *)
HwSend ==
  /\ dma_en /\ Plus(drx, 1) # ctx
  /\ drx' = Plus(drx, 1)
  /\ own' = [own EXCEPT ![drx'] = "cpu"]
  /\ status' = TRUE
  /\ UNCHANGED <<alive, buf, next_free, last_free, free_count, ctx, dma_en,
                 mask, netdev, xmit, poll, stop, work>>

\* mtk_handle_irq_tx: schedule the poll, or note that it was missed.
HandleIrqTx ==
  /\ mask /\ status
  /\ \/ /\ napi_on /\ napi = "idle"
        /\ mask' = FALSE /\ napi' = "sched"
        /\ UNCHANGED missed
     \/ /\ ~(napi_on /\ napi = "idle") /\ stop.pc # "napi" /\ ~missed
        /\ missed' = TRUE
        /\ UNCHANGED <<mask, napi>>
  /\ UNCHANGED <<ring, hw, netdev, xmit, napi_on, rearm, dma, done, stop, work>>

-----------------------------------------------------------------------------
(* mtk_napi_tx. *)

\* The interrupt status is acknowledged first ...
NapiAck ==
  /\ napi = "sched"
  /\ status' = FALSE /\ napi' = "read"
  /\ UNCHANGED <<ring, ctx, drx, dma_en, mask, netdev, xmit, napi_on, missed,
                 rearm, dma, done, stop, work>>

\* ... then mtk_poll_tx_qdma reads how far the engine has come.
PollRead ==
  /\ napi = "read"
  /\ dma' = drx /\ done' = 0 /\ napi' = "loop"
  /\ UNCHANGED <<ring, hw, mask, netdev, xmit, napi_on, missed, rearm, stop, work>>

(* Mutant: free_count counts packets, not descriptors.                     *)
PollFreeCountingPackets ==
  LET desc == Plus(last_free, 1) IN
  /\ napi = "loop" /\ last_free # dma /\ done < Budget
  /\ own[last_free] = "cpu" /\ buf[desc] # "none"
  /\ done' = IF buf[desc] = "skb" THEN done + 1 ELSE done
  /\ buf' = [buf EXCEPT ![desc] = "none"]
  /\ last_free' = desc /\ free_count' = free_count + (done' - done)
  /\ UNCHANGED <<alive, own, next_free, hw, mask, netdev, xmit, napi, napi_on,
                 missed, rearm, dma, stop, work>>

\* One turn of the loop of mtk_poll_tx_qdma: free the descriptor after
\* last_free.
PollFree ==
  LET desc == Plus(last_free, 1) IN
  /\ napi = "loop" /\ last_free # dma /\ done < Budget
  /\ own[last_free] = "cpu" /\ buf[desc] # "none"
  /\ done' = IF buf[desc] = "skb" THEN done + 1 ELSE done
  /\ buf' = [buf EXCEPT ![desc] = "none"]
  /\ last_free' = desc /\ free_count' = free_count + 1
  /\ UNCHANGED <<alive, own, next_free, hw, mask, netdev, xmit, napi, napi_on,
                 missed, rearm, dma, stop, work>>

(* Mutant: the interrupt status is acknowledged again after the loop.      *)
PollWakeAcking ==
  /\ napi = "loop"
  /\ \/ last_free = dma \/ done >= Budget
     \/ own[last_free] # "cpu" \/ buf[Plus(last_free, 1)] = "none"
  /\ stopped' = IF (\E d \in Devs : stopped[d]) /\ free_count > Thresh
                THEN [d \in Devs |-> FALSE] ELSE stopped
  /\ napi' = "end" /\ dma' = 0 /\ status' = FALSE
  /\ UNCHANGED <<ring, ctx, drx, dma_en, mask, up, dma_refcnt, xmit, napi_on,
                 missed, rearm, done, stop, work>>

\* The loop ends (nothing left, budget used up, or an early break), and
\* mtk_poll_tx wakes every queue when one is stopped and there is room.
PollWake ==
  /\ napi = "loop"
  /\ \/ last_free = dma \/ done >= Budget
     \/ own[last_free] # "cpu" \/ buf[Plus(last_free, 1)] = "none"
  /\ stopped' = IF (\E d \in Devs : stopped[d]) /\ free_count > Thresh
                THEN [d \in Devs |-> FALSE] ELSE stopped
  /\ napi' = "end" /\ dma' = 0
  /\ UNCHANGED <<ring, hw, mask, up, dma_refcnt, xmit, napi_on, missed, rearm,
                 done, stop, work>>

\* The end of mtk_napi_tx: poll again when the budget is used up or a new
\* completion is signalled (unless napi_disable waits), else napi_complete.
NapiEnd ==
  /\ napi = "end"
  /\ LET again == done = Budget \/ status
         completes == ~again \/ ~napi_on IN
       /\ napi' = IF completes /\ ~missed THEN "idle" ELSE "sched"
       /\ missed' = IF completes THEN FALSE ELSE missed
       /\ rearm' = IF ~again /\ ~missed THEN TRUE ELSE rearm
  /\ done' = 0
  /\ UNCHANGED <<ring, hw, mask, netdev, xmit, napi_on, dma, stop, work>>

\* mtk_tx_irq_enable after a napi_complete that returned true.
NapiRearm ==
  /\ rearm /\ rearm' = FALSE /\ mask' = TRUE
  /\ UNCHANGED <<ring, hw, netdev, xmit, napi, napi_on, missed, dma, done, stop, work>>

-----------------------------------------------------------------------------
(* mtk_open and mtk_stop, under the RTNL lock. *)
RtnlFree == stop = NoStop /\ rst \in {"idle", "wait"}

\* The ring as mtk_tx_alloc sets it up.
FreshRing ==
  /\ own' = [i \in Desc |-> "cpu"] /\ buf' = [i \in Desc |-> "none"]
  /\ next_free' = 0 /\ last_free' = N - 1 /\ free_count' = N - 2
  /\ ctx' = 0 /\ drx' = N - 1

\* mtk_start_dma, then napi_enable and mtk_tx_irq_enable.
StartDma ==
  /\ FreshRing /\ alive' = TRUE /\ dma_en' = TRUE
  /\ napi_on' = TRUE /\ mask' = TRUE

(* Mutant: the queue is not started.                                       *)
OpenNotStarting(d) ==
  /\ IF dma_refcnt = 0 THEN StartDma
     ELSE UNCHANGED <<ring, ctx, drx, dma_en, napi_on, mask>>
  /\ dma_refcnt' = dma_refcnt + 1
  /\ UNCHANGED <<stopped, status, xmit, napi, missed, rearm, dma, done, resetting>>

\* mtk_open: the first user brings the ring up.
Open(d) ==
  /\ IF dma_refcnt = 0 THEN StartDma
     ELSE UNCHANGED <<ring, ctx, drx, dma_en, napi_on, mask>>
  /\ dma_refcnt' = dma_refcnt + 1
  /\ stopped' = [stopped EXCEPT ![d] = FALSE]
  /\ UNCHANGED <<status, xmit, napi, missed, rearm, dma, done, resetting>>

\* ifconfig up (a failed mtk_open leaves the device down: no step).
UserUp(d) ==
  /\ RtnlFree /\ ~up[d] /\ d \in use.devs
  /\ Open(d)
  /\ up' = [up EXCEPT ![d] = TRUE]
  /\ UNCHANGED <<use, stop, rst, ri, restart>>

\* ifconfig down: the stack deactivates the queue, then calls mtk_stop.
UserDown(d) ==
  /\ RtnlFree /\ up[d] /\ d \in use.downs /\ (xmit # Idle => xmit.dev # d)
  /\ up' = [up EXCEPT ![d] = FALSE]
  /\ stop' = [pc |-> "txoff", dev |-> d]
  /\ UNCHANGED <<ring, hw, mask, stopped, dma_refcnt, xmit, poll, work>>

\* netif_tx_disable: waits for a transmission on this device.
StopTxOff ==
  /\ stop.pc = "txoff" /\ (xmit # Idle => xmit.dev # stop.dev)
  /\ stopped' = [stopped EXCEPT ![stop.dev] = TRUE]
  /\ stop' = [stop EXCEPT !.pc = "ref"]
  /\ UNCHANGED <<ring, hw, mask, up, dma_refcnt, xmit, poll, work>>

\* refcount_dec_and_test (it refuses to go below zero).
StopRef ==
  /\ stop.pc = "ref"
  /\ dma_refcnt' = IF dma_refcnt > 0 THEN dma_refcnt - 1 ELSE 0
  /\ stop' = IF dma_refcnt = 1 THEN [stop EXCEPT !.pc = "irq"] ELSE NoStop
  /\ UNCHANGED <<ring, hw, mask, stopped, up, xmit, poll, work>>

\* mtk_tx_irq_disable and the start of napi_disable.
StopIrq ==
  /\ stop.pc = "irq"
  /\ mask' = FALSE /\ napi_on' = FALSE
  /\ stop' = [stop EXCEPT !.pc = "napi"]
  /\ UNCHANGED <<ring, hw, netdev, xmit, napi, missed, rearm, dma, done, work>>

\* napi_disable returns once the poll is over.
StopNapi ==
  /\ stop.pc = "napi" /\ napi = "idle"
  /\ stop' = [stop EXCEPT !.pc = "dma"]
  /\ UNCHANGED <<ring, hw, mask, netdev, xmit, poll, work>>

\* mtk_stop_dma, under page_lock.  The engine stops when it is disabled: the
\* code waits for that for 200 ms, and would go on if it were still busy then.
StopDma ==
  /\ stop.pc = "dma" /\ xmit = Idle
  /\ dma_en' = FALSE
  /\ stop' = [stop EXCEPT !.pc = "free"]
  /\ UNCHANGED <<ring, ctx, drx, status, mask, netdev, xmit, poll, work>>

\* mtk_dma_free with mtk_tx_clean.  mtk_tx_alloc sets the pointers before
\* anyone reads them again, so their old values are forgotten here.
StopFree ==
  /\ stop.pc = "free"
  /\ FreshRing /\ alive' = FALSE
  /\ stop' = NoStop
  /\ UNCHANGED <<dma_en, status, mask, netdev, xmit, poll, work>>

-----------------------------------------------------------------------------
(* mtk_pending_work: the reset of the frame engine. *)

\* mtk_prepare_reset_fe, then the RTNL lock is dropped to wait for Wi-Fi.
ResetPrepare ==
  /\ use.resets
  /\ RtnlFree /\ rst = "idle" /\ xmit = Idle
  /\ mask' = FALSE /\ dma_en' = FALSE
  /\ stopped' = [d \in Devs |-> TRUE]
  /\ rst' = "wait"
  /\ UNCHANGED <<ring, ctx, drx, status, up, dma_refcnt, xmit, poll, stop, ri,
                 restart, resetting, use>>

\* The wait is over (answered or timed out) and the RTNL lock taken again.
ResetResume ==
  /\ RtnlFree /\ rst = "wait"
  /\ resetting' = TRUE /\ rst' = "stop" /\ ri' = 0 /\ restart' = {}
  /\ UNCHANGED <<ring, hw, mask, netdev, xmit, poll, stop, use>>

\* The loop that stops every running device and remembers it.
ResetStop ==
  /\ rst = "stop" /\ stop = NoStop /\ ri < MacCount
  /\ ri' = ri + 1
  /\ restart' = IF up[ri] THEN restart \cup {ri} ELSE restart
  /\ stop' = IF up[ri] THEN [pc |-> "txoff", dev |-> ri] ELSE stop
  /\ UNCHANGED <<ring, hw, mask, netdev, xmit, poll, rst, resetting,
                 use>>

\* mtk_hw_init: the engine is reset, all interrupts masked and cleared.
ResetInit ==
  /\ rst = "stop" /\ stop = NoStop /\ ri = MacCount
  /\ mask' = FALSE /\ status' = FALSE /\ dma_en' = FALSE
  /\ rst' = "open" /\ ri' = 0
  /\ UNCHANGED <<ring, ctx, drx, netdev, xmit, poll, stop, restart, resetting,
                 use>>

\* The loop that reopens the devices; one that fails is closed (dev_close,
\* which runs mtk_stop for it).
ResetOpen ==
  /\ rst = "open" /\ stop = NoStop /\ ri < MacCount
  /\ ri' = ri + 1
  /\ \/ /\ ri \in restart
        /\ Open(ri)
        /\ UNCHANGED <<up, stop>>
     \/ /\ ri \in restart /\ use.fails
        /\ up' = [up EXCEPT ![ri] = FALSE]
        /\ stop' = [pc |-> "txoff", dev |-> ri]
        /\ UNCHANGED <<ring, hw, mask, stopped, dma_refcnt, xmit, poll, resetting>>
     \/ /\ ri \notin restart
        /\ UNCHANGED <<ring, hw, mask, netdev, xmit, poll, stop, resetting>>
  /\ UNCHANGED <<use, rst, restart>>

\* The notifications, and MTK_RESETTING is cleared.
ResetDone ==
  /\ rst = "open" /\ stop = NoStop /\ ri = MacCount
  /\ resetting' = FALSE /\ rst' = "idle" /\ ri' = 0 /\ restart' = {}
  /\ UNCHANGED <<ring, hw, mask, netdev, xmit, poll, stop, use>>

-----------------------------------------------------------------------------
XmitStep == TxMap \/ TxMapFail \/ TxThresh \/ TxStopQueue
PollStep == NapiAck \/ PollRead \/ PollFree \/ PollWake \/ NapiEnd
StopStep == StopTxOff \/ StopRef \/ StopIrq \/ StopNapi \/ StopDma \/ StopFree
ResetStep == ResetResume \/ ResetStop \/ ResetInit \/ ResetOpen \/ ResetDone

Packets == UNION {u.sizes : u \in Uses}

Next ==
  \/ \E d \in Devs, n \in Packets, more \in BOOLEAN : StartXmit(d, n, more)
  \/ XmitStep \/ HwSend \/ HandleIrqTx \/ PollStep \/ NapiRearm
  \/ \E d \in Devs : UserUp(d) \/ UserDown(d)
  \/ StopStep \/ ResetPrepare \/ ResetStep

Spec == Init /\ [][Next]_vars

\* What the scheduler and the hardware owe: code that runs goes on running,
\* the engine sends what was rung, a pending unmasked interrupt is delivered,
\* and who waits for a queue's lock or for page_lock gets it in the end.
Fairness ==
  /\ WF_vars(XmitStep) /\ WF_vars(HwSend) /\ WF_vars(HandleIrqTx)
  /\ WF_vars(PollStep) /\ WF_vars(NapiRearm)
  /\ SF_vars(StopStep) /\ SF_vars(ResetStep)

FairSpec == Spec /\ Fairness

-----------------------------------------------------------------------------
(* Properties. *)

\* free_count is exactly the number of free descriptors less the two kept in
\* reserve, packets sit exactly in the descriptors between last_free and
\* next_free, the engine owns exactly those it has not released, and the
\* doorbell and the release pointer lie in between.  So mtk_tx_map never
\* overwrites a packet, and the poll never frees one still in flight.
RingExact ==
  alive =>
    LET used == Dist(last_free, next_free) IN
    /\ Dist(next_free, last_free) = free_count + 1
    /\ Dist(last_free, drx) < used
    /\ Dist(drx, ctx) >= 1 /\ Dist(drx, ctx) <= Dist(drx, next_free)
    /\ \A i \in Desc :
         /\ buf[i] # "none" <=> Dist(last_free, i) \in 1 .. used - 1
         /\ own[i] = "hw" <=> Dist(drx, i) \in 1 .. Dist(drx, next_free) - 1

\* No one uses the ring after mtk_dma_free: not a transmission past its
\* checks, not the poll, not the engine (which stops within the time that
\* mtk_stop_dma waits for it).
RingAlive ==
  (xmit.pc = "map" \/ napi \in {"read", "loop"} \/ dma_en) => alive

\* "only shutdown DMA if this is the last user": outside the reset's own
\* stop loop, mtk_stop takes the ring down only when no device is up.
LastUser ==
  (stop.pc \in {"irq", "napi", "dma", "free"} /\ rst # "stop")
    => \A d \in Devs : ~up[d]

Rung(i) == alive /\ Dist(last_free, i) >= 1
                 /\ Dist(last_free, i) < Dist(last_free, ctx)

\* A packet whose doorbell was rung is freed in the end: no order of
\* completion, acknowledgement, poll and reset loses the last interrupt.
\* (Packets are freed in ring order, so it is enough that freeing goes on
\* while one is outstanding.)
Reclaimed ==
  []<>(\A i \in Desc : ~Rung(i)) \/ []<><<PollFree \/ StopFree>>_vars

AllStopped == \A d \in Devs : up[d] => stopped[d]

\* When every queue is stopped while rung packets are outstanding, a queue
\* runs again (or all devices go down), provided the stack does not leave
\* packets without a doorbell for ever.
QueueWoken ==
  ([]<>(ctx = next_free)) =>
    ((AllStopped /\ \E i \in Desc : Rung(i))
       ~> (~AllStopped \/ \A d \in Devs : ~up[d]))
=============================================================================
