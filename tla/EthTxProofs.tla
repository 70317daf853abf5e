---------------------------- MODULE EthTxProofs ----------------------------
(* The ring of the Ethernet driver is up whenever somebody uses it, and    *)
(* its accounting is exact, for rings of any size, any number of devices   *)
(* and any use in which reopening a device after a reset does not fail.    *)
EXTENDS EthTx, FiniteSetTheorems, TLAPS

USE ZenonT(60)

(* Devices that hold a reference to the ring: those that run, less those a *)
(* reset has stopped, plus those it has reopened; and the one whose        *)
(* mtk_stop has not yet come to refcount_dec_and_test.                     *)
Serving ==
  {d \in Devs : \/ rst \in {"idle", "wait"} /\ up[d]
                \/ rst = "stop" /\ up[d] /\ d >= ri
                \/ rst = "open" /\ d \in restart /\ d < ri}
Stopping == {d \in Devs : stop.pc \in {"txoff", "ref"} /\ d = stop.dev}
Held == Serving \cup Stopping

Late == stop.pc \in {"irq", "napi", "dma", "free"}

(* The count is that of the devices that hold a reference, the ring is up  *)
(* while one does or the last mtk_stop has not freed it, and what mtk_stop *)
(* has switched off stays off until then.                                  *)
RefsExact ==
  /\ resetting <=> rst \in {"stop", "open"}
  /\ rst = "open" => stop.pc = "none"
  /\ rst \in {"stop", "open"} =>
       restart = {d \in Devs : up[d] /\ (rst = "stop" => d < ri)}
  /\ Serving \cap Stopping = {}
  /\ dma_refcnt = Cardinality(Held)
  /\ Late => Held = {}
  /\ alive <=> Held # {} \/ Late
Quiet ==
  /\ stop.pc \in {"napi", "dma", "free"} => ~napi_on
  /\ stop.pc \in {"dma", "free"} => napi = "idle"
  /\ stop.pc = "free" => xmit.pc # "map" /\ ~dma_en
  /\ (napi_on \/ dma_en \/ napi # "idle" \/ xmit.pc = "map") => alive

(* What the poll and a transmission have read of the ring still holds.     *)
ReadsHold ==
  /\ napi = "loop" => Dist(last_free, dma) <= Dist(last_free, drx)
  /\ xmit.pc = "map" => xmit.n \in 1 .. free_count - 1

Inv == TypeOK /\ (~use.fails => RefsExact /\ Quiet /\ RingExact /\ ReadsHold)
-----------------------------------------------------------------------------
(* Arithmetic of the circle of descriptors. *)

(* Dist without the modulus.                                               *)
LEMMA DistVal ==
  ASSUME NEW a \in Desc, NEW b \in Desc
  PROVE  Dist(a, b) = IF a <= b THEN b - a ELSE b - a + N
  <1>1. CASE a <= b
    <2>1. b - a \in 0 .. N - 1 BY SMTT(30), <1>1, NAssumption DEF Desc
    <2>2. (b - a) % N = b - a BY SMTT(30), <2>1, NAssumption
    <2> QED BY <1>1, <2>2 DEF Dist
  <1>2. CASE b < a
    <2>1. b - a \in Int /\ b - a < 0 /\ b - a >= -N BY SMTT(30), <1>2, NAssumption DEF Desc
    <2>2. (b - a) % N = b - a + N BY SMTT(30), <2>1, NAssumption
    <2>3. ~(a <= b) BY SMTT(30), <1>2, NAssumption DEF Desc
    <2> QED BY <2>2, <2>3 DEF Dist
  <1> QED BY SMTT(30), <1>1, <1>2, NAssumption DEF Desc

(* Plus without the modulus.                                               *)
LEMMA PlusVal ==
  ASSUME NEW a \in Desc, NEW k \in 0 .. N
  PROVE  /\ Plus(a, k) = IF a + k < N THEN a + k ELSE a + k - N
         /\ Plus(a, k) \in Desc
  <1>1. CASE a + k < N
    <2>1. a + k \in 0 .. N - 1 BY SMTT(30), <1>1, NAssumption DEF Desc
    <2>2. (a + k) % N = a + k BY SMTT(30), <2>1, NAssumption
    <2> QED BY <1>1, <2>1, <2>2 DEF Plus, Desc
  <1>2. CASE a + k >= N
    <2>1. a + k \in N .. 2 * N - 1 BY SMTT(30), <1>2, NAssumption DEF Desc
    <2>2. (a + k) % N = a + k - N
      <3>1. \A x \in N .. 2 * N - 1 : x % N = x - N BY SMTT(30), NAssumption
      <3> QED BY SMTT(30), <3>1, <2>1, NAssumption DEF Desc
    <2>3. ~(a + k < N) BY SMTT(30), <1>2, NAssumption DEF Desc
    <2>4. a + k - N \in 0 .. N - 1 BY SMTT(30), <1>2, NAssumption DEF Desc
    <2> QED BY <2>2, <2>3, <2>4 DEF Plus, Desc
  <1> QED BY SMTT(30), <1>1, <1>2, NAssumption DEF Desc

(* Adding any number of steps stays on the circle.                         *)
LEMMA PlusInDesc ==
  ASSUME NEW a \in Int, NEW k \in Int PROVE Plus(a, k) \in Desc
  <1>1. a + k \in Int BY SMTT(30)
  <1>2. (a + k) % N \in 0 .. N - 1 BY SMTT(30), <1>1, NAssumption
  <1> QED BY <1>2 DEF Plus, Desc

(* The next descriptor (txd2), without the modulus.                        *)
LEMMA NextInDesc ==
  ASSUME NEW a \in Desc
  PROVE  /\ Plus(a, 1) \in Desc
         /\ Plus(a, 1) = IF a = N - 1 THEN 0 ELSE a + 1
  <1>1. 1 \in 0 .. N BY SMTT(30), NAssumption
  <1>2. /\ Plus(a, 1) = IF a + 1 < N THEN a + 1 ELSE a + 1 - N
        /\ Plus(a, 1) \in Desc
    BY <1>1, PlusVal
  <1> QED BY SMTT(30), <1>2, NAssumption DEF Desc

(* Ways along the circle add up.                                           *)
LEMMA Around ==
  ASSUME NEW a \in Desc, NEW b \in Desc, NEW c \in Desc
  PROVE  /\ Dist(a, b) \in 0 .. N - 1
         /\ Dist(a, b) = 0 <=> a = b
         /\ Dist(a, c) = IF Dist(a, b) + Dist(b, c) < N THEN Dist(a, b) + Dist(b, c)
                                                       ELSE Dist(a, b) + Dist(b, c) - N
  <1>1. Dist(a, b) = IF a <= b THEN b - a ELSE b - a + N BY DistVal
  <1>2. Dist(b, c) = IF b <= c THEN c - b ELSE c - b + N BY DistVal
  <1>3. Dist(a, c) = IF a <= c THEN c - a ELSE c - a + N BY DistVal
  <1> QED BY SMTT(30), <1>1, <1>2, <1>3, NAssumption DEF Desc

(* The way to a descriptor k further on.                                   *)
LEMMA Ahead ==
  ASSUME NEW a \in Desc, NEW b \in Desc, NEW k \in 0 .. N - 1
  PROVE  Dist(a, Plus(b, k)) = IF Dist(a, b) + k < N THEN Dist(a, b) + k
                                                    ELSE Dist(a, b) + k - N
  <1>1. k \in 0 .. N BY SMTT(30), NAssumption
  <1>2. /\ Plus(b, k) = IF b + k < N THEN b + k ELSE b + k - N
        /\ Plus(b, k) \in Desc
    BY <1>1, PlusVal
  <1>3. Dist(a, b) = IF a <= b THEN b - a ELSE b - a + N BY DistVal
  <1>4. Dist(a, Plus(b, k)) = IF a <= Plus(b, k) THEN Plus(b, k) - a ELSE Plus(b, k) - a + N
    BY <1>2, DistVal
  <1> QED BY SMTT(30), <1>2, <1>3, <1>4, NAssumption DEF Desc

(* The way from the next descriptor.                                       *)
LEMMA Behind ==
  ASSUME NEW a \in Desc, NEW i \in Desc
  PROVE  Dist(Plus(a, 1), i) = IF a = i THEN N - 1 ELSE Dist(a, i) - 1
  <1>1. Plus(a, 1) \in Desc /\ Plus(a, 1) = IF a = N - 1 THEN 0 ELSE a + 1
    BY NextInDesc
  <1>2. Dist(a, i) = IF a <= i THEN i - a ELSE i - a + N BY DistVal
  <1>3. Dist(Plus(a, 1), i) = IF Plus(a, 1) <= i THEN i - Plus(a, 1) ELSE i - Plus(a, 1) + N
    BY <1>1, DistVal
  <1> QED BY SMTT(30), <1>1, <1>2, <1>3, NAssumption DEF Desc
-----------------------------------------------------------------------------
(* Types.                                                                  *)
LEMMA TypeInit == Init => TypeOK
  BY SMTT(30), NAssumption, CountAssumption DEF Init, TypeOK, Desc, Devs, Idle, NoStop

(* A fresh ring is well typed.                                             *)
LEMMA FreshType ==
  ASSUME FreshRing
  PROVE  /\ own' \in [Desc -> {"cpu", "hw"}]
         /\ buf' \in [Desc -> {"none", "skb", "dummy"}]
         /\ next_free' \in Desc /\ last_free' \in Desc /\ ctx' \in Desc /\ drx' \in Desc
         /\ free_count' \in Int
  BY SMTT(30), NAssumption DEF FreshRing, Desc

(* mtk_open keeps the types.                                               *)
LEMMA OpenType ==
  ASSUME TypeOK, NEW d \in Devs, Open(d), use' = use, DOMAIN up' = Devs,
         stop' = stop, rst' = rst, restart' = restart, ri' \in 0 .. MacCount
  PROVE  TypeOK'
  <1>1. CASE dma_refcnt = 0
    BY SMTT(30), <1>1, FreshType DEF TypeOK, Open, StartDma
  <1>2. CASE dma_refcnt # 0
    BY SMTT(30), <1>2 DEF TypeOK, Open, ring
  <1> QED BY <1>1, <1>2

(* Every step keeps the types. *)
LEMMA TypeNext ==
  ASSUME TypeOK, [Next]_vars PROVE TypeOK'
  <1> USE DEF ring, hw, poll, work, netdev, vars
  <1>1. ASSUME NEW d \in Devs, NEW n \in Packets, NEW more \in BOOLEAN,
               StartXmit(d, n, more)
        PROVE  TypeOK'
    <2>1. n \in Nat BY UsesAssumption DEF Packets
    <2>2. xmit'.pc \in {"none", "map", "thresh", "stop"} /\ xmit'.dev \in Devs /\ xmit'.n \in Nat
      BY <1>1, <2>1 DEF StartXmit, Idle
    <2> QED BY <1>1, <2>2 DEF StartXmit, TypeOK
  <1>2. ASSUME XmitStep PROVE TypeOK'
    <2>1. CASE TxMap
      <3>0. next_free \in Int /\ xmit.n \in Int BY SMTT(30), NAssumption DEF TypeOK, Desc
      <3>1. Plus(next_free, xmit.n) \in Desc BY <3>0, PlusInDesc
      <3>2. xmit'.pc \in {"none", "map", "thresh", "stop"} /\ xmit'.dev \in Devs /\ xmit'.n \in Nat
        BY <2>1 DEF TxMap, TypeOK, Idle
      <3>3. /\ own' \in [Desc -> {"cpu", "hw"}]
            /\ buf' \in [Desc -> {"none", "skb", "dummy"}]
        BY <2>1 DEF TxMap, TypeOK
      <3> QED BY SMTT(30), <2>1, <3>1, <3>2, <3>3 DEF TxMap, TypeOK
    <2>2. CASE TxMapFail
      BY SMTT(30), <2>2, CountAssumption DEF TxMapFail, TypeOK, Idle, Devs
    <2>3. CASE TxThresh
      BY SMTT(30), <2>3, CountAssumption DEF TxThresh, TypeOK, Idle, Devs
    <2>4. CASE TxStopQueue
      BY SMTT(30), <2>4, CountAssumption DEF TxStopQueue, TypeOK, Idle, Devs
    <2> QED BY <1>2, <2>1, <2>2, <2>3, <2>4 DEF XmitStep
  <1>3. ASSUME HwSend PROVE TypeOK'
    <2>1. Plus(drx, 1) \in Desc BY NextInDesc DEF TypeOK
    <2> QED BY <1>3, <2>1 DEF HwSend, TypeOK
  <1>4. ASSUME HandleIrqTx PROVE TypeOK'
    BY <1>4 DEF HandleIrqTx, TypeOK
  <1>5. ASSUME PollStep PROVE TypeOK'
    <2>1. CASE NapiAck BY <2>1 DEF NapiAck, TypeOK
    <2>2. CASE PollRead BY <2>2 DEF PollRead, TypeOK
    <2>3. CASE PollFree
      <3>1. Plus(last_free, 1) \in Desc BY NextInDesc DEF TypeOK
      <3> QED BY SMTT(30), <2>3, <3>1 DEF PollFree, TypeOK
    <2>4. CASE PollWake BY SMTT(30), <2>4, NAssumption DEF PollWake, TypeOK, Desc
    <2>5. CASE NapiEnd BY <2>5 DEF NapiEnd, TypeOK
    <2> QED BY <1>5, <2>1, <2>2, <2>3, <2>4, <2>5 DEF PollStep
  <1>6. ASSUME NapiRearm PROVE TypeOK'
    BY <1>6 DEF NapiRearm, TypeOK
  <1>7. ASSUME NEW d \in Devs, UserUp(d) PROVE TypeOK'
    <2>1. DOMAIN up' = Devs BY <1>7 DEF UserUp, TypeOK
    <2>2. Open(d) /\ use' = use /\ stop' = stop /\ rst' = rst /\ restart' = restart
      BY <1>7 DEF UserUp
    <2>3. ri' \in 0 .. MacCount BY <1>7 DEF UserUp, TypeOK
    <2> QED BY <2>1, <2>2, <2>3, OpenType
  <1>8. ASSUME NEW d \in Devs, UserDown(d) PROVE TypeOK'
    BY <1>8 DEF UserDown, TypeOK
  <1>9. ASSUME StopStep PROVE TypeOK'
    <2>1. CASE StopTxOff BY <2>1 DEF StopTxOff, TypeOK
    <2>2. CASE StopRef
      BY SMTT(30), <2>2, CountAssumption DEF StopRef, TypeOK, NoStop, Devs
    <2>3. CASE StopIrq BY <2>3 DEF StopIrq, TypeOK
    <2>4. CASE StopNapi BY <2>4 DEF StopNapi, TypeOK
    <2>5. CASE StopDma BY <2>5 DEF StopDma, TypeOK
    <2>6. CASE StopFree
      BY SMTT(30), <2>6, FreshType, CountAssumption DEF StopFree, TypeOK, NoStop, Devs
    <2> QED BY <1>9, <2>1, <2>2, <2>3, <2>4, <2>5, <2>6 DEF StopStep
  <1>10. ASSUME ResetPrepare PROVE TypeOK'
    BY <1>10 DEF ResetPrepare, TypeOK
  <1>11. ASSUME ResetStep PROVE TypeOK'
    <2>1. CASE ResetResume
      BY SMTT(30), <2>1, CountAssumption DEF ResetResume, TypeOK
    <2>2. CASE ResetStop
      <3>1. ri \in Devs /\ ri + 1 \in 0 .. MacCount
        BY SMTT(30), <2>2, CountAssumption DEF ResetStop, TypeOK, Devs
      <3> QED BY <2>2, <3>1 DEF ResetStop, TypeOK
    <2>3. CASE ResetInit
      BY SMTT(30), <2>3, CountAssumption DEF ResetInit, TypeOK
    <2>4. CASE ResetOpen
      <3>1. ri \in Devs /\ ri + 1 \in 0 .. MacCount
        BY SMTT(30), <2>4, CountAssumption DEF ResetOpen, TypeOK, Devs
      <3>2. CASE Open(ri) /\ UNCHANGED <<up, stop>>
        <4>1. use' = use /\ rst' = rst /\ restart' = restart /\ ri' \in 0 .. MacCount
          BY <2>4, <3>1 DEF ResetOpen
        <4>2. DOMAIN up' = Devs /\ stop' = stop BY <3>2 DEF TypeOK
        <4> QED BY <3>1, <3>2, <4>1, <4>2, OpenType
      <3>3. CASE ~(Open(ri) /\ UNCHANGED <<up, stop>>)
        BY SMTT(30), <2>4, <3>1, <3>3 DEF ResetOpen, TypeOK
      <3> QED BY <3>2, <3>3
    <2>5. CASE ResetDone
      BY SMTT(30), <2>5, CountAssumption DEF ResetDone, TypeOK
    <2> QED BY <1>11, <2>1, <2>2, <2>3, <2>4, <2>5 DEF ResetStep
  <1>12. ASSUME UNCHANGED vars PROVE TypeOK'
    BY <1>12 DEF TypeOK
  <1> QED BY <1>1, <1>2, <1>3, <1>4, <1>5, <1>6, <1>7, <1>8, <1>9, <1>10, <1>11,
             <1>12 DEF Next
-----------------------------------------------------------------------------
(* The reset opens devices of the chip.                                    *)
LEMMA OpensDevice ==
  ASSUME TypeOK, ResetOpen
  PROVE  ri \in Devs
  <1>1. ri \in 0 .. MacCount BY DEF TypeOK
  <1>2. ri < MacCount BY DEF ResetOpen
  <1> QED BY SMTT(30), <1>1, <1>2, CountAssumption DEF Devs

(* The reference count.                                                    *)
LEMMA CountDevs ==
  ASSUME NEW S, S \subseteq Devs, NEW d \in Devs
  PROVE  /\ Cardinality(S) \in Nat
         /\ Cardinality(S) = 0 <=> S = {}
         /\ d \notin S => Cardinality(S \cup {d}) = Cardinality(S) + 1
         /\ d \in S => /\ Cardinality(S \ {d}) = Cardinality(S) - 1
                       /\ Cardinality(S) = 1 <=> S \ {d} = {}
  <1>1. IsFiniteSet(Devs) BY SMTT(30), FS_Interval, CountAssumption DEF Devs
  <1>2. IsFiniteSet(S) BY <1>1, FS_Subset
  <1>3. Cardinality(S) \in Nat BY <1>2, FS_CardinalityType
  <1>4. Cardinality(S) = 0 <=> S = {} BY <1>2, FS_EmptySet
  <1>5. d \notin S => Cardinality(S \cup {d}) = Cardinality(S) + 1
    BY <1>2, FS_AddElement
  <1>6. /\ IsFiniteSet(S \ {d})
        /\ d \in S => Cardinality(S \ {d}) = Cardinality(S) - 1
    BY <1>2, FS_RemoveElement
  <1>7. Cardinality(S \ {d}) = 0 <=> S \ {d} = {} BY <1>6, FS_EmptySet
  <1> QED BY SMTT(30), <1>3, <1>4, <1>5, <1>6, <1>7

(* Steps that leave the devices, the reset work and the ring's life alone. *)
LEMMA RefsFrame ==
  ASSUME RefsExact,
         UNCHANGED <<rst, ri, restart, up, stop, dma_refcnt, alive, resetting>>
  PROVE  RefsExact'
  BY DEF RefsExact, Serving, Stopping, Held, Late

(* mtk_open of one more device.                                            *)
LEMMA OpenRefs ==
  ASSUME TypeOK, RefsExact, stop.pc = "none", stop' = stop,
         NEW d \in Devs, Open(d), d \notin Serving, Serving' = Serving \cup {d}
  PROVE  /\ Serving' \cap Stopping' = {}
         /\ dma_refcnt' = Cardinality(Held')
         /\ ~Late'
         /\ Held' # {} /\ alive'
  <1>1. Stopping = {} /\ Stopping' = {} /\ ~Late /\ ~Late' BY DEF Stopping, Late
  <1>2. Held = Serving /\ Held' = Held \cup {d} /\ Held \subseteq Devs
    BY <1>1 DEF Held, Serving
  <1>3. dma_refcnt' = Cardinality(Held')
    <2>1. dma_refcnt' = dma_refcnt + 1 BY DEF Open
    <2>2. Cardinality(Held \cup {d}) = Cardinality(Held) + 1 BY <1>2, CountDevs
    <2> QED BY <1>2, <2>1, <2>2 DEF RefsExact
  <1>4. alive'
    <2>1. CASE dma_refcnt = 0 BY <2>1 DEF Open, StartDma
    <2>2. CASE dma_refcnt # 0
      <3>1. Held # {} BY <2>2, <1>2, CountDevs DEF RefsExact
      <3> QED BY <2>2, <3>1 DEF RefsExact, Open, ring
    <2> QED BY <2>1, <2>2
  <1> QED BY <1>1, <1>2, <1>3, <1>4

(* Steps of mtk_stop.                                                      *)
LEMMA StopRefs ==
  ASSUME TypeOK, RefsExact, StopStep
  PROVE  RefsExact'
  <1> USE DEF ring, hw, poll, work, netdev
  <1>1. UNCHANGED <<rst, ri, restart, up, resetting>>
    BY DEF StopStep, StopTxOff, StopRef, StopIrq, StopNapi, StopDma, StopFree
  <1>2. Serving' = Serving BY <1>1 DEF Serving
  <1>3. rst # "open"
    BY DEF StopStep, StopTxOff, StopRef, StopIrq, StopNapi, StopDma, StopFree, RefsExact
  <1>4. CASE StopTxOff
    <2>1. Stopping' = Stopping /\ ~Late /\ ~Late' BY <1>4
      DEF StopTxOff, Stopping, Late, TypeOK
    <2>2. Held' = Held BY <1>2, <2>1 DEF Held
    <2> QED BY SMTT(30), <1>4, <1>1, <1>2, <1>3, <2>1, <2>2 DEF RefsExact, StopTxOff
  <1>5. CASE StopRef
    <2> DEFINE d == stop.dev
    <2>1. d \in Devs /\ Stopping = {d} /\ ~Late BY <1>5 DEF StopRef, Stopping, Late, TypeOK
    <2>2. Stopping' = {} BY SMTT(30), <1>5 DEF StopRef, Stopping, NoStop
    <2>3. d \in Held /\ Held' = Held \ {d} /\ Held \subseteq Devs
      BY <1>2, <2>1, <2>2 DEF Held, RefsExact, Serving
    <2>4. /\ Cardinality(Held) \in Nat /\ Cardinality(Held) # 0
          /\ Cardinality(Held') = Cardinality(Held) - 1
          /\ Cardinality(Held) = 1 <=> Held' = {}
      BY <2>1, <2>3, CountDevs
    <2>5. dma_refcnt' = Cardinality(Held') BY SMTT(30), <1>5, <2>4 DEF StopRef, RefsExact
    <2>6. Late' <=> Held' = {} BY <1>5, <2>4 DEF StopRef, RefsExact, Late, NoStop, TypeOK
    <2>7. alive /\ alive' = alive BY <1>5, <2>3 DEF StopRef, RefsExact
    <2> QED BY <1>1, <1>2, <1>3, <2>2, <2>5, <2>6, <2>7 DEF RefsExact
  <1>6. CASE StopIrq \/ StopNapi \/ StopDma
    <2>1. /\ Late /\ Late' /\ Stopping' = Stopping /\ alive' = alive
          /\ dma_refcnt' = dma_refcnt
      BY <1>6 DEF StopIrq, StopNapi, StopDma, Late, Stopping, TypeOK
    <2>2. Held' = Held BY <1>2, <2>1 DEF Held
    <2> QED BY <1>1, <1>2, <1>3, <2>1, <2>2 DEF RefsExact
  <1>7. CASE StopFree
    <2>1. /\ Late /\ ~Late' /\ Stopping = {} /\ Stopping' = {}
          /\ ~alive' /\ dma_refcnt' = dma_refcnt
      BY <1>7 DEF StopFree, Late, Stopping, NoStop
    <2>2. Held' = Held /\ Held = {} BY <1>2, <2>1 DEF Held, RefsExact
    <2> QED BY <1>1, <1>2, <1>3, <2>1, <2>2 DEF RefsExact
  <1> QED BY <1>4, <1>5, <1>6, <1>7 DEF StopStep

(* A user who takes a device up or down keeps the references exact. *)
LEMMA UserRefs ==
  ASSUME TypeOK, RefsExact, NEW d \in Devs, UserUp(d) \/ UserDown(d)
  PROVE  RefsExact'
  <1> USE DEF ring, hw, poll, work, netdev
  <1>1. stop = NoStop /\ stop.pc = "none" /\ rst \in {"idle", "wait"}
    BY SMTT(30) DEF UserUp, UserDown, RtnlFree, NoStop
  <1>2. CASE UserUp(d)
    <2>1. UNCHANGED <<stop, rst, ri, restart, resetting>> BY <1>2 DEF UserUp, Open
    <2>2. d \notin Serving BY <1>1, <1>2 DEF UserUp, Serving
    <2>3. \A e \in Devs : up'[e] <=> up[e] \/ e = d BY <1>2 DEF UserUp, TypeOK
    <2>4. Serving' = Serving \cup {d} BY <1>1, <2>1, <2>3 DEF Serving
    <2>5. Open(d) BY <1>2 DEF UserUp
    <2>6. /\ Serving' \cap Stopping' = {}
          /\ dma_refcnt' = Cardinality(Held')
          /\ ~Late' /\ Held' # {} /\ alive'
      BY <1>1, <2>1, <2>2, <2>4, <2>5, OpenRefs
    <2> QED BY <1>1, <2>1, <2>6 DEF RefsExact
  <1>3. CASE UserDown(d)
    <2>1. UNCHANGED <<rst, ri, restart, resetting, dma_refcnt, alive>>
      BY <1>3 DEF UserDown
    <2>2. /\ stop'.pc = "txoff" /\ stop'.dev = d
          /\ up[d] /\ \A e \in Devs : up'[e] <=> up[e] /\ e # d
      BY <1>3 DEF UserDown, TypeOK
    <2>3. /\ d \in Serving /\ Serving' = Serving \ {d}
          /\ Stopping = {} /\ Stopping' = {d} /\ ~Late /\ ~Late'
      BY <1>1, <2>1, <2>2 DEF Serving, Stopping, Late
    <2>4. Held' = Held BY <2>3 DEF Held
    <2> QED BY <1>1, <2>1, <2>3, <2>4 DEF RefsExact
  <1> QED BY <1>2, <1>3

(* So does every step of the reset work, as long as no mtk_open fails in it. *)
LEMMA ResetRefs ==
  ASSUME TypeOK, RefsExact, ~use.fails, ResetPrepare \/ ResetStep
  PROVE  RefsExact'
  <1> USE DEF ring, hw, poll, work, netdev
  <1>1. stop = NoStop /\ stop.pc = "none"
    BY SMTT(30) DEF ResetPrepare, ResetStep, ResetResume, ResetStop, ResetInit, ResetOpen,
           ResetDone, RtnlFree, NoStop
  <1>2. Stopping = {} /\ ~Late BY <1>1 DEF Stopping, Late
  <1>3. up' = up
    BY DEF ResetPrepare, ResetStep, ResetResume, ResetStop, ResetInit, ResetOpen,
           ResetDone, RtnlFree, NoStop
  <1>4. ASSUME stop' = stop, Serving' = Serving, UNCHANGED <<dma_refcnt, alive>>,
               resetting' <=> rst' \in {"stop", "open"},
               rst' \in {"stop", "open"} =>
                 restart' = {d \in Devs : up'[d] /\ (rst' = "stop" => d < ri')}
        PROVE  RefsExact'
    <2>1. Stopping' = {} /\ ~Late' BY <1>1, <1>4 DEF Stopping, Late
    <2>2. Held' = Held BY <1>2, <1>4, <2>1 DEF Held
    <2> QED BY <1>1, <1>2, <1>4, <2>1, <2>2 DEF RefsExact
  <1>5. CASE ResetPrepare
    <2>1. Serving' = Serving BY <1>5, <1>3 DEF ResetPrepare, Serving
    <2> QED BY <1>4, <1>5, <2>1 DEF ResetPrepare, RefsExact
  <1>6. CASE ResetResume
    <2>1. Serving' = Serving BY SMTT(30), <1>6, <1>3 DEF ResetResume, Serving, Devs
    <2>2. restart' = {d \in Devs : up'[d] /\ (rst' = "stop" => d < ri')}
      BY SMTT(30), <1>6 DEF ResetResume, Devs
    <2> QED BY <1>4, <1>6, <2>1, <2>2 DEF ResetResume, RefsExact
  <1>7. CASE ResetInit
    <2>1. Serving' = Serving
      BY SMTT(30), <1>7, <1>3, CountAssumption DEF ResetInit, Serving, Devs
    <2>2. restart' = {d \in Devs : up'[d] /\ (rst' = "stop" => d < ri')}
      BY SMTT(30), <1>7, <1>3, CountAssumption DEF ResetInit, RefsExact, Devs
    <2> QED BY <1>4, <1>7, <2>1, <2>2 DEF ResetInit, RefsExact
  <1>8. CASE ResetDone
    <2>1. Serving' = Serving
      BY SMTT(30), <1>8, <1>3, CountAssumption DEF ResetDone, Serving, RefsExact, Devs
    <2> QED BY <1>4, <1>8, <2>1 DEF ResetDone, RefsExact
  <1>9. CASE ResetStop
    <2>1. ri \in Devs /\ ri' = ri + 1 /\ rst = "stop" /\ rst' = "stop"
      BY SMTT(30), <1>9, CountAssumption DEF ResetStop, TypeOK, Devs
    <2>2. UNCHANGED <<dma_refcnt, alive, resetting>> BY <1>9 DEF ResetStop
    <2>3. restart' = {d \in Devs : up'[d] /\ (rst' = "stop" => d < ri')}
      BY SMTT(30), <1>9, <1>3, <2>1, CountAssumption DEF ResetStop, RefsExact, Devs
    <2>4. CASE up[ri]
      <3>1. stop'.pc = "txoff" /\ stop'.dev = ri BY <1>9, <2>4 DEF ResetStop
      <3>2. /\ ri \in Serving /\ Serving' = Serving \ {ri}
            /\ Stopping' = {ri} /\ ~Late'
        BY SMTT(30), <1>3, <2>1, <2>4, <3>1, CountAssumption
          DEF Serving, Stopping, Late, Devs
      <3>3. Held' = Held BY <1>2, <3>2 DEF Held
      <3> QED BY <1>2, <2>1, <2>2, <2>3, <3>2, <3>3 DEF RefsExact
    <2>5. CASE ~up[ri]
      <3>1. Serving' = Serving
        BY SMTT(30), <1>3, <2>1, <2>5, CountAssumption DEF Serving, Devs
      <3>2. stop' = stop BY <1>9, <2>5 DEF ResetStop
      <3> QED BY <1>4, <2>1, <2>2, <2>3, <3>1, <3>2 DEF RefsExact
    <2> QED BY <2>4, <2>5
  <1>10. CASE ResetOpen
    <2>1. ri \in Devs /\ ri' = ri + 1 /\ rst = "open" /\ rst' = "open"
      BY SMTT(30), <1>10, CountAssumption DEF ResetOpen, TypeOK, Devs
    <2>2. UNCHANGED <<restart, resetting, stop>>
      BY <1>10 DEF ResetOpen, Open
    <2>3. CASE ri \in restart
      <3>1. Open(ri) BY <1>10, <2>3 DEF ResetOpen
      <3>2. ri \notin Serving /\ Serving' = Serving \cup {ri}
        BY SMTT(30), <2>1, <2>2, <2>3, CountAssumption DEF Serving, Devs
      <3>3. /\ Serving' \cap Stopping' = {}
            /\ dma_refcnt' = Cardinality(Held')
            /\ ~Late' /\ Held' # {} /\ alive'
        BY <1>1, <2>1, <2>2, <3>1, <3>2, OpenRefs
      <3> QED BY <1>1, <1>3, <2>1, <2>2, <3>3 DEF RefsExact
    <2>4. CASE ri \notin restart
      <3>1. Serving' = Serving
        BY SMTT(30), <2>1, <2>2, <2>4, CountAssumption DEF Serving, Devs
      <3>2. UNCHANGED <<dma_refcnt, alive>> BY <1>10, <2>4 DEF ResetOpen
      <3> QED BY <1>3, <1>4, <2>1, <2>2, <3>1, <3>2 DEF RefsExact
    <2> QED BY <2>3, <2>4
  <1> QED BY <1>5, <1>6, <1>7, <1>8, <1>9, <1>10 DEF ResetStep

(* Every step keeps the references exact. *)
LEMMA RefsNext ==
  ASSUME TypeOK, RefsExact, ~use.fails, [Next]_vars PROVE RefsExact'
  <1> USE DEF ring, hw, poll, work, netdev, vars
  <1>1. ASSUME \/ \E d \in Devs, n \in Packets, more \in BOOLEAN : StartXmit(d, n, more)
               \/ XmitStep \/ HwSend \/ HandleIrqTx \/ PollStep \/ NapiRearm
               \/ UNCHANGED vars
        PROVE  UNCHANGED <<rst, ri, restart, up, stop, dma_refcnt, alive, resetting>>
    BY <1>1 DEF StartXmit, XmitStep, TxMap, TxMapFail, TxThresh, TxStopQueue, HwSend,
         HandleIrqTx, PollStep, NapiAck, PollRead, PollFree, PollWake, NapiEnd, NapiRearm
  <1> QED BY <1>1, RefsFrame, UserRefs, StopRefs, ResetRefs DEF Next
-----------------------------------------------------------------------------
(* What mtk_stop has switched off stays off.                               *)
LEMMA QuietNext ==
  ASSUME TypeOK, RefsExact, Quiet, ~use.fails, [Next]_vars PROVE Quiet'
  <1> USE DEF ring, hw, poll, work, netdev, vars
  <1>1. ASSUME NEW d \in Devs, NEW n \in Packets, NEW more \in BOOLEAN,
               StartXmit(d, n, more)
        PROVE  Quiet'
    <2>1. rst \in {"idle", "wait"} /\ up[d]
      BY <1>1 DEF StartXmit, RefsExact, TypeOK
    <2>2. Held # {} BY <2>1 DEF Held, Serving
    <2>3. alive /\ stop.pc # "free" BY <2>2 DEF RefsExact, Late
    <2> QED BY <1>1, <2>3 DEF StartXmit, Quiet
  <1>2. CASE XmitStep
    <2>1. xmit'.pc # "map"
      <3>1. CASE TxMap BY <3>1 DEF TxMap, Idle
      <3>2. CASE TxThresh
        <4>1. CASE free_count <= Thresh BY <3>2, <4>1 DEF TxThresh, Idle
        <4>2. CASE ~(free_count <= Thresh) BY <3>2, <4>2 DEF TxThresh, Idle
        <4> QED BY <4>1, <4>2
      <3>3. CASE TxMapFail \/ TxStopQueue BY SMTT(30), <3>3 DEF TxMapFail, TxStopQueue, Idle
      <3> QED BY <1>2, <3>1, <3>2, <3>3 DEF XmitStep
    <2>2. UNCHANGED <<alive, napi, napi_on, dma_en, stop>>
      BY <1>2 DEF XmitStep, TxMap, TxMapFail, TxThresh, TxStopQueue
    <2> QED BY <2>1, <2>2 DEF Quiet
  <1>3. CASE HwSend \/ NapiRearm \/ UNCHANGED vars
    <2>1. UNCHANGED <<alive, napi, napi_on, dma_en, stop, xmit>>
      BY <1>3 DEF HwSend, NapiRearm
    <2> QED BY <2>1 DEF Quiet
  <1>4. CASE HandleIrqTx BY <1>4 DEF HandleIrqTx, Quiet
  <1>5. CASE PollStep
    <2>1. napi # "idle" /\ UNCHANGED <<alive, napi_on, dma_en, stop, xmit>>
      BY <1>5 DEF PollStep, NapiAck, PollRead, PollFree, PollWake, NapiEnd
    <2> QED BY <2>1 DEF Quiet
  <1>6. ASSUME NEW d \in Devs, Open(d), stop' = stop, stop.pc = "none"
        PROVE  Quiet'
    <2>1. UNCHANGED <<napi, xmit>> BY <1>6 DEF Open
    <2>2. CASE dma_refcnt = 0 BY <1>6, <2>1, <2>2 DEF Open, StartDma, Quiet
    <2>3. CASE dma_refcnt # 0 BY SMTT(30), <1>6, <2>1, <2>3 DEF Open, Quiet
    <2> QED BY <2>2, <2>3
  <1>7. ASSUME NEW d \in Devs, UserUp(d) PROVE Quiet'
    <2>1. Open(d) /\ stop' = stop /\ stop.pc = "none"
      BY <1>7 DEF UserUp, RtnlFree, NoStop
    <2> QED BY <1>6, <2>1
  <1>8. ASSUME NEW d \in Devs, UserDown(d) PROVE Quiet'
    BY <1>8 DEF UserDown, Quiet
  <1>9. CASE StopStep
    <2>1. CASE StopTxOff BY <2>1 DEF StopTxOff, Quiet, TypeOK
    <2>2. CASE StopRef BY <2>2 DEF StopRef, Quiet, TypeOK, NoStop
    <2>3. CASE StopIrq BY <2>3 DEF StopIrq, Quiet, TypeOK
    <2>4. CASE StopNapi BY <2>4 DEF StopNapi, Quiet, TypeOK
    <2>5. CASE StopDma BY <2>5 DEF StopDma, Quiet, TypeOK, Idle
    <2>6. CASE StopFree BY <2>6 DEF StopFree, Quiet, NoStop
    <2> QED BY <1>9, <2>1, <2>2, <2>3, <2>4, <2>5, <2>6 DEF StopStep
  <1>10. CASE ResetPrepare BY <1>10 DEF ResetPrepare, Quiet
  <1>11. CASE ResetStep
    <2>1. CASE ResetResume BY <2>1 DEF ResetResume, Quiet
    <2>2. CASE ResetStop BY <2>2 DEF ResetStop, Quiet, NoStop
    <2>3. CASE ResetInit BY <2>3 DEF ResetInit, Quiet
    <2>4. CASE ResetDone BY <2>4 DEF ResetDone, Quiet
    <2>5. CASE ResetOpen
      <3>1. ri \in Devs BY <2>5, OpensDevice
      <3>2. stop' = stop /\ stop.pc = "none" BY <2>5 DEF ResetOpen, NoStop
      <3>3. CASE Open(ri) BY <1>6, <3>1, <3>2, <3>3
      <3>4. CASE ~Open(ri) BY SMTT(30), <2>5, <3>4 DEF ResetOpen, Quiet
      <3> QED BY <3>3, <3>4
    <2> QED BY <1>11, <2>1, <2>2, <2>3, <2>4, <2>5 DEF ResetStep
  <1> QED BY <1>1, <1>2, <1>3, <1>4, <1>5, <1>7, <1>8, <1>9, <1>10, <1>11 DEF Next
-----------------------------------------------------------------------------
(* The accounting of the ring.                                             *)

(* A step that touches neither the ring nor its pointers keeps the accounting. *)
LEMMA RingFrame ==
  ASSUME RingExact, UNCHANGED <<ring, ctx, drx>> PROVE RingExact'
  BY DEF RingExact, ring, Dist, Desc

(* The ring mtk_tx_alloc sets up has exact accounting. *)
LEMMA FreshExact ==
  ASSUME FreshRing PROVE RingExact'
  <1>1. 0 \in Desc /\ N - 1 \in Desc BY SMTT(30), NAssumption DEF Desc
  <1>2. Dist(0, N - 1) = N - 1 /\ Dist(N - 1, 0) = 1 /\ Dist(N - 1, N - 1) = 0
    BY SMTT(30), <1>1, DistVal, NAssumption
  <1>3. /\ own' = [i \in Desc |-> "cpu"] /\ buf' = [i \in Desc |-> "none"]
        /\ next_free' = 0 /\ last_free' = N - 1 /\ free_count' = N - 2
        /\ ctx' = 0 /\ drx' = N - 1
    BY DEF FreshRing
  <1>4. Dist(last_free', next_free') = 1 /\ Dist(next_free', last_free') = N - 1
    BY <1>2, <1>3
  <1>5. Dist(last_free', drx') = 0 /\ Dist(drx', ctx') = 1 /\ Dist(drx', next_free') = 1
    BY <1>2, <1>3
  <1>6. ASSUME NEW i \in Desc
        PROVE /\ buf'[i] = "none" /\ own'[i] = "cpu" /\ ~(Dist(last_free', i) \in 1 .. 1 - 1)
              /\ ~(Dist(drx', i) \in 1 .. 1 - 1)
    BY SMTT(30), <1>3
  <1> QED BY SMTT(30), <1>3, <1>4, <1>5, <1>6, NAssumption DEF RingExact, Desc

(* The descriptors of a packet are the next ones.                          *)
LEMMA TakenVal ==
  ASSUME TypeOK, xmit.n \in 1 .. N, NEW i \in Desc
  PROVE  i \in Taken <=> Dist(next_free, i) < xmit.n
  <1>1. next_free \in Desc BY DEF TypeOK
  <1>2. ASSUME NEW k \in 0 .. xmit.n - 1
        PROVE  Plus(next_free, k) = i <=> Dist(next_free, i) = k
    <2>1. k \in 0 .. N /\ k < N BY SMTT(30), NAssumption DEF TypeOK
    <2>2. Plus(next_free, k) = IF next_free + k < N THEN next_free + k ELSE next_free + k - N
      BY <1>1, <2>1, PlusVal
    <2>3. Dist(next_free, i) = IF next_free <= i THEN i - next_free ELSE i - next_free + N
      BY <1>1, DistVal
    <2> QED BY SMTT(30), <1>1, <2>1, <2>2, <2>3, NAssumption DEF Desc
  <1>3. Dist(next_free, i) \in Nat BY SMTT(30), <1>1, DistVal, NAssumption DEF Desc
  <1> QED BY SMTT(30), <1>2, <1>3 DEF Taken, TypeOK

(* Where the pointers stand, seen from last_free.                          *)
LEMMA Places ==
  ASSUME TypeOK, RingExact, alive
  PROVE  LET u == Dist(last_free, next_free)
             r == Dist(last_free, drx)
         IN /\ u \in 1 .. N - 1 /\ r \in 0 .. u - 1
            /\ free_count = N - u - 1
            /\ Dist(drx, next_free) = u - r
            /\ Dist(drx, ctx) \in 1 .. u - r
  <1> DEFINE u == Dist(last_free, next_free)
             r == Dist(last_free, drx)
             f == Dist(next_free, last_free)
             t == Dist(drx, next_free)
             c == Dist(drx, ctx)
  <1>1. /\ last_free \in Desc /\ next_free \in Desc /\ drx \in Desc /\ ctx \in Desc
        /\ free_count \in Int
    BY DEF TypeOK
  <1>2. f = free_count + 1 /\ r < u /\ c >= 1 /\ c <= t BY DEF RingExact
  <1>3. u \in 0 .. N - 1 /\ r \in 0 .. N - 1 /\ f \in 0 .. N - 1 /\ t \in 0 .. N - 1 /\ c \in 0 .. N - 1
    BY <1>1, Around
  <1>4. Dist(last_free, last_free) = 0 BY <1>1, Around
  <1>5. 0 = IF u + f < N THEN u + f ELSE u + f - N BY SMTT(30), <1>1, <1>4, Around
  <1>6. u = IF r + t < N THEN r + t ELSE r + t - N BY SMTT(30), <1>1, Around
  <1> HIDE DEF u, r, f, t, c
  <1>7. u \in 1 .. N - 1 /\ r \in 0 .. u - 1 /\ free_count = N - u - 1 /\ t = u - r /\ c \in 1 .. u - r
    BY SMTT(30), <1>1, <1>2, <1>3, <1>5, <1>6, NAssumption
  <1> QED BY <1>7 DEF u, r, t, c

(* RingExact after a step, from the places of the pointers.                *)
LEMMA ExactAfter ==
  ASSUME NEW u \in Int, NEW t \in Int,
         Dist(last_free', next_free') = u, Dist(next_free', last_free') = free_count' + 1,
         Dist(last_free', drx') < u, Dist(drx', next_free') = t,
         Dist(drx', ctx') >= 1, Dist(drx', ctx') <= t,
         \A i \in Desc : /\ buf'[i] # "none" <=> Dist(last_free', i) \in 1 .. u - 1
                         /\ own'[i] = "hw" <=> Dist(drx', i) \in 1 .. t - 1
  PROVE  RingExact'
  BY DEF RingExact

(* mtk_tx_map takes free descriptors only, and counts them.                *)
LEMMA MapExact ==
  ASSUME TypeOK, RingExact, ReadsHold, alive, TxMap
  PROVE  RingExact'
  <1> DEFINE u == Dist(last_free, next_free)
             r == Dist(last_free, drx)
             n == xmit.n
             new == Plus(next_free, n)
             v == u + n
             w == u - r + n
  <1>1. /\ last_free \in Desc /\ next_free \in Desc /\ drx \in Desc /\ ctx \in Desc
        /\ n \in Nat
    BY DEF TypeOK
  <1>2. /\ u \in 1 .. N - 1 /\ r \in 0 .. u - 1 /\ free_count = N - u - 1
        /\ Dist(drx, next_free) = u - r /\ Dist(drx, ctx) \in 1 .. u - r
    BY Places
  <1>3. n \in 1 .. free_count - 1 BY DEF ReadsHold, TxMap
  <1>4. n \in 1 .. N - u - 2 /\ n \in 0 .. N - 1 /\ n \in 1 .. N /\ n \in 0 .. N
    <2> HIDE DEF u, n
    <2> QED BY SMTT(30), <1>2, <1>3, NAssumption
  <1>5. new \in Desc BY <1>1, <1>4, PlusVal
  <1>6. /\ next_free' = new /\ free_count' = free_count - n
        /\ UNCHANGED <<alive, last_free, drx>>
        /\ ctx' = new \/ ctx' = ctx
    BY DEF TxMap, ring, hw, netdev
  <1>7. Dist(last_free, new) = u + n
    <2>1. Dist(last_free, new) = IF u + n < N THEN u + n ELSE u + n - N
      BY <1>1, <1>4, Ahead
    <2> HIDE DEF u, n, new
    <2> QED BY SMTT(30), <2>1, <1>2, <1>4, NAssumption
  <1>8. Dist(drx, new) = u - r + n
    <2>1. Dist(drx, new) = IF u - r + n < N THEN u - r + n ELSE u - r + n - N
      BY SMTT(30), <1>1, <1>2, <1>4, Ahead
    <2> HIDE DEF u, n, new, r
    <2> QED BY SMTT(30), <2>1, <1>2, <1>4, NAssumption
  <1>9. Dist(new, last_free) = free_count - n + 1
    <2>1. Dist(new, last_free) \in 0 .. N - 1 BY <1>1, <1>5, Around
    <2>2. Dist(last_free, last_free) = 0 BY <1>1, Around
    <2>3. Dist(last_free, last_free) =
            IF Dist(last_free, new) + Dist(new, last_free) < N
            THEN Dist(last_free, new) + Dist(new, last_free)
            ELSE Dist(last_free, new) + Dist(new, last_free) - N
      BY SMTT(30), <1>1, <1>5, Around
    <2> HIDE DEF u, n, new, r
    <2> QED BY SMTT(30), <2>1, <2>2, <2>3, <1>2, <1>4, <1>7, NAssumption
  <1>10. ASSUME NEW i \in Desc
         PROVE  /\ buf'[i] # "none" <=> Dist(last_free, i) \in 1 .. v - 1
                /\ own'[i] = "hw" <=> Dist(drx, i) \in 1 .. w - 1
    <2> DEFINE k == Dist(next_free, i)
    <2>1. i \in Taken <=> k < n BY <1>4, TakenVal
    <2>2. i = next_free <=> k = 0 BY <1>1, Around
    <2>3. /\ buf'[i] = (IF i = next_free THEN "skb" ELSE IF i \in Taken THEN "dummy" ELSE buf[i])
          /\ own'[i] = (IF i \in Taken THEN "hw" ELSE own[i])
      BY DEF TxMap
    <2>4. /\ buf[i] # "none" <=> Dist(last_free, i) \in 1 .. u - 1
          /\ own[i] = "hw" <=> Dist(drx, i) \in 1 .. u - r - 1
      BY <1>2 DEF RingExact
    <2>5. k \in 0 .. N - 1 /\ Dist(last_free, i) \in 0 .. N - 1 /\ Dist(drx, i) \in 0 .. N - 1
      BY <1>1, Around
    <2>6. Dist(last_free, i) = IF u + k < N THEN u + k ELSE u + k - N
      BY SMTT(30), <1>1, Around
    <2>7. Dist(drx, i) = IF u - r + k < N THEN u - r + k ELSE u - r + k - N
      BY SMTT(30), <1>1, <1>2, Around
    <2>8. buf'[i] # "none" <=> k < n \/ Dist(last_free, i) \in 1 .. u - 1
      <3>1. i = next_free => k < n
        <4> HIDE DEF n, k
        <4> QED BY SMTT(30), <2>2, <1>4
      <3> HIDE DEF u, n, r, k
      <3>2. buf'[i] # "none" <=> i \in Taken \/ buf[i] # "none"
        BY <3>1, <2>1, <2>3
      <3> QED BY <3>2, <2>1, <2>4
    <2>9. own'[i] = "hw" <=> k < n \/ Dist(drx, i) \in 1 .. u - r - 1
      <3> HIDE DEF u, n, r, k
      <3> QED BY <2>1, <2>3, <2>4
    <2> HIDE DEF u, n, r, k
    <2> QED BY SMTT(30), <2>5, <2>6, <2>7, <2>8, <2>9, <1>2, <1>4, NAssumption
  <1>11. Dist(drx, ctx') >= 1 /\ Dist(drx, ctx') <= u - r + n
    <2> HIDE DEF u, n, r, new
    <2> QED BY SMTT(30), <1>2, <1>4, <1>6, <1>8
  <1>12. Dist(last_free, drx) < u + n
    <2> HIDE DEF u, n, new
    <2> QED BY SMTT(30), <1>2, <1>4
  <1>13. v \in Int /\ w \in Int
    <2> HIDE DEF u, n, r
    <2> QED BY SMTT(30), <1>2, <1>4, NAssumption
  <1> HIDE DEF u, n, r, new
  <1>14. /\ Dist(last_free', next_free') = v
         /\ Dist(next_free', last_free') = free_count' + 1
         /\ Dist(last_free', drx') < v
         /\ Dist(drx', next_free') = w
         /\ Dist(drx', ctx') >= 1 /\ Dist(drx', ctx') <= w
    BY <1>6, <1>7, <1>8, <1>9, <1>11, <1>12
  <1>15. \A i \in Desc : /\ buf'[i] # "none" <=> Dist(last_free', i) \in 1 .. v - 1
                         /\ own'[i] = "hw" <=> Dist(drx', i) \in 1 .. w - 1
    <2>1. last_free' = last_free /\ drx' = drx BY <1>6
    <2>2. \A i \in Desc : /\ buf'[i] # "none" <=> Dist(last_free, i) \in 1 .. v - 1
                          /\ own'[i] = "hw" <=> Dist(drx, i) \in 1 .. w - 1
      <3> HIDE DEF v, w
      <3> QED BY <1>10
    <2> HIDE DEF v, w
    <2> QED BY <2>1, <2>2
  <1> HIDE DEF v, w
  <1> QED BY <1>13, <1>14, <1>15, ExactAfter

(* The engine releases the descriptor after DRX_PTR, which it owned.       *)
LEMMA SendExact ==
  ASSUME TypeOK, RingExact, alive, HwSend
  PROVE  RingExact' /\ Dist(last_free, drx) <= Dist(last_free, drx')
  <1> DEFINE u == Dist(last_free, next_free)
             r == Dist(last_free, drx)
             c == Dist(drx, ctx)
             h == Plus(drx, 1)
             w == u - r - 1
  <1>1. /\ last_free \in Desc /\ next_free \in Desc /\ drx \in Desc /\ ctx \in Desc
        /\ h \in Desc
    BY NextInDesc DEF TypeOK
  <1>2. /\ u \in 1 .. N - 1 /\ r \in 0 .. u - 1 /\ free_count = N - u - 1
        /\ Dist(drx, next_free) = u - r /\ c \in 1 .. u - r
    BY Places
  <1>3. /\ drx' = h /\ h # ctx /\ own' = [own EXCEPT ![h] = "cpu"]
        /\ UNCHANGED <<alive, last_free, next_free, free_count, ctx, buf>>
    BY DEF HwSend
  <1>4. Dist(h, ctx) = c - 1 /\ Dist(h, next_free) = u - r - 1
    <2>1. drx # ctx /\ drx # next_free
      <3>1. (c = 0 <=> drx = ctx) /\ (Dist(drx, next_free) = 0 <=> drx = next_free)
        BY <1>1, Around
      <3> HIDE DEF u, r, c, h
      <3> QED BY SMTT(30), <1>2, <3>1
    <2>2. Dist(h, ctx) = c - 1 /\ Dist(h, next_free) = Dist(drx, next_free) - 1
      BY <1>1, <2>1, Behind
    <2> QED BY <1>2, <2>2
  <1>5. c >= 2
    <2>1. Dist(h, ctx) = 0 <=> h = ctx BY <1>1, Around
    <2> HIDE DEF u, r, c, h
    <2> QED BY SMTT(30), <1>2, <1>3, <1>4, <2>1
  <1>6. Dist(last_free, h) = r + 1 /\ r + 1 < u
    <2>1. 1 \in 0 .. N - 1 BY SMTT(30), NAssumption
    <2>2. Dist(last_free, h) = IF r + 1 < N THEN r + 1 ELSE r + 1 - N
      BY <1>1, <2>1, Ahead
    <2> HIDE DEF u, r, c, h
    <2> QED BY SMTT(30), <1>2, <1>5, <2>2, NAssumption
  <1>7. ASSUME NEW i \in Desc
        PROVE  /\ buf'[i] # "none" <=> Dist(last_free, i) \in 1 .. u - 1
               /\ own'[i] = "hw" <=> Dist(h, i) \in 1 .. w - 1
    <2>1. /\ buf[i] # "none" <=> Dist(last_free, i) \in 1 .. u - 1
          /\ own[i] = "hw" <=> Dist(drx, i) \in 1 .. u - r - 1
      BY <1>2 DEF RingExact
    <2>2. buf'[i] = buf[i] BY <1>3
    <2>3. own'[i] = IF i = h THEN "cpu" ELSE own[i] BY <1>3 DEF TypeOK
    <2>4. Dist(h, i) = IF drx = i THEN N - 1 ELSE Dist(drx, i) - 1 BY <1>1, Behind
    <2>5. /\ Dist(drx, i) \in 0 .. N - 1 /\ (Dist(drx, i) = 0 <=> drx = i)
          /\ Dist(h, i) = 0 <=> h = i
      BY <1>1, Around
    <2>6. own'[i] = "hw" <=> i # h /\ Dist(drx, i) \in 1 .. u - r - 1
      <3> HIDE DEF u, r, h
      <3> QED BY <2>1, <2>3
    <2>7. own'[i] = "hw" <=> Dist(h, i) \in 1 .. w - 1
      <3> HIDE DEF u, r, c, h
      <3> QED BY SMTT(30), <1>2, <1>5, <2>4, <2>5, <2>6, NAssumption
    <2> QED BY <2>1, <2>2, <2>7
  <1>8. u \in Int /\ w \in Int
    <2> HIDE DEF u, r
    <2> QED BY SMTT(30), <1>2
  <1>9. /\ Dist(last_free', next_free') = u
        /\ Dist(next_free', last_free') = free_count' + 1
        /\ Dist(last_free', drx') < u
        /\ Dist(drx', next_free') = w
        /\ Dist(drx', ctx') >= 1 /\ Dist(drx', ctx') <= w
    <2>1. Dist(next_free, last_free) = free_count + 1 BY DEF RingExact
    <2>2. Dist(h, ctx) >= 1 /\ Dist(h, ctx) <= w
      <3> HIDE DEF u, r, c, h
      <3> QED BY SMTT(30), <1>2, <1>4, <1>5
    <2>3. Dist(last_free, h) < u BY <1>6
    <2> QED BY <1>3, <1>4, <2>1, <2>2, <2>3
  <1>10. \A i \in Desc : /\ buf'[i] # "none" <=> Dist(last_free', i) \in 1 .. u - 1
                         /\ own'[i] = "hw" <=> Dist(drx', i) \in 1 .. w - 1
    <2> HIDE DEF u, w, h
    <2> QED BY <1>3, <1>7
  <1>11. RingExact'
    <2> HIDE DEF u, w
    <2> QED BY <1>8, <1>9, <1>10, ExactAfter
  <1>12. Dist(last_free, drx) <= Dist(last_free, drx')
    <2> HIDE DEF h, u
    <2> QED BY SMTT(30), <1>2, <1>3, <1>6
  <1> QED BY <1>11, <1>12

(* The poll frees a descriptor the engine has released.                    *)
LEMMA FreeExact ==
  ASSUME TypeOK, RingExact, ReadsHold, alive, PollFree
  PROVE  RingExact' /\ ReadsHold'
  <1> DEFINE u == Dist(last_free, next_free)
             r == Dist(last_free, drx)
             l == Plus(last_free, 1)
             v == u - 1
             w == u - r
  <1>1. /\ last_free \in Desc /\ next_free \in Desc /\ drx \in Desc /\ ctx \in Desc
        /\ dma \in Desc /\ l \in Desc /\ free_count \in Int
    BY NextInDesc DEF TypeOK
  <1>2. /\ u \in 1 .. N - 1 /\ r \in 0 .. u - 1 /\ free_count = N - u - 1
        /\ Dist(drx, next_free) = u - r /\ Dist(drx, ctx) \in 1 .. u - r
    BY Places
  <1>3. /\ napi = "loop" /\ last_free # dma
        /\ last_free' = l /\ free_count' = free_count + 1 /\ buf' = [buf EXCEPT ![l] = "none"]
        /\ UNCHANGED <<alive, own, next_free, ctx, drx, dma, xmit, napi>>
    BY DEF PollFree, hw
  <1>4. Dist(last_free, dma) \in 1 .. r
    <2>1. Dist(last_free, dma) \in 0 .. N - 1 /\ (Dist(last_free, dma) = 0 <=> last_free = dma)
      BY <1>1, Around
    <2>2. Dist(last_free, dma) <= r BY <1>3 DEF ReadsHold
    <2> HIDE DEF u, r
    <2> QED BY SMTT(30), <1>2, <1>3, <2>1, <2>2
  <1>5. Dist(l, next_free) = u - 1 /\ Dist(l, drx) = r - 1
        /\ Dist(l, dma) = Dist(last_free, dma) - 1
    <2>1. (u = 0 <=> last_free = next_free) /\ (r = 0 <=> last_free = drx)
      BY <1>1, Around
    <2>2. last_free # next_free /\ last_free # drx
      <3> HIDE DEF u, r
      <3> QED BY SMTT(30), <1>2, <1>4, <2>1
    <2> QED BY <1>1, <1>3, <2>2, Behind
  <1>6. Dist(next_free, l) = free_count + 2
    <2>1. 1 \in 0 .. N - 1 BY SMTT(30), NAssumption
    <2>2. Dist(next_free, last_free) = free_count + 1 BY DEF RingExact
    <2>3. Dist(next_free, l) = IF Dist(next_free, last_free) + 1 < N
                               THEN Dist(next_free, last_free) + 1
                               ELSE Dist(next_free, last_free) + 1 - N
      BY <1>1, <2>1, Ahead
    <2> HIDE DEF u, r, l
    <2> QED BY SMTT(30), <1>1, <1>2, <1>4, <2>2, <2>3, NAssumption
  <1>7. ASSUME NEW i \in Desc
        PROVE  /\ buf'[i] # "none" <=> Dist(l, i) \in 1 .. v - 1
               /\ own'[i] = "hw" <=> Dist(drx, i) \in 1 .. w - 1
    <2>1. /\ buf[i] # "none" <=> Dist(last_free, i) \in 1 .. u - 1
          /\ own[i] = "hw" <=> Dist(drx, i) \in 1 .. u - r - 1
      BY <1>2 DEF RingExact
    <2>2. own'[i] = own[i] BY <1>3
    <2>3. buf'[i] = IF i = l THEN "none" ELSE buf[i] BY <1>3 DEF TypeOK
    <2>4. Dist(l, i) = IF last_free = i THEN N - 1 ELSE Dist(last_free, i) - 1
      BY <1>1, Behind
    <2>5. /\ Dist(last_free, i) \in 0 .. N - 1 /\ (Dist(last_free, i) = 0 <=> last_free = i)
          /\ Dist(l, i) = 0 <=> l = i
      BY <1>1, Around
    <2>6. buf'[i] # "none" <=> i # l /\ Dist(last_free, i) \in 1 .. u - 1
      <3> HIDE DEF u, r, l
      <3> QED BY <2>1, <2>3
    <2>7. buf'[i] # "none" <=> Dist(l, i) \in 1 .. v - 1
      <3> HIDE DEF u, r, l
      <3> QED BY SMTT(30), <1>2, <1>4, <2>4, <2>5, <2>6, NAssumption
    <2> QED BY <2>1, <2>2, <2>7
  <1>8. v \in Int /\ w \in Int
    <2> HIDE DEF u, r
    <2> QED BY SMTT(30), <1>2
  <1>9. /\ Dist(last_free', next_free') = v
        /\ Dist(next_free', last_free') = free_count' + 1
        /\ Dist(last_free', drx') < v
        /\ Dist(drx', next_free') = w
        /\ Dist(drx', ctx') >= 1 /\ Dist(drx', ctx') <= w
    <2>1. Dist(l, drx) < v
      <3> HIDE DEF u, r, l
      <3> QED BY SMTT(30), <1>2, <1>5
    <2>2. Dist(next_free, l) = free_count + 1 + 1 BY SMTT(30), <1>1, <1>6
    <2>3. Dist(drx, ctx) >= 1 /\ Dist(drx, ctx) <= w
      <3> HIDE DEF u, r
      <3> QED BY SMTT(30), <1>2
    <2> QED BY <1>2, <1>3, <1>5, <2>1, <2>2, <2>3
  <1>10. \A i \in Desc : /\ buf'[i] # "none" <=> Dist(last_free', i) \in 1 .. v - 1
                         /\ own'[i] = "hw" <=> Dist(drx', i) \in 1 .. w - 1
    <2> HIDE DEF v, w, l
    <2> QED BY <1>3, <1>7
  <1>11. RingExact'
    <2> HIDE DEF v, w
    <2> QED BY <1>8, <1>9, <1>10, ExactAfter
  <1>12. Dist(last_free', dma') <= Dist(last_free', drx')
    <2>1. Dist(l, dma) <= Dist(l, drx)
      <3> HIDE DEF u, r, l
      <3> QED BY SMTT(30), <1>2, <1>4, <1>5
    <2> QED BY <1>3, <2>1
  <1>13. xmit'.pc = "map" => xmit'.n \in 1 .. free_count' - 1
    <2> HIDE DEF l
    <2> QED BY SMTT(30), <1>1, <1>3 DEF ReadsHold, TypeOK
  <1> QED BY <1>11, <1>12, <1>13 DEF ReadsHold

(* A packet past the check of free_count still fits.                       *)
LEMMA RingNext ==
  ASSUME TypeOK, ~use.fails, RefsExact, Quiet, RingExact, ReadsHold, [Next]_vars
  PROVE  RingExact' /\ ReadsHold'
  <1> USE DEF ring, hw, poll, work, netdev, vars
  <1>1. ASSUME UNCHANGED <<ring, ctx, drx>>,
               napi' = "loop" => napi = "loop" /\ dma' = dma,
               xmit'.pc = "map" => xmit' = xmit
        PROVE  RingExact' /\ ReadsHold'
    <2>1. RingExact' BY <1>1, RingFrame
    <2> QED BY <1>1, <2>1 DEF ReadsHold
  <1>2. ASSUME FreshRing, napi' # "loop", xmit'.pc # "map"
        PROVE  RingExact' /\ ReadsHold'
    BY <1>2, FreshExact DEF ReadsHold
  <1>3. ASSUME NEW d \in Devs, NEW n \in Packets, NEW more \in BOOLEAN,
               StartXmit(d, n, more)
        PROVE  RingExact' /\ ReadsHold'
    <2>1. RingExact' BY <1>3, RingFrame DEF StartXmit
    <2>2. xmit'.pc = "map" => xmit'.n \in 1 .. free_count' - 1
      <3>1. n \in Nat \ {0} BY <1>3, UsesAssumption DEF StartXmit, TypeOK
      <3>2. CASE free_count <= n BY <1>3, <3>2 DEF StartXmit, Idle
      <3>3. CASE ~(free_count <= n) BY SMTT(30), <1>3, <3>1, <3>3 DEF StartXmit, TypeOK
      <3> QED BY <3>2, <3>3
    <2> QED BY <1>3, <2>1, <2>2 DEF StartXmit, ReadsHold
  <1>4. CASE XmitStep
    <2>1. CASE TxMap
      <3>1. alive BY <2>1 DEF TxMap, Quiet
      <3>2. RingExact' BY <2>1, <3>1, MapExact
      <3>3. xmit'.pc # "map" /\ UNCHANGED <<napi, dma, last_free, drx>>
        BY <2>1 DEF TxMap, Idle
      <3> QED BY <3>2, <3>3 DEF ReadsHold
    <2>2. CASE TxThresh
      <3>1. xmit'.pc # "map"
        <4>1. CASE free_count <= Thresh BY <2>2, <4>1 DEF TxThresh, Idle
        <4>2. CASE ~(free_count <= Thresh) BY <2>2, <4>2 DEF TxThresh, Idle
        <4> QED BY <4>1, <4>2
      <3> QED BY <2>2, <3>1, <1>1 DEF TxThresh
    <2>3. CASE TxMapFail \/ TxStopQueue
      <3>1. xmit' = Idle /\ UNCHANGED <<ring, hw, napi, dma>>
        BY <2>3 DEF TxMapFail, TxStopQueue
      <3>2. xmit'.pc # "map" BY <3>1 DEF Idle
      <3> QED BY <3>1, <3>2, <1>1
    <2> QED BY <1>4, <2>1, <2>2, <2>3 DEF XmitStep
  <1>5. CASE HwSend
    <2>1. alive BY <1>5 DEF HwSend, Quiet
    <2>2. RingExact' /\ Dist(last_free, drx) <= Dist(last_free, drx')
      BY <1>5, <2>1, SendExact
    <2>3. UNCHANGED <<napi, dma, xmit, free_count, last_free>> BY <1>5 DEF HwSend
    <2>4. last_free \in Desc /\ dma \in Desc /\ drx \in Desc /\ drx' \in Desc
      BY <1>5, TypeNext DEF TypeOK
    <2>5. /\ Dist(last_free, dma) \in Int /\ Dist(last_free, drx) \in Int
          /\ Dist(last_free, drx') \in Int
      BY SMTT(30), <2>4, Around
    <2>6. ASSUME napi = "loop" PROVE Dist(last_free', dma') <= Dist(last_free', drx')
      <3>1. Dist(last_free, dma) <= Dist(last_free, drx) BY <2>6 DEF ReadsHold
      <3>2. Dist(last_free, dma) <= Dist(last_free, drx') BY SMTT(30), <2>2, <2>5, <3>1
      <3> QED BY <2>3, <3>2
    <2> QED BY <2>2, <2>3, <2>6 DEF ReadsHold
  <1>6. CASE HandleIrqTx BY <1>6, <1>1 DEF HandleIrqTx
  <1>7. CASE NapiRearm \/ UNCHANGED vars BY <1>7, <1>1 DEF NapiRearm
  <1>8. CASE PollStep
    <2>1. CASE NapiAck BY <2>1, <1>1 DEF NapiAck
    <2>2. CASE PollRead
      <3>1. RingExact' BY <2>2, RingFrame DEF PollRead
      <3>2. last_free \in Desc /\ drx \in Desc BY DEF TypeOK
      <3>3. Dist(last_free, drx) \in Int BY SMTT(30), <3>2, Around
      <3>4. Dist(last_free', dma') <= Dist(last_free', drx')
        BY SMTT(30), <2>2, <3>3 DEF PollRead
      <3> QED BY <2>2, <3>1, <3>4 DEF PollRead, ReadsHold
    <2>3. CASE PollFree
      <3>1. alive BY <2>3 DEF PollFree, Quiet
      <3> QED BY <2>3, <3>1, FreeExact
    <2>4. CASE PollWake BY <2>4, <1>1 DEF PollWake
    <2>5. CASE NapiEnd BY <2>5, <1>1 DEF NapiEnd
    <2> QED BY <1>8, <2>1, <2>2, <2>3, <2>4, <2>5 DEF PollStep
  <1>9. ASSUME NEW d \in Devs, Open(d), stop.pc = "none"
        PROVE  RingExact' /\ ReadsHold'
    <2>1. CASE dma_refcnt = 0
      <3>1. Held \subseteq Devs BY <1>9 DEF Held, Serving, Stopping
      <3>2. Held = {} /\ ~Late BY <1>9, <2>1, <3>1, CountDevs DEF RefsExact, Late
      <3>3. ~alive BY <3>2 DEF RefsExact
      <3>4. napi = "idle" /\ xmit.pc # "map" BY <3>3 DEF Quiet
      <3> QED BY <1>9, <2>1, <3>4, <1>2 DEF Open, StartDma
    <2>2. CASE dma_refcnt # 0 BY <1>9, <2>2, <1>1 DEF Open
    <2> QED BY <2>1, <2>2
  <1>10. ASSUME NEW d \in Devs, UserUp(d) PROVE RingExact' /\ ReadsHold'
    BY <1>10, <1>9 DEF UserUp, RtnlFree, NoStop
  <1>11. ASSUME NEW d \in Devs, UserDown(d) PROVE RingExact' /\ ReadsHold'
    BY <1>11, <1>1 DEF UserDown
  <1>12. CASE StopStep
    <2>1. CASE StopFree
      <3>1. napi = "idle" /\ xmit.pc # "map" BY <2>1 DEF StopFree, Quiet
      <3> QED BY <2>1, <3>1, <1>2 DEF StopFree
    <2>2. CASE StopTxOff \/ StopRef \/ StopIrq \/ StopNapi \/ StopDma
      BY <2>2, <1>1 DEF StopTxOff, StopRef, StopIrq, StopNapi, StopDma
    <2> QED BY <1>12, <2>1, <2>2 DEF StopStep
  <1>13. CASE ResetPrepare BY <1>13, <1>1 DEF ResetPrepare
  <1>14. CASE ResetStep
    <2>1. CASE ResetResume \/ ResetStop \/ ResetInit \/ ResetDone
      BY <2>1, <1>1 DEF ResetResume, ResetStop, ResetInit, ResetDone
    <2>2. CASE ResetOpen
      <3>1. ri \in Devs BY <2>2, OpensDevice
      <3>2. CASE Open(ri) BY <2>2, <3>1, <3>2, <1>9 DEF ResetOpen, NoStop
      <3>3. CASE ~Open(ri) BY <2>2, <3>3, <1>1 DEF ResetOpen
      <3> QED BY <3>2, <3>3
    <2> QED BY <1>14, <2>1, <2>2 DEF ResetStep
  <1> QED BY <1>3, <1>4, <1>5, <1>6, <1>7, <1>8, <1>10, <1>11, <1>12, <1>13, <1>14
      DEF Next
-----------------------------------------------------------------------------
(* The inductive invariant holds initially ...                             *)
LEMMA InvInit == Init => Inv
  <1> SUFFICES ASSUME Init PROVE Inv OBVIOUS
  <1>1. TypeOK BY TypeInit
  <1>2. Serving = {} /\ Stopping = {} /\ ~Late
    BY DEF Init, Serving, Stopping, Late, NoStop
  <1>3. Held = {} /\ Cardinality({}) = 0 BY <1>2, FS_EmptySet DEF Held
  <1>4. RefsExact BY <1>2, <1>3 DEF Init, RefsExact
  <1>5. Quiet BY DEF Init, Quiet, NoStop, Idle
  <1>6. RingExact BY DEF Init, RingExact
  <1>7. ReadsHold BY DEF Init, ReadsHold, Idle
  <1> QED BY <1>1, <1>4, <1>5, <1>6, <1>7 DEF Inv

(* ... and every step keeps it.                                            *)
LEMMA InvNext == ASSUME Inv, [Next]_vars PROVE Inv'
  <1>1. TypeOK' BY TypeNext DEF Inv
  <1>2. use' = use
    <2> USE DEF ring, hw, poll, work, netdev, vars
    <2>1. ASSUME NEW d \in Devs, NEW n \in Packets, NEW more \in BOOLEAN, StartXmit(d, n, more)
          PROVE  use' = use
      BY <2>1 DEF StartXmit
    <2>2. CASE XmitStep \/ HwSend \/ HandleIrqTx \/ PollStep \/ NapiRearm \/ UNCHANGED vars
      BY <2>2 DEF XmitStep, TxMap, TxMapFail, TxThresh, TxStopQueue, HwSend, HandleIrqTx,
           PollStep, NapiAck, PollRead, PollFree, PollWake, NapiEnd, NapiRearm
    <2>3. ASSUME NEW d \in Devs, UserUp(d) \/ UserDown(d) PROVE use' = use
      BY <2>3 DEF UserUp, UserDown
    <2>4. CASE StopStep \/ ResetPrepare \/ ResetStep
      BY <2>4 DEF StopStep, StopTxOff, StopRef, StopIrq, StopNapi, StopDma, StopFree,
           ResetPrepare, ResetStep, ResetResume, ResetStop, ResetInit, ResetOpen, ResetDone
    <2> QED BY <2>1, <2>2, <2>3, <2>4 DEF Next
  <1>3. ASSUME ~use.fails PROVE RefsExact' /\ Quiet' /\ RingExact' /\ ReadsHold'
    <2>1. TypeOK /\ RefsExact /\ Quiet /\ RingExact /\ ReadsHold BY <1>3 DEF Inv
    <2> QED BY <1>3, <2>1, RefsNext, QuietNext, RingNext
  <1> QED BY <1>1, <1>2, <1>3 DEF Inv

(* The inductive invariant: the reference count of the ring is that of the *)
(* devices that hold one, and with it mtk_open, mtk_stop and the reset of  *)
(* the frame engine keep the ring up as long as anyone uses it.            *)
THEOREM Invariance == Spec => []Inv
  <1>1. Init => Inv BY InvInit
  <1>2. Inv /\ [Next]_vars => Inv' BY InvNext
  <1> QED BY <1>1, <1>2, PTL DEF Spec

(* As long as reopening a device after a reset does not fail, no           *)
(* transmission, poll or engine uses a ring that mtk_dma_free has freed.   *)
THEOREM RingStaysUp == Spec => [](~use.fails => RingAlive)
  <1>1. Inv => (~use.fails => RingAlive) BY DEF Inv, Quiet, RingAlive
  <1> QED BY <1>1, Invariance, PTL

(* ... and free_count, the descriptors with packets and those of the       *)
(* engine agree: mtk_tx_map overwrites no packet, the poll frees none in   *)
(* flight.                                                                 *)
THEOREM AccountingExact == Spec => [](~use.fails => RingExact)
  <1>1. Inv => (~use.fails => RingExact) BY DEF Inv
  <1> QED BY <1>1, Invariance, PTL

(* ... and mtk_stop takes the ring down only with the last user: the       *)
(* failing reopen of a reset is the only way to what LastUser excludes.    *)
THEOREM LastUserOnly == Spec => [](~use.fails => LastUser)
  <1>1. Inv => (~use.fails => LastUser)
    <2> SUFFICES ASSUME Inv, ~use.fails PROVE LastUser OBVIOUS
    <2>1. TypeOK /\ RefsExact BY DEF Inv
    <2>2. ASSUME Late, rst # "stop" PROVE \A d \in Devs : ~up[d]
      <3>1. Held = {} /\ rst \in {"idle", "wait"} BY <2>1, <2>2 DEF RefsExact, TypeOK, Late
      <3> QED BY <3>1 DEF Held, Serving
    <2> QED BY <2>2 DEF LastUser, Late
  <1> QED BY <1>1, Invariance, PTL
=============================================================================
