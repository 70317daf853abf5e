-------------------------- MODULE MsgThreadProofs --------------------------
(***************************************************************************)
(* Proofs about MsgThread: the inductive invariant, that each step keeps   *)
(* the part of it that says who has which op, then the order of the        *)
(* requests and the results that waiting senders get, and the theorems.    *)
(*                                                                         *)
(* The theorems are about threads all of whose callers wait, or none       *)
(* (Uniform): cb_ctx and the threads of the sub-drivers, and the power     *)
(* thread but for conninfra_core_dump_power_state, which does not wait.    *)
(***************************************************************************)
EXTENDS MsgThread, FiniteSetTheorems, TLAPS

USE ZenonT(60)

(* All callers wait, or none does.                                         *)
Uniform == use.callers \subseteq use.waiters \/ use.callers \intersect use.waiters = {}

(* A sender that has an op for itself, one that has a reference to its op, *)
(* and an op to which the worker has a reference.                          *)
Alone(s) == pc[s] \in {"fill", "put", "free"}
HasRef(s) == s \in use.waiters /\ pc[s] \in {"check", "wait", "result", "end"}
WRef(o) == o \in Range(active_op_q) \/ (wop = o /\ wpc \in {"handle", "dec"})

(* An active op is not with the worker, an op that a sender has for itself *)
(* is neither, and one that the worker puts back is nobody else's.         *)
Owned ==
  /\ QueuedOnce
  /\ \A o \in Range(active_op_q) : ~WorkerHas(o)
  /\ \A s \in Senders : Alone(s) => held[s] \notin Range(active_op_q) /\ ~WorkerHas(held[s])
  /\ wpc = "free" => \A s \in Senders : ~SenderHas(s, wop)

(* ref_count counts the references, and an op is marked as waited for if   *)
(* and only if its sender waits.                                           *)
Counted ==
  /\ \A s \in Senders : pc[s] = "put" =>
       /\ op[held[s]].ref_count = IF s \in use.waiters THEN 2 ELSE 1
       /\ s \in use.waiters => op[held[s]].timeoutValue # 0
  /\ \A o \in Ops : WRef(o) =>
       \/ op[o].ref_count = 1 /\ \A s \in Senders : ~(HasRef(s) /\ held[s] = o)
       \/ op[o].ref_count = 2 /\ \E s \in Senders : HasRef(s) /\ held[s] = o
  /\ \A s \in Senders : HasRef(s) =>
       /\ op[held[s]].timeoutValue # 0
       /\ ~WRef(held[s]) => op[held[s]].ref_count = 1
  /\ use.callers \intersect use.waiters = {} => \A o \in Ops : op[o].timeoutValue = 0

(* Every op is free, in use or lost, and only one of them.                 *)
InUse(o) == WRef(o) \/ WorkerHas(o) \/ \E s \in Senders : SenderHas(s, o)
Placed ==
  up => \A o \in Ops : o \notin lost <=> o \in Range(free_op_q) \/ InUse(o)

(* The requests queued are those handled, the one being handled, and those *)
(* of the active ops, in this order, and they are all different.           *)
Taken == Len(handled) + (IF wpc = "handle" THEN 1 ELSE 0)
Asks(s) == pc[s] \in {"fill", "put"}
Ordered ==
  /\ up => Len(queued) = Taken + Len(active_op_q)
  /\ ~up => wpc = "idle" /\ active_op_q = <<>> /\ \A s \in Senders : pc[s] = "out"
  /\ Taken <= Len(queued)
  /\ \A i \in 1 .. Len(handled) : handled[i] = queued[i]
  /\ wpc = "handle" => op[wop].req = queued[Len(handled) + 1]
  /\ \A j \in 1 .. Len(active_op_q) : op[active_op_q[j]].req = queued[Taken + j]
  /\ IsInjective(queued)
  /\ \A i \in 1 .. Len(queued) : queued[i] \in 1 .. requests
  /\ \A s \in Senders : Asks(s) =>
       /\ mine[s] \in 1 .. requests
       /\ \A i \in 1 .. Len(queued) : queued[i] # mine[s]
       /\ \A t \in Senders : Asks(t) /\ mine[t] = mine[s] => s = t
  /\ \A s \in Senders : pc[s] = "put" => op[held[s]].req = mine[s]

(* The worker has dropped its reference but not yet raised the signal; a   *)
(* sender that still waits.                                                *)
Answering == wpc \in {"timed", "result", "raise"}
Waits(s) == s \in use.waiters /\ pc[s] \in {"check", "wait"}

(* With handlers that end in time: the op of a sender that waits is queued *)
(* or with the worker, or else its result is there; and the op with which  *)
(* the worker is not done after dropping its reference is waited for.      *)
AnsweredFor(s) ==
  /\ s \in use.waiters /\ pc[s] = "put" => op[held[s]].comp = 0
  /\ HasRef(s) /\ WRef(held[s]) =>
       /\ Waits(s) /\ op[held[s]].comp = 0 /\ op[held[s]].req = mine[s]
       /\ held[s] = wop /\ wpc = "dec" => wret = mine[s]
  /\ HasRef(s) /\ held[s] = wop /\ Answering =>
       /\ Waits(s) /\ op[held[s]].comp = 0 /\ wret = mine[s]
       /\ wpc = "raise" => op[held[s]].result = mine[s]
  /\ Waits(s) /\ ~WRef(held[s]) /\ ~(held[s] = wop /\ Answering)
       => op[held[s]].result = mine[s]
  /\ s \in use.waiters /\ pc[s] = "result" => op[held[s]].result = mine[s]
  /\ s \in use.waiters /\ pc[s] \in {"end", "free"} => ret[s] = mine[s] \/ ret[s] < 0
Answered ==
  /\ Answering => /\ wop \notin Range(active_op_q)
                  /\ \E s \in Senders : Waits(s) /\ held[s] = wop
  /\ \A s \in Senders : AnsweredFor(s)

(* The inductive invariant.                                                *)
Inv ==
  /\ TypeOK
  /\ Uniform => /\ Owned /\ Counted /\ Placed /\ Ordered
                /\ ~use.timeouts => Answered
-----------------------------------------------------------------------------
(* A change of one field leaves an op an op. *)
LEMMA OpChange ==
  ASSUME NEW f \in [Ops -> OpType], NEW o \in Ops
  PROVE  /\ [f EXCEPT ![o].ref_count = @ - 1] \in [Ops -> OpType]
         /\ f[o].comp > 0 => [f EXCEPT ![o].comp = @ - 1] \in [Ops -> OpType]
         /\ [f EXCEPT ![o].comp = @ + 1] \in [Ops -> OpType]
         /\ \A r \in Nat : [f EXCEPT ![o].result = r] \in [Ops -> OpType]
         /\ \A r \in OpType : [f EXCEPT ![o] = r] \in [Ops -> OpType]
  BY SMTT(30) DEF OpType

(* What the senders write is an op. *)
LEMMA FilledType ==
  ASSUME NEW s \in Senders, mine[s] \in Nat
  PROVE  Filled(s) \in OpType
  BY SMTT(30) DEF Filled, OpType, NoResult, MSG_OP_TIMEOUT

(* msg_thread_init puts every op on the free queue, once. *)
LEMMA AllFree ==
  /\ InOrder \in Seq(Ops)
  /\ IsInjective(InOrder) /\ Range(InOrder) = Ops
  <1> DEFINE n == Cardinality(Ops)
  <1>1. n \in Nat /\ ExistsBijection(1 .. n, Ops)
    BY OpsAssumption, FS_CardinalityType
  <1>2. InOrder \in Bijection(1 .. n, Ops)
    BY <1>1 DEF ExistsBijection, InOrder
  <1>3. InOrder \in [1 .. n -> Ops] /\ IsInjective(InOrder)
    BY <1>2 DEF Bijection, Injection
  <1>4. Range(InOrder) = Ops BY <1>2, <1>3 DEF Bijection, Surjection, Range
  <1>5. InOrder \in Seq(Ops) BY SMTT(30), <1>1, <1>3
  <1> QED BY <1>3, <1>4, <1>5

(* Taking the first element of a queue without repetitions. *)
LEMMA TakeFirst ==
  ASSUME NEW q \in Seq(Ops), q # <<>>, IsInjective(q)
  PROVE  /\ Tail(q) \in Seq(Ops) /\ IsInjective(Tail(q))
         /\ Head(q) \in Range(q)
         /\ Range(Tail(q)) = Range(q) \ {Head(q)}
  <1>1. Tail(q) \in Seq(Ops) /\ Len(Tail(q)) = Len(q) - 1 /\ Len(q) \in Nat \ {0}
    BY SMTT(30)
  <1>2. \A i \in 1 .. Len(q) - 1 : Tail(q)[i] = q[i + 1]
    BY SMTT(30)
  <1>3. Head(q) = q[1] /\ DOMAIN q = 1 .. Len(q) /\ DOMAIN Tail(q) = 1 .. Len(q) - 1
    BY SMTT(30), <1>1
  <1>4. IsInjective(Tail(q))
    <2> SUFFICES ASSUME NEW i \in 1 .. Len(q) - 1, NEW j \in 1 .. Len(q) - 1,
                        Tail(q)[i] = Tail(q)[j]
                 PROVE  i = j
      BY <1>3 DEF IsInjective
    <2>1. i + 1 \in DOMAIN q /\ j + 1 \in DOMAIN q BY SMTT(30), <1>1, <1>3
    <2>2. q[i + 1] = q[j + 1] BY <1>2
    <2>3. i + 1 = j + 1 BY <2>1, <2>2 DEF IsInjective
    <2> QED BY SMTT(30), <2>3
  <1>5. Head(q) \in Range(q) BY SMTT(30), <1>1, <1>3 DEF Range
  <1>6. ASSUME NEW x \in Range(Tail(q)) PROVE x \in Range(q) \ {Head(q)}
    <2>1. PICK i \in 1 .. Len(q) - 1 : x = Tail(q)[i] BY <1>3 DEF Range
    <2>2. i + 1 \in DOMAIN q /\ 1 \in DOMAIN q /\ i + 1 # 1 BY SMTT(30), <1>1, <1>3
    <2>3. x = q[i + 1] BY <1>2, <2>1
    <2>4. x # q[1] BY <2>2, <2>3 DEF IsInjective
    <2> QED BY <1>3, <2>2, <2>3, <2>4 DEF Range
  <1>7. ASSUME NEW x \in Range(q), x # Head(q) PROVE x \in Range(Tail(q))
    <2>1. PICK i \in 1 .. Len(q) : x = q[i] BY <1>3 DEF Range
    <2>2. i # 1 BY <1>3, <1>7, <2>1
    <2>3. i - 1 \in 1 .. Len(q) - 1 /\ (i - 1) + 1 = i BY SMTT(30), <2>2, <1>1
    <2>4. Tail(q)[i - 1] = x BY <1>2, <2>1, <2>3
    <2> QED BY <1>3, <2>3, <2>4 DEF Range
  <1>8. Range(Tail(q)) = Range(q) \ {Head(q)} BY <1>6, <1>7
  <1> QED BY <1>1, <1>4, <1>5, <1>8

(* Appending an element that is not there yet. *)
LEMMA PutLast ==
  ASSUME NEW q \in Seq(Ops), IsInjective(q), NEW o \in Ops, o \notin Range(q)
  PROVE  /\ Append(q, o) \in Seq(Ops) /\ IsInjective(Append(q, o))
         /\ Range(Append(q, o)) = Range(q) \union {o}
  <1> DEFINE p == Append(q, o)
  <1>1. /\ p \in Seq(Ops) /\ Len(q) \in Nat /\ DOMAIN q = 1 .. Len(q)
        /\ DOMAIN p = 1 .. Len(q) + 1
    BY SMTT(30)
  <1>2. p[Len(q) + 1] = o /\ \A i \in 1 .. Len(q) : p[i] = q[i]
    BY SMTT(30)
  <1> HIDE DEF p
  <1>3. \A i \in 1 .. Len(q) : q[i] # o BY <1>1 DEF Range
  <1>4. IsInjective(p)
    <2> SUFFICES ASSUME NEW i \in 1 .. Len(q) + 1, NEW j \in 1 .. Len(q) + 1, p[i] = p[j]
                 PROVE  i = j
      BY <1>1 DEF IsInjective
    <2>1. CASE i \in 1 .. Len(q) /\ j \in 1 .. Len(q)
      BY <2>1, <1>1, <1>2 DEF IsInjective
    <2>2. CASE i = Len(q) + 1 /\ j \in 1 .. Len(q) BY <2>2, <1>2, <1>3
    <2>3. CASE j = Len(q) + 1 /\ i \in 1 .. Len(q) BY <2>3, <1>2, <1>3
    <2> QED BY SMTT(30), <2>1, <2>2, <2>3, <1>1
  <1>5. Range(p) = Range(q) \union {o}
    <2>1. \A x \in Range(p) : x \in Range(q) \union {o}
      <3> SUFFICES ASSUME NEW i \in 1 .. Len(q) + 1 PROVE p[i] \in Range(q) \union {o}
        BY <1>1 DEF Range
      <3>1. CASE i \in 1 .. Len(q) BY <3>1, <1>1, <1>2 DEF Range
      <3>2. CASE i = Len(q) + 1 BY <3>2, <1>2
      <3> QED BY SMTT(30), <3>1, <3>2, <1>1
    <2>2. o \in Range(p)
      <3>1. Len(q) + 1 \in DOMAIN p BY SMTT(30), <1>1
      <3> QED BY <3>1, <1>2 DEF Range
    <2>3. \A x \in Range(q) : x \in Range(p)
      <3> SUFFICES ASSUME NEW i \in 1 .. Len(q) PROVE q[i] \in Range(p)
        BY <1>1 DEF Range
      <3>1. i \in DOMAIN p BY SMTT(30), <1>1
      <3> QED BY <3>1, <1>2 DEF Range
    <2> QED BY <2>1, <2>2, <2>3
  <1> QED BY <1>1, <1>4, <1>5 DEF p

(* A queue without repetitions that lacks an op is not full. *)
LEMMA NotFull ==
  ASSUME NEW q \in Seq(Ops), IsInjective(q), NEW o \in Ops, o \notin Range(q)
  PROVE  ~Full(q)
  <1>1. /\ Len(q) \in Nat /\ DOMAIN q = 1 .. Len(q) /\ q \in [1 .. Len(q) -> Ops]
    BY SMTT(30)
  <1>2. q \in Injection(1 .. Len(q), Ops) BY <1>1 DEF Injection
  <1>3. Cardinality(1 .. Len(q)) = Len(q)
    BY SMTT(30), <1>1, FS_Interval
  <1>6. Cardinality(Ops) \in Nat
    BY OpsAssumption, FS_CardinalityType
  <1>4. q \notin Surjection(1 .. Len(q), Ops) BY <1>1 DEF Surjection, Range
  <1>5. Len(q) <= Cardinality(Ops) /\ Len(q) # Cardinality(Ops)
    BY SMTT(30), <1>2, <1>3, <1>4, OpsAssumption, FS_Injection
  <1> QED BY SMTT(30), <1>1, <1>6, <1>5 DEF Full
-----------------------------------------------------------------------------
(* Type correctness: at the beginning, and after each step. *)
LEMMA TypeInit == Init => TypeOK
  <1> SUFFICES ASSUME Init PROVE TypeOK OBVIOUS
  <1>1. Cleared \in OpType BY SMTT(30) DEF Cleared, OpType
  <1>2. free_op_q \in Seq(Ops) BY AllFree DEF Init
  <1>3. handled \in Seq(Nat) /\ queued \in Seq(Nat) /\ active_op_q \in Seq(Ops) BY SMTT(30)
    DEF Init
  <1>4. op \in [Ops -> OpType] BY <1>1 DEF Init
  <1> QED BY SMTT(30), <1>2, <1>3, <1>4 DEF Init, TypeOK, Labels

(* Type correctness of a step of a sender. *)
LEMMA TypeSender ==
  ASSUME TypeOK, NEW s \in Senders, Send(s) \/ SendFails(s) \/ SenderStep(s)
  PROVE  TypeOK'
  <1> USE DEF worker, history, life, queues, senders
  <1>t. \A l \in Labels : [pc EXCEPT ![s] = l] \in [Senders -> Labels]
    BY DEF TypeOK
  <1>r. \A x \in Int : [ret EXCEPT ![s] = x] \in [Senders -> Int]
    BY DEF TypeOK
  <1>m. \A x \in Nat : [mine EXCEPT ![s] = x] \in [Senders -> Nat]
    BY DEF TypeOK
  <1>h. \A x \in Ops : [held EXCEPT ![s] = x] \in [Senders -> Ops \union {None}]
    BY DEF TypeOK
  <1>n. requests + 1 \in Nat BY SMTT(30) DEF TypeOK
  <1>o. op \in [Ops -> OpType] /\ (pc[s] # "out" => held[s] \in Ops) BY DEF TypeOK
  <1>l. {"out", "fill", "put", "check", "wait", "result", "end", "free"} \subseteq Labels
    BY DEF Labels
  <1>f. mine[s] \in Nat BY DEF TypeOK
  <1>1. CASE Send(s)
    <2>1. free_op_q' \in Seq(Ops) /\ Head(free_op_q) \in Ops
      BY SMTT(30), <1>1 DEF TypeOK, Send
    <2>2. held' \in [Senders -> Ops \union {None}] /\ mine' \in [Senders -> Nat]
          /\ pc' \in [Senders -> Labels]
      BY <1>1, <2>1, <1>h, <1>m, <1>n, <1>t, <1>l DEF Send, Goto
    <2>4. \A t \in Senders : pc'[t] # "out" => held'[t] \in Ops /\ t \in use.callers
      BY <1>1, <2>1 DEF TypeOK, Send, Goto
    <2> QED BY <1>1, <2>1, <2>2, <2>4, <1>n DEF TypeOK, Send
  <1>2. CASE SendFails(s)
    <2>2. mine' \in [Senders -> Nat] /\ ret' \in [Senders -> Int]
      BY SMTT(30), <1>2, <1>m, <1>n, <1>r DEF SendFails
    <2> QED BY <1>2, <2>2, <1>n DEF TypeOK, SendFails
  <1>3. CASE Fill(s)
    <2>1. op' \in [Ops -> OpType] BY <1>3, <1>o, <1>f, FilledType, OpChange DEF Fill
    <2>2. pc' \in [Senders -> Labels] BY <1>3, <1>t, <1>l DEF Fill, Goto
    <2> QED BY <1>3, <2>1, <2>2 DEF TypeOK, Fill, Goto
  <1>4. CASE PutActive(s)
    <2>1. active_op_q' \in Seq(Ops) BY SMTT(30), <1>4, <1>o DEF TypeOK, PutActive
    <2>2. queued' \in Seq(Nat) BY SMTT(30), <1>4, <1>f DEF TypeOK, PutActive
    <2>3. pc' \in [Senders -> Labels] /\ ret' \in [Senders -> Int]
      BY SMTT(30), <1>4, <1>t, <1>l, <1>r DEF PutActive, Goto
    <2> QED BY <1>4, <2>1, <2>2, <2>3 DEF TypeOK, PutActive, Goto
  <1>5. CASE PutActiveFails(s)
    <2>1. op' \in [Ops -> OpType] BY <1>5, <1>o, OpChange DEF PutActiveFails
    <2>2. pc' \in [Senders -> Labels] BY <1>5, <1>t, <1>l DEF PutActiveFails, Goto
    <2>3. ret' \in [Senders -> Int] BY SMTT(30), <1>5, <1>r DEF PutActiveFails
    <2>4. lost' \subseteq Ops BY <1>5, <1>o DEF TypeOK, PutActiveFails
    <2> QED BY <1>5, <2>1, <2>2, <2>3, <2>4 DEF TypeOK, PutActiveFails, Goto
  <1>6. CASE CheckTimeout(s)
    <2>2. pc' \in [Senders -> Labels] BY <1>6, <1>t, <1>l DEF CheckTimeout, Goto
    <2> QED BY <1>6, <2>2 DEF TypeOK, CheckTimeout, Goto
  <1>7. CASE Signalled(s)
    <2>1. op' \in [Ops -> OpType] BY <1>7, <1>o, OpChange DEF Signalled
    <2>2. pc' \in [Senders -> Labels] BY <1>7, <1>t, <1>l DEF Signalled, Goto
    <2> QED BY <1>7, <2>1, <2>2 DEF TypeOK, Signalled, Goto
  <1>8. CASE TimesOut(s)
    <2>2. pc' \in [Senders -> Labels] BY <1>8, <1>t, <1>l DEF TimesOut, Goto
    <2> QED BY <1>8, <2>2 DEF TypeOK, TimesOut, Goto
  <1>9. CASE ReadResult(s)
    <2>1. op[held[s]].result \in Int BY <1>9, <1>o DEF ReadResult, OpType
    <2>2. pc' \in [Senders -> Labels] /\ ret' \in [Senders -> Int]
      BY <1>9, <2>1, <1>t, <1>l, <1>r DEF ReadResult, Goto
    <2> QED BY <1>9, <2>2 DEF TypeOK, ReadResult, Goto
  <1>10. CASE LetGo(s)
    <2>h. held[s] \in Ops BY <1>10, <1>o DEF LetGo
    <2>o. [op EXCEPT ![held[s]].ref_count = @ - 1] \in [Ops -> OpType]
      BY <2>h, <1>o, OpChange
    <2>1. op' \in [Ops -> OpType]
      <3>1. CASE op[held[s]].timeoutValue # 0 BY <1>10, <2>o, <3>1 DEF LetGo
      <3>2. CASE op[held[s]].timeoutValue = 0 BY <1>10, <1>o, <3>2 DEF LetGo
      <3> QED BY <3>1, <3>2
    <2>2. pc' \in [Senders -> Labels] BY <1>10, <1>t, <1>l DEF LetGo, Goto
    <2> QED BY <1>10, <2>1, <2>2 DEF TypeOK, LetGo, Goto
  <1>11. CASE PutFree(s)
    <2>h. held[s] \in Ops BY <1>11, <1>o DEF PutFree
    <2>1. free_op_q' \in Seq(Ops)
      <3>1. CASE Full(free_op_q) BY <1>11, <3>1 DEF PutFree, TypeOK
      <3>2. CASE ~Full(free_op_q)
        <4>1. free_op_q' = Append(free_op_q, held[s]) BY <1>11, <3>2 DEF PutFree
        <4> QED BY SMTT(30), <4>1, <2>h DEF TypeOK
      <3> QED BY <3>1, <3>2
    <2>2. pc' \in [Senders -> Labels] BY <1>11, <1>t, <1>l DEF PutFree, Goto
    <2> QED BY <1>11, <2>1, <2>2 DEF TypeOK, PutFree, Goto
  <1>12. CASE PutFreeFails(s)
    <2>2. pc' \in [Senders -> Labels] BY <1>12, <1>t, <1>l DEF PutFreeFails, Goto
    <2>4. lost' \subseteq Ops BY <1>12, <1>o DEF TypeOK, PutFreeFails
    <2> QED BY <1>12, <2>2, <2>4 DEF TypeOK, PutFreeFails, Goto
  <1> QED BY <1>1, <1>2, <1>3, <1>4, <1>5, <1>6, <1>7, <1>8, <1>9, <1>10, <1>11,
             <1>12 DEF SenderStep

(* Type correctness of a step of the worker, and of msg_thread_deinit. *)
LEMMA TypeWorker ==
  ASSUME TypeOK, WorkerStep \/ Deinit PROVE TypeOK'
  <1> USE DEF worker, history, life, queues, senders, WGoto
  <1>o. op \in [Ops -> OpType] /\ (wpc # "idle" => wop \in Ops) /\ wret \in Nat BY
    DEF TypeOK
  <1>r. \A x \in Ops : op[x].req \in Nat BY <1>o DEF OpType
  <1>1. CASE GetActive
    <2>1. active_op_q' \in Seq(Ops) /\ wop' \in Ops BY SMTT(30), <1>1 DEF TypeOK, GetActive
    <2> QED BY <1>1, <2>1 DEF TypeOK, GetActive
  <1>2. CASE Handle
    <2>1. handled' \in Seq(Nat) /\ wret' \in Nat BY SMTT(30), <1>2, <1>o, <1>r
      DEF TypeOK, Handle
    <2> QED BY <1>2, <2>1 DEF TypeOK, Handle
  <1>3. CASE Dec
    <2>1. op' \in [Ops -> OpType] BY <1>3, <1>o, OpChange DEF Dec
    <2> QED BY <1>3, <2>1 DEF TypeOK, Dec
  <1>4. CASE WFree
    <2>h. wop \in Ops BY <1>4, <1>o DEF WFree
    <2>1. free_op_q' \in Seq(Ops)
      <3>1. CASE Full(free_op_q) BY <1>4, <3>1 DEF WFree, TypeOK
      <3>2. CASE ~Full(free_op_q)
        <4>1. free_op_q' = Append(free_op_q, wop) BY <1>4, <3>2 DEF WFree
        <4> QED BY SMTT(30), <4>1, <2>h DEF TypeOK
      <3> QED BY <3>1, <3>2
    <2> QED BY <1>4, <2>1 DEF TypeOK, WFree
  <1>5. CASE WTimed
    BY <1>5 DEF TypeOK, WTimed
  <1>6. CASE WResult
    <2>1. op' \in [Ops -> OpType] BY <1>6, <1>o, OpChange DEF WResult
    <2> QED BY <1>6, <2>1 DEF TypeOK, WResult
  <1>7. CASE Raise
    <2>1. op' \in [Ops -> OpType] BY <1>7, <1>o, OpChange DEF Raise
    <2> QED BY <1>7, <2>1 DEF TypeOK, Raise
  <1>8. CASE Deinit
    <2>1. Cleared \in OpType BY SMTT(30) DEF Cleared, OpType
    <2>2. op' \in [Ops -> OpType] BY <1>8, <2>1 DEF Deinit
    <2>3. free_op_q' \in Seq(Ops) /\ active_op_q' \in Seq(Ops) BY SMTT(30), <1>8 DEF Deinit
    <2> QED BY <1>8, <2>2, <2>3 DEF TypeOK, Deinit
  <1> QED BY <1>1, <1>2, <1>3, <1>4, <1>5, <1>6, <1>7, <1>8 DEF WorkerStep
-----------------------------------------------------------------------------
(* No step of a sender makes an op belong to two: the counts tell who is last. *)
LEMMA OwnedSender ==
  ASSUME TypeOK, Uniform, Owned, Counted, NEW s \in Senders,
         Send(s) \/ SendFails(s) \/ SenderStep(s)
  PROVE  Owned'
  <1> USE DEF worker, history, life, queues, senders
  <1>t. /\ pc \in [Senders -> Labels] /\ held \in [Senders -> Ops \union {None}]
        /\ pc[s] # "out" => held[s] \in Ops /\ s \in use.callers
    BY DEF TypeOK
  <1>q. /\ free_op_q \in Seq(Ops) /\ active_op_q \in Seq(Ops)
        /\ IsInjective(free_op_q) /\ IsInjective(active_op_q)
    BY DEF TypeOK, Owned, QueuedOnce
  <1>1. CASE Send(s)
    <2> DEFINE o == Head(free_op_q)
    <2>1. /\ IsInjective(free_op_q') /\ o \in Range(free_op_q) /\ o \in Ops
          /\ Range(free_op_q') = Range(free_op_q) \ {o}
      BY SMTT(30), <1>1, <1>q, TakeFirst DEF Send
    <2>2. /\ pc' = [pc EXCEPT ![s] = "fill"] /\ held' = [held EXCEPT ![s] = o]
          /\ UNCHANGED <<active_op_q, wpc, wop, use>>
      BY <1>1 DEF Send, Goto
    <2> HIDE DEF o
    <2> QED BY SMTT(30), <1>t, <2>1, <2>2
      DEF Owned, QueuedOnce, SenderHas, WorkerHas, Alone, waiters
  <1>2. CASE SendFails(s)
    BY <1>2 DEF SendFails, Owned, QueuedOnce, SenderHas, WorkerHas, Alone, waiters
  <1>3. CASE Fill(s)
    BY SMTT(30), <1>3, <1>t
      DEF Fill, Goto, Owned, QueuedOnce, SenderHas, WorkerHas, Alone, waiters
  <1>4. CASE PutActive(s)
    <2>1. held[s] \notin Range(active_op_q) BY <1>4 DEF PutActive, Owned, Alone
    <2>2. /\ IsInjective(active_op_q')
          /\ Range(active_op_q') = Range(active_op_q) \union {held[s]}
      BY <1>4, <1>t, <1>q, <2>1, PutLast DEF PutActive
    <2>3. /\ pc' = [pc EXCEPT ![s] = "check"] /\ pc[s] = "put"
          /\ UNCHANGED <<free_op_q, held, wpc, wop, use>>
      BY <1>4 DEF PutActive, Goto
    <2> QED BY SMTT(30), <1>t, <2>2, <2>3
      DEF Owned, QueuedOnce, SenderHas, WorkerHas, Alone, waiters
  <1>5. CASE PutActiveFails(s)
    BY SMTT(30), <1>5, <1>t
      DEF PutActiveFails, Goto, Owned, QueuedOnce, SenderHas, WorkerHas, Alone, waiters
  <1>6. CASE CheckTimeout(s)
    BY SMTT(30), <1>6, <1>t
      DEF CheckTimeout, Goto, Owned, QueuedOnce, SenderHas, WorkerHas, Alone, waiters
  <1>7. CASE Signalled(s)
    BY SMTT(30), <1>7, <1>t
      DEF Signalled, Goto, Owned, QueuedOnce, SenderHas, WorkerHas, Alone, waiters
  <1>8. CASE TimesOut(s)
    BY SMTT(30), <1>8, <1>t
      DEF TimesOut, Goto, Owned, QueuedOnce, SenderHas, WorkerHas, Alone, waiters
  <1>9. CASE ReadResult(s)
    BY SMTT(30), <1>9, <1>t
      DEF ReadResult, Goto, Owned, QueuedOnce, SenderHas, WorkerHas, Alone, waiters
  <1>11. CASE PutFree(s)
    <2>1. held[s] \notin Range(free_op_q) /\ held[s] \in Ops
      BY <1>11, <1>t DEF PutFree, Owned, QueuedOnce, SenderHas
    <2>2. ~Full(free_op_q) BY <2>1, <1>q, NotFull
    <2>3. /\ IsInjective(free_op_q')
          /\ Range(free_op_q') = Range(free_op_q) \union {held[s]}
      BY <1>11, <1>q, <2>1, <2>2, PutLast DEF PutFree
    <2>4. /\ pc' = [pc EXCEPT ![s] = "out"] /\ pc[s] = "free"
          /\ UNCHANGED <<active_op_q, held, wpc, wop, use>>
      BY <1>11 DEF PutFree, Goto
    <2> QED BY SMTT(30), <1>t, <2>1, <2>3, <2>4
      DEF Owned, QueuedOnce, SenderHas, WorkerHas, Alone, waiters
  <1>12. CASE PutFreeFails(s)
    BY SMTT(30), <1>12, <1>t
      DEF PutFreeFails, Goto, Owned, QueuedOnce, SenderHas, WorkerHas, Alone, waiters
  <1>10. CASE LetGo(s)
    <2>1. CASE op[held[s]].timeoutValue = 0
      <3>1. pc' = [pc EXCEPT ![s] = "out"] BY <1>10, <2>1 DEF LetGo, Goto
      <3> QED BY SMTT(30), <1>10, <1>t, <3>1
            DEF LetGo, Owned, QueuedOnce, SenderHas, WorkerHas, Alone, waiters
    <2>2. CASE op[held[s]].timeoutValue # 0
      <3>1. s \in use.waiters
        BY <1>10, <1>t, <2>2 DEF LetGo, Counted, Uniform
      <3>2. HasRef(s) BY <1>10, <3>1 DEF LetGo, HasRef
      <3>3. op[held[s]].ref_count = 1 => ~WRef(held[s])
        BY SMTT(30), <1>10, <1>t, <3>2 DEF LetGo, Counted
      <3>o. op[held[s]].ref_count \in Int BY <1>10, <1>t DEF TypeOK, OpType, LetGo
      <3>4. op'[held[s]].ref_count = op[held[s]].ref_count - 1
        BY SMTT(30), <1>10, <1>t, <2>2 DEF LetGo, TypeOK, OpType
      <3>5. \/ pc' = [pc EXCEPT ![s] = "free"] /\ ~WRef(held[s])
            \/ pc' = [pc EXCEPT ![s] = "out"]
        BY SMTT(30), <1>10, <2>2, <3>3, <3>4, <3>o DEF LetGo, Goto
      <3>6. CASE pc' = [pc EXCEPT ![s] = "out"]
        BY SMTT(30), <1>10, <1>t, <3>6
            DEF LetGo, Owned, QueuedOnce, SenderHas, WorkerHas, Alone, waiters
      <3>7. CASE pc' = [pc EXCEPT ![s] = "free"] /\ ~WRef(held[s])
        BY SMTT(30), <1>10, <1>t, <3>1, <3>7
            DEF LetGo, Owned, QueuedOnce, SenderHas, WorkerHas, Alone, waiters, WRef
      <3> QED BY <3>5, <3>6, <3>7
    <2> QED BY <2>1, <2>2
  <1> QED BY <1>1, <1>2, <1>3, <1>4, <1>5, <1>6, <1>7, <1>8, <1>9, <1>10, <1>11,
             <1>12 DEF SenderStep

(* Nor does a step of the worker. *)
LEMMA OwnedWorker ==
  ASSUME TypeOK, Owned, Counted, WorkerStep \/ Deinit
  PROVE  Owned'
  <1> USE DEF worker, history, life, queues, senders, WGoto
  <1>t. wpc # "idle" => wop \in Ops BY DEF TypeOK
  <1>q. /\ free_op_q \in Seq(Ops) /\ active_op_q \in Seq(Ops)
        /\ IsInjective(free_op_q) /\ IsInjective(active_op_q)
    BY DEF TypeOK, Owned, QueuedOnce
  <1>1. CASE GetActive
    <2> DEFINE o == Head(active_op_q)
    <2>1. /\ IsInjective(active_op_q') /\ o \in Range(active_op_q) /\ o \in Ops
          /\ Range(active_op_q') = Range(active_op_q) \ {o}
      BY SMTT(30), <1>1, <1>q, TakeFirst DEF GetActive
    <2>2. /\ wpc = "idle" /\ wpc' = "handle" /\ wop' = o
          /\ UNCHANGED <<free_op_q, pc, held, use>>
      BY <1>1 DEF GetActive
    <2> HIDE DEF o
    <2> QED BY <2>1, <2>2 DEF Owned, QueuedOnce, SenderHas, WorkerHas, Alone, waiters
  <1>2. CASE Handle
    BY <1>2 DEF Handle, Owned, QueuedOnce, SenderHas, WorkerHas, Alone, waiters
  <1>3. CASE Dec
    <2>1. wop \in Ops /\ op[wop].ref_count \in Int BY <1>3, <1>t DEF TypeOK, OpType, Dec
    <2>2. op'[wop].ref_count = op[wop].ref_count - 1
      BY <1>3, <2>1 DEF Dec, TypeOK, OpType
    <2>3. /\ wpc = "dec" /\ wpc' = (IF op'[wop].ref_count = 0 THEN "free" ELSE "timed")
          /\ UNCHANGED <<free_op_q, active_op_q, pc, held, use, wop>>
      BY <1>3 DEF Dec
    <2>4. CASE wpc' = "timed"
      BY <2>3, <2>4 DEF Owned, QueuedOnce, SenderHas, WorkerHas, Alone, waiters
    <2>5. CASE wpc' = "free"
      <3>1. op[wop].ref_count = 1 BY SMTT(30), <2>1, <2>2, <2>3, <2>5
      <3>2. \A s \in Senders : ~(HasRef(s) /\ held[s] = wop)
        BY SMTT(30), <3>1, <2>1, <2>3 DEF Counted, WRef
      <3>3. \A s \in Senders : ~SenderHas(s, wop)
        BY <3>2, <2>3 DEF SenderHas, HasRef, Owned, Alone, WorkerHas, waiters
      <3> QED BY <2>3, <2>5, <3>3
        DEF Owned, QueuedOnce, SenderHas, WorkerHas, Alone, waiters
    <2> QED BY <2>3, <2>4, <2>5
  <1>4. CASE WFree
    <2>1. wop \notin Range(free_op_q) /\ wop \in Ops
      BY <1>4, <1>t DEF WFree, Owned, QueuedOnce, WorkerHas
    <2>2. ~Full(free_op_q) BY <2>1, <1>q, NotFull
    <2>3. /\ IsInjective(free_op_q')
          /\ Range(free_op_q') = Range(free_op_q) \union {wop}
      BY <1>4, <1>q, <2>1, <2>2, PutLast DEF WFree
    <2>4. /\ wpc' = "idle" /\ wpc = "free"
          /\ UNCHANGED <<active_op_q, pc, held, wop, use>>
      BY <1>4 DEF WFree
    <2> QED BY <2>1, <2>3, <2>4 DEF Owned, QueuedOnce, SenderHas, WorkerHas, Alone, waiters
  <1>5. CASE WTimed
    BY <1>5 DEF WTimed, Owned, QueuedOnce, SenderHas, WorkerHas, Alone, waiters
  <1>6. CASE WResult
    BY <1>6 DEF WResult, Owned, QueuedOnce, SenderHas, WorkerHas, Alone, waiters
  <1>7. CASE Raise
    BY <1>7 DEF Raise, Owned, QueuedOnce, SenderHas, WorkerHas, Alone, waiters
  <1>8. CASE Deinit
    <2>1. free_op_q' = <<>> /\ active_op_q' = <<>> /\ wpc' = "idle"
          /\ UNCHANGED <<pc, held, use>> /\ \A s \in Senders : pc[s] = "out"
      BY <1>8 DEF Deinit
    <2>2. /\ IsInjective(<<>>) /\ Range(<<>>) = {} BY SMTT(30) DEF IsInjective, Range
    <2> QED BY <2>1, <2>2 DEF Owned, QueuedOnce, SenderHas, WorkerHas, Alone, waiters
  <1> QED BY <1>1, <1>2, <1>3, <1>4, <1>5, <1>6, <1>7, <1>8 DEF WorkerStep

(* The counts after a sender's step. *)
LEMMA CountedSender ==
  ASSUME TypeOK, Uniform, Owned, Counted, NEW s \in Senders,
         Send(s) \/ SendFails(s) \/ SenderStep(s)
  PROVE  Counted'
  <1> USE DEF worker, history, life, queues, senders
  <1>t. /\ pc \in [Senders -> Labels] /\ held \in [Senders -> Ops \union {None}]
        /\ \A t \in Senders : pc[t] # "out" => held[t] \in Ops /\ t \in use.callers
        /\ op \in [Ops -> OpType]
    BY DEF TypeOK
  <1>i. \A o \in Ops : op[o].ref_count \in Int BY <1>t DEF OpType
  <1>q. /\ free_op_q \in Seq(Ops) /\ active_op_q \in Seq(Ops)
        /\ IsInjective(free_op_q) /\ IsInjective(active_op_q)
    BY DEF TypeOK, Owned, QueuedOnce
  <1>1. CASE Send(s)
    <2> DEFINE o == Head(free_op_q)
    <2>1. o \in Range(free_op_q)
      BY <1>1, <1>q, TakeFirst DEF Send
    <2>2. /\ pc' = [pc EXCEPT ![s] = "fill"] /\ held' = [held EXCEPT ![s] = o]
          /\ pc[s] = "out" /\ UNCHANGED <<active_op_q, wpc, wop, use, op>>
      BY <1>1 DEF Send, Goto
    <2> HIDE DEF o
    <2> QED BY SMTT(30), <1>t, <2>1, <2>2 DEF Counted, WRef, HasRef
  <1>2. CASE SendFails(s)
    BY SMTT(30), <1>2 DEF SendFails, Counted, WRef, HasRef
  <1>3. CASE Fill(s)
    <2>1. /\ op' = [op EXCEPT ![held[s]] = Filled(s)] /\ pc[s] = "fill"
          /\ pc' = [pc EXCEPT ![s] = "put"] /\ UNCHANGED <<active_op_q, held, wpc, wop, use>>
      BY <1>3 DEF Fill, Goto
    <2>2. /\ Filled(s).ref_count = (IF s \in use.waiters THEN 2 ELSE 1)
          /\ Filled(s).timeoutValue = (IF s \in use.waiters THEN 20000 ELSE 0)
      BY SMTT(30) DEF Filled, waiters, MSG_OP_TIMEOUT
    <2>3. ~WRef(held[s]) /\ \A t \in Senders : HasRef(t) => held[t] # held[s]
      BY <2>1, <1>t
        DEF Owned, QueuedOnce, WRef, Alone, WorkerHas, SenderHas, HasRef, waiters
    <2>4. \A t \in Senders : pc[t] = "put" => held[t] # held[s]
      BY <2>1, <1>t DEF Owned, QueuedOnce, SenderHas
    <2> QED BY SMTT(30), <1>t, <2>1, <2>2, <2>3, <2>4 DEF Counted, WRef, HasRef
  <1>4. CASE PutActive(s)
    <2>1. held[s] \notin Range(active_op_q) BY <1>4 DEF PutActive, Owned, Alone
    <2>2. Range(active_op_q') = Range(active_op_q) \union {held[s]}
      BY <1>4, <1>t, <1>q, <2>1, PutLast DEF PutActive
    <2>3. /\ pc' = [pc EXCEPT ![s] = "check"] /\ pc[s] = "put"
          /\ UNCHANGED <<op, held, wpc, wop, use>>
      BY <1>4 DEF PutActive, Goto
    <2>4. \A t \in Senders : t # s => ~SenderHas(t, held[s])
      BY <2>3, <1>t DEF Owned, QueuedOnce, SenderHas
    <2> QED BY SMTT(30), <1>t, <2>2, <2>3, <2>4
      DEF Counted, WRef, HasRef, SenderHas, waiters
  <1>5. CASE PutActiveFails(s)
    <2>1. /\ op' = [op EXCEPT ![held[s]].ref_count = @ - 1] /\ pc[s] = "put"
          /\ pc' = [pc EXCEPT ![s] = "end"] /\ UNCHANGED <<active_op_q, held, wpc, wop, use>>
      BY <1>5 DEF PutActiveFails, Goto
    <2>2. /\ \A x \in Ops : op'[x].timeoutValue = op[x].timeoutValue
          /\ \A x \in Ops \ {held[s]} : op'[x].ref_count = op[x].ref_count
          /\ op'[held[s]].ref_count = op[held[s]].ref_count - 1
      BY <1>t, <2>1 DEF OpType
    <2>3. ~WRef(held[s]) /\ \A t \in Senders : t # s => ~SenderHas(t, held[s])
      BY <2>1, <1>t DEF Owned, QueuedOnce, WRef, Alone, WorkerHas, SenderHas
    <2>4. pc' = [pc EXCEPT ![s] = "end"] /\ pc[s] = "put"
          /\ UNCHANGED <<active_op_q, held, wpc, wop, use>>
      BY <2>1
    <2> QED BY SMTT(30), <1>t, <1>i, <2>2, <2>3, <2>4
      DEF Counted, WRef, HasRef, SenderHas, waiters
  <1>6. CASE CheckTimeout(s)
    <2>1. /\ pc[s] = "check" /\ UNCHANGED <<op, active_op_q, held, wpc, wop, use>>
          /\ pc' = [pc EXCEPT ![s] = "wait"] \/ pc' = [pc EXCEPT ![s] = "end"]
      BY <1>6 DEF CheckTimeout, Goto
    <2> QED BY SMTT(30), <1>t, <2>1 DEF Counted, WRef, HasRef
  <1>7. CASE Signalled(s)
    <2>1. /\ op' = [op EXCEPT ![held[s]].comp = @ - 1] /\ pc[s] = "wait"
          /\ pc' = [pc EXCEPT ![s] = "result"] /\ UNCHANGED <<active_op_q, held, wpc, wop, use>>
      BY <1>7 DEF Signalled, Goto
    <2>2. \A x \in Ops : /\ op'[x].timeoutValue = op[x].timeoutValue
                         /\ op'[x].ref_count = op[x].ref_count
      BY <1>t, <2>1 DEF OpType
    <2> QED BY SMTT(30), <1>t, <2>1, <2>2 DEF Counted, WRef, HasRef
  <1>8. CASE TimesOut(s)
    BY SMTT(30), <1>8, <1>t DEF TimesOut, Goto, Counted, WRef, HasRef
  <1>9. CASE ReadResult(s)
    BY SMTT(30), <1>9, <1>t DEF ReadResult, Goto, Counted, WRef, HasRef
  <1>10. CASE LetGo(s)
    <2>1. CASE op[held[s]].timeoutValue = 0
      <3>1. /\ pc' = [pc EXCEPT ![s] = "out"] /\ pc[s] = "end"
            /\ UNCHANGED <<op, active_op_q, held, wpc, wop, use>>
        BY <1>10, <2>1 DEF LetGo, Goto
      <3>2. ~HasRef(s) BY <2>1 DEF Counted
      <3> QED BY SMTT(30), <1>t, <3>1, <3>2 DEF Counted, WRef, HasRef
    <2>2. CASE op[held[s]].timeoutValue # 0
      <3>1. /\ op' = [op EXCEPT ![held[s]].ref_count = @ - 1] /\ pc[s] = "end"
            /\ pc' = [pc EXCEPT ![s] = "out"] \/ pc' = [pc EXCEPT ![s] = "free"]
            /\ UNCHANGED <<active_op_q, held, wpc, wop, use>>
        BY <1>10, <2>2 DEF LetGo, Goto
      <3>2. HasRef(s) BY <1>t, <2>2, <3>1 DEF Counted, Uniform, HasRef
      <3>3. /\ \A x \in Ops : op'[x].timeoutValue = op[x].timeoutValue
            /\ \A x \in Ops \ {held[s]} : op'[x].ref_count = op[x].ref_count
            /\ op'[held[s]].ref_count = op[held[s]].ref_count - 1
        BY <1>t, <3>1 DEF OpType
      <3>4. \A t \in Senders : t # s => ~SenderHas(t, held[s])
        BY <3>1, <3>2, <1>t DEF Owned, QueuedOnce, SenderHas, HasRef, waiters
      <3>5. WRef(held[s]) => op'[held[s]].ref_count = 1
        BY SMTT(30), <1>t, <1>i, <3>1, <3>2, <3>3 DEF Counted
      <3>6. /\ pc' = [pc EXCEPT ![s] = "out"] \/ pc' = [pc EXCEPT ![s] = "free"]
            /\ UNCHANGED <<active_op_q, held, wpc, wop, use>>
        BY <3>1
      <3> QED BY SMTT(30), <1>t, <3>2, <3>3, <3>4, <3>5, <3>6
            DEF Counted, WRef, HasRef, SenderHas, waiters
    <2> QED BY <2>1, <2>2
  <1>11. CASE PutFree(s)
    BY SMTT(30), <1>11, <1>t DEF PutFree, Goto, Counted, WRef, HasRef
  <1>12. CASE PutFreeFails(s)
    BY SMTT(30), <1>12, <1>t DEF PutFreeFails, Goto, Counted, WRef, HasRef
  <1> QED BY <1>1, <1>2, <1>3, <1>4, <1>5, <1>6, <1>7, <1>8, <1>9, <1>10, <1>11,
             <1>12 DEF SenderStep

(* The counts after a step of the worker. *)
LEMMA CountedWorker ==
  ASSUME TypeOK, Owned, Counted, WorkerStep \/ Deinit
  PROVE  Counted'
  <1> USE DEF worker, history, life, queues, senders, WGoto
  <1>t. /\ pc \in [Senders -> Labels] /\ held \in [Senders -> Ops \union {None}]
        /\ \A t \in Senders : pc[t] # "out" => held[t] \in Ops
        /\ op \in [Ops -> OpType] /\ (wpc # "idle" => wop \in Ops)
    BY DEF TypeOK
  <1>i. \A o \in Ops : op[o].ref_count \in Int BY <1>t DEF OpType
  <1>q. active_op_q \in Seq(Ops) /\ IsInjective(active_op_q)
    BY DEF TypeOK, Owned, QueuedOnce
  <1>1. CASE GetActive
    <2> DEFINE o == Head(active_op_q)
    <2>1. /\ o \in Range(active_op_q) /\ Range(active_op_q') = Range(active_op_q) \ {o}
      BY <1>1, <1>q, TakeFirst DEF GetActive
    <2>2. /\ wpc = "idle" /\ wpc' = "handle" /\ wop' = o
          /\ UNCHANGED <<op, pc, held, use>>
      BY <1>1 DEF GetActive
    <2> HIDE DEF o
    <2>3. \A x \in Ops : WRef(x)' <=> WRef(x) BY <2>1, <2>2 DEF WRef
    <2> QED BY SMTT(30), <1>t, <2>2, <2>3 DEF Counted, HasRef
  <1>2. CASE Handle
    BY SMTT(30), <1>2 DEF Handle, Counted, WRef, HasRef
  <1>3. CASE Dec
    <2>1. /\ op' = [op EXCEPT ![wop].ref_count = @ - 1] /\ wpc = "dec"
          /\ wpc' \in {"free", "timed"} /\ UNCHANGED <<active_op_q, pc, held, use, wop>>
      BY <1>3 DEF Dec
    <2>2. /\ \A x \in Ops : op'[x].timeoutValue = op[x].timeoutValue
          /\ \A x \in Ops \ {wop} : op'[x].ref_count = op[x].ref_count
          /\ op'[wop].ref_count = op[wop].ref_count - 1
      BY <1>t, <2>1 DEF OpType
    <2>3. \A s \in Senders : pc[s] = "put" => held[s] # wop
      BY <2>1 DEF Owned, Alone, WorkerHas
    <2>4. wop \notin Range(active_op_q) BY <2>1 DEF Owned, WorkerHas
    <2>5. (\E s \in Senders : HasRef(s) /\ held[s] = wop) => op'[wop].ref_count = 1
      BY SMTT(30), <1>t, <1>i, <2>1, <2>2 DEF Counted, WRef
    <2>6. wpc = "dec" /\ wpc' \in {"free", "timed"} /\ UNCHANGED <<active_op_q, pc, held, use, wop>>
      BY <2>1
    <2> QED BY SMTT(30), <1>t, <2>2, <2>3, <2>4, <2>5, <2>6 DEF Counted, WRef, HasRef
  <1>4. CASE WFree
    BY SMTT(30), <1>4 DEF WFree, Counted, WRef, HasRef
  <1>5. CASE WTimed
    BY SMTT(30), <1>5 DEF WTimed, Counted, WRef, HasRef
  <1>6. CASE WResult
    <2>1. /\ op' = [op EXCEPT ![wop].result = wret] /\ wpc = "result" /\ wpc' = "raise"
          /\ UNCHANGED <<active_op_q, pc, held, use, wop>>
      BY <1>6 DEF WResult
    <2>2. \A x \in Ops : /\ op'[x].timeoutValue = op[x].timeoutValue
                         /\ op'[x].ref_count = op[x].ref_count
      BY <1>t, <2>1 DEF OpType
    <2> QED BY SMTT(30), <1>t, <2>1, <2>2 DEF Counted, WRef, HasRef
  <1>7. CASE Raise
    <2>1. /\ op' = [op EXCEPT ![wop].comp = @ + 1] /\ wpc = "raise" /\ wpc' = "idle"
          /\ UNCHANGED <<active_op_q, pc, held, use, wop>>
      BY <1>7 DEF Raise
    <2>2. \A x \in Ops : /\ op'[x].timeoutValue = op[x].timeoutValue
                         /\ op'[x].ref_count = op[x].ref_count
      BY <1>t, <2>1 DEF OpType
    <2> QED BY SMTT(30), <1>t, <2>1, <2>2 DEF Counted, WRef, HasRef
  <1>8. CASE Deinit
    <2>1. active_op_q' = <<>> /\ wpc' = "idle" /\ op' = [o \in Ops |-> Cleared]
          /\ UNCHANGED <<pc, held, use>> /\ \A s \in Senders : pc[s] = "out"
      BY <1>8 DEF Deinit
    <2>2. Range(<<>>) = {} /\ Cleared.timeoutValue = 0 BY SMTT(30) DEF Range, Cleared
    <2> QED BY <2>1, <2>2 DEF Counted, WRef, HasRef
  <1> QED BY <1>1, <1>2, <1>3, <1>4, <1>5, <1>6, <1>7, <1>8 DEF WorkerStep

(* No step of a sender leaks an op, other than the kills that lost records. *)
LEMMA PlacedSender ==
  ASSUME TypeOK, Uniform, Owned, Counted, Placed, NEW s \in Senders,
         Send(s) \/ SendFails(s) \/ SenderStep(s)
  PROVE  Placed'
  <1> USE DEF worker, history, life, queues, senders
  <1>t. /\ pc \in [Senders -> Labels] /\ held \in [Senders -> Ops \union {None}]
        /\ \A t \in Senders : pc[t] # "out" => held[t] \in Ops /\ t \in use.callers
        /\ op \in [Ops -> OpType]
    BY DEF TypeOK
  <1>q. /\ free_op_q \in Seq(Ops) /\ active_op_q \in Seq(Ops)
        /\ IsInjective(free_op_q) /\ IsInjective(active_op_q)
    BY DEF TypeOK, Owned, QueuedOnce
  <1>u. up' = up BY DEF Send, SendFails, SenderStep, Fill, PutActive, PutActiveFails,
          CheckTimeout, Signalled, TimesOut, ReadResult, LetGo, PutFree, PutFreeFails
  <1> SUFFICES ASSUME up
               PROVE  \A o \in Ops : (o \notin lost <=> o \in Range(free_op_q) \/ InUse(o))'
    BY <1>u DEF Placed
  <1>p. \A o \in Ops : o \notin lost <=> o \in Range(free_op_q) \/ InUse(o)
    BY DEF Placed
  <1>1. CASE Send(s)
    <2> DEFINE o == Head(free_op_q)
    <2>1. o \in Range(free_op_q) /\ o \in Ops /\ Range(free_op_q') = Range(free_op_q) \ {o}
      BY SMTT(30), <1>1, <1>q, TakeFirst DEF Send
    <2>2. /\ pc' = [pc EXCEPT ![s] = "fill"] /\ held' = [held EXCEPT ![s] = o]
          /\ pc[s] = "out" /\ UNCHANGED <<active_op_q, wpc, wop, use, lost>>
      BY <1>1 DEF Send, Goto
    <2> HIDE DEF o
    <2>3. \A x \in Ops : InUse(x)' <=> InUse(x) \/ x = o
      BY <1>t, <2>1, <2>2 DEF InUse, WRef, WorkerHas, SenderHas, waiters
    <2> QED BY <1>p, <2>1, <2>2, <2>3
  <1>2. CASE SendFails(s)
    BY <1>2, <1>p DEF SendFails, InUse, WRef, WorkerHas, SenderHas, waiters
  <1>3. CASE Fill(s)
    <2>1. /\ pc[s] = "fill" /\ pc' = [pc EXCEPT ![s] = "put"]
          /\ UNCHANGED <<free_op_q, active_op_q, held, wpc, wop, use, lost>>
      BY <1>3 DEF Fill, Goto
    <2>2. \A x \in Ops : InUse(x)' <=> InUse(x)
      BY <1>t, <2>1 DEF InUse, WRef, WorkerHas, SenderHas, waiters
    <2> QED BY <1>p, <2>1, <2>2
  <1>4. CASE PutActive(s)
    <2>1. held[s] \notin Range(active_op_q) BY <1>4 DEF PutActive, Owned, Alone
    <2>2. Range(active_op_q') = Range(active_op_q) \union {held[s]}
      BY <1>4, <1>t, <1>q, <2>1, PutLast DEF PutActive
    <2>3. /\ pc' = [pc EXCEPT ![s] = "check"] /\ pc[s] = "put"
          /\ UNCHANGED <<free_op_q, held, wpc, wop, use, lost>>
      BY <1>4 DEF PutActive, Goto
    <2>4. \A x \in Ops : InUse(x)' <=> InUse(x)
      BY <1>t, <2>2, <2>3 DEF InUse, WRef, WorkerHas, SenderHas, waiters
    <2> QED BY <1>p, <2>3, <2>4
  <1>5. CASE PutActiveFails(s)
    <2>1. /\ pc[s] = "put" /\ pc' = [pc EXCEPT ![s] = "end"]
          /\ lost' = (IF op[held[s]].timeoutValue # 0 THEN lost ELSE lost \union {held[s]})
          /\ UNCHANGED <<free_op_q, active_op_q, held, wpc, wop, use>>
      BY <1>5 DEF PutActiveFails, Goto
    <2>2. /\ ~WRef(held[s]) /\ ~WorkerHas(held[s]) /\ held[s] \notin Range(free_op_q)
          /\ \A t \in Senders : t # s => ~SenderHas(t, held[s])
      BY <2>1, <1>t DEF Owned, QueuedOnce, WRef, Alone, WorkerHas, SenderHas
    <2>3. op[held[s]].timeoutValue # 0 <=> s \in use.waiters
      BY <2>1, <1>t DEF Counted, Uniform
    <2>4. \A x \in Ops : InUse(x)' <=> InUse(x) /\ (x = held[s] => s \in use.waiters)
      BY <1>t, <2>1, <2>2 DEF InUse, WRef, WorkerHas, SenderHas, waiters
    <2> QED BY <1>p, <1>t, <2>1, <2>2, <2>3, <2>4
  <1>6. CASE CheckTimeout(s)
    <2>1. /\ pc[s] = "check" /\ UNCHANGED <<free_op_q, active_op_q, held, wpc, wop, use, lost>>
          /\ pc' = [pc EXCEPT ![s] = "wait"] \/ pc' = [pc EXCEPT ![s] = "end"]
      BY <1>6 DEF CheckTimeout, Goto
    <2>2. \A x \in Ops : InUse(x)' <=> InUse(x)
      BY <1>t, <2>1 DEF InUse, WRef, WorkerHas, SenderHas, waiters
    <2> QED BY <1>p, <2>1, <2>2
  <1>7. CASE Signalled(s) \/ TimesOut(s)
    <2>1. /\ pc[s] = "wait" /\ pc' = [pc EXCEPT ![s] = "result"]
          /\ UNCHANGED <<free_op_q, active_op_q, held, wpc, wop, use, lost>>
      BY <1>7 DEF Signalled, TimesOut, Goto
    <2>2. \A x \in Ops : InUse(x)' <=> InUse(x)
      BY <1>t, <2>1 DEF InUse, WRef, WorkerHas, SenderHas, waiters
    <2> QED BY <1>p, <2>1, <2>2
  <1>9. CASE ReadResult(s)
    <2>1. /\ pc[s] = "result" /\ pc' = [pc EXCEPT ![s] = "end"]
          /\ UNCHANGED <<free_op_q, active_op_q, held, wpc, wop, use, lost>>
      BY <1>9 DEF ReadResult, Goto
    <2>2. \A x \in Ops : InUse(x)' <=> InUse(x)
      BY <1>t, <2>1 DEF InUse, WRef, WorkerHas, SenderHas, waiters
    <2> QED BY <1>p, <2>1, <2>2
  <1>10. CASE LetGo(s)
    <2>u. pc[s] = "end" /\ UNCHANGED <<free_op_q, active_op_q, held, wpc, wop, use, lost>>
      BY <1>10 DEF LetGo
    <2>1. CASE op[held[s]].timeoutValue = 0
      <3>1. pc' = [pc EXCEPT ![s] = "out"]
        BY <1>10, <2>1 DEF LetGo, Goto
      <3>2. s \notin use.waiters BY <2>1, <2>u DEF Counted, HasRef
      <3>3. \A x \in Ops : InUse(x)' <=> InUse(x)
        BY <1>t, <2>u, <3>1, <3>2 DEF InUse, WRef, WorkerHas, SenderHas, waiters
      <3> QED BY <1>p, <2>u, <3>3
    <2>2. CASE op[held[s]].timeoutValue # 0
      <3>1. s \in use.waiters BY <1>t, <2>2, <2>u DEF Counted, Uniform
      <3>i. op[held[s]].ref_count \in Int BY <2>u, <1>t DEF OpType
      <3>2. op'[held[s]].ref_count = op[held[s]].ref_count - 1
        BY SMTT(30), <1>10, <1>t, <2>2, <2>u DEF LetGo, OpType
      <3>3. CASE pc' = [pc EXCEPT ![s] = "free"]
        <4>1. \A x \in Ops : InUse(x)' <=> InUse(x)
          BY <1>t, <2>u, <3>1, <3>3 DEF InUse, WRef, WorkerHas, SenderHas, waiters
        <4> QED BY <1>p, <2>u, <4>1
      <3>4. CASE pc' = [pc EXCEPT ![s] = "out"]
        <4>1. op'[held[s]].ref_count # 0
          <5> SUFFICES ASSUME op'[held[s]].ref_count = 0 PROVE FALSE OBVIOUS
          <5>1. pc' = [pc EXCEPT ![s] = "free"] BY <1>10, <2>2 DEF LetGo, Goto
          <5> QED BY <5>1, <3>4, <1>t
        <4>2. WRef(held[s])
          BY SMTT(30), <4>1, <3>1, <3>2, <3>i, <2>u DEF Counted, HasRef
        <4>3. \A x \in Ops : InUse(x)' <=> InUse(x)
          BY <1>t, <2>u, <3>1, <3>4, <4>2 DEF InUse, WRef, WorkerHas, SenderHas, waiters
        <4> QED BY <1>p, <2>u, <4>3
      <3> QED BY <1>10, <2>2, <3>3, <3>4 DEF LetGo, Goto
    <2> QED BY <2>1, <2>2
  <1>11. CASE PutFree(s)
    <2>1. held[s] \notin Range(free_op_q) /\ held[s] \in Ops
      BY <1>11, <1>t DEF PutFree, Owned, QueuedOnce, SenderHas
    <2>2. ~Full(free_op_q) BY <2>1, <1>q, NotFull
    <2>3. Range(free_op_q') = Range(free_op_q) \union {held[s]}
      BY <1>11, <1>q, <2>1, <2>2, PutLast DEF PutFree
    <2>4. /\ pc' = [pc EXCEPT ![s] = "out"] /\ pc[s] = "free"
          /\ UNCHANGED <<active_op_q, held, wpc, wop, use, lost>>
      BY <1>11 DEF PutFree, Goto
    <2>5. InUse(held[s]) /\ \A x \in Ops : x # held[s] => (InUse(x)' <=> InUse(x))
      BY <1>t, <2>4 DEF InUse, WRef, WorkerHas, SenderHas, waiters
    <2> QED BY <1>p, <2>1, <2>3, <2>4, <2>5
  <1>12. CASE PutFreeFails(s)
    <2>1. /\ pc[s] = "free" /\ pc' = [pc EXCEPT ![s] = "out"]
          /\ lost' = lost \union {held[s]}
          /\ UNCHANGED <<free_op_q, active_op_q, held, wpc, wop, use>>
      BY <1>12 DEF PutFreeFails, Goto
    <2>2. /\ ~WRef(held[s]) /\ ~WorkerHas(held[s]) /\ held[s] \notin Range(free_op_q)
          /\ \A t \in Senders : t # s => ~SenderHas(t, held[s])
      BY <2>1, <1>t DEF Owned, QueuedOnce, WRef, Alone, WorkerHas, SenderHas
    <2>4. \A x \in Ops : InUse(x)' <=> InUse(x) /\ x # held[s]
      BY <1>t, <2>1, <2>2 DEF InUse, WRef, WorkerHas, SenderHas, waiters
    <2> QED BY <1>p, <1>t, <2>1, <2>2, <2>4
  <1> QED BY <1>1, <1>2, <1>3, <1>4, <1>5, <1>6, <1>7, <1>9, <1>10, <1>11,
             <1>12 DEF SenderStep

(* No step of the worker leaks an op. *)
LEMMA PlacedWorker ==
  ASSUME TypeOK, Owned, Counted, Placed, WorkerStep \/ Deinit
  PROVE  Placed'
  <1> USE DEF worker, history, life, queues, senders, WGoto
  <1>t. /\ pc \in [Senders -> Labels] /\ held \in [Senders -> Ops \union {None}]
        /\ op \in [Ops -> OpType] /\ (wpc # "idle" => wop \in Ops)
    BY DEF TypeOK
  <1>q. /\ free_op_q \in Seq(Ops) /\ active_op_q \in Seq(Ops)
        /\ IsInjective(free_op_q) /\ IsInjective(active_op_q)
    BY DEF TypeOK, Owned, QueuedOnce
  <1>8. CASE Deinit BY <1>8 DEF Deinit, Placed
  <1>9. CASE WorkerStep
    <2>u. up' = up
      BY <1>9 DEF WorkerStep, GetActive, Handle, Dec, WFree, WTimed, WResult, Raise
    <2> SUFFICES ASSUME up
                 PROVE  \A o \in Ops : (o \notin lost <=> o \in Range(free_op_q) \/ InUse(o))'
      BY <2>u DEF Placed
    <2>p. \A o \in Ops : o \notin lost <=> o \in Range(free_op_q) \/ InUse(o)
      BY DEF Placed
    <2>1. CASE GetActive
      <3> DEFINE o == Head(active_op_q)
      <3>1. /\ o \in Range(active_op_q) /\ Range(active_op_q') = Range(active_op_q) \ {o}
        BY <2>1, <1>q, TakeFirst DEF GetActive
      <3>2. /\ wpc = "idle" /\ wpc' = "handle" /\ wop' = o
            /\ UNCHANGED <<free_op_q, pc, held, use, lost>>
        BY <2>1 DEF GetActive
      <3> HIDE DEF o
      <3>3. \A x \in Ops : InUse(x)' <=> InUse(x)
        BY <3>1, <3>2 DEF InUse, WRef, WorkerHas, SenderHas, waiters
      <3> QED BY <2>p, <3>2, <3>3
    <2>2. CASE Handle
      BY <2>2, <2>p DEF Handle, InUse, WRef, WorkerHas, SenderHas, waiters
    <2>3. CASE Dec
      <3>1. /\ wpc = "dec" /\ wpc' = (IF op'[wop].ref_count = 0 THEN "free" ELSE "timed")
            /\ UNCHANGED <<free_op_q, active_op_q, pc, held, use, wop, lost>>
        BY <2>3 DEF Dec
      <3>i. op[wop].ref_count \in Int BY <3>1, <1>t DEF OpType
      <3>2. op'[wop].ref_count = op[wop].ref_count - 1
        BY <2>3, <1>t DEF Dec, OpType
      <3>3. wpc' = "timed" => \E s \in Senders : SenderHas(s, wop)
        BY SMTT(30), <1>t, <3>1, <3>2, <3>i DEF Counted, WRef, SenderHas, HasRef, waiters
      <3>4. \A x \in Ops : InUse(x)' <=> InUse(x)
        BY <1>t, <3>1, <3>3 DEF InUse, WRef, WorkerHas, SenderHas, waiters
      <3> QED BY <2>p, <3>1, <3>4
    <2>4. CASE WFree
      <3>1. wop \notin Range(free_op_q) /\ wop \in Ops
        BY <2>4, <1>t DEF WFree, Owned, QueuedOnce, WorkerHas
      <3>2. ~Full(free_op_q) BY <3>1, <1>q, NotFull
      <3>3. Range(free_op_q') = Range(free_op_q) \union {wop}
        BY <2>4, <1>q, <3>1, <3>2, PutLast DEF WFree
      <3>4. /\ wpc' = "idle" /\ wpc = "free"
            /\ UNCHANGED <<active_op_q, pc, held, wop, use, lost>>
        BY <2>4 DEF WFree
      <3>5. InUse(wop) /\ \A x \in Ops : x # wop => (InUse(x)' <=> InUse(x))
        BY <3>4 DEF InUse, WRef, WorkerHas, SenderHas, waiters
      <3> QED BY <2>p, <3>1, <3>3, <3>4, <3>5
    <2>5. CASE WTimed \/ WResult \/ Raise
      <3>1. /\ wpc \in {"timed", "result", "raise"} /\ wpc' \in {"idle", "result", "raise"}
            /\ UNCHANGED <<free_op_q, active_op_q, pc, held, use, wop, lost>>
        BY <2>5 DEF WTimed, WResult, Raise
      <3>2. \A x \in Ops : InUse(x)' <=> InUse(x)
        BY <3>1 DEF InUse, WRef, WorkerHas, SenderHas, waiters
      <3> QED BY <2>p, <3>1, <3>2
    <2> QED BY <1>9, <2>1, <2>2, <2>3, <2>4, <2>5 DEF WorkerStep
  <1> QED BY <1>8, <1>9

-----------------------------------------------------------------------------
(* A step that leaves the requests where they are. *)
LEMMA OrderedQuiet ==
  ASSUME TypeOK, Ordered,
         UNCHANGED <<up, wop, active_op_q, handled, queued, requests, mine, held>>,
         \A o \in Ops : op'[o].req = op[o].req,
         \A s \in Senders : pc'[s] \in {"fill", "put"} => pc'[s] = pc[s],
         \A s \in Senders : pc[s] = "out" => pc'[s] = "out",
         wpc' = "handle" <=> wpc = "handle",
         wpc = "idle" => wpc' = "idle"
  PROVE  Ordered'
  <1>1. Taken' = Taken BY DEF Taken
  <1>2. /\ \A j \in 1 .. Len(active_op_q) : active_op_q[j] \in Ops
        /\ wpc = "handle" => wop \in Ops
        /\ \A s \in Senders : pc[s] = "put" => held[s] \in Ops
    BY SMTT(30) DEF TypeOK
  <1>3. \A s \in Senders : Asks(s)' => Asks(s) BY DEF Asks
  <1>4. ~up' => wpc' = "idle" /\ active_op_q' = <<>> /\ \A s \in Senders : pc'[s] = "out"
    BY DEF Ordered
  <1>5. /\ wpc' = "handle" => op'[wop'].req = queued'[Len(handled') + 1]
        /\ \A s \in Senders : pc'[s] = "put" => op'[held'[s]].req = mine'[s]
    BY <1>2 DEF Ordered
  <1>6. \A j \in 1 .. Len(active_op_q') : op'[active_op_q'[j]].req = queued'[Taken' + j]
    BY <1>1, <1>2 DEF Ordered
  <1>7. \A s \in Senders : Asks(s)' =>
          /\ mine'[s] \in 1 .. requests'
          /\ \A i \in 1 .. Len(queued') : queued'[i] # mine'[s]
          /\ \A t \in Senders : Asks(t)' /\ mine'[t] = mine'[s] => s = t
    BY <1>3 DEF Ordered
  <1> QED BY <1>1, <1>4, <1>5, <1>6, <1>7 DEF Ordered

(* A sender queues a request that is new, behind those already queued. *)
LEMMA OrderedSender ==
  ASSUME TypeOK, Owned, Ordered, NEW s \in Senders,
         Send(s) \/ SendFails(s) \/ SenderStep(s)
  PROVE  Ordered'
  <1> USE DEF worker, history, life, queues, senders
  <1>t. /\ pc \in [Senders -> Labels] /\ held \in [Senders -> Ops \union {None}]
        /\ \A t \in Senders : pc[t] # "out" => held[t] \in Ops /\ t \in use.callers
        /\ op \in [Ops -> OpType] /\ mine \in [Senders -> Nat]
        /\ requests \in Nat /\ queued \in Seq(Nat) /\ active_op_q \in Seq(Ops)
        /\ handled \in Seq(Nat) /\ (wpc # "idle" => wop \in Ops)
    BY DEF TypeOK
  <1>n. Len(queued) \in Nat /\ Len(active_op_q) \in Nat /\ Len(handled) \in Nat /\ Taken \in Nat
    BY SMTT(30), <1>t DEF Taken
  <1>1. CASE Send(s)
    <2>1. /\ up /\ requests' = requests + 1 /\ mine' = [mine EXCEPT ![s] = requests + 1]
          /\ pc' = [pc EXCEPT ![s] = "fill"]
          /\ UNCHANGED <<up, active_op_q, op, wpc, wop, handled, queued>>
          /\ \A t \in Senders \ {s} : held'[t] = held[t]
      BY <1>1, <1>t DEF Send, Goto
    <2>2. \A i \in 1 .. Len(queued) : queued[i] \in 1 .. requests'
      BY SMTT(30), <1>t, <2>1 DEF Ordered
    <2>3. \A t \in Senders \ {s} : /\ Asks(t)' <=> Asks(t)
                                   /\ mine'[t] = mine[t] /\ pc'[t] = pc[t]
      BY <1>t, <2>1 DEF Asks
    <2>4. /\ mine'[s] = requests + 1 /\ pc'[s] = "fill"
      BY <1>t, <2>1
    <2>5. \A t \in Senders : Asks(t)' =>
          /\ mine'[t] \in 1 .. requests'
          /\ \A i \in 1 .. Len(queued) : queued[i] # mine'[t]
          /\ \A v \in Senders : Asks(v)' /\ mine'[v] = mine'[t] => t = v
      <3>1. \A t \in Senders \ {s} : Asks(t)' => mine'[t] \in 1 .. requests
        BY <2>3 DEF Ordered
      <3>2. \A i \in 1 .. Len(queued) : queued[i] \in 1 .. requests BY DEF Ordered
      <3>3. \A t \in Senders : Asks(t)' => mine'[t] \in 1 .. requests'
        BY SMTT(30), <3>1, <2>1, <2>4, <1>t
      <3>4. \A t \in Senders \ {s} : Asks(t)' => mine'[t] # mine'[s]
        BY SMTT(30), <3>1, <2>4, <1>t
      <3>5. \A i \in 1 .. Len(queued) : queued[i] # mine'[s] BY SMTT(30), <3>2, <2>4, <1>t
      <3>6. \A t \in Senders \ {s} : Asks(t)' =>
              /\ \A i \in 1 .. Len(queued) : queued[i] # mine'[t]
              /\ \A v \in Senders \ {s} : Asks(v)' /\ mine'[v] = mine'[t] => t = v
        BY SMTT(30), <2>3 DEF Ordered
      <3> QED BY <3>3, <3>4, <3>5, <3>6
    <2>6. \A t \in Senders : pc'[t] = "put" => op'[held'[t]].req = mine'[t]
      BY SMTT(30), <2>1, <2>3, <2>4 DEF Ordered
    <2>7. Taken' = Taken BY <2>1 DEF Taken
    <2> QED BY <2>1, <2>2, <2>5, <2>6, <2>7 DEF Ordered
  <1>2. CASE SendFails(s)
    <2>1. /\ up /\ requests' = requests + 1 /\ mine' = [mine EXCEPT ![s] = requests + 1]
          /\ pc[s] = "out"
          /\ UNCHANGED <<up, pc, held, active_op_q, op, wpc, wop, handled, queued>>
      BY <1>2, <1>t DEF SendFails
    <2>2. \A i \in 1 .. Len(queued) : queued[i] \in 1 .. requests'
      BY SMTT(30), <1>t, <2>1 DEF Ordered
    <2>3. /\ \A t \in Senders : Asks(t)' => Asks(t) /\ t # s /\ mine'[t] = mine[t]
          /\ \A t \in Senders : pc[t] = "put" => mine'[t] = mine[t]
      BY <1>t, <2>1 DEF Asks
    <2>4. \A t \in Senders : Asks(t)' =>
          /\ mine'[t] \in 1 .. requests'
          /\ \A i \in 1 .. Len(queued) : queued[i] # mine'[t]
          /\ \A v \in Senders : Asks(v)' /\ mine'[v] = mine'[t] => t = v
      <3>1. \A t \in Senders : Asks(t)' => mine'[t] \in 1 .. requests
        BY <2>3 DEF Ordered
      <3>2. \A t \in Senders : Asks(t)' => mine'[t] \in 1 .. requests'
        BY SMTT(30), <3>1, <2>1, <1>t
      <3> QED BY SMTT(30), <2>3, <3>2 DEF Ordered
    <2>7. Taken' = Taken BY <2>1 DEF Taken
    <2> QED BY <2>1, <2>2, <2>3, <2>4, <2>7 DEF Ordered
  <1>3. CASE Fill(s)
    <2>1. /\ op' = [op EXCEPT ![held[s]] = Filled(s)] /\ pc[s] = "fill"
          /\ pc' = [pc EXCEPT ![s] = "put"]
          /\ UNCHANGED <<up, active_op_q, held, wpc, wop, handled, queued, requests, mine>>
      BY <1>3 DEF Fill, Goto
    <2>2. Filled(s).req = mine[s] BY DEF Filled
    <2>3. /\ op'[held[s]].req = mine[s]
          /\ \A o \in Ops \ {held[s]} : op'[o].req = op[o].req
      BY <1>t, <2>1, <2>2
    <2>4. /\ held[s] \notin Range(active_op_q) /\ ~WorkerHas(held[s])
          /\ \A t \in Senders : pc[t] = "put" => held[t] # held[s]
      BY <2>1, <1>t DEF Owned, QueuedOnce, Alone, SenderHas
    <2>5. \A j \in 1 .. Len(active_op_q) : active_op_q[j] \in Ops \ {held[s]}
      BY SMTT(30), <2>4, <1>t DEF Range
    <2>6. \A t \in Senders : Asks(t)' <=> Asks(t) BY <1>t, <2>1 DEF Asks
    <2>7. Taken' = Taken BY <2>1 DEF Taken
    <2>8. \A t \in Senders : pc'[t] = "put" => op'[held[t]].req = mine[t]
      BY <1>t, <2>1, <2>3, <2>4 DEF Ordered
    <2>9. wpc = "handle" => op'[wop].req = op[wop].req
      BY <1>t, <2>3, <2>4 DEF WorkerHas
    <2>10. \A j \in 1 .. Len(active_op_q) : op'[active_op_q[j]].req = queued[Taken + j]
      BY <2>3, <2>5 DEF Ordered
    <2>11. up BY <2>1 DEF Ordered
    <2> QED BY SMTT(30), <2>1, <2>6, <2>7, <2>8, <2>9, <2>10, <2>11 DEF Ordered
  <1>4. CASE PutActive(s)
    <2> DEFINE n == Len(queued)
               a == Len(active_op_q)
    <2>1. /\ pc[s] = "put" /\ pc' = [pc EXCEPT ![s] = "check"]
          /\ active_op_q' = Append(active_op_q, held[s])
          /\ queued' = Append(queued, mine[s])
          /\ UNCHANGED <<up, op, held, mine, wpc, wop, requests, handled>>
      BY <1>4 DEF PutActive, Goto
    <2>2. held[s] \in Ops /\ mine[s] \in Nat BY <1>t, <2>1
    <2>3. /\ Len(queued') = n + 1 /\ queued'[n + 1] = mine[s] /\ DOMAIN queued' = 1 .. n + 1
          /\ \A i \in 1 .. n : queued'[i] = queued[i]
      BY SMTT(30), <1>t, <2>1, <2>2
    <2>4. /\ Len(active_op_q') = a + 1 /\ active_op_q'[a + 1] = held[s]
          /\ \A i \in 1 .. a : active_op_q'[i] = active_op_q[i]
      BY SMTT(30), <1>t, <2>1, <2>2
    <2>5. Asks(s) /\ pc'[s] = "check" BY <1>t, <2>1 DEF Asks
    <2>6. /\ \A t \in Senders : Asks(t)' => Asks(t) /\ t # s
          /\ \A t \in Senders : pc'[t] = "put" => pc[t] = "put"
      BY <1>t, <2>1 DEF Asks
    <2>7. Taken' = Taken BY <2>1 DEF Taken
    <2>8. up /\ n = Taken + a BY <2>1 DEF Ordered
    <2>9. op[held[s]].req = mine[s] BY <2>1 DEF Ordered
    <2>m. /\ mine[s] \in 1 .. requests /\ \A i \in 1 .. n : queued[i] # mine[s]
          /\ \A t \in Senders : Asks(t) /\ t # s => mine[t] # mine[s]
      BY <2>5 DEF Ordered
    <2>d. DOMAIN queued = 1 .. n BY SMTT(30), <1>t
    <2>h. Len(handled) <= Taken BY SMTT(30), <1>n DEF Taken
    <2> HIDE DEF n, a
    <2>k. n \in Nat /\ a \in Nat BY <1>n DEF n, a
    <2>10. \A j \in 1 .. a + 1 : op[active_op_q'[j]].req = queued'[Taken + j]
      <3> SUFFICES ASSUME NEW j \in 1 .. a + 1
                   PROVE  op[active_op_q'[j]].req = queued'[Taken + j]
        OBVIOUS
      <3>1. CASE j = a + 1
        <4>1. Taken + j = n + 1 BY SMTT(30), <3>1, <2>8, <2>k, <1>n
        <4> QED BY <3>1, <4>1, <2>3, <2>4, <2>9
      <3>2. CASE j \in 1 .. a
        <4>1. Taken + j \in 1 .. n BY SMTT(30), <3>2, <2>8, <2>k, <1>n
        <4>2. op[active_op_q[j]].req = queued[Taken + j] BY <3>2 DEF Ordered, a
        <4> QED BY <3>2, <4>1, <4>2, <2>3, <2>4
      <3> QED BY SMTT(30), <3>1, <3>2, <2>k
    <2>11. IsInjective(queued')
      <3> SUFFICES ASSUME NEW i \in 1 .. n + 1, NEW j \in 1 .. n + 1, queued'[i] = queued'[j]
                   PROVE  i = j
        BY <2>3 DEF IsInjective
      <3>1. CASE i \in 1 .. n /\ j \in 1 .. n
        BY SMTT(30), <3>1, <2>3, <2>d DEF Ordered, IsInjective
      <3>2. CASE i = n + 1 /\ j \in 1 .. n BY <3>2, <2>3, <2>m
      <3>3. CASE i \in 1 .. n /\ j = n + 1 BY <3>3, <2>3, <2>m
      <3> QED BY SMTT(30), <3>1, <3>2, <3>3, <2>k
    <2>12. \A i \in 1 .. n + 1 : queued'[i] \in 1 .. requests
      <3>1. \A i \in 1 .. n : queued'[i] \in 1 .. requests BY <2>3 DEF Ordered, n
      <3>2. queued'[n + 1] \in 1 .. requests BY <2>3, <2>m
      <3> QED BY SMTT(30), <3>1, <3>2, <2>k
    <2>13. \A t \in Senders : Asks(t)' =>
             /\ mine[t] \in 1 .. requests
             /\ \A i \in 1 .. n + 1 : queued'[i] # mine[t]
             /\ \A v \in Senders : Asks(v)' /\ mine[v] = mine[t] => t = v
      <3> SUFFICES ASSUME NEW t \in Senders, Asks(t)'
                   PROVE  /\ mine[t] \in 1 .. requests
                          /\ \A i \in 1 .. n + 1 : queued'[i] # mine[t]
                          /\ \A v \in Senders : Asks(v)' /\ mine[v] = mine[t] => t = v
        OBVIOUS
      <3>1. Asks(t) /\ t # s BY <2>6
      <3>2. \A i \in 1 .. n : queued'[i] # mine[t] BY SMTT(30), <3>1, <2>3 DEF Ordered, n
      <3>3. queued'[n + 1] # mine[t] BY <3>1, <2>3, <2>m
      <3> QED BY SMTT(30), <3>1, <3>2, <3>3, <2>6, <2>k DEF Ordered
    <2>14. \A i \in 1 .. Len(handled) : handled[i] = queued'[i]
      <3>1. \A i \in 1 .. Len(handled) : i \in 1 .. n BY SMTT(30), <2>h, <2>8, <2>k, <1>n
      <3> QED BY <3>1, <2>3 DEF Ordered
    <2>15. wpc = "handle" => op[wop].req = queued'[Len(handled) + 1]
      <3>1. wpc = "handle" => Len(handled) + 1 \in 1 .. n BY SMTT(30), <2>8, <2>k, <1>n
        DEF Taken
      <3> QED BY <3>1, <2>3 DEF Ordered
    <2>16. /\ n + 1 = Taken + (a + 1) /\ Taken <= n + 1 BY SMTT(30), <2>8, <2>k, <1>n
    <2> QED BY <2>1, <2>3, <2>4, <2>6, <2>7, <2>8, <2>10, <2>11, <2>12, <2>13, <2>14, <2>15,
               <2>16 DEF Ordered
  <1>5. CASE \/ PutActiveFails(s) \/ CheckTimeout(s) \/ Signalled(s) \/ TimesOut(s)
             \/ ReadResult(s) \/ LetGo(s) \/ PutFree(s) \/ PutFreeFails(s)
    <2>1. /\ UNCHANGED <<up, wpc, wop, active_op_q, handled, queued, requests, mine, held>>
          /\ \E l \in {"wait", "result", "end", "free", "out"} : pc' = [pc EXCEPT ![s] = l]
          /\ pc[s] # "out"
      BY <1>5
        DEF PutActiveFails, CheckTimeout, Signalled, TimesOut, ReadResult, LetGo, PutFree,
                  PutFreeFails, Goto
    <2>2. /\ \A t \in Senders : pc'[t] \in {"fill", "put"} => pc'[t] = pc[t]
          /\ \A t \in Senders : pc[t] = "out" => pc'[t] = "out"
      BY <2>1, <1>t
    <2>3. \/ op' = op \/ op' = [op EXCEPT ![held[s]].ref_count = @ - 1]
          \/ op' = [op EXCEPT ![held[s]].comp = @ - 1]
      BY <1>5
        DEF PutActiveFails, CheckTimeout, Signalled, TimesOut, ReadResult, LetGo, PutFree,
                  PutFreeFails
    <2>4. \A o \in Ops : op'[o].req = op[o].req
      <3>1. CASE op' = op BY <3>1
      <3>2. CASE op' = [op EXCEPT ![held[s]].ref_count = @ - 1] BY <3>2, <1>t DEF OpType
      <3>3. CASE op' = [op EXCEPT ![held[s]].comp = @ - 1] BY <3>3, <1>t DEF OpType
      <3> QED BY <2>3, <3>1, <3>2, <3>3
    <2> QED BY <2>1, <2>2, <2>4, OrderedQuiet
  <1> QED BY <1>1, <1>2, <1>3, <1>4, <1>5 DEF SenderStep

(* The worker handles the request that was queued first. *)
LEMMA OrderedWorker ==
  ASSUME TypeOK, Owned, Ordered, WorkerStep \/ Deinit
  PROVE  Ordered'
  <1> USE DEF worker, history, life, queues, senders, WGoto
  <1>t. /\ op \in [Ops -> OpType] /\ queued \in Seq(Nat) /\ active_op_q \in Seq(Ops)
        /\ handled \in Seq(Nat) /\ (wpc # "idle" => wop \in Ops)
    BY DEF TypeOK
  <1>n. Len(queued) \in Nat /\ Len(active_op_q) \in Nat /\ Len(handled) \in Nat
    BY SMTT(30), <1>t
  <1>1. CASE GetActive
    <2>1. /\ up /\ wpc = "idle" /\ wpc' = "handle" /\ active_op_q # <<>>
          /\ wop' = Head(active_op_q) /\ active_op_q' = Tail(active_op_q)
          /\ UNCHANGED <<up, op, pc, held, mine, requests, handled, queued>>
      BY <1>1 DEF GetActive
    <2>2. /\ Len(active_op_q) >= 1 /\ wop' = active_op_q[1]
          /\ Len(active_op_q') = Len(active_op_q) - 1
          /\ \A j \in 1 .. Len(active_op_q) - 1 : active_op_q'[j] = active_op_q[j + 1]
      BY SMTT(30), <1>t, <2>1
    <2>3. Taken = Len(handled) /\ Taken' = Len(handled) + 1 BY SMTT(30), <2>1, <1>n
      DEF Taken
    <2>4. Len(queued) = Len(handled) + Len(active_op_q) BY <2>1, <2>3 DEF Ordered
    <2>5. op[wop'].req = queued[Len(handled) + 1]
      <3>1. 1 \in 1 .. Len(active_op_q) BY SMTT(30), <2>2, <1>n
      <3> QED BY <3>1, <2>2, <2>3 DEF Ordered
    <2>6. \A j \in 1 .. Len(active_op_q') : op[active_op_q'[j]].req = queued[Taken' + j]
      <3> SUFFICES ASSUME NEW j \in 1 .. Len(active_op_q) - 1
                   PROVE  op[active_op_q'[j]].req = queued[(Len(handled) + 1) + j]
        BY <2>2, <2>3
      <3>1. j + 1 \in 1 .. Len(active_op_q) BY SMTT(30), <1>n
      <3>2. op[active_op_q[j + 1]].req = queued[Len(handled) + (j + 1)]
        BY <3>1, <2>3 DEF Ordered
      <3>3. Len(handled) + (j + 1) = (Len(handled) + 1) + j BY SMTT(30), <1>n
      <3> QED BY <3>2, <3>3, <2>2
    <2>7. Len(queued) = Taken' + Len(active_op_q') /\ Taken' <= Len(queued)
      BY SMTT(30), <2>2, <2>3, <2>4, <1>n
    <2>8. \A s \in Senders : Asks(s)' <=> Asks(s) BY <2>1 DEF Asks
    <2> QED BY <2>1, <2>5, <2>6, <2>7, <2>8 DEF Ordered
  <1>2. CASE Handle
    <2>1. /\ wpc = "handle" /\ wpc' = "dec" /\ handled' = Append(handled, op[wop].req)
          /\ UNCHANGED <<up, active_op_q, op, pc, held, mine, wop, requests, queued>>
      BY <1>2 DEF Handle
    <2>2. op[wop].req \in Nat BY <1>t, <2>1 DEF OpType
    <2>3. /\ Len(handled') = Len(handled) + 1 /\ handled'[Len(handled) + 1] = op[wop].req
          /\ \A i \in 1 .. Len(handled) : handled'[i] = handled[i]
      BY SMTT(30), <1>t, <2>1, <2>2
    <2>4. Taken' = Taken BY SMTT(30), <2>1, <2>3, <1>n DEF Taken
    <2>5. \A i \in 1 .. Len(handled') : handled'[i] = queued[i]
      <3> SUFFICES ASSUME NEW i \in 1 .. Len(handled) + 1 PROVE handled'[i] = queued[i]
        BY <2>3
      <3>1. CASE i = Len(handled) + 1 BY <3>1, <2>1, <2>3 DEF Ordered
      <3>2. CASE i \in 1 .. Len(handled) BY <3>2, <2>3 DEF Ordered
      <3> QED BY SMTT(30), <3>1, <3>2, <1>n
    <2>6. up BY <2>1 DEF Ordered
    <2>8. \A s \in Senders : Asks(s)' <=> Asks(s) BY <2>1 DEF Asks
    <2> QED BY <2>1, <2>4, <2>5, <2>6, <2>8 DEF Ordered
  <1>3. CASE Dec \/ WFree \/ WTimed \/ WResult \/ Raise
    <2>1. /\ UNCHANGED <<up, wop, active_op_q, handled, queued, requests, mine, held, pc>>
          /\ wpc \notin {"idle", "handle"} /\ wpc' # "handle"
      BY <1>3 DEF Dec, WFree, WTimed, WResult, Raise
    <2>3. \/ op' = op \/ op' = [op EXCEPT ![wop].ref_count = @ - 1]
          \/ op' = [op EXCEPT ![wop].comp = @ + 1] \/ op' = [op EXCEPT ![wop].result = wret]
      BY <1>3 DEF Dec, WFree, WTimed, WResult, Raise
    <2>4. \A o \in Ops : op'[o].req = op[o].req
      <3>1. CASE op' = op BY <3>1
      <3>2. CASE op' = [op EXCEPT ![wop].ref_count = @ - 1] BY <3>2, <1>t DEF OpType
      <3>3. CASE op' = [op EXCEPT ![wop].comp = @ + 1] BY <3>3, <1>t DEF OpType
      <3>4. CASE op' = [op EXCEPT ![wop].result = wret] BY <3>4, <1>t DEF OpType
      <3> QED BY <2>3, <3>1, <3>2, <3>3, <3>4
    <2> QED BY <2>1, <2>4, OrderedQuiet
  <1>4. CASE Deinit
    <2>1. /\ ~up' /\ wpc = "idle" /\ active_op_q' = <<>> /\ \A s \in Senders : pc[s] = "out"
          /\ UNCHANGED <<pc, held, mine, wpc, wop, requests, handled, queued>>
      BY <1>4 DEF Deinit
    <2>2. \A s \in Senders : ~Asks(s)' BY <2>1 DEF Asks
    <2>3. Taken' = Taken BY <2>1 DEF Taken
    <2>4. Len(active_op_q') = 0 BY <2>1
    <2> QED BY SMTT(30), <2>1, <2>2, <2>3, <2>4 DEF Ordered
  <1> QED BY <1>1, <1>2, <1>3, <1>4 DEF WorkerStep
-----------------------------------------------------------------------------
(* A step that does not concern a sender leaves its answer alone. *)
LEMMA AnsweredOther ==
  ASSUME NEW t \in Senders, AnsweredFor(t), UNCHANGED <<wpc, wop, wret, use>>,
         pc'[t] = pc[t], pc[t] # "out" => held'[t] = held[t] /\ mine'[t] = mine[t] /\ ret'[t] = ret[t],
         pc[t] # "out" => op'[held[t]] = op[held[t]] /\ (WRef(held[t])' <=> WRef(held[t]))
  PROVE  AnsweredFor(t)'
  <1>1. CASE pc[t] = "out" BY <1>1 DEF AnsweredFor, HasRef, Waits
  <1>2. CASE pc[t] # "out"
    <2>1. /\ HasRef(t)' <=> HasRef(t)
          /\ Waits(t)' <=> Waits(t)
          /\ Answering' <=> Answering
      BY DEF HasRef, Waits, Answering
    <2> QED BY <1>2, <2>1 DEF AnsweredFor
  <1> QED BY <1>1, <1>2

(* A sender leaves the wait only when its result is there, and an op on   *)
(* which the worker is still busy is kept by the sender that waits for it. *)
LEMMA AnsweredSender ==
  ASSUME TypeOK, TypeOK', Uniform, Owned, Counted, Ordered, ~use.timeouts, Answered,
         NEW s \in Senders, Send(s) \/ SendFails(s) \/ SenderStep(s)
  PROVE  Answered'
  <1> USE DEF worker, history, life, queues, senders
  <1>t. /\ pc \in [Senders -> Labels] /\ held \in [Senders -> Ops \union {None}]
        /\ mine \in [Senders -> Nat] /\ ret \in [Senders -> Int]
        /\ \A t \in Senders : pc[t] # "out" => held[t] \in Ops /\ t \in use.callers
        /\ op \in [Ops -> OpType]
    BY DEF TypeOK
  <1>q. /\ free_op_q \in Seq(Ops) /\ active_op_q \in Seq(Ops)
        /\ IsInjective(free_op_q) /\ IsInjective(active_op_q)
    BY DEF TypeOK, Owned, QueuedOnce
  <1>u. UNCHANGED <<wpc, wop, wret, use>>
    BY DEF Send, SendFails, SenderStep, Fill, PutActive, PutActiveFails,
          CheckTimeout, Signalled, TimesOut, ReadResult, LetGo, PutFree, PutFreeFails
  <1>w. /\ Answering => wop \notin Range(active_op_q)
        /\ Answering => \E t \in Senders : Waits(t) /\ held[t] = wop
        /\ \A t \in Senders : AnsweredFor(t)
    BY DEF Answered
  <1>a. CASE use.callers \intersect use.waiters = {}
    <2>1. ~Answering BY <1>a, <1>t, <1>w DEF Waits
    <2>2. \A t \in Senders : pc'[t] # "out" => t \notin use'.waiters BY <1>a, <1>u
      DEF TypeOK
    <2> QED BY <1>u, <2>1, <2>2 DEF Answered, AnsweredFor, HasRef, Waits, Answering
  <1>b. CASE use.callers \subseteq use.waiters
    <2>1. \A t \in Senders : pc[t] # "out" => SenderHas(t, held[t]) /\ t \in use.waiters
      BY <1>b, <1>t DEF SenderHas, waiters, Labels
    <2>2. \A t \in Senders \ {s} : pc[t] # "out" /\ pc[s] # "out" => held[t] # held[s]
      BY <2>1, <1>t DEF Owned, QueuedOnce
    <2>3. Answering /\ pc[s] \notin {"out", "check", "wait"} => held[s] # wop
      BY <2>2, <1>w DEF Waits
    <2>s. AnsweredFor(s) BY <1>w
    <2>4. CASE Send(s)
      <3>1. /\ pc[s] = "out" /\ pc' = [pc EXCEPT ![s] = "fill"]
            /\ held' = [held EXCEPT ![s] = Head(free_op_q)]
            /\ mine' = [mine EXCEPT ![s] = requests'] /\ UNCHANGED <<op, active_op_q, ret>>
        BY <2>4 DEF Send, Goto
      <3>2. \A t \in Senders \ {s} : AnsweredFor(t)'
        <4> SUFFICES ASSUME NEW t \in Senders \ {s} PROVE AnsweredFor(t)' OBVIOUS
        <4>1. pc'[t] = pc[t] /\ held'[t] = held[t] /\ mine'[t] = mine[t] /\ ret'[t] = ret[t]
          BY <1>t, <3>1
        <4>2. WRef(held[t])' <=> WRef(held[t]) BY <1>u, <3>1, <4>1 DEF WRef
        <4> QED BY <1>u, <1>w, <3>1, <4>1, <4>2, AnsweredOther
      <3>3. AnsweredFor(s)' BY <1>t, <3>1 DEF AnsweredFor, HasRef, Waits
      <3>4. \A t \in Senders : Waits(t) => Waits(t)' /\ held'[t] = held[t]
        BY <1>t, <1>u, <3>1 DEF Waits
      <3> QED BY <1>u, <1>w, <3>1, <3>2, <3>3, <3>4 DEF Answered, Answering
    <2>5. CASE SendFails(s)
      <3>1. /\ pc[s] = "out" /\ UNCHANGED <<op, active_op_q, pc, held>>
            /\ mine' = [mine EXCEPT ![s] = requests'] /\ ret' = [ret EXCEPT ![s] = -1]
        BY <2>5 DEF SendFails
      <3>2. \A t \in Senders : AnsweredFor(t)'
        <4> SUFFICES ASSUME NEW t \in Senders PROVE AnsweredFor(t)' OBVIOUS
        <4>1. /\ pc'[t] = pc[t] /\ held'[t] = held[t]
              /\ pc[t] # "out" => mine'[t] = mine[t] /\ ret'[t] = ret[t]
          BY <1>t, <3>1
        <4>2. WRef(held[t])' <=> WRef(held[t]) BY <1>u, <3>1, <4>1 DEF WRef
        <4> QED BY <1>u, <1>w, <3>1, <4>1, <4>2, AnsweredOther
      <3>4. \A t \in Senders : Waits(t) => Waits(t)' /\ held'[t] = held[t]
        BY <1>u, <3>1 DEF Waits
      <3> QED BY <1>u, <1>w, <3>1, <3>2, <3>4 DEF Answered, Answering
    <2>6. CASE SenderStep(s)
      <3>1. /\ pc[s] # "out" /\ UNCHANGED <<held, mine>>
            /\ \A t \in Senders \ {s} : pc'[t] = pc[t] /\ ret'[t] = ret[t]
        BY <2>6, <1>t
          DEF SenderStep, Fill, PutActive, PutActiveFails, CheckTimeout, Signalled,
             TimesOut, ReadResult, LetGo, PutFree, PutFreeFails, Goto
      <3>h. held[s] \in Ops /\ s \in use.waiters BY <1>t, <2>1, <3>1
      <3>2. \A o \in Ops \ {held[s]} : op'[o] = op[o]
        BY <2>6, <1>t, <3>h
           DEF SenderStep, Fill, PutActive, PutActiveFails, CheckTimeout, Signalled, TimesOut,
               ReadResult, LetGo, PutFree, PutFreeFails
      <3>3. \/ UNCHANGED active_op_q
            \/ PutActive(s) /\ Range(active_op_q') = Range(active_op_q) \union {held[s]}
        <4>1. CASE PutActive(s)
          <5>1. held[s] \notin Range(active_op_q) BY <4>1 DEF PutActive, Owned, Alone
          <5> QED BY <4>1, <5>1, <3>h, <1>q, PutLast DEF PutActive
        <4>2. CASE ~PutActive(s)
          BY <2>6, <4>2 DEF SenderStep, Fill, PutActiveFails, CheckTimeout, Signalled,
             TimesOut, ReadResult, LetGo, PutFree, PutFreeFails
        <4> QED BY <4>1, <4>2
      <3>4. \A t \in Senders \ {s} : AnsweredFor(t)'
        <4> SUFFICES ASSUME NEW t \in Senders \ {s} PROVE AnsweredFor(t)' OBVIOUS
        <4>1. pc[t] # "out" => held[t] # held[s] /\ held[t] \in Ops BY <2>2, <3>1, <1>t
        <4>2. pc[t] # "out" => (WRef(held[t])' <=> WRef(held[t]))
          BY <1>u, <3>1, <3>3, <4>1 DEF WRef
        <4> QED BY <1>u, <1>w, <3>1, <3>2, <4>1, <4>2, AnsweredOther
      <3>5. AnsweredFor(s)' /\ (pc'[s] \in {"check", "wait"} \/ ~(held[s] = wop /\ Answering))
        <4> USE <1>t, <1>u, <3>1, <3>h
        <4>1. CASE Fill(s)
          <5>1. op'[held[s]].comp = 0 BY <4>1 DEF Fill, Filled
          <5>2. pc'[s] = "put" /\ pc[s] = "fill" BY <4>1 DEF Fill, Goto
          <5> QED BY <5>1, <5>2, <2>3 DEF AnsweredFor, HasRef, Waits
        <4>2. CASE PutActive(s)
          <5>1. /\ pc'[s] = "check" /\ pc[s] = "put" /\ op' = op BY <4>2 DEF PutActive, Goto
          <5>2. op[held[s]].comp = 0 BY <5>1, <2>s DEF AnsweredFor
          <5>3. op[held[s]].req = mine[s] BY <5>1 DEF Ordered
          <5>4. Range(active_op_q') = Range(active_op_q) \union {held[s]}
            <6>1. held[s] \notin Range(active_op_q) BY <4>2 DEF PutActive, Owned, Alone
            <6> QED BY <4>2, <6>1, <1>q, PutLast DEF PutActive
          <5>5. held[s] = wop => wpc # "dec" BY <5>1 DEF Owned, Alone, WorkerHas
          <5>6. ~(held[s] = wop /\ Answering) BY <5>1, <2>3
          <5> QED BY <5>1, <5>2, <5>3, <5>4, <5>5, <5>6
                DEF AnsweredFor, HasRef, Waits, WRef, Answering
        <4>3. CASE PutActiveFails(s)
          <5>1. /\ pc'[s] = "end" /\ pc[s] = "put" /\ UNCHANGED active_op_q /\ ret'[s] < 0
            BY SMTT(30), <4>3 DEF PutActiveFails, Goto
          <5>2. ~WRef(held[s]) BY <5>1 DEF Owned, Alone, WRef, WorkerHas
          <5> QED BY <5>1, <5>2, <2>3 DEF AnsweredFor, HasRef, Waits, WRef, Answering
        <4>4. CASE CheckTimeout(s)
          <5>1. op[held[s]].timeoutValue # 0 BY <4>4 DEF CheckTimeout, Counted, HasRef
          <5>2. pc'[s] = "wait" /\ pc[s] = "check" /\ UNCHANGED <<op, active_op_q, ret>>
            BY <4>4, <5>1 DEF CheckTimeout, Goto
          <5> QED BY <5>2, <2>s DEF AnsweredFor, HasRef, Waits, WRef, Answering
        <4>5. CASE Signalled(s)
          <5>1. /\ pc'[s] = "result" /\ pc[s] = "wait" /\ UNCHANGED active_op_q
                /\ op[held[s]].comp > 0
                /\ op' = [op EXCEPT ![held[s]].comp = @ - 1]
            BY <4>5 DEF Signalled, Goto
          <5>2. op'[held[s]].result = op[held[s]].result BY <5>1 DEF OpType
          <5>3. ~WRef(held[s]) /\ ~(held[s] = wop /\ Answering)
            BY SMTT(30), <5>1, <2>s DEF AnsweredFor, HasRef
          <5>4. op[held[s]].result = mine[s] BY <5>1, <5>3, <2>s DEF AnsweredFor, Waits
          <5>5. pc'[s] = "result" /\ UNCHANGED active_op_q BY <5>1
          <5> QED BY <5>5, <5>2, <5>3, <5>4 DEF AnsweredFor, HasRef, Waits, WRef, Answering
        <4>6. CASE TimesOut(s) BY <4>6 DEF TimesOut
        <4>7. CASE ReadResult(s)
          <5>1. /\ pc'[s] = "end" /\ pc[s] = "result" /\ UNCHANGED <<op, active_op_q>>
                /\ ret'[s] = op[held[s]].result
            BY <4>7 DEF ReadResult, Goto
          <5>2. op[held[s]].result = mine[s] /\ ~WRef(held[s])
            BY <5>1, <2>s DEF AnsweredFor, HasRef, Waits
          <5> QED BY <5>1, <5>2, <2>3 DEF AnsweredFor, HasRef, Waits, WRef, Answering
        <4>8. CASE LetGo(s)
          <5>1. /\ pc'[s] \in {"free", "out"} /\ pc[s] = "end" /\ UNCHANGED <<ret, active_op_q>>
            BY <4>8 DEF LetGo, Goto
          <5> QED BY <5>1, <2>s, <2>3 DEF AnsweredFor, HasRef, Waits
        <4>9. CASE PutFree(s) \/ PutFreeFails(s)
          <5>1. /\ pc'[s] = "out" /\ pc[s] = "free"
            BY <4>9 DEF PutFree, PutFreeFails, Goto
          <5> QED BY <5>1, <2>3 DEF AnsweredFor, HasRef, Waits
        <4> QED BY <2>6, <4>1, <4>2, <4>3, <4>4, <4>5, <4>6, <4>7, <4>8, <4>9 DEF SenderStep
      <3>6. Answering => \E t \in Senders : Waits(t)' /\ held'[t] = wop
        <4> SUFFICES ASSUME Answering PROVE \E t \in Senders : Waits(t)' /\ held'[t] = wop
          OBVIOUS
        <4>1. PICK t \in Senders : Waits(t) /\ held[t] = wop BY <1>w
        <4>2. CASE t = s BY <4>1, <4>2, <3>1, <3>5, <1>u DEF Waits
        <4>3. CASE t # s BY <4>1, <4>3, <3>1, <1>u DEF Waits
        <4> QED BY <4>2, <4>3
      <3>7. Answering => wop \notin Range(active_op_q')
        <4>1. CASE UNCHANGED active_op_q BY <4>1, <1>w
        <4>2. CASE PutActive(s) /\ Range(active_op_q') = Range(active_op_q) \union {held[s]}
          <5>1. pc[s] = "put" BY <4>2 DEF PutActive
          <5> QED BY <4>2, <5>1, <2>3, <1>w
        <4> QED BY <3>3, <4>1, <4>2
      <3>8. Answering' <=> Answering BY <1>u DEF Answering
      <3> QED BY <1>u, <3>4, <3>5, <3>6, <3>7, <3>8 DEF Answered
    <2> QED BY <2>4, <2>5, <2>6
  <1> QED BY <1>a, <1>b DEF Uniform

(* The worker writes the result of the request before it raises the signal. *)
LEMMA AnsweredWorker ==
  ASSUME TypeOK, TypeOK', Uniform, Owned, Counted, ~use.timeouts, Answered,
         WorkerStep \/ Deinit
  PROVE  Answered'
  <1> USE DEF worker, history, life, queues, senders, WGoto
  <1>t. /\ pc \in [Senders -> Labels] /\ held \in [Senders -> Ops \union {None}]
        /\ mine \in [Senders -> Nat] /\ ret \in [Senders -> Int]
        /\ \A t \in Senders : pc[t] # "out" => held[t] \in Ops /\ t \in use.callers
        /\ op \in [Ops -> OpType] /\ (wpc # "idle" => wop \in Ops)
    BY DEF TypeOK
  <1>q. active_op_q \in Seq(Ops) /\ IsInjective(active_op_q)
    BY DEF TypeOK, Owned, QueuedOnce
  <1>u. UNCHANGED <<pc, held, mine, ret, use>>
    BY DEF WorkerStep, GetActive, Handle, Dec, WFree, WTimed, WResult, Raise, Deinit
  <1>w. /\ Answering => wop \notin Range(active_op_q)
        /\ Answering => \E t \in Senders : Waits(t) /\ held[t] = wop
        /\ \A t \in Senders : AnsweredFor(t)
    BY DEF Answered
  <1>k. \A t \in Senders : (HasRef(t)' <=> HasRef(t)) /\ (Waits(t)' <=> Waits(t))
    BY <1>u DEF HasRef, Waits
  <1>x. \A t, v \in Senders : HasRef(t) /\ (HasRef(v) \/ pc[v] = "put") /\ held[v] = held[t] => t = v
    <2>1. \A t \in Senders : HasRef(t) \/ pc[t] = "put" => SenderHas(t, held[t]) /\ held[t] \in Ops
      BY <1>t DEF HasRef, SenderHas, waiters
    <2> QED BY <2>1 DEF Owned, QueuedOnce
  <1>y. \A t \in Senders : Waits(t) => HasRef(t) BY DEF Waits, HasRef
  <1>1. CASE GetActive
    <2> DEFINE o == Head(active_op_q)
    <2>1. o \in Range(active_op_q) /\ Range(active_op_q') = Range(active_op_q) \ {o}
      BY <1>1, <1>q, TakeFirst DEF GetActive
    <2>2. wpc = "idle" /\ wpc' = "handle" /\ wop' = o /\ UNCHANGED op
      BY <1>1 DEF GetActive
    <2> HIDE DEF o
    <2>3. \A x \in Ops : WRef(x)' <=> WRef(x) BY <2>1, <2>2 DEF WRef
    <2>4. \A t \in Senders : pc[t] # "out" => (WRef(held[t])' <=> WRef(held[t]))
      BY <2>1, <2>2, <1>u DEF WRef
    <2>5. ~Answering /\ ~Answering' BY <2>2 DEF Answering
    <2>6. \A t \in Senders : AnsweredFor(t)'
      <3> SUFFICES ASSUME NEW t \in Senders PROVE AnsweredFor(t)' OBVIOUS
      <3>1. CASE pc[t] = "out" BY <3>1, <1>u DEF AnsweredFor, HasRef, Waits
      <3>2. CASE pc[t] # "out"
        <4>1. AnsweredFor(t) BY <1>w
        <4>2. (WRef(held[t])' <=> WRef(held[t])) BY <3>2, <2>4
        <4> QED BY <4>1, <4>2, <2>2, <2>5, <1>u, <1>k DEF AnsweredFor
      <3> QED BY <3>1, <3>2
    <2> QED BY <2>5, <2>6 DEF Answered
  <1>2. CASE Handle
    <2>1. wpc = "handle" /\ wpc' = "dec" /\ wret' = op[wop].req /\ UNCHANGED <<op, active_op_q, wop>>
      BY <1>2 DEF Handle
    <2>2. ~Answering /\ ~Answering' BY <2>1 DEF Answering
    <2>3. \A t \in Senders : AnsweredFor(t)'
      <3> SUFFICES ASSUME NEW t \in Senders PROVE AnsweredFor(t)' OBVIOUS
      <3>1. WRef(held[t])' <=> WRef(held[t]) BY <2>1, <1>u DEF WRef
      <3>2. AnsweredFor(t) BY <1>w
      <3>3. HasRef(t) /\ WRef(held[t]) /\ held[t] = wop => wret' = mine[t]
        BY <2>1, <3>2 DEF AnsweredFor
      <3> QED BY <2>1, <2>2, <1>u, <1>k, <3>1, <3>2, <3>3 DEF AnsweredFor
    <2> QED BY <2>2, <2>3 DEF Answered
  <1>3. CASE Dec
    <2>1. /\ op' = [op EXCEPT ![wop].ref_count = @ - 1] /\ wpc = "dec"
          /\ wpc' = (IF op'[wop].ref_count = 0 THEN "free" ELSE "timed")
          /\ UNCHANGED <<active_op_q, wop, wret>>
      BY <1>3 DEF Dec
    <2>o. wop \in Ops /\ op[wop].ref_count \in Int BY <2>1, <1>t DEF OpType
    <2>2. /\ op'[wop].ref_count = op[wop].ref_count - 1
          /\ \A x \in Ops : /\ op'[x].comp = op[x].comp /\ op'[x].result = op[x].result
                            /\ op'[x].req = op[x].req
      BY <1>t, <2>1, <2>o DEF OpType
    <2>3. wop \notin Range(active_op_q) BY <2>1 DEF Owned, WorkerHas
    <2>4. WRef(wop) BY <2>1 DEF WRef
    <2>5. op[wop].ref_count = 1 \/ \E t \in Senders : HasRef(t) /\ held[t] = wop
      BY <2>4, <2>o DEF Counted
    <2>e. op[wop].ref_count = 1 => \A t \in Senders : ~(HasRef(t) /\ held[t] = wop)
      BY SMTT(30), <2>4, <2>o DEF Counted
    <2>6. wpc' = "timed" <=> \E t \in Senders : HasRef(t) /\ held[t] = wop
      BY SMTT(30), <2>1, <2>2, <2>5, <2>e, <2>o DEF Counted
    <2>7. \A t \in Senders : HasRef(t) /\ held[t] = wop =>
            Waits(t) /\ op[wop].comp = 0 /\ wret = mine[t]
      BY <1>w, <2>4, <2>1 DEF AnsweredFor
    <2>8. \A t \in Senders : held[t] # wop => (WRef(held[t])' <=> WRef(held[t]))
      BY <2>1, <1>u DEF WRef
    <2>9. ~WRef(wop)' BY <2>1, <2>3 DEF WRef
    <2>10. ~Answering /\ (Answering' <=> wpc' = "timed") /\ wpc' \in {"timed", "free"}
      BY <2>1 DEF Answering
    <2>u. UNCHANGED <<active_op_q, wop, wret>> BY <2>1
    <2>11. \A t \in Senders : AnsweredFor(t)'
      <3> SUFFICES ASSUME NEW t \in Senders PROVE AnsweredFor(t)' OBVIOUS
      <3>1. AnsweredFor(t) BY <1>w
      <3>2. CASE pc[t] = "out" BY <3>2, <1>u DEF AnsweredFor, HasRef, Waits
      <3>3. CASE pc[t] # "out" /\ held[t] = wop
        BY <3>1, <3>3, <2>u, <1>u, <1>k, <1>y, <2>o, <2>2, <2>6, <2>7, <2>9, <2>10
          DEF AnsweredFor
      <3>4. CASE pc[t] # "out" /\ held[t] # wop
        <4>1. held[t] \in Ops /\ (WRef(held[t])' <=> WRef(held[t])) BY <3>4, <1>t, <2>8
        <4> QED BY <3>1, <3>4, <4>1, <2>u, <1>u, <1>k, <2>2 DEF AnsweredFor
      <3> QED BY <3>2, <3>3, <3>4
    <2>12. Answering' => \E t \in Senders : Waits(t)' /\ held'[t] = wop'
      BY <2>6, <2>7, <2>10, <2>u, <1>u, <1>k
    <2> QED BY <2>3, <2>11, <2>12, <2>u DEF Answered
  <1>4. CASE WFree
    <2>1. wpc = "free" /\ wpc' = "idle" /\ UNCHANGED <<op, active_op_q, wop, wret>>
      BY <1>4 DEF WFree
    <2>2. ~Answering /\ ~Answering' BY <2>1 DEF Answering
    <2>3. \A t \in Senders : WRef(held[t])' <=> WRef(held[t]) BY <2>1, <1>u DEF WRef
    <2>4. \A t \in Senders : AnsweredFor(t)'
      BY <1>w, <2>1, <2>2, <2>3, <1>u, <1>k DEF AnsweredFor
    <2> QED BY <2>2, <2>4 DEF Answered
  <1>5. CASE WTimed
    <2>1. wpc = "timed" /\ UNCHANGED <<op, active_op_q, wop, wret>>
      BY <1>5 DEF WTimed
    <2>2. Answering BY <2>1 DEF Answering
    <2>3. op[wop].timeoutValue # 0 BY <2>2, <1>w, <1>y DEF Counted
    <2>4. wpc' = "result" BY <1>5, <2>3 DEF WTimed
    <2>5. Answering' BY <2>4 DEF Answering
    <2>6. \A t \in Senders : WRef(held[t])' <=> WRef(held[t]) BY <2>1, <2>4, <1>u DEF WRef
    <2>7. \A t \in Senders : AnsweredFor(t)'
      BY <1>w, <2>1, <2>2, <2>4, <2>5, <2>6, <1>u, <1>k DEF AnsweredFor
    <2> QED BY <1>w, <1>u, <1>k, <2>1, <2>2, <2>7 DEF Answered
  <1>6. CASE WResult \/ Raise
    <2>1. /\ UNCHANGED <<active_op_q, wop, wret>> /\ Answering
          /\ wpc \in {"result", "raise"} /\ wpc' \in {"raise", "idle"}
      BY <1>6 DEF WResult, Raise, Answering
    <2>o. wop \in Ops BY <1>t, <2>1
    <2>2. \A x \in Ops \ {wop} : op'[x] = op[x]
      BY <1>6, <1>t, <2>o DEF WResult, Raise
    <2>3. \A t \in Senders : WRef(held[t])' <=> WRef(held[t]) BY <2>1, <1>u DEF WRef
    <2>4. PICK v \in Senders : Waits(v) /\ held[v] = wop BY <2>1, <1>w
    <2>5. \A t \in Senders \ {v} : AnsweredFor(t)'
      <3> SUFFICES ASSUME NEW t \in Senders \ {v} PROVE AnsweredFor(t)' OBVIOUS
      <3>1. AnsweredFor(t) BY <1>w
      <3>2. CASE HasRef(t) \/ pc[t] = "put"
        <4>1. held[t] # wop BY <3>2, <2>4, <1>x, <1>y
        <4>2. held[t] \in Ops BY <3>2, <1>t DEF HasRef
        <4>3. op'[held[t]] = op[held[t]] BY <4>1, <4>2, <2>2
        <4>4. wpc # "dec" /\ wpc' # "dec" BY <2>1
        <4> QED BY <3>1, <4>1, <4>3, <4>4, <2>1, <2>3, <1>u, <1>k, <1>y
          DEF AnsweredFor, HasRef
      <3>3. CASE ~HasRef(t) /\ pc[t] # "put"
        BY <3>1, <3>3, <1>u, <1>k, <1>y DEF AnsweredFor, HasRef
      <3> QED BY <3>2, <3>3
    <2>6. ~WRef(held[v]) BY <2>1, <2>4, <1>w DEF WRef
    <2>7. /\ op[wop].comp = 0 /\ wret = mine[v] /\ (wpc = "raise" => op[wop].result = mine[v])
      BY <2>1, <2>4, <1>w, <1>y DEF AnsweredFor
    <2>8. op'[wop].result = mine[v] /\ (wpc' = "raise" => op'[wop].comp = 0)
      <3>1. CASE WResult
        <4>1. op' = [op EXCEPT ![wop].result = wret] BY <3>1 DEF WResult
        <4> QED BY <4>1, <1>t, <2>o, <2>7 DEF OpType
      <3>2. CASE Raise
        <4>1. op' = [op EXCEPT ![wop].comp = @ + 1] /\ wpc = "raise" /\ wpc' = "idle"
          BY <3>2 DEF Raise
        <4> QED BY <4>1, <1>t, <2>o, <2>7 DEF OpType
      <3> QED BY <1>6, <3>1, <3>2
    <2>9. Answering' => wpc' = "raise" BY <2>1 DEF Answering
    <2>10. AnsweredFor(v)'
      BY <2>1, <2>3, <2>4, <2>6, <2>7, <2>8, <2>9, <1>u, <1>k DEF AnsweredFor, Waits, HasRef
    <2> QED BY <1>w, <1>u, <1>k, <2>1, <2>4, <2>5, <2>10 DEF Answered
  <1>7. CASE Deinit
    <2>1. wpc' = "idle" /\ \A t \in Senders : pc'[t] = "out" BY <1>7 DEF Deinit
    <2> QED BY <2>1 DEF Answered, AnsweredFor, Answering, HasRef, Waits
  <1> QED BY <1>1, <1>2, <1>3, <1>4, <1>5, <1>6, <1>7 DEF WorkerStep
-----------------------------------------------------------------------------
(* msg_thread_init establishes the invariant. *)
LEMMA InvInit == Init => Inv
  <1> SUFFICES ASSUME Init PROVE Inv OBVIOUS
  <1>1. TypeOK BY TypeInit
  <1>2. /\ IsInjective(free_op_q) /\ Range(free_op_q) = Ops BY AllFree DEF Init
  <1>3. /\ active_op_q = <<>> /\ wpc = "idle" /\ lost = {} /\ up /\ requests = 0
        /\ handled = <<>> /\ queued = <<>> /\ op = [o \in Ops |-> Cleared]
        /\ \A s \in Senders : pc[s] = "out"
    BY DEF Init
  <1>4. IsInjective(<<>>) /\ Range(<<>>) = {} /\ Len(<<>>) = 0 BY SMTT(30)
    DEF IsInjective, Range
  <1>5. Owned BY <1>2, <1>3, <1>4 DEF Owned, QueuedOnce, SenderHas, WorkerHas, Alone
  <1>6. Cleared.timeoutValue = 0 BY DEF Cleared
  <1>7. Counted BY <1>3, <1>4, <1>6 DEF Counted, WRef, HasRef
  <1>8. Placed BY <1>2, <1>3 DEF Placed
  <1>9. Taken = 0 BY SMTT(30), <1>3, <1>4 DEF Taken
  <1>10. Ordered BY SMTT(30), <1>3, <1>4, <1>9 DEF Ordered, Asks
  <1>11. Answered BY <1>3 DEF Answered, AnsweredFor, Answering, HasRef, Waits
  <1> QED BY <1>1, <1>5, <1>7, <1>8, <1>10, <1>11 DEF Inv

(* Every step keeps the invariant. *)
LEMMA InvNext == Inv /\ [Next]_vars => Inv'
  <1> SUFFICES ASSUME Inv, [Next]_vars PROVE Inv' OBVIOUS
  <1>t. TypeOK BY DEF Inv
  <1>1. ASSUME NEW s \in Senders, Send(s) \/ SendFails(s) \/ SenderStep(s) PROVE Inv'
    <2>1. TypeOK' BY <1>1, <1>t, TypeSender
    <2>u. use' = use
      BY <1>1
        DEF Send, SendFails, SenderStep, Fill, PutActive, PutActiveFails, CheckTimeout,
           Signalled, TimesOut, ReadResult, LetGo, PutFree, PutFreeFails, life
    <2>2. ASSUME Uniform PROVE Owned' /\ Counted' /\ Placed' /\ Ordered'
      <3>1. Owned /\ Counted /\ Placed /\ Ordered BY <2>2 DEF Inv
      <3> QED BY <1>1, <1>t, <2>2, <3>1, OwnedSender, CountedSender, PlacedSender, OrderedSender
    <2>3. ASSUME Uniform, ~use.timeouts PROVE Answered'
      <3>1. Owned /\ Counted /\ Ordered /\ Answered BY <2>3 DEF Inv
      <3> QED BY <1>1, <1>t, <2>1, <2>3, <3>1, AnsweredSender
    <2>4. Uniform' <=> Uniform BY <2>u DEF Uniform
    <2> QED BY <2>1, <2>2, <2>3, <2>4, <2>u DEF Inv
  <1>2. ASSUME WorkerStep \/ Deinit PROVE Inv'
    <2>1. TypeOK' BY <1>2, <1>t, TypeWorker
    <2>u. use' = use
      BY <1>2
        DEF WorkerStep, GetActive, Handle, Dec, WFree, WTimed, WResult, Raise, Deinit, life
    <2>2. ASSUME Uniform PROVE Owned' /\ Counted' /\ Placed' /\ Ordered'
      <3>1. Owned /\ Counted /\ Placed /\ Ordered BY <2>2 DEF Inv
      <3> QED BY <1>2, <1>t, <3>1, OwnedWorker, CountedWorker, PlacedWorker, OrderedWorker
    <2>3. ASSUME Uniform, ~use.timeouts PROVE Answered'
      <3>1. Owned /\ Counted /\ Answered BY <2>3 DEF Inv
      <3> QED BY <1>2, <1>t, <2>1, <2>3, <3>1, AnsweredWorker
    <2>4. Uniform' <=> Uniform BY <2>u DEF Uniform
    <2> QED BY <2>1, <2>2, <2>3, <2>4, <2>u DEF Inv
  <1>3. CASE UNCHANGED vars
    <2>1. UNCHANGED <<free_op_q, active_op_q, op, pc, held, mine, ret, wpc, wop, wret, requests,
                      handled, queued, lost, up, use>>
      BY <1>3 DEF vars, queues, senders, worker, history, life
    <2>2. TypeOK' BY <2>1, <1>t DEF TypeOK
    <2>3. Owned => Owned'
      BY <2>1 DEF Owned, QueuedOnce, SenderHas, WorkerHas, waiters, Alone
    <2>4. Counted => Counted' BY SMTT(30), <2>1 DEF Counted, HasRef, WRef
    <2>5. \A o \in Ops : InUse(o)' <=> InUse(o)
      BY <2>1 DEF InUse, WRef, SenderHas, WorkerHas, waiters
    <2>6. Placed => Placed' BY <2>1, <2>5 DEF Placed
    <2>7. Ordered => Ordered' BY <2>1 DEF Ordered, Taken, Asks
    <2>8. \A s \in Senders : AnsweredFor(s) => AnsweredFor(s)'
      BY SMTT(30), <2>1 DEF AnsweredFor, HasRef, WRef, Answering, Waits
    <2>9. Answered => Answered' BY <2>1, <2>8 DEF Answered, Answering, Waits
    <2>10. Uniform' <=> Uniform BY <2>1 DEF Uniform
    <2> QED BY <2>1, <2>2, <2>3, <2>4, <2>6, <2>7, <2>9, <2>10 DEF Inv
  <1> QED BY <1>1, <1>2, <1>3 DEF Next

(* What the invariant says of the properties. *)
LEMMA InvImplies ==
  ASSUME Inv, Uniform
  PROVE  /\ QueuedOnce /\ PoolRefilled /\ HandledInOrder /\ ResultReady
         /\ ~use.timeouts => OwnResult
  <1>t. /\ queued \in Seq(Nat) /\ handled \in Seq(Nat) /\ pc \in [Senders -> Labels]
        /\ use \in Uses /\ mine \in [Senders -> Nat] /\ ret \in [Senders -> Int]
        /\ active_op_q \in Seq(Ops) /\ free_op_q \in Seq(Ops)
    BY DEF Inv, TypeOK
  <1>u. use.waiters \subseteq Senders /\ use.requests \in Nat BY <1>t, UsesAssumption
  <1>o. Owned /\ Placed /\ Ordered BY DEF Inv
  <1>1. QueuedOnce BY <1>o DEF Owned
  <1>2. PoolRefilled
    <2> SUFFICES ASSUME up, active_op_q = <<>>, wpc = "idle", \A s \in Senders : pc[s] = "out"
                 PROVE  Range(free_op_q) = Ops \ lost
      BY DEF PoolRefilled
    <2>1. \A o \in Ops : ~InUse(o)
      <3>1. Range(active_op_q) = {} BY SMTT(30) DEF Range
      <3> QED BY <3>1 DEF InUse, WRef, WorkerHas, SenderHas
    <2>2. Range(free_op_q) \subseteq Ops BY SMTT(30), <1>t DEF Range
    <2> QED BY <1>o, <2>1, <2>2 DEF Placed
  <1>3. HandledInOrder
    <2>n. Len(handled) \in Nat /\ Len(queued) \in Nat BY SMTT(30), <1>t
    <2>1. /\ Len(handled) <= Len(queued) /\ \A i \in 1 .. Len(handled) : handled[i] = queued[i]
          /\ IsInjective(queued)
      <3>1. Taken <= Len(queued) /\ IsInjective(queued)
        BY <1>o DEF Ordered
      <3>2. \A i \in 1 .. Len(handled) : handled[i] = queued[i]
        BY <1>o DEF Ordered
      <3>3. Len(handled) <= Len(queued)
        BY SMTT(30), <2>n, <3>1 DEF Taken
      <3> QED  BY <3>1, <3>2, <3>3
    <2>d. DOMAIN handled = 1 .. Len(handled) /\ DOMAIN queued = 1 .. Len(queued) BY SMTT(30), <1>t
    <2>3. IsInjective(handled)
      <3> SUFFICES ASSUME NEW i \in 1 .. Len(handled), NEW j \in 1 .. Len(handled),
                          handled[i] = handled[j]
                   PROVE  i = j
        BY <2>d DEF IsInjective
      <3>1. i \in DOMAIN queued /\ j \in DOMAIN queued BY SMTT(30), <2>1, <2>d, <2>n
      <3>2. queued[i] = queued[j] BY <2>1
      <3> QED BY <3>1, <3>2, <2>1 DEF IsInjective
    <2> QED BY <2>1, <2>d, <2>3 DEF HandledInOrder
  <1>4. ResultReady
    BY <1>u DEF Inv, ResultReady, Answered, AnsweredFor, waiters
  <1>5. ASSUME ~use.timeouts PROVE OwnResult
    <2> SUFFICES ASSUME NEW s \in use.waiters, pc[s] \in {"end", "free"}, ret[s] \in Requests
                 PROVE  ret[s] = mine[s]
      BY DEF OwnResult, waiters
    <2>1. ret[s] = mine[s] \/ ret[s] < 0 BY <1>5, <1>u DEF Inv, Answered, AnsweredFor
    <2>2. ~(ret[s] < 0) BY SMTT(30), <1>u DEF Requests
    <2> QED BY <2>1, <2>2
  <1> QED BY <1>1, <1>2, <1>3, <1>4, <1>5

(* For any number of senders, ops and requests: no op is put on a queue    *)
(* twice or while somebody still has it, by msg_evt_put_op_to_active or    *)
(* msg_evt_thread, whichever lets go of it last.                           *)
THEOREM QueuedOnceHolds == Spec => [](Uniform => QueuedOnce)
  <1>1. Inv => (Uniform => QueuedOnce) BY InvImplies
  <1> QED BY InvInit, InvNext, <1>1, PTL DEF Spec

(* When nothing is going on, every op is on the free queue, but for those  *)
(* that a kill in msg_evt_put_op_to_q has cost.                            *)
THEOREM PoolRefilledHolds == Spec => [](Uniform => PoolRefilled)
  <1>1. Inv => (Uniform => PoolRefilled) BY InvImplies
  <1> QED BY InvInit, InvNext, <1>1, PTL DEF Spec

(* msg_evt_thread runs the handlers once for each request, and in the      *)
(* order in which msg_evt_put_op_to_active queued them.                    *)
THEOREM HandledInOrderHolds == Spec => [](Uniform => HandledInOrder)
  <1>1. Inv => (Uniform => HandledInOrder) BY InvImplies
  <1> QED BY InvInit, InvNext, <1>1, PTL DEF Spec

(* With handlers that end in time, a sender that msg_evt_thread has woken  *)
(* finds the result of its own request in its op.                          *)
THEOREM ResultReadyHolds == Spec => [](Uniform => ResultReady)
  <1>1. Inv => (Uniform => ResultReady) BY InvImplies
  <1> QED BY InvInit, InvNext, <1>1, PTL DEF Spec

(* With handlers that end in time, msg_thread_send_wait_3 returns what the *)
(* handler of its own request returned.  (Without, it may not: msg_late.)  *)
THEOREM OwnResultHolds == Spec => [](Uniform /\ ~use.timeouts => OwnResult)
  <1>1. Inv => (Uniform /\ ~use.timeouts => OwnResult) BY InvImplies
  <1> QED BY InvInit, InvNext, <1>1, PTL DEF Spec
=============================================================================
