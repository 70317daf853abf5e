------------------------------ MODULE MsgThread ------------------------------
(***************************************************************************)
(* The message thread of the conninfra driver (base/msg_thread.c).  A      *)
(* sender takes an op (a message buffer) from the free queue, fills it in  *)
(* and puts it on the active queue.  One worker thread takes the ops in    *)
(* order, runs their handlers and lets go of them.  msg_thread_send does   *)
(* not wait; msg_thread_send_wait waits for the op's signal for a limited  *)
(* time and then reads the result from the op.  A reference count decides  *)
(* who puts the op back on the free queue: the last to let go.             *)
(*                                                                         *)
(* One action is one access to shared memory that other threads can tell   *)
(* apart: a queue operation under its mutex, an atomic operation on the    *)
(* count, a plain read or write of the op.                                 *)
(***************************************************************************)
EXTENDS Integers, Sequences, FiniteSets, Functions

CONSTANTS Senders,     \* threads that call msg_thread_send*
          Ops,         \* ctx->op_q_inst (64 of them in the code)
          None,        \* no op
          Uses         \* ways to use the thread, of which one is chosen:
                       \*   callers   the senders that take part
                       \*   waiters   those of them that call msg_thread_send_wait*
                       \*   timeouts  may a handler outlast MSG_OP_TIMEOUT
                       \*   killable  senders a fatal signal may reach while they
                       \*             wait for a queue's mutex (mutex_lock_killable)
                       \*   requests  bound: requests made in all

ASSUME UsesAssumption ==
    Uses \subseteq [callers : SUBSET Senders, waiters : SUBSET Senders,
                    timeouts : BOOLEAN, killable : SUBSET Senders,
                    requests : Nat]
ASSUME OpsAssumption == IsFiniteSet(Ops) /\ None \notin Ops

VARIABLES free_op_q,   \* ctx->free_op_q
          active_op_q, \* ctx->active_op_q
          op,          \* contents of each op
          pc, held,    \* each sender: where it is, the op it works with
          mine, ret,   \* each sender: the request it makes, what it returns
          wpc, wop,    \* the worker: where it is, the op it works with
          wret,        \* the worker: what the handler returned
          requests,    \* requests made so far
          handled,     \* history: requests the handlers ran for, in order
          queued,      \* history: requests put on the active queue, in order
          lost,        \* history: ops nobody put back because of a kill
          use,         \* the way it is used; never changes
          up           \* between msg_thread_init and msg_thread_deinit

senders == <<pc, held, mine, ret>>
worker  == <<wpc, wop, wret>>
queues  == <<free_op_q, active_op_q>>
history == <<handled, queued, lost>>
life    == <<up, use>>
vars == <<queues, op, senders, worker, requests, history, life>>

waiters == use.waiters
Requests == 1..use.requests
NoResult == -9
MSG_OP_TIMEOUT == 20000
AllRequests == UNION {1..u.requests : u \in Uses}

(* The result of a request's handler is written as the request's number,   *)
(* so that results of different requests can be told apart.                *)
Cleared == [timeoutValue |-> 0, ref_count |-> 0, result |-> 0, comp |-> 0, req |-> 0]

OpType == [timeoutValue : Nat, ref_count : Int, result : Int, comp : Nat, req : Nat]
Labels == {"out", "fill", "put", "check", "wait", "result", "end", "free"}

TypeOK ==
    /\ use \in Uses /\ requests \in Nat
    /\ free_op_q \in Seq(Ops) /\ active_op_q \in Seq(Ops)
    /\ op \in [Ops -> OpType]
    /\ pc \in [Senders -> Labels] /\ held \in [Senders -> Ops \union {None}]
    /\ mine \in [Senders -> Nat] /\ ret \in [Senders -> Int]
    /\ wpc \in {"idle", "handle", "dec", "timed", "result", "raise", "free"}
    /\ wop \in Ops \union {None} /\ wret \in Nat
    /\ handled \in Seq(Nat) /\ queued \in Seq(Nat) /\ lost \subseteq Ops
    /\ \A s \in Senders : pc[s] # "out" => held[s] \in Ops /\ s \in use.callers
    /\ wpc # "idle" => wop \in Ops

(* msg_thread_init: every op is free.                                      *)
InOrder == CHOOSE q \in Bijection(1..Cardinality(Ops), Ops) : TRUE

Init ==
    /\ free_op_q = InOrder
    /\ active_op_q = <<>>
    /\ op = [o \in Ops |-> Cleared]
    /\ pc = [s \in Senders |-> "out"] /\ held = [s \in Senders |-> None]
    /\ mine = [s \in Senders |-> 0] /\ ret = [s \in Senders |-> 0]
    /\ wpc = "idle" /\ wop = None /\ wret = 0
    /\ requests = 0
    /\ handled = <<>> /\ queued = <<>> /\ lost = {}
    /\ use \in Uses
    /\ up = TRUE

Goto(s, l) == pc' = [pc EXCEPT ![s] = l]
Full(q) == Len(q) >= Cardinality(Ops)
-----------------------------------------------------------------------------
(* Senders *)

(* A call begins: msg_evt_get_free_op takes the oldest free op.            *)
Send(s) ==
    /\ up /\ s \in use.callers /\ pc[s] = "out"
    /\ requests < use.requests
    /\ free_op_q # <<>>
    /\ requests' = requests + 1
    /\ mine' = [mine EXCEPT ![s] = requests']
    /\ held' = [held EXCEPT ![s] = Head(free_op_q)]
    /\ free_op_q' = Tail(free_op_q)
    /\ Goto(s, "fill")
    /\ UNCHANGED <<active_op_q, op, ret, worker, history, life>>

(* No op is free, or the wait for the mutex was killed: the call fails.    *)
SendFails(s) ==
    /\ up /\ s \in use.callers /\ pc[s] = "out"
    /\ requests < use.requests
    /\ free_op_q = <<>> \/ s \in use.killable
    /\ requests' = requests + 1
    /\ mine' = [mine EXCEPT ![s] = requests']
    /\ ret' = [ret EXCEPT ![s] = -1]
    /\ UNCHANGED <<queues, op, pc, held, worker, history, life>>

(* Mutant: a waiting sender does not count itself.                         *)
Uncounted(s) ==
    [timeoutValue |-> IF s \in waiters THEN MSG_OP_TIMEOUT ELSE 0, ref_count |-> 1,
     result |-> NoResult, comp |-> 0, req |-> mine[s]]

(* The op as msg_thread_send_2 or _send_wait_3 and the first part of       *)
(* msg_evt_put_op_to_active leave it: cleared, then filled in, with one    *)
(* reference for the worker and one for a sender that will wait.           *)
Filled(s) ==
    [timeoutValue |-> IF s \in waiters THEN MSG_OP_TIMEOUT ELSE 0,
     ref_count |-> IF s \in waiters THEN 2 ELSE 1,
     result |-> IF s \in waiters THEN NoResult ELSE 0, comp |-> 0, req |-> mine[s]]

Fill(s) ==
    /\ pc[s] = "fill"
    /\ op' = [op EXCEPT ![held[s]] = Filled(s)]
    /\ Goto(s, "put")
    /\ UNCHANGED <<queues, held, mine, ret, worker, requests, history, life>>

(* The op goes on the active queue and the worker is woken.                *)
PutActive(s) ==
    /\ pc[s] = "put"
    /\ ~Full(active_op_q)
    /\ active_op_q' = Append(active_op_q, held[s])
    /\ queued' = Append(queued, mine[s])
    /\ ret' = [ret EXCEPT ![s] = 0]
    /\ Goto(s, "check")
    /\ UNCHANGED <<free_op_q, op, held, mine, worker, requests, handled, lost, life>>

(* Mutant: the worker's reference is not taken back.                       *)
PutActiveFailsCounted(s) ==
    /\ pc[s] = "put"
    /\ \/ Full(active_op_q) /\ ret' = [ret EXCEPT ![s] = -4]
       \/ s \in use.killable /\ ret' = [ret EXCEPT ![s] = -2]
    /\ lost' = IF op[held[s]].timeoutValue # 0 THEN lost ELSE lost \union {held[s]}
    /\ Goto(s, "end")
    /\ UNCHANGED <<queues, op, held, mine, worker, requests, handled, queued, life>>

(* The queue is full, or the wait for its mutex was killed: the worker's   *)
(* reference is taken back.  Nobody puts an op back that is not waited for.*)
PutActiveFails(s) ==
    /\ pc[s] = "put"
    /\ \/ Full(active_op_q) /\ ret' = [ret EXCEPT ![s] = -4]
       \/ s \in use.killable /\ ret' = [ret EXCEPT ![s] = -2]
    /\ op' = [op EXCEPT ![held[s]].ref_count = @ - 1]
    /\ lost' = IF op[held[s]].timeoutValue # 0 THEN lost ELSE lost \union {held[s]}
    /\ Goto(s, "end")
    /\ UNCHANGED <<queues, held, mine, worker, requests, handled, queued, life>>

(* timeoutValue is read from the op, which is already the worker's.        *)
CheckTimeout(s) ==
    /\ pc[s] = "check"
    /\ Goto(s, IF op[held[s]].timeoutValue # 0 THEN "wait" ELSE "end")
    /\ UNCHANGED <<queues, op, held, mine, ret, worker, requests, history, life>>

(* osal_wait_for_signal_timeout returns because the signal was raised, or  *)
(* because it was not in time.                                             *)
Signalled(s) ==
    /\ pc[s] = "wait"
    /\ op[held[s]].comp > 0
    /\ op' = [op EXCEPT ![held[s]].comp = @ - 1]
    /\ Goto(s, "result")
    /\ UNCHANGED <<queues, held, mine, ret, worker, requests, history, life>>

TimesOut(s) ==
    /\ use.timeouts
    /\ pc[s] = "wait"
    /\ op[held[s]].comp = 0
    /\ Goto(s, "result")
    /\ UNCHANGED <<queues, op, held, mine, ret, worker, requests, history, life>>

ReadResult(s) ==
    /\ pc[s] = "result"
    /\ ret' = [ret EXCEPT ![s] = op[held[s]].result]
    /\ Goto(s, "end")
    /\ UNCHANGED <<queues, op, held, mine, worker, requests, history, life>>

(* A sender that waited lets go of the op, and puts it back if it is last. *)
LetGo(s) ==
    /\ pc[s] = "end"
    /\ IF op[held[s]].timeoutValue # 0
       THEN /\ op' = [op EXCEPT ![held[s]].ref_count = @ - 1]
            /\ Goto(s, IF op'[held[s]].ref_count = 0 THEN "free" ELSE "out")
       ELSE /\ Goto(s, "out")
            /\ UNCHANGED op
    /\ UNCHANGED <<queues, held, mine, ret, worker, requests, history, life>>

PutFree(s) ==
    /\ pc[s] = "free"
    /\ IF Full(free_op_q) THEN UNCHANGED free_op_q
                          ELSE free_op_q' = Append(free_op_q, held[s])
    /\ Goto(s, "out")
    /\ UNCHANGED <<active_op_q, op, held, mine, ret, worker, requests, history, life>>

(* The wait for the free queue's mutex was killed: the op stays out.       *)
PutFreeFails(s) ==
    /\ pc[s] = "free"
    /\ s \in use.killable
    /\ lost' = lost \union {held[s]}
    /\ Goto(s, "out")
    /\ UNCHANGED <<queues, op, held, mine, ret, worker, requests, handled, queued, life>>
-----------------------------------------------------------------------------
(* The worker, msg_evt_thread *)

WGoto(l) == wpc' = l

(* Mutant: the newest op is taken.                                         *)
GetNewest ==
    /\ up /\ wpc = "idle" /\ active_op_q # <<>>
    /\ wop' = active_op_q[Len(active_op_q)]
    /\ active_op_q' = SubSeq(active_op_q, 1, Len(active_op_q) - 1)
    /\ WGoto("handle")
    /\ UNCHANGED <<free_op_q, op, senders, wret, requests, history, life>>

(* Mutant: the read index is not advanced.                                 *)
GetPeeking ==
    /\ up /\ wpc = "idle" /\ active_op_q # <<>>
    /\ wop' = Head(active_op_q)
    /\ WGoto("handle")
    /\ UNCHANGED <<queues, op, senders, wret, requests, history, life>>

(* Mutant: the indices are reset although the queue is not empty.          *)
GetResetting ==
    /\ up /\ wpc = "idle" /\ active_op_q # <<>>
    /\ wop' = Head(active_op_q)
    /\ active_op_q' = <<>>
    /\ WGoto("handle")
    /\ UNCHANGED <<free_op_q, op, senders, wret, requests, history, life>>

(* The oldest active op, under the queue's mutex.                          *)
GetActive ==
    /\ up /\ wpc = "idle" /\ active_op_q # <<>>
    /\ wop' = Head(active_op_q)
    /\ active_op_q' = Tail(active_op_q)
    /\ WGoto("handle")
    /\ UNCHANGED <<free_op_q, op, senders, wret, requests, history, life>>

Handle ==
    /\ wpc = "handle"
    /\ handled' = Append(handled, op[wop].req)
    /\ wret' = op[wop].req
    /\ WGoto("dec")
    /\ UNCHANGED <<queues, op, senders, wop, requests, queued, lost, life>>

Dec ==
    /\ wpc = "dec"
    /\ op' = [op EXCEPT ![wop].ref_count = @ - 1]
    /\ WGoto(IF op'[wop].ref_count = 0 THEN "free" ELSE "timed")
    /\ UNCHANGED <<queues, senders, wop, wret, requests, history, life>>

WFree ==
    /\ wpc = "free"
    /\ IF Full(free_op_q) THEN UNCHANGED free_op_q
                          ELSE free_op_q' = Append(free_op_q, wop)
    /\ WGoto("idle")
    /\ UNCHANGED <<active_op_q, op, senders, wop, wret, requests, history, life>>

(* Somebody still holds the op: if it waits, tell it.                      *)
WTimed ==
    /\ wpc = "timed"
    /\ WGoto(IF op[wop].timeoutValue # 0 THEN "result" ELSE "idle")
    /\ UNCHANGED <<queues, op, senders, wop, wret, requests, history, life>>

(* Mutant: the signal is raised before the result is written.              *)
RaiseFirst ==
    /\ wpc = "result"
    /\ op' = [op EXCEPT ![wop].comp = @ + 1]
    /\ WGoto("raise")
    /\ UNCHANGED <<queues, senders, wop, wret, requests, history, life>>

WResult ==
    /\ wpc = "result"
    /\ op' = [op EXCEPT ![wop].result = wret]
    /\ WGoto("raise")
    /\ UNCHANGED <<queues, senders, wop, wret, requests, history, life>>

Raise ==
    /\ wpc = "raise"
    /\ op' = [op EXCEPT ![wop].comp = @ + 1]
    /\ WGoto("idle")
    /\ UNCHANGED <<queues, senders, wop, wret, requests, history, life>>

(* msg_thread_deinit, called with no sender left: the worker stops between *)
(* two ops, active ops are not cleaned up, and the context is cleared.     *)
Deinit ==
    /\ up /\ wpc = "idle" /\ \A s \in Senders : pc[s] = "out"
    /\ up' = FALSE
    /\ free_op_q' = <<>> /\ active_op_q' = <<>>
    /\ op' = [o \in Ops |-> Cleared]
    /\ UNCHANGED <<senders, worker, requests, history, use>>
-----------------------------------------------------------------------------
SenderStep(s) ==
    \/ Fill(s) \/ PutActive(s) \/ PutActiveFails(s) \/ CheckTimeout(s)
    \/ Signalled(s) \/ TimesOut(s) \/ ReadResult(s) \/ LetGo(s)
    \/ PutFree(s) \/ PutFreeFails(s)

WorkerStep ==
    GetActive \/ Handle \/ Dec \/ WFree \/ WTimed \/ WResult \/ Raise

Next == (\E s \in Senders : Send(s) \/ SendFails(s) \/ SenderStep(s)) \/ WorkerStep \/ Deinit

Spec == Init /\ [][Next]_vars

(* Threads that can run are run, and handlers return.                      *)
FairSpec == Spec /\ WF_vars(WorkerStep) /\ \A s \in Senders : WF_vars(SenderStep(s))
-----------------------------------------------------------------------------
(* Who has an op: it is queued, or a sender or the worker will still       *)
(* touch its count or put it back.                                         *)
SenderHas(s, o) == held[s] = o /\ \/ pc[s] \in {"fill", "put", "free"}
                                  \/ s \in waiters /\ pc[s] \in {"check", "wait", "result", "end"}
WorkerHas(o) == wop = o /\ wpc \in {"handle", "dec", "free"}
InQueue(q, o) == o \in Range(q)

(* The reference count does its work: no op is queued twice, a free op is  *)
(* nobody's, and no two senders have the same op.                          *)
QueuedOnce ==
    /\ IsInjective(free_op_q) /\ IsInjective(active_op_q)
    /\ Range(free_op_q) \intersect Range(active_op_q) = {}
    /\ \A o \in Range(free_op_q) : ~WorkerHas(o) /\ \A s \in Senders : ~SenderHas(s, o)
    /\ \A s, t \in Senders, o \in Ops : SenderHas(s, o) /\ SenderHas(t, o) => s = t

(* The free queue never overflows and nothing is leaked: when nothing is   *)
(* going on every op is free again, but for those a kill has cost.         *)
PoolRefilled ==
    (up /\ active_op_q = <<>> /\ wpc = "idle" /\ \A s \in Senders : pc[s] = "out")
        => Range(free_op_q) = Ops \ lost

(* Each request is handled at most once, and in the order of queueing.     *)
HandledInOrder ==
    /\ IsInjective(handled)
    /\ Len(handled) <= Len(queued)
    /\ \A i \in DOMAIN handled : handled[i] = queued[i]

(* A sender that waited and was signalled returns what the handler of its  *)
(* own request returned; one that was not signalled in time returns -9 or  *)
(* its own late result.                                                    *)
OwnResult ==
    \A s \in waiters : pc[s] \in {"end", "free"} /\ ret[s] \in Requests => ret[s] = mine[s]

(* A sender that waits is told the outcome: with handlers that end in time *)
(* it never reads the -9 put there before the op was sent.                 *)
ResultReady ==
    ~use.timeouts =>
        \A s \in waiters : pc[s] = "result" => op[held[s]].result = mine[s]

(* Whatever was queued is handled, unless the thread is deinitialised.     *)
EventuallyHandled ==
    \A r \in AllRequests : (r \in Range(queued)) ~> (r \in Range(handled) \/ ~up)

(* Every call returns: a sender never waits for a signal that was raised   *)
(* on an op it no longer looks at, or never raised.                        *)
SendReturns == \A s \in Senders : (pc[s] # "out") ~> (pc[s] = "out")
=============================================================================
