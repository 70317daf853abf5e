-------------------------------- MODULE MCMsg --------------------------------
(* Ways to use a message thread, for MsgThread.                             *)
EXTENDS MsgThread

Use(call, wait, late, kill, n) ==
    [callers |-> call, waiters |-> wait, timeouts |-> late, killable |-> kill,
     requests |-> n]

Two == {"s1", "s2"}

(* All senders wait and handlers end in time; all wait, some for too long,  *)
(* and one may be killed; none waits, and one may be killed.                *)
Regular == {Use(Senders, Senders, FALSE, {}, 3),
            Use(Two, Two, TRUE, {"s1"}, 3),
            Use(Senders, {}, FALSE, {"s1"}, 3)}

(* All senders wait, some for too long.                                     *)
Late == {Use(Two, Two, TRUE, {}, 3)}
=============================================================================
