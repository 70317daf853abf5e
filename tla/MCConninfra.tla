----------------------------- MODULE MCConninfra -----------------------------
(* Ways to use the conninfra driver, for ConninfraCore.                    *)
EXTENDS ConninfraCore

BT == 0

(* The drivers of two radios, one of which registers callbacks: they ask   *)
(* for power or no power m times and for a reset n times, and their sends  *)
(* fail or do not.                                                         *)
Use(up, m, n, f) ==
    [auto_up |-> up, asks |-> {BT, WIFI}, trgs |-> {BT, WIFI}, cbs |-> {WIFI},
     fails |-> f, calls |-> m, resets |-> n]

(* Built with CONFIG_CONNINFRA_AUTO_UP, as the boards' configurations are, *)
(* with resets; without it, with no reset; with nothing to reset.          *)
Regular == {Use(TRUE, 2, 2, TRUE), Use(FALSE, 5, 0, FALSE), Use(FALSE, 0, 2, TRUE)}

(* Only the radios that ask have power, and there is a reset.              *)
OnDemand == {Use(FALSE, 3, 1, FALSE)}
=============================================================================
