------------------------------- MODULE MCEth -------------------------------
(* Uses of the Ethernet driver for the runs of EthTx. *)
EXTENDS EthTx

Use(present, lens, burst, down, reset, fail) ==
  [devs |-> present, sizes |-> lens, bursts |-> burst, downs |-> down,
   resets |-> reset, fails |-> fail]

\* Two devices competing for the ring; two devices and resets; one device that
\* is taken down and up and reset.
Regular ==
  {Use({0, 1}, {1, 2}, TRUE, {}, FALSE, FALSE),
   Use({0, 1}, {1}, FALSE, {}, TRUE, FALSE),
   Use({0}, {1}, FALSE, {0}, TRUE, TRUE)}

\* mtk_open may fail while a reset reopens the devices.
Faulty == {Use({0, 1}, {1}, FALSE, {}, TRUE, TRUE)}
=============================================================================
