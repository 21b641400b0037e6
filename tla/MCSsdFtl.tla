------------------------------ MODULE MCSsdFtl ------------------------------
(* Small drives for SsdFtl: with a reserve of two blocks, so that foreground   *)
(* collections run, and without one, so that the thresholds of the background  *)
(* collections are in reach of four blocks; each with and without a hot index. *)
EXTENDS SsdFtl

CONSTANT Used  \* how many units the host uses

Config(refresh, hot) ==
  [refresh |-> refresh, guardband |-> 1, hot |-> hot, used |-> Used]

Foreground == {Config(2, hot) : hot \in BOOLEAN}
Background == {Config(0, hot) : hot \in BOOLEAN}
SmallConfigs == Foreground \cup Background

=============================================================================
