------------------------ MODULE PublishQueueCountsMC ------------------------
(***************************************************************************)
(* Two settings of the queue in which only Bazos takes an ad away.  In     *)
(* "counts" requests do not overlap, the counts are reconciled and the cap *)
(* is within reach; in "workers" two claims and two enqueues overlap and   *)
(* any of them is lost, until the first slots are due.  A third ad is on   *)
(* Bazos from the start; in "workers" nothing happens to it.               *)
(***************************************************************************)
EXTENDS PublishQueueMC

VARIABLE setting

Counts == INSTANCE PublishQueue WITH
  MaxRunning <- 1, Crashes <- FALSE, Enqueuers <- {"e1"}, PacingMax <- 1

Workers == INSTANCE PublishQueue WITH
  Ads <- {d1, d2}, MaxTime <- 1, Recorders <- {}, Expirers <- {},
  Reconcilers <- {}

SettingsInit == Init /\ setting \in {"counts", "workers"}

SettingsNext ==
  /\ \/ setting = "counts" /\ Counts!Next
     \/ setting = "workers" /\ Workers!Next
  /\ UNCHANGED setting

SettingsSpec == SettingsInit /\ [][SettingsNext]_<<vars, setting>>
=============================================================================
