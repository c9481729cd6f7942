--------------------------- MODULE MCDEScheduler ---------------------------
(* One discrete-event scheduler on a small galaxy. *)
EXTENDS DEScheduler, MCDEGalaxies

Once == [stops |-> {2}, halts |-> {}, maxHalts |-> 0, inverseTimeScale |-> 1]
StatisticsCase ==
    [galaxy |-> StatisticsGalaxy, scheduler |-> "DE", address |-> AnyOrder, use |-> Once]
StatisticsCases == {StatisticsCase}
=============================================================================
