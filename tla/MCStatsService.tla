---------------------------- MODULE MCStatsService ----------------------------
(* StatsService with the instances of stats_service.cfg and of                *)
(* claim_StopCompletes.cfg.                                                   *)
EXTENDS StatsService, TLC

=============================================================================
