--------------------------- MODULE MCFileLogWriter ---------------------------
(***************************************************************************)
(* Instances of FileLogWriter for TLC.                                     *)
(***************************************************************************)
EXTENDS FileLogWriter

MCConfigs == {[enabled |-> TRUE, echo |-> FALSE, cap |-> 1], [enabled |-> FALSE, echo |-> TRUE, cap |-> 0]}

=============================================================================
