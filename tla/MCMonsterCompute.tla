-------------------------- MODULE MCMonsterCompute --------------------------
(* Instances of MonsterCompute for TLC.                                     *)
EXTENDS MonsterCompute
=============================================================================
