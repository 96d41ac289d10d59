---------------------------- MODULE MCMysqlConn ----------------------------
(* Instances of MysqlConn for TLC. *)
EXTENDS MysqlConn, TLC

Symmetry == Permutations(Ctx)
=============================================================================
