----------------------------- MODULE MCZkClient -----------------------------
(***************************************************************************)
(* Model-checking instance of ZkClient: two children names, so that a      *)
(* change can replace the leader; two zk.Connect calls, so that a retry    *)
(* after a timeout happens; enough library steps for a session to be       *)
(* established, lost and established again.                                *)
(***************************************************************************)
EXTENDS ZkClient

MCNodes == {1, 2}

=============================================================================
