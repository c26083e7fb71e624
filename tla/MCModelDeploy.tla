---------------------------- MODULE MCModelDeploy ----------------------------
(***************************************************************************)
(* ModelDeploy for TLC, with what the code and the README say of it.       *)
(***************************************************************************)
EXTENDS ModelDeploy

\* train.py:508, "Block promotion if val_acc dropped more than 0.5% from previous
\* model".
NoDowngrade == [][~Downgrade(manifest.version, manifest'.version)]_vars
=============================================================================
