-------------------------- MODULE MCDeadlineAdmission --------------------------
(* DeadlineAdmission for TLC: see DeadlineAdmission.cfg for the values.        *)
EXTENDS DeadlineAdmission
================================================================================
