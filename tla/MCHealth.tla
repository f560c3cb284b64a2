------------------------------- MODULE MCHealth -------------------------------
(***************************************************************************)
(* Small instances of Health.                                              *)
(***************************************************************************)
EXTENDS Health, MCSupervisor

\* Every process of every pool.
MCDesired == [p \in Pools |-> 100]

===============================================================================
