---------------------------- MODULE MCDelegators ----------------------------
(***************************************************************************)
(* The delegators and the pools for model checking: one behaviour is about *)
(* one of them, chosen at the start; nobody touches the others.            *)
(***************************************************************************)
EXTENDS Delegator, CombiningDelegator, Pool

VARIABLE part   \* what the behaviour is about

mcvars == <<dvars, cvars, poolvars, part>>

MCInit ==
  /\ part \in {"delegator", "combining", "pool"}
  /\ DInit /\ CInit /\ PoolInit
  /\ part # "pool" => pool = "simple"
  /\ part # "delegator" => backend = "mcs"

DelegatorNext == part = "delegator" /\ DNext /\ UNCHANGED <<cvars, poolvars, part>>
CombiningNext == part = "combining" /\ CNext /\ UNCHANGED <<dvars, poolvars, part>>
PoolPart      == part = "pool" /\ PoolNext /\ UNCHANGED <<dvars, cvars, part>>

MCNext == DelegatorNext \/ CombiningNext \/ PoolPart

MCSpec == MCInit /\ [][MCNext]_mcvars /\ DFair /\ CFair
=============================================================================
