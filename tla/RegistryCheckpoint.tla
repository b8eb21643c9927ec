-------------------------- MODULE RegistryCheckpoint --------------------------
(***************************************************************************)
(* What a snapshot promises, without files, threads or steps of a save:    *)
(* the process may end at any time, and comes back with what was durable;  *)
(* now and then the durable map moves forward, each name to a version      *)
(* between the durable one and the live one.  The names of Unparsed are    *)
(* written and not read back: of them nothing is promised.                 *)
(***************************************************************************)
EXTENDS Naturals

CONSTANTS Names, Configured, Unparsed, MaxVersion

VARIABLES live, durable, loaded

checkpointVars == <<live, durable, loaded>>

Versions == 0..MaxVersion
Parsed   == Names \ Unparsed

FromConfig == [n \in Names |-> IF n \in Configured THEN 1 ELSE 0]

CheckpointInit ==
  /\ live = FromConfig
  /\ durable = [n \in Names |-> 0]
  /\ loaded = FALSE

\* The durable version of a name wins over the configured one.
Recover ==
  /\ ~loaded
  /\ loaded' = TRUE
  /\ live' = [n \in Names |-> IF n \in Parsed /\ durable[n] # 0
                           THEN durable[n] ELSE live[n]]
  /\ UNCHANGED durable

Update(n) ==
  /\ loaded
  /\ live[n] < MaxVersion
  /\ live' = [live EXCEPT ![n] = @ + 1]
  /\ UNCHANGED <<durable, loaded>>

Advance ==
  /\ loaded
  /\ durable' \in [Names -> Versions]
  /\ \A n \in Parsed : durable[n] <= durable'[n] /\ durable'[n] <= live[n]
  /\ \A n \in Configured : durable'[n] # 0
  /\ UNCHANGED <<live, loaded>>

Lose ==
  /\ live' = FromConfig
  /\ loaded' = FALSE
  /\ UNCHANGED durable

CheckpointNext ==
  \/ Recover \/ Advance \/ Lose
  \/ \E n \in Names : Update(n)

Spec == CheckpointInit /\ [][CheckpointNext]_checkpointVars
=============================================================================
