----------------------------- MODULE FlowStore -----------------------------
(***************************************************************************)
(* What the state file promises when every writer goes through             *)
(* State::transaction: advances take effect one at a time, each on the     *)
(* document the previous one left, and a host failure can only take the    *)
(* document back to the last version that reached the disk.                *)
(***************************************************************************)
EXTENDS FlowState

VARIABLES st,      \* the document a reader of state.toml gets
          stable   \* the version that survives a host failure

storeVars == <<st, stable>>

StoreInit == /\ \E f \in Flows : st = New(f)
             /\ stable = st

StoreAdvance == /\ \E s \in Registry(st.flow) : st' = Advanced(st, s)
                /\ UNCHANGED stable

Persist == /\ stable' = st
           /\ UNCHANGED st

HostFailure == /\ st' \in {st, stable}
               /\ stable' = st'

StoreNext == StoreAdvance \/ Persist \/ HostFailure

StoreSpec == StoreInit /\ [][StoreNext]_storeVars

=============================================================================
