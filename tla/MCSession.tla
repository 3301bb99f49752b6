------------------------------- MODULE MCSession -------------------------------
(* Sessions of one step for TLC: an unattended work session, its retry on     *)
(* blockers, an unattended critique and a session of a user.                  *)
EXTENDS Session

MCModes == {[auto |-> TRUE, kind |-> "work", blockers |-> FALSE],
            [auto |-> TRUE, kind |-> "work", blockers |-> TRUE],
            [auto |-> TRUE, kind |-> "critique", blockers |-> FALSE],
            [auto |-> FALSE, kind |-> "work", blockers |-> FALSE]}

================================================================================
