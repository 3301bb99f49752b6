----------------------------- MODULE FlowState -----------------------------
(***************************************************************************)
(* The document kept in .sim-flow/state.toml and the pure transformations  *)
(* `impl State` offers on it.  A step is a pair <<flow, position>>: its    *)
(* flow is the one whose registry lists it and its position is its index   *)
(* in StepRegistry::order_for.  A gate entry is abstracted to the one bit  *)
(* the drivers read, `passed`; timestamps are left out.                    *)
(***************************************************************************)
EXTENDS Integers, Sequences

CONSTANT Length    \* Length[f]: how many steps flow f has

Flows == {"dm", "sv"}

ASSUME LengthAssumption == Length \in [Flows -> Nat \ {0}]

Registry(f) == {f} \X (1 .. Length[f])
Steps == UNION {Registry(f) : f \in Flows}
Last(f) == <<f, Length[f]>>

HasNext(s) == s[2] < Length[s[1]]
NextStep(s) == <<s[1], s[2] + 1>>
HasPrerequisite(s) == s[2] > 1
Prerequisite(s) == <<s[1], s[2] - 1>>
Downstream(s) == {s[1]} \X (s[2] .. Length[s[1]])

State == [flow     : Flows,
          current  : Steps,
          passed   : SUBSET Steps,
          archived : Seq(SUBSET Steps)]

-----------------------------------------------------------------------------
New(f) == [flow |-> f, current |-> <<f, 1>>, passed |-> {}, archived |-> <<>>]

MarkPassed(st, s) == [st EXCEPT !.passed = @ \union {s}]

\* The advance every driver performs once the gate is clean: mark the gate
\* passed, then move current_step unless the step is the last of its flow.
Advanced(st, s) ==
    [MarkPassed(st, s) EXCEPT !.current = IF HasNext(s) THEN NextStep(s) ELSE @]

\* `sim-flow run`: mark the gate passed and leave current_step on the step.
Ran(st, s) == [MarkPassed(st, s) EXCEPT !.current = s]

\* Mutant: a reset that does not cascade to the downstream steps.
ResetOneStep(st, s) == [st EXCEPT !.passed = @ \ {s}, !.current = s]

Reset(st, s) ==
    [st EXCEPT !.passed = @ \ Downstream(s), !.current = s]

\* Mutant: the conversion archives the gates and keeps them.
FlipKeepingGates(st) ==
    IF st.flow # "dm" THEN st
    ELSE [flow     |-> "sv",
          current  |-> <<"sv", 1>>,
          passed   |-> st.passed,
          archived |-> Append(st.archived, st.passed)]

FlipToSvConvert(st) ==
    IF st.flow # "dm" THEN st
    ELSE [flow     |-> "sv",
          current  |-> <<"sv", 1>>,
          passed   |-> {},
          archived |-> Append(st.archived, st.passed)]

=============================================================================
