---------------------------- MODULE MC_Operator ----------------------------
(***************************************************************************)
(* Instantiation of Operator for TLC: runbooks of two steps drawn from    *)
(* every combination of `if`, runner, post-hooks and loop below.          *)
(***************************************************************************)
EXTENDS Operator

\* No hooks, a lone test (the common assertion step), and all three.
MC_HookSets == {{}, {"test"}, {"dump", "bind", "test"}}

MC_NoLoop == [present |-> FALSE, count |-> 0, until |-> FALSE]

\* Loops whose count evaluates to 1 or 2, with and without `until`.
MC_Loops ==
  {MC_NoLoop} \cup
  {[present |-> TRUE, count |-> n, until |-> u] : n \in 1..2, u \in BOOLEAN}

\* The same, with a count that evaluates to 0 added.
MC_LoopsWithZero ==
  {MC_NoLoop} \cup
  {[present |-> TRUE, count |-> n, until |-> u] : n \in 0..1, u \in BOOLEAN}

MC_Steps(loops) ==
  [cond : BOOLEAN, runner : BOOLEAN, hooks : MC_HookSets, loop : loops]

MC_StepConfigs == MC_Steps(MC_Loops)

MC_StepConfigsWithZero == MC_Steps(MC_LoopsWithZero)

\* For liveness: no `if`, no hooks or a lone test, loops of count 2.
MC_StepConfigsLive ==
  [cond : {FALSE}, runner : BOOLEAN, hooks : {{}, {"test"}},
   loop : {MC_NoLoop} \cup
          {[present |-> TRUE, count |-> 2, until |-> u] : u \in BOOLEAN}]

=============================================================================
