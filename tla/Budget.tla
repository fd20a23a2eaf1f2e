------------------------------- MODULE Budget -------------------------------
(***************************************************************************)
(* How many workers scan and post-process: start-up divides the database   *)
(* pool between the HTTP API and the two stages, and the stages' share     *)
(* after the connections the provider allows.                              *)
(***************************************************************************)
EXTENDS Integers

CONSTANTS BudgetInputs  \* settings to check: [nntp, db, reserved, scan]

ASSUME BudgetAssumption == \A c \in BudgetInputs : {c.nntp, c.db, c.reserved, c.scan} \subseteq Int

VARIABLES setup, \* the configuration the process starts with
          plan   \* ResourceBudget, or <<>> before start-up

budgetVars == <<setup, plan>>

\* config.Validate, as far as it constrains the budget.
Validate(c) == c.db > 0 /\ c.reserved < c.db /\ c.nntp > 0 /\ c.scan >= 0

clamp(v, lo, hi) == IF v < lo THEN lo ELSE IF v > hi THEN hi ELSE v

\* A quarter of the pool, 1 to 4 connections and never all of it.
defaultReservedAPIConns(db) ==
  IF db <= 1 THEN 0 ELSE clamp(clamp(db \div 4, 1, 4), 1, db - 1)

\* Mutant: both stages round their share up.
fitRoundedUp(scan, pp, budget) ==
  IF scan + pp <= budget THEN <<scan, pp>>
  ELSE <<(budget * scan + scan + pp - 1) \div (scan + pp), (budget * pp + scan + pp - 1) \div (scan + pp)>>

\* In proportion, each stage at least one worker.
fitWithinBudget(scan, pp, budget) ==
  LET s == clamp((budget * scan) \div (scan + pp), 1, budget - 1)
  IN IF scan + pp <= budget THEN <<scan, pp>>
     ELSE IF budget <= 2 THEN <<1, 1>>
     ELSE <<s, budget - s>>

\* An operator's choice for scanning is honoured and flagged; post-processing
\* has no setting.
computeBudget(c) ==
  LET reserved == clamp(IF c.reserved < 0 THEN defaultReservedAPIConns(c.db) ELSE c.reserved,
                        0, c.db - 1)
      pipeline == c.db - reserved
      pp == clamp(c.nntp \div 2, 1, 4)
      fit == IF c.scan > 0 THEN <<c.scan, pp>>
             ELSE fitWithinBudget(clamp(c.nntp \div 2, 1, 8), pp, pipeline)
  IN [reserved |-> reserved, pipeline |-> pipeline, scanWorkers |-> fit[1], ppWorkers |-> fit[2],
      overcommit |-> c.scan > 0 /\ c.scan + pp > pipeline]

BudgetInit == /\ setup \in {c \in BudgetInputs : Validate(c)}
              /\ plan = <<>>

StartWorkers == /\ plan = <<>>
                /\ plan' = computeBudget(setup)
                /\ UNCHANGED setup

BudgetRests == plan # <<>> /\ UNCHANGED budgetVars

BudgetNext == StartWorkers \/ BudgetRests

BudgetSpec == BudgetInit /\ [][BudgetNext]_budgetVars
-----------------------------------------------------------------------------
\* Pipeline load cannot starve the API: unless the plan is flagged, the workers
\* leave the reserved connections free, both stages run, and none of the share is
\* left unused that the provider's connections could fill.  A share of one cannot
\* hold both stages.
BudgetHolds ==
  plan # <<>> =>
    LET workers == plan.scanWorkers + plan.ppWorkers
        wanted == clamp(setup.nntp \div 2, 1, 8) + clamp(setup.nntp \div 2, 1, 4)
    IN /\ plan.scanWorkers >= 1 /\ plan.ppWorkers >= 1
       /\ plan.reserved + plan.pipeline = setup.db
       /\ setup.reserved < 0 /\ setup.db > 1 => plan.reserved >= 1
       /\ ~plan.overcommit => workers + plan.reserved <= setup.db \/ plan.pipeline = 1
       /\ setup.scan = 0 => workers = wanted \/ workers = plan.pipeline \/ plan.pipeline = 1
=============================================================================
