----------------------------- MODULE Degradation -----------------------------
(* Model degradation: DegradationEngine and BudgetVelocityTracker of         *)
(* core/degrader.py, over the treasury whose balance they watch.             *)
(*                                                                           *)
(* The engine takes no lock.  Every read and every write of a shared field   *)
(* is a step of its own (the remaining share, the used share, the completed  *)
(* steps, the forced model, the appended event, the forced model written):   *)
(* other threads use the treasury, complete steps and resolve models, for    *)
(* the same agents too, in between.                                          *)
EXTENDS Treasury, Pricing

CONSTANTS
  Caller,          \* the threads that resolve models and complete steps
  Agent,           \* the agent ids
  AgentsOf,        \* the agents each thread resolves for
  Table,           \* the pricing table: model -> price
  Requested,       \* the models asked for, listed in the table or not
  Threshold,       \* critical_remaining_threshold, in percent
  ExpectedSteps,   \* expected_total_steps
  MaxSteps,        \* bound on the steps completed
  MaxSwaps         \* bound on the events

Model == DOMAIN Table

UnknownPricing == "UnknownModelPricingError"
CallbackError  == "on_degrade raised"

ASSUME DegradationAssumption ==
  /\ AgentsOf \in [Caller -> SUBSET Agent]
  /\ \A m \in Model : /\ Table[m].input \in Nat /\ Table[m].output \in Nat
                      /\ Table[m].degradeTo \in Model \cup {NoModel}
  /\ {NoModel, UnknownPricing, CallbackError} \cap Model = {}
  /\ Threshold \in Nat /\ MaxSteps \in Nat /\ MaxSwaps \in Nat
  /\ ExpectedSteps \in Nat \ {0}

VARIABLES
  completed,   \* BudgetVelocityTracker._completed_steps
  forced,      \* _forced_models; NoModel for an agent that is not in it
  events,      \* _events
  decision     \* where each thread stands, and what it has read

engineVars == <<completed, forced, events, decision>>
degradationVars == <<treasuryVars, engineVars>>

Decision == [at : {"idle", "step", "remaining", "used", "critical",
                   "emit", "force"},
             agent : Agent \cup {NoModel}, requested : Requested \cup {NoModel},
             low : BOOLEAN, used : Int, steps : Nat,
             target : Model \cup {NoModel},
             answer : Model \cup Requested
                        \cup {NoModel, UnknownPricing, CallbackError}]

Event == [agent : Agent, original : Requested, degraded : Model]

Undecided == [at |-> "idle", agent |-> NoModel, requested |-> NoModel,
              low |-> FALSE, used |-> 0, steps |-> 0, target |-> NoModel,
              answer |-> NoModel]

DegradationInit ==
  /\ Init
  /\ completed = 0
  /\ forced = [a \in Agent |-> NoModel]
  /\ events = << >>
  /\ decision = [c \in Caller |-> Undecided]

Used(available) == IF TotalBudget = 0 THEN 1 ELSE TotalBudget - available
Base == IF TotalBudget = 0 THEN 1 ELSE TotalBudget

\* Mutant: the threshold is compared with the used share.
LowUsed(available) == Used(available) * 100 <= Threshold * Base

\* remaining_ratio <= critical_remaining_threshold at this balance.
Low(available) == (Base - Used(available)) * 100 <= Threshold * Base

\* is_burn_outstripping_progress: the used share is above the share of steps.
BurnOutstrips(used) ==
  used * ExpectedSteps > Smaller(completed, ExpectedSteps) * Base

\* resolve_model ends: with a model, or with an exception.
Answer(c, m) ==
  decision' = [decision EXCEPT ![c] =
    [Undecided EXCEPT !.agent = decision[c].agent,
                      !.requested = decision[c].requested, !.answer = m]]
-----------------------------------------------------------------------------
\* _completed_steps += 1 reads and writes: a step completed in between is lost.
RecordStepCompleted(c) ==
  \/ /\ decision[c].at = "idle"
     /\ completed < MaxSteps
     /\ decision' = [decision EXCEPT ![c] =
          [Undecided EXCEPT !.at = "step", !.steps = completed]]
     /\ UNCHANGED <<treasuryVars, completed, forced, events>>
  \/ /\ decision[c].at = "step"
     /\ completed' = decision[c].steps + 1
     /\ decision' = [decision EXCEPT ![c] = Undecided]
     /\ UNCHANGED <<treasuryVars, forced, events>>

\* resolve_model is called; _is_critical reads the remaining share.
ReadRemaining(c, a, m) ==
  /\ decision[c].at = "idle"
  /\ decision' = [decision EXCEPT ![c] =
       [Undecided EXCEPT !.at = "remaining", !.agent = a, !.requested = m,
                         !.low = Low(Available)]]
  /\ UNCHANGED <<treasuryVars, completed, forced, events>>

\* _is_critical reads the used share; the request is served as it is unless
\* the remaining share was low.
ReadUtilization(c) ==
  /\ decision[c].at = "remaining"
  /\ IF decision[c].low
     THEN decision' = [decision EXCEPT ![c].at = "used",
                                       ![c].used = Used(Available)]
     ELSE Answer(c, decision[c].requested)
  /\ UNCHANGED <<treasuryVars, completed, forced, events>>

\* _is_critical compares the used share it read with the steps completed by now.
Compare(c) ==
  /\ decision[c].at = "used"
  /\ IF BurnOutstrips(decision[c].used)
     THEN decision' = [decision EXCEPT ![c].at = "critical"]
     ELSE Answer(c, decision[c].requested)
  /\ UNCHANGED <<treasuryVars, completed, forced, events>>

\* The model that is degraded: the one last forced, else the one asked for.
Current(c) == IF forced[decision[c].agent] = NoModel
              THEN decision[c].requested ELSE forced[decision[c].agent]

\* Mutant: the lookup ignores what the agent was forced to.
LookRequested(c) ==
  LET current == decision[c].requested IN
  /\ decision[c].at = "critical"
  /\ IF current \notin Model THEN Answer(c, UnknownPricing)
     ELSE IF Table[current].degradeTo = NoModel THEN Answer(c, current)
     ELSE decision' = [decision EXCEPT ![c].at = "emit",
                                       ![c].target = Table[current].degradeTo]
  /\ UNCHANGED <<treasuryVars, completed, forced, events>>

\* Mutant: a model without a target is degraded to none.
LookPastFloor(c) ==
  LET current == Current(c) IN
  /\ decision[c].at = "critical"
  /\ IF current \notin Model THEN Answer(c, UnknownPricing)
     ELSE decision' = [decision EXCEPT ![c].at = "emit",
                                       ![c].target = Table[current].degradeTo]
  /\ UNCHANGED <<treasuryVars, completed, forced, events>>

\* degrade_target: an unlisted model raises, a floor model is served.
Look(c) ==
  LET current == Current(c) IN
  /\ decision[c].at = "critical"
  /\ IF current \notin Model THEN Answer(c, UnknownPricing)
     ELSE IF Table[current].degradeTo = NoModel THEN Answer(c, current)
     ELSE decision' = [decision EXCEPT ![c].at = "emit",
                                       ![c].target = Table[current].degradeTo]
  /\ UNCHANGED <<treasuryVars, completed, forced, events>>

\* The two writes of a swap.
Report(c) ==
  /\ Len(events) < MaxSwaps
  /\ events' = Append(events, [agent |-> decision[c].agent,
                               original |-> decision[c].requested,
                               degraded |-> decision[c].target])
Remember(c) == forced' = [forced EXCEPT ![decision[c].agent] = decision[c].target]

\* Mutant: the model is forced before its event is appended.
SwapLate(c) ==
  \/ /\ decision[c].at = "emit"
     /\ Remember(c)
     /\ decision' = [decision EXCEPT ![c].at = "force"]
     /\ UNCHANGED <<treasuryVars, completed, events>>
  \/ /\ decision[c].at = "force"
     /\ Report(c)
     /\ Answer(c, decision[c].target)
     /\ UNCHANGED <<treasuryVars, completed, forced>>

\* The event is appended, then the model forced; the caller's on_degrade runs
\* last and may raise.
Swap(c) ==
  \/ /\ decision[c].at = "emit"
     /\ Report(c)
     /\ decision' = [decision EXCEPT ![c].at = "force"]
     /\ UNCHANGED <<treasuryVars, completed, forced>>
  \/ /\ decision[c].at = "force"
     /\ Remember(c)
     /\ Answer(c, decision[c].target) \/ Answer(c, CallbackError)
     /\ UNCHANGED <<treasuryVars, completed, events>>

\* The session goes on around the engine.
UseTreasury ==
  /\ Len(ledger) < MaxEvents
  /\ Operation(Amount, Spend)
  /\ UNCHANGED engineVars

DegradationNext ==
  \/ UseTreasury
  \/ \E c \in Caller :
       \/ RecordStepCompleted(c)
       \/ \E a \in AgentsOf[c], m \in Requested : ReadRemaining(c, a, m)
       \/ ReadUtilization(c)
       \/ Compare(c)
       \/ Look(c)
       \/ Swap(c)

DegradationSpec == DegradationInit /\ [][DegradationNext]_degradationVars
-----------------------------------------------------------------------------
(* The types of the engine's state and of its callers'.                      *)
DegradationTypeOK ==
  /\ completed \in Nat
  /\ forced \in [Agent -> Model \cup {NoModel}]
  /\ events \in Seq(Event)
  /\ decision \in [Caller -> Decision]

Reported(a, m) ==
  \E i \in DOMAIN events : events[i].agent = a /\ events[i].degraded = m

(* No swap goes unreported, whichever threads resolve for the same agent at  *)
(* once and whatever on_degrade does: a model an agent is forced to, and a   *)
(* model a call was answered with in place of the one it asked for, are      *)
(* the degraded model of an event of that agent.                             *)
SwapsAreReported ==
  /\ \A a \in Agent : forced[a] # NoModel => Reported(a, forced[a])
  /\ \A c \in Caller :
       decision[c].answer \in Model \ {decision[c].requested} =>
         Reported(decision[c].agent, decision[c].answer)

\* No two threads resolve models for this agent.
Exclusive(a) == \A c, d \in Caller : a \in AgentsOf[c] \cap AgentsOf[d] => c = d

(* An agent with a thread of its own is only ever moved from a forced model  *)
(* to a strictly cheaper one, whatever models it asks for later and whatever *)
(* the threads of other agents decide and write in between.                  *)
ForcedOnlyCheapens ==
  [][\A a \in Agent :
       Exclusive(a) /\ forced[a] # NoModel /\ forced'[a] # forced[a] =>
         forced'[a] \in Model /\ Cheaper(Table[forced'[a]], Table[forced[a]])
    ]_degradationVars

(* A session whose balance never went down to the threshold has no swap,     *)
(* although the two shares and the steps are read at different times: some   *)
(* audit entry shows the shortage.                                           *)
SwapsNeedLowBudget ==
  events # << >> =>
    \E i \in 0 .. Len(ledger) : BalanceAfter(i) * 100 <= Threshold * TotalBudget
=============================================================================
